------------------------------ MODULE Conffile ------------------------------
(***************************************************************************)
(* libcommon/conffile.c: the parser of configuration files.  A line goes   *)
(* through four passes, each with its own idea of what a backslash means:  *)
(* white space is trimmed, comments are cut, a backslash that is then last *)
(* joins the next line, and what was joined is split into arguments.       *)
(*                                                                         *)
(* A line is a sequence of symbols: the four characters the parser knows   *)
(* (" ", "\\", "#", "\"") and words, characters that always go together.   *)
(* An option's callback belongs to the caller of conffile_parse: the parse *)
(* stops at "callback" and the caller's action goes on with Return.        *)
(***************************************************************************)
EXTENDS Integers, Sequences, FiniteSets, SequencesExt

CONSTANTS
  Tables,         \* the callers and the options each passes to conffile_parse
  Files,          \* what each of them may find: contents, a failure or Missing
  Number,         \* strtol: the words it converts, with their values
  Decimals,       \* words only strtod converts
  TrueWords, FalseWords, \* what stands for a truth value, in lower case
  Upper,          \* words in upper case, with the lower case they equal
  INT_MOD,        \* an int has the values -INT_MOD/2 .. INT_MOD/2 - 1
  CONFFILE_MAX_LINELEN, CONFFILE_MAX_OPTIONNAMELEN,
  CONFFILE_MAX_ARGS, CONFFILE_MAX_ARGLEN      \* in symbols, not characters

Space == " "
Backslash == "\\"
Hash == "#"
Quote == "\""

ParseErrs == {"option_unknown", "option_toomany", "option_toofew",
              "overflow_linelen", "overflow_optionlen", "overflow_arglen",
              "arg_missing", "arg_toomany", "arg_invalid", "quote",
              "continuation", "callback"}

ASSUME ConffileAssumption ==
  /\ INT_MOD \in Nat /\ INT_MOD % 2 = 0
  /\ {CONFFILE_MAX_LINELEN, CONFFILE_MAX_OPTIONNAMELEN, CONFFILE_MAX_ARGS,
      CONFFILE_MAX_ARGLEN} \subseteq Nat \ {0, 1}

VARIABLES
  caller,     \* who called conffile_parse
  cf,         \* struct conffile
  unread,     \* the lines of the file not read yet
  linebuf,    \* what _readline has joined so far
  counts,     \* *count_ptr of each option
  data,       \* what the option being parsed hands to its callback
  pc,         \* where conffile_parse is, or its caller
  written,    \* history: the entries the file was written from, if it was
  delivered   \* history: the options whose callbacks accepted their data

cvars == <<caller, cf, unread, linebuf, counts, data, pc, written, delivered>>

options == Tables[caller].options
ForCaller(c, S) ==             \* another caller's choices are not made
  IF caller = c THEN S ELSE {CHOOSE x \in S : TRUE}
NoData == [option |-> 0, value |-> <<>>]

(* conffile_handle_create *)
Created == [errnum |-> "success", fd |-> FALSE, line_num |-> 0,
            line_count |-> 0, end_of_file |-> FALSE, optionname |-> <<>>]
-----------------------------------------------------------------------------
(* The passes over a line. *)
TrimRight(line) ==                               \* _remove_trailing_whitespace
  SubSeq(line, 1, Max({0} \cup {k \in 1..Len(line) : line[k] # Space}))

TrimLeft(line) ==                                \* _move_past_whitespace
  SubSeq(line, Min({Len(line) + 1} \cup
                   {k \in 1..Len(line) : line[k] # Space}), Len(line))

(* An odd number of backslashes stands right before line[k]. *)
Escaped(line, k) ==
  LET run == k - 1 - Max({0} \cup {j \in 1..k-1 : line[j] # Backslash})
  IN  run % 2 = 1

RemoveComments_Unescaped(line) ==                              \* mutant
  LET hashes == {k \in 1..Len(line) : line[k] = Hash}
  IN  IF hashes = {} THEN line ELSE SubSeq(line, 1, Min(hashes) - 1)
RemoveComments(line) ==
  LET hashes == {k \in 1..Len(line) : line[k] = Hash /\ ~Escaped(line, k)}
  IN  IF hashes = {} THEN line ELSE SubSeq(line, 1, Min(hashes) - 1)

(* _parse_args: one symbol.  An argument begins at the first symbol that   *)
(* is not white space and ends at the next white space outside of quotes.  *)
Scanning == [args |-> <<>>, arg |-> <<>>, inside |-> FALSE, quoted |-> FALSE,
             escaped |-> FALSE, errnum |-> "success"]

AddSymbol(s, c) ==
  [s EXCEPT !.arg = Append(@, c), !.escaped = FALSE, !.inside = TRUE,
            !.errnum = IF Len(s.arg) + 2 = CONFFILE_MAX_ARGLEN
                       THEN "overflow_arglen" ELSE @]

EndArg(s) == [s EXCEPT !.args = Append(@, s.arg), !.arg = <<>>,
                       !.inside = FALSE]

ScanEscaped(s, c) ==
  IF c \in {Backslash, Hash, Quote} THEN AddSymbol(s, c)
  ELSE [s EXCEPT !.errnum = "continuation"]

ScanSymbol(s, c) ==
  IF s.errnum # "success" THEN s
  ELSE IF s.escaped THEN ScanEscaped(s, c)
  ELSE IF c = Space /\ ~s.quoted THEN IF s.inside THEN EndArg(s) ELSE s
  ELSE IF ~s.inside /\ Len(s.args) = CONFFILE_MAX_ARGS
       THEN [s EXCEPT !.errnum = "arg_toomany"]
  ELSE CASE c = Quote -> [s EXCEPT !.quoted = ~@, !.inside = TRUE]
         [] c = Backslash -> [s EXCEPT !.escaped = TRUE, !.inside = TRUE]
         [] OTHER -> AddSymbol(s, c)

ParseArgs(line) ==
  LET s == FoldLeft(ScanSymbol, Scanning, line)
  IN  IF s.errnum # "success" THEN s
      ELSE IF s.escaped THEN [s EXCEPT !.errnum = "continuation"]
      ELSE IF s.quoted THEN [s EXCEPT !.errnum = "quote"]
      ELSE IF s.inside THEN EndArg(s) ELSE s
-----------------------------------------------------------------------------
(* What an argument means. *)
Fold(w) == IF w \in DOMAIN Upper THEN Upper[w] ELSE w
SameName(a, b) ==                                \* strcasecmp
  Len(a) = Len(b) /\ \A k \in 1..Len(a) : Fold(a[k]) = Fold(b[k])

(* strtol and strtod skip leading white space, and must use the argument   *)
(* up; of the empty one there is nothing to use up. *)
IsNumber(arg, words) ==
  arg = <<>> \/ (Len(TrimLeft(arg)) = 1 /\ Last(arg) \in words)

(* data.intval is an int, strtol returns a long. *)
ToInt(n) == ((n + INT_MOD \div 2) % INT_MOD) - INT_MOD \div 2
IntVal(arg) == IF arg = <<>> THEN 0 ELSE ToInt(Number[Last(arg)])

IsBool(arg) ==
  Len(arg) = 1 /\ Fold(arg[1]) \in TrueWords \cup FalseWords
BoolVal(arg) == IF Fold(arg[1]) \in TrueWords THEN 1 ELSE 0

Single == {"bool", "int", "double", "string"}
Lists == {"list_int", "list_double", "list_string"}

(* The checks of the number of arguments, in their order. *)
NumArgsErr(o, n) ==
  CASE o.type = "flag" /\ n # 0 -> "arg_toomany"
    [] o.type \in Single \cup Lists /\ n = 0 -> "arg_missing"
    [] o.type \in Single /\ n > 1 -> "arg_toomany"
    [] o.type \in Lists /\ o.type_arg > 0 /\ n < o.type_arg -> "arg_missing"
    [] o.type \in Lists /\ o.type_arg > 0 /\ n > o.type_arg -> "arg_toomany"
    [] OTHER -> "success"

ValidArg(type, arg) ==
  CASE type = "bool" -> IsBool(arg)
    [] type \in {"int", "list_int"} -> IsNumber(arg, DOMAIN Number)
    [] type \in {"double", "list_double"} ->
         IsNumber(arg, DOMAIN Number \cup Decimals)
    [] OTHER -> TRUE

ValueOf(type, args) ==
  CASE type = "bool" -> <<BoolVal(args[1])>>
    [] type \in {"int", "list_int"} -> [k \in DOMAIN args |-> IntVal(args[k])]
    [] OTHER -> args
-----------------------------------------------------------------------------
(***************************************************************************)
(* conffile_parse.  What was written is read back from written.            *)
(***************************************************************************)
ParseInit ==
  /\ cf = Created /\ unread = <<>> /\ linebuf = <<>> /\ data = NoData
  /\ written = <<>> /\ delivered = <<>>
  /\ counts = [o \in 1..Len(options) |-> 0]

(* "goto cleanup" *)
Fail(errnum) ==
  /\ cf' = [cf EXCEPT !.errnum = errnum, !.fd = FALSE]
  /\ pc' = "failed"

(* The checks of the option array, before anything is opened. *)
Legitimate(o) ==
  /\ Len(o.name) < CONFFILE_MAX_OPTIONNAMELEN
  /\ o.type \in {"ignore", "flag"} \cup Single \cup Lists
  /\ o.type \notin {"ignore", "flag"} => o.callback
  /\ o.type \in Lists => o.type_arg # 0
  /\ o.required_count >= 0

(* _setup, and the checks before it.  What is found at the path is a file, *)
(* nothing that can be read (access), or something open refuses. *)
Setup(found) ==
  /\ UNCHANGED <<caller, data, delivered, linebuf>>
  /\ IF options = <<>> \/ \E o \in ToSet(options) : ~Legitimate(o)
     THEN Fail("parameters") /\ UNCHANGED <<unread, counts, written>>
     ELSE IF found.kind # "file"
     THEN /\ Fail(IF found.kind = "missing" THEN "exist" ELSE "open")
          /\ UNCHANGED <<unread, counts, written>>
     ELSE /\ cf' = [Created EXCEPT !.fd = TRUE, !.line_num = 1]
          /\ unread' = found.lines /\ written' = found.written
          /\ counts' = [o \in 1..Len(options) |-> 0]
          /\ pc' = "read"

(***************************************************************************)
(* _readline, one physical line: it goes on as long as there is nothing in *)
(* the line but a comment, or a backslash is the last of it.               *)
(***************************************************************************)
LineNum == cf.line_num

Joined(line) == TrimRight(RemoveComments(TrimRight(linebuf \o line)))

Overflows(line) ==               \* the newline is read with the line
  \/ Len(line) + 1 >= CONFFILE_MAX_LINELEN - 1
  \/ Len(line) + 1 + Len(linebuf) >= CONFFILE_MAX_LINELEN

ReadError ==
  /\ pc = "read" /\ "read" \in Tables[caller].failures
  /\ Fail("read")
  /\ UNCHANGED <<caller, unread, linebuf, counts, data, written, delivered>>

ReadEOF ==
  /\ pc = "read" /\ unread = <<>>
  /\ cf' = [cf EXCEPT !.end_of_file = TRUE]
  /\ pc' = IF linebuf = <<>> THEN "required" ELSE "parse"
  /\ UNCHANGED <<caller, unread, linebuf, counts, data, written, delivered>>

ReadLine ==
  /\ pc = "read" /\ unread # <<>>
  /\ unread' = Tail(unread)
  /\ IF Overflows(Head(unread)) THEN Fail("overflow_linelen") /\ UNCHANGED linebuf
     ELSE LET line == Joined(Head(unread))
              more == line # <<>> /\ Last(line) = Backslash
          IN  /\ linebuf' = IF more THEN Front(line) ELSE line
              /\ cf' = [cf EXCEPT !.line_count = @ + 1,
                          !.line_num = IF line = <<>> THEN cf.line_count + 2
                                       ELSE LineNum]
              /\ pc' = IF line = <<>> \/ more THEN "read" ELSE "parse"
  /\ UNCHANGED <<caller, counts, data, written, delivered>>

(* Back to the loop of conffile_parse, and into the next _readline. *)
NextLine ==
  /\ linebuf' = <<>> /\ data' = NoData
  /\ cf' = [cf EXCEPT !.line_num = IF cf.end_of_file THEN @
                                   ELSE cf.line_count + 1]
  /\ pc' = IF cf.end_of_file THEN "required" ELSE "read"

(***************************************************************************)
(* _parseline, up to the callback.                                         *)
(***************************************************************************)
NameOf(line) ==
  SubSeq(line, 1, Min({Len(line)} \cup
                      {k - 1 : k \in {j \in 1..Len(line) : line[j] = Space}}))

Option(name) ==
  LET same == {o \in 1..Len(options) :
                 IF Tables[caller].casesensitive THEN options[o].name = name
                 ELSE SameName(options[o].name, name)}
  IN  IF same = {} THEN 0 ELSE Min(same)

ParseLine ==
  /\ pc = "parse"
  /\ LET line == TrimLeft(TrimRight(linebuf))
         name == NameOf(line)
         o == Option(name)
         scan == ParseArgs(SubSeq(line, Len(name) + 1, Len(line)))
         named(errnum) == /\ cf' = [cf EXCEPT !.errnum = errnum, !.fd = FALSE,
                                              !.optionname = name]
                          /\ pc' = "failed" /\ UNCHANGED <<linebuf, data>>
     IN  IF line = <<>> THEN NextLine /\ UNCHANGED counts
         ELSE IF Len(name) >= CONFFILE_MAX_OPTIONNAMELEN - 1
         THEN named("overflow_optionlen") /\ UNCHANGED counts
         ELSE IF o = 0
         THEN /\ UNCHANGED counts
              /\ IF Tables[caller].ignore_unknown THEN NextLine
                 ELSE named("option_unknown")
         ELSE IF options[o].type = "ignore" THEN NextLine /\ UNCHANGED counts
         ELSE /\ counts' = [counts EXCEPT ![o] = @ + 1]
              /\ IF options[o].max_count > 0 /\ counts'[o] > options[o].max_count
                 THEN named("option_toomany")
                 ELSE IF scan.errnum # "success" THEN named(scan.errnum)
                 ELSE IF NumArgsErr(options[o], Len(scan.args)) # "success"
                 THEN named(NumArgsErr(options[o], Len(scan.args)))
                 ELSE IF \E a \in ToSet(scan.args) : ~ValidArg(options[o].type, a)
                 THEN named("arg_invalid")
                 ELSE /\ cf' = [cf EXCEPT !.optionname = name, !.errnum = "success"]
                      /\ data' = [option |-> o,
                                  value |-> ValueOf(options[o].type, scan.args)]
                      /\ pc' = "callback" /\ UNCHANGED linebuf
  /\ UNCHANGED <<caller, unread, written, delivered>>

(* The callback accepts its data, or fails, with an error it may have set  *)
(* by conffile_seterrnum. *)
Return ==
  /\ delivered' = Append(delivered, data)
  /\ NextLine
  /\ UNCHANGED <<caller, unread, counts, written>>

ReturnError(errnum) ==
  /\ Fail(IF errnum = "success" THEN "callback" ELSE errnum)
  /\ UNCHANGED <<caller, unread, linebuf, counts, data, written, delivered>>

(* The option functions of conffile.c: the caller's variable takes the     *)
(* value; an option without a variable is an error. *)
CallbackFails(o) == o.variable = FALSE

(* The required counts, after the last line. *)
Required ==
  /\ pc = "required"
  /\ LET few == {o \in 1..Len(options) : options[o].type # "ignore"
                    /\ counts[o] < options[o].required_count}
     IN  IF few # {}
         THEN /\ cf' = [cf EXCEPT !.errnum = "option_toofew", !.fd = FALSE,
                     !.line_num = 0, !.optionname = options[Min(few)].name]
              /\ pc' = "failed"
         ELSE /\ cf' = [cf EXCEPT !.errnum = "success", !.fd = FALSE,
                                  !.line_num = 0]
              /\ pc' = "parsed"
  /\ UNCHANGED <<caller, unread, linebuf, counts, data, written, delivered>>

ParseStep == ReadError \/ ReadEOF \/ ReadLine \/ ParseLine \/ Required

(* conffile_errmsg: what of the handle the message shows. *)
ErrMsg ==
  [errnum |-> cf.errnum,
   option |-> IF cf.errnum \in {"option_unknown", "option_toomany",
                  "option_toofew", "arg_missing", "arg_toomany", "arg_invalid"}
              THEN cf.optionname ELSE <<>>,
   line |-> IF cf.errnum \in ParseErrs \ {"option_toomany", "option_toofew",
                                          "callback"}
            THEN cf.line_num ELSE 0]
-----------------------------------------------------------------------------
(* The written entries that lead to a callback or to an error. *)
Named == SelectSeq(written, LAMBDA e :
           IF Option(e.name) = 0 THEN ~Tables[caller].ignore_unknown
           ELSE options[Option(e.name)].type # "ignore")

(* An entry is one the documentation of conffile.h allows: a known option, *)
(* not listed too often before, with arguments of its type. *)
Acceptable(k) ==
  LET o == Option(Named[k].name)
      times == Cardinality({j \in 1..k : Option(Named[j].name) = o})
  IN  /\ o # 0
      /\ options[o].max_count > 0 => times <= options[o].max_count
      /\ NumArgsErr(options[o], Len(Named[k].args)) = "success"
      /\ \A a \in ToSet(Named[k].args) : ValidArg(options[o].type, a)

(* Whatever quoting, escapes, comments, continued and empty lines a file   *)
(* was written with, the callbacks get the values that were written, in    *)
(* order; the parse stops only at an entry that is wrong, and the message  *)
(* names its option and the line where it begins.  (The four passes of     *)
(* _readline and _parse_args agree on what is escaped.) *)
ReadAsWritten ==
  written # <<>> =>
    LET n == Len(delivered) IN
    /\ n <= Len(Named)
    /\ \A k \in 1..n :
         LET o == Option(Named[k].name)
         IN  /\ delivered[k].option = o
             /\ delivered[k].value = ValueOf(options[o].type, Named[k].args)
    /\ pc = "parsed" => n = Len(Named) /\ \A k \in 1..n : Acceptable(k)
    /\ pc = "failed" /\ cf.errnum \in ParseErrs \ {"callback", "option_toofew"} =>
         /\ n < Len(Named) /\ ~Acceptable(n + 1)
         /\ ErrMsg.line \in {0, Named[n + 1].line}
         /\ ErrMsg.option \in {<<>>, Named[n + 1].name}
=============================================================================

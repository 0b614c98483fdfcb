------------------------------ MODULE MCBundled -----------------------------
EXTENDS Bundled

(* Ltdl: a program with the dlopen loader and one module of its own linked  *)
(* in, two directories and five libraries. *)

File(dir, base, ext) == [dir |-> dir, base |-> base, ext |-> ext]
Bare(base, ext) == File(Null, base, ext)

MCLoaderModule == Bare("dlopen", ".a")
MCPreloaded == {MCLoaderModule, Bare("own", ".a")}

(* "top" needs "low" and "gone", which is nowhere; "low" is found in d2    *)
(* only because "top" says so; "both" is in both directories and nowhere   *)
(* a library; "broken" has an archive but nothing to load.                 *)
MCReadable == {File("d1", "top", ".la"), File("d1", "top", ".so"),
               File("d2", "low", ".la"), File("d2", "low", ".so"),
               File("d1", "both", ".so"), File("d2", "both", ".so"),
               File("d1", "broken", ".la")}
MCLoadable == {File("d1", "top", ".so"), File("d2", "low", ".so"),
               Bare("broken", ".so"), File("d1/o", "broken", ".so")}

Archive(libdir, base, dirs, deplibs) ==
  [dlname |-> Bare(base, ".so"), libdir |-> libdir, dirs |-> dirs, deplibs |-> deplibs,
   old |-> Bare(base, ".a"), installed |-> TRUE, parses |-> TRUE]
MCLa == [f \in {g \in MCReadable : g.ext = ".la"} |->
           CASE f.base = "top" -> Archive("d1", "top", <<"d2">>, <<Bare("low", ""), Bare("gone", "")>>)
             [] f.base = "low" -> Archive("d0", "low", <<>>, <<>>)
             [] f.base = "broken" -> [Archive("d1", "broken", <<>>, <<Bare("low", "")>>)
                                        EXCEPT !.installed = FALSE]]

MCEnvPath == <<"d1">>
MCObjDir == [d \in {"d1", "d2"} |-> IF d = "d1" THEN "d1/x" ELSE "d2/o"]
MCRequests ==
  {<<Self, Null>>, <<Bare("own", ".la"), [ExtAdvice EXCEPT !.preload = TRUE]>>,
   <<File("d1", "top", ".la"), Null>>, <<Bare("top", ""), [ExtAdvice EXCEPT !.resident = TRUE]>>,
   <<Bare("low", ".so"), Null>>, <<Bare("low", ""), ExtAdvice>>, <<Bare("low", ""), [ExtAdvice EXCEPT !.preload = TRUE]>>,
   <<Bare("both", ""), ExtAdvice>>, <<Bare("broken", ""), ExtAdvice>>,
   <<File("d2", "low", ".la"), [ExtAdvice EXCEPT !.local = TRUE, !.global = TRUE]>>}
MCPinned == {File("d2", "low", ".so")}
MCSymbols == [f \in {File("d1", "top", ".so"), File("d2", "low", ".so")} |->
                {[of |-> IF f.base = "top" THEN f ELSE Null, name |-> "info"]}]
(* Expat: the tokens of documents that declare general entities a and b,    *)
(* one parameter entity, and attributes a and b of the element a. *)
CONSTANT MaxWord    \* the longest content model of the reference
Tok(kind, word) == [kind |-> kind, word |-> word]
MCPrologTokens ==
  {Tok(k, "") : k \in {"S", "PI", "COMMENT", "BOM", "INSTANCE_START", "OPEN_BRACKET", "CLOSE_BRACKET",
                       "DECL_CLOSE", "PARAM_ENTITY_REF", "PERCENT", "OPEN_PAREN", "CLOSE_PAREN",
                       "CLOSE_PAREN_ASTERISK", "OR", "COMMA", "NMTOKEN"}} \cup
  {Tok("XML_DECL", w) : w \in {"", "standalone", "bad"}} \cup
  {Tok("DECL_OPEN", w) : w \in {"DOCTYPE", "ENTITY", "ATTLIST", "ELEMENT", "NOTATION"}} \cup
  {Tok("NAME", w) : w \in {"a", "b", "lt", "SYSTEM", "PUBLIC", "NDATA", "CDATA", "ID", "NOTATION", "EMPTY"}} \cup
  {Tok("LITERAL", w) : w \in {"v", "w", "bad"}} \cup
  {Tok("POUND_NAME", w) : w \in {"PCDATA", "IMPLIED", "FIXED"}}
MCWords ==
  [role \in {"GENERAL_ENTITY_NAME", "PARAM_ENTITY_NAME", "ENTITY_NOTATION_NAME", "ATTLIST_ELEMENT_NAME",
             "ATTRIBUTE_NAME", "DOCTYPE_PUBLIC_ID", "DOCTYPE_SYSTEM_ID", "ENTITY_PUBLIC_ID",
             "ENTITY_SYSTEM_ID", "DEFAULT_ATTRIBUTE_VALUE"} |->
     CASE role = "GENERAL_ENTITY_NAME" -> {"a", "b", "lt"}
       [] role = "ATTRIBUTE_NAME" -> {"a", "b"}
       [] role \in {"PARAM_ENTITY_NAME", "ENTITY_NOTATION_NAME", "ATTLIST_ELEMENT_NAME"} -> {"a"}
       [] role \in {"DOCTYPE_PUBLIC_ID", "ENTITY_PUBLIC_ID", "DEFAULT_ATTRIBUTE_VALUE"} -> {"v", "bad"}
       [] OTHER -> {"v"}]

Part(kind, word, atts) == [kind |-> kind, word |-> word, atts |-> atts]
MCContentTokens ==
  {Part("START_TAG", "a", atts) : atts \in {<<>>, <<"b", "a">>, <<"a", "a">>}} \cup
  {Part("START_TAG", "b", <<>>), Part("EMPTY_ELEMENT", "a", <<"b">>)} \cup
  {Part("END_TAG", n, <<>>) : n \in {"a", "b"}} \cup
  {Part("ENTITY_REF", n, <<>>) : n \in {"a", "b", "lt"}} \cup
  {Part(k, "", <<>>) : k \in {"XML_DECL", "DATA", "CDATA_SECT_OPEN"}}

(* An element around a reference to b; an end and a start that are not of   *)
(* one element. *)
MCText ==
  [v \in {"v", "w", "bad"} |->
     CASE v = "v" -> <<Part("START_TAG", "b", <<"a">>), Part("ENTITY_REF", "b", <<>>), Part("END_TAG", "b", <<>>)>>
       [] v = "w" -> <<Part("END_TAG", "a", <<>>), Part("START_TAG", "a", <<>>)>>
       [] OTHER -> <<>>]

(* children and Mixed of the XML recommendation, of at most n tokens. *)
RECURSIVE Bodies(_, _, _), Particles(_, _), Alternatives(_)
Bodies(S, sep, n) ==
  LET short == {s \in S : Len(s) <= n} IN
  short \cup UNION {{s \o <<sep>> \o b : b \in Bodies(S, sep, n - Len(s) - 1)} : s \in short}
Groups(S, n) ==
  {<<"OPEN_PAREN">> \o b \o <<c>> :
     b \in Bodies(S, "OR", n - 2) \cup Bodies(S, "COMMA", n - 2),
     c \in {"CLOSE_PAREN", "CLOSE_PAREN_ASTERISK"}}
Particles(d, n) ==
  {<<"NAME">>} \cup (IF d = 0 THEN {} ELSE Groups(Particles(d - 1, n - 2), n))
Alternatives(n) ==
  {<<>>} \cup (IF n < 2 THEN {} ELSE {<<"OR", "NAME">> \o s : s \in Alternatives(n - 2)})
MCContentModels ==
  Groups(Particles(MaxLevel - 1, MaxWord - 2), MaxWord) \cup
  {<<"OPEN_PAREN", "PCDATA", "CLOSE_PAREN">>} \cup
  {<<"OPEN_PAREN", "PCDATA">> \o s \o <<"CLOSE_PAREN_ASTERISK">> : s \in Alternatives(MaxWord - 3)}
MCModelPrefixes == UNION {{SubSeq(w, 1, n) : n \in 0..Len(w)} : w \in MCContentModels}
=============================================================================

------------------------------- MODULE Expat --------------------------------
(***************************************************************************)
(* libexpat as the ganglia backend drives it: a parser with element        *)
(* handlers and no other handler, fed with XML_ParseBuffer until the       *)
(* server closes.  xmlrole.c gives every token of the prolog a role and    *)
(* doProlog acts on it; doContent calls the handlers; epilogProcessor ends *)
(* the document.  A token arrives whole: the bytes of a partial one wait   *)
(* for the next buffer.  Literals are opaque, but for the content an       *)
(* entity's value holds; encodings, namespaces and character data are left *)
(* out.                                                                    *)
(***************************************************************************)
EXTENDS Naturals, SequencesExt

CONSTANTS
  PrologTokens,   \* [kind, word] tokens of a prolog
  Words,          \* the names and literals of the documents, by role
  ContentTokens,  \* [kind, word, atts] tokens of the content
  Text,           \* what a literal holds as the value of an entity
  Malformed,      \* literals and XML declarations that are not well-formed
  Predefined,     \* entities every document has
  ContentModels,  \* the content models of the XML recommendation, to MaxModel
  ModelPrefixes,  \* and what they begin with
  GROUP_SIZE,     \* the first size of groupConnector (32)
  MaxFeatures, MaxAtts, MaxLevel, MaxModel, MaxCalls,  \* bounds of the documents
  None

VARIABLES
  processor, errorCode,
  handler, level,                                   \* prologState
  groupConnector, groupSize,
  complete, standalone, hadExternalDoctype,         \* dtd
  entities, declEntity,
  elementTypes, declElementType, declAttributeId, declAttributeIsId,
  tagStack, openEntities, marked,
  model,          \* the content model being read
  calls,          \* the calls of the element handlers
  told,           \* the last start tag and the attributes its handler got
  features, attrs \* what the document has so far

prolog == <<handler, level, groupConnector, groupSize, complete, standalone,
            hadExternalDoctype, entities, declEntity, elementTypes,
            declElementType, declAttributeId, declAttributeIsId, model, features, attrs>>
content == <<tagStack, openEntities, marked, calls, told>>
xvars == <<processor, errorCode, prolog, content>>

XML_Error ==
  {"SYNTAX", "NO_ELEMENTS", "INVALID_TOKEN", "UNCLOSED_TOKEN", "TAG_MISMATCH",
   "DUPLICATE_ATTRIBUTE", "JUNK_AFTER_DOC_ELEMENT", "PARAM_ENTITY_REF",
   "UNDEFINED_ENTITY", "RECURSIVE_ENTITY_REF", "ASYNC_ENTITY", "BINARY_ENTITY_REF",
   "MISPLACED_XML_PI", "UNCLOSED_CDATA_SECTION"}

(* What a document, and the text of an entity, may go on with. *)
Tokens == ContentTokens \cup UNION {ToSet(Text[v]) : v \in DOMAIN Text}
Names == {tok.word : tok \in Tokens}
Attributes == UNION {ToSet(tok.atts) : tok \in Tokens}

ASSUME DocumentsAssumption ==
  /\ None \notin XML_Error \cup Names \cup {tok.word : tok \in PrologTokens}
  /\ \A tok \in PrologTokens : tok.kind = "LITERAL" => tok.word \in DOMAIN Text
  /\ \A v \in DOMAIN Text : Text[v] \in Seq(Tokens)
  /\ \A tok \in Tokens : tok.atts \in Seq(Attributes)
(* groupConnector is written from index 1 on. *)
ASSUME GroupAssumption == GROUP_SIZE \in Nat /\ GROUP_SIZE > 1

-----------------------------------------------------------------------------
(* xmlrole.c: what each handler takes, where it goes and the role it gives. *)

AnyWord == "*"
On(kinds, next, role) ==
  {[kind |-> k, word |-> AnyWord, next |-> next, role |-> role] : k \in kinds}
Word(kind, words, next, role) ==
  {[kind |-> kind, word |-> w, next |-> next, role |-> role] : w \in words}
Naming == {"NAME", "PREFIXED_NAME"}
Misc == {"PI", "COMMENT"}
Doctype == Word("DECL_OPEN", {"DOCTYPE"}, "doctype0", "NONE")
Instance == On({"INSTANCE_START"}, "error", "INSTANCE_START")

prolog0 == On(Misc \cup {"S"}, "prolog1", "NONE") \cup On({"XML_DECL"}, "prolog1", "XML_DECL")
           \cup On({"BOM"}, "prolog0", "NONE") \cup Doctype \cup Instance
prolog1 == On(Misc \cup {"BOM"}, "prolog1", "NONE") \cup Doctype \cup Instance
prolog2 == On(Misc, "prolog2", "NONE") \cup Instance

ExternalId(system, public) ==
  Word("NAME", {"SYSTEM"}, system, "NONE") \cup Word("NAME", {"PUBLIC"}, public, "NONE")
ToSubset == On({"OPEN_BRACKET"}, "internalSubset", "NONE")
ToDoctypeClose == On({"DECL_CLOSE"}, "prolog2", "DOCTYPE_CLOSE")
doctype0 == On(Naming, "doctype1", "DOCTYPE_NAME")
doctype1 == ToSubset \cup ToDoctypeClose
            \cup ExternalId("doctype3", "doctype2")
doctype2 == On({"LITERAL"}, "doctype3", "DOCTYPE_PUBLIC_ID")
doctype3 == On({"LITERAL"}, "doctype4", "DOCTYPE_SYSTEM_ID")
doctype4 == ToSubset \cup ToDoctypeClose
doctype5 == ToDoctypeClose

internalSubset ==
  On(Misc, "internalSubset", "NONE")
  \cup Word("DECL_OPEN", {"ENTITY"}, "entity0", "NONE")
  \cup Word("DECL_OPEN", {"ATTLIST"}, "attlist0", "NONE")
  \cup Word("DECL_OPEN", {"ELEMENT"}, "element0", "NONE")
  \cup Word("DECL_OPEN", {"NOTATION"}, "notation0", "NONE")
  \cup On({"PARAM_ENTITY_REF"}, "internalSubset", "PARAM_ENTITY_REF")
  \cup On({"CLOSE_BRACKET"}, "doctype5", "NONE")

TopLevel(role) == On({"DECL_CLOSE"}, "internalSubset", role)
declClose == TopLevel("NONE")

Value == On({"LITERAL"}, "declClose", "ENTITY_VALUE")
entity0 == On({"PERCENT"}, "entity1", "NONE")
           \cup On({"NAME"}, "entity2", "GENERAL_ENTITY_NAME")
entity1 == On({"NAME"}, "entity7", "PARAM_ENTITY_NAME")
entity2 == ExternalId("entity4", "entity3") \cup Value
entity3 == On({"LITERAL"}, "entity4", "ENTITY_PUBLIC_ID")
entity4 == On({"LITERAL"}, "entity5", "ENTITY_SYSTEM_ID")
entity5 == TopLevel("EXTERNAL_GENERAL_ENTITY_NO_NOTATION")
           \cup Word("NAME", {"NDATA"}, "entity6", "NONE")
entity6 == On({"NAME"}, "declClose", "ENTITY_NOTATION_NAME")
entity7 == ExternalId("entity9", "entity8") \cup Value
entity8 == On({"LITERAL"}, "entity9", "ENTITY_PUBLIC_ID")
entity9 == On({"LITERAL"}, "declClose", "ENTITY_SYSTEM_ID")

notation0 == On({"NAME"}, "notation1", "NOTATION_NAME")
notation1 == ExternalId("notation3", "notation2")
notation2 == On({"LITERAL"}, "notation4", "NOTATION_PUBLIC_ID")
notation3 == On({"LITERAL"}, "declClose", "NOTATION_SYSTEM_ID")
notation4 == On({"LITERAL"}, "declClose", "NOTATION_SYSTEM_ID")
             \cup TopLevel("NOTATION_NO_SYSTEM_ID")

types == {"CDATA", "IDREF", "IDREFS", "ENTITY", "ENTITIES", "NMTOKEN", "NMTOKENS"}
attlist0 == On(Naming, "attlist1", "ATTLIST_ELEMENT_NAME")
attlist1 == TopLevel("NONE")
            \cup On(Naming, "attlist2", "ATTRIBUTE_NAME")
attlist2 == Word("NAME", types, "attlist8", "ATTRIBUTE_TYPE")
            \cup Word("NAME", {"ID"}, "attlist8", "ATTRIBUTE_TYPE_ID")
            \cup Word("NAME", {"NOTATION"}, "attlist5", "NONE")
            \cup On({"OPEN_PAREN"}, "attlist3", "NONE")
attlist3 == On(Naming \cup {"NMTOKEN"}, "attlist4", "ATTRIBUTE_ENUM_VALUE")
attlist4 == On({"CLOSE_PAREN"}, "attlist8", "NONE")
            \cup On({"OR"}, "attlist3", "NONE")
attlist5 == On({"OPEN_PAREN"}, "attlist6", "NONE")
attlist6 == On({"NAME"}, "attlist7", "ATTRIBUTE_NOTATION_VALUE")
attlist7 == On({"CLOSE_PAREN"}, "attlist8", "NONE")
            \cup On({"OR"}, "attlist6", "NONE")
attlist8 == Word("POUND_NAME", {"IMPLIED", "REQUIRED"}, "attlist1", "NO_DEFAULT_ATTRIBUTE_VALUE")
            \cup Word("POUND_NAME", {"FIXED"}, "attlist9", "NONE")
            \cup On({"LITERAL"}, "attlist1", "DEFAULT_ATTRIBUTE_VALUE")
attlist9 == On({"LITERAL"}, "attlist1", "DEFAULT_ATTRIBUTE_VALUE")

Particle == On(Naming \cup {"NAME_QUESTION", "NAME_ASTERISK", "NAME_PLUS"}, "element7", "CONTENT_ELEMENT")
element0 == On(Naming, "element1", "ELEMENT_NAME")
element1 == Word("NAME", {"EMPTY", "ANY"}, "declClose", "CONTENT")
            \cup On({"OPEN_PAREN"}, "element2", "GROUP_OPEN")
element2 == Word("POUND_NAME", {"PCDATA"}, "element3", "CONTENT_PCDATA")
            \cup On({"OPEN_PAREN"}, "element6", "GROUP_OPEN") \cup Particle
element3 == On({"OR"}, "element4", "NONE")
            \cup On({"CLOSE_PAREN", "CLOSE_PAREN_ASTERISK"}, "declClose", "GROUP_CLOSE_REP")
element4 == On(Naming, "element5", "CONTENT_ELEMENT")
element5 == On({"OR"}, "element4", "NONE")
            \cup On({"CLOSE_PAREN_ASTERISK"}, "declClose", "GROUP_CLOSE_REP")
element6 == On({"OPEN_PAREN"}, "element6", "GROUP_OPEN") \cup Particle
element7 == On({"CLOSE_PAREN", "CLOSE_PAREN_ASTERISK", "CLOSE_PAREN_QUESTION", "CLOSE_PAREN_PLUS"},
                    "element7", "GROUP_CLOSE")
            \cup On({"COMMA"}, "element6", "GROUP_SEQUENCE") \cup On({"OR"}, "element6", "GROUP_CHOICE")

handlers(h) ==
  CASE h = "prolog0" -> prolog0 [] h = "prolog1" -> prolog1
    [] h = "prolog2" -> prolog2 [] h = "doctype0" -> doctype0
    [] h = "doctype1" -> doctype1 [] h = "doctype2" -> doctype2
    [] h = "doctype3" -> doctype3 [] h = "doctype4" -> doctype4
    [] h = "doctype5" -> doctype5 [] h = "internalSubset" -> internalSubset
    [] h = "declClose" -> declClose [] h = "entity0" -> entity0
    [] h = "entity1" -> entity1 [] h = "entity2" -> entity2
    [] h = "entity3" -> entity3 [] h = "entity4" -> entity4
    [] h = "entity5" -> entity5 [] h = "entity6" -> entity6
    [] h = "entity7" -> entity7 [] h = "entity8" -> entity8
    [] h = "entity9" -> entity9 [] h = "notation0" -> notation0
    [] h = "notation1" -> notation1 [] h = "notation2" -> notation2
    [] h = "notation3" -> notation3 [] h = "notation4" -> notation4
    [] h = "attlist0" -> attlist0 [] h = "attlist1" -> attlist1
    [] h = "attlist2" -> attlist2 [] h = "attlist3" -> attlist3
    [] h = "attlist4" -> attlist4 [] h = "attlist5" -> attlist5
    [] h = "attlist6" -> attlist6 [] h = "attlist7" -> attlist7
    [] h = "attlist8" -> attlist8 [] h = "attlist9" -> attlist9
    [] h = "element0" -> element0 [] h = "element1" -> element1
    [] h = "element2" -> element2 [] h = "element3" -> element3
    [] h = "element4" -> element4 [] h = "element5" -> element5
    [] h = "element6" -> element6 [] h = "element7" -> element7

(* common: a token the handler does not take is an error; all of them take *)
(* white space, and only prolog0 goes on to another at it. *)
common == [next |-> "error", role |-> "ERROR"]
TokenRole(tok) ==
  LET rows == {r \in handlers(handler) : r.kind = tok.kind /\ r.word \in {AnyWord, tok.word}}
  IN  CASE rows # {} -> CHOOSE r \in rows : TRUE
        [] rows = {} /\ tok.kind = "S" -> [next |-> handler, role |-> "NONE"]
        [] OTHER -> common

Level(role) ==
  CASE role = "GROUP_OPEN" /\ handler = "element1" -> 1
    [] role = "GROUP_OPEN" /\ handler = "element2" -> 2
    [] role = "GROUP_OPEN" /\ handler = "element6" -> level + 1
    [] role = "GROUP_CLOSE" -> level - 1
    [] OTHER -> level

NextHandler(row) ==
  IF row.role = "GROUP_CLOSE" /\ Level(row.role) = 0 THEN "declClose" ELSE row.next

-----------------------------------------------------------------------------
(* doProlog: what a role does. *)

Bind(f, k, v) == [x \in DOMAIN f \cup {k} |-> IF x = k THEN v ELSE f[x]]

(* groupConnector holds, for each open group, the connector it uses. *)
Grown == IF groupSize = 0 THEN GROUP_SIZE ELSE 2 * groupSize
Mixed(role) ==
  \/ role = "GROUP_SEQUENCE" /\ groupConnector[Level(role)] = "|"
  \/ role = "GROUP_CHOICE" /\ groupConnector[Level(role)] = ","

Connector_Stale(role) ==                                                \* mutant
  CASE role = "GROUP_OPEN" ->
         IF Level(role) \in DOMAIN groupConnector THEN groupConnector[Level(role)] ELSE None
    [] role = "GROUP_SEQUENCE" -> "," [] OTHER -> "|"
Connector(role) ==
  CASE role = "GROUP_OPEN" -> None [] role = "GROUP_SEQUENCE" -> "," [] OTHER -> "|"
Group(role) ==
  /\ groupSize' = IF role = "GROUP_OPEN" /\ Level(role) >= groupSize THEN Grown ELSE groupSize
  /\ groupConnector' =
       IF role \in {"GROUP_OPEN", "GROUP_SEQUENCE", "GROUP_CHOICE"} /\ ~Mixed(role)
       THEN Bind(groupConnector, Level(role), Connector(role)) ELSE groupConnector

(* An entity is known by its name; that of the external subset is "#".     *)
ExternalSubset == [kind |-> "param", name |-> "#"]
Unbound == [text |-> None, systemId |-> None, publicId |-> None, notation |-> None]
IfNew_Any(key) == key                                                   \* mutant
IfNew(key) == IF key \in DOMAIN entities THEN None ELSE key
DeclEntity(role, tok) ==
  CASE role = "GENERAL_ENTITY_NAME" ->
         IF tok.word \in Predefined \/ ~complete THEN None
         ELSE IfNew([kind |-> "general", name |-> tok.word])
    [] role = "PARAM_ENTITY_NAME" /\ complete -> IfNew([kind |-> "param", name |-> tok.word])
    [] role = "DOCTYPE_PUBLIC_ID" -> ExternalSubset
    [] role = "DOCTYPE_SYSTEM_ID" /\ declEntity = None -> ExternalSubset
    [] OTHER -> declEntity
Field(role) ==
  CASE role \in {"DOCTYPE_PUBLIC_ID", "ENTITY_PUBLIC_ID"} -> {"publicId"}
    [] role \in {"DOCTYPE_SYSTEM_ID", "ENTITY_SYSTEM_ID"} -> {"systemId"}
    [] role = "ENTITY_VALUE" -> {"text"}
    [] role = "ENTITY_NOTATION_NAME" -> {"notation"}
    [] OTHER -> {}
Refused(role, tok) ==
  /\ tok.word \in Malformed
  /\ role \in {"XML_DECL", "DOCTYPE_PUBLIC_ID", "ENTITY_PUBLIC_ID", "NOTATION_PUBLIC_ID",
               "ENTITY_VALUE", "DEFAULT_ATTRIBUTE_VALUE"}
DeclareEntity(role, tok) ==
  LET key == DeclEntity(role, tok)
      known == IF key = None \/ key \in DOMAIN entities THEN entities
               ELSE Bind(entities, key, Unbound)
      fields == IF Refused(role, tok) THEN Field(role) \ {"publicId"} ELSE Field(role)
  IN  /\ declEntity' = key
      /\ entities' = IF key = None THEN known
                     ELSE [known EXCEPT ![key] =
                             [f \in DOMAIN @ |-> IF f \in fields THEN tok.word ELSE @[f]]]

(* defineAttribute: the first default of an attribute is the one it has. *)
DefaultAtts(type) == IF type \in DOMAIN elementTypes THEN elementTypes[type] ELSE <<>>
DefineAttribute(type, id, isId, value) ==
  LET defaults == DefaultAtts(type)
      again == (value # None \/ isId) /\ \E d \in ToSet(defaults) : d.id = id
  IN  Bind(elementTypes, type,
           IF again THEN defaults ELSE Append(defaults, [id |-> id, value |-> value]))
DeclareAttribute(role, tok) ==
  /\ declElementType' = IF role = "ATTLIST_ELEMENT_NAME" THEN tok.word ELSE declElementType
  /\ declAttributeId' = IF role = "ATTRIBUTE_NAME" THEN tok.word ELSE declAttributeId
  /\ declAttributeIsId' = CASE role = "ATTRIBUTE_NAME" -> FALSE
                            [] role = "ATTRIBUTE_TYPE_ID" -> TRUE
                            [] OTHER -> declAttributeIsId
  /\ elementTypes' =
       CASE role = "NO_DEFAULT_ATTRIBUTE_VALUE" /\ complete ->
              DefineAttribute(declElementType, declAttributeId, declAttributeIsId, None)
         [] role = "DEFAULT_ATTRIBUTE_VALUE" /\ complete /\ ~Refused(role, tok) ->
              DefineAttribute(declElementType, declAttributeId, FALSE, tok.word)
         [] OTHER -> elementTypes

(* The DTD is not complete once part of it is in another file, which       *)
(* paramEntityParsing, as it is, leaves unread. *)
IsStandalone(role, tok) == role = "XML_DECL" /\ tok.word = "standalone"
Elsewhere(role) == role = "PARAM_ENTITY_REF" \/ (role = "DOCTYPE_CLOSE" /\ hadExternalDoctype)
Dtd(role, tok) ==
  /\ standalone' = (standalone \/ IsStandalone(role, tok))
  /\ hadExternalDoctype' = (hadExternalDoctype \/ role = "DOCTYPE_SYSTEM_ID")
  /\ complete' = (complete /\ ~Elsewhere(role))

PrologError(role, tok) ==
  CASE role = "ERROR" -> (CASE tok.kind = "PARAM_ENTITY_REF" -> "PARAM_ENTITY_REF"
                            [] tok.kind = "XML_DECL" -> "MISPLACED_XML_PI"
                            [] OTHER -> "SYNTAX")
    [] role # "ERROR" /\ (Mixed(role) \/ Refused(role, tok)) -> "SYNTAX"
    [] OTHER -> None

(* XML_ParseBuffer: after an error there is only the error. *)
Result(error, next) ==
  /\ errorCode' = error
  /\ processor' = IF error = None THEN next ELSE "error"

Reading == handler \in {"element2", "element3", "element4", "element5", "element6", "element7"}
Letter(tok) == IF tok.kind = "POUND_NAME" THEN tok.word ELSE tok.kind
Model(role, tok) ==
  CASE tok.kind = "S" -> model
    [] tok.kind # "S" /\ (Reading \/ role = "GROUP_OPEN") -> Append(model, Letter(tok))
    [] OTHER -> <<>>

(* What the size of a prolog is counted in. *)
Feature(tok, row) ==
  /\ row.role # "ERROR"
  /\ \/ tok.kind = "DECL_OPEN" /\ handler = "internalSubset"
     \/ row.role = "PARAM_ENTITY_REF"
     \/ tok.kind = "XML_DECL" /\ tok.word = "standalone"
     \/ handler = "doctype1" /\ tok.kind = "NAME"
Bounded(tok, row) ==
  /\ Feature(tok, row) => features < MaxFeatures
  /\ row.role \in DOMAIN Words => tok.word \in Words[row.role]
  /\ row.role = "ATTRIBUTE_NAME" => attrs < MaxAtts
  /\ Reading => Len(model) < MaxModel
  /\ row.role = "GROUP_OPEN" => Level(row.role) <= MaxLevel

DoProlog ==
  /\ processor = "prolog"
  /\ \E tok \in PrologTokens :
       LET row == TokenRole(tok)
           role == row.role
       IN  /\ Bounded(tok, row)
           /\ handler' = NextHandler(row) /\ level' = Level(role)
           /\ Group(role) /\ DeclareEntity(role, tok) /\ DeclareAttribute(role, tok)
           /\ Dtd(role, tok)
           /\ Result(PrologError(role, tok),
                     IF role = "INSTANCE_START" THEN "content" ELSE "prolog")
           /\ model' = Model(role, tok)
           /\ features' = IF Feature(tok, row) THEN features + 1 ELSE features
           /\ attrs' = CASE tok.kind = "DECL_OPEN" -> 0
                         [] role = "ATTRIBUTE_NAME" -> attrs + 1
                         [] OTHER -> attrs
  /\ UNCHANGED content

-----------------------------------------------------------------------------
(* doContent: the content of the document, and of the entities it refers   *)
(* to, each to its end before the text after the reference goes on.        *)

StartTagLevel == IF openEntities = <<>> THEN 0 ELSE Last(openEntities).start
tagLevel == Len(tagStack)

(* storeAtts: a mark on the name of each attribute listed, so that none is *)
(* given twice, and a default only for those that are not marked.          *)
Duplicate(atts) ==
  \E k \in DOMAIN atts : atts[k] \in marked \cup ToSet(SubSeq(atts, 1, k - 1))
Given(atts) == [k \in DOMAIN atts |-> <<atts[k], "given">>]
Listed(list) == {list[k][1] : k \in DOMAIN list}
Defaulted(list, da) ==
  IF da.id \in marked \cup Listed(list) \/ da.value = None THEN list
  ELSE Append(list, <<da.id, da.value>>)
appAtts(type, atts) ==
  LET list[j \in 0..Len(DefaultAtts(type))] ==
        IF j = 0 THEN Given(atts) ELSE Defaulted(list[j - 1], DefaultAtts(type)[j])
  IN  list[Len(DefaultAtts(type))]
Unmarked(list) == marked \ Listed(list)
StoreAtts(tok) ==
  LET list == appAtts(tok.word, tok.atts)
  IN  /\ marked' = Unmarked(list)
      /\ told' = [name |-> tok.word, given |-> tok.atts, list |-> list]

(* The text of the innermost entity without its first token. *)
Advanced ==
  IF openEntities = <<>> THEN <<>>
  ELSE [openEntities EXCEPT ![Len(openEntities)].rest = Tail(@)]
(* After an error nothing but the error is used, so the rest stays. *)
Fail(error) ==
  /\ Result(error, "content") /\ openEntities' = <<>>
  /\ UNCHANGED <<tagStack, marked, calls, told>>
Go(next) == Result(None, next) /\ openEntities' = Advanced
NextProcessor(tags) == IF tags = 0 THEN "epilog" ELSE "content"

StartTag(tok) ==
  \/ Duplicate(tok.atts) /\ Fail("DUPLICATE_ATTRIBUTE")
  \/ /\ ~Duplicate(tok.atts)
     /\ StoreAtts(tok)
     /\ IF tok.kind = "START_TAG"
        THEN /\ tagStack' = Append(tagStack, tok.word)
             /\ calls' = Append(calls, <<"start", tok.word>>)
             /\ Go("content")
        ELSE /\ calls' = calls \o <<<<"start", tok.word>>, <<"end", tok.word>>>>
             /\ Go(NextProcessor(tagLevel))
             /\ UNCHANGED tagStack

Asynchronous_Never == FALSE                                             \* mutant
Asynchronous == tagLevel = StartTagLevel
EndTag(tok) ==
  CASE Asynchronous -> Fail("ASYNC_ENTITY")
    [] ~Asynchronous /\ Last(tagStack) # tok.word -> Fail("TAG_MISMATCH")
    [] OTHER ->
         /\ tagStack' = Front(tagStack)
         /\ calls' = Append(calls, <<"end", Last(tagStack)>>)
         /\ Go(NextProcessor(tagLevel - 1))
         /\ UNCHANGED <<marked, told>>

IsOpen(key) == \E f \in ToSet(openEntities) : f.key = key
Expansion(key) ==
  [key |-> key, rest |-> Text[entities[key].text], start |-> tagLevel, from |-> Len(calls)]
EntityRef(tok) ==
  LET key == [kind |-> "general", name |-> tok.word]
      nothing == Go("content") /\ UNCHANGED <<tagStack, marked, calls, told>>
  IN  CASE tok.word \in Predefined -> nothing
        [] tok.word \notin Predefined /\ key \notin DOMAIN entities ->
             IF complete \/ standalone THEN Fail("UNDEFINED_ENTITY") ELSE nothing
        [] OTHER ->
             CASE IsOpen(key) -> Fail("RECURSIVE_ENTITY_REF")
               [] ~IsOpen(key) /\ entities[key].notation # None -> Fail("BINARY_ENTITY_REF")
               [] ~IsOpen(key) /\ entities[key].notation = None /\ entities[key].text # None ->
                    /\ openEntities' = Append(Advanced, Expansion(key))
                    /\ UNCHANGED <<processor, errorCode, tagStack, marked, calls, told>>
               [] OTHER -> nothing

Tag == {"START_TAG", "EMPTY_ELEMENT"}
Token(tok) ==
  CASE tok.kind \in Tag -> StartTag(tok)
    [] tok.kind = "END_TAG" -> EndTag(tok)
    [] tok.kind = "ENTITY_REF" -> EntityRef(tok)
    [] tok.kind = "XML_DECL" -> Fail("MISPLACED_XML_PI")
    [] OTHER ->
         /\ Go(IF tok.kind = "CDATA_SECT_OPEN" THEN "cdata" ELSE "content")
         /\ UNCHANGED <<tagStack, marked, calls, told>>

(* The document goes on with any token, but begins with a tag. *)
DoContent ==
  /\ processor = "content" /\ openEntities = <<>>
  /\ \E tok \in ContentTokens :
       /\ tagStack = <<>> => tok.kind \in Tag
       /\ tok.kind \in Tag \cup {"ENTITY_REF"} => Len(calls) < MaxCalls
       /\ Token(tok)
  /\ UNCHANGED prolog

DoEntity ==
  /\ processor = "content" /\ openEntities # <<>>
  /\ IF Last(openEntities).rest # <<>> THEN Token(Head(Last(openEntities).rest))
     ELSE IF tagLevel # StartTagLevel THEN Fail("ASYNC_ENTITY")
     ELSE openEntities' = Front(openEntities)
          /\ UNCHANGED <<processor, errorCode, tagStack, marked, calls, told>>
  /\ UNCHANGED prolog

(* doCdataSection: to its end, whatever it holds. *)
DoCdataSection ==
  /\ processor = "cdata"
  /\ \E error \in {None, "INVALID_TOKEN"} : Result(error, "content")
  /\ UNCHANGED <<prolog, content>>

(* epilogProcessor: only comments and the like after the document element. *)
Epilog ==
  /\ processor = "epilog"
  /\ \E error \in {None, "JUNK_AFTER_DOC_ELEMENT", "INVALID_TOKEN"} : Result(error, "epilog")
  /\ UNCHANGED <<prolog, content>>

(* A token that is none, anywhere. *)
Invalid ==
  /\ processor \in {"prolog", "content"} /\ openEntities = <<>>
  /\ Result("INVALID_TOKEN", processor)
  /\ UNCHANGED <<prolog, content>>

(* The last buffer, which is empty: what is left is nothing, or a token    *)
(* that will not be whole. *)
AtEnd(partial) ==
  CASE processor = "epilog" /\ ~partial -> None
    [] processor = "cdata" -> "UNCLOSED_CDATA_SECTION"
    [] partial /\ processor # "cdata" -> "UNCLOSED_TOKEN"
    [] OTHER -> "NO_ELEMENTS"
Finish ==
  /\ processor \in {"prolog", "content", "cdata", "epilog"} /\ openEntities = <<>>
  /\ \E partial \in BOOLEAN : Result(AtEnd(partial), "done")
  /\ UNCHANGED <<prolog, content>>

-----------------------------------------------------------------------------
(* XML_ParserCreate *)
XInit ==
  /\ processor = "prolog" /\ errorCode = None
  /\ handler = "prolog0" /\ level = 0
  /\ groupConnector = <<>> /\ groupSize = 0
  /\ complete = TRUE /\ standalone = FALSE /\ hadExternalDoctype = FALSE
  /\ entities = <<>> /\ declEntity = None
  /\ elementTypes = <<>> /\ declElementType = None
  /\ declAttributeId = None /\ declAttributeIsId = FALSE
  /\ tagStack = <<>> /\ openEntities = <<>> /\ marked = {}
  /\ model = <<>> /\ calls = <<>> /\ features = 0 /\ attrs = 0
  /\ told = [name |-> None, given |-> <<>>, list |-> <<>>]

(* XML_ParserFree, whenever the backend gives up, and a parser for the next *)
(* load. *)
ParserFree ==
  /\ processor' = "prolog" /\ errorCode' = None
  /\ handler' = "prolog0" /\ level' = 0
  /\ groupConnector' = <<>> /\ groupSize' = 0
  /\ complete' = TRUE /\ standalone' = FALSE /\ hadExternalDoctype' = FALSE
  /\ entities' = <<>> /\ declEntity' = None
  /\ elementTypes' = <<>> /\ declElementType' = None
  /\ declAttributeId' = None /\ declAttributeIsId' = FALSE
  /\ tagStack' = <<>> /\ openEntities' = <<>> /\ marked' = {}
  /\ model' = <<>> /\ calls' = <<>> /\ features' = 0 /\ attrs' = 0
  /\ told' = [name |-> None, given |-> <<>>, list |-> <<>>]

XNext ==
  \/ DoProlog \/ DoContent \/ DoEntity \/ DoCdataSection \/ Epilog \/ Invalid
  \/ Finish \/ ParserFree

XSpec == XInit /\ [][XNext]_xvars

-----------------------------------------------------------------------------
(* A content model is taken if and only if it is one of the               *)
(* recommendation's: no connector of a closed group, of this declaration   *)
(* or an earlier one, decides about another, groups are closed as often as *)
(* opened, and no connector is written outside the array. *)
Viable(m) == m \in ModelPrefixes
ConnectorsInside == \A l \in DOMAIN groupConnector : l < groupSize
ModelsConform ==
  /\ ConnectorsInside
  /\ model # <<>> =>
       CASE handler = "error" \/ errorCode = "SYNTAX" -> ~Viable(model)
         [] handler = "declClose" -> model \in ContentModels
         [] OTHER -> Viable(model)

(* Of the calls so far, the starts without an end; <<None>> if an end has  *)
(* no start of its name. *)
Called(open, c) ==
  IF c[1] = "start" THEN Append(open, c[2])
  ELSE IF open # <<>> /\ Last(open) = c[2] THEN Front(open) ELSE <<None>>
Unended(cs) ==
  LET open[n \in 0..Len(cs)] == IF n = 0 THEN <<>> ELSE Called(open[n - 1], cs[n])
  IN  open[Len(cs)]

(* What the handlers are told: elements nest, those that were open before  *)
(* the reference to an entity are still open in its text, a document that  *)
(* is accepted has one element and ends it; and an element has the         *)
(* attributes of its tag, in their order, then each default first declared *)
(* for it that the tag does not give, once. *)
ElementsNest ==
  /\ None \notin ToSet(Unended(calls))
  /\ \A f \in ToSet(openEntities) :
       IsPrefix(Unended(SubSeq(calls, 1, f.from)), Unended(calls))
  /\ processor = "done" =>
       Unended(calls) = <<>> /\ calls # <<>> /\
       \A k \in 1..Len(calls) - 1 : Unended(SubSeq(calls, 1, k)) # <<>>
AttNames == {d.id : d \in ToSet(DefaultAtts(told.name))}
FirstDefault(type, id) ==
  LET ds == DefaultAtts(type) IN ds[SelectInSeq(ds, LAMBDA d : d.id = id)].value
AttributesOnce ==
  LET n == Len(told.given) IN
  /\ SubSeq(told.list, 1, n) = Given(told.given)
  /\ \A j, k \in DOMAIN told.list : told.list[j][1] = told.list[k][1] => j = k
  /\ {told.list[k] : k \in n + 1..Len(told.list)} =
       {<<id, FirstDefault(told.name, id)>> :
          id \in AttNames \ ToSet(told.given)}
       \ (AttNames \X {None})
HandlersTold == ElementsNest /\ AttributesOnce

(* The first declaration of an entity binds it: while the DTD is complete, *)
(* an entity with a value keeps it, and one in a file its identifiers,     *)
(* until the parser is freed. *)
FirstBinds ==
  [][processor = "prolog" /\ complete /\ ~ParserFree =>
       \A key \in DOMAIN entities :
         LET was == entities[key]  is == entities'[key] IN
         /\ was.text # None \/ was.notation # None => is = was
         /\ was.systemId # None => [is EXCEPT !.notation = None] = [was EXCEPT !.notation = None]]_xvars
=============================================================================

---------------------------- MODULE ExpatProofs -----------------------------
(***************************************************************************)
(* What expat tells its client, and what it remembers of the prolog, for   *)
(* documents of any length, depth and number of entities.                  *)
(***************************************************************************)
EXTENDS Expat, WellFoundedInduction, TLAPS

(***************************************************************************)
(* The table of xmlrole.c.  Moves says, of the handlers whose variables    *)
(* matter below, which role leads into them and out of them.               *)
(***************************************************************************)
Groups == {"element2", "element3", "element4", "element5", "element6", "element7"}
Early == {"prolog0", "prolog1", "doctype0", "doctype1", "doctype2"}
Unset == {"entity2", "entity3", "entity4", "entity7", "entity8", "entity9"}
Located == {"entity5", "entity6"}
Attlist == {"attlist1", "attlist2", "attlist3", "attlist4", "attlist5", "attlist6",
            "attlist7", "attlist8", "attlist9"}
EntityNames == {"GENERAL_ENTITY_NAME", "PARAM_ENTITY_NAME"}
EntityRoles ==
  EntityNames \cup {"DOCTYPE_PUBLIC_ID", "DOCTYPE_SYSTEM_ID", "ENTITY_PUBLIC_ID",
                    "ENTITY_SYSTEM_ID", "ENTITY_VALUE", "ENTITY_NOTATION_NAME"}

GroupMoves(h, r) ==
  /\ r.role = "GROUP_OPEN" => \/ h = "element1" /\ r.next = "element2"
                              \/ h \in {"element2", "element6"} /\ r.next = "element6"
  /\ r.role \in {"GROUP_CLOSE", "GROUP_SEQUENCE", "GROUP_CHOICE"} => h = "element7"
  /\ r.next \in Groups => h \in Groups \/ r.role = "GROUP_OPEN"

EntityMoves(h, r, kind) ==
  /\ r.role = "ENTITY_VALUE" => kind = "LITERAL" /\ h \in Unset
  /\ r.role \in {"ENTITY_PUBLIC_ID", "ENTITY_SYSTEM_ID"} => h \in Unset
  /\ r.role = "ENTITY_NOTATION_NAME" => h \in Located
  /\ r.role = "DOCTYPE_PUBLIC_ID" => h \in Early
  /\ r.role = "DOCTYPE_SYSTEM_ID" => h = "doctype3"
  /\ r.next \in Early => h \in Early /\ r.role \notin EntityRoles
  /\ r.next = "doctype3" => \/ h = "doctype3" /\ r.role \notin EntityRoles
                            \/ h \in Early /\ r.role \notin EntityRoles \ {"DOCTYPE_PUBLIC_ID"}
  /\ r.next \in Unset => \/ r.role \in EntityNames
                         \/ h \in Unset /\ r.role \notin EntityRoles \ {"ENTITY_PUBLIC_ID"}
  /\ r.next \in Located => /\ h \in Unset \cup Located
                           /\ r.role \notin EntityRoles \ {"ENTITY_SYSTEM_ID"}

AttlistMoves(h, r) ==
  /\ r.next \in Attlist => h \in Attlist \/ r.role = "ATTLIST_ELEMENT_NAME"
  /\ r.role \in {"NO_DEFAULT_ATTRIBUTE_VALUE", "DEFAULT_ATTRIBUTE_VALUE"} => h \in Attlist

Handlers ==
  Groups \cup Early \cup Unset \cup Located \cup Attlist
  \cup {"prolog2", "doctype3", "doctype4", "doctype5", "internalSubset", "declClose",
        "entity0", "entity1", "notation0", "notation1", "notation2", "notation3",
        "notation4", "attlist0", "element0", "element1"}
Moves(h, r, kind) ==
  /\ r.next \in Handlers \/ r.role = "INSTANCE_START"
  /\ GroupMoves(h, r) /\ EntityMoves(h, r, kind) /\ AttlistMoves(h, r)

LEMMA OnLemma ==
  /\ \A kinds, next, role : \A r \in On(kinds, next, role) :
       r.kind \in kinds /\ r.next = next /\ r.role = role
  /\ \A kind, words, next, role : \A r \in Word(kind, words, next, role) :
       r.kind = kind /\ r.next = next /\ r.role = role
BY DEF On, Word

LEMMA MovesLemma ==
  ASSUME NEW h \in Handlers, NEW r \in handlers(h)
  PROVE  Moves(h, r, r.kind)
<1> USE OnLemma DEF Moves, GroupMoves, EntityMoves, AttlistMoves, Groups, Early, Unset,
                    Located, Attlist, EntityNames, EntityRoles, Handlers
<1>1. CASE h = "prolog0"
  <2>1. r \in prolog0
    BY <1>1 DEF handlers
  <2> QED BY <1>1, <2>1 DEF prolog0, Doctype, Instance, Misc
<1>2. CASE h = "prolog1"
  <2>1. r \in prolog1
    BY <1>2 DEF handlers
  <2> QED BY <1>2, <2>1 DEF prolog1, Doctype, Instance, Misc
<1>3. CASE h = "prolog2"
  <2>1. r \in prolog2
    BY <1>3 DEF handlers
  <2> QED BY <1>3, <2>1 DEF prolog2, Instance, Misc
<1>4. CASE h = "doctype0"
  <2>1. r \in doctype0
    BY <1>4 DEF handlers
  <2> QED BY <1>4, <2>1 DEF doctype0, Naming
<1>5. CASE h = "doctype1"
  <2>1. r \in doctype1
    BY <1>5 DEF handlers
  <2> QED BY <1>5, <2>1 DEF doctype1, ExternalId, ToSubset, ToDoctypeClose
<1>6. CASE h = "doctype2"
  <2>1. r \in doctype2
    BY <1>6 DEF handlers
  <2> QED BY <1>6, <2>1 DEF doctype2
<1>7. CASE h = "doctype3"
  <2>1. r \in doctype3
    BY <1>7 DEF handlers
  <2> QED BY <1>7, <2>1 DEF doctype3
<1>8. CASE h = "doctype4"
  <2>1. r \in doctype4
    BY <1>8 DEF handlers
  <2> QED BY <1>8, <2>1 DEF doctype4, ToSubset, ToDoctypeClose
<1>9. CASE h = "doctype5"
  <2>1. r \in doctype5
    BY <1>9 DEF handlers
  <2> QED BY <1>9, <2>1 DEF doctype5, ToDoctypeClose
<1>10. CASE h = "internalSubset"
  <2>1. r \in internalSubset
    BY <1>10 DEF handlers
  <2> QED BY <1>10, <2>1 DEF internalSubset, Misc
<1>11. CASE h = "declClose"
  <2>1. r \in declClose
    BY <1>11 DEF handlers
  <2> QED BY <1>11, <2>1 DEF declClose, TopLevel
<1>12. CASE h = "entity0"
  <2>1. r \in entity0
    BY <1>12 DEF handlers
  <2> QED BY <1>12, <2>1 DEF entity0
<1>13. CASE h = "entity1"
  <2>1. r \in entity1
    BY <1>13 DEF handlers
  <2> QED BY <1>13, <2>1 DEF entity1
<1>14. CASE h = "entity2"
  <2>1. r \in entity2
    BY <1>14 DEF handlers
  <2> QED BY <1>14, <2>1 DEF entity2, ExternalId, Value
<1>15. CASE h = "entity3"
  <2>1. r \in entity3
    BY <1>15 DEF handlers
  <2> QED BY <1>15, <2>1 DEF entity3
<1>16. CASE h = "entity4"
  <2>1. r \in entity4
    BY <1>16 DEF handlers
  <2> QED BY <1>16, <2>1 DEF entity4
<1>17. CASE h = "entity5"
  <2>1. r \in entity5
    BY <1>17 DEF handlers
  <2> QED BY <1>17, <2>1 DEF entity5, TopLevel
<1>18. CASE h = "entity6"
  <2>1. r \in entity6
    BY <1>18 DEF handlers
  <2> QED BY <1>18, <2>1 DEF entity6
<1>19. CASE h = "entity7"
  <2>1. r \in entity7
    BY <1>19 DEF handlers
  <2> QED BY <1>19, <2>1 DEF entity7, ExternalId, Value
<1>20. CASE h = "entity8"
  <2>1. r \in entity8
    BY <1>20 DEF handlers
  <2> QED BY <1>20, <2>1 DEF entity8
<1>21. CASE h = "entity9"
  <2>1. r \in entity9
    BY <1>21 DEF handlers
  <2> QED BY <1>21, <2>1 DEF entity9
<1>22. CASE h = "notation0"
  <2>1. r \in notation0
    BY <1>22 DEF handlers
  <2> QED BY <1>22, <2>1 DEF notation0
<1>23. CASE h = "notation1"
  <2>1. r \in notation1
    BY <1>23 DEF handlers
  <2> QED BY <1>23, <2>1 DEF notation1, ExternalId
<1>24. CASE h = "notation2"
  <2>1. r \in notation2
    BY <1>24 DEF handlers
  <2> QED BY <1>24, <2>1 DEF notation2
<1>25. CASE h = "notation3"
  <2>1. r \in notation3
    BY <1>25 DEF handlers
  <2> QED BY <1>25, <2>1 DEF notation3
<1>26. CASE h = "notation4"
  <2>1. r \in notation4
    BY <1>26 DEF handlers
  <2> QED BY <1>26, <2>1 DEF notation4, TopLevel
<1>27. CASE h = "attlist0"
  <2>1. r \in attlist0
    BY <1>27 DEF handlers
  <2> QED BY <1>27, <2>1 DEF attlist0, Naming
<1>28. CASE h = "attlist1"
  <2>1. r \in attlist1
    BY <1>28 DEF handlers
  <2> QED BY <1>28, <2>1 DEF attlist1, TopLevel, Naming
<1>29. CASE h = "attlist2"
  <2>1. r \in attlist2
    BY <1>29 DEF handlers
  <2> QED BY <1>29, <2>1 DEF attlist2
<1>30. CASE h = "attlist3"
  <2>1. r \in attlist3
    BY <1>30 DEF handlers
  <2> QED BY <1>30, <2>1 DEF attlist3, Naming
<1>31. CASE h = "attlist4"
  <2>1. r \in attlist4
    BY <1>31 DEF handlers
  <2> QED BY <1>31, <2>1 DEF attlist4
<1>32. CASE h = "attlist5"
  <2>1. r \in attlist5
    BY <1>32 DEF handlers
  <2> QED BY <1>32, <2>1 DEF attlist5
<1>33. CASE h = "attlist6"
  <2>1. r \in attlist6
    BY <1>33 DEF handlers
  <2> QED BY <1>33, <2>1 DEF attlist6
<1>34. CASE h = "attlist7"
  <2>1. r \in attlist7
    BY <1>34 DEF handlers
  <2> QED BY <1>34, <2>1 DEF attlist7
<1>35. CASE h = "attlist8"
  <2>1. r \in attlist8
    BY <1>35 DEF handlers
  <2> QED BY <1>35, <2>1 DEF attlist8
<1>36. CASE h = "attlist9"
  <2>1. r \in attlist9
    BY <1>36 DEF handlers
  <2> QED BY <1>36, <2>1 DEF attlist9
<1>37. CASE h = "element0"
  <2>1. r \in element0
    BY <1>37 DEF handlers
  <2> QED BY <1>37, <2>1 DEF element0, Naming
<1>38. CASE h = "element1"
  <2>1. r \in element1
    BY <1>38 DEF handlers
  <2> QED BY <1>38, <2>1 DEF element1
<1>39. CASE h = "element2"
  <2>1. r \in element2
    BY <1>39 DEF handlers
  <2> QED BY <1>39, <2>1 DEF element2, Particle, Naming
<1>40. CASE h = "element3"
  <2>1. r \in element3
    BY <1>40 DEF handlers
  <2> QED BY <1>40, <2>1 DEF element3
<1>41. CASE h = "element4"
  <2>1. r \in element4
    BY <1>41 DEF handlers
  <2> QED BY <1>41, <2>1 DEF element4, Naming
<1>42. CASE h = "element5"
  <2>1. r \in element5
    BY <1>42 DEF handlers
  <2> QED BY <1>42, <2>1 DEF element5
<1>43. CASE h = "element6"
  <2>1. r \in element6
    BY <1>43 DEF handlers
  <2> QED BY <1>43, <2>1 DEF element6, Particle, Naming
<1>44. CASE h = "element7"
  <2>1. r \in element7
    BY <1>44 DEF handlers
  <2> QED BY <1>44, <2>1 DEF element7
<1> QED BY <1>1, <1>2, <1>3, <1>4, <1>5, <1>6, <1>7, <1>8, <1>9, <1>10, <1>11, <1>12, <1>13, <1>14, <1>15, <1>16, <1>17, <1>18, <1>19, <1>20, <1>21, <1>22, <1>23, <1>24, <1>25, <1>26, <1>27, <1>28, <1>29, <1>30, <1>31, <1>32, <1>33, <1>34, <1>35, <1>36, <1>37, <1>38, <1>39, <1>40, <1>41, <1>42, <1>43, <1>44

(* A handler that has no row for a token moves nowhere, or into an error.  *)
LEMMA TokenRoleLemma ==
  ASSUME NEW tok \in PrologTokens, handler \in Handlers
  PROVE  \/ Moves(handler, TokenRole(tok), tok.kind)
         \/ TokenRole(tok) = common
<1> DEFINE rows == {r \in handlers(handler) : r.kind = tok.kind /\ r.word \in {AnyWord, tok.word}}
<1>1. CASE rows # {}
  <2>1. TokenRole(tok) = CHOOSE r \in rows : TRUE
    BY <1>1 DEF TokenRole
  <2>2. TokenRole(tok) \in rows
    BY <1>1, <2>1
  <2>3. Moves(handler, TokenRole(tok), TokenRole(tok).kind)
    BY <2>2, MovesLemma
  <2> QED BY <2>2, <2>3
<1>2. CASE rows = {} /\ tok.kind = "S"
  <2>1. TokenRole(tok) = [next |-> handler, role |-> "NONE"]
    BY <1>2 DEF TokenRole
  <2>2. TokenRole(tok).next = handler /\ TokenRole(tok).role = "NONE"
    BY <2>1
  <2> QED
    BY <2>2 DEF Moves, GroupMoves, EntityMoves, AttlistMoves, EntityRoles, EntityNames
<1>3. CASE rows = {} /\ tok.kind # "S"
  BY <1>3 DEF TokenRole
<1> QED BY <1>1, <1>2, <1>3

(***************************************************************************)
(* The prolog.  A group that is open has its connector inside the array;   *)
(* an entity that is being declared has none of the fields that are still  *)
(* to come, as long as the DTD is complete; and of the attributes of one   *)
(* name only the first has a default.                                      *)
(***************************************************************************)
GroupInv ==
  /\ level \in Nat /\ groupSize \in Nat
  /\ DOMAIN groupConnector \subseteq Nat /\ ConnectorsInside
  /\ handler \in Groups => level \in 1..groupSize - 1

LEMMA GroupInit == XInit => GroupInv
BY DEF XInit, GroupInv, ConnectorsInside, Groups

LEMMA GroupStep ==
  ASSUME GroupInv, NEW tok \in PrologTokens, handler \in Handlers,
         handler' = NextHandler(TokenRole(tok)), level' = Level(TokenRole(tok).role),
         Group(TokenRole(tok).role)
  PROVE  GroupInv'
<1> DEFINE row == TokenRole(tok)
           role == row.role
           l == Level(role)
<1>1. GroupMoves(handler, row)
  BY TokenRoleLemma DEF Moves, common, GroupMoves, Groups
<1>2. l \in Nat /\ (role = "GROUP_CLOSE" => handler \in Groups)
  BY <1>1 DEF Level, GroupInv, GroupMoves, Groups
<1>3. /\ groupSize' \in Nat /\ groupSize <= groupSize'
      /\ role \in {"GROUP_OPEN", "GROUP_SEQUENCE", "GROUP_CHOICE"} => l < groupSize'
  <2>1. CASE role = "GROUP_OPEN"
    <3>1. /\ groupSize' = IF l >= groupSize THEN Grown ELSE groupSize
          /\ Grown = IF groupSize = 0 THEN GROUP_SIZE ELSE 2 * groupSize
      BY <2>1 DEF Group, Grown
    <3>2. handler = "element1" => l = 1
      BY <2>1 DEF Level
    <3>3. handler = "element2" => l = 2
      BY <2>1 DEF Level
    <3>4. handler = "element6" => l = level + 1
      BY <2>1 DEF Level
    <3>5. handler # "element1" => handler \in {"element2", "element6"}
      BY <1>1, <2>1 DEF GroupMoves
    <3>6. handler # "element1" => level \in 1..groupSize - 1
      BY <3>5 DEF GroupInv, Groups
    <3>7. groupSize \in Nat /\ level \in Nat
      BY DEF GroupInv
    <3>8. CASE handler = "element1"
      BY <3>1, <3>2, <3>7, <3>8, <1>2, GroupAssumption
    <3>9. CASE handler # "element1"
      <4>1. groupSize > 1 /\ l <= groupSize
        BY <3>3, <3>4, <3>5, <3>6, <3>7, <3>9
      <4> QED BY <3>1, <3>7, <4>1, <1>2
    <3> QED BY <3>8, <3>9
  <2>2. CASE role # "GROUP_OPEN"
    <3>1. groupSize' = groupSize
      BY <2>2 DEF Group
    <3>2. role \in {"GROUP_SEQUENCE", "GROUP_CHOICE"} => l = level /\ handler \in Groups
      BY <1>1 DEF Level, GroupMoves, Groups
    <3> QED BY <2>2, <3>1, <3>2 DEF GroupInv
  <2> QED BY <2>1, <2>2
<1>4. \A k \in DOMAIN groupConnector' :
        \/ k \in DOMAIN groupConnector
        \/ k = l /\ role \in {"GROUP_OPEN", "GROUP_SEQUENCE", "GROUP_CHOICE"}
  BY DEF Group, Bind
<1>5. DOMAIN groupConnector' \subseteq Nat /\ ConnectorsInside'
  BY <1>2, <1>3, <1>4 DEF GroupInv, ConnectorsInside
<1>6. ASSUME handler' \in Groups PROVE level' \in 1..groupSize' - 1
  <2>1. ~(role = "GROUP_CLOSE" /\ l = 0) /\ row.next \in Groups
    BY <1>6 DEF NextHandler, Groups
  <2>2. CASE role = "GROUP_OPEN"
    <3>1. l >= 1
      BY <1>1, <2>2 DEF Level, GroupMoves, GroupInv
    <3> QED BY <1>2, <1>3, <2>2, <3>1
  <2>3. CASE role # "GROUP_OPEN"
    <3>1. handler \in Groups
      BY <1>1, <2>1, <2>3 DEF GroupMoves
    <3>2. level \in 1..groupSize - 1 /\ groupSize \in Nat
      BY <3>1 DEF GroupInv
    <3>3. l = level \/ (l = level - 1 /\ role = "GROUP_CLOSE")
      BY <2>3 DEF Level
    <3> QED BY <1>2, <1>3, <2>1, <3>2, <3>3
  <2> QED BY <2>2, <2>3
<1> QED BY <1>2, <1>3, <1>5, <1>6 DEF GroupInv

LEMMA AppendLemma ==
  ASSUME NEW S, NEW s \in Seq(S), NEW x \in S
  PROVE  /\ Append(s, x) \in Seq(S) /\ Len(s) \in Nat
         /\ Len(Append(s, x)) = Len(s) + 1 /\ Append(s, x) # <<>>
         /\ \A k \in 1..Len(s) : Append(s, x)[k] = s[k]
         /\ Append(s, x)[Len(s) + 1] = x
OBVIOUS

(* The defaults of an element type.                                        *)
Literals == {tok.word : tok \in PrologTokens} \cup {None}
OneDefault(ds) ==
  /\ ds \in Seq([id : Literals, value : Literals])
  /\ \A j, k \in 1..Len(ds) : j < k /\ ds[j].id = ds[k].id => ds[k].value = None
AttInv ==
  /\ declAttributeId \in Literals
  /\ None \notin DOMAIN elementTypes
  /\ \A type \in DOMAIN elementTypes : OneDefault(elementTypes[type])
  /\ handler \in Attlist => declElementType # None

LEMMA AttInit == XInit => AttInv
BY DEF XInit, AttInv, Literals, Attlist

LEMMA DefineLemma ==
  ASSUME AttInv, NEW type, type # None, NEW id \in Literals, NEW isId, NEW value \in Literals,
         elementTypes' = DefineAttribute(type, id, isId, value)
  PROVE  /\ None \notin DOMAIN elementTypes'
         /\ \A t \in DOMAIN elementTypes' : OneDefault(elementTypes'[t])
<1> DEFINE ds == DefaultAtts(type)
           again == (value # None \/ isId) /\ \E d \in ToSet(ds) : d.id = id
           da == [id |-> id, value |-> value]
           new == IF again THEN ds ELSE Append(ds, da)
<1>1. OneDefault(ds)
  <2>1. CASE type \in DOMAIN elementTypes
    BY <2>1 DEF DefaultAtts, AttInv
  <2>2. CASE type \notin DOMAIN elementTypes
    <3>1. ds = <<>>
      BY <2>2 DEF DefaultAtts
    <3> HIDE DEF ds
    <3>2. ds \in Seq([id : Literals, value : Literals]) /\ 1..Len(ds) = {}
      BY <3>1
    <3> QED BY <3>2 DEF OneDefault
  <2> QED BY <2>1, <2>2
<1>2. ds \in Seq([id : Literals, value : Literals]) /\ da \in [id : Literals, value : Literals]
  BY <1>1 DEF OneDefault
<1>3. OneDefault(new)
  <2>1. CASE again
    BY <1>1, <2>1
  <2>2. CASE ~again
    <3>1. new = Append(ds, da)
      BY <2>2
    <3>2. /\ new \in Seq([id : Literals, value : Literals]) /\ Len(new) = Len(ds) + 1
          /\ \A k \in 1..Len(ds) : new[k] = ds[k]
          /\ new[Len(ds) + 1] = da /\ Len(ds) \in Nat
      <4> HIDE DEF ds, new, da
      <4> QED BY <1>2, <3>1, AppendLemma
    <3>3. ASSUME value # None, NEW k \in 1..Len(ds) PROVE ds[k].id # id
      <4>1. ~\E d \in ToSet(ds) : d.id = id
        BY <2>2, <3>3
      <4>2. DOMAIN ds = 1..Len(ds)
        BY <1>2
      <4> HIDE DEF ds
      <4>3. ds[k] \in ToSet(ds)
        BY <4>2 DEF ToSet
      <4> QED BY <4>1, <4>3
    <3>4. ASSUME NEW j \in 1..Len(new), NEW k \in 1..Len(new), j < k, new[j].id = new[k].id
          PROVE  new[k].value = None
      <4>1. j \in 1..Len(ds)
        BY <3>2, <3>4
      <4>2. CASE k \in 1..Len(ds)
        BY <1>1, <3>2, <3>4, <4>1, <4>2 DEF OneDefault
      <4>3. CASE k = Len(ds) + 1
        BY <3>2, <3>3, <3>4, <4>1, <4>3
      <4> QED BY <3>2, <4>2, <4>3
    <3> QED BY <3>2, <3>4 DEF OneDefault
  <2> QED BY <2>1, <2>2
<1>4. elementTypes' = Bind(elementTypes, type, new)
  BY DEF DefineAttribute
<1> HIDE DEF new
<1>5. /\ DOMAIN elementTypes' = DOMAIN elementTypes \cup {type}
      /\ \A t \in DOMAIN elementTypes' : elementTypes'[t] = IF t = type THEN new ELSE elementTypes[t]
  BY <1>4 DEF Bind
<1> QED BY <1>3, <1>5 DEF AttInv

LEMMA AttStep ==
  ASSUME AttInv, NEW tok \in PrologTokens, handler \in Handlers,
         handler' = NextHandler(TokenRole(tok)), DeclareAttribute(TokenRole(tok).role, tok)
  PROVE  AttInv'
<1> DEFINE role == TokenRole(tok).role
<1>1. AttlistMoves(handler, TokenRole(tok))
  BY TokenRoleLemma DEF Moves, common, AttlistMoves, Attlist
<1>2. tok.word \in Literals /\ tok.word # None /\ None \in Literals
  BY DocumentsAssumption DEF Literals
<1>3. declAttributeId' \in Literals
  BY <1>2 DEF DeclareAttribute, AttInv
<1>4. ASSUME handler' \in Attlist PROVE declElementType' # None
  <2>1. TokenRole(tok).next \in Attlist
    BY <1>4 DEF NextHandler, Attlist
  <2> QED BY <1>1, <1>2, <2>1 DEF DeclareAttribute, AttInv, AttlistMoves
<1>5. /\ None \notin DOMAIN elementTypes'
      /\ \A t \in DOMAIN elementTypes' : OneDefault(elementTypes'[t])
  <2>1. CASE role = "NO_DEFAULT_ATTRIBUTE_VALUE" /\ complete
    <3>1. declElementType # None /\ declAttributeId \in Literals
      BY <1>1, <2>1 DEF AttlistMoves, AttInv
    <3>2. elementTypes' = DefineAttribute(declElementType, declAttributeId, declAttributeIsId, None)
      BY <2>1 DEF DeclareAttribute
    <3> QED BY <1>2, <3>1, <3>2, DefineLemma
  <2>2. CASE role = "DEFAULT_ATTRIBUTE_VALUE" /\ complete /\ ~Refused(role, tok)
    <3>1. declElementType # None /\ declAttributeId \in Literals
      BY <1>1, <2>2 DEF AttlistMoves, AttInv
    <3>2. elementTypes' = DefineAttribute(declElementType, declAttributeId, FALSE, tok.word)
      BY <2>2 DEF DeclareAttribute
    <3> QED BY <1>2, <3>1, <3>2, DefineLemma
  <2>3. CASE /\ ~(role = "NO_DEFAULT_ATTRIBUTE_VALUE" /\ complete)
             /\ ~(role = "DEFAULT_ATTRIBUTE_VALUE" /\ complete /\ ~Refused(role, tok))
    <3>1. elementTypes' = elementTypes
      BY <2>3 DEF DeclareAttribute
    <3> QED BY <3>1 DEF AttInv
  <2> QED BY <2>1, <2>2, <2>3
<1> QED BY <1>3, <1>4, <1>5 DEF AttInv

(* The entities and the one being declared.                                *)
Fields == {"text", "systemId", "publicId", "notation"}
IsEntity(e) ==
  /\ e = [f \in Fields |-> e[f]]
  /\ e.text \in DOMAIN Text \cup {None}
Fresh(e) == e.text = None /\ e.notation = None
EntityInv ==
  /\ \A key \in DOMAIN entities : IsEntity(entities[key])
  /\ declEntity # None => declEntity \in DOMAIN entities
Binding ==
  /\ handler \in Early => declEntity = None /\ DOMAIN entities = {}
  /\ handler = "doctype3" => DOMAIN entities \subseteq {declEntity} \ {None}
  /\ declEntity # None =>
       /\ handler \in Unset \cup {"doctype3"} =>
            Fresh(entities[declEntity]) /\ entities[declEntity].systemId = None
       /\ handler \in Located => Fresh(entities[declEntity])

LEMMA EntityInit == XInit => EntityInv /\ Binding
BY DEF XInit, EntityInv, Binding, Early, Unset, Located

(* What a role makes of the entities: only the one declEntity points to    *)
(* changes, and only in the field of the role.                             *)
Was(key) == IF key \in DOMAIN entities THEN entities[key] ELSE Unbound
Written(fields, word) ==
  /\ declEntity' = None => entities' = entities
  /\ DOMAIN entities' = DOMAIN entities \cup ({declEntity'} \ {None})
  /\ \A key \in DOMAIN entities : key # declEntity' => entities'[key] = entities[key]
  /\ declEntity' # None =>
       /\ entities'[declEntity'] = [f \in Fields |-> entities'[declEntity'][f]]
       /\ \A f \in Fields : entities'[declEntity'][f] =
            IF f \in fields THEN word ELSE Was(declEntity')[f]

LEMMA DeclareLemma ==
  ASSUME EntityInv, NEW role, NEW tok \in PrologTokens, DeclareEntity(role, tok)
  PROVE  /\ declEntity' = DeclEntity(role, tok)
         /\ \E fields \in SUBSET Field(role) : Written(fields, tok.word)
<1> DEFINE key == DeclEntity(role, tok)
           known == IF key = None \/ key \in DOMAIN entities THEN entities
                    ELSE Bind(entities, key, Unbound)
           fields == IF Refused(role, tok) THEN Field(role) \ {"publicId"} ELSE Field(role)
<1>1. /\ declEntity' = key
      /\ entities' = IF key = None THEN known
                     ELSE [known EXCEPT ![key] =
                             [f \in DOMAIN @ |-> IF f \in fields THEN tok.word ELSE @[f]]]
  BY DEF DeclareEntity
<1>2. fields \in SUBSET Field(role)
  OBVIOUS
<1>0. key = DeclEntity(role, tok)
  OBVIOUS
<1> HIDE DEF key, fields
<1>3. CASE key = None
  <2>1. entities' = entities /\ declEntity' = None
    BY <1>1, <1>3
  <2>2. Written(fields, tok.word)
    BY <2>1 DEF Written
  <2> QED BY <1>0, <1>1, <1>2, <2>2
<1>4. CASE key # None
  <2>1. /\ DOMAIN known = DOMAIN entities \cup {key}
        /\ \A k \in DOMAIN known : known[k] = Was(k)
    BY <1>4 DEF Bind, Was
  <2>2. DOMAIN Was(key) = Fields
    <3>1. DOMAIN Unbound = Fields
      BY DEF Unbound, Fields
    <3>2. key \in DOMAIN entities => DOMAIN entities[key] = Fields
      BY DEF EntityInv, IsEntity
    <3> QED BY <3>1, <3>2 DEF Was
  <2>3. entities' = [k \in DOMAIN known |->
           IF k = key THEN [f \in Fields |-> IF f \in fields THEN tok.word ELSE Was(key)[f]]
           ELSE known[k]]
    <3>1. known[key] = Was(key)
      BY <2>1
    <3> HIDE DEF known
    <3>2. entities' = [known EXCEPT ![key] =
                          [f \in DOMAIN @ |-> IF f \in fields THEN tok.word ELSE @[f]]]
      BY <1>1, <1>4
    <3>3. entities' = [k \in DOMAIN known |->
             IF k = key THEN [f \in DOMAIN known[key] |-> IF f \in fields THEN tok.word ELSE known[key][f]]
             ELSE known[k]]
      BY <3>2
    <3> QED BY <2>2, <3>1, <3>3
  <2>4. /\ DOMAIN entities' = DOMAIN entities \cup {key}
        /\ \A k \in DOMAIN entities : k # key => entities'[k] = entities[k]
        /\ entities'[key] = [f \in Fields |-> IF f \in fields THEN tok.word ELSE Was(key)[f]]
    <3>1. \A k \in DOMAIN entities : known[k] = entities[k]
      BY <2>1 DEF Was
    <3>2. DOMAIN known = DOMAIN entities \cup {key}
      BY <2>1
    <3> HIDE DEF known
    <3> QED BY <2>3, <3>1, <3>2
  <2>5. entities'[key] = [f \in Fields |-> entities'[key][f]]
    BY <2>4
  <2>6. Written(fields, tok.word)
    BY <1>1, <1>4, <2>4, <2>5 DEF Written
  <2> QED BY <1>0, <1>1, <1>2, <2>6
<1> QED BY <1>3, <1>4

(* Which entity and which field that is.                                   *)
LEMMA DeclEntityLemma ==
  ASSUME NEW role, NEW tok
  PROVE  /\ role \in EntityNames => /\ Field(role) = {}
                                    /\ \/ DeclEntity(role, tok) \in {None} \/ ~complete
                                       \/ DeclEntity(role, tok) \notin DOMAIN entities
         /\ role = "DOCTYPE_PUBLIC_ID" => Field(role) = {"publicId"}
         /\ role = "DOCTYPE_SYSTEM_ID" => DeclEntity(role, tok) = IF declEntity = None THEN ExternalSubset ELSE declEntity
         /\ role \notin EntityNames \cup {"DOCTYPE_PUBLIC_ID", "DOCTYPE_SYSTEM_ID"} =>
              DeclEntity(role, tok) = declEntity
         /\ role \notin EntityRoles => Field(role) = {}
         /\ role = "ENTITY_PUBLIC_ID" => Field(role) = {"publicId"}
         /\ role \in {"ENTITY_SYSTEM_ID", "DOCTYPE_SYSTEM_ID"} => Field(role) = {"systemId"}
         /\ role = "ENTITY_NOTATION_NAME" => Field(role) = {"notation"}
         /\ role # "ENTITY_VALUE" => "text" \notin Field(role)
BY DEF Field, DeclEntity, EntityNames, EntityRoles, IfNew

(***************************************************************************)
(* One token of the prolog: the entities stay well formed, and as long as  *)
(* the DTD is complete no declaration changes what another one made.       *)
(***************************************************************************)
Kept(was, is) ==
  /\ was.text # None \/ was.notation # None => is = was
  /\ was.systemId # None => [is EXCEPT !.notation = None] = [was EXCEPT !.notation = None]

LEMMA EntityStep ==
  ASSUME EntityInv, complete => Binding, NEW tok \in PrologTokens, handler \in Handlers,
         handler' = NextHandler(TokenRole(tok)), DeclareEntity(TokenRole(tok).role, tok)
  PROVE  /\ EntityInv' /\ (complete => Binding')
         /\ complete => \A key \in DOMAIN entities : Kept(entities[key], entities'[key])
<1> DEFINE row == TokenRole(tok)
           role == row.role
           key == declEntity'
<1>1. EntityMoves(handler, row, tok.kind)
  BY TokenRoleLemma DEF Moves, common, EntityMoves, EntityRoles, EntityNames, Early, Unset, Located
<1>2. PICK fields \in SUBSET Field(role) : Written(fields, tok.word)
  BY DeclareLemma
<1>3. key = DeclEntity(role, tok)
  BY DeclareLemma
<1>4. \A k \in DOMAIN entities : IsEntity(entities[k])
  BY DEF EntityInv
<1>5. IsEntity(Unbound) /\ Fresh(Unbound) /\ Unbound.systemId = None
  BY DEF IsEntity, Unbound, Fields, Fresh
<1>6. IsEntity(Was(key)) /\ (key \in DOMAIN entities => Was(key) = entities[key])
  BY <1>4, <1>5 DEF Was
<1>7. EntityInv'
  <2>1. key # None => IsEntity(entities'[key])
    <3>1. "text" \in fields => tok.word \in DOMAIN Text
      BY <1>1, DeclEntityLemma, DocumentsAssumption DEF EntityMoves
    <3>2. key # None => entities'[key].text = IF "text" \in fields THEN tok.word ELSE Was(key).text
      BY <1>2 DEF Written, Fields
    <3> QED BY <1>2, <1>6, <3>1, <3>2 DEF IsEntity, Written
  <2>2. \A k \in DOMAIN entities' : k # key \/ key = None => IsEntity(entities'[k])
    <3>1. CASE key = None
      BY <1>2, <1>4, <3>1 DEF Written
    <3>2. CASE key # None
      BY <1>2, <1>4, <3>2 DEF Written
    <3> QED BY <3>1, <3>2
  <2>3. key # None => key \in DOMAIN entities'
    BY <1>2 DEF Written
  <2> QED BY <2>1, <2>2, <2>3 DEF EntityInv
<1>8. /\ key # None => /\ entities'[key].text = IF "text" \in fields THEN tok.word ELSE Was(key).text
                       /\ entities'[key].notation = IF "notation" \in fields THEN tok.word ELSE Was(key).notation
                       /\ entities'[key].systemId = IF "systemId" \in fields THEN tok.word ELSE Was(key).systemId
  BY <1>2 DEF Written, Fields
<1>9. role \notin EntityRoles => fields = {} /\ key = declEntity
  BY <1>3, DeclEntityLemma DEF EntityRoles
<1>11. ASSUME complete PROVE Binding'
  <2>1. Binding
    BY <1>11
  <2>2. ASSUME handler' \in Early PROVE key = None /\ DOMAIN entities' = {}
    <3>1. handler \in Early /\ role \notin EntityRoles
      BY <1>1, <2>2 DEF NextHandler, EntityMoves, Early
    <3> QED BY <1>2, <1>9, <2>1, <3>1 DEF Binding, Written
  <2>3. ASSUME handler' = "doctype3"
        PROVE  /\ DOMAIN entities' \subseteq {key} \ {None}
               /\ key # None => Fresh(entities'[key]) /\ entities'[key].systemId = None
    <3>1. \/ handler = "doctype3" /\ role \notin EntityRoles
          \/ handler \in Early /\ role \notin EntityRoles \ {"DOCTYPE_PUBLIC_ID"}
      BY <1>1, <2>3 DEF NextHandler, EntityMoves
    <3>2. CASE handler = "doctype3" /\ role \notin EntityRoles
      <4>1. fields = {} /\ key = declEntity
        BY <1>9, <3>2
      <4>2. DOMAIN entities \subseteq {declEntity} \ {None}
        BY <2>1, <3>2 DEF Binding
      <4>3. declEntity # None => /\ Fresh(entities[declEntity]) /\ entities[declEntity].systemId = None
                                 /\ declEntity \in DOMAIN entities
        BY <2>1, <3>2 DEF Binding, EntityInv
      <4> QED BY <1>2, <1>6, <1>8, <4>1, <4>2, <4>3 DEF Fresh, Written
    <3>3. CASE handler \in Early /\ role \notin EntityRoles \ {"DOCTYPE_PUBLIC_ID"}
      <4>1. "text" \notin fields /\ "notation" \notin fields /\ "systemId" \notin fields
        BY <3>3, DeclEntityLemma
      <4>2. DOMAIN entities = {}
        BY <2>1, <3>3 DEF Binding
      <4>3. Was(key) = Unbound
        BY <4>2 DEF Was
      <4> QED BY <1>2, <1>5, <1>8, <4>1, <4>2, <4>3 DEF Fresh, Written
    <3> QED BY <3>1, <3>2, <3>3
  <2>4. ASSUME handler' \in Unset, key # None
        PROVE  Fresh(entities'[key]) /\ entities'[key].systemId = None
    <3>1. \/ role \in EntityNames
          \/ handler \in Unset /\ role \notin EntityRoles \ {"ENTITY_PUBLIC_ID"}
      BY <1>1, <2>4 DEF NextHandler, EntityMoves, Unset
    <3>2. CASE role \in EntityNames
      <4>1. fields = {} /\ key \notin DOMAIN entities
        BY <1>3, <1>11, <2>4, <3>2, DeclEntityLemma
      <4> QED BY <1>5, <1>8, <2>4, <4>1 DEF Was, Fresh
    <3>3. CASE handler \in Unset /\ role \notin EntityRoles \ {"ENTITY_PUBLIC_ID"}
      <4>1. "text" \notin fields /\ "notation" \notin fields /\ "systemId" \notin fields
        BY <3>3, DeclEntityLemma
      <4>2. key = declEntity /\ key \in DOMAIN entities
        BY <1>3, <2>4, <3>3, DeclEntityLemma DEF EntityInv, EntityRoles, EntityNames
      <4>3. Fresh(entities[key]) /\ entities[key].systemId = None
        BY <2>1, <2>4, <3>3, <4>2 DEF Binding
      <4> QED BY <1>6, <1>8, <2>4, <4>1, <4>2, <4>3 DEF Fresh
    <3> QED BY <3>1, <3>2, <3>3
  <2>5. ASSUME handler' \in Located, key # None PROVE Fresh(entities'[key])
    <3>1. handler \in Unset \cup Located /\ role \notin EntityRoles \ {"ENTITY_SYSTEM_ID"}
      BY <1>1, <2>5 DEF NextHandler, EntityMoves, Located
    <3>2. "text" \notin fields /\ "notation" \notin fields
      BY <3>1, DeclEntityLemma
    <3>3. key = declEntity /\ key \in DOMAIN entities
      BY <1>3, <2>5, <3>1, DeclEntityLemma DEF EntityInv, EntityRoles, EntityNames
    <3>4. Fresh(entities[key])
      BY <2>1, <2>5, <3>1, <3>3 DEF Binding
    <3> QED BY <1>6, <1>8, <2>5, <3>2, <3>3, <3>4 DEF Fresh
  <2> QED BY <2>2, <2>3, <2>4, <2>5 DEF Binding
<1>12. ASSUME complete, NEW k \in DOMAIN entities PROVE Kept(entities[k], entities'[k])
  <2> DEFINE was == entities[k]  is == entities'[k]
  <2>1. Binding
    BY <1>12
  <2>2. CASE k # key
    BY <1>2, <2>2 DEF Kept, Written
  <2>3. CASE k = key /\ key # None
    <3>1. /\ was = [f \in Fields |-> was[f]] /\ is = [f \in Fields |-> is[f]]
          /\ \A f \in Fields : is[f] = IF f \in fields THEN tok.word ELSE was[f]
      BY <1>2, <1>4, <1>6, <2>3 DEF Written, IsEntity
    <3>2. CASE fields = {}
      BY <3>1, <3>2 DEF Kept
    <3>3. CASE role = "ENTITY_NOTATION_NAME"
      <4>1. handler \in Located /\ key = declEntity /\ fields \subseteq {"notation"}
        BY <1>1, <1>3, <3>3, DeclEntityLemma DEF EntityMoves, EntityNames
      <4>2. Fresh(was)
        BY <2>1, <2>3, <4>1 DEF Binding
      <4>3. [is EXCEPT !.notation = None] = [was EXCEPT !.notation = None]
        BY <3>1, <4>1
      <4> QED BY <4>2, <4>3 DEF Kept, Fresh
    <3>4. CASE role \in {"ENTITY_PUBLIC_ID", "ENTITY_SYSTEM_ID", "ENTITY_VALUE"}
      <4>1. handler \in Unset /\ key = declEntity
        BY <1>1, <1>3, <3>4, DeclEntityLemma DEF EntityMoves, EntityNames
      <4>2. Fresh(was) /\ was.systemId = None
        BY <2>1, <2>3, <4>1 DEF Binding
      <4> QED BY <4>2 DEF Kept, Fresh
    <3>5. CASE role = "DOCTYPE_PUBLIC_ID"
      BY <1>1, <1>12, <2>1, <3>5 DEF EntityMoves, Binding
    <3>6. CASE role = "DOCTYPE_SYSTEM_ID"
      <4>1. handler = "doctype3" /\ k = declEntity /\ declEntity # None
        BY <1>1, <1>12, <2>1, <3>6 DEF EntityMoves, Binding
      <4>2. Fresh(was) /\ was.systemId = None
        BY <2>1, <4>1 DEF Binding
      <4> QED BY <4>2 DEF Kept, Fresh
    <3> QED BY <3>2, <3>3, <3>4, <3>5, <3>6, DeclEntityLemma DEF EntityRoles, EntityNames
  <2>4. CASE k = None
    <3>1. is = was
      BY <1>2, <2>4, <1>12 DEF Written
    <3> QED BY <3>1 DEF Kept
  <2> QED BY <2>2, <2>3, <2>4
<1> QED BY <1>7, <1>11, <1>12

(***************************************************************************)
(* The parser.  Everything but the prolog leaves the prolog alone.         *)
(***************************************************************************)
Untold == [name |-> None, given |-> <<>>, list |-> <<>>]
Blank == calls = <<>> /\ tagStack = <<>> /\ openEntities = <<>> /\ marked = {} /\ told = Untold
PrologInv ==
  /\ GroupInv /\ AttInv /\ EntityInv /\ (complete => Binding)
  /\ processor = "prolog" => handler \in Handlers /\ Blank

LEMMA PrologInit == XInit => PrologInv
<1> SUFFICES ASSUME XInit PROVE PrologInv
  OBVIOUS
<1>1. handler \in Handlers /\ Blank
  BY DEF XInit, Handlers, Early, Blank, Untold
<1> QED BY <1>1, GroupInit, AttInit, EntityInit DEF PrologInv

LEMMA FreedLemma == ParserFree => XInit'
BY DEF ParserFree, XInit

LEMMA ErrorLemma ==
  ASSUME NEW error \in XML_Error \cup {None}, NEW next, Result(error, next)
  PROVE  /\ error # None => processor' = "error"
         /\ error = None => processor' = next
BY DEF Result

(* One token of the content moves on from it, or ends in an error.         *)
LEMMA TokenLemma ==
  ASSUME NEW tok, processor = "content", Token(tok)
  PROVE  processor' \in {"content", "cdata", "epilog", "error"}
<1>1. \A error \in XML_Error : Fail(error) => processor' = "error"
  BY ErrorLemma, DocumentsAssumption DEF Fail
<1>2. \A next : Go(next) => processor' = next
  BY ErrorLemma DEF Go
<1>3. \A n : NextProcessor(n) \in {"content", "epilog"}
  BY DEF NextProcessor
<1> HIDE DEF Fail, Go, NextProcessor
<1>4. CASE tok.kind \in Tag
  <2>1. StartTag(tok)
    BY <1>4 DEF Token, Tag
  <2> QED BY <1>1, <1>2, <1>3, <2>1 DEF StartTag, XML_Error
<1>5. CASE tok.kind = "END_TAG"
  <2>1. EndTag(tok)
    BY <1>5 DEF Token, Tag
  <2> QED BY <1>1, <1>2, <1>3, <2>1 DEF EndTag, XML_Error
<1>6. CASE tok.kind = "ENTITY_REF"
  <2>1. EntityRef(tok)
    BY <1>6 DEF Token, Tag
  <2> QED BY <1>1, <1>2, <2>1 DEF EntityRef, XML_Error
<1>7. CASE tok.kind \notin Tag \cup {"END_TAG", "ENTITY_REF"}
  BY <1>1, <1>2, <1>7 DEF Token, XML_Error
<1> QED BY <1>4, <1>5, <1>6, <1>7

ContentNext == DoContent \/ DoEntity \/ DoCdataSection \/ Epilog \/ Invalid \/ Finish

LEMMA ContentFrame ==
  ASSUME ContentNext
  PROVE  UNCHANGED prolog /\ processor' # "prolog"
<1>1. CASE DoContent
  BY <1>1, TokenLemma DEF DoContent
<1>2. CASE DoEntity
  <2>1. CASE Last(openEntities).rest # <<>>
    BY <1>2, <2>1, TokenLemma DEF DoEntity
  <2>2. CASE Last(openEntities).rest = <<>> /\ tagLevel # StartTagLevel
    <3>1. Fail("ASYNC_ENTITY") /\ UNCHANGED prolog
      BY <1>2, <2>2 DEF DoEntity
    <3> QED BY <3>1, ErrorLemma, DocumentsAssumption DEF Fail, XML_Error
  <2>3. CASE Last(openEntities).rest = <<>> /\ tagLevel = StartTagLevel
    BY <1>2, <2>3 DEF DoEntity
  <2> QED BY <2>1, <2>2, <2>3
<1>3. CASE DoCdataSection
  BY <1>3, ErrorLemma DEF DoCdataSection, XML_Error
<1>4. CASE Epilog
  BY <1>4, ErrorLemma DEF Epilog, XML_Error
<1>5. CASE Invalid
  <2>1. "INVALID_TOKEN" \in XML_Error
    BY DEF XML_Error
  <2> QED BY <1>5, <2>1, ErrorLemma, DocumentsAssumption DEF Invalid
<1>6. CASE Finish
  <2>1. \A partial \in BOOLEAN : AtEnd(partial) \in XML_Error \cup {None}
    BY DEF AtEnd, XML_Error
  <2> QED BY <1>6, <2>1, ErrorLemma DEF Finish
<1> QED BY <1>1, <1>2, <1>3, <1>4, <1>5, <1>6 DEF ContentNext

LEMMA PrologStep == PrologInv /\ [XNext]_xvars => PrologInv'
<1> SUFFICES ASSUME PrologInv, [XNext]_xvars PROVE PrologInv'
  OBVIOUS
<1>1. CASE DoProlog
  <2>1. PICK tok \in PrologTokens :
          LET row == TokenRole(tok)
              role == row.role
          IN  /\ handler' = NextHandler(row) /\ level' = Level(role)
              /\ Group(role) /\ DeclareEntity(role, tok) /\ DeclareAttribute(role, tok)
              /\ Dtd(role, tok)
              /\ Result(PrologError(role, tok),
                        IF role = "INSTANCE_START" THEN "content" ELSE "prolog")
    BY <1>1 DEF DoProlog
  <2>2. handler \in Handlers /\ Blank
    BY <1>1 DEF DoProlog, PrologInv
  <2>3. GroupInv'
    BY <2>1, <2>2, GroupStep DEF PrologInv
  <2>4. AttInv'
    BY <2>1, <2>2, AttStep DEF PrologInv
  <2>5. EntityInv' /\ (complete => Binding')
    BY <2>1, <2>2, EntityStep DEF PrologInv
  <2>6. complete' => complete
    BY <2>1 DEF Dtd
  <2>7. ASSUME processor' = "prolog" PROVE handler' \in Handlers /\ Blank'
    <3>1. PrologError(TokenRole(tok).role, tok) \in XML_Error \cup {None}
      BY DEF PrologError, XML_Error
    <3>2. PrologError(TokenRole(tok).role, tok) = None /\ TokenRole(tok).role # "INSTANCE_START"
      BY <2>1, <2>7, <3>1, ErrorLemma
    <3>3. TokenRole(tok) # common
      BY <3>2, DocumentsAssumption DEF PrologError, common, XML_Error
    <3>4. TokenRole(tok).next \in Handlers
      BY <2>2, <3>2, <3>3, TokenRoleLemma DEF Moves
    <3>5. handler' \in Handlers
      BY <2>1, <3>4 DEF NextHandler, Handlers
    <3>6. UNCHANGED content
      BY <1>1 DEF DoProlog
    <3> QED BY <2>2, <3>5, <3>6 DEF Blank, content, Untold
  <2> QED BY <2>3, <2>4, <2>5, <2>6, <2>7 DEF PrologInv
<1>2. CASE ContentNext \/ UNCHANGED xvars
  <2>1. UNCHANGED prolog
    BY <1>2, ContentFrame DEF xvars
  <2>2. GroupInv' /\ AttInv' /\ EntityInv' /\ (complete' => Binding')
    BY <2>1 DEF PrologInv, prolog, GroupInv, ConnectorsInside, AttInv, EntityInv, Binding
  <2>3. processor' = "prolog" => handler' \in Handlers /\ Blank'
    <3>1. CASE ContentNext
      BY <3>1, ContentFrame
    <3>2. CASE UNCHANGED xvars
      BY <3>2 DEF PrologInv, xvars, content, prolog, Blank, Untold
    <3> QED BY <1>2, <3>1, <3>2
  <2> QED BY <2>2, <2>3 DEF PrologInv
<1>3. CASE ParserFree
  <2>1. XInit'
    BY <1>3, FreedLemma
  <2>2. XInit' => PrologInv'
    BY PrologInit, PTL
  <2> QED BY <2>1, <2>2
<1> QED BY <1>1, <1>2, <1>3 DEF XNext, ContentNext

LEMMA PrologHolds == XSpec => []PrologInv
BY PrologInit, PrologStep, PTL DEF XSpec

(***************************************************************************)
(* groupConnector is never written outside: doProlog grows it whenever a   *)
(* group opens that is as deep as it is long, and a connector is stored    *)
(* only for a group that is open.                                          *)
(***************************************************************************)
THEOREM ConnectorsStayInside == XSpec => []ConnectorsInside
<1>1. PrologInv => ConnectorsInside
  BY DEF PrologInv, GroupInv
<1> QED BY <1>1, PrologHolds, PTL

(***************************************************************************)
(* FirstBinds: no declaration of doProlog changes the value or the         *)
(* identifiers of an entity that has them, while the DTD is complete.      *)
(***************************************************************************)
THEOREM FirstDeclarationBinds == XSpec => FirstBinds
<1> DEFINE Bound ==
      processor = "prolog" /\ complete /\ ~ParserFree =>
        \A key \in DOMAIN entities : Kept(entities[key], entities'[key])
<1>1. PrologInv /\ [XNext]_xvars => [Bound]_xvars
  <2> SUFFICES ASSUME PrologInv, XNext, processor = "prolog", complete, ~ParserFree,
                      NEW key \in DOMAIN entities
               PROVE  Kept(entities[key], entities'[key])
    OBVIOUS
  <2>1. CASE DoProlog
    <3>1. PICK tok \in PrologTokens :
            /\ handler' = NextHandler(TokenRole(tok))
            /\ DeclareEntity(TokenRole(tok).role, tok)
      BY <2>1 DEF DoProlog
    <3> QED BY <3>1, EntityStep DEF PrologInv
  <2>2. CASE ContentNext
    BY <2>2, ContentFrame DEF prolog, Kept
  <2> QED BY <2>1, <2>2 DEF XNext, ContentNext
<1>2. [Bound]_xvars =>
        [processor = "prolog" /\ complete /\ ~ParserFree =>
           \A key \in DOMAIN entities :
             LET was == entities[key]  is == entities'[key] IN
             /\ was.text # None \/ was.notation # None => is = was
             /\ was.systemId # None => [is EXCEPT !.notation = None] = [was EXCEPT !.notation = None]]_xvars
  BY DEF Kept
<1> QED BY <1>1, <1>2, PrologHolds, PTL DEF XSpec, FirstBinds

(***************************************************************************)
(* The calls so far.  Unended counts through them; its value after one     *)
(* more call, and after a prefix, is what follows.                         *)
(***************************************************************************)
LEMMA LeastLemma ==
  ASSUME NEW T, T \subseteq Nat, T # {}
  PROVE  \E x \in T : \A y \in T : x <= y
<1>1. PICK x \in T : \A y \in T : ~(<<y, x>> \in OpToRel(<, Nat))
  BY NatLessThanWellFounded, WFMin
<1>2. \A y \in T : x \in Nat /\ y \in Nat /\ ~(y < x)
  BY <1>1, Zenon DEF OpToRel
<1> QED BY <1>2

Counted(cs, g, n) ==
  g = [m \in 0..n |-> IF m = 0 THEN <<>> ELSE Called(g[m - 1], cs[m])]

LEMMA CountedExists ==
  ASSUME NEW cs, NEW n \in Nat
  PROVE  \E g : Counted(cs, g, n)
<1> DEFINE T == {k \in Nat : ~\E g : Counted(cs, g, k)}
<1>1. SUFFICES ASSUME T # {} PROVE FALSE
  OBVIOUS
<1>2. PICK k \in T : \A l \in T : k <= l
  BY <1>1, LeastLemma
<1>3. CASE k = 0
  <2> DEFINE g == [m \in 0..0 |-> <<>>]
  <2>1. g = [m \in 0..0 |-> IF m = 0 THEN <<>> ELSE Called(g[m - 1], cs[m])]
    OBVIOUS
  <2> QED BY <1>3, <2>1 DEF Counted
<1>4. CASE k # 0
  <2>1. k - 1 \in Nat /\ k - 1 \notin T
    BY <1>2, <1>4
  <2>2. PICK g : Counted(cs, g, k - 1)
    BY <2>1
  <2> DEFINE h == [m \in 0..k |-> IF m < k THEN g[m] ELSE Called(g[k - 1], cs[k])]
  <2>3. ASSUME NEW m \in 0..k
        PROVE  h[m] = IF m = 0 THEN <<>> ELSE Called(h[m - 1], cs[m])
    <3>1. CASE m = 0
      <4>1. h[m] = g[0] /\ 0 \in 0..k - 1
        BY <1>4, <3>1
      <4>2. g[0] = <<>>
        BY <2>2, <4>1 DEF Counted
      <4> QED BY <3>1, <4>1, <4>2
    <3>2. CASE m # 0 /\ m < k
      <4>1. h[m] = g[m] /\ h[m - 1] = g[m - 1] /\ m \in 0..k - 1
        BY <3>2
      <4>2. g[m] = Called(g[m - 1], cs[m])
        BY <2>2, <3>2, <4>1 DEF Counted
      <4> QED BY <3>2, <4>1, <4>2
    <3>3. CASE m = k
      BY <1>4, <3>3
    <3> QED BY <3>1, <3>2, <3>3
  <2>4. Counted(cs, h, k)
    <3>1. h = [m \in 0..k |-> h[m]]
      OBVIOUS
    <3> HIDE DEF h
    <3> QED BY <2>3, <3>1 DEF Counted
  <2> QED BY <1>2, <2>4
<1> QED BY <1>3, <1>4

LEMMA CountedAgree ==
  ASSUME NEW cs, NEW ds, NEW g, NEW h, NEW n \in Nat, NEW l \in Nat, n <= l,
         Counted(cs, g, n), Counted(ds, h, l), \A k \in 1..n : cs[k] = ds[k]
  PROVE  \A k \in 0..n : g[k] = h[k]
<1> DEFINE T == {k \in 0..n : g[k] # h[k]}
<1>1. SUFFICES ASSUME T # {} PROVE FALSE
  OBVIOUS
<1>2. T \subseteq Nat
  OBVIOUS
<1>3. PICK k \in T : \A j \in T : k <= j
  BY <1>1, <1>2, LeastLemma
<1>4. CASE k = 0
  BY <1>3, <1>4 DEF Counted
<1>5. CASE k # 0
  <2>1. k \in 1..n /\ k - 1 \in 0..n /\ k \in 0..l /\ k \in 0..n
    BY <1>3, <1>5
  <2>2. g[k - 1] = h[k - 1]
    BY <1>3, <2>1
  <2>3. g[k] = Called(g[k - 1], cs[k]) /\ h[k] = Called(h[k - 1], ds[k])
    BY <1>5, <2>1 DEF Counted
  <2> QED BY <1>3, <2>1, <2>2, <2>3
<1> QED BY <1>4, <1>5

LEMMA UnendedIs ==
  ASSUME NEW cs, NEW n \in Nat, Len(cs) = n
  PROVE  \E g : Counted(cs, g, n) /\ Unended(cs) = g[n]
<1> DEFINE g == CHOOSE g : Counted(cs, g, n)
<1>1. Counted(cs, g, n)
  BY CountedExists
<1>2. Unended(cs) = g[n]
  BY DEF Unended, Counted
<1> QED BY <1>1, <1>2

LEMMA UnendedLemma ==
  ASSUME NEW C, NEW cs \in Seq(C), NEW c \in C
  PROVE  /\ Unended(Append(cs, c)) = Called(Unended(cs), c)
         /\ \A k \in 0..Len(cs) : SubSeq(Append(cs, c), 1, k) = SubSeq(cs, 1, k)
         /\ SubSeq(cs, 1, Len(cs)) = cs
<1> DEFINE n == Len(cs)  ds == Append(cs, c)
<1>1. /\ n \in Nat /\ Len(ds) = n + 1 /\ ds[n + 1] = c
      /\ \A k \in 1..n : ds[k] = cs[k]
  BY AppendLemma
<1>2. PICK g : Counted(cs, g, n) /\ Unended(cs) = g[n]
  BY <1>1, UnendedIs
<1>3. n + 1 \in Nat
  BY <1>1
<1>4. PICK h : Counted(ds, h, n + 1) /\ Unended(ds) = h[n + 1]
  BY <1>1, <1>3, UnendedIs
<1> HIDE DEF n, ds
<1>5. g[n] = h[n]
  <2>1. \A k \in 0..n : g[k] = h[k]
    BY <1>1, <1>2, <1>3, <1>4, CountedAgree
  <2> QED BY <1>1, <2>1
<1>6. h[n + 1] = Called(h[n], ds[n + 1])
  BY <1>1, <1>4 DEF Counted
<1> QED BY <1>1, <1>2, <1>4, <1>5, <1>6 DEF n, ds

LEMMA UnendedNone == Unended(<<>>) = <<>>
<1>1. PICK g : Counted(<<>>, g, 0) /\ Unended(<<>>) = g[0]
  BY UnendedIs
<1> QED BY <1>1 DEF Counted

(***************************************************************************)
(* Elements nest.  The calls without an end are the tags on the stack; an  *)
(* open entity remembers how many there were of both when it was opened,   *)
(* and none of those has been taken off since: this is what the check for  *)
(* XML_ERROR_ASYNC_ENTITY is for.                                          *)
(***************************************************************************)
Calls == {"start", "end"} \X Names
Frame == [key : [kind : {"general"}, name : Names], rest : Seq(Tokens), start : Nat, from : Nat]

Nested(cs, ts) ==
  /\ cs \in Seq(Calls) /\ ts \in Seq(Names) /\ Unended(cs) = ts
  /\ \A k \in 1..Len(cs) - 1 : Unended(SubSeq(cs, 1, k)) # <<>>
Framed(fs, cs, ts) ==
  /\ fs \in Seq(Frame)
  /\ \A k \in 1..Len(fs) :
       /\ fs[k].start \in 1..Len(ts) /\ fs[k].from \in 1..Len(cs)
       /\ Unended(SubSeq(cs, 1, fs[k].from)) = SubSeq(ts, 1, fs[k].start)
  /\ \A j, k \in 1..Len(fs) : j <= k => fs[j].start <= fs[k].start
Phase ==
  /\ processor \in {"content", "cdata"} /\ tagStack = <<>> => calls = <<>>
  /\ processor \in {"epilog", "done"} => calls # <<>> /\ tagStack = <<>>
NestInv == Nested(calls, tagStack) /\ Framed(openEntities, calls, tagStack) /\ Phase

LEMMA NestedStep ==
  ASSUME NEW cs, NEW ts, NEW c \in Calls, NEW us \in Seq(Names), Nested(cs, ts),
         us = Called(ts, c), cs = <<>> \/ ts # <<>>
  PROVE  /\ Nested(Append(cs, c), us)
         /\ Len(Append(cs, c)) = Len(cs) + 1 /\ Len(cs) \in Nat
         /\ \A k \in 1..Len(cs) : SubSeq(Append(cs, c), 1, k) = SubSeq(cs, 1, k)
<1>1. cs \in Seq(Calls) /\ Unended(cs) = ts
  BY DEF Nested
<1>2. /\ Append(cs, c) \in Seq(Calls) /\ Len(cs) \in Nat
      /\ Len(Append(cs, c)) = Len(cs) + 1
  BY <1>1, AppendLemma
<1>3. /\ Unended(Append(cs, c)) = us
      /\ \A k \in 0..Len(cs) : SubSeq(Append(cs, c), 1, k) = SubSeq(cs, 1, k)
      /\ SubSeq(cs, 1, Len(cs)) = cs
  BY <1>1, UnendedLemma
<1>4. ASSUME NEW k \in 1..Len(Append(cs, c)) - 1
      PROVE  Unended(SubSeq(Append(cs, c), 1, k)) # <<>>
  <2>1. k \in 1..Len(cs) /\ k \in 0..Len(cs) /\ cs # <<>>
    BY <1>1, <1>2
  <2>2. SubSeq(Append(cs, c), 1, k) = SubSeq(cs, 1, k)
    BY <1>3, <2>1
  <2>3. CASE k = Len(cs)
    BY <1>1, <1>3, <2>1, <2>2, <2>3
  <2>4. CASE k # Len(cs)
    <3>1. k \in 1..Len(cs) - 1
      BY <1>2, <2>1, <2>4
    <3> QED BY <2>2, <3>1 DEF Nested
  <2> QED BY <2>3, <2>4
<1> QED BY <1>2, <1>3, <1>4 DEF Nested

LEMMA StartedLemma ==
  ASSUME NEW cs, NEW ts, NEW w \in Names, Nested(cs, ts), cs = <<>> \/ ts # <<>>
  PROVE  LET c == <<"start", w>>
             us == Append(ts, w)
         IN  /\ Nested(Append(cs, c), us) /\ us # <<>>
             /\ Len(Append(cs, c)) = Len(cs) + 1 /\ Len(cs) \in Nat
             /\ \A k \in 1..Len(cs) : SubSeq(Append(cs, c), 1, k) = SubSeq(cs, 1, k)
             /\ Len(us) = Len(ts) + 1 /\ Len(ts) \in Nat
             /\ \A k \in 0..Len(ts) : SubSeq(us, 1, k) = SubSeq(ts, 1, k)
             /\ Last(us) = w /\ Front(us) = ts
<1> DEFINE c == <<"start", w>>
           us == Append(ts, w)
<1>1. ts \in Seq(Names)
  BY DEF Nested
<1>2. /\ us \in Seq(Names) /\ us # <<>> /\ Len(ts) \in Nat /\ Len(us) = Len(ts) + 1
      /\ us[Len(ts) + 1] = w
  BY <1>1, AppendLemma
<1>3. us = Called(ts, c) /\ c \in Calls
  BY DEF Called, Calls
<1>4. /\ \A k \in 0..Len(ts) : SubSeq(us, 1, k) = SubSeq(ts, 1, k)
      /\ SubSeq(ts, 1, Len(ts)) = ts
  BY <1>1, UnendedLemma
<1>5. Last(us) = w /\ Front(us) = ts
  <2>1. Len(us) - 1 = Len(ts) /\ Len(ts) \in 0..Len(ts)
    BY <1>2
  <2> QED BY <1>2, <1>4, <2>1 DEF Last, Front
<1>6. /\ Nested(Append(cs, c), us)
      /\ Len(Append(cs, c)) = Len(cs) + 1 /\ Len(cs) \in Nat
      /\ \A k \in 1..Len(cs) : SubSeq(Append(cs, c), 1, k) = SubSeq(cs, 1, k)
  <2> HIDE DEF us, c
  <2> QED BY <1>2, <1>3, NestedStep
<1> QED BY <1>2, <1>4, <1>5, <1>6

LEMMA EndedLemma ==
  ASSUME NEW cs, NEW ts, Nested(cs, ts), ts # <<>>
  PROVE  LET c == <<"end", Last(ts)>>
             us == Front(ts)
         IN  /\ Nested(Append(cs, c), us)
             /\ Len(Append(cs, c)) = Len(cs) + 1 /\ Len(cs) \in Nat
             /\ \A k \in 1..Len(cs) : SubSeq(Append(cs, c), 1, k) = SubSeq(cs, 1, k)
             /\ Len(us) = Len(ts) - 1 /\ Len(ts) \in Nat
             /\ \A k \in 0..Len(us) : SubSeq(us, 1, k) = SubSeq(ts, 1, k)
<1> DEFINE c == <<"end", Last(ts)>>
           us == Front(ts)
<1>1. ts \in Seq(Names)
  BY DEF Nested
<1>2. /\ Len(ts) \in Nat /\ Len(ts) > 0 /\ us \in Seq(Names) /\ Len(us) = Len(ts) - 1
      /\ Last(ts) \in Names
      /\ \A k \in 1..Len(us) : us[k] = ts[k]
  <2>1. Len(ts) \in Nat /\ Len(ts) > 0
    BY <1>1
  <2>2. Last(ts) = ts[Len(ts)] /\ Front(ts) = SubSeq(ts, 1, Len(ts) - 1)
    BY DEF Front, Last
  <2>3. /\ SubSeq(ts, 1, Len(ts) - 1) \in Seq(Names)
        /\ Len(SubSeq(ts, 1, Len(ts) - 1)) = Len(ts) - 1
        /\ \A k \in 1..Len(ts) - 1 : SubSeq(ts, 1, Len(ts) - 1)[k] = ts[k]
    <3> DEFINE m == Len(ts) - 1
    <3>1. m \in Nat /\ \A i \in 1..m : i \in 1..Len(ts) /\ ts[i] \in Names
      BY <1>1, <2>1
    <3> HIDE DEF m
    <3>2. SubSeq(ts, 1, m) = [i \in 1..m |-> ts[i]]
      BY <1>1, <3>1
    <3>3. [i \in 1..m |-> ts[i]] \in Seq(Names) /\ Len([i \in 1..m |-> ts[i]]) = m
      BY <3>1
    <3> QED BY <3>2, <3>3 DEF m
  <2>4. ts[Len(ts)] \in Names
    BY <1>1, <2>1
  <2> QED BY <2>1, <2>2, <2>3, <2>4
<1>3. us = Called(ts, c) /\ c \in Calls
  <2>1. c[1] = "end" /\ c[2] = Last(ts)
    OBVIOUS
  <2>2. c \in Calls
    BY <1>2 DEF Calls
  <2> HIDE DEF c
  <2> QED BY <2>1, <2>2 DEF Called
<1>4. ASSUME NEW k \in 0..Len(us) PROVE SubSeq(us, 1, k) = SubSeq(ts, 1, k)
  <2> HIDE DEF us
  <2>1. /\ SubSeq(us, 1, k) = [m \in 1..k |-> us[m]]
        /\ SubSeq(ts, 1, k) = [m \in 1..k |-> ts[m]]
    BY <1>1, <1>2
  <2>2. \A m \in 1..k : us[m] = ts[m]
    BY <1>2
  <2> QED BY <2>1, <2>2
<1>5. /\ Nested(Append(cs, c), us)
      /\ Len(Append(cs, c)) = Len(cs) + 1 /\ Len(cs) \in Nat
      /\ \A k \in 1..Len(cs) : SubSeq(Append(cs, c), 1, k) = SubSeq(cs, 1, k)
  <2> HIDE DEF us, c
  <2> QED BY <1>2, <1>3, NestedStep
<1> QED BY <1>2, <1>4, <1>5

LEMMA FramedStep ==
  ASSUME NEW fs, NEW cs, NEW ts, Framed(fs, cs, ts), Len(cs) \in Nat,
         NEW gs \in Seq(Frame), NEW ds, NEW us, Len(ds) \in Nat, Len(us) \in Nat,
         Len(gs) <= Len(fs),
         \A k \in 1..Len(gs) : gs[k].start = fs[k].start /\ gs[k].from = fs[k].from,
         Len(cs) <= Len(ds), \A k \in 1..Len(cs) : SubSeq(ds, 1, k) = SubSeq(cs, 1, k),
         \A k \in 1..Len(gs) : /\ fs[k].start <= Len(us)
                               /\ SubSeq(us, 1, fs[k].start) = SubSeq(ts, 1, fs[k].start)
  PROVE  Framed(gs, ds, us)
<1>1. fs \in Seq(Frame) /\ Len(fs) \in Nat /\ Len(gs) \in Nat
  BY DEF Framed
<1>2. \A k \in 1..Len(gs) : k \in 1..Len(fs)
  BY <1>1
<1>3. ASSUME NEW k \in 1..Len(gs)
      PROVE  /\ gs[k].start \in 1..Len(us) /\ gs[k].from \in 1..Len(ds)
             /\ Unended(SubSeq(ds, 1, gs[k].from)) = SubSeq(us, 1, gs[k].start)
  <2>1. /\ fs[k].start \in 1..Len(ts) /\ fs[k].from \in 1..Len(cs)
        /\ Unended(SubSeq(cs, 1, fs[k].from)) = SubSeq(ts, 1, fs[k].start)
    BY <1>2 DEF Framed
  <2>2. gs[k].start = fs[k].start /\ gs[k].from = fs[k].from
    OBVIOUS
  <2>3. /\ fs[k].start <= Len(us)
        /\ SubSeq(us, 1, fs[k].start) = SubSeq(ts, 1, fs[k].start)
    OBVIOUS
  <2>4. SubSeq(ds, 1, fs[k].from) = SubSeq(cs, 1, fs[k].from)
    BY <2>1
  <2>5. fs[k].start \in 1..Len(us) /\ fs[k].from \in 1..Len(ds)
    <3>1. fs[k].start \in Nat /\ fs[k].start >= 1 /\ fs[k].start <= Len(us)
      BY <2>1, <2>3
    <3>2. fs[k].from \in Nat /\ fs[k].from >= 1 /\ fs[k].from <= Len(cs) /\ Len(cs) <= Len(ds)
      BY <2>1
    <3> QED BY <3>1, <3>2
  <2> QED BY <2>1, <2>2, <2>3, <2>4, <2>5
<1>4. ASSUME NEW j \in 1..Len(gs), NEW k \in 1..Len(gs), j <= k PROVE gs[j].start <= gs[k].start
  <2>1. fs[j].start <= fs[k].start
    BY <1>2, <1>4 DEF Framed
  <2> QED BY <2>1
<1> QED BY <1>3, <1>4 DEF Framed

LEMMA AdvancedLemma ==
  ASSUME openEntities \in Seq(Frame), openEntities # <<>> => Last(openEntities).rest # <<>>
  PROVE  /\ Advanced \in Seq(Frame) /\ Len(Advanced) = Len(openEntities)
         /\ \A k \in 1..Len(openEntities) : /\ Advanced[k].start = openEntities[k].start
                                            /\ Advanced[k].from = openEntities[k].from
<1> DEFINE n == Len(openEntities)
<1>1. CASE openEntities = <<>>
  <2>1. Advanced = <<>>
    BY <1>1 DEF Advanced
  <2> QED BY <1>1, <2>1
<1>2. CASE openEntities # <<>>
  <2>1. n \in Nat /\ n >= 1 /\ \A k \in 1..n : openEntities[k] \in Frame
    BY <1>2
  <2>2. Last(openEntities) = openEntities[n]
    BY DEF Last
  <2>3. openEntities[n].rest \in Seq(Tokens) /\ openEntities[n].rest # <<>>
    <3>1. openEntities[n] \in Frame
      BY <2>1
    <3> QED BY <1>2, <2>2, <3>1 DEF Frame
  <2> DEFINE f == [openEntities[n] EXCEPT !.rest = Tail(@)]
  <2>4. f \in Frame /\ f.start = openEntities[n].start /\ f.from = openEntities[n].from
    <3>1. Tail(openEntities[n].rest) \in Seq(Tokens)
      BY <2>3
    <3>2. openEntities[n] \in Frame
      BY <2>1
    <3> QED BY <3>1, <3>2 DEF Frame
  <2>5. Advanced = [openEntities EXCEPT ![n] = f]
    BY <1>2 DEF Advanced
  <2> HIDE DEF f
  <2>6. /\ Advanced \in Seq(Frame) /\ Len(Advanced) = n
        /\ \A k \in 1..n : Advanced[k] = IF k = n THEN f ELSE openEntities[k]
    BY <2>1, <2>4, <2>5
  <2> QED BY <2>1, <2>4, <2>6
<1> QED BY <1>1, <1>2

LEMMA FailNest ==
  ASSUME Nested(calls, tagStack), NEW error \in XML_Error, Fail(error)
  PROVE  NestInv'
<1>1. /\ processor' = "error" /\ openEntities' = <<>>
      /\ UNCHANGED <<calls, tagStack>>
  BY ErrorLemma, DocumentsAssumption DEF Fail
<1>2. Nested(calls', tagStack')
  BY <1>1
<1>3. \A cs, ts : Framed(<<>>, cs, ts)
  BY DEF Framed
<1>4. Framed(openEntities', calls', tagStack')
  BY <1>1, <1>3
<1>5. Phase'
  BY <1>1 DEF Phase
<1> QED BY <1>2, <1>4, <1>5 DEF NestInv

(* A token that is taken: the frames stay as long as no tag of theirs ends. *)
Stays ==
  /\ Len(calls) \in Nat /\ Len(calls') \in Nat /\ Len(calls) <= Len(calls')
  /\ \A k \in 1..Len(calls) : SubSeq(calls', 1, k) = SubSeq(calls, 1, k)
  /\ Len(tagStack') \in Nat
  /\ \A k \in 1..Len(openEntities) :
       /\ openEntities[k].start <= Len(tagStack')
       /\ SubSeq(tagStack', 1, openEntities[k].start) = SubSeq(tagStack, 1, openEntities[k].start)

LEMMA GoNest ==
  ASSUME Nested(calls', tagStack'), Framed(openEntities, calls, tagStack), Stays,
         openEntities # <<>> => Last(openEntities).rest # <<>>,
         NEW next, Go(next),
         \/ next \in {"content", "cdata"} /\ (tagStack' = <<>> => calls' = <<>>)
         \/ next = "epilog" /\ calls' # <<>> /\ tagStack' = <<>>
  PROVE  NestInv'
<1>1. processor' = next /\ openEntities' = Advanced
  BY ErrorLemma DEF Go
<1>2. openEntities \in Seq(Frame) /\ Len(openEntities) \in Nat
  BY DEF Framed
<1>3. /\ Advanced \in Seq(Frame) /\ Len(Advanced) = Len(openEntities)
      /\ \A k \in 1..Len(openEntities) : /\ Advanced[k].start = openEntities[k].start
                                         /\ Advanced[k].from = openEntities[k].from
  BY <1>2, AdvancedLemma
<1>4. Framed(Advanced, calls', tagStack')
  <2>1. \A k \in 1..Len(Advanced) :
          /\ openEntities[k].start <= Len(tagStack')
          /\ SubSeq(tagStack', 1, openEntities[k].start) = SubSeq(tagStack, 1, openEntities[k].start)
    BY <1>3 DEF Stays
  <2>2. /\ Len(calls) \in Nat /\ Len(calls') \in Nat /\ Len(calls) <= Len(calls')
        /\ \A k \in 1..Len(calls) : SubSeq(calls', 1, k) = SubSeq(calls, 1, k)
        /\ Len(tagStack') \in Nat
    BY DEF Stays
  <2>3. Len(Advanced) <= Len(openEntities)
    BY <1>2, <1>3
  <2>4. \A k \in 1..Len(Advanced) : /\ Advanced[k].start = openEntities[k].start
                                    /\ Advanced[k].from = openEntities[k].from
    BY <1>3
  <2> QED BY <1>3, <2>1, <2>2, <2>3, <2>4, FramedStep
<1>5. Phase'
  BY <1>1 DEF Phase
<1> QED BY <1>1, <1>4, <1>5 DEF NestInv

(* What every token of the content finds.                                  *)
Entered(tok) ==
  /\ Nested(calls, tagStack) /\ Framed(openEntities, calls, tagStack)
  /\ tagStack = <<>> => calls = <<>>
  /\ tok \in Tokens
  /\ openEntities # <<>> => Last(openEntities).rest # <<>>
  /\ tagStack = <<>> => tok.kind \in Tag

LEMMA EnteredLemma ==
  ASSUME NEW tok, Entered(tok)
  PROVE  /\ tagStack \in Seq(Names) /\ Len(tagStack) \in Nat
         /\ calls \in Seq(Calls) /\ Len(calls) \in Nat
         /\ calls = <<>> \/ tagStack # <<>>
         /\ tok.word \in Names
         /\ \A k \in 1..Len(openEntities) : openEntities[k].start \in 1..Len(tagStack)
BY DEF Entered, Nested, Framed, Names

(* Tokens that call no handler.                                            *)
LEMMA QuietNest ==
  ASSUME NEW tok, Entered(tok), tagStack # <<>>, UNCHANGED <<tagStack, calls>>,
         NEW next \in {"content", "cdata"}, Go(next)
  PROVE  NestInv'
<1>1. Nested(calls', tagStack') /\ tagStack' # <<>>
  BY DEF Entered
<1>2. Stays
  BY EnteredLemma DEF Stays
<1> QED BY <1>1, <1>2, GoNest DEF Entered

LEMMA StartTagNest ==
  ASSUME NEW tok, Entered(tok), StartTag(tok)
  PROVE  NestInv'
<1> DEFINE w == tok.word
           c == <<"start", w>>
           e == <<"end", w>>
           cs == Append(calls, c)
           us == Append(tagStack, w)
<1>1. Nested(calls, tagStack) /\ w \in Names /\ (calls = <<>> \/ tagStack # <<>>)
  BY EnteredLemma DEF Entered
<1>2. /\ Nested(cs, us) /\ us # <<>>
      /\ Len(cs) = Len(calls) + 1 /\ Len(calls) \in Nat
      /\ \A k \in 1..Len(calls) : SubSeq(cs, 1, k) = SubSeq(calls, 1, k)
      /\ Len(us) = Len(tagStack) + 1 /\ Len(tagStack) \in Nat
      /\ \A k \in 0..Len(tagStack) : SubSeq(us, 1, k) = SubSeq(tagStack, 1, k)
      /\ Last(us) = w /\ Front(us) = tagStack
  BY <1>1, StartedLemma
<1>3. \A k \in 1..Len(openEntities) : openEntities[k].start \in 1..Len(tagStack)
  BY EnteredLemma
<1>4. CASE Duplicate(tok.atts) /\ Fail("DUPLICATE_ATTRIBUTE")
  BY <1>1, <1>4, FailNest DEF XML_Error
<1>5. CASE tok.kind = "START_TAG" /\ tagStack' = us /\ calls' = cs /\ Go("content")
  <2>1. Nested(calls', tagStack') /\ tagStack' # <<>>
    BY <1>2, <1>5
  <2>2. Stays
    <3> HIDE DEF cs, us
    <3> QED BY <1>2, <1>3, <1>5 DEF Stays
  <2> QED BY <1>5, <2>1, <2>2, GoNest DEF Entered
<1>6. CASE calls' = calls \o <<c, e>> /\ Go(NextProcessor(tagLevel)) /\ tagStack' = tagStack
  <2> DEFINE ds == Append(cs, e)
  <2>1. calls' = ds
    <3>1. calls \in Seq(Calls) /\ c \in Calls /\ e \in Calls
      BY <1>1, EnteredLemma DEF Calls
    <3> HIDE DEF c, e
    <3> QED BY <1>6, <3>1
  <2>2. /\ Nested(ds, tagStack)
        /\ Len(ds) = Len(cs) + 1
        /\ \A k \in 1..Len(cs) : SubSeq(ds, 1, k) = SubSeq(cs, 1, k)
    <3>1. Nested(cs, us) /\ us # <<>> /\ Last(us) = w /\ Front(us) = tagStack
      BY <1>2
    <3> HIDE DEF cs, us
    <3> QED BY <3>1, EndedLemma
  <2> HIDE DEF cs, us, c, e
  <2>3. \A k \in 1..Len(calls) : SubSeq(ds, 1, k) = SubSeq(calls, 1, k)
    <3>1. \A k \in 1..Len(calls) : k \in 1..Len(cs)
      BY <1>2
    <3> QED BY <1>2, <2>2, <3>1
  <2> HIDE DEF ds
  <2>4. Stays
    BY <1>2, <1>3, <1>6, <2>1, <2>2, <2>3 DEF Stays
  <2>5. Nested(calls', tagStack')
    BY <1>6, <2>1, <2>2
  <2>6. calls' # <<>>
    <3>1. Len(ds) > 0
      BY <1>2, <2>2
    <3> QED BY <2>1, <3>1
  <2>7. \/ NextProcessor(tagLevel) = "epilog" /\ tagStack' = <<>>
        \/ NextProcessor(tagLevel) = "content" /\ tagStack' # <<>>
    <3>1. tagStack \in Seq(Names)
      BY EnteredLemma
    <3> QED BY <1>6, <3>1 DEF NextProcessor, tagLevel
  <2> DEFINE next == NextProcessor(tagLevel)
  <2>8. Go(next)
    BY <1>6
  <2> HIDE DEF next
  <2>9. \/ next = "epilog" /\ tagStack' = <<>>
        \/ next = "content" /\ tagStack' # <<>>
    BY <2>7 DEF next
  <2> QED BY <2>4, <2>5, <2>6, <2>8, <2>9, GoNest DEF Entered
<1> QED BY <1>4, <1>5, <1>6 DEF StartTag

LEMMA EndTagNest ==
  ASSUME NEW tok, Entered(tok), tagStack # <<>>, EndTag(tok)
  PROVE  NestInv'
<1> DEFINE c == <<"end", Last(tagStack)>>
           cs == Append(calls, c)
           us == Front(tagStack)
           next == NextProcessor(tagLevel - 1)
<1>1. Nested(calls, tagStack) /\ tagStack \in Seq(Names) /\ Len(tagStack) \in Nat
  BY EnteredLemma DEF Entered
<1>2. /\ Nested(cs, us)
      /\ Len(cs) = Len(calls) + 1 /\ Len(calls) \in Nat
      /\ \A k \in 1..Len(calls) : SubSeq(cs, 1, k) = SubSeq(calls, 1, k)
      /\ Len(us) = Len(tagStack) - 1
      /\ \A k \in 0..Len(us) : SubSeq(us, 1, k) = SubSeq(tagStack, 1, k)
  BY <1>1, EndedLemma
<1>3. CASE Fail("ASYNC_ENTITY") \/ Fail("TAG_MISMATCH")
  BY <1>1, <1>3, FailNest DEF XML_Error
<1>4. CASE ~Asynchronous /\ tagStack' = us /\ calls' = cs /\ Go(next)
  <2>1. \A k \in 1..Len(openEntities) : openEntities[k].start \in 1..Len(us)
    <3> SUFFICES ASSUME NEW k \in 1..Len(openEntities)
                 PROVE  openEntities[k].start \in 1..Len(us)
      OBVIOUS
    <3> DEFINE n == Len(openEntities)
    <3>1. n \in Nat /\ k \in 1..n /\ n \in 1..n /\ k <= n /\ openEntities # <<>>
      BY DEF Entered, Framed
    <3>2. /\ openEntities[k].start \in 1..Len(tagStack)
          /\ openEntities[n].start \in 1..Len(tagStack)
          /\ openEntities[k].start <= openEntities[n].start
      BY <3>1 DEF Entered, Framed
    <3>3. Len(tagStack) # openEntities[n].start
      BY <1>4, <3>1 DEF Asynchronous, StartTagLevel, tagLevel, Last
    <3> HIDE DEF us
    <3> QED BY <1>1, <1>2, <3>2, <3>3
  <2>2. Nested(calls', tagStack')
    BY <1>2, <1>4
  <2> HIDE DEF us, cs
  <2>3. Stays
    BY <1>1, <1>2, <1>4, <2>1 DEF Stays
  <2>4. \/ next = "epilog" /\ tagStack' = <<>>
        \/ next = "content" /\ tagStack' # <<>>
    <3>1. us \in Seq(Names)
      BY <1>2 DEF Nested
    <3> QED BY <1>1, <1>2, <1>4, <3>1 DEF NextProcessor, tagLevel
  <2>5. calls' # <<>>
    <3>1. Len(cs) > 0
      BY <1>2
    <3> QED BY <1>4, <3>1
  <2>6. Go(next)
    BY <1>4
  <2> HIDE DEF next
  <2> QED BY <2>2, <2>3, <2>4, <2>5, <2>6, GoNest DEF Entered
<1> QED BY <1>3, <1>4 DEF EndTag

(* An entity is opened inside an element, whose tag its frame counts.      *)
LEMMA OpenNest ==
  ASSUME NEW tok, Entered(tok), tagStack # <<>>, EntityInv, processor = "content",
         NEW key, key = [kind |-> "general", name |-> tok.word], key \in DOMAIN entities,
         entities[key].text # None,
         openEntities' = Append(Advanced, Expansion(key)),
         UNCHANGED <<processor, tagStack, calls>>
  PROVE  NestInv'
<1> DEFINE f == Expansion(key)
           fs == openEntities
           n == Len(openEntities)
<1>1. /\ fs \in Seq(Frame) /\ n \in Nat
      /\ \A k \in 1..n : /\ fs[k].start \in 1..Len(tagStack) /\ fs[k].from \in 1..Len(calls)
                         /\ Unended(SubSeq(calls, 1, fs[k].from)) = SubSeq(tagStack, 1, fs[k].start)
      /\ \A j, k \in 1..n : j <= k => fs[j].start <= fs[k].start
  BY DEF Entered, Framed
<1>2. /\ tagStack \in Seq(Names) /\ Len(tagStack) \in Nat /\ calls \in Seq(Calls)
      /\ Len(calls) \in Nat /\ calls # <<>> /\ Len(calls) >= 1 /\ Len(tagStack) >= 1
      /\ Unended(calls) = tagStack
  <2>1. Unended(calls) = tagStack /\ tok.word \in Names
    BY EnteredLemma DEF Entered, Nested
  <2>2. calls # <<>>
    BY <2>1, UnendedNone
  <2> QED BY <2>1, <2>2, EnteredLemma
<1>3. /\ Advanced \in Seq(Frame) /\ Len(Advanced) = n
      /\ \A k \in 1..n : /\ Advanced[k].start = fs[k].start /\ Advanced[k].from = fs[k].from
  BY <1>1, AdvancedLemma DEF Entered
<1>4. f \in Frame /\ f.start = Len(tagStack) /\ f.from = Len(calls)
  <2>1. Text[entities[key].text] \in Seq(Tokens)
    <3>1. entities[key].text \in DOMAIN Text
      BY DEF EntityInv, IsEntity
    <3> QED BY <3>1, DocumentsAssumption
  <2>2. key \in [kind : {"general"}, name : Names]
    BY EnteredLemma
  <2> QED BY <1>2, <2>1, <2>2 DEF Expansion, Frame, tagLevel
<1>5. /\ openEntities' \in Seq(Frame) /\ Len(openEntities') = n + 1
      /\ \A k \in 1..n : openEntities'[k] = Advanced[k]
      /\ openEntities'[n + 1] = f
  <2>1. openEntities' = Append(Advanced, f)
    OBVIOUS
  <2> HIDE DEF f
  <2> QED BY <1>3, <1>4, <2>1, AppendLemma
<1>6. SubSeq(calls, 1, Len(calls)) = calls /\ SubSeq(tagStack, 1, Len(tagStack)) = tagStack
  BY <1>2
<1> HIDE DEF f
<1>b. \A k \in 1..n + 1 : k \in 1..n \/ k = n + 1
  <2>1. n \in Nat
    BY <1>1
  <2> HIDE DEF n
  <2> QED BY <2>1
<1>7. ASSUME NEW k \in 1..n + 1
      PROVE  /\ openEntities'[k].start \in 1..Len(tagStack) /\ openEntities'[k].from \in 1..Len(calls)
             /\ Unended(SubSeq(calls, 1, openEntities'[k].from)) = SubSeq(tagStack, 1, openEntities'[k].start)
  <2>1. CASE k \in 1..n
    <3>1. openEntities'[k].start = fs[k].start /\ openEntities'[k].from = fs[k].from
      BY <1>3, <1>5, <2>1
    <3> QED BY <1>1, <2>1, <3>1
  <2>2. CASE k = n + 1
    <3>1. openEntities'[k].start = Len(tagStack) /\ openEntities'[k].from = Len(calls)
      BY <1>4, <1>5, <2>2
    <3>2. Len(tagStack) \in 1..Len(tagStack) /\ Len(calls) \in 1..Len(calls)
      BY <1>2
    <3>3. Unended(SubSeq(calls, 1, Len(calls))) = SubSeq(tagStack, 1, Len(tagStack))
      BY <1>2, <1>6
    <3> QED BY <3>1, <3>2, <3>3
  <2> QED BY <1>b, <2>1, <2>2
<1>8. ASSUME NEW j \in 1..n + 1, NEW k \in 1..n + 1, j <= k
      PROVE  openEntities'[j].start <= openEntities'[k].start
  <2>1. CASE k \in 1..n
    <3>1. j \in 1..n
      BY <1>1, <1>8, <2>1
    <3> QED BY <1>1, <1>3, <1>5, <1>8, <2>1, <3>1
  <2>2. CASE k = n + 1
    BY <1>2, <1>4, <1>5, <1>7, <2>2
  <2> QED BY <1>b, <2>1, <2>2
<1>9. Framed(openEntities', calls, tagStack)
  BY <1>1, <1>5, <1>7, <1>8 DEF Framed
<1>10. Nested(calls, tagStack)
  BY DEF Entered
<1> QED BY <1>9, <1>10 DEF NestInv, Phase

LEMMA EntityRefNest ==
  ASSUME NEW tok, Entered(tok), tagStack # <<>>, EntityInv, processor = "content", EntityRef(tok)
  PROVE  NestInv'
<1> DEFINE key == [kind |-> "general", name |-> tok.word]
           nothing == Go("content") /\ UNCHANGED <<tagStack, marked, calls, told>>
<1>1. CASE nothing
  BY <1>1, QuietNest
<1>2. CASE Fail("UNDEFINED_ENTITY") \/ Fail("RECURSIVE_ENTITY_REF") \/ Fail("BINARY_ENTITY_REF")
  BY <1>2, FailNest DEF XML_Error, Entered
<1>3. CASE /\ key \in DOMAIN entities /\ entities[key].text # None
           /\ openEntities' = Append(Advanced, Expansion(key))
           /\ UNCHANGED <<processor, errorCode, tagStack, marked, calls, told>>
  BY <1>3, OpenNest
<1> HIDE DEF key, nothing
<1>4. nothing \/ Fail("UNDEFINED_ENTITY") \/ Fail("RECURSIVE_ENTITY_REF") \/ Fail("BINARY_ENTITY_REF")
      \/ /\ key \in DOMAIN entities /\ entities[key].text # None
         /\ openEntities' = Append(Advanced, Expansion(key))
         /\ UNCHANGED <<processor, errorCode, tagStack, marked, calls, told>>
  <2> HIDE DEF Fail, Go
  <2>1. CASE tok.word \in Predefined
    BY <2>1 DEF EntityRef, nothing
  <2>2. CASE tok.word \notin Predefined /\ key \notin DOMAIN entities
    BY <2>2 DEF EntityRef, nothing, key
  <2>3. CASE tok.word \notin Predefined /\ key \in DOMAIN entities
    <3>1. CASE IsOpen(key)
      BY <2>3, <3>1 DEF EntityRef, nothing, key
    <3>2. CASE ~IsOpen(key) /\ entities[key].notation # None
      BY <2>3, <3>2 DEF EntityRef, nothing, key
    <3>3. CASE ~IsOpen(key) /\ entities[key].notation = None /\ entities[key].text # None
      BY <2>3, <3>3 DEF EntityRef, nothing, key
    <3>4. CASE ~IsOpen(key) /\ entities[key].notation = None /\ entities[key].text = None
      BY <2>3, <3>4 DEF EntityRef, nothing, key
    <3> QED BY <3>1, <3>2, <3>3, <3>4
  <2> QED BY <2>1, <2>2, <2>3
<1> QED BY <1>1, <1>2, <1>3, <1>4

LEMMA TokenNest ==
  ASSUME NEW tok, Entered(tok), EntityInv, processor = "content", Token(tok)
  PROVE  NestInv'
<1>0. tagStack # <<>> \/ tok.kind \in Tag
  BY DEF Entered
<1>1. CASE tok.kind \in Tag
  <2>1. StartTag(tok)
    BY <1>1 DEF Token, Tag
  <2> QED BY <2>1, StartTagNest
<1>2. CASE tok.kind = "END_TAG"
  <2>1. EndTag(tok) /\ tagStack # <<>>
    BY <1>0, <1>2 DEF Token, Tag
  <2> QED BY <2>1, EndTagNest
<1>3. CASE tok.kind = "ENTITY_REF"
  <2>1. EntityRef(tok) /\ tagStack # <<>>
    BY <1>0, <1>3 DEF Token, Tag
  <2> QED BY <2>1, EntityRefNest
<1>4. CASE tok.kind = "XML_DECL"
  <2>1. Fail("MISPLACED_XML_PI") /\ Nested(calls, tagStack)
    BY <1>4 DEF Token, Tag, Entered
  <2> QED BY <2>1, FailNest DEF XML_Error
<1>5. CASE tok.kind \notin Tag \cup {"END_TAG", "ENTITY_REF", "XML_DECL"}
  <2>1. /\ Go(IF tok.kind = "CDATA_SECT_OPEN" THEN "cdata" ELSE "content")
        /\ UNCHANGED <<tagStack, marked, calls, told>>
    BY <1>5 DEF Token
  <2>2. tagStack # <<>>
    BY <1>0, <1>5
  <2> DEFINE next == IF tok.kind = "CDATA_SECT_OPEN" THEN "cdata" ELSE "content"
  <2>3. Go(next) /\ next \in {"content", "cdata"} /\ UNCHANGED <<tagStack, calls>>
    BY <2>1
  <2> HIDE DEF next
  <2> QED BY <2>2, <2>3, QuietNest
<1> QED BY <1>1, <1>2, <1>3, <1>4, <1>5

LEMMA FirstDocument == Nested(<<>>, <<>>) /\ Framed(<<>>, <<>>, <<>>)
<1>1. Nested(<<>>, <<>>)
  BY UnendedNone DEF Nested
<1>2. Framed(<<>>, <<>>, <<>>)
  BY DEF Framed
<1> QED BY <1>1, <1>2

LEMMA NestInit == XInit => NestInv
<1>1. XInit => calls = <<>> /\ tagStack = <<>> /\ openEntities = <<>> /\ Phase
  BY DEF XInit, Phase
<1> QED BY <1>1, FirstDocument DEF NestInv

LEMMA DoEntityNest ==
  ASSUME NestInv, EntityInv, DoEntity
  PROVE  NestInv'
<1> DEFINE n == Len(openEntities)
<1>1. /\ openEntities \in Seq(Frame) /\ n \in Nat /\ openEntities # <<>> /\ n \in 1..n
      /\ Last(openEntities) = openEntities[n]
      /\ Nested(calls, tagStack) /\ Framed(openEntities, calls, tagStack)
      /\ processor = "content" /\ (tagStack = <<>> => calls = <<>>)
  BY DEF NestInv, Framed, DoEntity, Last, Phase
<1>2. tagStack \in Seq(Names) /\ tagStack # <<>> /\ openEntities[n] \in Frame
  <2>1. openEntities[n].start \in 1..Len(tagStack) /\ tagStack \in Seq(Names)
    BY <1>1 DEF Framed, Nested
  <2>2. tagStack # <<>>
    BY <2>1
  <2>3. openEntities[n] \in Frame
    BY <1>1
  <2> QED BY <2>1, <2>2, <2>3
<1>3. openEntities[n].rest \in Seq(Tokens)
  BY <1>2 DEF Frame
<1>4. CASE openEntities[n].rest # <<>>
  <2> DEFINE tok == Head(openEntities[n].rest)
  <2>1. Token(tok)
    BY <1>1, <1>4 DEF DoEntity
  <2>2. tok \in Tokens
    BY <1>3, <1>4
  <2> HIDE DEF tok
  <2>3. Entered(tok)
    BY <1>1, <1>2, <1>4, <2>2 DEF Entered
  <2> QED BY <1>1, <2>1, <2>3, TokenNest
<1>5. CASE openEntities[n].rest = <<>> /\ tagLevel # StartTagLevel
  <2>1. Fail("ASYNC_ENTITY")
    BY <1>1, <1>5 DEF DoEntity
  <2> QED BY <1>1, <2>1, FailNest DEF XML_Error
<1>6. CASE openEntities[n].rest = <<>> /\ tagLevel = StartTagLevel
  <2> DEFINE gs == Front(openEntities)
  <2>1. openEntities' = gs /\ UNCHANGED <<processor, tagStack, calls>>
    BY <1>1, <1>6 DEF DoEntity
  <2>2. gs \in Seq(Frame) /\ Len(gs) <= n /\ \A k \in 1..Len(gs) : gs[k] = openEntities[k]
    <3> DEFINE m == n - 1
    <3>1. m \in Nat /\ m < n /\ \A i \in 1..m : i \in 1..n /\ openEntities[i] \in Frame
      BY <1>1
    <3>2. gs = SubSeq(openEntities, 1, m)
      BY DEF Front
    <3> HIDE DEF m
    <3>3. SubSeq(openEntities, 1, m) = [i \in 1..m |-> openEntities[i]]
      BY <1>1, <3>1
    <3> HIDE DEF gs
    <3>4. [i \in 1..m |-> openEntities[i]] \in Seq(Frame) /\ Len([i \in 1..m |-> openEntities[i]]) = m
      BY <3>1
    <3> QED BY <1>1, <3>1, <3>2, <3>3, <3>4
  <2> HIDE DEF gs
  <2>3. Len(calls) \in Nat /\ Len(tagStack) \in Nat /\ calls \in Seq(Calls)
    BY <1>1 DEF Nested
  <2>4. \A k \in 1..Len(gs) : openEntities[k].start <= Len(tagStack)
    <3>1. \A k \in 1..n : openEntities[k].start \in 1..Len(tagStack)
      BY <1>1 DEF Framed
    <3>2. \A k \in 1..Len(gs) : k \in 1..n
      BY <1>1, <2>2
    <3> QED BY <2>3, <3>1, <3>2
  <2>5. Framed(gs, calls, tagStack)
    <3>1. /\ \A k \in 1..Len(gs) : gs[k].start = openEntities[k].start /\ gs[k].from = openEntities[k].from
          /\ Len(calls) <= Len(calls)
      BY <2>2, <2>3
    <3> QED BY <1>1, <2>2, <2>3, <2>4, <3>1, FramedStep
  <2> QED BY <1>1, <2>1, <2>5 DEF NestInv, Phase
<1> QED BY <1>4, <1>5, <1>6

LEMMA NestStep == PrologInv /\ NestInv /\ [XNext]_xvars => NestInv'
<1> SUFFICES ASSUME PrologInv, NestInv, [XNext]_xvars PROVE NestInv'
  OBVIOUS
<1>1. CASE DoProlog
  <2>1. Blank /\ UNCHANGED content /\ processor' \in {"prolog", "content", "error"}
    BY <1>1 DEF DoProlog, PrologInv, Result
  <2>2. calls' = <<>> /\ tagStack' = <<>> /\ openEntities' = <<>>
    BY <2>1 DEF Blank, content
  <2> QED BY <2>1, <2>2, FirstDocument DEF NestInv, Phase
<1>2. CASE DoContent
  <2>1. PICK tok \in ContentTokens : (tagStack = <<>> => tok.kind \in Tag) /\ Token(tok)
    BY <1>2 DEF DoContent
  <2>2. Entered(tok) /\ processor = "content"
    BY <1>2, <2>1 DEF DoContent, Entered, NestInv, Phase, Tokens
  <2> QED BY <2>1, <2>2, TokenNest DEF PrologInv
<1>3. CASE DoEntity
  BY <1>3, DoEntityNest DEF PrologInv
<1>4. CASE DoCdataSection \/ Epilog \/ Invalid \/ Finish \/ UNCHANGED xvars
  <2>1. UNCHANGED content
    BY <1>4 DEF DoCdataSection, Epilog, Invalid, Finish, xvars
  <2>2. Nested(calls', tagStack') /\ Framed(openEntities', calls', tagStack')
    BY <2>1 DEF NestInv, content
  <2>3. \/ processor' = "error"
        \/ processor = "cdata" /\ processor' = "content"
        \/ processor = "epilog" /\ processor' \in {"epilog", "done"}
        \/ processor' = processor
    <3>1. CASE DoCdataSection
      BY <3>1 DEF DoCdataSection, Result
    <3>2. CASE Epilog
      BY <3>2 DEF Epilog, Result
    <3>3. CASE Invalid
      BY <3>3, DocumentsAssumption DEF Invalid, Result, XML_Error
    <3>4. CASE Finish
      <4>1. processor # "epilog" => \A partial \in BOOLEAN : AtEnd(partial) # None
        BY DocumentsAssumption DEF AtEnd, XML_Error
      <4> QED BY <3>4, <4>1 DEF Finish, Result
    <3> QED BY <1>4, <3>1, <3>2, <3>3, <3>4 DEF xvars
  <2>4. Phase'
    BY <2>1, <2>3 DEF NestInv, Phase, content
  <2> QED BY <2>2, <2>4 DEF NestInv
<1>5. CASE ParserFree
  <2>1. XInit'
    BY <1>5, FreedLemma
  <2>2. XInit' => NestInv'
    BY NestInit, PTL
  <2> QED BY <2>1, <2>2
<1> QED BY <1>1, <1>2, <1>3, <1>4, <1>5 DEF XNext

LEMMA NestHolds == XSpec => [](PrologInv /\ NestInv)
BY PrologInit, PrologStep, NestInit, NestStep, PTL DEF XSpec

LEMMA NestMeans == NestInv => ElementsNest
<1> SUFFICES ASSUME NestInv PROVE ElementsNest
  OBVIOUS
<1>1. /\ tagStack \in Seq(Names) /\ Unended(calls) = tagStack /\ calls \in Seq(Calls)
      /\ \A k \in 1..Len(calls) - 1 : Unended(SubSeq(calls, 1, k)) # <<>>
  BY DEF NestInv, Nested
<1>2. None \notin ToSet(tagStack)
  BY <1>1, DocumentsAssumption DEF ToSet
<1>3. ASSUME NEW f \in ToSet(openEntities)
      PROVE  IsPrefix(Unended(SubSeq(calls, 1, f.from)), tagStack)
  <2>1. PICK k \in 1..Len(openEntities) : f = openEntities[k]
    BY DEF NestInv, Framed, ToSet
  <2>2. f.start \in 1..Len(tagStack) /\ Unended(SubSeq(calls, 1, f.from)) = SubSeq(tagStack, 1, f.start)
    BY <2>1 DEF NestInv, Framed
  <2> DEFINE n == f.start
             p == SubSeq(tagStack, 1, n)
  <2>3. n \in Nat /\ n <= Len(tagStack) /\ Len(tagStack) \in Nat
    BY <1>1, <2>2
  <2> HIDE DEF n
  <2>4. p = [i \in 1..n |-> tagStack[i]]
    BY <1>1, <2>3
  <2>5. Len(p) = n /\ SubSeq(p, 1, n) = p
    BY <2>3, <2>4
  <2> HIDE DEF p
  <2>6. Len(p) <= Len(tagStack) /\ SubSeq(p, 1, Len(p)) = SubSeq(tagStack, 1, Len(p))
    BY <2>3, <2>5 DEF p
  <2> QED BY <2>2, <2>6 DEF IsPrefix, p, n
<1>4. ASSUME processor = "done" PROVE Unended(calls) = <<>> /\ calls # <<>>
  BY <1>1, <1>4 DEF NestInv, Phase
<1> QED BY <1>1, <1>2, <1>3, <1>4 DEF ElementsNest

(***************************************************************************)
(* The attributes.  Part says of appAtts, after so many of the defaults,   *)
(* what storeAtts has put into it.                                         *)
(***************************************************************************)
Pair == (Attributes \cup Literals) \X ({"given"} \cup Literals)
Part(list, atts, ds, j) ==
  /\ list \in Seq(Pair) /\ Len(atts) <= Len(list)
  /\ \A k \in 1..Len(atts) : list[k] = <<atts[k], "given">>
  /\ \A a, b \in 1..Len(list) : list[a][1] = list[b][1] => a = b
  /\ \A k \in Len(atts) + 1..Len(list) :
       \E i \in 1..j : ds[i].value # None /\ list[k] = <<ds[i].id, ds[i].value>>
  /\ \A i \in 1..j : ds[i].value # None => \E k \in 1..Len(list) : list[k][1] = ds[i].id

LEMMA PartInit ==
  ASSUME NEW atts \in Seq(Attributes), NEW ds, ~Duplicate(atts)
  PROVE  Part(Given(atts), atts, ds, 0)
<1> DEFINE n == Len(atts)
           list == Given(atts)
<1>1. n \in Nat /\ DOMAIN atts = 1..n /\ \A k \in 1..n : atts[k] \in Attributes
  OBVIOUS
<1>2. list = [k \in 1..n |-> <<atts[k], "given">>]
  BY <1>1 DEF Given
<1>3. \A k \in 1..n : <<atts[k], "given">> \in Pair
  BY <1>1 DEF Pair
<1>4. list \in Seq(Pair) /\ Len(list) = n /\ \A k \in 1..n : list[k] = <<atts[k], "given">>
  <2> HIDE DEF n, list
  <2> QED BY <1>1, <1>2, <1>3
<1>5. ASSUME NEW a \in 1..n, NEW b \in 1..n, a < b PROVE atts[a] # atts[b]
  <2> DEFINE p == SubSeq(atts, 1, b - 1)
  <2>1. b - 1 \in Nat /\ a \in 1..b - 1 /\ \A i \in 1..b - 1 : i \in 1..n
    BY <1>1, <1>5
  <2>2. p = [i \in 1..b - 1 |-> atts[i]]
    BY <1>1, <2>1
  <2>3. p[a] = atts[a] /\ a \in DOMAIN p
    BY <2>1, <2>2
  <2>4. atts[b] \notin ToSet(p)
    BY <1>1 DEF Duplicate
  <2> HIDE DEF p
  <2> QED BY <2>3, <2>4 DEF ToSet
<1> HIDE DEF list
<1>6. \A a, b \in 1..n : list[a][1] = list[b][1] => a = b
  <2> SUFFICES ASSUME NEW a \in 1..n, NEW b \in 1..n, list[a][1] = list[b][1] PROVE a = b
    OBVIOUS
  <2>1. atts[a] = atts[b]
    BY <1>4
  <2> QED BY <1>1, <1>5, <2>1
<1>7. n + 1..Len(list) = {} /\ 1..0 = {}
  BY <1>1, <1>4
<1>8. Part(list, atts, ds, 0)
  BY <1>1, <1>4, <1>6, <1>7 DEF Part
<1> QED BY <1>8 DEF list

LEMMA PartStep ==
  ASSUME marked = {}, NEW atts, Len(atts) \in Nat, NEW ds, OneDefault(ds),
         NEW j \in Nat, j + 1 \in 1..Len(ds), NEW list, Part(list, atts, ds, j)
  PROVE  Part(Defaulted(list, ds[j + 1]), atts, ds, j + 1)
<1> DEFINE da == ds[j + 1]
           n == Len(atts)
           l == Len(list)
           pair == <<da.id, da.value>>
           new == Append(list, pair)
<1>1. da \in [id : Literals, value : Literals]
  <2> DEFINE S == [id : Literals, value : Literals]
  <2>1. ds \in Seq(S)
    BY DEF OneDefault
  <2> HIDE DEF S
  <2>2. ds[j + 1] \in S
    BY <2>1
  <2> QED BY <2>2 DEF S
<1>2. /\ list \in Seq(Pair) /\ n <= l /\ l \in Nat /\ n \in Nat
      /\ \A k \in 1..n : list[k] = <<atts[k], "given">>
      /\ \A a, b \in 1..l : list[a][1] = list[b][1] => a = b
      /\ \A k \in n + 1..l :
           \E i \in 1..j : ds[i].value # None /\ list[k] = <<ds[i].id, ds[i].value>>
      /\ \A i \in 1..j : ds[i].value # None => \E k \in 1..l : list[k][1] = ds[i].id
  BY DEF Part
<1>3. \A i \in 1..j + 1 : i \in 1..j \/ i = j + 1
  OBVIOUS
<1>4. j + 1 \in 1..j + 1 /\ \A i \in 1..j : i \in 1..j + 1
  OBVIOUS
<1>5. Listed(list) = {list[k][1] : k \in 1..l}
  BY <1>2 DEF Listed
<1>6. CASE da.id \in Listed(list) \/ da.value = None
  <2>1. Defaulted(list, da) = list
    BY <1>6 DEF Defaulted
  <2>2. \A i \in 1..j + 1 : ds[i].value # None => \E k \in 1..l : list[k][1] = ds[i].id
    <3> SUFFICES ASSUME NEW i \in 1..j + 1, ds[i].value # None
                 PROVE  \E k \in 1..l : list[k][1] = ds[i].id
      OBVIOUS
    <3>1. CASE i \in 1..j
      BY <1>2, <3>1
    <3>2. CASE i = j + 1
      BY <1>5, <1>6, <3>2
    <3> QED BY <1>3, <3>1, <3>2
  <2>3. \A k \in n + 1..l :
          \E i \in 1..j + 1 : ds[i].value # None /\ list[k] = <<ds[i].id, ds[i].value>>
    BY <1>2, <1>4
  <2>4. Part(list, atts, ds, j + 1)
    BY <1>2, <2>2, <2>3 DEF Part
  <2> QED BY <2>1, <2>4
<1>7. CASE da.id \notin Listed(list) /\ da.value # None
  <2>1. Defaulted(list, da) = new
    BY <1>7 DEF Defaulted
  <2>2. pair \in Pair
    BY <1>1 DEF Pair
  <2>3. pair[1] = da.id /\ \A k \in 1..l : list[k][1] # da.id
    BY <1>5, <1>7
  <2> HIDE DEF da, l, n
  <2>4. /\ new \in Seq(Pair) /\ Len(new) = l + 1 /\ new[l + 1] = pair
        /\ \A k \in 1..l : new[k] = list[k]
    <3> HIDE DEF pair
    <3> QED BY <1>2, <2>2, AppendLemma DEF l
  <2> HIDE DEF new
  <2>5. \A k \in 1..l + 1 : k \in 1..l \/ k = l + 1
    BY <1>2
  <2>6. \A k \in 1..n : k \in 1..l /\ new[k] = <<atts[k], "given">>
    BY <1>2, <2>4
  <2>7. ASSUME NEW a \in 1..l + 1, NEW b \in 1..l + 1, new[a][1] = new[b][1] PROVE a = b
    <3>1. CASE a \in 1..l /\ b \in 1..l
      BY <1>2, <2>4, <2>7, <3>1
    <3>2. CASE a = l + 1 /\ b \in 1..l
      BY <2>3, <2>4, <2>7, <3>2
    <3>3. CASE b = l + 1 /\ a \in 1..l
      BY <2>3, <2>4, <2>7, <3>3
    <3> QED BY <2>5, <3>1, <3>2, <3>3
  <2>8. ASSUME NEW k \in n + 1..l + 1
        PROVE  \E i \in 1..j + 1 : ds[i].value # None /\ new[k] = <<ds[i].id, ds[i].value>>
    <3>1. CASE k = l + 1
      <4>1. new[k] = <<ds[j + 1].id, ds[j + 1].value>> /\ ds[j + 1].value # None
        BY <1>7, <2>4, <3>1 DEF da
      <4> WITNESS j + 1 \in 1..j + 1
      <4> QED BY <4>1
    <3>2. CASE k # l + 1
      <4>0. l \in Nat /\ n \in Nat /\ k \in n + 1..l + 1
        BY <1>2
      <4>1. k \in n + 1..l /\ k \in 1..l
        BY <4>0, <3>2
      <4>2. new[k] = list[k]
        BY <2>4, <4>1
      <4> QED BY <1>2, <1>4, <4>1, <4>2
    <3> QED BY <3>1, <3>2
  <2>9. ASSUME NEW i \in 1..j + 1, ds[i].value # None
        PROVE  \E k \in 1..l + 1 : new[k][1] = ds[i].id
    <3>1. CASE i \in 1..j
      <4>1. PICK k \in 1..l : list[k][1] = ds[i].id
        BY <1>2, <2>9, <3>1
      <4>2. k \in 1..l + 1 /\ new[k] = list[k]
        BY <1>2, <2>4, <4>1
      <4> QED BY <4>1, <4>2
    <3>2. CASE i = j + 1
      <4>1. l + 1 \in 1..l + 1
        BY <1>2
      <4> QED BY <2>3, <2>4, <3>2, <4>1 DEF da
    <3> QED BY <1>3, <3>1, <3>2
  <2>10. n <= l + 1
    BY <1>2
  <2>11. Part(new, atts, ds, j + 1)
    BY <2>4, <2>6, <2>7, <2>8, <2>9, <2>10 DEF Part, n
  <2> QED BY <2>1, <2>11 DEF da
<1>8. (da.id \in Listed(list) \/ da.value = None) \/ (da.id \notin Listed(list) /\ da.value # None)
  OBVIOUS
<1> QED BY <1>6, <1>7, <1>8

(* The recursion of appAtts is well founded, and keeps Part to its end.    *)
Built(atts, ds, g, n) ==
  g = [j \in 0..n |-> IF j = 0 THEN Given(atts) ELSE Defaulted(g[j - 1], ds[j])]

LEMMA BuiltExists ==
  ASSUME NEW atts, NEW ds, NEW n \in Nat
  PROVE  \E g : Built(atts, ds, g, n)
<1> DEFINE T == {k \in Nat : ~\E g : Built(atts, ds, g, k)}
<1>1. SUFFICES ASSUME T # {} PROVE FALSE
  OBVIOUS
<1>2. PICK k \in T : \A l \in T : k <= l
  BY <1>1, LeastLemma
<1>3. CASE k = 0
  <2> DEFINE g == [j \in 0..0 |-> Given(atts)]
  <2>1. g = [j \in 0..0 |-> IF j = 0 THEN Given(atts) ELSE Defaulted(g[j - 1], ds[j])]
    OBVIOUS
  <2> QED BY <1>3, <2>1 DEF Built
<1>4. CASE k # 0
  <2>1. k - 1 \in Nat /\ k - 1 \notin T
    BY <1>2, <1>4
  <2>2. PICK g : Built(atts, ds, g, k - 1)
    BY <2>1
  <2> DEFINE h == [j \in 0..k |-> IF j < k THEN g[j] ELSE Defaulted(g[k - 1], ds[k])]
  <2>3. ASSUME NEW j \in 0..k
        PROVE  h[j] = IF j = 0 THEN Given(atts) ELSE Defaulted(h[j - 1], ds[j])
    <3>1. CASE j = 0
      <4>1. h[j] = g[0] /\ 0 \in 0..k - 1
        BY <1>4, <3>1
      <4>2. g[0] = Given(atts)
        BY <2>2, <4>1 DEF Built
      <4> QED BY <3>1, <4>1, <4>2
    <3>2. CASE j # 0 /\ j < k
      <4>1. h[j] = g[j] /\ h[j - 1] = g[j - 1] /\ j \in 0..k - 1
        BY <3>2
      <4>2. g[j] = Defaulted(g[j - 1], ds[j])
        BY <2>2, <3>2, <4>1 DEF Built
      <4> QED BY <3>2, <4>1, <4>2
    <3>3. CASE j = k
      BY <1>4, <3>3
    <3> QED BY <3>1, <3>2, <3>3
  <2>4. Built(atts, ds, h, k)
    <3>1. h = [j \in 0..k |-> h[j]]
      OBVIOUS
    <3> HIDE DEF h
    <3> QED BY <2>3, <3>1 DEF Built
  <2> QED BY <1>2, <2>4
<1> QED BY <1>3, <1>4

LEMMA PartLemma ==
  ASSUME marked = {}, NEW atts \in Seq(Attributes), ~Duplicate(atts), NEW ds, OneDefault(ds),
         NEW g, Built(atts, ds, g, Len(ds))
  PROVE  Part(g[Len(ds)], atts, ds, Len(ds))
<1> DEFINE n == Len(ds)
           T == {k \in Nat : k <= n /\ ~Part(g[k], atts, ds, k)}
<1>1. n \in Nat
  <2>1. ds \in Seq([id : Literals, value : Literals])
    BY DEF OneDefault
  <2> QED BY <2>1
<1>2. CASE T = {}
  BY <1>1, <1>2
<1>3. ASSUME T # {} PROVE FALSE
  <2>1. PICK k \in T : \A l \in T : k <= l
    BY <1>3, LeastLemma
  <2>2. k \in Nat /\ k <= n /\ ~Part(g[k], atts, ds, k)
    BY <2>1
  <2>3. CASE k = 0
    <3>1. g[0] = Given(atts)
      BY <1>1 DEF Built
    <3> QED BY <2>2, <2>3, <3>1, PartInit
  <2>4. CASE k # 0
    <3>1. k - 1 \in Nat /\ k - 1 <= n /\ k - 1 \notin T /\ (k - 1) + 1 = k /\ k \in 1..n /\ k \in 0..n
      BY <1>1, <2>1, <2>2, <2>4
    <3>2. Part(g[k - 1], atts, ds, k - 1)
      BY <3>1
    <3>3. g[k] = Defaulted(g[k - 1], ds[k])
      BY <2>4, <3>1 DEF Built
    <3>4. Len(atts) \in Nat
      OBVIOUS
    <3>5. Part(Defaulted(g[k - 1], ds[(k - 1) + 1]), atts, ds, (k - 1) + 1)
      <4>1. (k - 1) + 1 \in 1..Len(ds)
        BY <3>1
      <4> QED BY <3>1, <3>2, <3>4, <4>1, PartStep
    <3> QED BY <2>2, <3>1, <3>3, <3>5
  <2> QED BY <2>3, <2>4
<1> QED BY <1>2, <1>3

LEMMA AppAttsLemma ==
  ASSUME marked = {}, NEW type, NEW atts \in Seq(Attributes), ~Duplicate(atts),
         OneDefault(DefaultAtts(type))
  PROVE  Part(appAtts(type, atts), atts, DefaultAtts(type), Len(DefaultAtts(type)))
<1> DEFINE ds == DefaultAtts(type)
           g == CHOOSE g : Built(atts, ds, g, Len(ds))
<1>1. Len(ds) \in Nat
  <2>1. ds \in Seq([id : Literals, value : Literals])
    BY DEF OneDefault
  <2> QED BY <2>1
<1>2. Built(atts, ds, g, Len(ds))
  <2> HIDE DEF ds
  <2> QED BY <1>1, BuiltExists
<1>3. appAtts(type, atts) = g[Len(ds)]
  BY DEF appAtts, Built
<1> HIDE DEF ds, g
<1>4. OneDefault(ds)
  BY DEF ds
<1>5. Part(g[Len(ds)], atts, ds, Len(ds))
  BY <1>2, <1>4, PartLemma
<1> QED BY <1>3, <1>5 DEF ds

(* Only the first of the defaults of an attribute has a value.             *)
First(ds, id) == ds[SelectInSeq(ds, LAMBDA d : d.id = id)].value
LEMMA FirstLemma ==
  ASSUME NEW ds, OneDefault(ds), NEW id, NEW i \in 1..Len(ds), ds[i].id = id
  PROVE  /\ ds[i].value # None => First(ds, id) = ds[i].value
         /\ First(ds, id) # None => \E k \in 1..Len(ds) : ds[k].id = id /\ ds[k].value = First(ds, id)
<1> DEFINE I == {k \in 1..Len(ds) : ds[k].id = id}
           m == Min(I)
<1>1. Len(ds) \in Nat
  BY DEF OneDefault
<1>2. m \in I /\ \A k \in I : m <= k
  <2>1. I \subseteq Nat /\ I # {}
    BY <1>1
  <2>2. \E x \in I : \A y \in I : x <= y
    <3> HIDE DEF I
    <3> QED BY <2>1, LeastLemma
  <2> HIDE DEF I
  <2> QED BY <2>2 DEF Min
<1>3. First(ds, id) = ds[m].value
  <2>1. I # {}
    OBVIOUS
  <2> QED BY <2>1 DEF First, SelectInSeq
<1> HIDE DEF m
<1>4. m \in 1..Len(ds) /\ ds[m].id = id /\ m <= i
  BY <1>2
<1>5. ds[i].value # None => m = i
  <2>1. m < i => ds[i].value = None
    BY <1>4 DEF OneDefault
  <2> QED BY <1>1, <1>4, <2>1
<1> QED BY <1>3, <1>4, <1>5

(* AttributesOnce, of what was told and of the defaults of its element.    *)
Once(t, ds) ==
  LET n == Len(t.given)
      ids == {d.id : d \in ToSet(ds)} IN
  /\ SubSeq(t.list, 1, n) = Given(t.given)
  /\ \A j, k \in DOMAIN t.list : t.list[j][1] = t.list[k][1] => j = k
  /\ {t.list[k] : k \in n + 1..Len(t.list)} =
       {<<id, First(ds, id)>> : id \in ids \ ToSet(t.given)} \ (ids \X {None})

LEMMA OnceIs == AttributesOnce <=> Once(told, DefaultAtts(told.name))
BY DEF AttributesOnce, Once, AttNames, FirstDefault, First

LEMMA OnceUntold == Once(Untold, <<>>)
<1> DEFINE t == Untold
<1>1. t.given = <<>> /\ t.list = <<>>
  BY DEF Untold
<1>2. /\ Len(t.given) = 0 /\ SubSeq(t.list, 1, 0) = <<>> /\ DOMAIN t.list = {}
      /\ 1..Len(t.list) = {}
  BY <1>1
<1>3. Given(t.given) = <<>>
  BY <1>1 DEF Given
<1>4. ToSet(<<>>) = {}
  BY DEF ToSet
<1> HIDE DEF t
<1>5. {d.id : d \in ToSet(<<>>)} = {} /\ 0 + 1..Len(t.list) = {}
  BY <1>2, <1>4
<1>6. {t.list[k] : k \in 0 + 1..Len(t.list)} = {}
  BY <1>5
<1>7. \A I : {<<id, First(<<>>, id)>> : id \in {} \ I} = {}
  OBVIOUS
<1>8. Once(t, <<>>)
  BY <1>1, <1>2, <1>3, <1>5, <1>6, <1>7 DEF Once
<1> QED BY <1>8 DEF t

LEMMA OnceLemma ==
  ASSUME NEW t, NEW ds, t.given \in Seq(Attributes), OneDefault(ds),
         Part(t.list, t.given, ds, Len(ds))
  PROVE  Once(t, ds)
<1> DEFINE atts == t.given
           list == t.list
           n == Len(atts)
           l == Len(list)
           ids == {d.id : d \in ToSet(ds)}
<1>1. atts \in Seq(Attributes) /\ n \in Nat /\ DOMAIN atts = 1..n
  OBVIOUS
<1>2. /\ list \in Seq(Pair) /\ n <= l
      /\ \A k \in 1..n : list[k] = <<atts[k], "given">>
      /\ \A a, b \in 1..l : list[a][1] = list[b][1] => a = b
      /\ \A k \in n + 1..l :
           \E i \in 1..Len(ds) : ds[i].value # None /\ list[k] = <<ds[i].id, ds[i].value>>
      /\ \A i \in 1..Len(ds) : ds[i].value # None => \E k \in 1..l : list[k][1] = ds[i].id
  BY DEF Part
<1>3. l \in Nat /\ DOMAIN list = 1..l
  BY <1>2
<1>4. DOMAIN ds = 1..Len(ds)
  <2>1. ds \in Seq([id : Literals, value : Literals])
    BY DEF OneDefault
  <2> QED BY <2>1
<1>5. /\ \A i \in 1..Len(ds) : ds[i].id \in ids
      /\ \A id \in ids : \E i \in 1..Len(ds) : ds[i].id = id
  BY <1>4 DEF ToSet
<1>6. ToSet(atts) = {atts[k] : k \in 1..n}
  BY <1>1 DEF ToSet
<1> HIDE DEF atts, list, n, l, ids
<1>7. SubSeq(list, 1, n) = Given(atts)
  <2>1. SubSeq(list, 1, n) = [k \in 1..n |-> list[k]]
    BY <1>1, <1>2, <1>3 DEF l
  <2>2. Given(atts) = [k \in 1..n |-> <<atts[k], "given">>]
    BY <1>1 DEF Given
  <2>3. [k \in 1..n |-> list[k]] = [k \in 1..n |-> <<atts[k], "given">>]
    BY <1>2
  <2> QED BY <2>1, <2>2, <2>3
<1>8. \A k \in n + 1..l : k \in 1..l /\ k \notin 1..n
  BY <1>1, <1>3
<1>9. ASSUME NEW k \in n + 1..l
      PROVE  /\ list[k] \in {<<id, First(ds, id)>> : id \in ids \ ToSet(atts)}
             /\ list[k] \notin ids \X {None}
  <2>1. PICK i \in 1..Len(ds) : ds[i].value # None /\ list[k] = <<ds[i].id, ds[i].value>>
    BY <1>2
  <2>2. First(ds, ds[i].id) = ds[i].value /\ ds[i].id \in ids
    BY <1>5, <2>1, FirstLemma
  <2>3. ds[i].id \notin ToSet(atts)
    <3> SUFFICES ASSUME NEW a \in 1..n, atts[a] = ds[i].id PROVE FALSE
      BY <1>6
    <3>1. list[a][1] = ds[i].id /\ a \in 1..l
      BY <1>1, <1>2, <1>3
    <3>2. list[k][1] = ds[i].id
      BY <2>1
    <3> QED BY <1>2, <1>8, <3>1, <3>2
  <2> QED BY <2>1, <2>2, <2>3
<1>10. ASSUME NEW id \in ids \ ToSet(atts), <<id, First(ds, id)>> \notin ids \X {None}
       PROVE  \E k \in n + 1..l : list[k] = <<id, First(ds, id)>>
  <2>1. First(ds, id) # None
    BY <1>10
  <2>2. PICK i \in 1..Len(ds) : ds[i].id = id /\ ds[i].value = First(ds, id)
    <3>1. PICK j \in 1..Len(ds) : ds[j].id = id
      BY <1>5
    <3> QED BY <2>1, <3>1, FirstLemma
  <2>3. PICK k \in 1..l : list[k][1] = id
    BY <1>2, <2>1, <2>2
  <2>4. k \in n + 1..l
    <3>1. k \notin 1..n
      <4>1. \A a \in 1..n : list[a][1] = atts[a]
        BY <1>2
      <4> QED BY <1>6, <1>10, <2>3, <4>1
    <3> QED BY <1>1, <1>3, <3>1
  <2>5. PICK j \in 1..Len(ds) : ds[j].value # None /\ list[k] = <<ds[j].id, ds[j].value>>
    BY <1>2, <2>4
  <2>6. ds[j].id = id
    BY <2>3, <2>5
  <2>7. First(ds, id) = ds[j].value
    BY <2>5, <2>6, FirstLemma
  <2> QED BY <2>4, <2>5, <2>6, <2>7
<1>11. {list[k] : k \in n + 1..l} =
         {<<id, First(ds, id)>> : id \in ids \ ToSet(atts)} \ (ids \X {None})
  BY <1>9, <1>10
<1> QED BY <1>2, <1>3, <1>7, <1>11 DEF Once, atts, list, n, l, ids

LEMMA DefaultsLemma ==
  ASSUME AttInv, NEW type
  PROVE  OneDefault(DefaultAtts(type))
<1>1. CASE type \in DOMAIN elementTypes
  BY <1>1 DEF DefaultAtts, AttInv
<1>2. CASE type \notin DOMAIN elementTypes
  <2>1. DefaultAtts(type) = <<>>
    BY <1>2 DEF DefaultAtts
  <2>2. OneDefault(<<>>)
    BY DEF OneDefault
  <2> QED BY <2>1, <2>2
<1> QED BY <1>1, <1>2

(* A start tag, and every other token.                                     *)
Told == marked = {} /\ Once(told, DefaultAtts(told.name))

LEMMA StoreLemma ==
  ASSUME Told, AttInv, NEW tok \in Tokens, ~Duplicate(tok.atts), StoreAtts(tok),
         UNCHANGED elementTypes
  PROVE  Told'
<1> DEFINE list == appAtts(tok.word, tok.atts)
<1>1. marked = {} /\ tok.atts \in Seq(Attributes)
  BY DocumentsAssumption DEF Told
<1>2. marked' = {} /\ told' = [name |-> tok.word, given |-> tok.atts, list |-> list]
  BY <1>1 DEF StoreAtts, Unmarked
<1>3. DefaultAtts(tok.word)' = DefaultAtts(tok.word)
  BY DEF DefaultAtts
<1>4. OneDefault(DefaultAtts(tok.word))
  BY DefaultsLemma
<1>5. Part(list, tok.atts, DefaultAtts(tok.word), Len(DefaultAtts(tok.word)))
  BY <1>1, <1>4, AppAttsLemma
<1> HIDE DEF list
<1>6. told'.given = tok.atts /\ told'.list = list /\ told'.name = tok.word
  BY <1>2
<1>7. Once(told', DefaultAtts(tok.word))
  BY <1>1, <1>4, <1>5, <1>6, OnceLemma
<1> QED BY <1>2, <1>3, <1>6, <1>7 DEF Told, DefaultAtts

LEMMA SameTold ==
  ASSUME Told, UNCHANGED <<marked, told, elementTypes>>
  PROVE  Told'
BY DEF Told, DefaultAtts

LEMMA TokenTold ==
  ASSUME Told, AttInv, NEW tok \in Tokens, Token(tok), UNCHANGED prolog
  PROVE  Told'
<1>0. UNCHANGED elementTypes
  BY DEF prolog
<1>1. \A error : Fail(error) => UNCHANGED <<marked, told>>
  BY DEF Fail
<1> HIDE DEF Fail, Go, Result
<1>2. CASE tok.kind \in Tag
  <2>1. StartTag(tok)
    BY <1>2 DEF Token, Tag
  <2>2. CASE Duplicate(tok.atts) /\ Fail("DUPLICATE_ATTRIBUTE")
    BY <1>0, <1>1, <2>2, SameTold
  <2>3. CASE ~Duplicate(tok.atts) /\ StoreAtts(tok)
    BY <1>0, <2>3, StoreLemma
  <2> QED BY <2>1, <2>2, <2>3 DEF StartTag
<1>3. CASE tok.kind \notin Tag
  <2>1. UNCHANGED <<marked, told>>
    <3>1. CASE tok.kind = "END_TAG"
      <4>1. EndTag(tok)
        BY <3>1 DEF Token, Tag
      <4> QED BY <1>1, <4>1 DEF EndTag
    <3>2. CASE tok.kind = "ENTITY_REF"
      <4>1. EntityRef(tok)
        BY <3>2 DEF Token, Tag
      <4> QED BY <1>1, <4>1 DEF EntityRef
    <3>3. CASE tok.kind \notin {"END_TAG", "ENTITY_REF"}
      BY <1>1, <1>3, <3>3 DEF Token
    <3> QED BY <3>1, <3>2, <3>3
  <2> QED BY <1>0, <2>1, SameTold
<1> QED BY <1>2, <1>3

LEMMA BlankTold == AttInv /\ told = Untold /\ marked = {} => Told
<1> SUFFICES ASSUME AttInv, told = Untold, marked = {} PROVE Told
  OBVIOUS
<1>1. DefaultAtts(told.name) = <<>>
  BY DEF Untold, AttInv, DefaultAtts
<1> QED BY <1>1, OnceUntold DEF Told

LEMMA ToldInit == XInit => Told
<1>1. XInit => told = Untold /\ marked = {}
  BY DEF XInit, Untold
<1> QED BY <1>1, AttInit, BlankTold

LEMMA ToldStep == PrologInv /\ NestInv /\ Told /\ [XNext]_xvars => Told'
<1> SUFFICES ASSUME PrologInv, NestInv, Told, [XNext]_xvars PROVE Told'
  OBVIOUS
<1>1. AttInv /\ AttInv'
  <2>1. PrologInv'
    BY PrologStep
  <2> QED BY <2>1 DEF PrologInv
<1>2. CASE DoProlog
  <2>1. told' = Untold /\ marked' = {}
    BY <1>2 DEF DoProlog, PrologInv, Blank, content
  <2>2. (AttInv /\ told = Untold /\ marked = {})' => Told'
    BY BlankTold, PTL
  <2> QED BY <1>1, <2>1, <2>2
<1>3. CASE DoContent
  <2>1. PICK tok \in ContentTokens : Token(tok)
    BY <1>3 DEF DoContent
  <2> QED BY <1>1, <1>3, <2>1, TokenTold DEF DoContent, Tokens
<1>4. CASE DoEntity
  <2>1. UNCHANGED prolog /\ UNCHANGED elementTypes
    BY <1>4 DEF DoEntity, prolog
  <2>2. CASE Last(openEntities).rest # <<>>
    <3> DEFINE n == Len(openEntities)
    <3>1. openEntities \in Seq(Frame) /\ openEntities # <<>>
      BY <1>4 DEF DoEntity, NestInv, Framed
    <3>0. Last(openEntities) = openEntities[n]
      BY DEF Last
    <3>2. n \in 1..n /\ openEntities[n] \in Frame /\ Last(openEntities) = openEntities[n]
      <4> HIDE DEF Frame
      <4>1. n \in 1..n
        BY <3>1
      <4> QED BY <3>0, <3>1, <4>1
    <3>3. Last(openEntities).rest \in Seq(Tokens)
      BY <3>2 DEF Frame
    <3>4. Head(Last(openEntities).rest) \in Tokens
      BY <2>2, <3>3
    <3>5. Token(Head(Last(openEntities).rest))
      BY <1>4, <2>2 DEF DoEntity
    <3> QED BY <1>1, <2>1, <3>4, <3>5, TokenTold
  <2>3. CASE Last(openEntities).rest = <<>>
    <3>1. UNCHANGED <<marked, told>>
      BY <1>4, <2>3 DEF DoEntity, Fail
    <3> QED BY <2>1, <3>1, SameTold
  <2> QED BY <2>2, <2>3
<1>5. CASE DoCdataSection \/ Epilog \/ Invalid \/ Finish \/ UNCHANGED xvars
  <2>1. UNCHANGED <<marked, told, elementTypes>>
    BY <1>5 DEF DoCdataSection, Epilog, Invalid, Finish, xvars, content, prolog
  <2> QED BY <2>1, SameTold
<1>6. CASE ParserFree
  <2>1. XInit'
    BY <1>6, FreedLemma
  <2>2. XInit' => Told'
    BY ToldInit, PTL
  <2> QED BY <2>1, <2>2
<1> QED BY <1>2, <1>3, <1>4, <1>5, <1>6 DEF XNext

(***************************************************************************)
(* HandlersTold: elements nest, whatever entities are opened in them, no   *)
(* document is accepted with an element open or without one, and an        *)
(* element has each attribute once: that of its tag, or the default first  *)
(* declared for it in doProlog.                                            *)
(***************************************************************************)
THEOREM HandlersAreTold == XSpec => []HandlersTold
<1>1. XSpec => []Told
  BY PrologInit, PrologStep, NestInit, NestStep, ToldInit, ToldStep, PTL DEF XSpec
<1>2. NestInv /\ Told => HandlersTold
  BY NestMeans, OnceIs DEF Told, HandlersTold
<1> QED BY <1>1, <1>2, NestHolds, PTL
=============================================================================

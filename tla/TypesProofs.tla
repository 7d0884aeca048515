------------------------------ MODULE TypesProofs ------------------------------
(***************************************************************************)
(* For every frontend and any number of types and placeholders:             *)
(*  - the table of anonymous types: who owns a type, and where in the table *)
(*    it is (TableInv);                                                     *)
(*  - what LLVM type a type has, and what it has to wait for (HeapInv);     *)
(*  - how what a placeholder waits for will be completed (ForgetInv);       *)
(*  - cycles of pointer types and their conversions (LoopInv);              *)
(*  - what types lead back to themselves (GraphInv), and the walks that     *)
(*    describe and name them (WalkInv).                                     *)
(***************************************************************************)
EXTENDS DebugTypes, SequenceTheorems, Recursion

\* A record with the fields of a Btype.
IsBtype(b) == DOMAIN b = {"flavor", "name", "ll", "ph", "to"}

\* A type has one owner because of its name: placeholders have one, what the table holds
\* or held has none.  A type that was taken out of the table for good is complete, so
\* that it is never visited and entered again.
TableInv ==
  /\ \E S : types \in Seq(S)
  /\ \A t \in Ids : IsBtype(types[t])
  /\ anonTypes = [t \in DOMAIN anonTypes |-> anonTypes[t]]
  /\ DOMAIN anonTypes \subseteq Ids /\ placeholders \subseteq Ids /\ duplicates \subseteq Ids
  /\ \A t \in DOMAIN anonTypes : types[t].name = 0
  /\ \A t \in DOMAIN anonTypes : anonTypes[t] = Hash(types[t])
  /\ \A t \in placeholders : types[t].name # 0
  /\ \A t \in duplicates : types[t].name = 0 /\ ~types[t].ph
  /\ duplicates \cap DOMAIN anonTypes = {}

-----------------------------------------------------------------------------
(* How the list of types may change.                                        *)

\* A type is added behind the others.
LEMMA Appended ==
  ASSUME NEW S, types \in Seq(S), NEW b, types' = Append(types, b)
  PROVE  /\ Len(types) \in Nat /\ DOMAIN types = 1..Len(types)
         /\ \E T : types' \in Seq(T)
         /\ DOMAIN types' = DOMAIN types \cup {Len(types) + 1}
         /\ Len(types) + 1 \notin DOMAIN types
         /\ \A t \in DOMAIN types : types'[t] = types[t]
         /\ types'[Len(types) + 1] = b
PROOF
  <1> DEFINE T == S \cup {b}
  <1>1. types \in Seq(T) /\ b \in T
    BY SeqMonotonic
  <1>2. /\ Len(types) \in Nat /\ DOMAIN types = 1..Len(types)
        /\ types' \in Seq(T) /\ Len(types') = Len(types) + 1
        /\ \A t \in 1..Len(types) : types'[t] = types[t]
        /\ types'[Len(types) + 1] = b
    <2> HIDE DEF T
    <2> QED
      BY <1>1, LenProperties, AppendProperties
  <1>3. DOMAIN types' = 1..(Len(types) + 1)
    BY <1>2, LenProperties
  <1> QED
    BY <1>2, <1>3

\* One type is changed, but its name is not.
Changed(u) ==
  /\ types' = [types EXCEPT ![u] = types'[u]]
  /\ IsBtype(types'[u])
  /\ types'[u].name = types[u].name

LEMMA Replaced ==
  ASSUME NEW S, types \in Seq(S), NEW u \in DOMAIN types, Changed(u)
  PROVE  /\ \E T : types' \in Seq(T)
         /\ Ids' = Ids
         /\ \A t \in Ids \ {u} : types'[t] = types[t]
PROOF
  <1> DEFINE b == types'[u]
  <1> DEFINE T == S \cup {b}
  <1>1. types' = [types EXCEPT ![u] = b]
    BY DEF Changed
  <1> HIDE DEF b
  <1>2. types \in Seq(T) /\ b \in T
    BY SeqMonotonic
  <1>3. u \in 1..Len(types)
    BY LenProperties
  <1>4. types' \in Seq(T)
    <2> HIDE DEF T
    <2> QED
      BY <1>1, <1>2, <1>3, ExceptSeq
  <1> QED
    BY <1>1, <1>4 DEF Ids

\* AddType, with or without an entry in the table or among the placeholders.
LEMMA AddTypeKeepsTable ==
  ASSUME TableInv, NEW b, IsBtype(b), types' = Append(types, b),
         \/ UNCHANGED <<anonTypes, placeholders>>
         \/ /\ b.name = 0 /\ UNCHANGED placeholders
            /\ anonTypes' = [t \in DOMAIN anonTypes \cup {Len(types) + 1} |->
                               IF t \in DOMAIN anonTypes THEN anonTypes[t] ELSE Hash(b)]
         \/ /\ b.name # 0 /\ UNCHANGED anonTypes
            /\ placeholders' = placeholders \cup {Len(types) + 1},
         UNCHANGED duplicates
  PROVE  TableInv'
PROOF
  <1>1. /\ Len(types) \in Nat /\ DOMAIN types = 1..Len(types)
        /\ \E S : types' \in Seq(S)
        /\ DOMAIN types' = DOMAIN types \cup {Len(types) + 1}
        /\ Len(types) + 1 \notin DOMAIN types
        /\ \A t \in DOMAIN types : types'[t] = types[t]
        /\ types'[Len(types) + 1] = b
    <2>1. PICK S : types \in Seq(S)
      BY DEF TableInv
    <2> QED
      BY <2>1, Appended
  <1>2. /\ Ids' = Ids \cup {Len(types) + 1}
        /\ \A t \in Ids' : IsBtype(types'[t])
    BY <1>1 DEF TableInv, Ids, IsBtype
  <1>3. CASE UNCHANGED <<anonTypes, placeholders>>
    BY <1>1, <1>2, <1>3 DEF TableInv, Ids, Hash
  <1>4. CASE /\ b.name = 0 /\ UNCHANGED placeholders
             /\ anonTypes' = [t \in DOMAIN anonTypes \cup {Len(types) + 1} |->
                                IF t \in DOMAIN anonTypes THEN anonTypes[t] ELSE Hash(b)]
    <2>1. /\ DOMAIN anonTypes' = DOMAIN anonTypes \cup {Len(types) + 1}
          /\ \A t \in DOMAIN anonTypes : anonTypes'[t] = anonTypes[t]
          /\ anonTypes'[Len(types) + 1] = Hash(b)
          /\ anonTypes' = [t \in DOMAIN anonTypes' |-> anonTypes'[t]]
      BY <1>1, <1>4 DEF TableInv, Ids
    <2> QED
      BY <1>1, <1>2, <1>4, <2>1 DEF TableInv, Ids, Hash
  <1>5. CASE /\ b.name # 0 /\ UNCHANGED anonTypes
             /\ placeholders' = placeholders \cup {Len(types) + 1}
    BY <1>1, <1>2, <1>5 DEF TableInv, Ids, Hash
  <1> QED
    BY <1>3, <1>4, <1>5

\* A type that is in no table, or of which nothing is changed that is hashed, is changed
\* in place.
LEMMA ChangeKeepsTable ==
  ASSUME TableInv, NEW u \in Ids,
         Changed(u),
         \/ u \in placeholders
         \/ Hash(types'[u]) = Hash(types[u]) /\ ~types'[u].ph,
         UNCHANGED <<anonTypes, placeholders, duplicates>>
  PROVE  TableInv'
PROOF
  <1>0. IsBtype(types'[u]) /\ types'[u].name = types[u].name
    BY DEF Changed
  <1>1. /\ \E T : types' \in Seq(T)
        /\ Ids' = Ids
        /\ \A t \in Ids \ {u} : types'[t] = types[t]
    <2>1. PICK S : types \in Seq(S)
      BY DEF TableInv
    <2> QED
      BY <2>1, Replaced DEF Ids
  <1>2. u \in placeholders => u \notin DOMAIN anonTypes /\ u \notin duplicates
    BY DEF TableInv
  <1>3. u \in DOMAIN anonTypes => Hash(types'[u]) = anonTypes[u]
    BY <1>2 DEF TableInv
  <1>4. \A t \in DOMAIN anonTypes : types'[t].name = 0 /\ anonTypes[t] = Hash(types'[t])
    BY <1>0, <1>1, <1>3 DEF TableInv
  <1>5. \A t \in Ids' : IsBtype(types'[t])
    BY <1>0, <1>1 DEF TableInv
  <1>6. \A t \in duplicates : types'[t].name = 0 /\ ~types'[t].ph
    BY <1>0, <1>1, <1>2 DEF TableInv
  <1>7. \A t \in placeholders : types'[t].name # 0
    BY <1>0, <1>1 DEF TableInv
  <1> QED
    BY <1>1, <1>4, <1>5, <1>6, <1>7 DEF TableInv

-----------------------------------------------------------------------------
(* The actions.                                                             *)

\* Intern: the type that is found, or a new one without a name.
LEMMA InternKeepsTable ==
  ASSUME TableInv, NEW c, NEW b, IsBtype(b), b.name = 0, Intern(c, b),
         UNCHANGED <<placeholders, duplicates>>
  PROVE  TableInv'
PROOF
  <1>1. CASE UNCHANGED tables
    BY <1>1 DEF tables, TableInv, Ids, Hash, IsBtype
  <1>2. CASE AddType(b) /\ anonTypes' = IF Found(b) = {}
                       THEN [t \in DOMAIN anonTypes \cup {Len(types) + 1} |->
                               IF t \in DOMAIN anonTypes THEN anonTypes[t] ELSE Hash(b)]
                       ELSE anonTypes
    <2>1. types' = Append(types, b)
      BY <1>2 DEF AddType
    <2> QED
      BY <1>2, <2>1, AddTypeKeepsTable
  <1> QED
    BY <1>1, <1>2 DEF Intern

\* The requests that make a type.
LEMMA RequestsKeepTable ==
  ASSUME TableInv, NEW t, NEW to,
         \/ PointerType(t) \/ ArrayType(t) \/ (t \in Ids /\ NamedType(t))
         \/ StructType(to) \/ FunctionType(to)
         \/ PlaceholderPointerType \/ PlaceholderStructType \/ PlaceholderArrayType
         \/ CircularPointerType(t)
  PROVE  TableInv'
PROOF
  <1>n. Len(types) \in Nat
    BY Appended DEF TableInv
  <1>1. ASSUME NEW flavor, NEW ll, InternOver(flavor, ll, t), UnchangedButTables
        PROVE  TableInv'
    <2> DEFINE b == Btype(flavor, 0, ll, UnresolvedPlaceholder(t), <<t>>)
    <2>1. IsBtype(b) /\ b.name = 0
      BY DEF IsBtype, Btype
    <2>2. Intern([b EXCEPT !.ph = types[t].ph], b)
      BY <1>1 DEF InternOver
    <2>3. UNCHANGED <<placeholders, duplicates>>
      BY <1>1 DEF UnchangedButTables
    <2> HIDE DEF b
    <2> QED
      BY <2>1, <2>2, <2>3, InternKeepsTable
  <1>2. ASSUME PointerType(t) \/ ArrayType(t)
        PROVE  TableInv'
    BY <1>1, <1>2 DEF PointerType, ArrayType
  <1>3. CASE StructType(to)
    <2> DEFINE waits == Btype("StructT", 0, LLOpaque(Len(types) + 1), TRUE, to)
    <2> DEFINE literal == Btype("StructT", 0, LLLiteral(LLOf(to)), FALSE, to)
    <2>1. IsBtype(waits) /\ waits.name = 0 /\ IsBtype(literal) /\ literal.name = 0
      BY DEF IsBtype, Btype
    <2>2. UNCHANGED <<placeholders, duplicates>> /\ (Intern(waits, waits) \/ Intern(literal, literal))
      BY <1>3 DEF StructType, UnchangedButTables
    <2> HIDE DEF waits, literal
    <2> QED
      BY <2>1, <2>2, InternKeepsTable
  <1>4. CASE FunctionType(to)
    <2> DEFINE cand == Btype("FunctionT", 0, LLFunction(LLOf(to)), FALSE, to)
    <2> DEFINE b == [cand EXCEPT !.ph = Awaited(to) # {}]
    <2>1. IsBtype(b) /\ b.name = 0
      BY DEF IsBtype, Btype
    <2>2. UNCHANGED <<placeholders, duplicates>> /\ Intern(cand, b)
      BY <1>4 DEF FunctionType, UnchangedButTables
    <2> HIDE DEF cand, b
    <2> QED
      BY <2>1, <2>2, InternKeepsTable
  <1>5. CASE t \in Ids /\ NamedType(t)
    <2> DEFINE b == [types[t] EXCEPT !.name = Len(types) + 1]
    <2>1. IsBtype(b)
      BY <1>5 DEF TableInv, IsBtype
    <2>2. types' = Append(types, b) /\ UNCHANGED <<anonTypes, placeholders, duplicates>>
      BY <1>5 DEF NamedType, AddType
    <2> HIDE DEF b
    <2> QED
      BY <2>1, <2>2, AddTypeKeepsTable
  <1>6. ASSUME NEW request, NEW flavor, NEW ll, PlaceholderType(request, flavor, ll)
        PROVE  TableInv'
    <2> DEFINE b == Btype(flavor, Len(types) + 1, ll, TRUE, <<>>)
    <2>1. IsBtype(b) /\ b.name # 0
      BY <1>n DEF IsBtype, Btype
    <2>2. /\ types' = Append(types, b) /\ UNCHANGED <<anonTypes, duplicates>>
          /\ placeholders' = placeholders \cup {Len(types) + 1}
      BY <1>6 DEF PlaceholderType, AddType
    <2> HIDE DEF b
    <2> QED
      BY <2>1, <2>2, AddTypeKeepsTable
  <1>7. ASSUME PlaceholderPointerType \/ PlaceholderStructType \/ PlaceholderArrayType
        PROVE  TableInv'
    BY <1>6, <1>7 DEF PlaceholderPointerType, PlaceholderStructType, PlaceholderArrayType
  <1>8. CASE CircularPointerType(t)
    <2> DEFINE b == Btype("AuxT", 0, LLPtr(LLOpaque(Len(types) + 1)), FALSE, <<>>)
    <2>1. IsBtype(b)
      BY DEF IsBtype, Btype
    <2>2. types' = Append(types, b) /\ UNCHANGED <<anonTypes, placeholders, duplicates>>
      BY <1>8 DEF CircularPointerType, AddType
    <2> HIDE DEF b
    <2> QED
      BY <2>1, <2>2, AddTypeKeepsTable
  <1> QED
    BY <1>2, <1>3, <1>4, <1>5, <1>7, <1>8

\* The requests that complete a placeholder change a type that has a name.
LEMMA SettingKeepsTable ==
  ASSUME TableInv, NEW p \in placeholders, NEW t, NEW to,
         \/ SetPlaceholderPointerType(p, t) \/ SetPlaceholderArrayType(p, t)
         \/ SetPlaceholderStructType(p, to)
  PROVE  TableInv'
PROOF
  <1>1. p \in Ids /\ p \in DOMAIN types /\ IsBtype(types[p])
    BY DEF TableInv, Ids
  <1>2. UNCHANGED <<anonTypes, placeholders, duplicates>>
    BY DEF SetPlaceholderPointerType, SetPlaceholderArrayType, SetPlaceholderStructType
  <1>3. ASSUME SetPlaceholderPointerType(p, t)
        PROVE  Changed(p)
    <2>1. \/ types' = [types EXCEPT ![p].to = <<t>>, ![p].ll = types[t].ll]
          \/ types' = [types EXCEPT ![p].to = <<t>>, ![p].ll = types[t].ll, ![p].ph = FALSE]
      BY <1>3 DEF SetPlaceholderPointerType
    <2> QED
      BY <1>1, <2>1 DEF Changed, IsBtype
  <1>4. ASSUME SetPlaceholderArrayType(p, t)
        PROVE  Changed(p)
    <2> DEFINE ph == UnresolvedPlaceholder(t)
    <2>1. types' = [types EXCEPT ![p].to = <<t>>, ![p].ll = LLArray(types[t].ll), ![p].ph = ph]
      BY <1>4 DEF SetPlaceholderArrayType
    <2> HIDE DEF ph
    <2> QED
      BY <1>1, <2>1 DEF Changed, IsBtype
  <1>5. ASSUME SetPlaceholderStructType(p, to)
        PROVE  Changed(p)
    <2>1. \/ types' = [types EXCEPT ![p].to = to, ![p].ph = FALSE]
          \/ types' = [types EXCEPT ![p].to = to]
      BY <1>5 DEF SetPlaceholderStructType
    <2> QED
      BY <1>1, <2>1 DEF Changed, IsBtype
  <1> QED
    BY <1>1, <1>2, <1>3, <1>4, <1>5, ChangeKeepsTable

\* A type with this content that is in the table is found.
LEMMA EntryIsFound ==
  ASSUME TableInv, NEW u \in DOMAIN anonTypes
  PROVE  u \in Found(types[u])
PROOF
  <1>1. Equal(types, types[u], types[u])
    BY DEF Equal, Alike
  <1> QED
    BY <1>1 DEF Found, Find, TableInv

\* What is found for a type has its name.
LEMMA FoundHasName ==
  ASSUME TableInv, NEW b, NEW t \in Found(b)
  PROVE  t \in DOMAIN anonTypes /\ b.name = 0
PROOF
  <1>1. t \in DOMAIN anonTypes /\ Equal(types, types[t], b)
    BY DEF Found, Find
  <1>2. types[t].name = b.name
    BY <1>1 DEF Equal, Alike
  <1> QED
    BY <1>1, <1>2 DEF TableInv

\* A visit takes a type out of the table, changes it and puts it back under its new
\* content, or among the duplicates if that is there.
LEMMA VisitKeepsTable ==
  ASSUME TableInv, NEW u \in Ids, VisitOther(u)
  PROVE  TableInv'
PROOF
  <1> DEFINE ll == ResolvedLL(u, Top.of)
  <1>1. types' = [types EXCEPT ![u].ll = ll, ![u].ph = FALSE] /\ UNCHANGED placeholders /\ types[u].ph
    BY DEF VisitOther, Skipped
  <1> HIDE DEF ll
  <1>2. u \in DOMAIN types /\ IsBtype(types[u])
    BY DEF TableInv, Ids
  <1>3. Changed(u) /\ types'[u].ph = FALSE
    BY <1>1, <1>2 DEF Changed, IsBtype
  <1>b. IsBtype(types'[u]) /\ types'[u].name = types[u].name /\ types'[u].ph = FALSE
    BY <1>3 DEF Changed
  <1>c. /\ \E T : types' \in Seq(T)
        /\ Ids' = Ids
        /\ \A t \in Ids \ {u} : types'[t] = types[t]
    <2>1. PICK S : types \in Seq(S)
      BY DEF TableInv
    <2> QED
      BY <1>2, <1>3, <2>1, Replaced
  <1>4. u \notin duplicates
    BY <1>1 DEF TableInv
  <1>d. /\ \A t \in Ids' : IsBtype(types'[t])
        /\ placeholders' \subseteq Ids'
        /\ \A t \in placeholders' : types'[t].name # 0
    <2>1. \A t \in Ids' : IsBtype(types'[t])
      BY <1>b, <1>c DEF TableInv
    <2>2. placeholders' \subseteq Ids'
      BY <1>1, <1>c DEF TableInv
    <2>3. \A t \in placeholders' : types'[t].name # 0
      <3> TAKE t \in placeholders'
      <3>1. t \in Ids /\ types[t].name # 0
        BY <1>1 DEF TableInv
      <3> QED
        BY <1>b, <1>c, <3>1
    <2> QED
      BY <2>1, <2>2, <2>3
  <1>e. \A t \in duplicates : t \in Ids' /\ types'[t].name = 0 /\ ~types'[t].ph
    BY <1>4, <1>c DEF TableInv
  <1>f. \A t \in DOMAIN anonTypes \ {u} :
          t \in Ids' /\ types'[t].name = 0 /\ anonTypes[t] = Hash(types'[t])
    BY <1>c DEF TableInv
  <1>5. CASE Found(types[u]) = {}
    <2>1. UNCHANGED <<anonTypes, duplicates>>
      BY <1>5 DEF VisitOther, Rehash
    <2>2. u \notin DOMAIN anonTypes
      BY <1>5, EntryIsFound
    <2> QED
      BY <1>c, <1>d, <1>e, <1>f, <2>1, <2>2 DEF TableInv
  <1>6. CASE Found(types[u]) # {}
    <2> DEFINE without == Without(u)
    <2>1. types[u].name = 0 /\ u \notin placeholders
      BY <1>6, FoundHasName DEF TableInv
    <2>2. /\ DOMAIN without = DOMAIN anonTypes \ Found(types[u])
          /\ \A t \in DOMAIN without : without[t] = anonTypes[t]
          /\ without = [t \in DOMAIN without |-> without[t]]
      BY DEF Without, Restrict
    <2>3. u \notin DOMAIN without
      BY <2>2, EntryIsFound
    <2>4. \/ anonTypes' = without /\ duplicates' = duplicates \cup {u}
          \/ /\ anonTypes' = [t \in DOMAIN without \cup {u} |->
                                IF t = u THEN Hash(types'[u]) ELSE anonTypes[t]]
             /\ UNCHANGED duplicates
      BY <1>6 DEF VisitOther, Rehash
    <2> HIDE DEF without
    <2>5. CASE anonTypes' = without /\ duplicates' = duplicates \cup {u}
      <3>1. \A t \in duplicates' : t \in Ids' /\ types'[t].name = 0 /\ ~types'[t].ph
        BY <1>b, <1>c, <1>e, <2>1, <2>5
      <3>2. \A t \in DOMAIN anonTypes' :
              t \in Ids' /\ types'[t].name = 0 /\ anonTypes'[t] = Hash(types'[t])
        BY <1>f, <2>2, <2>3, <2>5
      <3>3. duplicates' \cap DOMAIN anonTypes' = {}
        BY <2>2, <2>3, <2>5 DEF TableInv
      <3> QED
        BY <1>c, <1>d, <2>2, <2>5, <3>1, <3>2, <3>3 DEF TableInv
    <2>6. CASE /\ anonTypes' = [t \in DOMAIN without \cup {u} |->
                                  IF t = u THEN Hash(types'[u]) ELSE anonTypes[t]]
               /\ UNCHANGED duplicates
      <3>1. /\ DOMAIN anonTypes' = DOMAIN without \cup {u}
            /\ \A t \in DOMAIN without : anonTypes'[t] = without[t]
            /\ anonTypes'[u] = Hash(types'[u])
            /\ anonTypes' = [t \in DOMAIN anonTypes' |-> anonTypes'[t]]
        BY <2>2, <2>3, <2>6
      <3>2. \A t \in DOMAIN anonTypes' :
              t \in Ids' /\ types'[t].name = 0 /\ anonTypes'[t] = Hash(types'[t])
        BY <1>b, <1>c, <1>f, <2>1, <2>2, <2>3, <3>1
      <3>3. duplicates' \cap DOMAIN anonTypes' = {}
        BY <1>4, <2>2, <2>6, <3>1 DEF TableInv
      <3> QED
        BY <1>c, <1>d, <1>e, <2>6, <3>1, <3>2, <3>3 DEF TableInv
    <2> QED
      BY <2>4, <2>5, <2>6
  <1> QED
    BY <1>5, <1>6

\* Every step keeps the table as it is to be.
LEMMA TableInvStep ==
  ASSUME TableInv, [TypeNext]_typeVars
  PROVE  TableInv'
PROOF
  <1>1. ASSUME UNCHANGED <<types, anonTypes, placeholders, duplicates>>
        PROVE  TableInv'
    BY <1>1 DEF TableInv, Ids, Hash, IsBtype
  <1>2. CASE UNCHANGED typeVars
    BY <1>1, <1>2 DEF typeVars
  <1>3. CASE TypeStep
    <2>1. CASE \E t \in Ids : PointerType(t) \/ ArrayType(t) \/ NamedType(t)
      BY <2>1, RequestsKeepTable
    <2>2. CASE \/ \E to \in Fields : StructType(to) \/ FunctionType(to)
               \/ PlaceholderPointerType \/ PlaceholderStructType \/ PlaceholderArrayType
      BY <2>2, RequestsKeepTable
    <2>3. CASE \/ \E p \in placeholders, t \in Ids :
                     SetPlaceholderPointerType(p, t) \/ SetPlaceholderArrayType(p, t)
               \/ \E p \in placeholders, to \in Fields : SetPlaceholderStructType(p, to)
      BY <2>3, SettingKeepsTable
    <2>4. CASE \E p \in placeholders : CircularPointerType(p)
      BY <2>4, RequestsKeepTable DEF TableInv
    <2>5. CASE \E u \in Ids : VisitSkipped(u)
      BY <2>5, <1>1 DEF VisitSkipped, tables
    <2>6. CASE \E u \in Ids : VisitStruct(u)
      <3>1. PICK u \in Ids : VisitStruct(u)
        BY <2>6
      <3>2. /\ types' = [types EXCEPT ![u].ph = FALSE]
            /\ UNCHANGED <<anonTypes, placeholders, duplicates>>
        BY <3>1 DEF VisitStruct
      <3>3. u \in DOMAIN types /\ IsBtype(types[u])
        BY DEF TableInv, Ids
      <3>4. Changed(u)
        BY <3>2, <3>3 DEF Changed, IsBtype
      <3>5. Hash(types'[u]) = Hash(types[u]) /\ ~types'[u].ph
        BY <3>2, <3>3 DEF IsBtype, Hash
      <3> QED
        BY <3>2, <3>4, <3>5, ChangeKeepsTable
    <2>7. CASE \E u \in Ids : VisitOther(u)
      BY <2>7, VisitKeepsTable
    <2>8. CASE Return
      BY <2>8, <1>1 DEF Return, tables
    <2> QED
      BY <1>3, <2>1, <2>2, <2>3, <2>4, <2>5, <2>6, <2>7, <2>8 DEF TypeStep
  <1> QED
    BY <1>2, <1>3 DEF TypeNext

LEMMA TableInit ==
  ASSUME TypeInit
  PROVE  TableInv
PROOF
  <1> DEFINE b == Btype("IntegerT", 0, LLInt, FALSE, <<>>)
  <1>1. IsBtype(b) /\ b.name = 0
    BY DEF IsBtype, Btype
  <1>2. types = <<b>> /\ types[1] = b
    BY DEF TypeInit
  <1> HIDE DEF b
  <1>3. types \in Seq({b}) /\ Ids = {1}
    BY <1>2 DEF Ids
  <1>4. DOMAIN anonTypes = {1} /\ anonTypes[1] = Hash(types[1])
        /\ anonTypes = [t \in DOMAIN anonTypes |-> anonTypes[t]]
    BY <1>3 DEF TypeInit
  <1>5. placeholders = {} /\ duplicates = {}
    BY DEF TypeInit
  <1> QED
    BY <1>1, <1>2, <1>3, <1>4, <1>5 DEF TableInv

\* Whatever placeholders are completed in whatever order, no type in the table is changed
\* behind its back, so that it is found under its present content, and every type is
\* owned by one of the placeholders, the table and the list of duplicates at most: the
\* destructor deletes none of them twice (removeAnonType, reinstallAnonType).
THEOREM TableStaysFresh == TypeSpec => [](EntriesFresh /\ OwnedOnce)
PROOF
  <1>1. TypeInit => TableInv
    BY TableInit
  <1>2. TableInv /\ [TypeNext]_typeVars => TableInv'
    BY TableInvStep
  <1>3. TableInv => EntriesFresh /\ OwnedOnce
    BY DEF TableInv, EntriesFresh, OwnedOnce
  <1> QED
    BY <1>1, <1>2, <1>3, PTL DEF TypeSpec

-----------------------------------------------------------------------------
(* What LLVM type a type has.                                               *)

Shaped(t) ==
  /\ types[t].flavor \in Flavors
  /\ types[t].name \in 0..Len(types)
  /\ types[t].ph \in BOOLEAN
  /\ types[t].to \in Seq(Ids)
  /\ types[t].flavor \in {"PointerT", "ArrayT"} =>
       (types[t].to = <<>> /\ types[t].ph) \/ Len(types[t].to) = 1
  /\ types[t].flavor \in {"IntegerT", "AuxT"} => ~types[t].ph

\* A type that is complete has the LLVM type its parts call for, and waits for none of
\* them: so they will not change.
Complete(t) ==
  /\ \/ CompletedEarly(t)
     \/ /\ Awaited(types[t].to) = {}
        /\ types[t].ll = Built(t) \/ Redirected(t)
  /\ types[t].flavor = "StructT" /\ types[t].ll[1] = "struct" =>
       /\ Awaited(types[t].to) = {}
       /\ types[t].ll[2] \in DOMAIN body
       /\ body[types[t].ll[2]] = LLOf(types[t].to)

\* A placeholder: a struct has a body yet to be set, a function will be visited for
\* each of the types it waits for.
Waiting(t) ==
  /\ types[t].flavor = "StructT" => types[t].ll = LLOpaque(t) /\ t \notin DOMAIN body
  /\ types[t].flavor = "FunctionT" => Awaited(types[t].to) \X {t} \subseteq placeholderRefs

\* Calls are for complete types, and are to visit types that wait for them.
CallsFit(w) ==
  \A i \in 1..Len(w) :
     /\ w[i].of \in Ids /\ ~types[w[i].of].ph
     /\ w[i].left \subseteq Ids
     /\ \A u \in w[i].left : <<w[i].of, u>> \in placeholderRefs

HeapInv ==
  /\ \A t \in Ids : Shaped(t) /\ (types[t].ph => Waiting(t)) /\ (~types[t].ph => Complete(t))
  /\ placeholderRefs \subseteq Ids \X Ids
  /\ \A r \in placeholderRefs : r[1] \in Range(types[r[2]].to)
  /\ \A t \in placeholders : types[t].to = <<>> => types[t].ph
  /\ body = [s \in DOMAIN body |-> body[s]] /\ DOMAIN body \subseteq Ids
  /\ work \in Seq([of : Nat, left : SUBSET Nat]) /\ CallsFit(work)
  /\ ~aborted

\* A step that makes or changes one type u, and changes nothing that others were made of.
Grows(u) ==
  /\ Len(types) \in Nat /\ Ids = 1..Len(types)
  /\ Len(types') \in Nat /\ Ids' = 1..Len(types') /\ Ids' = Ids \cup {u}
  /\ \A t \in Ids \ {u} : types'[t] = types[t]
  /\ u \in Ids =>
       /\ types'[u].flavor = types[u].flavor
       /\ types[u].to # <<>> => types'[u].to = types[u].to
       /\ types'[u].ph => types[u].ph
       /\ ~UnresolvedPlaceholder(u) => types'[u].ll = types[u].ll
  /\ placeholderRefs \subseteq placeholderRefs'
  /\ DOMAIN body \subseteq DOMAIN body' /\ DOMAIN body' \subseteq DOMAIN body \cup {u}
  /\ \A s \in DOMAIN body : body'[s] = body[s]

\* The places in a list.
LEMMA RangeOfList ==
  ASSUME NEW S, NEW to \in Seq(S)
  PROVE  /\ Range(to) \subseteq S /\ Range(to) = {to[i] : i \in 1..Len(to)}
         /\ DOMAIN to = 1..Len(to) /\ Len(to) \in Nat
         /\ \A i \in DOMAIN to : to[i] \in S /\ to[i] \in Range(to)
         /\ to = <<>> => Range(to) = {}
BY DEF Range

\* What is settled stays so.
LEMMA PartsKept ==
  ASSUME NEW u, Grows(u), NEW to \in Seq(Ids)
  PROVE  /\ Awaited(to)' \subseteq Awaited(to)
         /\ Awaited(to) = {} => LLOf(to)' = LLOf(to)
PROOF
  <1>1. Range(to) \subseteq Ids /\ \A i \in DOMAIN to : to[i] \in Ids /\ to[i] \in Range(to)
    BY RangeOfList
  <1>2. \A t \in Ids : UnresolvedPlaceholder(t)' => UnresolvedPlaceholder(t)
    BY DEF Grows, UnresolvedPlaceholder
  <1>3. \A t \in Ids : ~UnresolvedPlaceholder(t) => types'[t].ll = types[t].ll
    BY DEF Grows
  <1>4. Awaited(to)' \subseteq Awaited(to)
    BY <1>1, <1>2 DEF Awaited
  <1>5. ASSUME Awaited(to) = {} PROVE LLOf(to)' = LLOf(to)
    BY <1>1, <1>3, <1>5 DEF Awaited, LLOf
  <1> QED
    BY <1>4, <1>5

\* Types completed early stay so.
LEMMA EarlyKept ==
  ASSUME HeapInv, NEW u, Grows(u), NEW t \in Ids, NEW v \in Ids', CompletedEarly(t),
         types'[v].flavor = "FunctionT", types'[v].to = types[t].to, types'[v].ll = types[t].ll
  PROVE  CompletedEarly(v)'
PROOF
  <1>1. PICK w \in Ids :
          /\ types[w].flavor = "FunctionT" /\ ~types[w].ph
          /\ types[w].to = types[t].to /\ types[w].ll = types[t].ll
          /\ \E x, y \in Ids : x # y /\ {<<x, w>>, <<y, w>>} \subseteq placeholderRefs
    BY DEF CompletedEarly
  <1>2. PICK x, y \in Ids : x # y /\ {<<x, w>>, <<y, w>>} \subseteq placeholderRefs
    BY <1>1
  <1>3. types[w].to # <<>>
    <2>1. <<x, w>> \in placeholderRefs
      BY <1>2
    <2>2. x \in Range(types[w].to)
      BY <2>1 DEF HeapInv
    <2> QED
      BY <2>2, RangeOfList DEF HeapInv, Shaped
  <1>4. /\ types'[w].flavor = "FunctionT" /\ ~types'[w].ph
        /\ types'[w].to = types[w].to /\ types'[w].ll = types[w].ll
    BY <1>1, <1>3 DEF Grows, UnresolvedPlaceholder
  <1>5. w \in Ids' /\ x \in Ids' /\ y \in Ids' /\ {<<x, w>>, <<y, w>>} \subseteq placeholderRefs'
    BY <1>2 DEF Grows
  <1> QED
    BY <1>1, <1>2, <1>4, <1>5 DEF CompletedEarly

\* A type made of the same parts as a complete one is complete: that one later, or a
\* clone of it.
LEMMA CompleteKept ==
  ASSUME HeapInv, NEW u, Grows(u), NEW t \in Ids, ~types[t].ph, Complete(t), NEW v \in Ids',
         types'[v].flavor = types[t].flavor, types'[v].to = types[t].to,
         types'[v].ll = types[t].ll, types[t].name # 0 => types'[v].name # 0
  PROVE  Complete(v)'
PROOF
  <1>1. PICK to \in Seq(Ids) : to = types[t].to /\ to = types'[v].to
    BY DEF HeapInv, Shaped
  <1>2. CompletedEarly(t) => CompletedEarly(v)'
    <2>1. CompletedEarly(t) => types[t].flavor = "FunctionT"
      BY DEF CompletedEarly
    <2> QED
      BY <2>1, EarlyKept
  <1>3. ASSUME Awaited(to) = {} PROVE Awaited(to)' = {} /\ LLOf(to)' = LLOf(to)
    BY <1>3, PartsKept
  <1>4. ASSUME Awaited(to) = {}, types[t].ll = Built(t) \/ Redirected(t)
        PROVE  types'[v].ll = Built(v)' \/ Redirected(v)'
    <2>1. CASE types[t].flavor \in {"PointerT", "ArrayT"}
      <3>1. Len(to) = 1
        BY <1>1, <2>1 DEF HeapInv, Shaped
      <3>2. LLOf(to)[1] = types[to[1]].ll /\ LLOf(to)'[1] = types'[to[1]].ll
        BY <1>1, <3>1 DEF LLOf
      <3>3. types'[to[1]].ll = types[to[1]].ll
        BY <1>3, <1>4, <3>2
      <3> QED
        BY <1>1, <1>4, <2>1, <3>3 DEF Built, Redirected
    <2>2. CASE types[t].flavor \notin {"PointerT", "ArrayT"}
      BY <1>1, <1>3, <1>4, <2>2 DEF Built, Redirected
    <2> QED
      BY <2>1, <2>2
  <1>5. ASSUME types[t].flavor = "StructT", types[t].ll[1] = "struct"
        PROVE  /\ Awaited(to)' = {}
               /\ types'[v].ll[2] \in DOMAIN body'
               /\ body'[types'[v].ll[2]] = LLOf(to)'
    <2>1. Awaited(to) = {} /\ types[t].ll[2] \in DOMAIN body /\ body[types[t].ll[2]] = LLOf(to)
      BY <1>1, <1>5 DEF Complete
    <2>2. \A s \in DOMAIN body : s \in DOMAIN body' /\ body'[s] = body[s]
      BY DEF Grows
    <2> QED
      BY <1>3, <2>1, <2>2
  <1>6. \/ CompletedEarly(v)'
        \/ Awaited(to)' = {} /\ (types'[v].ll = Built(v)' \/ Redirected(v)')
    BY <1>1, <1>2, <1>3, <1>4 DEF Complete
  <1> QED
    BY <1>1, <1>5, <1>6 DEF Complete

\* A placeholder that is left alone goes on waiting.
LEMMA WaitingKept ==
  ASSUME HeapInv, NEW u, Grows(u), NEW t \in Ids \ {u}, Waiting(t)
  PROVE  Waiting(t)'
PROOF
  <1>1. PICK to \in Seq(Ids) : to = types[t].to /\ to = types'[t].to
    BY DEF HeapInv, Shaped, Grows
  <1>2. Awaited(to)' \subseteq Awaited(to)
    BY PartsKept
  <1>3. types'[t] = types[t] /\ placeholderRefs \subseteq placeholderRefs'
    BY DEF Grows
  <1>4. t \notin DOMAIN body => t \notin DOMAIN body'
    BY DEF Grows
  <1> QED
    BY <1>1, <1>2, <1>3, <1>4 DEF Waiting, LLOpaque

\* So does its shape.
LEMMA ShapeKept ==
  ASSUME HeapInv, NEW u, Grows(u), NEW t \in Ids \ {u}
  PROVE  Shaped(t)'
PROOF
  <1>1. Shaped(t) /\ types'[t] = types[t]
    BY DEF HeapInv, Grows
  <1>2. types[t].name \in 0..Len(types')
    BY <1>1 DEF Shaped, Grows
  <1>3. Ids \subseteq Ids'
    BY DEF Grows
  <1>4. types[t].to \in Seq(Ids')
    BY <1>1, <1>3, SeqMonotonic DEF Shaped
  <1> QED
    BY <1>1, <1>2, <1>4 DEF Shaped

\* What the references and the calls say stays true.
LEMMA RefsKept ==
  ASSUME HeapInv, NEW u, Grows(u)
  PROVE  /\ placeholderRefs \subseteq Ids' \X Ids'
         /\ \A r \in placeholderRefs : r[1] \in Range(types'[r[2]].to)
         /\ work' = work => CallsFit(work)'
PROOF
  <1>1. Ids \subseteq Ids'
    BY DEF Grows
  <1>2. ASSUME NEW r \in placeholderRefs
        PROVE  r[1] \in Range(types'[r[2]].to)
    <2>1. r[2] \in Ids /\ r[1] \in Range(types[r[2]].to)
      BY DEF HeapInv
    <2>2. types[r[2]].to # <<>>
      BY <2>1, RangeOfList DEF HeapInv, Shaped
    <2>3. types'[r[2]].to = types[r[2]].to
      BY <2>1, <2>2 DEF Grows
    <2> QED
      BY <2>1, <2>3
  <1>3. \A t \in Ids : ~types[t].ph => t \in Ids' /\ ~types'[t].ph
    BY DEF Grows
  <1>4. ASSUME work' = work
        PROVE  CallsFit(work)'
    <2> SUFFICES ASSUME NEW i \in 1..Len(work)
                 PROVE  /\ work[i].of \in Ids' /\ ~types'[work[i].of].ph
                        /\ work[i].left \subseteq Ids'
                        /\ \A v \in work[i].left : <<work[i].of, v>> \in placeholderRefs'
      BY <1>4 DEF CallsFit
    <2>1. /\ work[i].of \in Ids /\ ~types[work[i].of].ph
          /\ work[i].left \subseteq Ids
          /\ \A v \in work[i].left : <<work[i].of, v>> \in placeholderRefs
      BY DEF HeapInv, CallsFit
    <2> QED
      BY <1>1, <1>3, <2>1 DEF Grows
  <1> QED
    BY <1>1, <1>2, <1>4 DEF HeapInv

\* A step keeps the invariant when it does for the type it is about.
LEMMA HeapStep ==
  ASSUME TableInv, HeapInv, NEW u, Grows(u),
         Shaped(u)', types'[u].ph => Waiting(u)', ~types'[u].ph => Complete(u)',
         \A r \in placeholderRefs' \ placeholderRefs :
            r \in Ids' \X Ids' /\ r[1] \in Range(types'[r[2]].to),
         placeholders' \subseteq placeholders \cup {u},
         u \in placeholders' /\ types'[u].to = <<>> => types'[u].ph,
         body' = [s \in DOMAIN body' |-> body'[s]],
         work' = work \/ (work' \in Seq([of : Nat, left : SUBSET Nat]) /\ CallsFit(work)'),
         ~aborted'
  PROVE  HeapInv'
PROOF
  <1>1. \A t \in Ids \ {u} : types'[t] = types[t]
    BY DEF Grows
  <1>2. Ids' = Ids \cup {u}
    BY DEF Grows
  <1>3. ASSUME NEW t \in Ids'
        PROVE  Shaped(t)' /\ (types'[t].ph => Waiting(t)') /\ (~types'[t].ph => Complete(t)')
    <2>1. CASE t = u
      BY <2>1
    <2>2. CASE t # u
      <3>1. t \in Ids \ {u} /\ types'[t] = types[t]
        BY <1>1, <1>2, <2>2
      <3>2. Shaped(t)'
        BY <3>1, ShapeKept
      <3>3. ASSUME types'[t].ph PROVE Waiting(t)'
        <4>1. Waiting(t)
          BY <3>1, <3>3 DEF HeapInv
        <4> QED
          BY <3>1, <4>1, WaitingKept
      <3>4. ASSUME ~types'[t].ph PROVE Complete(t)'
        <4>1. ~types[t].ph /\ Complete(t)
          BY <3>1, <3>4 DEF HeapInv
        <4> QED
          BY <3>1, <4>1, CompleteKept
      <3> QED
        BY <3>2, <3>3, <3>4
    <2> QED
      BY <2>1, <2>2
  <1>4. /\ placeholderRefs' \subseteq Ids' \X Ids'
        /\ \A r \in placeholderRefs' : r[1] \in Range(types'[r[2]].to)
    BY RefsKept
  <1>5. \A t \in placeholders' : types'[t].to = <<>> => types'[t].ph
    BY <1>1, <1>2 DEF HeapInv, TableInv
  <1>6. DOMAIN body' \subseteq Ids'
    BY <1>2 DEF HeapInv, Grows
  <1>7. work' \in Seq([of : Nat, left : SUBSET Nat]) /\ CallsFit(work)'
    BY RefsKept DEF HeapInv
  <1> QED
    BY <1>3, <1>4, <1>5, <1>6, <1>7 DEF HeapInv

-----------------------------------------------------------------------------
(* What a type is made of.                                                  *)

\* The parts of those types in X that are of some flavors.
PartsOf(X, flavors) == UNION {Range(types[u].to) : u \in {v \in X : types[v].flavor \in flavors}}

IsDown(f, t, flavors) ==
  f = [d \in Nat |->
        IF d = 0 THEN {t}
        ELSE f[d - 1] \cup UNION {Range(types[u].to) :
                                     u \in {v \in f[d - 1] : types[v].flavor \in flavors}}]

\* The numbers of types.
LEMMA TypesAreFinite ==
  ASSUME TableInv
  PROVE  /\ Len(types) \in Nat /\ Ids = 1..Len(types)
         /\ IsFiniteSet(Ids) /\ Cardinality(Ids) <= Len(types)
PROOF
  <1>1. PICK S : types \in Seq(S)
    BY DEF TableInv
  <1>2. PICK n \in Nat : n = Len(types) /\ Ids = 1..n
    BY <1>1, LenProperties DEF Ids
  <1>3. IsFiniteSet(1..n) /\ Cardinality(1..n) = IF 1 > n THEN 0 ELSE n - 1 + 1
    BY FS_Interval
  <1>4. Cardinality(1..n) <= n
    BY <1>3
  <1> QED
    BY <1>2, <1>3, <1>4

\* What Within collects.
LEMMA WithinIsClosed ==
  ASSUME TableInv, \A v \in Ids : Range(types[v].to) \subseteq Ids, NEW t \in Ids, NEW flavors
  PROVE  /\ t \in Within(t, flavors)
         /\ PartsOf(Within(t, flavors), flavors) \subseteq Within(t, flavors)
PROOF
  <1> DEFINE step == [X \in SUBSET Ids |-> PartsOf(X, flavors)]
             grow == [X \in SUBSET Ids |-> X \cup PartsOf(X, flavors)]
  <1>1. /\ \A X \in SUBSET Ids : PartsOf(X, flavors) \in SUBSET Ids
        /\ step \in [SUBSET Ids -> SUBSET Ids] /\ grow \in [SUBSET Ids -> SUBSET Ids]
        /\ {t} \in SUBSET Ids
    <2>1. \A X \in SUBSET Ids : PartsOf(X, flavors) \in SUBSET Ids
      BY DEF PartsOf
    <2> QED
      BY <2>1
  <1>2. \E f : IsDown(f, t, flavors)
    <2>0. PICK f \in [Nat -> SUBSET Ids] : Repeats(f, {t}, grow)
      <3> HIDE DEF grow
      <3> QED
        BY <1>1, NatRecursion
    <2>1. f = [d \in Nat |-> IF d = 0 THEN {t} ELSE grow[f[d - 1]]]
      BY <2>0 DEF Repeats
    <2> DEFINE down == [d \in Nat |->
        IF d = 0 THEN {t}
        ELSE f[d - 1] \cup UNION {Range(types[u].to) :
                                     u \in {v \in f[d - 1] : types[v].flavor \in flavors}}]
    <2>2. ASSUME NEW d \in Nat PROVE f[d] = down[d]
      <3>1. CASE d = 0
        BY <2>1, <3>1
      <3>2. CASE d # 0
        <4>1. PICK e \in Nat : e = d - 1
          BY <3>2
        <4>2. PICK X \in SUBSET Ids : X = f[e]
          BY <2>1
        <4>3. f[d] = grow[X]
          BY <2>1, <3>2, <4>1, <4>2
        <4>4. f[d] = X \cup PartsOf(X, flavors)
          BY <4>3
        <4>5. down[d] = X \cup UNION {Range(types[u].to) :
                                     u \in {v \in X : types[v].flavor \in flavors}}
          BY <3>2, <4>1, <4>2
        <4> QED
          BY <4>4, <4>5 DEF PartsOf
      <3> QED
        BY <3>1, <3>2
    <2>3. f = down
      <3>1. f = [d \in Nat |-> f[d]] /\ down = [d \in Nat |-> down[d]]
        BY <2>1
      <3> HIDE DEF down
      <3> QED
        BY <2>2, <3>1
    <2>4. IsDown(f, t, flavors)
      BY <2>3 DEF IsDown
    <2> QED
      BY <2>4
  <1>3. PICK f : IsDown(f, t, flavors) /\ Within(t, flavors) = f[Len(types)]
    <2>1. Within(t, flavors) = (CHOOSE f : IsDown(f, t, flavors))[Len(types)]
      BY DEF Within, IsDown
    <2>2. IsDown(CHOOSE f : IsDown(f, t, flavors), t, flavors)
      BY <1>2
    <2> QED
      BY <2>1, <2>2
  <1>4. f[0] = {t}
    BY <1>3 DEF IsDown
  <1>5. \A d \in Nat : f[d + 1] = f[d] \cup PartsOf(f[d], flavors)
    <2> TAKE d \in Nat
    <2>1. PICK e \in Nat : e = d + 1 /\ e # 0 /\ e - 1 = d
      OBVIOUS
    <2>2. PICK X : X = f[d]
      OBVIOUS
    <2>3. f[e] = X \cup UNION {Range(types[u].to) :
                                     u \in {v \in X : types[v].flavor \in flavors}}
      BY <1>3, <2>1, <2>2 DEF IsDown
    <2>4. f[e] = X \cup PartsOf(X, flavors)
      BY <2>3 DEF PartsOf
    <2> QED
      BY <2>1, <2>2, <2>4
  <1>6. \A d \in Nat : f[d] \in SUBSET Ids
    <2> DEFINE D == {d \in Nat : f[d] \in SUBSET Ids}
    <2>1. 0 \in D
      BY <1>1, <1>4
    <2>2. \A d \in Nat : d \in D => d + 1 \in D
      BY <1>1, <1>5
    <2> HIDE DEF D
    <2>3. Nat \subseteq D
      BY <2>1, <2>2, NatSetInduction
    <2> QED
      BY <2>3 DEF D
  <1>7. f = [d \in Nat |-> f[d]]
    BY <1>3 DEF IsDown
  <1>8. f \in [Nat -> SUBSET Ids]
    BY <1>6, <1>7
  <1>9. \A d \in Nat : f[d + 1] = f[d] \cup step[f[d]]
    BY <1>5, <1>6
  <1>10. \A X \in SUBSET Ids : step[X] = PartsOf(X, flavors)
    OBVIOUS
  <1> HIDE DEF step
  <1>11. Collects(f, Ids, {t}, step)
    BY <1>1, <1>4, <1>8, <1>9 DEF Collects
  <1>12. Len(types) \in Nat /\ IsFiniteSet(Ids) /\ Cardinality(Ids) <= Len(types)
    BY TypesAreFinite
  <1>13. step[f[Len(types)]] \subseteq f[Len(types)] /\ {t} \subseteq f[Len(types)]
    BY <1>11, <1>12, CollectsAll
  <1> QED
    BY <1>3, <1>6, <1>10, <1>12, <1>13

-----------------------------------------------------------------------------
(* The requests that make a type.                                           *)

\* A step as far as it makes or changes a type u: its parts are types that are there, and
\* only a placeholder that was not set gets some later, others than itself.
Makes(u) ==
  /\ Grows(u)
  /\ placeholders \subseteq placeholders' /\ placeholders' \subseteq placeholders \cup {u}
  /\ u \in Ids => \/ types'[u].to = types[u].to
                  \/ /\ u \in placeholders /\ types[u].to = <<>> /\ types[u].ph
                     /\ types'[u].to \in Seq(Ids) /\ u \notin Range(types'[u].to)
  /\ u \notin Ids => types'[u].to \in Seq(Ids)
Made == \/ UNCHANGED <<types, placeholderRefs, placeholders>>
        \/ \E u : Makes(u)

\* A step that touches neither types nor what they wait for.
LEMMA HeapStays ==
  ASSUME HeapInv, UNCHANGED <<types, placeholderRefs, placeholders, body, aborted>>,
         work' = work \/ (work' \in Seq([of : Nat, left : SUBSET Nat]) /\ CallsFit(work'))
  PROVE  HeapInv'
PROOF
  <1>1. /\ Ids' = Ids /\ types' = types /\ body' = body
        /\ placeholders' = placeholders /\ placeholderRefs' = placeholderRefs
        /\ aborted' = aborted
    BY DEF Ids
  <1>2. \A t : LLOf(t)' = LLOf(t) /\ Awaited(t)' = Awaited(t)
    BY <1>1 DEF LLOf, Awaited, UnresolvedPlaceholder
  <1>3. \A t : Built(t)' = Built(t)
    BY <1>1, <1>2 DEF Built
  <1>4. \A t : Redirected(t)' = Redirected(t) /\ CompletedEarly(t)' = CompletedEarly(t)
    BY <1>1 DEF Redirected, CompletedEarly
  <1>5. \A t : (Shaped(t) => Shaped(t)') /\ (Waiting(t) => Waiting(t)')
    BY <1>1, <1>2 DEF Shaped, Waiting, LLOpaque
  <1>6. \A t : Complete(t) => Complete(t)'
    BY <1>1, <1>2, <1>3, <1>4 DEF Complete
  <1>7. CallsFit(work') => CallsFit(work)'
    BY <1>1 DEF CallsFit
  <1>8. CallsFit(work') /\ work' \in Seq([of : Nat, left : SUBSET Nat])
    BY DEF HeapInv
  <1> QED
    BY <1>1, <1>5, <1>6, <1>7, <1>8 DEF HeapInv

\* The list of types, and the new one.
LEMMA AddGrows ==
  ASSUME TableInv, NEW b, NEW n, n = Len(types) + 1, types' = Append(types, b), UNCHANGED body,
         placeholderRefs \subseteq placeholderRefs'
  PROVE  Grows(n) /\ types'[n] = b /\ n \notin Ids
PROOF
  <1>1. PICK S : types \in Seq(S)
    BY DEF TableInv
  <1>2. /\ Len(types) \in Nat /\ DOMAIN types = 1..Len(types)
        /\ DOMAIN types' = DOMAIN types \cup {Len(types) + 1}
        /\ Len(types) + 1 \notin DOMAIN types
        /\ \A t \in DOMAIN types : types'[t] = types[t]
        /\ types'[Len(types) + 1] = b
    BY <1>1, Appended
  <1>3. Len(types') = Len(types) + 1
    <2>1. types \in Seq(S \cup {b}) /\ b \in S \cup {b}
      BY <1>1, SeqMonotonic
    <2> DEFINE T == S \cup {b}
    <2> HIDE DEF T
    <2> QED
      BY <2>1, AppendProperties
  <1>4. Ids' = 1..Len(types')
    BY <1>2, <1>3 DEF Ids
  <1> QED
    BY <1>2, <1>3, <1>4 DEF Grows, Ids

\* AddType keeps the invariant for a type of a possible shape.
LEMMA AddKeepsHeap ==
  ASSUME TableInv, HeapInv, NEW b, NEW n, n = Len(types) + 1, AddType(b),
         UNCHANGED <<body, work, aborted>>,
         b.flavor \in Flavors, b.name \in {0, n}, b.ph \in BOOLEAN,
         b.to \in Seq(Ids),
         b.flavor \in {"PointerT", "ArrayT"} => (b.to = <<>> /\ b.ph) \/ Len(b.to) = 1,
         b.flavor \in {"IntegerT", "AuxT"} => ~b.ph,
         b.ph /\ b.flavor = "StructT" => b.ll = LLOpaque(n),
         ~b.ph => Complete(n)',
         \/ UNCHANGED placeholders
         \/ placeholders' = placeholders \cup {n} /\ b.ph
  PROVE  HeapInv' /\ Made
PROOF
  <1>1. /\ types' = Append(types, b) /\ UNCHANGED body
        /\ placeholderRefs' = placeholderRefs \cup (Awaited(b.to) \X {n})
    BY DEF AddType
  <1>2. Grows(n) /\ types'[n] = b /\ n \notin Ids
    BY <1>1, AddGrows
  <1>3. Ids' = Ids \cup {n} /\ n \in 0..Len(types')
    BY <1>2 DEF Grows
  <1>4. Shaped(n)'
    <2>1. b.to \in Seq(Ids')
      BY <1>3, SeqMonotonic
    <2>2. b.name \in 0..Len(types')
      BY <1>3
    <2> QED
      BY <1>2, <2>1, <2>2 DEF Shaped
  <1>5. Awaited(b.to)' \subseteq Awaited(b.to)
    BY <1>2, PartsKept
  <1>6. ASSUME b.ph PROVE Waiting(n)'
    <2>1. n \notin DOMAIN body'
      BY <1>2 DEF HeapInv
    <2> QED
      BY <1>1, <1>2, <1>5, <1>6, <2>1 DEF Waiting, LLOpaque
  <1>7. \A r \in placeholderRefs' \ placeholderRefs :
            r \in Ids' \X Ids' /\ r[1] \in Range(types'[r[2]].to)
    <2>1. Awaited(b.to) \subseteq Range(b.to) /\ Range(b.to) \subseteq Ids
      BY RangeOfList DEF Awaited
    <2> QED
      BY <1>1, <1>2, <1>3, <2>1
  <1>8. n \notin placeholders
    BY <1>2 DEF TableInv
  <1>9. body' = [s \in DOMAIN body' |-> body'[s]] /\ ~aborted'
    BY DEF HeapInv
  <1>10. HeapInv'
    BY <1>2, <1>4, <1>6, <1>7, <1>8, <1>9, HeapStep
  <1>11. Makes(n)
    BY <1>2 DEF Makes
  <1> QED
    BY <1>10, <1>11 DEF Made

\* A new type that waits for nothing and is built from its parts is complete.
LEMMA NewComplete ==
  ASSUME TableInv, HeapInv, NEW b, NEW n, Grows(n), n \notin Ids, types'[n] = b,
         b.to \in Seq(Ids), Awaited(b.to) = {},
         b.flavor \in {"PointerT", "ArrayT"} => Len(b.to) = 1,
         b.flavor = "PointerT" => b.ll = LLPtr(types[b.to[1]].ll),
         b.flavor = "ArrayT" => b.ll = LLArray(types[b.to[1]].ll),
         b.flavor = "StructT" => b.ll = LLLiteral(LLOf(b.to)),
         b.flavor = "FunctionT" => b.ll = LLFunction(LLOf(b.to))
  PROVE  Complete(n)'
PROOF
  <1>1. Awaited(b.to)' = {} /\ LLOf(b.to)' = LLOf(b.to)
    BY PartsKept
  <1>2. ASSUME Len(b.to) = 1 PROVE types'[b.to[1]].ll = types[b.to[1]].ll
    <2>1. LLOf(b.to)[1] = types[b.to[1]].ll /\ LLOf(b.to)'[1] = types'[b.to[1]].ll
      BY <1>2 DEF LLOf
    <2> QED
      BY <1>1, <2>1
  <1>3. types'[n].ll = Built(n)'
    BY <1>1, <1>2 DEF Built
  <1>4. ~(types'[n].flavor = "StructT" /\ types'[n].ll[1] = "struct")
    BY DEF LLLiteral
  <1> QED
    BY <1>1, <1>3, <1>4 DEF Complete

\* Intern: nothing changes, or a type without a name is made.
LEMMA InternKeepsHeap ==
  ASSUME TableInv, HeapInv, NEW c, NEW b, NEW n, n = Len(types) + 1, Intern(c, b),
         UNCHANGED <<placeholders, body, work, aborted>>,
         b.flavor \in {"PointerT", "ArrayT", "StructT", "FunctionT"}, b.name = 0,
         b.ph \in BOOLEAN, b.to \in Seq(Ids),
         b.flavor \in {"PointerT", "ArrayT"} => Len(b.to) = 1,
         ~b.ph => Awaited(b.to) = {},
         b.flavor = "PointerT" => b.ll = LLPtr(types[b.to[1]].ll),
         b.flavor = "ArrayT" => b.ll = LLArray(types[b.to[1]].ll),
         b.flavor = "StructT" => b.ll = IF b.ph THEN LLOpaque(n) ELSE LLLiteral(LLOf(b.to)),
         b.flavor = "FunctionT" => b.ll = LLFunction(LLOf(b.to))
  PROVE  HeapInv' /\ Made
PROOF
  <1>1. CASE UNCHANGED tables
    BY <1>1, HeapStays DEF tables, Made
  <1>2. CASE AddType(b)
    <2>1. types' = Append(types, b) /\ placeholderRefs \subseteq placeholderRefs'
      BY <1>2 DEF AddType
    <2>2. Grows(n) /\ types'[n] = b /\ n \notin Ids
      BY <2>1, AddGrows
    <2>3. ASSUME ~b.ph PROVE Complete(n)'
      BY <2>2, <2>3, NewComplete
    <2>4. b.flavor \in Flavors /\ b.flavor \notin {"IntegerT", "AuxT"}
      BY DEF Flavors
    <2> QED
      BY <1>2, <2>3, <2>4, AddKeepsHeap
  <1> QED
    BY <1>1, <1>2 DEF Intern

\* The fields or the signature the frontend asks for.
LEMMA FieldsAreLists ==
  ASSUME NEW to \in Fields
  PROVE  to \in Seq(Ids) /\ to # <<>>
PROOF
  <1> DEFINE data == {t \in Ids : types[t].flavor # "FunctionT"}
  <1>1. to \in {<<t>> : t \in data} \cup (data \X data)
    BY DEF Fields
  <1>2. CASE to \in {<<t>> : t \in data}
    <2>1. PICK t \in Ids : to = <<t>>
      BY <1>2
    <2> QED
      BY <2>1
  <1>3. CASE to \in data \X data
    <2>1. PICK t, v \in Ids : to = <<t, v>>
      BY <1>3
    <2> QED
      BY <2>1
  <1> QED
    BY <1>1, <1>2, <1>3

\* A list of one type.
LEMMA OnePart ==
  ASSUME NEW t \in Ids
  PROVE  /\ <<t>> \in Seq(Ids) /\ Len(<<t>>) = 1 /\ <<t>>[1] = t /\ <<t>> # <<>>
         /\ Range(<<t>>) = {t}
         /\ Awaited(<<t>>) = IF UnresolvedPlaceholder(t) THEN {t} ELSE {}
PROOF
  <1>1. <<t>> \in Seq(Ids) /\ Len(<<t>>) = 1 /\ <<t>>[1] = t /\ <<t>> # <<>>
    OBVIOUS
  <1>2. Range(<<t>>) = {t}
    <2> DEFINE q == <<t>>
    <2>1. Range(q) = {q[i] : i \in 1..Len(q)}
      BY <1>1, RangeOfList
    <2>2. q[1] = t /\ 1..Len(q) = {1}
      BY <1>1
    <2> HIDE DEF q
    <2>3. Range(q) = {t}
      BY <2>1, <2>2
    <2> QED
      BY <2>3 DEF q
  <1> QED
    BY <1>1, <1>2 DEF Awaited

\* Requests for pointers, arrays, structs and functions.
LEMMA InternsKeepHeap ==
  ASSUME TableInv, HeapInv,
         \/ \E t \in Ids : PointerType(t) \/ ArrayType(t)
         \/ \E to \in Fields : StructType(to) \/ FunctionType(to)
  PROVE  HeapInv' /\ Made
PROOF
  <1>0. PICK n : n = Len(types) + 1
    OBVIOUS
  <1>1. UNCHANGED <<placeholders, body, work, aborted>>
    BY DEF PointerType, ArrayType, StructType, FunctionType, UnchangedButTables
  <1>2. \A t \in Ids : UnresolvedPlaceholder(t) \in BOOLEAN
    BY DEF UnresolvedPlaceholder, HeapInv, Shaped
  <1>3. ASSUME NEW t \in Ids, PointerType(t) PROVE HeapInv' /\ Made
    <2> DEFINE b == Btype("PointerT", 0, LLPtr(types[t].ll), UnresolvedPlaceholder(t), <<t>>)
    <2>1. /\ b.flavor = "PointerT" /\ b.name = 0 /\ b.ph = UnresolvedPlaceholder(t)
          /\ b.to = <<t>> /\ b.ll = LLPtr(types[t].ll)
      BY DEF Btype
    <2>2. Intern([b EXCEPT !.ph = types[t].ph], b)
      BY <1>3 DEF PointerType, InternOver
    <2> HIDE DEF b
    <2>3. /\ b.to \in Seq(Ids) /\ Len(b.to) = 1 /\ b.to[1] = t /\ b.ph \in BOOLEAN
          /\ ~b.ph => Awaited(b.to) = {}
      BY <1>2, <2>1, OnePart
    <2> QED
      BY <1>0, <1>1, <2>1, <2>2, <2>3, InternKeepsHeap
  <1>4. ASSUME NEW t \in Ids, ArrayType(t) PROVE HeapInv' /\ Made
    <2> DEFINE b == Btype("ArrayT", 0, LLArray(types[t].ll), UnresolvedPlaceholder(t), <<t>>)
    <2>1. /\ b.flavor = "ArrayT" /\ b.name = 0 /\ b.ph = UnresolvedPlaceholder(t)
          /\ b.to = <<t>> /\ b.ll = LLArray(types[t].ll)
      BY DEF Btype
    <2>2. Intern([b EXCEPT !.ph = types[t].ph], b)
      BY <1>4 DEF ArrayType, InternOver
    <2> HIDE DEF b
    <2>3. /\ b.to \in Seq(Ids) /\ Len(b.to) = 1 /\ b.to[1] = t /\ b.ph \in BOOLEAN
          /\ ~b.ph => Awaited(b.to) = {}
      BY <1>2, <2>1, OnePart
    <2> QED
      BY <1>0, <1>1, <2>1, <2>2, <2>3, InternKeepsHeap
  <1>5. \A to \in Fields : to \in Seq(Ids)
    BY FieldsAreLists
  <1>6. ASSUME NEW to \in Fields, StructType(to) PROVE HeapInv' /\ Made
    <2> DEFINE waits == Btype("StructT", 0, LLOpaque(n), TRUE, to)
    <2> DEFINE literal == Btype("StructT", 0, LLLiteral(LLOf(to)), FALSE, to)
    <2>1. IF Awaited(to) # {} THEN Intern(waits, waits) ELSE Intern(literal, literal)
      BY <1>0, <1>6 DEF StructType
    <2>2. CASE Awaited(to) # {}
      <3>1. /\ waits.flavor = "StructT" /\ waits.name = 0 /\ waits.ph = TRUE
            /\ waits.to = to /\ waits.ll = LLOpaque(n)
        BY DEF Btype
      <3>2. Intern(waits, waits)
        BY <2>1, <2>2
      <3> HIDE DEF waits
      <3> QED
        BY <1>0, <1>1, <1>5, <3>1, <3>2, InternKeepsHeap
    <2>3. CASE Awaited(to) = {}
      <3>1. /\ literal.flavor = "StructT" /\ literal.name = 0 /\ literal.ph = FALSE
            /\ literal.to = to /\ literal.ll = LLLiteral(LLOf(to))
        BY DEF Btype
      <3>2. Intern(literal, literal)
        BY <2>1, <2>3
      <3> HIDE DEF literal
      <3> QED
        BY <1>0, <1>1, <1>5, <2>3, <3>1, <3>2, InternKeepsHeap
    <2> QED
      BY <2>2, <2>3
  <1>7. ASSUME NEW to \in Fields, FunctionType(to) PROVE HeapInv' /\ Made
    <2> DEFINE cand == Btype("FunctionT", 0, LLFunction(LLOf(to)), FALSE, to)
    <2> DEFINE b == [cand EXCEPT !.ph = Awaited(to) # {}]
    <2>1. /\ b.flavor = "FunctionT" /\ b.name = 0 /\ b.ph = (Awaited(to) # {})
          /\ b.to = to /\ b.ll = LLFunction(LLOf(to))
      BY DEF Btype
    <2>2. Intern(cand, b)
      BY <1>7 DEF FunctionType
    <2> HIDE DEF cand, b
    <2> QED
      BY <1>0, <1>1, <1>5, <2>1, <2>2, InternKeepsHeap
  <1> QED
    BY <1>3, <1>4, <1>6, <1>7

\* Requests for a clone, a placeholder or a marker.
LEMMA AddsKeepHeap ==
  ASSUME TableInv, HeapInv,
         \/ \E t \in Ids : NamedType(t)
         \/ \E p \in placeholders : CircularPointerType(p)
         \/ PlaceholderPointerType \/ PlaceholderStructType \/ PlaceholderArrayType
  PROVE  HeapInv' /\ Made
PROOF
  <1>0. PICK n : n = Len(types) + 1
    OBVIOUS
  <1>1. ASSUME NEW t \in Ids, NamedType(t) PROVE HeapInv' /\ Made
    <2> DEFINE b == [types[t] EXCEPT !.name = n]
    <2>1. AddType(b) /\ UNCHANGED <<placeholders, body, work, aborted>> /\ ~types[t].ph
      BY <1>0, <1>1 DEF NamedType
    <2>2. IsBtype(types[t])
      BY DEF TableInv
    <2>3. /\ b.flavor = types[t].flavor /\ b.name = n /\ b.ph = types[t].ph
          /\ b.to = types[t].to /\ b.ll = types[t].ll
      BY <2>2 DEF IsBtype
    <2> HIDE DEF b
    <2>4. types' = Append(types, b) /\ placeholderRefs \subseteq placeholderRefs'
      BY <2>1 DEF AddType
    <2>5. Grows(n) /\ types'[n] = b /\ n \notin Ids
      BY <1>0, <2>1, <2>4, AddGrows
    <2>6. Shaped(t) /\ Complete(t)
      BY <2>1 DEF HeapInv
    <2>7. Complete(n)'
      <3>1. n \in Ids' /\ n # 0
        BY <1>0, <2>5 DEF Grows
      <3> QED
        BY <2>1, <2>3, <2>5, <2>6, <3>1, CompleteKept
    <2> QED
      BY <1>0, <2>1, <2>3, <2>6, <2>7, AddKeepsHeap DEF Shaped
  <1>2. ASSUME NEW request, NEW flavor \in {"PointerT", "StructT", "ArrayT"}, NEW ll,
               PlaceholderType(request, flavor, ll),
               flavor = "StructT" => ll = LLOpaque(n)
        PROVE  HeapInv' /\ Made
    <2> DEFINE b == Btype(flavor, n, ll, TRUE, <<>>)
    <2>1. /\ b.flavor = flavor /\ b.name = n /\ b.ph = TRUE /\ b.to = <<>> /\ b.ll = ll
      BY DEF Btype
    <2>2. /\ AddType(b) /\ placeholders' = placeholders \cup {n}
          /\ UNCHANGED <<body, work, aborted>>
      BY <1>0, <1>2 DEF PlaceholderType
    <2> HIDE DEF b
    <2>3. b.flavor \in Flavors /\ b.flavor \notin {"IntegerT", "AuxT"} /\ b.to \in Seq(Ids)
      BY <2>1 DEF Flavors
    <2> QED
      BY <1>0, <1>2, <2>1, <2>2, <2>3, AddKeepsHeap
  <1>3. CASE PlaceholderPointerType \/ PlaceholderStructType \/ PlaceholderArrayType
    BY <1>0, <1>2, <1>3 DEF PlaceholderPointerType, PlaceholderStructType, PlaceholderArrayType
  <1>4. ASSUME NEW p \in placeholders, CircularPointerType(p) PROVE HeapInv' /\ Made
    <2> DEFINE b == Btype("AuxT", 0, LLPtr(LLOpaque(n)), FALSE, <<>>)
    <2>1. b.flavor = "AuxT" /\ b.name = 0 /\ b.ph = FALSE /\ b.to = <<>>
      BY DEF Btype
    <2>2. AddType(b) /\ UNCHANGED <<placeholders, body, work, aborted>>
      BY <1>0, <1>4 DEF CircularPointerType
    <2> HIDE DEF b
    <2>3. types' = Append(types, b) /\ placeholderRefs \subseteq placeholderRefs'
      BY <2>2 DEF AddType
    <2>4. Grows(n) /\ types'[n] = b /\ n \notin Ids
      BY <1>0, <2>2, <2>3, AddGrows
    <2>5. b.flavor \in Flavors /\ b.to \in Seq(Ids) /\ Awaited(b.to) = {}
      <3>1. b.to \in Seq(Ids)
        BY <2>1
      <3>2. Range(b.to) = {}
        BY <2>1, <3>1, RangeOfList
      <3> QED
        BY <2>1, <3>1, <3>2 DEF Flavors, Awaited
    <2>6. Complete(n)'
      BY <2>1, <2>4, <2>5, NewComplete
    <2> QED
      BY <1>0, <2>1, <2>2, <2>5, <2>6, AddKeepsHeap
  <1> QED
    BY <1>1, <1>3, <1>4

\* A type is within itself.
LEMMA NotOfItself ==
  ASSUME TableInv, HeapInv, NEW t \in Ids, NEW p, NEW flavors, p \notin Within(t, flavors)
  PROVE  p # t
PROOF
  <1>1. \A v \in Ids : Range(types[v].to) \subseteq Ids
    BY RangeOfList DEF HeapInv, Shaped
  <1> QED
    BY <1>1, WithinIsClosed

-----------------------------------------------------------------------------
(* The requests that complete a placeholder.                                *)

\* A type is changed in place.
LEMMA ChangeGrows ==
  ASSUME TableInv, HeapInv, NEW u \in Ids, Changed(u),
         types'[u].flavor = types[u].flavor,
         types[u].to # <<>> => types'[u].to = types[u].to,
         types'[u].ph => types[u].ph,
         ~UnresolvedPlaceholder(u) => types'[u].ll = types[u].ll,
         placeholderRefs \subseteq placeholderRefs',
         DOMAIN body \subseteq DOMAIN body', DOMAIN body' \subseteq DOMAIN body \cup {u},
         \A s \in DOMAIN body : body'[s] = body[s]
  PROVE  Grows(u) /\ Ids' = Ids /\ u \in 0..Len(types')
PROOF
  <1>1. PICK S : types \in Seq(S)
    BY DEF TableInv
  <1>2. /\ \E T : types' \in Seq(T)
        /\ Ids' = Ids
        /\ \A t \in Ids \ {u} : types'[t] = types[t]
    BY <1>1, Replaced DEF Ids
  <1>3. Len(types) \in Nat /\ Ids = 1..Len(types)
    BY <1>1, RangeOfList DEF Ids
  <1>4. Len(types') \in Nat /\ Ids' = 1..Len(types')
    <2>1. PICK T : types' \in Seq(T)
      BY <1>2
    <2> DEFINE q == types'
    <2>2. DOMAIN q = 1..Len(q) /\ Len(q) \in Nat
      BY <2>1, RangeOfList
    <2> QED
      BY <2>2 DEF Ids
  <1>5. u \in 0..Len(types')
    BY <1>2, <1>4
  <1> QED
    BY <1>2, <1>3, <1>4, <1>5 DEF Grows

\* A call for a complete type, alone on the stack.
LEMMA FirstCall ==
  ASSUME NEW p \in Ids, Ids' = Ids, Ids \subseteq Nat, ~types'[p].ph,
         placeholderRefs \subseteq placeholderRefs', work' = <<Call(placeholderRefs, p)>>
  PROVE  work' \in Seq([of : Nat, left : SUBSET Nat]) /\ CallsFit(work)'
PROOF
  <1> DEFINE c == Call(placeholderRefs, p)
  <1>1. /\ c \in [of : Nat, left : SUBSET Nat] /\ c.of = p /\ c.left \subseteq Ids
        /\ \A u \in c.left : <<p, u>> \in placeholderRefs
    BY DEF Call, Users
  <1> HIDE DEF c
  <1>2. work' = <<c>>
    BY DEF c
  <1>3. work' \in Seq([of : Nat, left : SUBSET Nat]) /\ Len(work') = 1 /\ work'[1] = c
    BY <1>1, <1>2
  <1> QED
    BY <1>1, <1>3 DEF CallsFit

\* setPlaceholderPointerType: the placeholder becomes the type it is redirected to.
LEMMA SetPointerKeepsHeap ==
  ASSUME TableInv, HeapInv, NEW p \in placeholders, NEW t \in Ids,
         SetPlaceholderPointerType(p, t)
  PROVE  HeapInv' /\ Made
PROOF
  <1>1. /\ p \in Ids /\ IsBtype(types[p]) /\ types[p].name # 0 /\ Shaped(p)
        /\ types[p].ph => Waiting(p)
        /\ ~types[p].ph => Complete(p)
    BY DEF TableInv, HeapInv
  <1>2. /\ types[p].flavor = "PointerT"
        /\ \/ types[p].to = <<>> /\ types[p].ph
           \/ types[p].to = <<t>> /\ types[p].ll = types[t].ll
    BY <1>1 DEF SetPlaceholderPointerType, MaySetPointer, IsUnset, HeapInv
  <1>3. UNCHANGED <<placeholders, body, aborted>>
    BY DEF SetPlaceholderPointerType
  <1> DEFINE ph == IF UnresolvedPlaceholder(t) THEN types[p].ph ELSE FALSE
  <1>4. /\ types' = [types EXCEPT ![p] = types'[p]]
        /\ IsBtype(types'[p]) /\ types'[p].to = <<t>> /\ types'[p].ll = types[t].ll
        /\ types'[p].name = types[p].name /\ types'[p].flavor = types[p].flavor
        /\ types'[p].ph = ph
    <2>1. p \in DOMAIN types
      BY <1>1 DEF Ids
    <2>2. CASE UnresolvedPlaceholder(t)
      <3>1. types' = [types EXCEPT ![p].to = <<t>>, ![p].ll = types[t].ll]
        BY <2>2 DEF SetPlaceholderPointerType
      <3> QED
        BY <1>1, <2>1, <2>2, <3>1 DEF IsBtype
    <2>3. CASE ~UnresolvedPlaceholder(t)
      <3>1. types' = [types EXCEPT ![p].to = <<t>>, ![p].ll = types[t].ll, ![p].ph = FALSE]
        BY <2>3 DEF SetPlaceholderPointerType
      <3> QED
        BY <1>1, <2>1, <2>3, <3>1 DEF IsBtype
    <2> QED
      BY <2>2, <2>3
  <1>5. /\ placeholderRefs \subseteq placeholderRefs'
        /\ placeholderRefs' \subseteq placeholderRefs \cup {<<t, p>>}
        /\ IF UnresolvedPlaceholder(t) THEN work' = work ELSE work' = <<Call(placeholderRefs, p)>>
    BY DEF SetPlaceholderPointerType
  <1>b. ph \in BOOLEAN /\ (ph => types[p].ph) /\ (~UnresolvedPlaceholder(t) => ~ph)
        /\ (~ph /\ types[p].ph => ~UnresolvedPlaceholder(t))
    BY <1>1 DEF Shaped
  <1> HIDE DEF ph
  <1>6. Grows(p) /\ Ids' = Ids /\ p \in 0..Len(types')
    <2>1. Changed(p)
      BY <1>4 DEF Changed
    <2>2. ~UnresolvedPlaceholder(p) => types'[p].ll = types[p].ll
      BY <1>2, <1>4 DEF UnresolvedPlaceholder
    <2> QED
      BY <1>1, <1>2, <1>3, <1>4, <1>5, <1>b, <2>1, <2>2, ChangeGrows
  <1>7. /\ <<t>> \in Seq(Ids) /\ Len(<<t>>) = 1 /\ <<t>>[1] = t /\ <<t>> # <<>>
        /\ Range(<<t>>) = {t}
        /\ Awaited(<<t>>) = IF UnresolvedPlaceholder(t) THEN {t} ELSE {}
    BY OnePart
  <1>8. Shaped(p)'
    <2>1. types'[p].name \in 0..Len(types')
      BY <1>1, <1>4, <1>6 DEF Shaped, Grows
    <2> QED
      BY <1>1, <1>2, <1>4, <1>6, <1>7, <1>b, <2>1 DEF Shaped
  <1>9. types'[p].ph => Waiting(p)'
    BY <1>2, <1>4 DEF Waiting
  <1>10. ASSUME ~types'[p].ph PROVE Complete(p)'
    <2>1. CASE types[p].ph
      <3>1. ~UnresolvedPlaceholder(t) /\ t # p
        BY <1>2, <1>4, <1>10, <1>b, <2>1 DEF UnresolvedPlaceholder
      <3>2. Awaited(<<t>>)' = {}
        BY <1>6, <1>7, <3>1, PartsKept
      <3>3. types'[t] = types[t]
        BY <1>6, <3>1 DEF Grows
      <3>4. Redirected(p)'
        BY <1>1, <1>2, <1>4, <1>7, <3>3 DEF Redirected
      <3> QED
        BY <1>2, <1>4, <3>2, <3>4 DEF Complete
    <2>2. CASE ~types[p].ph
      BY <1>1, <1>2, <1>4, <1>6, <2>2, CompleteKept
    <2> QED
      BY <2>1, <2>2
  <1>11. \A r \in placeholderRefs' \ placeholderRefs :
            r \in Ids' \X Ids' /\ r[1] \in Range(types'[r[2]].to)
    BY <1>1, <1>4, <1>5, <1>6, <1>7
  <1>12. work' = work \/ (work' \in Seq([of : Nat, left : SUBSET Nat]) /\ CallsFit(work)')
    <2>1. Ids \subseteq Nat
      BY <1>6 DEF Grows
    <2> QED
      BY <1>1, <1>4, <1>5, <1>6, <1>b, <2>1, FirstCall
  <1>13. body' = [s \in DOMAIN body' |-> body'[s]] /\ ~aborted' /\ types'[p].to # <<>>
    BY <1>3, <1>4, <1>7 DEF HeapInv
  <1>14. HeapInv'
    BY <1>3, <1>6, <1>8, <1>9, <1>10, <1>11, <1>12, <1>13, HeapStep
  <1>15. Makes(p)
    <2>1. p # t
      BY NotOfItself DEF SetPlaceholderPointerType, MaySetPointer
    <2> QED
      BY <1>1, <1>2, <1>3, <1>4, <1>6, <1>7, <2>1 DEF Makes
  <1> QED
    BY <1>14, <1>15 DEF Made

\* setPlaceholderArrayType.
LEMMA SetArrayKeepsHeap ==
  ASSUME TableInv, HeapInv, NEW p \in placeholders, NEW t \in Ids,
         SetPlaceholderArrayType(p, t)
  PROVE  HeapInv' /\ Made
PROOF
  <1>1. p \in Ids /\ IsBtype(types[p]) /\ Shaped(p)
    BY DEF TableInv, HeapInv
  <1>2. types[p].flavor = "ArrayT" /\ types[p].to = <<>> /\ types[p].ph
    BY DEF SetPlaceholderArrayType, IsUnset, HeapInv
  <1> DEFINE ph == UnresolvedPlaceholder(t)
  <1>3. /\ UNCHANGED <<placeholders, body, aborted>>
        /\ types' = [types EXCEPT ![p].to = <<t>>, ![p].ll = LLArray(types[t].ll), ![p].ph = ph]
        /\ placeholderRefs' = placeholderRefs \cup (Awaited(<<t>>) \X {p})
        /\ work' = IF ph THEN <<>> ELSE <<Call(placeholderRefs, p)>>
        /\ work = <<>>
    BY DEF SetPlaceholderArrayType, Idle
  <1>b. ph \in BOOLEAN /\ (t = p => ph)
    BY <1>2 DEF UnresolvedPlaceholder, HeapInv, Shaped
  <1>7. /\ <<t>> \in Seq(Ids) /\ Len(<<t>>) = 1 /\ <<t>>[1] = t /\ <<t>> # <<>>
        /\ Range(<<t>>) = {t}
        /\ Awaited(<<t>>) = IF ph THEN {t} ELSE {}
    BY OnePart
  <1> HIDE DEF ph
  <1>4. /\ types' = [types EXCEPT ![p] = types'[p]]
        /\ IsBtype(types'[p]) /\ types'[p].to = <<t>> /\ types'[p].ll = LLArray(types[t].ll)
        /\ types'[p].name = types[p].name /\ types'[p].flavor = types[p].flavor
        /\ types'[p].ph = ph
    BY <1>1, <1>3 DEF IsBtype, Ids
  <1>6. Grows(p) /\ Ids' = Ids /\ p \in 0..Len(types')
    <2>1. Changed(p)
      BY <1>4 DEF Changed
    <2>2. UnresolvedPlaceholder(p)
      BY <1>2 DEF UnresolvedPlaceholder
    <2> QED
      BY <1>1, <1>2, <1>3, <1>4, <2>1, <2>2, ChangeGrows
  <1>8. Shaped(p)'
    <2>1. types'[p].name \in 0..Len(types')
      BY <1>1, <1>4, <1>6 DEF Shaped, Grows
    <2> QED
      BY <1>1, <1>2, <1>4, <1>6, <1>7, <1>b, <2>1 DEF Shaped
  <1>9. types'[p].ph => Waiting(p)'
    BY <1>2, <1>4 DEF Waiting
  <1>10. ASSUME ~types'[p].ph PROVE Complete(p)'
    <2>1. ~ph /\ t # p
      BY <1>4, <1>10, <1>b
    <2>2. Awaited(<<t>>)' = {}
      BY <1>6, <1>7, <2>1, PartsKept
    <2>3. types'[t] = types[t]
      BY <1>6, <2>1 DEF Grows
    <2>4. types'[p].ll = Built(p)'
      BY <1>2, <1>4, <1>7, <2>3 DEF Built
    <2> QED
      BY <1>2, <1>4, <2>2, <2>4 DEF Complete
  <1>11. \A r \in placeholderRefs' \ placeholderRefs :
            r \in Ids' \X Ids' /\ r[1] \in Range(types'[r[2]].to)
    BY <1>1, <1>3, <1>4, <1>6, <1>7
  <1>12. work' = work \/ (work' \in Seq([of : Nat, left : SUBSET Nat]) /\ CallsFit(work)')
    <2>1. Ids \subseteq Nat
      BY <1>6 DEF Grows
    <2> QED
      BY <1>1, <1>3, <1>4, <1>6, <2>1, FirstCall
  <1>13. body' = [s \in DOMAIN body' |-> body'[s]] /\ ~aborted' /\ types'[p].to # <<>>
    BY <1>3, <1>4, <1>7 DEF HeapInv
  <1>14. HeapInv'
    BY <1>3, <1>6, <1>8, <1>9, <1>10, <1>11, <1>12, <1>13, HeapStep
  <1>15. Makes(p)
    <2>1. p # t
      BY NotOfItself DEF SetPlaceholderArrayType
    <2> QED
      BY <1>1, <1>2, <1>3, <1>4, <1>6, <1>7, <2>1 DEF Makes
  <1> QED
    BY <1>14, <1>15 DEF Made

\* The body of a struct is set.
LEMMA BodySet ==
  ASSUME NEW s, NEW to, s \notin DOMAIN body, body = [k \in DOMAIN body |-> body[k]],
         body' = SetBody(body, s, to)
  PROVE  /\ DOMAIN body' = DOMAIN body \cup {s}
         /\ body'[s] = LLOf(to)
         /\ \A k \in DOMAIN body : body'[k] = body[k]
         /\ body' = [k \in DOMAIN body' |-> body'[k]]
PROOF
  <1>1. body' = [k \in DOMAIN body \cup {s} |-> IF k = s THEN LLOf(to) ELSE body[k]]
    BY DEF SetBody, Enter
  <1> QED
    BY <1>1

\* setPlaceholderStructType.
LEMMA SetStructKeepsHeap ==
  ASSUME TableInv, HeapInv, NEW p \in placeholders, NEW to \in Fields,
         SetPlaceholderStructType(p, to)
  PROVE  HeapInv' /\ Made
PROOF
  <1>1. p \in Ids /\ IsBtype(types[p]) /\ Shaped(p)
    BY DEF TableInv, HeapInv
  <1>2. /\ types[p].flavor = "StructT" /\ types[p].to = <<>> /\ types[p].ph
        /\ types[p].ll = LLOpaque(p) /\ p \notin DOMAIN body
    <2>1. types[p].flavor = "StructT" /\ types[p].to = <<>> /\ types[p].ph
      BY DEF SetPlaceholderStructType, IsUnset, HeapInv
    <2> QED
      BY <1>1, <2>1 DEF HeapInv, Waiting
  <1>3. to \in Seq(Ids) /\ to # <<>> /\ types[p].ll[2] = p /\ types[p].ll[1] = "struct"
    BY <1>2, FieldsAreLists DEF LLOpaque
  <1>4. UNCHANGED placeholders /\ work = <<>> /\ ~aborted
    BY DEF SetPlaceholderStructType, Idle
  <1> DEFINE ph == Awaited(to) # {}
  <1>5. /\ types' = [types EXCEPT ![p] = types'[p]]
        /\ IsBtype(types'[p]) /\ types'[p].to = to /\ types'[p].ll = types[p].ll
        /\ types'[p].name = types[p].name /\ types'[p].flavor = types[p].flavor
        /\ types'[p].ph = ph
    <2>1. p \in DOMAIN types
      BY <1>1 DEF Ids
    <2>2. CASE Awaited(to) = {}
      <3>1. types' = [types EXCEPT ![p].to = to, ![p].ph = FALSE]
        BY <2>2 DEF SetPlaceholderStructType
      <3> QED
        BY <1>1, <2>1, <2>2, <3>1 DEF IsBtype
    <2>3. CASE Awaited(to) # {}
      <3>1. types' = [types EXCEPT ![p].to = to]
        BY <2>3 DEF SetPlaceholderStructType
      <3>2. ph
        BY <2>3
      <3> HIDE DEF ph
      <3>3. types'[p].ph = TRUE
        BY <1>1, <1>2, <2>1, <3>1 DEF IsBtype, Shaped
      <3> QED
        BY <1>1, <2>1, <3>1, <3>2, <3>3 DEF IsBtype, ph
    <2> QED
      BY <2>2, <2>3
  <1>6. /\ placeholderRefs \subseteq placeholderRefs'
        /\ placeholderRefs' \subseteq placeholderRefs \cup (Awaited(to) \X {p})
        /\ ph => work' = work /\ UNCHANGED body
        /\ ~ph => work' = <<Call(placeholderRefs, p)>> /\ body' = SetBody(body, p, to)
        /\ ~aborted'
    BY <1>2, <1>3, <1>4 DEF SetPlaceholderStructType
  <1>7. body = [s \in DOMAIN body |-> body[s]]
    BY DEF HeapInv
  <1>8. /\ DOMAIN body \subseteq DOMAIN body' /\ DOMAIN body' \subseteq DOMAIN body \cup {p}
        /\ \A s \in DOMAIN body : body'[s] = body[s]
        /\ body' = [s \in DOMAIN body' |-> body'[s]]
        /\ ~ph => p \in DOMAIN body' /\ body'[p] = LLOf(to)
        /\ ph => p \notin DOMAIN body'
    <2>1. CASE ph
      <3>1. body' = body
        BY <1>6, <2>1
      <3> QED
        BY <1>2, <1>7, <2>1, <3>1
    <2>2. CASE ~ph
      <3>1. body' = SetBody(body, p, to)
        BY <1>6, <2>2
      <3> QED
        BY <1>2, <1>7, <2>2, <3>1, BodySet
    <2> QED
      BY <2>1, <2>2
  <1>9. Grows(p) /\ Ids' = Ids /\ p \in 0..Len(types')
    <2>1. Changed(p)
      BY <1>5 DEF Changed
    <2> QED
      BY <1>1, <1>2, <1>5, <1>6, <1>8, <2>1, ChangeGrows
  <1>10. Shaped(p)'
    <2>1. types'[p].name \in 0..Len(types')
      BY <1>1, <1>5, <1>9 DEF Shaped, Grows
    <2>2. types'[p].ph \in BOOLEAN
      BY <1>5
    <2> QED
      BY <1>1, <1>2, <1>3, <1>5, <1>9, <2>1, <2>2 DEF Shaped
  <1>11. types'[p].ph => Waiting(p)'
    BY <1>2, <1>5, <1>8 DEF Waiting, LLOpaque
  <1>12. ASSUME ~types'[p].ph PROVE Complete(p)'
    <2>1. ~ph
      BY <1>5, <1>12
    <2>2. Awaited(to)' = {} /\ LLOf(to)' = LLOf(to)
      BY <1>3, <1>9, <2>1, PartsKept
    <2>3. types'[p].ll = Built(p)'
      BY <1>2, <1>3, <1>5 DEF Built
    <2> QED
      BY <1>2, <1>3, <1>5, <1>8, <2>1, <2>2, <2>3 DEF Complete
  <1>13. \A r \in placeholderRefs' \ placeholderRefs :
            r \in Ids' \X Ids' /\ r[1] \in Range(types'[r[2]].to)
    <2>1. Awaited(to) \subseteq Range(to) /\ Range(to) \subseteq Ids
      BY <1>3, RangeOfList DEF Awaited
    <2> QED
      BY <1>1, <1>5, <1>6, <1>9, <2>1
  <1>14. work' = work \/ (work' \in Seq([of : Nat, left : SUBSET Nat]) /\ CallsFit(work)')
    <2>1. Ids \subseteq Nat
      BY <1>9 DEF Grows
    <2> QED
      BY <1>1, <1>5, <1>6, <1>9, <2>1, FirstCall
  <1>15. HeapInv'
    BY <1>3, <1>4, <1>5, <1>6, <1>8, <1>9, <1>10, <1>11, <1>12, <1>13, <1>14, HeapStep
  <1>16. Makes(p)
    <2>1. p \notin Range(to)
      <3>1. \A f \in Range(to) : f \in Ids /\ p \notin Within(f, {"StructT", "ArrayT"})
        BY <1>3, RangeOfList DEF SetPlaceholderStructType
      <3> QED
        BY <3>1, NotOfItself
    <2> QED
      BY <1>1, <1>2, <1>3, <1>4, <1>5, <1>9, <2>1 DEF Makes
  <1> QED
    BY <1>15, <1>16 DEF Made

-----------------------------------------------------------------------------
(* postProcessResolvedPlaceholder.                                          *)

\* The call that is active.
LEMMA TopFits ==
  ASSUME HeapInv, work # <<>>, NEW u \in Top.left
  PROVE  /\ Len(work) \in 1..Len(work) /\ Top = work[Len(work)]
         /\ Top.of \in Ids /\ ~types[Top.of].ph /\ u \in Ids
         /\ <<Top.of, u>> \in placeholderRefs /\ Top.of \in Range(types[u].to)
PROOF
  <1>1. Len(work) \in 1..Len(work)
    BY LenProperties, EmptySeq DEF HeapInv
  <1>2. /\ Top.of \in Ids /\ ~types[Top.of].ph /\ u \in Ids
        /\ <<Top.of, u>> \in placeholderRefs
    BY <1>1 DEF HeapInv, CallsFit, Top
  <1>3. Top.of \in Range(types[u].to)
    BY <1>2 DEF HeapInv
  <1> QED
    BY <1>1, <1>2, <1>3 DEF Top

\* The calls but for the visit that is made.
LEMMA VisitedFits ==
  ASSUME HeapInv, work # <<>>, NEW u
  PROVE  /\ Visited(u) \in Seq([of : Nat, left : SUBSET Nat])
         /\ CallsFit(Visited(u))
PROOF
  <1> DEFINE w == Visited(u)
  <1>1. Len(work) \in 1..Len(work) /\ work \in Seq([of : Nat, left : SUBSET Nat])
    BY LenProperties, EmptySeq DEF HeapInv
  <1> DEFINE c == [work[Len(work)] EXCEPT !.left = @ \ {u}]
  <1>2. work[Len(work)] \in [of : Nat, left : SUBSET Nat]
    BY <1>1, ElementOfSeq
  <1>3. /\ c \in [of : Nat, left : SUBSET Nat]
        /\ c.of = work[Len(work)].of /\ c.left \subseteq work[Len(work)].left
    BY <1>2
  <1>4. w = [work EXCEPT ![Len(work)] = c]
    BY DEF Visited
  <1> HIDE DEF c, w
  <1>5. w \in Seq([of : Nat, left : SUBSET Nat]) /\ Len(w) = Len(work)
        /\ \A i \in 1..Len(work) : w[i] = IF i = Len(work) THEN c ELSE work[i]
    BY <1>1, <1>3, <1>4, ExceptSeq
  <1>6. CallsFit(work)
    BY DEF HeapInv
  <1>7. CallsFit(w)
    BY <1>1, <1>3, <1>5, <1>6 DEF CallsFit
  <1> QED
    BY <1>5, <1>7 DEF w

\* A type that has been visited is complete, and those that wait for it are next.
LEMMA CalledFits ==
  ASSUME HeapInv, work # <<>>, NEW u \in Ids, Grows(u), Ids' = Ids, ~types'[u].ph,
         UNCHANGED placeholderRefs, work' = Append(Visited(u), CallFor(u))
  PROVE  work' \in Seq([of : Nat, left : SUBSET Nat]) /\ CallsFit(work)'
PROOF
  <1> DEFINE w == Visited(u)
  <1>1. w \in Seq([of : Nat, left : SUBSET Nat]) /\ CallsFit(w)
    BY VisitedFits
  <1> DEFINE c == CallFor(u)
  <1>2. Ids \subseteq Nat
    BY DEF Grows
  <1>3. /\ c \in [of : Nat, left : SUBSET Nat] /\ c.of = u /\ c.left \subseteq Ids
        /\ \A v \in c.left : <<u, v>> \in placeholderRefs
    BY <1>2 DEF CallFor, Call, Users
  <1>4. work' = Append(w, c)
    OBVIOUS
  <1> HIDE DEF w, c
  <1>5. /\ work' \in Seq([of : Nat, left : SUBSET Nat]) /\ Len(work') = Len(w) + 1
        /\ Len(w) \in Nat
        /\ \A i \in 1..Len(w) : work'[i] = w[i]
        /\ work'[Len(w) + 1] = c
    BY <1>1, <1>3, <1>4, AppendProperties, LenProperties
  <1>6. ASSUME NEW i \in 1..Len(work')
        PROVE  /\ work'[i].of \in Ids' /\ ~types'[work'[i].of].ph
               /\ work'[i].left \subseteq Ids'
               /\ \A v \in work'[i].left : <<work'[i].of, v>> \in placeholderRefs'
    <2>1. CASE i \in 1..Len(w)
      <3>1. /\ w[i].of \in Ids /\ ~types[w[i].of].ph /\ w[i].left \subseteq Ids
            /\ \A v \in w[i].left : <<w[i].of, v>> \in placeholderRefs
        BY <1>1, <2>1 DEF CallsFit
      <3>2. ~types'[w[i].of].ph
        BY <3>1 DEF Grows
      <3> QED
        BY <1>5, <2>1, <3>1, <3>2
    <2>2. CASE i = Len(w) + 1
      BY <1>3, <1>5, <2>2
    <2> QED
      BY <1>5, <2>1, <2>2
  <1> QED
    BY <1>5, <1>6 DEF CallsFit

\* The visit to a struct, when none of its fields is waited for any more.
LEMMA VisitStructKeepsHeap ==
  ASSUME TableInv, HeapInv, NEW u \in Ids, VisitStruct(u)
  PROVE  HeapInv' /\ Made
PROOF
  <1>1. /\ work # <<>> /\ ~aborted /\ u \in Top.left /\ types[u].flavor = "StructT"
        /\ types[u].ph /\ StillAwaited(u, Top.of) = {}
        /\ body' = SetBody(body, types[u].ll[2], types[u].to)
        /\ aborted' = (types[u].ll[2] \in DOMAIN body)
        /\ types' = [types EXCEPT ![u].ph = FALSE]
        /\ work' = Append(Visited(u), CallFor(u))
        /\ UNCHANGED <<placeholderRefs, placeholders>>
    BY DEF VisitStruct, Skipped
  <1>2. IsBtype(types[u]) /\ Shaped(u) /\ Waiting(u)
    BY <1>1 DEF TableInv, HeapInv
  <1>3. types[u].ll = LLOpaque(u) /\ u \notin DOMAIN body
        /\ types[u].ll[1] = "struct" /\ types[u].ll[2] = u
    BY <1>1, <1>2 DEF Waiting, LLOpaque
  <1>4. PICK to \in Seq(Ids) : to = types[u].to
    BY <1>2 DEF Shaped
  <1>5. Awaited(to) = {} /\ to # <<>>
    <2>1. ~types[Top.of].ph /\ Top.of \in Range(types[u].to)
      BY <1>1, TopFits
    <2>2. Top.of \notin Awaited(to)
      BY <2>1 DEF Awaited, UnresolvedPlaceholder
    <2> QED
      BY <1>1, <1>4, <2>1, <2>2, RangeOfList DEF StillAwaited
  <1>6. /\ types' = [types EXCEPT ![u] = types'[u]]
        /\ IsBtype(types'[u]) /\ types'[u].to = to /\ types'[u].ll = types[u].ll
        /\ types'[u].name = types[u].name /\ types'[u].flavor = types[u].flavor
        /\ types'[u].ph = FALSE
    BY <1>1, <1>2, <1>4 DEF IsBtype, Ids
  <1>7. /\ DOMAIN body' = DOMAIN body \cup {u} /\ body'[u] = LLOf(to)
        /\ \A s \in DOMAIN body : body'[s] = body[s]
        /\ body' = [s \in DOMAIN body' |-> body'[s]]
    <2>1. body = [s \in DOMAIN body |-> body[s]]
      BY DEF HeapInv
    <2> QED
      BY <1>1, <1>3, <1>4, <2>1, BodySet
  <1>8. Grows(u) /\ Ids' = Ids /\ u \in 0..Len(types')
    <2>1. Changed(u)
      BY <1>6 DEF Changed
    <2> QED
      BY <1>1, <1>4, <1>6, <1>7, <2>1, ChangeGrows
  <1>9. Shaped(u)'
    <2>1. types'[u].name \in 0..Len(types')
      BY <1>2, <1>6, <1>8 DEF Shaped, Grows
    <2> QED
      BY <1>1, <1>2, <1>4, <1>6, <1>8, <2>1 DEF Shaped
  <1>10. Complete(u)'
    <2>1. Awaited(to)' = {} /\ LLOf(to)' = LLOf(to)
      BY <1>4, <1>5, <1>8, PartsKept
    <2>2. types'[u].ll = Built(u)'
      BY <1>1, <1>3, <1>6 DEF Built
    <2> QED
      BY <1>1, <1>3, <1>6, <1>7, <2>1, <2>2 DEF Complete
  <1>11. work' \in Seq([of : Nat, left : SUBSET Nat]) /\ CallsFit(work)'
    BY <1>1, <1>6, <1>8, CalledFits
  <1>12. ~aborted'
    BY <1>1, <1>3
  <1>13. HeapInv'
    BY <1>1, <1>5, <1>6, <1>7, <1>8, <1>9, <1>10, <1>11, <1>12, HeapStep
  <1>14. Makes(u)
    BY <1>1, <1>4, <1>6, <1>8 DEF Makes
  <1> QED
    BY <1>13, <1>14 DEF Made

\* The visit to another type, when a type it waits for is complete.
LEMMA VisitOtherKeepsHeap ==
  ASSUME TableInv, HeapInv, NEW u \in Ids, VisitOther(u)
  PROVE  HeapInv' /\ Made
PROOF
  <1> DEFINE ll == ResolvedLL(u, Top.of)
  <1>1. /\ work # <<>> /\ ~aborted /\ u \in Top.left /\ types[u].flavor # "StructT"
        /\ types[u].ph
        /\ types' = [types EXCEPT ![u].ll = ll, ![u].ph = FALSE]
        /\ work' = Append(Visited(u), CallFor(u))
        /\ UNCHANGED <<placeholderRefs, placeholders, body, aborted>>
    BY DEF VisitOther, Skipped
  <1>2. IsBtype(types[u]) /\ Shaped(u) /\ Waiting(u)
    BY <1>1 DEF TableInv, HeapInv
  <1>3. PICK to \in Seq(Ids) : to = types[u].to
    BY <1>2 DEF Shaped
  <1>4. PICK t : t = Top.of
    OBVIOUS
  <1>5. /\ t \in Ids /\ ~types[t].ph /\ <<t, u>> \in placeholderRefs /\ t \in Range(to)
        /\ to # <<>> /\ t # u
    <2>1. /\ t \in Ids /\ ~types[t].ph /\ <<t, u>> \in placeholderRefs /\ t \in Range(to)
      BY <1>1, <1>3, <1>4, TopFits
    <2> QED
      BY <1>1, <1>3, <2>1, RangeOfList
  <1> HIDE DEF ll
  <1>6. /\ types' = [types EXCEPT ![u] = types'[u]]
        /\ IsBtype(types'[u]) /\ types'[u].to = to /\ types'[u].ll = ll
        /\ types'[u].name = types[u].name /\ types'[u].flavor = types[u].flavor
        /\ types'[u].ph = FALSE
    BY <1>1, <1>2, <1>3 DEF IsBtype, Ids
  <1>7. Grows(u) /\ Ids' = Ids /\ u \in 0..Len(types')
    <2>1. Changed(u)
      BY <1>6 DEF Changed
    <2>2. UnresolvedPlaceholder(u)
      BY <1>1 DEF UnresolvedPlaceholder
    <2> QED
      BY <1>1, <1>3, <1>6, <2>1, <2>2, ChangeGrows
  <1>8. Shaped(u)'
    <2>1. types'[u].name \in 0..Len(types')
      BY <1>2, <1>6, <1>7 DEF Shaped, Grows
    <2> QED
      BY <1>1, <1>2, <1>3, <1>5, <1>6, <1>7, <2>1 DEF Shaped
  <1>9. types'[t] = types[t] /\ types[u].flavor \in {"PointerT", "ArrayT", "FunctionT"}
    BY <1>1, <1>2, <1>5, <1>7 DEF Grows, Shaped, Flavors
  <1>10. ASSUME types[u].flavor \in {"PointerT", "ArrayT"}
         PROVE  Complete(u)'
    <2>1. Len(to) = 1
      BY <1>2, <1>3, <1>5, <1>10 DEF Shaped
    <2>2. to[1] = t /\ Range(to) = {t}
      BY <1>5, <2>1, RangeOfList
    <2>3. Awaited(to) = {}
      BY <1>5, <2>2 DEF Awaited, UnresolvedPlaceholder
    <2>4. Awaited(to)' = {}
      BY <1>3, <1>7, <2>3, PartsKept
    <2>5. ll = IF types[u].flavor = "PointerT" THEN LLPtr(types[t].ll) ELSE LLArray(types[t].ll)
      BY <1>4, <1>10 DEF ll, ResolvedLL
    <2>6. types'[u].ll = Built(u)'
      BY <1>6, <1>9, <1>10, <2>2, <2>5 DEF Built
    <2> QED
      BY <1>6, <1>10, <2>4, <2>6 DEF Complete
  <1>11. ASSUME types[u].flavor = "FunctionT"
         PROVE  Complete(u)'
    <2>1. ll = LLFunction(LLOf(to))
      BY <1>3, <1>11 DEF ll, ResolvedLL
    <2>2. CASE Awaited(to) = {}
      <3>1. Awaited(to)' = {} /\ LLOf(to)' = LLOf(to)
        BY <1>3, <1>7, <2>2, PartsKept
      <3>2. types'[u].ll = Built(u)'
        BY <1>6, <1>11, <2>1, <3>1 DEF Built
      <3> QED
        BY <1>6, <1>11, <3>1, <3>2 DEF Complete
    <2>3. CASE Awaited(to) # {}
      <3>1. PICK x \in Awaited(to) : TRUE
        BY <2>3
      <3>2. x \in Ids /\ x # t /\ <<x, u>> \in placeholderRefs
        <4>1. x \in Ids /\ x # t
          BY <1>3, <1>5, <3>1, RangeOfList DEF Awaited, UnresolvedPlaceholder
        <4>2. Awaited(to) \X {u} \subseteq placeholderRefs
          BY <1>2, <1>3, <1>11 DEF Waiting
        <4> QED
          BY <3>1, <4>1, <4>2
      <3>3. {<<x, u>>, <<t, u>>} \subseteq placeholderRefs'
        BY <1>1, <1>5, <3>2
      <3>4. CompletedEarly(u)'
        <4>1. /\ types'[u].flavor = "FunctionT" /\ ~types'[u].ph
              /\ \E y, z \in Ids' : y # z /\ {<<y, u>>, <<z, u>>} \subseteq placeholderRefs'
          BY <1>5, <1>6, <1>7, <1>11, <3>2, <3>3
        <4> QED
          BY <1>7, <4>1 DEF CompletedEarly
      <3> QED
        BY <1>6, <1>11, <3>4 DEF Complete
    <2> QED
      BY <2>2, <2>3
  <1>12. Complete(u)'
    BY <1>9, <1>10, <1>11
  <1>13. work' \in Seq([of : Nat, left : SUBSET Nat]) /\ CallsFit(work)'
    BY <1>1, <1>6, <1>7, CalledFits
  <1>14. body' = [s \in DOMAIN body' |-> body'[s]]
    BY <1>1 DEF HeapInv
  <1>15. /\ DOMAIN body \subseteq DOMAIN body' /\ ~aborted' /\ ~types'[u].ph
         /\ placeholders' \subseteq placeholders \cup {u} /\ types'[u].to # <<>>
         /\ placeholderRefs' \ placeholderRefs = {}
    BY <1>1, <1>5, <1>6
  <1>16. HeapInv'
    BY <1>7, <1>8, <1>12, <1>13, <1>14, <1>15, HeapStep
  <1>17. Makes(u)
    BY <1>1, <1>3, <1>6, <1>7 DEF Makes
  <1> QED
    BY <1>16, <1>17 DEF Made

\* A visit to a type that is complete or waits for more, and the end of a call.
LEMMA ReturnsKeepHeap ==
  ASSUME HeapInv, NEW u, VisitSkipped(u) \/ Return
  PROVE  HeapInv' /\ Made
PROOF
  <1>1. /\ work # <<>> /\ UNCHANGED <<types, placeholderRefs, placeholders, body, aborted>>
        /\ work' = Visited(u) \/ work' = SubSeq(work, 1, Len(work) - 1)
    BY DEF VisitSkipped, Return, tables
  <1>2. Len(work) \in 1..Len(work) /\ work \in Seq([of : Nat, left : SUBSET Nat])
        /\ CallsFit(work)
    <2>1. work \in Seq([of : Nat, left : SUBSET Nat]) /\ CallsFit(work)
      BY DEF HeapInv
    <2> QED
      BY <1>1, <2>1, LenProperties, EmptySeq
  <1>3. CASE work' = Visited(u)
    BY <1>1, <1>3, VisitedFits, HeapStays DEF Made
  <1>4. CASE work' = SubSeq(work, 1, Len(work) - 1)
    <2> DEFINE w == SubSeq(work, 1, Len(work) - 1)
    <2>1. /\ w \in Seq([of : Nat, left : SUBSET Nat]) /\ Len(w) = Len(work) - 1
          /\ \A i \in 1..Len(w) : w[i] = work[i]
      <3>1. Len(work) - 1 \in 0..Len(work) /\ \A i \in 1..(Len(work) - 1) : i \in 1..Len(work)
        BY <1>2
      <3>2. \A i \in 1..(Len(work) - 1) : work[i] \in [of : Nat, left : SUBSET Nat]
        BY <1>2, <3>1, ElementOfSeq
      <3> DEFINE S == [of : Nat, left : SUBSET Nat]
      <3> DEFINE m == Len(work) - 1
      <3>3. m \in Nat /\ \A i \in 1..m : work[i] \in S
        BY <1>2, <3>2
      <3> HIDE DEF S, m
      <3>4. /\ SubSeq(work, 1, m) \in Seq(S)
            /\ Len(SubSeq(work, 1, m)) = IF 1 <= m THEN m - 1 + 1 ELSE 0
            /\ \A i \in 1..(m - 1 + 1) : SubSeq(work, 1, m)[i] = work[1 + i - 1]
        BY <3>3, SubSeqProperties
      <3>5. Len(SubSeq(work, 1, m)) = m /\ \A i \in 1..m : SubSeq(work, 1, m)[i] = work[i]
        BY <3>3, <3>4
      <3> QED
        BY <3>4, <3>5 DEF S, m
    <2> HIDE DEF w
    <2>2. CallsFit(w)
      <3>1. \A i \in 1..Len(w) : i \in 1..Len(work) /\ w[i] = work[i]
        BY <1>2, <2>1
      <3> QED
        BY <1>2, <3>1 DEF CallsFit
    <2>3. work' = w
      BY <1>4 DEF w
    <2> QED
      BY <1>1, <2>1, <2>2, <2>3, HeapStays DEF Made
  <1> QED
    BY <1>1, <1>3, <1>4

LEMMA HeapInit ==
  ASSUME TypeInit
  PROVE  HeapInv
PROOF
  <1> DEFINE b == Btype("IntegerT", 0, LLInt, FALSE, <<>>)
  <1>1. b.flavor = "IntegerT" /\ b.name = 0 /\ b.ph = FALSE /\ b.to = <<>> /\ b.ll = LLInt
    BY DEF Btype
  <1>2. types = <<b>>
    BY DEF TypeInit
  <1> HIDE DEF b
  <1>3. Len(types) = 1 /\ Ids = {1} /\ types[1] = b
    BY <1>2 DEF Ids
  <1>4. Shaped(1)
    <2>1. b.to \in Seq(Ids) /\ 0 \in 0..Len(types) /\ "IntegerT" \in Flavors
      BY <1>1, <1>3 DEF Flavors
    <2> QED
      BY <1>1, <1>3, <2>1 DEF Shaped
  <1>5. Awaited(types[1].to) = {}
    <2>1. types[1].to \in Seq(Ids) /\ types[1].to = <<>>
      BY <1>1, <1>3, <1>4 DEF Shaped
    <2>2. Range(types[1].to) = {}
      BY <2>1, RangeOfList
    <2> QED
      BY <2>2 DEF Awaited
  <1>6. Complete(1)
    BY <1>1, <1>3, <1>5 DEF Complete, Built
  <1>7. /\ placeholderRefs = {} /\ placeholders = {} /\ work = <<>> /\ ~aborted
        /\ body = [s \in {} |-> <<>>]
    BY DEF TypeInit
  <1>8. body = [s \in DOMAIN body |-> body[s]] /\ DOMAIN body = {}
    BY <1>7
  <1>9. work \in Seq([of : Nat, left : SUBSET Nat]) /\ CallsFit(work)
    BY <1>7 DEF CallsFit
  <1> QED
    BY <1>1, <1>3, <1>4, <1>6, <1>7, <1>8, <1>9 DEF HeapInv

LEMMA HeapInvStep ==
  ASSUME TableInv, HeapInv, [TypeNext]_typeVars
  PROVE  HeapInv' /\ Made
PROOF
  <1>1. CASE UNCHANGED typeVars
    BY <1>1, HeapStays DEF typeVars, Made
  <1>2. CASE TypeStep
    <2>0. placeholders \subseteq Ids
      BY DEF TableInv
    <2>1. CASE \/ \E t \in Ids : PointerType(t) \/ ArrayType(t)
               \/ \E to \in Fields : StructType(to) \/ FunctionType(to)
      BY <2>1, InternsKeepHeap
    <2>2. CASE \/ \E t \in Ids : NamedType(t)
               \/ \E p \in placeholders : CircularPointerType(p)
               \/ PlaceholderPointerType \/ PlaceholderStructType \/ PlaceholderArrayType
      BY <2>2, AddsKeepHeap
    <2>3. CASE \E p \in placeholders, t \in Ids : SetPlaceholderPointerType(p, t)
      BY <2>3, SetPointerKeepsHeap
    <2>4. CASE \E p \in placeholders, t \in Ids : SetPlaceholderArrayType(p, t)
      BY <2>4, SetArrayKeepsHeap
    <2>5. CASE \E p \in placeholders, to \in Fields : SetPlaceholderStructType(p, to)
      BY <2>5, SetStructKeepsHeap
    <2>6. CASE \E u \in Ids : VisitStruct(u)
      BY <2>6, VisitStructKeepsHeap
    <2>7. CASE \E u \in Ids : VisitOther(u)
      BY <2>7, VisitOtherKeepsHeap
    <2>8. CASE (\E u \in Ids : VisitSkipped(u)) \/ Return
      BY <2>8, ReturnsKeepHeap
    <2> QED
      BY <1>2, <2>1, <2>2, <2>3, <2>4, <2>5, <2>6, <2>7, <2>8 DEF TypeStep
  <1> QED
    BY <1>1, <1>2 DEF TypeNext

LEMMA HeapImplied ==
  ASSUME HeapInv
  PROVE  ConcreteAgree
PROOF
  <1> SUFFICES ASSUME NEW t \in Ids, ~types[t].ph
               PROVE  /\ types[t].ll = Built(t) \/ Redirected(t) \/ CompletedEarly(t)
                      /\ types[t].flavor = "StructT" /\ types[t].ll[1] = "struct" =>
                           BodyOf(t) = LLOf(types[t].to)
    BY DEF ConcreteAgree, HeapInv
  <1>1. Complete(t)
    BY DEF HeapInv
  <1> QED
    BY <1>1 DEF Complete, BodyOf

\* Whatever the frontend asks for and in whatever order placeholders are completed, a
\* type that is complete has the LLVM type its parts have by then, which will not change
\* any more, and the body of a struct is set once (postProcessResolvedPlaceholder).
THEOREM ConcreteTypesAgree == TypeSpec => []ConcreteAgree
PROOF
  <1>1. TypeInit => TableInv /\ HeapInv
    BY TableInit, HeapInit
  <1>2. TableInv /\ HeapInv /\ [TypeNext]_typeVars => TableInv' /\ HeapInv'
    BY TableInvStep, HeapInvStep
  <1>3. HeapInv => ConcreteAgree
    BY HeapImplied
  <1> QED
    BY <1>1, <1>2, <1>3, PTL DEF TypeSpec

-----------------------------------------------------------------------------
(* What placeholders wait for.                                              *)

\* A type that waits for another is noted with it; this is how it will be visited.
RefsFull(t) == Awaited(types[t].to) \X {t} \subseteq placeholderRefs

\* A type whose completion is still to come: the frontend has not set it, it waits for a
\* type that is still a placeholder, or a call that is active is to visit it.
Pending(t) ==
  \/ t \in placeholders /\ types[t].to = <<>>
  \/ \E x \in Ids : UnresolvedPlaceholder(x) /\ <<x, t>> \in placeholderRefs
  \/ \E i \in 1..Len(work) : t \in work[i].left

\* Pointers and functions alone make no cycle: among any of them is one that leads to none
\* of them.
HasEnd(h, A) ==
  (\A a \in A : h[a].flavor \in {"PointerT", "FunctionT"}) =>
     \E a \in A : Range(h[a].to) \cap A = {}

ForgetInv ==
  /\ \A t \in Ids : types[t].ph => RefsFull(t) /\ Pending(t)
  /\ \A A \in SUBSET Ids : A # {} => HasEnd(types, A)

\* The types that wait for one of X.
Waits(X) == {w \in Ids : UnresolvedPlaceholder(w) /\ \E u \in X : <<w, u>> \in placeholderRefs}

IsUp(f, t) ==
  f = [d \in Nat |->
        LET below == IF d = 0 THEN {t} ELSE f[d - 1] IN
        (IF d = 0 THEN {} ELSE below) \cup
        {w \in Ids : UnresolvedPlaceholder(w) /\ \E u \in below : <<w, u>> \in placeholderRefs}]
\* What AwaitedBy collects.
LEMMA AwaitedByCollects ==
  ASSUME TableInv, NEW t
  PROVE  \E f : /\ Collects(f, Ids, Waits({t}), [X \in SUBSET Ids |-> Waits(X)])
                /\ AwaitedBy(t) = f[Len(types)]
PROOF
  <1> DEFINE step == [X \in SUBSET Ids |-> Waits(X)]
             grow == [X \in SUBSET Ids |-> X \cup Waits(X)]
             first == Waits({t})
  <1>1. /\ \A X : Waits(X) \in SUBSET Ids
        /\ step \in [SUBSET Ids -> SUBSET Ids] /\ grow \in [SUBSET Ids -> SUBSET Ids]
        /\ first \in SUBSET Ids
    BY DEF Waits
  <1>2. \E f : IsUp(f, t)
    <2>0. PICK f \in [Nat -> SUBSET Ids] : Repeats(f, first, grow)
      <3> HIDE DEF grow, first
      <3> QED
        BY <1>1, NatRecursion
    <2>1. f = [d \in Nat |-> IF d = 0 THEN first ELSE grow[f[d - 1]]]
      BY <2>0 DEF Repeats
    <2> DEFINE up == [d \in Nat |->
                       LET below == IF d = 0 THEN {t} ELSE f[d - 1] IN
                       (IF d = 0 THEN {} ELSE below) \cup
                       {w \in Ids : UnresolvedPlaceholder(w)
                                      /\ \E u \in below : <<w, u>> \in placeholderRefs}]
    <2>2. ASSUME NEW d \in Nat PROVE f[d] = up[d]
      <3>1. CASE d = 0
        <4>1. f[d] = Waits({t})
          BY <2>1, <3>1
        <4>2. up[d] = {} \cup {w \in Ids : UnresolvedPlaceholder(w)
                                      /\ \E u \in {t} : <<w, u>> \in placeholderRefs}
          BY <3>1
        <4> QED
          BY <4>1, <4>2 DEF Waits
      <3>2. CASE d # 0
        <4>1. PICK e \in Nat : e = d - 1
          BY <3>2
        <4>2. f[d] = grow[f[e]] /\ f[e] \in SUBSET Ids
          BY <2>1, <3>2, <4>1
        <4>3. f[d] = f[e] \cup Waits(f[e])
          BY <4>2
        <4>4. up[d] = f[e] \cup {w \in Ids : UnresolvedPlaceholder(w)
                                      /\ \E u \in f[e] : <<w, u>> \in placeholderRefs}
          BY <3>2, <4>1
        <4> QED
          BY <4>3, <4>4 DEF Waits
      <3> QED
        BY <3>1, <3>2
    <2>3. f = up
      <3>1. f = [d \in Nat |-> f[d]] /\ up = [d \in Nat |-> up[d]]
        BY <2>1
      <3> HIDE DEF up
      <3> QED
        BY <2>2, <3>1
    <2>4. IsUp(f, t)
      BY <2>3 DEF IsUp
    <2> QED
      BY <2>4
  <1>3. PICK f : IsUp(f, t) /\ AwaitedBy(t) = f[Len(types)]
    <2>1. AwaitedBy(t) = (CHOOSE f : IsUp(f, t))[Len(types)]
      BY DEF AwaitedBy, IsUp
    <2>2. IsUp(CHOOSE f : IsUp(f, t), t)
      BY <1>2
    <2> QED
      BY <2>1, <2>2
  <1>4. f[0] = first
    <2>1. f[0] = {} \cup {w \in Ids : UnresolvedPlaceholder(w)
                                      /\ \E u \in {t} : <<w, u>> \in placeholderRefs}
      BY <1>3 DEF IsUp
    <2> QED
      BY <2>1 DEF Waits
  <1>5. \A d \in Nat : f[d + 1] = f[d] \cup Waits(f[d])
    <2> TAKE d \in Nat
    <2>1. PICK e \in Nat : e = d + 1 /\ e # 0 /\ e - 1 = d
      OBVIOUS
    <2>2. PICK X : X = f[d]
      OBVIOUS
    <2>3. f[e] = X \cup {w \in Ids : UnresolvedPlaceholder(w)
                                       /\ \E u \in X : <<w, u>> \in placeholderRefs}
      BY <1>3, <2>1, <2>2 DEF IsUp
    <2>4. f[e] = X \cup Waits(X)
      BY <2>3 DEF Waits
    <2> QED
      BY <2>1, <2>2, <2>4
  <1>6. \A d \in Nat : f[d] \in SUBSET Ids
    <2> DEFINE D == {d \in Nat : f[d] \in SUBSET Ids}
    <2>1. 0 \in D
      BY <1>1, <1>4
    <2>2. \A d \in Nat : d \in D => d + 1 \in D
      BY <1>1, <1>5
    <2> HIDE DEF D
    <2>3. Nat \subseteq D
      BY <2>1, <2>2, NatSetInduction
    <2> QED
      BY <2>3 DEF D
  <1>7. f = [d \in Nat |-> f[d]]
    BY <1>3 DEF IsUp
  <1>8. f \in [Nat -> SUBSET Ids]
    BY <1>6, <1>7
  <1>9. \A d \in Nat : f[d + 1] = f[d] \cup step[f[d]]
    BY <1>5, <1>6
  <1> HIDE DEF step, first
  <1>10. Collects(f, Ids, first, step)
    BY <1>1, <1>4, <1>8, <1>9 DEF Collects
  <1> QED
    BY <1>3, <1>10 DEF step, first

\* What a type waits for is what it waits for directly, and what that waits for.
LEMMA AwaitedByIs ==
  ASSUME TableInv, NEW t
  PROVE  /\ Waits({t}) \subseteq AwaitedBy(t)
         /\ Waits(AwaitedBy(t)) \subseteq AwaitedBy(t)
         /\ \A w \in AwaitedBy(t) : w \in Ids /\ UnresolvedPlaceholder(w)
         /\ \A w \in AwaitedBy(t) : AwaitedBy(w) \subseteq AwaitedBy(t)
PROOF
  <1> DEFINE step == [X \in SUBSET Ids |-> Waits(X)]
  <1>n. Len(types) \in Nat /\ IsFiniteSet(Ids) /\ Cardinality(Ids) <= Len(types)
    BY TypesAreFinite
  <1>w. \A X, Y : X \subseteq Y => Waits(X) \subseteq Waits(Y)
    BY DEF Waits
  <1>s. \A X \in SUBSET Ids : step[X] = Waits(X)
    OBVIOUS
  <1>c. \A v : \E f : Collects(f, Ids, Waits({v}), step) /\ AwaitedBy(v) = f[Len(types)]
    BY AwaitedByCollects
  <1> HIDE DEF step
  <1>a. ASSUME NEW v
        PROVE  /\ AwaitedBy(v) \subseteq Ids
               /\ Waits({v}) \subseteq AwaitedBy(v) /\ Waits(AwaitedBy(v)) \subseteq AwaitedBy(v)
    <2>1. PICK f : Collects(f, Ids, Waits({v}), step) /\ AwaitedBy(v) = f[Len(types)]
      BY <1>c
    <2>2. step[AwaitedBy(v)] \subseteq AwaitedBy(v) /\ Waits({v}) \subseteq AwaitedBy(v)
          /\ AwaitedBy(v) \subseteq Ids
      BY <1>n, <2>1, CollectsAll
    <2> QED
      BY <1>s, <2>2
  <1>b. ASSUME NEW v, NEW W, Waits({v}) \subseteq W, Waits(W) \subseteq W
        PROVE  AwaitedBy(v) \subseteq W
    <2>1. PICK f : Collects(f, Ids, Waits({v}), step) /\ AwaitedBy(v) = f[Len(types)]
      BY <1>c
    <2>2. \A X \in SUBSET Ids : X \subseteq W => step[X] \subseteq W
      BY <1>b, <1>s, <1>w
    <2> QED
      BY <1>b, <1>n, <2>1, <2>2, CollectsWithin
  <1>1. AwaitedBy(t) \subseteq {w \in Ids : UnresolvedPlaceholder(w)}
    <2> DEFINE W == {w \in Ids : UnresolvedPlaceholder(w)}
    <2>1. \A X : Waits(X) \subseteq W
      BY DEF Waits
    <2> HIDE DEF W
    <2>2. AwaitedBy(t) \subseteq W
      BY <1>b, <2>1
    <2> QED
      BY <2>2 DEF W
  <1>2. ASSUME NEW w \in AwaitedBy(t)
        PROVE  AwaitedBy(w) \subseteq AwaitedBy(t)
    <2>1. Waits({w}) \subseteq Waits(AwaitedBy(t))
      BY <1>w
    <2>2. Waits({w}) \subseteq AwaitedBy(t)
      BY <1>a, <2>1
    <2> QED
      BY <1>a, <1>b, <2>2
  <1> QED
    BY <1>1, <1>2, <1>a

\* A step that makes or changes one type u.
Moves(u) ==
  /\ Ids' = Ids \cup {u}
  /\ \A t \in Ids \ {u} : types'[t] = types[t]
  /\ u \in Ids => types'[u].flavor = types[u].flavor /\ (types'[u].ph => types[u].ph)
  /\ placeholderRefs \subseteq placeholderRefs' /\ placeholders \subseteq placeholders'

\* The types to be visited, but for u, still are.
VisitsKept(u) ==
  \A v \in Ids \ {u} : \A i \in 1..Len(work) :
     v \in work[i].left => \E j \in 1..Len(work') : v \in work'[j].left

\* Once u is complete, what waits for it is to be visited.
VisitsDue(u) ==
  u \in Ids /\ UnresolvedPlaceholder(u) =>
    \/ UnresolvedPlaceholder(u)'
    \/ \A v \in Ids \ {u} : <<u, v>> \in placeholderRefs =>
         \E j \in 1..Len(work') : v \in work'[j].left

\* The types that are to be waited for, of a list of old ones.
LEMMA AwaitedLess ==
  ASSUME NEW u, Moves(u), NEW to \in Seq(Ids)
  PROVE  /\ Awaited(to)' \subseteq Awaited(to)
         /\ u \notin Range(to) => Awaited(to)' = Awaited(to)
PROOF
  <1>1. Range(to) \subseteq Ids
    BY RangeOfList
  <1>2. \A t \in Ids : UnresolvedPlaceholder(t)' => UnresolvedPlaceholder(t)
    BY DEF Moves, UnresolvedPlaceholder
  <1>3. \A t \in Ids \ {u} : UnresolvedPlaceholder(t)' <=> UnresolvedPlaceholder(t)
    BY DEF Moves, UnresolvedPlaceholder
  <1> QED
    BY <1>1, <1>2, <1>3 DEF Awaited

\* A step that keeps the visits keeps every placeholder waiting.
LEMMA ForgetStep ==
  ASSUME HeapInv, ForgetInv, NEW u, Moves(u), VisitsKept(u), VisitsDue(u),
         types'[u].ph => RefsFull(u)' /\ Pending(u)',
         \A A \in SUBSET Ids' : A # {} => HasEnd(types', A)
  PROVE  ForgetInv'
PROOF
  <1>1. ASSUME NEW t \in Ids \ {u}, types'[t].ph
        PROVE  RefsFull(t)' /\ Pending(t)'
    <2>1. types'[t] = types[t] /\ RefsFull(t) /\ Pending(t) /\ t \in Ids'
      BY <1>1 DEF Moves, ForgetInv
    <2>2. PICK to \in Seq(Ids) : to = types[t].to /\ to = types'[t].to
      BY <2>1 DEF HeapInv, Shaped
    <2>3. RefsFull(t)'
      <3>1. Awaited(to)' \subseteq Awaited(to)
        BY AwaitedLess
      <3> QED
        BY <2>1, <2>2, <3>1 DEF RefsFull, Moves
    <2>4. CASE t \in placeholders /\ types[t].to = <<>>
      BY <2>1, <2>3, <2>4 DEF Pending, Moves
    <2>5. CASE \E x \in Ids : UnresolvedPlaceholder(x) /\ <<x, t>> \in placeholderRefs
      <3>1. PICK x \in Ids : UnresolvedPlaceholder(x) /\ <<x, t>> \in placeholderRefs
        BY <2>5
      <3>2. x \in Ids' /\ <<x, t>> \in placeholderRefs'
        BY <3>1 DEF Moves
      <3>3. CASE UnresolvedPlaceholder(x)'
        BY <2>3, <3>2, <3>3 DEF Pending
      <3>4. CASE ~UnresolvedPlaceholder(x)'
        <4>1. x = u
          BY <3>1, <3>4 DEF Moves, UnresolvedPlaceholder
        <4>2. \E j \in 1..Len(work') : t \in work'[j].left
          BY <3>1, <3>4, <4>1 DEF VisitsDue
        <4> QED
          BY <2>3, <4>2 DEF Pending
      <3> QED
        BY <3>3, <3>4
    <2>6. CASE \E i \in 1..Len(work) : t \in work[i].left
      <3>1. \E j \in 1..Len(work') : t \in work'[j].left
        BY <2>6 DEF VisitsKept
      <3> QED
        BY <2>3, <3>1 DEF Pending
    <2> QED
      BY <2>1, <2>4, <2>5, <2>6 DEF Pending
  <1>2. \A t \in Ids' : types'[t].ph => RefsFull(t)' /\ Pending(t)'
    BY <1>1 DEF Moves
  <1> QED
    BY <1>2 DEF ForgetInv

\* A change that points no pointer or function anywhere else makes no cycle of them.
LEMMA LeavesKept ==
  ASSUME HeapInv, ForgetInv, NEW u, Moves(u),
         u \in Ids => \/ types'[u].to = types[u].to
                      \/ types[u].flavor \notin {"PointerT", "FunctionT"},
         u \notin Ids => types'[u].to \in Seq(Ids)
  PROVE  \A A \in SUBSET Ids' : A # {} => HasEnd(types', A)
PROOF
  <1>1. \A t \in Ids : Range(types[t].to) \subseteq Ids
    BY RangeOfList DEF HeapInv, Shaped
  <1> SUFFICES ASSUME NEW A \in SUBSET Ids', A # {},
                      \A a \in A : types'[a].flavor \in {"PointerT", "FunctionT"}
               PROVE  \E a \in A : Range(types'[a].to) \cap A = {}
    BY DEF HasEnd
  <1>2. CASE u \in Ids
    <2>1. A \in SUBSET Ids /\ \A a \in A : types[a].flavor \in {"PointerT", "FunctionT"}
                                             /\ types'[a].to = types[a].to
      BY <1>2 DEF Moves
    <2>2. \E a \in A : Range(types[a].to) \cap A = {}
      BY <2>1 DEF ForgetInv, HasEnd
    <2> QED
      BY <2>1, <2>2
  <1>3. CASE u \notin Ids
    <2> DEFINE B == A \ {u}
    <2>1. B \in SUBSET Ids /\ \A a \in B : types'[a] = types[a]
      BY DEF Moves
    <2>2. Range(types'[u].to) \subseteq Ids
      BY <1>3, RangeOfList
    <2>3. CASE B = {}
      BY <1>3, <2>2, <2>3
    <2>4. CASE B # {}
      <3>1. \A a \in B : types[a].flavor \in {"PointerT", "FunctionT"}
        BY <2>1
      <3>2. PICK a \in B : Range(types[a].to) \cap B = {}
        BY <2>1, <2>4, <3>1 DEF ForgetInv, HasEnd
      <3>3. Range(types'[a].to) \cap A = {}
        BY <1>1, <1>3, <2>1, <3>2
      <3> QED
        BY <3>3
    <2> QED
      BY <2>3, <2>4
  <1> QED
    BY <1>2, <1>3

\* A step that changes no type and drops no visit but one of u.
LEMMA ForgetStays ==
  ASSUME ForgetInv, UNCHANGED <<types, placeholderRefs, placeholders>>,
         \/ UNCHANGED work
         \/ \E u \in Ids : VisitsKept(u) /\ (types[u].ph => Pending(u)')
  PROVE  ForgetInv'
PROOF
  <1>1. Ids' = Ids /\ types' = types
    BY DEF Ids
  <1>2. \A t : RefsFull(t) => RefsFull(t)'
    <2>1. \A to : Awaited(to)' = Awaited(to)
      BY DEF Awaited, UnresolvedPlaceholder, Ids
    <2> QED
      BY <2>1 DEF RefsFull
  <1>3. ASSUME NEW t \in Ids, types[t].ph PROVE Pending(t)'
    <2>1. Pending(t)
      BY <1>3 DEF ForgetInv
    <2>2. CASE UNCHANGED work
      BY <1>1, <2>1, <2>2 DEF Pending, UnresolvedPlaceholder
    <2>3. CASE \E u \in Ids : VisitsKept(u) /\ (types[u].ph => Pending(u)')
      <3>1. PICK u \in Ids : VisitsKept(u) /\ (types[u].ph => Pending(u)')
        BY <2>3
      <3>2. CASE t = u
        BY <1>3, <3>1, <3>2
      <3>3. CASE t # u
        <4>1. CASE \E i \in 1..Len(work) : t \in work[i].left
          <5>1. \E j \in 1..Len(work') : t \in work'[j].left
            BY <3>1, <3>3, <4>1 DEF VisitsKept
          <5> QED
            BY <5>1 DEF Pending
        <4>2. CASE \/ t \in placeholders /\ types[t].to = <<>>
                   \/ \E x \in Ids : UnresolvedPlaceholder(x) /\ <<x, t>> \in placeholderRefs
          BY <1>1, <4>2 DEF Pending, UnresolvedPlaceholder
        <4> QED
          BY <2>1, <4>1, <4>2 DEF Pending
      <3> QED
        BY <3>2, <3>3
    <2> QED
      BY <2>2, <2>3
  <1> QED
    BY <1>1, <1>2, <1>3 DEF ForgetInv

\* A new type: one that waits is noted with what it waits for.
LEMMA AddKeepsForget ==
  ASSUME TableInv, HeapInv, ForgetInv, NEW b, AddType(b), UNCHANGED work,
         b.to \in Seq(Ids), placeholders \subseteq placeholders',
         b.ph => Awaited(b.to) # {} \/ (b.to = <<>> /\ Len(types) + 1 \in placeholders')
  PROVE  ForgetInv'
PROOF
  <1>0. PICK n : n = Len(types) + 1
    OBVIOUS
  <1>1. /\ n \notin Ids /\ Ids' = Ids \cup {n} /\ types'[n] = b
        /\ \A t \in Ids : types'[t] = types[t]
        /\ placeholderRefs' = placeholderRefs \cup (Awaited(b.to) \X {n})
    <2>1. PICK S : types \in Seq(S)
      BY DEF TableInv
    <2>2. types' = Append(types, b)
          /\ placeholderRefs' = placeholderRefs \cup (Awaited(b.to) \X {n})
      BY <1>0 DEF AddType
    <2>3. /\ DOMAIN types' = DOMAIN types \cup {Len(types) + 1}
          /\ Len(types) + 1 \notin DOMAIN types
          /\ \A t \in DOMAIN types : types'[t] = types[t]
          /\ types'[Len(types) + 1] = b
      BY <2>1, <2>2, Appended
    <2> QED
      BY <1>0, <2>2, <2>3 DEF Ids
  <1>2. Moves(n)
    BY <1>1 DEF Moves
  <1>3. VisitsKept(n) /\ VisitsDue(n)
    BY <1>1 DEF VisitsKept, VisitsDue
  <1>4. ASSUME b.ph PROVE RefsFull(n)' /\ Pending(n)'
    <2>1. n \notin Range(b.to)
      BY <1>1, RangeOfList
    <2>2. Awaited(b.to)' = Awaited(b.to)
      BY <1>2, <2>1, AwaitedLess
    <2>3. RefsFull(n)'
      BY <1>1, <2>2 DEF RefsFull
    <2>4. CASE Awaited(b.to) # {}
      <3>1. PICK x : x \in Awaited(b.to) /\ x \in Awaited(b.to)'
        BY <2>2, <2>4
      <3>2. x \in Ids /\ UnresolvedPlaceholder(x)'
        <4>1. UnresolvedPlaceholder(x)'
          BY <3>1 DEF Awaited
        <4>2. x \in Range(b.to)
          BY <3>1 DEF Awaited
        <4> QED
          BY <4>1, <4>2, RangeOfList
      <3>3. x \in Ids' /\ <<x, n>> \in placeholderRefs'
        BY <1>1, <3>1, <3>2
      <3> QED
        BY <2>3, <3>2, <3>3 DEF Pending
    <2>5. CASE b.to = <<>> /\ n \in placeholders'
      BY <1>1, <2>3, <2>5 DEF Pending
    <2> QED
      BY <1>0, <1>4, <2>4, <2>5
  <1>5. \A A \in SUBSET Ids' : A # {} => HasEnd(types', A)
    BY <1>1, <1>2, LeavesKept
  <1> QED
    BY <1>1, <1>2, <1>3, <1>4, <1>5, ForgetStep

\* The requests that make a type.
LEMMA RequestsKeepForget ==
  ASSUME TableInv, HeapInv, ForgetInv,
         \/ \E t \in Ids : PointerType(t) \/ ArrayType(t) \/ NamedType(t)
         \/ \E to \in Fields : StructType(to) \/ FunctionType(to)
         \/ PlaceholderPointerType \/ PlaceholderStructType \/ PlaceholderArrayType
         \/ \E p \in placeholders : CircularPointerType(p)
  PROVE  ForgetInv'
PROOF
  <1>1. ASSUME UNCHANGED tables, UNCHANGED <<placeholders, work>> PROVE ForgetInv'
    BY <1>1, ForgetStays DEF tables
  <1>2. ASSUME NEW c, NEW b, Intern(c, b), UNCHANGED <<placeholders, work>>,
               b.to \in Seq(Ids), b.ph => Awaited(b.to) # {}
        PROVE  ForgetInv'
    <2>1. CASE AddType(b)
      BY <1>2, <2>1, AddKeepsForget
    <2> QED
      BY <1>1, <1>2, <2>1 DEF Intern
  <1>3. ASSUME NEW t \in Ids, NEW flavor, NEW ll, InternOver(flavor, ll, t), UnchangedButTables
        PROVE  ForgetInv'
    <2> DEFINE b == Btype(flavor, 0, ll, UnresolvedPlaceholder(t), <<t>>)
    <2>1. b.to = <<t>> /\ b.ph = UnresolvedPlaceholder(t)
      BY DEF Btype
    <2>2. Intern([b EXCEPT !.ph = types[t].ph], b)
      BY <1>3 DEF InternOver
    <2> HIDE DEF b
    <2>3. b.to \in Seq(Ids) /\ (b.ph => Awaited(b.to) # {})
      BY <2>1, OnePart
    <2>4. UNCHANGED <<placeholders, work>>
      BY <1>3 DEF UnchangedButTables
    <2> QED
      BY <1>2, <2>2, <2>3, <2>4
  <1>4. ASSUME NEW t \in Ids, PointerType(t) \/ ArrayType(t) PROVE ForgetInv'
    BY <1>3, <1>4 DEF PointerType, ArrayType
  <1>5. ASSUME NEW to \in Fields, StructType(to) PROVE ForgetInv'
    <2> DEFINE waits == Btype("StructT", 0, LLOpaque(Len(types) + 1), TRUE, to)
               literal == Btype("StructT", 0, LLLiteral(LLOf(to)), FALSE, to)
    <2>1. /\ IF Awaited(to) # {} THEN Intern(waits, waits) ELSE Intern(literal, literal)
          /\ UNCHANGED <<placeholders, work>>
      BY <1>5 DEF StructType, UnchangedButTables
    <2>2. waits.to = to /\ literal.to = to /\ ~literal.ph /\ to \in Seq(Ids)
      BY FieldsAreLists DEF Btype
    <2> HIDE DEF waits, literal
    <2> QED
      BY <1>2, <2>1, <2>2
  <1>6. ASSUME NEW to \in Fields, FunctionType(to) PROVE ForgetInv'
    <2> DEFINE cand == Btype("FunctionT", 0, LLFunction(LLOf(to)), FALSE, to)
               b == [cand EXCEPT !.ph = Awaited(to) # {}]
    <2>1. Intern(cand, b) /\ UNCHANGED <<placeholders, work>>
      BY <1>6 DEF FunctionType, UnchangedButTables
    <2>2. b.to = to /\ b.ph = (Awaited(to) # {}) /\ to \in Seq(Ids)
      BY FieldsAreLists DEF Btype
    <2> HIDE DEF cand, b
    <2> QED
      BY <1>2, <2>1, <2>2
  <1>7. ASSUME NEW t \in Ids, NamedType(t) PROVE ForgetInv'
    <2> DEFINE b == [types[t] EXCEPT !.name = Len(types) + 1]
    <2>1. AddType(b) /\ UNCHANGED <<placeholders, work>> /\ ~types[t].ph
      BY <1>7 DEF NamedType
    <2>2. IsBtype(types[t]) /\ types[t].to \in Seq(Ids)
      BY DEF TableInv, HeapInv, Shaped
    <2>3. b.to = types[t].to /\ b.ph = types[t].ph
      BY <2>2 DEF IsBtype
    <2> HIDE DEF b
    <2> QED
      BY <2>1, <2>2, <2>3, AddKeepsForget
  <1>8. ASSUME NEW request, NEW flavor, NEW ll, PlaceholderType(request, flavor, ll)
        PROVE  ForgetInv'
    <2> DEFINE b == Btype(flavor, Len(types) + 1, ll, TRUE, <<>>)
    <2>1. /\ AddType(b) /\ UNCHANGED work
          /\ placeholders' = placeholders \cup {Len(types) + 1}
      BY <1>8 DEF PlaceholderType
    <2>2. b.to = <<>>
      BY DEF Btype
    <2> HIDE DEF b
    <2>3. b.to \in Seq(Ids)
      BY <2>2
    <2> QED
      BY <2>1, <2>2, <2>3, AddKeepsForget
  <1>9. ASSUME PlaceholderPointerType \/ PlaceholderStructType \/ PlaceholderArrayType
        PROVE  ForgetInv'
    BY <1>8, <1>9 DEF PlaceholderPointerType, PlaceholderStructType, PlaceholderArrayType
  <1>10. ASSUME NEW p, CircularPointerType(p) PROVE ForgetInv'
    <2> DEFINE b == Btype("AuxT", 0, LLPtr(LLOpaque(Len(types) + 1)), FALSE, <<>>)
    <2>1. AddType(b) /\ UNCHANGED <<placeholders, work>>
      BY <1>10 DEF CircularPointerType
    <2>2. b.to = <<>> /\ ~b.ph
      BY DEF Btype
    <2> HIDE DEF b
    <2>3. b.to \in Seq(Ids)
      BY <2>2
    <2> QED
      BY <2>1, <2>2, <2>3, AddKeepsForget
  <1> QED
    BY <1>4, <1>5, <1>6, <1>7, <1>9, <1>10

\* A placeholder is set: it waits for what it is made of, or what waits for it is visited.
LEMMA SettingKeepsForget ==
  ASSUME HeapInv, ForgetInv, NEW p \in Ids, work = <<>>, Moves(p),
         NEW to \in Seq(Ids), types'[p].to = to,
         types'[p].ph => Awaited(to) # {} /\ Awaited(to) \X {p} \subseteq placeholderRefs',
         ~types'[p].ph => ~types[p].ph \/ work' = <<Call(placeholderRefs, p)>>,
         \A A \in SUBSET Ids' : A # {} => HasEnd(types', A)
  PROVE  ForgetInv'
PROOF
  <1>1. VisitsKept(p)
    BY DEF VisitsKept
  <1>2. VisitsDue(p)
    <2>1. CASE work' = <<Call(placeholderRefs, p)>>
      <3>1. Len(work') = 1 /\ work'[1].left = {u \in Ids : <<p, u>> \in placeholderRefs}
        BY <2>1 DEF Call, Users
      <3>2. \A v \in Ids \ {p} : <<p, v>> \in placeholderRefs => v \in work'[1].left
        BY <3>1
      <3>3. 1 \in 1..Len(work')
        BY <3>1
      <3> QED
        BY <3>2, <3>3 DEF VisitsDue
    <2>2. CASE types'[p].ph
      BY <2>2 DEF VisitsDue, UnresolvedPlaceholder, Moves
    <2>3. CASE ~types[p].ph
      BY <2>3 DEF VisitsDue, UnresolvedPlaceholder
    <2> QED
      BY <2>1, <2>2, <2>3
  <1>3. ASSUME types'[p].ph PROVE RefsFull(p)' /\ Pending(p)'
    <2>1. types[p].ph /\ types'[p].flavor = types[p].flavor
      BY <1>3 DEF Moves
    <2>2. \A x \in Ids : UnresolvedPlaceholder(x)' <=> UnresolvedPlaceholder(x)
      BY <1>3, <2>1 DEF Moves, UnresolvedPlaceholder
    <2>3. Range(to) \subseteq Ids
      BY RangeOfList
    <2>4. Awaited(to)' = Awaited(to)
      BY <2>2, <2>3 DEF Awaited
    <2>5. PICK x \in Awaited(to) : x \in Ids /\ UnresolvedPlaceholder(x)'
      BY <1>3, <2>2, <2>3 DEF Awaited
    <2>6. <<x, p>> \in placeholderRefs' /\ x \in Ids'
      BY <1>3, <2>5 DEF Moves
    <2> QED
      BY <1>3, <2>4, <2>5, <2>6 DEF RefsFull, Pending
  <1> QED
    BY <1>1, <1>2, <1>3, ForgetStep

\* setPlaceholderPointerType: the pointer does not lead back to itself by way of pointers
\* and functions.
LEMMA SetPointerKeepsForget ==
  ASSUME TableInv, HeapInv, ForgetInv, NEW p \in placeholders, NEW t \in Ids,
         SetPlaceholderPointerType(p, t)
  PROVE  ForgetInv'
PROOF
  <1>1. p \in Ids /\ IsBtype(types[p]) /\ work = <<>> /\ types[p].flavor = "PointerT"
        /\ (types[p].to = <<>> \/ types[p].to = <<t>>)
    BY DEF TableInv, SetPlaceholderPointerType, MaySetPointer, IsUnset, Idle
  <1>2. /\ DOMAIN types' = DOMAIN types /\ \A x \in Ids \ {p} : types'[x] = types[x]
        /\ types'[p].flavor = types[p].flavor /\ types'[p].to = <<t>>
        /\ types'[p].ph = IF UnresolvedPlaceholder(t) THEN types[p].ph ELSE FALSE
    <2>1. p \in DOMAIN types
      BY <1>1 DEF Ids
    <2>2. CASE UnresolvedPlaceholder(t)
      <3>1. types' = [types EXCEPT ![p].to = <<t>>, ![p].ll = types[t].ll]
        BY <2>2 DEF SetPlaceholderPointerType
      <3> QED
        BY <1>1, <2>1, <2>2, <3>1 DEF IsBtype, Ids
    <2>3. CASE ~UnresolvedPlaceholder(t)
      <3>1. types' = [types EXCEPT ![p].to = <<t>>, ![p].ll = types[t].ll, ![p].ph = FALSE]
        BY <2>3 DEF SetPlaceholderPointerType
      <3> QED
        BY <1>1, <2>1, <2>3, <3>1 DEF IsBtype, Ids
    <2> QED
      BY <2>2, <2>3
  <1>3. /\ UNCHANGED placeholders
        /\ IF UnresolvedPlaceholder(t) THEN placeholderRefs' = placeholderRefs \cup {<<t, p>>}
           ELSE UNCHANGED placeholderRefs /\ work' = <<Call(placeholderRefs, p)>>
    BY DEF SetPlaceholderPointerType
  <1>4. Moves(p) /\ Ids' = Ids
    BY <1>1, <1>2, <1>3 DEF Moves, Ids
  <1>5. <<t>> \in Seq(Ids) /\ Range(<<t>>) = {t}
        /\ Awaited(<<t>>) = IF UnresolvedPlaceholder(t) THEN {t} ELSE {}
    BY OnePart
  <1>6. ASSUME NEW A \in SUBSET Ids', A # {},
               \A a \in A : types'[a].flavor \in {"PointerT", "FunctionT"}
        PROVE  \E a \in A : Range(types'[a].to) \cap A = {}
    <2> DEFINE R == Within(t, {"PointerT", "FunctionT"})
               B == A \cap R
    <2>1. p \notin R
      BY DEF SetPlaceholderPointerType, MaySetPointer
    <2>2. t \in R /\ PartsOf(R, {"PointerT", "FunctionT"}) \subseteq R
      <3>1. \A v \in Ids : Range(types[v].to) \subseteq Ids
        BY RangeOfList DEF HeapInv, Shaped
      <3> QED
        BY <3>1, WithinIsClosed
    <2> HIDE DEF R
    <2>3. \A a \in A : types[a].flavor \in {"PointerT", "FunctionT"}
      BY <1>2, <1>4, <1>6
    <2>4. CASE B # {}
      <3>1. B \in SUBSET Ids /\ \A b \in B : types[b].flavor \in {"PointerT", "FunctionT"}
        BY <1>4, <2>3
      <3>2. PICK b \in B : Range(types[b].to) \cap B = {}
        BY <2>4, <3>1 DEF ForgetInv, HasEnd
      <3>3. Range(types[b].to) \subseteq R
        BY <2>2, <3>1, <3>2 DEF PartsOf
      <3>4. types'[b] = types[b]
        BY <1>2, <2>1, <3>1, <3>2
      <3> QED
        BY <3>2, <3>3, <3>4
    <2>5. CASE B = {} /\ p \in A
      BY <1>2, <1>5, <2>2, <2>5
    <2>6. CASE B = {} /\ p \notin A
      <3>1. A \in SUBSET Ids /\ \A a \in A : types'[a] = types[a]
        BY <1>2, <1>4, <2>6
      <3>2. \E a \in A : Range(types[a].to) \cap A = {}
        BY <1>6, <2>3, <3>1 DEF ForgetInv, HasEnd
      <3> QED
        BY <3>1, <3>2
    <2> QED
      BY <2>4, <2>5, <2>6
  <1>7. \A A \in SUBSET Ids' : A # {} => HasEnd(types', A)
    BY <1>6 DEF HasEnd
  <1>8. ASSUME types'[p].ph
        PROVE  Awaited(<<t>>) # {} /\ Awaited(<<t>>) \X {p} \subseteq placeholderRefs'
    <2>1. UnresolvedPlaceholder(t)
      BY <1>2, <1>8
    <2>2. <<t, p>> \in placeholderRefs' /\ Awaited(<<t>>) = {t}
      BY <1>3, <1>5, <2>1
    <2> QED
      BY <2>2
  <1>9. ~types'[p].ph => ~types[p].ph \/ work' = <<Call(placeholderRefs, p)>>
    BY <1>2, <1>3
  <1> QED
    BY <1>1, <1>2, <1>4, <1>5, <1>7, <1>8, <1>9, SettingKeepsForget

\* setPlaceholderArrayType.
LEMMA SetArrayKeepsForget ==
  ASSUME TableInv, HeapInv, ForgetInv, NEW p \in placeholders, NEW t \in Ids,
         SetPlaceholderArrayType(p, t)
  PROVE  ForgetInv'
PROOF
  <1>1. p \in Ids /\ IsBtype(types[p]) /\ work = <<>> /\ types[p].flavor = "ArrayT"
        /\ types[p].ph
    BY DEF TableInv, HeapInv, SetPlaceholderArrayType, IsUnset, Idle
  <1>2. PICK ph \in BOOLEAN : ph = UnresolvedPlaceholder(t)
    BY DEF UnresolvedPlaceholder, HeapInv, Shaped
  <1>3. /\ types' = [types EXCEPT ![p].to = <<t>>, ![p].ll = LLArray(types[t].ll), ![p].ph = ph]
        /\ placeholderRefs' = placeholderRefs \cup (Awaited(<<t>>) \X {p})
        /\ work' = IF ph THEN <<>> ELSE <<Call(placeholderRefs, p)>>
        /\ UNCHANGED placeholders
    BY <1>2 DEF SetPlaceholderArrayType
  <1>4. /\ DOMAIN types' = DOMAIN types /\ \A x \in Ids \ {p} : types'[x] = types[x]
        /\ types'[p].flavor = types[p].flavor /\ types'[p].to = <<t>> /\ types'[p].ph = ph
    BY <1>1, <1>3 DEF IsBtype, Ids
  <1>5. Moves(p)
    BY <1>1, <1>3, <1>4 DEF Moves, Ids
  <1>6. <<t>> \in Seq(Ids) /\ Awaited(<<t>>) = IF ph THEN {t} ELSE {}
    BY <1>2, OnePart
  <1>7. \A A \in SUBSET Ids' : A # {} => HasEnd(types', A)
    BY <1>1, <1>5, LeavesKept
  <1>8. types'[p].ph => Awaited(<<t>>) # {} /\ Awaited(<<t>>) \X {p} \subseteq placeholderRefs'
    BY <1>3, <1>4, <1>6
  <1>9. ~types'[p].ph => work' = <<Call(placeholderRefs, p)>>
    BY <1>3, <1>4
  <1> QED
    BY <1>1, <1>4, <1>5, <1>6, <1>7, <1>8, <1>9, SettingKeepsForget

\* setPlaceholderStructType.
LEMMA SetStructKeepsForget ==
  ASSUME TableInv, HeapInv, ForgetInv, NEW p \in placeholders, NEW to \in Fields,
         SetPlaceholderStructType(p, to)
  PROVE  ForgetInv'
PROOF
  <1>1. p \in Ids /\ IsBtype(types[p]) /\ work = <<>> /\ types[p].flavor = "StructT"
        /\ types[p].ph /\ to \in Seq(Ids) /\ UNCHANGED placeholders
    BY FieldsAreLists DEF TableInv, HeapInv, SetPlaceholderStructType, IsUnset, Idle
  <1>2. IF Awaited(to) = {}
        THEN /\ types' = [types EXCEPT ![p].to = to, ![p].ph = FALSE]
             /\ work' = <<Call(placeholderRefs, p)>> /\ UNCHANGED placeholderRefs
        ELSE /\ types' = [types EXCEPT ![p].to = to]
             /\ placeholderRefs' = placeholderRefs \cup (Awaited(to) \X {p})
    BY DEF SetPlaceholderStructType
  <1>3. /\ DOMAIN types' = DOMAIN types /\ \A x \in Ids \ {p} : types'[x] = types[x]
        /\ types'[p].flavor = types[p].flavor /\ types'[p].to = to
        /\ Awaited(to) = {} => types'[p].ph = FALSE
        /\ Awaited(to) # {} => types'[p].ph = types[p].ph
    <2>1. p \in DOMAIN types
      BY <1>1 DEF Ids
    <2>2. CASE Awaited(to) = {}
      <3>1. types' = [types EXCEPT ![p].to = to, ![p].ph = FALSE]
        BY <1>2, <2>2
      <3> QED
        BY <1>1, <2>1, <2>2, <3>1 DEF IsBtype, Ids
    <2>3. CASE Awaited(to) # {}
      <3>1. types' = [types EXCEPT ![p].to = to]
        BY <1>2, <2>3
      <3> QED
        BY <1>1, <2>1, <2>3, <3>1 DEF IsBtype, Ids
    <2> QED
      BY <2>2, <2>3
  <1>4. placeholderRefs \subseteq placeholderRefs'
    BY <1>2
  <1>5. Moves(p)
    BY <1>1, <1>3, <1>4 DEF Moves, Ids
  <1>6. \A A \in SUBSET Ids' : A # {} => HasEnd(types', A)
    BY <1>1, <1>5, LeavesKept
  <1>7. types'[p].ph => Awaited(to) # {} /\ Awaited(to) \X {p} \subseteq placeholderRefs'
    BY <1>2, <1>3
  <1>8. ~types'[p].ph => work' = <<Call(placeholderRefs, p)>>
    BY <1>1, <1>2, <1>3
  <1> QED
    BY <1>1, <1>3, <1>5, <1>6, <1>7, <1>8, SettingKeepsForget

\* The visits but for one to u.
LEMMA VisitsLeft ==
  ASSUME HeapInv, work # <<>>, NEW u
  PROVE  /\ Visited(u) \in Seq([of : Nat, left : SUBSET Nat])
         /\ Len(Visited(u)) = Len(work)
         /\ \A i \in 1..Len(work) : \A v \in work[i].left : v # u => v \in Visited(u)[i].left
PROOF
  <1> DEFINE w == Visited(u)
  <1>1. Len(work) \in 1..Len(work) /\ work \in Seq([of : Nat, left : SUBSET Nat])
    BY LenProperties, EmptySeq DEF HeapInv
  <1> DEFINE c == [work[Len(work)] EXCEPT !.left = @ \ {u}]
  <1>2. work[Len(work)] \in [of : Nat, left : SUBSET Nat]
    BY <1>1, ElementOfSeq
  <1>3. /\ c \in [of : Nat, left : SUBSET Nat] /\ c.left = work[Len(work)].left \ {u}
    BY <1>2
  <1>4. w = [work EXCEPT ![Len(work)] = c]
    BY DEF Visited
  <1> HIDE DEF c, w
  <1>5. w \in Seq([of : Nat, left : SUBSET Nat]) /\ Len(w) = Len(work)
        /\ \A i \in 1..Len(work) : w[i] = IF i = Len(work) THEN c ELSE work[i]
    BY <1>1, <1>3, <1>4, ExceptSeq
  <1>6. \A i \in 1..Len(work) : \A v \in work[i].left : v # u => v \in w[i].left
    BY <1>3, <1>5
  <1> QED
    BY <1>5, <1>6 DEF w

\* A visit that leaves a type alone: it is complete, or waits for something else.
LEMMA SkippedKeepsForget ==
  ASSUME HeapInv, ForgetInv, NEW u \in Ids, VisitSkipped(u)
  PROVE  ForgetInv'
PROOF
  <1>1. /\ work # <<>> /\ Skipped(u, Top.of) /\ work' = Visited(u)
        /\ UNCHANGED <<types, placeholderRefs, placeholders>>
    BY DEF VisitSkipped, tables
  <1>2. VisitsKept(u)
    BY <1>1, VisitsLeft DEF VisitsKept
  <1>3. ASSUME types[u].ph PROVE Pending(u)'
    <2>1. PICK x : x \in Awaited(types[u].to)
      BY <1>1, <1>3 DEF Skipped, StillAwaited
    <2>2. <<x, u>> \in placeholderRefs /\ UnresolvedPlaceholder(x)
      BY <1>3, <2>1 DEF ForgetInv, RefsFull, Awaited
    <2>3. x \in Ids
      BY <2>2 DEF HeapInv
    <2>4. x \in Ids' /\ <<x, u>> \in placeholderRefs' /\ UnresolvedPlaceholder(x)'
      BY <1>1, <2>2, <2>3 DEF Ids, UnresolvedPlaceholder
    <2> QED
      BY <2>4 DEF Pending
  <1> QED
    BY <1>1, <1>2, <1>3, ForgetStays

\* A visit that completes a type: those that wait for it are next.
LEMMA VisitKeepsForget ==
  ASSUME TableInv, HeapInv, ForgetInv, NEW u \in Ids, VisitStruct(u) \/ VisitOther(u)
  PROVE  ForgetInv'
PROOF
  <1>1. /\ work # <<>> /\ work' = Append(Visited(u), CallFor(u))
        /\ UNCHANGED <<placeholderRefs, placeholders>>
    BY DEF VisitStruct, VisitOther
  <1>2. u \in DOMAIN types /\ IsBtype(types[u])
    BY DEF TableInv, Ids
  <1>3. /\ DOMAIN types' = DOMAIN types /\ \A x \in Ids \ {u} : types'[x] = types[x]
        /\ types'[u].flavor = types[u].flavor /\ types'[u].to = types[u].to
        /\ types'[u].ph = FALSE
    <2>1. CASE VisitStruct(u)
      <3>1. types' = [types EXCEPT ![u].ph = FALSE]
        BY <2>1 DEF VisitStruct
      <3> QED
        BY <1>2, <3>1 DEF IsBtype, Ids
    <2>2. CASE VisitOther(u)
      <3>1. PICK ll : types' = [types EXCEPT ![u].ll = ll, ![u].ph = FALSE]
        BY <2>2 DEF VisitOther
      <3> QED
        BY <1>2, <3>1 DEF IsBtype, Ids
    <2> QED
      BY <2>1, <2>2
  <1>4. Moves(u)
    BY <1>1, <1>3 DEF Moves, Ids
  <1>5. /\ Len(work') = Len(work) + 1 /\ Len(work) \in Nat
        /\ \A i \in 1..Len(work) : \A v \in work[i].left : v # u => v \in work'[i].left
        /\ work'[Len(work) + 1].left = Users(placeholderRefs, u)
    <2> DEFINE w == Visited(u)
               c == CallFor(u)
               S == [of : Nat, left : SUBSET Nat]
    <2>1. w \in Seq(S) /\ Len(w) = Len(work)
          /\ \A i \in 1..Len(work) : \A v \in work[i].left : v # u => v \in w[i].left
      BY <1>1, VisitsLeft
    <2>2. Ids \subseteq Nat
      BY TypesAreFinite
    <2>3. c \in S /\ c.left = Users(placeholderRefs, u)
      BY <2>2 DEF CallFor, Call, Users
    <2>4. work' = Append(w, c)
      BY <1>1
    <2> HIDE DEF w, c, S
    <2>5. /\ Len(work') = Len(w) + 1 /\ Len(w) \in Nat
          /\ \A i \in 1..Len(w) : work'[i] = w[i]
          /\ work'[Len(w) + 1] = c
      BY <2>1, <2>3, <2>4, AppendProperties, LenProperties
    <2> QED
      BY <2>1, <2>3, <2>5
  <1>6. VisitsKept(u)
    <2>1. \A i \in 1..Len(work) : i \in 1..Len(work')
      BY <1>5
    <2> QED
      BY <1>5, <2>1 DEF VisitsKept
  <1>7. VisitsDue(u)
    <2>1. Len(work) + 1 \in 1..Len(work')
      BY <1>5
    <2>2. \A v \in Ids : <<u, v>> \in placeholderRefs => v \in work'[Len(work) + 1].left
      BY <1>5 DEF Users
    <2> QED
      BY <2>1, <2>2 DEF VisitsDue
  <1>8. \A A \in SUBSET Ids' : A # {} => HasEnd(types', A)
    BY <1>3, <1>4, LeavesKept
  <1> QED
    BY <1>3, <1>4, <1>6, <1>7, <1>8, ForgetStep

\* A call ends when nothing is left to be visited.
LEMMA ReturnKeepsForget ==
  ASSUME HeapInv, ForgetInv, Return
  PROVE  ForgetInv'
PROOF
  <1>1. /\ work # <<>> /\ Top.left = {} /\ work' = SubSeq(work, 1, Len(work) - 1)
        /\ UNCHANGED <<types, placeholderRefs, placeholders>>
    BY DEF Return, tables
  <1>2. Len(work) \in 1..Len(work) /\ work \in Seq([of : Nat, left : SUBSET Nat])
        /\ CallsFit(work) /\ Len(work) \in Nat
    <2>1. work \in Seq([of : Nat, left : SUBSET Nat]) /\ CallsFit(work)
      BY DEF HeapInv
    <2> QED
      BY <1>1, <2>1, LenProperties, EmptySeq
  <1>3. Top = work[Len(work)] /\ Top.of \in Ids /\ ~types[Top.of].ph
    BY <1>2 DEF Top, CallsFit
  <1>4. VisitsKept(Top.of)
    <2> SUFFICES ASSUME NEW v \in Ids, NEW i \in 1..Len(work), v \in work[i].left
                 PROVE  \E j \in 1..Len(work') : v \in work'[j].left
      BY DEF VisitsKept
    <2>1. i \in 1..(Len(work) - 1)
      BY <1>1, <1>2, <1>3
    <2> DEFINE m == Len(work) - 1
               S == [of : Nat, left : SUBSET Nat]
    <2>2. m \in Nat /\ i \in 1..m /\ work \in Seq(S) /\ Len(work) = m + 1
      BY <1>2, <2>1
    <2>3. \A k \in 1..m : work[k] \in S
      <3>1. \A k \in 1..m : k \in 1..Len(work)
        BY <2>2
      <3> HIDE DEF m, S
      <3> QED
        BY <2>2, <3>1, ElementOfSeq
    <2>4. work' = SubSeq(work, 1, m)
      BY <1>1
    <2> HIDE DEF S, m
    <2>5. /\ Len(SubSeq(work, 1, m)) = IF 1 <= m THEN m - 1 + 1 ELSE 0
          /\ \A k \in 1..(m - 1 + 1) : SubSeq(work, 1, m)[k] = work[1 + k - 1]
      BY <2>2, <2>3, SubSeqProperties
    <2>6. Len(work') = m /\ work'[i] = work[i]
      BY <2>2, <2>4, <2>5
    <2> QED
      BY <2>2, <2>6
  <1> QED
    BY <1>1, <1>3, <1>4, ForgetStays

LEMMA ForgetInvStep ==
  ASSUME TableInv, HeapInv, ForgetInv, [TypeNext]_typeVars
  PROVE  ForgetInv'
PROOF
  <1>1. CASE UNCHANGED typeVars
    BY <1>1, ForgetStays DEF typeVars
  <1>2. CASE TypeStep
    <2>1. CASE \/ \E t \in Ids : PointerType(t) \/ ArrayType(t) \/ NamedType(t)
               \/ \E to \in Fields : StructType(to) \/ FunctionType(to)
               \/ PlaceholderPointerType \/ PlaceholderStructType \/ PlaceholderArrayType
               \/ \E p \in placeholders : CircularPointerType(p)
      BY <2>1, RequestsKeepForget
    <2>2. CASE \E p \in placeholders, t \in Ids :
                  SetPlaceholderPointerType(p, t) \/ SetPlaceholderArrayType(p, t)
      BY <2>2, SetPointerKeepsForget, SetArrayKeepsForget
    <2>3. CASE \E p \in placeholders, to \in Fields : SetPlaceholderStructType(p, to)
      BY <2>3, SetStructKeepsForget
    <2>4. CASE \E u \in Ids : VisitSkipped(u)
      BY <2>4, SkippedKeepsForget
    <2>5. CASE \E u \in Ids : VisitStruct(u) \/ VisitOther(u)
      BY <2>5, VisitKeepsForget
    <2>6. CASE Return
      BY <2>6, ReturnKeepsForget
    <2> QED
      BY <1>2, <2>1, <2>2, <2>3, <2>4, <2>5, <2>6 DEF TypeStep
  <1> QED
    BY <1>1, <1>2 DEF TypeNext

LEMMA ForgetInit ==
  ASSUME TypeInit
  PROVE  ForgetInv
PROOF
  <1> DEFINE b == Btype("IntegerT", 0, LLInt, FALSE, <<>>)
  <1>1. b.flavor = "IntegerT" /\ b.ph = FALSE
    BY DEF Btype
  <1>2. types = <<b>>
    BY DEF TypeInit
  <1> HIDE DEF b
  <1>3. Ids = {1} /\ types[1] = b
    BY <1>2 DEF Ids
  <1> QED
    BY <1>1, <1>3 DEF ForgetInv, HasEnd

\* Of the types a type waits for, some wait for as few as possible: such a type waits for
\* types that all wait for the same ones, and so for themselves.
LEMMA SmallestAwaited ==
  ASSUME TableInv, NEW t, AwaitedBy(t) # {}
  PROVE  \E w \in AwaitedBy(t) : \A x \in AwaitedBy(w) : AwaitedBy(x) = AwaitedBy(w)
PROOF
  <1> DEFINE T == {AwaitedBy(w) : w \in AwaitedBy(t)}
             R == StrictSubsetOrdering(Ids)
             S == FiniteSubsetsOf(Ids)
  <1>1. IsWellFoundedOn(R, S) /\ S = SUBSET Ids
    BY TypesAreFinite, FS_StrictSubsetOrderingWellFounded, FS_FiniteSubsetsOfFinite
  <1>2. \A v : AwaitedBy(v) \in SUBSET Ids
    BY AwaitedByIs
  <1>3. T \subseteq S /\ T # {}
    BY <1>1, <1>2
  <1>4. PICK m \in T : \A y \in T : ~(<<y, m>> \in R)
    <2> HIDE DEF T, R, S
    <2> QED
      BY <1>1, <1>3, WFMin
  <1>5. PICK w \in AwaitedBy(t) : m = AwaitedBy(w)
    BY <1>4
  <1>6. ASSUME NEW x \in AwaitedBy(w) PROVE AwaitedBy(x) = AwaitedBy(w)
    <2>1. AwaitedBy(x) \subseteq AwaitedBy(w) /\ AwaitedBy(w) \subseteq AwaitedBy(t)
      BY AwaitedByIs
    <2>2. AwaitedBy(x) \in T
      BY <2>1
    <2>3. ~(<<AwaitedBy(x), AwaitedBy(w)>> \in R)
      BY <1>4, <1>5, <2>2
    <2> QED
      BY <1>2, <2>1, <2>3 DEF StrictSubsetOrdering
  <1> QED
    BY <1>6

\* When no call is active, what a placeholder waits for ends in one that was not set, or
\* goes around through an array.
LEMMA ForgetImplied ==
  ASSUME TableInv, HeapInv, ForgetInv
  PROVE  NoneForgotten
PROOF
  <1> SUFFICES ASSUME Idle, NEW t \in Ids, types[t].ph,
                      \A w \in {t} \cup AwaitedBy(t) : ~(w \in placeholders /\ types[w].to = <<>>)
               PROVE  \E w \in AwaitedBy(t) : types[w].flavor = "ArrayT" /\ w \in AwaitedBy(w)
    BY DEF NoneForgotten
  <1>1. ASSUME NEW w \in {t} \cup AwaitedBy(t)
        PROVE  \E x \in Ids : x \in AwaitedBy(w) /\ <<x, w>> \in placeholderRefs
    <2>1. w \in Ids /\ types[w].ph
      BY AwaitedByIs DEF UnresolvedPlaceholder
    <2>2. PICK x \in Ids : UnresolvedPlaceholder(x) /\ <<x, w>> \in placeholderRefs
      <3>1. Pending(w)
        BY <2>1 DEF ForgetInv
      <3>2. 1..Len(work) = {}
        BY DEF Idle
      <3> QED
        BY <3>1, <3>2 DEF Pending
    <2>3. x \in Waits({w})
      BY <2>2 DEF Waits
    <2> QED
      BY <2>2, <2>3, AwaitedByIs
  <1>2. PICK w \in AwaitedBy(t) : \A x \in AwaitedBy(w) : AwaitedBy(x) = AwaitedBy(w)
    <2>1. AwaitedBy(t) # {}
      BY <1>1
    <2> QED
      BY <2>1, SmallestAwaited
  <1> DEFINE A == AwaitedBy(w)
  <1>3. A \subseteq AwaitedBy(t) /\ A # {} /\ \A x \in A : AwaitedBy(x) = A
    BY <1>1, <1>2, AwaitedByIs
  <1>4. \A x \in A : x \in Ids /\ UnresolvedPlaceholder(x)
    BY AwaitedByIs
  <1> HIDE DEF A
  <1>5. ASSUME \A x \in A : types[x].flavor # "ArrayT" PROVE FALSE
    <2>1. \A x \in A : types[x].flavor \in {"PointerT", "FunctionT"}
      BY <1>4, <1>5 DEF HeapInv, Shaped, Flavors, UnresolvedPlaceholder
    <2>2. PICK a \in A : Range(types[a].to) \cap A = {}
      BY <1>3, <1>4, <2>1 DEF ForgetInv, HasEnd
    <2>3. PICK x : x \in A /\ <<x, a>> \in placeholderRefs
      BY <1>1, <1>3, <2>2
    <2>4. x \in Range(types[a].to)
      BY <2>3 DEF HeapInv
    <2> QED
      BY <2>2, <2>3, <2>4
  <1>6. PICK x \in A : types[x].flavor = "ArrayT"
    BY <1>5
  <1> QED
    BY <1>3, <1>6

\* No type is forgotten: one that is still a placeholder when nothing is being completed
\* waits for a placeholder the frontend did not set, or for an array that waits for itself
\* (addPlaceholderRefs, postProcessResolvedPlaceholder).
THEOREM NoTypeForgotten == TypeSpec => []NoneForgotten
PROOF
  <1>1. TypeInit => TableInv /\ HeapInv /\ ForgetInv
    BY TableInit, HeapInit, ForgetInit
  <1>2. TableInv /\ HeapInv /\ ForgetInv /\ [TypeNext]_typeVars
          => TableInv' /\ HeapInv' /\ ForgetInv'
    BY TableInvStep, HeapInvStep, ForgetInvStep
  <1>3. TableInv /\ HeapInv /\ ForgetInv => NoneForgotten
    BY ForgetImplied
  <1> QED
    BY <1>1, <1>2, <1>3, PTL DEF TypeSpec

-----------------------------------------------------------------------------
(* Cycles of pointer types.                                                 *)

\* What a marker is converted to is the marker, or a pointer to it.
LoadFits(m) ==
  m \in DOMAIN loadMap =>
    /\ loadMap[m] = m \/ types[loadMap[m]].to = <<m>>
    /\ loadMap[m] \in DOMAIN addrMap /\ addrMap[loadMap[m]] = m

\* The cycle that is open: its first type, not yet set, with the marker for it, and maybe
\* a second one.
Opened(p) ==
  /\ p \in DOMAIN markers /\ types[p].to = <<>>
  /\ \/ loop = <<<<p, markers[p]>>>>
     \/ \E q \in placeholders, t \in Ids :
          /\ loop = <<<<p, markers[p]>>, <<q, t>>>>
          /\ types[t].to = <<markers[p]>> /\ types[q].to = <<t>>

MarkersFit ==
  /\ DOMAIN loadMap \subseteq Ids
  /\ \A p \in DOMAIN markers :
       /\ p \in placeholders /\ types[p].flavor = "PointerT"
       /\ markers[p] \in Ids /\ types[markers[p]].flavor = "AuxT" /\ types[markers[p]].to = <<>>
       /\ LoadFits(markers[p])
       /\ \A q \in DOMAIN markers : markers[p] = markers[q] => p = q
  /\ \A m \in DOMAIN loadMap : loadMap[m] \in Ids

LoopInv ==
  /\ frontend \in Frontend
  /\ MarkersFit
  /\ loop # <<>> => \E p \in placeholders : Opened(p)

\* A step that changes no parts but of a type that has none.
PartsStay ==
  /\ Ids \subseteq Ids'
  /\ placeholders \subseteq placeholders' /\ placeholders \subseteq Ids
  /\ \A t \in Ids :
       /\ types'[t].flavor = types[t].flavor
       /\ types[t].to # <<>> \/ types[t].flavor = "AuxT" => types'[t].to = types[t].to

LEMMA MarkersStay ==
  ASSUME MarkersFit, PartsStay, UNCHANGED <<markers, loadMap, addrMap>>
  PROVE  MarkersFit'
PROOF
  <1>1. markers' = markers /\ loadMap' = loadMap /\ addrMap' = addrMap
    OBVIOUS
  <1>2. \A m \in DOMAIN loadMap : m \in Ids' /\ loadMap[m] \in Ids'
    BY DEF MarkersFit, PartsStay
  <1>3. ASSUME NEW p \in DOMAIN markers
        PROVE  /\ p \in placeholders' /\ types'[p].flavor = "PointerT"
               /\ markers[p] \in Ids' /\ types'[markers[p]].flavor = "AuxT"
               /\ types'[markers[p]].to = <<>>
               /\ LoadFits(markers[p])'
    <2>1. /\ p \in placeholders /\ p \in Ids /\ types[p].flavor = "PointerT"
          /\ markers[p] \in Ids /\ types[markers[p]].flavor = "AuxT"
          /\ types[markers[p]].to = <<>>
          /\ LoadFits(markers[p])
      BY DEF MarkersFit, PartsStay
    <2>2. /\ p \in placeholders' /\ types'[p].flavor = "PointerT"
          /\ markers[p] \in Ids' /\ types'[markers[p]].flavor = "AuxT"
          /\ types'[markers[p]].to = <<>>
      BY <2>1 DEF PartsStay
    <2>3. PICK m : m = markers[p]
      OBVIOUS
    <2>4. ASSUME m \in DOMAIN loadMap, types[loadMap[m]].to = <<m>>
          PROVE  types'[loadMap[m]].to = <<m>>
      <3>1. loadMap[m] \in Ids
        BY <2>4 DEF MarkersFit
      <3>2. types[loadMap[m]].to # <<>>
        BY <2>4
      <3> QED
        BY <2>4, <3>1, <3>2 DEF PartsStay
    <2>5. LoadFits(m)'
      BY <1>1, <2>1, <2>3, <2>4 DEF LoadFits
    <2>6. LoadFits(markers[p])'
      BY <1>1, <2>3, <2>5 DEF LoadFits
    <2> QED
      BY <2>1, <2>2, <2>6
  <1>4. \A p, q \in DOMAIN markers : markers[p] = markers[q] => p = q
    BY DEF MarkersFit
  <1> QED
    BY <1>1, <1>2, <1>3, <1>4 DEF MarkersFit

\* A cycle stays open while its first type is not set.
LEMMA LoopStays ==
  ASSUME LoopInv, PartsStay, UNCHANGED <<frontend, circular>>,
         \A t \in Ids : types[t].flavor = "PointerT" => types'[t].to = types[t].to
  PROVE  LoopInv'
PROOF
  <1>1. frontend' = frontend /\ loop' = loop /\ markers' = markers
    BY DEF circular
  <1>2. MarkersFit'
    BY MarkersStay DEF LoopInv, circular
  <1>3. ASSUME NEW p \in placeholders, Opened(p)
        PROVE  Opened(p)'
    <2>1. p \in DOMAIN markers /\ types'[p].to = <<>>
      BY <1>3 DEF Opened, LoopInv, MarkersFit, PartsStay
    <2>2. CASE loop = <<<<p, markers[p]>>>>
      BY <1>1, <2>1, <2>2 DEF Opened
    <2>3. CASE \E q \in placeholders, t \in Ids :
                 /\ loop = <<<<p, markers[p]>>, <<q, t>>>>
                 /\ types[t].to = <<markers[p]>> /\ types[q].to = <<t>>
      <3>1. PICK q \in placeholders, t \in Ids :
                 /\ loop = <<<<p, markers[p]>>, <<q, t>>>>
                 /\ types[t].to = <<markers[p]>> /\ types[q].to = <<t>>
        BY <2>3
      <3>2. types[t].to # <<>> /\ types[q].to # <<>>
        BY <3>1
      <3>3. /\ types'[t].to = types[t].to /\ types'[q].to = types[q].to
            /\ t \in Ids' /\ q \in placeholders'
        BY <3>2 DEF PartsStay
      <3> QED
        BY <1>1, <2>1, <3>1, <3>3 DEF Opened
    <2> QED
      BY <1>3, <2>2, <2>3 DEF Opened
  <1>4. loop' # <<>> => \E p \in placeholders' : Opened(p)'
    BY <1>1, <1>3 DEF LoopInv, PartsStay
  <1> QED
    BY <1>1, <1>2, <1>4 DEF LoopInv

\* The first type of the open cycle.
LEMMA OpenedFirst ==
  ASSUME LoopInv, NEW p \in placeholders, Opened(p)
  PROVE  /\ loop[1] = <<p, markers[p]>> /\ loop[1][1] = p /\ loop[1][2] = markers[p]
         /\ Len(loop) \in {1, 2} /\ loop # <<>>
         /\ Len(loop) = 1 => loop = <<<<p, markers[p]>>>>
         /\ Len(loop) = 2 => types[loop[2][2]].to = <<markers[p]>>
                              /\ types[loop[2][1]].to = <<loop[2][2]>>
                              /\ loop[2][1] \in placeholders /\ loop[2][2] \in Ids
PROOF
  <1>1. CASE loop = <<<<p, markers[p]>>>>
    BY <1>1
  <1>2. CASE \E q \in placeholders, t \in Ids :
               /\ loop = <<<<p, markers[p]>>, <<q, t>>>>
               /\ types[t].to = <<markers[p]>> /\ types[q].to = <<t>>
    <2>1. PICK q \in placeholders, t \in Ids :
               /\ loop = <<<<p, markers[p]>>, <<q, t>>>>
               /\ types[t].to = <<markers[p]>> /\ types[q].to = <<t>>
      BY <1>2
    <2> QED
      BY <2>1
  <1> QED
    BY <1>1, <1>2 DEF Opened

\* What is set before it is set again keeps its parts.
LEMMA SetPointerParts ==
  ASSUME TableInv, HeapInv, NEW p \in placeholders, NEW t \in Ids,
         SetPlaceholderPointerType(p, t)
  PROVE  /\ p \in Ids /\ types[p].flavor = "PointerT" /\ types[p].to \in {<<>>, <<t>>}
         /\ types'[p].to = <<t>> /\ types'[p].flavor = "PointerT"
         /\ Ids' = Ids /\ \A v \in Ids \ {p} : types'[v] = types[v]
PROOF
  <1>1. p \in Ids /\ IsBtype(types[p])
    BY DEF TableInv
  <1>2. types[p].flavor = "PointerT" /\ types[p].to \in {<<>>, <<t>>}
    BY DEF SetPlaceholderPointerType, MaySetPointer, IsUnset
  <1>3. \/ types' = [types EXCEPT ![p].to = <<t>>, ![p].ll = types[t].ll]
        \/ types' = [types EXCEPT ![p].to = <<t>>, ![p].ll = types[t].ll, ![p].ph = FALSE]
    BY DEF SetPlaceholderPointerType
  <1>4. types'[p].to = <<t>> /\ types'[p].flavor = "PointerT"
    BY <1>1, <1>2, <1>3 DEF IsBtype, Ids
  <1>5. Ids' = Ids /\ \A v \in Ids \ {p} : types'[v] = types[v]
    BY <1>3 DEF Ids
  <1> QED
    BY <1>1, <1>2, <1>4, <1>5

\* Appending to a one-element sequence.
LEMMA PairAppended ==
  ASSUME NEW a, NEW b
  PROVE  Append(<<a>>, b) = <<a, b>>
PROOF
  <1> DEFINE S == {a, b}
             s == <<a>>
             q == <<a, b>>
  <1>1. s \in Seq(S) /\ q \in Seq(S) /\ b \in S
    OBVIOUS
  <1>2. Len(s) = 1 /\ s[1] = a /\ Len(q) = 2 /\ q[1] = a /\ q[2] = b
    OBVIOUS
  <1> HIDE DEF S, s, q
  <1>3. /\ Append(s, b) \in Seq(S) /\ Len(Append(s, b)) = Len(s) + 1
        /\ \A i \in 1 .. Len(s) : Append(s, b)[i] = s[i]
        /\ Append(s, b)[Len(s) + 1] = b
    BY <1>1, AppendProperties
  <1>4. Len(Append(s, b)) = 2 /\ Append(s, b)[1] = a /\ Append(s, b)[2] = b
    BY <1>2, <1>3
  <1>5. \A i \in 1 .. 2 : Append(s, b)[i] = q[i]
    BY <1>2, <1>4
  <1>6. Append(s, b) = q
    BY <1>1, <1>2, <1>3, <1>4, <1>5, SeqEqual
  <1> QED
    BY <1>6 DEF s, q

\* The second cycle of a marker would need a third type, which maxCycle excludes.
LEMMA SetPointerKeepsLoop ==
  ASSUME TableInv, HeapInv, LoopInv, \A f \in Frontend : f.maxCycle <= 2, UNCHANGED frontend,
         NEW p \in placeholders, NEW t \in Ids, SetPlaceholderPointerType(p, t)
  PROVE  LoopInv'
PROOF
  <1>1. /\ p \in Ids /\ types[p].flavor = "PointerT" /\ types[p].to \in {<<>>, <<t>>}
        /\ types'[p].to = <<t>> /\ types'[p].flavor = "PointerT"
        /\ Ids' = Ids /\ \A v \in Ids \ {p} : types'[v] = types[v]
    BY SetPointerParts
  <1>2. UNCHANGED <<placeholders, markers>> /\ InCycleOrder(p, t) /\ AdvanceLoop(p, t)
    BY DEF SetPlaceholderPointerType, MaySetPointer
  <1>3. PartsStay
    BY <1>1, <1>2 DEF PartsStay, TableInv
  <1>4. ASSUME loop = <<>> PROVE LoopInv'
    <2>1. UNCHANGED <<loop, loadMap, addrMap>>
      BY <1>2, <1>4 DEF AdvanceLoop
    <2>2. MarkersFit'
      BY <1>2, <1>3, <2>1, MarkersStay DEF LoopInv
    <2> QED
      BY <1>4, <2>1, <2>2 DEF LoopInv
  <1>5. ASSUME NEW f \in placeholders, Opened(f), loop # <<>> PROVE LoopInv'
    <2>1. /\ loop[1] = <<f, markers[f]>> /\ loop[1][1] = f /\ loop[1][2] = markers[f]
          /\ Len(loop) \in {1, 2}
          /\ Len(loop) = 1 => loop = <<<<f, markers[f]>>>>
          /\ Len(loop) = 2 => types[loop[2][2]].to = <<markers[f]>>
                               /\ types[loop[2][1]].to = <<loop[2][2]>>
                               /\ loop[2][1] \in placeholders /\ loop[2][2] \in Ids
      BY <1>5, OpenedFirst
    <2>2. PICK m \in Ids : m = markers[f]
      BY <1>5 DEF Opened, LoopInv, MarkersFit
    <2>3. /\ f \in DOMAIN markers /\ types[f].to = <<>> /\ types[f].flavor = "PointerT"
          /\ types[m].flavor = "AuxT" /\ types[m].to = <<>> /\ f # m
      BY <1>5, <2>2 DEF Opened, LoopInv, MarkersFit
    <2>4. CASE p = f
      <3>1. t = m
        BY <1>2, <1>5, <2>1, <2>2, <2>4 DEF InCycleOrder
      <3>2. PICK load : load = loop[Len(loop)][2]
        OBVIOUS
      <3>3. PICK ad : ad = loop[IF Len(loop) = 1 THEN 1 ELSE 2]
        OBVIOUS
      <3>4. /\ loop' = <<>>
            /\ loadMap' = Enter(Enter(loadMap, p, load), t, load)
            /\ addrMap' = Enter(Enter(addrMap, ad[2], t), ad[1], t)
        BY <1>2, <1>5, <2>1, <2>2, <3>1, <3>2, <3>3 DEF AdvanceLoop, CloseLoop
      <3>5. /\ load \in Ids /\ load = ad[2]
            /\ load = m \/ types[load].to = <<m>>
            /\ ad[1] \in placeholders /\ (ad[1] = f \/ types[ad[1]].to = <<load>>)
        <4>1. CASE Len(loop) = 1
          BY <2>1, <2>2, <3>2, <3>3, <4>1
        <4>2. CASE Len(loop) = 2
          BY <2>1, <2>2, <3>2, <3>3, <4>2
        <4> QED
          BY <2>1, <4>1, <4>2
      <3>6. /\ DOMAIN loadMap' = DOMAIN loadMap \cup {p, m}
            /\ loadMap'[m] = load /\ loadMap'[p] = load
            /\ \A x \in DOMAIN loadMap \ {p, m} : loadMap'[x] = loadMap[x]
            /\ DOMAIN addrMap' = DOMAIN addrMap \cup {ad[1], load}
            /\ addrMap'[load] = m
            /\ \A x \in DOMAIN addrMap \ {ad[1], load} : addrMap'[x] = addrMap[x]
        BY <3>1, <3>4, <3>5 DEF Enter
      <3>7. ASSUME NEW q \in DOMAIN markers
            PROVE  LoadFits(markers[q])'
        <4>1. PICK k \in Ids : k = markers[q]
          BY DEF LoopInv, MarkersFit
        <4>2. CASE k = m
          <5>1. load = m \/ types'[load].to = <<m>>
            BY <1>1, <2>3, <2>4, <3>5
          <5> QED
            BY <1>2, <3>6, <4>1, <4>2, <5>1 DEF LoadFits
        <4>3. CASE k # m
          <5>1. types[k].flavor = "AuxT" /\ types[k].to = <<>> /\ LoadFits(k)
            BY <4>1 DEF LoopInv, MarkersFit
          <5>2. SUFFICES ASSUME k \in DOMAIN loadMap'
                         PROVE  /\ loadMap'[k] = k \/ types'[loadMap'[k]].to = <<k>>
                                /\ loadMap'[k] \in DOMAIN addrMap' /\ addrMap'[loadMap'[k]] = k
            BY <1>2, <4>1 DEF LoadFits
          <5>3. k # p /\ k \in DOMAIN loadMap /\ loadMap'[k] = loadMap[k]
            BY <1>1, <3>6, <4>3, <5>1, <5>2
          <5>4. PICK x \in Ids : x = loadMap[k]
            BY <5>3 DEF LoopInv, MarkersFit
          <5>5. (x = k \/ types[x].to = <<k>>) /\ x \in DOMAIN addrMap /\ addrMap[x] = k
            BY <5>1, <5>3, <5>4 DEF LoadFits
          <5>6. <<k>>[1] = k /\ <<m>>[1] = m /\ <<load>>[1] = load /\ <<k>> # <<>> /\ <<m>> # <<>>
                /\ <<load>> # <<>>
            OBVIOUS
          <5>7. k # load
            BY <3>5, <4>3, <5>1, <5>6
          <5>8. x # load
            BY <2>3, <3>5, <4>3, <5>5, <5>6, <5>7
          <5>9. x # f /\ x # ad[1]
            BY <2>3, <3>5, <5>1, <5>5, <5>6, <5>7
          <5>10. types'[x] = types[x]
            BY <1>1, <2>4, <5>9
          <5> QED
            BY <3>6, <5>3, <5>4, <5>5, <5>8, <5>9, <5>10
        <4> QED
          BY <4>2, <4>3
      <3>8. MarkersFit'
        <4>1. \A x \in DOMAIN loadMap' : x \in Ids' /\ loadMap'[x] \in Ids'
          BY <1>1, <2>2, <2>4, <3>5, <3>6 DEF LoopInv, MarkersFit
        <4>2. ASSUME NEW q \in DOMAIN markers
              PROVE  /\ q \in placeholders' /\ types'[q].flavor = "PointerT"
                     /\ markers[q] \in Ids' /\ types'[markers[q]].flavor = "AuxT"
                     /\ types'[markers[q]].to = <<>>
          <5>1. /\ q \in placeholders /\ q \in Ids /\ types[q].flavor = "PointerT"
                /\ markers[q] \in Ids /\ types[markers[q]].flavor = "AuxT"
                /\ types[markers[q]].to = <<>>
            BY <1>3 DEF LoopInv, MarkersFit, PartsStay
          <5> QED
            BY <1>3, <5>1 DEF PartsStay
        <4>3. \A q, r \in DOMAIN markers : markers[q] = markers[r] => q = r
          BY DEF LoopInv, MarkersFit
        <4>4. markers' = markers
          BY <1>2
        <4> QED
          BY <3>7, <4>1, <4>2, <4>3, <4>4 DEF MarkersFit
      <3> QED
        BY <3>4, <3>8 DEF LoopInv
    <2>5. CASE p # f
      <3>1. Len(loop) < frontend.maxCycle /\ frontend.maxCycle <= 2 /\ frontend.maxCycle \in Nat
        BY <1>2, <1>5, <2>1, <2>5, FrontendAssumption DEF InCycleOrder, LoopInv
      <3>2. Len(loop) = 1 /\ loop = <<<<f, m>>>>
        BY <2>1, <2>2, <3>1
      <3>3. types[t].to = <<m>>
        BY <1>2, <1>5, <2>1, <2>2, <2>5, <3>2 DEF InCycleOrder
      <3>4. t # m /\ <<m>> # <<>> /\ <<m>>[1] = m /\ <<t>>[1] = t
        <4>1. <<m>> # <<>> /\ <<m>>[1] = m /\ <<t>>[1] = t
          OBVIOUS
        <4> QED
          BY <2>3, <3>3, <4>1
      <3>5. loop' = Append(loop, <<p, t>>) /\ UNCHANGED <<loadMap, addrMap>>
        <4>1. loop[1][2] # t
          BY <2>1, <2>2, <3>4
        <4>2. loop # <<>> /\ AdvanceLoop(p, t)
          BY <1>2, <1>5
        <4> QED
          BY <4>1, <4>2, Zenon DEF AdvanceLoop
      <3>6. loop' = <<<<f, m>>, <<p, t>>>>
        <4>1. Append(<<<<f, m>>>>, <<p, t>>) = <<<<f, m>>, <<p, t>>>>
          BY PairAppended
        <4> QED
          BY <3>2, <3>5, <4>1, Zenon
      <3>7. t # p
        BY <1>1, <3>3, <3>4
      <3>8. types'[t].to = <<m>> /\ types'[f].to = <<>> /\ types'[p].to = <<t>>
        <4>1. f \in Ids
          BY <1>5 DEF TableInv
        <4> QED
          BY <1>1, <2>3, <2>5, <3>3, <3>7, <4>1
      <3>9. Opened(f)'
        BY <1>1, <1>2, <2>2, <2>3, <3>6, <3>8 DEF Opened
      <3>10. MarkersFit'
        BY <1>2, <1>3, <3>5, MarkersStay DEF LoopInv
      <3> QED
        BY <1>2, <1>5, <3>9, <3>10 DEF LoopInv
    <2> QED
      BY <2>4, <2>5
  <1> QED
    BY <1>4, <1>5 DEF LoopInv

\* circularPointerTypeMap_ gets a marker nobody has used.
LEMMA CircularKeepsLoop ==
  ASSUME TableInv, HeapInv, LoopInv, UNCHANGED frontend,
         NEW p \in placeholders, CircularPointerType(p)
  PROVE  LoopInv'
PROOF
  <1>1. PICK m : m = Len(types) + 1
    OBVIOUS
  <1> DEFINE b == Btype("AuxT", 0, LLPtr(LLOpaque(m)), FALSE, <<>>)
  <1>2. b.flavor = "AuxT" /\ b.to = <<>>
    BY DEF Btype
  <1>3. /\ AddType(b) /\ markers' = Enter(markers, p, m) /\ loop' = <<<<p, m>>>>
        /\ UNCHANGED <<placeholders, loadMap, addrMap, body>>
        /\ types[p].flavor = "PointerT" /\ types[p].to = <<>> /\ p \notin DOMAIN markers
    BY <1>1 DEF CircularPointerType, IsUnset
  <1> HIDE DEF b
  <1>4. types' = Append(types, b) /\ placeholderRefs \subseteq placeholderRefs'
    BY <1>3 DEF AddType
  <1>5. Grows(m) /\ types'[m] = b /\ m \notin Ids
    BY <1>1, <1>3, <1>4, AddGrows
  <1>6. Ids' = Ids \cup {m} /\ \A t \in Ids : types'[t] = types[t]
    BY <1>5 DEF Grows
  <1>7. placeholders \subseteq Ids
    BY DEF TableInv
  <1>8. /\ DOMAIN markers' = DOMAIN markers \cup {p} /\ markers'[p] = m
        /\ \A q \in DOMAIN markers : markers'[q] = markers[q]
    BY <1>3 DEF Enter
  <1>9. ASSUME NEW q \in DOMAIN markers
        PROVE  /\ q \in placeholders' /\ types'[q].flavor = "PointerT"
               /\ markers'[q] \in Ids /\ types'[markers'[q]].flavor = "AuxT"
               /\ types'[markers'[q]].to = <<>>
               /\ LoadFits(markers[q])'
    <2>1. PICK k \in Ids : k = markers[q] /\ k = markers'[q]
      BY <1>8 DEF LoopInv, MarkersFit
    <2>2. /\ q \in placeholders /\ types[q].flavor = "PointerT" /\ types[k].flavor = "AuxT"
          /\ types[k].to = <<>> /\ LoadFits(k)
      BY <2>1 DEF LoopInv, MarkersFit
    <2>3. k \in DOMAIN loadMap => loadMap[k] \in Ids
      BY DEF LoopInv, MarkersFit
    <2>4. LoadFits(markers[q])'
      BY <1>3, <1>6, <2>1, <2>2, <2>3 DEF LoadFits
    <2> QED
      BY <1>3, <1>6, <1>7, <2>1, <2>2, <2>4
  <1>10. LoadFits(markers[p])'
    <2>1. m \notin DOMAIN loadMap'
      BY <1>3, <1>5 DEF LoopInv, MarkersFit
    <2> QED
      BY <1>8, <2>1 DEF LoadFits
  <1>11. \A q, r \in DOMAIN markers' : markers'[q] = markers'[r] => q = r
    BY <1>5, <1>8 DEF LoopInv, MarkersFit
  <1>12. \A k \in DOMAIN loadMap' : k \in Ids' /\ loadMap'[k] \in Ids'
    BY <1>3, <1>6 DEF LoopInv, MarkersFit
  <1>13. MarkersFit'
    BY <1>2, <1>3, <1>5, <1>6, <1>7, <1>8, <1>9, <1>10, <1>11, <1>12 DEF MarkersFit
  <1>14. Opened(p)'
    BY <1>3, <1>6, <1>7, <1>8 DEF Opened
  <1> QED
    BY <1>3, <1>13, <1>14 DEF LoopInv

\* Other steps leave the cycles alone.
LEMMA OthersKeepLoop ==
  ASSUME TableInv, HeapInv, LoopInv, UNCHANGED frontend, TypeStep,
         ~ \E p \in placeholders, t \in Ids : SetPlaceholderPointerType(p, t),
         ~ \E p \in placeholders : CircularPointerType(p)
  PROVE  LoopInv'
PROOF
  <1>1. placeholders \subseteq Ids
    BY DEF TableInv
  <1> DEFINE Kept == /\ UNCHANGED circular /\ placeholders \subseteq placeholders'
                     /\ Ids \subseteq Ids'
                     /\ \A t \in Ids :
                          /\ types'[t].flavor = types[t].flavor
                          /\ \/ types'[t].to = types[t].to
                             \/ types[t].to = <<>> /\ types[t].flavor \in {"ArrayT", "StructT"}
  <1>2. Kept => LoopInv'
    BY <1>1, LoopStays DEF PartsStay
  <1>3. ASSUME NEW b, AddType(b), UNCHANGED <<circular, body>>, placeholders \subseteq placeholders'
        PROVE  Kept
    <2>1. PICK n : n = Len(types) + 1
      OBVIOUS
    <2>2. types' = Append(types, b) /\ placeholderRefs \subseteq placeholderRefs'
      BY <1>3 DEF AddType
    <2>3. Grows(n) /\ n \notin Ids
      BY <1>3, <2>1, <2>2, AddGrows
    <2> QED
      BY <1>3, <2>3 DEF Grows
  <1>4. ASSUME UNCHANGED <<types, placeholders, circular>> PROVE Kept
    BY <1>4 DEF Ids
  <1>5. ASSUME NEW c, NEW b, Intern(c, b), UnchangedButTables PROVE Kept
    BY <1>3, <1>4, <1>5 DEF Intern, UnchangedButTables, tables
  <1>6. \A t \in Ids : IsBtype(types[t])
    BY DEF TableInv
  <1> HIDE DEF Kept
  <1>7. CASE \E t \in Ids : PointerType(t) \/ ArrayType(t)
    BY <1>2, <1>5, <1>7 DEF PointerType, ArrayType, InternOver
  <1>8. CASE \E to \in Fields : StructType(to) \/ FunctionType(to)
    BY <1>2, <1>5, <1>8 DEF StructType, FunctionType
  <1>9. CASE \/ \E t \in Ids : NamedType(t)
             \/ PlaceholderPointerType \/ PlaceholderStructType \/ PlaceholderArrayType
    BY <1>2, <1>3, <1>9 DEF NamedType, PlaceholderPointerType, PlaceholderStructType,
                            PlaceholderArrayType, PlaceholderType
  <1>10. ASSUME NEW p \in placeholders, NEW t \in Ids, SetPlaceholderArrayType(p, t)
         PROVE  Kept
    <2>1. /\ p \in Ids /\ types[p].flavor = "ArrayT" /\ types[p].to = <<>>
          /\ UNCHANGED <<placeholders, circular>>
      BY <1>1, <1>10 DEF SetPlaceholderArrayType, IsUnset
    <2>2. types' = [types EXCEPT ![p].to = <<t>>, ![p].ll = LLArray(types[t].ll),
                                 ![p].ph = UnresolvedPlaceholder(t)]
      BY <1>10 DEF SetPlaceholderArrayType
    <2> QED
      BY <1>6, <2>1, <2>2 DEF Kept, Ids, IsBtype
  <1>11. ASSUME NEW p \in placeholders, NEW to \in Fields, SetPlaceholderStructType(p, to)
         PROVE  Kept
    <2>1. /\ p \in Ids /\ types[p].flavor = "StructT" /\ types[p].to = <<>>
          /\ UNCHANGED <<placeholders, circular>>
      BY <1>1, <1>11 DEF SetPlaceholderStructType, IsUnset
    <2>2. \/ types' = [types EXCEPT ![p].to = to, ![p].ph = FALSE]
          \/ types' = [types EXCEPT ![p].to = to]
      BY <1>11 DEF SetPlaceholderStructType
    <2> QED
      BY <1>6, <2>1, <2>2 DEF Kept, Ids, IsBtype
  <1>12. ASSUME NEW u \in Ids, VisitStruct(u) \/ VisitOther(u)
         PROVE  Kept
    <2>1. UNCHANGED <<placeholders, circular>>
      BY <1>12 DEF VisitStruct, VisitOther
    <2> DEFINE ll == ResolvedLL(u, Top.of)
    <2>2. \/ types' = [types EXCEPT ![u].ph = FALSE]
          \/ types' = [types EXCEPT ![u].ll = ll, ![u].ph = FALSE]
      BY <1>12 DEF VisitStruct, VisitOther
    <2> HIDE DEF ll
    <2> QED
      BY <1>6, <2>1, <2>2 DEF Kept, Ids, IsBtype
  <1>13. CASE (\E u \in Ids : VisitSkipped(u)) \/ Return
    BY <1>2, <1>4, <1>13 DEF VisitSkipped, Return, tables
  <1> QED
    BY <1>2, <1>7, <1>8, <1>9, <1>10, <1>11, <1>12, <1>13 DEF TypeStep

LEMMA LoopInvStep ==
  ASSUME TableInv, HeapInv, LoopInv, \A f \in Frontend : f.maxCycle <= 2, [TypeNext]_typeVars
  PROVE  LoopInv'
PROOF
  <1>1. CASE UNCHANGED typeVars
    <2>1. UNCHANGED <<frontend, types, placeholders, circular>>
      BY <1>1 DEF typeVars, circular
    <2>2. PartsStay /\ \A t \in Ids : types'[t].to = types[t].to
      BY <2>1 DEF PartsStay, TableInv, Ids
    <2> QED
      BY <2>1, <2>2, LoopStays
  <1>2. CASE TypeStep /\ UNCHANGED frontend
    BY <1>2, SetPointerKeepsLoop, CircularKeepsLoop, OthersKeepLoop
  <1> QED
    BY <1>1, <1>2 DEF TypeNext

\* Whatever the frontend asks for, types and the tables of the type manager only refer to
\* types that exist, no type has two owners, and if no cycle has more than two pointer types
\* then loads from cycles and addresses into them are converted back and forth
\* (circularTypeLoadConversion, circularTypeAddrConversion).
THEOREM TypesStayOK ==
  ASSUME \A f \in Frontend : f.maxCycle <= 2
  PROVE  TypeSpec => []TypesOK
PROOF
  <1> DEFINE IInv == TableInv /\ HeapInv /\ LoopInv
  <1>1. TypeInit => IInv
    <2> SUFFICES ASSUME TypeInit PROVE IInv
      OBVIOUS
    <2>1. LoopInv
      BY DEF TypeInit, LoopInv, MarkersFit
    <2> QED
      BY <2>1, TableInit, HeapInit
  <1>2. IInv /\ [TypeNext]_typeVars => IInv'
    BY TableInvStep, HeapInvStep, LoopInvStep
  <1>3. IInv => TypesOK
    <2> SUFFICES ASSUME IInv PROVE TypesOK
      OBVIOUS
    <2>1. \A t \in Ids : /\ types[t].flavor \in Flavors
                        /\ types[t].name \in 0..Len(types)
                        /\ types[t].ph \in BOOLEAN
                        /\ types[t].to \in Seq(Ids)
      BY DEF HeapInv, Shaped
    <2>2. /\ DOMAIN anonTypes \subseteq Ids /\ placeholderRefs \subseteq Ids \X Ids
          /\ placeholders \subseteq Ids /\ duplicates \subseteq Ids /\ DOMAIN body \subseteq Ids
      BY DEF HeapInv, TableInv
    <2>3. \A i \in DOMAIN work : work[i].of \in Ids /\ work[i].left \subseteq Ids
      <3>1. DOMAIN work = 1..Len(work)
        BY LenProperties DEF HeapInv
      <3> QED
        BY <3>1 DEF HeapInv, CallsFit
    <2>4. OwnedOnce
      BY DEF TableInv, OwnedOnce
    <2>5. ConversionsInverse
      BY DEF LoopInv, MarkersFit, LoadFits, ConversionsInverse
    <2> QED
      BY <2>1, <2>2, <2>3, <2>4, <2>5 DEF TypesOK
  <1> QED
    BY <1>1, <1>2, <1>3, PTL DEF TypeSpec

-----------------------------------------------------------------------------
(* What a walk through types can meet.                                      *)

\* A type, no struct, that was built when its parts were complete.
Settled(t) ==
  ~types[t].ph /\ types[t].flavor # "StructT" /\ ~CompletedEarly(t)

\* Complete types make no round without a struct: among any of them is one that leads to
\* none of them.
RoundInv ==
  /\ \A t \in Ids : t \notin Range(types[t].to)
  /\ \A A \in SUBSET Ids : A # {} /\ (\A a \in A : Settled(a)) =>
       \E a \in A : Range(types[a].to) \cap A = {}

\* A type that is no placeholder is made of older ones.
AgeInv == \A t \in Ids \ placeholders : \A u \in Range(types[t].to) : u < t

\* A clone with a name has the parts of the type it was made of.
NameInv ==
  \A t \in DOMAIN revNames :
     /\ t \in Ids /\ revNames[t] \in Ids
     /\ ~types[t].ph /\ ~types[revNames[t]].ph
     /\ types[revNames[t]].to = types[t].to /\ types[revNames[t]].flavor = types[t].flavor

\* A marker is converted to a type as soon as its cycle is closed.
LoadInv ==
  /\ loop \in Seq(Ids \X Ids)
  /\ \A p \in DOMAIN markers :
       /\ markers[p] \in Ids /\ types[markers[p]].flavor = "AuxT"
       /\ markers[p] \in DOMAIN loadMap \/ (loop # <<>> /\ loop[1][2] = markers[p])
  /\ \A m \in DOMAIN loadMap : loadMap[m] \in Ids

\* What is complete stays as it is.
LEMMA CompleteStays ==
  ASSUME NEW u, Makes(u), NEW t \in Ids, ~types[t].ph
  PROVE  /\ t \in Ids' /\ ~types'[t].ph
         /\ types'[t].to = types[t].to /\ types'[t].flavor = types[t].flavor
         /\ types'[t].ll = types[t].ll
BY DEF Makes, Grows, UnresolvedPlaceholder

LEMMA RoundStep ==
  ASSUME HeapInv, RoundInv, NEW u, Makes(u)
  PROVE  RoundInv'
PROOF
  <1>1. /\ Grows(u) /\ Ids' = Ids \cup {u} /\ \A t \in Ids \ {u} : types'[t] = types[t]
        /\ \A t \in Ids : Range(types[t].to) \subseteq Ids
    <2>1. /\ Grows(u) /\ Ids' = Ids \cup {u} /\ \A t \in Ids \ {u} : types'[t] = types[t]
      BY DEF Makes, Grows
    <2>2. \A t \in Ids : types[t].to \in Seq(Ids)
      BY DEF HeapInv, Shaped
    <2> QED
      BY <2>1, <2>2, RangeOfList
  <1>2. ASSUME NEW t \in Ids' PROVE t \notin Range(types'[t].to)
    <2>1. CASE t \in Ids
      BY <1>1, <2>1 DEF Makes, RoundInv
    <2>2. CASE t \notin Ids
      <3>1. t = u /\ types'[u].to \in Seq(Ids)
        BY <1>1, <2>2 DEF Makes
      <3>2. Range(types'[u].to) \subseteq Ids
        BY <3>1, RangeOfList
      <3> QED
        BY <2>2, <3>1, <3>2
    <2> QED
      BY <2>1, <2>2
  <1>3. ASSUME NEW a \in Ids, ~types[a].ph, Settled(a)'
        PROVE  Settled(a)
    <2>1. /\ a \in Ids' /\ types'[a].to = types[a].to /\ types'[a].flavor = types[a].flavor
          /\ types'[a].ll = types[a].ll
      BY <1>3, CompleteStays
    <2>2. CompletedEarly(a) => CompletedEarly(a)'
      <3>1. CompletedEarly(a) => types[a].flavor = "FunctionT"
        BY DEF CompletedEarly
      <3> QED
        BY <1>1, <2>1, <3>1, EarlyKept
    <2> QED
      BY <1>3, <2>1, <2>2 DEF Settled
  <1>4. ASSUME NEW A \in SUBSET Ids', A # {}, \A a \in A : Settled(a)'
        PROVE  \E a \in A : Range(types'[a].to) \cap A = {}
    <2>1. CASE u \notin A \/ (u \in Ids /\ ~types[u].ph)
      <3>1. A \in SUBSET Ids /\ \A a \in A : ~types[a].ph
        BY <1>1, <1>4, <2>1 DEF Settled
      <3>2. \A a \in A : Settled(a) /\ types'[a].to = types[a].to
        BY <1>3, <1>4, <3>1, CompleteStays
      <3>3. PICK a \in A : Range(types[a].to) \cap A = {}
        BY <1>4, <3>1, <3>2 DEF RoundInv
      <3> QED
        BY <3>2, <3>3
    <2>2. CASE u \in A /\ (u \notin Ids \/ types[u].ph)
      <3> DEFINE B == A \ {u}
      <3>1. B \in SUBSET Ids /\ \A a \in B : ~types[a].ph /\ types'[a] = types[a]
        BY <1>1, <1>4 DEF Settled
      <3>2. \A a \in B : Settled(a)
        BY <1>3, <1>4, <3>1
      <3>3. CASE B = {}
        BY <1>2, <2>2, <3>3
      <3>4. CASE B # {}
        <4>1. PICK a \in B : Range(types[a].to) \cap B = {}
          BY <3>1, <3>2, <3>4 DEF RoundInv
        <4>2. a \in Ids /\ Settled(a) /\ types'[a] = types[a] /\ Range(types[a].to) \subseteq Ids
          BY <1>1, <3>1, <3>2, <4>1
        <4>3. u \notin Range(types[a].to)
          <5>1. Awaited(types[a].to) = {}
            BY <4>2 DEF HeapInv, Complete, Settled
          <5>2. u \in Ids => types[u].ph /\ types[u].flavor # "StructT"
            BY <1>1, <1>4, <2>2 DEF Settled, Grows
          <5>3. u \in Ids => UnresolvedPlaceholder(u)
            BY <5>2 DEF UnresolvedPlaceholder
          <5> QED
            BY <4>2, <5>1, <5>3 DEF Awaited
        <4> QED
          BY <4>1, <4>2, <4>3
      <3> QED
        BY <3>3, <3>4
    <2> QED
      BY <2>1, <2>2
  <1> QED
    BY <1>2, <1>4 DEF RoundInv

LEMMA AgeStep ==
  ASSUME AgeInv, NEW u, Makes(u)
  PROVE  AgeInv'
PROOF
  <1>1. /\ Ids' = Ids \cup {u} /\ \A t \in Ids \ {u} : types'[t] = types[t]
        /\ \A t \in Ids : t \notin placeholders' => t \notin placeholders
    BY DEF Makes, Grows
  <1>2. CASE u \in Ids
    BY <1>1, <1>2 DEF Makes, AgeInv
  <1>3. CASE u \notin Ids
    <2>1. Range(types'[u].to) \subseteq Ids
      BY <1>3, RangeOfList DEF Makes
    <2>2. \A x \in Ids : x < u
      BY <1>3 DEF Makes, Grows
    <2>3. \A x \in Range(types'[u].to) : x < u
      BY <2>1, <2>2
    <2> QED
      BY <1>1, <2>3 DEF AgeInv
  <1> QED
    BY <1>2, <1>3

LEMMA NameStep ==
  ASSUME TableInv, HeapInv, NameInv, Made, TypeStep
  PROVE  NameInv'
PROOF
  <1>1. ASSUME NEW t \in Ids, ~types[t].ph
        PROVE  /\ t \in Ids' /\ ~types'[t].ph
               /\ types'[t].to = types[t].to /\ types'[t].flavor = types[t].flavor
    BY <1>1, CompleteStays DEF Made, Ids
  <1>2. ASSUME NEW t \in Ids, NamedType(t) PROVE NameInv'
    <2>0. PICK n : n = Len(types) + 1
      OBVIOUS
    <2> DEFINE b == [types[t] EXCEPT !.name = n]
    <2>1. AddType(b) /\ UNCHANGED body /\ ~types[t].ph /\ revNames' = Enter(revNames, t, n)
      BY <1>2, <2>0 DEF NamedType
    <2>2. IsBtype(types[t])
      BY DEF TableInv
    <2>3. b.flavor = types[t].flavor /\ b.ph = types[t].ph /\ b.to = types[t].to
      BY <2>2 DEF IsBtype
    <2> HIDE DEF b
    <2>4. types' = Append(types, b) /\ placeholderRefs \subseteq placeholderRefs'
      BY <2>1 DEF AddType
    <2>5. Grows(n) /\ types'[n] = b
      BY <2>0, <2>1, <2>4, AddGrows
    <2>6. n \in Ids'
      BY <2>5 DEF Grows
    <2>7. DOMAIN revNames' = DOMAIN revNames \cup {t} /\ revNames'[t] = n
          /\ \A x \in DOMAIN revNames \ {t} : revNames'[x] = revNames[x]
      BY <2>1 DEF Enter
    <2>8. ASSUME NEW x \in DOMAIN revNames'
          PROVE  /\ x \in Ids' /\ revNames'[x] \in Ids'
                 /\ ~types'[x].ph /\ ~types'[revNames'[x]].ph
                 /\ types'[revNames'[x]].to = types'[x].to
                 /\ types'[revNames'[x]].flavor = types'[x].flavor
      <3>1. CASE x = t
        BY <1>1, <2>1, <2>3, <2>5, <2>6, <2>7, <3>1
      <3>2. CASE x # t
        <4>1. PICK c : c = revNames[x] /\ c = revNames'[x]
          BY <2>7, <3>2
        <4>2. /\ x \in Ids /\ c \in Ids /\ ~types[x].ph /\ ~types[c].ph
              /\ types[c].to = types[x].to /\ types[c].flavor = types[x].flavor
          BY <2>7, <3>2, <4>1 DEF NameInv
        <4> QED
          BY <1>1, <4>1, <4>2
      <3> QED
        BY <3>1, <3>2
    <2> QED
      BY <2>8 DEF NameInv
  <1>3. CASE UNCHANGED revNames
    <2>1. ASSUME NEW x \in DOMAIN revNames
          PROVE  /\ x \in Ids' /\ revNames[x] \in Ids'
                 /\ ~types'[x].ph /\ ~types'[revNames[x]].ph
                 /\ types'[revNames[x]].to = types'[x].to
                 /\ types'[revNames[x]].flavor = types'[x].flavor
      <3>1. PICK c : c = revNames[x]
        OBVIOUS
      <3>2. /\ x \in Ids /\ c \in Ids /\ ~types[x].ph /\ ~types[c].ph
            /\ types[c].to = types[x].to /\ types[c].flavor = types[x].flavor
        BY <3>1 DEF NameInv
      <3> QED
        BY <1>1, <3>1, <3>2
    <2> QED
      BY <1>3, <2>1 DEF NameInv
  <1>4. (\E t \in Ids : NamedType(t)) \/ UNCHANGED revNames
    BY DEF TypeStep, PointerType, ArrayType, StructType, FunctionType, UnchangedButTables,
           PlaceholderPointerType, PlaceholderStructType, PlaceholderArrayType, PlaceholderType,
           SetPlaceholderPointerType, SetPlaceholderArrayType, SetPlaceholderStructType,
           CircularPointerType, VisitSkipped, VisitStruct, VisitOther, Return
  <1> QED
    BY <1>2, <1>3, <1>4

\* Only the requests for cycles of pointer types touch their tables.
LEMMA CyclesAreLeft ==
  ASSUME TypeStep, ~UNCHANGED circular
  PROVE  \/ \E p \in placeholders, t \in Ids : SetPlaceholderPointerType(p, t)
         \/ \E p \in placeholders : CircularPointerType(p)
PROOF
  <1>1. ASSUME NEW t, NEW to, NEW p,
               \/ PointerType(t) \/ ArrayType(t) \/ NamedType(t)
               \/ StructType(to) \/ FunctionType(to)
               \/ PlaceholderPointerType \/ PlaceholderStructType \/ PlaceholderArrayType
        PROVE  UNCHANGED circular
    BY <1>1 DEF PointerType, ArrayType, NamedType, StructType, FunctionType, UnchangedButTables,
                PlaceholderPointerType, PlaceholderStructType, PlaceholderArrayType, PlaceholderType
  <1>2. ASSUME NEW t, NEW to, NEW p,
               \/ SetPlaceholderArrayType(p, t) \/ SetPlaceholderStructType(p, to)
               \/ VisitSkipped(t) \/ VisitStruct(t) \/ VisitOther(t) \/ Return
        PROVE  UNCHANGED circular
    BY <1>2 DEF SetPlaceholderArrayType, SetPlaceholderStructType, VisitSkipped, VisitStruct,
                VisitOther, Return
  <1> QED
    BY <1>1, <1>2 DEF TypeStep

\* The tables of cycles while types are made and completed.
LEMMA LoadStays ==
  ASSUME LoadInv, Made, UNCHANGED <<loop, markers, loadMap>>
  PROVE  LoadInv'
PROOF
  <1>1. Ids \subseteq Ids' /\ \A t \in Ids : types'[t].flavor = types[t].flavor
    BY DEF Made, Makes, Grows, Ids
  <1>2. loop' \in Seq(Ids' \X Ids')
    <2>1. Ids \X Ids \subseteq Ids' \X Ids'
      BY <1>1
    <2>2. loop \in Seq(Ids \X Ids) /\ loop' = loop
      BY DEF LoadInv
    <2> QED
      BY <2>1, <2>2, SeqMonotonic
  <1>3. ASSUME NEW p \in DOMAIN markers
        PROVE  /\ markers[p] \in Ids' /\ types'[markers[p]].flavor = "AuxT"
               /\ markers[p] \in DOMAIN loadMap \/ (loop # <<>> /\ loop[1][2] = markers[p])
    BY <1>1 DEF LoadInv
  <1>4. \A m \in DOMAIN loadMap : loadMap[m] \in Ids'
    BY <1>1 DEF LoadInv
  <1> QED
    BY <1>2, <1>3, <1>4 DEF LoadInv

LEMMA LoadSet ==
  ASSUME TableInv, LoadInv, Made, NEW p \in placeholders, NEW t \in Ids,
         SetPlaceholderPointerType(p, t)
  PROVE  LoadInv'
PROOF
  <1>1. /\ Ids' = Ids /\ p \in Ids /\ UNCHANGED markers /\ AdvanceLoop(p, t)
        /\ \A v \in Ids : types'[v].flavor = types[v].flavor
    <2>1. \/ types' = [types EXCEPT ![p].to = <<t>>, ![p].ll = types[t].ll]
          \/ types' = [types EXCEPT ![p].to = <<t>>, ![p].ll = types[t].ll, ![p].ph = FALSE]
      BY DEF SetPlaceholderPointerType
    <2>2. Ids' = Ids
      BY <2>1 DEF Ids
    <2> QED
      BY <2>2 DEF SetPlaceholderPointerType, TableInv, Made, Makes, Grows
  <1>2. CASE UNCHANGED <<loop, loadMap>>
    BY <1>1, <1>2, LoadStays
  <1>3. CASE loop # <<>> /\ loop[1][2] = t /\ CloseLoop(p, t) /\ loop' = <<>>
    <2>1. PICK load : load = loop[Len(loop)][2]
      OBVIOUS
    <2>2. load \in Ids
      BY <1>3, <2>1 DEF LoadInv
    <2>3. loadMap' = Enter(Enter(loadMap, p, load), t, load)
      BY <1>3, <2>1 DEF CloseLoop
    <2>4. /\ DOMAIN loadMap' = DOMAIN loadMap \cup {p, t}
          /\ \A x \in DOMAIN loadMap' : loadMap'[x] # load =>
                                          x \in DOMAIN loadMap /\ loadMap'[x] = loadMap[x]
      <3>1. PICK once : once = Enter(loadMap, p, load)
        OBVIOUS
      <3>2. /\ DOMAIN once = DOMAIN loadMap \cup {p}
            /\ \A x \in DOMAIN once : once[x] = IF x = p THEN load ELSE loadMap[x]
        BY <3>1 DEF Enter
      <3>3. /\ DOMAIN loadMap' = DOMAIN once \cup {t}
            /\ \A x \in DOMAIN loadMap' : loadMap'[x] = IF x = t THEN load ELSE once[x]
        BY <2>3, <3>1 DEF Enter
      <3> QED
        BY <3>2, <3>3
    <2>5. \A x \in DOMAIN loadMap' : loadMap'[x] \in Ids'
      BY <1>1, <2>2, <2>4 DEF LoadInv
    <2>6. ASSUME NEW q \in DOMAIN markers
          PROVE  markers[q] \in Ids' /\ types'[markers[q]].flavor = "AuxT"
                 /\ markers[q] \in DOMAIN loadMap'
      BY <1>1, <1>3, <2>4 DEF LoadInv
    <2> QED
      BY <1>1, <1>3, <2>5, <2>6 DEF LoadInv
  <1>4. CASE loop # <<>> /\ loop' = Append(loop, <<p, t>>) /\ UNCHANGED loadMap
    <2>1. PICK e \in Ids \X Ids : e = <<p, t>>
      BY <1>1
    <2>2. loop \in Seq(Ids \X Ids)
      BY DEF LoadInv
    <2>3. /\ loop' \in Seq(Ids \X Ids) /\ loop'[1] = loop[1] /\ loop' # <<>>
      <3>1. Len(loop) \in Nat /\ Len(loop) # 0 /\ loop' = Append(loop, e)
        BY <1>4, <2>1, <2>2, EmptySeq
      <3>2. loop' \in Seq(Ids \X Ids) /\ Len(loop') = Len(loop) + 1
            /\ \A i \in 1..Len(loop) : loop'[i] = loop[i]
        BY <2>1, <2>2, <3>1, AppendProperties
      <3> QED
        BY <3>1, <3>2, EmptySeq
    <2> QED
      BY <1>1, <1>4, <2>3 DEF LoadInv
  <1> QED
    BY <1>1, <1>2, <1>3, <1>4 DEF AdvanceLoop

LEMMA LoadCircular ==
  ASSUME TableInv, LoadInv, NEW p \in placeholders, CircularPointerType(p)
  PROVE  LoadInv'
PROOF
  <1>1. PICK m : m = Len(types) + 1
    OBVIOUS
  <1> DEFINE b == Btype("AuxT", 0, LLPtr(LLOpaque(m)), FALSE, <<>>)
  <1>2. b.flavor = "AuxT"
    BY DEF Btype
  <1>3. /\ AddType(b) /\ markers' = Enter(markers, p, m) /\ loop' = <<<<p, m>>>>
        /\ UNCHANGED <<loadMap, body>> /\ loop = <<>>
    BY <1>1 DEF CircularPointerType
  <1> HIDE DEF b
  <1>4. types' = Append(types, b) /\ placeholderRefs \subseteq placeholderRefs'
    BY <1>3 DEF AddType
  <1>5. Grows(m) /\ types'[m] = b /\ m \notin Ids
    BY <1>1, <1>3, <1>4, AddGrows
  <1>6. Ids' = Ids \cup {m} /\ \A t \in Ids : types'[t] = types[t]
    BY <1>5 DEF Grows
  <1>7. p \in Ids
    BY DEF TableInv
  <1>8. /\ DOMAIN markers' = DOMAIN markers \cup {p} /\ markers'[p] = m
        /\ \A q \in DOMAIN markers : q # p => markers'[q] = markers[q]
    BY <1>3 DEF Enter
  <1>9. loop' \in Seq(Ids' \X Ids') /\ loop'[1][2] = m /\ loop' # <<>>
    BY <1>3, <1>6, <1>7
  <1>10. ASSUME NEW q \in DOMAIN markers'
         PROVE  /\ markers'[q] \in Ids' /\ types'[markers'[q]].flavor = "AuxT"
                /\ (markers'[q] \in DOMAIN loadMap' \/ loop'[1][2] = markers'[q])
    <2>1. CASE q = p
      BY <1>2, <1>5, <1>6, <1>8, <1>9, <2>1
    <2>2. CASE q # p
      <3>1. PICK k : k = markers[q] /\ k = markers'[q]
        BY <1>8, <2>2
      <3>2. k \in Ids /\ types[k].flavor = "AuxT" /\ k \in DOMAIN loadMap
        BY <1>3, <1>8, <2>2, <3>1 DEF LoadInv
      <3> QED
        BY <1>3, <1>6, <3>1, <3>2
    <2> QED
      BY <2>1, <2>2
  <1>11. \A k \in DOMAIN loadMap' : loadMap'[k] \in Ids'
    BY <1>3, <1>6 DEF LoadInv
  <1> QED
    BY <1>9, <1>10, <1>11 DEF LoadInv

GraphInv == RoundInv /\ AgeInv /\ NameInv /\ LoadInv

LEMMA GraphInit ==
  ASSUME TypeInit
  PROVE  GraphInv
PROOF
  <1>1. /\ Ids = {1} /\ types[1].to = <<>> /\ loop = <<>>
        /\ DOMAIN markers = {} /\ DOMAIN loadMap = {} /\ DOMAIN revNames = {}
    BY DEF TypeInit, Btype, Ids
  <1>2. Range(types[1].to) = {}
    BY <1>1 DEF Range
  <1>3. RoundInv /\ AgeInv
    BY <1>1, <1>2 DEF RoundInv, AgeInv
  <1>4. NameInv /\ LoadInv
    BY <1>1 DEF NameInv, LoadInv
  <1> QED
    BY <1>3, <1>4 DEF GraphInv

LEMMA GraphInvStep ==
  ASSUME TableInv, HeapInv, GraphInv, [TypeNext]_typeVars
  PROVE  GraphInv'
PROOF
  <1>1. Made
    BY HeapInvStep
  <1>2. RoundInv' /\ AgeInv'
    <2>1. CASE UNCHANGED <<types, placeholderRefs, placeholders>>
      <3>1. Ids' = Ids /\ types' = types /\ placeholders' = placeholders
        BY <2>1 DEF Ids
      <3>2. \A t : Settled(t)' = Settled(t)
        BY <2>1, <3>1 DEF Settled, CompletedEarly
      <3>3. RoundInv' = RoundInv
        BY <3>1, <3>2 DEF RoundInv
      <3>4. AgeInv' = AgeInv
        BY <3>1 DEF AgeInv
      <3> QED
        BY <3>3, <3>4 DEF GraphInv
    <2>2. CASE \E u : Makes(u)
      BY <2>2, RoundStep, AgeStep DEF GraphInv
    <2> QED
      BY <1>1, <2>1, <2>2 DEF Made
  <1>3. NameInv'
    <2>1. CASE UNCHANGED typeVars
      <3>1. Ids' = Ids /\ types' = types /\ revNames' = revNames
        BY <2>1 DEF typeVars, Ids
      <3> QED
        BY <3>1 DEF NameInv, GraphInv
    <2>2. CASE TypeStep
      BY <1>1, <2>2, NameStep DEF GraphInv
    <2> QED
      BY <2>1, <2>2 DEF TypeNext
  <1>4. LoadInv'
    <2>1. CASE UNCHANGED <<loop, markers, loadMap>>
      BY <1>1, <2>1, LoadStays DEF GraphInv
    <2>2. CASE ~UNCHANGED <<loop, markers, loadMap>>
      <3>1. TypeStep /\ ~UNCHANGED circular
        BY <2>2 DEF TypeNext, typeVars, circular
      <3> QED
        BY <1>1, <3>1, CyclesAreLeft, LoadSet, LoadCircular DEF GraphInv
    <2> QED
      BY <2>1, <2>2
  <1> QED
    BY <1>2, <1>3, <1>4 DEF GraphInv

-----------------------------------------------------------------------------
(* The walks through types.                                                 *)

\* What a walk begins with.
Quiet == (\A t \in Ids : ~types[t].ph) /\ NamedApart /\ loop = <<>>

\* Each call is for a part of the type of the one before.  Temporaries are of types on the
\* stack, where a type that is entered is once.
WalkFits(w, cs, cache) ==
  /\ w \in {"describe", "spell"}
  /\ cs \in Seq([of : Ids, done : Nat])
  /\ \A i \in 1..(Len(cs) - 1) : \E part \in Range(Parts(w, cs[i].of)) :
        cs[i + 1].of = Described(w, part)
  /\ \A i \in 1..Len(cs) : Enters(w, cs[i].of) => cs[i].of \in DOMAIN cache
  /\ \A t \in DOMAIN cache :
        cache[t] = "final" \/ (Enters(w, t) /\ \E i \in 1..Len(cs) : cs[i].of = t)
  /\ \A i, j \in 1..Len(cs) : i < j /\ cs[i].of = cs[j].of => ~Enters(w, cs[i].of)

WalkInv ==
  \/ walk = "none" /\ calls = <<>> /\ typeCache = NoTypes
  \/ Quiet /\ WalkFits(walk, calls, typeCache)

\* What the walks go through is there.
LEMMA PartsAreTypes ==
  ASSUME TableInv, HeapInv, GraphInv, Quiet, NEW w \in {"describe", "spell"}, NEW t \in Ids
  PROVE  /\ Parts(w, t) \in Seq(Ids) /\ Described(w, t) \in Ids
         /\ Markers \subseteq Ids /\ \A m \in Markers : types[m].flavor = "AuxT"
PROOF
  <1>1. types[t].to \in Seq(Ids)
    BY DEF HeapInv, Shaped
  <1>2. /\ Markers \subseteq Ids /\ \A m \in Markers : types[m].flavor = "AuxT"
        /\ \A m \in Markers : loadMap[m] \in Ids
    BY DEF Markers, Range, GraphInv, LoadInv, Quiet
  <1>3. Parts(w, t) \in Seq(Ids)
    <2>1. CASE w = "describe" /\ t \in Markers
      <3>1. PICK u \in Ids : u = loadMap[t]
        BY <1>2, <2>1
      <3>2. Parts(w, t) = <<u>>
        BY <2>1, <3>1 DEF Parts
      <3> QED
        BY <3>2
    <2>2. CASE w = "spell" /\ (ByName(w, t) \/ t \in Markers)
      BY <2>2 DEF Parts
    <2>3. CASE ~(w = "describe" /\ t \in Markers) /\ ~(w = "spell" /\ (ByName(w, t) \/ t \in Markers))
      BY <1>1, <2>3 DEF Parts
    <2> QED
      BY <2>1, <2>2, <2>3
  <1>4. Described(w, t) \in Ids
    BY DEF Described, GraphInv, NameInv
  <1> QED
    BY <1>2, <1>3, <1>4

\* What is described in place of a part: only a struct goes by another name.
LEMMA DescribedIs ==
  ASSUME TableInv, HeapInv, GraphInv, Quiet, NEW w \in {"describe", "spell"}, NEW t \in Ids
  PROVE  \/ Described(w, t) = t
         \/ /\ w = "describe" /\ t \in DOMAIN revNames /\ Described(w, t) = revNames[t]
            /\ types[t].flavor = "StructT" /\ Enters(w, revNames[t])
            /\ revNames[t] \in Ids /\ types[revNames[t]].to = types[t].to
            /\ types[revNames[t]].flavor = "StructT"
PROOF
  <1> SUFFICES ASSUME Described(w, t) # t
               PROVE  /\ w = "describe" /\ t \in DOMAIN revNames /\ Described(w, t) = revNames[t]
                      /\ types[t].flavor = "StructT" /\ Enters(w, revNames[t])
                      /\ revNames[t] \in Ids /\ types[revNames[t]].to = types[t].to
                      /\ types[revNames[t]].flavor = "StructT"
    OBVIOUS
  <1>1. /\ w = "describe" /\ types[t].flavor \in {"StructT", "AuxT"} /\ t \in DOMAIN revNames
        /\ Described(w, t) = revNames[t]
    BY DEF Described
  <1>2. t \in Within(t, Flavors)
    BY WithinIsClosed, RangeOfList DEF HeapInv, Shaped
  <1>3. types[t].flavor = "StructT"
    BY <1>1, <1>2 DEF Quiet, NamedApart
  <1>4. revNames[t] \in Ids /\ types[revNames[t]].to = types[t].to /\ types[revNames[t]].flavor = "StructT"
    BY <1>1, <1>3 DEF GraphInv, NameInv
  <1>5. Enters(w, revNames[t])
    BY <1>1, <1>4 DEF Enters, ByName
  <1> QED
    BY <1>1, <1>3, <1>4, <1>5

\* The parts of what is gone through and not entered as a temporary.
LEMMA PartsOfOthers ==
  ASSUME NEW w \in {"describe", "spell"}, NEW t, ~Enters(w, t) \/ t \notin Markers,
         Range(Parts(w, t)) # {}
  PROVE  /\ Parts(w, t) = types[t].to
         /\ ~Enters(w, t) => types[t].flavor # "StructT"
PROOF
  <1>1. Range(<<>>) = {}
    BY DEF Range
  <1>2. ~(w = "spell" /\ (ByName(w, t) \/ t \in Markers))
    BY <1>1 DEF Parts
  <1>3. ~(w = "describe" /\ t \in Markers)
    BY DEF Enters
  <1> QED
    BY <1>2, <1>3 DEF Parts, Enters, ByName

\* A struct that goes by the name of a clone is not met below that clone: its parts are
\* older than it is.
LEMMA CloneIsNotBelow ==
  ASSUME TableInv, HeapInv, GraphInv, Quiet, NEW cs, NEW cache, WalkFits("describe", cs, cache),
         NEW s \in DOMAIN revNames, types[s].flavor = "StructT",
         NEW i \in 1..Len(cs), cs[i].of = revNames[s]
  PROVE  s \notin Range(Parts("describe", cs[Len(cs)].of))
PROOF
  <1>1. PICK n \in Nat : n = Len(cs) /\ i \in 1..n
    BY RangeOfList DEF WalkFits
  <1>2. /\ s \in Ids /\ \A v \in Ids : Range(types[v].to) \subseteq Ids
    BY RangeOfList DEF GraphInv, NameInv, HeapInv, Shaped
  <1> DEFINE W == Within(s, Flavors)
  <1>3. s \in W /\ PartsOf(W, Flavors) \subseteq W
    BY <1>2, WithinIsClosed
  <1>4. \A u \in W : u \notin placeholders /\ types[u].flavor # "AuxT"
    BY DEF Quiet, NamedApart
  <1> HIDE DEF W
  <1>5. ASSUME NEW u \in W, u \in Ids
        PROVE  /\ Range(types[u].to) \subseteq W
               /\ \A v \in Range(types[u].to) : v < u
    <2>1. types[u].flavor \in Flavors
      BY <1>5 DEF HeapInv, Shaped
    <2>2. Range(types[u].to) \subseteq W
      BY <1>3, <2>1 DEF PartsOf
    <2> QED
      BY <1>4, <1>5, <2>2 DEF GraphInv, AgeInv
  <1> DEFINE Below(d) == /\ types[d].flavor # "AuxT"
                         /\ \A v \in Range(types[d].to) : v \in W /\ v < s
             D == {k \in 0..n : k >= i => Below(cs[k].of)}
  <1>6. \A k \in 1..n : cs[k].of \in Ids
    <2>1. cs \in Seq([of : Ids, done : Nat])
      BY DEF WalkFits
    <2>2. \A k \in 1..n : cs[k] \in [of : Ids, done : Nat]
      BY <1>1, <2>1, ElementOfSeq
    <2> QED
      BY <2>2
  <1>7. Ids \subseteq Nat
    BY TypesAreFinite
  <1>8. Below(cs[i].of)
    <2>1. cs[i].of \in Ids /\ types[cs[i].of].to = types[s].to /\ types[cs[i].of].flavor = "StructT"
      BY DEF GraphInv, NameInv
    <2> QED
      BY <1>2, <1>3, <1>5, <2>1
  <1>9. ASSUME NEW k \in 1..n, Below(cs[k].of)
        PROVE  Parts("describe", cs[k].of) = types[cs[k].of].to
    <2>1. cs[k].of \notin Markers
      BY <1>2, <1>9, PartsAreTypes
    <2> QED
      BY <2>1 DEF Parts
  <1>10. ASSUME NEW k \in 1..n, k >= i, k + 1 \in 1..n, Below(cs[k].of)
         PROVE  Below(cs[k + 1].of)
    <2>1. PICK part \in Range(types[cs[k].of].to) : cs[k + 1].of = Described("describe", part)
      <3>1. k \in 1..(n - 1)
        BY <1>10
      <3> QED
        BY <1>1, <1>9, <1>10, <3>1 DEF WalkFits
    <2>2. part \in Ids /\ part \in W /\ part < s
      BY <1>2, <1>6, <1>10, <2>1
    <2>3. PICK d : d = cs[k + 1].of
      OBVIOUS
    <2>4. types[d].to = types[part].to /\ types[d].flavor # "AuxT"
      BY <1>4, <2>1, <2>2, <2>3, DescribedIs
    <2>5. \A v \in Range(types[part].to) : v \in Ids /\ v \in W /\ v < part
      BY <1>2, <1>5, <2>2
    <2>6. \A v \in Range(types[d].to) : v \in W /\ v < s
      BY <1>2, <1>7, <2>2, <2>4, <2>5
    <2> QED
      BY <2>3, <2>4, <2>6
  <1> HIDE DEF Below
  <1>11. 0 \in D
    BY <1>1
  <1>12. \A k \in 1..n : k - 1 \in D => k \in D
    <2> SUFFICES ASSUME NEW k \in 1..n, k - 1 \in D, k >= i PROVE Below(cs[k].of)
      OBVIOUS
    <2>1. CASE k = i
      BY <1>8, <2>1
    <2>2. CASE k # i
      <3>1. PICK j \in 1..n : j = k - 1 /\ j >= i /\ k = j + 1
        BY <1>1, <2>2
      <3> QED
        BY <1>10, <3>1
    <2> QED
      BY <2>1, <2>2
  <1>13. n \in D
    <2> HIDE DEF D
    <2>1. 0..n \subseteq D
      BY <1>11, <1>12, IntervalInduction
    <2> QED
      BY <2>1
  <1>14. Below(cs[n].of)
    BY <1>1, <1>13
  <1>15. Parts("describe", cs[n].of) = types[cs[n].of].to
    BY <1>1, <1>9, <1>14
  <1>16. \A v \in Range(types[cs[n].of].to) : v < s
    BY <1>14 DEF Below
  <1> QED
    BY <1>1, <1>2, <1>7, <1>15, <1>16

\* The calls that are active, after a step has changed how far the last is.
LEMMA CallsKept ==
  ASSUME NEW w, NEW cs, NEW cache, WalkFits(w, cs, cache), cs # <<>>,
         NEW a \in [of : Ids, done : Nat], a.of = cs[Len(cs)].of
  PROVE  LET now == Append(SubSeq(cs, 1, Len(cs) - 1), a) IN
         Len(now) = Len(cs) /\ WalkFits(w, now, cache)
PROOF
  <1> DEFINE R == [of : Ids, done : Nat]
             now == Append(SubSeq(cs, 1, Len(cs) - 1), a)
  <1>1. cs \in Seq(R) /\ a \in R
    BY DEF WalkFits
  <1> HIDE DEF R
  <1>2. PICK n \in Nat : n = Len(cs) /\ n # 0
    BY <1>1, EmptySeq
  <1>3. \A i \in 1..n : cs[i] \in R
    BY <1>1, <1>2, ElementOfSeq
  <1>4. PICK rest : rest = SubSeq(cs, 1, n - 1)
    OBVIOUS
  <1>5. /\ rest \in Seq(R) /\ Len(rest) = n - 1 /\ \A i \in 1..(n - 1) : rest[i] = cs[i]
    <2>1. n - 1 \in Int /\ \A i \in 1..(n - 1) : cs[i] \in R
      BY <1>3
    <2>2. /\ rest \in Seq(R) /\ Len(rest) = IF 1 <= n - 1 THEN (n - 1) - 1 + 1 ELSE 0
          /\ \A i \in 1..((n - 1) - 1 + 1) : rest[i] = cs[1 + i - 1]
      BY <1>4, <2>1, SubSeqProperties
    <2> QED
      BY <1>2, <2>2
  <1>6. PICK all : all = Append(rest, a)
    OBVIOUS
  <1>7. /\ all \in Seq(R) /\ Len(all) = n /\ \A i \in 1..n : all[i].of = cs[i].of
    <2>1. /\ all \in Seq(R) /\ Len(all) = Len(rest) + 1
          /\ \A i \in 1..Len(rest) : all[i] = rest[i]
          /\ all[Len(rest) + 1] = a
      BY <1>1, <1>5, <1>6, AppendProperties
    <2>2. Len(all) = n /\ all[n] = a /\ \A i \in 1..(n - 1) : all[i] = cs[i]
      BY <1>2, <1>5, <2>1
    <2>3. \A i \in 1..n : i = n \/ i \in 1..(n - 1)
      OBVIOUS
    <2> QED
      BY <1>2, <2>1, <2>2, <2>3
  <1>8. WalkFits(w, all, cache)
    <2>1. \A i \in 1..(n - 1) : i \in 1..n /\ i + 1 \in 1..n
      OBVIOUS
    <2>2. \A i \in 1..(Len(all) - 1) : \E part \in Range(Parts(w, all[i].of)) :
             all[i + 1].of = Described(w, part)
      <3> SUFFICES ASSUME NEW i \in 1..(n - 1)
                   PROVE  \E part \in Range(Parts(w, all[i].of)) :
                            all[i + 1].of = Described(w, part)
        BY <1>7
      <3>1. \E part \in Range(Parts(w, cs[i].of)) : cs[i + 1].of = Described(w, part)
        BY <1>2 DEF WalkFits
      <3>2. all[i].of = cs[i].of /\ all[i + 1].of = cs[i + 1].of
        BY <1>7, <2>1
      <3> QED
        BY <3>1, <3>2
    <2>3. \A i, j \in 1..Len(all) : i < j /\ all[i].of = all[j].of => ~Enters(w, all[i].of)
      BY <1>2, <1>7 DEF WalkFits
    <2>4. \A t \in DOMAIN cache :
            cache[t] = "final" \/ (Enters(w, t) /\ \E i \in 1..Len(all) : all[i].of = t)
      BY <1>2, <1>7 DEF WalkFits
    <2>5. \A i \in 1..Len(all) : Enters(w, all[i].of) => all[i].of \in DOMAIN cache
      BY <1>2, <1>7 DEF WalkFits
    <2>6. w \in {"describe", "spell"} /\ all \in Seq([of : Ids, done : Nat])
      BY <1>7 DEF WalkFits, R
    <2> QED
      BY <2>2, <2>3, <2>4, <2>5, <2>6 DEF WalkFits
  <1> QED
    BY <1>2, <1>4, <1>6, <1>7, <1>8

\* A call for a part that is not in the cache.
LEMMA CallAdded ==
  ASSUME TableInv, HeapInv, GraphInv, Quiet,
         NEW w, NEW cs, NEW cache, WalkFits(w, cs, cache), cs # <<>>,
         NEW part \in Range(Parts(w, cs[Len(cs)].of)), part \notin DOMAIN cache
  PROVE  WalkFits(w, Append(cs, NewType(Described(w, part))),
                  Cached(cache, w, Described(w, part), "temporary"))
PROOF
  <1> DEFINE R == [of : Ids, done : Nat]
  <1>1. cs \in Seq(R) /\ w \in {"describe", "spell"}
    BY DEF WalkFits
  <1>2. PICK n \in Nat : n = Len(cs) /\ n # 0
    BY <1>1, EmptySeq
  <1>3. \A i \in 1..n : cs[i] \in R
    BY <1>1, <1>2, ElementOfSeq
  <1>4. \A i \in 1..n : cs[i].of \in Ids
    BY <1>3
  <1>5. part \in Ids
    <2>1. PICK t \in Ids : t = cs[Len(cs)].of
      BY <1>2, <1>4
    <2>2. Parts(w, t) \in Seq(Ids)
      BY <1>1, PartsAreTypes
    <2> QED
      BY <2>1, <2>2, RangeOfList
  <1>6. PICK d \in Ids : d = Described(w, part)
    BY <1>1, <1>5, PartsAreTypes
  <1>7. ASSUME NEW i \in 1..n, cs[i].of = d PROVE ~Enters(w, d)
    <2>1. CASE d = part
      BY <1>2, <1>7, <2>1 DEF WalkFits
    <2>2. CASE d # part
      <3>1. w = "describe" /\ part \in DOMAIN revNames /\ d = revNames[part]
            /\ types[part].flavor = "StructT"
        BY <1>1, <1>5, <1>6, <2>2, DescribedIs
      <3>2. part \notin Range(Parts("describe", cs[Len(cs)].of))
        BY <1>2, <1>7, <3>1, CloneIsNotBelow
      <3> QED
        BY <3>1, <3>2
    <2> QED
      BY <2>1, <2>2
  <1>8. PICK e : e = NewType(d) /\ e \in R /\ e.of = d
    <2>1. NewType(d) = [of |-> d, done |-> 0]
      BY DEF NewType
    <2>2. [of |-> d, done |-> 0] \in R
      OBVIOUS
    <2> QED
      BY <2>1, <2>2
  <1> HIDE DEF R
  <1>9. PICK all : all = Append(cs, e)
    OBVIOUS
  <1>10. /\ all \in Seq(R) /\ Len(all) = n + 1 /\ all[n + 1].of = d
         /\ \A i \in 1..n : all[i] = cs[i]
    BY <1>1, <1>2, <1>8, <1>9, AppendProperties
  <1>11. PICK after : after = Cached(cache, w, d, "temporary")
    OBVIOUS
  <1>12. /\ DOMAIN cache \subseteq DOMAIN after
         /\ Enters(w, d) => d \in DOMAIN after
         /\ \A t \in DOMAIN after : (t = d /\ Enters(w, d)) \/ (t \in DOMAIN cache /\ after[t] = cache[t])
    BY <1>11 DEF Cached, Enter
  <1>13. \A i \in 1..(n + 1) : i = n + 1 \/ i \in 1..n
    OBVIOUS
  <1>14. n + 1 \in 1..(n + 1) /\ \A i \in 1..n : i \in 1..(n + 1)
    OBVIOUS
  <1>15. ASSUME NEW i \in 1..((n + 1) - 1)
         PROVE  \E p \in Range(Parts(w, all[i].of)) : all[i + 1].of = Described(w, p)
    <2>1. CASE i = n
      <3>1. all[i].of = cs[Len(cs)].of /\ all[i + 1].of = d
        BY <1>2, <1>10, <2>1
      <3> QED
        BY <1>6, <3>1
    <2>2. CASE i # n
      <3>1. i \in 1..(n - 1) /\ i \in 1..n /\ i + 1 \in 1..n
        BY <2>2
      <3>2. \E p \in Range(Parts(w, cs[i].of)) : cs[i + 1].of = Described(w, p)
        BY <1>2, <3>1 DEF WalkFits
      <3> QED
        BY <1>10, <3>1, <3>2
    <2> QED
      BY <2>1, <2>2
  <1>16. ASSUME NEW i \in 1..(n + 1), Enters(w, all[i].of)
         PROVE  all[i].of \in DOMAIN after
    <2>1. CASE i = n + 1
      BY <1>10, <1>12, <1>16, <2>1
    <2>2. CASE i \in 1..n
      <3>1. cs[i].of \in DOMAIN cache
        BY <1>2, <1>10, <1>16, <2>2 DEF WalkFits
      <3> QED
        BY <1>10, <1>12, <2>2, <3>1
    <2> QED
      BY <1>13, <2>1, <2>2
  <1>17. ASSUME NEW t \in DOMAIN after
         PROVE  after[t] = "final" \/ (Enters(w, t) /\ \E i \in 1..(n + 1) : all[i].of = t)
    <2>1. CASE t = d /\ Enters(w, d)
      BY <1>10, <1>14, <2>1
    <2>2. CASE t \in DOMAIN cache /\ after[t] = cache[t]
      <3>1. cache[t] = "final" \/ (Enters(w, t) /\ \E i \in 1..n : cs[i].of = t)
        BY <1>2, <2>2 DEF WalkFits
      <3> QED
        BY <1>10, <1>14, <2>2, <3>1
    <2> QED
      BY <1>12, <1>17, <2>1, <2>2
  <1>18. ASSUME NEW i \in 1..(n + 1), NEW j \in 1..(n + 1), i < j, all[i].of = all[j].of
         PROVE  ~Enters(w, all[i].of)
    <2>1. i \in 1..n
      BY <1>18
    <2>2. CASE j = n + 1
      BY <1>7, <1>10, <1>18, <2>1, <2>2
    <2>3. CASE j \in 1..n
      BY <1>2, <1>10, <1>18, <2>1, <2>3 DEF WalkFits
    <2> QED
      BY <1>13, <2>2, <2>3
  <1>19. WalkFits(w, all, after)
    BY <1>1, <1>10, <1>15, <1>16, <1>17, <1>18 DEF WalkFits, R
  <1> QED
    BY <1>6, <1>8, <1>9, <1>11, <1>19

\* The last call is done.
LEMMA CallDone ==
  ASSUME NEW w, NEW cs, NEW cache, WalkFits(w, cs, cache), cs # <<>>,
         NEW after, NEW last, last = cs[Len(cs)].of,
         after = IF Leaves(w, last) THEN Enter(cache, last, "final") ELSE cache
  PROVE  WalkFits(w, SubSeq(cs, 1, Len(cs) - 1), after)
PROOF
  <1> DEFINE R == [of : Ids, done : Nat]
  <1>1. cs \in Seq(R) /\ w \in {"describe", "spell"}
    BY DEF WalkFits
  <1> HIDE DEF R
  <1>2. PICK n \in Nat : n = Len(cs) /\ n # 0
    BY <1>1, EmptySeq
  <1>3. PICK rest : rest = SubSeq(cs, 1, n - 1)
    OBVIOUS
  <1>4. /\ rest \in Seq(R) /\ Len(rest) = n - 1 /\ \A i \in 1..(n - 1) : rest[i] = cs[i]
    <2>1. n - 1 \in Int /\ \A i \in 1..(n - 1) : cs[i] \in R
      BY <1>1, <1>2, ElementOfSeq
    <2>2. /\ rest \in Seq(R) /\ Len(rest) = IF 1 <= n - 1 THEN (n - 1) - 1 + 1 ELSE 0
          /\ \A i \in 1..((n - 1) - 1 + 1) : rest[i] = cs[1 + i - 1]
      BY <1>3, <2>1, SubSeqProperties
    <2> QED
      BY <1>2, <2>2
  <1>5. \A i \in 1..(n - 1) : i \in 1..n
    OBVIOUS
  <1>6. /\ DOMAIN cache \subseteq DOMAIN after
        /\ \A t \in DOMAIN after : after[t] = "final" \/ (t \in DOMAIN cache /\ after[t] = cache[t])
        /\ Enters(w, last) => after[last] = "final"
    BY DEF Enter, Leaves
  <1>7. ASSUME NEW i \in 1..((n - 1) - 1)
        PROVE  \E part \in Range(Parts(w, rest[i].of)) : rest[i + 1].of = Described(w, part)
    <2>1. i \in 1..(n - 1) /\ i + 1 \in 1..(n - 1)
      BY <1>2
    <2>2. \E part \in Range(Parts(w, cs[i].of)) : cs[i + 1].of = Described(w, part)
      BY <1>2, <2>1 DEF WalkFits
    <2> QED
      BY <1>4, <2>1, <2>2
  <1>8. ASSUME NEW i \in 1..(n - 1), Enters(w, rest[i].of)
        PROVE  rest[i].of \in DOMAIN after
    <2>1. cs[i].of \in DOMAIN cache
      BY <1>2, <1>4, <1>5, <1>8 DEF WalkFits
    <2> QED
      BY <1>4, <1>6, <1>8, <2>1
  <1>9. ASSUME NEW t \in DOMAIN after, after[t] # "final"
        PROVE  Enters(w, t) /\ \E i \in 1..(n - 1) : rest[i].of = t
    <2>1. t \in DOMAIN cache /\ cache[t] # "final"
      BY <1>6, <1>9
    <2>2. Enters(w, t)
      BY <2>1 DEF WalkFits
    <2>3. PICK i \in 1..n : cs[i].of = t
      BY <1>2, <2>1 DEF WalkFits
    <2>4. i # n
      BY <1>2, <1>6, <1>9, <2>2, <2>3
    <2>5. i \in 1..(n - 1)
      BY <2>4
    <2> QED
      BY <1>4, <2>2, <2>3, <2>5
  <1>10. ASSUME NEW i \in 1..(n - 1), NEW j \in 1..(n - 1), i < j, rest[i].of = rest[j].of
         PROVE  ~Enters(w, rest[i].of)
    BY <1>2, <1>4, <1>5, <1>10 DEF WalkFits
  <1>11. WalkFits(w, rest, after)
    BY <1>1, <1>4, <1>7, <1>8, <1>9, <1>10 DEF WalkFits, R
  <1> QED
    BY <1>2, <1>3, <1>11

\* What a walk looks at, when types stay as they are.
LEMMA SameTypes ==
  ASSUME UNCHANGED typeVars
  PROVE  /\ Ids' = Ids /\ (Quiet => Quiet')
         /\ \A w, cs, cache : WalkFits(w, cs, cache) => WalkFits(w, cs, cache)'
PROOF
  <1>1. /\ types' = types /\ placeholders' = placeholders /\ revNames' = revNames
        /\ markers' = markers /\ loadMap' = loadMap /\ loop' = loop
    BY DEF typeVars
  <1>2. Ids' = Ids /\ Markers' = Markers
    BY <1>1 DEF Ids, Markers
  <1>3. \A t : Within(t, Flavors)' = Within(t, Flavors)
    BY <1>1 DEF Within, Flavors
  <1>4. Quiet => Quiet'
    BY <1>1, <1>2, <1>3 DEF Quiet, NamedApart
  <1>5. \A w, t : /\ Enters(w, t)' <=> Enters(w, t)
                  /\ Parts(w, t)' = Parts(w, t) /\ Described(w, t)' = Described(w, t)
    BY <1>1, <1>2 DEF Enters, Parts, Described, ByName, Named
  <1>6. ASSUME NEW w, NEW cs, NEW cache, WalkFits(w, cs, cache)
        PROVE  WalkFits(w, cs, cache)'
    <2>1. w \in {"describe", "spell"} /\ cs \in Seq([of : Ids', done : Nat])
      BY <1>2, <1>6 DEF WalkFits
    <2>2. \A i \in 1..(Len(cs) - 1) : \E part \in Range(Parts(w, cs[i].of)') :
             cs[i + 1].of = Described(w, part)'
      BY <1>5, <1>6 DEF WalkFits
    <2>3. \A i \in 1..Len(cs) : Enters(w, cs[i].of)' => cs[i].of \in DOMAIN cache
      BY <1>5, <1>6 DEF WalkFits
    <2>4. \A t \in DOMAIN cache :
            cache[t] = "final" \/ (Enters(w, t)' /\ \E i \in 1..Len(cs) : cs[i].of = t)
      BY <1>5, <1>6 DEF WalkFits
    <2>5. \A i, j \in 1..Len(cs) : i < j /\ cs[i].of = cs[j].of => ~Enters(w, cs[i].of)'
      BY <1>5, <1>6 DEF WalkFits
    <2> QED
      BY <2>1, <2>2, <2>3, <2>4, <2>5 DEF WalkFits
  <1> QED
    BY <1>2, <1>4, <1>6

LEMMA WalkInvStep ==
  ASSUME TableInv, HeapInv, GraphInv, WalkInv, [DebugNext]_<<typeVars, walkVars>>
  PROVE  WalkInv' /\ [TypeNext]_typeVars
PROOF
  <1>1. CASE UNCHANGED <<typeVars, walkVars>>
    <2>1. UNCHANGED typeVars /\ walk' = walk /\ calls' = calls /\ typeCache' = typeCache
      BY <1>1 DEF walkVars
    <2>2. PICK w, cs, cache : w = walk /\ cs = calls /\ cache = typeCache
      OBVIOUS
    <2>3. Quiet /\ WalkFits(w, cs, cache) => Quiet' /\ WalkFits(w, cs, cache)'
      BY <2>1, SameTypes
    <2> QED
      BY <2>1, <2>2, <2>3 DEF WalkInv, NoTypes
  <1>2. CASE walk = "none" /\ TypeNext /\ UNCHANGED walkVars
    BY <1>2 DEF WalkInv, WalkFits, walkVars, NoTypes
  <1>3. ASSUME NEW t \in Ids, NEW w \in {"describe", "spell"}, Begin(w, t)
        PROVE  WalkInv' /\ UNCHANGED typeVars
    <2>1. UNCHANGED typeVars /\ Quiet
      BY <1>3 DEF Begin, Quiet
    <2>2. PICK d \in Ids : d = Described(w, t)
      BY <2>1, PartsAreTypes
    <2>3. PICK cs : cs = <<NewType(d)>>
      OBVIOUS
    <2>4. PICK cache : cache = Cached(NoTypes, w, d, "temporary")
      OBVIOUS
    <2>5. walk' = w /\ calls' = cs /\ typeCache' = cache
      BY <1>3, <2>2, <2>3, <2>4 DEF Begin
    <2>6. cs \in Seq([of : Ids, done : Nat]) /\ Len(cs) = 1 /\ cs[1].of = d
      BY <2>3 DEF NewType
    <2>7. DOMAIN cache = (IF Enters(w, d) THEN {d} ELSE {})
      BY <2>4 DEF Cached, Enter, NoTypes
    <2>8. WalkFits(w, cs, cache)
      BY <2>6, <2>7 DEF WalkFits
    <2>9. Quiet' /\ WalkFits(w, cs, cache)'
      BY <2>1, <2>8, SameTypes
    <2> QED
      BY <2>1, <2>5, <2>9 DEF WalkInv
  <1>4. ASSUME NextPart
        PROVE  WalkInv' /\ UNCHANGED typeVars
    <2>0. PICK w, cs, cache : w = walk /\ cs = calls /\ cache = typeCache
      OBVIOUS
    <2>1. /\ UNCHANGED typeVars /\ walk' = w /\ cs # <<>>
          /\ Quiet /\ WalkFits(w, cs, cache)
      BY <1>4, <2>0 DEF NextPart, WalkInv
    <2>l. cs \in Seq([of : Ids, done : Nat]) /\ w \in {"describe", "spell"}
      BY <2>1 DEF WalkFits
    <2>2. PICK n \in Nat : n = Len(cs) /\ n # 0
      BY <2>1, <2>l, EmptySeq
    <2>e. \A i \in 1..n : cs[i] \in [of : Ids, done : Nat]
      BY <2>2, <2>l, ElementOfSeq
    <2>3. PICK a \in [of : Ids, done : Nat] : a = cs[n]
      BY <2>2, <2>e
    <2>4. Active = a /\ Rest = SubSeq(cs, 1, n - 1)
      BY <2>0, <2>2, <2>3 DEF Active, Rest
    <2>5. PICK b : b = [a EXCEPT !.done = @ + 1]
      OBVIOUS
    <2>6. b \in [of : Ids, done : Nat] /\ b.of = a.of
      BY <2>5
    <2>7. PICK part : part = Parts(w, a.of)[a.done + 1]
      OBVIOUS
    <2>8. part \in Range(Parts(w, a.of))
      <3>1. Parts(w, a.of) \in Seq(Ids)
        BY <2>1, <2>l, PartsAreTypes
      <3>2. a.done < Len(Parts(w, a.of))
        BY <1>4, <2>0, <2>4 DEF NextPart
      <3>3. a.done + 1 \in 1..Len(Parts(w, a.of))
        BY <3>1, <3>2, LenProperties
      <3> QED
        BY <2>7, <3>1, <3>3, RangeOfList
    <2>9. PICK now : now = Append(SubSeq(cs, 1, n - 1), b)
      OBVIOUS
    <2>10. Len(now) = n /\ WalkFits(w, now, cache)
      BY <2>1, <2>2, <2>3, <2>6, <2>9, CallsKept
    <2>11. now # <<>> /\ now[Len(now)].of = a.of
      <3>1. now # <<>>
        BY <2>2, <2>10, EmptySeq
      <3>2. SubSeq(cs, 1, n - 1) \in Seq([of : Ids, done : Nat]) /\ Len(SubSeq(cs, 1, n - 1)) = n - 1
        <4>1. n - 1 \in Int /\ \A i \in 1..(n - 1) : cs[i] \in [of : Ids, done : Nat]
          BY <2>2, <2>e
        <4>2. /\ SubSeq(cs, 1, n - 1) \in Seq([of : Ids, done : Nat])
              /\ Len(SubSeq(cs, 1, n - 1)) = IF 1 <= n - 1 THEN (n - 1) - 1 + 1 ELSE 0
          BY <4>1, SubSeqProperties
        <4> QED
          BY <2>2, <4>2
      <3>3. now[n] = b
        BY <2>2, <2>6, <2>9, <3>2, AppendProperties
      <3> QED
        BY <2>6, <2>10, <3>1, <3>3
    <2>12. \/ part \in DOMAIN cache /\ calls' = now /\ typeCache' = cache
           \/ /\ part \notin DOMAIN cache /\ calls' = Append(now, NewType(Described(w, part)))
              /\ typeCache' = Cached(cache, w, Described(w, part), "temporary")
      BY <1>4, <2>0, <2>4, <2>5, <2>7, <2>9 DEF NextPart
    <2>13. WalkFits(w, calls', typeCache')
      <3>1. CASE part \notin DOMAIN cache
        <4>1. part \in Range(Parts(w, now[Len(now)].of))
          BY <2>8, <2>11
        <4>2. WalkFits(w, Append(now, NewType(Described(w, part))),
                       Cached(cache, w, Described(w, part), "temporary"))
          BY <2>1, <2>10, <2>11, <3>1, <4>1, CallAdded
        <4> QED
          BY <2>12, <3>1, <4>2
      <3> QED
        BY <2>10, <2>12, <3>1
    <2>14. PICK cs2, cache2 : cs2 = calls' /\ cache2 = typeCache'
      OBVIOUS
    <2>15. Quiet' /\ WalkFits(w, cs2, cache2)'
      BY <2>1, <2>13, <2>14, SameTypes
    <2> QED
      BY <2>1, <2>14, <2>15 DEF WalkInv
  <1>5. ASSUME ReturnType
        PROVE  WalkInv' /\ UNCHANGED typeVars
    <2>0. PICK w, cs, cache : w = walk /\ cs = calls /\ cache = typeCache
      OBVIOUS
    <2>1. /\ UNCHANGED typeVars /\ walk' = w /\ cs # <<>>
          /\ Quiet /\ WalkFits(w, cs, cache)
      BY <1>5, <2>0 DEF ReturnType, WalkInv
    <2>2. PICK last : last = cs[Len(cs)].of
      OBVIOUS
    <2>3. PICK after : after = IF Leaves(w, last) THEN Enter(cache, last, "final") ELSE cache
      OBVIOUS
    <2>4. calls' = SubSeq(cs, 1, Len(cs) - 1) /\ typeCache' = after
      BY <1>5, <2>0, <2>2, <2>3 DEF ReturnType, Active, Rest
    <2>5. PICK rest : rest = SubSeq(cs, 1, Len(cs) - 1)
      OBVIOUS
    <2>6. WalkFits(w, rest, after)
      BY <2>1, <2>2, <2>3, <2>5, CallDone
    <2>7. Quiet' /\ WalkFits(w, rest, after)'
      BY <2>1, <2>6, SameTypes
    <2> QED
      BY <2>1, <2>4, <2>5, <2>7 DEF WalkInv
  <1> QED
    BY <1>1, <1>2, <1>3, <1>4, <1>5 DEF DebugNext

LEMMA WalkImplied ==
  ASSUME TableInv, HeapInv, GraphInv, WalkInv
  PROVE  TemporariesReplaced
PROOF
  <1>1. CASE walk = "none" /\ calls = <<>> /\ typeCache = NoTypes
    BY <1>1 DEF TemporariesReplaced, WalkEnds, NoTypes
  <1>2. CASE Quiet /\ WalkFits(walk, calls, typeCache)
    <2>1. calls \in Seq([of : Ids, done : Nat]) /\ walk \in {"describe", "spell"}
      BY <1>2 DEF WalkFits
    <2>2. PICK n \in Nat : n = Len(calls) /\ DOMAIN calls = 1..n
      BY <2>1, LenProperties
    <2>3. \A k \in 1..n : calls[k].of \in Ids
      <3>1. \A k \in 1..n : calls[k] \in [of : Ids, done : Nat]
        BY <2>1, <2>2, ElementOfSeq
      <3> QED
        BY <3>1
    <2>4. calls = <<>> => \A t \in DOMAIN typeCache : typeCache[t] = "final"
      <3>1. calls = <<>> => Len(calls) = 0
        BY <2>1, EmptySeq
      <3>2. Len(calls) = 0 => \A t \in DOMAIN typeCache : typeCache[t] = "final"
        BY <1>2 DEF WalkFits
      <3> QED
        BY <3>1, <3>2
    <2>5. ASSUME NEW i \in 1..n, NEW j \in 1..n, i < j, calls[i].of = calls[j].of,
                 \A k \in i..j : ~Enters(walk, calls[k].of) /\ ~CompletedEarly(calls[k].of)
          PROVE  FALSE
      <3> DEFINE A == {calls[k].of : k \in i..(j - 1)}
      <3>1. /\ i \in i..(j - 1) /\ \A k \in i..(j - 1) : /\ k \in 1..(n - 1) /\ k \in 1..n
                                                     /\ k \in i..j /\ k + 1 \in i..j
                                                     /\ (k + 1 = j \/ k + 1 \in i..(j - 1))
        BY <2>5
      <3>2. ASSUME NEW k \in i..(j - 1)
            PROVE  /\ \E part \in Range(types[calls[k].of].to) :
                        calls[k + 1].of = Described(walk, part)
                   /\ Settled(calls[k].of)
        <4>1. PICK t \in Ids : t = calls[k].of
          BY <2>3, <3>1
        <4>l. \E part \in Range(Parts(walk, calls[k].of)) : calls[k + 1].of = Described(walk, part)
          BY <1>2, <2>2, <3>1 DEF WalkFits
        <4>2. PICK part \in Range(Parts(walk, t)) : calls[k + 1].of = Described(walk, part)
          BY <4>1, <4>l
        <4>3. ~Enters(walk, t) /\ ~CompletedEarly(t)
          BY <2>5, <3>1, <4>1
        <4>4. Parts(walk, t) = types[t].to /\ types[t].flavor # "StructT"
          BY <2>1, <4>2, <4>3, PartsOfOthers
        <4>5. ~types[t].ph
          BY <1>2 DEF Quiet
        <4> QED
          BY <4>1, <4>2, <4>3, <4>4, <4>5 DEF Settled
      <3>3. A \in SUBSET Ids /\ A # {} /\ \A a \in A : Settled(a)
        BY <2>3, <3>1, <3>2
      <3>4. PICK a \in A : Range(types[a].to) \cap A = {}
        BY <3>3 DEF GraphInv, RoundInv
      <3>5. PICK k \in i..(j - 1) : a = calls[k].of
        BY <3>4
      <3>6. PICK part \in Range(types[a].to) : calls[k + 1].of = Described(walk, part)
        BY <3>2, <3>5
      <3>7. part \in Ids
        <4>1. types[a].to \in Seq(Ids)
          BY <3>3 DEF HeapInv, Shaped
        <4> QED
          BY <3>6, <4>1, RangeOfList
      <3>8. calls[k + 1].of \in A
        <4>1. CASE k + 1 = j
          BY <2>5, <3>1, <4>1
        <4>2. CASE k + 1 \in i..(j - 1)
          BY <4>2
        <4> QED
          BY <3>1, <4>1, <4>2
      <3>9. Described(walk, part) = part
        <4>1. ~Enters(walk, calls[k + 1].of)
          BY <2>5, <3>1
        <4>2. \/ Described(walk, part) = part
              \/ Described(walk, part) = revNames[part] /\ Enters(walk, revNames[part])
          BY <1>2, <2>1, <3>7, DescribedIs
        <4> QED
          BY <3>6, <4>1, <4>2
      <3> QED
        BY <3>4, <3>6, <3>8, <3>9
    <2>6. WalkEnds
      <3>1. ASSUME NEW i \in 1..n, NEW j \in 1..n, i < j, calls[i].of = calls[j].of
            PROVE  ~Enters(walk, calls[i].of)
        BY <1>2, <2>2, <3>1 DEF WalkFits
      <3> QED
        BY <2>2, <2>5, <3>1 DEF WalkEnds
    <2> QED
      BY <2>4, <2>6 DEF TemporariesReplaced
  <1> QED
    BY <1>1, <1>2 DEF WalkInv

\* Whatever types the frontend has made, the walks that name and describe them enter no
\* struct and no cycle of pointers while they are in it, come back to another type only
\* through one of these or a function type that was completed too early, and have
\* replaced every temporary description when they end (buildStructDIType,
\* buildCircularPointerDIType, typToStringRec).
THEOREM WalksEndClean == DebugSpec => []TemporariesReplaced
PROOF
  <1> DEFINE IInv == TableInv /\ HeapInv /\ GraphInv /\ WalkInv
  <1>1. DebugInit => IInv
    BY TableInit, HeapInit, GraphInit DEF DebugInit, WalkInv
  <1>2. IInv /\ [DebugNext]_<<typeVars, walkVars>> => IInv'
    <2> SUFFICES ASSUME IInv, [DebugNext]_<<typeVars, walkVars>> PROVE IInv'
      OBVIOUS
    <2>1. WalkInv' /\ [TypeNext]_typeVars
      BY WalkInvStep
    <2> QED
      BY <2>1, TableInvStep, HeapInvStep, GraphInvStep
  <1>3. IInv => TemporariesReplaced
    BY WalkImplied
  <1> QED
    BY <1>1, <1>2, <1>3, PTL DEF DebugSpec
=============================================================================

--------------------------------- MODULE Types ---------------------------------
(***************************************************************************)
(* TypeManager of go-llvm-typemanager.cpp, with the types of                *)
(* go-llvm-btype.{h,cpp}.  The frontend asks for types; those that no LLVM  *)
(* type can be made of yet, because they contain a placeholder, are         *)
(* themselves placeholders, and are completed when what they wait for is.   *)
(* Anonymous types are shared through a table that is hashed by content.    *)
(* A Btype is a place in "types".  An LLVM type is a term, so that two are  *)
(* equal when LLVM makes them one, and an identified struct has a body      *)
(* that is set later.                                                       *)
(***************************************************************************)
EXTENDS Integers, Sequences, FiniteSets, Functions, TLC

CONSTANT
  Frontend  \* what a frontend may ask for: the requests it makes, bounds on the number
            \* of types and on the length of a cycle of pointer types

Requests == {"pointer", "struct", "array", "function", "named", "placeholder_pointer",
             "placeholder_struct", "placeholder_array", "circular", "again", "debug"}

ASSUME FrontendAssumption ==
  Frontend \subseteq [request : SUBSET Requests, maxTypes : Nat \ {0}, maxCycle : Nat \ {0}]

\* LLVM types.  An identified struct is named after the Btype it was made for.
LLInt == <<"int">>
LLOpaque(k) == <<"struct", k>>
LLPtr(l) == <<"ptr", l>>
LLArray(l) == <<"array", l>>
LLLiteral(ls) == <<"literal", ls>>
LLFunction(ls) == <<"function", ls>>

\* A Btype.  "to" lists toType, elemType, the fields, or the result and the parameters of
\* a function; it is empty in a placeholder that was not set.  Name 0 is no name.
Btype(flavor, name, ll, ph, to) ==
  [flavor |-> flavor, name |-> name, ll |-> ll, ph |-> ph, to |-> to]

VARIABLES
  frontend,        \* the frontend that is running
  types,           \* every Btype that was created
  anonTypes,       \* anonTypes_: types in the table, and the hash they were put in under
  placeholderRefs, \* placeholderRefs_: pairs of a type and one that waits for it
  placeholders,    \* placeholders_
  duplicates,      \* duplicates_
  revNames,        \* revNames_: the last type that was named after one
  body,            \* the bodies of identified structs that have one
  work,            \* the calls of postProcessResolvedPlaceholder that are active
  loop,            \* circularPointerLoop_
  markers,         \* circularPointerTypeMap_
  loadMap,         \* circularConversionLoadMap_
  addrMap,         \* circularConversionAddrMap_
  aborted          \* an assertion failed

tables == <<types, anonTypes, placeholderRefs>>
circular == <<loop, markers, loadMap, addrMap>>
typeVars == <<frontend, types, anonTypes, placeholderRefs, placeholders, duplicates,
              revNames, body, work, loop, markers, loadMap, addrMap, aborted>>

\* A table with an entry for k.
Enter(table, k, v) == [x \in DOMAIN table \cup {k} |-> IF x = k THEN v ELSE table[x]]

Ids == DOMAIN types
Idle == work = <<>> /\ ~aborted

\* Whether a type is a placeholder that others wait for: a struct never is.
UnresolvedPlaceholder(t) == types[t].ph /\ types[t].flavor # "StructT"

\* What Btype::hash looks at.
Hash(b) == <<b.flavor, b.name, b.ll>>

\* What Btype::equal compares before it goes down.
Alike(b, c) ==
  /\ b.flavor = c.flavor /\ b.name = c.name /\ b.ph = c.ph /\ b.ll = c.ll
  /\ Len(b.to) = Len(c.to)

\* Btype::equal, of a type and a candidate, in the heap h.
Equal(h, b, c) ==
  LET same[d \in Nat, x \in Nat, y \in Nat] ==
        \/ x = y
        \/ /\ d > 0
           /\ Alike(h[x], h[y])
           /\ \A i \in DOMAIN h[x].to : same[d - 1, h[x].to[i], h[y].to[i]]
  IN  /\ Alike(b, c)
      /\ \A i \in DOMAIN b.to : b.to[i] = c.to[i] \/ same[Len(h), b.to[i], c.to[i]]

\* anonTypes_.find: the entry with this hash and content.
Find(h, table, b) == {t \in DOMAIN table : table[t] = Hash(b) /\ Equal(h, h[t], b)}
Found(b) == Find(types, anonTypes, b)

\* The types among "to" that a type has to wait for.
Awaited(to) == {t \in Range(to) : UnresolvedPlaceholder(t)}

-----------------------------------------------------------------------------
\* Requests that make a type.

\* Mutant of AddType: the references are those of the next type.
AddTypeOffByOne(b) ==
  /\ Len(types) < frontend.maxTypes
  /\ types' = Append(types, b)
  /\ placeholderRefs' = placeholderRefs \cup (Awaited(b.to) \X {Len(types) + 2})

\* A new type, with the references it has (addPlaceholderRefs).
AddType(b) ==
  /\ Len(types) < frontend.maxTypes
  /\ types' = Append(types, b)
  /\ placeholderRefs' = placeholderRefs \cup (Awaited(b.to) \X {Len(types) + 1})

\* The type that is found for a candidate, or a new one, which the table may refuse.
Intern(cand, b) ==
  IF Found(cand) # {} THEN UNCHANGED tables
  ELSE /\ AddType(b)
       /\ anonTypes' = IF Found(b) = {}
                       THEN [t \in DOMAIN anonTypes \cup {Len(types) + 1} |->
                               IF t \in DOMAIN anonTypes THEN anonTypes[t] ELSE Hash(b)]
                       ELSE anonTypes

UnchangedButTables == UNCHANGED <<placeholders, duplicates, revNames, body, work, circular, aborted>>

\* The constructor of the candidate takes over the flag of a pointee or an element, also
\* of a struct; the type that is created gets the flag addPlaceholderRefs returns.
InternOver(flavor, ll, t) ==
  LET b == Btype(flavor, 0, ll, UnresolvedPlaceholder(t), <<t>>)
  IN  Intern([b EXCEPT !.ph = types[t].ph], b)

PointerType(t) ==
  /\ "pointer" \in frontend.request /\ Idle
  /\ InternOver("PointerT", LLPtr(types[t].ll), t)
  /\ UnchangedButTables

ArrayType(t) ==
  /\ "array" \in frontend.request /\ Idle
  /\ types[t].flavor # "FunctionT"
  /\ InternOver("ArrayT", LLArray(types[t].ll), t)
  /\ UnchangedButTables

LLOf(to) == [i \in DOMAIN to |-> types[to[i]].ll]

\* Fields of function type are turned into pointers to it first, which is a request of
\* its own; here the frontend has none.
StructType(fields) ==
  /\ "struct" \in frontend.request /\ Idle
  /\ IF Awaited(fields) # {}
     THEN LET b == Btype("StructT", 0, LLOpaque(Len(types) + 1), TRUE, fields)
          IN  Intern(b, b)
     ELSE LET b == Btype("StructT", 0, LLLiteral(LLOf(fields)), FALSE, fields)
          IN  Intern(b, b)
  /\ UnchangedButTables

\* The candidate is never a placeholder.
FunctionType(to) ==
  /\ "function" \in frontend.request /\ Idle
  /\ LET b == Btype("FunctionT", 0, LLFunction(LLOf(to)), FALSE, to)
     IN  Intern(b, [b EXCEPT !.ph = Awaited(to) # {}])
  /\ UnchangedButTables

\* A clone with a name; the frontend names the predeclared types and such.
NamedType(t) ==
  /\ "named" \in frontend.request /\ Idle
  /\ ~types[t].ph
  /\ AddType([types[t] EXCEPT !.name = Len(types) + 1])
  /\ revNames' = Enter(revNames, t, Len(types) + 1)
  /\ UNCHANGED <<anonTypes, placeholders, duplicates, body, work, circular, aborted>>

PlaceholderType(request, flavor, ll) ==
  /\ request \in frontend.request /\ Idle
  /\ AddType(Btype(flavor, Len(types) + 1, ll, TRUE, <<>>))
  /\ placeholders' = placeholders \cup {Len(types) + 1}
  /\ UNCHANGED <<anonTypes, duplicates, revNames, body, work, circular, aborted>>

PlaceholderPointerType ==
  PlaceholderType("placeholder_pointer", "PointerT", LLPtr(LLOpaque(Len(types) + 1)))
PlaceholderStructType ==
  PlaceholderType("placeholder_struct", "StructT", LLOpaque(Len(types) + 1))
PlaceholderArrayType ==
  PlaceholderType("placeholder_array", "ArrayT", LLOpaque(Len(types) + 1))

-----------------------------------------------------------------------------
\* Requests that complete a placeholder.

Users(refs, t) == {u \in Ids : <<t, u>> \in refs}

\* A call of postProcessResolvedPlaceholder.
Call(refs, t) == [of |-> t, left |-> Users(refs, t)]

\* The types a type is made of, down to those of other flavors.
Within(t, flavors) ==
  LET parts[d \in Nat] ==
        IF d = 0 THEN {t}
        ELSE parts[d - 1] \cup UNION {Range(types[u].to) :
                                        u \in {v \in parts[d - 1] : types[v].flavor \in flavors}}
  IN  parts[Len(types)]

IsUnset(p, flavor) == p \in placeholders /\ types[p].flavor = flavor /\ types[p].to = <<>>

\* A cycle of named pointer types is closed by the marker of its first type, and while it
\* is open the frontend comes back through it, from the type that points to the first one
\* to the first one.
InCycleOrder(p, t) ==
  loop # <<>> =>
     LET last == loop[Len(loop)] IN
     IF p = loop[1][1] THEN t = loop[1][2]
     ELSE /\ Len(loop) < frontend.maxCycle
          /\ types[t].to = <<IF Len(loop) = 1 THEN last[2] ELSE last[1]>>

\* A redirection may be repeated.  (One to a type that was no pointer of its own yet,
\* repeated when it is, would take the type away under those that were made of it: see
\* RedirectsAgree, which is what goes wrong first.)
MaySetPointer(p, t) ==
  /\ types[t].ll[1] = "ptr"
  /\ p \notin Within(t, {"PointerT", "FunctionT"})
  /\ InCycleOrder(p, t)
  /\ \/ IsUnset(p, "PointerT")
     \/ /\ "again" \in frontend.request
        /\ types[p].flavor = "PointerT" /\ types[p].to = <<t>>
        /\ types[p].ll = types[t].ll

\* The end of a cycle: the conversions of loads from it and of addresses into it.
CloseLoop(p, t) ==
  LET ad == loop[IF Len(loop) = 1 THEN 1 ELSE 2]
      load == loop[Len(loop)][2]
  IN  /\ loadMap' = Enter(Enter(loadMap, p, load), t, load)
      /\ addrMap' = Enter(Enter(addrMap, ad[2], t), ad[1], t)

AdvanceLoop(p, t) ==
  \/ /\ loop = <<>>
     /\ UNCHANGED <<loop, loadMap, addrMap>>
  \/ /\ loop # <<>> /\ loop[1][2] = t
     /\ CloseLoop(p, t)
     /\ loop' = <<>>
  \/ /\ loop # <<>> /\ loop[1][2] # t
     /\ loop' = Append(loop, <<p, t>>)
     /\ UNCHANGED <<loadMap, addrMap>>

\* Also setPlaceholderFunctionType.
SetPlaceholderPointerType(p, t) ==
  /\ Idle
  /\ MaySetPointer(p, t)
  /\ IF UnresolvedPlaceholder(t)
     THEN /\ types' = [types EXCEPT ![p].to = <<t>>, ![p].ll = types[t].ll]
          /\ placeholderRefs' = placeholderRefs \cup {<<t, p>>}
          /\ UNCHANGED work
     ELSE /\ types' = [types EXCEPT ![p].to = <<t>>, ![p].ll = types[t].ll,
                                    ![p].ph = FALSE]
          /\ work' = <<Call(placeholderRefs, p)>>
          /\ UNCHANGED placeholderRefs
  /\ AdvanceLoop(p, t)
  /\ UNCHANGED <<anonTypes, placeholders, duplicates, revNames, body, markers,
                 aborted>>

\* LLVM lets the body of a struct be set once.
SetBody(b, s, fields) ==
  IF s \in DOMAIN b THEN b ELSE Enter(b, s, LLOf(fields))

SetPlaceholderStructType(p, fields) ==
  /\ Idle
  /\ IsUnset(p, "StructT")
  /\ \A f \in Range(fields) : p \notin Within(f, {"StructT", "ArrayT"})
  /\ IF Awaited(fields) = {}
     THEN /\ types' = [types EXCEPT ![p].to = fields, ![p].ph = FALSE]
          /\ body' = SetBody(body, types[p].ll[2], fields)
          /\ aborted' = (types[p].ll[2] \in DOMAIN body)
          /\ work' = <<Call(placeholderRefs, p)>>
          /\ UNCHANGED placeholderRefs
     ELSE /\ types' = [types EXCEPT ![p].to = fields]
          /\ placeholderRefs' = placeholderRefs \cup (Awaited(fields) \X {p})
          /\ UNCHANGED <<body, work, aborted>>
  /\ UNCHANGED <<anonTypes, placeholders, duplicates, revNames, circular>>

\* By way of an auxiliary type of the array and updatePlaceholderUnderlyingType.
SetPlaceholderArrayType(p, t) ==
  /\ Idle
  /\ IsUnset(p, "ArrayT")
  /\ types[t].flavor # "FunctionT" /\ p \notin Within(t, {"StructT", "ArrayT"})
  /\ LET ph == UnresolvedPlaceholder(t) IN
     /\ types' = [types EXCEPT ![p].to = <<t>>, ![p].ll = LLArray(types[t].ll), ![p].ph = ph]
     /\ placeholderRefs' = placeholderRefs \cup (Awaited(<<t>>) \X {p})
     /\ work' = IF ph THEN <<>> ELSE <<Call(placeholderRefs, p)>>
  /\ UNCHANGED <<anonTypes, placeholders, duplicates, revNames, body, circular, aborted>>

\* The marker that stands for a type in a cycle of pointers, from the second request on
\* the same one.
CircularPointerType(p) ==
  /\ "circular" \in frontend.request /\ Idle
  /\ IsUnset(p, "PointerT")
  /\ p \notin DOMAIN markers /\ loop = <<>>
  /\ LET m == Len(types) + 1 IN
     /\ AddType(Btype("AuxT", 0, LLPtr(LLOpaque(m)), FALSE, <<>>))
     /\ markers' = Enter(markers, p, m)
     /\ loop' = <<<<p, m>>>>
  /\ UNCHANGED <<anonTypes, placeholders, duplicates, revNames, body, work, loadMap,
                 addrMap, aborted>>

-----------------------------------------------------------------------------
\* postProcessResolvedPlaceholder: the types that waited are visited in the order of
\* their addresses, which is any order, and each that is complete is taken further at
\* once.  The top of the stack is the call that is active.

Top == work[Len(work)]
Visited(u) == [work EXCEPT ![Len(work)].left = @ \ {u}]

\* What postProcessResolved{Pointer,Array,Function}Placeholder make of a type.
ResolvedLL(u, t) ==
  CASE types[u].flavor = "PointerT"  -> LLPtr(types[t].ll)
    [] types[u].flavor = "ArrayT"    -> LLArray(types[t].ll)
    [] types[u].flavor = "FunctionT" -> LLFunction(LLOf(types[u].to))

Without(u) == Restrict(anonTypes, DOMAIN anonTypes \ Found(types[u]))

\* Mutant of Rehash: the type stays where it was in the table.
RehashNot(u, h) == UNCHANGED <<anonTypes, duplicates>>

\* removeAnonType before a type is changed and reinstallAnonType after it: a type that
\* is in the table with the new content makes this one a duplicate.
Rehash(u, h) ==
  IF Found(types[u]) = {} THEN UNCHANGED <<anonTypes, duplicates>>
  ELSE IF Find(h, Without(u), h[u]) # {}
       THEN anonTypes' = Without(u) /\ duplicates' = duplicates \cup {u}
       ELSE /\ anonTypes' = [t \in DOMAIN Without(u) \cup {u} |->
                               IF t = u THEN Hash(h[u]) ELSE anonTypes[t]]
            /\ UNCHANGED duplicates

\* The fields that a struct still waits for when t is resolved.
StillAwaited(u, t) == Awaited(types[u].to) \ {t}

\* Mutant of Skipped: a struct is completed with its first field.
SkippedComplete(u, t) == ~types[u].ph

\* What the visit leaves alone.
Skipped(u, t) == \/ ~types[u].ph
                 \/ types[u].flavor = "StructT" /\ StillAwaited(u, t) # {}

VisitSkipped(u) ==
  /\ work # <<>> /\ ~aborted
  /\ u \in Top.left /\ Skipped(u, Top.of)
  /\ work' = Visited(u)
  /\ UNCHANGED <<tables, placeholders, duplicates, revNames, body, circular, aborted>>

\* Mutant of CallFor: the types that wait for a type of the table are not visited.
CallNone(u) == [of |-> u, left |-> {}]

CallFor(u) == Call(placeholderRefs, u)

\* A struct stays where it is in the table: the hash does not look at what changes.
VisitStruct(u) ==
  /\ work # <<>> /\ ~aborted
  /\ u \in Top.left /\ ~Skipped(u, Top.of)
  /\ types[u].flavor = "StructT"
  /\ body' = SetBody(body, types[u].ll[2], types[u].to)
  /\ aborted' = (types[u].ll[2] \in DOMAIN body)
  /\ types' = [types EXCEPT ![u].ph = FALSE]
  /\ work' = Append(Visited(u), CallFor(u))
  /\ UNCHANGED <<anonTypes, placeholderRefs, placeholders, duplicates, revNames, circular>>

VisitOther(u) ==
  /\ work # <<>> /\ ~aborted
  /\ u \in Top.left /\ ~Skipped(u, Top.of)
  /\ types[u].flavor # "StructT"
  /\ types' = [types EXCEPT ![u].ll = ResolvedLL(u, Top.of), ![u].ph = FALSE]
  /\ Rehash(u, types')
  /\ work' = Append(Visited(u), CallFor(u))
  /\ UNCHANGED <<placeholderRefs, placeholders, revNames, body, circular, aborted>>

Return ==
  /\ work # <<>> /\ ~aborted
  /\ Top.left = {}
  /\ work' = SubSeq(work, 1, Len(work) - 1)
  /\ UNCHANGED <<tables, placeholders, duplicates, revNames, body, circular, aborted>>

-----------------------------------------------------------------------------
TypeInit ==
  /\ frontend \in Frontend
  /\ types = <<Btype("IntegerT", 0, LLInt, FALSE, <<>>)>>
  /\ anonTypes = [t \in Ids |-> Hash(types[t])]
  /\ placeholderRefs = {} /\ placeholders = {} /\ duplicates = {}
  /\ body = [s \in {} |-> <<>>]
  /\ work = <<>>
  /\ loop = <<>>
  /\ markers = [p \in {} |-> 0] /\ loadMap = markers /\ addrMap = markers
  /\ revNames = markers
  /\ aborted = FALSE

\* Fields, or the result and the parameters of a function: no member is a function.
Fields == LET data == {t \in Ids : types[t].flavor # "FunctionT"} IN
          {<<t>> : t \in data} \cup (data \X data)

TypeStep ==
  \/ \E t \in Ids : PointerType(t) \/ ArrayType(t) \/ NamedType(t)
  \/ \E to \in Fields : StructType(to) \/ FunctionType(to)
  \/ PlaceholderPointerType \/ PlaceholderStructType \/ PlaceholderArrayType
  \/ \E p \in placeholders, t \in Ids :
        SetPlaceholderPointerType(p, t) \/ SetPlaceholderArrayType(p, t)
  \/ \E p \in placeholders, to \in Fields : SetPlaceholderStructType(p, to)
  \/ \E p \in placeholders : CircularPointerType(p)
  \/ \E u \in Ids : VisitSkipped(u) \/ VisitStruct(u) \/ VisitOther(u)
  \/ Return

TypeNext == TypeStep /\ UNCHANGED frontend

TypeSpec == TypeInit /\ [][TypeNext]_typeVars

-----------------------------------------------------------------------------
Flavors == {"IntegerT", "PointerT", "StructT", "ArrayT", "FunctionT", "AuxT"}

\* The destructor deletes the types of every table: none is in two.
OwnedOnce ==
  /\ placeholders \cap (DOMAIN anonTypes \cup duplicates) = {}
  /\ duplicates \cap DOMAIN anonTypes = {}

\* A load from a cycle of pointer types and taking an address into it are inverses
\* (circularTypeLoadConversion, circularTypeAddrConversion).
ConversionsInverse ==
  loop = <<>> => \A p \in DOMAIN markers : markers[p] \in DOMAIN loadMap =>
     LET m == markers[p] IN
     loadMap[m] \in DOMAIN addrMap /\ addrMap[loadMap[m]] = m

\* Every reference is to a type that exists, and the tables hold such types; no type has
\* two owners, and the tables of conversions fit each other.
TypesOK ==
  /\ \A t \in Ids : /\ types[t].flavor \in Flavors
                    /\ types[t].name \in 0..Len(types)
                    /\ types[t].ph \in BOOLEAN
                    /\ types[t].to \in Seq(Ids)
  /\ DOMAIN anonTypes \subseteq Ids
  /\ placeholderRefs \subseteq Ids \X Ids
  /\ placeholders \subseteq Ids /\ duplicates \subseteq Ids
  /\ DOMAIN body \subseteq Ids
  /\ \A i \in DOMAIN work : work[i].of \in Ids /\ work[i].left \subseteq Ids
  /\ OwnedOnce
  /\ ConversionsInverse

\* The LLVM type that the parts of a type call for.
Built(t) ==
  CASE types[t].flavor = "PointerT" -> LLPtr(types[types[t].to[1]].ll)
    [] types[t].flavor = "ArrayT"   -> LLArray(types[types[t].to[1]].ll)
    [] types[t].flavor = "StructT" /\ types[t].ll[1] = "literal" ->
         LLLiteral(LLOf(types[t].to))
    [] types[t].flavor = "FunctionT" -> LLFunction(LLOf(types[t].to))
    [] OTHER -> types[t].ll
BodyOf(t) == IF types[t].ll[2] \in DOMAIN body THEN body[types[t].ll[2]] ELSE <<>>

\* A placeholder that was redirected to a pointer type is that type; so is a clone of it.
Redirected(t) ==
  /\ types[t].flavor = "PointerT" /\ types[t].name # 0
  /\ types[t].ll = types[types[t].to[1]].ll

\* A function type that waited for two types, or a clone of it: it is taken to be complete
\* with the first of them.
CompletedEarly(t) ==
  /\ types[t].flavor = "FunctionT"
  /\ \E u \in Ids :
       /\ types[u].flavor = "FunctionT" /\ ~types[u].ph
       /\ types[u].to = types[t].to /\ types[u].ll = types[t].ll
       /\ \E x, y \in Ids : x # y /\ {<<x, u>>, <<y, u>>} \subseteq placeholderRefs

\* A type that is no placeholder has the LLVM type its parts have by now, in whatever
\* order the placeholders in it were completed (postProcessResolvedPlaceholder); and the
\* body of a struct is set once (the assertion of StructType::setBody).
ConcreteAgree ==
  /\ ~aborted
  /\ \A t \in Ids : ~types[t].ph =>
     /\ types[t].ll = Built(t) \/ Redirected(t) \/ CompletedEarly(t)
     /\ types[t].flavor = "StructT" /\ types[t].ll[1] = "struct" =>
          BodyOf(t) = LLOf(types[t].to)

\* No two entries have become the same type as placeholders were completed: the table
\* would answer a request with either (reinstallAnonType).
EntriesDiffer ==
  \A t, u \in DOMAIN anonTypes : t # u => ~Equal(types, types[t], types[u])

\* An entry of the table is in the bucket a lookup of its content goes to: no type is
\* changed while it is in the table (removeAnonType, reinstallAnonType).
EntriesFresh == \A t \in DOMAIN anonTypes : anonTypes[t] = Hash(types[t])

\* A lookup in the table finds the one entry it is to find, whichever types have been
\* changed since they were entered.
HashFresh == EntriesDiffer /\ EntriesFresh

\* What a type waits for, directly or through others.
AwaitedBy(t) ==
  LET up[d \in Nat] ==
        LET below == IF d = 0 THEN {t} ELSE up[d - 1] IN
        (IF d = 0 THEN {} ELSE below) \cup
        {w \in Ids : UnresolvedPlaceholder(w) /\ \E u \in below : <<w, u>> \in placeholderRefs}
  IN  up[Len(types)]

\* A type that is still a placeholder when nothing is being completed waits for one the
\* frontend did not set, or for an array that waits for itself: no type is forgotten
\* by addPlaceholderRefs or by postProcessResolvedPlaceholder.
NoneForgotten ==
  Idle => \A t \in Ids : types[t].ph =>
             \E w \in {t} \cup AwaitedBy(t) :
                \/ w \in placeholders /\ types[w].to = <<>>
                \/ types[w].flavor = "ArrayT" /\ w \in AwaitedBy(w)

\* A placeholder pointer that was redirected to a type is that pointer type in the end,
\* also when that one was a placeholder itself (setPlaceholderPointerType).
RedirectsAgree ==
  Idle => \A p \in placeholders :
             types[p].flavor = "PointerT" /\ ~types[p].ph =>
                types[p].ll = types[types[p].to[1]].ll
=============================================================================

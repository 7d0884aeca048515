------------------------------ MODULE DebugTypes ------------------------------
(***************************************************************************)
(* What TypeManager makes by going through a type: its name, and the debug  *)
(* information of it.  Types may be cyclic, so the two walks keep what they *)
(* have begun: a struct or a cycle of pointers is entered as a temporary,   *)
(* which is replaced when the walk is back.                                 *)
(***************************************************************************)
EXTENDS Types

VARIABLES
  walk,      \* "none", "describe" (buildDIType), "spell" (typToStringRec)
  calls,     \* the active calls, and how many parts each has been through
  typeCache  \* typeCache_ of the helper, smap: "temporary" or "final"

walkVars == <<walk, calls, typeCache>>

-----------------------------------------------------------------------------
NewType(t) == [of |-> t, done |-> 0]
Named(t) == types[t].name # 0 /\ t \notin placeholders
ByName(w, t) == w = "spell" /\ (Named(t) \/ t \in DOMAIN revNames)
Markers == Range(markers)

\* buildStructDIType and buildCircularPointerDIType go on with the name of a type.
Described(w, t) ==
  IF w = "describe" /\ types[t].flavor \in {"StructT", "AuxT"} /\ t \in DOMAIN revNames
  THEN revNames[t] ELSE t

\* The parts a call goes through: a name is spelled as it is, a marker stands for what a
\* load from the cycle gives.
Parts(w, t) ==
  CASE w = "describe" /\ t \in Markers -> <<loadMap[t]>>
    [] w = "spell" /\ (ByName(w, t) \/ t \in Markers) -> <<>>
    [] OTHER -> types[t].to

\* What is entered before its parts are looked at.
Enters(w, t) == \/ types[t].flavor = "StructT" /\ ~ByName(w, t)
                \/ w = "describe" /\ t \in Markers

\* Mutant of Leaves: what was entered as a temporary stays one.
LeavesSpelled(w, t) == w = "spell"

\* What is in the cache when its call returns.
Leaves(w, t) == Enters(w, t) \/ (w = "spell" /\ ~ByName(w, t))

Cached(cache, w, t, state) == IF Enters(w, t) THEN Enter(cache, t, state) ELSE cache
NoTypes == [t \in {} |-> "final"]

\* What the frontend names when types go by the names of others: the predeclared types,
\* which are made without placeholders.  (The name of a struct that leads back to the
\* struct would be entered again and again.)
NamedApart ==
  \A t \in DOMAIN revNames : types[t].flavor \in {"StructT", "AuxT"} =>
     \A u \in Within(t, Flavors) : u \notin placeholders /\ types[u].flavor # "AuxT"

\* Debug information is made when the frontend has completed every type.
Begin(w, t) ==
  /\ "debug" \in frontend.request
  /\ walk = "none" /\ Idle /\ loop = <<>>
  /\ (\A u \in Ids : ~types[u].ph) /\ NamedApart
  /\ walk' = w
  /\ calls' = <<NewType(Described(w, t))>>
  /\ typeCache' = Cached(NoTypes, w, Described(w, t), "temporary")
  /\ UNCHANGED typeVars

Active == calls[Len(calls)]
Rest == SubSeq(calls, 1, Len(calls) - 1)

NextPart ==
  /\ calls # <<>>
  /\ Active.done < Len(Parts(walk, Active.of))
  /\ LET part == Parts(walk, Active.of)[Active.done + 1]
         now == Append(Rest, [Active EXCEPT !.done = @ + 1])
     IN  IF part \in DOMAIN typeCache
         THEN calls' = now /\ UNCHANGED typeCache
         ELSE /\ calls' = Append(now, NewType(Described(walk, part)))
              /\ typeCache' = Cached(typeCache, walk, Described(walk, part), "temporary")
  /\ UNCHANGED <<typeVars, walk>>

\* The temporary is replaced and the cache updated.
ReturnType ==
  /\ calls # <<>>
  /\ Active.done = Len(Parts(walk, Active.of))
  /\ typeCache' = IF Leaves(walk, Active.of) THEN Enter(typeCache, Active.of, "final")
                  ELSE typeCache
  /\ calls' = Rest
  /\ UNCHANGED <<typeVars, walk>>

DebugInit == TypeInit /\ walk = "none" /\ calls = <<>> /\ typeCache = NoTypes

DebugNext ==
  \/ walk = "none" /\ TypeNext /\ UNCHANGED walkVars
  \/ \E t \in Ids : Begin("describe", t) \/ Begin("spell", t)
  \/ NextPart
  \/ ReturnType

DebugSpec == DebugInit /\ [][DebugNext]_<<typeVars, walkVars>>

\* The walk through a cyclic type comes to an end: a struct or a cycle of pointers is not
\* entered again while its description is being made, and no way leads back to any other
\* type but through one of these, so that each round enters one more of them (the cache,
\* smap and the markers of cycles).  Only a function type that was completed too early
\* may close a round of its own.
WalkEnds ==
  \A i, j \in DOMAIN calls : i < j /\ calls[i].of = calls[j].of =>
     /\ ~Enters(walk, calls[i].of)
     /\ \E k \in i..j : Enters(walk, calls[k].of) \/ CompletedEarly(calls[k].of)

\* Every temporary description that was handed out has been replaced at the end
\* (replaceTemporary in buildStructDIType and buildCircularPointerDIType).
TemporariesReplaced ==
  /\ WalkEnds
  /\ calls = <<>> => \A t \in DOMAIN typeCache : typeCache[t] = "final"
=============================================================================

------------------------------ MODULE EightBytes ------------------------------
(***************************************************************************)
(* EightByteInfo of go-llvm-cabi-oracle.cpp: an object of at most 16 bytes  *)
(* that is passed in registers is divided into one or two regions of eight  *)
(* bytes, and each gets the LLVM type that carries it.  The loops of        *)
(* explodeStruct, explodeArray and determineABITypes are taken one          *)
(* iteration at a time.  The layout of types is LLVM's (DataLayout).        *)
(***************************************************************************)
EXTENDS Naturals, Sequences

CONSTANT Types  \* the types that are classified

\* A scalar has its size; "sub" has the field types of a struct, or the element
\* type of an array; "n" is the length of an array.
Btype(k, size, uns, sub, n) ==
  [k |-> k, size |-> size, unsigned |-> uns, sub |-> sub, n |-> n]
Int(size) == Btype("int", size, FALSE, <<>>, 0)
Uint(size) == Btype("int", size, TRUE, <<>>, 0)
Float(size) == Btype("float", size, FALSE, <<>>, 0)
Pointer == Btype("pointer", 8, FALSE, <<>>, 0)
Struct(fields) == Btype("struct", 0, FALSE, fields, 0)
Array(elem, n) == Btype("array", 0, FALSE, <<elem>>, n)

Largest(S) == CHOOSE x \in S : \A y \in S : y <= x
RoundUp(x, a) == ((x + a - 1) \div a) * a

RECURSIVE Align(_), AllocSize(_), FieldOffset(_, _), Leaves(_, _),
          StructLeaves(_, _, _), ArrayLeaves(_, _, _), TypDisp(_), StructDisp(_, _)

\* DataLayout: natural alignment; a struct is aligned as its strictest field.
Align(t) ==
  CASE t.k = "struct" -> Largest({1} \cup {Align(t.sub[j]) : j \in DOMAIN t.sub})
    [] t.k = "array"  -> Align(t.sub[1])
    [] OTHER          -> t.size

\* typeFieldOffset; one past the last field it is where the data of t end.
FieldOffset(t, j) ==
  IF j = 1 THEN 0
  ELSE LET end == FieldOffset(t, j - 1) + AllocSize(t.sub[j - 1])
       IN  IF j > Len(t.sub) THEN end ELSE RoundUp(end, Align(t.sub[j]))

\* allocSize, and typeSize of every type that is not an odd integer.
AllocSize(t) ==
  CASE t.k = "struct" -> RoundUp(FieldOffset(t, Len(t.sub) + 1), Align(t))
    [] t.k = "array"  -> t.n * AllocSize(t.sub[1])
    [] OTHER          -> t.size

\* addLeafTypes: the scalars of t, a type at an offset, with their offsets.
Leaves(t, off) ==
  CASE t.k = "struct" -> StructLeaves(t, off, 1)
    [] t.k = "array"  -> ArrayLeaves(t, off, 0)
    [] OTHER          -> << <<t, off>> >>
StructLeaves(t, off, j) ==
  IF j > Len(t.sub) THEN <<>>
  ELSE Leaves(t.sub[j], off + FieldOffset(t, j)) \o StructLeaves(t, off, j + 1)
ArrayLeaves(t, off, i) ==
  IF i = t.n THEN <<>>
  ELSE Leaves(t.sub[1], off + i * AllocSize(t.sub[1])) \o ArrayLeaves(t, off, i + 1)

\* Mutant of DispMeet: a region is SSE as soon as one of its fields is.
DispMeetSSE(d1, d2) ==
  CASE d1 = d2       -> d1
    [] d1 = "empty"  -> d2
    [] d2 = "empty"  -> d1
    [] OTHER         -> "sse"

\* dispMeet
DispMeet(d1, d2) ==
  CASE d1 = d2       -> d1
    [] d1 = "empty"  -> d2
    [] d2 = "empty"  -> d1
    [] OTHER         -> "int"

\* getTypDisp
TypDisp(t) ==
  CASE t.k = "float"  -> "sse"
    [] t.k = "array"  -> TypDisp(t.sub[1])
    [] t.k = "struct" -> StructDisp(t, Len(t.sub))
    [] OTHER          -> "int"
StructDisp(t, j) ==
  IF j = 0 THEN "empty" ELSE DispMeet(TypDisp(t.sub[j]), StructDisp(t, j - 1))

\* The type that carries a region: "int" of 1 to 8 bytes, "float" of 4 or 8, or a
\* "vector" of two floats.
Carrier(k, bytes) == [k |-> k, bytes |-> bytes]
NoCarrier == Carrier("none", 0)

NewRegion == [types |-> <<>>, offsets |-> <<>>, abi |-> NoCarrier, attr |-> "none"]

VARIABLES
  bt,         \* the type
  todo,       \* its leaves, or its elements, that are still to be placed
  curOffset,  \* curOffset of explodeArray
  regions,    \* ebrs_
  phase       \* "explode", "carriers", "done", or "aborted": an assertion failed

vars == <<bt, todo, curOffset, regions, phase>>

Elements(t) == [i \in 1..t.n |-> <<t.sub[1], (i - 1) * AllocSize(t.sub[1])>>]

\* The oracle only divides objects that classifyArgType finds direct.
Init ==
  /\ bt \in {t \in Types : AllocSize(t) \in 1..16}
  /\ todo = IF bt.k = "array" THEN Elements(bt) ELSE Leaves(bt, 0)
  /\ curOffset = 0
  /\ regions = <<>>
  /\ phase = "explode"

\* Put a type at an offset into the last region, or into a new one.
Place(opens) ==
  LET rs == IF opens THEN Append(regions, NewRegion) ELSE regions
      r == Len(rs)
  IN  regions' = [rs EXCEPT ![r].types = Append(@, Head(todo)[1]),
                            ![r].offsets = Append(@, Head(todo)[2])]

\* Mutant of OpensRegion: the boundary belongs to the first region.
OpensRegionLate(off) == regions = <<>> \/ (off > 8 /\ Len(regions) = 1)

\* explodeStruct: whether a leaf at this offset opens a region.
OpensRegion(off) == regions = <<>> \/ (off >= 8 /\ Len(regions) = 1)

ExplodeStruct ==
  /\ phase = "explode" /\ bt.k = "struct" /\ todo # <<>>
  /\ Place(OpensRegion(Head(todo)[2]))
  /\ todo' = Tail(todo)
  /\ UNCHANGED <<bt, curOffset, phase>>

\* explodeArray: the elements stay whole, and the offsets are added up.
ExplodeArray ==
  /\ phase = "explode" /\ bt.k = "array" /\ todo # <<>>
  /\ LET off == Head(todo)[2] IN
     /\ Place(regions = <<>> \/ (off >= 8 /\ curOffset < 8))
     /\ curOffset' = curOffset + off
  /\ todo' = Tail(todo)
  /\ UNCHANGED <<bt, phase>>

IncorporateScalar ==
  /\ phase = "explode" /\ bt.k \notin {"struct", "array"} /\ todo # <<>>
  /\ regions' = <<[types |-> <<bt>>, offsets |-> <<0>>,
                   abi |-> Carrier(IF bt.k = "float" THEN "float" ELSE "int", bt.size),
                   attr |-> IF bt.k = "int" /\ bt.size < 4
                            THEN IF bt.unsigned THEN "zext" ELSE "sext"
                            ELSE "none"]>>
  /\ todo' = <<>>
  /\ UNCHANGED <<bt, curOffset, phase>>

\* EightByteInfo asserts that there are at most two regions.
Exploded ==
  /\ phase = "explode" /\ todo = <<>>
  /\ phase' = IF Len(regions) <= 2 THEN "carriers" ELSE "aborted"
  /\ UNCHANGED <<bt, todo, curOffset, regions>>

RECURSIVE DispOfTypes(_)
DispOfTypes(ts) ==
  IF ts = <<>> THEN "empty" ELSE DispMeet(TypDisp(Head(ts)), DispOfTypes(Tail(ts)))
RegionDisp(r) == DispOfTypes(r.types)

\* From the first field of the region to the end of its last.
RegionBytes(r) ==
  LET n == Len(r.types) IN r.offsets[n] - r.offsets[1] + AllocSize(r.types[n])

\* determineABITypes, the type of a region; NoCarrier when an assertion fails.
RegionCarrier(r) ==
  LET n == Len(r.types) IN
  CASE RegionDisp(r) = "sse" /\ n = 2 -> Carrier("vector", 8)
    [] RegionDisp(r) = "sse" /\ n = 1 ->
         IF r.types[1].k = "float" THEN Carrier("float", r.types[1].size)
                                   ELSE NoCarrier
    [] RegionDisp(r) = "sse" /\ n > 2 -> NoCarrier
    [] OTHER -> IF RegionBytes(r) \in 1..8 THEN Carrier("int", RegionBytes(r))
                                           ELSE NoCarrier

DetermineABIType ==
  /\ phase = "carriers"
  /\ \E r \in DOMAIN regions :
       /\ regions[r].abi = NoCarrier
       /\ \A q \in 1..(r - 1) : regions[q].abi # NoCarrier
       /\ IF RegionCarrier(regions[r]) = NoCarrier
          THEN phase' = "aborted" /\ UNCHANGED regions
          ELSE /\ regions' = [regions EXCEPT ![r].abi = RegionCarrier(regions[r])]
               /\ UNCHANGED phase
  /\ UNCHANGED <<bt, todo, curOffset>>

Determined ==
  /\ phase = "carriers"
  /\ \A r \in DOMAIN regions : regions[r].abi # NoCarrier
  /\ phase' = "done"
  /\ UNCHANGED <<bt, todo, curOffset, regions>>

Next == ExplodeStruct \/ ExplodeArray \/ IncorporateScalar \/ Exploded
        \/ DetermineABIType \/ Determined

Spec == Init /\ [][Next]_vars

-----------------------------------------------------------------------------
(* How the pieces of an object are read and stored.                         *)

\* An integer of an odd number of bytes is aligned as the next power of two, and
\* its slot in a struct is as large.
CarrierAlign(c) == CHOOSE a \in {1, 2, 4, 8} : a >= c.bytes /\ a < 2 * c.bytes

\* Mutant of PieceOffset: the struct of the two carriers is packed.
PieceOffsetPacked(i) == IF i = 1 THEN 0 ELSE regions[1].abi.bytes

\* computeABIStructType: piece i is field i of a struct of the carriers, which a
\* pointer to the object is cast to.
PieceOffset(i) ==
  IF i = 1 THEN 0
  ELSE RoundUp(CarrierAlign(regions[1].abi), CarrierAlign(regions[2].abi))

PieceBytes ==
  UNION {PieceOffset(i)..(PieceOffset(i) + regions[i].abi.bytes - 1) :
         i \in DOMAIN regions}

Scalars == LET ls == Leaves(bt, 0) IN {ls[j] : j \in DOMAIN ls}
BytesOf(leaf) == leaf[2]..(leaf[2] + leaf[1].size - 1)

-----------------------------------------------------------------------------
(* Properties.                                                              *)

\* No assertion of EightByteInfo fails.
NeverAborts == phase # "aborted"

\* Every byte of a field is in one of the pieces, and no piece reads past the
\* object: genCallMarshallArgs loads all of the contents, genArgSpill stores them.
ContentsPassed ==
  phase = "done" =>
    /\ \A leaf \in Scalars : BytesOf(leaf) \subseteq PieceBytes
    /\ PieceBytes \subseteq 0..(AllocSize(bt) - 1)

\* The AMD64 ABI (section 3.2.3) classifies each eightbyte by the scalars in it:
\* INTEGER if one of them is, SSE otherwise.
ABIClass(e) ==
  LET inside == {leaf \in Scalars : leaf[2] \div 8 = e}
  IN  IF \E leaf \in inside : leaf[1].k # "float" THEN "int" ELSE "sse"

\* The regions found are the eightbytes of the ABI, in the same registers.
FollowsABI ==
  phase = "done" =>
    /\ Len(regions) = RoundUp(AllocSize(bt), 8) \div 8
    /\ \A r \in DOMAIN regions :
         (RegionDisp(regions[r]) = "sse") <=> (ABIClass(r - 1) = "sse")

\* The table in front of explodeArray gives a [6]uint16 two regions, the second from
\* byte 8 on; that of explodeStruct says the same of every object of more than 8.
TwoRegionsBeyondEight ==
  todo = <<>> /\ AllocSize(bt) > 8 => Len(regions) = 2

=============================================================================

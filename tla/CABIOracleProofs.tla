--------------------------- MODULE CABIOracleProofs ---------------------------
(***************************************************************************)
(* The offsets the oracle hands out are those of the signature it builds,   *)
(* for every set of types and every function type.  The offsets divide the  *)
(* slots among the entries of infov_ in increasing order and without gaps;  *)
(* so whoever walks the entries in order and counts the slots he passes is  *)
(* at the offset of an entry when he comes to it (lemma CursorAtOffset).    *)
(* And the registers ABIState has left are those the slots handed out so    *)
(* far leave to LLVM.                                                       *)
(***************************************************************************)
EXTENDS CABIOracle, SequenceTheorems, FiniteSetTheorems, TLAPS

\* Whether entry i of v has slots in the signature, and where these end.
HasSlots(v, i) == v[i].disp # "ignore" /\ v[i].sigOffset >= 0
End(v, i) == v[i].sigOffset + Len(v[i].abiTypes)

\* The slots below "count" are divided among the entries in increasing order.
Divided(v, count) ==
  /\ \A i \in DOMAIN v : HasSlots(v, i) => End(v, i) <= count
  /\ \A i, j \in DOMAIN v : i < j /\ HasSlots(v, i) /\ HasSlots(v, j) =>
       End(v, i) <= v[j].sigOffset
  /\ \A s \in Nat : s < count =>
       \E i \in DOMAIN v : HasSlots(v, i) /\ v[i].sigOffset <= s /\ s < End(v, i)

\* The first i entries have slots below c, the others only slots from c on.
Cursor(v, i, c) ==
  /\ \A k \in DOMAIN v : k <= i /\ HasSlots(v, k) => End(v, k) <= c
  /\ \A k \in DOMAIN v : k > i /\ HasSlots(v, k) => v[k].sigOffset >= c

\* The slots of the first i entries have the types of their pieces in "types".
Filled(v, i, types) ==
  \A k \in DOMAIN v : k <= i /\ HasSlots(v, k) =>
    \A j \in 1..Len(v[k].abiTypes) : types[v[k].sigOffset + j] = v[k].abiTypes[j]

\* An entry has slots exactly if analyze adds something to the signature for it.
EntryOK(info, i) ==
  /\ Len(info.abiTypes) >= 1
  /\ IF i = 1 THEN info.disp = "indirect" <=> info.disp # "ignore" /\ info.sigOffset >= 0
              ELSE info.disp # "ignore" => info.sigOffset >= 0

EntriesOK(v) == \A i \in DOMAIN v : EntryOK(v[i], i)

\* The number of slots that have been handed out.
Count == IF sig.cabi THEN argCount ELSE Len(sig.params)

\* The inductive invariant: OracleTypeOK; what each phase has done; the division of
\* the slots; and the signature, which is complete as far as "emitted".
PhaseOK ==
  /\ phase \in {"return", "chain", "params", "type"} => sig.cabi
  /\ phase = "raw" => ~sig.cabi
  /\ phase \in {"return", "raw"} => infov = <<>> /\ argCount = 0
  /\ phase = "chain" => Len(infov) = 1
  /\ phase = "params" => Len(infov) >= 2
  /\ phase \in {"return", "chain", "params", "raw"} => elems = <<>> /\ emitted = 0
  /\ phase \in {"type", "done"} => Len(infov) = Len(sig.params) + 2 /\ emitted >= 1
  /\ phase = "done" => emitted = Len(infov)

SlotsDivided ==
  /\ EntriesOK(infov)
  /\ phase # "raw" => Divided(infov, Count)

SignatureFilled ==
  phase \in {"type", "done"} =>
    /\ Len(elems) <= Count
    /\ Cursor(infov, emitted, Len(elems))
    /\ Filled(infov, emitted, elems)

OracleInv == OracleTypeOK /\ PhaseOK /\ SlotsDivided /\ SignatureFilled

-----------------------------------------------------------------------------
(* Entries and the slots they have.                                         *)

\* The parts of an entry.
LEMMA InfoParts ==
  ASSUME NEW v \in Seq(InfoType), NEW i \in DOMAIN v
  PROVE  /\ v[i] \in InfoType
         /\ v[i].abiTypes \in Seq(SlotType) /\ Len(v[i].abiTypes) \in Nat
         /\ v[i].sigOffset \in Int
         /\ v[i].disp \in {"direct", "ignore", "indirect"}
<1>1. v[i] \in InfoType
  BY ElementOfSeq, LenProperties
<1>2. /\ v[i].abiTypes \in Seq(SlotType) /\ v[i].sigOffset \in Int
      /\ v[i].disp \in {"direct", "ignore", "indirect"}
  BY <1>1 DEF InfoType
<1>3. QED
  BY <1>1, <1>2, LenProperties

\* A walker that has counted the slots of all entries before i is at i's offset.
LEMMA CursorAtOffset ==
  ASSUME NEW v \in Seq(InfoType), EntriesOK(v),
         NEW count \in Nat, Divided(v, count),
         NEW i \in DOMAIN v, NEW c \in Nat, Cursor(v, i - 1, c), HasSlots(v, i)
  PROVE  v[i].sigOffset = c
<1>1. i \in Nat /\ \A k \in DOMAIN v : k \in Nat
  BY LenProperties
<1>2. \A k \in DOMAIN v : /\ v[k].sigOffset \in Int /\ Len(v[k].abiTypes) \in Nat
                          /\ End(v, k) \in Int
  BY InfoParts DEF End
<1>3. v[i].sigOffset >= c
  BY <1>1 DEF Cursor
<1>4. ASSUME v[i].sigOffset > c PROVE FALSE
  <2>1. End(v, i) > v[i].sigOffset
    BY <1>2 DEF EntriesOK, EntryOK, End
  <2>2. c < count
    BY <1>2, <1>4, <2>1 DEF Divided
  <2>3. PICK k \in DOMAIN v : HasSlots(v, k) /\ v[k].sigOffset <= c /\ c < End(v, k)
    BY <2>2 DEF Divided
  <2>4. CASE k < i
    BY <1>1, <1>2, <2>3, <2>4 DEF Cursor
  <2>5. CASE k = i
    BY <1>2, <1>4, <2>3, <2>5
  <2>6. CASE k > i
    BY <1>2, <1>4, <2>1, <2>3, <2>6 DEF Divided
  <2>7. QED
    BY <1>1, <2>4, <2>5, <2>6
<1>5. QED
  BY <1>2, <1>3, <1>4

\* Having passed entry i, he has counted the slots of the entries up to i.
LEMMA CursorStep ==
  ASSUME NEW v \in Seq(InfoType), EntriesOK(v),
         NEW count \in Nat, Divided(v, count),
         NEW i \in DOMAIN v, NEW c \in Nat, Cursor(v, i - 1, c)
  PROVE  /\ HasSlots(v, i) => Cursor(v, i, c + Len(v[i].abiTypes))
         /\ ~HasSlots(v, i) => Cursor(v, i, c)
<1>1. i \in Nat /\ \A k \in DOMAIN v : k \in Nat
  BY LenProperties
<1>2. \A k \in DOMAIN v : /\ v[k].sigOffset \in Int /\ Len(v[k].abiTypes) \in Nat
                          /\ End(v, k) \in Int
  BY InfoParts DEF End
<1>3. CASE HasSlots(v, i)
  <2>1. End(v, i) = c + Len(v[i].abiTypes)
    BY <1>3, CursorAtOffset DEF End
  <2>2. ASSUME NEW k \in DOMAIN v, k <= i, HasSlots(v, k) PROVE End(v, k) <= End(v, i)
    <3>1. CASE k = i
      BY <1>2, <3>1
    <3>2. CASE k # i
      <4>1. k <= i - 1
        BY <1>1, <2>2, <3>2
      <4>2. End(v, k) <= c
        BY <2>2, <4>1 DEF Cursor
      <4>3. QED
        BY <1>2, <2>1, <4>2
    <3>3. QED
      BY <3>1, <3>2
  <2>3. ASSUME NEW k \in DOMAIN v, k > i, HasSlots(v, k)
        PROVE  v[k].sigOffset >= End(v, i)
    BY <1>2, <1>3, <2>3 DEF Divided
  <2>4. QED
    BY <1>3, <2>1, <2>2, <2>3 DEF Cursor
<1>4. CASE ~HasSlots(v, i)
  BY <1>1, <1>4 DEF Cursor
<1>5. QED
  BY <1>3, <1>4

\* An entry that starts where the slots handed out so far end extends the division.
LEMMA AppendEntry ==
  ASSUME NEW v \in Seq(InfoType), EntriesOK(v),
         NEW count \in Nat, Divided(v, count),
         NEW e \in InfoType, EntryOK(e, Len(v) + 1)
  PROVE  /\ Append(v, e) \in Seq(InfoType) /\ Len(Append(v, e)) = Len(v) + 1
         /\ EntriesOK(Append(v, e))
         /\ e.disp # "ignore" /\ e.sigOffset = count =>
              Divided(Append(v, e), count + Len(e.abiTypes))
         /\ ~(e.disp # "ignore" /\ e.sigOffset >= 0) => Divided(Append(v, e), count)
<1> DEFINE w == Append(v, e)
           n == Len(v) + 1
<1>1. /\ w \in Seq(InfoType) /\ Len(w) = n /\ n \in Nat
      /\ DOMAIN v = 1..Len(v) /\ DOMAIN w = 1..n /\ Len(v) \in Nat
      /\ \A i \in 1..Len(v) : w[i] = v[i]
      /\ w[n] = e /\ n \in 1..n
  BY AppendProperties, LenProperties
<1> HIDE DEF w, n
<1>2. EntriesOK(w)
  <2>1. ASSUME NEW i \in 1..n PROVE EntryOK(w[i], i)
    BY <1>1, <2>1 DEF EntriesOK, n
  <2>2. QED
    BY <1>1, <2>1 DEF EntriesOK
<1>3. /\ \A i \in 1..Len(v) : HasSlots(w, i) <=> HasSlots(v, i)
      /\ \A i \in 1..Len(v) : End(w, i) = End(v, i) /\ w[i].sigOffset = v[i].sigOffset
      /\ HasSlots(w, n) <=> e.disp # "ignore" /\ e.sigOffset >= 0
      /\ End(w, n) = e.sigOffset + Len(e.abiTypes)
  BY <1>1 DEF HasSlots, End
<1>4. /\ \A i \in 1..n : i \in Nat /\ (i = n \/ i \in 1..Len(v))
      /\ Len(e.abiTypes) \in Nat /\ e.sigOffset \in Int
      /\ \A i \in 1..n : w[i].sigOffset \in Int /\ End(w, i) \in Int
  <2>1. Len(e.abiTypes) \in Nat /\ e.sigOffset \in Int
    BY LenProperties DEF InfoType
  <2>2. \A i \in 1..n : w[i].sigOffset \in Int /\ End(w, i) \in Int
    BY <1>1, InfoParts DEF End
  <2>3. QED
    BY <1>1, <2>1, <2>2 DEF n
<1>5. ASSUME e.disp # "ignore", e.sigOffset = count
      PROVE  Divided(w, count + Len(e.abiTypes))
  <2>1. HasSlots(w, n) /\ End(w, n) = count + Len(e.abiTypes) /\ w[n].sigOffset = count
    BY <1>1, <1>3, <1>5
  <2>2. ASSUME NEW i \in 1..n, HasSlots(w, i)
        PROVE  End(w, i) <= count + Len(e.abiTypes)
    <3>1. CASE i = n
      BY <1>4, <2>1, <3>1
    <3>2. CASE i \in 1..Len(v)
      <4>1. End(v, i) <= count
        BY <1>1, <1>3, <2>2, <3>2 DEF Divided
      <4>2. QED
        BY <1>3, <1>4, <3>2, <4>1
    <3>3. QED
      BY <1>4, <3>1, <3>2
  <2>3. ASSUME NEW i \in 1..n, NEW j \in 1..n, i < j, HasSlots(w, i), HasSlots(w, j)
        PROVE  End(w, i) <= w[j].sigOffset
    <3>1. i \in 1..Len(v)
      BY <1>1, <2>3 DEF n
    <3>2. CASE j = n
      BY <1>1, <1>3, <2>1, <2>3, <3>1, <3>2 DEF Divided
    <3>3. CASE j \in 1..Len(v)
      BY <1>1, <1>3, <2>3, <3>1, <3>3 DEF Divided
    <3>4. QED
      BY <1>4, <3>2, <3>3
  <2>4. ASSUME NEW s \in Nat, s < count + Len(e.abiTypes)
        PROVE  \E i \in 1..n : HasSlots(w, i) /\ w[i].sigOffset <= s /\ s < End(w, i)
    <3>1. CASE s >= count
      BY <1>1, <2>1, <2>4, <3>1
    <3>2. CASE s < count
      <4>1. PICK i \in 1..Len(v) :
              HasSlots(v, i) /\ v[i].sigOffset <= s /\ s < End(v, i)
        BY <1>1, <3>2 DEF Divided
      <4>2. i \in 1..n
        BY <1>1 DEF n
      <4>3. QED
        BY <1>3, <4>1, <4>2
    <3>3. QED
      BY <3>1, <3>2
  <2>5. QED
    BY <1>1, <2>2, <2>3, <2>4 DEF Divided
<1>6. ASSUME ~(e.disp # "ignore" /\ e.sigOffset >= 0) PROVE Divided(w, count)
  <2>1. \A i \in 1..n : HasSlots(w, i) => i \in 1..Len(v)
    BY <1>3, <1>4, <1>6
  <2>2. ASSUME NEW s \in Nat, s < count
        PROVE  \E i \in 1..n : HasSlots(w, i) /\ w[i].sigOffset <= s /\ s < End(w, i)
    <3>1. PICK i \in 1..Len(v) :
            HasSlots(v, i) /\ v[i].sigOffset <= s /\ s < End(v, i)
      BY <1>1, <2>2 DEF Divided
    <3>2. i \in 1..n
      BY <1>1 DEF n
    <3>3. QED
      BY <1>3, <3>1, <3>2
  <2>3. /\ \A i \in 1..n : HasSlots(w, i) => End(w, i) <= count
        /\ \A i, j \in 1..n : i < j /\ HasSlots(w, i) /\ HasSlots(w, j) =>
             End(w, i) <= w[j].sigOffset
    BY <1>1, <1>3, <2>1 DEF Divided
  <2>4. QED
    BY <1>1, <2>2, <2>3 DEF Divided
<1>7. QED
  BY <1>1, <1>2, <1>5, <1>6 DEF w, n

LEMMA NothingDivided == EntriesOK(<<>>) /\ Divided(<<>>, 0)
BY DEF EntriesOK, Divided

-----------------------------------------------------------------------------
(* The signature.                                                           *)

\* Adding the slots of the next entry to a signature that is filled as far as the
\* entry before it.
LEMMA AppendSlots ==
  ASSUME NEW v \in Seq(InfoType), EntriesOK(v),
         NEW count \in Nat, Divided(v, count),
         NEW i \in DOMAIN v, NEW types \in Seq(SlotType),
         Cursor(v, i - 1, Len(types)), Filled(v, i - 1, types),
         HasSlots(v, i)
  PROVE  /\ types \o v[i].abiTypes \in Seq(SlotType)
         /\ Len(types \o v[i].abiTypes) <= count
         /\ Cursor(v, i, Len(types \o v[i].abiTypes))
         /\ Filled(v, i, types \o v[i].abiTypes)
<1> DEFINE more == v[i].abiTypes
           all == types \o more
<1>1. more \in Seq(SlotType) /\ Len(more) \in Nat /\ Len(types) \in Nat
  BY InfoParts, LenProperties
<1>2. /\ all \in Seq(SlotType)
      /\ Len(all) = Len(types) + Len(more)
      /\ \A s \in 1..Len(types) + Len(more) :
           all[s] = IF s <= Len(types) THEN types[s] ELSE more[s - Len(types)]
  BY <1>1, ConcatProperties
<1>3. v[i].sigOffset = Len(types)
  BY <1>1, CursorAtOffset
<1>4. Cursor(v, i, Len(all)) /\ Len(all) <= count
  <2>1. Cursor(v, i, Len(types) + Len(more))
    BY <1>1, CursorStep
  <2>2. End(v, i) = Len(types) + Len(more)
    BY <1>3 DEF End
  <2>3. End(v, i) <= count
    BY DEF Divided
  <2>4. QED
    BY <1>2, <2>1, <2>2, <2>3
<1> HIDE DEF all
<1>5. ASSUME NEW k \in DOMAIN v, k <= i, HasSlots(v, k), NEW j \in 1..Len(v[k].abiTypes)
      PROVE  all[v[k].sigOffset + j] = v[k].abiTypes[j]
  <2>1. /\ v[k].sigOffset \in Int /\ Len(v[k].abiTypes) \in Nat /\ v[k].sigOffset >= 0
        /\ k \in Nat /\ i \in Nat /\ j \in Nat /\ 1 <= j /\ j <= Len(v[k].abiTypes)
    BY <1>5, InfoParts, LenProperties DEF HasSlots
  <2>2. CASE k = i
    <3>1. /\ Len(types) + j \in 1..Len(types) + Len(more)
          /\ ~(Len(types) + j <= Len(types))
          /\ (Len(types) + j) - Len(types) = j
      BY <1>1, <2>1, <2>2
    <3>2. QED
      BY <1>2, <1>3, <2>2, <3>1
  <2>3. CASE k # i
    <3>1. k <= i - 1
      BY <1>5, <2>1, <2>3
    <3>2. End(v, k) <= Len(types)
      BY <1>5, <3>1 DEF Cursor
    <3>3. v[k].sigOffset + j \in 1..Len(types)
      BY <1>1, <2>1, <3>2, SMTT(30) DEF End
    <3>4. all[v[k].sigOffset + j] = types[v[k].sigOffset + j]
      BY <1>1, <1>2, <3>3, SMTT(30)
    <3>5. QED
      BY <1>5, <3>1, <3>4 DEF Filled
  <2>4. QED
    BY <2>2, <2>3
<1>6. QED
  BY <1>2, <1>4, <1>5 DEF Filled, all

\* An entry without slots adds nothing.
LEMMA SkipSlots ==
  ASSUME NEW v \in Seq(InfoType), EntriesOK(v),
         NEW count \in Nat, Divided(v, count),
         NEW i \in DOMAIN v, NEW types \in Seq(SlotType),
         Cursor(v, i - 1, Len(types)), Filled(v, i - 1, types),
         ~HasSlots(v, i)
  PROVE  Cursor(v, i, Len(types)) /\ Filled(v, i, types)
<1>1. Cursor(v, i, Len(types))
  BY CursorStep, LenProperties
<1>2. \A k \in DOMAIN v : k <= i /\ HasSlots(v, k) => k <= i - 1
  BY LenProperties
<1>3. QED
  BY <1>1, <1>2 DEF Filled

\* Types, and the attributes of small integers.
LEMMA SlotTypes ==
  /\ \A t \in Type : /\ Piece(t, 1) \in SlotType /\ Piece(t, 2) \in SlotType
                     /\ BothPieces(t) \in SlotType /\ PointerTo(t) \in SlotType
                     /\ Whole(t) \in SlotType
  /\ ChainPointer \in SlotType
  /\ \A t \in Type : Extension[t] \in {"none", "zext", "sext"}
  /\ Void \in Type
BY TypeAssumption
   DEF Piece, BothPieces, PointerTo, Whole, ChainPointer, Slot, SlotType

LEMMA SignatureTypes ==
  ASSUME sig \in Signature
  PROVE  /\ sig.result \in Type /\ sig.cabi \in BOOLEAN
         /\ sig.params \in Seq(Type) /\ Len(sig.params) \in Nat
         /\ \A p \in 1..Len(sig.params) : sig.params[p] \in Type
<1>1. sig \in [params : Seq(Type), result : Type, cabi : BOOLEAN]
  BY SignatureAssumption
<1>2. sig.result \in Type /\ sig.cabi \in BOOLEAN /\ sig.params \in Seq(Type)
  BY <1>1
<1>3. QED
  BY <1>2, ElementOfSeq, LenProperties

LEMMA InfoFacts ==
  ASSUME NEW abiTypes \in Seq(SlotType), NEW disp \in {"direct", "ignore", "indirect"},
         NEW attr \in {"none", "sret", "byval", "nest", "zext", "sext"},
         NEW sigOffset \in Int
  PROVE  /\ Info(abiTypes, disp, attr, sigOffset) \in InfoType
         /\ Info(abiTypes, disp, attr, sigOffset).abiTypes = abiTypes
         /\ Info(abiTypes, disp, attr, sigOffset).disp = disp
         /\ Info(abiTypes, disp, attr, sigOffset).sigOffset = sigOffset
BY DEF Info, InfoType

\* An entry with one slot.
LEMMA OneSlot ==
  ASSUME NEW s \in SlotType, NEW disp \in {"direct", "ignore", "indirect"},
         NEW attr \in {"none", "sret", "byval", "nest", "zext", "sext"},
         NEW sigOffset \in Int
  PROVE  /\ Info(<<s>>, disp, attr, sigOffset) \in InfoType
         /\ Len(Info(<<s>>, disp, attr, sigOffset).abiTypes) = 1
         /\ Info(<<s>>, disp, attr, sigOffset).disp = disp
         /\ Info(<<s>>, disp, attr, sigOffset).sigOffset = sigOffset
<1> DEFINE one == <<s>>
<1>1. one \in Seq(SlotType) /\ Len(one) = 1
  OBVIOUS
<1> HIDE DEF one
<1>2. /\ Info(one, disp, attr, sigOffset) \in InfoType
      /\ Len(Info(one, disp, attr, sigOffset).abiTypes) = 1
      /\ Info(one, disp, attr, sigOffset).disp = disp
      /\ Info(one, disp, attr, sigOffset).sigOffset = sigOffset
  BY <1>1, InfoFacts
<1>3. QED
  BY <1>2 DEF one

-----------------------------------------------------------------------------
(* The steps of analyze.                                                    *)

\* A step that adds an entry, which has no slots or starts at the next one.
LEMMA EntryStep ==
  ASSUME OracleInv, sig.cabi, phase # "raw", UNCHANGED sig,
         NEW e \in InfoType, EntryOK(e, Len(infov) + 1),
         infov' = Append(infov, e),
         \/ /\ e.disp # "ignore" /\ e.sigOffset = argCount
            /\ argCount' = argCount + Len(e.abiTypes)
         \/ ~(e.disp # "ignore" /\ e.sigOffset >= 0) /\ UNCHANGED argCount
  PROVE  /\ infov' \in Seq(InfoType) /\ Len(infov') = Len(infov) + 1
         /\ argCount' \in Nat
         /\ SlotsDivided'
<1>1. /\ infov \in Seq(InfoType) /\ EntriesOK(infov) /\ argCount \in Nat
      /\ Divided(infov, argCount)
  BY DEF OracleInv, OracleTypeOK, SlotsDivided, Count
<1>2. Len(e.abiTypes) \in Nat
  BY LenProperties DEF InfoType
<1>3. argCount' \in Nat
  BY <1>1, <1>2
<1>4. /\ infov' \in Seq(InfoType) /\ Len(infov') = Len(infov) + 1
      /\ EntriesOK(infov')
      /\ Divided(infov', argCount')
  BY <1>1, AppendEntry
<1>5. Count' = argCount'
  BY DEF Count
<1>6. QED
  BY <1>3, <1>4, <1>5 DEF SlotsDivided

LEMMA ReturnStep == OracleInv /\ AnalyzeReturn => OracleInv'
<1> SUFFICES ASSUME OracleInv, AnalyzeReturn PROVE OracleInv'
  OBVIOUS
<1> DEFINE t == sig.result
<1>1. /\ sig \in Signature /\ sig.cabi /\ phase = "return" /\ phase' = "chain"
      /\ infov = <<>> /\ argCount = 0 /\ elems = <<>> /\ emitted = 0
      /\ UNCHANGED <<sig, availSSE, elems, emitted>>
      /\ availInt \in 0..6 /\ availSSE \in 0..8
  BY DEF AnalyzeReturn, OracleInv, OracleTypeOK, PhaseOK
<1>2. /\ t \in Type /\ Len(sig.params) \in Nat
      /\ Extension[t] \in {"none", "zext", "sext"}
      /\ Piece(t, 1) \in SlotType /\ BothPieces(t) \in SlotType
      /\ PointerTo(t) \in SlotType /\ Whole(Void) \in SlotType
  BY <1>1, SignatureTypes, SlotTypes
<1>4. \E e \in InfoType :
        /\ EntryOK(e, 1) /\ infov' = <<e>>
        /\ \/ /\ e.disp # "ignore" /\ e.sigOffset = argCount
              /\ argCount' = argCount + Len(e.abiTypes)
           \/ ~(e.disp # "ignore" /\ e.sigOffset >= 0) /\ UNCHANGED argCount
  <2>1. CASE Disposition(t) = "ignore" /\ infov' = <<IgnoredInfo>> /\ UNCHANGED argCount
    <3> DEFINE e == IgnoredInfo
    <3>1. /\ e \in InfoType /\ Len(e.abiTypes) = 1
          /\ e.disp = "ignore" /\ e.sigOffset = -1
      BY <1>2, OneSlot DEF IgnoredInfo
    <3> HIDE DEF e
    <3>2. EntryOK(e, 1) /\ infov' = <<e>>
      BY <2>1, <3>1 DEF EntryOK, e
    <3>3. QED
      BY <2>1, <3>1, <3>2
  <2>2. CASE /\ infov' = <<Info(<<PointerTo(t)>>, "indirect", "sret", 0)>>
             /\ argCount' = argCount + 1
    <3> DEFINE e == Info(<<PointerTo(t)>>, "indirect", "sret", 0)
    <3>1. /\ e \in InfoType /\ Len(e.abiTypes) = 1
          /\ e.disp = "indirect" /\ e.sigOffset = 0
      BY <1>2, OneSlot
    <3> HIDE DEF e
    <3>2. EntryOK(e, 1) /\ infov' = <<e>>
      BY <2>2, <3>1, SMTT(30) DEF EntryOK, e
    <3>3. QED
      BY <1>1, <2>2, <3>1, <3>2
  <2>3. CASE /\ infov' = <<Info(<<IF Len(Regions[t]) = 1 THEN Piece(t, 1)
                                                         ELSE BothPieces(t)>>,
                                "direct", Extension[t], -1)>>
             /\ UNCHANGED argCount
    <3> DEFINE s == IF Len(Regions[t]) = 1 THEN Piece(t, 1) ELSE BothPieces(t)
               e == Info(<<s>>, "direct", Extension[t], -1)
    <3>1. s \in SlotType
      BY <1>2
    <3> HIDE DEF s
    <3>2. /\ e \in InfoType /\ Len(e.abiTypes) = 1
          /\ e.disp = "direct" /\ e.sigOffset = -1
      BY <1>2, <3>1, OneSlot
    <3>3. infov' = <<e>>
      BY <2>3 DEF s
    <3> HIDE DEF e
    <3>4. EntryOK(e, 1)
      BY <3>2 DEF EntryOK
    <3>5. QED
      BY <2>3, <3>2, <3>3, <3>4
  <2>4. QED
    BY <2>1, <2>2, <2>3 DEF AnalyzeReturn
<1>5. PICK e \in InfoType :
        /\ EntryOK(e, 1) /\ infov' = <<e>>
        /\ \/ /\ e.disp # "ignore" /\ e.sigOffset = argCount
              /\ argCount' = argCount + Len(e.abiTypes)
           \/ ~(e.disp # "ignore" /\ e.sigOffset >= 0) /\ UNCHANGED argCount
  BY <1>4
<1>6. infov' = Append(infov, e) /\ EntryOK(e, Len(infov) + 1) /\ Len(infov) = 0
  BY <1>1, <1>5
<1>7. /\ infov' \in Seq(InfoType) /\ Len(infov') = 1
      /\ argCount' \in Nat /\ SlotsDivided'
  BY <1>1, <1>5, <1>6, EntryStep
<1>8. availInt' \in 0..6
  BY <1>1 DEF AnalyzeReturn, Less
<1>9. OracleTypeOK'
  BY <1>1, <1>2, <1>7, <1>8, EmptySeq DEF OracleTypeOK
<1>10. QED
  BY <1>1, <1>7, <1>9 DEF OracleInv, PhaseOK, SignatureFilled

LEMMA ChainStep == OracleInv /\ AnalyzeChain => OracleInv'
<1> SUFFICES ASSUME OracleInv, AnalyzeChain PROVE OracleInv'
  OBVIOUS
<1> DEFINE e == Info(<<ChainPointer>>, "direct", "nest", argCount)
<1>1. /\ sig \in Signature /\ sig.cabi /\ phase = "chain" /\ phase' = "params"
      /\ Len(infov) = 1 /\ argCount \in Nat /\ elems = <<>> /\ emitted = 0
      /\ UNCHANGED <<sig, availInt, availSSE, elems, emitted>>
      /\ availInt \in 0..6 /\ availSSE \in 0..8
      /\ infov' = Append(infov, e) /\ argCount' = argCount + 1
  BY DEF AnalyzeChain, OracleInv, OracleTypeOK, PhaseOK
<1>2. ChainPointer \in SlotType /\ Len(sig.params) \in Nat /\ argCount \in Int
  BY <1>1, SlotTypes, SignatureTypes
<1>3. /\ e \in InfoType /\ Len(e.abiTypes) = 1
      /\ e.disp = "direct" /\ e.sigOffset = argCount
  BY <1>2, OneSlot
<1> HIDE DEF e
<1>4. EntryOK(e, Len(infov) + 1)
  BY <1>1, <1>3 DEF EntryOK
<1>5. \/ /\ e.disp # "ignore" /\ e.sigOffset = argCount
         /\ argCount' = argCount + Len(e.abiTypes)
      \/ ~(e.disp # "ignore" /\ e.sigOffset >= 0) /\ UNCHANGED argCount
  BY <1>1, <1>3
<1>6. sig.cabi /\ phase # "raw" /\ UNCHANGED sig /\ infov' = Append(infov, e)
  BY <1>1
<1>7. /\ infov' \in Seq(InfoType) /\ Len(infov') = Len(infov) + 1
      /\ argCount' \in Nat /\ SlotsDivided'
  BY <1>3, <1>4, <1>5, <1>6, EntryStep
<1>8. /\ infov' \in Seq(InfoType) /\ Len(infov') = 2
      /\ argCount' \in Nat /\ SlotsDivided'
  BY <1>1, <1>7
<1>9. OracleTypeOK'
  BY <1>1, <1>2, <1>8, EmptySeq DEF OracleTypeOK
<1>10. QED
  BY <1>1, <1>8, <1>9 DEF OracleInv, PhaseOK, SignatureFilled


\* The pieces of a direct parameter.
LEMMA PieceSlots ==
  ASSUME NEW t \in Type, Disposition(t) = "direct"
  PROVE  /\ [j \in 1..Len(Regions[t]) |-> Piece(t, j)] \in Seq(SlotType)
         /\ Len([j \in 1..Len(Regions[t]) |-> Piece(t, j)]) = Len(Regions[t])
         /\ Len(Regions[t]) \in 1..2
<1>1. Size[t] \in Nat /\ Size[t] # 0 /\ Size[t] <= 16
  BY TypeAssumption DEF Disposition
<1>2. Len(Regions[t]) \in 1..2
  <2>1. Len(Regions[t]) = 1 \/ Len(Regions[t]) = 2
    BY <1>1, TypeAssumption, SMTT(30)
  <2>2. QED
    BY <2>1
<1>3. ASSUME NEW j \in 1..Len(Regions[t]) PROVE Piece(t, j) \in SlotType
  <2> DEFINE n == Len(Regions[t])
  <2>0. n \in 1..2 /\ j \in 1..n
    BY <1>2
  <2> HIDE DEF n
  <2>1. j \in 0..2
    BY <2>0
  <2>2. QED
    BY <2>1 DEF Piece, Slot, SlotType
<1>4. QED
  BY <1>2, <1>3

LEMMA ParamStep == OracleInv /\ AnalyzeParam => OracleInv'
<1> SUFFICES ASSUME OracleInv, AnalyzeParam PROVE OracleInv'
  OBVIOUS
<1> DEFINE t == sig.params[Len(infov) - 1]
           direct == Disposition(t) = "direct" /\ CanPassDirectly(t)
<1>1. /\ sig \in Signature /\ sig.cabi /\ phase = "params" /\ phase' = "params"
      /\ infov \in Seq(InfoType) /\ Len(infov) >= 2
      /\ Len(infov) < Len(sig.params) + 2
      /\ argCount \in Nat /\ elems = <<>> /\ emitted = 0
      /\ UNCHANGED <<sig, phase, elems, emitted>>
      /\ availInt \in 0..6 /\ availSSE \in 0..8
  BY DEF AnalyzeParam, OracleInv, OracleTypeOK, PhaseOK
<1>2. Len(infov) \in Nat /\ Len(sig.params) \in Nat /\ argCount \in Int
  BY <1>1, LenProperties, SignatureTypes
<1>3. Len(infov) - 1 \in 1..Len(sig.params)
  BY <1>1, <1>2
<1>4. t \in Type
  BY <1>1, <1>3, SignatureTypes
<1>5. /\ Extension[t] \in {"none", "zext", "sext"} /\ PointerTo(t) \in SlotType
      /\ Void \in Type /\ Whole(Void) \in SlotType
  BY <1>4, SlotTypes
<1>6. \E e \in InfoType :
        /\ EntryOK(e, Len(infov) + 1) /\ infov' = Append(infov, e)
        /\ \/ /\ e.disp # "ignore" /\ e.sigOffset = argCount
              /\ argCount' = argCount + Len(e.abiTypes)
           \/ ~(e.disp # "ignore" /\ e.sigOffset >= 0) /\ UNCHANGED argCount
  <2>1. CASE infov' = Append(infov, IgnoredInfo) /\ UNCHANGED argCount
    <3> DEFINE e == IgnoredInfo
    <3>1. /\ e \in InfoType /\ Len(e.abiTypes) = 1
          /\ e.disp = "ignore" /\ e.sigOffset = -1
      BY <1>5, OneSlot DEF IgnoredInfo
    <3> HIDE DEF e
    <3>2. EntryOK(e, Len(infov) + 1)
      BY <1>1, <1>2, <3>1 DEF EntryOK
    <3>3. infov' = Append(infov, e)
      BY <2>1 DEF e
    <3>4. QED
      BY <2>1, <3>1, <3>2, <3>3
  <2>2. CASE infov' = Append(infov, InMemory(t)) /\ argCount' = argCount + 1
    <3> DEFINE e == InMemory(t)
    <3>1. /\ e \in InfoType /\ Len(e.abiTypes) = 1
          /\ e.disp = "indirect" /\ e.sigOffset = argCount
      BY <1>2, <1>5, OneSlot DEF InMemory
    <3> HIDE DEF e
    <3>2. EntryOK(e, Len(infov) + 1)
      BY <1>1, <1>2, <3>1 DEF EntryOK
    <3>3. infov' = Append(infov, e)
      BY <2>2 DEF e
    <3>4. QED
      BY <2>2, <3>1, <3>2, <3>3
  <2>3. CASE /\ Disposition(t) = "direct"
             /\ infov' = Append(infov, Info([j \in 1..Len(Regions[t]) |-> Piece(t, j)],
                                            "direct", Extension[t], argCount))
             /\ argCount' = argCount + SlotsTaken(t)
    <3> DEFINE pieces == [j \in 1..Len(Regions[t]) |-> Piece(t, j)]
               e == Info(pieces, "direct", Extension[t], argCount)
    <3>1. /\ pieces \in Seq(SlotType) /\ Len(pieces) = Len(Regions[t])
          /\ Len(pieces) \in 1..2
      BY <1>4, <2>3, PieceSlots
    <3> HIDE DEF pieces
    <3>2. /\ e \in InfoType /\ e.abiTypes = pieces
          /\ e.disp = "direct" /\ e.sigOffset = argCount
      BY <1>2, <1>5, <3>1, InfoFacts, SMTT(30)
    <3>3. infov' = Append(infov, e)
      BY <2>3 DEF pieces
    <3> HIDE DEF e
    <3>4. EntryOK(e, Len(infov) + 1)
      <4> DEFINE m == Len(e.abiTypes)
      <4>1. m \in 1..2
        BY <3>1, <3>2
      <4>2. e.sigOffset >= 0 /\ Len(infov) + 1 # 1
        BY <1>1, <1>2, <3>2
      <4> HIDE DEF m
      <4>3. m >= 1
        BY <4>1
      <4>4. QED
        BY <4>2, <4>3 DEF EntryOK, m
    <3>5. argCount' = argCount + Len(e.abiTypes)
      BY <2>3, <3>1, <3>2 DEF SlotsTaken
    <3>6. QED
      BY <3>2, <3>3, <3>4, <3>5
  <2>4. QED
    BY <2>1, <2>2, <2>3 DEF AnalyzeParam
<1>7. PICK e \in InfoType :
        /\ EntryOK(e, Len(infov) + 1) /\ infov' = Append(infov, e)
        /\ \/ /\ e.disp # "ignore" /\ e.sigOffset = argCount
              /\ argCount' = argCount + Len(e.abiTypes)
           \/ ~(e.disp # "ignore" /\ e.sigOffset >= 0) /\ UNCHANGED argCount
  BY <1>6
<1>8. /\ infov' \in Seq(InfoType) /\ Len(infov') = Len(infov) + 1
      /\ argCount' \in Nat /\ SlotsDivided'
  BY <1>1, <1>7, EntryStep
<1>9. availInt' \in 0..6 /\ availSSE' \in 0..8
  <2>1. Needed(t, "int") \in Nat /\ Needed(t, "sse") \in Nat
    BY DEF Needed
  <2>2. CASE UNCHANGED <<availInt, availSSE>>
    BY <1>1, <2>2
  <2>3. CASE /\ availInt' = AtLeastZero(availInt - Needed(t, "int"))
             /\ availSSE' = AtLeastZero(availSSE - Needed(t, "sse"))
    <3> DEFINE i == Needed(t, "int")
               f == Needed(t, "sse")
    <3>1. /\ i \in Nat /\ f \in Nat
          /\ availInt' = AtLeastZero(availInt - i)
          /\ availSSE' = AtLeastZero(availSSE - f)
      BY <2>1, <2>3
    <3> HIDE DEF i, f
    <3>2. QED
      BY <1>1, <3>1 DEF AtLeastZero
  <2>4. \/ UNCHANGED <<availInt, availSSE>>
        \/ /\ availInt' = AtLeastZero(availInt - Needed(t, "int"))
           /\ availSSE' = AtLeastZero(availSSE - Needed(t, "sse"))
    BY DEF AnalyzeParam
  <2>5. QED
    BY <2>2, <2>3, <2>4
<1>10. OracleTypeOK'
  BY <1>1, <1>2, <1>8, <1>9, EmptySeq DEF OracleTypeOK
<1>11. QED
  BY <1>1, <1>2, <1>8, <1>10 DEF OracleInv, PhaseOK, SignatureFilled


\* The address of a result in memory is in slot 0.
LEMMA BuildReturnStep == OracleInv /\ BuildReturn => OracleInv'
<1> SUFFICES ASSUME OracleInv, BuildReturn PROVE OracleInv'
  OBVIOUS
<1>1. /\ infov \in Seq(InfoType) /\ Len(infov) >= 2 /\ Len(infov) = Len(sig.params) + 2
      /\ phase = "params" /\ phase' = "type" /\ sig.cabi /\ emitted' = 1
      /\ UNCHANGED <<sig, infov, availInt, availSSE, argCount>>
      /\ argCount \in Nat /\ EntriesOK(infov) /\ Divided(infov, argCount)
      /\ elems' = IF infov[1].disp = "indirect" THEN infov[1].abiTypes ELSE <<>>
  BY DEF BuildReturn, OracleInv, OracleTypeOK, PhaseOK, SlotsDivided, Count
<1>2. 1 \in DOMAIN infov /\ DOMAIN infov = 1..Len(infov)
  BY <1>1, LenProperties
<1>3. HasSlots(infov, 1) <=> infov[1].disp = "indirect"
  BY <1>1, <1>2 DEF EntriesOK, EntryOK, HasSlots
<1>4. <<>> \in Seq(SlotType) /\ Len(<<>>) = 0 /\ <<>> \o infov[1].abiTypes = infov[1].abiTypes
  <2>1. infov[1].abiTypes \in Seq(SlotType)
    BY <1>1, <1>2, InfoParts
  <2>2. QED
    BY <2>1, EmptySeq, ConcatEmptySeq
<1>5. Cursor(infov, 1 - 1, 0) /\ Filled(infov, 1 - 1, <<>>)
  <2>1. \A k \in DOMAIN infov : ~(k <= 1 - 1)
    BY <1>2
  <2>2. \A k \in DOMAIN infov : HasSlots(infov, k) => infov[k].sigOffset >= 0
    BY DEF HasSlots
  <2>3. QED
    BY <2>1, <2>2 DEF Cursor, Filled
<1>6. /\ elems' \in Seq(SlotType) /\ Len(elems') <= argCount
      /\ Cursor(infov, 1, Len(elems')) /\ Filled(infov, 1, elems')
  <2>1. CASE HasSlots(infov, 1)
    <3>1. elems' = <<>> \o infov[1].abiTypes
      BY <1>1, <1>3, <1>4, <2>1
    <3>2. /\ <<>> \o infov[1].abiTypes \in Seq(SlotType)
          /\ Len(<<>> \o infov[1].abiTypes) <= argCount
          /\ Cursor(infov, 1, Len(<<>> \o infov[1].abiTypes))
          /\ Filled(infov, 1, <<>> \o infov[1].abiTypes)
      BY <1>1, <1>2, <1>4, <1>5, <2>1, AppendSlots
    <3>3. QED
      BY <3>1, <3>2
  <2>2. CASE ~HasSlots(infov, 1)
    <3>1. elems' = <<>>
      BY <1>1, <1>3, <2>2
    <3>2. Cursor(infov, 1, Len(<<>>)) /\ Filled(infov, 1, <<>>)
      BY <1>1, <1>2, <1>4, <1>5, <2>2, SkipSlots
    <3>3. Len(<<>>) <= argCount
      BY <1>1, <1>4
    <3>4. QED
      BY <1>4, <3>1, <3>2, <3>3
  <2>3. QED
    BY <2>1, <2>2
<1>7. SlotsDivided'
  BY <1>1 DEF SlotsDivided, Count
<1>8. SignatureFilled'
  BY <1>1, <1>6 DEF SignatureFilled, Count
<1>9. OracleTypeOK'
  BY <1>1, <1>6 DEF OracleInv, OracleTypeOK
<1>10. PhaseOK'
  BY <1>1 DEF PhaseOK
<1>11. QED
  BY <1>7, <1>8, <1>9, <1>10 DEF OracleInv

LEMMA BuildParamStep == OracleInv /\ BuildParam => OracleInv'
<1> SUFFICES ASSUME OracleInv, BuildParam PROVE OracleInv'
  OBVIOUS
<1> DEFINE i == emitted + 1
<1>1. /\ infov \in Seq(InfoType) /\ Len(infov) = Len(sig.params) + 2
      /\ phase = "type" /\ phase' = "type" /\ sig.cabi
      /\ emitted \in Nat /\ emitted >= 1 /\ emitted < Len(infov) /\ emitted' = i
      /\ UNCHANGED <<sig, phase, infov, availInt, availSSE, argCount>>
      /\ argCount \in Nat /\ EntriesOK(infov) /\ Divided(infov, argCount)
      /\ elems \in Seq(SlotType) /\ Len(infov) \in Nat /\ Len(elems) <= argCount
      /\ Cursor(infov, emitted, Len(elems)) /\ Filled(infov, emitted, elems)
      /\ elems' = elems \o SlotsOf(infov[i])
  BY LenProperties
     DEF BuildParam, OracleInv, OracleTypeOK, PhaseOK, SlotsDivided, Count, SignatureFilled
<1>2. /\ i \in 2..Len(infov) /\ i \in DOMAIN infov /\ i - 1 = emitted /\ i # 1
  BY <1>1, LenProperties
<1>3. Cursor(infov, i - 1, Len(elems)) /\ Filled(infov, i - 1, elems)
  BY <1>1, <1>2
<1> HIDE DEF i
<1>4. HasSlots(infov, i) <=> infov[i].disp # "ignore"
  BY <1>2 DEF OracleInv, SlotsDivided, EntriesOK, EntryOK, HasSlots
<1>5. /\ elems' \in Seq(SlotType) /\ Len(elems') <= argCount
      /\ Cursor(infov, i, Len(elems')) /\ Filled(infov, i, elems')
  <2>1. CASE HasSlots(infov, i)
    <3>1. elems' = elems \o infov[i].abiTypes
      BY <1>1, <1>4, <2>1 DEF SlotsOf
    <3>2. QED
      BY <1>1, <1>2, <1>3, <2>1, <3>1, AppendSlots
  <2>2. CASE ~HasSlots(infov, i)
    <3>1. elems' = elems \o <<>> /\ elems \o <<>> = elems
      BY <1>1, <1>4, <2>2, ConcatEmptySeq DEF SlotsOf
    <3>2. QED
      BY <1>1, <1>2, <1>3, <2>2, <3>1, SkipSlots
  <2>3. QED
    BY <2>1, <2>2
<1>6. SlotsDivided'
  BY <1>1 DEF SlotsDivided, Count
<1>7. SignatureFilled'
  BY <1>1, <1>5 DEF SignatureFilled, Count
<1>8. OracleTypeOK'
  BY <1>1, <1>2, <1>5 DEF OracleInv, OracleTypeOK
<1>9. PhaseOK'
  BY <1>1, <1>2 DEF PhaseOK
<1>10. QED
  BY <1>6, <1>7, <1>8, <1>9 DEF OracleInv

LEMMA BuildTypeStep == OracleInv /\ BuildType => OracleInv'
<1> SUFFICES ASSUME OracleInv, BuildType PROVE OracleInv'
  OBVIOUS
<1>1. /\ phase = "type" /\ phase' = "done" /\ emitted = Len(infov)
      /\ UNCHANGED <<sig, infov, availInt, availSSE, argCount, elems, emitted>>
  BY DEF BuildType
<1>2. OracleTypeOK' /\ PhaseOK'
  BY <1>1 DEF OracleInv, OracleTypeOK, PhaseOK
<1>3. SlotsDivided' /\ SignatureFilled'
  BY <1>1 DEF OracleInv, SlotsDivided, Count, SignatureFilled
<1>4. QED
  BY <1>2, <1>3 DEF OracleInv


\* A builtin function has one slot for each parameter, and no chain.
LEMMA RawStep == OracleInv /\ AnalyzeRaw => OracleInv'
<1> SUFFICES ASSUME OracleInv, AnalyzeRaw PROVE OracleInv'
  OBVIOUS
<1> DEFINE n == Len(sig.params)
           entry(i) == CASE i = 1 -> Info(<<Whole(sig.result)>>, "direct", "none", -1)
                         [] i = 2 -> Info(<<ChainPointer>>, "ignore", "nest", -1)
                         [] OTHER -> Info(<<Whole(sig.params[i - 2])>>, "direct",
                                          "none", i - 3)
           w == [i \in 1..(n + 2) |-> entry(i)]
           types == [i \in 1..n |-> Whole(sig.params[i])]
<1>1. /\ sig \in Signature /\ phase = "raw" /\ ~sig.cabi /\ phase' = "done"
      /\ UNCHANGED <<sig, availInt, availSSE, argCount>>
      /\ infov' = w /\ elems' = types /\ emitted' = n + 2
      /\ n \in Nat
  BY SignatureTypes DEF AnalyzeRaw, OracleInv, OracleTypeOK, PhaseOK
<1>2. \A i \in 1..n : sig.params[i] \in Type /\ Whole(sig.params[i]) \in SlotType
  BY <1>1, SignatureTypes, SlotTypes
<1>3. ChainPointer \in SlotType /\ Whole(sig.result) \in SlotType
  BY <1>1, SignatureTypes, SlotTypes
<1>4. /\ entry(1) \in InfoType /\ Len(entry(1).abiTypes) = 1
      /\ entry(1).disp = "direct" /\ entry(1).sigOffset = -1
  BY <1>3, OneSlot
<1>5. /\ entry(2) \in InfoType /\ Len(entry(2).abiTypes) = 1
      /\ entry(2).disp = "ignore" /\ entry(2).sigOffset = -1
  BY <1>3, OneSlot
<1>6. ASSUME NEW i \in 3..(n + 2)
      PROVE  /\ entry(i) \in InfoType /\ Len(entry(i).abiTypes) = 1
             /\ entry(i).disp = "direct" /\ entry(i).sigOffset = i - 3
             /\ entry(i).abiTypes = <<Whole(sig.params[i - 2])>>
             /\ i - 2 \in 1..n
  <2>1. i # 1 /\ i # 2 /\ i - 2 \in 1..n /\ i - 3 \in Int
    BY <1>1
  <2>2. Whole(sig.params[i - 2]) \in SlotType
    BY <1>2, <2>1
  <2>3. entry(i) = Info(<<Whole(sig.params[i - 2])>>, "direct", "none", i - 3)
    BY <2>1
  <2> DEFINE s == Whole(sig.params[i - 2])
             o == i - 3
  <2> HIDE DEF s, o
  <2>4. s \in SlotType /\ o \in Int
    BY <2>1, <2>2 DEF s, o
  <2>5. /\ Info(<<s>>, "direct", "none", o) \in InfoType
        /\ Len(Info(<<s>>, "direct", "none", o).abiTypes) = 1
        /\ Info(<<s>>, "direct", "none", o).disp = "direct"
        /\ Info(<<s>>, "direct", "none", o).sigOffset = o
    BY <2>4, OneSlot
  <2>6. Info(<<s>>, "direct", "none", o).abiTypes = <<s>>
    BY DEF Info
  <2>7. entry(i) = Info(<<s>>, "direct", "none", o)
    BY <2>3 DEF s, o
  <2> HIDE DEF entry
  <2>8. QED
    BY <2>1, <2>5, <2>6, <2>7 DEF s, o
<1> HIDE DEF entry, n
<1>7. /\ w \in Seq(InfoType) /\ Len(w) = n + 2 /\ DOMAIN w = 1..(n + 2)
      /\ \A i \in 1..(n + 2) : w[i] = entry(i)
  <2>1. \A i \in 1..(n + 2) : entry(i) \in InfoType
    <3> SUFFICES ASSUME NEW i \in 1..(n + 2) PROVE entry(i) \in InfoType
      OBVIOUS
    <3>1. i = 1 \/ i = 2 \/ i \in 3..(n + 2)
      BY <1>1
    <3>2. QED
      BY <3>1, <1>4, <1>5, <1>6
  <2>2. QED
    BY <1>1, <2>1
<1>8. /\ types \in Seq(SlotType) /\ Len(types) = n
      /\ \A i \in 1..n : types[i] = Whole(sig.params[i])
  <2>1. \A i \in 1..n : Whole(sig.params[i]) \in SlotType
    BY <1>2 DEF n
  <2>2. QED
    BY <1>1, <2>1
<1> HIDE DEF w, types
<1>9. ASSUME NEW i \in 1..(n + 2)
      PROVE  /\ HasSlots(w, i) <=> i \in 3..(n + 2)
             /\ i \in 3..(n + 2) => /\ w[i].sigOffset = i - 3 /\ End(w, i) = i - 2
                                    /\ w[i].abiTypes = <<Whole(sig.params[i - 2])>>
                                    /\ i - 2 \in 1..n
             /\ Len(w[i].abiTypes) = 1
             /\ EntryOK(w[i], i)
  <2>1. w[i] = entry(i)
    BY <1>7
  <2>2. CASE i = 1
    <3>1. Len(w[i].abiTypes) = 1 /\ w[i].disp = "direct" /\ w[i].sigOffset = -1
      BY <1>4, <2>1, <2>2
    <3>2. ~HasSlots(w, i)
      BY <3>1 DEF HasSlots
    <3>3. i \notin 3..(n + 2)
      BY <1>1, <2>2
    <3>4. EntryOK(w[i], i)
      BY <2>2, <3>1 DEF EntryOK
    <3>5. QED
      BY <3>1, <3>2, <3>3, <3>4
  <2>3. CASE i = 2
    <3>1. Len(w[i].abiTypes) = 1 /\ w[i].disp = "ignore"
      BY <1>5, <2>1, <2>3
    <3>2. ~HasSlots(w, i)
      BY <3>1 DEF HasSlots
    <3>3. i # 1 /\ i \notin 3..(n + 2)
      BY <1>1, <2>3
    <3>4. EntryOK(w[i], i)
      BY <3>1, <3>3 DEF EntryOK
    <3>5. QED
      BY <3>1, <3>2, <3>3, <3>4
  <2>4. CASE i \in 3..(n + 2)
    <3>1. /\ w[i].disp = "direct" /\ w[i].sigOffset = i - 3 /\ Len(w[i].abiTypes) = 1
          /\ w[i].abiTypes = <<Whole(sig.params[i - 2])>> /\ i - 2 \in 1..n
      BY <1>6, <2>1, <2>4
    <3>2. i # 1 /\ i - 3 >= 0 /\ (i - 3) + 1 = i - 2
      BY <1>1, <2>4
    <3>3. QED
      BY <2>4, <3>1, <3>2 DEF HasSlots, EntryOK, End
  <2>5. i = 1 \/ i = 2 \/ i \in 3..(n + 2)
    BY <1>1
  <2>6. QED
    BY <2>2, <2>3, <2>4, <2>5
<1>10. Divided(w, n)
  <2>1. \A i \in DOMAIN w : HasSlots(w, i) => End(w, i) <= n
    BY <1>1, <1>7, <1>9
  <2>2. ASSUME NEW i \in DOMAIN w, NEW j \in DOMAIN w, i < j,
               HasSlots(w, i), HasSlots(w, j)
        PROVE  End(w, i) <= w[j].sigOffset
    BY <1>1, <1>7, <1>9, <2>2
  <2>3. ASSUME NEW s \in Nat, s < n
        PROVE  \E i \in DOMAIN w : HasSlots(w, i) /\ w[i].sigOffset <= s /\ s < End(w, i)
    <3> DEFINE i == s + 3
    <3>1. i \in 1..(n + 2) /\ i \in 3..(n + 2) /\ i - 3 = s /\ i - 2 = s + 1
      BY <1>1, <2>3
    <3> HIDE DEF i
    <3>2. HasSlots(w, i) /\ w[i].sigOffset = s /\ End(w, i) = s + 1
      BY <1>9, <3>1
    <3>3. i \in DOMAIN w
      BY <1>7, <3>1
    <3>4. w[i].sigOffset <= s /\ s < End(w, i)
      BY <3>2
    <3>5. QED
      BY <3>2, <3>3, <3>4
  <2>4. QED
    BY <2>1, <2>2, <2>3 DEF Divided
<1>11. Cursor(w, n + 2, n)
  BY <1>1, <1>7, <1>9 DEF Cursor
<1>12. Filled(w, n + 2, types)
  <2> SUFFICES ASSUME NEW k \in DOMAIN w, HasSlots(w, k), NEW j \in 1..Len(w[k].abiTypes)
               PROVE  types[w[k].sigOffset + j] = w[k].abiTypes[j]
    BY DEF Filled
  <2> DEFINE m == Len(w[k].abiTypes)
  <2>0. k \in 1..(n + 2) /\ m = 1 /\ j \in 1..m /\ k \in 3..(n + 2)
    BY <1>7, <1>9
  <2> HIDE DEF m
  <2>1. k \in 3..(n + 2) /\ j = 1 /\ (k - 3) + 1 = k - 2
    BY <1>1, <2>0
  <2>2. types[k - 2] = Whole(sig.params[k - 2]) /\ w[k].abiTypes[1] = Whole(sig.params[k - 2])
    BY <1>7, <1>8, <1>9, <2>1
  <2>3. w[k].sigOffset = k - 3
    BY <1>7, <1>9, <2>1
  <2>4. QED
    BY <2>1, <2>2, <2>3
<1>13. EntriesOK(w)
  BY <1>7, <1>9 DEF EntriesOK
<1>14. SlotsDivided'
  BY <1>1, <1>10, <1>13 DEF SlotsDivided, Count, n
<1>15. SignatureFilled'
  BY <1>1, <1>8, <1>11, <1>12 DEF SignatureFilled, Count, n
<1>16. OracleTypeOK'
  BY <1>1, <1>7, <1>8 DEF OracleInv, OracleTypeOK, n
<1>17. PhaseOK'
  BY <1>1, <1>7 DEF PhaseOK, n
<1>18. QED
  BY <1>14, <1>15, <1>16, <1>17 DEF OracleInv


-----------------------------------------------------------------------------
(* The theorems.                                                            *)

LEMMA OracleInitInv == OracleInit => OracleInv
<1> SUFFICES ASSUME OracleInit PROVE OracleInv
  OBVIOUS
<1>1. /\ sig \in Signature /\ infov = <<>> /\ elems = <<>> /\ emitted = 0 /\ argCount = 0
      /\ availInt = 6 /\ availSSE = 8
      /\ \/ phase = "return" /\ sig.cabi
         \/ phase = "raw" /\ ~sig.cabi
  BY DEF OracleInit
<1>2. Len(sig.params) \in Nat /\ Len(<<>>) = 0 /\ <<>> \in Seq(InfoType)
      /\ <<>> \in Seq(SlotType)
  BY <1>1, SignatureTypes, EmptySeq
<1>3. OracleTypeOK
  BY <1>1, <1>2 DEF OracleTypeOK
<1>4. PhaseOK
  BY <1>1 DEF PhaseOK
<1>5. SlotsDivided
  BY <1>1, NothingDivided DEF SlotsDivided, Count
<1>6. SignatureFilled
  BY <1>1 DEF SignatureFilled
<1>7. QED
  BY <1>3, <1>4, <1>5, <1>6 DEF OracleInv

LEMMA OracleNextInv == OracleInv /\ [OracleNext]_oracleVars => OracleInv'
<1> SUFFICES ASSUME OracleInv, [OracleNext]_oracleVars PROVE OracleInv'
  OBVIOUS
<1>1. CASE UNCHANGED oracleVars
  BY <1>1 DEF oracleVars, OracleInv, OracleTypeOK, PhaseOK, SlotsDivided, Count,
              SignatureFilled
<1>2. CASE OracleNext
  BY <1>2, ReturnStep, ChainStep, ParamStep, BuildReturnStep, BuildParamStep,
     BuildTypeStep, RawStep DEF OracleNext
<1>3. QED
  BY <1>1, <1>2

-----------------------------------------------------------------------------
(* What the entries say.                                                    *)

\* The entries of the result, of the chain and of a parameter of type t, for the
\* function type "f".
ReturnShape(f, info) ==
  /\ f.cabi => info.disp = Disposition(f.result)
  /\ ~f.cabi => info.disp = "direct"
  /\ info.disp = "indirect" => /\ info.abiTypes = <<PointerTo(f.result)>>
                               /\ info.attr = "sret" /\ info.sigOffset = 0
  /\ info.disp = "direct" => info.sigOffset = -1

ChainShape(f, first, info) ==
  /\ f.cabi => /\ info.disp = "direct" /\ info.attr = "nest"
               /\ info.abiTypes = <<ChainPointer>>
               /\ info.sigOffset = IF first.disp = "indirect" THEN 1 ELSE 0
  /\ ~f.cabi => info.disp = "ignore"

ParamShape(f, t, info) ==
  /\ f.cabi => /\ info.disp = "ignore" <=> Disposition(t) = "ignore"
               /\ info.disp = "indirect" => /\ info.abiTypes = <<PointerTo(t)>>
                                            /\ info.attr = "byval"
               /\ info.disp = "direct" =>
                    /\ Disposition(t) = "direct" /\ info.attr = Extension[t]
                    /\ info.abiTypes = [j \in 1..Len(Regions[t]) |-> Piece(t, j)]
  /\ ~f.cabi => /\ info.disp = "direct" /\ info.attr = "none"
                /\ info.abiTypes = <<Whole(t)>>

Shape(f, v, i) ==
  /\ i = 1 => ReturnShape(f, v[1])
  /\ i = 2 => ChainShape(f, v[1], v[2])
  /\ i >= 3 => ParamShape(f, f.params[i - 2], v[i])

Shapes(f, v) == \A i \in DOMAIN v : Shape(f, v, i)

EntryShapes ==
  /\ phase = "chain" => argCount = IF infov[1].disp = "indirect" THEN 1 ELSE 0
  /\ Shapes(sig, infov)

\* An entry that is added leaves the shapes of the others.
LEMMA AppendShape ==
  ASSUME NEW f, NEW v \in Seq(InfoType), Shapes(f, v), NEW e \in InfoType,
         NEW n, n = Len(v) + 1,
         n = 1 => ReturnShape(f, e),
         n = 2 => ChainShape(f, v[1], e),
         n >= 3 => ParamShape(f, f.params[n - 2], e)
  PROVE  Shapes(f, Append(v, e))
<1> DEFINE w == Append(v, e)
<1>1. /\ DOMAIN w = 1..n /\ n \in Nat /\ w[n] = e /\ DOMAIN v = 1..(n - 1)
      /\ \A i \in 1..(n - 1) : w[i] = v[i]
  BY AppendProperties, LenProperties
<1> HIDE DEF w
<1> SUFFICES ASSUME NEW i \in 1..n PROVE Shape(f, w, i)
  BY <1>1 DEF Shapes, w
<1>3. CASE i = n
  <2>1. n = 2 => w[1] = v[1]
    BY <1>1
  <2>2. QED
    BY <1>1, <1>3, <2>1 DEF Shape
<1>4. CASE i # n
  <2>1. i \in 1..(n - 1) /\ i \in DOMAIN v /\ w[i] = v[i]
    BY <1>1, <1>4
  <2>2. i = 2 => w[1] = v[1]
    BY <1>1, <2>1
  <2>3. Shape(f, v, i)
    BY <2>1 DEF Shapes
  <2>4. QED
    BY <2>1, <2>2, <2>3 DEF Shape
<1>5. QED
  BY <1>3, <1>4

LEMMA EntryShapesInit == OracleInit => EntryShapes
<1> SUFFICES ASSUME OracleInit PROVE EntryShapes
  OBVIOUS
<1>1. DOMAIN infov = {} /\ phase # "chain"
  BY EmptySeq DEF OracleInit
<1>2. QED
  BY <1>1 DEF EntryShapes, Shapes

LEMMA ReturnShapes == OracleInv /\ AnalyzeReturn => EntryShapes'
<1> SUFFICES ASSUME OracleInv, AnalyzeReturn PROVE EntryShapes'
  OBVIOUS
<1> DEFINE t == sig.result
<1>1. /\ sig \in Signature /\ sig.cabi /\ UNCHANGED sig
      /\ infov = <<>> /\ argCount = 0
  BY DEF AnalyzeReturn, OracleInv, OracleTypeOK, PhaseOK
<1>2. \E e : /\ infov' = <<e>> /\ ReturnShape(sig, e)
             /\ argCount' = IF e.disp = "indirect" THEN 1 ELSE 0
  <2>1. CASE Disposition(t) = "ignore" /\ infov' = <<IgnoredInfo>> /\ UNCHANGED argCount
    <3> DEFINE e == IgnoredInfo
    <3>1. e.disp = "ignore"
      BY DEF IgnoredInfo, Info
    <3> HIDE DEF e
    <3>2. ReturnShape(sig, e)
      BY <1>1, <2>1, <3>1 DEF ReturnShape
    <3>3. infov' = <<e>>
      BY <2>1 DEF e
    <3>4. QED
      BY <1>1, <2>1, <3>1, <3>2, <3>3
  <2>2. CASE /\ Disposition(t) = "indirect"
             /\ infov' = <<Info(<<PointerTo(t)>>, "indirect", "sret", 0)>>
             /\ argCount' = argCount + 1
    <3> DEFINE e == Info(<<PointerTo(t)>>, "indirect", "sret", 0)
    <3>1. /\ e.disp = "indirect" /\ e.abiTypes = <<PointerTo(t)>>
          /\ e.attr = "sret" /\ e.sigOffset = 0
      BY DEF Info
    <3> HIDE DEF e
    <3>2. ReturnShape(sig, e)
      BY <1>1, <2>2, <3>1 DEF ReturnShape
    <3>3. infov' = <<e>>
      BY <2>2 DEF e
    <3>4. QED
      BY <1>1, <2>2, <3>1, <3>2, <3>3
  <2>3. CASE /\ Disposition(t) = "direct"
             /\ infov' = <<Info(<<IF Len(Regions[t]) = 1 THEN Piece(t, 1)
                                                         ELSE BothPieces(t)>>,
                                "direct", Extension[t], -1)>>
             /\ UNCHANGED argCount
    <3> DEFINE e == Info(<<IF Len(Regions[t]) = 1 THEN Piece(t, 1) ELSE BothPieces(t)>>,
                         "direct", Extension[t], -1)
    <3>1. e.disp = "direct" /\ e.sigOffset = -1
      BY DEF Info
    <3> HIDE DEF e
    <3>2. ReturnShape(sig, e)
      BY <1>1, <2>3, <3>1 DEF ReturnShape
    <3>3. infov' = <<e>>
      BY <2>3 DEF e
    <3>4. QED
      BY <1>1, <2>3, <3>1, <3>2, <3>3
  <2>4. QED
    BY <2>1, <2>2, <2>3 DEF AnalyzeReturn
<1>3. PICK e : /\ infov' = <<e>> /\ ReturnShape(sig, e)
               /\ argCount' = IF e.disp = "indirect" THEN 1 ELSE 0
  BY <1>2
<1>4. DOMAIN infov' = {1} /\ infov'[1] = e
  BY <1>3
<1>5. Shapes(sig, infov')
  BY <1>3, <1>4 DEF Shapes, Shape
<1>6. QED
  BY <1>1, <1>3, <1>4, <1>5 DEF EntryShapes

LEMMA ChainShapes == OracleInv /\ EntryShapes /\ AnalyzeChain => EntryShapes'
<1> SUFFICES ASSUME OracleInv, EntryShapes, AnalyzeChain PROVE EntryShapes'
  OBVIOUS
<1> DEFINE e == Info(<<ChainPointer>>, "direct", "nest", argCount)
<1>1. /\ infov \in Seq(InfoType) /\ Len(infov) = 1 /\ sig.cabi /\ phase' = "params"
      /\ argCount = (IF infov[1].disp = "indirect" THEN 1 ELSE 0)
      /\ infov' = Append(infov, e) /\ UNCHANGED sig /\ Shapes(sig, infov)
  BY DEF AnalyzeChain, OracleInv, OracleTypeOK, PhaseOK, EntryShapes
<1>2. /\ e.disp = "direct" /\ e.attr = "nest" /\ e.abiTypes = <<ChainPointer>>
      /\ e.sigOffset = argCount
  BY DEF Info
<1>3. e \in InfoType
  <2>1. ChainPointer \in SlotType /\ argCount \in Int
    BY SlotTypes DEF OracleInv, OracleTypeOK
  <2>2. QED
    BY <2>1, OneSlot
<1> HIDE DEF e
<1>4. ChainShape(sig, infov[1], e)
  BY <1>1, <1>2 DEF ChainShape
<1>5. Shapes(sig, infov')
  <2> DEFINE n == 2
  <2>1. n = Len(infov) + 1 /\ n # 1 /\ n = 2 /\ ~(n >= 3)
    BY <1>1
  <2> HIDE DEF n
  <2>2. Shapes(sig, Append(infov, e))
    BY <1>1, <1>3, <1>4, <2>1, AppendShape
  <2>3. QED
    BY <1>1, <2>2
<1>6. QED
  BY <1>1, <1>5 DEF EntryShapes

LEMMA ParamShapes == OracleInv /\ EntryShapes /\ AnalyzeParam => EntryShapes'
<1> SUFFICES ASSUME OracleInv, EntryShapes, AnalyzeParam PROVE EntryShapes'
  OBVIOUS
<1> DEFINE n == Len(infov) + 1
           t == sig.params[Len(infov) - 1]
<1>1. /\ sig \in Signature /\ infov \in Seq(InfoType) /\ Len(infov) >= 2 /\ sig.cabi
      /\ Len(infov) < Len(sig.params) + 2
      /\ phase = "params" /\ argCount \in Int /\ UNCHANGED <<sig, phase>>
      /\ Shapes(sig, infov)
  BY DEF AnalyzeParam, OracleInv, OracleTypeOK, PhaseOK, EntryShapes
<1>2. /\ Len(infov) \in Nat /\ n - 2 = Len(infov) - 1 /\ n >= 3
      /\ Len(infov) - 1 \in 1..Len(sig.params)
  BY <1>1, LenProperties, SignatureTypes
<1>3. t \in Type
  BY <1>1, <1>2, SignatureTypes
<1>4. \E e \in InfoType : infov' = Append(infov, e) /\ ParamShape(sig, t, e)
  <2>1. CASE Disposition(t) = "ignore" /\ infov' = Append(infov, IgnoredInfo)
    <3> DEFINE e == IgnoredInfo
    <3>1. e.disp = "ignore" /\ e \in InfoType
      <4>1. Whole(Void) \in SlotType
        BY SlotTypes
      <4>2. QED
        BY <4>1, OneSlot DEF IgnoredInfo
    <3> HIDE DEF e
    <3>2. ParamShape(sig, t, e)
      BY <1>1, <2>1, <3>1 DEF ParamShape
    <3>3. infov' = Append(infov, e)
      BY <2>1 DEF e
    <3>4. QED
      BY <3>1, <3>2, <3>3
  <2>2. CASE Disposition(t) # "ignore" /\ infov' = Append(infov, InMemory(t))
    <3> DEFINE e == InMemory(t)
    <3>1. /\ e.disp = "indirect" /\ e.abiTypes = <<PointerTo(t)>> /\ e.attr = "byval"
          /\ e \in InfoType
      <4>1. PointerTo(t) \in SlotType
        BY <1>3, SlotTypes
      <4>2. e \in InfoType
        <5>1. argCount \in Int
          BY <1>1
        <5>2. Info(<<PointerTo(t)>>, "indirect", "byval", argCount) \in InfoType
          BY <4>1, <5>1, OneSlot
        <5>3. QED
          BY <5>2 DEF InMemory
      <4>3. e = Info(<<PointerTo(t)>>, "indirect", "byval", argCount)
        BY DEF InMemory
      <4> HIDE DEF e, t
      <4>4. e.disp = "indirect" /\ e.abiTypes = <<PointerTo(t)>> /\ e.attr = "byval"
        BY <4>3 DEF Info
      <4>5. QED
        BY <4>2, <4>4
    <3> HIDE DEF e
    <3>2. ParamShape(sig, t, e)
      BY <1>1, <2>2, <3>1 DEF ParamShape
    <3>3. infov' = Append(infov, e)
      BY <2>2 DEF e
    <3>4. QED
      BY <3>1, <3>2, <3>3
  <2>3. CASE /\ Disposition(t) = "direct"
             /\ infov' = Append(infov, Info([j \in 1..Len(Regions[t]) |-> Piece(t, j)],
                                            "direct", Extension[t], argCount))
    <3> DEFINE pieces == [j \in 1..Len(Regions[t]) |-> Piece(t, j)]
               e == Info(pieces, "direct", Extension[t], argCount)
    <3>1. /\ e.disp = "direct" /\ e.abiTypes = pieces /\ e.attr = Extension[t]
          /\ e \in InfoType
      <4>1. pieces \in Seq(SlotType)
        BY <1>3, <2>3, PieceSlots
      <4>2. Extension[t] \in {"none", "zext", "sext"}
        BY <1>3, SlotTypes
      <4> HIDE DEF pieces
      <4>3. e \in InfoType
        BY <1>1, <4>1, <4>2, InfoFacts, SMTT(30)
      <4>4. QED
        BY <4>3 DEF Info
    <3>2. infov' = Append(infov, e)
      BY <2>3
    <3> HIDE DEF e
    <3>3. ParamShape(sig, t, e)
      BY <1>1, <2>3, <3>1 DEF ParamShape
    <3>4. QED
      BY <3>1, <3>2, <3>3
  <2>4. QED
    BY <2>1, <2>2, <2>3 DEF AnalyzeParam
<1>5. PICK e \in InfoType : infov' = Append(infov, e) /\ ParamShape(sig, t, e)
  BY <1>4
<1>6. ParamShape(sig, sig.params[n - 2], e) /\ n # 1 /\ n # 2
  BY <1>2, <1>5
<1> HIDE DEF t, n
<1>7. Shapes(sig, Append(infov, e))
  BY <1>1, <1>6, AppendShape DEF n
<1>8. QED
  BY <1>1, <1>5, <1>7 DEF EntryShapes

LEMMA RawShapes == OracleInv /\ AnalyzeRaw => EntryShapes'
<1> SUFFICES ASSUME OracleInv, AnalyzeRaw PROVE EntryShapes'
  OBVIOUS
<1> DEFINE n == Len(sig.params)
           entry(i) == CASE i = 1 -> Info(<<Whole(sig.result)>>, "direct", "none", -1)
                         [] i = 2 -> Info(<<ChainPointer>>, "ignore", "nest", -1)
                         [] OTHER -> Info(<<Whole(sig.params[i - 2])>>, "direct",
                                          "none", i - 3)
<1>1. /\ ~sig.cabi /\ n \in Nat /\ phase' = "done" /\ UNCHANGED sig
      /\ infov' = [i \in 1..(n + 2) |-> entry(i)]
  BY SignatureTypes DEF AnalyzeRaw, OracleInv, OracleTypeOK, PhaseOK
<1> HIDE DEF n
<1> SUFFICES ASSUME NEW i \in 1..(n + 2) PROVE Shape(sig, infov', i)
  BY <1>1 DEF EntryShapes, Shapes
<1>2. infov'[i] = entry(i)
  BY <1>1
<1>3. CASE i = 1
  <2>1. infov'[1].disp = "direct" /\ infov'[1].sigOffset = -1
    BY <1>2, <1>3 DEF Info
  <2>2. QED
    BY <1>1, <1>3, <2>1 DEF Shape, ReturnShape
<1>4. CASE i = 2
  <2>1. infov'[2].disp = "ignore"
    BY <1>2, <1>4 DEF Info
  <2>2. QED
    BY <1>1, <1>4, <2>1 DEF Shape, ChainShape
<1>5. CASE i # 1 /\ i # 2
  <2>1. /\ infov'[i].disp = "direct" /\ infov'[i].attr = "none"
        /\ infov'[i].abiTypes = <<Whole(sig.params[i - 2])>>
    BY <1>2, <1>5 DEF Info
  <2>2. QED
    BY <1>1, <1>5, <2>1 DEF Shape, ParamShape
<1>6. QED
  BY <1>3, <1>4, <1>5

LEMMA EntryShapesNext ==
  OracleInv /\ EntryShapes /\ [OracleNext]_oracleVars => EntryShapes'
<1> SUFFICES ASSUME OracleInv, EntryShapes, [OracleNext]_oracleVars PROVE EntryShapes'
  OBVIOUS
<1>1. CASE BuildReturn \/ BuildParam \/ BuildType
  BY <1>1 DEF BuildReturn, BuildParam, BuildType, EntryShapes
<1>2. CASE UNCHANGED oracleVars
  BY <1>2 DEF oracleVars, EntryShapes
<1>3. QED
  BY <1>1, <1>2, ReturnShapes, ChainShapes, ParamShapes, RawShapes DEF OracleNext

-----------------------------------------------------------------------------
(* The registers that are left.                                             *)

\* The kind of register LLVM passes piece j of an entry in, if it uses one.
Register(info, j) ==
  IF info.disp = "indirect" THEN IF info.attr = "sret" THEN "int" ELSE "memory"
  ELSE IF info.abiTypes[j].k = "piece"
       THEN Regions[info.abiTypes[j].t][info.abiTypes[j].j] ELSE "none"

\* The slots of an entry, and of all entries, that are passed in registers of a kind.
EntryRegisters(info, flavor) ==
  {s \in Nat : /\ info.disp # "ignore" /\ info.sigOffset >= 0
               /\ info.sigOffset <= s /\ s < info.sigOffset + Len(info.abiTypes)
               /\ Register(info, s - info.sigOffset + 1) = flavor}
RegisterSlots(v, flavor) == {s \in Nat : \E i \in DOMAIN v : s \in EntryRegisters(v[i], flavor)}

\* The registers of a kind that the slots below s take.
Taken(v, flavor, s) == Cardinality({r \in RegisterSlots(v, flavor) : r < s})

\* What canPassDirectly answered for a parameter in two pieces.
Together(t, info, v) ==
  Size[t] \in 1..16 /\ Len(Regions[t]) = 2 =>
    (info.disp = "direct" <=>
       /\ Fits(Needed(t, "int"), Taken(v, "int", info.sigOffset), 6)
       /\ Fits(Needed(t, "sse"), Taken(v, "sse", info.sigOffset), 8))

\* ABIState counts the registers LLVM has left.
RegistersCounted ==
  sig.cabi =>
    /\ availInt = AtLeastZero(6 - Taken(infov, "int", argCount))
    /\ availSSE = AtLeastZero(8 - Taken(infov, "sse", argCount))
    /\ \A i \in DOMAIN infov : i >= 3 => Together(sig.params[i - 2], infov[i], infov)

\* The slots of a new entry are behind those of the others.
LEMMA RegistersBehind ==
  ASSUME NEW v \in Seq(InfoType), NEW count \in Nat, Divided(v, count), NEW flavor
  PROVE  /\ RegisterSlots(v, flavor) \subseteq 0..(count - 1)
         /\ IsFiniteSet(RegisterSlots(v, flavor))
<1>1. ASSUME NEW s \in RegisterSlots(v, flavor) PROVE s \in 0..(count - 1)
  <2>1. PICK i \in DOMAIN v : s \in EntryRegisters(v[i], flavor)
    BY DEF RegisterSlots
  <2>2. HasSlots(v, i) /\ s < End(v, i) /\ s \in Nat
    BY <2>1 DEF EntryRegisters, HasSlots, End
  <2>3. End(v, i) <= count /\ End(v, i) \in Int
    BY <2>2, InfoParts DEF Divided, End
  <2>4. QED
    BY <2>2, <2>3
<1>2. IsFiniteSet(0..(count - 1))
  BY FS_Interval
<1>3. QED
  BY <1>1, <1>2, FS_Subset

LEMMA RegistersAppend ==
  ASSUME NEW v \in Seq(InfoType), NEW e \in InfoType, NEW flavor
  PROVE  RegisterSlots(Append(v, e), flavor)
           = RegisterSlots(v, flavor) \cup EntryRegisters(e, flavor)
<1> DEFINE w == Append(v, e)
           n == Len(v) + 1
<1>1. /\ DOMAIN w = 1..n /\ n \in 1..n /\ w[n] = e /\ DOMAIN v = 1..(n - 1)
      /\ \A i \in 1..(n - 1) : w[i] = v[i]
  BY AppendProperties, LenProperties
<1> HIDE DEF w, n
<1>2. ASSUME NEW s \in RegisterSlots(w, flavor)
      PROVE  s \in RegisterSlots(v, flavor) \cup EntryRegisters(e, flavor)
  <2>1. PICK i \in 1..n : s \in EntryRegisters(w[i], flavor) /\ s \in Nat
    BY <1>1 DEF RegisterSlots
  <2>2. CASE i = n
    BY <1>1, <2>1, <2>2
  <2>3. CASE i # n
    <3>1. i \in DOMAIN v /\ w[i] = v[i]
      BY <1>1, <2>3
    <3>2. QED
      BY <2>1, <3>1 DEF RegisterSlots
  <2>4. QED
    BY <2>2, <2>3
<1>3. ASSUME NEW s \in RegisterSlots(v, flavor) PROVE s \in RegisterSlots(w, flavor)
  <2>1. PICK i \in DOMAIN v : s \in EntryRegisters(v[i], flavor) /\ s \in Nat
    BY DEF RegisterSlots
  <2>2. i \in DOMAIN w /\ w[i] = v[i]
    BY <1>1
  <2>3. QED
    BY <2>1, <2>2 DEF RegisterSlots
<1>4. ASSUME NEW s \in EntryRegisters(e, flavor) PROVE s \in RegisterSlots(w, flavor)
  <2>1. s \in Nat /\ n \in DOMAIN w /\ w[n] = e
    BY <1>1 DEF EntryRegisters
  <2>2. QED
    BY <2>1 DEF RegisterSlots
<1>5. QED
  BY <1>2, <1>3, <1>4 DEF w

\* An entry at the next slot leaves what is below it, and adds its own registers.
LEMMA TakenStep ==
  ASSUME NEW v \in Seq(InfoType), NEW count \in Nat, Divided(v, count),
         NEW e \in InfoType, NEW flavor,
         e.disp # "ignore" /\ e.sigOffset >= 0 => e.sigOffset = count,
         NEW next \in Nat, next >= count,
         \A s \in EntryRegisters(e, flavor) : s < next,
         IsFiniteSet(EntryRegisters(e, flavor))
  PROVE  /\ \A s \in Int : s <= count => Taken(Append(v, e), flavor, s) = Taken(v, flavor, s)
         /\ Taken(Append(v, e), flavor, next) =
              Taken(v, flavor, count) + Cardinality(EntryRegisters(e, flavor))
         /\ Taken(v, flavor, count) \in Nat
<1> DEFINE A == RegisterSlots(v, flavor)
           B == EntryRegisters(e, flavor)
           C == RegisterSlots(Append(v, e), flavor)
<1>1. C = A \cup B /\ A \subseteq 0..(count - 1) /\ IsFiniteSet(A)
  BY RegistersAppend, RegistersBehind
<1>2. \A s \in B : s \in Nat /\ s >= count
  BY DEF EntryRegisters
<1>3. \A s \in B : s < next
  OBVIOUS
<1>4. IsFiniteSet(B)
  OBVIOUS
<1> HIDE DEF A, B, C
<1>5. \A s \in Int : s <= count => {r \in C : r < s} = {r \in A : r < s}
  BY <1>1, <1>2
<1>6. {r \in A : r < count} = A /\ {r \in C : r < next} = A \cup B
  <2>1. \A r \in A : r < count /\ r < next
    BY <1>1
  <2>2. \A r \in C : r < next
    BY <1>1, <1>3, <2>1
  <2>3. QED
    BY <1>1, <2>1, <2>2
<1>7. Cardinality(A \cup B) = Cardinality(A) + Cardinality(B) /\ Cardinality(A) \in Nat
  <2>1. A \cap B = {}
    BY <1>1, <1>2
  <2>2. /\ Cardinality(A) \in Nat /\ Cardinality(B) \in Nat
        /\ Cardinality(A \cup B) = Cardinality(A) + Cardinality(B) - Cardinality(A \cap B)
    BY <1>1, <1>4, FS_Union, FS_CardinalityType
  <2>3. Cardinality(A \cap B) = 0
    BY <2>1, FS_EmptySet
  <2>4. QED
    BY <2>2, <2>3
<1>8. QED
  BY <1>5, <1>6, <1>7 DEF Taken, A, B, C

\* The registers of each kind of entry.
LEMMA NoRegisters ==
  ASSUME NEW e \in InfoType, NEW flavor \in Flavors,
         \/ e.disp = "ignore"
         \/ e.disp = "indirect" /\ e.attr = "byval"
         \/ e.disp = "direct" /\ e.abiTypes = <<ChainPointer>>
         \/ e.sigOffset < 0
  PROVE  EntryRegisters(e, flavor) = {}
<1> SUFFICES ASSUME NEW s \in EntryRegisters(e, flavor) PROVE FALSE
  OBVIOUS
<1> DEFINE o == e.sigOffset
           m == Len(e.abiTypes)
           j == s - o + 1
<1>1. /\ s \in Nat /\ e.disp # "ignore" /\ o >= 0 /\ o <= s /\ s < o + m
      /\ Register(e, j) = flavor /\ o \in Int
  BY DEF EntryRegisters, InfoType
<1>2. flavor # "memory" /\ flavor # "none"
  BY DEF Flavors
<1>3. CASE e.disp = "indirect" /\ e.attr = "byval"
  BY <1>1, <1>2, <1>3 DEF Register
<1>4. CASE e.disp = "direct" /\ e.abiTypes = <<ChainPointer>>
  <2>1. m = 1
    BY <1>4
  <2> HIDE DEF m
  <2>2. j = 1
    BY <1>1, <2>1
  <2>3. e.abiTypes[1].k = "chain"
    BY <1>4 DEF ChainPointer, Slot
  <2> HIDE DEF j
  <2>4. Register(e, j) = "none"
    BY <1>4, <2>2, <2>3 DEF Register
  <2>5. QED
    BY <1>1, <1>2, <2>4
<1>5. e.sigOffset >= 0 /\ e.disp # "ignore"
  BY <1>1
<1>6. QED
  BY <1>1, <1>3, <1>4, <1>5

LEMMA SretRegisters ==
  ASSUME NEW e \in InfoType, e.disp = "indirect", e.attr = "sret", e.sigOffset = 0,
         Len(e.abiTypes) = 1
  PROVE  EntryRegisters(e, "int") = {0} /\ EntryRegisters(e, "sse") = {}
<1>1. \A j : Register(e, j) = "int"
  BY DEF Register
<1>2. QED
  BY <1>1 DEF EntryRegisters

LEMMA DirectRegisters ==
  ASSUME NEW t \in Type, Disposition(t) = "direct", NEW flavor \in Flavors,
         NEW e \in InfoType, e.disp = "direct",
         e.abiTypes = [j \in 1..Len(Regions[t]) |-> Piece(t, j)],
         NEW count \in Nat, e.sigOffset = count
  PROVE  /\ IsFiniteSet(EntryRegisters(e, flavor))
         /\ Cardinality(EntryRegisters(e, flavor)) = Needed(t, flavor)
         /\ \A s \in EntryRegisters(e, flavor) : s < count + Len(Regions[t])
<1> DEFINE n == Len(Regions[t])
           E == EntryRegisters(e, flavor)
           first == Regions[t][1] = flavor
           second == n = 2 /\ Regions[t][2] = flavor
<1>1. n \in 1..2 /\ Len(e.abiTypes) = n
  BY PieceSlots
<1>2. \A j \in 1..n : e.abiTypes[j] = Piece(t, j)
  OBVIOUS
<1> HIDE DEF n
<1>3. \A j \in 1..n : Register(e, j) = Regions[t][j]
  <2> SUFFICES ASSUME NEW j \in 1..n PROVE Register(e, j) = Regions[t][j]
    OBVIOUS
  <2>1. /\ Piece(t, j).k = "piece" /\ Piece(t, j).t = t /\ Piece(t, j).j = j
        /\ e.abiTypes[j] = Piece(t, j)
    BY <1>2 DEF Piece, Slot
  <2>2. QED
    BY <2>1 DEF Register
<1>4. \A s : s \in E <=>
               /\ s \in Nat /\ count <= s /\ s < count + n
               /\ Register(e, s - count + 1) = flavor
  BY <1>1 DEF EntryRegisters
<1> HIDE DEF E
<1>5. \A s : s \in E <=> (s = count /\ first) \/ (s = count + 1 /\ second)
  <2>1. ASSUME NEW s \in E PROVE (s = count /\ first) \/ (s = count + 1 /\ second)
    <3>1. /\ s \in Nat /\ count <= s /\ s < count + n
          /\ Register(e, s - count + 1) = flavor
      BY <1>4
    <3>2. s = count \/ (s = count + 1 /\ n = 2)
      BY <1>1, <3>1
    <3>3. CASE s = count
      <4>1. s - count + 1 = 1 /\ 1 \in 1..n
        BY <1>1, <3>3
      <4>2. QED
        BY <1>3, <3>1, <3>3, <4>1
    <3>4. CASE s = count + 1 /\ n = 2
      <4>1. s - count + 1 = 2 /\ 2 \in 1..n
        BY <3>4
      <4>2. QED
        BY <1>3, <3>1, <3>4, <4>1
    <3>5. QED
      BY <3>2, <3>3, <3>4
  <2>2. ASSUME first PROVE count \in E
    <3>1. count - count + 1 = 1 /\ 1 \in 1..n /\ count < count + n /\ count <= count
      BY <1>1
    <3>2. Register(e, count - count + 1) = flavor
      BY <1>3, <2>2, <3>1
    <3>3. QED
      BY <1>4, <3>1, <3>2
  <2>3. ASSUME second PROVE count + 1 \in E
    <3>1. /\ (count + 1) - count + 1 = 2 /\ 2 \in 1..n
          /\ count + 1 < count + n /\ count <= count + 1 /\ count + 1 \in Nat
      BY <2>3
    <3>2. Register(e, (count + 1) - count + 1) = flavor
      BY <1>3, <2>3, <3>1
    <3>3. QED
      BY <1>4, <3>1, <3>2
  <2>4. QED
    BY <2>1, <2>2, <2>3
<1>6. Needed(t, flavor) = (IF first THEN 1 ELSE 0) + (IF second THEN 1 ELSE 0)
  BY DEF Needed, n
<1>7. \A s \in E : s < count + n
  BY <1>4
<1> HIDE DEF first, second
<1>8. IsFiniteSet(E) /\ Cardinality(E) = Needed(t, flavor)
  <2>1. CASE first /\ second
    <3>1. E = {count} \cup {count + 1} /\ count + 1 \notin {count}
      BY <1>5, <2>1
    <3>2. IsFiniteSet({count}) /\ Cardinality({count}) = 1
      BY FS_Singleton
    <3> DEFINE one == {count}
    <3> HIDE DEF one
    <3>3. IsFiniteSet(one) /\ Cardinality(one) = 1
          /\ E = one \cup {count + 1} /\ count + 1 \notin one
      BY <3>1, <3>2 DEF one
    <3>4. /\ IsFiniteSet(one \cup {count + 1})
          /\ Cardinality(one \cup {count + 1}) = Cardinality(one) + 1
      BY <3>3, FS_AddElement
    <3>5. Needed(t, flavor) = 2
      BY <1>6, <2>1
    <3>6. QED
      BY <3>3, <3>4, <3>5
  <2>2. CASE first /\ ~second
    <3>1. E = {count}
      BY <1>5, <2>2
    <3>2. IsFiniteSet({count}) /\ Cardinality({count}) = 1
      BY FS_Singleton
    <3>3. Needed(t, flavor) = 1
      BY <1>6, <2>2
    <3>4. QED
      BY <3>1, <3>2, <3>3
  <2>3. CASE ~first /\ second
    <3>1. E = {count + 1}
      BY <1>5, <2>3
    <3>2. IsFiniteSet({count + 1}) /\ Cardinality({count + 1}) = 1
      BY FS_Singleton
    <3>3. Needed(t, flavor) = 1
      BY <1>6, <2>3
    <3>4. QED
      BY <3>1, <3>2, <3>3
  <2>4. CASE ~first /\ ~second
    <3>1. E = {}
      BY <1>5, <2>4
    <3>2. QED
      BY <1>6, <2>4, <3>1, FS_EmptySet
  <2>5. QED
    BY <2>1, <2>2, <2>3, <2>4
<1>9. QED
  BY <1>7, <1>8 DEF E, n

\* What was answered for the parameters before stands when an entry is added.
LEMMA TogetherKept ==
  ASSUME OracleInv, EntryShapes, sig.cabi, phase # "raw",
         NEW i \in DOMAIN infov, i >= 3, Together(sig.params[i - 2], infov[i], infov),
         NEW w,
         \A flavor \in Flavors : \A s \in Int :
           s <= argCount => Taken(w, flavor, s) = Taken(infov, flavor, s)
  PROVE  Together(sig.params[i - 2], infov[i], w)
<1> DEFINE t == sig.params[i - 2]
           o == infov[i].sigOffset
<1> SUFFICES ASSUME Size[t] \in 1..16, Len(Regions[t]) = 2
             PROVE  \A flavor \in Flavors : Taken(w, flavor, o) = Taken(infov, flavor, o)
  BY DEF Together, Flavors
<1>1. /\ infov \in Seq(InfoType) /\ argCount \in Nat /\ Divided(infov, argCount)
      /\ EntryOK(infov[i], i) /\ sig.cabi /\ Shape(sig, infov, i)
  BY DEF OracleInv, OracleTypeOK, SlotsDivided, Count, EntriesOK, EntryShapes, Shapes
<1>2. infov[i].disp # "ignore"
  <2>1. Disposition(t) # "ignore"
    BY DEF Disposition
  <2>2. ParamShape(sig, t, infov[i])
    BY <1>1 DEF Shape
  <2>3. QED
    BY <2>1, <2>2 DEF ParamShape
<1>3. HasSlots(infov, i)
  BY <1>1, <1>2 DEF EntryOK, HasSlots
<1>4. End(infov, i) <= argCount /\ o \in Int /\ Len(infov[i].abiTypes) \in Nat
  BY <1>1, <1>3, InfoParts DEF Divided
<1>5. o <= argCount /\ o \in Int
  BY <1>1, <1>4 DEF End
<1>6. QED
  BY <1>5

\* A step that adds an entry and takes its registers from those that are left.
LEMMA RegistersStep ==
  ASSUME OracleInv, EntryShapes, RegistersCounted, sig.cabi, phase # "raw", UNCHANGED sig,
         NEW e \in InfoType, infov' = Append(infov, e),
         e.disp # "ignore" /\ e.sigOffset >= 0 => e.sigOffset = argCount,
         e.sigOffset <= argCount,
         argCount' \in Nat, argCount' >= argCount,
         \A flavor \in Flavors : /\ IsFiniteSet(EntryRegisters(e, flavor))
                                 /\ \A s \in EntryRegisters(e, flavor) : s < argCount',
         NEW ni \in Nat, NEW nf \in Nat,
         Cardinality(EntryRegisters(e, "int")) = ni,
         Cardinality(EntryRegisters(e, "sse")) = nf,
         availInt' = AtLeastZero(availInt - ni), availSSE' = AtLeastZero(availSSE - nf),
         Len(infov) >= 2 => Together(sig.params[Len(infov) - 1], e, infov)
  PROVE  RegistersCounted'
<1> DEFINE w == Append(infov, e)
           n == Len(infov) + 1
<1>1. infov \in Seq(InfoType) /\ argCount \in Nat /\ Divided(infov, argCount)
  BY DEF OracleInv, OracleTypeOK, SlotsDivided, Count
<1>2. /\ DOMAIN w = 1..n /\ n \in 1..n /\ w[n] = e /\ DOMAIN infov = 1..(n - 1)
      /\ \A i \in 1..(n - 1) : w[i] = infov[i]
  BY <1>1, AppendProperties, LenProperties
<1>3. ASSUME NEW flavor \in Flavors
      PROVE  /\ \A s \in Int : s <= argCount => Taken(w, flavor, s) = Taken(infov, flavor, s)
             /\ Taken(w, flavor, argCount') =
                  Taken(infov, flavor, argCount) + Cardinality(EntryRegisters(e, flavor))
             /\ Taken(infov, flavor, argCount) \in Nat
  BY <1>1, TakenStep
<1> HIDE DEF w
<1>4. availInt' = AtLeastZero(6 - Taken(w, "int", argCount'))
  <2> DEFINE a == Taken(infov, "int", argCount)
  <2>1. a \in Nat /\ Taken(w, "int", argCount') = a + ni /\ availInt = AtLeastZero(6 - a)
    BY <1>3 DEF Flavors, RegistersCounted
  <2> HIDE DEF a
  <2>2. QED
    BY <2>1 DEF AtLeastZero
<1>5. availSSE' = AtLeastZero(8 - Taken(w, "sse", argCount'))
  <2> DEFINE a == Taken(infov, "sse", argCount)
  <2>1. a \in Nat /\ Taken(w, "sse", argCount') = a + nf /\ availSSE = AtLeastZero(8 - a)
    BY <1>3 DEF Flavors, RegistersCounted
  <2> HIDE DEF a
  <2>2. QED
    BY <2>1 DEF AtLeastZero
<1>6. ASSUME NEW i \in 1..n, i >= 3 PROVE Together(sig.params[i - 2], w[i], w)
  <2>1. CASE i = n
    <3>1. Together(sig.params[n - 2], e, infov)
      <4>1. Len(infov) >= 2 /\ n - 2 = Len(infov) - 1
        BY <1>1, <1>6, <2>1, LenProperties
      <4>2. QED
        BY <4>1
    <3>2. e.sigOffset \in Int
      BY DEF InfoType
    <3>3. /\ Taken(w, "int", e.sigOffset) = Taken(infov, "int", e.sigOffset)
          /\ Taken(w, "sse", e.sigOffset) = Taken(infov, "sse", e.sigOffset)
      BY <1>3, <3>2 DEF Flavors
    <3>4. Together(sig.params[n - 2], e, w)
      BY <3>1, <3>3 DEF Together
    <3>5. QED
      BY <1>2, <2>1, <3>4
  <2>2. CASE i # n
    <3>1. i \in DOMAIN infov /\ w[i] = infov[i]
      BY <1>2, <2>2
    <3>2. Together(sig.params[i - 2], infov[i], infov)
      BY <1>6, <3>1 DEF RegistersCounted
    <3>3. QED
      BY <1>3, <1>6, <3>1, <3>2, TogetherKept
  <2>3. QED
    BY <2>1, <2>2
<1>7. infov' = w
  BY DEF w
<1>8. QED
  BY <1>2, <1>4, <1>5, <1>6, <1>7 DEF RegistersCounted

LEMMA ReturnRegisters ==
  ASSUME OracleInv, EntryShapes, RegistersCounted, AnalyzeReturn
  PROVE  RegistersCounted'
<1> DEFINE e == infov'[1]
<1>1. /\ sig.cabi /\ phase # "raw" /\ UNCHANGED sig
      /\ infov = <<>> /\ Len(infov) = 0 /\ argCount = 0 /\ availInt \in 0..6 /\ availSSE \in 0..8
      /\ availSSE' = availSSE
  BY EmptySeq DEF AnalyzeReturn, OracleInv, OracleTypeOK, PhaseOK
<1>2. OracleInv' /\ EntryShapes'
  BY ReturnStep, ReturnShapes
<1>3. infov' = <<e>>
  BY DEF AnalyzeReturn
<1>4. e \in InfoType /\ ReturnShape(sig, e) /\ Len(e.abiTypes) \in Nat
  <2>1. infov' \in Seq(InfoType) /\ 1 \in DOMAIN infov' /\ Shapes(sig, infov')
    BY <1>1, <1>2, <1>3 DEF OracleInv, OracleTypeOK, EntryShapes
  <2>2. QED
    BY <2>1, InfoParts DEF Shapes, Shape
<1>5. infov' = Append(infov, e)
  BY <1>1, <1>3
<1> HIDE DEF e
<1>6. CASE e.disp = "indirect"
  <2>1. /\ Disposition(sig.result) = "indirect" /\ e.attr = "sret" /\ e.sigOffset = 0
        /\ e.abiTypes = <<PointerTo(sig.result)>>
    BY <1>1, <1>4, <1>6 DEF ReturnShape
  <2>2. availInt' = Less(availInt) /\ argCount' = 1
    BY <1>1, <2>1 DEF AnalyzeReturn
  <2>3. availInt' = AtLeastZero(availInt - 1) /\ availSSE' = AtLeastZero(availSSE - 0)
    BY <1>1, <2>2 DEF Less, AtLeastZero
  <2>4. Len(e.abiTypes) = 1
    BY <2>1
  <2>5. EntryRegisters(e, "int") = {0} /\ EntryRegisters(e, "sse") = {}
    BY <1>4, <1>6, <2>1, <2>4, SretRegisters
  <2>6. /\ IsFiniteSet({0}) /\ Cardinality({0}) = 1
        /\ IsFiniteSet({}) /\ Cardinality({}) = 0
    BY FS_Singleton, FS_EmptySet
  <2>7. /\ \A flavor \in Flavors : /\ IsFiniteSet(EntryRegisters(e, flavor))
                                   /\ \A s \in EntryRegisters(e, flavor) : s < argCount'
        /\ Cardinality(EntryRegisters(e, "int")) = 1
        /\ Cardinality(EntryRegisters(e, "sse")) = 0
    BY <2>2, <2>5, <2>6 DEF Flavors
  <2>8. 1 \in Nat /\ 0 \in Nat /\ ~(Len(infov) >= 2) /\ argCount' \in Nat /\ argCount' >= argCount
    BY <1>1, <2>2
  <2>9. QED
    BY <1>1, <1>4, <1>5, <2>1, <2>3, <2>7, <2>8, RegistersStep
<1>7. CASE e.disp # "indirect"
  <2>1. Disposition(sig.result) # "indirect" /\ (e.disp = "ignore" \/ e.sigOffset < 0)
    <3>1. Disposition(sig.result) # "indirect"
      BY <1>1, <1>4, <1>7 DEF ReturnShape
    <3>2. e.disp = "direct" => e.sigOffset = -1
      BY <1>4 DEF ReturnShape
    <3>3. e.disp \in {"direct", "ignore", "indirect"}
      BY <1>4 DEF InfoType
    <3>4. QED
      BY <1>7, <3>1, <3>2, <3>3
  <2>2. availInt' = availInt /\ argCount' = argCount
    BY <2>1 DEF AnalyzeReturn
  <2>3. availInt' = AtLeastZero(availInt - 0) /\ availSSE' = AtLeastZero(availSSE - 0)
    BY <1>1, <2>2 DEF AtLeastZero
  <2>4. \A flavor \in Flavors : EntryRegisters(e, flavor) = {}
    BY <1>4, <2>1, NoRegisters
  <2>5. /\ \A flavor \in Flavors : /\ IsFiniteSet(EntryRegisters(e, flavor))
                                   /\ \A s \in EntryRegisters(e, flavor) : s < argCount'
        /\ Cardinality(EntryRegisters(e, "int")) = 0
        /\ Cardinality(EntryRegisters(e, "sse")) = 0
    BY <2>4, FS_EmptySet DEF Flavors
  <2>6. e.sigOffset <= 0
    <3>1. e.disp = "ignore" => infov' = <<IgnoredInfo>>
      BY <1>3, <1>4, <1>1 DEF AnalyzeReturn, ReturnShape
    <3>2. e.disp = "ignore" => e = IgnoredInfo
      BY <1>3, <3>1
    <3>3. IgnoredInfo.sigOffset = -1
      BY DEF IgnoredInfo, Info
    <3>4. e.sigOffset \in Int
      BY <1>4 DEF InfoType
    <3>5. QED
      BY <2>1, <3>2, <3>3, <3>4
  <2>7. /\ 0 \in Nat /\ ~(Len(infov) >= 2) /\ argCount' \in Nat /\ argCount' >= argCount
        /\ ~(e.disp # "ignore" /\ e.sigOffset >= 0) /\ e.sigOffset <= argCount
    <3>1. e.sigOffset \in Int
      BY <1>4 DEF InfoType
    <3>2. QED
      BY <1>1, <2>1, <2>2, <2>6, <3>1
  <2>8. QED
    BY <1>1, <1>4, <1>5, <2>3, <2>5, <2>7, RegistersStep
<1>8. QED
  BY <1>6, <1>7

LEMMA ChainRegisters ==
  ASSUME OracleInv, EntryShapes, RegistersCounted, AnalyzeChain
  PROVE  RegistersCounted'
<1> DEFINE e == Info(<<ChainPointer>>, "direct", "nest", argCount)
<1>1. /\ sig.cabi /\ phase # "raw" /\ UNCHANGED <<sig, availInt, availSSE>>
      /\ infov' = Append(infov, e) /\ Len(infov) = 1
      /\ argCount \in Nat /\ argCount' = argCount + 1
      /\ availInt \in 0..6 /\ availSSE \in 0..8
  BY DEF AnalyzeChain, OracleInv, OracleTypeOK, PhaseOK
<1>2. e.disp = "direct" /\ e.abiTypes = <<ChainPointer>> /\ e.sigOffset = argCount
  BY DEF Info
<1>3. e \in InfoType
  <2>1. ChainPointer \in SlotType /\ argCount \in Int
    BY <1>1, SlotTypes
  <2>2. QED
    BY <2>1, OneSlot
<1> HIDE DEF e
<1>4. \A flavor \in Flavors : EntryRegisters(e, flavor) = {}
  BY <1>2, <1>3, NoRegisters
<1>5. /\ \A flavor \in Flavors : /\ IsFiniteSet(EntryRegisters(e, flavor))
                                 /\ \A s \in EntryRegisters(e, flavor) : s < argCount'
      /\ Cardinality(EntryRegisters(e, "int")) = 0
      /\ Cardinality(EntryRegisters(e, "sse")) = 0
  BY <1>4, FS_EmptySet DEF Flavors
<1>6. availInt' = AtLeastZero(availInt - 0) /\ availSSE' = AtLeastZero(availSSE - 0)
  BY <1>1 DEF AtLeastZero
<1>7. /\ 0 \in Nat /\ ~(Len(infov) >= 2) /\ argCount' \in Nat /\ argCount' >= argCount
      /\ e.sigOffset <= argCount
  BY <1>1, <1>2
<1>8. QED
  BY <1>1, <1>2, <1>3, <1>5, <1>6, <1>7, RegistersStep

\* canPassDirectly compares with the registers that are left.
LEMMA FitsLeft ==
  ASSUME NEW need \in Nat, NEW taken \in Nat, NEW registers \in Nat
  PROVE  need <= AtLeastZero(registers - taken) <=> Fits(need, taken, registers)
BY DEF AtLeastZero, Fits

LEMMA DirectTogether ==
  ASSUME OracleInv, RegistersCounted, sig.cabi, phase # "raw", NEW t \in Type,
         NEW e \in InfoType, e.sigOffset = argCount,
         e.disp = "direct" <=> Disposition(t) = "direct" /\ CanPassDirectly(t)
  PROVE  Together(t, e, infov)
<1> DEFINE a == Taken(infov, "int", argCount)
           b == Taken(infov, "sse", argCount)
           ni == Needed(t, "int")
           nf == Needed(t, "sse")
<1> SUFFICES ASSUME Size[t] \in 1..16, Len(Regions[t]) = 2
             PROVE  e.disp = "direct" <=> Fits(ni, a, 6) /\ Fits(nf, b, 8)
  BY DEF Together
<1>1. ni \in Nat /\ nf \in Nat /\ ni + nf = 2
  <2>1. Regions[t] \in Seq(Flavors) /\ Len(Regions[t]) = 2
    BY TypeAssumption
  <2>2. Regions[t][1] \in Flavors /\ Regions[t][2] \in Flavors
    BY <2>1
  <2>3. QED
    BY <2>1, <2>2 DEF Needed, Flavors
<1>2. a \in Nat /\ b \in Nat
  <2>1. infov \in Seq(InfoType) /\ argCount \in Nat /\ Divided(infov, argCount)
    BY DEF OracleInv, OracleTypeOK, SlotsDivided, Count
  <2>2. \A flavor : IsFiniteSet({r \in RegisterSlots(infov, flavor) : r < argCount})
    <3> SUFFICES ASSUME NEW flavor
                 PROVE  IsFiniteSet({r \in RegisterSlots(infov, flavor) : r < argCount})
      OBVIOUS
    <3>1. IsFiniteSet(RegisterSlots(infov, flavor))
      BY <2>1, RegistersBehind
    <3>2. QED
      BY <3>1, FS_Subset
  <2>3. QED
    BY <2>2, FS_CardinalityType DEF Taken
<1>3. availInt = AtLeastZero(6 - a) /\ availSSE = AtLeastZero(8 - b)
  BY DEF RegistersCounted
<1>4. Disposition(t) = "direct"
  BY DEF Disposition
<1>5. CanPassDirectly(t) <=> ni <= availInt /\ nf <= availSSE
  BY <1>1 DEF CanPassDirectly
<1> HIDE DEF a, b, ni, nf
<1>6. /\ ni <= AtLeastZero(6 - a) <=> Fits(ni, a, 6)
      /\ nf <= AtLeastZero(8 - b) <=> Fits(nf, b, 8)
  BY <1>1, <1>2, FitsLeft
<1>7. QED
  BY <1>3, <1>4, <1>5, <1>6

LEMMA ParamRegisters ==
  ASSUME OracleInv, EntryShapes, RegistersCounted, AnalyzeParam
  PROVE  RegistersCounted'
<1> DEFINE t == sig.params[Len(infov) - 1]
<1>1. /\ sig \in Signature /\ sig.cabi /\ phase # "raw" /\ UNCHANGED sig
      /\ infov \in Seq(InfoType) /\ Len(infov) >= 2 /\ Len(infov) < Len(sig.params) + 2
      /\ argCount \in Nat /\ availInt \in 0..6 /\ availSSE \in 0..8
  BY DEF AnalyzeParam, OracleInv, OracleTypeOK, PhaseOK
<1>2. t \in Type
  <2>1. Len(infov) \in Nat /\ Len(infov) - 1 \in 1..Len(sig.params)
    BY <1>1, LenProperties, SignatureTypes
  <2>2. QED
    BY <1>1, <2>1, SignatureTypes
<1>3. \/ /\ Disposition(t) = "ignore"
         /\ infov' = Append(infov, IgnoredInfo)
         /\ UNCHANGED <<availInt, availSSE, argCount>>
      \/ /\ Disposition(t) # "ignore" /\ ~(Disposition(t) = "direct" /\ CanPassDirectly(t))
         /\ infov' = Append(infov, InMemory(t))
         /\ argCount' = argCount + 1
         /\ UNCHANGED <<availInt, availSSE>>
      \/ /\ Disposition(t) = "direct" /\ CanPassDirectly(t)
         /\ infov' = Append(infov, Info([j \in 1..Len(Regions[t]) |-> Piece(t, j)],
                                        "direct", Extension[t], argCount))
         /\ availInt' = AtLeastZero(availInt - Needed(t, "int"))
         /\ availSSE' = AtLeastZero(availSSE - Needed(t, "sse"))
         /\ argCount' = argCount + SlotsTaken(t)
  BY DEF AnalyzeParam
<1> HIDE DEF t
<1>4. CASE Disposition(t) = "ignore" /\ infov' = Append(infov, IgnoredInfo)
           /\ UNCHANGED <<availInt, availSSE, argCount>>
  <2> DEFINE e == IgnoredInfo
  <2>1. e \in InfoType /\ e.disp = "ignore" /\ e.sigOffset = -1
    <3>1. Whole(Void) \in SlotType
      BY SlotTypes
    <3>2. QED
      BY <3>1, OneSlot DEF IgnoredInfo
  <2>2. infov' = Append(infov, e)
    BY <1>4
  <2> HIDE DEF e
  <2>3. \A flavor \in Flavors : EntryRegisters(e, flavor) = {}
    BY <2>1, NoRegisters
  <2>4. /\ \A flavor \in Flavors : /\ IsFiniteSet(EntryRegisters(e, flavor))
                                   /\ \A s \in EntryRegisters(e, flavor) : s < argCount'
        /\ Cardinality(EntryRegisters(e, "int")) = 0
        /\ Cardinality(EntryRegisters(e, "sse")) = 0
    BY <2>3, FS_EmptySet DEF Flavors
  <2>5. availInt' = AtLeastZero(availInt - 0) /\ availSSE' = AtLeastZero(availSSE - 0)
    BY <1>1, <1>4 DEF AtLeastZero
  <2>6. Together(t, e, infov)
    <3>1. Size[t] = 0
      BY <1>4 DEF Disposition
    <3>2. QED
      BY <3>1 DEF Together
  <2>7. /\ 0 \in Nat /\ argCount' \in Nat /\ argCount' >= argCount
        /\ e.sigOffset <= argCount /\ ~(e.sigOffset >= 0)
    BY <1>1, <1>4, <2>1
  <2>8. QED
    BY <1>1, <2>1, <2>2, <2>4, <2>5, <2>6, <2>7, RegistersStep DEF t
<1>5. CASE /\ Disposition(t) # "ignore" /\ ~(Disposition(t) = "direct" /\ CanPassDirectly(t))
           /\ infov' = Append(infov, InMemory(t))
           /\ argCount' = argCount + 1
           /\ UNCHANGED <<availInt, availSSE>>
  <2> DEFINE e == InMemory(t)
  <2>1. e \in InfoType /\ e.disp = "indirect" /\ e.sigOffset = argCount /\ e.attr = "byval"
    <3>1. PointerTo(t) \in SlotType /\ argCount \in Int
      BY <1>1, <1>2, SlotTypes
    <3>2. e \in InfoType
      BY <3>1, OneSlot DEF InMemory
    <3>3. e.disp = "indirect" /\ e.sigOffset = argCount /\ e.attr = "byval"
      BY DEF InMemory, Info
    <3>4. QED
      BY <3>2, <3>3
  <2>2. infov' = Append(infov, e)
    BY <1>5
  <2> HIDE DEF e
  <2>3. \A flavor \in Flavors : EntryRegisters(e, flavor) = {}
    BY <2>1, NoRegisters
  <2>4. /\ \A flavor \in Flavors : /\ IsFiniteSet(EntryRegisters(e, flavor))
                                   /\ \A s \in EntryRegisters(e, flavor) : s < argCount'
        /\ Cardinality(EntryRegisters(e, "int")) = 0
        /\ Cardinality(EntryRegisters(e, "sse")) = 0
    BY <2>3, FS_EmptySet DEF Flavors
  <2>5. availInt' = AtLeastZero(availInt - 0) /\ availSSE' = AtLeastZero(availSSE - 0)
    BY <1>1, <1>5 DEF AtLeastZero
  <2>6. Together(t, e, infov)
    BY <1>1, <1>2, <1>5, <2>1, DirectTogether
  <2>7. /\ 0 \in Nat /\ argCount' \in Nat /\ argCount' >= argCount
        /\ e.sigOffset <= argCount
    BY <1>1, <1>5, <2>1
  <2>8. QED
    BY <1>1, <2>1, <2>2, <2>4, <2>5, <2>6, <2>7, RegistersStep DEF t
<1>6. CASE /\ Disposition(t) = "direct" /\ CanPassDirectly(t)
           /\ infov' = Append(infov, Info([j \in 1..Len(Regions[t]) |-> Piece(t, j)],
                                          "direct", Extension[t], argCount))
           /\ availInt' = AtLeastZero(availInt - Needed(t, "int"))
           /\ availSSE' = AtLeastZero(availSSE - Needed(t, "sse"))
           /\ argCount' = argCount + SlotsTaken(t)
  <2> DEFINE pieces == [j \in 1..Len(Regions[t]) |-> Piece(t, j)]
             e == Info(pieces, "direct", Extension[t], argCount)
  <2>1. /\ e \in InfoType /\ e.disp = "direct" /\ e.sigOffset = argCount
        /\ e.abiTypes = pieces
    <3>1. pieces \in Seq(SlotType)
      BY <1>2, <1>6, PieceSlots
    <3>2. Extension[t] \in {"none", "zext", "sext"} /\ argCount \in Int
      BY <1>1, <1>2, SlotTypes
    <3> HIDE DEF pieces
    <3>3. QED
      BY <3>1, <3>2, InfoFacts, SMTT(30)
  <2>2. infov' = Append(infov, e)
    BY <1>6
  <2> HIDE DEF e
  <2>3. \A flavor \in Flavors :
          /\ IsFiniteSet(EntryRegisters(e, flavor))
          /\ Cardinality(EntryRegisters(e, flavor)) = Needed(t, flavor)
          /\ \A s \in EntryRegisters(e, flavor) : s < argCount + Len(Regions[t])
    BY <1>1, <1>2, <1>6, <2>1, DirectRegisters
  <2>4. Together(t, e, infov)
    BY <1>1, <1>2, <1>6, <2>1, DirectTogether
  <2>5. argCount' = argCount + Len(Regions[t]) /\ Len(Regions[t]) \in 1..2
    BY <1>2, <1>6, PieceSlots DEF SlotsTaken
  <2>6. argCount' \in Nat /\ argCount' >= argCount /\ e.sigOffset <= argCount
    <3> DEFINE n == Len(Regions[t])
    <3> HIDE DEF n
    <3>1. argCount' = argCount + n /\ n \in 1..2
      BY <2>5 DEF n
    <3>2. QED
      BY <1>1, <2>1, <3>1
  <2>7. \A flavor \in Flavors : /\ IsFiniteSet(EntryRegisters(e, flavor))
                                /\ \A s \in EntryRegisters(e, flavor) : s < argCount'
    BY <2>3, <2>5
  <2> DEFINE ni == Needed(t, "int")
             nf == Needed(t, "sse")
  <2>8. /\ Cardinality(EntryRegisters(e, "int")) = ni
        /\ Cardinality(EntryRegisters(e, "sse")) = nf
        /\ availInt' = AtLeastZero(availInt - ni) /\ availSSE' = AtLeastZero(availSSE - nf)
        /\ ni \in Nat /\ nf \in Nat
    <3>1. ni \in Nat /\ nf \in Nat
      BY DEF Needed
    <3>2. QED
      BY <1>6, <2>3, <3>1 DEF Flavors
  <2> HIDE DEF ni, nf
  <2>9. QED
    BY <1>1, <2>1, <2>2, <2>4, <2>6, <2>7, <2>8, RegistersStep DEF t
<1>7. QED
  BY <1>3, <1>4, <1>5, <1>6

LEMMA RegistersInit == OracleInit => RegistersCounted
<1> SUFFICES ASSUME OracleInit PROVE RegistersCounted
  OBVIOUS
<1>1. DOMAIN infov = {} /\ availInt = 6 /\ availSSE = 8
  BY EmptySeq DEF OracleInit
<1>2. \A flavor, s : {r \in RegisterSlots(infov, flavor) : r < s} = {}
  BY <1>1 DEF RegisterSlots
<1>3. \A flavor, s : Taken(infov, flavor, s) = 0
  BY <1>2, FS_EmptySet DEF Taken
<1>4. QED
  BY <1>1, <1>3 DEF RegistersCounted, AtLeastZero

LEMMA RegistersNext ==
  OracleInv /\ EntryShapes /\ RegistersCounted /\ [OracleNext]_oracleVars => RegistersCounted'
<1> SUFFICES ASSUME OracleInv, EntryShapes, RegistersCounted, [OracleNext]_oracleVars
             PROVE  RegistersCounted'
  OBVIOUS
<1>1. CASE BuildReturn \/ BuildParam \/ BuildType
  BY <1>1 DEF BuildReturn, BuildParam, BuildType, RegistersCounted
<1>2. CASE AnalyzeRaw
  BY <1>2 DEF AnalyzeRaw, OracleInv, PhaseOK, RegistersCounted
<1>3. CASE UNCHANGED oracleVars
  BY <1>3 DEF oracleVars, RegistersCounted
<1>4. QED
  BY <1>1, <1>2, <1>3, ReturnRegisters, ChainRegisters, ParamRegisters DEF OracleNext

\* A slot of an entry, in terms of where the entry starts and ends.
LEMMA SlotRangeIs ==
  ASSUME NEW i \in DOMAIN infov, infov \in Seq(InfoType)
  PROVE  \A s : s \in SlotRange(i) <=>
                  /\ HasSlots(infov, i) /\ s \in Nat
                  /\ infov[i].sigOffset <= s /\ s < End(infov, i)
<1>1. infov[i].sigOffset \in Int /\ Len(infov[i].abiTypes) \in Nat
  BY InfoParts
<1>2. CASE HasSlots(infov, i)
  <2>1. SlotRange(i) = infov[i].sigOffset..(End(infov, i) - 1) /\ infov[i].sigOffset >= 0
    BY <1>1, <1>2 DEF SlotRange, HasSlots, End
  <2>2. QED
    BY <1>1, <1>2, <2>1 DEF End
<1>3. CASE ~HasSlots(infov, i)
  BY <1>1, <1>3 DEF SlotRange, HasSlots
<1>4. QED
  BY <1>2, <1>3

LEMMA FilledMatches == OracleInv => SlotsMatchOffsets
<1> SUFFICES ASSUME OracleInv, Analyzed PROVE SlotsMatchOffsets
  BY DEF SlotsMatchOffsets
<1> DEFINE n == Len(infov)
           c == Len(elems)
<1>1. /\ infov \in Seq(InfoType) /\ DOMAIN infov = 1..n /\ n \in Nat
      /\ Count \in Nat /\ Divided(infov, Count)
      /\ c \in Nat /\ c <= Count /\ Cursor(infov, n, c) /\ Filled(infov, n, elems)
  BY SignatureTypes, LenProperties
     DEF Analyzed, OracleInv, OracleTypeOK, PhaseOK, SlotsDivided, Count, SignatureFilled
<1> HIDE DEF n, c
<1>3. \A i \in DOMAIN infov : /\ i <= n /\ i \in Nat
                              /\ infov[i].sigOffset \in Int /\ End(infov, i) \in Int
                              /\ Len(infov[i].abiTypes) \in Nat
  BY <1>1, InfoParts DEF End
<1>4. ASSUME NEW i \in DOMAIN infov, NEW j \in DOMAIN infov, i # j
      PROVE  SlotRange(i) \cap SlotRange(j) = {}
  <2> SUFFICES ASSUME NEW s \in SlotRange(i), s \in SlotRange(j) PROVE FALSE
    OBVIOUS
  <2>1. /\ HasSlots(infov, i) /\ infov[i].sigOffset <= s /\ s < End(infov, i)
        /\ HasSlots(infov, j) /\ infov[j].sigOffset <= s /\ s < End(infov, j)
        /\ s \in Nat
    BY <1>1, SlotRangeIs
  <2>2. CASE i < j
    BY <1>1, <1>3, <2>1, <2>2, SMTT(30) DEF Divided
  <2>3. CASE j < i
    BY <1>1, <1>3, <2>1, <2>3 DEF Divided
  <2>4. QED
    BY <1>3, <1>4, <2>2, <2>3
<1>5. UNION {SlotRange(i) : i \in DOMAIN infov} = 0..(c - 1)
  <2>1. ASSUME NEW i \in DOMAIN infov, NEW s \in SlotRange(i) PROVE s \in 0..(c - 1)
    <3>1. HasSlots(infov, i) /\ s \in Nat /\ s < End(infov, i)
      BY <1>1, <2>1, SlotRangeIs
    <3>2. End(infov, i) <= c
      BY <1>1, <1>3, <3>1 DEF Cursor
    <3>3. QED
      BY <1>1, <1>3, <3>1, <3>2
  <2>2. ASSUME NEW s \in 0..(c - 1) PROVE \E i \in DOMAIN infov : s \in SlotRange(i)
    <3>2. s \in Nat /\ s < Count
      BY <1>1
    <3>3. PICK i \in DOMAIN infov :
            HasSlots(infov, i) /\ infov[i].sigOffset <= s /\ s < End(infov, i)
      BY <1>1, <3>2 DEF Divided
    <3>4. s \in SlotRange(i)
      BY <1>1, <3>2, <3>3, SlotRangeIs
    <3>5. QED
      BY <3>4
  <2>3. QED
    BY <2>1, <2>2
<1>6. ASSUME NEW i \in DOMAIN infov, NEW s \in SlotRange(i)
      PROVE  elems[s + 1] = infov[i].abiTypes[s - infov[i].sigOffset + 1]
  <2> DEFINE o == infov[i].sigOffset
             m == Len(infov[i].abiTypes)
             j == s - o + 1
  <2>1. HasSlots(infov, i) /\ s \in Nat /\ o <= s /\ s < o + m /\ o \in Int /\ m \in Nat
    BY <1>1, <1>3, <1>6, SlotRangeIs DEF End
  <2> HIDE DEF m
  <2>2. j \in 1..m /\ o + j = s + 1
    BY <2>1
  <2> HIDE DEF j
  <2>3. elems[o + j] = infov[i].abiTypes[j]
    BY <1>1, <1>3, <2>1, <2>2 DEF Filled, m
  <2>4. QED
    BY <2>2, <2>3 DEF j
<1>7. QED
  BY <1>4, <1>5, <1>6 DEF SlotsMatchOffsets, c

\* The slots LLVM passes in registers are those the oracle has counted.
LEMMA InRegisters ==
  ASSUME OracleInv, EntryShapes, Analyzed, sig.cabi, NEW r \in 0..(Len(elems) - 1)
  PROVE  /\ InIntRegister(r) <=> r \in RegisterSlots(infov, "int")
         /\ InSSERegister(r) <=> r \in RegisterSlots(infov, "sse")
<1>1. infov \in Seq(InfoType) /\ DOMAIN infov = 1..Len(infov) /\ Len(infov) \in Nat
  BY LenProperties DEF OracleInv, OracleTypeOK
<1>2. SlotsMatchOffsets
  BY FilledMatches
<1>3. PICK i \in DOMAIN infov : r \in SlotRange(i)
  <2>1. r \in UNION {SlotRange(i) : i \in DOMAIN infov}
    BY <1>2 DEF SlotsMatchOffsets
  <2>2. QED
    BY <2>1
<1> DEFINE info == infov[i]
           j == r - info.sigOffset + 1
           e == info.abiTypes[j]
<1>4. elems[r + 1] = e
  BY <1>2, <1>3 DEF SlotsMatchOffsets
<1>5. \A k \in DOMAIN infov : r \in SlotRange(k) => k = i
  BY <1>2, <1>3 DEF SlotsMatchOffsets
<1>6. \A k \in DOMAIN infov, flavor \in Flavors : r \in EntryRegisters(infov[k], flavor) =>
        r \in SlotRange(k)
  BY <1>1, SlotRangeIs DEF EntryRegisters, HasSlots, End
<1>7. /\ HasSlots(infov, i) /\ r \in Nat /\ info.sigOffset <= r /\ r < End(infov, i)
      /\ info \in InfoType /\ Len(info.abiTypes) \in Nat /\ info.sigOffset \in Int
      /\ info.disp \in {"direct", "ignore", "indirect"}
  BY <1>1, <1>3, SlotRangeIs, InfoParts
<1>8. j \in 1..Len(info.abiTypes)
  <2> DEFINE m == Len(info.abiTypes)
             o == info.sigOffset
  <2>1. m \in Nat /\ o \in Int /\ r \in Nat /\ o <= r /\ r < o + m
    BY <1>7 DEF End
  <2> HIDE DEF m, o
  <2>2. r - o + 1 \in 1..m
    BY <2>1
  <2>3. QED
    BY <2>2 DEF m, o
<1>9. \A flavor \in Flavors : r \in RegisterSlots(infov, flavor) <=> Register(info, j) = flavor
  <2> SUFFICES ASSUME NEW flavor \in Flavors
               PROVE  r \in RegisterSlots(infov, flavor) <=> Register(info, j) = flavor
    OBVIOUS
  <2>1. r \in EntryRegisters(info, flavor) <=> Register(info, j) = flavor
    BY <1>7 DEF EntryRegisters, HasSlots, End
  <2>2. r \in RegisterSlots(infov, flavor) <=> r \in EntryRegisters(info, flavor)
    BY <1>5, <1>6, <1>7 DEF RegisterSlots
  <2>3. QED
    BY <2>1, <2>2
<1>10. r \in ByValSlots <=> info.attr = "byval"
  BY <1>3, <1>5 DEF ByValSlots
<1>11. /\ InIntRegister(r) <=> \/ e.k = "pointer" /\ info.attr # "byval"
                               \/ e.k = "piece" /\ Regions[e.t][e.j] = "int"
       /\ InSSERegister(r) <=> e.k = "piece" /\ Regions[e.t][e.j] = "sse"
  BY <1>4, <1>10 DEF InIntRegister, InSSERegister
<1>12. Shape(sig, infov, i) /\ EntryOK(info, i)
  BY DEF EntryShapes, Shapes, OracleInv, SlotsDivided, EntriesOK
<1> HIDE DEF j
<1>13. /\ InIntRegister(r) <=> Register(info, j) = "int"
       /\ InSSERegister(r) <=> Register(info, j) = "sse"
  <2>1. CASE info.disp = "indirect"
    <3>1. \E t : info.abiTypes = <<PointerTo(t)>>
      <4>1. i = 1 => info.abiTypes = <<PointerTo(sig.result)>>
        BY <1>12, <2>1 DEF Shape, ReturnShape
      <4>2. i # 2
        BY <1>12, <2>1 DEF Shape, ChainShape
      <4>3. i >= 3 => info.abiTypes = <<PointerTo(sig.params[i - 2])>>
        BY <1>12, <2>1 DEF Shape, ParamShape
      <4>4. QED
        BY <1>1, <4>1, <4>2, <4>3
    <3>2. j = 1
      BY <1>8, <3>1
    <3>3. e.k = "pointer"
      BY <3>1, <3>2 DEF PointerTo, Slot
    <3>4. info.attr = "sret" \/ info.attr = "byval"
      <4>1. i = 1 => info.attr = "sret"
        BY <1>12, <2>1 DEF Shape, ReturnShape
      <4>2. i # 2
        BY <1>12, <2>1 DEF Shape, ChainShape
      <4>3. i >= 3 => info.attr = "byval"
        BY <1>12, <2>1 DEF Shape, ParamShape
      <4>4. QED
        BY <1>1, <4>1, <4>2, <4>3
    <3>5. QED
      BY <1>11, <2>1, <3>3, <3>4 DEF Register
  <2>2. CASE info.disp = "direct" /\ i = 2
    <3>1. info.abiTypes = <<ChainPointer>>
      BY <1>12, <2>2 DEF Shape, ChainShape
    <3>2. j = 1
      BY <1>8, <3>1
    <3>3. e.k = "chain"
      BY <3>1, <3>2 DEF ChainPointer, Slot
    <3>4. QED
      BY <1>11, <2>2, <3>3 DEF Register
  <2>3. CASE info.disp = "direct" /\ i >= 3
    <3> DEFINE t == sig.params[i - 2]
    <3>1. info.abiTypes = [x \in 1..Len(Regions[t]) |-> Piece(t, x)]
      BY <1>12, <2>3 DEF Shape, ParamShape
    <3>2. e = Piece(t, j)
      <4>1. DOMAIN info.abiTypes = 1..Len(info.abiTypes)
        BY <1>7, LenProperties DEF InfoType
      <4>2. QED
        BY <1>8, <3>1, <4>1
    <3>3. e.k = "piece"
      BY <3>2 DEF Piece, Slot
    <3>4. QED
      BY <1>11, <2>3, <3>3 DEF Register
  <2>4. ~(info.disp = "direct" /\ i = 1)
    BY <1>7, <1>12 DEF EntryOK, HasSlots
  <2>5. i = 1 \/ i = 2 \/ i >= 3
    BY <1>1
  <2>6. QED
    BY <1>7, <2>1, <2>2, <2>3, <2>4, <2>5 DEF HasSlots
<1>14. QED
  BY <1>9, <1>13 DEF Flavors

LEMMA CountedTogether ==
  OracleInv /\ EntryShapes /\ RegistersCounted => PiecesStayTogether
<1> SUFFICES ASSUME OracleInv, EntryShapes, RegistersCounted, Analyzed, sig.cabi,
                    NEW p \in Params,
                    Size[sig.params[p]] \in 1..16, Len(Regions[sig.params[p]]) = 2
             PROVE  LET t == sig.params[p]
                        s == ParamInfo(p).sigOffset
                    IN  ParamInfo(p).disp = "direct" <=>
                          /\ Fits(Needed(t, "int"), TakenBefore(InIntRegister, s), 6)
                          /\ Fits(Needed(t, "sse"), TakenBefore(InSSERegister, s), 8)
  BY DEF PiecesStayTogether
<1> DEFINE t == sig.params[p]
           i == p + 2
           s == infov[i].sigOffset
<1>1. /\ infov \in Seq(InfoType) /\ DOMAIN infov = 1..Len(infov)
      /\ Len(infov) = Len(sig.params) + 2 /\ Len(sig.params) \in Nat
  BY LenProperties, SignatureTypes DEF OracleInv, OracleTypeOK, PhaseOK, Analyzed
<1>2. i \in DOMAIN infov /\ i >= 3 /\ i - 2 = p
  BY <1>1 DEF Params
<1> HIDE DEF i
<1>3. Together(t, infov[i], infov)
  BY <1>2 DEF RegistersCounted
<1>4. HasSlots(infov, i)
  <2>1. Disposition(t) # "ignore"
    BY DEF Disposition
  <2>2. ParamShape(sig, t, infov[i]) /\ EntryOK(infov[i], i)
    BY <1>2 DEF EntryShapes, Shapes, Shape, OracleInv, SlotsDivided, EntriesOK
  <2>3. QED
    BY <1>2, <2>1, <2>2 DEF ParamShape, EntryOK, HasSlots
<1>5. s \in Nat /\ s <= Len(elems)
  <2>1. s \in Int /\ s >= 0 /\ Len(infov[i].abiTypes) \in Nat /\ End(infov, i) > s
    BY <1>1, <1>2, <1>4, InfoParts DEF HasSlots, End, OracleInv, SlotsDivided, EntriesOK, EntryOK
  <2>2. s \in SlotRange(i)
    BY <1>1, <1>2, <1>4, <2>1, SlotRangeIs
  <2>3. s \in 0..(Len(elems) - 1)
    BY <1>2, <2>2, FilledMatches DEF SlotsMatchOffsets
  <2>4. Len(elems) \in Nat
    BY LenProperties DEF OracleInv, OracleTypeOK
  <2>5. QED
    BY <2>3, <2>4
<1>6. Len(elems) \in Nat
  BY LenProperties DEF OracleInv, OracleTypeOK
<1> HIDE DEF s
<1>7. \A r \in 0..(s - 1) : /\ InIntRegister(r) <=> r \in RegisterSlots(infov, "int")
                            /\ InSSERegister(r) <=> r \in RegisterSlots(infov, "sse")
  <2> SUFFICES ASSUME NEW r \in 0..(s - 1)
               PROVE  /\ InIntRegister(r) <=> r \in RegisterSlots(infov, "int")
                      /\ InSSERegister(r) <=> r \in RegisterSlots(infov, "sse")
    OBVIOUS
  <2>1. r \in 0..(Len(elems) - 1)
    BY <1>5, <1>6
  <2>2. QED
    BY <2>1, InRegisters
<1>8. \A flavor, r : r \in RegisterSlots(infov, flavor) => r \in Nat
  BY DEF RegisterSlots
<1>9. {r \in 0..(s - 1) : InIntRegister(r)} = {r \in RegisterSlots(infov, "int") : r < s}
  BY <1>5, <1>7, <1>8
<1>10. {r \in 0..(s - 1) : InSSERegister(r)} = {r \in RegisterSlots(infov, "sse") : r < s}
  BY <1>5, <1>7, <1>8
<1>11. /\ TakenBefore(InIntRegister, s) = Taken(infov, "int", s)
       /\ TakenBefore(InSSERegister, s) = Taken(infov, "sse", s)
  BY <1>9, <1>10 DEF TakenBefore, Taken
<1>12. ParamInfo(p) = infov[i]
  BY DEF ParamInfo, i
<1>13. QED
  BY <1>3, <1>11, <1>12 DEF Together, s

-----------------------------------------------------------------------------
(* Walking the entries.                                                     *)

\* The types of the slots of the first i entries, in order.
Walked(i, types) ==
  /\ types \in Seq(SlotType)
  /\ Len(types) <= Count
  /\ Cursor(infov, i, Len(types))
  /\ Filled(infov, i, types)

LEMMA OracleFacts ==
  ASSUME OracleInv, Analyzed
  PROVE  /\ infov \in Seq(InfoType) /\ EntriesOK(infov)
         /\ DOMAIN infov = 1..Len(infov) /\ Len(infov) \in Nat
         /\ Len(sig.params) \in Nat /\ Len(infov) = Len(sig.params) + 2
         /\ Count \in Nat /\ Divided(infov, Count)
         /\ Walked(Len(infov), elems)
<1>1. sig \in Signature /\ infov \in Seq(InfoType) /\ argCount \in Nat
  BY DEF OracleInv, OracleTypeOK
<1>2. Len(sig.params) \in Nat
  BY <1>1, SignatureTypes
<1>3. QED
  BY <1>1, <1>2, LenProperties
     DEF Analyzed, OracleInv, OracleTypeOK, PhaseOK, SlotsDivided, SignatureFilled,
         Count, Walked

LEMMA NothingWalked ==
  ASSUME OracleInv, Analyzed
  PROVE  Walked(0, <<>>)
<1>1. \A k \in DOMAIN infov : ~(k <= 0)
  <2>1. DOMAIN infov = 1..Len(infov) /\ Len(infov) \in Nat
    BY OracleFacts
  <2>2. QED
    BY <2>1
<1>2. \A k \in DOMAIN infov : HasSlots(infov, k) => infov[k].sigOffset >= 0
  BY DEF HasSlots
<1>3. <<>> \in Seq(SlotType) /\ Len(<<>>) = 0 /\ Count \in Nat
  BY OracleFacts, EmptySeq
<1>4. Len(<<>>) <= Count
  BY <1>3
<1>5. QED
  BY <1>1, <1>2, <1>3, <1>4 DEF Walked, Cursor, Filled

\* Whoever adds the slots of the next entry has walked one entry more.
LEMMA WalkStep ==
  ASSUME OracleInv, Analyzed, NEW i \in DOMAIN infov,
         NEW types, Walked(i - 1, types),
         NEW more, more = IF HasSlots(infov, i) THEN infov[i].abiTypes ELSE <<>>
  PROVE  Walked(i, types \o more)
<1>1. /\ infov \in Seq(InfoType) /\ EntriesOK(infov)
      /\ Count \in Nat /\ Divided(infov, Count)
  BY OracleFacts
<1>2. /\ types \in Seq(SlotType) /\ Len(types) <= Count
      /\ Cursor(infov, i - 1, Len(types)) /\ Filled(infov, i - 1, types)
  BY DEF Walked
<1>3. CASE HasSlots(infov, i)
  BY <1>1, <1>2, <1>3, AppendSlots DEF Walked
<1>4. CASE ~HasSlots(infov, i)
  <2>1. types \o more = types
    BY <1>2, <1>4, ConcatEmptySeq
  <2>2. Cursor(infov, i, Len(types)) /\ Filled(infov, i, types)
    BY <1>1, <1>2, <1>4, SkipSlots
  <2>3. QED
    BY <1>2, <2>1, <2>2 DEF Walked
<1>5. QED
  BY <1>3, <1>4

\* Two walks over all entries find the same slots.
LEMMA WalksAgree ==
  ASSUME OracleInv, Analyzed, NEW types, Walked(Len(infov), types)
  PROVE  Len(types) = Len(elems) /\ \A i \in 1..Len(elems) : types[i] = elems[i]
<1> DEFINE n == Len(infov)
<1>1. /\ infov \in Seq(InfoType) /\ DOMAIN infov = 1..n /\ n \in Nat
      /\ Count \in Nat /\ Divided(infov, Count)
  BY OracleFacts
<1>2. /\ Walked(n, types) /\ Walked(n, elems)
  BY OracleFacts
<1> HIDE DEF n
<1>3. \A k \in DOMAIN infov : /\ k <= n /\ k \in Nat
                              /\ infov[k].sigOffset \in Int /\ End(infov, k) \in Int
                              /\ Len(infov[k].abiTypes) \in Nat
  BY <1>1, InfoParts DEF End
<1>4. ASSUME NEW some, Walked(n, some) PROVE Len(some) = Count
  <2>1. Len(some) \in Nat /\ Len(some) <= Count /\ Cursor(infov, n, Len(some))
    BY <1>4, LenProperties DEF Walked
  <2>2. ASSUME Len(some) < Count PROVE FALSE
    <3>1. PICK k \in DOMAIN infov : HasSlots(infov, k) /\ Len(some) < End(infov, k)
      BY <1>1, <2>1, <2>2 DEF Divided
    <3>2. End(infov, k) <= Len(some)
      BY <1>3, <2>1, <3>1 DEF Cursor
    <3>3. QED
      BY <1>3, <2>1, <3>1, <3>2
  <2>3. QED
    BY <1>1, <2>1, <2>2
<1>5. Len(types) = Count /\ Len(elems) = Count
  BY <1>2, <1>4
<1>6. ASSUME NEW i \in 1..Count PROVE types[i] = elems[i]
  <2>1. i - 1 \in Nat /\ i - 1 < Count
    BY <1>1
  <2>2. PICK k \in DOMAIN infov :
          /\ HasSlots(infov, k)
          /\ infov[k].sigOffset <= i - 1 /\ i - 1 < End(infov, k)
    BY <1>1, <2>1 DEF Divided
  <2> DEFINE o == infov[k].sigOffset
             m == Len(infov[k].abiTypes)
             j == i - o
  <2>3. o \in Int /\ m \in Nat /\ o <= i - 1 /\ i - 1 < o + m
    BY <1>3, <2>2 DEF End
  <2> HIDE DEF m
  <2>4. j \in 1..m /\ o + j = i
    BY <1>1, <2>3
  <2> HIDE DEF j
  <2>5. types[o + j] = infov[k].abiTypes[j] /\ elems[o + j] = infov[k].abiTypes[j]
    BY <1>2, <1>3, <2>2, <2>4 DEF Walked, Filled, m
  <2>6. QED
    BY <2>4, <2>5
<1>7. QED
  BY <1>5, <1>6

\* An entry that has slots is not ignored, and the other way round, except for a
\* result that is no argument.
LEMMA HasSlotsIs ==
  ASSUME OracleInv, NEW i \in DOMAIN infov
  PROVE  /\ i = 1 => (HasSlots(infov, i) <=> infov[i].disp = "indirect")
         /\ i # 1 => (HasSlots(infov, i) <=> infov[i].disp # "ignore")
BY DEF OracleInv, SlotsDivided, EntriesOK, EntryOK, HasSlots


\* A slot of the signature, counted from 1, is piece j of one entry k.
LEMMA SlotOwner ==
  ASSUME OracleInv, Analyzed, NEW s \in 1..Len(elems)
  PROVE  \E k \in DOMAIN infov : \E j \in 1..Len(infov[k].abiTypes) :
           HasSlots(infov, k) /\ s = infov[k].sigOffset + j
<1>1. /\ infov \in Seq(InfoType) /\ Divided(infov, Count) /\ Count \in Nat
      /\ Len(elems) \in Nat /\ Len(elems) <= Count
  BY OracleFacts, LenProperties DEF Walked
<1>2. s - 1 \in Nat /\ s - 1 < Count
  BY <1>1
<1>3. PICK k \in DOMAIN infov :
        /\ HasSlots(infov, k)
        /\ infov[k].sigOffset <= s - 1 /\ s - 1 < End(infov, k)
  BY <1>1, <1>2 DEF Divided
<1> DEFINE o == infov[k].sigOffset
           m == Len(infov[k].abiTypes)
           j == s - o
<1>4. o \in Int /\ m \in Nat /\ s - 1 < o + m
  BY <1>1, <1>3, InfoParts DEF End
<1>5. o <= s - 1
  BY <1>3
<1> HIDE DEF m, o
<1>6. j \in 1..m /\ s = o + j
  BY <1>2, <1>4, <1>5
<1> HIDE DEF j
<1>7. QED
  BY <1>3, <1>6 DEF m, o

LEMMA SlotUnique ==
  ASSUME OracleInv, Analyzed, NEW k \in DOMAIN infov, NEW l \in DOMAIN infov,
         HasSlots(infov, k), HasSlots(infov, l),
         NEW i \in 1..Len(infov[k].abiTypes), NEW j \in 1..Len(infov[l].abiTypes),
         infov[k].sigOffset + i = infov[l].sigOffset + j
  PROVE  k = l /\ i = j
<1>1. /\ infov \in Seq(InfoType) /\ DOMAIN infov = 1..Len(infov) /\ Len(infov) \in Nat
      /\ Divided(infov, Count)
  BY OracleFacts
<1> DEFINE ok == infov[k].sigOffset
           ol == infov[l].sigOffset
           mk == Len(infov[k].abiTypes)
           ml == Len(infov[l].abiTypes)
<1>2. /\ ok \in Int /\ ol \in Int /\ mk \in Nat /\ ml \in Nat
      /\ End(infov, k) = ok + mk /\ End(infov, l) = ol + ml
      /\ i \in 1..mk /\ j \in 1..ml /\ ok + i = ol + j
  BY <1>1, InfoParts DEF End
<1>3. /\ k < l => End(infov, k) <= ol
      /\ l < k => End(infov, l) <= ok
  BY <1>1 DEF Divided
<1>4. k = l => ok = ol
  OBVIOUS
<1> HIDE DEF ok, ol, mk, ml
<1>5. ~(k < l) /\ ~(l < k)
  BY <1>2, <1>3
<1>6. k = l
  BY <1>1, <1>5
<1>7. QED
  BY <1>2, <1>4, <1>6

LEMMA SlotPlace ==
  ASSUME OracleInv, Analyzed, NEW k \in DOMAIN infov, HasSlots(infov, k),
         NEW j \in 1..Len(infov[k].abiTypes)
  PROVE  /\ infov[k].sigOffset \in Nat
         /\ infov[k].sigOffset + j \in 1..Len(elems)
         /\ elems[infov[k].sigOffset + j] = infov[k].abiTypes[j]
<1>1. /\ infov \in Seq(InfoType) /\ DOMAIN infov = 1..Len(infov) /\ Len(infov) \in Nat
      /\ Walked(Len(infov), elems) /\ Len(elems) \in Nat
  BY OracleFacts, LenProperties DEF Walked
<1>2. k <= Len(infov)
  BY <1>1
<1>3. End(infov, k) <= Len(elems) /\ elems[infov[k].sigOffset + j] = infov[k].abiTypes[j]
  BY <1>1, <1>2 DEF Walked, Cursor, Filled
<1> DEFINE o == infov[k].sigOffset
           m == Len(infov[k].abiTypes)
<1>4. o \in Int /\ m \in Nat /\ o >= 0 /\ o + m <= Len(elems) /\ j \in 1..m
  BY <1>1, <1>3, InfoParts DEF End, HasSlots
<1> HIDE DEF o, m
<1>5. o \in Nat /\ o + j \in 1..Len(elems)
  BY <1>1, <1>4
<1>6. QED
  BY <1>3, <1>5 DEF o

\* The oracle's state keeps its types, for every function type.
THEOREM OracleTypesCorrect == OracleSpec => []OracleTypeOK
<1>1. OracleInv => OracleTypeOK
  BY DEF OracleInv
<1>2. QED
  BY <1>1, OracleInitInv, OracleNextInv, PTL DEF OracleSpec

\* The offsets analyzeABIReturn, analyze and analyzeABIParam hand out are those of the
\* LLVM function type that analyze builds afterwards, and so are those of analyzeRaw.
THEOREM OffsetsMatchSignature == OracleSpec => []SlotsMatchOffsets
BY FilledMatches, OracleInitInv, OracleNextInv, PTL DEF OracleSpec

\* An object of two eightbytes goes in two pieces exactly if LLVM has a register for
\* each: canPassDirectly's registers are those LLVM hands out in the order of the
\* signature that analyze builds, whatever types and how many parameters there are.
THEOREM PiecesTogether == OracleSpec => []PiecesStayTogether
<1> DEFINE Inv == OracleInv /\ EntryShapes /\ RegistersCounted
<1>1. OracleInit => Inv
  BY OracleInitInv, EntryShapesInit, RegistersInit
<1>2. Inv /\ [OracleNext]_oracleVars => Inv'
  BY OracleNextInv, EntryShapesNext, RegistersNext
<1>3. Inv => PiecesStayTogether
  BY CountedTogether
<1>4. QED
  BY <1>1, <1>2, <1>3, PTL DEF OracleSpec
=============================================================================

------------------------------ MODULE CallsProofs ------------------------------
(***************************************************************************)
(* A call site passes what the LLVM function type asks for, for every set   *)
(* of types and every function type: the caller walks the entries of infov_ *)
(* in order, as analyze does when it builds the type, so its arguments are  *)
(* at the offsets of the entries too.  They come from where the callee      *)
(* expects them, have the attributes it gives its arguments, and the result *)
(* is where it leaves it.                                                   *)
(***************************************************************************)
EXTENDS Calls, FunctionProofs

OwnerType == [what : {"sret", "chain", "param"}, p : Nat, j : Nat]
ActualType == [from : OwnerType, slot : SlotType]

\* The types of the values of a call.
SlotsOfCall(args) == [i \in 1..Len(args) |-> args[i].slot]

\* The values of the first n entries come from where the callee expects them.
Brought(v, n, args) ==
  \A k \in DOMAIN v : k <= n /\ HasSlots(v, k) =>
    \A j \in 1..Len(v[k].abiTypes) : args[v[k].sigOffset + j].from = OwnerOf(k, j)

\* As far as the caller has come, its values are those of the signature.
Marshalling ==
  /\ callStage \in {"none", "args", "call", "epilog", "done"}
  /\ callStage = "none" => operands = <<>>
  /\ callStage # "none" =>
       /\ Analyzed
       /\ operands \in Seq(Nat) /\ Len(operands) <= Len(sig.params)
       /\ \A p \in 1..Len(operands) : operands[p] = p
       /\ llargs \in Seq(ActualType)
       /\ Walked(Len(operands) + 2, SlotsOfCall(llargs))
       /\ Brought(infov, Len(operands) + 2, llargs)
       /\ sretTemp = NeedSretTemp
  /\ Marshalled => Len(operands) = Len(sig.params)
  /\ callStage \in {"epilog", "done"} => callAttr = [i \in 1..Len(llargs) |-> AttrAt(i)]
  /\ callStage = "done" => result = IF sretTemp THEN "memory" ELSE "value"

CallInv == CalleeInv /\ RegistersCounted /\ Marshalling

-----------------------------------------------------------------------------
(* The call.                                                                *)

LEMMA SlotsOfConcat ==
  ASSUME NEW a \in Seq(ActualType), NEW b \in Seq(ActualType)
  PROVE  /\ a \o b \in Seq(ActualType)
         /\ SlotsOfCall(a \o b) = SlotsOfCall(a) \o SlotsOfCall(b)
<1>1. /\ a \o b \in Seq(ActualType) /\ Len(a \o b) = Len(a) + Len(b)
      /\ \A i \in 1..Len(a) + Len(b) :
           (a \o b)[i] = IF i <= Len(a) THEN a[i] ELSE b[i - Len(a)]
      /\ Len(a) \in Nat /\ Len(b) \in Nat
  BY ConcatProperties, LenProperties
<1>2. ASSUME NEW s \in Seq(ActualType)
      PROVE  /\ SlotsOfCall(s) \in Seq(SlotType) /\ Len(SlotsOfCall(s)) = Len(s)
             /\ \A i \in 1..Len(s) : SlotsOfCall(s)[i] = s[i].slot
  <2>1. ASSUME NEW i \in 1..Len(s) PROVE s[i].slot \in SlotType
    <3>1. s[i] \in ActualType
      BY ElementOfSeq
    <3>2. QED
      BY <3>1 DEF ActualType
  <2>2. QED
    BY <2>1, LenProperties DEF SlotsOfCall
<1> DEFINE left == SlotsOfCall(a \o b)
           ra == SlotsOfCall(a)
           rb == SlotsOfCall(b)
<1>3. /\ ra \in Seq(SlotType) /\ rb \in Seq(SlotType) /\ left \in Seq(SlotType)
      /\ Len(ra) = Len(a) /\ Len(rb) = Len(b) /\ Len(left) = Len(a) + Len(b)
      /\ \A i \in 1..Len(a) + Len(b) : left[i] = (a \o b)[i].slot
      /\ \A i \in 1..Len(a) : ra[i] = a[i].slot
      /\ \A i \in 1..Len(b) : rb[i] = b[i].slot
  BY <1>1, <1>2
<1> HIDE DEF left, ra, rb
<1>4. /\ ra \o rb \in Seq(SlotType) /\ Len(ra \o rb) = Len(a) + Len(b)
      /\ \A i \in 1..Len(a) + Len(b) :
           (ra \o rb)[i] = IF i <= Len(a) THEN ra[i] ELSE rb[i - Len(a)]
  <2>0. ra \in Seq(SlotType) /\ rb \in Seq(SlotType)
    BY <1>3
  <2>1. /\ ra \o rb \in Seq(SlotType) /\ Len(ra \o rb) = Len(ra) + Len(rb)
        /\ \A i \in 1..Len(ra) + Len(rb) :
             (ra \o rb)[i] = IF i <= Len(ra) THEN ra[i] ELSE rb[i - Len(ra)]
    BY <2>0, ConcatProperties
  <2>2. Len(ra) = Len(a) /\ Len(rb) = Len(b)
    BY <1>3
  <2>3. QED
    BY <2>1, <2>2
<1>5. ASSUME NEW i \in 1..Len(a) + Len(b) PROVE left[i] = (ra \o rb)[i]
  <2>1. CASE i <= Len(a)
    <3>1. i \in 1..Len(a)
      BY <1>1, <2>1
    <3>2. left[i] = a[i].slot
      BY <1>1, <1>3, <2>1
    <3>3. QED
      BY <1>3, <1>4, <2>1, <3>1, <3>2
  <2>2. CASE ~(i <= Len(a))
    <3>1. i - Len(a) \in 1..Len(b)
      BY <1>1, <2>2
    <3>2. left[i] = b[i - Len(a)].slot
      BY <1>1, <1>3, <2>2
    <3>3. QED
      BY <1>3, <1>4, <2>2, <3>1, <3>2
  <2>3. QED
    BY <2>1, <2>2
<1>6. left = ra \o rb
  BY <1>3, <1>4, <1>5, SeqEqual
<1>7. QED
  BY <1>1, <1>6 DEF left, ra, rb

\* What genCallProlog puts in front of the arguments: the slots of the first entries.
LEMMA OneActual ==
  ASSUME NEW o \in OwnerType,
         NEW s \in SlotType
  PROVE  /\ <<Actual(o, s)>> \in Seq(ActualType)
         /\ SlotsOfCall(<<Actual(o, s)>>) = <<s>>
<1>1. Actual(o, s) \in ActualType /\ Actual(o, s).slot = s
  BY DEF Actual, ActualType
<1> DEFINE a == Actual(o, s)
<1> HIDE DEF a
<1>2. a \in ActualType /\ a.slot = s
  BY <1>1 DEF a
<1>3. <<a>> \in Seq(ActualType) /\ Len(<<a>>) = 1 /\ <<a>>[1] = a
  BY <1>2
<1>4. SlotsOfCall(<<a>>) = <<s>>
  BY <1>2, <1>3 DEF SlotsOfCall
<1>5. QED
  BY <1>3, <1>4 DEF a

LEMMA NoActuals == <<>> \in Seq(ActualType) /\ SlotsOfCall(<<>>) = <<>>
BY EmptySeq DEF SlotsOfCall

LEMMA Owners ==
  /\ Owner("sret", 0, 0) \in OwnerType
  /\ Chain \in OwnerType
  /\ \A p, j \in Nat :
       Owner("param", p, j) \in OwnerType
BY DEF Owner, Chain, OwnerType


\* The values of an argument have the types of its slots.
LEMMA ActualsType ==
  ASSUME NEW p \in Nat, NEW info \in InfoType
  PROVE  /\ Actuals(p, info) \in Seq(ActualType)
         /\ SlotsOfCall(Actuals(p, info)) =
              IF info.disp = "ignore" THEN <<>> ELSE info.abiTypes
<1>1. CASE info.disp = "ignore"
  BY <1>1, NoActuals DEF Actuals
<1>2. CASE info.disp # "ignore"
  <2> DEFINE ts == info.abiTypes
             n == Len(ts)
             acts == [j \in 1..n |-> Actual(Owner("param", p, j), ts[j])]
  <2>1. ts \in Seq(SlotType) /\ n \in Nat
    BY LenProperties DEF InfoType
  <2>2. Actuals(p, info) = acts
    BY <1>2 DEF Actuals
  <2> HIDE DEF ts
  <2>3. ASSUME NEW j \in 1..n
        PROVE  /\ Actual(Owner("param", p, j), ts[j]) \in ActualType
               /\ Actual(Owner("param", p, j), ts[j]).slot = ts[j]
    <3>1. ts[j] \in SlotType /\ j \in Nat
      BY <2>1, ElementOfSeq
    <3>2. Owner("param", p, j) \in OwnerType
      BY <3>1, Owners
    <3>3. QED
      BY <3>1, <3>2 DEF Actual, ActualType
  <2> HIDE DEF n
  <2>4. /\ acts \in Seq(ActualType) /\ Len(acts) = n
        /\ \A j \in 1..n : acts[j].slot = ts[j]
    BY <2>1, <2>3
  <2> HIDE DEF acts
  <2>5. SlotsOfCall(acts) = [j \in 1..n |-> ts[j]]
    BY <2>4 DEF SlotsOfCall
  <2>6. ts = [j \in 1..n |-> ts[j]]
    BY <2>1, LenProperties DEF n
  <2>7. QED
    BY <1>2, <2>2, <2>4, <2>5, <2>6 DEF ts
<1>3. QED
  BY <1>1, <1>2


\* The caller's values are at the offsets of the entries they are made for.
LEMMA BroughtStep ==
  ASSUME OracleInv, Analyzed, NEW k \in DOMAIN infov, NEW args \in Seq(ActualType),
         Walked(k - 1, SlotsOfCall(args)), Brought(infov, k - 1, args),
         NEW more \in Seq(ActualType),
         SlotsOfCall(more) = IF HasSlots(infov, k) THEN infov[k].abiTypes ELSE <<>>,
         HasSlots(infov, k) =>
           \A j \in 1..Len(infov[k].abiTypes) : more[j].from = OwnerOf(k, j)
  PROVE  Brought(infov, k, args \o more)
<1> DEFINE n == Len(args)
           r == args \o more
<1>1. /\ n \in Nat /\ Len(more) \in Nat
      /\ \A i \in 1..n + Len(more) : r[i] = IF i <= n THEN args[i] ELSE more[i - n]
  BY ConcatProperties, LenProperties
<1>2. /\ infov \in Seq(InfoType) /\ EntriesOK(infov) /\ Count \in Nat
      /\ Divided(infov, Count) /\ DOMAIN infov = 1..Len(infov) /\ Len(infov) \in Nat
  BY OracleFacts
<1>3. Len(SlotsOfCall(args)) = n /\ Len(SlotsOfCall(more)) = Len(more)
  BY <1>1 DEF SlotsOfCall
<1>4. Cursor(infov, k - 1, n)
  BY <1>3 DEF Walked
<1>5. HasSlots(infov, k) => infov[k].sigOffset = n
  BY <1>1, <1>2, <1>4, CursorAtOffset
<1> HIDE DEF n, r
<1> SUFFICES ASSUME NEW l \in DOMAIN infov, l <= k, HasSlots(infov, l),
                    NEW j \in 1..Len(infov[l].abiTypes)
             PROVE  r[infov[l].sigOffset + j].from = OwnerOf(l, j)
  BY DEF Brought, r
<1>6. CASE l = k
  <2>1. infov[l].sigOffset + j = n + j /\ j \in 1..Len(more) /\ more[j].from = OwnerOf(l, j)
    BY <1>3, <1>5, <1>6
  <2>2. n + j \in 1..n + Len(more) /\ ~(n + j <= n) /\ (n + j) - n = j
    BY <1>1, <2>1
  <2>3. r[n + j] = more[j]
    BY <1>1, <2>2
  <2>4. QED
    BY <2>1, <2>3
<1>7. CASE l # k
  <2>1. l <= k - 1
    BY <1>2, <1>7
  <2>2. End(infov, l) <= n /\ args[infov[l].sigOffset + j].from = OwnerOf(l, j)
    BY <1>4, <2>1 DEF Cursor, Brought
  <2> DEFINE o == infov[l].sigOffset
             m == Len(infov[l].abiTypes)
  <2>3. o \in Int /\ o >= 0 /\ m \in Nat /\ o + m <= n /\ j \in 1..m
    BY <1>2, <2>2, InfoParts DEF End, HasSlots
  <2> HIDE DEF o, m
  <2>4. o + j \in 1..n + Len(more) /\ o + j <= n
    BY <1>1, <2>3
  <2>5. r[o + j] = args[o + j]
    BY <1>1, <2>4
  <2>6. QED
    BY <2>2, <2>5 DEF o
<1>8. QED
  BY <1>6, <1>7

\* The address of the result and the chain have the types the caller gives them.
LEMMA FirstTypes ==
  ASSUME OracleInv, EntryShapes, Analyzed
  PROVE  /\ 1 \in DOMAIN infov /\ 2 \in DOMAIN infov
         /\ infov[1].disp = "indirect" => infov[1].abiTypes = <<PointerTo(sig.result)>>
         /\ infov[2].disp # "ignore" => infov[2].abiTypes = <<ChainPointer>>
<1>1. 1 \in DOMAIN infov /\ 2 \in DOMAIN infov
  <2>1. /\ DOMAIN infov = 1..Len(infov) /\ Len(infov) = Len(sig.params) + 2
        /\ Len(sig.params) \in Nat
    BY OracleFacts
  <2>2. QED
    BY <2>1
<1>2. ReturnShape(sig, infov[1]) /\ ChainShape(sig, infov[1], infov[2])
  BY <1>1 DEF EntryShapes, Shapes, Shape
<1>3. sig.cabi \in BOOLEAN
  BY SignatureAssumption DEF OracleInv, OracleTypeOK
<1>4. QED
  BY <1>1, <1>2, <1>3 DEF ReturnShape, ChainShape

\* genCallProlog has walked the result and the chain.
LEMMA PrologStep == CallInv /\ GenCallProlog /\ UNCHANGED vars => Marshalling'
<1> SUFFICES ASSUME CallInv, GenCallProlog, UNCHANGED vars PROVE Marshalling'
  OBVIOUS
<1> DEFINE R == IF ReturnInfo.disp = "indirect"
                THEN <<Actual(Owner("sret", 0, 0), PointerTo(sig.result))>> ELSE <<>>
           C == IF ChainInfo.disp # "ignore" THEN <<Actual(Chain, ChainPointer)>> ELSE <<>>
<1>1. /\ OracleInv /\ EntryShapes /\ Analyzed
      /\ UNCHANGED <<sig, phase, infov, argCount>>
      /\ operands = <<>> /\ UNCHANGED operands /\ callStage' = "args"
      /\ llargs' = R \o C /\ sretTemp' = NeedSretTemp
  <2>1. UNCHANGED <<sig, phase, infov, argCount>>
    BY DEF vars, oracleVars
  <2>2. QED
    BY <2>1 DEF GenCallProlog, CallInv, CalleeInv, Marshalling
<1>2. /\ 1 \in DOMAIN infov /\ 2 \in DOMAIN infov /\ Len(infov) >= 2 /\ 2 # 1
      /\ 1 - 1 = 0 /\ 2 - 1 = 1
  <2>1. DOMAIN infov = 1..Len(infov) /\ Len(infov) = Len(sig.params) + 2
        /\ Len(sig.params) \in Nat
    BY <1>1, OracleFacts
  <2>2. QED
    BY <2>1
<1>3. sig.result \in Type /\ PointerTo(sig.result) \in SlotType /\ ChainPointer \in SlotType
  BY <1>1, SignatureTypes, SlotTypes DEF OracleInv, OracleTypeOK
<1>4. /\ R \in Seq(ActualType)
      /\ SlotsOfCall(R) = IF HasSlots(infov, 1) THEN infov[1].abiTypes ELSE <<>>
  <2>1. HasSlots(infov, 1) <=> ReturnInfo.disp = "indirect"
    BY <1>1, <1>2, HasSlotsIs DEF ReturnInfo
  <2>2. CASE ReturnInfo.disp = "indirect"
    <3>1. /\ <<Actual(Owner("sret", 0, 0), PointerTo(sig.result))>> \in Seq(ActualType)
          /\ SlotsOfCall(<<Actual(Owner("sret", 0, 0), PointerTo(sig.result))>>)
               = <<PointerTo(sig.result)>>
      BY <1>3, Owners, OneActual
    <3>2. infov[1].abiTypes = <<PointerTo(sig.result)>>
      BY <1>1, <2>2, FirstTypes DEF ReturnInfo
    <3>3. QED
      BY <2>1, <2>2, <3>1, <3>2
  <2>3. CASE ReturnInfo.disp # "indirect"
    BY <2>1, <2>3, NoActuals
  <2>4. QED
    BY <2>2, <2>3
<1>5. /\ C \in Seq(ActualType)
      /\ SlotsOfCall(C) = IF HasSlots(infov, 2) THEN infov[2].abiTypes ELSE <<>>
  <2>1. HasSlots(infov, 2) <=> ChainInfo.disp # "ignore"
    BY <1>1, <1>2, HasSlotsIs DEF ChainInfo
  <2>2. CASE ChainInfo.disp # "ignore"
    <3>1. /\ <<Actual(Chain, ChainPointer)>> \in Seq(ActualType)
          /\ SlotsOfCall(<<Actual(Chain, ChainPointer)>>) = <<ChainPointer>>
      BY <1>3, Owners, OneActual
    <3>2. infov[2].abiTypes = <<ChainPointer>>
      BY <1>1, <2>2, FirstTypes DEF ChainInfo
    <3>3. QED
      BY <2>1, <2>2, <3>1, <3>2
  <2>3. CASE ~(ChainInfo.disp # "ignore")
    BY <2>1, <2>3, NoActuals
  <2>4. QED
    BY <2>2, <2>3
<1>13. HasSlots(infov, 1) =>
         \A j \in 1..Len(infov[1].abiTypes) : R[j].from = OwnerOf(1, j)
  <2> SUFFICES ASSUME HasSlots(infov, 1), NEW j \in 1..Len(infov[1].abiTypes)
               PROVE  R[j].from = OwnerOf(1, j)
    OBVIOUS
  <2>1. ReturnInfo.disp = "indirect" /\ infov[1].abiTypes = <<PointerTo(sig.result)>>
    BY <1>1, <1>2, HasSlotsIs, FirstTypes DEF ReturnInfo
  <2>2. j = 1
    BY <2>1
  <2>3. R = <<Actual(Owner("sret", 0, 0), PointerTo(sig.result))>>
    BY <2>1
  <2>4. R[1] = Actual(Owner("sret", 0, 0), PointerTo(sig.result))
    BY <2>3
  <2>5. QED
    BY <2>2, <2>4 DEF Actual, OwnerOf
<1>14. HasSlots(infov, 2) =>
         \A j \in 1..Len(infov[2].abiTypes) : C[j].from = OwnerOf(2, j)
  <2> SUFFICES ASSUME HasSlots(infov, 2), NEW j \in 1..Len(infov[2].abiTypes)
               PROVE  C[j].from = OwnerOf(2, j)
    OBVIOUS
  <2>1. ChainInfo.disp # "ignore" /\ infov[2].abiTypes = <<ChainPointer>>
    BY <1>1, <1>2, HasSlotsIs, FirstTypes DEF ChainInfo
  <2>2. j = 1
    BY <2>1
  <2>3. C = <<Actual(Chain, ChainPointer)>>
    BY <2>1
  <2>4. C[1] = Actual(Chain, ChainPointer)
    BY <2>3
  <2>5. QED
    BY <2>2, <2>4 DEF Actual, OwnerOf
<1> HIDE DEF R, C
<1>6. Walked(1, <<>> \o SlotsOfCall(R))
  <2>1. Walked(1 - 1, <<>>)
    BY <1>1, <1>2, NothingWalked
  <2>2. QED
    BY <1>1, <1>2, <1>4, <2>1, WalkStep
<1>7. <<>> \o SlotsOfCall(R) = SlotsOfCall(R)
  <2>1. CASE HasSlots(infov, 1)
    <3>1. infov[1].abiTypes \in Seq(SlotType)
      BY <1>1, <1>2, OracleFacts, InfoParts
    <3>2. QED
      BY <1>4, <2>1, <3>1, ConcatEmptySeq
  <2>2. CASE ~HasSlots(infov, 1)
    BY <1>4, <2>2, EmptySeq, ConcatEmptySeq
  <2>3. QED
    BY <2>1, <2>2
<1>8. Walked(2, SlotsOfCall(R) \o SlotsOfCall(C))
  <2>1. Walked(2 - 1, SlotsOfCall(R))
    BY <1>2, <1>6, <1>7
  <2>2. QED
    BY <1>1, <1>2, <1>5, <2>1, WalkStep
<1>9. /\ llargs' \in Seq(ActualType)
      /\ SlotsOfCall(llargs') = SlotsOfCall(R) \o SlotsOfCall(C)
  BY <1>1, <1>4, <1>5, SlotsOfConcat
<1>10. Len(operands) = 0 /\ operands \in Seq(Nat) /\ Len(operands) + 2 = 2
       /\ Len(sig.params) \in Nat
  <2>1. Len(<<>>) = 0 /\ <<>> \in Seq(Nat)
    BY EmptySeq
  <2>2. Len(sig.params) \in Nat
    BY <1>1, OracleFacts
  <2>3. QED
    BY <1>1, <2>1, <2>2
<1>11. Walked(Len(operands) + 2, SlotsOfCall(llargs'))
  BY <1>8, <1>9, <1>10
<1>15. Brought(infov, 1, R)
  <2>1. Brought(infov, 1 - 1, <<>>)
    <3>1. DOMAIN infov = 1..Len(infov)
      BY <1>1, OracleFacts
    <3>2. \A k \in DOMAIN infov : ~(k <= 1 - 1)
      BY <3>1
    <3>3. QED
      BY <3>2 DEF Brought
  <2>2. <<>> \in Seq(ActualType) /\ SlotsOfCall(<<>>) = <<>> /\ <<>> \o R = R
    BY <1>4, NoActuals, ConcatEmptySeq
  <2>3. Walked(1 - 1, SlotsOfCall(<<>>))
    BY <1>1, <1>2, <2>2, NothingWalked
  <2>4. R \in Seq(ActualType)
        /\ SlotsOfCall(R) = (IF HasSlots(infov, 1) THEN infov[1].abiTypes ELSE <<>>)
    BY <1>4
  <2>5. Brought(infov, 1, <<>> \o R)
    BY <1>1, <1>2, <1>13, <2>1, <2>2, <2>3, <2>4, BroughtStep
  <2>6. QED
    BY <2>2, <2>5
<1>16. Brought(infov, 2, R \o C)
  <2>1. Walked(2 - 1, SlotsOfCall(R)) /\ Brought(infov, 2 - 1, R)
    BY <1>2, <1>6, <1>7, <1>15
  <2>2. R \in Seq(ActualType) /\ C \in Seq(ActualType)
        /\ SlotsOfCall(C) = (IF HasSlots(infov, 2) THEN infov[2].abiTypes ELSE <<>>)
    BY <1>4, <1>5
  <2>3. QED
    BY <1>1, <1>2, <1>14, <2>1, <2>2, BroughtStep
<1>17. Brought(infov, Len(operands) + 2, llargs')
  BY <1>1, <1>10, <1>16
<1>18. NeedSretTemp' = NeedSretTemp
  BY <1>1 DEF NeedSretTemp, ReturnInfo
<1>19. QED
  BY <1>1, <1>9, <1>10, <1>11, <1>17, <1>18
     DEF Marshalling, Marshalled, Walked, Count, Analyzed


\* genCallMarshallArgs walks one entry more.
LEMMA MarshallStep == CallInv /\ MarshallArg /\ UNCHANGED vars => Marshalling'
<1> SUFFICES ASSUME CallInv, MarshallArg, UNCHANGED vars PROVE Marshalling'
  OBVIOUS
<1> DEFINE p == Len(operands) + 1
           i == p + 2
           acts == Actuals(p, ParamInfo(p))
<1>1. /\ OracleInv /\ Analyzed /\ callStage = "args" /\ UNCHANGED callStage
      /\ UNCHANGED <<sig, phase, infov, argCount>>
      /\ operands \in Seq(Nat) /\ Len(operands) < Len(sig.params)
      /\ \A q \in 1..Len(operands) : operands[q] = q
      /\ llargs \in Seq(ActualType)
      /\ Walked(Len(operands) + 2, SlotsOfCall(llargs))
      /\ Brought(infov, Len(operands) + 2, llargs)
      /\ sretTemp = NeedSretTemp /\ UNCHANGED sretTemp
      /\ operands' = Append(operands, p)
      /\ llargs' = llargs \o acts
  <2>1. UNCHANGED <<sig, phase, infov, argCount>>
    BY DEF vars, oracleVars
  <2>2. QED
    BY <2>1 DEF MarshallArg, CallInv, CalleeInv, Marshalling
<1>2. /\ Len(operands) \in Nat /\ p \in Nat /\ i \in DOMAIN infov /\ i # 1
      /\ i - 1 = Len(operands) + 2 /\ p <= Len(sig.params)
  <2>1. DOMAIN infov = 1..Len(infov) /\ Len(infov) = Len(sig.params) + 2
        /\ Len(sig.params) \in Nat
    BY <1>1, OracleFacts
  <2>2. Len(operands) \in Nat
    BY <1>1, LenProperties
  <2>3. QED
    BY <1>1, <2>1, <2>2
<1> HIDE DEF acts
<1>3. /\ acts \in Seq(ActualType)
      /\ SlotsOfCall(acts) = IF HasSlots(infov, i) THEN infov[i].abiTypes ELSE <<>>
  <2>1. ParamInfo(p) = infov[i] /\ infov[i] \in InfoType
    BY <1>1, <1>2, OracleFacts, InfoParts DEF ParamInfo
  <2>2. HasSlots(infov, i) <=> infov[i].disp # "ignore"
    BY <1>1, <1>2, HasSlotsIs
  <2>3. /\ acts \in Seq(ActualType)
        /\ SlotsOfCall(acts) =
             IF infov[i].disp = "ignore" THEN <<>> ELSE infov[i].abiTypes
    BY <1>2, <2>1, ActualsType DEF acts
  <2>4. QED
    BY <2>2, <2>3
<1>9. HasSlots(infov, i) =>
        \A j \in 1..Len(infov[i].abiTypes) : acts[j].from = OwnerOf(i, j)
  <2> SUFFICES ASSUME HasSlots(infov, i), NEW j \in 1..Len(infov[i].abiTypes)
               PROVE  acts[j].from = OwnerOf(i, j)
    OBVIOUS
  <2>1. ParamInfo(p) = infov[i] /\ infov[i].disp # "ignore"
    BY <1>1, <1>2, HasSlotsIs DEF ParamInfo
  <2>2. acts[j] = Actual(Owner("param", p, j), infov[i].abiTypes[j])
    BY <2>1 DEF acts, Actuals
  <2>3. i # 1 /\ i # 2 /\ i - 2 = p
    BY <1>2
  <2>4. OwnerOf(i, j) = Owner("param", p, j)
    BY <2>3 DEF OwnerOf
  <2>5. QED
    BY <2>2, <2>4 DEF Actual
<1> HIDE DEF i
<1>4. Walked(i, SlotsOfCall(llargs) \o SlotsOfCall(acts))
  <2>1. Walked(i - 1, SlotsOfCall(llargs))
    BY <1>1, <1>2
  <2>2. QED
    BY <1>1, <1>2, <1>3, <2>1, WalkStep
<1>5. /\ llargs' \in Seq(ActualType)
      /\ SlotsOfCall(llargs') = SlotsOfCall(llargs) \o SlotsOfCall(acts)
  BY <1>1, <1>3, SlotsOfConcat
<1> HIDE DEF p
<1>6. /\ operands' \in Seq(Nat) /\ Len(operands') = p
      /\ \A q \in 1..p : operands'[q] = q
  <2>1. Len(operands) + 1 = p
    BY DEF p
  <2>2. /\ Append(operands, p) \in Seq(Nat) /\ Len(Append(operands, p)) = p
        /\ Append(operands, p)[p] = p
        /\ \A q \in 1..Len(operands) : Append(operands, p)[q] = operands[q]
    BY <1>1, <1>2, <2>1, AppendProperties
  <2>3. ASSUME NEW q \in 1..p PROVE operands'[q] = q
    <3>1. q = p \/ q \in 1..Len(operands)
      BY <1>2, <2>1
    <3>2. QED
      BY <1>1, <2>2, <3>1
  <2>4. QED
    BY <1>1, <2>2, <2>3
<1>7. Walked(p + 2, SlotsOfCall(llargs'))
  BY <1>4, <1>5 DEF i
<1>10. Brought(infov, p + 2, llargs')
  <2>1. Walked(i - 1, SlotsOfCall(llargs)) /\ Brought(infov, i - 1, llargs)
    BY <1>1, <1>2
  <2>2. Brought(infov, i, llargs \o acts)
    BY <1>1, <1>2, <1>3, <1>9, <2>1, BroughtStep
  <2>3. QED
    BY <1>1, <2>2 DEF i
<1>11. NeedSretTemp' = NeedSretTemp
  BY <1>1 DEF NeedSretTemp, ReturnInfo
<1>12. QED
  BY <1>1, <1>2, <1>5, <1>6, <1>7, <1>10, <1>11
     DEF Marshalling, Marshalled, Walked, Count, Analyzed

-----------------------------------------------------------------------------
(* The invariant.                                                           *)

LEMMA ProgramStepsOracle ==
  [ProgramNext]_programVars => [OracleNext]_oracleVars /\ [Next]_vars
BY DEF ProgramNext, Next, programVars, vars, oracleVars, CallNext, FunctionNext

LEMMA CallInitInv == ProgramInit => CallInv
<1> SUFFICES ASSUME ProgramInit PROVE CallInv
  OBVIOUS
<1>1. OracleInit /\ CallInit
  BY DEF ProgramInit, Init
<1>2. CalleeInv /\ RegistersCounted
  BY <1>1, CalleeInvInit, RegistersInit DEF ProgramInit
<1>3. Marshalling
  BY <1>1 DEF CallInit, Marshalling, Marshalled
<1>4. QED
  BY <1>2, <1>3 DEF CallInv

\* What the caller does not change leaves the questions it asks the oracle as they were.
LEMMA AnswersKept ==
  ASSUME UNCHANGED <<sig, infov>>
  PROVE  /\ NeedSretTemp' = NeedSretTemp
         /\ \A i : AttrAt(i)' = AttrAt(i)
BY DEF NeedSretTemp, AttrAt, AttrSlot, ReturnInfo, ReturnsInMemory, ChainInfo, ParamInfo,
       Params

LEMMA CallKept ==
  ASSUME Marshalling, UNCHANGED <<sig, phase, infov, argCount>>, UNCHANGED callVars
  PROVE  Marshalling'
<1>1. NeedSretTemp' = NeedSretTemp /\ \A i : AttrAt(i)' = AttrAt(i)
  BY AnswersKept
<1>2. UNCHANGED <<callStage, llargs, operands, sretTemp, callAttr, result>>
  BY DEF callVars
<1>3. [i \in 1..Len(llargs) |-> AttrAt(i)]' = [i \in 1..Len(llargs) |-> AttrAt(i)]
  BY <1>1, <1>2
<1>4. QED
  BY <1>1, <1>2, <1>3 DEF Marshalling, Marshalled, Walked, Count, Analyzed

\* The end of the arguments, the call and its result.
LEMMA CallStep ==
  ASSUME Marshalling, MarshallEnd \/ CreateCall \/ GenCallEpilog,
         UNCHANGED <<sig, phase, infov, argCount>>
  PROVE  Marshalling'
<1>1. NeedSretTemp' = NeedSretTemp /\ \A i : AttrAt(i)' = AttrAt(i)
  BY AnswersKept
<1>2. llargs' = llargs
  BY DEF MarshallEnd, CreateCall, GenCallEpilog
<1>3. [i \in 1..Len(llargs) |-> AttrAt(i)]' = [i \in 1..Len(llargs) |-> AttrAt(i)]
  BY <1>1, <1>2
<1>4. CASE MarshallEnd
  BY <1>1, <1>3, <1>4 DEF MarshallEnd, Marshalling, Marshalled, Walked, Count, Analyzed
<1>5. CASE CreateCall
  BY <1>1, <1>3, <1>5 DEF CreateCall, Marshalling, Marshalled, Walked, Count, Analyzed
<1>6. CASE GenCallEpilog
  BY <1>1, <1>3, <1>6 DEF GenCallEpilog, Marshalling, Marshalled, Walked, Count, Analyzed
<1>7. QED
  BY <1>4, <1>5, <1>6

LEMMA CallNextInv == CallInv /\ [ProgramNext]_programVars => CallInv'
<1> SUFFICES ASSUME CallInv, [ProgramNext]_programVars PROVE CallInv'
  OBVIOUS
<1>1. CalleeInv' /\ RegistersCounted'
  <2>1. [OracleNext]_oracleVars /\ [Next]_vars
    BY ProgramStepsOracle
  <2>2. QED
    BY <2>1, CalleeInvNext, RegistersNext DEF CallInv, CalleeInv
<1>2. SUFFICES Marshalling'
  BY <1>1 DEF CallInv
<1>3. Marshalling /\ OracleInv
  BY DEF CallInv, CalleeInv
<1>4. CASE UNCHANGED callVars /\ UNCHANGED oracleVars
  BY <1>3, <1>4, CallKept DEF oracleVars
<1>5. CASE UNCHANGED callVars /\ OracleNext
  <2>1. ~Analyzed
    BY <1>3, <1>5, OracleStepFirst
  <2>2. callStage = "none" /\ operands = <<>>
    BY <1>3, <2>1 DEF Marshalling
  <2>3. callStage' = "none" /\ operands' = <<>>
    BY <1>5, <2>2 DEF callVars
  <2>4. QED
    BY <2>3 DEF Marshalling, Marshalled
<1>6. CASE CallNext /\ UNCHANGED vars
  <2>1. UNCHANGED <<sig, phase, infov, argCount>>
    BY <1>6 DEF vars, oracleVars
  <2>2. CASE GenCallProlog
    BY <1>6, <2>2, PrologStep
  <2>3. CASE MarshallArg
    BY <1>6, <2>3, MarshallStep
  <2>4. CASE MarshallEnd \/ CreateCall \/ GenCallEpilog
    BY <1>3, <2>1, <2>4, CallStep
  <2>5. QED
    BY <1>6, <2>2, <2>3, <2>4 DEF CallNext
<1>7. QED
  <2>1. \/ UNCHANGED callVars /\ UNCHANGED oracleVars
        \/ UNCHANGED callVars /\ OracleNext
        \/ CallNext /\ UNCHANGED vars
    BY DEF ProgramNext, programVars, Next, vars
  <2>2. QED
    BY <1>4, <1>5, <1>6, <2>1

LEMMA MarshalledMatches == CallInv => CallMatchesSignature
<1> SUFFICES ASSUME CallInv, Marshalled PROVE CallMatchesSignature
  BY DEF CallMatchesSignature
<1>1. /\ OracleInv /\ Analyzed /\ llargs \in Seq(ActualType)
      /\ operands \in Seq(Nat) /\ Len(operands) = Len(sig.params)
      /\ \A p \in 1..Len(operands) : operands[p] = p
      /\ Walked(Len(operands) + 2, SlotsOfCall(llargs))
  BY DEF CallInv, CalleeInv, Marshalling, Marshalled
<1>2. Len(operands) + 2 = Len(infov)
  BY <1>1, OracleFacts
<1>3. /\ Len(SlotsOfCall(llargs)) = Len(elems)
      /\ \A i \in 1..Len(elems) : SlotsOfCall(llargs)[i] = elems[i]
  BY <1>1, <1>2, WalksAgree
<1>4. Len(SlotsOfCall(llargs)) = Len(llargs)
      /\ \A i \in 1..Len(llargs) : SlotsOfCall(llargs)[i] = llargs[i].slot
  BY <1>1, LenProperties DEF SlotsOfCall
<1>5. elems \in Seq(SlotType) /\ DOMAIN elems = 1..Len(elems)
  BY <1>1, OracleFacts, LenProperties DEF Walked
<1>6. operands = [p \in Params |-> p]
  BY <1>1, LenProperties DEF Params
<1>7. QED
  BY <1>3, <1>4, <1>5, <1>6 DEF CallMatchesSignature

-----------------------------------------------------------------------------
(* What the caller's values and attributes mean to the callee.              *)

\* genCallAttributes finds the attribute of the entry an argument belongs to: the first
\* position of a parameter is its only one if it has an attribute.
LEMMA AttrAtIs ==
  ASSUME OracleInv, EntryShapes, Analyzed, sig.cabi,
         NEW k \in DOMAIN infov, HasSlots(infov, k), NEW j \in 1..Len(infov[k].abiTypes),
         NEW i, i = infov[k].sigOffset + j
  PROVE  AttrAt(i) = infov[k].attr
<1> DEFINE chain == IF ReturnsInMemory THEN 1 ELSE 0
           marked == {p \in Params : /\ ParamInfo(p).disp # "ignore"
                                     /\ ParamInfo(p).attr # "none"
                                     /\ AttrSlot(ParamInfo(p)) = i}
<1>1. /\ i \in 1..Len(elems) /\ k \in Nat /\ k >= 1
      /\ k = 1 => i = 1 /\ i <= chain /\ i # chain + 1
      /\ k = 2 => i = chain + 1
      /\ k > 2 => i # chain + 1 /\ ~(i <= chain)
  <2>1. chain = IF ReturnsInMemory THEN 1 ELSE 0
    OBVIOUS
  <2> HIDE DEF chain
  <2>2. QED
    BY <2>1, FirstSlots
<1>2. AttrAt(i) = CASE marked # {} -> ParamInfo(CHOOSE p \in marked : TRUE).attr
                    [] marked = {} /\ ChainInfo.disp # "ignore"
                         /\ AttrSlot(ChainInfo) = i -> "nest"
                    [] marked = {} /\ ReturnsInMemory /\ i = 1 -> "sret"
                    [] OTHER -> "none"
  BY DEF AttrAt
<1>3. ASSUME NEW p \in marked PROVE p + 2 = k /\ p \in Nat /\ ParamInfo(p) = infov[k]
  <2>1. /\ p \in 1..Len(sig.params) /\ ParamInfo(p).disp # "ignore"
        /\ ParamInfo(p).attr # "none" /\ ParamInfo(p).sigOffset + 1 = i
    BY <1>3 DEF Params, AttrSlot
  <2>2. /\ p + 2 \in DOMAIN infov /\ ParamInfo(p) = infov[p + 2]
        /\ HasSlots(infov, p + 2) /\ Len(infov[p + 2].abiTypes) = 1
    BY <2>1, ParamFacts
  <2> DEFINE l == p + 2
  <2>3. /\ l \in DOMAIN infov /\ HasSlots(infov, l) /\ 1 \in 1..Len(infov[l].abiTypes)
        /\ infov[l].sigOffset + 1 = infov[k].sigOffset + j
    BY <2>1, <2>2
  <2> HIDE DEF l
  <2>4. l = k
    BY <2>3, SlotUnique
  <2>5. QED
    BY <2>1, <2>2, <2>4 DEF l
<1>4. k <= 2 => marked = {}
  <2> SUFFICES ASSUME k <= 2, NEW p \in marked PROVE FALSE
    OBVIOUS
  <2>1. p \in 1..Len(sig.params)
    BY DEF Params
  <2>2. p + 2 = k /\ p \in Nat
    BY <1>3
  <2>3. QED
    BY <2>1, <2>2
<1>5. /\ ChainInfo.disp # "ignore" /\ AttrSlot(ChainInfo) = chain + 1
      /\ k = 1 => infov[k].attr = "sret" /\ ReturnsInMemory
      /\ k = 2 => infov[k].attr = "nest"
  BY FirstFacts DEF AttrSlot
<1>6. CASE k = 1
  <2>1. marked = {} /\ ReturnsInMemory /\ i = 1 /\ AttrSlot(ChainInfo) # i
    BY <1>1, <1>4, <1>5, <1>6
  <2> HIDE DEF marked
  <2>2. AttrAt(i) = "sret"
    BY <1>2, <2>1
  <2>3. QED
    BY <1>5, <1>6, <2>2
<1>7. CASE k = 2
  <2>1. marked = {} /\ ChainInfo.disp # "ignore" /\ AttrSlot(ChainInfo) = i
    BY <1>1, <1>4, <1>5, <1>7
  <2>2. ~(ReturnsInMemory /\ i = 1)
    BY <1>1, <1>7
  <2> HIDE DEF marked
  <2>3. AttrAt(i) = "nest"
    BY <1>2, <2>1, <2>2
  <2>4. QED
    BY <1>5, <1>7, <2>3
<1>8. CASE k > 2
  <2> DEFINE p == k - 2
  <2>1. p \in 1..Len(sig.params) /\ p + 2 = k
    <3>1. /\ DOMAIN infov = 1..Len(infov) /\ Len(infov) = Len(sig.params) + 2
          /\ Len(sig.params) \in Nat
      BY OracleFacts
    <3>2. QED
      BY <1>8, <3>1
  <2> HIDE DEF p
  <2>2. /\ ParamInfo(p) = infov[k] /\ infov[k].disp # "ignore"
        /\ infov[k].attr # "none" => Len(infov[k].abiTypes) = 1
    BY <2>1, ParamFacts
  <2>3. CASE infov[k].attr # "none"
    <3>1. Len(infov[k].abiTypes) = 1 /\ j = 1
      <4>1. Len(infov[k].abiTypes) = 1
        BY <2>2, <2>3
      <4>2. QED
        BY <4>1
    <3>2. p \in marked
      BY <2>1, <2>2, <2>3, <3>1 DEF Params, AttrSlot
    <3>3. \A q \in marked : ParamInfo(q) = infov[k]
      BY <1>3
    <3> HIDE DEF marked
    <3>4. (CHOOSE q \in marked : TRUE) \in marked /\ marked # {}
      BY <3>2
    <3>5. AttrAt(i) = ParamInfo(CHOOSE q \in marked : TRUE).attr
      BY <1>2, <3>4
    <3>6. QED
      BY <3>3, <3>4, <3>5
  <2>4. CASE infov[k].attr = "none"
    <3>1. marked = {}
      <4> SUFFICES ASSUME NEW q \in marked PROVE FALSE
        OBVIOUS
      <4>1. ParamInfo(q) = infov[k] /\ ParamInfo(q).attr # "none"
        BY <1>3
      <4>2. QED
        BY <2>4, <4>1
    <3>2. AttrSlot(ChainInfo) # i /\ ~(ReturnsInMemory /\ i = 1)
      BY <1>1, <1>5, <1>8
    <3> HIDE DEF marked
    <3>3. AttrAt(i) = "none"
      BY <1>2, <3>1, <3>2
    <3>4. QED
      BY <2>4, <3>3
  <2>5. QED
    BY <2>3, <2>4
<1>9. QED
  BY <1>1, <1>6, <1>7, <1>8

\* What a call that has its arguments has passed, for a function that is no builtin.
LEMMA MarshalledFacts ==
  ASSUME CallInv, Marshalled
  PROVE  /\ OracleInv /\ EntryShapes /\ Analyzed /\ FunctionInv
         /\ llargs \in Seq(ActualType) /\ Len(llargs) = Len(elems) /\ Len(elems) \in Nat
         /\ sretTemp = NeedSretTemp
         /\ \A k \in DOMAIN infov : HasSlots(infov, k) =>
              \A j \in 1..Len(infov[k].abiTypes) :
                llargs[infov[k].sigOffset + j].from = OwnerOf(k, j)
<1>1. /\ OracleInv /\ EntryShapes /\ Analyzed /\ FunctionInv
      /\ llargs \in Seq(ActualType) /\ sretTemp = NeedSretTemp
      /\ Len(operands) = Len(sig.params) /\ Brought(infov, Len(operands) + 2, llargs)
  BY DEF CallInv, CalleeInv, Marshalling, Marshalled
<1>2. Len(llargs) = Len(elems)
  BY MarshalledMatches DEF CallMatchesSignature
<1>3. elems \in Seq(SlotType) /\ Len(elems) \in Nat
  BY <1>1, OracleFacts, LenProperties DEF Walked
<1>4. DOMAIN infov = 1..Len(operands) + 2 /\ Len(operands) \in Nat
  BY <1>1, OracleFacts
<1>5. \A k \in DOMAIN infov : k <= Len(operands) + 2
  BY <1>4
<1>6. QED
  BY <1>1, <1>2, <1>3, <1>5 DEF Brought

\* The attributes of the call are those abiSetup put on the arguments.
LEMMA AttributesOfBoth ==
  ASSUME CallInv
  PROVE  AttributesAgree
<1>1. ArgumentsAgree
  BY AttributesNamed DEF CallInv, CalleeInv
<1>2. ASSUME callStage = "done", stage # "new", Len(paramValues) = Len(sig.params)
      PROVE  callAttr = argAttr
  <2>1. Marshalled /\ callAttr = [i \in 1..Len(llargs) |-> AttrAt(i)]
    BY <1>2 DEF Marshalled, CallInv, Marshalling
  <2>2. /\ OracleInv /\ EntryShapes /\ Analyzed /\ FunctionInv
        /\ Len(llargs) = Len(elems)
    BY <2>1, MarshalledFacts
  <2>3. /\ sig.cabi /\ argAttr = [i \in 1..Len(elems) |-> argAttr[i]]
        /\ Attributed(infov, Len(sig.params) + 2, argAttr)
    BY <1>2, <2>2 DEF FunctionInv, Constructed
  <2>4. ASSUME NEW i \in 1..Len(elems) PROVE AttrAt(i) = argAttr[i]
    <3>1. PICK k \in DOMAIN infov : \E j \in 1..Len(infov[k].abiTypes) :
            HasSlots(infov, k) /\ i = infov[k].sigOffset + j
      BY <2>2, SlotOwner
    <3>2. PICK j \in 1..Len(infov[k].abiTypes) :
            HasSlots(infov, k) /\ i = infov[k].sigOffset + j
      BY <3>1
    <3>3. k <= Len(sig.params) + 2
      <4>1. DOMAIN infov = 1..Len(infov) /\ Len(infov) = Len(sig.params) + 2
            /\ Len(sig.params) \in Nat
        BY <2>2, OracleFacts
      <4>2. QED
        BY <4>1
    <3>4. argAttr[i] = infov[k].attr
      BY <2>3, <3>2, <3>3 DEF Attributed
    <3>5. AttrAt(i) = infov[k].attr
      BY <2>2, <2>3, <3>2, AttrAtIs
    <3>6. QED
      BY <3>4, <3>5
  <2>5. QED
    BY <2>1, <2>2, <2>3, <2>4
<1>3. QED
  BY <1>1, <1>2 DEF AttributesAgree

\* The caller looks for the result where it is: a void result is ignored, as it has
\* size 0.
LEMMA ResultOfBoth ==
  ASSUME CallInv
  PROVE  ResultArrives
<1> SUFFICES ASSUME callStage = "done", stage # "new"
             PROVE  CASE ReturnSequence \in {"nothing", "value"} -> result = "value"
                      [] ReturnSequence = "load" ->
                           result = "memory" /\ rtnValueMem = NoValue
                      [] ReturnSequence = "copy" -> /\ result = "memory"
                                                    /\ rtnValueMem = Argument(0)
                                                    /\ llargs[1].from.what = "sret"
  BY DEF ResultArrives
<1>1. Marshalled
  BY DEF Marshalled
<1>2. /\ OracleInv /\ EntryShapes /\ Analyzed /\ FunctionInv /\ sretTemp = NeedSretTemp
  BY <1>1, MarshalledFacts
<1>3. result = IF NeedSretTemp THEN "memory" ELSE "value"
  BY <1>2 DEF CallInv, Marshalling
<1>4. sig.cabi /\ rtnValueMem = (IF ReturnsInMemory THEN Argument(0) ELSE NoValue)
  BY <1>2 DEF FunctionInv, Constructed
<1>5. /\ ReturnInfo = infov[1] /\ 1 \in DOMAIN infov /\ ReturnShape(sig, infov[1])
      /\ infov[1].disp \in {"direct", "ignore", "indirect"}
  BY <1>2, <1>4, FirstFacts, OracleFacts, InfoParts
     DEF EntryShapes, Shapes, Shape, ReturnInfo
<1>6. infov[1].disp = Disposition(sig.result)
  BY <1>4, <1>5 DEF ReturnShape
<1>7. sig.result = Void => ReturnInfo.disp = "ignore"
  BY <1>5, <1>6, TypeAssumption DEF Disposition
<1>8. CASE ReturnInfo.disp = "ignore"
  <2>1. ReturnSequence = "nothing" /\ ~NeedSretTemp
    BY <1>8 DEF ReturnSequence, NeedSretTemp
  <2>2. QED
    BY <1>3, <2>1
<1>9. CASE ReturnInfo.disp = "indirect"
  <2>1. ReturnSequence = "copy" /\ NeedSretTemp
    BY <1>7, <1>9 DEF ReturnSequence, NeedSretTemp
  <2>2. ReturnsInMemory /\ rtnValueMem = Argument(0)
    BY <1>4, <1>9 DEF ReturnsInMemory
  <2>3. /\ HasSlots(infov, 1) /\ infov[1].sigOffset = 0 /\ Len(infov[1].abiTypes) = 1
        /\ 1 \in DOMAIN infov
    BY <1>2, <1>4, <2>2, FirstFacts
  <2>4. 1 \in 1..Len(infov[1].abiTypes) /\ infov[1].sigOffset + 1 = 1
    BY <2>3
  <2>5. llargs[1].from = OwnerOf(1, 1)
    BY <1>1, <2>3, <2>4, MarshalledFacts
  <2>6. llargs[1].from.what = "sret"
    BY <2>5 DEF OwnerOf, Owner
  <2>7. QED
    BY <1>3, <2>1, <2>2, <2>6
<1>10. CASE ReturnInfo.disp = "direct"
  <2>1. ReturnSequence = IF NeedSretTemp THEN "load" ELSE "value"
    BY <1>7, <1>10 DEF ReturnSequence, NeedSretTemp
  <2>2. rtnValueMem = NoValue
    BY <1>4, <1>10 DEF ReturnsInMemory
  <2>3. QED
    BY <1>3, <2>1, <2>2
<1>11. QED
  BY <1>5, <1>8, <1>9, <1>10

\* A store of the prolog reads the argument its entry has, which is the caller's value.
LEMMA StoreReads ==
  ASSUME CallInv, Marshalled, NEW k \in DOMAIN infov, HasSlots(infov, k),
         NEW j \in 1..Len(infov[k].abiTypes), NEW chain, NEW values,
         NEW inst, inst = StoreOf(infov, k, j, chain, values)
  PROVE  /\ inst.op = "store" /\ inst.val = SpillPlace(k, chain, values) /\ inst.piece = j
         /\ llargs[inst.arg + 1].from = OwnerOf(k, j)
<1>1. OracleInv /\ Analyzed
  BY MarshalledFacts
<1>2. llargs[infov[k].sigOffset + j].from = OwnerOf(k, j)
  BY MarshalledFacts
<1>3. infov[k].sigOffset \in Nat /\ j \in Nat
  <2>1. infov[k].sigOffset \in Nat
    BY <1>1, SlotPlace
  <2>2. infov \in Seq(InfoType)
    BY <1>1, OracleFacts
  <2>3. Len(infov[k].abiTypes) \in Nat
    BY <2>2, InfoParts
  <2>4. QED
    BY <2>1, <2>3
<1>4. infov[k].sigOffset + j - 1 + 1 = infov[k].sigOffset + j
  BY <1>3
<1>5. inst.arg = infov[k].sigOffset + j - 1
  BY DEF StoreOf, Inst
<1>6. QED
  BY <1>2, <1>4, <1>5 DEF StoreOf, Inst

\* Only the chain is spilled into the chain's slot: the others have allocas of theirs.
LEMMA ChainOfItsOwn ==
  ASSUME CallInv, Compiled, NEW k \in DOMAIN infov, Spilled(infov, k),
         SpillPlace(k, chainVal, paramValues) = chainVal
  PROVE  k = 2
<1>1. OracleInv /\ EntryShapes /\ FunctionInv /\ stage # "new"
  BY DEF CallInv, CalleeInv, Compiled
<1>2. /\ Analyzed /\ sig.cabi /\ Len(paramValues) = Len(sig.params)
      /\ chainVal = Argument(ChainInfo.sigOffset) \/ MadeFor(chainVal, Chain, allocas)
      /\ \A p \in 1..Len(paramValues) : Placed(infov, p, paramValues[p], allocas)
  BY <1>1 DEF FunctionInv, Constructed, PrologMade, Compiled
<1> SUFFICES ASSUME k # 2 PROVE FALSE
  OBVIOUS
<1> DEFINE p == k - 2
<1>3. p \in 1..Len(sig.params) /\ p + 2 = k
  <2>1. /\ DOMAIN infov = 1..Len(infov) /\ Len(infov) = Len(sig.params) + 2
        /\ Len(sig.params) \in Nat
    BY <1>1, <1>2, OracleFacts
  <2>2. k >= 2
    BY DEF Spilled
  <2>3. QED
    BY <2>1, <2>2
<1>4. paramValues[p] = chainVal
  BY DEF SpillPlace
<1> HIDE DEF p
<1>5. MadeFor(chainVal, Param(p), allocas)
  <2>1. Placed(infov, p, paramValues[p], allocas) /\ infov[p + 2].disp = "direct"
    BY <1>2, <1>3 DEF Spilled
  <2>2. QED
    BY <1>4, <2>1 DEF Placed
<1>6. PICK a \in 1..Len(allocas) : chainVal = Alloca(a) /\ allocas[a] = Param(p)
  BY <1>5 DEF MadeFor
<1>7. chainVal.v = "alloca" /\ chainVal.i = a
  BY <1>6 DEF Alloca, Value
<1>8. Argument(ChainInfo.sigOffset).v = "argument"
  BY DEF Argument, Value
<1>9. PICK b \in 1..Len(allocas) : chainVal = Alloca(b) /\ allocas[b] = Chain
  BY <1>2, <1>7, <1>8 DEF MadeFor
<1>10. b = a
  BY <1>7, <1>9 DEF Alloca, Value
<1>11. Param(p).what = "param" /\ Chain.what = "chain"
  BY DEF Param, Chain, Owner
<1>12. QED
  BY <1>6, <1>9, <1>10, <1>11

\* Every value the caller passes is spilled, read or copied where the callee has it.
LEMMA ArgumentsOfBoth ==
  ASSUME CallInv
  PROVE  ArgumentsArrive
<1>1. ParametersSpilled
  BY PrologSpills DEF CallInv, CalleeInv
<1> SUFFICES ASSUME Marshalled, Compiled
    PROVE  /\ \A p \in Params :
                CASE ParamInfo(p).disp = "direct" ->
                       \A j \in 1..Len(ParamInfo(p).abiTypes) : \E i \in DOMAIN entry :
                         /\ entry[i].op = "store"
                         /\ entry[i].val = paramValues[p] /\ entry[i].piece = j
                         /\ llargs[entry[i].arg + 1].from = Owner("param", p, j)
                  [] ParamInfo(p).disp = "indirect" ->
                       llargs[paramValues[p].i + 1].from = Owner("param", p, 1)
                  [] OTHER -> TRUE
           /\ \A i \in DOMAIN entry : entry[i].op = "store" /\ entry[i].val = chainVal =>
                llargs[entry[i].arg + 1].from = Chain
           /\ ReturnsInMemory => llargs[rtnValueMem.i + 1].from = Owner("sret", 0, 0)
  BY <1>1 DEF ArgumentsArrive
<1>2. /\ OracleInv /\ EntryShapes /\ Analyzed /\ FunctionInv
      /\ \A k \in DOMAIN infov : HasSlots(infov, k) =>
           \A j \in 1..Len(infov[k].abiTypes) :
             llargs[infov[k].sigOffset + j].from = OwnerOf(k, j)
  BY MarshalledFacts
<1>3. /\ sig.cabi /\ Len(paramValues) = Len(sig.params)
      /\ rtnValueMem = IF ReturnsInMemory THEN Argument(0) ELSE NoValue
      /\ \A p \in 1..Len(paramValues) : Placed(infov, p, paramValues[p], allocas)
  BY <1>2 DEF FunctionInv, Constructed, PrologMade, Compiled
<1>4. /\ entry \in Seq(InstType) /\ OnlySpills(infov, entry, chainVal, paramValues)
      /\ \A p \in Params : ParamInfo(p).disp = "direct" =>
           SpilledIn(infov, p, entry, chainVal, paramValues, Len(allocas), initializer[p])
  BY <1>2 DEF FunctionInv, PrologMade, Compiled
<1>5. DOMAIN entry = 1..Len(entry)
  BY <1>4, LenProperties
<1>6. ASSUME NEW p \in Params, ParamInfo(p).disp = "direct",
             NEW j \in 1..Len(ParamInfo(p).abiTypes)
      PROVE  \E i \in DOMAIN entry :
               /\ entry[i].op = "store"
               /\ entry[i].val = paramValues[p] /\ entry[i].piece = j
               /\ llargs[entry[i].arg + 1].from = Owner("param", p, j)
  <2>1. /\ p + 2 \in DOMAIN infov /\ p + 2 # 1 /\ p + 2 # 2 /\ (p + 2) - 2 = p
        /\ ParamInfo(p) = infov[p + 2]
        /\ HasSlots(infov, p + 2)
    BY <1>2, <1>3, <1>6, ParamFacts DEF Params
  <2> DEFINE k == p + 2
  <2>2. k \in DOMAIN infov /\ HasSlots(infov, k) /\ j \in 1..Len(infov[k].abiTypes)
    BY <1>6, <2>1
  <2>3. SpillPlace(k, chainVal, paramValues) = paramValues[p]
        /\ OwnerOf(k, j) = Owner("param", p, j)
    BY <2>1 DEF SpillPlace, OwnerOf
  <2>4. PICK i \in 1..Len(entry) : entry[i] = StoreOf(infov, k, j, chainVal, paramValues)
    BY <1>4, <1>6, <2>2 DEF SpilledIn
  <2> HIDE DEF k
  <2>5. /\ entry[i].op = "store" /\ entry[i].val = SpillPlace(k, chainVal, paramValues)
        /\ entry[i].piece = j /\ llargs[entry[i].arg + 1].from = OwnerOf(k, j)
    BY <2>2, <2>4, StoreReads
  <2>6. QED
    BY <1>5, <2>3, <2>5
<1>7. ASSUME NEW p \in Params, ParamInfo(p).disp = "indirect"
      PROVE  llargs[paramValues[p].i + 1].from = Owner("param", p, 1)
  <2>1. /\ p + 2 \in DOMAIN infov /\ p + 2 # 1 /\ p + 2 # 2 /\ (p + 2) - 2 = p
        /\ ParamInfo(p) = infov[p + 2]
        /\ HasSlots(infov, p + 2) /\ Len(infov[p + 2].abiTypes) = 1
    BY <1>2, <1>3, <1>7, ParamFacts DEF Params
  <2>2. paramValues[p] = Argument(infov[p + 2].sigOffset)
    BY <1>3, <1>7, <2>1 DEF Placed, Params
  <2>3. paramValues[p].i = infov[p + 2].sigOffset
    BY <2>2 DEF Argument, Value
  <2>4. 1 \in 1..Len(infov[p + 2].abiTypes)
    BY <2>1
  <2>5. llargs[infov[p + 2].sigOffset + 1].from = OwnerOf(p + 2, 1)
    BY <1>2, <2>1, <2>4
  <2>6. OwnerOf(p + 2, 1) = Owner("param", p, 1)
    BY <2>1 DEF OwnerOf
  <2>7. QED
    BY <2>3, <2>5, <2>6
<1>8. ASSUME NEW i \in DOMAIN entry, entry[i].op = "store", entry[i].val = chainVal
      PROVE  llargs[entry[i].arg + 1].from = Chain
  <2>1. PICK k \in DOMAIN infov :
          /\ Spilled(infov, k)
          /\ \E j \in 1..Len(infov[k].abiTypes) :
               entry[i] = StoreOf(infov, k, j, chainVal, paramValues)
    BY <1>4, <1>5, <1>8 DEF OnlySpills
  <2>2. PICK j \in 1..Len(infov[k].abiTypes) :
          entry[i] = StoreOf(infov, k, j, chainVal, paramValues)
    BY <2>1
  <2>3. SpillPlace(k, chainVal, paramValues) = chainVal
    BY <1>8, <2>2 DEF StoreOf, Inst
  <2>4. k = 2
    BY <2>1, <2>3, ChainOfItsOwn
  <2>5. HasSlots(infov, k)
    BY <1>2, <1>3, <2>4, FirstFacts
  <2>6. llargs[entry[i].arg + 1].from = OwnerOf(k, j)
    BY <2>2, <2>5, StoreReads
  <2>7. QED
    BY <2>4, <2>6 DEF OwnerOf
<1>9. ASSUME ReturnsInMemory PROVE llargs[rtnValueMem.i + 1].from = Owner("sret", 0, 0)
  <2>1. /\ 1 \in DOMAIN infov /\ HasSlots(infov, 1)
        /\ infov[1].sigOffset = 0 /\ Len(infov[1].abiTypes) = 1
    BY <1>2, <1>3, <1>9, FirstFacts
  <2>2. 1 \in 1..Len(infov[1].abiTypes) /\ infov[1].sigOffset + 1 = 1
    BY <2>1
  <2>3. llargs[1].from = OwnerOf(1, 1)
    BY <1>2, <2>1, <2>2
  <2>4. rtnValueMem.i + 1 = 1
    BY <1>3, <1>9 DEF Argument, Value
  <2>5. QED
    BY <2>3, <2>4 DEF OwnerOf
<1>10. QED
  BY <1>6, <1>7, <1>8, <1>9

-----------------------------------------------------------------------------
(* The theorems.                                                            *)

\* The values genCallProlog and genCallMarshallArgs push are those the LLVM function
\* type asks for, in number, order and type, whatever the types and the function are.
THEOREM CallsMatchSignatures == ProgramSpec => []CallMatchesSignature
BY MarshalledMatches, CallInitInv, CallNextInv, PTL DEF ProgramSpec

\* The call site only reads what the oracle and the callee keep: with calls, a function
\* is built as it is without them, and what is proved of it holds next to its calls.
THEOREM CalleeUndisturbed == ProgramSpec => Spec
<1>1. ProgramInit => Init
  BY DEF ProgramInit
<1>2. [ProgramNext]_programVars => [Next]_vars
  BY ProgramStepsOracle
<1>3. QED
  BY <1>1, <1>2, PTL DEF ProgramSpec, Spec

\* A caller and a callee that are built in any order do not disturb the oracle's offsets.
THEOREM ProgramOffsetsMatch == ProgramSpec => []SlotsMatchOffsets
<1>1. CallInv => SlotsMatchOffsets
  BY FilledMatches DEF CallInv, CalleeInv
<1>2. QED
  BY <1>1, CallInitInv, CallNextInv, PTL DEF ProgramSpec

\* genCallMarshallArgs and the callee's genProlog, each walking infov_ by itself, agree:
\* every value a call passes ends up in the spill slot, is the argument or is the place
\* of the result that the callee has for it, whatever the types and the function are.
THEOREM CallsArrive == ProgramSpec => []ArgumentsArrive
BY ArgumentsOfBoth, CallInitInv, CallNextInv, PTL DEF ProgramSpec

\* genCallAttributes and abiSetup put the same attributes on the same arguments.
THEOREM AttributesMatch == ProgramSpec => []AttributesAgree
BY AttributesOfBoth, CallInitInv, CallNextInv, PTL DEF ProgramSpec

\* genCallEpilog finds the result where genReturnSequence leaves it.
THEOREM ResultsArrive == ProgramSpec => []ResultArrives
BY ResultOfBoth, CallInitInv, CallNextInv, PTL DEF ProgramSpec
=============================================================================

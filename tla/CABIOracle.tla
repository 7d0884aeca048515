------------------------------ MODULE CABIOracle ------------------------------
(***************************************************************************)
(* CABIOracle of go-llvm-cabi-oracle.cpp: from the parameter and result     *)
(* types of a function to the signature of its LLVM function.  For every    *)
(* parameter it decides whether it is ignored, passed in one or two pieces, *)
(* or passed in memory, at which slot of the signature it starts, and which *)
(* registers are left for those that follow.                                *)
(*                                                                          *)
(* Of a type only its size, the registers its eightbytes need and its       *)
(* extension attribute matter here; EightBytes shows where these come from. *)
(***************************************************************************)
EXTENDS Integers, Sequences, FiniteSets

CONSTANTS
  Type,
  Void,       \* the type of no result
  Size,       \* bytes of an object of a type
  Regions,    \* registers of its eightbytes, when it has at most 16 bytes
  Extension,  \* attribute of a small integer
  Aggregate,  \* whether the LLVM type is a struct or an array
  Signature   \* the functions considered

Flavors == {"int", "sse"}

ASSUME TypeAssumption ==
  /\ Void \in Type
  /\ Size \in [Type -> Nat] /\ Size[Void] = 0
  /\ Regions \in [Type -> Seq(Flavors)]
  /\ \A t \in Type : Size[t] \in 1..16 => Len(Regions[t]) \in {1, 2}
  /\ Extension \in [Type -> {"none", "zext", "sext"}]
  /\ \A t \in Type : Len(Regions[t]) = 2 => Extension[t] = "none"
  /\ Aggregate \in [Type -> BOOLEAN]

ASSUME SignatureAssumption ==
  Signature \subseteq [params : Seq(Type), result : Type, cabi : BOOLEAN]

\* LLVM types in a signature: the j-th piece of a type, the struct of its two
\* pieces, a pointer to it, or the type itself; the untyped pointer of the chain.
Slot(k, t, j) == [k |-> k, t |-> t, j |-> j]
Piece(t, j) == Slot("piece", t, j)
BothPieces(t) == Slot("both", t, 0)
PointerTo(t) == Slot("pointer", t, 0)
Whole(t) == Slot("whole", t, 0)
ChainPointer == Slot("chain", Void, 0)

SlotType == [k : {"piece", "both", "pointer", "whole", "chain"}, t : Type, j : 0..2]

\* CABIParamInfo; a sigOffset of -1 means no slot of the signature.
Info(abiTypes, disp, attr, sigOffset) ==
  [abiTypes |-> abiTypes, disp |-> disp, attr |-> attr, sigOffset |-> sigOffset]

InfoType ==
  [abiTypes : Seq(SlotType), disp : {"direct", "ignore", "indirect"},
   attr : {"none", "sret", "byval", "nest", "zext", "sext"}, sigOffset : Int]

VARIABLES
  sig,       \* the function type
  phase,     \* what analyze does next
  infov,     \* infov_: the result, the chain, and the parameters
  availInt,  \* availIntRegs_ of ABIState
  availSSE,  \* availSSERegs_
  argCount,  \* argCount_
  elems,     \* parameter types of fcnTypeForABI_
  emitted    \* entries of infov_ that are in elems

oracleVars == <<sig, phase, infov, availInt, availSSE, argCount, elems, emitted>>

OracleInit ==
  /\ sig \in Signature
  /\ phase = IF sig.cabi THEN "return" ELSE "raw"
  /\ infov = <<>>
  /\ availInt = 6
  /\ availSSE = 8
  /\ argCount = 0
  /\ elems = <<>>
  /\ emitted = 0

Less(regs) == IF regs > 0 THEN regs - 1 ELSE 0

\* classifyArgType
Disposition(t) ==
  IF Size[t] = 0 THEN "ignore" ELSE IF Size[t] <= 16 THEN "direct" ELSE "indirect"

IgnoredInfo == Info(<<Whole(Void)>>, "ignore", "none", -1)

\* analyzeABIReturn: a result in memory takes the first register for the address
\* of its place, the first slot of the signature.
AnalyzeReturn ==
  /\ phase = "return"
  /\ LET t == sig.result IN
     \/ /\ Disposition(t) = "ignore"
        /\ infov' = <<IgnoredInfo>>
        /\ UNCHANGED <<availInt, argCount>>
     \/ /\ Disposition(t) = "indirect"
        /\ infov' = <<Info(<<PointerTo(t)>>, "indirect", "sret", 0)>>
        /\ availInt' = Less(availInt)
        /\ argCount' = argCount + 1
     \/ /\ Disposition(t) = "direct"
        /\ infov' = <<Info(<<IF Len(Regions[t]) = 1 THEN Piece(t, 1)
                                                    ELSE BothPieces(t)>>,
                           "direct", Extension[t], -1)>>
        /\ UNCHANGED <<availInt, argCount>>
  /\ phase' = "chain"
  /\ UNCHANGED <<sig, availSSE, elems, emitted>>

\* analyze: the static chain has a slot, and a register no parameter uses.
AnalyzeChain ==
  /\ phase = "chain"
  /\ infov' = Append(infov, Info(<<ChainPointer>>, "direct", "nest", argCount))
  /\ argCount' = argCount + 1
  /\ phase' = "params"
  /\ UNCHANGED <<sig, availInt, availSSE, elems, emitted>>

\* EightByteInfo::getRegisterRequirements
Needed(t, flavor) ==
  (IF Regions[t][1] = flavor THEN 1 ELSE 0)
  + (IF Len(Regions[t]) = 2 /\ Regions[t][2] = flavor THEN 1 ELSE 0)

\* Mutant of CanPassDirectly: one register of each kind that is needed suffices.
CanPassDirectlyOne(t) ==
  /\ Needed(t, "int") > 0 => availInt > 0
  /\ Needed(t, "sse") > 0 => availSSE > 0

\* canPassDirectly: two eightbytes need all of their registers; one may also go
\* to the stack by itself.
CanPassDirectly(t) ==
  \/ Needed(t, "int") + Needed(t, "sse") = 1
  \/ Needed(t, "int") <= availInt /\ Needed(t, "sse") <= availSSE

AtLeastZero(x) == IF x < 0 THEN 0 ELSE x

InMemory(t) == Info(<<PointerTo(t)>>, "indirect", "byval", argCount)

\* Mutant of SlotsTaken: an object takes one slot, whatever its pieces.
SlotsTakenOne(t) == 1

\* addDirectIntArg and addDirectSSEArg, for each piece of a direct parameter.
SlotsTaken(t) == Len(Regions[t])

\* analyzeABIParam, for the next parameter.
AnalyzeParam ==
  /\ phase = "params" /\ Len(infov) < Len(sig.params) + 2
  /\ LET t == sig.params[Len(infov) - 1]
         direct == Disposition(t) = "direct" /\ CanPassDirectly(t)
     IN
     \/ /\ Disposition(t) = "ignore"
        /\ infov' = Append(infov, IgnoredInfo)
        /\ UNCHANGED <<availInt, availSSE, argCount>>
     \/ /\ Disposition(t) # "ignore" /\ ~direct
        /\ infov' = Append(infov, InMemory(t))
        /\ argCount' = argCount + 1
        /\ UNCHANGED <<availInt, availSSE>>
     \/ /\ direct
        /\ infov' = Append(infov, Info([j \in 1..Len(Regions[t]) |-> Piece(t, j)],
                                       "direct", Extension[t], argCount))
        /\ availInt' = AtLeastZero(availInt - Needed(t, "int"))
        /\ availSSE' = AtLeastZero(availSSE - Needed(t, "sse"))
        /\ argCount' = argCount + SlotsTaken(t)
  /\ UNCHANGED <<sig, phase, elems, emitted>>

\* analyze, the signature: the address of a result in memory comes first.
BuildReturn ==
  /\ phase = "params" /\ Len(infov) = Len(sig.params) + 2
  /\ elems' = IF infov[1].disp = "indirect" THEN infov[1].abiTypes ELSE <<>>
  /\ emitted' = 1
  /\ phase' = "type"
  /\ UNCHANGED <<sig, infov, availInt, availSSE, argCount>>

\* Mutant of SlotsOf: an ignored parameter leaves a slot.
SlotsOfIgnored(info) == info.abiTypes

\* What the chain or a parameter adds to the signature.
SlotsOf(info) == IF info.disp = "ignore" THEN <<>> ELSE info.abiTypes

BuildParam ==
  /\ phase = "type" /\ emitted < Len(infov)
  /\ elems' = elems \o SlotsOf(infov[emitted + 1])
  /\ emitted' = emitted + 1
  /\ UNCHANGED <<sig, phase, infov, availInt, availSSE, argCount>>

BuildType ==
  /\ phase = "type" /\ emitted = Len(infov)
  /\ phase' = "done"
  /\ UNCHANGED <<sig, infov, availInt, availSSE, argCount, elems, emitted>>

\* analyzeRaw, for builtin functions: everything is passed as it is.
AnalyzeRaw ==
  /\ phase = "raw"
  /\ LET n == Len(sig.params) IN
     /\ infov' = [i \in 1..(n + 2) |->
                    CASE i = 1 -> Info(<<Whole(sig.result)>>, "direct", "none", -1)
                      [] i = 2 -> Info(<<ChainPointer>>, "ignore", "nest", -1)
                      [] OTHER -> Info(<<Whole(sig.params[i - 2])>>, "direct",
                                       "none", i - 3)]
     /\ elems' = [i \in 1..n |-> Whole(sig.params[i])]
     /\ emitted' = n + 2
  /\ phase' = "done"
  /\ UNCHANGED <<sig, availInt, availSSE, argCount>>

OracleNext == AnalyzeReturn \/ AnalyzeChain \/ AnalyzeParam \/ BuildReturn
              \/ BuildParam \/ BuildType \/ AnalyzeRaw

OracleSpec == OracleInit /\ [][OracleNext]_oracleVars

-----------------------------------------------------------------------------
(* What the answers of the oracle are read with.                            *)

Analyzed == phase = "done"
ReturnInfo == infov[1]
ChainInfo == infov[2]
ParamInfo(p) == infov[p + 2]
Params == 1..Len(sig.params)

\* The slots (from 0) that entry i of infov_ has in the signature.
SlotRange(i) ==
  IF infov[i].disp = "ignore" \/ infov[i].sigOffset < 0 THEN {}
  ELSE infov[i].sigOffset..(infov[i].sigOffset + Len(infov[i].abiTypes) - 1)

-----------------------------------------------------------------------------
(* Properties.                                                              *)

OracleTypeOK ==
  /\ sig \in Signature
  /\ phase \in {"return", "chain", "params", "type", "raw", "done"}
  /\ infov \in Seq(InfoType)
  /\ Len(infov) <= Len(sig.params) + 2
  /\ availInt \in 0..6 /\ availSSE \in 0..8
  /\ argCount \in Nat
  /\ elems \in Seq(SlotType)
  /\ emitted \in 0..Len(infov)

\* The offsets the oracle hands out and the signature it builds in another loop
\* agree: every slot belongs to exactly one of the result, the chain and the
\* parameters, and has the type of that piece.
SlotsMatchOffsets ==
  Analyzed =>
    /\ \A i, j \in DOMAIN infov : i # j => SlotRange(i) \cap SlotRange(j) = {}
    /\ UNION {SlotRange(i) : i \in DOMAIN infov} = 0..(Len(elems) - 1)
    /\ \A i \in DOMAIN infov : \A s \in SlotRange(i) :
         elems[s + 1] = infov[i].abiTypes[s - infov[i].sigOffset + 1]

\* Where LLVM's calling convention puts a slot: the chain has a register of its own
\* and an object in memory (byval) is on the stack; other pointers and integers are
\* in six registers, floating point in eight, in the order of the signature.
ByValSlots == UNION {SlotRange(i) : i \in {q \in DOMAIN infov : infov[q].attr = "byval"}}
InIntRegister(s) ==
  LET e == elems[s + 1] IN
  \/ e.k = "pointer" /\ s \notin ByValSlots
  \/ e.k = "piece" /\ Regions[e.t][e.j] = "int"
InSSERegister(s) ==
  LET e == elems[s + 1] IN e.k = "piece" /\ Regions[e.t][e.j] = "sse"

TakenBefore(In(_), s) == Cardinality({r \in 0..(s - 1) : In(r)})
Fits(need, taken, registers) == need = 0 \/ need + taken <= registers

\* An object of two eightbytes is passed in two pieces exactly when both get the
\* register they need from LLVM, so it is never split between registers and stack:
\* what ABIState counts down is what the signature it leads to makes LLVM allocate.
PiecesStayTogether ==
  Analyzed /\ sig.cabi =>
    \A p \in Params :
      LET t == sig.params[p]
          s == ParamInfo(p).sigOffset
      IN  Size[t] \in 1..16 /\ Len(Regions[t]) = 2 =>
            (ParamInfo(p).disp = "direct" <=>
               /\ Fits(Needed(t, "int"), TakenBefore(InIntRegister, s), 6)
               /\ Fits(Needed(t, "sse"), TakenBefore(InSSERegister, s), 8))
=============================================================================

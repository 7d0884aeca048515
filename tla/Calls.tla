--------------------------------- MODULE Calls ---------------------------------
(***************************************************************************)
(* The call site: genCallProlog, genCallMarshallArgs, genCallAttributes and *)
(* genCallEpilog of go-llvm.cpp, composed with the callee that Bfunction    *)
(* builds.  Caller and callee each ask an oracle of their own about the     *)
(* same function type and count the slots in loops of their own; they are   *)
(* built in either order.                                                   *)
(***************************************************************************)
EXTENDS Bfunction

VARIABLES
  callStage,  \* "none", "args", "call", "epilog", "done"
  llargs,     \* llargs of GenCallState: where each value comes from, and its type
  operands,   \* resolvedArgs: the arguments that are evaluated, in order
  sretTemp,   \* whether there is a temporary for the result
  callAttr,   \* attributes of the call's arguments
  result      \* where the value of the call is found: "value" of the call, or "memory"

callVars == <<callStage, llargs, operands, sretTemp, callAttr, result>>

Actual(from, slot) == [from |-> from, slot |-> slot]

CallInit ==
  /\ callStage = "none"
  /\ llargs = <<>> /\ operands = <<>> /\ callAttr = <<>>
  /\ sretTemp = FALSE
  /\ result = "none"

IsAggregateSlot(s) == s.k = "both" \/ (s.k = "whole" /\ Aggregate[s.t])

\* Mutant of NeedSretTemp: only the ABI type of the result is looked at.
NeedSretTempABI ==
  /\ ReturnInfo.disp # "ignore"
  /\ ReturnInfo.disp = "indirect" \/ IsAggregateSlot(ReturnInfo.abiTypes[1])

\* needSretTemp
NeedSretTemp ==
  /\ ReturnInfo.disp # "ignore"
  /\ \/ ReturnInfo.disp = "indirect"
     \/ IsAggregateSlot(ReturnInfo.abiTypes[1])
     \/ Aggregate[sig.result]

\* genCallProlog: the address of the result's place, and the chain, which is
\* undefined if the call has no closure, come first.
GenCallProlog ==
  /\ callStage = "none" /\ Analyzed
  /\ sretTemp' = NeedSretTemp
  /\ llargs' = (IF ReturnInfo.disp = "indirect"
                THEN <<Actual(Owner("sret", 0, 0), PointerTo(sig.result))>> ELSE <<>>)
               \o (IF ChainInfo.disp # "ignore"
                   THEN <<Actual(Chain, ChainPointer)>> ELSE <<>>)
  /\ callStage' = "args"
  /\ UNCHANGED <<operands, callAttr, result>>

\* Mutant of Actuals: the second piece is loaded from the field of the first.
ActualsFirst(p, info) ==
  IF info.disp = "ignore" THEN <<>>
  ELSE [j \in 1..Len(info.abiTypes) |->
          Actual(Owner("param", p, 1), info.abiTypes[j])]

\* genCallMarshallArgs: the values of an argument; its address when it is passed in
\* memory.
Actuals(p, info) ==
  IF info.disp = "ignore" THEN <<>>
  ELSE [j \in 1..Len(info.abiTypes) |->
          Actual(Owner("param", p, j), info.abiTypes[j])]

\* An argument that is ignored is still evaluated.
MarshallArg ==
  /\ callStage = "args" /\ Len(operands) < Len(sig.params)
  /\ LET p == Len(operands) + 1 IN
     /\ llargs' = llargs \o Actuals(p, ParamInfo(p))
     /\ operands' = Append(operands, p)
  /\ UNCHANGED <<callStage, sretTemp, callAttr, result>>

MarshallEnd ==
  /\ callStage = "args" /\ Len(operands) = Len(sig.params)
  /\ callStage' = "call"
  /\ UNCHANGED <<llargs, operands, sretTemp, callAttr, result>>

\* Mutant of AttrSlot: the address of a result in memory is not counted.
AttrSlotPast(info) == IF ReturnsInMemory THEN info.sigOffset ELSE info.sigOffset + 1

\* The position of an argument attribute; position 0 would be the call's result.
AttrSlot(info) == info.sigOffset + 1

\* genCallAttributes: the attribute of the last entry that has one for position i.
AttrAt(i) ==
  LET marked == {p \in Params : /\ ParamInfo(p).disp # "ignore"
                                /\ ParamInfo(p).attr # "none"
                                /\ AttrSlot(ParamInfo(p)) = i}
  IN  CASE marked # {} -> ParamInfo(CHOOSE p \in marked : TRUE).attr
        [] marked = {} /\ ChainInfo.disp # "ignore" /\ AttrSlot(ChainInfo) = i -> "nest"
        [] marked = {} /\ ReturnsInMemory /\ i = 1 -> "sret"
        [] OTHER -> "none"

CreateCall ==
  /\ callStage = "call"
  /\ callAttr' = [i \in 1..Len(llargs) |-> AttrAt(i)]
  /\ callStage' = "epilog"
  /\ UNCHANGED <<llargs, operands, sretTemp, result>>

\* genCallEpilog: with a temporary, the value of the expression is in it, a direct
\* result is first stored there.
GenCallEpilog ==
  /\ callStage = "epilog"
  /\ result' = IF sretTemp THEN "memory" ELSE "value"
  /\ callStage' = "done"
  /\ UNCHANGED <<llargs, operands, sretTemp, callAttr>>

\* Bfunction::genReturnSequence: what the ret instruction of the callee returns;
\* "load" reads it, as the ABI type, from the memory the result is in.
ReturnSequence ==
  IF ReturnInfo.disp = "ignore" \/ sig.result = Void THEN "nothing"
  ELSE IF ReturnInfo.disp = "indirect" THEN "copy"
  ELSE IF ~IsAggregateSlot(ReturnInfo.abiTypes[1]) /\ ~Aggregate[sig.result]
       THEN "value" ELSE "load"

CallNext == GenCallProlog \/ MarshallArg \/ MarshallEnd \/ CreateCall \/ GenCallEpilog

programVars == <<vars, callVars>>

ProgramInit == Init /\ CallInit

ProgramNext == \/ Next /\ UNCHANGED callVars
               \/ CallNext /\ UNCHANGED vars

ProgramSpec == ProgramInit /\ [][ProgramNext]_programVars

-----------------------------------------------------------------------------
(* Properties.                                                              *)

Marshalled == callStage \in {"call", "epilog", "done"}
Compiled == stage \in {"prolog", "walked", "fixed", "declared"}

\* The values a call site pushes are those the LLVM function type asks for, in number
\* and type (CallInst::Create asserts it), and every argument is evaluated once.
CallMatchesSignature ==
  Marshalled =>
    /\ Len(llargs) = Len(elems)
    /\ \A i \in DOMAIN elems : llargs[i].slot = elems[i]
    /\ operands = [p \in Params |-> p]

\* What the caller passes is what the callee takes: each piece of an argument ends up
\* in the spill slot of the same parameter as the same piece, an object in memory is
\* the parameter's value, and the result's place is where the callee copies it.
ArgumentsArrive ==
  /\ ParametersSpilled
  /\ Marshalled /\ Compiled =>
    /\ \A p \in Params :
         CASE ParamInfo(p).disp = "direct" ->
                \A j \in 1..Len(ParamInfo(p).abiTypes) : \E i \in DOMAIN entry :
                  /\ entry[i].op = "store"
                  /\ entry[i].val = paramValues[p] /\ entry[i].piece = j
                  /\ llargs[entry[i].arg + 1].from = Owner("param", p, j)
           [] ParamInfo(p).disp = "indirect" ->
                llargs[paramValues[p].i + 1].from = Owner("param", p, 1)
           [] OTHER -> TRUE
    /\ \A i \in DOMAIN entry : entry[i].op = "store" /\ entry[i].val = chainVal =>
         llargs[entry[i].arg + 1].from = Chain
    /\ ReturnsInMemory => llargs[rtnValueMem.i + 1].from = Owner("sret", 0, 0)

\* The caller and the callee put the same attributes on the same arguments, or one
\* would pass on the stack what the other reads from a register.
AttributesAgree ==
  /\ ArgumentsAgree
  /\ callStage = "done" /\ stage # "new" /\ Len(paramValues) = Len(sig.params) =>
       callAttr = argAttr

\* The caller looks for the result where the callee's return sequence leaves it.
ResultArrives ==
  callStage = "done" /\ stage # "new" =>
    CASE ReturnSequence \in {"nothing", "value"} -> result = "value"
      [] ReturnSequence = "load" -> result = "memory" /\ rtnValueMem = NoValue
      [] ReturnSequence = "copy" -> /\ result = "memory"
                                    /\ rtnValueMem = Argument(0)
                                    /\ llargs[1].from.what = "sret"
=============================================================================

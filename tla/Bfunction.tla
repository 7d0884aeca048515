------------------------------- MODULE Bfunction -------------------------------
(***************************************************************************)
(* Bfunction of go-llvm-bfunction.cpp: the function that is being compiled. *)
(* The constructor gives each parameter a value, which is an argument of    *)
(* the LLVM function or a spill slot; the client registers variables; the   *)
(* prolog stores the arguments into the spill slots; and once the body has  *)
(* been walked every parameter must have an initializing instruction, which *)
(* debug information declares it behind.                                    *)
(***************************************************************************)
EXTENDS CABIOracle

CONSTANTS
  EntryCode,  \* what the walk of a body may leave in the entry block
  MaxAllocas  \* bound on local variables and temporaries

\* An instruction of the entry block; "op" is one of a body that is no terminator.
Inst(op, val, arg, piece) == [op |-> op, val |-> val, arg |-> arg, piece |-> piece]

\* LLVM values: the arguments (from 0) and the allocas (from 1) of the function.
Value(v, i) == [v |-> v, i |-> i]
Argument(i) == Value("argument", i)
Alloca(i) == Value("alloca", i)
NoValue == Value("none", 0)

Op == Inst("op", NoValue, 0, 0)
Terminator == Inst("terminator", NoValue, 0, 0)

ASSUME EntryAssumption ==
  /\ EntryCode \subseteq Seq({Op, Terminator})
  /\ \A code \in EntryCode : \A i \in DOMAIN code :
        code[i] = Terminator => i = Len(code)
  /\ MaxAllocas \in Nat

\* Who an argument or a variable belongs to: the result, the chain, the piece of a
\* parameter, a local variable.
Owner(what, p, j) == [what |-> what, p |-> p, j |-> j]
Param(p) == Owner("param", p, 0)
Chain == Owner("chain", 0, 0)
Unnamed == Owner("unnamed", 0, 0)

NoInst == 0

VARIABLES
  stage,        \* "new", "setup", "prolog", "walked", "fixed", "declared",
                \* "aborted": an assertion failed
  argIdx,       \* argIdx of abiSetup
  argName,      \* names of arguments_
  argAttr,      \* attributes of arguments_
  paramValues,  \* paramValues_
  chainVal,     \* chainVal_
  rtnValueMem,  \* rtnValueMem_
  allocas,      \* allocas_, and what each was made for
  valueVarMap,  \* valueVarMap_: the variable of a value
  registered,   \* paramsRegistered_
  entry,        \* the entry block
  initializer   \* Bvariable::initializer_ of the parameters: place in entry, or 0

functionVars == <<stage, argIdx, argName, argAttr, paramValues, chainVal, rtnValueMem,
                  allocas, valueVarMap, registered, entry, initializer>>

FunctionInit ==
  /\ stage = "new"
  /\ argIdx = 0
  /\ argName = <<>> /\ argAttr = <<>>
  /\ paramValues = <<>>
  /\ chainVal = NoValue /\ rtnValueMem = NoValue
  /\ allocas = <<>>
  /\ valueVarMap = [v \in {} |-> Unnamed]
  /\ registered = 0
  /\ entry = <<>>
  /\ initializer = <<>>

ReturnsInMemory == ReturnInfo.disp = "indirect"

\* abiSetup, the result and the chain.  It is not called for builtin functions.
AbiSetup ==
  /\ stage = "new" /\ Analyzed /\ sig.cabi
  /\ LET chain == IF ReturnsInMemory THEN 1 ELSE 0 IN
     /\ argName' = [i \in 1..Len(elems) |->
                      CASE i = chain + 1 -> Chain
                        [] i <= chain    -> Owner("sret", 0, 0)
                        [] OTHER         -> Unnamed]
     /\ argAttr' = [i \in 1..Len(elems) |->
                      CASE i = chain + 1 -> "nest"
                        [] i <= chain    -> "sret"
                        [] OTHER         -> "none"]
     /\ rtnValueMem' = IF ReturnsInMemory THEN Argument(0) ELSE NoValue
     /\ chainVal' = Argument(chain)
     /\ argIdx' = chain + 1
  /\ initializer' = [p \in Params |-> NoInst]
  /\ stage' = "setup"
  /\ UNCHANGED <<paramValues, allocas, valueVarMap, registered, entry>>

\* How far abiSetup moves argIdx for a parameter.
ArgsUsed(info) ==
  CASE info.disp = "ignore"   -> 0
    [] info.disp = "indirect" -> 1
    [] info.disp = "direct"   -> Len(info.abiTypes)

\* Mutant of AllocasFor: no alloca for what is not spilled.
AllocasForSpilled(info, p) ==
  IF info.disp = "direct" THEN Append(allocas, Param(p)) ELSE allocas

\* What addAlloca adds for a parameter: also an empty object has its variable.
AllocasFor(info, p) ==
  IF info.disp = "indirect" THEN allocas ELSE Append(allocas, Param(p))

\* abiSetup, the next parameter: an object in memory is its argument, everything
\* else has a spill slot.
AbiSetupParam ==
  /\ stage = "setup" /\ Len(paramValues) < Len(sig.params)
  /\ LET p == Len(paramValues) + 1
         info == ParamInfo(p)
     IN
     /\ paramValues' = Append(paramValues, IF info.disp = "indirect"
                                           THEN Argument(argIdx)
                                           ELSE Alloca(Len(allocas) + 1))
     /\ allocas' = AllocasFor(info, p)
     /\ argAttr' = IF info.disp # "ignore" /\ info.attr # "none"
                   THEN [argAttr EXCEPT ![argIdx + 1] = info.attr] ELSE argAttr
     /\ argIdx' = argIdx + ArgsUsed(info)
  /\ UNCHANGED <<stage, argName, chainVal, rtnValueMem, valueVarMap, registered,
                 entry, initializer>>

\* Between the constructor and the body: the client registers variables.
Open == stage = "setup" /\ Len(paramValues) = Len(sig.params)

WithVariable(val, owner) ==
  [v \in DOMAIN valueVarMap \cup {val} |-> IF v = val THEN owner ELSE valueVarMap[v]]

\* parameterVariable asserts that the value has no variable; the frontend calls it
\* for the parameters in order.  The arguments that carry it get names.
ParameterVariable ==
  /\ Open /\ registered < Len(sig.params)
  /\ LET p == registered + 1
         info == ParamInfo(p)
     IN
     /\ registered' = p
     /\ IF paramValues[p] \in DOMAIN valueVarMap
        THEN stage' = "aborted" /\ UNCHANGED <<valueVarMap, argName>>
        ELSE /\ valueVarMap' = WithVariable(paramValues[p], Param(p))
             /\ argName' = [i \in DOMAIN argName |->
                              IF i - 1 \in SlotRange(p + 2)
                              THEN Owner("param", p, i - info.sigOffset)
                              ELSE argName[i]]
             /\ UNCHANGED stage
  /\ UNCHANGED <<argIdx, argAttr, paramValues, chainVal, rtnValueMem, allocas, entry,
                 initializer>>

\* staticChainVariable asserts that the chain is still the argument: the client asks
\* for it once.
StaticChainVariable ==
  /\ Open /\ chainVal.v = "argument"
  /\ chainVal' = Alloca(Len(allocas) + 1)
  /\ allocas' = Append(allocas, Chain)
  /\ valueVarMap' = WithVariable(chainVal', Chain)
  /\ argName' = [argName EXCEPT ![ChainInfo.sigOffset + 1] = Chain]
  /\ UNCHANGED <<stage, argIdx, argAttr, paramValues, rtnValueMem, registered, entry,
                 initializer>>

MoreAllocas == Len(SelectSeq(allocas, LAMBDA a : a.what \in {"local", "temp"})) < MaxAllocas

LocalVariable ==
  /\ Open /\ MoreAllocas
  /\ allocas' = Append(allocas, Owner("local", 0, 0))
  /\ valueVarMap' = WithVariable(Alloca(Len(allocas) + 1), Owner("local", 0, 0))
  /\ UNCHANGED <<stage, argIdx, argName, argAttr, paramValues, chainVal, rtnValueMem,
                 registered, entry, initializer>>

CreateTemporary ==
  /\ Open /\ MoreAllocas
  /\ allocas' = Append(allocas, Owner("temp", 0, 0))
  /\ UNCHANGED <<stage, argIdx, argName, argAttr, paramValues, chainVal, rtnValueMem,
                 valueVarMap, registered, entry, initializer>>

\* genArgSpill: a store for each piece, into its field of the spill slot.
Spill(info, sploc) ==
  [j \in 1..Len(info.abiTypes) |-> Inst("store", sploc, info.sigOffset + j - 1, j)]

ChainSpill ==
  IF chainVal = Argument(ChainInfo.sigOffset) THEN <<>> ELSE Spill(ChainInfo, chainVal)

\* genProlog, the spills, one parameter after the other.
SpillsUpTo[p \in 0..Len(sig.params)] ==
  IF p = 0 THEN ChainSpill
  ELSE SpillsUpTo[p - 1] \o
       IF ParamInfo(p).disp = "direct" THEN Spill(ParamInfo(p), paramValues[p]) ELSE <<>>

\* genProlog: the allocas, then the spills.  Every parameter must have been
\* registered (getNthParamVar asserts it).  A parameter that is not spilled is
\* initialized from the start of the block, if there is something in it.
GenProlog ==
  /\ Open /\ registered = Len(sig.params)
  /\ LET spills == SpillsUpTo[Len(sig.params)]
         ends == [p \in 0..Len(sig.params) |-> Len(allocas) + Len(SpillsUpTo[p])]
     IN
     /\ entry' = [i \in 1..Len(allocas) |-> Inst("alloca", Alloca(i), 0, 0)] \o spills
     /\ initializer' = [p \in Params |->
                          IF ParamInfo(p).disp = "direct" THEN ends[p]
                          ELSE IF entry' # <<>> THEN 1 ELSE NoInst]
  /\ stage' = "prolog"
  /\ UNCHANGED <<argIdx, argName, argAttr, paramValues, chainVal, rtnValueMem, allocas,
                 valueVarMap, registered>>

\* The walk of the body puts its first instructions into the entry block; it only
\* closes the block if there is a transfer of control (a void body may have none).
WalkBody ==
  /\ stage = "prolog"
  /\ \E code \in EntryCode : entry' = entry \o code
  /\ stage' = "walked"
  /\ UNCHANGED <<argIdx, argName, argAttr, paramValues, chainVal, rtnValueMem, allocas,
                 valueVarMap, registered, initializer>>

\* fixupProlog asserts that there is an instruction by now, if it needs one.
FixupProlog ==
  /\ stage = "walked"
  /\ LET missing == {p \in Params : initializer[p] = NoInst} IN
     IF missing # {} /\ entry = <<>>
     THEN stage' = "aborted" /\ UNCHANGED initializer
     ELSE /\ initializer' = [p \in Params |-> IF p \in missing THEN 1 ELSE initializer[p]]
          /\ stage' = "fixed"
  /\ UNCHANGED <<argIdx, argName, argAttr, paramValues, chainVal, rtnValueMem, allocas,
                 valueVarMap, registered, entry>>

\* DIBuildHelper::endFunction and insertVarDecl: the declaration of a parameter goes
\* behind its initializer, which must not be the terminator of the block.
DeclareParameters ==
  /\ stage = "fixed"
  /\ stage' = IF \E p \in Params : entry[initializer[p]] = Terminator
              THEN "aborted" ELSE "declared"
  /\ UNCHANGED <<argIdx, argName, argAttr, paramValues, chainVal, rtnValueMem, allocas,
                 valueVarMap, registered, entry, initializer>>

FunctionNext ==
  \/ AbiSetup \/ AbiSetupParam
  \/ ParameterVariable \/ StaticChainVariable \/ LocalVariable \/ CreateTemporary
  \/ GenProlog \/ WalkBody \/ FixupProlog \/ DeclareParameters

-----------------------------------------------------------------------------
vars == <<oracleVars, functionVars>>

Init == OracleInit /\ FunctionInit

Next == \/ OracleNext /\ UNCHANGED functionVars
        \/ FunctionNext /\ UNCHANGED oracleVars

Spec == Init /\ [][Next]_vars

-----------------------------------------------------------------------------
(* Properties.                                                              *)

\* The two walks over the parameters agree: the attribute abiSetup puts on an
\* argument by counting is that of the parameter whose name the argument gets from
\* the oracle's offset, and an object in memory is the argument it arrives in.
ArgumentsAgree ==
  /\ \A i \in DOMAIN argAttr :
       argAttr[i] # "none" /\ registered = Len(sig.params) =>
         CASE argName[i].what = "sret"  -> argAttr[i] = "sret"
           [] argName[i].what = "chain" -> argAttr[i] = "nest"
           [] argName[i].what = "param" -> argAttr[i] = ParamInfo(argName[i].p).attr
           [] OTHER -> FALSE
  /\ \A p \in DOMAIN paramValues :
       ParamInfo(p).disp = "indirect" =>
         paramValues[p] = Argument(ParamInfo(p).sigOffset)

\* The prolog spills each piece of each parameter once, from an argument no other
\* store reads, into an alloca of this parameter that stands before it.
ParametersSpilled ==
  stage \in {"prolog", "walked", "fixed", "declared"} =>
    \A p \in Params : ParamInfo(p).disp = "direct" =>
      \A j \in 1..Len(ParamInfo(p).abiTypes) :
        \E i \in DOMAIN entry :
          /\ entry[i].op = "store" /\ entry[i].val = paramValues[p] /\ entry[i].piece = j
          /\ elems[entry[i].arg + 1] = Piece(sig.params[p], j)
          /\ allocas[paramValues[p].i] = Param(p)
          /\ \E a \in 1..(i - 1) : entry[a] = Inst("alloca", paramValues[p], 0, 0)
          /\ i <= initializer[p]
          /\ \A k \in DOMAIN entry \ {i} :
               entry[k].op = "store" => entry[k].arg # entry[i].arg

\* An assertion of parameterVariable, fixupProlog or insertVarDecl fails at most in a
\* function whose parameters are all in memory and that has no local variable: the
\* variables of all others have values of their own and are declared in the prolog.
FailsOnlyWithoutAllocas == stage = "aborted" => allocas = <<>>
=============================================================================

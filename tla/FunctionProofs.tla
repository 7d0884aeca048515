----------------------------- MODULE FunctionProofs -----------------------------
(***************************************************************************)
(* The callee, for every set of types, every function type and every body:  *)
(* abiSetup counts the arguments in a walk of its own, the client registers *)
(* variables and makes temporaries in any order, and still every parameter  *)
(* is named after, marked as and spilled from the arguments the oracle      *)
(* gave it, and is declared behind the store that initializes it.           *)
(***************************************************************************)
EXTENDS Bfunction, CABIOracleProofs, Recursion

ValueType == [v : {"argument", "alloca", "none"}, i : Nat]
InstType == [op : {"alloca", "store", "op", "terminator"}, val : ValueType, arg : Int,
             piece : Nat]
AllocaOwner == [what : {"param", "chain", "local", "temp"}, p : Nat, j : Nat]

\* Whose piece j of entry k is.
OwnerOf(k, j) ==
  IF k = 1 THEN Owner("sret", 0, 0) ELSE IF k = 2 THEN Chain ELSE Owner("param", k - 2, j)

\* The arguments of the first n entries of v have their attributes, and names.
Attributed(v, n, attrs) ==
  \A k \in DOMAIN v : HasSlots(v, k) =>
    \A j \in 1..Len(v[k].abiTypes) :
      attrs[v[k].sigOffset + j] = IF k <= n THEN v[k].attr ELSE "none"

Named(v, n, names) ==
  \A k \in DOMAIN v : HasSlots(v, k) =>
    \A j \in 1..Len(v[k].abiTypes) :
      names[v[k].sigOffset + j] = IF k <= n THEN OwnerOf(k, j) ELSE Unnamed

\* Value "val" is an alloca that was made for "owner".
MadeFor(val, owner, made) == \E a \in 1..Len(made) : val = Alloca(a) /\ made[a] = owner

\* Parameter p of v has its value: an argument, or its alloca.
Placed(v, p, val, made) ==
  IF v[p + 2].disp = "indirect" THEN val = Argument(v[p + 2].sigOffset)
  ELSE MadeFor(val, Param(p), made)

\* The values that have a variable: of the first n parameters, and of what is none.
Known(values, n, made, known) ==
  \A val \in known : \/ \E p \in 1..n : val = values[p]
                     \/ \E a \in 1..Len(made) : val = Alloca(a) /\ made[a].what # "param"

\* What the constructor, and then the client, have done.
Constructed ==
  /\ stage = "new" => /\ paramValues = <<>> /\ allocas = <<>> /\ registered = 0
                      /\ entry = <<>> /\ argAttr = <<>> /\ DOMAIN valueVarMap = {}
  /\ stage # "new" =>
       /\ Analyzed /\ sig.cabi
       /\ paramValues \in Seq(ValueType) /\ Len(paramValues) <= Len(sig.params)
       /\ allocas \in Seq(AllocaOwner)
       /\ argIdx \in Nat /\ Cursor(infov, Len(paramValues) + 2, argIdx)
       /\ DOMAIN argAttr = 1..Len(elems) /\ DOMAIN argName = 1..Len(elems)
       /\ argAttr = [i \in 1..Len(elems) |-> argAttr[i]]
       /\ Attributed(infov, Len(paramValues) + 2, argAttr)
       /\ registered \in 0..Len(sig.params)
       /\ Len(paramValues) < Len(sig.params) => registered = 0
       /\ Named(infov, registered + 2, argName)
       /\ rtnValueMem = IF ReturnsInMemory THEN Argument(0) ELSE NoValue
       /\ chainVal = Argument(ChainInfo.sigOffset) \/ MadeFor(chainVal, Chain, allocas)
       /\ \A p \in 1..Len(paramValues) : Placed(infov, p, paramValues[p], allocas)
       /\ Known(paramValues, registered, allocas, DOMAIN valueVarMap)

\* The store that spills piece j of entry k.
SpillPlace(k, chain, values) == IF k = 2 THEN chain ELSE values[k - 2]
StoreOf(v, k, j, chain, values) ==
  Inst("store", SpillPlace(k, chain, values), v[k].sigOffset + j - 1, j)

Spilled(v, k) == k \in DOMAIN v /\ k >= 2 /\ v[k].disp = "direct"

\* The stores of "code" are spills, and no two of them spill the same argument.
OnlySpills(v, code, chain, values) ==
  /\ \A i \in 1..Len(code) : code[i].op = "store" =>
       \E k \in DOMAIN v : /\ Spilled(v, k)
                           /\ \E j \in 1..Len(v[k].abiTypes) :
                                code[i] = StoreOf(v, k, j, chain, values)
  /\ \A i, j \in 1..Len(code) :
       i # j /\ code[i].op = "store" /\ code[j].op = "store" => code[i].arg # code[j].arg

\* Each piece of parameter p is spilled between two places of "code".
SpilledIn(v, p, code, chain, values, after, upto) ==
  \A j \in 1..Len(v[p + 2].abiTypes) :
    \E i \in 1..Len(code) : /\ after < i /\ i <= upto
                            /\ code[i] = StoreOf(v, p + 2, j, chain, values)

AllocasFirst(code, made) ==
  /\ Len(made) <= Len(code)
  /\ \A a \in 1..Len(made) : code[a] = Inst("alloca", Alloca(a), 0, 0)

\* What genProlog has done, and what may have come after it.
PrologMade ==
  stage \in {"prolog", "walked", "fixed", "declared"} =>
    /\ Len(paramValues) = Len(sig.params) /\ registered = Len(sig.params)
    /\ entry \in Seq(InstType)
    /\ AllocasFirst(entry, allocas)
    /\ OnlySpills(infov, entry, chainVal, paramValues)
    /\ DOMAIN initializer = Params
    /\ \A p \in Params :
         IF ParamInfo(p).disp = "direct"
         THEN /\ SpilledIn(infov, p, entry, chainVal, paramValues, Len(allocas),
                           initializer[p])
              /\ initializer[p] \in 1..Len(entry) /\ entry[initializer[p]].op = "store"
         ELSE /\ initializer[p] \in {NoInst, 1}
              /\ stage \in {"fixed", "declared"} => initializer[p] = 1

FunctionInv ==
  /\ stage \in {"new", "setup", "prolog", "walked", "fixed", "declared", "aborted"}
  /\ Constructed
  /\ PrologMade
  /\ FailsOnlyWithoutAllocas

-----------------------------------------------------------------------------
(* What the oracle says of a function that is not a builtin.                *)

LEMMA FirstFacts ==
  ASSUME OracleInv, EntryShapes, Analyzed, sig.cabi
  PROVE  /\ 1 \in DOMAIN infov /\ 2 \in DOMAIN infov
         /\ HasSlots(infov, 1) <=> ReturnsInMemory
         /\ ReturnsInMemory => /\ infov[1].sigOffset = 0 /\ Len(infov[1].abiTypes) = 1
                               /\ infov[1].attr = "sret"
         /\ HasSlots(infov, 2) /\ Len(infov[2].abiTypes) = 1
         /\ infov[2].attr = "nest" /\ infov[2].disp = "direct"
         /\ infov[2].sigOffset = IF ReturnsInMemory THEN 1 ELSE 0
         /\ ChainInfo = infov[2]
<1>1. 1 \in DOMAIN infov /\ 2 \in DOMAIN infov
  <2>1. /\ DOMAIN infov = 1..Len(infov) /\ Len(infov) = Len(sig.params) + 2
        /\ Len(sig.params) \in Nat
    BY OracleFacts
  <2>2. QED
    BY <2>1
<1>2. ReturnShape(sig, infov[1]) /\ ChainShape(sig, infov[1], infov[2])
  BY <1>1 DEF EntryShapes, Shapes, Shape
<1>3. HasSlots(infov, 1) <=> ReturnsInMemory
  BY <1>1, HasSlotsIs DEF ReturnsInMemory, ReturnInfo
<1>4. HasSlots(infov, 2)
  BY <1>1, <1>2, HasSlotsIs DEF ChainShape
<1>5. ReturnsInMemory => /\ infov[1].sigOffset = 0 /\ Len(infov[1].abiTypes) = 1
                         /\ infov[1].attr = "sret"
  BY <1>2 DEF ReturnShape, ReturnsInMemory, ReturnInfo
<1>6. /\ Len(infov[2].abiTypes) = 1 /\ infov[2].attr = "nest" /\ infov[2].disp = "direct"
      /\ infov[2].sigOffset = IF ReturnsInMemory THEN 1 ELSE 0
  BY <1>2 DEF ChainShape, ReturnsInMemory, ReturnInfo
<1>7. QED
  BY <1>1, <1>3, <1>4, <1>5, <1>6 DEF ChainInfo

LEMMA ParamFacts ==
  ASSUME OracleInv, EntryShapes, Analyzed, sig.cabi, NEW p \in 1..Len(sig.params)
  PROVE  /\ p + 2 \in DOMAIN infov /\ p + 2 # 1 /\ p + 2 # 2 /\ (p + 2) - 2 = p /\ p + 2 >= 2
         /\ ParamInfo(p) = infov[p + 2] /\ sig.params[p] \in Type
         /\ infov[p + 2].disp \in {"direct", "ignore", "indirect"}
         /\ Len(infov[p + 2].abiTypes) \in Nat
         /\ HasSlots(infov, p + 2) <=> infov[p + 2].disp # "ignore"
         /\ infov[p + 2].disp = "indirect" => Len(infov[p + 2].abiTypes) = 1
         /\ infov[p + 2].disp = "direct" =>
              /\ Len(infov[p + 2].abiTypes) \in 1..2
              /\ \A j \in 1..Len(infov[p + 2].abiTypes) :
                   infov[p + 2].abiTypes[j] = Piece(sig.params[p], j)
         /\ infov[p + 2].disp # "ignore" /\ infov[p + 2].attr # "none" =>
              Len(infov[p + 2].abiTypes) = 1
<1> DEFINE k == p + 2
           t == sig.params[p]
<1>1. /\ DOMAIN infov = 1..Len(infov) /\ Len(infov) = Len(sig.params) + 2
      /\ Len(sig.params) \in Nat /\ infov \in Seq(InfoType) /\ sig \in Signature
  BY OracleFacts DEF OracleInv, OracleTypeOK
<1>2. k \in DOMAIN infov /\ k # 1 /\ k # 2 /\ k - 2 = p /\ k >= 3
  BY <1>1
<1>3. t \in Type
  BY <1>1, SignatureTypes
<1>4. /\ infov[k].disp \in {"direct", "ignore", "indirect"} /\ Len(infov[k].abiTypes) \in Nat
  BY <1>1, <1>2, InfoParts
<1>5. HasSlots(infov, k) <=> infov[k].disp # "ignore"
  BY <1>2, HasSlotsIs
<1> HIDE DEF k
<1>6. ParamShape(sig, t, infov[k])
  BY <1>2 DEF EntryShapes, Shapes, Shape
<1> HIDE DEF t
<1>7. infov[k].disp = "indirect" => Len(infov[k].abiTypes) = 1
  <2> SUFFICES ASSUME infov[k].disp = "indirect" PROVE Len(infov[k].abiTypes) = 1
    OBVIOUS
  <2>1. infov[k].abiTypes = <<PointerTo(t)>>
    BY <1>6 DEF ParamShape
  <2>2. Len(<<PointerTo(t)>>) = 1
    OBVIOUS
  <2>3. QED
    BY <2>1, <2>2
<1>8. ASSUME infov[k].disp = "direct"
      PROVE  /\ Len(infov[k].abiTypes) = Len(Regions[t]) /\ Len(Regions[t]) \in 1..2
             /\ \A j \in 1..Len(infov[k].abiTypes) : infov[k].abiTypes[j] = Piece(t, j)
             /\ infov[k].attr # "none" => Len(infov[k].abiTypes) = 1
  <2>1. /\ Disposition(t) = "direct" /\ infov[k].attr = Extension[t]
        /\ infov[k].abiTypes = [j \in 1..Len(Regions[t]) |-> Piece(t, j)]
    BY <1>6, <1>8 DEF ParamShape
  <2>2. Len(infov[k].abiTypes) = Len(Regions[t]) /\ Len(Regions[t]) \in 1..2
    BY <1>3, <2>1, PieceSlots
  <2>3. Extension[t] # "none" => Len(Regions[t]) # 2
    BY <1>3, TypeAssumption
  <2> DEFINE n == Len(Regions[t])
  <2>4. /\ Len(infov[k].abiTypes) = n /\ n \in 1..2
        /\ infov[k].attr # "none" => n # 2
    BY <2>1, <2>2, <2>3
  <2> HIDE DEF n
  <2>5. infov[k].attr # "none" => Len(infov[k].abiTypes) = 1
    BY <2>4
  <2>6. QED
    BY <2>1, <2>2, <2>5
<1>9. QED
  BY <1>2, <1>3, <1>4, <1>5, <1>7, <1>8 DEF ParamInfo, k, t

-----------------------------------------------------------------------------
(* The constructor.                                                         *)

\* abiSetup has walked the result and the chain.
LEMMA SetupCursor ==
  ASSUME OracleInv, EntryShapes, Analyzed, sig.cabi
  PROVE  Cursor(infov, 2, (IF ReturnsInMemory THEN 1 ELSE 0) + 1)
<1> DEFINE chain == IF ReturnsInMemory THEN 1 ELSE 0
<1>1. /\ infov \in Seq(InfoType) /\ EntriesOK(infov) /\ Count \in Nat
      /\ Divided(infov, Count)
  BY OracleFacts
<1>2. Cursor(infov, 0, 0)
  <2>1. Len(<<>>) = 0
    BY EmptySeq
  <2>2. QED
    BY <2>1, NothingWalked DEF Walked
<1>3. Cursor(infov, 1, chain) /\ chain \in Nat
  <2>1. Cursor(infov, 1 - 1, 0) /\ 1 \in DOMAIN infov
    BY <1>2, FirstFacts
  <2>2. /\ HasSlots(infov, 1) => Cursor(infov, 1, 0 + Len(infov[1].abiTypes))
        /\ ~HasSlots(infov, 1) => Cursor(infov, 1, 0)
    BY <1>1, <2>1, CursorStep
  <2>3. HasSlots(infov, 1) => 0 + Len(infov[1].abiTypes) = 1
    BY FirstFacts
  <2>4. QED
    BY <2>2, <2>3, FirstFacts
<1> HIDE DEF chain
<1>4. Cursor(infov, 2 - 1, chain) /\ 2 \in DOMAIN infov
  BY <1>3, FirstFacts
<1>5. Cursor(infov, 2, chain + Len(infov[2].abiTypes))
  BY <1>1, <1>3, <1>4, FirstFacts, CursorStep
<1>6. QED
  BY <1>5, FirstFacts DEF chain

\* Where the arguments of the result, of the chain and of the parameters are.
LEMMA FirstSlots ==
  ASSUME OracleInv, EntryShapes, Analyzed, sig.cabi,
         NEW k \in DOMAIN infov, HasSlots(infov, k), NEW j \in 1..Len(infov[k].abiTypes),
         NEW chain, chain = IF ReturnsInMemory THEN 1 ELSE 0,
         NEW s, s = infov[k].sigOffset + j
  PROVE  /\ s \in 1..Len(elems) /\ k \in Nat /\ k >= 1
         /\ k = 1 => s = 1 /\ s <= chain /\ s # chain + 1
         /\ k = 2 => s = chain + 1
         /\ k > 2 => s # chain + 1 /\ ~(s <= chain)
<1>1. s \in 1..Len(elems)
  BY SlotPlace
<1>2. k \in Nat /\ k >= 1
  <2>1. DOMAIN infov = 1..Len(infov) /\ Len(infov) \in Nat
    BY OracleFacts
  <2>2. QED
    BY <2>1
<1>3. k = 1 => s = 1 /\ chain = 1
  <2> SUFFICES ASSUME k = 1 PROVE s = 1 /\ chain = 1
    OBVIOUS
  <2>1. ReturnsInMemory /\ infov[k].sigOffset = 0 /\ Len(infov[k].abiTypes) = 1
    BY FirstFacts
  <2>2. j = 1
    BY <2>1
  <2>3. QED
    BY <2>1, <2>2
<1>4. k = 2 => s = chain + 1
  <2> SUFFICES ASSUME k = 2 PROVE s = chain + 1
    OBVIOUS
  <2>1. infov[k].sigOffset = chain /\ Len(infov[k].abiTypes) = 1
    BY FirstFacts
  <2>2. j = 1
    BY <2>1
  <2>3. QED
    BY <2>1, <2>2
<1>5. ASSUME k > 2 PROVE s # chain + 1 /\ ~(s <= chain)
  <2>1. k # 1 /\ k # 2
    BY <1>2, <1>5
  <2>2. ASSUME s = chain + 1 PROVE FALSE
    <3>1. /\ 2 \in DOMAIN infov /\ HasSlots(infov, 2) /\ Len(infov[2].abiTypes) = 1
          /\ infov[2].sigOffset + 1 = s
      BY <2>2, FirstFacts
    <3>2. 1 \in 1..Len(infov[2].abiTypes)
      BY <3>1
    <3>3. infov[k].sigOffset + j = infov[2].sigOffset + 1
      BY <3>1
    <3>4. k = 2
      BY <3>1, <3>2, <3>3, SlotUnique
    <3>5. QED
      BY <2>1, <3>4
  <2>3. ASSUME s <= chain PROVE FALSE
    <3>1. chain = 1 /\ s = 1 /\ ReturnsInMemory
      BY <1>1, <2>3
    <3>2. /\ 1 \in DOMAIN infov /\ HasSlots(infov, 1) /\ Len(infov[1].abiTypes) = 1
          /\ infov[1].sigOffset = 0
      BY <3>1, FirstFacts
    <3>3. /\ 1 \in 1..Len(infov[1].abiTypes)
          /\ infov[k].sigOffset + j = infov[1].sigOffset + 1
      BY <3>1, <3>2
    <3>4. 1 \in DOMAIN infov /\ HasSlots(infov, 1)
      BY <3>2
    <3>5. k = 1
      BY <3>3, <3>4, SlotUnique
    <3>6. QED
      BY <2>1, <3>5
  <2>4. QED
    BY <2>2, <2>3
<1>6. QED
  BY <1>1, <1>2, <1>3, <1>4, <1>5

\* The result, the chain, and the spill slots: what holds of a function when the
\* constructor starts with the parameters.
LEMMA SetupStep ==
  OracleInv /\ EntryShapes /\ FunctionInv /\ AbiSetup /\ UNCHANGED oracleVars
    => FunctionInv'
<1> SUFFICES ASSUME OracleInv, EntryShapes, FunctionInv, AbiSetup, UNCHANGED oracleVars
             PROVE  FunctionInv'
  OBVIOUS
<1> DEFINE chain == IF ReturnsInMemory THEN 1 ELSE 0
<1>1. /\ stage = "new" /\ Analyzed /\ sig.cabi /\ stage' = "setup"
      /\ argName' = [i \in 1..Len(elems) |->
                       CASE i = chain + 1 -> Chain
                         [] i <= chain    -> Owner("sret", 0, 0)
                         [] OTHER         -> Unnamed]
      /\ argAttr' = [i \in 1..Len(elems) |->
                       CASE i = chain + 1 -> "nest"
                         [] i <= chain    -> "sret"
                         [] OTHER         -> "none"]
      /\ rtnValueMem' = IF ReturnsInMemory THEN Argument(0) ELSE NoValue
      /\ chainVal' = Argument(chain)
      /\ argIdx' = chain + 1
      /\ UNCHANGED <<paramValues, allocas, valueVarMap, registered, entry>>
  BY DEF AbiSetup
<1>2. UNCHANGED <<sig, phase, infov, elems>>
  BY DEF oracleVars
<1>3. /\ paramValues = <<>> /\ allocas = <<>> /\ registered = 0 /\ entry = <<>>
      /\ DOMAIN valueVarMap = {} /\ Len(paramValues) = 0 /\ Len(sig.params) \in Nat
  <2>1. Len(<<>>) = 0
    BY EmptySeq
  <2>2. QED
    BY <1>1, <2>1, OracleFacts DEF FunctionInv, Constructed
<1>4. chain \in {0, 1} /\ chain = (IF ReturnsInMemory THEN 1 ELSE 0)
  OBVIOUS
<1>5. Cursor(infov, Len(paramValues) + 2, argIdx') /\ argIdx' \in Nat
  <2>1. Len(paramValues) + 2 = 2 /\ argIdx' \in Nat
    BY <1>1, <1>3
  <2>2. Cursor(infov, 2, chain + 1)
    BY <1>1, SetupCursor
  <2>3. QED
    BY <1>1, <2>1, <2>2
<1> HIDE DEF chain
<1>6. ASSUME NEW k \in DOMAIN infov, HasSlots(infov, k),
             NEW j \in 1..Len(infov[k].abiTypes)
      PROVE  /\ argAttr'[infov[k].sigOffset + j] = IF k <= 2 THEN infov[k].attr ELSE "none"
             /\ argName'[infov[k].sigOffset + j] = IF k <= 2 THEN OwnerOf(k, j) ELSE Unnamed
  <2> DEFINE s == infov[k].sigOffset + j
  <2>1. /\ s \in 1..Len(elems) /\ k \in Nat /\ k >= 1
        /\ k = 1 => s = 1 /\ s <= chain /\ s # chain + 1
        /\ k = 2 => s = chain + 1
        /\ k > 2 => s # chain + 1 /\ ~(s <= chain)
    BY <1>1, <1>4, <1>6, FirstSlots
  <2>2. /\ k = 1 => infov[k].attr = "sret"
        /\ k = 2 => infov[k].attr = "nest"
    BY <1>1, <1>6, FirstFacts
  <2> HIDE DEF s
  <2>3. /\ argAttr'[s] = CASE s = chain + 1 -> "nest"
                           [] s <= chain    -> "sret"
                           [] OTHER         -> "none"
        /\ argName'[s] = CASE s = chain + 1 -> Chain
                           [] s <= chain    -> Owner("sret", 0, 0)
                           [] OTHER         -> Unnamed
    BY <1>1, <2>1
  <2>4. k = 1 => argAttr'[s] = infov[k].attr /\ argName'[s] = OwnerOf(k, j)
    BY <2>1, <2>2, <2>3 DEF OwnerOf
  <2>5. k = 2 => argAttr'[s] = infov[k].attr /\ argName'[s] = OwnerOf(k, j)
    <3>1. chain \in Int
      BY <1>4
    <3>2. QED
      BY <2>1, <2>2, <2>3, <3>1 DEF OwnerOf
  <2>6. k > 2 => argAttr'[s] = "none" /\ argName'[s] = Unnamed
    BY <2>1, <2>3
  <2>7. /\ argAttr'[s] = IF k <= 2 THEN infov[k].attr ELSE "none"
        /\ argName'[s] = IF k <= 2 THEN OwnerOf(k, j) ELSE Unnamed
    BY <2>1, <2>4, <2>5, <2>6
  <2>8. QED
    BY <2>7 DEF s
<1>7. /\ Attributed(infov, Len(paramValues) + 2, argAttr')
      /\ Named(infov, registered + 2, argName')
  <2>1. Len(paramValues) + 2 = 2 /\ registered + 2 = 2
    BY <1>3
  <2>2. Attributed(infov, 2, argAttr') /\ Named(infov, 2, argName')
    BY <1>6 DEF Attributed, Named
  <2>3. QED
    BY <2>1, <2>2
<1>8. chainVal' = Argument(ChainInfo.sigOffset)
  BY <1>1, <1>4, FirstFacts
<1>9. paramValues \in Seq(ValueType) /\ allocas \in Seq(AllocaOwner)
  BY <1>3, EmptySeq
<1>10. Known(paramValues, registered, allocas, DOMAIN valueVarMap)
  BY <1>3 DEF Known
<1>11. Constructed'
  BY <1>1, <1>2, <1>3, <1>5, <1>7, <1>8, <1>9, <1>10
     DEF Constructed, Analyzed, ReturnsInMemory, ReturnInfo, ChainInfo
<1>12. QED
  BY <1>1, <1>11 DEF FunctionInv, PrologMade, FailsOnlyWithoutAllocas

\* An alloca that is added leaves the others what they were made for.
LEMMA AllocaAdded ==
  ASSUME NEW made \in Seq(AllocaOwner), NEW o \in AllocaOwner
  PROVE  /\ Append(made, o) \in Seq(AllocaOwner) /\ Append(made, o) # <<>>
         /\ Alloca(Len(made) + 1) \in ValueType
         /\ MadeFor(Alloca(Len(made) + 1), o, Append(made, o))
         /\ \A val, owner : MadeFor(val, owner, made) => MadeFor(val, owner, Append(made, o))
         /\ \A v, p, val : Placed(v, p, val, made) => Placed(v, p, val, Append(made, o))
         /\ \A values, n, known :
              Known(values, n, made, known) => Known(values, n, Append(made, o), known)
<1> DEFINE n == Len(made)
           more == Append(made, o)
<1>1. /\ n \in Nat /\ more \in Seq(AllocaOwner) /\ Len(more) = n + 1
      /\ more[n + 1] = o /\ \A a \in 1..n : more[a] = made[a]
  BY LenProperties, AppendProperties
<1>2. Alloca(n + 1) \in ValueType
  BY <1>1 DEF Alloca, Value, ValueType
<1>3. more # <<>>
  <2>1. Len(<<>>) = 0
    BY EmptySeq
  <2>2. QED
    BY <1>1, <2>1
<1> HIDE DEF more
<1>4. \A a \in 1..Len(made) : a \in 1..Len(more) /\ more[a] = made[a]
  BY <1>1
<1>5. Len(made) + 1 \in 1..Len(more)
  BY <1>1
<1>6. MadeFor(Alloca(n + 1), o, more)
  BY <1>1, <1>5 DEF MadeFor
<1>7. \A val, owner : MadeFor(val, owner, made) => MadeFor(val, owner, more)
  <2> SUFFICES ASSUME NEW val, NEW owner, MadeFor(val, owner, made)
               PROVE  MadeFor(val, owner, more)
    OBVIOUS
  <2>1. PICK a \in 1..Len(made) : val = Alloca(a) /\ made[a] = owner
    BY DEF MadeFor
  <2>2. a \in 1..Len(more) /\ more[a] = owner
    BY <1>4, <2>1
  <2>3. QED
    BY <2>1, <2>2 DEF MadeFor
<1>8. \A v, p, val : Placed(v, p, val, made) => Placed(v, p, val, more)
  BY <1>7 DEF Placed
<1>9. ASSUME NEW values, NEW m, NEW known, Known(values, m, made, known)
      PROVE  Known(values, m, more, known)
  <2> SUFFICES ASSUME NEW val \in known
               PROVE  \/ \E p \in 1..m : val = values[p]
                      \/ \E a \in 1..Len(more) : val = Alloca(a) /\ more[a].what # "param"
    BY DEF Known
  <2>1. CASE \E p \in 1..m : val = values[p]
    BY <2>1
  <2>2. CASE \E a \in 1..Len(made) : val = Alloca(a) /\ made[a].what # "param"
    <3>1. PICK a \in 1..Len(made) : val = Alloca(a) /\ made[a].what # "param"
      BY <2>2
    <3>2. a \in 1..Len(more) /\ more[a].what # "param"
      BY <1>4, <3>1
    <3>3. QED
      BY <3>1, <3>2
  <2>3. QED
    BY <1>9, <2>1, <2>2 DEF Known
<1>10. QED
  BY <1>1, <1>2, <1>3, <1>6, <1>7, <1>8, <1>9 DEF more

\* One parameter more: the argument abiSetup has counted to is the oracle's.
LEMMA SetupParamStep ==
  OracleInv /\ EntryShapes /\ FunctionInv /\ AbiSetupParam /\ UNCHANGED oracleVars
    => FunctionInv'
<1> SUFFICES ASSUME OracleInv, EntryShapes, FunctionInv, AbiSetupParam,
                    UNCHANGED oracleVars
             PROVE  FunctionInv'
  OBVIOUS
<1> DEFINE p == Len(paramValues) + 1
           k == p + 2
           value == IF infov[k].disp = "indirect" THEN Argument(argIdx)
                                                  ELSE Alloca(Len(allocas) + 1)
<1>1. /\ stage = "setup" /\ Analyzed /\ sig.cabi
      /\ paramValues \in Seq(ValueType) /\ Len(paramValues) < Len(sig.params)
      /\ allocas \in Seq(AllocaOwner) /\ argIdx \in Nat
      /\ Cursor(infov, Len(paramValues) + 2, argIdx)
      /\ DOMAIN argAttr = 1..Len(elems) /\ DOMAIN argName = 1..Len(elems)
      /\ argAttr = [i \in 1..Len(elems) |-> argAttr[i]]
      /\ Attributed(infov, Len(paramValues) + 2, argAttr)
      /\ registered = 0 /\ registered \in 0..Len(sig.params)
      /\ Named(infov, registered + 2, argName)
      /\ rtnValueMem = IF ReturnsInMemory THEN Argument(0) ELSE NoValue
      /\ chainVal = Argument(ChainInfo.sigOffset) \/ MadeFor(chainVal, Chain, allocas)
      /\ \A q \in 1..Len(paramValues) : Placed(infov, q, paramValues[q], allocas)
      /\ Known(paramValues, registered, allocas, DOMAIN valueVarMap)
  <2>1. stage = "setup" /\ stage # "new"
    BY DEF AbiSetupParam
  <2>2. Len(paramValues) < Len(sig.params)
    BY DEF AbiSetupParam
  <2>3. QED
    BY <2>1, <2>2 DEF FunctionInv, Constructed
<1>2. /\ ParamInfo(p) = infov[k]
      /\ paramValues' = Append(paramValues, value)
      /\ allocas' = IF infov[k].disp = "indirect" THEN allocas
                                                  ELSE Append(allocas, Param(p))
      /\ argAttr' = IF infov[k].disp # "ignore" /\ infov[k].attr # "none"
                    THEN [argAttr EXCEPT ![argIdx + 1] = infov[k].attr] ELSE argAttr
      /\ argIdx' = argIdx + ArgsUsed(infov[k])
      /\ UNCHANGED <<stage, argName, chainVal, rtnValueMem, valueVarMap, registered,
                     entry, initializer>>
  <2>1. ParamInfo(p) = infov[k]
    BY DEF ParamInfo
  <2>2. QED
    BY <2>1 DEF AbiSetupParam, AllocasFor
<1>3. UNCHANGED <<sig, phase, infov, elems>>
  BY DEF oracleVars
<1>4. /\ p \in 1..Len(sig.params) /\ p \in Nat /\ Len(paramValues) \in Nat
      /\ Len(sig.params) \in Nat /\ k - 1 = Len(paramValues) + 2 /\ k \in Nat
  <2>1. Len(sig.params) \in Nat /\ Len(paramValues) \in Nat
    BY <1>1, OracleFacts, LenProperties
  <2>2. QED
    BY <1>1, <2>1
<1>5. /\ k \in DOMAIN infov /\ infov[k].disp \in {"direct", "ignore", "indirect"}
      /\ Len(infov[k].abiTypes) \in Nat
      /\ HasSlots(infov, k) <=> infov[k].disp # "ignore"
      /\ infov[k].disp = "indirect" => Len(infov[k].abiTypes) = 1
      /\ infov[k].disp = "direct" => Len(infov[k].abiTypes) \in 1..2
      /\ infov[k].disp # "ignore" /\ infov[k].attr # "none" =>
           Len(infov[k].abiTypes) = 1
  BY <1>1, <1>4, ParamFacts
<1>6. /\ infov \in Seq(InfoType) /\ EntriesOK(infov) /\ Count \in Nat
      /\ Divided(infov, Count) /\ DOMAIN infov = 1..Len(infov) /\ Len(infov) \in Nat
  BY <1>1, OracleFacts
<1> HIDE DEF value
<1>7. /\ p = Len(paramValues) + 1 /\ k = p + 2
  OBVIOUS
<1> HIDE DEF k, p
<1>8. Cursor(infov, k - 1, argIdx)
  BY <1>1, <1>4
<1>9. HasSlots(infov, k) => infov[k].sigOffset = argIdx
  BY <1>1, <1>5, <1>6, <1>8, CursorAtOffset
<1>10. Cursor(infov, k, argIdx') /\ argIdx' \in Nat
  <2>1. /\ HasSlots(infov, k) => Cursor(infov, k, argIdx + Len(infov[k].abiTypes))
        /\ ~HasSlots(infov, k) => Cursor(infov, k, argIdx)
    BY <1>1, <1>5, <1>6, <1>8, CursorStep
  <2>2. /\ HasSlots(infov, k) => ArgsUsed(infov[k]) = Len(infov[k].abiTypes)
        /\ ~HasSlots(infov, k) => ArgsUsed(infov[k]) = 0
    BY <1>5 DEF ArgsUsed
  <2>3. CASE HasSlots(infov, k)
    <3>1. argIdx' = argIdx + Len(infov[k].abiTypes)
      BY <1>2, <2>2, <2>3
    <3>2. argIdx' \in Nat
      BY <1>1, <1>5, <3>1
    <3>3. QED
      BY <2>1, <2>3, <3>1, <3>2
  <2>4. CASE ~HasSlots(infov, k)
    BY <1>1, <1>2, <2>1, <2>2, <2>4
  <2>5. QED
    BY <2>3, <2>4
<1>11. /\ Attributed(infov, k, argAttr') /\ DOMAIN argAttr' = 1..Len(elems)
       /\ argAttr' = [i \in 1..Len(elems) |-> argAttr'[i]]
  <2>1. DOMAIN argAttr' = 1..Len(elems) /\ argAttr' = [i \in 1..Len(elems) |-> argAttr'[i]]
    BY <1>1, <1>2
  <2> SUFFICES ASSUME NEW l \in DOMAIN infov, HasSlots(infov, l),
                      NEW j \in 1..Len(infov[l].abiTypes)
               PROVE  argAttr'[infov[l].sigOffset + j] =
                        IF l <= k THEN infov[l].attr ELSE "none"
    BY <2>1 DEF Attributed
  <2> DEFINE s == infov[l].sigOffset + j
  <2>2. argAttr[s] = IF l <= k - 1 THEN infov[l].attr ELSE "none"
    BY <1>1, <1>4 DEF Attributed
  <2>3. s \in DOMAIN argAttr /\ s \in Int /\ l \in Nat
    <3>1. s \in 1..Len(elems)
      BY <1>1, SlotPlace
    <3>2. QED
      BY <1>1, <1>6, <3>1
  <2>4. infov[l].sigOffset + j = s
    OBVIOUS
  <2> HIDE DEF s
  <2>5. CASE infov[k].disp # "ignore" /\ infov[k].attr # "none"
    <3>1. /\ HasSlots(infov, k) /\ infov[k].sigOffset = argIdx
          /\ Len(infov[k].abiTypes) = 1
      BY <1>5, <1>9, <2>5
    <3>2. /\ argAttr'[argIdx + 1] = IF argIdx + 1 \in DOMAIN argAttr THEN infov[k].attr
                                    ELSE argAttr[argIdx + 1]
          /\ s # argIdx + 1 => argAttr'[s] = argAttr[s]
      BY <1>2, <2>3, <2>5
    <3>3. CASE l = k
      <4>1. s = argIdx + 1
        <5>1. j \in 1..1
          BY <3>1, <3>3
        <5>2. QED
          BY <2>4, <3>1, <3>3, <5>1
      <4>2. argAttr'[s] = infov[l].attr
        BY <2>3, <3>2, <3>3, <4>1
      <4>3. l <= k
        BY <1>4, <3>3
      <4>4. QED
        BY <2>4, <4>2, <4>3
    <3>4. CASE l # k
      <4>1. s # argIdx + 1
        <5> SUFFICES ASSUME s = argIdx + 1 PROVE FALSE
          OBVIOUS
        <5>1. 1 \in 1..Len(infov[k].abiTypes)
          BY <3>1
        <5>2. infov[l].sigOffset + j = infov[k].sigOffset + 1
          BY <2>4, <3>1
        <5>3. Analyzed /\ k \in DOMAIN infov /\ HasSlots(infov, k)
          BY <1>1, <1>5, <3>1
        <5>4. l = k
          BY <5>1, <5>2, <5>3, SlotUnique
        <5>5. QED
          BY <3>4, <5>4
      <4>2. l <= k <=> l <= k - 1
        BY <1>4, <2>3, <3>4
      <4>3. QED
        BY <2>2, <2>4, <3>2, <4>1, <4>2
    <3>5. QED
      BY <3>3, <3>4
  <2>6. CASE ~(infov[k].disp # "ignore" /\ infov[k].attr # "none")
    <3>1. argAttr'[s] = argAttr[s]
      BY <1>2, <2>6
    <3>2. CASE l = k
      <4>1. infov[l].attr = "none"
        BY <1>5, <2>6, <3>2
      <4>2. QED
        BY <2>2, <2>4, <3>1, <4>1
    <3>3. CASE l # k
      <4>1. l <= k <=> l <= k - 1
        BY <1>4, <2>3, <3>3
      <4>2. QED
        BY <2>2, <2>4, <3>1, <4>1
    <3>4. QED
      BY <3>2, <3>3
  <2>7. QED
    BY <2>5, <2>6
<1>12. /\ allocas' \in Seq(AllocaOwner)
       /\ \A val, owner : MadeFor(val, owner, allocas) => MadeFor(val, owner, allocas')
       /\ \A v, q, val : Placed(v, q, val, allocas) => Placed(v, q, val, allocas')
       /\ \A values, n, known :
            Known(values, n, allocas, known) => Known(values, n, allocas', known)
       /\ value \in ValueType /\ Placed(infov, p, value, allocas')
  <2>1. CASE infov[k].disp = "indirect"
    <3>1. UNCHANGED allocas /\ value = Argument(argIdx)
      BY <1>2, <2>1 DEF value
    <3>2. infov[k].sigOffset = argIdx
      BY <1>5, <1>9, <2>1
    <3>3. Placed(infov, p, value, allocas')
      BY <1>7, <2>1, <3>1, <3>2 DEF Placed
    <3>4. value \in ValueType
      BY <1>1, <3>1 DEF Argument, Value, ValueType
    <3>5. QED
      BY <1>1, <3>1, <3>3, <3>4
  <2>2. CASE infov[k].disp # "indirect"
    <3>1. allocas' = Append(allocas, Param(p)) /\ value = Alloca(Len(allocas) + 1)
      BY <1>2, <2>2 DEF value
    <3>2. Param(p) \in AllocaOwner
      BY <1>4 DEF Param, Owner, AllocaOwner
    <3>3. /\ allocas' \in Seq(AllocaOwner) /\ value \in ValueType
          /\ MadeFor(value, Param(p), allocas')
          /\ \A val, owner : MadeFor(val, owner, allocas) => MadeFor(val, owner, allocas')
          /\ \A v, q, val : Placed(v, q, val, allocas) => Placed(v, q, val, allocas')
          /\ \A values, n, known :
               Known(values, n, allocas, known) => Known(values, n, allocas', known)
      BY <1>1, <3>1, <3>2, AllocaAdded
    <3>4. Placed(infov, p, value, allocas')
      BY <1>7, <2>2, <3>3 DEF Placed
    <3>5. QED
      BY <3>3, <3>4
  <2>3. QED
    BY <2>1, <2>2
<1>13. /\ paramValues' \in Seq(ValueType) /\ Len(paramValues') = p
       /\ paramValues'[p] = value
       /\ \A q \in 1..Len(paramValues) : paramValues'[q] = paramValues[q]
  BY <1>1, <1>2, <1>7, <1>12, AppendProperties
<1>14. \A q \in 1..Len(paramValues') : Placed(infov, q, paramValues'[q], allocas')
  <2> SUFFICES ASSUME NEW q \in 1..Len(paramValues')
               PROVE  Placed(infov, q, paramValues'[q], allocas')
    OBVIOUS
  <2>1. q = p \/ q \in 1..Len(paramValues)
    BY <1>4, <1>7, <1>13
  <2>2. CASE q = p
    BY <1>12, <1>13, <2>2
  <2>3. CASE q \in 1..Len(paramValues)
    <3>1. Placed(infov, q, paramValues[q], allocas)
      BY <1>1, <2>3
    <3>2. QED
      BY <1>12, <1>13, <2>3, <3>1
  <2>4. QED
    BY <2>1, <2>2, <2>3
<1>15. Known(paramValues', registered, allocas', DOMAIN valueVarMap)
  <2>1. Known(paramValues, 0, allocas', DOMAIN valueVarMap)
    BY <1>1, <1>12
  <2>2. \A q \in 1..0 : FALSE
    OBVIOUS
  <2>3. QED
    BY <1>1, <2>1, <2>2 DEF Known
<1>16. Len(paramValues') + 2 = k /\ Len(paramValues') <= Len(sig.params)
  BY <1>4, <1>7, <1>13
<1>17. /\ Cursor(infov, Len(paramValues') + 2, argIdx')
       /\ Attributed(infov, Len(paramValues') + 2, argAttr')
  BY <1>10, <1>11, <1>16
<1>18. chainVal = Argument(ChainInfo.sigOffset) \/ MadeFor(chainVal, Chain, allocas')
  BY <1>1, <1>12
<1>19. Constructed'
  BY <1>1, <1>2, <1>3, <1>10, <1>11, <1>12, <1>13, <1>14, <1>15, <1>16, <1>17, <1>18
     DEF Constructed, Analyzed, ReturnsInMemory, ReturnInfo, ChainInfo
<1>20. QED
  BY <1>1, <1>2, <1>19 DEF FunctionInv, PrologMade, FailsOnlyWithoutAllocas

-----------------------------------------------------------------------------
(* The client.                                                              *)

\* No two parameters share a value, and an alloca that was made for another purpose
\* is the value of none.
LEMMA ValuesDistinct ==
  ASSUME OracleInv, EntryShapes, Analyzed, sig.cabi,
         NEW p \in 1..Len(sig.params), NEW val, NEW made \in Seq(AllocaOwner),
         Placed(infov, p, val, made)
  PROVE  /\ \A q \in 1..Len(sig.params) : Placed(infov, q, val, made) => q = p
         /\ \A a \in 1..Len(made) : val = Alloca(a) => made[a].what = "param"
<1>1. \A i, a : Argument(i) # Alloca(a)
  BY DEF Argument, Alloca, Value
<1>2. \A a, b : Alloca(a) = Alloca(b) => a = b
  BY DEF Alloca, Value
<1>3. \A i, j : Argument(i) = Argument(j) => i = j
  BY DEF Argument, Value
<1>4. \A q, r : Param(q) = Param(r) => q = r
  BY DEF Param, Owner
<1>5. \A q : Param(q).what = "param"
  BY DEF Param, Owner
<1>6. ASSUME NEW q \in 1..Len(sig.params), Placed(infov, q, val, made) PROVE q = p
  <2>1. CASE infov[p + 2].disp = "indirect"
    <3>1. val = Argument(infov[p + 2].sigOffset)
      BY <2>1 DEF Placed
    <3>2. infov[q + 2].disp = "indirect" /\ val = Argument(infov[q + 2].sigOffset)
      BY <1>1, <1>6, <3>1 DEF Placed, MadeFor
    <3>3. /\ p + 2 \in DOMAIN infov /\ HasSlots(infov, p + 2)
          /\ Len(infov[p + 2].abiTypes) = 1
      BY <2>1, ParamFacts
    <3>4. /\ q + 2 \in DOMAIN infov /\ HasSlots(infov, q + 2)
          /\ Len(infov[q + 2].abiTypes) = 1
      BY <3>2, ParamFacts
    <3>5. 1 \in 1..Len(infov[p + 2].abiTypes) /\ 1 \in 1..Len(infov[q + 2].abiTypes)
      BY <3>3, <3>4
    <3>6. infov[p + 2].sigOffset = infov[q + 2].sigOffset
      BY <1>3, <3>1, <3>2
    <3>7. infov[p + 2].sigOffset + 1 = infov[q + 2].sigOffset + 1
      BY <3>6
    <3>8. p + 2 \in DOMAIN infov /\ HasSlots(infov, p + 2)
      BY <3>3
    <3>9. q + 2 \in DOMAIN infov /\ HasSlots(infov, q + 2)
      BY <3>4
    <3>10. p + 2 = q + 2
      BY <3>5, <3>7, <3>8, <3>9, SlotUnique
    <3>11. Len(sig.params) \in Nat
      BY OracleFacts
    <3>12. QED
      BY <3>10, <3>11
  <2>2. CASE infov[p + 2].disp # "indirect"
    <3>1. PICK a \in 1..Len(made) : val = Alloca(a) /\ made[a] = Param(p)
      BY <2>2 DEF Placed, MadeFor
    <3>2. PICK b \in 1..Len(made) : val = Alloca(b) /\ made[b] = Param(q)
      BY <1>1, <1>6, <3>1 DEF Placed, MadeFor
    <3>3. QED
      BY <1>2, <1>4, <3>1, <3>2
  <2>3. QED
    BY <2>1, <2>2
<1>7. ASSUME NEW a \in 1..Len(made), val = Alloca(a) PROVE made[a].what = "param"
  <2>1. PICK b \in 1..Len(made) : val = Alloca(b) /\ made[b] = Param(p)
    BY <1>1, <1>7 DEF Placed, MadeFor
  <2>2. QED
    BY <1>2, <1>5, <1>7, <2>1
<1>8. QED
  BY <1>6, <1>7

\* What holds when the client registers variables.
LEMMA OpenFacts ==
  ASSUME FunctionInv, Open
  PROVE  /\ stage = "setup" /\ Analyzed /\ sig.cabi
         /\ paramValues \in Seq(ValueType) /\ Len(paramValues) = Len(sig.params)
         /\ allocas \in Seq(AllocaOwner)
         /\ argIdx \in Nat /\ Cursor(infov, Len(paramValues) + 2, argIdx)
         /\ DOMAIN argAttr = 1..Len(elems) /\ DOMAIN argName = 1..Len(elems)
         /\ argAttr = [i \in 1..Len(elems) |-> argAttr[i]]
         /\ Attributed(infov, Len(paramValues) + 2, argAttr)
         /\ registered \in 0..Len(sig.params)
         /\ Named(infov, registered + 2, argName)
         /\ rtnValueMem = IF ReturnsInMemory THEN Argument(0) ELSE NoValue
         /\ chainVal = Argument(ChainInfo.sigOffset) \/ MadeFor(chainVal, Chain, allocas)
         /\ \A p \in 1..Len(paramValues) : Placed(infov, p, paramValues[p], allocas)
         /\ Known(paramValues, registered, allocas, DOMAIN valueVarMap)
<1>1. stage = "setup" /\ stage # "new" /\ Len(paramValues) = Len(sig.params)
  BY DEF Open
<1>2. QED
  BY <1>1 DEF FunctionInv, Constructed

\* The assertion of parameterVariable holds, and the arguments the oracle gave the
\* parameter get its name.
LEMMA ParameterVariableStep ==
  OracleInv /\ EntryShapes /\ FunctionInv /\ ParameterVariable /\ UNCHANGED oracleVars
    => FunctionInv'
<1> SUFFICES ASSUME OracleInv, EntryShapes, FunctionInv, ParameterVariable,
                    UNCHANGED oracleVars
             PROVE  FunctionInv'
  OBVIOUS
<1> DEFINE p == registered + 1
           k == p + 2
<1>1. Open /\ registered < Len(sig.params)
  BY DEF ParameterVariable
<1>2. UNCHANGED <<sig, phase, infov, elems>>
  BY DEF oracleVars
<1>3. /\ stage = "setup" /\ Analyzed /\ sig.cabi
      /\ paramValues \in Seq(ValueType) /\ Len(paramValues) = Len(sig.params)
      /\ allocas \in Seq(AllocaOwner)
      /\ argIdx \in Nat /\ Cursor(infov, Len(paramValues) + 2, argIdx)
      /\ DOMAIN argAttr = 1..Len(elems) /\ DOMAIN argName = 1..Len(elems)
      /\ argAttr = [i \in 1..Len(elems) |-> argAttr[i]]
      /\ Attributed(infov, Len(paramValues) + 2, argAttr)
      /\ registered \in 0..Len(sig.params)
      /\ Named(infov, registered + 2, argName)
      /\ rtnValueMem = IF ReturnsInMemory THEN Argument(0) ELSE NoValue
      /\ chainVal = Argument(ChainInfo.sigOffset) \/ MadeFor(chainVal, Chain, allocas)
      /\ \A q \in 1..Len(paramValues) : Placed(infov, q, paramValues[q], allocas)
      /\ Known(paramValues, registered, allocas, DOMAIN valueVarMap)
  BY <1>1, OpenFacts
<1>4. /\ infov \in Seq(InfoType) /\ DOMAIN infov = 1..Len(infov) /\ Len(infov) \in Nat
      /\ Len(sig.params) \in Nat
  BY <1>3, OracleFacts
<1>5. /\ p \in 1..Len(sig.params) /\ p \in 1..Len(paramValues) /\ registered + 2 = k - 1
      /\ p \in Nat /\ k \in Nat /\ \A q \in 1..registered : q \in 1..Len(sig.params) /\ q # p
  BY <1>1, <1>3, <1>4
<1>6. paramValues[p] \notin DOMAIN valueVarMap
  <2> SUFFICES ASSUME paramValues[p] \in DOMAIN valueVarMap PROVE FALSE
    OBVIOUS
  <2> DEFINE val == paramValues[p]
  <2>1. Placed(infov, p, val, allocas)
    BY <1>3, <1>5
  <2>2. /\ \A q \in 1..Len(sig.params) : Placed(infov, q, val, allocas) => q = p
        /\ \A a \in 1..Len(allocas) : val = Alloca(a) => allocas[a].what = "param"
    BY <1>3, <1>5, <2>1, ValuesDistinct
  <2>3. \/ \E q \in 1..registered : val = paramValues[q]
        \/ \E a \in 1..Len(allocas) : val = Alloca(a) /\ allocas[a].what # "param"
    BY <1>3 DEF Known
  <2> HIDE DEF val
  <2>4. CASE \E q \in 1..registered : val = paramValues[q]
    <3>1. PICK q \in 1..registered : val = paramValues[q]
      BY <2>4
    <3>2. q \in 1..Len(paramValues) /\ q \in 1..Len(sig.params) /\ q # p
      BY <1>3, <1>5
    <3>3. Placed(infov, q, val, allocas)
      BY <1>3, <3>1, <3>2
    <3>4. QED
      BY <2>2, <3>2, <3>3
  <2>5. QED
    BY <2>2, <2>3, <2>4
<1>7. /\ registered' = p
      /\ valueVarMap' = WithVariable(paramValues[p], Param(p))
      /\ argName' = [i \in DOMAIN argName |->
                       IF i - 1 \in SlotRange(k)
                       THEN Owner("param", p, i - infov[k].sigOffset) ELSE argName[i]]
      /\ UNCHANGED <<stage, argIdx, argAttr, paramValues, chainVal, rtnValueMem, allocas,
                     entry, initializer>>
  BY <1>6 DEF ParameterVariable, ParamInfo
<1>8. k \in DOMAIN infov /\ k # 1 /\ k # 2 /\ k - 2 = p
      /\ (HasSlots(infov, k) <=> infov[k].disp # "ignore")
  BY <1>3, <1>5, ParamFacts
<1>9. k = p + 2 /\ registered + 1 = p
  OBVIOUS
<1> HIDE DEF k, p
<1>10. Named(infov, k, argName') /\ DOMAIN argName' = 1..Len(elems)
  <2>1. DOMAIN argName' = 1..Len(elems)
    BY <1>3, <1>7
  <2> SUFFICES ASSUME NEW l \in DOMAIN infov, HasSlots(infov, l),
                      NEW j \in 1..Len(infov[l].abiTypes)
               PROVE  argName'[infov[l].sigOffset + j] =
                        IF l <= k THEN OwnerOf(l, j) ELSE Unnamed
    BY <2>1 DEF Named
  <2> DEFINE s == infov[l].sigOffset + j
  <2>2. argName[s] = IF l <= k - 1 THEN OwnerOf(l, j) ELSE Unnamed
    BY <1>3, <1>5 DEF Named
  <2>3. s \in DOMAIN argName /\ l \in Nat /\ infov[l].sigOffset \in Nat
    <3>1. s \in 1..Len(elems) /\ infov[l].sigOffset \in Nat
      BY <1>3, SlotPlace
    <3>2. QED
      BY <1>3, <1>4, <3>1
  <2>4. argName'[s] = IF s - 1 \in SlotRange(k)
                      THEN Owner("param", p, s - infov[k].sigOffset) ELSE argName[s]
    BY <1>7, <2>3
  <2>5. CASE l = k
    <3>1. s - 1 \in SlotRange(k) /\ s - infov[k].sigOffset = j
      <4> DEFINE o == infov[l].sigOffset
                 m == Len(infov[l].abiTypes)
      <4>1. o \in Nat /\ m \in Nat /\ j \in 1..m /\ s = o + j
        BY <1>4, <2>3, InfoParts
      <4>2. SlotRange(k) = o..(o + m - 1) /\ infov[k].sigOffset = o
        BY <1>8, <2>5, <4>1 DEF SlotRange, HasSlots
      <4> HIDE DEF o, m
      <4>3. s - 1 \in o..(o + m - 1) /\ s - o = j
        BY <4>1
      <4>4. QED
        BY <4>2, <4>3
    <3>2. OwnerOf(l, j) = Owner("param", p, j)
      BY <1>8, <2>5 DEF OwnerOf
    <3>3. l <= k
      BY <2>3, <2>5
    <3>4. QED
      BY <2>4, <3>1, <3>2, <3>3
  <2>6. CASE l # k
    <3>1. s - 1 \notin SlotRange(k)
      <4> SUFFICES ASSUME s - 1 \in SlotRange(k) PROVE FALSE
        OBVIOUS
      <4> DEFINE o == infov[k].sigOffset
                 m == Len(infov[k].abiTypes)
                 i == s - o
      <4>1. HasSlots(infov, k) /\ s - 1 \in o..(o + m - 1)
        BY <1>8 DEF SlotRange
      <4>2. o \in Int /\ m \in Nat /\ s \in Nat
        BY <1>4, <1>8, <2>3, InfoParts
      <4> HIDE DEF o, m
      <4>3. s = infov[l].sigOffset + j
        OBVIOUS
      <4> HIDE DEF s
      <4>4. i \in 1..m /\ o + i = s
        BY <4>1, <4>2
      <4> HIDE DEF i
      <4>5. i \in 1..Len(infov[k].abiTypes)
            /\ infov[k].sigOffset + i = infov[l].sigOffset + j
        BY <4>3, <4>4 DEF o, m
      <4>6. Analyzed /\ k \in DOMAIN infov /\ HasSlots(infov, k)
        BY <1>3, <1>8, <4>1
      <4>7. k = l
        BY <4>5, <4>6, SlotUnique
      <4>8. QED
        BY <2>6, <4>7
    <3>2. l <= k <=> l <= k - 1
      BY <1>5, <1>9, <2>3, <2>6
    <3>3. QED
      BY <2>2, <2>4, <3>1, <3>2
  <2>7. QED
    BY <2>5, <2>6
<1>11. Known(paramValues, p, allocas, DOMAIN valueVarMap')
  <2>1. DOMAIN valueVarMap' = DOMAIN valueVarMap \cup {paramValues[p]}
    BY <1>7 DEF WithVariable
  <2>2. p \in 1..p /\ \A q \in 1..registered : q \in 1..p
    BY <1>3, <1>5, <1>9
  <2>3. QED
    BY <1>3, <2>1, <2>2 DEF Known
<1>12. registered' \in 0..Len(sig.params) /\ Named(infov, registered' + 2, argName')
  BY <1>5, <1>7, <1>9, <1>10
<1>13. Known(paramValues, registered', allocas, DOMAIN valueVarMap')
  BY <1>7, <1>11
<1>14. ~(Len(paramValues) < Len(sig.params))
  BY <1>3, <1>4
<1>15. Constructed'
  <2>1. stage' # "new" /\ Analyzed' /\ sig'.cabi
    BY <1>2, <1>3, <1>7 DEF Analyzed
  <2>2. /\ paramValues' \in Seq(ValueType) /\ Len(paramValues') <= Len(sig'.params)
        /\ allocas' \in Seq(AllocaOwner) /\ argIdx' \in Nat
        /\ Cursor(infov', Len(paramValues') + 2, argIdx')
    <3>1. Len(paramValues) <= Len(sig.params)
      BY <1>3, <1>4
    <3>2. UNCHANGED <<paramValues, allocas, argIdx>>
      BY <1>7
    <3>3. QED
      BY <1>2, <1>3, <3>1, <3>2
  <2>3. /\ DOMAIN argAttr' = 1..Len(elems') /\ DOMAIN argName' = 1..Len(elems')
        /\ argAttr' = [i \in 1..Len(elems') |-> argAttr'[i]]
        /\ Attributed(infov', Len(paramValues') + 2, argAttr')
        /\ registered' \in 0..Len(sig'.params)
        /\ ~(Len(paramValues') < Len(sig'.params))
        /\ Named(infov', registered' + 2, argName')
    <3>1. /\ DOMAIN argAttr' = 1..Len(elems')
          /\ argAttr' = [i \in 1..Len(elems') |-> argAttr'[i]]
          /\ Attributed(infov', Len(paramValues') + 2, argAttr')
      BY <1>2, <1>3, <1>7
    <3>2. /\ DOMAIN argName' = 1..Len(elems') /\ registered' \in 0..Len(sig'.params)
          /\ Named(infov', registered' + 2, argName')
      BY <1>2, <1>10, <1>12
    <3>3. ~(Len(paramValues') < Len(sig'.params))
      BY <1>2, <1>7, <1>14
    <3>4. QED
      BY <3>1, <3>2, <3>3
  <2>4. /\ rtnValueMem' = (IF ReturnsInMemory THEN Argument(0) ELSE NoValue)'
        /\ chainVal' = Argument(ChainInfo.sigOffset)' \/ MadeFor(chainVal, Chain, allocas)'
    BY <1>2, <1>3, <1>7 DEF ReturnsInMemory, ReturnInfo, ChainInfo
  <2>5. /\ \A q \in 1..Len(paramValues') : Placed(infov', q, paramValues'[q], allocas')
        /\ Known(paramValues', registered', allocas', DOMAIN valueVarMap')
    BY <1>2, <1>3, <1>7, <1>13
  <2>6. QED
    BY <2>1, <2>2, <2>3, <2>4, <2>5 DEF Constructed
<1>16. QED
  BY <1>3, <1>7, <1>15 DEF FunctionInv, PrologMade, FailsOnlyWithoutAllocas

\* A local variable, a temporary or a copy of the chain has an alloca of its own.
LEMMA AllocaStep ==
  ASSUME OracleInv, EntryShapes, FunctionInv, Open, UNCHANGED oracleVars,
         NEW o \in AllocaOwner, o.what # "param", allocas' = Append(allocas, o),
         DOMAIN valueVarMap' \subseteq DOMAIN valueVarMap \cup {Alloca(Len(allocas) + 1)},
         chainVal' = chainVal \/ (chainVal' = Alloca(Len(allocas) + 1) /\ o = Chain),
         DOMAIN argName' = 1..Len(elems), Named(infov, registered + 2, argName'),
         UNCHANGED <<stage, argIdx, argAttr, paramValues, rtnValueMem, registered, entry,
                     initializer>>
  PROVE  FunctionInv'
<1>1. UNCHANGED <<sig, phase, infov, elems>>
  BY DEF oracleVars
<1>2. /\ stage = "setup" /\ Analyzed /\ sig.cabi
      /\ paramValues \in Seq(ValueType) /\ Len(paramValues) = Len(sig.params)
      /\ allocas \in Seq(AllocaOwner)
      /\ argIdx \in Nat /\ Cursor(infov, Len(paramValues) + 2, argIdx)
      /\ DOMAIN argAttr = 1..Len(elems) /\ argAttr = [i \in 1..Len(elems) |-> argAttr[i]]
      /\ Attributed(infov, Len(paramValues) + 2, argAttr)
      /\ registered \in 0..Len(sig.params)
      /\ rtnValueMem = IF ReturnsInMemory THEN Argument(0) ELSE NoValue
      /\ chainVal = Argument(ChainInfo.sigOffset) \/ MadeFor(chainVal, Chain, allocas)
      /\ \A q \in 1..Len(paramValues) : Placed(infov, q, paramValues[q], allocas)
      /\ Known(paramValues, registered, allocas, DOMAIN valueVarMap)
  BY OpenFacts
<1>3. Len(sig.params) \in Nat /\ Len(allocas) \in Nat
  BY <1>2, OracleFacts, LenProperties
<1> DEFINE made == Append(allocas, o)
           new == Alloca(Len(allocas) + 1)
<1>4. /\ made \in Seq(AllocaOwner)
      /\ MadeFor(new, o, made)
      /\ \A val, owner : MadeFor(val, owner, allocas) => MadeFor(val, owner, made)
      /\ \A v, p, val : Placed(v, p, val, allocas) => Placed(v, p, val, made)
      /\ \A values, n, known :
           Known(values, n, allocas, known) => Known(values, n, made, known)
  BY <1>2, AllocaAdded
<1>5. allocas' = made /\ DOMAIN valueVarMap' \subseteq DOMAIN valueVarMap \cup {new}
      /\ (chainVal' = chainVal \/ (chainVal' = new /\ o = Chain))
  OBVIOUS
<1> HIDE DEF made, new
<1>6. Known(paramValues, registered, made, DOMAIN valueVarMap')
  <2>1. Known(paramValues, registered, made, DOMAIN valueVarMap)
    BY <1>2, <1>4
  <2>2. \E a \in 1..Len(made) : new = Alloca(a) /\ made[a].what # "param"
    BY <1>4 DEF MadeFor
  <2>3. QED
    BY <1>5, <2>1, <2>2 DEF Known
<1>7. chainVal' = Argument(ChainInfo.sigOffset) \/ MadeFor(chainVal', Chain, made)
  BY <1>2, <1>4, <1>5
<1>8. Constructed'
  <2>1. stage' # "new" /\ Analyzed' /\ sig'.cabi
    BY <1>1, <1>2 DEF Analyzed
  <2>2. /\ paramValues' \in Seq(ValueType) /\ Len(paramValues') <= Len(sig'.params)
        /\ allocas' \in Seq(AllocaOwner) /\ argIdx' \in Nat
        /\ Cursor(infov', Len(paramValues') + 2, argIdx')
    BY <1>1, <1>2, <1>3, <1>4, <1>5
  <2>3. /\ DOMAIN argAttr' = 1..Len(elems') /\ DOMAIN argName' = 1..Len(elems')
        /\ argAttr' = [i \in 1..Len(elems') |-> argAttr'[i]]
        /\ Attributed(infov', Len(paramValues') + 2, argAttr')
        /\ registered' \in 0..Len(sig'.params)
        /\ ~(Len(paramValues') < Len(sig'.params))
        /\ Named(infov', registered' + 2, argName')
    BY <1>1, <1>2, <1>3
  <2>4. /\ rtnValueMem' = (IF ReturnsInMemory THEN Argument(0) ELSE NoValue)'
        /\ chainVal' = Argument(ChainInfo.sigOffset)' \/ MadeFor(chainVal, Chain, allocas)'
    BY <1>1, <1>2, <1>5, <1>7 DEF ReturnsInMemory, ReturnInfo, ChainInfo
  <2>5. /\ \A q \in 1..Len(paramValues') : Placed(infov', q, paramValues'[q], allocas')
        /\ Known(paramValues', registered', allocas', DOMAIN valueVarMap')
    BY <1>1, <1>2, <1>4, <1>5, <1>6
  <2>6. QED
    BY <2>1, <2>2, <2>3, <2>4, <2>5 DEF Constructed
<1>9. QED
  BY <1>2, <1>8 DEF FunctionInv, PrologMade, FailsOnlyWithoutAllocas

LEMMA ChainVariableStep ==
  OracleInv /\ EntryShapes /\ FunctionInv /\ StaticChainVariable /\ UNCHANGED oracleVars
    => FunctionInv'
<1> SUFFICES ASSUME OracleInv, EntryShapes, FunctionInv, StaticChainVariable,
                    UNCHANGED oracleVars
             PROVE  FunctionInv'
  OBVIOUS
<1>1. /\ Open
      /\ chainVal' = Alloca(Len(allocas) + 1)
      /\ allocas' = Append(allocas, Chain)
      /\ valueVarMap' = WithVariable(chainVal', Chain)
      /\ argName' = [argName EXCEPT ![ChainInfo.sigOffset + 1] = Chain]
      /\ UNCHANGED <<stage, argIdx, argAttr, paramValues, rtnValueMem, registered, entry,
                     initializer>>
  BY DEF StaticChainVariable
<1>2. /\ Analyzed /\ sig.cabi /\ registered \in 0..Len(sig.params)
      /\ DOMAIN argName = 1..Len(elems) /\ Named(infov, registered + 2, argName)
  BY <1>1, OpenFacts
<1>3. Chain \in AllocaOwner /\ Chain.what # "param"
  BY DEF Chain, Owner, AllocaOwner
<1>4. DOMAIN valueVarMap' \subseteq DOMAIN valueVarMap \cup {Alloca(Len(allocas) + 1)}
  BY <1>1 DEF WithVariable
<1>5. DOMAIN argName' = 1..Len(elems) /\ Named(infov, registered + 2, argName')
  <2> DEFINE s == ChainInfo.sigOffset + 1
  <2>1. /\ 2 \in DOMAIN infov /\ HasSlots(infov, 2) /\ Len(infov[2].abiTypes) = 1
        /\ s = infov[2].sigOffset + 1
    BY <1>2, FirstFacts
  <2>2. 1 \in 1..Len(infov[2].abiTypes) /\ 2 <= registered + 2
    <3>1. Len(sig.params) \in Nat
      BY <1>2, OracleFacts
    <3>2. registered \in Nat
      BY <1>2, <3>1
    <3>3. QED
      BY <2>1, <3>2
  <2>3. argName[infov[2].sigOffset + 1] = OwnerOf(2, 1)
    <3>1. \A j \in 1..Len(infov[2].abiTypes) :
            argName[infov[2].sigOffset + j] =
              IF 2 <= registered + 2 THEN OwnerOf(2, j) ELSE Unnamed
      BY <1>2, <2>1 DEF Named
    <3>2. QED
      BY <2>2, <3>1
  <2>4. argName[s] = Chain
    BY <2>1, <2>3 DEF OwnerOf
  <2> HIDE DEF s
  <2>5. \A i \in DOMAIN argName : argName'[i] = argName[i]
    BY <1>1, <2>4 DEF s
  <2>6. DOMAIN argName' = DOMAIN argName
    BY <1>1
  <2>7. Named(infov, registered + 2, argName')
    <3> SUFFICES ASSUME NEW l \in DOMAIN infov, HasSlots(infov, l),
                        NEW j \in 1..Len(infov[l].abiTypes)
                 PROVE  argName'[infov[l].sigOffset + j] =
                          IF l <= registered + 2 THEN OwnerOf(l, j) ELSE Unnamed
      BY DEF Named
    <3>1. infov[l].sigOffset + j \in DOMAIN argName
      BY <1>2, SlotPlace
    <3>2. argName'[infov[l].sigOffset + j] = argName[infov[l].sigOffset + j]
      BY <2>5, <3>1
    <3>3. QED
      BY <1>2, <3>2 DEF Named
  <2>8. QED
    BY <1>2, <2>6, <2>7
<1>6. QED
  BY <1>1, <1>3, <1>4, <1>5, AllocaStep

LEMMA LocalVariableStep ==
  OracleInv /\ EntryShapes /\ FunctionInv /\ (LocalVariable \/ CreateTemporary)
    /\ UNCHANGED oracleVars => FunctionInv'
<1> SUFFICES ASSUME OracleInv, EntryShapes, FunctionInv, LocalVariable \/ CreateTemporary,
                    UNCHANGED oracleVars
             PROVE  FunctionInv'
  OBVIOUS
<1>1. PICK o \in AllocaOwner : o.what # "param" /\ allocas' = Append(allocas, o)
  <2>1. PICK w \in {"local", "temp"} : allocas' = Append(allocas, Owner(w, 0, 0))
    BY DEF LocalVariable, CreateTemporary
  <2>2. Owner(w, 0, 0) \in AllocaOwner /\ Owner(w, 0, 0).what # "param"
    BY DEF Owner, AllocaOwner
  <2>3. QED
    BY <2>1, <2>2
<1>2. /\ Open /\ chainVal' = chainVal
      /\ DOMAIN valueVarMap' \subseteq DOMAIN valueVarMap \cup {Alloca(Len(allocas) + 1)}
      /\ UNCHANGED <<stage, argIdx, argAttr, paramValues, rtnValueMem, registered, entry,
                     initializer, argName>>
  BY DEF LocalVariable, CreateTemporary, WithVariable
<1>3. DOMAIN argName' = 1..Len(elems) /\ Named(infov, registered + 2, argName')
  BY <1>2, OpenFacts
<1>4. QED
  BY <1>1, <1>2, <1>3, AllocaStep

-----------------------------------------------------------------------------
(* The prolog.                                                              *)

\* What genProlog adds for parameter p.
SpillsOf(p) ==
  IF ParamInfo(p).disp = "direct" THEN Spill(ParamInfo(p), paramValues[p]) ELSE <<>>

\* The stores genArgSpill makes.
LEMMA SpillIs ==
  ASSUME OracleInv, Analyzed, NEW k \in DOMAIN infov, NEW sploc \in ValueType
  PROVE  /\ Spill(infov[k], sploc) \in Seq(InstType)
         /\ Len(Spill(infov[k], sploc)) = Len(infov[k].abiTypes)
         /\ Len(infov[k].abiTypes) \in Nat
         /\ \A j \in 1..Len(infov[k].abiTypes) :
              Spill(infov[k], sploc)[j] = Inst("store", sploc, infov[k].sigOffset + j - 1, j)
<1> DEFINE m == Len(infov[k].abiTypes)
           o == infov[k].sigOffset
           s == [j \in 1..m |-> Inst("store", sploc, o + j - 1, j)]
<1>1. m \in Nat /\ o \in Int
  <2>1. infov \in Seq(InfoType)
    BY OracleFacts
  <2>2. QED
    BY <2>1, InfoParts
<1>2. Spill(infov[k], sploc) = s
  BY DEF Spill
<1> HIDE DEF m, o
<1>3. \A j \in 1..m : Inst("store", sploc, o + j - 1, j) \in InstType
  BY <1>1 DEF Inst, InstType
<1>4. /\ s \in Seq(InstType) /\ Len(s) = m
      /\ \A j \in 1..m : s[j] = Inst("store", sploc, o + j - 1, j)
  BY <1>1, <1>3
<1> HIDE DEF s
<1>5. QED
  BY <1>1, <1>2, <1>4 DEF m, o

\* The recursion over the parameters.
LEMMA SpillsUpToIs ==
  ASSUME Len(sig.params) \in Nat, ChainSpill \in Seq(InstType),
         \A p \in 1..Len(sig.params) : SpillsOf(p) \in Seq(InstType)
  PROVE  /\ SpillsUpTo[0] = ChainSpill
         /\ \A p \in 1..Len(sig.params) : SpillsUpTo[p] = SpillsUpTo[p - 1] \o SpillsOf(p)
         /\ \A p \in 0..Len(sig.params) : SpillsUpTo[p] \in Seq(InstType)
<1> DEFINE n == Len(sig.params)
           S == Seq(InstType)
           base == ChainSpill
           step == [x \in (1..n) \X S |-> x[2] \o SpillsOf(x[1])]
           Rec(f) == [p \in 0..n |-> IF p = 0 THEN base ELSE f[p - 1] \o SpillsOf(p)]
<1>1. step \in [(1..n) \X S -> S]
  <2>1. \A p \in 1..n, s \in S : s \o SpillsOf(p) \in S
    BY ConcatProperties
  <2>2. QED
    BY <2>1
<1>2. n \in Nat /\ base \in S
  OBVIOUS
<1>3. \A p \in 1..n, s \in S : step[<<p, s>>] = s \o SpillsOf(p)
  OBVIOUS
<1>4. SpillsUpTo = CHOOSE f : f = Rec(f)
  BY DEF SpillsUpTo, SpillsOf
<1> HIDE DEF step, S, n, base
<1>5. PICK f \in [0..n -> S] : f[0] = base /\ \A i \in 1..n : f[i] = step[<<i, f[i - 1]>>]
  <2>1. \E f \in [0..n -> S] : Follows(f, n, base, step)
    BY <1>1, <1>2, IntervalRecursion
  <2>2. QED
    BY <2>1 DEF Follows
<1>6. f = Rec(f)
  <2>1. \A p \in 0..n : f[p] = IF p = 0 THEN base ELSE f[p - 1] \o SpillsOf(p)
    <3> SUFFICES ASSUME NEW p \in 0..n, p # 0 PROVE f[p] = f[p - 1] \o SpillsOf(p)
      BY <1>5
    <3>1. p \in 1..n /\ p - 1 \in 0..n
      BY <1>2
    <3>2. f[p - 1] \in S
      BY <1>5, <3>1
    <3>3. QED
      BY <1>3, <1>5, <3>1, <3>2
  <2>2. QED
    BY <1>5, <2>1
<1>7. SpillsUpTo = Rec(SpillsUpTo)
  <2> HIDE DEF Rec
  <2>1. QED
    BY <1>4, <1>6
<1>8. /\ SpillsUpTo[0] = base
      /\ \A p \in 1..n : SpillsUpTo[p] = SpillsUpTo[p - 1] \o SpillsOf(p)
  <2>1. \A p \in 0..n : SpillsUpTo[p] = IF p = 0 THEN base
                                        ELSE SpillsUpTo[p - 1] \o SpillsOf(p)
    BY <1>7
  <2>2. 0 \in 0..n /\ \A p \in 1..n : p \in 0..n /\ p # 0
    BY <1>2
  <2>3. QED
    BY <2>1, <2>2
<1>9. \A p \in 0..n : SpillsUpTo[p] \in S
  <2> DEFINE T == {p \in 0..n : SpillsUpTo[p] \in S}
  <2>1. 0 \in T
    BY <1>2, <1>8
  <2>2. ASSUME NEW p \in 1..n, p - 1 \in T PROVE p \in T
    <3>1. SpillsOf(p) \in S /\ SpillsUpTo[p - 1] \in S
      BY <2>2 DEF n, S
    <3>2. SpillsUpTo[p - 1] \o SpillsOf(p) \in S
      BY <3>1, ConcatProperties DEF S
    <3>3. SpillsUpTo[p] \in S
      BY <1>8, <3>2
    <3>4. p \in 0..n
      BY <1>2
    <3>5. QED
      BY <3>3, <3>4
  <2> HIDE DEF T
  <2>3. 0..n \subseteq T
    BY <1>2, <2>1, <2>2, IntervalInduction
  <2>4. QED
    BY <2>3 DEF T
<1>10. QED
  BY <1>8, <1>9 DEF n, S, base

\* The instructions of s are spills of entries up to k, each of another argument.
Stored(v, k, s, chain, values) ==
  /\ \A i \in 1..Len(s) : \E l \in DOMAIN v :
       /\ l <= k /\ Spilled(v, l)
       /\ \E j \in 1..Len(v[l].abiTypes) : s[i] = StoreOf(v, l, j, chain, values)
  /\ \A i, j \in 1..Len(s) : i # j => s[i].arg # s[j].arg

\* Spilling one entry more.
LEMMA AppendSpills ==
  ASSUME OracleInv, Analyzed, NEW k \in DOMAIN infov, Spilled(infov, k), k # 1,
         NEW chain, NEW values, SpillPlace(k, chain, values) \in ValueType,
         NEW s \in Seq(InstType), Stored(infov, k - 1, s, chain, values),
         NEW t, t = Spill(infov[k], SpillPlace(k, chain, values))
  PROVE  /\ s \o t \in Seq(InstType) /\ Len(s \o t) = Len(s) + Len(infov[k].abiTypes)
         /\ Len(infov[k].abiTypes) \in Nat
         /\ Stored(infov, k, s \o t, chain, values)
         /\ \A i \in 1..Len(s) : (s \o t)[i] = s[i]
         /\ \A j \in 1..Len(infov[k].abiTypes) :
              (s \o t)[Len(s) + j] = StoreOf(infov, k, j, chain, values)
<1> DEFINE m == Len(infov[k].abiTypes)
           n == Len(s)
           r == s \o t
<1>1. /\ t \in Seq(InstType) /\ Len(t) = m /\ m \in Nat
      /\ \A j \in 1..m : t[j] = StoreOf(infov, k, j, chain, values)
  BY SpillIs DEF StoreOf
<1>2. /\ r \in Seq(InstType) /\ Len(r) = n + Len(t) /\ n \in Nat
      /\ \A i \in 1..n + Len(t) : r[i] = IF i <= n THEN s[i] ELSE t[i - n]
  <2>1. t \in Seq(InstType)
    BY <1>1
  <2>2. QED
    BY <2>1, ConcatProperties, LenProperties
<1>3. /\ DOMAIN infov = 1..Len(infov) /\ Len(infov) \in Nat
  BY OracleFacts
<1>4. HasSlots(infov, k)
  BY HasSlotsIs DEF Spilled
<1> HIDE DEF m, r
<1>5. \A i \in 1..n : r[i] = s[i] /\ i \in 1..Len(r)
  BY <1>1, <1>2
<1>6. \A j \in 1..m : r[n + j] = StoreOf(infov, k, j, chain, values)
  <2> SUFFICES ASSUME NEW j \in 1..m PROVE r[n + j] = StoreOf(infov, k, j, chain, values)
    OBVIOUS
  <2>1. n + j \in 1..n + Len(t) /\ ~(n + j <= n) /\ (n + j) - n = j
    BY <1>1, <1>2
  <2>2. r[n + j] = t[j]
    BY <1>2, <2>1
  <2>3. QED
    BY <1>1, <2>2
<1>7. \A i \in 1..Len(r) : i \in 1..n \/ \E j \in 1..m : i = n + j
  <2> SUFFICES ASSUME NEW i \in 1..Len(r), i \notin 1..n PROVE \E j \in 1..m : i = n + j
    OBVIOUS
  <2>1. i - n \in 1..m /\ i = n + (i - n)
    BY <1>1, <1>2
  <2>2. QED
    BY <2>1
<1>8. \A i \in 1..n : \E l \in DOMAIN infov :
        /\ l <= k - 1 /\ Spilled(infov, l)
        /\ \E j \in 1..Len(infov[l].abiTypes) : s[i] = StoreOf(infov, l, j, chain, values)
  BY DEF Stored
<1>9. ASSUME NEW i \in 1..Len(r)
      PROVE  \E l \in DOMAIN infov :
               /\ l <= k /\ Spilled(infov, l)
               /\ \E j \in 1..Len(infov[l].abiTypes) :
                    r[i] = StoreOf(infov, l, j, chain, values)
  <2>1. CASE i \in 1..n
    <3>1. PICK l \in DOMAIN infov :
            /\ l <= k - 1 /\ Spilled(infov, l)
            /\ \E j \in 1..Len(infov[l].abiTypes) :
                 s[i] = StoreOf(infov, l, j, chain, values)
      BY <1>8, <2>1
    <3>2. l <= k
      BY <1>3, <3>1
    <3>3. QED
      BY <1>5, <2>1, <3>1, <3>2
  <2>2. CASE \E j \in 1..m : i = n + j
    <3>1. PICK j \in 1..m : i = n + j
      BY <2>2
    <3>2. r[i] = StoreOf(infov, k, j, chain, values) /\ j \in 1..Len(infov[k].abiTypes)
      BY <1>6, <3>1 DEF m
    <3>3. k <= k
      BY <1>3
    <3>4. QED
      BY <3>2, <3>3
  <2>3. QED
    BY <1>7, <2>1, <2>2
<1>10. ASSUME NEW i \in 1..n, NEW j \in 1..m PROVE r[i].arg # r[n + j].arg
  <2>1. PICK l \in DOMAIN infov :
          /\ l <= k - 1 /\ Spilled(infov, l)
          /\ \E h \in 1..Len(infov[l].abiTypes) :
               s[i] = StoreOf(infov, l, h, chain, values)
    BY <1>8
  <2>2. PICK h \in 1..Len(infov[l].abiTypes) : s[i] = StoreOf(infov, l, h, chain, values)
    BY <2>1
  <2>3. /\ r[i].arg = infov[l].sigOffset + h - 1
        /\ r[n + j].arg = infov[k].sigOffset + j - 1
    <3>1. \A e, x : StoreOf(infov, e, x, chain, values).arg = infov[e].sigOffset + x - 1
      BY DEF StoreOf, Inst
    <3>2. r[i] = StoreOf(infov, l, h, chain, values)
      BY <1>5, <2>2
    <3>3. r[n + j] = StoreOf(infov, k, j, chain, values)
      BY <1>6
    <3>4. QED
      BY <3>1, <3>2, <3>3
  <2>4. l # k /\ l # 1 /\ HasSlots(infov, l)
    <3>1. l # k /\ l # 1
      BY <1>3, <2>1 DEF Spilled
    <3>2. QED
      BY <2>1, <3>1, HasSlotsIs DEF Spilled
  <2>5. j \in 1..Len(infov[k].abiTypes)
    BY DEF m
  <2> SUFFICES ASSUME r[i].arg = r[n + j].arg PROVE FALSE
    OBVIOUS
  <2>6. infov[l].sigOffset \in Nat /\ infov[k].sigOffset \in Nat
    BY <1>4, <2>4, <2>5, SlotPlace
  <2>7. infov[l].sigOffset + h - 1 = infov[k].sigOffset + j - 1
    BY <2>3
  <2>8. infov[l].sigOffset + h = infov[k].sigOffset + j
    <3> DEFINE a == infov[l].sigOffset
               b == infov[k].sigOffset
    <3>1. a \in Nat /\ b \in Nat /\ a + h - 1 = b + j - 1 /\ h \in Int /\ j \in Int
      BY <1>1, <2>6, <2>7
    <3> HIDE DEF a, b
    <3>2. a + h = b + j
      BY <3>1
    <3>3. QED
      BY <3>2 DEF a, b
  <2>9. l = k
    BY <1>4, <2>4, <2>5, <2>8, SlotUnique
  <2>10. QED
    BY <2>4, <2>9
<1>11. ASSUME NEW i \in 1..m, NEW j \in 1..m, i # j PROVE r[n + i].arg # r[n + j].arg
  <2>1. /\ r[n + i].arg = infov[k].sigOffset + i - 1
        /\ r[n + j].arg = infov[k].sigOffset + j - 1
    <3>1. \A x : StoreOf(infov, k, x, chain, values).arg = infov[k].sigOffset + x - 1
      BY DEF StoreOf, Inst
    <3>2. /\ r[n + i] = StoreOf(infov, k, i, chain, values)
          /\ r[n + j] = StoreOf(infov, k, j, chain, values)
      BY <1>6
    <3>3. QED
      BY <3>1, <3>2
  <2>2. infov[k].sigOffset \in Nat
    BY <1>4, SlotPlace DEF m
  <2> DEFINE o == infov[k].sigOffset
  <2>3. /\ r[n + i].arg = o + i - 1 /\ r[n + j].arg = o + j - 1 /\ o \in Nat
    BY <2>1, <2>2
  <2> HIDE DEF o
  <2>4. QED
    BY <1>11, <2>3
<1>12. ASSUME NEW i \in 1..Len(r), NEW j \in 1..Len(r), i # j PROVE r[i].arg # r[j].arg
  <2>1. CASE i \in 1..n /\ j \in 1..n
    BY <1>5, <1>12, <2>1 DEF Stored
  <2>2. CASE i \in 1..n /\ j \notin 1..n
    BY <1>7, <1>10, <2>2
  <2>3. CASE i \notin 1..n /\ j \in 1..n
    BY <1>7, <1>10, <2>3
  <2>4. CASE i \notin 1..n /\ j \notin 1..n
    <3>1. PICK a \in 1..m : i = n + a
      BY <1>7, <2>4
    <3>2. PICK b \in 1..m : j = n + b
      BY <1>7, <2>4
    <3>3. a # b
      BY <1>12, <3>1, <3>2
    <3>4. QED
      BY <1>11, <3>1, <3>2, <3>3
  <2>5. QED
    BY <2>1, <2>2, <2>3, <2>4
<1>13. Stored(infov, k, r, chain, values)
  BY <1>9, <1>12 DEF Stored
<1>14. QED
  BY <1>1, <1>2, <1>5, <1>6, <1>13 DEF m, r

\* Parameter p has been spilled by the first stores of s.
DirectSpilled(p, s, upto) ==
  ParamInfo(p).disp = "direct" =>
    /\ upto \in 1..Len(s)
    /\ \A j \in 1..Len(ParamInfo(p).abiTypes) : \E i \in 1..upto :
         s[i] = StoreOf(infov, p + 2, j, chainVal, paramValues)

LEMMA OpenValues ==
  ASSUME OracleInv, EntryShapes, FunctionInv, Open
  PROVE  /\ chainVal \in ValueType
         /\ \A p \in 1..Len(sig.params) : paramValues[p] \in ValueType
<1>1. /\ Analyzed /\ sig.cabi
      /\ paramValues \in Seq(ValueType) /\ Len(paramValues) = Len(sig.params)
      /\ chainVal = Argument(ChainInfo.sigOffset) \/ MadeFor(chainVal, Chain, allocas)
  BY OpenFacts
<1>2. ASSUME chainVal = Argument(ChainInfo.sigOffset) PROVE chainVal \in ValueType
  <2>1. \A i \in Nat : Argument(i) \in ValueType
    BY DEF Argument, Value, ValueType
  <2>2. ChainInfo.sigOffset \in Nat
    BY <1>1, FirstFacts
  <2>3. QED
    BY <1>2, <2>1, <2>2
<1>3. ASSUME MadeFor(chainVal, Chain, allocas) PROVE chainVal \in ValueType
  <2>1. \A a \in Nat : Alloca(a) \in ValueType
    BY DEF Alloca, Value, ValueType
  <2>2. PICK a \in 1..Len(allocas) : chainVal = Alloca(a)
    BY <1>3 DEF MadeFor
  <2>3. QED
    BY <2>1, <2>2
<1>4. \A p \in 1..Len(sig.params) : paramValues[p] \in ValueType
  BY <1>1, ElementOfSeq
<1>5. QED
  BY <1>1, <1>2, <1>3, <1>4

\* The chain is spilled if it has a variable.
LEMMA ChainSpilled ==
  ASSUME OracleInv, EntryShapes, FunctionInv, Open
  PROVE  ChainSpill \in Seq(InstType) /\ Stored(infov, 2, ChainSpill, chainVal, paramValues)
<1>1. Analyzed /\ sig.cabi
  BY OpenFacts
<1>2. <<>> \in Seq(InstType) /\ Len(<<>>) = 0
  BY EmptySeq
<1>3. \A k : Stored(infov, k, <<>>, chainVal, paramValues)
  BY <1>2 DEF Stored
<1>4. CASE chainVal = Argument(ChainInfo.sigOffset)
  BY <1>2, <1>3, <1>4 DEF ChainSpill
<1>5. CASE chainVal # Argument(ChainInfo.sigOffset)
  <2> DEFINE t == Spill(infov[2], SpillPlace(2, chainVal, paramValues))
  <2>1. ChainSpill = t
    BY <1>1, <1>5, FirstFacts DEF ChainSpill, SpillPlace
  <2>2. 2 \in DOMAIN infov /\ Spilled(infov, 2) /\ 2 # 1
    BY <1>1, FirstFacts DEF Spilled
  <2>3. SpillPlace(2, chainVal, paramValues) \in ValueType
    BY OpenValues DEF SpillPlace
  <2>4. t \in Seq(InstType)
    BY <1>1, <2>2, <2>3, SpillIs
  <2>5. Stored(infov, 2 - 1, <<>>, chainVal, paramValues)
    BY <1>3
  <2> HIDE DEF t
  <2>6. t = Spill(infov[2], SpillPlace(2, chainVal, paramValues))
    BY DEF t
  <2>7. Stored(infov, 2, <<>> \o t, chainVal, paramValues)
    BY <1>1, <1>2, <2>2, <2>3, <2>5, <2>6, AppendSpills
  <2>8. <<>> \o t = t
    BY <2>4, ConcatEmptySeq
  <2>9. QED
    BY <2>1, <2>4, <2>7, <2>8
<1>6. QED
  BY <1>4, <1>5

\* One parameter after the other.
LEMMA NextSpilled ==
  ASSUME OracleInv, EntryShapes, FunctionInv, Open, NEW p \in 1..Len(sig.params),
         NEW s \in Seq(InstType), Stored(infov, p + 1, s, chainVal, paramValues),
         NEW t, t = s \o SpillsOf(p)
  PROVE  /\ Stored(infov, p + 2, t, chainVal, paramValues)
         /\ Len(s) <= Len(t) /\ Len(t) \in Nat /\ \A i \in 1..Len(s) : t[i] = s[i]
         /\ DirectSpilled(p, t, Len(t))
<1> DEFINE k == p + 2
           m == Len(infov[k].abiTypes)
<1>1. Analyzed /\ sig.cabi /\ Len(sig.params) \in Nat /\ Len(s) \in Nat
      /\ DOMAIN infov = 1..Len(infov)
  <2>1. Analyzed /\ sig.cabi
    BY OpenFacts
  <2>2. QED
    BY <2>1, OracleFacts, LenProperties
<1>2. /\ k \in DOMAIN infov /\ k # 1 /\ k # 2 /\ k >= 2 /\ k - 2 = p /\ k - 1 = p + 1
      /\ ParamInfo(p) = infov[k]
      /\ infov[k].disp = "direct" => m \in 1..2
  <2>1. k - 1 = p + 1
    BY <1>1
  <2>2. QED
    BY <1>1, <2>1, ParamFacts
<1>3. k = p + 2
  OBVIOUS
<1> HIDE DEF k
<1>4. CASE infov[k].disp = "direct"
  <2> DEFINE u == Spill(infov[k], SpillPlace(k, chainVal, paramValues))
  <2>1. SpillsOf(p) = u
    BY <1>2, <1>4 DEF SpillsOf, SpillPlace
  <2>2. Spilled(infov, k) /\ SpillPlace(k, chainVal, paramValues) \in ValueType
    BY <1>2, <1>4, OpenValues DEF Spilled, SpillPlace
  <2> HIDE DEF u
  <2>3. u = Spill(infov[k], SpillPlace(k, chainVal, paramValues))
    BY DEF u
  <2>4. Stored(infov, k - 1, s, chainVal, paramValues)
    BY <1>2
  <2>5. /\ s \o u \in Seq(InstType) /\ Len(s \o u) = Len(s) + Len(infov[k].abiTypes)
        /\ Stored(infov, k, s \o u, chainVal, paramValues)
        /\ \A i \in 1..Len(s) : (s \o u)[i] = s[i]
        /\ \A j \in 1..Len(infov[k].abiTypes) :
             (s \o u)[Len(s) + j] = StoreOf(infov, k, j, chainVal, paramValues)
    <3>1. Analyzed /\ k \in DOMAIN infov /\ k # 1
      BY <1>1, <1>2
    <3>2. s \o u \in Seq(InstType) /\ Len(s \o u) = Len(s) + Len(infov[k].abiTypes)
      <4>1. u \in Seq(InstType) /\ Len(u) = Len(infov[k].abiTypes)
        BY <2>2, <2>3, <3>1, SpillIs
      <4>2. s \o u \in Seq(InstType) /\ Len(s \o u) = Len(s) + Len(u)
        BY <4>1, ConcatProperties
      <4>3. QED
        BY <4>1, <4>2
    <3>3. Stored(infov, k, s \o u, chainVal, paramValues)
      BY <2>2, <2>3, <2>4, <3>1, AppendSpills
    <3>4. \A i \in 1..Len(s) : (s \o u)[i] = s[i]
      BY <2>2, <2>3, <2>4, <3>1, AppendSpills
    <3>5. \A j \in 1..Len(infov[k].abiTypes) :
            (s \o u)[Len(s) + j] = StoreOf(infov, k, j, chainVal, paramValues)
      BY <2>2, <2>3, <2>4, <3>1, AppendSpills
    <3>6. QED
      BY <3>2, <3>3, <3>4, <3>5
  <2>6. t = s \o u
    BY <2>1
  <2>7. Len(t) = Len(s) + m /\ m \in 1..2
    BY <1>2, <1>4, <2>5, <2>6
  <2>8. /\ \A j \in 1..m : t[Len(s) + j] = StoreOf(infov, k, j, chainVal, paramValues)
        /\ Stored(infov, k, t, chainVal, paramValues)
        /\ \A i \in 1..Len(s) : t[i] = s[i]
    BY <2>5, <2>6
  <2> HIDE DEF m
  <2>9. \A j \in 1..m : Len(s) + j \in 1..Len(t)
    BY <1>1, <2>7
  <2>10. Len(t) \in 1..Len(t) /\ Len(s) <= Len(t) /\ Len(t) \in Nat
    BY <1>1, <2>7
  <2>11. \A j \in 1..m : \E i \in 1..Len(t) :
           t[i] = StoreOf(infov, k, j, chainVal, paramValues)
    BY <2>8, <2>9
  <2>12. DirectSpilled(p, t, Len(t))
    BY <1>2, <1>3, <2>10, <2>11 DEF DirectSpilled, m
  <2>13. QED
    BY <1>3, <2>8, <2>10, <2>12
<1>5. CASE infov[k].disp # "direct"
  <2>1. SpillsOf(p) = <<>>
    BY <1>2, <1>5 DEF SpillsOf
  <2>2. t = s
    BY <2>1, ConcatEmptySeq
  <2>3. Stored(infov, k, s, chainVal, paramValues)
    <3>1. \A l \in DOMAIN infov : l <= p + 1 => l <= k
      BY <1>1, <1>2
    <3>2. QED
      BY <3>1 DEF Stored
  <2>4. DirectSpilled(p, t, Len(t))
    BY <1>2, <1>5 DEF DirectSpilled
  <2>5. QED
    BY <1>1, <1>3, <2>2, <2>3, <2>4
<1>6. QED
  BY <1>4, <1>5

LEMMA SpillsMade ==
  ASSUME OracleInv, EntryShapes, FunctionInv, Open
  PROVE  \A q \in 0..Len(sig.params) :
           /\ SpillsUpTo[q] \in Seq(InstType)
           /\ Stored(infov, q + 2, SpillsUpTo[q], chainVal, paramValues)
           /\ \A p \in 1..q : DirectSpilled(p, SpillsUpTo[q], Len(SpillsUpTo[p]))
<1> DEFINE n == Len(sig.params)
           T == {q \in 0..n :
                   /\ SpillsUpTo[q] \in Seq(InstType)
                   /\ Stored(infov, q + 2, SpillsUpTo[q], chainVal, paramValues)
                   /\ \A p \in 1..q : DirectSpilled(p, SpillsUpTo[q], Len(SpillsUpTo[p]))}
<1>1. Analyzed /\ sig.cabi /\ n \in Nat
  <2>1. Analyzed /\ sig.cabi
    BY OpenFacts
  <2>2. QED
    BY <2>1, OracleFacts
<1>2. \A p \in 1..n : SpillsOf(p) \in Seq(InstType)
  <2> SUFFICES ASSUME NEW p \in 1..n PROVE SpillsOf(p) \in Seq(InstType)
    OBVIOUS
  <2>1. p + 2 \in DOMAIN infov /\ ParamInfo(p) = infov[p + 2]
    BY <1>1, ParamFacts
  <2>2. Spill(infov[p + 2], paramValues[p]) \in Seq(InstType)
    BY <1>1, <2>1, OpenValues, SpillIs
  <2>3. <<>> \in Seq(InstType)
    BY EmptySeq
  <2>4. QED
    BY <2>1, <2>2, <2>3 DEF SpillsOf
<1>3. /\ SpillsUpTo[0] = ChainSpill
      /\ \A p \in 1..n : SpillsUpTo[p] = SpillsUpTo[p - 1] \o SpillsOf(p)
      /\ \A p \in 0..n : SpillsUpTo[p] \in Seq(InstType)
  BY <1>1, <1>2, ChainSpilled, SpillsUpToIs
<1>4. 0 \in T
  <2>1. 0 \in 0..n /\ 0 + 2 = 2 /\ \A p \in 1..0 : FALSE
    BY <1>1
  <2>2. Stored(infov, 0 + 2, SpillsUpTo[0], chainVal, paramValues)
    BY <1>3, <2>1, ChainSpilled
  <2>3. QED
    BY <1>3, <2>1, <2>2
<1>5. ASSUME NEW q \in 1..n, q - 1 \in T PROVE q \in T
  <2> DEFINE s == SpillsUpTo[q - 1]
             t == SpillsUpTo[q]
  <2>1. /\ s \in Seq(InstType) /\ Stored(infov, (q - 1) + 2, s, chainVal, paramValues)
        /\ \A p \in 1..(q - 1) : DirectSpilled(p, s, Len(SpillsUpTo[p]))
    BY <1>5
  <2>2. (q - 1) + 2 = q + 1 /\ q \in 0..n /\ \A p \in 1..q : p = q \/ p \in 1..(q - 1)
    BY <1>1
  <2>3. t = s \o SpillsOf(q) /\ t \in Seq(InstType) /\ Len(s) \in Nat
    BY <1>3, <2>1, <2>2, LenProperties
  <2>4. Stored(infov, q + 1, s, chainVal, paramValues)
    BY <2>1, <2>2
  <2> HIDE DEF s, t
  <2>5. /\ Stored(infov, q + 2, t, chainVal, paramValues)
        /\ Len(s) <= Len(t) /\ Len(t) \in Nat /\ \A i \in 1..Len(s) : t[i] = s[i]
        /\ DirectSpilled(q, t, Len(t))
    BY <2>1, <2>3, <2>4, NextSpilled
  <2>6. ASSUME NEW p, NEW upto, DirectSpilled(p, s, upto) PROVE DirectSpilled(p, t, upto)
    <3> SUFFICES ASSUME ParamInfo(p).disp = "direct"
                 PROVE  /\ upto \in 1..Len(t)
                        /\ \A j \in 1..Len(ParamInfo(p).abiTypes) : \E i \in 1..upto :
                             t[i] = StoreOf(infov, p + 2, j, chainVal, paramValues)
      BY DEF DirectSpilled
    <3>1. /\ upto \in 1..Len(s)
          /\ \A j \in 1..Len(ParamInfo(p).abiTypes) : \E i \in 1..upto :
               s[i] = StoreOf(infov, p + 2, j, chainVal, paramValues)
      BY <2>6 DEF DirectSpilled
    <3>2. upto \in 1..Len(t) /\ \A i \in 1..upto : i \in 1..Len(s)
      BY <2>3, <2>5, <3>1
    <3>3. \A i \in 1..upto : t[i] = s[i]
      BY <2>5, <3>2
    <3>4. QED
      BY <3>1, <3>2, <3>3
  <2>7. \A p \in 1..q : DirectSpilled(p, t, Len(SpillsUpTo[p]))
    <3> SUFFICES ASSUME NEW p \in 1..q PROVE DirectSpilled(p, t, Len(SpillsUpTo[p]))
      OBVIOUS
    <3>1. CASE p = q
      BY <2>5, <3>1 DEF t
    <3>2. CASE p \in 1..(q - 1)
      BY <2>1, <2>6, <3>2
    <3>3. QED
      BY <2>2, <3>1, <3>2
  <2>8. QED
    BY <2>2, <2>3, <2>5, <2>7 DEF t
<1> HIDE DEF T
<1>6. 0..n \subseteq T
  BY <1>1, <1>4, <1>5, IntervalInduction
<1>7. QED
  BY <1>6 DEF T

\* What the constructor and the client have done is left alone from now on.
LEMMA ConstructedKept ==
  ASSUME FunctionInv, stage # "new", stage' # "new", UNCHANGED oracleVars,
         UNCHANGED <<argIdx, argName, argAttr, paramValues, chainVal, rtnValueMem, allocas,
                     valueVarMap, registered>>
  PROVE  Constructed'
<1>1. UNCHANGED <<sig, phase, infov, elems>>
  BY DEF oracleVars
<1>2. QED
  BY <1>1 DEF FunctionInv, Constructed, Analyzed, ReturnsInMemory, ReturnInfo, ChainInfo

LEMMA GenPrologStep ==
  OracleInv /\ EntryShapes /\ FunctionInv /\ GenProlog /\ UNCHANGED oracleVars
    => FunctionInv'
<1> SUFFICES ASSUME OracleInv, EntryShapes, FunctionInv, GenProlog, UNCHANGED oracleVars
             PROVE  FunctionInv'
  OBVIOUS
<1> DEFINE n == Len(sig.params)
           made == Len(allocas)
           spills == SpillsUpTo[n]
           first == [i \in 1..made |-> Inst("alloca", Alloca(i), 0, 0)]
<1>1. /\ Open /\ registered = n /\ entry' = first \o spills
      /\ initializer' = [p \in Params |->
                           IF ParamInfo(p).disp = "direct" THEN made + Len(SpillsUpTo[p])
                           ELSE IF entry' # <<>> THEN 1 ELSE NoInst]
      /\ stage' = "prolog"
      /\ UNCHANGED <<argIdx, argName, argAttr, paramValues, chainVal, rtnValueMem, allocas,
                     valueVarMap, registered>>
  <2>1. \A p \in Params : p \in 0..n
    BY DEF Params
  <2>2. QED
    BY <2>1 DEF GenProlog
<1>2. UNCHANGED <<sig, phase, infov, elems>>
  BY DEF oracleVars
<1>3. /\ stage = "setup" /\ Analyzed /\ sig.cabi /\ Len(paramValues) = n
      /\ allocas \in Seq(AllocaOwner)
  BY <1>1, OpenFacts
<1>4. n \in Nat /\ made \in Nat
  BY <1>3, OracleFacts, LenProperties
<1>5. /\ spills \in Seq(InstType)
      /\ Stored(infov, n + 2, spills, chainVal, paramValues)
      /\ \A p \in 1..n : DirectSpilled(p, spills, Len(SpillsUpTo[p]))
  <2>1. n \in 0..n
    BY <1>4
  <2>2. QED
    BY <1>1, <2>1, SpillsMade
<1>6. /\ first \in Seq(InstType) /\ Len(first) = made
      /\ \A i \in 1..made : first[i] = Inst("alloca", Alloca(i), 0, 0)
  <2>1. \A i \in 1..made : Inst("alloca", Alloca(i), 0, 0) \in InstType
    BY DEF Inst, Alloca, Value, ValueType, InstType
  <2>2. QED
    BY <1>4, <2>1
<1> HIDE DEF first, spills
<1>7. /\ entry' \in Seq(InstType) /\ Len(entry') = made + Len(spills) /\ Len(spills) \in Nat
      /\ \A i \in 1..made + Len(spills) :
           entry'[i] = IF i <= made THEN first[i] ELSE spills[i - made]
  <2>1. /\ first \o spills \in Seq(InstType)
        /\ Len(first \o spills) = Len(first) + Len(spills)
        /\ \A i \in 1..Len(first) + Len(spills) :
             (first \o spills)[i] = IF i <= Len(first) THEN first[i]
                                                      ELSE spills[i - Len(first)]
    BY <1>5, <1>6, ConcatProperties
  <2>2. Len(spills) \in Nat
    BY <1>5, LenProperties
  <2>3. QED
    BY <1>1, <1>6, <2>1, <2>2
<1>8. \A i \in 1..made : i \in 1..Len(entry') /\ entry'[i] = Inst("alloca", Alloca(i), 0, 0)
  BY <1>4, <1>6, <1>7
<1>9. \A i \in 1..Len(spills) : made + i \in 1..Len(entry') /\ entry'[made + i] = spills[i]
  <2> SUFFICES ASSUME NEW i \in 1..Len(spills)
               PROVE  made + i \in 1..Len(entry') /\ entry'[made + i] = spills[i]
    OBVIOUS
  <2>1. made + i \in 1..made + Len(spills) /\ ~(made + i <= made) /\ (made + i) - made = i
    BY <1>4, <1>7
  <2>2. QED
    BY <1>7, <2>1
<1>10. \A i \in 1..Len(entry') : i \in 1..made \/ \E j \in 1..Len(spills) : i = made + j
  <2> SUFFICES ASSUME NEW i \in 1..Len(entry'), i \notin 1..made
               PROVE  \E j \in 1..Len(spills) : i = made + j
    OBVIOUS
  <2>1. i - made \in 1..Len(spills) /\ i = made + (i - made)
    BY <1>4, <1>7
  <2>2. QED
    BY <2>1
<1>11. AllocasFirst(entry', allocas)
  BY <1>4, <1>7, <1>8 DEF AllocasFirst
<1>12. \A i \in 1..made : entry'[i].op # "store"
  <2>1. \A a : Inst("alloca", Alloca(a), 0, 0).op = "alloca"
    BY DEF Inst
  <2>2. QED
    BY <1>8, <2>1
<1>13. OnlySpills(infov, entry', chainVal, paramValues)
  <2>1. ASSUME NEW i \in 1..Len(entry'), entry'[i].op = "store"
        PROVE  \E j \in 1..Len(spills) : i = made + j /\ entry'[i] = spills[j]
    BY <1>9, <1>10, <1>12, <2>1
  <2>2. ASSUME NEW i \in 1..Len(entry'), entry'[i].op = "store"
        PROVE  \E k \in DOMAIN infov :
                 /\ Spilled(infov, k)
                 /\ \E j \in 1..Len(infov[k].abiTypes) :
                      entry'[i] = StoreOf(infov, k, j, chainVal, paramValues)
    <3>1. PICK j \in 1..Len(spills) : entry'[i] = spills[j]
      BY <2>1, <2>2
    <3>2. QED
      BY <1>5, <3>1 DEF Stored
  <2>3. ASSUME NEW i \in 1..Len(entry'), NEW j \in 1..Len(entry'), i # j,
               entry'[i].op = "store", entry'[j].op = "store"
        PROVE  entry'[i].arg # entry'[j].arg
    <3>1. PICK a \in 1..Len(spills) : i = made + a /\ entry'[i] = spills[a]
      BY <2>1, <2>3
    <3>2. PICK b \in 1..Len(spills) : j = made + b /\ entry'[j] = spills[b]
      BY <2>1, <2>3
    <3>3. a # b
      BY <2>3, <3>1, <3>2
    <3>4. QED
      BY <1>5, <3>1, <3>2, <3>3 DEF Stored
  <2>4. QED
    BY <2>2, <2>3 DEF OnlySpills
<1>14. ASSUME NEW p \in Params, ParamInfo(p).disp = "direct"
       PROVE  /\ SpilledIn(infov, p, entry', chainVal, paramValues, made, initializer'[p])
              /\ initializer'[p] \in 1..Len(entry') /\ entry'[initializer'[p]].op = "store"
  <2> DEFINE upto == Len(SpillsUpTo[p])
  <2>1. p \in 1..n /\ ParamInfo(p) = infov[p + 2]
    BY DEF Params, ParamInfo
  <2>2. initializer'[p] = made + upto
    BY <1>1, <1>14
  <2>3. /\ upto \in 1..Len(spills)
        /\ \A j \in 1..Len(infov[p + 2].abiTypes) : \E i \in 1..upto :
             spills[i] = StoreOf(infov, p + 2, j, chainVal, paramValues)
    BY <1>5, <1>14, <2>1 DEF DirectSpilled
  <2> HIDE DEF upto
  <2>4. made + upto \in 1..Len(entry') /\ entry'[made + upto] = spills[upto]
    BY <1>9, <2>3
  <2>5. spills[upto].op = "store"
    <3>1. \E l, j : spills[upto] = StoreOf(infov, l, j, chainVal, paramValues)
      BY <1>5, <2>3 DEF Stored
    <3>2. QED
      BY <3>1 DEF StoreOf, Inst
  <2>6. SpilledIn(infov, p, entry', chainVal, paramValues, made, made + upto)
    <3> SUFFICES ASSUME NEW j \in 1..Len(infov[p + 2].abiTypes)
                 PROVE  \E i \in 1..Len(entry') :
                          /\ made < i /\ i <= made + upto
                          /\ entry'[i] = StoreOf(infov, p + 2, j, chainVal, paramValues)
      BY DEF SpilledIn
    <3>1. PICK i \in 1..upto : spills[i] = StoreOf(infov, p + 2, j, chainVal, paramValues)
      BY <2>3
    <3>2. i \in 1..Len(spills) /\ made < made + i /\ made + i <= made + upto
      BY <1>4, <1>7, <2>3
    <3>3. made + i \in 1..Len(entry') /\ entry'[made + i] = spills[i]
      BY <1>9, <3>2
    <3>4. QED
      BY <3>1, <3>2, <3>3
  <2>7. QED
    BY <2>2, <2>4, <2>5, <2>6
<1>15. ASSUME NEW p \in Params, ParamInfo(p).disp # "direct"
       PROVE  initializer'[p] \in {NoInst, 1}
  BY <1>1, <1>15
<1>16. DOMAIN initializer' = Params
  BY <1>1
<1>17. Constructed'
  BY <1>1, <1>3, ConstructedKept
<1>18. PrologMade'
  BY <1>1, <1>2, <1>3, <1>7, <1>11, <1>13, <1>14, <1>15, <1>16
     DEF PrologMade, Params, ParamInfo
<1>19. QED
  BY <1>1, <1>17, <1>18 DEF FunctionInv, FailsOnlyWithoutAllocas

\* The body adds no store of an argument.
LEMMA BodyStep ==
  OracleInv /\ EntryShapes /\ FunctionInv /\ WalkBody /\ UNCHANGED oracleVars
    => FunctionInv'
<1> SUFFICES ASSUME OracleInv, EntryShapes, FunctionInv, WalkBody, UNCHANGED oracleVars
             PROVE  FunctionInv'
  OBVIOUS
<1>1. PICK code \in EntryCode : entry' = entry \o code
  BY DEF WalkBody
<1>2. /\ stage = "prolog" /\ stage' = "walked"
      /\ UNCHANGED <<argIdx, argName, argAttr, paramValues, chainVal, rtnValueMem, allocas,
                     valueVarMap, registered, initializer>>
  BY DEF WalkBody
<1>3. UNCHANGED <<sig, phase, infov, elems>>
  BY DEF oracleVars
<1>4. /\ Len(paramValues) = Len(sig.params) /\ registered = Len(sig.params)
      /\ entry \in Seq(InstType)
      /\ AllocasFirst(entry, allocas)
      /\ OnlySpills(infov, entry, chainVal, paramValues)
      /\ DOMAIN initializer = Params
      /\ \A p \in Params :
           IF ParamInfo(p).disp = "direct"
           THEN /\ SpilledIn(infov, p, entry, chainVal, paramValues, Len(allocas),
                             initializer[p])
                /\ initializer[p] \in 1..Len(entry) /\ entry[initializer[p]].op = "store"
           ELSE initializer[p] \in {NoInst, 1}
  BY <1>2 DEF FunctionInv, PrologMade
<1>5. code \in Seq(InstType) /\ \A i \in 1..Len(code) : code[i].op # "store"
  <2>1. code \in Seq({Op, Terminator})
    BY EntryAssumption
  <2>2. /\ Op \in InstType /\ Terminator \in InstType
        /\ Op.op # "store" /\ Terminator.op # "store"
    BY DEF Op, Terminator, Inst, NoValue, Value, ValueType, InstType
  <2>3. Len(code) \in Nat /\ \A i \in 1..Len(code) : code[i] \in {Op, Terminator}
    BY <2>1, LenProperties, ElementOfSeq
  <2>4. \A i \in 1..Len(code) : code[i] \in InstType /\ code[i].op # "store"
    BY <2>2, <2>3
  <2>5. code = [i \in 1..Len(code) |-> code[i]]
    BY <2>1, LenProperties
  <2>6. code \in Seq(InstType)
    BY <2>3, <2>4, <2>5
  <2>7. QED
    BY <2>4, <2>6
<1> DEFINE n == Len(entry)
<1>6. /\ entry' \in Seq(InstType) /\ Len(entry') = n + Len(code)
      /\ n \in Nat /\ Len(code) \in Nat
      /\ \A i \in 1..n + Len(code) :
           entry'[i] = IF i <= n THEN entry[i] ELSE code[i - n]
  BY <1>1, <1>4, <1>5, ConcatProperties, LenProperties
<1>7. \A i \in 1..n : i \in 1..Len(entry') /\ entry'[i] = entry[i]
  BY <1>6
<1>8. \A i \in 1..Len(entry') : entry'[i].op = "store" => i \in 1..n
  <2> SUFFICES ASSUME NEW i \in 1..Len(entry'), i \notin 1..n PROVE entry'[i].op # "store"
    OBVIOUS
  <2>1. i - n \in 1..Len(code) /\ ~(i <= n)
    BY <1>6
  <2>2. entry'[i] = code[i - n]
    BY <1>6, <2>1
  <2>3. QED
    BY <1>5, <2>1, <2>2
<1> HIDE DEF n
<1>9. n = Len(entry)
  BY DEF n
<1>10. AllocasFirst(entry', allocas)
  <2>1. Len(allocas) <= n /\ \A a \in 1..Len(allocas) : entry[a] = Inst("alloca", Alloca(a), 0, 0)
    BY <1>4, <1>9 DEF AllocasFirst
  <2>2. Len(allocas) \in Nat
    BY <1>2, LenProperties DEF FunctionInv, Constructed
  <2>3. Len(allocas) <= Len(entry') /\ \A a \in 1..Len(allocas) : a \in 1..n
    BY <1>6, <2>1, <2>2
  <2>4. QED
    BY <1>7, <2>1, <2>3 DEF AllocasFirst
<1>11. OnlySpills(infov, entry', chainVal, paramValues)
  <2>1. ASSUME NEW i \in 1..Len(entry'), entry'[i].op = "store"
        PROVE  \E k \in DOMAIN infov :
                 /\ Spilled(infov, k)
                 /\ \E j \in 1..Len(infov[k].abiTypes) :
                      entry'[i] = StoreOf(infov, k, j, chainVal, paramValues)
    <3>1. i \in 1..Len(entry) /\ entry'[i] = entry[i]
      BY <1>7, <1>8, <1>9, <2>1
    <3>2. QED
      BY <1>4, <2>1, <3>1 DEF OnlySpills
  <2>2. ASSUME NEW i \in 1..Len(entry'), NEW j \in 1..Len(entry'), i # j,
               entry'[i].op = "store", entry'[j].op = "store"
        PROVE  entry'[i].arg # entry'[j].arg
    <3>1. i \in 1..Len(entry) /\ entry'[i] = entry[i]
      BY <1>7, <1>8, <1>9, <2>2
    <3>2. j \in 1..Len(entry) /\ entry'[j] = entry[j]
      BY <1>7, <1>8, <1>9, <2>2
    <3>3. QED
      BY <1>4, <2>2, <3>1, <3>2 DEF OnlySpills
  <2>3. QED
    BY <2>1, <2>2 DEF OnlySpills
<1>12. ASSUME NEW p \in Params, ParamInfo(p).disp = "direct"
       PROVE  /\ SpilledIn(infov, p, entry', chainVal, paramValues, Len(allocas),
                           initializer[p])
              /\ initializer[p] \in 1..Len(entry') /\ entry'[initializer[p]].op = "store"
  <2>1. /\ SpilledIn(infov, p, entry, chainVal, paramValues, Len(allocas), initializer[p])
        /\ initializer[p] \in 1..Len(entry) /\ entry[initializer[p]].op = "store"
    BY <1>4, <1>12
  <2>2. initializer[p] \in 1..Len(entry') /\ entry'[initializer[p]].op = "store"
    BY <1>7, <1>9, <2>1
  <2>3. SpilledIn(infov, p, entry', chainVal, paramValues, Len(allocas), initializer[p])
    <3> SUFFICES ASSUME NEW j \in 1..Len(infov[p + 2].abiTypes)
                 PROVE  \E i \in 1..Len(entry') :
                          /\ Len(allocas) < i /\ i <= initializer[p]
                          /\ entry'[i] = StoreOf(infov, p + 2, j, chainVal, paramValues)
      BY DEF SpilledIn
    <3>1. PICK i \in 1..Len(entry) :
            /\ Len(allocas) < i /\ i <= initializer[p]
            /\ entry[i] = StoreOf(infov, p + 2, j, chainVal, paramValues)
      BY <2>1 DEF SpilledIn
    <3>2. i \in 1..Len(entry') /\ entry'[i] = entry[i]
      BY <1>7, <1>9
    <3>3. QED
      BY <3>1, <3>2
  <2>4. QED
    BY <2>2, <2>3
<1>13. Constructed'
  BY <1>2, ConstructedKept
<1>14. PrologMade'
  BY <1>2, <1>3, <1>4, <1>6, <1>10, <1>11, <1>12 DEF PrologMade, Params, ParamInfo
<1>15. QED
  BY <1>2, <1>13, <1>14 DEF FunctionInv, FailsOnlyWithoutAllocas

LEMMA FixupStep ==
  OracleInv /\ EntryShapes /\ FunctionInv /\ FixupProlog /\ UNCHANGED oracleVars
    => FunctionInv'
<1> SUFFICES ASSUME OracleInv, EntryShapes, FunctionInv, FixupProlog, UNCHANGED oracleVars
             PROVE  FunctionInv'
  OBVIOUS
<1> DEFINE missing == {p \in Params : initializer[p] = NoInst}
<1>1. /\ stage = "walked"
      /\ UNCHANGED <<argIdx, argName, argAttr, paramValues, chainVal, rtnValueMem, allocas,
                     valueVarMap, registered, entry>>
  BY DEF FixupProlog
<1>2. UNCHANGED <<sig, phase, infov, elems>>
  BY DEF oracleVars
<1>3. /\ Len(paramValues) = Len(sig.params) /\ registered = Len(sig.params)
      /\ entry \in Seq(InstType)
      /\ AllocasFirst(entry, allocas)
      /\ OnlySpills(infov, entry, chainVal, paramValues)
      /\ DOMAIN initializer = Params
      /\ \A p \in Params :
           IF ParamInfo(p).disp = "direct"
           THEN /\ SpilledIn(infov, p, entry, chainVal, paramValues, Len(allocas),
                             initializer[p])
                /\ initializer[p] \in 1..Len(entry) /\ entry[initializer[p]].op = "store"
           ELSE initializer[p] \in {NoInst, 1}
  BY <1>1 DEF FunctionInv, PrologMade
<1>4. allocas \in Seq(AllocaOwner)
  BY <1>1 DEF FunctionInv, Constructed
<1>5. CASE stage' = "aborted" /\ entry = <<>>
  <2>1. allocas = <<>>
    <3>1. Len(allocas) <= 0 /\ Len(allocas) \in Nat
      <4>1. Len(<<>>) = 0
        BY EmptySeq
      <4>2. QED
        BY <1>3, <1>4, <1>5, <4>1, LenProperties DEF AllocasFirst
    <3>2. Len(allocas) = 0
      BY <3>1
    <3>3. QED
      BY <1>4, <3>2, EmptySeq
  <2>2. Constructed'
    BY <1>1, <1>5, ConstructedKept
  <2>3. QED
    BY <1>1, <1>5, <2>1, <2>2 DEF FunctionInv, PrologMade, FailsOnlyWithoutAllocas
<1>6. CASE /\ stage' = "fixed"
           /\ initializer' = [p \in Params |-> IF p \in missing THEN 1 ELSE initializer[p]]
  <2>1. ASSUME NEW p \in Params, ParamInfo(p).disp = "direct"
        PROVE  initializer'[p] = initializer[p]
    <3>1. initializer[p] # NoInst
      BY <1>3, <2>1 DEF NoInst
    <3>2. QED
      BY <1>6, <3>1
  <2>2. ASSUME NEW p \in Params, ParamInfo(p).disp # "direct"
        PROVE  initializer'[p] = 1
    BY <1>3, <1>6, <2>2
  <2>3. DOMAIN initializer' = Params
    BY <1>6
  <2>4. Constructed'
    BY <1>1, <1>6, ConstructedKept
  <2>5. PrologMade'
    BY <1>1, <1>2, <1>3, <1>6, <2>1, <2>2, <2>3 DEF PrologMade, Params, ParamInfo
  <2>6. QED
    BY <1>6, <2>4, <2>5 DEF FunctionInv, FailsOnlyWithoutAllocas
<1>7. QED
  BY <1>5, <1>6 DEF FixupProlog

\* A parameter that is spilled is declared behind a store, one that is not behind the
\* first instruction, which is an alloca if there is any.
LEMMA DeclareStep ==
  OracleInv /\ EntryShapes /\ FunctionInv /\ DeclareParameters /\ UNCHANGED oracleVars
    => FunctionInv'
<1> SUFFICES ASSUME OracleInv, EntryShapes, FunctionInv, DeclareParameters,
                    UNCHANGED oracleVars
             PROVE  FunctionInv'
  OBVIOUS
<1>1. /\ stage = "fixed" /\ stage' \in {"aborted", "declared"}
      /\ stage' = "aborted" => \E p \in Params : entry[initializer[p]] = Terminator
      /\ UNCHANGED <<argIdx, argName, argAttr, paramValues, chainVal, rtnValueMem, allocas,
                     valueVarMap, registered, entry, initializer>>
  BY DEF DeclareParameters
<1>2. UNCHANGED <<sig, phase, infov, elems>>
  BY DEF oracleVars
<1>3. /\ Len(paramValues) = Len(sig.params) /\ registered = Len(sig.params)
      /\ entry \in Seq(InstType)
      /\ AllocasFirst(entry, allocas)
      /\ OnlySpills(infov, entry, chainVal, paramValues)
      /\ DOMAIN initializer = Params
      /\ \A p \in Params :
           IF ParamInfo(p).disp = "direct"
           THEN /\ SpilledIn(infov, p, entry, chainVal, paramValues, Len(allocas),
                             initializer[p])
                /\ initializer[p] \in 1..Len(entry) /\ entry[initializer[p]].op = "store"
           ELSE initializer[p] = 1
  BY <1>1 DEF FunctionInv, PrologMade
<1>4. allocas \in Seq(AllocaOwner)
  BY <1>1 DEF FunctionInv, Constructed
<1>5. ASSUME stage' = "aborted" PROVE allocas = <<>>
  <2>1. PICK p \in Params : entry[initializer[p]] = Terminator
    BY <1>1, <1>5
  <2>2. Terminator.op = "terminator" /\ \A a : Inst("alloca", Alloca(a), 0, 0).op = "alloca"
    BY DEF Terminator, Inst
  <2>3. entry[1] = Terminator
    BY <1>3, <2>1, <2>2
  <2>4. ~(1 \in 1..Len(allocas))
    BY <1>3, <2>2, <2>3 DEF AllocasFirst
  <2>5. Len(allocas) = 0
    BY <1>4, <2>4, LenProperties
  <2>6. QED
    BY <1>4, <2>5, EmptySeq
<1>6. Constructed'
  BY <1>1, ConstructedKept
<1>7. PrologMade'
  BY <1>1, <1>2, <1>3 DEF PrologMade, Params, ParamInfo
<1>8. QED
  BY <1>1, <1>5, <1>6, <1>7 DEF FunctionInv, FailsOnlyWithoutAllocas

-----------------------------------------------------------------------------
(* The theorems.                                                            *)

LEMMA FunctionInitInv == Init => FunctionInv
<1> SUFFICES ASSUME Init PROVE FunctionInv
  OBVIOUS
<1>1. stage = "new" /\ paramValues = <<>> /\ allocas = <<>> /\ registered = 0
      /\ entry = <<>> /\ argAttr = <<>> /\ DOMAIN valueVarMap = {}
  BY DEF Init, FunctionInit
<1>2. QED
  BY <1>1 DEF FunctionInv, Constructed, PrologMade, FailsOnlyWithoutAllocas

\* The oracle is asked before the function is built.
LEMMA OracleStepFirst ==
  ASSUME OracleInv, OracleNext
  PROVE  ~Analyzed
BY OracleFacts DEF OracleNext, AnalyzeReturn, AnalyzeChain, AnalyzeParam,
   BuildReturn, BuildParam, BuildType, AnalyzeRaw, Analyzed

LEMMA FunctionNextInv ==
  OracleInv /\ EntryShapes /\ FunctionInv /\ [Next]_vars => FunctionInv'
<1> SUFFICES ASSUME OracleInv, EntryShapes, FunctionInv, [Next]_vars PROVE FunctionInv'
  OBVIOUS
<1>1. CASE OracleNext /\ UNCHANGED functionVars
  <2>1. stage = "new"
    BY <1>1, OracleStepFirst DEF FunctionInv, Constructed
  <2>2. QED
    BY <1>1, <2>1
       DEF functionVars, FunctionInv, Constructed, PrologMade, FailsOnlyWithoutAllocas
<1>2. CASE FunctionNext /\ UNCHANGED oracleVars
  BY <1>2, SetupStep, SetupParamStep, ParameterVariableStep, ChainVariableStep,
     LocalVariableStep, GenPrologStep, BodyStep, FixupStep, DeclareStep DEF FunctionNext
<1>3. CASE UNCHANGED vars
  BY <1>3 DEF vars, oracleVars, functionVars, FunctionInv, Constructed, PrologMade,
     FailsOnlyWithoutAllocas, Analyzed, ReturnsInMemory, ReturnInfo, ChainInfo, Params,
     ParamInfo
<1>4. QED
  BY <1>1, <1>2, <1>3 DEF Next

LEMMA AttributesNamed ==
  ASSUME OracleInv, EntryShapes, FunctionInv
  PROVE  ArgumentsAgree
<1>1. CASE stage = "new"
  <2>1. DOMAIN argAttr = {} /\ DOMAIN paramValues = {}
    BY <1>1, EmptySeq DEF FunctionInv, Constructed
  <2>2. QED
    BY <2>1 DEF ArgumentsAgree
<1>2. CASE stage # "new"
  <2>1. /\ Analyzed /\ sig.cabi
        /\ paramValues \in Seq(ValueType) /\ Len(paramValues) <= Len(sig.params)
        /\ DOMAIN argAttr = 1..Len(elems)
        /\ Attributed(infov, Len(paramValues) + 2, argAttr)
        /\ Len(paramValues) < Len(sig.params) => registered = 0
        /\ Named(infov, registered + 2, argName)
        /\ \A p \in 1..Len(paramValues) : Placed(infov, p, paramValues[p], allocas)
    BY <1>2 DEF FunctionInv, Constructed
  <2>2. /\ infov \in Seq(InfoType) /\ DOMAIN infov = 1..Len(infov)
        /\ Len(infov) = Len(sig.params) + 2 /\ Len(sig.params) \in Nat
        /\ Len(paramValues) \in Nat
    BY <2>1, OracleFacts, LenProperties
  <2>3. ASSUME NEW s \in DOMAIN argAttr, argAttr[s] # "none", registered = Len(sig.params)
        PROVE  CASE argName[s].what = "sret"  -> argAttr[s] = "sret"
                 [] argName[s].what = "chain" -> argAttr[s] = "nest"
                 [] argName[s].what = "param" -> argAttr[s] = ParamInfo(argName[s].p).attr
                 [] OTHER -> FALSE
    <3>1. Len(paramValues) + 2 = Len(infov) /\ registered + 2 = Len(infov)
      BY <2>1, <2>2, <2>3
    <3>2. s \in 1..Len(elems)
      BY <2>1
    <3>3. PICK k \in DOMAIN infov : \E j \in 1..Len(infov[k].abiTypes) :
            HasSlots(infov, k) /\ s = infov[k].sigOffset + j
      BY <2>1, <3>2, SlotOwner
    <3>4. PICK j \in 1..Len(infov[k].abiTypes) : s = infov[k].sigOffset + j
      BY <3>3
    <3>5. HasSlots(infov, k) /\ k \in Nat /\ k >= 1 /\ k <= Len(infov)
      BY <2>2, <3>3
    <3>6. argAttr[s] = infov[k].attr
      BY <2>1, <3>1, <3>4, <3>5 DEF Attributed
    <3>7. argName[s] = OwnerOf(k, j)
      BY <2>1, <3>1, <3>4, <3>5 DEF Named
    <3>8. CASE k = 1
      <4>1. argAttr[s] = "sret"
        BY <2>1, <3>5, <3>6, <3>8, FirstFacts
      <4>2. argName[s].what = "sret"
        BY <3>7, <3>8 DEF OwnerOf, Owner
      <4>3. QED
        BY <4>1, <4>2
    <3>9. CASE k = 2
      <4>1. argAttr[s] = "nest"
        BY <2>1, <3>6, <3>9, FirstFacts
      <4>2. argName[s].what = "chain"
        BY <3>7, <3>9 DEF OwnerOf, Chain, Owner
      <4>3. QED
        BY <4>1, <4>2
    <3>10. CASE k # 1 /\ k # 2
      <4>1. argName[s].what = "param" /\ argName[s].p = k - 2
        BY <3>7, <3>10 DEF OwnerOf, Owner
      <4>2. (k - 2) + 2 = k
        BY <3>5
      <4>3. ParamInfo(argName[s].p) = infov[k]
        BY <4>1, <4>2 DEF ParamInfo
      <4>4. QED
        BY <3>6, <4>1, <4>3
    <3>11. QED
      BY <3>8, <3>9, <3>10
  <2>4. \A p \in DOMAIN paramValues :
          ParamInfo(p).disp = "indirect" =>
            paramValues[p] = Argument(ParamInfo(p).sigOffset)
    BY <2>1, LenProperties DEF Placed, ParamInfo
  <2>5. QED
    BY <2>3, <2>4 DEF ArgumentsAgree
<1>3. QED
  BY <1>1, <1>2

LEMMA PrologSpills ==
  ASSUME OracleInv, EntryShapes, FunctionInv
  PROVE  ParametersSpilled
<1> SUFFICES ASSUME stage \in {"prolog", "walked", "fixed", "declared"},
                    NEW p \in Params, ParamInfo(p).disp = "direct",
                    NEW j \in 1..Len(ParamInfo(p).abiTypes)
             PROVE  \E i \in DOMAIN entry :
                      /\ entry[i].op = "store" /\ entry[i].val = paramValues[p]
                      /\ entry[i].piece = j
                      /\ elems[entry[i].arg + 1] = Piece(sig.params[p], j)
                      /\ allocas[paramValues[p].i] = Param(p)
                      /\ \E a \in 1..(i - 1) :
                           entry[a] = Inst("alloca", paramValues[p], 0, 0)
                      /\ i <= initializer[p]
                      /\ \A k \in DOMAIN entry \ {i} :
                           entry[k].op = "store" => entry[k].arg # entry[i].arg
  BY DEF ParametersSpilled
<1> DEFINE k == p + 2
<1>1. /\ Len(paramValues) = Len(sig.params) /\ entry \in Seq(InstType)
      /\ AllocasFirst(entry, allocas)
      /\ OnlySpills(infov, entry, chainVal, paramValues)
      /\ SpilledIn(infov, p, entry, chainVal, paramValues, Len(allocas), initializer[p])
  BY DEF FunctionInv, PrologMade
<1>2. /\ Analyzed /\ sig.cabi /\ allocas \in Seq(AllocaOwner)
      /\ \A q \in 1..Len(paramValues) : Placed(infov, q, paramValues[q], allocas)
  BY DEF FunctionInv, Constructed
<1>3. /\ p \in 1..Len(sig.params) /\ p \in 1..Len(paramValues)
      /\ Len(sig.params) \in Nat /\ Len(allocas) \in Nat
      /\ DOMAIN entry = 1..Len(entry) /\ Len(entry) \in Nat
  <2>1. Len(sig.params) \in Nat
    BY <1>2, OracleFacts
  <2>2. QED
    BY <1>1, <1>2, <2>1, LenProperties DEF Params
<1>4. /\ k \in DOMAIN infov /\ k # 2 /\ k - 2 = p /\ ParamInfo(p) = infov[k]
      /\ HasSlots(infov, k) /\ infov[k].disp = "direct" /\ j \in 1..Len(infov[k].abiTypes)
      /\ infov[k].abiTypes[j] = Piece(sig.params[p], j)
  BY <1>2, <1>3, ParamFacts
<1>5. PICK i \in 1..Len(entry) :
        /\ Len(allocas) < i /\ i <= initializer[p]
        /\ entry[i] = StoreOf(infov, k, j, chainVal, paramValues)
  BY <1>1, <1>4 DEF SpilledIn
<1>6. Placed(infov, p, paramValues[p], allocas)
  BY <1>2, <1>3
<1> HIDE DEF k
<1>7. /\ entry[i].op = "store" /\ entry[i].val = paramValues[p] /\ entry[i].piece = j
      /\ entry[i].arg = infov[k].sigOffset + j - 1
  BY <1>4, <1>5 DEF StoreOf, SpillPlace, Inst
<1>8. elems[entry[i].arg + 1] = Piece(sig.params[p], j)
  <2>1. /\ infov[k].sigOffset \in Nat /\ j \in Int
        /\ elems[infov[k].sigOffset + j] = Piece(sig.params[p], j)
    BY <1>2, <1>4, SlotPlace
  <2>2. infov[k].sigOffset + j = entry[i].arg + 1
    BY <1>7, <2>1
  <2>3. QED
    BY <2>1, <2>2
<1>9. PICK a \in 1..Len(allocas) : paramValues[p] = Alloca(a) /\ allocas[a] = Param(p)
  <2>1. infov[p + 2].disp # "indirect"
    BY <1>4 DEF k
  <2>2. QED
    BY <1>6, <2>1 DEF Placed, MadeFor
<1>10. allocas[paramValues[p].i] = Param(p)
  BY <1>9 DEF Alloca, Value
<1>11. a \in 1..(i - 1) /\ entry[a] = Inst("alloca", paramValues[p], 0, 0)
  BY <1>1, <1>3, <1>5, <1>9 DEF AllocasFirst
<1>12. \A l \in DOMAIN entry \ {i} : entry[l].op = "store" => entry[l].arg # entry[i].arg
  BY <1>1, <1>3, <1>7 DEF OnlySpills
<1>13. QED
  BY <1>3, <1>5, <1>7, <1>8, <1>10, <1>11, <1>12

\* The oracle and the callee together.
CalleeInv == OracleInv /\ EntryShapes /\ FunctionInv

LEMMA CalleeInvInit == Init => CalleeInv
BY OracleInitInv, EntryShapesInit, FunctionInitInv DEF Init, CalleeInv

LEMMA CalleeInvNext == CalleeInv /\ [Next]_vars => CalleeInv'
<1> SUFFICES ASSUME CalleeInv, [Next]_vars PROVE CalleeInv'
  OBVIOUS
<1>1. [OracleNext]_oracleVars
  BY DEF Next, vars, oracleVars, functionVars
<1>2. QED
  BY <1>1, OracleNextInv, EntryShapesNext, FunctionNextInv DEF CalleeInv

\* The callee leaves the oracle's answers alone: it only reads them.
THEOREM OracleUndisturbed == Spec => OracleSpec
<1>1. Init => OracleInit
  BY DEF Init
<1>2. [Next]_vars => [OracleNext]_oracleVars
  BY DEF Next, vars, oracleVars
<1>3. QED
  BY <1>1, <1>2, PTL DEF Spec, OracleSpec

\* abiSetup marks arguments by counting, parameterVariable names them by the oracle's
\* offsets: for every function type and in whatever order the client registers
\* variables, the attribute of an argument is that of the parameter it is named after.
THEOREM WalksOfCalleeAgree == Spec => []ArgumentsAgree
<1>1. CalleeInv => ArgumentsAgree
  BY AttributesNamed DEF CalleeInv
<1>2. QED
  BY <1>1, CalleeInvInit, CalleeInvNext, PTL DEF Spec

\* genProlog stores every piece of every parameter once, from the argument of that
\* piece, into the alloca of that parameter, and before it is declared.
THEOREM PrologSpillsAll == Spec => []ParametersSpilled
<1>1. CalleeInv => ParametersSpilled
  BY PrologSpills DEF CalleeInv
<1>2. QED
  BY <1>1, CalleeInvInit, CalleeInvNext, PTL DEF Spec

\* The assertions of parameterVariable, fixupProlog and insertVarDecl hold, for every
\* function type, every order of the client's calls and every body, unless the function
\* has no alloca.
THEOREM AssertionsHold == Spec => []FailsOnlyWithoutAllocas
<1>1. CalleeInv => FailsOnlyWithoutAllocas
  BY DEF CalleeInv, FunctionInv
<1>2. QED
  BY <1>1, CalleeInvInit, CalleeInvNext, PTL DEF Spec
=============================================================================

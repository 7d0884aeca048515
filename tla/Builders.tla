-------------------------------- MODULE Builders --------------------------------
(***************************************************************************)
(* Llvm_backend: the expressions and statements the Go frontend asks for,  *)
(* built bottom up (go-llvm.cpp).  An expression over a variable stays     *)
(* pending until its consumer is known: then it is used by address, or     *)
(* loaded.  A composite without storage is delayed until it is assigned.   *)
(***************************************************************************)
EXTENDS Nodes

CONSTANTS
  Frontend,   \* set of [asks, reuse, vars, requests]: what a frontend may ask
  Variables   \* sequence of [type, means, global]: the variables of the program

ASSUME FrontendAssumption ==
  /\ \A x \in DOMAIN Variables : Variables[x].global \in BOOLEAN
  /\ \A f \in Frontend : f.vars \subseteq DOMAIN Variables /\ f.requests \in Nat

VARIABLES
  be,        \* the backend
  frontend,  \* the frontend, chosen at the start
  exprs,     \* the expressions the frontend holds
  stmts,     \* the statements it holds
  requests,  \* number of requests made
  body       \* the statement given to function_set_body, or 0

vars == <<be, frontend, exprs, stmts, requests, body>>

ErrorExpr == 1
ErrorStmt == 2

Init ==
  /\ frontend \in Frontend
  /\ be = [nodes |-> <<[Node("Error", <<>>, NoValue, TVoid, <<"error">>, <<>>) EXCEPT !.id = 1],
                       Node("Error", <<>>, NoValue, TVoid, <<"error">>, <<>>)>>,
           insts |-> <<>>, consts |-> <<>>, slots |-> Variables, earchive |-> <<1>>,
           nparent |-> <<>>, valueExprs |-> <<>>, res |-> 0, val |-> NoValue, failed |-> ""]
  /\ exprs = IF "error" \in frontend.asks THEN {ErrorExpr} ELSE {}
  /\ stmts = {}
  /\ requests = 0
  /\ body = 0

-----------------------------------------------------------------------------
(* Values.                                                                 *)

\* makeGlobalExpression
MakeGlobalExpression(s, e) ==
  LET key == <<s.nodes[e].value, s.nodes[e].type>> IN
  IF key \in DOMAIN s.valueExprs
    THEN [FreeExpr(s, e) EXCEPT !.res = s.valueExprs[key]]
    ELSE [s EXCEPT !.valueExprs = [k \in DOMAIN @ \cup {key} |-> IF k = key THEN e ELSE @[k]],
                   !.res = e]

\* genVarForConstant: the table is keyed by variables, so that only the address
\* of a global is found in it, and is itself.
GenVarForConstant(s, v, type) ==
  IF v[1] = "slot" THEN [s EXCEPT !.val = v]
  ELSE LET s1 == [s EXCEPT !.slots = Append(@, [type |-> type, means |-> Means(s, v), global |-> TRUE]),
                           !.val = Slot(Len(s.slots) + 1)]
       IN IF TypeOf(s, v) = type THEN s1 ELSE Abort(s1, "initializer type")

\* Mutant of LoadFromExpr: the load is added to the expression loaded from.
LoadInPlace(s, e, type, means) ==
  LET v == s.nodes[e].value
      s1 == Emit(s, "load", <<v>>, TypeOf(s, v)[2], StarOf(Means(s, v)))
  IN [s1 EXCEPT !.nodes[e].value = s1.val, !.nodes[e].pending = FALSE,
                !.nodes[e].insts = Append(@, s1.val[2]), !.res = e]

\* loadFromExpr
LoadFromExpr(s, e, type, means) ==
  LET v == s.nodes[e].value
      s1 == Emit(s, "load", <<v>>, TypeOf(s, v)[2], StarOf(Means(s, v)))
      s2 == MkPlain(s1, "Deref", type, s1.val, e, means)
  IN IF IsPointer(TypeOf(s, v))
       THEN [s2 EXCEPT !.nodes[s2.res].insts = <<s1.val[2]>>]
       ELSE Abort([s EXCEPT !.res = e], "load")

\* Mutant of ResolveVarContext: a variable whose address was taken is loaded too.
ResolveAlwaysLoads(s, e, ctx) ==
  LET n == s.nodes[e] IN
  IF ~n.pending THEN [s EXCEPT !.res = e]
  ELSE IF n.lvalue \/ ctx = "lvalue"
    THEN [s EXCEPT !.nodes[e].pending = FALSE, !.res = e]
    ELSE LoadFromExpr(s, e, n.type, n.means)

\* resolveVarContext: the expression itself, no longer pending, or a load of it,
\* which leaves it pending.
ResolveVarContext(s, e, ctx) ==
  LET n == s.nodes[e] IN
  IF ~n.pending THEN [s EXCEPT !.res = e]
  ELSE IF n.addrLevel > 1 THEN Abort([s EXCEPT !.res = e], "addrLevel")
  ELSE IF n.addrLevel = 1 \/ n.lvalue \/ ctx = "lvalue"
    THEN [s EXCEPT !.nodes[e].pending = FALSE, !.res = e]
    ELSE LoadFromExpr(s, e, n.type, n.means)

\* Bexpression::varContextDisp
ContextOf(type) == IF Aggregate(type) THEN "lvalue" ELSE "rvalue"

CompositePending(s, e) == s.nodes[e].flavor = "Composite" /\ s.nodes[e].value = NoValue

Effect(what) == [path |-> <<>>, what |-> what]

\* genStore: a store of a scalar, or a copy between two addresses.
GenStoreInst(s, type, v, dst) ==
  LET place == StarOf(Means(s, dst))
      s1 == IF IsConstant(s, v) THEN GenVarForConstant(s, v, type) ELSE [s EXCEPT !.val = v]
  IN IF ~Aggregate(type)
       THEN IF TypeOf(s, dst) = PtrTo(TypeOf(s, v))
              THEN Emit(s, "store", <<v, dst>>, TVoid, <<"store", place, Means(s, v)>>)
              ELSE Abort(s, "store type")
       ELSE IF IsPointer(TypeOf(s1, s1.val))
              THEN Emit(s1, "copy", <<s1.val, dst>>, TVoid,
                        <<"store", place, StarOf(Means(s1, s1.val))>>)
              ELSE Abort(s1, "copy")

\* genStructInit, genArrayInit: the address of one part and the store of its value; the
\* value is what was resolved last.
PartStored(acc, s, kid, gep, effect) ==
  [s |-> s, vals |-> Append(acc.vals, kid),
   insts |-> acc.insts \o (IF IsInst(gep) THEN <<gep[2]>> ELSE <<>>) \o <<s.val[2]>>,
   stores |-> Append(acc.stores, effect)]
PartAt(acc, s, kid, place) ==
  LET v == s.nodes[kid] IN
  PartStored(acc, GenStoreInst(s, v.type, v.value, s.val), kid, s.val,
             Effect(<<"store", place, v.means>>))
InitPart(acc, s, storage) ==
  LET place == FieldOf(StarOf(Means(acc.s, storage)), Len(acc.vals) + 1) IN
  PartAt(acc, Build(s, "gep", <<storage>>, PtrTo(s.nodes[s.res].type), AddrOf(place)), s.res, place)

\* resolve, of an expression that is no composite or one that has storage now.
ResolveResult(s, ctx) == ResolveVarContext(s, s.res, ctx)

CompositeOf(parts, n, storage, own) ==
  LET effs == FlattenSeq([i \in DOMAIN parts.vals |-> parts.s.nodes[parts.vals[i]].eff])
      made == MkWith(parts.s, "Composite", n.type, storage, parts.vals, parts.insts, n.means,
                     effs \o parts.stores)
  IN [made EXCEPT !.nodes[made.res].pending = own]

\* resolveCompositeInit: the values are children of a new node, and each is evaluated and
\* stored, in the variable to initialize or in a temporary.
RECURSIVE ResolveCompositeInit(_, _, _)
ResolveCompositeInit(s, e, storage) ==
  LET n == s.nodes[e]
      own == storage = NoValue
      place == IF own THEN Slot(Len(s.slots) + 1) ELSE storage
      s1 == IF own THEN [s EXCEPT !.slots =
                           Append(@, [type |-> n.type, means |-> n.means, global |-> FALSE])]
            ELSE s
      step(acc, kid) ==
        InitPart(acc, ResolveResult(IF CompositePending(acc.s, kid)
                                      THEN ResolveCompositeInit(acc.s, kid, NoValue)
                                      ELSE [acc.s EXCEPT !.res = kid],
                                    ContextOf(acc.s.nodes[kid].type)), place)
  IN CompositeOf(FoldLeft(step, [s |-> ExtractChildren(s1, e), vals |-> <<>>, insts |-> <<>>,
                                 stores |-> <<>>], n.kids), n, place, own)

\* resolve
Resolve(s, e, ctx) ==
  ResolveResult(IF CompositePending(s, e) THEN ResolveCompositeInit(s, e, NoValue)
                ELSE [s EXCEPT !.res = e], ctx)

\* Resolve several expressions in order; the results are in field many.
ResolveAll(s, es, ctx(_, _)) ==
  LET step(acc, e) ==
        LET r == Resolve(acc.s, e, ctx(acc.s, e))
        IN [s |-> r, many |-> Append(acc.many, r.res)]
  IN FoldLeft(step, [s |-> s, many |-> <<>>], es)
ByType(s, e) == ContextOf(s.nodes[e].type)

-----------------------------------------------------------------------------
(* Expressions.                                                            *)

ConstantExpr(s, type, means) ==
  LET s1 == ConstFor(s, type, means)
      s2 == MkConst(s1, type, s1.val)
  IN MakeGlobalExpression(s2, s2.res)

VarExpr(s, x, lvalue) ==
  LET s1 == MkVar(s, x) IN
  [s1 EXCEPT !.nodes[s1.res].pending = TRUE, !.nodes[s1.res].lvalue = lvalue]

\* indirect_expression: *&x is x again; otherwise a load, and the result is
\* pending if what it was loaded from was.
IndirectExpr(s, e) ==
  LET n == s.nodes[e]
      s1 == MkPlain(s, "Deref", n.type[2], n.value, e, StarOf(n.means))
      s2 == LoadFromExpr(s, e, n.type[2], StarOf(n.means))
  IN IF n.pending /\ n.addrLevel # 0
       THEN [s1 EXCEPT !.nodes[s1.res] = [SameContext(@, n) EXCEPT !.addrLevel = n.addrLevel - 1]]
       ELSE IF n.pending THEN [s2 EXCEPT !.nodes[s2.res] = SameContext(@, n)] ELSE s2

\* address_expression: a constant is spilled to a variable of its own first.
AddressExpr(s, e) ==
  LET n == s.nodes[e]
      s1 == IF IsConstant(s, n.value) THEN GenVarForConstant(s, n.value, n.type)
            ELSE [s EXCEPT !.val = n.value]
      s2 == MkPlain(s1, "Address", PtrTo(n.type), s1.val, e, AddrOf(n.means))
  IN IF n.value[1] = "const" /\ n.type = TArray THEN [s EXCEPT !.res = e]
     ELSE [s2 EXCEPT !.nodes[s2.res].pending = TRUE, !.nodes[s2.res].lvalue = n.lvalue,
                     !.nodes[s2.res].addrLevel = n.addrLevel + 1]

\* convert_expression: between pointers, or between integers.  What is pending
\* is converted by its address.
ConvertExpr(s, type, e) ==
  LET n == s.nodes[e]
      from == TypeOf(s, n.value)
      to == IF n.pending /\ from = PtrTo(n.type) THEN PtrTo(type) ELSE type
      means == <<"conv", type, n.means>>
      s1 == Build(s, "cast", <<n.value>>, to, <<"conv", to, Means(s, n.value)>>)
  IN IF type = n.type \/ type = from THEN [s EXCEPT !.res = e]
     ELSE MkOver(s1, "Conversion", type, s1.val, e, means)

\* struct_field_expression
FieldExpr(s, e, i) ==
  LET n == s.nodes[e]
      elem == ElementType(n.type)
      s1 == Build(s, "gep", <<n.value>>, PtrTo(elem), AddrOf(FieldOf(StarOf(Means(s, n.value)), i)))
  IN IF IsPointer(TypeOf(s, n.value))
       THEN MkPart(s1, "StructField", elem, s1.val, <<e>>, FieldOf(n.means, i))
       ELSE Abort([s EXCEPT !.res = e], "field")

\* array_index_expression: the index is what was resolved last.
IndexBy(s, array) ==
  LET i == s.nodes[s.res]
      n == s.nodes[array]
      s1 == Build(s, "gep", <<n.value, i.value>>, PtrTo(TInt),
                  AddrOf(<<"index", StarOf(Means(s, n.value)), Means(s, i.value)>>))
  IN IF IsPointer(TypeOf(s, n.value))
       THEN MkPart(s1, "ArrayIndex", TInt, s1.val, <<array, s.res>>, <<"index", n.means, i.means>>)
       ELSE Abort(s, "index")
IndexExpr(s, array, index) == IndexBy(ResolveVarContext(s, index, "rvalue"), array)

\* pointer_offset_expression
OffsetOf(r) ==
  LET b == r.s.nodes[r.many[1]]
      i == r.s.nodes[r.many[2]]
      s1 == Build(r.s, "gep", <<b.value, i.value>>, b.type,
                  <<"offset", Means(r.s, b.value), Means(r.s, i.value)>>)
  IN MkPart(s1, "ArrayIndex", b.type, s1.val, r.many, <<"offset", b.means, i.means>>)
OffsetExpr(s, base, index) == OffsetOf(ResolveAll(s, <<base, index>>, LAMBDA t, e : "rvalue"))

\* unary_expression
UnaryOf(s) ==
  LET n == s.nodes[s.res]
      s1 == Build(s, "xor", <<n.value>>, n.type, <<"not", Means(s, n.value)>>)
  IN MkOver(s1, "UnaryOp", n.type, s1.val, s.res, <<"not", n.means>>)
UnaryExpr(s, e) == UnaryOf(ResolveVarContext(s, e, "rvalue"))

\* binary_expression
BinaryOf(r) ==
  LET l == r.s.nodes[r.many[1]]
      t == r.s.nodes[r.many[2]]
      s1 == Build(r.s, "op", <<l.value, t.value>>, l.type,
                  <<"op", Means(r.s, l.value), Means(r.s, t.value)>>)
  IN IF TypeOf(r.s, l.value) = TypeOf(r.s, t.value)
       THEN MkBinaryOp(s1, l.type, s1.val, r.many[1], r.many[2], <<"op", l.means, t.means>>)
       ELSE Abort(r.s, "operands")
BinaryExpr(s, left, right) == BinaryOf(ResolveAll(s, <<left, right>>, LAMBDA t, e : "rvalue"))

\* constructor_expression, array_constructor_expression, with
\* makeConstCompositeExpr and makeDelayedCompositeExpr
CompositeExpr(s, type, es) ==
  LET means == <<"comp", [i \in DOMAIN es |-> s.nodes[es[i]].means]>>
      folded == <<"comp", [i \in DOMAIN es |-> Means(s, s.nodes[es[i]].value)]>>
      s1 == ConstFor(s, type, folded)
      s2 == MkWith(s1, "Composite", type, s1.val, es, <<>>, means, <<>>)
      eff == FlattenSeq([i \in DOMAIN es |-> s.nodes[es[i]].eff])
      casts == \E i \in DOMAIN es : TypeOf(s, s.nodes[es[i]].value) # ElementType(type)
  IN IF \A i \in DOMAIN es : IsConstant(s, s.nodes[es[i]].value)
       THEN IF casts THEN Abort([s EXCEPT !.res = es[1]], "constant")
            ELSE MakeGlobalExpression(s2, s2.res)
       ELSE MkWith(s, "Composite", type, NoValue, es, <<>>, means, eff)

\* call_expression, the arguments after the function: a struct is passed in memory, by
\* its address and unresolved; an array is loaded at the call.
InMemory(type) == type = TStruct

\* The argument q.val is passed for the expression n, and this is what the callee gets.
Passed(acc, q, n, kid) ==
  [s |-> q, kids |-> Append(acc.kids, kid), args |-> Append(acc.args, q.val),
   loads |-> IF n.type = TArray THEN Append(acc.loads, q.val[2]) ELSE acc.loads,
   gets |-> Append(acc.gets, IF InMemory(n.type) THEN StarOf(Means(q, q.val)) ELSE Means(q, q.val)),
   asked |-> Append(acc.asked, n.means), eff |-> acc.eff \o n.eff]
CallArgument(acc, r) ==
  LET n == r.nodes[r.res]
      q == CASE InMemory(n.type) /\ IsConstant(r, n.value) -> GenVarForConstant(r, n.value, n.type)
             [] n.type = TArray -> Emit(r, "load", <<n.value>>, TArray, StarOf(Means(r, n.value)))
             [] OTHER -> [r EXCEPT !.val = n.value]
  IN Passed(acc, q, n, r.res)
CallArguments(s, es) ==
  LET step(acc, e) ==
        CallArgument(acc, IF ~InMemory(acc.s.nodes[e].type) THEN Resolve(acc.s, e, ByType(acc.s, e))
                          ELSE IF CompositePending(acc.s, e) THEN ResolveCompositeInit(acc.s, e, NoValue)
                          ELSE [acc.s EXCEPT !.res = e])
  IN FoldLeft(step, [s |-> s, kids |-> <<s.res>>, args |-> <<>>, loads |-> <<>>,
                     gets |-> <<>>, asked |-> <<>>, eff |-> <<>>], es)

\* call_expression: the result of c.val, in a temporary if it is a struct.
CallResult(c, m, result, what) ==
  LET t == IF Aggregate(result)
           THEN [c EXCEPT !.slots = Append(@, [type |-> result, means |-> what, global |-> FALSE])]
           ELSE c
      made == MkWith(t, "Call", result, IF Aggregate(result) THEN Slot(Len(t.slots)) ELSE c.val,
                     m.kids, Append(m.loads, c.val[2]), what, Append(m.eff, Effect(what)))
  IN [made EXCEPT !.nodes[made.res].pending = Aggregate(result)]

CallWith(m, result) ==
  CallResult(Emit(m.s, "call", m.args, result, <<"call", requests, m.gets>>), m, result,
             <<"call", requests, m.asked>>)

\* call_expression: the function is a constant.
CallExpr(s, result, es) ==
  CallWith(CallArguments(ConstantExpr(s, PtrTo(TVoid), <<"function">>), es), result)

-----------------------------------------------------------------------------
(* Statements.                                                             *)

\* Mutant of GenStore: the store is left with the expression stored to.
GenStoreInPlace(s, src, dst) ==
  LET s1 == Resolve(s, src, ByType(s, src))
      v == s1.nodes[s1.res]
      s2 == GenStoreInst(s1, s.nodes[src].type, v.value, s1.nodes[dst].value)
      s3 == [s2 EXCEPT !.nodes[dst].insts = Append(@, s2.val[2])]
      what == <<"store", s.nodes[dst].means, s.nodes[src].means>>
  IN MkWith(s3, "BinaryOp", v.type, s2.val, <<dst, s1.res>>, <<>>,
            <<"nothing">>, s1.nodes[dst].eff \o v.eff \o <<Effect(what)>>)

\* genStore: the value resolved last is stored.
StoreResolved(s, dst, what) ==
  LET v == s.nodes[s.res]
      s1 == GenStoreInst(s, v.type, v.value, s.nodes[dst].value)
  IN MkWith(s1, "BinaryOp", v.type, s1.val, <<dst, s.res>>, <<s1.val[2]>>,
            <<"nothing">>, s.nodes[dst].eff \o v.eff \o <<Effect(what)>>)

\* genStore
GenStore(s, src, dst) ==
  StoreResolved(Resolve(s, src, ByType(s, src)), dst,
                <<"store", s.nodes[dst].means, s.nodes[src].means>>)

\* The tree of the statement just made is checked and repaired.
Enforced(s) == EnforceTreeIntegrity(s, s.res)

\* mkExprStmt of the expression just made.
Settle(s) == Enforced(MkStmt(s, "ExprStmt", <<s.res>>, s.nodes[s.res].eff))

\* expression_statement
ExprStatement(s, e) == Settle(Resolve(s, e, "rvalue"))

\* init_statement; e = 0 if there is no initial value
InitStatement(s, x, e) ==
  LET zero == ConstantExpr(s, s.slots[x].type, <<"zero">>)
      s0 == IF e = 0 THEN zero ELSE [s EXCEPT !.res = e]
      var == MkVar(s0, x)
  IN Settle(IF e # 0 /\ CompositePending(s, e) THEN ResolveCompositeInit(s, e, Slot(x))
            ELSE GenStore(var, s0.res, var.res))

\* assignment_statement; the left hand side is what was resolved last.
AssignTo(s, rhs) ==
  LET lhs == s.res
      place == s.nodes[lhs].value
      over(init) == MkBinaryOp(init, TVoid, place, lhs, init.res, <<"nothing">>)
  IN Settle(IF CompositePending(s, rhs) THEN over(ResolveCompositeInit(s, rhs, place))
            ELSE GenStore(s, rhs, lhs))
AssignmentStatement(s, lhs, rhs) == AssignTo(ResolveVarContext(s, lhs, "lvalue"), rhs)

\* What several values are returned as: a composite, in a variable of its own if it is
\* constant.
ReturnedComposite(s) ==
  LET g == GenVarForConstant(s, s.nodes[s.res].value, TStruct)
      var == VarExpr(g, g.val[2], FALSE)
  IN IF CompositePending(s, s.res) THEN ResolveCompositeInit(s, s.res, NoValue)
     ELSE AddressExpr(var, var.res)

\* genReturnSequence: the return is an instruction of the expression returned.
Returning(s, many, asked) ==
  LET e == s.res
      v == s.nodes[e].value
      gives == IF IsPointer(TypeOf(s, v)) /\ (many \/ Aggregate(s.nodes[e].type))
               THEN StarOf(Means(s, v)) ELSE Means(s, v)
      s1 == Emit(s, "ret", <<v>>, TVoid, <<"return", gives>>)
  IN MkStmt([s1 EXCEPT !.nodes[e].insts = Append(@, s1.val[2])], "ReturnStmt", <<e>>,
            Append(s.nodes[e].eff, Effect(<<"return", asked>>)))

\* return_statement.  The tree is not checked.
ReturnStatement(s, es) ==
  LET r == ResolveAll(s, es, ByType) IN
  IF Len(es) = 1 THEN Returning([r.s EXCEPT !.res = r.many[1]], FALSE, s.nodes[es[1]].means)
  ELSE Returning(ReturnedComposite(CompositeExpr(r.s, TStruct, r.many)), TRUE,
                 <<"comp", [i \in DOMAIN es |-> s.nodes[es[i]].means]>>)

\* What happens in branch b of if statement n.
Under(n, b, eff) == [i \in DOMAIN eff |-> [eff[i] EXCEPT !.path = <<<<n, b>>>> \o @]]

\* if_statement
IfStatement(s, c, then, else) ==
  LET s1 == Resolve(s, c, "rvalue")
      n == Len(s1.nodes) + 1
  IN Enforced(MkStmt(s1, "IfStmt", <<s1.res, then, else>>,
                     s1.nodes[s1.res].eff \o Under(n, 1, s1.nodes[then].eff)
                                          \o Under(n, 2, s1.nodes[else].eff)))

\* statement_list, compound_statement, block with block_add_statements
StatementList(s, sts) ==
  Enforced(MkStmt(s, "BlockStmt", sts, FlattenSeq([i \in DOMAIN sts |-> s.nodes[sts[i]].eff])))

\* compound_expression
CompoundExpr(s, st, e) == MkCompound(s, st, e)

\* A block of the statement just made.
BlockOf(s) == MkStmt(s, "BlockStmt", <<s.res>>, s.nodes[s.res].eff)

\* conditional_expression: a temporary t is set in both branches and is the value.  The
\* last part, the second, and the first; each goes on with the block just made.
ConditionalValue(s, t) ==
  LET v == VarExpr(s, t, FALSE) IN Unless(s, MkCompound(v, s.res, v.res))
ConditionalIf(s, c, then, t) == Unless(s, ConditionalValue(IfStatement(s, c, then, s.res), t))
ConditionalElse(s, c, e, t) ==
  LET var == VarExpr(s, t, TRUE) IN
  Unless(s, ConditionalIf(BlockOf(AssignmentStatement(var, var.res, e)), c, s.res, t))
ConditionalOf(r, c, means) ==
  LET type == r.s.nodes[r.many[1]].type
      t == Len(r.s.slots) + 1
      s1 == [r.s EXCEPT !.slots = Append(@, [type |-> type, means |-> means, global |-> FALSE])]
  IN Unless(r.s, ConditionalElse(BlockOf(InitStatement(s1, t, r.many[1])), c, r.many[2], t))

\* conditional_expression
ConditionalExpr(s, c, then, else) ==
  LET s1 == ResolveVarContext(s, c, "rvalue") IN
  ConditionalOf(ResolveAll(s1, <<then, else>>, LAMBDA t, e : "rvalue"), s1.res,
                <<"cond", s.nodes[c].means, s.nodes[then].means, s.nodes[else].means>>)

-----------------------------------------------------------------------------
(* The frontend.                                                           *)

Asks(what) ==
  /\ what \in frontend.asks
  /\ requests < frontend.requests /\ body = 0 /\ be.failed = ""
  /\ requests' = requests + 1
  /\ UNCHANGED <<frontend, body>>

\* An expression is used once, unless it is of a flavor that is used again, for
\* its value; aggregates and places are used again only if "aggregates" is asked.
Again(e) ==
  LET n == be.nodes[e] IN
  \/ n.flavor = "Error"
  \/ /\ n.flavor \in frontend.reuse
     /\ "aggregates" \in frontend.asks \/ (~Aggregate(n.type) /\ ~n.lvalue)
Left(es) == exprs \ {e \in Range(es) : ~Again(e)}
OnceEach(es) == \A i, j \in DOMAIN es : es[i] = es[j] => i = j \/ Again(es[i])

Type(e) == be.nodes[e].type
HasValue(e) == be.nodes[e].value # NoValue \/ e = ErrorExpr
\* Not a place: something that may be used for its value, at once or later
Usable(e) == ~be.nodes[e].lvalue
IsValue(e) == HasValue(e) /\ Usable(e)

\* An error in gives the error out; otherwise the expression in field res.
GiveExpr(es, s) ==
  LET t == IF ErrorExpr \in Range(es) THEN [be EXCEPT !.res = ErrorExpr] ELSE s IN
  /\ OnceEach(es)
  /\ be' = t
  /\ exprs' = Left(es) \cup {t.res}
  /\ UNCHANGED stmts
GiveStmt(es, sts, s) ==
  LET t == IF ErrorExpr \in Range(es) \/ ErrorStmt \in Range(sts)
           THEN [be EXCEPT !.res = ErrorStmt] ELSE s
  IN /\ OnceEach(es) /\ IsInjective(sts)
     /\ be' = t
     /\ exprs' = Left(es)
     /\ stmts' = (stmts \ Range(sts)) \cup {t.res}

AskConstant == Asks("constant") /\ GiveExpr(<<>>, ConstantExpr(be, TInt, <<"num">>))
AskVar(x) == Asks("var") /\ x \in frontend.vars /\ GiveExpr(<<>>, VarExpr(be, x, FALSE))
AskPlace(x) == Asks("place") /\ x \in frontend.vars /\ GiveExpr(<<>>, VarExpr(be, x, TRUE))

\* A struct is not loaded as a whole: one is only indirect in what is pending.
AskIndirect(e) ==
  /\ Asks("indirect") /\ HasValue(e)
  /\ e = ErrorExpr \/ (IsPointer(Type(e)) /\ (Aggregate(Type(e)[2]) => be.nodes[e].pending))
  /\ GiveExpr(<<e>>, IndirectExpr(be, e))
AskAddress(e) ==
  /\ Asks("address") /\ HasValue(e)
  /\ e = ErrorExpr \/ (be.nodes[e].pending /\ be.nodes[e].addrLevel = 0)
  /\ GiveExpr(<<e>>, AddressExpr(be, e))
\* An integer is converted once it is loaded, unless "variables" is asked for.
AskConvert(e, type) ==
  /\ Asks("convert") /\ IsValue(e)
  /\ \/ e = ErrorExpr
     \/ IsPointer(type) /\ IsPointer(Type(e))
     \/ /\ {type, Type(e)} \subseteq {TInt, TWide}
        /\ "variables" \in frontend.asks \/ ~be.nodes[e].pending
  /\ GiveExpr(<<e>>, ConvertExpr(be, type, e))
AskField(e, i) ==
  /\ Asks("field") /\ HasValue(e)
  /\ e = ErrorExpr \/ Type(e) \in {TStruct, TNest}
  /\ GiveExpr(<<e>>, FieldExpr(be, e, i))
AskIndex(e, i) ==
  /\ Asks("index") /\ HasValue(e) /\ IsValue(i)
  /\ ErrorExpr \in {e, i} \/ (Type(e) = TArray /\ Type(i) = TInt)
  /\ GiveExpr(<<e, i>>, IndexExpr(be, e, i))
AskOffset(e, i) ==
  /\ Asks("offset") /\ IsValue(e) /\ IsValue(i)
  /\ ErrorExpr \in {e, i} \/ (Type(e) = PtrTo(TInt) /\ Type(i) = TInt)
  /\ GiveExpr(<<e, i>>, OffsetExpr(be, e, i))
AskUnary(e) ==
  /\ Asks("unary") /\ IsValue(e)
  /\ e = ErrorExpr \/ Type(e) = TInt
  /\ GiveExpr(<<e>>, UnaryExpr(be, e))
AskBinary(e, f) ==
  /\ Asks("binary") /\ IsValue(e) /\ IsValue(f)
  /\ ErrorExpr \in {e, f} \/ (Type(e) = TInt /\ Type(f) = TInt)
  /\ GiveExpr(<<e, f>>, BinaryExpr(be, e, f))
AskComposite(type, e, f) ==
  /\ Asks("composite") /\ Usable(e) /\ Usable(f)
  /\ ErrorExpr \in {e, f} \/ {Type(e), Type(f)} = {ElementType(type)}
  /\ GiveExpr(<<e, f>>, CompositeExpr(be, type, <<e, f>>))
AskCall(result, e) ==
  /\ Asks("call") /\ Usable(e)
  /\ e = ErrorExpr \/ Type(e) \in {TInt, TStruct, TArray}
  /\ GiveExpr(<<e>>, CallExpr(be, result, <<e>>))
AskConditional(c, e, f) ==
  /\ Asks("conditional") /\ IsValue(c) /\ IsValue(e) /\ IsValue(f)
  /\ ErrorExpr \in {c, e, f} \/ {Type(c), Type(e), Type(f)} = {TInt}
  /\ GiveExpr(<<c, e, f>>, ConditionalExpr(be, c, e, f))
AskCompound(st, e) ==
  /\ Asks("compound") /\ IsValue(e)
  /\ OnceEach(<<e>>)
  /\ be' = (IF ErrorExpr = e \/ ErrorStmt = st THEN [be EXCEPT !.res = ErrorExpr]
            ELSE CompoundExpr(be, st, e))
  /\ exprs' = Left(<<e>>) \cup {be'.res}
  /\ stmts' = stmts \ {st}

AskExprStatement(e) == Asks("statement") /\ Usable(e) /\ GiveStmt(<<e>>, <<>>, ExprStatement(be, e))
AskInit(x, e) ==
  /\ Asks("init") /\ x \in frontend.vars
  /\ IF e = 0 THEN ~Aggregate(Variables[x].type)
     ELSE e = ErrorExpr \/ (Type(e) = Variables[x].type /\ Usable(e))
  /\ GiveStmt(IF e = 0 THEN <<>> ELSE <<e>>, <<>>, InitStatement(be, x, e))
AskAssignment(e, f) ==
  /\ Asks("assignment") /\ HasValue(e) /\ Usable(f) /\ e # f
  /\ \/ ErrorExpr \in {e, f}
     \/ /\ Type(e) = Type(f) /\ be.nodes[e].pending /\ be.nodes[e].addrLevel = 0
        /\ ~Again(e) \/ "aggregates" \in frontend.asks
  /\ GiveStmt(<<e, f>>, <<>>, AssignmentStatement(be, e, f))
AskReturn(es) ==
  /\ Asks("return")
  /\ Len(es) = 2 => \A i \in 1..2 : Type(es[i]) \in {TInt, TVoid}
  /\ \A i \in DOMAIN es : ~ModuleScope(be, es[i]) /\ Usable(es[i])
  /\ GiveStmt(es, <<>>, ReturnStatement(be, es))
AskIf(c, st, su) ==
  /\ Asks("if") /\ IsValue(c) /\ Type(c) = TInt
  /\ GiveStmt(<<c>>, <<st, su>>, IfStatement(be, c, st, su))
AskList(sts) == Asks("list") /\ GiveStmt(<<>>, sts, StatementList(be, sts))

\* function_set_body
SetBody(st) ==
  /\ body = 0 /\ be.failed = "" /\ st # ErrorStmt
  /\ be' = EnforceTreeIntegrity(be, st)
  /\ body' = st
  /\ UNCHANGED <<frontend, exprs, stmts, requests>>

Next ==
  \/ AskConstant
  \/ \E x \in DOMAIN Variables : AskVar(x) \/ AskPlace(x)
  \/ \E e \in exprs :
       \/ AskIndirect(e) \/ AskAddress(e) \/ AskUnary(e) \/ AskExprStatement(e)
       \/ \E type \in {TWide, PtrTo(TWide), PtrTo(PtrTo(TInt))} : AskConvert(e, type)
       \/ \E i \in 1..2 : AskField(e, i)
       \/ \E result \in {TInt, TStruct} : AskCall(result, e)
       \/ \E st \in stmts : AskCompound(st, e)
       \/ AskReturn(<<e>>)
  \/ \E e, f \in exprs :
       \/ AskIndex(e, f) \/ AskOffset(e, f) \/ AskBinary(e, f) \/ AskAssignment(e, f)
       \/ AskReturn(<<e, f>>)
       \/ \E type \in {TStruct, TArray, TNest} : AskComposite(type, e, f)
       \/ \E c \in exprs : AskConditional(c, e, f)
  \/ \E x \in DOMAIN Variables, e \in exprs \cup {0} : AskInit(x, e)
  \/ \E st, su \in stmts : AskList(<<st, su>>) \/ \E c \in exprs : AskIf(c, st, su)
  \/ \E st \in stmts : SetBody(st)

Spec == Init /\ [][Next]_vars
=============================================================================

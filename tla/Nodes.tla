--------------------------------- MODULE Nodes ---------------------------------
(***************************************************************************)
(* Expression and statement trees: class BnodeBuilder (go-llvm-bnode.cpp), *)
(* the VarContext of a Bexpression (go-llvm-bexpression.h) and the         *)
(* IntegrityVisitor that finds shared subtrees and clones them             *)
(* (go-llvm-tree-integrity.cpp).                                           *)
(*                                                                         *)
(* The operators take the state of the backend, a record, and return it    *)
(* changed, with the node they made in its field res.  Every node and      *)
(* every instruction also carries what it stands for: a term of the Go     *)
(* program, written from the variables with Addr, Star, Field...           *)
(***************************************************************************)
EXTENDS Integers, Sequences, SequencesExt, FiniteSetsExt

-----------------------------------------------------------------------------
(* Types.  A struct of two ints, an array of two, a struct of two structs. *)

TInt == <<"int">>
TWide == <<"wide">>
TStruct == <<"S">>
TArray == <<"A">>
TNest == <<"SS">>
TVoid == <<"void">>
PtrTo(T) == <<"p", T>>

IsPointer(T) == T[1] = "p"
Aggregate(T) == T \in {TStruct, TArray, TNest}
ElementType(T) == IF T = TNest THEN TStruct ELSE TInt

-----------------------------------------------------------------------------
(* Terms.  Star and AddrOf cancel; a pointer conversion of a pointer's     *)
(* address is the address of the converted pointer.                        *)

RECURSIVE StarOf(_), AddrOf(_)
StarOf(t) ==
  CASE t[1] = "addr" -> t[2]
    [] t[1] = "conv" /\ IsPointer(t[2]) /\ IsPointer(t[2][2]) ->
         <<"conv", t[2][2], StarOf(t[3])>>
    [] OTHER -> <<"star", t>>
AddrOf(t) ==
  CASE t[1] = "star" -> t[2]
    [] t[1] = "conv" /\ IsPointer(t[2]) -> <<"conv", PtrTo(t[2]), AddrOf(t[3])>>
    [] OTHER -> <<"addr", t>>
FieldOf(t, i) == <<"field", t, i>>

-----------------------------------------------------------------------------
(* LLVM values: an instruction, the address of a variable (an alloca or a  *)
(* global), another constant, or none yet.                                 *)

NoValue == <<"none", 0>>
Inst(i) == <<"inst", i>>
Slot(x) == <<"slot", x>>
Const(c) == <<"const", c>>

IsInst(v) == v[1] = "inst"
IsConstant(s, v) == v[1] = "const" \/ (v[1] = "slot" /\ s.slots[v[2]].global)

Means(s, v) ==
  CASE v[1] = "inst" -> s.insts[v[2]].means
    [] v[1] = "slot" -> AddrOf(s.slots[v[2]].means)
    [] v[1] = "const" -> s.consts[v[2]].means
    [] OTHER -> <<"nothing">>
TypeOf(s, v) ==
  CASE v[1] = "inst" -> s.insts[v[2]].type
    [] v[1] = "slot" -> PtrTo(s.slots[v[2]].type)
    [] v[1] = "const" -> s.consts[v[2]].type
    [] OTHER -> TVoid

\* Constants are folded and kept once by LLVM: equal constants are one value.
ConstFor(s, type, means) ==
  LET c == [type |-> type, means |-> means] IN
  IF \E i \in DOMAIN s.consts : s.consts[i] = c
    THEN [s EXCEPT !.val = Const(CHOOSE i \in DOMAIN s.consts : s.consts[i] = c)]
    ELSE [s EXCEPT !.consts = Append(@, c), !.val = Const(Len(s.consts) + 1)]

\* What an IRBuilder with a ConstantFolder makes: a constant of constants, or
\* an instruction.  The value made is in field val of the result.
Emit(s, op, args, type, means) ==
  [s EXCEPT !.insts = Append(@, [op |-> op, args |-> args, type |-> type, means |-> means]),
            !.val = Inst(Len(s.insts) + 1)]
Build(s, op, args, type, means) ==
  IF \A i \in DOMAIN args : IsConstant(s, args[i])
    THEN ConstFor(s, type, means)
    ELSE Emit(s, op, args, type, means)

Abort(s, why) == [s EXCEPT !.failed = IF @ = "" THEN why ELSE @]
Unless(s, t) == IF s.failed # "" THEN s ELSE t

-----------------------------------------------------------------------------
(* Nodes.                                                                  *)

StmtFlavors == {"ExprStmt", "ReturnStmt", "IfStmt", "BlockStmt"}
IsStmt(n) == n.flavor \in StmtFlavors

\* A Bexpression without a pending variable; asked is what the frontend asked
\* for with it: the term it is to stand for, and the effects it is to have.
Node(flavor, kids, value, type, means, eff) ==
  [flavor |-> flavor, kids |-> kids, value |-> value, insts |-> <<>>, type |-> type,
   pending |-> FALSE, lvalue |-> FALSE, addrLevel |-> 0, id |-> 0, freed |-> FALSE,
   means |-> means, eff |-> eff]

VarExprOrConvVar(s, c) ==
  LET n == s.nodes[c] IN
  n.flavor = "Var" \/ (n.flavor = "Conversion" /\ s.nodes[n.kids[1]].flavor = "Var")

\* moduleScopeValue, shouldBeTracked with IgnoreVarExprs
ModuleScope(s, c) ==
  <<s.nodes[c].value, s.nodes[c].type>> \in DOMAIN s.valueExprs
Tracked(s, c) ==
  /\ IsStmt(s.nodes[c]) \/ ~ModuleScope(s, c)
  /\ ~VarExprOrConvVar(s, c)

\* setParent of the builder's own visitor, which does not repair
CheckTreeInteg(s, n) ==
  LET kids == s.nodes[n].kids
      tracked == {k \in Range(kids) : Tracked(s, k)}
      last(k) == CHOOSE i \in DOMAIN kids :
                   kids[i] = k /\ \A j \in DOMAIN kids : kids[j] = k => j <= i
  IN [s EXCEPT !.nparent =
        [k \in DOMAIN s.nparent \cup tracked |->
           IF k \in tracked THEN <<n, last(k)>> ELSE s.nparent[k]]]

\* archive
Archive(s, n) ==
  LET new == Len(s.nodes) + 1
      s1 == [s EXCEPT !.nodes = Append(@, [n EXCEPT !.id = Len(s.earchive) + 1]),
                      !.earchive = Append(@, new),
                      !.res = new]
  IN CheckTreeInteg(s1, new)

\* Mutant of FreeExpr: the last entry is dropped whatever its number is.
FreeExprPop(s, e) ==
  [s EXCEPT !.earchive = Front([@ EXCEPT ![s.nodes[e].id] = 0]),
            !.nodes[e].freed = TRUE]

\* freeExpr
FreeExpr(s, e) ==
  LET id == s.nodes[e].id
      cleared == [s.earchive EXCEPT ![id] = 0]
  IN [s EXCEPT !.earchive = IF id = Len(cleared) THEN Front(cleared) ELSE cleared,
               !.nodes[e].freed = TRUE]

\* appendInstIfNeeded: an instruction that is the value of a child stays there.
AppendInstIfNeeded(s, n) ==
  IF IsInst(n.value) /\ \A i \in DOMAIN n.kids : s.nodes[n.kids[i]].value # n.value
    THEN [n EXCEPT !.insts = Append(@, n.value[2])]
    ELSE n

\* setVarExprPending(const VarContext &)
SameContext(n, src) ==
  [n EXCEPT !.pending = src.pending, !.lvalue = src.lvalue, !.addrLevel = src.addrLevel]

\* Mutant of Inherit: the context is not handed up.
InheritNothing(n, src) == n

\* mkUnaryOp, mkConversion, mkStructField, mkArrayIndex, mkCompound: the
\* context of a pending variable below is the context of the new node.
Inherit(n, src) == IF src.pending THEN SameContext(n, src) ELSE n

-----------------------------------------------------------------------------
(* The constructors of nodes.                                              *)

MkConst(s, type, value) ==
  Archive(s, Node("Const", <<>>, value, type, Means(s, value), <<>>))

MkVar(s, x) ==
  Archive(s, Node("Var", <<>>, Slot(x), s.slots[x].type, s.slots[x].means, <<>>))

\* mkUnaryOp, mkConversion: one child, whose context is kept
MkOver(s, flavor, type, value, src, means) ==
  LET c == s.nodes[src] IN
  Archive(s, Inherit(AppendInstIfNeeded(s, Node(flavor, <<src>>, value, type, means, c.eff)), c))

\* mkAddress, mkDeref: the caller sets the context and adds the instructions
MkPlain(s, flavor, type, value, src, means) ==
  Archive(s, Node(flavor, <<src>>, value, type, means, s.nodes[src].eff))

\* mkStructField, mkArrayIndex: the context of the first child is kept
MkPart(s, flavor, type, value, kids, means) ==
  LET eff == FlattenSeq([i \in DOMAIN kids |-> s.nodes[kids[i]].eff])
      n == AppendInstIfNeeded(s, Node(flavor, kids, value, type, means, eff))
  IN Archive(s, Inherit(n, s.nodes[kids[1]]))

\* mkBinaryOp, without instructions of the caller
MkBinaryOp(s, type, value, left, right, means) ==
  LET eff == s.nodes[left].eff \o s.nodes[right].eff
  IN Archive(s, AppendInstIfNeeded(s, Node("BinaryOp", <<left, right>>, value, type, means, eff)))

\* mkBinaryOp with the instructions of the caller, mkComposite, mkCall
MkWith(s, flavor, type, value, kids, insts, means, eff) ==
  Archive(s, [Node(flavor, kids, value, type, means, eff) EXCEPT !.insts = insts])

\* mkCompound
MkCompound(s, st, e) ==
  LET n == s.nodes[e] IN
  Archive(s, Inherit(Node("Compound", <<st, e>>, n.value, n.type, n.means,
                          s.nodes[st].eff \o n.eff), n))

\* mkExprStmt, mkReturn, mkIfStmt, mkBlock and addStatementToBlock.  Blocks
\* are archived before they have children.
MkStmt(s, flavor, kids, eff) ==
  LET n == Node(flavor, IF flavor = "BlockStmt" THEN <<>> ELSE kids, NoValue, TVoid,
                <<"nothing">>, eff)
      s1 == Archive(s, n)
  IN [s1 EXCEPT !.nodes[s1.res].kids = kids]

-----------------------------------------------------------------------------
(* cloneSub, cloneSubtree: the map from values to their clones is made     *)
(* anew for every node and nothing is ever entered in it, so the clones of *)
(* instructions have the operands of the originals, and the value of the   *)
(* clone is the instruction of the original.                               *)

RECURSIVE CloneSubtree(_, _)
CloneSubtree(s, e) ==
  LET n == s.nodes[e]
      cloneKid(acc, kid) ==
        LET c == CloneSubtree(acc.s, kid) IN [s |-> c, kids |-> Append(acc.kids, c.res)]
      below == FoldLeft(cloneKid, [s |-> s, kids |-> <<>>], n.kids)
      s1 == [below.s EXCEPT !.insts = @ \o [i \in DOMAIN n.insts |-> s.insts[n.insts[i]]]]
      copy == [Node(n.flavor, <<>>, n.value, n.type, n.means, n.eff)
               EXCEPT !.insts = [i \in DOMAIN n.insts |-> Len(below.s.insts) + i]]
      s2 == Archive(s1, copy)
  IN [s2 EXCEPT !.nodes[s2.res].kids = below.kids]

\* unsetParent, with its assertions
UnsetParent(s, child, parent, slot) ==
  IF ~Tracked(s, child) THEN s
  ELSE IF child \notin DOMAIN s.nparent \/ s.nparent[child] # <<parent, slot>>
    THEN Abort(s, "unsetParent")
    ELSE [s EXCEPT !.nparent = Restrict(@, DOMAIN @ \ {child})]

\* extractChildenAndDestroy
ExtractChildren(s, e) ==
  LET kids == s.nodes[e].kids
      unset(acc, i) == UnsetParent(acc, kids[i], e, i)
  IN FreeExpr(FoldLeftDomain(unset, s, kids), e)

-----------------------------------------------------------------------------
(* IntegrityVisitor::examine with RepairSharing.                           *)

Unvisited == [nparent |-> <<>>, iparent |-> <<>>, sharing |-> <<>>,
              instShare |-> FALSE, stmtShare |-> FALSE]

SetParent(s, iv, child, parent, slot) ==
  LET moved == [iv EXCEPT !.nparent =
                  [k \in DOMAIN @ \cup {child} |->
                     IF k = child THEN <<parent, slot>> ELSE @[k]]]
  IN CASE ~Tracked(s, child) -> iv
       [] child \notin DOMAIN iv.nparent -> moved
       [] child \in DOMAIN iv.nparent /\ iv.nparent[child] = <<parent, slot>> -> iv
       [] OTHER -> [moved EXCEPT !.stmtShare = @ \/ IsStmt(s.nodes[child]),
                                 !.sharing = Append(@, <<child, parent, slot>>)]

SetInstParent(iv, inst, parent, slot) ==
  IF inst \notin DOMAIN iv.iparent
    THEN [iv EXCEPT !.iparent = [k \in DOMAIN @ \cup {inst} |->
                                   IF k = inst THEN <<parent, slot>> ELSE @[k]]]
    ELSE [iv EXCEPT !.instShare = @ \/ iv.iparent[inst] # <<parent, slot>>]

\* visit: children first, in order.  Nothing is repaired once an instruction or a
\* statement is shared, and what else is shared makes no difference.
RECURSIVE Visit(_, _, _)
Visit(s, iv, n) ==
  LET kids == s.nodes[n].kids
      insts == s.nodes[n].insts
      visitKid(acc, i) == SetParent(s, Visit(s, acc, kids[i]), kids[i], n, i)
      visitInst(acc, i) == SetInstParent(acc, insts[i], n, i)
  IN IF iv.instShare \/ iv.stmtShare THEN iv
     ELSE FoldLeftDomain(visitInst, FoldLeftDomain(visitKid, iv, kids), insts)

RECURSIVE Subtree(_, _)
Subtree(s, n) ==
  {n} \cup UNION {Subtree(s, k) : k \in Range(s.nodes[n].kids)}

\* repairableSubTree
Acceptable == {"Const", "Var", "Conversion", "Deref", "StructField"}
RepairableSubTree(s, e) == \A k \in Subtree(s, e) : s.nodes[k].flavor \in Acceptable

\* Mutant of Repair: a child that was cloned once is not cloned again.
RepairOnce(s, sharing) ==
  LET step(acc, p) ==
        IF ~acc.ok \/ p[1] \in acc.seen THEN acc
        ELSE IF ~RepairableSubTree(acc.s, p[1]) THEN [acc EXCEPT !.ok = FALSE]
        ELSE LET c == CloneSubtree(acc.s, p[1]) IN
             [ok |-> TRUE, s |-> [c EXCEPT !.nodes[p[2]].kids[p[3]] = c.res],
              seen |-> acc.seen \cup {p[1]}]
  IN FoldLeft(step, [s |-> s, ok |-> TRUE, seen |-> {}], sharing)

\* repair: the second and every later parent of a shared child gets a clone.
Repair(s, sharing) ==
  LET step(acc, p) ==
        IF ~acc.ok \/ (p[1] \notin acc.seen /\ ~RepairableSubTree(acc.s, p[1]))
          THEN [acc EXCEPT !.ok = FALSE]
          ELSE LET c == CloneSubtree(acc.s, p[1]) IN
               [ok |-> TRUE, s |-> [c EXCEPT !.nodes[p[2]].kids[p[3]] = c.res],
                seen |-> acc.seen \cup {p[1]}]
  IN FoldLeft(step, [s |-> s, ok |-> TRUE, seen |-> {}], sharing)

\* examine, and enforceTreeIntegrity, which aborts when the tree is not repaired
EnforceTreeIntegrity(s, n) ==
  LET iv == Visit(s, Unvisited, n)
      repaired == Repair(s, iv.sharing)
  IN CASE iv.instShare \/ iv.stmtShare -> Abort(s, "sharing")
       [] ~(iv.instShare \/ iv.stmtShare) /\ iv.sharing = <<>> -> [s EXCEPT !.res = n]
       [] OTHER -> IF repaired.ok THEN [repaired.s EXCEPT !.res = n]
                                  ELSE Abort(s, "sharing")
=============================================================================

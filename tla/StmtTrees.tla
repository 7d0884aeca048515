------------------------------ MODULE StmtTrees ------------------------------
(***************************************************************************)
(* Statement trees for model checking GenBlocks: constructors, the shape    *)
(* the Go frontend gives the trees it builds, and families of small trees.  *)
(***************************************************************************)
EXTENDS Naturals, Sequences, FiniteSets

Mk(k, kids, insts, arg) == [k |-> k, kids |-> kids, insts |-> insts, arg |-> arg]
MkIns(op, id) == [op |-> op, id |-> id, to |-> <<>>]

Expr(insts) == Mk("expr", <<>>, insts, 0)
CallExpr(id) == Expr(<<MkIns("call", id)>>)
Stmt(e) == Mk("exprstmt", <<e>>, <<>>, 0)
Call(id) == Stmt(CallExpr(id))
Op(id) == Stmt(Expr(<<MkIns("op", id)>>))
\* x = f(): a store whose right-hand side is a call with an intrinsic in it.
Store(id) == Stmt(Mk("expr", <<Expr(<<MkIns("intrinsic", id), MkIns("call", id)>>)>>,
                     <<MkIns("op", id)>>, 0))
Block(stmts) == Mk("block", stmts, <<>>, 0)
If(cond, then, else) == Mk("if", <<cond, then, else>>, <<>>, 0)
Switch(val, cases, dflt) == Mk("switch", <<val>> \o cases, <<>>, dflt)
\* "return x" loads the result variable, the same one in the whole function.
Return(void) ==
  Mk("return", <<Expr(IF void THEN <<MkIns("ret", 0)>>
                      ELSE <<MkIns("op", 9), MkIns("ret", 0)>>)>>, <<>>, 0)
Defer(undefer, defer) == Mk("defer", <<undefer, defer>>, <<>>, 0)
Excep(body, onexc, fin) == Mk("excep", <<body, onexc>> \o fin, <<>>, 0)
Goto(l) == Mk("goto", <<>>, <<>>, l)
LabelDef(l) == Mk("label", <<>>, <<>>, l)

RangeOf(s) == {s[j] : j \in DOMAIN s}

RECURSIVE SubNodes(_), Count(_, _), Reaches(_, _), Alive(_, _)

SubNodes(n) == {n} \cup UNION {SubNodes(m) : m \in RangeOf(n.kids)}

\* How often a node occurs in a tree.
Count(m, n) ==
  LET RECURSIVE Sum(_)
      Sum(j) == IF j = 0 THEN 0 ELSE Count(m, n.kids[j]) + Sum(j - 1)
  IN  (IF n = m THEN 1 ELSE 0) + Sum(Len(n.kids))

\* Bfunction::registerLabelDefStatement asserts that a label is defined once; the
\* frontend defines every label it has a goto for.
LabelsDefined(t, labels) ==
  \A l \in labels : /\ Count(LabelDef(l), t) <= 1
                    /\ Count(Goto(l), t) > 0 => Count(LabelDef(l), t) = 1

\* Whether GenBlocks has a current block after n, if it has one before (live).
Reaches(n, live) ==
  CASE n.k \in {"return", "goto"} -> FALSE
    [] n.k \in {"label", "if", "switch", "defer"} -> TRUE
    [] n.k = "excep" -> Len(n.kids) = 3 => Reaches(n.kids[3], TRUE)
    [] OTHER -> LET RECURSIVE After(_)
                    After(j) == IF j = 0 THEN live
                                ELSE Reaches(n.kids[j], After(j - 1))
                IN  After(Len(n.kids))

\* No if or switch statement, and no return to a finally clause, is reached by
\* the walk without a current block.
Alive(n, live) ==
  CASE n.k \in {"if", "switch"} ->
         live /\ \A j \in 2..Len(n.kids) : Alive(n.kids[j], TRUE)
    [] n.k = "return" -> live
    [] n.k = "excep" ->
         /\ Alive(n.kids[1], live)
         /\ \A j \in 2..Len(n.kids) : Alive(n.kids[j], TRUE)
    [] OTHER -> LET RECURSIVE Before(_)
                    Before(j) == IF j = 0 THEN live
                                 ELSE Reaches(n.kids[j], Before(j - 1))
                IN  \A j \in DOMAIN n.kids : Alive(n.kids[j], Before(j - 1))

\* A case of a switch ends with a transfer of control, as every case without
\* "fallthrough" does, or the walk of the case stays in the block it starts in:
\* straight-line code, without a call when calls may become invokes.
StaysInBlock(n, invokes) ==
  \A m \in SubNodes(n) :
     /\ m.k \in {"block", "exprstmt", "expr"}
     /\ invokes => \A i \in DOMAIN m.insts : m.insts[i].op # "call"
CasesClose(t, invokes) ==
  \A n \in SubNodes(t) : n.k = "switch" =>
     \A j \in 2..Len(n.kids) :
        ~Reaches(n.kids[j], TRUE) \/ StaysInBlock(n.kids[j], invokes)

WellShaped(t, labels, invokes) ==
  LabelsDefined(t, labels) /\ Alive(t, TRUE) /\ CasesClose(t, invokes)
=============================================================================

----------------------------- MODULE MCGenBlocks -----------------------------
(***************************************************************************)
(* Bodies of functions without defer: every well-shaped block of up to      *)
(* three statements made of calls, stores, returns, one label, and if and   *)
(* switch statements over such blocks.                                      *)
(*                                                                          *)
(* Bodies of functions with defer, as the frontend builds them: the whole   *)
(* body is one exception statement behind the initialisation of the defer   *)
(* stack; the on-exception clause calls checkdefer and may return; the      *)
(* finally clause runs the deferred calls with a defer statement.  A        *)
(* function without a result may end its body without a return, then all    *)
(* its returns are empty; one with a result returns on every path.          *)
(***************************************************************************)
EXTENDS GenBlocksTraces, StmtRules, StmtTrees

Labels == {1}

-----------------------------------------------------------------------------
(* Without defer.                                                           *)

Simple == {Call(1), Store(2), Return(FALSE), Goto(1), LabelDef(1)}
Blocks1 == {Block(<<>>)} \cup {Block(<<s>>) : s \in Simple}
Blocks2 == {Block(<<s, t>>) : s \in Simple, t \in {Return(FALSE), Goto(1), Call(3)}}

Ifs == {If(CallExpr(4), b, c) : b \in Blocks1 \cup Blocks2, c \in Blocks1}
NestedIfs == {If(CallExpr(4), Block(<<i>>), Block(<<>>)) :
              i \in {If(CallExpr(5), b, c) : b \in Blocks1, c \in Blocks1}}
Switches == {Switch(CallExpr(6), <<b, c>>, d) : b \in Blocks1 \cup Blocks2,
                                                c \in Blocks1, d \in 0..2}
            \cup {Switch(CallExpr(6), <<Block(<<i, Goto(1)>>)>>, 0) : i \in Ifs}
            \cup {Switch(CallExpr(6), <<>>, 0)}

Compound == Ifs \cup NestedIfs \cup Switches

Bodies ==
  {Block(<<c, s>>) : c \in Compound, s \in {Call(7), LabelDef(1), Return(FALSE)}}
  \cup {Block(<<s, c>>) : s \in Simple, c \in Ifs}
  \cup {Block(<<s, c, LabelDef(1), Call(8)>>) : s \in {Call(1), Store(2)}, c \in Compound}
  \cup {Block(<<s, t, u>>) : s \in Simple, t \in Simple, u \in Simple}
  \cup {Block(<<i, j, LabelDef(1)>>) :
          i \in {If(CallExpr(4), b, Block(<<>>)) : b \in Blocks1},
          j \in {If(CallExpr(5), b, c) : b \in Blocks1, c \in Blocks1}}

WellShapedBodies == {t \in Bodies : WellShaped(t, Labels, FALSE)}

-----------------------------------------------------------------------------
(* With defer.  r is the return statement of the function.                  *)

Plain(r) == {Call(1), Store(2), r, Goto(1), LabelDef(1)}
Small(r) == {Block(<<>>), Block(<<r>>), Block(<<Call(3)>>), Block(<<Goto(1)>>)}
Branches(r) ==
  {If(CallExpr(4), b, c) : b \in Small(r), c \in Small(r)}
  \cup {Switch(CallExpr(5), <<Block(<<Call(6), e>>), b>>, 2) :
          b \in Small(r), e \in {r, Goto(1)}}

Clause(r) ==
  {Block(<<s>>) : s \in Plain(r) \cup Branches(r)}
  \cup {Block(<<s, t, LabelDef(1)>>) : s \in Branches(r), t \in {r, Call(7), Goto(1)}}
  \cup {Block(<<s, t, u>>) : s \in Plain(r), t \in Branches(r), u \in {r, LabelDef(1)}}
  \cup {Block(<<s, t>>) : s \in Plain(r), t \in {r}}

OnExc(r) == {Call(10), Block(<<Call(10), r>>),
             If(CallExpr(10), Block(<<r>>), Block(<<Call(11)>>))}

RunDefers == Defer(CallExpr(20), CallExpr(21))
Finallies(r) == {<<>>, <<RunDefers>>,
                 <<Block(<<RunDefers, If(Expr(<<MkIns("op", 22)>>), Block(<<r>>),
                                         Block(<<>>))>>)>>}

Protected(r) == {b \in Clause(r) : WellShaped(b, Labels, TRUE)}

\* A function with a result returns wherever its body or on-exception clause ends.
HandlerBodies ==
  {Block(<<Call(30), Excep(b, e, f)>>) :
      b \in Protected(Return(TRUE)), e \in OnExc(Return(TRUE)),
      f \in Finallies(Return(TRUE))}
  \cup
  {Block(<<Call(30), Excep(b, e, f)>>) :
      b \in {b \in Protected(Return(FALSE)) : ~Reaches(b, TRUE)},
      e \in {e \in OnExc(Return(FALSE)) : ~Reaches(e, TRUE)},
      f \in Finallies(Return(FALSE))}
\* TLC computes a definition without parameters once, but evaluates the right side
\* of a CONSTANT substitution at every use: the substituted ones are only names.
AllBodies == WellShapedBodies \cup HandlerBodies
NodesOfBodies == UNION {SubNodes(t) : t \in AllBodies}
MCTrees == AllBodies
MCNode == NodesOfBodies

-----------------------------------------------------------------------------
(* The bodies obey the rules of StmtRules: the derivation that says so.     *)

Reached(live) == IF live THEN "live" ELSE "dead"

RECURSIVE VisitsOf(_, _, _)

\* The visits of the walk of n in a mode, from a point control reaches or not.
VisitsOf(n, mode, live) ==
  LET Before[j \in 0..Len(n.kids)] ==
        IF j = 0 THEN live ELSE Reaches(n.kids[j], Before[j - 1])
      Arms(first) == UNION {VisitsOf(n.kids[j], mode, TRUE) : j \in first..Len(n.kids)}
  IN
  {[n |-> n, mode |-> mode, from |-> Reached(live), to |-> Reached(Reaches(n, live))]}
  \cup
  CASE n.k \in {"block", "exprstmt", "expr"} ->
         UNION {VisitsOf(n.kids[j], mode, Before[j - 1]) : j \in DOMAIN n.kids}
    [] n.k \in {"if", "switch"} -> VisitsOf(n.kids[1], mode, live) \cup Arms(2)
    [] n.k = "defer" -> VisitsOf(n.kids[1], mode \cup {"pad"}, TRUE)
    [] n.k = "excep" ->
         VisitsOf(n.kids[1], Protecting(n), live)
         \cup VisitsOf(n.kids[2], Protecting(n), TRUE)
         \cup UNION {VisitsOf(n.kids[j], InFinally, TRUE) : j \in 3..Len(n.kids)}
    [] OTHER -> {}

BodyDerivation(t) ==
  [visits |-> VisitsOf(t, {}, TRUE),
   calm |-> {n \in SubNodes(t) : StaysInBlock(n, FALSE)},
   quiet |-> {n \in SubNodes(t) : StaysInBlock(n, TRUE)}]

\* What WalkNeverAborts assumes of the trees.
ASSUME BodiesAreDerived == \A t \in Trees : BodyDerived(BodyDerivation(t), t)

-----------------------------------------------------------------------------
(* The layout of a body that StmtRules asks for.                            *)

RECURSIVE LabelsOf(_), NodesLaid(_)

LabelsOf(n) == IF n.k = "label" THEN {n.arg} ELSE UNION {LabelsOf(m) : m \in RangeOf(n.kids)}

\* The nodes of a body but for the returned expressions.
NodesLaid(n) ==
  {n} \cup UNION {NodesLaid(m) :
      m \in RangeOf(IF n.k = "return" THEN n.kids[1].kids ELSE n.kids)}

BodyLayout(t) ==
  [nodes |-> NodesLaid(t),
   defs |-> [n \in NodesLaid(t) |-> LabelsOf(n)],
   tails |-> {n \in NodesLaid(t) : \E m \in SubNodes(n) : m.k = "excep"},
   labels |-> LabelsOf(t)]

\* What CfgStaysWellFormed assumes of them besides.
ASSUME BodiesAreLaid ==
  \A t \in Trees : SwitchesClose(BodyDerivation(t)) /\ BodyLaid(BodyLayout(t), t)
=============================================================================

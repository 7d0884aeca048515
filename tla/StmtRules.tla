----------------------------- MODULE StmtRules -----------------------------
(***************************************************************************)
(* What the walk of GenBlocks relies on in the statement trees it is given, *)
(* as rules a tree can be derived from, in the way a type system is given:  *)
(* a derivation says of every node in which circumstances it is walked and  *)
(* whether the walk has a current block behind it, and the rules relate a   *)
(* node to its children only.  The conditions are those the C++ code leaves *)
(* to its caller: assertions, and blocks used without a check.              *)
(***************************************************************************)
EXTENDS GenBlocks

\* What surrounds a walk: "pad", calls become invokes (padBlockStack_ is not
\* empty); "finally", returns go to a finally clause (finallyBlock_ is set);
\* "owed", a return may be kept in cachedReturn_.
Mode == SUBSET {"pad", "finally", "owed"}

\* The mode of the children of an exception statement, and of its last one.
Protecting(n) == {"pad"} \cup (IF HasFinally(n) THEN {"finally", "owed"} ELSE {})
InFinally == {"owed"}

\* Whether control can be at a point: is there a current block?
Reach == {"live", "dead"}

\* A derivation has visits, which are walks of nodes with the mode and the reach
\* before and behind them, and names the nodes whose walk stays in the block it
\* starts in: "calm" when calls stay calls, "quiet" in any case.
IsDerivation(s) ==
  s \in [visits : SUBSET [n : Node, mode : Mode, from : Reach, to : Reach],
         calm : SUBSET Node, quiet : SUBSET Node]

Visited(s, n, mode, from, to) ==
  [n |-> n, mode |-> mode, from |-> from, to |-> to] \in s.visits

\* Walked from a new block; control may or may not reach the end.
VisitedAsArm(s, n, mode) == \E to \in Reach : Visited(s, n, mode, "live", to)

ArmsVisited(s, n, mode) == \A i \in 2..Len(n.kids) : VisitedAsArm(s, n.kids[i], mode)

Calm(s, n, mode) == IF "pad" \in mode THEN n \in s.quiet ELSE n \in s.calm

\* Straight-line code.
CalmRule(s, n) ==
  /\ n.k \in {"block", "exprstmt", "expr"}
  /\ \A i \in DOMAIN n.kids : n.kids[i] \in s.calm

NoCalls(n) == \A i \in DOMAIN n.insts : n.insts[i].op # "call"

\* Straight-line code without calls.
QuietRule(s, n) ==
  /\ n.k \in {"block", "exprstmt", "expr"}
  /\ \A i \in DOMAIN n.kids : n.kids[i] \in s.quiet
  /\ NoCalls(n)

\* Control runs through the children in order.
SequenceRule(s, n, mode, from, to) ==
  \E reach \in [1..(Len(n.kids) + 1) -> Reach] :
     /\ reach[1] = from
     /\ reach[Len(n.kids) + 1] = to
     /\ \A i \in DOMAIN n.kids :
          Visited(s, n.kids[i], mode, reach[i], reach[i + 1])

\* genIf and genSwitch need a current block behind the condition or the value.
BranchRule(s, n, mode, from, to) ==
  /\ Visited(s, n.kids[1], mode, from, "live")
  /\ ArmsVisited(s, n, mode)
  /\ to = "live"

\* genReturn needs a current block to leave for a finally clause.  The returned
\* expression is walked in one block: here, or at the end of that clause.
ReturnRule(s, n, mode, from, to) ==
  /\ "finally" \in mode => from = "live"
  /\ Calm(s, n.kids[1], IF "finally" \in mode THEN {} ELSE mode)
  /\ to = "dead"

\* genDefer walks the undefer call under a landing pad and the defer call, which
\* must stay in one block, after it.
DeferRule(s, n, mode, to) ==
  /\ Visited(s, n.kids[1], mode \cup {"pad"}, "live", to)
  /\ Calm(s, n.kids[2], mode)

\* genExcep cannot be nested, nor stand in a finally clause.
ExcepRule(s, n, mode, from, to) ==
  /\ mode = {}
  /\ \E r \in Reach : Visited(s, n.kids[1], Protecting(n), from, r)
  /\ VisitedAsArm(s, n.kids[2], Protecting(n))
  /\ IF HasFinally(n) THEN Visited(s, n.kids[3], InFinally, "live", to)
                      ELSE to = "live"

VisitRule(s, n, mode, from, to) ==
  /\ n.k \in {"block", "exprstmt", "expr"} => SequenceRule(s, n, mode, from, to)
  /\ n.k \in {"if", "switch"} => BranchRule(s, n, mode, from, to)
  /\ n.k = "return" => ReturnRule(s, n, mode, from, to)
  /\ n.k = "defer" => DeferRule(s, n, mode, to)
  /\ n.k = "excep" => ExcepRule(s, n, mode, from, to)
  /\ n.k = "goto" => to = "dead"
  /\ n.k = "label" => to = "live"

\* Everything the derivation says follows from what it says of the children.
Derives(s) ==
  /\ IsDerivation(s)
  /\ \A v \in s.visits : VisitRule(s, v.n, v.mode, v.from, v.to)
  /\ \A n \in s.calm : CalmRule(s, n)
  /\ \A n \in s.quiet : QuietRule(s, n)

\* The body of a function is walked from its entry block.
BodyDerived(s, t) == Derives(s) /\ VisitedAsArm(s, t, {})

\* No case of a switch falls through to the next one: control does not reach its
\* end, or the walk of the case stays in the block it starts in.
ArmsClose(s, n, mode) ==
  \A i \in 2..Len(n.kids) :
     Visited(s, n.kids[i], mode, "live", "dead") \/ Calm(s, n.kids[i], mode)

SwitchesClose(s) == \A v \in s.visits : v.n.k = "switch" => ArmsClose(s, v.n, v.mode)

-----------------------------------------------------------------------------
(* The layout of a body: where its labels, returns and exception statements *)
(* are.  It names the nodes of the body but for the returned expressions,   *)
(* the labels each of them defines, and those that end in an exception      *)
(* statement.                                                               *)

IsLayout(r) ==
  /\ r.nodes \subseteq Node /\ r.tails \subseteq Node /\ r.labels \subseteq Label
  /\ r.defs \in [r.nodes -> SUBSET Label]

NoReturns(n) == \A i \in DOMAIN n.insts : n.insts[i].op # "ret"

\* The labels defined by the children from number i on.
DefsFrom(r, n, i) == UNION {r.defs[n.kids[j]] : j \in i..Len(n.kids)}

\* No label is defined twice.
DefsApart(r, n) ==
  \A i, j \in DOMAIN n.kids : i # j => r.defs[n.kids[i]] \cap r.defs[n.kids[j]] = {}

\* The expression of a return statement ends in its only ret instruction.
ReturnExpr(r, n) ==
  /\ n.k = "expr"
  /\ Len(n.insts) >= 1
  /\ \A i \in DOMAIN n.insts : n.insts[i].op = "ret" <=> i = Len(n.insts)
  /\ \A i \in DOMAIN n.kids :
       n.kids[i] \in r.nodes \ r.tails /\ r.defs[n.kids[i]] = {}

\* An exception statement is the last thing its function does.
TailRule(r, n) ==
  /\ n.k = "excep" => n \in r.tails
  /\ \A i \in DOMAIN n.kids :
       n.kids[i] \in r.tails => n \in r.tails /\ n.k = "block" /\ i = Len(n.kids)

LayoutRule(r, n) ==
  /\ NoReturns(n)
  /\ TailRule(r, n)
  /\ n.k = "return" => ReturnExpr(r, n.kids[1])
  /\ n.k # "return" => \A i \in DOMAIN n.kids : n.kids[i] \in r.nodes
  /\ n.k = "label" => r.defs[n] = {n.arg}
  /\ n.k \in {"goto", "return"} => r.defs[n] = {}
  /\ n.k \notin {"label", "goto", "return"} =>
       r.defs[n] = DefsFrom(r, n, 1) /\ DefsApart(r, n)
  /\ n.k = "goto" => n.arg \in r.labels

Lays(r) == IsLayout(r) /\ \A n \in r.nodes : LayoutRule(r, n)

\* The labels that gotos go to are those the body defines.
BodyLaid(r, t) == Lays(r) /\ t \in r.nodes /\ r.labels = r.defs[t]
=============================================================================

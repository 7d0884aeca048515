--------------------------- MODULE GenBlocksTraces ---------------------------
(***************************************************************************)
(* What the blocks GenBlocks builds mean.  The observable behaviour of a    *)
(* function is the sequence of its events: instructions executed, outcomes  *)
(* of branches, calls that throw, and the return.  RefTraces gives the      *)
(* events of a statement tree by the meaning of its statements, with a      *)
(* continuation stack and no basic blocks; CfgTraces gives those of the     *)
(* blocks.  Both are prefix closed and cut at MaxEvents events.             *)
(***************************************************************************)
EXTENDS GenBlocks

CONSTANTS MaxEvents, \* events of a trace that are compared
          MaxSteps   \* moves, with and without an event, of one execution

Event(what, arg) == <<what, arg>>

-----------------------------------------------------------------------------
(* Execution of a control flow graph.                                       *)

RECURSIVE Exec(_, _, _, _)

\* Event traces of the graph "blocks" from instruction i of block b.
Exec(b, i, trace, fuel) ==
  IF fuel = 0 \/ Len(trace) >= MaxEvents THEN {trace}
  ELSE IF i > Len(blocks[b]) THEN {Append(trace, Event("off the end", b))}
  ELSE
  LET ins == blocks[b][i]
      Next1(t) == Exec(b, i + 1, t, fuel - 1)
      Jump(j, t) == Exec(ins.to[j], 1, t, fuel - 1)
      done == Append(trace, Event("do", ins.id))
      thrown == Append(done, Event("throws", 0))
  IN {trace} \cup
     CASE ins.op \in {"op", "intrinsic"} -> Next1(done)
       [] ins.op = "call"       -> Next1(done) \cup {thrown}
       [] ins.op = "invoke"     -> Jump(1, done) \cup Jump(2, thrown)
       [] ins.op = "landingpad" -> Next1(trace)
       [] ins.op = "br"         -> Jump(1, trace)
       [] ins.op \in {"condbr", "switch"} ->
            UNION {Jump(j, Append(trace, Event("branch", j))) :
                   j \in DOMAIN ins.to}
       [] ins.op = "ret"        -> {Append(trace, Event("ret", 0))}

CfgTraces == Exec(1, 1, <<>>, MaxSteps)

-----------------------------------------------------------------------------
(* Meaning of a statement tree.  A continuation is a sequence of items:     *)
(* nodes to execute ("node"), the rest of an expression's instructions      *)
(* ("insts"), a choice among the arms of an if or switch ("choose"), and    *)
(* markers for the end of the undefer call of a defer statement ("defer")   *)
(* and of the body ("body") and on-exception clause ("onexc") of an         *)
(* exception statement.                                                     *)

Item(a, n, i) == [a |-> a, n |-> n, i |-> i]
NodeItem(n) == Item("node", n, 0)
NodeItems(kids) == [j \in 1..Len(kids) |-> NodeItem(kids[j])]

FinallyOf(n) == IF HasFinally(n) THEN <<NodeItem(n.kids[3])>> ELSE <<>>

From(k, p) == SubSeq(k, p, Len(k))

\* Position of the innermost marker of one of the given kinds, 0 if none.
Innermost(k, Test(_)) ==
  IF \E p \in DOMAIN k : Test(k[p])
  THEN CHOOSE p \in DOMAIN k : Test(k[p]) /\ \A q \in 1..(p - 1) : ~Test(k[q])
  ELSE 0

Catches(item) == item.a \in {"defer", "body", "onexc"}
HasOwedFinally(item) == item.a \in {"body", "onexc"} /\ HasFinally(item.n)

RECURSIVE Returns(_)

\* The return statements of a node.
Returns(n) == IF n.k = "return" THEN {n}
              ELSE UNION {Returns(n.kids[j]) : j \in DOMAIN n.kids}

\* A return that control may take out of the body or the on-exception clause of
\* exception statement n; all return the same variable.
AReturnOf(n) ==
  LET rs == Returns(n.kids[1]) \cup Returns(n.kids[2]) IN
  IF HasFinally(n) /\ rs # {} THEN <<NodeItem(CHOOSE r \in rs : TRUE)>> ELSE <<>>

\* Continuation after an exception that the marker at p catches: the defer call
\* and the defer statement again; the on-exception clause; or, for an exception
\* of that clause itself, the finally clause, after which the function returns.
Caught(k, p) ==
  LET n == k[p].n IN
  CASE k[p].a = "defer" -> <<NodeItem(n.kids[2]), NodeItem(n)>> \o From(k, p + 1)
    [] k[p].a = "body"  -> <<NodeItem(n.kids[2]), Item("onexc", n, 0)>>
                           \o From(k, p + 1)
    [] k[p].a = "onexc" -> FinallyOf(n) \o AReturnOf(n) \o From(k, p + 1)

RECURSIVE LabelConts(_, _, _)

\* Continuations of the definitions of label l in node n, with k to follow n.
LabelConts(l, n, k) ==
  CASE n.k = "label" -> IF n.arg = l THEN {k} ELSE {}
    [] n.k \in {"block", "exprstmt", "expr"} ->
         UNION {LabelConts(l, n.kids[j], NodeItems(From(n.kids, j + 1)) \o k) :
                j \in DOMAIN n.kids}
    [] n.k \in {"if", "switch"} ->
         UNION {LabelConts(l, n.kids[j], k) : j \in 2..Len(n.kids)}
    [] n.k = "excep" ->
         UNION {LabelConts(l, n.kids[j],
                           CASE j = 1 -> <<Item("body", n, 0)>> \o k
                             [] j = 2 -> <<Item("onexc", n, 0)>> \o k
                             [] j = 3 -> k) : j \in DOMAIN n.kids}
    [] OTHER -> {}

RECURSIVE Meaning(_, _, _)

Meaning(k, trace, fuel) ==
  IF fuel = 0 \/ Len(trace) >= MaxEvents THEN {trace}
  ELSE IF k = <<>> THEN {trace, Append(trace, Event("ret", 0))}
  ELSE
  LET n == Head(k).n
      rest == Tail(k)
      Then(first, t) == Meaning(first \o rest, t, fuel - 1)
      Choose(arms) ==
        UNION {Then(arms[j], Append(trace, Event("branch", j))) :
               j \in DOMAIN arms}
      ins == n.insts[Head(k).i]
      done == Append(trace, Event("do", ins.id))
      thrown == Append(done, Event("throws", 0))
      handler == Innermost(rest, Catches)
      owed == Innermost(rest, HasOwedFinally)
  IN {trace} \cup
     CASE Head(k).a \in {"defer"} -> Then(<<>>, trace)
       [] Head(k).a \in {"body", "onexc"} -> Then(FinallyOf(n), trace)
       [] Head(k).a = "choose" /\ n.k = "if" ->
            Choose([j \in 1..2 |-> IF j < Len(n.kids)
                                   THEN <<NodeItem(n.kids[j + 1])>> ELSE <<>>])
       [] Head(k).a = "choose" /\ n.k = "switch" ->
            Choose([j \in 1..Len(n.kids) |->
                      IF j > 1 THEN <<NodeItem(n.kids[j])>>
                      ELSE IF n.arg = 0 THEN <<>>
                      ELSE <<NodeItem(n.kids[n.arg + 1])>>])
       [] Head(k).a = "insts" /\ Head(k).i > Len(n.insts) -> Then(<<>>, trace)
       [] Head(k).a = "insts" /\ Head(k).i <= Len(n.insts) ->
            LET more == <<Item("insts", n, Head(k).i + 1)>> IN
            (CASE ins.op \in {"op", "intrinsic"} -> Then(more, done)
               [] ins.op = "ret" -> {Append(trace, Event("ret", 0))}
               [] ins.op = "call" ->
                    Then(more, done) \cup
                    IF handler = 0 THEN {done, thrown}
                    ELSE Meaning(Caught(rest, handler), thrown, fuel - 1))
       [] Head(k).a = "node" /\ n.k \in {"block", "exprstmt"} ->
            Then(NodeItems(n.kids), trace)
       [] Head(k).a = "node" /\ n.k = "expr" ->
            Then(NodeItems(n.kids) \o <<Item("insts", n, 1)>>, trace)
       [] Head(k).a = "node" /\ n.k \in {"if", "switch"} ->
            Then(<<NodeItem(n.kids[1]), Item("choose", n, 0)>>, trace)
       [] Head(k).a = "node" /\ n.k = "return" /\ owed = 0 ->
            Then(<<NodeItem(n.kids[1])>>, trace)
       [] Head(k).a = "node" /\ n.k = "return" /\ owed # 0 ->
            Meaning(FinallyOf(rest[owed].n) \o <<Head(k)>> \o From(rest, owed + 1),
                    trace, fuel - 1)
       [] Head(k).a = "node" /\ n.k = "defer" ->
            Then(<<NodeItem(n.kids[1]), Item("defer", n, 0)>>, trace)
       [] Head(k).a = "node" /\ n.k = "excep" ->
            Then(<<NodeItem(n.kids[1]), Item("body", n, 0)>>, trace)
       [] Head(k).a = "node" /\ n.k = "goto" ->
            UNION {Meaning(c, trace, fuel - 1) :
                   c \in LabelConts(n.arg, tree, <<>>)}
       [] Head(k).a = "node" /\ n.k = "label" -> Then(<<>>, trace)

RefTraces == Meaning(<<NodeItem(tree)>>, <<>>, MaxSteps)

\* The finished function behaves as its statement tree says: the same calls in
\* the same order on every path, with every exception and every return handled
\* by the innermost construct that should handle it.
MeaningPreserved == status = "done" => CfgTraces = RefTraces
=============================================================================

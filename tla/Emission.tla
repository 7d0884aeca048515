-------------------------------- MODULE Emission --------------------------------
(***************************************************************************)
(* What function_set_body makes of a tree of Builders: the order in which  *)
(* GenBlocks::walkExpr and GenBlocks::genIf put its instructions into      *)
(* blocks, and what the finished function is to satisfy.                   *)
(***************************************************************************)
EXTENDS Builders

\* Mutant of Emission: the instructions of a node come before its children.
RECURSIVE EmissionFirst(_, _, _)
EmissionFirst(s, n, path) ==
  LET node == s.nodes[n]
      branch(i) == IF node.flavor = "IfStmt" /\ i > 1 THEN Append(path, <<n, i - 1>>) ELSE path
  IN [i \in DOMAIN node.insts |-> [inst |-> node.insts[i], path |-> path]]
     \o FlattenSeq([i \in DOMAIN node.kids |-> EmissionFirst(s, node.kids[i], branch(i))])

\* walkExpr, genIf: children first, in order; the branches of an if in blocks
\* of their own.  An entry is an instruction and the branches it is under.
RECURSIVE Emission(_, _, _)
Emission(s, n, path) ==
  LET node == s.nodes[n]
      branch(i) == IF node.flavor = "IfStmt" /\ i > 1 THEN Append(path, <<n, i - 1>>) ELSE path
  IN FlattenSeq([i \in DOMAIN node.kids |-> Emission(s, node.kids[i], branch(i))])
     \o [i \in DOMAIN node.insts |-> [inst |-> node.insts[i], path |-> path]]

Emitted == IF body = 0 THEN <<>> ELSE Emission(be, body, <<>>)

Effects == {"store", "copy", "call", "ret"}
EffectsOf(s, emitted) ==
  LET effects == SelectSeq(emitted, LAMBDA x : s.insts[x.inst].op \in Effects)
  IN [i \in DOMAIN effects |-> [path |-> effects[i].path, what |-> s.insts[effects[i].inst].means]]

-----------------------------------------------------------------------------
\* The arena of expressions: every live expression is found at its own number,
\* and no entry is an expression that was freed (archive, freeExpr).
ArchiveAgrees ==
  /\ \A i \in DOMAIN be.earchive : be.earchive[i] # 0 =>
       be.nodes[be.earchive[i]].id = i /\ ~be.nodes[be.earchive[i]].freed
  /\ \A n \in DOMAIN be.nodes :
       be.nodes[n].id # 0 /\ ~be.nodes[n].freed /\ ~IsStmt(be.nodes[n]) =>
         be.nodes[n].id \in DOMAIN be.earchive /\ be.earchive[be.nodes[n].id] = n

ValueOK(v) ==
  \/ v = NoValue
  \/ v[1] = "inst" /\ v[2] \in DOMAIN be.insts
  \/ v[1] = "slot" /\ v[2] \in DOMAIN be.slots
  \/ v[1] = "const" /\ v[2] \in DOMAIN be.consts

\* The state is made of nodes, instructions and values that exist, an expression that
\* was freed is nobody's child, and the arena agrees (Bnode, Bexpression, llvm::Value).
TreesOK ==
  /\ \A n \in DOMAIN be.nodes :
       /\ Range(be.nodes[n].kids) \subseteq DOMAIN be.nodes
       /\ Range(be.nodes[n].insts) \subseteq DOMAIN be.insts
       /\ ValueOK(be.nodes[n].value)
       /\ be.nodes[n].freed \/ \A k \in Range(be.nodes[n].kids) : ~be.nodes[k].freed
  /\ exprs \cup stmts \subseteq DOMAIN be.nodes
  /\ ArchiveAgrees

\* An expression the frontend holds stands for what was asked: its value is the
\* address of it while it is pending without an address operator, and when it is
\* a composite; otherwise its value is it (resolveVarContext, address_expression,
\* indirect_expression and the conversions agree on VarContext).
MeansWhatWasAsked ==
  \A e \in exprs \ {ErrorExpr} :
    LET n == be.nodes[e]
        v == Means(be, n.value)
    IN \/ n.value = NoValue
       \/ IF n.pending THEN (IF n.addrLevel = 0 THEN v = AddrOf(n.means)
                             ELSE n.addrLevel = 1 /\ v = n.means)
          ELSE IF Aggregate(n.type) /\ n.value[1] # "const" THEN v = AddrOf(n.means)
          ELSE v = n.means

\* No assertion of the backend, and none of LLVM, fails on what this frontend asks
\* for (unsetParent, enforceTreeIntegrity, resolveVarContext, genStore).
NeverAborts == be.failed = ""

\* A statement is a tree once it is built: below it every tracked node is in one
\* place, and every instruction in one node (examine, repair).  A return is not
\* checked until it is put into another statement.
TreesAreTrees ==
  be.failed = "" => \A st \in stmts \ {ErrorStmt} :
    LET nodes == Subtree(be, st)
        places(c) == {<<n, i>> \in nodes \X (1..4) :
                        i \in DOMAIN be.nodes[n].kids /\ be.nodes[n].kids[i] = c}
    IN be.nodes[st].flavor # "ReturnStmt" =>
         /\ \A c \in nodes : Tracked(be, c) => Cardinality(places(c)) <= 1
         /\ \A n, m \in nodes : n # m =>
              Range(be.nodes[n].insts) \cap Range(be.nodes[m].insts) = {}

\* The finished function has the effects that were asked for, each once, in the
\* order and under the branches they were asked in (the stores of genStore and of
\* composites, calls, returns).
EffectsAsAsked ==
  body # 0 /\ be.failed = "" => EffectsOf(be, Emitted) = be.nodes[body].eff

\* An instruction uses only values that were computed before it, on every path to
\* it (the eager creation of instructions, walkExpr, the clones of repair).
OperandsAvailable ==
  LET emitted == Emitted IN
  be.failed = "" => \A j \in DOMAIN emitted :
    \A a \in Range(be.insts[emitted[j].inst].args) :
      IsInst(a) => \E i \in 1..(j - 1) :
        emitted[i].inst = a[2] /\ IsPrefix(emitted[i].path, emitted[j].path)

\* What a statement does is settled when it is built: nothing asked for later adds
\* instructions to it, removes or changes them (in-place resolution and repair act
\* on nodes that older statements may contain).
Does(s, st) ==
  LET emitted == Emission(s, st, <<>>) IN
  [i \in DOMAIN emitted |-> LET x == s.insts[emitted[i].inst] IN <<x.op, x.means>>]
StatementsSettled ==
  [][be'.failed = "" => \A st \in stmts : Does(be', st) = Does(be, st)]_vars
=============================================================================

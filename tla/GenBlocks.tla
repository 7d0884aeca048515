------------------------------ MODULE GenBlocks ------------------------------
(***************************************************************************)
(* The GenBlocks walk of go-llvm.cpp: it visits the statement tree of one   *)
(* function body, assigns the instructions the nodes hold to LLVM basic     *)
(* blocks, and creates the blocks and the control transfers between them.   *)
(*                                                                          *)
(* The C++ code is recursive.  Here the activation records of the recursion *)
(* are the tasks of the stack "work": the head is what is executed next,    *)
(* and a task that resumes a routine after a recursive walk carries that    *)
(* routine's local blocks in "bb".  "cur" is the curblock the walk passes   *)
(* and returns, 0 being the null pointer (code that cannot be reached).     *)
(***************************************************************************)
EXTENDS Naturals, Sequences

CONSTANTS
  Node,    \* the nodes of all the statement trees considered
  Trees,   \* the nodes function_set_body may be given as a body
  Label    \* label ids of the function

NodeKinds == {"expr", "exprstmt", "block", "if", "switch", "return",
              "defer", "excep", "goto", "label"}

\* What an instruction that hangs off an expression node can be, as far as the
\* walk tells them apart: "intrinsic" is a call of an LLVM intrinsic.
SourceOps == {"op", "call", "intrinsic", "ret"}

Terminators == {"br", "condbr", "switch", "invoke", "ret"}

Instr == [op : SourceOps \cup Terminators \cup {"landingpad"},
          id : Nat, to : Seq(Nat)]

NoNode == [k |-> "none", kids |-> <<>>, insts |-> <<>>, arg |-> 0]

\* A node has its children in the order the bnode layout gives them, its own
\* instructions, and "arg": the label of a goto or a label definition, the
\* position of the default clause of a switch (0: none).
ASSUME NodeAssumption ==
  /\ Trees \subseteq Node
  /\ Label \subseteq Nat
  /\ \A n \in Node :
       /\ n \in [k : NodeKinds, kids : Seq(Node), insts : Seq(Instr), arg : Nat]
       /\ \A i \in DOMAIN n.insts :
            n.insts[i].op \in SourceOps /\ n.insts[i].to = <<>>
       /\ n.k \in {"exprstmt", "return"} => Len(n.kids) = 1
       /\ n.k = "if" => Len(n.kids) \in {2, 3}
       /\ n.k = "switch" => Len(n.kids) >= 1 /\ n.arg < Len(n.kids)
       /\ n.k = "defer" => Len(n.kids) = 2
       /\ n.k = "excep" => Len(n.kids) \in {2, 3}
       /\ n.k \in {"goto", "label"} => n.arg \in Label

VARIABLES
  tree,          \* the body of the function
  work,          \* activation records of the walk, innermost first
  cur,           \* curblock, or 0
  blocks,        \* the function's basic blocks; block 1 is "entry"
  labelmap,      \* labelmap_: block of a label, 0 when not created yet
  padStack,      \* padBlockStack_
  finallyBlock,  \* finallyBlock_, or 0
  cachedReturn,  \* cachedReturn_, or NoNode
  status         \* "walking", "done", or "aborted": an assertion failed or an
                 \* instruction was inserted through a null block pointer

vars == <<tree, work, cur, blocks, labelmap, padStack, finallyBlock,
          cachedReturn, status>>

-----------------------------------------------------------------------------
(* LLVM basic blocks.                                                       *)

Ins(op, to) == [op |-> op, id |-> 0, to |-> to]
Br(b) == Ins("br", <<b>>)

IsTerminator(ins) == ins.op \in Terminators

\* BasicBlock::getTerminator() # nullptr: only the last instruction counts.
HasTerminator(bs, b) ==
  Len(bs[b]) > 0 /\ IsTerminator(bs[b][Len(bs[b])])

Put(bs, b, ins) == [bs EXCEPT ![b] = Append(@, ins)]

NewBlocks(bs, k) == bs \o [j \in 1..k |-> <<>>]

\* Branch to b from the current block, when there is one.
BranchIfLive(bs, c, b) == IF c = 0 THEN bs ELSE Put(bs, c, Br(b))

\* Mutant of FillPad: no landing pad instruction.
FillPadBare(bs, p, b) == Put(bs, p, Br(b))

\* The landing pad instruction of block p, and its branch to b.
FillPad(bs, p, b) == Put(Put(bs, p, Ins("landingpad", <<>>)), p, Br(b))

-----------------------------------------------------------------------------
(* Tasks.                                                                   *)

TaskOps == {"walk", "insts", "ifArms", "join", "cases", "case", "returnEnd",
            "deferCatch", "deferEnd", "excepCatch", "excepFinally",
            "excepReturn", "excepEnd"}

Task == [op : TaskOps, n : Node, bb : Seq(Nat)]

Do(op, n, bb) == [op |-> op, n |-> n, bb |-> bb]
Walk(n) == Do("walk", n, <<>>)
WalkAll(kids) == [j \in 1..Len(kids) |-> Walk(kids[j])]

Running(op) == status = "walking" /\ work # <<>> /\ Head(work).op = op

\* Mutant of Visiting: the walk gives up where there is no current block.
VisitingLive(kinds) == Running("walk") /\ cur # 0 /\ Head(work).n.k \in kinds

\* walk is about to visit a node of one of these kinds.
Visiting(kinds) == Running("walk") /\ Head(work).n.k \in kinds

TheNode == Head(work).n
Saved(i) == Head(work).bb[i]

\* The head task is done and is replaced by the tasks of "first".
Continue(first) == work' = first \o Tail(work)

Abort ==
  /\ status' = "aborted"
  /\ UNCHANGED <<tree, work, cur, blocks, labelmap, padStack, finallyBlock,
                 cachedReturn>>

-----------------------------------------------------------------------------
Init ==
  /\ tree \in Trees
  /\ work = <<Walk(tree)>>
  /\ cur = 1
  /\ blocks = << <<>> >>
  /\ labelmap = [l \in Label |-> 0]
  /\ padStack = <<>>
  /\ finallyBlock = 0
  /\ cachedReturn = NoNode
  /\ status = "walking"

\* walk: a block or an expression statement visits its children in order, with
\* the curblock of each being what the one before it returned; walkExpr visits
\* the children of the expression and then its own instructions.
WalkChildren ==
  /\ Visiting({"block", "exprstmt", "expr"})
  /\ Continue(WalkAll(TheNode.kids)
              \o IF TheNode.k = "expr" THEN <<Do("insts", TheNode, <<1>>)>>
                                       ELSE <<>>)
  /\ UNCHANGED <<tree, cur, blocks, labelmap, padStack, finallyBlock,
                 cachedReturn, status>>

\* walkExpr, the loop over the node's own instructions, one iteration: without
\* a current block the instruction is deleted; a call that is not an intrinsic,
\* under a landing pad, becomes an invoke whose normal successor is a new block.
EmitInst ==
  /\ Running("insts")
  /\ LET i == Saved(1)
         ins == TheNode.insts[i]
         left == i <= Len(TheNode.insts)
         invoke == ins.op = "call" /\ padStack # <<>>
         cont == Len(blocks) + 1
     IN
     /\ Continue(IF left THEN <<Do("insts", TheNode, <<i + 1>>)>> ELSE <<>>)
     /\ \/ /\ ~left \/ cur = 0
           /\ UNCHANGED <<cur, blocks>>
        \/ /\ left /\ cur # 0 /\ ~invoke
           /\ blocks' = Put(blocks, cur, ins)
           /\ UNCHANGED cur
        \/ /\ left /\ cur # 0 /\ invoke
           /\ blocks' = Put(NewBlocks(blocks, 1), cur,
                            [op |-> "invoke", id |-> ins.id,
                             to |-> <<cont, padStack[Len(padStack)]>>])
           /\ cur' = cont
  /\ UNCHANGED <<tree, labelmap, padStack, finallyBlock, cachedReturn, status>>

\* genIf, up to and including the walk of the condition.
WalkIf ==
  /\ Visiting({"if"})
  /\ Continue(<<Walk(TheNode.kids[1]), Do("ifArms", TheNode, <<>>)>>)
  /\ UNCHANGED <<tree, cur, blocks, labelmap, padStack, finallyBlock,
                 cachedReturn, status>>

\* genIf, after the condition: the blocks "then", "fallthrough" and "else", and
\* the conditional branch in the current block, which must exist.
IfArms ==
  /\ Running("ifArms")
  /\ LET then == Len(blocks) + 1
         ft == Len(blocks) + 2
         hasElse == Len(TheNode.kids) = 3
         else == IF hasElse THEN Len(blocks) + 3 ELSE ft
     IN
     IF cur = 0 THEN Abort
     ELSE /\ blocks' = Put(NewBlocks(blocks, IF hasElse THEN 3 ELSE 2), cur,
                           Ins("condbr", <<then, else>>))
          /\ cur' = then
          /\ Continue(<<Walk(TheNode.kids[2]), Do("join", TheNode, <<ft, else>>)>>
                      \o IF hasElse
                         THEN <<Walk(TheNode.kids[3]),
                                Do("join", TheNode, <<ft, ft>>)>>
                         ELSE <<>>)
          /\ UNCHANGED <<tree, labelmap, padStack, finallyBlock, cachedReturn,
                         status>>

\* genIf, after an arm: fall through from where the arm ended, if it did, and go
\* on with the next block.
JoinArm ==
  /\ Running("join")
  /\ blocks' = IF cur # 0 /\ ~HasTerminator(blocks, cur)
               THEN Put(blocks, cur, Br(Saved(1))) ELSE blocks
  /\ cur' = Saved(2)
  /\ Continue(<<>>)
  /\ UNCHANGED <<tree, labelmap, padStack, finallyBlock, cachedReturn, status>>

\* genSwitch, up to and including the walk of the value.
WalkSwitch ==
  /\ Visiting({"switch"})
  /\ Continue(<<Walk(TheNode.kids[1]), Do("cases", TheNode, <<>>)>>)
  /\ UNCHANGED <<tree, cur, blocks, labelmap, padStack, finallyBlock,
                 cachedReturn, status>>

NumCases(n) == Len(n.kids) - 1

\* genSwitch, the blocks of the cases (base + 1, base + 2, ...) and "epilog".
SwitchBlocks ==
  /\ Running("cases")
  /\ LET ncases == NumCases(TheNode) IN
     /\ blocks' = NewBlocks(blocks, ncases + 1)
     /\ Continue(<<Do("case", TheNode, <<1, cur, Len(blocks)>>)>>)
  /\ UNCHANGED <<tree, cur, labelmap, padStack, finallyBlock, cachedReturn,
                 status>>

EpilogBlock(n, base) == base + NumCases(n) + 1

\* genSwitch, one turn of the loop over the cases, at case i: the block of the
\* case walked before it gets a branch to the epilog if it has no terminator.
\* The loop looks at the block the case started in; the block in which the walk
\* of the case ended is not used.
CaseClosed ==
  LET base == Saved(3)
      i == Saved(1)
  IN  IF i > 1 /\ ~HasTerminator(blocks, base + i - 1)
      THEN Put(blocks, base + i - 1, Br(EpilogBlock(TheNode, base)))
      ELSE blocks

SwitchCase ==
  /\ Running("case")
  /\ Saved(1) <= NumCases(TheNode)
  /\ blocks' = CaseClosed
  /\ cur' = Saved(3) + Saved(1)
  /\ Continue(<<Walk(TheNode.kids[Saved(1) + 1]),
                Do("case", TheNode, <<Saved(1) + 1, Saved(2), Saved(3)>>)>>)
  /\ UNCHANGED <<tree, labelmap, padStack, finallyBlock, cachedReturn, status>>

\* genSwitch, defBB: the block of the default clause, or the epilog.
DefaultTarget(n, base) ==
  IF n.arg = 0 THEN EpilogBlock(n, base) ELSE base + n.arg

\* genSwitch, after the last case: the switch instruction goes to the block that
\* was current after the value.  Its first target is the default clause or the
\* epilog, the others are the cases in order.
SwitchEnd ==
  /\ Running("case")
  /\ Saved(1) > NumCases(TheNode)
  /\ LET base == Saved(3)
         ncases == NumCases(TheNode)
     IN
     IF Saved(2) = 0 THEN Abort
     ELSE /\ blocks' = Put(CaseClosed, Saved(2),
                           Ins("switch", <<DefaultTarget(TheNode, base)>> \o
                                         [j \in 1..ncases |-> base + j]))
          /\ cur' = EpilogBlock(TheNode, base)
          /\ Continue(<<>>)
          /\ UNCHANGED <<tree, labelmap, padStack, finallyBlock, cachedReturn,
                         status>>

\* genReturn while a finally clause is pending: the first return statement is
\* kept for the end of that clause, and control goes to the clause's block.
ReturnToFinally ==
  /\ Visiting({"return"})
  /\ finallyBlock # 0
  /\ IF cur = 0 THEN Abort
     ELSE /\ blocks' = Put(blocks, cur, Br(finallyBlock))
          /\ cachedReturn' = IF cachedReturn = NoNode THEN TheNode
                             ELSE cachedReturn
          /\ cur' = 0
          /\ Continue(<<>>)
          /\ UNCHANGED <<tree, labelmap, padStack, finallyBlock, status>>

\* genReturn otherwise: the returned expression holds the ret instruction.
WalkReturn ==
  /\ Visiting({"return"})
  /\ finallyBlock = 0
  /\ Continue(<<Walk(TheNode.kids[1]), Do("returnEnd", TheNode, <<cur>>)>>)
  /\ UNCHANGED <<tree, cur, blocks, labelmap, padStack, finallyBlock,
                 cachedReturn, status>>

\* The expression of a return must not have been split over several blocks.
ReturnEnd ==
  /\ Running("returnEnd")
  /\ IF cur # Saved(1) THEN Abort
     ELSE /\ cur' = 0
          /\ Continue(<<>>)
          /\ UNCHANGED <<tree, blocks, labelmap, padStack, finallyBlock,
                         cachedReturn, status>>

\* genDefer: blocks "finish", "pad" and "catch"; the undefer call is walked in
\* "finish" with "pad" on the stack, so that it becomes an invoke.
WalkDefer ==
  /\ Visiting({"defer"})
  /\ LET fin == Len(blocks) + 1
         pad == Len(blocks) + 2
         catch == Len(blocks) + 3
     IN
     /\ blocks' = BranchIfLive(NewBlocks(blocks, 3), cur, fin)
     /\ padStack' = Append(padStack, pad)
     /\ cur' = fin
     /\ Continue(<<Walk(TheNode.kids[1]),
                   Do("deferCatch", TheNode, <<fin, pad, catch>>)>>)
  /\ UNCHANGED <<tree, labelmap, finallyBlock, cachedReturn, status>>

\* Mutant of PopPad: the pad stays on the stack.
PopPadForgotten == padStack

\* padBlockStack_.pop_back()
PopPad == SubSeq(padStack, 1, Len(padStack) - 1)

\* genDefer, after the undefer call: fill the pad, walk the defer call in "catch".
DeferCatch ==
  /\ Running("deferCatch")
  /\ LET fin == Saved(1)
         pad == Saved(2)
         catch == Saved(3)
     IN
     /\ padStack' = PopPad
     /\ blocks' = FillPad(blocks, pad, catch)
     /\ cur' = catch
     /\ Continue(<<Walk(TheNode.kids[2]),
                   Do("deferEnd", TheNode, <<fin, catch, cur>>)>>)
  /\ UNCHANGED <<tree, labelmap, finallyBlock, cachedReturn, status>>

\* genDefer, after the defer call: run the undefer call again.
DeferEnd ==
  /\ Running("deferEnd")
  /\ IF cur # Saved(2) THEN Abort
     ELSE /\ blocks' = Put(blocks, Saved(2), Br(Saved(1)))
          /\ cur' = Saved(3)
          /\ Continue(<<>>)
          /\ UNCHANGED <<tree, labelmap, padStack, finallyBlock, cachedReturn,
                         status>>

HasFinally(n) == Len(n.kids) = 3

\* Mutant of FinallyTarget: returns of the body ignore the finally clause.
FinallyIgnored(n, cont) == 0

\* genExcep, the value finallyBlock_ gets.
FinallyTarget(n, cont) == IF HasFinally(n) THEN cont ELSE 0

\* genExcep: blocks "pad" and "finally", and the walk of the protected body.
WalkExcep ==
  /\ Visiting({"excep"})
  /\ IF padStack # <<>> \/ cachedReturn # NoNode THEN Abort
     ELSE LET pad == Len(blocks) + 1
              cont == Len(blocks) + 2
          IN
          /\ blocks' = NewBlocks(blocks, 2)
          /\ finallyBlock' = FinallyTarget(TheNode, cont)
          /\ padStack' = Append(padStack, pad)
          /\ Continue(<<Walk(TheNode.kids[1]),
                        Do("excepCatch", TheNode, <<pad, cont>>)>>)
          /\ UNCHANGED <<tree, cur, labelmap, cachedReturn, status>>

\* genExcep, after the body: leave it for "finally", fill the pad, and walk the
\* on-exception clause in "catch" with "catchpad" on the stack.
ExcepCatch ==
  /\ Running("excepCatch")
  /\ LET pad == Saved(1)
         cont == Saved(2)
         catch == Len(blocks) + 1
         catchpad == Len(blocks) + 2
     IN
     /\ blocks' = FillPad(BranchIfLive(NewBlocks(blocks, 2), cur, cont),
                          pad, catch)
     /\ padStack' = Append(PopPad, catchpad)
     /\ cur' = catch
     /\ Continue(<<Walk(TheNode.kids[2]),
                   Do("excepFinally", TheNode, <<cont, catchpad>>)>>)
  /\ UNCHANGED <<tree, labelmap, finallyBlock, cachedReturn, status>>

\* genExcep, after the on-exception clause: returns are ordinary again, an
\* exception of the clause also ends in "finally", where the finally clause is
\* walked.
ExcepFinally ==
  /\ Running("excepFinally")
  /\ LET cont == Saved(1)
         catchpad == Saved(2)
     IN
     /\ blocks' = FillPad(BranchIfLive(blocks, cur, cont), catchpad, cont)
     /\ padStack' = PopPad
     /\ finallyBlock' = 0
     /\ cur' = cont
     /\ Continue(IF HasFinally(TheNode)
                 THEN <<Walk(TheNode.kids[3]), Do("excepReturn", TheNode, <<>>)>>
                 ELSE <<>>)
  /\ UNCHANGED <<tree, labelmap, cachedReturn, status>>

\* Mutant of ExcepReturn: the cached return is not emitted.
ExcepReturnForgotten ==
  /\ Running("excepReturn")
  /\ Continue(<<>>)
  /\ UNCHANGED <<tree, cur, blocks, labelmap, padStack, finallyBlock,
                 cachedReturn, status>>

\* genExcep, after the finally clause: the return kept by ReturnToFinally.
ExcepReturn ==
  /\ Running("excepReturn")
  /\ Continue(IF cachedReturn = NoNode THEN <<>>
              ELSE <<Walk(cachedReturn.kids[1]),
                     Do("excepEnd", TheNode, <<cur>>)>>)
  /\ UNCHANGED <<tree, cur, blocks, labelmap, padStack, finallyBlock,
                 cachedReturn, status>>

ExcepEnd ==
  /\ Running("excepEnd")
  /\ IF cur # Saved(1) THEN Abort
     ELSE /\ cachedReturn' = NoNode
          /\ Continue(<<>>)
          /\ UNCHANGED <<tree, cur, blocks, labelmap, padStack, finallyBlock,
                         status>>

\* Mutant of BlockForLabel: the label map is not consulted.
BlockForLabelFresh(l) == Len(blocks) + 1

\* getBlockForLabel: the first mention of a label creates its block.
BlockForLabel(l) == IF labelmap[l] # 0 THEN labelmap[l] ELSE Len(blocks) + 1
WithLabelBlock(l) == IF labelmap[l] # 0 THEN blocks ELSE NewBlocks(blocks, 1)

\* walk, N_GotoStmt: what follows a goto is dead until the next label.
WalkGoto ==
  /\ Visiting({"goto"})
  /\ LET lab == TheNode.arg IN
     /\ blocks' = IF cur # 0 /\ ~HasTerminator(blocks, cur)
                  THEN Put(WithLabelBlock(lab), cur, Br(BlockForLabel(lab)))
                  ELSE WithLabelBlock(lab)
     /\ labelmap' = [labelmap EXCEPT ![lab] = BlockForLabel(lab)]
  /\ cur' = 0
  /\ Continue(<<>>)
  /\ UNCHANGED <<tree, padStack, finallyBlock, cachedReturn, status>>

\* walk, N_LabelStmt.
WalkLabel ==
  /\ Visiting({"label"})
  /\ LET lab == TheNode.arg IN
     /\ blocks' = BranchIfLive(WithLabelBlock(lab), cur, BlockForLabel(lab))
     /\ labelmap' = [labelmap EXCEPT ![lab] = BlockForLabel(lab)]
     /\ cur' = BlockForLabel(lab)
  /\ Continue(<<>>)
  /\ UNCHANGED <<tree, padStack, finallyBlock, cachedReturn, status>>

\* function_set_body after the walk: fixupEpilogBlock returns from the last
\* block unless it already ends in a transfer of control.
Finish ==
  /\ status = "walking"
  /\ work = <<>>
  /\ blocks' = IF cur # 0 /\ ~HasTerminator(blocks, cur)
               THEN Put(blocks, cur, Ins("ret", <<>>)) ELSE blocks
  /\ status' = "done"
  /\ UNCHANGED <<tree, work, cur, labelmap, padStack, finallyBlock,
                 cachedReturn>>

Next ==
  \/ WalkChildren \/ EmitInst
  \/ WalkIf \/ IfArms \/ JoinArm
  \/ WalkSwitch \/ SwitchBlocks \/ SwitchCase \/ SwitchEnd
  \/ ReturnToFinally \/ WalkReturn \/ ReturnEnd
  \/ WalkDefer \/ DeferCatch \/ DeferEnd
  \/ WalkExcep \/ ExcepCatch \/ ExcepFinally \/ ExcepReturn \/ ExcepEnd
  \/ WalkGoto \/ WalkLabel
  \/ Finish

\* The walk is an ordinary sequential computation: it goes on while it can.
Spec == Init /\ [][Next]_vars /\ WF_vars(Next)

-----------------------------------------------------------------------------
(* Properties.                                                              *)

BlockIds == 1..Len(blocks)

\* An activation record is well typed when the function has nb blocks: it belongs
\* to a node of its kind and the blocks it remembers exist.
TaskOK(t, nb) ==
  LET ids == 1..nb
      AllBlocks(k) == Len(t.bb) = k /\ \A j \in 1..k : t.bb[j] \in ids
  IN
  /\ t.op = "insts" => t.n.k = "expr" /\ Len(t.bb) = 1 /\ t.bb[1] >= 1
  /\ t.op = "ifArms" => t.n.k = "if"
  /\ t.op = "join" => AllBlocks(2)
  /\ t.op = "cases" => t.n.k = "switch"
  /\ t.op = "case" => /\ t.n.k = "switch" /\ Len(t.bb) = 3
                      /\ t.bb[1] \in 1..Len(t.n.kids)
                      /\ t.bb[2] \in 0..nb
                      /\ t.bb[3] + Len(t.n.kids) \in ids
  /\ t.op = "returnEnd" => Len(t.bb) = 1
  /\ t.op = "deferCatch" => t.n.k = "defer" /\ AllBlocks(3)
  /\ t.op = "deferEnd" => /\ Len(t.bb) = 3 /\ t.bb[3] \in 0..nb
                          /\ t.bb[1] \in ids /\ t.bb[2] \in ids
  /\ t.op \in {"excepCatch", "excepFinally"} => t.n.k = "excep" /\ AllBlocks(2)
  /\ t.op = "excepReturn" => t.n.k = "excep"
  /\ t.op = "excepEnd" => Len(t.bb) = 1

\* The state of the walk is well typed: curblock, the label map, the pad stack,
\* finallyBlock_ and the local variables of every active routine only name blocks
\* that exist, and a cached return is a return statement.
TypeOK ==
  /\ tree \in Trees
  /\ work \in Seq(Task)
  /\ \A i \in DOMAIN work : TaskOK(work[i], Len(blocks))
  /\ blocks \in Seq(Seq(Instr))
  /\ cur \in 0..Len(blocks)
  /\ labelmap \in [Label -> 0..Len(blocks)]
  /\ padStack \in Seq(BlockIds)
  /\ finallyBlock \in 0..Len(blocks)
  /\ cachedReturn # NoNode => cachedReturn \in Node /\ cachedReturn.k = "return"
  /\ status \in {"walking", "done", "aborted"}

\* The walk hits none of its assertions (nested exception statements, a return
\* or a defer call split over blocks) and never inserts through a null block.
NeverAborts == status # "aborted"

\* At every step, in every block, nothing stands behind a transfer of control:
\* no routine appends to a block that genIf, genSwitch, genReturn, genExcep or
\* an invoke has already closed.
NothingAfterTerminator ==
  \A b \in BlockIds : \A i \in 1..(Len(blocks[b]) - 1) :
     ~IsTerminator(blocks[b][i])

IsLandingPad(b) == Len(blocks[b]) > 0 /\ blocks[b][1].op = "landingpad"

\* At every step, a call rewritten by rewriteToMayThrowCall unwinds to a landing
\* pad, or to a block on padBlockStack_ that is still empty and will become one;
\* and no other transfer of control enters a landing pad.
InvokesUnwindToPads ==
  \A b \in BlockIds : \A i \in DOMAIN blocks[b] :
     LET ins == blocks[b][i] IN
     IF ins.op = "invoke"
     THEN /\ ~IsLandingPad(ins.to[1])
          /\ \/ IsLandingPad(ins.to[2])
             \/ /\ blocks[ins.to[2]] = <<>>
                /\ \E j \in DOMAIN padStack : padStack[j] = ins.to[2]
     ELSE \A j \in DOMAIN ins.to : ~IsLandingPad(ins.to[j])

\* What the LLVM verifier (Llvm_backend::verifyModule) demands of the finished
\* control flow graph: every block ends in its only terminator, landing pad
\* instructions are first in their block, and nothing jumps back to "entry".
WellFormed ==
  \A b \in BlockIds :
     /\ HasTerminator(blocks, b)
     /\ \A i \in DOMAIN blocks[b] :
          /\ IsTerminator(blocks[b][i]) => i = Len(blocks[b])
          /\ blocks[b][i].op = "landingpad" => i = 1
          /\ \A j \in DOMAIN blocks[b][i].to : blocks[b][i].to[j] # 1

\* The module function_set_body leaves is well formed.
ModuleWellFormed == status = "done" => WellFormed

\* At every step the blocks that are closed stay closed and every invoke has its
\* landing pad, and what function_set_body leaves is a module the verifier takes.
CfgWellFormed == NothingAfterTerminator /\ InvokesUnwindToPads /\ ModuleWellFormed

\* A pending finally clause is one whose genExcep is still active.
FinallyPending(i) ==
  work[i].op \in {"excepCatch", "excepFinally"} /\ HasFinally(work[i].n)

\* While returns are rewritten into jumps to a finally clause, and while a return
\* is cached, the genExcep that will walk the clause and emit the return is on
\* the stack: no cached return is forgotten, none outlives its statement.
CachedReturnIsOwed ==
  /\ finallyBlock # 0 => \E i \in DOMAIN work : FinallyPending(i)
  /\ cachedReturn # NoNode =>
       \E i \in DOMAIN work :
          FinallyPending(i) \/ work[i].op \in {"excepReturn", "excepEnd"}

\* The walk of a finite tree ends, and function_set_body returns.
WalkEnds == <>(status = "done")
=============================================================================

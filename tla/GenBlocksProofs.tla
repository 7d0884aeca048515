--------------------------- MODULE GenBlocksProofs ---------------------------
(***************************************************************************)
(* Theorems about GenBlocks, for every set of statement trees.              *)
(***************************************************************************)
EXTENDS StmtRules, SequenceTheorems, TLAPS

BlockSeq == Seq(Seq(Instr))

-----------------------------------------------------------------------------
(* Blocks.                                                                  *)

\* Creating blocks keeps the ones there are and adds empty ones.
LEMMA NewBlocksType ==
  ASSUME NEW bs \in BlockSeq, NEW k \in Nat
  PROVE  /\ NewBlocks(bs, k) \in BlockSeq
         /\ Len(NewBlocks(bs, k)) = Len(bs) + k
<1>1. [j \in 1..k |-> <<>>] \in BlockSeq /\ Len([j \in 1..k |-> <<>>]) = k
  BY DEF BlockSeq
<1>2. QED
  BY <1>1, ConcatProperties DEF NewBlocks, BlockSeq

\* Appending an instruction to a block keeps the blocks well typed.
LEMMA PutType ==
  ASSUME NEW bs \in BlockSeq, NEW b \in 1..Len(bs), NEW ins \in Instr
  PROVE  /\ Put(bs, b, ins) \in BlockSeq
         /\ Len(Put(bs, b, ins)) = Len(bs)
<1>1. bs[b] \in Seq(Instr)
  BY ElementOfSeq DEF BlockSeq
<1>2. Append(bs[b], ins) \in Seq(Instr)
  BY <1>1, AppendProperties
<1>3. QED
  BY <1>2, ExceptSeq DEF Put, BlockSeq

\* The instructions the walk makes itself.
LEMMA InsType ==
  /\ \A b \in Nat : Br(b) \in Instr
  /\ \A op \in Terminators \cup {"landingpad"} : \A to \in Seq(Nat) : Ins(op, to) \in Instr
BY DEF Br, Ins, Instr, Terminators

LEMMA BranchIfLiveType ==
  ASSUME NEW bs \in BlockSeq, NEW c \in 0..Len(bs), NEW b \in Nat
  PROVE  /\ BranchIfLive(bs, c, b) \in BlockSeq
         /\ Len(BranchIfLive(bs, c, b)) = Len(bs)
BY PutType, InsType DEF BranchIfLive

LEMMA FillPadType ==
  ASSUME NEW bs \in BlockSeq, NEW p \in 1..Len(bs), NEW b \in Nat
  PROVE  /\ FillPad(bs, p, b) \in BlockSeq
         /\ Len(FillPad(bs, p, b)) = Len(bs)
<1>1. Ins("landingpad", <<>>) \in Instr /\ Br(b) \in Instr
  BY InsType, EmptySeq
<1>2. /\ Put(bs, p, Ins("landingpad", <<>>)) \in BlockSeq
      /\ Len(Put(bs, p, Ins("landingpad", <<>>))) = Len(bs)
  BY <1>1, PutType
<1>3. QED
  BY <1>1, <1>2, PutType DEF FillPad

-----------------------------------------------------------------------------
(* Activation records.                                                      *)

\* Blocks are never removed: what a task remembers stays valid.
LEMMA TaskStaysOK ==
  ASSUME NEW t \in Task, NEW m \in Nat, NEW n \in Nat, m <= n, TaskOK(t, m)
  PROVE  TaskOK(t, n)
BY DEF TaskOK, Task, TaskOps

\* The stack after the head task was replaced by the tasks "first".
LEMMA StackStep ==
  ASSUME NEW w \in Seq(Task), w # <<>>, NEW m \in Nat, NEW n \in Nat, m <= n,
         \A i \in DOMAIN w : TaskOK(w[i], m),
         NEW first \in Seq(Task), \A i \in DOMAIN first : TaskOK(first[i], n)
  PROVE  /\ first \o Tail(w) \in Seq(Task)
         /\ \A i \in DOMAIN (first \o Tail(w)) : TaskOK((first \o Tail(w))[i], n)
<1>1. /\ Tail(w) \in Seq(Task)
      /\ Len(Tail(w)) = Len(w) - 1
      /\ \A i \in 1..Len(Tail(w)) : Tail(w)[i] = w[i + 1]
  BY HeadTailProperties
<1>2. \A i \in 1..Len(Tail(w)) : TaskOK(Tail(w)[i], n)
  <2> SUFFICES ASSUME NEW i \in 1..Len(Tail(w)) PROVE TaskOK(w[i + 1], n)
    BY <1>1
  <2>1. i + 1 \in DOMAIN w /\ w[i + 1] \in Task
    BY <1>1
  <2>2. QED
    BY <2>1, TaskStaysOK
<1>3. /\ first \o Tail(w) \in Seq(Task)
      /\ Len(first \o Tail(w)) = Len(first) + Len(Tail(w))
      /\ \A i \in 1..Len(first) + Len(Tail(w)) :
            (first \o Tail(w))[i] = IF i <= Len(first) THEN first[i]
                                    ELSE Tail(w)[i - Len(first)]
  BY <1>1, ConcatProperties
<1>4. QED
  <2> SUFFICES ASSUME NEW i \in 1..Len(first) + Len(Tail(w))
               PROVE  TaskOK((first \o Tail(w))[i], n)
    BY <1>3, LenProperties
  <2>1. CASE i <= Len(first)
    BY <2>1, <1>3, LenProperties
  <2>2. CASE i > Len(first)
    <3>1. Len(first) \in Nat /\ Len(Tail(w)) \in Nat
      BY <1>1, LenProperties
    <3>2. i - Len(first) \in 1..Len(Tail(w))
      BY <3>1, <2>2
    <3>3. (first \o Tail(w))[i] = Tail(w)[i - Len(first)]
      BY <3>1, <2>2, <1>3
    <3>4. QED
      BY <3>2, <3>3, <1>2
  <2>3. QED
    BY <2>1, <2>2

\* Tasks that walk a node, or that resume a routine.
LEMMA TaskType ==
  /\ \A n \in Node, op \in TaskOps, bb \in Seq(Nat) : Do(op, n, bb) \in Task
  /\ \A n \in Node : Walk(n) \in Task
  /\ \A n \in Node, nb \in Nat : TaskOK(Walk(n), nb)
<1>1. \A n \in Node, op \in TaskOps, bb \in Seq(Nat) : Do(op, n, bb) \in Task
  BY DEF Do, Task
<1>2. "walk" \in TaskOps /\ <<>> \in Seq(Nat)
  BY EmptySeq DEF TaskOps
<1>3. \A n \in Node : Walk(n) \in Task
  BY <1>1, <1>2 DEF Walk
<1>4. \A n \in Node, nb \in Nat : TaskOK(Walk(n), nb)
  BY DEF TaskOK, Walk, Do
<1>5. QED
  BY <1>1, <1>3, <1>4

\* Replacing the head task by no, one or two well-typed tasks, or by more of them.
LEMMA Resume ==
  ASSUME TypeOK, work # <<>>, NEW first \in Seq(Task), Continue(first),
         Len(blocks') \in Nat, Len(blocks) <= Len(blocks'),
         \A i \in DOMAIN first : TaskOK(first[i], Len(blocks'))
  PROVE  /\ work' \in Seq(Task)
         /\ \A i \in DOMAIN work' : TaskOK(work'[i], Len(blocks'))
BY StackStep, LenProperties DEF TypeOK, Continue

LEMMA ResumeNone ==
  ASSUME TypeOK, work # <<>>, Continue(<<>>),
         Len(blocks') \in Nat, Len(blocks) <= Len(blocks')
  PROVE  /\ work' \in Seq(Task)
         /\ \A i \in DOMAIN work' : TaskOK(work'[i], Len(blocks'))
<1>1. <<>> \in Seq(Task) /\ \A i \in DOMAIN <<>> : TaskOK(<<>>[i], Len(blocks'))
  OBVIOUS
<1>2. QED
  BY <1>1, Resume

LEMMA ResumeOne ==
  ASSUME TypeOK, work # <<>>, NEW s \in Task, Continue(<<s>>),
         Len(blocks') \in Nat, Len(blocks) <= Len(blocks'),
         TaskOK(s, Len(blocks'))
  PROVE  /\ work' \in Seq(Task)
         /\ \A i \in DOMAIN work' : TaskOK(work'[i], Len(blocks'))
<1>1. <<s>> \in Seq(Task) /\ \A i \in DOMAIN <<s>> : TaskOK(<<s>>[i], Len(blocks'))
  OBVIOUS
<1>2. QED
  BY <1>1, Resume

LEMMA ResumeTwo ==
  ASSUME TypeOK, work # <<>>, NEW s \in Task, NEW t \in Task, Continue(<<s, t>>),
         Len(blocks') \in Nat, Len(blocks) <= Len(blocks'),
         TaskOK(s, Len(blocks')), TaskOK(t, Len(blocks'))
  PROVE  /\ work' \in Seq(Task)
         /\ \A i \in DOMAIN work' : TaskOK(work'[i], Len(blocks'))
<1>1. <<s, t>> \in Seq(Task)
      /\ \A i \in DOMAIN <<s, t>> : TaskOK(<<s, t>>[i], Len(blocks'))
  OBVIOUS
<1>2. QED
  BY <1>1, Resume

\* The head of the stack in a state of the walk.
LEMMA HeadType ==
  ASSUME TypeOK, work # <<>>
  PROVE  /\ Head(work) \in Task
         /\ TaskOK(Head(work), Len(blocks))
         /\ TheNode \in Node
         /\ Head(work).bb \in Seq(Nat)
         /\ \A j \in 1..Len(Head(work).bb) : Saved(j) \in Nat
         /\ Len(blocks) \in Nat
         /\ blocks \in BlockSeq
<1>1. Head(work) \in Task /\ Len(work) >= 1 /\ Head(work) = work[1]
  BY HeadTailProperties, EmptySeq, LenProperties DEF TypeOK
<1>2. TaskOK(Head(work), Len(blocks))
  BY <1>1, LenProperties DEF TypeOK
<1>3. QED
  BY <1>1, <1>2, LenProperties, ElementOfSeq DEF TypeOK, Task, TheNode, Saved, BlockSeq

\* The shape of the nodes.
LEMMA NodeType ==
  ASSUME NEW n \in Node
  PROVE  /\ n.kids \in Seq(Node) /\ Len(n.kids) \in Nat
         /\ \A j \in 1..Len(n.kids) : n.kids[j] \in Node
         /\ n.insts \in Seq(Instr) /\ Len(n.insts) \in Nat
         /\ \A j \in 1..Len(n.insts) : n.insts[j] \in Instr
         /\ n.arg \in Nat
         /\ n # NoNode
<1>1. n \in [k : NodeKinds, kids : Seq(Node), insts : Seq(Instr), arg : Nat]
  BY NodeAssumption
<1>2. n.k \in NodeKinds /\ "none" \notin NodeKinds
  BY <1>1 DEF NodeKinds
<1>3. QED
  BY <1>1, <1>2, LenProperties, ElementOfSeq DEF NoNode

-----------------------------------------------------------------------------
(* Type correctness.                                                        *)

LEMMA TypeInit == Init => TypeOK
<1> SUFFICES ASSUME Init PROVE TypeOK
  OBVIOUS
<1>1. tree \in Node /\ tree \in Trees /\ 1 \in Nat
  BY NodeAssumption DEF Init
<1>2. work \in Seq(Task) /\ \A i \in DOMAIN work : TaskOK(work[i], 1)
  BY <1>1, TaskType DEF Init
<1>3. blocks \in BlockSeq /\ Len(blocks) = 1
  BY DEF Init, BlockSeq
<1>4. QED
  BY <1>1, <1>2, <1>3 DEF Init, TypeOK, BlockSeq

\* More blocks: everything that names a block still does.
LEMMA TypeNext1 ==
  ASSUME TypeOK,
         UNCHANGED <<tree, labelmap, padStack, finallyBlock, cachedReturn, status>>,
         blocks' \in BlockSeq, Len(blocks) <= Len(blocks'), cur' \in 0..Len(blocks'),
         work' \in Seq(Task), \A i \in DOMAIN work' : TaskOK(work'[i], Len(blocks'))
  PROVE  TypeOK'
<1>1. Len(blocks) \in Nat /\ Len(blocks') \in Nat
  BY LenProperties DEF TypeOK, BlockSeq
<1>2. 1..Len(blocks) \subseteq 1..Len(blocks') /\ 0..Len(blocks) \subseteq 0..Len(blocks')
  BY <1>1
<1>3. padStack' \in Seq(BlockIds)'
  BY <1>2, SeqMonotonic DEF TypeOK, BlockIds
<1>4. labelmap' \in [Label -> 0..Len(blocks')] /\ finallyBlock' \in 0..Len(blocks')
  BY <1>2 DEF TypeOK
<1>5. QED
  BY <1>3, <1>4 DEF TypeOK, BlockSeq

LEMMA TypeAbort == ASSUME TypeOK, Abort PROVE TypeOK'
BY DEF TypeOK, Abort, BlockIds

LEMMA TypeWalkChildren == ASSUME TypeOK, WalkChildren PROVE TypeOK'
<1> USE DEF WalkChildren
<1>1. work # <<>>
  BY DEF Visiting, Running
<1> DEFINE n == TheNode
           own == IF n.k = "expr" THEN <<Do("insts", n, <<1>>)>> ELSE <<>>
           first == WalkAll(n.kids) \o own
<1>2. n \in Node /\ n.kids \in Seq(Node) /\ Len(n.kids) \in Nat
      /\ \A j \in 1..Len(n.kids) : n.kids[j] \in Node
  BY <1>1, HeadType, NodeType
<1>3. WalkAll(n.kids) \in Seq(Task) /\ Len(WalkAll(n.kids)) = Len(n.kids)
      /\ \A i \in 1..Len(n.kids) : TaskOK(WalkAll(n.kids)[i], Len(blocks))
  BY <1>1, <1>2, HeadType, TaskType DEF WalkAll
<1>4. own \in Seq(Task) /\ \A i \in 1..Len(own) : TaskOK(own[i], Len(blocks))
  <2>1. <<1>> \in Seq(Nat) /\ "insts" \in TaskOps
    BY DEF TaskOps
  <2>2. CASE n.k = "expr"
    <3>1. Do("insts", n, <<1>>) \in Task
      BY <2>1, <1>2, TaskType
    <3>2. TaskOK(Do("insts", n, <<1>>), Len(blocks))
      BY <2>2 DEF TaskOK, Do
    <3>3. QED
      BY <3>1, <3>2, <2>2
  <2>3. CASE n.k # "expr"
    BY <2>3
  <2>4. QED
    BY <2>2, <2>3
<1>5. /\ first \in Seq(Task)
      /\ \A i \in DOMAIN first : TaskOK(first[i], Len(blocks))
  <2> DEFINE all == WalkAll(n.kids)
  <2> HIDE DEF own, all
  <2>1. /\ first \in Seq(Task)
        /\ Len(first) = Len(WalkAll(n.kids)) + Len(own)
        /\ \A i \in 1..Len(WalkAll(n.kids)) + Len(own) :
             first[i] = IF i <= Len(WalkAll(n.kids)) THEN WalkAll(n.kids)[i]
                        ELSE own[i - Len(WalkAll(n.kids))]
    <3>1. /\ all \in Seq(Task) /\ own \in Seq(Task)
          /\ Len(all) = Len(WalkAll(n.kids)) /\ first = all \o own
      BY <1>3, <1>4 DEF all
    <3>2. /\ all \o own \in Seq(Task)
          /\ Len(all \o own) = Len(all) + Len(own)
          /\ \A i \in 1..Len(all) + Len(own) :
               (all \o own)[i] = IF i <= Len(all) THEN all[i] ELSE own[i - Len(all)]
      BY <3>1, ConcatProperties
    <3>3. QED
      BY <3>1, <3>2 DEF all
  <2>2. Len(own) \in Nat
    BY <1>4, LenProperties
  <2> HIDE DEF own, first
  <2>3. ASSUME NEW i \in DOMAIN first PROVE TaskOK(first[i], Len(blocks))
    <3>1. i \in 1..Len(WalkAll(n.kids)) + Len(own)
      BY <2>1, <2>3, LenProperties
    <3>2. CASE i <= Len(WalkAll(n.kids))
      BY <3>1, <3>2, <2>1, <1>2, <1>3
    <3>3. CASE i > Len(WalkAll(n.kids))
      <4>1. i - Len(WalkAll(n.kids)) \in 1..Len(own)
        BY <3>1, <3>3, <1>2, <1>3, <2>2
      <4>2. first[i] = own[i - Len(WalkAll(n.kids))]
        BY <3>1, <3>3, <1>2, <1>3, <2>1, <2>2
      <4>3. QED
        BY <4>1, <4>2, <1>4
    <3>4. QED
      BY <3>1, <3>2, <3>3, <1>2, <1>3, <2>2
  <2>4. QED
    BY <2>1, <2>3
<1>6. Continue(first)
  OBVIOUS
<1> HIDE DEF first
<1>7. /\ work' \in Seq(Task)
      /\ \A i \in DOMAIN work' : TaskOK(work'[i], Len(blocks'))
  BY <1>1, <1>5, <1>6, HeadType, Resume
<1>8. QED
  BY <1>1, <1>7, HeadType, TypeNext1 DEF TypeOK

\* The task of an expression's instructions remembers the next one.
LEMMA InstsTask ==
  ASSUME TypeOK, work # <<>>, Head(work).op = "insts"
  PROVE  TheNode.k = "expr" /\ Saved(1) \in Nat /\ Saved(1) >= 1
<1>1. TaskOK(Head(work), Len(blocks)) /\ \A j \in 1..Len(Head(work).bb) : Saved(j) \in Nat
  BY HeadType
<1>2. TheNode.k = "expr" /\ Len(Head(work).bb) = 1 /\ Saved(1) >= 1
  BY <1>1 DEF TaskOK, TheNode, Saved
<1>3. 1 \in 1..Len(Head(work).bb)
  <2>1. 1..Len(Head(work).bb) = 1..1
    BY <1>2, Zenon
  <2>2. 1 \in 1..1
    OBVIOUS
  <2>3. QED
    BY <2>1, <2>2, Zenon
<1>4. QED
  BY <1>1, <1>2, <1>3

\* The loop over the instructions of an expression: the call that becomes an
\* invoke gets the new block and the pad on top of the stack as successors.
LEMMA TypeEmitInst == ASSUME TypeOK, EmitInst PROVE TypeOK'
<1> USE DEF EmitInst
<1>1. work # <<>> /\ Head(work).op = "insts"
  BY DEF Running
<1> DEFINE n == TheNode
           i == Saved(1)
           ins == n.insts[i]
           cont == Len(blocks) + 1
           rest == IF i <= Len(n.insts) THEN <<Do("insts", n, <<i + 1>>)>> ELSE <<>>
<1>2. n \in Node /\ n.k = "expr" /\ i \in Nat /\ i >= 1 /\ Len(n.insts) \in Nat
      /\ Len(blocks) \in Nat /\ blocks \in BlockSeq /\ cur \in 0..Len(blocks)
  <2>1. n \in Node /\ Len(blocks) \in Nat /\ blocks \in BlockSeq
    BY <1>1, HeadType
  <2>2. n.k = "expr" /\ i \in Nat /\ i >= 1
    BY <1>1, InstsTask
  <2>3. Len(n.insts) \in Nat
    BY <2>1, NodeType
  <2>4. QED
    BY <2>1, <2>2, <2>3 DEF TypeOK
<1>3. /\ blocks' \in BlockSeq /\ Len(blocks') \in Nat /\ Len(blocks) <= Len(blocks')
      /\ cur' \in 0..Len(blocks')
  <2>1. CASE UNCHANGED <<cur, blocks>>
    BY <2>1, <1>2
  <2>2. CASE /\ i <= Len(n.insts) /\ cur # 0
             /\ blocks' = Put(blocks, cur, ins)
             /\ UNCHANGED cur
    <3>1. ins \in Instr /\ cur \in 1..Len(blocks)
      BY <2>2, <1>2, NodeType
    <3>2. QED
      BY <3>1, <2>2, <1>2, PutType
  <2>3. CASE /\ i <= Len(n.insts) /\ cur # 0 /\ padStack # <<>>
             /\ blocks' = Put(NewBlocks(blocks, 1), cur,
                              [op |-> "invoke", id |-> ins.id,
                               to |-> <<cont, padStack[Len(padStack)]>>])
             /\ cur' = cont
    <3>1. ins.id \in Nat
      BY <2>3, <1>2, NodeType, SMTT(30) DEF Instr
    <3>2. padStack[Len(padStack)] \in Nat
      <4>1. padStack \in Seq(BlockIds) /\ Len(padStack) \in 1..Len(padStack)
        BY <2>3, EmptySeq, LenProperties DEF TypeOK
      <4>2. QED
        BY <4>1, <1>2, ElementOfSeq DEF BlockIds
    <3>3. [op |-> "invoke", id |-> ins.id, to |-> <<cont, padStack[Len(padStack)]>>]
            \in Instr
      <4>1. <<cont, padStack[Len(padStack)]>> \in Seq(Nat)
        BY <3>2, <1>2
      <4>2. QED
        BY <4>1, <3>1 DEF Instr, Terminators
    <3>4. NewBlocks(blocks, 1) \in BlockSeq /\ Len(NewBlocks(blocks, 1)) = cont
      BY <1>2, NewBlocksType
    <3>5. cur \in 1..cont
      BY <2>3, <1>2
    <3>6. blocks' \in BlockSeq /\ Len(blocks') = cont
      BY <3>3, <3>4, <3>5, <2>3, PutType
    <3>7. QED
      BY <3>6, <2>3, <1>2
  <2>4. QED
    BY <2>1, <2>2, <2>3
<1>4. Continue(rest)
  OBVIOUS
<1>5. /\ work' \in Seq(Task)
      /\ \A j \in DOMAIN work' : TaskOK(work'[j], Len(blocks'))
  <2>1. CASE i <= Len(n.insts)
    <3>1. <<i + 1>> \in Seq(Nat) /\ "insts" \in TaskOps
      BY <1>2 DEF TaskOps
    <3>2. Do("insts", n, <<i + 1>>) \in Task
      BY <3>1, <1>2, TaskType
    <3>3. TaskOK(Do("insts", n, <<i + 1>>), Len(blocks'))
      BY <1>2 DEF TaskOK, Do
    <3>4. Continue(<<Do("insts", n, <<i + 1>>)>>)
      BY <2>1, <1>4
    <3>5. QED
      BY <3>2, <3>3, <3>4, <1>1, <1>3, ResumeOne
  <2>2. CASE ~(i <= Len(n.insts))
    BY <2>2, <1>1, <1>3, <1>4, ResumeNone
  <2>3. QED
    BY <2>1, <2>2
<1>6. QED
  BY <1>3, <1>5, TypeNext1

\* Walking a child and resuming the routine behind it.
LEMMA WalkThen ==
  ASSUME TypeOK, work # <<>>, NEW m \in Node, NEW t \in Task,
         Continue(<<Walk(m), t>>),
         Len(blocks') \in Nat, Len(blocks) <= Len(blocks'),
         TaskOK(t, Len(blocks'))
  PROVE  /\ work' \in Seq(Task)
         /\ \A i \in DOMAIN work' : TaskOK(work'[i], Len(blocks'))
<1> DEFINE s == Walk(m)
<1>1. s \in Task /\ TaskOK(s, Len(blocks')) /\ Continue(<<s, t>>)
  BY TaskType
<1> HIDE DEF s
<1>2. QED
  BY <1>1, ResumeTwo

LEMMA TypeWalkIf == ASSUME TypeOK, WalkIf PROVE TypeOK'
<1>1. work # <<>> /\ TheNode.k = "if"
  BY DEF WalkIf, Visiting, Running, TheNode
<1>2. TheNode \in Node /\ Len(TheNode.kids) \in {2, 3}
  BY <1>1, HeadType, NodeAssumption
<1>3. /\ Len(blocks) \in Nat /\ blocks \in BlockSeq /\ blocks' = blocks
      /\ cur' \in 0..Len(blocks')
  BY <1>1, HeadType DEF TypeOK, WalkIf
<1> DEFINE m == TheNode.kids[1]
           t == Do("ifArms", TheNode, <<>>)
<1>4. m \in Node /\ t \in Task /\ TaskOK(t, Len(blocks'))
  <2>1. "ifArms" \in TaskOps /\ <<>> \in Seq(Nat)
    BY DEF TaskOps
  <2>2. TaskOK(t, Len(blocks'))
    BY <1>1 DEF TaskOK, Do
  <2>3. t \in Task
    BY <2>1, <1>2, TaskType
  <2>4. m \in Node
    BY <1>2, NodeType
  <2>5. QED
    BY <2>2, <2>3, <2>4
<1>5. Continue(<<Walk(m), t>>)
  BY DEF WalkIf
<1> HIDE DEF m, t
<1>6. /\ work' \in Seq(Task)
      /\ \A i \in DOMAIN work' : TaskOK(work'[i], Len(blocks'))
  BY <1>1, <1>3, <1>4, <1>5, WalkThen
<1>7. QED
  BY <1>3, <1>6, TypeNext1 DEF WalkIf

LEMMA TypeJoinArm == ASSUME TypeOK, JoinArm PROVE TypeOK'
<1> USE DEF JoinArm
<1>1. work # <<>> /\ Head(work).op = "join"
  BY DEF Running
<1>2. /\ Saved(1) \in 1..Len(blocks) /\ Saved(2) \in 1..Len(blocks)
      /\ Len(blocks) \in Nat /\ blocks \in BlockSeq /\ cur \in 0..Len(blocks)
  BY <1>1, HeadType DEF TaskOK, Saved, TypeOK
<1>3. blocks' \in BlockSeq /\ Len(blocks') = Len(blocks)
  <2>1. CASE cur # 0 /\ ~HasTerminator(blocks, cur)
    <3>1. Br(Saved(1)) \in Instr /\ cur \in 1..Len(blocks)
      BY <2>1, <1>2, InsType
    <3>2. QED
      BY <2>1, <3>1, <1>2, PutType
  <2>2. CASE ~(cur # 0 /\ ~HasTerminator(blocks, cur))
    BY <2>2, <1>2
  <2>3. QED
    BY <2>1, <2>2
<1>4. cur' \in 0..Len(blocks')
  BY <1>2, <1>3
<1>5. QED
  BY <1>1, <1>2, <1>3, <1>4, ResumeNone, TypeNext1

\* Stacks of well-typed tasks, when there are nb blocks.
GoodTasks(s, nb) == s \in Seq(Task) /\ \A i \in DOMAIN s : TaskOK(s[i], nb)

LEMMA GoodFew ==
  ASSUME NEW nb \in Nat, NEW s \in Task, NEW t \in Task,
         TaskOK(s, nb), TaskOK(t, nb)
  PROVE  GoodTasks(<<>>, nb) /\ GoodTasks(<<s>>, nb) /\ GoodTasks(<<s, t>>, nb)
<1>1. GoodTasks(<<>>, nb)
  BY DEF GoodTasks
<1>2. GoodTasks(<<s>>, nb)
  BY DEF GoodTasks
<1>3. GoodTasks(<<s, t>>, nb)
  BY DEF GoodTasks
<1>4. QED
  BY <1>1, <1>2, <1>3

\* A walk of m, to be followed by a task of the routine for n.
LEMMA GoodWalk ==
  ASSUME NEW nb \in Nat, NEW m \in Node, NEW n \in Node, NEW op \in TaskOps,
         NEW bb \in Seq(Nat), TaskOK(Do(op, n, bb), nb)
  PROVE  /\ GoodTasks(<<Walk(m), Do(op, n, bb)>>, nb)
         /\ GoodTasks(<<Do(op, n, bb)>>, nb)
<1> DEFINE s == Walk(m)
           t == Do(op, n, bb)
<1>1. s \in Task /\ t \in Task /\ TaskOK(s, nb) /\ TaskOK(t, nb)
  BY TaskType
<1> HIDE DEF s, t
<1>2. GoodTasks(<<s, t>>, nb) /\ GoodTasks(<<t>>, nb)
  BY <1>1, GoodFew
<1>3. QED
  BY <1>2 DEF s, t

LEMMA GoodConcat ==
  ASSUME NEW nb \in Nat, NEW s, NEW t, GoodTasks(s, nb), GoodTasks(t, nb)
  PROVE  GoodTasks(s \o t, nb)
<1>1. s \in Seq(Task) /\ t \in Seq(Task) /\ Len(s) \in Nat /\ Len(t) \in Nat
  BY LenProperties DEF GoodTasks
<1>2. /\ s \o t \in Seq(Task) /\ Len(s \o t) = Len(s) + Len(t)
      /\ \A i \in 1..Len(s) + Len(t) :
            (s \o t)[i] = IF i <= Len(s) THEN s[i] ELSE t[i - Len(s)]
  BY <1>1, ConcatProperties
<1>3. ASSUME NEW i \in 1..Len(s) + Len(t) PROVE TaskOK((s \o t)[i], nb)
  <2>1. CASE i <= Len(s)
    BY <2>1, <1>1, <1>2, LenProperties DEF GoodTasks
  <2>2. CASE i > Len(s)
    <3>1. i - Len(s) \in 1..Len(t)
      BY <2>2, <1>1
    <3>2. (s \o t)[i] = t[i - Len(s)]
      BY <2>2, <1>1, <1>2
    <3>3. QED
      BY <3>1, <3>2, <1>1, LenProperties DEF GoodTasks
  <2>3. QED
    BY <2>1, <2>2, <1>1
<1>4. QED
  BY <1>2, <1>3, LenProperties DEF GoodTasks

\* The stack after a step that replaced the head task.
LEMMA ResumeGood ==
  ASSUME TypeOK, work # <<>>, NEW first, Continue(first),
         Len(blocks') \in Nat, Len(blocks) <= Len(blocks'),
         GoodTasks(first, Len(blocks'))
  PROVE  GoodTasks(work', Len(blocks'))
BY Resume DEF GoodTasks

\* What holds of the blocks, the head task and its node before a step.
LEMMA Before ==
  ASSUME TypeOK, work # <<>>
  PROVE  /\ TaskOK(Head(work), Len(blocks))
         /\ TheNode \in Node /\ TheNode = Head(work).n
         /\ TheNode.kids \in Seq(Node) /\ Len(TheNode.kids) \in Nat
         /\ \A j \in 1..Len(TheNode.kids) : TheNode.kids[j] \in Node
         /\ blocks \in BlockSeq /\ Len(blocks) \in Nat
         /\ cur \in 0..Len(blocks)
BY HeadType, NodeType DEF TypeOK, TheNode

\* The next state is well typed when every part of it is.
LEMMA TypeNext ==
  ASSUME TypeOK, tree' = tree, blocks' \in BlockSeq, cur' \in 0..Len(blocks'),
         GoodTasks(work', Len(blocks')),
         labelmap' \in [Label -> 0..Len(blocks')],
         padStack' \in Seq(1..Len(blocks')), finallyBlock' \in 0..Len(blocks'),
         cachedReturn' # NoNode =>
            cachedReturn' \in Node /\ cachedReturn'.k = "return",
         status' \in {"walking", "done", "aborted"}
  PROVE  TypeOK'
BY DEF TypeOK, GoodTasks, BlockSeq, BlockIds

\* Blocks are only ever added, so what named a block still names one.
LEMMA Grown ==
  ASSUME TypeOK, Len(blocks') \in Nat, Len(blocks) <= Len(blocks')
  PROVE  /\ cur \in 0..Len(blocks')
         /\ labelmap \in [Label -> 0..Len(blocks')]
         /\ padStack \in Seq(1..Len(blocks')) /\ PopPad \in Seq(1..Len(blocks'))
         /\ finallyBlock \in 0..Len(blocks')
         /\ cachedReturn # NoNode => cachedReturn \in Node /\ cachedReturn.k = "return"
         /\ status \in {"walking", "done", "aborted"}
<1>1. Len(blocks) \in Nat
  BY LenProperties DEF TypeOK
<1>2. 1..Len(blocks) \subseteq 1..Len(blocks') /\ 0..Len(blocks) \subseteq 0..Len(blocks')
  BY <1>1
<1>3. padStack \in Seq(1..Len(blocks'))
  BY <1>2, SeqMonotonic DEF TypeOK, BlockIds
<1>4. PopPad \in Seq(1..Len(blocks'))
  <2>1. /\ Len(padStack) \in Nat
        /\ \A i \in 1..Len(padStack) : padStack[i] \in 1..Len(blocks')
    BY <1>3, LenProperties, ElementOfSeq
  <2>2. /\ Len(padStack) - 1 \in Int
        /\ \A i \in 1..(Len(padStack) - 1) : padStack[i] \in 1..Len(blocks')
    BY <2>1
  <2>3. QED
    BY <2>2, SubSeqProperties DEF PopPad
<1>5. QED
  BY <1>2, <1>3, <1>4 DEF TypeOK

\* A step that creates and fills blocks and leaves the rest of the state alone.
LEMMA TypeNext2 ==
  ASSUME TypeOK,
         UNCHANGED <<tree, labelmap, padStack, finallyBlock, cachedReturn, status>>,
         blocks' \in BlockSeq, Len(blocks') \in Nat, Len(blocks) <= Len(blocks'),
         cur' \in 0..Len(blocks'), GoodTasks(work', Len(blocks'))
  PROVE  TypeOK'
BY TypeNext1 DEF GoodTasks

LEMMA TypeIfArms == ASSUME TypeOK, IfArms PROVE TypeOK'
<1>1. work # <<>> /\ Head(work).op = "ifArms"
  BY DEF IfArms, Running
<1> DEFINE n == TheNode
           hasElse == Len(n.kids) = 3
           then == Len(blocks) + 1
           ft == Len(blocks) + 2
           else == IF hasElse THEN Len(blocks) + 3 ELSE ft
           added == IF hasElse THEN 3 ELSE 2
           arm2 == IF hasElse
                   THEN <<Walk(n.kids[3]), Do("join", n, <<ft, ft>>)>> ELSE <<>>
           arm1 == <<Walk(n.kids[2]), Do("join", n, <<ft, else>>)>>
<1>2. /\ n \in Node /\ Len(n.kids) \in {2, 3}
      /\ n.kids[2] \in Node /\ (hasElse => n.kids[3] \in Node)
  <2>1. n \in Node /\ n.k = "if" /\ \A j \in 1..Len(n.kids) : n.kids[j] \in Node
    BY <1>1, Before DEF TaskOK
  <2>2. Len(n.kids) \in {2, 3}
    BY <2>1, NodeAssumption
  <2>3. QED
    BY <2>1, <2>2
<1>3. blocks \in BlockSeq /\ Len(blocks) \in Nat /\ cur \in 0..Len(blocks)
  BY <1>1, Before
<1>4. CASE cur = 0
  BY <1>4, TypeAbort DEF IfArms
<1>5. CASE cur # 0
  <2>1. /\ blocks' = Put(NewBlocks(blocks, added), cur, Ins("condbr", <<then, else>>))
        /\ cur' = then /\ Continue(arm1 \o arm2)
        /\ UNCHANGED <<tree, labelmap, padStack, finallyBlock, cachedReturn, status>>
    BY <1>5 DEF IfArms
  <2>2. blocks' \in BlockSeq /\ Len(blocks') = Len(blocks) + added
    <3>1. /\ NewBlocks(blocks, added) \in BlockSeq
          /\ Len(NewBlocks(blocks, added)) = Len(blocks) + added
      BY <1>3, NewBlocksType
    <3>2. <<then, else>> \in Seq(Nat)
      BY <1>3
    <3>3. Ins("condbr", <<then, else>>) \in Instr
      BY <3>2, InsType DEF Terminators
    <3>4. cur \in 1..(Len(blocks) + added)
      BY <1>3, <1>5
    <3> HIDE DEF added, then, else
    <3>5. QED
      BY <2>1, <3>1, <3>3, <3>4, PutType
  <2>3. /\ Len(blocks') \in Nat /\ Len(blocks) <= Len(blocks')
        /\ ft \in 1..Len(blocks') /\ else \in 1..Len(blocks')
        /\ cur' \in 0..Len(blocks')
    BY <1>3, <2>1, <2>2
  <2>4. GoodTasks(arm1, Len(blocks')) /\ GoodTasks(arm2, Len(blocks'))
    <3>1. <<ft, else>> \in Seq(Nat) /\ <<ft, ft>> \in Seq(Nat) /\ "join" \in TaskOps
      BY <1>3 DEF TaskOps
    <3>2. /\ TaskOK(Do("join", n, <<ft, else>>), Len(blocks'))
          /\ TaskOK(Do("join", n, <<ft, ft>>), Len(blocks'))
      <4> HIDE DEF n, ft, else
      <4>1. QED
        BY <2>3 DEF TaskOK, Do
    <3>3. GoodTasks(arm1, Len(blocks'))
      <4> HIDE DEF n, ft, else
      <4>1. QED
        BY <3>1, <3>2, <1>2, <2>3, GoodWalk
    <3>4. GoodTasks(arm2, Len(blocks'))
      <4> HIDE DEF n, ft, else
      <4>1. CASE hasElse
        BY <4>1, <3>1, <3>2, <1>2, <2>3, GoodWalk
      <4>2. CASE ~hasElse
        BY <4>2 DEF GoodTasks
      <4>3. QED
        BY <4>1, <4>2
    <3>5. QED
      BY <3>3, <3>4
  <2> HIDE DEF arm1, arm2
  <2>5. GoodTasks(work', Len(blocks'))
    BY <1>1, <2>1, <2>3, <2>4, GoodConcat, ResumeGood
  <2>6. QED
    BY <2>1, <2>2, <2>3, <2>5, TypeNext2
<1>6. QED
  BY <1>4, <1>5

LEMMA TypeWalkSwitch == ASSUME TypeOK, WalkSwitch PROVE TypeOK'
<1>1. work # <<>> /\ TheNode.k = "switch"
  BY DEF WalkSwitch, Visiting, Running, TheNode
<1> DEFINE n == TheNode
           m == n.kids[1]
<1>2. n \in Node /\ m \in Node
  BY <1>1, Before, NodeAssumption
<1>3. /\ blocks' = blocks /\ cur' = cur /\ Continue(<<Walk(m), Do("cases", n, <<>>)>>)
      /\ UNCHANGED <<tree, labelmap, padStack, finallyBlock, cachedReturn, status>>
  BY DEF WalkSwitch
<1>4. blocks' \in BlockSeq /\ Len(blocks') \in Nat /\ Len(blocks) <= Len(blocks')
      /\ cur' \in 0..Len(blocks')
  BY <1>1, <1>3, Before
<1>5. TaskOK(Do("cases", n, <<>>), Len(blocks'))
  BY <1>1 DEF TaskOK, Do
<1>6. "cases" \in TaskOps /\ <<>> \in Seq(Nat)
  BY DEF TaskOps
<1> HIDE DEF n, m
<1>7. GoodTasks(<<Walk(m), Do("cases", n, <<>>)>>, Len(blocks'))
  BY <1>2, <1>4, <1>5, <1>6, GoodWalk
<1>8. QED
  BY <1>1, <1>3, <1>4, <1>7, ResumeGood, TypeNext2

\* The blocks of the cases and the epilog exist as long as the switch is active.
LEMMA TypeSwitchBlocks == ASSUME TypeOK, SwitchBlocks PROVE TypeOK'
<1>1. work # <<>> /\ Head(work).op = "cases"
  BY DEF SwitchBlocks, Running
<1> DEFINE n == TheNode
           bb == <<1, cur, Len(blocks)>>
<1>2. /\ n \in Node /\ n.k = "switch" /\ Len(n.kids) \in Nat /\ Len(n.kids) >= 1
      /\ blocks \in BlockSeq /\ Len(blocks) \in Nat /\ cur \in 0..Len(blocks)
  <2>1. n \in Node /\ n.k = "switch" /\ Len(n.kids) \in Nat
        /\ blocks \in BlockSeq /\ Len(blocks) \in Nat /\ cur \in 0..Len(blocks)
    BY <1>1, Before DEF TaskOK
  <2>2. Len(n.kids) >= 1
    BY <2>1, NodeAssumption
  <2>3. QED
    BY <2>1, <2>2
<1>3. /\ blocks' = NewBlocks(blocks, Len(n.kids) - 1 + 1)
      /\ Continue(<<Do("case", n, bb)>>) /\ cur' = cur
      /\ UNCHANGED <<tree, labelmap, padStack, finallyBlock, cachedReturn, status>>
  BY DEF SwitchBlocks, NumCases
<1>4. /\ blocks' \in BlockSeq /\ Len(blocks') = Len(blocks) + Len(n.kids)
      /\ Len(blocks') \in Nat /\ Len(blocks) <= Len(blocks') /\ cur' \in 0..Len(blocks')
  <2>1. Len(n.kids) - 1 + 1 = Len(n.kids)
    BY <1>2
  <2> HIDE DEF n
  <2>2. /\ NewBlocks(blocks, Len(n.kids)) \in BlockSeq
        /\ Len(NewBlocks(blocks, Len(n.kids))) = Len(blocks) + Len(n.kids)
    BY <1>2, NewBlocksType
  <2>3. QED
    BY <2>1, <2>2, <1>2, <1>3
<1>5. bb \in Seq(Nat) /\ "case" \in TaskOps
  BY <1>2 DEF TaskOps
<1>6. TaskOK(Do("case", n, bb), Len(blocks'))
  <2> HIDE DEF n
  <2>1. QED
    BY <1>2, <1>4 DEF TaskOK, Do
<1> HIDE DEF n, bb
<1>7. GoodTasks(<<Do("case", n, bb)>>, Len(blocks'))
  BY <1>2, <1>4, <1>5, <1>6, GoodWalk
<1>8. QED
  BY <1>1, <1>3, <1>4, <1>7, ResumeGood, TypeNext2

\* What the task of the loop over the cases holds.
LEMMA CaseTask ==
  ASSUME TypeOK, work # <<>>, Head(work).op = "case"
  PROVE  /\ TheNode.k = "switch" /\ Len(TheNode.kids) \in Nat
         /\ Saved(1) \in 1..Len(TheNode.kids)
         /\ Saved(2) \in 0..Len(blocks)
         /\ Saved(3) \in Nat /\ Saved(3) + Len(TheNode.kids) \in 1..Len(blocks)
         /\ CaseClosed \in BlockSeq /\ Len(CaseClosed) = Len(blocks)
<1>1. /\ TheNode.k = "switch" /\ Len(TheNode.kids) \in Nat
      /\ Saved(1) \in 1..Len(TheNode.kids)
      /\ Saved(2) \in 0..Len(blocks)
      /\ Saved(3) \in Nat /\ Saved(3) + Len(TheNode.kids) \in 1..Len(blocks)
  <2>1. Len(Head(work).bb) = 3 /\ \A j \in 1..Len(Head(work).bb) : Saved(j) \in Nat
    BY HeadType DEF TaskOK
  <2>2. QED
    BY <2>1, Before, SMTT(30) DEF TaskOK, Saved
<1>2. blocks \in BlockSeq /\ Len(blocks) \in Nat
  BY Before
<1>3. ASSUME Saved(1) > 1
      PROVE  /\ Put(blocks, Saved(3) + Saved(1) - 1, Br(EpilogBlock(TheNode, Saved(3))))
                  \in BlockSeq
             /\ Len(Put(blocks, Saved(3) + Saved(1) - 1, Br(EpilogBlock(TheNode, Saved(3)))))
                  = Len(blocks)
  <2>1. Saved(3) + Saved(1) - 1 \in 1..Len(blocks)
    BY <1>1, <1>2, <1>3
  <2>2. EpilogBlock(TheNode, Saved(3)) \in Nat
    BY <1>1 DEF EpilogBlock, NumCases
  <2>3. Br(EpilogBlock(TheNode, Saved(3))) \in Instr
    BY <2>2, InsType
  <2>4. QED
    BY <2>1, <2>3, <1>2, PutType
<1>4. QED
  BY <1>1, <1>2, <1>3 DEF CaseClosed

LEMMA TypeSwitchCase == ASSUME TypeOK, SwitchCase PROVE TypeOK'
<1>1. work # <<>> /\ Head(work).op = "case"
  BY DEF SwitchCase, Running
<1> DEFINE n == TheNode
           i == Saved(1)
           base == Saved(3)
           m == n.kids[i + 1]
           bb == <<i + 1, Saved(2), base>>
<1>2. /\ i <= Len(n.kids) - 1 /\ blocks' = CaseClosed /\ cur' = base + i
      /\ Continue(<<Walk(m), Do("case", n, bb)>>)
      /\ UNCHANGED <<tree, labelmap, padStack, finallyBlock, cachedReturn, status>>
  BY DEF SwitchCase, NumCases
<1>3. /\ n.k = "switch" /\ Len(n.kids) \in Nat /\ i \in 1..Len(n.kids)
      /\ Saved(2) \in 0..Len(blocks) /\ base \in Nat
      /\ base + Len(n.kids) \in 1..Len(blocks)
      /\ blocks' \in BlockSeq /\ Len(blocks') = Len(blocks) /\ Len(blocks) \in Nat
  BY <1>1, <1>2, CaseTask, Before
<1>4. n \in Node /\ m \in Node /\ i + 1 \in 1..Len(n.kids)
  <2>1. i + 1 \in 1..Len(n.kids)
    BY <1>2, <1>3, SMTT(30)
  <2>2. QED
    BY <2>1, <1>1, Before
<1> HIDE DEF n, i, base, m
<1>5. bb \in Seq(Nat) /\ "case" \in TaskOps
  BY <1>3 DEF TaskOps
<1>6. TaskOK(Do("case", n, bb), Len(blocks'))
  BY <1>3, <1>4 DEF TaskOK, Do
<1> HIDE DEF bb
<1>7. GoodTasks(<<Walk(m), Do("case", n, bb)>>, Len(blocks'))
  BY <1>3, <1>4, <1>5, <1>6, GoodWalk
<1>8. cur' \in 0..Len(blocks') /\ Len(blocks) <= Len(blocks') /\ Len(blocks') \in Nat
  BY <1>2, <1>3
<1>9. QED
  BY <1>1, <1>2, <1>3, <1>7, <1>8, ResumeGood, TypeNext2

\* The switch instruction names the default block and the blocks of the cases.
LEMMA TypeSwitchEnd == ASSUME TypeOK, SwitchEnd PROVE TypeOK'
<1>1. work # <<>> /\ Head(work).op = "case"
  BY DEF SwitchEnd, Running
<1> DEFINE n == TheNode
           base == Saved(3)
           ins == Ins("switch", <<DefaultTarget(n, base)>> \o
                                [j \in 1..NumCases(n) |-> base + j])
<1>2. CASE Saved(2) = 0
  BY <1>2, TypeAbort DEF SwitchEnd
<1>3. CASE Saved(2) # 0
  <2>1. /\ blocks' = Put(CaseClosed, Saved(2), ins) /\ cur' = EpilogBlock(n, base)
        /\ Continue(<<>>)
        /\ UNCHANGED <<tree, labelmap, padStack, finallyBlock, cachedReturn, status>>
    BY <1>3 DEF SwitchEnd
  <2>2. /\ n \in Node /\ n.arg \in Nat
        /\ Len(n.kids) \in Nat /\ Len(n.kids) >= 1 /\ Saved(2) \in 1..Len(blocks)
        /\ base \in Nat /\ base + Len(n.kids) \in 1..Len(blocks)
        /\ CaseClosed \in BlockSeq /\ Len(CaseClosed) = Len(blocks)
        /\ Len(blocks) \in Nat
    BY <1>1, <1>3, CaseTask, Before, NodeType
  <2> HIDE DEF n, base
  <2>3. ins \in Instr
    <3>1. DefaultTarget(n, base) \in Nat /\ NumCases(n) \in Nat
      BY <2>2 DEF DefaultTarget, EpilogBlock, NumCases
    <3>2. <<DefaultTarget(n, base)>> \in Seq(Nat)
      BY <3>1
    <3>3. [j \in 1..NumCases(n) |-> base + j] \in Seq(Nat)
      BY <3>1, <2>2
    <3>4. <<DefaultTarget(n, base)>> \o [j \in 1..NumCases(n) |-> base + j] \in Seq(Nat)
      BY <3>2, <3>3, ConcatProperties
    <3>5. QED
      BY <3>4, InsType DEF Terminators
  <2> HIDE DEF ins
  <2>4. blocks' \in BlockSeq /\ Len(blocks') = Len(blocks)
    BY <2>1, <2>2, <2>3, PutType
  <2>5. cur' \in 0..Len(blocks')
    BY <2>1, <2>2, <2>4 DEF EpilogBlock, NumCases
  <2>6. GoodTasks(<<>>, Len(blocks'))
    BY DEF GoodTasks
  <2>7. GoodTasks(work', Len(blocks'))
    BY <1>1, <2>1, <2>2, <2>4, <2>6, ResumeGood
  <2>8. QED
    BY <2>1, <2>2, <2>4, <2>5, <2>7, TypeNext2
<1>4. QED
  BY <1>2, <1>3

LEMMA TypeReturnToFinally == ASSUME TypeOK, ReturnToFinally PROVE TypeOK'
<1>1. work # <<>> /\ TheNode.k = "return" /\ finallyBlock # 0
  BY DEF ReturnToFinally, Visiting, Running, TheNode
<1>2. CASE cur = 0
  BY <1>2, TypeAbort DEF ReturnToFinally
<1>3. CASE cur # 0
  <2>1. /\ blocks' = Put(blocks, cur, Br(finallyBlock)) /\ cur' = 0 /\ Continue(<<>>)
        /\ cachedReturn' = IF cachedReturn = NoNode THEN TheNode ELSE cachedReturn
        /\ UNCHANGED <<tree, labelmap, padStack, finallyBlock, status>>
    BY <1>3 DEF ReturnToFinally
  <2>2. TheNode \in Node /\ blocks \in BlockSeq /\ Len(blocks) \in Nat
        /\ cur \in 1..Len(blocks) /\ finallyBlock \in Nat
    BY <1>1, <1>3, Before DEF TypeOK
  <2>3. blocks' \in BlockSeq /\ Len(blocks') = Len(blocks)
    <3>1. Br(finallyBlock) \in Instr
      BY <2>2, InsType
    <3>2. QED
      BY <2>1, <2>2, <3>1, PutType
  <2>4. GoodTasks(<<>>, Len(blocks'))
    BY DEF GoodTasks
  <2>5. GoodTasks(work', Len(blocks'))
    BY <1>1, <2>1, <2>2, <2>3, <2>4, ResumeGood
  <2>6. cur' \in 0..Len(blocks') /\ Len(blocks) <= Len(blocks') /\ Len(blocks') \in Nat
    BY <2>1, <2>2, <2>3
  <2>7. cachedReturn' # NoNode => cachedReturn' \in Node /\ cachedReturn'.k = "return"
    BY <1>1, <2>1, <2>2 DEF TypeOK
  <2>8. QED
    BY <2>1, <2>3, <2>5, <2>6, <2>7, Grown, TypeNext
<1>4. QED
  BY <1>2, <1>3

LEMMA TypeWalkReturn == ASSUME TypeOK, WalkReturn PROVE TypeOK'
<1>1. work # <<>> /\ TheNode.k = "return"
  BY DEF WalkReturn, Visiting, Running, TheNode
<1> DEFINE n == TheNode
           m == n.kids[1]
           bb == <<cur>>
<1>2. /\ blocks' = blocks /\ cur' = cur
      /\ Continue(<<Walk(m), Do("returnEnd", n, bb)>>)
      /\ UNCHANGED <<tree, labelmap, padStack, finallyBlock, cachedReturn, status>>
  BY DEF WalkReturn
<1>3. n \in Node /\ m \in Node
  BY <1>1, Before, NodeAssumption
<1>4. blocks' \in BlockSeq /\ Len(blocks') \in Nat /\ Len(blocks) <= Len(blocks')
      /\ cur \in Nat /\ cur' \in 0..Len(blocks')
  BY <1>1, <1>2, Before
<1>5. bb \in Seq(Nat) /\ "returnEnd" \in TaskOps
  BY <1>4 DEF TaskOps
<1>6. TaskOK(Do("returnEnd", n, bb), Len(blocks'))
  BY DEF TaskOK, Do
<1> HIDE DEF n, m, bb
<1>7. GoodTasks(<<Walk(m), Do("returnEnd", n, bb)>>, Len(blocks'))
  BY <1>3, <1>4, <1>5, <1>6, GoodWalk
<1>8. QED
  BY <1>1, <1>2, <1>4, <1>7, ResumeGood, TypeNext2

LEMMA TypeReturnEnd == ASSUME TypeOK, ReturnEnd PROVE TypeOK'
<1>1. work # <<>>
  BY DEF ReturnEnd, Running
<1>2. CASE cur # Saved(1)
  BY <1>2, TypeAbort DEF ReturnEnd
<1>3. CASE cur = Saved(1)
  <2>1. /\ blocks' = blocks /\ cur' = 0 /\ Continue(<<>>)
        /\ UNCHANGED <<tree, labelmap, padStack, finallyBlock, cachedReturn, status>>
    BY <1>3 DEF ReturnEnd
  <2>2. blocks' \in BlockSeq /\ Len(blocks') \in Nat /\ Len(blocks) <= Len(blocks')
        /\ cur' \in 0..Len(blocks')
    BY <1>1, <2>1, Before
  <2>3. GoodTasks(<<>>, Len(blocks'))
    BY DEF GoodTasks
  <2>4. QED
    BY <1>1, <2>1, <2>2, <2>3, ResumeGood, TypeNext2
<1>4. QED
  BY <1>2, <1>3

LEMMA TypeWalkDefer == ASSUME TypeOK, WalkDefer PROVE TypeOK'
<1>1. work # <<>> /\ TheNode.k = "defer"
  BY DEF WalkDefer, Visiting, Running, TheNode
<1> DEFINE n == TheNode
           m == n.kids[1]
           fin == Len(blocks) + 1
           pad == Len(blocks) + 2
           catch == Len(blocks) + 3
           bb == <<fin, pad, catch>>
<1>2. /\ blocks' = BranchIfLive(NewBlocks(blocks, 3), cur, fin)
      /\ padStack' = Append(padStack, pad) /\ cur' = fin
      /\ Continue(<<Walk(m), Do("deferCatch", n, bb)>>)
      /\ UNCHANGED <<tree, labelmap, finallyBlock, cachedReturn, status>>
  BY DEF WalkDefer
<1>3. n \in Node /\ m \in Node /\ n.k = "defer"
      /\ blocks \in BlockSeq /\ Len(blocks) \in Nat /\ cur \in 0..Len(blocks)
  BY <1>1, Before, NodeAssumption
<1>4. blocks' \in BlockSeq /\ Len(blocks') = Len(blocks) + 3
  <2>1. NewBlocks(blocks, 3) \in BlockSeq /\ Len(NewBlocks(blocks, 3)) = Len(blocks) + 3
    BY <1>3, NewBlocksType
  <2>2. fin \in Nat /\ cur \in 0..(Len(blocks) + 3)
    BY <1>3
  <2> HIDE DEF fin
  <2>3. QED
    BY <2>1, <2>2, <1>2, BranchIfLiveType
<1>5. /\ Len(blocks') \in Nat /\ Len(blocks) <= Len(blocks') /\ cur' \in 0..Len(blocks')
      /\ fin \in 1..Len(blocks') /\ pad \in 1..Len(blocks') /\ catch \in 1..Len(blocks')
  BY <1>2, <1>3, <1>4
<1>6. bb \in Seq(Nat) /\ "deferCatch" \in TaskOps
  BY <1>3 DEF TaskOps
<1> HIDE DEF n, m, fin, pad, catch
<1>7. TaskOK(Do("deferCatch", n, bb), Len(blocks'))
  BY <1>3, <1>5 DEF TaskOK, Do
<1> HIDE DEF bb
<1>8. GoodTasks(<<Walk(m), Do("deferCatch", n, bb)>>, Len(blocks'))
  BY <1>3, <1>5, <1>6, <1>7, GoodWalk
<1>9. GoodTasks(work', Len(blocks'))
  BY <1>1, <1>2, <1>5, <1>8, ResumeGood
<1>10. padStack' \in Seq(1..Len(blocks'))
  BY <1>2, <1>5, Grown, AppendProperties
<1>11. QED
  BY <1>2, <1>4, <1>5, <1>9, <1>10, Grown, TypeNext

LEMMA TypeDeferCatch == ASSUME TypeOK, DeferCatch PROVE TypeOK'
<1>1. work # <<>> /\ Head(work).op = "deferCatch"
  BY DEF DeferCatch, Running
<1> DEFINE n == TheNode
           m == n.kids[2]
           fin == Saved(1)
           pad == Saved(2)
           catch == Saved(3)
           bb == <<fin, catch, cur>>
<1>2. /\ blocks' = FillPad(blocks, pad, catch) /\ padStack' = PopPad /\ cur' = catch
      /\ Continue(<<Walk(m), Do("deferEnd", n, bb)>>)
      /\ UNCHANGED <<tree, labelmap, finallyBlock, cachedReturn, status>>
  BY DEF DeferCatch
<1>3. n \in Node /\ n.k = "defer" /\ m \in Node
      /\ blocks \in BlockSeq /\ Len(blocks) \in Nat /\ cur \in 0..Len(blocks)
      /\ fin \in 1..Len(blocks) /\ pad \in 1..Len(blocks) /\ catch \in 1..Len(blocks)
  <2>1. n \in Node /\ n.k = "defer"
        /\ blocks \in BlockSeq /\ Len(blocks) \in Nat /\ cur \in 0..Len(blocks)
        /\ fin \in 1..Len(blocks) /\ pad \in 1..Len(blocks) /\ catch \in 1..Len(blocks)
    BY <1>1, Before DEF TaskOK, Saved
  <2>2. m \in Node
    BY <2>1, <1>1, Before, NodeAssumption
  <2>3. QED
    BY <2>1, <2>2
<1> HIDE DEF n, m, fin, pad, catch
<1>4. blocks' \in BlockSeq /\ Len(blocks') = Len(blocks)
  BY <1>2, <1>3, FillPadType
<1>5. Len(blocks') \in Nat /\ Len(blocks) <= Len(blocks') /\ cur' \in 0..Len(blocks')
  BY <1>2, <1>3, <1>4
<1>6. bb \in Seq(Nat) /\ "deferEnd" \in TaskOps
  BY <1>3 DEF TaskOps
<1>7. TaskOK(Do("deferEnd", n, bb), Len(blocks'))
  BY <1>3, <1>4 DEF TaskOK, Do
<1> HIDE DEF bb
<1>8. GoodTasks(<<Walk(m), Do("deferEnd", n, bb)>>, Len(blocks'))
  BY <1>3, <1>5, <1>6, <1>7, GoodWalk
<1>9. GoodTasks(work', Len(blocks'))
  BY <1>1, <1>2, <1>5, <1>8, ResumeGood
<1>10. QED
  BY <1>2, <1>4, <1>5, <1>9, Grown, TypeNext

LEMMA TypeDeferEnd == ASSUME TypeOK, DeferEnd PROVE TypeOK'
<1>1. work # <<>> /\ Head(work).op = "deferEnd"
  BY DEF DeferEnd, Running
<1>2. CASE cur # Saved(2)
  BY <1>2, TypeAbort DEF DeferEnd
<1>3. CASE cur = Saved(2)
  <2>1. /\ blocks' = Put(blocks, Saved(2), Br(Saved(1))) /\ cur' = Saved(3)
        /\ Continue(<<>>)
        /\ UNCHANGED <<tree, labelmap, padStack, finallyBlock, cachedReturn, status>>
    BY <1>3 DEF DeferEnd
  <2>2. /\ blocks \in BlockSeq /\ Len(blocks) \in Nat
        /\ Saved(1) \in 1..Len(blocks) /\ Saved(2) \in 1..Len(blocks)
        /\ Saved(3) \in 0..Len(blocks)
    BY <1>1, Before DEF TaskOK, Saved
  <2>3. blocks' \in BlockSeq /\ Len(blocks') = Len(blocks)
    <3>1. Br(Saved(1)) \in Instr
      BY <2>2, InsType
    <3>2. QED
      BY <2>1, <2>2, <3>1, PutType
  <2>4. GoodTasks(<<>>, Len(blocks'))
    BY DEF GoodTasks
  <2>5. Len(blocks') \in Nat /\ Len(blocks) <= Len(blocks') /\ cur' \in 0..Len(blocks')
    BY <2>1, <2>2, <2>3
  <2>6. QED
    BY <1>1, <2>1, <2>3, <2>4, <2>5, ResumeGood, TypeNext2
<1>4. QED
  BY <1>2, <1>3

LEMMA TypeWalkExcep == ASSUME TypeOK, WalkExcep PROVE TypeOK'
<1>1. work # <<>> /\ TheNode.k = "excep"
  BY DEF WalkExcep, Visiting, Running, TheNode
<1> DEFINE n == TheNode
           m == n.kids[1]
           pad == Len(blocks) + 1
           cont == Len(blocks) + 2
           bb == <<pad, cont>>
<1>2. CASE padStack # <<>> \/ cachedReturn # NoNode
  BY <1>2, TypeAbort DEF WalkExcep
<1>3. CASE ~(padStack # <<>> \/ cachedReturn # NoNode)
  <2>1. /\ blocks' = NewBlocks(blocks, 2) /\ finallyBlock' = FinallyTarget(n, cont)
        /\ padStack' = Append(padStack, pad) /\ cur' = cur
        /\ Continue(<<Walk(m), Do("excepCatch", n, bb)>>)
        /\ UNCHANGED <<tree, labelmap, cachedReturn, status>>
    BY <1>3 DEF WalkExcep
  <2>2. n \in Node /\ m \in Node /\ n.k = "excep"
        /\ blocks \in BlockSeq /\ Len(blocks) \in Nat /\ cur \in 0..Len(blocks)
    BY <1>1, Before, NodeAssumption
  <2>3. blocks' \in BlockSeq /\ Len(blocks') = Len(blocks) + 2
    BY <2>1, <2>2, NewBlocksType
  <2>4. /\ Len(blocks') \in Nat /\ Len(blocks) <= Len(blocks') /\ cur' \in 0..Len(blocks')
        /\ pad \in 1..Len(blocks') /\ cont \in 1..Len(blocks')
    BY <2>1, <2>2, <2>3
  <2>5. bb \in Seq(Nat) /\ "excepCatch" \in TaskOps
    BY <2>2 DEF TaskOps
  <2> HIDE DEF n, m, pad, cont
  <2>6. TaskOK(Do("excepCatch", n, bb), Len(blocks'))
    BY <2>2, <2>4 DEF TaskOK, Do
  <2> HIDE DEF bb
  <2>7. GoodTasks(<<Walk(m), Do("excepCatch", n, bb)>>, Len(blocks'))
    BY <2>2, <2>4, <2>5, <2>6, GoodWalk
  <2>8. GoodTasks(work', Len(blocks'))
    BY <1>1, <2>1, <2>4, <2>7, ResumeGood
  <2>9. padStack' \in Seq(1..Len(blocks'))
    BY <2>1, <2>4, Grown, AppendProperties
  <2>10. finallyBlock' \in 0..Len(blocks')
    BY <2>1, <2>4 DEF FinallyTarget
  <2>11. QED
    BY <2>1, <2>3, <2>4, <2>8, <2>9, <2>10, Grown, TypeNext
<1>4. QED
  BY <1>2, <1>3

LEMMA TypeExcepCatch == ASSUME TypeOK, ExcepCatch PROVE TypeOK'
<1>1. work # <<>> /\ Head(work).op = "excepCatch"
  BY DEF ExcepCatch, Running
<1> DEFINE n == TheNode
           m == n.kids[2]
           pad == Saved(1)
           cont == Saved(2)
           catch == Len(blocks) + 1
           catchpad == Len(blocks) + 2
           bb == <<cont, catchpad>>
           more == NewBlocks(blocks, 2)
           left == BranchIfLive(more, cur, cont)
<1>2. /\ blocks' = FillPad(left, pad, catch) /\ padStack' = Append(PopPad, catchpad)
      /\ cur' = catch
      /\ Continue(<<Walk(m), Do("excepFinally", n, bb)>>)
      /\ UNCHANGED <<tree, labelmap, finallyBlock, cachedReturn, status>>
  BY DEF ExcepCatch
<1>3. n \in Node /\ n.k = "excep" /\ m \in Node
      /\ blocks \in BlockSeq /\ Len(blocks) \in Nat /\ cur \in 0..Len(blocks)
      /\ pad \in 1..Len(blocks) /\ cont \in 1..Len(blocks)
  <2>1. n \in Node /\ n.k = "excep"
        /\ blocks \in BlockSeq /\ Len(blocks) \in Nat /\ cur \in 0..Len(blocks)
        /\ pad \in 1..Len(blocks) /\ cont \in 1..Len(blocks)
    BY <1>1, Before DEF TaskOK, Saved
  <2>2. m \in Node
    BY <2>1, <1>1, Before, NodeAssumption
  <2>3. QED
    BY <2>1, <2>2
<1> HIDE DEF n, m, pad, cont
<1>4. /\ catch \in Nat /\ catchpad \in Nat /\ cont \in Nat
      /\ cur \in 0..(Len(blocks) + 2) /\ pad \in 1..(Len(blocks) + 2)
  BY <1>3
<1>5. more \in BlockSeq /\ Len(more) = Len(blocks) + 2
  BY <1>3, NewBlocksType
<1> HIDE DEF more
<1>6. left \in BlockSeq /\ Len(left) = Len(blocks) + 2
  BY <1>4, <1>5, BranchIfLiveType
<1> HIDE DEF left
<1>7. blocks' \in BlockSeq /\ Len(blocks') = Len(blocks) + 2
  BY <1>2, <1>4, <1>6, FillPadType
<1>8. /\ Len(blocks') \in Nat /\ Len(blocks) <= Len(blocks') /\ cur' \in 0..Len(blocks')
      /\ cont \in 1..Len(blocks') /\ catchpad \in 1..Len(blocks')
  BY <1>2, <1>3, <1>7
<1>9. bb \in Seq(Nat) /\ "excepFinally" \in TaskOps
  BY <1>4 DEF TaskOps
<1> HIDE DEF catch, catchpad
<1>10. TaskOK(Do("excepFinally", n, bb), Len(blocks'))
  BY <1>3, <1>8 DEF TaskOK, Do
<1> HIDE DEF bb
<1>11. GoodTasks(<<Walk(m), Do("excepFinally", n, bb)>>, Len(blocks'))
  BY <1>3, <1>8, <1>9, <1>10, GoodWalk
<1>12. GoodTasks(work', Len(blocks'))
  BY <1>1, <1>2, <1>8, <1>11, ResumeGood
<1>13. padStack' \in Seq(1..Len(blocks'))
  BY <1>2, <1>8, Grown, AppendProperties
<1>14. QED
  BY <1>2, <1>7, <1>8, <1>12, <1>13, Grown, TypeNext

LEMMA TypeExcepFinally == ASSUME TypeOK, ExcepFinally PROVE TypeOK'
<1>1. work # <<>> /\ Head(work).op = "excepFinally"
  BY DEF ExcepFinally, Running
<1> DEFINE n == TheNode
           m == n.kids[3]
           cont == Saved(1)
           catchpad == Saved(2)
           left == BranchIfLive(blocks, cur, cont)
           first == IF HasFinally(n) THEN <<Walk(m), Do("excepReturn", n, <<>>)>>
                    ELSE <<>>
<1>2. /\ blocks' = FillPad(left, catchpad, cont) /\ padStack' = PopPad
      /\ finallyBlock' = 0 /\ cur' = cont /\ Continue(first)
      /\ UNCHANGED <<tree, labelmap, cachedReturn, status>>
  BY DEF ExcepFinally
<1>3. n \in Node /\ n.k = "excep" /\ (HasFinally(n) => m \in Node)
      /\ blocks \in BlockSeq /\ Len(blocks) \in Nat /\ cur \in 0..Len(blocks)
      /\ cont \in 1..Len(blocks) /\ catchpad \in 1..Len(blocks)
  <2>1. n \in Node /\ n.k = "excep"
        /\ blocks \in BlockSeq /\ Len(blocks) \in Nat /\ cur \in 0..Len(blocks)
        /\ cont \in 1..Len(blocks) /\ catchpad \in 1..Len(blocks)
    BY <1>1, Before DEF TaskOK, Saved
  <2>2. HasFinally(n) => m \in Node
    BY <1>1, Before DEF HasFinally
  <2>3. QED
    BY <2>1, <2>2
<1> HIDE DEF n, m, cont, catchpad
<1>4. left \in BlockSeq /\ Len(left) = Len(blocks)
  BY <1>3, BranchIfLiveType
<1> HIDE DEF left
<1>5. blocks' \in BlockSeq /\ Len(blocks') = Len(blocks)
  BY <1>2, <1>3, <1>4, FillPadType
<1>6. Len(blocks') \in Nat /\ Len(blocks) <= Len(blocks') /\ cur' \in 0..Len(blocks')
      /\ finallyBlock' \in 0..Len(blocks')
  BY <1>2, <1>3, <1>5
<1>7. GoodTasks(first, Len(blocks'))
  <2>1. <<>> \in Seq(Nat) /\ "excepReturn" \in TaskOps
    BY DEF TaskOps
  <2>2. TaskOK(Do("excepReturn", n, <<>>), Len(blocks'))
    BY <1>3 DEF TaskOK, Do
  <2>3. CASE HasFinally(n)
    BY <2>1, <2>2, <2>3, <1>3, <1>6, GoodWalk
  <2>4. CASE ~HasFinally(n)
    BY <2>4 DEF GoodTasks
  <2>5. QED
    BY <2>3, <2>4
<1> HIDE DEF first
<1>8. GoodTasks(work', Len(blocks'))
  BY <1>1, <1>2, <1>6, <1>7, ResumeGood
<1>9. QED
  BY <1>2, <1>5, <1>6, <1>8, Grown, TypeNext

LEMMA TypeExcepReturn == ASSUME TypeOK, ExcepReturn PROVE TypeOK'
<1>1. work # <<>>
  BY DEF ExcepReturn, Running
<1> DEFINE n == TheNode
           m == cachedReturn.kids[1]
           bb == <<cur>>
           first == IF cachedReturn = NoNode THEN <<>>
                    ELSE <<Walk(m), Do("excepEnd", n, bb)>>
<1>2. /\ blocks' = blocks /\ cur' = cur /\ Continue(first)
      /\ UNCHANGED <<tree, labelmap, padStack, finallyBlock, cachedReturn, status>>
  BY DEF ExcepReturn
<1>3. n \in Node /\ blocks' \in BlockSeq /\ Len(blocks') \in Nat
      /\ Len(blocks) <= Len(blocks') /\ cur \in Nat /\ cur' \in 0..Len(blocks')
  BY <1>1, <1>2, Before
<1>4. cachedReturn # NoNode => m \in Node
  <2> SUFFICES ASSUME cachedReturn # NoNode PROVE m \in Node
    OBVIOUS
  <2>1. cachedReturn \in Node /\ Len(cachedReturn.kids) = 1
    BY NodeAssumption DEF TypeOK
  <2>2. QED
    BY <2>1, NodeType
<1>5. bb \in Seq(Nat) /\ "excepEnd" \in TaskOps
  BY <1>3 DEF TaskOps
<1>6. TaskOK(Do("excepEnd", n, bb), Len(blocks'))
  BY DEF TaskOK, Do
<1> HIDE DEF n, m, bb
<1>7. GoodTasks(first, Len(blocks'))
  <2>1. CASE cachedReturn = NoNode
    BY <2>1 DEF GoodTasks
  <2>2. CASE cachedReturn # NoNode
    BY <2>2, <1>3, <1>4, <1>5, <1>6, GoodWalk
  <2>3. QED
    BY <2>1, <2>2
<1> HIDE DEF first
<1>8. QED
  BY <1>1, <1>2, <1>3, <1>7, ResumeGood, TypeNext2

LEMMA TypeExcepEnd == ASSUME TypeOK, ExcepEnd PROVE TypeOK'
<1>1. work # <<>>
  BY DEF ExcepEnd, Running
<1>2. CASE cur # Saved(1)
  BY <1>2, TypeAbort DEF ExcepEnd
<1>3. CASE cur = Saved(1)
  <2>1. /\ cachedReturn' = NoNode /\ Continue(<<>>)
        /\ UNCHANGED <<tree, cur, blocks, labelmap, padStack, finallyBlock, status>>
    BY <1>3 DEF ExcepEnd
  <2>2. blocks' \in BlockSeq /\ Len(blocks') \in Nat /\ Len(blocks) <= Len(blocks')
    BY <1>1, <2>1, Before
  <2>3. GoodTasks(<<>>, Len(blocks'))
    BY DEF GoodTasks
  <2>4. GoodTasks(work', Len(blocks'))
    BY <1>1, <2>1, <2>2, <2>3, ResumeGood
  <2>5. QED
    BY <2>1, <2>2, <2>4, Grown, TypeNext
<1>4. QED
  BY <1>2, <1>3

\* The block of a label, created or found.
LEMMA LabelBlockType ==
  ASSUME TypeOK, work # <<>>, NEW lab \in Label
  PROVE  /\ WithLabelBlock(lab) \in BlockSeq
         /\ Len(WithLabelBlock(lab)) \in Nat /\ Len(blocks) <= Len(WithLabelBlock(lab))
         /\ BlockForLabel(lab) \in 1..Len(WithLabelBlock(lab))
<1>1. labelmap[lab] \in 0..Len(blocks) /\ blocks \in BlockSeq /\ Len(blocks) \in Nat
  BY Before DEF TypeOK
<1>2. NewBlocks(blocks, 1) \in BlockSeq /\ Len(NewBlocks(blocks, 1)) = Len(blocks) + 1
  BY <1>1, NewBlocksType
<1>3. QED
  BY <1>1, <1>2 DEF WithLabelBlock, BlockForLabel

LEMMA TypeWalkGoto == ASSUME TypeOK, WalkGoto PROVE TypeOK'
<1>1. work # <<>> /\ TheNode.k = "goto"
  BY DEF WalkGoto, Visiting, Running, TheNode
<1> DEFINE lab == TheNode.arg
           more == WithLabelBlock(lab)
           b == BlockForLabel(lab)
<1>2. /\ blocks' = IF cur # 0 /\ ~HasTerminator(blocks, cur) THEN Put(more, cur, Br(b))
                   ELSE more
      /\ labelmap' = [labelmap EXCEPT ![lab] = b] /\ cur' = 0 /\ Continue(<<>>)
      /\ UNCHANGED <<tree, padStack, finallyBlock, cachedReturn, status>>
  BY DEF WalkGoto
<1>3. lab \in Label /\ cur \in 0..Len(blocks) /\ Len(blocks) \in Nat
  BY <1>1, Before, NodeAssumption
<1> HIDE DEF lab
<1>4. more \in BlockSeq /\ Len(more) \in Nat /\ Len(blocks) <= Len(more)
      /\ b \in 1..Len(more)
  BY <1>1, <1>3, LabelBlockType
<1> HIDE DEF more, b
<1>5. blocks' \in BlockSeq /\ Len(blocks') = Len(more)
  <2>1. CASE cur # 0 /\ ~HasTerminator(blocks, cur)
    <3>1. cur \in 1..Len(more) /\ Br(b) \in Instr
      BY <2>1, <1>3, <1>4, InsType
    <3>2. QED
      BY <2>1, <3>1, <1>2, <1>4, PutType
  <2>2. CASE ~(cur # 0 /\ ~HasTerminator(blocks, cur))
    BY <2>2, <1>2, <1>4
  <2>3. QED
    BY <2>1, <2>2
<1>6. Len(blocks') \in Nat /\ Len(blocks) <= Len(blocks') /\ cur' \in 0..Len(blocks')
      /\ b \in 0..Len(blocks')
  BY <1>2, <1>4, <1>5
<1>7. labelmap' \in [Label -> 0..Len(blocks')]
  BY <1>2, <1>3, <1>6, Grown
<1>8. GoodTasks(<<>>, Len(blocks'))
  BY DEF GoodTasks
<1>9. GoodTasks(work', Len(blocks'))
  BY <1>1, <1>2, <1>6, <1>8, ResumeGood
<1>10. QED
  BY <1>2, <1>5, <1>6, <1>7, <1>9, Grown, TypeNext

LEMMA TypeWalkLabel == ASSUME TypeOK, WalkLabel PROVE TypeOK'
<1>1. work # <<>> /\ TheNode.k = "label"
  BY DEF WalkLabel, Visiting, Running, TheNode
<1> DEFINE lab == TheNode.arg
           more == WithLabelBlock(lab)
           b == BlockForLabel(lab)
<1>2. /\ blocks' = BranchIfLive(more, cur, b)
      /\ labelmap' = [labelmap EXCEPT ![lab] = b] /\ cur' = b /\ Continue(<<>>)
      /\ UNCHANGED <<tree, padStack, finallyBlock, cachedReturn, status>>
  BY DEF WalkLabel
<1>3. lab \in Label /\ cur \in 0..Len(blocks) /\ Len(blocks) \in Nat
  BY <1>1, Before, NodeAssumption
<1> HIDE DEF lab
<1>4. more \in BlockSeq /\ Len(more) \in Nat /\ Len(blocks) <= Len(more)
      /\ b \in 1..Len(more)
  BY <1>1, <1>3, LabelBlockType
<1> HIDE DEF more, b
<1>5. cur \in 0..Len(more) /\ b \in Nat
  BY <1>3, <1>4
<1>6. blocks' \in BlockSeq /\ Len(blocks') = Len(more)
  BY <1>2, <1>4, <1>5, BranchIfLiveType
<1>7. Len(blocks') \in Nat /\ Len(blocks) <= Len(blocks') /\ cur' \in 0..Len(blocks')
      /\ b \in 0..Len(blocks')
  BY <1>2, <1>4, <1>6
<1>8. labelmap' \in [Label -> 0..Len(blocks')]
  BY <1>2, <1>3, <1>7, Grown
<1>9. GoodTasks(<<>>, Len(blocks'))
  BY DEF GoodTasks
<1>10. GoodTasks(work', Len(blocks'))
  BY <1>1, <1>2, <1>7, <1>9, ResumeGood
<1>11. QED
  BY <1>2, <1>6, <1>7, <1>8, <1>10, Grown, TypeNext

LEMMA TypeFinish == ASSUME TypeOK, Finish PROVE TypeOK'
<1>1. /\ blocks' = IF cur # 0 /\ ~HasTerminator(blocks, cur)
                   THEN Put(blocks, cur, Ins("ret", <<>>)) ELSE blocks
      /\ status' = "done" /\ work' = <<>> /\ cur' = cur
      /\ UNCHANGED <<tree, labelmap, padStack, finallyBlock, cachedReturn>>
  BY DEF Finish
<1>2. blocks \in BlockSeq /\ Len(blocks) \in Nat /\ cur \in 0..Len(blocks)
  BY LenProperties DEF TypeOK, BlockSeq
<1>3. blocks' \in BlockSeq /\ Len(blocks') = Len(blocks)
  <2>1. CASE cur # 0 /\ ~HasTerminator(blocks, cur)
    <3>1. cur \in 1..Len(blocks) /\ <<>> \in Seq(Nat)
      BY <2>1, <1>2
    <3>2. Ins("ret", <<>>) \in Instr
      BY <3>1, InsType DEF Terminators
    <3>3. QED
      BY <2>1, <3>1, <3>2, <1>1, <1>2, PutType
  <2>2. CASE ~(cur # 0 /\ ~HasTerminator(blocks, cur))
    BY <2>2, <1>1, <1>2
  <2>3. QED
    BY <2>1, <2>2
<1>4. GoodTasks(work', Len(blocks'))
  BY <1>1 DEF GoodTasks
<1>5. Len(blocks') \in Nat /\ Len(blocks) <= Len(blocks') /\ cur' \in 0..Len(blocks')
  BY <1>1, <1>2, <1>3
<1>6. QED
  BY <1>1, <1>3, <1>4, <1>5, Grown, TypeNext

LEMMA TypeStep == ASSUME TypeOK, [Next]_vars PROVE TypeOK'
<1>1. CASE WalkChildren \/ EmitInst
  BY <1>1, TypeWalkChildren, TypeEmitInst
<1>2. CASE WalkIf \/ IfArms \/ JoinArm
  BY <1>2, TypeWalkIf, TypeIfArms, TypeJoinArm
<1>3. CASE WalkSwitch \/ SwitchBlocks \/ SwitchCase \/ SwitchEnd
  BY <1>3, TypeWalkSwitch, TypeSwitchBlocks, TypeSwitchCase, TypeSwitchEnd
<1>4. CASE ReturnToFinally \/ WalkReturn \/ ReturnEnd
  BY <1>4, TypeReturnToFinally, TypeWalkReturn, TypeReturnEnd
<1>5. CASE WalkDefer \/ DeferCatch \/ DeferEnd
  BY <1>5, TypeWalkDefer, TypeDeferCatch, TypeDeferEnd
<1>6. CASE WalkExcep \/ ExcepCatch \/ ExcepFinally \/ ExcepReturn \/ ExcepEnd
  BY <1>6, TypeWalkExcep, TypeExcepCatch, TypeExcepFinally, TypeExcepReturn,
     TypeExcepEnd
<1>7. CASE WalkGoto \/ WalkLabel \/ Finish
  BY <1>7, TypeWalkGoto, TypeWalkLabel, TypeFinish
<1>8. CASE UNCHANGED vars
  BY <1>8 DEF vars, TypeOK, BlockIds
<1>9. QED
  BY <1>1, <1>2, <1>3, <1>4, <1>5, <1>6, <1>7, <1>8 DEF Next

\* Every state of every walk, over every set of statement trees, is well typed: the
\* blocks named by curblock, the label map, the pad stack, finallyBlock_ and the
\* local variables of the active routines exist, and the loop over the cases of a
\* switch never reads past the blocks genSwitch made for it.
THEOREM TypeCorrect == Spec => []TypeOK
<1>1. Init => TypeOK
  BY TypeInit
<1>2. TypeOK /\ [Next]_vars => TypeOK'
  BY TypeStep
<1>3. QED
  BY <1>1, <1>2, PTL DEF Spec

-----------------------------------------------------------------------------
(* No cached return is forgotten.                                           *)

\* Tasks below the head stay on the stack, in front of them is what replaced it.
LEMMA StackMoves ==
  ASSUME TypeOK, work # <<>>, NEW S, NEW first \in Seq(S), Continue(first)
  PROVE  /\ \A i \in DOMAIN work \ {1} : \E j \in DOMAIN work' : work'[j] = work[i]
         /\ \A i \in 1..Len(first) : i \in DOMAIN work' /\ work'[i] = first[i]
<1> DEFINE T == S \cup Task
           rest == Tail(work)
<1>1. /\ rest \in Seq(Task) /\ Len(work) \in Nat /\ Len(rest) = Len(work) - 1
      /\ DOMAIN work = 1..Len(work) /\ Len(first) \in Nat
      /\ \A i \in 1..Len(rest) : rest[i] = work[i + 1]
  BY HeadTailProperties, LenProperties DEF TypeOK
<1>2. rest \in Seq(T) /\ first \in Seq(T)
  <2>1. Task \subseteq T /\ S \subseteq T
    OBVIOUS
  <2> HIDE DEF T
  <2>2. QED
    BY <1>1, <2>1, SeqMonotonic
<1>3. work' = first \o rest
  BY DEF Continue
<1> HIDE DEF T, rest
<1>4. /\ first \o rest \in Seq(T) /\ Len(first \o rest) = Len(first) + Len(rest)
      /\ \A i \in 1..Len(first) + Len(rest) :
           (first \o rest)[i] = IF i <= Len(first) THEN first[i]
                                ELSE rest[i - Len(first)]
  BY <1>2, ConcatProperties
<1>5. DOMAIN work' = 1..(Len(first) + Len(rest))
  BY <1>3, <1>4, LenProperties
<1>6. ASSUME NEW i \in DOMAIN work \ {1}
      PROVE  \E j \in DOMAIN work' : work'[j] = work[i]
  <2> DEFINE j == i - 1 + Len(first)
  <2>1. i - 1 \in 1..Len(rest) /\ j \in 1..(Len(first) + Len(rest))
        /\ ~(j <= Len(first)) /\ j - Len(first) = i - 1 /\ i - 1 + 1 = i
    BY <1>1
  <2>2. work'[j] = rest[i - 1]
    BY <2>1, <1>3, <1>4
  <2>3. rest[i - 1] = work[i]
    BY <2>1, <1>1
  <2>4. QED
    BY <2>1, <2>2, <2>3, <1>5
<1>7. ASSUME NEW i \in 1..Len(first) PROVE i \in DOMAIN work' /\ work'[i] = first[i]
  BY <1>1, <1>3, <1>4, <1>5
<1>8. QED
  BY <1>6, <1>7

HandlerOps == {"excepCatch", "excepFinally", "excepReturn", "excepEnd"}

\* The steps of the other routines leave the tasks of genExcep where they are; a
\* return is only cached while such a task is waiting.
LEMMA OwedStep ==
  ASSUME TypeOK, CachedReturnIsOwed, work # <<>>, Head(work).op \notin HandlerOps,
         NEW S, NEW first \in Seq(S), Continue(first),
         finallyBlock' = finallyBlock,
         cachedReturn' = cachedReturn \/ finallyBlock # 0
  PROVE  CachedReturnIsOwed'
<1>1. Head(work) = work[1]
  BY HeadTailProperties DEF TypeOK
<1>2. ASSUME NEW i \in DOMAIN work, work[i].op \in HandlerOps
      PROVE  \E j \in DOMAIN work' : work'[j] = work[i]
  BY <1>1, <1>2, StackMoves
<1>3. ASSUME NEW i \in DOMAIN work, FinallyPending(i)
      PROVE  \E j \in DOMAIN work' : FinallyPending(j)'
  <2>1. work[i].op \in HandlerOps
    BY <1>3 DEF FinallyPending, HandlerOps
  <2>2. PICK j \in DOMAIN work' : work'[j] = work[i]
    BY <2>1, <1>2
  <2>3. QED
    BY <2>2, <1>3 DEF FinallyPending, HasFinally
<1>4. finallyBlock # 0 => \E j \in DOMAIN work' : FinallyPending(j)'
  BY <1>3 DEF CachedReturnIsOwed
<1>5. ASSUME cachedReturn' # NoNode
      PROVE  \E j \in DOMAIN work' :
                FinallyPending(j)' \/ work'[j].op \in {"excepReturn", "excepEnd"}
  <2>1. CASE finallyBlock # 0
    BY <2>1, <1>4
  <2>2. CASE cachedReturn' = cachedReturn
    <3>1. PICK i \in DOMAIN work :
             FinallyPending(i) \/ work[i].op \in {"excepReturn", "excepEnd"}
      BY <2>2, <1>5 DEF CachedReturnIsOwed
    <3>2. CASE FinallyPending(i)
      BY <3>2, <1>3
    <3>3. CASE work[i].op \in {"excepReturn", "excepEnd"}
      BY <3>3, <1>2 DEF HandlerOps
    <3>4. QED
      BY <3>1, <3>2, <3>3
  <2>3. QED
    BY <2>1, <2>2
<1>6. QED
  BY <1>4, <1>5 DEF CachedReturnIsOwed

LEMMA OwedAbort == ASSUME CachedReturnIsOwed, Abort PROVE CachedReturnIsOwed'
BY DEF CachedReturnIsOwed, Abort, FinallyPending, HasFinally

\* The routines other than genExcep.
LEMMA OwedElsewhere ==
  ASSUME TypeOK, CachedReturnIsOwed,
         \/ WalkChildren \/ EmitInst \/ WalkIf \/ IfArms \/ JoinArm
         \/ WalkSwitch \/ SwitchBlocks \/ SwitchCase \/ SwitchEnd
         \/ ReturnToFinally \/ WalkReturn \/ ReturnEnd
         \/ WalkDefer \/ DeferCatch \/ DeferEnd \/ WalkGoto \/ WalkLabel
  PROVE  CachedReturnIsOwed'
<1> DEFINE Replaced == \E S : \E first \in Seq(S) : Continue(first)
           Kept == /\ work # <<>> /\ Head(work).op \notin HandlerOps
                   /\ finallyBlock' = finallyBlock
                   /\ cachedReturn' = cachedReturn \/ finallyBlock # 0
<1>1. ASSUME Continue(<<>>) PROVE Replaced
  <2>1. <<>> \in Seq({})
    OBVIOUS
  <2>2. QED
    BY <1>1, <2>1
<1>2. ASSUME NEW s, Continue(<<s>>) PROVE Replaced
  <2>1. <<s>> \in Seq({s})
    OBVIOUS
  <2>2. QED
    BY <1>2, <2>1
<1>3. ASSUME NEW s, NEW t, Continue(<<s, t>>) PROVE Replaced
  <2>1. <<s, t>> \in Seq({s, t})
    OBVIOUS
  <2>2. QED
    BY <1>3, <2>1
<1>4. CASE WalkChildren
  <2>1. work # <<>> /\ Head(work).op = "walk" /\ Kept
    BY <1>4 DEF WalkChildren, Visiting, Running, HandlerOps
  <2> DEFINE kids == TheNode.kids
             own == IF TheNode.k = "expr" THEN <<Do("insts", TheNode, <<1>>)>> ELSE <<>>
             S == {Walk(kids[j]) : j \in 1..Len(kids)} \cup {Do("insts", TheNode, <<1>>)}
  <2>2. Continue(WalkAll(kids) \o own)
    BY <1>4 DEF WalkChildren
  <2>3. Len(kids) \in Nat
    BY <2>1, Before
  <2>4. WalkAll(kids) \in Seq(S)
    BY <2>3 DEF WalkAll
  <2>5. own \in Seq(S)
    <3>1. <<Do("insts", TheNode, <<1>>)>> \in Seq(S) /\ <<>> \in Seq(S)
      OBVIOUS
    <3>2. QED
      BY <3>1
  <2> HIDE DEF kids, own, S
  <2>6. WalkAll(kids) \o own \in Seq(S)
    BY <2>4, <2>5, ConcatProperties
  <2>7. QED
    BY <2>1, <2>2, <2>6, OwedStep
<1>5. CASE IfArms
  <2>1. CASE cur = 0
    BY <1>5, <2>1, OwedAbort DEF IfArms
  <2>2. CASE cur # 0
    <3>1. Kept
      BY <1>5, <2>2 DEF IfArms, Running, HandlerOps
    <3>2. \E s, t, u, v :
             Continue(<<s, t>> \o IF Len(TheNode.kids) = 3 THEN <<u, v>> ELSE <<>>)
      BY <1>5, <2>2 DEF IfArms
    <3>3. PICK s, t, u, v :
             Continue(<<s, t>> \o IF Len(TheNode.kids) = 3 THEN <<u, v>> ELSE <<>>)
      BY <3>2
    <3> DEFINE S == {s, t, u, v}
               more == IF Len(TheNode.kids) = 3 THEN <<u, v>> ELSE <<>>
    <3>4. <<s, t>> \in Seq(S) /\ <<u, v>> \in Seq(S) /\ <<>> \in Seq(S)
      OBVIOUS
    <3>5. <<s, t>> \in Seq(S) /\ more \in Seq(S) /\ Continue(<<s, t>> \o more)
      BY <3>3, <3>4
    <3> HIDE DEF S, more
    <3>6. <<s, t>> \o more \in Seq(S)
      BY <3>5, ConcatProperties
    <3>7. QED
      BY <3>1, <3>5, <3>6, OwedStep
  <2>3. QED
    BY <2>1, <2>2
<1>6. CASE EmitInst
  <2>1. Kept
    BY <1>6 DEF EmitInst, Running, HandlerOps
  <2>2. (\E s : Continue(<<s>>)) \/ Continue(<<>>)
    BY <1>6 DEF EmitInst
  <2>3. QED
    BY <2>1, <2>2, <1>1, <1>2, OwedStep
<1>7. CASE WalkIf \/ WalkSwitch \/ WalkReturn \/ WalkDefer \/ SwitchCase \/ DeferCatch
  <2>1. Kept
    BY <1>7 DEF WalkIf, WalkSwitch, WalkReturn, WalkDefer, SwitchCase, DeferCatch,
                Visiting, Running, HandlerOps
  <2>2. \E s, t : Continue(<<s, t>>)
    BY <1>7 DEF WalkIf, WalkSwitch, WalkReturn, WalkDefer, SwitchCase, DeferCatch
  <2>3. QED
    BY <2>1, <2>2, <1>3, OwedStep
<1>8. CASE JoinArm \/ WalkGoto \/ WalkLabel
  <2>1. Kept
    BY <1>8 DEF JoinArm, WalkGoto, WalkLabel, Visiting, Running, HandlerOps
  <2>2. Continue(<<>>)
    BY <1>8 DEF JoinArm, WalkGoto, WalkLabel
  <2>3. QED
    BY <2>1, <2>2, <1>1, OwedStep
<1>9. CASE SwitchBlocks
  <2>1. Kept /\ \E s : Continue(<<s>>)
    BY <1>9 DEF SwitchBlocks, Running, HandlerOps
  <2>2. QED
    BY <2>1, <1>2, OwedStep
<1>10. CASE SwitchEnd \/ ReturnToFinally \/ ReturnEnd \/ DeferEnd
  <2>1. CASE Abort
    BY <2>1, OwedAbort
  <2>2. CASE Kept /\ Continue(<<>>)
    BY <2>2, <1>1, OwedStep
  <2>3. Abort \/ (Kept /\ Continue(<<>>))
    <3>1. CASE SwitchEnd
      BY <3>1 DEF SwitchEnd, Running, HandlerOps
    <3>2. CASE ReturnToFinally
      BY <3>2 DEF ReturnToFinally, Visiting, Running, HandlerOps
    <3>3. CASE ReturnEnd \/ DeferEnd
      BY <3>3 DEF ReturnEnd, DeferEnd, Running, HandlerOps
    <3>4. QED
      BY <1>10, <3>1, <3>2, <3>3
  <2>4. QED
    BY <2>1, <2>2, <2>3
<1>11. QED
  BY <1>4, <1>5, <1>6, <1>7, <1>8, <1>9, <1>10

\* The task behind a walk is second on the stack.
LEMMA SecondOfTwo ==
  ASSUME TypeOK, work # <<>>, NEW s, NEW t, Continue(<<s, t>>)
  PROVE  2 \in DOMAIN work' /\ work'[2] = t
<1> DEFINE first == <<s, t>>
           S == {s, t}
<1>1. first \in Seq(S) /\ Len(first) = 2 /\ first[2] = t /\ Continue(first)
  OBVIOUS
<1> HIDE DEF first, S
<1>2. \A i \in 1..Len(first) : i \in DOMAIN work' /\ work'[i] = first[i]
  BY <1>1, StackMoves
<1>3. 2 \in 1..Len(first)
  BY <1>1
<1>4. QED
  BY <1>1, <1>2, <1>3

\* genExcep is entered with no cached return and starts to owe one to its clause.
LEMMA OwedWalkExcep ==
  ASSUME TypeOK, CachedReturnIsOwed, WalkExcep PROVE CachedReturnIsOwed'
<1>1. CASE Abort
  BY <1>1, OwedAbort
<1>2. CASE ~Abort
  <2> DEFINE s == Walk(TheNode.kids[1])
             t == Do("excepCatch", TheNode, <<Len(blocks) + 1, Len(blocks) + 2>>)
  <2>1. /\ work # <<>> /\ Continue(<<s, t>>) /\ cachedReturn' = NoNode
        /\ finallyBlock' # 0 => HasFinally(TheNode)
    BY <1>2 DEF WalkExcep, Visiting, Running, FinallyTarget
  <2>2. t.op = "excepCatch" /\ t.n = TheNode
    BY DEF Do
  <2> HIDE DEF s, t
  <2>3. 2 \in DOMAIN work' /\ work'[2] = t
    BY <2>1, SecondOfTwo
  <2>4. HasFinally(TheNode) => FinallyPending(2)'
    BY <2>2, <2>3 DEF FinallyPending, HasFinally
  <2>5. QED
    BY <2>1, <2>3, <2>4 DEF CachedReturnIsOwed
<1>3. QED
  BY <1>1, <1>2

\* What the other tasks owe, they still owe when the head is replaced.
LEMMA OwedBelow ==
  ASSUME TypeOK, work # <<>>, NEW S, NEW first \in Seq(S), Continue(first),
         NEW i \in DOMAIN work, i # 1
  PROVE  /\ FinallyPending(i) => \E j \in DOMAIN work' : FinallyPending(j)'
         /\ work[i].op \in {"excepReturn", "excepEnd"} =>
              \E j \in DOMAIN work' : work'[j].op \in {"excepReturn", "excepEnd"}
<1>1. PICK j \in DOMAIN work' : work'[j] = work[i]
  BY StackMoves
<1>2. QED
  BY <1>1 DEF FinallyPending, HasFinally

LEMMA OwedExcepCatch ==
  ASSUME TypeOK, CachedReturnIsOwed, ExcepCatch PROVE CachedReturnIsOwed'
<1> DEFINE s == Walk(TheNode.kids[2])
           t == Do("excepFinally", TheNode, <<Saved(2), Len(blocks) + 2>>)
<1>1. /\ work # <<>> /\ Head(work).op = "excepCatch" /\ Continue(<<s, t>>)
      /\ UNCHANGED <<finallyBlock, cachedReturn>>
  BY DEF ExcepCatch, Running
<1>2. t.op = "excepFinally" /\ t.n = TheNode
  BY DEF Do
<1> HIDE DEF s, t
<1>3. Head(work) = work[1]
  BY <1>1, HeadTailProperties DEF TypeOK
<1>4. <<s, t>> \in Seq({s, t})
  OBVIOUS
<1>5. 2 \in DOMAIN work' /\ work'[2] = t
  BY <1>1, SecondOfTwo
<1>6. ASSUME NEW i \in DOMAIN work, FinallyPending(i)
      PROVE  \E j \in DOMAIN work' : FinallyPending(j)'
  <2>1. CASE i = 1
    <3>1. HasFinally(TheNode)
      BY <1>3, <1>6, <2>1 DEF FinallyPending, TheNode
    <3>2. FinallyPending(2)'
      BY <3>1, <1>2, <1>5 DEF FinallyPending, HasFinally
    <3>3. QED
      BY <3>2, <1>5
  <2>2. CASE i # 1
    BY <2>2, <1>1, <1>4, <1>6, OwedBelow
  <2>3. QED
    BY <2>1, <2>2
<1>7. ASSUME NEW i \in DOMAIN work, work[i].op \in {"excepReturn", "excepEnd"}
      PROVE  \E j \in DOMAIN work' : work'[j].op \in {"excepReturn", "excepEnd"}
  <2>1. i # 1
    BY <1>1, <1>3, <1>7
  <2>2. QED
    BY <2>1, <1>1, <1>4, <1>7, OwedBelow
<1>8. QED
  BY <1>1, <1>6, <1>7 DEF CachedReturnIsOwed

\* The clause is about to run: the task behind it emits the return.
LEMMA OwedExcepFinally ==
  ASSUME TypeOK, CachedReturnIsOwed, ExcepFinally PROVE CachedReturnIsOwed'
<1> DEFINE s == Walk(TheNode.kids[3])
           t == Do("excepReturn", TheNode, <<>>)
           first == IF HasFinally(TheNode) THEN <<s, t>> ELSE <<>>
<1>1. /\ work # <<>> /\ Head(work).op = "excepFinally" /\ Continue(first)
      /\ finallyBlock' = 0 /\ cachedReturn' = cachedReturn
  BY DEF ExcepFinally, Running
<1>2. t.op = "excepReturn"
  BY DEF Do
<1> HIDE DEF s, t
<1>3. Head(work) = work[1]
  BY <1>1, HeadTailProperties DEF TypeOK
<1>4. first \in Seq({s, t})
  <2>1. <<s, t>> \in Seq({s, t}) /\ <<>> \in Seq({s, t})
    OBVIOUS
  <2>2. QED
    BY <2>1
<1>5. HasFinally(TheNode) => Len(first) = 2 /\ first[2] = t
  OBVIOUS
<1> HIDE DEF first
<1>6. HasFinally(TheNode) => 2 \in DOMAIN work' /\ work'[2] = t
  BY <1>1, <1>4, <1>5, StackMoves
<1>7. ASSUME NEW i \in DOMAIN work,
             FinallyPending(i) \/ work[i].op \in {"excepReturn", "excepEnd"}
      PROVE  \E j \in DOMAIN work' :
                FinallyPending(j)' \/ work'[j].op \in {"excepReturn", "excepEnd"}
  <2>1. CASE i = 1
    <3>1. HasFinally(TheNode)
      BY <1>1, <1>3, <1>7, <2>1 DEF FinallyPending, TheNode
    <3>2. QED
      BY <3>1, <1>2, <1>6
  <2>2. CASE i # 1
    BY <2>2, <1>1, <1>4, <1>7, OwedBelow
  <2>3. QED
    BY <2>1, <2>2
<1>8. QED
  BY <1>1, <1>7 DEF CachedReturnIsOwed

LEMMA OwedExcepReturn ==
  ASSUME TypeOK, CachedReturnIsOwed, ExcepReturn PROVE CachedReturnIsOwed'
<1> DEFINE s == Walk(cachedReturn.kids[1])
           t == Do("excepEnd", TheNode, <<cur>>)
           first == IF cachedReturn = NoNode THEN <<>> ELSE <<s, t>>
<1>1. /\ work # <<>> /\ Head(work).op = "excepReturn" /\ Continue(first)
      /\ UNCHANGED <<finallyBlock, cachedReturn>>
  BY DEF ExcepReturn, Running
<1>2. t.op = "excepEnd"
  BY DEF Do
<1> HIDE DEF s, t
<1>3. Head(work) = work[1]
  BY <1>1, HeadTailProperties DEF TypeOK
<1>4. first \in Seq({s, t})
  <2>1. <<s, t>> \in Seq({s, t}) /\ <<>> \in Seq({s, t})
    OBVIOUS
  <2>2. QED
    BY <2>1
<1>5. cachedReturn # NoNode => Len(first) = 2 /\ first[2] = t
  OBVIOUS
<1> HIDE DEF first
<1>6. cachedReturn # NoNode => 2 \in DOMAIN work' /\ work'[2] = t
  BY <1>1, <1>4, <1>5, StackMoves
<1>7. ASSUME NEW i \in DOMAIN work, FinallyPending(i)
      PROVE  \E j \in DOMAIN work' : FinallyPending(j)'
  <2>1. i # 1
    BY <1>1, <1>3, <1>7 DEF FinallyPending
  <2>2. QED
    BY <2>1, <1>1, <1>4, <1>7, OwedBelow
<1>8. QED
  BY <1>1, <1>2, <1>6, <1>7 DEF CachedReturnIsOwed

LEMMA OwedExcepEnd ==
  ASSUME TypeOK, CachedReturnIsOwed, ExcepEnd PROVE CachedReturnIsOwed'
<1>1. CASE Abort
  BY <1>1, OwedAbort
<1>2. CASE ~Abort
  <2>1. /\ work # <<>> /\ Head(work).op = "excepEnd" /\ Continue(<<>>)
        /\ cachedReturn' = NoNode /\ finallyBlock' = finallyBlock
    BY <1>2 DEF ExcepEnd, Running
  <2>2. Head(work) = work[1]
    BY <2>1, HeadTailProperties DEF TypeOK
  <2>3. <<>> \in Seq({})
    OBVIOUS
  <2>4. ASSUME NEW i \in DOMAIN work, FinallyPending(i)
        PROVE  \E j \in DOMAIN work' : FinallyPending(j)'
    <3>1. i # 1
      BY <2>1, <2>2, <2>4 DEF FinallyPending
    <3>2. QED
      BY <3>1, <2>1, <2>3, <2>4, OwedBelow
  <2>5. QED
    BY <2>1, <2>4 DEF CachedReturnIsOwed
<1>3. QED
  BY <1>1, <1>2

\* When the walk is over nothing is owed.
LEMMA OwedFinish ==
  ASSUME TypeOK, CachedReturnIsOwed, Finish PROVE CachedReturnIsOwed'
<1>1. work = <<>> /\ UNCHANGED <<work, finallyBlock, cachedReturn>>
  BY DEF Finish
<1>2. finallyBlock = 0 /\ cachedReturn = NoNode
  BY <1>1 DEF CachedReturnIsOwed
<1>3. QED
  BY <1>1, <1>2 DEF CachedReturnIsOwed

\* For every statement tree: while genReturn rewrites returns, and while a return is
\* cached, the genExcep that runs the finally clause and then emits the return is
\* active; so a function whose walk ended has no return left in cachedReturn_.
THEOREM ReturnsAreOwed == Spec => []CachedReturnIsOwed
<1>1. Init => CachedReturnIsOwed
  BY DEF Init, CachedReturnIsOwed
<1>2. TypeOK /\ CachedReturnIsOwed /\ [Next]_vars => CachedReturnIsOwed'
  <2> SUFFICES ASSUME TypeOK, CachedReturnIsOwed, [Next]_vars
               PROVE  CachedReturnIsOwed'
    OBVIOUS
  <2>1. CASE WalkExcep \/ ExcepCatch \/ ExcepFinally \/ ExcepReturn \/ ExcepEnd
    BY <2>1, OwedWalkExcep, OwedExcepCatch, OwedExcepFinally, OwedExcepReturn,
       OwedExcepEnd
  <2>2. CASE Finish
    BY <2>2, OwedFinish
  <2>3. CASE UNCHANGED vars
    BY <2>3 DEF vars, CachedReturnIsOwed, FinallyPending, HasFinally
  <2>4. QED
    BY <2>1, <2>2, <2>3, OwedElsewhere DEF Next
<1>3. QED
  BY <1>1, <1>2, TypeCorrect, PTL DEF Spec

-----------------------------------------------------------------------------
(* Stacks as paths.  A set R of moves <<a, t, b>> says that task t leads    *)
(* from a to b, both in a set S of descriptions of the state of the walk; a *)
(* stack of tasks leads along a path of moves.                              *)

Moves(S) == SUBSET (S \X Task \X S)

\* The tasks of w, in order, lead from a to b.
Leads(R, S, a, w, b) ==
  \E p \in [1..(Len(w) + 1) -> S] :
     /\ p[1] = a
     /\ p[Len(w) + 1] = b
     /\ \A i \in 1..Len(w) : <<p[i], w[i], p[i + 1]>> \in R

\* No tasks lead nowhere.
LEMMA LeadsNone ==
  ASSUME NEW S, NEW R, NEW a \in S
  PROVE  Leads(R, S, a, <<>>, a)
<1> DEFINE p == [i \in 1..1 |-> a]
<1>1. p \in [1..(Len(<<>>) + 1) -> S] /\ p[1] = a /\ p[Len(<<>>) + 1] = a
  OBVIOUS
<1>2. \A i \in 1..Len(<<>>) : <<p[i], <<>>[i], p[i + 1]>> \in R
  OBVIOUS
<1>3. QED
  BY <1>1, <1>2 DEF Leads

\* A single task leads where its move says.
LEMMA LeadsOne ==
  ASSUME NEW S, NEW R, NEW a \in S, NEW b \in S, NEW t, <<a, t, b>> \in R
  PROVE  Leads(R, S, a, <<t>>, b)
<1> DEFINE p == [i \in 1..2 |-> IF i = 1 THEN a ELSE b]
<1>1. p \in [1..2 -> S] /\ p[1] = a /\ p[2] = b
  OBVIOUS
<1>2. Len(<<t>>) = 1 /\ <<t>>[1] = t
  OBVIOUS
<1> HIDE DEF p
<1>3. \A i \in 1..1 : <<p[i], <<t>>[i], p[i + 1]>> \in R
  BY <1>1, <1>2
<1>4. QED
  BY <1>1, <1>2, <1>3 DEF Leads

\* Paths are joined end to end.
LEMMA LeadsOn ==
  ASSUME NEW S, NEW R, NEW a \in S, NEW b \in S, NEW c \in S,
         NEW v \in Seq(Task), NEW w \in Seq(Task),
         Leads(R, S, a, v, b), Leads(R, S, b, w, c)
  PROVE  Leads(R, S, a, v \o w, c)
<1> DEFINE m == Len(v)
           n == Len(w)
<1>1. m \in Nat /\ n \in Nat
  BY LenProperties
<1>2. /\ Len(v \o w) = m + n
      /\ \A i \in 1..(m + n) : (v \o w)[i] = IF i <= m THEN v[i] ELSE w[i - m]
  BY ConcatProperties
<1>3. PICK p \in [1..(m + 1) -> S] :
        p[1] = a /\ p[m + 1] = b /\ \A i \in 1..m : <<p[i], v[i], p[i + 1]>> \in R
  BY DEF Leads
<1>4. PICK q \in [1..(n + 1) -> S] :
        q[1] = b /\ q[n + 1] = c /\ \A i \in 1..n : <<q[i], w[i], q[i + 1]>> \in R
  BY DEF Leads
<1> HIDE DEF m, n
<1> DEFINE r == [i \in 1..(m + n + 1) |-> IF i <= m THEN p[i] ELSE q[i - m]]
<1>5. r \in [1..(m + n + 1) -> S]
  <2>1. \A i \in 1..(m + n + 1) : IF i <= m THEN i \in 1..(m + 1) ELSE i - m \in 1..(n + 1)
    BY <1>1
  <2>2. QED
    BY <2>1
<1>6. \A i \in 1..(m + n + 1) : r[i] = IF i <= m THEN p[i] ELSE q[i - m]
  OBVIOUS
<1> HIDE DEF r
<1>7. r[1] = a
  <2>1. 1 \in 1..(m + n + 1) /\ (~(1 <= m) => m = 0)
    BY <1>1
  <2>2. CASE 1 <= m
    BY <1>3, <1>6, <2>1, <2>2
  <2>3. CASE m = 0
    BY <1>3, <1>4, <1>6, <2>1, <2>3
  <2>4. QED
    BY <2>1, <2>2, <2>3
<1>8. r[m + n + 1] = c
  <2>1. m + n + 1 \in 1..(m + n + 1) /\ ~(m + n + 1 <= m) /\ (m + n + 1) - m = n + 1
    BY <1>1
  <2>2. QED
    BY <1>4, <1>6, <2>1
<1>9. ASSUME NEW i \in 1..(m + n) PROVE <<r[i], (v \o w)[i], r[i + 1]>> \in R
  <2>1. i \in 1..(m + n + 1) /\ i + 1 \in 1..(m + n + 1) /\ i \in Nat
    BY <1>1
  <2>2. CASE i + 1 <= m
    <3>1. i \in 1..m /\ i <= m
      BY <1>1, <2>2
    <3>2. r[i] = p[i] /\ r[i + 1] = p[i + 1] /\ (v \o w)[i] = v[i]
      BY <1>2, <1>6, <2>1, <2>2, <3>1
    <3>3. QED
      BY <1>3, <3>1, <3>2
  <2>3. CASE i = m
    <3>1. i \in 1..m /\ i <= m /\ ~(i + 1 <= m) /\ (i + 1) - m = 1 /\ i + 1 = m + 1
      BY <1>1, <2>3
    <3>2. r[i] = p[i] /\ r[i + 1] = q[1] /\ (v \o w)[i] = v[i]
      BY <1>2, <1>6, <2>1, <3>1
    <3>3. r[i + 1] = p[i + 1]
      BY <1>3, <1>4, <3>1, <3>2
    <3>4. QED
      BY <1>3, <3>1, <3>2, <3>3
  <2>4. CASE i > m
    <3> DEFINE k == i - m
    <3>1. k \in 1..n /\ ~(i <= m) /\ ~(i + 1 <= m) /\ (i + 1) - m = k + 1
      BY <1>1, <2>1, <2>4
    <3>2. r[i] = q[k] /\ r[i + 1] = q[k + 1] /\ (v \o w)[i] = w[k]
      BY <1>2, <1>6, <2>1, <3>1
    <3> HIDE DEF k
    <3>3. QED
      BY <1>4, <3>1, <3>2
  <2>5. i + 1 <= m \/ i = m \/ i > m
    BY <1>1, <2>1
  <2>6. QED
    BY <2>2, <2>3, <2>4, <2>5
<1>10. QED
  BY <1>2, <1>5, <1>7, <1>8, <1>9 DEF Leads

\* Two tasks lead along two moves.
LEMMA LeadsTwo ==
  ASSUME NEW S, NEW R, NEW a \in S, NEW b \in S, NEW c \in S,
         NEW t \in Task, NEW u \in Task, <<a, t, b>> \in R, <<b, u, c>> \in R
  PROVE  Leads(R, S, a, <<t, u>>, c)
<1> DEFINE p == [i \in 1..3 |-> IF i = 1 THEN a ELSE IF i = 2 THEN b ELSE c]
<1>1. p \in [1..3 -> S] /\ p[1] = a /\ p[2] = b /\ p[3] = c
  OBVIOUS
<1>2. Len(<<t, u>>) = 2 /\ <<t, u>>[1] = t /\ <<t, u>>[2] = u
  OBVIOUS
<1> HIDE DEF p
<1>3. \A i \in 1..2 : <<p[i], <<t, u>>[i], p[i + 1]>> \in R
  <2> SUFFICES ASSUME NEW i \in 1..2 PROVE <<p[i], <<t, u>>[i], p[i + 1]>> \in R
    OBVIOUS
  <2>1. CASE i = 1
    BY <1>1, <1>2, <2>1
  <2>2. CASE i = 2
    BY <1>1, <1>2, <2>2
  <2>3. QED
    BY <2>1, <2>2
<1>4. QED
  BY <1>1, <1>2, <1>3 DEF Leads

\* The head of a stack leads to where the rest of it starts.
LEMMA LeadsHead ==
  ASSUME NEW S, NEW R, NEW a \in S, NEW c \in S, NEW w \in Seq(Task), w # <<>>,
         Leads(R, S, a, w, c)
  PROVE  \E b \in S : <<a, Head(w), b>> \in R /\ Leads(R, S, b, Tail(w), c)
<1> DEFINE n == Len(w)
<1>1. n \in Nat /\ n >= 1
  BY EmptySeq, LenProperties
<1>2. /\ Head(w) = w[1] /\ Tail(w) \in Seq(Task) /\ Len(Tail(w)) = n - 1
      /\ \A i \in 1..(n - 1) : Tail(w)[i] = w[i + 1]
  BY HeadTailProperties
<1>3. PICK p \in [1..(n + 1) -> S] :
        p[1] = a /\ p[n + 1] = c /\ \A i \in 1..n : <<p[i], w[i], p[i + 1]>> \in R
  BY DEF Leads
<1> HIDE DEF n
<1> DEFINE q == [i \in 1..n |-> p[i + 1]]
<1>4. /\ q \in [1..n -> S]
      /\ \A i \in 1..n : q[i] = p[i + 1] /\ i + 1 \in 1..(n + 1)
  BY <1>1
<1> HIDE DEF q
<1>5. 1 \in 1..n /\ n \in 1..n /\ (n - 1) + 1 = n
  BY <1>1
<1>6. \A i \in 1..(n - 1) : <<q[i], Tail(w)[i], q[i + 1]>> \in R
  <2> SUFFICES ASSUME NEW i \in 1..(n - 1) PROVE <<q[i], Tail(w)[i], q[i + 1]>> \in R
    OBVIOUS
  <2>1. i \in 1..n /\ i + 1 \in 1..n
    BY <1>1
  <2>2. q[i] = p[i + 1] /\ q[i + 1] = p[(i + 1) + 1] /\ Tail(w)[i] = w[i + 1]
    BY <1>2, <1>4, <2>1
  <2>3. QED
    BY <1>3, <2>1, <2>2
<1>7. q[n] = c /\ q[1] \in S /\ <<a, Head(w), q[1]>> \in R
  BY <1>2, <1>3, <1>4, <1>5
<1>8. Leads(R, S, q[1], Tail(w), c)
  BY <1>2, <1>4, <1>5, <1>6, <1>7 DEF Leads
<1>9. QED
  BY <1>7, <1>8

-----------------------------------------------------------------------------
(* Where the walk is.                                                       *)

\* The values curblock can have where control is, or is not.
Cur(reach) == IF reach = "live" THEN Nat \ {0} ELSE {0}

\* A description of the state between two tasks: the length of padBlockStack_,
\* whether returns go to a finally clause and whether one may be kept, and the
\* values curblock can have.
Point == [pads : Nat, mode : {{}, {"owed"}, {"finally", "owed"}}, at : SUBSET Nat]

ModeAt(a) == a.mode \cup (IF a.pads > 0 THEN {"pad"} ELSE {})

Points(pads, mode, at) == [pads |-> pads, mode |-> mode, at |-> at]

\* The point reached from a when only curblock changes.
To(a, at) == Points(a.pads, a.mode, at)

FitsWalk(s, a, n, b) ==
  \/ Calm(s, n, ModeAt(a)) /\ b = a
  \/ \E from, to \in Reach :
       Visited(s, n, ModeAt(a), from, to) /\ a.at \subseteq Cur(from) /\ b = To(a, Cur(to))

FitsInsts(a, n, b) ==
  \/ (a.pads = 0 \/ NoCalls(n)) /\ b = a
  \/ \E r \in Reach : a.at \subseteq Cur(r) /\ b = To(a, Cur(r))

\* The branches of an if or switch statement, to be walked.
FitsArms(s, a, n, b) == ArmsVisited(s, n, ModeAt(a)) /\ b = To(a, Cur("live"))

FitsCase(s, a, t, b) ==
  /\ FitsArms(s, a, t.n, b)
  /\ t.bb[2] # 0
  /\ SwitchesClose(s) =>
       /\ ArmsClose(s, t.n, ModeAt(a))
       /\ a.at \subseteq IF t.bb[1] = 1 THEN {t.bb[2]} ELSE {0, t.bb[3] + t.bb[1] - 1}

\* The finally clause of an exception statement, to be walked.
FitsFinally(s, n, b) ==
  IF HasFinally(n)
  THEN \E to \in Reach : /\ Visited(s, n.kids[3], InFinally, "live", to)
                         /\ b = Points(0, {}, Cur(to))
  ELSE b = Points(0, {}, Cur("live"))

\* In the body or the on-exception clause of an exception statement.
Protected(n, a) == a.pads = 1 /\ a.mode = Protecting(n) \ {"pad"}

\* Task t leads from a to b.
Fits(s, a, t, b) ==
  /\ t.op = "walk" => FitsWalk(s, a, t.n, b)
  /\ t.op = "insts" => FitsInsts(a, t.n, b)
  /\ t.op = "ifArms" => FitsArms(s, a, t.n, b) /\ a.at \subseteq Cur("live")
  /\ t.op = "join" => b = To(a, Cur("live"))
  /\ t.op = "cases" => /\ FitsArms(s, a, t.n, b) /\ a.at \subseteq Cur("live")
                       /\ SwitchesClose(s) => ArmsClose(s, t.n, ModeAt(a))
  /\ t.op = "case" => FitsCase(s, a, t, b)
  /\ t.op = "returnEnd" => a.at \subseteq {t.bb[1]} /\ b = To(a, Cur("dead"))
  /\ t.op = "deferCatch" =>
       \E r \in Reach : /\ a.at \subseteq Cur(r)
                        /\ a.pads >= 1 /\ b = Points(a.pads - 1, a.mode, Cur(r))
                        /\ Calm(s, t.n.kids[2], ModeAt(b))
  /\ t.op = "deferEnd" =>
       /\ a.at \subseteq {t.bb[2]}
       /\ \E r \in Reach : t.bb[3] \in Cur(r) /\ b = To(a, Cur(r))
  /\ t.op = "excepCatch" => /\ Protected(t.n, a)
                            /\ VisitedAsArm(s, t.n.kids[2], Protecting(t.n))
                            /\ FitsFinally(s, t.n, b)
  /\ t.op = "excepFinally" => Protected(t.n, a) /\ FitsFinally(s, t.n, b)
  /\ t.op = "excepReturn" =>
       a.pads = 0 /\ a.mode = InFinally /\ b = Points(0, {}, a.at)
  /\ t.op = "excepEnd" => /\ a.pads = 0 /\ a.mode = InFinally /\ a.at \subseteq {t.bb[1]}
                          /\ a.at \subseteq b.at /\ b.pads = 0 /\ b.mode = {}

Steps(s) == {x \in Point \X Task \X Point : Fits(s, x[1], x[2], x[3])}

\* The state is as a point says.
At(s, a) ==
  /\ Len(padStack) = a.pads
  /\ finallyBlock # 0 <=> "finally" \in a.mode
  /\ cachedReturn # NoNode => "owed" \in a.mode /\ cachedReturn.kids[1] \in s.calm
  /\ cur \in a.at

\* The walk is at a point from which the stack leads on.
FlowInv(s) ==
  /\ Derives(s)
  /\ status # "aborted"
  /\ status = "walking" =>
       \E a, b \in Point : At(s, a) /\ Leads(Steps(s), Point, a, work, b)

\* The moves of the walk are those that fit.
LEMMA StepsAre ==
  ASSUME NEW s, NEW a \in Point, NEW t \in Task, NEW b \in Point
  PROVE  <<a, t, b>> \in Steps(s) <=> Fits(s, a, t, b)
BY DEF Steps

\* When the head task is done and the state is where its move ends, the rest of
\* the stack leads on.
LEMMA FlowPop ==
  ASSUME TypeOK, NEW s, FlowInv(s), status = "walking", work # <<>>
  PROVE  \E a, m, b \in Point :
            At(s, a) /\ Fits(s, a, Head(work), m) /\ Leads(Steps(s), Point, m, Tail(work), b)
<1>1. PICK a \in Point, b \in Point : At(s, a) /\ Leads(Steps(s), Point, a, work, b)
  BY DEF FlowInv
<1>2. work \in Seq(Task)
  BY DEF TypeOK
<1>3. PICK m \in Point : <<a, Head(work), m>> \in Steps(s) /\ Leads(Steps(s), Point, m, Tail(work), b)
  BY <1>1, <1>2, LeadsHead
<1>4. Head(work) \in Task
  BY HeadType
<1>5. QED
  BY <1>1, <1>3, <1>4, StepsAre

\* The head task may be replaced by tasks that lead from the new state to where it
\* ends.
LEMMA FlowPush ==
  ASSUME TypeOK, NEW s, Derives(s), work # <<>>, status' = "walking",
         NEW first \in Seq(Task), Continue(first),
         NEW a \in Point, NEW m \in Point, NEW b \in Point,
         At(s, a)', Leads(Steps(s), Point, a, first, m),
         Leads(Steps(s), Point, m, Tail(work), b)
  PROVE  FlowInv(s)'
<1>1. Tail(work) \in Seq(Task)
  BY HeadTailProperties DEF TypeOK
<1>2. Leads(Steps(s), Point, a, first \o Tail(work), b)
  BY <1>1, LeadsOn
<1>3. Leads(Steps(s), Point, a, work', b)
  BY <1>2 DEF Continue
<1>4. QED
  BY <1>3 DEF FlowInv

\* FlowPush for no new task,
LEMMA FlowPushNone ==
  ASSUME TypeOK, NEW s, Derives(s), work # <<>>, status' = "walking", Continue(<<>>),
         NEW m \in Point, NEW b \in Point, At(s, m)',
         Leads(Steps(s), Point, m, Tail(work), b)
  PROVE  FlowInv(s)'
BY LeadsNone, FlowPush, EmptySeq

\* for one,
LEMMA FlowPushOne ==
  ASSUME TypeOK, NEW s, Derives(s), work # <<>>, status' = "walking",
         NEW t \in Task, Continue(<<t>>),
         NEW a \in Point, NEW m \in Point, NEW b \in Point, At(s, a)',
         Fits(s, a, t, m), Leads(Steps(s), Point, m, Tail(work), b)
  PROVE  FlowInv(s)'
<1>1. <<a, t, m>> \in Steps(s)
  BY StepsAre
<1>2. Leads(Steps(s), Point, a, <<t>>, m) /\ <<t>> \in Seq(Task)
  BY <1>1, LeadsOne
<1>3. QED
  BY <1>2, FlowPush

\* and for two.
LEMMA FlowPushTwo ==
  ASSUME TypeOK, NEW s, Derives(s), work # <<>>, status' = "walking",
         NEW t \in Task, NEW u \in Task, Continue(<<t, u>>),
         NEW a \in Point, NEW c \in Point, NEW m \in Point, NEW b \in Point, At(s, a)',
         Fits(s, a, t, c), Fits(s, c, u, m), Leads(Steps(s), Point, m, Tail(work), b)
  PROVE  FlowInv(s)'
<1>1. <<a, t, c>> \in Steps(s) /\ <<c, u, m>> \in Steps(s)
  BY StepsAre
<1>2. Leads(Steps(s), Point, a, <<t, u>>, m) /\ <<t, u>> \in Seq(Task)
  BY <1>1, LeadsTwo
<1>3. QED
  BY <1>2, FlowPush

\* Points that differ in the current block only.
LEMMA ToPoint ==
  ASSUME NEW a \in Point, NEW at \in SUBSET Nat
  PROVE  /\ To(a, at) \in Point
         /\ To(a, at).pads = a.pads /\ To(a, at).mode = a.mode /\ To(a, at).at = at
         /\ ModeAt(To(a, at)) = ModeAt(a)
         /\ \A at2 : To(To(a, at), at2) = To(a, at2)
<1>1. To(a, at).pads = a.pads /\ To(a, at).mode = a.mode /\ To(a, at).at = at
  BY DEF To, Points
<1>2. To(a, at) \in Point
  BY DEF To, Points, Point
<1>3. ModeAt(To(a, at)) = ModeAt(a) /\ \A at2 : To(To(a, at), at2) = To(a, at2)
  BY <1>1 DEF ModeAt, To
<1>4. QED
  BY <1>1, <1>2, <1>3

\* curblock is 0 or not.
LEMMA CurSets ==
  /\ \A r : Cur(r) \in SUBSET Nat
  /\ Cur("live") = Nat \ {0} /\ Cur("dead") = {0}
BY DEF Cur

\* The same point, for another current block.
LEMMA AtMoved ==
  ASSUME NEW s, NEW a \in Point, NEW at \in SUBSET Nat, At(s, a),
         UNCHANGED <<padStack, finallyBlock, cachedReturn>>, cur' \in at
  PROVE  At(s, To(a, at))'
<1> DEFINE m == To(a, at)
<1>1. m.pads = a.pads /\ m.mode = a.mode /\ m.at = at
  BY ToPoint
<1> HIDE DEF m
<1>2. At(s, m)'
  BY <1>1 DEF At
<1>3. QED
  BY <1>2 DEF m

\* A point depends on curblock, the pads and the pending return only.
LEMMA AtStays ==
  ASSUME NEW s, NEW a, At(s, a), UNCHANGED <<padStack, finallyBlock, cachedReturn, cur>>
  PROVE  At(s, a)'
BY DEF At

\* What the derivation says of a node that is visited.
LEMMA VisitGives ==
  ASSUME NEW s, Derives(s), NEW n, NEW mode, NEW from, NEW to,
         Visited(s, n, mode, from, to)
  PROVE  VisitRule(s, n, mode, from, to) /\ n \in Node /\ from \in Reach /\ to \in Reach
<1> DEFINE v == [n |-> n, mode |-> mode, from |-> from, to |-> to]
<1>1. v \in s.visits /\ s.visits \in SUBSET [n : Node, mode : Mode, from : Reach, to : Reach]
  BY DEF Visited, Derives, IsDerivation
<1>2. v.n = n /\ v.mode = mode /\ v.from = from /\ v.to = to
  OBVIOUS
<1> HIDE DEF v
<1>3. v \in [n : Node, mode : Mode, from : Reach, to : Reach]
      /\ VisitRule(s, v.n, v.mode, v.from, v.to)
  BY <1>1 DEF Derives
<1>4. v.n \in Node /\ v.from \in Reach /\ v.to \in Reach
  BY <1>3
<1>5. QED
  BY <1>2, <1>3, <1>4

\* What the derivation says of straight-line code.
LEMMA CalmGives ==
  ASSUME NEW s, Derives(s), NEW n, NEW mode, Calm(s, n, mode)
  PROVE  /\ n \in Node
         /\ n.k \in {"block", "exprstmt", "expr"}
         /\ \A i \in DOMAIN n.kids : Calm(s, n.kids[i], mode)
         /\ "pad" \in mode => NoCalls(n)
<1>1. s.calm \in SUBSET Node /\ s.quiet \in SUBSET Node
  BY DEF Derives, IsDerivation
<1>2. CASE "pad" \in mode
  <2>1. n \in s.quiet /\ QuietRule(s, n)
    BY <1>2 DEF Calm, Derives
  <2>2. QED
    BY <1>1, <1>2, <2>1 DEF Calm, QuietRule
<1>3. CASE "pad" \notin mode
  <2>1. n \in s.calm /\ CalmRule(s, n)
    BY <1>3 DEF Calm, Derives
  <2>2. QED
    BY <1>1, <1>3, <2>1 DEF Calm, CalmRule
<1>4. QED
  BY <1>2, <1>3

\* The children of a node, walked one after the other.
LEMMA LeadsChildren ==
  ASSUME NEW s, NEW n \in Node,
         NEW p \in [1..(Len(n.kids) + 1) -> Point],
         \A i \in 1..Len(n.kids) : FitsWalk(s, p[i], n.kids[i], p[i + 1])
  PROVE  Leads(Steps(s), Point, p[1], WalkAll(n.kids), p[Len(n.kids) + 1])
<1> DEFINE c == Len(n.kids)
           w == WalkAll(n.kids)
<1>1. c \in Nat /\ \A i \in 1..c : n.kids[i] \in Node
  BY NodeType
<1>2. Len(w) = c /\ \A i \in 1..c : w[i] = Walk(n.kids[i])
  BY <1>1 DEF WalkAll
<1>3. p \in [1..(c + 1) -> Point] /\ \A i \in 1..c : FitsWalk(s, p[i], n.kids[i], p[i + 1])
  OBVIOUS
<1> HIDE DEF c, w
<1>4. ASSUME NEW i \in 1..c PROVE <<p[i], w[i], p[i + 1]>> \in Steps(s)
  <2>1. p[i] \in Point /\ p[i + 1] \in Point
    BY <1>1, <1>3
  <2>2. Walk(n.kids[i]) \in Task
    BY <1>1, TaskType
  <2>3. Fits(s, p[i], Walk(n.kids[i]), p[i + 1])
    BY <1>3 DEF Fits, Walk, Do
  <2>4. QED
    BY <1>2, <2>1, <2>2, <2>3, StepsAre
<1>5. QED
  BY <1>2, <1>3, <1>4 DEF Leads, c, w

\* What WalkChildren puts on the stack.
LEMMA ChildrenTasks ==
  ASSUME NEW n \in Node
  PROVE  /\ WalkAll(n.kids) \in Seq(Task)
         /\ Do("insts", n, <<1>>) \in Task
<1>1. Len(n.kids) \in Nat /\ \A i \in 1..Len(n.kids) : Walk(n.kids[i]) \in Task
  BY NodeType, TaskType
<1>2. <<1>> \in Seq(Nat) /\ "insts" \in TaskOps
  BY DEF TaskOps
<1>3. Do("insts", n, <<1>>) \in Task
  BY <1>2, TaskType
<1>4. WalkAll(n.kids) \in Seq(Task)
  BY <1>1 DEF WalkAll
<1>5. QED
  BY <1>3, <1>4

\* walk on the nodes that only hold others: their children lead where they do.
LEMMA FlowWalkChildren ==
  ASSUME TypeOK, NEW s, FlowInv(s), WalkChildren PROVE FlowInv(s)'
<1>1. work # <<>> /\ status = "walking" /\ Head(work).op = "walk"
      /\ Head(work).n.k \in {"block", "exprstmt", "expr"} /\ Derives(s)
  BY DEF WalkChildren, Visiting, Running, FlowInv
<1>2. PICK a \in Point, m \in Point, b \in Point :
        At(s, a) /\ Fits(s, a, Head(work), m) /\ Leads(Steps(s), Point, m, Tail(work), b)
  BY <1>1, FlowPop
<1>3. PICK n \in Node : n = TheNode
  BY <1>1, HeadType
<1> DEFINE c == Len(n.kids)
           own == IF n.k = "expr" THEN <<Do("insts", n, <<1>>)>> ELSE <<>>
           all == WalkAll(n.kids)
<1>4. c \in Nat /\ all \in Seq(Task) /\ own \in Seq(Task)
  BY NodeType, ChildrenTasks
<1>5. Continue(all \o own) /\ status' = "walking" /\ n.k \in {"block", "exprstmt", "expr"}
      /\ UNCHANGED <<padStack, finallyBlock, cachedReturn, cur>>
  BY <1>1, <1>3 DEF WalkChildren, TheNode
<1>6. FitsWalk(s, a, n, m)
  BY <1>1, <1>2, <1>3 DEF Fits, TheNode
<1>7. \E z \in Point : /\ At(s, z)'
                       /\ Leads(Steps(s), Point, z, all, m)
                       /\ n.k = "expr" => FitsInsts(m, n, m)
  <2>1. CASE Calm(s, n, ModeAt(a)) /\ m = a
    <3>1. /\ \A i \in 1..c : Calm(s, n.kids[i], ModeAt(a))
          /\ "pad" \in ModeAt(a) => NoCalls(n)
      BY <1>1, <2>1, CalmGives, NodeType
    <3> DEFINE p == [i \in 1..(c + 1) |-> a]
    <3>2. /\ p \in [1..(c + 1) -> Point] /\ p[1] = a /\ p[c + 1] = a
          /\ \A i \in 1..c : p[i] = a /\ p[i + 1] = a
      BY <1>4
    <3> HIDE DEF p
    <3>3. \A i \in 1..c : FitsWalk(s, p[i], n.kids[i], p[i + 1])
      BY <3>1, <3>2 DEF FitsWalk
    <3>4. Leads(Steps(s), Point, a, all, a)
      BY <3>2, <3>3, LeadsChildren
    <3>5. FitsInsts(a, n, a)
      <4>1. a.pads \in Nat
        BY DEF Point
      <4>2. a.pads = 0 \/ "pad" \in ModeAt(a)
        BY <4>1 DEF ModeAt
      <4>3. QED
        BY <3>1, <4>2 DEF FitsInsts
    <3>6. At(s, a)'
      BY <1>2, <1>5, AtStays
    <3>7. QED
      BY <2>1, <3>4, <3>5, <3>6
  <2>2. ASSUME NEW from \in Reach, NEW to \in Reach, Visited(s, n, ModeAt(a), from, to),
               a.at \subseteq Cur(from), m = To(a, Cur(to))
        PROVE  \E z \in Point : /\ At(s, z)'
                                /\ Leads(Steps(s), Point, z, all, m)
                                /\ n.k = "expr" => FitsInsts(m, n, m)
    <3>1. SequenceRule(s, n, ModeAt(a), from, to)
      BY <1>1, <1>5, <2>2, VisitGives DEF VisitRule
    <3>2. PICK reach \in [1..(c + 1) -> Reach] :
            /\ reach[1] = from /\ reach[c + 1] = to
            /\ \A i \in 1..c : Visited(s, n.kids[i], ModeAt(a), reach[i], reach[i + 1])
      <4>1. DOMAIN n.kids = 1..c
        BY NodeType, LenProperties
      <4>2. QED
        BY <3>1, <4>1 DEF SequenceRule
    <3> DEFINE p == [i \in 1..(c + 1) |-> To(a, Cur(reach[i]))]
    <3>3. /\ p \in [1..(c + 1) -> Point]
          /\ \A i \in 1..(c + 1) : p[i] = To(a, Cur(reach[i]))
      BY ToPoint, CurSets
    <3>4. 1 \in 1..(c + 1) /\ c + 1 \in 1..(c + 1)
          /\ \A i \in 1..c : i \in 1..(c + 1) /\ i + 1 \in 1..(c + 1)
      BY <1>4
    <3> HIDE DEF p, c
    <3>5. ASSUME NEW i \in 1..c PROVE FitsWalk(s, p[i], n.kids[i], p[i + 1])
      <4>1. p[i] = To(a, Cur(reach[i])) /\ p[i + 1] = To(a, Cur(reach[i + 1]))
            /\ reach[i] \in Reach /\ reach[i + 1] \in Reach
        BY <3>2, <3>3, <3>4
      <4>2. /\ p[i].at = Cur(reach[i]) /\ ModeAt(p[i]) = ModeAt(a)
            /\ To(p[i], Cur(reach[i + 1])) = p[i + 1]
        BY <4>1, ToPoint, CurSets
      <4>3. Visited(s, n.kids[i], ModeAt(a), reach[i], reach[i + 1])
        BY <3>2
      <4>4. QED
        BY <4>1, <4>2, <4>3 DEF FitsWalk
    <3>6. Leads(Steps(s), Point, p[1], all, p[c + 1])
      BY <3>3, <3>5, LeadsChildren DEF c
    <3>7. p[c + 1] = m /\ p[1] = To(a, Cur(from)) /\ p[1] \in Point
      BY <2>2, <3>2, <3>3, <3>4
    <3>8. At(s, p[1])'
      <4>1. cur' \in Cur(from)
        BY <1>2, <1>5, <2>2 DEF At
      <4>2. QED
        BY <1>2, <1>5, <3>7, <4>1, AtMoved, CurSets
    <3>9. FitsInsts(m, n, m)
      <4>1. m.at = Cur(to) /\ To(m, Cur(to)) = m
        BY <2>2, ToPoint, CurSets
      <4>2. QED
        BY <4>1 DEF FitsInsts
    <3>10. QED
      BY <3>6, <3>7, <3>8, <3>9
  <2>3. QED
    BY <1>6, <2>1, <2>2 DEF FitsWalk
<1>8. PICK z \in Point : /\ At(s, z)'
                         /\ Leads(Steps(s), Point, z, all, m)
                         /\ n.k = "expr" => FitsInsts(m, n, m)
  BY <1>7
<1>9. Leads(Steps(s), Point, m, own, m)
  <2>1. CASE n.k = "expr"
    <3>1. Fits(s, m, Do("insts", n, <<1>>), m)
      BY <1>8, <2>1 DEF Fits, Do
    <3>2. <<m, Do("insts", n, <<1>>), m>> \in Steps(s)
      BY <3>1, ChildrenTasks, StepsAre
    <3>3. QED
      BY <2>1, <3>2, LeadsOne
  <2>2. CASE n.k # "expr"
    BY <2>2, LeadsNone
  <2>3. QED
    BY <2>1, <2>2
<1> HIDE DEF own, all, c
<1>10. Leads(Steps(s), Point, z, all \o own, m) /\ all \o own \in Seq(Task)
  BY <1>4, <1>8, <1>9, LeadsOn, ConcatProperties
<1>11. QED
  BY <1>1, <1>2, <1>5, <1>8, <1>10, FlowPush

\* walkExpr emits an instruction: only an invoke moves to another block.
LEMMA FlowEmitInst ==
  ASSUME TypeOK, NEW s, FlowInv(s), EmitInst PROVE FlowInv(s)'
<1>1. work # <<>> /\ status = "walking" /\ Head(work).op = "insts" /\ Derives(s)
  BY DEF EmitInst, Running, FlowInv
<1>2. PICK a \in Point, m \in Point, b \in Point :
        At(s, a) /\ Fits(s, a, Head(work), m) /\ Leads(Steps(s), Point, m, Tail(work), b)
  BY <1>1, FlowPop
<1>3. PICK n \in Node : n = TheNode
  BY <1>1, HeadType
<1>4. PICK i \in Nat : i = Saved(1)
  BY <1>1, InstsTask
<1>5. /\ n.k = "expr" /\ cur \in Nat /\ Len(blocks) \in Nat /\ Len(n.insts) \in Nat /\ i >= 1
  BY <1>1, <1>3, <1>4, InstsTask, Before, NodeType
<1>6. FitsInsts(a, n, m)
  BY <1>1, <1>2, <1>3 DEF Fits, TheNode
<1>7. status' = "walking" /\ UNCHANGED <<padStack, finallyBlock, cachedReturn>>
  BY <1>1 DEF EmitInst
<1>8. At(s, m)'
  <2>1. CASE (a.pads = 0 \/ NoCalls(n)) /\ m = a
    <3>1. UNCHANGED cur
      <4>1. CASE a.pads = 0
        <5>1. padStack = <<>>
          BY <1>2, <4>1, EmptySeq DEF At, TypeOK
        <5>2. QED
          BY <5>1 DEF EmitInst
      <4>2. CASE NoCalls(n)
        <5>1. DOMAIN n.insts = 1..Len(n.insts)
          BY NodeType, LenProperties
        <5>2. i <= Len(n.insts) => n.insts[i].op # "call"
          BY <1>5, <4>2, <5>1 DEF NoCalls
        <5>3. QED
          BY <1>3, <1>4, <5>2 DEF EmitInst
      <4>3. QED
        BY <2>1, <4>1, <4>2
    <3>2. QED
      BY <1>2, <1>7, <2>1, <3>1, AtStays
  <2>2. ASSUME NEW r \in Reach, a.at \subseteq Cur(r), m = To(a, Cur(r)) PROVE At(s, m)'
    <3>1. cur \in Cur(r)
      BY <1>2, <2>2 DEF At
    <3>2. cur' = cur \/ (cur # 0 /\ cur' = Len(blocks) + 1)
      BY DEF EmitInst
    <3>3. cur' \in Cur(r)
      <4>1. Len(blocks) + 1 \in Nat \ {0}
        BY <1>5
      <4>2. QED
        BY <3>1, <3>2, <4>1 DEF Cur
    <3>4. QED
      BY <1>2, <1>7, <2>2, <3>3, AtMoved, CurSets
  <2>3. QED
    BY <1>6, <2>1, <2>2 DEF FitsInsts
<1>9. CASE i <= Len(n.insts)
  <2>1. Continue(<<Do("insts", n, <<i + 1>>)>>)
    BY <1>3, <1>4, <1>9 DEF EmitInst
  <2>2. Do("insts", n, <<i + 1>>) \in Task
    <3>1. <<i + 1>> \in Seq(Nat) /\ "insts" \in TaskOps
      BY DEF TaskOps
    <3>2. QED
      BY <3>1, TaskType
  <2>3. Fits(s, m, Do("insts", n, <<i + 1>>), m)
    <3>1. FitsInsts(m, n, m)
      <4>1. ASSUME NEW r \in Reach, m = To(a, Cur(r)) PROVE FitsInsts(m, n, m)
        <5>1. m.at = Cur(r) /\ To(m, Cur(r)) = m
          BY <4>1, ToPoint, CurSets
        <5>2. QED
          BY <5>1 DEF FitsInsts
      <4>2. QED
        BY <1>6, <4>1 DEF FitsInsts
    <3>2. QED
      BY <3>1 DEF Fits, Do
  <2>4. QED
    BY <1>1, <1>2, <1>7, <1>8, <2>1, <2>2, <2>3, FlowPushOne
<1>10. CASE ~(i <= Len(n.insts))
  <2>1. Continue(<<>>)
    BY <1>3, <1>4, <1>10 DEF EmitInst
  <2>2. QED
    BY <1>1, <1>2, <1>7, <1>8, <2>1, FlowPushNone
<1>11. QED
  BY <1>9, <1>10

\* A node that is not straight-line code is walked as a visit.
LEMMA NotCalm ==
  ASSUME NEW s, Derives(s), NEW a, NEW b, NEW n, FitsWalk(s, a, n, b),
         n.k \notin {"block", "exprstmt", "expr"}
  PROVE  \E from, to \in Reach :
            /\ VisitRule(s, n, ModeAt(a), from, to)
            /\ a.at \subseteq Cur(from) /\ b = To(a, Cur(to))
<1>1. ~Calm(s, n, ModeAt(a))
  BY CalmGives
<1>2. PICK from \in Reach, to \in Reach :
        Visited(s, n, ModeAt(a), from, to) /\ a.at \subseteq Cur(from) /\ b = To(a, Cur(to))
  BY <1>1 DEF FitsWalk
<1>3. VisitRule(s, n, ModeAt(a), from, to)
  BY <1>2, VisitGives
<1>4. QED
  BY <1>2, <1>3

\* The walk of a node that was visited.
LEMMA WalkFits ==
  ASSUME NEW s, NEW a \in Point, NEW n, NEW from \in Reach, NEW to \in Reach,
         Visited(s, n, ModeAt(a), from, to), a.at \subseteq Cur(from)
  PROVE  Fits(s, a, Walk(n), To(a, Cur(to)))
BY DEF Fits, FitsWalk, Walk, Do

\* Straight-line code leads nowhere.
LEMMA CalmFits ==
  ASSUME NEW s, NEW a \in Point, NEW n, Calm(s, n, ModeAt(a))
  PROVE  Fits(s, a, Walk(n), a)
BY DEF Fits, FitsWalk, Walk, Do

\* The walk of a condition or of a switch value.
LEMMA FlowWalkFirst ==
  ASSUME TypeOK, NEW s, FlowInv(s), work # <<>>, status = "walking", status' = "walking",
         Head(work).op = "walk", NEW n \in Node, n = TheNode,
         NEW op \in {"ifArms", "cases"}, n.k = IF op = "ifArms" THEN "if" ELSE "switch",
         Continue(<<Walk(n.kids[1]), Do(op, n, <<>>)>>),
         UNCHANGED <<padStack, finallyBlock, cachedReturn, cur>>
  PROVE  FlowInv(s)'
<1>1. Derives(s) /\ n.k \in {"if", "switch"}
  BY DEF FlowInv
<1>2. PICK a \in Point, m \in Point, b \in Point :
        At(s, a) /\ Fits(s, a, Head(work), m) /\ Leads(Steps(s), Point, m, Tail(work), b)
  BY FlowPop
<1>3. FitsWalk(s, a, n, m)
  BY <1>2 DEF Fits, TheNode
<1>4. PICK from \in Reach, to \in Reach :
        /\ Visited(s, n, ModeAt(a), from, to) /\ VisitRule(s, n, ModeAt(a), from, to)
        /\ a.at \subseteq Cur(from) /\ m = To(a, Cur(to))
  <2>1. ~Calm(s, n, ModeAt(a))
    BY <1>1, CalmGives
  <2>2. QED
    BY <1>1, <1>3, <2>1, VisitGives DEF FitsWalk
<1>5. /\ Visited(s, n.kids[1], ModeAt(a), from, "live")
      /\ ArmsVisited(s, n, ModeAt(a)) /\ to = "live"
  BY <1>1, <1>4 DEF VisitRule, BranchRule
<1>6. Len(n.kids) >= 1 /\ n.kids[1] \in Node
  <2>1. Len(n.kids) >= 1
    <3>1. n.k = "if" => Len(n.kids) \in {2, 3}
      BY NodeAssumption
    <3>2. n.k = "switch" => Len(n.kids) >= 1
      BY NodeAssumption
    <3>3. QED
      BY <1>1, <3>1, <3>2
  <2>2. QED
    BY <2>1, NodeType
<1> DEFINE z == To(a, Cur("live"))
<1>7. /\ z \in Point /\ z.at = Cur("live") /\ ModeAt(z) = ModeAt(a) /\ m = z
      /\ To(z, Cur("live")) = z
  BY <1>4, <1>5, ToPoint, CurSets
<1>8. Fits(s, a, Walk(n.kids[1]), z)
  BY <1>4, <1>5, WalkFits DEF Reach
<1>9. Walk(n.kids[1]) \in Task /\ Do(op, n, <<>>) \in Task
  <2>1. op \in TaskOps /\ <<>> \in Seq(Nat)
    BY DEF TaskOps
  <2>2. QED
    BY <1>6, <2>1, TaskType
<1>10. Fits(s, z, Do(op, n, <<>>), m)
  <2>1. FitsArms(s, z, n, m)
    BY <1>5, <1>7 DEF FitsArms
  <2>2. op = "cases" /\ SwitchesClose(s) => ArmsClose(s, n, ModeAt(z))
    <3> SUFFICES ASSUME op = "cases", SwitchesClose(s) PROVE ArmsClose(s, n, ModeAt(a))
      BY <1>7
    <3> DEFINE v == [n |-> n, mode |-> ModeAt(a), from |-> from, to |-> to]
    <3>1. v \in s.visits /\ v.n = n /\ v.mode = ModeAt(a) /\ n.k = "switch"
      BY <1>4 DEF Visited
    <3> HIDE DEF v
    <3>2. QED
      BY <3>1 DEF SwitchesClose
  <2> HIDE DEF z
  <2>3. QED
    BY <1>7, <2>1, <2>2 DEF Fits, Do
<1>11. At(s, a)'
  BY <1>2, AtStays
<1> HIDE DEF z
<1>12. QED
  BY <1>1, <1>2, <1>7, <1>8, <1>9, <1>10, <1>11, FlowPushTwo

\* genIf walks the condition first.
LEMMA FlowWalkIf == ASSUME TypeOK, NEW s, FlowInv(s), WalkIf PROVE FlowInv(s)'
<1>1. /\ work # <<>> /\ status = "walking" /\ status' = "walking" /\ Head(work).op = "walk"
      /\ TheNode.k = "if" /\ Continue(<<Walk(TheNode.kids[1]), Do("ifArms", TheNode, <<>>)>>)
      /\ UNCHANGED <<padStack, finallyBlock, cachedReturn, cur>>
  BY DEF WalkIf, Visiting, Running, TheNode
<1>2. PICK n \in Node : n = TheNode
  BY <1>1, HeadType
<1>3. QED
  BY <1>1, <1>2, FlowWalkFirst

\* genSwitch walks the value first.
LEMMA FlowWalkSwitch == ASSUME TypeOK, NEW s, FlowInv(s), WalkSwitch PROVE FlowInv(s)'
<1>1. /\ work # <<>> /\ status = "walking" /\ status' = "walking" /\ Head(work).op = "walk"
      /\ TheNode.k = "switch"
      /\ Continue(<<Walk(TheNode.kids[1]), Do("cases", TheNode, <<>>)>>)
      /\ UNCHANGED <<padStack, finallyBlock, cachedReturn, cur>>
  BY DEF WalkSwitch, Visiting, Running, TheNode
<1>2. PICK n \in Node : n = TheNode
  BY <1>1, HeadType
<1>3. QED
  BY <1>1, <1>2, FlowWalkFirst

\* An arm of an if statement, walked from a new block.
LEMMA LeadsArm ==
  ASSUME NEW s, NEW z \in Point, NEW n \in Node, NEW k \in Node, NEW bb \in Seq(Nat),
         z = To(z, Cur("live")), VisitedAsArm(s, k, ModeAt(z))
  PROVE  /\ Leads(Steps(s), Point, z, <<Walk(k), Do("join", n, bb)>>, z)
         /\ <<Walk(k), Do("join", n, bb)>> \in Seq(Task)
<1>1. z.at = Cur("live")
  BY ToPoint, CurSets
<1>2. PICK to \in Reach : Visited(s, k, ModeAt(z), "live", to)
  BY DEF VisitedAsArm
<1>3. Fits(s, z, Walk(k), To(z, Cur(to)))
  BY <1>1, <1>2, WalkFits DEF Reach
<1>4. To(z, Cur(to)) \in Point /\ To(To(z, Cur(to)), Cur("live")) = z
  BY ToPoint, CurSets
<1>5. Fits(s, To(z, Cur(to)), Do("join", n, bb), z)
  BY <1>4 DEF Fits, Do
<1>6. Walk(k) \in Task /\ Do("join", n, bb) \in Task
  BY TaskType DEF TaskOps
<1>7. /\ <<To(z, Cur(to)), Do("join", n, bb), z>> \in Steps(s)
      /\ <<z, Walk(k), To(z, Cur(to))>> \in Steps(s)
  BY <1>3, <1>4, <1>5, <1>6, StepsAre
<1>8. QED
  BY <1>4, <1>6, <1>7, LeadsTwo

\* genIf has a current block for the conditional branch.
LEMMA FlowIfArms == ASSUME TypeOK, NEW s, FlowInv(s), IfArms PROVE FlowInv(s)'
<1>1. work # <<>> /\ status = "walking" /\ Head(work).op = "ifArms" /\ Derives(s)
  BY DEF IfArms, Running, FlowInv
<1>2. PICK a \in Point, m \in Point, b \in Point :
        At(s, a) /\ Fits(s, a, Head(work), m) /\ Leads(Steps(s), Point, m, Tail(work), b)
  BY <1>1, FlowPop
<1>3. PICK n \in Node : n = TheNode
  BY <1>1, HeadType
<1>4. n.k = "if" /\ Len(n.kids) \in {2, 3} /\ \A i \in 1..Len(n.kids) : n.kids[i] \in Node
  <2>1. n.k = "if"
    BY <1>1, <1>3, HeadType DEF TaskOK, TheNode
  <2>2. Len(n.kids) \in {2, 3}
    BY <2>1, NodeAssumption
  <2>3. QED
    BY <2>1, <2>2, NodeType
<1>5. FitsArms(s, a, n, m) /\ a.at \subseteq Cur("live")
  BY <1>1, <1>2, <1>3 DEF Fits, TheNode
<1>6. cur # 0
  BY <1>2, <1>5, CurSets DEF At
<1>7. m = To(a, Cur("live")) /\ ModeAt(m) = ModeAt(a) /\ m = To(m, Cur("live"))
      /\ \A i \in 2..Len(n.kids) : VisitedAsArm(s, n.kids[i], ModeAt(m))
  BY <1>5, ToPoint, CurSets DEF FitsArms, ArmsVisited
<1> DEFINE ft == Len(blocks) + 2
           else == IF Len(n.kids) = 3 THEN Len(blocks) + 3 ELSE ft
           arm1 == <<Walk(n.kids[2]), Do("join", n, <<ft, else>>)>>
           arm2 == IF Len(n.kids) = 3 THEN <<Walk(n.kids[3]), Do("join", n, <<ft, ft>>)>>
                   ELSE <<>>
<1>8. Continue(arm1 \o arm2) /\ status' = "walking" /\ cur' = Len(blocks) + 1
      /\ UNCHANGED <<padStack, finallyBlock, cachedReturn>>
  BY <1>1, <1>3, <1>6 DEF IfArms
<1>9. Len(blocks) \in Nat
  BY <1>1, HeadType
<1>10. Leads(Steps(s), Point, m, arm1, m) /\ arm1 \in Seq(Task)
  <2>1. <<ft, else>> \in Seq(Nat)
    BY <1>9
  <2>2. n.kids[2] \in Node /\ VisitedAsArm(s, n.kids[2], ModeAt(m))
    BY <1>4, <1>7
  <2> HIDE DEF ft, else
  <2>3. QED
    BY <1>7, <2>1, <2>2, LeadsArm
<1>11. Leads(Steps(s), Point, m, arm2, m) /\ arm2 \in Seq(Task)
  <2>1. CASE Len(n.kids) = 3
    <3>1. <<ft, ft>> \in Seq(Nat)
      BY <1>9
    <3>2. n.kids[3] \in Node /\ VisitedAsArm(s, n.kids[3], ModeAt(m))
      BY <1>4, <1>7, <2>1
    <3> HIDE DEF ft, else
    <3>3. QED
      BY <1>7, <2>1, <3>1, <3>2, LeadsArm
  <2>2. CASE Len(n.kids) # 3
    BY <2>2, LeadsNone
  <2>3. QED
    BY <2>1, <2>2
<1> HIDE DEF arm1, arm2
<1>12. Leads(Steps(s), Point, m, arm1 \o arm2, m) /\ arm1 \o arm2 \in Seq(Task)
  BY <1>10, <1>11, LeadsOn, ConcatProperties
<1>13. At(s, m)'
  <2>1. cur' \in Cur("live")
    BY <1>8, <1>9, CurSets
  <2>2. QED
    BY <1>2, <1>7, <1>8, <2>1, AtMoved, CurSets
<1>14. QED
  BY <1>1, <1>2, <1>8, <1>12, <1>13, FlowPush

\* genIf goes on in the block it created.
LEMMA FlowJoinArm == ASSUME TypeOK, NEW s, FlowInv(s), JoinArm PROVE FlowInv(s)'
<1>1. work # <<>> /\ status = "walking" /\ Head(work).op = "join" /\ Derives(s)
  BY DEF JoinArm, Running, FlowInv
<1>2. PICK a \in Point, m \in Point, b \in Point :
        At(s, a) /\ Fits(s, a, Head(work), m) /\ Leads(Steps(s), Point, m, Tail(work), b)
  BY <1>1, FlowPop
<1>3. Continue(<<>>) /\ status' = "walking" /\ cur' = Saved(2)
      /\ UNCHANGED <<padStack, finallyBlock, cachedReturn>>
  BY <1>1 DEF JoinArm
<1>4. Saved(2) \in Nat \ {0}
  <2>1. Len(blocks) \in Nat /\ Saved(2) \in 1..Len(blocks)
    BY <1>1, HeadType DEF TaskOK, Saved
  <2>2. QED
    BY <2>1
<1>5. m = To(a, Cur("live"))
  BY <1>1, <1>2 DEF Fits
<1>6. At(s, m)'
  BY <1>2, <1>3, <1>4, <1>5, AtMoved, CurSets
<1>7. QED
  BY <1>1, <1>2, <1>3, <1>6, FlowPushNone

\* genSwitch keeps the current block for the switch instruction.
LEMMA FlowSwitchBlocks == ASSUME TypeOK, NEW s, FlowInv(s), SwitchBlocks PROVE FlowInv(s)'
<1>1. work # <<>> /\ status = "walking" /\ Head(work).op = "cases" /\ Derives(s)
  BY DEF SwitchBlocks, Running, FlowInv
<1>2. PICK a \in Point, m \in Point, b \in Point :
        At(s, a) /\ Fits(s, a, Head(work), m) /\ Leads(Steps(s), Point, m, Tail(work), b)
  BY <1>1, FlowPop
<1>3. PICK n \in Node : n = TheNode
  BY <1>1, HeadType
<1> DEFINE t == Do("case", n, <<1, cur, Len(blocks)>>)
<1>4. Continue(<<t>>) /\ status' = "walking"
      /\ UNCHANGED <<padStack, finallyBlock, cachedReturn, cur>>
  BY <1>1, <1>3 DEF SwitchBlocks
<1>5. /\ FitsArms(s, a, n, m) /\ a.at \subseteq Cur("live")
      /\ SwitchesClose(s) => ArmsClose(s, n, ModeAt(a))
  BY <1>1, <1>2, <1>3 DEF Fits, TheNode
<1>6. cur \in Nat \ {0} /\ cur \in a.at /\ Len(blocks) \in Nat
  BY <1>1, <1>2, <1>5, CurSets, HeadType DEF At
<1>7. t \in Task
  <2>1. <<1, cur, Len(blocks)>> \in Seq(Nat) /\ "case" \in TaskOps
    BY <1>6 DEF TaskOps
  <2>2. QED
    BY <2>1, TaskType
<1>8. PICK c \in Nat : c = cur
  BY <1>6
<1> DEFINE z == To(a, {c})
<1>9. /\ z \in Point /\ z.at = {c} /\ ModeAt(z) = ModeAt(a)
      /\ To(z, Cur("live")) = To(a, Cur("live"))
  BY ToPoint, CurSets
<1>10. Fits(s, z, t, m)
  <2>1. t.op = "case" /\ t.n = n /\ t.bb[1] = 1 /\ t.bb[2] = c
    BY <1>8 DEF Do
  <2> HIDE DEF t, z
  <2>2. FitsArms(s, z, n, m)
    BY <1>5, <1>9 DEF FitsArms
  <2>3. FitsCase(s, z, t, m)
    BY <1>5, <1>6, <1>8, <1>9, <2>1, <2>2 DEF FitsCase
  <2>4. QED
    BY <2>1, <2>3 DEF Fits
<1>11. At(s, z)'
  BY <1>2, <1>4, <1>8, AtMoved
<1> HIDE DEF t, z
<1>12. QED
  BY <1>1, <1>2, <1>4, <1>7, <1>9, <1>10, <1>11, FlowPushOne

\* genSwitch walks a case from its own block.
LEMMA FlowSwitchCase == ASSUME TypeOK, NEW s, FlowInv(s), SwitchCase PROVE FlowInv(s)'
<1>1. work # <<>> /\ status = "walking" /\ Head(work).op = "case" /\ Derives(s)
  BY DEF SwitchCase, Running, FlowInv
<1>2. PICK a \in Point, m \in Point, b \in Point :
        At(s, a) /\ Fits(s, a, Head(work), m) /\ Leads(Steps(s), Point, m, Tail(work), b)
  BY <1>1, FlowPop
<1>3. PICK n \in Node : n = TheNode
  BY <1>1, HeadType
<1>4. /\ Len(n.kids) \in Nat /\ \A i \in 1..Len(n.kids) : n.kids[i] \in Node
  BY NodeType
<1>5. PICK i \in Nat, c \in Nat, base \in Nat :
        i = Saved(1) /\ c = Saved(2) /\ base = Saved(3) /\ i >= 1
  BY <1>1, CaseTask
<1>6. i + 1 \in 2..Len(n.kids)
  BY <1>3, <1>4, <1>5 DEF SwitchCase, NumCases
<1> DEFINE k == n.kids[i + 1]
           t == Do("case", n, <<i + 1, c, base>>)
<1>7. Continue(<<Walk(k), t>>) /\ status' = "walking" /\ cur' = base + i
      /\ UNCHANGED <<padStack, finallyBlock, cachedReturn>>
  BY <1>1, <1>3, <1>5 DEF SwitchCase
<1>8. FitsCase(s, a, Head(work), m)
  BY <1>1, <1>2 DEF Fits
<1>9. /\ ArmsVisited(s, n, ModeAt(a)) /\ m = To(a, Cur("live")) /\ c # 0
      /\ SwitchesClose(s) => ArmsClose(s, n, ModeAt(a))
  BY <1>3, <1>5, <1>8 DEF FitsCase, FitsArms, TheNode, Saved
<1>10. Walk(k) \in Task /\ t \in Task
  <2>1. <<i + 1, c, base>> \in Seq(Nat) /\ "case" \in TaskOps
    BY DEF TaskOps
  <2>2. k \in Node
    BY <1>4, <1>6
  <2>3. QED
    BY <2>1, <2>2, TaskType
<1>11. ASSUME NEW z \in Point, z.at \subseteq Nat, ModeAt(z) = ModeAt(a), To(z, Cur("live")) = m,
              SwitchesClose(s) => z.at \subseteq {0, base + i}
       PROVE  Fits(s, z, t, m)
  <2>1. /\ t.op = "case" /\ t.n = n /\ t.bb[1] = i + 1 /\ t.bb[2] = c /\ t.bb[3] = base
        /\ i + 1 # 1 /\ base + (i + 1) - 1 = base + i
    BY <1>5 DEF Do
  <2> HIDE DEF t
  <2>2. FitsCase(s, z, t, m)
    BY <1>9, <1>11, <2>1 DEF FitsCase, FitsArms
  <2>3. QED
    BY <2>1, <2>2 DEF Fits
<1>12. base + i \in Nat \ {0}
  BY <1>5
<1> HIDE DEF t
<1>13. CASE SwitchesClose(s) /\ Calm(s, k, ModeAt(a))
  <2> DEFINE z == To(a, {base + i})
  <2>1. /\ z \in Point /\ z.at = {base + i} /\ ModeAt(z) = ModeAt(a)
        /\ To(z, Cur("live")) = m
    BY <1>9, <1>12, ToPoint, CurSets
  <2>2. At(s, z)'
    BY <1>2, <1>7, <1>12, AtMoved
  <2> HIDE DEF z
  <2>3. Fits(s, z, Walk(k), z)
    BY <1>13, <2>1, CalmFits
  <2>4. Fits(s, z, t, m)
    BY <1>11, <1>12, <2>1
  <2> HIDE DEF k
  <2>5. QED
    BY <1>1, <1>2, <1>7, <1>10, <2>1, <2>2, <2>3, <2>4, FlowPushTwo
<1>14. CASE ~(SwitchesClose(s) /\ Calm(s, k, ModeAt(a)))
  <2>1. PICK to \in Reach : /\ Visited(s, k, ModeAt(a), "live", to)
                            /\ SwitchesClose(s) => to = "dead"
    BY <1>6, <1>9, <1>14 DEF ArmsVisited, ArmsClose, VisitedAsArm, Reach
  <2> DEFINE z == To(a, Cur("live"))
             y == To(z, Cur(to))
  <2>2. /\ z \in Point /\ z.at = Cur("live") /\ ModeAt(z) = ModeAt(a)
    BY ToPoint, CurSets
  <2>3. y \in Point /\ y.at = Cur(to) /\ ModeAt(y) = ModeAt(a) /\ To(y, Cur("live")) = m
    BY <1>9, <2>2, ToPoint, CurSets
  <2>4. At(s, z)'
    BY <1>2, <1>7, <1>12, AtMoved, CurSets
  <2>5. Fits(s, z, Walk(k), y)
    BY <2>1, <2>2, WalkFits DEF Reach
  <2> HIDE DEF z, y
  <2>6. Fits(s, y, t, m)
    BY <1>11, <2>1, <2>3, CurSets
  <2> HIDE DEF k
  <2>7. QED
    BY <1>1, <1>2, <1>7, <1>10, <2>2, <2>3, <2>4, <2>5, <2>6, FlowPushTwo
<1>15. QED
  BY <1>13, <1>14

\* genSwitch has the block for the switch instruction.
LEMMA FlowSwitchEnd == ASSUME TypeOK, NEW s, FlowInv(s), SwitchEnd PROVE FlowInv(s)'
<1>1. work # <<>> /\ status = "walking" /\ Head(work).op = "case" /\ Derives(s)
  BY DEF SwitchEnd, Running, FlowInv
<1>2. PICK a \in Point, m \in Point, b \in Point :
        At(s, a) /\ Fits(s, a, Head(work), m) /\ Leads(Steps(s), Point, m, Tail(work), b)
  BY <1>1, FlowPop
<1>3. FitsCase(s, a, Head(work), m)
  BY <1>1, <1>2 DEF Fits
<1>4. m = To(a, Cur("live")) /\ Saved(2) # 0
  BY <1>3 DEF FitsCase, FitsArms, Saved
<1>5. Continue(<<>>) /\ status' = "walking" /\ cur' = EpilogBlock(TheNode, Saved(3))
      /\ UNCHANGED <<padStack, finallyBlock, cachedReturn>>
  BY <1>1, <1>4 DEF SwitchEnd
<1>6. cur' \in Nat \ {0}
  <2>1. Saved(3) \in Nat /\ Len(TheNode.kids) \in Nat /\ Len(TheNode.kids) >= 1
    <3>1. TheNode.k = "switch" /\ TheNode \in Node /\ Saved(3) \in Nat
      BY <1>1, CaseTask, HeadType DEF TaskOK, TheNode
    <3>2. Len(TheNode.kids) >= 1 /\ Len(TheNode.kids) \in Nat
      BY <3>1, NodeAssumption, NodeType
    <3>3. QED
      BY <3>1, <3>2
  <2>2. QED
    BY <1>5, <2>1 DEF EpilogBlock, NumCases
<1>7. At(s, m)'
  BY <1>2, <1>4, <1>5, <1>6, AtMoved, CurSets
<1>8. QED
  BY <1>1, <1>2, <1>5, <1>7, FlowPushNone

\* The visit behind the walk of a node that is not straight-line code.
LEMMA FlowVisit ==
  ASSUME TypeOK, NEW s, FlowInv(s), NEW kind, kind \notin {"block", "exprstmt", "expr"},
         Visiting({kind})
  PROVE  /\ work # <<>> /\ status = "walking" /\ Derives(s)
         /\ TheNode \in Node /\ TheNode.k = kind
         /\ \E a, b \in Point : \E from, to \in Reach :
              /\ At(s, a) /\ VisitRule(s, TheNode, ModeAt(a), from, to)
              /\ a.at \subseteq Cur(from)
              /\ Leads(Steps(s), Point, To(a, Cur(to)), Tail(work), b)
<1>1. work # <<>> /\ status = "walking" /\ Head(work).op = "walk" /\ Derives(s)
      /\ TheNode.k = kind
  BY DEF Visiting, Running, FlowInv, TheNode
<1>2. PICK a \in Point, m \in Point, b \in Point :
        At(s, a) /\ Fits(s, a, Head(work), m) /\ Leads(Steps(s), Point, m, Tail(work), b)
  BY <1>1, FlowPop
<1>3. TheNode \in Node
  BY <1>1, HeadType
<1>4. FitsWalk(s, a, TheNode, m)
  BY <1>1, <1>2 DEF Fits, TheNode
<1>5. PICK from \in Reach, to \in Reach :
        /\ VisitRule(s, TheNode, ModeAt(a), from, to)
        /\ a.at \subseteq Cur(from) /\ m = To(a, Cur(to))
  BY <1>1, <1>4, NotCalm
<1>6. QED
  BY <1>1, <1>2, <1>3, <1>5

\* Points with a mode of their own.
LEMMA PointsAre ==
  ASSUME NEW pads \in Nat, NEW mode \in {{}, {"owed"}, {"finally", "owed"}},
         NEW at \in SUBSET Nat
  PROVE  /\ Points(pads, mode, at) \in Point
         /\ Points(pads, mode, at).pads = pads
         /\ Points(pads, mode, at).mode = mode
         /\ Points(pads, mode, at).at = at
         /\ \A at2 : To(Points(pads, mode, at), at2) = Points(pads, mode, at2)
         /\ ModeAt(Points(pads, mode, at)) = mode \cup (IF pads > 0 THEN {"pad"} ELSE {})
<1>1. /\ Points(pads, mode, at).pads = pads
      /\ Points(pads, mode, at).mode = mode
      /\ Points(pads, mode, at).at = at
  BY DEF Points
<1>2. Points(pads, mode, at) \in Point
  BY DEF Points, Point
<1>3. QED
  BY <1>1, <1>2 DEF To, ModeAt

\* genReturn has a current block to leave for the finally clause.
LEMMA FlowReturnToFinally ==
  ASSUME TypeOK, NEW s, FlowInv(s), ReturnToFinally PROVE FlowInv(s)'
<1>1. Visiting({"return"}) /\ finallyBlock # 0
  BY DEF ReturnToFinally
<1>2. /\ work # <<>> /\ status = "walking" /\ Derives(s)
      /\ TheNode \in Node /\ TheNode.k = "return"
  BY <1>1, FlowVisit
<1>3. PICK a \in Point, b \in Point, from \in Reach, to \in Reach :
        /\ At(s, a) /\ VisitRule(s, TheNode, ModeAt(a), from, to)
        /\ a.at \subseteq Cur(from)
        /\ Leads(Steps(s), Point, To(a, Cur(to)), Tail(work), b)
  BY <1>1, FlowVisit
<1>4. "finally" \in a.mode /\ "owed" \in a.mode /\ "finally" \in ModeAt(a)
  BY <1>1, <1>3 DEF At, Point, ModeAt
<1>5. from = "live" /\ to = "dead" /\ TheNode.kids[1] \in s.calm
  BY <1>2, <1>3, <1>4 DEF VisitRule, ReturnRule, Calm
<1>6. cur # 0
  BY <1>3, <1>5, CurSets DEF At
<1>7. /\ Continue(<<>>) /\ status' = "walking" /\ cur' = 0
      /\ UNCHANGED <<padStack, finallyBlock>>
      /\ cachedReturn' \in {cachedReturn, TheNode}
  BY <1>2, <1>6 DEF ReturnToFinally
<1> DEFINE m == To(a, Cur("dead"))
<1>8. m \in Point /\ m.pads = a.pads /\ m.mode = a.mode /\ m.at = {0}
  BY ToPoint, CurSets
<1> HIDE DEF m
<1>9. At(s, m)'
  BY <1>3, <1>4, <1>5, <1>7, <1>8 DEF At
<1>10. Leads(Steps(s), Point, m, Tail(work), b)
  BY <1>3, <1>5 DEF m
<1>11. QED
  BY <1>2, <1>7, <1>8, <1>9, <1>10, FlowPushNone

\* genReturn walks straight-line code.
LEMMA FlowWalkReturn ==
  ASSUME TypeOK, NEW s, FlowInv(s), WalkReturn PROVE FlowInv(s)'
<1>1. Visiting({"return"}) /\ finallyBlock = 0
  BY DEF WalkReturn
<1>2. /\ work # <<>> /\ status = "walking" /\ Derives(s)
      /\ TheNode \in Node /\ TheNode.k = "return"
  BY <1>1, FlowVisit
<1>3. PICK a \in Point, b \in Point, from \in Reach, to \in Reach :
        /\ At(s, a) /\ VisitRule(s, TheNode, ModeAt(a), from, to)
        /\ a.at \subseteq Cur(from)
        /\ Leads(Steps(s), Point, To(a, Cur(to)), Tail(work), b)
  BY <1>1, FlowVisit
<1>4. PICK n \in Node : n = TheNode
  BY <1>2
<1>5. PICK c \in Nat : c = cur
  BY DEF TypeOK
<1>6. "finally" \notin ModeAt(a)
  BY <1>1, <1>3 DEF At, ModeAt
<1>7. to = "dead" /\ Calm(s, n.kids[1], ModeAt(a))
  BY <1>2, <1>3, <1>4, <1>6 DEF VisitRule, ReturnRule
<1> DEFINE z == To(a, {c})
           m == To(a, Cur("dead"))
           k == n.kids[1]
           t == Do("returnEnd", n, <<c>>)
<1>8. Continue(<<Walk(k), t>>) /\ status' = "walking"
      /\ UNCHANGED <<padStack, finallyBlock, cachedReturn, cur>>
  BY <1>2, <1>4, <1>5 DEF WalkReturn
<1>9. /\ z \in Point /\ m \in Point /\ ModeAt(z) = ModeAt(a) /\ z.at = {c}
      /\ To(z, Cur("dead")) = m
  BY ToPoint, CurSets
<1>10. Walk(k) \in Task /\ t \in Task
  <2>1. <<c>> \in Seq(Nat) /\ "returnEnd" \in TaskOps
    BY DEF TaskOps
  <2>2. k \in Node
    BY <1>7, <1>2, CalmGives
  <2>3. QED
    BY <2>1, <2>2, TaskType
<1>11. At(s, z)'
  BY <1>3, <1>5, <1>8, AtMoved
<1>12. Leads(Steps(s), Point, m, Tail(work), b)
  BY <1>3, <1>7
<1>13. t.op = "returnEnd" /\ t.bb[1] = c
  BY DEF Do
<1> HIDE DEF z, m, t
<1>14. Fits(s, z, Walk(k), z)
  BY <1>7, <1>9, CalmFits
<1>15. Fits(s, z, t, m)
  BY <1>9, <1>13 DEF Fits
<1> HIDE DEF k
<1>16. QED
  BY <1>2, <1>8, <1>9, <1>10, <1>11, <1>12, <1>14, <1>15, FlowPushTwo

\* genReturn ends in the block it started in.
LEMMA FlowReturnEnd ==
  ASSUME TypeOK, NEW s, FlowInv(s), ReturnEnd PROVE FlowInv(s)'
<1>1. work # <<>> /\ status = "walking" /\ Head(work).op = "returnEnd" /\ Derives(s)
  BY DEF ReturnEnd, Running, FlowInv
<1>2. PICK a \in Point, m \in Point, b \in Point :
        At(s, a) /\ Fits(s, a, Head(work), m) /\ Leads(Steps(s), Point, m, Tail(work), b)
  BY <1>1, FlowPop
<1>3. a.at \subseteq {Saved(1)} /\ m = To(a, Cur("dead"))
  BY <1>1, <1>2 DEF Fits, Saved
<1>4. cur = Saved(1)
  BY <1>2, <1>3 DEF At
<1>5. Continue(<<>>) /\ status' = "walking" /\ cur' = 0
      /\ UNCHANGED <<padStack, finallyBlock, cachedReturn>>
  BY <1>1, <1>4 DEF ReturnEnd
<1>6. At(s, m)'
  BY <1>2, <1>3, <1>5, AtMoved, CurSets
<1>7. QED
  BY <1>1, <1>2, <1>5, <1>6, FlowPushNone

\* Behind a goto there is no current block.
LEMMA FlowWalkGoto ==
  ASSUME TypeOK, NEW s, FlowInv(s), WalkGoto PROVE FlowInv(s)'
<1>1. Visiting({"goto"})
  BY DEF WalkGoto
<1>2. /\ work # <<>> /\ status = "walking" /\ Derives(s)
      /\ TheNode \in Node /\ TheNode.k = "goto"
  BY <1>1, FlowVisit
<1>3. PICK a \in Point, b \in Point, from \in Reach, to \in Reach :
        /\ At(s, a) /\ VisitRule(s, TheNode, ModeAt(a), from, to)
        /\ a.at \subseteq Cur(from)
        /\ Leads(Steps(s), Point, To(a, Cur(to)), Tail(work), b)
  BY <1>1, FlowVisit
<1>4. to = "dead"
  BY <1>2, <1>3 DEF VisitRule
<1>5. Continue(<<>>) /\ status' = "walking" /\ cur' = 0
      /\ UNCHANGED <<padStack, finallyBlock, cachedReturn>>
  BY <1>2 DEF WalkGoto
<1>6. At(s, To(a, Cur("dead")))'
  BY <1>3, <1>5, AtMoved, CurSets
<1>7. To(a, Cur("dead")) \in Point
  BY ToPoint, CurSets
<1>8. QED
  BY <1>2, <1>3, <1>4, <1>5, <1>6, <1>7, FlowPushNone

\* Behind a label there is one.
LEMMA FlowWalkLabel ==
  ASSUME TypeOK, NEW s, FlowInv(s), WalkLabel PROVE FlowInv(s)'
<1>1. Visiting({"label"})
  BY DEF WalkLabel
<1>2. /\ work # <<>> /\ status = "walking" /\ Derives(s)
      /\ TheNode \in Node /\ TheNode.k = "label"
  BY <1>1, FlowVisit
<1>3. PICK a \in Point, b \in Point, from \in Reach, to \in Reach :
        /\ At(s, a) /\ VisitRule(s, TheNode, ModeAt(a), from, to)
        /\ a.at \subseteq Cur(from)
        /\ Leads(Steps(s), Point, To(a, Cur(to)), Tail(work), b)
  BY <1>1, FlowVisit
<1>4. to = "live"
  BY <1>2, <1>3 DEF VisitRule
<1>5. Continue(<<>>) /\ status' = "walking" /\ cur' = BlockForLabel(TheNode.arg)
      /\ UNCHANGED <<padStack, finallyBlock, cachedReturn>>
  BY <1>2 DEF WalkLabel
<1>6. cur' \in Nat \ {0}
  <2>1. TheNode.arg \in Label
    BY <1>2, NodeAssumption
  <2>2. labelmap[TheNode.arg] \in Nat /\ Len(blocks) \in Nat
    BY <1>2, <2>1, HeadType DEF TypeOK
  <2>3. QED
    BY <1>5, <2>2 DEF BlockForLabel
<1>7. At(s, To(a, Cur("live")))'
  BY <1>3, <1>5, <1>6, AtMoved, CurSets
<1>8. To(a, Cur("live")) \in Point
  BY ToPoint, CurSets
<1>9. QED
  BY <1>2, <1>3, <1>4, <1>5, <1>7, <1>8, FlowPushNone

\* function_set_body returns.
LEMMA FlowFinish ==
  ASSUME TypeOK, NEW s, FlowInv(s), Finish PROVE FlowInv(s)'
BY DEF FlowInv, Finish

\* genDefer walks the undefer call with a pad on the stack.
LEMMA FlowWalkDefer ==
  ASSUME TypeOK, NEW s, FlowInv(s), WalkDefer PROVE FlowInv(s)'
<1>1. Visiting({"defer"})
  BY DEF WalkDefer
<1>2. /\ work # <<>> /\ status = "walking" /\ Derives(s)
      /\ TheNode \in Node /\ TheNode.k = "defer"
  BY <1>1, FlowVisit
<1>3. PICK a \in Point, b \in Point, from \in Reach, to \in Reach :
        /\ At(s, a) /\ VisitRule(s, TheNode, ModeAt(a), from, to)
        /\ a.at \subseteq Cur(from)
        /\ Leads(Steps(s), Point, To(a, Cur(to)), Tail(work), b)
  BY <1>1, FlowVisit
<1>4. PICK n \in Node : n = TheNode
  BY <1>2
<1>5. PICK fin \in Nat : fin = Len(blocks) + 1
  BY <1>2, HeadType
<1>6. /\ Visited(s, n.kids[1], ModeAt(a) \cup {"pad"}, "live", to)
      /\ Calm(s, n.kids[2], ModeAt(a))
  BY <1>2, <1>3, <1>4 DEF VisitRule, DeferRule
<1> DEFINE pad == Len(blocks) + 2
           catch == Len(blocks) + 3
           k == n.kids[1]
           t == Do("deferCatch", n, <<fin, pad, catch>>)
           z == Points(a.pads + 1, a.mode, Cur("live"))
           y == To(z, Cur(to))
           m == To(a, Cur(to))
<1>7. /\ Continue(<<Walk(k), t>>) /\ status' = "walking" /\ cur' = fin
      /\ padStack' = Append(padStack, pad)
      /\ UNCHANGED <<finallyBlock, cachedReturn>>
  BY <1>2, <1>4, <1>5 DEF WalkDefer
<1>8. a.pads \in Nat /\ a.mode \in {{}, {"owed"}, {"finally", "owed"}}
  BY DEF Point
<1>9. /\ z \in Point /\ z.pads = a.pads + 1 /\ z.mode = a.mode /\ z.at = Cur("live")
      /\ ModeAt(z) = ModeAt(a) \cup {"pad"}
  <2>1. a.pads + 1 \in Nat /\ a.pads + 1 > 0 /\ Cur("live") \in SUBSET Nat
    BY <1>8, CurSets
  <2>2. /\ z \in Point /\ z.pads = a.pads + 1 /\ z.mode = a.mode /\ z.at = Cur("live")
        /\ ModeAt(z) = a.mode \cup {"pad"}
    <3>1. PICK p \in Nat, mode \in {{}, {"owed"}, {"finally", "owed"}}, at \in SUBSET Nat :
            p = a.pads + 1 /\ p > 0 /\ mode = a.mode /\ at = Cur("live")
      BY <1>8, <2>1
    <3>2. z = Points(p, mode, at)
      BY <3>1
    <3> HIDE DEF z
    <3>3. /\ z \in Point /\ z.pads = p /\ z.mode = mode /\ z.at = at
      BY <3>1, <3>2 DEF Points, Point
    <3>4. ModeAt(z) = mode \cup {"pad"}
      BY <3>1, <3>3 DEF ModeAt
    <3>5. QED
      BY <3>1, <3>3, <3>4
  <2>3. a.mode \cup {"pad"} = ModeAt(a) \cup {"pad"}
    BY DEF ModeAt
  <2>4. QED
    BY <2>2, <2>3
<1>10. y \in Point /\ y.pads = a.pads + 1 /\ y.mode = a.mode /\ y.at = Cur(to)
  BY <1>9, ToPoint, CurSets
<1>11. m \in Point /\ ModeAt(m) = ModeAt(a) /\ m = Points(y.pads - 1, y.mode, Cur(to))
  <2>1. (a.pads + 1) - 1 = a.pads
    BY <1>8
  <2>2. QED
    BY <1>10, <2>1, ToPoint, CurSets DEF To
<1>12. Walk(k) \in Task /\ t \in Task
  <2>1. <<fin, pad, catch>> \in Seq(Nat) /\ "deferCatch" \in TaskOps
    BY <1>5 DEF TaskOps
  <2>2. k \in Node
    BY <1>2, <1>6, VisitGives
  <2>3. QED
    BY <2>1, <2>2, TaskType
<1>13. At(s, z)'
  <2>1. Len(padStack') = a.pads + 1
    BY <1>3, <1>7, AppendProperties DEF At, TypeOK
  <2>2. cur' \in Cur("live")
    BY <1>2, <1>5, <1>7, CurSets, HeadType
  <2> HIDE DEF z
  <2>3. QED
    BY <1>3, <1>7, <1>9, <2>1, <2>2 DEF At
<1>14. t.op = "deferCatch" /\ t.n = n
  BY DEF Do
<1>15. Fits(s, z, Walk(k), y)
  BY <1>6, <1>9, WalkFits DEF Reach
<1>16. Leads(Steps(s), Point, m, Tail(work), b)
  BY <1>3
<1> HIDE DEF t, z, y, m
<1>17. Fits(s, y, t, m)
  <2>1. y.pads >= 1
    BY <1>8, <1>10
  <2>2. QED
    BY <1>6, <1>10, <1>11, <1>14, <2>1 DEF Fits
<1> HIDE DEF k
<1>18. QED
  BY <1>2, <1>7, <1>9, <1>10, <1>11, <1>12, <1>13, <1>15, <1>16, <1>17, FlowPushTwo

\* The length of the pad stack without its top.
LEMMA PopPadLen ==
  ASSUME TypeOK, Len(padStack) >= 1
  PROVE  Len(PopPad) = Len(padStack) - 1
<1> DEFINE n == Len(padStack)
<1>1. n \in Nat /\ padStack \in Seq(BlockIds)
  BY LenProperties DEF TypeOK
<1> HIDE DEF n
<1>2. n - 1 \in Nat /\ \A i \in 1..(n - 1) : i \in 1..n
  BY <1>1 DEF n
<1>3. \A i \in 1..(n - 1) : padStack[i] \in BlockIds
  BY <1>1, <1>2, ElementOfSeq DEF n
<1>4. Len(SubSeq(padStack, 1, n - 1)) = n - 1
  BY <1>1, <1>2, <1>3, SubSeqProperties
<1>5. QED
  BY <1>4 DEF PopPad, n

\* genDefer takes its pad off the stack and walks the defer call.
LEMMA FlowDeferCatch ==
  ASSUME TypeOK, NEW s, FlowInv(s), DeferCatch PROVE FlowInv(s)'
<1>1. work # <<>> /\ status = "walking" /\ Head(work).op = "deferCatch" /\ Derives(s)
  BY DEF DeferCatch, Running, FlowInv
<1>2. PICK a \in Point, m \in Point, b \in Point :
        At(s, a) /\ Fits(s, a, Head(work), m) /\ Leads(Steps(s), Point, m, Tail(work), b)
  BY <1>1, FlowPop
<1>3. PICK n \in Node : n = TheNode
  BY <1>1, HeadType
<1>4. PICK r \in Reach :
        /\ a.at \subseteq Cur(r)
        /\ a.pads >= 1 /\ m = Points(a.pads - 1, a.mode, Cur(r))
        /\ Calm(s, n.kids[2], ModeAt(m))
  BY <1>1, <1>2, <1>3 DEF Fits, TheNode
<1>5. PICK fin \in Nat, catch \in Nat, c \in Nat :
        fin = Saved(1) /\ catch = Saved(3) /\ c = cur
  BY <1>1, HeadType DEF TaskOK, Saved, TypeOK
<1> DEFINE k == n.kids[2]
           t == Do("deferEnd", n, <<fin, catch, c>>)
           z == To(m, {catch})
<1>6. /\ Continue(<<Walk(k), t>>) /\ status' = "walking" /\ cur' = catch
      /\ padStack' = PopPad /\ UNCHANGED <<finallyBlock, cachedReturn>>
  BY <1>1, <1>3, <1>5 DEF DeferCatch
<1>7. a.pads \in Nat /\ a.mode \in {{}, {"owed"}, {"finally", "owed"}}
  BY DEF Point
<1>8. m.pads = a.pads - 1 /\ m.mode = a.mode /\ To(m, Cur(r)) = m
  BY <1>4 DEF To, Points
<1>9. /\ z \in Point /\ z.at = {catch} /\ z.pads = m.pads /\ z.mode = m.mode
      /\ ModeAt(z) = ModeAt(m) /\ To(z, Cur(r)) = m
  BY <1>8, ToPoint, CurSets
<1>10. Walk(k) \in Task /\ t \in Task
  <2>1. <<fin, catch, c>> \in Seq(Nat) /\ "deferEnd" \in TaskOps
    BY DEF TaskOps
  <2>2. k \in Node
    BY <1>1, <1>4, CalmGives
  <2>3. QED
    BY <2>1, <2>2, TaskType
<1>11. At(s, z)'
  <2>1. Len(PopPad) = a.pads - 1
    BY <1>2, <1>4, <1>7, PopPadLen DEF At
  <2> HIDE DEF z
  <2>2. QED
    BY <1>2, <1>6, <1>8, <1>9, <2>1 DEF At
<1>12. t.op = "deferEnd" /\ t.bb[2] = catch /\ t.bb[3] = c
  BY DEF Do
<1>13. c \in Cur(r)
  BY <1>2, <1>4, <1>5 DEF At
<1> HIDE DEF t, z
<1>14. Fits(s, z, Walk(k), z)
  BY <1>4, <1>9, CalmFits
<1>15. Fits(s, z, t, m)
  BY <1>9, <1>12, <1>13 DEF Fits
<1> HIDE DEF k
<1>16. QED
  BY <1>1, <1>2, <1>6, <1>9, <1>10, <1>11, <1>14, <1>15, FlowPushTwo

\* genDefer is still in the block the defer call started in.
LEMMA FlowDeferEnd ==
  ASSUME TypeOK, NEW s, FlowInv(s), DeferEnd PROVE FlowInv(s)'
<1>1. work # <<>> /\ status = "walking" /\ Head(work).op = "deferEnd" /\ Derives(s)
  BY DEF DeferEnd, Running, FlowInv
<1>2. PICK a \in Point, m \in Point, b \in Point :
        At(s, a) /\ Fits(s, a, Head(work), m) /\ Leads(Steps(s), Point, m, Tail(work), b)
  BY <1>1, FlowPop
<1>3. a.at \subseteq {Saved(2)}
  BY <1>1, <1>2 DEF Fits, Saved
<1>4. PICK r \in Reach : Saved(3) \in Cur(r) /\ m = To(a, Cur(r))
  BY <1>1, <1>2 DEF Fits, Saved
<1>5. cur = Saved(2)
  BY <1>2, <1>3 DEF At
<1>6. Continue(<<>>) /\ status' = "walking" /\ cur' = Saved(3)
      /\ UNCHANGED <<padStack, finallyBlock, cachedReturn>>
  BY <1>1, <1>5 DEF DeferEnd
<1>7. At(s, m)'
  BY <1>2, <1>4, <1>6, AtMoved, CurSets
<1>8. QED
  BY <1>1, <1>2, <1>6, <1>7, FlowPushNone

\* What the mode of a protected body tells.
LEMMA ProtectingMode ==
  ASSUME NEW n
  PROVE  /\ Protecting(n) \ {"pad"} \in {{}, {"owed"}, {"finally", "owed"}}
         /\ (Protecting(n) \ {"pad"}) \cup {"pad"} = Protecting(n)
         /\ HasFinally(n) => "owed" \in Protecting(n) \ {"pad"}
         /\ "finally" \in Protecting(n) \ {"pad"} <=> HasFinally(n)
         /\ ~HasFinally(n) => Protecting(n) \ {"pad"} = {}
<1>1. CASE HasFinally(n)
  <2>1. Protecting(n) \ {"pad"} = {"finally", "owed"}
    BY <1>1 DEF Protecting
  <2>2. QED
    BY <1>1, <2>1 DEF Protecting
<1>2. CASE ~HasFinally(n)
  <2>1. Protecting(n) \ {"pad"} = {}
    BY <1>2 DEF Protecting
  <2>2. QED
    BY <1>2, <2>1 DEF Protecting
<1>3. QED
  BY <1>1, <1>2

\* A point in a protected body or an on-exception clause.
LEMMA ProtectedPoint ==
  ASSUME NEW n, NEW at \in SUBSET Nat
  PROVE  /\ Points(1, Protecting(n) \ {"pad"}, at) \in Point
         /\ Points(1, Protecting(n) \ {"pad"}, at).pads = 1
         /\ Points(1, Protecting(n) \ {"pad"}, at).mode = Protecting(n) \ {"pad"}
         /\ Points(1, Protecting(n) \ {"pad"}, at).at = at
         /\ ModeAt(Points(1, Protecting(n) \ {"pad"}, at)) = Protecting(n)
         /\ Protected(n, Points(1, Protecting(n) \ {"pad"}, at))
<1>1. PICK mode \in {{}, {"owed"}, {"finally", "owed"}} : mode = Protecting(n) \ {"pad"}
  BY ProtectingMode
<1>2. PICK z : z = Points(1, mode, at)
  OBVIOUS
<1>3. z \in Point /\ z.pads = 1 /\ z.mode = mode /\ z.at = at
  BY <1>1, <1>2 DEF Points, Point
<1>4. ModeAt(z) = mode \cup {"pad"}
  BY <1>3 DEF ModeAt
<1>5. Protected(n, z)
  BY <1>1, <1>3 DEF Protected
<1>6. QED
  BY <1>1, <1>2, <1>3, <1>4, <1>5, ProtectingMode

\* A step inside of such a clause.
LEMMA ProtectedTo ==
  ASSUME NEW n, NEW at, NEW at2
  PROVE  To(Points(1, Protecting(n) \ {"pad"}, at), at2)
           = Points(1, Protecting(n) \ {"pad"}, at2)
BY DEF To, Points

\* genExcep is not nested, and no return is kept.
LEMMA FlowWalkExcep ==
  ASSUME TypeOK, NEW s, FlowInv(s), WalkExcep PROVE FlowInv(s)'
<1>1. Visiting({"excep"})
  BY DEF WalkExcep
<1>2. /\ work # <<>> /\ status = "walking" /\ Derives(s)
      /\ TheNode \in Node /\ TheNode.k = "excep"
  BY <1>1, FlowVisit
<1>3. PICK a \in Point, b \in Point, from \in Reach, to \in Reach :
        /\ At(s, a) /\ VisitRule(s, TheNode, ModeAt(a), from, to)
        /\ a.at \subseteq Cur(from)
        /\ Leads(Steps(s), Point, To(a, Cur(to)), Tail(work), b)
  BY <1>1, FlowVisit
<1>4. PICK n \in Node : n = TheNode /\ n.k = "excep"
  BY <1>2
<1>5. ExcepRule(s, n, ModeAt(a), from, to)
  BY <1>3, <1>4 DEF VisitRule
<1>6. a.pads = 0 /\ a.mode = {}
  <2>1. a.pads \in Nat /\ ModeAt(a) = {}
    BY <1>5 DEF ExcepRule, Point
  <2>2. a.pads = 0
    BY <2>1 DEF ModeAt
  <2>3. QED
    BY <2>1, <2>2 DEF ModeAt
<1>7. padStack = <<>> /\ cachedReturn = NoNode
  <2>1. padStack = <<>>
    BY <1>3, <1>6, EmptySeq DEF At, TypeOK
  <2>2. cachedReturn = NoNode
    BY <1>3, <1>6 DEF At
  <2>3. QED
    BY <2>1, <2>2
<1>8. PICK r \in Reach : Visited(s, n.kids[1], Protecting(n), from, r)
  BY <1>5 DEF ExcepRule
<1>9. PICK pad \in Nat, cont \in Nat : pad = Len(blocks) + 1 /\ cont = Len(blocks) + 2
                                      /\ cont # 0
  BY <1>2, HeadType
<1> DEFINE k == n.kids[1]
           t == Do("excepCatch", n, <<pad, cont>>)
           z == Points(1, Protecting(n) \ {"pad"}, Cur(from))
           y == To(z, Cur(r))
           m == To(a, Cur(to))
<1>10. /\ Continue(<<Walk(k), t>>) /\ status' = "walking"
       /\ padStack' = Append(padStack, pad)
       /\ finallyBlock' = FinallyTarget(n, cont)
       /\ UNCHANGED <<cachedReturn, cur>>
  BY <1>2, <1>4, <1>7, <1>9 DEF WalkExcep
<1>11. /\ z \in Point /\ z.pads = 1 /\ z.mode = Protecting(n) \ {"pad"} /\ z.at = Cur(from)
       /\ ModeAt(z) = Protecting(n)
       /\ y \in Point /\ Protected(n, y)
  <2>1. PICK u \in SUBSET Nat, v \in SUBSET Nat : u = Cur(from) /\ v = Cur(r)
    BY CurSets
  <2>2. z = Points(1, Protecting(n) \ {"pad"}, u)
    BY <2>1
  <2>3. y = Points(1, Protecting(n) \ {"pad"}, v)
    BY <2>1, ProtectedTo
  <2> HIDE DEF z, y
  <2>4. y \in Point /\ Protected(n, y)
    BY <2>3, ProtectedPoint
  <2>5. /\ z \in Point /\ z.pads = 1 /\ z.mode = Protecting(n) \ {"pad"} /\ z.at = u
        /\ ModeAt(z) = Protecting(n)
    BY <2>2, ProtectedPoint
  <2>6. QED
    BY <2>1, <2>4, <2>5
<1>12. m \in Point /\ m = Points(0, {}, Cur(to))
  BY <1>6, ToPoint, CurSets DEF To
<1>13. Walk(k) \in Task /\ t \in Task
  <2>1. <<pad, cont>> \in Seq(Nat) /\ "excepCatch" \in TaskOps
    BY DEF TaskOps
  <2>2. k \in Node
    BY <1>2, <1>8, VisitGives
  <2>3. QED
    BY <2>1, <2>2, TaskType
<1>14. At(s, z)'
  <2>1. Len(padStack') = 1
    BY <1>7, <1>10
  <2>2. finallyBlock' # 0 <=> HasFinally(n)
    BY <1>9, <1>10 DEF FinallyTarget
  <2>3. cur' \in Cur(from)
    BY <1>3, <1>10 DEF At
  <2> HIDE DEF z
  <2>4. QED
    BY <1>7, <1>10, <1>11, <2>1, <2>2, <2>3, ProtectingMode DEF At
<1>15. t.op = "excepCatch" /\ t.n = n
  BY DEF Do
<1>16. Fits(s, z, Walk(k), y)
  BY <1>8, <1>11, WalkFits
<1>17. Leads(Steps(s), Point, m, Tail(work), b)
  BY <1>3
<1>18. FitsFinally(s, n, m) /\ VisitedAsArm(s, n.kids[2], Protecting(n))
  BY <1>5, <1>12 DEF ExcepRule, FitsFinally
<1> HIDE DEF t, z, y, m
<1>19. Fits(s, y, t, m)
  BY <1>11, <1>15, <1>18 DEF Fits
<1> HIDE DEF k
<1>20. QED
  BY <1>2, <1>10, <1>11, <1>12, <1>13, <1>14, <1>16, <1>17, <1>19, FlowPushTwo

\* genExcep walks the on-exception clause under a pad of its own.
LEMMA FlowExcepCatch ==
  ASSUME TypeOK, NEW s, FlowInv(s), ExcepCatch PROVE FlowInv(s)'
<1>1. work # <<>> /\ status = "walking" /\ Head(work).op = "excepCatch" /\ Derives(s)
  BY DEF ExcepCatch, Running, FlowInv
<1>2. PICK a \in Point, m \in Point, b \in Point :
        At(s, a) /\ Fits(s, a, Head(work), m) /\ Leads(Steps(s), Point, m, Tail(work), b)
  BY <1>1, FlowPop
<1>3. PICK n \in Node : n = TheNode
  BY <1>1, HeadType
<1>4. /\ Protected(n, a) /\ FitsFinally(s, n, m)
      /\ VisitedAsArm(s, n.kids[2], Protecting(n))
  BY <1>1, <1>2, <1>3 DEF Fits, TheNode
<1>5. PICK to \in Reach : Visited(s, n.kids[2], Protecting(n), "live", to)
  BY <1>4 DEF VisitedAsArm
<1>6. PICK cont \in Nat, catch \in Nat, catchpad \in Nat :
        /\ cont = Saved(2) /\ catch = Len(blocks) + 1 /\ catchpad = Len(blocks) + 2
        /\ catch # 0
  BY <1>1, HeadType DEF TaskOK, Saved
<1> DEFINE k == n.kids[2]
           t == Do("excepFinally", n, <<cont, catchpad>>)
           z == Points(1, Protecting(n) \ {"pad"}, Cur("live"))
           y == To(z, Cur(to))
<1>7. /\ Continue(<<Walk(k), t>>) /\ status' = "walking" /\ cur' = catch
      /\ padStack' = Append(PopPad, catchpad) /\ UNCHANGED <<finallyBlock, cachedReturn>>
  BY <1>1, <1>3, <1>6 DEF ExcepCatch
<1>8. /\ z \in Point /\ z.pads = 1 /\ z.mode = Protecting(n) \ {"pad"} /\ z.at = Cur("live")
      /\ ModeAt(z) = Protecting(n)
      /\ y \in Point /\ Protected(n, y)
  <2>1. PICK u \in SUBSET Nat, v \in SUBSET Nat : u = Cur("live") /\ v = Cur(to)
    BY CurSets
  <2>2. z = Points(1, Protecting(n) \ {"pad"}, u)
    BY <2>1
  <2>3. y = Points(1, Protecting(n) \ {"pad"}, v)
    BY <2>1, ProtectedTo
  <2> HIDE DEF z, y
  <2>4. y \in Point /\ Protected(n, y)
    BY <2>3, ProtectedPoint
  <2>5. /\ z \in Point /\ z.pads = 1 /\ z.mode = Protecting(n) \ {"pad"} /\ z.at = u
        /\ ModeAt(z) = Protecting(n)
    BY <2>2, ProtectedPoint
  <2>6. QED
    BY <2>1, <2>4, <2>5
<1>9. Walk(k) \in Task /\ t \in Task
  <2>1. <<cont, catchpad>> \in Seq(Nat) /\ "excepFinally" \in TaskOps
    BY DEF TaskOps
  <2>2. k \in Node
    BY <1>1, <1>5, VisitGives
  <2>3. QED
    BY <2>1, <2>2, TaskType
<1>10. At(s, z)'
  <2>1. Len(PopPad) = 0
    BY <1>2, <1>4, PopPadLen DEF At, Protected
  <2>2. PopPad \in Seq(Nat)
    <3>2. \A i \in 1..(Len(padStack) - 1) : padStack[i] \in Nat
      <4>1. Len(padStack) = 1
        BY <1>2, <1>4 DEF At, Protected
      <4>2. QED
        BY <4>1
    <3>3. Len(padStack) - 1 \in Int
      BY <1>2, <1>4 DEF At, Protected
    <3>4. QED
      BY <3>2, <3>3, SubSeqProperties DEF PopPad
  <2>3. Len(padStack') = 1
    BY <1>7, <2>1, <2>2, AppendProperties
  <2>4. cur' \in Cur("live")
    BY <1>6, <1>7, CurSets
  <2> HIDE DEF z
  <2>5. a.mode = z.mode
    BY <1>4, <1>8 DEF Protected
  <2>6. QED
    BY <1>2, <1>7, <1>8, <2>3, <2>4, <2>5 DEF At
<1>11. t.op = "excepFinally" /\ t.n = n
  BY DEF Do
<1>12. Fits(s, z, Walk(k), y)
  BY <1>5, <1>8, WalkFits DEF Reach
<1> HIDE DEF t, z, y
<1>13. Fits(s, y, t, m)
  BY <1>4, <1>8, <1>11 DEF Fits
<1> HIDE DEF k
<1>14. QED
  BY <1>1, <1>2, <1>7, <1>8, <1>9, <1>10, <1>12, <1>13, FlowPushTwo

\* genExcep walks the finally clause without a pad.
LEMMA FlowExcepFinally ==
  ASSUME TypeOK, NEW s, FlowInv(s), ExcepFinally PROVE FlowInv(s)'
<1>1. work # <<>> /\ status = "walking" /\ Head(work).op = "excepFinally" /\ Derives(s)
  BY DEF ExcepFinally, Running, FlowInv
<1>2. PICK a \in Point, m \in Point, b \in Point :
        At(s, a) /\ Fits(s, a, Head(work), m) /\ Leads(Steps(s), Point, m, Tail(work), b)
  BY <1>1, FlowPop
<1>3. PICK n \in Node : n = TheNode
  BY <1>1, HeadType
<1>4. Protected(n, a) /\ FitsFinally(s, n, m)
  BY <1>1, <1>2, <1>3 DEF Fits, TheNode
<1>5. Saved(1) \in Nat \ {0}
  <2>1. Len(blocks) \in Nat /\ Saved(1) \in 1..Len(blocks)
    BY <1>1, HeadType DEF TaskOK, Saved
  <2>2. QED
    BY <2>1
<1>6. /\ status' = "walking" /\ cur' = Saved(1) /\ padStack' = PopPad
      /\ finallyBlock' = 0 /\ UNCHANGED cachedReturn
  BY <1>1 DEF ExcepFinally
<1>7. Len(padStack') = 0
  BY <1>2, <1>4, <1>6, PopPadLen DEF At, Protected
<1>8. cur' \in Cur("live")
  BY <1>5, <1>6, CurSets
<1>9. CASE HasFinally(n)
  <2>1. PICK to \in Reach : /\ Visited(s, n.kids[3], InFinally, "live", to)
                            /\ m = Points(0, {}, Cur(to))
    BY <1>4, <1>9 DEF FitsFinally
  <2> DEFINE k == n.kids[3]
             t == Do("excepReturn", n, <<>>)
             z == Points(0, {"owed"}, Cur("live"))
             y == Points(0, {"owed"}, Cur(to))
  <2>2. Continue(<<Walk(k), t>>)
    BY <1>3, <1>9 DEF ExcepFinally
  <2>3. /\ z \in Point /\ z.pads = 0 /\ z.mode = {"owed"} /\ z.at = Cur("live")
        /\ ModeAt(z) = InFinally /\ To(z, Cur(to)) = y
        /\ y \in Point /\ y.pads = 0 /\ y.mode = {"owed"} /\ y.at = Cur(to)
    BY PointsAre, CurSets DEF InFinally
  <2>4. Walk(k) \in Task /\ t \in Task
    <3>1. <<>> \in Seq(Nat) /\ "excepReturn" \in TaskOps
      BY DEF TaskOps
    <3>2. k \in Node
      BY <1>1, <2>1, VisitGives
    <3>3. QED
      BY <3>1, <3>2, TaskType
  <2>5. t.op = "excepReturn"
    BY DEF Do
  <2> HIDE DEF t, z, y
  <2>6. At(s, z)'
    BY <1>2, <1>6, <1>7, <1>8, <2>3 DEF At
  <2>7. Fits(s, z, Walk(k), y)
    BY <2>1, <2>3, WalkFits DEF Reach
  <2>8. Fits(s, y, t, m)
    BY <2>1, <2>3, <2>5 DEF Fits, InFinally
  <2> HIDE DEF k
  <2>9. QED
    BY <1>1, <1>2, <1>6, <2>2, <2>3, <2>4, <2>6, <2>7, <2>8, FlowPushTwo
<1>10. CASE ~HasFinally(n)
  <2>1. m = Points(0, {}, Cur("live"))
    BY <1>4, <1>10 DEF FitsFinally
  <2>2. m.pads = 0 /\ m.mode = {} /\ m.at = Cur("live")
    BY <2>1, PointsAre, CurSets
  <2>3. Continue(<<>>)
    BY <1>3, <1>10 DEF ExcepFinally
  <2>4. cachedReturn = NoNode
    BY <1>2, <1>4, <1>10, ProtectingMode DEF At, Protected
  <2>5. At(s, m)'
    BY <1>6, <1>7, <1>8, <2>2, <2>4 DEF At
  <2>6. QED
    BY <1>1, <1>2, <1>6, <2>3, <2>5, FlowPushNone
<1>11. QED
  BY <1>9, <1>10

\* genExcep walks the returned expression kept for the end.
LEMMA FlowExcepReturn ==
  ASSUME TypeOK, NEW s, FlowInv(s), ExcepReturn PROVE FlowInv(s)'
<1>1. work # <<>> /\ status = "walking" /\ Head(work).op = "excepReturn" /\ Derives(s)
  BY DEF ExcepReturn, Running, FlowInv
<1>2. PICK a \in Point, m \in Point, b \in Point :
        At(s, a) /\ Fits(s, a, Head(work), m) /\ Leads(Steps(s), Point, m, Tail(work), b)
  BY <1>1, FlowPop
<1>3. PICK n \in Node : n = TheNode
  BY <1>1, HeadType
<1>4. a.pads = 0 /\ a.mode = {"owed"} /\ m = Points(0, {}, a.at)
  BY <1>1, <1>2 DEF Fits, InFinally
<1>5. m.pads = 0 /\ m.mode = {} /\ m.at = a.at
  BY <1>4 DEF Points
<1>6. status' = "walking" /\ UNCHANGED <<cur, padStack, finallyBlock, cachedReturn>>
  BY <1>1 DEF ExcepReturn
<1>7. CASE cachedReturn = NoNode
  <2>1. Continue(<<>>)
    BY <1>7 DEF ExcepReturn
  <2>2. At(s, m)'
    BY <1>2, <1>4, <1>5, <1>6, <1>7 DEF At
  <2>3. QED
    BY <1>1, <1>2, <1>6, <2>1, <2>2, FlowPushNone
<1>8. CASE cachedReturn # NoNode
  <2>1. PICK c \in Nat : c = cur
    BY DEF TypeOK
  <2>2. PICK k : k = cachedReturn.kids[1]
    OBVIOUS
  <2>3. k \in s.calm /\ c \in a.at
    BY <1>2, <1>8, <2>1, <2>2 DEF At
  <2> DEFINE t == Do("excepEnd", n, <<c>>)
             z == Points(0, {"owed"}, {c})
  <2>4. Continue(<<Walk(k), t>>)
    BY <1>3, <1>8, <2>1, <2>2 DEF ExcepReturn
  <2>5. /\ z \in Point /\ z.pads = 0 /\ z.mode = {"owed"} /\ z.at = {c}
        /\ ModeAt(z) = {"owed"}
    BY PointsAre
  <2>6. Calm(s, k, {"owed"})
    BY <2>3 DEF Calm
  <2>7. Walk(k) \in Task /\ t \in Task
    <3>1. <<c>> \in Seq(Nat) /\ "excepEnd" \in TaskOps
      BY DEF TaskOps
    <3>2. k \in Node
      BY <1>1, <2>6, CalmGives
    <3>3. QED
      BY <3>1, <3>2, TaskType
  <2>8. t.op = "excepEnd" /\ t.bb[1] = c
    BY DEF Do
  <2> HIDE DEF t, z
  <2>9. At(s, z)'
    BY <1>2, <1>4, <1>6, <2>1, <2>5 DEF At
  <2>10. Fits(s, z, Walk(k), z)
    BY <2>5, <2>6, CalmFits
  <2>11. Fits(s, z, t, m)
    BY <1>5, <2>3, <2>5, <2>8 DEF Fits, InFinally
  <2>12. QED
    BY <1>1, <1>2, <1>6, <2>4, <2>5, <2>7, <2>9, <2>10, <2>11, FlowPushTwo
<1>9. QED
  BY <1>7, <1>8

\* genExcep is still in the block that expression started in.
LEMMA FlowExcepEnd ==
  ASSUME TypeOK, NEW s, FlowInv(s), ExcepEnd PROVE FlowInv(s)'
<1>1. work # <<>> /\ status = "walking" /\ Head(work).op = "excepEnd" /\ Derives(s)
  BY DEF ExcepEnd, Running, FlowInv
<1>2. PICK a \in Point, m \in Point, b \in Point :
        At(s, a) /\ Fits(s, a, Head(work), m) /\ Leads(Steps(s), Point, m, Tail(work), b)
  BY <1>1, FlowPop
<1>3. /\ a.pads = 0 /\ a.mode = {"owed"} /\ a.at \subseteq {Saved(1)}
      /\ a.at \subseteq m.at /\ m.pads = 0 /\ m.mode = {}
  BY <1>1, <1>2 DEF Fits, InFinally, Saved
<1>4. cur = Saved(1)
  BY <1>2, <1>3 DEF At
<1>5. /\ Continue(<<>>) /\ status' = "walking" /\ cachedReturn' = NoNode
      /\ UNCHANGED <<padStack, finallyBlock, cur>>
  BY <1>1, <1>4 DEF ExcepEnd
<1>6. At(s, m)'
  BY <1>2, <1>3, <1>5 DEF At
<1>7. QED
  BY <1>1, <1>2, <1>5, <1>6, FlowPushNone

\* The body of a function leads somewhere.
LEMMA FlowInit == ASSUME NEW s, Init, BodyDerived(s, tree) PROVE FlowInv(s)
<1>1. PICK to \in Reach : Visited(s, tree, {}, "live", to)
  BY DEF BodyDerived, VisitedAsArm
<1>2. tree \in Node /\ Derives(s)
  BY NodeAssumption DEF Init, BodyDerived
<1> DEFINE z == Points(0, {}, Cur("live"))
           y == To(z, Cur(to))
<1>3. /\ z \in Point /\ z.pads = 0 /\ z.mode = {} /\ z.at = Cur("live") /\ ModeAt(z) = {}
  <2>1. z.pads = 0 /\ z.mode = {} /\ z.at = Cur("live")
    BY DEF Points
  <2>2. Cur("live") \in SUBSET Nat
    BY CurSets
  <2>3. z \in Point
    BY <2>2 DEF Points, Point
  <2> HIDE DEF z
  <2>4. ModeAt(z) = {}
    BY <2>1 DEF ModeAt
  <2>5. QED
    BY <2>1, <2>3, <2>4
<1> HIDE DEF z
<1>4. y \in Point
  BY <1>3, ToPoint, CurSets
<1>5. Fits(s, z, Walk(tree), y)
  BY <1>1, <1>3, WalkFits DEF Reach
<1> HIDE DEF y
<1>6. Walk(tree) \in Task
  BY <1>2, TaskType
<1>7. Leads(Steps(s), Point, z, work, y)
  <2>1. <<z, Walk(tree), y>> \in Steps(s)
    BY <1>3, <1>4, <1>5, <1>6, StepsAre
  <2>2. work = <<Walk(tree)>>
    BY DEF Init
  <2>3. QED
    BY <1>3, <1>4, <2>1, <2>2, LeadsOne
<1>8. At(s, z)
  <2>1. cur = 1 /\ padStack = <<>> /\ finallyBlock = 0 /\ cachedReturn = NoNode
    BY DEF Init
  <2>2. cur \in Cur("live") /\ Len(padStack) = 0
    BY <2>1, CurSets
  <2>3. QED
    BY <1>3, <2>1, <2>2 DEF At
<1>9. status = "walking"
  BY DEF Init
<1>10. QED
  BY <1>2, <1>3, <1>4, <1>7, <1>8, <1>9 DEF FlowInv

\* Every step keeps to the path.
LEMMA FlowNext ==
  ASSUME TypeOK, NEW s, FlowInv(s), [Next]_vars PROVE FlowInv(s)'
<1>1. CASE UNCHANGED vars
  BY <1>1 DEF FlowInv, At, vars
<1>2. CASE Next
  BY <1>2, FlowWalkChildren, FlowEmitInst, FlowWalkIf, FlowIfArms, FlowJoinArm,
     FlowWalkSwitch, FlowSwitchBlocks, FlowSwitchCase, FlowSwitchEnd, FlowReturnToFinally,
     FlowWalkReturn, FlowReturnEnd, FlowWalkDefer, FlowDeferCatch, FlowDeferEnd,
     FlowWalkExcep, FlowExcepCatch, FlowExcepFinally, FlowExcepReturn, FlowExcepEnd,
     FlowWalkGoto, FlowWalkLabel, FlowFinish DEF Next
<1>3. QED
  BY <1>1, <1>2

\* The walk of derivable trees hits no assertion and never uses a null block: genIf
\* and genSwitch have a current block behind the condition, genReturn has one to
\* leave for a finally clause, the expression of a return (also of the one
\* genExcep kept) and the deferred call end in the block they start in, and no
\* exception statement starts under a landing pad or with a return pending.
THEOREM WalkNeverAborts ==
  ASSUME \A t \in Trees : \E s : BodyDerived(s, t)
  PROVE  Spec => []NeverAborts
<1> DEFINE IInv == TypeOK /\ \E s : FlowInv(s)
<1>1. Init => IInv
  <2> SUFFICES ASSUME Init PROVE IInv
    OBVIOUS
  <2>1. PICK s : BodyDerived(s, tree)
    BY DEF Init
  <2>2. QED
    BY <2>1, FlowInit, TypeInit
<1>2. IInv /\ [Next]_vars => IInv'
  <2> SUFFICES ASSUME IInv, [Next]_vars PROVE IInv'
    OBVIOUS
  <2>1. PICK s : FlowInv(s)
    OBVIOUS
  <2>2. FlowInv(s)'
    BY <2>1, FlowNext
  <2>3. TypeOK'
    BY TypeStep
  <2>4. QED
    BY <2>2, <2>3
<1>3. IInv => NeverAborts
  BY DEF FlowInv, NeverAborts
<1>4. QED
  BY <1>1, <1>2, <1>3, PTL DEF Spec

-----------------------------------------------------------------------------
(* What the walk does to the blocks, seen from outside: which of them are   *)
(* open, empty, or landing pads.                                            *)

\* The blocks without a terminator, the landing pads, and the empty blocks.
OpenBlocks(bs) == {b \in 1..Len(bs) : ~HasTerminator(bs, b)}
Landing(bs) == {b \in 1..Len(bs) : Len(bs[b]) > 0 /\ bs[b][1].op = "landingpad"}
EmptyBlocks(bs) == {b \in 1..Len(bs) : bs[b] = <<>>}

\* The elements of a stack of blocks.
Elements(q) == {q[i] : i \in 1..Len(q)}

\* The blocks behind an edit.
LEMMA NewBlocksBlocks ==
  ASSUME NEW bs \in BlockSeq, NEW k \in Nat
  PROVE  /\ \A b \in 1..Len(bs) : NewBlocks(bs, k)[b] = bs[b]
         /\ \A b \in (Len(bs) + 1)..(Len(bs) + k) : NewBlocks(bs, k)[b] = <<>>
<1> DEFINE n == Len(bs)
           fresh == [j \in 1..k |-> <<>>]
<1>1. n \in Nat
  BY LenProperties DEF BlockSeq
<1>2. fresh \in BlockSeq /\ Len(fresh) = k /\ \A j \in 1..k : fresh[j] = <<>>
  BY DEF BlockSeq
<1> HIDE DEF fresh
<1>3. \A i \in 1..(n + k) : NewBlocks(bs, k)[i] = IF i <= n THEN bs[i] ELSE fresh[i - n]
  BY <1>2, ConcatProperties DEF BlockSeq, NewBlocks, fresh
<1> HIDE DEF n
<1>4. ASSUME NEW b \in 1..n PROVE NewBlocks(bs, k)[b] = bs[b]
  BY <1>1, <1>3
<1>5. ASSUME NEW b \in (n + 1)..(n + k) PROVE NewBlocks(bs, k)[b] = <<>>
  <2>1. b - n \in 1..k /\ ~(b <= n) /\ b \in 1..(n + k)
    BY <1>1
  <2>2. QED
    BY <1>2, <1>3, <2>1
<1>6. QED
  BY <1>4, <1>5 DEF n

LEMMA PutBlocks ==
  ASSUME NEW bs \in BlockSeq, NEW b \in 1..Len(bs), NEW ins \in Instr
  PROVE  /\ \A c \in 1..Len(bs) \ {b} : Put(bs, b, ins)[c] = bs[c]
         /\ Put(bs, b, ins)[b] = Append(bs[b], ins)
         /\ bs[b] \in Seq(Instr) /\ Len(bs[b]) \in Nat
         /\ Len(Append(bs[b], ins)) = Len(bs[b]) + 1
         /\ Append(bs[b], ins)[Len(bs[b]) + 1] = ins
         /\ \A i \in 1..Len(bs[b]) : Append(bs[b], ins)[i] = bs[b][i]
<1>1. bs[b] \in Seq(Instr)
  BY ElementOfSeq DEF BlockSeq
<1>2. DOMAIN bs = 1..Len(bs)
  BY LenProperties DEF BlockSeq
<1>3. QED
  BY <1>1, <1>2, AppendProperties, LenProperties DEF Put

\* New blocks are open and empty.
LEMMA NewBlocksAre ==
  ASSUME NEW bs \in BlockSeq, NEW k \in Nat
  PROVE  /\ OpenBlocks(NewBlocks(bs, k)) = OpenBlocks(bs) \cup (Len(bs) + 1)..(Len(bs) + k)
         /\ EmptyBlocks(NewBlocks(bs, k)) = EmptyBlocks(bs) \cup (Len(bs) + 1)..(Len(bs) + k)
         /\ Landing(NewBlocks(bs, k)) = Landing(bs)
<1> DEFINE n == Len(bs)
           nb == NewBlocks(bs, k)
<1>1. n \in Nat /\ Len(nb) = n + k
  BY NewBlocksType, LenProperties DEF BlockSeq
<1>2. /\ \A b \in 1..n : nb[b] = bs[b]
      /\ \A b \in (n + 1)..(n + k) : nb[b] = <<>>
  BY NewBlocksBlocks
<1> HIDE DEF n, nb
<1>3. 1..(n + k) = 1..n \cup (n + 1)..(n + k)
  BY <1>1
<1>4. ASSUME NEW b \in 1..n PROVE HasTerminator(nb, b) <=> HasTerminator(bs, b)
  BY <1>2 DEF HasTerminator
<1>5. ASSUME NEW b \in (n + 1)..(n + k) PROVE ~HasTerminator(nb, b) /\ ~(Len(nb[b]) > 0)
  BY <1>2 DEF HasTerminator
<1>6. OpenBlocks(nb) = OpenBlocks(bs) \cup (n + 1)..(n + k)
  BY <1>1, <1>3, <1>4, <1>5 DEF OpenBlocks, n
<1>7. EmptyBlocks(nb) = EmptyBlocks(bs) \cup (n + 1)..(n + k)
  BY <1>1, <1>2, <1>3 DEF EmptyBlocks, n
<1>8. Landing(nb) = Landing(bs)
  BY <1>1, <1>2, <1>3, <1>5 DEF Landing, n
<1>9. QED
  BY <1>6, <1>7, <1>8 DEF n, nb

\* A terminator closes the open block it is put into, no other instruction does.
LEMMA PutIs ==
  ASSUME NEW bs \in BlockSeq, NEW b \in OpenBlocks(bs), NEW ins \in Instr,
         ins.op # "landingpad"
  PROVE  /\ IsTerminator(ins) => OpenBlocks(Put(bs, b, ins)) = OpenBlocks(bs) \ {b}
         /\ ~IsTerminator(ins) => OpenBlocks(Put(bs, b, ins)) = OpenBlocks(bs)
         /\ EmptyBlocks(Put(bs, b, ins)) = EmptyBlocks(bs) \ {b}
         /\ Landing(Put(bs, b, ins)) = Landing(bs)
<1> DEFINE n == Len(bs)
           pb == Put(bs, b, ins)
<1>1. n \in Nat /\ b \in 1..n /\ Len(pb) = n
  BY PutType, LenProperties DEF BlockSeq, OpenBlocks
<1>2. /\ \A c \in 1..n \ {b} : pb[c] = bs[c]
      /\ pb[b] = Append(bs[b], ins)
      /\ Len(bs[b]) \in Nat /\ Len(pb[b]) = Len(bs[b]) + 1
      /\ pb[b][Len(bs[b]) + 1] = ins
      /\ \A i \in 1..Len(bs[b]) : pb[b][i] = bs[b][i]
  <2>1. b \in 1..Len(bs)
    BY DEF OpenBlocks
  <2>2. /\ \A c \in 1..Len(bs) \ {b} : Put(bs, b, ins)[c] = bs[c]
        /\ Put(bs, b, ins)[b] = Append(bs[b], ins)
        /\ Len(bs[b]) \in Nat
        /\ Len(Append(bs[b], ins)) = Len(bs[b]) + 1
        /\ Append(bs[b], ins)[Len(bs[b]) + 1] = ins
        /\ \A i \in 1..Len(bs[b]) : Append(bs[b], ins)[i] = bs[b][i]
    BY <2>1, PutBlocks
  <2>3. QED
    BY <2>2
<1> HIDE DEF n, pb
<1>3. \A c \in 1..n \ {b} : HasTerminator(pb, c) <=> HasTerminator(bs, c)
  BY <1>2 DEF HasTerminator
<1>4. HasTerminator(pb, b) <=> IsTerminator(ins)
  <2>1. Len(pb[b]) > 0 /\ pb[b][Len(pb[b])] = ins
    BY <1>2
  <2>2. QED
    BY <2>1 DEF HasTerminator
<1>5. b \in OpenBlocks(bs)
  OBVIOUS
<1>6. OpenBlocks(pb) = {c \in 1..n : ~HasTerminator(pb, c)}
      /\ OpenBlocks(bs) = {c \in 1..n : ~HasTerminator(bs, c)}
  BY <1>1 DEF OpenBlocks, n
<1>7. IsTerminator(ins) => OpenBlocks(pb) = OpenBlocks(bs) \ {b}
  BY <1>3, <1>4, <1>6
<1>8. ~IsTerminator(ins) => OpenBlocks(pb) = OpenBlocks(bs)
  BY <1>3, <1>4, <1>5, <1>6
<1>9. EmptyBlocks(pb) = EmptyBlocks(bs) \ {b}
  <2>1. pb[b] # <<>>
    BY <1>2
  <2>2. EmptyBlocks(pb) = {c \in 1..n : pb[c] = <<>>} /\ EmptyBlocks(bs) = {c \in 1..n : bs[c] = <<>>}
    BY <1>1 DEF EmptyBlocks, n
  <2>3. QED
    BY <1>2, <2>1, <2>2
<1>10. Landing(pb) = Landing(bs)
  <2>1. (Len(pb[b]) > 0 /\ pb[b][1].op = "landingpad") <=> (Len(bs[b]) > 0 /\ bs[b][1].op = "landingpad")
    <3>1. CASE Len(bs[b]) = 0
      <4>1. pb[b][1] = ins
        BY <1>2, <3>1
      <4>2. QED
        BY <1>2, <3>1, <4>1
    <3>2. CASE Len(bs[b]) > 0
      <4>1. 1 \in 1..Len(bs[b]) /\ Len(pb[b]) > 0
        BY <1>2, <3>2
      <4>2. QED
        BY <1>2, <3>2, <4>1
    <3>3. QED
      BY <1>2, <3>1, <3>2
  <2>2. \A c \in 1..n \ {b} : (Len(pb[c]) > 0 /\ pb[c][1].op = "landingpad") <=> (Len(bs[c]) > 0 /\ bs[c][1].op = "landingpad")
    BY <1>2
  <2>3. Landing(pb) = {c \in 1..n : Len(pb[c]) > 0 /\ pb[c][1].op = "landingpad"}
        /\ Landing(bs) = {c \in 1..n : Len(bs[c]) > 0 /\ bs[c][1].op = "landingpad"}
    BY <1>1 DEF Landing, n
  <2>4. QED
    BY <2>1, <2>2, <2>3
<1>11. QED
  BY <1>7, <1>8, <1>9, <1>10 DEF pb

\* Empty blocks are open, and no landing pads.
LEMMA EmptyIsOpen ==
  ASSUME NEW bs \in BlockSeq
  PROVE  EmptyBlocks(bs) \subseteq OpenBlocks(bs) \ Landing(bs)
<1> SUFFICES ASSUME NEW b \in 1..Len(bs), bs[b] = <<>>
             PROVE  ~HasTerminator(bs, b) /\ ~(Len(bs[b]) > 0)
  BY DEF EmptyBlocks, OpenBlocks, Landing
<1>1. Len(bs[b]) = 0
  OBVIOUS
<1>2. QED
  BY <1>1 DEF HasTerminator

\* The block the walk leaves is closed.
LEMMA BranchIfLiveIs ==
  ASSUME NEW bs \in BlockSeq, NEW c \in OpenBlocks(bs) \cup {0}, NEW t \in Nat
  PROVE  /\ OpenBlocks(BranchIfLive(bs, c, t)) = OpenBlocks(bs) \ {c}
         /\ EmptyBlocks(BranchIfLive(bs, c, t)) = EmptyBlocks(bs) \ {c}
         /\ Landing(BranchIfLive(bs, c, t)) = Landing(bs)
<1>1. Br(t) \in Instr /\ Br(t).op # "landingpad" /\ IsTerminator(Br(t))
  BY InsType DEF Br, Ins, IsTerminator, Terminators
<1>2. CASE c = 0
  <2>1. 0 \notin OpenBlocks(bs) /\ 0 \notin EmptyBlocks(bs)
    BY DEF OpenBlocks, EmptyBlocks
  <2>2. QED
    BY <1>2, <2>1 DEF BranchIfLive
<1>3. CASE c # 0
  <2>1. c \in OpenBlocks(bs) /\ BranchIfLive(bs, c, t) = Put(bs, c, Br(t))
    BY <1>3 DEF BranchIfLive
  <2>2. QED
    BY <1>1, <2>1, PutIs
<1>4. QED
  BY <1>2, <1>3

\* A filled pad is a landing pad, and closed.
LEMMA FillPadIs ==
  ASSUME NEW bs \in BlockSeq, NEW p \in EmptyBlocks(bs), NEW t \in Nat
  PROVE  /\ OpenBlocks(FillPad(bs, p, t)) = OpenBlocks(bs) \ {p}
         /\ EmptyBlocks(FillPad(bs, p, t)) = EmptyBlocks(bs) \ {p}
         /\ Landing(FillPad(bs, p, t)) = Landing(bs) \cup {p}
         /\ Len(FillPad(bs, p, t)) = Len(bs)
         /\ \A c \in 1..Len(bs) \ {p} : FillPad(bs, p, t)[c] = bs[c]
         /\ Len(FillPad(bs, p, t)[p]) = 2
         /\ FillPad(bs, p, t)[p][1] = Ins("landingpad", <<>>)
         /\ FillPad(bs, p, t)[p][2] = Br(t)
<1> DEFINE n == Len(bs)
           lp == Ins("landingpad", <<>>)
           b1 == Put(bs, p, lp)
           b2 == Put(b1, p, Br(t))
<1>1. n \in Nat /\ p \in 1..n /\ bs[p] = <<>> /\ Len(bs[p]) = 0
  BY LenProperties DEF BlockSeq, EmptyBlocks
<1>2. lp \in Instr /\ Br(t) \in Instr /\ lp.op = "landingpad" /\ IsTerminator(Br(t))
  BY InsType, EmptySeq DEF Br, Ins, IsTerminator, Terminators
<1> HIDE DEF lp
<1>3. /\ b1 \in BlockSeq /\ Len(b1) = n
      /\ \A c \in 1..n \ {p} : b1[c] = bs[c]
      /\ Len(b1[p]) = 1 /\ b1[p][1] = lp
  <2>1. p \in 1..Len(bs)
    BY <1>1
  <2>2. /\ \A c \in 1..Len(bs) \ {p} : Put(bs, p, lp)[c] = bs[c]
        /\ Put(bs, p, lp)[p] = Append(bs[p], lp)
        /\ Len(Append(bs[p], lp)) = Len(bs[p]) + 1
        /\ Append(bs[p], lp)[Len(bs[p]) + 1] = lp
    BY <1>2, <2>1, PutBlocks
  <2>3. Put(bs, p, lp) \in BlockSeq /\ Len(Put(bs, p, lp)) = Len(bs)
    BY <1>2, <2>1, PutType
  <2>4. QED
    BY <1>1, <2>2, <2>3
<1> HIDE DEF b1
<1>4. /\ Len(b2) = n
      /\ \A c \in 1..n \ {p} : b2[c] = bs[c]
      /\ Len(b2[p]) = 2 /\ b2[p][1] = lp /\ b2[p][2] = Br(t)
  <2>1. p \in 1..Len(b1)
    BY <1>1, <1>3
  <2>2. /\ \A c \in 1..Len(b1) \ {p} : Put(b1, p, Br(t))[c] = b1[c]
        /\ Put(b1, p, Br(t))[p] = Append(b1[p], Br(t))
        /\ Len(Append(b1[p], Br(t))) = Len(b1[p]) + 1
        /\ Append(b1[p], Br(t))[Len(b1[p]) + 1] = Br(t)
        /\ \A i \in 1..Len(b1[p]) : Append(b1[p], Br(t))[i] = b1[p][i]
    <3>1. b1 \in BlockSeq /\ Br(t) \in Instr
      BY <1>2, <1>3
    <3>2. QED
      BY <2>1, <3>1, PutBlocks
  <2>3. Len(Put(b1, p, Br(t))) = Len(b1)
    BY <1>2, <1>3, <2>1, PutType
  <2>4. 1 \in 1..Len(b1[p]) /\ Len(b1[p]) + 1 = 2
    BY <1>3
  <2>5. QED
    BY <1>3, <2>2, <2>3, <2>4
<1> HIDE DEF b2
<1>5. OpenBlocks(b2) = OpenBlocks(bs) \ {p}
  <2>1. HasTerminator(b2, p)
    BY <1>2, <1>4 DEF HasTerminator
  <2>2. \A c \in 1..n \ {p} : HasTerminator(b2, c) <=> HasTerminator(bs, c)
    BY <1>4 DEF HasTerminator
  <2>3. OpenBlocks(b2) = {c \in 1..n : ~HasTerminator(b2, c)}
        /\ OpenBlocks(bs) = {c \in 1..n : ~HasTerminator(bs, c)}
    BY <1>4 DEF OpenBlocks, n
  <2>4. QED
    BY <1>1, <2>1, <2>2, <2>3
<1>6. EmptyBlocks(b2) = EmptyBlocks(bs) \ {p}
  <2>1. b2[p] # <<>>
    BY <1>4
  <2>2. EmptyBlocks(b2) = {c \in 1..n : b2[c] = <<>>} /\ EmptyBlocks(bs) = {c \in 1..n : bs[c] = <<>>}
    BY <1>4 DEF EmptyBlocks, n
  <2>3. QED
    BY <1>1, <1>4, <2>1, <2>2
<1>7. Landing(b2) = Landing(bs) \cup {p}
  <2>1. Landing(b2) = {c \in 1..n : Len(b2[c]) > 0 /\ b2[c][1].op = "landingpad"}
        /\ Landing(bs) = {c \in 1..n : Len(bs[c]) > 0 /\ bs[c][1].op = "landingpad"}
    BY <1>4 DEF Landing, n
  <2>2. Len(b2[p]) > 0 /\ b2[p][1].op = "landingpad"
    BY <1>2, <1>4
  <2>3. QED
    BY <1>1, <1>4, <2>1, <2>2
<1>8. FillPad(bs, p, t) = b2
  BY DEF FillPad, b1, b2, lp
<1>9. QED
  BY <1>4, <1>5, <1>6, <1>7, <1>8 DEF lp, n

-----------------------------------------------------------------------------
(* What is in the blocks.  P is the set of blocks that are, or will become, *)
(* landing pads, n the number of blocks.                                    *)

\* An invoke unwinds to a landing pad; no other transfer of control goes to one,
\* and none goes back to the entry block.
Apt(ins, n, P) ==
  IF ins.op = "invoke"
  THEN Len(ins.to) = 2 /\ ins.to[1] \in (2..n) \ P /\ ins.to[2] \in P
  ELSE \A j \in 1..Len(ins.to) : ins.to[j] \in (2..n) \ P

SoundBlock(c, n, P) ==
  \A i \in 1..Len(c) : /\ IsTerminator(c[i]) => i = Len(c)
                       /\ c[i].op = "landingpad" => i = 1
                       /\ Apt(c[i], n, P)

Sound(bs, n, P) == \A b \in 1..Len(bs) : SoundBlock(bs[b], n, P)

\* More blocks and more pads among the new ones.
LEMMA SoundGrows ==
  ASSUME NEW bs \in BlockSeq, NEW n \in Nat, NEW P \in SUBSET (2..n), Sound(bs, n, P),
         NEW n2 \in Nat, n <= n2, NEW P2, P2 \cap 1..n = P
  PROVE  Sound(bs, n2, P2)
<1> SUFFICES ASSUME NEW b \in 1..Len(bs), NEW i \in 1..Len(bs[b])
             PROVE  /\ IsTerminator(bs[b][i]) => i = Len(bs[b])
                    /\ bs[b][i].op = "landingpad" => i = 1
                    /\ Apt(bs[b][i], n2, P2)
  BY DEF Sound, SoundBlock
<1>1. /\ IsTerminator(bs[b][i]) => i = Len(bs[b])
      /\ bs[b][i].op = "landingpad" => i = 1
      /\ Apt(bs[b][i], n, P)
  BY DEF Sound, SoundBlock
<1>2. \A x \in (2..n) \ P : x \in (2..n2) \ P2
  OBVIOUS
<1>3. \A x \in P : x \in P2
  OBVIOUS
<1>4. Apt(bs[b][i], n2, P2)
  BY <1>1, <1>2, <1>3 DEF Apt
<1>5. QED
  BY <1>1, <1>4

\* Edits keep the blocks sound.
LEMMA SoundNew ==
  ASSUME NEW bs \in BlockSeq, NEW n, NEW P, Sound(bs, n, P), NEW k \in Nat
  PROVE  Sound(NewBlocks(bs, k), n, P)
<1>1. Len(bs) \in Nat /\ Len(NewBlocks(bs, k)) = Len(bs) + k
  BY NewBlocksType, LenProperties DEF BlockSeq
<1>2. ASSUME NEW b \in 1..(Len(bs) + k) PROVE SoundBlock(NewBlocks(bs, k)[b], n, P)
  <2>1. CASE b \in 1..Len(bs)
    <3>1. NewBlocks(bs, k)[b] = bs[b]
      BY <2>1, NewBlocksBlocks
    <3>2. QED
      BY <2>1, <3>1 DEF Sound
  <2>2. CASE b \in (Len(bs) + 1)..(Len(bs) + k)
    <3>1. NewBlocks(bs, k)[b] = <<>> /\ Len(<<>>) = 0
      BY <2>2, NewBlocksBlocks
    <3>2. QED
      BY <3>1 DEF SoundBlock
  <2>3. QED
    BY <1>1, <2>1, <2>2
<1>3. QED
  BY <1>1, <1>2 DEF Sound

LEMMA SoundPut ==
  ASSUME NEW bs \in BlockSeq, NEW n, NEW P, Sound(bs, n, P),
         NEW b \in OpenBlocks(bs), NEW ins \in Instr,
         Apt(ins, n, P), ins.op # "landingpad"
  PROVE  Sound(Put(bs, b, ins), n, P)
<1>1. b \in 1..Len(bs) /\ Len(bs) \in Nat /\ Len(Put(bs, b, ins)) = Len(bs)
  BY PutType, LenProperties DEF BlockSeq, OpenBlocks
<1> DEFINE c == bs[b]
           d == Append(bs[b], ins)
<1>2. /\ Len(c) \in Nat /\ Len(d) = Len(c) + 1 /\ d[Len(c) + 1] = ins
      /\ \A i \in 1..Len(c) : d[i] = c[i]
  BY <1>1, PutBlocks
<1>3. Put(bs, b, ins)[b] = d /\ \A e \in 1..Len(bs) \ {b} : Put(bs, b, ins)[e] = bs[e]
  BY <1>1, PutBlocks
<1>4. SoundBlock(c, n, P)
  BY <1>1 DEF Sound
<1>5. Len(c) > 0 => ~IsTerminator(c[Len(c)])
  BY DEF OpenBlocks, HasTerminator
<1> HIDE DEF c, d
<1>6. ASSUME NEW i \in 1..Len(d)
      PROVE  /\ IsTerminator(d[i]) => i = Len(d)
             /\ d[i].op = "landingpad" => i = 1
             /\ Apt(d[i], n, P)
  <2>1. CASE i = Len(c) + 1
    BY <1>2, <2>1
  <2>2. CASE i \in 1..Len(c)
    <3>1. /\ IsTerminator(c[i]) => i = Len(c)
          /\ c[i].op = "landingpad" => i = 1
          /\ Apt(c[i], n, P)
      BY <1>4, <2>2 DEF SoundBlock
    <3>2. ~IsTerminator(c[i])
      BY <1>2, <1>5, <2>2, <3>1
    <3>3. QED
      BY <1>2, <2>2, <3>1, <3>2
  <2>3. QED
    BY <1>2, <2>1, <2>2
<1>7. SoundBlock(d, n, P)
  BY <1>6 DEF SoundBlock
<1>8. ASSUME NEW e \in 1..Len(bs) PROVE SoundBlock(Put(bs, b, ins)[e], n, P)
  BY <1>3, <1>7 DEF Sound
<1>9. QED
  BY <1>1, <1>8 DEF Sound

LEMMA BrApt ==
  ASSUME NEW n, NEW P, NEW t \in (2..n) \ P, n \in Nat
  PROVE  /\ Apt(Br(t), n, P) /\ Br(t) \in Instr /\ Br(t).op # "landingpad"
         /\ IsTerminator(Br(t))
<1>1. t \in Nat /\ Br(t) \in Instr
  BY InsType
<1>2. Br(t).op = "br" /\ Br(t).to = <<t>>
  BY DEF Br, Ins
<1>3. Len(<<t>>) = 1 /\ <<t>>[1] = t
  OBVIOUS
<1>4. QED
  BY <1>1, <1>2, <1>3 DEF Apt, IsTerminator, Terminators

LEMMA SoundBranch ==
  ASSUME NEW bs \in BlockSeq, NEW n \in Nat, NEW P, Sound(bs, n, P),
         NEW c \in OpenBlocks(bs) \cup {0}, NEW t \in (2..n) \ P
  PROVE  Sound(BranchIfLive(bs, c, t), n, P)
<1>1. CASE c = 0
  BY <1>1 DEF BranchIfLive
<1>2. CASE c # 0
  <2>1. c \in OpenBlocks(bs) /\ BranchIfLive(bs, c, t) = Put(bs, c, Br(t))
    BY <1>2 DEF BranchIfLive
  <2>2. QED
    BY <2>1, BrApt, SoundPut
<1>3. QED
  BY <1>1, <1>2

LEMMA SoundFill ==
  ASSUME NEW bs \in BlockSeq, NEW n \in Nat, NEW P, Sound(bs, n, P),
         NEW p \in EmptyBlocks(bs), NEW t \in (2..n) \ P
  PROVE  Sound(FillPad(bs, p, t), n, P)
<1> DEFINE lp == Ins("landingpad", <<>>)
           fb == FillPad(bs, p, t)
<1>1. t \in Nat /\ Apt(Br(t), n, P) /\ Br(t).op # "landingpad"
  BY BrApt
<1>2. lp.op = "landingpad" /\ ~IsTerminator(lp) /\ Apt(lp, n, P)
  <2>1. lp.op = "landingpad" /\ lp.to = <<>> /\ Len(<<>>) = 0
    BY DEF Ins
  <2>2. QED
    BY <2>1 DEF Apt, IsTerminator, Terminators
<1>3. /\ Len(fb) = Len(bs)
      /\ \A c \in 1..Len(bs) \ {p} : fb[c] = bs[c]
      /\ Len(fb[p]) = 2 /\ fb[p][1] = lp /\ fb[p][2] = Br(t)
  BY <1>1, FillPadIs
<1> HIDE DEF lp, fb
<1>4. SoundBlock(fb[p], n, P)
  <2>1. ASSUME NEW i \in 1..2
        PROVE  /\ IsTerminator(fb[p][i]) => i = 2
               /\ fb[p][i].op = "landingpad" => i = 1
               /\ Apt(fb[p][i], n, P)
    <3>1. CASE i = 1
      BY <1>2, <1>3, <3>1
    <3>2. CASE i = 2
      BY <1>1, <1>3, <3>2
    <3>3. QED
      BY <3>1, <3>2
  <2>2. QED
    BY <1>3, <2>1 DEF SoundBlock
<1>5. ASSUME NEW b \in 1..Len(bs) PROVE SoundBlock(fb[b], n, P)
  BY <1>3, <1>4 DEF Sound
<1>6. QED
  BY <1>3, <1>5 DEF Sound, fb

-----------------------------------------------------------------------------
(* The code that has been generated: an invariant about what is in the      *)
(* blocks and about the blocks the state of the walk has a use for.         *)

PadSet == Landing(blocks) \cup Elements(padStack)
Plain == (2..Len(blocks)) \ PadSet
LabelBlocks == {labelmap[l] : l \in Label} \ {0}

\* The blocks a task will branch to.
Named(t) ==
  CASE t.op = "join" -> {t.bb[1], t.bb[2]}
    [] t.op = "case" -> (t.bb[3] + 1)..(t.bb[3] + Len(t.n.kids))
    [] t.op = "deferCatch" -> {t.bb[1], t.bb[3]}
    [] t.op \in {"deferEnd", "excepFinally"} -> {t.bb[1]}
    [] t.op = "excepCatch" -> {t.bb[2]}
    [] OTHER -> {}

NamesIn(w, X) == \A i \in 1..Len(w) : Named(w[i]) \subseteq X

CodeInv ==
  /\ Len(blocks) >= 1
  /\ Sound(blocks, Len(blocks), PadSet)
  /\ PadSet \subseteq 2..Len(blocks)
  /\ Elements(padStack) \subseteq EmptyBlocks(blocks)
  /\ LabelBlocks \subseteq Plain
  /\ \A k, l \in Label : labelmap[k] # 0 /\ labelmap[k] = labelmap[l] => k = l
  /\ finallyBlock # 0 => finallyBlock \in Plain
  /\ NamesIn(work, Plain \ LabelBlocks)

\* A stack of tasks names what its parts name.
LEMMA NamesConcat ==
  ASSUME NEW v \in Seq(Task), NEW w \in Seq(Task), NEW X, NamesIn(v, X), NamesIn(w, X)
  PROVE  NamesIn(v \o w, X)
<1>1. /\ Len(v) \in Nat /\ Len(w) \in Nat /\ Len(v \o w) = Len(v) + Len(w)
      /\ \A i \in 1..(Len(v) + Len(w)) :
           (v \o w)[i] = IF i <= Len(v) THEN v[i] ELSE w[i - Len(v)]
  BY ConcatProperties, LenProperties
<1>2. ASSUME NEW i \in 1..(Len(v) + Len(w)) PROVE Named((v \o w)[i]) \subseteq X
  <2>1. CASE i <= Len(v)
    <3>1. i \in 1..Len(v) /\ (v \o w)[i] = v[i]
      BY <1>1, <2>1
    <3>2. QED
      BY <3>1 DEF NamesIn
  <2>2. CASE ~(i <= Len(v))
    <3>1. i - Len(v) \in 1..Len(w) /\ (v \o w)[i] = w[i - Len(v)]
      BY <1>1, <2>2
    <3>2. QED
      BY <3>1 DEF NamesIn
  <2>3. QED
    BY <2>1, <2>2
<1>3. QED
  BY <1>1, <1>2 DEF NamesIn

\* The tasks under the head name what they named.
LEMMA NamesTail ==
  ASSUME NEW w \in Seq(Task), w # <<>>, NEW X, NEW Y, NamesIn(w, X), X \subseteq Y
  PROVE  Named(Head(w)) \subseteq X /\ NamesIn(Tail(w), Y)
<1>1. /\ Len(w) \in Nat /\ Len(w) >= 1 /\ Head(w) = w[1]
      /\ Len(Tail(w)) = Len(w) - 1
      /\ \A i \in 1..(Len(w) - 1) : Tail(w)[i] = w[i + 1]
  BY HeadTailProperties, LenProperties, EmptySeq
<1>2. 1 \in 1..Len(w) /\ \A i \in 1..(Len(w) - 1) : i + 1 \in 1..Len(w)
  BY <1>1
<1>3. QED
  BY <1>1, <1>2 DEF NamesIn

\* A step that leaves the labels alone: the pads among the old blocks are the same.
LEMMA CodeStep ==
  ASSUME TypeOK, CodeInv, work # <<>>, Len(blocks') \in Nat, Len(blocks) <= Len(blocks'),
         UNCHANGED labelmap,
         NEW first \in Seq(Task), Continue(first), NamesIn(first, (Plain \ LabelBlocks)'),
         PadSet' \cap 1..Len(blocks) = PadSet, PadSet' \subseteq 2..Len(blocks'),
         Sound(blocks', Len(blocks'), PadSet'),
         Elements(padStack') \subseteq EmptyBlocks(blocks'),
         finallyBlock' \in Plain' \cup {0, finallyBlock}
  PROVE  CodeInv'
<1>1. Len(blocks) \in Nat /\ work \in Seq(Task) /\ Tail(work) \in Seq(Task)
  BY LenProperties, HeadTailProperties DEF TypeOK
<1>2. Plain \subseteq Plain'
  BY <1>1 DEF Plain
<1>3. LabelBlocks' = LabelBlocks
  BY DEF LabelBlocks
<1>4. LabelBlocks' \subseteq Plain'
  BY <1>2, <1>3 DEF CodeInv
<1>5. (\A k, l \in Label : labelmap[k] # 0 /\ labelmap[k] = labelmap[l] => k = l)'
  BY DEF CodeInv
<1>6. finallyBlock' # 0 => finallyBlock' \in Plain'
  BY <1>2 DEF CodeInv
<1>7. NamesIn(work', (Plain \ LabelBlocks)')
  <2>1. NamesIn(Tail(work), (Plain \ LabelBlocks)')
    <3>1. NamesIn(work, Plain \ LabelBlocks)
      BY DEF CodeInv
    <3>2. Plain \ LabelBlocks \subseteq (Plain \ LabelBlocks)'
      BY <1>2, <1>3
    <3>3. QED
      BY <1>1, <3>1, <3>2, NamesTail
  <2>2. NamesIn(first \o Tail(work), (Plain \ LabelBlocks)')
    BY <1>1, <2>1, NamesConcat
  <2>3. QED
    BY <2>2 DEF Continue
<1>8. Len(blocks') >= 1
  BY <1>1 DEF CodeInv
<1>9. QED
  BY <1>4, <1>5, <1>6, <1>7, <1>8 DEF CodeInv

\* A step that also leaves the pads alone.
LEMMA CodeKeeps ==
  ASSUME TypeOK, CodeInv, work # <<>>, Len(blocks') \in Nat, Len(blocks) <= Len(blocks'),
         UNCHANGED <<labelmap, padStack>>,
         NEW first \in Seq(Task), Continue(first),
         NamesIn(first, ((2..Len(blocks')) \ PadSet) \ LabelBlocks),
         Landing(blocks') = Landing(blocks),
         Sound(blocks', Len(blocks'), PadSet),
         Elements(padStack) \subseteq EmptyBlocks(blocks'),
         finallyBlock' \in {0, finallyBlock}
  PROVE  CodeInv' /\ PadSet' = PadSet
<1>1. Len(blocks) \in Nat
  BY LenProperties DEF TypeOK
<1>2. PadSet' = PadSet
  BY DEF PadSet
<1>3. PadSet \subseteq 2..Len(blocks)
  BY DEF CodeInv
<1>4. PadSet' \cap 1..Len(blocks) = PadSet /\ PadSet' \subseteq 2..Len(blocks')
  <2>1. \A x \in PadSet : x \in 1..Len(blocks) /\ x \in 2..Len(blocks')
    BY <1>1, <1>3
  <2>2. PadSet \cap 1..Len(blocks) = PadSet /\ PadSet \subseteq 2..Len(blocks')
    BY <2>1
  <2>3. QED
    BY <1>2, <2>1, <2>2
<1>5. LabelBlocks' = LabelBlocks
  BY DEF LabelBlocks
<1>6. (Plain \ LabelBlocks)' = ((2..Len(blocks')) \ PadSet) \ LabelBlocks
  BY <1>2, <1>5 DEF Plain
<1>7. NamesIn(first, (Plain \ LabelBlocks)')
  BY <1>6
<1>8. Sound(blocks', Len(blocks'), PadSet')
  BY <1>2
<1>9. Elements(padStack') \subseteq EmptyBlocks(blocks') /\ finallyBlock' \in Plain' \cup {0, finallyBlock}
  OBVIOUS
<1>10. CodeInv'
  BY <1>4, <1>7, <1>8, <1>9, CodeStep
<1>11. QED
  BY <1>2, <1>10

-----------------------------------------------------------------------------
(* Who will close the open blocks.  Between two tasks, the rest of the      *)
(* stack has claims: it holds the blocks it will go on in or fill, the      *)
(* landing pads of padBlockStack_ among them, and it has labels to define.  *)
(* All open blocks but the current one are held, or belong to one of these  *)
(* labels.  "end" is "open" when the current block, if any, is open,        *)
(* "closed" when it is not, and "done" when nothing is put into it any more *)
(* but a final ret instruction.                                             *)

Claim ==
  {c \in [held : SUBSET Nat, pads : Seq(Nat), defs : SUBSET Label,
          end : {"open", "closed", "done"}] : Elements(c.pads) \subseteq c.held}

Claimed(held, pads, defs, end) ==
  [held |-> held, pads |-> pads, defs |-> defs, end |-> end]

\* The blocks of labels that have been mentioned.
Pending(defs) == {labelmap[l] : l \in defs} \ {0}

\* The state is as a claim says.
Claims(r, c) ==
  /\ padStack = c.pads
  /\ OpenBlocks(blocks) \ {cur} = c.held \cup Pending(c.defs)
  /\ cur \notin c.held \cup Pending(c.defs)
  /\ c.held \cap Pending(c.defs) = {}
  /\ c.end = "open" => cur \in OpenBlocks(blocks) \cup {0}
  /\ c.end = "closed" => cur \notin OpenBlocks(blocks)
  /\ c.defs \subseteq r.labels
  /\ \A l \in r.labels \ c.defs : labelmap[l] # 0
  /\ cachedReturn # NoNode => cachedReturn \in r.nodes

\* a claims these blocks and labels and what b claims.
Spends(a, b, held, defs) ==
  /\ a.held = held \cup b.held /\ held \cap b.held = {}
  /\ a.defs = defs \cup b.defs /\ defs \cap b.defs = {}

\* Control goes on.
Runs(a, b) == a.end = "open" /\ b.end \in {"open", "done"}

SettlesWalk(r, a, n, b) ==
  /\ a.pads = b.pads /\ a.end = "open"
  /\ IF b.end = "closed"
     THEN ReturnExpr(r, n) /\ Spends(a, b, {}, {})
     ELSE /\ n \in r.nodes /\ Spends(a, b, {}, r.defs[n])
          /\ n \in r.tails => b.end = "done"

SettlesInsts(r, a, t, b) ==
  /\ a.pads = b.pads /\ Spends(a, b, {}, {})
  /\ IF b.end = "closed"
     THEN /\ ReturnExpr(r, t.n)
          /\ a.end = IF t.bb[1] <= Len(t.n.insts) THEN "open" ELSE "closed"
     ELSE NoReturns(t.n) /\ a.end = "open"

\* The blocks of the cases from number i on, and the epilog.
CaseBlocks(n, base, i) == (base + i)..(base + Len(n.kids))

SettlesCase(r, a, n, i, value, base, b) ==
  /\ n \in r.nodes /\ a.pads = b.pads /\ Runs(a, b)
  /\ Spends(a, b, (IF i > 1 THEN {value} ELSE {}) \cup CaseBlocks(n, base, i),
            DefsFrom(r, n, i + 1))
  /\ value \notin CaseBlocks(n, base, 1) \cup b.held
  /\ i > 1 => base + i - 1 \notin b.held

SettlesPad(r, a, t, b, pad, defs) ==
  /\ t.n \in r.nodes /\ a.end = "open"
  /\ a.pads = Append(b.pads, pad)
  /\ Spends(a, b, {t.bb[1], t.bb[2]}, defs) /\ t.bb[1] # t.bb[2]
  /\ b.end = "done"

\* Task t leads from claim a to claim b.
Settles(r, a, t, b) ==
  /\ t.op = "walk" => SettlesWalk(r, a, t.n, b)
  /\ t.op = "insts" => SettlesInsts(r, a, t, b)
  /\ t.op \in {"ifArms", "cases"} =>
       /\ t.n \in r.nodes /\ a.pads = b.pads /\ Runs(a, b)
       /\ Spends(a, b, {}, DefsFrom(r, t.n, 2))
  /\ t.op = "join" => a.pads = b.pads /\ Runs(a, b) /\ Spends(a, b, {t.bb[2]}, {})
  /\ t.op = "case" => SettlesCase(r, a, t.n, t.bb[1], t.bb[2], t.bb[3], b)
  /\ t.op = "returnEnd" => /\ a.pads = b.pads /\ Spends(a, b, {}, {})
                           /\ a.end = "closed" /\ b.end \in {"open", "done"}
  /\ t.op = "deferCatch" =>
       /\ t.n \in r.nodes /\ a.pads = Append(b.pads, t.bb[2]) /\ Runs(a, b)
       /\ Spends(a, b, {t.bb[2], t.bb[3]}, r.defs[t.n.kids[2]]) /\ t.bb[2] # t.bb[3]
  /\ t.op = "deferEnd" => a.pads = b.pads /\ Runs(a, b) /\ Spends(a, b, {t.bb[3]} \ {0}, {})
  /\ t.op = "excepCatch" => SettlesPad(r, a, t, b, t.bb[1], DefsFrom(r, t.n, 2))
  /\ t.op = "excepFinally" => SettlesPad(r, a, t, b, t.bb[2], DefsFrom(r, t.n, 3))
  /\ t.op \in {"excepReturn", "excepEnd"} =>
       /\ a.pads = b.pads /\ Spends(a, b, {}, {}) /\ b.end = "done"
       /\ a.end = IF t.op = "excepReturn" THEN "open" ELSE "closed"

Settled(r) == {x \in Claim \X Task \X Claim : Settles(r, x[1], x[2], x[3])}

\* At the end of the walk nothing is claimed.
Final(b) == b.held = {} /\ b.pads = <<>> /\ b.defs = {} /\ b.end \in {"open", "done"}

\* The claims of the stack fit the state, and its tasks settle all of them.
ClaimInv(r) ==
  /\ Lays(r)
  /\ status = "walking" =>
       \E a, b \in Claim : Claims(r, a) /\ Final(b) /\ Leads(Settled(r), Claim, a, work, b)
  /\ status = "done" => OpenBlocks(blocks) = {}

\* The fields of a claim.
LEMMA ClaimIs ==
  ASSUME NEW c \in Claim
  PROVE  /\ c.held \in SUBSET Nat /\ c.pads \in Seq(Nat) /\ c.defs \in SUBSET Label
         /\ c.end \in {"open", "closed", "done"} /\ Elements(c.pads) \subseteq c.held
BY DEF Claim

LEMMA ClaimType ==
  ASSUME NEW held \in SUBSET Nat, NEW pads \in Seq(Nat), NEW defs \in SUBSET Label,
         NEW end \in {"open", "closed", "done"}, Elements(pads) \subseteq held
  PROVE  /\ Claimed(held, pads, defs, end) \in Claim
         /\ Claimed(held, pads, defs, end).held = held
         /\ Claimed(held, pads, defs, end).pads = pads
         /\ Claimed(held, pads, defs, end).defs = defs
         /\ Claimed(held, pads, defs, end).end = end
<1> DEFINE c == Claimed(held, pads, defs, end)
<1>1. c.held = held /\ c.pads = pads /\ c.defs = defs /\ c.end = end
  BY DEF Claimed
<1>2. c \in [held : SUBSET Nat, pads : Seq(Nat), defs : SUBSET Label,
             end : {"open", "closed", "done"}]
  BY DEF Claimed
<1> HIDE DEF c
<1>3. c \in Claim
  BY <1>1, <1>2 DEF Claim
<1>4. QED
  BY <1>1, <1>3 DEF c

\* The head task leads from the claims of the stack to those of the rest.
LEMMA ClaimPop ==
  ASSUME TypeOK, NEW r, ClaimInv(r), status = "walking", work # <<>>
  PROVE  \E a, m, b \in Claim :
            /\ Claims(r, a) /\ Settles(r, a, Head(work), m)
            /\ Final(b) /\ Leads(Settled(r), Claim, m, Tail(work), b)
<1>1. PICK a \in Claim, b \in Claim :
        Claims(r, a) /\ Final(b) /\ Leads(Settled(r), Claim, a, work, b)
  BY DEF ClaimInv
<1>2. work \in Seq(Task)
  BY DEF TypeOK
<1>3. PICK m \in Claim :
        <<a, Head(work), m>> \in Settled(r) /\ Leads(Settled(r), Claim, m, Tail(work), b)
  BY <1>1, <1>2, LeadsHead
<1>4. Settles(r, a, Head(work), m)
  BY <1>3 DEF Settled
<1>5. QED
  BY <1>1, <1>3, <1>4

\* The head task may be replaced by tasks that settle what is claimed then.
LEMMA ClaimPush ==
  ASSUME TypeOK, NEW r, Lays(r), work # <<>>, status' = "walking",
         NEW first \in Seq(Task), Continue(first),
         NEW a \in Claim, NEW m \in Claim, NEW b \in Claim, Final(b),
         Claims(r, a)', Leads(Settled(r), Claim, a, first, m),
         Leads(Settled(r), Claim, m, Tail(work), b)
  PROVE  ClaimInv(r)'
<1>1. Tail(work) \in Seq(Task)
  BY HeadTailProperties DEF TypeOK
<1>2. Leads(Settled(r), Claim, a, first \o Tail(work), b)
  BY <1>1, LeadsOn
<1>3. Leads(Settled(r), Claim, a, work', b)
  BY <1>2 DEF Continue
<1>4. QED
  BY <1>3 DEF ClaimInv

\* ClaimPush for no new task, for one, and for two.
LEMMA ClaimPushNone ==
  ASSUME TypeOK, NEW r, Lays(r), work # <<>>, status' = "walking", Continue(<<>>),
         NEW m \in Claim, NEW b \in Claim, Final(b), Claims(r, m)',
         Leads(Settled(r), Claim, m, Tail(work), b)
  PROVE  ClaimInv(r)'
BY LeadsNone, ClaimPush, EmptySeq

LEMMA ClaimPushOne ==
  ASSUME TypeOK, NEW r, Lays(r), work # <<>>, status' = "walking",
         NEW t \in Task, Continue(<<t>>),
         NEW a \in Claim, NEW m \in Claim, NEW b \in Claim, Final(b), Claims(r, a)',
         Settles(r, a, t, m), Leads(Settled(r), Claim, m, Tail(work), b)
  PROVE  ClaimInv(r)'
<1>1. <<a, t, m>> \in Settled(r)
  BY DEF Settled
<1>2. Leads(Settled(r), Claim, a, <<t>>, m) /\ <<t>> \in Seq(Task)
  BY <1>1, LeadsOne
<1>3. QED
  BY <1>2, ClaimPush

LEMMA ClaimPushTwo ==
  ASSUME TypeOK, NEW r, Lays(r), work # <<>>, status' = "walking",
         NEW t \in Task, NEW u \in Task, Continue(<<t, u>>),
         NEW a \in Claim, NEW c \in Claim, NEW m \in Claim, NEW b \in Claim, Final(b),
         Claims(r, a)', Settles(r, a, t, c), Settles(r, c, u, m),
         Leads(Settled(r), Claim, m, Tail(work), b)
  PROVE  ClaimInv(r)'
<1>1. <<a, t, c>> \in Settled(r) /\ <<c, u, m>> \in Settled(r)
  BY DEF Settled
<1>2. Leads(Settled(r), Claim, a, <<t, u>>, m) /\ <<t, u>> \in Seq(Task)
  BY <1>1, LeadsTwo
<1>3. QED
  BY <1>2, ClaimPush

\* The open blocks, when the current block is one of them or there is none.
LEMMA ClaimsGive ==
  ASSUME TypeOK, NEW r, NEW a \in Claim, Claims(r, a)
  PROVE  /\ Len(blocks) \in Nat /\ blocks \in BlockSeq /\ cur \in 0..Len(blocks)
         /\ OpenBlocks(blocks) \subseteq 1..Len(blocks)
         /\ a.held \subseteq OpenBlocks(blocks) /\ Pending(a.defs) \subseteq OpenBlocks(blocks)
         /\ a.end = "open" =>
              OpenBlocks(blocks) = a.held \cup Pending(a.defs) \cup ({cur} \ {0})
         /\ a.end = "closed" => OpenBlocks(blocks) = a.held \cup Pending(a.defs)
<1>1. Len(blocks) \in Nat /\ blocks \in BlockSeq /\ cur \in 0..Len(blocks)
  BY LenProperties DEF TypeOK, BlockSeq
<1>2. OpenBlocks(blocks) \subseteq 1..Len(blocks)
  BY DEF OpenBlocks
<1> DEFINE O == OpenBlocks(blocks)
           Q == Pending(a.defs)
<1>3. /\ O \ {cur} = a.held \cup Q
      /\ a.end = "open" => cur \in O \cup {0}
      /\ a.end = "closed" => cur \notin O
  BY DEF Claims
<1>4. 0 \notin O
  BY <1>2
<1> HIDE DEF O, Q
<1>5. a.held \subseteq O /\ Q \subseteq O
  BY <1>3
<1>6. a.end = "open" => O = a.held \cup Q \cup ({cur} \ {0})
  BY <1>3, <1>4
<1>7. a.end = "closed" => O = a.held \cup Q
  BY <1>3
<1>8. QED
  BY <1>1, <1>2, <1>5, <1>6, <1>7 DEF O, Q

\* The claims of the next state, when the labels stay as they are.
LEMMA ClaimsNext ==
  ASSUME NEW r, NEW a \in Claim, Claims(r, a), UNCHANGED labelmap,
         NEW z \in Claim, z.defs = a.defs, padStack' = z.pads,
         cachedReturn' # NoNode => cachedReturn' \in r.nodes,
         cur' \notin z.held \cup Pending(a.defs),
         z.held \cap Pending(a.defs) = {},
         0 \notin z.held \cup Pending(a.defs),
         OpenBlocks(blocks') = IF z.end = "closed"
                               THEN z.held \cup Pending(a.defs)
                               ELSE z.held \cup Pending(a.defs) \cup ({cur'} \ {0})
  PROVE  Claims(r, z)'
<1> DEFINE O == OpenBlocks(blocks')
           Q == Pending(a.defs)
<1>1. Pending(z.defs)' = Q
  BY DEF Pending
<1>2. z.end \in {"open", "closed", "done"}
  BY ClaimIs
<1>3. /\ cur' \notin z.held \cup Q /\ 0 \notin z.held \cup Q /\ z.held \cap Q = {}
      /\ O = IF z.end = "closed" THEN z.held \cup Q ELSE z.held \cup Q \cup ({cur'} \ {0})
  OBVIOUS
<1> HIDE DEF O, Q
<1>4. O \ {cur'} = z.held \cup Q
  BY <1>3
<1>5. z.end = "open" => cur' \in O \cup {0}
  BY <1>3
<1>6. z.end = "closed" => cur' \notin O
  BY <1>3
<1>7. /\ z.defs \subseteq r.labels
      /\ \A l \in r.labels \ z.defs : labelmap'[l] # 0
  BY DEF Claims
<1>8. QED
  BY <1>1, <1>3, <1>4, <1>5, <1>6, <1>7 DEF Claims, O

-----------------------------------------------------------------------------
(* The layout of the body.                                                  *)

LEMMA LayoutGives ==
  ASSUME NEW r, Lays(r), NEW n \in r.nodes
  PROVE  /\ n \in Node /\ LayoutRule(r, n) /\ r.defs[n] \in SUBSET Label
         /\ n.k # "return" => \A i \in 1..Len(n.kids) : n.kids[i] \in r.nodes
         /\ n.k # "block" => \A i \in 1..Len(n.kids) : n.kids[i] \notin r.tails
         /\ n.k \notin {"label", "goto", "return"} => r.defs[n] = DefsFrom(r, n, 1)
<1>1. n \in Node /\ LayoutRule(r, n) /\ r.defs[n] \in SUBSET Label
  BY DEF Lays, IsLayout
<1>2. DOMAIN n.kids = 1..Len(n.kids)
  BY <1>1, NodeType, LenProperties
<1>3. n.k # "return" => \A i \in 1..Len(n.kids) : n.kids[i] \in r.nodes
  BY <1>1, <1>2 DEF LayoutRule
<1>4. n.k # "block" => \A i \in 1..Len(n.kids) : n.kids[i] \notin r.tails
  BY <1>1, <1>2 DEF LayoutRule, TailRule
<1>5. n.k \notin {"label", "goto", "return"} => r.defs[n] = DefsFrom(r, n, 1)
  BY <1>1 DEF LayoutRule
<1>6. QED
  BY <1>1, <1>3, <1>4, <1>5

\* The next number.
Follows(h, i) == h = i + 1

\* The labels of the children from number i on are those of child i, and others.
LEMMA DefsSplit ==
  ASSUME NEW r, Lays(r), NEW n \in r.nodes, n.k \notin {"label", "goto", "return"},
         NEW i \in 1..Len(n.kids), NEW h, Follows(h, i)
  PROVE  /\ DefsFrom(r, n, i) = r.defs[n.kids[i]] \cup DefsFrom(r, n, h)
         /\ r.defs[n.kids[i]] \cap DefsFrom(r, n, h) = {}
         /\ r.defs[n.kids[i]] \in SUBSET Label
<1>1. /\ n \in Node /\ \A j \in 1..Len(n.kids) : n.kids[j] \in r.nodes
      /\ LayoutRule(r, n)
  BY LayoutGives
<1>2. DOMAIN n.kids = 1..Len(n.kids) /\ Len(n.kids) \in Nat
  BY <1>1, NodeType, LenProperties
<1>3. \A j, k \in 1..Len(n.kids) : j # k => r.defs[n.kids[j]] \cap r.defs[n.kids[k]] = {}
  BY <1>1, <1>2 DEF LayoutRule, DefsApart
<1>4. i..Len(n.kids) = {i} \cup h..Len(n.kids) /\ i \notin h..Len(n.kids)
  BY <1>2 DEF Follows
<1>5. DefsFrom(r, n, i) = r.defs[n.kids[i]] \cup DefsFrom(r, n, h)
  BY <1>4 DEF DefsFrom
<1>6. \A k \in h..Len(n.kids) : k \in 1..Len(n.kids) /\ i # k
  BY <1>2 DEF Follows
<1>7. r.defs[n.kids[i]] \cap DefsFrom(r, n, h) = {}
  BY <1>3, <1>6 DEF DefsFrom
<1>8. r.defs[n.kids[i]] \in SUBSET Label
  BY <1>1, LayoutGives
<1>9. QED
  BY <1>5, <1>7, <1>8

LEMMA DefsType ==
  ASSUME NEW r, Lays(r), NEW n \in r.nodes, n.k # "return", NEW i \in Nat, i >= 1
  PROVE  /\ DefsFrom(r, n, i) \in SUBSET Label
         /\ i > Len(n.kids) => DefsFrom(r, n, i) = {}
<1>1. n \in Node /\ \A j \in 1..Len(n.kids) : n.kids[j] \in r.nodes
  BY LayoutGives
<1>2. Len(n.kids) \in Nat
  BY <1>1, NodeType
<1>3. \A j \in i..Len(n.kids) : r.defs[n.kids[j]] \in SUBSET Label
  <2>1. \A j \in i..Len(n.kids) : j \in 1..Len(n.kids)
    BY <1>2
  <2>2. QED
    BY <1>1, <2>1, LayoutGives
<1>4. DefsFrom(r, n, i) \in SUBSET Label
  BY <1>3 DEF DefsFrom
<1>5. i > Len(n.kids) => i..Len(n.kids) = {}
  BY <1>2
<1>6. QED
  BY <1>4, <1>5 DEF DefsFrom

-----------------------------------------------------------------------------
(* The actions that only move tasks.                                        *)

\* Tasks that have no branch to make.
LEMMA NamedNone ==
  ASSUME NEW n, NEW bb
  PROVE  /\ Named(Walk(n)) = {}
         /\ \A op \in {"insts", "ifArms", "cases", "returnEnd", "excepReturn", "excepEnd"} :
              Named(Do(op, n, bb)) = {}
BY DEF Named, Walk, Do

LEMMA NamesFew ==
  ASSUME NEW X
  PROVE  /\ NamesIn(<<>>, X)
         /\ \A t : Named(t) \subseteq X => NamesIn(<<t>>, X)
         /\ \A t, u : Named(t) \subseteq X /\ Named(u) \subseteq X => NamesIn(<<t, u>>, X)
<1>1. NamesIn(<<>>, X)
  BY DEF NamesIn
<1>2. ASSUME NEW t, Named(t) \subseteq X PROVE NamesIn(<<t>>, X)
  <2>1. Len(<<t>>) = 1 /\ <<t>>[1] = t
    OBVIOUS
  <2>2. QED
    BY <1>2, <2>1 DEF NamesIn
<1>3. ASSUME NEW t, NEW u, Named(t) \subseteq X, Named(u) \subseteq X
      PROVE  NamesIn(<<t, u>>, X)
  <2>1. Len(<<t, u>>) = 2 /\ <<t, u>>[1] = t /\ <<t, u>>[2] = u
    OBVIOUS
  <2>2. ASSUME NEW i \in 1..2 PROVE Named(<<t, u>>[i]) \subseteq X
    <3>1. CASE i = 1
      BY <1>3, <2>1, <3>1
    <3>2. CASE i = 2
      BY <1>3, <2>1, <3>2
    <3>3. QED
      BY <3>1, <3>2
  <2>3. QED
    BY <2>1, <2>2 DEF NamesIn
<1>4. QED
  BY <1>1, <1>2, <1>3

\* The code stays as it is.
LEMMA CodeIdle ==
  ASSUME TypeOK, CodeInv, work # <<>>, UNCHANGED <<blocks, labelmap, padStack>>,
         finallyBlock' \in {0, finallyBlock},
         NEW first \in Seq(Task), Continue(first), NamesIn(first, Plain \ LabelBlocks)
  PROVE  CodeInv'
<1>1. Len(blocks) \in Nat
  BY LenProperties DEF TypeOK
<1>2. NamesIn(first, ((2..Len(blocks')) \ PadSet) \ LabelBlocks)
  BY DEF Plain
<1>3. Sound(blocks', Len(blocks'), PadSet) /\ Elements(padStack) \subseteq EmptyBlocks(blocks')
  BY DEF CodeInv
<1>4. Len(blocks') \in Nat /\ Len(blocks) <= Len(blocks') /\ Landing(blocks') = Landing(blocks)
  BY <1>1
<1>5. QED
  BY <1>2, <1>3, <1>4, CodeKeeps

\* The state is as it was.
LEMMA ClaimsStay ==
  ASSUME NEW r, NEW a, Claims(r, a),
         UNCHANGED <<blocks, cur, labelmap, padStack>>,
         cachedReturn' \in {cachedReturn, NoNode},
         NEW z, z.held = a.held, z.pads = a.pads, z.defs = a.defs,
         z.end \in {a.end, "done"}
  PROVE  Claims(r, z)'
BY DEF Claims, Pending

\* Walking a condition or a switch value comes first, and opens nothing.
LEMMA CfgWalkFirst ==
  ASSUME TypeOK, NEW r, CodeInv, ClaimInv(r), NEW op \in {"ifArms", "cases"},
         work # <<>>, status = "walking", UNCHANGED status, Head(work).op = "walk",
         TheNode.k \in {"if", "switch"}, Len(TheNode.kids) >= 1,
         Continue(<<Walk(TheNode.kids[1]), Do(op, TheNode, <<>>)>>),
         UNCHANGED <<cur, blocks, labelmap, padStack, finallyBlock, cachedReturn>>
  PROVE  CodeInv' /\ ClaimInv(r)'
<1>1. PICK a \in Claim, m \in Claim, b \in Claim :
        /\ Claims(r, a) /\ Settles(r, a, Head(work), m)
        /\ Final(b) /\ Leads(Settled(r), Claim, m, Tail(work), b)
  BY ClaimPop
<1>2. PICK n \in Node : n = TheNode
  BY HeadType
<1>3. /\ Len(n.kids) \in Nat /\ 1 \in 1..Len(n.kids) /\ n.kids[1] \in Node
      /\ n.k \in {"if", "switch"}
  <2>1. Len(n.kids) \in Nat /\ 1 \in 1..Len(n.kids)
    BY <1>2, NodeType
  <2>2. QED
    BY <1>2, <2>1, NodeType
<1> DEFINE t == Walk(n.kids[1])
           u == Do(op, n, <<>>)
<1>4. t \in Task /\ u \in Task /\ <<t, u>> \in Seq(Task) /\ Continue(<<t, u>>)
  <2>1. op \in TaskOps /\ <<>> \in Seq(Nat)
    BY EmptySeq DEF TaskOps
  <2>2. t \in Task
    BY <1>3, TaskType
  <2>3. u \in Task
    BY <2>1, TaskType
  <2>4. QED
    BY <1>2, <2>2, <2>3
<1>5. CodeInv'
  <2>1. Named(t) = {} /\ Named(u) = {}
    BY NamedNone
  <2>2. NamesIn(<<t, u>>, Plain \ LabelBlocks)
    BY <2>1, NamesFew
  <2>3. QED
    BY <1>4, <2>2, CodeIdle
<1>6. SettlesWalk(r, a, n, m) /\ Lays(r)
  BY <1>1, <1>2 DEF Settles, TheNode, ClaimInv
<1>7. m.end \in {"open", "done"}
  <2>1. ~ReturnExpr(r, n)
    BY <1>3 DEF ReturnExpr
  <2>2. QED
    BY <1>6, <2>1, ClaimIs DEF SettlesWalk
<1>8. /\ n \in r.nodes /\ a.held = m.held /\ a.pads = m.pads /\ a.end = "open"
      /\ a.defs = r.defs[n] \cup m.defs /\ r.defs[n] \cap m.defs = {}
  BY <1>6, <1>7 DEF SettlesWalk, Spends
<1>9. n.k \notin {"label", "goto", "return"} /\ n.k # "block"
  BY <1>3
<1>10. /\ r.defs[n] = r.defs[n.kids[1]] \cup DefsFrom(r, n, 2)
       /\ r.defs[n.kids[1]] \cap DefsFrom(r, n, 2) = {}
       /\ n.kids[1] \in r.nodes /\ n.kids[1] \notin r.tails
       /\ DefsFrom(r, n, 2) \in SUBSET Label
  <2>1. /\ r.defs[n] = DefsFrom(r, n, 1) /\ n.kids[1] \in r.nodes /\ n.kids[1] \notin r.tails
    BY <1>3, <1>6, <1>8, <1>9, LayoutGives
  <2>2. Follows(2, 1)
    BY DEF Follows
  <2>3. /\ DefsFrom(r, n, 1) = r.defs[n.kids[1]] \cup DefsFrom(r, n, 2)
        /\ r.defs[n.kids[1]] \cap DefsFrom(r, n, 2) = {}
    BY <1>3, <1>6, <1>8, <1>9, <2>2, DefsSplit
  <2>4. DefsFrom(r, n, 2) \in SUBSET Label
    BY <1>6, <1>8, <1>9, DefsType
  <2>5. QED
    BY <2>1, <2>2, <2>3, <2>4
<1> DEFINE z == Claimed(m.held, m.pads, DefsFrom(r, n, 2) \cup m.defs, "open")
<1>11. /\ z \in Claim /\ z.held = m.held /\ z.pads = m.pads /\ z.end = "open"
       /\ z.defs = DefsFrom(r, n, 2) \cup m.defs
  <2>1. DefsFrom(r, n, 2) \cup m.defs \in SUBSET Label
    BY <1>10, ClaimIs
  <2>2. m.held \in SUBSET Nat /\ m.pads \in Seq(Nat) /\ Elements(m.pads) \subseteq m.held
    BY ClaimIs
  <2>3. QED
    BY <2>1, <2>2, ClaimType
<1> HIDE DEF z
<1>12. Settles(r, a, t, z)
  <2>1. Spends(a, z, {}, r.defs[n.kids[1]])
    BY <1>8, <1>10, <1>11 DEF Spends
  <2>2. SettlesWalk(r, a, n.kids[1], z)
    BY <1>8, <1>10, <1>11, <2>1 DEF SettlesWalk
  <2>3. t.op = "walk" /\ t.n = n.kids[1]
    BY DEF Walk, Do
  <2>4. QED
    BY <2>2, <2>3 DEF Settles
<1>13. Settles(r, z, u, m)
  <2>1. Spends(z, m, {}, DefsFrom(r, n, 2))
    BY <1>8, <1>10, <1>11 DEF Spends
  <2>2. z.pads = m.pads /\ Runs(z, m) /\ n \in r.nodes
    BY <1>7, <1>8, <1>11 DEF Runs
  <2>3. u.op \in {"ifArms", "cases"} /\ u.n = n
    BY DEF Do
  <2>4. QED
    BY <2>1, <2>2, <2>3 DEF Settles
<1>14. Claims(r, a)'
  BY <1>1, ClaimsStay
<1>15. ClaimInv(r)'
  BY <1>1, <1>4, <1>6, <1>11, <1>12, <1>13, <1>14, ClaimPushTwo
<1>16. QED
  BY <1>5, <1>15

\* A statement that is walked settles its own labels.
LEMMA ClaimVisit ==
  ASSUME TypeOK, NEW r, ClaimInv(r), status = "walking", work # <<>>,
         Head(work).op = "walk", NEW n, n = TheNode, n.k # "expr"
  PROVE  \E a, m, b \in Claim :
            /\ Claims(r, a) /\ Final(b) /\ Leads(Settled(r), Claim, m, Tail(work), b)
            /\ n \in r.nodes /\ a.held = m.held /\ a.pads = m.pads /\ a.end = "open"
            /\ a.defs = r.defs[n] \cup m.defs /\ r.defs[n] \cap m.defs = {}
            /\ m.end \in {"open", "done"} /\ (n \in r.tails => m.end = "done")
<1>1. PICK a \in Claim, m \in Claim, b \in Claim :
        /\ Claims(r, a) /\ Settles(r, a, Head(work), m)
        /\ Final(b) /\ Leads(Settled(r), Claim, m, Tail(work), b)
  BY ClaimPop
<1>2. SettlesWalk(r, a, n, m)
  BY <1>1 DEF Settles, TheNode
<1>3. m.end \in {"open", "done"}
  <2>1. ~ReturnExpr(r, n)
    BY DEF ReturnExpr
  <2>2. QED
    BY <1>2, <2>1, ClaimIs DEF SettlesWalk
<1>4. /\ n \in r.nodes /\ a.held = m.held /\ a.pads = m.pads /\ a.end = "open"
      /\ a.defs = r.defs[n] \cup m.defs /\ r.defs[n] \cap m.defs = {}
      /\ n \in r.tails => m.end = "done"
  BY <1>2, <1>3 DEF SettlesWalk, Spends
<1>5. QED
  BY <1>1, <1>3, <1>4

\* The labels of a part of the children.
LEMMA DefsWithin ==
  ASSUME NEW r, NEW n, NEW i \in Nat, i >= 1
  PROVE  /\ DefsFrom(r, n, i) \subseteq DefsFrom(r, n, 1)
         /\ i <= Len(n.kids) /\ Len(n.kids) \in Nat => r.defs[n.kids[i]] \subseteq DefsFrom(r, n, 1)
<1>1. i..Len(n.kids) \subseteq 1..Len(n.kids)
  OBVIOUS
<1>2. i <= Len(n.kids) /\ Len(n.kids) \in Nat => i \in 1..Len(n.kids)
  OBVIOUS
<1>3. QED
  BY <1>1, <1>2 DEF DefsFrom

\* Children that settle the claims in turn.
LEMMA ClaimChildren ==
  ASSUME NEW r, NEW n \in Node,
         NEW p \in [1..(Len(n.kids) + 1) -> Claim],
         \A i \in 1..Len(n.kids) : SettlesWalk(r, p[i], n.kids[i], p[i + 1])
  PROVE  Leads(Settled(r), Claim, p[1], WalkAll(n.kids), p[Len(n.kids) + 1])
<1> DEFINE c == Len(n.kids)
           w == WalkAll(n.kids)
<1>1. c \in Nat /\ \A i \in 1..c : n.kids[i] \in Node
  BY NodeType
<1>2. Len(w) = c /\ \A i \in 1..c : w[i] = Walk(n.kids[i])
  BY <1>1 DEF WalkAll
<1>3. p \in [1..(c + 1) -> Claim] /\ \A i \in 1..c : SettlesWalk(r, p[i], n.kids[i], p[i + 1])
  OBVIOUS
<1> HIDE DEF c, w
<1>4. ASSUME NEW i \in 1..c PROVE <<p[i], w[i], p[i + 1]>> \in Settled(r)
  <2>1. p[i] \in Claim /\ p[i + 1] \in Claim
    BY <1>1, <1>3
  <2>2. Walk(n.kids[i]) \in Task
    BY <1>1, TaskType
  <2>3. Settles(r, p[i], Walk(n.kids[i]), p[i + 1])
    BY <1>3 DEF Settles, Walk, Do
  <2>4. QED
    BY <1>2, <2>1, <2>2, <2>3 DEF Settled
<1>5. QED
  BY <1>2, <1>3, <1>4 DEF Leads, c, w

\* The tasks of children have no branch to make.
LEMMA NamedChildren ==
  ASSUME NEW n \in Node, NEW X
  PROVE  NamesIn(WalkAll(n.kids), X)
<1>1. Len(n.kids) \in Nat
  BY NodeType
<1>2. /\ Len(WalkAll(n.kids)) = Len(n.kids)
      /\ \A i \in 1..Len(n.kids) : WalkAll(n.kids)[i] = Walk(n.kids[i])
  BY <1>1 DEF WalkAll
<1>3. QED
  BY <1>2, NamedNone DEF NamesIn

\* Blocks of statements, and expressions.
LEMMA CfgWalkChildren ==
  ASSUME TypeOK, NEW r, CodeInv, ClaimInv(r), WalkChildren
  PROVE  CodeInv' /\ ClaimInv(r)'
<1>1. /\ work # <<>> /\ status = "walking" /\ Head(work).op = "walk" /\ Lays(r)
      /\ Head(work).n.k \in {"block", "exprstmt", "expr"}
  BY DEF WalkChildren, Visiting, Running, ClaimInv
<1>2. PICK a \in Claim, m \in Claim, b \in Claim :
        /\ Claims(r, a) /\ Settles(r, a, Head(work), m)
        /\ Final(b) /\ Leads(Settled(r), Claim, m, Tail(work), b)
  BY <1>1, ClaimPop
<1>3. PICK n \in Node : n = TheNode
  BY <1>1, HeadType
<1> DEFINE c == Len(n.kids)
           u == Do("insts", n, <<1>>)
           own == IF n.k = "expr" THEN <<u>> ELSE <<>>
           all == WalkAll(n.kids)
<1>4. c \in Nat /\ all \in Seq(Task) /\ own \in Seq(Task) /\ u \in Task
      /\ all \o own \in Seq(Task)
  <2>1. c \in Nat /\ all \in Seq(Task) /\ own \in Seq(Task) /\ u \in Task
    BY NodeType, ChildrenTasks
  <2>2. QED
    BY <2>1, ConcatProperties
<1>5. /\ Continue(all \o own) /\ status' = "walking" /\ n.k \in {"block", "exprstmt", "expr"}
      /\ UNCHANGED <<blocks, labelmap, padStack, finallyBlock, cachedReturn, cur>>
  BY <1>1, <1>3 DEF WalkChildren, TheNode
<1>6. SettlesWalk(r, a, n, m)
  BY <1>1, <1>2, <1>3 DEF Settles, TheNode
<1>7. CodeInv'
  <2>1. NamesIn(all, Plain \ LabelBlocks) /\ NamesIn(own, Plain \ LabelBlocks)
    BY NamedChildren, NamedNone, NamesFew
  <2>2. NamesIn(all \o own, Plain \ LabelBlocks)
    BY <1>4, <2>1, NamesConcat
  <2>3. QED
    BY <1>1, <1>4, <1>5, <2>2, CodeIdle
<1>8. u.op = "insts" /\ u.n = n /\ u.bb[1] = 1
  BY DEF Do
<1> HIDE DEF u
<1>9. \E z, q \in Claim : /\ Claims(r, z)'
                          /\ Leads(Settled(r), Claim, z, all, q)
                          /\ n.k = "expr" => SettlesInsts(r, q, u, m)
                          /\ n.k # "expr" => q = m
  <2>1. CASE m.end = "closed"
    <3>1. /\ ReturnExpr(r, n) /\ a.held = m.held /\ a.defs = m.defs /\ a.pads = m.pads
          /\ a.end = "open"
      BY <1>6, <2>1 DEF SettlesWalk, Spends
    <3>2. DOMAIN n.kids = 1..c
      BY NodeType, LenProperties
    <3>3. /\ n.k = "expr" /\ Len(n.insts) >= 1
          /\ \A i \in 1..c : n.kids[i] \in r.nodes \ r.tails /\ r.defs[n.kids[i]] = {}
      BY <3>1, <3>2 DEF ReturnExpr
    <3> DEFINE p == [i \in 1..(c + 1) |-> a]
    <3>4. /\ p \in [1..(c + 1) -> Claim] /\ p[1] = a /\ p[c + 1] = a
          /\ \A i \in 1..c : p[i] = a /\ p[i + 1] = a
      BY <1>4
    <3> HIDE DEF p
    <3>5. ASSUME NEW i \in 1..c PROVE SettlesWalk(r, p[i], n.kids[i], p[i + 1])
      <4>1. n.kids[i] \in r.nodes /\ n.kids[i] \notin r.tails /\ r.defs[n.kids[i]] = {}
        BY <3>3
      <4>2. SettlesWalk(r, a, n.kids[i], a)
        BY <3>1, <4>1 DEF SettlesWalk, Spends
      <4>3. QED
        BY <3>4, <4>2
    <3>6. Leads(Settled(r), Claim, a, all, a)
      BY <3>4, <3>5, ClaimChildren
    <3>7. Claims(r, a)'
      BY <1>2, <1>5, ClaimsStay
    <3>8. SettlesInsts(r, a, u, m)
      BY <1>8, <2>1, <3>1, <3>3 DEF SettlesInsts, Spends
    <3>9. QED
      BY <3>3, <3>6, <3>7, <3>8
  <2>2. CASE m.end # "closed"
    <3>1. /\ n \in r.nodes /\ a.held = m.held /\ a.pads = m.pads /\ a.end = "open"
          /\ a.defs = r.defs[n] \cup m.defs /\ r.defs[n] \cap m.defs = {}
          /\ n \in r.tails => m.end = "done"
      BY <1>6, <2>2 DEF SettlesWalk, Spends
    <3>2. m.end \in {"open", "done"} /\ m.held \in SUBSET Nat /\ m.pads \in Seq(Nat)
          /\ m.defs \in SUBSET Label /\ Elements(m.pads) \subseteq m.held
      BY <2>2, ClaimIs
    <3>3. n.k \notin {"label", "goto", "return"}
      BY <1>5
    <3>4. /\ r.defs[n] = DefsFrom(r, n, 1) /\ LayoutRule(r, n)
          /\ \A i \in 1..c : n.kids[i] \in r.nodes
      BY <1>1, <3>1, <3>3, LayoutGives
    <3>5. ASSUME NEW i \in 1..(c + 1)
          PROVE  /\ DefsFrom(r, n, i) \in SUBSET Label
                 /\ i = c + 1 => DefsFrom(r, n, i) = {}
      <4>1. i \in Nat /\ i >= 1 /\ (i = c + 1 => i > Len(n.kids))
        BY <1>4
      <4>2. QED
        BY <1>1, <3>1, <3>3, <4>1, DefsType
    <3> DEFINE P(i) == IF i = c + 1 /\ n.k # "expr" THEN m
                       ELSE Claimed(m.held, m.pads, DefsFrom(r, n, i) \cup m.defs, "open")
               p == [i \in 1..(c + 1) |-> P(i)]
    <3>6. ASSUME NEW i \in 1..(c + 1)
          PROVE  /\ P(i) \in Claim /\ P(i).held = m.held /\ P(i).pads = m.pads
                 /\ P(i).defs = DefsFrom(r, n, i) \cup m.defs
                 /\ P(i).end = IF i = c + 1 /\ n.k # "expr" THEN m.end ELSE "open"
      <4>1. CASE i = c + 1 /\ n.k # "expr"
        BY <3>5, <4>1
      <4>2. CASE ~(i = c + 1 /\ n.k # "expr")
        <5>1. DefsFrom(r, n, i) \cup m.defs \in SUBSET Label
          BY <3>2, <3>5
        <5>2. QED
          BY <3>2, <4>2, <5>1, ClaimType
      <4>3. QED
        BY <4>1, <4>2
    <3>7. /\ p \in [1..(c + 1) -> Claim]
          /\ \A i \in 1..(c + 1) : p[i] = P(i)
      BY <3>6
    <3>8. 1 \in 1..(c + 1) /\ c + 1 \in 1..(c + 1)
          /\ \A i \in 1..c : i \in 1..(c + 1) /\ i + 1 \in 1..(c + 1) /\ i # c + 1
      BY <1>4
    <3> HIDE DEF P, p
    <3>9. ASSUME NEW i \in 1..c PROVE SettlesWalk(r, p[i], n.kids[i], p[i + 1])
      <4> DEFINE x == p[i]
                 y == p[i + 1]
                 k == n.kids[i]
      <4>1. /\ x.held = m.held /\ x.pads = m.pads /\ x.end = "open"
            /\ x.defs = DefsFrom(r, n, i) \cup m.defs
        BY <3>6, <3>7, <3>8
      <4>2. /\ y.held = m.held /\ y.pads = m.pads
            /\ y.defs = DefsFrom(r, n, i + 1) \cup m.defs
            /\ y.end = IF i + 1 = c + 1 /\ n.k # "expr" THEN m.end ELSE "open"
        BY <3>6, <3>7, <3>8
      <4>3. /\ DefsFrom(r, n, i) = r.defs[k] \cup DefsFrom(r, n, i + 1)
            /\ r.defs[k] \cap DefsFrom(r, n, i + 1) = {}
        <5>1. PICK h : h = i + 1 /\ Follows(h, i)
          BY DEF Follows
        <5>2. Lays(r) /\ n \in r.nodes /\ n.k \notin {"label", "goto", "return"}
              /\ i \in 1..Len(n.kids)
          BY <1>1, <3>1, <3>3
        <5>3. /\ DefsFrom(r, n, i) = r.defs[n.kids[i]] \cup DefsFrom(r, n, h)
              /\ r.defs[n.kids[i]] \cap DefsFrom(r, n, h) = {}
          BY <5>1, <5>2, DefsSplit, ZenonT(60)
        <5>4. QED
          BY <5>1, <5>3
      <4>4. r.defs[k] \cap m.defs = {}
        <5>1. i \in Nat /\ i >= 1 /\ i <= Len(n.kids)
          BY <1>4
        <5>2. r.defs[k] \subseteq DefsFrom(r, n, 1)
          BY <1>4, <5>1, DefsWithin
        <5>3. QED
          BY <3>1, <3>4, <5>2
      <4>5. k \in r.nodes
        BY <3>4
      <4>6. k \in r.tails => y.end = "done"
        <5>1. k \in r.tails => n \in r.tails /\ n.k = "block" /\ i = c
          <6>1. DOMAIN n.kids = 1..c
            BY NodeType, LenProperties
          <6>2. QED
            BY <3>4, <6>1 DEF LayoutRule, TailRule
        <5>2. QED
          BY <3>1, <4>2, <5>1
      <4>7. y.end \in {"open", "done"}
        BY <3>2, <4>2
      <4> HIDE DEF x, y, k
      <4>8. Spends(x, y, {}, r.defs[k])
        BY <4>1, <4>2, <4>3, <4>4 DEF Spends
      <4>9. SettlesWalk(r, x, k, y)
        BY <4>1, <4>2, <4>5, <4>6, <4>7, <4>8 DEF SettlesWalk
      <4>10. QED
        BY <4>9 DEF x, y, k
    <3>10. Leads(Settled(r), Claim, p[1], all, p[c + 1])
      BY <3>7, <3>9, ClaimChildren
    <3>11. p[1] \in Claim /\ p[c + 1] \in Claim
      BY <3>7, <3>8
    <3>12. Claims(r, p[1])'
      <4>1. /\ p[1].held = a.held /\ p[1].pads = a.pads /\ p[1].defs = a.defs
            /\ p[1].end \in {a.end, "done"}
        BY <3>1, <3>2, <3>4, <3>6, <3>7, <3>8
      <4>2. QED
        BY <1>2, <1>5, <4>1, ClaimsStay
    <3>13. n.k # "expr" => p[c + 1] = m
      BY <3>7, <3>8 DEF P
    <3>14. n.k = "expr" => SettlesInsts(r, p[c + 1], u, m)
      <4> SUFFICES ASSUME n.k = "expr" PROVE SettlesInsts(r, p[c + 1], u, m)
        OBVIOUS
      <4>1. /\ p[c + 1].held = m.held /\ p[c + 1].pads = m.pads /\ p[c + 1].end = "open"
            /\ p[c + 1].defs = m.defs
        <5>1. c + 1 \in 1..(c + 1) /\ p[c + 1] = P(c + 1)
          BY <3>7, <3>8
        <5>2. /\ P(c + 1).held = m.held /\ P(c + 1).pads = m.pads
              /\ P(c + 1).defs = DefsFrom(r, n, c + 1) \cup m.defs
              /\ P(c + 1).end = "open"
          BY <3>6, <5>1
        <5>3. DefsFrom(r, n, c + 1) = {}
          BY <3>5, <5>1
        <5>4. QED
          BY <5>1, <5>2, <5>3
      <4>2. NoReturns(n)
        BY <3>4 DEF LayoutRule
      <4>3. QED
        BY <1>8, <2>2, <4>1, <4>2 DEF SettlesInsts, Spends
    <3>15. QED
      BY <3>10, <3>11, <3>12, <3>13, <3>14
  <2>3. QED
    BY <2>1, <2>2
<1>10. PICK z \in Claim, q \in Claim :
         /\ Claims(r, z)'
         /\ Leads(Settled(r), Claim, z, all, q)
         /\ n.k = "expr" => SettlesInsts(r, q, u, m)
         /\ n.k # "expr" => q = m
  BY <1>9
<1>11. Leads(Settled(r), Claim, q, own, m)
  <2>1. CASE n.k = "expr"
    <3>1. Settles(r, q, u, m)
      BY <1>8, <1>10, <2>1 DEF Settles
    <3>2. <<q, u, m>> \in Settled(r)
      BY <1>4, <3>1 DEF Settled
    <3>3. QED
      BY <2>1, <3>2, LeadsOne
  <2>2. CASE n.k # "expr"
    BY <1>10, <2>2, LeadsNone
  <2>3. QED
    BY <2>1, <2>2
<1> HIDE DEF own, all, c
<1>12. Leads(Settled(r), Claim, z, all \o own, m)
  BY <1>4, <1>10, <1>11, LeadsOn
<1>13. ClaimInv(r)'
  BY <1>1, <1>2, <1>4, <1>5, <1>10, <1>12, ClaimPush
<1>14. QED
  BY <1>7, <1>13

\* What the claims keep apart.
LEMMA ClaimsApart ==
  ASSUME TypeOK, NEW r, NEW a \in Claim, Claims(r, a)
  PROVE  /\ padStack = a.pads /\ Elements(padStack) \subseteq a.held
         /\ cur \notin a.held \cup Pending(a.defs)
         /\ a.held \cap Pending(a.defs) = {}
         /\ 0 \notin a.held \cup Pending(a.defs) /\ 0 \notin OpenBlocks(blocks)
         /\ a.end = "open" => cur \in OpenBlocks(blocks) \cup {0}
         /\ cachedReturn # NoNode => cachedReturn \in r.nodes
<1>1. /\ a.held \subseteq OpenBlocks(blocks) /\ Pending(a.defs) \subseteq OpenBlocks(blocks)
      /\ OpenBlocks(blocks) \subseteq 1..Len(blocks)
  BY ClaimsGive
<1>2. 0 \notin OpenBlocks(blocks)
  BY <1>1
<1>3. padStack = a.pads /\ Elements(a.pads) \subseteq a.held
  BY ClaimIs DEF Claims
<1>4. QED
  BY <1>1, <1>2, <1>3 DEF Claims

\* New blocks, some of them to be landing pads.
LEMMA CodeGrown ==
  ASSUME TypeOK, CodeInv, NEW k \in Nat,
         NEW Q \in SUBSET ((Len(blocks) + 1)..(Len(blocks) + k)), NEW h, h = Len(blocks) + k
  PROVE  /\ NewBlocks(blocks, k) \in BlockSeq /\ Len(NewBlocks(blocks, k)) = h
         /\ Sound(NewBlocks(blocks, k), h, PadSet \cup Q)
         /\ OpenBlocks(NewBlocks(blocks, k)) = OpenBlocks(blocks) \cup (Len(blocks) + 1)..h
         /\ EmptyBlocks(NewBlocks(blocks, k)) = EmptyBlocks(blocks) \cup (Len(blocks) + 1)..h
         /\ Landing(NewBlocks(blocks, k)) = Landing(blocks)
<1>1. blocks \in BlockSeq /\ Len(blocks) \in Nat
  BY LenProperties DEF TypeOK, BlockSeq
<1>2. /\ NewBlocks(blocks, k) \in BlockSeq /\ Len(NewBlocks(blocks, k)) = h
      /\ OpenBlocks(NewBlocks(blocks, k)) = OpenBlocks(blocks) \cup (Len(blocks) + 1)..h
      /\ EmptyBlocks(NewBlocks(blocks, k)) = EmptyBlocks(blocks) \cup (Len(blocks) + 1)..h
      /\ Landing(NewBlocks(blocks, k)) = Landing(blocks)
  BY <1>1, NewBlocksType, NewBlocksAre
<1>3. Sound(blocks, Len(blocks), PadSet) /\ PadSet \in SUBSET (2..Len(blocks))
  BY DEF CodeInv
<1>4. (PadSet \cup Q) \cap 1..Len(blocks) = PadSet
  <2>1. \A x \in PadSet : x \in 1..Len(blocks)
    BY <1>1, <1>3
  <2>2. \A x \in Q : x \notin 1..Len(blocks)
    BY <1>1
  <2>3. QED
    BY <2>1, <2>2
<1>5. h \in Nat /\ Len(blocks) <= h
  BY <1>1
<1>6. Sound(blocks, h, PadSet \cup Q)
  BY <1>1, <1>3, <1>4, <1>5, SoundGrows
<1>7. Sound(NewBlocks(blocks, k), h, PadSet \cup Q)
  BY <1>1, <1>6, SoundNew
<1>8. QED
  BY <1>2, <1>7

\* The instructions of a node transfer control by returning only.
LEMMA SourceInst ==
  ASSUME NEW n \in Node, NEW i \in 1..Len(n.insts), NEW ins, ins = n.insts[i], NEW k, NEW P
  PROVE  /\ ins \in Instr /\ ins.op # "landingpad"
         /\ IsTerminator(ins) <=> ins.op = "ret"
         /\ Apt(ins, k, P)
<1>1. n.insts \in Seq(Instr) /\ n.insts[i] \in Instr
  BY NodeType
<1>2. DOMAIN n.insts = 1..Len(n.insts)
  BY <1>1, LenProperties
<1>3. n.insts[i].op \in SourceOps /\ n.insts[i].to = <<>>
  BY <1>2, NodeAssumption
<1>4. ins \in Instr /\ ins.op \in SourceOps /\ Len(ins.to) = 0
  BY <1>1, <1>3
<1>5. ins.op # "landingpad" /\ ins.op # "invoke" /\ (IsTerminator(ins) <=> ins.op = "ret")
  BY <1>4 DEF SourceOps, IsTerminator, Terminators
<1>6. Apt(ins, k, P)
  BY <1>4, <1>5 DEF Apt
<1>7. QED
  BY <1>4, <1>5, <1>6

\* What is claimed behind instruction ins when a is claimed before it.
AfterInst(z, a, ins) ==
  /\ z.held = a.held /\ z.pads = a.pads /\ z.defs = a.defs /\ a.end = "open"
  /\ z.end = IF ins.op = "ret" THEN "closed" ELSE "open"

\* The loop over the instructions of a node: the claim that is left before the
\* instruction with the next number.
LEMMA InstsClaim ==
  ASSUME NEW r, NEW a \in Claim, NEW m \in Claim, NEW n \in Node,
         NEW i \in Nat, i >= 1, i <= Len(n.insts), NEW h, Follows(h, i),
         NEW t, t.n = n, t.bb[1] = i, NEW u, u.n = n, u.bb[1] = h,
         SettlesInsts(r, a, t, m)
  PROVE  \E z \in Claim : SettlesInsts(r, z, u, m) /\ AfterInst(z, a, n.insts[i])
<1>1. t.n = n /\ t.bb[1] = i /\ u.n = n /\ u.bb[1] = h
  OBVIOUS
<1>2. Len(n.insts) \in Nat /\ DOMAIN n.insts = 1..Len(n.insts)
  BY NodeType, LenProperties
<1>3. /\ m.held \in SUBSET Nat /\ m.pads \in Seq(Nat) /\ m.defs \in SUBSET Label
      /\ Elements(m.pads) \subseteq m.held
  BY ClaimIs
<1>4. /\ a.pads = m.pads /\ a.held = m.held /\ a.defs = m.defs
      /\ IF m.end = "closed"
         THEN ReturnExpr(r, n) /\ a.end = IF i <= Len(n.insts) THEN "open" ELSE "closed"
         ELSE NoReturns(n) /\ a.end = "open"
  BY <1>1 DEF SettlesInsts, Spends
<1> USE DEF Follows
<1> DEFINE e == IF m.end = "closed" /\ ~(h <= Len(n.insts)) THEN "closed" ELSE "open"
           z == Claimed(m.held, m.pads, m.defs, e)
<1>5. /\ z \in Claim /\ z.held = m.held /\ z.pads = m.pads /\ z.defs = m.defs
      /\ z.end = e
  <2>1. e \in {"open", "closed", "done"}
    OBVIOUS
  <2> HIDE DEF e
  <2>2. QED
    BY <1>3, <2>1, ClaimType
<1> HIDE DEF z
<1>6. SettlesInsts(r, z, u, m)
  BY <1>1, <1>4, <1>5 DEF SettlesInsts, Spends
<1>7. n.insts[i].op = "ret" <=> z.end = "closed"
  <2>1. i \in DOMAIN n.insts
    BY <1>2
  <2>2. CASE m.end = "closed"
    <3>1. n.insts[i].op = "ret" <=> i = Len(n.insts)
      BY <1>4, <2>1, <2>2 DEF ReturnExpr
    <3>2. ~(h <= Len(n.insts)) <=> i = Len(n.insts)
      BY <1>2
    <3>3. QED
      BY <1>5, <2>2, <3>1, <3>2
  <2>3. CASE m.end # "closed"
    BY <1>4, <1>5, <2>1, <2>3 DEF NoReturns
  <2>4. QED
    BY <2>2, <2>3
<1>8. z.end \in {"open", "closed"}
  BY <1>5
<1>9. AfterInst(z, a, n.insts[i])
  BY <1>4, <1>5, <1>7, <1>8 DEF AfterInst
<1>10. QED
  BY <1>5, <1>6, <1>9

\* One instruction is put into the current block, which a ret or an invoke closes.
LEMMA CfgEmitInst ==
  ASSUME TypeOK, NEW r, CodeInv, ClaimInv(r), EmitInst
  PROVE  CodeInv' /\ ClaimInv(r)'
<1>1. work # <<>> /\ status = "walking" /\ Head(work).op = "insts" /\ Lays(r)
  BY DEF EmitInst, Running, ClaimInv
<1>2. PICK a \in Claim, m \in Claim, b \in Claim :
        /\ Claims(r, a) /\ Settles(r, a, Head(work), m)
        /\ Final(b) /\ Leads(Settled(r), Claim, m, Tail(work), b)
  BY <1>1, ClaimPop
<1>3. PICK n \in Node : n = TheNode
  BY <1>1, HeadType
<1>4. PICK i \in Nat : i = Saved(1)
  BY <1>1, InstsTask
<1>5. i >= 1 /\ Len(n.insts) \in Nat
  BY <1>1, <1>4, InstsTask, NodeType
<1>6. /\ status' = "walking" /\ UNCHANGED <<labelmap, padStack, finallyBlock, cachedReturn>>
      /\ finallyBlock' \in {0, finallyBlock}
  BY <1>1 DEF EmitInst
<1>7. PICK t : t.n = n /\ t.bb[1] = i /\ SettlesInsts(r, a, t, m)
  BY <1>1, <1>2, <1>3, <1>4 DEF Settles, TheNode, Saved
<1>8. CASE ~(i <= Len(n.insts))
  <2>1. Continue(<<>>) /\ UNCHANGED <<cur, blocks>>
    BY <1>3, <1>4, <1>8 DEF EmitInst
  <2>2. CodeInv'
    BY <1>1, <1>6, <2>1, EmptySeq, NamesFew, CodeIdle
  <2>3. m.held = a.held /\ m.pads = a.pads /\ m.defs = a.defs /\ m.end \in {a.end, "done"}
    <3>2. m.held = a.held /\ m.pads = a.pads /\ m.defs = a.defs
      BY <1>7 DEF SettlesInsts, Spends
    <3>3. m.end \in {a.end, "done"}
      <4>1. m.end = "closed" => a.end = "closed"
        BY <1>7, <1>8 DEF SettlesInsts
      <4>2. m.end # "closed" => a.end = "open"
        BY <1>7 DEF SettlesInsts
      <4>3. QED
        BY <4>1, <4>2, ClaimIs
    <3>4. QED
      BY <3>2, <3>3
  <2>4. Claims(r, m)'
    BY <1>2, <1>6, <2>1, <2>3, ClaimsStay
  <2>5. ClaimInv(r)'
    BY <1>1, <1>2, <1>6, <2>1, <2>4, ClaimPushNone
  <2>6. QED
    BY <2>2, <2>5
<1>9. CASE i <= Len(n.insts)
  <2>1. PICK ins : ins = n.insts[i]
    OBVIOUS
  <2>2. PICK h : h = i + 1 /\ Follows(h, i)
    BY DEF Follows
  <2> DEFINE u == Do("insts", n, <<h>>)
  <2>3. u \in Task /\ Continue(<<u>>) /\ Named(u) = {} /\ <<u>> \in Seq(Task)
    <3>1. <<h>> \in Seq(Nat) /\ "insts" \in TaskOps
      BY <2>2 DEF TaskOps
    <3>2. u \in Task
      BY <3>1, TaskType
    <3>3. Continue(<<u>>)
      BY <1>3, <1>4, <1>9, <2>2 DEF EmitInst
    <3>4. QED
      BY <3>2, <3>3, NamedNone
  <2>4. i \in 1..Len(n.insts)
    BY <1>5, <1>9
  <2>5. PICK z \in Claim :
            /\ SettlesInsts(r, z, u, m)
            /\ z.held = a.held /\ z.pads = a.pads /\ z.defs = a.defs /\ a.end = "open"
            /\ ins.op = "ret" => z.end = "closed"
            /\ ins.op # "ret" => z.end = "open"
    <3>1. u.n = n /\ u.bb[1] = h
      BY DEF Do
    <3> HIDE DEF u
    <3>2. \E z \in Claim : SettlesInsts(r, z, u, m) /\ AfterInst(z, a, n.insts[i])
      BY <1>5, <1>7, <1>9, <2>2, <3>1, InstsClaim
    <3>3. QED
      BY <2>1, <3>2 DEF AfterInst
  <2>6. Settles(r, z, u, m)
    BY <2>5 DEF Settles, Do
  <2> HIDE DEF u
  <2> DEFINE n0 == Len(blocks)
             held == a.held
             Q == Pending(a.defs)
  <2>7. /\ n0 \in Nat /\ blocks \in BlockSeq /\ cur \in 0..n0
        /\ held \subseteq OpenBlocks(blocks) /\ Q \subseteq OpenBlocks(blocks)
        /\ OpenBlocks(blocks) \subseteq 1..n0
        /\ OpenBlocks(blocks) = held \cup Q \cup ({cur} \ {0})
    BY <1>2, <2>5, ClaimsGive
  <2>8. /\ padStack = a.pads /\ Elements(padStack) \subseteq held /\ cur \notin held \cup Q
        /\ held \cap Q = {} /\ 0 \notin held \cup Q
        /\ cur \in OpenBlocks(blocks) \cup {0}
        /\ cachedReturn # NoNode => cachedReturn \in r.nodes
    BY <1>2, <2>5, ClaimsApart
  <2>9. /\ Sound(blocks, n0, PadSet) /\ Elements(padStack) \subseteq EmptyBlocks(blocks)
        /\ PadSet \subseteq 2..n0 /\ n0 >= 1
    BY DEF CodeInv
  <2>10. Pending(a.defs)' = Q
    BY <1>6 DEF Pending
  <2> HIDE DEF held, Q
  <2>11. ASSUME Len(blocks') \in Nat, n0 <= Len(blocks'), Landing(blocks') = Landing(blocks),
                Sound(blocks', Len(blocks'), PadSet),
                EmptyBlocks(blocks) \ {cur} \subseteq EmptyBlocks(blocks')
         PROVE  CodeInv'
    <3>1. Elements(padStack) \subseteq EmptyBlocks(blocks')
      BY <2>8, <2>9, <2>11
    <3>2. NamesIn(<<u>>, ((2..Len(blocks')) \ PadSet) \ LabelBlocks)
      BY <2>3, NamesFew
    <3>3. QED
      BY <1>1, <1>6, <2>3, <2>11, <3>1, <3>2, CodeKeeps
  <2>12. ASSUME cur' \notin held \cup Q,
                OpenBlocks(blocks') = IF z.end = "closed" THEN held \cup Q
                                      ELSE held \cup Q \cup ({cur'} \ {0})
         PROVE  ClaimInv(r)'
    <3>1. Claims(r, z)'
      BY <1>2, <1>6, <2>5, <2>8, <2>12, ClaimsNext DEF held, Q
    <3>2. QED
      BY <1>1, <1>2, <1>6, <2>3, <2>6, <3>1, ClaimPushOne
  <2>13. CASE cur = 0
    <3>1. UNCHANGED <<cur, blocks>>
      BY <2>13 DEF EmitInst
    <3>2. CodeInv'
      BY <2>7, <2>9, <2>11, <3>1
    <3>3. ClaimInv(r)'
      BY <2>7, <2>8, <2>12, <2>13, <3>1
    <3>4. QED
      BY <3>2, <3>3
  <2>14. CASE cur # 0 /\ ~(ins.op = "call" /\ padStack # <<>>)
    <3>1. blocks' = Put(blocks, cur, ins) /\ cur' = cur
      BY <1>3, <1>4, <1>9, <2>1, <2>14 DEF EmitInst
    <3>2. /\ ins \in Instr /\ ins.op # "landingpad" /\ (IsTerminator(ins) <=> ins.op = "ret")
          /\ Apt(ins, n0, PadSet)
      BY <2>1, <2>4, SourceInst
    <3>3. cur \in OpenBlocks(blocks) /\ cur \in 1..Len(blocks)
      BY <2>7, <2>8, <2>14
    <3>4. blocks' \in BlockSeq /\ Len(blocks') = n0
      BY <2>7, <3>1, <3>2, <3>3, PutType
    <3>5. /\ ins.op = "ret" => OpenBlocks(blocks') = OpenBlocks(blocks) \ {cur}
          /\ ins.op # "ret" => OpenBlocks(blocks') = OpenBlocks(blocks)
          /\ EmptyBlocks(blocks') = EmptyBlocks(blocks) \ {cur}
          /\ Landing(blocks') = Landing(blocks)
      BY <2>7, <3>1, <3>2, <3>3, PutIs
    <3>6. Sound(blocks', Len(blocks'), PadSet)
      BY <2>7, <2>9, <3>1, <3>2, <3>3, <3>4, SoundPut
    <3>7. CodeInv'
      BY <2>7, <2>11, <3>4, <3>5, <3>6
    <3>8. ClaimInv(r)'
      <4>1. CASE ins.op = "ret"
        BY <2>5, <2>7, <2>8, <2>12, <3>1, <3>5, <4>1
      <4>2. CASE ins.op # "ret"
        BY <2>5, <2>7, <2>8, <2>12, <3>1, <3>5, <4>2
      <4>3. QED
        BY <4>1, <4>2
    <3>9. QED
      BY <3>7, <3>8
  <2>15. CASE cur # 0 /\ ins.op = "call" /\ padStack # <<>>
    <3>1. PICK cont : cont = n0 + 1
      OBVIOUS
    <3> DEFINE nb == NewBlocks(blocks, 1)
               pad == padStack[Len(padStack)]
               inv == [op |-> "invoke", id |-> ins.id, to |-> <<cont, pad>>]
    <3>2. blocks' = Put(nb, cur, inv) /\ cur' = cont
      BY <1>3, <1>4, <1>9, <2>1, <2>15, <3>1 DEF EmitInst
    <3>3. pad \in PadSet /\ pad \in Nat
      <4>1. Len(padStack) \in 1..Len(padStack)
        BY <2>15, EmptySeq, LenProperties DEF TypeOK
      <4>2. pad \in Elements(padStack)
        BY <4>1 DEF Elements
      <4>3. QED
        BY <2>7, <2>9, <4>2 DEF PadSet
    <3>4. /\ nb \in BlockSeq /\ Len(nb) = cont /\ Sound(nb, cont, PadSet)
          /\ OpenBlocks(nb) = OpenBlocks(blocks) \cup {cont}
          /\ EmptyBlocks(nb) = EmptyBlocks(blocks) \cup {cont}
          /\ Landing(nb) = Landing(blocks)
      <4>1. (n0 + 1)..cont = {cont} /\ {} \in SUBSET ((n0 + 1)..(n0 + 1)) /\ 1 \in Nat
        BY <2>7, <3>1
      <4>2. /\ nb \in BlockSeq /\ Len(nb) = cont /\ Sound(nb, cont, PadSet \cup {})
            /\ OpenBlocks(nb) = OpenBlocks(blocks) \cup (n0 + 1)..cont
            /\ EmptyBlocks(nb) = EmptyBlocks(blocks) \cup (n0 + 1)..cont
            /\ Landing(nb) = Landing(blocks)
        BY <3>1, <4>1, CodeGrown
      <4>3. PadSet \cup {} = PadSet
        OBVIOUS
      <4>4. QED
        BY <4>1, <4>2, <4>3
    <3>5. inv \in Instr /\ inv.op # "landingpad" /\ IsTerminator(inv) /\ Apt(inv, cont, PadSet)
      <4>1. ins \in Instr
        BY <2>1, <2>4, SourceInst
      <4>2. cont \in Nat /\ cont \in (2..cont) \ PadSet
        BY <2>7, <2>9, <3>1
      <4>3. <<cont, pad>> \in Seq(Nat) /\ Len(<<cont, pad>>) = 2
            /\ <<cont, pad>>[1] = cont /\ <<cont, pad>>[2] = pad
        BY <3>3, <4>2
      <4> HIDE DEF pad
      <4>4. inv.op = "invoke" /\ inv.to = <<cont, pad>> /\ inv \in Instr
        BY <4>1, <4>3 DEF Instr, Terminators
      <4>5. IsTerminator(inv)
        BY <4>4 DEF IsTerminator, Terminators
      <4>6. Apt(inv, cont, PadSet)
        BY <3>3, <4>2, <4>3, <4>4 DEF Apt
      <4>7. QED
        BY <4>4, <4>5, <4>6
    <3> HIDE DEF nb, inv
    <3>6. cur \in OpenBlocks(nb) /\ cur \in 1..Len(nb)
      BY <2>7, <2>8, <2>15, <3>1, <3>4
    <3>7. blocks' \in BlockSeq /\ Len(blocks') = cont
      BY <3>2, <3>4, <3>5, <3>6, PutType
    <3>8. /\ OpenBlocks(blocks') = OpenBlocks(nb) \ {cur}
          /\ EmptyBlocks(blocks') = EmptyBlocks(nb) \ {cur}
          /\ Landing(blocks') = Landing(nb)
      BY <3>2, <3>4, <3>5, <3>6, PutIs
    <3>9. Sound(blocks', cont, PadSet)
      BY <3>2, <3>4, <3>5, <3>6, SoundPut
    <3>10. CodeInv'
      BY <2>7, <2>11, <3>1, <3>4, <3>7, <3>8, <3>9
    <3>11. ClaimInv(r)'
      <4>1. cont \notin OpenBlocks(blocks) /\ cont # 0 /\ cont # cur
        BY <2>7, <3>1
      <4>2. OpenBlocks(blocks') = held \cup Q \cup {cont}
        BY <2>7, <2>8, <2>15, <3>4, <3>8, <4>1
      <4>3. QED
        BY <2>5, <2>7, <2>12, <2>15, <3>2, <4>1, <4>2
    <3>12. QED
      BY <3>10, <3>11
  <2>16. QED
    BY <2>13, <2>14, <2>15
<1>10. QED
  BY <1>8, <1>9

\* genIf and genSwitch walk the condition or the value first.
LEMMA CfgWalkIf ==
  ASSUME TypeOK, NEW r, CodeInv, ClaimInv(r), WalkIf
  PROVE  CodeInv' /\ ClaimInv(r)'
<1>1. /\ work # <<>> /\ status = "walking" /\ UNCHANGED status /\ Head(work).op = "walk"
      /\ TheNode.k = "if"
      /\ Continue(<<Walk(TheNode.kids[1]), Do("ifArms", TheNode, <<>>)>>)
      /\ UNCHANGED <<cur, blocks, labelmap, padStack, finallyBlock, cachedReturn>>
  BY DEF WalkIf, Visiting, Running, TheNode
<1>2. Len(TheNode.kids) >= 1
  <2>1. TheNode \in Node
    BY <1>1, HeadType
  <2>2. Len(TheNode.kids) \in {2, 3}
    BY <1>1, <2>1, NodeAssumption
  <2>3. QED
    BY <2>2
<1>3. QED
  BY <1>1, <1>2, CfgWalkFirst

LEMMA CfgWalkSwitch ==
  ASSUME TypeOK, NEW r, CodeInv, ClaimInv(r), WalkSwitch
  PROVE  CodeInv' /\ ClaimInv(r)'
<1>1. /\ work # <<>> /\ status = "walking" /\ UNCHANGED status /\ Head(work).op = "walk"
      /\ TheNode.k = "switch"
      /\ Continue(<<Walk(TheNode.kids[1]), Do("cases", TheNode, <<>>)>>)
      /\ UNCHANGED <<cur, blocks, labelmap, padStack, finallyBlock, cachedReturn>>
  BY DEF WalkSwitch, Visiting, Running, TheNode
<1>2. Len(TheNode.kids) >= 1
  <2>1. TheNode \in Node
    BY <1>1, HeadType
  <2>2. QED
    BY <1>1, <2>1, NodeAssumption
<1>3. QED
  BY <1>1, <1>2, CfgWalkFirst

-----------------------------------------------------------------------------
(* If and switch statements.                                                *)

\* What y claims, these blocks and these labels.
With(y, held, defs, end) == Claimed(held \cup y.held, y.pads, defs \cup y.defs, end)

IsWith(z, y, held, defs, end) ==
  /\ z.held = held \cup y.held /\ z.pads = y.pads
  /\ z.defs = defs \cup y.defs /\ z.end = end

LEMMA WithType ==
  ASSUME NEW y \in Claim, NEW held \in SUBSET Nat, NEW defs \in SUBSET Label,
         NEW end \in {"open", "closed", "done"}
  PROVE  /\ With(y, held, defs, end) \in Claim
         /\ IsWith(With(y, held, defs, end), y, held, defs, end)
<1> DEFINE h == held \cup y.held
           d == defs \cup y.defs
<1>1. h \in SUBSET Nat /\ d \in SUBSET Label /\ y.pads \in Seq(Nat) /\ Elements(y.pads) \subseteq h
  BY ClaimIs
<1> HIDE DEF h, d
<1>2. /\ Claimed(h, y.pads, d, end) \in Claim
      /\ Claimed(h, y.pads, d, end).held = h
      /\ Claimed(h, y.pads, d, end).pads = y.pads
      /\ Claimed(h, y.pads, d, end).defs = d
      /\ Claimed(h, y.pads, d, end).end = end
  BY <1>1, ClaimType
<1>3. With(y, held, defs, end) = Claimed(h, y.pads, d, end)
  BY DEF With, h, d
<1> DEFINE w == Claimed(h, y.pads, d, end)
<1> HIDE DEF w
<1>4. w \in Claim /\ w.held = h /\ w.pads = y.pads /\ w.defs = d /\ w.end = end
  BY <1>2 DEF w
<1>5. IsWith(w, y, held, defs, end)
  BY <1>4 DEF IsWith, h, d
<1>6. QED
  BY <1>3, <1>4, <1>5 DEF w

\* Blocks yet to be created have no use.
LEMMA FreshBlocks ==
  ASSUME TypeOK, CodeInv, NEW x \in Nat, x > Len(blocks)
  PROVE  x \notin PadSet /\ x \notin LabelBlocks /\ x \notin OpenBlocks(blocks) /\ x >= 2
<1>1. /\ Len(blocks) \in Nat /\ Len(blocks) >= 1
      /\ PadSet \subseteq 2..Len(blocks) /\ LabelBlocks \subseteq 2..Len(blocks)
  BY LenProperties DEF TypeOK, CodeInv, Plain
<1>2. QED
  BY <1>1 DEF OpenBlocks

\* An arm of an if statement, whatever it ends in, goes on in the block held for it.
LEMMA ArmSettles ==
  ASSUME NEW r, Lays(r), NEW k \in r.nodes \ r.tails, NEW n \in Node,
         NEW ft \in Nat, NEW nx \in Nat, NEW y \in Claim,
         y.end \in {"open", "done"}, nx \notin y.held, r.defs[k] \cap y.defs = {}
  PROVE  /\ Leads(Settled(r), Claim, With(y, {nx}, r.defs[k], "open"),
                  <<Walk(k), Do("join", n, <<ft, nx>>)>>, y)
         /\ <<Walk(k), Do("join", n, <<ft, nx>>)>> \in Seq(Task)
<1> DEFINE t == Walk(k)
           u == Do("join", n, <<ft, nx>>)
           z == With(y, {nx}, r.defs[k], "open")
           x == With(y, {nx}, {}, "open")
<1>1. t \in Task /\ u \in Task /\ k \in Node /\ r.defs[k] \in SUBSET Label
  <2>1. k \in Node /\ r.defs[k] \in SUBSET Label
    BY LayoutGives
  <2>2. <<ft, nx>> \in Seq(Nat) /\ "join" \in TaskOps
    BY DEF TaskOps
  <2>3. t \in Task
    BY <2>1, TaskType
  <2>4. u \in Task
    BY <2>2, TaskType
  <2>5. QED
    BY <2>1, <2>3, <2>4
<1>2. /\ z \in Claim /\ z.held = {nx} \cup y.held /\ z.pads = y.pads
      /\ z.defs = r.defs[k] \cup y.defs /\ z.end = "open"
  <2>1. {nx} \in SUBSET Nat /\ "open" \in {"open", "closed", "done"}
    OBVIOUS
  <2>2. z \in Claim /\ IsWith(z, y, {nx}, r.defs[k], "open")
    BY <1>1, <2>1, WithType
  <2> HIDE DEF z
  <2>3. QED
    BY <2>2 DEF IsWith
<1>3. /\ x \in Claim /\ x.held = {nx} \cup y.held /\ x.pads = y.pads
      /\ x.defs = {} \cup y.defs /\ x.end = "open"
  <2>1. {} \in SUBSET Label /\ {nx} \in SUBSET Nat /\ "open" \in {"open", "closed", "done"}
    OBVIOUS
  <2>2. x \in Claim /\ IsWith(x, y, {nx}, {}, "open")
    BY <2>1, WithType
  <2> HIDE DEF x
  <2>3. QED
    BY <2>2 DEF IsWith
<1>4. t.op = "walk" /\ t.n = k /\ u.op = "join" /\ u.bb[2] = nx
  BY DEF Walk, Do
<1> HIDE DEF t, u, z, x
<1>5. Settles(r, z, t, x)
  <2>1. Spends(z, x, {}, r.defs[k])
    BY <1>2, <1>3 DEF Spends
  <2>2. SettlesWalk(r, z, k, x)
    BY <1>2, <1>3, <2>1 DEF SettlesWalk
  <2>3. QED
    BY <1>4, <2>2 DEF Settles
<1>6. Settles(r, x, u, y)
  <2>1. Spends(x, y, {nx}, {}) /\ Runs(x, y)
    BY <1>3 DEF Spends, Runs
  <2>2. QED
    BY <1>3, <1>4, <2>1 DEF Settles
<1>7. <<z, t, x>> \in Settled(r) /\ <<x, u, y>> \in Settled(r)
  BY <1>1, <1>2, <1>3, <1>5, <1>6 DEF Settled
<1>8. Leads(Settled(r), Claim, z, <<t, u>>, y) /\ <<t, u>> \in Seq(Task)
  BY <1>1, <1>2, <1>3, <1>7, LeadsTwo
<1>9. QED
  BY <1>8 DEF t, u, z

\* genIf: the arms start in new blocks, and so does what follows.
LEMMA CfgIfArms ==
  ASSUME TypeOK, NEW r, CodeInv, ClaimInv(r), IfArms, status' # "aborted"
  PROVE  CodeInv' /\ ClaimInv(r)'
<1>1. work # <<>> /\ status = "walking" /\ Head(work).op = "ifArms" /\ Lays(r)
  BY DEF IfArms, Running, ClaimInv
<1>2. PICK a \in Claim, m \in Claim, b \in Claim :
        /\ Claims(r, a) /\ Settles(r, a, Head(work), m)
        /\ Final(b) /\ Leads(Settled(r), Claim, m, Tail(work), b)
  BY <1>1, ClaimPop
<1>3. PICK n \in Node : n = TheNode
  BY <1>1, HeadType
<1>4. n.k = "if" /\ Len(n.kids) \in {2, 3}
  <2>1. n.k = "if"
    BY <1>1, <1>3, HeadType DEF TaskOK, TheNode
  <2>2. QED
    BY <2>1, NodeAssumption
<1>5. cur # 0
  BY DEF IfArms, Abort
<1>6. /\ n \in r.nodes /\ a.pads = m.pads /\ a.end = "open" /\ m.end \in {"open", "done"}
      /\ a.held = m.held /\ a.defs = DefsFrom(r, n, 2) \cup m.defs
      /\ DefsFrom(r, n, 2) \cap m.defs = {}
  <2>1. n \in r.nodes /\ a.pads = m.pads /\ Runs(a, m) /\ Spends(a, m, {}, DefsFrom(r, n, 2))
    BY <1>1, <1>2, <1>3 DEF Settles, TheNode
  <2>2. QED
    BY <2>1 DEF Runs, Spends
<1> DEFINE n0 == Len(blocks)
           hasElse == Len(n.kids) = 3
           k == IF hasElse THEN 3 ELSE 2
           h == n0 + k
           then == n0 + 1
           ft == n0 + 2
           else == IF hasElse THEN n0 + 3 ELSE ft
           D2 == r.defs[n.kids[2]]
           D3 == IF hasElse THEN r.defs[n.kids[3]] ELSE {}
           kid2 == n.kids[2]
           kid3 == n.kids[3]
<1>7. /\ kid2 \in r.nodes \ r.tails /\ D2 \in SUBSET Label /\ D3 \in SUBSET Label
      /\ hasElse => kid3 \in r.nodes \ r.tails
      /\ DefsFrom(r, n, 2) = D2 \cup D3 /\ D2 \cap D3 = {}
  <2>1. n.k \notin {"label", "goto", "return"} /\ n.k # "return" /\ n.k # "block"
    BY <1>4
  <2>2. /\ 2 \in 1..Len(n.kids) /\ 3 \in Nat /\ 4 \in Nat
        /\ hasElse => 3 \in 1..Len(n.kids)
        /\ ~hasElse => 3 > Len(n.kids)
    <3>1. CASE Len(n.kids) = 2
      BY <3>1
    <3>2. CASE Len(n.kids) = 3
      BY <3>2
    <3>3. QED
      BY <1>4, <3>1, <3>2
  <2>3. \A i \in 1..Len(n.kids) : n.kids[i] \in r.nodes /\ n.kids[i] \notin r.tails
    BY <1>1, <1>6, <2>1, LayoutGives
  <2>4. Follows(3, 2) /\ Follows(4, 3)
    BY DEF Follows
  <2>5. /\ DefsFrom(r, n, 2) = D2 \cup DefsFrom(r, n, 3) /\ D2 \cap DefsFrom(r, n, 3) = {}
        /\ D2 \in SUBSET Label
    BY <1>1, <1>6, <2>1, <2>2, <2>4, DefsSplit
  <2>6. DefsFrom(r, n, 3) = D3 /\ D3 \in SUBSET Label
    <3>1. CASE hasElse
      <4>1. /\ DefsFrom(r, n, 3) = r.defs[n.kids[3]] \cup DefsFrom(r, n, 4)
            /\ r.defs[n.kids[3]] \in SUBSET Label
        <5>1. 3 \in 1..Len(n.kids) /\ Follows(4, 3)
          BY <2>2, <2>4, <3>1
        <5>2. QED
          BY <1>1, <1>6, <2>1, <5>1, DefsSplit
      <4>2. DefsFrom(r, n, 4) = {}
        <5>1. 4 > Len(n.kids) /\ 4 >= 1
          BY <3>1
        <5>2. QED
          BY <1>1, <1>6, <2>1, <2>2, <5>1, DefsType
      <4>3. QED
        BY <3>1, <4>1, <4>2
    <3>2. CASE ~hasElse
      <4>1. 3 > Len(n.kids) /\ 3 >= 1
        BY <2>2, <3>2
      <4>2. DefsFrom(r, n, 3) = {}
        BY <1>1, <1>6, <2>1, <2>2, <4>1, DefsType
      <4>3. QED
        BY <3>2, <4>2
    <3>3. QED
      BY <3>1, <3>2
  <2>7. QED
    BY <2>2, <2>3, <2>5, <2>6
<1>8. /\ n0 \in Nat /\ n0 >= 1 /\ blocks \in BlockSeq /\ k \in {2, 3} /\ h \in Nat
      /\ then \in Nat /\ ft \in Nat /\ else \in Nat
      /\ Elements(padStack) \subseteq EmptyBlocks(blocks)
  BY <1>1, HeadType DEF CodeInv
<1> DEFINE arm1 == <<Walk(kid2), Do("join", n, <<ft, else>>)>>
           arm2 == IF hasElse THEN <<Walk(kid3), Do("join", n, <<ft, ft>>)>> ELSE <<>>
           nb == NewBlocks(blocks, k)
           ins == Ins("condbr", <<then, else>>)
<1>9. /\ Continue(arm1 \o arm2) /\ status' = "walking" /\ cur' = then
      /\ blocks' = Put(nb, cur, ins)
      /\ UNCHANGED <<labelmap, padStack, finallyBlock, cachedReturn>>
  BY <1>1, <1>3, <1>5 DEF IfArms
<1>10. /\ {then, ft, else} = (n0 + 1)..h /\ {then, ft, else} \subseteq 2..h
       /\ then # ft /\ then # else /\ (hasElse => ft # else) /\ (~hasElse => ft = else)
       /\ \A x \in {then, ft, else} : x \notin PadSet /\ x \notin LabelBlocks
                                      /\ x \notin OpenBlocks(blocks)
  <2>1. /\ {then, ft, else} = (n0 + 1)..h /\ {then, ft, else} \subseteq 2..h
        /\ then # ft /\ then # else /\ (hasElse => ft # else) /\ (~hasElse => ft = else)
    BY <1>8
  <2>2. \A x \in {then, ft, else} : x \in Nat /\ x > n0
    BY <1>8
  <2>3. \A x \in {then, ft, else} : x \notin PadSet /\ x \notin LabelBlocks
                                    /\ x \notin OpenBlocks(blocks)
    BY <2>2, FreshBlocks
  <2>4. QED
    BY <2>1, <2>3
<1>11. /\ nb \in BlockSeq /\ Len(nb) = h /\ Sound(nb, h, PadSet)
       /\ OpenBlocks(nb) = OpenBlocks(blocks) \cup {then, ft, else}
       /\ EmptyBlocks(nb) = EmptyBlocks(blocks) \cup {then, ft, else}
       /\ Landing(nb) = Landing(blocks)
  <2>1. k \in Nat /\ {} \in SUBSET ((n0 + 1)..(n0 + k))
    BY <1>8
  <2>2. /\ nb \in BlockSeq /\ Len(nb) = h /\ Sound(nb, h, PadSet \cup {})
        /\ OpenBlocks(nb) = OpenBlocks(blocks) \cup (n0 + 1)..h
        /\ EmptyBlocks(nb) = EmptyBlocks(blocks) \cup (n0 + 1)..h
        /\ Landing(nb) = Landing(blocks)
    BY <2>1, CodeGrown
  <2>3. PadSet \cup {} = PadSet
    OBVIOUS
  <2>4. QED
    BY <1>10, <2>2, <2>3
<1>12. /\ OpenBlocks(blocks) = m.held \cup Pending(a.defs) \cup {cur}
       /\ cur \in OpenBlocks(blocks) /\ cur \notin m.held \cup Pending(a.defs)
       /\ m.held \cap Pending(a.defs) = {} /\ 0 \notin m.held \cup Pending(a.defs)
       /\ padStack = m.pads /\ Elements(padStack) \subseteq m.held
       /\ cachedReturn # NoNode => cachedReturn \in r.nodes
  <2>1. OpenBlocks(blocks) = a.held \cup Pending(a.defs) \cup ({cur} \ {0})
    BY <1>2, <1>6, ClaimsGive
  <2>2. /\ padStack = a.pads /\ Elements(padStack) \subseteq a.held
        /\ cur \notin a.held \cup Pending(a.defs) /\ a.held \cap Pending(a.defs) = {}
        /\ 0 \notin a.held \cup Pending(a.defs)
        /\ cachedReturn # NoNode => cachedReturn \in r.nodes
    BY <1>2, <1>6, ClaimsApart
  <2>3. QED
    BY <1>5, <1>6, <2>1, <2>2
<1>13. ins \in Instr /\ ins.op # "landingpad" /\ IsTerminator(ins) /\ Apt(ins, h, PadSet)
  <2>1. <<then, else>> \in Seq(Nat) /\ Len(<<then, else>>) = 2
        /\ <<then, else>>[1] = then /\ <<then, else>>[2] = else
    BY <1>8
  <2>2. then \in (2..h) \ PadSet /\ else \in (2..h) \ PadSet
    BY <1>10
  <2> HIDE DEF then, else, h
  <2>3. ins \in Instr /\ ins.op = "condbr" /\ ins.to = <<then, else>>
    <3>1. "condbr" \in Terminators \cup {"landingpad"}
      BY DEF Terminators
    <3>2. QED
      BY <2>1, <3>1, InsType DEF Ins
  <2> HIDE DEF ins
  <2>4. IsTerminator(ins) /\ ins.op # "landingpad"
    BY <2>3 DEF IsTerminator, Terminators
  <2>5. Apt(ins, h, PadSet)
    <3>1. \A j \in 1..Len(ins.to) : j = 1 \/ j = 2
      BY <2>1, <2>3
    <3>2. QED
      BY <2>1, <2>2, <2>3, <3>1 DEF Apt
  <2>6. QED
    BY <2>3, <2>4, <2>5
<1> HIDE DEF nb, ins
<1>14. cur \in OpenBlocks(nb) /\ cur \in 1..Len(nb)
  BY <1>11, <1>12 DEF OpenBlocks
<1>15. blocks' \in BlockSeq /\ Len(blocks') = h
  BY <1>9, <1>11, <1>13, <1>14, PutType
<1>16. /\ OpenBlocks(blocks') = OpenBlocks(nb) \ {cur}
       /\ EmptyBlocks(blocks') = EmptyBlocks(nb) \ {cur}
       /\ Landing(blocks') = Landing(nb)
  BY <1>9, <1>11, <1>13, <1>14, PutIs
<1>17. Sound(blocks', Len(blocks'), PadSet)
  BY <1>9, <1>11, <1>13, <1>14, <1>15, SoundPut
<1> DEFINE P == Pending(a.defs)
           y == IF hasElse THEN With(m, {ft}, D3, "open") ELSE m
           z == With(y, {else}, D2, "open")
<1>18. ft \notin m.held /\ else \notin m.held /\ then \notin m.held
       /\ ft \notin P /\ else \notin P /\ then \notin P
  BY <1>10, <1>12
<1> HIDE DEF then, ft, else, D2, D3, P, kid2, kid3
<1>19. /\ y \in Claim /\ y.held = (IF hasElse THEN {ft} ELSE {}) \cup m.held
       /\ y.pads = m.pads /\ y.defs = D3 \cup m.defs /\ y.end \in {"open", "done"}
  <2>1. CASE hasElse
    <3> DEFINE w == With(m, {ft}, D3, "open")
    <3>1. {ft} \in SUBSET Nat /\ "open" \in {"open", "closed", "done"}
      BY <1>8
    <3>2. w \in Claim /\ IsWith(w, m, {ft}, D3, "open")
      BY <1>7, <3>1, WithType
    <3>3. y = w
      BY <2>1
    <3> HIDE DEF w, y
    <3>4. QED
      BY <2>1, <3>2, <3>3 DEF IsWith
  <2>2. CASE ~hasElse
    BY <1>6, <2>2 DEF D3
  <2>3. QED
    BY <2>1, <2>2
<1>20. Leads(Settled(r), Claim, y, arm2, m) /\ arm2 \in Seq(Task)
  <2>1. CASE hasElse
    <3>1. kid3 \in r.nodes \ r.tails /\ D3 = r.defs[kid3] /\ ft \notin m.held /\ ft \in Nat
          /\ r.defs[kid3] \cap m.defs = {}
      BY <1>6, <1>7, <1>8, <1>18, <2>1 DEF D3, kid3
    <3>2. /\ Leads(Settled(r), Claim, With(m, {ft}, r.defs[kid3], "open"),
                  <<Walk(kid3), Do("join", n, <<ft, ft>>)>>, m)
          /\ <<Walk(kid3), Do("join", n, <<ft, ft>>)>> \in Seq(Task)
      BY <1>1, <1>6, <3>1, ArmSettles
    <3>3. QED
      BY <2>1, <3>1, <3>2
  <2>2. CASE ~hasElse
    <3>1. Leads(Settled(r), Claim, m, <<>>, m) /\ <<>> \in Seq(Task)
      BY LeadsNone, EmptySeq
    <3>2. QED
      BY <2>2, <3>1
  <2>3. QED
    BY <2>1, <2>2
<1> HIDE DEF y, arm2
<1>21. Leads(Settled(r), Claim, z, arm1, y) /\ arm1 \in Seq(Task)
  <2>1. /\ kid2 \in r.nodes \ r.tails /\ D2 = r.defs[kid2] /\ ft \in Nat /\ else \in Nat
        /\ else \notin y.held /\ r.defs[kid2] \cap y.defs = {}
    BY <1>6, <1>7, <1>8, <1>10, <1>18, <1>19 DEF D2, kid2
  <2>2. QED
    BY <1>1, <1>19, <2>1, ArmSettles
<1>22. z \in Claim /\ IsWith(z, y, {else}, D2, "open")
  <2>1. {else} \in SUBSET Nat /\ "open" \in {"open", "closed", "done"}
    BY <1>8
  <2>2. QED
    BY <1>7, <1>19, <2>1, WithType
<1> HIDE DEF z, arm1
<1>23. Leads(Settled(r), Claim, z, arm1 \o arm2, m) /\ arm1 \o arm2 \in Seq(Task)
  BY <1>19, <1>20, <1>21, <1>22, LeadsOn, ConcatProperties
<1>24. PICK q \in Claim :
         /\ q.held = {ft, else} \cup m.held /\ q.pads = m.pads /\ q.defs = a.defs
         /\ q.end = "open" /\ Leads(Settled(r), Claim, q, arm1 \o arm2, m)
  <2>1. /\ z.held = {ft, else} \cup m.held /\ z.pads = m.pads /\ z.defs = a.defs
        /\ z.end = "open"
    BY <1>6, <1>7, <1>10, <1>19, <1>22 DEF IsWith
  <2>2. QED
    BY <1>22, <1>23, <2>1
<1>25. Claims(r, q)'
  <2>1. OpenBlocks(blocks') = q.held \cup P \cup {then}
    BY <1>10, <1>11, <1>12, <1>16, <1>24 DEF P
  <2>2. cur' \notin q.held \cup P /\ q.held \cap P = {} /\ 0 \notin q.held \cup P /\ cur' # 0
    <3>1. then # 0 /\ ft # 0 /\ else # 0
      BY <1>10
    <3>2. QED
      BY <1>9, <1>10, <1>12, <1>18, <1>24, <3>1 DEF P
  <2>3. OpenBlocks(blocks') = q.held \cup P \cup ({cur'} \ {0})
    BY <1>9, <2>1, <2>2
  <2>4. /\ q.end # "closed" /\ padStack' = q.pads
        /\ cachedReturn' # NoNode => cachedReturn' \in r.nodes
    BY <1>9, <1>12, <1>24
  <2>5. QED
    BY <1>2, <1>9, <1>24, <2>2, <2>3, <2>4, ClaimsNext DEF P
<1>26. ClaimInv(r)'
  BY <1>1, <1>2, <1>9, <1>23, <1>24, <1>25, ClaimPush
<1>27. CodeInv'
  <2> DEFINE X == ((2..Len(blocks')) \ PadSet) \ LabelBlocks
  <2>1. ft \in X /\ else \in X
    BY <1>10, <1>15
  <2> HIDE DEF X
  <2>2. NamesIn(arm1, X) /\ NamesIn(arm2, X)
    <3>1. /\ Named(Walk(kid2)) = {} /\ Named(Walk(kid3)) = {}
      BY NamedNone
    <3>2. /\ Named(Do("join", n, <<ft, else>>)) = {ft, else}
          /\ Named(Do("join", n, <<ft, ft>>)) = {ft}
      BY DEF Named, Do
    <3>3. /\ NamesIn(<<Walk(kid2), Do("join", n, <<ft, else>>)>>, X)
          /\ NamesIn(<<Walk(kid3), Do("join", n, <<ft, ft>>)>>, X)
          /\ NamesIn(<<>>, X)
      BY <2>1, <3>1, <3>2, NamesFew
    <3>4. QED
      BY <3>3 DEF arm1, arm2
  <2>3. NamesIn(arm1 \o arm2, X)
    BY <1>20, <1>21, <2>2, NamesConcat
  <2>4. Elements(padStack) \subseteq EmptyBlocks(blocks')
    BY <1>8, <1>11, <1>12, <1>16
  <2>5. Len(blocks') \in Nat /\ Len(blocks) <= Len(blocks')
    BY <1>8, <1>15
  <2>6. finallyBlock' \in {0, finallyBlock} /\ Landing(blocks') = Landing(blocks)
    BY <1>9, <1>11, <1>16
  <2>7. QED
    BY <1>1, <1>9, <1>17, <1>23, <2>3, <2>4, <2>5, <2>6, CodeKeeps DEF X
<1>28. QED
  BY <1>26, <1>27

\* The blocks the head task names.
LEMMA NamedHead ==
  ASSUME TypeOK, CodeInv, work # <<>>
  PROVE  Named(Head(work)) \subseteq Plain \ LabelBlocks
<1>1. work \in Seq(Task) /\ NamesIn(work, Plain \ LabelBlocks)
  BY DEF TypeOK, CodeInv
<1>2. QED
  BY <1>1, NamesTail

\* Leaving the current block, if there is one, for a block that is no landing pad.
LEMMA BranchAway ==
  ASSUME TypeOK, CodeInv, NEW r, NEW a \in Claim, Claims(r, a), a.end = "open",
         NEW t \in Plain, NEW bs, bs = BranchIfLive(blocks, cur, t)
  PROVE  /\ bs \in BlockSeq /\ Len(bs) = Len(blocks) /\ Len(bs) \in Nat
         /\ Sound(bs, Len(bs), PadSet) /\ Landing(bs) = Landing(blocks)
         /\ Elements(padStack) \subseteq EmptyBlocks(bs)
         /\ OpenBlocks(bs) = a.held \cup Pending(a.defs)
<1>1. /\ blocks \in BlockSeq /\ Len(blocks) \in Nat /\ cur \in 0..Len(blocks)
      /\ OpenBlocks(blocks) = a.held \cup Pending(a.defs) \cup ({cur} \ {0})
  BY ClaimsGive
<1>2. /\ cur \in OpenBlocks(blocks) \cup {0} /\ cur \notin a.held \cup Pending(a.defs)
      /\ Elements(padStack) \subseteq a.held
  BY ClaimsApart
<1>3. Sound(blocks, Len(blocks), PadSet) /\ Elements(padStack) \subseteq EmptyBlocks(blocks)
  BY DEF CodeInv
<1>4. t \in (2..Len(blocks)) \ PadSet /\ t \in Nat
  BY <1>1 DEF Plain
<1>5. bs \in BlockSeq /\ Len(bs) = Len(blocks)
  BY <1>1, <1>4, BranchIfLiveType
<1>6. /\ OpenBlocks(bs) = OpenBlocks(blocks) \ {cur}
      /\ EmptyBlocks(bs) = EmptyBlocks(blocks) \ {cur}
      /\ Landing(bs) = Landing(blocks)
  BY <1>1, <1>2, <1>4, BranchIfLiveIs
<1>7. Sound(bs, Len(blocks), PadSet)
  BY <1>1, <1>2, <1>3, <1>4, SoundBranch
<1>8. OpenBlocks(bs) = a.held \cup Pending(a.defs)
  <2> DEFINE P == Pending(a.defs)
  <2>1. OpenBlocks(blocks) = a.held \cup P \cup ({cur} \ {0}) /\ cur \notin a.held \cup P
    BY <1>1, <1>2
  <2>2. 0 \notin a.held \cup P
    BY ClaimsApart
  <2> HIDE DEF P
  <2>3. OpenBlocks(bs) = a.held \cup P
    BY <1>6, <2>1, <2>2
  <2>4. QED
    BY <2>3 DEF P
<1>9. Elements(padStack) \subseteq EmptyBlocks(bs)
  BY <1>2, <1>3, <1>6
<1>10. QED
  BY <1>1, <1>5, <1>6, <1>7, <1>8, <1>9

\* The current block is left, and the walk goes on in a block held for it, or in
\* none.
LEMMA CfgLeave ==
  ASSUME TypeOK, CodeInv, NEW r, Lays(r), work # <<>>, status' = "walking", Continue(<<>>),
         NEW a \in Claim, NEW m \in Claim, NEW b \in Claim, Claims(r, a), Final(b),
         Leads(Settled(r), Claim, m, Tail(work), b),
         a.end = "open", m.end \in {"open", "done"}, a.pads = m.pads, a.defs = m.defs,
         NEW x, cur' = x, a.held = ({x} \ {0}) \cup m.held, x \notin m.held,
         NEW t \in Plain, blocks' = BranchIfLive(blocks, cur, t),
         UNCHANGED <<labelmap, padStack, finallyBlock>>,
         cachedReturn' # NoNode => cachedReturn' \in r.nodes
  PROVE  CodeInv' /\ ClaimInv(r)'
<1>1. /\ padStack = a.pads /\ a.held \cap Pending(a.defs) = {} /\ 0 \notin a.held \cup Pending(a.defs)
  BY ClaimsApart
<1>2. /\ Len(blocks') = Len(blocks) /\ Len(blocks') \in Nat
      /\ Sound(blocks', Len(blocks'), PadSet) /\ Landing(blocks') = Landing(blocks)
      /\ Elements(padStack) \subseteq EmptyBlocks(blocks')
      /\ OpenBlocks(blocks') = a.held \cup Pending(a.defs)
  BY BranchAway
<1>3. CodeInv'
  <2>1. NamesIn(<<>>, ((2..Len(blocks')) \ PadSet) \ LabelBlocks) /\ <<>> \in Seq(Task)
    BY NamesFew, EmptySeq
  <2>2. Len(blocks) <= Len(blocks') /\ finallyBlock' \in {0, finallyBlock}
    BY <1>2
  <2>3. QED
    BY <1>2, <2>1, <2>2, CodeKeeps
<1>4. Claims(r, m)'
  <2> DEFINE P == Pending(a.defs)
  <2>1. /\ a.held = ({x} \ {0}) \cup m.held /\ a.held \cap P = {} /\ 0 \notin a.held \cup P
        /\ OpenBlocks(blocks') = a.held \cup P
    BY <1>1, <1>2
  <2> HIDE DEF P
  <2>2. x \notin m.held \cup P
    <3>1. CASE x = 0
      BY <2>1, <3>1
    <3>2. CASE x # 0
      BY <2>1, <3>2
    <3>3. QED
      BY <3>1, <3>2
  <2>3. /\ cur' \notin m.held \cup P /\ m.held \cap P = {} /\ 0 \notin m.held \cup P
        /\ OpenBlocks(blocks') = m.held \cup P \cup ({cur'} \ {0})
    BY <2>1, <2>2
  <2>4. m.end # "closed" /\ padStack' = m.pads
    BY <1>1
  <2>5. QED
    BY <2>3, <2>4, ClaimsNext DEF P
<1>5. ClaimInv(r)'
  BY <1>4, ClaimPushNone
<1>6. QED
  BY <1>3, <1>5

\* genIf leaves an arm for the block behind the statement.
LEMMA CfgJoinArm ==
  ASSUME TypeOK, NEW r, CodeInv, ClaimInv(r), JoinArm
  PROVE  CodeInv' /\ ClaimInv(r)'
<1>1. work # <<>> /\ status = "walking" /\ Head(work).op = "join" /\ Lays(r)
  BY DEF JoinArm, Running, ClaimInv
<1>2. PICK a \in Claim, m \in Claim, b \in Claim :
        /\ Claims(r, a) /\ Settles(r, a, Head(work), m)
        /\ Final(b) /\ Leads(Settled(r), Claim, m, Tail(work), b)
  BY <1>1, ClaimPop
<1>3. PICK ft, nx : ft = Saved(1) /\ nx = Saved(2)
  OBVIOUS
<1>4. /\ a.pads = m.pads /\ a.end = "open" /\ m.end \in {"open", "done"}
      /\ a.held = {nx} \cup m.held /\ nx \notin m.held /\ a.defs = m.defs
  <2>1. a.pads = m.pads /\ Runs(a, m) /\ Spends(a, m, {nx}, {})
    BY <1>1, <1>2, <1>3 DEF Settles, Saved
  <2>2. QED
    BY <2>1 DEF Runs, Spends
<1>5. ft \in Plain
  <2>1. ft \in Named(Head(work))
    BY <1>1, <1>3 DEF Named, Saved
  <2>2. QED
    BY <1>1, <2>1, NamedHead
<1>6. /\ cur \in OpenBlocks(blocks) \cup {0} /\ 0 \notin a.held
      /\ (cachedReturn # NoNode => cachedReturn \in r.nodes)
  BY <1>2, <1>4, ClaimsApart
<1>7. /\ Continue(<<>>) /\ status' = "walking" /\ cur' = nx
      /\ blocks' = BranchIfLive(blocks, cur, ft)
      /\ UNCHANGED <<labelmap, padStack, finallyBlock, cachedReturn>>
  BY <1>1, <1>3, <1>6 DEF JoinArm, BranchIfLive, OpenBlocks
<1>8. a.held = ({nx} \ {0}) \cup m.held
  BY <1>4, <1>6
<1>9. QED
  BY <1>1, <1>2, <1>4, <1>5, <1>6, <1>7, <1>8, CfgLeave

\* genSwitch creates the blocks of the cases and the epilog.
LEMMA CfgSwitchBlocks ==
  ASSUME TypeOK, NEW r, CodeInv, ClaimInv(r), SwitchBlocks
  PROVE  CodeInv' /\ ClaimInv(r)'
<1>1. work # <<>> /\ status = "walking" /\ Head(work).op = "cases" /\ Lays(r)
  BY DEF SwitchBlocks, Running, ClaimInv
<1>2. PICK a \in Claim, m \in Claim, b \in Claim :
        /\ Claims(r, a) /\ Settles(r, a, Head(work), m)
        /\ Final(b) /\ Leads(Settled(r), Claim, m, Tail(work), b)
  BY <1>1, ClaimPop
<1>3. PICK n \in Node : n = TheNode
  BY <1>1, HeadType
<1>4. PICK c \in Nat : c = Len(n.kids) /\ c >= 1 /\ n.k = "switch"
  <2>1. n.k = "switch"
    BY <1>1, <1>3, HeadType DEF TaskOK, TheNode
  <2>2. Len(n.kids) \in Nat /\ Len(n.kids) >= 1
    BY <2>1, NodeType, NodeAssumption
  <2>3. QED
    BY <2>1, <2>2
<1>5. /\ n \in r.nodes /\ a.pads = m.pads /\ a.end = "open" /\ m.end \in {"open", "done"}
      /\ a.held = m.held /\ a.defs = DefsFrom(r, n, 2) \cup m.defs
      /\ DefsFrom(r, n, 2) \cap m.defs = {}
  <2>1. n \in r.nodes /\ a.pads = m.pads /\ Runs(a, m) /\ Spends(a, m, {}, DefsFrom(r, n, 2))
    BY <1>1, <1>2, <1>3 DEF Settles, TheNode
  <2>2. QED
    BY <2>1 DEF Runs, Spends
<1>6. PICK base \in Nat, value \in Nat, h \in Nat :
        base = Len(blocks) /\ value = cur /\ h = base + c /\ base >= 1
  <2>1. Len(blocks) \in Nat /\ cur \in 0..Len(blocks) /\ Len(blocks) >= 1
    BY <1>1, HeadType DEF TypeOK, CodeInv
  <2>2. cur \in Nat /\ Len(blocks) + c \in Nat
    BY <2>1
  <2>3. QED
    BY <2>1, <2>2
<1> DEFINE t == Do("case", n, <<1, value, base>>)
           C == CaseBlocks(n, base, 1)
<1>7. /\ Continue(<<t>>) /\ status' = "walking" /\ blocks' = NewBlocks(blocks, c)
      /\ UNCHANGED <<labelmap, padStack, finallyBlock, cachedReturn, cur>>
  <2>1. NumCases(n) + 1 = c
    BY <1>4 DEF NumCases
  <2>2. QED
    BY <1>1, <1>3, <1>6, <2>1 DEF SwitchBlocks
<1>8. C = (base + 1)..h /\ C \subseteq 2..h
      /\ \A x \in C : x \notin PadSet /\ x \notin LabelBlocks /\ x \notin OpenBlocks(blocks)
      /\ value \notin C /\ 0 \notin C
  <2>1. C = (base + 1)..h
    BY <1>4, <1>6 DEF CaseBlocks
  <2>2. C \subseteq 2..h /\ \A x \in C : x \in Nat /\ x > Len(blocks)
    BY <1>6, <2>1
  <2>3. \A x \in C : x \notin PadSet /\ x \notin LabelBlocks /\ x \notin OpenBlocks(blocks)
    BY <2>2, FreshBlocks
  <2>4. value \in 0..base
    BY <1>6 DEF TypeOK
  <2>5. value \notin C /\ 0 \notin C
    BY <1>6, <2>1, <2>4
  <2>6. QED
    BY <2>1, <2>2, <2>3, <2>5
<1>9. t \in Task
  <2>1. <<1, value, base>> \in Seq(Nat) /\ "case" \in TaskOps
    BY DEF TaskOps
  <2>2. QED
    BY <2>1, TaskType
<1>10. /\ Len(blocks') = h /\ Sound(blocks', h, PadSet)
       /\ OpenBlocks(blocks') = OpenBlocks(blocks) \cup C
       /\ EmptyBlocks(blocks') = EmptyBlocks(blocks) \cup C
       /\ Landing(blocks') = Landing(blocks)
  <2>1. c \in Nat /\ {} \in SUBSET ((Len(blocks) + 1)..(Len(blocks) + c)) /\ h = Len(blocks) + c
    BY <1>6
  <2>2. /\ Len(blocks') = h /\ Sound(blocks', h, PadSet \cup {})
        /\ OpenBlocks(blocks') = OpenBlocks(blocks) \cup (Len(blocks) + 1)..h
        /\ EmptyBlocks(blocks') = EmptyBlocks(blocks) \cup (Len(blocks) + 1)..h
        /\ Landing(blocks') = Landing(blocks)
    BY <1>7, <2>1, CodeGrown
  <2>3. PadSet \cup {} = PadSet /\ (Len(blocks) + 1)..h = C
    BY <1>6, <1>8
  <2>4. QED
    BY <2>2, <2>3
<1>11. /\ padStack = a.pads /\ a.held \cap Pending(a.defs) = {}
       /\ 0 \notin a.held \cup Pending(a.defs) /\ cur \notin a.held \cup Pending(a.defs)
       /\ OpenBlocks(blocks) = a.held \cup Pending(a.defs) \cup ({cur} \ {0})
       /\ cachedReturn # NoNode => cachedReturn \in r.nodes
  BY <1>2, <1>5, ClaimsApart, ClaimsGive
<1>12. t.op = "case" /\ t.n = n /\ t.bb[1] = 1 /\ t.bb[2] = value /\ t.bb[3] = base
  BY DEF Do
<1> HIDE DEF t, C
<1>13. CodeInv'
  <2>1. Named(t) = C
    BY <1>4, <1>12 DEF Named, C, CaseBlocks
  <2>2. Named(t) \subseteq ((2..Len(blocks')) \ PadSet) \ LabelBlocks
    BY <1>8, <1>10, <2>1
  <2>3. NamesIn(<<t>>, ((2..Len(blocks')) \ PadSet) \ LabelBlocks) /\ <<t>> \in Seq(Task)
    <3>1. NamesIn(<<t>>, ((2..Len(blocks')) \ PadSet) \ LabelBlocks)
      BY <2>2, NamesFew
    <3>2. QED
      BY <1>9, <3>1
  <2>4. Len(blocks') \in Nat /\ Len(blocks) <= Len(blocks') /\ finallyBlock' \in {0, finallyBlock}
    BY <1>6, <1>7, <1>10
  <2>5. Elements(padStack) \subseteq EmptyBlocks(blocks') /\ Sound(blocks', Len(blocks'), PadSet)
    BY <1>10 DEF CodeInv
  <2>6. QED
    BY <1>1, <1>7, <1>10, <2>3, <2>4, <2>5, CodeKeeps
<1>14. PICK z \in Claim : IsWith(z, m, C, DefsFrom(r, n, 2), "open")
  <2>1. C \in SUBSET Nat /\ "open" \in {"open", "closed", "done"}
    BY <1>8
  <2>2. DefsFrom(r, n, 2) \in SUBSET Label
    BY <1>5, ClaimIs
  <2>3. QED
    BY <2>1, <2>2, WithType
<1>15. /\ z.held = C \cup m.held /\ z.pads = m.pads /\ z.defs = a.defs /\ z.end = "open"
  BY <1>5, <1>14 DEF IsWith
<1>16. Claims(r, z)'
  <2> DEFINE P == Pending(a.defs)
  <2>1. /\ C \cap P = {} /\ C \cap m.held = {} /\ cur' \notin C
    BY <1>5, <1>6, <1>7, <1>8, <1>11
  <2>2. /\ cur' \notin z.held \cup P /\ z.held \cap P = {} /\ 0 \notin z.held \cup P
        /\ OpenBlocks(blocks') = z.held \cup P \cup ({cur'} \ {0})
    BY <1>5, <1>7, <1>8, <1>10, <1>11, <1>15, <2>1
  <2>3. /\ z.end # "closed" /\ padStack' = z.pads
        /\ cachedReturn' # NoNode => cachedReturn' \in r.nodes
    BY <1>5, <1>7, <1>11, <1>15
  <2>4. QED
    BY <1>2, <1>7, <1>15, <2>2, <2>3, ClaimsNext
<1>17. Settles(r, z, t, m)
  <2>1. C \cap m.held = {} /\ value \notin m.held
    BY <1>5, <1>6, <1>8, <1>11
  <2>2. Spends(z, m, {} \cup C, DefsFrom(r, n, 2))
    BY <1>5, <1>15, <2>1 DEF Spends
  <2>3. Runs(z, m)
    BY <1>5, <1>15 DEF Runs
  <2>4. SettlesCase(r, z, n, 1, value, base, m)
    BY <1>5, <1>8, <1>15, <2>1, <2>2, <2>3 DEF SettlesCase, C
  <2>5. QED
    BY <1>12, <2>4 DEF Settles
<1>18. ClaimInv(r)'
  BY <1>1, <1>2, <1>7, <1>9, <1>16, <1>17, ClaimPushOne
<1>19. QED
  BY <1>13, <1>18

\* Control does not fall through from a case: where the loop over the cases looks
\* at the block a case started in, the current block is that one or there is none.
LEMMA CaseEntered ==
  ASSUME TypeOK, NEW s, FlowInv(s), SwitchesClose(s), work # <<>>, status = "walking",
         Head(work).op = "case"
  PROVE  /\ Saved(2) # 0
         /\ cur \in IF Saved(1) = 1 THEN {Saved(2)} ELSE {0, Saved(3) + Saved(1) - 1}
<1>1. PICK a \in Point, m \in Point, b \in Point :
        At(s, a) /\ Fits(s, a, Head(work), m) /\ Leads(Steps(s), Point, m, Tail(work), b)
  BY FlowPop
<1>2. FitsCase(s, a, Head(work), m)
  BY <1>1 DEF Fits
<1>3. QED
  BY <1>1, <1>2 DEF FitsCase, At, Saved

\* The loop over the cases closes the case walked before; the block of the switch
\* instruction is open.
LEMMA CaseClosedIs ==
  ASSUME TypeOK, CodeInv, NEW r, NEW a \in Claim, NEW m \in Claim, Claims(r, a),
         work # <<>>, Head(work).op = "case",
         NEW n \in Node, n = TheNode, NEW i \in Nat, i = Saved(1), NEW value, value = Saved(2),
         NEW base \in Nat, base = Saved(3),
         SettlesCase(r, a, n, i, value, base, m), value # 0,
         cur \in IF i = 1 THEN {value} ELSE {0, base + i - 1},
         NEW bs, bs = CaseClosed, NEW C, C = CaseBlocks(n, base, i),
         NEW P, P = Pending(a.defs)
  PROVE  /\ bs \in BlockSeq /\ Len(bs) = Len(blocks) /\ Len(bs) \in Nat
         /\ Sound(bs, Len(bs), PadSet) /\ Landing(bs) = Landing(blocks)
         /\ Elements(padStack) \subseteq EmptyBlocks(bs)
         /\ OpenBlocks(bs) = {value} \cup C \cup m.held \cup P
         /\ value \notin C \cup m.held \cup P
         /\ C \cap (m.held \cup P) = {} /\ m.held \cap P = {} /\ 0 \notin C \cup m.held \cup P
<1>1. /\ a.pads = m.pads /\ a.end = "open" /\ m.end \in {"open", "done"}
      /\ a.held = (IF i > 1 THEN {value} ELSE {}) \cup C \cup m.held
      /\ ((IF i > 1 THEN {value} ELSE {}) \cup C) \cap m.held = {}
      /\ value \notin CaseBlocks(n, base, 1) \cup m.held
      /\ i > 1 => base + i - 1 \notin m.held
  BY DEF SettlesCase, Runs, Spends
<1>2. PICK c \in Nat : c = Len(n.kids) /\ i \in 1..c
  BY CaseTask
<1>3. Named(Head(work)) = (base + 1)..(base + c)
      /\ (base + 1)..(base + c) \subseteq Plain \ LabelBlocks
  <2>1. Named(Head(work)) = (base + 1)..(base + c)
    BY <1>2 DEF Named, TheNode, Saved
  <2>2. QED
    BY <2>1, NamedHead
<1>4. C = (base + i)..(base + c) /\ CaseBlocks(n, base, 1) = (base + 1)..(base + c)
  BY <1>2 DEF CaseBlocks
<1>5. /\ padStack = a.pads /\ Elements(padStack) \subseteq a.held
      /\ cur \notin a.held \cup P /\ a.held \cap P = {} /\ 0 \notin a.held \cup P
      /\ cur \in OpenBlocks(blocks) \cup {0}
      /\ OpenBlocks(blocks) = a.held \cup P \cup ({cur} \ {0})
      /\ blocks \in BlockSeq /\ Len(blocks) \in Nat
  BY <1>1, ClaimsApart, ClaimsGive
<1>6. /\ value \notin C \cup m.held \cup P
      /\ C \cap (m.held \cup P) = {} /\ m.held \cap P = {} /\ 0 \notin C \cup m.held \cup P
  <2>1. C \subseteq CaseBlocks(n, base, 1)
    BY <1>2, <1>4
  <2>2. value \notin P
    <3>1. CASE i > 1
      BY <1>1, <1>5, <3>1
    <3>2. CASE ~(i > 1)
      <4>1. i = 1
        BY <1>2, <3>2
      <4>2. QED
        BY <1>5, <4>1
    <3>3. QED
      BY <3>1, <3>2
  <2>3. QED
    BY <1>1, <1>5, <2>1, <2>2
<1>7. CASE i = 1
  <2>1. bs = blocks
    BY <1>7 DEF CaseClosed
  <2>2. OpenBlocks(bs) = {value} \cup C \cup m.held \cup P
    <3>1. a.held = C \cup m.held /\ cur = value
      BY <1>1, <1>7
    <3>2. QED
      BY <1>5, <2>1, <3>1
  <2>3. Sound(bs, Len(bs), PadSet) /\ Elements(padStack) \subseteq EmptyBlocks(bs)
    BY <2>1 DEF CodeInv
  <2>4. QED
    BY <1>5, <1>6, <2>1, <2>2, <2>3
<1>8. CASE i # 1
  <2>1. i > 1 /\ i >= 1
    BY <1>2, <1>8
  <2> DEFINE prev == base + i - 1
             epi == EpilogBlock(n, base)
  <2>2. i \in Nat /\ base \in Nat /\ c \in Nat /\ i <= c /\ c >= 1 /\ C = (base + i)..(base + c)
    BY <1>2, <1>4, NodeType
  <2>3. epi \in Plain
    <3>1. NumCases(n) = c - 1
      BY <1>2 DEF NumCases
    <3>2. epi = base + c /\ base + c \in (base + 1)..(base + c)
      BY <2>2, <3>1 DEF EpilogBlock
    <3>3. QED
      BY <1>3, <3>2
  <2>4. prev \in (base + 1)..(base + c) /\ prev \notin C
    <3>1. base + i - 1 >= base + 1 /\ base + i - 1 <= base + c /\ base + i - 1 \in Int
      BY <2>1, <2>2
    <3>2. base + i - 1 \notin (base + i)..(base + c)
      BY <2>2
    <3>3. QED
      BY <2>2, <3>1, <3>2
  <2>5. prev \notin a.held \cup P
    <3>1. prev # value /\ prev \notin m.held
      BY <1>1, <1>4, <2>1, <2>4
    <3>2. prev \notin LabelBlocks
      BY <1>3, <2>4
    <3>3. P \subseteq LabelBlocks
      <4>1. a.defs \subseteq Label
        BY ClaimIs
      <4>2. QED
        BY <4>1 DEF Pending, LabelBlocks
    <3>4. QED
      BY <1>1, <2>1, <2>4, <3>1, <3>2, <3>3
  <2>6. cur \in {0, prev}
    BY <1>8
  <2>7. HasTerminator(blocks, prev) <=> cur = 0
    <3>1. prev \in 1..Len(blocks)
      <4>1. prev \in Plain
        BY <1>3, <2>4
      <4>2. QED
        BY <1>5, <4>1 DEF Plain
    <3>2. ~HasTerminator(blocks, prev) <=> prev \in OpenBlocks(blocks)
      BY <3>1 DEF OpenBlocks
    <3>3. prev # 0
      BY <1>5, <3>1
    <3>4. prev \in OpenBlocks(blocks) <=> cur = prev
      BY <1>5, <2>5, <3>3
    <3>5. QED
      BY <2>6, <3>2, <3>3, <3>4
  <2>8. bs = BranchIfLive(blocks, cur, epi)
    <3>1. bs = IF ~HasTerminator(blocks, prev) THEN Put(blocks, prev, Br(epi)) ELSE blocks
      BY <2>1 DEF CaseClosed
    <3>2. QED
      BY <2>6, <2>7, <3>1 DEF BranchIfLive
  <2> HIDE DEF prev, epi
  <2>9. /\ bs \in BlockSeq /\ Len(bs) = Len(blocks) /\ Len(bs) \in Nat
        /\ Sound(bs, Len(bs), PadSet) /\ Landing(bs) = Landing(blocks)
        /\ Elements(padStack) \subseteq EmptyBlocks(bs)
        /\ OpenBlocks(bs) = a.held \cup Pending(a.defs)
    BY <1>1, <2>3, <2>8, BranchAway
  <2>10. OpenBlocks(bs) = {value} \cup C \cup m.held \cup P
    BY <1>1, <2>1, <2>9
  <2>11. QED
    BY <1>6, <2>9, <2>10
<1>9. QED
  BY <1>7, <1>8


\* The loop over the cases: what its task holds, and what is claimed around it.
LEMMA CaseHead ==
  ASSUME TypeOK, NEW s, FlowInv(s), SwitchesClose(s), CodeInv, NEW r, ClaimInv(r),
         work # <<>>, status = "walking", Head(work).op = "case"
  PROVE  \E a, m, b \in Claim, n \in Node, i, base, c, value \in Nat :
            /\ Claims(r, a) /\ Final(b) /\ Leads(Settled(r), Claim, m, Tail(work), b)
            /\ SettlesCase(r, a, n, i, value, base, m)
            /\ n = TheNode /\ n.k = "switch" /\ c = Len(n.kids) /\ i \in 1..c
            /\ i = Saved(1) /\ value = Saved(2) /\ value # 0 /\ base = Saved(3)
            /\ value \in 1..Len(blocks)
            /\ cur \in IF i = 1 THEN {value} ELSE {0, base + i - 1}
            /\ (base + 1)..(base + c) \subseteq Plain \ LabelBlocks
<1>1. PICK a \in Claim, m \in Claim, b \in Claim :
        /\ Claims(r, a) /\ Settles(r, a, Head(work), m)
        /\ Final(b) /\ Leads(Settled(r), Claim, m, Tail(work), b)
  BY ClaimPop
<1>2. PICK n \in Node : n = TheNode
  BY HeadType
<1>3. PICK i, base, c, value : i = Saved(1) /\ value = Saved(2) /\ base = Saved(3) /\ c = Len(n.kids)
  OBVIOUS
<1>4. /\ i \in Nat /\ base \in Nat /\ c \in Nat /\ value \in Nat /\ i \in 1..c
      /\ value \in 0..Len(blocks) /\ n.k = "switch" /\ Len(blocks) \in Nat
  BY <1>2, <1>3, CaseTask, HeadType
<1>5. value # 0 /\ cur \in IF i = 1 THEN {value} ELSE {0, base + i - 1}
  BY <1>3, CaseEntered
<1>6. SettlesCase(r, a, n, i, value, base, m)
  BY <1>1, <1>2, <1>3 DEF Settles, TheNode, Saved
<1>7. (base + 1)..(base + c) \subseteq Plain \ LabelBlocks
  <2>1. Named(Head(work)) = (base + 1)..(base + c)
    BY <1>2, <1>3 DEF Named, TheNode, Saved
  <2>2. QED
    BY <2>1, NamedHead
<1>8. value \in 1..Len(blocks)
  BY <1>4, <1>5
<1>9. QED
  BY <1>1, <1>2, <1>3, <1>4, <1>5, <1>6, <1>7, <1>8

\* genSwitch goes on with the next case.
LEMMA CfgSwitchCase ==
  ASSUME TypeOK, NEW s, FlowInv(s), SwitchesClose(s), NEW r, CodeInv, ClaimInv(r), SwitchCase
  PROVE  CodeInv' /\ ClaimInv(r)'
<1>1. work # <<>> /\ status = "walking" /\ Head(work).op = "case" /\ Lays(r)
  BY DEF SwitchCase, Running, ClaimInv
<1>2. PICK a \in Claim, m \in Claim, b \in Claim, n \in Node,
           i \in Nat, base \in Nat, c \in Nat, value \in Nat :
            /\ Claims(r, a) /\ Final(b) /\ Leads(Settled(r), Claim, m, Tail(work), b)
            /\ SettlesCase(r, a, n, i, value, base, m)
            /\ n = TheNode /\ n.k = "switch" /\ c = Len(n.kids) /\ i \in 1..c
            /\ i = Saved(1) /\ value = Saved(2) /\ value # 0 /\ base = Saved(3)
            /\ value \in 1..Len(blocks)
            /\ cur \in IF i = 1 THEN {value} ELSE {0, base + i - 1}
            /\ (base + 1)..(base + c) \subseteq Plain \ LabelBlocks
  BY <1>1, CaseHead
<1>3. PICK bs, C, P : bs = CaseClosed /\ C = CaseBlocks(n, base, i) /\ P = Pending(a.defs)
  OBVIOUS
<1>4. /\ bs \in BlockSeq /\ Len(bs) = Len(blocks) /\ Len(bs) \in Nat
      /\ Sound(bs, Len(bs), PadSet) /\ Landing(bs) = Landing(blocks)
      /\ Elements(padStack) \subseteq EmptyBlocks(bs)
      /\ OpenBlocks(bs) = {value} \cup C \cup m.held \cup P
      /\ value \notin C \cup m.held \cup P
      /\ C \cap (m.held \cup P) = {} /\ m.held \cap P = {} /\ 0 \notin C \cup m.held \cup P
  BY <1>1, <1>2, <1>3, CaseClosedIs
<1>5. PICK h, g, x, kid : /\ h = i + 1 /\ Follows(h, i) /\ g = h + 1 /\ Follows(g, h)
                          /\ x = base + i /\ kid = n.kids[h]
  BY DEF Follows
<1> DEFINE t == Walk(kid)
           u == Do("case", n, <<h, value, base>>)
           D == CaseBlocks(n, base, h)
<1>6. /\ i <= c - 1 /\ blocks' = bs /\ cur' = x /\ Continue(<<t, u>>) /\ status' = "walking"
      /\ UNCHANGED <<labelmap, padStack, finallyBlock, cachedReturn>>
  BY <1>1, <1>2, <1>3, <1>5 DEF SwitchCase, NumCases
<1>7. /\ h \in 1..c /\ h \in Nat /\ h > 1 /\ x \in C /\ x \in Nat /\ C = {x} \cup D /\ x \notin D
      /\ D \subseteq Nat /\ base + h - 1 = x
  <2>0. i \in Nat /\ base \in Nat /\ c \in Nat /\ i >= 1 /\ i <= c - 1 /\ h = i + 1 /\ x = base + i
    BY <1>2, <1>5, <1>6
  <2>1. h \in 1..c /\ h \in Nat /\ h > 1 /\ x \in Nat /\ base + h - 1 = x
    BY <2>0
  <2>2. C = (base + i)..(base + c) /\ D = (base + h)..(base + c)
    BY <1>2, <1>3 DEF CaseBlocks
  <2>3. base + h = x + 1 /\ x <= base + c /\ base + c \in Nat
    BY <2>0
  <2>4. C = x..(base + c) /\ D = (x + 1)..(base + c)
    BY <1>5, <2>2, <2>3
  <2>5. x \in C /\ C = {x} \cup D /\ x \notin D /\ D \subseteq Nat
    BY <2>1, <2>3, <2>4
  <2>6. QED
    BY <2>1, <2>5
<1>8. /\ n \in r.nodes /\ a.pads = m.pads /\ a.end = "open" /\ m.end \in {"open", "done"}
      /\ a.defs = DefsFrom(r, n, h) \cup m.defs /\ DefsFrom(r, n, h) \cap m.defs = {}
      /\ value \notin CaseBlocks(n, base, 1)
  BY <1>2, <1>5 DEF SettlesCase, Runs, Spends
<1>9. /\ kid \in r.nodes \ r.tails /\ kid \in Node
      /\ DefsFrom(r, n, h) = r.defs[kid] \cup DefsFrom(r, n, g)
      /\ r.defs[kid] \cap DefsFrom(r, n, g) = {}
      /\ DefsFrom(r, n, h) \in SUBSET Label /\ DefsFrom(r, n, g) \in SUBSET Label
  <2>1. n.k \notin {"label", "goto", "return"} /\ n.k # "return" /\ n.k # "block"
    BY <1>2
  <2>2. h \in 1..Len(n.kids)
    BY <1>2, <1>7
  <2>3. kid \in r.nodes /\ kid \notin r.tails /\ kid \in Node
    BY <1>1, <1>5, <1>8, <2>1, <2>2, LayoutGives
  <2>4. /\ DefsFrom(r, n, h) = r.defs[n.kids[h]] \cup DefsFrom(r, n, g)
        /\ r.defs[n.kids[h]] \cap DefsFrom(r, n, g) = {}
    BY <1>1, <1>5, <1>8, <2>1, <2>2, DefsSplit
  <2>5. DefsFrom(r, n, h) \in SUBSET Label /\ DefsFrom(r, n, g) \in SUBSET Label
    BY <1>8, <2>4, ClaimIs
  <2>6. QED
    BY <1>5, <2>3, <2>4, <2>5
<1>10. t \in Task /\ u \in Task
  <2>1. <<h, value, base>> \in Seq(Nat) /\ "case" \in TaskOps
    BY <1>7 DEF TaskOps
  <2>2. t \in Task
    BY <1>9, TaskType
  <2>3. QED
    BY <2>1, <2>2, TaskType
<1>11. /\ t.op = "walk" /\ t.n = kid /\ u.op = "case" /\ u.n = n
       /\ u.bb[1] = h /\ u.bb[2] = value /\ u.bb[3] = base /\ Named(t) = {}
  BY NamedNone DEF Walk, Do
<1> HIDE DEF t, u, D
<1>12. CodeInv'
  <2> DEFINE X == ((2..Len(blocks')) \ PadSet) \ LabelBlocks
  <2>1. Named(u) = (base + 1)..(base + c)
    BY <1>2, <1>11 DEF Named
  <2>2. Named(u) \subseteq X /\ Named(t) \subseteq X
    BY <1>2, <1>4, <1>6, <1>11, <2>1 DEF Plain
  <2> HIDE DEF X
  <2>3. NamesIn(<<t, u>>, X)
    BY <2>2, NamesFew
  <2>4. <<t, u>> \in Seq(Task)
    BY <1>10
  <2>5. /\ Len(blocks') \in Nat /\ Len(blocks) <= Len(blocks')
        /\ finallyBlock' \in {0, finallyBlock} /\ Landing(blocks') = Landing(blocks)
        /\ Sound(blocks', Len(blocks'), PadSet)
        /\ Elements(padStack) \subseteq EmptyBlocks(blocks')
    BY <1>4, <1>6
  <2>6. QED
    BY <1>1, <1>6, <2>3, <2>4, <2>5, CodeKeeps DEF X
<1>13. {value} \cup D \in SUBSET Nat /\ "open" \in {"open", "closed", "done"}
  BY <1>7
<1>14. PICK z \in Claim : IsWith(z, m, {value} \cup D, DefsFrom(r, n, h), "open")
  BY <1>9, <1>13, WithType
<1>15. PICK y \in Claim : IsWith(y, m, {value} \cup D, DefsFrom(r, n, g), "open")
  BY <1>9, <1>13, WithType
<1>16. /\ z.held = ({value} \cup D) \cup m.held /\ z.pads = m.pads
       /\ z.defs = DefsFrom(r, n, h) \cup m.defs /\ z.end = "open"
  BY <1>14 DEF IsWith
<1>17. /\ y.held = ({value} \cup D) \cup m.held /\ y.pads = m.pads
       /\ y.defs = DefsFrom(r, n, g) \cup m.defs /\ y.end = "open"
  BY <1>15 DEF IsWith
<1>18. Claims(r, z)'
  <2>1. /\ padStack = a.pads
        /\ cachedReturn # NoNode => cachedReturn \in r.nodes
    BY <1>1, <1>2, ClaimsApart
  <2>2. /\ cur' \notin z.held \cup P /\ z.held \cap P = {} /\ 0 \notin z.held \cup P
        /\ OpenBlocks(blocks') = z.held \cup P \cup ({cur'} \ {0})
    BY <1>2, <1>4, <1>6, <1>7, <1>16
  <2>3. /\ z.end # "closed" /\ padStack' = z.pads /\ z.defs = a.defs
        /\ cachedReturn' # NoNode => cachedReturn' \in r.nodes
    BY <1>6, <1>8, <1>16, <2>1
  <2>4. QED
    BY <1>2, <1>3, <1>6, <2>2, <2>3, ClaimsNext
<1>19. Settles(r, z, t, y)
  <2>1. Spends(z, y, {}, r.defs[kid])
    BY <1>8, <1>9, <1>16, <1>17 DEF Spends
  <2>2. SettlesWalk(r, z, kid, y)
    BY <1>9, <1>16, <1>17, <2>1 DEF SettlesWalk
  <2>3. QED
    BY <1>11, <2>2 DEF Settles
<1>20. Settles(r, y, u, m)
  <2>1. ({value} \cup D) \cap m.held = {} /\ DefsFrom(r, n, g) \cap m.defs = {}
    BY <1>4, <1>7, <1>8, <1>9
  <2>2. Spends(y, m, {value} \cup D, DefsFrom(r, n, g)) /\ Runs(y, m)
    BY <1>8, <1>17, <2>1 DEF Spends, Runs
  <2>3. x \notin m.held /\ value \notin CaseBlocks(n, base, 1) \cup m.held
    BY <1>4, <1>7, <1>8
  <2>4. SettlesCase(r, y, n, h, value, base, m)
    BY <1>5, <1>7, <1>8, <1>17, <2>2, <2>3 DEF SettlesCase, D
  <2>5. QED
    BY <1>11, <2>4 DEF Settles
<1>21. ClaimInv(r)'
  BY <1>1, <1>2, <1>6, <1>10, <1>18, <1>19, <1>20, ClaimPushTwo
<1>22. QED
  BY <1>12, <1>21

\* The targets of a switch instruction are blocks of its cases, and the epilog.
LEMMA SwitchTargets ==
  ASSUME NEW n \in Node, n.k = "switch", NEW base \in Nat, NEW c \in Nat, c = Len(n.kids),
         NEW k \in Nat, NEW X, (base + 1)..(base + c) \subseteq (2..k) \ X,
         NEW ins, ins = Ins("switch", <<DefaultTarget(n, base)>> \o
                                      [j \in 1..NumCases(n) |-> base + j])
  PROVE  ins \in Instr /\ ins.op # "landingpad" /\ IsTerminator(ins) /\ Apt(ins, k, X)
<1> DEFINE T == (base + 1)..(base + c)
           d == DefaultTarget(n, base)
           f == [j \in 1..NumCases(n) |-> base + j]
<1>1. c >= 1 /\ n.arg \in Nat /\ n.arg < c /\ NumCases(n) = c - 1
  BY NodeAssumption, NodeType DEF NumCases
<1>2. d \in T
  <2>1. d = IF n.arg = 0 THEN base + (c - 1) + 1 ELSE base + n.arg
    BY <1>1 DEF DefaultTarget, EpilogBlock
  <2>2. QED
    BY <1>1, <2>1
<1>3. f \in Seq(T) /\ f \in Seq(Nat)
  <2>1. NumCases(n) \in Nat /\ \A j \in 1..NumCases(n) : base + j \in T /\ base + j \in Nat
    BY <1>1
  <2> HIDE DEF T
  <2>2. f \in Seq(T)
    BY <2>1
  <2>3. f \in Seq(Nat)
    BY <2>1
  <2>4. QED
    BY <2>2, <2>3
<1>4. <<d>> \in Seq(T) /\ <<d>> \in Seq(Nat)
  <2>1. d \in Nat
    BY <1>2
  <2> HIDE DEF T, d
  <2>2. QED
    BY <1>2, <2>1
<1> HIDE DEF T, d, f
<1> DEFINE to == <<d>> \o f
<1>5. to \in Seq(T) /\ to \in Seq(Nat)
  BY <1>3, <1>4, ConcatProperties
<1> HIDE DEF to
<1>6. \A j \in 1..Len(to) : to[j] \in T
  BY <1>5, ElementOfSeq
<1>7. ins = Ins("switch", to)
  BY DEF d, f, to
<1>8. ins \in Instr /\ ins.op = "switch" /\ ins.to = to
  <2>1. "switch" \in Terminators \cup {"landingpad"}
    BY DEF Terminators
  <2>2. Ins("switch", to) \in Instr
    BY <1>5, <2>1, InsType
  <2>3. Ins("switch", to).op = "switch" /\ Ins("switch", to).to = to
    BY DEF Ins
  <2>4. QED
    BY <1>7, <2>2, <2>3
<1>9. IsTerminator(ins) /\ ins.op # "landingpad" /\ ins.op # "invoke"
  BY <1>8 DEF IsTerminator, Terminators
<1>10. T \subseteq (2..k) \ X
  BY DEF T
<1>11. Apt(ins, k, X)
  BY <1>6, <1>8, <1>9, <1>10 DEF Apt
<1>12. QED
  BY <1>8, <1>9, <1>11

\* genSwitch puts the switch instruction behind the value.
LEMMA CfgSwitchEnd ==
  ASSUME TypeOK, NEW s, FlowInv(s), SwitchesClose(s), NEW r, CodeInv, ClaimInv(r), SwitchEnd
  PROVE  CodeInv' /\ ClaimInv(r)'
<1>1. work # <<>> /\ status = "walking" /\ Head(work).op = "case" /\ Lays(r)
  BY DEF SwitchEnd, Running, ClaimInv
<1>2. PICK a \in Claim, m \in Claim, b \in Claim, n \in Node,
           i \in Nat, base \in Nat, c \in Nat, value \in Nat :
            /\ Claims(r, a) /\ Final(b) /\ Leads(Settled(r), Claim, m, Tail(work), b)
            /\ SettlesCase(r, a, n, i, value, base, m)
            /\ n = TheNode /\ n.k = "switch" /\ c = Len(n.kids) /\ i \in 1..c
            /\ i = Saved(1) /\ value = Saved(2) /\ value # 0 /\ base = Saved(3)
            /\ value \in 1..Len(blocks)
            /\ cur \in IF i = 1 THEN {value} ELSE {0, base + i - 1}
            /\ (base + 1)..(base + c) \subseteq Plain \ LabelBlocks
  BY <1>1, CaseHead
<1>3. PICK bs, C, P, ins :
        /\ bs = CaseClosed /\ C = CaseBlocks(n, base, i) /\ P = Pending(a.defs)
        /\ ins = Ins("switch", <<DefaultTarget(n, base)>> \o [j \in 1..NumCases(n) |-> base + j])
  OBVIOUS
<1>4. /\ bs \in BlockSeq /\ Len(bs) = Len(blocks) /\ Len(bs) \in Nat
      /\ Sound(bs, Len(bs), PadSet) /\ Landing(bs) = Landing(blocks)
      /\ Elements(padStack) \subseteq EmptyBlocks(bs)
      /\ OpenBlocks(bs) = {value} \cup C \cup m.held \cup P
      /\ value \notin C \cup m.held \cup P
      /\ C \cap (m.held \cup P) = {} /\ m.held \cap P = {} /\ 0 \notin C \cup m.held \cup P
  BY <1>1, <1>2, <1>3, CaseClosedIs
<1>5. PICK h, epi : h = i + 1 /\ epi = EpilogBlock(n, base)
  OBVIOUS
<1>6. /\ ~(i <= c - 1) /\ blocks' = Put(bs, value, ins) /\ cur' = epi /\ Continue(<<>>)
      /\ status' = "walking"
      /\ UNCHANGED <<labelmap, padStack, finallyBlock, cachedReturn>>
  BY <1>1, <1>2, <1>3, <1>5 DEF SwitchEnd, NumCases
<1>7. C = {epi} /\ h \in Nat /\ h >= 1 /\ h > c /\ epi # 0
  <2>1. i \in Nat /\ base \in Nat /\ c \in Nat /\ i >= 1 /\ i <= c /\ ~(i <= c - 1) /\ h = i + 1
    BY <1>2, <1>5, <1>6
  <2>2. C = (base + i)..(base + c) /\ epi = base + (c - 1) + 1
    BY <1>2, <1>3, <1>5 DEF CaseBlocks, EpilogBlock, NumCases
  <2>3. i = c
    BY <2>1
  <2>4. epi = base + c /\ epi \in Nat /\ epi # 0
    BY <2>1, <2>2
  <2>5. C = epi..epi
    BY <2>2, <2>3, <2>4
  <2>6. QED
    BY <2>1, <2>4, <2>5
<1>8. /\ n \in r.nodes /\ a.pads = m.pads /\ a.end = "open" /\ m.end \in {"open", "done"}
      /\ a.defs = DefsFrom(r, n, h) \cup m.defs
  BY <1>2, <1>5 DEF SettlesCase, Runs, Spends
<1>9. a.defs = m.defs
  <2>1. DefsFrom(r, n, h) = {}
    BY <1>1, <1>2, <1>7, <1>8, DefsType
  <2>2. QED
    BY <1>8, <2>1
<1>10. ins \in Instr /\ ins.op # "landingpad" /\ IsTerminator(ins) /\ Apt(ins, Len(bs), PadSet)
  <2>1. (base + 1)..(base + c) \subseteq (2..Len(bs)) \ PadSet
    BY <1>2, <1>4 DEF Plain
  <2>2. Len(bs) \in Nat /\ n \in Node /\ n.k = "switch" /\ c = Len(n.kids)
    BY <1>2, <1>4
  <2>3. ins = Ins("switch", <<DefaultTarget(n, base)>> \o [j \in 1..NumCases(n) |-> base + j])
    BY <1>3
  <2>4. QED
    BY <2>1, <2>2, <2>3, SwitchTargets
<1>11. value \in OpenBlocks(bs) /\ value \in 1..Len(bs)
  BY <1>2, <1>4
<1>12. blocks' \in BlockSeq /\ Len(blocks') = Len(bs)
  BY <1>4, <1>6, <1>10, <1>11, PutType
<1>13. /\ OpenBlocks(blocks') = OpenBlocks(bs) \ {value}
       /\ EmptyBlocks(blocks') = EmptyBlocks(bs) \ {value}
       /\ Landing(blocks') = Landing(bs)
  BY <1>4, <1>6, <1>10, <1>11, PutIs
<1>14. Sound(blocks', Len(blocks'), PadSet)
  BY <1>4, <1>6, <1>10, <1>11, <1>12, SoundPut
<1>15. /\ padStack = m.pads /\ Elements(padStack) \subseteq m.held
       /\ cachedReturn # NoNode => cachedReturn \in r.nodes
  <2>1. padStack = a.pads
    BY <1>1, <1>2, ClaimsApart
  <2>2. cachedReturn # NoNode => cachedReturn \in r.nodes
    BY <1>1, <1>2, ClaimsApart
  <2>3. Elements(m.pads) \subseteq m.held
    BY ClaimIs
  <2>4. QED
    BY <1>8, <2>1, <2>2, <2>3
<1>16. CodeInv'
  <2>1. NamesIn(<<>>, ((2..Len(blocks')) \ PadSet) \ LabelBlocks) /\ <<>> \in Seq(Task)
    BY NamesFew, EmptySeq
  <2>2. Elements(padStack) \subseteq EmptyBlocks(blocks')
    BY <1>4, <1>13, <1>15
  <2>3. /\ Len(blocks') \in Nat /\ Len(blocks) <= Len(blocks')
        /\ finallyBlock' \in {0, finallyBlock} /\ Landing(blocks') = Landing(blocks)
    BY <1>4, <1>6, <1>12, <1>13
  <2>4. QED
    BY <1>1, <1>6, <1>14, <2>1, <2>2, <2>3, CodeKeeps
<1>17. Claims(r, m)'
  <2>1. /\ cur' \notin m.held \cup P /\ m.held \cap P = {} /\ 0 \notin m.held \cup P
        /\ OpenBlocks(blocks') = m.held \cup P \cup ({cur'} \ {0})
    BY <1>4, <1>6, <1>7, <1>13
  <2>2. /\ m.end # "closed" /\ padStack' = m.pads /\ m.defs = a.defs
        /\ cachedReturn' # NoNode => cachedReturn' \in r.nodes
    BY <1>6, <1>8, <1>9, <1>15
  <2>3. QED
    BY <1>2, <1>3, <1>6, <2>1, <2>2, ClaimsNext
<1>18. ClaimInv(r)'
  BY <1>1, <1>2, <1>6, <1>17, ClaimPushNone
<1>19. QED
  BY <1>16, <1>18

-----------------------------------------------------------------------------
(* Returns.                                                                 *)

\* genReturn while a finally clause is pending.
LEMMA CfgReturnToFinally ==
  ASSUME TypeOK, NEW r, CodeInv, ClaimInv(r), ReturnToFinally, status' # "aborted"
  PROVE  CodeInv' /\ ClaimInv(r)'
<1>1. /\ work # <<>> /\ status = "walking" /\ Head(work).op = "walk" /\ Lays(r)
      /\ TheNode.k = "return" /\ finallyBlock # 0
  BY DEF ReturnToFinally, Visiting, Running, ClaimInv, TheNode
<1>2. PICK n : n = TheNode /\ n.k # "expr" /\ n.k = "return"
  BY <1>1
<1>3. PICK a \in Claim, m \in Claim, b \in Claim :
            /\ Claims(r, a) /\ Final(b) /\ Leads(Settled(r), Claim, m, Tail(work), b)
            /\ n \in r.nodes /\ a.held = m.held /\ a.pads = m.pads /\ a.end = "open"
            /\ a.defs = r.defs[n] \cup m.defs /\ r.defs[n] \cap m.defs = {}
            /\ m.end \in {"open", "done"} /\ (n \in r.tails => m.end = "done")
  BY <1>1, <1>2, ClaimVisit
<1>4. cur # 0
  BY DEF ReturnToFinally, Abort
<1>5. a.defs = m.defs
  <2>1. r.defs[n] = {}
    BY <1>1, <1>2, <1>3, LayoutGives DEF LayoutRule
  <2>2. QED
    BY <1>3, <2>1
<1>6. /\ blocks' = BranchIfLive(blocks, cur, finallyBlock) /\ cur' = 0 /\ Continue(<<>>)
      /\ cachedReturn' \in {n, cachedReturn} /\ status' = "walking"
      /\ UNCHANGED <<labelmap, padStack, finallyBlock>>
  BY <1>1, <1>2, <1>4 DEF ReturnToFinally, BranchIfLive
<1>7. finallyBlock \in Plain
  BY <1>1 DEF CodeInv
<1>8. /\ 0 \notin m.held
      /\ cachedReturn # NoNode => cachedReturn \in r.nodes
  BY <1>3, ClaimsApart
<1>9. cachedReturn' # NoNode => cachedReturn' \in r.nodes
  BY <1>3, <1>6, <1>8
<1>10. a.held = ({0} \ {0}) \cup m.held
  BY <1>3
<1>11. QED
  BY <1>1, <1>3, <1>5, <1>6, <1>7, <1>8, <1>9, <1>10, CfgLeave

\* The returned expression is walked, and closes the block it is in.
LEMMA CfgReturned ==
  ASSUME TypeOK, CodeInv, NEW r, Lays(r), work # <<>>, status' = "walking",
         UNCHANGED <<cur, blocks, labelmap, padStack, finallyBlock, cachedReturn>>,
         NEW n \in r.nodes, n.k = "return", NEW q \in Node, NEW op \in {"returnEnd", "excepEnd"},
         Continue(<<Walk(n.kids[1]), Do(op, q, <<cur>>)>>),
         NEW a \in Claim, NEW m \in Claim, NEW b \in Claim, Claims(r, a), Final(b),
         Leads(Settled(r), Claim, m, Tail(work), b),
         a.held = m.held, a.pads = m.pads, a.defs = m.defs, a.end = "open",
         m.end \in {"open", "done"}, op = "excepEnd" => m.end = "done"
  PROVE  CodeInv' /\ ClaimInv(r)'
<1> DEFINE t == Walk(n.kids[1])
           u == Do(op, q, <<cur>>)
<1>1. /\ n \in Node /\ LayoutRule(r, n)
  BY LayoutGives
<1>2. n.kids[1] \in Node /\ ReturnExpr(r, n.kids[1])
  <2>1. Len(n.kids) = 1
    BY <1>1, NodeAssumption
  <2>2. n.kids[1] \in Node
    BY <1>1, <2>1, NodeType
  <2>3. QED
    BY <1>1, <2>2 DEF LayoutRule
<1>3. t \in Task /\ u \in Task
  <2>1. <<cur>> \in Seq(Nat) /\ op \in TaskOps
    <3>1. cur \in Nat
      BY HeadType DEF TypeOK
    <3>2. QED
      BY <3>1 DEF TaskOps
  <2>2. t \in Task
    BY <1>2, TaskType
  <2>3. QED
    BY <2>1, <2>2, TaskType
<1>4. t.op = "walk" /\ t.n = n.kids[1] /\ u.op = op /\ Named(t) = {} /\ Named(u) = {}
  BY NamedNone DEF Walk, Do
<1>5. Continue(<<t, u>>)
  OBVIOUS
<1> HIDE DEF t, u
<1>6. PICK z \in Claim : IsWith(z, m, {}, {}, "closed")
  <2>1. {} \in SUBSET Nat /\ {} \in SUBSET Label /\ "closed" \in {"open", "closed", "done"}
    OBVIOUS
  <2>2. QED
    BY <2>1, WithType
<1>7. z.held = m.held /\ z.pads = m.pads /\ z.defs = m.defs /\ z.end = "closed"
  BY <1>6 DEF IsWith
<1>8. Settles(r, a, t, z)
  <2>1. SettlesWalk(r, a, n.kids[1], z)
    BY <1>2, <1>7 DEF SettlesWalk, Spends
  <2>2. QED
    BY <1>4, <2>1 DEF Settles
<1>9. Settles(r, z, u, m)
  <2>1. Spends(z, m, {}, {}) /\ z.pads = m.pads
    BY <1>7 DEF Spends
  <2>2. CASE op = "returnEnd"
    BY <1>4, <1>7, <2>1, <2>2 DEF Settles
  <2>3. CASE op = "excepEnd"
    BY <1>4, <1>7, <2>1, <2>3 DEF Settles
  <2>4. QED
    BY <2>2, <2>3
<1>10. Claims(r, a)'
  BY ClaimsStay
<1>11. ClaimInv(r)'
  BY <1>3, <1>5, <1>8, <1>9, <1>10, ClaimPushTwo
<1>12. CodeInv'
  <2>1. NamesIn(<<t, u>>, Plain \ LabelBlocks)
    BY <1>4, NamesFew
  <2>2. <<t, u>> \in Seq(Task)
    BY <1>3
  <2>3. QED
    BY <1>5, <2>1, <2>2, CodeIdle
<1>13. QED
  BY <1>11, <1>12

LEMMA CfgWalkReturn ==
  ASSUME TypeOK, NEW r, CodeInv, ClaimInv(r), WalkReturn
  PROVE  CodeInv' /\ ClaimInv(r)'
<1>1. /\ work # <<>> /\ status = "walking" /\ Head(work).op = "walk" /\ Lays(r)
      /\ TheNode.k = "return" /\ TheNode \in Node
  BY HeadType DEF WalkReturn, Visiting, Running, ClaimInv, TheNode
<1>2. PICK n : n = TheNode /\ n.k # "expr" /\ n.k = "return"
  BY <1>1
<1>3. PICK a \in Claim, m \in Claim, b \in Claim :
            /\ Claims(r, a) /\ Final(b) /\ Leads(Settled(r), Claim, m, Tail(work), b)
            /\ n \in r.nodes /\ a.held = m.held /\ a.pads = m.pads /\ a.end = "open"
            /\ a.defs = r.defs[n] \cup m.defs /\ r.defs[n] \cap m.defs = {}
            /\ m.end \in {"open", "done"} /\ (n \in r.tails => m.end = "done")
  BY <1>1, <1>2, ClaimVisit
<1>4. a.defs = m.defs
  <2>1. r.defs[n] = {}
    BY <1>1, <1>2, <1>3, LayoutGives DEF LayoutRule
  <2>2. QED
    BY <1>3, <2>1
<1>5. /\ Continue(<<Walk(n.kids[1]), Do("returnEnd", n, <<cur>>)>>) /\ status' = "walking"
      /\ UNCHANGED <<cur, blocks, labelmap, padStack, finallyBlock, cachedReturn>>
  BY <1>1, <1>2 DEF WalkReturn
<1>6. n \in Node /\ "returnEnd" \in {"returnEnd", "excepEnd"} /\ "returnEnd" # "excepEnd"
  BY <1>1, <1>2
<1>7. QED
  BY <1>1, <1>2, <1>3, <1>4, <1>5, <1>6, CfgReturned

\* Behind a return statement there is no current block.
LEMMA CfgReturnEnd ==
  ASSUME TypeOK, NEW r, CodeInv, ClaimInv(r), ReturnEnd, status' # "aborted"
  PROVE  CodeInv' /\ ClaimInv(r)'
<1>1. work # <<>> /\ status = "walking" /\ Head(work).op = "returnEnd" /\ Lays(r)
  BY DEF ReturnEnd, Running, ClaimInv
<1>2. PICK a \in Claim, m \in Claim, b \in Claim :
        /\ Claims(r, a) /\ Settles(r, a, Head(work), m)
        /\ Final(b) /\ Leads(Settled(r), Claim, m, Tail(work), b)
  BY <1>1, ClaimPop
<1>3. /\ a.pads = m.pads /\ a.held = m.held /\ a.defs = m.defs
      /\ a.end = "closed" /\ m.end \in {"open", "done"}
  BY <1>1, <1>2 DEF Settles, Spends
<1>4. /\ Continue(<<>>) /\ cur' = 0 /\ status' = "walking"
      /\ UNCHANGED <<blocks, labelmap, padStack, finallyBlock, cachedReturn>>
  BY <1>1 DEF ReturnEnd, Abort
<1>5. /\ padStack = a.pads /\ a.held \cap Pending(a.defs) = {} /\ 0 \notin a.held \cup Pending(a.defs)
      /\ cachedReturn # NoNode => cachedReturn \in r.nodes
  BY <1>2, ClaimsApart
<1>6. OpenBlocks(blocks) = a.held \cup Pending(a.defs)
  BY <1>2, <1>3, ClaimsGive
<1>7. Claims(r, m)'
  <2> DEFINE P == Pending(a.defs)
  <2>1. /\ cur' \notin m.held \cup P /\ m.held \cap P = {} /\ 0 \notin m.held \cup P
        /\ OpenBlocks(blocks') = m.held \cup P \cup ({cur'} \ {0})
    BY <1>3, <1>4, <1>5, <1>6
  <2>2. /\ m.end # "closed" /\ padStack' = m.pads
        /\ cachedReturn' # NoNode => cachedReturn' \in r.nodes
    BY <1>3, <1>4, <1>5
  <2>3. QED
    BY <1>2, <1>3, <1>4, <2>1, <2>2, ClaimsNext
<1>8. ClaimInv(r)'
  BY <1>1, <1>2, <1>4, <1>7, ClaimPushNone
<1>9. CodeInv'
  BY <1>1, <1>4, EmptySeq, NamesFew, CodeIdle
<1>10. QED
  BY <1>8, <1>9

\* The return kept for the end of a finally clause.
LEMMA CfgExcepReturn ==
  ASSUME TypeOK, NEW r, CodeInv, ClaimInv(r), ExcepReturn
  PROVE  CodeInv' /\ ClaimInv(r)'
<1>1. work # <<>> /\ status = "walking" /\ Head(work).op = "excepReturn" /\ Lays(r)
  BY DEF ExcepReturn, Running, ClaimInv
<1>2. PICK a \in Claim, m \in Claim, b \in Claim :
        /\ Claims(r, a) /\ Settles(r, a, Head(work), m)
        /\ Final(b) /\ Leads(Settled(r), Claim, m, Tail(work), b)
  BY <1>1, ClaimPop
<1>3. /\ a.pads = m.pads /\ a.held = m.held /\ a.defs = m.defs
      /\ a.end = "open" /\ m.end = "done"
  BY <1>1, <1>2 DEF Settles, Spends
<1>4. /\ status' = "walking"
      /\ UNCHANGED <<cur, blocks, labelmap, padStack, finallyBlock, cachedReturn>>
  BY <1>1 DEF ExcepReturn
<1>5. CASE cachedReturn = NoNode
  <2>1. Continue(<<>>)
    BY <1>5 DEF ExcepReturn
  <2>2. Claims(r, m)'
    BY <1>2, <1>3, <1>4, ClaimsStay
  <2>3. ClaimInv(r)'
    BY <1>1, <1>2, <1>4, <2>1, <2>2, ClaimPushNone
  <2>4. CodeInv'
    BY <1>1, <1>4, <2>1, EmptySeq, NamesFew, CodeIdle
  <2>5. QED
    BY <2>3, <2>4
<1>6. CASE cachedReturn # NoNode
  <2>1. PICK n \in r.nodes : n = cachedReturn /\ n.k = "return"
    BY <1>2, <1>6, ClaimsApart DEF TypeOK
  <2>2. PICK q \in Node : q = TheNode
    BY <1>1, HeadType
  <2>3. Continue(<<Walk(n.kids[1]), Do("excepEnd", q, <<cur>>)>>)
    BY <1>6, <2>1, <2>2 DEF ExcepReturn
  <2>4. "excepEnd" \in {"returnEnd", "excepEnd"} /\ m.end \in {"open", "done"}
    BY <1>3
  <2>5. QED
    BY <1>1, <1>2, <1>3, <1>4, <2>1, <2>3, <2>4, CfgReturned
<1>7. QED
  BY <1>5, <1>6

\* Behind that return the current block is closed, and the function ends.
LEMMA CfgExcepEnd ==
  ASSUME TypeOK, NEW r, CodeInv, ClaimInv(r), ExcepEnd, status' # "aborted"
  PROVE  CodeInv' /\ ClaimInv(r)'
<1>1. work # <<>> /\ status = "walking" /\ Head(work).op = "excepEnd" /\ Lays(r)
  BY DEF ExcepEnd, Running, ClaimInv
<1>2. PICK a \in Claim, m \in Claim, b \in Claim :
        /\ Claims(r, a) /\ Settles(r, a, Head(work), m)
        /\ Final(b) /\ Leads(Settled(r), Claim, m, Tail(work), b)
  BY <1>1, ClaimPop
<1>3. a.pads = m.pads /\ a.held = m.held /\ a.defs = m.defs /\ m.end = "done"
  BY <1>1, <1>2 DEF Settles, Spends
<1>4. /\ Continue(<<>>) /\ status' = "walking" /\ cachedReturn' = NoNode
      /\ UNCHANGED <<cur, blocks, labelmap, padStack, finallyBlock>>
  BY <1>1 DEF ExcepEnd, Abort
<1>5. Claims(r, m)'
  BY <1>2, <1>3, <1>4, ClaimsStay
<1>6. ClaimInv(r)'
  BY <1>1, <1>2, <1>4, <1>5, ClaimPushNone
<1>7. CodeInv'
  BY <1>1, <1>4, EmptySeq, NamesFew, CodeIdle
<1>8. QED
  BY <1>6, <1>7

-----------------------------------------------------------------------------
(* Landing pads: defer and exception statements.                            *)

\* A step that makes pads of the blocks Q, which are new.
LEMMA CodePads ==
  ASSUME TypeOK, CodeInv, work # <<>>, Len(blocks') \in Nat, Len(blocks) <= Len(blocks'),
         UNCHANGED labelmap,
         NEW Q \in SUBSET ((Len(blocks) + 1)..Len(blocks')), PadSet' = PadSet \cup Q,
         NEW first \in Seq(Task), Continue(first),
         NamesIn(first, ((2..Len(blocks')) \ (PadSet \cup Q)) \ LabelBlocks),
         Sound(blocks', Len(blocks'), PadSet \cup Q),
         Elements(padStack') \subseteq EmptyBlocks(blocks'),
         finallyBlock' \in ((2..Len(blocks')) \ (PadSet \cup Q)) \cup {0, finallyBlock}
  PROVE  CodeInv'
<1>1. Len(blocks) \in Nat /\ Len(blocks) >= 1 /\ PadSet \subseteq 2..Len(blocks)
  BY LenProperties DEF TypeOK, CodeInv
<1>2. PadSet' \cap 1..Len(blocks) = PadSet /\ PadSet' \subseteq 2..Len(blocks')
  <2>1. \A x \in PadSet : x \in 1..Len(blocks) /\ x \in 2..Len(blocks')
    BY <1>1
  <2>2. \A x \in Q : x \notin 1..Len(blocks) /\ x \in 2..Len(blocks')
    BY <1>1
  <2>3. QED
    BY <2>1, <2>2
<1>3. LabelBlocks' = LabelBlocks
  BY DEF LabelBlocks
<1>4. Plain' = (2..Len(blocks')) \ (PadSet \cup Q)
  BY DEF Plain
<1>5. NamesIn(first, (Plain \ LabelBlocks)')
  BY <1>3, <1>4
<1>6. Sound(blocks', Len(blocks'), PadSet')
  OBVIOUS
<1>7. finallyBlock' \in Plain' \cup {0, finallyBlock}
  BY <1>4
<1>8. QED
  BY <1>2, <1>5, <1>6, <1>7, CodeStep

\* A stack of pads with one more.
LEMMA ElementsAppend ==
  ASSUME NEW q \in Seq(Nat), NEW x \in Nat
  PROVE  /\ Append(q, x) \in Seq(Nat) /\ Elements(Append(q, x)) = Elements(q) \cup {x}
         /\ SubSeq(Append(q, x), 1, Len(Append(q, x)) - 1) = q
<1> DEFINE k == Len(q)
           p == Append(q, x)
<1>1. /\ k \in Nat /\ p \in Seq(Nat) /\ Len(p) = k + 1
      /\ \A i \in 1..k : p[i] = q[i]
      /\ p[k + 1] = x
  BY AppendProperties, LenProperties
<1>2. SubSeq(p, 1, Len(p) - 1) = q
  <2>1. Len(p) - 1 = k
    BY <1>1
  <2>2. SubSeq(p, 1, k) = q
    BY <1>1, SMTT(30)
  <2>3. QED
    BY <2>1, <2>2
<1> HIDE DEF k, p
<1>3. 1..(k + 1) = 1..k \cup {k + 1}
  BY <1>1
<1>4. Elements(p) = {p[i] : i \in 1..(k + 1)} /\ Elements(q) = {q[i] : i \in 1..k}
  BY <1>1 DEF Elements, k
<1>5. Elements(p) = Elements(q) \cup {x}
  BY <1>1, <1>3, <1>4
<1>6. QED
  BY <1>1, <1>2, <1>5 DEF p

\* What is claimed under one more pad.
IsUnder(z, y, pad, held, defs) ==
  /\ z.held = held \cup y.held /\ z.pads = Append(y.pads, pad)
  /\ z.defs = defs \cup y.defs /\ z.end = "open"

LEMMA UnderType ==
  ASSUME NEW y \in Claim, NEW held \in SUBSET Nat, NEW pad \in held,
         NEW defs \in SUBSET Label
  PROVE  \E z \in Claim : IsUnder(z, y, pad, held, defs)
<1> DEFINE h == held \cup y.held
           d == defs \cup y.defs
           p == Append(y.pads, pad)
<1>1. /\ h \in SUBSET Nat /\ d \in SUBSET Label /\ y.pads \in Seq(Nat)
      /\ Elements(y.pads) \subseteq h /\ pad \in h
  BY ClaimIs
<1>2. p \in Seq(Nat) /\ Elements(p) \subseteq h
  <2>1. pad \in Nat
    BY <1>1
  <2>2. p \in Seq(Nat) /\ Elements(p) = Elements(y.pads) \cup {pad}
    BY <1>1, <2>1, ElementsAppend
  <2>3. QED
    BY <1>1, <2>2
<1>3. "open" \in {"open", "closed", "done"}
  OBVIOUS
<1> HIDE DEF h, d, p
<1> DEFINE w == Claimed(h, p, d, "open")
<1>4. w \in Claim /\ w.held = h /\ w.pads = p /\ w.defs = d /\ w.end = "open"
  BY <1>1, <1>2, <1>3, ClaimType
<1> HIDE DEF w
<1>5. IsUnder(w, y, pad, held, defs)
  BY <1>4 DEF IsUnder, h, d, p
<1>6. QED
  BY <1>4, <1>5

\* The pad on top of the stack, and what is under it.
LEMMA TopPad ==
  ASSUME TypeOK, CodeInv, NEW r, NEW a \in Claim, NEW m \in Claim, Claims(r, a),
         NEW pad \in Nat, a.pads = Append(m.pads, pad)
  PROVE  /\ PopPad = m.pads /\ Elements(padStack) = Elements(m.pads) \cup {pad}
         /\ pad \in EmptyBlocks(blocks) /\ Elements(m.pads) \subseteq m.held
         /\ Elements(m.pads) \subseteq EmptyBlocks(blocks)
<1>1. padStack = Append(m.pads, pad)
  BY DEF Claims
<1>2. m.pads \in Seq(Nat) /\ Elements(m.pads) \subseteq m.held
  BY ClaimIs
<1>3. /\ Elements(padStack) = Elements(m.pads) \cup {pad}
      /\ SubSeq(padStack, 1, Len(padStack) - 1) = m.pads
  BY <1>1, <1>2, ElementsAppend
<1>4. Elements(padStack) \subseteq EmptyBlocks(blocks)
  BY DEF CodeInv
<1>5. QED
  BY <1>2, <1>3, <1>4 DEF PopPad

\* genDefer creates its three blocks and walks the undefer call.
LEMMA CfgWalkDefer ==
  ASSUME TypeOK, NEW r, CodeInv, ClaimInv(r), WalkDefer
  PROVE  CodeInv' /\ ClaimInv(r)'
<1>1. /\ work # <<>> /\ status = "walking" /\ Head(work).op = "walk" /\ Lays(r)
      /\ TheNode.k = "defer" /\ TheNode \in Node
  BY HeadType DEF WalkDefer, Visiting, Running, ClaimInv, TheNode
<1>2. PICK n \in Node : n = TheNode /\ n.k # "expr" /\ n.k = "defer"
  BY <1>1
<1>3. PICK a \in Claim, m \in Claim, b \in Claim :
            /\ Claims(r, a) /\ Final(b) /\ Leads(Settled(r), Claim, m, Tail(work), b)
            /\ n \in r.nodes /\ a.held = m.held /\ a.pads = m.pads /\ a.end = "open"
            /\ a.defs = r.defs[n] \cup m.defs /\ r.defs[n] \cap m.defs = {}
            /\ m.end \in {"open", "done"} /\ (n \in r.tails => m.end = "done")
  BY <1>1, <1>2, ClaimVisit
<1>4. PICK n0 \in Nat, fin \in Nat, pad \in Nat, catch \in Nat :
        /\ n0 = Len(blocks) /\ fin = n0 + 1 /\ pad = n0 + 2 /\ catch = n0 + 3 /\ n0 >= 1
  <2>1. Len(blocks) \in Nat /\ Len(blocks) >= 1
    BY <1>1, HeadType DEF CodeInv
  <2>2. QED
    BY <2>1
<1>5. PICK nb, kid, D1, D2, P :
        /\ nb = NewBlocks(blocks, 3) /\ kid = n.kids[1] /\ P = Pending(a.defs)
        /\ D1 = r.defs[n.kids[1]] /\ D2 = r.defs[n.kids[2]]
  OBVIOUS
<1>6. /\ kid \in r.nodes \ r.tails /\ kid \in Node /\ r.defs[n] = D1 \cup D2 /\ D1 \cap D2 = {}
      /\ D1 \in SUBSET Label /\ D2 \in SUBSET Label
  <2>1. n.k \notin {"label", "goto", "return"} /\ n.k # "return" /\ n.k # "block"
    BY <1>2
  <2>2. Len(n.kids) = 2 /\ 1 \in 1..Len(n.kids) /\ 2 \in 1..Len(n.kids) /\ 3 > Len(n.kids)
        /\ 3 \in Nat /\ 3 >= 1
    <3>1. Len(n.kids) = 2
      BY <1>2, NodeAssumption
    <3>2. QED
      BY <3>1
  <2>3. Follows(2, 1) /\ Follows(3, 2)
    BY DEF Follows
  <2>4. kid \in r.nodes /\ kid \notin r.tails /\ kid \in Node /\ r.defs[n] = DefsFrom(r, n, 1)
    BY <1>1, <1>3, <1>5, <2>1, <2>2, LayoutGives
  <2>5. /\ DefsFrom(r, n, 1) = D1 \cup DefsFrom(r, n, 2) /\ D1 \cap DefsFrom(r, n, 2) = {}
        /\ D1 \in SUBSET Label
    BY <1>1, <1>3, <1>5, <2>1, <2>2, <2>3, DefsSplit
  <2>6. DefsFrom(r, n, 2) = D2 \cup DefsFrom(r, n, 3) /\ D2 \in SUBSET Label
    BY <1>1, <1>3, <1>5, <2>1, <2>2, <2>3, DefsSplit
  <2>7. DefsFrom(r, n, 3) = {}
    BY <1>1, <1>3, <2>1, <2>2, DefsType
  <2>8. QED
    BY <2>4, <2>5, <2>6, <2>7
<1> DEFINE t == Walk(kid)
           u == Do("deferCatch", n, <<fin, pad, catch>>)
<1>7. /\ Continue(<<t, u>>) /\ status' = "walking" /\ cur' = fin
      /\ blocks' = BranchIfLive(nb, cur, fin) /\ padStack' = Append(padStack, pad)
      /\ UNCHANGED <<labelmap, finallyBlock, cachedReturn>>
  BY <1>1, <1>2, <1>4, <1>5 DEF WalkDefer
<1>8. t \in Task /\ u \in Task /\ <<t, u>> \in Seq(Task)
  <2>1. <<fin, pad, catch>> \in Seq(Nat) /\ "deferCatch" \in TaskOps
    BY DEF TaskOps
  <2>2. t \in Task
    BY <1>6, TaskType
  <2>3. u \in Task
    BY <2>1, TaskType
  <2>4. QED
    BY <2>2, <2>3
<1>9. /\ t.op = "walk" /\ t.n = kid /\ u.op = "deferCatch" /\ u.n = n /\ u.bb[1] = fin
      /\ u.bb[2] = pad /\ u.bb[3] = catch /\ Named(t) = {} /\ Named(u) = {fin, catch}
  BY NamedNone DEF Walk, Do, Named
<1> HIDE DEF t, u
<1>10. /\ {fin, pad, catch} = (n0 + 1)..catch /\ {fin, pad, catch} \subseteq 2..catch
       /\ fin # pad /\ fin # catch /\ pad # catch
       /\ \A x \in {fin, pad, catch} : x \notin PadSet /\ x \notin LabelBlocks
                                       /\ x \notin OpenBlocks(blocks) /\ x # 0
  <2>1. /\ {fin, pad, catch} = (n0 + 1)..catch /\ {fin, pad, catch} \subseteq 2..catch
        /\ fin # pad /\ fin # catch /\ pad # catch
    BY <1>4
  <2>2. \A x \in {fin, pad, catch} : x \in Nat /\ x > Len(blocks) /\ x # 0
    BY <1>4
  <2>3. \A x \in {fin, pad, catch} : x \notin PadSet /\ x \notin LabelBlocks
                                    /\ x \notin OpenBlocks(blocks)
    BY <2>2, FreshBlocks
  <2>4. QED
    BY <2>1, <2>2, <2>3
<1>11. /\ nb \in BlockSeq /\ Len(nb) = catch /\ Sound(nb, catch, PadSet \cup {pad})
       /\ OpenBlocks(nb) = OpenBlocks(blocks) \cup {fin, pad, catch}
       /\ EmptyBlocks(nb) = EmptyBlocks(blocks) \cup {fin, pad, catch}
       /\ Landing(nb) = Landing(blocks)
  <2>1. 3 \in Nat /\ {pad} \in SUBSET ((Len(blocks) + 1)..(Len(blocks) + 3))
        /\ catch = Len(blocks) + 3
    BY <1>4
  <2>2. /\ nb \in BlockSeq /\ Len(nb) = catch /\ Sound(nb, catch, PadSet \cup {pad})
        /\ OpenBlocks(nb) = OpenBlocks(blocks) \cup (Len(blocks) + 1)..catch
        /\ EmptyBlocks(nb) = EmptyBlocks(blocks) \cup (Len(blocks) + 1)..catch
        /\ Landing(nb) = Landing(blocks)
    BY <1>5, <2>1, CodeGrown
  <2>3. QED
    BY <1>4, <1>10, <2>2
<1>12. /\ OpenBlocks(blocks) = m.held \cup P \cup ({cur} \ {0})
       /\ cur \in OpenBlocks(blocks) \cup {0} /\ cur \notin m.held \cup P
       /\ m.held \cap P = {} /\ 0 \notin m.held \cup P /\ cur \in 0..n0
       /\ padStack = m.pads /\ Elements(padStack) \subseteq m.held
  <2>1. OpenBlocks(blocks) = a.held \cup Pending(a.defs) \cup ({cur} \ {0}) /\ cur \in 0..n0
    BY <1>3, <1>4, ClaimsGive
  <2>2. /\ padStack = a.pads /\ Elements(padStack) \subseteq a.held
        /\ cur \notin a.held \cup Pending(a.defs) /\ a.held \cap Pending(a.defs) = {}
        /\ 0 \notin a.held \cup Pending(a.defs)
        /\ cur \in OpenBlocks(blocks) \cup {0}
    BY <1>3, ClaimsApart
  <2>3. QED
    BY <1>3, <1>5, <2>1, <2>2
<1>13. cachedReturn # NoNode => cachedReturn \in r.nodes
  BY <1>3, ClaimsApart
<1>14. cur \in OpenBlocks(nb) \cup {0} /\ cur \in 0..Len(nb) /\ cur \notin {fin, pad, catch}
       /\ fin \in (2..catch) \ (PadSet \cup {pad}) /\ catch \in (2..catch) \ (PadSet \cup {pad})
  <2>1. cur \in OpenBlocks(nb) \cup {0} /\ cur \notin {fin, pad, catch}
    BY <1>10, <1>11, <1>12
  <2>2. cur \in 0..Len(nb)
    BY <1>4, <1>11, <1>12
  <2>3. QED
    BY <1>10, <2>1, <2>2
<1>15. blocks' \in BlockSeq /\ Len(blocks') = catch
  BY <1>7, <1>11, <1>14, BranchIfLiveType
<1>16. /\ OpenBlocks(blocks') = OpenBlocks(nb) \ {cur}
       /\ EmptyBlocks(blocks') = EmptyBlocks(nb) \ {cur}
       /\ Landing(blocks') = Landing(nb)
  BY <1>7, <1>11, <1>14, BranchIfLiveIs
<1>17. Sound(blocks', catch, PadSet \cup {pad})
  BY <1>7, <1>11, <1>14, SoundBranch
<1>18. CodeInv'
  <2>1. Elements(padStack') = Elements(padStack) \cup {pad}
    <3>1. padStack \in Seq(Nat)
      BY <1>12, ClaimIs
    <3>2. QED
      BY <1>7, <3>1, ElementsAppend
  <2>2. PadSet' = PadSet \cup {pad}
    BY <1>11, <1>16, <2>1 DEF PadSet
  <2>3. Elements(padStack) \subseteq EmptyBlocks(blocks)
    BY DEF CodeInv
  <2>4. Elements(padStack') \subseteq EmptyBlocks(blocks')
    BY <1>11, <1>12, <1>14, <1>16, <2>1, <2>3
  <2>5. NamesIn(<<t, u>>, ((2..Len(blocks')) \ (PadSet \cup {pad})) \ LabelBlocks)
    BY <1>9, <1>10, <1>14, <1>15, NamesFew
  <2>6. /\ Len(blocks') \in Nat /\ Len(blocks) <= Len(blocks')
        /\ {pad} \in SUBSET ((Len(blocks) + 1)..Len(blocks'))
    BY <1>4, <1>15
  <2>7. /\ finallyBlock' \in ((2..Len(blocks')) \ (PadSet \cup {pad})) \cup {0, finallyBlock}
        /\ Sound(blocks', Len(blocks'), PadSet \cup {pad})
    BY <1>7, <1>15, <1>17
  <2>8. QED
    BY <1>1, <1>7, <1>8, <2>2, <2>4, <2>5, <2>6, <2>7, CodePads
<1>19. {pad, catch} \in SUBSET Nat /\ pad \in {pad, catch} /\ D1 \cup D2 \in SUBSET Label
  BY <1>6
<1>20. PICK z \in Claim : IsUnder(z, m, pad, {pad, catch}, D1 \cup D2)
  BY <1>19, UnderType
<1>21. PICK y \in Claim : IsUnder(y, m, pad, {pad, catch}, D2)
  BY <1>6, <1>19, UnderType
<1>22. /\ z.held = {pad, catch} \cup m.held /\ z.pads = Append(m.pads, pad)
       /\ z.defs = a.defs /\ z.end = "open"
  BY <1>3, <1>6, <1>20 DEF IsUnder
<1>23. /\ y.held = {pad, catch} \cup m.held /\ y.pads = Append(m.pads, pad)
       /\ y.defs = D2 \cup m.defs /\ y.end = "open"
  BY <1>21 DEF IsUnder
<1>24. pad \notin m.held \cup P /\ catch \notin m.held \cup P /\ fin \notin m.held \cup P
  BY <1>10, <1>12
<1>25. Claims(r, z)'
  <2>1. /\ cur' \notin z.held \cup P /\ z.held \cap P = {} /\ 0 \notin z.held \cup P
        /\ OpenBlocks(blocks') = z.held \cup P \cup ({cur'} \ {0})
    BY <1>7, <1>10, <1>11, <1>12, <1>16, <1>22, <1>24
  <2>2. /\ z.end # "closed" /\ padStack' = z.pads /\ z.defs = a.defs
        /\ cachedReturn' # NoNode => cachedReturn' \in r.nodes
    BY <1>7, <1>12, <1>13, <1>22
  <2>3. QED
    BY <1>3, <1>5, <1>7, <2>1, <2>2, ClaimsNext
<1>26. Settles(r, z, t, y)
  <2>1. Spends(z, y, {}, D1)
    BY <1>3, <1>6, <1>22, <1>23 DEF Spends
  <2>2. SettlesWalk(r, z, kid, y)
    BY <1>5, <1>6, <1>22, <1>23, <2>1 DEF SettlesWalk
  <2>3. QED
    BY <1>9, <2>2 DEF Settles
<1>27. Settles(r, y, u, m)
  <2>1. Spends(y, m, {pad, catch}, D2) /\ Runs(y, m)
    BY <1>3, <1>6, <1>23, <1>24 DEF Spends, Runs
  <2>2. QED
    BY <1>3, <1>5, <1>9, <1>10, <1>23, <2>1 DEF Settles
<1>28. ClaimInv(r)'
  BY <1>1, <1>3, <1>7, <1>8, <1>25, <1>26, <1>27, ClaimPushTwo
<1>29. QED
  BY <1>18, <1>28

\* genDefer fills the pad, and walks the defer call in the catch block.
LEMMA CfgDeferCatch ==
  ASSUME TypeOK, NEW r, CodeInv, ClaimInv(r), DeferCatch
  PROVE  CodeInv' /\ ClaimInv(r)'
<1>1. work # <<>> /\ status = "walking" /\ Head(work).op = "deferCatch" /\ Lays(r)
  BY DEF DeferCatch, Running, ClaimInv
<1>2. PICK a \in Claim, m \in Claim, b \in Claim :
        /\ Claims(r, a) /\ Settles(r, a, Head(work), m)
        /\ Final(b) /\ Leads(Settled(r), Claim, m, Tail(work), b)
  BY <1>1, ClaimPop
<1>3. PICK n \in Node : n = TheNode /\ n.k = "defer"
  BY <1>1, HeadType DEF TaskOK, TheNode
<1>4. PICK fin, pad, catch, c, kid, D, P :
        /\ fin = Saved(1) /\ pad = Saved(2) /\ catch = Saved(3) /\ c = cur
        /\ kid = n.kids[2] /\ D = r.defs[n.kids[2]] /\ P = Pending(a.defs)
        /\ fin \in Nat /\ pad \in Nat /\ catch \in Nat /\ c \in Nat
  <2>1. Saved(1) \in Nat /\ Saved(2) \in Nat /\ Saved(3) \in Nat /\ cur \in Nat
    <3>1. Len(Head(work).bb) = 3
      BY <1>1, HeadType DEF TaskOK
    <3>2. \A j \in 1..3 : Saved(j) \in Nat
      BY <1>1, <3>1, HeadType
    <3>3. cur \in 0..Len(blocks)
      BY DEF TypeOK
    <3>4. QED
      BY <3>2, <3>3
  <2>2. QED
    BY <2>1
<1>5. /\ n \in r.nodes /\ a.pads = Append(m.pads, pad) /\ a.end = "open"
      /\ m.end \in {"open", "done"} /\ pad # catch
      /\ a.held = {pad, catch} \cup m.held /\ {pad, catch} \cap m.held = {}
      /\ a.defs = D \cup m.defs /\ D \cap m.defs = {}
  <2>1. /\ n \in r.nodes /\ a.pads = Append(m.pads, pad) /\ Runs(a, m)
        /\ Spends(a, m, {pad, catch}, D) /\ pad # catch
    BY <1>1, <1>2, <1>3, <1>4 DEF Settles, TheNode, Saved
  <2>2. QED
    BY <2>1 DEF Runs, Spends
<1>6. kid \in r.nodes \ r.tails /\ kid \in Node /\ D \in SUBSET Label
  <2>1. n.k # "return" /\ n.k # "block" /\ 2 \in 1..Len(n.kids)
    <3>1. Len(n.kids) = 2
      BY <1>3, NodeAssumption
    <3>2. QED
      BY <1>3, <3>1
  <2>2. kid \in r.nodes /\ kid \notin r.tails
    BY <1>1, <1>4, <1>5, <2>1, LayoutGives
  <2>3. QED
    BY <1>1, <1>4, <2>2, LayoutGives
<1>7. {fin, catch} \subseteq Plain \ LabelBlocks
  <2>1. Named(Head(work)) = {fin, catch}
    BY <1>1, <1>4 DEF Named, Saved
  <2>2. QED
    BY <1>1, <2>1, NamedHead
<1>8. /\ PopPad = m.pads /\ Elements(padStack) = Elements(m.pads) \cup {pad}
      /\ pad \in EmptyBlocks(blocks) /\ Elements(m.pads) \subseteq m.held
      /\ Elements(m.pads) \subseteq EmptyBlocks(blocks)
  BY <1>2, <1>4, <1>5, TopPad
<1>9. /\ OpenBlocks(blocks) = a.held \cup P \cup ({c} \ {0}) /\ c \notin a.held \cup P
      /\ a.held \cap P = {} /\ 0 \notin a.held \cup P
  BY <1>2, <1>4, <1>5, ClaimsGive, ClaimsApart
<1>10. cachedReturn # NoNode => cachedReturn \in r.nodes
  BY <1>2, ClaimsApart
<1> DEFINE t == Walk(kid)
           u == Do("deferEnd", n, <<fin, catch, c>>)
<1>11. /\ Continue(<<t, u>>) /\ status' = "walking" /\ cur' = catch
       /\ blocks' = FillPad(blocks, pad, catch) /\ padStack' = m.pads
       /\ UNCHANGED <<labelmap, finallyBlock, cachedReturn>>
  BY <1>1, <1>3, <1>4, <1>8 DEF DeferCatch
<1>12. t \in Task /\ u \in Task /\ <<t, u>> \in Seq(Task)
  <2>1. <<fin, catch, c>> \in Seq(Nat) /\ "deferEnd" \in TaskOps
    BY <1>4 DEF TaskOps
  <2>2. t \in Task
    BY <1>6, TaskType
  <2>3. u \in Task
    BY <2>1, TaskType
  <2>4. QED
    BY <2>2, <2>3
<1>13. /\ t.op = "walk" /\ t.n = kid /\ u.op = "deferEnd" /\ u.bb[3] = c
       /\ Named(t) = {} /\ Named(u) = {fin}
  BY NamedNone DEF Walk, Do, Named
<1> HIDE DEF t, u
<1>14. /\ Len(blocks) \in Nat /\ blocks \in BlockSeq /\ Sound(blocks, Len(blocks), PadSet)
       /\ catch \in (2..Len(blocks)) \ PadSet
  BY <1>1, <1>7, HeadType DEF CodeInv, Plain
<1>15. /\ OpenBlocks(blocks') = OpenBlocks(blocks) \ {pad}
       /\ EmptyBlocks(blocks') = EmptyBlocks(blocks) \ {pad}
       /\ Landing(blocks') = Landing(blocks) \cup {pad}
       /\ Len(blocks') = Len(blocks)
  BY <1>8, <1>11, <1>14, FillPadIs
<1>16. Sound(blocks', Len(blocks), PadSet)
  BY <1>8, <1>11, <1>14, SoundFill
<1>17. CodeInv'
  <2>1. PadSet' = PadSet \cup {}
    BY <1>8, <1>11, <1>15 DEF PadSet
  <2>2. Elements(padStack') \subseteq EmptyBlocks(blocks')
    BY <1>5, <1>8, <1>11, <1>15
  <2>3. NamesIn(<<t, u>>, ((2..Len(blocks')) \ (PadSet \cup {})) \ LabelBlocks)
    BY <1>7, <1>13, <1>15, NamesFew DEF Plain
  <2>4. /\ Len(blocks') \in Nat /\ Len(blocks) <= Len(blocks')
        /\ {} \in SUBSET ((Len(blocks) + 1)..Len(blocks'))
    BY <1>14, <1>15
  <2>5. /\ finallyBlock' \in ((2..Len(blocks')) \ (PadSet \cup {})) \cup {0, finallyBlock}
        /\ Sound(blocks', Len(blocks'), PadSet \cup {})
    <3>1. PadSet \cup {} = PadSet
      OBVIOUS
    <3>2. QED
      BY <1>11, <1>15, <1>16, <3>1
  <2>6. QED
    BY <1>1, <1>11, <1>12, <2>1, <2>2, <2>3, <2>4, <2>5, CodePads
<1>18. {c} \ {0} \in SUBSET Nat /\ "open" \in {"open", "closed", "done"} /\ {} \in SUBSET Label
  BY <1>4
<1>19. PICK z \in Claim : IsWith(z, m, {c} \ {0}, D, "open")
  BY <1>6, <1>18, WithType
<1>20. PICK y \in Claim : IsWith(y, m, {c} \ {0}, {}, "open")
  BY <1>18, WithType
<1>21. /\ z.held = ({c} \ {0}) \cup m.held /\ z.pads = m.pads
       /\ z.defs = a.defs /\ z.end = "open"
  BY <1>5, <1>19 DEF IsWith
<1>22. /\ y.held = ({c} \ {0}) \cup m.held /\ y.pads = m.pads
       /\ y.defs = m.defs /\ y.end = "open"
  BY <1>20 DEF IsWith
<1>23. Claims(r, z)'
  <2>1. /\ cur' \notin z.held \cup P /\ z.held \cap P = {} /\ 0 \notin z.held \cup P
        /\ OpenBlocks(blocks') = z.held \cup P \cup ({cur'} \ {0})
    BY <1>5, <1>9, <1>11, <1>15, <1>21
  <2>2. /\ z.end # "closed" /\ padStack' = z.pads /\ z.defs = a.defs
        /\ cachedReturn' # NoNode => cachedReturn' \in r.nodes
    BY <1>10, <1>11, <1>21
  <2>3. QED
    BY <1>2, <1>4, <1>11, <2>1, <2>2, ClaimsNext
<1>24. Settles(r, z, t, y)
  <2>1. Spends(z, y, {}, D)
    BY <1>5, <1>21, <1>22 DEF Spends
  <2>2. SettlesWalk(r, z, kid, y)
    BY <1>4, <1>6, <1>21, <1>22, <2>1 DEF SettlesWalk
  <2>3. QED
    BY <1>13, <2>2 DEF Settles
<1>25. Settles(r, y, u, m)
  <2>1. Spends(y, m, {c} \ {0}, {}) /\ Runs(y, m)
    BY <1>5, <1>9, <1>22 DEF Spends, Runs
  <2>2. QED
    BY <1>13, <1>22, <2>1 DEF Settles
<1>26. ClaimInv(r)'
  BY <1>1, <1>2, <1>11, <1>12, <1>23, <1>24, <1>25, ClaimPushTwo
<1>27. QED
  BY <1>17, <1>26

\* genDefer goes back to the undefer call, and on where that call ended.
LEMMA CfgDeferEnd ==
  ASSUME TypeOK, NEW r, CodeInv, ClaimInv(r), DeferEnd, status' # "aborted"
  PROVE  CodeInv' /\ ClaimInv(r)'
<1>1. work # <<>> /\ status = "walking" /\ Head(work).op = "deferEnd" /\ Lays(r)
  BY DEF DeferEnd, Running, ClaimInv
<1>2. PICK a \in Claim, m \in Claim, b \in Claim :
        /\ Claims(r, a) /\ Settles(r, a, Head(work), m)
        /\ Final(b) /\ Leads(Settled(r), Claim, m, Tail(work), b)
  BY <1>1, ClaimPop
<1>3. PICK fin, x : fin = Saved(1) /\ x = Saved(3)
  OBVIOUS
<1>4. /\ a.pads = m.pads /\ a.end = "open" /\ m.end \in {"open", "done"}
      /\ a.held = ({x} \ {0}) \cup m.held /\ ({x} \ {0}) \cap m.held = {} /\ a.defs = m.defs
  <2>1. a.pads = m.pads /\ Runs(a, m) /\ Spends(a, m, {x} \ {0}, {})
    BY <1>1, <1>2, <1>3 DEF Settles, Saved
  <2>2. QED
    BY <2>1 DEF Runs, Spends
<1>5. fin \in Plain
  <2>1. fin \in Named(Head(work))
    BY <1>1, <1>3 DEF Named, Saved
  <2>2. QED
    BY <1>1, <2>1, NamedHead
<1>6. x \notin m.held
  <2>1. 0 \notin a.held
    BY <1>2, ClaimsApart
  <2>2. QED
    BY <1>4, <2>1
<1>7. /\ Continue(<<>>) /\ status' = "walking" /\ cur' = x
      /\ blocks' = Put(blocks, cur, Br(fin)) /\ cur = Saved(2)
      /\ UNCHANGED <<labelmap, padStack, finallyBlock, cachedReturn>>
  BY <1>1, <1>3 DEF DeferEnd, Abort
<1>8. blocks' = BranchIfLive(blocks, cur, fin)
  <2>1. Saved(2) # 0
    BY <1>1, HeadType DEF TaskOK, Saved
  <2>2. QED
    BY <1>7, <2>1 DEF BranchIfLive
<1>9. cachedReturn' # NoNode => cachedReturn' \in r.nodes
  BY <1>2, <1>7, ClaimsApart
<1>10. QED
  BY <1>1, <1>2, <1>4, <1>5, <1>6, <1>7, <1>8, <1>9, CfgLeave

\* genExcep creates the pad and the block of the finally clause.
LEMMA CfgWalkExcep ==
  ASSUME TypeOK, NEW r, CodeInv, ClaimInv(r), WalkExcep, status' # "aborted"
  PROVE  CodeInv' /\ ClaimInv(r)'
<1>1. /\ work # <<>> /\ status = "walking" /\ Head(work).op = "walk" /\ Lays(r)
      /\ TheNode.k = "excep" /\ TheNode \in Node
  BY HeadType DEF WalkExcep, Visiting, Running, ClaimInv, TheNode
<1>2. PICK n \in Node : n = TheNode /\ n.k # "expr" /\ n.k = "excep"
  BY <1>1
<1>3. PICK a \in Claim, m \in Claim, b \in Claim :
            /\ Claims(r, a) /\ Final(b) /\ Leads(Settled(r), Claim, m, Tail(work), b)
            /\ n \in r.nodes /\ a.held = m.held /\ a.pads = m.pads /\ a.end = "open"
            /\ a.defs = r.defs[n] \cup m.defs /\ r.defs[n] \cap m.defs = {}
            /\ m.end \in {"open", "done"} /\ (n \in r.tails => m.end = "done")
  BY <1>1, <1>2, ClaimVisit
<1>4. m.end = "done"
  <2>1. n \in r.tails
    BY <1>1, <1>2, <1>3, LayoutGives DEF LayoutRule, TailRule
  <2>2. QED
    BY <1>3, <2>1
<1>5. PICK n0 \in Nat, pad \in Nat, cont \in Nat :
        n0 = Len(blocks) /\ pad = n0 + 1 /\ cont = n0 + 2 /\ n0 >= 1
  <2>1. Len(blocks) \in Nat /\ Len(blocks) >= 1
    BY <1>1, HeadType DEF CodeInv
  <2>2. QED
    BY <2>1
<1>6. PICK kid, D1, D2, P :
        /\ kid = n.kids[1] /\ P = Pending(a.defs)
        /\ D1 = r.defs[n.kids[1]] /\ D2 = DefsFrom(r, n, 2)
  OBVIOUS
<1>7. /\ kid \in r.nodes \ r.tails /\ kid \in Node /\ r.defs[n] = D1 \cup D2 /\ D1 \cap D2 = {}
      /\ D1 \in SUBSET Label /\ D2 \in SUBSET Label
  <2>1. n.k \notin {"label", "goto", "return"} /\ n.k # "return" /\ n.k # "block"
    BY <1>2
  <2>2. 1 \in 1..Len(n.kids) /\ 2 \in Nat /\ 2 >= 1
    <3>1. Len(n.kids) \in {2, 3}
      BY <1>2, NodeAssumption
    <3>2. CASE Len(n.kids) = 2
      BY <3>2
    <3>3. CASE Len(n.kids) = 3
      BY <3>3
    <3>4. QED
      BY <3>1, <3>2, <3>3
  <2>3. Follows(2, 1)
    BY DEF Follows
  <2>4. kid \in r.nodes /\ kid \notin r.tails /\ kid \in Node /\ r.defs[n] = DefsFrom(r, n, 1)
    BY <1>1, <1>3, <1>6, <2>1, <2>2, LayoutGives
  <2>5. /\ DefsFrom(r, n, 1) = D1 \cup D2 /\ D1 \cap D2 = {} /\ D1 \in SUBSET Label
    BY <1>1, <1>3, <1>6, <2>1, <2>2, <2>3, DefsSplit
  <2>6. D2 \in SUBSET Label
    BY <1>1, <1>3, <1>6, <2>1, <2>2, DefsType
  <2>7. QED
    BY <2>4, <2>5, <2>6
<1> DEFINE t == Walk(kid)
           u == Do("excepCatch", n, <<pad, cont>>)
<1>8. /\ Continue(<<t, u>>) /\ status' = "walking" /\ blocks' = NewBlocks(blocks, 2)
      /\ padStack' = Append(padStack, pad) /\ finallyBlock' \in {0, cont}
      /\ UNCHANGED <<cur, labelmap, cachedReturn>>
  BY <1>1, <1>2, <1>5, <1>6 DEF WalkExcep, Abort, FinallyTarget
<1>9. t \in Task /\ u \in Task /\ <<t, u>> \in Seq(Task)
  <2>1. <<pad, cont>> \in Seq(Nat) /\ "excepCatch" \in TaskOps
    BY DEF TaskOps
  <2>2. t \in Task
    BY <1>7, TaskType
  <2>3. u \in Task
    BY <2>1, TaskType
  <2>4. QED
    BY <2>2, <2>3
<1>10. /\ t.op = "walk" /\ t.n = kid /\ u.op = "excepCatch" /\ u.n = n /\ u.bb[1] = pad
       /\ u.bb[2] = cont /\ Named(t) = {} /\ Named(u) = {cont}
  BY NamedNone DEF Walk, Do, Named
<1> HIDE DEF t, u
<1>11. /\ {pad, cont} = (n0 + 1)..cont /\ {pad, cont} \subseteq 2..cont /\ pad # cont
       /\ \A x \in {pad, cont} : x \notin PadSet /\ x \notin LabelBlocks
                                 /\ x \notin OpenBlocks(blocks) /\ x # 0
  <2>1. {pad, cont} = (n0 + 1)..cont /\ {pad, cont} \subseteq 2..cont /\ pad # cont
    BY <1>5
  <2>2. \A x \in {pad, cont} : x \in Nat /\ x > Len(blocks) /\ x # 0
    BY <1>5
  <2>3. \A x \in {pad, cont} : x \notin PadSet /\ x \notin LabelBlocks /\ x \notin OpenBlocks(blocks)
    BY <2>2, FreshBlocks
  <2>4. QED
    BY <2>1, <2>2, <2>3
<1>12. /\ Len(blocks') = cont /\ Sound(blocks', cont, PadSet \cup {pad})
       /\ OpenBlocks(blocks') = OpenBlocks(blocks) \cup {pad, cont}
       /\ EmptyBlocks(blocks') = EmptyBlocks(blocks) \cup {pad, cont}
       /\ Landing(blocks') = Landing(blocks)
  <2>1. 2 \in Nat /\ {pad} \in SUBSET ((Len(blocks) + 1)..(Len(blocks) + 2))
        /\ cont = Len(blocks) + 2
    BY <1>5
  <2>2. /\ Len(blocks') = cont /\ Sound(blocks', cont, PadSet \cup {pad})
        /\ OpenBlocks(blocks') = OpenBlocks(blocks) \cup (Len(blocks) + 1)..cont
        /\ EmptyBlocks(blocks') = EmptyBlocks(blocks) \cup (Len(blocks) + 1)..cont
        /\ Landing(blocks') = Landing(blocks)
    BY <1>8, <2>1, CodeGrown
  <2>3. QED
    BY <1>5, <1>11, <2>2
<1>13. /\ OpenBlocks(blocks) = m.held \cup P \cup ({cur} \ {0})
       /\ cur \in OpenBlocks(blocks) \cup {0} /\ cur \notin m.held \cup P
       /\ m.held \cap P = {} /\ 0 \notin m.held \cup P
       /\ padStack = m.pads
  <2>1. OpenBlocks(blocks) = a.held \cup Pending(a.defs) \cup ({cur} \ {0})
    BY <1>3, ClaimsGive
  <2>2. /\ padStack = a.pads
        /\ cur \notin a.held \cup Pending(a.defs) /\ a.held \cap Pending(a.defs) = {}
        /\ 0 \notin a.held \cup Pending(a.defs)
        /\ cur \in OpenBlocks(blocks) \cup {0}
    BY <1>3, ClaimsApart
  <2>3. QED
    BY <1>3, <1>6, <2>1, <2>2
<1>14. cachedReturn # NoNode => cachedReturn \in r.nodes
  BY <1>3, ClaimsApart
<1>15. cont \in (2..cont) \ (PadSet \cup {pad}) /\ cont \notin LabelBlocks
  BY <1>11
<1>16. CodeInv'
  <2>1. Elements(padStack') = Elements(padStack) \cup {pad}
    <3>1. padStack \in Seq(Nat)
      BY <1>13, ClaimIs
    <3>2. QED
      BY <1>8, <3>1, ElementsAppend
  <2>2. PadSet' = PadSet \cup {pad}
    BY <1>12, <2>1 DEF PadSet
  <2>3. Elements(padStack) \subseteq EmptyBlocks(blocks)
    BY DEF CodeInv
  <2>4. Elements(padStack') \subseteq EmptyBlocks(blocks')
    BY <1>12, <2>1, <2>3
  <2>5. NamesIn(<<t, u>>, ((2..Len(blocks')) \ (PadSet \cup {pad})) \ LabelBlocks)
    BY <1>10, <1>12, <1>15, NamesFew
  <2>6. /\ Len(blocks') \in Nat /\ Len(blocks) <= Len(blocks')
        /\ {pad} \in SUBSET ((Len(blocks) + 1)..Len(blocks'))
    BY <1>5, <1>12
  <2>7. /\ finallyBlock' \in ((2..Len(blocks')) \ (PadSet \cup {pad})) \cup {0, finallyBlock}
        /\ Sound(blocks', Len(blocks'), PadSet \cup {pad})
    BY <1>8, <1>12, <1>15
  <2>8. QED
    BY <1>1, <1>8, <1>9, <2>2, <2>4, <2>5, <2>6, <2>7, CodePads
<1>17. {pad, cont} \in SUBSET Nat /\ pad \in {pad, cont} /\ D1 \cup D2 \in SUBSET Label
  BY <1>7
<1>18. PICK z \in Claim : IsUnder(z, m, pad, {pad, cont}, D1 \cup D2)
  BY <1>17, UnderType
<1>19. PICK y \in Claim : IsUnder(y, m, pad, {pad, cont}, D2)
  BY <1>7, <1>17, UnderType
<1>20. /\ z.held = {pad, cont} \cup m.held /\ z.pads = Append(m.pads, pad)
       /\ z.defs = a.defs /\ z.end = "open"
  BY <1>3, <1>7, <1>18 DEF IsUnder
<1>21. /\ y.held = {pad, cont} \cup m.held /\ y.pads = Append(m.pads, pad)
       /\ y.defs = D2 \cup m.defs /\ y.end = "open"
  BY <1>19 DEF IsUnder
<1>22. pad \notin m.held \cup P \cup {cur} /\ cont \notin m.held \cup P \cup {cur}
  BY <1>11, <1>13
<1>23. Claims(r, z)'
  <2>1. /\ cur' \notin z.held \cup P /\ z.held \cap P = {} /\ 0 \notin z.held \cup P
        /\ OpenBlocks(blocks') = z.held \cup P \cup ({cur'} \ {0})
    BY <1>8, <1>11, <1>12, <1>13, <1>20, <1>22
  <2>2. /\ z.end # "closed" /\ padStack' = z.pads /\ z.defs = a.defs
        /\ cachedReturn' # NoNode => cachedReturn' \in r.nodes
    BY <1>8, <1>13, <1>14, <1>20
  <2>3. QED
    BY <1>3, <1>6, <1>8, <2>1, <2>2, ClaimsNext
<1>24. Settles(r, z, t, y)
  <2>1. Spends(z, y, {}, D1)
    BY <1>3, <1>7, <1>20, <1>21 DEF Spends
  <2>2. SettlesWalk(r, z, kid, y)
    BY <1>6, <1>7, <1>20, <1>21, <2>1 DEF SettlesWalk
  <2>3. QED
    BY <1>10, <2>2 DEF Settles
<1>25. Settles(r, y, u, m)
  <2>1. Spends(y, m, {pad, cont}, D2)
    BY <1>3, <1>7, <1>21, <1>22 DEF Spends
  <2>2. SettlesPad(r, y, u, m, u.bb[1], DefsFrom(r, u.n, 2))
    BY <1>3, <1>4, <1>6, <1>10, <1>11, <1>21, <2>1 DEF SettlesPad
  <2>3. QED
    BY <1>10, <2>2 DEF Settles
<1>26. ClaimInv(r)'
  BY <1>1, <1>3, <1>8, <1>9, <1>23, <1>24, <1>25, ClaimPushTwo
<1>27. QED
  BY <1>16, <1>26

\* The exception statement whose pad the walk is to fill, and what it claims: the
\* labels of its children from number j on.
PadTask(j, pad, cont) ==
  \/ Head(work).op = "excepCatch" /\ j = 2 /\ pad = Saved(1) /\ cont = Saved(2)
  \/ Head(work).op = "excepFinally" /\ j = 3 /\ cont = Saved(1) /\ pad = Saved(2)

PadClaim(r, a, m, n, j, pad, cont) ==
  /\ n = TheNode /\ n.k = "excep" /\ n \in r.nodes /\ Len(n.kids) \in {2, 3}
  /\ pad \in Nat /\ cont \in Nat /\ pad # cont /\ cont \in Plain \ LabelBlocks
  /\ a.pads = Append(m.pads, pad) /\ a.end = "open" /\ m.end = "done"
  /\ a.held = {pad, cont} \cup m.held /\ {pad, cont} \cap m.held = {}
  /\ a.defs = DefsFrom(r, n, j) \cup m.defs /\ DefsFrom(r, n, j) \cap m.defs = {}

LEMMA PadHead ==
  ASSUME TypeOK, CodeInv, NEW r, ClaimInv(r), status = "walking", work # <<>>,
         NEW j, NEW pad, NEW cont, PadTask(j, pad, cont)
  PROVE  \E a, m, b \in Claim, n \in Node :
            /\ Claims(r, a) /\ Final(b) /\ Leads(Settled(r), Claim, m, Tail(work), b)
            /\ PadClaim(r, a, m, n, j, pad, cont)
<1>0. Head(work).op \in {"excepCatch", "excepFinally"}
  BY DEF PadTask
<1>1. PICK a \in Claim, m \in Claim, b \in Claim :
        /\ Claims(r, a) /\ Settles(r, a, Head(work), m)
        /\ Final(b) /\ Leads(Settled(r), Claim, m, Tail(work), b)
  BY ClaimPop
<1>2. PICK n \in Node : n = TheNode /\ n.k = "excep"
  BY <1>0, HeadType DEF TaskOK, TheNode
<1>3. Len(n.kids) \in {2, 3}
  BY <1>2, NodeAssumption
<1>4. pad \in Nat /\ cont \in Nat
  <2>1. Len(Head(work).bb) = 2
    BY <1>0, HeadType DEF TaskOK
  <2>2. Saved(1) \in Nat /\ Saved(2) \in Nat
    <3>1. \A i \in 1..2 : Saved(i) \in Nat
      BY <2>1, HeadType
    <3>2. QED
      BY <3>1
  <2>3. QED
    BY <2>2 DEF PadTask
<1>5. SettlesPad(r, a, Head(work), m, pad, DefsFrom(r, n, j))
  BY <1>1, <1>2 DEF Settles, TheNode, Saved, PadTask
<1>6. /\ n \in r.nodes /\ a.end = "open" /\ a.pads = Append(m.pads, pad) /\ m.end = "done"
      /\ Spends(a, m, {Saved(1), Saved(2)}, DefsFrom(r, n, j)) /\ Saved(1) # Saved(2)
  BY <1>2, <1>5 DEF SettlesPad, TheNode, Saved
<1>7. {Saved(1), Saved(2)} = {pad, cont} /\ pad # cont
  BY <1>6 DEF PadTask
<1>8. /\ a.held = {pad, cont} \cup m.held /\ {pad, cont} \cap m.held = {}
      /\ a.defs = DefsFrom(r, n, j) \cup m.defs /\ DefsFrom(r, n, j) \cap m.defs = {}
  BY <1>6, <1>7 DEF Spends
<1>9. cont \in Plain \ LabelBlocks
  <2>1. cont \in Named(Head(work))
    BY DEF Named, Saved, PadTask
  <2>2. QED
    BY <2>1, NamedHead
<1>10. QED
  BY <1>1, <1>2, <1>3, <1>4, <1>6, <1>7, <1>8, <1>9 DEF PadClaim

\* A child of an exception statement, and the labels behind it.
LEMMA ExcepKid ==
  ASSUME NEW r, Lays(r), NEW n \in r.nodes, n.k = "excep",
         NEW i \in {2, 3}, i <= Len(n.kids), Len(n.kids) \in {2, 3}, NEW h, Follows(h, i)
  PROVE  /\ n.kids[i] \in r.nodes \ r.tails /\ n.kids[i] \in Node
         /\ DefsFrom(r, n, i) = r.defs[n.kids[i]] \cup DefsFrom(r, n, h)
         /\ r.defs[n.kids[i]] \cap DefsFrom(r, n, h) = {}
         /\ r.defs[n.kids[i]] \in SUBSET Label /\ DefsFrom(r, n, h) \in SUBSET Label
<1>1. i \in 1..Len(n.kids) /\ h \in Nat /\ h >= 1
  BY DEF Follows
<1>2. n.k # "return" /\ n.k # "block" /\ n.k \notin {"label", "goto", "return"}
  OBVIOUS
<1>3. n.kids[i] \in r.nodes \ r.tails
  BY <1>1, <1>2, LayoutGives
<1>4. n.kids[i] \in Node
  BY <1>3, LayoutGives
<1>5. /\ DefsFrom(r, n, i) = r.defs[n.kids[i]] \cup DefsFrom(r, n, h)
      /\ r.defs[n.kids[i]] \cap DefsFrom(r, n, h) = {}
      /\ r.defs[n.kids[i]] \in SUBSET Label
  BY <1>1, <1>2, DefsSplit
<1>6. DefsFrom(r, n, h) \in SUBSET Label
  BY <1>1, <1>2, DefsType
<1>7. QED
  BY <1>3, <1>4, <1>5, <1>6

\* genExcep leaves the body, fills its pad, and walks the on-exception clause.
LEMMA CfgExcepCatch ==
  ASSUME TypeOK, NEW r, CodeInv, ClaimInv(r), ExcepCatch
  PROVE  CodeInv' /\ ClaimInv(r)'
<1>1. work # <<>> /\ status = "walking" /\ Head(work).op = "excepCatch" /\ Lays(r)
  BY DEF ExcepCatch, Running, ClaimInv
<1>2. PICK a \in Claim, m \in Claim, b \in Claim, n \in Node, pad \in Nat, cont \in Nat :
        /\ Claims(r, a) /\ Final(b) /\ Leads(Settled(r), Claim, m, Tail(work), b)
        /\ n = TheNode /\ n.k = "excep" /\ n \in r.nodes /\ Len(n.kids) \in {2, 3}
        /\ pad = Saved(1) /\ cont = Saved(2)
        /\ pad # cont /\ cont \in Plain \ LabelBlocks
        /\ a.pads = Append(m.pads, pad) /\ a.end = "open" /\ m.end = "done"
        /\ a.held = {pad, cont} \cup m.held /\ {pad, cont} \cap m.held = {}
        /\ a.defs = DefsFrom(r, n, 2) \cup m.defs /\ DefsFrom(r, n, 2) \cap m.defs = {}
  <2>1. PICK pad, cont : pad = Saved(1) /\ cont = Saved(2)
    OBVIOUS
  <2>2. PadTask(2, pad, cont)
    BY <1>1, <2>1 DEF PadTask
  <2>3. PICK a \in Claim, m \in Claim, b \in Claim, n \in Node :
            /\ Claims(r, a) /\ Final(b) /\ Leads(Settled(r), Claim, m, Tail(work), b)
            /\ PadClaim(r, a, m, n, 2, pad, cont)
    BY <1>1, <2>2, PadHead
  <2>4. QED
    BY <2>1, <2>3 DEF PadClaim
<1>3. PICK n0 \in Nat, catch \in Nat, catchpad \in Nat, c \in Nat :
        /\ n0 = Len(blocks) /\ catch = n0 + 1 /\ catchpad = n0 + 2 /\ n0 >= 1 /\ c = cur
  <2>1. Len(blocks) \in Nat /\ Len(blocks) >= 1 /\ cur \in 0..Len(blocks)
    BY <1>1, HeadType DEF CodeInv, TypeOK
  <2>2. QED
    BY <2>1
<1>4. PICK kid, D1, D2, P :
        /\ kid = n.kids[2] /\ P = Pending(a.defs)
        /\ D1 = r.defs[n.kids[2]] /\ D2 = DefsFrom(r, n, 3)
  OBVIOUS
<1>5. /\ kid \in r.nodes \ r.tails /\ kid \in Node /\ DefsFrom(r, n, 2) = D1 \cup D2
      /\ D1 \cap D2 = {} /\ D1 \in SUBSET Label /\ D2 \in SUBSET Label
  <2>1. Follows(3, 2) /\ 2 \in {2, 3} /\ 2 <= Len(n.kids)
    <3>1. Follows(3, 2)
      BY DEF Follows
    <3>2. CASE Len(n.kids) = 2
      BY <3>1, <3>2
    <3>3. CASE Len(n.kids) = 3
      BY <3>1, <3>3
    <3>4. QED
      BY <1>2, <3>2, <3>3
  <2>2. QED
    BY <1>1, <1>2, <1>4, <2>1, ExcepKid
<1>6. a.defs = (D1 \cup D2) \cup m.defs /\ (D1 \cup D2) \cap m.defs = {}
  BY <1>2, <1>5
<1>7. /\ PopPad = m.pads /\ Elements(padStack) = Elements(m.pads) \cup {pad}
      /\ pad \in EmptyBlocks(blocks) /\ Elements(m.pads) \subseteq m.held
      /\ Elements(m.pads) \subseteq EmptyBlocks(blocks)
  BY <1>2, TopPad
<1>8. /\ OpenBlocks(blocks) = a.held \cup P \cup ({c} \ {0}) /\ c \notin a.held \cup P
      /\ a.held \cap P = {} /\ 0 \notin a.held \cup P /\ c \in OpenBlocks(blocks) \cup {0}
  BY <1>2, <1>3, <1>4, ClaimsGive, ClaimsApart
<1>9. cachedReturn # NoNode => cachedReturn \in r.nodes
  BY <1>2, ClaimsApart
<1> DEFINE t == Walk(kid)
           u == Do("excepFinally", n, <<cont, catchpad>>)
           b1 == NewBlocks(blocks, 2)
           b2 == BranchIfLive(b1, c, cont)
<1>10. /\ Continue(<<t, u>>) /\ status' = "walking" /\ cur' = catch
       /\ blocks' = FillPad(b2, pad, catch) /\ padStack' = Append(m.pads, catchpad)
       /\ UNCHANGED <<labelmap, finallyBlock, cachedReturn>>
  BY <1>1, <1>2, <1>3, <1>4, <1>7 DEF ExcepCatch
<1>11. t \in Task /\ u \in Task /\ <<t, u>> \in Seq(Task)
  <2>1. <<cont, catchpad>> \in Seq(Nat) /\ "excepFinally" \in TaskOps
    BY <1>2 DEF TaskOps
  <2>2. t \in Task
    BY <1>5, TaskType
  <2>3. u \in Task
    BY <2>1, TaskType
  <2>4. QED
    BY <2>2, <2>3
<1>12. /\ t.op = "walk" /\ t.n = kid /\ u.op = "excepFinally" /\ u.n = n /\ u.bb[1] = cont
       /\ u.bb[2] = catchpad /\ Named(t) = {} /\ Named(u) = {cont}
  BY NamedNone DEF Walk, Do, Named
<1> HIDE DEF t, u
<1>13. /\ {catch, catchpad} = (n0 + 1)..catchpad /\ {catch, catchpad} \subseteq 2..catchpad
       /\ catch # catchpad
       /\ \A x \in {catch, catchpad} : x \notin PadSet /\ x \notin LabelBlocks
                                       /\ x \notin OpenBlocks(blocks) /\ x # 0
  <2>1. {catch, catchpad} = (n0 + 1)..catchpad /\ {catch, catchpad} \subseteq 2..catchpad
        /\ catch # catchpad
    BY <1>3
  <2>2. \A x \in {catch, catchpad} : x \in Nat /\ x > Len(blocks) /\ x # 0
    BY <1>3
  <2>3. \A x \in {catch, catchpad} : x \notin PadSet /\ x \notin LabelBlocks
                                     /\ x \notin OpenBlocks(blocks)
    BY <2>2, FreshBlocks
  <2>4. QED
    BY <2>1, <2>2, <2>3
<1>14. /\ b1 \in BlockSeq /\ Len(b1) = catchpad /\ Sound(b1, catchpad, PadSet \cup {catchpad})
       /\ OpenBlocks(b1) = OpenBlocks(blocks) \cup {catch, catchpad}
       /\ EmptyBlocks(b1) = EmptyBlocks(blocks) \cup {catch, catchpad}
       /\ Landing(b1) = Landing(blocks)
  <2>1. 2 \in Nat /\ {catchpad} \in SUBSET ((Len(blocks) + 1)..(Len(blocks) + 2))
        /\ catchpad = Len(blocks) + 2
    BY <1>3
  <2>2. /\ b1 \in BlockSeq /\ Len(b1) = catchpad /\ Sound(b1, catchpad, PadSet \cup {catchpad})
        /\ OpenBlocks(b1) = OpenBlocks(blocks) \cup (Len(blocks) + 1)..catchpad
        /\ EmptyBlocks(b1) = EmptyBlocks(blocks) \cup (Len(blocks) + 1)..catchpad
        /\ Landing(b1) = Landing(blocks)
    BY <2>1, CodeGrown
  <2>3. QED
    BY <1>3, <1>13, <2>2
<1> HIDE DEF b1
<1>15. /\ cont \in (2..catchpad) \ (PadSet \cup {catchpad}) /\ cont \notin LabelBlocks
       /\ catch \in (2..catchpad) \ (PadSet \cup {catchpad})
  <2>1. cont \in 2..n0 /\ cont \notin PadSet /\ cont \notin LabelBlocks
    BY <1>2, <1>3 DEF Plain
  <2>2. cont \in 2..catchpad /\ cont # catchpad
    BY <1>3, <2>1
  <2>3. QED
    BY <1>13, <2>1, <2>2
<1>16. /\ b2 \in BlockSeq /\ Len(b2) = catchpad /\ Sound(b2, catchpad, PadSet \cup {catchpad})
       /\ OpenBlocks(b2) = OpenBlocks(b1) \ {c} /\ EmptyBlocks(b2) = EmptyBlocks(b1) \ {c}
       /\ Landing(b2) = Landing(blocks)
  <2>1. c \in OpenBlocks(b1) \cup {0} /\ c \in 0..Len(b1)
    <3>1. c \in 0..n0 /\ 0..n0 \subseteq 0..catchpad
      BY <1>3 DEF TypeOK
    <3>2. QED
      BY <1>8, <1>14, <3>1
  <2>2. b2 \in BlockSeq /\ Len(b2) = catchpad
    BY <1>2, <1>14, <2>1, BranchIfLiveType
  <2>3. /\ OpenBlocks(b2) = OpenBlocks(b1) \ {c} /\ EmptyBlocks(b2) = EmptyBlocks(b1) \ {c}
        /\ Landing(b2) = Landing(b1)
    BY <1>2, <1>14, <2>1, BranchIfLiveIs
  <2>4. Sound(b2, catchpad, PadSet \cup {catchpad})
    BY <1>14, <1>15, <2>1, SoundBranch
  <2>5. QED
    BY <1>14, <2>2, <2>3, <2>4
<1> HIDE DEF b2
<1>17. pad \in EmptyBlocks(b2) /\ pad \notin {catch, catchpad, c} /\ pad \notin m.held \cup P
  <2>1. pad \in a.held /\ pad \in OpenBlocks(blocks)
    BY <1>2, <1>8
  <2>2. QED
    BY <1>2, <1>7, <1>8, <1>13, <1>14, <1>16, <2>1
<1>18. /\ Len(blocks') = catchpad /\ Sound(blocks', catchpad, PadSet \cup {catchpad})
       /\ OpenBlocks(blocks') = OpenBlocks(b2) \ {pad}
       /\ EmptyBlocks(blocks') = EmptyBlocks(b2) \ {pad}
       /\ Landing(blocks') = Landing(blocks) \cup {pad}
  <2>1. /\ Len(blocks') = catchpad
        /\ OpenBlocks(blocks') = OpenBlocks(b2) \ {pad}
        /\ EmptyBlocks(blocks') = EmptyBlocks(b2) \ {pad}
        /\ Landing(blocks') = Landing(blocks) \cup {pad}
    BY <1>10, <1>16, <1>17, FillPadIs
  <2>2. Sound(blocks', catchpad, PadSet \cup {catchpad})
    BY <1>10, <1>15, <1>16, <1>17, SoundFill
  <2>3. QED
    BY <2>1, <2>2
<1>19. CodeInv'
  <2>1. Elements(padStack') = Elements(m.pads) \cup {catchpad}
    <3>1. m.pads \in Seq(Nat)
      BY ClaimIs
    <3>2. QED
      BY <1>10, <3>1, ElementsAppend
  <2>2. PadSet' = PadSet \cup {catchpad}
    BY <1>7, <1>18, <2>1 DEF PadSet
  <2>3. Elements(padStack') \subseteq EmptyBlocks(blocks')
    <3>1. c \notin m.held /\ pad \notin m.held
      BY <1>2, <1>8
    <3>2. Elements(m.pads) \subseteq EmptyBlocks(blocks')
      BY <1>7, <1>14, <1>16, <1>18, <3>1
    <3>3. catchpad # c
      <4>1. catchpad \notin OpenBlocks(blocks) \cup {0}
        BY <1>13
      <4>2. QED
        BY <1>8, <4>1
    <3>4. catchpad \in EmptyBlocks(blocks')
      BY <1>14, <1>16, <1>17, <1>18, <3>3
    <3>5. QED
      BY <2>1, <3>2, <3>4
  <2>4. NamesIn(<<t, u>>, ((2..Len(blocks')) \ (PadSet \cup {catchpad})) \ LabelBlocks)
    BY <1>12, <1>15, <1>18, NamesFew
  <2>5. /\ Len(blocks') \in Nat /\ Len(blocks) <= Len(blocks')
        /\ {catchpad} \in SUBSET ((Len(blocks) + 1)..Len(blocks'))
    BY <1>3, <1>18
  <2>6. /\ finallyBlock' \in ((2..Len(blocks')) \ (PadSet \cup {catchpad})) \cup {0, finallyBlock}
        /\ Sound(blocks', Len(blocks'), PadSet \cup {catchpad})
    BY <1>10, <1>18
  <2>7. QED
    BY <1>1, <1>10, <1>11, <2>2, <2>3, <2>4, <2>5, <2>6, CodePads
<1>20. /\ {cont, catchpad} \in SUBSET Nat /\ catchpad \in {cont, catchpad}
       /\ D1 \cup D2 \in SUBSET Label
  BY <1>2, <1>5
<1>21. PICK z \in Claim : IsUnder(z, m, catchpad, {cont, catchpad}, D1 \cup D2)
  BY <1>20, UnderType
<1>22. PICK y \in Claim : IsUnder(y, m, catchpad, {cont, catchpad}, D2)
  BY <1>5, <1>20, UnderType
<1>23. /\ z.held = {cont, catchpad} \cup m.held /\ z.pads = Append(m.pads, catchpad)
       /\ z.defs = a.defs /\ z.end = "open"
  BY <1>6, <1>21 DEF IsUnder
<1>24. /\ y.held = {cont, catchpad} \cup m.held /\ y.pads = Append(m.pads, catchpad)
       /\ y.defs = D2 \cup m.defs /\ y.end = "open"
  BY <1>22 DEF IsUnder
<1>25. \A x \in {catch, catchpad} : x \notin m.held \cup P \cup {c, cont}
  <2>1. \A x \in a.held \cup P \cup {c} : x \in OpenBlocks(blocks) \cup {0}
    BY <1>8
  <2>2. QED
    BY <1>2, <1>13, <2>1
<1>26. Claims(r, z)'
  <2>1. /\ cur' \notin z.held \cup P /\ z.held \cap P = {} /\ 0 \notin z.held \cup P
    BY <1>2, <1>8, <1>10, <1>13, <1>23, <1>25
  <2>2. OpenBlocks(blocks') = ((a.held \cup P \cup ({c} \ {0}) \cup {catch, catchpad}) \ {c}) \ {pad}
    BY <1>8, <1>14, <1>16, <1>18
  <2>3. OpenBlocks(blocks') = z.held \cup P \cup ({cur'} \ {0})
    BY <1>2, <1>8, <1>10, <1>13, <1>17, <1>23, <1>25, <2>2
  <2>4. /\ z.end # "closed" /\ padStack' = z.pads
        /\ cachedReturn' # NoNode => cachedReturn' \in r.nodes
    BY <1>9, <1>10, <1>23
  <2>5. QED
    BY <1>2, <1>4, <1>10, <1>23, <2>1, <2>3, <2>4, ClaimsNext
<1>27. Settles(r, z, t, y)
  <2>1. Spends(z, y, {}, D1)
    BY <1>5, <1>6, <1>23, <1>24 DEF Spends
  <2>2. SettlesWalk(r, z, kid, y)
    BY <1>4, <1>5, <1>23, <1>24, <2>1 DEF SettlesWalk
  <2>3. QED
    BY <1>12, <2>2 DEF Settles
<1>28. Settles(r, y, u, m)
  <2>1. Spends(y, m, {cont, catchpad}, D2)
    BY <1>2, <1>6, <1>24, <1>25 DEF Spends
  <2>2. SettlesPad(r, y, u, m, u.bb[2], DefsFrom(r, u.n, 3))
    BY <1>2, <1>4, <1>12, <1>24, <1>25, <2>1 DEF SettlesPad
  <2>3. QED
    BY <1>12, <2>2 DEF Settles
<1>29. ClaimInv(r)'
  BY <1>1, <1>2, <1>10, <1>11, <1>26, <1>27, <1>28, ClaimPushTwo
<1>30. QED
  BY <1>19, <1>29

\* genExcep leaves the on-exception clause, fills its pad, and walks the finally
\* clause if there is one.
LEMMA CfgExcepFinally ==
  ASSUME TypeOK, NEW r, CodeInv, ClaimInv(r), ExcepFinally
  PROVE  CodeInv' /\ ClaimInv(r)'
<1>1. work # <<>> /\ status = "walking" /\ Head(work).op = "excepFinally" /\ Lays(r)
  BY DEF ExcepFinally, Running, ClaimInv
<1>2. PICK a \in Claim, m \in Claim, b \in Claim, n \in Node, pad \in Nat, cont \in Nat :
        /\ Claims(r, a) /\ Final(b) /\ Leads(Settled(r), Claim, m, Tail(work), b)
        /\ n = TheNode /\ n.k = "excep" /\ n \in r.nodes /\ Len(n.kids) \in {2, 3}
        /\ pad = Saved(2) /\ cont = Saved(1)
        /\ pad # cont /\ cont \in Plain \ LabelBlocks
        /\ a.pads = Append(m.pads, pad) /\ a.end = "open" /\ m.end = "done"
        /\ a.held = {pad, cont} \cup m.held /\ {pad, cont} \cap m.held = {}
        /\ a.defs = DefsFrom(r, n, 3) \cup m.defs /\ DefsFrom(r, n, 3) \cap m.defs = {}
  <2>1. PICK pad, cont : pad = Saved(2) /\ cont = Saved(1)
    OBVIOUS
  <2>2. PadTask(3, pad, cont)
    BY <1>1, <2>1 DEF PadTask
  <2>3. PICK a \in Claim, m \in Claim, b \in Claim, n \in Node :
            /\ Claims(r, a) /\ Final(b) /\ Leads(Settled(r), Claim, m, Tail(work), b)
            /\ PadClaim(r, a, m, n, 3, pad, cont)
    BY <1>1, <2>2, PadHead
  <2>4. QED
    BY <2>1, <2>3 DEF PadClaim
<1>3. PICK kid, D, P : kid = n.kids[3] /\ P = Pending(a.defs) /\ D = DefsFrom(r, n, 3)
  OBVIOUS
<1>4. /\ PopPad = m.pads /\ Elements(padStack) = Elements(m.pads) \cup {pad}
      /\ pad \in EmptyBlocks(blocks) /\ Elements(m.pads) \subseteq m.held
  BY <1>2, TopPad
<1>5. a.held \cap P = {} /\ 0 \notin a.held \cup P
  BY <1>2, <1>3, ClaimsApart
<1>6. cachedReturn # NoNode => cachedReturn \in r.nodes
  BY <1>2, ClaimsApart
<1> DEFINE t == Walk(kid)
           u == Do("excepReturn", n, <<>>)
           first == IF HasFinally(n) THEN <<t, u>> ELSE <<>>
           b2 == BranchIfLive(blocks, cur, cont)
<1>7. /\ Continue(first) /\ status' = "walking" /\ cur' = cont
      /\ blocks' = FillPad(b2, pad, cont) /\ padStack' = m.pads /\ finallyBlock' = 0
      /\ UNCHANGED <<labelmap, cachedReturn>>
  BY <1>1, <1>2, <1>3, <1>4 DEF ExcepFinally
<1>8. t.op = "walk" /\ t.n = kid /\ u.op = "excepReturn" /\ Named(t) = {} /\ Named(u) = {}
  BY NamedNone DEF Walk, Do
<1>9. u \in Task /\ (kid \in Node => t \in Task)
  <2>1. <<>> \in Seq(Nat) /\ "excepReturn" \in TaskOps
    BY EmptySeq DEF TaskOps
  <2>2. QED
    BY <2>1, TaskType
<1> HIDE DEF t, u
<1>10. cont \in Plain /\ cont \in (2..Len(blocks)) \ PadSet /\ Len(blocks) \in Nat
  BY <1>1, <1>2, HeadType DEF Plain
<1>11. /\ b2 \in BlockSeq /\ Len(b2) = Len(blocks)
       /\ Sound(b2, Len(blocks), PadSet) /\ Landing(b2) = Landing(blocks)
       /\ Elements(padStack) \subseteq EmptyBlocks(b2)
       /\ OpenBlocks(b2) = a.held \cup P
  <2>1. /\ b2 \in BlockSeq /\ Len(b2) = Len(blocks)
        /\ Sound(b2, Len(b2), PadSet) /\ Landing(b2) = Landing(blocks)
        /\ Elements(padStack) \subseteq EmptyBlocks(b2)
        /\ OpenBlocks(b2) = a.held \cup Pending(a.defs)
    BY <1>2, <1>10, BranchAway
  <2>2. QED
    BY <1>3, <2>1
<1> HIDE DEF b2
<1>12. pad \in EmptyBlocks(b2) /\ pad \notin m.held \cup P
  BY <1>2, <1>4, <1>5, <1>11
<1>13. /\ Len(blocks') = Len(blocks) /\ Sound(blocks', Len(blocks), PadSet)
       /\ OpenBlocks(blocks') = (a.held \cup P) \ {pad}
       /\ EmptyBlocks(blocks') = EmptyBlocks(b2) \ {pad}
       /\ Landing(blocks') = Landing(blocks) \cup {pad}
  <2>1. /\ Len(blocks') = Len(blocks)
        /\ OpenBlocks(blocks') = (a.held \cup P) \ {pad}
        /\ EmptyBlocks(blocks') = EmptyBlocks(b2) \ {pad}
        /\ Landing(blocks') = Landing(blocks) \cup {pad}
    BY <1>7, <1>11, <1>12, FillPadIs
  <2>2. Sound(blocks', Len(blocks), PadSet)
    BY <1>7, <1>10, <1>11, <1>12, SoundFill
  <2>3. QED
    BY <2>1, <2>2
<1>14. HasFinally(n) =>
         /\ kid \in r.nodes \ r.tails /\ kid \in Node /\ r.defs[kid] = D /\ D \in SUBSET Label
  <2> SUFFICES ASSUME HasFinally(n)
               PROVE  /\ kid \in r.nodes \ r.tails /\ kid \in Node
                      /\ r.defs[kid] = D /\ D \in SUBSET Label
    OBVIOUS
  <2>1. Len(n.kids) = 3
    BY DEF HasFinally
  <2>2. 3 \in {2, 3} /\ 3 <= Len(n.kids) /\ Follows(4, 3) /\ 4 \in Nat /\ 4 >= 1 /\ 4 > Len(n.kids)
    BY <2>1 DEF Follows
  <2>3. DefsFrom(r, n, 4) = {}
    BY <1>1, <1>2, <2>2, DefsType
  <2>4. /\ n.kids[3] \in r.nodes \ r.tails /\ n.kids[3] \in Node
        /\ DefsFrom(r, n, 3) = r.defs[n.kids[3]] \cup DefsFrom(r, n, 4)
        /\ r.defs[n.kids[3]] \in SUBSET Label
    BY <1>1, <1>2, <2>2, ExcepKid
  <2>5. QED
    BY <1>3, <2>3, <2>4
<1>15. ~HasFinally(n) => D = {}
  <2> SUFFICES ASSUME ~HasFinally(n) PROVE D = {}
    OBVIOUS
  <2>1. Len(n.kids) = 2
    BY <1>2 DEF HasFinally
  <2>2. 3 \in Nat /\ 3 >= 1 /\ 3 > Len(n.kids)
    BY <2>1
  <2>3. n.k # "return"
    BY <1>2
  <2>4. DefsFrom(r, n, 3) = {}
    BY <1>1, <1>2, <2>2, <2>3, DefsType
  <2>5. QED
    BY <1>3, <2>4
<1>16. first \in Seq(Task) /\ NamesIn(first, ((2..Len(blocks')) \ (PadSet \cup {})) \ LabelBlocks)
  <2>1. CASE HasFinally(n)
    <3>1. <<t, u>> \in Seq(Task)
      BY <1>9, <1>14, <2>1
    <3>2. QED
      BY <1>8, <2>1, <3>1, NamesFew
  <2>2. CASE ~HasFinally(n)
    BY <2>2, NamesFew, EmptySeq
  <2>3. QED
    BY <2>1, <2>2
<1>17. CodeInv'
  <2> HIDE DEF first
  <2>1. PadSet' = PadSet \cup {}
    BY <1>4, <1>7, <1>13 DEF PadSet
  <2>2. Elements(padStack') \subseteq EmptyBlocks(blocks')
    BY <1>2, <1>4, <1>7, <1>11, <1>12, <1>13
  <2>3. /\ Len(blocks') \in Nat /\ Len(blocks) <= Len(blocks')
        /\ {} \in SUBSET ((Len(blocks) + 1)..Len(blocks'))
    BY <1>10, <1>13
  <2>4. /\ finallyBlock' \in ((2..Len(blocks')) \ (PadSet \cup {})) \cup {0, finallyBlock}
        /\ Sound(blocks', Len(blocks'), PadSet \cup {})
    <3>1. PadSet \cup {} = PadSet
      OBVIOUS
    <3>2. QED
      BY <1>7, <1>13, <3>1
  <2>5. QED
    BY <1>1, <1>7, <1>16, <2>1, <2>2, <2>3, <2>4, CodePads
<1>18. ASSUME NEW z \in Claim, z.held = m.held, z.pads = m.pads, z.defs = a.defs,
              z.end \in {"open", "done"}
       PROVE  Claims(r, z)'
  <2>1. /\ cur' \notin z.held \cup P /\ z.held \cap P = {} /\ 0 \notin z.held \cup P
        /\ OpenBlocks(blocks') = z.held \cup P \cup ({cur'} \ {0})
    BY <1>2, <1>5, <1>7, <1>12, <1>13, <1>18
  <2>2. /\ z.end # "closed" /\ padStack' = z.pads
        /\ cachedReturn' # NoNode => cachedReturn' \in r.nodes
    BY <1>6, <1>7, <1>18
  <2>3. QED
    BY <1>2, <1>3, <1>7, <1>18, <2>1, <2>2, ClaimsNext
<1>19. ClaimInv(r)'
  <2>1. CASE HasFinally(n)
    <3>1. /\ {} \in SUBSET Nat /\ {} \in SUBSET Label
          /\ "open" \in {"open", "closed", "done"} /\ D \in SUBSET Label
      BY <1>14, <2>1
    <3>2. PICK z \in Claim : IsWith(z, m, {}, D, "open")
      BY <3>1, WithType
    <3>3. PICK y \in Claim : IsWith(y, m, {}, {}, "open")
      BY <3>1, WithType
    <3>4. z.held = m.held /\ z.pads = m.pads /\ z.defs = a.defs /\ z.end = "open"
      BY <1>2, <1>3, <3>2 DEF IsWith
    <3>5. y.held = m.held /\ y.pads = m.pads /\ y.defs = m.defs /\ y.end = "open"
      BY <3>3 DEF IsWith
    <3>6. Claims(r, z)'
      BY <1>18, <3>4
    <3>7. Settles(r, z, t, y)
      <4>1. Spends(z, y, {}, D)
        BY <1>2, <1>3, <3>4, <3>5 DEF Spends
      <4>2. SettlesWalk(r, z, kid, y)
        BY <1>14, <2>1, <3>4, <3>5, <4>1 DEF SettlesWalk
      <4>3. QED
        BY <1>8, <4>2 DEF Settles
    <3>8. Settles(r, y, u, m)
      <4>1. Spends(y, m, {}, {})
        BY <3>5 DEF Spends
      <4>2. QED
        BY <1>2, <1>8, <3>5, <4>1 DEF Settles
    <3>9. Continue(<<t, u>>) /\ t \in Task /\ u \in Task
      BY <1>7, <1>9, <1>14, <2>1
    <3>10. QED
      BY <1>1, <1>2, <1>7, <3>6, <3>7, <3>8, <3>9, ClaimPushTwo
  <2>2. CASE ~HasFinally(n)
    <3>1. a.defs = m.defs /\ Continue(<<>>)
      BY <1>2, <1>3, <1>7, <1>15, <2>2
    <3>2. Claims(r, m)'
      BY <1>2, <1>18, <3>1
    <3>3. QED
      BY <1>1, <1>2, <1>7, <3>1, <3>2, ClaimPushNone
  <2>3. QED
    BY <2>1, <2>2
<1>20. QED
  BY <1>17, <1>19

-----------------------------------------------------------------------------
(* Labels.  The block of a label is new unless the label was mentioned.     *)

Fresh(l, lb) == IF labelmap[l] = 0 THEN {lb} ELSE {}

\* getBlockForLabel.
LEMMA LabelBlockIs ==
  ASSUME TypeOK, CodeInv, NEW l \in Label, NEW lb, lb = BlockForLabel(l),
         NEW bs, bs = WithLabelBlock(l), NEW h, h = Len(bs)
  PROVE  /\ bs \in BlockSeq /\ h \in Nat /\ Len(blocks) <= h
         /\ Sound(bs, h, PadSet) /\ Landing(bs) = Landing(blocks)
         /\ EmptyBlocks(blocks) \subseteq EmptyBlocks(bs)
         /\ OpenBlocks(bs) = OpenBlocks(blocks) \cup Fresh(l, lb)
         /\ lb \in (2..h) \ PadSet
         /\ labelmap[l] # 0 => lb = labelmap[l]
         /\ labelmap[l] = 0 => /\ lb > Len(blocks) /\ lb \notin OpenBlocks(blocks)
                               /\ lb \notin LabelBlocks
<1>1. /\ blocks \in BlockSeq /\ Len(blocks) \in Nat /\ Len(blocks) >= 1
      /\ LabelBlocks \subseteq (2..Len(blocks)) \ PadSet
  BY LenProperties DEF TypeOK, BlockSeq, CodeInv, Plain
<1>2. CASE labelmap[l] # 0
  <2>1. lb = labelmap[l] /\ bs = blocks
    BY <1>2 DEF BlockForLabel, WithLabelBlock
  <2>2. labelmap[l] \in LabelBlocks
    BY <1>2 DEF LabelBlocks
  <2>3. Sound(bs, h, PadSet)
    BY <2>1 DEF CodeInv
  <2>4. h = Len(blocks) /\ Len(blocks) \in Nat
    BY <1>1, <2>1
  <2>5. h \in Nat /\ Len(blocks) <= h
    BY <2>4
  <2>6. lb \in (2..Len(blocks)) \ PadSet
    BY <1>1, <2>1, <2>2
  <2>7. lb \in (2..h) \ PadSet
    BY <2>4, <2>6
  <2>8. Fresh(l, lb) = {}
    BY <1>2 DEF Fresh
  <2>9. QED
    BY <1>1, <1>2, <2>1, <2>3, <2>5, <2>7, <2>8
<1>3. CASE labelmap[l] = 0
  <2>1. lb = Len(blocks) + 1 /\ bs = NewBlocks(blocks, 1)
    BY <1>3 DEF BlockForLabel, WithLabelBlock
  <2>2. 1 \in Nat /\ {} \in SUBSET ((Len(blocks) + 1)..(Len(blocks) + 1)) /\ lb = Len(blocks) + 1
    BY <2>1
  <2>3. /\ NewBlocks(blocks, 1) \in BlockSeq /\ Len(NewBlocks(blocks, 1)) = lb
        /\ Sound(NewBlocks(blocks, 1), lb, PadSet \cup {})
        /\ OpenBlocks(NewBlocks(blocks, 1)) = OpenBlocks(blocks) \cup (Len(blocks) + 1)..lb
        /\ EmptyBlocks(NewBlocks(blocks, 1)) = EmptyBlocks(blocks) \cup (Len(blocks) + 1)..lb
        /\ Landing(NewBlocks(blocks, 1)) = Landing(blocks)
    BY <2>2, CodeGrown
  <2>4. lb \in Nat /\ lb > Len(blocks) /\ lb >= 2 /\ (Len(blocks) + 1)..lb = {lb} /\ lb \in 2..lb
    BY <1>1, <2>1
  <2>5. lb \notin PadSet /\ lb \notin LabelBlocks /\ lb \notin OpenBlocks(blocks)
    BY <2>4, FreshBlocks
  <2>6. Len(blocks) <= lb /\ PadSet \cup {} = PadSet
    BY <1>1, <2>4
  <2>7. bs = NewBlocks(blocks, 1) /\ h = lb
    BY <2>1, <2>3
  <2>8. QED
    BY <1>3, <2>3, <2>4, <2>5, <2>6, <2>7 DEF Fresh
<1>4. QED
  BY <1>2, <1>3

\* The blocks of the labels that are still to be defined.
LEMMA LabelPending ==
  ASSUME TypeOK, CodeInv, NEW l \in Label, NEW lb, lb = BlockForLabel(l),
         labelmap' = [labelmap EXCEPT ![l] = lb], NEW D \in SUBSET Label
  PROVE  /\ l \notin D => Pending(D)' = Pending(D) /\ lb \notin Pending(D)
         /\ l \in D => /\ Pending(D)' = Pending(D) \cup Fresh(l, lb)
                       /\ Pending(D)' = Pending(D \ {l}) \cup {lb}
<1>1. /\ lb # 0
      /\ labelmap[l] # 0 => lb = labelmap[l]
      /\ labelmap[l] = 0 => lb \notin LabelBlocks
  <2>1. PICK bs, h : bs = WithLabelBlock(l) /\ h = Len(bs)
    OBVIOUS
  <2>2. /\ lb \in (2..h) \ PadSet
        /\ labelmap[l] # 0 => lb = labelmap[l]
        /\ labelmap[l] = 0 => lb \notin LabelBlocks
    BY <2>1, LabelBlockIs
  <2>3. QED
    BY <2>2
<1>2. \A k \in Label : labelmap'[k] = IF k = l THEN lb ELSE labelmap[k]
  BY DEF TypeOK
<1>3. \A k \in Label : labelmap[k] # 0 /\ labelmap[k] = labelmap[l] => k = l
  BY DEF CodeInv
<1>4. ASSUME NEW E \in SUBSET Label, l \notin E
      PROVE  Pending(E)' = Pending(E) /\ lb \notin Pending(E)
  <2>1. \A k \in E : labelmap'[k] = labelmap[k]
    BY <1>2, <1>4
  <2>2. Pending(E)' = Pending(E)
    BY <2>1 DEF Pending
  <2>3. ASSUME NEW k \in E, labelmap[k] = lb PROVE FALSE
    <3>1. labelmap[k] # 0 /\ k \in Label /\ k # l
      BY <1>1, <1>4, <2>3
    <3>2. labelmap[k] \in LabelBlocks
      BY <3>1 DEF LabelBlocks
    <3>3. labelmap[l] # 0
      BY <1>1, <2>3, <3>2
    <3>4. QED
      BY <1>1, <1>3, <2>3, <3>1, <3>3
  <2>4. QED
    BY <2>2, <2>3 DEF Pending
<1>5. ASSUME l \in D
      PROVE  /\ Pending(D)' = Pending(D) \cup Fresh(l, lb)
             /\ Pending(D)' = Pending(D \ {l}) \cup {lb}
  <2> DEFINE E == D \ {l}
  <2>1. /\ Pending(D)' = Pending(E)' \cup {lb}
        /\ Pending(D) = Pending(E) \cup ({labelmap[l]} \ {0})
    BY <1>1, <1>2, <1>5 DEF Pending
  <2>2. Pending(E)' = Pending(E)
    BY <1>4
  <2>3. {lb} = ({labelmap[l]} \ {0}) \cup Fresh(l, lb)
    BY <1>1 DEF Fresh
  <2>4. QED
    BY <2>1, <2>2, <2>3
<1>6. QED
  BY <1>4, <1>5

\* The labels have blocks of their own.
LEMMA CodeLabel ==
  ASSUME TypeOK, CodeInv, work # <<>>, Continue(<<>>), NEW l \in Label,
         NEW lb, lb = BlockForLabel(l), labelmap' = [labelmap EXCEPT ![l] = lb],
         NEW h, h = Len(WithLabelBlock(l)), Len(blocks') = h,
         Sound(blocks', h, PadSet), Landing(blocks') = Landing(blocks),
         Elements(padStack) \subseteq EmptyBlocks(blocks'),
         UNCHANGED <<padStack, finallyBlock>>
  PROVE  CodeInv'
<1>1. /\ h \in Nat /\ Len(blocks) \in Nat /\ Len(blocks) <= h /\ lb \in (2..h) \ PadSet
      /\ labelmap[l] # 0 => lb = labelmap[l]
      /\ labelmap[l] = 0 => lb > Len(blocks) /\ lb \notin LabelBlocks
  <2>1. PICK bs : bs = WithLabelBlock(l)
    OBVIOUS
  <2>2. h = Len(bs)
    BY <2>1
  <2>3. Len(blocks) \in Nat
    BY LenProperties DEF TypeOK
  <2>4. /\ h \in Nat /\ Len(blocks) <= h /\ lb \in (2..h) \ PadSet
        /\ labelmap[l] # 0 => lb = labelmap[l]
        /\ labelmap[l] = 0 => lb > Len(blocks) /\ lb \notin LabelBlocks
    BY <2>1, <2>2, LabelBlockIs
  <2>5. QED
    BY <2>3, <2>4
<1>2. \A k \in Label : labelmap'[k] = IF k = l THEN lb ELSE labelmap[k]
  BY DEF TypeOK
<1>3. PadSet' = PadSet
  BY DEF PadSet
<1>4. PadSet' \subseteq 2..Len(blocks') /\ Plain \subseteq Plain' /\ Plain' = (2..h) \ PadSet
  BY <1>1, <1>3 DEF Plain, CodeInv
<1>5. LabelBlocks' \subseteq LabelBlocks \cup {lb}
  BY <1>2 DEF LabelBlocks
<1>6. LabelBlocks' \subseteq Plain'
  BY <1>1, <1>4, <1>5 DEF CodeInv
<1>7. ASSUME NEW j \in Label, NEW k \in Label, labelmap'[j] # 0, labelmap'[j] = labelmap'[k]
      PROVE  j = k
  <2>1. \A x \in Label : labelmap[x] # 0 => labelmap[x] \in LabelBlocks
    BY DEF LabelBlocks
  <2>2. \A x, y \in Label : labelmap[x] # 0 /\ labelmap[x] = labelmap[y] => x = y
    BY DEF CodeInv
  <2>3. CASE labelmap[l] # 0
    BY <1>1, <1>2, <1>7, <2>2, <2>3
  <2>4. CASE labelmap[l] = 0
    <3>1. \A x \in Label : labelmap[x] # lb
      BY <1>1, <2>1, <2>4
    <3>2. QED
      BY <1>2, <1>7, <2>2, <3>1
  <2>5. QED
    BY <2>3, <2>4
<1>8. NamesIn(work', (Plain \ LabelBlocks)')
  <2>1. Plain \ LabelBlocks \subseteq (Plain \ LabelBlocks)'
    <3>1. \A x \in Plain \ LabelBlocks : x # lb
      <4>1. CASE labelmap[l] # 0
        BY <1>1, <4>1 DEF LabelBlocks
      <4>2. CASE labelmap[l] = 0
        BY <1>1, <4>2 DEF Plain
      <4>3. QED
        BY <4>1, <4>2
    <3>2. QED
      BY <1>4, <1>5, <3>1
  <2>2. NamesIn(work, Plain \ LabelBlocks) /\ work \in Seq(Task)
    BY DEF CodeInv, TypeOK
  <2>3. NamesIn(Tail(work), (Plain \ LabelBlocks)')
    BY <2>1, <2>2, NamesTail
  <2>4. Tail(work) \in Seq(Task) /\ <<>> \in Seq(Task) /\ NamesIn(<<>>, (Plain \ LabelBlocks)')
    BY <2>2, HeadTailProperties, NamesFew, EmptySeq
  <2>5. NamesIn(<<>> \o Tail(work), (Plain \ LabelBlocks)')
    BY <2>3, <2>4, NamesConcat
  <2>6. QED
    BY <2>5 DEF Continue
<1>9. finallyBlock' # 0 => finallyBlock' \in Plain'
  BY <1>4 DEF CodeInv
<1>10. Len(blocks') >= 1 /\ Sound(blocks', Len(blocks'), PadSet')
       /\ Elements(padStack') \subseteq EmptyBlocks(blocks')
  <2>1. Len(blocks) >= 1
    BY DEF CodeInv
  <2>2. QED
    BY <1>1, <1>3, <2>1
<1>11. QED
  BY <1>4, <1>6, <1>7, <1>8, <1>9, <1>10 DEF CodeInv

\* The walk leaves the current block for the block of a label; and what is open
\* then, with the labels the rest of the walk is to define.
LEMMA LabelLeft ==
  ASSUME TypeOK, CodeInv, NEW r, NEW a \in Claim, Claims(r, a), a.end = "open",
         NEW l \in Label, l \in r.labels, NEW lb, lb = BlockForLabel(l),
         labelmap' = [labelmap EXCEPT ![l] = lb],
         blocks' = BranchIfLive(WithLabelBlock(l), cur, lb),
         UNCHANGED <<padStack, finallyBlock, cachedReturn>>, work # <<>>, Continue(<<>>)
  PROVE  /\ CodeInv' /\ lb \in Nat /\ lb # 0 /\ (l \in a.defs => lb \notin a.held)
         /\ OpenBlocks(blocks') = a.held \cup Pending(a.defs) \cup Fresh(l, lb)
         /\ a.held \cap Fresh(l, lb) = {}
         /\ l \notin a.defs => Fresh(l, lb) = {}
         /\ \A k \in r.labels \ a.defs : labelmap'[k] # 0
         /\ labelmap'[l] # 0
<1>1. PICK bs, h : bs = WithLabelBlock(l) /\ h = Len(bs)
  OBVIOUS
<1>2. /\ bs \in BlockSeq /\ h \in Nat /\ Len(blocks) <= h
      /\ Sound(bs, h, PadSet) /\ Landing(bs) = Landing(blocks)
      /\ EmptyBlocks(blocks) \subseteq EmptyBlocks(bs)
      /\ OpenBlocks(bs) = OpenBlocks(blocks) \cup Fresh(l, lb)
      /\ lb \in (2..h) \ PadSet
      /\ labelmap[l] # 0 => lb = labelmap[l]
      /\ labelmap[l] = 0 => /\ lb > Len(blocks) /\ lb \notin OpenBlocks(blocks)
                            /\ lb \notin LabelBlocks
  BY <1>1, LabelBlockIs
<1>3. PICK P, F : P = Pending(a.defs) /\ F = Fresh(l, lb)
  OBVIOUS
<1>4. /\ OpenBlocks(blocks) = a.held \cup P \cup ({cur} \ {0}) /\ cur \notin a.held \cup P
      /\ cur \in OpenBlocks(blocks) \cup {0} /\ a.held \cap P = {} /\ 0 \notin a.held \cup P
      /\ Elements(padStack) \subseteq a.held /\ 0 \notin OpenBlocks(blocks)
  BY <1>3, ClaimsGive, ClaimsApart
<1>5. lb \in Nat /\ lb # 0 /\ Len(blocks) \in Nat /\ cur \in 0..Len(blocks)
  BY <1>2, LenProperties DEF TypeOK
<1>6. F \cap OpenBlocks(blocks) = {} /\ 0 \notin F
  BY <1>2, <1>3, <1>5 DEF Fresh
<1>7. /\ Len(blocks') = h /\ Sound(blocks', h, PadSet)
      /\ OpenBlocks(blocks') = OpenBlocks(bs) \ {cur}
      /\ EmptyBlocks(blocks') = EmptyBlocks(bs) \ {cur}
      /\ Landing(blocks') = Landing(blocks)
  <2>1. cur \in OpenBlocks(bs) \cup {0} /\ cur \in 0..Len(bs)
    BY <1>1, <1>2, <1>4, <1>5
  <2>2. blocks' = BranchIfLive(bs, cur, lb)
    BY <1>1
  <2>3. Len(blocks') = h
    BY <1>1, <1>2, <1>5, <2>1, <2>2, BranchIfLiveType
  <2>4. /\ OpenBlocks(blocks') = OpenBlocks(bs) \ {cur}
        /\ EmptyBlocks(blocks') = EmptyBlocks(bs) \ {cur}
        /\ Landing(blocks') = Landing(bs)
    BY <1>2, <1>5, <2>1, <2>2, BranchIfLiveIs
  <2>5. Sound(blocks', h, PadSet)
    BY <1>2, <2>1, <2>2, SoundBranch
  <2>6. QED
    BY <1>2, <2>3, <2>4, <2>5
<1>8. OpenBlocks(blocks') = a.held \cup P \cup F
  <2>1. cur \notin F
    BY <1>4, <1>6
  <2>2. QED
    BY <1>2, <1>3, <1>4, <1>7, <2>1
<1>9. a.held \cap F = {}
  BY <1>4, <1>6
<1>10. Elements(padStack) \subseteq EmptyBlocks(blocks')
  <2>1. Elements(padStack) \subseteq EmptyBlocks(blocks)
    BY DEF CodeInv
  <2>2. QED
    BY <1>2, <1>4, <1>7, <2>1
<1>11. CodeInv'
  <2>1. h = Len(WithLabelBlock(l))
    BY <1>1
  <2>2. QED
    BY <1>7, <1>10, <2>1, CodeLabel
<1>12. \A k \in r.labels \ a.defs : labelmap[k] # 0 /\ a.defs \subseteq r.labels
  BY DEF Claims
<1>13. \A k \in Label : labelmap'[k] = IF k = l THEN lb ELSE labelmap[k]
  BY DEF TypeOK
<1>14. l \notin a.defs => F = {}
  BY <1>3, <1>12 DEF Fresh
<1>15. \A k : labelmap[k] # 0 /\ k # l => labelmap'[k] # 0
  BY DEF TypeOK
<1>16. \A k \in r.labels \ a.defs : labelmap'[k] # 0
  BY <1>5, <1>12, <1>13, <1>15
<1>17. labelmap'[l] # 0
  BY <1>5, <1>13
<1>18. ASSUME l \in a.defs PROVE lb \notin a.held
  <2>1. CASE labelmap[l] = 0
    BY <1>2, <1>4, <2>1
  <2>2. CASE labelmap[l] # 0
    <3>1. labelmap[l] \in P
      BY <1>3, <1>18, <2>2 DEF Pending
    <3>2. QED
      BY <1>2, <1>4, <2>2, <3>1
  <2>3. QED
    BY <2>1, <2>2
<1>19. QED
  BY <1>3, <1>5, <1>8, <1>9, <1>11, <1>14, <1>16, <1>17, <1>18

\* A goto: the walk has no current block behind it.
LEMMA CfgWalkGoto ==
  ASSUME TypeOK, NEW r, CodeInv, ClaimInv(r), WalkGoto
  PROVE  CodeInv' /\ ClaimInv(r)'
<1>1. /\ work # <<>> /\ status = "walking" /\ Head(work).op = "walk" /\ Lays(r)
      /\ TheNode.k = "goto" /\ TheNode \in Node
  BY HeadType DEF WalkGoto, Visiting, Running, ClaimInv, TheNode
<1>2. PICK n \in Node : n = TheNode /\ n.k # "expr" /\ n.k = "goto"
  BY <1>1
<1>3. PICK a \in Claim, m \in Claim, b \in Claim :
            /\ Claims(r, a) /\ Final(b) /\ Leads(Settled(r), Claim, m, Tail(work), b)
            /\ n \in r.nodes /\ a.held = m.held /\ a.pads = m.pads /\ a.end = "open"
            /\ a.defs = r.defs[n] \cup m.defs /\ r.defs[n] \cap m.defs = {}
            /\ m.end \in {"open", "done"} /\ (n \in r.tails => m.end = "done")
  BY <1>1, <1>2, ClaimVisit
<1>4. PICK l, lb : l = n.arg /\ lb = BlockForLabel(n.arg)
  OBVIOUS
<1>5. l \in Label /\ lb = BlockForLabel(l) /\ l \in r.labels /\ a.defs = m.defs
  <2>1. l \in Label
    BY <1>2, <1>4, NodeAssumption
  <2>2. n.arg \in r.labels /\ r.defs[n] = {}
    BY <1>1, <1>2, <1>3, LayoutGives DEF LayoutRule
  <2>3. QED
    BY <1>3, <1>4, <2>1, <2>2
<1>6. cur \in OpenBlocks(blocks) \cup {0} /\ padStack = a.pads /\ a.held \cap Pending(a.defs) = {}
      /\ 0 \notin a.held \cup Pending(a.defs)
      /\ (cachedReturn # NoNode => cachedReturn \in r.nodes)
  BY <1>3, ClaimsApart
<1>7. /\ blocks' = BranchIfLive(WithLabelBlock(l), cur, lb)
      /\ labelmap' = [labelmap EXCEPT ![l] = lb] /\ cur' = 0 /\ Continue(<<>>)
      /\ UNCHANGED <<padStack, finallyBlock, cachedReturn>> /\ status' = "walking"
  BY <1>1, <1>2, <1>4, <1>6 DEF WalkGoto, BranchIfLive, OpenBlocks
<1>8. PICK P, F : P = Pending(a.defs) /\ F = Fresh(l, lb)
  OBVIOUS
<1>9. /\ CodeInv' /\ lb # 0
      /\ OpenBlocks(blocks') = a.held \cup P \cup F
      /\ a.held \cap F = {}
      /\ l \notin a.defs => F = {}
      /\ \A k \in r.labels \ a.defs : labelmap'[k] # 0
  BY <1>1, <1>3, <1>5, <1>7, <1>8, LabelLeft
<1>10. Pending(a.defs)' = P \cup F
  <2>1. a.defs \in SUBSET Label
    BY ClaimIs
  <2>2. /\ l \notin a.defs => Pending(a.defs)' = P
        /\ l \in a.defs => Pending(a.defs)' = P \cup F
    BY <1>5, <1>7, <1>8, <2>1, LabelPending
  <2>3. QED
    BY <1>9, <2>2
<1>11. 0 \notin m.held \cup P \cup F /\ m.held \cap (P \cup F) = {}
  <2>1. 0 \notin F
    BY <1>8, <1>9 DEF Fresh
  <2>2. QED
    BY <1>3, <1>6, <1>8, <1>9, <2>1
<1>12. Claims(r, m)'
  <2>1. Pending(m.defs)' = P \cup F
    BY <1>5, <1>10
  <2>2. /\ OpenBlocks(blocks') \ {cur'} = m.held \cup (P \cup F)
        /\ cur' \notin m.held \cup (P \cup F) /\ m.held \cap (P \cup F) = {}
        /\ cur' \in OpenBlocks(blocks') \cup {0}
    BY <1>3, <1>7, <1>9, <1>11
  <2>3. m.defs \subseteq r.labels /\ \A k \in r.labels \ m.defs : labelmap'[k] # 0
    BY <1>3, <1>5, <1>9 DEF Claims
  <2>4. /\ padStack' = m.pads /\ m.end # "closed"
        /\ cachedReturn' # NoNode => cachedReturn' \in r.nodes
    BY <1>3, <1>6, <1>7
  <2>5. QED
    BY <2>1, <2>2, <2>3, <2>4 DEF Claims
<1>13. ClaimInv(r)'
  BY <1>1, <1>3, <1>7, <1>12, ClaimPushNone
<1>14. QED
  BY <1>9, <1>13

\* A label: the walk goes on in its block.
LEMMA CfgWalkLabel ==
  ASSUME TypeOK, NEW r, CodeInv, ClaimInv(r), WalkLabel
  PROVE  CodeInv' /\ ClaimInv(r)'
<1>1. /\ work # <<>> /\ status = "walking" /\ Head(work).op = "walk" /\ Lays(r)
      /\ TheNode.k = "label" /\ TheNode \in Node
  BY HeadType DEF WalkLabel, Visiting, Running, ClaimInv, TheNode
<1>2. PICK n \in Node : n = TheNode /\ n.k # "expr" /\ n.k = "label"
  BY <1>1
<1>3. PICK a \in Claim, m \in Claim, b \in Claim :
            /\ Claims(r, a) /\ Final(b) /\ Leads(Settled(r), Claim, m, Tail(work), b)
            /\ n \in r.nodes /\ a.held = m.held /\ a.pads = m.pads /\ a.end = "open"
            /\ a.defs = r.defs[n] \cup m.defs /\ r.defs[n] \cap m.defs = {}
            /\ m.end \in {"open", "done"} /\ (n \in r.tails => m.end = "done")
  BY <1>1, <1>2, ClaimVisit
<1>4. PICK l, lb : l = n.arg /\ lb = BlockForLabel(n.arg)
  OBVIOUS
<1>5. /\ l \in Label /\ lb = BlockForLabel(l) /\ a.defs \subseteq r.labels
      /\ a.defs = {l} \cup m.defs /\ l \notin m.defs
  <2>1. l \in Label
    BY <1>2, <1>4, NodeAssumption
  <2>2. r.defs[n] = {n.arg}
    BY <1>1, <1>2, <1>3, LayoutGives DEF LayoutRule
  <2>3. a.defs \subseteq r.labels
    BY <1>3 DEF Claims
  <2>4. QED
    BY <1>3, <1>4, <2>1, <2>2, <2>3
<1>6. padStack = a.pads /\ a.held \cap Pending(a.defs) = {}
      /\ (cachedReturn # NoNode => cachedReturn \in r.nodes)
  BY <1>3, ClaimsApart
<1>7. /\ blocks' = BranchIfLive(WithLabelBlock(l), cur, lb)
      /\ labelmap' = [labelmap EXCEPT ![l] = lb] /\ cur' = lb /\ Continue(<<>>)
      /\ UNCHANGED <<padStack, finallyBlock, cachedReturn>> /\ status' = "walking"
  BY <1>1, <1>2, <1>4 DEF WalkLabel
<1>8. PICK P, Q, F : P = Pending(a.defs) /\ Q = Pending(m.defs) /\ F = Fresh(l, lb)
  OBVIOUS
<1>9. /\ CodeInv' /\ lb # 0 /\ lb \notin a.held
      /\ OpenBlocks(blocks') = a.held \cup P \cup F
      /\ a.held \cap F = {}
      /\ \A k \in r.labels \ a.defs : labelmap'[k] # 0
      /\ labelmap'[l] # 0
  <2>1. l \in r.labels /\ l \in a.defs
    BY <1>5
  <2>2. QED
    BY <1>1, <1>3, <1>5, <1>7, <1>8, <2>1, LabelLeft
<1>10. /\ P \cup F = Q \cup {lb} /\ lb \notin Q /\ Pending(m.defs)' = Q
  <2>1. /\ a.defs \in SUBSET Label /\ m.defs \in SUBSET Label
        /\ l \in a.defs /\ a.defs \ {l} = m.defs
    BY <1>5, ClaimIs
  <2>2. /\ Pending(a.defs)' = Pending(a.defs) \cup Fresh(l, lb)
        /\ Pending(a.defs)' = Pending(a.defs \ {l}) \cup {lb}
    BY <1>5, <1>7, <2>1, LabelPending
  <2>3. Pending(m.defs)' = Pending(m.defs) /\ lb \notin Pending(m.defs)
    BY <1>5, <1>7, <2>1, LabelPending
  <2>4. QED
    BY <1>8, <2>1, <2>2, <2>3
<1>11. Claims(r, m)'
  <2>1. /\ OpenBlocks(blocks') \ {cur'} = m.held \cup Q
        /\ cur' \notin m.held \cup Q /\ m.held \cap Q = {}
        /\ cur' \in OpenBlocks(blocks') \cup {0}
    <3>1. a.held \cap (P \cup F) = {}
      BY <1>6, <1>8, <1>9
    <3>2. OpenBlocks(blocks') = m.held \cup Q \cup {lb}
      BY <1>3, <1>9, <1>10
    <3>3. m.held \cap Q = {} /\ lb \notin m.held
      BY <1>3, <1>9, <1>10, <3>1
    <3>4. QED
      BY <1>7, <1>10, <3>2, <3>3
  <2>2. m.defs \subseteq r.labels /\ \A k \in r.labels \ m.defs : labelmap'[k] # 0
    BY <1>5, <1>9
  <2>3. /\ padStack' = m.pads /\ m.end # "closed"
        /\ cachedReturn' # NoNode => cachedReturn' \in r.nodes
    BY <1>3, <1>6, <1>7
  <2>4. QED
    BY <1>10, <2>1, <2>2, <2>3 DEF Claims
<1>12. ClaimInv(r)'
  BY <1>1, <1>3, <1>7, <1>11, ClaimPushNone
<1>13. QED
  BY <1>9, <1>12

-----------------------------------------------------------------------------
(* The end of the walk.                                                     *)

\* fixupEpilogBlock closes the last open block: it is the current block, as
\* nothing else is claimed.
LEMMA CfgFinish ==
  ASSUME TypeOK, NEW r, CodeInv, ClaimInv(r), Finish
  PROVE  CodeInv' /\ ClaimInv(r)'
<1>1. status = "walking" /\ work = <<>> /\ Lays(r)
  BY DEF Finish, ClaimInv
<1>2. PICK a \in Claim, b \in Claim :
        Claims(r, a) /\ Final(b) /\ Leads(Settled(r), Claim, a, work, b)
  BY <1>1 DEF ClaimInv
<1>3. a = b
  <2>1. PICK p \in [1..(Len(work) + 1) -> Claim] : p[1] = a /\ p[Len(work) + 1] = b
    BY <1>2 DEF Leads
  <2>2. Len(work) + 1 = 1
    BY <1>1
  <2>3. QED
    BY <2>1, <2>2
<1>4. /\ OpenBlocks(blocks) \ {cur} = {} /\ padStack = <<>>
  <2>1. a.held = {} /\ a.defs = {} /\ a.pads = <<>>
    BY <1>2, <1>3 DEF Final
  <2>2. Pending(a.defs) = {}
    BY <2>1 DEF Pending
  <2>3. QED
    BY <1>2, <2>1, <2>2 DEF Claims
<1>5. /\ blocks \in BlockSeq /\ Len(blocks) \in Nat /\ cur \in 0..Len(blocks)
      /\ Sound(blocks, Len(blocks), PadSet)
  BY LenProperties DEF TypeOK, BlockSeq, CodeInv
<1> DEFINE ret == Ins("ret", <<>>)
<1>6. /\ ret \in Instr /\ IsTerminator(ret) /\ ret.op # "landingpad"
      /\ Apt(ret, Len(blocks), PadSet)
  <2>1. ret \in Instr
    BY InsType, EmptySeq DEF Terminators
  <2>2. ret.op = "ret" /\ ret.to = <<>>
    BY DEF Ins
  <2> HIDE DEF ret
  <2>3. Len(ret.to) = 0
    BY <2>2
  <2>4. Apt(ret, Len(blocks), PadSet)
    BY <2>2, <2>3 DEF Apt
  <2>5. QED
    BY <2>1, <2>2, <2>4 DEF IsTerminator, Terminators
<1> HIDE DEF ret
<1>7. /\ blocks' = IF cur \in OpenBlocks(blocks) THEN Put(blocks, cur, ret) ELSE blocks
      /\ status' = "done" /\ UNCHANGED <<work, cur, labelmap, padStack, finallyBlock>>
  BY <1>1, <1>5 DEF Finish, OpenBlocks, ret
<1>8. /\ Len(blocks') = Len(blocks) /\ Sound(blocks', Len(blocks), PadSet)
      /\ Landing(blocks') = Landing(blocks) /\ OpenBlocks(blocks') = {}
  <2>1. CASE cur \in OpenBlocks(blocks)
    <3>1. blocks' = Put(blocks, cur, ret) /\ cur \in 1..Len(blocks)
      BY <1>7, <2>1 DEF OpenBlocks
    <3>2. Len(blocks') = Len(blocks)
      BY <1>5, <1>6, <3>1, PutType
    <3>3. OpenBlocks(blocks') = OpenBlocks(blocks) \ {cur} /\ Landing(blocks') = Landing(blocks)
      BY <1>5, <1>6, <2>1, <3>1, PutIs
    <3>4. Sound(blocks', Len(blocks), PadSet)
      BY <1>5, <1>6, <2>1, <3>1, SoundPut
    <3>5. QED
      BY <1>4, <3>2, <3>3, <3>4
  <2>2. CASE cur \notin OpenBlocks(blocks)
    BY <1>4, <1>5, <1>7, <2>2
  <2>3. QED
    BY <2>1, <2>2
<1>9. Elements(padStack) = {} /\ Elements(padStack') = {}
  <2>1. Len(padStack) = 0 /\ padStack' = padStack
    BY <1>4, <1>7
  <2>2. QED
    BY <2>1 DEF Elements
<1>10. PadSet' = PadSet
  BY <1>7, <1>8, <1>9 DEF PadSet
<1>11. Plain' = Plain /\ LabelBlocks' = LabelBlocks
  BY <1>7, <1>8, <1>10 DEF Plain, LabelBlocks
<1>12. CodeInv'
  <2>1. /\ Len(blocks') >= 1 /\ Sound(blocks', Len(blocks'), PadSet')
        /\ PadSet' \subseteq 2..Len(blocks')
        /\ Elements(padStack') \subseteq EmptyBlocks(blocks')
    BY <1>8, <1>9, <1>10 DEF CodeInv
  <2>2. /\ LabelBlocks' \subseteq Plain'
        /\ (\A k, l \in Label : labelmap[k] # 0 /\ labelmap[k] = labelmap[l] => k = l)'
        /\ finallyBlock' # 0 => finallyBlock' \in Plain'
    BY <1>7, <1>11 DEF CodeInv
  <2>3. NamesIn(work', (Plain \ LabelBlocks)')
    BY <1>7, <1>11 DEF CodeInv
  <2>4. QED
    BY <2>1, <2>2, <2>3 DEF CodeInv
<1>13. ClaimInv(r)'
  BY <1>1, <1>7, <1>8 DEF ClaimInv
<1>14. QED
  BY <1>12, <1>13

-----------------------------------------------------------------------------
(* The invariant, and what it says of the control flow graph.               *)

\* At the start there is the entry block, and the labels of the body to define.
LEMMA CfgInit ==
  ASSUME Init, TypeOK, NEW r, BodyLaid(r, tree)
  PROVE  CodeInv /\ ClaimInv(r)
<1>1. /\ Lays(r) /\ tree \in r.nodes /\ tree \in Node /\ r.labels = r.defs[tree]
      /\ r.defs[tree] \in SUBSET Label
  BY LayoutGives DEF BodyLaid
<1>2. /\ work = <<Walk(tree)>> /\ cur = 1 /\ blocks = << <<>> >> /\ padStack = <<>>
      /\ labelmap = [l \in Label |-> 0] /\ finallyBlock = 0 /\ cachedReturn = NoNode
      /\ status = "walking"
  BY DEF Init
<1>3. Len(blocks) = 1 /\ blocks[1] = <<>> /\ Len(blocks[1]) = 0 /\ Len(padStack) = 0
  BY <1>2
<1>4. /\ OpenBlocks(blocks) = {1} /\ Landing(blocks) = {} /\ Elements(padStack) = {}
  <2>1. ~HasTerminator(blocks, 1) /\ ~(Len(blocks[1]) > 0)
    BY <1>3 DEF HasTerminator
  <2>2. 1..Len(blocks) = {1} /\ 1..Len(padStack) = {}
    BY <1>3
  <2>3. QED
    BY <2>1, <2>2 DEF OpenBlocks, Landing, Elements
<1>5. PadSet = {} /\ LabelBlocks = {} /\ \A D \in SUBSET Label : Pending(D) = {}
  BY <1>2, <1>4 DEF PadSet, LabelBlocks, Pending
<1>6. CodeInv
  <2>1. Sound(blocks, Len(blocks), PadSet)
    <3>1. SoundBlock(blocks[1], Len(blocks), PadSet)
      BY <1>3 DEF SoundBlock
    <3>2. QED
      BY <1>3, <3>1 DEF Sound
  <2>2. NamesIn(work, Plain \ LabelBlocks)
    <3>1. Named(Walk(tree)) = {}
      BY NamedNone
    <3>2. QED
      BY <1>2, <3>1, NamesFew
  <2>3. \A k, l \in Label : labelmap[k] # 0 /\ labelmap[k] = labelmap[l] => k = l
    BY <1>2
  <2>4. QED
    BY <1>2, <1>3, <1>4, <1>5, <2>1, <2>2, <2>3 DEF CodeInv
<1>7. PICK a \in Claim, b \in Claim :
        /\ a.held = {} /\ a.pads = <<>> /\ a.defs = r.defs[tree] /\ a.end = "open"
        /\ b.held = {} /\ b.pads = <<>> /\ b.defs = {} /\ b.end = "done"
  <2>1. PICK h \in SUBSET Nat, q \in Seq(Nat) : h = {} /\ q = <<>> /\ Elements(q) \subseteq h
    <3>1. {} \in SUBSET Nat /\ <<>> \in Seq(Nat) /\ Elements(<<>>) \subseteq {}
      BY <1>2, <1>4, EmptySeq
    <3>2. QED
      BY <3>1
  <2>2. h \in SUBSET Nat /\ q \in Seq(Nat) /\ Elements(q) \subseteq h
    BY <2>1
  <2>3. ASSUME NEW D \in SUBSET Label, NEW end \in {"open", "closed", "done"}
        PROVE  \E c \in Claim : c.held = {} /\ c.pads = <<>> /\ c.defs = D /\ c.end = end
    <3> DEFINE c == Claimed(h, q, D, end)
    <3>1. c \in Claim /\ c.held = h /\ c.pads = q /\ c.defs = D /\ c.end = end
      BY <2>2, ClaimType
    <3> HIDE DEF c
    <3>2. QED
      BY <2>1, <3>1
  <2>4. PICK a \in Claim :
          a.held = {} /\ a.pads = <<>> /\ a.defs = r.defs[tree] /\ a.end = "open"
    <3>1. "open" \in {"open", "closed", "done"}
      OBVIOUS
    <3>2. QED
      BY <1>1, <2>3, <3>1
  <2>5. PICK b \in Claim : b.held = {} /\ b.pads = <<>> /\ b.defs = {} /\ b.end = "done"
    <3>1. "done" \in {"open", "closed", "done"} /\ {} \in SUBSET Label
      OBVIOUS
    <3>2. QED
      BY <2>3, <3>1
  <2>6. QED
    BY <2>4, <2>5
<1>8. Claims(r, a)
  <2>1. Pending(a.defs) = {}
    BY <1>1, <1>5, <1>7
  <2>2. QED
    BY <1>1, <1>2, <1>4, <1>7, <2>1 DEF Claims
<1> DEFINE t == Walk(tree)
<1>9. t \in Task /\ t.op = "walk" /\ t.n = tree
  BY <1>1, TaskType DEF Walk, Do
<1>10. work = <<t>>
  BY <1>2
<1> HIDE DEF t
<1>11. Settles(r, a, t, b)
  <2>1. Spends(a, b, {}, r.defs[tree])
    BY <1>7 DEF Spends
  <2>2. SettlesWalk(r, a, tree, b)
    BY <1>1, <1>7, <2>1 DEF SettlesWalk
  <2>3. QED
    BY <1>9, <2>2 DEF Settles
<1>12. Leads(Settled(r), Claim, a, work, b)
  <2>1. <<a, t, b>> \in Settled(r)
    BY <1>7, <1>9, <1>11 DEF Settled
  <2>2. QED
    BY <1>7, <1>10, <2>1, LeadsOne
<1>13. Final(b)
  BY <1>7 DEF Final
<1>14. ClaimInv(r)
  BY <1>1, <1>2, <1>7, <1>8, <1>12, <1>13 DEF ClaimInv
<1>15. QED
  BY <1>6, <1>14

\* The generated code and the claims of the stack go together through every step.
LEMMA CfgNext ==
  ASSUME TypeOK, NEW s, FlowInv(s), SwitchesClose(s), NEW r, CodeInv, ClaimInv(r),
         status' # "aborted", [Next]_vars
  PROVE  CodeInv' /\ ClaimInv(r)'
<1>1. CASE UNCHANGED vars
  BY <1>1 DEF CodeInv, ClaimInv, Claims, Pending, PadSet, Plain, LabelBlocks, vars
<1>2. CASE WalkChildren \/ EmitInst \/ WalkIf \/ IfArms \/ JoinArm
  BY <1>2, CfgWalkChildren, CfgEmitInst, CfgWalkIf, CfgIfArms, CfgJoinArm
<1>3. CASE WalkSwitch \/ SwitchBlocks \/ SwitchCase \/ SwitchEnd
  BY <1>3, CfgWalkSwitch, CfgSwitchBlocks, CfgSwitchCase, CfgSwitchEnd
<1>4. CASE ReturnToFinally \/ WalkReturn \/ ReturnEnd
  BY <1>4, CfgReturnToFinally, CfgWalkReturn, CfgReturnEnd
<1>5. CASE WalkDefer \/ DeferCatch \/ DeferEnd
  BY <1>5, CfgWalkDefer, CfgDeferCatch, CfgDeferEnd
<1>6. CASE WalkExcep \/ ExcepCatch \/ ExcepFinally \/ ExcepReturn \/ ExcepEnd
  BY <1>6, CfgWalkExcep, CfgExcepCatch, CfgExcepFinally, CfgExcepReturn, CfgExcepEnd
<1>7. CASE WalkGoto \/ WalkLabel \/ Finish
  BY <1>7, CfgWalkGoto, CfgWalkLabel, CfgFinish
<1>8. QED
  BY <1>1, <1>2, <1>3, <1>4, <1>5, <1>6, <1>7 DEF Next

\* Sound blocks, and closed ones at the end, are what the verifier wants.
LEMMA CfgImplied ==
  ASSUME TypeOK, NEW r, CodeInv, ClaimInv(r)
  PROVE  CfgWellFormed
<1>1. /\ Len(blocks) \in Nat /\ blocks \in BlockSeq
      /\ Sound(blocks, Len(blocks), PadSet) /\ PadSet \subseteq 2..Len(blocks)
      /\ Elements(padStack) \subseteq EmptyBlocks(blocks)
  BY LenProperties DEF TypeOK, CodeInv, BlockSeq
<1>2. ASSUME NEW b \in 1..Len(blocks)
      PROVE  /\ Len(blocks[b]) \in Nat /\ DOMAIN blocks[b] = 1..Len(blocks[b])
             /\ \A i \in 1..Len(blocks[b]) :
                  /\ DOMAIN blocks[b][i].to = 1..Len(blocks[b][i].to)
                  /\ IsTerminator(blocks[b][i]) => i = Len(blocks[b])
                  /\ blocks[b][i].op = "landingpad" => i = 1
                  /\ Apt(blocks[b][i], Len(blocks), PadSet)
  <2>1. blocks[b] \in Seq(Instr)
    BY <1>1, ElementOfSeq DEF BlockSeq
  <2>2. Len(blocks[b]) \in Nat /\ DOMAIN blocks[b] = 1..Len(blocks[b])
    BY <2>1, LenProperties
  <2>3. ASSUME NEW i \in 1..Len(blocks[b]) PROVE blocks[b][i].to \in Seq(Nat)
    <3>1. blocks[b][i] \in Instr
      BY <2>1, ElementOfSeq
    <3>2. QED
      BY <3>1 DEF Instr
  <2>4. \A i \in 1..Len(blocks[b]) : DOMAIN blocks[b][i].to = 1..Len(blocks[b][i].to)
    BY <2>3, LenProperties
  <2>5. SoundBlock(blocks[b], Len(blocks), PadSet)
    BY <1>1 DEF Sound
  <2>6. QED
    BY <2>2, <2>4, <2>5 DEF SoundBlock
<1>3. \A x \in 1..Len(blocks) : IsLandingPad(x) <=> x \in Landing(blocks)
  BY DEF IsLandingPad, Landing
<1>4. \A x \in (2..Len(blocks)) \ PadSet : ~IsLandingPad(x)
  BY <1>1, <1>3 DEF PadSet
<1>5. NothingAfterTerminator
  <2> SUFFICES ASSUME NEW b \in 1..Len(blocks), NEW i \in 1..(Len(blocks[b]) - 1),
                      IsTerminator(blocks[b][i])
               PROVE  FALSE
    BY DEF NothingAfterTerminator, BlockIds
  <2>1. Len(blocks[b]) \in Nat /\ i \in 1..Len(blocks[b]) /\ i # Len(blocks[b])
    BY <1>2
  <2>2. QED
    BY <1>2, <2>1
<1>6. InvokesUnwindToPads
  <2> SUFFICES ASSUME NEW b \in 1..Len(blocks), NEW i \in DOMAIN blocks[b],
                      NEW ins, ins = blocks[b][i]
               PROVE  IF ins.op = "invoke"
                      THEN /\ ~IsLandingPad(ins.to[1])
                           /\ \/ IsLandingPad(ins.to[2])
                              \/ /\ blocks[ins.to[2]] = <<>>
                                 /\ \E j \in DOMAIN padStack : padStack[j] = ins.to[2]
                      ELSE \A j \in DOMAIN ins.to : ~IsLandingPad(ins.to[j])
    BY DEF InvokesUnwindToPads, BlockIds
  <2>1. i \in 1..Len(blocks[b])
    BY <1>2
  <2>2. Apt(ins, Len(blocks), PadSet) /\ DOMAIN ins.to = 1..Len(ins.to)
    BY <1>2, <2>1
  <2>3. CASE ins.op = "invoke"
    <3>1. ins.to[1] \in (2..Len(blocks)) \ PadSet /\ ins.to[2] \in PadSet
      BY <2>2, <2>3 DEF Apt
    <3>2. CASE ins.to[2] \in Landing(blocks)
      <4>1. IsLandingPad(ins.to[2])
        BY <3>2 DEF IsLandingPad, Landing
      <4>2. QED
        BY <1>4, <2>3, <3>1, <4>1
    <3>3. CASE ins.to[2] \in Elements(padStack)
      <4>1. blocks[ins.to[2]] = <<>>
        BY <1>1, <3>3 DEF EmptyBlocks
      <4>2. DOMAIN padStack = 1..Len(padStack)
        BY LenProperties DEF TypeOK
      <4>3. \E j \in DOMAIN padStack : padStack[j] = ins.to[2]
        BY <3>3, <4>2 DEF Elements
      <4>4. QED
        BY <1>4, <2>3, <3>1, <4>1, <4>3
    <3>4. QED
      BY <3>1, <3>2, <3>3 DEF PadSet
  <2>4. CASE ins.op # "invoke"
    <3>1. \A j \in 1..Len(ins.to) : ins.to[j] \in (2..Len(blocks)) \ PadSet
      BY <2>2, <2>4 DEF Apt
    <3>2. QED
      BY <1>4, <2>2, <2>4, <3>1
  <2>5. QED
    BY <2>3, <2>4
<1>7. ModuleWellFormed
  <2> SUFFICES ASSUME status = "done", NEW b \in 1..Len(blocks)
               PROVE  /\ HasTerminator(blocks, b)
                      /\ \A i \in DOMAIN blocks[b] :
                           /\ IsTerminator(blocks[b][i]) => i = Len(blocks[b])
                           /\ blocks[b][i].op = "landingpad" => i = 1
                           /\ \A j \in DOMAIN blocks[b][i].to : blocks[b][i].to[j] # 1
    BY DEF ModuleWellFormed, WellFormed, BlockIds
  <2>1. HasTerminator(blocks, b)
    BY DEF ClaimInv, OpenBlocks
  <2>2. ASSUME NEW i \in DOMAIN blocks[b], NEW ins, ins = blocks[b][i],
               NEW j \in DOMAIN ins.to
        PROVE  ins.to[j] # 1
    <3>1. i \in 1..Len(blocks[b])
      BY <1>2
    <3>2. Apt(ins, Len(blocks), PadSet) /\ j \in 1..Len(ins.to)
      BY <1>2, <2>2, <3>1
    <3>3. CASE ins.op = "invoke"
      <4>1. j \in {1, 2} /\ ins.to[1] \in 2..Len(blocks) /\ ins.to[2] \in 2..Len(blocks)
        <5>1. Len(ins.to) = 2 /\ ins.to[1] \in (2..Len(blocks)) \ PadSet /\ ins.to[2] \in PadSet
          BY <3>2, <3>3 DEF Apt
        <5>2. j \in {1, 2}
          BY <3>2, <5>1
        <5>3. QED
          BY <1>1, <5>1, <5>2
      <4>2. QED
        BY <1>1, <4>1
    <3>4. CASE ins.op # "invoke"
      <4>1. ins.to[j] \in 2..Len(blocks)
        BY <3>2, <3>4 DEF Apt
      <4>2. QED
        BY <1>1, <4>1
    <3>5. QED
      BY <3>3, <3>4
  <2>3. QED
    BY <1>2, <2>1, <2>2
<1>8. QED
  BY <1>5, <1>6, <1>7 DEF CfgWellFormed

\* What function_set_body makes of bodies that can be derived and laid out, and in
\* which no case of a switch falls through to the next one, is a control flow graph
\* the verifier takes: nothing is put behind a transfer of control, every
\* invoke has a landing pad and nothing else goes to one, and in the end every block
\* is closed, the blocks of all the labels among them.
THEOREM CfgStaysWellFormed ==
  ASSUME \A t \in Trees : \E s, r :
            BodyDerived(s, t) /\ SwitchesClose(s) /\ BodyLaid(r, t)
  PROVE  Spec => []CfgWellFormed
<1> DEFINE IInv == /\ TypeOK
                   /\ \E s, r : FlowInv(s) /\ SwitchesClose(s) /\ CodeInv /\ ClaimInv(r)
<1>1. Init => IInv
  <2> SUFFICES ASSUME Init PROVE IInv
    OBVIOUS
  <2>1. PICK s, r : BodyDerived(s, tree) /\ SwitchesClose(s) /\ BodyLaid(r, tree)
    BY DEF Init
  <2>2. TypeOK
    BY TypeInit
  <2>3. FlowInv(s)
    BY <2>1, FlowInit
  <2>4. CodeInv /\ ClaimInv(r)
    BY <2>1, <2>2, CfgInit
  <2>5. QED
    BY <2>1, <2>2, <2>3, <2>4
<1>2. IInv /\ [Next]_vars => IInv'
  <2> SUFFICES ASSUME IInv, [Next]_vars PROVE IInv'
    OBVIOUS
  <2>1. PICK s, r : FlowInv(s) /\ SwitchesClose(s) /\ CodeInv /\ ClaimInv(r)
    OBVIOUS
  <2>2. TypeOK' /\ FlowInv(s)'
    BY <2>1, TypeStep, FlowNext
  <2>3. status' # "aborted"
    BY <2>2 DEF FlowInv
  <2>4. CodeInv' /\ ClaimInv(r)'
    BY <2>1, <2>3, CfgNext
  <2>5. QED
    BY <2>1, <2>2, <2>4
<1>3. IInv => CfgWellFormed
  BY CfgImplied
<1>4. QED
  BY <1>1, <1>2, <1>3, PTL DEF Spec
=============================================================================

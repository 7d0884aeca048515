------------------------ MODULE MCGenBlocksIrregular ------------------------
(***************************************************************************)
(* A tree that the other instance leaves out because GenBlocks does not     *)
(* handle it: a switch case that ends without a goto ("fallthrough") in     *)
(* another block than it started in.                                        *)
(***************************************************************************)
EXTENDS GenBlocksTraces, StmtTrees

Labels == {1}

AnIf == If(CallExpr(1), Block(<<Call(2)>>), Block(<<>>))

\* switch f() { case 0: if ... {...}; fallthrough  case 1: h() }
FallthroughTrees ==
  {Block(<<Switch(CallExpr(3),
                  <<Block(<<AnIf>>), Block(<<Call(4), Goto(1)>>)>>, 0),
           LabelDef(1), Return(TRUE)>>)}

FallthroughNodes == UNION {SubNodes(t) : t \in FallthroughTrees}
=============================================================================

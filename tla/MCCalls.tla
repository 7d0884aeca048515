-------------------------------- MODULE MCCalls --------------------------------
(***************************************************************************)
(* A call and its callee, for every signature of at most two parameters and *)
(* some that use up the registers; builtin functions have a call only.  The *)
(* callee's body begins with every kind of instruction or none, and it may  *)
(* have one local variable or temporary.                                    *)
(***************************************************************************)
EXTENDS Calls, SignatureShapes

MCSignature ==
  {s \in ShortSignatures : /\ s.result \in {"void", "agg", "is", "mem"}
                           /\ s.cabi \/ Len(s.params) < 2}
  \cup {s \in LongSignatures : s.params[Len(s.params)] \in {"i8", "ss"}}
AllEntryCode == {<<>>, <<Op>>, <<Terminator>>, <<Op, Terminator>>}
=============================================================================

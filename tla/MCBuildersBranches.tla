--------------------------- MODULE MCBuildersBranches ---------------------------
(***************************************************************************)
(* A frontend that uses an expression in both branches of an if statement   *)
(* and relies on the backend to unshare it.                                 *)
(***************************************************************************)
EXTENDS MCBuilders

MCBranches == {
  Asking({"var", "if", "field", "statement", "indirect"}, {"StructField"}, {1, 4}, 8)}
=============================================================================

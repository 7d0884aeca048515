---------------------------- MODULE MCTypesRedirect ----------------------------
(***************************************************************************)
(* A frontend that redirects placeholders for pointer types to others that  *)
(* are placeholders themselves.                                             *)
(***************************************************************************)
EXTENDS DebugTypes

RedirectingFrontend ==
  {[request |-> {"pointer", "placeholder_pointer"}, maxTypes |-> 5, maxCycle |-> 1]}
=============================================================================

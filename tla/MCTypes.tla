-------------------------------- MODULE MCTypes --------------------------------
(***************************************************************************)
(* Frontends that ask for a few kinds of types each, so that what they do   *)
(* with them is explored further than for one that asks for everything.     *)
(***************************************************************************)
EXTENDS DebugTypes, TypeSizes

Asks(request, maxTypes, maxCycle) ==
  [request |-> request, maxTypes |-> maxTypes, maxCycle |-> maxCycle]

MCFrontend == {
  Asks(Requests \ {"circular", "named", "debug"}, 4, 1),
  Asks({"named", "pointer", "struct", "debug"}, 4, 1),
  Asks({"pointer", "struct", "array", "placeholder_struct", "debug"}, 4, 1),
  Asks({"pointer", "array", "placeholder_pointer", "placeholder_array", "again"}, 5, 1),
  Asks({"pointer", "struct", "placeholder_pointer"}, 5, 1),
  Asks({"pointer", "function", "placeholder_pointer"}, 5, 1),
  Asks({"named", "placeholder_pointer", "again"}, 4, 1),
  Asks({"named", "function", "placeholder_pointer"}, 5, 1),
  Asks({"pointer", "placeholder_pointer", "circular", "debug"}, 5, 2)}
=============================================================================

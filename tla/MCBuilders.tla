------------------------------- MODULE MCBuilders -------------------------------
(***************************************************************************)
(* Frontends that ask for a few kinds of expressions and statements each.  *)
(***************************************************************************)
EXTENDS Emission

Var(type, name, global) == [type |-> type, means |-> <<"var", name>>, global |-> global]
MCVariables == <<
  Var(TInt, "i", FALSE), Var(PtrTo(TInt), "p", FALSE), Var(TStruct, "s", FALSE),
  Var(PtrTo(TStruct), "q", FALSE), Var(TWide, "w", FALSE), Var(TArray, "a", FALSE),
  Var(TNest, "n", FALSE), Var(TInt, "gi", TRUE), Var(TStruct, "gs", TRUE)>>

Asking(asks, reuse, vars_, requests_) ==
  [asks |-> asks, reuse |-> reuse, vars |-> vars_, requests |-> requests_]

MCFrontend == {
  \* pointers and addresses
  Asking({"var", "place", "indirect", "address", "assignment"}, {}, {1, 2}, 5),
  Asking({"var", "place", "indirect", "field", "assignment", "address"}, {}, {3, 4}, 5),
  \* a load that is used twice
  Asking({"var", "indirect", "binary", "statement", "list"}, {"Deref"}, {2}, 7),
  Asking({"var", "indirect", "field", "binary", "init", "list"}, {"Var", "Deref", "StructField"}, {1, 4}, 5),
  \* composites
  Asking({"var", "place", "composite", "assignment", "init", "field"}, {"Var"}, {1, 3}, 5),
  Asking({"constant", "var", "composite", "init", "return"}, {"Var"}, {1, 3}, 5),
  Asking({"var", "call", "composite", "init", "list"}, {"Var"}, {1, 6}, 5),
  Asking({"var", "composite", "init", "list"}, {"Var"}, {3, 7}, 5),
  \* control
  Asking({"constant", "var", "if", "list", "call", "statement"}, {"Var"}, {1}, 6),
  Asking({"var", "conditional", "compound", "init", "statement"}, {"Var"}, {1}, 5),
  \* operators and globals
  Asking({"constant", "var", "index", "offset", "unary", "convert", "return"}, {"Var"}, {2, 6, 8}, 5),
  Asking({"var", "place", "binary", "assignment", "address", "indirect"}, {"Var"}, {8, 9}, 5),
  \* what failed before
  Asking({"error", "var", "address", "indirect", "convert", "field", "index", "offset", "unary", "binary",
          "composite", "call", "conditional", "compound", "statement", "init", "assignment", "return",
          "if", "list"}, {}, {1}, 3)}
=============================================================================

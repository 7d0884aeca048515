---------------------------- MODULE SignatureShapes ----------------------------
(***************************************************************************)
(* Types and function types for model checking CABIOracle: one type for     *)
(* each way to be passed.  "i" and "s" stand for an eightbyte in an integer *)
(* and in an SSE register; "i8" is a small integer, "agg" a struct in one   *)
(* piece, "mem" an object of more than 16 bytes.                            *)
(***************************************************************************)
EXTENDS Naturals, Sequences

Types == {"void", "empty", "i", "i8", "s", "agg", "ii", "is", "si", "ss", "mem"}

SizeOf == [t \in Types |-> CASE t \in {"void", "empty"} -> 0
                             [] t = "i8"                -> 1
                             [] t \in {"i", "s", "agg"} -> 8
                             [] t = "mem"               -> 24
                             [] OTHER                   -> 16]
RegionsOf == [t \in Types |-> CASE t \in {"i", "i8", "agg"} -> <<"int">>
                                [] t = "s"                  -> <<"sse">>
                                [] t = "ii" -> <<"int", "int">>
                                [] t = "is" -> <<"int", "sse">>
                                [] t = "si" -> <<"sse", "int">>
                                [] t = "ss" -> <<"sse", "sse">>
                                [] OTHER    -> <<>>]
ExtensionOf == [t \in Types |-> IF t = "i8" THEN "sext" ELSE "none"]
IsAggregate == [t \in Types |-> t \in {"empty", "agg", "ii", "is", "si", "ss", "mem"}]

Sig(params, result, cabi) == [params |-> params, result |-> result, cabi |-> cabi]

Upto(S, n) == UNION {[1..k -> S] : k \in 0..n}
ParamTypes == Types \ {"void"}

\* Every list of at most two parameters, with every result.
ShortSignatures ==
  {Sig(ps, r, c) : ps \in Upto(ParamTypes, 2), r \in Types, c \in BOOLEAN}

\* Lists that bring the registers to their end, with two more parameters.
Exhausting == {<<"ii", "ii">>, <<"ii", "i", "is">>, <<"mem", "i", "i", "ii", "i">>,
               <<"ss", "ss", "ss", "s">>, <<"ss", "ss", "ss", "ss">>,
               <<"si", "is", "ss", "ss", "si">>}
LongSignatures ==
  {Sig(e \o ps, r, TRUE) : e \in Exhausting, ps \in [1..2 -> ParamTypes],
                           r \in {"void", "mem"}}
=============================================================================

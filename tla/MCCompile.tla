------------------------------- MODULE MCCompile -------------------------------
(* Each plan uses one or two parts of the system.                              *)
EXTENDS Compile

Usual == [target |-> TRUE, level |-> TRUE, output |-> TRUE, canOpen |-> TRUE,
          backend |-> TRUE, verify |-> TRUE, fileType |-> TRUE]
MCOptions == {Usual} \cup {[Usual EXCEPT ![o] = FALSE] : o \in DOMAIN Usual}

\* Builtin functions by both their names, and one that shares the symbol of another.
MCDeclared == {"h"}
MCDefined == {"f", "g"}
MCGlobals == {"v"}
MCReferences == {"r"}
MCLookups == {"__builtin_ctz", "ctz", "__builtin_ctzll", "__builtin_sin", "sin"}

MCChunks == {<<>>, <<"nul", "digit">>, <<"backslash", "newline">>, <<"quote", "plain">>}

MCPlans == {{"symbols"}, {"build"}, {"export"}, {"errors", "export"}, {"install"}}
=============================================================================

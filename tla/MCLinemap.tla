------------------------------ MODULE MCLinemap ------------------------------
(***************************************************************************)
(* Two files, which may be started again after one another, lines and       *)
(* columns of one to three bytes, and up to four locations.                 *)
(***************************************************************************)
EXTENDS Linemap

Files == {"foo.go", "bar.go"}
Lines == {1, 16384}
Columns == {127, 300}
=============================================================================

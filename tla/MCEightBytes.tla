----------------------------- MODULE MCEightBytes -----------------------------
(***************************************************************************)
(* Scalars; structs of up to four fields that are scalars, small structs   *)
(* or arrays; and the arrays the division is made for, whose regions do not *)
(* depend on more than the first offset past a boundary.                    *)
(***************************************************************************)
EXTENDS EightBytes

Integral == {Int(1), Uint(2), Int(4), Uint(8)}
ScalarTypes == Integral \cup {Int(2), Uint(1), Float(4), Float(8), Pointer}
FieldTypes ==
  {Int(1), Uint(2), Int(4), Int(8), Float(4), Float(8), Pointer, Struct(<<>>),
   Struct(<<Int(4), Uint(1)>>), Struct(<<Float(4), Int(2)>>),
   Struct(<<Float(8)>>), Array(Uint(1), 3), Array(Uint(2), 5), Array(Float(4), 2),
   Array(Struct(<<Int(2), Uint(1)>>), 2)}

FourFields == {Int(1), Uint(2), Int(4), Float(4), Int(8)}

Structs == {Struct(<<f>>) : f \in FieldTypes}
           \cup {Struct(<<f, g>>) : f, g \in FieldTypes}
           \cup {Struct(<<f, g, h>>) : f, g, h \in FieldTypes}
           \cup {Struct(<<f, g, h, i>>) : f, g, h, i \in FourFields}

\* Arrays within one eightbyte, or with one or two elements in the first.
Arrays == {Array(Int(1), n) : n \in 1..8} \cup {Array(Uint(2), n) : n \in 1..4}
          \cup {Array(Int(4), n) : n \in 1..4} \cup {Array(Float(4), n) : n \in 1..4}
          \cup {Array(Float(8), n) : n \in 1..2} \cup {Array(Pointer, n) : n \in 1..2}
          \cup {Array(Struct(<<Int(4), Uint(1)>>), n) : n \in 1..2}
          \cup {Array(Array(Uint(2), 2), n) : n \in 1..4}

AllTypes == ScalarTypes \cup Structs \cup Arrays

\* More elements below 8 bytes than two, in an array of more than 8 bytes.
LongArrays == {Array(Uint(2), 6)}
=============================================================================

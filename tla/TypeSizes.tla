------------------------------- MODULE TypeSizes -------------------------------
(***************************************************************************)
(* The size of a type, which the frontend asks for also while placeholders  *)
(* are left in it.                                                          *)
(***************************************************************************)
EXTENDS Types

\* Sizes, in words.  An array has two elements.
Unsized == -1
SumOf(sizes) == IF \E i \in DOMAIN sizes : sizes[i] = Unsized THEN Unsized
                ELSE FoldFunction(+, 0, sizes)
Twice(size) == IF size = Unsized THEN Unsized ELSE 2 * size

\* What LLVM knows of a type.
RECURSIVE LLSize(_)
LLSize(l) ==
  CASE l[1] \in {"int", "ptr"} -> 1
    [] l[1] = "array"    -> Twice(LLSize(l[2]))
    [] l[1] = "literal"  -> SumOf([i \in DOMAIN l[2] |-> LLSize(l[2][i])])
    [] l[1] = "function" -> Unsized
    [] l[1] = "struct"   -> IF l[2] \in DOMAIN body
                            THEN SumOf([i \in DOMAIN body[l[2]] |-> LLSize(body[l[2]][i])])
                            ELSE Unsized

\* Mutant of ProxySize: what a struct is made of counts for a word each.
FlatProxySize(t) ==
  IF LLSize(types[t].ll) # Unsized THEN LLSize(types[t].ll) ELSE Len(types[t].to)

\* placeholderProxyType: a type of the same size for one LLVM knows no size of.  A
\* function type counts as a pointer to it.
RECURSIVE ProxySize(_)
ProxySize(t) ==
  IF LLSize(types[t].ll) # Unsized THEN LLSize(types[t].ll)
  ELSE CASE types[t].flavor \in {"PointerT", "FunctionT"} -> 1
         [] types[t].flavor = "ArrayT"  -> Twice(ProxySize(types[t].to[1]))
         [] types[t].flavor = "StructT" ->
              SumOf([i \in DOMAIN types[t].to |-> ProxySize(types[t].to[i])])

\* typeSize
TypeSize(t) ==
  IF LLSize(types[t].ll) # Unsized THEN LLSize(types[t].ll) ELSE ProxySize(t)

\* The frontend asks for a size when every struct and array in the type has been set.
MayAskSize(t) ==
  \A u \in Within(t, {"StructT", "ArrayT"}) :
     types[u].flavor \in {"StructT", "ArrayT"} => types[u].to # <<>>

\* A size that was answered while there were placeholders left is the size of the type
\* that is made when they are completed (the note above typeSize).
SizesStay ==
  [][\A t \in Ids : MayAskSize(t) => TypeSize(t)' = TypeSize(t)]_<<types, body>>
=============================================================================

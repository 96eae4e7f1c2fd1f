----------------------------- MODULE MCComposer -----------------------------
(* A host with one directory below the root and one file there, which is    *)
(* also the directory of the one thread there is.  Jobs are interchangeable.*)
EXTENDS Composer

MCTree == {<<>>, <<"src">>}
MCHostFiles == {<<"src", "main">>}
MCCwdOf == [t \in {9} |-> <<"src">>]
Symmetry == Permutations(Jobs)
=============================================================================

--------------------------- MODULE MCLibraryList ---------------------------
(* Instances of LibraryList for TLC.                                       *)
EXTENDS LibraryList

\* Two libraries: libfoo.so needs libbar.so and liblog.so, libbar.so needs
\* liblog.so.
NeededFoo == [foo |-> <<"bar", "log">>, bar |-> <<"log">>]

\* The list before any library is loaded.
Base3 == <<"exe", "linker", "libc">>

Symmetry == Permutations(Threads)
=============================================================================

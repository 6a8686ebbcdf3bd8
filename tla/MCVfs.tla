-------------------------------- MODULE MCVfs --------------------------------
(***************************************************************************)
(* Two threads, two assets drivers that can be stacked, a sibling name that *)
(* begins like a mount point, and tables small enough to fill up.          *)
(***************************************************************************)
EXTENDS VfsFiles, TLC

ThreadSymmetry == Permutations(Threads)
MCNamePrefix == {<<"a", "ab">>}
MCMountPoints == {<<"a">>, <<"a", "x">>}
MCDirectories == {<<>>, <<"a">>, <<"ab">>}
MCOpenArgs == {[abs |-> TRUE, parts |-> <<"a", "..", "ab">>],
               [abs |-> FALSE, parts |-> <<"x">>]}
MCChdirArgs == {[abs |-> TRUE, parts |-> <<"a">>], [abs |-> FALSE, parts |-> <<"..">>]}
=============================================================================

---------------------------- MODULE MCAoEService ----------------------------
(***************************************************************************)
(* Instances of AoEService for TLC.                                        *)
(***************************************************************************)
EXTENDS AoEService, TLC

OneShelf == {1}
CommandsOnly == {1}
CommandsAndSearches == {1, Broadcast}

\* Ports are interchangeable: nothing in AoEService orders them.
PortSymmetry == Permutations(Interfaces)

=============================================================================

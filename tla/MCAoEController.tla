--------------------------- MODULE MCAoEController ---------------------------
(***************************************************************************)
(* Instances of AoEController for TLC.                                     *)
(***************************************************************************)
EXTENDS AoEController

OnePort == {0}
TwoPorts == {0, 1}
OneOrTwo == {1, 2}
One == {1}

Read(lba, n) == [kind |-> "read", extended |-> TRUE, lba |-> lba, sectors |-> n]
Write(lba, n) == [kind |-> "write", extended |-> TRUE, lba |-> lba, sectors |-> n]
Flush == [kind |-> "faked", extended |-> FALSE, lba |-> 0, sectors |-> 0]

NoCommands == {}
\* Transfers of more than one packet, with and without a left-over one.
Transfers == {Read(10, 3), Write(20, 3)}
Faked == {Flush}
ReadTwo == {Read(10, 2)}
WriteThree == {Write(20, 3)}

=============================================================================

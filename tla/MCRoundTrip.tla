------------------------------ MODULE MCRoundTrip ------------------------------
(***************************************************************************)
(* An instance of RoundTrip for TLC: ints of 8 bits.                       *)
(***************************************************************************)
EXTENDS RoundTrip

SomeTimes == {0, 3, 12, 25, 200}

=============================================================================

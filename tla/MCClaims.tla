------------------------------- MODULE MCClaims -------------------------------
(***************************************************************************)
(* An instance of Claims for TLC.                                          *)
(***************************************************************************)
EXTENDS Claims

ClaimFirst == [kind |-> "claim", todo |-> <<1>>]
UnclaimBoth == [kind |-> "unclaim", todo |-> <<1, 2>>]

ClaimAndUnclaim == {ClaimFirst, UnclaimBoth}

=============================================================================

----------------------------- MODULE EInterfaces -----------------------------
(***************************************************************************)
(* The congestion-control state the driver keeps for one Ethernet port     *)
(* (EInterface.cpp) and the operations EInterfaces.cpp performs on it.     *)
(* Every operation of the code first finds the port whose m_ifnet is the   *)
(* ifnet_t it was given; here it takes the record of that port and returns *)
(* the new one.  The state machine that owns the records is AoEService.    *)
(***************************************************************************)
EXTENDS Integers

CONSTANTS
  Shelves,          \* the shelves (AoE major addresses) targets live on
  DefaultWindow     \* DEFAULT_CONGESTION_WINDOW, 128 in the code

ASSUME DefaultWindowAssumption == DefaultWindow \in Nat \ {0}

MIN(a, b) == IF a < b THEN a ELSE b
MAX(a, b) == IF a > b THEN a ELSE b

\* lastSend stands for m_TimeSinceLastSend: zero ("never"), or the kind of the
\* packet that was sent at that time.
InterfaceState ==
  [enabled     : BOOLEAN,           \* m_fEnabled, and m_ifnet # 0
   outstanding : Int,               \* m_nOutstandingCount
   cwnd        : Nat \ {0},        \* m_nCwd
   frac        : Nat,               \* m_nCwdFractional
   ssthresh    : Nat,               \* m_nSSThresh
   max         : [Shelves -> Nat],  \* m_anMaxOutstanding
   min         : Nat,               \* m_nMinimumMaxOutstanding
   lastSend    : {"never", "command", "broadcast"}]

EInterface ==
  [enabled     |-> FALSE,
   outstanding |-> 0,
   cwnd        |-> 1,
   frac        |-> 0,
   ssthresh    |-> DefaultWindow \div 2,
   max         |-> [s \in Shelves |-> 0],
   min         |-> DefaultWindow,
   lastSend    |-> "never"]

set_max_outstanding(f, shelf, n) ==
  [f EXCEPT !.max[shelf] = n, !.min = MIN(@, n)]

\* A mutant: the fractional part survives a collapse of the window.
set_cwnd_keeps_fraction(f, n) == [f EXCEPT !.cwnd = n]

set_cwnd(f, n) == [f EXCEPT !.cwnd = n, !.frac = 0]

set_ssthresh(f, n) == [f EXCEPT !.ssthresh = n]

\* The fraction counts replies; cwnd of them make one more packet of window.
grow_cwnd(f, int, fractional) ==
  LET cwnd == f.cwnd + int
      frac == f.frac + fractional
  IN  IF frac >= cwnd
        THEN [f EXCEPT !.cwnd = cwnd + (frac \div f.cwnd), !.frac = frac % f.cwnd]
        ELSE [f EXCEPT !.cwnd = cwnd, !.frac = frac]

\* Slow start below ssthresh, one packet per window of replies above it.
grow_on_reply(f) ==
  IF f.cwnd < f.ssthresh THEN grow_cwnd(f, 1, 0) ELSE grow_cwnd(f, 0, 1)

\* A mutant: the window is halved, down to nothing, instead of restarted.
halve_on_timeout(f) == set_cwnd(f, f.cwnd \div 2)

\* What a retransmission timeout does to the port it happened on.
shrink_on_timeout(f) == set_cwnd(set_ssthresh(f, MAX(f.cwnd \div 2, 1)), 1)

\* The congestion state of a port that starts afresh: enabled by the user, or
\* found idle.
restart(f) ==
  [set_ssthresh(set_cwnd(f, 1), f.min \div 2) EXCEPT !.outstanding = 0]

enable_interface(f) == [restart(f) EXCEPT !.enabled = TRUE]

interface_disconnected(f) == [f EXCEPT !.enabled = FALSE]

interface_reconnected(f) == [f EXCEPT !.enabled = TRUE]

reset_if_idle(f) == restart(f)

=============================================================================

-------------------------- MODULE EInterfacesProofs --------------------------
(***************************************************************************)
(* What every operation on a port preserves, for every buffer count a      *)
(* target may announce and every default window: the fields keep their     *)
(* ranges, the window never drops below one packet, and the fraction stays *)
(* below the window, so that the division in grow_cwnd is never by zero    *)
(* and never adds more than one packet.                                    *)
(***************************************************************************)
EXTENDS EInterfaces, TLAPS

WellFormed(f) == f \in InterfaceState /\ f.frac < f.cwnd

USE DefaultWindowAssumption

\* The constructor of EInterface.
LEMMA EInterfaceWellFormed == WellFormed(EInterface)
  BY SMTT(30) DEF WellFormed, InterfaceState, EInterface

\* A window and its fraction are always assigned together.
LEMMA WindowWellFormed ==
  ASSUME NEW f \in InterfaceState, NEW c \in Nat \ {0}, NEW r \in Nat, r < c
  PROVE  WellFormed([f EXCEPT !.cwnd = c, !.frac = r])
<1> DEFINE g == [f EXCEPT !.cwnd = c]
           h == [f EXCEPT !.cwnd = c, !.frac = r]
<1>1. g \in InterfaceState
  BY DEF InterfaceState
<1>2. h = [g EXCEPT !.frac = r]
  BY DEF InterfaceState
<1>3. h \in InterfaceState
  BY <1>1, <1>2 DEF InterfaceState
<1>4. h.cwnd = c /\ h.frac = r
  BY <1>2 DEF InterfaceState
<1>5. QED BY <1>3, <1>4 DEF WellFormed

\* set_cwnd and set_ssthresh with the values the driver passes.
LEMMA SetWindowWellFormed ==
  ASSUME NEW f \in InterfaceState, NEW n \in Nat \ {0}
  PROVE  WellFormed(set_cwnd(f, n))
<1>1. 0 \in Nat /\ 0 < n
  OBVIOUS
<1>2. QED BY <1>1, WindowWellFormed DEF set_cwnd

\* set_ssthresh keeps a port's state well-formed.
LEMMA SetThresholdWellFormed ==
  ASSUME NEW f, WellFormed(f), NEW n \in Nat
  PROVE  WellFormed(set_ssthresh(f, n))
  BY DEF WellFormed, InterfaceState, set_ssthresh

\* A target announces its buffer count.
LEMMA SetMaxWellFormed ==
  ASSUME NEW f, WellFormed(f), NEW shelf \in Shelves, NEW n \in Nat
  PROVE  WellFormed(set_max_outstanding(f, shelf, n))
<1>1. MIN(f.min, n) \in Nat
  BY DEF WellFormed, InterfaceState, MIN
<1>2. [f.max EXCEPT ![shelf] = n] \in [Shelves -> Nat]
  BY DEF WellFormed, InterfaceState
<1>3. QED BY <1>1, <1>2 DEF WellFormed, InterfaceState, set_max_outstanding

\* An answer widens the window: by one packet, or by a fraction that may add up
\* to one.
LEMMA GrowWellFormed ==
  ASSUME NEW f, WellFormed(f)
  PROVE  WellFormed(grow_on_reply(f))
<1>1. f.cwnd \in Nat \ {0} /\ f.frac \in Nat /\ f.frac < f.cwnd
  BY DEF WellFormed, InterfaceState
<1>2. f.cwnd \div f.cwnd = 1 /\ f.cwnd % f.cwnd = 0
  BY <1>1, SMTT(30)
<1>3. WellFormed(grow_cwnd(f, 1, 0))
  <2>1. f.cwnd + 1 \in Nat \ {0} /\ f.frac + 0 < f.cwnd + 1 /\ f.frac + 0 \in Nat
    BY <1>1
  <2>2. WellFormed([f EXCEPT !.cwnd = f.cwnd + 1, !.frac = f.frac + 0])
    BY <2>1, WindowWellFormed DEF WellFormed
  <2>3. ~(f.frac + 0 >= f.cwnd + 1)
    BY <1>1
  <2>4. QED BY <2>2, <2>3 DEF grow_cwnd
<1>4. WellFormed(grow_cwnd(f, 0, 1))
  <2> DEFINE c == f.cwnd + 0
             r == f.frac + 1
  <2>1. CASE r >= c
    <3>1. r = f.cwnd
      BY <1>1, <2>1
    <3>2. c + (r \div f.cwnd) \in Nat \ {0} /\ r % f.cwnd = 0 /\ 0 < c + (r \div f.cwnd)
      BY <1>1, <1>2, <3>1
    <3>3. WellFormed([f EXCEPT !.cwnd = c + (r \div f.cwnd), !.frac = r % f.cwnd])
      BY <3>2, WindowWellFormed DEF WellFormed
    <3>4. QED BY <2>1, <3>3 DEF grow_cwnd
  <2>2. CASE ~(r >= c)
    <3>1. c \in Nat \ {0} /\ r \in Nat /\ r < c
      BY <1>1, <2>2
    <3>2. WellFormed([f EXCEPT !.cwnd = c, !.frac = r])
      BY <3>1, WindowWellFormed DEF WellFormed
    <3>3. QED BY <2>2, <3>2 DEF grow_cwnd
  <2>3. QED BY <2>1, <2>2
<1>5. QED BY <1>3, <1>4 DEF grow_on_reply

\* A retransmission timeout: the window restarts at one packet.
LEMMA ShrinkWellFormed ==
  ASSUME NEW f, WellFormed(f)
  PROVE  WellFormed(shrink_on_timeout(f))
<1>1. MAX(f.cwnd \div 2, 1) \in Nat
  BY DEF WellFormed, InterfaceState, MAX
<1>2. WellFormed(set_ssthresh(f, MAX(f.cwnd \div 2, 1)))
  BY <1>1, SetThresholdWellFormed
<1>3. QED BY <1>2, SetWindowWellFormed DEF shrink_on_timeout, WellFormed

\* A port that starts afresh.
LEMMA RestartWellFormed ==
  ASSUME NEW f, WellFormed(f)
  PROVE  WellFormed(restart(f))
<1>1. f.min \div 2 \in Nat
  BY DEF WellFormed, InterfaceState
<1>2. f \in InterfaceState /\ 1 \in Nat \ {0}
  BY DEF WellFormed
<1>3. WellFormed(set_cwnd(f, 1))
  BY <1>2, SetWindowWellFormed
<1>4. WellFormed(set_ssthresh(set_cwnd(f, 1), f.min \div 2))
  BY <1>1, <1>3, SetThresholdWellFormed
<1>5. QED BY <1>4 DEF restart, WellFormed, InterfaceState

\* Ports that come, go and come back.
LEMMA EnabledWellFormed ==
  ASSUME NEW f, WellFormed(f)
  PROVE  /\ WellFormed(enable_interface(f))
         /\ WellFormed(interface_disconnected(f))
         /\ WellFormed(interface_reconnected(f))
         /\ WellFormed(reset_if_idle(f))
<1>1. WellFormed(restart(f))
  BY RestartWellFormed
<1>2. WellFormed(enable_interface(f))
  BY <1>1 DEF enable_interface, WellFormed, InterfaceState
<1>3. WellFormed(interface_disconnected(f)) /\ WellFormed(interface_reconnected(f))
  BY DEF interface_disconnected, interface_reconnected, WellFormed, InterfaceState
<1>4. QED BY <1>1, <1>2, <1>3 DEF reset_if_idle

\* The count of outstanding packets moves by whole packets.
LEMMA OutstandingWellFormed ==
  ASSUME NEW f, WellFormed(f), NEW n \in Int
  PROVE  WellFormed([f EXCEPT !.outstanding = n])
  BY DEF WellFormed, InterfaceState

=============================================================================

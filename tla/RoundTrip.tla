------------------------------- MODULE RoundTrip -------------------------------
(***************************************************************************)
(* How long a packet is waited for (AoEService.cpp): update_rto estimates  *)
(* the round trip time and its deviation after V. Jacobson with ints of    *)
(* limited width, get_rto_us makes the timeout of a packet of it,          *)
(* resend_packet that of its copies.  A search has no timeout: it is not   *)
(* sent again, but measured if the timer does not drop it first.           *)
(***************************************************************************)
EXTENDS Integers

CONSTANTS
  H,                \* ints go from -H to H - 1, UInt64s to (2H)^2 - 1
  Unit,             \* nanoseconds per microsecond
  RTO_MIN_NS, RTO_MAX_NS,
  MAX_RETRANSMIT_TIMEOUT_US,
  Times,            \* the round trip times there are, in nanoseconds
  Steady            \* bound: how many equal times in a row are counted

ASSUME RoundTripAssumption ==
  /\ H \in Nat /\ Unit \in Nat \ {0}
  /\ Times \subseteq Nat
  /\ RTO_MIN_NS \in Nat /\ RTO_MAX_NS \in Nat /\ MAX_RETRANSMIT_TIMEOUT_US \in Nat \ {0}
  /\ Unit <= RTO_MIN_NS /\ RTO_MIN_NS <= RTO_MAX_NS /\ RTO_MAX_NS < H
  /\ MAX_RETRANSMIT_TIMEOUT_US < H
  /\ Steady \in Nat \ {0}

VARIABLES
  avg,      \* m_nScaledRTTavg
  var,      \* m_nScaledRTTvar
  rto,      \* m_nRTO_ns
  packet,   \* "none", "sent", "resent", or "search": sent without a timeout
  timeout,  \* RetransmitTime_us of the packet
  rtt,      \* history: the last round trip time that was measured, -1 before
  longest,  \* history: the longest so far
  streak    \* history: how many of the last ones measured were equal

vars == <<avg, var, rto, packet, timeout, rtt, longest, streak>>

Ints == -H..(H - 1)
UInt64s == 0..(4 * H * H - 1)

\* What an int, or a UInt64, keeps of a number.
AsInt(x) == IF x \in Ints THEN x ELSE ((x + H) % (2 * H)) - H
AsUInt64(x) == IF x \in UInt64s THEN x ELSE x % (4 * H * H)

larger(x, y) == IF x > y THEN x ELSE y
smaller(x, y) == IF x < y THEN x ELSE y

\* Rounded.
CONVERT_NS_TO_US(ns) == AsUInt64(ns + (Unit \div 2)) \div Unit

\* A mutant: the timeout has no minimum.
no_minimum == CONVERT_NS_TO_US(rto)

get_rto_us == CONVERT_NS_TO_US(larger(rto, RTO_MIN_NS))

Init ==
  /\ avg = 0 /\ var = 0
  /\ rto = RTO_MAX_NS
  /\ packet = "none" /\ timeout = 0
  /\ rtt = -1 /\ longest = 0 /\ streak = 0

\* A mutant: the deviation is scaled like the average.
update_slowly(t) ==
  LET err == AsInt(t - avg)
      size == IF err < 0 THEN AsInt(- err) ELSE err
  IN  /\ avg' = AsInt(avg + (err \div 8))
      /\ var' = AsInt(var + (AsInt(size - var) \div 8))
      /\ rto' = AsUInt64(AsInt(avg' + AsInt(4 * var')))

\* A mutant: the average is kept scaled, as in the paper, and the timeout is not.
update_scaled(t) ==
  LET err == AsInt(t - (avg \div 8))
      size == IF err < 0 THEN AsInt(- err) ELSE err
  IN  /\ avg' = AsInt(avg + err)
      /\ var' = AsInt(var + (AsInt(size - var) \div 4))
      /\ rto' = AsUInt64(AsInt(avg' + AsInt(4 * var')))

\* t has 64 bits, its difference to the average is cut to an int.  Shifts to the
\* right round down.
update_rto(t) ==
  LET err == AsInt(t - avg)
      size == IF err < 0 THEN AsInt(- err) ELSE err
  IN  /\ avg' = AsInt(avg + (err \div 8))
      /\ var' = AsInt(var + (AsInt(size - var) \div 4))
      /\ rto' = AsUInt64(AsInt(avg' + AsInt(4 * var')))

\* fRetransmit: a packet of a command, or a search.
send_packet_on_interface(fRetransmit) ==
  /\ packet = "none"
  /\ packet' = IF fRetransmit THEN "sent" ELSE "search"
  /\ timeout' = IF fRetransmit THEN get_rto_us ELSE 0
  /\ UNCHANGED <<avg, var, rto, rtt, longest, streak>>

\* Only a packet that was sent once is measured.  The time it took is not bounded
\* by its timeout: the timer starts anew with each packet that is sent.
aoe_incoming(t) ==
  /\ packet \in {"sent", "search"}
  /\ packet' = "none"
  /\ update_rto(t)
  /\ rtt' = t /\ longest' = larger(t, longest)
  /\ streak' = IF t = rtt THEN smaller(streak + 1, Steady) ELSE 1
  /\ UNCHANGED timeout

aoe_incoming_resent ==
  /\ packet = "resent"
  /\ packet' = "none"
  /\ UNCHANGED <<avg, var, rto, timeout, rtt, longest, streak>>

\* RetransmitTimer: a packet whose timeout is 0 is dropped and not resent, and so
\* is one that is too old.
drop_packet ==
  /\ packet # "none"
  /\ packet' = "none"
  /\ UNCHANGED <<avg, var, rto, timeout, rtt, longest, streak>>

resend_packet ==
  /\ packet # "none" /\ timeout # 0
  /\ packet' = "resent"
  /\ timeout' = smaller(AsUInt64(2 * timeout), MAX_RETRANSMIT_TIMEOUT_US)
  /\ UNCHANGED <<avg, var, rto, rtt, longest, streak>>

Next ==
  \/ \E fRetransmit \in BOOLEAN : send_packet_on_interface(fRetransmit)
  \/ \E t \in Times : aoe_incoming(t)
  \/ aoe_incoming_resent \/ drop_packet \/ resend_packet

Spec == Init /\ [][Next]_vars

-----------------------------------------------------------------------------

\* No time so far was too long for the ints: 429 ms for 32 bits.
Fits == 5 * longest < H

\* Whatever the times were, as long as they fit nothing overflows: the average and
\* the deviation stay below the longest time, the timeout below five times that.
\* No packet of a command has a timeout of 0, with which the timer would drop it
\* instead of resending it (AoEService.cpp:1062-1069, 1515, 1678).
InRange ==
  Fits =>
    /\ avg \in 0..longest /\ var \in 0..longest
    /\ rto <= larger(RTO_MAX_NS, 5 * longest)
    /\ packet \in {"sent", "resent"} => timeout > 0

\* A packet that takes as long as the last one is not resent: the timeout is not
\* shorter than the last time, but for what the shifts drop
\* (AoEService.cpp:1063, 1067).
CoversLast == Fits /\ rtt # -1 => rto >= rtt - 3

\* Once Steady packets in a row took the same time the timeout is at that time,
\* whatever was measured before, also by ints that overflowed: what is waited in
\* vain for a lost packet is no more than necessary (AoEService.cpp:1061-1069).
Settled ==
  streak = Steady /\ rtt \in Ints => rto - rtt \in -3..28

=============================================================================

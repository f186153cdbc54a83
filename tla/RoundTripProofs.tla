---------------------------- MODULE RoundTripProofs ----------------------------
(***************************************************************************)
(* Proofs about RoundTrip, for ints of every width.                        *)
(*                                                                         *)
(* The inductive invariant: as long as the times fit, the average and the  *)
(* deviation do not exceed the longest one.  So no intermediate result of  *)
(* update_rto is cut, and what remains is the arithmetic of lemma Update.  *)
(***************************************************************************)
EXTENDS RoundTrip, TLAPS

\* A shift to the right drops less than what it divides by.
LEMMA Shift ==
  ASSUME NEW x \in Int
  PROVE  /\ x \div 8 \in Int /\ 8 * (x \div 8) <= x /\ x <= 8 * (x \div 8) + 7
         /\ x \div 4 \in Int /\ 4 * (x \div 4) <= x /\ x <= 4 * (x \div 4) + 3
  OBVIOUS

\* The widths: an int is an int, and what fits is not changed.
LEMMA Width ==
  /\ H \in Nat /\ H > 1
  /\ \A x \in Int : AsInt(x) \in Ints /\ AsUInt64(x) \in UInt64s
  /\ \A x \in Ints : AsInt(x) = x
  /\ \A x \in UInt64s : AsUInt64(x) = x
<1>1. H \in Nat /\ H > 1
  BY RoundTripAssumption
<1>2. ASSUME NEW x \in Int PROVE ((x + H) % (2 * H)) - H \in Ints
  BY <1>1 DEF Ints
<1>3. ASSUME NEW x \in Int PROVE x % (4 * H * H) \in UInt64s
  BY <1>1 DEF UInt64s
<1>4. QED
  BY <1>1, <1>2, <1>3 DEF AsInt, AsUInt64

\* One step of the estimate, without regard to widths: it stays below the longest
\* time L, and the timeout that comes of it covers the time that was measured.
LEMMA Update ==
  ASSUME NEW L \in Nat, NEW a \in 0..L, NEW v \in 0..L, NEW t \in 0..L,
         NEW size \in Int, size = IF t - a < 0 THEN - (t - a) ELSE t - a
  PROVE  LET a1 == a + ((t - a) \div 8)
             v1 == v + ((size - v) \div 4)
         IN  /\ size \in 0..L
             /\ a1 \in 0..L /\ v1 \in 0..L
             /\ a1 + 4 * v1 >= t - 3
             /\ a1 + 4 * v1 \in 0..(5 * L)
<1>1. size \in 0..L /\ t - a \in Int /\ size - v \in Int
  OBVIOUS
<1>2. PICK q \in Int : q = (t - a) \div 8 /\ 8 * q <= t - a /\ t - a <= 8 * q + 7
  BY <1>1, Shift
<1>3. PICK p \in Int : p = (size - v) \div 4 /\ 4 * p <= size - v /\ size - v <= 4 * p + 3
  BY <1>1, Shift
<1>4. a + q \in 0..L /\ v + p \in 0..L
  BY <1>1, <1>2, <1>3
<1>5. (a + q) + 4 * (v + p) >= t - 3
  BY <1>1, <1>2, <1>3
<1>6. QED
  BY <1>1, <1>2, <1>3, <1>4, <1>5

-----------------------------------------------------------------------------

\* The C types, the history, and the packets there are.
TypeOK ==
  /\ avg \in Ints /\ var \in Ints
  /\ rto \in UInt64s /\ timeout \in UInt64s
  /\ packet \in {"none", "sent", "resent", "search"}
  /\ rtt \in Times \union {-1} /\ longest \in Times \union {0}

\* What Fits adds to the types: InRange, and that timeouts can be doubled.
Bounded ==
  Fits =>
    /\ avg \in 0..longest /\ var \in 0..longest
    /\ rto <= larger(RTO_MAX_NS, 5 * longest)
    /\ packet \in {"sent", "resent"} => timeout > 0
    /\ timeout <= 2 * H

IInv == TypeOK /\ Bounded /\ CoversLast

\* The invariant holds of the estimates a driver starts with.
LEMMA InitInv == Init => IInv
<1> SUFFICES ASSUME Init PROVE IInv
  OBVIOUS
<1>1. TypeOK
  <2>1. RTO_MAX_NS \in UInt64s /\ 0 \in UInt64s /\ 0 \in Ints
    BY Width, RoundTripAssumption DEF Ints, UInt64s
  <2>2. QED
    BY <2>1 DEF TypeOK, Init
<1>2. Bounded /\ CoversLast
  BY Width, RoundTripAssumption DEF Bounded, CoversLast, Init, larger
<1>3. QED
  BY <1>1, <1>2 DEF IInv

\* CONVERT_NS_TO_US divides numbers that are not negative.
LEMMA Quotient ==
  ASSUME NEW x \in Nat, NEW d \in Nat \ {0}
  PROVE  x \div d \in 0..x /\ (x >= d => x \div d > 0)
OBVIOUS

\* The timeout of a packet that is sent while the times fit is neither 0 nor too
\* long to be doubled.
LEMMA Timeout ==
  ASSUME IInv
  PROVE  /\ get_rto_us \in UInt64s
         /\ Fits => get_rto_us > 0 /\ get_rto_us <= 2 * H
<1>1. /\ rto \in Nat /\ RTO_MIN_NS \in Nat /\ RTO_MAX_NS \in Nat
      /\ longest \in Nat
      /\ Unit \in Nat \ {0} /\ Unit <= RTO_MIN_NS /\ RTO_MIN_NS < H
  BY RoundTripAssumption, Width DEF IInv, TypeOK, UInt64s
<1>2. Unit \div 2 \in Nat /\ Unit \div 2 <= Unit
  BY <1>1
<1>3. PICK ns \in Nat : ns = larger(rto, RTO_MIN_NS)
  BY <1>1 DEF larger
<1>4. PICK sum \in Nat : sum = ns + (Unit \div 2)
  BY <1>2, <1>3
<1>5. sum >= Unit
  BY <1>1, <1>2, <1>3, <1>4 DEF larger
<1>6. get_rto_us = AsUInt64(sum) \div Unit
  BY <1>3, <1>4 DEF get_rto_us, CONVERT_NS_TO_US
<1>7. get_rto_us \in UInt64s
  <2>1. PICK cut \in UInt64s : cut = AsUInt64(sum)
    BY <1>4, Width
  <2>2. cut \in Nat
    BY <2>1 DEF UInt64s
  <2>3. cut \div Unit \in 0..cut
    BY <2>2, <1>1, Quotient
  <2>4. QED
    BY <2>1, <2>2, <2>3, <1>6, Width DEF UInt64s
<1>8. ASSUME Fits PROVE get_rto_us > 0 /\ get_rto_us <= 2 * H
  <2>1. ns < H
    BY <1>1, <1>3, <1>8, RoundTripAssumption, Width DEF IInv, Bounded, Fits, larger
  <2>2. sum <= 2 * H
    BY <2>1, <1>1, <1>2, <1>3, <1>4, Width
  <2>3. 2 * H <= 4 * H * H - 1
    BY Width
  <2>4. sum \in UInt64s
    BY <2>2, <2>3, <1>4, Width DEF UInt64s
  <2>5. get_rto_us = sum \div Unit
    BY <2>4, <1>6, Width
  <2>6. sum \div Unit \in 0..sum /\ sum \div Unit > 0
    BY <1>1, <1>4, <1>5, Quotient
  <2>7. QED
    BY <2>2, <2>5, <2>6, <1>4, Width
<1>9. QED
  BY <1>7, <1>8

-----------------------------------------------------------------------------

\* A packet of a command is sent with the timeout of lemma Timeout, a search with 0.
LEMMA SendInv ==
  ASSUME IInv, NEW fRetransmit \in BOOLEAN, send_packet_on_interface(fRetransmit)
  PROVE  IInv'
<1> USE DEF send_packet_on_interface
<1>1. 0 \in UInt64s /\ H \in Nat
  BY Width DEF UInt64s
<1>2. TypeOK' /\ Bounded'
  <2>1. CASE fRetransmit
    BY <1>1, <2>1, Timeout DEF IInv, TypeOK, Bounded, Fits
  <2>2. CASE ~ fRetransmit
    BY <1>1, <2>2 DEF IInv, TypeOK, Bounded, Fits
  <2> QED BY <2>1, <2>2
<1>3. CoversLast'
  BY DEF IInv, CoversLast, Fits
<1>4. QED
  BY <1>2, <1>3 DEF IInv

\* A copy is sent with a doubled timeout, which is not cut to 0.
LEMMA ResendInv == IInv /\ resend_packet => IInv'
<1> SUFFICES ASSUME IInv, resend_packet PROVE IInv'
  OBVIOUS
<1>1. H \in Nat /\ H > 1 /\ timeout \in Nat /\ timeout > 0
  BY Width DEF IInv, TypeOK, UInt64s, resend_packet
<1>2. /\ MAX_RETRANSMIT_TIMEOUT_US \in Nat /\ MAX_RETRANSMIT_TIMEOUT_US > 0
      /\ MAX_RETRANSMIT_TIMEOUT_US < H
  BY RoundTripAssumption
<1>3. H <= 4 * H * H - 1 /\ 4 * H <= 4 * H * H - 1
  BY <1>1
<1>4. PICK twice \in UInt64s : twice = AsUInt64(2 * timeout)
  BY <1>1, Width
<1>5. timeout' = smaller(twice, MAX_RETRANSMIT_TIMEOUT_US)
  BY <1>4 DEF resend_packet
<1>6. timeout' \in UInt64s /\ timeout' < H
  BY <1>1, <1>2, <1>3, <1>5 DEF smaller, UInt64s
<1>7. TypeOK'
  BY <1>6 DEF IInv, TypeOK, resend_packet
<1>8. ASSUME Fits PROVE timeout' > 0
  <2>1. 2 * timeout \in UInt64s
    BY <1>1, <1>3, <1>8 DEF IInv, Bounded, UInt64s
  <2>2. twice = 2 * timeout
    BY <2>1, <1>4, Width
  <2>3. QED
    BY <2>2, <1>1, <1>2, <1>5 DEF smaller
<1>9. Bounded'
  <2>1. timeout' <= 2 * H
    BY <1>1, <1>6, Width DEF UInt64s
  <2>2. QED
    BY <1>8, <2>1 DEF IInv, Bounded, Fits, resend_packet
<1>10. CoversLast'
  BY DEF IInv, CoversLast, Fits, resend_packet
<1>11. QED
  BY <1>7, <1>9, <1>10 DEF IInv

\* What update_rto leaves is of its type, whatever it cut.
LEMMA UpdateTypes ==
  ASSUME IInv, NEW t \in Times, update_rto(t)
  PROVE  avg' \in Ints /\ var' \in Ints /\ rto' \in UInt64s
<1>1. avg \in Int /\ var \in Int /\ t \in Int
  BY RoundTripAssumption, Width DEF IInv, TypeOK, Ints
<1>2. PICK err \in Int : err = AsInt(t - avg)
  BY <1>1, Width DEF Ints
<1>3. PICK size \in Int : size = IF err < 0 THEN AsInt(- err) ELSE err
  BY <1>2, Width DEF Ints
<1>4. PICK diff \in Int : diff = AsInt(size - var)
  BY <1>1, <1>3, Width DEF Ints
<1>5. /\ avg' = AsInt(avg + (err \div 8))
      /\ var' = AsInt(var + (diff \div 4))
      /\ rto' = AsUInt64(AsInt(avg' + AsInt(4 * var')))
  BY <1>2, <1>3, <1>4 DEF update_rto
<1>6. avg + (err \div 8) \in Int /\ var + (diff \div 4) \in Int
  BY <1>1, <1>2, <1>4
<1>7. avg' \in Ints /\ var' \in Ints
  BY <1>5, <1>6, Width
<1>8. avg' \in Int /\ 4 * var' \in Int
  BY <1>7, Width DEF Ints
<1>9. AsInt(4 * var') \in Int
  BY <1>8, Width DEF Ints
<1>10. avg' + AsInt(4 * var') \in Int
  BY <1>8, <1>9
<1>11. AsInt(avg' + AsInt(4 * var')) \in Int
  BY <1>10, Width DEF Ints
<1>12. rto' \in UInt64s
  BY <1>5, <1>11, Width
<1>13. QED
  BY <1>7, <1>12

\* While the times fit update_rto cuts nothing.
LEMMA UpdateFits ==
  ASSUME NEW L \in Nat, 5 * L < H, avg \in 0..L, var \in 0..L,
         NEW t \in 0..L, update_rto(t)
  PROVE  /\ avg' \in 0..L /\ var' \in 0..L
         /\ rto' \in 0..(5 * L) /\ rto' >= t - 3
<1>1. 0..(5 * L) \subseteq Ints /\ -L..L \subseteq Ints /\ 0..(5 * L) \subseteq UInt64s
  <2>1. H \in Nat /\ H > 1 /\ H <= 4 * H * H - 1
    BY Width
  <2>2. QED
    BY <2>1 DEF Ints, UInt64s
<1>2. PICK err \in -L..L : err = t - avg
  OBVIOUS
<1>3. PICK size \in 0..L : size = IF err < 0 THEN - err ELSE err
  <2>1. (IF err < 0 THEN - err ELSE err) \in 0..L
    BY <1>2
  <2>2. QED
    BY <2>1, Zenon
<1>4. AsInt(t - avg) = err
  <2>1. AsInt(err) = err
    BY <1>1, Width
  <2>2. QED
    BY <2>1, <1>2, Zenon
<1>5. (IF err < 0 THEN AsInt(- err) ELSE err) = size
  BY <1>1, <1>2, <1>3, Width
<1>6. AsInt(size - var) = size - var
  BY <1>1, <1>3, Width
<1>7. PICK a1 \in Int : a1 = avg + (err \div 8)
  BY <1>2
<1>8. PICK v1 \in Int : v1 = var + ((size - var) \div 4)
  BY <1>3
<1>9. a1 \in 0..L /\ v1 \in 0..L /\ a1 + 4 * v1 >= t - 3 /\ a1 + 4 * v1 \in 0..(5 * L)
  BY <1>2, <1>3, <1>7, <1>8, Update
<1>10. avg' = a1 /\ var' = v1
  <2>1. avg' = AsInt(a1) /\ var' = AsInt(v1)
    BY <1>4, <1>5, <1>6, <1>7, <1>8 DEF update_rto
  <2>2. a1 \in Ints /\ v1 \in Ints
    BY <1>1, <1>9
  <2>3. QED
    BY <2>1, <2>2, Width
<1>11. rto' = a1 + 4 * v1
  <2>1. rto' = AsUInt64(AsInt(a1 + AsInt(4 * v1)))
    BY <1>10 DEF update_rto
  <2>2. 4 * v1 \in Ints /\ a1 + 4 * v1 \in Ints /\ a1 + 4 * v1 \in UInt64s
    BY <1>1, <1>9
  <2>3. QED
    BY <2>1, <2>2, Width
<1>12. QED
  BY <1>9, <1>10, <1>11

\* A packet that is measured: as longest never gets shorter, times that fit now
\* have always fitted.
LEMMA IncomingInv ==
  ASSUME IInv, NEW t \in Times, aoe_incoming(t)
  PROVE  IInv'
<1>1. t \in Nat /\ longest \in Nat /\ H \in Nat
  BY RoundTripAssumption DEF IInv, TypeOK
<1>2. TypeOK'
  <2>1. avg' \in Ints /\ var' \in Ints /\ rto' \in UInt64s
    BY UpdateTypes DEF aoe_incoming
  <2>2. QED
    BY <2>1 DEF IInv, TypeOK, aoe_incoming, larger
<1>3. ASSUME Fits'
      PROVE  /\ avg' \in 0..longest' /\ var' \in 0..longest'
             /\ rto' \in 0..(5 * longest') /\ rto' >= t - 3
             /\ timeout' <= 2 * H
  <2>1. /\ longest' \in Nat /\ longest <= longest' /\ t \in 0..longest'
        /\ 5 * longest' < H
    BY <1>1, <1>3 DEF aoe_incoming, larger, Fits
  <2>2. Fits
    <3>1. PICK m \in Nat, n \in Nat : m = longest /\ n = longest'
      BY <1>1, <2>1
    <3>2. m <= n /\ 5 * n < H
      BY <2>1, <3>1
    <3>3. 5 * m < H
      BY <1>1, <3>2
    <3>4. QED
      BY <3>1, <3>3 DEF Fits
  <2>3. avg \in 0..longest' /\ var \in 0..longest'
    BY <1>1, <2>1, <2>2 DEF IInv, Bounded
  <2>4. PICK L \in Nat : L = longest'
    BY <2>1
  <2>5. avg' \in 0..L /\ var' \in 0..L /\ rto' \in 0..(5 * L) /\ rto' >= t - 3
    BY <2>1, <2>3, <2>4, UpdateFits DEF aoe_incoming
  <2>6. QED
    BY <2>2, <2>4, <2>5 DEF IInv, Bounded, aoe_incoming
<1>4. Bounded'
  <2>1. ASSUME Fits' PROVE rto' <= larger(RTO_MAX_NS, 5 * longest')
    BY <1>1, <1>3, <2>1, RoundTripAssumption DEF larger, aoe_incoming
  <2>2. packet' = "none"
    BY DEF aoe_incoming
  <2>3. QED
    BY <1>3, <2>1, <2>2 DEF Bounded
<1>5. CoversLast'
  <2>1. rtt' = t
    BY DEF aoe_incoming
  <2>2. QED
    BY <1>3, <2>1 DEF CoversLast
<1>6. QED
  BY <1>2, <1>4, <1>5 DEF IInv

\* Every step keeps the invariant.
LEMMA StepInv == IInv /\ [Next]_vars => IInv'
<1> SUFFICES ASSUME IInv, [Next]_vars PROVE IInv'
  OBVIOUS
<1>1. ASSUME NEW fRetransmit \in BOOLEAN, send_packet_on_interface(fRetransmit) PROVE IInv'
  BY <1>1, SendInv
<1>2. ASSUME NEW t \in Times, aoe_incoming(t) PROVE IInv'
  BY <1>2, IncomingInv
<1>3. CASE aoe_incoming_resent \/ drop_packet
  BY <1>3 DEF IInv, TypeOK, Bounded, CoversLast, Fits, aoe_incoming_resent, drop_packet
<1>4. CASE resend_packet
  BY <1>4, ResendInv
<1>5. CASE UNCHANGED vars
  BY <1>5 DEF IInv, TypeOK, Bounded, CoversLast, Fits, vars
<1>6. QED
  BY <1>1, <1>2, <1>3, <1>4, <1>5 DEF Next

\* The inductive invariant of the estimate (AoEService.cpp:1055-1085, 1098-1125).
THEOREM Invariant == Spec => []IInv
<1>1. QED
  BY InitInv, StepInv, PTL DEF Spec

\* For ints of any width: no overflow, a bounded timeout that is never 0, as
\* long as five times the longest time fits (AoEService.cpp:1055-1073).
THEOREM StaysInRange == Spec => []InRange
<1>1. IInv => InRange
  BY DEF IInv, Bounded, InRange
<1>2. QED
  BY <1>1, Invariant, PTL

\* For ints of any width: the timeout covers the last measured time but for what
\* is shifted out (AoEService.cpp:1063-1069).
THEOREM LastCovered == Spec => []CoversLast
<1>1. IInv => CoversLast
  BY DEF IInv
<1>2. QED
  BY <1>1, Invariant, PTL

=============================================================================

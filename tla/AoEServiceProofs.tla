--------------------------- MODULE AoEServiceProofs ---------------------------
(***************************************************************************)
(* The invariants of the transport, for any number of ports, shelves,      *)
(* packets and any window and buffer counts.                               *)
(*                                                                         *)
(* Most of them are not inductive by themselves.  IInv adds what the code  *)
(* relies on without saying so: a tag names one packet in each queue, the  *)
(* two queues agree on where a packet goes, and no command stays in the    *)
(* sent queue of a port that is not used.                                  *)
(*                                                                         *)
(* The outstanding counts come last: Packets ties the copies to what they  *)
(* are copies of, NoneLost and Covered are the two halves of Accounting.   *)
(***************************************************************************)
EXTENDS AoEService, EInterfacesProofs, Functions, FiniteSetTheorems

\* A tag names at most one packet of a queue: next_tag, and resend_packet only
\* queuing what is not queued.
UniqueTags(queue) == \A q, r \in queue : q.tag = r.tag => q = r

\* Tags are taken from next_tag before their packet is queued.
TagsUsed == \A q \in sent_queue \cup to_send_queue : q.tag < nextTag

\* Both items of a packet name the same port and shelf.
SamePacket ==
  \A s \in sent_queue, p \in to_send_queue :
    s.tag = p.tag => s.on = p.on /\ s.shelf = p.shelf

\* Commands, unlike the searches of a user's thread, are never left in the sent
\* queue of a port that is not used.
CommandsOnUsedPorts == \A s \in sent_queue : Retransmits(s) => is_used(s.on)

\* What is not answered yet was never answered.
UnansweredYet == \A t \in Tags : (t >= nextTag \/ InSentQueue(t)) => answers[t] = 0

Queues ==
  /\ UniqueTags(sent_queue)
  /\ UniqueTags(to_send_queue)
  /\ TagsUsed
  /\ SamePacket
  /\ CommandsOnUsedPorts
  /\ QueuedUnlessOnWire

IInv ==
  /\ TypeOK /\ FractionBelowWindow
  /\ Queues
  /\ TimersArmed
  /\ UnansweredYet

-------------------------------------------------------------------------------
\* The queues are finite: they draw on finitely many tags, ports and shelves.
LEMMA QueuesFinite ==
  \A Q : (Q \subseteq SentPkt \/ Q \subseteq ToSendPkt) => IsFiniteSet(Q)
<1> DEFINE B == {TRUE} \cup {FALSE}
           P == (Tags \X Interfaces) \X (Shelf \X B)
           R == P \X (B \X B)
           f == [s \in SentPkt |-> <<<<<<s.tag, s.on>>, <<s.shelf, s.first>>>>, <<s.timed, s.resent>>>>]
           g == [p \in ToSendPkt |-> <<<<p.tag, p.on>>, <<p.shelf, p.immediately>>>>]
<1>1. IsFiniteSet(Tags) /\ IsFiniteSet(B) /\ IsFiniteSet(Shelf) /\ IsFiniteSet(Interfaces)
  <2>1. IsFiniteSet(Tags)
    BY ServiceAssumption, FS_Interval DEF Tags
  <2>2. IsFiniteSet(B)
    BY FS_Singleton, FS_Union
  <2>3. IsFiniteSet({Broadcast})
    BY FS_Singleton
  <2>4. IsFiniteSet(Shelf)
    BY ServiceAssumption, <2>3, FS_Union DEF Shelf
  <2>5. QED BY <2>1, <2>2, <2>4, ServiceAssumption
<1>2. IsFiniteSet(P) /\ IsFiniteSet(R)
  <2>1. IsFiniteSet(Tags \X Interfaces) /\ IsFiniteSet(Shelf \X B) /\ IsFiniteSet(B \X B)
    BY <1>1, FS_Product
  <2>2. IsFiniteSet(P)
    BY <2>1, FS_Product
  <2>3. QED BY <2>1, <2>2, FS_Product
<1>3. f \in Injection(SentPkt, R)
  <2>1. f \in [SentPkt -> R]
    BY DEF SentPkt
  <2>2. ASSUME NEW s \in SentPkt, NEW r \in SentPkt, f[s] = f[r]
        PROVE  s = r
    <3>1. /\ s.tag = r.tag /\ s.on = r.on /\ s.shelf = r.shelf
          /\ s.first = r.first /\ s.timed = r.timed /\ s.resent = r.resent
      BY <2>2
    <3>2. QED BY <3>1 DEF SentPkt
  <2>3. QED BY <2>1, <2>2 DEF Injection, IsInjective
<1>4. g \in Injection(ToSendPkt, P)
  <2>1. g \in [ToSendPkt -> P]
    BY DEF ToSendPkt
  <2>2. ASSUME NEW p \in ToSendPkt, NEW q \in ToSendPkt, g[p] = g[q]
        PROVE  p = q
    <3>1. /\ p.tag = q.tag /\ p.on = q.on /\ p.shelf = q.shelf
          /\ p.immediately = q.immediately
      BY <2>2
    <3>2. QED BY <3>1 DEF ToSendPkt
  <2>3. QED BY <2>1, <2>2 DEF Injection, IsInjective
<1>5. IsFiniteSet(SentPkt) /\ IsFiniteSet(ToSendPkt)
  BY <1>2, <1>3, <1>4, FS_Injection
<1>6. QED BY <1>5, FS_Subset

\* New items of the two queues.
LEMMA NewPackets ==
  ASSUME NEW t \in Tags, NEW i \in Interfaces, NEW shelf \in Shelf, NEW now \in BOOLEAN
  PROVE  /\ NewSent(t, i, shelf) \in SentPkt
         /\ NewSent(t, i, shelf).tag = t
         /\ NewSent(t, i, shelf).on = i
         /\ NewSent(t, i, shelf).shelf = shelf
         /\ ~NewSent(t, i, shelf).first
         /\ Queued(t, i, shelf, now) \in ToSendPkt
         /\ Queued(t, i, shelf, now).tag = t
         /\ Queued(t, i, shelf, now).on = i
         /\ Queued(t, i, shelf, now).shelf = shelf
         /\ Queued(t, i, shelf, now).immediately = now
  BY DEF NewSent, Queued, SentPkt, ToSendPkt

\* send_packet_from_queue and resend_packet only change the times of an item.
LEMMA MarkedPackets ==
  ASSUME NEW s \in SentPkt
  PROVE  /\ MarkSent(s) \in SentPkt /\ MarkSent(s).tag = s.tag
         /\ MarkSent(s).on = s.on /\ MarkSent(s).shelf = s.shelf
         /\ MarkSent(s).first /\ MarkSent(s).timed
         /\ MarkResent(s) \in SentPkt /\ MarkResent(s).tag = s.tag
         /\ MarkResent(s).on = s.on /\ MarkResent(s).shelf = s.shelf
         /\ MarkResent(s).first = s.first /\ ~MarkResent(s).timed
  BY DEF MarkSent, MarkResent, SentPkt

-------------------------------------------------------------------------------
\* The ports: what TypeOK and FractionBelowWindow say of them, in one formula.
PortsWellFormed == \A i \in Interfaces : WellFormed(interfaces[i])

\* What the type invariant says of each port.
LEMMA PortsFromTypes ==
  TypeOK /\ FractionBelowWindow => PortsWellFormed
  BY DEF TypeOK, FractionBelowWindow, PortsWellFormed, WellFormed

\* Well-formed ports make up a well-typed table of ports.
LEMMA PortsToTypes ==
  ASSUME NEW g, g = [i \in Interfaces |-> g[i]], \A i \in Interfaces : WellFormed(g[i])
  PROVE  g \in [Interfaces -> InterfaceState] /\ \A i \in Interfaces : g[i].frac < g[i].cwnd
  BY DEF WellFormed

\* Packets leave: send_packet_from_queue counts them on their port.
LEMMA AfterSendingWellFormed ==
  ASSUME NEW f, WellFormed(f), NEW packets, packets \subseteq ToSendPkt
  PROVE  WellFormed(AfterSending(f, packets))
<1> DEFINE counted == {p \in packets : ~p.immediately}
           kind == IF \E p \in packets : p.shelf = Broadcast THEN "broadcast" ELSE "command"
           sent == IF packets # {} /\ f.enabled THEN kind ELSE f.lastSend
           g == [f EXCEPT !.outstanding = f.outstanding + Cardinality(counted)]
<1>1. Cardinality(counted) \in Nat
  <2>1. counted \subseteq ToSendPkt
    OBVIOUS
  <2>2. QED BY <2>1, QueuesFinite, FS_CardinalityType
<1>2. f.outstanding + Cardinality(counted) \in Int
  BY <1>1 DEF WellFormed, InterfaceState
<1>3. WellFormed(g)
  BY <1>2, OutstandingWellFormed
<1>4. sent \in {"never", "command", "broadcast"}
  BY DEF WellFormed, InterfaceState
<1>5. WellFormed([g EXCEPT !.lastSend = sent])
  BY <1>3, <1>4 DEF WellFormed, InterfaceState
<1>6. AfterSending(f, packets) = [g EXCEPT !.lastSend = sent]
  BY DEF AfterSending, WellFormed, InterfaceState
<1>7. QED BY <1>5, <1>6

\* An answer arrives for a packet sent on the port.
LEMMA AnsweredWellFormed ==
  ASSUME NEW f, WellFormed(f), NEW s
  PROVE  WellFormed(Answered(f, s))
<1> DEFINE n == MAX(IF OccupiesSlot(s) THEN f.outstanding - 1 ELSE f.outstanding, 0)
           g == [f EXCEPT !.outstanding = n]
<1>1. n \in Int
  BY DEF WellFormed, InterfaceState, MAX
<1>2. WellFormed(g)
  BY <1>1, OutstandingWellFormed
<1>3. WellFormed(grow_on_reply(g))
  BY <1>2, GrowWellFormed
<1>4. QED BY <1>2, <1>3 DEF Answered

\* A target's configuration arrives on the port.
LEMMA ConfiguredWellFormed ==
  ASSUME NEW f, WellFormed(f), NEW config \in Config \cup {Ata}
  PROVE  WellFormed(Configured(f, config))
<1>1. CASE config # Ata
  <2>1. config.shelf \in Shelves /\ config.count \in Nat
    BY <1>1, ServiceAssumption DEF Config
  <2>2. WellFormed(set_max_outstanding(f, config.shelf, config.count))
    BY <2>1, SetMaxWellFormed
  <2>3. QED BY <2>2 DEF Configured
<1>2. CASE config = Ata
  BY <1>2 DEF Configured
<1>3. QED BY <1>1, <1>2

-------------------------------------------------------------------------------
\* Type correctness of each handler, the ports first.  The steps below leave
\* out the handlers that only queue a packet; they are in TypesInductive.
LEMMA TypesTransmitTimer ==
  ASSUME TypeOK, FractionBelowWindow, TransmitTimer
  PROVE  TypeOK' /\ FractionBelowWindow'
<1> DEFINE chosen == {p \in to_send_queue : IsNext(p)}
           sending == (to_send_queue \ Waiting) \cup chosen
           output == {p \in sending : InSentQueue(p.tag)}
<1>1. sending \subseteq ToSendPkt /\ output \subseteq ToSendPkt
  BY DEF TypeOK
<1>2. \A i \in Interfaces : WellFormed(AfterSending(interfaces[i], {p \in output : p.on = i}))
  <2>1. \A i \in Interfaces : {p \in output : p.on = i} \subseteq ToSendPkt
    BY <1>1
  <2>2. QED BY <2>1, PortsFromTypes, AfterSendingWellFormed DEF PortsWellFormed
<1>3. interfaces' = [i \in Interfaces |-> AfterSending(interfaces[i], {p \in output : p.on = i})]
  BY DEF TransmitTimer
<1>4. interfaces' \in [Interfaces -> InterfaceState] /\ FractionBelowWindow'
  <2>1. \A i \in Interfaces : WellFormed(interfaces'[i])
    BY <1>2, <1>3
  <2>2. interfaces' = [i \in Interfaces |-> interfaces'[i]]
    BY <1>3
  <2>3. QED BY <2>1, <2>2, PortsToTypes DEF FractionBelowWindow
<1>5. sent_queue' \subseteq SentPkt
  <2>1. sent_queue' = {IF \E p \in output : p.tag = s.tag THEN MarkSent(s) ELSE s :
                         s \in sent_queue}
    BY DEF TransmitTimer
  <2>2. QED BY <2>1, MarkedPackets DEF TypeOK
<1>6. to_send_queue' \subseteq ToSendPkt
  BY DEF TypeOK, TransmitTimer
<1>7. wire' \subseteq [tag : Tags, shelf : Shelf]
  <2>1. wire' = wire \cup {[tag |-> p.tag, shelf |-> p.shelf] : p \in output}
    BY DEF TransmitTimer
  <2>2. QED BY <1>1, <2>1 DEF TypeOK, ToSendPkt
<1>8. /\ transmitTimer' \in BOOLEAN /\ retransmitTimer' \in BOOLEAN /\ idleTimer' \in BOOLEAN
      /\ UNCHANGED <<nextTag, adminVars, answers>>
  BY DEF TransmitTimer, TypeOK
<1>9. QED
  BY <1>4, <1>5, <1>6, <1>7, <1>8 DEF TypeOK, adminVars

\* RetransmitTimer keeps the types: it retransmits, and shrinks windows.
LEMMA TypesRetransmitTimer ==
  ASSUME TypeOK, FractionBelowWindow,
         NEW late \in SUBSET Watched, NEW old \in SUBSET Watched, RetransmitTimer(late, old)
  PROVE  TypeOK' /\ FractionBelowWindow'
<1> DEFINE dropped == old \cup {s \in sent_queue : ~Retransmits(s)}
           left == sent_queue \ dropped
           Released(i) == {s \in late \cup dropped : s.on = i /\ Releases(s)}
           Shrinks(i) == late # {} /\ First(late).on = i /\ is_used(i)
           Less(i) == [interfaces[i] EXCEPT !.outstanding = @ - Cardinality(Released(i))]
<1>1. late \subseteq SentPkt /\ old \subseteq SentPkt /\ sent_queue \subseteq SentPkt
  BY DEF TypeOK, Watched
<1>2. \A i \in Interfaces : WellFormed(Less(i))
  <2>1. TAKE i \in Interfaces
  <2>2. Released(i) \subseteq SentPkt
    BY <1>1
  <2>3. Cardinality(Released(i)) \in Nat
    BY <2>2, QueuesFinite, FS_CardinalityType
  <2>4. WellFormed(interfaces[i])
    BY PortsFromTypes DEF PortsWellFormed
  <2>5. interfaces[i].outstanding - Cardinality(Released(i)) \in Int
    BY <2>3, <2>4 DEF WellFormed, InterfaceState
  <2>6. QED BY <2>4, <2>5, OutstandingWellFormed
<1>3. interfaces' = [i \in Interfaces |->
                       IF Shrinks(i) THEN shrink_on_timeout(Less(i)) ELSE Less(i)]
  BY DEF RetransmitTimer
<1>4. interfaces' \in [Interfaces -> InterfaceState] /\ FractionBelowWindow'
  <2>1. \A i \in Interfaces : WellFormed(interfaces'[i])
    BY <1>2, <1>3, ShrinkWellFormed
  <2>2. interfaces' = [i \in Interfaces |-> interfaces'[i]]
    BY <1>3
  <2>3. QED BY <2>1, <2>2, PortsToTypes DEF FractionBelowWindow
<1>5. sent_queue' \subseteq SentPkt
  <2>1. sent_queue' = (left \ late) \cup {MarkResent(s) : s \in late}
    BY DEF RetransmitTimer
  <2>2. QED BY <1>1, <2>1, MarkedPackets
<1>6. to_send_queue' \subseteq ToSendPkt
  <2>1. to_send_queue' = to_send_queue \cup {Queued(s.tag, s.on, s.shelf, TRUE) : s \in late}
    BY DEF RetransmitTimer
  <2>2. \A s \in late : Queued(s.tag, s.on, s.shelf, TRUE) \in ToSendPkt
    BY <1>1 DEF SentPkt, ToSendPkt, Queued
  <2>3. QED BY <2>1, <2>2 DEF TypeOK
<1>7. /\ transmitTimer' \in BOOLEAN /\ retransmitTimer' \in BOOLEAN
      /\ UNCHANGED <<nextTag, idleTimer, adminVars, networkVars>>
  BY DEF RetransmitTimer, TypeOK, KeepsWatch
<1>8. QED
  BY <1>4, <1>5, <1>6, <1>7 DEF TypeOK, adminVars, networkVars

\* IdleTimer keeps the types: it resets the windows of idle ports.
LEMMA TypesIdleTimer ==
  ASSUME TypeOK, FractionBelowWindow, NEW recent, IdleTimer(recent)
  PROVE  TypeOK' /\ FractionBelowWindow'
<1>1. interfaces' = [i \in Interfaces |->
        IF is_used(i) /\ interfaces[i].lastSend # "never" /\ i \notin recent
          THEN reset_if_idle(interfaces[i]) ELSE interfaces[i]]
  BY DEF IdleTimer
<1>2. \A i \in Interfaces : WellFormed(interfaces'[i])
  BY <1>1, PortsFromTypes, EnabledWellFormed DEF PortsWellFormed
<1>3. interfaces' = [i \in Interfaces |-> interfaces'[i]]
  BY <1>1
<1>4. interfaces' \in [Interfaces -> InterfaceState] /\ FractionBelowWindow'
  BY <1>2, <1>3, PortsToTypes DEF FractionBelowWindow
<1>5. QED
  BY <1>4 DEF IdleTimer, TypeOK, adminVars, networkVars

\* An incoming packet keeps the types (aoe_incoming).
LEMMA TypesAoeIncoming ==
  ASSUME TypeOK, FractionBelowWindow, NEW w \in wire, NEW i \in Interfaces,
         NEW config \in Config \cup {Ata}, NEW error \in BOOLEAN, AoeIncoming(w, i, config, error)
  PROVE  TypeOK' /\ FractionBelowWindow'
<1> DEFINE found == InSentQueue(w.tag)
           handed == Dispatched(w, error)
           Port(j) == IF found /\ Entry(w.tag).on = j
                        THEN Answered(interfaces[j], Entry(w.tag)) ELSE interfaces[j]
<1>1. \A j \in Interfaces : WellFormed(Port(j))
  BY PortsFromTypes, AnsweredWellFormed DEF PortsWellFormed
<1>2. interfaces' = [j \in Interfaces |->
                       IF handed /\ j = i THEN Configured(Port(j), config) ELSE Port(j)]
  BY DEF AoeIncoming
<1>3. \A j \in Interfaces : WellFormed(interfaces'[j])
  BY <1>1, <1>2, ConfiguredWellFormed
<1>4. interfaces' = [j \in Interfaces |-> interfaces'[j]]
  BY <1>2
<1>5. interfaces' \in [Interfaces -> InterfaceState] /\ FractionBelowWindow'
  BY <1>3, <1>4, PortsToTypes DEF FractionBelowWindow
<1>6. sent_queue' \subseteq SentPkt
  BY DEF AoeIncoming, Removed, TypeOK
<1>7. answers' \in [Tags -> Nat]
  <2>1. answers' = answers \/ answers' = [answers EXCEPT ![w.tag] = @ + 1]
    BY DEF AoeIncoming
  <2>2. QED BY <2>1 DEF TypeOK
<1>8. /\ transmitTimer' \in BOOLEAN
      /\ UNCHANGED <<to_send_queue, nextTag, retransmitTimer, idleTimer, adminVars, wire>>
  BY DEF AoeIncoming, TypeOK
<1>9. QED
  BY <1>5, <1>6, <1>7, <1>8 DEF TypeOK, adminVars

\* cg_disable_interface, for a port the user removes or whose cable is unplugged.
LEMMA TypesInterfaceDisconnected ==
  ASSUME TypeOK, FractionBelowWindow, NEW i \in Interfaces, InterfaceDisconnected(i)
  PROVE  /\ interfaces' \in [Interfaces -> InterfaceState] /\ FractionBelowWindow'
         /\ sent_queue' \subseteq SentPkt /\ to_send_queue' \subseteq ToSendPkt
         /\ transmitTimer' \in BOOLEAN /\ retransmitTimer' \in BOOLEAN
<1>1. interfaces' = [interfaces EXCEPT ![i] = interface_disconnected(@)]
  BY DEF InterfaceDisconnected
<1>2. \A j \in Interfaces : WellFormed(interfaces'[j])
  BY <1>1, PortsFromTypes, EnabledWellFormed DEF PortsWellFormed, TypeOK
<1>3. interfaces' = [j \in Interfaces |-> interfaces'[j]]
  BY <1>1 DEF TypeOK
<1>4. interfaces' \in [Interfaces -> InterfaceState] /\ FractionBelowWindow'
  BY <1>2, <1>3, PortsToTypes DEF FractionBelowWindow
<1>5. QED BY <1>4 DEF InterfaceDisconnected, PurgedSent, TypeOK

\* The handlers that touch nothing but a port: a target's announcement, and
\* ports added and plugged in.
LEMMA TypesOnePort ==
  ASSUME TypeOK, FractionBelowWindow, NEW i \in Interfaces, NEW f, WellFormed(f),
         interfaces' = [interfaces EXCEPT ![i] = f]
  PROVE  interfaces' \in [Interfaces -> InterfaceState] /\ FractionBelowWindow'
<1>1. \A j \in Interfaces : WellFormed(interfaces'[j])
  BY PortsFromTypes DEF PortsWellFormed, TypeOK
<1>2. interfaces' = [j \in Interfaces |-> interfaces'[j]]
  BY DEF TypeOK
<1>3. QED BY <1>1, <1>2, PortsToTypes DEF FractionBelowWindow

\* A packet put into the queues keeps the types (send_packet_on_interface).
LEMMA TypesSendPacket ==
  ASSUME TypeOK, FractionBelowWindow, NEW i \in Interfaces, NEW shelf \in Shelf,
         SendPacketOnInterface(i, shelf)
  PROVE  TypeOK' /\ FractionBelowWindow'
<1>1. nextTag \in Tags /\ nextTag' = nextTag + 1 /\ nextTag' \in 1 .. MaxTag + 1
  BY ServiceAssumption DEF SendPacketOnInterface, Tags
<1>2. NewSent(nextTag, i, shelf) \in SentPkt /\ Queued(nextTag, i, shelf, FALSE) \in ToSendPkt
  BY <1>1, NewPackets
<1>3. sent_queue' \subseteq SentPkt /\ to_send_queue' \subseteq ToSendPkt
  BY <1>2 DEF SendPacketOnInterface, TypeOK, UsedOnly
<1>4. QED
  BY <1>1, <1>3 DEF SendPacketOnInterface, TypeOK, FractionBelowWindow, adminVars, networkVars

\* A search by a user program keeps the types (find_targets).
LEMMA TypesUserSearchQueue ==
  ASSUME TypeOK, FractionBelowWindow, NEW i \in Interfaces, UserSearchQueue(i)
  PROVE  TypeOK' /\ FractionBelowWindow'
<1>1. CASE nextTag \in Tags
  <2>1. nextTag' = nextTag + 1 /\ nextTag' \in 1 .. MaxTag + 1
    BY <1>1, ServiceAssumption DEF UserSearchQueue, Tags
  <2>2. /\ NewSent(nextTag, i, Broadcast) \in SentPkt
        /\ Queued(nextTag, i, Broadcast, FALSE) \in ToSendPkt
    BY <1>1, NewPackets DEF Shelf
  <2>3. sent_queue' \subseteq SentPkt /\ to_send_queue' \subseteq ToSendPkt
    BY <1>1, <2>2 DEF UserSearchQueue, TypeOK
  <2>4. QED
    BY <1>1, <2>1, <2>3 DEF UserSearchQueue, TypeOK, FractionBelowWindow, networkVars
<1>2. CASE nextTag \notin Tags
  BY <1>2 DEF UserSearchQueue, TypeOK, FractionBelowWindow, networkVars
<1>3. QED BY <1>1, <1>2

\* Every step keeps the types, and fractions below their windows.
LEMMA TypesInductive ==
  TypeOK /\ FractionBelowWindow /\ [Next]_vars => TypeOK' /\ FractionBelowWindow'
<1> SUFFICES ASSUME TypeOK, FractionBelowWindow, [Next]_vars
             PROVE  TypeOK' /\ FractionBelowWindow'
  OBVIOUS
<1>1. ASSUME NEW i \in Interfaces, NEW shelf \in Shelves, SendPacketOnInterface(i, shelf)
      PROVE  TypeOK' /\ FractionBelowWindow'
  BY <1>1, TypesSendPacket DEF Shelf
<1>2. ASSUME NEW i \in Interfaces, UserSearchCheck(i)
      PROVE  TypeOK' /\ FractionBelowWindow'
  BY <1>2 DEF UserSearchCheck, TypeOK, FractionBelowWindow, networkVars
<1>3. ASSUME NEW i \in Interfaces, UserSearchQueue(i)
      PROVE  TypeOK' /\ FractionBelowWindow'
  BY <1>3, TypesUserSearchQueue
<1>4. ASSUME NEW i \in Interfaces, PeriodicSearch(i)
      PROVE  TypeOK' /\ FractionBelowWindow'
  <2>1. CASE SendPacketOnInterface(i, Broadcast)
    BY <2>1, TypesSendPacket DEF Shelf
  <2>2. CASE ~SendPacketOnInterface(i, Broadcast)
    BY <1>4, <2>2 DEF PeriodicSearch, TypeOK, FractionBelowWindow, adminVars, networkVars
  <2>3. QED BY <2>1, <2>2
<1>5. CASE TransmitTimer
  BY <1>5, TypesTransmitTimer
<1>6. CASE Retransmission
  BY <1>6, TypesRetransmitTimer DEF Retransmission
<1>7. CASE Idle
  BY <1>7, TypesIdleTimer DEF Idle
<1>8. CASE Incoming
  <2>1. PICK i \in Interfaces, config \in Config \cup {Ata} :
          \/ \E w \in wire, error \in BOOLEAN : AoeIncoming(w, i, config, error)
          \/ DeviceOnline(i, config)
    BY <1>8 DEF Incoming
  <2>2. CASE \E w \in wire, error \in BOOLEAN : AoeIncoming(w, i, config, error)
    BY <2>2, TypesAoeIncoming
  <2>3. CASE DeviceOnline(i, config)
    <3>1. interfaces' = [interfaces EXCEPT ![i] = Configured(interfaces[i], config)]
      BY <2>3 DEF DeviceOnline
    <3>2. WellFormed(Configured(interfaces[i], config))
      BY PortsFromTypes, ConfiguredWellFormed DEF PortsWellFormed
    <3>3. QED
      BY <2>3, <3>1, <3>2, TypesOnePort DEF DeviceOnline, TypeOK, adminVars, networkVars
  <2>4. QED BY <2>1, <2>2, <2>3
<1>9. ASSUME NEW n \in UserWindows, SetUserWindow(n)
      PROVE  TypeOK' /\ FractionBelowWindow'
  BY <1>9 DEF SetUserWindow, TypeOK, FractionBelowWindow, networkVars
<1>10. ASSUME NEW i \in Interfaces, EnableInterface(i)
       PROVE  TypeOK' /\ FractionBelowWindow'
  <2>1. interfaces' = [interfaces EXCEPT ![i] = enable_interface(interfaces[i])]
    BY <1>10 DEF EnableInterface
  <2>2. WellFormed(enable_interface(interfaces[i]))
    BY PortsFromTypes, EnabledWellFormed DEF PortsWellFormed
  <2>3. QED
    BY <1>10, <2>1, <2>2, TypesOnePort DEF EnableInterface, TypeOK, networkVars
<1>11. ASSUME NEW i \in Interfaces, DisableInterface(i)
       PROVE  TypeOK' /\ FractionBelowWindow'
  BY <1>11, TypesInterfaceDisconnected DEF DisableInterface, TypeOK, networkVars
<1>12. ASSUME NEW i \in Interfaces, LinkOff(i)
       PROVE  TypeOK' /\ FractionBelowWindow'
  <2>1. CASE i \in attached
    BY <1>12, <2>1, TypesInterfaceDisconnected DEF LinkOff, TypeOK, networkVars
  <2>2. CASE i \notin attached
    BY <1>12, <2>2 DEF LinkOff, TypeOK, FractionBelowWindow, networkVars
  <2>3. QED BY <2>1, <2>2
<1>13. ASSUME NEW i \in Interfaces, LinkOn(i)
       PROVE  TypeOK' /\ FractionBelowWindow'
  <2> DEFINE f == IF i \in attached THEN interface_reconnected(interfaces[i]) ELSE interfaces[i]
  <2>1. interfaces' = [interfaces EXCEPT ![i] = f]
    BY <1>13 DEF LinkOn
  <2>2. WellFormed(f)
    BY PortsFromTypes, EnabledWellFormed DEF PortsWellFormed
  <2>3. interfaces' \in [Interfaces -> InterfaceState] /\ FractionBelowWindow'
    BY <2>1, <2>2, TypesOnePort
  <2>4. QED
    BY <1>13, <2>3 DEF LinkOn, TypeOK, networkVars
<1>14. CASE UNCHANGED vars
  BY <1>14 DEF vars, TypeOK, FractionBelowWindow, adminVars, networkVars
<1>15. QED
  BY <1>1, <1>2, <1>3, <1>4, <1>5, <1>6, <1>7, <1>8, <1>9, <1>10, <1>11, <1>12, <1>13, <1>14
     DEF Next, Search

\* The types hold of a driver that starts.
LEMMA TypesInit == Init => TypeOK /\ FractionBelowWindow
<1> SUFFICES ASSUME Init PROVE TypeOK /\ FractionBelowWindow
  OBVIOUS
<1>1. interfaces = [i \in Interfaces |-> EInterface]
  BY DEF Init
<1>2. interfaces \in [Interfaces -> InterfaceState] /\ FractionBelowWindow
  BY <1>1, EInterfaceWellFormed DEF FractionBelowWindow, WellFormed
<1>3. sent_queue \subseteq SentPkt /\ to_send_queue \subseteq ToSendPkt
  BY DEF Init
<1>4. nextTag \in 1 .. MaxTag + 1
  BY ServiceAssumption DEF Init
<1>5. attached \subseteq Interfaces /\ link \subseteq Interfaces /\ searching \subseteq Interfaces
  BY DEF Init
<1>6. wire \subseteq [tag : Tags, shelf : Shelf] /\ answers \in [Tags -> Nat]
  BY DEF Init
<1>7. /\ transmitTimer \in BOOLEAN /\ retransmitTimer \in BOOLEAN /\ idleTimer \in BOOLEAN
      /\ userWindow \in UserWindows \cup {DefaultWindow}
  BY DEF Init
<1>8. QED BY <1>2, <1>3, <1>4, <1>5, <1>6, <1>7 DEF TypeOK

\* Every variable keeps its range in every behaviour: in particular no timeout,
\* idle period or answer ever leaves a port with a window of less than one packet.
THEOREM TypeCorrect == Spec => []TypeOK
  BY TypesInit, TypesInductive, PTL DEF Spec

\* The fraction of a port's window stays below one packet, so that an answer never
\* widens a window by more than one packet (grow_cwnd).
THEOREM FractionStaysBelowWindow == Spec => []FractionBelowWindow
  BY TypesInit, TypesInductive, PTL DEF Spec

-------------------------------------------------------------------------------
\* Whether a port is used changes only when it is enabled or disconnected: answers
\* and idle periods leave it as it is ...
LEMMA PortStaysUsed ==
  ASSUME NEW f, WellFormed(f)
  PROVE  /\ \A s : WellFormed(Answered(f, s)) /\ Answered(f, s).enabled = f.enabled
         /\ \A config \in Config \cup {Ata} : Configured(f, config).enabled = f.enabled
         /\ reset_if_idle(f).enabled = f.enabled
<1>1. ASSUME NEW s PROVE WellFormed(Answered(f, s)) /\ Answered(f, s).enabled = f.enabled
  <2> DEFINE n == MAX(IF OccupiesSlot(s) THEN f.outstanding - 1 ELSE f.outstanding, 0)
             g == [f EXCEPT !.outstanding = n]
  <2>1. n \in Int
    BY DEF WellFormed, InterfaceState, MAX
  <2>2. WellFormed(g) /\ g.enabled = f.enabled
    BY <2>1, OutstandingWellFormed DEF WellFormed, InterfaceState
  <2>3. \A h : WellFormed(h) => grow_on_reply(h).enabled = h.enabled
    BY DEF grow_on_reply, grow_cwnd, WellFormed, InterfaceState
  <2>4. Answered(f, s) = IF g.enabled THEN grow_on_reply(g) ELSE g
    BY DEF Answered
  <2> HIDE DEF n, g
  <2>5. Answered(f, s).enabled = f.enabled
    <3>1. grow_on_reply(g).enabled = g.enabled
      BY <2>2, <2>3, Zenon
    <3>2. CASE g.enabled
      <4>1. Answered(f, s) = grow_on_reply(g)
        BY <3>2, <2>4, Zenon
      <4>2. QED BY <4>1, <3>1, <2>2, Zenon
    <3>3. CASE ~g.enabled
      <4>1. Answered(f, s) = g
        BY <3>3, <2>4, Zenon
      <4>2. QED BY <4>1, <2>2, Zenon
    <3>4. QED BY <3>2, <3>3, Zenon
  <2>6. WellFormed(Answered(f, s))
    BY AnsweredWellFormed
  <2>7. QED BY <2>5, <2>6
<1>2. \A config \in Config \cup {Ata} : Configured(f, config).enabled = f.enabled
  BY DEF Configured, set_max_outstanding, WellFormed, InterfaceState
<1>3. reset_if_idle(f).enabled = f.enabled
  BY DEF reset_if_idle, restart, set_ssthresh, set_cwnd, WellFormed, InterfaceState
<1>4. QED BY <1>1, <1>2, <1>3

\* ... and so do transmissions and timeouts.
LEMMA UsedTransmitTimer ==
  ASSUME TypeOK, TransmitTimer
  PROVE  \A i \in Interfaces : is_used(i)' = is_used(i)
<1>1. \A f, packets : f \in InterfaceState => AfterSending(f, packets).enabled = f.enabled
  BY DEF AfterSending, InterfaceState
<1>2. QED BY <1>1 DEF TransmitTimer, is_used, TypeOK

\* RetransmitTimer takes no port out of use.
LEMMA UsedRetransmitTimer ==
  ASSUME TypeOK,
         NEW late \in SUBSET Watched, NEW old \in SUBSET Watched, RetransmitTimer(late, old)
  PROVE  \A i \in Interfaces : is_used(i)' = is_used(i)
<1> DEFINE dropped == old \cup {s \in sent_queue : ~Retransmits(s)}
<1>1. \A f \in InterfaceState : shrink_on_timeout(f).enabled = f.enabled
  BY DEF shrink_on_timeout, set_cwnd, set_ssthresh, InterfaceState
<1>2. \A f \in InterfaceState, n \in Int : /\ [f EXCEPT !.outstanding = @ - n] \in InterfaceState
                                           /\ [f EXCEPT !.outstanding = @ - n].enabled = f.enabled
  BY DEF InterfaceState
<1> DEFINE Released(i) == {s \in late \cup dropped : s.on = i /\ Releases(s)}
           Shrinks(i) == late # {} /\ First(late).on = i /\ is_used(i)
           Less(i) == [interfaces[i] EXCEPT !.outstanding = @ - Cardinality(Released(i))]
<1>3. interfaces' = [i \in Interfaces |->
                       IF Shrinks(i) THEN shrink_on_timeout(Less(i)) ELSE Less(i)]
  BY DEF RetransmitTimer
<1>4. \A i \in Interfaces : Cardinality(Released(i)) \in Int
  <2>1. \A i \in Interfaces : Released(i) \subseteq SentPkt
    BY DEF TypeOK, Watched
  <2>2. QED BY <2>1, QueuesFinite, FS_CardinalityType
<1>5. \A i \in Interfaces : Less(i) \in InterfaceState /\ Less(i).enabled = interfaces[i].enabled
  BY <1>2, <1>4 DEF TypeOK
<1> HIDE DEF Shrinks, Less
<1>6. \A i \in Interfaces : interfaces'[i].enabled = interfaces[i].enabled
  BY <1>1, <1>3, <1>5
<1>7. QED BY <1>6 DEF is_used

\* Only a port that is removed or unplugged stops being used.
LEMMA UsedUnlessDisconnected ==
  ASSUME TypeOK, FractionBelowWindow, Next,
         \A i \in Interfaces : ~DisableInterface(i) /\ ~LinkOff(i)
  PROVE  \A j \in Interfaces : is_used(j) => is_used(j)'
<1> SUFFICES ASSUME NEW j \in Interfaces, is_used(j) PROVE is_used(j)'
  OBVIOUS
<1>1. \A i \in Interfaces : \A shelf : SendPacketOnInterface(i, shelf) => is_used(j)'
  BY DEF SendPacketOnInterface, is_used
<1>2. \A i \in Interfaces : UserSearchCheck(i) \/ UserSearchQueue(i) => is_used(j)'
  BY DEF UserSearchCheck, UserSearchQueue, is_used
<1>3. \A i \in Interfaces : PeriodicSearch(i) => is_used(j)'
  BY <1>1 DEF PeriodicSearch, is_used
<1>4. TransmitTimer \/ Retransmission => is_used(j)'
  BY UsedTransmitTimer, UsedRetransmitTimer DEF Retransmission
<1>5. \A recent : IdleTimer(recent) => is_used(j)'
  BY PortsFromTypes, PortStaysUsed DEF PortsWellFormed, IdleTimer, is_used
<1>6. ASSUME NEW i \in Interfaces, NEW config \in Config \cup {Ata},
             NEW w \in wire, NEW error \in BOOLEAN, AoeIncoming(w, i, config, error)
      PROVE  is_used(j)'
  <2> DEFINE found == InSentQueue(w.tag)
             handed == Dispatched(w, error)
             Port(k) == IF found /\ Entry(w.tag).on = k
                          THEN Answered(interfaces[k], Entry(w.tag)) ELSE interfaces[k]
  <2>1. interfaces' = [k \in Interfaces |->
                         IF handed /\ k = i THEN Configured(Port(k), config) ELSE Port(k)]
    BY <1>6 DEF AoeIncoming
  <2>2. WellFormed(Port(j)) /\ Port(j).enabled = interfaces[j].enabled
    BY PortsFromTypes, PortStaysUsed DEF PortsWellFormed
  <2>3. QED BY <2>1, <2>2, PortStaysUsed DEF is_used
<1>7. ASSUME NEW i \in Interfaces, NEW config \in Config \cup {Ata}, DeviceOnline(i, config)
      PROVE  is_used(j)'
  BY <1>7, PortsFromTypes, PortStaysUsed DEF DeviceOnline, PortsWellFormed, is_used, TypeOK
<1>8. \A n : SetUserWindow(n) => is_used(j)'
  BY DEF SetUserWindow, is_used
<1>9. \A i \in Interfaces : EnableInterface(i) \/ LinkOn(i) => is_used(j)'
  <2>1. \A f \in InterfaceState : enable_interface(f).enabled /\ interface_reconnected(f).enabled
    BY DEF enable_interface, restart, set_ssthresh, set_cwnd, interface_reconnected, InterfaceState
  <2>2. QED BY <2>1 DEF EnableInterface, LinkOn, is_used, TypeOK
<1>10. QED
  BY <1>1, <1>2, <1>3, <1>4, <1>5, <1>6, <1>7, <1>8, <1>9 DEF Next, Search, Idle, Incoming

-------------------------------------------------------------------------------
\* The queues.  A new packet is put in both under a tag neither holds.
LEMMA QueuesNewPacket ==
  ASSUME TypeOK, Queues, NEW i \in Interfaces, NEW shelf \in Shelf,
         shelf = Broadcast \/ is_used(i), nextTag \in Tags, nextTag' = nextTag + 1,
         sent_queue' = sent_queue \cup {NewSent(nextTag, i, shelf)},
         to_send_queue' = to_send_queue \cup {Queued(nextTag, i, shelf, FALSE)},
         interfaces' = interfaces
  PROVE  Queues'
<1> DEFINE s0 == NewSent(nextTag, i, shelf)
           p0 == Queued(nextTag, i, shelf, FALSE)
<1>1. /\ s0.tag = nextTag /\ s0.on = i /\ s0.shelf = shelf /\ ~s0.first
      /\ p0.tag = nextTag /\ p0.on = i /\ p0.shelf = shelf
  BY DEF NewSent, Queued
<1>2. \A q \in sent_queue \cup to_send_queue : q.tag < nextTag /\ q.tag # nextTag
  <2>1. nextTag \in Nat /\ \A q \in sent_queue \cup to_send_queue : q.tag \in Nat
    BY ServiceAssumption DEF TypeOK, SentPkt, ToSendPkt, Tags
  <2>2. QED BY <2>1 DEF Queues, TagsUsed
<1>3. sent_queue' = sent_queue \cup {s0} /\ to_send_queue' = to_send_queue \cup {p0}
  OBVIOUS
<1> HIDE DEF s0, p0
<1>4. UniqueTags(sent_queue)' /\ UniqueTags(to_send_queue)'
  BY <1>1, <1>2, <1>3 DEF Queues, UniqueTags
<1>5. TagsUsed'
  <2>1. nextTag \in Nat /\ \A q \in sent_queue \cup to_send_queue : q.tag \in Nat
    BY ServiceAssumption DEF TypeOK, SentPkt, ToSendPkt, Tags
  <2>2. nextTag < nextTag'
    BY <2>1
  <2>3. \A q \in sent_queue \cup to_send_queue : q.tag < nextTag'
    BY <1>2, <2>1
  <2>4. s0.tag < nextTag' /\ p0.tag < nextTag'
    BY <1>1, <2>2
  <2>5. QED BY <1>3, <2>3, <2>4, Zenon DEF TagsUsed
<1>6. SamePacket'
  BY <1>1, <1>2, <1>3 DEF Queues, SamePacket
<1>7. CommandsOnUsedPorts'
  BY <1>1, <1>3 DEF Queues, CommandsOnUsedPorts, Retransmits, is_used
<1>8. QueuedUnlessOnWire'
  BY <1>1, <1>2, <1>3 DEF Queues, QueuedUnlessOnWire, OnWire, Retransmits
<1>9. QED BY <1>4, <1>5, <1>6, <1>7, <1>8 DEF Queues

\* What is queued on ports that are not used is discarded: from the send queue
\* when a packet is refused, from both queues when a port goes.
LEMMA QueuesPurged ==
  ASSUME TypeOK, Queues, NEW used,
         \A s \in sent_queue' : s.on \in used \/ ~Retransmits(s),
         sent_queue' \subseteq sent_queue,
         to_send_queue' = {p \in to_send_queue : p.on \in used},
         \A j \in used : is_used(j)',
         nextTag' \in Nat /\ nextTag' >= nextTag
  PROVE  Queues'
<1>1. UniqueTags(sent_queue)' /\ UniqueTags(to_send_queue)'
  BY DEF Queues, UniqueTags
<1>2. TagsUsed'
  <2>1. nextTag \in Nat /\ \A q \in sent_queue \cup to_send_queue : q.tag \in Nat
    BY ServiceAssumption DEF TypeOK, SentPkt, ToSendPkt, Tags
  <2>2. QED BY <2>1 DEF Queues, TagsUsed
<1>3. SamePacket'
  BY DEF Queues, SamePacket
<1>4. CommandsOnUsedPorts'
  BY DEF CommandsOnUsedPorts
<1>5. QueuedUnlessOnWire'
  <2>1. ASSUME NEW s \in sent_queue', Retransmits(s)
        PROVE  OnWire(s) <=> \A p \in to_send_queue' : p.tag # s.tag
    <3>1. s \in sent_queue /\ s.on \in used
      BY <2>1
    <3>2. OnWire(s) <=> \A p \in to_send_queue : p.tag # s.tag
      BY <2>1, <3>1 DEF Queues, QueuedUnlessOnWire
    <3>3. \A p \in to_send_queue : p.tag = s.tag => p.on = s.on
      BY <3>1 DEF Queues, SamePacket
    <3>4. QED BY <3>1, <3>2, <3>3
  <2>2. QED BY <2>1 DEF QueuedUnlessOnWire
<1>6. QED BY <1>1, <1>2, <1>3, <1>4, <1>5 DEF Queues

\* An answer takes one packet off the sent queue; whether a port is used does not
\* depend on answers, timeouts or idle periods.
LEMMA QueuesFewerSent ==
  ASSUME TypeOK, Queues, sent_queue' \subseteq sent_queue, to_send_queue' = to_send_queue,
         nextTag' = nextTag, \A i \in Interfaces : is_used(i) => is_used(i)'
  PROVE  Queues'
<1>1. UniqueTags(sent_queue)' /\ UniqueTags(to_send_queue)'
  BY DEF Queues, UniqueTags
<1>2. TagsUsed' /\ SamePacket'
  BY DEF Queues, TagsUsed, SamePacket
<1>3. CommandsOnUsedPorts'
  BY DEF Queues, CommandsOnUsedPorts, TypeOK, SentPkt
<1>4. QueuedUnlessOnWire'
  BY DEF Queues, QueuedUnlessOnWire
<1>5. QED BY <1>1, <1>2, <1>3, <1>4 DEF Queues

\* The transmit timer: what leaves the send queue is marked as sent, unless it was
\* answered meanwhile.
LEMMA QueuesTransmitTimer ==
  ASSUME TypeOK, Queues, TransmitTimer
  PROVE  Queues'
<1> DEFINE chosen == {p \in to_send_queue : IsNext(p)}
           sending == (to_send_queue \ Waiting) \cup chosen
           output == {p \in sending : InSentQueue(p.tag)}
           Out(s) == \E p \in output : p.tag = s.tag
           New(s) == IF Out(s) THEN MarkSent(s) ELSE s
<1>1. /\ sent_queue' = {New(s) : s \in sent_queue}
      /\ to_send_queue' = to_send_queue \ sending
      /\ nextTag' = nextTag
      /\ sending \subseteq to_send_queue
  BY DEF TransmitTimer, Taken
<1>2. \A s \in sent_queue : /\ New(s).tag = s.tag /\ New(s).on = s.on /\ New(s).shelf = s.shelf
                            /\ Out(s) => OnWire(New(s))
                            /\ ~Out(s) => New(s) = s
  BY MarkedPackets DEF TypeOK, OnWire
<1>3. \A i \in Interfaces : is_used(i)' = is_used(i)
  BY UsedTransmitTimer
<1>4. \A s \in sent_queue : Out(s) <=> \E p \in sending : p.tag = s.tag
  BY DEF InSentQueue
<1> HIDE DEF output, sending, Out, New
<1>5. UniqueTags(sent_queue)' /\ UniqueTags(to_send_queue)'
  BY <1>1, <1>2 DEF Queues, UniqueTags
<1>6. TagsUsed' /\ SamePacket'
  BY <1>1, <1>2 DEF Queues, TagsUsed, SamePacket
<1>7. CommandsOnUsedPorts'
  <2>1. \A s \in sent_queue : Retransmits(New(s)) => is_used(New(s).on)
    BY <1>2 DEF Queues, CommandsOnUsedPorts, Retransmits
  <2>2. \A s \in sent_queue : New(s).on \in Interfaces
    BY <1>2 DEF TypeOK, SentPkt
  <2>3. QED BY <1>1, <1>3, <2>1, <2>2 DEF CommandsOnUsedPorts
<1>8. QueuedUnlessOnWire'
  <2>1. ASSUME NEW s \in sent_queue, Retransmits(New(s))
        PROVE  OnWire(New(s)) <=> \A p \in to_send_queue' : p.tag # New(s).tag
    <3>1. New(s).tag = s.tag /\ Retransmits(s)
      BY <1>2, <2>1 DEF Retransmits
    <3>2. OnWire(s) <=> \A p \in to_send_queue : p.tag # s.tag
      BY <3>1 DEF Queues, QueuedUnlessOnWire
    <3>3. CASE Out(s)
      <4>1. PICK p \in sending : p.tag = s.tag
        BY <1>4, <3>3
      <4>2. \A q \in to_send_queue' : q.tag # s.tag
        BY <1>1, <4>1 DEF Queues, UniqueTags
      <4>3. QED BY <1>2, <3>1, <3>3, <4>2
    <3>4. CASE ~Out(s)
      <4>1. \A p \in sending : p.tag # s.tag
        BY <1>4, <3>4
      <4>2. QED BY <1>1, <1>2, <3>1, <3>2, <3>4, <4>1
    <3>5. QED BY <3>3, <3>4
  <2>2. QED BY <1>1, <2>1 DEF QueuedUnlessOnWire
<1>9. QED BY <1>5, <1>6, <1>7, <1>8 DEF Queues

\* The retransmit timer: a packet that is late was on the wire, so that no copy of
\* it was queued, and its only copy is queued now.
LEMMA QueuesRetransmitTimer ==
  ASSUME TypeOK, Queues,
         NEW late \in SUBSET Watched, NEW old \in SUBSET Watched, RetransmitTimer(late, old)
  PROVE  Queues'
<1> DEFINE dropped == old \cup {s \in sent_queue : ~Retransmits(s)}
           left == sent_queue \ dropped
           Copy(s) == Queued(s.tag, s.on, s.shelf, TRUE)
<1>1. /\ sent_queue' = (left \ late) \cup {MarkResent(s) : s \in late}
      /\ to_send_queue' = to_send_queue \cup {Copy(s) : s \in late}
      /\ nextTag' = nextTag
  BY DEF RetransmitTimer
<1>2. late \subseteq sent_queue /\ left \subseteq sent_queue
  BY DEF Watched
<1>3. \A s \in late : /\ MarkResent(s).tag = s.tag /\ MarkResent(s).on = s.on
                      /\ MarkResent(s).shelf = s.shelf /\ ~OnWire(MarkResent(s))
                      /\ Copy(s).tag = s.tag /\ Copy(s).on = s.on /\ Copy(s).shelf = s.shelf
  BY <1>2, MarkedPackets DEF TypeOK, OnWire, Queued
<1>4. \A s \in late : Retransmits(s) /\ \A p \in to_send_queue : p.tag # s.tag
  BY <1>2 DEF Watched, CanTimeOut, Queues, QueuedUnlessOnWire
<1>5. \A i \in Interfaces : is_used(i)' = is_used(i)
  BY UsedRetransmitTimer
<1> HIDE DEF Copy, left
<1>6. UniqueTags(sent_queue)' /\ UniqueTags(to_send_queue)'
  BY <1>1, <1>2, <1>3, <1>4 DEF Queues, UniqueTags
<1>7. TagsUsed'
  BY <1>1, <1>2, <1>3 DEF Queues, TagsUsed
<1>8. SamePacket'
  BY <1>1, <1>2, <1>3, <1>4 DEF Queues, SamePacket, UniqueTags
<1>9. CommandsOnUsedPorts'
  <2>1. \A s \in sent_queue' : s.on \in Interfaces /\ (Retransmits(s) => is_used(s.on))
    BY <1>1, <1>2, <1>3, <1>4 DEF Queues, CommandsOnUsedPorts, Retransmits, TypeOK, SentPkt
  <2>2. QED BY <1>5, <2>1 DEF CommandsOnUsedPorts
<1>10. QueuedUnlessOnWire'
  <2>1. ASSUME NEW s \in left \ late, Retransmits(s)
        PROVE  OnWire(s) <=> \A p \in to_send_queue' : p.tag # s.tag
    <3>1. \A r \in late : r.tag # s.tag
      BY <1>2, <2>1 DEF Queues, UniqueTags
    <3>2. QED BY <1>1, <1>2, <1>3, <2>1, <3>1 DEF Queues, QueuedUnlessOnWire
  <2>2. ASSUME NEW r \in late
        PROVE  /\ ~OnWire(MarkResent(r))
               /\ \E p \in to_send_queue' : p.tag = MarkResent(r).tag
    BY <1>1, <1>3
  <2>3. QED BY <1>1, <2>1, <2>2 DEF QueuedUnlessOnWire
<1>11. QED BY <1>6, <1>7, <1>8, <1>9, <1>10 DEF Queues

\* A packet put into the queues keeps them consistent (send_packet_on_interface).
LEMMA QueuesSendPacket ==
  ASSUME TypeOK, Queues, NEW i \in Interfaces, NEW shelf \in Shelf,
         SendPacketOnInterface(i, shelf)
  PROVE  Queues'
<1>1. nextTag \in Tags /\ nextTag' = nextTag + 1 /\ interfaces' = interfaces
  BY DEF SendPacketOnInterface
<1>2. CASE is_used(i)
  BY <1>1, <1>2, QueuesNewPacket DEF SendPacketOnInterface
<1>3. CASE ~is_used(i)
  <2> DEFINE used == {j \in Interfaces : is_used(j)}
  <2>1. sent_queue' = sent_queue /\ to_send_queue' = {p \in to_send_queue : p.on \in used}
    BY <1>3 DEF SendPacketOnInterface, UsedOnly, TypeOK, ToSendPkt
  <2>2. \A s \in sent_queue' : s.on \in used \/ ~Retransmits(s)
    BY <2>1 DEF Queues, CommandsOnUsedPorts, TypeOK, SentPkt
  <2>3. nextTag' \in Nat /\ nextTag' >= nextTag
    BY <1>1, ServiceAssumption DEF Tags
  <2>4. \A j \in used : is_used(j)'
    BY <1>1 DEF is_used
  <2>5. QED BY <2>1, <2>2, <2>3, <2>4, QueuesPurged
<1>4. QED BY <1>2, <1>3

\* A cable that is pulled keeps the queues consistent (interface_disconnected).
LEMMA QueuesDisconnected ==
  ASSUME TypeOK, Queues, NEW i \in Interfaces, InterfaceDisconnected(i), nextTag' = nextTag
  PROVE  Queues'
<1> DEFINE used == {j \in Interfaces : is_used(j)} \ {i}
<1>1. /\ sent_queue' = {s \in sent_queue : s.on \in used}
      /\ to_send_queue' = {p \in to_send_queue : p.on \in used}
      /\ interfaces' = [interfaces EXCEPT ![i] = interface_disconnected(@)]
  BY DEF InterfaceDisconnected, PurgedSent
<1>2. \A j \in used : is_used(j)'
  BY <1>1 DEF is_used, TypeOK
<1>3. nextTag' \in Nat /\ nextTag' >= nextTag
  BY ServiceAssumption DEF TypeOK
<1>4. \A s \in sent_queue' : s.on \in used \/ ~Retransmits(s)
  BY <1>1
<1> HIDE DEF used
<1>5. QED BY <1>1, <1>2, <1>3, <1>4, QueuesPurged

\* Every step keeps the queues consistent.
LEMMA QueuesInductive ==
  TypeOK /\ FractionBelowWindow /\ Queues /\ [Next]_vars => Queues'
<1> SUFFICES ASSUME TypeOK, FractionBelowWindow, Queues, [Next]_vars
             PROVE  Queues'
  OBVIOUS
<1>1. ASSUME NEW i \in Interfaces, NEW shelf \in Shelf, SendPacketOnInterface(i, shelf)
      PROVE  Queues'
  BY <1>1, QueuesSendPacket
<1>2. ASSUME NEW i \in Interfaces, UserSearchQueue(i), nextTag \in Tags
      PROVE  Queues'
  BY <1>2, QueuesNewPacket DEF UserSearchQueue, Shelf
<1>3. CASE TransmitTimer
  BY <1>3, QueuesTransmitTimer
<1>4. CASE Retransmission
  BY <1>4, QueuesRetransmitTimer DEF Retransmission
<1>5. ASSUME NEW i \in Interfaces, i \in attached, DisableInterface(i) \/ LinkOff(i)
      PROVE  Queues'
  BY <1>5, QueuesDisconnected DEF DisableInterface, LinkOff
<1>6. ASSUME NEW i \in Interfaces, i \notin attached, LinkOff(i)
      PROVE  Queues'
  BY <1>6, QueuesFewerSent DEF LinkOff, is_used
<1>7. CASE UNCHANGED vars
  BY <1>7, QueuesFewerSent DEF vars, is_used
<1>8. ASSUME Next, \A i \in Interfaces : ~DisableInterface(i) /\ ~LinkOff(i),
             sent_queue' \subseteq sent_queue, to_send_queue' = to_send_queue, nextTag' = nextTag
      PROVE  Queues'
  BY <1>8, UsedUnlessDisconnected, QueuesFewerSent
<1>9. CASE Next /\ \A i \in Interfaces : ~DisableInterface(i) /\ ~LinkOff(i)
  <2> DEFINE FewerSent == /\ sent_queue' \subseteq sent_queue
                          /\ to_send_queue' = to_send_queue /\ nextTag' = nextTag
  <2>1. ASSUME NEW i \in Interfaces,
               \/ UserSearchCheck(i) \/ EnableInterface(i) \/ LinkOn(i)
               \/ UserSearchQueue(i) /\ nextTag \notin Tags
               \/ PeriodicSearch(i) /\ ~SendPacketOnInterface(i, Broadcast)
        PROVE  FewerSent
    BY <2>1 DEF UserSearchCheck, EnableInterface, LinkOn, UserSearchQueue, PeriodicSearch
  <2>2. Idle \/ Incoming \/ (\E n : SetUserWindow(n)) => FewerSent
    BY DEF Idle, IdleTimer, Incoming, AoeIncoming, Removed, DeviceOnline, SetUserWindow
  <2>3. FewerSent => Queues'
    BY <1>8, <1>9
  <2> HIDE DEF FewerSent
  <2>4. QED
    BY <1>1, <1>2, <1>3, <1>4, <1>9, <2>1, <2>2, <2>3 DEF Next, Search, Shelf
<1>10. \A i \in Interfaces : DisableInterface(i) => i \in attached
  BY DEF DisableInterface
<1>11. QED BY <1>5, <1>6, <1>7, <1>9, <1>10

\* The queues are consistent when the driver starts.
LEMMA QueuesInit == Init => Queues
  BY DEF Init, Queues, UniqueTags, TagsUsed, SamePacket, CommandsOnUsedPorts, QueuedUnlessOnWire

\* A command is never both on the wire and waiting for a transmission, nor neither:
\* retransmissions do not pile up behind a slow transmit timer, and no command is
\* left that neither TransmitTimer nor RetransmitTimer would ever look at.
THEOREM CommandsWaitOrFly == Spec => []QueuedUnlessOnWire
<1>1. Queues => QueuedUnlessOnWire
  BY DEF Queues
<1>2. QED BY <1>1, TypesInit, TypesInductive, QueuesInit, QueuesInductive, PTL DEF Spec

-------------------------------------------------------------------------------
\* The timers.  Most handlers neither add to what a timer must act on nor stop it.
LEMMA TimersFewerPackets ==
  ASSUME TimersArmed,
         \A s \in sent_queue' : s \in sent_queue \/ ~OnWire(s),
         \A p \in to_send_queue' : p \in to_send_queue \/ ~p.immediately,
         transmitTimer => transmitTimer', retransmitTimer => retransmitTimer'
  PROVE  TimersArmed'
  BY DEF TimersArmed

\* The transmit timer leaves no packet behind that was to be sent immediately, and
\* send_packet_from_queue arms the retransmit timer.
LEMMA TimersTransmitTimer ==
  ASSUME TimersArmed, TransmitTimer
  PROVE  TimersArmed'
<1> DEFINE chosen == {p \in to_send_queue : IsNext(p)}
           sending == (to_send_queue \ Waiting) \cup chosen
           output == {p \in sending : InSentQueue(p.tag)}
<1>1. \A p \in to_send_queue' : ~p.immediately
  BY DEF TransmitTimer, Taken, Waiting
<1>2. CASE output # {}
  BY <1>1, <1>2 DEF TransmitTimer, TimersArmed
<1>3. CASE output = {}
  <2>1. sent_queue' = {IF \E p \in output : p.tag = s.tag THEN MarkSent(s) ELSE s :
                         s \in sent_queue}
    BY DEF TransmitTimer
  <2>2. sent_queue' = sent_queue
    BY <1>3, <2>1
  <2>3. retransmitTimer => retransmitTimer'
    BY DEF TransmitTimer
  <2>4. QED BY <1>1, <2>2, <2>3 DEF TimersArmed
<1>4. QED BY <1>2, <1>3

\* The retransmit timer keeps running while anything is left, and resend_packet
\* arms the transmit timer.
LEMMA TimersRetransmitTimer ==
  ASSUME TypeOK, TimersArmed,
         NEW late \in SUBSET Watched, NEW old \in SUBSET Watched, RetransmitTimer(late, old)
  PROVE  TimersArmed'
<1> DEFINE dropped == old \cup {s \in sent_queue : ~Retransmits(s)}
           left == sent_queue \ dropped
<1>1. /\ sent_queue' = (left \ late) \cup {MarkResent(s) : s \in late}
      /\ to_send_queue' = to_send_queue \cup {Queued(s.tag, s.on, s.shelf, TRUE) : s \in late}
      /\ transmitTimer' = (transmitTimer \/ late # {})
      /\ retransmitTimer' = (left # {})
  BY DEF RetransmitTimer, KeepsWatch
<1>2. \A s \in late : ~OnWire(MarkResent(s))
  BY MarkedPackets DEF Watched, TypeOK, OnWire
<1>3. (\E s \in sent_queue' : OnWire(s)) => retransmitTimer'
  BY <1>1, <1>2
<1>4. (\E p \in to_send_queue' : p.immediately) => transmitTimer'
  BY <1>1 DEF TimersArmed
<1>5. QED BY <1>3, <1>4 DEF TimersArmed

\* Every step keeps a timer armed for what is queued.
LEMMA TimersInductive ==
  TypeOK /\ TimersArmed /\ [Next]_vars => TimersArmed'
<1> SUFFICES ASSUME TypeOK, TimersArmed, [Next]_vars
             PROVE  TimersArmed'
  OBVIOUS
<1>1. ASSUME NEW i \in Interfaces, NEW shelf \in Shelf, SendPacketOnInterface(i, shelf)
      PROVE  TimersArmed'
  <2>1. CASE is_used(i)
    BY <1>1, <2>1, TimersFewerPackets DEF SendPacketOnInterface, NewSent, Queued, OnWire
  <2>2. CASE ~is_used(i)
    BY <1>1, <2>2, TimersFewerPackets DEF SendPacketOnInterface, UsedOnly
  <2>3. QED BY <2>1, <2>2
<1>2. ASSUME NEW i \in Interfaces, UserSearchCheck(i)
      PROVE  TimersArmed'
  BY <1>2 DEF UserSearchCheck, TimersArmed
<1>3. ASSUME NEW i \in Interfaces, UserSearchQueue(i)
      PROVE  TimersArmed'
  BY <1>3, TimersFewerPackets DEF UserSearchQueue, NewSent, Queued, OnWire
<1>4. ASSUME NEW i \in Interfaces, PeriodicSearch(i)
      PROVE  TimersArmed'
  <2>1. CASE SendPacketOnInterface(i, Broadcast)
    BY <1>1, <2>1 DEF Shelf
  <2>2. CASE ~SendPacketOnInterface(i, Broadcast)
    BY <1>4, <2>2 DEF PeriodicSearch, TimersArmed
  <2>3. QED BY <2>1, <2>2
<1>5. CASE TransmitTimer
  BY <1>5, TimersTransmitTimer
<1>6. CASE Retransmission
  BY <1>6, TimersRetransmitTimer DEF Retransmission
<1>7. CASE Idle
  BY <1>7 DEF Idle, IdleTimer, TimersArmed
<1>8. CASE Incoming
  <2>1. ASSUME NEW i, NEW config, DeviceOnline(i, config) PROVE TimersArmed'
    BY <2>1 DEF DeviceOnline, TimersArmed
  <2>2. ASSUME NEW w, NEW i, NEW config, NEW error, AoeIncoming(w, i, config, error)
        PROVE  TimersArmed'
    <3>1. /\ sent_queue' \subseteq sent_queue /\ to_send_queue' = to_send_queue
          /\ transmitTimer => transmitTimer'
          /\ retransmitTimer' = retransmitTimer
      BY <2>2 DEF AoeIncoming, Removed
    <3>2. QED BY <3>1, TimersFewerPackets
  <2>3. QED BY <1>8, <2>1, <2>2 DEF Incoming
<1>9. ASSUME NEW n \in UserWindows, SetUserWindow(n)
      PROVE  TimersArmed'
  BY <1>9 DEF SetUserWindow, TimersArmed
<1>10. ASSUME NEW i \in Interfaces, EnableInterface(i) \/ LinkOn(i)
       PROVE  TimersArmed'
  BY <1>10 DEF EnableInterface, LinkOn, TimersArmed
<1>11. ASSUME NEW i \in Interfaces, DisableInterface(i) \/ LinkOff(i)
       PROVE  TimersArmed'
  BY <1>11 DEF DisableInterface, LinkOff, InterfaceDisconnected, TimersArmed
<1>12. CASE UNCHANGED vars
  BY <1>12 DEF vars, TimersArmed
<1>13. QED
  BY <1>1, <1>2, <1>3, <1>4, <1>5, <1>6, <1>7, <1>8, <1>9, <1>10, <1>11, <1>12
     DEF Next, Search, Shelf

\* Whoever must act on a packet is armed: no handler disarms the transmit timer
\* while a retransmission waits, or the retransmit timer while a packet on the wire
\* is unanswered.
THEOREM TimersStayArmed == Spec => []TimersArmed
<1>1. Init => TimersArmed
  BY DEF Init, TimersArmed
<1>2. QED BY <1>1, TypesInit, TypesInductive, TimersInductive, PTL DEF Spec

-------------------------------------------------------------------------------
\* Searches of user programs are the only thing that can put a packet on a port
\* that is not used: every other caller holds the command gate.
Gated == searching = {} /\ QueuesOnUsedPorts

\* A packet put into the queues is on a used port (send_packet_on_interface).
LEMMA GatedSendPacket ==
  ASSUME TypeOK, Gated, NEW i \in Interfaces, NEW shelf \in Shelf,
         SendPacketOnInterface(i, shelf)
  PROVE  Gated'
<1>1. interfaces' = interfaces /\ searching' = searching
  BY DEF SendPacketOnInterface, adminVars
<1>2. CASE is_used(i)
  <2>1. NewSent(nextTag, i, shelf).on = i /\ Queued(nextTag, i, shelf, FALSE).on = i
    BY DEF NewSent, Queued
  <2>2. /\ sent_queue' = sent_queue \cup {NewSent(nextTag, i, shelf)}
        /\ to_send_queue' = to_send_queue \cup {Queued(nextTag, i, shelf, FALSE)}
    BY <1>2 DEF SendPacketOnInterface
  <2>3. QED BY <1>1, <1>2, <2>1, <2>2 DEF Gated, QueuesOnUsedPorts, is_used
<1>3. CASE ~is_used(i)
  BY <1>1, <1>3 DEF SendPacketOnInterface, UsedOnly, Gated, QueuesOnUsedPorts, is_used
<1>4. QED BY <1>2, <1>3

\* Without searches by user programs, queues hold packets of used ports only.
LEMMA GatedInductive ==
  ASSUME UserSearches = FALSE
  PROVE  TypeOK /\ FractionBelowWindow /\ Gated /\ [Next]_vars => Gated'
<1> SUFFICES ASSUME TypeOK, FractionBelowWindow, Gated, [Next]_vars
             PROVE  Gated'
  OBVIOUS
<1> DEFINE OldPorts == \A q \in sent_queue' \cup to_send_queue' :
                         \E r \in sent_queue \cup to_send_queue : q.on = r.on
<1>1. ASSUME NEW i \in Interfaces, NEW shelf \in Shelf, SendPacketOnInterface(i, shelf)
      PROVE  Gated'
  BY <1>1, GatedSendPacket
<1>2. ASSUME NEW i \in Interfaces, DisableInterface(i) \/ (LinkOff(i) /\ i \in attached)
      PROVE  Gated'
  <2> DEFINE used == {j \in Interfaces : is_used(j)} \ {i}
  <2>1. InterfaceDisconnected(i) /\ searching' = searching
    BY <1>2 DEF DisableInterface, LinkOff
  <2>2. \A q \in sent_queue' \cup to_send_queue' : q.on \in used
    BY <2>1 DEF InterfaceDisconnected, PurgedSent
  <2>3. \A j \in used : is_used(j)'
    BY <2>1 DEF InterfaceDisconnected, is_used, TypeOK
  <2> HIDE DEF used
  <2>4. QED BY <2>1, <2>2, <2>3 DEF Gated, QueuesOnUsedPorts
<1>3. CASE UNCHANGED vars \/ \E i \in Interfaces : LinkOff(i) /\ i \notin attached
  <2>1. UNCHANGED <<sent_queue, to_send_queue, interfaces, searching>>
    BY <1>3 DEF vars, LinkOff
  <2>2. QED BY <2>1 DEF Gated, QueuesOnUsedPorts, is_used
<1>4. ASSUME Next, \A i \in Interfaces : ~DisableInterface(i) /\ ~LinkOff(i),
             searching' = {}, OldPorts
      PROVE  Gated'
  <2>1. \A j \in Interfaces : is_used(j) => is_used(j)'
    BY <1>4, UsedUnlessDisconnected
  <2>2. \A r \in sent_queue \cup to_send_queue : r.on \in Interfaces /\ is_used(r.on)
    BY DEF TypeOK, SentPkt, ToSendPkt, Gated, QueuesOnUsedPorts
  <2>3. QED BY <1>4, <2>1, <2>2 DEF Gated, QueuesOnUsedPorts
<1>5. CASE TransmitTimer
  <2>1. \A s \in sent_queue : MarkSent(s).on = s.on
    BY MarkedPackets DEF TypeOK
  <2>2. OldPorts /\ searching' = {}
    BY <1>5, <2>1 DEF TransmitTimer, Gated, adminVars
  <2>3. \A j \in Interfaces : is_used(j) => is_used(j)'
    BY <1>5, UsedTransmitTimer
  <2>4. \A r \in sent_queue \cup to_send_queue : r.on \in Interfaces /\ is_used(r.on)
    BY DEF TypeOK, SentPkt, ToSendPkt, Gated, QueuesOnUsedPorts
  <2>5. QED BY <2>2, <2>3, <2>4 DEF Gated, QueuesOnUsedPorts
<1>6. ASSUME NEW late \in SUBSET Watched, NEW old \in SUBSET Watched, RetransmitTimer(late, old)
      PROVE  Gated'
  <2>1. late \subseteq sent_queue
    BY DEF Watched
  <2>2. \A s \in late : MarkResent(s).on = s.on /\ Queued(s.tag, s.on, s.shelf, TRUE).on = s.on
    BY <2>1, MarkedPackets DEF TypeOK, Queued
  <2>3. OldPorts /\ searching' = {}
    <3>1. /\ sent_queue' \subseteq sent_queue \cup {MarkResent(s) : s \in late}
          /\ to_send_queue' = to_send_queue \cup {Queued(s.tag, s.on, s.shelf, TRUE) : s \in late}
          /\ searching' = searching
      BY <1>6 DEF RetransmitTimer, adminVars
    <3>2. ASSUME NEW q \in sent_queue'
          PROVE  \E r \in sent_queue \cup to_send_queue : q.on = r.on
      <4>1. CASE q \in sent_queue
        BY <4>1
      <4>2. CASE \E s \in late : q = MarkResent(s)
        BY <2>1, <2>2, <4>2
      <4>3. QED BY <3>1, <4>1, <4>2
    <3>3. ASSUME NEW q \in to_send_queue'
          PROVE  \E r \in sent_queue \cup to_send_queue : q.on = r.on
      <4>1. CASE q \in to_send_queue
        BY <4>1
      <4>2. CASE \E s \in late : q = Queued(s.tag, s.on, s.shelf, TRUE)
        BY <2>1, <2>2, <4>2
      <4>3. QED BY <3>1, <4>1, <4>2
    <3>4. searching' = {}
      BY <3>1 DEF Gated
    <3>5. QED BY <3>2, <3>3, <3>4
  <2>4. \A j \in Interfaces : is_used(j) => is_used(j)'
    BY <1>6, UsedRetransmitTimer
  <2>5. \A r \in sent_queue \cup to_send_queue : r.on \in Interfaces /\ is_used(r.on)
    BY DEF TypeOK, SentPkt, ToSendPkt, Gated, QueuesOnUsedPorts
  <2>6. QED BY <2>3, <2>4, <2>5 DEF Gated, QueuesOnUsedPorts
<1>7. CASE Next /\ \A i \in Interfaces : ~DisableInterface(i) /\ ~LinkOff(i)
  <2>1. \A i \in Interfaces : ~UserSearchCheck(i) /\ ~UserSearchQueue(i)
    BY DEF UserSearchCheck, UserSearchQueue, Gated
  <2>2. ASSUME NEW i \in Interfaces,
               \/ EnableInterface(i) \/ LinkOn(i)
               \/ PeriodicSearch(i) /\ ~SendPacketOnInterface(i, Broadcast)
        PROVE  OldPorts /\ searching' = {}
    <3>1. UNCHANGED <<sent_queue, to_send_queue, searching>>
      BY <2>2 DEF EnableInterface, LinkOn, PeriodicSearch, adminVars
    <3>2. QED BY <3>1 DEF Gated
  <2>3. Idle \/ Incoming \/ (\E n : SetUserWindow(n)) => OldPorts /\ searching' = {}
    <3>1. ASSUME Idle \/ Incoming \/ \E n : SetUserWindow(n)
          PROVE  /\ sent_queue' \subseteq sent_queue
                 /\ to_send_queue' = to_send_queue /\ searching' = searching
      BY <3>1 DEF Idle, IdleTimer, Incoming, AoeIncoming, Removed, DeviceOnline, SetUserWindow,
                  adminVars
    <3>2. QED BY <3>1 DEF Gated
  <2>4. OldPorts /\ searching' = {} => Gated'
    BY <1>4, <1>7
  <2> HIDE DEF OldPorts
  <2>5. QED
    BY <1>1, <1>5, <1>6, <1>7, <2>1, <2>2, <2>3, <2>4 DEF Next, Search, Retransmission, Shelf
<1>8. QED BY <1>2, <1>3, <1>7

\* Without searches from user programs, the queues only ever hold packets of ports
\* in use, whatever ports are removed, unplugged and plugged in again: the race of
\* find_targets with a port that goes is the only way to strand a packet there.
THEOREM GatedCallersUseLivePorts ==
  ASSUME UserSearches = FALSE
  PROVE  Spec => []QueuesOnUsedPorts
<1>1. Init => Gated
  BY DEF Init, Gated, QueuesOnUsedPorts
<1>2. Gated => QueuesOnUsedPorts
  BY DEF Gated
<1>3. TypeOK /\ FractionBelowWindow /\ Gated /\ [Next]_vars => Gated'
  BY GatedInductive
<1>4. QED BY <1>1, <1>2, <1>3, TypesInit, TypesInductive, PTL DEF Spec

-------------------------------------------------------------------------------
\* What a copy that waits says of its packet: it waits for its first transmission
\* or, sent ahead of the others, for a retransmission.
Copies ==
  \A p \in to_send_queue, s \in sent_queue :
    p.tag = s.tag => s.first = p.immediately /\ s.resent = p.immediately

\* An answer belongs to a packet that was sent: none is on the wire before that.
SentBefore ==
  \A w \in wire : w.tag < nextTag /\ \A s \in sent_queue : s.tag = w.tag => s.first

\* A port is only used while the user has it enabled.
UsedAttached == \A i \in Interfaces : is_used(i) => i \in attached

\* What the count of outstanding packets rests on, besides the queues.
Packets == Copies /\ SentBefore /\ UsedAttached

\* A new packet has its copy, and a tag no answer has yet.
LEMMA CopiesNewPacket ==
  ASSUME TypeOK, Queues, Packets, NEW i \in Interfaces, NEW shelf \in Shelf,
         nextTag \in Tags, nextTag' = nextTag + 1, wire' = wire,
         sent_queue' = sent_queue \cup {NewSent(nextTag, i, shelf)},
         to_send_queue' = to_send_queue \cup {Queued(nextTag, i, shelf, FALSE)}
  PROVE  Copies' /\ SentBefore'
<1> DEFINE s0 == NewSent(nextTag, i, shelf)
           p0 == Queued(nextTag, i, shelf, FALSE)
<1>1. /\ s0.tag = nextTag /\ s0.first = FALSE /\ s0.resent = FALSE
      /\ p0.tag = nextTag /\ p0.immediately = FALSE
  BY DEF NewSent, Queued
<1>2. nextTag \in Nat /\ \A q \in sent_queue \cup to_send_queue \cup wire : q.tag \in Nat
  BY ServiceAssumption DEF TypeOK, SentPkt, ToSendPkt, Tags
<1>3. /\ \A q \in sent_queue \cup to_send_queue : q.tag # nextTag
      /\ \A w \in wire : w.tag # nextTag /\ w.tag < nextTag'
  BY <1>2 DEF Queues, TagsUsed, Packets, SentBefore
<1>4. sent_queue' = sent_queue \cup {s0} /\ to_send_queue' = to_send_queue \cup {p0}
  OBVIOUS
<1> HIDE DEF s0, p0
<1>5. Copies'
  BY <1>1, <1>3, <1>4 DEF Packets, Copies
<1>6. SentBefore'
  BY <1>1, <1>3, <1>4 DEF Packets, SentBefore
<1>7. QED BY <1>5, <1>6

\* Packets and copies that go leave the others as they are.
LEMMA CopiesFewer ==
  ASSUME TypeOK, Packets, sent_queue' \subseteq sent_queue,
         to_send_queue' \subseteq to_send_queue, wire' = wire,
         nextTag' \in Nat, nextTag' >= nextTag
  PROVE  Copies' /\ SentBefore'
<1>1. nextTag \in Nat /\ \A w \in wire : w.tag \in Nat
  BY ServiceAssumption DEF TypeOK, Tags
<1>2. Copies'
  BY DEF Packets, Copies
<1>3. SentBefore'
  BY <1>1 DEF Packets, SentBefore
<1>4. QED BY <1>2, <1>3

\* The transmit timer: what goes out is marked as sent and has no copy any more.
LEMMA CopiesTransmitTimer ==
  ASSUME TypeOK, Queues, Packets, TransmitTimer
  PROVE  Copies' /\ SentBefore'
<1> DEFINE chosen == {p \in to_send_queue : IsNext(p)}
           sending == (to_send_queue \ Waiting) \cup chosen
           output == {p \in sending : InSentQueue(p.tag)}
           Out(s) == \E p \in output : p.tag = s.tag
           New(s) == IF Out(s) THEN MarkSent(s) ELSE s
<1>1. /\ sent_queue' = {New(s) : s \in sent_queue}
      /\ to_send_queue' = to_send_queue \ sending
      /\ nextTag' = nextTag
      /\ wire' = wire \cup {[tag |-> p.tag, shelf |-> p.shelf] : p \in output}
      /\ output \subseteq to_send_queue /\ output \subseteq sending
  BY DEF TransmitTimer, Taken
<1>2. \A s \in sent_queue : /\ New(s).tag = s.tag
                            /\ Out(s) => New(s).first
                            /\ ~Out(s) => New(s) = s
                            /\ s.first => New(s).first
  BY MarkedPackets DEF TypeOK
<1> HIDE DEF output, sending, Out, New
<1>3. Copies'
  <2> SUFFICES ASSUME NEW p \in to_send_queue', NEW s \in sent_queue, p.tag = New(s).tag
               PROVE  New(s).first = p.immediately /\ New(s).resent = p.immediately
    BY <1>1 DEF Copies
  <2>1. p \in to_send_queue /\ p \notin sending /\ p.tag = s.tag
    BY <1>1, <1>2
  <2>2. ~Out(s)
    BY <1>1, <2>1 DEF Out, Queues, UniqueTags
  <2>3. QED BY <1>2, <2>1, <2>2 DEF Packets, Copies
<1>4. SentBefore'
  <2>1. ASSUME NEW w \in wire
        PROVE  w.tag < nextTag /\ \A s \in sent_queue : New(s).tag = w.tag => New(s).first
    BY <1>2 DEF Packets, SentBefore
  <2>2. ASSUME NEW p \in output
        PROVE  p.tag < nextTag /\ \A s \in sent_queue : New(s).tag = p.tag => New(s).first
    BY <1>1, <1>2 DEF Queues, TagsUsed, Out
  <2>3. \A w \in wire' : w \in wire \/ \E p \in output : w.tag = p.tag
    BY <1>1
  <2>4. ASSUME NEW w \in wire'
        PROVE  w.tag < nextTag /\ \A s \in sent_queue : New(s).tag = w.tag => New(s).first
    BY <2>1, <2>2, <2>3
  <2>5. QED BY <1>1, <2>4 DEF SentBefore
<1>5. QED BY <1>3, <1>4

\* The retransmit timer: a late packet was sent, and its copy is sent ahead.
LEMMA CopiesRetransmitTimer ==
  ASSUME TypeOK, Queues, Packets,
         NEW late \in SUBSET Watched, NEW old \in SUBSET Watched, RetransmitTimer(late, old)
  PROVE  Copies' /\ SentBefore'
<1> DEFINE dropped == old \cup {s \in sent_queue : ~Retransmits(s)}
           left == sent_queue \ dropped
           Copy(s) == Queued(s.tag, s.on, s.shelf, TRUE)
<1>1. /\ sent_queue' = (left \ late) \cup {MarkResent(s) : s \in late}
      /\ to_send_queue' = to_send_queue \cup {Copy(s) : s \in late}
      /\ nextTag' = nextTag /\ wire' = wire
  BY DEF RetransmitTimer, networkVars
<1>2. late \subseteq sent_queue /\ left \subseteq sent_queue
  BY DEF Watched
<1>3. \A s \in late : /\ MarkResent(s).tag = s.tag /\ MarkResent(s).first = TRUE
                      /\ MarkResent(s).resent = TRUE
                      /\ Copy(s).tag = s.tag /\ Copy(s).immediately = TRUE
  <2>1. \A s \in late : s \in SentPkt /\ s.first
    BY <1>2 DEF TypeOK, Watched, CanTimeOut, OnWire
  <2>2. \A s \in late : Copy(s).tag = s.tag /\ Copy(s).immediately = TRUE
    BY DEF Queued
  <2>3. \A s \in late : MarkResent(s).tag = s.tag /\ MarkResent(s).resent = TRUE
    BY <2>1 DEF MarkResent, SentPkt
  <2>4. \A s \in late : MarkResent(s).first = TRUE
    BY <2>1 DEF MarkResent, SentPkt
  <2>5. QED BY <2>2, <2>3, <2>4
<1>4. \A s \in late : \A p \in to_send_queue : p.tag # s.tag
  BY <1>2 DEF Watched, CanTimeOut, Queues, QueuedUnlessOnWire
<1>5. \A s \in left \ late : \A r \in late : r.tag # s.tag
  BY <1>2 DEF Queues, UniqueTags
<1> HIDE DEF Copy, left
<1>6. Copies'
  <2> SUFFICES ASSUME NEW p \in to_send_queue', NEW s \in sent_queue', p.tag = s.tag
               PROVE  s.first = p.immediately /\ s.resent = p.immediately
    BY DEF Copies
  <2>1. CASE s \in left \ late
    <3>1. p \in to_send_queue
      BY <1>1, <1>3, <1>5, <2>1
    <3>2. QED BY <1>2, <2>1, <3>1 DEF Packets, Copies
  <2>2. CASE \E r \in late : s = MarkResent(r)
    <3>1. PICK r \in late : s = MarkResent(r)
      BY <2>2
    <3>2. p \notin to_send_queue
      BY <1>3, <1>4, <3>1
    <3>3. p.immediately = TRUE
      BY <1>1, <1>3, <3>2
    <3>4. QED BY <1>3, <3>1, <3>3
  <2>3. QED BY <1>1, <2>1, <2>2
<1>7. SentBefore'
  BY <1>1, <1>2, <1>3 DEF Packets, SentBefore
<1>8. QED BY <1>6, <1>7

\* A port that is removed, or whose cable is unplugged, is not used.
LEMMA DisconnectedUnused ==
  ASSUME TypeOK, NEW i \in Interfaces, InterfaceDisconnected(i)
  PROVE  /\ ~ is_used(i)'
         /\ \A j \in Interfaces \ {i} : is_used(j)' = is_used(j)
         /\ \A j \in Interfaces : interfaces'[j].outstanding = interfaces[j].outstanding
<1>1. interfaces' = [interfaces EXCEPT ![i] = interface_disconnected(@)]
  BY DEF InterfaceDisconnected
<1>2. \A f \in InterfaceState : /\ ~ interface_disconnected(f).enabled
                                /\ interface_disconnected(f).outstanding = f.outstanding
  BY DEF interface_disconnected, InterfaceState
<1>3. QED BY <1>1, <1>2 DEF is_used, TypeOK

\* Answers, idle periods, transmissions and timeouts do not bring a port into use.
LEMMA UnusedUnlessEnabled ==
  ASSUME TypeOK, FractionBelowWindow, Next,
         \A i \in Interfaces : ~ EnableInterface(i) /\ ~ LinkOn(i)
  PROVE  \A j \in Interfaces : is_used(j)' => is_used(j)
<1> SUFFICES ASSUME NEW j \in Interfaces PROVE is_used(j)' => is_used(j)
  OBVIOUS
<1>1. \A i \in Interfaces : \A shelf : SendPacketOnInterface(i, shelf) => (is_used(j)' => is_used(j))
  BY DEF SendPacketOnInterface, is_used
<1>2. \A i \in Interfaces : UserSearchCheck(i) \/ UserSearchQueue(i) => (is_used(j)' => is_used(j))
  BY DEF UserSearchCheck, UserSearchQueue, is_used
<1>3. \A i \in Interfaces : PeriodicSearch(i) => (is_used(j)' => is_used(j))
  BY <1>1 DEF PeriodicSearch, is_used
<1>4. TransmitTimer \/ Retransmission => (is_used(j)' => is_used(j))
  BY UsedTransmitTimer, UsedRetransmitTimer DEF Retransmission
<1>5. \A recent : IdleTimer(recent) => (is_used(j)' => is_used(j))
  BY PortsFromTypes, PortStaysUsed DEF PortsWellFormed, IdleTimer, is_used
<1>6. ASSUME NEW i \in Interfaces, NEW config \in Config \cup {Ata},
             NEW w \in wire, NEW error \in BOOLEAN, AoeIncoming(w, i, config, error)
      PROVE  is_used(j)' => is_used(j)
  <2> DEFINE found == InSentQueue(w.tag)
             handed == Dispatched(w, error)
             Port(k) == IF found /\ Entry(w.tag).on = k
                          THEN Answered(interfaces[k], Entry(w.tag)) ELSE interfaces[k]
  <2>1. interfaces' = [k \in Interfaces |->
                         IF handed /\ k = i THEN Configured(Port(k), config) ELSE Port(k)]
    BY <1>6 DEF AoeIncoming
  <2>2. WellFormed(Port(j)) /\ Port(j).enabled = interfaces[j].enabled
    BY PortsFromTypes, PortStaysUsed DEF PortsWellFormed
  <2>3. QED BY <2>1, <2>2, PortStaysUsed DEF is_used
<1>7. ASSUME NEW i \in Interfaces, NEW config \in Config \cup {Ata}, DeviceOnline(i, config)
      PROVE  is_used(j)' => is_used(j)
  BY <1>7, PortsFromTypes, PortStaysUsed DEF DeviceOnline, PortsWellFormed, is_used, TypeOK
<1>8. \A n : SetUserWindow(n) => (is_used(j)' => is_used(j))
  BY DEF SetUserWindow, is_used
<1>9. \A i \in Interfaces : DisableInterface(i) \/ LinkOff(i) => (is_used(j)' => is_used(j))
  BY DisconnectedUnused DEF DisableInterface, LinkOff, is_used
<1>10. QED
  BY <1>1, <1>2, <1>3, <1>4, <1>5, <1>6, <1>7, <1>8, <1>9 DEF Next, Search, Idle, Incoming

\* A cable that is plugged in brings its port into use only if the user has it
\* enabled.
LEMMA AttachedInductive ==
  ASSUME TypeOK, FractionBelowWindow, UsedAttached, [Next]_vars
  PROVE  UsedAttached'
<1>1. ASSUME NEW i \in Interfaces, EnableInterface(i) \/ LinkOn(i)
      PROVE  UsedAttached'
  BY <1>1 DEF EnableInterface, LinkOn, UsedAttached, is_used, TypeOK
<1>2. ASSUME NEW i \in Interfaces, DisableInterface(i)
      PROVE  UsedAttached'
  <2>1. InterfaceDisconnected(i) /\ attached' = attached \ {i}
    BY <1>2 DEF DisableInterface
  <2>2. QED BY <2>1, DisconnectedUnused DEF UsedAttached
<1>3. ASSUME Next, \A i \in Interfaces : ~ EnableInterface(i) /\ ~ LinkOn(i),
             \A i \in Interfaces : ~ DisableInterface(i)
      PROVE  UsedAttached'
  <2>1. attached' = attached
    <3>1. \A i \in Interfaces : \A shelf : SendPacketOnInterface(i, shelf) => attached' = attached
      BY DEF SendPacketOnInterface, adminVars
    <3>2. \A i \in Interfaces :
            UserSearchCheck(i) \/ UserSearchQueue(i) \/ PeriodicSearch(i) \/ LinkOff(i)
              => attached' = attached
      BY <3>1 DEF UserSearchCheck, UserSearchQueue, PeriodicSearch, LinkOff, adminVars
    <3>3. TransmitTimer \/ Retransmission \/ Idle => attached' = attached
      BY DEF TransmitTimer, Retransmission, RetransmitTimer, Idle, IdleTimer, adminVars
    <3>4. Incoming \/ (\E n : SetUserWindow(n)) => attached' = attached
      BY DEF Incoming, AoeIncoming, DeviceOnline, SetUserWindow, adminVars
    <3>5. QED BY <1>3, <3>1, <3>2, <3>3, <3>4 DEF Next, Search
  <2>2. \A j \in Interfaces : is_used(j)' => is_used(j)
    BY <1>3, UnusedUnlessEnabled
  <2>3. QED BY <2>1, <2>2 DEF UsedAttached
<1>4. CASE UNCHANGED vars
  BY <1>4 DEF vars, UsedAttached, is_used
<1>5. QED BY <1>1, <1>2, <1>3, <1>4

\* Every step keeps packets and their copies in agreement.
LEMMA PacketsInductive ==
  TypeOK /\ FractionBelowWindow /\ Queues /\ Packets /\ [Next]_vars => Packets'
<1> SUFFICES ASSUME TypeOK, FractionBelowWindow, Queues, Packets, [Next]_vars
             PROVE  Packets'
  OBVIOUS
<1> DEFINE Goal == Copies' /\ SentBefore'
           Fewer == /\ sent_queue' \subseteq sent_queue
                    /\ to_send_queue' \subseteq to_send_queue
                    /\ wire' = wire /\ nextTag' \in Nat /\ nextTag' >= nextTag
<1>1. nextTag \in Nat /\ nextTag >= nextTag /\ nextTag + 1 \in Nat /\ nextTag + 1 >= nextTag
  BY ServiceAssumption DEF TypeOK
<1>2. ASSUME NEW i \in Interfaces, NEW shelf \in Shelf, SendPacketOnInterface(i, shelf)
      PROVE  Goal
  <2>1. nextTag \in Tags /\ nextTag' = nextTag + 1 /\ wire' = wire
    BY <1>2 DEF SendPacketOnInterface, networkVars
  <2>2. CASE is_used(i)
    BY <1>2, <2>1, <2>2, CopiesNewPacket DEF SendPacketOnInterface
  <2>3. CASE ~ is_used(i)
    BY <1>1, <1>2, <2>1, <2>3, CopiesFewer DEF SendPacketOnInterface, UsedOnly
  <2>4. QED BY <2>2, <2>3
<1>3. ASSUME NEW i \in Interfaces, UserSearchQueue(i), nextTag \in Tags
      PROVE  Goal
  <2>1. /\ nextTag' = nextTag + 1 /\ wire' = wire
        /\ sent_queue' = sent_queue \cup {NewSent(nextTag, i, Broadcast)}
        /\ to_send_queue' = to_send_queue \cup {Queued(nextTag, i, Broadcast, FALSE)}
    BY <1>3 DEF UserSearchQueue, networkVars
  <2>2. QED BY <1>3, <2>1, CopiesNewPacket DEF Shelf
<1>4. TransmitTimer => Goal
  BY CopiesTransmitTimer
<1>5. Retransmission => Goal
  BY CopiesRetransmitTimer DEF Retransmission
<1>6. ASSUME NEW i \in Interfaces,
             \/ UserSearchCheck(i) \/ EnableInterface(i) \/ LinkOn(i)
             \/ DisableInterface(i) \/ LinkOff(i)
             \/ UserSearchQueue(i) /\ nextTag \notin Tags
             \/ PeriodicSearch(i) /\ ~SendPacketOnInterface(i, Broadcast)
      PROVE  Fewer
  <2>1. CASE \/ UserSearchCheck(i) \/ EnableInterface(i) \/ LinkOn(i)
             \/ UserSearchQueue(i) /\ nextTag \notin Tags
             \/ PeriodicSearch(i) /\ ~SendPacketOnInterface(i, Broadcast)
    BY <1>1, <2>1 DEF UserSearchCheck, EnableInterface, LinkOn, UserSearchQueue, PeriodicSearch,
                      networkVars
  <2>2. CASE DisableInterface(i) \/ LinkOff(i)
    BY <1>1, <2>2 DEF DisableInterface, LinkOff, InterfaceDisconnected, PurgedSent, networkVars
  <2>3. QED BY <1>6, <2>1, <2>2
<1>7. Idle \/ Incoming \/ (\E n : SetUserWindow(n)) \/ UNCHANGED vars => Fewer
  BY <1>1 DEF Idle, IdleTimer, Incoming, AoeIncoming, Removed, DeviceOnline, SetUserWindow,
              networkVars, vars
<1>8. Fewer => Goal
  BY CopiesFewer
<1> HIDE DEF Fewer, Goal
<1>9. Goal
  BY <1>2, <1>3, <1>4, <1>5, <1>6, <1>7, <1>8 DEF Next, Search, Shelf
<1>10. UsedAttached'
  BY AttachedInductive DEF Packets
<1>11. QED BY <1>9, <1>10 DEF Packets, Goal

\* They agree when the driver starts.
LEMMA PacketsInit == Init => Packets
  BY DEF Init, Packets, Copies, SentBefore, UsedAttached, is_used, EInterface

-------------------------------------------------------------------------------
\* The count of outstanding packets of a port, and the packets it counts.  First
\* what each handler does to both.  Packets in flight can be counted.
LEMMA FlightsFinite ==
  ASSUME TypeOK, NEW S, S \subseteq sent_queue
  PROVE  IsFiniteSet(S) /\ Cardinality(S) \in Nat
<1>1. IsFiniteSet(S)
  BY QueuesFinite DEF TypeOK
<1>2. QED BY <1>1, FS_CardinalityType

\* IsNext: at most one packet is sent that waited for the window of its port.
LEMMA OneIsNext ==
  ASSUME TypeOK, Queues, NEW p \in to_send_queue, NEW q \in to_send_queue, IsNext(p), IsNext(q)
  PROVE  p = q
<1>1. p.tag \in Int /\ q.tag \in Int
  BY DEF TypeOK, ToSendPkt, Tags
<1>2. ~(p.tag < q.tag) /\ ~(q.tag < p.tag)
  BY DEF IsNext
<1>3. p.tag = q.tag
  BY <1>1, <1>2
<1>4. QED BY <1>3 DEF Queues, UniqueTags

\* ... and that port is used and has room.
LEMMA NextHasRoom ==
  ASSUME TypeOK, NEW p \in to_send_queue, ~Busy(p)
  PROVE  /\ is_used(p.on)
         /\ interfaces[p.on].outstanding < MIN(interfaces[p.on].cwnd, userWindow)
<1> DEFINE f == interfaces[p.on]
<1>1. p.on \in Interfaces /\ p.shelf \in Shelf
  BY DEF TypeOK, ToSendPkt
<1>2. /\ f.outstanding \in Int /\ f.cwnd \in Int /\ f.min \in Int
      /\ \A s \in Shelves : f.max[s] \in Int
  BY <1>1 DEF TypeOK, InterfaceState
<1>3. userWindow \in Nat
  BY ServiceAssumption, DefaultWindowAssumption DEF TypeOK
<1>4. ~(get_outstanding(p.on) >= MaxOutstanding(p))
  BY DEF Busy
<1>5. CASE ~is_used(p.on)
  <2>1. get_outstanding(p.on) = -1 /\ MaxOutstanding(p) = MIN(MIN(-1, 0), userWindow)
    BY <1>5 DEF get_outstanding, MaxOutstanding, get_cwnd, get_max_outstanding
  <2>2. MIN(MIN(-1, 0), userWindow) = -1
    BY <1>3 DEF MIN
  <2>3. QED BY <1>4, <2>1, <2>2
<1>6. CASE is_used(p.on)
  <2>1. get_outstanding(p.on) = f.outstanding /\ get_cwnd(p.on) = f.cwnd
    BY <1>6 DEF get_outstanding, get_cwnd
  <2>2. get_max_outstanding(p.on, p.shelf) \in Int
    BY <1>1, <1>2, <1>6 DEF get_max_outstanding, Shelf
  <2>3. MaxOutstanding(p) = MIN(MIN(f.cwnd, get_max_outstanding(p.on, p.shelf)), userWindow)
    BY <2>1 DEF MaxOutstanding
  <2>4. \A a, b, c, n \in Int : ~(n >= MIN(MIN(a, b), c)) => n < MIN(a, c)
    BY DEF MIN
  <2> HIDE DEF f
  <2>5. f.outstanding < MIN(f.cwnd, userWindow)
    BY <1>2, <1>3, <1>4, <2>1, <2>2, <2>3, <2>4
  <2>6. QED BY <1>6, <2>5 DEF f
<1>7. QED BY <1>5, <1>6

\* The transmit timer: on each port nothing is sent for the first time, or one
\* packet is, which is counted and fits the window.
LEMMA TransmitCounts ==
  ASSUME TypeOK, Queues, Packets, TransmitTimer, NEW i \in Interfaces
  PROVE  \/ /\ interfaces'[i].outstanding = interfaces[i].outstanding
            /\ InFlight(i)' = InFlight(i)
         \/ /\ is_used(i)
            /\ interfaces[i].outstanding < MIN(interfaces[i].cwnd, userWindow)
            /\ interfaces'[i].outstanding = interfaces[i].outstanding + 1
            /\ Cardinality(InFlight(i)') = Cardinality(InFlight(i)) + 1
<1> DEFINE chosen == {p \in to_send_queue : IsNext(p)}
           sending == (to_send_queue \ Waiting) \cup chosen
           output == {p \in sending : InSentQueue(p.tag)}
           Out(s) == \E p \in output : p.tag = s.tag
           New(s) == IF Out(s) THEN MarkSent(s) ELSE s
           counted == {p \in {q \in output : q.on = i} : ~p.immediately}
<1>1. /\ sent_queue' = {New(s) : s \in sent_queue}
      /\ interfaces' = [j \in Interfaces |->
           AfterSending(interfaces[j], {p \in output : p.on = j})]
  BY DEF TransmitTimer
<1>2. interfaces'[i].outstanding = interfaces[i].outstanding + Cardinality(counted)
  <2>1. \A f \in InterfaceState : \A Q :
          AfterSending(f, Q).outstanding
            = f.outstanding + Cardinality({p \in Q : ~p.immediately})
    BY DEF AfterSending, InterfaceState
  <2>2. interfaces[i] \in InterfaceState
    BY DEF TypeOK
  <2>3. QED BY <1>1, <2>1, <2>2
<1>3. \A p \in counted : /\ p \in to_send_queue /\ p \in output /\ IsNext(p) /\ InSentQueue(p.tag)
                         /\ p.on = i /\ p.immediately = FALSE
  BY DEF Waiting, TypeOK, ToSendPkt
<1>4. \A s \in sent_queue : /\ s \in SentPkt
                            /\ MarkSent(s).tag = s.tag /\ MarkSent(s).on = s.on
                            /\ MarkSent(s).first = TRUE /\ MarkSent(s).resent = s.resent
  BY DEF TypeOK, MarkSent, SentPkt
<1>5. \A p \in output : p \in to_send_queue
  OBVIOUS
<1>6. \A p \in output : p.on = i /\ p.immediately = FALSE => p \in counted
  OBVIOUS
<1>7. interfaces[i].outstanding \in Int
  BY DEF TypeOK, InterfaceState
<1> HIDE DEF output, sending, chosen, counted
\* A packet in flight has no copy to send, one resent is not in flight.
<1>8. \A s \in InFlight(i) : New(s) = s
  BY <1>5 DEF InFlight, Packets, Copies, Out, TypeOK, SentPkt
<1>9. \A s \in sent_queue : Out(s) /\ s.on = i /\ ~s.resent => \E p \in counted : p.tag = s.tag
  BY <1>5, <1>6 DEF Out, Packets, Copies, Queues, SamePacket, TypeOK, SentPkt, ToSendPkt
<1>10. CASE counted = {}
  <2>1. Cardinality(counted) = 0
    BY <1>10, FS_EmptySet
  <2>2. \A s \in sent_queue : New(s).on = i /\ New(s).first /\ ~New(s).resent => New(s) = s
    BY <1>4, <1>9, <1>10
  <2>3. \A s \in sent_queue : New(s) \in InFlight(i)' => New(s) \in InFlight(i)
    BY <2>2 DEF InFlight
  <2>4. InFlight(i)' \subseteq InFlight(i)
    BY <1>1, <2>3 DEF InFlight
  <2>5. InFlight(i) \subseteq InFlight(i)'
    BY <1>1, <1>8 DEF InFlight
  <2>6. QED BY <1>2, <1>7, <2>1, <2>4, <2>5
<1>11. CASE counted # {}
  <2>1. PICK p \in counted : TRUE
    BY <1>11
  <2>2. counted = {p}
    BY <1>3, <2>1, OneIsNext
  <2>3. Cardinality(counted) = 1
    BY <2>2, FS_Singleton
  <2>4. PICK s \in sent_queue : s.tag = p.tag
    BY <1>3, <2>1 DEF InSentQueue
  <2>5. s.on = i /\ s.first = FALSE /\ s.resent = FALSE /\ Out(s)
    BY <1>3, <2>1, <2>4 DEF Packets, Copies, Queues, SamePacket, Out
  <2>6. MarkSent(s) \notin InFlight(i)
    <3>1. SUFFICES ASSUME MarkSent(s) \in sent_queue PROVE FALSE
      BY DEF InFlight
    <3>2. MarkSent(s) = s
      BY <1>4, <3>1 DEF Queues, UniqueTags
    <3>3. QED BY <1>4, <2>5, <3>2
  <2>7. InFlight(i)' = InFlight(i) \cup {MarkSent(s)}
    <3>1. New(s) = MarkSent(s)
      BY <2>5
    <3>2. MarkSent(s) \in InFlight(i)'
      BY <1>1, <1>4, <2>5, <3>1 DEF InFlight
    <3>3. InFlight(i) \subseteq InFlight(i)'
      BY <1>1, <1>8 DEF InFlight
    <3>4. ASSUME NEW r \in sent_queue, New(r) \in InFlight(i)'
          PROVE  New(r) \in InFlight(i) \/ New(r) = MarkSent(s)
      <4>1. New(r).on = i /\ New(r).first /\ ~New(r).resent
        BY <3>4 DEF InFlight
      <4>2. CASE Out(r)
        <5>1. New(r) = MarkSent(r)
          BY <4>2
        <5>2. r.on = i /\ ~r.resent
          BY <1>4, <4>1, <5>1
        <5>3. r.tag = p.tag
          BY <1>9, <2>2, <4>2, <5>2
        <5>4. r = s
          BY <2>4, <5>3 DEF Queues, UniqueTags
        <5>5. QED BY <5>1, <5>4
      <4>3. CASE ~Out(r)
        <5>1. New(r) = r
          BY <4>3
        <5>2. QED BY <4>1, <5>1 DEF InFlight
      <4>4. QED BY <4>2, <4>3
    <3>5. \A r \in InFlight(i)' : \E q \in sent_queue : r = New(q)
      BY <1>1 DEF InFlight
    <3>6. QED BY <3>2, <3>3, <3>4, <3>5
  <2>8. Cardinality(InFlight(i)') = Cardinality(InFlight(i)) + 1
    <3>1. IsFiniteSet(InFlight(i))
      BY FlightsFinite DEF InFlight
    <3>2. QED BY <2>6, <2>7, <3>1, FS_AddElement
  <2>9. is_used(i) /\ interfaces[i].outstanding < MIN(interfaces[i].cwnd, userWindow)
    BY <1>3, <2>1, NextHasRoom DEF IsNext
  <2>10. QED BY <1>2, <2>3, <2>8, <2>9
<1>12. QED BY <1>10, <1>11

\* The retransmit timer: each packet in flight that is late or dropped gives its
\* slot back; slots given back beyond those are of searches not sent yet.
LEMMA RetransmitCounts ==
  ASSUME TypeOK, NEW late \in SUBSET Watched, NEW old \in SUBSET Watched,
         RetransmitTimer(late, old), NEW i \in Interfaces
  PROVE  \E n \in Nat, m \in Nat :
           /\ m <= n
           /\ (\A s \in sent_queue : Retransmits(s)) => m = n
           /\ interfaces'[i].outstanding = interfaces[i].outstanding - n
           /\ Cardinality(InFlight(i)') = Cardinality(InFlight(i)) - m
<1> DEFINE dropped == old \cup {s \in sent_queue : ~Retransmits(s)}
           left == sent_queue \ dropped
           Released(j) == {s \in late \cup dropped : s.on = j /\ Releases(s)}
           Shrinks(j) == late # {} /\ First(late).on = j /\ is_used(j)
           Less(j) == [interfaces[j] EXCEPT !.outstanding = @ - Cardinality(Released(j))]
           n == Cardinality(Released(i))
           m == Cardinality(InFlight(i) \cap Released(i))
<1>1. /\ sent_queue' = (left \ late) \cup {MarkResent(s) : s \in late}
      /\ interfaces' = [j \in Interfaces |->
                         IF Shrinks(j) THEN shrink_on_timeout(Less(j)) ELSE Less(j)]
  BY DEF RetransmitTimer
<1>2. /\ late \subseteq sent_queue /\ old \subseteq sent_queue /\ Released(i) \subseteq sent_queue
      /\ \A s \in late \cup old : s.first
      /\ \A s \in Released(i) : s.on = i /\ ~s.resent
      /\ \A s \in late \cup dropped : s.on = i /\ ~s.resent => s \in Released(i)
  BY DEF Watched, CanTimeOut, OnWire, Releases, OccupiesSlot
<1>3. /\ IsFiniteSet(Released(i)) /\ IsFiniteSet(InFlight(i))
      /\ n \in Nat /\ m \in Nat /\ Cardinality(InFlight(i)) \in Nat
  <2>1. InFlight(i) \subseteq sent_queue /\ InFlight(i) \cap Released(i) \subseteq sent_queue
    BY DEF InFlight
  <2>2. QED BY <1>2, <2>1, FlightsFinite
<1>4. interfaces'[i].outstanding = interfaces[i].outstanding - n
  <2>1. \A f \in InterfaceState : shrink_on_timeout(f).outstanding = f.outstanding
    BY DEF shrink_on_timeout, set_cwnd, set_ssthresh, InterfaceState
  <2>2. \A f \in InterfaceState, k \in Int :
          /\ [f EXCEPT !.outstanding = @ - k] \in InterfaceState
          /\ [f EXCEPT !.outstanding = @ - k].outstanding = f.outstanding - k
    BY DEF InterfaceState
  <2>3. interfaces[i] \in InterfaceState /\ n \in Int
    BY <1>3 DEF TypeOK
  <2>4. Less(i) \in InterfaceState /\ Less(i).outstanding = interfaces[i].outstanding - n
    BY <2>2, <2>3
  <2> HIDE DEF Less, Shrinks, n
  <2>5. QED BY <1>1, <2>1, <2>4
<1>5. InFlight(i)' = InFlight(i) \ Released(i)
  <2>1. \A s \in late : MarkResent(s).resent
    BY <1>2 DEF MarkResent, TypeOK, SentPkt
  <2>2. ASSUME NEW s \in InFlight(i)'
        PROVE  s \in InFlight(i) \ Released(i)
    <3>1. s \in left \ late /\ s.on = i /\ s.first /\ ~s.resent
      BY <1>1, <2>1 DEF InFlight
    <3>2. QED BY <3>1 DEF InFlight
  <2>3. ASSUME NEW s \in InFlight(i), s \notin Released(i)
        PROVE  s \in InFlight(i)'
    <3>1. s \in sent_queue /\ s.on = i /\ s.first /\ ~s.resent
      BY DEF InFlight
    <3>2. s \notin late \cup dropped
      BY <1>2, <2>3, <3>1
    <3>3. s \in sent_queue'
      BY <1>1, <3>1, <3>2
    <3>4. QED BY <3>1, <3>3 DEF InFlight
  <2>4. QED BY <2>2, <2>3
<1>6. Cardinality(InFlight(i)') = Cardinality(InFlight(i)) - m
  BY <1>3, <1>5, FS_Difference
<1>7. m <= n
  BY <1>3, FS_Intersection
<1>8. ASSUME \A s \in sent_queue : Retransmits(s)
      PROVE  m = n
  <2>1. dropped = old
    BY <1>8
  <2>2. Released(i) \subseteq InFlight(i)
    BY <1>2, <2>1 DEF InFlight
  <2>3. InFlight(i) \cap Released(i) = Released(i)
    BY <2>2
  <2>4. QED BY <2>3
<1> HIDE DEF n, m
<1>9. QED BY <1>3, <1>4, <1>6, <1>7, <1>8

\* An answer takes one packet in flight off its port and the count, or finds none.
LEMMA AnswerCounts ==
  ASSUME TypeOK, FractionBelowWindow, Queues, Packets,
         NEW w \in wire, NEW i \in Interfaces, NEW config \in Config \cup {Ata},
         NEW error \in BOOLEAN, AoeIncoming(w, i, config, error), NEW j \in Interfaces
  PROVE  \/ /\ interfaces'[j].outstanding \in {interfaces[j].outstanding,
                                               MAX(interfaces[j].outstanding, 0)}
            /\ InFlight(j)' = InFlight(j)
         \/ /\ interfaces'[j].outstanding = MAX(interfaces[j].outstanding - 1, 0)
            /\ Cardinality(InFlight(j)) >= 1
            /\ Cardinality(InFlight(j)') = Cardinality(InFlight(j)) - 1
<1> DEFINE found == InSentQueue(w.tag)
           handed == Dispatched(w, error)
           s == Entry(w.tag)
           Port(k) == IF found /\ s.on = k THEN Answered(interfaces[k], s) ELSE interfaces[k]
<1>1. /\ sent_queue' = {r \in sent_queue : r.tag # w.tag}
      /\ interfaces' = [k \in Interfaces |->
           IF handed /\ k = i THEN Configured(Port(k), config) ELSE Port(k)]
  BY DEF AoeIncoming, Removed
<1>2. WellFormed(interfaces[j]) /\ WellFormed(Port(j))
  BY PortsFromTypes, AnsweredWellFormed DEF PortsWellFormed
<1>3. interfaces'[j].outstanding = Port(j).outstanding
  <2>1. \A f : WellFormed(f) => Configured(f, config).outstanding = f.outstanding
    BY DEF Configured, set_max_outstanding, WellFormed, InterfaceState
  <2> HIDE DEF Port
  <2>2. QED BY <1>1, <1>2, <2>1
<1>4. found => s \in sent_queue /\ s.tag = w.tag /\ s.first
  BY DEF InSentQueue, Entry, Packets, SentBefore
<1>5. \A r \in sent_queue : r.tag = w.tag => found /\ r = s
  BY <1>4 DEF InSentQueue, Queues, UniqueTags
<1>6. CASE ~(found /\ s.on = j)
  <2>1. Port(j) = interfaces[j]
    BY <1>6
  <2>2. InFlight(j)' = InFlight(j)
    BY <1>1, <1>5, <1>6 DEF InFlight
  <2>3. QED BY <1>3, <2>1, <2>2
<1>7. CASE found /\ s.on = j
  <2> DEFINE n == MAX(IF OccupiesSlot(s) THEN interfaces[j].outstanding - 1
                                         ELSE interfaces[j].outstanding, 0)
             g == [interfaces[j] EXCEPT !.outstanding = n]
  <2>1. n \in Int
    BY <1>2 DEF WellFormed, InterfaceState, MAX
  <2>2. WellFormed(g) /\ g.outstanding = n
    BY <1>2, <2>1, OutstandingWellFormed DEF WellFormed, InterfaceState
  <2>3. \A h : WellFormed(h) => grow_on_reply(h).outstanding = h.outstanding
    BY DEF grow_on_reply, grow_cwnd, WellFormed, InterfaceState
  <2>4. Port(j) = IF g.enabled THEN grow_on_reply(g) ELSE g
    BY <1>7 DEF Answered
  <2> HIDE DEF n, g
  <2>5. interfaces'[j].outstanding = n
    BY <1>3, <2>2, <2>3, <2>4
  <2>6. CASE s.resent
    <3>1. n = MAX(interfaces[j].outstanding, 0)
      BY <2>6 DEF n, OccupiesSlot
    <3>2. InFlight(j)' = InFlight(j)
      BY <1>1, <1>5, <2>6 DEF InFlight
    <3>3. QED BY <2>5, <3>1, <3>2
  <2>7. CASE ~s.resent
    <3>1. n = MAX(interfaces[j].outstanding - 1, 0)
      BY <2>7 DEF n, OccupiesSlot
    <3>2. s \in InFlight(j) /\ InFlight(j)' = InFlight(j) \ {s}
      BY <1>1, <1>4, <1>5, <1>7, <2>7 DEF InFlight
    <3>3. IsFiniteSet(InFlight(j)) /\ Cardinality(InFlight(j)) \in Nat
      BY FlightsFinite DEF InFlight
    <3>4. Cardinality(InFlight(j)') = Cardinality(InFlight(j)) - 1
      <4>1. Cardinality(InFlight(j) \ {s}) = Cardinality(InFlight(j)) - 1
        <5> HIDE DEF s
        <5>1. QED BY <3>2, <3>3, FS_RemoveElement
      <4>2. QED BY <3>2, <4>1
    <3>5. Cardinality(InFlight(j)) >= 1
      <4>1. Cardinality(InFlight(j)) # 0
        BY <3>2, <3>3, FS_EmptySet
      <4>2. QED BY <3>3, <4>1
    <3>6. QED BY <2>5, <3>1, <3>4, <3>5
  <2>8. QED BY <2>6, <2>7
<1>8. QED BY <1>6, <1>7

\* An idle period: the count is only reset on ports that have no command in flight.
LEMMA IdleCounts ==
  ASSUME TypeOK, Queues, Packets, NEW recent, IdleTimer(recent), NEW j \in Interfaces
  PROVE  /\ InFlight(j)' = InFlight(j)
         /\ \/ interfaces'[j].outstanding = interfaces[j].outstanding
            \/ /\ interfaces'[j].outstanding = 0
               /\ \A s \in InFlight(j) : ~Retransmits(s)
<1>1. InFlight(j)' = InFlight(j)
  BY DEF IdleTimer, InFlight
<1>2. ASSUME NEW s \in InFlight(j) PROVE ~Retransmits(s)
  <2> SUFFICES ASSUME Retransmits(s) PROVE FALSE
    OBVIOUS
  <2>1. s \in sent_queue /\ s.first /\ ~s.resent
    BY DEF InFlight
  <2>2. \A p \in to_send_queue : p.tag # s.tag
    BY <2>1 DEF Packets, Copies
  <2>3. OnWire(s)
    BY <2>1, <2>2 DEF Queues, QueuedUnlessOnWire
  <2>4. QED BY <2>1, <2>3 DEF IdleTimer, CanTimeOut
<1>3. \/ interfaces'[j].outstanding = interfaces[j].outstanding
      \/ interfaces'[j].outstanding = 0
  <2>1. \A f \in InterfaceState : reset_if_idle(f).outstanding = 0
    BY DEF reset_if_idle, restart, set_cwnd, set_ssthresh, InterfaceState
  <2>2. interfaces[j] \in InterfaceState
    BY DEF TypeOK
  <2>3. interfaces'[j] \in {interfaces[j], reset_if_idle(interfaces[j])}
    BY DEF IdleTimer
  <2>4. QED BY <2>1, <2>2, <2>3
<1>4. QED BY <1>1, <1>2, <1>3

\* A port that goes keeps its count, and so does one that comes back; the packets
\* in flight on it are gone, those on the other ports in use are not.
LEMMA DisconnectedCounts ==
  ASSUME TypeOK, NEW i \in Interfaces, InterfaceDisconnected(i), NEW j \in Interfaces
  PROVE  /\ interfaces'[j].outstanding = interfaces[j].outstanding
         /\ InFlight(j)' = IF is_used(j) /\ j # i THEN InFlight(j) ELSE {}
<1>1. sent_queue' = {s \in sent_queue : s.on \in {k \in Interfaces : is_used(k)} \ {i}}
  BY DEF InterfaceDisconnected, PurgedSent
<1>2. InFlight(j)' = IF is_used(j) /\ j # i THEN InFlight(j) ELSE {}
  BY <1>1 DEF InFlight
<1>3. QED BY <1>2, DisconnectedUnused

\* A port the user adds starts with an empty count.
LEMMA EnabledCounts ==
  ASSUME TypeOK, NEW i \in Interfaces, EnableInterface(i), NEW j \in Interfaces
  PROVE  /\ InFlight(j)' = InFlight(j)
         /\ interfaces'[j].outstanding = IF j = i THEN 0 ELSE interfaces[j].outstanding
         /\ j # i => (is_used(j)' <=> is_used(j))
<1>1. \A f \in InterfaceState : enable_interface(f).outstanding = 0
  BY DEF enable_interface, restart, set_cwnd, set_ssthresh, InterfaceState
<1>2. QED BY <1>1 DEF EnableInterface, InFlight, TypeOK, is_used

\* All other handlers leave counts and packets in flight alone.
Uncounted ==
  \A j \in Interfaces :
    /\ interfaces'[j].outstanding = interfaces[j].outstanding
    /\ InFlight(j)' = InFlight(j)

\* A packet that is queued is not in flight.
LEMMA QueuedCounts ==
  ASSUME NEW i \in Interfaces, NEW shelf, interfaces' = interfaces,
         sent_queue' \in {sent_queue, sent_queue \cup {NewSent(nextTag, i, shelf)}}
  PROVE  Uncounted
<1>1. ~ NewSent(nextTag, i, shelf).first
  BY DEF NewSent
<1>2. \A j \in Interfaces : InFlight(j)' = InFlight(j)
  BY <1>1 DEF InFlight
<1>3. QED BY <1>2 DEF Uncounted

\* Which handlers these are.
LEMMA OtherCounts ==
  ASSUME TypeOK, FractionBelowWindow,
         \/ \E i \in Interfaces, shelf \in Shelf : SendPacketOnInterface(i, shelf)
         \/ \E i \in Interfaces : UserSearchCheck(i) \/ UserSearchQueue(i) \/ PeriodicSearch(i)
         \/ \E i \in Interfaces, config \in Config \cup {Ata} : DeviceOnline(i, config)
         \/ \E n : SetUserWindow(n)
         \/ \E i \in Interfaces : LinkOn(i) \/ (LinkOff(i) /\ i \notin attached)
         \/ UNCHANGED vars
  PROVE  Uncounted
<1>1. ASSUME NEW i \in Interfaces, NEW shelf \in Shelf, SendPacketOnInterface(i, shelf)
      PROVE  Uncounted
  BY <1>1, QueuedCounts DEF SendPacketOnInterface
<1>2. ASSUME NEW i \in Interfaces, UserSearchCheck(i) \/ UserSearchQueue(i)
      PROVE  Uncounted
  BY <1>2, QueuedCounts DEF UserSearchCheck, UserSearchQueue
<1>3. ASSUME NEW i \in Interfaces, PeriodicSearch(i)
      PROVE  Uncounted
  <2>1. CASE SendPacketOnInterface(i, Broadcast)
    BY <1>1, <2>1 DEF Shelf
  <2>2. CASE ~ SendPacketOnInterface(i, Broadcast)
    BY <1>3, <2>2, QueuedCounts DEF PeriodicSearch
  <2>3. QED BY <2>1, <2>2
<1>4. ASSUME NEW i \in Interfaces, NEW config \in Config \cup {Ata}, DeviceOnline(i, config)
      PROVE  Uncounted
  <2>1. \A f \in InterfaceState : Configured(f, config).outstanding = f.outstanding
    BY DEF Configured, set_max_outstanding, InterfaceState
  <2>2. sent_queue' = sent_queue
    BY <1>4 DEF DeviceOnline
  <2>3. interfaces' = [interfaces EXCEPT ![i] = Configured(interfaces[i], config)]
    BY <1>4 DEF DeviceOnline
  <2>4. QED BY <2>1, <2>2, <2>3 DEF Uncounted, InFlight, TypeOK
<1>5. ASSUME NEW n, SetUserWindow(n)
      PROVE  Uncounted
  BY <1>5 DEF SetUserWindow, Uncounted, InFlight
<1>6. ASSUME NEW i \in Interfaces, LinkOn(i)
      PROVE  Uncounted
  <2>1. \A f \in InterfaceState : interface_reconnected(f).outstanding = f.outstanding
    BY DEF interface_reconnected, InterfaceState
  <2>2. QED BY <1>6, <2>1 DEF LinkOn, Uncounted, InFlight, TypeOK
<1>7. ASSUME NEW i \in Interfaces, LinkOff(i), i \notin attached
      PROVE  Uncounted
  BY <1>7 DEF LinkOff, Uncounted, InFlight
<1>8. CASE UNCHANGED vars
  BY <1>8 DEF vars, Uncounted, InFlight
<1>9. QED BY <1>1, <1>2, <1>3, <1>4, <1>5, <1>6, <1>7, <1>8

-------------------------------------------------------------------------------
\* No slot lost: the count of a port in use never exceeds its packets in flight.
\* It would, were cables plugged in again: interface_reconnected keeps the count.
NoneLost == link = Interfaces /\ NoSlotLost

\* The transmit timer loses no slot.
LEMMA NoneLostTransmitTimer ==
  ASSUME TypeOK, Queues, Packets, NoneLost, TransmitTimer
  PROVE  NoneLost'
<1>1. link' = link
  BY DEF TransmitTimer, adminVars
<1>2. ASSUME NEW j \in Interfaces, is_used(j)'
      PROVE  interfaces'[j].outstanding <= Cardinality(InFlight(j)')
  <2>1. is_used(j)
    BY <1>2, UsedTransmitTimer
  <2>2. interfaces[j].outstanding <= Cardinality(InFlight(j))
    BY <2>1 DEF NoneLost, NoSlotLost
  <2>3. interfaces[j].outstanding \in Int /\ Cardinality(InFlight(j)) \in Nat
    BY FlightsFinite DEF TypeOK, InterfaceState, InFlight
  <2>4. CASE /\ interfaces'[j].outstanding = interfaces[j].outstanding
             /\ InFlight(j)' = InFlight(j)
    BY <2>2, <2>4
  <2>5. CASE /\ interfaces'[j].outstanding = interfaces[j].outstanding + 1
             /\ Cardinality(InFlight(j)') = Cardinality(InFlight(j)) + 1
    BY <2>2, <2>3, <2>5
  <2>6. QED BY <2>4, <2>5, TransmitCounts
<1>3. QED BY <1>1, <1>2 DEF NoneLost, NoSlotLost

\* The retransmit timer loses none.
LEMMA NoneLostRetransmitTimer ==
  ASSUME TypeOK, NoneLost,
         NEW late \in SUBSET Watched, NEW old \in SUBSET Watched, RetransmitTimer(late, old)
  PROVE  NoneLost'
<1>1. link' = link
  BY DEF RetransmitTimer, adminVars
<1>2. ASSUME NEW j \in Interfaces, is_used(j)'
      PROVE  interfaces'[j].outstanding <= Cardinality(InFlight(j)')
  <2>1. is_used(j)
    BY <1>2, UsedRetransmitTimer
  <2>2. interfaces[j].outstanding <= Cardinality(InFlight(j))
    BY <2>1 DEF NoneLost, NoSlotLost
  <2>3. interfaces[j].outstanding \in Int /\ Cardinality(InFlight(j)) \in Nat
    BY FlightsFinite DEF TypeOK, InterfaceState, InFlight
  <2>4. PICK n \in Nat, m \in Nat :
          /\ m <= n
          /\ interfaces'[j].outstanding = interfaces[j].outstanding - n
          /\ Cardinality(InFlight(j)') = Cardinality(InFlight(j)) - m
    BY RetransmitCounts
  <2>5. QED BY <2>2, <2>3, <2>4
<1>3. QED BY <1>1, <1>2 DEF NoneLost, NoSlotLost

\* Nor do answers.
LEMMA NoneLostAnswer ==
  ASSUME TypeOK, FractionBelowWindow, Queues, Packets, NoneLost, Next,
         \A j \in Interfaces : is_used(j)' => is_used(j),
         NEW w \in wire, NEW i \in Interfaces, NEW config \in Config \cup {Ata},
         NEW error \in BOOLEAN, AoeIncoming(w, i, config, error)
  PROVE  NoneLost'
<1>1. link' = link
  BY DEF AoeIncoming, adminVars
<1>2. ASSUME NEW j \in Interfaces, is_used(j)'
      PROVE  interfaces'[j].outstanding <= Cardinality(InFlight(j)')
  <2>1. interfaces[j].outstanding <= Cardinality(InFlight(j))
    BY <1>2 DEF NoneLost, NoSlotLost
  <2>2. interfaces[j].outstanding \in Int /\ Cardinality(InFlight(j)) \in Nat
    BY FlightsFinite DEF TypeOK, InterfaceState, InFlight
  <2>3. CASE /\ interfaces'[j].outstanding \in {interfaces[j].outstanding,
                                               MAX(interfaces[j].outstanding, 0)}
             /\ InFlight(j)' = InFlight(j)
    BY <2>1, <2>2, <2>3 DEF MAX
  <2>4. CASE /\ interfaces'[j].outstanding = MAX(interfaces[j].outstanding - 1, 0)
             /\ Cardinality(InFlight(j)) >= 1
             /\ Cardinality(InFlight(j)') = Cardinality(InFlight(j)) - 1
    BY <2>1, <2>2, <2>4 DEF MAX
  <2>5. QED BY <2>3, <2>4, AnswerCounts
<1>3. QED BY <1>1, <1>2 DEF NoneLost, NoSlotLost

\* Ports that are added, removed or idle, and all handlers that do not count.
LEMMA NoneLostUncounted ==
  ASSUME NoneLost, link' = link,
         \A j \in Interfaces : is_used(j)' =>
           \/ /\ is_used(j)
              /\ interfaces'[j].outstanding = interfaces[j].outstanding
              /\ InFlight(j)' = InFlight(j)
           \/ interfaces'[j].outstanding = 0 /\ Cardinality(InFlight(j)') \in Nat
  PROVE  NoneLost'
  BY DEF NoneLost, NoSlotLost

\* No step loses a slot, as long as cables stay in.
LEMMA NoneLostInductive ==
  ASSUME CableEvents = FALSE
  PROVE  (TypeOK /\ FractionBelowWindow /\ Queues /\ Packets /\ NoneLost /\ [Next]_vars)
           => NoneLost'
<1> SUFFICES ASSUME TypeOK, FractionBelowWindow, Queues, Packets, NoneLost, [Next]_vars
             PROVE  NoneLost'
  OBVIOUS
<1>1. \A i \in Interfaces : ~ LinkOn(i) /\ ~ LinkOff(i)
  BY DEF LinkOn, LinkOff, NoneLost
<1>2. \A j \in Interfaces : Cardinality(InFlight(j)) \in Nat
  BY FlightsFinite DEF InFlight
<1>3. CASE TransmitTimer
  BY <1>3, NoneLostTransmitTimer
<1>4. CASE Retransmission
  BY <1>4, NoneLostRetransmitTimer DEF Retransmission
<1>5. ASSUME NEW i \in Interfaces, EnableInterface(i)
      PROVE  NoneLost'
  <2>1. link' = link
    BY <1>5 DEF EnableInterface
  <2>2. QED BY <1>2, <1>5, <2>1, EnabledCounts, NoneLostUncounted
<1>6. ASSUME Next, \A i \in Interfaces : ~ EnableInterface(i)
      PROVE  \A j \in Interfaces : is_used(j)' => is_used(j)
  BY <1>1, <1>6, UnusedUnlessEnabled
<1>7. ASSUME NEW i \in Interfaces, DisableInterface(i), Next,
             \A j \in Interfaces : is_used(j)' => is_used(j)
      PROVE  NoneLost'
  <2>1. InterfaceDisconnected(i) /\ link' = link
    BY <1>7 DEF DisableInterface
  <2>2. \A j \in Interfaces : is_used(j)' => j # i
    BY <2>1, DisconnectedUnused
  <2>3. QED BY <1>7, <2>1, <2>2, DisconnectedCounts, NoneLostUncounted
<1>8. ASSUME NEW recent, IdleTimer(recent), \A j \in Interfaces : is_used(j)' => is_used(j)
      PROVE  NoneLost'
  <2>1. link' = link
    BY <1>8 DEF IdleTimer, adminVars
  <2>2. QED BY <1>2, <1>8, <2>1, IdleCounts, NoneLostUncounted
<1>9. ASSUME Uncounted, link' = link, \A j \in Interfaces : is_used(j)' => is_used(j)
      PROVE  NoneLost'
  BY <1>9, NoneLostUncounted DEF Uncounted
<1>10. CASE UNCHANGED vars
  BY <1>9, <1>10, OtherCounts DEF vars, is_used
<1>11. CASE Next /\ \A i \in Interfaces : ~ EnableInterface(i)
  <2>1. \A j \in Interfaces : is_used(j)' => is_used(j)
    BY <1>6, <1>11
  <2>2. ASSUME NEW w \in wire, NEW i \in Interfaces, NEW config \in Config \cup {Ata},
               NEW error \in BOOLEAN, AoeIncoming(w, i, config, error)
        PROVE  NoneLost'
    BY <1>11, <2>1, <2>2, NoneLostAnswer
  <2>3. ASSUME \/ \E i \in Interfaces, shelf \in Shelf : SendPacketOnInterface(i, shelf)
               \/ \E i \in Interfaces : UserSearchCheck(i) \/ UserSearchQueue(i) \/ PeriodicSearch(i)
               \/ \E i \in Interfaces, config \in Config \cup {Ata} : DeviceOnline(i, config)
               \/ \E n : SetUserWindow(n)
        PROVE  NoneLost'
    <3>1. link' = link
      BY <2>3 DEF SendPacketOnInterface, UserSearchCheck, UserSearchQueue, PeriodicSearch,
                  DeviceOnline, SetUserWindow, adminVars
    <3>2. Uncounted
      BY <2>3, OtherCounts
    <3>3. QED BY <1>9, <2>1, <3>1, <3>2
  <2>4. CASE \E i \in Interfaces : DisableInterface(i)
    BY <1>7, <1>11, <2>1, <2>4
  <2>5. CASE Idle
    BY <1>8, <2>1, <2>5 DEF Idle
  <2>6. CASE Incoming
    BY <2>2, <2>3, <2>6 DEF Incoming
  <2>7. QED
    BY <1>1, <1>3, <1>4, <1>11, <2>3, <2>4, <2>5, <2>6 DEF Next, Search, Shelf
<1>12. QED BY <1>5, <1>10, <1>11

\* NoSlotLost: as long as no cable is pulled, no slot of the window of a port in use is
\* ever lost, whatever is sent, searched for, timed out, answered twice or refused, and
\* whatever ports users add and remove (AoEService.cpp:697-710, 1386, 1536, 1564).
THEOREM NoSlotIsLost ==
  ASSUME CableEvents = FALSE
  PROVE  Spec => []NoSlotLost
<1>1. Init => NoneLost
  BY DEF Init, NoneLost, NoSlotLost, is_used, EInterface
<1>2. (TypeOK /\ FractionBelowWindow /\ Queues /\ Packets /\ NoneLost /\ [Next]_vars)
        => NoneLost'
  BY NoneLostInductive
<1>3. NoneLost => NoSlotLost
  BY DEF NoneLost
<1>4. QED
  BY <1>1, <1>2, <1>3, TypesInit, TypesInductive, QueuesInit, QueuesInductive,
     PacketsInit, PacketsInductive, PTL DEF Spec

-------------------------------------------------------------------------------
\* No packet uncounted: with commands alone the count of a port covers the packets in
\* flight on it, whether the port is used or not, whatever happens to its cable.  A
\* search would break this: the slot of one that was never sent is given back.
NoSearches == Destinations \subseteq Shelves

CommandsAlone == searching = {} /\ \A s \in sent_queue : Retransmits(s)

Covered == \A i \in Interfaces : interfaces[i].outstanding >= Cardinality(InFlight(i))

\* Steps after which the sent queue holds what it did, or packets with the same shelf.
LEMMA CommandsAloneKept ==
  ASSUME CommandsAlone, searching' = searching,
         \A s \in sent_queue' : \E r \in sent_queue : s.shelf = r.shelf
  PROVE  CommandsAlone'
  BY DEF CommandsAlone, Retransmits

\* Nothing but commands is queued, if that is all that callers ask for.
LEMMA CommandsAloneInductive ==
  ASSUME NoSearches, TypeOK, CommandsAlone, [Next]_vars
  PROVE  CommandsAlone'
<1> DEFINE Same == /\ searching' = searching
                   /\ \A s \in sent_queue' : \E r \in sent_queue : s.shelf = r.shelf
<1>1. ASSUME NEW i \in Interfaces, NEW shelf \in Shelf, SendPacketOnInterface(i, shelf)
      PROVE  CommandsAlone'
  <2>1. shelf # Broadcast
    BY <1>1, ServiceAssumption DEF SendPacketOnInterface, CanSend, NoSearches
  <2>2. Retransmits(NewSent(nextTag, i, shelf))
    BY <2>1 DEF Retransmits, NewSent
  <2>3. QED BY <1>1, <2>2 DEF SendPacketOnInterface, CommandsAlone, adminVars
<1>2. \A i \in Interfaces : ~ UserSearchCheck(i) /\ ~ UserSearchQueue(i)
  <2>1. Broadcast \notin Destinations
    BY ServiceAssumption DEF NoSearches
  <2>2. QED BY <2>1 DEF UserSearchCheck, UserSearchQueue, CommandsAlone
<1>3. CASE TransmitTimer
  <2> DEFINE output == {p \in (to_send_queue \ Waiting) \cup {p \in to_send_queue : IsNext(p)} :
                          InSentQueue(p.tag)}
             New(s) == IF \E p \in output : p.tag = s.tag THEN MarkSent(s) ELSE s
  <2>1. sent_queue' = {New(s) : s \in sent_queue} /\ searching' = searching
    BY <1>3 DEF TransmitTimer, adminVars
  <2>2. \A s \in sent_queue : New(s).shelf = s.shelf
    BY MarkedPackets DEF TypeOK
  <2> HIDE DEF New
  <2>3. QED BY <2>1, <2>2, CommandsAloneKept
<1>4. ASSUME NEW late \in SUBSET Watched, NEW old \in SUBSET Watched, RetransmitTimer(late, old)
      PROVE  CommandsAlone'
  <2>1. /\ sent_queue' \subseteq sent_queue \cup {MarkResent(s) : s \in late}
        /\ searching' = searching
    BY <1>4 DEF RetransmitTimer, adminVars
  <2>2. \A s \in late : s \in sent_queue /\ MarkResent(s).shelf = s.shelf
    BY MarkedPackets DEF Watched, TypeOK
  <2>3. QED BY <2>1, <2>2, CommandsAloneKept
<1>5. ASSUME searching' = searching, sent_queue' \subseteq sent_queue
      PROVE  CommandsAlone'
  BY <1>5 DEF CommandsAlone
<1>6. ASSUME NEW i \in Interfaces,
             \/ EnableInterface(i) \/ LinkOn(i) \/ DisableInterface(i) \/ LinkOff(i)
             \/ PeriodicSearch(i) /\ ~SendPacketOnInterface(i, Broadcast)
      PROVE  CommandsAlone'
  BY <1>5, <1>6 DEF EnableInterface, LinkOn, DisableInterface, LinkOff, InterfaceDisconnected,
                    PurgedSent, PeriodicSearch, adminVars
<1>7. CASE Idle \/ Incoming \/ (\E n : SetUserWindow(n)) \/ UNCHANGED vars
  BY <1>5, <1>7 DEF Idle, IdleTimer, Incoming, AoeIncoming, Removed, DeviceOnline,
                    SetUserWindow, adminVars, vars
<1>8. CASE Retransmission
  BY <1>4, <1>8 DEF Retransmission
<1>9. CASE Search
  BY <1>1, <1>6, <1>9 DEF Search, Shelf
<1>10. QED
  BY <1>1, <1>2, <1>3, <1>6, <1>7, <1>8, <1>9 DEF Next, Shelf

\* A port that is not used has nothing in flight.
LEMMA UnusedHasNoFlights ==
  ASSUME Queues, CommandsAlone, NEW j \in Interfaces, ~ is_used(j)
  PROVE  InFlight(j) = {} /\ Cardinality(InFlight(j)) = 0
<1>1. InFlight(j) = {}
  BY DEF Queues, CommandsOnUsedPorts, CommandsAlone, InFlight
<1>2. QED BY <1>1, FS_EmptySet

\* What each handler does to one port.
LEMMA CoveredTimers ==
  ASSUME TypeOK, Queues, Packets, CommandsAlone, Covered, TransmitTimer \/ Retransmission
  PROVE  Covered'
<1> SUFFICES ASSUME NEW j \in Interfaces
             PROVE  interfaces'[j].outstanding >= Cardinality(InFlight(j)')
  BY DEF Covered
<1>1. interfaces[j].outstanding >= Cardinality(InFlight(j))
  BY DEF Covered
<1>2. interfaces[j].outstanding \in Int /\ Cardinality(InFlight(j)) \in Nat
  BY FlightsFinite DEF TypeOK, InterfaceState, InFlight
<1>3. CASE TransmitTimer
  BY <1>1, <1>2, <1>3, TransmitCounts
<1>4. CASE Retransmission
  <2>1. PICK n \in Nat :
          /\ interfaces'[j].outstanding = interfaces[j].outstanding - n
          /\ Cardinality(InFlight(j)') = Cardinality(InFlight(j)) - n
    BY <1>4, RetransmitCounts DEF Retransmission, CommandsAlone
  <2>2. QED BY <1>1, <1>2, <2>1
<1>5. QED BY <1>3, <1>4

\* Answers, refusals and announcements.
LEMMA CoveredIncoming ==
  ASSUME TypeOK, FractionBelowWindow, Queues, Packets, CommandsAlone, Covered, Incoming
  PROVE  Covered'
<1> SUFFICES ASSUME NEW j \in Interfaces
             PROVE  interfaces'[j].outstanding >= Cardinality(InFlight(j)')
  BY DEF Covered
<1>1. interfaces[j].outstanding >= Cardinality(InFlight(j))
  BY DEF Covered
<1>2. interfaces[j].outstanding \in Int /\ Cardinality(InFlight(j)) \in Nat
  BY FlightsFinite DEF TypeOK, InterfaceState, InFlight
<1>3. ASSUME NEW w \in wire, NEW i \in Interfaces, NEW config \in Config \cup {Ata},
             NEW error \in BOOLEAN, AoeIncoming(w, i, config, error)
      PROVE  interfaces'[j].outstanding >= Cardinality(InFlight(j)')
  <2>1. CASE /\ interfaces'[j].outstanding \in {interfaces[j].outstanding,
                                               MAX(interfaces[j].outstanding, 0)}
             /\ InFlight(j)' = InFlight(j)
    BY <1>1, <1>2, <2>1 DEF MAX
  <2>2. CASE /\ interfaces'[j].outstanding = MAX(interfaces[j].outstanding - 1, 0)
             /\ Cardinality(InFlight(j)) >= 1
             /\ Cardinality(InFlight(j)') = Cardinality(InFlight(j)) - 1
    BY <1>1, <1>2, <2>2 DEF MAX
  <2>3. QED BY <1>3, <2>1, <2>2, AnswerCounts
<1>4. ASSUME NEW i \in Interfaces, NEW config \in Config \cup {Ata}, DeviceOnline(i, config)
      PROVE  interfaces'[j].outstanding >= Cardinality(InFlight(j)')
  BY <1>1, <1>4, OtherCounts DEF Uncounted
<1>5. QED BY <1>3, <1>4 DEF Incoming

\* Ports that come and go: one that is added starts at zero, and has nothing in
\* flight; one that goes keeps its count, and what is in flight on it is dropped.
LEMMA CoveredPorts ==
  ASSUME TypeOK, FractionBelowWindow, Queues, Packets, CommandsAlone, Covered,
         NEW i \in Interfaces,
         EnableInterface(i) \/ DisableInterface(i) \/ (LinkOff(i) /\ i \in attached)
  PROVE  Covered'
<1> SUFFICES ASSUME NEW j \in Interfaces
             PROVE  interfaces'[j].outstanding >= Cardinality(InFlight(j)')
  BY DEF Covered
<1>1. interfaces[j].outstanding >= Cardinality(InFlight(j))
  BY DEF Covered
<1>2. interfaces[j].outstanding \in Int /\ Cardinality(InFlight(j)) \in Nat
  BY FlightsFinite DEF TypeOK, InterfaceState, InFlight
<1>3. CASE EnableInterface(i)
  <2>1. j = i => Cardinality(InFlight(j)) = 0
    BY <1>3, UnusedHasNoFlights DEF EnableInterface, Packets, UsedAttached
  <2>2. QED BY <1>1, <1>2, <1>3, <2>1, EnabledCounts
<1>4. CASE DisableInterface(i) \/ (LinkOff(i) /\ i \in attached)
  <2>1. InterfaceDisconnected(i)
    BY <1>4 DEF DisableInterface, LinkOff
  <2>2. Cardinality({}) = 0
    BY FS_EmptySet
  <2>3. QED BY <1>1, <1>2, <2>1, <2>2, DisconnectedCounts
<1>5. QED BY <1>3, <1>4

\* No step leaves a packet in flight that is not counted.
LEMMA CoveredInductive ==
  ASSUME NoSearches
  PROVE  (/\ TypeOK /\ FractionBelowWindow /\ Queues /\ Packets
          /\ CommandsAlone /\ Covered /\ [Next]_vars) => CommandsAlone' /\ Covered'
<1> SUFFICES ASSUME TypeOK, FractionBelowWindow, Queues, Packets, CommandsAlone, Covered,
                    [Next]_vars
             PROVE  Covered'
  BY CommandsAloneInductive
<1>1. ASSUME \/ \E i \in Interfaces, shelf \in Shelf : SendPacketOnInterface(i, shelf)
             \/ \E i \in Interfaces : UserSearchCheck(i) \/ UserSearchQueue(i) \/ PeriodicSearch(i)
             \/ \E n : SetUserWindow(n)
             \/ \E i \in Interfaces : LinkOn(i) \/ (LinkOff(i) /\ i \notin attached)
             \/ UNCHANGED vars
      PROVE  Covered'
  <2>1. Uncounted
    BY <1>1, OtherCounts
  <2>2. QED BY <2>1 DEF Covered, Uncounted
<1>2. ASSUME NEW recent, IdleTimer(recent) PROVE Covered'
  <2> SUFFICES ASSUME NEW j \in Interfaces
               PROVE  interfaces'[j].outstanding >= Cardinality(InFlight(j)')
    BY DEF Covered
  <2>1. interfaces[j].outstanding >= Cardinality(InFlight(j)) /\ InFlight(j)' = InFlight(j)
    BY <1>2, IdleCounts DEF Covered
  <2>2. CASE \A s \in InFlight(j) : ~Retransmits(s)
    <3>1. InFlight(j) = {}
      BY <2>2 DEF CommandsAlone, InFlight
    <3>2. Cardinality(InFlight(j)) = 0
      BY <3>1, FS_EmptySet
    <3>3. interfaces[j].outstanding \in Int
      BY DEF TypeOK, InterfaceState
    <3>4. interfaces'[j].outstanding \in {interfaces[j].outstanding, 0}
      BY <1>2, IdleCounts
    <3>5. QED BY <2>1, <3>2, <3>3, <3>4
  <2>3. QED BY <1>2, <2>1, <2>2, IdleCounts
<1>3. CASE TransmitTimer \/ Retransmission
  BY <1>3, CoveredTimers
<1>4. CASE Incoming
  BY <1>4, CoveredIncoming
<1>5. ASSUME NEW i \in Interfaces, EnableInterface(i) \/ DisableInterface(i) \/ LinkOff(i)
      PROVE  Covered'
  BY <1>1, <1>5, CoveredPorts
<1>6. \A i \in Interfaces : LinkOn(i) => Covered'
  BY <1>1
<1>7. \A i \in Interfaces, shelf \in Shelves : SendPacketOnInterface(i, shelf) => Covered'
  BY <1>1 DEF Shelf
<1>8. \A i \in Interfaces :
        UserSearchCheck(i) \/ UserSearchQueue(i) \/ PeriodicSearch(i) => Covered'
  BY <1>1
<1>9. UNCHANGED vars \/ (\E n \in UserWindows : SetUserWindow(n)) => Covered'
  BY <1>1
<1>10. QED
  BY <1>2, <1>3, <1>4, <1>5, <1>6, <1>7, <1>8, <1>9 DEF Next, Search, Idle

\* The invariant of the count of a driver that carries commands alone.
Counted ==
  /\ TypeOK /\ FractionBelowWindow
  /\ Queues
  /\ Packets
  /\ CommandsAlone
  /\ Covered

\* It holds, whatever cables do.
LEMMA CountedHolds ==
  ASSUME NoSearches
  PROVE  Spec => []Counted
<1>1. Init => CommandsAlone /\ Covered
  BY FS_EmptySet DEF Init, CommandsAlone, Covered, InFlight, EInterface
<1>2. (/\ TypeOK /\ FractionBelowWindow /\ Queues /\ Packets
       /\ CommandsAlone /\ Covered /\ [Next]_vars) => CommandsAlone' /\ Covered'
  BY CoveredInductive
<1>3. TypeOK /\ FractionBelowWindow /\ Queues /\ Packets /\ CommandsAlone /\ Covered <=> Counted
  BY DEF Counted
<1>4. QED
  BY <1>1, <1>2, <1>3, TypesInit, TypesInductive, QueuesInit, QueuesInductive,
     PacketsInit, PacketsInductive, PTL DEF Spec

-------------------------------------------------------------------------------
\* FirstSendWithinWindow, of one step.
FirstSends ==
  \A i \in Interfaces :
    Cardinality(InFlight(i)') > Cardinality(InFlight(i)) =>
      Cardinality(InFlight(i)') <= MIN(interfaces[i].cwnd, userWindow)

\* Only the transmit timer adds a packet in flight, and it looks at the window first.
LEMMA FirstSendsStep ==
  ASSUME Counted, Next
  PROVE  FirstSends
<1> TypeOK /\ FractionBelowWindow /\ Queues /\ Packets /\ CommandsAlone /\ Covered
  BY DEF Counted
<1> SUFFICES ASSUME NEW j \in Interfaces
             PROVE  \/ Cardinality(InFlight(j)') <= Cardinality(InFlight(j))
                    \/ Cardinality(InFlight(j)') <= MIN(interfaces[j].cwnd, userWindow)
  <2>1. TypeOK'
    BY TypesInductive
  <2>2. \A i \in Interfaces : Cardinality(InFlight(i)) \in Nat
    BY FlightsFinite DEF InFlight
  <2>3. \A i \in Interfaces : Cardinality(InFlight(i)') \in Nat
    <3>1. TAKE i \in Interfaces
    <3>2. IsFiniteSet(InFlight(i)')
      BY <2>1, QueuesFinite DEF InFlight, TypeOK
    <3>3. QED BY <3>2, FS_CardinalityType
  <2>4. \A m, n \in Nat : m <= n => ~(m > n)
    OBVIOUS
  <2>5. QED BY <2>2, <2>3, <2>4 DEF FirstSends
<1>1. Cardinality(InFlight(j)) \in Nat
  BY FlightsFinite DEF InFlight
<1>2. ASSUME InFlight(j)' = InFlight(j) \/ InFlight(j)' = {}
      PROVE  Cardinality(InFlight(j)') <= Cardinality(InFlight(j))
  BY <1>1, <1>2, FS_EmptySet
<1>3. CASE TransmitTimer
  <2>1. CASE InFlight(j)' = InFlight(j)
    BY <1>2, <2>1
  <2>2. CASE /\ interfaces[j].outstanding < MIN(interfaces[j].cwnd, userWindow)
             /\ Cardinality(InFlight(j)') = Cardinality(InFlight(j)) + 1
    <3>1. interfaces[j].outstanding >= Cardinality(InFlight(j))
      BY DEF Covered
    <3>2. interfaces[j].outstanding \in Int /\ MIN(interfaces[j].cwnd, userWindow) \in Int
      <4>1. userWindow \in Nat
        BY ServiceAssumption, DefaultWindowAssumption DEF TypeOK
      <4>2. interfaces[j].outstanding \in Int /\ interfaces[j].cwnd \in Nat
        BY DEF TypeOK, InterfaceState
      <4>3. QED BY <4>1, <4>2 DEF MIN
    <3>3. QED BY <1>1, <2>2, <3>1, <3>2
  <2>3. QED BY <1>3, <2>1, <2>2, TransmitCounts
<1>4. CASE Retransmission
  <2>1. PICK m \in Nat : Cardinality(InFlight(j)') = Cardinality(InFlight(j)) - m
    BY <1>4, RetransmitCounts DEF Retransmission
  <2>2. QED BY <1>1, <2>1
<1>5. CASE Idle
  BY <1>2, <1>5, IdleCounts DEF Idle
<1>6. ASSUME NEW w \in wire, NEW i \in Interfaces, NEW config \in Config \cup {Ata},
             NEW error \in BOOLEAN, AoeIncoming(w, i, config, error)
      PROVE  Cardinality(InFlight(j)') <= Cardinality(InFlight(j))
  <2>1. CASE InFlight(j)' = InFlight(j)
    BY <1>2, <2>1
  <2>2. CASE Cardinality(InFlight(j)') = Cardinality(InFlight(j)) - 1
    BY <1>1, <2>2
  <2>3. QED BY <1>6, <2>1, <2>2, AnswerCounts
<1>7. ASSUME NEW i \in Interfaces, EnableInterface(i)
      PROVE  Cardinality(InFlight(j)') <= Cardinality(InFlight(j))
  BY <1>2, <1>7, EnabledCounts
<1>8. ASSUME NEW i \in Interfaces, DisableInterface(i) \/ (LinkOff(i) /\ i \in attached)
      PROVE  Cardinality(InFlight(j)') <= Cardinality(InFlight(j))
  <2>1. InterfaceDisconnected(i)
    BY <1>8 DEF DisableInterface, LinkOff
  <2>2. QED BY <1>2, <2>1, DisconnectedCounts
<1>9. Uncounted => Cardinality(InFlight(j)') <= Cardinality(InFlight(j))
  BY <1>2 DEF Uncounted
<1>10. \A i \in Interfaces, shelf \in Shelves : SendPacketOnInterface(i, shelf) => Uncounted
  BY OtherCounts DEF Shelf
<1>11. \A i \in Interfaces :
         UserSearchCheck(i) \/ UserSearchQueue(i) \/ PeriodicSearch(i) \/ LinkOn(i) => Uncounted
  BY OtherCounts
<1>12. \A i \in Interfaces : LinkOff(i) /\ i \notin attached => Uncounted
  BY OtherCounts
<1>13. \A i \in Interfaces, config \in Config \cup {Ata} : DeviceOnline(i, config) => Uncounted
  BY OtherCounts
<1>14. \A n : SetUserWindow(n) => Uncounted
  BY OtherCounts
<1>15. Incoming => Cardinality(InFlight(j)') <= Cardinality(InFlight(j))
  BY <1>6, <1>9, <1>13 DEF Incoming
<1> HIDE DEF Uncounted
<1>16. QED
  BY <1>3, <1>4, <1>5, <1>7, <1>8, <1>9, <1>10, <1>11, <1>12, <1>14, <1>15 DEF Next, Search

\* FirstSendWithinWindow: when a command is sent for the first time, all that are in
\* flight on its port fit its congestion window and the user's limit, whatever ports
\* and cables come and go meanwhile (AoEService.cpp:1273-1290, 1384-1386).
THEOREM FirstSendsFit ==
  ASSUME NoSearches
  PROVE  Spec => FirstSendWithinWindow
<1>1. Spec => []Counted
  BY CountedHolds
<1>2. Counted /\ [Next]_vars
      => [\A i \in Interfaces :
            Cardinality(InFlight(i)') > Cardinality(InFlight(i)) =>
              Cardinality(InFlight(i)') <= MIN(interfaces[i].cwnd, userWindow)]_vars
  BY FirstSendsStep DEF FirstSends
<1>3. QED BY <1>1, <1>2, PTL DEF Spec, FirstSendWithinWindow

\* Accounting: as long as only commands are carried and no cable is pulled, the count
\* of outstanding packets that five handlers keep is exactly the number of commands on
\* their first transmission (AoEService.cpp:697-710, 1386, 1536, 1564).
THEOREM SlotsAreAccounted ==
  ASSUME NoSearches, CableEvents = FALSE
  PROVE  Spec => []Accounting
<1>1. Spec => []Counted
  BY CountedHolds
<1>2. Spec => []NoSlotLost
  BY NoSlotIsLost
<1>3. Counted /\ NoSlotLost => Accounting
  <2> SUFFICES ASSUME Counted, NoSlotLost, NEW i \in Interfaces, is_used(i)
               PROVE  interfaces[i].outstanding = Cardinality(InFlight(i))
    BY DEF Accounting
  <2>1. TypeOK
    BY DEF Counted
  <2>2. interfaces[i].outstanding \in Int /\ Cardinality(InFlight(i)) \in Nat
    BY <2>1, FlightsFinite DEF TypeOK, InterfaceState, InFlight
  <2>3. /\ interfaces[i].outstanding >= Cardinality(InFlight(i))
        /\ interfaces[i].outstanding <= Cardinality(InFlight(i))
    BY DEF Counted, Covered, NoSlotLost
  <2>4. QED BY <2>2, <2>3
<1>4. QED BY <1>1, <1>2, <1>3, PTL

-------------------------------------------------------------------------------
\* A command that was never sent leaves the sent queue only with its port, searches
\* or not.
LEMMA UnsentLeavesWithPort ==
  ASSUME TypeOK, FractionBelowWindow, Queues, Packets, Next,
         NEW s \in sent_queue, Retransmits(s), ~ s.first,
         \A r \in sent_queue' : r.tag # s.tag
  PROVE  ~ interfaces'[s.on].enabled
<1>1. s \in SentPkt /\ s.on \in Interfaces
  BY DEF TypeOK, SentPkt
<1>2. s \notin sent_queue'
  OBVIOUS
<1>3. ~ TransmitTimer
  <2> SUFFICES ASSUME TransmitTimer PROVE FALSE
    OBVIOUS
  <2> DEFINE output == {p \in (to_send_queue \ Waiting) \cup {p \in to_send_queue : IsNext(p)} :
                          InSentQueue(p.tag)}
             New(r) == IF \E p \in output : p.tag = r.tag THEN MarkSent(r) ELSE r
  <2>1. sent_queue' = {New(r) : r \in sent_queue}
    BY DEF TransmitTimer
  <2>2. New(s).tag = s.tag
    BY <1>1, MarkedPackets
  <2> HIDE DEF New
  <2>3. QED BY <2>1, <2>2
<1>4. ~ Retransmission
  <2> SUFFICES ASSUME NEW late \in SUBSET Watched, NEW old \in SUBSET Watched,
                      RetransmitTimer(late, old)
               PROVE  FALSE
    BY DEF Retransmission
  <2>1. \A r \in late \cup old : r.first
    BY DEF Watched, CanTimeOut, OnWire
  <2>2. s \in (sent_queue \ (old \cup {r \in sent_queue : ~Retransmits(r)})) \ late
    BY <2>1
  <2>3. QED BY <1>2, <2>2 DEF RetransmitTimer
<1>5. ~ Incoming
  <2>1. ASSUME NEW w \in wire, NEW i \in Interfaces, NEW config \in Config \cup {Ata},
               NEW error \in BOOLEAN, AoeIncoming(w, i, config, error)
        PROVE  FALSE
    <3>1. sent_queue' = {r \in sent_queue : r.tag # w.tag}
      BY <2>1 DEF AoeIncoming, Removed
    <3>2. s.tag = w.tag
      BY <1>2, <3>1
    <3>3. QED BY <3>2 DEF Packets, SentBefore
  <2>2. \A i \in Interfaces, config \in Config \cup {Ata} : ~ DeviceOnline(i, config)
    BY <1>2 DEF DeviceOnline
  <2>3. QED BY <2>1, <2>2 DEF Incoming
<1>6. ASSUME NEW i \in Interfaces, DisableInterface(i) \/ LinkOff(i)
      PROVE  ~ interfaces'[s.on].enabled
  <2>1. InterfaceDisconnected(i)
    BY <1>2, <1>6 DEF DisableInterface, LinkOff
  <2>2. s.on \notin {k \in Interfaces : is_used(k)} \ {i}
    BY <1>2, <2>1 DEF InterfaceDisconnected, PurgedSent
  <2>3. ~ is_used(s.on)'
    BY <1>1, <2>1, <2>2, DisconnectedUnused
  <2>4. QED BY <2>3 DEF is_used
<1>7. \A i \in Interfaces : \A shelf : ~ SendPacketOnInterface(i, shelf)
  BY <1>2 DEF SendPacketOnInterface
<1>8. \A i \in Interfaces : /\ ~ UserSearchCheck(i) /\ ~ UserSearchQueue(i) /\ ~ PeriodicSearch(i)
                            /\ ~ EnableInterface(i) /\ ~ LinkOn(i)
  BY <1>2, <1>7 DEF UserSearchCheck, UserSearchQueue, PeriodicSearch, EnableInterface, LinkOn
<1>9. ~ Idle /\ \A n : ~ SetUserWindow(n)
  BY <1>2 DEF Idle, IdleTimer, SetUserWindow
<1>10. QED
  BY <1>3, <1>4, <1>5, <1>6, <1>7, <1>8, <1>9 DEF Next, Search

\* The same of any driver: the commands among what was never transmitted are given up
\* only if their port goes, even if searches, which are, share the queues.
CommandsNotDroppedUnsent ==
  [][\A s \in sent_queue :
       Retransmits(s) /\ ~s.first /\ (\A r \in sent_queue' : r.tag # s.tag)
         => ~interfaces'[s.on].enabled]_vars

\* A command that was never transmitted is neither timed out nor taken for answered
\* (AoEService.cpp:1520-1521).
THEOREM UnsentCommandsAreKept == Spec => CommandsNotDroppedUnsent
<1>1. TypeOK /\ FractionBelowWindow /\ Queues /\ Packets /\ [Next]_vars
      => [\A s \in sent_queue :
            Retransmits(s) /\ ~s.first /\ (\A r \in sent_queue' : r.tag # s.tag)
              => ~interfaces'[s.on].enabled]_vars
  BY UnsentLeavesWithPort
<1>2. QED
  BY <1>1, TypesInit, TypesInductive, QueuesInit, QueuesInductive, PacketsInit,
     PacketsInductive, PTL DEF Spec, CommandsNotDroppedUnsent

\* NotDroppedUnsent: a command that was never transmitted is neither timed out nor
\* taken for answered; it is given up only if its port goes (AoEService.cpp:1520-1521).
THEOREM UnsentAreKept ==
  ASSUME NoSearches
  PROVE  Spec => NotDroppedUnsent
<1>1. Spec => []Counted
  BY CountedHolds
<1>2. Counted /\ [Next]_vars
      => [\A s \in sent_queue :
            ~s.first /\ (\A r \in sent_queue' : r.tag # s.tag) => ~interfaces'[s.on].enabled]_vars
  BY UnsentLeavesWithPort DEF Counted, CommandsAlone
<1>3. QED BY <1>1, <1>2, PTL DEF Spec, NotDroppedUnsent

===============================================================================

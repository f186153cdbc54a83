------------------------------ MODULE AoEService ------------------------------
(***************************************************************************)
(* The transport of the driver (AoEService.cpp): the queue of packets      *)
(* waiting for a transmission window, the queue of packets kept until they *)
(* are answered, the transmit, retransmit and idle timers, the congestion  *)
(* state of each Ethernet port, and ports that come and go.                *)
(*                                                                         *)
(* Timers, incoming packets and the calls that go through the command gate *)
(* run one at a time on the driver's work loop: each is one action.  The   *)
(* target search a user program asks for runs on that program's thread,    *)
(* outside the gate: it is two actions (UserSearchCheck, UserSearchQueue). *)
(*                                                                         *)
(* Time is abstracted: a timer that is armed may fire at any moment, and   *)
(* when the retransmit timer fires any set of packets on the wire may be   *)
(* late.  The network loses, delays, repeats and reorders packets: a       *)
(* packet sent once may be answered at any later moment, any number of     *)
(* times or never.                                                         *)
(***************************************************************************)
EXTENDS EInterfaces, FiniteSets

CONSTANTS
  Interfaces,       \* Ethernet ports, at most MAX_SUPPORTED_ETHERNET_CONNETIONS
  MaxTag,           \* bound: how many packets are queued in a behaviour
  Destinations,     \* what is sent: commands to a shelf, searches to Broadcast
  BufferCounts,     \* the buffer counts targets announce
  UserWindows,      \* the windows the user may set instead of DefaultWindow
  CableEvents,      \* bound: whether links go down and come back
  UserSearches      \* bound: whether user programs start searches

Broadcast == -1     \* nShelf of a search: it goes to every shelf
Tags == 1 .. MaxTag
Shelf == Shelves \cup {Broadcast}

ASSUME ServiceAssumption ==
  /\ IsFiniteSet(Interfaces) /\ IsFiniteSet(Shelves)
  /\ MaxTag \in Nat
  /\ Broadcast \notin Shelves
  /\ Destinations \subseteq Shelf
  /\ BufferCounts \subseteq Nat \ {0}
  /\ UserWindows \subseteq Nat \ {0}
  /\ CableEvents \in BOOLEAN /\ UserSearches \in BOOLEAN

VARIABLES
  interfaces,       \* m_aInterfaces: the record of each port
  attached,         \* ports the user enabled: their filter sees link events
  link,             \* ports whose cable is in
  sent_queue,       \* m_sent_queue: packets not answered yet, in tag order
  to_send_queue,    \* m_to_send_queue: packets to transmit, in tag order
  nextTag,          \* next_tag(): the tags from here on are unused
  transmitTimer, retransmitTimer, idleTimer,  \* armed?
  userWindow,       \* m_nMaxUserWindow
  searching,        \* ports a user's search checked and is about to queue on
  wire,             \* packets transmitted at least once: answers may exist
  answers           \* answers to commands handed to the controllers, by tag

vars == <<interfaces, attached, link, sent_queue, to_send_queue, nextTag,
          transmitTimer, retransmitTimer, idleTimer, userWindow, searching,
          wire, answers>>

adminVars == <<attached, link, searching, userWindow>>
networkVars == <<wire, answers>>

\* struct SentPktQueue.  first, timed: TimeFirstSent and TimeSent are not zero;
\* resent: fPacketHasBeenRetransmit.
SentPkt == [tag : Tags, on : Interfaces, shelf : Shelf,
            first : BOOLEAN, timed : BOOLEAN, resent : BOOLEAN]

\* struct ToSendPktQueue.
ToSendPkt == [tag : Tags, on : Interfaces, shelf : Shelf, immediately : BOOLEAN]

Init ==
  /\ interfaces = [i \in Interfaces |-> EInterface]
  /\ attached = {}
  /\ link = Interfaces
  /\ sent_queue = {}
  /\ to_send_queue = {}
  /\ nextTag = 1
  /\ transmitTimer = FALSE /\ retransmitTimer = FALSE /\ idleTimer = FALSE
  /\ userWindow = DefaultWindow
  /\ searching = {}
  /\ wire = {}
  /\ answers = [t \in Tags |-> 0]

-------------------------------------------------------------------------------
\* is_used: an ifnet_t that is no port's m_ifnet is not used either.
is_used(i) == interfaces[i].enabled

\* Searches are queued with fRetransmit FALSE: their RetransmitTime_us is zero.
Retransmits(s) == s.shelf # Broadcast

InSentQueue(t) == \E s \in sent_queue : s.tag = t

OnWire(s) == s.first /\ s.timed

\* A mutant: a slot is given back for every copy of the packet.
OccupiesSlotAlways(s) == TRUE

\* A packet gives its slot of the window back once: at its first timeout, or
\* when it is answered or dropped before that.
OccupiesSlot(s) == ~s.resent

\* The searches of a gated caller, and commands, whose target is known only
\* because it announced a buffer count on that port.
CanSend(i, shelf) ==
  /\ shelf \in Destinations
  /\ shelf \in Shelves => interfaces[i].max[shelf] > 0

NewSent(t, i, shelf) ==
  [tag |-> t, on |-> i, shelf |-> shelf,
   first |-> FALSE, timed |-> FALSE, resent |-> FALSE]

Queued(t, i, shelf, now) ==
  [tag |-> t, on |-> i, shelf |-> shelf, immediately |-> now]

UsedOnly(queue) == {q \in queue : is_used(q.on)}

-------------------------------------------------------------------------------
\* send_packet_on_interface, reached through the gate or from a timer: a packet
\* for a port that is not used is dropped, and so is what is queued on such ports.
SendPacketOnInterface(i, shelf) ==
  /\ nextTag \in Tags /\ CanSend(i, shelf)
  /\ nextTag' = nextTag + 1
  /\ IF is_used(i)
       THEN /\ sent_queue' = sent_queue \cup {NewSent(nextTag, i, shelf)}
            /\ to_send_queue' = to_send_queue \cup {Queued(nextTag, i, shelf, FALSE)}
            /\ transmitTimer' = TRUE
       ELSE /\ to_send_queue' = UsedOnly(to_send_queue)
            /\ UNCHANGED <<sent_queue, transmitTimer>>
  /\ UNCHANGED <<interfaces, retransmitTimer, idleTimer, adminVars, networkVars>>

\* find_targets on the thread of a user program, outside the command gate:
\* send_packet_on_interface sees the port in use ...
UserSearchCheck(i) ==
  /\ UserSearches /\ nextTag \in Tags
  /\ Broadcast \in Destinations /\ is_used(i) /\ searching = {}
  /\ searching' = {i}
  /\ UNCHANGED <<interfaces, attached, link, sent_queue, to_send_queue, nextTag,
                 transmitTimer, retransmitTimer, idleTimer, userWindow, networkVars>>

\* ... and queues the search, whatever happened to the port in between.
UserSearchQueue(i) ==
  /\ i \in searching
  /\ searching' = {}
  /\ IF nextTag \in Tags
       THEN /\ nextTag' = nextTag + 1
            /\ sent_queue' = sent_queue \cup {NewSent(nextTag, i, Broadcast)}
            /\ to_send_queue' = to_send_queue \cup {Queued(nextTag, i, Broadcast, FALSE)}
            /\ transmitTimer' = TRUE
       ELSE UNCHANGED <<nextTag, sent_queue, to_send_queue, transmitTimer>>
  /\ UNCHANGED <<interfaces, attached, link, retransmitTimer, idleTimer, userWindow, networkVars>>

\* StateUpdateTimer searches for targets once a minute for as long as the driver
\* runs: aoe_search on every port in use.  Bound: once the tags are used up only
\* the arming of the transmit timer is left of a search.
PeriodicSearch(i) ==
  /\ is_used(i)
  /\ \/ SendPacketOnInterface(i, Broadcast)
     \/ /\ nextTag \notin Tags
        /\ transmitTimer' = TRUE
        /\ UNCHANGED <<interfaces, sent_queue, to_send_queue, nextTag,
                       retransmitTimer, idleTimer, adminVars, networkVars>>

-------------------------------------------------------------------------------
\* get_outstanding, get_cwnd and get_max_outstanding of EInterfaces: -1, -1 and 0
\* for a port that is not used.
get_outstanding(i) == IF is_used(i) THEN interfaces[i].outstanding ELSE -1

get_cwnd(i) == IF is_used(i) THEN interfaces[i].cwnd ELSE -1

get_max_outstanding(i, shelf) ==
  IF ~is_used(i) THEN 0
  ELSE IF shelf = Broadcast THEN interfaces[i].min ELSE interfaces[i].max[shelf]

MaxOutstanding(p) ==
  MIN(MIN(get_cwnd(p.on), get_max_outstanding(p.on, p.shelf)), userWindow)

\* A mutant: off by one.
BusyOffByOne(p) == get_outstanding(p.on) > MaxOutstanding(p)

Busy(p) == get_outstanding(p.on) >= MaxOutstanding(p)

all_full(n) == \A i \in Interfaces : is_used(i) => interfaces[i].outstanding >= n

\* The scan of TransmitTimer: it passes over packets whose port is busy, unless
\* every port is, and takes the first other one.
Waiting == {p \in to_send_queue : ~p.immediately}

IsNext(p) ==
  /\ p \in Waiting
  /\ ~Busy(p)
  /\ \A q \in Waiting : q.tag < p.tag => Busy(q) /\ ~all_full(MaxOutstanding(q))

\* A mutant: a packet that was answered while it waited stays in the queue.
TakenOnlyIfUnanswered(sending) == {p \in sending : InSentQueue(p.tag)}

\* send_packet_from_queue takes the packet off the queue whether it sends it or
\* finds that it is not in the sent queue any more.
Taken(sending) == sending

\* A mutant: TimeSent is only set the first time.
MarkSentOnce(s) == [s EXCEPT !.first = TRUE, !.timed = s.timed \/ ~s.first]

MarkSent(s) == [s EXCEPT !.first = TRUE, !.timed = TRUE]

\* What send_packet_from_queue does to a port, for the packets sent on it.
AfterSending(f, packets) ==
  LET counted == {p \in packets : ~p.immediately}
      kind == IF \E p \in packets : p.shelf = Broadcast THEN "broadcast" ELSE "command"
  IN  [f EXCEPT !.outstanding = @ + Cardinality(counted),
                !.lastSend = IF packets # {} /\ f.enabled THEN kind ELSE @]

\* All packets to send immediately (retransmissions) go out, then one other.
TransmitTimer ==
  /\ transmitTimer
  /\ LET chosen == {p \in to_send_queue : IsNext(p)}
         sending == (to_send_queue \ Waiting) \cup chosen
         output == {p \in sending : InSentQueue(p.tag)}
     IN  /\ to_send_queue' = to_send_queue \ Taken(sending)
         /\ sent_queue' = {IF \E p \in output : p.tag = s.tag THEN MarkSent(s) ELSE s :
                             s \in sent_queue}
         /\ wire' = wire \cup {[tag |-> p.tag, shelf |-> p.shelf] : p \in output}
         /\ interfaces' = [i \in Interfaces |->
              AfterSending(interfaces[i], {p \in output : p.on = i})]
         /\ transmitTimer' = (chosen # {} /\ to_send_queue' # {})
         /\ retransmitTimer' = (retransmitTimer \/ output # {})
         /\ idleTimer' = (idleTimer \/ \E p \in output : p.shelf # Broadcast)
  /\ UNCHANGED <<nextTag, adminVars, answers>>

-------------------------------------------------------------------------------
\* resend_packet: the packet is queued again, to be sent ahead of all others.
MarkResent(s) == [s EXCEPT !.timed = FALSE, !.resent = TRUE]

\* A mutant: packets still waiting for their first transmission time out too.
TimesOutUnsent(s) == Retransmits(s)

\* Only a packet that was really sent can time out.
CanTimeOut(s) == Retransmits(s) /\ OnWire(s)

\* A mutant: the timer is left off, resend_packet being trusted to arm it.
KeepsWatchIfResent(late, left) == late # {}

\* The timer runs for as long as something is unanswered.
KeepsWatch(late, left) == left # {}

\* A mutant: fPacketHasBeenRetransmit is set before it is looked at.
ReleasesAfterResend(s) == OccupiesSlot(MarkResent(s))

\* A timeout gives the slot of the packet back, before resend_packet marks it.
Releases(s) == OccupiesSlot(s)

First(packets) == CHOOSE s \in packets : \A r \in packets : s.tag <= r.tag

\* late: sent longer than RetransmitTime_us ago; old: first sent longer than
\* MAX_TIMEOUT_BEFORE_DROP ago.  A search, whose RetransmitTime_us is zero, is
\* removed whether it was sent or not.  The window collapses once per timeout,
\* on the port of the first late packet.
RetransmitTimer(late, old) ==
  /\ retransmitTimer
  /\ \A s \in late \cup old : CanTimeOut(s)
  /\ late \cap old = {}
  /\ LET dropped == old \cup {s \in sent_queue : ~Retransmits(s)}
         left == sent_queue \ dropped
         Released(i) == {s \in late \cup dropped : s.on = i /\ Releases(s)}
         Shrinks(i) == late # {} /\ First(late).on = i /\ is_used(i)
     IN  /\ sent_queue' = (left \ late) \cup {MarkResent(s) : s \in late}
         /\ to_send_queue' = to_send_queue \cup
              {Queued(s.tag, s.on, s.shelf, TRUE) : s \in late}
         /\ interfaces' = [i \in Interfaces |->
              LET f == [interfaces[i] EXCEPT !.outstanding = @ - Cardinality(Released(i))]
              IN  IF Shrinks(i) THEN shrink_on_timeout(f) ELSE f]
         /\ transmitTimer' = (transmitTimer \/ late # {})
         /\ retransmitTimer' = KeepsWatch(late, left)
  /\ UNCHANGED <<nextTag, idleTimer, adminVars, networkVars>>

\* enable_idle_timer restarts the timer at each command sent: when it fires, no
\* command was sent for IDLE_DELAY (5 s), so none is on the wire or about to be
\* resent (RetransmitTime_us is milliseconds).  A port whose last packet was a
\* search may have sent it more recently: "recent" are those that did.
IdleTimer(recent) ==
  /\ idleTimer
  /\ \A s \in sent_queue : ~CanTimeOut(s)
  /\ \A p \in to_send_queue : ~p.immediately
  /\ recent \subseteq {i \in Interfaces : interfaces[i].lastSend = "broadcast"}
  /\ \A s \in sent_queue : OnWire(s) => s.on \in recent
  /\ idleTimer' = FALSE
  /\ interfaces' = [i \in Interfaces |->
       IF is_used(i) /\ interfaces[i].lastSend # "never" /\ i \notin recent
         THEN reset_if_idle(interfaces[i]) ELSE interfaces[i]]
  /\ UNCHANGED <<sent_queue, to_send_queue, nextTag, transmitTimer, retransmitTimer,
                 adminVars, networkVars>>

-------------------------------------------------------------------------------
\* A target's answer carries data for a controller, or its configuration: the
\* shelf it is on and its buffer count.
Ata == [shelf |-> Broadcast, count |-> 0]
Config == [shelf : Shelves, count : BufferCounts]

\* handle_aoe_cmd: set_max_outstanding finds no port if the port is not used.
Configured(f, config) ==
  IF config # Ata /\ f.enabled
    THEN set_max_outstanding(f, config.shelf, config.count) ELSE f

\* The sent queue without the packet an answer has arrived for.
Removed(t) == {s \in sent_queue : s.tag # t}

Entry(t) == CHOOSE s \in sent_queue : s.tag = t

\* A mutant: any response is handed on.
DispatchedAlways(w, error) == ~error

\* Only the answer that finds its packet is handed on; answers to searches, of
\* which several targets send one, always are (TAG_BROADCAST_MASK).
Dispatched(w, error) == ~error /\ (InSentQueue(w.tag) \/ w.shelf = Broadcast)

\* The answered packet gives its slot back, never below zero, and the window of
\* the port it was sent on grows.
Answered(f, s) ==
  LET g == [f EXCEPT !.outstanding = MAX(IF OccupiesSlot(s) THEN @ - 1 ELSE @, 0)]
  IN  IF g.enabled THEN grow_on_reply(g) ELSE g

\* cg_aoe_incoming for an answer to the packet w that arrives on port i.  A
\* refusal (AOE_FLAG_ERROR) takes the packet off the queue and returns early: it
\* is not handed on, and the transmit timer is not armed.  The packet waited for
\* the command gate: port i may be gone by now.
AoeIncoming(w, i, config, error) ==
  /\ w \in wire
  /\ w.shelf = Broadcast => config # Ata
  /\ w.shelf # Broadcast /\ config # Ata => config.shelf = w.shelf
  /\ LET found == InSentQueue(w.tag)
         handed == Dispatched(w, error)
         Port(j) == IF found /\ Entry(w.tag).on = j
                      THEN Answered(interfaces[j], Entry(w.tag)) ELSE interfaces[j]
     IN  /\ sent_queue' = Removed(w.tag)
         /\ interfaces' = [j \in Interfaces |->
              IF handed /\ j = i THEN Configured(Port(j), config) ELSE Port(j)]
         /\ answers' = IF handed /\ w.shelf # Broadcast
                         THEN [answers EXCEPT ![w.tag] = @ + 1] ELSE answers
         /\ transmitTimer' = (transmitTimer \/ (found /\ ~error /\ to_send_queue # {}))
  /\ UNCHANGED <<to_send_queue, nextTag, retransmitTimer, idleTimer, adminVars, wire>>

\* A target that comes up announces its configuration unasked (DEVICE_ONLINE_TAG).
DeviceOnline(i, config) ==
  /\ is_used(i) /\ config # Ata
  /\ interfaces' = [interfaces EXCEPT ![i] = Configured(@, config)]
  /\ UNCHANGED <<sent_queue, to_send_queue, nextTag, transmitTimer, retransmitTimer,
                 idleTimer, adminVars, networkVars>>

\* set_user_window.
SetUserWindow(n) ==
  /\ userWindow' = n
  /\ UNCHANGED <<interfaces, attached, link, sent_queue, to_send_queue, nextTag,
                 transmitTimer, retransmitTimer, idleTimer, searching, networkVars>>

-------------------------------------------------------------------------------
\* enable_interface, when the user adds port i: its filter is attached and its
\* congestion state starts afresh.
EnableInterface(i) ==
  /\ i \notin attached
  /\ attached' = attached \cup {i}
  /\ interfaces' = [interfaces EXCEPT ![i] = enable_interface(@)]
  /\ UNCHANGED <<link, sent_queue, to_send_queue, nextTag, transmitTimer, retransmitTimer,
                 idleTimer, userWindow, searching, networkVars>>

\* A mutant: what was already sent on the port is forgotten about.
PurgesToSendOnly(used) == sent_queue

\* cg_disable_interface empties both queues of what was on ports not used any more.
PurgedSent(used) == {s \in sent_queue : s.on \in used}

\* cg_disable_interface.  The outstanding count is not reset: after the loop that
\* empties the sent queue, pSent_queue_item, through which it would be, is NULL.
InterfaceDisconnected(i) ==
  LET used == {j \in Interfaces : is_used(j)} \ {i}
  IN  /\ interfaces' = [interfaces EXCEPT ![i] = interface_disconnected(@)]
      /\ to_send_queue' = {p \in to_send_queue : p.on \in used}
      /\ sent_queue' = PurgedSent(used)
      /\ transmitTimer' = TRUE
      /\ retransmitTimer' = TRUE

\* disable_interface, when the user removes port i.
DisableInterface(i) ==
  /\ i \in attached
  /\ attached' = attached \ {i}
  /\ InterfaceDisconnected(i)
  /\ UNCHANGED <<link, nextTag, idleTimer, userWindow, searching, networkVars>>

\* The filter of port i is told that its cable was unplugged ...
LinkOff(i) ==
  /\ CableEvents /\ i \in link
  /\ link' = link \ {i}
  /\ IF i \in attached
       THEN InterfaceDisconnected(i)
       ELSE UNCHANGED <<interfaces, sent_queue, to_send_queue, transmitTimer, retransmitTimer>>
  /\ UNCHANGED <<attached, nextTag, idleTimer, userWindow, searching, networkVars>>

\* ... and that it is back: interface_reconnected.
LinkOn(i) ==
  /\ i \notin link
  /\ link' = link \cup {i}
  /\ interfaces' = [interfaces EXCEPT ![i] =
       IF i \in attached THEN interface_reconnected(@) ELSE @]
  /\ UNCHANGED <<attached, sent_queue, to_send_queue, nextTag, transmitTimer,
                 retransmitTimer, idleTimer, userWindow, searching, networkVars>>

-------------------------------------------------------------------------------
Incoming ==
  \E i \in Interfaces, config \in Config \cup {Ata} :
    \/ \E w \in wire, error \in BOOLEAN : AoeIncoming(w, i, config, error)
    \/ DeviceOnline(i, config)

Watched == {s \in sent_queue : CanTimeOut(s)}

Retransmission ==
  \E late \in SUBSET Watched : \E old \in SUBSET (Watched \ late) : RetransmitTimer(late, old)

Search == \E i \in Interfaces : PeriodicSearch(i)

Idle == \E recent \in SUBSET Interfaces : IdleTimer(recent)

Next ==
  \/ \E i \in Interfaces, shelf \in Shelves : SendPacketOnInterface(i, shelf)
  \/ \E i \in Interfaces : UserSearchCheck(i)
  \/ \E i \in Interfaces : UserSearchQueue(i)
  \/ Search
  \/ TransmitTimer
  \/ Retransmission
  \/ Idle
  \/ Incoming
  \/ \E n \in UserWindows : SetUserWindow(n)
  \/ \E i \in Interfaces : EnableInterface(i)
  \/ \E i \in Interfaces : DisableInterface(i)
  \/ \E i \in Interfaces : LinkOff(i)
  \/ \E i \in Interfaces : LinkOn(i)

Spec == Init /\ [][Next]_vars

\* Armed timers fire, targets are searched for once a minute, and a packet that
\* is never answered gets old: some later timeout finds it past
\* MAX_TIMEOUT_BEFORE_DROP.
Drops(t) ==
  \E old \in SUBSET Watched : \E late \in SUBSET (Watched \ old) :
    /\ \E s \in old : s.tag = t
    /\ RetransmitTimer(late, old)

Fairness ==
  /\ WF_vars(TransmitTimer)
  /\ WF_vars(Retransmission)
  /\ \A t \in Tags : SF_vars(Drops(t))
  /\ WF_vars(Idle)
  /\ WF_vars(Search)

FairSpec == Spec /\ Fairness

-------------------------------------------------------------------------------
TypeOK ==
  /\ interfaces \in [Interfaces -> InterfaceState]
  /\ attached \subseteq Interfaces /\ link \subseteq Interfaces
  /\ sent_queue \subseteq SentPkt
  /\ to_send_queue \subseteq ToSendPkt
  /\ nextTag \in 1 .. MaxTag + 1
  /\ transmitTimer \in BOOLEAN /\ retransmitTimer \in BOOLEAN /\ idleTimer \in BOOLEAN
  /\ userWindow \in UserWindows \cup {DefaultWindow}
  /\ searching \subseteq Interfaces
  /\ wire \subseteq [tag : Tags, shelf : Shelf]
  /\ answers \in [Tags -> Nat]

\* A command on the wire has no copy waiting in the to-send queue, and one that is
\* waiting for a transmission really is in that queue.  Were the first wrong, a
\* slow transmit timer would let retransmissions pile up; were the second, the
\* command would be neither sent nor timed out (the check of TimeFirstSent and
\* TimeSent in RetransmitTimer) and its controller would wait for ever.
QueuedUnlessOnWire ==
  \A s \in sent_queue : Retransmits(s) =>
    (OnWire(s) <=> \A p \in to_send_queue : p.tag # s.tag)

\* Whoever must act on a packet is armed: the transmit timer while a retransmission
\* waits, the retransmit timer while anything on the wire is unanswered.  The
\* handlers disarm their timer first and re-arm it by different rules, and
\* cg_disable_interface stops both.
TimersArmed ==
  /\ (\E p \in to_send_queue : p.immediately) => transmitTimer
  /\ (\E s \in sent_queue : OnWire(s)) => retransmitTimer

\* Neither queue holds a packet of a port that is not used: TransmitTimer would
\* neither send nor discard it (AoEService.cpp:1283-1288, "This shouldn't occur").
QueuesOnUsedPorts ==
  \A q \in sent_queue \cup to_send_queue : is_used(q.on)

\* Commands whose first transmission has neither been answered nor timed out.
InFlight(i) == {s \in sent_queue : s.on = i /\ s.first /\ ~s.resent}

\* The outstanding count, kept by five handlers on different events, is exactly the
\* number of packets on their first transmission.
Accounting ==
  \A i \in Interfaces : is_used(i) => interfaces[i].outstanding = Cardinality(InFlight(i))

\* No slot of the window is ever lost: the count never exceeds the packets that
\* will still give a slot back.  (With searches the count may be too low, see
\* NotDroppedUnsent, but never too high.)
NoSlotLost ==
  \A i \in Interfaces : is_used(i) => interfaces[i].outstanding <= Cardinality(InFlight(i))

\* The fraction of grow_cwnd stays below one packet, whatever mix of answers,
\* timeouts and idle periods: a window grows by at most one packet per answer.
FractionBelowWindow ==
  \A i \in Interfaces : interfaces[i].frac < interfaces[i].cwnd

\* When a packet is transmitted for the first time, the packets really in flight
\* on its port, it included, fit the congestion window and the user's limit.
FirstSendWithinWindow ==
  [][\A i \in Interfaces :
       Cardinality(InFlight(i)') > Cardinality(InFlight(i)) =>
         Cardinality(InFlight(i)') <= MIN(interfaces[i].cwnd, userWindow)]_vars

\* A packet that was never transmitted is not given up while its port is in use
\* (AoEService.cpp:1520-1521: "This check ensures we dont retransmit or drop it
\* before it's actually sent").
NotDroppedUnsent ==
  [][\A s \in sent_queue :
       ~s.first /\ (\A r \in sent_queue' : r.tag # s.tag) => ~interfaces'[s.on].enabled]_vars

-------------------------------------------------------------------------------
\* The transport implements ReliableExchange: a tag's exchange is pending while it
\* has an entry in the sent queue, and later answered or closed.
StatusOf(t) ==
  IF t >= nextTag THEN "new"
  ELSE IF InSentQueue(t) THEN "pending"
  ELSE IF answers[t] > 0 THEN "answered"
  ELSE "closed"

Exchange ==
  INSTANCE ReliableExchange WITH status <- [t \in Tags |-> StatusOf(t)]

\* A command is answered to its controller at most once, and never after the
\* transport gave it up, although the network repeats and delays answers and the
\* retransmit timer, a removed port and answers race to take it off the queue.
AtMostOnce == Exchange!Spec

\* Every packet the transport accepted is settled: answered, or given up.
EverythingSettles ==
  \A t \in Tags : InSentQueue(t) ~> ~InSentQueue(t)

\* No packet is stuck in the to-send queue: it is sent, or discarded.
NothingStuck ==
  \A t \in Tags :
    (\E p \in to_send_queue : p.tag = t) ~> (\A p \in to_send_queue : p.tag # t)

===============================================================================

---------------------------- MODULE AoEController ----------------------------
(***************************************************************************)
(* The ATA controllers, one per AoE target (AoEController.cpp), and the    *)
(* registry that owns them and hands out tags (AoEControllerInterface.cpp).*)
(* A controller splits a block transfer into packets of as many sectors as *)
(* the MTU allows, puts the answers together, and completes the command.   *)
(*                                                                         *)
(* Incoming packets, timers, commands and cancellations run one at a time  *)
(* on the work loop: each is one action, except that the packets it issues *)
(* are sent one by one (sending), because the target search of a user      *)
(* program takes tags from another thread meanwhile.                       *)
(*                                                                         *)
(* Below is the transport: `outstanding' are the packets it holds.  Each   *)
(* is answered at most once or given up (AoEService, AtMostOnce).  Above   *)
(* is IOATAController, the base class (external): its queue submits one    *)
(* command at a time, and its timer ends a command that takes too long.    *)
(***************************************************************************)
EXTENDS Integers, Sequences, FiniteSets

CONSTANTS
  Targets,          \* shelf.slot of the targets on the network
  Ports,            \* Ethernet ports by number; en0 is 0
  Commands,         \* the commands the ATA driver may issue
  SectorsPerPacket, \* COUNT_SECTORS_FROM_MTU of the MTUs ports may have
  Capacities,       \* the capacities targets may report
  OfflineTicks,     \* m_TimeUntilTargetOffline_us / LUN_UPDATE_TIME_MS
  MaxTag,           \* bound: MAX_TAG
  TagsWrap,         \* bound: whether tags start again at MIN_TAG
  Searches,         \* bound: whether the state update timer runs
  UserSearches,     \* bound: whether user programs search for targets
  CableEvents       \* bound: whether ports go down and come back

Kinds == {"identify", "read", "write", "faked"}
Nobody == "nobody"      \* toFake: not set, or a controller that was removed

ASSUME ControllerAssumption ==
  /\ IsFiniteSet(Targets) /\ Nobody \notin Targets
  /\ IsFiniteSet(Ports) /\ Ports \subseteq Nat
  /\ Commands \subseteq [kind : Kinds, extended : BOOLEAN, lba : Nat, sectors : Nat]
  /\ \A c \in Commands : c.kind \in {"read", "write"} => c.sectors > 0
  /\ SectorsPerPacket \subseteq Nat \ {0}
  /\ Capacities \subseteq Nat \ {0}
  /\ OfflineTicks \in Nat \ {0} /\ MaxTag \in Nat \ {0, 1}
  /\ {TagsWrap, Searches, UserSearches, CableEvents} \subseteq BOOLEAN

VARIABLES
  controllers,      \* m_pControllers: the known targets, in order of arrival
  controller,       \* the AoEController of each target
  used,             \* enabled ports (EInterfaces::is_used)
  perPacket,        \* sectors per packet at the smallest MTU of the used ports
  currentTag,       \* m_nCurrentTag
  outstanding,      \* packets the transport holds
  sending,          \* packets the work loop is about to issue, in order
  userSending,      \* targets a user's search is about to identify, in order
  fakeTimer,        \* m_pFakeReturnTimer is armed
  toFake            \* m_pControllerToFakeResponse

vars == <<controllers, controller, used, perPacket, currentTag, outstanding,
          sending, userSending, fakeTimer, toFake>>

Known == {controllers[i] : i \in DOMAIN controllers}
Tags == 0 .. MaxTag

Unset == -1             \* a sector of a buffer nothing was read into
NotDisk == -2           \* data that is no sector of the disk: IDENTIFY's

\* IOATABusCommand.  state is "complete" when there is no _currentCommand: the
\* record then is the last command.  data: the sector of the disk each sector
\* of the buffer was read from.  expired: the timer of the base class ran out
\* for it (checkTimeout()).  awaited, lost, clean, failed are history: the
\* packets not answered yet; one of them was given up or purged; no answer to
\* something else counted, no answer to a read came after its time was up, and no
\* MTU changed; an answer reported an error.
NoCommand ==
  [kind |-> "identify", extended |-> FALSE, lba |-> 0, sectors |-> 0,
   state |-> "complete", result |-> "none", chunk |-> 0, actual |-> 0,
   data |-> <<>>, expired |-> FALSE, awaited |-> {}, lost |-> FALSE,
   clean |-> TRUE, failed |-> FALSE]

Command ==
  [kind : Kinds, extended : BOOLEAN, lba : Nat, sectors : Nat,
   state : {"started", "data", "status", "complete"},
   result : {"none", "ok", "error"}, chunk : Nat, actual : Nat,
   data : Seq(Nat \cup {Unset, NotDisk}), expired : BOOLEAN,
   awaited : SUBSET Tags, lost : BOOLEAN, clean : BOOLEAN, failed : BOOLEAN]

\* The members of AoEController.  previousWrite: m_PreviousWriteStatus with
\* m_PreviousWriteError; silent: state updates since m_time_since_last_comm.
NoController ==
  [ports |-> {}, perPacket |-> 0, number |-> 0, registered |-> FALSE,
   replies |-> 0, baseTag |-> 0, identTag |-> 0, previousWrite |-> "none",
   capacity |-> 0, silent |-> 0, command |-> NoCommand]

Controller ==
  [ports : SUBSET Ports, perPacket : Nat, number : Nat, registered : BOOLEAN,
   replies : Int, baseTag : Tags, identTag : Tags,
   previousWrite : {"none", "ok", "error"},
   capacity : Nat, silent : Nat, command : Command]

\* kind "ident": an IDENTIFY the driver sends of its own accord.  from: where
\* in the buffer the data of a write starts.
Packet == [target : Targets, kind : {"ident", "identify", "read", "write"},
           lba : Nat, count : Nat, from : Nat, tag : Tags, on : Ports]

Request == [target : Targets, kind : Kinds \cup {"ident"}, lba : Nat, count : Nat]

TypeOK ==
  /\ controllers \in Seq(Targets)
  /\ controller \in [Targets -> Controller]
  /\ used \subseteq Ports /\ perPacket \in Nat
  /\ currentTag \in Tags
  /\ outstanding \subseteq Packet
  /\ sending \in Seq(Request) /\ userSending \in Seq(Targets)
  /\ fakeTimer \in BOOLEAN /\ toFake \in Targets \cup {Nobody}

Init ==
  /\ controllers = <<>>
  /\ controller = [t \in Targets |-> NoController]
  /\ used = Ports /\ perPacket \in SectorsPerPacket
  /\ currentTag = 1
  /\ outstanding = {}
  /\ sending = <<>> /\ userSending = <<>>
  /\ fakeTimer = FALSE /\ toFake = Nobody

Busy(c) == c.command.state # "complete"
Active(t) == controller[t].ports \cap used
WorkLoopFree == sending = <<>>

-----------------------------------------------------------------------------
(* Tags                                                                     *)

\* MAX_TAG itself is never handed out.
next_tag(tag) == IF tag + 1 = MaxTag THEN 1 ELSE tag + 1

\* Room for n more tags: a bound, unless tags may start again.
TagsLeft(n) == TagsWrap \/ currentTag + n < MaxTag

-----------------------------------------------------------------------------
(* Splitting a command into packets                                         *)

MIN(a, b) == IF a < b THEN a ELSE b
MAX(a, b) == IF a > b THEN a ELSE b

\* m_nReadWriteRepliesRequired before the left-over packet.  A command with
\* 24-bit addresses is divided by its low address byte: ataTFSector is an
\* address register.
WholeReplies(c, per) ==
  MAX(1, (IF c.extended THEN c.sectors ELSE c.lba % 256) \div per)

\* Sectors that remain, as the unsigned byte count left over: modulo 2^32
\* bytes, 2^23 sectors; the packet's sector count keeps 8 bits of it.
LeftOver(c, per) == (c.sectors - WholeReplies(c, per) * per) % 8388608

Transfer(c) == c.kind \in {"read", "write"}

\* Mutant: the next packet starts where this one does.
SameAddress(c, per, i) == c.lba

\* increment_address(): the address of packet i of a transfer.
increment_address(c, per, i) == c.lba + (i - 1) * per

\* Mutant: the left-over packet is not counted.
WholeRepliesOnly(c, per) == WholeReplies(c, per)

\* Mutant: a left-over packet is counted always.
OneReplyMore(c, per) == WholeReplies(c, per) + 1

\* m_nReadWriteRepliesRequired: the answers a transfer waits for.
RepliesRequired(c, per) ==
  WholeReplies(c, per) + (IF LeftOver(c, per) = 0 THEN 0 ELSE 1)

\* The packets asyncCommand() issues.
Requests(t, c, per) ==
  LET whole == c.sectors \div per
      Part(lba, n) == [target |-> t, kind |-> c.kind, lba |-> lba, count |-> n]
  IN  IF ~Transfer(c) THEN <<Part(c.lba, c.sectors)>>
      ELSE [i \in 1 .. whole |-> Part(increment_address(c, per, i), per)]
           \o IF LeftOver(c, per) = 0 THEN <<>>
              ELSE <<Part(increment_address(c, per, whole + 1), LeftOver(c, per) % 256)>>

\* The controller's state when asyncCommand() starts on command c.
start_command(k, c) ==
  LET per == MIN(k.perPacket, c.sectors) IN
  [k EXCEPT
     !.baseTag = 0,
     !.previousWrite = IF c.kind = "write" THEN "none" ELSE @,
     !.replies = IF Transfer(c) THEN RepliesRequired(c, per) ELSE @,
     !.command = [NoCommand EXCEPT
        !.kind = c.kind, !.extended = c.extended, !.lba = c.lba,
        !.sectors = c.sectors, !.chunk = per, !.state = "started",
        !.data = IF c.kind = "write" THEN <<>>
                 ELSE [i \in 1 .. c.sectors |-> Unset]]]

-----------------------------------------------------------------------------
(* Putting the answers together                                             *)

\* What the answer to packet p carries.
Payload(p, status) ==
  IF status = "error" THEN <<>>
  ELSE CASE p.kind = "read" -> [i \in 1 .. p.count |-> p.lba + i - 1]
         [] p.kind \in {"ident", "identify"} -> <<NotDisk>>
         [] OTHER -> <<>>

\* Mutant: answers are taken to arrive in order (the line disabled at 1465).
PlaceInOrder(k, tag) == k.command.actual

\* A sector's place follows from how far the answer's tag is from the first
\* one; as unsigned numbers, a place before the buffer is beyond its end.  The
\* data comes in a chain of buffers, each put behind the one before: a chain
\* that starts before the buffer of the command may still reach into it.
Place(k, tag) == (tag - k.baseTag) * k.command.chunk

\* A command whose time is up goes on to the status phase without the data of
\* this answer; neither ata_response() nor the base class asks why.
completeDataRead(k, tag, payload) ==
  LET remaining == k.command.sectors - k.command.actual
      n == MIN(remaining, MIN(k.perPacket, Len(payload)))
      Here(i) == i - 1 - Place(k, tag)      \* 0-based, in the payload
  IN  IF remaining < 1 \/ k.command.expired THEN [k EXCEPT !.command.state = "status"]
      ELSE [k EXCEPT
             !.command.data = [i \in DOMAIN @ |->
               IF Here(i) \in 0 .. n - 1 THEN payload[Here(i) + 1] ELSE @[i]],
             !.command.actual = @ + n,
             !.command.state = IF k.replies # 0 THEN "data" ELSE "status"]

\* completeIO(): the base class stops its timer.
complete(k, result) ==
  [k EXCEPT !.command.state = "complete", !.command.result = result,
            !.command.expired = FALSE, !.command.lost = FALSE]

\* asyncStatus(): a write error kept from an earlier answer counts.
asyncStatus(k, status) ==
  [complete(k, IF "error" \in {status, k.previousWrite} THEN "error" ELSE "ok")
     EXCEPT !.previousWrite = "none"]

\* handleDeviceInterrupt(), and asyncIO() of the base class: the data phase
\* goes on to the status phase unless it asks for another interrupt.
interrupt(k, tag, payload, status) ==
  LET d == IF k.command.state = "data" THEN completeDataRead(k, tag, payload) ELSE k
  IN  IF d.command.state = "data" THEN d ELSE asyncStatus(d, status)

\* Mutant: every command waits for its replies as a write does.
continue_when_all_replied(k, tag, payload, status) ==
  LET r == [k EXCEPT !.replies = @ - 1]
  IN  IF r.replies # 0 THEN r ELSE interrupt(r, tag, payload, status)

\* ata_response() for a command in progress.  Answers are not compared with
\* the packets of the command.
continue_command(k, tag, payload, status) ==
  LET r == [k EXCEPT !.replies = @ - 1] IN
  CASE k.command.kind = "write" ->
         IF r.replies # 0
           THEN [r EXCEPT !.previousWrite = IF @ = "none" THEN status ELSE @]
           ELSE interrupt(r, tag, payload, status)
    [] k.command.kind = "read" ->
         LET d == completeDataRead(r, tag, payload)
         IN  IF d.command.state = "data" THEN d ELSE asyncStatus(d, status)
    [] OTHER -> interrupt(k, tag, payload, status)

\* The answer is taken for that of an IDENTIFY the driver sent of its own.
Identifies(k, tag) ==
  /\ k.identTag = tag
  /\ Busy(k) => k.command.kind = "identify"

\* History: what the answer does to the notes about the command.
noted(k, tag, status) ==
  IF ~Busy(k) THEN k
  ELSE IF tag \in k.command.awaited
    THEN [k EXCEPT !.command.awaited = @ \ {tag},
                   !.command.failed = @ \/ status = "error",
                   !.command.clean = @ /\ ~(k.command.kind = "read" /\ k.command.expired)]
    ELSE [k EXCEPT !.command.clean = FALSE]

\* ata_response(), but for the removal of a target whose capacity changed.
ata_response(k, tag, payload, status, capacity) ==
  LET n == noted(k, tag, status) IN
  IF Identifies(k, tag) THEN [n EXCEPT !.identTag = 0, !.capacity = capacity]
  ELSE IF Busy(k) THEN continue_command(n, tag, payload, status)
  ELSE n

-----------------------------------------------------------------------------
(* The registry                                                             *)

\* cancel_command().
cancel_command(k) == IF Busy(k) THEN complete(k, "error") ELSE k

\* Mutant: the number of known targets, and one.
next_number_counted == Len(controllers) + 1

\* get_next_target_number(): the smallest number no known target has.
get_next_target_number ==
  LET taken == {controller[t].number : t \in Known}
  IN  CHOOSE n \in 1 .. Len(controllers) + 1 :
        n \notin taken /\ \A m \in 1 .. n - 1 : m \in taken

\* remove_target(): the first controller with that number leaves the registry;
\* the others are as `kept' says.  Whoever iterates over it meanwhile stops.
remove_target(n, kept) ==
  LET i == CHOOSE i \in DOMAIN controllers :
             /\ controller[controllers[i]].number = n
             /\ \A j \in 1 .. i - 1 : controller[controllers[j]].number # n
      t == controllers[i]
  IN  /\ controllers' = SubSeq(controllers, 1, i - 1)
                        \o SubSeq(controllers, i + 1, Len(controllers))
      /\ controller' = [kept EXCEPT ![t] = NoController]
      /\ toFake' = IF toFake = t THEN Nobody ELSE toFake
      /\ userSending' = <<>>

StartCommand(k, t, c) ==
  LET requests == Requests(t, c, MIN(k.perPacket, c.sectors)) IN
  /\ TagsLeft(Len(requests))
  /\ controller' = [controller EXCEPT ![t] = start_command(k, c)]
  /\ sending' = requests

Identify == [kind |-> "identify", extended |-> FALSE, lba |-> 0, sectors |-> 1]

\* aoe_config_receive(): a target not known answers a search on port p, with
\* our config string or not.  Attaching its device starts an IDENTIFY.
Appear(t, p, ours) ==
  /\ WorkLoopFree /\ p \in used /\ t \notin Known
  /\ StartCommand([NoController EXCEPT
       !.ports = {p}, !.perPacket = perPacket, !.number = get_next_target_number,
       !.registered = ours], t, Identify)
  /\ controllers' = Append(controllers, t)
  /\ userSending' = <<>>
  /\ UNCHANGED <<used, perPacket, currentTag, outstanding, fakeTimer, toFake>>

\* aoe_config_receive(): a known target answers a search on port p.  One that
\* was registered and is not ours any more is removed.
Heard(t, p, ours) ==
  /\ WorkLoopFree /\ p \in used /\ t \in Known
  /\ IF controller[t].registered /\ ~ours
       THEN remove_target(controller[t].number, controller)
       ELSE /\ controller' = [controller EXCEPT ![t].ports = @ \cup {p}, ![t].silent = 0]
            /\ UNCHANGED <<controllers, toFake, userSending>>
  /\ UNCHANGED <<used, perPacket, currentTag, outstanding, sending, fakeTimer>>

-----------------------------------------------------------------------------
(* Commands and packets                                                     *)

\* The base class submits the next command: busCanDispatch(), asyncCommand().
Dispatch(t, c) ==
  /\ WorkLoopFree /\ t \in Known
  /\ ~Busy(controller[t]) /\ Active(t) # {}
  /\ StartCommand(controller[t], t, c)
  /\ UNCHANGED <<controllers, used, perPacket, currentTag, outstanding,
                 userSending, fakeTimer, toFake>>

\* The controller after request r of its own was sent with this tag; the last
\* packet of a command leaves it waiting for an interrupt.
sent(k, r, tag, last) ==
  IF r.kind = "ident" THEN [k EXCEPT !.identTag = tag]
  ELSE [k EXCEPT
    !.baseTag = IF @ = 0 THEN tag ELSE @,
    !.command.actual = IF r.kind = "write"
                         THEN @ + MIN(k.command.chunk, k.command.sectors - @) ELSE @,
    !.command.awaited = IF r.kind = "faked" THEN @ ELSE @ \cup {tag},
    !.command.state = IF ~last THEN @
                      ELSE IF r.kind = "identify" THEN "data" ELSE "status"]

\* Mutant: the position is taken after it was moved back by a packet.
append_write_data_behind(k) == k.command.actual - k.command.chunk

\* append_write_data(): where in the buffer the data of a write packet starts.
append_write_data(k) == k.command.actual

\* send_packet(): the load balancer goes round the target's ports until it
\* finds one that is used, however long that takes.
Transmit(r, tag) ==
  \E p \in Active(r.target) :
    outstanding' = {q \in outstanding : q.tag # tag} \cup
      {[target |-> r.target, kind |-> r.kind, lba |-> r.lba, count |-> r.count,
        from |-> IF r.kind = "write" THEN append_write_data(controller[r.target]) ELSE 0,
        tag |-> tag, on |-> p]}

\* issueCommand(), send_identify(): next_tag() and send_ata_packet().  What the
\* AoE protocol has no command for is not sent: a timer answers it.
SendNext ==
  /\ sending # <<>>
  /\ LET r == Head(sending)
         tag == next_tag(currentTag)
     IN  /\ TagsLeft(1)
         /\ currentTag' = tag
         /\ sending' = Tail(sending)
         /\ controller' = [controller EXCEPT
              ![r.target] = sent(controller[r.target], r, tag, Tail(sending) = <<>>)]
         /\ IF r.kind = "faked"
              THEN /\ fakeTimer' = TRUE /\ toFake' = r.target
                   /\ UNCHANGED outstanding
              ELSE /\ Transmit(r, tag)
                   /\ UNCHANGED <<fakeTimer, toFake>>
  /\ UNCHANGED <<controllers, used, perPacket, userSending>>

\* An answer or a faked one for target t.  IDENTIFY data of a capacity other
\* than the known one removes the target.
Respond(t, tag, payload, status, capacity) ==
  IF t \notin Known THEN UNCHANGED <<controllers, controller, userSending, toFake>>
  ELSE LET k == controller[t] IN
    IF Identifies(k, tag) /\ k.capacity \notin {0, capacity}
      THEN remove_target(k.number, controller)
      ELSE /\ controller' = [controller EXCEPT
                ![t] = ata_response(k, tag, payload, status, capacity)]
           /\ UNCHANGED <<controllers, userSending, toFake>>

\* aoe_ata_receive(): the transport passes on the answer to packet p.
Answer(p, status, capacity) ==
  /\ WorkLoopFree
  /\ outstanding' = outstanding \ {p}
  /\ Respond(p.target, p.tag, Payload(p, status), status, capacity)
  /\ UNCHANGED <<used, perPacket, currentTag, sending, fakeTimer>>

\* FakeReturnTimer(): status OK, tag 0, nothing behind the header: without a
\* command it passes for IDENTIFY data, and what is read is on the stack.
FakeReturnTimer ==
  /\ WorkLoopFree /\ fakeTimer
  /\ fakeTimer' = FALSE
  /\ IF toFake = Nobody THEN UNCHANGED <<controllers, controller, userSending, toFake>>
     ELSE \E capacity \in Capacities : Respond(toFake, 0, <<>>, "ok", capacity)
  /\ UNCHANGED <<used, perPacket, currentTag, outstanding, sending>>

\* History: the packets with these tags will not be answered.
losing(k, tags) == [k EXCEPT !.command.lost = @ \/ tags \cap k.command.awaited # {}]

\* The transport gives a packet up: no answer, or an AoE error.
GiveUp(p) ==
  /\ outstanding' = outstanding \ {p}
  /\ controller' = [controller EXCEPT ![p.target] = losing(controller[p.target], {p.tag})]
  /\ UNCHANGED <<controllers, used, perPacket, currentTag, sending, userSending,
                 fakeTimer, toFake>>

\* The timer of the base class runs out for the command of target t.
TimerExpires(t) ==
  /\ t \in Known /\ Busy(controller[t]) /\ ~ controller[t].command.expired
  /\ controller' = [controller EXCEPT ![t].command.expired = TRUE]
  /\ UNCHANGED <<controllers, used, perPacket, currentTag, outstanding, sending,
                 userSending, fakeTimer, toFake>>

\* handleTimeout() of the base class, when the work loop has its turn.
CommandTimeout(t) ==
  /\ WorkLoopFree /\ t \in Known /\ Busy(controller[t]) /\ controller[t].command.expired
  /\ controller' = [controller EXCEPT ![t] = complete(controller[t], "error")]
  /\ UNCHANGED <<controllers, used, perPacket, currentTag, outstanding, sending,
                 userSending, fakeTimer, toFake>>

-----------------------------------------------------------------------------
(* Searches                                                                 *)

Highest(S) == CHOOSE p \in S : \A q \in S : q <= p
Lowest(S) == CHOOSE p \in S : \A q \in S : p <= q

\* The searches of aoe_search_all(): get_nth_interface(n) is the first used
\* port from n on, for n = 0, 1, ... until there is none.
SearchCount == IF used = {} THEN 0 ELSE Highest(used) + 1

\* next_tag(), once for each: tags go round from 1 to MaxTag - 1.
AfterSearches == 1 + ((currentTag - 1 + SearchCount) % (MaxTag - 1))

\* One more LUN_UPDATE_TIME_MS without a word from the targets.
Aged == [t \in Targets |-> IF t \notin Known THEN controller[t] ELSE
          [controller[t] EXCEPT !.silent = MIN(@ + 1, OfflineTicks + Cardinality(Targets))]]

\* Mutant: the time without a word, in ms, is compared with a limit in us.
DownInMilliseconds(k) == k.silent >= 1000 * OfflineTicks

\* The target was not heard of for m_TimeUntilTargetOffline_us.
Down(k) == k.silent >= OfflineTicks

\* check_down_targets(): the first target that was silent for too long goes.
check_down_targets ==
  LET down == {i \in DOMAIN controllers : Down(Aged[controllers[i]])}
  IN  IF down # {}
        THEN remove_target(controller[controllers[Lowest(down)]].number, Aged)
        ELSE controller' = Aged /\ UNCHANGED <<controllers, userSending, toFake>>

Idents(ts) == [i \in DOMAIN ts |->
                 [target |-> ts[i], kind |-> "ident", lba |-> 0, count |-> 0]]

\* StateUpdateTimer(): at most one target that is down is removed, the others
\* are searched for and identified.  A step of it is LUN_UPDATE_TIME_MS.
StateUpdateTimer ==
  /\ Searches /\ WorkLoopFree
  /\ TagsLeft(SearchCount + Len(controllers))
  /\ check_down_targets
  /\ currentTag' = AfterSearches
  /\ sending' = Idents(controllers')
  /\ UNCHANGED <<used, perPacket, outstanding, fakeTimer>>

\* find_targets(), on the thread of a user program: aoe_search_all().
UserSearch ==
  /\ UserSearches /\ userSending = <<>>
  /\ TagsLeft(SearchCount + Len(controllers))
  /\ currentTag' = AfterSearches
  /\ userSending' = controllers
  /\ UNCHANGED <<controllers, controller, used, perPacket, outstanding, sending,
                 fakeTimer, toFake>>

UserIdentify ==
  /\ userSending # <<>>
  /\ LET r == Idents(userSending)[1]
         tag == next_tag(currentTag)
     IN  /\ TagsLeft(1)
         /\ currentTag' = tag
         /\ controller' = [controller EXCEPT ![r.target] = sent(controller[r.target], r, tag, FALSE)]
         /\ Transmit(r, tag)
  /\ userSending' = Tail(userSending)
  /\ UNCHANGED <<controllers, used, perPacket, sending, fakeTimer, toFake>>

-----------------------------------------------------------------------------
(* Ports                                                                    *)

\* Mutant: the port is taken out of use before it is looked up.
HitOnceUnused(n) ==
  LET from == {q \in used : q > n} IN
  {i \in DOMAIN controllers :
     from # {} /\ Lowest(from) \in controller[controllers[i]].ports}

\* The targets connected to the port get_nth_interface(n) gives: the first
\* used one from n on.
Hit(n) ==
  LET from == {q \in used : q >= n} IN
  {i \in DOMAIN controllers :
     from # {} /\ Lowest(from) \in controller[controllers[i]].ports}

\* cg_disable_interface(): the cable of port n went out, or the user disabled
\* it.  Its packets are purged, and of the targets connected to the port the
\* first has its command cancelled.
PortDown(n) ==
  /\ CableEvents /\ WorkLoopFree
  /\ used' = used \ {n}
  /\ outstanding' = {p \in outstanding : p.on \in used'}
  /\ LET purged == {p.tag : p \in outstanding \ outstanding'}
     IN  controller' = [t \in Targets |->
           IF Hit(n) # {} /\ t = controllers[Lowest(Hit(n))]
             THEN cancel_command(controller[t])
             ELSE losing(controller[t], purged)]
  /\ UNCHANGED <<controllers, perPacket, currentTag, sending, userSending,
                 fakeTimer, toFake>>

\* interface_reconnected(), cg_enable_interface(): adjust_mtu_sizes() gives
\* every controller the smallest MTU of the used ports.
PortUp(n, per) ==
  /\ CableEvents /\ n \in Ports \ used
  /\ used' = used \cup {n} /\ perPacket' = per
  /\ controller' = [t \in Targets |-> IF t \notin Known THEN controller[t]
       ELSE [controller[t] EXCEPT !.perPacket = per,
               !.command.clean = @ /\ controller[t].perPacket = per]]
  /\ UNCHANGED <<controllers, currentTag, outstanding, sending, userSending,
                 fakeTimer, toFake>>

-----------------------------------------------------------------------------
WorkLoop == SendNext \/ FakeReturnTimer \/ StateUpdateTimer

Next ==
  \/ WorkLoop
  \/ UserSearch \/ UserIdentify
  \/ \E t \in Targets, p \in Ports, ours \in BOOLEAN : Appear(t, p, ours) \/ Heard(t, p, ours)
  \/ \E t \in Targets, c \in Commands : Dispatch(t, c)
  \/ \E t \in Targets : TimerExpires(t) \/ CommandTimeout(t)
  \/ \E p \in outstanding, status \in {"ok", "error"}, capacity \in Capacities :
       Answer(p, status, capacity)
  \/ \E p \in outstanding : GiveUp(p)
  \/ \E n \in Ports : PortDown(n)
  \/ \E n \in Ports, per \in SectorsPerPacket : PortUp(n, per)

Spec == Init /\ [][Next]_vars

\* The work loop goes on sending, and serves its event sources in turn: the
\* timer, armed again at the end of every state update, has its turn although
\* others keep the loop busy in between.
FairSpec == Spec /\ WF_vars(SendNext) /\ SF_vars(StateUpdateTimer)

-----------------------------------------------------------------------------
(* Properties                                                               *)

InTransfer(t) == Busy(controller[t]) /\ Transfer(controller[t].command)

\* However answers are reordered, late, or to something else, and if the MTU
\* changes meanwhile, what a read put into its buffer is in its place: the place
\* completeDataRead() derives from the tag is that of the sectors.  (A late
\* answer longer than a packet of the read is another matter: the MTU shrank
\* before the read, and grew again before the answer.)
DataInPlace ==
  \A t \in Targets : LET c == controller[t].command IN
    c.kind = "read" => \A i \in DOMAIN c.data : c.data[i] \in {Unset, c.lba + i - 1}

\* A transfer reported complete and free of errors had all its packets answered,
\* and a read has filled its buffer, whatever was lost on the way.  Two cases are
\* left out: an answer to something else counted (IdentEndsNothing) or the MTU
\* changed; an answer came for a read whose time was up, which ends it (1442).
WholeTransfer ==
  \A t \in Targets : LET c == controller[t].command IN
    (c.state = "complete" /\ c.result = "ok" /\ c.clean /\ Transfer(c)) =>
      /\ c.awaited = {}
      /\ (c.kind = "read" /\ ~c.failed) => \A i \in DOMAIN c.data : c.data[i] # Unset

\* m_nReadWriteRepliesRequired is the number of the packets of the transfer not
\* answered: it cannot end early.  Unless one was lost, the transport holds them
\* all: the transfer does not wait for an answer that will not come.
AwaitedReplies ==
  \A t \in Targets : LET k == controller[t] IN
    (InTransfer(t) /\ WorkLoopFree /\ k.command.clean) =>
      /\ k.replies = Cardinality(k.command.awaited)
      /\ ~k.command.lost => k.command.awaited \subseteq {p.tag : p \in outstanding}

\* The packets of a command address the command's sectors, and the data a write
\* packet carries is that for its address (append_write_data).
PacketsInTransfer ==
  \A p \in outstanding : LET c == controller[p.target].command IN
    (InTransfer(p.target) /\ p.tag \in c.awaited) =>
      /\ c.lba <= p.lba /\ p.lba + p.count <= c.lba + c.sectors
      /\ p.kind = "write" => p.from = p.lba - c.lba

\* Of the targets connected to port n, the one that was known first.
FirstOn(t, n) ==
  \E i \in DOMAIN controllers :
    /\ controllers[i] = t
    /\ \A j \in DOMAIN controllers : n \in controller[controllers[j]].ports => i <= j

\* "if one of them goes down, we cancel the whole command"
\* (AoEControllerInterface.cpp:682).  cancel_commands_on_interface() stops at the
\* first target it cancels (705): the command of that one does not go on when
\* its packets went with the port, whatever else is known on it.
PurgedFirstCancelled ==
  [][\A p \in outstanding \ outstanding' :
       (used' # used /\ Busy(controller[p.target])
          /\ p.tag \in controller[p.target].command.awaited /\ FirstOn(p.target, p.on))
       => ~Busy(controller'[p.target])]_vars

\* The command of this controller waits for FakeReturnTimer().
AwaitsFake(k) == k.command.kind = "faked" /\ k.command.state = "status"

\* A command no packet is sent for has its answer on the way, and that answer is
\* lost only to the command of another target that is faked before the timer runs:
\* there is one m_pControllerToFakeResponse (AoEControllerInterface.cpp:945).
FakedAnswered ==
  [][\A t \in Targets :
       (AwaitsFake(controller'[t]) /\ (AwaitsFake(controller[t]) => fakeTimer /\ toFake = t))
       => /\ fakeTimer'
          /\ toFake' \in Targets /\ AwaitsFake(controller'[toFake'])]_vars

\* No two known targets have the same number: remove_target() finds the one
\* that was meant.
NumbersUnique ==
  \A t \in Known, u \in Known : controller[t].number = controller[u].number => t = u

\* check_down_targets() removes one target at a time, yet however many fall
\* silent at once, each is gone after one more state update for each other one.
RemovedInTurn ==
  \A t \in Known : controller[t].silent < OfflineTicks + Cardinality(Targets) - 1

\* "removing the device from the system if it has gone down"
\* (AoEControllerInterface.cpp:499): a target that stays silent is removed.
SilentRemoved ==
  \A t \in Targets : (controller[t].silent > 0) ~> (controller[t].silent = 0)

\* "If we forced a send of IDENT, don't trigger an interrupt"
\* (AoEController.cpp:566): the answer to an IDENTIFY the driver sent of its own
\* does not end the transfer in progress, as long as that has time.
IdentEndsNothing ==
  [][\A p \in outstanding \ outstanding' :
       (p.kind = "ident" /\ used' = used /\ InTransfer(p.target)
          /\ ~controller[p.target].command.expired
          /\ p.target \in {controllers'[i] : i \in DOMAIN controllers'})
       => Busy(controller'[p.target])]_vars

\* "We wait until all transfers are complete before passing the error back to
\* the system" (AoEController.cpp:436): a write that had an error ends in one.
WriteErrorReported ==
  \A t \in Targets : LET c == controller[t].command IN
    (c.kind = "write" /\ c.failed /\ c.state = "complete") => c.result = "error"
=============================================================================

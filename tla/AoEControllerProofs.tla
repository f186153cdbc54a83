-------------------------- MODULE AoEControllerProofs --------------------------
(***************************************************************************)
(* What AoEController promises, for every number of targets, ports, tags   *)
(* and commands.                                                           *)
(*                                                                         *)
(* The registry (Registry) comes first, everything else rests on it: block *)
(* transfers (Transfers), the places of what is read (Reads), the ports of *)
(* packets (OnPorts) and answers that are made up (Faking).                *)
(***************************************************************************)
EXTENDS AoEController, LeastNumbers, SequenceTheorems, FiniteSetTheorems

-----------------------------------------------------------------------------
(* What answers and packets do to a controller.                            *)

Sector == Nat \cup {Unset, NotDisk}

\* No more is transferred than was asked for.
Sized == {c \in Command : c.actual <= c.sectors}

Controlled == {k \in Controller : k.command \in Sized}

\* What the registry keeps of a target.
SameTarget(k, r) ==
  /\ r.ports = k.ports /\ r.perPacket = k.perPacket /\ r.number = k.number
  /\ r.registered = k.registered /\ r.silent = k.silent

\* A controller whose command is another.
LEMMA WithCommand ==
  ASSUME NEW k \in Controlled, NEW c \in Sized
  PROVE  /\ [k EXCEPT !.command = c] \in Controlled
         /\ [k EXCEPT !.command = c].command = c
         /\ SameTarget(k, [k EXCEPT !.command = c])
<1>1. k \in Controller /\ c \in Command
  BY DEF Controlled, Sized
<1>2. [k EXCEPT !.command = c] \in Controller
  BY <1>1 DEF Controller
<1>3. [k EXCEPT !.command = c].command = c /\ SameTarget(k, [k EXCEPT !.command = c])
  BY <1>1 DEF Controller, SameTarget
<1> QED BY <1>2, <1>3 DEF Controlled

\* completeDataRead (AoEController.cpp:1408-1550) puts sectors in the places of others.
LEMMA CompleteDataReadTyped ==
  ASSUME NEW k \in Controlled, NEW tag \in Tags, NEW payload \in Seq(Sector)
  PROVE  /\ completeDataRead(k, tag, payload) \in Controlled
         /\ SameTarget(k, completeDataRead(k, tag, payload))
<1> DEFINE c == k.command
           remaining == c.sectors - c.actual
           n == MIN(remaining, MIN(k.perPacket, Len(payload)))
           Here(i) == i - 1 - Place(k, tag)
           data == [i \in DOMAIN c.data |->
                      IF Here(i) \in 0 .. n - 1 THEN payload[Here(i) + 1] ELSE c.data[i]]
<1>1. c \in Sized /\ k.perPacket \in Nat
  BY DEF Controlled, Controller
<1>2. c.sectors \in Nat /\ c.actual \in Nat /\ c.data \in Seq(Sector)
  BY <1>1 DEF Sized, Command, Sector
<1>3. CASE remaining < 1 \/ c.expired
  <2>1. completeDataRead(k, tag, payload) = [k EXCEPT !.command.state = "status"]
    BY <1>3 DEF completeDataRead
  <2>2. [c EXCEPT !.state = "status"] \in Sized
    BY <1>1 DEF Sized, Command
  <2>3. completeDataRead(k, tag, payload) = [k EXCEPT !.command = [c EXCEPT !.state = "status"]]
    BY <2>1 DEF Controlled, Controller
  <2> QED BY <2>2, <2>3, WithCommand
<1>4. CASE ~ (remaining < 1) /\ ~ c.expired
  <2>1. completeDataRead(k, tag, payload) =
          [k EXCEPT !.command.data = data, !.command.actual = @ + n,
                    !.command.state = IF k.replies # 0 THEN "data" ELSE "status"]
    BY <1>4 DEF completeDataRead
  <2>2. n \in Nat /\ n <= Len(payload)
    BY <1>2, <1>4, <1>1, LenProperties DEF MIN
  <2>3. data \in Seq(Sector)
    <3>1. ASSUME NEW i \in DOMAIN c.data PROVE data[i] \in Sector
      <4>1. CASE Here(i) \in 0 .. n - 1
        <5>1. Here(i) + 1 \in 1..Len(payload)
          BY <4>1, <2>2, LenProperties
        <5> QED BY <4>1, <5>1, ElementOfSeq
      <4>2. CASE ~ (Here(i) \in 0 .. n - 1)
        BY <4>2, <1>2, ElementOfSeq
      <4> QED BY <4>1, <4>2
    <3>2. DOMAIN c.data = 1..Len(c.data) /\ Len(c.data) \in Nat
      BY <1>2, LenProperties
    <3>3. data \in [1..Len(c.data) -> Sector]
      BY <3>1, <3>2
    <3> QED BY <3>2, <3>3, SeqDef
  <2> HIDE DEF data, n
  <2>4. c.actual + n \in Nat
    BY <1>2, <2>2
  <2> DEFINE d == [c EXCEPT !.data = data, !.actual = @ + n,
                            !.state = IF k.replies # 0 THEN "data" ELSE "status"]
  <2>5. d \in Sized
    <3>1. d \in Command
      BY <1>1, <2>3, <2>4 DEF Sized, Command, Sector
    <3>2. d.actual = c.actual + n /\ d.sectors = c.sectors
      BY <1>1 DEF Sized, Command
    <3>3. c.actual + n <= c.sectors
      BY <1>1, <1>2, <1>4, LenProperties DEF n, MIN
    <3> QED BY <3>1, <3>2, <3>3 DEF Sized
  <2>6. completeDataRead(k, tag, payload) = [k EXCEPT !.command = d]
    BY <2>1 DEF Controlled, Controller
  <2> HIDE DEF d
  <2> QED BY <2>5, <2>6, WithCommand
<1> QED BY <1>3, <1>4

\* completeIO ends a command and leaves the target as it is.
LEMMA CompleteTyped ==
  ASSUME NEW k \in Controlled, NEW result \in {"ok", "error"}
  PROVE  /\ complete(k, result) \in Controlled
         /\ SameTarget(k, complete(k, result))
         /\ complete(k, result).command = [k.command EXCEPT !.state = "complete", !.result = result,
                                 !.expired = FALSE, !.lost = FALSE]
<1>1. k.command \in Sized
  BY DEF Controlled, Controller
<1>2. [k.command EXCEPT !.state = "complete", !.result = result,
                                 !.expired = FALSE, !.lost = FALSE] \in Sized
  BY <1>1 DEF Sized, Command
<1>3. complete(k, result) = [k EXCEPT !.command = [k.command EXCEPT !.state = "complete", !.result = result,
                                 !.expired = FALSE, !.lost = FALSE]]
  BY DEF complete, Controlled, Controller
<1> QED BY <1>2, <1>3, WithCommand

\* asyncStatus ends the command and leaves the rest of the controller as it is.
LEMMA AsyncStatusTyped ==
  ASSUME NEW k \in Controlled, NEW status \in {"ok", "error"}
  PROVE  /\ asyncStatus(k, status) \in Controlled
         /\ SameTarget(k, asyncStatus(k, status))
         /\ \E result \in {"ok", "error"} :
              asyncStatus(k, status).command = [k.command EXCEPT !.state = "complete", !.result = result,
                                 !.expired = FALSE, !.lost = FALSE]
<1>1. PICK result \in {"ok", "error"} :
        result = IF "error" \in {status, k.previousWrite} THEN "error" ELSE "ok"
  OBVIOUS
<1>2. asyncStatus(k, status) = [complete(k, result) EXCEPT !.previousWrite = "none"]
  BY <1>1 DEF asyncStatus
<1>3. PICK d : d = complete(k, result)
  OBVIOUS
<1>4. /\ d \in Controlled /\ SameTarget(k, d)
      /\ d.command = [k.command EXCEPT !.state = "complete", !.result = result,
                                 !.expired = FALSE, !.lost = FALSE]
  BY <1>3, CompleteTyped
<1>5. asyncStatus(k, status) = [d EXCEPT !.previousWrite = "none"]
  BY <1>2, <1>3
<1>6. [d EXCEPT !.previousWrite = "none"] \in Controlled
      /\ SameTarget(d, [d EXCEPT !.previousWrite = "none"])
      /\ [d EXCEPT !.previousWrite = "none"].command = d.command
  BY <1>4 DEF Controlled, Controller, SameTarget
<1> QED BY <1>4, <1>5, <1>6 DEF SameTarget

\* An interrupt of the controller keeps its members' types (handleDeviceInterrupt).
LEMMA InterruptTyped ==
  ASSUME NEW k \in Controlled, NEW tag \in Tags, NEW payload \in Seq(Sector),
         NEW status \in {"ok", "error"}
  PROVE  /\ interrupt(k, tag, payload, status) \in Controlled
         /\ SameTarget(k, interrupt(k, tag, payload, status))
<1>1. PICK d : d = IF k.command.state = "data" THEN completeDataRead(k, tag, payload) ELSE k
  OBVIOUS
<1>2. d \in Controlled /\ SameTarget(k, d)
  BY <1>1, CompleteDataReadTyped DEF SameTarget
<1>3. interrupt(k, tag, payload, status) =
        IF d.command.state = "data" THEN d ELSE asyncStatus(d, status)
  BY <1>1 DEF interrupt
<1>4. asyncStatus(d, status) \in Controlled /\ SameTarget(d, asyncStatus(d, status))
  BY <1>2, AsyncStatusTyped
<1> QED BY <1>2, <1>3, <1>4 DEF SameTarget

\* An answer to a command in progress keeps the members' types (ata_response).
LEMMA ContinueTyped ==
  ASSUME NEW k \in Controlled, NEW tag \in Tags, NEW payload \in Seq(Sector),
         NEW status \in {"ok", "error"}
  PROVE  /\ continue_command(k, tag, payload, status) \in Controlled
         /\ SameTarget(k, continue_command(k, tag, payload, status))
<1>1. PICK r : r = [k EXCEPT !.replies = @ - 1]
  OBVIOUS
<1>2. r \in Controlled /\ SameTarget(k, r)
  BY <1>1 DEF Controlled, Controller, SameTarget
<1>3. CASE k.command.kind = "write"
  <2>1. CASE r.replies # 0
    <3>1. continue_command(k, tag, payload, status) =
            [r EXCEPT !.previousWrite = IF @ = "none" THEN status ELSE @]
      BY <1>1, <1>3, <2>1 DEF continue_command
    <3>2. [r EXCEPT !.previousWrite = IF @ = "none" THEN status ELSE @] \in Controlled
          /\ SameTarget(r, [r EXCEPT !.previousWrite = IF @ = "none" THEN status ELSE @])
      BY <1>2 DEF Controlled, Controller, SameTarget
    <3> QED BY <1>2, <3>1, <3>2 DEF SameTarget
  <2>2. CASE r.replies = 0
    <3>1. continue_command(k, tag, payload, status) = interrupt(r, tag, payload, status)
      BY <1>1, <1>3, <2>2 DEF continue_command
    <3> QED BY <1>2, <3>1, InterruptTyped DEF SameTarget
  <2> QED BY <2>1, <2>2
<1>4. CASE k.command.kind = "read"
  <2>1. PICK d : d = completeDataRead(r, tag, payload)
    OBVIOUS
  <2>2. continue_command(k, tag, payload, status) =
          IF d.command.state = "data" THEN d ELSE asyncStatus(d, status)
    BY <1>1, <1>4, <2>1 DEF continue_command
  <2>3. d \in Controlled /\ SameTarget(k, d)
    BY <1>2, <2>1, CompleteDataReadTyped DEF SameTarget
  <2>4. asyncStatus(d, status) \in Controlled /\ SameTarget(d, asyncStatus(d, status))
    BY <2>3, AsyncStatusTyped
  <2> QED BY <2>2, <2>3, <2>4 DEF SameTarget
<1>5. CASE k.command.kind \notin {"read", "write"}
  <2>1. continue_command(k, tag, payload, status) = interrupt(k, tag, payload, status)
    BY <1>5 DEF continue_command
  <2> QED BY <2>1, InterruptTyped
<1> QED BY <1>3, <1>4, <1>5

\* The notes about a command keep their types when an answer comes.
LEMMA NotedTyped ==
  ASSUME NEW k \in Controlled, NEW tag, NEW status
  PROVE  noted(k, tag, status) \in Controlled /\ SameTarget(k, noted(k, tag, status))
<1>1. k.command \in Sized
  BY DEF Controlled, Controller
<1>2. [k.command EXCEPT !.awaited = @ \ {tag}, !.failed = @ \/ status = "error",
                        !.clean = @ /\ ~ (k.command.kind = "read" /\ k.command.expired)] \in Sized
  BY <1>1 DEF Sized, Command
<1>3. [k.command EXCEPT !.clean = FALSE] \in Sized
  BY <1>1 DEF Sized, Command
<1>4. \/ noted(k, tag, status) = k
      \/ \E c \in Sized : noted(k, tag, status) = [k EXCEPT !.command = c]
  BY <1>2, <1>3 DEF noted, Controlled, Controller
<1>5. CASE noted(k, tag, status) = k
  BY <1>5 DEF SameTarget
<1>6. CASE \E c \in Sized : noted(k, tag, status) = [k EXCEPT !.command = c]
  BY <1>6, WithCommand
<1> QED BY <1>4, <1>5, <1>6

\* Whatever answer comes, the controller stays one, and of the same target
\* (AoEController.cpp:385-604).
LEMMA ResponseTyped ==
  ASSUME NEW k \in Controlled, NEW tag \in Tags, NEW payload \in Seq(Sector),
         NEW status \in {"ok", "error"}, NEW capacity \in Nat
  PROVE  /\ ata_response(k, tag, payload, status, capacity) \in Controlled
         /\ SameTarget(k, ata_response(k, tag, payload, status, capacity))
<1>1. PICK n : n = noted(k, tag, status)
  OBVIOUS
<1>2. n \in Controlled /\ SameTarget(k, n)
  BY <1>1, NotedTyped
<1>3. CASE Identifies(k, tag)
  <2>1. ata_response(k, tag, payload, status, capacity) =
          [n EXCEPT !.identTag = 0, !.capacity = capacity]
    BY <1>1, <1>3 DEF ata_response
  <2>2. 0 \in Tags
    BY ControllerAssumption DEF ControllerAssumption, Tags
  <2>3. [n EXCEPT !.identTag = 0, !.capacity = capacity] \in Controlled
        /\ SameTarget(n, [n EXCEPT !.identTag = 0, !.capacity = capacity])
    BY <1>2, <2>2 DEF Controlled, Controller, SameTarget
  <2> QED BY <1>2, <2>1, <2>3 DEF SameTarget
<1>4. CASE ~ Identifies(k, tag) /\ Busy(k)
  <2>1. ata_response(k, tag, payload, status, capacity) =
          continue_command(n, tag, payload, status)
    BY <1>1, <1>4 DEF ata_response
  <2> QED BY <1>2, <2>1, ContinueTyped DEF SameTarget
<1>5. CASE ~ Identifies(k, tag) /\ ~ Busy(k)
  BY <1>1, <1>2, <1>5 DEF ata_response
<1> QED BY <1>3, <1>4, <1>5

\* Packets that are lost are noted with the command that waits for them, and
\* nothing else changes; no command waits for none.
LEMMA LosingTyped ==
  ASSUME NEW k \in Controlled, NEW tags
  PROVE  /\ losing(k, tags) \in Controlled /\ SameTarget(k, losing(k, tags))
         /\ k = NoController => losing(k, tags) = k
         /\ \E lost \in BOOLEAN :
              /\ lost <=> (k.command.lost \/ tags \cap k.command.awaited # {})
              /\ losing(k, tags) = [k EXCEPT !.command = [k.command EXCEPT !.lost = lost]]
<1>1. k \in Controller /\ k.command \in Sized /\ k.command \in Command
  BY DEF Controlled, Controller, Sized
<1>2. PICK lost \in BOOLEAN : lost <=> (k.command.lost \/ tags \cap k.command.awaited # {})
  OBVIOUS
<1>3. losing(k, tags) = [k EXCEPT !.command = [k.command EXCEPT !.lost = lost]]
  <2>1. k.command.lost \in BOOLEAN
    BY <1>1 DEF Command
  <2>2. losing(k, tags) = [k EXCEPT !.command.lost = lost]
    BY <1>2, <2>1 DEF losing
  <2> QED BY <1>1, <2>2 DEF Controller
<1>4. [k.command EXCEPT !.lost = lost] \in Sized
  BY <1>1 DEF Sized, Command
<1>5. ASSUME k = NoController PROVE losing(k, tags) = k
  <2>1. k.command = NoCommand /\ lost = FALSE
    BY <1>2, <1>5 DEF NoController, NoCommand
  <2>2. k.command.lost = lost
    <3>1. ~ k.command.lost
      BY <1>5 DEF NoController, NoCommand
    <3>2. k.command.lost \in BOOLEAN /\ lost = FALSE
      BY <1>1, <2>1 DEF Command
    <3> QED BY <3>1, <3>2
  <2>3. [k.command EXCEPT !.lost = lost] = k.command
    BY <1>1, <2>2 DEF Command
  <2> QED BY <1>1, <1>3, <2>3 DEF Controller
<1> QED BY <1>2, <1>3, <1>4, <1>5, WithCommand

\* A command whose time is up, noted with it.
LEMMA ExpiredTyped ==
  ASSUME NEW k \in Controlled
  PROVE  /\ [k.command EXCEPT !.expired = TRUE] \in Sized
         /\ [k EXCEPT !.command.expired = TRUE] =
              [k EXCEPT !.command = [k.command EXCEPT !.expired = TRUE]]
         /\ [k EXCEPT !.command.expired = TRUE] \in Controlled
         /\ SameTarget(k, [k EXCEPT !.command.expired = TRUE])
<1>1. k \in Controller /\ k.command \in Sized
  BY DEF Controlled, Controller
<1>2. [k.command EXCEPT !.expired = TRUE] \in Sized
  BY <1>1 DEF Sized, Command
<1>3. [k EXCEPT !.command.expired = TRUE] =
        [k EXCEPT !.command = [k.command EXCEPT !.expired = TRUE]]
  BY <1>1 DEF Controller
<1> QED BY <1>2, <1>3, WithCommand

\* A note that packets were lost, or that the time is up, leaves the rest of a
\* controller and of its command as it was.
NotedOnly(k, r) ==
  /\ r.replies = k.replies /\ r.baseTag = k.baseTag /\ r.identTag = k.identTag
  /\ r.perPacket = k.perPacket /\ r.ports = k.ports /\ r.previousWrite = k.previousWrite
  /\ LET c == r.command  d == k.command IN
       /\ c.kind = d.kind /\ c.extended = d.extended /\ c.lba = d.lba
       /\ c.sectors = d.sectors /\ c.state = d.state /\ c.result = d.result
       /\ c.chunk = d.chunk /\ c.actual = d.actual /\ c.data = d.data
       /\ c.awaited = d.awaited /\ c.clean = d.clean /\ c.failed = d.failed

LEMMA NotesOnly ==
  ASSUME NEW k \in Controlled, NEW lost, NEW expired, NEW r,
         \/ r = [k EXCEPT !.command = [k.command EXCEPT !.lost = lost]]
         \/ r = [k EXCEPT !.command = [k.command EXCEPT !.expired = expired]]
  PROVE  NotedOnly(k, r)
<1>1. k \in Controller /\ k.command \in Command
  BY DEF Controlled, Controller, Sized
<1>2. PICK c : /\ \/ c = [k.command EXCEPT !.lost = lost]
                  \/ c = [k.command EXCEPT !.expired = expired]
               /\ r = [k EXCEPT !.command = c]
  OBVIOUS
<1>3. /\ r.replies = k.replies /\ r.baseTag = k.baseTag /\ r.identTag = k.identTag
      /\ r.perPacket = k.perPacket /\ r.ports = k.ports /\ r.previousWrite = k.previousWrite
      /\ r.command = c
  BY <1>1, <1>2 DEF Controller
<1>4. LET d == k.command IN
       /\ c.kind = d.kind /\ c.extended = d.extended /\ c.lba = d.lba
       /\ c.sectors = d.sectors /\ c.state = d.state /\ c.result = d.result
       /\ c.chunk = d.chunk /\ c.actual = d.actual /\ c.data = d.data
       /\ c.awaited = d.awaited /\ c.clean = d.clean /\ c.failed = d.failed
  BY <1>1, <1>2 DEF Command
<1> QED BY <1>3, <1>4 DEF NotedOnly

\* Lost packets are noted, and those that are not.
LEMMA LosingNotes ==
  ASSUME NEW k \in Controlled, NEW tags
  PROVE  /\ NotedOnly(k, losing(k, tags))
         /\ ~ losing(k, tags).command.lost =>
              ~ k.command.lost /\ tags \cap k.command.awaited = {}
<1>1. PICK lost \in BOOLEAN :
        /\ lost <=> (k.command.lost \/ tags \cap k.command.awaited # {})
        /\ losing(k, tags) = [k EXCEPT !.command = [k.command EXCEPT !.lost = lost]]
  BY LosingTyped
<1>2. k \in Controller /\ k.command \in Command
  BY DEF Controlled, Controller, Sized
<1>3. losing(k, tags).command.lost = lost
  BY <1>1, <1>2 DEF Controller, Command
<1> QED BY <1>1, <1>3, NotesOnly

\* So is that the time is up.
LEMMA ExpiredNotes ==
  ASSUME NEW k \in Controlled
  PROVE  /\ NotedOnly(k, [k EXCEPT !.command.expired = TRUE])
         /\ [k EXCEPT !.command.expired = TRUE].command.lost = k.command.lost
<1>1. [k EXCEPT !.command.expired = TRUE] =
        [k EXCEPT !.command = [k.command EXCEPT !.expired = TRUE]]
  BY ExpiredTyped
<1>2. k \in Controller /\ k.command \in Command
  BY DEF Controlled, Controller, Sized
<1>3. [k EXCEPT !.command.expired = TRUE].command.lost = k.command.lost
  BY <1>1, <1>2 DEF Controller, Command
<1> QED BY <1>1, <1>3, NotesOnly

-----------------------------------------------------------------------------
(* Splitting a command into packets.                                       *)

\* What a command looks like before it runs, that of the registry included.
Dispatchable ==
  {c \in [kind : Kinds, extended : BOOLEAN, lba : Nat, sectors : Nat] :
     c.kind \in {"read", "write"} => c.sectors > 0}

\* A packet takes no more sectors than the MTU allows and than there are, and if
\* there is one it takes one (AoEController.cpp:1925-1952).
LEMMA SectorsOfPacket ==
  ASSUME NEW m \in Nat \ {0}, NEW n \in Nat
  PROVE  MIN(m, n) \in Nat /\ MIN(m, n) <= m /\ MIN(m, n) <= n /\ (n > 0 => MIN(m, n) > 0)
BY DEF MIN

\* The sectors asyncCommand puts into a packet of a transfer.
LEMMA SectorsOfTransfer ==
  ASSUME NEW m \in Nat \ {0}, NEW c \in Dispatchable, NEW per, per = MIN(m, c.sectors)
  PROVE  per \in Nat /\ per <= m /\ (Transfer(c) => per \in Nat \ {0} /\ per <= c.sectors)
BY SectorsOfPacket DEF Transfer, Dispatchable

\* The counts of packets and left-over sectors are natural numbers (asyncCommand).
LEMMA PartsTyped ==
  ASSUME NEW c \in Dispatchable, NEW per \in Nat \ {0}
  PROVE  /\ WholeReplies(c, per) \in Nat /\ LeftOver(c, per) \in Nat
         /\ RepliesRequired(c, per) \in Nat
         /\ c.sectors \div per \in Nat
         /\ LeftOver(c, per) % 256 \in Nat
         /\ \A i \in Nat \ {0} : increment_address(c, per, i) \in Nat
<1>1. c.sectors \in Nat /\ c.lba \in Nat
  BY DEF Dispatchable
<1>2. \A n \in Nat : n \div per \in Nat
  OBVIOUS
<1>3. c.lba % 256 \in Nat
  BY <1>1
<1>4. WholeReplies(c, per) \in Nat
  <2>1. (IF c.extended THEN c.sectors ELSE c.lba % 256) \in Nat
    BY <1>1, <1>3
  <2> QED BY <2>1, <1>2 DEF WholeReplies, MAX
<1>5. LeftOver(c, per) \in Nat
  <2>1. \A m \in Int : m % 8388608 \in Nat
    OBVIOUS
  <2>2. c.sectors - WholeReplies(c, per) * per \in Int
    BY <1>1, <1>4
  <2> QED BY <2>1, <2>2 DEF LeftOver
<1>6. \A i \in Nat \ {0} : increment_address(c, per, i) \in Nat
  <2> SUFFICES ASSUME NEW i \in Nat \ {0} PROVE increment_address(c, per, i) \in Nat
    OBVIOUS
  <2>1. \A j \in Nat : j * per \in Nat
    OBVIOUS
  <2>2. i - 1 \in Nat
    OBVIOUS
  <2>3. (i - 1) * per \in Nat
    BY <2>1, <2>2, Zenon
  <2> QED BY <1>1, <2>3 DEF increment_address
<1> QED BY <1>1, <1>2, <1>4, <1>5, <1>6 DEF RepliesRequired

\* What the ATA driver issues, and the first IDENTIFY, can be divided into packets.
LEMMA CommandsDispatchable ==
  Commands \subseteq Dispatchable /\ Identify \in Dispatchable
BY ControllerAssumption DEF ControllerAssumption, Dispatchable, Identify, Kinds

\* asyncCommand issues at least one packet, and all for its target
\* (AoEController.cpp:1945-2057).
LEMMA RequestsTyped ==
  ASSUME NEW t \in Targets, NEW c \in Dispatchable,
         NEW per, Transfer(c) => per \in Nat \ {0} /\ per <= c.sectors,
         NEW requests, requests = Requests(t, c, per)
  PROVE  /\ requests \in Seq(Request) /\ requests # <<>>
         /\ \A i \in DOMAIN requests : requests[i].target = t
         /\ \A i \in DOMAIN requests : requests[i].kind = c.kind
<1> DEFINE whole == c.sectors \div per
           Part(lba, n) == [target |-> t, kind |-> c.kind, lba |-> lba, count |-> n]
           Mine == {r \in Request : r.target = t /\ r.kind = c.kind}
<1>1. c.sectors \in Nat /\ c.lba \in Nat /\ c.kind \in Kinds
  BY DEF Dispatchable
<1>2. \A lba, n \in Nat : Part(lba, n) \in Mine
  <2> SUFFICES ASSUME NEW lba \in Nat, NEW n \in Nat PROVE Part(lba, n) \in Mine
    OBVIOUS
  <2>1. Part(lba, n) \in Request
    BY <1>1 DEF Request
  <2> QED BY <2>1
<1>3. CASE ~ Transfer(c)
  <2>1. Requests(t, c, per) = <<Part(c.lba, c.sectors)>>
    BY <1>3 DEF Requests
  <2>2. Part(c.lba, c.sectors) \in Mine
    BY <1>1, <1>2
  <2> HIDE DEF Part, Mine
  <2>3. /\ <<Part(c.lba, c.sectors)>> \in Seq(Mine)
        /\ <<Part(c.lba, c.sectors)>> # <<>>
    BY <2>2
  <2>4. \A i \in DOMAIN <<Part(c.lba, c.sectors)>> :
          <<Part(c.lba, c.sectors)>>[i] = Part(c.lba, c.sectors)
    OBVIOUS
  <2>5. Part(c.lba, c.sectors) \in Request /\ Part(c.lba, c.sectors).target = t
        /\ Part(c.lba, c.sectors).kind = c.kind
    BY <2>2 DEF Mine
  <2>6. <<Part(c.lba, c.sectors)>> \in Seq(Request)
    BY <2>5
  <2> QED BY <1>3, <2>1, <2>3, <2>4, <2>5, <2>6 DEF Part
<1>4. CASE Transfer(c)
  <2>1. per \in Nat \ {0} /\ per <= c.sectors
    BY <1>4
  <2>2. /\ whole \in Nat /\ LeftOver(c, per) % 256 \in Nat
        /\ \A i \in Nat \ {0} : increment_address(c, per, i) \in Nat
    BY <2>1, PartsTyped
  <2>3. whole > 0
    <3>1. ASSUME NEW a \in Nat, NEW b \in Nat \ {0}, b <= a PROVE a \div b > 0
      BY <3>1
    <3> QED BY <1>1, <2>1, <3>1
  <2> DEFINE wholes == [i \in 1 .. whole |-> Part(increment_address(c, per, i), per)]
             left == IF LeftOver(c, per) = 0 THEN <<>>
                     ELSE <<Part(increment_address(c, per, whole + 1), LeftOver(c, per) % 256)>>
  <2>4. Requests(t, c, per) = wholes \o left
    BY <1>4 DEF Requests
  <2>5. wholes \in Seq(Mine) /\ Len(wholes) = whole
    <3>1. \A i \in 1 .. whole : Part(increment_address(c, per, i), per) \in Mine
      BY <1>2, <2>1, <2>2
    <3> HIDE DEF Part, Mine
    <3>2. wholes \in [1 .. whole -> Mine]
      BY <3>1
    <3>3. wholes \in Seq(Mine)
      BY <2>2, <3>2, SeqDef
    <3> QED BY <2>2, <3>3, LenProperties
  <2>6. left \in Seq(Mine)
    <3>1. Part(increment_address(c, per, whole + 1), LeftOver(c, per) % 256) \in Mine
      BY <1>2, <2>2, <2>3
    <3> HIDE DEF Part, Mine
    <3> QED BY <3>1
  <2>7. PICK q : q = wholes \o left
    OBVIOUS
  <2> HIDE DEF wholes, left, Mine, whole
  <2>8. q \in Seq(Mine) /\ Len(q) = Len(wholes) + Len(left) /\ Len(left) \in Nat
    BY <2>5, <2>6, <2>7, ConcatProperties, LenProperties
  <2>9. Len(q) > 0
    BY <2>2, <2>3, <2>5, <2>8
  <2>10. \A i \in DOMAIN q : q[i] \in Mine
    BY <2>8, ElementOfSeq, LenProperties
  <2>11. q \in Seq(Request)
    <3>1. DOMAIN q = 1 .. Len(q) /\ Len(q) \in Nat /\ q \in [1 .. Len(q) -> Mine]
      BY <2>8, LenProperties
    <3>2. q \in [1 .. Len(q) -> Request]
      BY <3>1 DEF Mine
    <3> QED BY <3>1, <3>2, SeqDef
  <2>12. q # <<>>
    BY <2>9
  <2> QED BY <1>4, <2>4, <2>7, <2>10, <2>11, <2>12 DEF Mine
<1> QED BY <1>3, <1>4

-----------------------------------------------------------------------------
(* Starting commands and sending packets.                                  *)

\* What ControllerAssumption says, in the form the proofs cite.
LEMMA ConstantsTyped ==
  /\ MaxTag \in Nat \ {0, 1} /\ OfflineTicks \in Nat \ {0}
  /\ 0 \in Tags /\ 1..(MaxTag - 1) \subseteq Tags /\ Tags \subseteq Nat
  /\ SectorsPerPacket \subseteq Nat \ {0} /\ Capacities \subseteq Nat \ {0}
  /\ IsFiniteSet(Targets) /\ IsFiniteSet(Ports) /\ Ports \subseteq Nat
  /\ Cardinality(Targets) \in Nat
<1>1. MaxTag \in Nat \ {0, 1}
  BY ControllerAssumption DEF ControllerAssumption
<1>2. 0 \in Tags /\ 1..(MaxTag - 1) \subseteq Tags /\ Tags \subseteq Nat
  BY <1>1 DEF Tags
<1> QED
  BY <1>1, <1>2, ControllerAssumption, FS_CardinalityType DEF ControllerAssumption

\* A target without a controller is within the types.
LEMMA NoControllerTyped == NoController \in Controlled /\ NoCommand \in Sized
<1>1. <<>> \in Seq(Nat \cup {Unset, NotDisk})
  BY EmptySeq
<1>2. NoCommand \in Command
  BY <1>1 DEF NoCommand, Command, Kinds
<1>3. NoCommand.actual = 0 /\ NoCommand.sectors = 0
  BY DEF NoCommand
<1>4. NoCommand \in Sized
  BY <1>2, <1>3 DEF Sized
<1>5. NoController.command = NoCommand
  BY DEF NoController
<1> HIDE DEF NoCommand
<1>6. NoController \in Controller
  <2>1. NoCommand \in Command /\ 0 \in Tags
    BY <1>2, ConstantsTyped
  <2> HIDE DEF Command, Tags
  <2> QED BY <2>1 DEF NoController, Controller
<1> QED BY <1>4, <1>5, <1>6 DEF Controlled

\* asyncCommand resets the counts of its controller (AoEController.cpp:1871-1960).
LEMMA StartTyped ==
  ASSUME NEW k \in Controlled, k.perPacket \in SectorsPerPacket, NEW c \in Dispatchable
  PROVE  /\ start_command(k, c) \in Controlled
         /\ SameTarget(k, start_command(k, c))
         /\ start_command(k, c).command.kind = c.kind
         /\ start_command(k, c).command.state = "started"
         /\ start_command(k, c).command.awaited = {}
         /\ start_command(k, c).command.clean
<1>1. PICK per : per = MIN(k.perPacket, c.sectors)
  OBVIOUS
<1>2. /\ c.sectors \in Nat /\ c.lba \in Nat /\ c.kind \in Kinds /\ c.extended \in BOOLEAN
      /\ per \in Nat /\ (Transfer(c) => per > 0)
  BY <1>1, ConstantsTyped, SectorsOfPacket DEF Dispatchable, Transfer
<1> DEFINE data == IF c.kind = "write" THEN <<>> ELSE [i \in 1 .. c.sectors |-> Unset]
           command == [NoCommand EXCEPT
             !.kind = c.kind, !.extended = c.extended, !.lba = c.lba,
             !.sectors = c.sectors, !.chunk = per, !.state = "started", !.data = data]
           replies == IF Transfer(c) THEN RepliesRequired(c, per) ELSE k.replies
           previous == IF c.kind = "write" THEN "none" ELSE k.previousWrite
<1>3. data \in Seq(Sector)
  <2>1. <<>> \in Seq(Sector)
    BY EmptySeq
  <2>2. [i \in 1 .. c.sectors |-> Unset] \in [1 .. c.sectors -> Sector]
    BY DEF Sector
  <2>3. [i \in 1 .. c.sectors |-> Unset] \in Seq(Sector)
    BY <2>2, <1>2, SeqDef
  <2> QED BY <2>1, <2>3
<1> HIDE DEF data
<1>4. NoCommand \in Sized
  BY NoControllerTyped
<1>5. /\ command.kind = c.kind /\ command.state = "started" /\ command.awaited = {}
      /\ command.clean /\ command.actual = 0 /\ command.sectors = c.sectors
  BY DEF NoCommand
<1>6. command \in Command
  BY <1>2, <1>3, <1>4 DEF Command, Sized, Sector
<1>7. command \in Sized
  <2>1. command.actual <= command.sectors
    BY <1>2, <1>5
  <2> HIDE DEF command
  <2> QED BY <1>6, <2>1 DEF Sized
<1>8. replies \in Int
  BY <1>2, PartsTyped DEF Controlled, Controller
<1>9. previous \in {"none", "ok", "error"}
  BY DEF Controlled, Controller
<1>10. start_command(k, c) =
         [k EXCEPT !.baseTag = 0, !.previousWrite = previous, !.replies = replies,
                   !.command = command]
  BY <1>1 DEF start_command, data
<1> HIDE DEF command, replies, previous
<1>11. [k EXCEPT !.baseTag = 0, !.previousWrite = previous, !.replies = replies,
                 !.command = command] \in Controller
  <2>1. k \in Controller /\ command \in Command /\ 0 \in Tags
    BY <1>6, ConstantsTyped DEF Controlled
  <2> HIDE DEF Command, Tags
  <2> QED BY <2>1, <1>8, <1>9 DEF Controller
<1>12. /\ start_command(k, c).command = command
       /\ SameTarget(k, start_command(k, c))
  BY <1>10 DEF Controlled, Controller, SameTarget
<1> QED BY <1>5, <1>7, <1>10, <1>11, <1>12 DEF Controlled

\* A packet that goes out is noted, and nothing else of its target changes
\* (AoEController.cpp:1611-1720, 870-930).
LEMMA SentTyped ==
  ASSUME NEW k \in Controlled, NEW r \in Request, NEW tag \in Tags, NEW last \in BOOLEAN
  PROVE  sent(k, r, tag, last) \in Controlled /\ SameTarget(k, sent(k, r, tag, last))
<1>1. CASE r.kind = "ident"
  <2>1. sent(k, r, tag, last) = [k EXCEPT !.identTag = tag]
    BY <1>1 DEF sent
  <2>2. [k EXCEPT !.identTag = tag] \in Controller
        /\ [k EXCEPT !.identTag = tag].command = k.command
        /\ SameTarget(k, [k EXCEPT !.identTag = tag])
    BY DEF Controlled, Controller, SameTarget
  <2> QED BY <2>1, <2>2 DEF Controlled
<1>2. CASE r.kind # "ident"
  <2> DEFINE c == k.command
             actual == IF r.kind = "write" THEN c.actual + MIN(c.chunk, c.sectors - c.actual)
                       ELSE c.actual
             awaited == IF r.kind = "faked" THEN c.awaited ELSE c.awaited \cup {tag}
             state == IF ~last THEN c.state
                      ELSE IF r.kind = "identify" THEN "data" ELSE "status"
             d == [c EXCEPT !.actual = actual, !.awaited = awaited, !.state = state]
             base == IF k.baseTag = 0 THEN tag ELSE k.baseTag
  <2>1. c \in Command /\ c.actual \in Nat /\ c.sectors \in Nat /\ c.chunk \in Nat
        /\ c.actual <= c.sectors
    BY DEF Controlled, Sized, Command
  <2>2. actual \in Nat /\ actual <= c.sectors
    BY <2>1 DEF MIN
  <2>3. awaited \in SUBSET Tags
    BY <2>1 DEF Command
  <2>4. state \in {"started", "data", "status", "complete"}
    BY <2>1 DEF Command
  <2> HIDE DEF actual, awaited, state
  <2>5. d \in Command
    BY <2>1, <2>2, <2>3, <2>4 DEF Command
  <2>6. d.actual = actual /\ d.sectors = c.sectors
    BY <2>1 DEF Command
  <2>7. d \in Sized
    BY <2>2, <2>5, <2>6 DEF Sized
  <2>8. sent(k, r, tag, last) = [k EXCEPT !.baseTag = base, !.command = d]
    BY <1>2 DEF sent, actual, awaited, state, Controlled, Controller
  <2>9. base \in Tags
    BY DEF Controlled, Controller
  <2> HIDE DEF d, base
  <2>10. [k EXCEPT !.baseTag = base, !.command = d] \in Controller
    <3>1. k \in Controller /\ d \in Command
      BY <2>5 DEF Controlled
    <3> HIDE DEF Command, Tags
    <3> QED BY <3>1, <2>9 DEF Controller
  <2>11. sent(k, r, tag, last).command = d /\ SameTarget(k, sent(k, r, tag, last))
    BY <2>8 DEF Controlled, Controller, SameTarget
  <2> QED BY <2>7, <2>8, <2>10, <2>11 DEF Controlled
<1> QED BY <1>1, <1>2

\* What an answer carries is a sequence of sectors.
LEMMA PayloadTyped ==
  ASSUME NEW p \in Packet, NEW status
  PROVE  Payload(p, status) \in Seq(Sector)
<1>1. <<>> \in Seq(Sector)
  BY EmptySeq
<1>2. <<NotDisk>> \in Seq(Sector)
  BY DEF Sector
<1>3. [i \in 1 .. p.count |-> p.lba + i - 1] \in Seq(Sector)
  <2>1. p.count \in Nat /\ p.lba \in Nat
    BY DEF Packet
  <2>2. \A i \in 1 .. p.count : p.lba + i - 1 \in Sector
    BY <2>1 DEF Sector
  <2>3. [i \in 1 .. p.count |-> p.lba + i - 1] \in [1 .. p.count -> Sector]
    BY <2>2
  <2> QED BY <2>1, <2>3, SeqDef
<1> QED BY <1>1, <1>2, <1>3 DEF Payload

-----------------------------------------------------------------------------
(* Lists and sets of numbers.                                              *)

Elements(s) == {s[i] : i \in DOMAIN s}

Distinct(s) == \A i, j \in DOMAIN s : s[i] = s[j] => i = j

\* Lowest finds the first target that is down, or is connected to a port.
LEMMA LowestIsLeast ==
  ASSUME NEW S, S \subseteq Nat, S # {}
  PROVE  Lowest(S) \in S /\ \A n \in S : Lowest(S) <= n
BY Least DEF Lowest

\* A finite set of numbers has a highest one: get_nth_interface comes to an end
\* (EInterfaces.cpp:126-150).
LEMMA HighestIsGreatest ==
  ASSUME NEW S, S \subseteq Nat, S # {}, IsFiniteSet(S)
  PROVE  Highest(S) \in S /\ \A n \in S : n <= Highest(S)
<1>1. PICK f \in Bijection(1..Cardinality(S), S) : TRUE
  BY FS_CardinalityType DEF ExistsBijection
<1>0. PICK N : N = Cardinality(S)
  OBVIOUS
<1>2. /\ f \in [1..N -> S] /\ \A n \in S : \E i \in 1..N : f[i] = n
      /\ N \in Nat /\ \A i \in 1..N : f[i] \in Nat
  BY <1>0, <1>1, FS_CardinalityType DEF Bijection, Injection, Surjection
<1> DEFINE Bad == {k \in 1..N : ~ \E i \in 1..k : \A j \in 1..k : f[j] <= f[i]}
<1>3. Bad = {}
  <2> SUFFICES ASSUME Bad # {} PROVE FALSE
    OBVIOUS
  <2>1. PICK k \in Bad : \A m \in Bad : k <= m
    <3>1. Bad \subseteq Nat
      OBVIOUS
    <3> HIDE DEF Bad
    <3> QED BY <3>1, Least
  <2>2. k \in 1..N /\ ~ \E i \in 1..k : \A j \in 1..k : f[j] <= f[i]
    BY <2>1
  <2>3. k # 1
    <3>1. 1 \in 1..N /\ f[1] <= f[1]
      BY <1>2, <2>2
    <3>2. \A j \in 1..1 : j = 1
      OBVIOUS
    <3> QED BY <2>2, <3>1, <3>2
  <2>4. PICK i \in 1..(k - 1) : \A j \in 1..(k - 1) : f[j] <= f[i]
    <3>1. k - 1 \in 1..N /\ ~ (k <= k - 1)
      BY <2>2, <2>3, <1>2
    <3> QED BY <2>1, <3>1
  <2>5. \A j \in 1..N : f[j] \in Nat
    BY <1>2
  <2>6. CASE f[k] <= f[i]
    <3>1. ASSUME NEW j \in 1..k PROVE f[j] <= f[i]
      <4>1. j = k \/ j \in 1..(k - 1)
        BY <2>2
      <4> QED BY <2>4, <2>6, <4>1
    <3>2. i \in 1..k
      BY <2>2
    <3> QED BY <2>2, <3>1, <3>2
  <2>7. CASE ~ (f[k] <= f[i])
    <3>1. \A j \in 1..k : f[j] <= f[k]
      <4> SUFFICES ASSUME NEW j \in 1..k PROVE f[j] <= f[k]
        OBVIOUS
      <4>1. j = k \/ j \in 1..(k - 1)
        BY <2>2
      <4>2. f[j] \in Nat /\ f[k] \in Nat /\ f[i] \in Nat
        BY <2>2, <2>5, <1>2
      <4>3. CASE j = k
        <5>1. \A a \in Nat : a <= a
          OBVIOUS
        <5> QED BY <4>2, <4>3, <5>1, Zenon
      <4>4. CASE j \in 1..(k - 1)
        <5>1. f[j] <= f[i]
          BY <2>4, <4>4
        <5>2. ASSUME NEW a \in Nat, NEW b \in Nat, NEW d \in Nat, a <= b, ~ (d <= b)
              PROVE  a <= d
          BY <5>2
        <5> QED BY <2>7, <4>2, <5>1, <5>2
      <4> QED BY <4>1, <4>3, <4>4
    <3> QED BY <2>2, <3>1
  <2> QED BY <2>6, <2>7
<1>4. 1 \in 1..N
  <2>1. PICK n \in S : TRUE
    OBVIOUS
  <2>2. PICK i \in 1..N : f[i] = n
    BY <1>2, <2>1
  <2> QED BY <1>2, <2>2
<1>5. PICK i \in 1..N : \A j \in 1..N : f[j] <= f[i]
  <2>1. N \in 1..N
    BY <1>2, <1>4
  <2> QED BY <1>3, <2>1
<1>6. f[i] \in S /\ \A n \in S : n <= f[i]
  BY <1>2, <1>5
<1> QED BY <1>6 DEF Highest

\* A list without its element i (AoEControllerInterface.cpp:646-665).
LEMMA RemovedAt ==
  ASSUME NEW S, NEW s \in Seq(S), NEW i \in DOMAIN s,
         NEW q, q = SubSeq(s, 1, i - 1) \o SubSeq(s, i + 1, Len(s))
  PROVE  /\ q \in Seq(S) /\ Len(q) = Len(s) - 1 /\ DOMAIN q = 1 .. Len(s) - 1
         /\ \A j \in 1 .. Len(s) - 1 : q[j] = IF j < i THEN s[j] ELSE s[j + 1]
<1>1. Len(s) \in Nat /\ DOMAIN s = 1 .. Len(s) /\ i \in 1 .. Len(s)
  BY LenProperties
<1>2. PICK a : a = SubSeq(s, 1, i - 1)
  OBVIOUS
<1>3. PICK b : b = SubSeq(s, i + 1, Len(s))
  OBVIOUS
<1>4. a \in Seq(S) /\ Len(a) = i - 1 /\ \A j \in 1 .. i - 1 : a[j] = s[j]
  BY <1>1, <1>2, SubSeqProperties
<1>5. b \in Seq(S) /\ Len(b) = Len(s) - i /\ \A j \in 1 .. Len(s) - i : b[j] = s[i + j]
  BY <1>1, <1>3, SubSeqProperties
<1>0. PICK n \in Nat : n = Len(s)
  BY <1>1
<1>6. q = a \o b
  BY <1>2, <1>3, Zenon
<1>7. q \in Seq(S) /\ Len(q) = n - 1
  <2>1. q \in Seq(S) /\ Len(q) = Len(a) + Len(b)
    BY <1>4, <1>5, <1>6, ConcatProperties
  <2> QED BY <1>0, <1>1, <1>4, <1>5, <2>1
<1>10. PICK la \in Int : la = Len(a) /\ la = i - 1
  BY <1>1, <1>4
<1>11. PICK lb \in Int : lb = Len(b) /\ lb = n - i
  BY <1>0, <1>1, <1>5
<1>12. \A j \in 1 .. Len(a) + Len(b) :
         (a \o b)[j] = IF j <= Len(a) THEN a[j] ELSE b[j - Len(a)]
  BY <1>4, <1>5, ConcatProperties
<1>13. \A j \in 1 .. la + lb : q[j] = IF j <= la THEN a[j] ELSE b[j - la]
  BY <1>6, <1>10, <1>11, <1>12, Zenon
<1>8. ASSUME NEW j \in 1 .. n - 1
      PROVE  q[j] = IF j < i THEN s[j] ELSE s[j + 1]
  <2>1. j \in 1 .. la + lb
    BY <1>0, <1>1, <1>10, <1>11
  <2>2. q[j] = IF j <= la THEN a[j] ELSE b[j - la]
    BY <1>13, <2>1, Zenon
  <2>3. CASE j < i
    BY <1>0, <1>1, <1>4, <1>10, <2>2, <2>3
  <2>4. CASE ~ (j < i)
    <3>1. PICK m \in Int : m = j - la
      BY <1>10
    <3>5. i \in 1 .. n /\ n \in Nat /\ la = i - 1 /\ j \in 1 .. n - 1
      BY <1>0, <1>1, <1>10, <1>8
    <3>6. ASSUME NEW N \in Nat, NEW I \in 1 .. N, NEW J \in 1 .. N - 1, ~ (J < I)
          PROVE  /\ J - (I - 1) \in 1 .. N - I /\ I + (J - (I - 1)) = J + 1
                 /\ ~ (J <= I - 1)
      BY <3>6
    <3>2. m \in 1 .. n - i /\ i + m = j + 1 /\ ~ (j <= la)
      BY <2>4, <3>1, <3>5, <3>6, Zenon
    <3>3. q[j] = b[m]
      BY <2>2, <3>1, <3>2
    <3>4. b[m] = s[i + m]
      BY <1>0, <1>5, <3>2
    <3> QED BY <2>4, <3>2, <3>3, <3>4
  <2> QED BY <2>3, <2>4
<1>9. DOMAIN q = 1 .. n - 1
  BY <1>7, LenProperties
<1> QED BY <1>0, <1>7, <1>8, <1>9

\* A list without repetitions is no longer than there are targets: a target is
\* in the registry once.
LEMMA DistinctIsShort ==
  ASSUME NEW S, IsFiniteSet(S), NEW s \in Seq(S), Distinct(s)
  PROVE  Len(s) <= Cardinality(S)
<1>1. Len(s) \in Nat /\ s \in [1 .. Len(s) -> S] /\ DOMAIN s = 1 .. Len(s)
  BY LenProperties
<1>2. s \in Injection(1 .. Len(s), S)
  BY <1>1 DEF Injection, Distinct, IsInjective
<1>3. IsFiniteSet(1 .. Len(s)) /\ Cardinality(1 .. Len(s)) = Len(s)
  <2>1. PICK n \in Nat : n = Len(s)
    BY <1>1
  <2>2. IsFiniteSet(1 .. n) /\ Cardinality(1 .. n) = n
    <3>1. IsFiniteSet(1 .. n) /\ Cardinality(1 .. n) = IF 1 <= n THEN n - 1 + 1 ELSE 0
      BY FS_Interval
    <3> QED BY <3>1
  <2> QED BY <2>1, <2>2
<1> QED BY <1>2, <1>3, FS_Injection

\* The elements of a list without its element i, if there are no repetitions.
LEMMA RemovedElements ==
  ASSUME NEW S, NEW s \in Seq(S), Distinct(s), NEW i \in DOMAIN s,
         NEW q, q = SubSeq(s, 1, i - 1) \o SubSeq(s, i + 1, Len(s))
  PROVE  Distinct(q) /\ Elements(q) = Elements(s) \ {s[i]}
<1>1. PICK n \in Nat : n = Len(s)
  BY LenProperties
<1>2. DOMAIN s = 1 .. n /\ i \in 1 .. n
  BY <1>1, LenProperties
<1>3. DOMAIN q = 1 .. n - 1 /\ \A j \in 1 .. n - 1 : q[j] = IF j < i THEN s[j] ELSE s[j + 1]
  BY <1>1, RemovedAt
<1> DEFINE old(j) == IF j < i THEN j ELSE j + 1
<1>4. ASSUME NEW j \in 1 .. n - 1
      PROVE  old(j) \in 1 .. n /\ old(j) # i /\ q[j] = s[old(j)]
  <2>1. q[j] = IF j < i THEN s[j] ELSE s[j + 1]
    BY <1>3, Zenon
  <2>2. q[j] = s[old(j)]
    BY <2>1
  <2>3. ASSUME NEW N \in Nat, NEW J \in 1 .. N - 1, NEW I \in 1 .. N
        PROVE  (IF J < I THEN J ELSE J + 1) \in 1 .. N /\ (IF J < I THEN J ELSE J + 1) # I
    OBVIOUS
  <2>4. old(j) \in 1 .. n /\ old(j) # i
    BY <1>2, <2>3, Zenon
  <2> QED BY <2>2, <2>4
<1>5. ASSUME NEW j \in 1 .. n - 1, NEW m \in 1 .. n - 1, old(j) = old(m)
      PROVE  j = m
  BY <1>2, <1>5
<1>6. ASSUME NEW m \in 1 .. n, m # i
      PROVE  \E j \in 1 .. n - 1 : old(j) = m
  <2>1. CASE m < i
    <3>1. m \in 1 .. n - 1 /\ old(m) = m
      BY <1>2, <2>1
    <3> QED BY <3>1
  <2>2. CASE ~ (m < i)
    <3>1. m - 1 \in 1 .. n - 1 /\ old(m - 1) = m
      BY <1>2, <1>6, <2>2
    <3> QED BY <3>1
  <2> QED BY <2>1, <2>2
<1> HIDE DEF old
<1>7. Distinct(q)
  <2> SUFFICES ASSUME NEW j \in 1 .. n - 1, NEW m \in 1 .. n - 1, q[j] = q[m]
               PROVE  j = m
    BY <1>3 DEF Distinct
  <2>1. s[old(j)] = s[old(m)] /\ old(j) \in DOMAIN s /\ old(m) \in DOMAIN s
    BY <1>2, <1>4
  <2>2. old(j) = old(m)
    BY <2>1 DEF Distinct
  <2> QED BY <2>2, <1>5
<1>8. Elements(q) \subseteq Elements(s) \ {s[i]}
  <2> SUFFICES ASSUME NEW j \in 1 .. n - 1
               PROVE  q[j] \in Elements(s) \ {s[i]}
    BY <1>3 DEF Elements
  <2>1. old(j) \in DOMAIN s /\ old(j) # i /\ q[j] = s[old(j)]
    BY <1>2, <1>4
  <2> QED BY <2>1 DEF Elements, Distinct
<1>9. Elements(s) \ {s[i]} \subseteq Elements(q)
  <2> SUFFICES ASSUME NEW m \in 1 .. n, s[m] # s[i]
               PROVE  s[m] \in Elements(q)
    BY <1>2 DEF Elements
  <2>1. PICK j \in 1 .. n - 1 : old(j) = m
    BY <1>6
  <2> QED BY <2>1, <1>3, <1>4 DEF Elements
<1> QED BY <1>7, <1>8, <1>9

\* A list with one element more.
LEMMA AppendedElements ==
  ASSUME NEW S, NEW s \in Seq(S), NEW e \in S, Distinct(s), e \notin Elements(s)
  PROVE  /\ Append(s, e) \in Seq(S) /\ Distinct(Append(s, e))
         /\ Elements(Append(s, e)) = Elements(s) \cup {e}
         /\ Len(Append(s, e)) = Len(s) + 1
         /\ \A j \in DOMAIN s : Append(s, e)[j] = s[j]
         /\ Append(s, e)[Len(s) + 1] = e
<1>1. PICK n \in Nat : n = Len(s)
  BY LenProperties
<1>2. PICK q : q = Append(s, e)
  OBVIOUS
<1>3. DOMAIN s = 1 .. n
  BY <1>1, LenProperties
<1>4. /\ q \in Seq(S) /\ Len(q) = n + 1
      /\ \A j \in 1 .. n : q[j] = s[j]
      /\ q[n + 1] = e
  BY <1>1, <1>2, AppendProperties
<1>5. DOMAIN q = 1 .. n + 1
  BY <1>4, LenProperties
<1>6. \A j \in 1 .. n + 1 : j \in 1 .. n \/ j = n + 1
  OBVIOUS
<1>7. \A j \in 1 .. n : j \in 1 .. n + 1 /\ s[j] # e
  BY <1>3 DEF Elements
<1>8. n + 1 \in 1 .. n + 1
  OBVIOUS
<1>9. Distinct(q)
  <2> SUFFICES ASSUME NEW j \in 1 .. n + 1, NEW m \in 1 .. n + 1, q[j] = q[m]
               PROVE  j = m
    BY <1>5 DEF Distinct
  <2>1. CASE j \in 1 .. n /\ m \in 1 .. n
    <3>1. s[j] = s[m]
      BY <1>4, <2>1
    <3> QED BY <3>1, <2>1, <1>3 DEF Distinct
  <2>2. CASE j \in 1 .. n /\ m = n + 1
    BY <1>4, <1>7, <2>2, Zenon
  <2>3. CASE j = n + 1 /\ m \in 1 .. n
    BY <1>4, <1>7, <2>3, Zenon
  <2>4. CASE j = n + 1 /\ m = n + 1
    BY <2>4
  <2> QED BY <1>6, <2>1, <2>2, <2>3, <2>4
<1>10. Elements(q) = Elements(s) \cup {e}
  BY <1>3, <1>4, <1>5, <1>6, <1>7, <1>8, Zenon DEF Elements
<1> QED BY <1>1, <1>2, <1>3, <1>4, <1>9, <1>10

-----------------------------------------------------------------------------
(* Tags, and the numbers of targets.                                       *)

\* However many searches there are, the tags go on from where they were, one
\* after the other, and neither 0 nor MAX_TAG is given away
\* (AoEControllerInterface.cpp:188-205).
LEMMA TagsTyped ==
  ASSUME currentTag \in 1 .. MaxTag - 1, used \subseteq Ports
  PROVE  /\ SearchCount \in Nat
         /\ AfterSearches \in 1 .. MaxTag - 1
         /\ next_tag(currentTag) \in 1 .. MaxTag - 1
         /\ next_tag(currentTag) \in Tags /\ next_tag(currentTag) # 0
<1>1. SearchCount \in Nat
  <2>1. CASE used = {}
    BY <2>1 DEF SearchCount
  <2>2. CASE used # {}
    <3>1. used \subseteq Nat /\ IsFiniteSet(used)
      BY ConstantsTyped, FS_Subset
    <3>2. Highest(used) \in Nat
      BY <2>2, <3>1, HighestIsGreatest
    <3> QED BY <2>2, <3>2 DEF SearchCount
  <2> QED BY <2>1, <2>2
<1>2. MaxTag \in Nat \ {0, 1}
  BY ConstantsTyped
<1>3. AfterSearches \in 1 .. MaxTag - 1
  <2>1. PICK m \in Nat : m = MaxTag - 1 /\ m > 0
    BY <1>2
  <2>2. PICK n \in Nat : n = currentTag - 1 + SearchCount
    BY <1>1
  <2>3. 1 + (n % m) \in 1 .. m
    BY <2>1
  <2> QED BY <2>1, <2>2, <2>3 DEF AfterSearches
<1>4. next_tag(currentTag) \in 1 .. MaxTag - 1
  BY <1>2 DEF next_tag
<1> QED BY <1>1, <1>2, <1>3, <1>4, ConstantsTyped

\* There is always a number free below the number of targets and two: the
\* search of get_next_target_number ends (AoEControllerInterface.cpp:540-575).
LEMMA FreeNumber ==
  ASSUME controllers \in Seq(Targets)
  PROVE  /\ get_next_target_number \in Nat \ {0}
         /\ \A t \in Known : controller[t].number # get_next_target_number
<1> DEFINE taken == {controller[t].number : t \in Known}
<1>1. PICK n \in Nat : n = Len(controllers)
  BY LenProperties
<1>2. Known = {controllers[i] : i \in 1 .. n}
  BY <1>1, LenProperties DEF Known
<1>3. ~ (1 .. n + 1 \subseteq taken)
  <2> SUFFICES ASSUME 1 .. n + 1 \subseteq taken PROVE FALSE
    OBVIOUS
  <2> DEFINE at == [m \in 1 .. n + 1 |->
                     CHOOSE i \in 1 .. n : controller[controllers[i]].number = m]
  <2>1. \A m \in 1 .. n + 1 : \E i \in 1 .. n : controller[controllers[i]].number = m
    <3> SUFFICES ASSUME NEW m \in 1 .. n + 1
                 PROVE  \E i \in 1 .. n : controller[controllers[i]].number = m
      OBVIOUS
    <3>1. PICK t \in Known : controller[t].number = m
      OBVIOUS
    <3>2. PICK i \in 1 .. n : controllers[i] = t
      BY <1>2, <3>1
    <3> QED BY <3>1, <3>2
  <2>2. \A m \in 1 .. n + 1 : at[m] \in 1 .. n /\ controller[controllers[at[m]]].number = m
    BY <2>1
  <2>3. at \in [1 .. n + 1 -> 1 .. n]
    BY <2>2
  <2> HIDE DEF at
  <2>4. /\ IsFiniteSet(1 .. n + 1) /\ Cardinality(1 .. n + 1) = n + 1
        /\ IsFiniteSet(1 .. n) /\ Cardinality(1 .. n) = n
    <3>1. /\ IsFiniteSet(1 .. n + 1)
          /\ Cardinality(1 .. n + 1) = IF 1 > n + 1 THEN 0 ELSE n + 1 - 1 + 1
      BY FS_Interval
    <3>2. /\ IsFiniteSet(1 .. n)
          /\ Cardinality(1 .. n) = IF 1 > n THEN 0 ELSE n - 1 + 1
      <4>1. 1 \in Int /\ n \in Int
        OBVIOUS
      <4> QED BY <4>1, FS_Interval, Zenon
    <3>3. (IF 1 > n + 1 THEN 0 ELSE n + 1 - 1 + 1) = n + 1 /\ (IF 1 > n THEN 0 ELSE n - 1 + 1) = n
      OBVIOUS
    <3> QED BY <3>1, <3>2, <3>3
  <2>5. Cardinality(1 .. n) < Cardinality(1 .. n + 1)
    BY <2>4
  <2>6. \E x, y \in 1 .. n + 1 : x # y /\ at[x] = at[y]
    BY <2>3, <2>4, <2>5, FS_PigeonHole
  <2> QED BY <2>2, <2>6
<1> DEFINE free == {m \in 1 .. n + 1 : m \notin taken}
<1>4. PICK m \in free : \A j \in free : m <= j
  <2>1. free \subseteq Nat
    OBVIOUS
  <2>2. PICK m \in 1 .. n + 1 : m \notin taken
    BY <1>3
  <2>3. free # {}
    BY <2>2
  <2> HIDE DEF free
  <2> QED BY <2>1, <2>3, Least
<1>5. \A j \in 1 .. m - 1 : j \in taken
  <2> SUFFICES ASSUME NEW j \in 1 .. m - 1 PROVE j \in taken
    OBVIOUS
  <2>1. j \in 1 .. n + 1 /\ ~ (m <= j)
    OBVIOUS
  <2> QED BY <1>4, <2>1
<1>6. \E k \in 1 .. n + 1 : k \notin taken /\ \A j \in 1 .. k - 1 : j \in taken
  BY <1>4, <1>5
<1>7. get_next_target_number = CHOOSE k \in 1 .. n + 1 :
        k \notin taken /\ \A j \in 1 .. k - 1 : j \in taken
  BY <1>1 DEF get_next_target_number
<1>8. get_next_target_number \in 1 .. n + 1 /\ get_next_target_number \notin taken
  BY <1>6, <1>7
<1> QED BY <1>8

-----------------------------------------------------------------------------
(* The registry.                                                           *)

\* How long a target at its place in the registry may have been silent: of two
\* targets that are down the first is removed, and the other one moves up.
InTurn ==
  \A i \in DOMAIN controllers :
    LET silent == controller[controllers[i]].silent IN
    silent >= OfflineTicks => i + silent - OfflineTicks + 1 <= Cardinality(Targets)

\* The targets known and their controllers.
Registered ==
  /\ controllers \in Seq(Targets) /\ Distinct(controllers)
  /\ controller \in [Targets -> Controlled]
  /\ \A t \in Known : controller[t].perPacket \in SectorsPerPacket
                      /\ controller[t].number \in Nat \ {0}
  /\ \A t \in Targets \ Known : controller[t] = NoController
  /\ NumbersUnique
  /\ InTurn

\* What is on its way, for targets that are known.
Traffic ==
  /\ used \subseteq Ports /\ perPacket \in SectorsPerPacket
  /\ currentTag \in 1 .. MaxTag - 1
  /\ outstanding \subseteq Packet
  /\ sending \in Seq(Request) /\ \A i \in DOMAIN sending : sending[i].target \in Known
  /\ userSending \in Seq(Targets) /\ \A i \in DOMAIN userSending : userSending[i] \in Known
  /\ fakeTimer \in BOOLEAN /\ toFake \in Known \cup {Nobody}

Registry == Registered /\ Traffic

\* The registry stays one when its controllers change, and stay those of their
\* targets.
LEMMA RegistryKept ==
  ASSUME Registered, controllers' = controllers, controller' \in [Targets -> Controlled],
         \A t \in Known : /\ controller'[t].number = controller[t].number
                          /\ controller'[t].perPacket \in SectorsPerPacket
                          /\ controller'[t].silent \in {0, controller[t].silent},
         \A t \in Targets \ Known : controller'[t] = NoController
  PROVE  Registered' /\ Known' = Known
<1>1. Known' = Known
  BY DEF Known
<1>2. NumbersUnique'
  BY <1>1 DEF Registered, NumbersUnique
<1>3. InTurn'
  <2> SUFFICES ASSUME NEW i \in DOMAIN controllers,
                      controller'[controllers[i]].silent >= OfflineTicks
               PROVE  i + controller'[controllers[i]].silent - OfflineTicks + 1
                        <= Cardinality(Targets)
    BY DEF InTurn
  <2>1. controllers[i] \in Known
    BY DEF Known
  <2>2. 0 >= OfflineTicks => FALSE
    BY ConstantsTyped
  <2>3. controller'[controllers[i]].silent = controller[controllers[i]].silent
    BY <2>1, <2>2
  <2> QED BY <2>3 DEF Registered, InTurn
<1> QED BY <1>1, <1>2, <1>3 DEF Registered

\* remove_target takes the target that was meant out of the registry, and only
\* that one (AoEControllerInterface.cpp:630-690).
LEMMA Removed ==
  ASSUME Registered, NEW t \in Known, NEW kept \in [Targets -> Controlled],
         \A u \in Known : /\ kept[u].number = controller[u].number
                          /\ kept[u].perPacket \in SectorsPerPacket,
         \A u \in Targets \ Known : kept[u] = NoController,
         remove_target(controller[t].number, kept)
  PROVE  /\ controllers' \in Seq(Targets) /\ Distinct(controllers')
         /\ Known' = Known \ {t}
         /\ controller' \in [Targets -> Controlled]
         /\ controller' = [kept EXCEPT ![t] = NoController]
         /\ \A u \in Known' : /\ controller'[u].perPacket \in SectorsPerPacket
                              /\ controller'[u].number \in Nat \ {0}
         /\ \A u \in Targets \ Known' : controller'[u] = NoController
         /\ NumbersUnique'
         /\ toFake' = IF toFake = t THEN Nobody ELSE toFake
         /\ userSending' = <<>>
         /\ \E i \in DOMAIN controllers :
              /\ controllers[i] = t
              /\ DOMAIN controllers' = 1 .. Len(controllers) - 1
              /\ \A j \in 1 .. Len(controllers) - 1 :
                   controllers'[j] = IF j < i THEN controllers[j] ELSE controllers[j + 1]
<1> DEFINE n == controller[t].number
           Meant(i) == /\ controller[controllers[i]].number = n
                       /\ \A j \in 1 .. i - 1 : controller[controllers[j]].number # n
           first == CHOOSE i \in DOMAIN controllers : Meant(i)
<1>1. /\ controllers \in Seq(Targets) /\ Distinct(controllers)
      /\ controller \in [Targets -> Controlled]
      /\ \A u \in Known : controller[u].number \in Nat \ {0}
      /\ \A u, v \in Known : controller[u].number = controller[v].number => u = v
      /\ Known \subseteq Targets
  <2>1. Known \subseteq Targets
    BY ElementOfSeq, LenProperties DEF Known, Registered
  <2> QED BY <2>1 DEF Registered, NumbersUnique
<1>2. \A i \in DOMAIN controllers : controllers[i] \in Known
  BY DEF Known
<1>3. PICK k \in DOMAIN controllers : controllers[k] = t
  BY DEF Known
<1>4. \A i \in DOMAIN controllers : controller[controllers[i]].number = n => i = k
  BY <1>1, <1>2, <1>3 DEF Distinct
<1>5. Meant(k)
  <2>1. \A j \in 1 .. k - 1 : j \in DOMAIN controllers /\ j # k
    BY <1>1, <1>3, LenProperties
  <2> QED BY <1>3, <1>4, <2>1
<1>6. first = k
  <2>1. first \in DOMAIN controllers /\ Meant(first)
    BY <1>3, <1>5
  <2> QED BY <1>4, <2>1
<1>7. /\ controllers' = SubSeq(controllers, 1, first - 1)
                        \o SubSeq(controllers, first + 1, Len(controllers))
      /\ controller' = [kept EXCEPT ![controllers[first]] = NoController]
      /\ toFake' = IF toFake = controllers[first] THEN Nobody ELSE toFake
      /\ userSending' = <<>>
  BY DEF remove_target
<1> HIDE DEF first
<1>8. /\ controllers' = SubSeq(controllers, 1, k - 1)
                        \o SubSeq(controllers, k + 1, Len(controllers))
      /\ controller' = [kept EXCEPT ![t] = NoController]
      /\ toFake' = IF toFake = t THEN Nobody ELSE toFake
      /\ userSending' = <<>>
  BY <1>3, <1>6, <1>7
<1>9. PICK q : q = controllers'
  OBVIOUS
<1>10. q \in Seq(Targets) /\ Distinct(q) /\ Elements(q) = Elements(controllers) \ {t}
       /\ DOMAIN q = 1 .. Len(controllers) - 1
       /\ \A j \in 1 .. Len(controllers) - 1 :
            q[j] = IF j < k THEN controllers[j] ELSE controllers[j + 1]
  <2>1. q = SubSeq(controllers, 1, k - 1) \o SubSeq(controllers, k + 1, Len(controllers))
    BY <1>8, <1>9, Zenon
  <2>2. /\ q \in Seq(Targets) /\ DOMAIN q = 1 .. Len(controllers) - 1
        /\ \A j \in 1 .. Len(controllers) - 1 :
             q[j] = IF j < k THEN controllers[j] ELSE controllers[j + 1]
    <3>1. controllers \in Seq(Targets) /\ k \in DOMAIN controllers
      BY <1>1, <1>3
    <3>2. ASSUME NEW j \in 1 .. Len(controllers) - 1
          PROVE  q[j] = IF j < k THEN controllers[j] ELSE controllers[j + 1]
      BY <2>1, <3>1, RemovedAt, Zenon
    <3>3. q \in Seq(Targets)
      BY <2>1, <3>1, RemovedAt, Zenon
    <3>5. Len(q) = Len(controllers) - 1
      BY <2>1, <3>1, RemovedAt, Zenon
    <3>4. DOMAIN q = 1 .. Len(controllers) - 1
      BY <3>3, <3>5, LenProperties
    <3> QED BY <3>2, <3>3, <3>4, Zenon
  <2>3. Distinct(q) /\ Elements(q) = Elements(controllers) \ {controllers[k]}
    BY <1>1, <1>3, <2>1, RemovedElements
  <2> QED BY <1>3, <2>2, <2>3
<1>11. Known = Elements(controllers) /\ Known' = Elements(q)
  BY <1>9 DEF Known, Elements
<1>12. Known' = Known \ {t}
  BY <1>10, <1>11
<1>13. NoController \in Controlled
  BY NoControllerTyped
<1>14. controller' \in [Targets -> Controlled]
  BY <1>8, <1>13
<1>15. /\ controller'[t] = NoController
       /\ \A u \in Targets \ {t} : controller'[u] = kept[u]
  BY <1>1, <1>8
<1>16. NumbersUnique'
  BY <1>1, <1>12, <1>15 DEF NumbersUnique
<1>17. \A u \in Known' : /\ controller'[u].perPacket \in SectorsPerPacket
                         /\ controller'[u].number \in Nat \ {0}
  BY <1>1, <1>12, <1>15
<1>18. \A u \in Targets \ Known' : controller'[u] = NoController
  BY <1>12, <1>15
<1> QED BY <1>3, <1>8, <1>9, <1>10, <1>12, <1>14, <1>16, <1>17, <1>18

\* A target removed out of turn makes room for those behind it.
LEMMA RemovedStays ==
  ASSUME Registered, NEW t \in Known, remove_target(controller[t].number, controller)
  PROVE  /\ Registered' /\ Known' = Known \ {t}
         /\ controller' = [controller EXCEPT ![t] = NoController]
         /\ toFake' = IF toFake = t THEN Nobody ELSE toFake
         /\ userSending' = <<>>
<1>1. /\ controllers' \in Seq(Targets) /\ Distinct(controllers')
      /\ Known' = Known \ {t}
      /\ controller' \in [Targets -> Controlled]
      /\ controller' = [controller EXCEPT ![t] = NoController]
      /\ \A u \in Known' : /\ controller'[u].perPacket \in SectorsPerPacket
                           /\ controller'[u].number \in Nat \ {0}
      /\ \A u \in Targets \ Known' : controller'[u] = NoController
      /\ NumbersUnique'
      /\ toFake' = IF toFake = t THEN Nobody ELSE toFake
      /\ userSending' = <<>>
      /\ \E i \in DOMAIN controllers :
           /\ controllers[i] = t
           /\ DOMAIN controllers' = 1 .. Len(controllers) - 1
           /\ \A j \in 1 .. Len(controllers) - 1 :
                controllers'[j] = IF j < i THEN controllers[j] ELSE controllers[j + 1]
  BY Removed DEF Registered
<1>2. PICK i \in DOMAIN controllers :
        /\ controllers[i] = t
        /\ DOMAIN controllers' = 1 .. Len(controllers) - 1
        /\ \A j \in 1 .. Len(controllers) - 1 :
             controllers'[j] = IF j < i THEN controllers[j] ELSE controllers[j + 1]
  BY <1>1
<1>3. PICK n \in Nat : n = Len(controllers) /\ DOMAIN controllers = 1 .. n
  BY LenProperties DEF Registered
<1>4. InTurn'
  <2> SUFFICES ASSUME NEW j \in 1 .. n - 1,
                      controller'[controllers'[j]].silent >= OfflineTicks
               PROVE  j + controller'[controllers'[j]].silent - OfflineTicks + 1
                        <= Cardinality(Targets)
    BY <1>2, <1>3 DEF InTurn
  <2>1. PICK o \in 1 .. n : o \in {j, j + 1} /\ controllers'[j] = controllers[o]
    <3>1. j \in 1 .. n /\ j + 1 \in 1 .. n
      OBVIOUS
    <3> QED BY <1>2, <1>3, <3>1
  <2>2. controllers[o] \in Known' /\ controllers[o] # t
    <3>1. controllers'[j] \in Known'
      BY <1>2, <1>3 DEF Known
    <3> QED BY <1>1, <2>1, <3>1
  <2>3. controller'[controllers'[j]] = controller[controllers[o]]
    <3>1. controllers[o] \in Targets
      BY <1>3, ElementOfSeq DEF Registered
    <3> QED BY <1>1, <2>1, <2>2, <3>1 DEF Registered
  <2>4. PICK s \in Nat : s = controller[controllers[o]].silent
    <3>1. controllers[o] \in Targets
      BY <1>3, ElementOfSeq DEF Registered
    <3> QED BY <3>1 DEF Registered, Controlled, Controller
  <2>5. o + s - OfflineTicks + 1 <= Cardinality(Targets)
    BY <1>3, <2>3, <2>4 DEF Registered, InTurn
  <2>6. ASSUME NEW a \in Nat, NEW b \in Nat, NEW d \in Nat, NEW e \in Nat, NEW f \in Nat,
               a \in {b, b + 1}, a + d - e + 1 <= f
        PROVE  b + d - e + 1 <= f
    BY <2>6
  <2> QED BY <2>1, <2>3, <2>4, <2>5, <2>6, ConstantsTyped
<1> QED BY <1>1, <1>4 DEF Registered

\* LUN_UPDATE_TIME_MS more without a word (AoEControllerInterface.cpp:455-480).
LEMMA AgedTyped ==
  ASSUME Registered
  PROVE  /\ Aged \in [Targets -> Controlled]
         /\ \A t \in Known :
              /\ Aged[t].number = controller[t].number
              /\ Aged[t].perPacket = controller[t].perPacket
              /\ Aged[t].command = controller[t].command
              /\ Aged[t].silent = MIN(controller[t].silent + 1,
                                      OfflineTicks + Cardinality(Targets))
         /\ \A t \in Targets \ Known : Aged[t] = NoController
         /\ Known \subseteq Targets
<1>1. Known \subseteq Targets
  BY ElementOfSeq, LenProperties DEF Known, Registered
<1>2. ASSUME NEW t \in Targets
      PROVE  /\ Aged[t] \in Controlled
             /\ t \in Known =>
                  /\ Aged[t].number = controller[t].number
                  /\ Aged[t].perPacket = controller[t].perPacket
                  /\ Aged[t].command = controller[t].command
                  /\ Aged[t].silent = MIN(controller[t].silent + 1,
                                          OfflineTicks + Cardinality(Targets))
             /\ t \notin Known => Aged[t] = controller[t]
  <2>1. PICK k \in Controlled : k = controller[t]
    BY DEF Registered
  <2>2. CASE t \notin Known
    BY <2>1, <2>2 DEF Aged
  <2>3. CASE t \in Known
    <3>1. PICK s : s = MIN(k.silent + 1, OfflineTicks + Cardinality(Targets))
      OBVIOUS
    <3>2. s \in Nat
      BY <2>1, <3>1, ConstantsTyped DEF MIN, Controlled, Controller
    <3>3. Aged[t] = [k EXCEPT !.silent = s]
      BY <2>1, <2>3, <3>1 DEF Aged
    <3>4. /\ [k EXCEPT !.silent = s] \in Controlled
          /\ [k EXCEPT !.silent = s].silent = s
          /\ [k EXCEPT !.silent = s].number = k.number
          /\ [k EXCEPT !.silent = s].perPacket = k.perPacket
          /\ [k EXCEPT !.silent = s].command = k.command
      BY <3>2 DEF Controlled, Controller
    <3> QED BY <2>1, <2>3, <3>1, <3>3, <3>4
  <2> QED BY <2>2, <2>3
<1>3. Aged = [t \in Targets |-> Aged[t]]
  BY DEF Aged
<1>4. Aged \in [Targets -> Controlled]
  <2>1. \A t \in Targets : Aged[t] \in Controlled
    BY <1>2
  <2> HIDE DEF Aged
  <2> QED BY <1>3, <2>1
<1> QED BY <1>1, <1>2, <1>4 DEF Registered

\* However many targets are down, the one removed is the first of them, and
\* those behind it move up while they age (AoEControllerInterface.cpp:499-535).
LEMMA DownTargetsChecked ==
  ASSUME Registered, check_down_targets
  PROVE  /\ Registered' /\ Known' \subseteq Known
         /\ \/ UNCHANGED <<controllers, userSending, toFake>> /\ controller' = Aged
            \/ \E t \in Known :
                 /\ controller' = [Aged EXCEPT ![t] = NoController]
                 /\ Known' = Known \ {t}
                 /\ toFake' = IF toFake = t THEN Nobody ELSE toFake
                 /\ userSending' = <<>>
<1> DEFINE down == {i \in DOMAIN controllers : Down(Aged[controllers[i]])}
           card == Cardinality(Targets)
<1>1. PICK n \in Nat : n = Len(controllers) /\ DOMAIN controllers = 1 .. n
  BY LenProperties DEF Registered
<1>2. n <= card
  BY <1>1, ConstantsTyped, DistinctIsShort DEF Registered
<1>3. \A i \in 1 .. n : controllers[i] \in Known /\ controllers[i] \in Targets
  BY <1>1, AgedTyped DEF Known
<1>4. /\ Aged \in [Targets -> Controlled]
      /\ \A t \in Known :
           /\ Aged[t].number = controller[t].number
           /\ Aged[t].perPacket \in SectorsPerPacket
      /\ \A t \in Targets \ Known : Aged[t] = NoController
  BY AgedTyped DEF Registered
<1>5. ASSUME NEW i \in 1 .. n
      PROVE  /\ controller[controllers[i]].silent \in Nat
             /\ Aged[controllers[i]].silent = MIN(controller[controllers[i]].silent + 1,
                                                  OfflineTicks + card)
             /\ controller[controllers[i]].silent >= OfflineTicks =>
                  i + controller[controllers[i]].silent - OfflineTicks + 1 <= card
  <2>1. controller[controllers[i]] \in Controlled
    BY <1>3 DEF Registered
  <2>2. controller[controllers[i]].silent \in Nat
    BY <2>1 DEF Controlled, Controller
  <2>3. controller[controllers[i]].silent >= OfflineTicks =>
          i + controller[controllers[i]].silent - OfflineTicks + 1 <= card
    BY <1>1 DEF Registered, InTurn
  <2> QED BY <1>3, <2>2, <2>3, AgedTyped
\* Arithmetic: at place i, silent for s state updates and one more.
<1>6. ASSUME NEW i \in 1 .. n, NEW s \in Nat, NEW o \in Nat \ {0},
             s >= o => i + s - o + 1 <= card, MIN(s + 1, o + card) >= o
      PROVE  (i - 1) + MIN(s + 1, o + card) - o + 1 <= card
  BY <1>1, <1>2, <1>6, ConstantsTyped DEF MIN
<1>7. CASE down = {}
  <2>1. controller' = Aged /\ UNCHANGED <<controllers, userSending, toFake>>
    BY <1>7 DEF check_down_targets
  <2>2. Known' = Known
    BY <2>1 DEF Known
  <2>3. InTurn'
    <3>1. \A i \in 1 .. n : ~ (controller'[controllers[i]].silent >= OfflineTicks)
      BY <1>1, <1>7, <2>1 DEF Down
    <3> QED BY <1>1, <2>1, <3>1 DEF InTurn
  <2>4. NumbersUnique'
    BY <1>4, <2>1, <2>2 DEF Registered, NumbersUnique
  <2>5. Registered'
    BY <1>4, <2>1, <2>2, <2>3, <2>4 DEF Registered
  <2> QED BY <2>1, <2>2, <2>5
<1>8. CASE down # {}
  <2>1. PICK k \in down : k = Lowest(down) /\ \A j \in down : k <= j
    <3>1. down \subseteq Nat
      BY <1>1
    <3> HIDE DEF down
    <3> QED BY <1>8, <3>1, LowestIsLeast
  <2>2. PICK t \in Known : t = controllers[k]
    BY <1>1, <1>3
  <2>3. remove_target(controller[t].number, Aged)
    BY <1>8, <2>1, <2>2 DEF check_down_targets
  <2>4. /\ controllers' \in Seq(Targets) /\ Distinct(controllers')
        /\ Known' = Known \ {t}
        /\ controller' \in [Targets -> Controlled]
        /\ controller' = [Aged EXCEPT ![t] = NoController]
        /\ \A u \in Known' : /\ controller'[u].perPacket \in SectorsPerPacket
                             /\ controller'[u].number \in Nat \ {0}
        /\ \A u \in Targets \ Known' : controller'[u] = NoController
        /\ NumbersUnique'
        /\ toFake' = IF toFake = t THEN Nobody ELSE toFake
        /\ userSending' = <<>>
        /\ \E i \in DOMAIN controllers :
             /\ controllers[i] = t
             /\ DOMAIN controllers' = 1 .. Len(controllers) - 1
             /\ \A j \in 1 .. Len(controllers) - 1 :
                  controllers'[j] = IF j < i THEN controllers[j] ELSE controllers[j + 1]
    BY <1>4, <2>3, Removed
  <2>5. /\ DOMAIN controllers' = 1 .. n - 1
        /\ \A j \in 1 .. n - 1 :
             controllers'[j] = IF j < k THEN controllers[j] ELSE controllers[j + 1]
    <3>1. PICK i \in 1 .. n :
             /\ controllers[i] = t
             /\ DOMAIN controllers' = 1 .. n - 1
             /\ \A j \in 1 .. n - 1 :
                  controllers'[j] = IF j < i THEN controllers[j] ELSE controllers[j + 1]
      BY <1>1, <2>4
    <3>2. i = k
      BY <1>1, <2>2, <3>1 DEF Registered, Distinct
    <3> QED BY <3>1, <3>2
  <2>6. ASSUME NEW j \in 1 .. n - 1,
               controller'[controllers'[j]].silent >= OfflineTicks
        PROVE  j + controller'[controllers'[j]].silent - OfflineTicks + 1 <= card
    <3>1. controllers'[j] \in Known' /\ controllers'[j] # t /\ controllers'[j] \in Targets
      <4>1. controllers'[j] \in Known'
        BY <2>5 DEF Known
      <4> QED BY <2>4, <4>1, AgedTyped
    <3>2. controller'[controllers'[j]] = Aged[controllers'[j]]
      BY <1>4, <2>4, <3>1
    <3>3. CASE j < k
      <4>1. j \in 1 .. n /\ controllers'[j] = controllers[j]
        BY <2>5, <3>3
      <4>2. j \in down
        BY <1>1, <2>6, <3>2, <4>1 DEF Down
      <4>3. k \in 1 .. n /\ k <= j
        BY <1>1, <2>1, <4>2
      <4> QED BY <3>3, <4>3
    <3>4. CASE ~ (j < k)
      <4>1. PICK i \in 1 .. n : i = j + 1 /\ controllers'[j] = controllers[i]
        <5>1. j + 1 \in 1 .. n
          BY <1>1
        <5> QED BY <2>5, <3>4, <5>1
      <4>2. PICK s \in Nat : s = controller[controllers[i]].silent
        BY <1>5
      <4>3. controller'[controllers'[j]].silent = MIN(s + 1, OfflineTicks + card)
        BY <1>5, <3>2, <4>1, <4>2
      <4>4. s >= OfflineTicks => i + s - OfflineTicks + 1 <= card
        BY <1>5, <4>2
      <4>5. OfflineTicks \in Nat \ {0}
        BY ConstantsTyped
      <4>6. (i - 1) + MIN(s + 1, OfflineTicks + card) - OfflineTicks + 1 <= card
        BY <1>6, <2>6, <4>3, <4>4, <4>5
      <4>7. i - 1 = j
        BY <4>1
      <4> QED BY <4>3, <4>6, <4>7
    <3> QED BY <3>3, <3>4
  <2>7. InTurn'
    BY <2>5, <2>6 DEF InTurn
  <2> QED BY <2>4, <2>7 DEF Registered
<1> QED BY <1>7, <1>8

-----------------------------------------------------------------------------
(* Every step keeps the registry.                                          *)

\* A queue of packets to be sent, without its first.
LEMMA TailOf ==
  ASSUME NEW S, NEW s \in Seq(S), s # <<>>
  PROVE  /\ Head(s) \in S /\ Head(s) = s[1] /\ 1 \in DOMAIN s /\ Tail(s) \in Seq(S)
         /\ \A i \in DOMAIN Tail(s) : i + 1 \in DOMAIN s /\ Tail(s)[i] = s[i + 1]
<1>1. PICK n \in Nat : n = Len(s) /\ DOMAIN s = 1 .. n /\ n # 0
  BY LenProperties, EmptySeq
<1>2. /\ Head(s) \in S /\ Head(s) = s[1] /\ Tail(s) \in Seq(S) /\ Len(Tail(s)) = n - 1
      /\ \A i \in 1 .. n - 1 : Tail(s)[i] = s[i + 1]
  BY <1>1, HeadTailProperties, ElementOfSeq
<1>3. DOMAIN Tail(s) = 1 .. n - 1
  BY <1>2, LenProperties
<1>4. 1 \in 1 .. n /\ \A i \in 1 .. n - 1 : i + 1 \in 1 .. n
  BY <1>1
<1> QED BY <1>1, <1>2, <1>3, <1>4

\* The packets of a search identify each target once (AoEControllerInterface.cpp:440-500).
LEMMA IdentsTyped ==
  ASSUME NEW ts \in Seq(Targets)
  PROVE  /\ Idents(ts) \in Seq(Request) /\ DOMAIN Idents(ts) = DOMAIN ts
         /\ \A i \in DOMAIN ts : /\ Idents(ts)[i].target = ts[i]
                                 /\ Idents(ts)[i].kind = "ident"
                                 /\ Idents(ts)[i] \in Request
<1>1. PICK n \in Nat : n = Len(ts) /\ DOMAIN ts = 1 .. n
  BY LenProperties
<1>2. \A i \in 1 .. n : ts[i] \in Targets
  BY <1>1, ElementOfSeq
<1>3. Idents(ts) \in [1 .. n -> Request]
  BY <1>1, <1>2 DEF Idents, Request
<1>4. Idents(ts) \in Seq(Request)
  BY <1>1, <1>3, SeqDef
<1> QED BY <1>1, <1>3, <1>4 DEF Idents

\* What an answer does to the registry: one of IDENTIFY with another capacity
\* removes the target (AoEController.cpp:566-590).
LEMMA RespondKeeps ==
  ASSUME Registered, NEW t \in Targets, NEW tag \in Tags, NEW payload \in Seq(Sector),
         NEW status \in {"ok", "error"}, NEW capacity \in Nat,
         Respond(t, tag, payload, status, capacity)
  PROVE  /\ Registered'
         /\ \/ UNCHANGED <<controllers, userSending, toFake>> /\ Known' = Known
               /\ (t \notin Known => controller' = controller)
               /\ (t \in Known => controller' = [controller EXCEPT ![t] =
                     ata_response(controller[t], tag, payload, status, capacity)])
            \/ /\ t \in Known /\ Known' = Known \ {t}
               /\ controller' = [controller EXCEPT ![t] = NoController]
               /\ toFake' = IF toFake = t THEN Nobody ELSE toFake
               /\ userSending' = <<>>
<1>1. CASE t \notin Known
  <2>1. UNCHANGED <<controllers, controller, userSending, toFake>>
    BY <1>1 DEF Respond
  <2>2. Registered' /\ Known' = Known
    BY <2>1 DEF Registered, Known, NumbersUnique, InTurn
  <2> QED BY <1>1, <2>1, <2>2
<1>2. CASE t \in Known
  <2>1. PICK k \in Controlled : k = controller[t]
    BY DEF Registered
  <2>2. CASE Identifies(k, tag) /\ k.capacity \notin {0, capacity}
    <3>1. remove_target(controller[t].number, controller)
      BY <1>2, <2>1, <2>2 DEF Respond
    <3> QED BY <1>2, <3>1, RemovedStays
  <2>3. CASE ~ (Identifies(k, tag) /\ k.capacity \notin {0, capacity})
    <3>1. PICK a : a = ata_response(k, tag, payload, status, capacity)
      OBVIOUS
    <3>2. controller' = [controller EXCEPT ![t] = a]
          /\ UNCHANGED <<controllers, userSending, toFake>>
      BY <1>2, <2>1, <2>3, <3>1 DEF Respond
    <3>3. a \in Controlled /\ SameTarget(k, a)
      BY <3>1, ResponseTyped
    <3>4. controller' \in [Targets -> Controlled]
      BY <3>2, <3>3 DEF Registered
    <3>5. /\ controller'[t] = a
          /\ \A u \in Targets \ {t} : controller'[u] = controller[u]
      BY <3>2 DEF Registered
    <3>6. Known \subseteq Targets
      BY AgedTyped
    <3>7. \A u \in Known : /\ controller'[u].number = controller[u].number
                           /\ controller'[u].perPacket \in SectorsPerPacket
                           /\ controller'[u].silent \in {0, controller[u].silent}
      BY <2>1, <3>3, <3>5, <3>6 DEF SameTarget, Registered
    <3>8. \A u \in Targets \ Known : controller'[u] = NoController
      BY <1>2, <3>5 DEF Registered
    <3>9. Registered' /\ Known' = Known
      BY <3>2, <3>4, <3>7, <3>8, RegistryKept
    <3> QED BY <1>2, <2>1, <3>1, <3>2, <3>9
  <2> QED BY <2>2, <2>3
<1> QED BY <1>1, <1>2

\* The registry when the controller of one target is updated.
LEMMA OneUpdated ==
  ASSUME Registered, NEW t \in Known, NEW k \in Controlled,
         k.number = controller[t].number, k.perPacket \in SectorsPerPacket,
         k.silent \in {0, controller[t].silent},
         controllers' = controllers, controller' = [controller EXCEPT ![t] = k]
  PROVE  Registered' /\ Known' = Known
<1>1. Known \subseteq Targets
  BY AgedTyped
<1>2. /\ controller' \in [Targets -> Controlled]
      /\ controller'[t] = k
      /\ \A u \in Targets \ {t} : controller'[u] = controller[u]
  BY <1>1 DEF Registered
<1>3. \A u \in Known : /\ controller'[u].number = controller[u].number
                       /\ controller'[u].perPacket \in SectorsPerPacket
                       /\ controller'[u].silent \in {0, controller[u].silent}
  BY <1>1, <1>2 DEF Registered
<1>4. \A u \in Targets \ Known : controller'[u] = NoController
  BY <1>2 DEF Registered
<1> QED BY <1>2, <1>3, <1>4, RegistryKept

\* A target that answers a search for the first time, or one that is known
\* (aoe_config_receive, AoEControllerInterface.cpp:577-760).
LEMMA AppearKeeps ==
  ASSUME Registry, NEW t \in Targets, NEW p \in Ports, NEW ours \in BOOLEAN,
         Appear(t, p, ours)
  PROVE  Registry'
<1> DEFINE k == [NoController EXCEPT
                  !.ports = {p}, !.perPacket = perPacket, !.number = get_next_target_number,
                  !.registered = ours]
<1>1. /\ controllers \in Seq(Targets) /\ Distinct(controllers) /\ t \notin Known
      /\ perPacket \in SectorsPerPacket /\ SectorsPerPacket \subseteq Nat \ {0}
  BY ConstantsTyped DEF Registry, Registered, Traffic, Appear
<1>2. PICK number \in Nat \ {0} :
        /\ number = get_next_target_number
        /\ \A u \in Known : controller[u].number # number
  BY <1>1, FreeNumber
<1>3. k \in Controlled /\ k.perPacket = perPacket /\ k.number = number /\ k.silent = 0
  <2>1. NoController \in Controlled /\ NoController.silent = 0
    BY NoControllerTyped DEF NoController
  <2>2. k = [NoController EXCEPT !.ports = {p}, !.perPacket = perPacket, !.number = number,
                                 !.registered = ours]
    BY <1>2
  <2> QED BY <1>1, <2>1, <2>2 DEF Controlled, Controller
<1> HIDE DEF k
<1>4. /\ controller' = [controller EXCEPT ![t] = start_command(k, Identify)]
      /\ sending' = Requests(t, Identify, MIN(k.perPacket, Identify.sectors))
      /\ controllers' = Append(controllers, t)
      /\ userSending' = <<>>
      /\ UNCHANGED <<used, perPacket, currentTag, outstanding, fakeTimer, toFake>>
  BY DEF Appear, StartCommand, k
<1>5. PICK a : a = start_command(k, Identify)
  OBVIOUS
<1>6. a \in Controlled /\ a.perPacket = perPacket /\ a.number = number /\ a.silent = 0
  BY <1>1, <1>3, <1>5, StartTyped, CommandsDispatchable DEF SameTarget
<1>7. PICK q : q = Append(controllers, t)
  OBVIOUS
<1>8. /\ q \in Seq(Targets) /\ Distinct(q) /\ Elements(q) = Elements(controllers) \cup {t}
      /\ Len(q) = Len(controllers) + 1
      /\ \A j \in DOMAIN controllers : q[j] = controllers[j]
      /\ q[Len(controllers) + 1] = t
  BY <1>1, <1>7, AppendedElements DEF Known, Elements
<1>9. Known' = Known \cup {t}
  BY <1>4, <1>7, <1>8 DEF Known, Elements
<1>10. Known \subseteq Targets
  BY AgedTyped DEF Registry
<1>11. /\ controller' \in [Targets -> Controlled]
       /\ controller'[t] = a
       /\ \A u \in Targets \ {t} : controller'[u] = controller[u]
  BY <1>4, <1>5, <1>6 DEF Registry, Registered
<1>12. \A u \in Known' : /\ controller'[u].perPacket \in SectorsPerPacket
                         /\ controller'[u].number \in Nat \ {0}
  BY <1>1, <1>6, <1>9, <1>10, <1>11 DEF Registry, Registered
<1>13. \A u \in Targets \ Known' : controller'[u] = NoController
  BY <1>9, <1>11 DEF Registry, Registered
<1>14. NumbersUnique'
  <2> SUFFICES ASSUME NEW u \in Known', NEW v \in Known',
                      controller'[u].number = controller'[v].number
               PROVE  u = v
    BY DEF NumbersUnique
  <2>1. CASE u \in Known /\ v \in Known
    <3>1. controller[u].number = controller[v].number
      BY <1>1, <1>10, <1>11, <2>1
    <3> QED BY <2>1, <3>1 DEF Registry, Registered, NumbersUnique
  <2>2. CASE u = t /\ v \in Known
    BY <1>1, <1>2, <1>6, <1>10, <1>11, <2>2
  <2>3. CASE u \in Known /\ v = t
    BY <1>1, <1>2, <1>6, <1>10, <1>11, <2>3
  <2>4. CASE u = t /\ v = t
    BY <2>4
  <2> QED BY <1>9, <2>1, <2>2, <2>3, <2>4
<1>15. InTurn'
  <2>1. PICK n \in Nat : n = Len(controllers) /\ DOMAIN controllers = 1 .. n
    BY <1>1, LenProperties
  <2>2. controllers' = q /\ DOMAIN q = 1 .. n + 1
    BY <1>4, <1>7, <1>8, <2>1, LenProperties
  <2> SUFFICES ASSUME NEW j \in 1 .. n + 1, controller'[q[j]].silent >= OfflineTicks
               PROVE  j + controller'[q[j]].silent - OfflineTicks + 1 <= Cardinality(Targets)
    BY <2>2 DEF InTurn
  <2>3. CASE j = n + 1
    <3>1. controller'[q[j]].silent = 0
      BY <1>6, <1>8, <1>11, <2>1, <2>3
    <3>2. ~ (0 >= OfflineTicks)
      BY ConstantsTyped
    <3> QED BY <3>1, <3>2
  <2>4. CASE j \in 1 .. n
    <3>1. q[j] = controllers[j] /\ controllers[j] \in Known
      BY <1>8, <2>1, <2>4 DEF Known
    <3>2. controller'[q[j]] = controller[controllers[j]]
      BY <1>1, <1>10, <1>11, <3>1
    <3> QED BY <2>1, <2>4, <3>2 DEF Registry, Registered, InTurn
  <2> QED BY <2>3, <2>4
<1>16. Registered'
  BY <1>4, <1>7, <1>8, <1>11, <1>12, <1>13, <1>14, <1>15 DEF Registered
<1>17. sending' \in Seq(Request) /\ \A i \in DOMAIN sending' : sending'[i].target = t
  <2>0. PICK c \in Dispatchable : c = Identify
    BY CommandsDispatchable
  <2>2. PICK m \in Nat \ {0} : m = k.perPacket
    BY <1>1, <1>3
  <2>1. PICK per : per = MIN(m, c.sectors)
    OBVIOUS
  <2>3. PICK requests : requests = Requests(t, c, per)
    OBVIOUS
  <2>5. Transfer(c) => per \in Nat \ {0} /\ per <= c.sectors
    BY <2>1, SectorsOfTransfer
  <2>4. requests \in Seq(Request) /\ \A i \in DOMAIN requests : requests[i].target = t
    BY <2>3, <2>5, RequestsTyped
  <2> QED BY <1>4, <2>0, <2>1, <2>2, <2>3, <2>4
<1>18. Traffic'
  <2>1. userSending' \in Seq(Targets) /\ DOMAIN userSending' = {}
    BY <1>4, EmptySeq
  <2> QED BY <1>4, <1>9, <1>17, <2>1 DEF Traffic, Registry
<1> QED BY <1>16, <1>18 DEF Registry

\* An answer to a search from a known target keeps the registry (aoe_config_receive).
LEMMA HeardKeeps ==
  ASSUME Registry, NEW t \in Targets, NEW p \in Ports, NEW ours \in BOOLEAN,
         Heard(t, p, ours)
  PROVE  Registry'
<1>1. /\ sending = <<>> /\ t \in Known
      /\ UNCHANGED <<used, perPacket, currentTag, outstanding, sending, fakeTimer>>
  BY DEF Heard, WorkLoopFree
<1>2. CASE controller[t].registered /\ ~ours
  <2>1. remove_target(controller[t].number, controller)
    BY <1>2 DEF Heard
  <2>2. /\ Registered' /\ Known' = Known \ {t}
        /\ toFake' = IF toFake = t THEN Nobody ELSE toFake
        /\ userSending' = <<>>
    BY <1>1, <2>1, RemovedStays DEF Registry
  <2>3. userSending' \in Seq(Targets) /\ DOMAIN userSending' = {} /\ DOMAIN sending' = {}
    BY <1>1, <2>2, EmptySeq
  <2> QED BY <1>1, <2>2, <2>3 DEF Registry, Traffic
<1>3. CASE ~ (controller[t].registered /\ ~ours)
  <2>1. PICK k \in Controlled : k = controller[t]
    BY DEF Registry, Registered
  <2>2. PICK a : a = [k EXCEPT !.ports = @ \cup {p}, !.silent = 0]
    OBVIOUS
  <2>3. /\ controller' = [controller EXCEPT ![t] = a]
        /\ UNCHANGED <<controllers, toFake, userSending>>
    BY <1>3, <2>1, <2>2 DEF Heard, Registry, Registered, Controlled, Controller
  <2>4. a \in Controlled /\ a.number = k.number /\ a.perPacket = k.perPacket /\ a.silent = 0
    BY <2>1, <2>2 DEF Controlled, Controller
  <2>5. Registered' /\ Known' = Known
    BY <1>1, <2>1, <2>3, <2>4, OneUpdated DEF Registry, Registered
  <2> QED BY <1>1, <2>3, <2>5 DEF Registry, Traffic
<1> QED BY <1>2, <1>3

\* A command of the ATA driver (AoEController.cpp:1871-2057).
LEMMA DispatchKeeps ==
  ASSUME Registry, NEW t \in Targets, NEW c \in Commands, Dispatch(t, c)
  PROVE  Registry'
<1>1. PICK k \in Controlled : k = controller[t] /\ k.perPacket \in SectorsPerPacket
  BY DEF Dispatch, Registry, Registered
<1>2. PICK m \in Nat \ {0} : m = k.perPacket
  BY <1>1, ConstantsTyped
<1>3. PICK per : per = MIN(m, c.sectors)
  OBVIOUS
<1>4. c \in Dispatchable /\ t \in Known
  BY CommandsDispatchable DEF Dispatch
<1>5. /\ controller' = [controller EXCEPT ![t] = start_command(k, c)]
      /\ sending' = Requests(t, c, per)
      /\ UNCHANGED <<controllers, used, perPacket, currentTag, outstanding,
                     userSending, fakeTimer, toFake>>
  BY <1>1, <1>2, <1>3 DEF Dispatch, StartCommand
<1>6. PICK a : a = start_command(k, c)
  OBVIOUS
<1>7. a \in Controlled /\ SameTarget(k, a)
  BY <1>1, <1>4, <1>6, StartTyped
<1>8. Registered' /\ Known' = Known
  BY <1>1, <1>4, <1>5, <1>6, <1>7, OneUpdated DEF Registry, SameTarget
<1>9. sending' \in Seq(Request) /\ \A i \in DOMAIN sending' : sending'[i].target = t
  <2>1. c \in Dispatchable
    BY <1>4
  <2>2. PICK q : q = Requests(t, c, per)
    OBVIOUS
  <2>4. Transfer(c) => per \in Nat \ {0} /\ per <= c.sectors
    BY <1>3, <2>1, SectorsOfTransfer
  <2>3. q \in Seq(Request) /\ \A i \in DOMAIN q : q[i].target = t
    BY <2>1, <2>2, <2>4, RequestsTyped
  <2> QED BY <1>5, <2>2, <2>3
<1> QED BY <1>4, <1>5, <1>8, <1>9 DEF Registry, Traffic

\* What a packet the transport is given looks like.
LEMMA TransmitTyped ==
  ASSUME Registry, NEW r \in Request, NEW tag \in Tags, r.kind # "faked",
         r.target \in Known, Transmit(r, tag)
  PROVE  outstanding' \subseteq Packet
<1>1. PICK p \in Active(r.target) : outstanding' = {q \in outstanding : q.tag # tag} \cup
        {[target |-> r.target, kind |-> r.kind, lba |-> r.lba, count |-> r.count,
          from |-> IF r.kind = "write" THEN append_write_data(controller[r.target]) ELSE 0,
          tag |-> tag, on |-> p]}
  BY DEF Transmit
<1>2. p \in Ports
  BY DEF Active, Registry, Traffic
<1>3. PICK from \in Nat :
        from = IF r.kind = "write" THEN append_write_data(controller[r.target]) ELSE 0
  <2>1. controller[r.target].command \in Sized
    BY DEF Request, Registry, Registered, Controlled
  <2>2. controller[r.target].command.actual \in Nat
    BY <2>1 DEF Sized, Command
  <2> QED BY <2>2 DEF append_write_data
<1>4. r.kind \in {"ident", "identify", "read", "write"} /\ r.target \in Targets
      /\ r.lba \in Nat /\ r.count \in Nat
  BY DEF Request, Kinds
<1>5. [target |-> r.target, kind |-> r.kind, lba |-> r.lba, count |-> r.count,
       from |-> from, tag |-> tag, on |-> p] \in Packet
  BY <1>2, <1>4 DEF Packet
<1> QED BY <1>1, <1>3, <1>5 DEF Registry, Traffic

\* A packet is sent (issueCommand, send_identify, and a timer armed for what
\* AoE has no command for).
LEMMA SendNextKeeps ==
  ASSUME Registry, SendNext
  PROVE  Registry'
<1>1. PICK r \in Request : r = Head(sending) /\ r.target \in Known
  BY TailOf DEF SendNext, Registry, Traffic
<1>2. PICK tag \in 1 .. MaxTag - 1 : tag = next_tag(currentTag)
  BY TagsTyped DEF Registry, Traffic
<1>3. PICK last \in BOOLEAN : last = (Tail(sending) = <<>>)
  OBVIOUS
<1>4. PICK k \in Controlled : k = controller[r.target]
  BY DEF Registry, Registered, Request
<1>5. /\ sending # <<>> /\ currentTag' = tag /\ sending' = Tail(sending)
      /\ controller' = [controller EXCEPT ![r.target] = sent(k, r, tag, last)]
      /\ UNCHANGED <<controllers, used, perPacket, userSending>>
      /\ \/ /\ r.kind = "faked" /\ fakeTimer' = TRUE /\ toFake' = r.target
            /\ UNCHANGED outstanding
         \/ /\ r.kind # "faked" /\ Transmit(r, tag) /\ UNCHANGED <<fakeTimer, toFake>>
  BY <1>1, <1>2, <1>3, <1>4 DEF SendNext
<1>6. PICK a : a = sent(k, r, tag, last)
  OBVIOUS
<1>7. tag \in Tags
  BY ConstantsTyped
<1>8. a \in Controlled /\ SameTarget(k, a)
  BY <1>6, <1>7, SentTyped
<1>9. Registered' /\ Known' = Known
  <2>1. k.perPacket \in SectorsPerPacket
    BY <1>1, <1>4 DEF Registry, Registered
  <2> QED BY <1>1, <1>4, <1>5, <1>6, <1>8, <2>1, OneUpdated DEF Registry, SameTarget
<1>10. sending' \in Seq(Request) /\ \A i \in DOMAIN sending' : sending'[i].target \in Known
  BY <1>5, TailOf DEF Registry, Traffic
<1>11. outstanding' \subseteq Packet
  BY <1>1, <1>5, <1>7, TransmitTyped DEF Registry, Traffic
<1> QED BY <1>1, <1>5, <1>9, <1>10, <1>11 DEF Registry, Traffic

\* An answer (aoe_ata_receive), and one that is made up (FakeReturnTimer).
LEMMA AnswerKeeps ==
  ASSUME Registry, NEW p \in outstanding, NEW status \in {"ok", "error"},
         NEW capacity \in Capacities, Answer(p, status, capacity)
  PROVE  Registry'
<1>1. /\ sending = <<>> /\ outstanding' = outstanding \ {p}
      /\ Respond(p.target, p.tag, Payload(p, status), status, capacity)
      /\ UNCHANGED <<used, perPacket, currentTag, sending, fakeTimer>>
  BY DEF Answer, WorkLoopFree
<1>2. p \in Packet /\ p.target \in Targets /\ p.tag \in Tags
  BY DEF Registry, Traffic, Packet
<1>3. Payload(p, status) \in Seq(Sector) /\ capacity \in Nat
  BY <1>2, PayloadTyped, ConstantsTyped
<1>4. PICK t \in Targets : t = p.target
  BY <1>2
<1>5. /\ Registered'
      /\ \/ UNCHANGED <<controllers, userSending, toFake>> /\ Known' = Known
         \/ /\ t \in Known /\ Known' = Known \ {t}
            /\ toFake' = IF toFake = t THEN Nobody ELSE toFake
            /\ userSending' = <<>>
  BY <1>1, <1>2, <1>3, <1>4, RespondKeeps DEF Registry
<1>6. DOMAIN sending = {} /\ DOMAIN <<>> = {} /\ <<>> \in Seq(Targets)
  BY <1>1, EmptySeq
<1> QED BY <1>1, <1>5, <1>6 DEF Registry, Traffic

\* The answer FakeReturnTimer makes up keeps the registry.
LEMMA FakeReturnKeeps ==
  ASSUME Registry, FakeReturnTimer
  PROVE  Registry'
<1>1. /\ sending = <<>> /\ fakeTimer' = FALSE
      /\ UNCHANGED <<used, perPacket, currentTag, outstanding, sending>>
  BY DEF FakeReturnTimer, WorkLoopFree
<1>2. CASE toFake = Nobody
  <2>1. UNCHANGED <<controllers, controller, userSending, toFake>>
    BY <1>2 DEF FakeReturnTimer
  <2>2. Registered' /\ Known' = Known
    BY <2>1 DEF Registry, Registered, Known, NumbersUnique, InTurn
  <2> QED BY <1>1, <2>1, <2>2 DEF Registry, Traffic
<1>3. CASE toFake # Nobody
  <2>1. PICK capacity \in Capacities : Respond(toFake, 0, <<>>, "ok", capacity)
    BY <1>3 DEF FakeReturnTimer
  <2>2. PICK t \in Targets : t = toFake
    BY <1>3, AgedTyped DEF Registry, Traffic
  <2>3. 0 \in Tags /\ capacity \in Nat /\ <<>> \in Seq(Sector)
    BY ConstantsTyped, EmptySeq
  <2>4. /\ Registered'
        /\ \/ UNCHANGED <<controllers, userSending, toFake>> /\ Known' = Known
           \/ /\ t \in Known /\ Known' = Known \ {t}
              /\ toFake' = IF toFake = t THEN Nobody ELSE toFake
              /\ userSending' = <<>>
    BY <2>1, <2>2, <2>3, RespondKeeps DEF Registry
  <2>5. DOMAIN sending = {} /\ DOMAIN <<>> = {} /\ <<>> \in Seq(Targets)
    BY <1>1, EmptySeq
  <2> QED BY <1>1, <2>2, <2>4, <2>5 DEF Registry, Traffic
<1> QED BY <1>2, <1>3

\* A packet that is given up is noted with its command only.
LEMMA GiveUpKeeps ==
  ASSUME Registry, NEW p \in outstanding, GiveUp(p)
  PROVE  Registry'
<1>1. PICK t \in Targets : t = p.target
  BY DEF Registry, Traffic, Packet
<1>2. PICK k \in Controlled : k = controller[t]
  BY DEF Registry, Registered
<1>3. PICK a : a = losing(k, {p.tag})
  OBVIOUS
<1>4. /\ outstanding' = outstanding \ {p}
      /\ controller' = [controller EXCEPT ![t] = a]
      /\ UNCHANGED <<controllers, used, perPacket, currentTag, sending, userSending,
                     fakeTimer, toFake>>
  BY <1>1, <1>2, <1>3 DEF GiveUp
<1>6. a \in Controlled /\ SameTarget(k, a) /\ (k = NoController => a = k)
  BY <1>3, LosingTyped
<1>7. Registered' /\ Known' = Known
  <2>1. CASE t \in Known
    <3>1. k.perPacket \in SectorsPerPacket
      BY <1>2, <2>1 DEF Registry, Registered
    <3> QED BY <1>2, <1>4, <1>6, <2>1, <3>1, OneUpdated DEF Registry, SameTarget
  <2>2. CASE t \notin Known
    <3>1. k = NoController
      BY <1>2, <2>2 DEF Registry, Registered
    <3>2. controller' = controller /\ controllers' = controllers
      BY <1>2, <1>4, <1>6, <3>1 DEF Registry, Registered
    <3> QED BY <3>2 DEF Registry, Registered, Known, NumbersUnique, InTurn
  <2> QED BY <2>1, <2>2
<1> QED BY <1>4, <1>7 DEF Registry, Traffic

\* The timer of the base class runs out.
LEMMA TimerExpiresKeeps ==
  ASSUME Registry, NEW t \in Targets, TimerExpires(t)
  PROVE  Registry'
<1>1. PICK k \in Controlled : k = controller[t] /\ k.perPacket \in SectorsPerPacket
  BY DEF TimerExpires, Registry, Registered
<1>2. PICK a : a = [k EXCEPT !.command.expired = TRUE]
  OBVIOUS
<1>3. a \in Controlled /\ SameTarget(k, a)
  BY <1>2, ExpiredTyped
<1>4. /\ t \in Known /\ controller' = [controller EXCEPT ![t] = a]
      /\ UNCHANGED <<controllers, used, perPacket, currentTag, outstanding, sending,
                     userSending, fakeTimer, toFake>>
  BY <1>1, <1>2 DEF TimerExpires
<1>5. Registered' /\ Known' = Known
  BY <1>1, <1>3, <1>4, OneUpdated DEF Registry, SameTarget
<1> QED BY <1>4, <1>5 DEF Registry, Traffic

\* The base class ends a command that takes too long (handleTimeout).
LEMMA CommandTimeoutKeeps ==
  ASSUME Registry, NEW t \in Targets, CommandTimeout(t)
  PROVE  Registry'
<1>1. PICK k \in Controlled : k = controller[t] /\ k.perPacket \in SectorsPerPacket
  BY DEF CommandTimeout, Registry, Registered
<1>2. PICK a : a = complete(k, "error")
  OBVIOUS
<1>3. a \in Controlled /\ SameTarget(k, a)
  BY <1>2, CompleteTyped
<1>4. /\ t \in Known /\ controller' = [controller EXCEPT ![t] = a]
      /\ UNCHANGED <<controllers, used, perPacket, currentTag, outstanding, sending,
                     userSending, fakeTimer, toFake>>
  BY <1>1, <1>2 DEF CommandTimeout
<1>5. Registered' /\ Known' = Known
  BY <1>1, <1>3, <1>4, OneUpdated DEF Registry, SameTarget
<1> QED BY <1>4, <1>5 DEF Registry, Traffic

\* The periodic search (StateUpdateTimer), and that of a user program.
LEMMA StateUpdateKeeps ==
  ASSUME Registry, StateUpdateTimer
  PROVE  Registry'
<1>1. /\ sending = <<>> /\ check_down_targets /\ currentTag' = AfterSearches
      /\ sending' = Idents(controllers')
      /\ UNCHANGED <<used, perPacket, outstanding, fakeTimer>>
  BY DEF StateUpdateTimer, WorkLoopFree
<1>2. /\ Registered' /\ Known' \subseteq Known
      /\ \/ UNCHANGED <<controllers, userSending, toFake>> /\ controller' = Aged
         \/ \E t \in Known :
              /\ controller' = [Aged EXCEPT ![t] = NoController]
              /\ Known' = Known \ {t}
              /\ toFake' = IF toFake = t THEN Nobody ELSE toFake
              /\ userSending' = <<>>
  BY <1>1, DownTargetsChecked DEF Registry
<1>3. currentTag' \in 1 .. MaxTag - 1
  BY <1>1, TagsTyped DEF Registry, Traffic
<1>4. sending' \in Seq(Request) /\ \A i \in DOMAIN sending' : sending'[i].target \in Known'
  <2>1. PICK q \in Seq(Targets) : q = controllers'
    BY <1>2 DEF Registered
  <2>2. \A i \in DOMAIN q : q[i] \in Known'
    BY <2>1 DEF Known
  <2> QED BY <1>1, <2>1, <2>2, IdentsTyped
<1>5. /\ userSending' \in Seq(Targets)
      /\ \A i \in DOMAIN userSending' : userSending'[i] \in Known'
      /\ toFake' \in Known' \cup {Nobody}
  <2>1. CASE UNCHANGED <<controllers, userSending, toFake>>
    <3>1. Known' = Known
      BY <2>1 DEF Known
    <3> QED BY <2>1, <3>1 DEF Registry, Traffic
  <2>2. CASE \E t \in Known : /\ Known' = Known \ {t}
                              /\ toFake' = IF toFake = t THEN Nobody ELSE toFake
                              /\ userSending' = <<>>
    <3>1. DOMAIN <<>> = {} /\ <<>> \in Seq(Targets)
      BY EmptySeq
    <3> QED BY <2>2, <3>1 DEF Registry, Traffic
  <2> QED BY <1>2, <2>1, <2>2
<1> QED BY <1>1, <1>2, <1>3, <1>4, <1>5 DEF Registry, Traffic

\* A user program's search takes tags and keeps the registry (find_targets).
LEMMA UserSearchKeeps ==
  ASSUME Registry, UserSearch
  PROVE  Registry'
<1>1. /\ currentTag' = AfterSearches /\ userSending' = controllers
      /\ UNCHANGED <<controllers, controller, used, perPacket, outstanding, sending,
                     fakeTimer, toFake>>
  BY DEF UserSearch
<1>2. currentTag' \in 1 .. MaxTag - 1
  BY <1>1, TagsTyped DEF Registry, Traffic
<1>3. Registered' /\ Known' = Known
  BY <1>1 DEF Registry, Registered, Known, NumbersUnique, InTurn
<1>4. /\ userSending' \in Seq(Targets)
      /\ \A i \in DOMAIN userSending' : userSending'[i] \in Known
  BY <1>1 DEF Registry, Registered, Known
<1> QED BY <1>1, <1>2, <1>3, <1>4 DEF Registry, Traffic

\* An IDENTIFY sent for a user program's search keeps the registry (send_identify).
LEMMA UserIdentifyKeeps ==
  ASSUME Registry, UserIdentify
  PROVE  Registry'
<1>1. userSending \in Seq(Targets) /\ userSending # <<>>
  BY DEF UserIdentify, Registry, Traffic
<1>2. 1 \in DOMAIN userSending /\ userSending[1] \in Known
  BY <1>1, TailOf DEF Registry, Traffic
<1>3. PICK r \in Request : r = Idents(userSending)[1] /\ r.target \in Known /\ r.kind = "ident"
  BY <1>1, <1>2, IdentsTyped
<1>4. PICK tag \in 1 .. MaxTag - 1 : tag = next_tag(currentTag)
  BY TagsTyped DEF Registry, Traffic
<1>5. PICK k \in Controlled : k = controller[r.target]
  BY DEF Registry, Registered, Request
<1>6. PICK a : a = sent(k, r, tag, FALSE)
  OBVIOUS
<1>7. /\ currentTag' = tag /\ controller' = [controller EXCEPT ![r.target] = a]
      /\ Transmit(r, tag) /\ userSending' = Tail(userSending)
      /\ UNCHANGED <<controllers, used, perPacket, sending, fakeTimer, toFake>>
  BY <1>3, <1>4, <1>5, <1>6 DEF UserIdentify
<1>8. tag \in Tags
  BY ConstantsTyped
<1>9. a \in Controlled /\ SameTarget(k, a)
  BY <1>6, <1>8, SentTyped
<1>10. k.perPacket \in SectorsPerPacket
  BY <1>3, <1>5 DEF Registry, Registered
<1>11. Registered' /\ Known' = Known
  BY <1>3, <1>5, <1>7, <1>9, <1>10, OneUpdated DEF Registry, SameTarget
<1>12. outstanding' \subseteq Packet
  BY <1>3, <1>7, <1>8, TransmitTyped
<1>13. /\ userSending' \in Seq(Targets)
       /\ \A i \in DOMAIN userSending' : userSending'[i] \in Known
  BY <1>1, <1>7, TailOf DEF Registry, Traffic
<1> QED BY <1>7, <1>11, <1>12, <1>13 DEF Registry, Traffic

\* A port goes down: commands are cancelled or noted, no target changes
\* (cg_disable_interface, AoEControllerInterface.cpp:692-750).
LEMMA PortDownKeeps ==
  ASSUME Registry, NEW n \in Ports, PortDown(n)
  PROVE  Registry'
<1>1. /\ used' \subseteq used /\ outstanding' \subseteq outstanding
      /\ UNCHANGED <<controllers, perPacket, currentTag, sending, userSending,
                     fakeTimer, toFake>>
  BY DEF PortDown
<1>2. PICK purged : controller' = [t \in Targets |->
           IF Hit(n) # {} /\ t = controllers[Lowest(Hit(n))]
             THEN cancel_command(controller[t]) ELSE losing(controller[t], purged)]
  BY DEF PortDown
<1>3. ASSUME NEW t \in Targets
      PROVE  /\ controller'[t] \in Controlled /\ SameTarget(controller[t], controller'[t])
             /\ controller[t] = NoController => controller'[t] = NoController
  <2>1. PICK k \in Controlled : k = controller[t]
    BY DEF Registry, Registered
  <2>2. CASE Hit(n) # {} /\ t = controllers[Lowest(Hit(n))]
    <3>1. controller'[t] = cancel_command(k)
      BY <1>2, <2>1, <2>2
    <3>2. CASE Busy(k)
      <4>1. controller'[t] = complete(k, "error") /\ k # NoController
        BY <3>1, <3>2 DEF cancel_command, Busy, NoController, NoCommand
      <4> QED BY <2>1, <4>1, CompleteTyped
    <3>3. CASE ~ Busy(k)
      <4>1. controller'[t] = k
        BY <3>1, <3>3 DEF cancel_command
      <4> QED BY <2>1, <4>1 DEF SameTarget
    <3> QED BY <3>2, <3>3
  <2>3. CASE ~ (Hit(n) # {} /\ t = controllers[Lowest(Hit(n))])
    <3>1. controller'[t] = losing(k, purged)
      BY <1>2, <2>1, <2>3
    <3> QED BY <2>1, <3>1, LosingTyped
  <2> QED BY <2>2, <2>3
<1>4. controller' \in [Targets -> Controlled]
  BY <1>2, <1>3
<1>5. Known \subseteq Targets
  BY AgedTyped DEF Registry
<1>6. Registered' /\ Known' = Known
  <2>1. \A t \in Known : /\ controller'[t].number = controller[t].number
                         /\ controller'[t].perPacket \in SectorsPerPacket
                         /\ controller'[t].silent \in {0, controller[t].silent}
    BY <1>3, <1>5 DEF Registry, Registered, SameTarget
  <2>2. \A t \in Targets \ Known : controller'[t] = NoController
    BY <1>3 DEF Registry, Registered
  <2> QED BY <1>1, <1>4, <2>1, <2>2, RegistryKept DEF Registry
<1> QED BY <1>1, <1>6 DEF Registry, Traffic

\* adjust_mtu_sizes gives every controller an MTU some port has
\* (AoEController.cpp:2450-2470).
LEMMA PortUpKeeps ==
  ASSUME Registry, NEW n \in Ports, NEW per \in SectorsPerPacket, PortUp(n, per)
  PROVE  Registry'
<1>1. /\ used' = used \cup {n} /\ perPacket' = per
      /\ UNCHANGED <<controllers, currentTag, outstanding, sending, userSending,
                     fakeTimer, toFake>>
      /\ controller' = [t \in Targets |-> IF t \notin Known THEN controller[t]
           ELSE [controller[t] EXCEPT !.perPacket = per,
                   !.command.clean = @ /\ controller[t].perPacket = per]]
  BY DEF PortUp
<1>2. ASSUME NEW t \in Targets
      PROVE  /\ controller'[t] \in Controlled
             /\ controller'[t].number = controller[t].number
             /\ controller'[t].silent = controller[t].silent
             /\ t \in Known => controller'[t].perPacket = per
             /\ t \notin Known => controller'[t] = controller[t]
  <2>1. PICK k \in Controlled : k = controller[t]
    BY DEF Registry, Registered
  <2>2. CASE t \notin Known
    BY <1>1, <2>1, <2>2
  <2>3. CASE t \in Known
    <3>1. controller'[t] = [k EXCEPT !.perPacket = per,
                                     !.command.clean = @ /\ k.perPacket = per]
      BY <1>1, <2>1, <2>3
    <3>2. k.command \in Sized
      BY DEF Controlled, Controller
    <3>3. PICK c \in Sized : c = [k.command EXCEPT !.clean = @ /\ k.perPacket = per]
      <4>1. [k.command EXCEPT !.clean = @ /\ k.perPacket = per] \in Sized
        BY <3>2 DEF Sized, Command
      <4> QED BY <4>1
    <3>4. PICK d \in Controlled : d = [k EXCEPT !.command = c] /\ SameTarget(k, d)
      BY WithCommand
    <3>5. controller'[t] = [d EXCEPT !.perPacket = per]
      BY <3>1, <3>3, <3>4 DEF Controlled, Controller
    <3>6. /\ [d EXCEPT !.perPacket = per] \in Controlled
          /\ [d EXCEPT !.perPacket = per].perPacket = per
          /\ [d EXCEPT !.perPacket = per].number = d.number
          /\ [d EXCEPT !.perPacket = per].silent = d.silent
      <4>1. per \in Nat
        BY ConstantsTyped
      <4> QED BY <4>1 DEF Controlled, Controller
    <3> QED BY <2>1, <2>3, <3>4, <3>5, <3>6 DEF SameTarget
  <2> QED BY <2>2, <2>3
<1>3. controller' \in [Targets -> Controlled]
  BY <1>1, <1>2
<1>4. Known \subseteq Targets
  BY AgedTyped DEF Registry
<1>5. Registered' /\ Known' = Known
  <2>1. \A t \in Known : /\ controller'[t].number = controller[t].number
                         /\ controller'[t].perPacket \in SectorsPerPacket
                         /\ controller'[t].silent \in {0, controller[t].silent}
    BY <1>2, <1>4
  <2>2. \A t \in Targets \ Known : controller'[t] = NoController
    BY <1>2 DEF Registry, Registered
  <2> QED BY <1>1, <1>3, <2>1, <2>2, RegistryKept DEF Registry
<1>6. used' \subseteq Ports
  BY <1>1 DEF Registry, Traffic
<1> QED BY <1>1, <1>5, <1>6 DEF Registry, Traffic

\* Nothing is known when the driver starts.
LEMMA RegistryInit == Init => Registry
<1> SUFFICES ASSUME Init PROVE Registry
  OBVIOUS
<1>1. Known = {} /\ DOMAIN controllers = {} /\ controllers \in Seq(Targets)
  BY EmptySeq DEF Init, Known
<1>2. NoController \in Controlled
  BY NoControllerTyped
<1>3. Registered
  BY <1>1, <1>2 DEF Init, Registered, Distinct, NumbersUnique, InTurn
<1>4. <<>> \in Seq(Request) /\ <<>> \in Seq(Targets) /\ DOMAIN <<>> = {}
  BY EmptySeq
<1>5. 1 \in 1 .. MaxTag - 1
  BY ConstantsTyped
<1>6. Traffic
  BY <1>4, <1>5 DEF Init, Traffic
<1> QED BY <1>3, <1>6 DEF Registry

\* Whatever happens, the registry stays one.
LEMMA RegistryStep ==
  ASSUME Registry, [Next]_vars
  PROVE  Registry'
<1>1. CASE SendNext
  BY <1>1, SendNextKeeps
<1>2. CASE FakeReturnTimer
  BY <1>2, FakeReturnKeeps
<1>3. CASE StateUpdateTimer
  BY <1>3, StateUpdateKeeps
<1>4. CASE UserSearch
  BY <1>4, UserSearchKeeps
<1>5. CASE UserIdentify
  BY <1>5, UserIdentifyKeeps
<1>6. CASE \E t \in Targets, p \in Ports, ours \in BOOLEAN : Appear(t, p, ours) \/ Heard(t, p, ours)
  BY <1>6, AppearKeeps, HeardKeeps
<1>7. CASE \E t \in Targets, c \in Commands : Dispatch(t, c)
  BY <1>7, DispatchKeeps
<1>8. CASE \E t \in Targets : TimerExpires(t) \/ CommandTimeout(t)
  BY <1>8, TimerExpiresKeeps, CommandTimeoutKeeps
<1>9. CASE \E p \in outstanding, status \in {"ok", "error"}, capacity \in Capacities :
             Answer(p, status, capacity)
  BY <1>9, AnswerKeeps
<1>10. CASE \E p \in outstanding : GiveUp(p)
  BY <1>10, GiveUpKeeps
<1>11. CASE \E n \in Ports : PortDown(n)
  BY <1>11, PortDownKeeps
<1>12. CASE \E n \in Ports, per \in SectorsPerPacket : PortUp(n, per)
  BY <1>12, PortUpKeeps
<1>13. CASE UNCHANGED vars
  BY <1>13 DEF vars, Registry, Registered, Traffic, Known, NumbersUnique, InTurn
<1> QED
  BY <1>1, <1>2, <1>3, <1>4, <1>5, <1>6, <1>7, <1>8, <1>9, <1>10, <1>11, <1>12, <1>13
  DEF Next, WorkLoop

\* The registry is one in every state of the driver.
LEMMA RegistryAlways == Spec => []Registry
<1>1. Registry /\ [Next]_vars => Registry'
  BY RegistryStep
<1> QED BY <1>1, RegistryInit, PTL DEF Spec

\* The controllers, the packets and the tags are always what the code takes them
\* for, whatever arrives and in whatever order.
THEOREM TypeCorrect == Spec => []TypeOK
<1>1. Registry => TypeOK
  <2> SUFFICES ASSUME Registry PROVE TypeOK
    OBVIOUS
  <2>1. controller \in [Targets -> Controller]
    BY DEF Registry, Registered, Controlled
  <2>2. perPacket \in Nat /\ currentTag \in Tags
    BY ConstantsTyped DEF Registry, Traffic
  <2>3. toFake \in Targets \cup {Nobody}
    BY AgedTyped DEF Registry, Traffic
  <2> QED BY <2>1, <2>2, <2>3 DEF Registry, Registered, Traffic, TypeOK
<1> QED BY <1>1, RegistryAlways, PTL

\* get_next_target_number and remove_target agree on which target is meant: two
\* that are known never have the same number (AoEControllerInterface.cpp:540-690).
THEOREM NumbersStayUnique == Spec => []NumbersUnique
<1>1. Registry => NumbersUnique
  BY DEF Registry, Registered
<1> QED BY <1>1, RegistryAlways, PTL

\* One state update removes one target that is down, the first: yet each is gone
\* in time, however many fall silent at once (AoEControllerInterface.cpp:499-535).
THEOREM DownAreRemoved == Spec => []RemovedInTurn
<1>1. Registry => RemovedInTurn
  <2> SUFFICES ASSUME Registry, NEW t \in Known
               PROVE  controller[t].silent < OfflineTicks + Cardinality(Targets) - 1
    BY DEF RemovedInTurn
  <2>1. PICK n \in Nat : n = Len(controllers) /\ DOMAIN controllers = 1 .. n
    BY LenProperties DEF Registry, Registered
  <2>2. PICK i \in 1 .. n : controllers[i] = t
    BY <2>1 DEF Known
  <2>3. n <= Cardinality(Targets)
    BY <2>1, ConstantsTyped, DistinctIsShort DEF Registry, Registered
  <2>4. PICK s \in Nat : s = controller[t].silent
    <3>1. t \in Targets
      BY AgedTyped DEF Registry
    <3> QED BY <3>1 DEF Registry, Registered, Controlled, Controller
  <2>5. s >= OfflineTicks => i + s - OfflineTicks + 1 <= Cardinality(Targets)
    BY <2>1, <2>2, <2>4 DEF Registry, Registered, InTurn
  <2>6. s < OfflineTicks + Cardinality(Targets) - 1
    BY <2>1, <2>3, <2>5, ConstantsTyped
  <2> QED BY <2>4, <2>6
<1> QED BY <1>1, RegistryAlways, PTL

-----------------------------------------------------------------------------
(* Transfers: their packets and the answers they wait for.                 *)

\* What an answer, a timeout or a cancellation leaves of a controller: the order
\* of its command, and the notes about the packets that wait for an answer.
Follows(k, r) ==
  /\ r.baseTag = k.baseTag /\ r.perPacket = k.perPacket
  /\ r.command.kind = k.command.kind /\ r.command.lba = k.command.lba
  /\ r.command.sectors = k.command.sectors /\ r.command.chunk = k.command.chunk
  /\ r.command.awaited = k.command.awaited
  /\ r.command.clean = k.command.clean /\ r.command.failed = k.command.failed
  /\ Busy(r) => r.command.lost = k.command.lost
  /\ r.command.state = "started" => k.command.state = "started"

\* completeDataRead fills the buffer and leaves the order as it is.
LEMMA CompleteDataReadFollows ==
  ASSUME NEW k \in Controlled, NEW tag \in Tags, NEW payload \in Seq(Sector)
  PROVE  /\ Follows(k, completeDataRead(k, tag, payload))
         /\ completeDataRead(k, tag, payload).replies = k.replies
         /\ completeDataRead(k, tag, payload).command.state \in {"data", "status"}
<1> DEFINE c == k.command
           remaining == c.sectors - c.actual
           n == MIN(remaining, MIN(k.perPacket, Len(payload)))
           Here(i) == i - 1 - Place(k, tag)
<1>1. PICK data : data = [i \in DOMAIN c.data |->
                      IF Here(i) \in 0 .. n - 1 THEN payload[Here(i) + 1] ELSE c.data[i]]
  OBVIOUS
<1>2. PICK actual : actual = c.actual + n
  OBVIOUS
<1>3. PICK state \in {"data", "status"} : state = IF k.replies # 0 THEN "data" ELSE "status"
  OBVIOUS
<1>4. k \in Controller /\ c \in Command
  BY DEF Controlled, Controller
<1>5. CASE remaining < 1 \/ c.expired
  <2>1. completeDataRead(k, tag, payload) = [k EXCEPT !.command.state = "status"]
    BY <1>5 DEF completeDataRead
  <2> HIDE DEF c
  <2> QED BY <1>4, <2>1 DEF Follows, Controller, Command, c
<1>6. CASE ~ (remaining < 1) /\ ~ c.expired
  <2>1. completeDataRead(k, tag, payload) =
          [k EXCEPT !.command.data = data, !.command.actual = actual,
                    !.command.state = state]
    BY <1>1, <1>2, <1>3, <1>6 DEF completeDataRead
  <2>2. PICK d : d = [c EXCEPT !.data = data, !.actual = actual, !.state = state]
    OBVIOUS
  <2>3. completeDataRead(k, tag, payload) = [k EXCEPT !.command = d]
    BY <1>4, <2>1, <2>2 DEF Controller
  <2>4. /\ d.kind = c.kind /\ d.lba = c.lba /\ d.sectors = c.sectors /\ d.chunk = c.chunk
        /\ d.awaited = c.awaited /\ d.clean = c.clean /\ d.failed = c.failed
        /\ d.lost = c.lost /\ d.state = state
    BY <1>4, <2>2 DEF Command
  <2>5. PICK r : r = [k EXCEPT !.command = d]
    OBVIOUS
  <2>6. /\ r.command = d /\ r.baseTag = k.baseTag /\ r.perPacket = k.perPacket
        /\ r.replies = k.replies
    BY <1>4, <2>5 DEF Controller
  <2> QED BY <1>3, <2>3, <2>4, <2>5, <2>6 DEF Follows
<1> QED BY <1>5, <1>6

\* asyncStatus ends a command.
LEMMA AsyncStatusFollows ==
  ASSUME NEW k \in Controlled, NEW status \in {"ok", "error"}
  PROVE  /\ Follows(k, asyncStatus(k, status))
         /\ asyncStatus(k, status).replies = k.replies
         /\ ~ Busy(asyncStatus(k, status))
<1>1. PICK result \in {"ok", "error"} :
        result = IF "error" \in {status, k.previousWrite} THEN "error" ELSE "ok"
  OBVIOUS
<1> DEFINE c == k.command
<1>2. k \in Controller /\ c \in Command
  BY DEF Controlled, Controller
<1>3. PICK d : d = [c EXCEPT !.state = "complete", !.result = result,
                                 !.expired = FALSE, !.lost = FALSE]
  OBVIOUS
<1>4. asyncStatus(k, status) = [k EXCEPT !.command = d, !.previousWrite = "none"]
  BY <1>1, <1>2, <1>3 DEF asyncStatus, complete, Controller
<1>5. /\ d.kind = c.kind /\ d.lba = c.lba /\ d.sectors = c.sectors /\ d.chunk = c.chunk
      /\ d.awaited = c.awaited /\ d.clean = c.clean /\ d.failed = c.failed
      /\ d.state = "complete"
  BY <1>2, <1>3 DEF Command
<1>6. PICK r : r = [k EXCEPT !.command = d, !.previousWrite = "none"]
  OBVIOUS
<1>7. /\ r.command = d /\ r.baseTag = k.baseTag /\ r.perPacket = k.perPacket
      /\ r.replies = k.replies
  BY <1>2, <1>6 DEF Controller
<1> QED BY <1>4, <1>5, <1>6, <1>7 DEF Follows, Busy

\* handleDeviceInterrupt goes on with the data of a command, or ends it.
LEMMA InterruptFollows ==
  ASSUME NEW k \in Controlled, NEW tag \in Tags, NEW payload \in Seq(Sector),
         NEW status \in {"ok", "error"}
  PROVE  /\ Follows(k, interrupt(k, tag, payload, status))
         /\ interrupt(k, tag, payload, status).replies = k.replies
<1>1. PICK d : d = IF k.command.state = "data" THEN completeDataRead(k, tag, payload) ELSE k
  OBVIOUS
<1>2. d \in Controlled /\ Follows(k, d) /\ d.replies = k.replies
  BY <1>1, CompleteDataReadTyped, CompleteDataReadFollows DEF Follows
<1>3. interrupt(k, tag, payload, status) =
        IF d.command.state = "data" THEN d ELSE asyncStatus(d, status)
  BY <1>1 DEF interrupt
<1>4. PICK a : a = asyncStatus(d, status)
  OBVIOUS
<1>5. Follows(d, a) /\ a.replies = d.replies /\ ~ Busy(a)
  BY <1>2, <1>4, AsyncStatusFollows
<1> QED BY <1>2, <1>3, <1>4, <1>5 DEF Follows

\* Whatever answer a transfer gets counts as one of those it waits for
\* (AoEController.cpp:427-461).
LEMMA ContinueFollows ==
  ASSUME NEW k \in Controlled, NEW tag \in Tags, NEW payload \in Seq(Sector),
         NEW status \in {"ok", "error"}
  PROVE  /\ Follows(k, continue_command(k, tag, payload, status))
         /\ Transfer(k.command) =>
              continue_command(k, tag, payload, status).replies = k.replies - 1
<1>1. PICK r : r = [k EXCEPT !.replies = @ - 1]
  OBVIOUS
<1>2. r \in Controlled /\ Follows(k, r) /\ r.replies = k.replies - 1
      /\ r.command = k.command
  BY <1>1 DEF Controlled, Controller, Follows
<1>3. CASE k.command.kind = "write"
  <2>1. CASE r.replies # 0
    <3>1. PICK previous : previous = IF r.previousWrite = "none" THEN status ELSE r.previousWrite
      OBVIOUS
    <3>2. continue_command(k, tag, payload, status) = [r EXCEPT !.previousWrite = previous]
      BY <1>1, <1>3, <2>1, <3>1 DEF continue_command
    <3> QED BY <1>2, <3>2 DEF Follows, Controlled, Controller
  <2>2. CASE r.replies = 0
    <3>1. continue_command(k, tag, payload, status) = interrupt(r, tag, payload, status)
      BY <1>1, <1>3, <2>2 DEF continue_command
    <3> QED BY <1>2, <3>1, InterruptFollows DEF Follows
  <2> QED BY <2>1, <2>2
<1>4. CASE k.command.kind = "read"
  <2>1. PICK d : d = completeDataRead(r, tag, payload)
    OBVIOUS
  <2>2. continue_command(k, tag, payload, status) =
          IF d.command.state = "data" THEN d ELSE asyncStatus(d, status)
    BY <1>1, <1>4, <2>1 DEF continue_command
  <2>3. d \in Controlled /\ Follows(r, d) /\ d.replies = r.replies
    BY <1>2, <2>1, CompleteDataReadTyped, CompleteDataReadFollows
  <2>4. PICK a : a = asyncStatus(d, status)
    OBVIOUS
  <2>5. Follows(d, a) /\ a.replies = d.replies /\ ~ Busy(a)
    BY <2>3, <2>4, AsyncStatusFollows
  <2> QED BY <1>2, <2>2, <2>3, <2>4, <2>5 DEF Follows
<1>5. CASE k.command.kind \notin {"read", "write"}
  <2>1. continue_command(k, tag, payload, status) = interrupt(k, tag, payload, status)
    BY <1>5 DEF continue_command
  <2> QED BY <1>5, <2>1, InterruptFollows DEF Transfer
<1> QED BY <1>3, <1>4, <1>5

\* What becomes of a controller in any step that issues no packet of its command:
\* the order stays, and packets leave those it waits for.
Onward(k, r) ==
  /\ r.command.kind = k.command.kind /\ r.command.lba = k.command.lba
  /\ r.command.sectors = k.command.sectors /\ r.command.chunk = k.command.chunk
  /\ r.command.awaited \subseteq k.command.awaited
  /\ r.command.clean => k.command.clean
  /\ Busy(r) => /\ Busy(k)
                /\ ~ r.command.lost => ~ k.command.lost
  /\ r.command.state = "started" => k.command.state = "started"

\* An answer takes its packet from those that are awaited, and a clean transfer
\* that goes on counted it as one of its replies (AoEController.cpp:400-470).
LEMMA ResponseOnward ==
  ASSUME NEW k \in Controlled, NEW tag \in Tags, NEW payload \in Seq(Sector),
         NEW status \in {"ok", "error"}, NEW capacity \in Nat,
         NEW r, r = ata_response(k, tag, payload, status, capacity)
  PROVE  /\ Onward(k, r)
         /\ (Busy(r) /\ Transfer(r.command) /\ r.command.clean) =>
              /\ tag \in k.command.awaited
              /\ r.command.awaited = k.command.awaited \ {tag}
              /\ r.replies = k.replies - 1
<1>1. PICK n : n = noted(k, tag, status)
  OBVIOUS
<1>2. n \in Controlled
  BY <1>1, NotedTyped
<1>3. /\ n.command.kind = k.command.kind /\ n.command.lba = k.command.lba
      /\ n.command.sectors = k.command.sectors /\ n.command.chunk = k.command.chunk
      /\ n.command.state = k.command.state /\ n.replies = k.replies
      /\ n.command.awaited \subseteq k.command.awaited
      /\ n.command.clean => k.command.clean
      /\ n.command.lost = k.command.lost
      /\ (Busy(k) /\ n.command.clean) => /\ tag \in k.command.awaited
                                         /\ n.command.awaited = k.command.awaited \ {tag}
  <2>1. k.command \in Command /\ k \in Controller
    BY DEF Controlled, Sized
  <2>2. CASE ~ Busy(k)
    BY <1>1, <2>2 DEF noted
  <2>3. CASE Busy(k) /\ tag \in k.command.awaited
    <3>1. n = [k EXCEPT !.command.awaited = @ \ {tag},
                        !.command.failed = @ \/ status = "error",
                        !.command.clean = @ /\ ~ (k.command.kind = "read" /\ k.command.expired)]
      BY <1>1, <2>3 DEF noted
    <3> QED BY <2>1, <2>3, <3>1 DEF Controller, Command
  <2>4. CASE Busy(k) /\ tag \notin k.command.awaited
    <3>1. n = [k EXCEPT !.command.clean = FALSE]
      BY <1>1, <2>4 DEF noted
    <3> QED BY <2>1, <2>4, <3>1 DEF Controller, Command
  <2> QED BY <2>2, <2>3, <2>4
<1>4. CASE Identifies(k, tag)
  <2>1. r = [n EXCEPT !.identTag = 0, !.capacity = capacity]
    BY <1>1, <1>4 DEF ata_response
  <2>2. r.command = n.command
    BY <1>2, <2>1 DEF Controlled, Controller
  <2>3. Busy(k) => ~ Transfer(k.command)
    BY <1>4 DEF Identifies, Transfer
  <2> QED BY <1>3, <2>2, <2>3 DEF Onward, Busy, Transfer
<1>5. CASE ~ Identifies(k, tag) /\ Busy(k)
  <2>1. r = continue_command(n, tag, payload, status)
    BY <1>1, <1>5 DEF ata_response
  <2>2. Follows(n, r) /\ (Transfer(n.command) => r.replies = n.replies - 1)
    BY <1>2, <2>1, ContinueFollows
  <2> QED BY <1>3, <1>5, <2>2 DEF Follows, Onward, Busy, Transfer
<1>6. CASE ~ Identifies(k, tag) /\ ~ Busy(k)
  <2>1. r = n
    BY <1>1, <1>6 DEF ata_response
  <2> QED BY <1>3, <1>6, <2>1 DEF Onward, Busy
<1> QED BY <1>4, <1>5, <1>6

\* The driver's tags do not start again, transfers have 48-bit addresses, and a
\* packet takes fewer than 256 sectors (at an MTU of 9000 it takes 17).
PlainTransfers ==
  /\ ~ TagsWrap
  /\ \A c \in Commands : Transfer(c) => c.extended
  /\ \A n \in SectorsPerPacket : n < 256

\* Packets have the tags handed out so far, each awaited by one target at most.
TagsNew ==
  /\ \A p \in outstanding : p.tag <= currentTag
  /\ \A t \in Targets : \A tag \in controller[t].command.awaited : tag <= currentTag
  /\ \A p \in outstanding, t \in Targets :
       p.tag \in controller[t].command.awaited => p.target = t

\* Packets to be issued are those of the one command that was started, or they
\* identify targets.
Issuing ==
  /\ \A t \in Targets : LET c == controller[t].command IN
       c.state = "started" =>
         /\ sending # <<>>
         /\ \A i \in DOMAIN sending : sending[i].target = t /\ sending[i].kind = c.kind
  /\ \A i \in DOMAIN sending :
       sending[i].kind # "ident" => controller[sending[i].target].command.state = "started"

\* The packets of a command that are still to be issued.
Unsent(c) == IF c.state = "started" THEN Len(sending) ELSE 0

\* What m_nReadWriteRepliesRequired counts, while packets are issued too.
RepliesCounted ==
  \A t \in Targets : LET k == controller[t] IN
    (InTransfer(t) /\ k.command.clean) =>
      /\ k.replies = Cardinality(k.command.awaited) + Unsent(k.command)
      /\ ~ k.command.lost => k.command.awaited \subseteq {p.tag : p \in outstanding}

\* Packets to be issued address their command's sectors, one after the other.
RequestsInTransfer ==
  \A i \in DOMAIN sending : LET r == sending[i]  c == controller[r.target].command IN
    Transfer(r) =>
      /\ c.lba <= r.lba /\ r.lba + r.count <= c.lba + c.sectors
      /\ r.kind = "write" => r.lba = c.lba + c.actual + (i - 1) * c.chunk

Transfers == TagsNew /\ Issuing /\ RepliesCounted /\ RequestsInTransfer /\ PacketsInTransfer

\* A step goes on with what is being issued, or there is nothing of a command.
GoesOn ==
  \/ /\ sending' = sending
     /\ \A t \in Targets : controller[t].command.state = "started" =>
          /\ controller'[t].command.state = "started"
          /\ controller'[t].command.actual = controller[t].command.actual
  \/ /\ \A i \in DOMAIN sending : sending[i].kind = "ident"
     /\ \A i \in DOMAIN sending' : sending'[i].kind = "ident"

\* A step that issues no packet of a command keeps what is known of transfers:
\* the packets it adds have tags nobody waits for.
LEMMA TransfersKept ==
  ASSUME Registry, Transfers, Registry', GoesOn,
         \A t \in Targets : controller'[t] = NoController \/ Onward(controller[t], controller'[t]),
         \A t \in Targets :
           (InTransfer(t)' /\ controller'[t].command.clean) =>
             /\ controller'[t].replies =
                  Cardinality(controller'[t].command.awaited) + Unsent(controller[t].command)
             /\ ~ controller'[t].command.lost =>
                  controller'[t].command.awaited \subseteq {p.tag : p \in outstanding'},
         \A p \in outstanding' : p \in outstanding \/ (p.tag > currentTag /\ p.tag <= currentTag'),
         currentTag' >= currentTag
  PROVE  Transfers'
<1>1. /\ NoController.command.awaited = {} /\ NoController.command.state = "complete"
      /\ ~ Busy(NoController)
  BY DEF NoController, NoCommand, Busy
<1>2. currentTag \in Nat /\ currentTag' \in Nat
  BY ConstantsTyped DEF Registry, Traffic
<1>3. \A t \in Targets :
        /\ controller'[t].command.awaited \subseteq controller[t].command.awaited
        /\ controller'[t].command.state = "started" => controller[t].command.state = "started"
  BY <1>1 DEF Onward
<1>4. /\ \A p \in outstanding : p.tag \in Nat
      /\ \A p \in outstanding' : p.tag \in Nat
      /\ \A t \in Targets : controller[t].command.awaited \subseteq Nat
  <2>1. /\ outstanding \subseteq Packet /\ outstanding' \subseteq Packet
        /\ controller \in [Targets -> Controlled]
    BY DEF Registry, Traffic, Registered
  <2>2. \A p \in Packet : p.tag \in Nat
    BY ConstantsTyped DEF Packet
  <2>3. \A k \in Controlled : k.command.awaited \subseteq Nat
    BY ConstantsTyped DEF Controlled, Sized, Command
  <2> QED BY <2>1, <2>2, <2>3
<1>5. \A t \in Targets : \A tag \in controller[t].command.awaited : tag <= currentTag
  BY DEF Transfers, TagsNew
\* A packet somebody waits for was held before.
<1>6. \A p \in outstanding', t \in Targets :
        p.tag \in controller[t].command.awaited => p \in outstanding
  BY <1>2, <1>4, <1>5
<1>7. TagsNew'
  <2>1. \A p \in outstanding' : p.tag <= currentTag'
    BY <1>2, <1>4 DEF Transfers, TagsNew
  <2>2. \A t \in Targets : \A tag \in controller'[t].command.awaited : tag <= currentTag'
    <3> SUFFICES ASSUME NEW t \in Targets, NEW tag \in controller'[t].command.awaited
                 PROVE  tag <= currentTag'
      OBVIOUS
    <3>1. tag \in controller[t].command.awaited
      BY <1>3
    <3>2. tag \in Nat /\ tag <= currentTag
      BY <1>4, <1>5, <3>1
    <3> QED BY <1>2, <3>2
  <2>3. \A p \in outstanding', t \in Targets :
          p.tag \in controller'[t].command.awaited => p.target = t
    BY <1>3, <1>6 DEF Transfers, TagsNew
  <2> QED BY <2>1, <2>2, <2>3 DEF TagsNew
<1>8. \A t \in Targets : controller'[t].command.state # "complete" =>
                           Onward(controller[t], controller'[t])
  BY <1>1
<1>9. sending \in Seq(Request) /\ sending' \in Seq(Request)
  BY DEF Registry, Traffic
<1>10. (\A i \in DOMAIN sending : sending[i].kind = "ident") =>
         \A t \in Targets : controller[t].command.state # "started"
  <2> SUFFICES ASSUME \A i \in DOMAIN sending : sending[i].kind = "ident",
                      NEW t \in Targets, controller[t].command.state = "started"
               PROVE  FALSE
    OBVIOUS
  <2>1. sending # <<>> /\ \A i \in DOMAIN sending : sending[i].kind = controller[t].command.kind
    BY DEF Transfers, Issuing
  <2>2. 1 \in DOMAIN sending
    BY <1>9, <2>1, TailOf
  <2>3. controller[t].command.kind \in Kinds
    BY DEF Registry, Registered, Controlled, Sized, Command
  <2> QED BY <2>1, <2>2, <2>3 DEF Kinds
<1>11. ASSUME /\ sending' = sending
              /\ \A t \in Targets : controller[t].command.state = "started" =>
                   /\ controller'[t].command.state = "started"
                   /\ controller'[t].command.actual = controller[t].command.actual
       PROVE  Issuing' /\ RepliesCounted' /\ RequestsInTransfer'
  <2>1. Issuing'
    <3>1. \A t \in Targets : controller'[t].command.state = "started" =>
            /\ controller[t].command.state = "started"
            /\ controller'[t].command.kind = controller[t].command.kind
      BY <1>3, <1>8 DEF Onward
    <3>2. \A i \in DOMAIN sending : sending[i].target \in Targets
      BY AgedTyped DEF Registry, Traffic
    <3> QED BY <1>11, <3>1, <3>2 DEF Transfers, Issuing
  <2>2. RepliesCounted'
    <3> SUFFICES ASSUME NEW t \in Targets, InTransfer(t)', controller'[t].command.clean
                 PROVE  /\ controller'[t].replies =
                             Cardinality(controller'[t].command.awaited) + Unsent(controller[t].command)'
                        /\ ~ controller'[t].command.lost =>
                             controller'[t].command.awaited \subseteq {p.tag : p \in outstanding'}
      BY DEF RepliesCounted
    <3>1. Unsent(controller[t].command)' = Unsent(controller[t].command)
      BY <1>3, <1>11 DEF Unsent
    <3> QED BY <3>1
  <2>3. RequestsInTransfer'
    <3> SUFFICES ASSUME NEW i \in DOMAIN sending, Transfer(sending[i]),
                        NEW c, c = controller'[sending[i].target].command
                 PROVE  /\ c.lba <= sending[i].lba
                        /\ sending[i].lba + sending[i].count <= c.lba + c.sectors
                        /\ sending[i].kind = "write" =>
                             sending[i].lba = c.lba + c.actual + (i - 1) * c.chunk
      BY <1>11 DEF RequestsInTransfer, Transfer
    <3>1. PICK t \in Targets : t = sending[i].target
      BY AgedTyped DEF Registry, Traffic
    <3>2. controller[t].command.state = "started"
      BY <3>1 DEF Transfers, Issuing, Transfer
    <3>3. /\ c.lba = controller[t].command.lba /\ c.sectors = controller[t].command.sectors
          /\ c.actual = controller[t].command.actual /\ c.chunk = controller[t].command.chunk
      BY <1>8, <1>11, <3>1, <3>2 DEF Onward
    <3>4. LET d == controller[t].command IN
            /\ d.lba <= sending[i].lba /\ sending[i].lba + sending[i].count <= d.lba + d.sectors
            /\ sending[i].kind = "write" => sending[i].lba = d.lba + d.actual + (i - 1) * d.chunk
      BY <3>1 DEF Transfers, RequestsInTransfer
    <3> QED BY <3>3, <3>4
  <2> QED BY <2>1, <2>2, <2>3
<1>12. ASSUME /\ \A i \in DOMAIN sending : sending[i].kind = "ident"
              /\ \A i \in DOMAIN sending' : sending'[i].kind = "ident"
       PROVE  Issuing' /\ RepliesCounted' /\ RequestsInTransfer'
  <2>1. \A t \in Targets : /\ controller[t].command.state # "started"
                           /\ controller'[t].command.state # "started"
    BY <1>3, <1>10, <1>12
  <2>2. Issuing'
    BY <1>12, <2>1 DEF Issuing
  <2>3. RepliesCounted'
    <3> SUFFICES ASSUME NEW t \in Targets, InTransfer(t)', controller'[t].command.clean
                 PROVE  /\ controller'[t].replies =
                             Cardinality(controller'[t].command.awaited) + Unsent(controller[t].command)'
                        /\ ~ controller'[t].command.lost =>
                             controller'[t].command.awaited \subseteq {p.tag : p \in outstanding'}
      BY DEF RepliesCounted
    <3>1. Unsent(controller[t].command)' = Unsent(controller[t].command)
      BY <2>1 DEF Unsent
    <3> QED BY <3>1
  <2>4. RequestsInTransfer'
    <3>1. \A i \in DOMAIN sending' : ~ Transfer(sending'[i])
      BY <1>12 DEF Transfer
    <3> QED BY <3>1, Zenon DEF RequestsInTransfer
  <2> QED BY <2>2, <2>3, <2>4
<1>13. Issuing' /\ RepliesCounted' /\ RequestsInTransfer'
  BY <1>11, <1>12 DEF GoesOn
<1>14. PacketsInTransfer'
  <2> SUFFICES ASSUME NEW p \in outstanding', InTransfer(p.target)',
                      p.tag \in controller'[p.target].command.awaited,
                      NEW c, c = controller'[p.target].command
               PROVE  /\ c.lba <= p.lba /\ p.lba + p.count <= c.lba + c.sectors
                      /\ p.kind = "write" => p.from = p.lba - c.lba
    BY DEF PacketsInTransfer
  <2>1. PICK t \in Targets : t = p.target
    BY DEF Registry, Traffic, Packet
  <2>2. Onward(controller[t], controller'[t]) /\ Busy(controller'[t])
    BY <1>8, <2>1 DEF InTransfer, Busy
  <2>3. p.tag \in controller[t].command.awaited /\ InTransfer(t)
    BY <2>1, <2>2 DEF Onward, InTransfer, Transfer
  <2>4. p \in outstanding
    BY <1>6, <2>3
  <2>5. c.lba = controller[t].command.lba /\ c.sectors = controller[t].command.sectors
    BY <2>1, <2>2 DEF Onward
  <2> QED BY <2>1, <2>3, <2>4, <2>5 DEF Transfers, PacketsInTransfer
<1> QED BY <1>7, <1>13, <1>14 DEF Transfers

\* A controller that is as it was goes on.
LEMMA OnwardSelf == ASSUME NEW k PROVE Onward(k, k)
BY DEF Onward

\* The transport of a target's packets is a matter of that target: what becomes
\* of one controller, and of packets for its target, leaves the others counting
\* the replies they count.
LEMMA OneOnward ==
  ASSUME Registry, Transfers, Registry', GoesOn,
         NEW t \in Targets, NEW r,
         controller' = [controller EXCEPT ![t] = r],
         r = NoController \/ Onward(controller[t], r),
         (Busy(r) /\ Transfer(r.command) /\ r.command.clean) =>
           /\ r.replies = Cardinality(r.command.awaited) + Unsent(controller[t].command)
           /\ ~ r.command.lost =>
                r.command.awaited \subseteq {p.tag : p \in outstanding'},
         \A p \in outstanding \ outstanding' : p.target = t,
         \A p \in outstanding' : p \in outstanding \/ (p.tag > currentTag /\ p.tag <= currentTag'),
         currentTag' >= currentTag
  PROVE  Transfers'
<1>1. controller \in [Targets -> Controlled]
  BY DEF Registry, Registered
<1>2. controller'[t] = r /\ \A u \in Targets \ {t} : controller'[u] = controller[u]
  BY <1>1
<1>3. \A u \in Targets : controller'[u] = NoController \/ Onward(controller[u], controller'[u])
  BY <1>2, OnwardSelf
<1>4. ASSUME NEW u \in Targets, InTransfer(u)', controller'[u].command.clean
      PROVE  /\ controller'[u].replies =
                  Cardinality(controller'[u].command.awaited) + Unsent(controller[u].command)
             /\ ~ controller'[u].command.lost =>
                  controller'[u].command.awaited \subseteq {p.tag : p \in outstanding'}
  <2>1. CASE u = t
    BY <1>2, <1>4, <2>1 DEF InTransfer
  <2>2. CASE u # t
    <3>1. InTransfer(u) /\ controller[u].command.clean
      BY <1>2, <1>4, <2>2 DEF InTransfer
    <3>2. /\ controller[u].replies =
               Cardinality(controller[u].command.awaited) + Unsent(controller[u].command)
          /\ ~ controller[u].command.lost =>
               controller[u].command.awaited \subseteq {p.tag : p \in outstanding}
      BY <3>1 DEF Transfers, RepliesCounted
    <3>3. \A p \in outstanding : p.tag \in controller[u].command.awaited => p \in outstanding'
      BY <2>2 DEF Transfers, TagsNew
    <3> QED BY <1>2, <2>2, <3>2, <3>3
  <2> QED BY <2>1, <2>2
<1> HIDE DEF InTransfer
<1> QED BY <1>3, <1>4, TransfersKept

\* While tags last, each is one that was not used yet (next_tag).
LEMMA TagsGrow ==
  ASSUME Registry, PlainTransfers
  PROVE  /\ currentTag \in Nat
         /\ TagsLeft(1) => next_tag(currentTag) = currentTag + 1
         /\ TagsLeft(SearchCount + Len(controllers)) => AfterSearches >= currentTag
<1>1. /\ currentTag \in 1 .. MaxTag - 1 /\ SearchCount \in Nat /\ ~ TagsWrap
      /\ MaxTag \in Nat \ {0, 1}
  BY TagsTyped, ConstantsTyped DEF Registry, Traffic, PlainTransfers
<1>2. TagsLeft(1) => next_tag(currentTag) = currentTag + 1
  BY <1>1 DEF TagsLeft, next_tag
<1>3. ASSUME TagsLeft(SearchCount + Len(controllers)) PROVE AfterSearches >= currentTag
  <2>1. PICK n \in Nat : n = currentTag - 1 + SearchCount
    BY <1>1
  <2>2. PICK m \in Nat \ {0} : m = MaxTag - 1
    BY <1>1
  <2>3. Len(controllers) \in Nat
    BY LenProperties DEF Registry, Registered
  <2>4. n < m
    BY <1>1, <1>3, <2>1, <2>2, <2>3 DEF TagsLeft
  <2>5. n % m = n
    BY <2>4
  <2>6. AfterSearches = 1 + n
    BY <2>1, <2>2, <2>5 DEF AfterSearches
  <2> QED BY <1>1, <2>1, <2>6
<1> QED BY <1>1, <1>2, <1>3

\* The packets a command waits for are finitely many.
LEMMA AwaitedFinite ==
  ASSUME Registry, NEW t \in Targets
  PROVE  IsFiniteSet(controller[t].command.awaited)
<1>1. IsFiniteSet(Tags)
  BY ConstantsTyped, FS_Interval DEF Tags
<1>2. controller[t].command.awaited \subseteq Tags
  BY DEF Registry, Registered, Controlled, Sized, Command
<1> QED BY <1>1, <1>2, FS_Subset

\* When the work loop is free, no packet of a command is to be issued.
LEMMA NothingStarted ==
  ASSUME Registry, Transfers, \A i \in DOMAIN sending : sending[i].kind = "ident"
  PROVE  \A t \in Targets : /\ controller[t].command.state # "started"
                            /\ Unsent(controller[t].command) = 0
<1> SUFFICES ASSUME NEW t \in Targets, controller[t].command.state = "started"
             PROVE  FALSE
  BY DEF Unsent
<1>1. sending # <<>> /\ \A i \in DOMAIN sending : sending[i].kind = controller[t].command.kind
  BY DEF Transfers, Issuing
<1>2. 1 \in DOMAIN sending
  BY <1>1, TailOf DEF Registry, Traffic
<1>3. controller[t].command.kind \in Kinds
  BY DEF Registry, Registered, Controlled, Sized, Command
<1> QED BY <1>1, <1>2, <1>3 DEF Kinds

\* A known target that answers a search keeps its command, and one that is removed
\* has none (aoe_config_receive).
LEMMA HeardTransfers ==
  ASSUME Registry, Transfers, Registry', NEW t \in Targets, NEW p \in Ports,
         NEW ours \in BOOLEAN, Heard(t, p, ours)
  PROVE  Transfers'
<1>1. /\ t \in Known /\ sending = <<>>
      /\ UNCHANGED <<used, perPacket, currentTag, outstanding, sending, fakeTimer>>
  BY DEF Heard, WorkLoopFree
<1>2. \A i \in DOMAIN sending : sending[i].kind = "ident"
  BY <1>1
<1>3. GoesOn /\ currentTag' >= currentTag
  BY <1>1, <1>2, TagsTyped DEF GoesOn, Registry, Traffic
<1>4. CASE controller[t].registered /\ ~ours
  <2>1. remove_target(controller[t].number, controller)
    BY <1>4 DEF Heard
  <2>2. controller' = [controller EXCEPT ![t] = NoController]
    BY <1>1, <2>1, RemovedStays DEF Registry
  <2>3. ~ Busy(NoController)
    BY DEF Busy, NoController, NoCommand
  <2> QED BY <1>1, <1>3, <2>2, <2>3, OneOnward
<1>5. CASE ~ (controller[t].registered /\ ~ours)
  <2>1. PICK k \in Controlled : k = controller[t]
    BY DEF Registry, Registered
  <2>2. PICK r : r = [k EXCEPT !.ports = @ \cup {p}, !.silent = 0]
    OBVIOUS
  <2>3. r.command = k.command /\ r.replies = k.replies
    BY <2>2 DEF Controlled, Controller
  <2>4. controller' = [controller EXCEPT ![t] = r]
    BY <1>5, <2>1, <2>2 DEF Heard
  <2>5. Onward(k, r)
    BY <2>3 DEF Onward, Busy
  <2>6. (Busy(r) /\ Transfer(r.command) /\ r.command.clean) =>
          /\ r.replies = Cardinality(r.command.awaited) + Unsent(controller[t].command)
          /\ ~ r.command.lost => r.command.awaited \subseteq {q.tag : q \in outstanding'}
    BY <1>1, <2>1, <2>3 DEF Busy, Transfers, RepliesCounted, InTransfer
  <2> QED BY <1>1, <1>3, <2>1, <2>4, <2>5, <2>6, OneOnward
<1> QED BY <1>4, <1>5

\* An answer, of the transport or made up, counts for the command in progress.
LEMMA RespondTransfers ==
  ASSUME Registry, Transfers, Registry', NEW t \in Targets, NEW tag \in Tags,
         NEW payload \in Seq(Sector), NEW status \in {"ok", "error"}, NEW capacity \in Nat,
         Respond(t, tag, payload, status, capacity),
         sending = <<>>, sending' = sending, currentTag' = currentTag,
         outstanding' \subseteq outstanding,
         \A p \in outstanding \ outstanding' : p.target = t /\ p.tag = tag
  PROVE  Transfers'
<1>1. \A i \in DOMAIN sending : sending[i].kind = "ident"
  OBVIOUS
<1>2. GoesOn /\ currentTag' >= currentTag
  BY <1>1, TagsTyped DEF GoesOn, Registry, Traffic
<1>3. ~ Busy(NoController)
  BY DEF Busy, NoController, NoCommand
<1>4. PICK k \in Controlled : k = controller[t]
  BY DEF Registry, Registered
<1>5. /\ \A p \in outstanding \ outstanding' : p.target = t
      /\ \A p \in outstanding' : p \in outstanding
  OBVIOUS
<1>6. CASE t \notin Known
  <2>1. controller' = [controller EXCEPT ![t] = NoController]
    BY <1>6 DEF Respond, Registry, Registered
  <2> QED BY <1>2, <1>3, <1>5, <2>1, OneOnward
<1>7. CASE controller' = [controller EXCEPT ![t] = NoController]
  BY <1>2, <1>3, <1>5, <1>7, OneOnward
<1>8. CASE controller' = [controller EXCEPT ![t] = ata_response(k, tag, payload, status, capacity)]
  <2>1. PICK r : r = ata_response(k, tag, payload, status, capacity)
    OBVIOUS
  <2>2. Onward(k, r)
    BY <2>1, ResponseOnward
  <2>3. (Busy(r) /\ Transfer(r.command) /\ r.command.clean) =>
          /\ tag \in k.command.awaited
          /\ r.command.awaited = k.command.awaited \ {tag}
          /\ r.replies = k.replies - 1
    BY <2>1, ResponseOnward
  <2>4. ASSUME Busy(r), Transfer(r.command), r.command.clean
        PROVE  /\ r.replies = Cardinality(r.command.awaited) + Unsent(controller[t].command)
               /\ ~ r.command.lost =>
                    r.command.awaited \subseteq {p.tag : p \in outstanding'}
    <3>1. InTransfer(t) /\ controller[t].command.clean
      BY <1>4, <2>2, <2>4 DEF Onward, InTransfer, Transfer
    <3>2. /\ k.replies = Cardinality(k.command.awaited) + Unsent(k.command)
          /\ ~ k.command.lost =>
               k.command.awaited \subseteq {p.tag : p \in outstanding}
      BY <1>4, <3>1 DEF Transfers, RepliesCounted
    <3>3. IsFiniteSet(k.command.awaited)
      BY <1>4, AwaitedFinite
    <3>4. Cardinality(k.command.awaited \ {tag}) = Cardinality(k.command.awaited) - 1
      BY <2>3, <2>4, <3>3, FS_RemoveElement
    <3>5. Cardinality(k.command.awaited) \in Nat
      BY <3>3, FS_CardinalityType
    <3>6. Unsent(k.command) = 0
      BY <1>1, <1>4, NothingStarted
    <3>7. r.replies = Cardinality(r.command.awaited) + Unsent(controller[t].command)
      <4>1. PICK n \in Nat : n = Cardinality(k.command.awaited)
        BY <3>5
      <4>2. k.replies = n /\ Unsent(controller[t].command) = 0
        BY <1>4, <3>2, <3>6, <4>1
      <4>3. r.replies = n - 1 /\ Cardinality(r.command.awaited) = n - 1
        BY <2>3, <2>4, <3>4, <4>1, <4>2
      <4> QED BY <4>2, <4>3
    <3>8. ~ r.command.lost =>
            r.command.awaited \subseteq {p.tag : p \in outstanding'}
      <4>1. ~ r.command.lost => ~ k.command.lost
        BY <2>2, <2>4 DEF Onward
      <4> QED BY <2>3, <2>4, <3>2, <4>1
    <3> QED BY <3>7, <3>8
  <2>5. controller' = [controller EXCEPT ![t] = r] /\ Onward(controller[t], r)
    BY <1>4, <1>8, <2>1, <2>2
  <2> QED BY <1>2, <1>5, <2>4, <2>5, OneOnward
<1> QED BY <1>4, <1>6, <1>7, <1>8, RespondKeeps DEF Registry

\* The transport passes on the answer to a packet.
LEMMA AnswerTransfers ==
  ASSUME Registry, Transfers, Registry', NEW p \in outstanding, NEW status \in {"ok", "error"},
         NEW capacity \in Capacities, Answer(p, status, capacity)
  PROVE  Transfers'
<1>1. /\ sending = <<>> /\ outstanding' = outstanding \ {p}
      /\ Respond(p.target, p.tag, Payload(p, status), status, capacity)
      /\ sending' = sending /\ currentTag' = currentTag
  BY DEF Answer, WorkLoopFree
<1>2. p \in Packet /\ p.target \in Targets /\ p.tag \in Tags
  BY DEF Registry, Traffic, Packet
<1>3. Payload(p, status) \in Seq(Sector) /\ capacity \in Nat
  BY <1>2, PayloadTyped, ConstantsTyped
<1> QED BY <1>1, <1>2, <1>3, RespondTransfers

\* The answer FakeReturnTimer makes up, with tag 0.
LEMMA FakeReturnTransfers ==
  ASSUME Registry, Transfers, Registry', FakeReturnTimer
  PROVE  Transfers'
<1>1. /\ sending = <<>>
      /\ UNCHANGED <<used, perPacket, currentTag, outstanding, sending>>
  BY DEF FakeReturnTimer, WorkLoopFree
<1>2. CASE toFake = Nobody
  <2>1. controller' = controller
    BY <1>2 DEF FakeReturnTimer
  <2> QED BY <1>1, <2>1 DEF Transfers, TagsNew, Issuing, RepliesCounted, RequestsInTransfer,
                            PacketsInTransfer, InTransfer, Unsent
<1>3. CASE toFake # Nobody
  <2>1. PICK capacity \in Capacities : Respond(toFake, 0, <<>>, "ok", capacity)
    BY <1>3 DEF FakeReturnTimer
  <2>2. PICK t \in Targets : t = toFake
    BY <1>3, AgedTyped DEF Registry, Traffic
  <2>3. 0 \in Tags /\ capacity \in Nat /\ <<>> \in Seq(Sector)
    BY ConstantsTyped, EmptySeq
  <2> QED BY <1>1, <2>1, <2>2, <2>3, RespondTransfers
<1> QED BY <1>2, <1>3

\* A packet that is given up disturbs the command that waits for it.
LEMMA GiveUpTransfers ==
  ASSUME Registry, Transfers, Registry', NEW p \in outstanding, GiveUp(p)
  PROVE  Transfers'
<1>1. PICK t \in Targets : t = p.target
  BY DEF Registry, Traffic, Packet
<1>2. PICK k \in Controlled : k = controller[t]
  BY DEF Registry, Registered
<1>3. PICK r : r = losing(k, {p.tag})
  OBVIOUS
<1>4. /\ NotedOnly(k, r)
      /\ ~ r.command.lost => ~ k.command.lost /\ p.tag \notin k.command.awaited
  BY <1>3, LosingNotes
<1>9. controller' = [controller EXCEPT ![t] = r]
  BY <1>1, <1>2, <1>3 DEF GiveUp
<1>10. /\ outstanding' = outstanding \ {p} /\ sending' = sending /\ currentTag' = currentTag
  BY DEF GiveUp
<1>11. controller'[t] = r /\ \A u \in Targets \ {t} : controller'[u] = controller[u]
  BY <1>9 DEF Registry, Registered
<1>12. GoesOn
  BY <1>2, <1>4, <1>10, <1>11 DEF GoesOn, NotedOnly
<1>13. Onward(controller[t], r)
  BY <1>2, <1>4 DEF Onward, NotedOnly, Busy
<1>14. ASSUME Busy(r), Transfer(r.command), r.command.clean
       PROVE  /\ r.replies = Cardinality(r.command.awaited) + Unsent(controller[t].command)
              /\ ~ r.command.lost =>
                   r.command.awaited \subseteq {q.tag : q \in outstanding'}
  <2>1. InTransfer(t) /\ controller[t].command.clean
    BY <1>2, <1>4, <1>14 DEF Busy, InTransfer, Transfer, NotedOnly
  <2>2. /\ k.replies = Cardinality(k.command.awaited) + Unsent(k.command)
        /\ ~ k.command.lost => k.command.awaited \subseteq {q.tag : q \in outstanding}
    BY <1>2, <2>1 DEF Transfers, RepliesCounted
  <2> QED BY <1>2, <1>4, <1>10, <2>2 DEF NotedOnly
<1>15. currentTag' >= currentTag
  BY <1>10, TagsTyped DEF Registry, Traffic
<1> QED BY <1>1, <1>9, <1>10, <1>12, <1>13, <1>14, <1>15, OneOnward

\* A transfer whose time is up waits for its replies as before.
LEMMA TimerExpiresTransfers ==
  ASSUME Registry, Transfers, Registry', NEW t \in Targets, TimerExpires(t)
  PROVE  Transfers'
<1>1. PICK k \in Controlled : k = controller[t]
  BY DEF Registry, Registered
<1>2. PICK r : r = [k EXCEPT !.command.expired = TRUE]
  OBVIOUS
<1>3. NotedOnly(k, r) /\ r.command.lost = k.command.lost
  BY <1>2, ExpiredNotes
<1>4. /\ controller' = [controller EXCEPT ![t] = r]
      /\ outstanding' = outstanding /\ sending' = sending /\ currentTag' = currentTag
  BY <1>1, <1>2 DEF TimerExpires
<1>5. controller'[t] = r /\ \A u \in Targets \ {t} : controller'[u] = controller[u]
  BY <1>4 DEF Registry, Registered
<1>6. GoesOn /\ Onward(controller[t], r)
  BY <1>1, <1>3, <1>4, <1>5 DEF GoesOn, Onward, NotedOnly, Busy
<1>7. ASSUME Busy(r), Transfer(r.command), r.command.clean
      PROVE  /\ r.replies = Cardinality(r.command.awaited) + Unsent(controller[t].command)
             /\ ~ r.command.lost =>
                  r.command.awaited \subseteq {q.tag : q \in outstanding'}
  <2>1. InTransfer(t) /\ controller[t].command.clean
    BY <1>1, <1>3, <1>7 DEF Busy, InTransfer, Transfer, NotedOnly
  <2>2. /\ k.replies = Cardinality(k.command.awaited) + Unsent(k.command)
        /\ ~ k.command.lost => k.command.awaited \subseteq {q.tag : q \in outstanding}
    BY <1>1, <2>1 DEF Transfers, RepliesCounted
  <2> QED BY <1>1, <1>3, <1>4, <2>2 DEF NotedOnly
<1>8. currentTag' >= currentTag
  BY <1>4, TagsTyped DEF Registry, Traffic
<1> QED BY <1>4, <1>6, <1>7, <1>8, OneOnward

\* A command that takes too long is over (handleTimeout).
LEMMA CommandTimeoutTransfers ==
  ASSUME Registry, Transfers, Registry', NEW t \in Targets, CommandTimeout(t)
  PROVE  Transfers'
<1>1. /\ sending = <<>> /\ controller' = [controller EXCEPT ![t] = complete(controller[t], "error")]
      /\ sending' = sending /\ currentTag' = currentTag /\ outstanding' = outstanding
      /\ Busy(controller[t])
  BY DEF CommandTimeout, WorkLoopFree
<1>2. GoesOn /\ currentTag' >= currentTag
  BY <1>1, TagsTyped DEF GoesOn, Registry, Traffic
<1>3. PICK k \in Controlled : k = controller[t]
  BY DEF Registry, Registered
<1>4. PICK r : r = complete(k, "error")
  OBVIOUS
<1>5. r.command = [k.command EXCEPT !.state = "complete", !.result = "error",
                                 !.expired = FALSE, !.lost = FALSE]
  BY <1>4, CompleteTyped
<1>6. k.command \in Command
  BY DEF Controlled, Sized
<1>7. /\ r.command.kind = k.command.kind /\ r.command.lba = k.command.lba
      /\ r.command.sectors = k.command.sectors /\ r.command.chunk = k.command.chunk
      /\ r.command.awaited = k.command.awaited /\ r.command.clean = k.command.clean
      /\ r.command.state = "complete"
  BY <1>5, <1>6 DEF Command
<1>8. Onward(k, r) /\ ~ Busy(r)
  BY <1>1, <1>3, <1>7 DEF Onward, Busy
<1> QED BY <1>1, <1>2, <1>3, <1>4, <1>8, OneOnward

\* A state update removes a target or ages them, and has them identified.
LEMMA StateUpdateTransfers ==
  ASSUME Registry, Transfers, Registry', PlainTransfers, StateUpdateTimer
  PROVE  Transfers'
<1>1. /\ sending = <<>> /\ check_down_targets /\ TagsLeft(SearchCount + Len(controllers))
      /\ currentTag' = AfterSearches /\ sending' = Idents(controllers')
      /\ outstanding' = outstanding
  BY DEF StateUpdateTimer, WorkLoopFree
<1>2. currentTag' >= currentTag
  BY <1>1, TagsGrow
<1>3. GoesOn
  <2>1. controllers' \in Seq(Targets)
    BY DEF Registry, Registered
  <2>2. \A i \in DOMAIN sending' : sending'[i].kind = "ident"
    BY <1>1, <2>1, IdentsTyped
  <2> QED BY <1>1, <2>2 DEF GoesOn
<1>4. \A t \in Targets : controller'[t] = NoController \/ controller'[t] = Aged[t]
  <2>1. Aged \in [Targets -> Controlled] /\ Known \subseteq Targets
    BY AgedTyped DEF Registry
  <2>2. CASE controller' = Aged
    BY <2>2
  <2>3. CASE \E t \in Known : controller' = [Aged EXCEPT ![t] = NoController]
    BY <2>1, <2>3
  <2> QED BY <1>1, <2>2, <2>3, DownTargetsChecked DEF Registry
<1>5. \A t \in Targets : /\ Aged[t].command = controller[t].command
                         /\ Aged[t].replies = controller[t].replies
  <2> SUFFICES ASSUME NEW t \in Targets
               PROVE  Aged[t].command = controller[t].command /\ Aged[t].replies = controller[t].replies
    OBVIOUS
  <2>1. controller[t] \in Controller
    BY DEF Registry, Registered, Controlled
  <2> QED BY <2>1 DEF Aged, Controller
<1>6. \A t \in Targets : controller'[t] = NoController \/ Onward(controller[t], controller'[t])
  BY <1>4, <1>5 DEF Onward, Busy
<1>7. ASSUME NEW t \in Targets, InTransfer(t)', controller'[t].command.clean
      PROVE  /\ controller'[t].replies =
                  Cardinality(controller'[t].command.awaited) + Unsent(controller[t].command)
             /\ ~ controller'[t].command.lost =>
                  controller'[t].command.awaited \subseteq {p.tag : p \in outstanding'}
  <2>1. controller'[t] # NoController
    BY <1>7 DEF InTransfer, Busy, NoController, NoCommand
  <2>2. controller'[t].command = controller[t].command /\ controller'[t].replies = controller[t].replies
    BY <1>4, <1>5, <2>1
  <2>3. InTransfer(t) /\ controller[t].command.clean
    BY <1>7, <2>2 DEF InTransfer, Busy
  <2> QED BY <1>1, <2>2, <2>3 DEF Transfers, RepliesCounted
<1> HIDE DEF InTransfer
<1> QED BY <1>1, <1>2, <1>3, <1>6, <1>7, TransfersKept

\* A user's search takes tags, and nothing else.
LEMMA UserSearchTransfers ==
  ASSUME Registry, Transfers, Registry', PlainTransfers, UserSearch
  PROVE  Transfers'
<1>1. /\ TagsLeft(SearchCount + Len(controllers)) /\ currentTag' = AfterSearches
      /\ UNCHANGED <<controller, outstanding, sending>>
  BY DEF UserSearch
<1>2. currentTag' >= currentTag
  BY <1>1, TagsGrow
<1>3. GoesOn
  BY <1>1 DEF GoesOn
<1>4. \A t \in Targets : controller'[t] = NoController \/ Onward(controller[t], controller'[t])
  BY <1>1, OnwardSelf
<1>5. ASSUME NEW t \in Targets, InTransfer(t)', controller'[t].command.clean
      PROVE  /\ controller'[t].replies =
                  Cardinality(controller'[t].command.awaited) + Unsent(controller[t].command)
             /\ ~ controller'[t].command.lost =>
                  controller'[t].command.awaited \subseteq {p.tag : p \in outstanding'}
  <2>1. InTransfer(t) /\ controller[t].command.clean
    BY <1>1, <1>5 DEF InTransfer, Busy
  <2> QED BY <1>1, <2>1 DEF Transfers, RepliesCounted
<1> HIDE DEF InTransfer
<1> QED BY <1>1, <1>2, <1>3, <1>4, <1>5, TransfersKept

\* A packet that is sent has the tag handed out last, and goes for no other
\* (send_packet).
LEMMA TransmitNew ==
  ASSUME Registry, Transfers, NEW r \in Request, NEW tag, tag = currentTag + 1,
         currentTag' = tag, Transmit(r, tag)
  PROVE  /\ outstanding \subseteq outstanding'
         /\ \E p \in outstanding' : p.tag = tag /\ outstanding' = outstanding \cup {p}
              /\ p.target = r.target /\ p.kind = r.kind /\ p.lba = r.lba /\ p.count = r.count
              /\ p.from = IF r.kind = "write" THEN controller[r.target].command.actual ELSE 0
<1>1. currentTag \in Nat
  BY TagsTyped DEF Registry, Traffic
<1>2. \A q \in outstanding : q.tag \in Nat /\ q.tag <= currentTag
  BY ConstantsTyped DEF Registry, Traffic, Packet, Transfers, TagsNew
<1>3. {q \in outstanding : q.tag # tag} = outstanding
  BY <1>1, <1>2
<1>4. PICK p : outstanding' = {q \in outstanding : q.tag # tag} \cup {p}
         /\ p.tag = tag /\ p.target = r.target /\ p.kind = r.kind /\ p.lba = r.lba
         /\ p.count = r.count
         /\ p.from = IF r.kind = "write" THEN controller[r.target].command.actual ELSE 0
  <2>1. PICK o : outstanding' = {q \in outstanding : q.tag # tag} \cup
          {[target |-> r.target, kind |-> r.kind, lba |-> r.lba, count |-> r.count,
            from |-> IF r.kind = "write" THEN controller[r.target].command.actual ELSE 0,
            tag |-> tag, on |-> o]}
    BY DEF Transmit, append_write_data
  <2>2. PICK p :
          p = [target |-> r.target, kind |-> r.kind, lba |-> r.lba, count |-> r.count,
               from |-> IF r.kind = "write" THEN controller[r.target].command.actual ELSE 0,
               tag |-> tag, on |-> o]
    OBVIOUS
  <2>3. outstanding' = {q \in outstanding : q.tag # tag} \cup {p}
    BY <2>1, <2>2
  <2> QED BY <2>2, <2>3
<1> QED BY <1>3, <1>4

\* An IDENTIFY the driver sends of its own accord has a tag nobody waits for
\* (send_identify).
LEMMA IdentTransfers ==
  ASSUME Registry, Transfers, Registry', PlainTransfers, GoesOn,
         NEW r \in Request, r.target \in Known, r.kind = "ident", TagsLeft(1),
         NEW tag, tag = next_tag(currentTag), currentTag' = tag, NEW last \in BOOLEAN,
         controller' = [controller EXCEPT ![r.target] = sent(controller[r.target], r, tag, last)],
         Transmit(r, tag)
  PROVE  Transfers'
<1>1. currentTag \in Nat /\ tag = currentTag + 1
  BY TagsGrow
<1>2. PICK t \in Targets : t = r.target
  BY DEF Request
<1>3. PICK k \in Controlled : k = controller[t]
  BY DEF Registry, Registered
<1>4. PICK s : s = [k EXCEPT !.identTag = tag]
  OBVIOUS
<1>5. s.command = k.command /\ s.replies = k.replies
  BY <1>4 DEF Controlled, Controller
<1>6. controller' = [controller EXCEPT ![t] = s]
  BY <1>2, <1>3, <1>4 DEF sent
<1>7. PICK p : p.tag = tag /\ outstanding' = outstanding \cup {p}
  BY <1>1, TransmitNew
<1>8. Onward(controller[t], s)
  BY <1>3, <1>5 DEF Onward, Busy
<1>9. ASSUME Busy(s), Transfer(s.command), s.command.clean
      PROVE  /\ s.replies = Cardinality(s.command.awaited) + Unsent(controller[t].command)
             /\ ~ s.command.lost =>
                  s.command.awaited \subseteq {q.tag : q \in outstanding'}
  <2>1. InTransfer(t) /\ controller[t].command.clean
    BY <1>3, <1>5, <1>9 DEF InTransfer, Busy
  <2>2. /\ k.replies = Cardinality(k.command.awaited) + Unsent(k.command)
        /\ ~ k.command.lost => k.command.awaited \subseteq {q.tag : q \in outstanding}
    BY <1>3, <2>1 DEF Transfers, RepliesCounted
  <2> QED BY <1>3, <1>5, <1>7, <2>2
<1>10. /\ \A q \in outstanding \ outstanding' : q.target = t
       /\ \A q \in outstanding' : q \in outstanding \/ (q.tag > currentTag /\ q.tag <= currentTag')
       /\ currentTag' >= currentTag
  BY <1>1, <1>7
<1> QED BY <1>6, <1>8, <1>9, <1>10, OneOnward

\* A user's search identifies a target, while the work loop issues packets or not.
LEMMA UserIdentifyTransfers ==
  ASSUME Registry, Transfers, Registry', PlainTransfers, UserIdentify
  PROVE  Transfers'
<1>1. userSending \in Seq(Targets) /\ userSending # <<>>
      /\ \A i \in DOMAIN userSending : userSending[i] \in Known
  BY DEF UserIdentify, Registry, Traffic
<1>2. 1 \in DOMAIN userSending
  BY <1>1, TailOf
<1>3. PICK r \in Request : r = Idents(userSending)[1] /\ r.kind = "ident" /\ r.target \in Known
  BY <1>1, <1>2, IdentsTyped
<1>4. PICK tag : tag = next_tag(currentTag)
  OBVIOUS
<1>5. /\ TagsLeft(1) /\ currentTag' = tag /\ sending' = sending
      /\ controller' = [controller EXCEPT ![r.target] = sent(controller[r.target], r, tag, FALSE)]
      /\ Transmit(r, tag)
  BY <1>3, <1>4 DEF UserIdentify
<1>6. GoesOn
  <2>1. PICK k \in Controlled : k = controller[r.target]
    BY DEF Registry, Registered, Request
  <2>2. sent(k, r, tag, FALSE) = [k EXCEPT !.identTag = tag]
    BY <1>3 DEF sent
  <2>3. sent(k, r, tag, FALSE).command = k.command
    BY <2>2 DEF Controlled, Controller
  <2>4. \A t \in Targets : controller'[t].command = controller[t].command
    BY <1>5, <2>1, <2>3 DEF Registry, Registered
  <2> QED BY <1>5, <2>4 DEF GoesOn
<1> QED BY <1>3, <1>4, <1>5, <1>6, IdentTransfers

\* The packets that go with a port are missed by their commands, or the command
\* is cancelled (cg_disable_interface).
LEMMA PortDownTransfers ==
  ASSUME Registry, Transfers, Registry', NEW n \in Ports, PortDown(n)
  PROVE  Transfers'
<1>1. PICK purged : purged = {p.tag : p \in outstanding \ outstanding'}
  OBVIOUS
<1>2. /\ sending = <<>> /\ sending' = sending /\ currentTag' = currentTag
      /\ outstanding' \subseteq outstanding
      /\ controller' = [t \in Targets |->
           IF Hit(n) # {} /\ t = controllers[Lowest(Hit(n))]
             THEN cancel_command(controller[t]) ELSE losing(controller[t], purged)]
  BY <1>1 DEF PortDown, WorkLoopFree
<1>3. currentTag' >= currentTag /\ GoesOn
  BY <1>2, TagsTyped DEF Registry, Traffic, GoesOn
<1>4. ASSUME NEW t \in Targets
      PROVE  /\ Onward(controller[t], controller'[t])
             /\ (Busy(controller'[t]) /\ controller'[t].command.clean) =>
                  /\ controller'[t].replies = controller[t].replies
                  /\ controller'[t].command.awaited = controller[t].command.awaited
                  /\ ~ controller'[t].command.lost => purged \cap controller[t].command.awaited = {}
  <2>1. PICK k \in Controlled : k = controller[t]
    BY DEF Registry, Registered
  <2>2. k \in Controller /\ k.command \in Command
    BY DEF Controlled, Sized
  <2>3. CASE controller'[t] = cancel_command(k)
    <3>1. PICK r : r = complete(k, "error")
      OBVIOUS
    <3>2. r.command = [k.command EXCEPT !.state = "complete", !.result = "error",
                                 !.expired = FALSE, !.lost = FALSE]
      BY <3>1, CompleteTyped
    <3>3. /\ r.command.kind = k.command.kind /\ r.command.lba = k.command.lba
          /\ r.command.sectors = k.command.sectors /\ r.command.chunk = k.command.chunk
          /\ r.command.awaited = k.command.awaited /\ r.command.clean = k.command.clean
          /\ r.command.state = "complete"
      BY <2>2, <3>2 DEF Command
    <3>4. controller'[t] = IF Busy(k) THEN r ELSE k
      BY <2>3, <3>1 DEF cancel_command
    <3>5. CASE Busy(k)
      BY <2>1, <3>3, <3>4, <3>5 DEF Onward, Busy
    <3>6. CASE ~ Busy(k)
      BY <2>1, <3>4, <3>6, OnwardSelf
    <3> QED BY <3>5, <3>6
  <2>4. CASE controller'[t] = losing(k, purged)
    <3>1. PICK r : r = losing(k, purged)
      OBVIOUS
    <3>2. /\ NotedOnly(k, r)
          /\ ~ r.command.lost => purged \cap k.command.awaited = {} /\ ~ k.command.lost
      BY <3>1, LosingNotes
    <3> QED BY <2>1, <2>4, <3>1, <3>2 DEF NotedOnly, Onward, Busy
  <2> QED BY <1>2, <2>1, <2>3, <2>4
<1>5. ASSUME NEW t \in Targets, InTransfer(t)', controller'[t].command.clean
      PROVE  /\ controller'[t].replies =
                  Cardinality(controller'[t].command.awaited) + Unsent(controller[t].command)
             /\ ~ controller'[t].command.lost =>
                  controller'[t].command.awaited \subseteq {p.tag : p \in outstanding'}
  <2>1. Onward(controller[t], controller'[t]) /\ Busy(controller'[t])
    BY <1>4, <1>5 DEF InTransfer, Busy
  <2>2. InTransfer(t) /\ controller[t].command.clean
    BY <1>5, <2>1 DEF InTransfer, Onward, Transfer
  <2>3. /\ controller[t].replies =
             Cardinality(controller[t].command.awaited) + Unsent(controller[t].command)
        /\ ~ controller[t].command.lost =>
             controller[t].command.awaited \subseteq {p.tag : p \in outstanding}
    BY <2>2 DEF Transfers, RepliesCounted
  <2>4. /\ controller'[t].replies = controller[t].replies
        /\ controller'[t].command.awaited = controller[t].command.awaited
        /\ ~ controller'[t].command.lost => purged \cap controller[t].command.awaited = {}
        /\ ~ controller'[t].command.lost => ~ controller[t].command.lost
    BY <1>4, <1>5, <2>1 DEF Onward
  <2> QED BY <1>1, <2>3, <2>4
<1> HIDE DEF InTransfer
<1> QED BY <1>2, <1>3, <1>4, <1>5, TransfersKept

\* A port that comes back brings another packet size for the commands to come
\* (cg_enable_interface).
LEMMA PortUpTransfers ==
  ASSUME Registry, Transfers, Registry', NEW n \in Ports, NEW per \in SectorsPerPacket,
         PortUp(n, per)
  PROVE  Transfers'
<1>1. /\ sending' = sending /\ currentTag' = currentTag /\ outstanding' = outstanding
      /\ controller' = [t \in Targets |-> IF t \notin Known THEN controller[t]
           ELSE [controller[t] EXCEPT !.perPacket = per,
                   !.command.clean = @ /\ controller[t].perPacket = per]]
  BY DEF PortUp
<1>2. currentTag' >= currentTag
  <2>1. currentTag \in Nat
    BY TagsTyped DEF Registry, Traffic
  <2>2. currentTag' = currentTag
    BY <1>1, Zenon
  <2> QED BY <2>1, <2>2
<1>3. ASSUME NEW t \in Targets
      PROVE  /\ Onward(controller[t], controller'[t])
             /\ controller'[t].replies = controller[t].replies
             /\ controller'[t].command.awaited = controller[t].command.awaited
             /\ controller'[t].command.lost = controller[t].command.lost
             /\ controller'[t].command.actual = controller[t].command.actual
             /\ controller'[t].command.state = controller[t].command.state
  <2>1. PICK k \in Controlled : k = controller[t]
    BY DEF Registry, Registered
  <2>2. k \in Controller /\ k.command \in Command
    BY DEF Controlled, Sized
  <2>3. CASE t \notin Known
    BY <1>1, <2>3, OnwardSelf
  <2>4. CASE t \in Known
    <3>1. PICK c : c = [k.command EXCEPT !.clean = @ /\ k.perPacket = per]
      OBVIOUS
    <3>2. /\ c.kind = k.command.kind /\ c.lba = k.command.lba /\ c.sectors = k.command.sectors
          /\ c.chunk = k.command.chunk /\ c.awaited = k.command.awaited
          /\ c.state = k.command.state /\ c.actual = k.command.actual
          /\ c.lost = k.command.lost
      BY <2>2, <3>1 DEF Command
    <3>3. c.clean => k.command.clean
      BY <2>2, <3>1 DEF Command
    <3>4. PICK r : r = [k EXCEPT !.perPacket = per, !.command = c]
      OBVIOUS
    <3>5. r.command = c /\ r.replies = k.replies
      BY <2>2, <3>4 DEF Controller
    <3>6. controller'[t] = r
      BY <1>1, <2>1, <2>2, <2>4, <3>1, <3>4
    <3>7. Onward(k, r)
      BY <3>2, <3>3, <3>5 DEF Onward, Busy
    <3> QED BY <2>1, <3>2, <3>5, <3>6, <3>7
  <2> QED BY <2>3, <2>4
<1>4. GoesOn
  BY <1>1, <1>3 DEF GoesOn
<1>5. ASSUME NEW t \in Targets, InTransfer(t)', controller'[t].command.clean
      PROVE  /\ controller'[t].replies =
                  Cardinality(controller'[t].command.awaited) + Unsent(controller[t].command)
             /\ ~ controller'[t].command.lost =>
                  controller'[t].command.awaited \subseteq {p.tag : p \in outstanding'}
  <2>1. InTransfer(t) /\ controller[t].command.clean
    BY <1>3, <1>5 DEF InTransfer, Onward, Transfer, Busy
  <2>2. /\ controller[t].replies =
             Cardinality(controller[t].command.awaited) + Unsent(controller[t].command)
        /\ ~ controller[t].command.lost =>
             controller[t].command.awaited \subseteq {p.tag : p \in outstanding}
    BY <2>1 DEF Transfers, RepliesCounted
  <2> QED BY <1>1, <1>3, <2>2
<1> HIDE DEF InTransfer
<1> QED BY <1>1, <1>2, <1>3, <1>4, <1>5, TransfersKept

\* What is known of a controller once a packet of its command is sent.
SentPacket(k, r, tag, rest, s) ==
  /\ s.replies = k.replies /\ s.perPacket = k.perPacket
  /\ s.baseTag = IF k.baseTag = 0 THEN tag ELSE k.baseTag
  /\ s.command.kind = k.command.kind /\ s.command.lba = k.command.lba
  /\ s.command.sectors = k.command.sectors /\ s.command.chunk = k.command.chunk
  /\ s.command.data = k.command.data /\ s.command.failed = k.command.failed
  /\ s.command.clean = k.command.clean /\ s.command.lost = k.command.lost
  /\ s.command.awaited = IF r.kind = "faked" THEN k.command.awaited
                         ELSE k.command.awaited \cup {tag}
  /\ s.command.actual = IF r.kind = "write"
       THEN k.command.actual + MIN(k.command.chunk, k.command.sectors - k.command.actual)
       ELSE k.command.actual
  /\ s.command.state = IF rest # <<>> THEN k.command.state
                       ELSE IF r.kind = "identify" THEN "data" ELSE "status"

\* A packet of a command that is sent is one more to wait for, and a write goes on
\* in its buffer (issueCommand, append_write_data).
LEMMA SentCommand ==
  ASSUME NEW k \in Controlled, NEW r \in Request, r.kind # "ident", NEW tag \in Tags,
         NEW rest, NEW s, s = sent(k, r, tag, rest = <<>>)
  PROVE  SentPacket(k, r, tag, rest, s)
<1>1. k \in Controller /\ k.command \in Command
  BY DEF Controlled, Sized
<1>2. PICK base : base = IF k.baseTag = 0 THEN tag ELSE k.baseTag
  OBVIOUS
<1>3. PICK actual : actual = IF r.kind = "write"
         THEN k.command.actual + MIN(k.command.chunk, k.command.sectors - k.command.actual)
         ELSE k.command.actual
  OBVIOUS
<1>4. PICK awaited : awaited = IF r.kind = "faked" THEN k.command.awaited
                               ELSE k.command.awaited \cup {tag}
  OBVIOUS
<1>5. PICK state : state = IF rest # <<>> THEN k.command.state
                           ELSE IF r.kind = "identify" THEN "data" ELSE "status"
  OBVIOUS
<1>6. s = [k EXCEPT !.baseTag = base, !.command.actual = actual,
                    !.command.awaited = awaited, !.command.state = state]
  BY <1>2, <1>3, <1>4, <1>5 DEF sent
<1>7. PICK c : c = [k.command EXCEPT !.actual = actual, !.awaited = awaited, !.state = state]
  OBVIOUS
<1>8. s = [k EXCEPT !.baseTag = base, !.command = c]
  BY <1>1, <1>6, <1>7 DEF Controller
<1>9. /\ c.kind = k.command.kind /\ c.lba = k.command.lba
      /\ c.sectors = k.command.sectors /\ c.chunk = k.command.chunk
      /\ c.data = k.command.data /\ c.failed = k.command.failed
      /\ c.clean = k.command.clean /\ c.lost = k.command.lost
      /\ c.awaited = awaited /\ c.actual = actual /\ c.state = state
  BY <1>1, <1>7 DEF Command
<1>10. s.command = c /\ s.replies = k.replies /\ s.perPacket = k.perPacket /\ s.baseTag = base
  BY <1>1, <1>8 DEF Controller
<1> QED BY <1>2, <1>3, <1>4, <1>5, <1>9, <1>10 DEF SentPacket

\* What is issued while a command is started is that command's.
LEMMA OneIssued ==
  ASSUME Registry, Transfers, sending # <<>>
  PROVE  /\ Head(sending) = sending[1] /\ Head(sending) \in Request /\ 1 \in DOMAIN sending
         /\ Tail(sending) \in Seq(Request)
         /\ \A i \in DOMAIN Tail(sending) : i + 1 \in DOMAIN sending
                                            /\ Tail(sending)[i] = sending[i + 1]
         /\ sending[1].kind = "ident" =>
              \A i \in DOMAIN sending : sending[i].kind = "ident"
         /\ sending[1].kind # "ident" =>
              LET t == sending[1].target IN
              /\ t \in Targets /\ controller[t].command.state = "started"
              /\ \A i \in DOMAIN sending : /\ sending[i].target = t
                                           /\ sending[i].kind = controller[t].command.kind
              /\ \A u \in Targets \ {t} : controller[u].command.state # "started"
<1>1. /\ Head(sending) = sending[1] /\ Head(sending) \in Request /\ 1 \in DOMAIN sending
      /\ Tail(sending) \in Seq(Request)
      /\ \A i \in DOMAIN Tail(sending) : i + 1 \in DOMAIN sending
                                         /\ Tail(sending)[i] = sending[i + 1]
  BY TailOf DEF Registry, Traffic
<1>2. \A i \in DOMAIN sending : sending[i].target \in Targets
  BY AgedTyped DEF Registry, Traffic
<1>3. \A t \in Targets : controller[t].command.state = "started" =>
        \A i \in DOMAIN sending : /\ sending[i].target = t
                                  /\ sending[i].kind = controller[t].command.kind
  BY DEF Transfers, Issuing
<1>4. \A i \in DOMAIN sending : sending[i].kind # "ident" =>
        controller[sending[i].target].command.state = "started"
  BY DEF Transfers, Issuing
<1>5. \A t \in Targets : controller[t].command.kind # "ident"
  <2>1. \A t \in Targets : controller[t].command.kind \in Kinds
    BY DEF Registry, Registered, Controlled, Sized, Command
  <2> QED BY <2>1 DEF Kinds
<1>6. ASSUME sending[1].kind = "ident"
      PROVE  \A i \in DOMAIN sending : sending[i].kind = "ident"
  BY <1>1, <1>2, <1>3, <1>4, <1>5, <1>6
<1>7. ASSUME sending[1].kind # "ident", NEW t, t = sending[1].target
      PROVE  /\ t \in Targets /\ controller[t].command.state = "started"
             /\ \A i \in DOMAIN sending : /\ sending[i].target = t
                                          /\ sending[i].kind = controller[t].command.kind
             /\ \A u \in Targets \ {t} : controller[u].command.state # "started"
  BY <1>1, <1>2, <1>3, <1>4, <1>7
<1> QED BY <1>1, <1>6, <1>7

\* What SendNext does when it issues a packet of the command that was started.
LEMMA CommandSent ==
  ASSUME Registry, Transfers, PlainTransfers, SendNext, sending[1].kind # "ident",
         NEW r, r = sending[1], NEW t, t = r.target, NEW k, k = controller[t],
         NEW s, s = controller'[t], NEW tag, tag = currentTag'
  PROVE  /\ r \in Request /\ t \in Targets /\ k \in Controlled
         /\ r.kind = k.command.kind /\ k.command.state = "started"
         /\ currentTag \in Nat /\ tag = currentTag + 1 /\ tag \in Tags
         /\ \A u \in Targets \ {t} : /\ controller'[u] = controller[u]
                                     /\ controller[u].command.state # "started"
         /\ sending # <<>> /\ sending' = Tail(sending)
         /\ s = sent(k, r, tag, sending' = <<>>)
         /\ \A i \in DOMAIN sending' : /\ i + 1 \in DOMAIN sending
                                       /\ sending'[i] = sending[i + 1]
                                       /\ sending'[i].target = t
                                       /\ sending'[i].kind = k.command.kind
         /\ r.kind = "faked" => outstanding' = outstanding
         /\ r.kind # "faked" =>
              \E p \in outstanding' : p.tag = tag /\ outstanding' = outstanding \cup {p}
                /\ p.target = t /\ p.kind = r.kind /\ p.lba = r.lba /\ p.count = r.count
                /\ p.from = IF r.kind = "write" THEN k.command.actual ELSE 0
<1>1. sending # <<>>
  BY DEF SendNext
<1>2. r = Head(sending) /\ r \in Request /\ Tail(sending) \in Seq(Request)
  BY <1>1, OneIssued
<1>3. /\ t \in Targets /\ k.command.state = "started"
      /\ \A i \in DOMAIN sending : sending[i].target = t /\ sending[i].kind = k.command.kind
      /\ \A u \in Targets \ {t} : controller[u].command.state # "started"
  BY <1>1, OneIssued
<1>4. 1 \in DOMAIN sending /\ \A i \in DOMAIN Tail(sending) :
        i + 1 \in DOMAIN sending /\ Tail(sending)[i] = sending[i + 1]
  BY <1>1, OneIssued
<1>5. k \in Controlled /\ controller \in [Targets -> Controlled]
  BY <1>3 DEF Registry, Registered
<1>6. /\ TagsLeft(1) /\ tag = next_tag(currentTag) /\ sending' = Tail(sending)
      /\ controller' = [controller EXCEPT ![t] = sent(k, r, tag, Tail(sending) = <<>>)]
      /\ \/ r.kind = "faked" /\ UNCHANGED outstanding
         \/ r.kind # "faked" /\ Transmit(r, tag)
  BY <1>2 DEF SendNext
<1>7. currentTag \in Nat /\ tag = currentTag + 1 /\ tag \in Tags
  <2>1. tag \in 1 .. MaxTag - 1
    BY <1>6, TagsTyped DEF Registry, Traffic
  <2> QED BY <1>6, <2>1, TagsGrow, ConstantsTyped
<1>8. r.kind # "faked" =>
        \E p \in outstanding' : p.tag = tag /\ outstanding' = outstanding \cup {p}
          /\ p.target = t /\ p.kind = r.kind /\ p.lba = r.lba /\ p.count = r.count
          /\ p.from = IF r.kind = "write" THEN k.command.actual ELSE 0
  BY <1>2, <1>6, <1>7, TransmitNew
<1>9. /\ s = sent(k, r, tag, sending' = <<>>)
      /\ \A u \in Targets \ {t} : controller'[u] = controller[u]
  BY <1>3, <1>5, <1>6
<1>10. \A i \in DOMAIN sending' : /\ i + 1 \in DOMAIN sending
                                  /\ sending'[i] = sending[i + 1]
                                  /\ sending'[i].target = t
                                  /\ sending'[i].kind = k.command.kind
  BY <1>3, <1>4, <1>6
<1>11. r.kind = k.command.kind
  BY <1>3, <1>4
<1> QED
  BY <1>1, <1>2, <1>3, <1>5, <1>6, <1>7, <1>8, <1>9, <1>10, <1>11

\* Request r, the i-th to be issued, addresses its part of command c.
PartOf(c, r, i) ==
  /\ c.lba <= r.lba /\ r.lba + r.count <= c.lba + c.sectors
  /\ r.kind = "write" => r.lba = c.lba + c.actual + (i - 1) * c.chunk

\* Where a packet to be issued belongs in its command (increment_address).
LEMMA RequestPlaced ==
  ASSUME Transfers, NEW i \in DOMAIN sending, NEW r, r = sending[i], Transfer(r),
         NEW c, c = controller[r.target].command
  PROVE  PartOf(c, r, i)
BY DEF Transfers, RequestsInTransfer, PartOf

\* Issuing the packets of a command one by one keeps them in the command, each
\* with the data of its address, and counts them as replies to come.
LEMMA SendNextTransfers ==
  ASSUME Registry, Transfers, Registry', PlainTransfers, SendNext
  PROVE  Transfers'
<1>1. sending # <<>>
  BY DEF SendNext
<1>2. CASE sending[1].kind = "ident"
  <2>1. PICK r \in Request : r = Head(sending) /\ r.kind = "ident" /\ r.target \in Known
    BY <1>1, <1>2, OneIssued DEF Registry, Traffic
  <2>2. PICK tag : tag = next_tag(currentTag)
    OBVIOUS
  <2>3. PICK last \in BOOLEAN : last = (Tail(sending) = <<>>)
    OBVIOUS
  <2>4. /\ TagsLeft(1) /\ currentTag' = tag /\ sending' = Tail(sending)
        /\ controller' = [controller EXCEPT ![r.target] = sent(controller[r.target], r, tag, last)]
        /\ Transmit(r, tag)
    BY <2>1, <2>2, <2>3 DEF SendNext
  <2>5. GoesOn
    BY <1>1, <1>2, <2>4, OneIssued DEF GoesOn
  <2> QED BY <2>1, <2>2, <2>4, <2>5, IdentTransfers
<1>3. CASE sending[1].kind # "ident"
  <2>1. PICK r : r = sending[1]
    OBVIOUS
  <2>2. PICK t : t = r.target
    OBVIOUS
  <2>3. PICK k : k = controller[t]
    OBVIOUS
  <2>4. PICK s : s = controller'[t]
    OBVIOUS
  <2>5. PICK tag : tag = currentTag'
    OBVIOUS
  <2>6. /\ r \in Request /\ t \in Targets /\ k \in Controlled
        /\ r.kind = k.command.kind /\ k.command.state = "started"
        /\ currentTag \in Nat /\ tag = currentTag + 1 /\ tag \in Tags
        /\ \A u \in Targets \ {t} : /\ controller'[u] = controller[u]
                                    /\ controller[u].command.state # "started"
        /\ s = sent(k, r, tag, sending' = <<>>)
        /\ \A i \in DOMAIN sending' : /\ i + 1 \in DOMAIN sending
                                      /\ sending'[i] = sending[i + 1]
                                      /\ sending'[i].target = t
                                      /\ sending'[i].kind = k.command.kind
    BY <1>3, <2>1, <2>2, <2>3, <2>4, <2>5, CommandSent
  <2>7. /\ r.kind = "faked" => outstanding' = outstanding
        /\ r.kind # "faked" =>
             \E p \in outstanding' : p.tag = tag /\ outstanding' = outstanding \cup {p}
               /\ p.target = t /\ p.kind = r.kind /\ p.lba = r.lba /\ p.count = r.count
               /\ p.from = IF r.kind = "write" THEN k.command.actual ELSE 0
    BY <1>3, <2>1, <2>2, <2>3, <2>4, <2>5, CommandSent
  <2>9. /\ s.replies = k.replies
        /\ s.command.kind = k.command.kind /\ s.command.lba = k.command.lba
        /\ s.command.sectors = k.command.sectors /\ s.command.chunk = k.command.chunk
        /\ s.command.clean = k.command.clean /\ s.command.lost = k.command.lost
        /\ s.command.awaited = IF r.kind = "faked" THEN k.command.awaited
                               ELSE k.command.awaited \cup {tag}
        /\ s.command.actual = IF r.kind = "write"
             THEN k.command.actual + MIN(k.command.chunk, k.command.sectors - k.command.actual)
             ELSE k.command.actual
        /\ s.command.state = IF sending' # <<>> THEN "started"
                             ELSE IF r.kind = "identify" THEN "data" ELSE "status"
    <3>1. /\ k \in Controlled /\ r \in Request /\ tag \in Tags
          /\ s = sent(k, r, tag, sending' = <<>>) /\ r.kind # "ident"
      BY <1>3, <2>1, <2>6
    <3>2. SentPacket(k, r, tag, sending', s)
      BY <3>1, SentCommand
    <3> QED BY <2>6, <3>2 DEF SentPacket
  <2>10. sending' \in Seq(Request) /\ sending \in Seq(Request) /\ 1 \in DOMAIN sending
    BY <1>1, OneIssued DEF Registry, Traffic
  <2>11. \A p \in outstanding' : p \in outstanding \/ (p.tag = tag /\ p.target = t)
    BY <2>7
  <2>12. outstanding \subseteq outstanding'
    BY <2>7
  <2>13. /\ \A p \in outstanding : p.tag \in Nat /\ p.tag <= currentTag
         /\ \A u \in Targets : \A n \in controller[u].command.awaited : n \in Nat /\ n <= currentTag
    <3>1. \A u \in Targets : controller[u].command.awaited \subseteq Nat
      BY ConstantsTyped DEF Registry, Registered, Controlled, Sized, Command
    <3>2. \A p \in outstanding : p.tag \in Nat
      BY ConstantsTyped DEF Registry, Traffic, Packet
    <3> QED BY <3>1, <3>2 DEF Transfers, TagsNew
  <2>14. \A u \in Targets : \A n \in controller'[u].command.awaited :
           n \in controller[u].command.awaited \/ (n = tag /\ u = t)
    <3>1. s.command.awaited \subseteq k.command.awaited \cup {tag}
      BY <2>9
    <3>2. \A u \in Targets \ {t} : controller'[u] = controller[u]
      BY <2>6
    <3> QED BY <2>3, <2>4, <3>1, <3>2
  <2>15. tag > currentTag /\ tag \notin k.command.awaited
    BY <2>3, <2>6, <2>13
  <2>16. TagsNew'
    <3>1. \A p \in outstanding' : p.tag <= currentTag'
      BY <2>5, <2>6, <2>11, <2>13
    <3>2. \A u \in Targets : \A n \in controller'[u].command.awaited : n <= currentTag'
      BY <2>5, <2>6, <2>13, <2>14
    <3>3. \A p \in outstanding', u \in Targets :
            p.tag \in controller'[u].command.awaited => p.target = u
      <4> SUFFICES ASSUME NEW p \in outstanding', NEW u \in Targets,
                          p.tag \in controller'[u].command.awaited
                   PROVE  p.target = u
        OBVIOUS
      <4>1. CASE p \in outstanding
        <5>1. p.tag # tag
          BY <2>6, <2>13, <4>1
        <5>2. p.tag \in controller[u].command.awaited
          BY <2>14, <5>1
        <5> QED BY <4>1, <5>2 DEF Transfers, TagsNew
      <4>2. CASE p.tag = tag /\ p.target = t
        <5>1. tag \notin controller[u].command.awaited
          BY <2>6, <2>13
        <5> QED BY <2>14, <4>2, <5>1
      <4> QED BY <2>11, <4>1, <4>2
    <3> QED BY <3>1, <3>2, <3>3 DEF TagsNew
  <2>17. /\ \A u \in Targets : controller'[u].command.state = "started" => u = t
         /\ s.command.state = "started" <=> sending' # <<>>
    BY <2>6, <2>9
  <2>18. Issuing'
    <3>1. \A u \in Targets : controller'[u].command.state = "started" =>
            /\ sending' # <<>>
            /\ \A i \in DOMAIN sending' : /\ sending'[i].target = u
                                          /\ sending'[i].kind = controller'[u].command.kind
      BY <2>4, <2>6, <2>9, <2>17
    <3>2. \A i \in DOMAIN sending' : controller'[sending'[i].target].command.state = "started"
      <4> SUFFICES ASSUME NEW i \in DOMAIN sending'
                   PROVE  controller'[sending'[i].target].command.state = "started"
        OBVIOUS
      <4>1. sending' # <<>>
        OBVIOUS
      <4> QED BY <2>4, <2>6, <2>17, <4>1
    <3> QED BY <3>1, <3>2 DEF Issuing
  <2>19. RepliesCounted'
    <3> SUFFICES ASSUME NEW u \in Targets, InTransfer(u)', controller'[u].command.clean
                 PROVE  /\ controller'[u].replies =
                             Cardinality(controller'[u].command.awaited) + Unsent(controller[u].command)'
                        /\ ~ controller'[u].command.lost =>
                             controller'[u].command.awaited \subseteq {p.tag : p \in outstanding'}
      BY DEF RepliesCounted
    <3>1. CASE u # t
      <4>1. controller'[u] = controller[u] /\ controller[u].command.state # "started"
        BY <2>6, <3>1
      <4>2. Unsent(controller[u].command)' = 0 /\ Unsent(controller[u].command) = 0
        BY <4>1 DEF Unsent
      <4>3. InTransfer(u) /\ controller[u].command.clean
        BY <4>1 DEF InTransfer, Busy
      <4>4. /\ controller[u].replies =
                 Cardinality(controller[u].command.awaited) + Unsent(controller[u].command)
            /\ ~ controller[u].command.lost =>
                 controller[u].command.awaited \subseteq {p.tag : p \in outstanding}
        BY <4>3 DEF Transfers, RepliesCounted
      <4> QED BY <2>12, <4>1, <4>2, <4>4
    <3>2. CASE u = t
      <4>1. InTransfer(t) /\ k.command.clean /\ Transfer(k.command)
        BY <2>3, <2>4, <2>6, <2>9, <3>2 DEF InTransfer, Busy, Transfer
      <4>2. /\ k.replies = Cardinality(k.command.awaited) + Len(sending)
            /\ ~ k.command.lost =>
                 k.command.awaited \subseteq {p.tag : p \in outstanding}
        BY <2>3, <2>6, <4>1 DEF Transfers, RepliesCounted, Unsent
      <4>3. s.command.awaited = k.command.awaited \cup {tag}
        BY <2>6, <2>9, <4>1 DEF Transfer
      <4>4. /\ Cardinality(s.command.awaited) = Cardinality(k.command.awaited) + 1
            /\ Cardinality(k.command.awaited) \in Nat
        <5>1. IsFiniteSet(k.command.awaited)
          BY <2>3, <2>6, AwaitedFinite
        <5> QED BY <2>15, <4>3, <5>1, FS_AddElement, FS_CardinalityType
      <4>5. Len(sending') = Len(sending) - 1 /\ Len(sending) \in Nat
        <5>1. sending' = Tail(sending)
          BY DEF SendNext
        <5> QED BY <1>1, <2>10, <5>1, HeadTailProperties, LenProperties
      <4>6. Unsent(controller[u].command)' = Len(sending')
        <5>1. CASE sending' = <<>>
          BY <5>1, EmptySeq DEF Unsent
        <5>2. CASE sending' # <<>>
          BY <2>4, <2>17, <3>2, <5>2 DEF Unsent
        <5> QED BY <5>1, <5>2
      <4>7. \E p \in outstanding' : p.tag = tag
        BY <2>6, <2>7, <4>1 DEF Transfer
      <4>8. ~ s.command.lost =>
              s.command.awaited \subseteq {p.tag : p \in outstanding'}
        BY <2>9, <2>12, <4>2, <4>3, <4>7
      <4>9. s.replies = Cardinality(s.command.awaited) + Len(sending')
        <5>1. PICK n \in Nat : n = Cardinality(k.command.awaited)
          BY <4>4
        <5>2. PICK m \in Nat : m = Len(sending)
          BY <4>5
        <5>3. s.replies = n + m /\ Cardinality(s.command.awaited) = n + 1 /\ Len(sending') = m - 1
          BY <2>9, <4>2, <4>4, <4>5, <5>1, <5>2
        <5> QED BY <5>3
      <4> QED BY <2>4, <3>2, <4>6, <4>8, <4>9
    <3> QED BY <3>1, <3>2
  <2>20. RequestsInTransfer'
    <3> SUFFICES ASSUME NEW i \in DOMAIN sending', Transfer(sending'[i])
                 PROVE  /\ s.command.lba <= sending'[i].lba
                        /\ sending'[i].lba + sending'[i].count <= s.command.lba + s.command.sectors
                        /\ sending'[i].kind = "write" =>
                             sending'[i].lba = s.command.lba + s.command.actual
                                                 + (i - 1) * s.command.chunk
      BY <2>4, <2>6 DEF RequestsInTransfer, Transfer
    <3>1. /\ i + 1 \in DOMAIN sending /\ sending'[i] = sending[i + 1]
          /\ sending'[i].target = t /\ sending'[i].kind = k.command.kind
      BY <2>6
    <3>2. i \in Nat \ {0} /\ 2 \in DOMAIN sending
      BY <2>10, <3>1, LenProperties
    <3>3. PICK q \in Request : q = sending[i + 1]
      BY <2>10, <3>1, ElementOfSeq, LenProperties
    <3>4. /\ k.command.lba <= q.lba /\ q.lba + q.count <= k.command.lba + k.command.sectors
          /\ q.kind = "write" =>
               q.lba = k.command.lba + k.command.actual + (i + 1 - 1) * k.command.chunk
      <4>1. Transfer(q) /\ k.command = controller[q.target].command
        BY <2>3, <3>1, <3>3
      <4>2. PICK j \in DOMAIN sending : j = i + 1
        BY <3>1
      <4>3. /\ k.command.lba <= q.lba /\ q.lba + q.count <= k.command.lba + k.command.sectors
            /\ q.kind = "write" =>
                 q.lba = k.command.lba + k.command.actual + (j - 1) * k.command.chunk
        <5>1. PartOf(k.command, q, j)
          BY <3>3, <4>1, <4>2, RequestPlaced
        <5> QED BY <5>1 DEF PartOf
      <4>4. j - 1 = i + 1 - 1
        BY <3>2, <4>2
      <4> QED BY <4>3, <4>4, Zenon
    <3>5. k.command.lba \in Nat /\ k.command.actual \in Nat /\ k.command.chunk \in Nat
          /\ k.command.sectors \in Nat
      BY <2>6 DEF Controlled, Sized, Command
    <3>6. ASSUME q.kind = "write"
          PROVE  q.lba = s.command.lba + s.command.actual + (i - 1) * s.command.chunk
      <4>1. PICK u \in Request : u = sending[2]
        BY <2>10, <3>2, ElementOfSeq, LenProperties
      <4>2. 1 \in DOMAIN sending' /\ u.target = t /\ u.kind = "write"
        <5>1. 1 \in DOMAIN sending'
          BY <2>10, <3>2, LenProperties
        <5> QED BY <2>6, <3>1, <3>3, <3>6, <4>1, <5>1
      <4>3. /\ u.lba + u.count <= k.command.lba + k.command.sectors
            /\ u.lba = k.command.lba + k.command.actual + (2 - 1) * k.command.chunk
        BY <2>3, <3>2, <4>1, <4>2, RequestPlaced DEF Transfer, PartOf
      <4>4. u.count \in Nat /\ u.lba \in Nat
        BY DEF Request
      <4>5. k.command.chunk <= k.command.sectors - k.command.actual
        BY <3>5, <4>3, <4>4
      <4>6. s.command.actual = k.command.actual + k.command.chunk
        BY <2>6, <2>9, <3>1, <3>3, <3>5, <3>6, <4>5 DEF MIN
      <4>7. ASSUME NEW l \in Nat, NEW a \in Nat, NEW b \in Nat
            PROVE  l + a + (i + 1 - 1) * b = l + (a + b) + (i - 1) * b
        BY <3>2
      <4>8. q.lba = k.command.lba + k.command.actual + (i + 1 - 1) * k.command.chunk
        BY <3>4, <3>6
      <4>9. q.lba = k.command.lba + (k.command.actual + k.command.chunk)
                      + (i - 1) * k.command.chunk
        BY <3>5, <4>7, <4>8
      <4> QED BY <2>9, <4>6, <4>9
    <3> QED BY <2>9, <3>1, <3>3, <3>4, <3>6
  <2>21. PacketsInTransfer'
    <3> SUFFICES ASSUME NEW p \in outstanding', InTransfer(p.target)',
                        p.tag \in controller'[p.target].command.awaited,
                        NEW c, c = controller'[p.target].command
                 PROVE  /\ c.lba <= p.lba /\ p.lba + p.count <= c.lba + c.sectors
                        /\ p.kind = "write" => p.from = p.lba - c.lba
      BY DEF PacketsInTransfer
    <3>1. CASE p \in outstanding
      <4>1. PICK u \in Targets : u = p.target
        BY <3>1 DEF Registry, Traffic, Packet
      <4>2. p.tag # tag /\ p.tag \in controller[u].command.awaited
        BY <2>6, <2>13, <2>14, <3>1, <4>1
      <4>3. /\ InTransfer(u) /\ c.lba = controller[u].command.lba
            /\ c.sectors = controller[u].command.sectors
        BY <2>3, <2>4, <2>6, <2>9, <4>1 DEF InTransfer, Busy, Transfer
      <4> QED BY <3>1, <4>1, <4>2, <4>3 DEF Transfers, PacketsInTransfer
    <3>2. CASE p \notin outstanding
      <4>1. /\ p.target = t /\ p.kind = r.kind /\ p.lba = r.lba /\ p.count = r.count
            /\ p.from = IF r.kind = "write" THEN k.command.actual ELSE 0
        BY <2>7, <3>2
      <4>2. Transfer(r)
        BY <2>4, <2>6, <2>9, <4>1 DEF InTransfer, Transfer
      <4>3. /\ k.command.lba <= r.lba /\ r.lba + r.count <= k.command.lba + k.command.sectors
            /\ r.kind = "write" =>
                 r.lba = k.command.lba + k.command.actual + (1 - 1) * k.command.chunk
        BY <2>1, <2>2, <2>3, <2>10, <4>2 DEF Transfers, RequestsInTransfer
      <4>4. k.command.lba \in Nat /\ k.command.actual \in Nat /\ k.command.chunk \in Nat
        BY <2>6 DEF Controlled, Sized, Command
      <4>5. (1 - 1) * k.command.chunk = 0
        BY <4>4
      <4>6. r.kind = "write" => r.lba - k.command.lba = k.command.actual
        BY <4>3, <4>4, <4>5
      <4> QED BY <2>4, <2>9, <4>1, <4>3, <4>6
    <3> QED BY <3>1, <3>2
  <2> QED BY <2>16, <2>18, <2>19, <2>20, <2>21 DEF Transfers
<1> QED BY <1>2, <1>3

\* What is known of a controller that starts on command c.
Started(k, c, per, s) ==
  /\ s.replies = IF Transfer(c) THEN RepliesRequired(c, per) ELSE k.replies
  /\ s.baseTag = 0 /\ s.perPacket = k.perPacket
  /\ s.command.kind = c.kind /\ s.command.lba = c.lba
  /\ s.command.sectors = c.sectors /\ s.command.chunk = per
  /\ s.command.data = IF c.kind = "write" THEN <<>> ELSE [i \in 1 .. c.sectors |-> Unset]
  /\ s.command.state = "started" /\ s.command.actual = 0
  /\ s.command.awaited = {} /\ s.command.clean = TRUE /\ s.command.failed = FALSE

\* asyncCommand resets what is kept of the command before.
LEMMA StartedAs ==
  ASSUME NEW k \in Controlled, NEW c, NEW per, per = MIN(k.perPacket, c.sectors),
         NEW s, s = start_command(k, c)
  PROVE  Started(k, c, per, s)
<1>1. k \in Controller
  BY DEF Controlled
<1>2. PICK data : data = IF c.kind = "write" THEN <<>> ELSE [i \in 1 .. c.sectors |-> Unset]
  OBVIOUS
<1>3. PICK command : command =
        [NoCommand EXCEPT
             !.kind = c.kind, !.extended = c.extended, !.lba = c.lba,
             !.sectors = c.sectors, !.chunk = per, !.state = "started", !.data = data]
  OBVIOUS
<1>4. PICK replies : replies = IF Transfer(c) THEN RepliesRequired(c, per) ELSE k.replies
  OBVIOUS
<1>5. PICK previous : previous = IF c.kind = "write" THEN "none" ELSE k.previousWrite
  OBVIOUS
<1>6. s = [k EXCEPT !.baseTag = 0, !.previousWrite = previous, !.replies = replies,
                    !.command = command]
  BY <1>2, <1>3, <1>4, <1>5 DEF start_command
<1>7. /\ s.command = command /\ s.replies = replies /\ s.baseTag = 0
      /\ s.perPacket = k.perPacket
  BY <1>1, <1>6 DEF Controller
<1>8. /\ command.kind = c.kind /\ command.lba = c.lba
      /\ command.sectors = c.sectors /\ command.chunk = per /\ command.data = data
      /\ command.state = "started" /\ command.actual = 0
      /\ command.awaited = {} /\ command.clean = TRUE /\ command.failed = FALSE
  BY <1>3 DEF NoCommand
<1> QED BY <1>2, <1>4, <1>7, <1>8 DEF Started

\* Division, as far as the provers need to be told.
LEMMA Divided ==
  ASSUME NEW a \in Nat, NEW b \in Nat \ {0}
  PROVE  /\ a \div b \in Nat /\ (a \div b) * b \in Nat
         /\ (a \div b) * b <= a /\ a < (a \div b) * b + b
OBVIOUS

\* The place of packet n of m, in sectors: each ends where the next one starts.
LEMMA TimesMonotonic ==
  ASSUME NEW b \in Nat
  PROVE  \A m, n \in Nat : n \in 1 .. m => (n - 1) * b \in Nat /\ (n - 1) * b + b <= m * b
<1> SUFFICES ASSUME NEW m \in Nat, NEW n \in 1 .. m
             PROVE  (n - 1) * b \in Nat /\ (n - 1) * b + b <= m * b
  OBVIOUS
<1>1. PICK i \in Nat : n = i + 1
  OBVIOUS
<1>2. PICK j \in Nat : m = n + j
  OBVIOUS
<1>3. m * b = i * b + b + j * b
  BY <1>1, <1>2
<1>4. (n - 1) * b = i * b
  BY <1>1
<1>5. i * b \in Nat /\ j * b \in Nat
  OBVIOUS
<1> QED BY <1>3, <1>4, <1>5

\* The packets of a transfer: asyncCommand counts as many replies as it issues
\* packets, and they cover the transfer one after the other
\* (AoEController.cpp:1043-1130).
LEMMA RequestsOfTransfer ==
  ASSUME NEW t \in Targets, NEW c \in Dispatchable, Transfer(c), c.extended,
         NEW per \in Nat \ {0}, per <= c.sectors, per < 256,
         NEW q, q = Requests(t, c, per)
  PROVE  /\ q \in Seq(Request) /\ q # <<>>
         /\ RepliesRequired(c, per) = Len(q)
         /\ \A i \in DOMAIN q :
              /\ q[i].lba = c.lba + (i - 1) * per
              /\ (i - 1) * per \in Nat
              /\ q[i].count \in Nat \ {0}
              /\ (i - 1) * per + q[i].count <= c.sectors
              /\ q[i].count <= per
              /\ q[i].count = per \/ (i - 1) * per + q[i].count = c.sectors
         /\ Len(q) * per >= c.sectors
<1> DEFINE whole == c.sectors \div per
           rest == c.sectors - whole * per
           Part(lba, n) == [target |-> t, kind |-> c.kind, lba |-> lba, count |-> n]
           wholes == [i \in 1 .. whole |-> Part(increment_address(c, per, i), per)]
           left == IF rest = 0 THEN <<>>
                   ELSE <<Part(increment_address(c, per, whole + 1), rest)>>
<1>1. c.sectors \in Nat /\ c.lba \in Nat /\ c.kind \in Kinds
  BY DEF Dispatchable
<1>2. /\ whole \in Nat /\ whole * per \in Nat /\ rest \in Nat /\ rest < per
      /\ c.sectors = whole * per + rest
  <2>1. /\ whole \in Nat /\ whole * per \in Nat
        /\ whole * per <= c.sectors /\ c.sectors < whole * per + per
    BY <1>1, Divided
  <2> HIDE DEF whole
  <2> QED BY <1>1, <2>1
<1>3. whole > 0
  <2>1. ASSUME NEW a \in Nat, NEW b \in Nat \ {0}, b <= a PROVE a \div b > 0
    BY <2>1
  <2> QED BY <1>1, <2>1
<1>4. WholeReplies(c, per) = whole
  <2>1. WholeReplies(c, per) = MAX(1, whole)
    BY DEF WholeReplies
  <2> HIDE DEF whole
  <2> QED BY <1>2, <1>3, <2>1 DEF MAX
<1>5. LeftOver(c, per) = rest /\ LeftOver(c, per) % 256 = rest
  <2>1. LeftOver(c, per) = rest % 8388608
    BY <1>4 DEF LeftOver
  <2>2. rest < 256
    BY <1>2
  <2> HIDE DEF rest
  <2>3. \A n \in Nat : n < 256 => n % 8388608 = n /\ n % 256 = n
    OBVIOUS
  <2> QED BY <1>2, <2>1, <2>2, <2>3
<1>6. q = wholes \o left
  <2>1. q = wholes \o IF LeftOver(c, per) = 0 THEN <<>>
              ELSE <<Part(increment_address(c, per, whole + 1), LeftOver(c, per) % 256)>>
    BY DEF Requests
  <2> HIDE DEF wholes, rest, Part, whole
  <2> QED BY <1>5, <2>1
<1>7. RepliesRequired(c, per) = whole + (IF rest = 0 THEN 0 ELSE 1)
  <2> HIDE DEF whole, rest
  <2> QED BY <1>4, <1>5 DEF RepliesRequired
<1>8. q \in Seq(Request) /\ q # <<>>
  BY RequestsTyped
<1> HIDE DEF whole, rest
<1>9. wholes \in [1 .. whole -> Request] /\ wholes \in Seq(Request) /\ Len(wholes) = whole
  <2>1. \A i \in 1 .. whole : Part(increment_address(c, per, i), per) \in Request
    <3> SUFFICES ASSUME NEW i \in 1 .. whole
                 PROVE  Part(increment_address(c, per, i), per) \in Request
      OBVIOUS
    <3>1. increment_address(c, per, i) \in Nat
      BY <1>2, PartsTyped
    <3> QED BY <1>1, <3>1 DEF Request
  <2> HIDE DEF Part
  <2>2. wholes \in [1 .. whole -> Request]
    BY <2>1
  <2>3. wholes \in Seq(Request)
    BY <1>2, <2>2, SeqDef
  <2> QED BY <1>2, <2>2, <2>3, LenProperties
<1>10. \A i \in 1 .. whole : wholes[i] = Part(c.lba + (i - 1) * per, per)
  BY <1>2 DEF increment_address
<1>11. /\ left \in Seq(Request) /\ Len(left) = IF rest = 0 THEN 0 ELSE 1
       /\ rest # 0 => left[1] = Part(c.lba + whole * per, rest)
  <2>1. CASE rest = 0
    BY <2>1, EmptySeq
  <2>2. CASE rest # 0
    <3>1. increment_address(c, per, whole + 1) = c.lba + whole * per
      BY <1>2 DEF increment_address
    <3>2. left = <<Part(c.lba + whole * per, rest)>>
      BY <2>2, <3>1, Zenon
    <3>3. c.lba + whole * per \in Nat
      BY <1>1, <1>2
    <3>4. Part(c.lba + whole * per, rest) \in Request
      BY <1>1, <1>2, <3>3 DEF Request
    <3> HIDE DEF Part, left
    <3> QED BY <2>2, <3>2, <3>4
  <2> QED BY <2>1, <2>2
<1> HIDE DEF wholes, left
<1>12. /\ Len(q) = whole + (IF rest = 0 THEN 0 ELSE 1)
       /\ \A i \in 1 .. Len(q) : q[i] = IF i <= whole THEN wholes[i] ELSE left[i - whole]
  BY <1>6, <1>9, <1>11, ConcatProperties
<1>13. DOMAIN q = 1 .. Len(q)
  BY <1>8, LenProperties
<1>14. RepliesRequired(c, per) = Len(q)
  BY <1>7, <1>12
<1>15. ASSUME NEW i \in DOMAIN q
       PROVE  /\ q[i].lba = c.lba + (i - 1) * per
              /\ (i - 1) * per \in Nat
              /\ q[i].count \in Nat \ {0}
              /\ (i - 1) * per + q[i].count <= c.sectors
              /\ q[i].count <= per
              /\ q[i].count = per \/ (i - 1) * per + q[i].count = c.sectors
  <2>1. CASE i <= whole
    <3>1. i \in 1 .. whole /\ q[i] = Part(c.lba + (i - 1) * per, per)
      BY <1>2, <1>10, <1>12, <1>13, <2>1
    <3>2. \A m, n \in Nat : n \in 1 .. m => (n - 1) * per \in Nat /\ (n - 1) * per + per <= m * per
      BY TimesMonotonic
    <3>3. (i - 1) * per \in Nat /\ (i - 1) * per + per <= whole * per
      BY <1>2, <3>1, <3>2
    <3> HIDE DEF Part
    <3>4. (i - 1) * per + per <= c.sectors
      BY <1>1, <1>2, <3>3
    <3> QED BY <3>1, <3>3, <3>4 DEF Part
  <2>2. CASE ~ (i <= whole)
    <3>1. rest # 0 /\ i = whole + 1
      BY <1>2, <1>12, <1>13, <2>2
    <3>2. i - 1 = whole /\ i - whole = 1
      BY <1>2, <3>1
    <3>3. q[i] = Part(c.lba + whole * per, rest)
      BY <1>11, <1>12, <1>13, <2>2, <3>1, <3>2
    <3> QED BY <1>2, <3>1, <3>2, <3>3
  <2> QED BY <2>1, <2>2
<1>16. Len(q) * per >= c.sectors
  <2>1. CASE rest = 0
    BY <1>2, <1>12, <2>1
  <2>2. CASE rest # 0
    <3>1. Len(q) = whole + 1
      BY <1>12, <2>2
    <3>2. \A n \in Nat : (n + 1) * per = n * per + per
      OBVIOUS
    <3>3. (whole + 1) * per = whole * per + per
      BY <1>2, <3>2
    <3> QED BY <1>1, <1>2, <3>1, <3>3
  <2> QED BY <2>1, <2>2
<1> QED BY <1>8, <1>14, <1>15, <1>16

\* A command that is started waits for the packets that are to be issued, and for
\* nothing else (asyncCommand).
LEMMA StartTransfers ==
  ASSUME Registry, Transfers, Registry', PlainTransfers, sending = <<>>,
         NEW t \in Targets, NEW k \in Controlled, k.perPacket \in SectorsPerPacket,
         NEW c \in Dispatchable, Transfer(c) => c.extended,
         controller' = [controller EXCEPT ![t] = start_command(k, c)],
         sending' = Requests(t, c, MIN(k.perPacket, c.sectors)),
         UNCHANGED <<outstanding, currentTag>>
  PROVE  Transfers'
<1>1. PICK m \in Nat \ {0} : m = k.perPacket /\ m < 256
  BY ConstantsTyped DEF PlainTransfers
<1>2. PICK per : per = MIN(m, c.sectors)
  OBVIOUS
<1>3. per \in Nat /\ per <= m /\ (Transfer(c) => per \in Nat \ {0} /\ per <= c.sectors)
  BY <1>2, SectorsOfTransfer
<1>4. PICK q : q = Requests(t, c, per)
  OBVIOUS
<1>5. sending' = q
  BY <1>1, <1>2, <1>4
<1>6. PICK s : s = start_command(k, c)
  OBVIOUS
<1>7. Started(k, c, per, s)
  BY <1>1, <1>2, <1>6, StartedAs
<1>8. /\ controller'[t] = s
      /\ \A u \in Targets \ {t} : controller'[u] = controller[u]
  BY <1>6 DEF Registry, Registered
<1>9. \A u \in Targets : controller[u].command.state # "started"
                         /\ Unsent(controller[u].command) = 0
  BY NothingStarted
<1>10. /\ q \in Seq(Request) /\ q # <<>>
       /\ \A i \in DOMAIN q : q[i].target = t /\ q[i].kind = c.kind
  BY <1>3, <1>4, RequestsTyped
<1>11. s.command.awaited = {} /\ s.command.state = "started" /\ s.command.kind = c.kind
  BY <1>7 DEF Started
<1>12. TagsNew'
  <2>1. \A u \in Targets : controller'[u].command.awaited \subseteq controller[u].command.awaited
    BY <1>8, <1>11
  <2> QED BY <2>1 DEF Transfers, TagsNew
<1>13. Issuing'
  <2>1. \A u \in Targets : controller'[u].command.state = "started" => u = t
    BY <1>8, <1>9
  <2> QED BY <1>5, <1>8, <1>10, <1>11, <2>1 DEF Issuing
<1>14. RepliesCounted'
  <2> SUFFICES ASSUME NEW u \in Targets, InTransfer(u)', controller'[u].command.clean
               PROVE  /\ controller'[u].replies =
                           Cardinality(controller'[u].command.awaited) + Unsent(controller[u].command)'
                      /\ ~ controller'[u].command.lost =>
                           controller'[u].command.awaited \subseteq {p.tag : p \in outstanding'}
    BY DEF RepliesCounted
  <2>1. CASE u # t
    <3>1. controller'[u] = controller[u]
      BY <1>8, <2>1
    <3>2. Unsent(controller[u].command)' = 0 /\ Unsent(controller[u].command) = 0
      BY <1>9, <3>1 DEF Unsent
    <3>3. InTransfer(u) /\ controller[u].command.clean
      BY <3>1 DEF InTransfer, Busy
    <3>4. /\ controller[u].replies =
               Cardinality(controller[u].command.awaited) + Unsent(controller[u].command)
          /\ ~ controller[u].command.lost =>
               controller[u].command.awaited \subseteq {p.tag : p \in outstanding}
      BY <3>3 DEF Transfers, RepliesCounted
    <3> QED BY <3>1, <3>2, <3>4
  <2>2. CASE u = t
    <3>1. Transfer(c)
      BY <1>8, <1>11, <2>2 DEF InTransfer, Transfer
    <3>2. RepliesRequired(c, per) = Len(q) /\ Len(q) \in Nat
      <4>1. per < 256
        BY <1>1, <1>3
      <4> QED BY <1>3, <1>4, <1>10, <3>1, <4>1, RequestsOfTransfer, LenProperties
    <3>3. s.replies = Len(q)
      BY <1>7, <3>1, <3>2 DEF Started
    <3>4. Unsent(controller[u].command)' = Len(q)
      BY <1>5, <1>8, <1>11, <2>2 DEF Unsent
    <3>5. Cardinality({}) = 0
      BY FS_EmptySet
    <3>6. PICK n \in Nat : n = Len(q)
      BY <3>2
    <3>7. /\ controller'[u].replies = n /\ controller'[u].command.awaited = {}
          /\ Unsent(controller[u].command)' = n
      BY <1>8, <1>11, <2>2, <3>3, <3>4, <3>6
    <3>8. n = 0 + n
      OBVIOUS
    <3> QED BY <3>5, <3>7, <3>8
  <2> QED BY <2>1, <2>2
<1>15. RequestsInTransfer'
  <2> SUFFICES ASSUME NEW i \in DOMAIN q, Transfer(q[i])
               PROVE  /\ s.command.lba <= q[i].lba
                      /\ q[i].lba + q[i].count <= s.command.lba + s.command.sectors
                      /\ q[i].kind = "write" =>
                           q[i].lba = s.command.lba + s.command.actual
                                        + (i - 1) * s.command.chunk
    BY <1>5, <1>8, <1>10 DEF RequestsInTransfer, Transfer
  <2>1. Transfer(c)
    BY <1>10 DEF Transfer
  <2>2. per < 256
    BY <1>1, <1>3
  <2>3. PICK n : n = (i - 1) * per
    OBVIOUS
  <2>4. /\ q[i].lba = c.lba + n /\ n \in Nat /\ q[i].count \in Nat \ {0}
        /\ n + q[i].count <= c.sectors
    BY <1>3, <1>4, <2>1, <2>2, <2>3, RequestsOfTransfer
  <2>5. /\ s.command.lba = c.lba /\ s.command.sectors = c.sectors
        /\ s.command.actual = 0 /\ s.command.chunk = per
    BY <1>7 DEF Started
  <2>6. c.lba \in Nat /\ c.sectors \in Nat
    BY DEF Dispatchable
  <2> HIDE DEF Transfer
  <2>7. c.lba + 0 + n = c.lba + n
    BY <2>4, <2>6
  <2> QED BY <2>3, <2>4, <2>5, <2>6, <2>7
<1>16. PacketsInTransfer'
  <2> SUFFICES ASSUME NEW p \in outstanding, InTransfer(p.target)',
                      p.tag \in controller'[p.target].command.awaited,
                      NEW d, d = controller'[p.target].command
               PROVE  /\ d.lba <= p.lba /\ p.lba + p.count <= d.lba + d.sectors
                      /\ p.kind = "write" => p.from = p.lba - d.lba
    BY DEF PacketsInTransfer
  <2>1. p.target \in Targets /\ p.target # t
    BY <1>8, <1>11 DEF Registry, Traffic, Packet
  <2>2. controller'[p.target] = controller[p.target] /\ InTransfer(p.target)
    BY <1>8, <2>1 DEF InTransfer, Busy
  <2> QED BY <2>2 DEF Transfers, PacketsInTransfer
<1> QED BY <1>12, <1>13, <1>14, <1>15, <1>16 DEF Transfers

\* A target that is found is identified first (aoe_config_receive).
LEMMA AppearTransfers ==
  ASSUME Registry, Transfers, Registry', PlainTransfers, NEW t \in Targets, NEW p \in Ports,
         NEW ours \in BOOLEAN, Appear(t, p, ours)
  PROVE  Transfers'
<1>1. PICK k : k = [NoController EXCEPT
       !.ports = {p}, !.perPacket = perPacket, !.number = get_next_target_number,
       !.registered = ours]
  OBVIOUS
<1>2. /\ sending = <<>> /\ UNCHANGED <<outstanding, currentTag>>
      /\ controller' = [controller EXCEPT ![t] = start_command(k, Identify)]
      /\ sending' = Requests(t, Identify, MIN(k.perPacket, Identify.sectors))
  BY <1>1 DEF Appear, WorkLoopFree, StartCommand
<1>3. k \in Controlled /\ k.perPacket \in SectorsPerPacket
  <2>1. get_next_target_number \in Nat
    BY FreeNumber DEF Registry, Registered
  <2>2. NoController \in Controlled
    BY NoControllerTyped
  <2>3. perPacket \in SectorsPerPacket /\ perPacket \in Nat
    BY ConstantsTyped DEF Registry, Traffic
  <2>4. PICK number \in Nat : number = get_next_target_number
    BY <2>1
  <2>5. k = [NoController EXCEPT !.ports = {p}, !.perPacket = perPacket, !.number = number,
                                 !.registered = ours]
    BY <1>1, <2>4
  <2> QED BY <2>2, <2>3, <2>5 DEF Controlled, Controller
<1>4. Identify \in Dispatchable /\ ~ Transfer(Identify)
  BY CommandsDispatchable DEF Identify, Transfer
<1> QED BY <1>2, <1>3, <1>4, StartTransfers

\* The base class submits a command to a target that is known (busCanDispatch).
LEMMA DispatchTransfers ==
  ASSUME Registry, Transfers, Registry', PlainTransfers, NEW t \in Targets,
         NEW c \in Commands, Dispatch(t, c)
  PROVE  Transfers'
<1>1. PICK k \in Controlled : k = controller[t] /\ k.perPacket \in SectorsPerPacket
  BY DEF Dispatch, Registry, Registered
<1>2. /\ sending = <<>> /\ UNCHANGED <<outstanding, currentTag>>
      /\ controller' = [controller EXCEPT ![t] = start_command(k, c)]
      /\ sending' = Requests(t, c, MIN(k.perPacket, c.sectors))
  BY <1>1 DEF Dispatch, WorkLoopFree, StartCommand
<1>3. c \in Dispatchable /\ (Transfer(c) => c.extended)
  BY CommandsDispatchable DEF PlainTransfers
<1> QED BY <1>1, <1>2, <1>3, StartTransfers

\* No transfer is known of when the driver starts.
LEMMA TransfersInit == Init => Transfers
<1> SUFFICES ASSUME Init PROVE Transfers
  OBVIOUS
<1>1. /\ controller = [t \in Targets |-> NoController] /\ outstanding = {} /\ sending = <<>>
  BY DEF Init
<1>2. NoController.command.awaited = {} /\ NoController.command.state = "complete"
  BY DEF NoController, NoCommand
<1> QED BY <1>1, <1>2 DEF Transfers, TagsNew, Issuing, RepliesCounted, RequestsInTransfer,
                         PacketsInTransfer, InTransfer, Busy

\* Every step keeps what is known of transfers.
LEMMA TransfersStep ==
  ASSUME Registry, Registry', Transfers, PlainTransfers, [Next]_vars
  PROVE  Transfers'
<1>1. CASE SendNext
  BY <1>1, SendNextTransfers
<1>2. CASE FakeReturnTimer
  BY <1>2, FakeReturnTransfers
<1>3. CASE StateUpdateTimer
  BY <1>3, StateUpdateTransfers
<1>4. CASE UserSearch
  BY <1>4, UserSearchTransfers
<1>5. CASE UserIdentify
  BY <1>5, UserIdentifyTransfers
<1>6. CASE \E t \in Targets, p \in Ports, ours \in BOOLEAN : Appear(t, p, ours) \/ Heard(t, p, ours)
  BY <1>6, AppearTransfers, HeardTransfers
<1>7. CASE \E t \in Targets, c \in Commands : Dispatch(t, c)
  BY <1>7, DispatchTransfers
<1>8. CASE \E t \in Targets : TimerExpires(t) \/ CommandTimeout(t)
  BY <1>8, TimerExpiresTransfers, CommandTimeoutTransfers
<1>9. CASE \E p \in outstanding, status \in {"ok", "error"}, capacity \in Capacities :
             Answer(p, status, capacity)
  BY <1>9, AnswerTransfers
<1>10. CASE \E p \in outstanding : GiveUp(p)
  BY <1>10, GiveUpTransfers
<1>11. CASE \E n \in Ports : PortDown(n)
  BY <1>11, PortDownTransfers
<1>12. CASE \E n \in Ports, per \in SectorsPerPacket : PortUp(n, per)
  BY <1>12, PortUpTransfers
<1>13. CASE UNCHANGED vars
  BY <1>13 DEF vars, Transfers, TagsNew, Issuing, RepliesCounted, RequestsInTransfer,
               PacketsInTransfer, InTransfer, Unsent, Busy
<1> QED
  BY <1>1, <1>2, <1>3, <1>4, <1>5, <1>6, <1>7, <1>8, <1>9, <1>10, <1>11, <1>12, <1>13
  DEF Next, WorkLoop

\* What is known of transfers, in every state of the driver.
LEMMA TransfersAlways ==
  ASSUME PlainTransfers
  PROVE  Spec => [](Registry /\ Transfers)
<1>1. Init => Registry /\ Transfers
  BY RegistryInit, TransfersInit
<1>2. Registry /\ Transfers /\ [Next]_vars => (Registry /\ Transfers)'
  BY RegistryStep, TransfersStep
<1> QED BY <1>1, <1>2, PTL DEF Spec

\* m_nReadWriteRepliesRequired is the number of a transfer's packets the transport
\* still holds, for any number of targets whose packets share it, with user
\* searches that take tags between (AoEController.cpp:400-470, 1043-1130).
THEOREM RepliesAreAwaited == PlainTransfers => (Spec => []AwaitedReplies)
<1> SUFFICES ASSUME PlainTransfers PROVE Spec => []AwaitedReplies
  OBVIOUS
<1>1. Registry /\ Transfers => AwaitedReplies
  <2> SUFFICES ASSUME Registry, Transfers, NEW t \in Targets, InTransfer(t), WorkLoopFree,
                      controller[t].command.clean
               PROVE  /\ controller[t].replies = Cardinality(controller[t].command.awaited)
                      /\ ~ controller[t].command.lost =>
                           controller[t].command.awaited \subseteq {p.tag : p \in outstanding}
    BY DEF AwaitedReplies
  <2>1. Unsent(controller[t].command) = 0
    BY NothingStarted DEF WorkLoopFree
  <2>2. Cardinality(controller[t].command.awaited) \in Nat
    BY AwaitedFinite, FS_CardinalityType
  <2>3. /\ controller[t].replies =
             Cardinality(controller[t].command.awaited) + Unsent(controller[t].command)
        /\ ~ controller[t].command.lost =>
             controller[t].command.awaited \subseteq {p.tag : p \in outstanding}
    BY DEF Transfers, RepliesCounted
  <2> QED BY <2>1, <2>2, <2>3
<1> QED BY <1>1, TransfersAlways, PTL

\* Each packet of a transfer addresses sectors of the transfer, and a write packet
\* carries the data of its address (AoEController.cpp:1172-1230, 1885-1990).
THEOREM PacketsStayInTransfer == PlainTransfers => (Spec => []PacketsInTransfer)
<1> SUFFICES ASSUME PlainTransfers PROVE Spec => []PacketsInTransfer
  OBVIOUS
<1>1. Transfers => PacketsInTransfer
  BY DEF Transfers
<1> QED BY <1>1, TransfersAlways, PTL

-----------------------------------------------------------------------------
(* Reads: where the data of an answer belongs, and what is still missing.  *)

\* No user program searches for targets: the driver's tags are its own.
OwnTags == ~ UserSearches

\* The ports' MTUs are all the same.
OneMtu == \A m, n \in SectorsPerPacket : m = n

\* The place in the buffer of the next packet of a read.
NextPlace(k) == IF k.baseTag = 0 THEN 0 ELSE Place(k, currentTag + 1)

\* A packet as large as the others, or it ends the transfer.
Filled(c, p) ==
  /\ p.count \in 1 .. c.chunk
  /\ p.count = c.chunk \/ p.lba + p.count = c.lba + c.sectors

\* The packets of the read of k that are to be issued: as many as it takes.
ReadRequests(k) ==
  LET c == k.command IN
  /\ c.actual = 0
  /\ NextPlace(k) + Len(sending) * c.chunk >= c.sectors
  /\ NextPlace(k) + Len(sending) * c.chunk = k.replies * c.chunk
  /\ \A i \in DOMAIN sending :
       /\ sending[i].lba = c.lba + NextPlace(k) + (i - 1) * c.chunk
       /\ Filled(c, sending[i])

\* A packet for the target of k: of its read, at its place, or none of its
\* sectors are in the buffer.
ReadPacket(k, p) ==
  LET c == k.command IN
  (k.baseTag # 0 /\ p.tag >= k.baseTag) =>
    \/ p.kind = "read" /\ p.lba = c.lba + Place(k, p.tag) /\ Filled(c, p)
    \/ Place(k, p.tag) >= c.sectors

\* The packets of a read have consecutive tags, in the order of their addresses.
ReadOrder(t) ==
  LET k == controller[t]  c == k.command IN
  /\ DOMAIN c.data = 1 .. c.sectors
  /\ \E n \in SectorsPerPacket : c.chunk = MIN(n, c.sectors)
  /\ c.chunk > 0 /\ k.baseTag <= currentTag
  /\ c.state = "started" => ReadRequests(k)
  /\ c.state # "started" => k.baseTag # 0 /\ Place(k, currentTag + 1) >= c.sectors
  /\ \A p \in outstanding : p.target = t => ReadPacket(k, p)

InRead(k) == Busy(k) /\ k.command.kind = "read"

ReadsConsecutive ==
  /\ userSending = <<>>
  /\ \A t \in Targets : InRead(controller[t]) => ReadOrder(t)

\* The packets awaited have room in the buffer: with one that reaches beyond its
\* end, up to the place of that one; without, up to the end.
Room(k) ==
  LET c == k.command IN
  /\ \A tag \in c.awaited : Place(k, tag) + c.chunk > c.sectors =>
       c.actual + (k.replies - 1) * c.chunk <= Place(k, tag)
  /\ (\A tag \in c.awaited : Place(k, tag) + c.chunk <= c.sectors) =>
       c.actual + k.replies * c.chunk <= c.sectors

\* Sector i of the buffer is still to come.
ToCome(k, i) ==
  LET c == k.command IN
  \/ \E tag \in c.awaited : Place(k, tag) <= i - 1 /\ i - 1 < Place(k, tag) + c.chunk
  \/ c.state = "started" /\ i - 1 >= NextPlace(k)

\* A read that nothing disturbed: what it awaits is what its buffer misses.
ReadAwaits(k) ==
  LET c == k.command IN
  /\ c.chunk = MIN(k.perPacket, c.sectors)
  /\ \A tag \in c.awaited : k.baseTag # 0 /\ tag >= k.baseTag /\ Place(k, tag) < c.sectors
  /\ c.state # "started" => Room(k)
  /\ ~ c.failed => \A i \in 1 .. c.sectors : c.data[i] = Unset => ToCome(k, i)

ReadsAwait ==
  \A t \in Targets : LET k == controller[t] IN
    (InRead(k) /\ k.command.clean) => ReadAwaits(k)

\* Place goes up by a packet with each tag.
LEMMA PlacesGrow ==
  ASSUME NEW k \in Controlled
  PROVE  /\ \A n \in Nat : Place(k, n) \in Int
         /\ \A n \in Nat : Place(k, n + 1) = Place(k, n) + k.command.chunk
         /\ \A m, n \in Nat : m < n => Place(k, m) + k.command.chunk <= Place(k, n)
         /\ Place(k, k.baseTag) = 0
<1>1. PICK b \in Nat : b = k.baseTag
  BY ConstantsTyped DEF Controlled, Controller
<1>2. PICK h \in Nat : h = k.command.chunk
  BY DEF Controlled, Sized, Command
<1>3. \A n : Place(k, n) = (n - b) * h
  BY <1>1, <1>2 DEF Place
<1>4. \A n \in Nat : (n - b) * h \in Int /\ (n + 1 - b) * h = (n - b) * h + h
  OBVIOUS
<1>5. ASSUME NEW m \in Nat, NEW n \in Nat, m < n
      PROVE  (m - b) * h + h <= (n - b) * h
  <2>1. PICK d \in Nat : n = m + 1 + d
    BY <1>5
  <2>2. (n - b) * h = (m - b) * h + h + d * h
    BY <2>1
  <2>3. d * h \in Nat /\ (m - b) * h \in Int
    OBVIOUS
  <2> QED BY <2>2, <2>3
<1>6. (b - b) * h = 0
  OBVIOUS
<1>7. \A n \in Nat : Place(k, n) \in Int
  BY <1>3, <1>4
<1>8. \A n \in Nat : Place(k, n + 1) = Place(k, n) + h
  BY <1>3, <1>4
<1>9. \A m, n \in Nat : m < n => Place(k, m) + h <= Place(k, n)
  BY <1>3, <1>5
<1>10. Place(k, b) = 0
  BY <1>3, <1>6
<1> QED BY <1>1, <1>2, <1>7, <1>8, <1>9, <1>10

\* What a step leaves of a controller when it neither answers nor issues a packet
\* of its command.
StillReads(k, r) ==
  LET c == k.command  d == r.command IN
  /\ r.baseTag = k.baseTag
  /\ d.kind = c.kind /\ d.lba = c.lba /\ d.sectors = c.sectors /\ d.chunk = c.chunk
  /\ d.data = c.data /\ d.actual = c.actual
  /\ d.awaited = c.awaited /\ d.failed = c.failed
  /\ d.clean => c.clean
  /\ Busy(r) => r.replies = k.replies
  /\ (Busy(r) /\ d.clean) => r.perPacket = k.perPacket
  /\ \/ d.state = c.state /\ d.result = c.result
     \/ d.state = "complete" /\ d.result = "error"

\* Tags and packets go on, and not while the command of t is issued.
Calm(t) ==
  /\ currentTag' >= currentTag
  /\ \A p \in outstanding' : p \in outstanding \/ p.tag > currentTag
  /\ controller'[t] = NoController \/ StillReads(controller[t], controller'[t])
  /\ controller[t].command.state = "started" =>
       /\ currentTag' = currentTag /\ sending' = sending
       /\ outstanding' \subseteq outstanding

\* A controller that is as it was still reads.
LEMMA StillReadsSelf == ASSUME NEW k PROVE StillReads(k, k)
BY DEF StillReads

\* A controller that left the registry reads nothing.
LEMMA NoReader == ~ InRead(NoController)
BY DEF InRead, Busy, NoController, NoCommand

\* The order of a read's packets does not depend on what else happens
\* (completeDataRead, AoEController.cpp:1440-1480).
LEMMA CalmOrder ==
  ASSUME Registry, Registry', NEW t \in Targets, Calm(t),
         InRead(controller[t]) => ReadOrder(t), InRead(controller'[t])
  PROVE  ReadOrder(t)'
<1>1. PICK k \in Controlled : k = controller[t]
  BY DEF Registry, Registered
<1>2. PICK r \in Controlled : r = controller'[t]
  BY DEF Registry, Registered
<1>3. StillReads(k, r) /\ InRead(k) /\ r.command.state = k.command.state
  BY <1>1, <1>2, NoReader DEF Calm, StillReads, InRead, Busy
<1>4. ReadOrder(t)
  BY <1>1, <1>3
<1>5. /\ r.baseTag = k.baseTag /\ r.command.chunk = k.command.chunk
      /\ r.command.lba = k.command.lba /\ r.command.sectors = k.command.sectors
      /\ r.command.data = k.command.data /\ r.command.actual = k.command.actual
  BY <1>3 DEF StillReads
<1>6. currentTag \in Nat /\ currentTag' \in Nat /\ currentTag' >= currentTag
  BY ConstantsTyped DEF Registry, Traffic, Calm
<1>7. \A n : Place(r, n) = Place(k, n)
  BY <1>5 DEF Place
<1>8. k.baseTag \in Nat
  BY ConstantsTyped DEF Controlled, Controller
<1>9. /\ \A n \in Nat : Place(k, n) \in Int
      /\ \A m, n \in Nat : m < n => Place(k, m) + k.command.chunk <= Place(k, n)
  BY PlacesGrow
<1>10. k.command.chunk \in Nat /\ k.command.sectors \in Nat
  BY DEF Controlled, Sized, Command
<1>11. \A n \in Nat : (n > currentTag /\ Place(k, currentTag + 1) >= k.command.sectors) =>
         Place(k, n) >= k.command.sectors
  <2> SUFFICES ASSUME NEW n \in Nat, n > currentTag,
                      Place(k, currentTag + 1) >= k.command.sectors
               PROVE  Place(k, n) >= k.command.sectors
    OBVIOUS
  <2>1. currentTag + 1 \in Nat /\ (n = currentTag + 1 \/ n > currentTag + 1)
    BY <1>6
  <2>2. Place(k, currentTag + 1) \in Int /\ Place(k, n) \in Int
    BY <1>9, <2>1
  <2>3. n > currentTag + 1 => Place(k, currentTag + 1) + k.command.chunk <= Place(k, n)
    BY <1>9, <2>1
  <2> QED BY <1>10, <2>1, <2>2, <2>3
<1>12. \A p \in outstanding' : p.tag \in Nat
  BY ConstantsTyped DEF Registry, Traffic, Packet
<1>13. \A p \in outstanding' : p.target = t => ReadPacket(k, p)
  <2> SUFFICES ASSUME NEW p \in outstanding', p.target = t PROVE ReadPacket(k, p)
    OBVIOUS
  <2>1. CASE p \in outstanding
    BY <1>1, <1>4, <2>1 DEF ReadOrder
  <2>2. CASE p \notin outstanding
    <3>1. p.tag > currentTag /\ k.command.state # "started"
      BY <1>1, <2>2 DEF Calm
    <3>2. Place(k, currentTag + 1) >= k.command.sectors
      BY <1>1, <1>4, <3>1 DEF ReadOrder
    <3> QED BY <1>11, <1>12, <3>1, <3>2 DEF ReadPacket
  <2> QED BY <2>1, <2>2
<1>14. \A p : ReadPacket(k, p) => ReadPacket(r, p)
  BY <1>5, <1>7 DEF ReadPacket, Filled
<1>15. k.command.state = "started" => ReadRequests(r)'
  <2> SUFFICES ASSUME k.command.state = "started" PROVE ReadRequests(r)'
    OBVIOUS
  <2>1. currentTag' = currentTag /\ sending' = sending
    BY <1>1 DEF Calm
  <2>2. ReadRequests(k)
    BY <1>1, <1>4 DEF ReadOrder
  <2>3. NextPlace(r)' = NextPlace(k)
    BY <1>5, <1>7, <2>1 DEF NextPlace
  <2>4. r.replies = k.replies /\ InRead(r)
    BY <1>2, <1>3 DEF StillReads, InRead
  <2>5. PICK n : n = NextPlace(k)
    OBVIOUS
  <2>6. /\ k.command.actual = 0
        /\ n + Len(sending) * k.command.chunk >= k.command.sectors
        /\ n + Len(sending) * k.command.chunk = k.replies * k.command.chunk
        /\ \A i \in DOMAIN sending :
             /\ sending[i].lba = k.command.lba + n + (i - 1) * k.command.chunk
             /\ Filled(k.command, sending[i])
    BY <2>2, <2>5 DEF ReadRequests
  <2>7. \A q : Filled(k.command, q) => Filled(r.command, q)
    BY <1>5 DEF Filled
  <2>8. NextPlace(r)' = n
    BY <2>3, <2>5
  <2>9. /\ r.command.actual = 0
        /\ n + Len(sending') * r.command.chunk >= r.command.sectors
        /\ n + Len(sending') * r.command.chunk = r.replies * r.command.chunk
        /\ \A i \in DOMAIN sending' :
             /\ sending'[i].lba = r.command.lba + n + (i - 1) * r.command.chunk
             /\ Filled(r.command, sending'[i])
    BY <1>5, <2>1, <2>4, <2>6, <2>7, Zenon
  <2> QED BY <2>8, <2>9, Zenon DEF ReadRequests
<1>16. k.command.state # "started" =>
         r.baseTag # 0 /\ Place(r, currentTag' + 1) >= r.command.sectors
  <2> SUFFICES ASSUME k.command.state # "started"
               PROVE  r.baseTag # 0 /\ Place(r, currentTag' + 1) >= r.command.sectors
    OBVIOUS
  <2>1. k.baseTag # 0 /\ Place(k, currentTag + 1) >= k.command.sectors
    BY <1>1, <1>4 DEF ReadOrder
  <2>2. PICK n \in Nat : n = currentTag' /\ n >= currentTag
    BY <1>6
  <2>3. n + 1 \in Nat /\ n + 1 > currentTag
    <3>1. PICK m \in Nat : m = currentTag
      BY <1>6
    <3>2. n >= m
      BY <2>2, <3>1
    <3>3. n + 1 > m
      BY <3>2
    <3> QED BY <3>1, <3>3
  <2>4. Place(r, n + 1) >= r.command.sectors
    BY <1>5, <1>7, <1>11, <2>1, <2>3
  <2> QED BY <1>5, <2>1, <2>2, <2>4
<1>17. /\ DOMAIN r.command.data = 1 .. r.command.sectors
       /\ \E n \in SectorsPerPacket : r.command.chunk = MIN(n, r.command.sectors)
       /\ r.command.chunk > 0
  BY <1>1, <1>4, <1>5 DEF ReadOrder
<1>18. r.baseTag <= currentTag'
  <2>1. k.baseTag <= currentTag
    BY <1>1, <1>4 DEF ReadOrder
  <2> QED BY <1>5, <1>6, <1>8, <2>1
<1>19. r.command.state = k.command.state
  BY <1>3
<1> QED
  BY <1>2, <1>13, <1>14, <1>15, <1>16, <1>17, <1>18, <1>19 DEF ReadOrder

\* A transfer that ended well is whole: WholeTransfer, of one controller.
Whole(k) ==
  LET c == k.command IN
  (c.state = "complete" /\ c.result = "ok" /\ c.clean /\ Transfer(c)) =>
    /\ c.awaited = {}
    /\ (c.kind = "read" /\ ~c.failed) => \A i \in DOMAIN c.data : c.data[i] # Unset

\* Sectors are in their places: DataInPlace, of one controller.
InPlace(k) ==
  LET c == k.command IN
  c.kind = "read" => \A i \in DOMAIN c.data : c.data[i] \in {Unset, c.lba + i - 1}

\* What is known of the command of target t.
ReadKept(t) ==
  /\ InRead(controller[t]) => ReadOrder(t)
  /\ (InRead(controller[t]) /\ controller[t].command.clean) => ReadAwaits(controller[t])
  /\ Whole(controller[t])

\* What a read misses does not depend on what else happens.
LEMMA CalmAwaits ==
  ASSUME Registry, Registry', NEW t \in Targets, Calm(t),
         NEW k \in Controlled, k = controller[t], NEW r \in Controlled, r = controller'[t],
         ReadAwaits(k), StillReads(k, r), Busy(r), r.command.clean,
         r.command.state = k.command.state
  PROVE  ReadAwaits(r)'
<1>1. /\ r.baseTag = k.baseTag /\ r.command.chunk = k.command.chunk
      /\ r.command.sectors = k.command.sectors /\ r.command.data = k.command.data
      /\ r.command.actual = k.command.actual /\ r.command.awaited = k.command.awaited
      /\ r.command.failed = k.command.failed /\ r.replies = k.replies
      /\ r.perPacket = k.perPacket
  BY DEF StillReads
<1>2. \A n : Place(r, n) = Place(k, n)
  BY <1>1 DEF Place
<1>3. r.command.chunk = MIN(r.perPacket, r.command.sectors)
  BY <1>1 DEF ReadAwaits
<1>4. \A tag \in r.command.awaited :
        r.baseTag # 0 /\ tag >= r.baseTag /\ Place(r, tag) < r.command.sectors
  BY <1>1, <1>2 DEF ReadAwaits
<1>5. r.command.state # "started" => Room(r)
  <2>1. Room(k) => Room(r)
    BY <1>1, <1>2, Zenon DEF Room
  <2> QED BY <2>1 DEF ReadAwaits
<1>6. \A i : ToCome(k, i) => ToCome(r, i)'
  <2> SUFFICES ASSUME NEW i, ToCome(k, i) PROVE ToCome(r, i)'
    OBVIOUS
  <2>1. CASE \E tag \in k.command.awaited :
               Place(k, tag) <= i - 1 /\ i - 1 < Place(k, tag) + k.command.chunk
    BY <1>1, <1>2, <2>1, Zenon DEF ToCome
  <2>2. CASE k.command.state = "started" /\ i - 1 >= NextPlace(k)
    <3>1. currentTag' = currentTag
      BY <2>2 DEF Calm
    <3>2. NextPlace(r)' = NextPlace(k)
      BY <1>1, <1>2, <3>1 DEF NextPlace
    <3> QED BY <2>2, <3>2, Zenon DEF ToCome
  <2> QED BY <2>1, <2>2 DEF ToCome
<1>7. ~ r.command.failed =>
        \A i \in 1 .. r.command.sectors : r.command.data[i] = Unset => ToCome(r, i)'
  <2>1. ~ k.command.failed =>
          \A i \in 1 .. k.command.sectors : k.command.data[i] = Unset => ToCome(k, i)
    BY DEF ReadAwaits
  <2> QED BY <1>1, <1>6, <2>1
<1> QED BY <1>3, <1>4, <1>5, <1>7, Zenon DEF ReadAwaits, Room

\* A controller whose command was not touched, or ended in an error, is as whole
\* and as much in place as before.
LEMMA StillWhole ==
  ASSUME NEW k, NEW r, r = NoController \/ StillReads(k, r)
  PROVE  (Whole(k) => Whole(r)) /\ (InPlace(k) => InPlace(r))
<1>1. CASE r = NoController
  BY <1>1 DEF NoController, NoCommand, Whole, InPlace, Transfer
<1>2. CASE StillReads(k, r)
  BY <1>2 DEF StillReads, Whole, InPlace, Transfer
<1> QED BY <1>1, <1>2

\* What a step leaves alone is known as before.
LEMMA CalmKept ==
  ASSUME Registry, Registry', NEW t \in Targets, Calm(t), ReadKept(t)
  PROVE  ReadKept(t)'
<1>1. PICK k \in Controlled : k = controller[t]
  BY DEF Registry, Registered
<1>2. PICK r \in Controlled : r = controller'[t]
  BY DEF Registry, Registered
<1>3. r = NoController \/ StillReads(k, r)
  BY <1>1, <1>2 DEF Calm
<1>4. Whole(r)
  BY <1>1, <1>3, StillWhole DEF ReadKept
<1>5. InRead(r) => ReadOrder(t)'
  BY <1>2, CalmOrder DEF ReadKept
<1>6. (InRead(r) /\ r.command.clean) => ReadAwaits(r)'
  <2> SUFFICES ASSUME InRead(r), r.command.clean PROVE ReadAwaits(r)'
    OBVIOUS
  <2>1. StillReads(k, r)
    BY <1>3, NoReader
  <2>2. r.command.state = k.command.state /\ Busy(r)
    BY <2>1 DEF StillReads, InRead, Busy
  <2>3. InRead(k) /\ k.command.clean
    BY <2>1, <2>2 DEF StillReads, InRead, Busy
  <2>4. ReadAwaits(k)
    BY <1>1, <2>3 DEF ReadKept
  <2> QED BY <1>1, <1>2, <2>1, <2>2, <2>4, CalmAwaits
<1> QED BY <1>2, <1>4, <1>5, <1>6 DEF ReadKept

\* What an answer does to a read in progress.
ReadOn(k, tag, payload, status, r) ==
  LET c == k.command  d == r.command
      n == MIN(c.sectors - c.actual, MIN(k.perPacket, Len(payload)))
      Here(i) == i - 1 - Place(k, tag)
  IN  /\ r.baseTag = k.baseTag /\ r.perPacket = k.perPacket /\ r.replies = k.replies - 1
      /\ d.kind = c.kind /\ d.lba = c.lba /\ d.sectors = c.sectors /\ d.chunk = c.chunk
      /\ d.clean => /\ c.clean /\ tag \in c.awaited /\ d.awaited = c.awaited \ {tag}
                    /\ ~ d.failed => ~ c.failed /\ status # "error"
                    /\ ~ c.expired
      /\ (c.sectors - c.actual < 1 \/ c.expired) => d.data = c.data /\ d.state = "complete"
      /\ ~ (c.sectors - c.actual < 1 \/ c.expired) =>
           /\ d.data = [i \in DOMAIN c.data |->
                IF Here(i) \in 0 .. n - 1 THEN payload[Here(i) + 1] ELSE c.data[i]]
           /\ d.actual = c.actual + n
           /\ d.state = IF r.replies # 0 THEN "data" ELSE "complete"

\* The notes about a read whose packet is answered.
LEMMA NotedRead ==
  ASSUME NEW k \in Controlled, Busy(k), NEW tag \in Tags, NEW status,
         NEW n, n = noted(k, tag, status)
  PROVE  /\ n.baseTag = k.baseTag /\ n.perPacket = k.perPacket /\ n.replies = k.replies
         /\ n.previousWrite = k.previousWrite
         /\ n.command.kind = k.command.kind /\ n.command.lba = k.command.lba
         /\ n.command.sectors = k.command.sectors /\ n.command.chunk = k.command.chunk
         /\ n.command.data = k.command.data /\ n.command.actual = k.command.actual
         /\ n.command.state = k.command.state /\ n.command.expired = k.command.expired
         /\ n.command.clean =>
              /\ k.command.clean /\ tag \in k.command.awaited
              /\ n.command.awaited = k.command.awaited \ {tag}
              /\ ~ n.command.failed => ~ k.command.failed /\ status # "error"
              /\ ~ (k.command.kind = "read" /\ k.command.expired)
<1>1. k \in Controller /\ k.command \in Command
  BY DEF Controlled, Sized
<1>2. CASE tag \in k.command.awaited
  <2>1. PICK c : c = [k.command EXCEPT !.awaited = @ \ {tag}, !.failed = @ \/ status = "error",
                             !.clean = @ /\ ~ (k.command.kind = "read" /\ k.command.expired)]
    OBVIOUS
  <2>2. n = [k EXCEPT !.command = c]
    <3>1. n = [k EXCEPT !.command.awaited = @ \ {tag},
                        !.command.failed = @ \/ status = "error",
                        !.command.clean = @ /\ ~ (k.command.kind = "read" /\ k.command.expired)]
      BY <1>2 DEF noted
    <3> QED BY <1>1, <2>1, <3>1 DEF Controller
  <2>3. /\ c.kind = k.command.kind /\ c.lba = k.command.lba
        /\ c.sectors = k.command.sectors /\ c.chunk = k.command.chunk
        /\ c.data = k.command.data /\ c.actual = k.command.actual
        /\ c.state = k.command.state /\ c.expired = k.command.expired
        /\ c.awaited = k.command.awaited \ {tag}
    BY <1>1, <2>1 DEF Command
  <2>4. /\ ~ c.failed => ~ k.command.failed /\ status # "error"
        /\ c.clean => k.command.clean /\ ~ (k.command.kind = "read" /\ k.command.expired)
    BY <1>1, <2>1 DEF Command
  <2>5. /\ n.command = c /\ n.baseTag = k.baseTag /\ n.perPacket = k.perPacket
        /\ n.replies = k.replies /\ n.previousWrite = k.previousWrite
    BY <1>1, <2>2 DEF Controller
  <2> QED BY <1>2, <2>3, <2>4, <2>5
<1>3. CASE tag \notin k.command.awaited
  <2>1. PICK c : c = [k.command EXCEPT !.clean = FALSE]
    OBVIOUS
  <2>2. n = [k EXCEPT !.command = c]
    <3>1. n = [k EXCEPT !.command.clean = FALSE]
      BY <1>3 DEF noted
    <3> QED BY <1>1, <2>1, <3>1 DEF Controller
  <2>3. /\ c.kind = k.command.kind /\ c.lba = k.command.lba
        /\ c.sectors = k.command.sectors /\ c.chunk = k.command.chunk
        /\ c.data = k.command.data /\ c.actual = k.command.actual
        /\ c.state = k.command.state /\ c.expired = k.command.expired /\ ~ c.clean
    BY <1>1, <2>1 DEF Command
  <2>4. /\ n.command = c /\ n.baseTag = k.baseTag /\ n.perPacket = k.perPacket
        /\ n.replies = k.replies /\ n.previousWrite = k.previousWrite
    BY <1>1, <2>2 DEF Controller
  <2> QED BY <2>3, <2>4
<1> QED BY <1>2, <1>3

\* A command that ends keeps its buffer (asyncStatus).
LEMMA StatusKeepsData ==
  ASSUME NEW k \in Controlled, NEW status \in {"ok", "error"}, NEW a, a = asyncStatus(k, status)
  PROVE  /\ a.command.data = k.command.data /\ a.command.actual = k.command.actual
         /\ a.command.state = "complete"
<1>1. PICK result \in {"ok", "error"} :
        result = IF "error" \in {status, k.previousWrite} THEN "error" ELSE "ok"
  OBVIOUS
<1>2. k \in Controller /\ k.command \in Command
  BY DEF Controlled, Controller
<1>3. PICK d : d = [k.command EXCEPT !.state = "complete", !.result = result,
                                 !.expired = FALSE, !.lost = FALSE]
  OBVIOUS
<1>4. a = [k EXCEPT !.command = d, !.previousWrite = "none"]
  BY <1>1, <1>2, <1>3 DEF asyncStatus, complete, Controller
<1>5. d.data = k.command.data /\ d.actual = k.command.actual /\ d.state = "complete"
  BY <1>2, <1>3 DEF Command
<1>6. a.command = d
  BY <1>2, <1>4 DEF Controller
<1> QED BY <1>5, <1>6

\* An answer to a read puts its sectors into the buffer, at the place its tag
\* gives, and is one reply less to wait for (AoEController.cpp:436-470, 1408-1550).
LEMMA ReadAnswered ==
  ASSUME NEW k \in Controlled, InRead(k), NEW tag \in Tags, NEW payload \in Seq(Sector),
         NEW status \in {"ok", "error"}, NEW capacity \in Nat,
         NEW r, r = ata_response(k, tag, payload, status, capacity)
  PROVE  ReadOn(k, tag, payload, status, r)
<1>1. PICK m : m = noted(k, tag, status)
  OBVIOUS
<1>2. m \in Controlled
  BY <1>1, NotedTyped
<1>3. Busy(k) /\ k.command.kind = "read" /\ k \in Controller
  BY DEF InRead, Controlled
<1>4. /\ m.baseTag = k.baseTag /\ m.perPacket = k.perPacket /\ m.replies = k.replies
      /\ m.command.kind = k.command.kind /\ m.command.lba = k.command.lba
      /\ m.command.sectors = k.command.sectors /\ m.command.chunk = k.command.chunk
      /\ m.command.data = k.command.data /\ m.command.actual = k.command.actual
      /\ m.command.state = k.command.state /\ m.command.expired = k.command.expired
      /\ m.command.clean =>
              /\ k.command.clean /\ tag \in k.command.awaited
              /\ m.command.awaited = k.command.awaited \ {tag}
              /\ ~ m.command.failed => ~ k.command.failed /\ status # "error"
              /\ ~ k.command.expired
  BY <1>1, <1>3, NotedRead
<1>5. PICK l : l = [m EXCEPT !.replies = @ - 1]
  OBVIOUS
<1>6. l \in Controlled /\ l.replies = k.replies - 1 /\ l.command = m.command
      /\ l.baseTag = k.baseTag /\ l.perPacket = k.perPacket
  BY <1>2, <1>4, <1>5 DEF Controlled, Controller
<1>7. PICK e : e = completeDataRead(l, tag, payload)
  OBVIOUS
<1>8. r = IF e.command.state = "data" THEN e ELSE asyncStatus(e, status)
  <2>1. ~ Identifies(k, tag)
    BY <1>3 DEF Identifies
  <2>2. r = continue_command(m, tag, payload, status)
    BY <1>1, <1>3, <2>1 DEF ata_response
  <2> QED BY <1>3, <1>4, <1>5, <1>7, <2>2 DEF continue_command
<1>9. e \in Controlled /\ Follows(l, e) /\ e.replies = l.replies
  BY <1>6, <1>7, CompleteDataReadTyped, CompleteDataReadFollows
<1>10. \A i : i - 1 - Place(l, tag) = i - 1 - Place(k, tag)
  BY <1>4, <1>6 DEF Place
<1> DEFINE n == MIN(k.command.sectors - k.command.actual, MIN(k.perPacket, Len(payload)))
           Here(i) == i - 1 - Place(k, tag)
           data == [i \in DOMAIN k.command.data |->
             IF Here(i) \in 0 .. n - 1 THEN payload[Here(i) + 1] ELSE k.command.data[i]]
<1>11. l.command \in Command /\ l \in Controller
  BY <1>6 DEF Controlled, Sized
<1>12. PICK a : a = asyncStatus(e, status)
  OBVIOUS
<1>13. /\ Follows(e, a) /\ a.replies = e.replies
       /\ a.command.data = e.command.data /\ a.command.actual = e.command.actual
       /\ a.command.state = "complete"
  BY <1>9, <1>12, AsyncStatusFollows, StatusKeepsData
<1>14. r = IF e.command.state = "data" THEN e ELSE a
  BY <1>8, <1>12
<1>15. /\ r.baseTag = k.baseTag /\ r.perPacket = k.perPacket /\ r.replies = k.replies - 1
       /\ r.command.kind = k.command.kind /\ r.command.lba = k.command.lba
       /\ r.command.sectors = k.command.sectors /\ r.command.chunk = k.command.chunk
       /\ r.command.awaited = m.command.awaited /\ r.command.clean = m.command.clean
       /\ r.command.failed = m.command.failed
       /\ r.command.data = e.command.data /\ r.command.actual = e.command.actual
       /\ r.command.state = IF e.command.state = "data" THEN "data" ELSE "complete"
  BY <1>4, <1>6, <1>9, <1>13, <1>14 DEF Follows
<1>16. ASSUME k.command.sectors - k.command.actual < 1 \/ k.command.expired
       PROVE  e.command.data = k.command.data /\ e.command.state = "status"
  <2>1. e = [l EXCEPT !.command.state = "status"]
    BY <1>4, <1>6, <1>7, <1>16 DEF completeDataRead
  <2>2. PICK c : c = [l.command EXCEPT !.state = "status"]
    OBVIOUS
  <2>3. e = [l EXCEPT !.command = c]
    BY <1>11, <2>1, <2>2 DEF Controller
  <2>4. e.command = c /\ c.data = l.command.data /\ c.state = "status"
    BY <1>11, <2>2, <2>3 DEF Controller, Command
  <2> QED BY <1>4, <1>6, <2>4
<1>17. ASSUME ~ (k.command.sectors - k.command.actual < 1 \/ k.command.expired)
       PROVE  /\ e.command.data = data /\ e.command.actual = k.command.actual + n
              /\ e.command.state = IF k.replies - 1 # 0 THEN "data" ELSE "status"
  <2>1. PICK st : st = IF k.replies - 1 # 0 THEN "data" ELSE "status"
    OBVIOUS
  <2>2. PICK d : d = data
    OBVIOUS
  <2>3. PICK actual : actual = k.command.actual + n
    OBVIOUS
  <2>4. l.command.data = k.command.data /\ l.command.actual = k.command.actual
        /\ l.command.sectors = k.command.sectors /\ l.perPacket = k.perPacket
        /\ l.command.expired = k.command.expired
        /\ Place(l, tag) = Place(k, tag)
    BY <1>4, <1>6 DEF Place
  <2>5. e = [l EXCEPT !.command.data = d, !.command.actual = actual, !.command.state = st]
    BY <1>6, <1>7, <1>17, <2>1, <2>2, <2>3, <2>4 DEF completeDataRead
  <2>6. PICK c : c = [l.command EXCEPT !.data = d, !.actual = actual, !.state = st]
    OBVIOUS
  <2>7. e = [l EXCEPT !.command = c]
    BY <1>11, <2>5, <2>6 DEF Controller
  <2>8. e.command = c /\ c.data = d /\ c.actual = actual /\ c.state = st
    BY <1>11, <2>6, <2>7 DEF Controller, Command
  <2> QED BY <2>1, <2>2, <2>3, <2>8
<1>18. /\ (k.command.sectors - k.command.actual < 1 \/ k.command.expired) =>
            r.command.data = k.command.data /\ r.command.state = "complete"
       /\ ~ (k.command.sectors - k.command.actual < 1 \/ k.command.expired) =>
            /\ r.command.data = data
            /\ r.command.actual = k.command.actual + n
            /\ r.command.state = IF r.replies # 0 THEN "data" ELSE "complete"
  <2> HIDE DEF data, n
  <2> QED BY <1>15, <1>16, <1>17
<1>19. r.command.clean =>
              /\ k.command.clean /\ tag \in k.command.awaited
              /\ r.command.awaited = k.command.awaited \ {tag}
              /\ ~ r.command.failed => ~ k.command.failed /\ status # "error"
              /\ ~ k.command.expired
  BY <1>4, <1>15
<1> HIDE DEF data
<1> QED
  <2>1. /\ r.baseTag = k.baseTag /\ r.perPacket = k.perPacket /\ r.replies = k.replies - 1
        /\ r.command.kind = k.command.kind /\ r.command.lba = k.command.lba
        /\ r.command.sectors = k.command.sectors /\ r.command.chunk = k.command.chunk
    BY <1>15
  <2> QED BY <1>18, <1>19, <2>1, Zenon DEF ReadOn, data

\* What is known of packet p, which is awaited by the clean read of k.
AwaitedPacket(k, p) ==
  LET c == k.command IN
  /\ p.tag \in c.awaited /\ p.kind = "read"
  /\ p.lba = c.lba + Place(k, p.tag) /\ Filled(c, p)
  /\ p.lba + p.count <= c.lba + c.sectors

\* As many packets are awaited as replies, and the packet's sectors still fit.
LEMMA PacketFits ==
  ASSUME NEW k \in Controlled, Room(k), NEW p \in Packet, AwaitedPacket(k, p),
         \A tag \in k.command.awaited : Place(k, tag) < k.command.sectors,
         IsFiniteSet(k.command.awaited), k.replies = Cardinality(k.command.awaited)
  PROVE  /\ k.replies \in Nat \ {0}
         /\ k.command.actual + p.count <= k.command.sectors
<1> DEFINE c == k.command
<1>1. PICK h \in Nat : h = c.chunk
  BY DEF Controlled, Sized, Command
<1>2. PICK S \in Nat : S = c.sectors
  BY DEF Controlled, Sized, Command
<1>3. PICK A \in Nat : A = c.actual
  BY DEF Controlled, Sized, Command
<1>4. /\ c.awaited \subseteq Nat /\ \A tag \in c.awaited : Place(k, tag) \in Int
  <2>1. c.awaited \subseteq Nat
    BY ConstantsTyped DEF Controlled, Sized, Command
  <2> QED BY <2>1, PlacesGrow
<1>5. PICK P \in Int : P = Place(k, p.tag)
  BY <1>4 DEF AwaitedPacket
<1>6. PICK n \in Nat : n = p.count
  BY DEF Packet
<1>7. PICK lba \in Nat : lba = c.lba
  BY DEF Controlled, Sized, Command
<1>8. n <= h /\ P + n <= S
  <2>1. n <= h
    BY <1>1, <1>6 DEF AwaitedPacket, Filled
  <2>2. p.lba = lba + P /\ p.lba + n <= lba + S
    BY <1>2, <1>5, <1>6, <1>7 DEF AwaitedPacket
  <2> QED BY <2>1, <2>2
<1>9. PICK R \in Nat \ {0} : R = k.replies
  <2>1. c.awaited # {}
    BY DEF AwaitedPacket
  <2> QED BY <2>1, FS_CardinalityType, FS_EmptySet
<1>10. \A a \in Nat \ {0} : a * h \in Nat /\ (a - 1) * h \in Nat /\ h <= a * h
  <2> SUFFICES ASSUME NEW a \in Nat \ {0}
               PROVE  a * h \in Nat /\ (a - 1) * h \in Nat /\ h <= a * h
    OBVIOUS
  <2>1. PICK b \in Nat : a = b + 1
    OBVIOUS
  <2>2. a * h = b * h + h /\ a - 1 = b
    BY <2>1
  <2>3. b * h \in Nat
    OBVIOUS
  <2> QED BY <2>2, <2>3
<1>11. CASE P + h > S
  <2>1. PICK m \in Nat : m = (R - 1) * h
    BY <1>10
  <2>2. A + m <= P
    BY <1>1, <1>2, <1>3, <1>5, <1>9, <1>11, <2>1 DEF Room, AwaitedPacket
  <2>3. A + n <= S
    BY <1>8, <2>2
  <2> QED BY <1>2, <1>3, <1>6, <1>9, <2>3
<1>12. CASE ~ (P + h > S) /\ \E L \in c.awaited : Place(k, L) + h > S
  <2>1. PICK L \in c.awaited : Place(k, L) + h > S
    BY <1>12
  <2>2. PICK Q \in Int : Q = Place(k, L)
    BY <1>4
  <2>3. L # p.tag
    BY <1>5, <1>12, <2>1
  <2>4. R # 1
    BY <1>9, <2>3, FS_Singleton DEF AwaitedPacket
  <2>5. PICK b \in Nat \ {0} : R - 1 = b
    BY <2>4
  <2>6. PICK m \in Nat : m = b * h /\ h <= m
    BY <1>10
  <2>7. A + m <= Q
    <3>1. A + (R - 1) * h <= Q
      BY <1>1, <1>2, <1>3, <1>9, <2>1, <2>2 DEF Room
    <3> QED BY <2>5, <2>6, <3>1
  <2>8. Q < S
    BY <1>2, <2>2
  <2>9. A + n <= S
    BY <1>8, <2>6, <2>7, <2>8
  <2> QED BY <1>2, <1>3, <1>6, <1>9, <2>9
<1>13. CASE \A L \in c.awaited : Place(k, L) + h <= S
  <2>1. PICK m \in Nat : m = R * h /\ h <= m
    BY <1>10
  <2>2. A + m <= S
    BY <1>1, <1>2, <1>3, <1>9, <1>13, <2>1 DEF Room
  <2>3. A + n <= S
    BY <1>8, <2>1, <2>2
  <2> QED BY <1>2, <1>3, <1>6, <1>9, <2>3
<1>14. \A L \in c.awaited : ~ (Place(k, L) + h > S) => Place(k, L) + h <= S
  BY <1>4
<1> QED BY <1>11, <1>12, <1>13, <1>14

\* What the answer to a packet of a read carries (completeDataRead takes it all).
LEMMA PayloadOfRead ==
  ASSUME NEW p \in Packet, p.kind = "read", NEW status \in {"ok", "error"}
  PROVE  /\ Len(Payload(p, status)) = IF status = "error" THEN 0 ELSE p.count
         /\ status # "error" => \A j \in 1 .. p.count : Payload(p, status)[j] = p.lba + j - 1
<1>1. p.count \in Nat /\ p.lba \in Nat
  BY DEF Packet
<1>2. CASE status = "error"
  <2>1. Payload(p, status) = <<>>
    BY <1>2 DEF Payload
  <2> QED BY <1>2, <2>1
<1>3. CASE status # "error"
  <2>1. Payload(p, status) = [i \in 1 .. p.count |-> p.lba + i - 1]
    BY <1>3 DEF Payload
  <2>2. PICK f : f = [i \in 1 .. p.count |-> p.lba + i - 1]
    OBVIOUS
  <2>3. f \in [1 .. p.count -> Int]
    BY <1>1, <2>2
  <2>4. f \in Seq(Int) /\ Len(f) = p.count
    <3>1. f \in Seq(Int)
      BY <1>1, <2>3, SeqDef
    <3> QED BY <1>1, <2>3, <3>1, LenProperties
  <2> QED BY <1>3, <2>1, <2>2, <2>4
<1> QED BY <1>2, <1>3

\* The answer to an awaited packet of a clean read: its sectors are taken, there
\* is room for the packets still awaited, and they are what the buffer misses.
LEMMA AwaitedRead ==
  ASSUME NEW k \in Controlled, ReadAwaits(k), k.command.state # "started",
         DOMAIN k.command.data = 1 .. k.command.sectors,
         NEW p \in Packet, AwaitedPacket(k, p),
         IsFiniteSet(k.command.awaited), k.replies = Cardinality(k.command.awaited),
         NEW status \in {"ok", "error"},
         NEW r, ReadOn(k, p.tag, Payload(p, status), status, r), r.command.clean
  PROVE  /\ ReadAwaits(r) /\ r.command.state \in {"data", "complete"}
         /\ r.command.state = "complete" => r.command.awaited = {}
<1> DEFINE c == k.command
           d == r.command
<1>1. PICK h \in Nat : h = c.chunk
  BY DEF Controlled, Sized, Command
<1>2. PICK S \in Nat : S = c.sectors
  BY DEF Controlled, Sized, Command
<1>3. PICK A \in Nat : A = c.actual
  BY DEF Controlled, Sized, Command
<1>4. /\ c.awaited \subseteq Nat /\ \A tag \in c.awaited : Place(k, tag) \in Int
  <2>1. c.awaited \subseteq Nat
    BY ConstantsTyped DEF Controlled, Sized, Command
  <2> QED BY <2>1, PlacesGrow
<1>5. PICK P \in Int : P = Place(k, p.tag)
  BY <1>4 DEF AwaitedPacket
<1>6. PICK q \in Nat : q = p.count
  BY DEF Packet
<1>7. PICK lba \in Nat : lba = c.lba
  BY DEF Controlled, Sized, Command
<1>8. /\ p.tag \in c.awaited /\ p.kind = "read" /\ p.lba = lba + P /\ 1 <= q /\ q <= h
      /\ q = h \/ P + q = S
      /\ P + q <= S
  <2>1. /\ p.tag \in c.awaited /\ p.kind = "read" /\ q \in 1 .. h
        /\ q = h \/ p.lba + q = lba + S
        /\ p.lba + q <= lba + S
    BY <1>1, <1>2, <1>6, <1>7 DEF AwaitedPacket, Filled
  <2>2. p.lba = lba + P
    BY <1>5, <1>7 DEF AwaitedPacket
  <2> QED BY <2>1, <2>2
<1>9. /\ h = MIN(k.perPacket, S) /\ k.perPacket \in Nat
      /\ \A tag \in c.awaited : Place(k, tag) < S
      /\ \A tag \in c.awaited : k.baseTag # 0 /\ tag >= k.baseTag
      /\ Room(k)
  BY <1>1, <1>2 DEF ReadAwaits, Controlled, Controller
<1>10. PICK R \in Nat \ {0} : R = k.replies /\ A + q <= S
  BY <1>2, <1>3, <1>6, <1>9, PacketFits
<1>11. PICK payload : payload = Payload(p, status)
  OBVIOUS
<1>12. /\ Len(payload) = IF status = "error" THEN 0 ELSE q
       /\ status # "error" => \A j \in 1 .. q : payload[j] = p.lba + j - 1
  BY <1>6, <1>8, <1>11, PayloadOfRead
<1>13. PICK n \in 0 .. q : /\ n = MIN(S - A, MIN(k.perPacket, Len(payload)))
                           /\ status # "error" => n = q
  <2>1. q <= k.perPacket
    BY <1>8, <1>9, <1>2 DEF MIN
  <2>2. q <= S - A /\ S - A \in Nat
    BY <1>10
  <2>3. CASE status = "error"
    BY <1>9, <1>12, <2>2, <2>3 DEF MIN
  <2>4. CASE status # "error"
    BY <1>9, <1>12, <2>1, <2>2, <2>4 DEF MIN
  <2> QED BY <2>3, <2>4
<1>14. ~ (c.sectors - c.actual < 1 \/ c.expired)
  <2>1. ~ c.expired
    BY <1>11 DEF ReadOn
  <2> QED BY <1>2, <1>3, <1>8, <1>10, <2>1
<1>15. /\ r.baseTag = k.baseTag /\ r.perPacket = k.perPacket /\ r.replies = R - 1
       /\ d.sectors = S /\ d.chunk = h /\ d.lba = lba
       /\ d.awaited = c.awaited \ {p.tag}
       /\ ~ d.failed => ~ c.failed /\ status # "error"
       /\ d.actual = A + n
       /\ d.state = IF r.replies # 0 THEN "data" ELSE "complete"
  BY <1>1, <1>2, <1>3, <1>7, <1>10, <1>11, <1>13, <1>14 DEF ReadOn
<1>16. d.data = [i \in DOMAIN c.data |->
         IF i - 1 - P \in 0 .. n - 1 THEN payload[i - 1 - P + 1] ELSE c.data[i]]
  BY <1>2, <1>3, <1>5, <1>11, <1>13, <1>14 DEF ReadOn
<1>17. \A tag : Place(r, tag) = Place(k, tag)
  BY <1>1, <1>15 DEF Place
<1>18. d.state = "complete" => d.awaited = {}
  <2> SUFFICES ASSUME d.state = "complete" PROVE d.awaited = {}
    OBVIOUS
  <2>1. R = 1
    BY <1>15
  <2>2. Cardinality(c.awaited) = 1
    BY <1>10, <2>1
  <2>3. PICK e : c.awaited = {e}
    BY <2>2, FS_Singleton
  <2> QED BY <1>8, <1>15, <2>3
<1>19. \A L \in d.awaited : Place(r, L) + h > S => d.actual + (r.replies - 1) * h <= Place(r, L)
  <2> SUFFICES ASSUME NEW L \in d.awaited, Place(r, L) + h > S
               PROVE  d.actual + (r.replies - 1) * h <= Place(r, L)
    OBVIOUS
  <2>1. PICK Q \in Int : Q = Place(k, L) /\ L \in c.awaited
    BY <1>4, <1>15
  <2>2. A + (R - 1) * h <= Q
    BY <1>1, <1>2, <1>3, <1>9, <1>10, <1>17, <2>1 DEF Room
  <2>3. PICK b \in Int : b = R - 1 - 1
    OBVIOUS
  <2>4. PICK m \in Int : m = b * h /\ (R - 1) * h = m + h
    <3>1. R - 1 = b + 1
      BY <2>3
    <3>2. (b + 1) * h = b * h + h /\ b * h \in Int
      OBVIOUS
    <3> QED BY <3>1, <3>2
  <2>5. A + n + m <= Q
    <3>1. A + (m + h) <= Q
      BY <2>2, <2>4
    <3>2. n <= h
      BY <1>8, <1>13
    <3> QED BY <2>1, <2>4, <3>1, <3>2
  <2>6. A + n + (R - 1 - 1) * h <= Q
    BY <2>3, <2>4, <2>5
  <2> QED BY <1>15, <1>17, <2>1, <2>6
<1>20. (\A L \in d.awaited : Place(r, L) + h <= S) => d.actual + r.replies * h <= S
  <2> SUFFICES ASSUME \A L \in d.awaited : Place(r, L) + h <= S
               PROVE  d.actual + r.replies * h <= S
    OBVIOUS
  <2>1. PICK m \in Nat : m = (R - 1) * h /\ R * h = m + h
    <3>1. PICK b \in Nat : b = R - 1 /\ R = b + 1
      OBVIOUS
    <3>2. (b + 1) * h = b * h + h /\ b * h \in Nat
      OBVIOUS
    <3> QED BY <3>1, <3>2
  <2>2. CASE P + h > S
    <3>1. A + m <= P
      BY <1>1, <1>2, <1>3, <1>5, <1>8, <1>9, <1>10, <2>1, <2>2 DEF Room
    <3>2. A + n + m <= S
      BY <1>8, <1>13, <3>1
    <3> QED BY <1>15, <2>1, <3>2
  <2>3. CASE P + h <= S
    <3>1. \A L \in c.awaited : Place(k, L) + h <= S
      BY <1>5, <1>15, <1>17, <2>3
    <3>2. A + R * h <= S
      BY <1>1, <1>2, <1>3, <1>9, <1>10, <3>1 DEF Room
    <3>3. A + m + h <= S
      BY <2>1, <3>2
    <3>4. A + n + m <= S
      BY <1>8, <1>13, <3>3
    <3> QED BY <1>15, <2>1, <3>4
  <2> QED BY <2>2, <2>3
<1>21. Room(r)
  <2> HIDE DEF d
  <2>1. r.command.chunk = h /\ r.command.sectors = S
    BY <1>15 DEF d
  <2> QED BY <1>19, <1>20, <2>1, Zenon DEF Room, d
<1>22. ~ d.failed => \A i \in 1 .. d.sectors : d.data[i] = Unset => ToCome(r, i)
  <2> SUFFICES ASSUME ~ d.failed, NEW i \in 1 .. S, d.data[i] = Unset
               PROVE  ToCome(r, i)
    BY <1>15
  <2>1. ~ c.failed /\ n = q /\ status # "error"
    BY <1>13, <1>15
  <2>2. ~ (i - 1 - P \in 0 .. q - 1) /\ c.data[i] = Unset
    <3>1. i \in DOMAIN c.data
      BY <1>2
    <3>2. d.data[i] = IF i - 1 - P \in 0 .. n - 1 THEN payload[i - 1 - P + 1] ELSE c.data[i]
      BY <1>16, <3>1
    <3>3. ASSUME i - 1 - P \in 0 .. q - 1 PROVE FALSE
      <4>1. PICK j \in 1 .. q : j = i - 1 - P + 1
        BY <3>3
      <4>2. d.data[i] = lba + P + j - 1
        <5>1. d.data[i] = payload[j]
          BY <2>1, <3>2, <3>3, <4>1
        <5> QED BY <1>8, <1>12, <2>1, <5>1
      <4>3. lba + P + j - 1 = lba + i - 1
        BY <4>1
      <4> QED BY <4>2, <4>3 DEF Unset
    <3> QED BY <2>1, <3>2, <3>3
  <2>3. ToCome(k, i)
    BY <1>2, <2>1, <2>2 DEF ReadAwaits
  <2>4. PICK L \in c.awaited : Place(k, L) <= i - 1 /\ i - 1 < Place(k, L) + h
    BY <1>1, <2>3 DEF ToCome
  <2>5. L # p.tag
    BY <1>5, <1>8, <2>2, <2>4
  <2> QED BY <1>15, <1>17, <2>4, <2>5 DEF ToCome
<1>23. \A tag \in d.awaited : r.baseTag # 0 /\ tag >= r.baseTag /\ Place(r, tag) < d.sectors
  BY <1>9, <1>15, <1>17
<1>24. d.chunk = MIN(r.perPacket, d.sectors)
  BY <1>9, <1>15
<1>25. ReadAwaits(r)
  <2> HIDE DEF d
  <2> QED BY <1>21, <1>22, <1>23, <1>24, Zenon DEF ReadAwaits, d
<1> QED BY <1>15, <1>18, <1>25

\* An answer leaves the order of a read's packets as it is.
LEMMA OrderAnswered ==
  ASSUME Registry, NEW t \in Targets, NEW k \in Controlled, k = controller[t],
         ReadOrder(t), k.command.state # "started",
         NEW tag, NEW payload, NEW status, NEW r, r = controller'[t],
         ReadOn(k, tag, payload, status, r),
         currentTag' = currentTag, outstanding' \subseteq outstanding
  PROVE  ReadOrder(t)'
<1>1. /\ r.baseTag = k.baseTag /\ r.command.lba = k.command.lba
      /\ r.command.sectors = k.command.sectors /\ r.command.chunk = k.command.chunk
  BY DEF ReadOn
<1>2. DOMAIN r.command.data = DOMAIN k.command.data /\ r.command.state # "started"
  BY DEF ReadOn
<1>3. \A n : Place(r, n) = Place(k, n)
  BY <1>1 DEF Place
<1>4. \A p : ReadPacket(k, p) => ReadPacket(r, p)
  BY <1>1, <1>3 DEF ReadPacket, Filled
<1>5. /\ DOMAIN k.command.data = 1 .. k.command.sectors
      /\ \E n \in SectorsPerPacket : k.command.chunk = MIN(n, k.command.sectors)
      /\ k.command.chunk > 0 /\ k.baseTag <= currentTag
      /\ k.baseTag # 0 /\ Place(k, currentTag + 1) >= k.command.sectors
      /\ \A p \in outstanding : p.target = t => ReadPacket(k, p)
  BY DEF ReadOrder
<1>6. /\ DOMAIN r.command.data = 1 .. r.command.sectors
      /\ \E n \in SectorsPerPacket : r.command.chunk = MIN(n, r.command.sectors)
      /\ r.command.chunk > 0 /\ r.baseTag <= currentTag'
      /\ r.baseTag # 0 /\ Place(r, currentTag' + 1) >= r.command.sectors
      /\ \A p \in outstanding' : p.target = t => ReadPacket(r, p)
  BY <1>1, <1>2, <1>3, <1>4, <1>5, Zenon
<1> QED BY <1>2, <1>6 DEF ReadOrder

\* With ports of one MTU, the answer to whatever packet puts sectors of a read where
\* they belong, or nothing (AoEController.cpp:1440-1480).
LEMMA PlacedWell ==
  ASSUME Registry, OneMtu, NEW t \in Targets, NEW k \in Controlled, k = controller[t],
         k.perPacket \in SectorsPerPacket,
         ReadOrder(t), k.command.state # "started", k.command.kind = "read", InPlace(k),
         NEW p \in outstanding, p.target = t, NEW status \in {"ok", "error"},
         NEW r, ReadOn(k, p.tag, Payload(p, status), status, r)
  PROVE  InPlace(r)
<1> DEFINE c == k.command
<1>1. PICK h \in Nat \ {0} : h = c.chunk
  <2>1. c.chunk \in Nat
    BY DEF Controlled, Sized, Command
  <2> QED BY <2>1 DEF ReadOrder
<1>2. PICK S \in Nat : S = c.sectors /\ DOMAIN c.data = 1 .. S
  BY DEF Controlled, Sized, Command, ReadOrder
<1>3. PICK A \in Nat : A = c.actual /\ A <= S
  BY <1>2 DEF Controlled, Sized, Command
<1>4. PICK lba \in Nat : lba = c.lba
  BY DEF Controlled, Sized, Command
<1>5. p \in Packet /\ p.tag \in Nat /\ k.baseTag \in Nat /\ k.baseTag # 0
  BY ConstantsTyped DEF Registry, Traffic, Packet, Controlled, Controller, ReadOrder
<1>6. PICK P \in Int : P = Place(k, p.tag)
  BY <1>5, PlacesGrow
<1>7. PICK m \in Nat \ {0} : m = k.perPacket /\ h = MIN(m, S)
  <2>1. PICK m \in SectorsPerPacket : h = MIN(m, S)
    BY <1>1, <1>2 DEF ReadOrder
  <2>2. m = k.perPacket
    BY DEF OneMtu
  <2> QED BY <2>1, <2>2, ConstantsTyped
<1>8. PICK payload \in Seq(Sector) : payload = Payload(p, status)
  BY <1>5, PayloadTyped
<1>9. PICK n \in Int : n = MIN(S - A, MIN(m, Len(payload))) /\ n <= h /\ n <= Len(payload)
  <2>1. Len(payload) \in Nat
    BY LenProperties
  <2> QED BY <1>3, <1>7, <2>1 DEF MIN
<1>10. /\ r.command.kind = "read" /\ r.command.lba = lba
       /\ \/ r.command.data = c.data
          \/ r.command.data = [i \in DOMAIN c.data |->
               IF i - 1 - P \in 0 .. n - 1 THEN payload[i - 1 - P + 1] ELSE c.data[i]]
  BY <1>2, <1>3, <1>4, <1>6, <1>7, <1>8, <1>9 DEF ReadOn
<1>11. \A i \in 1 .. S : c.data[i] \in {Unset, lba + i - 1}
  BY <1>2, <1>4 DEF InPlace
<1>12. ASSUME NEW i \in 1 .. S, i - 1 - P \in 0 .. n - 1
       PROVE  payload[i - 1 - P + 1] = lba + i - 1
  <2>1. PICK j \in 1 .. n : j = i - 1 - P + 1
    BY <1>12
  <2>2. P + h > 0 /\ P < S
    BY <1>9, <2>1
  <2>3. p.tag >= k.baseTag
    <3>1. p.tag < k.baseTag => P + h <= Place(k, k.baseTag) /\ Place(k, k.baseTag) = 0
      BY <1>1, <1>5, <1>6, PlacesGrow
    <3> QED BY <1>5, <2>2, <3>1
  <2>4. p.kind = "read" /\ p.lba = lba + P
    <3>1. ReadPacket(k, p)
      BY DEF ReadOrder
    <3> QED BY <1>2, <1>4, <1>5, <1>6, <2>2, <2>3, <3>1 DEF ReadPacket
  <2>5. payload[j] = p.lba + j - 1
    <3>1. Len(payload) = IF status = "error" THEN 0 ELSE p.count
      BY <1>5, <1>8, <2>4, PayloadOfRead
    <3>2. status # "error" /\ p.count \in Nat /\ j \in 1 .. p.count
      BY <1>5, <1>9, <2>1, <3>1 DEF Packet
    <3> QED BY <1>5, <1>8, <2>4, <3>2, PayloadOfRead
  <2>6. p.lba + j - 1 = lba + i - 1
    BY <2>1, <2>4
  <2> QED BY <2>1, <2>5, <2>6
<1>13. DOMAIN r.command.data = 1 .. S /\
       \A i \in 1 .. S : r.command.data[i] \in {Unset, lba + i - 1}
  <2>1. CASE r.command.data = c.data
    BY <1>2, <1>11, <2>1
  <2>2. CASE r.command.data = [i \in DOMAIN c.data |->
               IF i - 1 - P \in 0 .. n - 1 THEN payload[i - 1 - P + 1] ELSE c.data[i]]
    <3>1. DOMAIN r.command.data = 1 .. S
      BY <1>2, <2>2
    <3>2. ASSUME NEW i \in 1 .. S PROVE r.command.data[i] \in {Unset, lba + i - 1}
      <4>1. r.command.data[i] =
              IF i - 1 - P \in 0 .. n - 1 THEN payload[i - 1 - P + 1] ELSE c.data[i]
        BY <1>2, <2>2
      <4>2. CASE i - 1 - P \in 0 .. n - 1
        BY <1>12, <4>1, <4>2
      <4>3. CASE ~ (i - 1 - P \in 0 .. n - 1)
        BY <1>11, <4>1, <4>3
      <4> QED BY <4>2, <4>3
    <3> QED BY <3>1, <3>2
  <2> QED BY <1>10, <2>1, <2>2
<1> QED BY <1>10, <1>13 DEF InPlace

\* An answer that carries nothing puts nothing into the buffer (FakeReturnTimer).
LEMMA NothingPlaced ==
  ASSUME NEW k \in Controlled, InPlace(k), k.perPacket \in Nat,
         NEW tag, NEW status, NEW r, ReadOn(k, tag, <<>>, status, r)
  PROVE  InPlace(r)
<1>1. Len(<<>>) = 0 /\ k.command.sectors \in Nat /\ k.command.actual \in Nat
      /\ k.command.actual <= k.command.sectors
  BY DEF Controlled, Sized, Command
<1>2. PICK n \in Int :
        n = MIN(k.command.sectors - k.command.actual, MIN(k.perPacket, Len(<<>>))) /\ n <= 0
  BY <1>1 DEF MIN
<1>3. r.command.kind = k.command.kind /\ r.command.lba = k.command.lba
  BY DEF ReadOn
<1>4. CASE k.command.sectors - k.command.actual < 1 \/ k.command.expired
  BY <1>3, <1>4 DEF ReadOn, InPlace
<1>5. CASE ~ (k.command.sectors - k.command.actual < 1 \/ k.command.expired)
  <2>1. r.command.data = [i \in DOMAIN k.command.data |->
          IF i - 1 - Place(k, tag) \in 0 .. n - 1
            THEN <<>>[i - 1 - Place(k, tag) + 1] ELSE k.command.data[i]]
    BY <1>2, <1>5 DEF ReadOn
  <2>2. \A j : ~ (j \in 0 .. n - 1)
    BY <1>2
  <2>3. /\ DOMAIN r.command.data = DOMAIN k.command.data
        /\ \A i \in DOMAIN k.command.data : r.command.data[i] = k.command.data[i]
    BY <2>1, <2>2
  <2> QED BY <1>3, <2>3 DEF InPlace
<1> QED BY <1>4, <1>5

\* Without a command, an answer changes nothing of the last one (ata_response).
LEMMA IdleAnswered ==
  ASSUME NEW k \in Controlled, ~ Busy(k), NEW tag, NEW payload, NEW status, NEW capacity,
         NEW r, r = ata_response(k, tag, payload, status, capacity)
  PROVE  r.command = k.command
<1>1. noted(k, tag, status) = k
  BY DEF noted
<1>2. r = [k EXCEPT !.identTag = 0, !.capacity = capacity] \/ r = k
  BY <1>1 DEF ata_response
<1> QED BY <1>2 DEF Controlled, Controller

\* A write ends with the last reply it waits for (AoEController.cpp:427-436).
LEMMA WriteAnswered ==
  ASSUME NEW k \in Controlled, Busy(k), k.command.kind = "write", NEW tag \in Tags,
         NEW payload \in Seq(Sector), NEW status \in {"ok", "error"}, NEW capacity,
         NEW r, r = ata_response(k, tag, payload, status, capacity), ~ Busy(r)
  PROVE  /\ k.replies - 1 = 0
         /\ r.command.clean => /\ tag \in k.command.awaited
                               /\ r.command.awaited = k.command.awaited \ {tag}
<1>1. PICK m : m = noted(k, tag, status)
  OBVIOUS
<1>2. /\ m.replies = k.replies /\ m.command.kind = "write"
      /\ m.command.state = k.command.state
      /\ m.command.clean => /\ tag \in k.command.awaited
                            /\ m.command.awaited = k.command.awaited \ {tag}
  BY <1>1, NotedRead
<1>3. m \in Controlled /\ m \in Controller
  BY <1>1, NotedTyped DEF Controlled
<1>4. ~ Identifies(k, tag)
  BY DEF Identifies
<1>5. r = continue_command(m, tag, payload, status)
  BY <1>1, <1>4 DEF ata_response
<1>6. ASSUME k.replies - 1 # 0 PROVE FALSE
  <2>1. PICK l : l = [m EXCEPT !.replies = @ - 1]
    OBVIOUS
  <2>2. l \in Controller /\ l.replies = k.replies - 1 /\ l.command = m.command
    BY <1>2, <1>3, <2>1 DEF Controller
  <2>3. PICK previous : previous = IF l.previousWrite = "none" THEN status ELSE l.previousWrite
    OBVIOUS
  <2>4. r = [l EXCEPT !.previousWrite = previous]
    BY <1>2, <1>5, <1>6, <2>1, <2>2, <2>3 DEF continue_command
  <2>5. r.command = m.command
    BY <2>2, <2>4 DEF Controller
  <2> QED BY <1>2, <2>5 DEF Busy
<1>7. Follows(m, r)
  BY <1>3, <1>5, ContinueFollows
<1>8. r.command.clean => /\ tag \in k.command.awaited
                         /\ r.command.awaited = k.command.awaited \ {tag}
  BY <1>2, <1>7 DEF Follows
<1>9. k.replies \in Int
  BY DEF Controlled, Controller
<1> QED BY <1>6, <1>8, <1>9

\* Whatever is answered while no read is in progress leaves a whole transfer whole.
LEMMA OtherAnswered ==
  ASSUME Registry, Transfers, NEW t \in Targets, NEW k \in Controlled, k = controller[t],
         \A i \in DOMAIN sending : sending[i].kind = "ident",
         ~ InRead(k), Whole(k),
         NEW tag \in Tags, NEW payload \in Seq(Sector), NEW status \in {"ok", "error"},
         NEW capacity \in Nat, NEW r, r = ata_response(k, tag, payload, status, capacity)
  PROVE  ~ InRead(r) /\ Whole(r) /\ (InPlace(k) => InPlace(r))
<1>1. CASE ~ Busy(k)
  <2>1. r.command = k.command
    BY <1>1, IdleAnswered
  <2> QED BY <1>1, <2>1 DEF InRead, Whole, InPlace, Busy
<1>2. CASE Busy(k)
  <2>1. Onward(k, r) /\ r.command.kind # "read"
    BY <1>2, ResponseOnward DEF Onward, InRead
  <2>2. ~ InRead(r) /\ InPlace(r)
    BY <2>1 DEF InRead, InPlace
  <2>3. CASE k.command.kind # "write"
    BY <2>1, <2>2, <2>3 DEF Onward, Whole, Transfer
  <2>4. CASE k.command.kind = "write"
    <3> SUFFICES ASSUME ~ Busy(r), r.command.clean PROVE r.command.awaited = {}
      BY <2>1, <2>2 DEF Whole, Busy
    <3>1. k.replies - 1 = 0 /\ k.replies \in Int
      BY <1>2, <2>4, WriteAnswered DEF Controlled, Controller
    <3>2. InTransfer(t) /\ controller[t].command.clean
      BY <1>2, <2>1, <2>4 DEF Onward, InTransfer, Transfer
    <3>3. Unsent(k.command) = 0
      BY NothingStarted
    <3>4. k.replies = Cardinality(k.command.awaited) + Unsent(k.command)
      BY <3>2 DEF Transfers, RepliesCounted
    <3>5. PICK n \in Nat : n = Cardinality(k.command.awaited)
      BY AwaitedFinite, FS_CardinalityType
    <3>6. n = 1
      <4>1. k.replies = n + 0
        BY <3>3, <3>4, <3>5
      <4> QED BY <3>1, <4>1
    <3>7. PICK e : k.command.awaited = {e}
      BY <3>5, <3>6, AwaitedFinite, FS_Singleton
    <3>8. tag \in k.command.awaited /\ r.command.awaited = k.command.awaited \ {tag}
      BY <1>2, <2>4, WriteAnswered
    <3> QED BY <3>7, <3>8
  <2> QED BY <2>3, <2>4
<1> QED BY <1>1, <1>2

\* The packet an answer is for; the driver makes one up with tag 0 and no data.
AnswerTo(t, tag, payload, status) ==
  \/ tag = 0 /\ payload = <<>>
  \/ \E p \in outstanding : p.target = t /\ p.tag = tag /\ payload = Payload(p, status)

\* The answer to a read: the order of its packets, what it waits for, and what its
\* buffer misses go on to agree (ata_response).
LEMMA ReadRespond ==
  ASSUME Registry, Transfers, NEW t \in Known, NEW k \in Controlled, k = controller[t],
         InRead(k), ReadKept(t), \A i \in DOMAIN sending : sending[i].kind = "ident",
         NEW tag \in Tags, NEW payload \in Seq(Sector), NEW status \in {"ok", "error"},
         NEW capacity \in Nat, AnswerTo(t, tag, payload, status),
         NEW r, r = controller'[t], r = ata_response(k, tag, payload, status, capacity),
         currentTag' = currentTag, outstanding' \subseteq outstanding
  PROVE  /\ ReadKept(t)'
         /\ (OneMtu /\ InPlace(k)) => InPlace(r)
<1>1. ReadOn(k, tag, payload, status, r)
  BY ReadAnswered
<1>2. t \in Targets /\ k.perPacket \in SectorsPerPacket /\ k.perPacket \in Nat
  BY AgedTyped, ConstantsTyped DEF Registry, Registered
<1>3. k.command.state # "started"
  BY <1>2, NothingStarted
<1>4. ReadOrder(t)
  BY DEF ReadKept
<1>5. ReadOrder(t)'
  BY <1>1, <1>2, <1>3, <1>4, OrderAnswered
<1>6. k.command.kind = "read" /\ Busy(k) /\ r.command.kind = "read"
  BY <1>1 DEF InRead, ReadOn
<1>7. ASSUME OneMtu, InPlace(k) PROVE InPlace(r)
  <2>1. CASE tag = 0 /\ payload = <<>>
    BY <1>1, <1>2, <1>7, <2>1, NothingPlaced
  <2>2. CASE \E p \in outstanding : p.target = t /\ p.tag = tag /\ payload = Payload(p, status)
    BY <1>1, <1>2, <1>3, <1>4, <1>6, <1>7, <2>2, PlacedWell
  <2> QED BY <2>1, <2>2 DEF AnswerTo
<1>8. ASSUME r.command.clean
      PROVE  /\ ReadAwaits(r) /\ r.command.state \in {"data", "complete"}
             /\ r.command.state = "complete" => r.command.awaited = {}
  <2>1. k.command.clean /\ tag \in k.command.awaited
    BY <1>1, <1>8 DEF ReadOn
  <2>2. ReadAwaits(k)
    BY <2>1 DEF ReadKept
  <2>3. /\ k.baseTag # 0 /\ tag >= k.baseTag /\ Place(k, tag) < k.command.sectors
        /\ k.baseTag \in Nat /\ tag \in Nat /\ k.command.sectors \in Nat
        /\ Place(k, tag) \in Int
    <3>1. k.baseTag \in Nat /\ tag \in Nat /\ k.command.sectors \in Nat
      BY ConstantsTyped DEF Controlled, Controller, Sized, Command
    <3>2. Place(k, tag) \in Int
      BY <3>1, PlacesGrow
    <3> QED BY <2>1, <2>2, <3>1, <3>2 DEF ReadAwaits
  <2>4. tag # 0
    BY <2>3
  <2>5. PICK p \in outstanding : p.target = t /\ p.tag = tag /\ payload = Payload(p, status)
    BY <2>4 DEF AnswerTo
  <2>6. ReadPacket(k, p)
    BY <1>4, <2>5 DEF ReadOrder
  <2>7. p.kind = "read" /\ p.lba = k.command.lba + Place(k, tag) /\ Filled(k.command, p)
    BY <2>3, <2>5, <2>6 DEF ReadPacket
  <2>8. InTransfer(t)
    BY <1>6 DEF InTransfer, Transfer
  <2>9. p.lba + p.count <= k.command.lba + k.command.sectors
    BY <2>1, <2>5, <2>8 DEF Transfers, PacketsInTransfer
  <2>10. AwaitedPacket(k, p) /\ p \in Packet
    BY <2>1, <2>5, <2>7, <2>9 DEF AwaitedPacket, Registry, Traffic
  <2>11. k.replies = Cardinality(k.command.awaited) /\ IsFiniteSet(k.command.awaited)
    <3>1. k.replies = Cardinality(k.command.awaited) + Unsent(k.command)
      BY <1>2, <2>1, <2>8 DEF Transfers, RepliesCounted
    <3>2. Unsent(k.command) = 0
      BY <1>2, NothingStarted
    <3>3. IsFiniteSet(k.command.awaited)
      BY <1>2, AwaitedFinite
    <3>4. PICK n \in Nat : n = Cardinality(k.command.awaited)
      BY <3>3, FS_CardinalityType
    <3>5. k.replies = n + 0
      BY <3>1, <3>2, <3>4
    <3> QED BY <3>3, <3>4, <3>5
  <2>12. DOMAIN k.command.data = 1 .. k.command.sectors
    BY <1>4 DEF ReadOrder
  <2>13. ReadOn(k, p.tag, Payload(p, status), status, r)
    BY <1>1, <2>5
  <2> QED BY <1>3, <1>8, <2>2, <2>10, <2>11, <2>12, <2>13, AwaitedRead
<1>9. (InRead(r) /\ r.command.clean) => ReadAwaits(r)'
  <2> SUFFICES ASSUME InRead(r), r.command.clean PROVE ReadAwaits(r)'
    OBVIOUS
  <2>1. ReadAwaits(r) /\ r.command.state # "started"
    BY <1>8
  <2>2. \A i : ToCome(r, i) => ToCome(r, i)'
    BY <2>1 DEF ToCome
  <2> QED BY <2>1, <2>2 DEF ReadAwaits
<1>10. Whole(r)
  <2> SUFFICES ASSUME r.command.state = "complete", r.command.clean, ~ r.command.failed,
                      NEW i \in DOMAIN r.command.data
               PROVE  r.command.awaited = {} /\ r.command.data[i] # Unset
    <3>1. r.command.state = "complete" /\ r.command.clean => r.command.awaited = {}
      BY <1>8
    <3> QED BY <3>1 DEF Whole
  <2>1. ReadAwaits(r) /\ r.command.awaited = {}
    BY <1>8
  <2>2. i \in 1 .. r.command.sectors
    BY <1>5 DEF ReadOrder
  <2>3. ~ ToCome(r, i)
    BY <2>1 DEF ToCome
  <2> QED BY <2>1, <2>2, <2>3 DEF ReadAwaits
<1> QED BY <1>5, <1>7, <1>9, <1>10 DEF ReadKept

\* What is known of every command, and of every buffer.
Reads == userSending = <<>> /\ \A t \in Targets : ReadKept(t)

Placed == \A t \in Targets : InPlace(controller[t])

ReadsGoOn ==
  /\ \A t \in Targets : ReadKept(t)'
  /\ (OneMtu /\ Placed) => Placed'

\* While the work loop is free, nothing is issued that could be disturbed.
LEMMA FreeCalm ==
  ASSUME Registry, Transfers, sending = <<>>, currentTag' >= currentTag,
         outstanding' \subseteq outstanding, NEW t \in Targets,
         controller'[t] = NoController \/ StillReads(controller[t], controller'[t])
  PROVE  Calm(t)
<1>1. \A i \in DOMAIN sending : sending[i].kind = "ident"
  OBVIOUS
<1>2. controller[t].command.state # "started"
  BY <1>1, NothingStarted
<1> QED BY <1>2 DEF Calm

\* A step that disturbs no command.
LEMMA AllCalm ==
  ASSUME Registry, Registry', Reads, \A t \in Targets : Calm(t)
  PROVE  ReadsGoOn
<1>1. \A t \in Targets : ReadKept(t)'
  BY CalmKept DEF Reads
<1>2. ASSUME Placed PROVE Placed'
  <2> SUFFICES ASSUME NEW t \in Targets PROVE InPlace(controller'[t])
    BY DEF Placed
  <2>1. controller'[t] = NoController \/ StillReads(controller[t], controller'[t])
    BY DEF Calm
  <2> QED BY <1>2, <2>1, StillWhole DEF Placed
<1> QED BY <1>1, <1>2 DEF ReadsGoOn

\* One target's command goes on as it should, and the others are left alone.
LEMMA OneReads ==
  ASSUME Registry, Registry', Reads, NEW t \in Targets, ReadKept(t)',
         (OneMtu /\ InPlace(controller[t])) => InPlace(controller'[t]),
         \A u \in Targets \ {t} : Calm(u)
  PROVE  ReadsGoOn
<1>1. \A u \in Targets : ReadKept(u)'
  BY CalmKept DEF Reads
<1>2. ASSUME OneMtu, Placed PROVE Placed'
  <2> SUFFICES ASSUME NEW u \in Targets \ {t} PROVE InPlace(controller'[u])
    BY <1>2 DEF Placed
  <2>1. controller'[u] = NoController \/ StillReads(controller[u], controller'[u])
    BY DEF Calm
  <2> QED BY <1>2, <2>1, StillWhole DEF Placed
<1> QED BY <1>1, <1>2 DEF ReadsGoOn

\* An answer, of the transport or made up, counts for the command in progress.
LEMMA RespondReads ==
  ASSUME Registry, Transfers, Registry', Reads, NEW t \in Targets, NEW tag \in Tags,
         NEW payload \in Seq(Sector), NEW status \in {"ok", "error"}, NEW capacity \in Nat,
         Respond(t, tag, payload, status, capacity), AnswerTo(t, tag, payload, status),
         sending = <<>>, currentTag' = currentTag, outstanding' \subseteq outstanding
  PROVE  ReadsGoOn
<1>1. currentTag' >= currentTag
  BY TagsTyped DEF Registry, Traffic
<1>2. controller \in [Targets -> Controlled]
  BY DEF Registry, Registered
<1>3. \/ t \notin Known /\ controller' = controller
      \/ t \in Known /\ controller' = [controller EXCEPT ![t] =
                             ata_response(controller[t], tag, payload, status, capacity)]
      \/ t \in Known /\ controller' = [controller EXCEPT ![t] = NoController]
  BY RespondKeeps DEF Registry
<1>4. \A u \in Targets \ {t} : Calm(u)
  <2>1. \A u \in Targets \ {t} : controller'[u] = controller[u]
    BY <1>2, <1>3
  <2> QED BY <1>1, <2>1, FreeCalm, StillReadsSelf
<1>5. CASE controller' = controller \/ controller' = [controller EXCEPT ![t] = NoController]
  <2>1. controller'[t] = NoController \/ StillReads(controller[t], controller'[t])
    BY <1>2, <1>5, StillReadsSelf
  <2>2. Calm(t)
    BY <1>1, <2>1, FreeCalm
  <2> QED BY <1>4, <2>2, AllCalm
<1>6. CASE t \in Known /\ controller' = [controller EXCEPT ![t] =
             ata_response(controller[t], tag, payload, status, capacity)]
  <2>1. PICK k \in Controlled : k = controller[t]
    BY <1>2
  <2>2. PICK r : r = controller'[t]
    OBVIOUS
  <2>3. r = ata_response(k, tag, payload, status, capacity)
    BY <1>2, <1>6, <2>1, <2>2
  <2>4. \A i \in DOMAIN sending : sending[i].kind = "ident"
    OBVIOUS
  <2>5. ReadKept(t) /\ Whole(k)
    BY <2>1 DEF Reads, ReadKept
  <2>6. CASE InRead(k)
    <3>1. ReadKept(t)' /\ ((OneMtu /\ InPlace(k)) => InPlace(r))
      BY <1>6, <2>1, <2>2, <2>3, <2>4, <2>5, <2>6, ReadRespond
    <3> QED BY <1>4, <2>1, <2>2, <3>1, OneReads
  <2>7. CASE ~ InRead(k)
    <3>1. ~ InRead(r) /\ Whole(r) /\ (InPlace(k) => InPlace(r))
      BY <2>1, <2>3, <2>4, <2>5, <2>7, OtherAnswered
    <3>2. ReadKept(t)'
      BY <2>2, <3>1 DEF ReadKept
    <3> QED BY <1>4, <2>1, <2>2, <3>1, <3>2, OneReads
  <2> QED BY <2>6, <2>7
<1> QED BY <1>3, <1>5, <1>6

\* The transport passes on the answer to a packet.
LEMMA AnswerReads ==
  ASSUME Registry, Transfers, Registry', Reads, NEW p \in outstanding,
         NEW status \in {"ok", "error"}, NEW capacity \in Capacities, Answer(p, status, capacity)
  PROVE  ReadsGoOn
<1>1. /\ sending = <<>> /\ outstanding' = outstanding \ {p} /\ currentTag' = currentTag
      /\ Respond(p.target, p.tag, Payload(p, status), status, capacity)
  BY DEF Answer, WorkLoopFree
<1>2. p \in Packet /\ p.target \in Targets /\ p.tag \in Tags
  BY DEF Registry, Traffic, Packet
<1>3. Payload(p, status) \in Seq(Sector) /\ capacity \in Nat
  BY <1>2, PayloadTyped, ConstantsTyped
<1>4. AnswerTo(p.target, p.tag, Payload(p, status), status)
  BY DEF AnswerTo
<1> QED BY <1>1, <1>2, <1>3, <1>4, RespondReads

\* The answer FakeReturnTimer makes up, with tag 0.
LEMMA FakeReturnReads ==
  ASSUME Registry, Transfers, Registry', Reads, FakeReturnTimer
  PROVE  ReadsGoOn
<1>1. sending = <<>> /\ currentTag' = currentTag /\ outstanding' = outstanding
  BY DEF FakeReturnTimer, WorkLoopFree
<1>2. CASE toFake = Nobody
  <2>1. controller' = controller
    BY <1>2 DEF FakeReturnTimer
  <2>2. \A t \in Targets : Calm(t)
    BY <1>1, <2>1, FreeCalm, StillReadsSelf, TagsTyped DEF Registry, Traffic
  <2> QED BY <2>2, AllCalm
<1>3. CASE toFake # Nobody
  <2>1. PICK capacity \in Capacities : Respond(toFake, 0, <<>>, "ok", capacity)
    BY <1>3 DEF FakeReturnTimer
  <2>2. PICK t \in Targets : t = toFake
    BY <1>3, AgedTyped DEF Registry, Traffic
  <2>3. 0 \in Tags /\ capacity \in Nat /\ <<>> \in Seq(Sector)
    BY ConstantsTyped, EmptySeq
  <2>4. AnswerTo(t, 0, <<>>, "ok")
    BY DEF AnswerTo
  <2> QED BY <1>1, <2>1, <2>2, <2>3, <2>4, RespondReads
<1> QED BY <1>2, <1>3

\* Everything of a controller is kept but what StillReads does not speak of.
LEMMA StillReadsNote ==
  ASSUME NEW k \in Controlled, NEW c, NEW clean, clean => k.command.clean,
         c = [k.command EXCEPT !.clean = clean], NEW per,
         NEW r, r = [k EXCEPT !.perPacket = per, !.command = c], clean => per = k.perPacket
  PROVE  StillReads(k, r)
<1>1. k \in Controller /\ k.command \in Command
  BY DEF Controlled, Sized
<1>2. /\ c.kind = k.command.kind /\ c.lba = k.command.lba
      /\ c.sectors = k.command.sectors /\ c.chunk = k.command.chunk
      /\ c.data = k.command.data /\ c.actual = k.command.actual
      /\ c.awaited = k.command.awaited /\ c.failed = k.command.failed
      /\ c.state = k.command.state /\ c.result = k.command.result
  BY <1>1 DEF Command
<1>3. c.clean => clean
  BY <1>1 DEF Command
<1>4. /\ r.command = c /\ r.replies = k.replies /\ r.baseTag = k.baseTag
      /\ r.perPacket = per
  BY <1>1 DEF Controller
<1> QED BY <1>2, <1>3, <1>4 DEF StillReads

\* A note about lost packets, or about the time, changes nothing that is read.
LEMMA StillReadsNoted == ASSUME NEW k, NEW r, NotedOnly(k, r) PROVE StillReads(k, r)
BY DEF NotedOnly, StillReads

\* A command that is cancelled or took too long reads no more (complete).
LEMMA StillReadsEnded ==
  ASSUME NEW k \in Controlled, NEW r, r = complete(k, "error")
  PROVE  StillReads(k, r)
<1>1. k \in Controller /\ k.command \in Command
  BY DEF Controlled, Sized
<1>2. PICK c : c = [k.command EXCEPT !.state = "complete", !.result = "error",
                                 !.expired = FALSE, !.lost = FALSE]
  OBVIOUS
<1>3. /\ c.kind = k.command.kind /\ c.lba = k.command.lba
      /\ c.sectors = k.command.sectors /\ c.chunk = k.command.chunk
      /\ c.data = k.command.data /\ c.actual = k.command.actual
      /\ c.awaited = k.command.awaited /\ c.failed = k.command.failed
      /\ c.clean = k.command.clean
      /\ c.state = "complete" /\ c.result = "error"
  BY <1>1, <1>2 DEF Command
<1>4. r = [k EXCEPT !.command = c]
  BY <1>1, <1>2 DEF complete, Controller
<1>5. r.command = c /\ r.baseTag = k.baseTag /\ ~ Busy(r)
  BY <1>1, <1>3, <1>4 DEF Controller, Busy
<1> QED BY <1>3, <1>5 DEF StillReads

\* A known target that answers a search keeps its command (aoe_config_receive).
LEMMA HeardCalm ==
  ASSUME Registry, Transfers, NEW t \in Targets, NEW p \in Ports, NEW ours \in BOOLEAN,
         Heard(t, p, ours)
  PROVE  \A u \in Targets : Calm(u)
<1>1. t \in Known /\ sending = <<>> /\ currentTag' = currentTag /\ outstanding' = outstanding
  BY DEF Heard, WorkLoopFree
<1>2. currentTag' >= currentTag
  BY <1>1, TagsTyped DEF Registry, Traffic
<1>3. controller \in [Targets -> Controlled]
  BY DEF Registry, Registered
<1>4. \A u \in Targets : controller'[u] = NoController \/ StillReads(controller[u], controller'[u])
  <2>1. CASE controller[t].registered /\ ~ours
    <3>1. remove_target(controller[t].number, controller)
      BY <2>1 DEF Heard
    <3>2. controller' = [controller EXCEPT ![t] = NoController]
      BY <1>1, <3>1, RemovedStays DEF Registry
    <3> QED BY <1>3, <3>2, StillReadsSelf
  <2>2. CASE ~ (controller[t].registered /\ ~ours)
    <3>1. PICK k \in Controlled : k = controller[t]
      BY <1>3
    <3>2. PICK r : r = [k EXCEPT !.ports = @ \cup {p}, !.silent = 0]
      OBVIOUS
    <3>3. /\ r.command = k.command /\ r.replies = k.replies /\ r.baseTag = k.baseTag
          /\ r.perPacket = k.perPacket
      BY <3>2 DEF Controlled, Controller
    <3>4. controller' = [controller EXCEPT ![t] = r]
      BY <2>2, <3>1, <3>2 DEF Heard
    <3>5. StillReads(k, r)
      BY <3>3 DEF StillReads
    <3> QED BY <1>3, <3>1, <3>4, <3>5, StillReadsSelf
  <2> QED BY <2>1, <2>2
<1> QED BY <1>1, <1>2, <1>4, FreeCalm

\* A packet that is given up leaves what was read as it is.
LEMMA GiveUpCalm ==
  ASSUME Registry, NEW p \in outstanding, GiveUp(p)
  PROVE  \A u \in Targets : Calm(u)
<1>1. PICK t \in Targets : t = p.target
  BY DEF Registry, Traffic, Packet
<1>2. controller \in [Targets -> Controlled]
  BY DEF Registry, Registered
<1>3. PICK k \in Controlled : k = controller[t]
  BY <1>2
<1>6. PICK r : r = losing(k, {p.tag})
  OBVIOUS
<1>7. StillReads(k, r)
  BY <1>6, LosingNotes, StillReadsNoted
<1>8. controller' = [controller EXCEPT ![t] = r]
  BY <1>1, <1>3, <1>6 DEF GiveUp
<1>9. /\ outstanding' = outstanding \ {p} /\ sending' = sending /\ currentTag' = currentTag
  BY DEF GiveUp
<1>10. \A u \in Targets : StillReads(controller[u], controller'[u])
  BY <1>2, <1>3, <1>7, <1>8, StillReadsSelf
<1>11. currentTag' >= currentTag
  BY <1>9, TagsTyped DEF Registry, Traffic
<1> QED BY <1>9, <1>10, <1>11 DEF Calm

\* A command whose time is up has read what it had read.
LEMMA TimerExpiresCalm ==
  ASSUME Registry, NEW t \in Targets, TimerExpires(t)
  PROVE  \A u \in Targets : Calm(u)
<1>1. controller \in [Targets -> Controlled]
  BY DEF Registry, Registered
<1>2. PICK k \in Controlled : k = controller[t]
  BY <1>1
<1>3. PICK r : r = [k EXCEPT !.command.expired = TRUE]
  OBVIOUS
<1>4. StillReads(k, r)
  BY <1>3, ExpiredNotes, StillReadsNoted
<1>5. /\ controller' = [controller EXCEPT ![t] = r]
      /\ outstanding' = outstanding /\ sending' = sending /\ currentTag' = currentTag
  BY <1>2, <1>3 DEF TimerExpires
<1>6. \A u \in Targets : StillReads(controller[u], controller'[u])
  BY <1>1, <1>2, <1>4, <1>5, StillReadsSelf
<1>7. currentTag' >= currentTag
  BY <1>5, TagsTyped DEF Registry, Traffic
<1> QED BY <1>5, <1>6, <1>7 DEF Calm

\* A command that takes too long is over (handleTimeout).
LEMMA CommandTimeoutCalm ==
  ASSUME Registry, Transfers, NEW t \in Targets, CommandTimeout(t)
  PROVE  \A u \in Targets : Calm(u)
<1>1. /\ sending = <<>> /\ controller' = [controller EXCEPT ![t] = complete(controller[t], "error")]
      /\ currentTag' = currentTag /\ outstanding' = outstanding
  BY DEF CommandTimeout, WorkLoopFree
<1>2. controller \in [Targets -> Controlled]
  BY DEF Registry, Registered
<1>3. \A u \in Targets : StillReads(controller[u], controller'[u])
  BY <1>1, <1>2, StillReadsSelf, StillReadsEnded
<1>4. currentTag' >= currentTag
  BY <1>1, TagsTyped DEF Registry, Traffic
<1> QED BY <1>1, <1>3, <1>4, FreeCalm

\* A state update removes a target or ages them, and leaves their commands alone.
LEMMA StateUpdateCalm ==
  ASSUME Registry, Transfers, PlainTransfers, StateUpdateTimer
  PROVE  \A u \in Targets : Calm(u)
<1>1. /\ sending = <<>> /\ check_down_targets /\ TagsLeft(SearchCount + Len(controllers))
      /\ currentTag' = AfterSearches /\ outstanding' = outstanding
  BY DEF StateUpdateTimer, WorkLoopFree
<1>2. currentTag' >= currentTag
  BY <1>1, TagsGrow
<1>3. \A u \in Targets : controller'[u] = NoController \/ controller'[u] = Aged[u]
  <2>1. Aged \in [Targets -> Controlled] /\ Known \subseteq Targets
    BY AgedTyped DEF Registry
  <2>2. CASE controller' = Aged
    BY <2>2
  <2>3. CASE \E t \in Known : controller' = [Aged EXCEPT ![t] = NoController]
    BY <2>1, <2>3
  <2> QED BY <1>1, <2>2, <2>3, DownTargetsChecked DEF Registry
<1>4. \A u \in Targets : StillReads(controller[u], Aged[u])
  <2> SUFFICES ASSUME NEW u \in Targets PROVE StillReads(controller[u], Aged[u])
    OBVIOUS
  <2>1. controller[u] \in Controller
    BY DEF Registry, Registered, Controlled
  <2>2. /\ Aged[u].command = controller[u].command /\ Aged[u].replies = controller[u].replies
        /\ Aged[u].baseTag = controller[u].baseTag /\ Aged[u].perPacket = controller[u].perPacket
    BY <2>1 DEF Aged, Controller
  <2> QED BY <2>2 DEF StillReads
<1> QED BY <1>1, <1>2, <1>3, <1>4, FreeCalm

\* The packets that go with a port leave what was read as it is (cg_disable_interface).
LEMMA PortDownCalm ==
  ASSUME Registry, Transfers, NEW n \in Ports, PortDown(n)
  PROVE  \A u \in Targets : Calm(u)
<1>1. PICK purged : purged = {p.tag : p \in outstanding \ outstanding'}
  OBVIOUS
<1>2. /\ sending = <<>> /\ currentTag' = currentTag /\ outstanding' \subseteq outstanding
      /\ controller' = [t \in Targets |->
           IF Hit(n) # {} /\ t = controllers[Lowest(Hit(n))]
             THEN cancel_command(controller[t]) ELSE losing(controller[t], purged)]
  BY <1>1 DEF PortDown, WorkLoopFree
<1>3. currentTag' >= currentTag
  BY <1>2, TagsTyped DEF Registry, Traffic
<1>4. ASSUME NEW t \in Targets PROVE StillReads(controller[t], controller'[t])
  <2>1. PICK k \in Controlled : k = controller[t]
    BY DEF Registry, Registered
  <2>2. CASE controller'[t] = cancel_command(k)
    BY <2>1, <2>2, StillReadsEnded, StillReadsSelf DEF cancel_command
  <2>3. CASE controller'[t] = losing(k, purged)
    BY <2>1, <2>3, LosingNotes, StillReadsNoted
  <2> QED BY <1>2, <2>1, <2>2, <2>3
<1> QED BY <1>2, <1>3, <1>4, FreeCalm

\* A port that comes back brings another packet size for the commands to come; the
\* one in progress is disturbed if it is another indeed (cg_enable_interface).
LEMMA PortUpCalm ==
  ASSUME Registry, NEW n \in Ports, NEW per \in SectorsPerPacket, PortUp(n, per)
  PROVE  \A u \in Targets : Calm(u)
<1>1. /\ sending' = sending /\ currentTag' = currentTag /\ outstanding' = outstanding
      /\ controller' = [t \in Targets |-> IF t \notin Known THEN controller[t]
           ELSE [controller[t] EXCEPT !.perPacket = per,
                   !.command.clean = @ /\ controller[t].perPacket = per]]
  BY DEF PortUp
<1>2. currentTag' >= currentTag
  <2>1. currentTag \in Nat
    BY TagsTyped DEF Registry, Traffic
  <2>2. currentTag' = currentTag
    BY <1>1, Zenon
  <2> QED BY <2>1, <2>2
<1>3. ASSUME NEW t \in Targets PROVE StillReads(controller[t], controller'[t])
  <2>1. PICK k \in Controlled : k = controller[t]
    BY DEF Registry, Registered
  <2>2. CASE t \notin Known
    BY <1>1, <2>2, StillReadsSelf
  <2>3. CASE t \in Known
    <3>1. PICK clean : clean = (k.command.clean /\ k.perPacket = per)
      OBVIOUS
    <3>2. PICK c : c = [k.command EXCEPT !.clean = clean]
      OBVIOUS
    <3>3. PICK r : r = [k EXCEPT !.perPacket = per, !.command = c]
      OBVIOUS
    <3>4. StillReads(k, r)
      BY <3>1, <3>2, <3>3, StillReadsNote
    <3>5. controller'[t] = r
      <4>1. controller'[t] = [k EXCEPT !.perPacket = per,
                                !.command.clean = @ /\ k.perPacket = per]
        BY <1>1, <2>1, <2>3
      <4> QED BY <3>1, <3>2, <3>3, <4>1 DEF Controlled, Controller
    <3> QED BY <2>1, <3>4, <3>5
  <2> QED BY <2>2, <2>3
<1> QED BY <1>1, <1>2, <1>3 DEF Calm

\* While a command is issued nothing else is, and an IDENTIFY the driver sends of
\* its own accord touches no command (send_identify).
LEMMA IdentCalm ==
  ASSUME Registry, Transfers, PlainTransfers, SendNext, sending[1].kind = "ident"
  PROVE  \A u \in Targets : Calm(u)
<1>1. sending # <<>>
  BY DEF SendNext
<1>2. PICK r \in Request : r = Head(sending) /\ r.kind = "ident" /\ r.target \in Known
  BY <1>1, OneIssued DEF Registry, Traffic
<1>3. PICK tag : tag = next_tag(currentTag)
  OBVIOUS
<1>4. PICK last \in BOOLEAN : last = (Tail(sending) = <<>>)
  OBVIOUS
<1>5. /\ TagsLeft(1) /\ currentTag' = tag
      /\ controller' = [controller EXCEPT ![r.target] = sent(controller[r.target], r, tag, last)]
      /\ Transmit(r, tag)
  BY <1>2, <1>3, <1>4 DEF SendNext
<1>6. currentTag \in Nat /\ tag = currentTag + 1
  BY <1>3, <1>5, TagsGrow
<1>7. PICK p : p.tag = tag /\ outstanding' = outstanding \cup {p}
  BY <1>5, <1>6, TransmitNew
<1>8. /\ currentTag' >= currentTag
      /\ \A q \in outstanding' : q \in outstanding \/ q.tag > currentTag
  BY <1>5, <1>6, <1>7
<1>9. \A i \in DOMAIN sending : sending[i].kind = "ident"
  BY <1>1, <1>2, OneIssued
<1>10. controller \in [Targets -> Controlled]
  BY DEF Registry, Registered
<1>11. PICK t \in Targets : t = r.target
  BY DEF Request
<1>12. PICK k \in Controlled : k = controller[t]
  BY <1>10
<1>13. PICK s : s = [k EXCEPT !.identTag = tag]
  OBVIOUS
<1>14. StillReads(k, s)
  <2>1. /\ s.command = k.command /\ s.replies = k.replies /\ s.baseTag = k.baseTag
        /\ s.perPacket = k.perPacket
    BY <1>13 DEF Controlled, Controller
  <2> QED BY <2>1 DEF StillReads
<1>15. controller' = [controller EXCEPT ![t] = s]
  BY <1>2, <1>5, <1>11, <1>12, <1>13 DEF sent
<1>16. \A u \in Targets : StillReads(controller[u], controller'[u])
  BY <1>10, <1>12, <1>14, <1>15, StillReadsSelf
<1>17. \A u \in Targets : controller[u].command.state # "started"
  BY <1>9, NothingStarted
<1> QED BY <1>8, <1>16, <1>17 DEF Calm

\* Sent packets of another command disturb no read: they come after it.
LEMMA OthersCalm ==
  ASSUME Registry, Transfers, PlainTransfers, SendNext, sending[1].kind # "ident",
         NEW t, t = sending[1].target
  PROVE  \A u \in Targets \ {t} : Calm(u)
<1>1. PICK k : k = controller[t]
  OBVIOUS
<1>2. PICK tag : tag = currentTag'
  OBVIOUS
<1>3. PICK r : r = sending[1]
  OBVIOUS
<1>4. PICK s : s = controller'[t]
  OBVIOUS
<1>5. /\ currentTag \in Nat /\ tag = currentTag + 1
      /\ \A u \in Targets \ {t} : /\ controller'[u] = controller[u]
                                  /\ controller[u].command.state # "started"
      /\ r.kind = "faked" => outstanding' = outstanding
      /\ r.kind # "faked" => \E p \in outstanding' : p.tag = tag /\ outstanding' = outstanding \cup {p}
  BY <1>1, <1>2, <1>3, <1>4, CommandSent
<1>6. \A p \in outstanding' : p \in outstanding \/ p.tag > currentTag
  BY <1>5
<1>7. currentTag' >= currentTag
  BY <1>2, <1>5
<1> QED BY <1>5, <1>6, <1>7, StillReadsSelf DEF Calm

\* The packet of a read that is sent is at the next place.
LEMMA NextIsPlaced ==
  ASSUME NEW k \in Controlled, NEW s \in Controlled, NEW tag \in Nat, tag # 0,
         currentTag \in Nat, tag = currentTag + 1, currentTag' = tag,
         k.baseTag <= currentTag,
         s.command.chunk = k.command.chunk,
         s.baseTag = IF k.baseTag = 0 THEN tag ELSE k.baseTag
  PROVE  /\ NextPlace(k) \in Int
         /\ Place(s, tag) = NextPlace(k)
         /\ NextPlace(s)' = NextPlace(k) + k.command.chunk
         /\ Place(s, tag + 1) = NextPlace(s)'
         /\ s.baseTag # 0 /\ s.baseTag <= tag
<1>1. PICK h \in Nat : h = k.command.chunk
  BY DEF Controlled, Sized, Command
<1>2. /\ s.baseTag # 0 /\ s.baseTag <= tag
  <2>1. k.baseTag \in Nat
    BY ConstantsTyped DEF Controlled, Controller
  <2> QED BY <2>1
<1>3. Place(s, tag + 1) = Place(s, tag) + h
  BY <1>1, PlacesGrow
<1>4. Place(s, tag) = NextPlace(k) /\ NextPlace(k) \in Int
  <2>1. CASE k.baseTag = 0
    <3>1. Place(s, tag) = 0
      BY <2>1, PlacesGrow
    <3> QED BY <2>1, <3>1 DEF NextPlace
  <2>2. CASE k.baseTag # 0
    <3>1. Place(s, tag) = Place(k, tag)
      BY <2>2 DEF Place
    <3>2. Place(k, tag) \in Int
      BY PlacesGrow
    <3> QED BY <2>2, <3>1, <3>2 DEF NextPlace
  <2> QED BY <2>1, <2>2
<1>5. NextPlace(s)' = Place(s, tag + 1)
  BY <1>2 DEF NextPlace
<1> QED BY <1>1, <1>2, <1>3, <1>4, <1>5

\* What is known when a packet of the read of k is sent: the read goes on as s, the
\* packet is at `place', and m packets of h sectors are still to be sent.
SentRead(k, s, tag, place, h, m) ==
  /\ s.baseTag = IF k.baseTag = 0 THEN tag ELSE k.baseTag
  /\ s.replies = k.replies /\ s.perPacket = k.perPacket
  /\ s.command.kind = "read" /\ s.command.lba = k.command.lba
  /\ s.command.sectors = k.command.sectors
  /\ s.command.chunk = k.command.chunk /\ s.command.data = k.command.data
  /\ s.command.actual = k.command.actual
  /\ s.command.awaited = k.command.awaited \cup {tag}
  /\ s.command.clean = k.command.clean /\ s.command.failed = k.command.failed
  /\ s.command.state = IF sending' # <<>> THEN "started" ELSE "status"
  /\ s \in Controlled /\ h = k.command.chunk
  /\ place = NextPlace(k) /\ Place(s, tag) = place
  /\ NextPlace(s)' = place + h /\ Place(s, tag + 1) = place + h
  /\ s.baseTag # 0 /\ s.baseTag <= tag
  /\ sending' = <<>> => m = 0
  /\ Len(sending') = m
  /\ k.command.actual = 0
  /\ place + h + m * h >= k.command.sectors
  /\ place + h + m * h = k.replies * h

\* A packet of a read that is sent is at the next place, and is one more to wait for
\* (issueCommand).
LEMMA ReadSent ==
  ASSUME Registry, Registry', Transfers, PlainTransfers, SendNext, sending[1].kind # "ident",
         NEW t, t = sending[1].target, NEW k, k = controller[t], k.command.kind = "read",
         ReadOrder(t), NEW s, s = controller'[t], NEW tag, tag = currentTag'
  PROVE  \E place \in Int, h, m \in Nat : SentRead(k, s, tag, place, h, m)
<1>3. PICK q : q = sending[1]
  OBVIOUS
<1>5. /\ q \in Request /\ t \in Targets /\ k \in Controlled
      /\ q.kind = "read" /\ k.command.state = "started"
      /\ currentTag \in Nat /\ tag = currentTag + 1 /\ tag \in Tags
      /\ sending # <<>> /\ sending' = Tail(sending)
      /\ s = sent(k, q, tag, sending' = <<>>)
  BY <1>3, CommandSent
<1>6. SentPacket(k, q, tag, sending', s)
  BY <1>5, SentCommand
<1>7. /\ s.baseTag = IF k.baseTag = 0 THEN tag ELSE k.baseTag
      /\ s.replies = k.replies /\ s.perPacket = k.perPacket
      /\ s.command.kind = "read" /\ s.command.lba = k.command.lba
      /\ s.command.sectors = k.command.sectors
      /\ s.command.chunk = k.command.chunk /\ s.command.data = k.command.data
      /\ s.command.actual = k.command.actual
      /\ s.command.awaited = k.command.awaited \cup {tag}
      /\ s.command.clean = k.command.clean /\ s.command.failed = k.command.failed
      /\ s.command.state = IF sending' # <<>> THEN "started" ELSE "status"
  BY <1>5, <1>6 DEF SentPacket
<1>8. s \in Controlled
  BY <1>5 DEF Registry, Registered
<1>9. PICK h \in Nat : h = k.command.chunk
  BY <1>5 DEF Controlled, Sized, Command
<1>10. /\ DOMAIN k.command.data = 1 .. k.command.sectors
       /\ \E n \in SectorsPerPacket : k.command.chunk = MIN(n, k.command.sectors)
       /\ k.command.chunk > 0 /\ k.baseTag <= currentTag
       /\ ReadRequests(k)
       /\ \A p \in outstanding : p.target = t => ReadPacket(k, p)
  BY <1>5 DEF ReadOrder
<1>11. PICK place \in Int : place = NextPlace(k)
                            /\ Place(s, tag) = place /\ NextPlace(s)' = place + h
                            /\ Place(s, tag + 1) = place + h
                            /\ s.baseTag # 0 /\ s.baseTag <= tag
  <2>1. tag \in Nat /\ tag # 0 /\ currentTag' = tag
    BY <1>5
  <2>2. /\ NextPlace(k) \in Int /\ Place(s, tag) = NextPlace(k)
        /\ NextPlace(s)' = NextPlace(k) + k.command.chunk
        /\ Place(s, tag + 1) = NextPlace(s)'
        /\ s.baseTag # 0 /\ s.baseTag <= tag
    <3>1. /\ k \in Controlled /\ currentTag \in Nat /\ tag = currentTag + 1
          /\ k.baseTag <= currentTag
      BY <1>5, <1>10
    <3>2. /\ s.command.chunk = k.command.chunk
          /\ s.baseTag = IF k.baseTag = 0 THEN tag ELSE k.baseTag
      BY <1>7
    <3> QED BY <1>8, <2>1, <3>1, <3>2, NextIsPlaced
  <2> QED BY <1>9, <2>2
<1>12. PICK m \in Nat : /\ Len(sending) = m + 1 /\ Len(sending') = m
                        /\ (sending' = <<>> => m = 0)
  <2>1. sending \in Seq(Request) /\ sending' \in Seq(Request)
    BY DEF Registry, Traffic
  <2>2. Len(sending) \in Nat \ {0} /\ Len(sending') = Len(sending) - 1
    BY <1>5, <2>1, HeadTailProperties, LenProperties, EmptySeq
  <2>3. sending' = <<>> => Len(sending') = 0
    BY EmptySeq
  <2> QED BY <2>2, <2>3
<1>13. PICK l \in Nat : l = k.command.lba
  BY <1>5 DEF Controlled, Sized, Command
<1>14. /\ k.command.actual = 0
       /\ place + (m + 1) * h >= k.command.sectors
       /\ place + (m + 1) * h = k.replies * h
       /\ \A i \in DOMAIN sending :
            /\ sending[i].lba = l + place + (i - 1) * h
            /\ Filled(k.command, sending[i])
  BY <1>9, <1>10, <1>11, <1>12, <1>13 DEF ReadRequests
<1>15. (m + 1) * h = m * h + h /\ m * h \in Nat
  OBVIOUS
<1>16. k.command.sectors \in Nat
  BY <1>5 DEF Controlled, Sized, Command
<1>17. /\ place + h + m * h >= k.command.sectors
       /\ place + h + m * h = k.replies * h
  BY <1>14, <1>15
<1> QED BY <1>7, <1>8, <1>9, <1>11, <1>12, <1>14, <1>17 DEF SentRead

\* The packets of a read are sent one after the other, with consecutive tags, and
\* as many as it takes (issueCommand).
LEMMA OrderSent ==
  ASSUME Registry, Registry', Transfers, PlainTransfers, SendNext, sending[1].kind # "ident",
         NEW t, t = sending[1].target, controller[t].command.kind = "read", ReadOrder(t)
  PROVE  ReadOrder(t)'
<1>1. PICK k : k = controller[t]
  OBVIOUS
<1>2. PICK tag : tag = currentTag'
  OBVIOUS
<1>3. PICK q : q = sending[1]
  OBVIOUS
<1>4. PICK s : s = controller'[t]
  OBVIOUS
<1>5. /\ q \in Request /\ t \in Targets /\ k \in Controlled
      /\ q.kind = "read" /\ k.command.state = "started"
      /\ currentTag \in Nat /\ tag = currentTag + 1 /\ tag \in Tags
      /\ sending # <<>> /\ sending' = Tail(sending)
      /\ s = sent(k, q, tag, sending' = <<>>)
      /\ \A i \in DOMAIN sending' : /\ i + 1 \in DOMAIN sending
                                    /\ sending'[i] = sending[i + 1]
      /\ \E p \in outstanding' : p.tag = tag /\ outstanding' = outstanding \cup {p}
           /\ p.target = t /\ p.kind = "read" /\ p.lba = q.lba /\ p.count = q.count
  BY <1>1, <1>2, <1>3, <1>4, CommandSent
<1>6. PICK place \in Int, h, m \in Nat : SentRead(k, s, tag, place, h, m)
  BY <1>1, <1>2, <1>4, <1>5, ReadSent
<1>7. /\ s.baseTag = IF k.baseTag = 0 THEN tag ELSE k.baseTag
      /\ s.replies = k.replies
      /\ s.command.lba = k.command.lba /\ s.command.sectors = k.command.sectors
      /\ s.command.chunk = k.command.chunk /\ s.command.data = k.command.data
      /\ s.command.actual = k.command.actual
      /\ s.command.state = IF sending' # <<>> THEN "started" ELSE "status"
      /\ s \in Controlled
  BY <1>6 DEF SentRead
<1>9. h = k.command.chunk
  BY <1>6 DEF SentRead
<1>10. /\ DOMAIN k.command.data = 1 .. k.command.sectors
       /\ \E n \in SectorsPerPacket : k.command.chunk = MIN(n, k.command.sectors)
       /\ k.command.chunk > 0
       /\ ReadRequests(k)
       /\ \A p \in outstanding : p.target = t => ReadPacket(k, p)
  BY <1>1, <1>5 DEF ReadOrder
<1>11. /\ place = NextPlace(k) /\ Place(s, tag) = place /\ NextPlace(s)' = place + h
       /\ Place(s, tag + 1) = place + h /\ s.baseTag # 0 /\ s.baseTag <= tag
  BY <1>6 DEF SentRead
<1>12. (sending' = <<>> => m = 0) /\ Len(sending') = m
  BY <1>6 DEF SentRead
<1>13. PICK l \in Nat : l = k.command.lba
  BY <1>5 DEF Controlled, Sized, Command
<1>14. /\ k.command.actual = 0
       /\ \A i \in DOMAIN sending :
            /\ sending[i].lba = l + place + (i - 1) * h
            /\ Filled(k.command, sending[i])
  BY <1>9, <1>10, <1>11, <1>13 DEF ReadRequests
<1>16. k.command.sectors \in Nat
  BY <1>5 DEF Controlled, Sized, Command
<1>17. /\ place + h + m * h >= k.command.sectors
       /\ place + h + m * h = k.replies * h
  BY <1>6 DEF SentRead
<1>18. sending \in Seq(Request) /\ sending' \in Seq(Request)
  BY DEF Registry, Traffic
<1>19. \A i \in DOMAIN sending' :
         /\ sending'[i].lba = l + (place + h) + (i - 1) * h
         /\ Filled(k.command, sending'[i])
  <2> SUFFICES ASSUME NEW i \in DOMAIN sending'
               PROVE  /\ sending'[i].lba = l + (place + h) + (i - 1) * h
                      /\ Filled(k.command, sending'[i])
    OBVIOUS
  <2>1. PICK j \in DOMAIN sending : j = i + 1 /\ sending'[i] = sending[j]
    BY <1>5
  <2>2. i \in Nat \ {0}
    BY <1>18, LenProperties
  <2>3. sending[j].lba = l + place + (j - 1) * h /\ Filled(k.command, sending[j])
    BY <1>14
  <2>4. PICK n \in Nat : i = n + 1 /\ j - 1 = n + 1 /\ i - 1 = n
    BY <2>1, <2>2
  <2>5. (n + 1) * h = n * h + h /\ n * h \in Nat
    OBVIOUS
  <2>6. l + place + (j - 1) * h = l + (place + h) + (i - 1) * h
    BY <2>4, <2>5
  <2> QED BY <2>1, <2>3, <2>6
<1>20. \A p : Filled(k.command, p) => Filled(s.command, p)
  BY <1>7 DEF Filled
<1>21. ReadRequests(s)'
  <2>1. NextPlace(s)' + Len(sending') * s.command.chunk = place + h + m * h
    BY <1>7, <1>9, <1>11, <1>12
  <2>2. \A i \in DOMAIN sending' :
          /\ sending'[i].lba = s.command.lba + NextPlace(s)' + (i - 1) * s.command.chunk
          /\ Filled(s.command, sending'[i])
    BY <1>7, <1>9, <1>11, <1>13, <1>19, <1>20, Zenon
  <2>3. /\ s.command.actual = 0
        /\ place + h + m * h >= s.command.sectors
        /\ place + h + m * h = s.replies * s.command.chunk
    BY <1>7, <1>9, <1>14, <1>17
  <2> QED BY <2>1, <2>2, <2>3, Zenon DEF ReadRequests
<1>22. \A p \in outstanding' : p.target = t => ReadPacket(s, p)
  <2> SUFFICES ASSUME NEW p \in outstanding', p.target = t PROVE ReadPacket(s, p)
    OBVIOUS
  <2>1. CASE p \in outstanding
    <3>1. p.tag \in Nat /\ p.tag <= currentTag
      BY <2>1, ConstantsTyped DEF Transfers, TagsNew, Registry, Traffic, Packet
    <3>2. CASE k.baseTag = 0
      <4>1. s.baseTag = currentTag + 1
        BY <1>5, <1>7, <3>2
      <4>2. PICK n \in Nat : n = p.tag
        BY <3>1
      <4>3. PICK c \in Nat : c = currentTag
        BY <1>5
      <4>4. ~ (p.tag >= s.baseTag)
        BY <3>1, <4>1, <4>2, <4>3
      <4> QED BY <4>4 DEF ReadPacket
    <3>3. CASE k.baseTag # 0
      <4>1. Place(s, p.tag) = Place(k, p.tag) /\ s.baseTag = k.baseTag
        BY <1>7, <3>3 DEF Place
      <4>2. ReadPacket(k, p)
        BY <1>10, <2>1
      <4> QED BY <1>7, <4>1, <4>2 DEF ReadPacket, Filled
    <3> QED BY <3>2, <3>3
  <2>2. CASE p \notin outstanding
    <3>1. p.tag = tag /\ p.kind = "read" /\ p.lba = q.lba /\ p.count = q.count
      BY <1>5, <2>2
    <3>2. 1 \in DOMAIN sending
      BY <1>5, OneIssued
    <3>3. q.lba = l + place + (1 - 1) * h /\ Filled(k.command, q)
      BY <1>3, <1>14, <3>2
    <3>4. (1 - 1) * h = 0
      OBVIOUS
    <3>5. q.lba = l + place
      BY <3>3, <3>4
    <3>6. Filled(s.command, p)
      BY <1>7, <3>1, <3>3, <3>5 DEF Filled
    <3>7. p.lba = s.command.lba + Place(s, p.tag)
      BY <1>7, <1>11, <1>13, <3>1, <3>5
    <3> QED BY <3>1, <3>6, <3>7 DEF ReadPacket
  <2> QED BY <2>1, <2>2
<1>23. s.command.state # "started" =>
         s.baseTag # 0 /\ Place(s, tag + 1) >= s.command.sectors
  <2> SUFFICES ASSUME s.command.state # "started"
               PROVE  Place(s, tag + 1) >= s.command.sectors
    BY <1>11
  <2>1. m = 0
    BY <1>7, <1>12
  <2>2. m * h = 0
    BY <2>1
  <2>3. place + h >= k.command.sectors
    BY <1>17, <2>2
  <2> QED BY <1>7, <1>11, <2>3
<1>24. /\ DOMAIN s.command.data = 1 .. s.command.sectors
       /\ \E n \in SectorsPerPacket : s.command.chunk = MIN(n, s.command.sectors)
       /\ s.command.chunk > 0
  BY <1>7, <1>10
<1> QED BY <1>2, <1>4, <1>11, <1>21, <1>22, <1>23, <1>24 DEF ReadOrder

\* A packet at `place' is within the buffer, and behind those already sent.
SentBehind(k, s, place, h) ==
  /\ place < k.command.sectors
  /\ \A x \in k.command.awaited :
       /\ k.baseTag # 0 /\ x >= k.baseTag /\ s.baseTag = k.baseTag
       /\ Place(s, x) = Place(k, x) /\ Place(k, x) \in Int
       /\ Place(k, x) + h <= place /\ Place(k, x) < k.command.sectors

\* A packet of a read that is sent begins within the buffer, behind those that were
\* sent before.
LEMMA SentWithin ==
  ASSUME Registry, Transfers, PlainTransfers, SendNext, sending[1].kind # "ident",
         NEW t, t = sending[1].target, NEW k, k = controller[t], k.command.kind = "read",
         ReadOrder(t), ReadAwaits(k),
         NEW s, NEW tag, tag = currentTag', NEW place \in Int, NEW h \in Nat, NEW m \in Nat,
         SentRead(k, s, tag, place, h, m)
  PROVE  SentBehind(k, s, place, h)
<1>1. PICK q : q = sending[1]
  OBVIOUS
<1>2. /\ t \in Targets /\ k \in Controlled /\ q.kind = "read" /\ q \in Request
      /\ k.command.state = "started" /\ sending # <<>>
      /\ currentTag \in Nat /\ tag = currentTag + 1 /\ tag \in Tags
  BY <1>1, CommandSent
<1>3. /\ s.baseTag = IF k.baseTag = 0 THEN tag ELSE k.baseTag
      /\ s.command.chunk = k.command.chunk /\ h = k.command.chunk
      /\ place = NextPlace(k) /\ Place(s, tag) = place /\ s \in Controlled
  BY DEF SentRead
<1>4. PICK l \in Nat : l = k.command.lba
  BY <1>2 DEF Controlled, Sized, Command
<1>5. PICK n \in Nat : n = k.command.sectors
  BY <1>2 DEF Controlled, Sized, Command
<1>6. 1 \in DOMAIN sending /\ q.target = t
  BY <1>1, <1>2, OneIssued
<1>7. q.lba = l + place /\ q.count \in Nat \ {0}
  <2>1. ReadRequests(k)
    BY <1>2 DEF ReadOrder
  <2>2. q.lba = l + place + (1 - 1) * h /\ Filled(k.command, q)
    BY <1>1, <1>3, <1>4, <1>6, <2>1 DEF ReadRequests
  <2>3. (1 - 1) * h = 0
    OBVIOUS
  <2> QED BY <2>2, <2>3 DEF Filled
<1>8. q.lba + q.count <= l + n
  <2>1. PartOf(k.command, q, 1)
    BY <1>1, <1>2, <1>6, RequestPlaced DEF Transfer
  <2> QED BY <1>4, <1>5, <2>1 DEF PartOf
<1>9. place < n
  BY <1>7, <1>8
<1>10. ASSUME NEW x \in k.command.awaited
       PROVE  /\ k.baseTag # 0 /\ x >= k.baseTag /\ s.baseTag = k.baseTag
              /\ Place(s, x) = Place(k, x) /\ Place(k, x) \in Int
              /\ Place(k, x) + h <= place /\ Place(k, x) < k.command.sectors
  <2>1. k.baseTag # 0 /\ x >= k.baseTag /\ Place(k, x) < k.command.sectors
    BY DEF ReadAwaits
  <2>2. s.baseTag = k.baseTag
    BY <1>3, <2>1
  <2>3. \A y : Place(s, y) = Place(k, y)
    BY <1>3, <2>2 DEF Place
  <2>4. x \in Nat /\ x <= currentTag
    <3>1. x \in Tags
      BY <1>2 DEF Controlled, Sized, Command
    <3>2. x <= currentTag
      BY <1>2 DEF Transfers, TagsNew
    <3> QED BY <3>1, <3>2, ConstantsTyped
  <2>5. PICK y \in Nat : y = x
    BY <2>4
  <2>6. PICK z \in Nat : z = tag
    BY <1>2
  <2>7. y < z
    <3>1. PICK c \in Nat : c = currentTag
      BY <1>2
    <3> QED BY <1>2, <2>4, <2>5, <2>6, <3>1
  <2>8. Place(s, y) + h <= Place(s, z) /\ Place(s, y) \in Int
    BY <1>3, <2>7, PlacesGrow
  <2> QED BY <1>3, <2>1, <2>2, <2>3, <2>5, <2>6, <2>8
<1> QED BY <1>5, <1>9, <1>10 DEF SentBehind

\* A read that nothing disturbed still awaits what its buffer misses when another of
\* its packets is sent (issueCommand).
LEMMA AwaitsSent ==
  ASSUME Registry, Registry', Transfers, PlainTransfers, SendNext, sending[1].kind # "ident",
         NEW t, t = sending[1].target, controller[t].command.kind = "read",
         ReadOrder(t), ReadAwaits(controller[t])
  PROVE  \E s : s = controller'[t] /\ ReadAwaits(s)'
<1>1. PICK k : k = controller[t]
  OBVIOUS
<1>2. PICK tag : tag = currentTag'
  OBVIOUS
<1>3. PICK s : s = controller'[t]
  OBVIOUS
<1>4. PICK place \in Int, h, m \in Nat : SentRead(k, s, tag, place, h, m)
  BY <1>1, <1>2, <1>3, ReadSent
<1>5. /\ place < k.command.sectors
      /\ \A x \in k.command.awaited :
           /\ k.baseTag # 0 /\ x >= k.baseTag /\ s.baseTag = k.baseTag
           /\ Place(s, x) = Place(k, x) /\ Place(k, x) \in Int
           /\ Place(k, x) + h <= place /\ Place(k, x) < k.command.sectors
  <2>1. k.command.kind = "read" /\ ReadAwaits(k)
    BY <1>1
  <2>2. SentBehind(k, s, place, h)
    BY <1>1, <1>2, <1>4, <2>1, SentWithin
  <2> QED BY <2>2 DEF SentBehind
<1>6. /\ s.replies = k.replies /\ s.perPacket = k.perPacket
      /\ s.command.sectors = k.command.sectors
      /\ s.command.chunk = k.command.chunk /\ s.command.data = k.command.data
      /\ s.command.actual = 0
      /\ s.command.awaited = k.command.awaited \cup {tag}
      /\ s.command.failed = k.command.failed
      /\ s.command.state = IF sending' # <<>> THEN "started" ELSE "status"
      /\ h = k.command.chunk
      /\ place = NextPlace(k) /\ Place(s, tag) = place
      /\ NextPlace(s)' = place + h
      /\ s.baseTag # 0 /\ s.baseTag <= tag
      /\ sending' = <<>> => m = 0
      /\ place + h + m * h >= k.command.sectors
      /\ place + h + m * h = k.replies * h
  BY <1>4 DEF SentRead
<1>7. k \in Controlled
  BY <1>1, CommandSent
<1>8. PICK n \in Nat : n = k.command.sectors
  BY <1>7 DEF Controlled, Sized, Command
<1>9. PICK w \in Int : w = k.replies
  BY <1>7 DEF Controlled, Controller
<1>10. s.command.chunk = MIN(s.perPacket, s.command.sectors)
  BY <1>1, <1>6 DEF ReadAwaits
<1>11. tag >= s.baseTag
  <2>1. s.baseTag \in Nat
    BY <1>4, ConstantsTyped DEF SentRead, Controlled, Controller
  <2>2. currentTag' \in Nat
    BY ConstantsTyped DEF Registry, Traffic
  <2> QED BY <1>2, <1>6, <2>1, <2>2
<1>12. \A x \in s.command.awaited :
         s.baseTag # 0 /\ x >= s.baseTag /\ Place(s, x) < s.command.sectors
  BY <1>5, <1>6, <1>11
<1>13. s.command.state # "started" => Room(s)
  <2> SUFFICES ASSUME s.command.state # "started" PROVE Room(s)
    OBVIOUS
  <2>1. m = 0 /\ m * h = 0
    BY <1>6
  <2>2. place + h >= n /\ w * h = place + h
    BY <1>6, <1>8, <1>9, <2>1
  <2>3. (w - 1) * h = w * h - h /\ w * h \in Int
    OBVIOUS
  <2>4. \A x \in s.command.awaited : Place(s, x) + h > n => 0 + (w - 1) * h <= Place(s, x)
    <3> SUFFICES ASSUME NEW x \in s.command.awaited, Place(s, x) + h > n
                 PROVE  0 + (w - 1) * h <= Place(s, x)
      OBVIOUS
    <3>1. CASE x = tag
      BY <1>6, <2>2, <2>3, <3>1
    <3>2. CASE x # tag
      <4>1. /\ Place(s, x) = Place(k, x) /\ Place(k, x) \in Int
            /\ Place(k, x) + h <= place
        BY <1>5, <1>6, <3>2
      <4> QED BY <1>5, <1>8, <4>1
    <3> QED BY <3>1, <3>2
  <2>5. (\A x \in s.command.awaited : Place(s, x) + h <= n) => 0 + w * h <= n
    BY <1>6, <2>2
  <2> QED BY <1>6, <1>8, <1>9, <2>4, <2>5 DEF Room
<1>14. ASSUME ~ s.command.failed, NEW i \in 1 .. s.command.sectors, s.command.data[i] = Unset
       PROVE  ToCome(s, i)'
  <2>1. i \in Nat \ {0} /\ i <= n
    BY <1>6, <1>8, <1>14
  <2>2. ToCome(k, i)
    BY <1>1, <1>6, <1>14 DEF ReadAwaits
  <2>3. CASE \E x \in k.command.awaited :
               Place(k, x) <= i - 1 /\ i - 1 < Place(k, x) + k.command.chunk
    <3>1. PICK x \in k.command.awaited :
               Place(k, x) <= i - 1 /\ i - 1 < Place(k, x) + k.command.chunk
      BY <2>3
    <3>2. x \in s.command.awaited /\ Place(s, x) = Place(k, x)
      BY <1>5, <1>6
    <3> QED BY <1>6, <3>1, <3>2 DEF ToCome
  <2>4. CASE i - 1 >= NextPlace(k)
    <3>1. CASE i - 1 < place + h
      <4>1. tag \in s.command.awaited /\ Place(s, tag) <= i - 1
            /\ i - 1 < Place(s, tag) + s.command.chunk
        BY <1>6, <2>4, <3>1
      <4> QED BY <4>1 DEF ToCome
    <3>2. CASE i - 1 >= place + h
      <4>1. s.command.state = "started"
        <5> SUFFICES ASSUME sending' = <<>> PROVE FALSE
          BY <1>6
        <5>1. m * h = 0
          BY <1>6
        <5>2. place + h >= n
          BY <1>6, <1>8, <5>1
        <5> QED BY <2>1, <3>2, <5>2
      <4>2. i - 1 >= NextPlace(s)'
        BY <1>6, <3>2
      <4> QED BY <4>1, <4>2 DEF ToCome
    <3> QED BY <2>1, <3>1, <3>2
  <2> QED BY <2>2, <2>3, <2>4 DEF ToCome
<1>15. ReadAwaits(s)'
  <2>1. s.command.state # "started" => Room(s)'
    BY <1>13 DEF Room
  <2> QED BY <1>10, <1>12, <1>14, <2>1 DEF ReadAwaits
<1> QED BY <1>3, <1>15

\* Issuing packets keeps what is known of reads (issueCommand, send_identify).
LEMMA SendNextReads ==
  ASSUME Registry, Registry', Transfers, PlainTransfers, Reads, SendNext
  PROVE  ReadsGoOn
<1>1. CASE sending[1].kind = "ident"
  <2>1. \A u \in Targets : Calm(u)
    BY <1>1, IdentCalm
  <2> QED BY <2>1, AllCalm
<1>2. CASE sending[1].kind # "ident"
  <2>1. PICK t : t = sending[1].target
    OBVIOUS
  <2>2. PICK k : k = controller[t]
    OBVIOUS
  <2>3. PICK s : s = controller'[t]
    OBVIOUS
  <2>4. PICK tag : tag = currentTag'
    OBVIOUS
  <2>5. PICK q : q = sending[1]
    OBVIOUS
  <2>6. /\ q \in Request /\ t \in Targets /\ k \in Controlled
        /\ q.kind = k.command.kind /\ k.command.state = "started" /\ tag \in Tags
        /\ s = sent(k, q, tag, sending' = <<>>)
    BY <1>2, <2>1, <2>2, <2>3, <2>4, <2>5, CommandSent
  <2>7. SentPacket(k, q, tag, sending', s)
    <3>1. q.kind # "ident"
      BY <1>2, <2>5
    <3> QED BY <2>6, <3>1, SentCommand
  <2>8. /\ s.command.kind = k.command.kind /\ s.command.lba = k.command.lba
        /\ s.command.data = k.command.data /\ s.command.state # "complete"
        /\ s.command.clean = k.command.clean
    BY <2>6, <2>7 DEF SentPacket
  <2>9. \A u \in Targets \ {t} : Calm(u)
    BY <1>2, <2>1, OthersCalm
  <2>10. Whole(s) /\ (InPlace(k) => InPlace(s))
    BY <2>8 DEF Whole, InPlace
  <2>11. ReadKept(t)
    BY <2>6 DEF Reads
  <2>12. InRead(s) => ReadOrder(t)'
    <3> SUFFICES ASSUME k.command.kind = "read" PROVE ReadOrder(t)'
      BY <2>8 DEF InRead
    <3>1. ReadOrder(t) /\ controller[t].command.kind = "read"
      BY <2>2, <2>6, <2>11 DEF ReadKept, InRead, Busy
    <3> QED BY <1>2, <2>1, <3>1, OrderSent
  <2>13. (InRead(s) /\ s.command.clean) => ReadAwaits(s)'
    <3> SUFFICES ASSUME k.command.kind = "read", k.command.clean PROVE ReadAwaits(s)'
      BY <2>8 DEF InRead
    <3>1. /\ ReadOrder(t) /\ controller[t].command.kind = "read"
          /\ ReadAwaits(controller[t])
      BY <2>2, <2>6, <2>11 DEF ReadKept, InRead, Busy
    <3>2. \E r : r = controller'[t] /\ ReadAwaits(r)'
      BY <1>2, <2>1, <3>1, AwaitsSent
    <3> QED BY <2>3, <3>2
  <2>14. ReadKept(t)'
    BY <2>3, <2>10, <2>12, <2>13 DEF ReadKept
  <2>15. InPlace(controller[t]) => InPlace(controller'[t])
    BY <2>2, <2>3, <2>10
  <2> QED BY <2>6, <2>9, <2>14, <2>15, OneReads
<1> QED BY <1>1, <1>2

\* A read that is started has asked for nothing yet (asyncCommand).
LEMMA StartedRead ==
  ASSUME PlainTransfers, currentTag \in Nat,
         NEW t \in Targets, NEW k \in Controlled, k.perPacket \in SectorsPerPacket,
         NEW c \in Dispatchable, c.kind = "read", c.extended,
         NEW s, s = start_command(k, c), controller'[t] = s,
         \A p \in outstanding' : p.target = t => p \in outstanding,
         currentTag' = currentTag,
         sending' = Requests(t, c, MIN(k.perPacket, c.sectors))
  PROVE  ReadOrder(t)' /\ ReadAwaits(s)'
<1>1. PICK m \in Nat \ {0} : m = k.perPacket /\ m < 256
  BY ConstantsTyped DEF PlainTransfers
<1>2. PICK per : per = MIN(m, c.sectors)
  OBVIOUS
<1>3. per \in Nat \ {0} /\ per <= m /\ per <= c.sectors
  BY <1>2, SectorsOfTransfer DEF Transfer
<1>4. PICK q : q = Requests(t, c, per)
  OBVIOUS
<1>5. sending' = q
  BY <1>1, <1>2, <1>4
<1>6. /\ s.command.kind = "read" /\ s.command.lba = c.lba /\ s.command.sectors = c.sectors
      /\ s.command.chunk = per /\ s.command.data = [i \in 1 .. c.sectors |-> Unset]
      /\ s.command.state = "started" /\ s.command.actual = 0
      /\ s.command.awaited = {} /\ s.baseTag = 0
      /\ s.replies = RepliesRequired(c, per) /\ s.perPacket = m
  <2>1. Started(k, c, per, s)
    BY <1>1, <1>2, StartedAs
  <2> QED BY <1>1, <2>1 DEF Started, Transfer
<1>7. /\ RepliesRequired(c, per) = Len(q) /\ q \in Seq(Request)
      /\ Len(q) * per >= c.sectors
      /\ \A i \in DOMAIN q :
           /\ q[i].lba = c.lba + (i - 1) * per
           /\ (i - 1) * per \in Nat
           /\ q[i].count \in Nat \ {0}
           /\ (i - 1) * per + q[i].count <= c.sectors
           /\ q[i].count <= per
           /\ q[i].count = per \/ (i - 1) * per + q[i].count = c.sectors
  <2>1. per < 256
    BY <1>1, <1>3
  <2>2. Transfer(c)
    BY DEF Transfer
  <2>3. /\ RepliesRequired(c, per) = Len(q) /\ q \in Seq(Request)
        /\ Len(q) * per >= c.sectors
    <3>1. q \in Seq(Request)
      BY <1>3, <1>4, <2>1, <2>2, RequestsOfTransfer
    <3>2. RepliesRequired(c, per) = Len(q)
      BY <1>3, <1>4, <2>1, <2>2, RequestsOfTransfer
    <3>3. Len(q) * per >= c.sectors
      BY <1>3, <1>4, <2>1, <2>2, RequestsOfTransfer
    <3> QED BY <3>1, <3>2, <3>3
  <2>4. ASSUME NEW i \in DOMAIN q
        PROVE  /\ q[i].lba = c.lba + (i - 1) * per
               /\ (i - 1) * per \in Nat
               /\ q[i].count \in Nat \ {0}
               /\ (i - 1) * per + q[i].count <= c.sectors
               /\ q[i].count <= per
               /\ q[i].count = per \/ (i - 1) * per + q[i].count = c.sectors
    BY <1>3, <1>4, <2>1, <2>2, RequestsOfTransfer
  <2> QED BY <2>3, <2>4
<1>8. c.lba \in Nat /\ c.sectors \in Nat
  BY DEF Dispatchable
<1>9. NextPlace(s)' = 0
  BY <1>6 DEF NextPlace
<1>10. \A i \in DOMAIN q : /\ q[i].lba = s.command.lba + 0 + (i - 1) * s.command.chunk
                           /\ Filled(s.command, q[i])
  <2> SUFFICES ASSUME NEW i \in DOMAIN q
               PROVE  /\ q[i].lba = s.command.lba + 0 + (i - 1) * s.command.chunk
                      /\ Filled(s.command, q[i])
    OBVIOUS
  <2>1. PICK n \in Nat : n = (i - 1) * per
    BY <1>7
  <2>2. /\ q[i].lba = c.lba + n /\ q[i].count \in Nat \ {0} /\ q[i].count <= per
        /\ q[i].count = per \/ n + q[i].count = c.sectors
    BY <1>7, <2>1
  <2>3. q[i].lba = s.command.lba + 0 + n
    BY <1>6, <1>8, <2>2
  <2>4. q[i].count \in 1 .. per
    BY <1>3, <2>2
  <2>5. q[i].count = per \/ q[i].lba + q[i].count = c.lba + c.sectors
    BY <1>8, <2>2
  <2> QED BY <1>6, <2>1, <2>3, <2>4, <2>5 DEF Filled
<1>11. ReadRequests(s)'
  <2>1. PICK w \in Nat : w = Len(q)
    BY <1>7, LenProperties
  <2>2. 0 + w * per = w * per /\ w * per \in Nat
    BY <1>3
  <2>3. /\ s.command.actual = 0
        /\ NextPlace(s)' + Len(sending') * s.command.chunk >= s.command.sectors
        /\ NextPlace(s)' + Len(sending') * s.command.chunk = s.replies * s.command.chunk
    BY <1>5, <1>6, <1>7, <1>9, <2>1, <2>2
  <2>4. \A i \in DOMAIN sending' :
          /\ sending'[i].lba = s.command.lba + NextPlace(s)' + (i - 1) * s.command.chunk
          /\ Filled(s.command, sending'[i])
    BY <1>5, <1>9, <1>10
  <2> QED BY <2>3, <2>4 DEF ReadRequests
<1>12. \A p : ReadPacket(s, p)
  BY <1>6 DEF ReadPacket
<1>13. \E n \in SectorsPerPacket : s.command.chunk = MIN(n, s.command.sectors)
  BY <1>1, <1>2, <1>6
<1>14. s.command.chunk > 0 /\ s.baseTag <= currentTag'
  BY <1>3, <1>6
<1>15. DOMAIN s.command.data = 1 .. s.command.sectors
  BY <1>6
<1>16. ReadOrder(t)'
  BY <1>6, <1>11, <1>12, <1>13, <1>14, <1>15 DEF ReadOrder
<1>17. ReadAwaits(s)'
  <2>1. \A i \in 1 .. s.command.sectors : ToCome(s, i)'
    BY <1>6, <1>8, <1>9 DEF ToCome
  <2>2. s.command.chunk = MIN(s.perPacket, s.command.sectors)
    BY <1>2, <1>6
  <2> QED BY <1>6, <2>1, <2>2 DEF ReadAwaits
<1> QED BY <1>16, <1>17

\* A command that is started waits for all of its buffer (asyncCommand).
LEMMA StartReads ==
  ASSUME Registry, Registry', Transfers, PlainTransfers, Reads, sending = <<>>,
         NEW t \in Targets, NEW k \in Controlled, k.perPacket \in SectorsPerPacket,
         NEW c \in Dispatchable, Transfer(c) => c.extended,
         controller' = [controller EXCEPT ![t] = start_command(k, c)],
         sending' = Requests(t, c, MIN(k.perPacket, c.sectors)),
         UNCHANGED <<outstanding, currentTag>>
  PROVE  ReadsGoOn
<1>1. PICK per : per = MIN(k.perPacket, c.sectors)
  OBVIOUS
<1>2. PICK s : s = start_command(k, c)
  OBVIOUS
<1>3. controller \in [Targets -> Controlled]
  BY DEF Registry, Registered
<1>4. /\ controller'[t] = s
      /\ \A u \in Targets \ {t} : controller'[u] = controller[u]
  BY <1>2, <1>3
<1>5. /\ s.command.kind = c.kind /\ s.command.state = "started"
      /\ s.command.data = IF c.kind = "write" THEN <<>> ELSE [i \in 1 .. c.sectors |-> Unset]
  <2>1. Started(k, c, per, s)
    BY <1>1, <1>2, StartedAs
  <2> QED BY <2>1 DEF Started
<1>6. currentTag \in Nat /\ currentTag' = currentTag /\ outstanding' = outstanding
  BY TagsTyped DEF Registry, Traffic
<1>7. \A u \in Targets \ {t} : Calm(u)
  <2>1. currentTag' >= currentTag
    BY <1>6
  <2> QED BY <1>4, <1>6, <2>1, StillReadsSelf, FreeCalm
<1>8. Whole(s) /\ InPlace(s)
  BY <1>5 DEF Whole, InPlace
<1>9. InRead(s) => ReadOrder(t)' /\ ReadAwaits(s)'
  <2> SUFFICES ASSUME c.kind = "read" PROVE ReadOrder(t)' /\ ReadAwaits(s)'
    BY <1>5 DEF InRead
  <2>1. c.extended
    BY DEF Transfer
  <2> QED BY <1>2, <1>4, <1>6, <2>1, StartedRead
<1>10. ReadKept(t)'
  BY <1>4, <1>8, <1>9 DEF ReadKept
<1> QED BY <1>4, <1>7, <1>8, <1>10, OneReads

\* A target that is found is identified first (aoe_config_receive).
LEMMA AppearReads ==
  ASSUME Registry, Registry', Transfers, PlainTransfers, Reads, NEW t \in Targets,
         NEW p \in Ports, NEW ours \in BOOLEAN, Appear(t, p, ours)
  PROVE  ReadsGoOn
<1>1. PICK k : k = [NoController EXCEPT
       !.ports = {p}, !.perPacket = perPacket, !.number = get_next_target_number,
       !.registered = ours]
  OBVIOUS
<1>2. /\ sending = <<>> /\ UNCHANGED <<outstanding, currentTag>>
      /\ controller' = [controller EXCEPT ![t] = start_command(k, Identify)]
      /\ sending' = Requests(t, Identify, MIN(k.perPacket, Identify.sectors))
  BY <1>1 DEF Appear, WorkLoopFree, StartCommand
<1>3. k \in Controlled /\ k.perPacket \in SectorsPerPacket
  <2>1. get_next_target_number \in Nat
    BY FreeNumber DEF Registry, Registered
  <2>2. NoController \in Controlled
    BY NoControllerTyped
  <2>3. perPacket \in SectorsPerPacket /\ perPacket \in Nat
    BY ConstantsTyped DEF Registry, Traffic
  <2>4. PICK number \in Nat : number = get_next_target_number
    BY <2>1
  <2>5. k = [NoController EXCEPT !.ports = {p}, !.perPacket = perPacket, !.number = number,
                                 !.registered = ours]
    BY <1>1, <2>4
  <2> QED BY <2>2, <2>3, <2>5 DEF Controlled, Controller
<1>4. Identify \in Dispatchable /\ ~ Transfer(Identify)
  BY CommandsDispatchable DEF Identify, Transfer
<1> QED BY <1>2, <1>3, <1>4, StartReads

\* The base class submits a command to a target that is known (busCanDispatch).
LEMMA DispatchReads ==
  ASSUME Registry, Registry', Transfers, PlainTransfers, Reads, NEW t \in Targets,
         NEW c \in Commands, Dispatch(t, c)
  PROVE  ReadsGoOn
<1>1. PICK k \in Controlled : k = controller[t] /\ k.perPacket \in SectorsPerPacket
  BY DEF Dispatch, Registry, Registered
<1>2. /\ sending = <<>> /\ UNCHANGED <<outstanding, currentTag>>
      /\ controller' = [controller EXCEPT ![t] = start_command(k, c)]
      /\ sending' = Requests(t, c, MIN(k.perPacket, c.sectors))
  BY <1>1 DEF Dispatch, WorkLoopFree, StartCommand
<1>3. c \in Dispatchable /\ (Transfer(c) => c.extended)
  BY CommandsDispatchable DEF PlainTransfers
<1> QED BY <1>2, <1>1, <1>3, StartReads

\* Without a search by a user program, its thread takes no tags.
LEMMA NoUserSearch ==
  ASSUME Registry, OwnTags, userSending = <<>>, [Next]_vars
  PROVE  userSending' = <<>>
<1>1. ~ UserSearch /\ ~ UserIdentify
  BY DEF UserSearch, UserIdentify, OwnTags
<1>2. CASE SendNext
  BY <1>2 DEF SendNext
<1>3. CASE FakeReturnTimer
  <2>1. CASE toFake = Nobody
    BY <1>3, <2>1 DEF FakeReturnTimer
  <2>2. CASE toFake # Nobody
    <3>1. PICK capacity \in Capacities : Respond(toFake, 0, <<>>, "ok", capacity)
      BY <1>3, <2>2 DEF FakeReturnTimer
    <3> QED BY <3>1 DEF Respond, remove_target
  <2> QED BY <2>1, <2>2
<1>4. CASE StateUpdateTimer
  BY <1>4 DEF StateUpdateTimer, check_down_targets, remove_target
<1>5. CASE \E t \in Targets, p \in Ports, ours \in BOOLEAN : Appear(t, p, ours) \/ Heard(t, p, ours)
  BY <1>5 DEF Appear, Heard, remove_target
<1>6. CASE \E t \in Targets, c \in Commands : Dispatch(t, c)
  BY <1>6 DEF Dispatch
<1>7. CASE \E t \in Targets : TimerExpires(t) \/ CommandTimeout(t)
  BY <1>7 DEF TimerExpires, CommandTimeout
<1>8. CASE \E p \in outstanding, status \in {"ok", "error"}, capacity \in Capacities :
             Answer(p, status, capacity)
  BY <1>8 DEF Answer, Respond, remove_target
<1>9. CASE \E p \in outstanding : GiveUp(p)
  BY <1>9 DEF GiveUp
<1>10. CASE \E n \in Ports : PortDown(n)
  BY <1>10 DEF PortDown
<1>11. CASE \E n \in Ports, per \in SectorsPerPacket : PortUp(n, per)
  BY <1>11 DEF PortUp
<1>12. CASE UNCHANGED vars
  BY <1>12 DEF vars
<1> QED
  BY <1>1, <1>2, <1>3, <1>4, <1>5, <1>6, <1>7, <1>8, <1>9, <1>10, <1>11, <1>12
  DEF Next, WorkLoop

\* No read is known of when the driver starts.
LEMMA ReadsInit == Init => Reads /\ Placed
<1> SUFFICES ASSUME Init PROVE Reads /\ Placed
  OBVIOUS
<1>1. userSending = <<>> /\ \A t \in Targets : controller[t] = NoController
  BY DEF Init
<1>2. Whole(NoController) /\ InPlace(NoController)
  BY DEF Whole, InPlace, Transfer, NoController, NoCommand
<1> QED BY <1>1, <1>2, NoReader DEF Reads, Placed, ReadKept

\* Every step of the driver keeps what is known of reads.
LEMMA ReadsGo ==
  ASSUME Registry, Registry', Transfers, PlainTransfers, OwnTags, Reads, [Next]_vars
  PROVE  ReadsGoOn
<1>1. userSending = <<>>
  BY DEF Reads
<1>2. CASE SendNext
  BY <1>2, SendNextReads
<1>3. CASE FakeReturnTimer
  BY <1>3, FakeReturnReads
<1>4. CASE StateUpdateTimer
  BY <1>4, StateUpdateCalm, AllCalm
<1>5. CASE UserSearch
  BY <1>5 DEF UserSearch, OwnTags
<1>6. CASE UserIdentify
  BY <1>1, <1>6 DEF UserIdentify
<1>7. CASE \E t \in Targets, p \in Ports, ours \in BOOLEAN : Appear(t, p, ours) \/ Heard(t, p, ours)
  <2>1. PICK t \in Targets, p \in Ports, ours \in BOOLEAN : Appear(t, p, ours) \/ Heard(t, p, ours)
    BY <1>7
  <2>2. CASE Appear(t, p, ours)
    BY <2>2, AppearReads
  <2>3. CASE Heard(t, p, ours)
    BY <2>3, HeardCalm, AllCalm
  <2> QED BY <2>1, <2>2, <2>3
<1>8. CASE \E t \in Targets, c \in Commands : Dispatch(t, c)
  BY <1>8, DispatchReads
<1>9. CASE \E t \in Targets : TimerExpires(t) \/ CommandTimeout(t)
  BY <1>9, TimerExpiresCalm, CommandTimeoutCalm, AllCalm
<1>10. CASE \E p \in outstanding, status \in {"ok", "error"}, capacity \in Capacities :
              Answer(p, status, capacity)
  BY <1>10, AnswerReads
<1>11. CASE \E p \in outstanding : GiveUp(p)
  BY <1>11, GiveUpCalm, AllCalm
<1>12. CASE \E n \in Ports : PortDown(n)
  BY <1>12, PortDownCalm, AllCalm
<1>13. CASE \E n \in Ports, per \in SectorsPerPacket : PortUp(n, per)
  BY <1>13, PortUpCalm, AllCalm
<1>14. CASE UNCHANGED vars
  <2>1. controller' = controller /\ currentTag' = currentTag /\ outstanding' = outstanding
        /\ sending' = sending
    BY <1>14 DEF vars
  <2>2. currentTag' >= currentTag
    BY <2>1, TagsTyped DEF Registry, Traffic
  <2>3. \A t \in Targets : Calm(t)
    BY <2>1, <2>2, StillReadsSelf DEF Calm
  <2> QED BY <2>3, AllCalm
<1> QED
  BY <1>2, <1>3, <1>4, <1>5, <1>6, <1>7, <1>8, <1>9, <1>10, <1>11, <1>12, <1>13, <1>14
  DEF Next, WorkLoop

\* What is known of reads is kept, and with one MTU what is known of buffers.
LEMMA ReadsStep ==
  ASSUME Registry, Registry', Transfers, PlainTransfers, OwnTags, Reads, [Next]_vars
  PROVE  Reads' /\ ((OneMtu /\ Placed) => Placed')
<1>1. userSending' = <<>>
  BY NoUserSearch DEF Reads
<1>2. ReadsGoOn
  BY ReadsGo
<1> QED BY <1>1, <1>2 DEF ReadsGoOn, Reads

\* What is known of reads, in every state of the driver.
LEMMA ReadsAlways ==
  ASSUME PlainTransfers, OwnTags
  PROVE  Spec => [](Registry /\ Transfers /\ Reads)
<1>1. Init => Registry /\ Transfers /\ Reads
  BY RegistryInit, TransfersInit, ReadsInit
<1>2. Registry /\ Transfers /\ Reads /\ [Next]_vars => (Registry /\ Transfers /\ Reads)'
  BY RegistryStep, TransfersStep, ReadsStep
<1> QED BY <1>1, <1>2, PTL DEF Spec

\* A transfer that is reported complete and free of errors, and that nothing
\* disturbed, had all its packets answered, and a read has filled its buffer, in
\* whatever order the answers came (AoEController.cpp:1440-1480).
THEOREM TransfersAreWhole == (PlainTransfers /\ OwnTags) => (Spec => []WholeTransfer)
<1> SUFFICES ASSUME PlainTransfers, OwnTags PROVE Spec => []WholeTransfer
  OBVIOUS
<1>1. Reads => WholeTransfer
  BY DEF Reads, ReadKept, Whole, WholeTransfer
<1> QED BY <1>1, ReadsAlways, PTL

\* What a read puts into its buffer is in its place, however answers are reordered,
\* late, or to something else (AoEController.cpp:1440-1480).
THEOREM SectorsInPlace == (PlainTransfers /\ OwnTags /\ OneMtu) => (Spec => []DataInPlace)
<1> SUFFICES ASSUME PlainTransfers, OwnTags, OneMtu PROVE Spec => []DataInPlace
  OBVIOUS
<1>1. Init => Registry /\ Transfers /\ Reads /\ Placed
  BY RegistryInit, TransfersInit, ReadsInit
<1>2. Registry /\ Transfers /\ Reads /\ Placed /\ [Next]_vars
        => (Registry /\ Transfers /\ Reads /\ Placed)'
  BY RegistryStep, TransfersStep, ReadsStep
<1>3. Placed => DataInPlace
  BY DEF Placed, InPlace, DataInPlace
<1> QED BY <1>1, <1>2, <1>3, PTL DEF Spec

-----------------------------------------------------------------------------
(* Packets, ports and the commands no packet is sent for.                   *)

\* What a step that issues no packet of a command leaves of a controller: it may
\* gain ports, and its command may end.
Behind(k, r) ==
  /\ k.ports \subseteq r.ports
  /\ r.command.kind = k.command.kind
  /\ r.command.awaited \subseteq k.command.awaited
  /\ (k.command.kind = "faked" /\ k.command.state # "data") =>
       r.command.state \in {k.command.state, "complete"}

\* A controller that is left alone.
LEMMA BehindSelf == ASSUME NEW k PROVE Behind(k, k)
BY DEF Behind

\* Another packet size leaves the command to go on.
LEMMA BehindResized ==
  ASSUME NEW k \in Controlled, NEW clean, NEW per,
         NEW c, c = [k.command EXCEPT !.clean = clean],
         NEW r, r = [k EXCEPT !.perPacket = per, !.command = c]
  PROVE  Behind(k, r)
<1>1. k \in Controller /\ k.command \in Command
  BY DEF Controlled, Sized
<1>2. c.kind = k.command.kind /\ c.awaited = k.command.awaited /\ c.state = k.command.state
  BY <1>1 DEF Command
<1>3. r.ports = k.ports /\ r.command = c
  BY <1>1 DEF Controller
<1> QED BY <1>2, <1>3 DEF Behind

\* So does a note about lost packets, or about the time.
LEMMA BehindNoted == ASSUME NEW k, NEW r, NotedOnly(k, r) PROVE Behind(k, r)
BY DEF NotedOnly, Behind

\* A command that is ended: a timeout, a cancellation.
LEMMA BehindEnded ==
  ASSUME NEW k \in Controlled
  PROVE  Behind(k, complete(k, "error")) /\ ~ Busy(complete(k, "error"))
<1>1. k \in Controller /\ k.command \in Command
  BY DEF Controlled, Sized
<1>2. PICK c : c = [k.command EXCEPT !.state = "complete", !.result = "error",
                                 !.expired = FALSE, !.lost = FALSE]
  OBVIOUS
<1>3. /\ c.kind = k.command.kind /\ c.awaited = k.command.awaited
      /\ c.state = "complete"
  BY <1>1, <1>2 DEF Command
<1>4. PICK r : r = [k EXCEPT !.command = c]
  OBVIOUS
<1>5. r = complete(k, "error")
  BY <1>1, <1>2, <1>4 DEF complete, Controller
<1>6. r.ports = k.ports /\ r.command = c
  BY <1>1, <1>4 DEF Controller
<1>7. Behind(k, r) /\ ~ Busy(r)
  BY <1>3, <1>6 DEF Behind, Busy
<1> QED BY <1>5, <1>7

\* An answer, whatever it is to, ends a command no packet was sent for
\* (ata_response, AoEController.cpp:400-470).
LEMMA FakedEnds ==
  ASSUME NEW k \in Controlled, NEW tag \in Tags, NEW payload \in Seq(Sector),
         NEW status \in {"ok", "error"}, NEW capacity \in Nat,
         NEW r, r = ata_response(k, tag, payload, status, capacity),
         Busy(k), k.command.kind = "faked", k.command.state # "data"
  PROVE  ~ Busy(r)
<1>1. PICK n : n = noted(k, tag, status)
  OBVIOUS
<1>2. n \in Controlled
  BY <1>1, NotedTyped
<1>3. n.command.kind = "faked" /\ n.command.state # "data"
  <2>1. k.command \in Command /\ k \in Controller
    BY DEF Controlled, Sized
  <2>2. CASE tag \in k.command.awaited
    <3>1. n = [k EXCEPT !.command.awaited = @ \ {tag},
                        !.command.failed = @ \/ status = "error",
                        !.command.clean = @ /\ ~ (k.command.kind = "read" /\ k.command.expired)]
      BY <1>1, <2>2 DEF noted
    <3> QED BY <2>1, <3>1 DEF Controller, Command
  <2>3. CASE tag \notin k.command.awaited
    <3>1. n = [k EXCEPT !.command.clean = FALSE]
      BY <1>1, <2>3 DEF noted
    <3> QED BY <2>1, <3>1 DEF Controller, Command
  <2> QED BY <2>2, <2>3
<1>4. r = continue_command(n, tag, payload, status)
  BY <1>1 DEF ata_response, Identifies
<1>5. r = interrupt(n, tag, payload, status)
  BY <1>3, <1>4 DEF continue_command
<1>6. r = asyncStatus(n, status)
  BY <1>3, <1>5 DEF interrupt
<1> QED BY <1>2, <1>6, AsyncStatusFollows

\* An answer leaves the controller its ports, and its command or ends it.
LEMMA BehindAnswered ==
  ASSUME NEW k \in Controlled, NEW tag \in Tags, NEW payload \in Seq(Sector),
         NEW status \in {"ok", "error"}, NEW capacity \in Nat,
         NEW r, r = ata_response(k, tag, payload, status, capacity)
  PROVE  Behind(k, r)
<1>1. r.ports = k.ports
  BY ResponseTyped DEF SameTarget
<1>2. r.command.kind = k.command.kind /\ r.command.awaited \subseteq k.command.awaited
      /\ (Busy(r) => Busy(k))
  BY ResponseOnward DEF Onward
<1>3. ASSUME k.command.kind = "faked", k.command.state # "data"
      PROVE  r.command.state \in {k.command.state, "complete"}
  BY <1>2, <1>3, FakedEnds DEF Busy
<1> QED BY <1>1, <1>2, <1>3 DEF Behind

\* A packet of the transport is on a port that is used, and one that is awaited
\* is on a port its target is connected to (send_packet, cg_disable_interface).
OnPorts ==
  \A p \in outstanding : LET k == controller[p.target] IN
    p.on \in used /\ (p.tag \in k.command.awaited => p.on \in k.ports)

\* Packets to be issued are of the command of their target, or identify it.  A
\* command no packet is sent for has one request, and waits for no data.
Faking ==
  /\ \A i \in DOMAIN sending : LET r == sending[i] IN
       /\ r.kind # "ident" => r.kind = controller[r.target].command.kind
       /\ r.kind = "faked" => Len(sending) = 1
  /\ \A t \in Targets : LET c == controller[t].command IN
       c.kind = "faked" => c.state # "data"

\* A step that issues no packet of a command: controllers stay or are removed, the
\* latter while nothing is issued, and packets stay on their ports.
Quiet ==
  /\ \A t \in Targets : controller'[t] = NoController \/ Behind(controller[t], controller'[t])
  /\ \/ /\ sending' = sending
        /\ sending # <<>> => \A t \in Targets : Behind(controller[t], controller'[t])
     \/ sending = <<>> /\ \A i \in DOMAIN sending' : sending'[i].kind = "ident"
  /\ \A t \in Targets : toFake = t => (toFake' = t \/ controller'[t] = NoController)
  /\ \A p \in outstanding' :
       \/ p \in outstanding /\ (p.on \in used => p.on \in used')
       \/ p.on \in used' /\ p.on \in controller'[p.target].ports

\* Such a step keeps packets on their ports.
LEMMA QuietOnPorts ==
  ASSUME Registry, Registry', OnPorts, Quiet
  PROVE  OnPorts'
<1> SUFFICES ASSUME NEW p \in outstanding'
             PROVE  /\ p.on \in used'
                    /\ p.tag \in controller'[p.target].command.awaited =>
                         p.on \in controller'[p.target].ports
  BY DEF OnPorts
<1>1. p.target \in Targets
  BY DEF Registry, Traffic, Packet
<1>2. CASE p.on \in used' /\ p.on \in controller'[p.target].ports
  BY <1>2
<1>3. CASE p \in outstanding /\ (p.on \in used => p.on \in used')
  <2>1. p.on \in used /\ (p.tag \in controller[p.target].command.awaited =>
                            p.on \in controller[p.target].ports)
    BY <1>3 DEF OnPorts
  <2>2. CASE controller'[p.target] = NoController
    <3>1. controller'[p.target].command.awaited = {}
      BY <2>2 DEF NoController, NoCommand
    <3> QED BY <1>3, <2>1, <3>1
  <2>3. CASE Behind(controller[p.target], controller'[p.target])
    BY <1>3, <2>1, <2>3 DEF Behind
  <2> QED BY <1>1, <2>2, <2>3 DEF Quiet
<1> QED BY <1>2, <1>3 DEF Quiet

\* Such a step leaves a command no packet is sent for as it was, or ends it.
LEMMA QuietCommand ==
  ASSUME Registry, Faking, Quiet, NEW t \in Targets, controller'[t].command.kind = "faked"
  PROVE  /\ controller[t].command.kind = "faked" /\ controller'[t] # NoController
         /\ controller'[t].command.state \in {controller[t].command.state, "complete"}
         /\ controller[t].command.state # "data"
<1>1. controller'[t] # NoController
  BY DEF NoController, NoCommand
<1>2. Behind(controller[t], controller'[t])
  BY <1>1 DEF Quiet
<1> QED BY <1>1, <1>2 DEF Behind, Faking

\* What is to be issued stays that of a command in such a step.
LEMMA QuietSending ==
  ASSUME Registry, Faking, Quiet, NEW i \in DOMAIN sending', sending'[i].kind # "ident"
  PROVE  /\ sending'[i].kind = controller'[sending'[i].target].command.kind
         /\ sending'[i].kind = "faked" => Len(sending') = 1
<1>1. sending' = sending /\ i \in DOMAIN sending
  BY DEF Quiet
<1>2. sending # <<>>
  BY <1>1, EmptySeq
<1>3. sending[i].target \in Targets
  BY <1>1, AgedTyped DEF Registry, Traffic
<1>4. Behind(controller[sending[i].target], controller'[sending[i].target])
  BY <1>2, <1>3 DEF Quiet
<1>5. /\ sending[i].kind = controller[sending[i].target].command.kind
      /\ sending[i].kind = "faked" => Len(sending) = 1
  BY <1>1 DEF Faking
<1> QED BY <1>1, <1>4, <1>5 DEF Behind

\* So requests and commands go on to agree.
LEMMA QuietFakes ==
  ASSUME Registry, Faking, Quiet
  PROVE  Faking'
BY QuietCommand, QuietSending DEF Faking

\* A removed controller, or one that is behind, is what each step leaves.
LEMMA OneQuiet ==
  ASSUME Registry, NEW t \in Targets, NEW r, controller' = [controller EXCEPT ![t] = r],
         r = NoController \/ Behind(controller[t], r)
  PROVE  /\ \A u \in Targets : controller'[u] = NoController \/ Behind(controller[u], controller'[u])
         /\ Behind(controller[t], r) => \A u \in Targets : Behind(controller[u], controller'[u])
<1>1. controller'[t] = r /\ \A u \in Targets \ {t} : controller'[u] = controller[u]
  BY DEF Registry, Registered
<1> QED BY <1>1, BehindSelf

\* A known target that answers a search is quiet (aoe_config_receive).
LEMMA HeardQuiet ==
  ASSUME Registry, NEW t \in Targets, NEW p \in Ports, NEW ours \in BOOLEAN, Heard(t, p, ours)
  PROVE  Quiet /\ fakeTimer' = fakeTimer
<1>1. /\ t \in Known /\ sending = <<>>
      /\ UNCHANGED <<used, perPacket, currentTag, outstanding, sending, fakeTimer>>
  BY DEF Heard, WorkLoopFree
<1>2. CASE controller[t].registered /\ ~ours
  <2>1. remove_target(controller[t].number, controller)
    BY <1>2 DEF Heard
  <2>2. /\ controller' = [controller EXCEPT ![t] = NoController]
        /\ toFake' = IF toFake = t THEN Nobody ELSE toFake
    BY <1>1, <2>1, RemovedStays DEF Registry
  <2>3. controller'[t] = NoController
    BY <2>2 DEF Registry, Registered
  <2> QED BY <1>1, <2>2, <2>3, OneQuiet DEF Quiet
<1>3. CASE ~ (controller[t].registered /\ ~ours)
  <2>1. PICK k \in Controlled : k = controller[t]
    BY DEF Registry, Registered
  <2>2. PICK r : r = [k EXCEPT !.ports = @ \cup {p}, !.silent = 0]
    OBVIOUS
  <2>3. r.command = k.command /\ k.ports \subseteq r.ports
    BY <2>2 DEF Controlled, Controller
  <2>4. controller' = [controller EXCEPT ![t] = r] /\ toFake' = toFake
    BY <1>3, <2>1, <2>2 DEF Heard
  <2>5. Behind(k, r)
    BY <2>3 DEF Behind
  <2> QED BY <1>1, <2>1, <2>4, <2>5, OneQuiet DEF Quiet
<1> QED BY <1>2, <1>3

\* An answer, of the transport or made up, issues nothing.
LEMMA RespondQuiet ==
  ASSUME Registry, NEW t \in Targets, NEW tag \in Tags,
         NEW payload \in Seq(Sector), NEW status \in {"ok", "error"}, NEW capacity \in Nat,
         Respond(t, tag, payload, status, capacity),
         sending = <<>>, sending' = sending, used' = used, outstanding' \subseteq outstanding
  PROVE  /\ Quiet
         /\ ~ (Busy(controller'[t]) /\ controller[t].command.kind = "faked"
                 /\ controller[t].command.state # "data")
<1>1. controller \in [Targets -> Controlled]
  BY DEF Registry, Registered
<1>2. PICK k \in Controlled : k = controller[t]
  BY <1>1
<1>3. /\ ~ Busy(NoController)
      /\ NoController.command.kind = "identify"
  BY DEF Busy, NoController, NoCommand
<1>4. CASE t \notin Known /\ controller' = controller /\ toFake' = toFake
  <2>1. \A u \in Targets : Behind(controller[u], controller'[u])
    BY <1>4, BehindSelf
  <2>2. controller[t] = NoController
    BY <1>4 DEF Registry, Registered
  <2> QED BY <1>3, <1>4, <2>1, <2>2 DEF Quiet
<1>5. CASE /\ controller' = [controller EXCEPT ![t] = NoController]
           /\ toFake' = IF toFake = t THEN Nobody ELSE toFake
  <2>1. controller'[t] = NoController
    BY <1>1, <1>5
  <2> QED BY <1>3, <1>5, <2>1, OneQuiet DEF Quiet
<1>6. CASE controller' = [controller EXCEPT ![t] = ata_response(k, tag, payload, status, capacity)]
           /\ toFake' = toFake /\ t \in Known
  <2>1. PICK r : r = ata_response(k, tag, payload, status, capacity)
    OBVIOUS
  <2>2. Behind(k, r) /\ (Busy(r) => Busy(k))
    BY <2>1, BehindAnswered, ResponseOnward DEF Onward
  <2>3. controller' = [controller EXCEPT ![t] = r] /\ controller'[t] = r
    BY <1>1, <1>6, <2>1
  <2>4. Quiet
    BY <1>2, <1>6, <2>2, <2>3, OneQuiet DEF Quiet
  <2>5. ~ (Busy(r) /\ k.command.kind = "faked" /\ k.command.state # "data")
    BY <2>1, <2>2, FakedEnds
  <2> QED BY <1>2, <2>3, <2>4, <2>5
<1> QED BY <1>2, <1>4, <1>5, <1>6, RespondKeeps DEF Registry

\* The transport passes on the answer to a packet.
LEMMA AnswerQuiet ==
  ASSUME Registry, NEW p \in outstanding, NEW status \in {"ok", "error"},
         NEW capacity \in Capacities, Answer(p, status, capacity)
  PROVE  Quiet /\ fakeTimer' = fakeTimer
<1>1. /\ sending = <<>> /\ outstanding' = outstanding \ {p}
      /\ Respond(p.target, p.tag, Payload(p, status), status, capacity)
      /\ sending' = sending /\ used' = used /\ fakeTimer' = fakeTimer
  BY DEF Answer, WorkLoopFree
<1>2. p \in Packet /\ p.target \in Targets /\ p.tag \in Tags
  BY DEF Registry, Traffic, Packet
<1>3. Payload(p, status) \in Seq(Sector) /\ capacity \in Nat
  BY <1>2, PayloadTyped, ConstantsTyped
<1> QED BY <1>1, <1>2, <1>3, RespondQuiet

\* A packet that is given up is noted with its command only.
LEMMA GiveUpQuiet ==
  ASSUME Registry, NEW p \in outstanding, GiveUp(p)
  PROVE  Quiet /\ fakeTimer' = fakeTimer
<1>1. PICK t \in Targets : t = p.target
  BY DEF Registry, Traffic, Packet
<1>2. PICK k \in Controlled : k = controller[t]
  BY DEF Registry, Registered
<1>5. PICK r : r = losing(k, {p.tag})
  OBVIOUS
<1>6. Behind(k, r)
  BY <1>5, LosingNotes, BehindNoted
<1>7. controller' = [controller EXCEPT ![t] = r]
  BY <1>1, <1>2, <1>5 DEF GiveUp
<1>8. /\ outstanding' \subseteq outstanding /\ used' = used /\ sending' = sending
      /\ toFake' = toFake /\ fakeTimer' = fakeTimer
  BY DEF GiveUp
<1> QED BY <1>2, <1>6, <1>7, <1>8, OneQuiet DEF Quiet

\* A command whose time is up goes on until the work loop has its turn.
LEMMA TimerExpiresQuiet ==
  ASSUME Registry, NEW t \in Targets, TimerExpires(t)
  PROVE  Quiet /\ fakeTimer' = fakeTimer
<1>1. PICK k \in Controlled : k = controller[t]
  BY DEF Registry, Registered
<1>2. PICK r : r = [k EXCEPT !.command.expired = TRUE]
  OBVIOUS
<1>3. Behind(k, r)
  BY <1>2, ExpiredNotes, BehindNoted
<1>4. /\ controller' = [controller EXCEPT ![t] = r] /\ outstanding' = outstanding
      /\ used' = used /\ sending' = sending /\ toFake' = toFake /\ fakeTimer' = fakeTimer
  BY <1>1, <1>2 DEF TimerExpires
<1> QED BY <1>1, <1>3, <1>4, OneQuiet DEF Quiet

\* A command that takes too long is over (handleTimeout).
LEMMA CommandTimeoutQuiet ==
  ASSUME Registry, NEW t \in Targets, CommandTimeout(t)
  PROVE  Quiet /\ fakeTimer' = fakeTimer
<1>1. PICK k \in Controlled : k = controller[t]
  BY DEF Registry, Registered
<1>2. PICK r : r = complete(k, "error")
  OBVIOUS
<1>3. Behind(k, r)
  BY <1>2, BehindEnded
<1>4. /\ controller' = [controller EXCEPT ![t] = r] /\ outstanding' = outstanding
      /\ used' = used /\ sending' = sending /\ toFake' = toFake /\ fakeTimer' = fakeTimer
  BY <1>1, <1>2 DEF CommandTimeout
<1> QED BY <1>1, <1>3, <1>4, OneQuiet DEF Quiet

\* A state update removes a target or ages them, and identifies the others.
LEMMA StateUpdateQuiet ==
  ASSUME Registry, StateUpdateTimer
  PROVE  Quiet /\ fakeTimer' = fakeTimer
<1>1. /\ sending = <<>> /\ check_down_targets /\ sending' = Idents(controllers')
      /\ used' = used /\ outstanding' = outstanding /\ fakeTimer' = fakeTimer
  BY DEF StateUpdateTimer, WorkLoopFree
<1>2. controllers' \in Seq(Targets)
  BY <1>1, DownTargetsChecked DEF Registry, Registered
<1>3. \A i \in DOMAIN sending' : sending'[i].kind = "ident"
  BY <1>1, <1>2, IdentsTyped
<1>4. \A u \in Targets : Behind(controller[u], Aged[u])
  <2> SUFFICES ASSUME NEW u \in Targets PROVE Behind(controller[u], Aged[u])
    OBVIOUS
  <2>1. controller[u] \in Controller
    BY DEF Registry, Registered, Controlled
  <2>2. Aged[u].command = controller[u].command /\ Aged[u].ports = controller[u].ports
    BY <2>1 DEF Aged, Controller
  <2> QED BY <2>2 DEF Behind
<1>5. Aged \in [Targets -> Controlled] /\ Known \subseteq Targets
  BY AgedTyped DEF Registry
<1>6. CASE toFake' = toFake /\ controller' = Aged
  BY <1>1, <1>3, <1>4, <1>6 DEF Quiet
<1>7. CASE \E t \in Known : /\ controller' = [Aged EXCEPT ![t] = NoController]
                            /\ toFake' = IF toFake = t THEN Nobody ELSE toFake
  <2>1. PICK t \in Targets : /\ controller' = [Aged EXCEPT ![t] = NoController]
                             /\ toFake' = IF toFake = t THEN Nobody ELSE toFake
    BY <1>5, <1>7
  <2>2. controller'[t] = NoController /\ \A u \in Targets \ {t} : controller'[u] = Aged[u]
    BY <1>5, <2>1
  <2> QED BY <1>1, <1>3, <1>4, <2>1, <2>2 DEF Quiet
<1> QED BY <1>1, <1>6, <1>7, DownTargetsChecked DEF Registry

\* A user's search takes tags, and nothing else.
LEMMA UserSearchQuiet ==
  ASSUME Registry, UserSearch
  PROVE  Quiet /\ fakeTimer' = fakeTimer
<1>1. /\ controller' = controller /\ sending' = sending /\ used' = used
      /\ outstanding' = outstanding /\ toFake' = toFake /\ fakeTimer' = fakeTimer
  BY DEF UserSearch
<1> QED BY <1>1, BehindSelf DEF Quiet

\* The load balancer takes a port the target is connected to, and that is used
\* (send_packet, AoEControllerInterface.cpp:851-900).
LEMMA TransmitOnPorts ==
  ASSUME NEW r, NEW tag, Transmit(r, tag)
  PROVE  \A p \in outstanding' :
           \/ p \in outstanding /\ p.tag # tag
           \/ p.target = r.target /\ p.on \in controller[r.target].ports /\ p.on \in used
<1>1. PICK on \in Active(r.target) : outstanding' = {q \in outstanding : q.tag # tag} \cup
        {[target |-> r.target, kind |-> r.kind, lba |-> r.lba, count |-> r.count,
          from |-> IF r.kind = "write" THEN append_write_data(controller[r.target]) ELSE 0,
          tag |-> tag, on |-> on]}
  BY DEF Transmit
<1>2. PICK p : p = [target |-> r.target, kind |-> r.kind, lba |-> r.lba, count |-> r.count,
          from |-> IF r.kind = "write" THEN append_write_data(controller[r.target]) ELSE 0,
          tag |-> tag, on |-> on]
  OBVIOUS
<1>3. p.target = r.target /\ p.on = on
  BY <1>2
<1>4. outstanding' = {q \in outstanding : q.tag # tag} \cup {p}
  BY <1>1, <1>2
<1>5. on \in controller[r.target].ports /\ on \in used
  BY DEF Active
<1> QED BY <1>3, <1>4, <1>5

\* An IDENTIFY the driver sends of its own accord is no packet of a command
\* (send_identify).
LEMMA IdentQuiet ==
  ASSUME Registry, NEW r \in Request, r.kind = "ident", NEW tag, NEW last,
         controller' = [controller EXCEPT ![r.target] = sent(controller[r.target], r, tag, last)],
         Transmit(r, tag)
  PROVE  /\ \A u \in Targets : Behind(controller[u], controller'[u])
         /\ \A u \in Targets : controller'[u].command = controller[u].command
         /\ \A p \in outstanding' :
              p \in outstanding \/ (p.on \in used /\ p.on \in controller'[p.target].ports)
<1>1. PICK t \in Targets : t = r.target
  BY DEF Request
<1>2. PICK k \in Controlled : k = controller[t]
  BY DEF Registry, Registered
<1>3. PICK s : s = [k EXCEPT !.identTag = tag]
  OBVIOUS
<1>4. s.command = k.command /\ s.ports = k.ports
  BY <1>3 DEF Controlled, Controller
<1>5. controller' = [controller EXCEPT ![t] = s]
  BY <1>1, <1>2, <1>3 DEF sent
<1>6. controller'[t] = s /\ \A u \in Targets \ {t} : controller'[u] = controller[u]
  BY <1>5 DEF Registry, Registered
<1>7. Behind(k, s)
  BY <1>4 DEF Behind
<1>8. \A u \in Targets : Behind(controller[u], controller'[u])
  BY <1>2, <1>6, <1>7, BehindSelf
<1>9. \A u \in Targets : controller'[u].command = controller[u].command
  BY <1>2, <1>4, <1>6
<1>10. \A p \in outstanding' :
         p \in outstanding \/ (p.on \in used /\ p.on \in controller'[p.target].ports)
  BY <1>1, <1>2, <1>4, <1>6, TransmitOnPorts
<1> QED BY <1>8, <1>9, <1>10

\* A user's search identifies a target, while the work loop issues packets or not.
LEMMA UserIdentifyQuiet ==
  ASSUME Registry, UserIdentify
  PROVE  Quiet /\ fakeTimer' = fakeTimer
<1>1. userSending \in Seq(Targets) /\ userSending # <<>>
  BY DEF UserIdentify, Registry, Traffic
<1>2. 1 \in DOMAIN userSending
  BY <1>1, TailOf
<1>3. PICK r \in Request : r = Idents(userSending)[1] /\ r.kind = "ident"
  BY <1>1, <1>2, IdentsTyped
<1>4. PICK tag : tag = next_tag(currentTag)
  OBVIOUS
<1>5. /\ sending' = sending /\ used' = used /\ toFake' = toFake /\ fakeTimer' = fakeTimer
      /\ controller' = [controller EXCEPT ![r.target] = sent(controller[r.target], r, tag, FALSE)]
      /\ Transmit(r, tag)
  BY <1>3, <1>4 DEF UserIdentify
<1> QED BY <1>3, <1>5, IdentQuiet DEF Quiet

\* The packets on a port that goes down go with it, and commands are cancelled or
\* noted (cg_disable_interface).
LEMMA PortDownQuiet ==
  ASSUME Registry, NEW n \in Ports, PortDown(n)
  PROVE  Quiet /\ fakeTimer' = fakeTimer
<1>1. PICK purged : purged = {p.tag : p \in outstanding \ outstanding'}
  OBVIOUS
<1>2. /\ sending' = sending /\ toFake' = toFake /\ fakeTimer' = fakeTimer
      /\ outstanding' = {p \in outstanding : p.on \in used'}
      /\ controller' = [t \in Targets |->
           IF Hit(n) # {} /\ t = controllers[Lowest(Hit(n))]
             THEN cancel_command(controller[t]) ELSE losing(controller[t], purged)]
  BY <1>1 DEF PortDown
<1>3. ASSUME NEW t \in Targets PROVE Behind(controller[t], controller'[t])
  <2>1. PICK k \in Controlled : k = controller[t]
    BY DEF Registry, Registered
  <2>2. CASE controller'[t] = cancel_command(k)
    BY <2>1, <2>2, BehindEnded, BehindSelf DEF cancel_command
  <2>3. CASE controller'[t] = losing(k, purged)
    BY <2>1, <2>3, LosingNotes, BehindNoted
  <2> QED BY <1>2, <2>1, <2>2, <2>3
<1> QED BY <1>2, <1>3 DEF Quiet

\* A port that comes back adds to those that are used (cg_enable_interface).
LEMMA PortUpQuiet ==
  ASSUME Registry, NEW n \in Ports, NEW per \in SectorsPerPacket, PortUp(n, per)
  PROVE  Quiet /\ fakeTimer' = fakeTimer
<1>1. /\ sending' = sending /\ toFake' = toFake /\ fakeTimer' = fakeTimer
      /\ used \subseteq used' /\ outstanding' = outstanding
      /\ controller' = [t \in Targets |-> IF t \notin Known THEN controller[t]
           ELSE [controller[t] EXCEPT !.perPacket = per,
                   !.command.clean = @ /\ controller[t].perPacket = per]]
  BY DEF PortUp
<1>2. ASSUME NEW t \in Targets PROVE Behind(controller[t], controller'[t])
  <2>1. PICK k \in Controlled : k = controller[t]
    BY DEF Registry, Registered
  <2>2. CASE t \notin Known
    BY <1>1, <2>2, BehindSelf
  <2>3. CASE t \in Known
    <3>1. PICK clean : clean = (k.command.clean /\ k.perPacket = per)
      OBVIOUS
    <3>2. PICK c : c = [k.command EXCEPT !.clean = clean]
      OBVIOUS
    <3>3. PICK r : r = [k EXCEPT !.perPacket = per, !.command = c]
      OBVIOUS
    <3>4. Behind(k, r)
      BY <3>2, <3>3, BehindResized
    <3>5. controller'[t] = r
      <4>1. controller'[t] = [k EXCEPT !.perPacket = per,
                                !.command.clean = @ /\ k.perPacket = per]
        BY <1>1, <2>1, <2>3
      <4> QED BY <3>1, <3>2, <3>3, <4>1 DEF Controlled, Controller
    <3> QED BY <2>1, <3>4, <3>5
  <2> QED BY <2>2, <2>3
<1> QED BY <1>1, <1>2 DEF Quiet

\* What a command is started with: its packets are all to be issued, and none is
\* awaited (asyncCommand, AoEController.cpp:1945-2057).
LEMMA Starts ==
  ASSUME Registry, NEW t \in Targets, NEW c \in Dispatchable,
         NEW k \in Controlled, k.perPacket \in SectorsPerPacket, StartCommand(k, t, c)
  PROVE  /\ controller'[t].command.awaited = {}
         /\ controller'[t].command.kind = c.kind
         /\ controller'[t].command.state = "started"
         /\ \A u \in Targets \ {t} : controller'[u] = controller[u]
         /\ \A i \in DOMAIN sending' : sending'[i].target = t /\ sending'[i].kind = c.kind
         /\ c.kind = "faked" => Len(sending') = 1 /\ sending'[1].kind = "faked"
<1>1. PICK s : s = start_command(k, c)
  OBVIOUS
<1>2. s.command.awaited = {} /\ s.command.kind = c.kind /\ s.command.state = "started"
  BY <1>1, StartTyped
<1>3. controller' = [controller EXCEPT ![t] = s]
  BY <1>1 DEF StartCommand
<1>4. controller'[t] = s /\ \A u \in Targets \ {t} : controller'[u] = controller[u]
  BY <1>3 DEF Registry, Registered
<1>5. PICK per : per = MIN(k.perPacket, c.sectors)
  OBVIOUS
<1>6. sending' = Requests(t, c, per)
  BY <1>5 DEF StartCommand
<1>7. Transfer(c) => per \in Nat \ {0} /\ per <= c.sectors
  <2>1. k.perPacket \in Nat \ {0} /\ c.sectors \in Nat /\ (Transfer(c) => c.sectors > 0)
    BY ConstantsTyped DEF Dispatchable, Transfer
  <2> QED BY <1>5, <2>1 DEF MIN
<1>8. \A i \in DOMAIN sending' : sending'[i].target = t /\ sending'[i].kind = c.kind
  BY <1>6, <1>7, RequestsTyped
<1>9. ASSUME c.kind = "faked" PROVE Len(sending') = 1 /\ sending'[1].kind = "faked"
  <2>1. PICK r : r = [target |-> t, kind |-> c.kind, lba |-> c.lba, count |-> c.sectors]
    OBVIOUS
  <2>2. sending' = <<r>>
    BY <1>6, <1>9, <2>1 DEF Requests, Transfer
  <2>3. r.kind = "faked"
    BY <1>9, <2>1
  <2> QED BY <2>2, <2>3
<1> QED BY <1>2, <1>4, <1>8, <1>9

\* The new controller of a target that appears (aoe_config_receive).
LEMMA AppearStarts ==
  ASSUME Registry, NEW t \in Targets, NEW p \in Ports, NEW ours \in BOOLEAN,
         Appear(t, p, ours)
  PROVE  \E k \in Controlled : k.perPacket \in SectorsPerPacket /\ StartCommand(k, t, Identify)
<1>1. PICK k : k = [NoController EXCEPT
       !.ports = {p}, !.perPacket = perPacket, !.number = get_next_target_number,
       !.registered = ours]
  OBVIOUS
<1>2. StartCommand(k, t, Identify)
  BY <1>1 DEF Appear
<1>3. k \in Controlled /\ k.perPacket \in SectorsPerPacket
  <2>1. get_next_target_number \in Nat
    BY FreeNumber DEF Registry, Registered
  <2>2. NoController \in Controlled
    BY NoControllerTyped
  <2>3. perPacket \in SectorsPerPacket /\ perPacket \in Nat
    BY ConstantsTyped DEF Registry, Traffic
  <2>4. PICK number \in Nat : number = get_next_target_number
    BY <2>1
  <2>5. k = [NoController EXCEPT !.ports = {p}, !.perPacket = perPacket, !.number = number,
                                 !.registered = ours]
    BY <1>1, <2>4
  <2> QED BY <2>2, <2>3, <2>5 DEF Controlled, Controller
<1> QED BY <1>2, <1>3

\* A command that is started awaits no packet yet.
LEMMA StartOnPorts ==
  ASSUME Registry, OnPorts, NEW t \in Targets, NEW c \in Dispatchable,
         NEW k \in Controlled, k.perPacket \in SectorsPerPacket, StartCommand(k, t, c),
         used' = used, outstanding' = outstanding
  PROVE  OnPorts'
<1>1. /\ controller'[t].command.awaited = {}
      /\ \A u \in Targets \ {t} : controller'[u] = controller[u]
  BY Starts
<1>2. \A p \in outstanding : p.target \in Targets
  BY DEF Registry, Traffic, Packet
<1> QED BY <1>1, <1>2 DEF OnPorts

\* Once a command is started, its requests are the only ones (asyncCommand).
LEMMA StartFakes ==
  ASSUME Registry, Faking, NEW t \in Targets, NEW c \in Dispatchable,
         NEW k \in Controlled, k.perPacket \in SectorsPerPacket, StartCommand(k, t, c)
  PROVE  Faking'
<1>1. /\ controller'[t].command.kind = c.kind
      /\ controller'[t].command.state = "started"
      /\ \A u \in Targets \ {t} : controller'[u] = controller[u]
      /\ \A i \in DOMAIN sending' : sending'[i].target = t /\ sending'[i].kind = c.kind
      /\ c.kind = "faked" => Len(sending') = 1 /\ sending'[1].kind = "faked"
  BY Starts
<1> QED BY <1>1 DEF Faking

\* A packet of a command is sent on a port of its target (issueCommand).
LEMMA SendNextOnPorts ==
  ASSUME Registry, Registry', OnPorts, SendNext
  PROVE  OnPorts'
<1>1. PICK r \in Request : r = Head(sending)
  BY TailOf DEF SendNext, Registry, Traffic
<1>2. PICK t \in Targets : t = r.target
  BY DEF Request
<1>3. PICK k \in Controlled : k = controller[t]
  BY DEF Registry, Registered
<1>4. PICK tag \in Tags : tag = next_tag(currentTag)
  BY TagsTyped, ConstantsTyped DEF Registry, Traffic
<1>5. PICK last \in BOOLEAN : last = (Tail(sending) = <<>>)
  OBVIOUS
<1>6. PICK s : s = sent(k, r, tag, last)
  OBVIOUS
<1>7. /\ controller' = [controller EXCEPT ![t] = s] /\ used' = used
      /\ \/ r.kind = "faked" /\ outstanding' = outstanding
         \/ r.kind # "faked" /\ Transmit(r, tag)
  BY <1>1, <1>2, <1>3, <1>4, <1>5, <1>6 DEF SendNext
<1>8. controller'[t] = s /\ \A u \in Targets \ {t} : controller'[u] = controller[u]
  BY <1>7 DEF Registry, Registered
<1>9. s.ports = k.ports
  BY <1>6, SentTyped DEF SameTarget
<1>10. s.command.awaited \subseteq k.command.awaited \cup {tag}
       /\ (r.kind = "faked" => s.command.awaited = k.command.awaited)
  <2>1. CASE r.kind = "ident"
    <3>1. s = [k EXCEPT !.identTag = tag]
      BY <1>6, <2>1 DEF sent
    <3> QED BY <2>1, <3>1 DEF Controlled, Controller
  <2>2. CASE r.kind # "ident"
    <3>1. s = sent(k, r, tag, Tail(sending) = <<>>)
      BY <1>5, <1>6
    <3>2. SentPacket(k, r, tag, Tail(sending), s)
      BY <2>2, <3>1, SentCommand
    <3> QED BY <3>2 DEF SentPacket
  <2> QED BY <2>1, <2>2
<1> SUFFICES ASSUME NEW p \in outstanding'
             PROVE  /\ p.on \in used'
                    /\ p.tag \in controller'[p.target].command.awaited =>
                         p.on \in controller'[p.target].ports
  BY DEF OnPorts
<1>11. p.target \in Targets
  BY DEF Registry, Traffic, Packet
<1>12. CASE p \in outstanding /\ (p.tag # tag \/ r.kind = "faked")
  <2>1. p.on \in used /\ (p.tag \in controller[p.target].command.awaited =>
                            p.on \in controller[p.target].ports)
    BY <1>12 DEF OnPorts
  <2>2. CASE p.target = t
    BY <1>3, <1>7, <1>8, <1>9, <1>10, <1>12, <2>1, <2>2
  <2>3. CASE p.target # t
    BY <1>7, <1>8, <1>11, <2>1, <2>3
  <2> QED BY <2>2, <2>3
<1>13. CASE p.target = t /\ p.on \in k.ports /\ p.on \in used
  BY <1>7, <1>8, <1>9, <1>13
<1> QED BY <1>2, <1>3, <1>7, <1>12, <1>13, TransmitOnPorts

\* Issuing a request leaves the others those of their commands (issueCommand).  With
\* the one request of a command no packet is sent for, that command waits for the
\* timer, which is armed for its target (AoEControllerInterface.cpp:938-951).
LEMMA SendNextFakes ==
  ASSUME Registry, Faking, SendNext
  PROVE  /\ Faking'
         /\ \/ fakeTimer' /\ toFake' \in Targets /\ AwaitsFake(controller'[toFake'])
            \/ /\ fakeTimer' = fakeTimer /\ toFake' = toFake
               /\ \A u \in Targets : AwaitsFake(controller'[u]) => AwaitsFake(controller[u])
<1>1. sending # <<>> /\ sending \in Seq(Request)
  BY DEF SendNext, Registry, Traffic
<1>2. PICK r \in Request : r = Head(sending) /\ r = sending[1]
  BY <1>1, TailOf
<1>3. /\ 1 \in DOMAIN sending /\ Tail(sending) \in Seq(Request)
      /\ \A i \in DOMAIN Tail(sending) : /\ i + 1 \in DOMAIN sending
                                         /\ Tail(sending)[i] = sending[i + 1]
  BY <1>1, TailOf
<1>4. PICK t \in Targets : t = r.target
  BY DEF Request
<1>5. PICK k \in Controlled : k = controller[t]
  BY DEF Registry, Registered
<1>6. PICK tag \in Tags : tag = next_tag(currentTag)
  BY TagsTyped, ConstantsTyped DEF Registry, Traffic
<1>7. PICK rest : rest = Tail(sending)
  OBVIOUS
<1>8. PICK s : s = sent(k, r, tag, rest = <<>>)
  OBVIOUS
<1>9. /\ controller' = [controller EXCEPT ![t] = s] /\ sending' = rest
      /\ \/ r.kind = "faked" /\ fakeTimer' = TRUE /\ toFake' = t
         \/ r.kind # "faked" /\ fakeTimer' = fakeTimer /\ toFake' = toFake
  BY <1>2, <1>4, <1>5, <1>6, <1>7, <1>8 DEF SendNext
<1>10. controller'[t] = s /\ \A u \in Targets \ {t} : controller'[u] = controller[u]
  BY <1>9 DEF Registry, Registered
<1>11. \A i \in DOMAIN sending : sending[i].target \in Targets
  BY AgedTyped DEF Registry, Traffic
<1>12. /\ r.kind # "ident" => r.kind = k.command.kind
       /\ r.kind = "faked" => Len(sending) = 1
       /\ k.command.kind = "faked" => k.command.state # "data"
  BY <1>2, <1>3, <1>4, <1>5 DEF Faking
<1>13. s.command.kind = k.command.kind
       /\ (r.kind = "ident" => s.command = k.command)
       /\ (r.kind # "ident" =>
             s.command.state = IF rest # <<>> THEN k.command.state
                               ELSE IF r.kind = "identify" THEN "data" ELSE "status")
  <2>1. CASE r.kind = "ident"
    <3>1. s = [k EXCEPT !.identTag = tag]
      BY <1>8, <2>1 DEF sent
    <3> QED BY <2>1, <3>1 DEF Controlled, Controller
  <2>2. CASE r.kind # "ident"
    <3>1. SentPacket(k, r, tag, rest, s)
      BY <1>8, <2>2, SentCommand
    <3> QED BY <2>2, <3>1 DEF SentPacket
  <2> QED BY <2>1, <2>2
<1>14. ASSUME r.kind = "faked" PROVE rest = <<>>
  <2>1. Len(Tail(sending)) = 0
    BY <1>1, <1>12, <1>14, HeadTailProperties
  <2> QED BY <1>3, <1>7, <2>1, EmptySeq
<1>15. ASSUME NEW i \in DOMAIN sending'
       PROVE  /\ sending'[i].kind # "ident" =>
                   sending'[i].kind = controller'[sending'[i].target].command.kind
              /\ sending'[i].kind = "faked" => Len(sending') = 1
  <2>1. i + 1 \in DOMAIN sending /\ sending'[i] = sending[i + 1]
    BY <1>3, <1>7, <1>9
  <2>2. PICK q : q = sending[i + 1]
    OBVIOUS
  <2>3. /\ q.kind # "ident" => q.kind = controller[q.target].command.kind
        /\ q.kind = "faked" => Len(sending) = 1
    BY <2>1, <2>2 DEF Faking
  <2>4. controller'[q.target].command.kind = controller[q.target].command.kind
    BY <1>5, <1>10, <1>11, <1>13, <2>1, <2>2
  <2>5. q.kind # "faked"
    <3>1. Len(sending) # 1
      BY <1>1, <2>1, LenProperties
    <3> QED BY <2>3, <3>1
  <2> QED BY <2>1, <2>2, <2>3, <2>4, <2>5
<1>16. s.command.kind = "faked" => s.command.state # "data"
  BY <1>12, <1>13
<1>17. Faking'
  <2>1. \A u \in Targets : controller'[u].command.kind = "faked" =>
          controller'[u].command.state # "data"
    BY <1>10, <1>16 DEF Faking
  <2> QED BY <1>15, <2>1 DEF Faking
<1>18. CASE r.kind = "faked"
  <2>1. s.command.kind = "faked" /\ s.command.state = "status"
    BY <1>12, <1>13, <1>14, <1>18
  <2> QED BY <1>9, <1>10, <1>17, <1>18, <2>1 DEF AwaitsFake
<1>19. CASE r.kind # "faked"
  <2>1. AwaitsFake(s) => AwaitsFake(k)
    BY <1>12, <1>13, <1>19 DEF AwaitsFake
  <2> QED BY <1>5, <1>9, <1>10, <1>17, <1>19, <2>1
<1> QED BY <1>18, <1>19

\* The answer that is made up issues nothing, and ends the command it is for.
LEMMA FakeReturnQuiet ==
  ASSUME Registry, FakeReturnTimer
  PROVE  /\ Quiet
         /\ \A t \in Targets : toFake = t =>
              ~ (Busy(controller'[t]) /\ controller[t].command.kind = "faked"
                   /\ controller[t].command.state # "data")
<1>1. /\ sending = <<>> /\ sending' = sending /\ used' = used /\ outstanding' = outstanding
  BY DEF FakeReturnTimer, WorkLoopFree
<1>2. CASE toFake = Nobody
  <2>1. controller' = controller /\ toFake' = toFake
    BY <1>2 DEF FakeReturnTimer
  <2>2. Quiet
    BY <1>1, <2>1, BehindSelf DEF Quiet
  <2>3. Nobody \notin Targets
    BY ControllerAssumption DEF ControllerAssumption
  <2> QED BY <1>2, <2>2, <2>3
<1>3. CASE toFake # Nobody
  <2>1. PICK capacity \in Capacities : Respond(toFake, 0, <<>>, "ok", capacity)
    BY <1>3 DEF FakeReturnTimer
  <2>2. PICK t \in Targets : t = toFake
    BY <1>3, AgedTyped DEF Registry, Traffic
  <2>3. 0 \in Tags /\ capacity \in Nat /\ <<>> \in Seq(Sector)
    BY ConstantsTyped, EmptySeq
  <2>4. /\ Quiet
        /\ ~ (Busy(controller'[t]) /\ controller[t].command.kind = "faked"
                /\ controller[t].command.state # "data")
    BY <1>1, <2>1, <2>2, <2>3, RespondQuiet
  <2> QED BY <2>2, <2>4
<1> QED BY <1>2, <1>3

\* Packets are on ports that are used, and connected, in every state.
LEMMA OnPortsStep ==
  ASSUME Registry, Registry', OnPorts, [Next]_vars
  PROVE  OnPorts'
<1>1. CASE SendNext
  BY <1>1, SendNextOnPorts
<1>2. CASE FakeReturnTimer
  BY <1>2, FakeReturnQuiet, QuietOnPorts
<1>3. CASE StateUpdateTimer
  BY <1>3, StateUpdateQuiet, QuietOnPorts
<1>4. CASE UserSearch
  BY <1>4, UserSearchQuiet, QuietOnPorts
<1>5. CASE UserIdentify
  BY <1>5, UserIdentifyQuiet, QuietOnPorts
<1>6. ASSUME NEW t \in Targets, NEW p \in Ports, NEW ours \in BOOLEAN, Appear(t, p, ours)
      PROVE  OnPorts'
  <2>1. Identify \in Dispatchable /\ used' = used /\ outstanding' = outstanding
    BY <1>6, CommandsDispatchable DEF Appear
  <2> QED BY <1>6, <2>1, AppearStarts, StartOnPorts
<1>7. ASSUME NEW t \in Targets, NEW p \in Ports, NEW ours \in BOOLEAN, Heard(t, p, ours)
      PROVE  OnPorts'
  BY <1>7, HeardQuiet, QuietOnPorts
<1>8. ASSUME NEW t \in Targets, NEW c \in Commands, Dispatch(t, c)
      PROVE  OnPorts'
  <2>1. PICK k \in Controlled : k = controller[t] /\ k.perPacket \in SectorsPerPacket
    BY <1>8 DEF Dispatch, Registry, Registered
  <2>2. /\ c \in Dispatchable /\ StartCommand(k, t, c)
        /\ used' = used /\ outstanding' = outstanding
    BY <1>8, <2>1, CommandsDispatchable DEF Dispatch
  <2> QED BY <2>1, <2>2, StartOnPorts
<1>9. CASE \E t \in Targets : TimerExpires(t) \/ CommandTimeout(t)
  BY <1>9, TimerExpiresQuiet, CommandTimeoutQuiet, QuietOnPorts
<1>10. CASE \E p \in outstanding, status \in {"ok", "error"}, capacity \in Capacities :
              Answer(p, status, capacity)
  BY <1>10, AnswerQuiet, QuietOnPorts
<1>11. CASE \E p \in outstanding : GiveUp(p)
  BY <1>11, GiveUpQuiet, QuietOnPorts
<1>12. CASE \E n \in Ports : PortDown(n)
  BY <1>12, PortDownQuiet, QuietOnPorts
<1>13. CASE \E n \in Ports, per \in SectorsPerPacket : PortUp(n, per)
  BY <1>13, PortUpQuiet, QuietOnPorts
<1>14. CASE UNCHANGED vars
  BY <1>14 DEF vars, OnPorts
<1> QED
  BY <1>1, <1>2, <1>3, <1>4, <1>5, <1>6, <1>7, <1>8, <1>9, <1>10, <1>11, <1>12, <1>13, <1>14
  DEF Next, WorkLoop

\* What one step does to the answer of target t, whose command waits for the timer.
Answered(t) ==
  (AwaitsFake(controller'[t]) /\ (AwaitsFake(controller[t]) => fakeTimer /\ toFake = t))
    => /\ fakeTimer'
       /\ toFake' \in Targets /\ AwaitsFake(controller'[toFake'])

\* A step that issues no packet of a command, other than the timer itself, leaves
\* the answer of a command on its way.
LEMMA QuietAnswers ==
  ASSUME Registry, Faking, Quiet, fakeTimer' = fakeTimer, NEW t \in Targets
  PROVE  Answered(t)
<1> SUFFICES ASSUME AwaitsFake(controller'[t]),
                    AwaitsFake(controller[t]) => fakeTimer /\ toFake = t
             PROVE  fakeTimer' /\ toFake' = t
  BY DEF Answered
<1>1. AwaitsFake(controller[t]) /\ controller'[t] # NoController
  BY QuietCommand DEF AwaitsFake
<1> QED BY <1>1 DEF Quiet

\* The timer ends the command it answers (FakeReturnTimer).
LEMMA FakeReturnAnswers ==
  ASSUME Registry, Faking, FakeReturnTimer, NEW t \in Targets
  PROVE  Answered(t)
<1> SUFFICES ASSUME AwaitsFake(controller'[t]),
                    AwaitsFake(controller[t]) => fakeTimer /\ toFake = t
             PROVE  FALSE
  BY DEF Answered
<1>1. AwaitsFake(controller[t]) /\ toFake = t
  BY FakeReturnQuiet, QuietCommand DEF AwaitsFake
<1> QED BY <1>1, FakeReturnQuiet DEF AwaitsFake, Busy

\* A command that is started does not wait for the timer yet, and the others are as
\* they were.
LEMMA StartAnswers ==
  ASSUME Registry, NEW u \in Targets, NEW c \in Dispatchable,
         NEW k \in Controlled, k.perPacket \in SectorsPerPacket, StartCommand(k, u, c),
         fakeTimer' = fakeTimer, toFake' = toFake, NEW t \in Targets
  PROVE  Answered(t)
<1>1. /\ controller'[u].command.state = "started"
      /\ \A v \in Targets \ {u} : controller'[v] = controller[v]
  BY Starts
<1> QED BY <1>1 DEF Answered, AwaitsFake

\* What is known of commands no packet is sent for is kept, and their answers are
\* on their way, whatever happens.
LEMMA FakingStep ==
  ASSUME Registry, Faking, Next
  PROVE  Faking' /\ \A t \in Targets : Answered(t)
<1>1. CASE SendNext
  <2>1. Faking' /\ \A t \in Targets : Answered(t)
    BY <1>1, SendNextFakes DEF Answered
  <2> QED BY <2>1
<1>2. CASE FakeReturnTimer
  BY <1>2, FakeReturnQuiet, QuietFakes, FakeReturnAnswers
<1>3. CASE StateUpdateTimer
  BY <1>3, StateUpdateQuiet, QuietFakes, QuietAnswers
<1>4. CASE UserSearch
  BY <1>4, UserSearchQuiet, QuietFakes, QuietAnswers
<1>5. CASE UserIdentify
  BY <1>5, UserIdentifyQuiet, QuietFakes, QuietAnswers
<1>6. ASSUME NEW t \in Targets, NEW p \in Ports, NEW ours \in BOOLEAN, Appear(t, p, ours)
      PROVE  Faking' /\ \A u \in Targets : Answered(u)
  <2>1. fakeTimer' = fakeTimer /\ toFake' = toFake
    BY <1>6 DEF Appear
  <2> QED BY <1>6, <2>1, CommandsDispatchable, AppearStarts, StartFakes, StartAnswers
<1>7. ASSUME NEW t \in Targets, NEW p \in Ports, NEW ours \in BOOLEAN, Heard(t, p, ours)
      PROVE  Faking' /\ \A u \in Targets : Answered(u)
  BY <1>7, HeardQuiet, QuietFakes, QuietAnswers
<1>8. ASSUME NEW t \in Targets, NEW c \in Commands, Dispatch(t, c)
      PROVE  Faking' /\ \A u \in Targets : Answered(u)
  <2>1. PICK k \in Controlled : k = controller[t] /\ k.perPacket \in SectorsPerPacket
    BY <1>8 DEF Dispatch, Registry, Registered
  <2>2. /\ c \in Dispatchable /\ StartCommand(k, t, c)
        /\ fakeTimer' = fakeTimer /\ toFake' = toFake
    BY <1>8, <2>1, CommandsDispatchable DEF Dispatch
  <2> QED BY <2>1, <2>2, StartFakes, StartAnswers
<1>9. CASE \E t \in Targets : TimerExpires(t) \/ CommandTimeout(t)
  BY <1>9, TimerExpiresQuiet, CommandTimeoutQuiet, QuietFakes, QuietAnswers
<1>10. CASE \E p \in outstanding, status \in {"ok", "error"}, capacity \in Capacities :
              Answer(p, status, capacity)
  BY <1>10, AnswerQuiet, QuietFakes, QuietAnswers
<1>11. CASE \E p \in outstanding : GiveUp(p)
  BY <1>11, GiveUpQuiet, QuietFakes, QuietAnswers
<1>12. CASE \E n \in Ports : PortDown(n)
  BY <1>12, PortDownQuiet, QuietFakes, QuietAnswers
<1>13. CASE \E n \in Ports, per \in SectorsPerPacket : PortUp(n, per)
  BY <1>13, PortUpQuiet, QuietFakes, QuietAnswers
<1> QED
  BY <1>1, <1>2, <1>3, <1>4, <1>5, <1>6, <1>7, <1>8, <1>9, <1>10, <1>11, <1>12, <1>13
  DEF Next, WorkLoop

\* The port of a packet that is awaited and that goes down is found, and so is the
\* first target connected to it (cancel_commands_on_interface).
LEMMA PortDownCancels ==
  ASSUME Registry, OnPorts, NEW n \in Ports, PortDown(n), used' # used,
         NEW p \in outstanding \ outstanding', Busy(controller[p.target]),
         p.tag \in controller[p.target].command.awaited, FirstOn(p.target, p.on)
  PROVE  ~ Busy(controller'[p.target])
<1>1. PICK t \in Targets : t = p.target
  BY DEF Registry, Traffic, Packet
<1>2. PICK k \in Controlled : k = controller[t]
  BY DEF Registry, Registered
<1>3. used' = used \ {n} /\ n \in used /\ p.on \notin used' /\ p.on \in used
  BY DEF PortDown, OnPorts
<1>4. p.on = n /\ n \in k.ports
  BY <1>1, <1>2, <1>3 DEF OnPorts
<1>5. PICK from : from = {q \in used : q >= n}
  OBVIOUS
<1>6. from \subseteq Nat /\ n \in from /\ n \in Nat
  <2>1. Ports \subseteq Nat
    BY ControllerAssumption DEF ControllerAssumption
  <2>2. used \subseteq Nat
    BY <2>1 DEF Registry, Traffic
  <2>3. n >= n
    BY <1>3, <2>2
  <2> QED BY <1>3, <1>5, <2>2, <2>3
<1>7. Lowest(from) = n
  <2>1. Lowest(from) \in from /\ \A m \in from : Lowest(from) <= m
    BY <1>6, LowestIsLeast
  <2>2. Lowest(from) \in Nat /\ Lowest(from) >= n /\ Lowest(from) <= n
    BY <1>5, <1>6, <2>1
  <2> QED BY <1>6, <2>2
<1>8. Hit(n) = {i \in DOMAIN controllers : n \in controller[controllers[i]].ports}
  BY <1>5, <1>6, <1>7 DEF Hit
<1>9. PICK i \in DOMAIN controllers :
        /\ controllers[i] = t
        /\ \A j \in DOMAIN controllers : n \in controller[controllers[j]].ports => i <= j
  BY <1>1, <1>4 DEF FirstOn
<1>10. i \in Hit(n) /\ \A j \in Hit(n) : i <= j
  BY <1>2, <1>4, <1>8, <1>9
<1>11. Lowest(Hit(n)) = i
  <2>1. Hit(n) \subseteq Nat
    <3>1. DOMAIN controllers \subseteq Nat
      BY LenProperties DEF Registry, Registered
    <3> QED BY <1>8, <3>1
  <2>2. Lowest(Hit(n)) \in Hit(n) /\ Lowest(Hit(n)) <= i
    BY <1>10, <2>1, LowestIsLeast
  <2>3. Lowest(Hit(n)) \in Nat /\ i \in Nat /\ i <= Lowest(Hit(n))
    BY <1>10, <2>1, <2>2
  <2> QED BY <2>2, <2>3
<1>12. controller'[t] = cancel_command(k)
  BY <1>2, <1>9, <1>10, <1>11 DEF PortDown
<1> QED BY <1>1, <1>2, <1>12, BehindEnded DEF cancel_command

\* Nothing is on its way when the driver starts.
LEMMA OnPortsInit == Init => OnPorts /\ Faking
<1> SUFFICES ASSUME Init PROVE OnPorts /\ Faking
  OBVIOUS
<1>1. OnPorts
  BY DEF Init, OnPorts
<1>2. DOMAIN sending = {}
  BY EmptySeq DEF Init
<1>3. \A t \in Targets : controller[t].command.kind = "identify"
  BY DEF Init, NoController, NoCommand
<1>4. Faking
  BY <1>2, <1>3 DEF Faking
<1> QED BY <1>1, <1>4

\* Where packets are, in every state of the driver.
LEMMA OnPortsAlways == Spec => [](Registry /\ OnPorts)
<1>1. Registry /\ OnPorts /\ [Next]_vars => (Registry /\ OnPorts)'
  BY OnPortsStep, RegistryStep
<1> QED BY <1>1, OnPortsInit, RegistryInit, PTL DEF Spec

\* A packet that is purged is purged by a port that goes down.
LEMMA PurgedByPort ==
  ASSUME [Next]_vars, used' # used, outstanding' # outstanding
  PROVE  \E n \in Ports : PortDown(n)
BY DEF Next, WorkLoop, SendNext, FakeReturnTimer, StateUpdateTimer, UserSearch, UserIdentify,
       Appear, Heard, Dispatch, TimerExpires, CommandTimeout, Answer, GiveUp, PortUp, vars

\* "if one of them goes down, we cancel the whole command"
\* (AoEControllerInterface.cpp:682): the command of the first target connected to
\* a port does not go on when its packets went with the port.
THEOREM FirstIsCancelled == Spec => PurgedFirstCancelled
<1>1. Registry /\ OnPorts /\ [Next]_vars =>
        [\A p \in outstanding \ outstanding' :
           (used' # used /\ Busy(controller[p.target])
              /\ p.tag \in controller[p.target].command.awaited /\ FirstOn(p.target, p.on))
           => ~Busy(controller'[p.target])]_vars
  <2> SUFFICES ASSUME Registry, OnPorts, [Next]_vars,
                      NEW p \in outstanding \ outstanding', used' # used,
                      Busy(controller[p.target]),
                      p.tag \in controller[p.target].command.awaited,
                      FirstOn(p.target, p.on)
               PROVE  ~Busy(controller'[p.target])
    BY Zenon
  <2> QED BY PurgedByPort, PortDownCancels
<1> QED BY <1>1, OnPortsAlways, PTL DEF Spec, PurgedFirstCancelled

\* The answer to a command the AoE protocol has no packet for is lost only to the
\* command of another target that is faked before the timer runs
\* (AoEControllerInterface.cpp:473-490, 938-951): while any command waits for the
\* timer whose answer was not overwritten, the timer is armed, and for a command
\* that waits for it.
THEOREM FakedAreAnswered == Spec => FakedAnswered
<1>1. Registry /\ Faking /\ [Next]_vars => (Registry /\ Faking)'
  <2>1. ASSUME Faking, UNCHANGED vars PROVE Faking'
    BY <2>1 DEF Faking, vars
  <2> QED BY <2>1, RegistryStep, FakingStep
<1>2. Registry /\ Faking /\ [Next]_vars =>
        [\A t \in Targets :
           (AwaitsFake(controller'[t]) /\ (AwaitsFake(controller[t]) => fakeTimer /\ toFake = t))
           => /\ fakeTimer'
              /\ toFake' \in Targets /\ AwaitsFake(controller'[toFake'])]_vars
  BY FakingStep DEF Answered
<1>3. Init => Registry /\ Faking
  BY OnPortsInit, RegistryInit
<1> QED BY <1>1, <1>2, <1>3, PTL DEF Spec, FakedAnswered

=============================================================================

# A TLA+ development of the AoE driver for OS X

The repository holds a driver for ATA over Ethernet: a kernel extension that
makes remote disks (*targets*, addressed by shelf and slot) appear as local ones,
a daemon and a preference pane that configure it, and a network kernel extension
inside the kext that catches AoE frames. This directory models the parts of it that
are hard to test: the packet transport with its retransmissions, timers and
congestion control, on ports that come and go; above it the controllers that
split block transfers into packets and put the answers together, with the registry
of targets; beside them the administration: the program `aoed`, the settings it
stores and applies, and the config strings that say whose a target is. The models
are checked by TLC on small instances, and the main results are proved by TLAPS for
every instance.

## The system

| Component | Source (under `src/`) | State | Operations |
|---|---|---|---|
| **Transport** | `AoE/AoEService.cpp` | send queue, sent queue, transmit/retransmit/idle timers, user's window, RTO estimate | `send_packet_on_interface`, `TransmitTimer`, `RetransmitTimer`, `IdleTimer`, `cg_aoe_incoming`, `cg_enable_interface`, `cg_disable_interface`, `interface_reconnected`, `set_user_window`, `find_targets` |
| **Ports** | `AoE/EInterfaces.cpp`, `EInterface.cpp` | per port: enabled, outstanding count, cwnd and its fraction, ssthresh, buffer counts, time of the last send; MTU, count of ports in use | queries and updates called by the transport; `enable_interface`, `interface_disconnected`, `reset_if_idle`, `recalculate_mtu` |
| **Ethernet filter** | `AoE/AoEtherFilter.c` | attached filters | input filter, link events, attach and detach |
| **Controllers' registry** | `AoE/AoEControllerInterface.cpp` | list of targets and controllers, tags, time each target was last heard of, pending fake reply | `aoe_config_receive`, `aoe_ata_receive`, `send_packet` (load balancing), `StateUpdateTimer`, `check_down_targets`, `FakeReturnTimer`, `cancel_commands_on_interface` |
| **ATA controller** | `AoE/AoEController.cpp` | state of the command being executed, reply counts, ports of the target | `asyncCommand` (splits a command in packets), `ata_response`, `handle_identify`, `cancel_command`, `device_online` |
| **User interface of the kext** | `AoE/AoEUserInterface.c` | preferences last applied, the mutex of the sessions | `aoeinterface_connect`, `aoeinterface_disconnect`, `aoeinterface_set`, `aoeinterface_get` |
| **Device nub** | `AoE/AoEDevice.cpp` | identification published to IOKit | forwards commands and completions |
| **Daemon** | `aoed/main.cpp` | the options of one invocation, the state of an unmount | settings, claim (`-c`), unclaim (`-C`), wait for the driver (`-w`) |
| **Preferences** | `Shared/PreferenceLoadSave.cpp`, `Preferences.cpp`, `ConfigString.c` | the preference file | `recall_settings`, `store_settings`, `SetSettingsInKEXT` |
| **Front ends** | `AoEPreference/*`, `AoECommander/*` | what the windows show | buttons |

How they interact. Commands come down from IOKit through the device nub to the
ATA controller of the target, which splits a transfer in packets and hands each to
the registry; the registry picks a port and passes it to the transport, which
queues it and sends it when the port's window has room. Frames come up from the
filter through the command gate to `cg_aoe_incoming`, which takes the packet they
answer off the sent queue and hands them to the registry and the controller.
Everything but one path runs on one work loop (timers, gated calls, and with
`USE_CG_FOR_INCOMING_PACKETS` the incoming frames), one handler at a time. The
exception are searches, `interface_reconnected` and some setters which user
programs and link events call outside the gate: the searches interleave with the
handlers.

`aoed` is run by launchd at boot, by the preference pane and by users, several at a
time. Each invocation recalls the preference file, changes what its options say,
writes the file and opens a session with the driver (a kernel control socket) to
apply it; `-c` and `-C` open a session of their own and order targets to store or
delete this computer's config string. The driver keeps a copy of every target's
string, renewed by the answers to its searches, and has the system mount the disks
of those that hold ours.

What is hard about it, and at which line each hazard bites, is listed under
`hazards` in `PROJECT.json` with the properties that cover it. What makes each
component correct:

* transport: a command is answered at most once and never after it was given up;
  none is forgotten by both timers or queued twice; every one is settled; searches
  are sent before they are dropped; nothing is queued on a port that is gone;
* ports: the outstanding count is exactly the number of packets in flight, the
  window is kept to, it never collapses to nothing and grows by at most a packet
  per answer;
* registry: numbers stay apart, silent targets are removed, a controller on a lost port
  is cancelled, a faked reply reaches the controller that waits for it;
* controller: a command completes once, after all its replies, with the first
  error; replies of another command are not counted; the packets of a transfer
  cover it exactly;
* ports, filter, user interface: the preferences are applied in full, there is one
  filter on each port asked for, the count that decides what is published matches
  the ports in use, packets fit the smallest MTU;
* daemon: what users have asked for is in the file and in the driver, after a boot
  too, and no invocation waits for ever;
* claims: the disks that are registered are those of targets that store our string,
  and a disk that cannot be unmounted stays;
* round trip estimate: no overflow, a timeout that covers the last round trip, is
  never 0 and settles when the round trips that are measured do.

## Modules

| Module | What it is |
|---|---|
| `EInterfaces` | The record of one port and the operations on it (`EInterface.cpp`, the congestion control of `EInterfaces.cpp`) as operators |
| `AoEService` | The transport as a state machine: one action per handler |
| `ReliableExchange` | What the transport promises to controllers, without queues, timers, windows or network |
| `MCAoEService` | Instances for TLC: values of the constants, symmetry of the ports |
| `AoEController` | The controllers and their registry as a state machine, above an abstract transport |
| `MCAoEController` | Instances of it for TLC: the commands, the ports, the MTUs |
| `AoEUserInterface` | The sessions of user programs, the preferences they apply port by port, filters, MTU and link events |
| `Aoed` | The program `aoed` above it (extends `AoEUserInterface`): file, invocations, boot, failures |
| `MCAoed` | An instance of it: the command lines |
| `Claims` | Config strings: targets, the driver's copies, `aoed -c` and `-C`, disks |
| `MCClaims` | An instance of it |
| `RoundTrip` | The round trip estimate and the timeouts it gives, with ints of limited width |
| `MCRoundTrip` | An instance of it with ints of 8 bits |
| `EInterfacesProofs` | Every operation on a port keeps its record well formed |
| `AoEServiceProofs` | Invariants of the transport and of its outstanding counts, proved |
| `AoEServiceRefinement` | The transport implements `ReliableExchange`, proved |
| `LeastNumbers` | A nonempty set of numbers has a least member: what the proofs need of `CHOOSE` |
| `AoEControllerProofs` | Invariants of the registry, of block transfers, of ports and of faked answers, proved |
| `AoedProofs` | Invariants of the administration, proved |
| `ClaimsProofs` | Invariants of claims and unclaims, proved |
| `RoundTripProofs` | Invariants of the round trip estimate, proved |

### State and actions of `AoEService`

`interfaces` is `m_aInterfaces`; `sent_queue` and `to_send_queue` are the two
TAILQs, as sets: an item has a tag, tags are taken from `next_tag()` and items
appended in the same handler, so that queue order is tag order, except for
retransmissions, which are all sent before anything else (`immediately` is
`fSendImmediately`). An item of the sent queue keeps, of its times, whether they
are zero (`first`, `timed`); `resent` is `fPacketHasBeenRetransmit`. The three
timers are armed or not. `userWindow` is `m_nMaxUserWindow`. `attached` and `link`
are what the filters and the cables do. `wire` and `answers` are external: which
packets the network has seen, and how many answers were handed to the controllers.

| Action | Code |
|---|---|
| `SendPacketOnInterface` | `send_packet_on_interface` by a gated caller, `add_to_send_queue` included |
| `UserSearchCheck`, `UserSearchQueue` | the same by `find_targets` on a user program's thread: the check and the insertion are two steps |
| `PeriodicSearch` | the search of `StateUpdateTimer` |
| `TransmitTimer` | `TransmitTimer` with `send_packet_from_queue` and `enable_retransmit_timer`, `enable_idle_timer` |
| `RetransmitTimer` | `RetransmitTimer` with `resend_packet` |
| `IdleTimer` | `IdleTimer`, `reset_if_idle` |
| `AoeIncoming`, `DeviceOnline` | `cg_aoe_incoming` with `handle_aoe_cmd`'s `set_max_outstanding` |
| `SetUserWindow` | `set_user_window` |
| `EnableInterface`, `DisableInterface` | the user adds or removes a port |
| `LinkOff`, `LinkOn` | link events of the filter: `cg_disable_interface`, `interface_reconnected` |

Abstractions. Time: an armed timer may fire at any moment, and when the retransmit
timer fires any of the packets on the wire may be late, any may be past
`MAX_TIMEOUT_BEFORE_DROP`. The one use of real time is in `IdleTimer`: it fires 5 s
(`IDLE_DELAY`) after the last command was transmitted, while a retransmission is
due within 5 ms (`MAX_RETRANSMIT`, `RTO_MIN`), so no command is then on the wire
without having been looked at. Targets: those of one shelf share a buffer count, as
in `m_anMaxOutstanding`. Answers: lost, late, repeated, from any port, refused.

### State and actions of `AoEController`

`controllers` is `m_pControllers` and `controller[t]` the members of the
`AoEController` of target `t`, whose `command` is the `IOATABusCommand` it executes
(or executed last, when `state` is `"complete"`). `outstanding` stands for the
transport: the packets it holds, each of which is answered at most once or given
up. That is what `ReliableExchange` promises and `AoEService` implements
(`AtMostOnce`, `ExchangeImplemented`); a packet purged with its port is a packet
given up. The base class `IOATAController` is external: it submits one command at
a time, goes on to the status phase after the data phase unless the latter asks
for another interrupt, and times commands out.

| Action | Code |
|---|---|
| `Appear`, `Heard` | `aoe_config_receive` for a new and for a known target: `attach_device`, `update_target_info`, the config string's verdict |
| `Dispatch` | `busCanDispatch` and `asyncCommand`: divides the transfer, resets the counts |
| `SendNext` | one `issueCommand` or `send_identify` of the work loop: `next_tag`, `append_write_data`, `send_ata_packet`, `send_packet` |
| `Answer` | `aoe_ata_receive`, `ata_response`, `handle_identify`, `completeDataRead`, `asyncStatus` |
| `FakeReturnTimer` | the reply to a command AoE does not have (flush, sleep, set features) |
| `GiveUp` | the transport drops a packet |
| `TimerExpires`, `CommandTimeout` | the base class's timer runs out (`checkTimeout()`); its handler gets its turn |
| `StateUpdateTimer` | `check_down_targets`, `aoe_search_all`, `identify_all_targets` |
| `UserSearch`, `UserIdentify` | the same search on a user program's thread, identifying one target per step |
| `PortDown`, `PortUp` | `cg_disable_interface` with `cancel_commands_on_interface`; `interface_reconnected`, `cg_enable_interface` with `adjust_mtu_sizes` |

The work loop runs one handler at a time, but the packets a handler issues are
sent in steps of their own (`sending`; no other handler starts while there are
any), because a user's search takes tags from `next_tag` on its own thread
meanwhile (`userSending`).

Abstractions. Data: a sector is its address on the disk, and a buffer records for
each of its sectors which one was read into it. Whose packet an answer belongs to
is known to the model (`awaited`) and not to the code, which keeps counts and the
first tag; `awaited`, `lost`, `clean` and `failed` are history no guard reads.
The load balancer's choice among the used ports of a target is nondeterministic,
and when there is none `SendNext` is not enabled: the loop goes on for ever. Byte
counts are 32 bits wide (`LeftOver`), the sector count of a packet 8. The reply of
`FakeReturnTimer` carries no data: if it comes when no command waits, it passes for
the answer to an identify with tag 0 and the capacity is whatever is behind the
header on the stack. A pointer to a controller that was removed is `Nobody`:
nothing is done with it. The error of `asyncCommand` is not modelled (a target always
has a port it was heard on). `expired` is what `checkTimeout()` returns: between the
moment a command's time is up and the base class's handler, answers still come in,
and `completeDataRead` ends a read at the first of them without taking its data
(1442-1447); `ata_response` drops the error that is returned (456).

### State and actions of `AoEUserInterface` and `Aoed`

`mutex` is `g_mutex`, `prefs` is `g_PreferenceData` with the ports and one number
(`size`) for the transfer size and the window. `work` is what a call of
`aoeinterface_set` has still to do. `enabled`, `inUse`, `minMtu` are
`m_aInterfaces[].m_fEnabled`, `m_nInterfacesInUse`, `m_Min_MTU`; `controllersMtu` is
what `adjust_mtu_sizes` told the controllers, `published` the property user programs
read. `filters` counts attached filters, which is the system's state, `rejoin` holds
the local variables of `interface_reconnected`. `proc[c]` is an invocation of
`aoed`, `file` the preference file.

| Action | Code |
|---|---|
| `OpenSession`, `Connect`; `ShortSession`, `Unmounted`, `UserDismissesAlert`, `Disconnect` | `connect_to_driver`, `disconnect` with `aoeinterface_connect`, `aoeinterface_disconnect`, by each option that talks to the driver |
| `Start`, `StartAtBoot` | `main` up to the options: `recall_settings`, the setters of `AoEPreferences` |
| `UnmountFailed` | the alert of `-C` |
| `StoreSettings`, `NothingToSend` | `store_settings` (which may fail unnoticed), `-s`, `-i` |
| `SetPreferences` | `aoeinterface_set`: the difference to the previous preferences |
| `EnablePort`, `DisablePort`, `DetachFilter`, `SetTheRest` | the calls it makes: `cg_enable_interface`, the two halves of `disable_interface`, what follows the ports |
| `Cable` (`LinkOff`, `LinkOn`), `LinkEvent` (`LinkCounted`, `LinkStored`, `LinkAdjusted`) | link events; `interface_reconnected` in the steps between which other threads run |
| `Kill`, `Reboot`, `LoadKext` | the end of a process and its socket, a restart, the driver loading |

Gated calls are one step. `interface_reconnected` is not gated: it reads and writes
the count of ports, computes the MTU and passes it on in steps of its own.
Abstracted: file formats and the dictionary, the wait loops of `main` (a guard),
the registry look-ups. All ports are present; a port is listed once.

### State and actions of `Claims`

`own[t]` is the string target `t` stores, `local[t]` the copy in its controller
(`m_aConfigString`), `ours` is `m_pszOurCString`. Strings are six values told apart
by what the code does with them: of length 0; one byte (what `-C` sends: `Length` 0 is
sent as one byte that was never set) that is a NUL, our string's first one, or any
other; ours, another host's. `copied` is what a copy holds after a string was
written over it: a byte replaces the first one and leaves the rest, so that our
string becomes `"cut"`, and ours again when the byte is its own.
`number[t]` is `nTargetNumber`, 0 when there is no controller; `orders` are the
`CONFIG_STR_FORCE_SET` packets the transport holds, each with a tag of its own
(`order_tag`), `answers` what targets have sent; `session` is the one `aoed` that holds the mutex.

| Action | Code |
|---|---|
| `Deliver` | `aoe_config_receive` with `handle_aoe_cmd`, for a known target and for a new one |
| `AnswerSearch`, `AnswerOrder`, `Lose` | targets and the network |
| `GiveUp` | the transport drops an order |
| `OtherHostWrites`, `GoesDown` | another host claims a target; `check_down_targets` |
| `SetOurString` | `set_our_cstring` with the first preferences |
| `Start`, `Claim`, `LookForDisk`, `Unmounted`, `UnmountFails`, `Unclaim`, `KeepTarget` | `main`'s `-c` and `-C`, `UnmountCallback`, `set_targets_cstring` with `set_config_string` |
| `DiskAppears` | the system mounts a registered disk |

Silence, lost orders and other hosts are separate events under one bound. An order
to a target without ports is not sent (`order_not_sent`).

### State and actions of `RoundTrip`

`update_rto`, `get_rto_us`, `resend_packet` and the part of `send_packet_on_interface`
that sets a timeout, for one packet at a time. Integers have the width `2H`, 64-bit
ones its square; `AsInt` and `AsUInt64` are the conversions, overflow wraps around,
shifts of negative numbers round down, as the compilers of this code do. The time of
a packet is any of `Times`, whatever its timeout was, because the timer starts anew
with each packet sent. A search is sent without a timeout (`fRetransmit` is `FALSE`),
measured if it is answered, and dropped by the timer if not (`drop_packet`, as packets
that are too old are). `streak` counts how many of the last times measured were equal,
up to `Steady`.

### Properties and runs

| Run | Instance | Shows |
|---|---|---|
| `transport_commands` | 2 ports, 4 commands, windows up to 4, buffer count 2, user window of 1 | `TypeOK`, `QueuedUnlessOnWire`, `QueuesOnUsedPorts`, `Accounting`, `FractionBelowWindow`, `FirstSendWithinWindow`, `NotDroppedUnsent` |
| `transport_links` | 2 ports, 2 packets, commands, gated and ungated searches, cables out and in | `QueuedUnlessOnWire`, `TimersArmed`, `AtMostOnce` |
| `transport_liveness` | 2 ports, 2 packets, buffer count 1, fairness | `NoSlotLost`, `EverythingSettles`, `NothingStuck` |
| `transport_replugged` | 1 port, cable events, fairness | violation of `NothingStuck` |
| `controller_transfers` | 1 target, 2 ports, MTU of 1 or 2 sectors, a read and a write of 3 sectors, tags below 7, command timers, periodic search, cable events | `TypeOK`, `DataInPlace`, `WholeTransfer`, `AwaitedReplies`, `PacketsInTransfer` |
| `controller_registry` | 2 targets, 1 port, flushes, tags below 7, offline after 1 state update, periodic search and user searches, cable events | `NumbersUnique`, `RemovedInTurn`, `PurgedFirstCancelled`, `FakedAnswered` |
| `controller_ident_reply` | 1 target, 1 port, a read of 2 sectors, periodic search | violation of `IdentEndsNothing` |
| `controller_write_error` | 1 target, 1 port, a write of 3 sectors | violation of `WriteErrorReported` |
| `controller_down_target` | 1 target, 1 port, tags wrap, periodic search, cable events, fairness | violation of `SilentRemoved` |
| `aoed_settings` | 2 ports of unequal MTU, 2 clients, 2 invocations and the daemon, 1 failure, 2 cable events, fairness | `TypeOK`, `PortsAsApplied`, `FilteredAsApplied`, `PublishedAsUsed`, `PacketsFit`, `SettingsKept`, `BootApplies`, `InvocationsEnd` |
| `claims_ownership` | 2 targets, one claim and one unclaim of both, 1 answer under way per target, 1 failure, `-C` sending our string's first byte or another one, fairness | `TypeOK`, `RegisteredAsStored`, `BusyDiskStays`, `LostIsReleased` |
| `round_trip` | ints of 8 bits, times from 0 to beyond the width, runs of up to 25 equal times | `InRange`, `CoversLast`, `Settled` |

The bounds, and why they are enough. For the transport, `MaxTag` is the number of packets of a
behaviour: with four commands the window of a port grows from 1 past its slow start
threshold (2, half of `DefaultWindow` = 4), collapses, and the fraction of
congestion avoidance accumulates; two packets are enough for the races between an
answer, a timeout, a search and a port, which concern one packet and one
bystander. Two ports suffice for whatever moves between ports: answers arriving on
another port, the purge of one port's packets, the scan of `TransmitTimer` that
passes over a busy port. `CableEvents` and `UserSearches` switch two sources of
events on, so that each run answers one question. The tag counter's wrap-around is
out of the instances' reach and not modelled. `BufferCounts` excludes 0: a
target that announced it would never be sent anything.

For the controllers, `MaxTag` bounds the packets likewise. Six tags are enough for
the identify every target begins with, a transfer of three packets (or of two, one
of which is left over) and an identify in between, or for two commands in a row,
the first of them cancelled with its answers still on the way. Three sectors are
the fewest that an MTU of two does not divide. One target suffices where properties
concern one command's transfer, and consecutive tags are then the code's assumption
about them. Two are needed where targets meet: in the registry, whose rules compare
them pairwise, on a port both are connected to, of which the first is cancelled, and
at the one timer that answers flushes; with six tags both identify themselves, both
have a flush, and two packets are left for a port to take away.
Deadlock is not checked: with all tags used, and nothing under way, the instances
stop.

For `Aoed`, two invocations are what it takes to overwrite each other's settings or
to wait for each other; with the daemon at boot, and again after a restart, there are
up to four in a behaviour and two at a time. The command lines cover a change of the
ports, one that is not saved, a session without settings, and one that waits for a
disk and changes another setting. One failure is a kill, a failed write or a restart at any
point; two cable events unplug and plug one port, or unplug both. Unequal MTUs make
the order of two updates visible. Deadlock is not checked there, since users may have
nothing more to type.

For `Claims`, two targets are what it takes for a number to pass from one to the
other; the claim names number 1 and the unclaim numbers 1 and 2, in either order.
Targets begin without a string (`InitialStrings`), and get ours by the claim, another
host's or a byte of `-C` from then on.
One answer per target under way suffices for it to be older than an order, the
failure is an order given up, an order not sent, silence or another host's write.

For `RoundTrip`, 8 bits and times up to 25 with nanoseconds in pairs keep the
proportions of the code: the initial timeout is 10 minima, a time of 25 is the
longest that fits, 200 does not. `Steady` = 25 is the least number of equal times after
which the timeout is at that time whatever was measured before; with 24 `Settled`
fails. (32-bit ints take longer; what matters is that the rounding shifts come to rest
near the time, and not where an overflow left them.)

Fairness (`aoed_settings`). The system loads the driver and starts the daemon,
schedules the steps of an invocation, of the call it is in and of a link event being
handled, and disks answer an unmount one way or the other: weak fairness of each.
Users owe nothing: no command needs to be typed, no alert dismissed. The mutex is
free for ever once the finitely many others are done, so weak fairness gets it.

Fairness (`claims_ownership`). A target answers the search of the timer (weak) and
of its answers some get through (strong, since they may be lost, and wait behind
others).

Fairness (`controller_down_target`). The work loop goes on with the handler it is
in (`SendNext`, weak) and serves the state update timer, which re-arms itself, in
turn with its other event sources (strong, because packets of other handlers keep
making it wait). The violation does not come from the timer being
neglected: it is disabled for good.

Fairness (`transport_liveness`, `transport_replugged`). The work loop runs expired
timers: weak fairness of `TransmitTimer`, `Retransmission`, `Idle`. The periodic
search re-arms itself every minute: weak fairness of `Search`; this is what sends
the packets that an early return (778) or a timeout (1591) left waiting without
arming the transmit timer. A packet that is never answered gets older than
`MAX_TIMEOUT_BEFORE_DROP` and later timeouts keep finding it: strong fairness of
`Drops(t)`. Nothing is assumed of the network, the user or the targets. One
caveat: with `TRIGGER_RETRANSMIT_WHEN_TX_COMPLETE` each transmission restarts the
retransmit timer, so a port that transmits without pause starves it; a behaviour
with finitely many packets, as all of ours are, cannot.

### Divergences found

* `transport_replugged`: the outstanding count of an unplugged port is never reset
  (the loop variable through which `cg_disable_interface` would do it is `NULL` by
  then), and a replugged port may never send again.
* `controller_ident_reply`: the answer to an identify of the driver's own is
  counted as a reply to the read or write in progress.
* `controller_write_error`: the first answer's status takes the place where the
  error of a later one should have been stored.
* `controller_down_target`: the load balancer looks for a used port for ever, and
  the target whose ports are all down is never removed.

Met while modelling and without a run of their own, because they need larger
instances or because a passing run checks the same property where they do not
interfere. Each is where the model or a bound says so:

* Transport. `RetransmitTimer` drops searches that were not transmitted yet and gives
  back slots they never took (1584), though a check is there so that a packet is not
  dropped "before it's actually sent" (1520-1521): with `Destinations` including
  searches `NotDroppedUnsent` fails. A user's search,
  not gated, may be queued on a port that is gone, which `TransmitTimer` says
  "shouldn't occur"; with `UserSearches` and searches among
  `Destinations` `QueuesOnUsedPorts` fails.
* Controllers. With 24-bit addresses the low byte of the address is taken for the
  number of sectors (2020): with commands whose `extended` is `FALSE`
  `PacketsInTransfer` fails. `cancel_commands_on_interface` stops at the first
  controller on the port (705), where its comment says that "if one of them goes down, we
  cancel the whole command" (682-683): with two targets on a port the command of the
  second waits for packets that were purged, until its time is up. A second controller whose command is answered by the driver replaces
  the first in `m_pControllerToFakeResponse` (945): the command of the first, a flush
  say, ends in a timeout. `PurgedFirstCancelled` and `FakedAnswered` say what is left,
  and each fails on the instance of `controller_registry` without its clause about the
  other target. "let the timeout through" (1442 of `AoEController.cpp`): an answer that
  comes when the time of a read is up ends it with the status of the answer, free of
  errors, with a hole in its buffer, since the error is returned to a caller that ignores
  it (456); `WholeTransfer` leaves these reads out. A target that answers once a minute
  is removed after 60 s of silence, so that a single lost answer removes it (501); a
  user's search between two packets of a read leaves a gap in its tags, and
  what follows is put behind its place (1466 of `AoEController.cpp`); a target that
  was ours only after it appeared is never registered (404, 446). An answer to a
  read of before that is longer than a packet of the read in progress, because the
  MTU shrank and grew again between, may reach into the buffer from the place
  before it: with a read of two sectors before one of three, `DataInPlace` fails
  with MTUs of one and two sectors.
* Ports. A port that is unplugged and then removed is counted down twice: the
  property `EInterfaces.cpp:364` sets "to show the available interfaces" disappears
  while another port is in use (`PublishedAsUsed` only speaks of behaviours without
  cable events). A port enabled while another comes back may be used with packets
  larger than its MTU (`moved = "crossed"`). A port whose cable comes back between
  the two halves of `disable_interface` stays in use (`late`). Filters of removed
  ports are detached again when the driver unloads (547). The change of an MTU is an
  event the filter does not handle.
* Daemon. An invocation recalls, changes and writes the whole file: of two at a time
  one may undo the other. `store_settings` reports success when the write failed
  (`PreferenceLoadSave.cpp:108`), and an unreadable file means default settings,
  unreported (`main.cpp:152`).
* Claims. An answer to a search from before an order, arriving after it, removes the
  target that was just claimed; the answer to the order creates it anew without
  registering it, and a known target is never registered by what it answers, though
  our string is "used to mount drives that have the same config string as us"
  (`AoEService.cpp:549`). The same answer after an unclaim mounts the disk again.
  Nor are targets looked at again that answered before our string was set. An order superseded
  by another is still retransmitted and may win. `-C` sends one byte that was never
  set: if that byte is our string's first one, driver and disk stay as if the target had
  not been released (815, 836). While
  `-C` waits for an unmount, the number it was given may pass to another
  target, whose disk it then takes away. An empty string leaves the copy as it was,
  so that a target someone else has released stays ours. A computer that is renamed
  has another string and loses its targets.
* Round trips. Times from about 429 ms on may overflow an int
  (`Fits`). "Increase the next timeout" (`AoEService.cpp:1104`) decreases it while
  the estimate is above 5 ms, since `MAX_RETRANSMIT_TIMEOUT_US` caps copies only. When
  round trips get longer than the timeout, a lone packet is resent before its answer and
  so not measured (715): the estimate may never follow, and every packet is sent more
  than once for good. `Settled` therefore speaks of times that were measured.

The passing runs check the same properties where the divergence does not interfere:
`NoSlotLost` is what remains of `Accounting` with searches.

## Proofs

Those of the transport (1 to 7 and 14) hold for every finite set of ports and shelves, every
number of packets, buffer counts and user windows, with and without cable events and
user searches, under `DefaultWindowAssumption` and `ServiceAssumption`.

1. `EInterfacesProofs`: a port's record stays in `InterfaceState` with
   `frac < cwnd` under every operation. The second conjunct is what makes the
   division in `grow_cwnd` add at most one packet.
2. `TypeCorrect`, `FractionStaysBelowWindow`: from 1, handler by handler. That the
   outstanding count remains an integer needs the queues to be finite
   (`QueuesFinite`), since it moves by cardinalities.
3. `CommandsWaitOrFly` (`QueuedUnlessOnWire`) is not inductive: a timeout would queue
   a second copy if two items shared a tag, a purge would separate an item from its
   copy if they disagreed on the port. `Queues` adds what the code relies on:
   `UniqueTags`, `TagsUsed`, `SamePacket`, `CommandsOnUsedPorts`.
4. `TimersStayArmed`: by cases on the rules under which handlers re-arm timers.
5. `GatedCallersUseLivePorts`: with `UserSearches = FALSE`, from the lemma that only
   `DisableInterface` and `LinkOff` take a port out of use
   (`UsedUnlessDisconnected`).
6. `ExchangeImplemented` (`AoEServiceRefinement`): the mapping `StatusOf` sends each
   step to `Submit`, `Answer`, `Close` or a stutter. It needs `TagsUsed` and
   `UnansweredYet`: a tag still in the sent queue was never answered.
7. `InvariantHolds`: the inductive invariant `IInv` as a whole.
8. `RoundTripProofs`: `StaysInRange`, `LastCovered`, for ints of every
   width and every set of times, under `RoundTripAssumption`. `InRange` is not
   inductive: a copy's timeout is the double of the packet's, which must not be cut
   to 0, so `Bounded` adds that timeouts stay below `2H`. Lemma `Update` is the
   arithmetic of one step without widths, `UpdateFits` shows that while
   `5 * longest < H` no intermediate result is cut. `longest` never gets shorter, so
   times that fit now have always fitted.

9. `AoEControllerProofs`, for every finite set of targets, ports and commands, under
   `ControllerAssumption`. `TypeCorrect`, `NumbersStayUnique`, `DownAreRemoved` come
   from the invariant `Registry`: the controllers that are known are those with a
   number, once each, everything under way is for known targets, and (`InTurn`) the
   `i`-th target of the registry was silent for at most so long that those before it
   and it can still be removed in time, one per state update. Without the positions
   `RemovedInTurn` is not inductive.
10. `RepliesAreAwaited`, `PacketsStayInTransfer`, from `Registry` and `Transfers`. The
   count of replies agrees with the awaited packets only if those not yet issued are
   counted in (`RepliesCounted`), if these are all of the one command that was started
   (`Issuing`), address the rest of it (`RequestsInTransfer`), and if a new tag is
   nobody's (`TagsNew`). Lemma `RequestsOfTransfer` is the arithmetic of
   `asyncCommand`: as many packets as replies, one after the other, that cover the
   transfer.
11. `TransfersAreWhole`, `SectorsInPlace`, from the invariant `Reads` on top. It ties tags
   to addresses: a packet for the target has a tag from before the command, or one
   whose distance from the first is the place of its sectors, or one whose place is
   beyond the buffer (`ReadOrder`). And it ties what is missing to what is awaited: a
   sector not yet read belongs to an awaited packet or to one not yet issued, and
   the count of bytes received leaves room for each awaited packet (`ReadAwaits`,
   `Room`), so that the early end of `completeDataRead`, when no byte is missing,
   is the last answer. Packets may be lost and command timers run out meanwhile: a lost
   packet stays awaited, and the other early end, of a read whose time is up, is left
   out by `clean`.
12. `AoedProofs`, for every finite set of ports and clients, under `AdminAssumption`
   and `AoedAssumption`. `PacketsAlwaysFit` needs that, unless two updates of the MTU
   crossed, the MTU in force and the one found for a port that is coming back fit each
   port in use (`Mtus`). `SettingsAreKept` needs that, as long as nothing comes in
   between, the invocation that runs holds what was asked for, and file and driver do
   once it has ended (`Undisturbed`); that an invocation that runs alone and has stored
   has its settings in the file (`Alone`); and that only the holder of the session has
   ports left to do (`Sessions`). `TypeCorrect`, `PortsAreAsApplied`,
   `FiltersAreAsApplied` and `PublishedAreUsed` need the difference between the ports
   asked for and those enabled to be what is left to do (`Lists`, `Differences`,
   `Counts`).
13. `ClaimsProofs`, under `ClaimsAssumption`. `BusyDisksStay`; `RegisteredRight`, from
   `DisksAgree`: a target that stores our string, or will when an order reaches it, has
   its disk, and one that has its disk stores our string or the first byte of it that
   `-C` put in its place. It needs `TagsUnique` (an answer belongs to one order) and
   `UnknownForgotten`.
14. `SlotsAreAccounted`, `NoSlotIsLost`, `FirstSendsFit`, `UnsentAreKept`,
   `UnsentCommandsAreKept` (`AoEServiceProofs`). The count of a port is kept by five
   handlers, and each is an arithmetic step only if it knows which packets it moves:
   `TransmitTimer` counts one up if the copy it sends is that of a packet not yet sent
   (`Copies`), an answer counts one down if its packet was sent before (`SentBefore`),
   a port that is enabled starts from 0 and has nothing in flight because what is used
   is attached (`UsedAttached`). These three make up `Packets`, which holds without
   hypotheses. On top of it come the two halves of `Accounting`, which need different
   hypotheses: the count is not too high (`NoneLost`, with searches, without cable events)
   and not too low (`Covered`, for every port, with cable events, without searches).
   `FirstSendWithinWindow` needs the second half only: a port whose count covers what
   is in flight does not transmit more than fits. The lemmas `TransmitCounts`,
   `RetransmitCounts`, `AnswerCounts`, `IdleCounts`, `DisconnectedCounts`,
   `EnabledCounts` state what each handler does to the count and to the set it counts.
15. `FirstIsCancelled` and `FakedAreAnswered` (`AoEControllerProofs`), for any number of
   targets. The first comes from `OnPorts`: a packet of the transport is on a used port,
   and if it is awaited then on one its target is connected to, so that
   `get_nth_interface` and `cancel_commands_on_interface` look for the right port. The
   second comes from `Faking`: a command without packets is the only request to be issued
   or was issued, when the timer was armed and its name put in
   `m_pControllerToFakeResponse`; to keep it there, what is to be issued must be of the
   kind of the command in progress. Both use that every step but three is `Quiet`: it
   issues no packet of a command, controllers gain ports, end their command or are
   removed, and packets stay on their ports.

What the theorems of 10 to 15 suppose, and why. `PlainTransfers`: commands with 48-bit
addresses, MTUs below 256 sectors, tags that do not start again; with 24-bit addresses
or a wrap in the middle of a command the properties fail (see above). `OwnTags`: no
searches by user programs; `OneMtu`: ports of one MTU; both exclude a divergence
above. `ListedOnce`: the lists of ports users type name each port once; `aoed -e 0,0`
is not rejected (263-275) and would attach two filters to a port, one of which is never
detached. `OthersOwnStrings`: other hosts write strings of length above 0 that are
not ours; a string of length 0 leaves the driver's copy as it was. `NoSearches`: the
transport is given commands only; a search dropped before it was sent gives back a
slot it never took (1584). `CableEvents = FALSE`: a port whose cable comes back keeps the
count it had when its packets were purged (`interface_reconnected`), so that slots are
lost (finding of `transport_replugged`).

The assumptions on constants only say that sets are finite and values have their
types: ports, targets (none of which is the "nobody" that stands for a null pointer),
the options `aoed` may be given, and commands that transfer at least one sector.

Every invariant and every action property of the passing runs is stated by a theorem but
`Settled`, whose bound on the number of times depends on the width of ints. Only
model-checked are, besides it, the liveness properties `EverythingSettles`,
`NothingStuck`, `BootApplies`, `InvocationsEnd` and `LostIsReleased`, which rest on
fairness and `ENABLED` and so are out of the prover's reach, and the violations.

## Not modelled

Memory lifetime (reads of queue items after they are freed), allocation failures,
`stop()` and the transport's tag wrap-around; packet formats and logging; register
access and most properties the controllers publish; the options that only read,
force a packet or switch logging on; a process that is killed in the middle of a
call to the driver; ports that are not there, or are listed twice; how the computer's own
string is put together; strings that are replaced while they are compared. The
device nub, AoECommander, the preference pane's windows, EthernetDetect and the
build scripts hold no protocol state.

The transport in `AoEService`, the administration in `Aoed` and the strings in
`Claims` are not composed with the controllers: they share the ports and the list of
targets, of which each module keeps what its properties tell apart.

## Plan

1. *Done*: `EInterfaces`, `AoEService`, `ReliableExchange`, their runs and proofs.
2. *Done*: `AoEController`, which took in what had been planned as separate modules
   for the division of transfers, the controller and the registry; its runs.
3. *Done*: `AoEUserInterface` and `Aoed` (preferences applied as differences, filters,
   the count of ports in use and the published property, MTU; the daemon and the
   stored settings), `Claims` (claim, mount, unclaim), `RoundTrip`, their runs and the
   proofs about `RoundTrip`.
4. *Done*: proofs about `AoEController`, `Aoed` and `Claims`.
5. *Done*: proofs about the transport's counts (`Accounting`, `NoSlotLost`,
   `FirstSendWithinWindow`, `NotDroppedUnsent`).
6. *Done*: two targets under commands on one port (`PurgedFirstCancelled`,
   `FakedAnswered`), commands whose time is up, and what is proved of them for any number
   of targets.
7. Not begun: a composition of the controllers with `AoEService` in place of the
   abstract transport, and of `Claims` with the timers that remove targets.

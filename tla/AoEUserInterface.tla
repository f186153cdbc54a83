--------------------------- MODULE AoEUserInterface ---------------------------
(***************************************************************************)
(* How the kernel extension is administered: the sessions of user programs *)
(* (AoEUserInterface.c), the preferences they apply port by port           *)
(* (AoEService.cpp, EInterfaces.cpp), the filters on the ports and the     *)
(* link events these bring (AoEtherFilter.c).                              *)
(*                                                                         *)
(* Handlers that pass the command gate are atomic.  A session is not: link *)
(* events fall between the ports it enables and disables.  Who opens       *)
(* sessions is left to the module that extends this one.                   *)
(***************************************************************************)
EXTENDS Integers, Sequences, FiniteSetsExt

CONSTANTS
  Ports,            \* Ethernet ports, all of them present
  Clients,          \* user programs that talk to the kernel extension
  None,             \* nobody
  Mtu,              \* Mtu[p]: what ifnet_mtu answers for port p
  Sizes,            \* values of the settings that are not ports
  CableEvents       \* how many times a cable is pulled or plugged

ASSUME AdminAssumption ==
  /\ None \notin Clients
  /\ IsFiniteSet(Ports)
  /\ Mtu \in [Ports -> Nat \ {0}]
  /\ CableEvents \in Nat

VARIABLES
  loaded,          \* the kernel extension runs
  mutex,           \* who holds g_mutex, from connect to disconnect
  prefs,           \* g_PreferenceData
  work,            \* what the AOEINTERFACE_PREFERENCES call of a client has to do
  size,            \* the transfer size and window in force
  enabled,         \* m_aInterfaces[n].m_fEnabled
  inUse,           \* m_nInterfacesInUse
  minMtu,          \* m_Min_MTU
  controllersMtu,  \* the MTU the controllers divide transfers by
  published,       \* ENABLED_INTERFACES_PROPERTY; empty when removed
  filters,         \* external: how many of our filters are attached to a port
  link,            \* external: the cable is in
  rejoin,          \* interface_reconnected, which runs outside the gate
  moved,           \* history: how the driver has handled link events so far:
                   \* "never", "apart" or "crossed" with an update of the MTU
  late             \* history: ports that came back after they were given up

portVars == <<enabled, inUse, minMtu, controllersMtu, published, filters>>
cableVars == <<link, rejoin, moved, late>>
kextVars == <<loaded, mutex, prefs, work, size, portVars, cableVars>>

Settings == [ports : Seq(Ports), size : Sizes]

PortsOf(s) == {s.ports[i] : i \in DOMAIN s.ports}

\* The part of a call that is left to do.  "detach" stands between the two
\* halves of disable_interface, "rest" before what follows the ports.
Idle == [at |-> "idle", add |-> <<>>, remove |-> <<>>]

NoPorts == [ports |-> <<>>, size |-> CHOOSE n \in Sizes : TRUE]

\* What interface_reconnected keeps in local variables: the count it has read,
\* the MTU it has computed.
Settled == [at |-> "no", count |-> 0, mtu |-> 0]

\* The elements of s that are not in T, in their order.
without(s, T) ==
  LET rest[n \in 0..Len(s)] ==
        IF n = 0 THEN <<>>
        ELSE IF s[n] \in T THEN rest[n - 1] ELSE Append(rest[n - 1], s[n])
  IN  rest[Len(s)]

Used == {p \in Ports : enabled[p]}

Rejoining == {p \in Ports : rejoin[p].at # "no"}

\* The smallest of all the ports in use.  (What the code puts in its place when
\* there is none is overwritten with 0.)
recalculate_mtu(used) == IF used = {} THEN 0 ELSE Min({Mtu[p] : p \in used})

\* The property lists the ports in use, unless the count says there is none.
update_interface_property(count, used) == IF count = 0 THEN {} ELSE used

KextInit ==
  /\ loaded = FALSE
  /\ mutex = None
  /\ prefs = NoPorts
  /\ work = [c \in Clients |-> Idle]
  /\ size = NoPorts.size
  /\ enabled = [p \in Ports |-> FALSE]
  /\ inUse = 0
  /\ minMtu = 0
  /\ controllersMtu = 0
  /\ published = {}
  /\ filters = [p \in Ports |-> 0]
  /\ rejoin = [p \in Ports |-> Settled]
  /\ moved = "never"
  /\ late = {}
  /\ link = [p \in Ports |-> TRUE]

-----------------------------------------------------------------------------
(* Sessions.                                                               *)

\* A mutant: nobody waits for the session of another program to end.
connect_unlocked(c) ==
  /\ loaded
  /\ mutex' = c
  /\ UNCHANGED <<loaded, prefs, work, size, portVars, cableVars>>

\* aoeinterface_connect locks the mutex for as long as the session lasts.
aoeinterface_connect(c) ==
  /\ loaded
  /\ mutex = None
  /\ mutex' = c
  /\ UNCHANGED <<loaded, prefs, work, size, portVars, cableVars>>

\* A mutant: the mutex stays locked.
disconnect_locked(c) == UNCHANGED kextVars

aoeinterface_disconnect(c) ==
  /\ mutex' = IF mutex = c THEN None ELSE mutex
  /\ UNCHANGED <<loaded, prefs, work, size, portVars, cableVars>>

\* The ports to add are looked up among the previous ones, those to remove
\* among the new ones.
aoeinterface_set(c, s) ==
  /\ prefs' = s
  /\ work' = [work EXCEPT ![c] =
       [at     |-> "ports",
        add    |-> without(s.ports, PortsOf(prefs)),
        remove |-> without(prefs.ports, PortsOf(s))]]
  /\ UNCHANGED <<loaded, mutex, size, portVars, cableVars>>

-----------------------------------------------------------------------------
(* The ports a session adds and removes, one gated call after the other.   *)

\* A mutant: the port is marked before it is looked whether it has to be counted.
enable_uncounted(p) ==
  /\ filters' = [filters EXCEPT ![p] = @ + 1]
  /\ enabled' = [enabled EXCEPT ![p] = TRUE]
  /\ minMtu' = recalculate_mtu(Used \union {p})
  /\ controllersMtu' = minMtu'
  /\ published' = update_interface_property(inUse, Used \union {p})
  /\ UNCHANGED inUse

\* EInterfaces::enable_interface and, behind it in the same gated call,
\* adjust_mtu_sizes.
enable_interface(p) ==
  /\ filters' = [filters EXCEPT ![p] = @ + 1]
  /\ inUse' = IF enabled[p] THEN inUse ELSE inUse + 1
  /\ enabled' = [enabled EXCEPT ![p] = TRUE]
  /\ minMtu' = recalculate_mtu(Used \union {p})
  /\ controllersMtu' = minMtu'
  /\ published' = update_interface_property(inUse', Used \union {p})

\* EInterfaces::interface_disconnected, the part of cg_disable_interface that
\* concerns the ports.  The MTU stays what it is.
interface_disconnected(p) ==
  /\ enabled' = [enabled EXCEPT ![p] = FALSE]
  /\ inUse' = inUse - 1
  /\ published' = update_interface_property(inUse', Used \ {p})
  /\ UNCHANGED <<minMtu, controllersMtu>>

EnablePort(c) ==
  /\ work[c].at = "ports" /\ work[c].add # <<>>
  /\ enable_interface(Head(work[c].add))
  /\ work' = [work EXCEPT ![c].add = Tail(@)]
  /\ moved' = IF Rejoining = {} THEN moved ELSE "crossed"
  /\ UNCHANGED <<loaded, mutex, prefs, size, link, rejoin, late>>

DisablePort(c) ==
  /\ work[c].at = "ports" /\ work[c].add = <<>> /\ work[c].remove # <<>>
  /\ interface_disconnected(Head(work[c].remove))
  /\ work' = [work EXCEPT ![c].at = "detach"]
  /\ UNCHANGED <<loaded, mutex, prefs, size, filters, cableVars>>

\* A mutant: the filter of a port that is removed stays.
detach_forgotten(c) ==
  /\ work[c].at = "detach"
  /\ work' = [work EXCEPT ![c].at = "ports", ![c].remove = Tail(@)]
  /\ UNCHANGED <<loaded, mutex, prefs, size, portVars, cableVars>>

\* disable_filtering, outside the gate.
DetachFilter(c) ==
  /\ work[c].at = "detach"
  /\ filters' = [filters EXCEPT ![Head(work[c].remove)] = @ - 1]
  /\ work' = [work EXCEPT ![c].at = "ports", ![c].remove = Tail(@)]
  /\ UNCHANGED <<loaded, mutex, prefs, size, enabled, inUse, minMtu,
                 controllersMtu, published, cableVars>>

\* What aoeinterface_set does after the ports: set_max_transfer_size,
\* set_user_window (and our config string and a search, which are not here).
SetTheRest(c) ==
  /\ work[c].at = "ports" /\ work[c].add = <<>> /\ work[c].remove = <<>>
  /\ size' = prefs.size
  /\ work' = [work EXCEPT ![c] = Idle]
  /\ UNCHANGED <<loaded, mutex, prefs, portVars, cableVars>>

\* One step of the call a client is in.
InCall(c) == EnablePort(c) \/ DisablePort(c) \/ DetachFilter(c) \/ SetTheRest(c)

-----------------------------------------------------------------------------
(* Link events, which reach the driver through the filter of the port.     *)

Moved(crossing) == moved' = IF crossing \/ moved = "crossed" THEN "crossed" ELSE "apart"

LinkOff(p) ==
  /\ link[p] /\ p \notin Rejoining
  /\ link' = [link EXCEPT ![p] = FALSE]
  /\ IF filters[p] > 0
       THEN interface_disconnected(p) /\ Moved(FALSE)
       ELSE UNCHANGED <<enabled, inUse, minMtu, controllersMtu, published, moved>>
  /\ UNCHANGED <<loaded, mutex, prefs, work, size, filters, rejoin, late>>

\* EInterfaces::interface_reconnected begins: the port is in use at once, the
\* count is read.
LinkOn(p) ==
  /\ ~ link[p]
  /\ link' = [link EXCEPT ![p] = TRUE]
  /\ IF filters[p] > 0
       THEN /\ enabled' = [enabled EXCEPT ![p] = TRUE]
            /\ rejoin' = [rejoin EXCEPT ![p] = [Settled EXCEPT !.at = "count", !.count = inUse]]
            /\ Moved(Rejoining # {})
            /\ late' = IF p \in PortsOf(prefs) THEN late ELSE late \union {p}
       ELSE UNCHANGED <<enabled, rejoin, moved, late>>
  /\ UNCHANGED <<loaded, mutex, prefs, work, size, inUse, minMtu, controllersMtu,
                 published, filters>>

\* The count is written, whatever became of it meanwhile, and the smallest MTU
\* is looked for.
LinkCounted(p) ==
  /\ rejoin[p].at = "count"
  /\ inUse' = rejoin[p].count + 1
  /\ rejoin' = [rejoin EXCEPT ![p] = [Settled EXCEPT !.at = "store", !.mtu = recalculate_mtu(Used)]]
  /\ UNCHANGED <<loaded, mutex, prefs, work, size, enabled, minMtu, controllersMtu,
                 published, filters, link, moved, late>>

\* The MTU that was found is stored, the property updated.
LinkStored(p) ==
  /\ rejoin[p].at = "store"
  /\ minMtu' = rejoin[p].mtu
  /\ published' = update_interface_property(inUse, Used)
  /\ rejoin' = [rejoin EXCEPT ![p].at = "adjust"]
  /\ UNCHANGED <<loaded, mutex, prefs, work, size, enabled, inUse, controllersMtu,
                 filters, link, moved, late>>

\* A mutant: the controllers are not told of the MTU.
adjust_forgotten(p) ==
  /\ rejoin[p].at = "adjust"
  /\ rejoin' = [rejoin EXCEPT ![p] = Settled]
  /\ UNCHANGED <<loaded, mutex, prefs, work, size, portVars, link, moved, late>>

\* AOE_KEXT_NAME::interface_reconnected: adjust_mtu_sizes(get_mtu()).  The MTU it
\* gets may be older than what it is by the time the controllers have it.
LinkAdjusted(p) ==
  /\ rejoin[p].at = "adjust"
  /\ controllersMtu' \in {rejoin[p].mtu, minMtu}
  /\ rejoin' = [rejoin EXCEPT ![p] = Settled]
  /\ UNCHANGED <<loaded, mutex, prefs, work, size, enabled, inUse, minMtu,
                 published, filters, link, moved, late>>

LinkHandled(p) == LinkCounted(p) \/ LinkStored(p) \/ LinkAdjusted(p)

-----------------------------------------------------------------------------

Load ==
  /\ ~ loaded
  /\ loaded' = TRUE
  /\ UNCHANGED <<mutex, prefs, work, size, portVars, cableVars>>

\* The machine restarts.
Unload ==
  /\ loaded
  /\ UNCHANGED link
  /\ loaded' = FALSE
  /\ mutex' = None
  /\ prefs' = NoPorts
  /\ work' = [c \in Clients |-> Idle]
  /\ size' = NoPorts.size
  /\ enabled' = [p \in Ports |-> FALSE]
  /\ inUse' = 0
  /\ minMtu' = 0
  /\ controllersMtu' = 0
  /\ published' = {}
  /\ filters' = [p \in Ports |-> 0]
  /\ rejoin' = [p \in Ports |-> Settled]
  /\ moved' = "never"
  /\ late' = {}

Quiet == \A c \in Clients : work[c] = Idle

-----------------------------------------------------------------------------

KextTypeOK ==
  /\ loaded \in BOOLEAN /\ moved \in {"never", "apart", "crossed"}
  /\ mutex \in Clients \union {None}
  /\ prefs \in Settings
  /\ \A c \in Clients : /\ work[c].at \in {"idle", "ports", "detach"}
                        /\ work[c].add \in Seq(Ports)
                        /\ work[c].remove \in Seq(Ports)
  /\ size \in Sizes
  /\ enabled \in [Ports -> BOOLEAN] /\ link \in [Ports -> BOOLEAN]
  /\ inUse \in Int
  /\ minMtu \in Nat /\ controllersMtu \in Nat
  /\ published \subseteq Ports /\ late \subseteq Ports
  /\ filters \in [Ports -> Nat]
  /\ rejoin \in [Ports -> [at : {"no", "count", "store", "adjust"}, count : Int, mtu : Nat]]

\* Between two calls, the ports that were asked for are in use wherever a cable
\* is in, and no others are: the difference to the previous preferences was
\* applied in full, whatever cables did meanwhile (AoEUserInterface.c:289-313).
\* The exception are ports whose cable came back after the driver had given them
\* up and before their filter was gone (AoEService.cpp:523-526).
PortsAsApplied ==
  loaded /\ Quiet =>
    \A p \in Ports :
      /\ p \in PortsOf(prefs) /\ link[p] => enabled[p]
      /\ enabled[p] /\ p \notin late => p \in PortsOf(prefs)

\* Between two calls there is one filter on each port that was asked for and
\* none on the others, so that no frame is missed and no reference to a filter
\* is overwritten by another (AoEtherFilter.c:591, 620).
FilteredAsApplied ==
  loaded /\ Quiet =>
    \A p \in Ports : filters[p] = IF p \in PortsOf(prefs) THEN 1 ELSE 0

\* As long as no cable moves, the property user programs read lists the ports in
\* use: the count that decides whether there is a property stays in step with
\* the ports (EInterfaces.cpp:350, 422).
PublishedAsUsed == moved = "never" => published = Used

\* The packets of the controllers fit every port in use: a port with a smaller
\* MTU is not used before the controllers know, the ones just coming back
\* excepted, unless one port comes back while another is enabled or comes back,
\* which no lock prevents (EInterfaces.cpp:361, 477, AoEService.cpp:537).
PacketsFit ==
  moved # "crossed" => \A p \in Used \ Rejoining : controllersMtu <= Mtu[p]

=============================================================================

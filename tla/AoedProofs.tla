------------------------------- MODULE AoedProofs -------------------------------
(***************************************************************************)
(* What Aoed promises, for every number of ports, of programs that run at  *)
(* once, of cable events and of failures.                                  *)
(***************************************************************************)
EXTENDS Aoed, LeastNumbers, SequenceTheorems, FiniteSetTheorems

-----------------------------------------------------------------------------
(* The ports to add and to remove.                                         *)

Elements(s) == {s[i] : i \in DOMAIN s}

Distinct(s) == \A i, j \in DOMAIN s : s[i] = s[j] => i = j

\* The recursion of "without", and the function it defines.
Rest(s, T, f, n) ==
  IF n = 0 THEN <<>>
  ELSE IF s[n] \in T THEN f[n - 1] ELSE Append(f[n - 1], s[n])

Rests(s, T) == CHOOSE f : f = [n \in 0..Len(s) |-> Rest(s, T, f, n)]

\* The loops of aoeinterface_set run to the end of the lists (AoEUserInterface.c:290-313):
\* there is a function that does as the recursion says.
LEMMA RestsDefined ==
  ASSUME NEW S, NEW s \in Seq(S), NEW T
  PROVE  Rests(s, T) = [n \in 0..Len(s) |-> Rest(s, T, Rests(s, T), n)]
<1> DEFINE Partial(k) == \E f : f = [n \in 0..k |-> Rest(s, T, f, n)]
           Bad == {k \in 0..Len(s) : ~ Partial(k)}
<1>1. ASSUME Bad # {} PROVE FALSE
  <2>1. PICK k \in Bad : \A m \in Bad : k <= m
    <3>1. Bad \subseteq Nat
      BY LenProperties
    <3> HIDE DEF Bad
    <3> QED BY <1>1, <3>1, Least
  <2>2. k \in 0..Len(s) /\ ~ Partial(k)
    BY <2>1
  <2>3. k # 0
    <3>1. [n \in 0..0 |-> <<>>] = [n \in 0..0 |-> Rest(s, T, [i \in 0..0 |-> <<>>], n)]
      BY DEF Rest
    <3> QED BY <2>2, <3>1
  <2>4. PICK f : f = [n \in 0..(k - 1) |-> Rest(s, T, f, n)]
    <3>1. k - 1 \in 0..Len(s) /\ ~ (k <= k - 1)
      BY <2>2, <2>3, LenProperties
    <3>2. Partial(k - 1)
      BY <2>1, <3>1
    <3> QED BY <3>2
  <2> DEFINE g == [n \in 0..k |-> IF n = k THEN Rest(s, T, f, k) ELSE f[n]]
  <2>5. ASSUME NEW n \in 0..k
        PROVE  g[n] = Rest(s, T, g, n)
    <3>1. g[n] = Rest(s, T, f, n)
      <4>1. CASE n = k
        BY <4>1
      <4>2. CASE n # k
        <5>1. n \in 0..(k - 1) /\ g[n] = f[n]
          BY <4>2, <2>2, LenProperties
        <5> QED BY <5>1, <2>4, Zenon
      <4> QED BY <4>1, <4>2
    <3>2. n # 0 => n - 1 \in 0..k /\ n - 1 # k
      BY <2>2, LenProperties
    <3>3. n # 0 => g[n - 1] = f[n - 1]
      BY <3>2
    <3> HIDE DEF g
    <3> QED BY <3>1, <3>3 DEF Rest
  <2>6. g = [n \in 0..k |-> Rest(s, T, g, n)]
    BY <2>5, Zenon
  <2> HIDE DEF g
  <2> QED BY <2>2, <2>6
<1>2. Partial(Len(s))
  BY <1>1, LenProperties
<1> QED BY <1>2, Zenon DEF Rests

\* Of a list of ports, the ones not in T remain, each as often as before, so that
\* a port is enabled or disabled just when it is in one list of preferences and
\* not in the other.
LEMMA WithoutProperties ==
  ASSUME NEW S, NEW s \in Seq(S), NEW T
  PROVE  /\ without(s, T) \in Seq(S)
         /\ Elements(without(s, T)) = Elements(s) \ T
         /\ Distinct(s) => Distinct(without(s, T))
<1> DEFINE F == Rests(s, T)
           First(n) == {s[i] : i \in 1..n}
           Good(n) == /\ F[n] \in Seq(S)
                      /\ Elements(F[n]) = First(n) \ T
                      /\ Distinct(s) => Distinct(F[n])
           Bad == {n \in 0..Len(s) : ~ Good(n)}
<1>1. \A n \in 0..Len(s) : F[n] = Rest(s, T, F, n)
  <2>1. F = [n \in 0..Len(s) |-> Rest(s, T, F, n)]
    BY RestsDefined
  <2> HIDE DEF F
  <2> QED BY <2>1, Zenon
<1>2. Len(s) \in Nat /\ DOMAIN s = 1..Len(s)
  BY LenProperties
<1>3. ASSUME Bad # {} PROVE FALSE
  <2>1. PICK k \in Bad : \A m \in Bad : k <= m
    <3>1. Bad \subseteq Nat
      BY LenProperties
    <3> HIDE DEF Bad
    <3> QED BY <1>3, <3>1, Least
  <2>2. k \in 0..Len(s) /\ ~ Good(k)
    BY <2>1
  <2>3. k # 0
    <3>1. CASE k = 0
      <4>1. F[k] = <<>>
        BY <3>1, <2>2, <1>1 DEF Rest
      <4>2. Good(k)
        BY <4>1, <3>1 DEF Elements, Distinct
      <4> QED BY <4>2, <2>2
    <3> QED BY <3>1
  <2>4. k - 1 \in 0..Len(s) /\ k \in 1..Len(s) /\ k - 1 \in Nat /\ k \in Nat
    BY <2>2, <2>3, <1>2
  <2>5. Good(k - 1)
    <3>1. ~ (k <= k - 1)
      BY <2>4
    <3> QED BY <2>1, <2>4, <3>1
  <2>6. F[k] = IF s[k] \in T THEN F[k - 1] ELSE Append(F[k - 1], s[k])
    BY <1>1, <2>2, <2>3, Zenon DEF Rest
  <2> DEFINE r == F[k - 1]
  <2>7. /\ r \in Seq(S) /\ Elements(r) = First(k - 1) \ T
        /\ Distinct(s) => Distinct(r)
        /\ s[k] \in S
    BY <2>5, <2>4, ElementOfSeq
  <2>8. First(k) = First(k - 1) \union {s[k]}
    BY <2>4
  <2> HIDE DEF F, First
  <2>9. CASE s[k] \in T
    <3>1. F[k] = r
      BY <2>6, <2>9
    <3>2. Good(k)
      BY <3>1, <2>7, <2>8, <2>9
    <3> QED BY <3>2, <2>2
  <2>10. CASE s[k] \notin T
    <3>1. F[k] = Append(r, s[k])
      BY <2>6, <2>10
    <3> HIDE DEF r
    <3>2. /\ F[k] \in Seq(S) /\ Len(F[k]) = Len(r) + 1 /\ Len(r) \in Nat
          /\ DOMAIN r = 1..Len(r) /\ DOMAIN F[k] = 1..(Len(r) + 1)
          /\ \A i \in 1..Len(r) : F[k][i] = r[i]
          /\ F[k][Len(r) + 1] = s[k]
      BY <3>1, <2>7, AppendProperties, LenProperties
    <3>3. Elements(F[k]) = Elements(r) \union {s[k]}
      <4>1. 1..(Len(r) + 1) = 1..Len(r) \union {Len(r) + 1}
        BY <3>2
      <4> QED BY <3>2, <4>1, Zenon DEF Elements
    <3>4. ASSUME Distinct(s) PROVE Distinct(F[k])
      <4>1. s[k] \notin Elements(r)
        <5>1. s[k] \notin First(k - 1)
          BY <3>4, <1>2, <2>4 DEF First, Distinct
        <5> QED BY <5>1, <2>7
      <4>2. \A i \in 1..Len(r) : r[i] # s[k]
        BY <4>1, <3>2 DEF Elements
      <4>3. \A i, j \in 1..Len(r) : r[i] = r[j] => i = j
        BY <2>7, <3>4, <3>2 DEF Distinct
      <4>4. \A i, j \in 1..(Len(r) + 1) : F[k][i] = F[k][j] => i = j
        BY <3>2, <4>2, <4>3
      <4> QED BY <4>4, <3>2 DEF Distinct
    <3>5. Good(k)
      BY <3>2, <3>3, <3>4, <2>7, <2>8, <2>10
    <3> QED BY <3>5, <2>2
  <2> QED BY <2>9, <2>10
<1>4. Good(Len(s))
  <2>1. Len(s) \in 0..Len(s)
    BY <1>2
  <2> HIDE DEF Good
  <2> QED BY <2>1, <1>3
<1>5. without(s, T) = F[Len(s)]
  BY Zenon DEF without, Rests, Rest
<1>6. First(Len(s)) = Elements(s)
  BY <1>2 DEF Elements
<1> QED BY <1>4, <1>5, <1>6

-----------------------------------------------------------------------------
(* The inductive invariants.                                               *)

\* A call that stands between the halves of disable_interface has a port to remove.
Calls ==
  {w \in [at : {"idle", "ports", "detach"}, add : Seq(Ports), remove : Seq(Ports)] :
     /\ w.at = "idle" => w = Idle
     /\ w.at = "detach" => w.add = <<>> /\ w.remove # <<>>}

Links == [at : {"no", "count", "store", "adjust"}, count : Int, mtu : Nat]

Pcs == {"none", "session", "short", "unmount", "alert", "store", "connect", "set", "setting"}

\* Only invocations that want a session early on open one.
Processes ==
  {q \in [pc : Pcs, opt : Options \union {BootOptions}, settings : Settings,
          stored : BOOLEAN, alone : BOOLEAN] :
     q.pc = "session" => q.opt.session # "none"}

Files == [ok : BOOLEAN, settings : Settings]

\* Everything KextTypeOK says but that filters are never fewer than none, and that
\* work is a function.
KextShape ==
  /\ loaded \in BOOLEAN /\ moved \in {"never", "apart", "crossed"}
  /\ mutex \in Clients \union {None}
  /\ prefs \in Settings /\ size \in Sizes
  /\ work \in [Clients -> Calls]
  /\ enabled \in [Ports -> BOOLEAN] /\ link \in [Ports -> BOOLEAN]
  /\ inUse \in Int /\ minMtu \in Nat /\ controllersMtu \in Nat
  /\ published \subseteq Ports /\ late \subseteq Ports
  /\ filters \in [Ports -> Int]
  /\ rejoin \in [Ports -> Links]

\* The rest of TypeOK, and that proc is a function.
AoedShape ==
  /\ file \in Files
  /\ boot \in BOOLEAN /\ disturbed \in BOOLEAN
  /\ starts \in 0..MaxStarts /\ failures \in 0..MaxFailures /\ cables \in 0..CableEvents
  /\ asked \in Settings
  /\ proc \in [Clients -> Processes]

Shape == KextShape /\ AoedShape

\* An invocation that has a session holds the mutex, and only one that is in the
\* call has ports left to enable or disable.
Sessions ==
  /\ mutex # None => loaded
  /\ \A c \in Clients :
       /\ proc[c].pc \in {"short", "unmount", "alert", "set", "setting"} => mutex = c
       /\ proc[c].pc \in {"set", "setting"} => proc[c].opt.send
       /\ work[c] # Idle => proc[c].pc = "setting"
       /\ proc[c].pc = "setting" =>
            /\ prefs = proc[c].settings
            /\ work[c] = Idle => size = prefs.size

\* "alone" says of an invocation that no other one runs; what such a one has
\* stored is in the file.
Alone ==
  /\ boot => Running = {}
  /\ \A c \in Running : proc[c].alone =>
       /\ Running = {c}
       /\ proc[c].stored => file = [ok |-> TRUE, settings |-> proc[c].settings]

\* As long as nothing comes in between, what users asked for is what the file
\* holds before and after every invocation, and what the invocation holds meanwhile.
Undisturbed ==
  ~ disturbed =>
    /\ Running = {} =>
         /\ recall_settings(file) = asked
         /\ ~ boot => loaded /\ file.ok /\ prefs = asked /\ size = asked.size
    /\ \A c \in Running :
         /\ proc[c].alone /\ proc[c].settings = asked
         /\ proc[c].pc \in {"connect", "set", "setting"} => proc[c].stored
         /\ ~ proc[c].opt.send => loaded /\ prefs = asked /\ size = asked.size

\* As long as no two updates of the MTU cross, the MTU that was found for a port
\* coming back, and the one that is in force, fit the ports in use.
Mtus ==
  moved # "crossed" =>
    /\ \A p, q \in Rejoining : p = q
    /\ \A p \in Used \ Rejoining : controllersMtu <= Mtu[p]
    /\ \A q \in Ports : rejoin[q].at \in {"store", "adjust"} =>
         \A p \in Used : rejoin[q].mtu <= Mtu[p]
    /\ \A q \in Ports : rejoin[q].at = "adjust" => minMtu = rejoin[q].mtu

\* The ports that some call has yet to enable, to disable.
Pending == UNION {Elements(work[c].add) : c \in Clients}
Leaving == UNION {Elements(work[c].remove) : c \in Clients}

\* The lists of ports name each port once.
Lists ==
  /\ Distinct(prefs.ports) /\ Distinct(file.settings.ports)
  /\ \A c \in Clients :
       /\ Distinct(proc[c].settings.ports)
       /\ Distinct(work[c].add) /\ Distinct(work[c].remove)
       /\ Elements(work[c].add) \subseteq PortsOf(prefs)
       /\ Elements(work[c].remove) \intersect PortsOf(prefs) = {}

\* What a call has left to do is the difference between the preferences and the
\* filters, and between the preferences and the ports in use.
Differences ==
  /\ \A p \in Ports :
       /\ filters[p] = IF p \in (PortsOf(prefs) \ Pending) \union Leaving THEN 1 ELSE 0
       /\ p \in PortsOf(prefs) \ Pending /\ link[p] => enabled[p]
       /\ enabled[p] /\ p \notin late => p \in PortsOf(prefs) \union Leaving
  /\ \A c \in Clients : work[c].at = "detach" =>
       ~ enabled[Head(work[c].remove)] \/ Head(work[c].remove) \in late

\* As long as no cable moves, the count counts the ports in use, and a port that
\* is to be disabled is in use.
Counts ==
  moved = "never" =>
    /\ published = Used /\ inUse = Cardinality(Used)
    /\ Rejoining = {}
    /\ \A p \in PortsOf(prefs) \ Pending : enabled[p]
    /\ \A c \in Clients : \A i \in DOMAIN work[c].remove :
         enabled[work[c].remove[i]] \/ (work[c].at = "detach" /\ i = 1)

-----------------------------------------------------------------------------
(* Operators.                                                              *)

\* recalculate_mtu finds an MTU that fits every port in use (EInterfaces.cpp:375-402).
LEMMA MtuFits ==
  ASSUME NEW used \in SUBSET Ports
  PROVE  /\ recalculate_mtu(used) \in Nat
         /\ \A p \in used : recalculate_mtu(used) <= Mtu[p]
<1>1. CASE used = {}
  BY <1>1 DEF recalculate_mtu
<1>2. CASE used # {}
  <2> DEFINE M == {Mtu[p] : p \in used}
  <2>1. M \subseteq Nat /\ M # {}
    BY <1>2, AdminAssumption
  <2>2. \A p \in used : Mtu[p] \in M
    OBVIOUS
  <2>3. recalculate_mtu(used) = Min(M)
    BY <1>2 DEF recalculate_mtu
  <2> HIDE DEF M
  <2>4. Min(M) \in Nat /\ \A m \in M : Min(M) <= m
    BY <2>1, MinIsLeast
  <2> QED BY <2>2, <2>3, <2>4
<1> QED BY <1>1, <1>2

\* Whatever settings an invocation starts from, applying its options gives settings
\* (Preferences.cpp:40-62).
LEMMA SettingsAreSettings ==
  /\ NoPorts \in Settings /\ DefaultSettings \in Settings
  /\ BootOptions.session = "none" /\ BootOptions.send
  /\ \A f \in [ok : BOOLEAN, settings : Settings] : recall_settings(f) \in Settings
  /\ \A s \in Settings, o \in Options : Apply(s, o) \in Settings
  /\ \A s \in Settings, o \in Options : ~ o.send => Apply(s, o) = s
<1>1. NoPorts \in Settings
  <2>1. (CHOOSE n \in Sizes : TRUE) \in Sizes
    BY AoedAssumption
  <2>2. <<>> \in Seq(Ports)
    BY EmptySeq
  <2> QED BY <2>1, <2>2 DEF NoPorts, Settings
<1>2. DefaultSettings \in Settings
  BY AoedAssumption DEF DefaultSettings, Settings
<1>3. \A f \in [ok : BOOLEAN, settings : Settings] : recall_settings(f) \in Settings
  BY <1>2 DEF recall_settings
<1>4. \A s \in Settings, o \in Options : Apply(s, o) \in Settings
  BY AoedAssumption DEF Apply, Settings
<1>5. \A s \in Settings, o \in Options : ~ o.send => Apply(s, o) = s
  BY AoedAssumption DEF Apply, Settings
<1> QED BY <1>1, <1>2, <1>3, <1>4, <1>5 DEF BootOptions

\* Idle is what is left of a call that is over (AoEUserInterface.c:262-264).
LEMMA IdleShape ==
  /\ Idle \in Calls
  /\ Idle.at = "idle" /\ Elements(Idle.add) = {} /\ Elements(Idle.remove) = {}
BY EmptySeq DEF Idle, Elements, Calls

\* The process table stays one as invocations go on, end and start.
LEMMA ProcessShapes ==
  ASSUME proc \in [Clients -> Processes], NEW c \in Clients
  PROVE  /\ NoProc \in Processes
         /\ \A pc \in Pcs \ {"session"} : At(c, pc) => proc' \in [Clients -> Processes]
         /\ Exit(c) => proc' \in [Clients -> Processes]
         /\ [d \in Clients |-> NoProc] \in [Clients -> Processes]
<1>1. NoProc \in Processes
  BY SettingsAreSettings DEF NoProc, Processes, Pcs
<1> QED
  BY <1>1 DEF At, Exit, Processes

-----------------------------------------------------------------------------
(* Types.                                                                  *)

\* The initial states have the types.
LEMMA InitShape == Init => Shape
<1> SUFFICES ASSUME Init PROVE Shape
  OBVIOUS
<1>1. KextShape
  <2>1. NoPorts \in Settings /\ NoPorts.size \in Sizes
    BY SettingsAreSettings DEF Settings
  <2>2. Settled \in Links
    BY DEF Settled, Links
  <2>3. work \in [Clients -> Calls] /\ rejoin \in [Ports -> Links]
    BY <2>2, IdleShape DEF Init, KextInit
  <2>4. /\ loaded \in BOOLEAN /\ moved \in {"never", "apart", "crossed"}
        /\ mutex \in Clients \union {None}
        /\ prefs \in Settings /\ size \in Sizes
    BY <2>1 DEF Init, KextInit
  <2>5. enabled \in [Ports -> BOOLEAN] /\ link \in [Ports -> BOOLEAN]
    BY DEF Init, KextInit
  <2>6. inUse \in Int /\ minMtu \in Nat /\ controllersMtu \in Nat
    BY DEF Init, KextInit
  <2>7. /\ published \subseteq Ports /\ late \subseteq Ports
        /\ filters \in [Ports -> Int]
    BY DEF Init, KextInit
  <2> QED
    BY <2>3, <2>4, <2>5, <2>6, <2>7 DEF KextShape
<1>2. AoedShape
  <2>1. NoProc \in Processes
    BY SettingsAreSettings DEF NoProc, Processes, Pcs
  <2>2. file \in Files /\ asked \in Settings
    BY SettingsAreSettings DEF Init, Files
  <2>3. proc \in [Clients -> Processes]
    BY <2>1 DEF Init
  <2>4. /\ starts \in 0..MaxStarts /\ failures \in 0..MaxFailures
        /\ cables \in 0..CableEvents
    BY AdminAssumption, AoedAssumption DEF Init
  <2>5. boot \in BOOLEAN /\ disturbed \in BOOLEAN
    BY DEF Init
  <2> QED
    BY <2>2, <2>3, <2>4, <2>5 DEF AoedShape
<1> QED BY <1>1, <1>2 DEF Shape

\* What a step does to the kernel extension: one of its operations, or nothing.
KextStep ==
  \/ UNCHANGED kextVars
  \/ \E c \in Clients :
       \/ aoeinterface_connect(c)
       \/ aoeinterface_disconnect(c)
       \/ proc[c].pc = "set" /\ aoeinterface_set(c, proc[c].settings)
       \/ EnablePort(c) \/ DisablePort(c) \/ DetachFilter(c) \/ SetTheRest(c)
  \/ \E p \in Ports :
       LinkOff(p) \/ LinkOn(p) \/ LinkCounted(p) \/ LinkStored(p) \/ LinkAdjusted(p)
  \/ Load \/ Unload

\* Every step is one of these for the kernel extension.
LEMMA NextKextStep == [Next]_vars => KextStep
<1> SUFFICES ASSUME [Next]_vars PROVE KextStep
  OBVIOUS
<1>1. ASSUME NEW c \in Clients, Start(c) \/ StartAtBoot(c)
      PROVE  KextStep
  BY <1>1 DEF Start, StartAtBoot, KextStep
<1>2. ASSUME NEW c \in Clients, Step(c)
      PROVE  KextStep
  <2>1. CASE OpenSession(c) \/ Connect(c)
    BY <2>1 DEF OpenSession, Connect, KextStep
  <2>2. CASE ShortSession(c) \/ Unmounted(c) \/ Disconnect(c)
    BY <2>2 DEF ShortSession, Unmounted, Disconnect, KextStep
  <2>3. CASE UnmountFailed(c) \/ StoreSettings(c) \/ NothingToSend(c)
    BY <2>3 DEF UnmountFailed, StoreSettings, NothingToSend, KextStep
  <2>4. CASE SetPreferences(c)
    BY <2>4 DEF SetPreferences, KextStep
  <2> QED BY <1>2, <2>1, <2>2, <2>3, <2>4 DEF Step
<1>3. ASSUME NEW c \in Clients, InKext(c) \/ UserDismissesAlert(c) \/ Kill(c)
      PROVE  KextStep
  BY <1>3 DEF InKext, InCall, UserDismissesAlert, Kill, KextStep
<1>4. CASE Reboot \/ LoadKext
  BY <1>4 DEF Reboot, LoadKext, KextStep
<1>5. CASE Cable
  BY <1>5 DEF Cable, KextStep
<1>6. ASSUME NEW p \in Ports, LinkEvent(p)
      PROVE  KextStep
  BY <1>6 DEF LinkEvent, LinkHandled, KextStep
<1>7. CASE UNCHANGED vars
  BY <1>7 DEF vars, KextStep
<1> QED
  BY <1>1, <1>2, <1>3, <1>4, <1>5, <1>6, <1>7 DEF Next

\* The operations of the kernel extension keep the types of its state: one step of
\* the proof for every operation.
LEMMA KextStepShape == Shape /\ KextStep => KextShape'
<1> SUFFICES ASSUME Shape, KextStep
             PROVE  KextShape'
  OBVIOUS
<1>0. KextShape /\ proc \in [Clients -> Processes]
  BY DEF Shape, AoedShape
<1>1. CASE UNCHANGED kextVars
  BY <1>0, <1>1 DEF KextShape, kextVars, portVars, cableVars
<1>2. ASSUME NEW c \in Clients, aoeinterface_connect(c) \/ aoeinterface_disconnect(c)
      PROVE  KextShape'
  BY <1>0, <1>2 DEF KextShape, aoeinterface_connect, aoeinterface_disconnect, portVars, cableVars
<1>3. ASSUME NEW c \in Clients, aoeinterface_set(c, proc[c].settings)
      PROVE  KextShape'
  <2>1. proc[c].settings \in Settings /\ prefs \in Settings
    BY <1>0 DEF KextShape, Processes
  <2>2. prefs.ports \in Seq(Ports) /\ proc[c].settings.ports \in Seq(Ports)
    BY <2>1 DEF Settings
  <2>3. /\ without(proc[c].settings.ports, PortsOf(prefs)) \in Seq(Ports)
        /\ without(prefs.ports, PortsOf(proc[c].settings)) \in Seq(Ports)
    BY <2>2, WithoutProperties
  <2>4. work' \in [Clients -> Calls]
    BY <1>0, <1>3, <2>3 DEF KextShape, aoeinterface_set, Calls
  <2> QED
    BY <1>0, <2>1, <2>4, <1>3 DEF KextShape, aoeinterface_set, portVars, cableVars
<1>4. ASSUME NEW c \in Clients, EnablePort(c)
      PROVE  KextShape'
  <2>1. work[c].add \in Seq(Ports) /\ work[c].add # <<>>
    BY <1>0, <1>4 DEF KextShape, Calls, EnablePort
  <2>2. Head(work[c].add) \in Ports /\ Tail(work[c].add) \in Seq(Ports)
    BY <2>1, HeadTailProperties
  <2>3. recalculate_mtu(Used \union {Head(work[c].add)}) \in Nat
    BY <2>2, MtuFits DEF Used
  <2>4. work' \in [Clients -> Calls]
    BY <1>0, <1>4, <2>2 DEF KextShape, EnablePort, Calls
  <2>5. /\ minMtu' \in Nat /\ controllersMtu' \in Nat /\ inUse' \in Int
        /\ filters' \in [Ports -> Int] /\ enabled' \in [Ports -> BOOLEAN]
    BY <1>0, <1>4, <2>2, <2>3 DEF KextShape, EnablePort, enable_interface
  <2>6. published' \subseteq Ports
    BY <1>4, <2>2 DEF EnablePort, enable_interface, update_interface_property, Used
  <2> QED
    BY <1>0, <1>4, <2>4, <2>5, <2>6 DEF KextShape, EnablePort
<1>5. ASSUME NEW c \in Clients, DisablePort(c)
      PROVE  KextShape'
  <2>1. work' \in [Clients -> Calls]
    BY <1>0, <1>5 DEF KextShape, DisablePort, Calls
  <2>2. enabled' \in [Ports -> BOOLEAN]
    BY <1>0, <1>5 DEF KextShape, DisablePort, interface_disconnected
  <2>3. inUse' \in Int
    BY <1>0, <1>5 DEF KextShape, DisablePort, interface_disconnected
  <2>4. published' \subseteq Ports
    BY <1>5 DEF DisablePort, interface_disconnected, update_interface_property, Used
  <2> QED
    BY <1>0, <1>5, <2>1, <2>2, <2>3, <2>4 DEF KextShape, DisablePort, interface_disconnected,
                                            cableVars
<1>6. ASSUME NEW c \in Clients, DetachFilter(c)
      PROVE  KextShape'
  <2>1. work[c].remove \in Seq(Ports) /\ work[c].remove # <<>>
    BY <1>0, <1>6 DEF KextShape, Calls, DetachFilter
  <2>2. work' \in [Clients -> Calls]
    <3>1. Tail(work[c].remove) \in Seq(Ports)
      BY <2>1, HeadTailProperties
    <3> QED BY <3>1, <1>0, <1>6 DEF KextShape, DetachFilter, Calls
  <2>3. filters' \in [Ports -> Int]
    <3>1. PICK h : h = Head(work[c].remove)
      OBVIOUS
    <3>2. filters' = [filters EXCEPT ![h] = filters[h] - 1] /\ h \in Ports
      BY <1>6, <2>1, <3>1, HeadTailProperties DEF DetachFilter
    <3>3. filters \in [Ports -> Int] /\ filters[h] \in Int
      BY <1>0, <3>2 DEF KextShape
    <3> QED BY <3>2, <3>3
  <2> QED
    BY <1>0, <1>6, <2>2, <2>3 DEF KextShape, DetachFilter, cableVars
<1>7. ASSUME NEW c \in Clients, SetTheRest(c)
      PROVE  KextShape'
  <2>1. prefs.size \in Sizes
    BY <1>0 DEF KextShape, Settings
  <2>2. work' \in [Clients -> Calls]
    BY <1>0, <1>7, IdleShape DEF KextShape, SetTheRest
  <2> QED
    BY <1>0, <1>7, <2>1, <2>2 DEF KextShape, SetTheRest, portVars, cableVars
<1>8. ASSUME NEW p \in Ports, LinkOff(p)
      PROVE  KextShape'
  <2>1. enabled' \in [Ports -> BOOLEAN] /\ link' \in [Ports -> BOOLEAN]
    BY <1>0, <1>8 DEF KextShape, LinkOff, interface_disconnected
  <2>2. inUse' \in Int
    <3>1. inUse' = inUse - 1 \/ inUse' = inUse
      BY <1>8 DEF LinkOff, interface_disconnected
    <3> QED BY <1>0, <3>1 DEF KextShape
  <2>3. published' \subseteq Ports
    BY <1>0, <1>8 DEF KextShape, LinkOff, interface_disconnected, update_interface_property, Used
  <2>4. moved' \in {"never", "apart", "crossed"}
    BY <1>0, <1>8 DEF KextShape, LinkOff, Moved
  <2> QED
    BY <1>0, <1>8, <2>1, <2>2, <2>3, <2>4 DEF KextShape, LinkOff, interface_disconnected
<1>9. ASSUME NEW p \in Ports, LinkOn(p)
      PROVE  KextShape'
  <2>1. rejoin' \in [Ports -> Links]
    <3>1. rejoin \in [Ports -> Links]
      BY <1>0 DEF KextShape
    <3>2. [at |-> "count", count |-> inUse, mtu |-> 0] \in Links
      BY <1>0 DEF KextShape, Links
    <3>3. \/ rejoin' = [rejoin EXCEPT ![p] = [at |-> "count", count |-> inUse, mtu |-> 0]]
          \/ rejoin' = rejoin
      BY <1>9 DEF LinkOn, Settled
    <3> QED BY <3>1, <3>2, <3>3
  <2>2. moved' \in {"never", "apart", "crossed"}
    BY <1>0, <1>9 DEF KextShape, LinkOn, Moved
  <2>3. late' \subseteq Ports
    BY <1>0, <1>9 DEF KextShape, LinkOn
  <2>4. enabled' \in [Ports -> BOOLEAN] /\ link' \in [Ports -> BOOLEAN]
    BY <1>0, <1>9 DEF KextShape, LinkOn
  <2> QED
    BY <1>0, <1>9, <2>1, <2>2, <2>3, <2>4 DEF KextShape, LinkOn
<1>10. ASSUME NEW p \in Ports, LinkCounted(p) \/ LinkStored(p) \/ LinkAdjusted(p)
       PROVE  KextShape'
  <2>1. recalculate_mtu(Used) \in Nat
    BY MtuFits DEF Used
  <2>2. rejoin[p].mtu \in Nat /\ rejoin[p].count \in Int
    BY <1>0 DEF KextShape, Links
  <2>3. rejoin' \in [Ports -> Links]
    <3>1. rejoin \in [Ports -> Links]
      BY <1>0 DEF KextShape
    <3>2. CASE LinkCounted(p)
      <4>1. PICK m \in Nat : m = recalculate_mtu(Used)
        BY <2>1
      <4>2. rejoin' = [rejoin EXCEPT ![p] = [Settled EXCEPT !.at = "store", !.mtu = m]]
        BY <3>2, <4>1, Zenon DEF LinkCounted
      <4>3. [Settled EXCEPT !.at = "store", !.mtu = m] \in Links
        <5>1. Settled \in Links
          BY DEF Settled, Links
        <5> QED BY <5>1 DEF Links
      <4> QED BY <3>1, <4>2, <4>3
    <3>3. CASE LinkStored(p)
      BY <3>1, <3>3 DEF LinkStored, Links
    <3>4. CASE LinkAdjusted(p)
      BY <3>1, <3>4 DEF LinkAdjusted, Links, Settled
    <3> QED BY <1>10, <3>2, <3>3, <3>4
  <2> QED
    BY <1>0, <1>10, <2>2, <2>3
       DEF KextShape, LinkCounted, LinkStored, LinkAdjusted, update_interface_property, Used
<1>11. CASE Load
  BY <1>0, <1>11 DEF KextShape, Load, portVars, cableVars
<1>12. CASE Unload
  <2>1. NoPorts \in Settings /\ NoPorts.size \in Sizes
    BY SettingsAreSettings DEF Settings
  <2>2. work' \in [Clients -> Calls] /\ rejoin' \in [Ports -> Links]
    BY <1>12, IdleShape DEF Unload, Settled, Links
  <2>3. enabled' \in [Ports -> BOOLEAN] /\ filters' \in [Ports -> Int]
    BY <1>12 DEF Unload
  <2>4. loaded' \in BOOLEAN /\ moved' \in {"never", "apart", "crossed"}
    BY <1>12 DEF Unload
  <2>5. inUse' \in Int /\ minMtu' \in Nat /\ controllersMtu' \in Nat
    BY <1>12 DEF Unload
  <2>6. published' \subseteq Ports /\ late' \subseteq Ports
    BY <1>12 DEF Unload
  <2> QED
    BY <1>0, <1>12, <2>1, <2>2, <2>3, <2>4, <2>5, <2>6 DEF KextShape, Unload
<1> QED
  BY <1>1, <1>2, <1>3, <1>4, <1>5, <1>6, <1>7, <1>8, <1>9, <1>10, <1>11, <1>12 DEF KextStep


\* The steps of invocations keep the types of theirs.
LEMMA NextAoedShape == Shape /\ [Next]_vars => AoedShape'
<1> SUFFICES ASSUME Shape, [Next]_vars
             PROVE  AoedShape'
  OBVIOUS
<1>0. AoedShape /\ KextShape /\ proc \in [Clients -> Processes]
  BY DEF Shape, AoedShape
<1>1. ASSUME NEW c \in Clients, Start(c)
      PROVE  AoedShape'
  <2>1. PICK o \in Options : LET found == recall_settings(file) IN
          /\ proc' = [d \in Clients |->
               IF d = c THEN [pc |-> IF o.session = "none" THEN "store" ELSE "session",
                              opt |-> o, settings |-> Apply(found, o),
                              stored |-> FALSE, alone |-> Running = {}]
                        ELSE [proc[d] EXCEPT !.alone = FALSE]]
          /\ disturbed' = (disturbed \/ ~ (Running = {}))
          /\ asked' = Apply(IF disturbed THEN found ELSE asked, o)
    BY <1>1 DEF Start
  <2>2. recall_settings(file) \in Settings /\ asked \in Settings
    BY <1>0, SettingsAreSettings DEF AoedShape, Files
  <2>3. Apply(recall_settings(file), o) \in Settings /\ Apply(asked, o) \in Settings
    BY <2>2, SettingsAreSettings
  <2>4. asked' \in Settings
    BY <2>1, <2>3
  <2>5. proc' \in [Clients -> Processes]
    <3>1. ASSUME NEW st \in Settings, NEW b \in BOOLEAN, NEW pc \in Pcs,
                 pc = "session" => o.session # "none"
          PROVE  [pc |-> pc, opt |-> o, settings |-> st, stored |-> FALSE, alone |-> b]
                   \in Processes
      BY <3>1 DEF Processes
    <3>2. PICK pc \in Pcs : /\ pc = IF o.session = "none" THEN "store" ELSE "session"
                            /\ pc = "session" => o.session # "none"
      BY DEF Pcs
    <3>3. \A d \in Clients : [proc[d] EXCEPT !.alone = FALSE] \in Processes
      BY <1>0 DEF Processes
    <3> QED BY <2>1, <2>3, <3>1, <3>2, <3>3
  <2>6. starts' \in 0..MaxStarts
    BY <1>0, <1>1, AoedAssumption DEF AoedShape, Start
  <2>7. disturbed' \in BOOLEAN
    BY <1>0, <2>1 DEF AoedShape
  <2> QED
    BY <1>0, <1>1, <2>4, <2>5, <2>6, <2>7 DEF AoedShape, Start
<1>2. ASSUME NEW c \in Clients, StartAtBoot(c)
      PROVE  AoedShape'
  <2>1. PICK st \in Settings : st = recall_settings(file)
    BY <1>0, SettingsAreSettings DEF AoedShape, Files
  <2>2. [NoProc EXCEPT !.pc = "store", !.alone = TRUE, !.settings = st] \in Processes
    <3>1. NoProc \in Processes
      BY <1>0, ProcessShapes
    <3> QED BY <3>1 DEF Processes, Pcs
  <2>3. proc' = [proc EXCEPT ![c] =
                   [NoProc EXCEPT !.pc = "store", !.alone = TRUE, !.settings = st]]
    BY <1>2, <2>1, Zenon DEF StartAtBoot
  <2>4. proc' \in [Clients -> Processes]
    BY <1>0, <2>2, <2>3
  <2> QED
    BY <1>0, <1>2, <2>4 DEF AoedShape, StartAtBoot
<1>3. ASSUME NEW c \in Clients, StoreSettings(c)
      PROVE  AoedShape'
  <2>1. proc' \in [Clients -> Processes]
    BY <1>0, <1>3 DEF StoreSettings, At, Processes, Pcs
  <2>2. file' \in Files
    <3>1. [ok |-> TRUE, settings |-> proc[c].settings] \in Files
      BY <1>0 DEF Processes, Files
    <3> QED BY <1>0, <1>3, <3>1 DEF AoedShape, StoreSettings
  <2>3. failures' \in 0..MaxFailures
    BY <1>0, <1>3, AoedAssumption DEF AoedShape, StoreSettings
  <2>4. disturbed' \in BOOLEAN
    BY <1>0, <1>3 DEF AoedShape, StoreSettings
  <2> QED
    BY <1>0, <1>3, <2>1, <2>2, <2>3, <2>4 DEF AoedShape, StoreSettings
<1>4. ASSUME NEW c \in Clients, OpenSession(c)
      PROVE  AoedShape'
  <2>1. proc[c].opt.session \in Pcs \ {"session"}
    BY <1>0, AoedAssumption DEF Processes, BootOptions, Pcs
  <2>2. proc' \in [Clients -> Processes]
    BY <1>0, <1>4, <2>1, ProcessShapes DEF OpenSession, Pcs
  <2> QED
    BY <1>0, <1>4, <2>2 DEF AoedShape, OpenSession
<1>5. ASSUME NEW c \in Clients,
             ShortSession(c) \/ Unmounted(c) \/ UnmountFailed(c) \/ UserDismissesAlert(c)
               \/ SetPreferences(c)
      PROVE  AoedShape'
  <2>1. proc' \in [Clients -> Processes]
    BY <1>0, <1>5, ProcessShapes
       DEF ShortSession, Unmounted, UnmountFailed, UserDismissesAlert, SetPreferences, Pcs
  <2> QED
    BY <1>0, <1>5, <2>1 DEF AoedShape, ShortSession, Unmounted, UnmountFailed,
                            UserDismissesAlert, SetPreferences
<1>6. ASSUME NEW c \in Clients, Connect(c) \/ NothingToSend(c)
      PROVE  AoedShape'
  <2>1. proc' \in [Clients -> Processes]
    BY <1>0, <1>6, ProcessShapes DEF Connect, NothingToSend, Pcs
  <2> QED
    BY <1>0, <1>6, <2>1 DEF AoedShape, Connect, NothingToSend
<1>7. ASSUME NEW c \in Clients, Disconnect(c)
      PROVE  AoedShape'
  <2>1. proc' \in [Clients -> Processes]
    BY <1>0, <1>7, ProcessShapes DEF Disconnect
  <2>2. proc[c].settings \in Settings /\ proc[c].alone \in BOOLEAN /\ proc[c].stored \in BOOLEAN
    BY <1>0 DEF Processes
  <2>3. asked' \in Settings /\ disturbed' \in BOOLEAN
    BY <1>0, <1>7, <2>2 DEF AoedShape, Disconnect
  <2> QED
    BY <1>0, <1>7, <2>1, <2>3 DEF AoedShape, Disconnect
<1>8. ASSUME NEW c \in Clients, InKext(c)
      PROVE  AoedShape'
  BY <1>0, <1>8 DEF AoedShape, InKext, aoedVars
<1>9. ASSUME NEW c \in Clients, Kill(c)
      PROVE  AoedShape'
  <2>1. proc' \in [Clients -> Processes]
    BY <1>0, <1>9, ProcessShapes DEF Kill
  <2>2. failures' \in 0..MaxFailures
    BY <1>0, <1>9, AoedAssumption DEF AoedShape, Kill, Disturb
  <2> QED
    BY <1>0, <1>9, <2>1, <2>2 DEF AoedShape, Kill, Disturb
<1>10. CASE Reboot
  <2>1. proc' \in [Clients -> Processes]
    <3>1. NoProc \in Processes
      BY SettingsAreSettings DEF NoProc, Processes, Pcs
    <3> QED BY <1>10, <3>1 DEF Reboot
  <2>2. failures' \in 0..MaxFailures
    BY <1>0, <1>10, AoedAssumption DEF AoedShape, Reboot, Disturb
  <2> QED
    BY <1>0, <1>10, <2>1, <2>2 DEF AoedShape, Reboot, Disturb
<1>11. CASE LoadKext
  BY <1>0, <1>11 DEF AoedShape, LoadKext, aoedVars
<1>12. CASE Cable
  <2>1. cables' \in 0..CableEvents
    BY <1>0, <1>12, AdminAssumption DEF AoedShape, Cable
  <2> QED
    BY <1>0, <1>12, <2>1 DEF AoedShape, Cable
<1>13. ASSUME NEW p \in Ports, LinkEvent(p)
       PROVE  AoedShape'
  BY <1>0, <1>13 DEF AoedShape, LinkEvent, aoedVars
<1>14. CASE UNCHANGED vars
  BY <1>0, <1>14 DEF AoedShape, vars, aoedVars
<1> QED
  BY <1>1, <1>2, <1>3, <1>4, <1>5, <1>6, <1>7, <1>8, <1>9, <1>10, <1>11, <1>12, <1>13, <1>14
     DEF Next, Step

\* The types hold in every state.
LEMMA TypesHold == Spec => []Shape
<1>1. Init => Shape
  BY InitShape
<1>2. Shape /\ [Next]_vars => Shape'
  BY NextKextStep, KextStepShape, NextAoedShape DEF Shape
<1> QED
  BY <1>1, <1>2, PTL DEF Spec

-----------------------------------------------------------------------------
(* The MTU.                                                                *)

\* No operation makes the controllers' packets too long for a port in use.
LEMMA KextStepMtus == Shape /\ Mtus /\ KextStep => Mtus'
<1> SUFFICES ASSUME Shape, Mtus, KextStep, moved' # "crossed"
             PROVE  /\ \A p, q \in Rejoining' : p = q
                    /\ \A p \in Used' \ Rejoining' : controllersMtu' <= Mtu[p]
                    /\ \A q \in Ports : rejoin'[q].at \in {"store", "adjust"} =>
                         \A p \in Used' : rejoin'[q].mtu <= Mtu[p]
                    /\ \A q \in Ports : rejoin'[q].at = "adjust" => minMtu' = rejoin'[q].mtu
  BY DEF Mtus
<1>0. KextShape
  BY DEF Shape
<1> DEFINE Goal == /\ \A p, q \in Rejoining' : p = q
                   /\ \A p \in Used' \ Rejoining' : controllersMtu' <= Mtu[p]
                   /\ \A q \in Ports : rejoin'[q].at \in {"store", "adjust"} =>
                        \A p \in Used' : rejoin'[q].mtu <= Mtu[p]
                   /\ \A q \in Ports : rejoin'[q].at = "adjust" => minMtu' = rejoin'[q].mtu
<1>1. ASSUME UNCHANGED <<moved, rejoin, minMtu, controllersMtu>>, Used' \subseteq Used
      PROVE  Goal
  BY <1>1 DEF Mtus, Rejoining
<1>2. CASE UNCHANGED kextVars
  BY <1>1, <1>2 DEF kextVars, portVars, cableVars, Used
<1>3. ASSUME NEW c \in Clients, aoeinterface_connect(c) \/ aoeinterface_disconnect(c)
      PROVE  Goal
  BY <1>1, <1>3 DEF aoeinterface_connect, aoeinterface_disconnect, portVars, cableVars, Used
<1>4. ASSUME NEW c \in Clients, aoeinterface_set(c, proc[c].settings)
      PROVE  Goal
  BY <1>1, <1>4 DEF aoeinterface_set, portVars, cableVars, Used
<1>5. ASSUME NEW c \in Clients, EnablePort(c)
      PROVE  Goal
  <2>1. work[c].add \in Seq(Ports) /\ work[c].add # <<>>
    BY <1>0, <1>5 DEF KextShape, Calls, EnablePort
  <2>2. PICK h \in Ports : h = Head(work[c].add)
    BY <2>1, HeadTailProperties
  <2>3. Rejoining = {} /\ rejoin' = rejoin
    BY <1>5 DEF EnablePort
  <2>4. enabled' = [enabled EXCEPT ![h] = TRUE] /\ controllersMtu' = recalculate_mtu(Used \union {h})
    BY <1>5, <2>2 DEF EnablePort, enable_interface
  <2>5. Used' = Used \union {h}
    BY <1>0, <2>4 DEF KextShape, Used
  <2>6. \A p \in Used \union {h} : recalculate_mtu(Used \union {h}) <= Mtu[p]
    BY MtuFits DEF Used
  <2>7. \A q \in Ports : rejoin[q].at = "no"
    BY <2>3 DEF Rejoining
  <2> QED
    BY <2>3, <2>4, <2>5, <2>6, <2>7 DEF Rejoining
<1>6. ASSUME NEW c \in Clients, DisablePort(c)
      PROVE  Goal
  <2>1. Used' \subseteq Used
    BY <1>0, <1>6 DEF DisablePort, interface_disconnected, KextShape, Used
  <2> QED
    BY <1>1, <1>6, <2>1 DEF DisablePort, interface_disconnected, cableVars
<1>7. ASSUME NEW c \in Clients, DetachFilter(c) \/ SetTheRest(c)
      PROVE  Goal
  BY <1>1, <1>7 DEF DetachFilter, SetTheRest, portVars, cableVars, Used
<1>8. ASSUME NEW p \in Ports, LinkOff(p)
      PROVE  Goal
  <2>1. moved # "crossed"
    BY <1>8 DEF LinkOff, Moved
  <2>2. Used' \subseteq Used /\ UNCHANGED <<rejoin, minMtu, controllersMtu>>
    BY <1>0, <1>8 DEF LinkOff, interface_disconnected, KextShape, Used
  <2> QED
    BY <2>1, <2>2 DEF Mtus, Rejoining
<1>9. ASSUME NEW p \in Ports, LinkOn(p)
      PROVE  Goal
  <2>1. CASE filters[p] > 0
    <3>1. Rejoining = {} /\ moved # "crossed"
      BY <1>9, <2>1 DEF LinkOn, Moved
    <3>2. \A q \in Ports : rejoin[q].at = "no"
      BY <3>1 DEF Rejoining
    <3>3. rejoin' = [rejoin EXCEPT ![p] = [Settled EXCEPT !.at = "count", !.count = inUse]]
      BY <1>9, <2>1 DEF LinkOn
    <3>4. \A q \in Ports : IF q = p THEN rejoin'[q].at = "count" ELSE rejoin'[q].at = "no"
      BY <1>0, <3>2, <3>3 DEF KextShape, Settled
    <3>5. Rejoining' = {p}
      BY <3>4 DEF Rejoining
    <3>6. Used' \subseteq Used \union {p} /\ controllersMtu' = controllersMtu
      BY <1>0, <1>9, <2>1 DEF LinkOn, KextShape, Used
    <3> QED
      BY <3>1, <3>4, <3>5, <3>6 DEF Mtus
  <2>2. CASE ~ (filters[p] > 0)
    BY <1>1, <1>9, <2>2 DEF LinkOn, Used
  <2> QED BY <2>1, <2>2
<1>10. ASSUME NEW p \in Ports, LinkCounted(p)
       PROVE  Goal
  <2>1. PICK m : m = recalculate_mtu(Used)
    OBVIOUS
  <2>2. \A q \in Used : m <= Mtu[q]
    BY <2>1, MtuFits DEF Used
  <2>3. /\ rejoin[p].at = "count" /\ p \in Rejoining
        /\ UNCHANGED <<moved, minMtu, controllersMtu, enabled>>
    BY <1>10 DEF LinkCounted, Rejoining
  <2>4. rejoin' = [rejoin EXCEPT ![p] = [Settled EXCEPT !.at = "store", !.mtu = m]]
    BY <1>10, <2>1, Zenon DEF LinkCounted
  <2>5. rejoin'[p].at = "store" /\ rejoin'[p].mtu = m
    BY <1>0, <2>4 DEF KextShape, Settled
  <2>6. \A q \in Ports : q # p => rejoin'[q] = rejoin[q] /\ rejoin[q].at = "no"
    BY <1>0, <2>3, <2>4 DEF KextShape, Mtus, Rejoining
  <2> QED
    BY <2>2, <2>3, <2>5, <2>6 DEF Mtus, Rejoining, Used
<1>11. ASSUME NEW p \in Ports, LinkStored(p)
       PROVE  Goal
  <2>1. /\ rejoin[p].at = "store" /\ p \in Rejoining
        /\ UNCHANGED <<moved, controllersMtu, enabled>> /\ minMtu' = rejoin[p].mtu
        /\ rejoin' = [rejoin EXCEPT ![p].at = "adjust"]
    BY <1>11 DEF LinkStored, Rejoining
  <2>2. rejoin'[p].at = "adjust" /\ rejoin'[p].mtu = rejoin[p].mtu
    BY <1>0, <2>1 DEF KextShape, Links
  <2>3. \A q \in Ports : q # p => rejoin'[q] = rejoin[q] /\ rejoin[q].at = "no"
    BY <1>0, <2>1 DEF KextShape, Mtus, Rejoining
  <2> QED
    BY <2>1, <2>2, <2>3 DEF Mtus, Rejoining, Used
<1>12. ASSUME NEW p \in Ports, LinkAdjusted(p)
       PROVE  Goal
  <2>1. /\ rejoin[p].at = "adjust" /\ p \in Rejoining /\ UNCHANGED <<moved, enabled>>
        /\ controllersMtu' \in {rejoin[p].mtu, minMtu}
        /\ rejoin' = [rejoin EXCEPT ![p] = Settled]
    BY <1>12 DEF LinkAdjusted, Rejoining
  <2>2. controllersMtu' = rejoin[p].mtu
    BY <2>1 DEF Mtus
  <2>3. \A q \in Ports : rejoin'[q].at = "no"
    BY <1>0, <2>1 DEF KextShape, Mtus, Rejoining, Settled
  <2> QED
    BY <2>1, <2>2, <2>3 DEF Mtus, Rejoining, Used
<1>13. CASE Load
  BY <1>1, <1>13 DEF Load, portVars, cableVars, Used
<1>14. CASE Unload
  <2>1. \A q \in Ports : rejoin'[q].at = "no" /\ ~ enabled'[q]
    BY <1>14 DEF Unload, Settled
  <2> QED
    BY <2>1 DEF Rejoining, Used
<1> QED
  BY <1>2, <1>3, <1>4, <1>5, <1>6, <1>7, <1>8, <1>9, <1>10, <1>11, <1>12, <1>13, <1>14
     DEF KextStep

\* PacketsFit: whatever ports users ask for and whatever cables do, no packet is
\* longer than a port in use takes, unless two updates of the MTU cross
\* (EInterfaces.cpp:361, 477, AoEService.cpp:537).
THEOREM PacketsAlwaysFit == Spec => []PacketsFit
<1>1. Init => Mtus
  <2> SUFFICES ASSUME Init PROVE Mtus
    OBVIOUS
  <2>1. \A q \in Ports : rejoin[q].at = "no" /\ ~ enabled[q]
    BY DEF Init, KextInit, Settled
  <2> QED
    BY <2>1 DEF Mtus, Rejoining, Used
<1>2. Shape /\ Mtus /\ [Next]_vars => Mtus'
  BY NextKextStep, KextStepMtus
<1>3. Mtus => PacketsFit
  BY DEF Mtus, PacketsFit
<1> QED
  BY <1>1, <1>2, <1>3, TypesHold, PTL DEF Spec


-----------------------------------------------------------------------------
(* One invocation at a time.                                               *)

\* What the steps of an invocation that runs do to the table of processes.
Moves(c) ==
  /\ proc[c].pc # "none" /\ boot' = boot
  /\ \/ \E pc \in Pcs \ {"none"} : At(c, pc) /\ file' = file
     \/ Exit(c) /\ file' = file
     \/ StoreSettings(c)

\* Every step starts an invocation, moves or ends one that runs, or restarts the
\* machine.
LEMMA NextMoves ==
  ASSUME Shape, [Next]_vars
  PROVE  \/ \E c \in Clients : Start(c) \/ StartAtBoot(c) \/ Moves(c)
         \/ Reboot
         \/ UNCHANGED <<proc, boot, file>>
<1>0. proc \in [Clients -> Processes]
  BY DEF Shape, AoedShape
<1>1. ASSUME NEW c \in Clients, Step(c)
      PROVE  Moves(c)
  <2>1. CASE OpenSession(c)
    <3>1. proc[c].opt.session \in {"none", "short", "unmount"}
      BY <1>0, AoedAssumption DEF Processes, BootOptions
    <3>2. proc[c].opt.session # "none"
      BY <1>0, <2>1 DEF Processes, OpenSession
    <3> QED BY <2>1, <3>1, <3>2 DEF OpenSession, Moves, Pcs
  <2>2. CASE ShortSession(c) \/ Unmounted(c) \/ UnmountFailed(c)
    BY <2>2 DEF ShortSession, Unmounted, UnmountFailed, Moves, Pcs
  <2>3. CASE StoreSettings(c)
    BY <2>3 DEF StoreSettings, Moves
  <2>4. CASE Connect(c)
    BY <2>4 DEF Connect, Moves, Pcs
  <2>5. CASE NothingToSend(c) \/ Disconnect(c)
    BY <2>5 DEF NothingToSend, Disconnect, Moves
  <2>6. CASE SetPreferences(c)
    BY <2>6 DEF SetPreferences, Moves, Pcs
  <2> QED BY <1>1, <2>1, <2>2, <2>3, <2>4, <2>5, <2>6 DEF Step
<1>2. ASSUME NEW c \in Clients, UserDismissesAlert(c) \/ Kill(c)
      PROVE  Moves(c)
  BY <1>2 DEF UserDismissesAlert, Kill, Moves, Pcs
<1>3. ASSUME NEW c \in Clients, InKext(c)
      PROVE  UNCHANGED <<proc, boot, file>>
  BY <1>3 DEF InKext, aoedVars
<1>4. CASE LoadKext \/ Cable
  BY <1>4 DEF LoadKext, Cable, aoedVars
<1>5. ASSUME NEW p \in Ports, LinkEvent(p)
      PROVE  UNCHANGED <<proc, boot, file>>
  BY <1>5 DEF LinkEvent, aoedVars
<1>6. CASE UNCHANGED vars
  BY <1>6 DEF vars, aoedVars
<1> QED
  BY <1>1, <1>2, <1>3, <1>4, <1>5, <1>6 DEF Next

\* Nothing has run before the machine has started.
LEMMA InitAlone == Init => Alone
BY DEF Init, Alone, Running, NoProc

\* An invocation is alone until another one starts: what it has stored, nobody else
\* overwrites (main.cpp:152, 449).
LEMMA NextAlone == Shape /\ Alone /\ [Next]_vars => Alone'
<1> SUFFICES ASSUME Shape, Alone, [Next]_vars
             PROVE  Alone'
  OBVIOUS
<1>0. proc \in [Clients -> Processes]
  BY DEF Shape, AoedShape
<1>1. ASSUME NEW c \in Clients, Start(c)
      PROVE  Alone'
  <2>1. PICK o \in Options :
          proc' = [d \in Clients |->
               IF d = c THEN [pc |-> IF o.session = "none" THEN "store" ELSE "session",
                              opt |-> o, settings |-> Apply(recall_settings(file), o),
                              stored |-> FALSE, alone |-> Running = {}]
                        ELSE [proc[d] EXCEPT !.alone = FALSE]]
    BY <1>1 DEF Start
  <2>2. proc'[c].pc # "none" /\ ~ proc'[c].stored /\ (proc'[c].alone <=> Running = {})
    BY <2>1
  <2>3. \A d \in Clients \ {c} : ~ proc'[d].alone /\ proc'[d].pc = proc[d].pc
    BY <1>0, <2>1 DEF Processes
  <2>4. Running = {} => Running' = {c}
    BY <2>2, <2>3 DEF Running
  <2>5. boot' = boot /\ ~ boot
    BY <1>1 DEF Start
  <2> QED
    BY <2>2, <2>3, <2>4, <2>5 DEF Alone, Running
<1>2. ASSUME NEW c \in Clients, StartAtBoot(c)
      PROVE  Alone'
  <2>1. Running = {} /\ ~ boot'
    BY <1>2 DEF StartAtBoot, Alone
  <2>2. \A d \in Clients : IF d = c THEN proc'[d].pc = "store" /\ ~ proc'[d].stored
                           ELSE proc'[d] = proc[d]
    BY <1>0, <1>2 DEF StartAtBoot, NoProc
  <2>3. Running' = {c}
    BY <2>1, <2>2 DEF Running
  <2> QED
    BY <2>1, <2>2, <2>3 DEF Alone
<1>3. ASSUME NEW c \in Clients, Moves(c)
      PROVE  Alone'
  <2>0. c \in Running /\ Running \subseteq Clients /\ ~ boot /\ ~ boot'
    BY <1>3 DEF Moves, Running, Alone
  <2>1. ASSUME NEW pc \in Pcs \ {"none"}, At(c, pc), file' = file
        PROVE  Alone'
    <3>1. \A d \in Clients :
            /\ proc'[d].pc = IF d = c THEN pc ELSE proc[d].pc
            /\ proc'[d].alone = proc[d].alone /\ proc'[d].stored = proc[d].stored
            /\ proc'[d].settings = proc[d].settings
      BY <1>0, <2>1 DEF At, Processes
    <3>2. Running' = Running
      BY <2>0, <3>1 DEF Running
    <3> QED
      BY <2>0, <2>1, <3>1, <3>2 DEF Alone, Running
  <2>2. ASSUME Exit(c), file' = file
        PROVE  Alone'
    <3>1. \A d \in Clients : IF d = c THEN proc'[d].pc = "none" ELSE proc'[d] = proc[d]
      BY <1>0, <2>2 DEF Exit, NoProc
    <3>2. Running' = Running \ {c}
      BY <3>1 DEF Running
    <3> QED
      BY <2>0, <2>2, <3>1, <3>2 DEF Alone
  <2>3. CASE StoreSettings(c)
    <3>1. \A d \in Clients :
            /\ IF d = c THEN proc'[d].pc = "connect" ELSE proc'[d].pc = proc[d].pc
            /\ proc'[d].alone = proc[d].alone /\ proc'[d].settings = proc[d].settings
            /\ d # c => proc'[d].stored = proc[d].stored
      BY <1>0, <2>3 DEF StoreSettings, At, Processes
    <3>2. Running' = Running
      BY <2>0, <3>1 DEF Running
    <3>3. \/ file' = [ok |-> TRUE, settings |-> proc[c].settings]
          \/ file' = file /\ proc'[c].stored = proc[c].stored
      BY <1>0, <2>3 DEF StoreSettings, At, Processes
    <3> QED
      BY <2>0, <3>1, <3>2, <3>3 DEF Alone
  <2> QED BY <1>3, <2>1, <2>2, <2>3 DEF Moves
<1>4. CASE Reboot
  BY <1>4 DEF Reboot, Alone, Running, NoProc
<1>5. CASE UNCHANGED <<proc, boot, file>>
  BY <1>5 DEF Alone, Running
<1> QED
  BY NextMoves, <1>1, <1>2, <1>3, <1>4, <1>5

-----------------------------------------------------------------------------
(* Sessions.                                                               *)

\* Sessions holds before anything has run.
LEMMA InitSessions == Init => Sessions
BY DEF Init, KextInit, Sessions, NoProc

\* No step breaks Sessions: the mutex keeps all others out of a session, and in the
\* call nobody changes the preferences (AoEUserInterface.c:62, main.cpp:449-476).
LEMMA NextSessions == Shape /\ Alone /\ Sessions /\ [Next]_vars => Sessions'
<1> SUFFICES ASSUME Shape, Alone, Sessions, [Next]_vars
             PROVE  Sessions'
  OBVIOUS
<1>0. /\ proc \in [Clients -> Processes] /\ work \in [Clients -> Calls]
      /\ None \notin Clients
  BY AdminAssumption DEF Shape, AoedShape, KextShape
<1> DEFINE InSession == {"short", "unmount", "alert", "set", "setting"}
<1>1. ASSUME NEW c \in Clients, UNCHANGED <<loaded, prefs, work, size>>,
             work[c] = Idle, proc'[c].pc # "setting",
             proc'[c].pc = "set" => proc'[c].opt.send,
             proc'[c].pc \in InSession => mutex' = c,
             mutex' # None => loaded,
             \A d \in Clients \ {c} :
               /\ proc'[d].pc = proc[d].pc /\ proc'[d].opt = proc[d].opt
               /\ proc'[d].settings = proc[d].settings
               /\ mutex = d => mutex' = d
      PROVE  Sessions'
  BY <1>1 DEF Sessions
\* An invocation enters, keeps or leaves its session, or is not in one.
<1>2. ASSUME NEW c \in Clients, NEW pc \in Pcs, At(c, pc), pc # "setting",
             pc = "set" => proc[c].opt.send,
             work[c] = Idle,
             \/ aoeinterface_connect(c)
             \/ aoeinterface_disconnect(c) /\ pc \notin InSession
             \/ UNCHANGED kextVars /\ (pc \notin InSession \/ mutex = c)
      PROVE  Sessions'
  <2>1. /\ proc'[c].pc = pc /\ proc'[c].opt = proc[c].opt
        /\ \A d \in Clients \ {c} : proc'[d] = proc[d]
    BY <1>0, <1>2 DEF At, Processes
  <2>2. CASE aoeinterface_connect(c)
    BY <1>0, <1>1, <1>2, <2>1, <2>2 DEF aoeinterface_connect
  <2>3. CASE aoeinterface_disconnect(c) /\ pc \notin InSession
    BY <1>0, <1>1, <1>2, <2>1, <2>3 DEF aoeinterface_disconnect, Sessions
  <2>4. CASE UNCHANGED kextVars /\ (pc \notin InSession \/ mutex = c)
    <3>1. UNCHANGED <<loaded, mutex, prefs, work, size>>
      BY <2>4 DEF kextVars
    <3> QED BY <1>0, <1>1, <1>2, <2>1, <2>4, <3>1 DEF Sessions
  <2> QED BY <1>2, <2>2, <2>3, <2>4
\* An invocation ends.
<1>3. ASSUME NEW c \in Clients, Exit(c), work[c] = Idle,
             aoeinterface_disconnect(c) \/ UNCHANGED kextVars
      PROVE  Sessions'
  <2>1. proc'[c].pc = "none" /\ \A d \in Clients \ {c} : proc'[d] = proc[d]
    BY <1>0, <1>3 DEF Exit, NoProc
  <2>2. /\ UNCHANGED <<loaded, prefs, work, size>>
        /\ mutex' = mutex \/ (mutex = c /\ mutex' = None)
    BY <1>3 DEF aoeinterface_disconnect, kextVars
  <2>3. mutex' # None => loaded
    BY <2>2 DEF Sessions
  <2> QED BY <1>0, <1>1, <1>3, <2>1, <2>2, <2>3
<1>4. ASSUME NEW c \in Clients, Start(c) \/ StartAtBoot(c)
      PROVE  Sessions'
  <2>1. UNCHANGED <<loaded, mutex, prefs, work, size>>
    BY <1>4 DEF Start, StartAtBoot, kextVars
  <2>2. proc[c].pc = "none"
    BY <1>4 DEF Start, StartAtBoot, Alone, Running
  <2>3. proc'[c].pc \in {"store", "session"}
    <3>1. CASE Start(c)
      <4>1. PICK o \in Options : proc'[c].pc = IF o.session = "none" THEN "store" ELSE "session"
        BY <1>0, <3>1 DEF Start
      <4> QED BY <4>1
    <3>2. CASE StartAtBoot(c)
      BY <1>0, <3>2 DEF StartAtBoot, NoProc
    <3> QED BY <1>4, <3>1, <3>2
  <2>4. \A d \in Clients \ {c} :
          /\ proc'[d].pc = proc[d].pc /\ proc'[d].opt = proc[d].opt
          /\ proc'[d].settings = proc[d].settings
    BY <1>0, <1>4 DEF Start, StartAtBoot, Processes
  <2>5. work[c] = Idle /\ (mutex # None => loaded)
    BY <2>2 DEF Sessions
  <2> QED BY <1>1, <2>1, <2>3, <2>4, <2>5
<1>5. ASSUME NEW c \in Clients, OpenSession(c)
      PROVE  Sessions'
  <2>1. proc[c].opt.session \in {"none", "short", "unmount"} /\ work[c] = Idle
    BY <1>0, <1>5, AoedAssumption DEF Processes, BootOptions, OpenSession, Sessions
  <2> QED BY <1>2, <1>5, <2>1 DEF OpenSession, Pcs
<1>6. ASSUME NEW c \in Clients,
             ShortSession(c) \/ Unmounted(c) \/ UnmountFailed(c) \/ UserDismissesAlert(c)
      PROVE  Sessions'
  <2>1. work[c] = Idle
    BY <1>6 DEF Sessions, ShortSession, Unmounted, UnmountFailed, UserDismissesAlert
  <2>2. CASE UnmountFailed(c)
    BY <1>2, <2>1, <2>2 DEF UnmountFailed, Pcs, Sessions
  <2>3. CASE ShortSession(c) \/ Unmounted(c) \/ UserDismissesAlert(c)
    BY <1>2, <2>1, <2>3 DEF ShortSession, Unmounted, UserDismissesAlert, Pcs
  <2> QED BY <1>6, <2>2, <2>3
<1>7. ASSUME NEW c \in Clients, StoreSettings(c)
      PROVE  Sessions'
  <2>1. work[c] = Idle /\ (mutex # None => loaded)
    BY <1>7 DEF Sessions, StoreSettings
  <2>2. UNCHANGED <<loaded, mutex, prefs, work, size>>
    BY <1>7 DEF StoreSettings, kextVars
  <2>3. /\ proc'[c].pc = "connect"
        /\ \A d \in Clients \ {c} : proc'[d] = proc[d]
    BY <1>0, <1>7 DEF StoreSettings, At, Processes
  <2> QED BY <1>1, <2>1, <2>2, <2>3
<1>8. ASSUME NEW c \in Clients, Connect(c) \/ NothingToSend(c)
      PROVE  Sessions'
  <2>1. work[c] = Idle
    BY <1>8 DEF Sessions, Connect, NothingToSend
  <2>2. \/ aoeinterface_connect(c) /\ At(c, "set") /\ proc[c].opt.send
        \/ Exit(c) /\ UNCHANGED kextVars
    BY <1>8 DEF Connect, NothingToSend
  <2> QED BY <1>2, <1>3, <2>1, <2>2 DEF Pcs
<1>9. ASSUME NEW c \in Clients, SetPreferences(c)
      PROVE  Sessions'
  <2>1. /\ UNCHANGED <<loaded, mutex, size>> /\ prefs' = proc[c].settings
        /\ \A d \in Clients \ {c} : proc'[d] = proc[d] /\ work'[d] = work[d]
        /\ proc'[c].pc = "setting" /\ proc'[c].opt = proc[c].opt
        /\ proc'[c].settings = proc[c].settings
    BY <1>0, <1>9 DEF SetPreferences, aoeinterface_set, At, Processes
  <2>2. work'[c].at = "ports"
    BY <1>0, <1>9 DEF SetPreferences, aoeinterface_set
  <2>3. work'[c] # Idle
    BY <2>2 DEF Idle
  <2>4. mutex = c /\ proc[c].opt.send
    BY <1>9 DEF Sessions, SetPreferences
  <2>5. \A d \in Clients \ {c} : proc[d].pc # "setting"
    BY <2>4 DEF Sessions
  <2> QED BY <2>1, <2>3, <2>4, <2>5 DEF Sessions
<1>10. ASSUME NEW c \in Clients, InKext(c)
       PROVE  Sessions'
  <2>1. /\ UNCHANGED <<loaded, mutex, prefs, proc>>
        /\ \A d \in Clients \ {c} : work'[d] = work[d]
        /\ work[c].at # "idle"
    BY <1>0, <1>10 DEF InKext, InCall, EnablePort, DisablePort, DetachFilter, SetTheRest, aoedVars
  <2>2. work[c] # Idle
    BY <2>1 DEF Idle
  <2>3. proc[c].pc = "setting" /\ mutex = c
    BY <2>2 DEF Sessions
  <2>4. \A d \in Clients \ {c} : proc[d].pc # "setting"
    BY <2>3 DEF Sessions
  <2>5. work'[c] = Idle => size' = prefs.size
    <3>1. CASE SetTheRest(c)
      BY <3>1 DEF SetTheRest
    <3>2. CASE EnablePort(c) \/ DisablePort(c) \/ DetachFilter(c)
      <4>1. work'[c].at # "idle"
        BY <1>0, <3>2 DEF EnablePort, DisablePort, DetachFilter, Calls
      <4> QED BY <4>1 DEF Idle
    <3> QED BY <1>10, <3>1, <3>2 DEF InKext, InCall
  <2> QED BY <2>1, <2>3, <2>4, <2>5 DEF Sessions
<1>11. ASSUME NEW c \in Clients, Disconnect(c) \/ Kill(c)
       PROVE  Sessions'
  BY <1>3, <1>11 DEF Disconnect, Kill
<1>12. CASE Reboot
  BY <1>12 DEF Reboot, Unload, Sessions, NoProc
<1>13. CASE LoadKext
  BY <1>13 DEF LoadKext, Load, aoedVars, Sessions
<1>14. CASE Cable
  BY <1>14 DEF Cable, LinkOff, LinkOn, Sessions
<1>15. ASSUME NEW p \in Ports, LinkEvent(p)
       PROVE  Sessions'
  BY <1>15 DEF LinkEvent, LinkHandled, LinkCounted, LinkStored, LinkAdjusted, aoedVars, Sessions
<1>16. CASE UNCHANGED vars
  BY <1>16 DEF vars, kextVars, aoedVars, Sessions
<1> QED
  BY <1>4, <1>5, <1>6, <1>7, <1>8, <1>9, <1>10, <1>11, <1>12, <1>13, <1>14, <1>15, <1>16
     DEF Next, Step


-----------------------------------------------------------------------------
(* What users asked for.                                                   *)

\* Before anything has run, users have asked for the default settings.
LEMMA InitUndisturbed == Init => Undisturbed
BY DEF Init, Undisturbed, Running, NoProc, recall_settings

\* No step breaks Undisturbed: an invocation starts from what is in the file and leaves
\* behind what it was asked for (main.cpp:152, 449-476).
LEMMA NextUndisturbed ==
  Shape /\ Alone /\ Sessions /\ Undisturbed /\ [Next]_vars => Undisturbed'
<1> SUFFICES ASSUME Shape, Alone, Sessions, Undisturbed, [Next]_vars, ~ disturbed'
             PROVE  Undisturbed'
  BY DEF Undisturbed
<1>0. /\ proc \in [Clients -> Processes] /\ file \in Files /\ asked \in Settings
      /\ Running \subseteq Clients
  BY DEF Shape, AoedShape, Running
<1>1. ASSUME ~ disturbed, NEW c \in Running
      PROVE  Running = {c} /\ ~ boot
  BY <1>1 DEF Undisturbed, Alone
\* The only invocation goes on.
<1>2. ASSUME ~ disturbed, NEW c \in Running, asked' = asked,
             proc'[c].pc # "none", proc'[c].opt = proc[c].opt,
             proc'[c].settings = proc[c].settings, proc'[c].alone = proc[c].alone,
             \A d \in Clients \ {c} : proc'[d] = proc[d],
             proc'[c].pc \in {"connect", "set", "setting"} => proc'[c].stored,
             UNCHANGED <<loaded, prefs, size>> \/ proc[c].opt.send
      PROVE  Undisturbed'
  <2>1. Running' = {c}
    BY <1>0, <1>1, <1>2 DEF Running
  <2> QED BY <1>2, <2>1 DEF Undisturbed
\* It ends.
<1>3. ASSUME NEW c \in Running, Running = {c}, ~ boot', Exit(c), loaded', file' = file,
             file = [ok |-> TRUE, settings |-> asked'], prefs' = asked', size' = asked'.size
      PROVE  Undisturbed'
  <2>1. Running' = {}
    BY <1>0, <1>3 DEF Running, Exit, NoProc
  <2>2. file'.ok /\ recall_settings(file') = asked'
    BY <1>3 DEF recall_settings
  <2> QED BY <1>3, <2>1, <2>2 DEF Undisturbed
\* Nothing that matters changes.
<1>4. ASSUME UNCHANGED <<file, proc, boot, asked, disturbed, prefs, size>>, loaded => loaded'
      PROVE  Undisturbed'
  BY <1>4 DEF Undisturbed, Running
<1>5. ASSUME NEW c \in Clients, Start(c)
      PROVE  Undisturbed'
  <2>1. ~ disturbed /\ Running = {} /\ ~ boot
    BY <1>5 DEF Start
  <2>2. recall_settings(file) = asked /\ loaded /\ prefs = asked /\ size = asked.size
    BY <2>1 DEF Undisturbed
  <2>3. PICK o \in Options :
          /\ proc' = [d \in Clients |->
               IF d = c THEN [pc |-> IF o.session = "none" THEN "store" ELSE "session",
                              opt |-> o, settings |-> Apply(recall_settings(file), o),
                              stored |-> FALSE, alone |-> Running = {}]
                        ELSE [proc[d] EXCEPT !.alone = FALSE]]
          /\ asked' = Apply(IF disturbed THEN recall_settings(file) ELSE asked, o)
    BY <1>5 DEF Start
  <2>4. asked' = Apply(asked, o)
    BY <2>1, <2>3
  <2>5. /\ proc'[c].pc \in {"store", "session"} /\ proc'[c].opt = o /\ proc'[c].alone
        /\ proc'[c].settings = Apply(asked, o)
    BY <2>1, <2>2, <2>3
  <2>6. \A d \in Clients \ {c} : proc'[d].pc = "none"
    BY <1>0, <2>1, <2>3 DEF Running, Processes
  <2>7. Running' = {c}
    BY <2>5, <2>6 DEF Running
  <2>8. ~ o.send => asked' = asked
    BY <1>0, <2>4, SettingsAreSettings
  <2>9. UNCHANGED <<loaded, prefs, size>>
    BY <1>5 DEF Start, kextVars
  <2> QED BY <2>2, <2>4, <2>5, <2>7, <2>8, <2>9 DEF Undisturbed
<1>6. ASSUME NEW c \in Clients, StartAtBoot(c)
      PROVE  Undisturbed'
  <2>1. ~ disturbed /\ Running = {} /\ asked' = asked
    BY <1>6 DEF StartAtBoot, Alone
  <2>2. /\ proc'[c].pc = "store" /\ proc'[c].opt = BootOptions /\ proc'[c].alone
        /\ proc'[c].settings = recall_settings(file)
        /\ \A d \in Clients \ {c} : proc'[d] = proc[d]
    BY <1>0, <1>6 DEF StartAtBoot, NoProc
  <2>3. Running' = {c}
    BY <2>1, <2>2 DEF Running
  <2>4. recall_settings(file) = asked
    BY <2>1 DEF Undisturbed
  <2> QED BY <2>1, <2>2, <2>3, <2>4, SettingsAreSettings DEF Undisturbed
<1>7. ASSUME NEW c \in Clients, NEW pc \in Pcs \ {"none"}, At(c, pc), asked' = asked, ~ disturbed,
             proc[c].pc # "none",
             pc \in {"connect", "set", "setting"} => proc[c].stored,
             UNCHANGED <<loaded, prefs, size>> \/ proc[c].opt.send
      PROVE  Undisturbed'
  <2>1. /\ proc'[c].pc = pc /\ proc'[c].opt = proc[c].opt /\ proc'[c].alone = proc[c].alone
        /\ proc'[c].settings = proc[c].settings /\ proc'[c].stored = proc[c].stored
        /\ \A d \in Clients \ {c} : proc'[d] = proc[d]
    BY <1>0, <1>7 DEF At, Processes
  <2>2. c \in Running
    BY <1>7 DEF Running
  <2> QED BY <1>2, <1>7, <2>1, <2>2
<1>8. ASSUME NEW c \in Clients, OpenSession(c)
      PROVE  Undisturbed'
  <2>1. proc[c].opt.session \in {"short", "unmount"} /\ ~ disturbed /\ asked' = asked
    BY <1>0, <1>8, AoedAssumption DEF Processes, BootOptions, OpenSession
  <2>2. UNCHANGED <<loaded, prefs, size>>
    BY <1>8 DEF OpenSession, aoeinterface_connect, kextVars
  <2> QED BY <1>7, <1>8, <2>1, <2>2 DEF OpenSession, Pcs
<1>9. ASSUME NEW c \in Clients,
             ShortSession(c) \/ Unmounted(c) \/ UnmountFailed(c) \/ UserDismissesAlert(c)
      PROVE  Undisturbed'
  <2>1. /\ UNCHANGED <<loaded, prefs, size>> /\ ~ disturbed /\ asked' = asked
        /\ proc[c].pc # "none" /\ (At(c, "store") \/ At(c, "alert"))
    BY <1>9 DEF ShortSession, Unmounted, UnmountFailed, UserDismissesAlert,
                aoeinterface_disconnect, kextVars
  <2> QED BY <1>7, <2>1 DEF Pcs
<1>10. ASSUME NEW c \in Clients, StoreSettings(c)
       PROVE  Undisturbed'
  <2>1. /\ proc' = [proc EXCEPT ![c].pc = "connect", ![c].stored = TRUE]
        /\ ~ disturbed /\ asked' = asked /\ c \in Running
    BY <1>10 DEF StoreSettings, Running
  <2>2. /\ proc'[c].pc = "connect" /\ proc'[c].opt = proc[c].opt
        /\ proc'[c].settings = proc[c].settings /\ proc'[c].alone = proc[c].alone
        /\ \A d \in Clients \ {c} : proc'[d] = proc[d]
    BY <1>0, <2>1 DEF Processes
  <2>3. proc'[c].stored
    BY <1>0, <2>1 DEF Processes
  <2>4. UNCHANGED <<loaded, prefs, size>>
    BY <1>10 DEF StoreSettings, kextVars
  <2> QED BY <1>2, <2>1, <2>2, <2>3, <2>4
<1>11. ASSUME NEW c \in Clients, Connect(c)
       PROVE  Undisturbed'
  <2>1. /\ At(c, "set") /\ aoeinterface_connect(c) /\ ~ disturbed /\ asked' = asked
        /\ proc[c].pc = "connect"
    BY <1>11 DEF Connect
  <2>2. proc[c].stored
    BY <2>1 DEF Undisturbed, Running
  <2>3. UNCHANGED <<loaded, prefs, size>>
    BY <2>1 DEF aoeinterface_connect
  <2> QED BY <1>7, <2>1, <2>2, <2>3 DEF Pcs
<1>12. ASSUME NEW c \in Clients, NothingToSend(c)
       PROVE  Undisturbed'
  <2>1. /\ proc[c].pc = "connect" /\ c \in Running /\ ~ proc[c].opt.send /\ ~ disturbed
        /\ Exit(c) /\ UNCHANGED <<file, boot, asked, loaded, prefs, size>>
    BY <1>12 DEF NothingToSend, Running, kextVars
  <2>2. /\ proc[c].alone /\ proc[c].settings = asked /\ proc[c].stored
        /\ loaded /\ prefs = asked /\ size = asked.size
    BY <2>1 DEF Undisturbed
  <2>3. file = [ok |-> TRUE, settings |-> asked] /\ Running = {c} /\ ~ boot
    BY <2>1, <2>2, <1>1 DEF Alone
  <2> QED BY <1>3, <2>1, <2>2, <2>3
<1>13. ASSUME NEW c \in Clients, SetPreferences(c)
       PROVE  Undisturbed'
  <2>1. At(c, "setting") /\ ~ disturbed /\ asked' = asked /\ proc[c].pc = "set"
    BY <1>13 DEF SetPreferences
  <2>2. proc[c].stored /\ proc[c].opt.send
    BY <2>1 DEF Undisturbed, Running, Sessions
  <2> QED BY <1>7, <2>1, <2>2 DEF Pcs
<1>14. ASSUME NEW c \in Clients, Disconnect(c)
       PROVE  Undisturbed'
  <2>1. /\ proc[c].pc = "setting" /\ c \in Running /\ work[c] = Idle /\ Exit(c)
        /\ UNCHANGED <<file, boot, loaded, prefs, size>>
    BY <1>14 DEF Disconnect, aoeinterface_disconnect, Running
  <2>2. mutex = c /\ prefs = proc[c].settings /\ size = prefs.size
    BY <2>1 DEF Sessions
  <2>3. loaded
    BY <2>2, AdminAssumption DEF Sessions
  <2>4. proc[c].alone /\ proc[c].stored
    BY <1>14, <2>1 DEF Disconnect, Undisturbed
  <2>5. asked' = proc[c].settings
    BY <1>14, <2>1, <2>4 DEF Disconnect, Undisturbed
  <2>6. file = [ok |-> TRUE, settings |-> proc[c].settings] /\ Running = {c} /\ ~ boot
    BY <2>1, <2>4 DEF Alone
  <2> QED BY <1>3, <2>1, <2>2, <2>3, <2>5, <2>6
<1>15. ASSUME NEW c \in Clients, InKext(c)
       PROVE  Undisturbed'
  <2>1. UNCHANGED <<loaded, prefs, file, proc, boot, asked, disturbed>> /\ work[c].at # "idle"
    BY <1>15 DEF InKext, InCall, EnablePort, DisablePort, DetachFilter, SetTheRest, aoedVars
  <2>2. work[c] # Idle
    BY <2>1 DEF Idle
  <2>3. proc[c].pc = "setting" /\ proc[c].opt.send /\ c \in Running
    BY <2>2 DEF Sessions, Running
  <2>4. proc[c].stored
    BY <2>1, <2>3 DEF Undisturbed
  <2> QED BY <1>2, <2>1, <2>3, <2>4
<1>16. ASSUME NEW c \in Clients, Kill(c)
       PROVE  Undisturbed'
  BY <1>16 DEF Kill, Disturb
<1>17. CASE Reboot
  BY <1>17 DEF Reboot, Disturb
<1>18. CASE LoadKext
  BY <1>4, <1>18 DEF LoadKext, Load, aoedVars
<1>19. CASE Cable
  BY <1>4, <1>19 DEF Cable, LinkOff, LinkOn
<1>20. ASSUME NEW p \in Ports, LinkEvent(p)
       PROVE  Undisturbed'
  BY <1>4, <1>20 DEF LinkEvent, LinkHandled, LinkCounted, LinkStored, LinkAdjusted, aoedVars
<1>21. CASE UNCHANGED vars
  BY <1>4, <1>21 DEF vars, kextVars, aoedVars
<1> QED
  BY <1>5, <1>6, <1>8, <1>9, <1>10, <1>11, <1>12, <1>13, <1>14, <1>15, <1>16, <1>17, <1>18,
     <1>19, <1>20, <1>21 DEF Next, Step

\* What the invocations and the mutex come to, in every state.
LEMMA InvocationsHold == Spec => [](Shape /\ Alone /\ Sessions /\ Undisturbed)
<1>1. Init => Alone /\ Sessions /\ Undisturbed
  BY InitAlone, InitSessions, InitUndisturbed
<1>2. Shape /\ Alone /\ Sessions /\ Undisturbed /\ [Next]_vars
        => Alone' /\ Sessions' /\ Undisturbed'
  BY NextAlone, NextSessions, NextUndisturbed
<1> QED
  BY <1>1, <1>2, TypesHold, PTL DEF Spec

\* SettingsKept: nothing a user has asked for is lost, from the file or from the driver,
\* by invocations that come one after the other, however many there are
\* (main.cpp:152, 449-476).
THEOREM SettingsAreKept == Spec => []SettingsKept
<1>1. Shape /\ Undisturbed => SettingsKept
  <2> SUFFICES ASSUME Shape, Undisturbed, Running = {}, ~ boot, ~ disturbed
               PROVE  /\ file = [ok |-> TRUE, settings |-> asked]
                      /\ prefs = asked /\ size = asked.size
    BY DEF SettingsKept
  <2>1. file \in Files /\ recall_settings(file) = asked /\ file.ok
    BY DEF Shape, AoedShape, Undisturbed
  <2>2. file.settings = asked /\ file.ok = TRUE
    BY <2>1 DEF recall_settings, Files
  <2> QED BY <2>1, <2>2 DEF Undisturbed, Files
<1> QED
  BY <1>1, InvocationsHold, PTL


-----------------------------------------------------------------------------
(* Ports and filters.                                                      *)

\* What users ask for names each port once.  "aoed -e 0,0" does not (main.cpp:263-275
\* does not look for it); the driver would then attach two filters to a port and lose
\* track of one of them.
ListedOnce ==
  /\ Distinct(AllPorts)
  /\ \A o \in Options : Distinct(o.to.ports)

\* A call takes the ports one after the other (AoEUserInterface.c:290-313).
LEMMA TailProperties ==
  ASSUME NEW S, NEW s \in Seq(S), s # <<>>
  PROVE  /\ Head(s) \in S /\ Head(s) \in Elements(s) /\ Head(s) = s[1]
         /\ Tail(s) \in Seq(S)
         /\ \A i \in DOMAIN Tail(s) : /\ i + 1 \in DOMAIN s /\ i + 1 # 1
                                      /\ Tail(s)[i] = s[i + 1]
         /\ Distinct(s) => /\ Distinct(Tail(s))
                           /\ Elements(Tail(s)) = Elements(s) \ {Head(s)}
<1>1. /\ Head(s) = s[1] /\ Head(s) \in S /\ Tail(s) \in Seq(S)
      /\ Len(Tail(s)) = Len(s) - 1
      /\ \A i \in 1..Len(Tail(s)) : Tail(s)[i] = s[i + 1]
  BY HeadTailProperties
<1>2. /\ Len(s) \in Nat \ {0} /\ DOMAIN s = 1..Len(s)
      /\ DOMAIN Tail(s) = 1..(Len(s) - 1)
  BY <1>1, LenProperties, EmptySeq
<1>3. 1 \in DOMAIN s
  BY <1>2
<1>4. \A i \in DOMAIN Tail(s) : i + 1 \in DOMAIN s /\ i + 1 # 1 /\ Tail(s)[i] = s[i + 1]
  BY <1>1, <1>2
<1>5. ASSUME Distinct(s)
      PROVE  Distinct(Tail(s)) /\ Elements(Tail(s)) = Elements(s) \ {Head(s)}
  <2>1. Distinct(Tail(s))
    <3> SUFFICES ASSUME NEW i \in DOMAIN Tail(s), NEW j \in DOMAIN Tail(s),
                        Tail(s)[i] = Tail(s)[j]
                 PROVE  i = j
      BY DEF Distinct
    <3>1. i + 1 = j + 1
      BY <1>4, <1>5 DEF Distinct
    <3> QED BY <3>1, <1>2
  <2>2. \A j \in DOMAIN s : j # 1 => j - 1 \in DOMAIN Tail(s) /\ (j - 1) + 1 = j
    BY <1>2
  <2>3. Elements(Tail(s)) \subseteq Elements(s) \ {Head(s)}
    BY <1>1, <1>3, <1>4, <1>5 DEF Elements, Distinct
  <2>4. ASSUME NEW x \in Elements(s) \ {Head(s)}
        PROVE  x \in Elements(Tail(s))
    <3>1. PICK j \in DOMAIN s : x = s[j] /\ j # 1
      BY <1>1 DEF Elements
    <3>2. j - 1 \in DOMAIN Tail(s) /\ Tail(s)[j - 1] = x
      BY <2>2, <3>1, <1>4
    <3> QED BY <3>2, Zenon DEF Elements
  <2> QED BY <2>1, <2>3, <2>4
<1> QED
  BY <1>1, <1>3, <1>4, <1>5, Zenon DEF Elements

\* In a session there is no other call than that of the program that has it.
LEMMA OneCall ==
  ASSUME Shape, Sessions, NEW c \in Clients, proc[c].pc \in {"set", "setting"}
  PROVE  /\ \A d \in Clients \ {c} : work[d] = Idle
         /\ Pending = Elements(work[c].add) /\ Leaving = Elements(work[c].remove)
<1>1. \A d \in Clients \ {c} : work[d] = Idle
  BY DEF Sessions
<1>2. \A d \in Clients \ {c} : Elements(work[d].add) = {} /\ Elements(work[d].remove) = {}
  BY <1>1, IdleShape
<1> QED
  BY <1>1, <1>2 DEF Pending, Leaving

\* A client that is in a call has the session.
LEMMA InCallSession ==
  ASSUME Shape, Sessions, NEW c \in Clients, work[c].at # "idle"
  PROVE  proc[c].pc = "setting"
BY DEF Sessions, Idle

\* The lists of ports name each port once from the beginning.
LEMMA InitLists == ListedOnce /\ Init => Lists
<1> SUFFICES ASSUME ListedOnce, Init PROVE Lists
  OBVIOUS
<1>1. Distinct(<<>>)
  BY EmptySeq DEF Distinct
<1>2. /\ prefs.ports = <<>> /\ file.settings.ports = AllPorts
      /\ \A c \in Clients : proc[c].settings.ports = <<>> /\ work[c] = Idle
  BY DEF Init, KextInit, NoPorts, DefaultSettings, NoProc
<1>3. Idle.add = <<>> /\ Idle.remove = <<>> /\ Elements(<<>>) = {}
  BY EmptySeq DEF Idle, Elements
<1> QED
  BY <1>1, <1>2, <1>3 DEF Lists, ListedOnce

\* The settings invocations hold and store name each port once.
LEMMA NextSettingsLists ==
  ASSUME ListedOnce, Shape, Lists, [Next]_vars
  PROVE  /\ Distinct(file'.settings.ports)
         /\ \A c \in Clients : Distinct(proc'[c].settings.ports)
<1>0. /\ proc \in [Clients -> Processes] /\ file \in Files
      /\ Distinct(NoProc.settings.ports)
  BY EmptySeq DEF Shape, AoedShape, NoProc, NoPorts, Distinct
<1>1. Distinct(recall_settings(file).ports)
  BY DEF Lists, ListedOnce, recall_settings, DefaultSettings
<1>2. ASSUME NEW c \in Clients, Start(c)
      PROVE  /\ Distinct(file'.settings.ports)
             /\ \A d \in Clients : Distinct(proc'[d].settings.ports)
  <2>1. PICK o \in Options :
          proc' = [d \in Clients |->
               IF d = c THEN [pc |-> IF o.session = "none" THEN "store" ELSE "session",
                              opt |-> o, settings |-> Apply(recall_settings(file), o),
                              stored |-> FALSE, alone |-> Running = {}]
                        ELSE [proc[d] EXCEPT !.alone = FALSE]]
    BY <1>2 DEF Start
  <2>2. \A d \in Clients : IF d = c THEN proc'[d].settings = Apply(recall_settings(file), o)
                           ELSE proc'[d].settings = proc[d].settings
    BY <1>0, <2>1 DEF Processes
  <2>3. Distinct(Apply(recall_settings(file), o).ports)
    BY <1>1 DEF Apply, ListedOnce
  <2> QED BY <1>2, <2>2, <2>3 DEF Start, Lists
<1>3. ASSUME NEW c \in Clients, StartAtBoot(c)
      PROVE  /\ Distinct(file'.settings.ports)
             /\ \A d \in Clients : Distinct(proc'[d].settings.ports)
  <2>1. \A d \in Clients : IF d = c THEN proc'[d].settings = recall_settings(file)
                           ELSE proc'[d] = proc[d]
    BY <1>0, <1>3 DEF StartAtBoot, NoProc
  <2> QED BY <1>1, <1>3, <2>1 DEF StartAtBoot, Lists
<1>4. ASSUME NEW c \in Clients, Moves(c)
      PROVE  /\ Distinct(file'.settings.ports)
             /\ \A d \in Clients : Distinct(proc'[d].settings.ports)
  <2>1. \A d \in Clients : \/ proc'[d].settings = proc[d].settings
                           \/ proc'[d].settings = NoProc.settings
    BY <1>0, <1>4 DEF Moves, At, Exit, StoreSettings, Processes
  <2>2. file' = file \/ file' = [ok |-> TRUE, settings |-> proc[c].settings]
    BY <1>4 DEF Moves, StoreSettings
  <2> QED BY <1>0, <2>1, <2>2 DEF Lists
<1>5. CASE Reboot
  BY <1>0, <1>5 DEF Reboot, Lists
<1> QED
  BY NextMoves, <1>2, <1>3, <1>4, <1>5 DEF Lists

\* What a call has left of the difference between the old and the new preferences
\* (AoEUserInterface.c:289-313), and what it has found out about each port.
LEMMA NextLists ==
  ASSUME ListedOnce, Shape, Sessions, Lists, [Next]_vars
  PROVE  Lists'
<1>0. KextShape /\ proc \in [Clients -> Processes]
  BY DEF Shape, AoedShape
<1> DEFINE Goal == /\ Distinct(prefs'.ports)
                   /\ \A d \in Clients :
                        /\ Distinct(work'[d].add) /\ Distinct(work'[d].remove)
                        /\ Elements(work'[d].add) \subseteq PortsOf(prefs')
                        /\ Elements(work'[d].remove) \intersect PortsOf(prefs') = {}
<1>1. ASSUME UNCHANGED <<prefs, work>>
      PROVE  Goal
  BY <1>1 DEF Lists
<1>2. /\ Distinct(Idle.add) /\ Distinct(Idle.remove) /\ Distinct(NoPorts.ports)
  BY EmptySeq DEF Idle, NoPorts, Distinct
<1>3. ASSUME NEW c \in Clients, proc[c].pc = "set", aoeinterface_set(c, proc[c].settings)
      PROVE  Goal
  <2> DEFINE s == proc[c].settings
             add == without(s.ports, PortsOf(prefs))
             remove == without(prefs.ports, PortsOf(s))
  <2>1. /\ s.ports \in Seq(Ports) /\ prefs.ports \in Seq(Ports)
        /\ Distinct(s.ports) /\ Distinct(prefs.ports)
        /\ Elements(s.ports) = PortsOf(s) /\ Elements(prefs.ports) = PortsOf(prefs)
    BY <1>0 DEF KextShape, Processes, Settings, Lists, Elements, PortsOf
  <2>2. /\ Elements(add) = PortsOf(s) \ PortsOf(prefs) /\ Distinct(add)
        /\ Elements(remove) = PortsOf(prefs) \ PortsOf(s) /\ Distinct(remove)
    BY <2>1, WithoutProperties
  <2>3. /\ prefs' = s /\ work'[c].add = add /\ work'[c].remove = remove
        /\ \A d \in Clients \ {c} : work'[d] = Idle
    BY <1>0, <1>3, OneCall DEF aoeinterface_set, KextShape
  <2> HIDE DEF s, add, remove
  <2> QED BY <1>2, <2>1, <2>2, <2>3, IdleShape
<1>4. ASSUME NEW c \in Clients, EnablePort(c)
      PROVE  Goal
  <2>1. work[c].add \in Seq(Ports) /\ work[c].add # <<>>
    BY <1>0, <1>4 DEF KextShape, Calls, EnablePort
  <2>2. /\ Distinct(Tail(work[c].add))
        /\ Elements(Tail(work[c].add)) \subseteq Elements(work[c].add)
    BY <2>1, TailProperties DEF Lists
  <2>3. /\ prefs' = prefs /\ work'[c].add = Tail(work[c].add)
        /\ work'[c].remove = work[c].remove
        /\ \A d \in Clients \ {c} : work'[d] = work[d]
    BY <1>0, <1>4 DEF EnablePort, KextShape, Calls
  <2> QED BY <2>2, <2>3 DEF Lists
<1>5. ASSUME NEW c \in Clients, DisablePort(c)
      PROVE  Goal
  <2>1. /\ prefs' = prefs /\ work'[c].add = work[c].add /\ work'[c].remove = work[c].remove
        /\ \A d \in Clients \ {c} : work'[d] = work[d]
    BY <1>0, <1>5 DEF DisablePort, KextShape, Calls
  <2> QED BY <2>1 DEF Lists
<1>6. ASSUME NEW c \in Clients, DetachFilter(c)
      PROVE  Goal
  <2>1. work[c].remove \in Seq(Ports) /\ work[c].remove # <<>>
    BY <1>0, <1>6 DEF KextShape, Calls, DetachFilter
  <2>2. /\ Distinct(Tail(work[c].remove))
        /\ Elements(Tail(work[c].remove)) \subseteq Elements(work[c].remove)
    BY <2>1, TailProperties DEF Lists
  <2>3. /\ prefs' = prefs /\ work'[c].add = work[c].add
        /\ work'[c].remove = Tail(work[c].remove)
        /\ \A d \in Clients \ {c} : work'[d] = work[d]
    BY <1>0, <1>6 DEF DetachFilter, KextShape, Calls
  <2> QED BY <2>2, <2>3 DEF Lists
<1>7. ASSUME NEW c \in Clients, SetTheRest(c)
      PROVE  Goal
  <2>1. /\ prefs' = prefs /\ work'[c] = Idle
        /\ \A d \in Clients \ {c} : work'[d] = work[d]
    BY <1>0, <1>7 DEF SetTheRest, KextShape
  <2> QED BY <1>2, <2>1, IdleShape DEF Lists
<1>8. ASSUME Unload
      PROVE  Goal
  <2>1. prefs' = NoPorts /\ \A d \in Clients : work'[d] = Idle
    BY <1>8 DEF Unload
  <2>2. Distinct(prefs'.ports)
    BY <1>2, <2>1
  <2>3. \A d \in Clients : /\ Distinct(work'[d].add) /\ Distinct(work'[d].remove)
                           /\ Elements(work'[d].add) = {} /\ Elements(work'[d].remove) = {}
    BY <1>2, <2>1, IdleShape
  <2> QED BY <2>2, <2>3
<1>9. ASSUME UNCHANGED kextVars
      PROVE  Goal
  BY <1>1, <1>9 DEF kextVars
<1>10. ASSUME NEW c \in Clients, aoeinterface_connect(c) \/ aoeinterface_disconnect(c)
       PROVE  Goal
  BY <1>1, <1>10 DEF aoeinterface_connect, aoeinterface_disconnect
<1>11. ASSUME NEW p \in Ports,
              LinkOff(p) \/ LinkOn(p) \/ LinkCounted(p) \/ LinkStored(p) \/ LinkAdjusted(p)
       PROVE  Goal
  BY <1>1, <1>11 DEF LinkOff, LinkOn, LinkCounted, LinkStored, LinkAdjusted
<1>12. ASSUME Load
       PROVE  Goal
  BY <1>1, <1>12 DEF Load
<1>13. Goal
  BY NextKextStep, <1>3, <1>4, <1>5, <1>6, <1>7, <1>8, <1>9, <1>10, <1>11, <1>12 DEF KextStep
<1> QED
  BY <1>13, NextSettingsLists DEF Lists


\* What a call that takes the next port leaves to do.
LEMMA CallProgress ==
  ASSUME Shape, Sessions, Lists, NEW c \in Clients
  PROVE  /\ EnablePort(c) =>
              /\ Pending = Elements(work[c].add) /\ Leaving = Elements(work[c].remove)
              /\ Head(work[c].add) \in Ports /\ Head(work[c].add) \in Pending
              /\ Pending' = Pending \ {Head(work[c].add)} /\ Leaving' = Leaving
              /\ work'[c].at = "ports" /\ \A d \in Clients \ {c} : work'[d] = Idle
              /\ \A d \in Clients : work'[d].remove = work[d].remove
         /\ DisablePort(c) =>
              /\ Head(work[c].remove) \in Ports /\ Head(work[c].remove) \in Leaving
              /\ Pending' = Pending /\ Leaving' = Leaving
              /\ \A d \in Clients : work'[d].remove = work[d].remove
              /\ work'[c].at = "detach" /\ \A d \in Clients \ {c} : work'[d] = Idle
         /\ DetachFilter(c) =>
              /\ Head(work[c].remove) \in Ports /\ Head(work[c].remove) \in Leaving
              /\ Pending' = Pending /\ Leaving' = Leaving \ {Head(work[c].remove)}
              /\ work'[c].at = "ports" /\ work'[c].remove = Tail(work[c].remove)
              /\ \A d \in Clients \ {c} : work'[d] = Idle
         /\ SetTheRest(c) =>
              /\ Pending' = Pending /\ Leaving' = Leaving /\ \A d \in Clients : work'[d] = Idle
<1>0. KextShape /\ work[c].add \in Seq(Ports) /\ work[c].remove \in Seq(Ports)
  BY DEF Shape, KextShape, Calls
<1>1. ASSUME work[c].at # "idle"
      PROVE  /\ \A d \in Clients \ {c} : work[d] = Idle
             /\ Pending = Elements(work[c].add) /\ Leaving = Elements(work[c].remove)
  BY <1>1, InCallSession, OneCall
<1>2. ASSUME \A d \in Clients \ {c} : work'[d] = Idle
      PROVE  Pending' = Elements(work'[c].add) /\ Leaving' = Elements(work'[c].remove)
  <2>1. \A d \in Clients \ {c} : Elements(work'[d].add) = {} /\ Elements(work'[d].remove) = {}
    BY <1>2, IdleShape
  <2> QED BY <2>1 DEF Pending, Leaving
<1>3. ASSUME EnablePort(c)
      PROVE  /\ Pending = Elements(work[c].add) /\ Leaving = Elements(work[c].remove)
             /\ Head(work[c].add) \in Ports /\ Head(work[c].add) \in Pending
             /\ Pending' = Pending \ {Head(work[c].add)} /\ Leaving' = Leaving
             /\ work'[c].at = "ports" /\ \A d \in Clients \ {c} : work'[d] = Idle
             /\ \A d \in Clients : work'[d].remove = work[d].remove
  <2>1. work[c].at # "idle" /\ work[c].add # <<>>
    BY <1>3 DEF EnablePort
  <2>2. /\ work'[c].add = Tail(work[c].add) /\ work'[c].remove = work[c].remove
        /\ work'[c].at = "ports" /\ \A d \in Clients \ {c} : work'[d] = work[d]
    BY <1>0, <1>3 DEF EnablePort, KextShape, Calls
  <2>3. /\ Head(work[c].add) \in Ports /\ Head(work[c].add) \in Elements(work[c].add)
        /\ Elements(Tail(work[c].add)) = Elements(work[c].add) \ {Head(work[c].add)}
    BY <1>0, <2>1, TailProperties DEF Lists
  <2> QED BY <1>1, <1>2, <2>1, <2>2, <2>3
<1>4. ASSUME DisablePort(c)
      PROVE  /\ Head(work[c].remove) \in Ports /\ Head(work[c].remove) \in Leaving
             /\ Pending' = Pending /\ Leaving' = Leaving
             /\ \A d \in Clients : work'[d].remove = work[d].remove
             /\ work'[c].at = "detach" /\ \A d \in Clients \ {c} : work'[d] = Idle
  <2>1. work[c].at # "idle" /\ work[c].remove # <<>>
    BY <1>4 DEF DisablePort
  <2>2. /\ work'[c].add = work[c].add /\ work'[c].remove = work[c].remove
        /\ work'[c].at = "detach" /\ \A d \in Clients \ {c} : work'[d] = work[d]
    BY <1>0, <1>4 DEF DisablePort, KextShape, Calls
  <2>3. Head(work[c].remove) \in Ports /\ Head(work[c].remove) \in Elements(work[c].remove)
    BY <1>0, <2>1, TailProperties
  <2> QED BY <1>1, <1>2, <2>1, <2>2, <2>3
<1>5. ASSUME DetachFilter(c)
      PROVE  /\ Head(work[c].remove) \in Ports /\ Head(work[c].remove) \in Leaving
             /\ Pending' = Pending /\ Leaving' = Leaving \ {Head(work[c].remove)}
             /\ work'[c].at = "ports" /\ work'[c].remove = Tail(work[c].remove)
             /\ \A d \in Clients \ {c} : work'[d] = Idle
  <2>1. work[c].at # "idle" /\ work[c].remove # <<>>
    BY <1>0, <1>5 DEF DetachFilter, KextShape, Calls
  <2>2. /\ work'[c].add = work[c].add /\ work'[c].remove = Tail(work[c].remove)
        /\ work'[c].at = "ports" /\ \A d \in Clients \ {c} : work'[d] = work[d]
    BY <1>0, <1>5 DEF DetachFilter, KextShape, Calls
  <2>3. /\ Head(work[c].remove) \in Ports /\ Head(work[c].remove) \in Elements(work[c].remove)
        /\ Elements(Tail(work[c].remove)) = Elements(work[c].remove) \ {Head(work[c].remove)}
    BY <1>0, <2>1, TailProperties DEF Lists
  <2> QED BY <1>1, <1>2, <2>1, <2>2, <2>3
<1>6. ASSUME SetTheRest(c)
      PROVE  /\ Pending' = Pending /\ Leaving' = Leaving
             /\ \A d \in Clients : work'[d] = Idle
  <2>1. work[c].at # "idle" /\ work[c].add = <<>> /\ work[c].remove = <<>>
    BY <1>6 DEF SetTheRest
  <2>2. work'[c] = Idle /\ \A d \in Clients \ {c} : work'[d] = work[d]
    BY <1>0, <1>6 DEF SetTheRest, KextShape
  <2>3. Elements(work[c].add) = {} /\ Elements(work[c].remove) = {}
    BY <2>1, EmptySeq DEF Elements
  <2> QED BY <1>1, <1>2, <2>1, <2>2, <2>3, IdleShape
<1> QED BY <1>3, <1>4, <1>5, <1>6

\* What the next call has to do, when a program sends its preferences.
LEMMA CallBegins ==
  ASSUME Shape, Sessions, Lists, NEW c \in Clients, proc[c].pc = "set",
         aoeinterface_set(c, proc[c].settings)
  PROVE  /\ Pending = {} /\ Leaving = {}
         /\ PortsOf(prefs') \ Pending' = PortsOf(prefs) \intersect PortsOf(prefs')
         /\ Leaving' = PortsOf(prefs) \ PortsOf(prefs')
         /\ work'[c].at = "ports" /\ \A d \in Clients \ {c} : work'[d] = Idle
         /\ Leaving' = Elements(work'[c].remove)
<1>0. KextShape /\ proc \in [Clients -> Processes]
  BY DEF Shape, AoedShape
<1> DEFINE s == proc[c].settings
           add == without(s.ports, PortsOf(prefs))
           remove == without(prefs.ports, PortsOf(s))
<1>1. /\ s.ports \in Seq(Ports) /\ prefs.ports \in Seq(Ports)
      /\ Elements(s.ports) = PortsOf(s) /\ Elements(prefs.ports) = PortsOf(prefs)
  BY <1>0 DEF KextShape, Processes, Settings, Elements, PortsOf
<1>2. /\ Elements(add) = PortsOf(s) \ PortsOf(prefs)
      /\ Elements(remove) = PortsOf(prefs) \ PortsOf(s)
  BY <1>1, WithoutProperties
<1>3. /\ prefs' = s /\ work'[c].add = add /\ work'[c].remove = remove /\ work'[c].at = "ports"
      /\ \A d \in Clients \ {c} : work'[d] = Idle
  BY <1>0, OneCall DEF aoeinterface_set, KextShape
<1>4. work[c] = Idle
  BY DEF Sessions
<1> HIDE DEF s, add, remove
<1>5. Pending = {} /\ Leaving = {}
  BY <1>4, OneCall, IdleShape
<1>6. Pending' = Elements(add) /\ Leaving' = Elements(remove)
  <2>1. \A d \in Clients \ {c} : Elements(work'[d].add) = {} /\ Elements(work'[d].remove) = {}
    BY <1>3, IdleShape
  <2> QED BY <1>3, <2>1 DEF Pending, Leaving
<1> QED BY <1>2, <1>3, <1>5, <1>6

\* Nothing is pending before anything has run.
LEMMA InitDifferences == Init => Differences /\ Counts
<1> SUFFICES ASSUME Init PROVE Differences /\ Counts
  OBVIOUS
<1>1. Pending = {} /\ Leaving = {} /\ \A c \in Clients : work[c] = Idle
  BY IdleShape DEF Init, KextInit, Pending, Leaving
<1>2. PortsOf(prefs) = {}
  BY EmptySeq DEF Init, KextInit, NoPorts, PortsOf
<1>3. \A p \in Ports : filters[p] = 0 /\ ~ enabled[p] /\ rejoin[p].at = "no"
  BY DEF Init, KextInit, Settled
<1>4. Differences
  BY <1>1, <1>2, <1>3, IdleShape DEF Differences
<1>5. Used = {} /\ Rejoining = {}
  BY <1>3 DEF Used, Rejoining
<1>6. Counts
  BY <1>1, <1>2, <1>5, EmptySeq, FS_EmptySet DEF Counts, Init, KextInit, Idle
<1> QED BY <1>4, <1>6

\* The operations keep filters and ports in step with what the call has left to do
\* (AoEService.cpp:378-495, 507-542, AoEtherFilter.c:610-631).
LEMMA NextDifferences ==
  ASSUME Shape, Sessions, Lists, Differences, KextStep
  PROVE  Differences'
<1>0. KextShape
  BY DEF Shape
<1>1. ASSUME UNCHANGED <<prefs, work, filters, link, enabled, late>>
      PROVE  Differences'
  BY <1>1 DEF Differences, Pending, Leaving
<1>2. ASSUME NEW c \in Clients, proc[c].pc = "set", aoeinterface_set(c, proc[c].settings)
      PROVE  Differences'
  <2>1. UNCHANGED <<filters, link, enabled, late>>
    BY <1>2 DEF aoeinterface_set, portVars, cableVars
  <2>2. \A d \in Clients : work'[d].at # "detach"
    BY <1>2, CallBegins, IdleShape
  <2> QED BY <1>2, <2>1, <2>2, CallBegins DEF Differences
<1>3. ASSUME NEW c \in Clients, EnablePort(c)
      PROVE  Differences'
  <2>1. PICK h \in Ports : h = Head(work[c].add)
    BY <1>3, CallProgress
  <2>2. /\ h \in Pending /\ Pending' = Pending \ {h} /\ Leaving' = Leaving
        /\ \A d \in Clients : work'[d].at # "detach"
    BY <1>3, <2>1, CallProgress, IdleShape
  <2>3. h \in PortsOf(prefs) /\ h \notin Leaving
    BY <2>2, <1>3, CallProgress DEF Lists
  <2>4. /\ UNCHANGED <<prefs, link, late>>
        /\ \A p \in Ports : /\ filters'[p] = IF p = h THEN filters[p] + 1 ELSE filters[p]
                            /\ enabled'[p] = IF p = h THEN TRUE ELSE enabled[p]
    BY <1>0, <1>3, <2>1 DEF EnablePort, enable_interface, KextShape
  <2>5. filters[h] = 0
    BY <2>2, <2>3 DEF Differences
  <2>6. \A p \in Ports :
          filters'[p] = IF p \in (PortsOf(prefs') \ Pending') \union Leaving' THEN 1 ELSE 0
    <3>1. filters'[h] = 1
      <4>1. filters'[h] = filters[h] + 1
        BY <2>4
      <4> QED BY <4>1, <2>5
    <3>2. h \in PortsOf(prefs') \ Pending'
      BY <2>2, <2>3, <2>4
    <3>3. \A p \in Ports : p # h =>
            filters'[p] = IF p \in (PortsOf(prefs') \ Pending') \union Leaving' THEN 1 ELSE 0
      BY <2>2, <2>4 DEF Differences
    <3> QED BY <3>1, <3>2, <3>3
  <2>7. \A p \in Ports : /\ p \in PortsOf(prefs') \ Pending' /\ link'[p] => enabled'[p]
                         /\ enabled'[p] /\ p \notin late' => p \in PortsOf(prefs') \union Leaving'
    BY <2>2, <2>3, <2>4 DEF Differences
  <2> QED BY <2>2, <2>6, <2>7 DEF Differences
<1>4. ASSUME NEW c \in Clients, DisablePort(c)
      PROVE  Differences'
  <2>1. PICK h \in Ports : h = Head(work[c].remove)
    BY <1>4, CallProgress
  <2>2. /\ h \in Leaving /\ Pending' = Pending /\ Leaving' = Leaving
        /\ work'[c].remove = work[c].remove /\ \A d \in Clients \ {c} : work'[d].at # "detach"
    BY <1>4, <2>1, CallProgress, IdleShape
  <2>3. h \notin PortsOf(prefs)
    BY <2>2 DEF Lists, Leaving
  <2>4. /\ UNCHANGED <<prefs, link, late, filters>>
        /\ \A p \in Ports : enabled'[p] = IF p = h THEN FALSE ELSE enabled[p]
    BY <1>0, <1>4, <2>1 DEF DisablePort, interface_disconnected, cableVars, KextShape
  <2> QED BY <2>1, <2>2, <2>3, <2>4 DEF Differences
<1>5. ASSUME NEW c \in Clients, DetachFilter(c)
      PROVE  Differences'
  <2>1. PICK h \in Ports : h = Head(work[c].remove)
    BY <1>5, CallProgress
  <2>2. /\ h \in Leaving /\ Pending' = Pending /\ Leaving' = Leaving \ {h}
        /\ \A d \in Clients : work'[d].at # "detach"
    BY <1>5, <2>1, CallProgress, IdleShape
  <2>3. h \notin PortsOf(prefs) /\ (~ enabled[h] \/ h \in late)
    BY <1>5, <2>1, <2>2 DEF Lists, Leaving, Differences, DetachFilter
  <2>4. /\ UNCHANGED <<prefs, link, late, enabled>>
        /\ \A p \in Ports : filters'[p] = IF p = h THEN filters[p] - 1 ELSE filters[p]
    BY <1>0, <1>5, <2>1 DEF DetachFilter, cableVars, KextShape
  <2>5. filters[h] = 1
    BY <2>2 DEF Differences
  <2>6. \A p \in Ports :
          filters'[p] = IF p \in (PortsOf(prefs') \ Pending') \union Leaving' THEN 1 ELSE 0
    <3>1. filters'[h] = 0 /\ h \notin (PortsOf(prefs') \ Pending') \union Leaving'
      BY <2>2, <2>3, <2>4, <2>5
    <3>2. \A p \in Ports : p # h =>
            filters'[p] = IF p \in (PortsOf(prefs') \ Pending') \union Leaving' THEN 1 ELSE 0
      BY <2>2, <2>4 DEF Differences
    <3> QED BY <3>1, <3>2
  <2>7. \A p \in Ports : /\ p \in PortsOf(prefs') \ Pending' /\ link'[p] => enabled'[p]
                         /\ enabled'[p] /\ p \notin late' => p \in PortsOf(prefs') \union Leaving'
    BY <2>2, <2>3, <2>4 DEF Differences
  <2> QED BY <2>2, <2>6, <2>7 DEF Differences
<1>6. ASSUME NEW c \in Clients, SetTheRest(c)
      PROVE  Differences'
  <2>1. /\ Pending' = Pending /\ Leaving' = Leaving
        /\ \A d \in Clients : work'[d].at # "detach"
    BY <1>6, CallProgress, IdleShape
  <2>2. UNCHANGED <<prefs, filters, link, enabled, late>>
    BY <1>6 DEF SetTheRest, portVars, cableVars
  <2> QED BY <2>1, <2>2 DEF Differences
<1>7. ASSUME NEW p \in Ports, LinkOff(p)
      PROVE  Differences'
  <2>1. /\ UNCHANGED <<prefs, work, filters, late>>
        /\ \A q \in Ports : /\ link'[q] = IF q = p THEN FALSE ELSE link[q]
                            /\ enabled'[q] => enabled[q]
                            /\ q # p => enabled'[q] = enabled[q]
    BY <1>0, <1>7 DEF LinkOff, interface_disconnected, KextShape
  <2>2. Pending' = Pending /\ Leaving' = Leaving
    BY <2>1 DEF Pending, Leaving
  <2>3. \A c \in Clients : work[c].at = "detach" => Head(work[c].remove) \in Ports
    BY <1>0, HeadTailProperties DEF KextShape, Calls
  <2> QED BY <2>1, <2>2, <2>3 DEF Differences
<1>8. ASSUME NEW p \in Ports, LinkOn(p)
      PROVE  Differences'
  <2>1. /\ UNCHANGED <<prefs, work, filters>>
        /\ \A q \in Ports : q # p => link'[q] = link[q] /\ enabled'[q] = enabled[q]
        /\ late \subseteq late' /\ late' \subseteq late \union {p}
        /\ filters[p] > 0 => enabled'[p] /\ (p \in PortsOf(prefs) \/ p \in late')
        /\ ~ (filters[p] > 0) => enabled'[p] = enabled[p] /\ late' = late
    BY <1>0, <1>8 DEF LinkOn, KextShape
  <2>2. Pending' = Pending /\ Leaving' = Leaving
    BY <2>1 DEF Pending, Leaving
  <2>3. \A c \in Clients : work[c].at = "detach" =>
          /\ Head(work[c].remove) \in Ports /\ Head(work[c].remove) \notin PortsOf(prefs)
    BY <1>0, TailProperties DEF KextShape, Calls, Lists
  <2>4. p \in PortsOf(prefs) \ Pending => filters[p] > 0
    BY DEF Differences
  <2> QED BY <2>1, <2>2, <2>3, <2>4 DEF Differences
<1>9. ASSUME NEW p \in Ports, LinkCounted(p) \/ LinkStored(p) \/ LinkAdjusted(p)
      PROVE  Differences'
  BY <1>1, <1>9 DEF LinkCounted, LinkStored, LinkAdjusted
<1>10. CASE Load
  BY <1>1, <1>10 DEF Load, portVars, cableVars
<1>11. CASE Unload
  <2>1. \A c \in Clients : work'[c] = Idle
    BY <1>11 DEF Unload
  <2>2. Pending' = {} /\ Leaving' = {} /\ \A c \in Clients : work'[c].at # "detach"
    BY <2>1, IdleShape DEF Pending, Leaving
  <2>3. PortsOf(prefs') = {}
    BY <1>11, EmptySeq DEF Unload, NoPorts, PortsOf
  <2>4. \A p \in Ports : filters'[p] = 0 /\ ~ enabled'[p]
    BY <1>11 DEF Unload
  <2> QED BY <2>2, <2>3, <2>4 DEF Differences
<1>12. CASE UNCHANGED kextVars
  BY <1>1, <1>12 DEF kextVars, portVars, cableVars
<1>13. ASSUME NEW c \in Clients, aoeinterface_connect(c) \/ aoeinterface_disconnect(c)
       PROVE  Differences'
  BY <1>1, <1>13 DEF aoeinterface_connect, aoeinterface_disconnect, portVars, cableVars
<1> QED
  BY <1>2, <1>3, <1>4, <1>5, <1>6, <1>7, <1>8, <1>9, <1>10, <1>11, <1>12, <1>13 DEF KextStep


\* As long as no cable moves, every operation keeps the count in step with the ports in
\* use (EInterfaces.cpp:340-358, 415-424).
LEMMA NextCounts ==
  ASSUME Shape, Sessions, Lists, Differences, Counts, KextStep
  PROVE  Counts'
<1> SUFFICES ASSUME moved' = "never"
             PROVE  /\ published' = Used' /\ inUse' = Cardinality(Used')
                    /\ Rejoining' = {}
                    /\ \A p \in PortsOf(prefs') \ Pending' : enabled'[p]
                    /\ \A c \in Clients : \A i \in DOMAIN work'[c].remove :
                         \/ enabled'[work'[c].remove[i]]
                         \/ work'[c].at = "detach" /\ i = 1
  BY DEF Counts
<1> DEFINE Goal == /\ published' = Used' /\ inUse' = Cardinality(Used')
                   /\ Rejoining' = {}
                   /\ \A p \in PortsOf(prefs') \ Pending' : enabled'[p]
                   /\ \A c \in Clients : \A i \in DOMAIN work'[c].remove :
                        \/ enabled'[work'[c].remove[i]]
                        \/ work'[c].at = "detach" /\ i = 1
<1>0. /\ KextShape /\ IsFiniteSet(Used) /\ Used \subseteq Ports
      /\ DOMAIN Idle.remove = {} /\ Idle.at # "detach"
  BY AdminAssumption, FS_Subset, EmptySeq DEF Shape, Used, Idle
<1>1. ASSUME UNCHANGED <<prefs, work, enabled, inUse, published, rejoin>>, moved = "never"
      PROVE  Goal
  BY <1>1 DEF Counts, Pending, Used, Rejoining
<1>2. ASSUME NEW c \in Clients, proc[c].pc = "set", aoeinterface_set(c, proc[c].settings)
      PROVE  Goal
  <2>1. /\ UNCHANGED <<enabled, inUse, published, rejoin>> /\ moved = "never"
    BY <1>2 DEF aoeinterface_set, portVars, cableVars
  <2>2. \A p \in PortsOf(prefs) : enabled[p]
    BY <1>2, <2>1, CallBegins DEF Counts
  <2>3. \A p \in PortsOf(prefs') \ Pending' : enabled[p]
    BY <1>2, <2>2, CallBegins
  <2>4. \A d \in Clients : \A i \in DOMAIN work'[d].remove : enabled[work'[d].remove[i]]
    <3>1. \A i \in DOMAIN work'[c].remove : work'[c].remove[i] \in PortsOf(prefs)
      BY <1>2, CallBegins DEF Elements
    <3>2. \A d \in Clients \ {c} : DOMAIN work'[d].remove = {}
      BY <1>0, <1>2, CallBegins
    <3> QED BY <2>2, <3>1, <3>2
  <2>5. published = Used /\ inUse = Cardinality(Used) /\ Rejoining = {}
    BY <2>1 DEF Counts
  <2> QED BY <2>1, <2>3, <2>4, <2>5 DEF Used, Rejoining
<1>3. ASSUME NEW c \in Clients, EnablePort(c)
      PROVE  Goal
  <2>1. PICK h \in Ports : h = Head(work[c].add)
    BY <1>3, CallProgress
  <2>2. moved = "never" /\ UNCHANGED <<prefs, rejoin>>
    BY <1>3 DEF EnablePort
  <2>3. /\ enabled' = [enabled EXCEPT ![h] = TRUE]
        /\ inUse' = IF enabled[h] THEN inUse ELSE inUse + 1
        /\ published' = update_interface_property(inUse', Used \union {h})
    BY <1>3, <2>1 DEF EnablePort, enable_interface
  <2>4. Used' = Used \union {h}
    BY <1>0, <2>3 DEF Used, KextShape
  <2>5. inUse' = Cardinality(Used') /\ inUse' # 0
    <3>1. Cardinality(Used) \in Nat /\ inUse = Cardinality(Used)
      BY <1>0, <2>2, FS_CardinalityType DEF Counts
    <3>2. CASE enabled[h]
      <4>1. Used' = Used /\ h \in Used
        BY <2>4, <3>2 DEF Used
      <4>2. Cardinality(Used) # 0
        BY <1>0, <4>1, FS_EmptySet
      <4> QED BY <2>3, <3>1, <3>2, <4>1, <4>2
    <3>3. CASE ~ enabled[h]
      <4>1. h \notin Used
        BY <3>3 DEF Used
      <4>2. Cardinality(Used \union {h}) = Cardinality(Used) + 1
        BY <1>0, <4>1, FS_AddElement
      <4> QED BY <2>3, <2>4, <3>1, <3>3, <4>2
    <3> QED BY <3>2, <3>3
  <2>6. published' = Used'
    BY <2>3, <2>4, <2>5 DEF update_interface_property
  <2>7. \A p \in Ports : enabled'[p] = (p = h \/ enabled[p])
    BY <1>0, <2>3 DEF KextShape
  <2>8. PortsOf(prefs) \subseteq Ports
    BY <1>0 DEF KextShape, Settings, PortsOf
  <2>9. \A p \in PortsOf(prefs') \ Pending' : enabled'[p]
    BY <1>3, <2>1, <2>2, <2>7, <2>8, CallProgress DEF Counts
  <2>10. ASSUME NEW d \in Clients, NEW i \in DOMAIN work'[d].remove
         PROVE  enabled'[work'[d].remove[i]]
    <3>1. work'[d].remove = work[d].remove /\ (d # c => work'[d] = Idle)
      BY <1>3, CallProgress
    <3>2. d = c /\ i \in DOMAIN work[c].remove
      BY <1>0, <3>1
    <3>3. work[c].remove[i] \in Ports /\ work[c].at = "ports"
      BY <1>0, <1>3, <3>2, ElementOfSeq, LenProperties DEF KextShape, Calls, EnablePort
    <3>4. enabled[work[c].remove[i]]
      BY <2>2, <3>2, <3>3 DEF Counts
    <3> QED BY <2>7, <3>1, <3>2, <3>3, <3>4
  <2>11. Rejoining' = {}
    BY <2>2 DEF Counts, Rejoining
  <2> QED BY <2>5, <2>6, <2>9, <2>10, <2>11
<1>4. ASSUME NEW c \in Clients, DisablePort(c)
      PROVE  Goal
  <2>1. PICK h \in Ports : h = Head(work[c].remove)
    BY <1>4, CallProgress
  <2>2. /\ moved = "never" /\ UNCHANGED <<prefs, rejoin>>
        /\ enabled' = [enabled EXCEPT ![h] = FALSE] /\ inUse' = inUse - 1
        /\ published' = update_interface_property(inUse', Used \ {h})
    BY <1>4, <2>1 DEF DisablePort, interface_disconnected, cableVars
  <2>3. /\ work[c].remove \in Seq(Ports) /\ work[c].remove # <<>> /\ work[c].at = "ports"
    BY <1>0, <1>4 DEF DisablePort, KextShape, Calls
  <2>4. h = work[c].remove[1] /\ 1 \in DOMAIN work[c].remove
    BY <2>1, <2>3, HeadTailProperties, LenProperties, EmptySeq
  <2>5. enabled[h]
    BY <2>2, <2>3, <2>4 DEF Counts
  <2>6. Used' = Used \ {h} /\ h \in Used
    BY <1>0, <2>2, <2>5 DEF Used, KextShape
  <2>7. inUse' = Cardinality(Used') /\ IsFiniteSet(Used')
    <3>1. /\ Cardinality(Used) \in Nat /\ inUse = Cardinality(Used)
          /\ Cardinality(Used \ {h}) = Cardinality(Used) - 1 /\ IsFiniteSet(Used \ {h})
      BY <1>0, <2>2, <2>6, FS_CardinalityType, FS_RemoveElement DEF Counts
    <3> QED BY <2>2, <2>6, <3>1
  <2>8. published' = Used'
    <3>1. inUse' = 0 => Used' = {}
      BY <2>7, FS_EmptySet
    <3> QED BY <2>2, <2>6, <3>1 DEF update_interface_property
  <2>9. \A p \in Ports : enabled'[p] = (p # h /\ enabled[p])
    BY <1>0, <2>2 DEF KextShape
  <2>10. PortsOf(prefs) \subseteq Ports /\ h \notin PortsOf(prefs)
    <3>1. h \in Elements(work[c].remove)
      BY <2>4 DEF Elements
    <3>2. h \notin PortsOf(prefs)
      BY <3>1 DEF Lists
    <3> QED BY <1>0, <3>2 DEF KextShape, Settings, PortsOf
  <2>11. \A p \in PortsOf(prefs') \ Pending' : enabled'[p]
    BY <1>4, <2>1, <2>2, <2>9, <2>10, CallProgress DEF Counts
  <2>12. ASSUME NEW d \in Clients, NEW i \in DOMAIN work'[d].remove
         PROVE  enabled'[work'[d].remove[i]] \/ (work'[d].at = "detach" /\ i = 1)
    <3>1. /\ work'[d].remove = work[d].remove /\ (d # c => work'[d] = Idle)
          /\ work'[c].at = "detach"
      BY <1>4, CallProgress
    <3>2. d = c /\ i \in DOMAIN work[c].remove
      BY <1>0, <3>1
    <3>3. work[c].remove[i] \in Ports
      BY <2>3, <3>2, ElementOfSeq, LenProperties
    <3>4. enabled[work[c].remove[i]]
      BY <2>2, <2>3, <3>2 DEF Counts
    <3>5. i # 1 => work[c].remove[i] # h
      BY <2>4, <3>2 DEF Lists, Distinct
    <3> QED BY <2>9, <3>1, <3>2, <3>3, <3>4, <3>5
  <2>13. Rejoining' = {}
    BY <2>2 DEF Counts, Rejoining
  <2> QED BY <2>7, <2>8, <2>11, <2>12, <2>13
<1>5. ASSUME NEW c \in Clients, DetachFilter(c)
      PROVE  Goal
  <2>1. moved = "never" /\ UNCHANGED <<prefs, rejoin, enabled, inUse, published>>
    BY <1>5 DEF DetachFilter, cableVars
  <2>2. \A p \in PortsOf(prefs') \ Pending' : enabled'[p]
    BY <1>5, <2>1, CallProgress DEF Counts
  <2>3. ASSUME NEW d \in Clients, NEW i \in DOMAIN work'[d].remove
        PROVE  enabled'[work'[d].remove[i]]
    <3>1. work'[c].remove = Tail(work[c].remove) /\ (d # c => work'[d] = Idle)
      BY <1>5, CallProgress
    <3>2. d = c
      BY <1>0, <3>1
    <3>3. work[c].remove \in Seq(Ports) /\ work[c].remove # <<>>
      BY <1>0, <1>5 DEF DetachFilter, KextShape, Calls
    <3>4. /\ i + 1 \in DOMAIN work[c].remove /\ i + 1 # 1
          /\ work'[d].remove[i] = work[c].remove[i + 1]
      <4>1. i \in DOMAIN Tail(work[c].remove) /\ work'[d].remove[i] = Tail(work[c].remove)[i]
        BY <3>1, <3>2
      <4> QED BY <4>1, <3>3, TailProperties
    <3> QED BY <2>1, <3>4 DEF Counts
  <2>4. published' = Used' /\ inUse' = Cardinality(Used') /\ Rejoining' = {}
    BY <2>1 DEF Counts, Used, Rejoining
  <2> QED BY <2>2, <2>3, <2>4
<1>6. ASSUME NEW c \in Clients, SetTheRest(c)
      PROVE  Goal
  <2>1. moved = "never" /\ UNCHANGED <<prefs, rejoin, enabled, inUse, published>>
    BY <1>6 DEF SetTheRest, portVars, cableVars
  <2>2. Pending' = Pending /\ \A d \in Clients : DOMAIN work'[d].remove = {}
    BY <1>0, <1>6, CallProgress
  <2>3. \A p \in PortsOf(prefs') \ Pending' : enabled'[p]
    BY <2>1, <2>2 DEF Counts
  <2>4. published' = Used' /\ inUse' = Cardinality(Used') /\ Rejoining' = {}
    BY <2>1 DEF Counts, Used, Rejoining
  <2> QED BY <2>2, <2>3, <2>4
<1>7. ASSUME NEW p \in Ports, LinkOff(p) \/ LinkOn(p)
      PROVE  Goal
  <2>1. /\ moved = "never" /\ UNCHANGED <<prefs, work, enabled, inUse, published, rejoin>>
    BY <1>7 DEF LinkOff, LinkOn, Moved
  <2> QED BY <1>1, <2>1
<1>8. ASSUME NEW p \in Ports, LinkCounted(p) \/ LinkStored(p) \/ LinkAdjusted(p)
      PROVE  Goal
  <2>1. moved = "never" /\ p \in Rejoining
    BY <1>8 DEF LinkCounted, LinkStored, LinkAdjusted, Rejoining
  <2> QED BY <2>1 DEF Counts
<1>9. ASSUME Load PROVE Goal
  BY <1>1, <1>9 DEF Load, portVars, cableVars
<1>10. ASSUME Unload PROVE Goal
  <2>1. /\ \A c \in Clients : work'[c] = Idle
        /\ published' = {} /\ inUse' = 0
        /\ \A p \in Ports : ~ enabled'[p] /\ rejoin'[p].at = "no"
    BY <1>10 DEF Unload, Settled
  <2>2. Used' = {} /\ Rejoining' = {}
    BY <2>1 DEF Used, Rejoining
  <2>3. PortsOf(prefs') = {}
    BY <1>10, EmptySeq DEF Unload, NoPorts, PortsOf
  <2> QED BY <1>0, <2>1, <2>2, <2>3, FS_EmptySet
<1>11. ASSUME UNCHANGED kextVars PROVE Goal
  BY <1>1, <1>11 DEF kextVars, portVars, cableVars
<1>12. ASSUME NEW c \in Clients, aoeinterface_connect(c) \/ aoeinterface_disconnect(c)
       PROVE  Goal
  BY <1>1, <1>12 DEF aoeinterface_connect, aoeinterface_disconnect, portVars, cableVars
<1> QED
  BY <1>2, <1>3, <1>4, <1>5, <1>6, <1>7, <1>8, <1>9, <1>10, <1>11, <1>12 DEF KextStep

\* What ports, filters and the count come to, in every state.
LEMMA PortsHold ==
  ASSUME ListedOnce
  PROVE  Spec => [](Shape /\ Lists /\ Differences /\ Counts)
<1>1. Init => Lists /\ Differences /\ Counts
  BY ListedOnce, InitLists, InitDifferences
<1>2. Shape /\ Sessions /\ Lists /\ Differences /\ Counts /\ [Next]_vars
        => Lists' /\ Differences' /\ Counts'
  BY ListedOnce, NextLists, NextKextStep, NextDifferences, NextCounts
<1> QED
  BY <1>1, <1>2, InvocationsHold, PTL DEF Spec

\* TypeOK: among the rest, no filter is taken from a port that has none
\* (AoEtherFilter.c:620).
THEOREM TypeCorrect ==
  ASSUME ListedOnce
  PROVE  Spec => []TypeOK
<1>1. Shape /\ Differences => TypeOK
  <2> SUFFICES ASSUME Shape, Differences PROVE TypeOK
    OBVIOUS
  <2>1. filters \in [Ports -> Nat]
    BY DEF Shape, KextShape, Differences
  <2>2. KextTypeOK
    BY <2>1 DEF Shape, KextShape, KextTypeOK, Calls, Links
  <2> QED
    BY <2>2 DEF Shape, AoedShape, TypeOK, Files, Processes, Pcs
<1> QED
  BY <1>1, PortsHold, PTL

\* PortsAsApplied: between two calls the ports in use are those that were asked for,
\* cables and ports given up aside (AoEUserInterface.c:289-313, AoEService.cpp:523-526).
THEOREM PortsAreAsApplied ==
  ASSUME ListedOnce
  PROVE  Spec => []PortsAsApplied
<1>1. Differences => PortsAsApplied
  <2> SUFFICES ASSUME Differences, Quiet
               PROVE  \A p \in Ports :
                        /\ p \in PortsOf(prefs) /\ link[p] => enabled[p]
                        /\ enabled[p] /\ p \notin late => p \in PortsOf(prefs)
    BY DEF PortsAsApplied
  <2>1. Pending = {} /\ Leaving = {}
    BY IdleShape DEF Quiet, Pending, Leaving
  <2> QED BY <2>1 DEF Differences
<1> QED
  BY <1>1, PortsHold, PTL

\* FilteredAsApplied: between two calls there is one filter on each port that was asked
\* for and none on the others (AoEtherFilter.c:591, 620).
THEOREM FiltersAreAsApplied ==
  ASSUME ListedOnce
  PROVE  Spec => []FilteredAsApplied
<1>1. Differences => FilteredAsApplied
  <2> SUFFICES ASSUME Differences, Quiet
               PROVE  \A p \in Ports : filters[p] = IF p \in PortsOf(prefs) THEN 1 ELSE 0
    BY DEF FilteredAsApplied
  <2>1. Pending = {} /\ Leaving = {}
    BY IdleShape DEF Quiet, Pending, Leaving
  <2> QED BY <2>1 DEF Differences
<1> QED
  BY <1>1, PortsHold, PTL

\* PublishedAsUsed: as long as no cable moves, the property that user programs read lists
\* the ports in use (EInterfaces.cpp:350, 422).
THEOREM PublishedAreUsed ==
  ASSUME ListedOnce
  PROVE  Spec => []PublishedAsUsed
<1>1. Counts => PublishedAsUsed
  BY DEF Counts, PublishedAsUsed
<1> QED
  BY <1>1, PortsHold, PTL

=============================================================================

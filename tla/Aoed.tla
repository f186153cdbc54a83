--------------------------------- MODULE Aoed ---------------------------------
(***************************************************************************)
(* The program aoed (aoed/main.cpp, Preferences.cpp, PreferenceLoadSave.cpp, *)
(* AoEDriverInterface.cpp) above the kernel extension it configures: how   *)
(* the settings a user asks for reach the preference file and the driver,  *)
(* when several invocations run at once, fail, are killed or are cut short *)
(* by a restart.                                                           *)
(*                                                                         *)
(* Every invocation recalls the file, works off its options, stores the    *)
(* file and hands the settings to the driver.  launchd runs "aoed -w" when *)
(* the machine starts.                                                     *)
(***************************************************************************)
EXTENDS AoEUserInterface

CONSTANTS
  Options,          \* the command lines users type, as records (see MCAoed)
  AllPorts,         \* ports of the default settings: all there are, in order
  DefaultSize,      \* DEFAULT_MAX_TRANSFER_SIZE, DEFAULT_CONGESTION_WINDOW
  MaxStarts,        \* bound on the invocations of a behaviour
  MaxFailures       \* bound on what goes wrong: kills, failed writes, restarts

ASSUME AoedAssumption ==
  /\ DefaultSize \in Sizes
  /\ AllPorts \in Seq(Ports)
  /\ MaxStarts \in Nat /\ MaxFailures \in Nat
  /\ Options \subseteq [changes : SUBSET {"ports", "size"}, to : Settings,
                        session : {"none", "short", "unmount"},
                        save : BOOLEAN, send : BOOLEAN, wait : BOOLEAN]
  /\ \A o \in Options : o.send \/ o.changes = {}

VARIABLES
  file,      \* the preference file; ok: it exists and can be read
  proc,      \* proc[c]: the invocation client c is
  boot,      \* launchd is about to start aoed
  starts, failures, cables,   \* what the bounds count
  asked,     \* history: the settings as users have asked for them, one after the other
  disturbed  \* history: since then something has come in between: see Disturb

aoedVars == <<file, proc, boot, starts, failures, cables, asked, disturbed>>
vars == <<kextVars, aoedVars>>

\* The command line of the daemon.
BootOptions == [changes |-> {}, to |-> NoPorts, session |-> "none",
                save |-> TRUE, send |-> TRUE, wait |-> TRUE]

\* settings stands for m_PreferenceData, stored for whether this invocation has
\* written it to the file, alone for whether no other one has run beside it.
NoProc == [pc |-> "none", opt |-> BootOptions, settings |-> NoPorts,
           stored |-> FALSE, alone |-> FALSE]

Running == {c \in Clients : proc[c].pc # "none"}

DefaultSettings == [ports |-> AllPorts, size |-> DefaultSize]

\* A mutant: an invocation does not start from what is in the file.
recall_nothing(f) == DefaultSettings

\* A mutant: without a file the settings are what the memory held.
recall_uninitialised(f) == IF f.ok THEN f.settings ELSE [ports |-> <<>>, size |-> 0]

\* recall_settings: when the file cannot be read the defaults stay, and main
\* does not look at the result.
recall_settings(f) == IF f.ok THEN f.settings ELSE DefaultSettings

Apply(s, o) ==
  [ports |-> IF "ports" \in o.changes THEN o.to.ports ELSE s.ports,
   size  |-> IF "size" \in o.changes THEN o.to.size ELSE s.size]

At(c, pc) == proc' = [proc EXCEPT ![c].pc = pc]

Exit(c) == proc' = [proc EXCEPT ![c] = NoProc]

Init ==
  /\ KextInit
  /\ file = [ok |-> FALSE, settings |-> DefaultSettings]
  /\ proc = [c \in Clients |-> NoProc]
  /\ boot = TRUE
  /\ starts = 0 /\ failures = 0 /\ cables = 0
  /\ asked = DefaultSettings
  /\ disturbed = FALSE

-----------------------------------------------------------------------------
(* An invocation.                                                          *)

\* The process starts, recalls the settings and applies the options that change
\* them, in memory.  From here on another one beside it may store older settings
\* over newer ones.
Start(c) ==
  /\ ~ boot /\ starts < MaxStarts
  /\ proc[c].pc = "none"
  /\ starts' = starts + 1
  /\ \E o \in Options :
       LET alone == Running = {}
           found == recall_settings(file)
       IN  /\ proc' = [d \in Clients |->
                IF d = c THEN [pc |-> IF o.session = "none" THEN "store" ELSE "session",
                               opt |-> o, settings |-> Apply(found, o),
                               stored |-> FALSE, alone |-> alone]
                         ELSE [proc[d] EXCEPT !.alone = FALSE]]
           /\ disturbed' = (disturbed \/ ~ alone)
           /\ asked' = Apply(IF disturbed THEN found ELSE asked, o)
  /\ UNCHANGED <<kextVars, file, boot, failures, cables>>

\* RunAtLoad in com.aoed.plist.
StartAtBoot(c) ==
  /\ boot
  /\ boot' = FALSE
  /\ proc' = [proc EXCEPT ![c] = [NoProc EXCEPT !.pc = "store", !.alone = TRUE,
                                               !.settings = recall_settings(file)]]
  /\ UNCHANGED <<kextVars, file, starts, failures, cables, asked, disturbed>>

\* -c, -C, -i, -l talk to the driver at once.  Without the driver they print an
\* error and go on.
OpenSession(c) ==
  /\ proc[c].pc = "session"
  /\ \/ aoeinterface_connect(c) /\ At(c, proc[c].opt.session)
     \/ ~ loaded /\ At(c, "store") /\ UNCHANGED kextVars
  /\ UNCHANGED <<file, boot, starts, failures, cables, asked, disturbed>>

\* The session of -c, -i and -l is over as soon as the driver has answered.
ShortSession(c) ==
  /\ proc[c].pc = "short"
  /\ aoeinterface_disconnect(c)
  /\ At(c, "store")
  /\ UNCHANGED <<file, boot, starts, failures, cables, asked, disturbed>>

\* That of -C lasts until the disk is unmounted or, when it is busy, until the
\* user dismisses an alert.
Unmounted(c) ==
  /\ proc[c].pc = "unmount"
  /\ aoeinterface_disconnect(c)
  /\ At(c, "store")
  /\ UNCHANGED <<file, boot, starts, failures, cables, asked, disturbed>>

UnmountFailed(c) ==
  /\ proc[c].pc = "unmount"
  /\ At(c, "alert")
  /\ UNCHANGED <<kextVars, file, boot, starts, failures, cables, asked, disturbed>>

UserDismissesAlert(c) ==
  /\ proc[c].pc = "alert"
  /\ aoeinterface_disconnect(c)
  /\ At(c, "store")
  /\ UNCHANGED <<file, boot, starts, failures, cables, asked, disturbed>>

\* store_settings writes the file whole.  When the write fails it says so in the
\* log and returns 0.
StoreSettings(c) ==
  /\ proc[c].pc = "store"
  /\ \/ /\ proc[c].opt.save
        /\ file' = [ok |-> TRUE, settings |-> proc[c].settings]
        /\ proc' = [proc EXCEPT ![c].pc = "connect", ![c].stored = TRUE]
        /\ UNCHANGED <<failures, disturbed>>
     \/ /\ proc[c].opt.save /\ failures < MaxFailures
        /\ failures' = failures + 1
        /\ disturbed' = TRUE
        /\ At(c, "connect")
        /\ UNCHANGED file
     \/ /\ ~ proc[c].opt.save
        /\ disturbed' = TRUE
        /\ At(c, "connect")
        /\ UNCHANGED <<file, failures>>
  /\ UNCHANGED <<kextVars, boot, starts, cables, asked>>

\* A mutant: -w does not wait.
no_wait(c) ==
  /\ proc[c].pc = "connect" /\ proc[c].opt.send
  /\ \/ aoeinterface_connect(c) /\ At(c, "set") /\ UNCHANGED disturbed
     \/ ~ loaded /\ Exit(c) /\ disturbed' = TRUE /\ UNCHANGED kextVars
  /\ UNCHANGED <<file, boot, starts, failures, cables, asked>>

\* SetSettingsInKEXT.  Without the driver it fails, but with -w it is not called
\* before the driver is there.
Connect(c) ==
  /\ proc[c].pc = "connect" /\ proc[c].opt.send
  /\ proc[c].opt.wait => loaded
  /\ \/ aoeinterface_connect(c) /\ At(c, "set") /\ UNCHANGED disturbed
     \/ ~ loaded /\ Exit(c) /\ disturbed' = TRUE /\ UNCHANGED kextVars
  /\ UNCHANGED <<file, boot, starts, failures, cables, asked>>

\* -i and -h are all that was asked for.
NothingToSend(c) ==
  /\ proc[c].pc = "connect" /\ ~ proc[c].opt.send
  /\ Exit(c)
  /\ UNCHANGED <<kextVars, file, boot, starts, failures, cables, asked, disturbed>>

SetPreferences(c) ==
  /\ proc[c].pc = "set"
  /\ aoeinterface_set(c, proc[c].settings)
  /\ At(c, "setting")
  /\ UNCHANGED <<file, boot, starts, failures, cables, asked, disturbed>>

\* When the call has returned the session is closed.  Settings that one
\* invocation, alone, has both stored and sent are where the user wants them.
Disconnect(c) ==
  /\ proc[c].pc = "setting" /\ work[c] = Idle
  /\ aoeinterface_disconnect(c)
  /\ Exit(c)
  /\ LET done == proc[c].alone /\ proc[c].stored IN
       /\ disturbed' = (disturbed /\ ~ done)
       /\ asked' = IF disturbed /\ done THEN proc[c].settings ELSE asked
  /\ UNCHANGED <<file, boot, starts, failures, cables>>

\* What an invocation does without anyone's help.
Step(c) ==
  \/ OpenSession(c) \/ ShortSession(c) \/ Unmounted(c) \/ UnmountFailed(c)
  \/ StoreSettings(c)
  \/ Connect(c) \/ NothingToSend(c) \/ SetPreferences(c) \/ Disconnect(c)

InKext(c) == InCall(c) /\ UNCHANGED aoedVars

-----------------------------------------------------------------------------
(* What comes in between.                                                  *)

Disturb ==
  /\ failures < MaxFailures
  /\ failures' = failures + 1
  /\ disturbed' = TRUE

\* The process is killed, though not in the middle of a call to the driver.  The
\* system closes its socket.
Kill(c) ==
  /\ proc[c].pc # "none" /\ work[c] = Idle
  /\ Disturb
  /\ aoeinterface_disconnect(c)
  /\ Exit(c)
  /\ UNCHANGED <<file, boot, starts, cables, asked>>

Reboot ==
  /\ ~ boot
  /\ Disturb
  /\ Unload
  /\ proc' = [c \in Clients |-> NoProc]
  /\ boot' = TRUE
  /\ UNCHANGED <<file, starts, cables, asked>>

LoadKext == Load /\ UNCHANGED aoedVars

Cable ==
  /\ loaded /\ cables < CableEvents
  /\ cables' = cables + 1
  /\ \E p \in Ports : LinkOff(p) \/ LinkOn(p)
  /\ UNCHANGED <<file, proc, boot, starts, failures, asked, disturbed>>

LinkEvent(p) == LinkHandled(p) /\ UNCHANGED aoedVars

Next ==
  \/ \E c \in Clients :
       \/ Start(c) \/ StartAtBoot(c) \/ Step(c) \/ InKext(c)
       \/ UserDismissesAlert(c) \/ Kill(c)
  \/ Reboot \/ LoadKext \/ Cable
  \/ \E p \in Ports : LinkEvent(p)

Spec == Init /\ [][Next]_vars

\* The system loads the driver, starts the daemon and schedules processes; disks
\* answer an unmount one way or the other.  Users owe nothing, dismissing alerts
\* included.  That a mutex which is free over and over may go to others each time
\* does not matter, as invocations are finitely many.
Fairness ==
  /\ WF_vars(LoadKext)
  /\ WF_vars(\E c \in Clients : StartAtBoot(c))
  /\ \A p \in Ports : WF_vars(LinkEvent(p))
  /\ \A c \in Clients :
       WF_vars(Step(c)) /\ WF_vars(InKext(c))

FairSpec == Spec /\ Fairness

-----------------------------------------------------------------------------

TypeOK ==
  /\ KextTypeOK
  /\ file.ok \in BOOLEAN /\ file.settings \in Settings
  /\ boot \in BOOLEAN /\ disturbed \in BOOLEAN
  /\ starts \in 0..MaxStarts /\ failures \in 0..MaxFailures /\ cables \in 0..CableEvents
  /\ asked \in Settings
  /\ \A c \in Clients :
       /\ proc[c].pc \in {"none", "session", "short", "unmount", "alert",
                          "store", "connect", "set", "setting"}
       /\ proc[c].opt \in Options \union {BootOptions}
       /\ proc[c].settings \in Settings
       /\ proc[c].stored \in BOOLEAN /\ proc[c].alone \in BOOLEAN

\* What users have asked for, one after the other, is what is in the file and what
\* the driver has been given once nothing runs: each invocation changes its own
\* settings and keeps all others.  The exceptions are those of "disturbed": two
\* invocations at once, one that was killed or could not write the file (which it
\* does not report), -s, a restart (main.cpp:152, 449-476).
SettingsKept ==
  loaded /\ Running = {} /\ ~ boot /\ ~ disturbed =>
    /\ file = [ok |-> TRUE, settings |-> asked]
    /\ prefs = asked
    /\ size = asked.size

\* Whatever happened before, when the machine has started the settings in the
\* file end up in the driver, once users and failures leave it alone: the daemon
\* waits for the kernel extension (main.cpp:458-468).
BootApplies ==
  boot /\ starts = MaxStarts /\ failures = MaxFailures
    ~> Running = {} /\ prefs = recall_settings(file) /\ size = prefs.size

\* All invocations end, unless they stand behind an alert that nobody dismisses:
\* the session it belongs to keeps everyone else out (AoEUserInterface.c:62,
\* main.cpp:239).
InvocationsEnd ==
  Running # {} ~> Running = {} \/ \E c \in Clients : proc[c].pc = "alert"

=============================================================================

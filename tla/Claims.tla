-------------------------------- MODULE Claims --------------------------------
(***************************************************************************)
(* Whose a target is.  A target stores a config string; the host whose     *)
(* string it is mounts the disk.  aoed -c and -C (aoed/main.cpp) set it     *)
(* through the driver, which keeps a copy per controller                   *)
(* (AoEController.cpp, AoEControllerInterface.cpp) and has it renewed by    *)
(* the answers to its searches.                                            *)
(*                                                                         *)
(* Copy and original are changed at different moments, by this host, by    *)
(* others and by packets that arrive late; the module is about what becomes *)
(* of the disk meanwhile.                                                  *)
(***************************************************************************)
EXTENDS Integers, Sequences, FiniteSetsExt

CONSTANTS
  Targets,
  Commands,         \* what users type, each once: aoed -c or -C and its numbers
  InitialStrings,   \* what targets may hold when they are first met
  OtherStrings,     \* what other hosts write
  GarbageBytes,     \* what -C sends in place of a string
  MaxAnswers,       \* bound on the answers of a target that are under way
  MaxFailures       \* bound on lost orders, silent targets, writes of other hosts

\* "none" is a string of length 0; "blank", "first" and "junk" are one byte: a NUL,
\* the first byte of our string, any other.  "ours" and "theirs" end with a NUL.
Strings == {"none", "blank", "first", "junk", "ours", "theirs"}

\* A copy may also be our string with another byte in the place of its first one.
Copies == Strings \union {"cut"}

ASSUME ClaimsAssumption ==
  /\ InitialStrings \subseteq Strings /\ OtherStrings \subseteq Strings
  /\ GarbageBytes \subseteq {"blank", "first", "junk"}
  /\ {MaxAnswers, MaxFailures} \subseteq Nat
  /\ IsFiniteSet(Targets)
  /\ Commands \subseteq [kind : {"claim", "unclaim"}, todo : Seq(Int) \ {<<>>}]

VARIABLES
  ours,         \* m_pszOurCString; "unset" before the preferences are applied
  own,          \* external: the string target t stores
  number,       \* nTargetNumber of t's controller, 0 when it has none
  local,        \* m_aConfigString of t's controller
  registered,   \* m_fRegistered of t's controller
  mounted,      \* external: whether t's disk is mounted, "not yet" or no longer
  orders,       \* strings on their way to targets, held by the transport
  answers,      \* external: answers of t that are under way
  session,      \* the aoed that holds the driver's mutex
  typed,        \* the commands typed so far
  failures,     \* what MaxFailures bounds
  raced         \* history: packets about t overtook each other, see Raced

hostVars == <<number, local, registered, mounted>>
boundVars == <<typed, failures>>
vars == <<ours, own, hostVars, orders, answers, session, boundVars, raced>>

NoSession == [kind |-> "none", todo |-> <<>>, at |-> "next", unmount |-> "incomplete", disk |-> {}]

\* AoE carries the length of a string, and -C sends one byte; what the copy held
\* beyond that stays.
copied(old, new) ==
  CASE new = "none" -> old
    [] new \in {"ours", "theirs"} -> new
    [] new = "first" -> IF old \in {"ours", "cut"} THEN "ours" ELSE "junk"
    [] OTHER -> IF old \in {"ours", "cut"} THEN "cut" ELSE new

Known == {t \in Targets : number[t] # 0}

\* The target a number stands for now; empty if none.
Numbered(n) == {t \in Known : number[t] = n}

OrdersTo(t) == {o \in orders : o.target = t}

\* A mutant: the numbers of controllers that are gone are not used again.
behind_the_last == Max({number[t] : t \in Targets}) + 1

\* The smallest number no controller has.
get_next_target_number ==
  Min({n \in 1..Cardinality(Targets) : Numbered(n) = {}})

Init ==
  /\ ours = "unset"
  /\ own \in [Targets -> InitialStrings]
  /\ number = [t \in Targets |-> 0]
  /\ local = [t \in Targets |-> "blank"]
  /\ registered = [t \in Targets |-> FALSE]
  /\ mounted = [t \in Targets |-> "not yet"]
  /\ orders = {}
  /\ answers = [t \in Targets |-> <<>>]
  /\ session = NoSession
  /\ typed = {} /\ failures = 0
  /\ raced = [t \in Targets |-> FALSE]

\* remove_target: what there was of the controller is gone, its disk with it.
remove_target(t) ==
  /\ number' = [number EXCEPT ![t] = 0]
  /\ local' = [local EXCEPT ![t] = "blank"]
  /\ registered' = [registered EXCEPT ![t] = FALSE]
  /\ mounted' = [mounted EXCEPT ![t] = "not yet"]

-----------------------------------------------------------------------------
(* Answers.  aoe_config_receive gets those to searches ("get") and those to *)
(* orders ("set"); handle_aoe_cmd copies the string of the former only.    *)

\* A mutant: the controller keeps the first string it was told.
keep_first_string(t, a) == IF number[t] # 0 THEN local[t] ELSE copied("blank", a.string)

handle_aoe_cmd(t, a) ==
  IF a.kind = "get" THEN copied(local[t], a.string) ELSE local[t]

\* A controller that is known may be taken away, never registered.
HeardOfKnown(t, a) ==
  /\ t \in Known
  /\ LET copy == handle_aoe_cmd(t, a) IN
       IF copy # ours /\ registered[t]
         THEN remove_target(t)
         ELSE /\ local' = [local EXCEPT ![t] = copy]
              /\ UNCHANGED <<number, registered, mounted>>
  /\ UNCHANGED raced

\* A new one is registered at once or, as things are, never.
HeardOfNew(t, a) ==
  /\ t \notin Known
  /\ number' = [number EXCEPT ![t] = get_next_target_number]
  /\ LET copy == handle_aoe_cmd(t, a) IN
       /\ local' = [local EXCEPT ![t] = copy]
       /\ registered' = [registered EXCEPT ![t] = (copy = ours)]
  /\ raced' = [raced EXCEPT ![t] = a.kind = "set" \/ OrdersTo(t) # {} \/ a.string # own[t]]
  /\ UNCHANGED mounted

\* The transport lets the answer to a search pass, and that to an order as long as
\* it holds the order.
Passes(a) == a.kind = "get" \/ \E o \in orders : o.id = a.id

Deliver(t) ==
  /\ answers[t] # <<>>
  /\ LET a == Head(answers[t]) IN
       /\ answers' = [answers EXCEPT ![t] = Tail(@)]
       /\ orders' = {o \in orders : a.kind = "get" \/ o.id # a.id}
       /\ IF Passes(a)
            THEN /\ HeardOfKnown(t, a) \/ HeardOfNew(t, a)
            ELSE UNCHANGED <<hostVars, raced>>
  /\ UNCHANGED <<ours, own, session, boundVars>>

-----------------------------------------------------------------------------
(* Targets and the network.                                                *)

Reply(t, a) == answers' = [answers EXCEPT ![t] = Append(@, a)]

\* A target answers a search, of the timer or of a user.
AnswerSearch(t) ==
  /\ Len(answers[t]) < MaxAnswers
  /\ Reply(t, [kind |-> "get", string |-> own[t], id |-> <<>>])
  /\ raced' = [raced EXCEPT ![t] = @ \/ \E o \in OrdersTo(t) : o.string # own[t]]
  /\ UNCHANGED <<ours, own, hostVars, orders, session, boundVars>>

\* An order reaches its target, for the first time or again.
AnswerOrder(t) ==
  /\ Len(answers[t]) < MaxAnswers
  /\ \E o \in OrdersTo(t) :
       /\ own' = [own EXCEPT ![t] = o.string]
       /\ Reply(t, [kind |-> "set", string |-> o.string, id |-> o.id])
  /\ UNCHANGED <<ours, hostVars, orders, session, boundVars, raced>>

Lose(t) ==
  /\ answers[t] # <<>>
  /\ answers' = [answers EXCEPT ![t] = Tail(@)]
  /\ UNCHANGED <<ours, own, hostVars, orders, session, boundVars, raced>>

Fail ==
  /\ failures < MaxFailures
  /\ failures' = failures + 1

\* The transport gives up an order after MAX_TIMEOUT_BEFORE_DROP.
GiveUp ==
  /\ Fail
  /\ \E o \in orders :
       /\ orders' = orders \ {o}
       /\ raced' = [raced EXCEPT ![o.target] = TRUE]
  /\ UNCHANGED <<ours, own, hostVars, answers, session, typed>>

OtherHostWrites(t) ==
  /\ Fail
  /\ \E s \in OtherStrings \ {own[t]} : own' = [own EXCEPT ![t] = s]
  /\ UNCHANGED <<ours, hostVars, orders, answers, session, typed, raced>>

\* check_down_targets: the target has not been heard of for too long.
GoesDown(t) ==
  /\ t \in Known
  /\ Fail
  /\ remove_target(t)
  /\ UNCHANGED <<ours, own, orders, answers, session, typed, raced>>

-----------------------------------------------------------------------------
(* This host.                                                              *)

\* set_our_cstring, which looks at no target.
SetOurString ==
  /\ ours = "unset"
  /\ ours' = "ours"
  /\ raced' = [t \in Targets |-> raced[t] \/ t \in Known]
  /\ UNCHANGED <<own, hostVars, orders, answers, session, boundVars>>

\* Once a disk is registered the system mounts it, and once only.
DiskAppears(t) ==
  /\ registered[t] /\ mounted[t] = "not yet"
  /\ mounted' = [mounted EXCEPT ![t] = "yes"]
  /\ UNCHANGED <<ours, own, number, local, registered, orders, answers,
                 session, boundVars, raced>>

\* An order is on its way to t while another is, or while answers from before.
Raced(t, s) ==
  \/ OrdersTo(t) # {}
  \/ \E i \in DOMAIN answers[t] : answers[t][i].string # s

\* What tells the order from every other: the command and the place in its list.
order_tag == <<typed, Len(session.todo)>>

\* A mutant: a claim of ours is left for the next search to find.
order_only(n, s) ==
  \E t \in Numbered(n) :
    /\ orders' = orders \union {[target |-> t, string |-> s, id |-> order_tag]}
    /\ local' = [local EXCEPT ![t] = copied(@, s)]
    /\ raced' = [raced EXCEPT ![t] = @ \/ Raced(t, s)]
    /\ UNCHANGED failures
    /\ UNCHANGED <<number, registered, mounted>>

\* set_targets_cstring for the target with number n: the copy is overwritten, the
\* order goes out, the disk comes or goes as the copy is ours or not.
set_targets_cstring(n, s) ==
  \E t \in Numbered(n) :
    /\ orders' = orders \union {[target |-> t, string |-> s, id |-> order_tag]}
    /\ LET copy == copied(local[t], s) IN
         IF registered[t] /\ copy # ours
           THEN remove_target(t)
           ELSE /\ local' = [local EXCEPT ![t] = copy]
                /\ registered' = [registered EXCEPT ![t] = (copy = ours)]
                /\ UNCHANGED <<number, mounted>>
    /\ raced' = [raced EXCEPT ![t] = @ \/ Raced(t, s)]
    /\ UNCHANGED failures

\* The target has lost its ports: the copy is overwritten all the same, no order
\* goes out, the disk stays as it is.
order_not_sent(n, s) ==
  /\ Fail
  /\ \E t \in Numbered(n) : local' = [local EXCEPT ![t] = copied(@, s)]
  /\ UNCHANGED <<number, registered, mounted, orders, raced>>

\* The user starts aoed -c or -C with target numbers, which may be of any age.
Start ==
  /\ session.kind = "none"
  /\ \E c \in Commands \ typed :
       /\ typed' = typed \union {c}
       /\ session' = [NoSession EXCEPT !.kind = c.kind, !.todo = c.todo]
  /\ UNCHANGED <<ours, own, hostVars, orders, answers, failures, raced>>

\* On with the next number of the list; behind the last one aoed disconnects.
NextNumber ==
  session' = IF Len(session.todo) = 1 THEN NoSession
             ELSE [session EXCEPT !.todo = Tail(@), !.at = "next"]

NumberUnknown ==
  /\ Numbered(Head(session.todo)) = {}
  /\ UNCHANGED <<hostVars, orders, failures, raced>>

Claim ==
  /\ session.kind = "claim"
  /\ \/ set_targets_cstring(Head(session.todo), "ours")
     \/ order_not_sent(Head(session.todo), "ours")
     \/ NumberUnknown
  /\ NextNumber
  /\ UNCHANGED <<ours, own, answers, typed>>

\* A mutant: the state of the unmount is not reset for the next target.
no_reset ==
  /\ session.kind = "unclaim" /\ session.at = "next"
  /\ LET disk == {t \in Numbered(Head(session.todo)) : mounted[t] # "not yet"} IN
       session' = [session EXCEPT !.disk = disk,
         !.at = IF disk = {} \/ session.unmount # "incomplete" THEN "set" ELSE "unmount"]
  /\ UNCHANGED <<ours, own, hostVars, orders, answers, boundVars, raced>>

\* main.cpp:199-215: the disk of the target, if it has one now, is to be unmounted.
LookForDisk ==
  /\ session.kind = "unclaim" /\ session.at = "next"
  /\ LET disk == {t \in Numbered(Head(session.todo)) : mounted[t] # "not yet"} IN
       session' = [session EXCEPT !.unmount = "incomplete", !.disk = disk,
                                  !.at = IF disk = {} THEN "set" ELSE "unmount"]
  /\ UNCHANGED <<ours, own, hostVars, orders, answers, boundVars, raced>>

\* UnmountCallback.  A disk that is gone meanwhile cannot be unmounted either.
Unmounted ==
  /\ session.at = "unmount"
  /\ \A t \in session.disk : mounted[t] # "not yet"
  /\ mounted' = [t \in Targets |-> IF t \in session.disk THEN "no" ELSE mounted[t]]
  /\ session' = [session EXCEPT !.unmount = "ok", !.at = "set", !.disk = {}]
  /\ UNCHANGED <<ours, own, number, local, registered, orders, answers,
                 boundVars, raced>>

UnmountFails ==
  /\ session.at = "unmount"
  /\ session' = [session EXCEPT !.unmount = "error", !.at = "set"]
  /\ UNCHANGED <<ours, own, hostVars, orders, answers, boundVars, raced>>

\* main.cpp:226-237.  The length is 0, the string was never set: what is sent is
\* one byte of it.
Unclaim ==
  /\ session.kind = "unclaim" /\ session.at = "set" /\ session.unmount # "error"
  /\ \/ \E s \in GarbageBytes :
          \/ set_targets_cstring(Head(session.todo), s)
          \/ order_not_sent(Head(session.todo), s)
     \/ NumberUnknown
  /\ NextNumber
  /\ UNCHANGED <<ours, own, answers, typed>>

\* The alert is dismissed, the target stays ours.
KeepTarget ==
  /\ session.at = "set" /\ session.unmount = "error"
  /\ NextNumber
  /\ UNCHANGED <<ours, own, hostVars, orders, answers, boundVars, raced>>

-----------------------------------------------------------------------------

Next ==
  \/ \E t \in Targets :
       \/ Deliver(t) \/ AnswerSearch(t) \/ AnswerOrder(t) \/ Lose(t)
       \/ OtherHostWrites(t) \/ GoesDown(t) \/ DiskAppears(t)
  \/ GiveUp \/ SetOurString
  \/ Start \/ Claim \/ LookForDisk \/ Unmounted \/ UnmountFails \/ Unclaim \/ KeepTarget

Spec == Init /\ [][Next]_vars

\* Targets answer the search of the timer, and of the answers some arrive.
Fairness ==
  \A t \in Targets : WF_vars(AnswerSearch(t)) /\ SF_vars(Deliver(t))

FairSpec == Spec /\ Fairness

-----------------------------------------------------------------------------

TypeOK ==
  /\ ours \in {"unset", "ours"}
  /\ own \in [Targets -> Strings]
  /\ number \in [Targets -> 0..Cardinality(Targets)]
  /\ local \in [Targets -> Copies]
  /\ registered \in [Targets -> BOOLEAN] /\ mounted \in [Targets -> {"not yet", "yes", "no"}]
  /\ \A o \in orders : o.target \in Targets /\ o.string \in Strings
  /\ \A t \in Targets : \A i \in DOMAIN answers[t] : answers[t][i].string \in Strings
  /\ session.kind \in {"none", "claim", "unclaim"}
  /\ session.at \in {"next", "unmount", "set"}
  /\ session.unmount \in {"incomplete", "ok", "error"}
  /\ session.disk \subseteq Targets
  /\ raced \in [Targets -> BOOLEAN]

\* Strings that are not ours whatever is left of a copy beyond them.
Foreign == {"blank", "junk", "theirs"}

\* A target tells the driver what it stores now, and nothing else is under way.
Heard(t) ==
  /\ Deliver(t)
  /\ Head(answers[t]).kind = "get" /\ Head(answers[t]).string = own[t]
  /\ ours = "ours" /\ OrdersTo(t) = {}

\* After any sequence of claims, unclaims, removals and claims of other hosts, once
\* a target has said what it stores its disk is registered if that is our string
\* and not otherwise, but for the targets whose orders and answers overtook each
\* other and the byte of -C that leaves the copy what it was
\* (AoEControllerInterface.cpp:365-384, 735-757).
RegisteredAsStored ==
  [][\A t \in Targets : Heard(t) /\ ~ raced'[t] =>
       /\ own[t] = "ours" => registered'[t]
       /\ registered'[t] => own[t] \in {"ours", "first"}]_vars

\* The disk of a target that another host has taken over, or that has been cleared
\* by a byte of this host's, is not kept for ever (AoEControllerInterface.cpp:370).
LostIsReleased ==
  \A t \in Targets :
    registered[t] /\ own[t] \in Foreign ~> ~ registered[t] \/ own[t] \notin Foreign

\* aoed -C does not take away a disk that it has seen mounted and has not
\* unmounted, whichever of its targets it is at (main.cpp:190, 213-226).
BusyDiskStays ==
  [][Unclaim => \A t \in session.disk : mounted'[t] = mounted[t]]_vars

=============================================================================

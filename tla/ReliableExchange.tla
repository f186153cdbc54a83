-------------------------- MODULE ReliableExchange --------------------------
(***************************************************************************)
(* What the transport of AoEService.cpp promises to the controllers that   *)
(* hand it commands: a command is answered at most once, only while the    *)
(* transport still holds it, and never after the transport gave it up      *)
(* (after MAX_TIMEOUT_BEFORE_DROP, because its port went away, or because  *)
(* the target refused it).  Retransmissions, windows, timers and the       *)
(* network, which loses, repeats and delays packets, do not show here.     *)
(***************************************************************************)
EXTENDS Integers

CONSTANT Tags          \* the tags of the packets handed to the transport

VARIABLES
  status,              \* where the exchange with that tag has got to
  answers              \* how many answers the controllers were given for it

vars == <<status, answers>>

Status == {"new", "pending", "answered", "closed"}

Init == /\ status = [t \in Tags |-> "new"]
        /\ answers = [t \in Tags |-> 0]

\* A packet is accepted, or refused at once because its port is not in use.
Submit(t) == /\ status[t] = "new"
             /\ \E s \in {"pending", "closed"} : status' = [status EXCEPT ![t] = s]
             /\ UNCHANGED answers

Answer(t) == /\ status[t] = "pending"
             /\ status' = [status EXCEPT ![t] = "answered"]
             /\ answers' = [answers EXCEPT ![t] = @ + 1]

\* One timer or one unplugged cable closes several exchanges at once.
Close(T) == /\ \A t \in T : status[t] = "pending"
            /\ status' = [t \in Tags |-> IF t \in T THEN "closed" ELSE status[t]]
            /\ UNCHANGED answers

Next == \/ \E t \in Tags : Submit(t) \/ Answer(t)
        \/ \E T \in SUBSET Tags : Close(T)

Spec == Init /\ [][Next]_vars

=============================================================================

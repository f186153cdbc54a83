------------------------- MODULE AoEServiceRefinement -------------------------
(***************************************************************************)
(* AoEService implements ReliableExchange.  The refinement mapping reads   *)
(* the status of a tag off the sent queue and the answers (StatusOf); the  *)
(* step that matters is an answer that finds its packet: it takes it off   *)
(* the sent queue in the same step, so that neither a copy of it, nor the  *)
(* retransmit timer, nor an unplugged cable finds the packet again.        *)
(***************************************************************************)
EXTENDS AoEServiceProofs

\* Steps that add no packet and hand no answer on: what left the sent queue was
\* given up.
LEMMA ClosingStep ==
  ASSUME TypeOK, TagsUsed, UnansweredYet, nextTag' = nextTag, answers' = answers,
         \A t \in Tags : InSentQueue(t)' => InSentQueue(t)
  PROVE  Exchange!Next /\ UnansweredYet'
<1> DEFINE T == {t \in Tags : InSentQueue(t) /\ ~InSentQueue(t)'}
<1>1. \A t \in Tags : InSentQueue(t) => ~(t >= nextTag)
  <2>1. nextTag \in Int
    BY ServiceAssumption DEF TypeOK
  <2>2. QED BY <2>1 DEF TagsUsed, InSentQueue, Tags
<1>2. \A t \in T : StatusOf(t) = "pending" /\ StatusOf(t)' = "closed"
  BY <1>1 DEF StatusOf, UnansweredYet
<1>3. \A t \in Tags \ T : StatusOf(t)' = StatusOf(t)
  BY DEF StatusOf
<1>4. T \in SUBSET Tags
  OBVIOUS
<1>5. [t \in Tags |-> StatusOf(t)]' = [t \in Tags |-> IF t \in T THEN "closed" ELSE StatusOf(t)]
  BY <1>2, <1>3
<1> HIDE DEF T
<1>6. Exchange!Close(T)
  BY <1>2, <1>4, <1>5 DEF Exchange!Close
<1>7. UnansweredYet'
  BY DEF UnansweredYet
<1>8. QED BY <1>4, <1>6, <1>7 DEF Exchange!Next

\* A packet that is accepted is pending under a new tag; one that is refused has
\* used its tag up.
LEMMA SubmittingStep ==
  ASSUME TypeOK, TagsUsed, UnansweredYet, NEW n \in Tags, nextTag = n, nextTag' = n + 1,
         answers' = answers, \A t \in Tags \ {n} : InSentQueue(t)' = InSentQueue(t)
  PROVE  Exchange!Next /\ UnansweredYet'
<1>1. \A t \in Tags : t # n => (t >= nextTag' <=> t >= nextTag)
  BY DEF Tags
<1>2. n >= nextTag /\ ~(n >= nextTag')
  BY DEF Tags
<1>3. \A t \in Tags \ {n} : StatusOf(t)' = StatusOf(t)
  BY <1>1 DEF StatusOf
<1>4. StatusOf(n) = "new" /\ StatusOf(n)' \in {"pending", "closed"}
  <2>1. answers'[n] = 0
    BY <1>2 DEF UnansweredYet
  <2>2. QED BY <1>2, <2>1 DEF StatusOf
<1>5. [t \in Tags |-> StatusOf(t)]' = [[t \in Tags |-> StatusOf(t)] EXCEPT ![n] = StatusOf(n)']
  BY <1>3
<1>6. Exchange!Submit(n)
  BY <1>4, <1>5 DEF Exchange!Submit
<1>7. UnansweredYet'
  BY <1>1, <1>2 DEF UnansweredYet
<1>8. QED BY <1>6, <1>7 DEF Exchange!Next

\* The answer that finds its packet takes it off the sent queue.
LEMMA AnsweringStep ==
  ASSUME TypeOK, TagsUsed, UnansweredYet, nextTag' = nextTag,
         NEW t \in Tags, InSentQueue(t), ~InSentQueue(t)',
         \A u \in Tags \ {t} : InSentQueue(u)' = InSentQueue(u),
         answers' = [answers EXCEPT ![t] = @ + 1]
  PROVE  Exchange!Next /\ UnansweredYet'
<1>1. ~(t >= nextTag)
  <2>1. nextTag \in Int
    BY ServiceAssumption DEF TypeOK
  <2>2. QED BY <2>1 DEF TagsUsed, InSentQueue, Tags
<1>2. answers[t] = 0 /\ answers'[t] = 1 /\ \A u \in Tags \ {t} : answers'[u] = answers[u]
  BY DEF TypeOK, UnansweredYet
<1>3. StatusOf(t) = "pending" /\ StatusOf(t)' = "answered"
  BY <1>1, <1>2 DEF StatusOf
<1>4. \A u \in Tags \ {t} : StatusOf(u)' = StatusOf(u)
  BY <1>2 DEF StatusOf
<1>5. [u \in Tags |-> StatusOf(u)]' = [[u \in Tags |-> StatusOf(u)] EXCEPT ![t] = "answered"]
  BY <1>3, <1>4
<1>6. Exchange!Answer(t)
  BY <1>3, <1>5 DEF Exchange!Answer
<1>7. UnansweredYet'
  BY <1>1, <1>2 DEF UnansweredYet
<1>8. QED BY <1>6, <1>7 DEF Exchange!Next

\* Each step of the transport is a step of the exchange, or none that it sees.
LEMMA RefinementStep ==
  ASSUME TypeOK, Queues, UnansweredYet, [Next]_vars
  PROVE  (Exchange!Next \/ UNCHANGED Exchange!vars) /\ UnansweredYet'
<1> DEFINE Goal == (Exchange!Next \/ UNCHANGED Exchange!vars) /\ UnansweredYet'
<1> TagsUsed
  BY DEF Queues
<1>1. ASSUME nextTag' = nextTag, answers' = answers, sent_queue' \subseteq sent_queue
      PROVE  Goal
  BY <1>1, ClosingStep DEF InSentQueue
<1>2. ASSUME NEW i \in Interfaces, NEW shelf \in Shelf, SendPacketOnInterface(i, shelf)
      PROVE  Goal
  <2>1. PICK n \in Tags : n = nextTag
    BY <1>2 DEF SendPacketOnInterface
  <2>2. nextTag' = n + 1 /\ answers' = answers
    BY <1>2, <2>1 DEF SendPacketOnInterface, networkVars
  <2>3. sent_queue' = sent_queue \/ sent_queue' = sent_queue \cup {NewSent(n, i, shelf)}
    BY <1>2, <2>1 DEF SendPacketOnInterface
  <2>4. \A t \in Tags \ {n} : InSentQueue(t)' = InSentQueue(t)
    BY <2>3 DEF InSentQueue, NewSent
  <2>5. QED BY <2>1, <2>2, <2>4, SubmittingStep
<1>3. ASSUME NEW i \in Interfaces, UserSearchQueue(i)
      PROVE  Goal
  <2>1. CASE nextTag \in Tags
    <3>1. PICK n \in Tags : n = nextTag
      BY <2>1
    <3>2. /\ nextTag' = n + 1 /\ answers' = answers
          /\ sent_queue' = sent_queue \cup {NewSent(n, i, Broadcast)}
      BY <1>3, <2>1, <3>1 DEF UserSearchQueue, networkVars
    <3>3. \A t \in Tags \ {n} : InSentQueue(t)' = InSentQueue(t)
      BY <3>2 DEF InSentQueue, NewSent
    <3>4. QED BY <3>1, <3>2, <3>3, SubmittingStep
  <2>2. CASE nextTag \notin Tags
    BY <1>1, <1>3, <2>2 DEF UserSearchQueue, networkVars
  <2>3. QED BY <2>1, <2>2
<1>4. ASSUME TransmitTimer PROVE Goal
  <2> DEFINE output == {p \in (to_send_queue \ Waiting) \cup {p \in to_send_queue : IsNext(p)} :
                          InSentQueue(p.tag)}
             New(s) == IF \E p \in output : p.tag = s.tag THEN MarkSent(s) ELSE s
  <2>1. sent_queue' = {New(s) : s \in sent_queue} /\ nextTag' = nextTag /\ answers' = answers
    BY <1>4 DEF TransmitTimer
  <2>2. \A s \in sent_queue : New(s).tag = s.tag
    BY MarkedPackets DEF TypeOK
  <2> HIDE DEF New
  <2>3. \A t \in Tags : InSentQueue(t)' => InSentQueue(t)
    BY <2>1, <2>2 DEF InSentQueue
  <2>4. QED BY <2>1, <2>3, ClosingStep
<1>5. ASSUME NEW late \in SUBSET Watched, NEW old \in SUBSET Watched, RetransmitTimer(late, old)
      PROVE  Goal
  <2>1. /\ sent_queue' \subseteq sent_queue \cup {MarkResent(s) : s \in late}
        /\ nextTag' = nextTag /\ answers' = answers
    BY <1>5 DEF RetransmitTimer, networkVars
  <2>2. \A s \in late : s \in sent_queue /\ MarkResent(s).tag = s.tag
    BY MarkedPackets DEF Watched, TypeOK
  <2>3. \A t \in Tags : InSentQueue(t)' => InSentQueue(t)
    BY <2>1, <2>2 DEF InSentQueue
  <2>4. QED BY <2>1, <2>3, ClosingStep
<1>6. ASSUME NEW w \in wire, NEW i \in Interfaces, NEW config \in Config \cup {Ata},
             NEW error \in BOOLEAN, AoeIncoming(w, i, config, error)
      PROVE  Goal
  <2>1. w.tag \in Tags
    BY DEF TypeOK
  <2>2. sent_queue' = {s \in sent_queue : s.tag # w.tag} /\ nextTag' = nextTag
    BY <1>6 DEF AoeIncoming, Removed
  <2>3. CASE Dispatched(w, error) /\ w.shelf # Broadcast
    <3>1. answers' = [answers EXCEPT ![w.tag] = @ + 1]
      BY <1>6, <2>3 DEF AoeIncoming
    <3>2. InSentQueue(w.tag) /\ ~InSentQueue(w.tag)'
      BY <2>2, <2>3 DEF Dispatched, InSentQueue
    <3>3. \A u \in Tags \ {w.tag} : InSentQueue(u)' = InSentQueue(u)
      BY <2>2 DEF InSentQueue
    <3>4. \A t \in Tags : t = w.tag => Goal
      BY <2>2, <3>1, <3>2, <3>3, AnsweringStep
    <3>5. QED BY <2>1, <3>4
  <2>4. CASE ~(Dispatched(w, error) /\ w.shelf # Broadcast)
    <3>1. answers' = answers
      BY <1>6, <2>4 DEF AoeIncoming
    <3>2. QED BY <1>1, <2>2, <3>1
  <2>5. QED BY <2>3, <2>4
<1>7. ASSUME NEW i, \/ UserSearchCheck(i) \/ EnableInterface(i) \/ LinkOn(i)
                    \/ DisableInterface(i) \/ LinkOff(i)
                    \/ PeriodicSearch(i) /\ ~SendPacketOnInterface(i, Broadcast)
      PROVE  nextTag' = nextTag /\ answers' = answers /\ sent_queue' \subseteq sent_queue
  BY <1>7 DEF UserSearchCheck, EnableInterface, LinkOn, DisableInterface, LinkOff,
              InterfaceDisconnected, PurgedSent, PeriodicSearch, networkVars
<1>8. ASSUME \/ Idle \/ (\E n : SetUserWindow(n)) \/ (\E i, config : DeviceOnline(i, config))
             \/ UNCHANGED vars
      PROVE  nextTag' = nextTag /\ answers' = answers /\ sent_queue' \subseteq sent_queue
  BY <1>8 DEF Idle, IdleTimer, SetUserWindow, DeviceOnline, networkVars, vars
<1> HIDE DEF Goal
<1>9. \A i \in Interfaces, shelf \in Shelves : SendPacketOnInterface(i, shelf) => Goal
  BY <1>2 DEF Shelf
<1>10. \A i \in Interfaces : PeriodicSearch(i) => Goal
  BY <1>1, <1>2, <1>7 DEF Shelf
<1>11. Incoming => Goal
  BY <1>1, <1>6, <1>8 DEF Incoming
<1>12. Retransmission => Goal
  BY <1>5 DEF Retransmission
<1>13. \A i \in Interfaces : \/ UserSearchCheck(i) \/ EnableInterface(i) \/ LinkOn(i)
                             \/ DisableInterface(i) \/ LinkOff(i)
                             => Goal
  BY <1>1, <1>7
<1>14. Idle \/ (\E n \in UserWindows : SetUserWindow(n)) \/ UNCHANGED vars => Goal
  BY <1>1, <1>8
<1>15. Goal
  BY <1>3, <1>4, <1>9, <1>10, <1>11, <1>12, <1>13, <1>14 DEF Next, Search
<1>16. QED BY <1>15 DEF Goal

\* A command is answered to its controller at most once, only while the transport
\* holds it, and never after the transport gave it up: whatever the network loses,
\* repeats, delays or reorders, and whatever ports are removed, unplugged and added.
THEOREM ExchangeImplemented == Spec => AtMostOnce
<1>1. Init => Exchange!Init /\ UnansweredYet
  <2>1. ASSUME Init PROVE \A t \in Tags : StatusOf(t) = "new" /\ answers[t] = 0
    BY <2>1 DEF Init, StatusOf, Tags
  <2>2. ASSUME Init PROVE answers = [t \in Tags |-> 0]
    BY <2>2 DEF Init
  <2>3. QED BY <2>1, <2>2 DEF Exchange!Init, UnansweredYet
<1>2. /\ TypeOK /\ FractionBelowWindow /\ Queues /\ UnansweredYet /\ [Next]_vars
      => [Exchange!Next]_(Exchange!vars) /\ UnansweredYet'
  BY RefinementStep
<1>3. QED
  BY <1>1, <1>2, TypesInit, TypesInductive, QueuesInit, QueuesInductive, PTL
     DEF Spec, AtMostOnce, Exchange!Spec

\* All of the above in one: the invariant the queues, timers and answers rest on.
THEOREM InvariantHolds == Spec => []IInv
<1>1. Init => UnansweredYet /\ TimersArmed
  BY DEF Init, UnansweredYet, TimersArmed
<1>2. /\ TypeOK /\ FractionBelowWindow /\ Queues /\ UnansweredYet /\ [Next]_vars
      => UnansweredYet'
  BY RefinementStep
<1>3. Init => IInv
  BY <1>1, TypesInit, QueuesInit DEF IInv
<1>4. IInv /\ [Next]_vars => IInv'
  <2> SUFFICES ASSUME IInv, [Next]_vars PROVE IInv'
    OBVIOUS
  <2>1. TypeOK /\ FractionBelowWindow /\ Queues /\ TimersArmed /\ UnansweredYet
    BY DEF IInv
  <2>2. TypeOK' /\ FractionBelowWindow'
    BY <2>1, TypesInductive
  <2>3. Queues'
    BY <2>1, QueuesInductive
  <2>4. TimersArmed'
    BY <2>1, TimersInductive
  <2>5. UnansweredYet'
    BY <2>1, <1>2
  <2>6. QED BY <2>2, <2>3, <2>4, <2>5 DEF IInv
<1>5. QED BY <1>3, <1>4, PTL DEF Spec

===============================================================================

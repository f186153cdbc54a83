------------------------------ MODULE ClaimsProofs ------------------------------
(***************************************************************************)
(* What Claims promises, for every number of targets, of commands, of      *)
(* failures and of answers that are under way.                             *)
(***************************************************************************)
EXTENDS Claims, LeastNumbers, SequenceTheorems, FiniteSetTheorems, FunctionTheorems

-----------------------------------------------------------------------------
(* The inductive invariant.                                                *)

OrderStrings == {"ours"} \union GarbageBytes

\* The tag of an order that was typed: the commands typed till then, and how much
\* of its list was left.
Tags == (SUBSET Commands) \X Nat

Answer == [kind : {"get", "set"}, string : Strings, id : Tags \union {<<>>}]

\* The types, those of the packets and of what aoed holds included.
Shape ==
  /\ ours \in {"unset", "ours"}
  /\ own \in [Targets -> Strings]
  /\ number \in [Targets -> 0..Cardinality(Targets)]
  /\ local \in [Targets -> Copies]
  /\ registered \in [Targets -> BOOLEAN]
  /\ mounted \in [Targets -> {"not yet", "yes", "no"}]
  /\ orders \subseteq [target : Targets, string : OrderStrings, id : Tags]
  /\ answers \in [Targets -> Seq(Answer)]
  /\ session \in [kind : {"none", "claim", "unclaim"}, todo : Seq(Int),
                  at : {"next", "unmount", "set"},
                  unmount : {"incomplete", "ok", "error"}, disk : SUBSET Targets]
  /\ session.kind # "none" => session.todo # <<>>
  /\ session.at # "next" => session.kind = "unclaim"
  /\ typed \subseteq Commands
  /\ raced \in [Targets -> BOOLEAN]

\* While aoed sets a string no disk it has seen is mounted, but when the unmount
\* failed (main.cpp:190-226).
NothingLeftMounted ==
  session.at = "set" /\ session.unmount # "error" => session.disk = {}

\* Of a controller that is gone nothing is left (AoEControllerInterface.cpp:629-674).
UnknownForgotten ==
  \A t \in Targets : t \notin Known => local[t] = "blank" /\ ~ registered[t]

\* Tags do not come back: the orders of the running command were for numbers it
\* has behind it.
Used(tag) ==
  /\ tag[1] \subseteq typed
  /\ session.kind # "none" /\ tag[1] = typed => tag[2] > Len(session.todo)

SetAnswer(t, i) == i \in DOMAIN answers[t] /\ answers[t][i].kind = "set"

\* A tag stands for one order (AoEControllerInterface.cpp:194): the answer to it
\* comes from its target, which has taken a string of this host.
TagsUnique ==
  /\ \A o \in orders : Used(o.id)
  /\ \A o, p \in orders : o.id = p.id => o.target = p.target
  /\ \A t \in Targets : \A i \in DOMAIN answers[t] : SetAnswer(t, i) =>
       /\ answers[t][i].id \in Tags /\ Used(answers[t][i].id)
       /\ own[t] # "none"
       /\ \A o \in orders : o.id = answers[t][i].id => o.target = t

\* Of a known target whose packets kept their order.
InStep(t) == ours = "ours" /\ t \in Known /\ ~ raced[t]

\* The disk of a target that stores our string is there, and so is that of one
\* that is about to; a target that never stored a string has a disk only while the
\* order is out.
DiskAgrees(t) ==
  InStep(t) =>
    /\ own[t] = "ours" => registered[t]
    /\ \A o \in OrdersTo(t) : o.string = "ours" => registered[t]
    /\ own[t] = "none" /\ registered[t] => OrdersTo(t) # {}

DisksAgree == \A t \in Targets : DiskAgrees(t)

-----------------------------------------------------------------------------
(* Lemmas about the operators.                                             *)

\* get_next_target_number finds a number that is free and within the number of
\* targets (AoEControllerInterface.cpp:588-620).
LEMMA FreeNumber ==
  ASSUME ClaimsAssumption, number \in [Targets -> 0..Cardinality(Targets)],
         NEW t \in Targets, t \notin Known
  PROVE  /\ get_next_target_number \in 1..Cardinality(Targets)
         /\ Numbered(get_next_target_number) = {}
<1> DEFINE N == Cardinality(Targets)
           Free == {n \in 1..N : Numbered(n) = {}}
<1>1. IsFiniteSet(Targets) /\ N \in Nat
  BY FS_CardinalityType DEF ClaimsAssumption
<1>2. Free # {}
  <2> SUFFICES ASSUME \A n \in 1..N : Numbered(n) # {} PROVE FALSE
    OBVIOUS
  <2> DEFINE Others == Targets \ {t}
             f == [n \in 1..N |-> CHOOSE u \in Numbered(n) : TRUE]
  <2>1. ASSUME NEW n \in 1..N PROVE f[n] \in Others /\ number[f[n]] = n
    <3>1. f[n] \in Numbered(n)
      BY <2>1
    <3> QED BY <3>1 DEF Numbered, Known
  <2> HIDE DEF f
  <2>2. f \in Injection(1..N, Others)
    <3>1. f \in [1..N -> Others]
      BY <2>1 DEF f
    <3>2. \A m, n \in 1..N : f[m] = f[n] => m = n
      BY <2>1
    <3> QED BY <3>1, <3>2 DEF Injection, IsInjective
  <2>3. IsFiniteSet(Others) /\ Cardinality(Others) = N - 1
    BY <1>1, FS_RemoveElement
  <2>4. IsFiniteSet(1..N) /\ Cardinality(1..N) = N
    BY <1>1, FS_Interval
  <2>5. N <= N - 1
    BY <2>2, <2>3, <2>4, FS_Injection DEF ExistsInjection
  <2> QED BY <2>5, <1>1
<1>3. Free \subseteq Nat
  BY <1>1
<1> HIDE DEF Free, N
<1>4. Min(Free) \in Free
  BY <1>2, <1>3, MinIsLeast
<1> QED BY <1>4 DEF get_next_target_number, Free, N

\* Numbers of controllers, and that of one which is gone.
LEMMA NumberRange ==
  ASSUME ClaimsAssumption
  PROVE  0 \in 0..Cardinality(Targets) /\ 1..Cardinality(Targets) \subseteq 0..Cardinality(Targets)
<1>1. Cardinality(Targets) \in Nat
  BY FS_CardinalityType DEF ClaimsAssumption
<1>2. ASSUME NEW N \in Nat PROVE 0 \in 0..N /\ 1..N \subseteq 0..N
  OBVIOUS
<1> QED BY <1>1, <1>2, Zenon

\* The copy of a string is one.
LEMMA CopiedString ==
  ASSUME NEW old \in Copies, NEW new \in Strings
  PROVE  /\ copied(old, new) \in Copies
         /\ new = "ours" => copied(old, new) = "ours"
         /\ new \in Foreign => copied(old, new) # "ours"
BY DEF copied, Copies, Strings, Foreign

\* What aoed sends are strings.
LEMMA OrderStringsAreStrings ==
  ASSUME ClaimsAssumption
  PROVE  OrderStrings \subseteq Strings
BY DEF ClaimsAssumption, OrderStrings, Strings

\* What an answer does to the list of those under way.
LEMMA AnswerTaken ==
  ASSUME Shape, NEW t \in Targets, answers[t] # <<>>
  PROVE  /\ Head(answers[t]) \in Answer
         /\ Head(answers[t]) = answers[t][1] /\ 1 \in DOMAIN answers[t]
         /\ [answers EXCEPT ![t] = Tail(@)] \in [Targets -> Seq(Answer)]
         /\ Tail(answers[t]) \in Seq(Answer)
         /\ \A i \in DOMAIN Tail(answers[t]) :
              i + 1 \in DOMAIN answers[t] /\ Tail(answers[t])[i] = answers[t][i + 1]
<1>1. answers \in [Targets -> Seq(Answer)] /\ answers[t] \in Seq(Answer)
  BY DEF Shape
<1> HIDE DEF Answer
<1>2. Head(answers[t]) \in Answer /\ Tail(answers[t]) \in Seq(Answer)
  BY <1>1, HeadTailProperties
<1>3. Len(Tail(answers[t])) = Len(answers[t]) - 1 /\ Len(answers[t]) \in Nat
      /\ \A i \in 1..Len(Tail(answers[t])) : Tail(answers[t])[i] = answers[t][i + 1]
  BY <1>1, HeadTailProperties, LenProperties
<1>4. Head(answers[t]) = answers[t][1] /\ Len(answers[t]) > 0
  BY <1>1
<1>5. DOMAIN answers[t] = 1..Len(answers[t])
      /\ DOMAIN Tail(answers[t]) = 1..Len(Tail(answers[t]))
  BY <1>1, <1>2, LenProperties
<1> QED BY <1>1, <1>2, <1>3, <1>4, <1>5

\* And an answer that is sent.
LEMMA AnswerAdded ==
  ASSUME Shape, NEW t \in Targets, NEW a \in Answer
  PROVE  /\ [answers EXCEPT ![t] = Append(@, a)] \in [Targets -> Seq(Answer)]
         /\ DOMAIN Append(answers[t], a) = DOMAIN answers[t] \union {Len(answers[t]) + 1}
         /\ Append(answers[t], a)[Len(answers[t]) + 1] = a
         /\ \A i \in DOMAIN answers[t] : Append(answers[t], a)[i] = answers[t][i]
<1>1. answers \in [Targets -> Seq(Answer)] /\ answers[t] \in Seq(Answer)
  BY DEF Shape
<1>2. /\ Append(answers[t], a) \in Seq(Answer)
      /\ Len(Append(answers[t], a)) = Len(answers[t]) + 1 /\ Len(answers[t]) \in Nat
      /\ \A i \in 1..Len(answers[t]) : Append(answers[t], a)[i] = answers[t][i]
      /\ Append(answers[t], a)[Len(answers[t]) + 1] = a
  BY <1>1, AppendProperties, LenProperties
<1>3. /\ DOMAIN answers[t] = 1..Len(answers[t])
      /\ DOMAIN Append(answers[t], a) = 1..Len(Append(answers[t], a))
  BY <1>1, <1>2, LenProperties
<1> QED BY <1>1, <1>2, <1>3

\* An order of the running command.
LEMMA OrderTyped ==
  ASSUME ClaimsAssumption, Shape, session.kind # "none",
         NEW t \in Targets, NEW s \in OrderStrings
  PROVE  /\ order_tag \in Tags
         /\ [target |-> t, string |-> s, id |-> order_tag]
              \in [target : Targets, string : OrderStrings, id : Tags]
         /\ Head(session.todo) \in Int
         /\ Len(session.todo) \in Nat \ {0}
<1>1. session.todo \in Seq(Int) /\ session.todo # <<>>
  BY DEF Shape
<1>2. Len(session.todo) \in Nat \ {0} /\ Head(session.todo) \in Int
  BY <1>1, LenProperties, HeadTailProperties
<1>3. order_tag \in Tags
  BY <1>2 DEF order_tag, Tags, Shape
<1> QED BY <1>2, <1>3

-----------------------------------------------------------------------------
(* Types.                                                                  *)

\* When the driver starts nothing is known (AoEController.cpp:117-185).
LEMMA ShapeInit ==
  ASSUME ClaimsAssumption, Init
  PROVE  Shape
<1>2. own \in [Targets -> Strings]
  BY DEF Init, ClaimsAssumption
<1>3. NoSession \in [kind : {"none", "claim", "unclaim"}, todo : Seq(Int),
                     at : {"next", "unmount", "set"},
                     unmount : {"incomplete", "ok", "error"}, disk : SUBSET Targets]
  <2>1. <<>> \in Seq(Int)
    BY EmptySeq
  <2> QED BY <2>1 DEF NoSession
<1>4. answers \in [Targets -> Seq(Answer)]
  <2>1. <<>> \in Seq(Answer)
    BY EmptySeq
  <2> QED BY <2>1 DEF Init
<1>5. number \in [Targets -> 0..Cardinality(Targets)]
  BY NumberRange DEF Init
<1>6. local \in [Targets -> Copies]
  BY DEF Init, Copies, Strings
<1> QED BY <1>2, <1>3, <1>4, <1>5, <1>6 DEF Init, Shape, NoSession

HostShape ==
  /\ number \in [Targets -> 0..Cardinality(Targets)]
  /\ local \in [Targets -> Copies]
  /\ registered \in [Targets -> BOOLEAN]
  /\ mounted \in [Targets -> {"not yet", "yes", "no"}]

\* A target that is taken off the registry leaves the rest of it well-formed.
LEMMA RemovalTyped ==
  ASSUME ClaimsAssumption, Shape, NEW t \in Targets, remove_target(t)
  PROVE  HostShape'
<1>2. number' \in [Targets -> 0..Cardinality(Targets)]
  BY NumberRange DEF Shape, remove_target
<1>3. local' \in [Targets -> Copies]
  BY DEF Shape, remove_target, Copies, Strings
<1> QED BY <1>2, <1>3 DEF Shape, HostShape, remove_target

\* aoe_config_receive (AoEControllerInterface.cpp:339-464) keeps the types.
LEMMA DeliveryTyped ==
  ASSUME ClaimsAssumption, Shape, NEW t \in Targets, Deliver(t)
  PROVE  Shape'
<1> DEFINE a == Head(answers[t])
<1>1. answers[t] # <<>> /\ a \in Answer /\ answers' \in [Targets -> Seq(Answer)]
  BY AnswerTaken DEF Deliver
<1>2. a.string \in Strings /\ a.kind \in {"get", "set"}
  BY <1>1 DEF Answer
<1>3. orders' \subseteq orders
  BY DEF Deliver
<1>4. handle_aoe_cmd(t, a) \in Copies
  BY <1>2, CopiedString DEF handle_aoe_cmd, Shape
<1>5. HostShape' /\ raced' \in [Targets -> BOOLEAN]
  <2>1. CASE HeardOfKnown(t, a)
    <3>1. CASE remove_target(t)
      BY <3>1, <2>1, RemovalTyped DEF HeardOfKnown, Shape
    <3>2. CASE local' = [local EXCEPT ![t] = handle_aoe_cmd(t, a)]
               /\ UNCHANGED <<number, registered, mounted>>
      BY <3>2, <2>1, <1>4 DEF HeardOfKnown, Shape, HostShape
    <3> QED BY <2>1, <3>1, <3>2 DEF HeardOfKnown
  <2>2. CASE HeardOfNew(t, a)
    <3>1. get_next_target_number \in 0..Cardinality(Targets)
      BY <2>2, FreeNumber, NumberRange DEF HeardOfNew, Shape
    <3>2. number' \in [Targets -> 0..Cardinality(Targets)]
      BY <2>2, <3>1 DEF HeardOfNew, Shape
    <3>3. local' \in [Targets -> Copies] /\ registered' \in [Targets -> BOOLEAN]
      BY <2>2, <1>4 DEF HeardOfNew, Shape
    <3>4. raced' \in [Targets -> BOOLEAN]
      BY <2>2 DEF HeardOfNew, Shape
    <3> QED BY <2>2, <3>2, <3>3, <3>4 DEF HeardOfNew, Shape, HostShape
  <2>3. CASE UNCHANGED <<hostVars, raced>>
    BY <2>3 DEF Shape, HostShape, hostVars
  <2> QED BY <2>1, <2>2, <2>3 DEF Deliver
<1> QED
  BY <1>1, <1>3, <1>5 DEF Deliver, Shape, HostShape, boundVars

OrdersShape ==
  /\ orders \subseteq [target : Targets, string : OrderStrings, id : Tags]
  /\ raced \in [Targets -> BOOLEAN]

\* set_targets_cstring, whatever becomes of the order, keeps the types
\* (AoEControllerInterface.cpp:721-775).
LEMMA SettingTyped ==
  ASSUME ClaimsAssumption, Shape, session.kind # "none", NEW n, NEW s \in OrderStrings,
         \/ set_targets_cstring(n, s)
         \/ order_not_sent(n, s)
         \/ NumberUnknown
  PROVE  HostShape' /\ OrdersShape'
<1>1. s \in Strings
  BY OrderStringsAreStrings
<1>2. CASE NumberUnknown
  BY <1>2 DEF NumberUnknown, Shape, HostShape, OrdersShape, hostVars
<1>3. ASSUME NEW t \in Numbered(n), local' = [local EXCEPT ![t] = copied(@, s)]
      PROVE  local' \in [Targets -> Copies] /\ t \in Targets
  <2>1. t \in Targets /\ local[t] \in Copies
    BY DEF Numbered, Known, Shape
  <2>2. copied(local[t], s) \in Copies
    BY <1>1, <2>1, CopiedString
  <2> QED BY <1>3, <2>1, <2>2 DEF Shape
<1>4. CASE order_not_sent(n, s)
  <2>1. UNCHANGED <<number, registered, mounted, orders, raced>>
    BY <1>4 DEF order_not_sent
  <2>2. local' \in [Targets -> Copies]
    BY <1>3, <1>4 DEF order_not_sent
  <2> QED BY <2>1, <2>2 DEF Shape, HostShape, OrdersShape
<1>5. CASE set_targets_cstring(n, s)
  <2>1. PICK t \in Numbered(n) :
        /\ orders' = orders \union {[target |-> t, string |-> s, id |-> order_tag]}
        /\ IF registered[t] /\ copied(local[t], s) # ours
             THEN remove_target(t)
             ELSE /\ local' = [local EXCEPT ![t] = copied(@, s)]
                  /\ registered' = [registered EXCEPT ![t] = (copied(local[t], s) = ours)]
                  /\ UNCHANGED <<number, mounted>>
        /\ raced' = [raced EXCEPT ![t] = @ \/ Raced(t, s)]
    BY <1>5 DEF set_targets_cstring
  <2>2. t \in Targets
    BY DEF Numbered, Known
  <2>3. OrdersShape'
    <3>1. orders' \subseteq [target : Targets, string : OrderStrings, id : Tags]
      <4>1. [target |-> t, string |-> s, id |-> order_tag]
              \in [target : Targets, string : OrderStrings, id : Tags]
        BY <2>2, OrderTyped
      <4>2. orders \subseteq [target : Targets, string : OrderStrings, id : Tags]
        BY DEF Shape
      <4> QED BY <2>1, <4>1, <4>2, Zenon
    <3>2. raced' \in [Targets -> BOOLEAN]
      BY <2>1, <2>2 DEF Shape, Raced
    <3> QED BY <3>1, <3>2 DEF OrdersShape
  <2>4. HostShape'
    <3>1. CASE remove_target(t)
      BY <3>1, <2>2, RemovalTyped
    <3>2. CASE /\ local' = [local EXCEPT ![t] = copied(@, s)]
               /\ registered' = [registered EXCEPT ![t] = (copied(local[t], s) = ours)]
               /\ UNCHANGED <<number, mounted>>
      BY <3>2, <2>2, <1>3 DEF Shape, HostShape
    <3> QED BY <2>1, <3>1, <3>2
  <2> QED BY <2>3, <2>4
<1> QED BY <1>2, <1>4, <1>5

SessionShape ==
  /\ session \in [kind : {"none", "claim", "unclaim"}, todo : Seq(Int),
                  at : {"next", "unmount", "set"},
                  unmount : {"incomplete", "ok", "error"}, disk : SUBSET Targets]
  /\ session.kind # "none" => session.todo # <<>>
  /\ session.at # "next" => session.kind = "unclaim"

\* Every step of aoed keeps what it holds well-formed (main.cpp:161-252).
LEMMA NextNumberTyped ==
  ASSUME Shape, session.kind # "none", NextNumber
  PROVE  SessionShape'
<1>1. session.todo \in Seq(Int) /\ session.todo # <<>>
  BY DEF Shape
<1>2. /\ Tail(session.todo) \in Seq(Int) /\ Len(Tail(session.todo)) = Len(session.todo) - 1
      /\ Len(session.todo) \in Nat /\ Len(session.todo) # 0
  BY <1>1, HeadTailProperties, LenProperties
<1>3. CASE Len(session.todo) = 1
  <2>1. <<>> \in Seq(Int)
    BY EmptySeq
  <2>2. session' = NoSession
    BY <1>3 DEF NextNumber
  <2>3. NoSession \in [kind : {"none", "claim", "unclaim"}, todo : Seq(Int),
                       at : {"next", "unmount", "set"},
                       unmount : {"incomplete", "ok", "error"}, disk : SUBSET Targets]
    BY <2>1 DEF NoSession
  <2> QED BY <2>2, <2>3 DEF SessionShape, NoSession
<1>4. CASE Len(session.todo) # 1
  <2>1. session' = [session EXCEPT !.todo = Tail(@), !.at = "next"]
    BY <1>4 DEF NextNumber
  <2>2. Tail(session.todo) # <<>>
    <3>1. Len(Tail(session.todo)) # 0
      BY <1>2, <1>4
    <3>2. Len(<<>>) = 0
      OBVIOUS
    <3> QED BY <3>1, <3>2, Zenon
  <2>3. session'.todo = Tail(session.todo) /\ session'.at = "next"
    BY <2>1 DEF Shape
  <2> QED BY <1>2, <2>1, <2>2, <2>3 DEF Shape, SessionShape
<1> QED BY <1>3, <1>4

\* So do the steps of aoed as a whole.
LEMMA AoedTyped ==
  ASSUME ClaimsAssumption, Shape,
         Start \/ Claim \/ LookForDisk \/ Unmounted \/ UnmountFails \/ Unclaim \/ KeepTarget
  PROVE  Shape'
<1>1. CASE Start
  <2>1. PICK c \in Commands \ typed :
          /\ typed' = typed \union {c}
          /\ session' = [NoSession EXCEPT !.kind = c.kind, !.todo = c.todo]
    BY <1>1 DEF Start
  <2>2. c.kind \in {"claim", "unclaim"} /\ c.todo \in Seq(Int) /\ c.todo # <<>>
    BY DEF ClaimsAssumption
  <2>3. session' = [kind |-> c.kind, todo |-> c.todo, at |-> "next",
                    unmount |-> "incomplete", disk |-> {}]
    BY <2>1 DEF NoSession
  <2>4. SessionShape'
    BY <2>2, <2>3 DEF SessionShape
  <2> QED BY <1>1, <2>1, <2>4 DEF Start, Shape, SessionShape, hostVars
<1>2. CASE Claim
  <2>1. "ours" \in OrderStrings /\ session.kind # "none"
    BY <1>2 DEF OrderStrings, Claim
  <2>2. HostShape' /\ OrdersShape'
    BY <1>2, <2>1, SettingTyped DEF Claim
  <2>3. SessionShape'
    BY <1>2, <2>1, NextNumberTyped DEF Claim
  <2> QED BY <1>2, <2>2, <2>3 DEF Claim, Shape, HostShape, OrdersShape, SessionShape
<1>3. CASE LookForDisk
  <2> DEFINE disk == {t \in Numbered(Head(session.todo)) : mounted[t] # "not yet"}
  <2>1. session' = [session EXCEPT !.unmount = "incomplete", !.disk = disk,
                                   !.at = IF disk = {} THEN "set" ELSE "unmount"]
    BY <1>3 DEF LookForDisk
  <2>2. disk \in SUBSET Targets
    BY DEF Numbered, Known
  <2> HIDE DEF disk
  <2>3. SessionShape'
    BY <1>3, <2>1, <2>2 DEF SessionShape, Shape, LookForDisk
  <2> QED BY <1>3, <2>3 DEF LookForDisk, Shape, SessionShape, hostVars, boundVars
<1>4. CASE Unmounted
  <2>1. SessionShape'
    BY <1>4 DEF SessionShape, Shape, Unmounted
  <2>2. mounted' \in [Targets -> {"not yet", "yes", "no"}]
    BY <1>4 DEF Shape, Unmounted
  <2> QED BY <1>4, <2>1, <2>2 DEF Unmounted, Shape, SessionShape, boundVars
<1>5. CASE UnmountFails
  <2>1. SessionShape'
    BY <1>5 DEF SessionShape, Shape, UnmountFails
  <2> QED BY <1>5, <2>1 DEF UnmountFails, Shape, SessionShape, hostVars, boundVars
<1>6. CASE Unclaim
  <2>1. GarbageBytes \subseteq OrderStrings /\ session.kind # "none" /\ "ours" \in OrderStrings
    BY <1>6 DEF OrderStrings, Unclaim
  <2>2. HostShape' /\ OrdersShape'
    <3>1. CASE NumberUnknown
      BY <3>1, <2>1, SettingTyped
    <3>2. CASE \E s \in GarbageBytes : \/ set_targets_cstring(Head(session.todo), s)
                                       \/ order_not_sent(Head(session.todo), s)
      BY <3>2, <2>1, SettingTyped
    <3> QED BY <1>6, <3>1, <3>2 DEF Unclaim
  <2>3. SessionShape'
    BY <1>6, <2>1, NextNumberTyped DEF Unclaim
  <2> QED BY <1>6, <2>2, <2>3 DEF Unclaim, Shape, HostShape, OrdersShape, SessionShape
<1>7. CASE KeepTarget
  <2>1. session.kind # "none"
    BY <1>7 DEF KeepTarget, Shape
  <2>2. SessionShape'
    BY <1>7, <2>1, NextNumberTyped DEF KeepTarget
  <2> QED BY <1>7, <2>2 DEF KeepTarget, Shape, SessionShape, hostVars, boundVars
<1> QED BY <1>1, <1>2, <1>3, <1>4, <1>5, <1>6, <1>7

\* What targets, the network and the system do keeps the types.
LEMMA WorldTyped ==
  ASSUME ClaimsAssumption, Shape, NEW t \in Targets,
         \/ AnswerSearch(t) \/ AnswerOrder(t) \/ Lose(t)
         \/ OtherHostWrites(t) \/ GoesDown(t) \/ DiskAppears(t)
  PROVE  Shape'
<1>1. CASE AnswerSearch(t)
  <2> DEFINE a == [kind |-> "get", string |-> own[t], id |-> <<>>]
  <2>1. a \in Answer
    BY DEF Shape, Answer
  <2> HIDE DEF a
  <2>2. answers' \in [Targets -> Seq(Answer)]
    <3>1. answers' = [answers EXCEPT ![t] = Append(@, a)]
      BY <1>1 DEF AnswerSearch, Reply, a
    <3> QED BY <2>1, <3>1, AnswerAdded
  <2>3. raced' \in [Targets -> BOOLEAN]
    BY <1>1 DEF AnswerSearch, Shape
  <2> QED BY <1>1, <2>2, <2>3 DEF AnswerSearch, Shape, hostVars, boundVars
<1>2. CASE AnswerOrder(t)
  <2>1. PICK o \in OrdersTo(t) :
          /\ own' = [own EXCEPT ![t] = o.string]
          /\ Reply(t, [kind |-> "set", string |-> o.string, id |-> o.id])
    BY <1>2 DEF AnswerOrder
  <2> DEFINE a == [kind |-> "set", string |-> o.string, id |-> o.id]
  <2>2. o.string \in Strings /\ o.id \in Tags
    BY OrderStringsAreStrings DEF OrdersTo, Shape
  <2>3. a \in Answer
    BY <2>2 DEF Answer
  <2> HIDE DEF a
  <2>4. answers' \in [Targets -> Seq(Answer)]
    <3>1. answers' = [answers EXCEPT ![t] = Append(@, a)]
      BY <2>1 DEF Reply, a
    <3> QED BY <2>3, <3>1, AnswerAdded
  <2>5. own' \in [Targets -> Strings]
    BY <2>1, <2>2 DEF Shape
  <2> QED BY <1>2, <2>4, <2>5 DEF AnswerOrder, Shape, hostVars, boundVars
<1>3. CASE Lose(t)
  <2>1. answers' \in [Targets -> Seq(Answer)]
    BY <1>3, AnswerTaken DEF Lose
  <2> QED BY <1>3, <2>1 DEF Lose, Shape, hostVars, boundVars
<1>4. CASE OtherHostWrites(t)
  <2>1. own' \in [Targets -> Strings]
    BY <1>4 DEF OtherHostWrites, Shape, ClaimsAssumption
  <2> QED BY <1>4, <2>1 DEF OtherHostWrites, Shape, hostVars
<1>5. CASE GoesDown(t)
  <2>1. HostShape'
    BY <1>5, RemovalTyped DEF GoesDown
  <2> QED BY <1>5, <2>1 DEF GoesDown, Shape, HostShape
<1>6. CASE DiskAppears(t)
  <2>1. mounted' \in [Targets -> {"not yet", "yes", "no"}]
    BY <1>6 DEF DiskAppears, Shape
  <2> QED BY <1>6, <2>1 DEF DiskAppears, Shape, boundVars
<1> QED BY <1>1, <1>2, <1>3, <1>4, <1>5, <1>6

\* Every step keeps the types, get_next_target_number's search for a free number
\* included (AoEControllerInterface.cpp:588-620).
LEMMA ShapeStep ==
  ASSUME ClaimsAssumption, Shape, [Next]_vars
  PROVE  Shape'
<1>1. ASSUME NEW t \in Targets,
             \/ Deliver(t) \/ AnswerSearch(t) \/ AnswerOrder(t) \/ Lose(t)
             \/ OtherHostWrites(t) \/ GoesDown(t) \/ DiskAppears(t)
      PROVE  Shape'
  BY <1>1, DeliveryTyped, WorldTyped
<1>2. CASE GiveUp
  <2>1. orders' \subseteq orders /\ raced' \in [Targets -> BOOLEAN]
    BY <1>2 DEF GiveUp, Shape
  <2> QED BY <1>2, <2>1 DEF GiveUp, Shape, hostVars
<1>3. CASE SetOurString
  <2>1. raced' \in [Targets -> BOOLEAN]
    BY <1>3 DEF SetOurString, Shape
  <2> QED BY <1>3, <2>1 DEF SetOurString, Shape, hostVars, boundVars
<1>4. CASE Start \/ Claim \/ LookForDisk \/ Unmounted \/ UnmountFails \/ Unclaim \/ KeepTarget
  BY <1>4, AoedTyped
<1>5. CASE UNCHANGED vars
  BY <1>5 DEF vars, Shape, hostVars, boundVars
<1> QED BY <1>1, <1>2, <1>3, <1>4, <1>5 DEF Next

\* The types of Claims: a controller that is found gets a number within the number
\* of targets, so the numbers a user types are those of a short list.
THEOREM TypeCorrect == Spec => []TypeOK
<1>1. ClaimsAssumption
  BY ClaimsAssumption
<1>2. Init => Shape
  BY <1>1, ShapeInit
<1>3. Shape /\ [Next]_vars => Shape'
  BY <1>1, ShapeStep
<1>4. Shape => TypeOK
  <2> SUFFICES ASSUME Shape PROVE TypeOK
    OBVIOUS
  <2>1. \A o \in orders : o.target \in Targets /\ o.string \in Strings
    BY <1>1, OrderStringsAreStrings DEF Shape
  <2>2. ASSUME NEW t \in Targets, NEW i \in DOMAIN answers[t]
        PROVE  answers[t][i].string \in Strings
    <3>1. answers[t] \in Seq(Answer)
      BY DEF Shape
    <3> HIDE DEF Answer
    <3>2. answers[t][i] \in Answer
      BY <3>1, ElementOfSeq, LenProperties
    <3> QED BY <3>2 DEF Answer
  <2> QED BY <2>1, <2>2 DEF TypeOK, Shape
<1> QED BY <1>2, <1>3, <1>4, PTL DEF Spec

-----------------------------------------------------------------------------
(* Disks that cannot be unmounted.                                         *)

\* The state of the unmount is reset before each target is looked at (main.cpp:199-215).
LEMMA NothingLeftMountedStep ==
  ASSUME Shape, NothingLeftMounted, [Next]_vars
  PROVE  NothingLeftMounted'
<1>1. ASSUME NextNumber PROVE NothingLeftMounted'
  BY <1>1 DEF NextNumber, NothingLeftMounted, NoSession, Shape
<1>2. ASSUME session' = session PROVE NothingLeftMounted'
  BY <1>2 DEF NothingLeftMounted
<1>3. ASSUME NEW t \in Targets,
             \/ Deliver(t) \/ AnswerSearch(t) \/ AnswerOrder(t) \/ Lose(t)
             \/ OtherHostWrites(t) \/ GoesDown(t) \/ DiskAppears(t)
      PROVE  NothingLeftMounted'
  BY <1>2, <1>3 DEF Deliver, AnswerSearch, AnswerOrder, Lose, OtherHostWrites, GoesDown,
                    DiskAppears
<1>4. CASE GiveUp \/ SetOurString \/ UNCHANGED vars
  BY <1>2, <1>4 DEF GiveUp, SetOurString, vars
<1>5. CASE Start
  BY <1>5 DEF Start, NoSession, NothingLeftMounted
<1>6. CASE LookForDisk
  <2> DEFINE disk == {t \in Numbered(Head(session.todo)) : mounted[t] # "not yet"}
  <2>1. session' = [session EXCEPT !.unmount = "incomplete", !.disk = disk,
                                   !.at = IF disk = {} THEN "set" ELSE "unmount"]
    BY <1>6 DEF LookForDisk
  <2> HIDE DEF disk
  <2> QED BY <2>1 DEF Shape, NothingLeftMounted
<1>7. CASE Unmounted
  BY <1>7 DEF Unmounted, Shape, NothingLeftMounted
<1>8. CASE UnmountFails
  BY <1>8 DEF UnmountFails, Shape, NothingLeftMounted
<1>9. CASE Claim \/ Unclaim \/ KeepTarget
  BY <1>1, <1>9 DEF Claim, Unclaim, KeepTarget
<1> QED BY <1>3, <1>4, <1>5, <1>6, <1>7, <1>8, <1>9 DEF Next

\* aoed -C leaves alone each disk it has seen mounted and could not unmount,
\* wherever in its list of targets it is (main.cpp:190, 213-226).
THEOREM BusyDisksStay == Spec => BusyDiskStays
<1>1. ClaimsAssumption
  BY ClaimsAssumption
<1>2. Init => Shape /\ NothingLeftMounted
  <2>1. Init => session.at = "next"
    <3>1. NoSession.at = "next"
      BY DEF NoSession
    <3> QED BY <3>1, Zenon DEF Init
  <2> QED BY <1>1, <2>1, ShapeInit DEF NothingLeftMounted
<1>3. Shape /\ NothingLeftMounted /\ [Next]_vars => Shape' /\ NothingLeftMounted'
  BY <1>1, ShapeStep, NothingLeftMountedStep
<1>4. Shape /\ NothingLeftMounted /\ [Next]_vars
      => [Unclaim => \A t \in session.disk : mounted'[t] = mounted[t]]_vars
  BY DEF NothingLeftMounted, Unclaim
<1> QED BY <1>2, <1>3, <1>4, PTL DEF Spec, BusyDiskStays

-----------------------------------------------------------------------------
(* Tags.                                                                   *)

\* A tag that was used stays one (main.cpp:178-252).
LEMMA UsedKept ==
  ASSUME Shape, Shape', [Next]_vars, NEW tag \in Tags, Used(tag)
  PROVE  Used(tag)'
<1>1. tag[2] \in Nat /\ Len(session.todo) \in Nat /\ Len(session'.todo) \in Nat
  BY LenProperties DEF Tags, Shape
<1>2. ASSUME typed' = typed, session'.kind = session.kind, session'.todo = session.todo
      PROVE  Used(tag)'
  BY <1>2 DEF Used
<1>3. ASSUME NEW t \in Targets,
             \/ Deliver(t) \/ AnswerSearch(t) \/ AnswerOrder(t) \/ Lose(t)
             \/ OtherHostWrites(t) \/ GoesDown(t) \/ DiskAppears(t)
      PROVE  Used(tag)'
  BY <1>2, <1>3 DEF Deliver, AnswerSearch, AnswerOrder, Lose, OtherHostWrites, GoesDown,
                    DiskAppears, boundVars
<1>4. CASE GiveUp \/ SetOurString \/ UNCHANGED vars
  BY <1>2, <1>4 DEF GiveUp, SetOurString, vars, boundVars
<1>5. CASE Start
  <2>1. tag[1] # typed' /\ typed \subseteq typed'
    BY <1>5 DEF Start, Used
  <2> QED BY <2>1 DEF Used
<1>6. CASE LookForDisk \/ Unmounted \/ UnmountFails
  BY <1>2, <1>6 DEF LookForDisk, Unmounted, UnmountFails, Shape, boundVars
<1>7. CASE Claim \/ Unclaim \/ KeepTarget
  <2>1. NextNumber /\ typed' = typed /\ session.kind # "none"
    BY <1>7 DEF Claim, Unclaim, KeepTarget, boundVars, Shape
  <2>2. CASE Len(session.todo) = 1
    <3>1. session'.kind = "none"
      BY <2>1, <2>2 DEF NextNumber, NoSession
    <3> QED BY <3>1, <2>1 DEF Used
  <2>3. CASE Len(session.todo) # 1
    <3>1. session'.kind = session.kind /\ session'.todo = Tail(session.todo)
      BY <2>1, <2>3 DEF NextNumber, Shape
    <3>2. Len(Tail(session.todo)) = Len(session.todo) - 1
      BY <2>1, HeadTailProperties DEF Shape
    <3>3. Len(session'.todo) < Len(session.todo)
      BY <3>1, <3>2, <1>1
    <3> QED BY <3>1, <3>3, <1>1, <2>1 DEF Used
  <2> QED BY <2>2, <2>3
<1> QED BY <1>3, <1>4, <1>5, <1>6, <1>7 DEF Next

\* The tag of the order that goes out now was not used before, and is used
\* afterwards.
LEMMA FreshTag ==
  ASSUME Shape, session.kind # "none", NEW tag, tag = order_tag
  PROVE  /\ ~ Used(tag)
         /\ Shape' /\ NextNumber /\ typed' = typed => Used(tag)'
<1>1. tag[1] = typed /\ tag[2] = Len(session.todo) /\ Len(session.todo) \in Nat
  BY LenProperties DEF Shape, order_tag
<1>2. ~ Used(tag)
  BY <1>1 DEF Used
<1>3. ASSUME Shape', NextNumber, typed' = typed PROVE Used(tag)'
  <2>1. CASE Len(session.todo) = 1
    <3>1. session'.kind = "none"
      BY <1>3, <2>1 DEF NextNumber, NoSession
    <3> QED BY <3>1, <1>1, <1>3 DEF Used
  <2>2. CASE Len(session.todo) # 1
    <3>1. session'.todo = Tail(session.todo)
      BY <1>3, <2>2 DEF NextNumber, Shape
    <3>2. Len(Tail(session.todo)) = Len(session.todo) - 1
      BY HeadTailProperties DEF Shape
    <3>3. Len(session'.todo) < Len(session.todo)
      BY <3>1, <3>2, <1>1
    <3> QED BY <3>3, <1>1, <1>3 DEF Used
  <2> QED BY <2>1, <2>2
<1> QED BY <1>2, <1>3

\* What TagsUnique says of an answer.
AnswerTagged(t, a) ==
  a.kind = "set" =>
    /\ a.id \in Tags /\ Used(a.id)
    /\ own[t] # "none"
    /\ \A o \in orders : o.id = a.id => o.target = t

\* The same, answer by answer (AoEService.cpp:679-712).
LEMMA TagsByAnswer ==
  TagsUnique <=>
    /\ \A o \in orders : Used(o.id)
    /\ \A o, p \in orders : o.id = p.id => o.target = p.target
    /\ \A t \in Targets : \A i \in DOMAIN answers[t] : AnswerTagged(t, answers[t][i])
BY DEF TagsUnique, AnswerTagged, SetAnswer

\* Tags stay unique where no order goes out and no order is answered.
LEMMA TagsKept ==
  ASSUME Shape, Shape', TagsUnique, [Next]_vars,
         orders' \subseteq orders,
         \A t \in Targets : own[t] # "none" => own'[t] # "none",
         \A t \in Targets : \A i \in DOMAIN answers'[t] :
           \/ answers'[t][i].kind # "set"
           \/ \E j \in DOMAIN answers[t] : answers[t][j] = answers'[t][i]
  PROVE  TagsUnique'
<1>1. \A o \in orders' : Used(o.id)'
  <2> SUFFICES ASSUME NEW o \in orders' PROVE Used(o.id)'
    OBVIOUS
  <2>1. o.id \in Tags /\ Used(o.id)
    BY DEF Shape, TagsUnique
  <2> QED BY <2>1, UsedKept
<1>2. ASSUME NEW t \in Targets, NEW i \in DOMAIN answers'[t]
      PROVE  AnswerTagged(t, answers[t][i])'
  <2> SUFFICES ASSUME answers'[t][i].kind = "set" PROVE AnswerTagged(t, answers[t][i])'
    BY DEF AnswerTagged
  <2>1. PICK j \in DOMAIN answers[t] : answers[t][j] = answers'[t][i]
    BY <1>2
  <2>2. PICK a : a = answers[t][j] /\ a = answers'[t][i]
    BY <2>1
  <2>3. AnswerTagged(t, a) /\ a.kind = "set"
    BY <2>2, TagsByAnswer
  <2>4. PICK tag : tag = a.id
    OBVIOUS
  <2>5. Used(tag)'
    <3>1. tag \in Tags /\ Used(tag)
      BY <2>3, <2>4 DEF AnswerTagged
    <3> QED BY <3>1, UsedKept
  <2>6. tag \in Tags /\ own'[t] # "none" /\ \A o \in orders' : o.id = tag => o.target = t
    BY <2>3, <2>4 DEF AnswerTagged
  <2> QED BY <2>2, <2>4, <2>5, <2>6, Zenon DEF AnswerTagged, Used
<1> QED
  BY <1>1, <1>2, TagsByAnswer DEF TagsUnique, SetAnswer, AnswerTagged

\* Other hosts write strings of their own.  A string of length 0 leaves the copy as
\* it was (AoEController.cpp:322-333), so a disk taken over by one would stay.
OthersOwnStrings == OtherStrings \cap {"none", "ours"} = {}

\* A new order gets a tag of its own (AoEControllerInterface.cpp:194).
LEMMA TagsOrdered ==
  ASSUME ClaimsAssumption, Shape, Shape', TagsUnique, [Next]_vars,
         session.kind # "none", NextNumber, typed' = typed,
         UNCHANGED <<own, answers>>,
         NEW t \in Targets, NEW s \in OrderStrings,
         orders' = orders \union {[target |-> t, string |-> s, id |-> order_tag]}
  PROVE  TagsUnique'
<1>1. PICK tag : tag = order_tag
  OBVIOUS
<1>2. PICK new : new = [target |-> t, string |-> s, id |-> tag]
  OBVIOUS
<1>3. ~ Used(tag) /\ Used(tag)'
  BY <1>1, FreshTag
<1>4. orders' = orders \union {new} /\ new.id = tag /\ new.target = t
  BY <1>1, <1>2
<1>5. \A o \in orders' : Used(o.id)'
  <2> SUFFICES ASSUME NEW o \in orders' PROVE Used(o.id)'
    OBVIOUS
  <2>1. CASE o \in orders
    <3>1. o.id \in Tags /\ Used(o.id)
      BY <2>1 DEF Shape, TagsUnique
    <3> QED BY <3>1, UsedKept
  <2>2. CASE o = new
    BY <2>2, <1>3, <1>4
  <2> QED BY <2>1, <2>2, <1>4
<1>6. \A o, p \in orders' : o.id = p.id => o.target = p.target
  <2>1. \A o \in orders : o.id # tag
    BY <1>3 DEF TagsUnique
  <2> QED BY <2>1, <1>4 DEF TagsUnique
<1>7. ASSUME NEW u \in Targets, NEW i \in DOMAIN answers'[u]
      PROVE  AnswerTagged(u, answers[u][i])'
  <2> SUFFICES ASSUME answers'[u][i].kind = "set" PROVE AnswerTagged(u, answers[u][i])'
    BY DEF AnswerTagged
  <2>1. PICK a : a = answers[u][i] /\ a = answers'[u][i]
    OBVIOUS
  <2>2. AnswerTagged(u, a) /\ a.kind = "set" /\ i \in DOMAIN answers[u]
    BY <2>1, TagsByAnswer
  <2>3. PICK g : g = a.id
    OBVIOUS
  <2>4. g \in Tags /\ Used(g) /\ Used(g)'
    BY <2>2, <2>3, UsedKept DEF AnswerTagged
  <2>5. own'[u] # "none" /\ \A o \in orders : o.id = g => o.target = u
    BY <2>2, <2>3 DEF AnswerTagged
  <2>6. \A o \in orders' : o.id = g => o.target = u
    <3>1. g # tag
      BY <2>4, <1>3
    <3> QED BY <3>1, <2>5, <1>4
  <2> QED BY <2>1, <2>3, <2>4, <2>5, <2>6, Zenon DEF AnswerTagged, Used
<1> QED BY <1>5, <1>6, <1>7, TagsByAnswer DEF TagsUnique, SetAnswer, AnswerTagged

\* A target that obeys an order stores a string from then on.
LEMMA TagsAnswered ==
  ASSUME ClaimsAssumption, Shape, Shape', TagsUnique, [Next]_vars,
         NEW t \in Targets, AnswerOrder(t)
  PROVE  TagsUnique'
<1>1. PICK o \in OrdersTo(t) :
        /\ own' = [own EXCEPT ![t] = o.string]
        /\ answers' = [answers EXCEPT ![t] = Append(@, [kind |-> "set", string |-> o.string, id |-> o.id])]
  BY DEF AnswerOrder, Reply
<1>2. o \in orders /\ o.target = t /\ o.string \in OrderStrings /\ o.id \in Tags
  BY DEF OrdersTo, Shape
<1>3. PICK new : new = [kind |-> "set", string |-> o.string, id |-> o.id]
  OBVIOUS
<1>4. new \in Answer /\ new.kind = "set" /\ new.id = o.id
  BY <1>2, <1>3, OrderStringsAreStrings DEF Answer
<1>5. o.string # "none"
  BY <1>2 DEF OrderStrings, ClaimsAssumption
<1>6. orders' = orders
  BY DEF AnswerOrder
<1>7. \A u \in Targets : own[u] # "none" => own'[u] # "none"
  BY <1>1, <1>5 DEF Shape
<1>8. ASSUME NEW u \in Targets, NEW i \in DOMAIN answers'[u]
      PROVE  AnswerTagged(u, answers[u][i])'
  <2>1. answers'[u] = IF u = t THEN Append(answers[t], new) ELSE answers[u]
    BY <1>1, <1>3 DEF Shape
  <2>2. (i \in DOMAIN answers[u] /\ answers'[u][i] = answers[u][i])
        \/ (u = t /\ answers'[u][i] = new)
    BY <2>1, <1>4, AnswerAdded, <1>8
  <2>3. CASE i \in DOMAIN answers[u] /\ answers'[u][i] = answers[u][i]
    <3> SUFFICES ASSUME answers'[u][i].kind = "set" PROVE AnswerTagged(u, answers[u][i])'
      BY DEF AnswerTagged
    <3>1. PICK a : a = answers[u][i] /\ a = answers'[u][i]
      BY <2>3
    <3>2. AnswerTagged(u, a) /\ a.kind = "set"
      BY <2>3, <3>1, TagsByAnswer
    <3>3. PICK g : g = a.id
      OBVIOUS
    <3>4. g \in Tags /\ Used(g)'
      BY <3>2, <3>3, UsedKept DEF AnswerTagged
    <3>5. own'[u] # "none" /\ \A p \in orders' : p.id = g => p.target = u
      BY <3>2, <3>3, <1>6, <1>7 DEF AnswerTagged
    <3> QED BY <3>1, <3>3, <3>4, <3>5, Zenon DEF AnswerTagged, Used
  <2>4. CASE u = t /\ answers'[u][i] = new
    <3>1. PICK g : g = o.id
      OBVIOUS
    <3>2. g \in Tags /\ Used(g)'
      BY <1>2, <3>1, UsedKept DEF TagsUnique
    <3>3. own'[t] # "none"
      BY <1>1, <1>5 DEF Shape
    <3>4. \A p \in orders' : p.id = g => p.target = t
      BY <1>2, <1>6, <3>1 DEF TagsUnique
    <3>5. answers'[u][i].id = g
      BY <2>4, <3>1, <1>4
    <3> QED BY <2>4, <3>2, <3>3, <3>4, <3>5, Zenon DEF AnswerTagged, Used
  <2> QED BY <2>2, <2>3, <2>4
<1>9. \A p \in orders' : Used(p.id)'
  <2> SUFFICES ASSUME NEW p \in orders' PROVE Used(p.id)'
    OBVIOUS
  <2>1. p.id \in Tags /\ Used(p.id)
    BY <1>6 DEF Shape, TagsUnique
  <2> QED BY <2>1, UsedKept
<1> QED BY <1>6, <1>8, <1>9, TagsByAnswer DEF TagsUnique, SetAnswer, AnswerTagged

\* Tags stay unique, whatever happens.
LEMMA TagsUniqueStep ==
  ASSUME ClaimsAssumption, OthersOwnStrings, Shape, TagsUnique, [Next]_vars
  PROVE  TagsUnique'
<1>0. Shape'
  BY ShapeStep
<1>1. ASSUME orders' \subseteq orders, UNCHANGED <<own, answers>>
      PROVE  TagsUnique'
  BY <1>0, <1>1, TagsKept
<1>2. ASSUME NEW t \in Targets, Deliver(t) \/ Lose(t)
      PROVE  TagsUnique'
  <2>1. answers[t] # <<>> /\ answers' = [answers EXCEPT ![t] = Tail(@)]
        /\ own' = own /\ orders' \subseteq orders
    BY <1>2 DEF Deliver, Lose
  <2>2. ASSUME NEW u \in Targets, NEW i \in DOMAIN answers'[u]
        PROVE  \E j \in DOMAIN answers[u] : answers[u][j] = answers'[u][i]
    <3>1. answers'[u] = IF u = t THEN Tail(answers[t]) ELSE answers[u]
      BY <2>1 DEF Shape
    <3> QED BY <2>1, <2>2, <3>1, AnswerTaken
  <2> QED BY <1>0, <2>1, <2>2, TagsKept
<1>3. ASSUME NEW t \in Targets, AnswerSearch(t)
      PROVE  TagsUnique'
  <2>1. PICK a : a = [kind |-> "get", string |-> own[t], id |-> <<>>]
    OBVIOUS
  <2>2. a \in Answer /\ a.kind = "get"
    BY <2>1 DEF Answer, Shape
  <2>3. answers' = [answers EXCEPT ![t] = Append(@, a)] /\ own' = own /\ orders' = orders
    BY <1>3, <2>1 DEF AnswerSearch, Reply
  <2>4. ASSUME NEW u \in Targets, NEW i \in DOMAIN answers'[u]
        PROVE  \/ answers'[u][i].kind # "set"
               \/ \E j \in DOMAIN answers[u] : answers[u][j] = answers'[u][i]
    <3>1. answers'[u] = IF u = t THEN Append(answers[t], a) ELSE answers[u]
      BY <2>3 DEF Shape
    <3>2. (i \in DOMAIN answers[u] /\ answers'[u][i] = answers[u][i]) \/ answers'[u][i] = a
      BY <2>2, <2>4, <3>1, AnswerAdded
    <3> QED BY <2>2, <3>2
  <2> QED BY <1>0, <2>3, <2>4, TagsKept
<1>4. ASSUME NEW t \in Targets, AnswerOrder(t)
      PROVE  TagsUnique'
  BY <1>0, <1>4, TagsAnswered
<1>5. ASSUME NEW t \in Targets, OtherHostWrites(t)
      PROVE  TagsUnique'
  <2>1. orders' = orders /\ answers' = answers
        /\ \A u \in Targets : own[u] # "none" => own'[u] # "none"
    BY <1>5 DEF OtherHostWrites, OthersOwnStrings, Shape
  <2> QED BY <1>0, <2>1, TagsKept
<1>6. ASSUME NEW t \in Targets, GoesDown(t) \/ DiskAppears(t)
      PROVE  TagsUnique'
  BY <1>1, <1>6 DEF GoesDown, DiskAppears
<1>7. CASE GiveUp \/ SetOurString \/ UNCHANGED vars
  BY <1>1, <1>7 DEF GiveUp, SetOurString, vars
<1>8. CASE Start \/ LookForDisk \/ Unmounted \/ UnmountFails \/ KeepTarget
  BY <1>1, <1>8 DEF Start, LookForDisk, Unmounted, UnmountFails, KeepTarget
<1>9. ASSUME session.kind # "none", NextNumber, typed' = typed, UNCHANGED <<own, answers>>,
             NEW n, NEW s \in OrderStrings,
             \/ set_targets_cstring(n, s) \/ order_not_sent(n, s) \/ NumberUnknown
      PROVE  TagsUnique'
  <2>1. CASE order_not_sent(n, s) \/ NumberUnknown
    BY <1>1, <1>9, <2>1 DEF order_not_sent, NumberUnknown
  <2>2. CASE set_targets_cstring(n, s)
    <3>1. PICK t \in Numbered(n) :
            orders' = orders \union {[target |-> t, string |-> s, id |-> order_tag]}
      BY <2>2 DEF set_targets_cstring
    <3>2. t \in Targets
      BY DEF Numbered, Known
    <3> QED BY <1>0, <1>9, <3>1, <3>2, TagsOrdered
  <2> QED BY <1>9, <2>1, <2>2
<1>10. CASE Claim
  <2>1. "ours" \in OrderStrings
    BY DEF OrderStrings
  <2> QED BY <1>9, <1>10, <2>1 DEF Claim
<1>11. CASE Unclaim
  <2>1. GarbageBytes \subseteq OrderStrings /\ "ours" \in OrderStrings
    BY DEF OrderStrings
  <2>2. /\ session.kind # "none" /\ NextNumber /\ typed' = typed
        /\ UNCHANGED <<own, answers>>
    BY <1>11 DEF Unclaim
  <2>3. \/ \E s \in GarbageBytes : \/ set_targets_cstring(Head(session.todo), s)
                                   \/ order_not_sent(Head(session.todo), s)
        \/ NumberUnknown
    BY <1>11 DEF Unclaim
  <2> QED BY <1>9, <2>1, <2>2, <2>3
<1> QED
  BY <1>2, <1>3, <1>4, <1>5, <1>6, <1>7, <1>8, <1>10, <1>11 DEF Next

-----------------------------------------------------------------------------
(* What is known of a target that has no controller.                       *)

\* What one aoe_config_receive does, whichever branch it takes
\* (AoEControllerInterface.cpp:339-464).
LEMMA Delivered ==
  ASSUME Shape, NEW t \in Targets, Deliver(t)
  PROVE  \E a \in Answer :
           /\ a = Head(answers[t])
           /\ orders' = {o \in orders : a.kind = "get" \/ o.id # a.id}
           /\ UNCHANGED <<ours, own, session, boundVars>>
           /\ \/ HeardOfKnown(t, a) \/ HeardOfNew(t, a)
              \/ UNCHANGED <<hostVars, raced>> /\ ~ Passes(a)
BY AnswerTaken DEF Deliver

\* remove_target leaves nothing behind (AoEControllerInterface.cpp:629-674).
LEMMA UnknownForgottenStep ==
  ASSUME ClaimsAssumption, Shape, UnknownForgotten, [Next]_vars
  PROVE  UnknownForgotten'
<1>1. ASSUME UNCHANGED <<number, local, registered>> PROVE UnknownForgotten'
  BY <1>1 DEF UnknownForgotten, Known
<1>2. ASSUME NEW t \in Targets, remove_target(t) PROVE UnknownForgotten'
  BY <1>2 DEF UnknownForgotten, Known, remove_target, Shape
<1>3. ASSUME NEW t \in Known, NEW s, NEW r, number' = number,
             local' = [local EXCEPT ![t] = s],
             \/ registered' = registered \/ registered' = [registered EXCEPT ![t] = r]
      PROVE  UnknownForgotten'
  <2>1. ASSUME NEW u \in Targets, u \notin Known' 
        PROVE  local'[u] = "blank" /\ ~ registered'[u]
    <3>1. u \notin Known /\ u # t
      BY <1>3, <2>1 DEF Known
    <3>2. local'[u] = local[u] /\ registered'[u] = registered[u]
      BY <1>3, <3>1 DEF Shape
    <3> QED BY <3>1, <3>2 DEF UnknownForgotten
  <2> QED BY <2>1 DEF UnknownForgotten
<1>4. ASSUME NEW t \in Targets, Deliver(t) PROVE UnknownForgotten'
  <2>1. PICK a \in Answer :
          \/ HeardOfKnown(t, a) \/ HeardOfNew(t, a)
          \/ UNCHANGED <<hostVars, raced>>
    BY <1>4, Delivered
  <2>2. CASE HeardOfKnown(t, a)
    <3>1. PICK copy : copy = handle_aoe_cmd(t, a)
      OBVIOUS
    <3>2. \/ remove_target(t)
          \/ local' = [local EXCEPT ![t] = copy] /\ UNCHANGED <<number, registered, mounted>>
      BY <2>2, <3>1 DEF HeardOfKnown
    <3>3. t \in Known
      BY <2>2 DEF HeardOfKnown
    <3> QED BY <1>2, <1>3, <3>2, <3>3
  <2>3. CASE HeardOfNew(t, a)
    <3>1. PICK m : m = get_next_target_number
      OBVIOUS
    <3>2. m \in 1..Cardinality(Targets) /\ t \notin Known
      BY <2>3, <3>1, FreeNumber DEF HeardOfNew, Shape
    <3>3. m # 0
      <4>1. \A N \in Nat : 0 \notin 1..N
        OBVIOUS
      <4>2. Cardinality(Targets) \in Nat
        BY FS_CardinalityType DEF ClaimsAssumption
      <4> QED BY <3>2, <4>1, <4>2, Zenon
    <3>4. PICK s : s = handle_aoe_cmd(t, a)
      OBVIOUS
    <3>5. /\ number' = [number EXCEPT ![t] = m]
          /\ local' = [local EXCEPT ![t] = s]
          /\ registered' = [registered EXCEPT ![t] = (s = ours)]
      BY <2>3, <3>1, <3>4 DEF HeardOfNew
    <3>6. ASSUME NEW u \in Targets, u \notin Known'
          PROVE  local'[u] = "blank" /\ ~ registered'[u]
      <4>1. u # t
        BY <3>3, <3>5, <3>6 DEF Shape, Known
      <4>2. u \notin Known
        BY <3>5, <3>6, <4>1 DEF Shape, Known
      <4> QED BY <3>5, <4>1, <4>2 DEF Shape, UnknownForgotten
    <3> QED BY <3>6 DEF UnknownForgotten
  <2>4. CASE UNCHANGED <<hostVars, raced>>
    BY <1>1, <2>4 DEF hostVars
  <2> QED BY <2>1, <2>2, <2>3, <2>4
<1>5. ASSUME NEW t \in Targets,
             \/ AnswerSearch(t) \/ AnswerOrder(t) \/ Lose(t)
             \/ OtherHostWrites(t) \/ DiskAppears(t)
      PROVE  UnknownForgotten'
  BY <1>1, <1>5 DEF AnswerSearch, AnswerOrder, Lose, OtherHostWrites, DiskAppears, hostVars
<1>6. ASSUME NEW t \in Targets, GoesDown(t) PROVE UnknownForgotten'
  BY <1>2, <1>6 DEF GoesDown
<1>7. CASE GiveUp \/ SetOurString \/ UNCHANGED vars
  BY <1>1, <1>7 DEF GiveUp, SetOurString, vars, hostVars
<1>8. CASE Start \/ LookForDisk \/ Unmounted \/ UnmountFails \/ KeepTarget
  BY <1>1, <1>8 DEF Start, LookForDisk, Unmounted, UnmountFails, KeepTarget, hostVars
<1>9. ASSUME NEW n, NEW s,
             \/ set_targets_cstring(n, s) \/ order_not_sent(n, s) \/ NumberUnknown
      PROVE  UnknownForgotten'
  <2>1. CASE NumberUnknown
    BY <1>1, <2>1 DEF NumberUnknown, hostVars
  <2>2. CASE order_not_sent(n, s)
    <3>1. PICK t \in Numbered(n) : local' = [local EXCEPT ![t] = copied(@, s)]
      BY <2>2 DEF order_not_sent
    <3>2. number' = number /\ registered' = registered /\ t \in Known
      BY <2>2 DEF order_not_sent, Numbered
    <3> QED BY <1>3, <3>1, <3>2
  <2>3. CASE set_targets_cstring(n, s)
    <3>1. PICK t \in Numbered(n) :
            IF registered[t] /\ copied(local[t], s) # ours
              THEN remove_target(t)
              ELSE /\ local' = [local EXCEPT ![t] = copied(@, s)]
                   /\ registered' = [registered EXCEPT ![t] = (copied(local[t], s) = ours)]
                   /\ UNCHANGED <<number, mounted>>
      BY <2>3 DEF set_targets_cstring
    <3>2. t \in Known /\ t \in Targets
      BY DEF Numbered, Known
    <3>3. CASE remove_target(t)
      BY <1>2, <3>2, <3>3
    <3>4. CASE /\ local' = [local EXCEPT ![t] = copied(@, s)]
               /\ registered' = [registered EXCEPT ![t] = (copied(local[t], s) = ours)]
               /\ UNCHANGED <<number, mounted>>
      BY <1>3, <3>2, <3>4
    <3> QED BY <3>1, <3>3, <3>4
  <2> QED BY <1>9, <2>1, <2>2, <2>3
<1>10. CASE Claim \/ Unclaim
  <2>1. \E n, s : set_targets_cstring(n, s) \/ order_not_sent(n, s) \/ NumberUnknown
    BY <1>10 DEF Claim, Unclaim
  <2> QED BY <1>9, <2>1
<1> QED
  BY <1>4, <1>5, <1>6, <1>7, <1>8, <1>10 DEF Next

-----------------------------------------------------------------------------
(* Disks and strings.                                                      *)

\* A step that does not touch what the driver holds of a target.
LEMMA AgreementKept ==
  ASSUME NEW u \in Targets, DiskAgrees(u), ours' = ours,
         number'[u] = number[u], own'[u] = own[u], registered'[u] = registered[u],
         OrdersTo(u)' = OrdersTo(u), raced[u] => raced'[u]
  PROVE  DiskAgrees(u)'
BY DEF DiskAgrees, InStep, Known

\* An answer is delivered: the disk of its target still goes with its string.
LEMMA AgreementDelivered ==
  ASSUME ClaimsAssumption, Shape, TagsUnique, UnknownForgotten, DisksAgree,
         NEW t \in Targets, Deliver(t)
  PROVE  DisksAgree'
<1>1. PICK a \in Answer :
        /\ a = Head(answers[t])
        /\ orders' = {o \in orders : a.kind = "get" \/ o.id # a.id}
        /\ UNCHANGED <<ours, own, session, boundVars>>
        /\ \/ HeardOfKnown(t, a) \/ HeardOfNew(t, a)
           \/ UNCHANGED <<hostVars, raced>> /\ ~ Passes(a)
  BY Delivered
<1>2. AnswerTagged(t, a) /\ a.kind \in {"get", "set"}
  <2>1. 1 \in DOMAIN answers[t] /\ a = answers[t][1]
    BY <1>1, AnswerTaken DEF Deliver
  <2> QED BY <2>1, TagsByAnswer DEF Answer
<1>3. ASSUME NEW u \in Targets, u # t PROVE DiskAgrees(u)'
  <2>1. OrdersTo(u)' = OrdersTo(u)
    BY <1>1, <1>2, <1>3 DEF OrdersTo, AnswerTagged
  <2>2. number'[u] = number[u] /\ registered'[u] = registered[u] /\ raced'[u] = raced[u]
    <3>1. CASE HeardOfKnown(t, a)
      BY <3>1, <1>3 DEF HeardOfKnown, remove_target, Shape
    <3>2. CASE HeardOfNew(t, a)
      BY <3>2, <1>3 DEF HeardOfNew, Shape
    <3>3. CASE UNCHANGED <<hostVars, raced>>
      BY <3>3 DEF hostVars
    <3> QED BY <1>1, <3>1, <3>2, <3>3
  <2> QED BY <1>1, <2>1, <2>2, AgreementKept DEF DisksAgree
<1>4. OrdersTo(t)' \subseteq OrdersTo(t)
      /\ (own[t] = "none" => OrdersTo(t)' = OrdersTo(t))
  BY <1>1, <1>2 DEF OrdersTo, AnswerTagged
<1>5. DiskAgrees(t)'
  <2>1. CASE HeardOfKnown(t, a)
    <3>1. PICK copy : copy = handle_aoe_cmd(t, a)
      OBVIOUS
    <3>2. CASE remove_target(t)
      <4>1. number'[t] = 0
        BY <3>2 DEF remove_target, Shape
      <4> QED BY <4>1 DEF DiskAgrees, InStep, Known
    <3>3. CASE UNCHANGED <<number, registered, mounted>>
      <4>1. raced' = raced
        BY <2>1 DEF HeardOfKnown
      <4> QED BY <1>1, <1>4, <3>3, <4>1 DEF DisksAgree, DiskAgrees, InStep, Known
    <3> QED BY <2>1, <3>2, <3>3 DEF HeardOfKnown
  <2>2. CASE HeardOfNew(t, a)
    <3>1. raced' = [raced EXCEPT ![t] = a.kind = "set" \/ OrdersTo(t) # {} \/ a.string # own[t]]
      BY <2>2 DEF HeardOfNew
    <3> SUFFICES ASSUME InStep(t)' PROVE DiskAgrees(t)'
      BY DEF DiskAgrees
    <3>2. a.kind = "get" /\ OrdersTo(t) = {} /\ a.string = own[t] /\ ours = "ours"
      BY <1>1, <1>2, <3>1 DEF InStep, Shape
    <3>3. local[t] = "blank"
      BY <2>2 DEF HeardOfNew, UnknownForgotten
    <3>4. PICK copy : copy = handle_aoe_cmd(t, a)
      OBVIOUS
    <3>5. copy = "ours" <=> own[t] = "ours"
      BY <3>2, <3>3, <3>4 DEF handle_aoe_cmd, copied
    <3>6. registered'[t] = (copy = ours)
      BY <2>2, <3>4 DEF HeardOfNew, Shape
    <3>7. OrdersTo(t)' = {}
      BY <1>4, <3>2
    <3> QED BY <1>1, <3>2, <3>5, <3>6, <3>7 DEF DiskAgrees, InStep
  <2>3. CASE UNCHANGED <<hostVars, raced>> /\ ~ Passes(a)
    <3>1. orders' = orders
      BY <1>1, <2>3 DEF Passes
    <3> QED BY <1>1, <2>3, <3>1, AgreementKept DEF hostVars, OrdersTo, DisksAgree
  <2> QED BY <1>1, <2>1, <2>2, <2>3
<1> QED BY <1>3, <1>5 DEF DisksAgree

\* So it does when aoed sets a string (AoEControllerInterface.cpp:721-775).
LEMMA AgreementSet ==
  ASSUME ClaimsAssumption, Shape, DisksAgree, UNCHANGED <<ours, own>>,
         NEW n, NEW s \in OrderStrings,
         \/ set_targets_cstring(n, s) \/ order_not_sent(n, s) \/ NumberUnknown
  PROVE  DisksAgree'
<1>1. ASSUME UNCHANGED <<number, registered, orders, raced>> PROVE DisksAgree'
  BY <1>1, AgreementKept DEF DisksAgree, OrdersTo
<1>2. CASE order_not_sent(n, s) \/ NumberUnknown
  BY <1>1, <1>2 DEF order_not_sent, NumberUnknown, hostVars
<1>3. CASE set_targets_cstring(n, s)
  <2>1. PICK t \in Numbered(n) :
          /\ orders' = orders \union {[target |-> t, string |-> s, id |-> order_tag]}
          /\ IF registered[t] /\ copied(local[t], s) # ours
               THEN remove_target(t)
               ELSE /\ local' = [local EXCEPT ![t] = copied(@, s)]
                    /\ registered' = [registered EXCEPT ![t] = (copied(local[t], s) = ours)]
                    /\ UNCHANGED <<number, mounted>>
          /\ raced' = [raced EXCEPT ![t] = @ \/ Raced(t, s)]
    BY <1>3 DEF set_targets_cstring
  <2>2. t \in Targets /\ t \in Known
    BY DEF Numbered, Known
  <2>3. PICK new : new = [target |-> t, string |-> s, id |-> order_tag]
    OBVIOUS
  <2>4. new.target = t /\ new.string = s /\ orders' = orders \union {new}
    BY <2>1, <2>3
  <2>5. ASSUME NEW u \in Targets, u # t PROVE DiskAgrees(u)'
    <3>1. OrdersTo(u)' = OrdersTo(u)
      BY <2>4, <2>5 DEF OrdersTo
    <3>2. number'[u] = number[u] /\ registered'[u] = registered[u]
      BY <2>1, <2>2, <2>5 DEF remove_target, Shape
    <3>3. raced'[u] = raced[u]
      BY <2>1, <2>2, <2>5 DEF Shape
    <3> QED BY <3>1, <3>2, <3>3, AgreementKept DEF DisksAgree
  <2>6. DiskAgrees(t)'
    <3> SUFFICES ASSUME InStep(t)' PROVE DiskAgrees(t)'
      BY DEF DiskAgrees
    <3>1. ours = "ours" /\ ~ raced[t] /\ ~ Raced(t, s) /\ number'[t] # 0
      BY <2>1, <2>2 DEF InStep, Shape, Known
    <3>2. OrdersTo(t) = {}
      BY <3>1 DEF Raced
    <3>3. OrdersTo(t)' = {new}
      BY <2>4, <3>2 DEF OrdersTo
    <3>4. ~ remove_target(t)
      BY <2>2, <3>1 DEF remove_target, Shape
    <3>5. /\ registered' = [registered EXCEPT ![t] = (copied(local[t], s) = ours)]
          /\ ~ (registered[t] /\ copied(local[t], s) # ours)
      BY <2>1, <3>4
    <3>6. registered'[t] = (copied(local[t], s) = ours)
      BY <2>2, <3>5 DEF Shape
    <3>7. s = "ours" => copied(local[t], s) = "ours"
      BY DEF copied
    <3>8. own[t] = "ours" => registered[t]
      BY <2>2, <3>1 DEF DisksAgree, DiskAgrees, InStep
    <3>9. own'[t] = "ours" => registered'[t]
      BY <3>1, <3>5, <3>6, <3>8
    <3>10. \A o \in OrdersTo(t)' : o.string = "ours" => registered'[t]
      BY <2>4, <3>1, <3>3, <3>6, <3>7
    <3> QED BY <3>3, <3>9, <3>10 DEF DiskAgrees
  <2> QED BY <2>5, <2>6 DEF DisksAgree
<1> QED BY <1>2, <1>3

\* Disks keep going with strings, whatever happens.
LEMMA DisksAgreeStep ==
  ASSUME ClaimsAssumption, OthersOwnStrings, Shape, TagsUnique, UnknownForgotten,
         DisksAgree, [Next]_vars
  PROVE  DisksAgree'
<1>1. ASSUME UNCHANGED <<ours, own, number, registered, orders>>,
             \A u \in Targets : raced[u] => raced'[u]
      PROVE  DisksAgree'
  BY <1>1, AgreementKept DEF DisksAgree, OrdersTo
<1>2. ASSUME NEW t \in Targets, Deliver(t) PROVE DisksAgree'
  BY <1>2, AgreementDelivered
<1>3. ASSUME NEW t \in Targets, AnswerSearch(t) PROVE DisksAgree'
  <2>1. \A u \in Targets : raced[u] => raced'[u]
    BY <1>3 DEF AnswerSearch, Shape
  <2> QED BY <1>1, <1>3, <2>1 DEF AnswerSearch, hostVars
<1>4. ASSUME NEW t \in Targets, AnswerOrder(t) PROVE DisksAgree'
  <2>1. PICK o \in OrdersTo(t) : own' = [own EXCEPT ![t] = o.string]
    BY <1>4 DEF AnswerOrder
  <2>2. o.string # "none"
    BY DEF OrdersTo, Shape, OrderStrings, ClaimsAssumption
  <2>3. UNCHANGED <<ours, number, registered, orders, raced>>
    BY <1>4 DEF AnswerOrder, hostVars
  <2>4. ASSUME NEW u \in Targets PROVE DiskAgrees(u)'
    <3>1. CASE u = t
      <4>1. own'[t] = o.string
        BY <2>1 DEF Shape
      <4>2. OrdersTo(t)' = OrdersTo(t)
        BY <2>3 DEF OrdersTo
      <4> QED BY <2>1, <2>2, <2>3, <3>1, <4>1, <4>2 DEF DisksAgree, DiskAgrees, InStep, Known
    <3>2. CASE u # t
      <4>1. own'[u] = own[u]
        BY <2>1, <3>2 DEF Shape
      <4> QED BY <2>3, <4>1, AgreementKept DEF DisksAgree, OrdersTo
    <3> QED BY <3>1, <3>2
  <2> QED BY <2>4 DEF DisksAgree
<1>5. ASSUME NEW t \in Targets, Lose(t) \/ DiskAppears(t) PROVE DisksAgree'
  BY <1>1, <1>5 DEF Lose, DiskAppears, hostVars
<1>6. ASSUME NEW t \in Targets, OtherHostWrites(t) PROVE DisksAgree'
  <2>1. PICK s \in OtherStrings : own' = [own EXCEPT ![t] = s]
    BY <1>6 DEF OtherHostWrites
  <2>2. s # "none" /\ s # "ours"
    BY DEF OthersOwnStrings
  <2>3. UNCHANGED <<ours, number, registered, orders, raced>>
    BY <1>6 DEF OtherHostWrites, hostVars
  <2>4. ASSUME NEW u \in Targets PROVE DiskAgrees(u)'
    <3>1. own'[u] = own[u] \/ own'[u] = s
      BY <2>1 DEF Shape
    <3>2. OrdersTo(u)' = OrdersTo(u)
      BY <2>3 DEF OrdersTo
    <3> QED BY <2>2, <2>3, <3>1, <3>2 DEF DisksAgree, DiskAgrees, InStep, Known
  <2> QED BY <2>4 DEF DisksAgree
<1>7. ASSUME NEW t \in Targets, GoesDown(t) PROVE DisksAgree'
  <2>1. remove_target(t) /\ UNCHANGED <<ours, own, orders, raced>>
    BY <1>7 DEF GoesDown
  <2>2. ASSUME NEW u \in Targets PROVE DiskAgrees(u)'
    <3>1. CASE u = t
      <4>1. number'[u] = 0
        BY <2>1, <3>1 DEF remove_target, Shape
      <4> QED BY <4>1 DEF DiskAgrees, InStep, Known
    <3>2. CASE u # t
      <4>1. number'[u] = number[u] /\ registered'[u] = registered[u]
        BY <2>1, <3>2 DEF remove_target, Shape
      <4> QED BY <2>1, <4>1, AgreementKept DEF DisksAgree, OrdersTo
    <3> QED BY <3>1, <3>2
  <2> QED BY <2>2 DEF DisksAgree
<1>8. CASE GiveUp
  <2>1. PICK o \in orders : orders' = orders \ {o} /\ raced' = [raced EXCEPT ![o.target] = TRUE]
    BY <1>8 DEF GiveUp
  <2>2. UNCHANGED <<ours, own, number, registered>>
    BY <1>8 DEF GiveUp, hostVars
  <2>3. ASSUME NEW u \in Targets PROVE DiskAgrees(u)'
    <3>1. CASE u = o.target
      BY <2>1, <3>1 DEF DiskAgrees, InStep, Shape
    <3>2. CASE u # o.target
      <4>1. OrdersTo(u)' = OrdersTo(u) /\ raced'[u] = raced[u]
        BY <2>1, <3>2 DEF OrdersTo, Shape
      <4> QED BY <2>2, <4>1, AgreementKept DEF DisksAgree
    <3> QED BY <3>1, <3>2
  <2> QED BY <2>3 DEF DisksAgree
<1>9. CASE SetOurString
  <2>1. \A u \in Targets : raced'[u] = (raced[u] \/ u \in Known)
    BY <1>9 DEF SetOurString
  <2>2. number' = number
    BY <1>9 DEF SetOurString, hostVars
  <2> QED BY <2>1, <2>2 DEF DisksAgree, DiskAgrees, InStep, Known
<1>10. CASE Start \/ LookForDisk \/ Unmounted \/ UnmountFails \/ KeepTarget \/ UNCHANGED vars
  BY <1>1, <1>10 DEF Start, LookForDisk, Unmounted, UnmountFails, KeepTarget, hostVars, vars
<1>11. CASE Claim
  <2>1. "ours" \in OrderStrings
    BY DEF OrderStrings
  <2> QED BY <1>11, <2>1, AgreementSet DEF Claim
<1>12. CASE Unclaim
  <2>1. GarbageBytes \subseteq OrderStrings /\ "ours" \in OrderStrings
    BY DEF OrderStrings
  <2>2. UNCHANGED <<ours, own>>
    BY <1>12 DEF Unclaim
  <2>3. \/ \E s \in GarbageBytes : \/ set_targets_cstring(Head(session.todo), s)
                                   \/ order_not_sent(Head(session.todo), s)
        \/ NumberUnknown
    BY <1>12 DEF Unclaim
  <2> QED BY <2>1, <2>2, <2>3, AgreementSet
<1> QED
  BY <1>2, <1>3, <1>4, <1>5, <1>6, <1>7, <1>8, <1>9, <1>10, <1>11, <1>12 DEF Next

OwnershipInv == Shape /\ TagsUnique /\ UnknownForgotten /\ DisksAgree

\* Nothing is under way when the driver starts.
LEMMA OwnershipInit ==
  ASSUME ClaimsAssumption, Init
  PROVE  OwnershipInv
<1>1. Shape
  BY ShapeInit
<1>2. TagsUnique
  <2>1. orders = {} /\ \A t \in Targets : answers[t] = <<>>
    BY DEF Init
  <2>2. DOMAIN <<>> = {}
    OBVIOUS
  <2> QED BY <2>1, <2>2 DEF TagsUnique
<1>3. UnknownForgotten
  BY DEF Init, UnknownForgotten
<1>4. DisksAgree
  BY DEF Init, DisksAgree, DiskAgrees, InStep
<1> QED BY <1>1, <1>2, <1>3, <1>4 DEF OwnershipInv

\* An answer that says what the target stores, while nothing else is under way
\* (AoEControllerInterface.cpp:365-463).
LEMMA HeardStep ==
  ASSUME ClaimsAssumption, OwnershipInv, NEW t \in Targets, Heard(t), ~ raced'[t]
  PROVE  /\ own[t] = "ours" => registered'[t]
         /\ registered'[t] => own[t] \in {"ours", "first"}
<1>1. PICK a \in Answer :
        /\ a = Head(answers[t])
        /\ \/ HeardOfKnown(t, a) \/ HeardOfNew(t, a)
           \/ UNCHANGED <<hostVars, raced>> /\ ~ Passes(a)
  BY Delivered DEF Heard, OwnershipInv
<1>2. /\ a.kind = "get" /\ a.string = own[t] /\ ours = "ours" /\ OrdersTo(t) = {}
      /\ own[t] \in Strings
  BY <1>1 DEF Heard, OwnershipInv, Shape
<1>3. PICK copy : copy = handle_aoe_cmd(t, a)
  OBVIOUS
<1>4. /\ own[t] = "ours" => copy = "ours"
      /\ own[t] \in Foreign => copy # "ours"
      /\ own[t] \in {"none", "ours", "first"} \union Foreign
  <2>1. copy = copied(local[t], own[t]) /\ local[t] \in Copies
    BY <1>2, <1>3 DEF handle_aoe_cmd, OwnershipInv, Shape
  <2> QED BY <1>2, <2>1, CopiedString DEF Strings, Foreign
<1>5. CASE HeardOfKnown(t, a)
  <2>1. /\ t \in Known /\ ~ raced[t]
        /\ IF copy # ours /\ registered[t]
             THEN remove_target(t)
             ELSE registered' = registered
    BY <1>3, <1>5 DEF HeardOfKnown
  <2>2. /\ own[t] = "ours" => registered[t]
        /\ ~ (own[t] = "none" /\ registered[t])
    BY <1>2, <2>1 DEF OwnershipInv, DisksAgree, DiskAgrees, InStep
  <2>3. CASE copy # ours /\ registered[t]
    <3>1. ~ registered'[t]
      BY <2>1, <2>3 DEF remove_target, OwnershipInv, Shape
    <3>2. own[t] # "ours"
      BY <1>2, <1>4, <2>3
    <3> QED BY <3>1, <3>2
  <2>4. CASE ~ (copy # ours /\ registered[t])
    <3>1. registered'[t] = registered[t]
      BY <2>1, <2>4
    <3> QED BY <1>2, <1>4, <2>2, <2>4, <3>1
  <2> QED BY <2>3, <2>4
<1>6. CASE HeardOfNew(t, a)
  <2>1. local[t] = "blank"
    BY <1>6 DEF HeardOfNew, OwnershipInv, UnknownForgotten
  <2>2. registered'[t] = (copy = ours)
    BY <1>3, <1>6 DEF HeardOfNew, OwnershipInv, Shape
  <2>3. own[t] = "none" => copy # "ours"
    BY <1>2, <1>3, <2>1 DEF handle_aoe_cmd, copied
  <2> QED BY <1>2, <1>4, <2>2, <2>3
<1>7. CASE ~ Passes(a)
  BY <1>2, <1>7 DEF Passes
<1> QED BY <1>1, <1>5, <1>6, <1>7

\* A target says what it stores, nothing else is under way and no packets about it
\* overtook each other: then its disk is there when it stores our string, and only
\* then but for the byte of -C that leaves the copy what it was, whatever claims, unclaims, removals and writes of other hosts came before
\* (AoEControllerInterface.cpp:365-384, 735-757).
THEOREM RegisteredRight == OthersOwnStrings => (Spec => RegisteredAsStored)
<1> SUFFICES ASSUME OthersOwnStrings PROVE Spec => RegisteredAsStored
  OBVIOUS
<1>1. ClaimsAssumption
  BY ClaimsAssumption
<1>2. Init => OwnershipInv
  BY <1>1, OwnershipInit
<1>3. OwnershipInv /\ [Next]_vars => OwnershipInv'
  BY <1>1, ShapeStep, TagsUniqueStep, UnknownForgottenStep, DisksAgreeStep DEF OwnershipInv
<1>4. OwnershipInv /\ [Next]_vars
      => [\A t \in Targets : Heard(t) /\ ~ raced'[t] =>
            /\ own[t] = "ours" => registered'[t]
            /\ registered'[t] => own[t] \in {"ours", "first"}]_vars
  BY <1>1, HeardStep
<1> QED BY <1>2, <1>3, <1>4, PTL DEF Spec, RegisteredAsStored

=============================================================================

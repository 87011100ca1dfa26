--------------------------- MODULE AgentStateProofs ----------------------------
(* Proofs about AgentState, for any callers and any number of messages,    *)
(* calls, connections and restarts.                                        *)
EXTENDS AgentState, TLAPS

USE AgentStateAssumption DEF replyVars, presenceVars, counters

Targets == [from : Nat, group : Nat, id : Nat]
Statuses == [state : Nat, text : Nat]

CallType ==
    [op : {"none", "reply", "react", "status"},
     step : {"none", "from", "group", "id", "send", "state", "text", "relay"},
     to : Targets, since : Nat, mixed : BOOLEAN, v : Nat]

\* The types of the calls and of what they read.
Types ==
    /\ call \in [Callers -> CallType] /\ calls \in Nat /\ done \in Nat
    /\ target \in Targets /\ row \in Targets
    /\ status \in Statuses /\ saved \in Statuses
    /\ torn \in BOOLEAN

\* The idle call and the empty target are well formed.
LEMMA ZeroTypes == Idle \in CallType /\ NoTarget \in Targets
BY DEF Idle, CallType, NoTarget, Targets

\* So is the target of every message.
LEMMA TargetType == \A m \in Nat : TargetOf(m) \in Targets
BY DEF TargetOf, Targets

\* Every step keeps the types.
LEMMA TypesInvariant == Spec => []Types
<1>1. Init => Types
  <2>1. StatusOf(0) \in Statuses
    BY DEF StatusOf, Statuses
  <2>2. ASSUME Init PROVE call \in [Callers -> CallType]
    BY <2>2, ZeroTypes DEF Init
  <2>3. ASSUME Init
        PROVE  /\ target \in Targets /\ row \in Targets /\ status \in Statuses
               /\ saved \in Statuses /\ torn \in BOOLEAN /\ calls \in Nat /\ done \in Nat
    BY <2>1, <2>3, ZeroTypes DEF Init
  <2>4. QED
    BY <2>2, <2>3 DEF Types
<1>2. Types /\ [Next]_vars => Types'
  <2> SUFFICES ASSUME Types, [Next]_vars PROVE Types'
    OBVIOUS
  <2> USE DEF Types
  <2>1. CASE SetLastInbound
    <3>1. TargetOf(done + 1) \in Targets
      BY TargetType
    <3>2. QED
      BY <2>1, <3>1 DEF SetLastInbound
  <2>2. CASE StoreTarget
    <3>1. row' \in Targets
      BY <2>2 DEF StoreTarget, Targets
    <3>2. done' \in Nat
      BY <2>2 DEF StoreTarget
    <3>3. torn' \in BOOLEAN
      BY <2>2 DEF StoreTarget
    <3>4. call' \in [Callers -> CallType]
      <4>1. ASSUME NEW k \in CallType PROVE [k EXCEPT !.mixed = TRUE] \in CallType
        BY DEF CallType
      <4>2. call' = [c \in Callers |->
                       IF Reading(c) THEN [call[c] EXCEPT !.mixed = TRUE] ELSE call[c]]
        BY <2>2, Zenon DEF StoreTarget
      <4>3. \A c \in Callers : call[c] \in CallType
        OBVIOUS
      <4> HIDE DEF Types
      <4>4. QED
        BY <4>1, <4>2, <4>3
    <3>5. QED
      BY <2>2, <3>1, <3>2, <3>3, <3>4 DEF StoreTarget
  <2>3. CASE Authenticated
    BY <2>3 DEF Authenticated
  <2>4. CASE OnReady
    BY <2>4 DEF OnReady
  <2>5. CASE Disconnected
    BY <2>5 DEF Disconnected
  <2>6. CASE Restart
    BY <2>6, ZeroTypes DEF Restart
  <2>7. ASSUME NEW c \in Callers, NEW op \in {"reply", "react"}, GetLastInbound(c, op)
        PROVE  Types'
    <3>1. call' \in [Callers -> CallType]
      BY <2>7, ZeroTypes DEF GetLastInbound, Begin, CallType, Idle
    <3>2. QED
      BY <2>7, <3>1 DEF GetLastInbound, Begin
  <2>8. ASSUME NEW c \in Callers, ReadRow(c) PROVE Types'
    <3>1. call' \in [Callers -> CallType]
      BY <2>8 DEF ReadRow, CallType, Targets
    <3>2. QED
      BY <2>8, <3>1 DEF ReadRow
  <2>9. ASSUME NEW c \in Callers, SendReply(c) \/ SendReaction(c) PROVE Types'
    BY <2>9, ZeroTypes DEF SendReply, SendReaction
  <2>10. ASSUME NEW c \in Callers, Status(c) PROVE Types'
    <3>1. calls' \in Nat /\ status' \in Statuses
      BY <2>10 DEF Status, Begin, StatusOf, Statuses
    <3>2. call' \in [Callers -> CallType]
      BY <2>10, <3>1, ZeroTypes DEF Status, CallType, Idle
    <3>3. QED
      BY <2>10, <3>1, <3>2 DEF Status
  <2>11. ASSUME NEW c \in Callers, StoreStatus(c) PROVE Types'
    <3>1. saved' \in Statuses
      BY <2>11 DEF StoreStatus, Statuses, CallType
    <3>2. call' \in [Callers -> CallType]
      BY <2>11 DEF StoreStatus, CallType
    <3>3. QED
      BY <2>11, <3>1, <3>2 DEF StoreStatus
  <2>12. ASSUME NEW c \in Callers, SendStatus(c) PROVE Types'
    BY <2>12, ZeroTypes DEF SendStatus
  <2>13. CASE UNCHANGED vars
    BY <2>13 DEF vars
  <2>14. QED
    BY <2>1, <2>2, <2>3, <2>4, <2>5, <2>6, <2>7, <2>8, <2>9, <2>10, <2>11, <2>12, <2>13
       DEF Next, Operation, Reply, React
<1>3. QED
  BY <1>1, <1>2, PTL DEF Spec

-----------------------------------------------------------------------------
(* The status                                                               *)

Asserting == onReady.step = "assert" /\ onReady.v = status

Setting(c) == call[c].op = "status" /\ StatusOf(call[c].v) = status

\* A relay that has not the agent's status is about to get it, from onReady or from
\* the call that set it last.
StatusInv ==
    authed => \/ relay = status \/ crossed \/ passed
              \/ Asserting \/ \E c \in Callers : Setting(c)

\* Every step keeps StatusInv: whoever changes the status is a call that will send it.
LEMMA StatusInvariant == Spec => []StatusInv
<1>1. Init => StatusInv
  BY DEF Init, StatusInv
<1>2. Types /\ StatusInv /\ [Next]_vars => StatusInv'
  <2> SUFFICES ASSUME Types, StatusInv, [Next]_vars PROVE StatusInv'
    OBVIOUS
  <2>0. ASSUME UNCHANGED <<relay, status, crossed, passed, onReady, authed>>,
               \A d \in Callers : Setting(d) => Setting(d)'
        PROVE  StatusInv'
    BY <2>0 DEF StatusInv, Asserting
  <2>1. CASE SetLastInbound
    <3>1. \A d \in Callers : Setting(d) => Setting(d)'
      BY <2>1 DEF SetLastInbound, Setting
    <3>2. QED
      BY <2>0, <2>1, <3>1 DEF SetLastInbound
  <2>2. CASE StoreTarget
    <3>1. \A d \in Callers : Setting(d) => Setting(d)'
      BY <2>2 DEF StoreTarget, Setting, Reading
    <3>2. QED
      BY <2>0, <2>2, <3>1 DEF StoreTarget
  <2>3. CASE Authenticated
    <3>1. CASE onReady.step # "none"
      BY <2>3, <3>1 DEF Authenticated, StatusInv
    <3>2. CASE onReady.step = "none"
      BY <2>3, <3>2 DEF Authenticated, StatusInv, Asserting
    <3>3. QED
      BY <3>1, <3>2
  <2>4. CASE OnReady
    <3>1. CASE onReady.step = "assert"
      BY <2>4, <3>1 DEF OnReady, StatusInv, SetPresence
    <3>2. CASE onReady.step = "flush"
      BY <2>4, <3>2 DEF OnReady, StatusInv, Asserting, Setting
    <3>3. QED
      BY <2>4, <3>1, <3>2 DEF OnReady
  <2>5. CASE Disconnected
    BY <2>5 DEF Disconnected, StatusInv
  <2>6. CASE Restart
    BY <2>6 DEF Restart, StatusInv
  <2>7. ASSUME NEW c \in Callers, NEW op \in {"reply", "react"}, GetLastInbound(c, op)
        PROVE  StatusInv'
    <3>1. \A d \in Callers : Setting(d) => Setting(d)'
      BY <2>7 DEF GetLastInbound, Begin, Setting, Idle, Types
    <3>2. QED
      BY <2>0, <2>7, <3>1 DEF GetLastInbound
  <2>8. ASSUME NEW c \in Callers, ReadRow(c) PROVE StatusInv'
    <3>1. \A d \in Callers : Setting(d) => Setting(d)'
      BY <2>8 DEF ReadRow, At, Setting, Types, CallType
    <3>2. QED
      BY <2>0, <2>8, <3>1 DEF ReadRow
  <2>9. ASSUME NEW c \in Callers, SendReply(c) \/ SendReaction(c) PROVE StatusInv'
    <3>1. \A d \in Callers : Setting(d) => Setting(d)'
      BY <2>9 DEF SendReply, SendReaction, At, Setting, Types
    <3>2. QED
      BY <2>0, <2>9, <3>1 DEF SendReply, SendReaction
  <2>10. ASSUME NEW c \in Callers, Status(c) PROVE StatusInv'
    <3>1. Setting(c)'
      BY <2>10 DEF Status, Setting, Types, Idle
    <3>2. QED
      BY <3>1 DEF StatusInv
  <2>11. ASSUME NEW c \in Callers, StoreStatus(c) PROVE StatusInv'
    <3>1. \A d \in Callers : Setting(d) => Setting(d)'
      BY <2>11 DEF StoreStatus, At, Setting, Types, CallType
    <3>2. QED
      BY <2>0, <2>11, <3>1 DEF StoreStatus
  <2>12. ASSUME NEW c \in Callers, SendStatus(c) PROVE StatusInv'
    <3>1. CASE authed
      BY <2>12, <3>1 DEF SendStatus, SetPresence, StatusInv
    <3>2. CASE ~authed
      BY <2>12, <3>2 DEF SendStatus, StatusInv
    <3>3. QED
      BY <3>1, <3>2
  <2>13. CASE UNCHANGED vars
    BY <2>0, <2>13 DEF vars, Setting
  <2>14. QED
    BY <2>1, <2>2, <2>3, <2>4, <2>5, <2>6, <2>7, <2>8, <2>9, <2>10, <2>11, <2>12, <2>13
       DEF Next, Operation, Reply, React
<1>3. QED
  BY <1>1, <1>2, TypesInvariant, PTL DEF Spec

\* Once onReady and every call of Status are done, the relay of an authenticated
\* connection has the agent's status, but for the two races (Status, onReady).
THEOREM RelayGetsTheStatus == Spec => []RelayHasTheStatus
<1>1. StatusInv => RelayHasTheStatus
  BY DEF StatusInv, RelayHasTheStatus, Asserting, Setting
<1>2. QED
  BY <1>1, StatusInvariant, PTL

-----------------------------------------------------------------------------
(* The reply target                                                         *)

\* The memory has the target of the message in hand or of the last one, or none after a
\* restart; the rows have that of the last one, unless they are half written or torn.
TargetInv ==
    /\ writing \in {"none", "from", "group", "id"} /\ done <= MaxMessages
    /\ writing = "none" => target = NoTarget \/ target = TargetOf(done)
    /\ writing # "none" => done < MaxMessages /\ target = TargetOf(done + 1)
    /\ writing \in {"group", "id"} => row.from = target.from
    /\ writing = "id" => row.group = target.group
    /\ ~torn /\ writing \in {"none", "from"} => row = TargetOf(done)

\* The absent message has the empty target.
LEMMA NoMessage == TargetOf(0) = NoTarget
BY DEF TargetOf, NoTarget

\* Every step keeps TargetInv, a crash between two rows by setting torn.
LEMMA TargetInvariant == Spec => []TargetInv
<1>1. Init => TargetInv
  BY NoMessage DEF Init, TargetInv
<1>2. Types /\ TargetInv /\ [Next]_vars => TargetInv'
  <2> SUFFICES ASSUME Types, TargetInv, [Next]_vars PROVE TargetInv'
    OBVIOUS
  <2> USE DEF TargetInv
  <2>1. CASE SetLastInbound
    BY <2>1 DEF SetLastInbound, Types
  <2>2. CASE StoreTarget
    <3>1. CASE writing = "from"
      BY <2>2, <3>1 DEF StoreTarget, Types, Targets
    <3>2. CASE writing = "group"
      BY <2>2, <3>2 DEF StoreTarget, Types, Targets
    <3>3. CASE writing = "id"
      <4>1. row' = [row EXCEPT !.id = target.id] /\ done' = done + 1 /\ target' = target
            /\ writing' = "none" /\ torn' = FALSE
        BY <2>2, <3>3 DEF StoreTarget
      <4>2. row' = target
        BY <3>3, <4>1 DEF Types, Targets
      <4>3. QED
        BY <3>3, <4>1, <4>2 DEF Types
    <3>4. QED
      BY <2>2, <3>1, <3>2, <3>3 DEF StoreTarget
  <2>3. CASE Restart
    BY <2>3 DEF Restart, Types
  <2>4. CASE UNCHANGED replyVars
    BY <2>4
  <2>5. Authenticated \/ OnReady \/ Disconnected \/ UNCHANGED vars => UNCHANGED replyVars
    BY DEF Authenticated, OnReady, Disconnected, vars
  <2>6. ASSUME NEW c \in Callers, Operation(c) PROVE UNCHANGED replyVars
    BY <2>6 DEF Operation, Reply, React, GetLastInbound, ReadRow, SendReply, SendReaction,
       Status, StoreStatus, SendStatus
  <2>7. QED
    BY <2>1, <2>2, <2>3, <2>4, <2>5, <2>6 DEF Next
<1>3. QED
  BY <1>1, <1>2, TypesInvariant, PTL DEF Spec

\* The call has its target.
Targeted(c) == call[c].op \in {"reply", "react"} /\ call[c].step = "send"

\* A call that reads the rows, with no write and no tear, has what they hold; one that
\* is about to send has the target of one message.
ReadInv ==
    \A c \in Callers :
        /\ Reading(c) /\ ~call[c].mixed =>
             /\ ~torn /\ writing \in {"none", "from"} /\ call[c].since = done
             /\ call[c].step \in {"group", "id"} => call[c].to.from = row.from
             /\ call[c].step = "id" => call[c].to.group = row.group
        /\ Targeted(c) /\ ~call[c].mixed =>
             \E m \in 0..MaxMessages : m >= call[c].since /\ call[c].to = TargetOf(m)

\* Every step keeps ReadInv: a row written under a reader sets mixed.
LEMMA ReadInvariant == Spec => []ReadInv
<1>1. Init => ReadInv
  BY DEF Init, ReadInv, Reading, Targeted, Idle
<1>2. Types /\ TargetInv /\ ReadInv /\ [Next]_vars => ReadInv'
  <2> SUFFICES ASSUME Types, TargetInv, ReadInv, [Next]_vars,
                      NEW d \in Callers
               PROVE  /\ (Reading(d) /\ ~call[d].mixed =>
                            /\ ~torn /\ writing \in {"none", "from"} /\ call[d].since = done
                            /\ call[d].step \in {"group", "id"} => call[d].to.from = row.from
                            /\ call[d].step = "id" => call[d].to.group = row.group)'
                      /\ (Targeted(d) /\ ~call[d].mixed =>
                            \E m \in 0..MaxMessages : m >= call[d].since /\ call[d].to = TargetOf(m))'
    BY DEF ReadInv
  <2> USE DEF Reading, Targeted, At
  <2>0. CASE call'[d] = call[d] /\ UNCHANGED <<torn, writing, done, row>>
    BY <2>0 DEF ReadInv
  <2>1. CASE SetLastInbound
    BY <2>1 DEF SetLastInbound, ReadInv, TargetInv
  <2>2. CASE StoreTarget
    <3>1. CASE Reading(d)
      BY <2>2, <3>1 DEF StoreTarget, Types, CallType
    <3>2. CASE ~Reading(d)
      BY <2>2, <3>2 DEF StoreTarget, Types, ReadInv
    <3>3. QED
      BY <3>1, <3>2
  <2>3. CASE Restart
    BY <2>3 DEF Restart, Idle
  <2>4. Authenticated \/ OnReady \/ Disconnected \/ UNCHANGED vars
          => call' = call /\ UNCHANGED <<torn, writing, done, row>>
    BY DEF Authenticated, OnReady, Disconnected, vars
  <2>5. ASSUME NEW c \in Callers, Operation(c)
        PROVE  UNCHANGED <<torn, writing, done, row>> /\ (c # d => call'[d] = call[d])
    BY <2>5 DEF Operation, Reply, React, GetLastInbound, Begin, ReadRow, SendReply, SendReaction,
       Status, StoreStatus, SendStatus, Types
  <2>6. ASSUME NEW op \in {"reply", "react"}, GetLastInbound(d, op)
        PROVE  /\ (Reading(d) /\ ~call[d].mixed =>
                     /\ ~torn /\ writing \in {"none", "from"} /\ call[d].since = done
                     /\ call[d].step \in {"group", "id"} => call[d].to.from = row.from
                     /\ call[d].step = "id" => call[d].to.group = row.group)'
               /\ (Targeted(d) /\ ~call[d].mixed =>
                     \E m \in 0..MaxMessages : m >= call[d].since /\ call[d].to = TargetOf(m))'
    <3>0. target.from = 0 => target.id = 0
      BY DEF TargetInv, TargetOf, NoTarget, Types
    <3>1. /\ call'[d].op = op /\ call'[d].since = done /\ call'[d].to = target
          /\ call'[d].step = IF target.from = 0 THEN "from" ELSE "send"
          /\ call'[d].mixed = (target.from = 0 /\ torn)
          /\ UNCHANGED <<torn, writing, done, row, target>>
      BY <2>6, <3>0 DEF GetLastInbound, Begin, Types, Idle
    <3>2. CASE target.from = 0
      <4>1. writing = "none"
        BY <3>2 DEF TargetInv, TargetOf, Types
      <4>2. QED
        BY <3>1, <3>2, <4>1
    <3>3. CASE target.from # 0
      <4>1. target = TargetOf(done) \/ (done < MaxMessages /\ target = TargetOf(done + 1))
        BY <3>3 DEF TargetInv, NoTarget
      <4>2. \E m \in 0..MaxMessages : m >= done /\ target = TargetOf(m)
        <5>1. done \in 0..MaxMessages /\ done >= done
          BY DEF TargetInv, Types
        <5>2. done < MaxMessages => done + 1 \in 0..MaxMessages /\ done + 1 >= done
          BY <5>1 DEF Types
        <5>3. QED
          BY <4>1, <5>1, <5>2
      <4>3. QED
        BY <3>1, <3>3, <4>2
    <3>4. QED
      BY <3>2, <3>3
  <2>7. CASE ReadRow(d)
    <3>0. call[d].op \in {"reply", "react"} /\ UNCHANGED <<torn, writing, done, row>>
      BY <2>7 DEF ReadRow
    <3>1. CASE call[d].step = "from"
      BY <2>7, <3>1 DEF ReadRow, Types, CallType, Targets, ReadInv
    <3>2. CASE call[d].step = "group"
      BY <2>7, <3>2 DEF ReadRow, Types, CallType, Targets, ReadInv
    <3>3. CASE call[d].step = "id"
      <4>1. call'[d] = [call[d] EXCEPT !.step = "send", !.to.id = row.id]
        BY <2>7, <3>3 DEF ReadRow, Types
      <4>2. call'[d].mixed = call[d].mixed /\ call'[d].since = call[d].since
            /\ call'[d].to = [from |-> call[d].to.from, group |-> call[d].to.group, id |-> row.id]
            /\ call'[d].step = "send"
        BY <4>1 DEF Types, CallType, Targets
      <4>3. ASSUME ~call[d].mixed
            PROVE  call'[d].to = TargetOf(done) /\ call[d].since = done
        <5>1. /\ ~torn /\ writing \in {"none", "from"} /\ call[d].since = done
              /\ call[d].to.from = row.from /\ call[d].to.group = row.group
          BY <3>0, <3>3, <4>3 DEF ReadInv
        <5>2. row = TargetOf(done)
          BY <5>1 DEF TargetInv
        <5>3. row = [from |-> row.from, group |-> row.group, id |-> row.id]
          BY DEF Types, Targets
        <5>4. QED
          BY <4>2, <5>1, <5>2, <5>3
      <4>4. done \in 0..MaxMessages /\ done >= done
        BY DEF TargetInv, Types
      <4>5. QED
        BY <4>2, <4>3, <4>4
    <3>4. QED
      BY <2>7, <3>1, <3>2, <3>3 DEF ReadRow
  <2>8. CASE SendReply(d) \/ SendReaction(d)
    BY <2>8 DEF SendReply, SendReaction, Types, Idle
  <2>9. CASE Status(d)
    BY <2>9 DEF Status, Types, Idle
  <2>10. CASE StoreStatus(d)
    BY <2>10 DEF StoreStatus, Types, CallType
  <2>11. CASE SendStatus(d)
    BY <2>11 DEF SendStatus, Types, Idle
  <2>12. CASE Operation(d)
    BY <2>6, <2>7, <2>8, <2>9, <2>10, <2>11, <2>12 DEF Operation, Reply, React
  <2>13. QED
    BY <2>0, <2>1, <2>2, <2>3, <2>4, <2>5, <2>12 DEF Next
<1>3. QED
  BY <1>1, <1>2, TypesInvariant, TargetInvariant, PTL DEF Spec

\* A reply goes where one message came from, and a reaction names that message, not
\* older than the last one handled when the call began, restarts included, unless it
\* read rows partly written or torn (setLastInbound, getLastInbound).
THEOREM ReplyTargetIsWhole == Spec => []ReplyIsToOneMessage
<1>1. ReadInv => ReplyIsToOneMessage
  <2> SUFFICES ASSUME ReadInv, NEW c \in Callers, Targeted(c), ~call[c].mixed
               PROVE  \E m \in 0..MaxMessages :
                        m >= call[c].since
                        /\ call[c].to = (IF m = 0 THEN NoTarget ELSE TargetOf(m))
    BY DEF ReplyIsToOneMessage, Targeted
  <2>1. PICK m \in 0..MaxMessages : m >= call[c].since /\ call[c].to = TargetOf(m)
    BY DEF ReadInv
  <2>2. QED
    BY <2>1, NoMessage
<1>2. QED
  BY <1>1, ReadInvariant, PTL
===============================================================================

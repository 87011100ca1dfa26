----------------------------- MODULE InboundProofs -----------------------------
(* Proofs about Inbound, for any peers, messages of any kinds, requests    *)
(* and bounds.                                                             *)
EXTENDS Inbound, TLAPS

USE InboundAssumption DEF Kinds, opVars, loopVars, tables, ghosts

-----------------------------------------------------------------------------
(* Types                                                                    *)

Points == {"read", "blocked?", "contact?", "pend", "notified?", "mark", "announce", "save",
           "muted?", "surface", "ack"}
Stages == {"idle", "select", "delete", "deliver", "uncontact", "unpend"}
Trusts == {"pending", "normal", "reaction"}

LoopTypes ==
    /\ at \in Points /\ hand \in Messages \cup {Nothing} /\ (hand = Nothing <=> at = "read")
    /\ relayQueue \in SUBSET Messages /\ acked \in SUBSET Messages

\* The tables and what became of their rows.
TableTypes ==
    /\ contacts \in SUBSET Peers /\ blocked \in SUBSET Peers /\ muted \in SUBSET Peers
    /\ pending \in SUBSET Messages /\ notified \in SUBSET pending /\ history \in SUBSET Messages
    /\ refused \in SUBSET Messages /\ purged \in SUBSET Messages
    /\ unread \in SUBSET Messages /\ cut \in SUBSET Messages /\ approved \in SUBSET Peers

OpTypes ==
    /\ opAt \in [Requests -> Stages] /\ opPeer \in [Requests -> Peers \cup {Nothing}]
    /\ taken \in [Requests -> SUBSET Messages]

\* A message in hand has been delivered, and no event is of a later delivery than the last.
CountTypes ==
    /\ crashes \in 0..MaxCrashes /\ ops \in 0..MaxOps
    /\ deliveries \in [Messages -> Nat] /\ surfaced \in [Messages -> SUBSET (Trusts \X Nat)]
    /\ \A m \in Messages : deliveries[m] <= MaxDeliveries[m]
    /\ \A m \in Messages : surfaced[m] \subseteq Trusts \X (1..MaxDeliveries[m])
    /\ hand # Nothing => deliveries[hand] >= 1

\* What each step does to the read loop's place.
LEMMA LoopTypesInvariant == Spec => []LoopTypes
<1> USE DEF LoopTypes, Points
<1>1. Init => LoopTypes
  BY DEF Init
<1>2. LoopTypes /\ [Next]_vars => LoopTypes'
  <2> SUFFICES ASSUME LoopTypes, [Next]_vars PROVE LoopTypes'
    OBVIOUS
  <2>1. ASSUME NEW m \in Messages, Receive(m) PROVE LoopTypes'
    BY <2>1 DEF Receive
  <2>2. CASE CheckBlocked
    BY <2>2 DEF CheckBlocked, Then
  <2>3. CASE CheckContact
    BY <2>3 DEF CheckContact, Then
  <2>4. CASE SavePending \/ CheckNotified \/ MarkNotified
    BY <2>4 DEF SavePending, CheckNotified, MarkNotified, Then
  <2>5. CASE Announce \/ Save \/ CheckMuted \/ SurfaceMessage
    BY <2>5 DEF Announce, Save, CheckMuted, SurfaceMessage, Then
  <2>6. CASE Ack
    BY <2>6 DEF Ack
  <2>7. CASE Crash
    BY <2>7 DEF Crash
  <2>8. ASSUME NEW r \in Requests, Operation(r) PROVE LoopTypes'
    BY <2>8 DEF Operation, AddContact, RemoveContact, Block, Unblock, Mute, SelectPending,
                DeletePending, DeliverPending, BlockRemovesContact, BlockRemovesPending
  <2>9. CASE UNCHANGED vars
    BY <2>9 DEF vars
  <2>10. QED
    BY <2>1, <2>2, <2>3, <2>4, <2>5, <2>6, <2>7, <2>8, <2>9 DEF Next, ReadLoop
<1>3. QED
  BY <1>1, <1>2, PTL DEF Spec

\* What each step does to the tables and to a request's place.
LEMMA TablesInvariant == Spec => [](TableTypes /\ OpTypes)
<1> USE DEF OpTypes, TableTypes, Stages
<1>1. Init => TableTypes /\ OpTypes
  BY DEF Init
<1>2. TableTypes /\ OpTypes /\ [Next]_vars => OpTypes'
  <2> SUFFICES ASSUME TableTypes, OpTypes, [Next]_vars PROVE OpTypes'
    OBVIOUS
  <2>1. CASE ReadLoop \/ UNCHANGED vars
    BY <2>1 DEF ReadLoop, Receive, CheckBlocked, CheckContact, SavePending, CheckNotified,
                MarkNotified, Announce, Save, CheckMuted, SurfaceMessage, Ack, vars
  <2>2. CASE Crash
    BY <2>2 DEF Crash
  <2>3. ASSUME NEW r \in Requests, NEW p \in Peers,
               AddContact(r, p) \/ RemoveContact(r, p) \/ Block(r, p) \/ Unblock(r, p) \/ Mute(r, p)
        PROVE  OpTypes'
    BY <2>3 DEF AddContact, RemoveContact, Block, Unblock, Mute, Begin
  <2>4. ASSUME NEW r \in Requests, SelectPending(r) PROVE OpTypes'
    BY <2>4 DEF SelectPending, Goto
  <2>5. ASSUME NEW r \in Requests, DeliverPending(r) PROVE OpTypes'
    BY <2>5 DEF DeliverPending, Goto
  <2>6. ASSUME NEW r \in Requests, DeletePending(r) \/ BlockRemovesContact(r) \/ BlockRemovesPending(r)
        PROVE  OpTypes'
    BY <2>6 DEF DeletePending, BlockRemovesContact, BlockRemovesPending, Goto
  <2>7. QED
    BY <2>1, <2>2, <2>3, <2>4, <2>5, <2>6 DEF Next, Operation
<1>3. LoopTypes /\ TableTypes /\ OpTypes /\ [Next]_vars => TableTypes'
  <2> SUFFICES ASSUME LoopTypes, TableTypes, OpTypes, [Next]_vars PROVE TableTypes'
    OBVIOUS
  <2> USE DEF LoopTypes
  <2>1. CASE CheckBlocked
    BY <2>1 DEF CheckBlocked
  <2>2. CASE SavePending
    BY <2>2 DEF SavePending
  <2>3. CASE MarkNotified
    BY <2>3 DEF MarkNotified
  <2>4. CASE Save
    BY <2>4 DEF Save
  <2>5. CASE Crash
    <3>1. UNION {taken[r] : r \in {q \in Requests : opAt[q] = "deliver"}} \subseteq Messages
      OBVIOUS
    <3>2. QED
      BY <2>5, <3>1 DEF Crash
  <2>6. CASE \/ \E m \in Messages : Receive(m)
             \/ CheckContact \/ CheckNotified \/ Announce \/ CheckMuted \/ SurfaceMessage \/ Ack
             \/ UNCHANGED vars
    BY <2>6 DEF Receive, CheckContact, CheckNotified, Announce, CheckMuted, SurfaceMessage, Ack, vars
  <2>7. ASSUME NEW r \in Requests, NEW p \in Peers, AddContact(r, p) PROVE TableTypes'
    BY <2>7 DEF AddContact
  <2>8. ASSUME NEW r \in Requests, NEW p \in Peers,
               RemoveContact(r, p) \/ Block(r, p) \/ Unblock(r, p) \/ Mute(r, p)
        PROVE  TableTypes'
    BY <2>8 DEF RemoveContact, Block, Unblock, Mute
  <2>9. ASSUME NEW r \in Requests, SelectPending(r) \/ BlockRemovesContact(r) PROVE TableTypes'
    BY <2>9 DEF SelectPending, BlockRemovesContact
  <2>10. ASSUME NEW r \in Requests, DeletePending(r) PROVE TableTypes'
    BY <2>10 DEF DeletePending
  <2>11. ASSUME NEW r \in Requests, DeliverPending(r) PROVE TableTypes'
    BY <2>11 DEF DeliverPending
  <2>12. ASSUME NEW r \in Requests, BlockRemovesPending(r) PROVE TableTypes'
    BY <2>12 DEF BlockRemovesPending
  <2>13. QED
    BY <2>1, <2>2, <2>3, <2>4, <2>5, <2>6, <2>7, <2>8, <2>9, <2>10, <2>11, <2>12
       DEF Next, ReadLoop, Operation
<1>4. QED
  BY <1>1, <1>2, <1>3, LoopTypesInvariant, PTL DEF Spec

\* What each step does to the counters and the events.
LEMMA CountsInvariant == Spec => []CountTypes
<1> USE DEF CountTypes, Trusts
<1>1. Init => CountTypes
  BY DEF Init
<1>2. LoopTypes /\ CountTypes /\ [Next]_vars => CountTypes'
  <2> SUFFICES ASSUME LoopTypes, CountTypes, [Next]_vars PROVE CountTypes'
    OBVIOUS
  <2> USE DEF LoopTypes
  <2>1. ASSUME NEW m \in Messages, Receive(m) PROVE CountTypes'
    BY <2>1 DEF Receive
  <2>2. ASSUME NEW t \in Trusts, hand # Nothing, Surface(t), hand' = hand,
               UNCHANGED <<deliveries, crashes, ops>>
        PROVE  CountTypes'
    <3>1. hand \in Messages /\ deliveries[hand] \in 1..MaxDeliveries[hand]
      BY <2>2
    <3>2. surfaced' = [surfaced EXCEPT ![hand] = @ \cup {<<t, deliveries[hand]>>}]
      BY <2>2 DEF Surface
    <3>3. surfaced' \in [Messages -> SUBSET (Trusts \X Nat)]
      BY <3>1, <3>2
    <3>4. ASSUME NEW m \in Messages PROVE surfaced'[m] \subseteq Trusts \X (1..MaxDeliveries[m])
      BY <3>1, <3>2
    <3>5. QED
      BY <2>2, <3>3, <3>4
  <2>3. CASE Announce
    BY <2>2, <2>3 DEF Announce, Then
  <2>4. CASE SurfaceMessage
    BY <2>2, <2>4 DEF SurfaceMessage, Then
  <2>5. CASE CheckBlocked \/ CheckContact \/ SavePending \/ CheckNotified \/ MarkNotified
             \/ Save \/ CheckMuted
    BY <2>5 DEF CheckBlocked, CheckContact, SavePending, CheckNotified, MarkNotified, Save,
                CheckMuted, Then
  <2>6. CASE Ack \/ Crash \/ UNCHANGED vars
    BY <2>6 DEF Ack, Crash, vars
  <2>7. ASSUME NEW r \in Requests, NEW p \in Peers,
               AddContact(r, p) \/ RemoveContact(r, p) \/ Block(r, p) \/ Unblock(r, p) \/ Mute(r, p)
        PROVE  CountTypes'
    BY <2>7 DEF AddContact, RemoveContact, Block, Unblock, Mute, Begin
  <2>8. ASSUME NEW r \in Requests,
               \/ SelectPending(r) \/ DeletePending(r) \/ DeliverPending(r)
               \/ BlockRemovesContact(r) \/ BlockRemovesPending(r)
        PROVE  CountTypes'
    BY <2>8 DEF SelectPending, DeletePending, DeliverPending, BlockRemovesContact,
                BlockRemovesPending, Goto
  <2>9. QED
    BY <2>1, <2>3, <2>4, <2>5, <2>6, <2>7, <2>8 DEF Next, ReadLoop, Operation
<1>3. QED
  BY <1>1, <1>2, LoopTypesInvariant, PTL DEF Spec

\* Every variable keeps its type, and notified is a column of pending.
THEOREM TypeCorrect == Spec => []TypeOK
<1>1. LoopTypes /\ TableTypes /\ OpTypes /\ CountTypes => TypeOK
  BY DEF LoopTypes, TableTypes, OpTypes, CountTypes, TypeOK, Points, Stages, Trusts
<1>2. QED
  BY <1>1, LoopTypesInvariant, TablesInvariant, CountsInvariant, PTL
-----------------------------------------------------------------------------
(* What was acked                                                           *)

Delivering(m) == \E r \in Requests : opAt[r] = "deliver" /\ m \in taken[r]

\* Where a direct message is once it has been handled.
KeptDM(m) ==
    Kind[m] = "dm" =>
        \/ m \in history \/ m \in pending \/ m \in refused \/ m \in purged \/ m \in unread
        \/ m \in cut \/ Delivering(m)

Handled == {"notified?", "mark", "announce", "muted?", "surface", "ack"}

AckInv ==
    /\ \A m \in acked : KeptDM(m)
    /\ at \in Handled => KeptDM(hand)

\* No step loses a message: a row leaves pending for the history, by way of the request
\* that read it, or for one of the reasons the ghosts record.
LEMMA StepKeeps ==
    ASSUME LoopTypes, TableTypes, OpTypes, [Next]_vars, NEW m \in Messages, KeptDM(m)
    PROVE  KeptDM(m)'
<1> USE DEF KeptDM
<1>0. opAt \in [Requests -> Stages] /\ taken \in [Requests -> SUBSET Messages]
  BY DEF OpTypes
<1>1. CASE ReadLoop \/ UNCHANGED vars
  BY <1>1 DEF ReadLoop, Receive, CheckBlocked, CheckContact, SavePending, CheckNotified,
              MarkNotified, Announce, Save, CheckMuted, SurfaceMessage, Ack, vars, Delivering
<1>2. CASE Crash
  <2>1. Delivering(m) => m \in cut'
    BY <1>2 DEF Crash, Delivering
  <2>2. cut \subseteq cut'
    BY <1>2 DEF Crash
  <2>3. QED
    BY <1>2, <2>1, <2>2 DEF Crash
<1>3. ASSUME NEW r \in Requests, NEW p \in Peers,
             AddContact(r, p) \/ RemoveContact(r, p) \/ Block(r, p) \/ Unblock(r, p) \/ Mute(r, p)
      PROVE  KeptDM(m)'
  <2>1. Delivering(m) => Delivering(m)'
    BY <1>0, <1>3 DEF AddContact, RemoveContact, Block, Unblock, Mute, Begin, Delivering
  <2>2. QED
    BY <1>3, <2>1 DEF AddContact, RemoveContact, Block, Unblock, Mute
<1>4. ASSUME NEW r \in Requests, SelectPending(r) \/ BlockRemovesContact(r) PROVE KeptDM(m)'
  <2>1. Delivering(m) => Delivering(m)'
    BY <1>0, <1>4 DEF SelectPending, BlockRemovesContact, Goto, Delivering
  <2>2. QED
    BY <1>4, <2>1 DEF SelectPending, BlockRemovesContact
<1>5. ASSUME NEW r \in Requests, DeletePending(r) PROVE KeptDM(m)'
  <2>1. Delivering(m) => Delivering(m)'
    BY <1>0, <1>5 DEF DeletePending, Goto, Delivering
  <2>2. m \in taken[r] => Delivering(m)'
    BY <1>0, <1>5 DEF DeletePending, Goto, Delivering
  <2>3. m \in pending => m \in pending' \/ m \in unread' \/ m \in taken[r]
    BY <1>5 DEF DeletePending
  <2>4. QED
    BY <1>5, <2>1, <2>2, <2>3 DEF DeletePending
<1>6. ASSUME NEW r \in Requests, DeliverPending(r) PROVE KeptDM(m)'
  <2>1. Delivering(m) => Delivering(m)' \/ m \in history'
    <3>1. ASSUME NEW q \in Requests, q # r, opAt[q] = "deliver", m \in taken[q] PROVE Delivering(m)'
      BY <1>0, <1>6, <3>1 DEF DeliverPending, Goto, Delivering
    <3>2. CASE m \in taken[r]
      <4>1. PICK k \in taken[r] : /\ history' = history \cup {k}
                                  /\ taken' = [taken EXCEPT ![r] = @ \ {k}]
        BY <1>6 DEF DeliverPending
      <4>2. m # k => m \in taken'[r] /\ opAt'[r] = "deliver"
        BY <1>0, <1>6, <3>2, <4>1 DEF DeliverPending, Goto
      <4>3. QED
        BY <4>1, <4>2 DEF Delivering
    <3>3. QED
      BY <3>1, <3>2 DEF Delivering
  <2>2. QED
    BY <1>6, <2>1 DEF DeliverPending
<1>7. ASSUME NEW r \in Requests, BlockRemovesPending(r) PROVE KeptDM(m)'
  <2>1. Delivering(m) => Delivering(m)'
    BY <1>0, <1>7 DEF BlockRemovesPending, Goto, Delivering
  <2>2. QED
    BY <1>7, <2>1 DEF BlockRemovesPending
<1>8. QED
  BY <1>1, <1>2, <1>3, <1>4, <1>5, <1>6, <1>7 DEF Next, Operation

\* Every step keeps AckInv: the read loop stores the message before it acks it.
LEMMA AckInvariant == Spec => []AckInv
<1>1. Init => AckInv
  BY DEF Init, AckInv, Handled
<1>2. LoopTypes /\ TableTypes /\ OpTypes /\ AckInv /\ [Next]_vars => AckInv'
  <2> SUFFICES ASSUME LoopTypes, TableTypes, OpTypes, AckInv, [Next]_vars PROVE AckInv'
    OBVIOUS
  <2>0. at \in Points /\ hand \in Messages \cup {Nothing} /\ acked \subseteq Messages
    BY DEF LoopTypes
  <2>1. \A m \in acked : KeptDM(m)'
    BY <2>0, StepKeeps DEF AckInv
  <2>2. at \in Handled => hand \in Messages /\ KeptDM(hand)
    BY DEF LoopTypes, AckInv, Handled
  <2>3. ASSUME acked' = acked, at' \in Handled => at \in Handled /\ hand' = hand PROVE AckInv'
    BY <2>1, <2>2, <2>3, StepKeeps DEF AckInv
  <2>4. ASSUME NEW m \in Messages, Receive(m) PROVE AckInv'
    BY <2>3, <2>4 DEF Receive, Handled
  <2>5. CASE CheckBlocked
    BY <2>1, <2>5 DEF CheckBlocked, Then, AckInv, Handled, KeptDM
  <2>6. CASE CheckContact
    BY <2>1, <2>6 DEF CheckContact, Then, AckInv, Handled, KeptDM
  <2>7. CASE SavePending
    BY <2>1, <2>7 DEF SavePending, Then, AckInv, KeptDM
  <2>8. CASE Save
    BY <2>1, <2>8 DEF Save, Then, AckInv, KeptDM
  <2>9. CASE CheckNotified \/ MarkNotified \/ Announce \/ CheckMuted \/ SurfaceMessage
    BY <2>3, <2>9 DEF CheckNotified, MarkNotified, Announce, CheckMuted, SurfaceMessage, Then,
                      Handled
  <2>10. CASE Ack
    <3>1. acked' \subseteq acked \cup {hand} /\ at' \notin Handled
      BY <2>10 DEF Ack, Handled
    <3>2. ASSUME NEW m \in acked' PROVE KeptDM(m)'
      <4>1. CASE m \in acked
        BY <2>1, <4>1
      <4>2. CASE m = hand
        BY <2>2, <2>10, <4>2, StepKeeps DEF Ack, Handled
      <4>3. QED
        BY <3>1, <4>1, <4>2
    <3>3. QED
      BY <3>1, <3>2 DEF AckInv
  <2>11. CASE Crash
    BY <2>3, <2>11 DEF Crash, Handled
  <2>12. ASSUME NEW r \in Requests, Operation(r) PROVE AckInv'
    BY <2>3, <2>12 DEF Operation, AddContact, RemoveContact, Block, Unblock, Mute, SelectPending,
                DeletePending, DeliverPending, BlockRemovesContact, BlockRemovesPending
  <2>13. CASE UNCHANGED vars
    BY <2>3, <2>13 DEF vars
  <2>14. QED
    BY <2>4, <2>5, <2>6, <2>7, <2>8, <2>9, <2>10, <2>11, <2>12, <2>13 DEF Next, ReadLoop
<1>3. QED
  BY <1>1, <1>2, LoopTypesInvariant, TablesInvariant, PTL DEF Spec

\* A direct message the relay was told to forget is stored, on its way into the history,
\* or gone for a recorded reason (handleInboundDM's deferred ack, FlushPending).
THEOREM NothingAckedIsLost == Spec => []AckedIsKept
<1>1. AckInv => AckedIsKept
  BY DEF AckInv, KeptDM, Delivering, AckedIsKept, InHands
<1>2. QED
  BY <1>1, AckInvariant, PTL
-----------------------------------------------------------------------------
(* Who is approved                                                          *)

Allowed(m) == Kind[m] # "forged" /\ (Kind[m] \in {"dm", "reaction"} => Sender[m] \in approved)

\* A flush is of a peer that was added, and has only that peer's direct messages.
FlushInv ==
    /\ \A m \in pending : Kind[m] = "dm"
    /\ \A r \in Requests : opAt[r] \in {"select", "delete", "deliver"} => opPeer[r] \in approved
    /\ \A r \in Requests : \A m \in taken[r] :
          Kind[m] = "dm" /\ Sender[m] = opPeer[r] /\ opAt[r] \in {"delete", "deliver"}

\* The read loop saves only what it has checked.
CheckInv ==
    /\ contacts \subseteq approved
    /\ at = "contact?" => Kind[hand] \in {"dm", "reaction"}
    /\ at \in {"pend", "notified?", "mark", "announce"} => Kind[hand] = "dm"
    /\ at \in {"save", "muted?", "surface"} => Allowed(hand)

\* Every step keeps CheckInv.
LEMMA CheckInvariant == Spec => []CheckInv
<1>1. Init => CheckInv
  BY DEF Init, CheckInv
<1>2. LoopTypes /\ TableTypes /\ CheckInv /\ [Next]_vars => CheckInv'
  <2> SUFFICES ASSUME LoopTypes, TableTypes, CheckInv, [Next]_vars PROVE CheckInv'
    OBVIOUS
  <2> USE DEF CheckInv, Allowed
  <2>0. hand # Nothing <=> at # "read"
    BY DEF LoopTypes
  <2>1. ASSUME NEW m \in Messages, Receive(m) PROVE CheckInv'
    BY <2>1 DEF Receive
  <2>2. CASE CheckBlocked
    <3>1. hand \in Messages /\ Kind[hand] \in Kinds
      BY <2>0, <2>2 DEF CheckBlocked, LoopTypes
    <3>2. QED
      BY <2>2, <3>1 DEF CheckBlocked, Then
  <2>3. CASE CheckContact
    BY <2>3 DEF CheckContact, Then
  <2>4. CASE SavePending \/ CheckNotified \/ MarkNotified \/ Announce
    BY <2>4 DEF SavePending, CheckNotified, MarkNotified, Announce, Then
  <2>5. CASE Save \/ CheckMuted \/ SurfaceMessage
    BY <2>5 DEF Save, CheckMuted, SurfaceMessage, Then
  <2>6. CASE Ack \/ Crash
    BY <2>6 DEF Ack, Crash
  <2>7. ASSUME NEW r \in Requests, Operation(r) PROVE CheckInv'
    BY <2>7 DEF Operation, AddContact, RemoveContact, Block, Unblock, Mute, SelectPending,
                DeletePending, DeliverPending, BlockRemovesContact, BlockRemovesPending
  <2>8. CASE UNCHANGED vars
    BY <2>8 DEF vars
  <2>9. QED
    BY <2>1, <2>2, <2>3, <2>4, <2>5, <2>6, <2>7, <2>8 DEF Next, ReadLoop
<1>3. QED
  BY <1>1, <1>2, LoopTypesInvariant, TablesInvariant, PTL DEF Spec

\* Every step keeps FlushInv.
LEMMA FlushInvariant == Spec => []FlushInv
<1>1. Init => FlushInv
  BY DEF Init, FlushInv
<1>2. OpTypes /\ CheckInv /\ FlushInv /\ [Next]_vars => FlushInv'
  <2> SUFFICES ASSUME OpTypes, CheckInv, FlushInv, [Next]_vars PROVE FlushInv'
    OBVIOUS
  <2> USE DEF FlushInv
  <2>0. opAt \in [Requests -> Stages] /\ taken \in [Requests -> SUBSET Messages]
        /\ opPeer \in [Requests -> Peers \cup {Nothing}]
    BY DEF OpTypes
  <2>1. CASE SavePending
    BY <2>1 DEF SavePending, CheckInv
  <2>2. CASE \/ \E m \in Messages : Receive(m)
             \/ CheckBlocked \/ CheckContact \/ CheckNotified \/ MarkNotified \/ Announce \/ Save
             \/ CheckMuted \/ SurfaceMessage \/ Ack \/ UNCHANGED vars
    BY <2>2 DEF Receive, CheckBlocked, CheckContact, CheckNotified, MarkNotified, Announce, Save,
                CheckMuted, SurfaceMessage, Ack, vars
  <2>3. CASE Crash
    BY <2>3 DEF Crash
  <2>4. ASSUME NEW r \in Requests, NEW p \in Peers,
               AddContact(r, p) \/ RemoveContact(r, p) \/ Block(r, p) \/ Unblock(r, p) \/ Mute(r, p)
        PROVE  FlushInv'
    <3>1. /\ \E l \in {"select", "idle", "uncontact"} : opAt' = [opAt EXCEPT ![r] = l]
          /\ opAt'[r] = "select" => p \in approved'
          /\ opPeer' = [opPeer EXCEPT ![r] = p] /\ opAt[r] = "idle"
          /\ taken' = taken /\ pending' = pending /\ approved \subseteq approved'
      BY <2>0, <2>4 DEF AddContact, RemoveContact, Block, Unblock, Mute, Begin
    <3>2. taken[r] = {}
      BY <2>0, <3>1
    <3>3. QED
      BY <2>0, <3>1, <3>2
  <2>5. ASSUME NEW r \in Requests, SelectPending(r) PROVE FlushInv'
    <3>1. taken' = [taken EXCEPT ![r] = pending \cap From(opPeer[r])]
      BY <2>5 DEF SelectPending
    <3>2. opAt' = [opAt EXCEPT ![r] = IF taken'[r] = {} THEN "idle" ELSE "delete"]
      BY <2>5 DEF SelectPending, Goto
    <3>3. opAt[r] = "select" /\ opPeer' = opPeer /\ pending' = pending /\ approved' = approved
      BY <2>5 DEF SelectPending, Goto
    <3>4. \A m \in taken'[r] : Kind[m] = "dm" /\ Sender[m] = opPeer'[r] /\ opAt'[r] = "delete"
      BY <2>0, <3>1, <3>2, <3>3 DEF From
    <3>5. QED
      BY <2>0, <3>1, <3>2, <3>3, <3>4
  <2>6. ASSUME NEW r \in Requests, DeletePending(r) PROVE FlushInv'
    BY <2>0, <2>6 DEF DeletePending, Goto
  <2>7. ASSUME NEW r \in Requests, DeliverPending(r) PROVE FlushInv'
    BY <2>0, <2>7 DEF DeliverPending, Goto
  <2>8. ASSUME NEW r \in Requests, BlockRemovesContact(r) \/ BlockRemovesPending(r) PROVE FlushInv'
    BY <2>0, <2>8 DEF BlockRemovesContact, BlockRemovesPending, Goto
  <2>9. QED
    BY <2>1, <2>2, <2>3, <2>4, <2>5, <2>6, <2>7, <2>8 DEF Next, ReadLoop, Operation
<1>3. QED
  BY <1>1, <1>2, TablesInvariant, CheckInvariant, PTL DEF Spec

\* Nothing reaches the history or a harness with trust before its sender is approved,
\* whatever is added, removed, blocked and flushed meanwhile (handleInbound).
THEOREM StrangersStayPending == Spec => []OnlyApprovedInHistory
<1> DEFINE Quiet(m) == m \notin history /\ \A e \in surfaced[m] : e[1] = "pending"
<1>1. Init => OnlyApprovedInHistory
  BY DEF Init, OnlyApprovedInHistory
<1>2. LoopTypes /\ CountTypes /\ CheckInv /\ FlushInv /\ OnlyApprovedInHistory /\ [Next]_vars
      => OnlyApprovedInHistory'
  <2> SUFFICES ASSUME LoopTypes, CountTypes, CheckInv, FlushInv, OnlyApprovedInHistory, [Next]_vars,
                      NEW m \in Messages, ~Allowed(m)'
               PROVE  Quiet(m)'
    BY DEF OnlyApprovedInHistory, Allowed
  <2>0. surfaced \in [Messages -> SUBSET (Trusts \X Nat)] /\ (hand = Nothing <=> at = "read")
        /\ hand \in Messages \cup {Nothing}
    BY DEF CountTypes, LoopTypes
  <2>1. approved \subseteq approved'
    BY DEF Next, ReadLoop, Receive, CheckBlocked, CheckContact, SavePending, CheckNotified,
           MarkNotified, Announce, Save, CheckMuted, SurfaceMessage, Ack, Crash, Operation,
           AddContact, RemoveContact, Block, Unblock, Mute, SelectPending, DeletePending,
           DeliverPending, BlockRemovesContact, BlockRemovesPending, vars
  <2>2. ~Allowed(m) /\ Quiet(m)
    BY <2>1 DEF Allowed, OnlyApprovedInHistory
  <2>3. ASSUME UNCHANGED <<history, surfaced>> PROVE Quiet(m)'
    BY <2>2, <2>3
  <2>4. CASE Save
    BY <2>2, <2>4 DEF Save, CheckInv
  <2>5. CASE SurfaceMessage
    <3>1. m # hand
      BY <2>2, <2>5 DEF SurfaceMessage, CheckInv
    <3>2. history' = history /\ surfaced'[m] = surfaced[m]
      BY <2>0, <2>5, <3>1 DEF SurfaceMessage, Surface
    <3>3. QED
      BY <2>2, <3>2
  <2>6. CASE Announce
    <3>1. surfaced'[m] \subseteq surfaced[m] \cup {<<"pending", deliveries[hand]>>}
      BY <2>0, <2>6 DEF Announce, Surface
    <3>2. QED
      BY <2>2, <2>6, <3>1 DEF Announce
  <2>7. ASSUME NEW r \in Requests, DeliverPending(r) PROVE Quiet(m)'
    <3>1. m \notin taken[r]
      BY <2>2, <2>7 DEF DeliverPending, FlushInv, Allowed
    <3>2. QED
      BY <2>2, <2>7, <3>1 DEF DeliverPending
  <2>8. CASE \/ \E k \in Messages : Receive(k)
             \/ CheckBlocked \/ CheckContact \/ SavePending \/ CheckNotified \/ MarkNotified
             \/ CheckMuted \/ Ack \/ Crash \/ UNCHANGED vars
    BY <2>3, <2>8 DEF Receive, CheckBlocked, CheckContact, SavePending, CheckNotified, MarkNotified,
                CheckMuted, Ack, Crash, vars
  <2>9. ASSUME NEW r \in Requests, Operation(r), ~DeliverPending(r) PROVE Quiet(m)'
    BY <2>3, <2>9 DEF Operation, AddContact, RemoveContact, Block, Unblock, Mute, SelectPending,
                DeletePending, BlockRemovesContact, BlockRemovesPending
  <2>10. QED
    BY <2>4, <2>5, <2>6, <2>7, <2>8, <2>9 DEF Next, ReadLoop
<1>3. QED
  BY <1>1, <1>2, LoopTypesInvariant, CountsInvariant, CheckInvariant, FlushInvariant, PTL DEF Spec

-----------------------------------------------------------------------------
(* Who is told                                                              *)

Settled(m) == m \in pending /\ m \notin refused /\ m \notin history

Marked(p) == notified \cap From(p) # {}

\* A row that was handled as pending has a marked one of its sender beside it; the read
\* loop handles only what is not acked.
MarkInv ==
    /\ acked \cap relayQueue = {} /\ hand \in relayQueue \cup {Nothing}
    /\ at \in {"muted?", "surface"} => hand \in history
    /\ \A m \in acked : Settled(m) => Marked(Sender[m])
    /\ at \in {"announce", "ack"} => (Settled(hand) => Marked(Sender[hand]))

\* Whoever is marked was announced, or is about to be.
ToldInv ==
    crashes = 0 => \A p \in Peers : Marked(p) =>
        (\E m \in From(p) : surfaced[m] # {}) \/ (at = "announce" /\ Sender[hand] = p)

\* Rows are deleted with every other row of their sender, and marks with them.
LEMMA MarkStays ==
    ASSUME TableTypes, [Next]_vars, NEW m \in Messages, Marked(Sender[m]), ~Marked(Sender[m])'
    PROVE  m \notin pending'
<1> USE DEF Marked, From, TableTypes
<1>1. CASE ReadLoop \/ Crash \/ UNCHANGED vars
  BY <1>1 DEF ReadLoop, Receive, CheckBlocked, CheckContact, SavePending, CheckNotified,
              MarkNotified, Announce, Save, CheckMuted, SurfaceMessage, Ack, Crash, vars
<1>2. ASSUME NEW r \in Requests, DeletePending(r) \/ BlockRemovesPending(r) PROVE m \notin pending'
  BY <1>2 DEF DeletePending, BlockRemovesPending
<1>3. ASSUME NEW r \in Requests, Operation(r), ~DeletePending(r), ~BlockRemovesPending(r)
      PROVE  m \notin pending'
  BY <1>3 DEF Operation, AddContact, RemoveContact, Block, Unblock, Mute, SelectPending,
              DeliverPending, BlockRemovesContact
<1>4. QED
  BY <1>1, <1>2, <1>3 DEF Next

\* A message that is settled after a step was so before, unless the step saved it.
LEMMA SettledBefore ==
    ASSUME [Next]_vars, NEW m \in Messages, Settled(m)'
    PROVE  Settled(m) \/ (SavePending /\ hand = m)
<1> USE DEF Settled
<1>1. CASE SavePending
  BY <1>1 DEF SavePending
<1>2. CASE \/ \E k \in Messages : Receive(k)
           \/ CheckBlocked \/ CheckContact \/ CheckNotified \/ MarkNotified \/ Announce \/ Save
           \/ CheckMuted \/ SurfaceMessage \/ Ack \/ Crash \/ UNCHANGED vars
  BY <1>2 DEF Receive, CheckBlocked, CheckContact, CheckNotified, MarkNotified, Announce, Save,
              CheckMuted, SurfaceMessage, Ack, Crash, vars
<1>3. ASSUME NEW r \in Requests, Operation(r) PROVE Settled(m)
  BY <1>3 DEF Operation, AddContact, RemoveContact, Block, Unblock, Mute, SelectPending,
              DeletePending, DeliverPending, BlockRemovesContact, BlockRemovesPending
<1>4. QED
  BY <1>1, <1>2, <1>3 DEF Next, ReadLoop

\* Every step keeps MarkInv.
LEMMA MarkInvariant == Spec => []MarkInv
<1>1. Init => MarkInv
  BY DEF Init, MarkInv
<1>2. LoopTypes /\ TableTypes /\ CheckInv /\ FlushInv /\ MarkInv /\ [Next]_vars => MarkInv'
  <2> SUFFICES ASSUME LoopTypes, TableTypes, CheckInv, FlushInv, MarkInv, [Next]_vars PROVE MarkInv'
    OBVIOUS
  <2>0. /\ acked \subseteq Messages /\ hand \in Messages \cup {Nothing}
        /\ (hand = Nothing <=> at = "read") /\ relayQueue \subseteq Messages
    BY DEF LoopTypes
  <2>1. ASSUME NEW m \in acked PROVE Settled(m)' => Marked(Sender[m])'
    <3>1. ~(SavePending /\ hand = m)
      BY <2>0, <2>1 DEF MarkInv, SavePending
    <3>2. QED
      BY <2>0, <2>1, <3>1, MarkStays, SettledBefore DEF MarkInv, Settled
  <2>2. ASSUME NEW m \in Messages, Settled(m) => Marked(Sender[m]), ~(SavePending /\ hand = m)
        PROVE  Settled(m)' => Marked(Sender[m])'
    BY <2>2, MarkStays, SettledBefore DEF Settled
  <2>3. ASSUME UNCHANGED <<acked, relayQueue, loopVars>>, history \subseteq history' PROVE MarkInv'
    <3>1. CASE at \in {"announce", "ack"}
      <4>1. hand \in Messages /\ ~SavePending
        BY <2>0, <3>1 DEF SavePending
      <4>2. Settled(hand)' => Marked(Sender[hand])'
        <5>1. Settled(hand) => Marked(Sender[hand])
          BY <3>1 DEF MarkInv
        <5>2. ASSUME NEW m \in Messages, m = hand PROVE Settled(m)' => Marked(Sender[m])'
          BY <2>2, <4>1, <5>1, <5>2
        <5>3. QED
          BY <2>3, <4>1, <5>2 DEF Settled, Marked, From
      <4>3. QED
        BY <2>1, <2>3, <4>2 DEF MarkInv, Settled, Marked, From
    <3>2. CASE at \notin {"announce", "ack"}
      BY <2>1, <2>3, <3>2 DEF MarkInv, Settled, Marked, From
    <3>3. QED
      BY <3>1, <3>2
  <2>4. ASSUME NEW r \in Requests, Operation(r) PROVE MarkInv'
    BY <2>3, <2>4 DEF Operation, AddContact, RemoveContact, Block, Unblock, Mute, SelectPending,
                DeletePending, DeliverPending, BlockRemovesContact, BlockRemovesPending
  <2>5. CASE UNCHANGED vars
    BY <2>3, <2>5 DEF vars
  <2>6. ASSUME NEW m \in Messages, Receive(m) PROVE MarkInv'
    BY <2>1, <2>6 DEF Receive, MarkInv
  <2>7. CASE Crash
    BY <2>1, <2>7 DEF Crash, MarkInv
  <2>8. CASE Ack
    <3>1. /\ acked' \subseteq acked \cup {hand} /\ hand' = Nothing /\ at' = "read"
          /\ acked' \cap relayQueue' = {} /\ hand \in Messages /\ ~SavePending
      BY <2>0, <2>8 DEF Ack, MarkInv, SavePending
    <3>2. ASSUME NEW m \in acked' PROVE Settled(m)' => Marked(Sender[m])'
      <4>1. CASE m = hand
        <5>1. Settled(m) => Marked(Sender[m])
          BY <2>8, <4>1 DEF Ack, MarkInv
        <5>2. QED
          BY <2>2, <3>1, <4>1, <5>1
      <4>2. QED
        BY <2>1, <3>1, <4>1
    <3>3. QED
      BY <3>1, <3>2 DEF MarkInv, Settled, Marked, From
  <2>9. ASSUME hand' = hand, acked' = acked, relayQueue' = relayQueue,
               at' \in {"muted?", "surface"} => hand \in history',
               at' \in {"announce", "ack"} => (Settled(hand)' => Marked(Sender[hand])')
        PROVE  MarkInv'
    BY <2>1, <2>9 DEF MarkInv, Settled, Marked, From
  <2>10. CASE CheckBlocked
    BY <2>9, <2>10 DEF CheckBlocked, Then, Settled
  <2>11. CASE CheckContact
    <3>1. at' = "ack" => hand \notin pending'
      BY <2>11 DEF CheckContact, Then, FlushInv
    <3>2. QED
      BY <2>9, <2>11, <3>1 DEF CheckContact, Then, Settled
  <2>12. CASE SavePending
    BY <2>9, <2>12 DEF SavePending, Then
  <2>13. CASE CheckNotified
    BY <2>9, <2>13 DEF CheckNotified, Then, Marked
  <2>14. CASE MarkNotified
    <3>1. hand \in Messages
      BY <2>0, <2>14 DEF MarkNotified
    <3>2. hand \in pending' => Marked(Sender[hand])'
      BY <2>14, <3>1 DEF MarkNotified, Then, Marked, From
    <3>3. QED
      BY <2>9, <2>14, <3>2 DEF MarkNotified, Then, Settled
  <2>15. CASE Announce
    <3>1. Settled(hand) => Marked(Sender[hand])
      BY <2>15 DEF Announce, MarkInv
    <3>2. QED
      BY <2>9, <2>15, <3>1 DEF Announce, Then, Settled, Marked
  <2>16. CASE Save
    BY <2>9, <2>16 DEF Save, Then
  <2>17. CASE CheckMuted \/ SurfaceMessage
    <3>1. hand \in history
      BY <2>17 DEF CheckMuted, SurfaceMessage, MarkInv
    <3>2. QED
      BY <2>9, <2>17, <3>1 DEF CheckMuted, SurfaceMessage, Then, Settled
  <2>18. QED
    BY <2>4, <2>5, <2>6, <2>7, <2>8, <2>10, <2>11, <2>12, <2>13, <2>14, <2>15, <2>16, <2>17
       DEF Next, ReadLoop
<1>3. QED
  BY <1>1, <1>2, LoopTypesInvariant, TablesInvariant, CheckInvariant, FlushInvariant, PTL DEF Spec

\* Every step keeps ToldInv, unless the process dies.
LEMMA ToldInvariant == Spec => []ToldInv
<1>1. Init => ToldInv
  BY DEF Init, ToldInv, Marked
<1>2. LoopTypes /\ TableTypes /\ CountTypes /\ ToldInv /\ [Next]_vars => ToldInv'
  <2> SUFFICES ASSUME LoopTypes, TableTypes, CountTypes, ToldInv, [Next]_vars,
                      NEW p \in Peers, crashes' = 0, Marked(p)'
               PROVE  \/ \E m \in From(p) : surfaced'[m] # {}
                      \/ at' = "announce" /\ Sender[hand'] = p
    BY DEF ToldInv, From
  <2> DEFINE Told == (\E m \in From(p) : surfaced[m] # {}) \/ (at = "announce" /\ Sender[hand] = p)
  <2>0. /\ surfaced \in [Messages -> SUBSET (Trusts \X Nat)] /\ crashes \in Nat
        /\ hand \in Messages \cup {Nothing} /\ (hand = Nothing <=> at = "read")
    BY DEF CountTypes, LoopTypes
  <2>1. CASE MarkNotified
    <3>1. CASE Sender[hand] = p
      BY <2>1, <3>1 DEF MarkNotified, Then
    <3>2. CASE Sender[hand] # p
      <4>1. Marked(p) /\ crashes = 0
        BY <2>1, <3>2 DEF MarkNotified, Marked, From
      <4>2. QED
        BY <2>1, <3>2, <4>1 DEF MarkNotified, ToldInv, From
    <3>3. QED
      BY <3>1, <3>2
  <2>2. CASE Announce
    <3>1. hand \in Messages /\ surfaced'[hand] # {}
      BY <2>0, <2>2 DEF Announce, Surface
    <3>2. CASE Sender[hand] = p
      BY <3>1, <3>2 DEF From
    <3>3. CASE Sender[hand] # p
      <4>1. \E m \in From(p) : surfaced[m] # {}
        BY <2>2, <3>3 DEF Announce, ToldInv, Marked, From
      <4>2. \A m \in Messages : surfaced[m] # {} => surfaced'[m] # {}
        BY <2>0, <2>2, <3>1 DEF Announce, Surface
      <4>3. QED
        BY <4>1, <4>2 DEF From
    <3>4. QED
      BY <3>2, <3>3
  <2>3. CASE SurfaceMessage
    <3>1. \A m \in Messages : surfaced[m] # {} => surfaced'[m] # {}
      BY <2>0, <2>3 DEF SurfaceMessage, Surface
    <3>2. \E m \in From(p) : surfaced[m] # {}
      BY <2>3 DEF SurfaceMessage, ToldInv, Marked, From
    <3>3. QED
      BY <3>1, <3>2 DEF From
  <2>4. ASSUME notified' \subseteq notified, UNCHANGED <<crashes, surfaced, loopVars>> PROVE Told'
    BY <2>4 DEF ToldInv, Marked, From
  <2>5. ASSUME at # "announce", UNCHANGED <<crashes, surfaced, notified>> PROVE Told'
    BY <2>5 DEF ToldInv, Marked, From
  <2>6. CASE \/ \E m \in Messages : Receive(m)
             \/ CheckBlocked \/ CheckContact \/ SavePending \/ CheckNotified \/ Save \/ CheckMuted
             \/ Ack
    BY <2>5, <2>6 DEF Receive, CheckBlocked, CheckContact, SavePending, CheckNotified, Save,
                CheckMuted, Ack
  <2>7. ASSUME NEW r \in Requests, Operation(r) PROVE Told'
    BY <2>4, <2>7 DEF Operation, AddContact, RemoveContact, Block, Unblock, Mute, SelectPending,
                DeletePending, DeliverPending, BlockRemovesContact, BlockRemovesPending
  <2>8. CASE Crash
    BY <2>0, <2>8 DEF Crash
  <2>9. CASE UNCHANGED vars
    BY <2>4, <2>9 DEF vars
  <2>10. QED
    BY <2>1, <2>2, <2>3, <2>6, <2>7, <2>8, <2>9 DEF Next, ReadLoop
<1>3. QED
  BY <1>1, <1>2, LoopTypesInvariant, TablesInvariant, CountsInvariant, PTL DEF Spec

\* A sender whose pending messages the read loop has dealt with is marked, and was
\* announced in a process that has not died meanwhile (handleInboundDM, FlushPending,
\* BlockContact).
THEOREM SendersAreAnnounced == Spec => []NoSilentPending
<1>1. LoopTypes /\ TableTypes /\ MarkInv /\ ToldInv => NoSilentPending
  <2> SUFFICES ASSUME LoopTypes, TableTypes, MarkInv, ToldInv, NEW p \in Peers, pending \cap From(p) # {},
                      pending \cap From(p) \subseteq acked \ (refused \cup history),
                      hand = Nothing \/ Sender[hand] # p
               PROVE  Marked(p) /\ (crashes = 0 => \E m \in From(p) : surfaced[m] # {})
    BY DEF NoSilentPending, Marked
  <2>1. Marked(p)
    BY DEF MarkInv, Settled, From
  <2>2. ~(at = "announce" /\ Sender[hand] = p)
    BY DEF LoopTypes
  <2>3. QED
    BY <2>1, <2>2 DEF ToldInv
<1>2. QED
  BY <1>1, LoopTypesInvariant, TablesInvariant, MarkInvariant, ToldInvariant, PTL
================================================================================

----------------------------- MODULE HermesProofs ------------------------------
(* Proofs about Hermes, for any messages, senders, bounds of the two sets, *)
(* and numbers of frames and failures.                                     *)
EXTENDS Hermes, TLAPS, SequenceTheorems

USE HermesAssumption DEF bridgeVars, recvVars

-----------------------------------------------------------------------------
(* Types                                                                    *)

FrameTypes ==
    /\ wire \in Seq(Frames) /\ posts \in SUBSET Frames /\ doing \in Frames \cup {None}
    /\ seen \in SUBSET Messages /\ surfaced \in 0..MaxSurfaced

ReceiverTypes ==
    /\ known \in Seq(Messages) /\ turns \in SUBSET Messages
    /\ runs \in [Messages -> Nat] /\ forgot \in [Messages -> Nat]
    /\ since \in [Messages -> SUBSET Peers]

\* A frame is of a message, and None is no frame.
LEMMA FrameIsPair == \A f \in Frames : f[1] \in Messages /\ f # None
BY DEF Frames

\* An appended id joins the others.
LEMMA IdsOfAppended ==
    ASSUME NEW s \in Seq(Messages), NEW x \in Messages
    PROVE  Ids(Append(s, x)) = Ids(s) \cup {x}
<1>1. Len(Append(s, x)) = Len(s) + 1 /\ Len(s) \in Nat /\ Append(s, x)[Len(s) + 1] = x
      /\ \A i \in 1..Len(s) : Append(s, x)[i] = s[i]
  OBVIOUS
<1>2. 1..Len(Append(s, x)) = 1..Len(s) \cup {Len(s) + 1}
  BY <1>1
<1>3. QED
  BY <1>1, <1>2 DEF Ids

\* A swept list has known ids only.
LEMMA SweptIsKnown ==
    ASSUME ReceiverTypes
    PROVE  Sweep \in Seq(Messages) /\ Ids(Sweep) \subseteq Ids(known)
<1>1. CASE Len(known) > ReceiverMax
  <2> DEFINE a == Len(known) - ReceiverMax + 1
  <2>1. a \in 1..Len(known) + 1 /\ Len(known) \in Nat /\ known \in Seq(Messages)
    BY <1>1 DEF ReceiverTypes
  <2>2. Sweep = SubSeq(known, a, Len(known))
    BY <1>1 DEF Sweep
  <2> HIDE DEF a
  <2>3. /\ SubSeq(known, a, Len(known)) \in Seq(Messages)
        /\ Len(SubSeq(known, a, Len(known))) = Len(known) - a + 1
        /\ \A i \in 1..(Len(known) - a + 1) : SubSeq(known, a, Len(known))[i] = known[a + i - 1]
    BY <2>1, SubSeqProperties
  <2>4. \A i \in 1..(Len(known) - a + 1) : a + i - 1 \in 1..Len(known)
    BY <2>1
  <2>5. QED
    BY <2>2, <2>3, <2>4 DEF Ids
<1>2. CASE ~(Len(known) > ReceiverMax)
  BY <1>2 DEF Sweep, ReceiverTypes
<1>3. QED
  BY <1>1, <1>2

\* Every step keeps the types of the bridge.
LEMMA FrameTypesInvariant == Spec => []FrameTypes
<1>1. Init => FrameTypes
  BY DEF Init, FrameTypes
<1>2. FrameTypes /\ [Next]_vars => FrameTypes'
  <2> SUFFICES ASSUME FrameTypes, [Next]_vars PROVE FrameTypes'
    OBVIOUS
  <2> USE DEF FrameTypes
  <2>0. <<>> \in Seq(Frames)
    OBVIOUS
  <2>1. CASE Dial \/ ReadFails \/ Forwarded \/ BridgeRestarts
    <3>1. wire' \in {wire, <<>>} /\ doing' \in {doing, None} /\ seen' \in {seen, {}}
      BY <2>1 DEF Dial, ReadFails, Forwarded, BridgeRestarts
    <3>2. UNCHANGED <<posts, surfaced>>
      BY <2>1 DEF Dial, ReadFails, Forwarded, BridgeRestarts
    <3>3. QED
      BY <2>0, <3>1, <3>2
  <2>2. CASE Break
    <3>1. wire' \in {wire, <<>>} /\ UNCHANGED <<posts, surfaced, doing, seen>>
      BY <2>2 DEF Break
    <3>2. QED
      BY <2>0, <3>1
  <2>3. CASE Read
    <3>1. Head(wire) \in Frames /\ wire' \in Seq(Frames)
      BY <2>3 DEF Read
    <3>2. Mark(Head(wire)[1]) \in SUBSET Messages
      BY <3>1, FrameIsPair DEF Mark
    <3>3. QED
      BY <2>3, <3>1, <3>2 DEF Read
  <2>4. CASE ForwardFails
    BY <2>4 DEF ForwardFails
  <2>5. ASSUME NEW f \in posts, Duplicate(f) \/ Accept(f) PROVE FrameTypes'
    BY <2>5 DEF Duplicate, Accept
  <2>6. ASSUME NEW m \in turns, Reply(m) PROVE FrameTypes'
    BY <2>6 DEF Reply
  <2>7. CASE Expire \/ ReceiverRestarts
    BY <2>7 DEF Expire, ReceiverRestarts
  <2>8. ASSUME NEW m \in Messages, Surface(m) PROVE FrameTypes'
    <3>1. surfaced' \in 1..MaxSurfaced /\ <<m, surfaced'>> \in Frames
      BY <2>8 DEF Surface, Frames
    <3>2. QED
      BY <2>8, <3>1 DEF Surface
  <2>9. CASE UNCHANGED vars
    BY <2>9 DEF vars
  <2>10. QED
    BY <2>1, <2>2, <2>3, <2>4, <2>5, <2>6, <2>7, <2>8, <2>9 DEF Next, Bridge, Receiver
<1>3. QED
  BY <1>1, <1>2, PTL DEF Spec

\* The bridge leaves the receiver alone.
LEMMA ReceiverSteps ==
    ASSUME [Next]_vars
    PROVE  \/ \E f \in posts : Duplicate(f) \/ Accept(f)
           \/ (\E m \in turns : Reply(m)) \/ Expire \/ ReceiverRestarts
           \/ UNCHANGED recvVars
<1>1. Dial \/ Break \/ ReadFails \/ Read \/ Forwarded \/ ForwardFails \/ BridgeRestarts
        => UNCHANGED recvVars
  BY DEF Dial, Break, ReadFails, Read, Forwarded, ForwardFails, BridgeRestarts
<1>2. ASSUME NEW m \in Messages, Surface(m) PROVE UNCHANGED recvVars
  BY <1>2 DEF Surface
<1>3. UNCHANGED vars => UNCHANGED recvVars
  BY DEF vars
<1>4. QED
  BY <1>1, <1>2, <1>3 DEF Next, Bridge, Receiver

\* What Accept changes.
LEMMA Accepted ==
    ASSUME FrameTypes, ReceiverTypes, NEW f \in posts, Accept(f)
    PROVE  /\ f[1] \in Messages
           /\ known' \in Seq(Messages) /\ Ids(known') = Ids(Sweep) \cup {f[1]}
<1>1. f[1] \in Messages
  BY FrameIsPair DEF FrameTypes
<1>2. known' = Append(Sweep, f[1])
  BY DEF Accept
<1>3. QED
  BY <1>1, <1>2, SweptIsKnown, IdsOfAppended

\* Every step keeps the types of the receiver.
LEMMA ReceiverTypesInvariant == Spec => []ReceiverTypes
<1>1. Init => ReceiverTypes
  BY DEF Init, ReceiverTypes
<1>2. FrameTypes /\ ReceiverTypes /\ [Next]_vars => ReceiverTypes'
  <2> SUFFICES ASSUME FrameTypes, ReceiverTypes, [Next]_vars PROVE ReceiverTypes'
    OBVIOUS
  <2>0. ASSUME NEW new, Forgetting(known, new) PROVE forgot' \in [Messages -> Nat]
    BY <2>0 DEF Forgetting, ReceiverTypes
  <2>1. ASSUME NEW f \in posts, Duplicate(f) PROVE ReceiverTypes'
    <3>1. known' = Sweep /\ UNCHANGED <<turns, runs, since>> /\ forgot' \in [Messages -> Nat]
      BY <2>0, <2>1 DEF Duplicate
    <3>2. QED
      BY <3>1, SweptIsKnown DEF ReceiverTypes
  <2>2. ASSUME NEW f \in posts, Accept(f) PROVE ReceiverTypes'
    <3>1. f[1] \in Messages /\ known' \in Seq(Messages)
      BY <2>2, Accepted
    <3>2. forgot' \in [Messages -> Nat]
      BY <2>0, <2>2 DEF Accept
    <3>3. Sender[f[1]] \in Peers
      BY <3>1
    <3>4. since' \in [Messages -> SUBSET Peers]
      BY <2>2, <3>3 DEF Accept, ReceiverTypes
    <3>5. turns' \in SUBSET Messages /\ runs' \in [Messages -> Nat]
      BY <2>2, <3>1 DEF Accept, ReceiverTypes
    <3>6. QED
      BY <3>1, <3>2, <3>4, <3>5 DEF ReceiverTypes
  <2>3. ASSUME NEW m \in turns, Reply(m) PROVE ReceiverTypes'
    BY <2>3 DEF Reply, ReceiverTypes
  <2>4. CASE Expire
    <3>1. forgot' \in [Messages -> Nat]
      BY <2>0, <2>4 DEF Expire
    <3>2. QED
      BY <2>4, <3>1 DEF Expire, ReceiverTypes
  <2>5. CASE ReceiverRestarts
    <3>1. forgot' \in [Messages -> Nat]
      BY <2>0, <2>5 DEF ReceiverRestarts
    <3>2. QED
      BY <2>5, <3>1 DEF ReceiverRestarts, ReceiverTypes
  <2>6. CASE UNCHANGED recvVars
    BY <2>6 DEF ReceiverTypes
  <2>7. QED
    BY <2>1, <2>2, <2>3, <2>4, <2>5, <2>6, ReceiverSteps
<1>3. QED
  BY <1>1, <1>2, FrameTypesInvariant, PTL DEF Spec

-----------------------------------------------------------------------------
(* Turns and replies                                                        *)

\* A message has a turn more than the times it was forgotten only while it is known.
TurnInv ==
    \A m \in Messages : runs[m] <= forgot[m] + (IF m \in Ids(known) THEN 1 ELSE 0)

\* The receiver forgets every id that it had and has no more.
LEMMA ForgettingCounts ==
    ASSUME ReceiverTypes, NEW new, Forgetting(known, new), NEW m \in Messages
    PROVE  forgot'[m] = IF m \in Ids(known) /\ m \notin Ids(new) THEN forgot[m] + 1 ELSE forgot[m]
BY DEF Forgetting, ReceiverTypes

\* Every step keeps TurnInv: a turn starts only for an unknown id, which is then known.
LEMMA TurnInvariant == Spec => []TurnInv
<1>1. Init => TurnInv
  BY DEF Init, TurnInv, Ids
<1>2. FrameTypes /\ ReceiverTypes /\ TurnInv /\ [Next]_vars => TurnInv'
  <2> SUFFICES ASSUME FrameTypes, ReceiverTypes, TurnInv, [Next]_vars PROVE TurnInv'
    OBVIOUS
  <2>0. ASSUME NEW new, Forgetting(known, new), known' = new, UNCHANGED runs PROVE TurnInv'
    BY <2>0, ForgettingCounts DEF TurnInv, ReceiverTypes
  <2>1. ASSUME NEW f \in posts, Duplicate(f) PROVE TurnInv'
    BY <2>0, <2>1 DEF Duplicate
  <2>2. ASSUME NEW f \in posts, Accept(f) PROVE TurnInv'
    <3>1. f[1] \in Messages /\ Ids(known') = Ids(Sweep) \cup {f[1]} /\ f[1] \notin Ids(Sweep)
          /\ runs' = [runs EXCEPT ![f[1]] = @ + 1] /\ Forgetting(known, Sweep)
      BY <2>2, Accepted DEF Accept
    <3>2. ASSUME NEW m \in Messages
          PROVE  runs'[m] <= forgot'[m] + (IF m \in Ids(known') THEN 1 ELSE 0)
      <4>1. forgot'[m] = IF m \in Ids(known) /\ m \notin Ids(Sweep) THEN forgot[m] + 1 ELSE forgot[m]
        BY <3>1, ForgettingCounts
      <4>2. runs[m] <= forgot[m] + (IF m \in Ids(known) THEN 1 ELSE 0)
            /\ runs[m] \in Nat /\ forgot[m] \in Nat
        BY DEF TurnInv, ReceiverTypes
      <4>3. CASE m = f[1]
        <5>1. runs'[m] = runs[m] + 1
          BY <3>1, <4>3 DEF ReceiverTypes
        <5>2. QED
          BY <3>1, <4>1, <4>2, <4>3, <5>1
      <4>4. CASE m # f[1]
        <5>1. runs'[m] = runs[m] /\ (m \in Ids(known') <=> m \in Ids(Sweep))
          BY <3>1, <4>4 DEF ReceiverTypes
        <5>2. Ids(Sweep) \subseteq Ids(known)
          BY SweptIsKnown
        <5>3. QED
          BY <4>1, <4>2, <5>1, <5>2
      <4>5. QED
        BY <4>3, <4>4
    <3>3. QED
      BY <3>2 DEF TurnInv
  <2>3. ASSUME NEW m \in turns, Reply(m) PROVE TurnInv'
    BY <2>3 DEF Reply, TurnInv
  <2>4. CASE Expire
    BY <2>0, <2>4 DEF Expire
  <2>5. CASE ReceiverRestarts
    BY <2>0, <2>5 DEF ReceiverRestarts
  <2>6. CASE UNCHANGED recvVars
    BY <2>6 DEF TurnInv
  <2>7. QED
    BY <2>1, <2>2, <2>3, <2>4, <2>5, <2>6, ReceiverSteps
<1>3. QED
  BY <1>1, <1>2, FrameTypesInvariant, ReceiverTypesInvariant, PTL DEF Spec

\* A message starts a second turn only if the receiver forgot its id in between
\* (_is_duplicate).
THEOREM OneTurnUnlessForgotten == Spec => []SecondTurnIsForgotten
<1>1. ReceiverTypes /\ TurnInv => SecondTurnIsForgotten
  <2> SUFFICES ASSUME ReceiverTypes, TurnInv, NEW m \in Messages PROVE runs[m] <= 1 + forgot[m]
    BY DEF SecondTurnIsForgotten
  <2>1. runs[m] \in Nat /\ forgot[m] \in Nat
    BY DEF ReceiverTypes
  <2>2. CASE m \in Ids(known)
    BY <2>1, <2>2 DEF TurnInv
  <2>3. CASE m \notin Ids(known)
    BY <2>1, <2>3 DEF TurnInv
  <2>4. QED
    BY <2>2, <2>3
<1>2. QED
  BY <1>1, ReceiverTypesInvariant, TurnInvariant, PTL

\* The channel's last sender is one a turn under way could answer.
SenderInv == (\A m \in turns : last_from \in since[m]) /\ ReplyIsNotStale

\* Every step keeps SenderInv: the last sender is set for every turn under way.
LEMMA SenderInvariant == Spec => []SenderInv
<1> USE DEF SenderInv, ReplyIsNotStale
<1>1. Init => SenderInv
  BY DEF Init
<1>2. FrameTypes /\ ReceiverTypes /\ SenderInv /\ [Next]_vars => SenderInv'
  <2> SUFFICES ASSUME FrameTypes, ReceiverTypes, SenderInv, [Next]_vars PROVE SenderInv'
    OBVIOUS
  <2>1. ASSUME NEW f \in posts, Duplicate(f) PROVE SenderInv'
    BY <2>1 DEF Duplicate
  <2>2. ASSUME NEW f \in posts, Accept(f) PROVE SenderInv'
    <3>1. f[1] \in Messages
      BY <2>2, Accepted
    <3>2. last_from' = Sender[f[1]] /\ turns' = turns \cup {f[1]} /\ UNCHANGED replies
      BY <2>2 DEF Accept
    <3>3. \A m \in Messages : since'[m] = IF m = f[1] THEN {Sender[m]}
                                         ELSE IF m \in turns THEN since[m] \cup {Sender[f[1]]}
                                         ELSE since[m]
      BY <2>2 DEF Accept
    <3>4. QED
      BY <3>1, <3>2, <3>3 DEF ReceiverTypes
  <2>3. ASSUME NEW m \in turns, Reply(m) PROVE SenderInv'
    BY <2>3 DEF Reply
  <2>4. CASE Expire
    BY <2>4 DEF Expire
  <2>5. CASE ReceiverRestarts
    BY <2>5 DEF ReceiverRestarts
  <2>6. CASE UNCHANGED recvVars
    BY <2>6
  <2>7. QED
    BY <2>1, <2>2, <2>3, <2>4, <2>5, <2>6, ReceiverSteps
<1>3. QED
  BY <1>1, <1>2, FrameTypesInvariant, ReceiverTypesInvariant, PTL DEF Spec

\* A reply goes to the sender of its turn's message, or of one taken while the turn
\* ran (send).
THEOREM RepliesAreNotStale == Spec => []ReplyIsNotStale
<1>1. SenderInv => ReplyIsNotStale
  BY DEF SenderInv
<1>2. QED
  BY <1>1, SenderInvariant, PTL

-----------------------------------------------------------------------------
(* Deliveries                                                               *)

\* What the receiver knows, and what it answered the bridge, it has taken.
TakenInv ==
    /\ Ids(known) \subseteq accepted
    /\ doing # None /\ reply = "ok" => doing[1] \in accepted
    /\ SeenWasAccepted

\* Every step keeps TakenInv: an id is seen only while it is posted or once it is taken.
LEMMA TakenInvariant == Spec => []TakenInv
<1> USE DEF TakenInv, SeenWasAccepted
<1>1. Init => TakenInv
  BY DEF Init, Ids
<1>2. FrameTypes /\ ReceiverTypes /\ TakenInv /\ [Next]_vars => TakenInv'
  <2> SUFFICES ASSUME FrameTypes, ReceiverTypes, TakenInv, [Next]_vars PROVE TakenInv'
    OBVIOUS
  <2>1. CASE Dial \/ Break \/ ReadFails
    BY <2>1 DEF Dial, Break, ReadFails
  <2>2. CASE Read
    <3>1. Head(wire) # None /\ reply' = "none" /\ doing = None
      BY <2>2, FrameIsPair DEF Read, FrameTypes
    <3>2. CASE Head(wire)[1] \in seen
      BY <2>2, <3>1, <3>2 DEF Read
    <3>3. CASE Head(wire)[1] \notin seen
      <4>1. doing' = Head(wire) /\ seen' \subseteq seen \cup {Head(wire)[1]}
            /\ UNCHANGED <<known, accepted>>
        BY <2>2, <3>3 DEF Read, Mark
      <4>2. QED
        BY <3>1, <4>1
    <3>4. QED
      BY <3>2, <3>3
  <2>3. CASE Forwarded
    BY <2>3 DEF Forwarded
  <2>4. CASE ForwardFails
    BY <2>4 DEF ForwardFails
  <2>5. CASE BridgeRestarts
    BY <2>5 DEF BridgeRestarts
  <2>6. ASSUME NEW f \in posts, Duplicate(f) PROVE TakenInv'
    <3>1. f[1] \in accepted /\ Ids(Sweep) \subseteq accepted
      BY <2>6, SweptIsKnown DEF Duplicate
    <3>2. QED
      BY <2>6, <3>1 DEF Duplicate, Answer
  <2>7. ASSUME NEW f \in posts, Accept(f) PROVE TakenInv'
    <3>1. Ids(known') \subseteq accepted' /\ accepted' = accepted \cup {f[1]}
      BY <2>7, Accepted, SweptIsKnown DEF Accept
    <3>2. QED
      BY <2>7, <3>1 DEF Accept, Answer
  <2>8. ASSUME NEW m \in turns, Reply(m) PROVE TakenInv'
    BY <2>8 DEF Reply
  <2>9. CASE Expire
    <3>1. Ids(Tail(known)) \subseteq Ids(known)
      <4>1. known \in Seq(Messages) /\ known # <<>>
        BY <2>9 DEF Expire, ReceiverTypes
      <4>2. \A i \in 1..Len(Tail(known)) : i + 1 \in 1..Len(known) /\ Tail(known)[i] = known[i + 1]
        BY <4>1
      <4>3. QED
        BY <4>2 DEF Ids
    <3>2. QED
      BY <2>9, <3>1 DEF Expire
  <2>10. CASE ReceiverRestarts
    BY <2>10 DEF ReceiverRestarts, Ids
  <2>11. ASSUME NEW m \in Messages, Surface(m) PROVE TakenInv'
    BY <2>11 DEF Surface
  <2>12. CASE UNCHANGED vars
    BY <2>12 DEF vars
  <2>13. QED
    BY <2>1, <2>2, <2>3, <2>4, <2>5, <2>6, <2>7, <2>8, <2>9, <2>10, <2>11, <2>12
       DEF Next, Bridge, Receiver
<1>3. QED
  BY <1>1, <1>2, FrameTypesInvariant, ReceiverTypesInvariant, PTL DEF Spec

\* An id the bridge takes for seen, and is not posting, the receiver has taken
\* (alreadySeen, forget).
THEOREM NothingSeenIsUndelivered == Spec => []SeenWasAccepted
<1>1. TakenInv => SeenWasAccepted
  BY DEF TakenInv
<1>2. QED
  BY <1>1, TakenInvariant, PTL
===============================================================================

---------------------------- MODULE AdapterProofs -----------------------------
(* Proofs about the adapters that keep a WebSocket: OpencodeBridge, for    *)
(* every buffer and every number of frames, connections and failures, and  *)
(* PiClient, for every number of sockets, peers, calls and failures.       *)
EXTENDS OpencodeBridge, PiClient, TLAPS, FiniteSetTheorems, SequenceTheorems

-----------------------------------------------------------------------------
(* Sequences                                                                *)

\* A sequence behind one element.
LEMMA Prefixed ==
    ASSUME NEW s \in Seq(Nat), NEW h \in Nat
    PROVE  /\ <<h>> \o s # <<>> /\ Len(<<h>> \o s) = Len(s) + 1
           /\ Head(<<h>> \o s) = h /\ Tail(<<h>> \o s) = s
<1> DEFINE q == <<h>> \o s
<1>1. <<h>> \in Seq(Nat) /\ Len(<<h>>) = 1 /\ <<h>>[1] = h /\ Len(s) \in Nat
  OBVIOUS
<1>2. /\ q \in Seq(Nat) /\ Len(q) = Len(s) + 1
      /\ \A i \in 1..Len(s) + 1 : q[i] = IF i <= 1 THEN h ELSE s[i - 1]
  BY <1>1, ConcatProperties
<1>3. q # <<>> /\ Head(q) = h
  BY <1>1, <1>2
<1>4. /\ Tail(q) \in Seq(Nat) /\ Len(Tail(q)) = Len(s)
      /\ \A i \in 1..Len(s) : Tail(q)[i] = q[i + 1]
  <2>1. /\ Tail(q) \in Seq(Nat) /\ Len(Tail(q)) = Len(q) - 1
        /\ \A i \in 1..Len(Tail(q)) : Tail(q)[i] = q[i + 1]
    BY <1>2, <1>3, HeadTailProperties
  <2>2. Len(q) - 1 = Len(s)
    BY <1>1, <1>2
  <2>3. QED
    BY <2>1, <2>2
<1>5. ASSUME NEW i \in 1..Len(s) PROVE Tail(q)[i] = s[i]
  <2>1. i + 1 \in 1..Len(s) + 1 /\ ~(i + 1 <= 1) /\ (i + 1) - 1 = i
    BY <1>1
  <2>2. q[i + 1] = s[i]
    BY <1>2, <2>1
  <2>3. QED
    BY <1>4, <2>2
<1>6. Tail(q) = s
  BY <1>4, <1>5, SeqEqual
<1>7. QED
  BY <1>2, <1>3, <1>6

\* What is appended to the channel is behind what is in hand.
LEMMA AppendedBehind ==
    ASSUME NEW s \in Seq(Nat), NEW t \in Seq(Nat), NEW x \in Nat
    PROVE  s \o Append(t, x) = Append(s \o t, x)
<1>1. <<x>> \in Seq(Nat) /\ s \o t \in Seq(Nat)
  BY ConcatProperties
<1>2. Append(t, x) = t \o <<x>>
  BY AppendIsConcat
<1>3. Append(s \o t, x) = (s \o t) \o <<x>>
  BY <1>1, AppendIsConcat
<1>4. \A u \in Seq(Nat) : (s \o t) \o u = s \o (t \o u)
  BY ConcatAssociative
<1>5. QED
  BY <1>1, <1>2, <1>3, <1>4

-----------------------------------------------------------------------------
(* The opencode adapter                                                     *)

USE BridgeAssumption DEF runVars, linkVars, sendVars, pumpVars

-----------------------------------------------------------------------------
(* Types and the write pump                                                 *)

FrameTypes ==
    /\ sends \in Nat /\ refused \in SUBSET Nat
    /\ sendCh \in Seq(Nat) /\ written \in Seq(Nat) /\ hand \in Nat

\* The pump has a frame in hand while it writes, and lives as long as its connection
\* is read or joined.
PumpInv ==
    /\ pump \in {"none", "idle", "writing"}
    /\ phase \in {"dial", "read", "join", "sleep", "returned"}
    /\ pump = "writing" <=> hand # 0
    /\ pump # "none" => phase \in {"read", "join"}
    /\ \A i \in 1..Len(sendCh) : sendCh[i] # 0

\* The steps that neither move a frame nor start or end a pump.
LEMMA FrameSteps ==
    ASSUME [Next]_vars
    PROVE  \/ SendLocal \/ Dial \/ Take \/ Write \/ WriteFails \/ PumpReturns
           \/ DialFails \/ Wake \/ ReadFails \/ Join
           \/ UNCHANGED <<phase, conns, sendVars, pumpVars>>
<1>1. Cancel \/ Watch \/ PeerGoes \/ Inbound \/ ReadFrame \/ Injected \/ UNCHANGED vars
        => UNCHANGED <<phase, conns, sendVars, pumpVars>>
  BY DEF Cancel, Watch, PeerGoes, Inbound, ReadFrame, Injected, vars
<1>2. QED
  BY <1>1, Zenon DEF Next, Run, Pump

\* SendLocal puts the next frame last on the channel.
Taken ==
    /\ UNCHANGED refused
    /\ Len(sendCh') = Len(sendCh) + 1
    /\ sendCh'[Len(sendCh) + 1] = sends + 1
    /\ \A i \in 1..Len(sendCh) : sendCh'[i] = sendCh[i]

\* SendLocal takes the next frame or refuses it, and changes nothing else.
LEMMA TakenOrRefused ==
    ASSUME FrameTypes, SendLocal
    PROVE  /\ FrameTypes' /\ sends' = sends + 1
           /\ UNCHANGED runVars /\ UNCHANGED linkVars /\ UNCHANGED pumpVars
           /\ Taken \/ (refused' = refused \cup {sends + 1} /\ UNCHANGED sendCh)
<1>1. sends' = sends + 1 /\ UNCHANGED <<runVars, linkVars, pumpVars>>
  BY DEF SendLocal
<1>2. CASE HasRoom
  <2>1. sendCh' = Append(sendCh, sends + 1) /\ refused' = refused
    BY <1>2 DEF SendLocal
  <2>2. Taken
    BY <2>1 DEF Taken, FrameTypes
  <2>3. FrameTypes'
    BY <1>1, <2>1 DEF FrameTypes
  <2>4. QED
    BY <1>1, <2>2, <2>3
<1>3. CASE ~HasRoom
  <2>1. sendCh' = sendCh /\ refused' = refused \cup {sends + 1}
    BY <1>1, <1>3 DEF SendLocal
  <2>2. FrameTypes'
    BY <1>1, <2>1 DEF FrameTypes
  <2>3. QED
    BY <1>1, <2>1, <2>2
<1>4. QED
  BY <1>2, <1>3

\* The next index of a channel that grew is an old one or the last.
LEMMA TakenLast ==
    ASSUME FrameTypes, Taken, NEW i \in 1..Len(sendCh')
    PROVE  i \in 1..Len(sendCh) \/ i = Len(sendCh) + 1
BY DEF FrameTypes, Taken

\* Every step keeps the types and PumpInv.
LEMMA PumpInvariant == Spec => [](FrameTypes /\ PumpInv)
<1> USE DEF FrameTypes, PumpInv
<1>1. Init => FrameTypes /\ PumpInv
  BY DEF Init
<1>2. FrameTypes /\ PumpInv /\ [Next]_vars => (FrameTypes /\ PumpInv)'
  <2> SUFFICES ASSUME FrameTypes, PumpInv, [Next]_vars PROVE (FrameTypes /\ PumpInv)'
    OBVIOUS
  <2>1. CASE SendLocal
    <3>1. FrameTypes' /\ UNCHANGED <<pump, hand, phase>>
      BY <2>1, TakenOrRefused
    <3>2. ASSUME NEW i \in 1..Len(sendCh') PROVE sendCh'[i] # 0
      <4>1. CASE Taken
        <5>1. CASE i \in 1..Len(sendCh)
          BY <4>1, <5>1 DEF Taken
        <5>2. CASE i = Len(sendCh) + 1
          BY <4>1, <5>2 DEF Taken
        <5>3. QED
          BY <4>1, <5>1, <5>2, TakenLast
      <4>2. CASE UNCHANGED sendCh
        BY <4>2
      <4>3. QED
        BY <2>1, <4>1, <4>2, TakenOrRefused
    <3>3. QED
      BY <3>1, <3>2
  <2>2. CASE Dial
    BY <2>2 DEF Dial
  <2>3. CASE Take
    BY <2>3 DEF Take
  <2>4. CASE Write
    BY <2>4 DEF Write
  <2>5. CASE WriteFails
    BY <2>5 DEF WriteFails
  <2>6. CASE PumpReturns
    BY <2>6 DEF PumpReturns
  <2>7. CASE DialFails
    BY <2>7 DEF DialFails
  <2>8. CASE Wake
    BY <2>8 DEF Wake
  <2>9. CASE ReadFails
    BY <2>9 DEF ReadFails
  <2>10. CASE Join
    BY <2>10 DEF Join
  <2>11. CASE UNCHANGED <<phase, conns, sendVars, pumpVars>>
    BY <2>11
  <2>12. QED
    BY <2>1, <2>2, <2>3, <2>4, <2>5, <2>6, <2>7, <2>8, <2>9, <2>10, <2>11, FrameSteps
<1>3. QED
  BY <1>1, <1>2, PTL DEF Spec

-----------------------------------------------------------------------------
(* Order                                                                    *)

\* What was written is older than the frame in hand, which is older than what is on
\* the channel, and each part is in order.
OrderInv ==
    /\ \A i \in 1..Len(written) : written[i] <= sends
    /\ \A i \in 1..Len(sendCh) : sendCh[i] <= sends
    /\ hand <= sends
    /\ \A i, j \in 1..Len(written) : i < j => written[i] < written[j]
    /\ \A i, j \in 1..Len(sendCh) : i < j => sendCh[i] < sendCh[j]
    /\ hand # 0 => \A i \in 1..Len(written) : written[i] < hand
    /\ hand # 0 => \A i \in 1..Len(sendCh) : hand < sendCh[i]
    /\ \A i \in 1..Len(written), j \in 1..Len(sendCh) : written[i] < sendCh[j]

\* Every step keeps OrderInv: a frame moves from the channel to the hand to the wire.
LEMMA OrderInvariant == Spec => []OrderInv
<1> USE DEF OrderInv, FrameTypes, PumpInv
<1>1. Init => OrderInv
  BY DEF Init
<1>2. FrameTypes /\ PumpInv /\ OrderInv /\ [Next]_vars => OrderInv'
  <2> SUFFICES ASSUME FrameTypes, PumpInv, OrderInv, [Next]_vars PROVE OrderInv'
    OBVIOUS
  <2>1. CASE SendLocal
    <3>1. sends' = sends + 1 /\ UNCHANGED <<hand, written>>
      BY <2>1 DEF SendLocal
    <3>2. CASE UNCHANGED sendCh
      BY <3>1, <3>2
    <3>3. CASE Taken
      <4>1. ASSUME NEW i \in 1..Len(sendCh')
            PROVE  IF i \in 1..Len(sendCh) THEN sendCh'[i] = sendCh[i]
                   ELSE i = Len(sendCh) + 1 /\ sendCh'[i] = sends + 1
        BY <3>3, TakenLast DEF Taken
      <4>2. Len(sendCh) \in Nat
        OBVIOUS
      <4>3. ASSUME NEW i \in 1..Len(sendCh'), NEW j \in 1..Len(sendCh'), i < j
            PROVE  sendCh'[i] < sendCh'[j]
        <5>1. i \in 1..Len(sendCh)
          <6>1. i \in Nat /\ j \in Nat
            OBVIOUS
          <6>2. j <= Len(sendCh) + 1
            BY <4>1, <4>2, <6>1
          <6>3. QED
            BY <4>2, <4>3, <6>1, <6>2
        <5>2. sendCh'[i] = sendCh[i] /\ sendCh[i] \in Nat /\ sendCh[i] <= sends
          BY <4>1, <5>1
        <5>3. CASE j \in 1..Len(sendCh)
          <6>1. sendCh'[j] = sendCh[j]
            BY <4>1, <5>3
          <6>2. sendCh[i] < sendCh[j]
            BY <4>3, <5>1, <5>3
          <6>3. QED
            BY <5>2, <6>1, <6>2
        <5>4. CASE j \notin 1..Len(sendCh)
          <6>1. sendCh'[j] = sends + 1 /\ sends \in Nat
            BY <4>1, <5>4
          <6>2. QED
            BY <5>2, <6>1
        <5>5. QED
          BY <5>3, <5>4
      <4>4. ASSUME NEW i \in 1..Len(sendCh')
            PROVE  /\ sendCh'[i] <= sends'
                   /\ hand # 0 => hand < sendCh'[i]
                   /\ \A j \in 1..Len(written) : written[j] < sendCh'[i]
        <5>1. CASE i \in 1..Len(sendCh)
          <6>1. sendCh'[i] = sendCh[i] /\ sendCh[i] \in Nat
            BY <4>1, <5>1
          <6>2. QED
            BY <3>1, <5>1, <6>1
        <5>2. CASE i \notin 1..Len(sendCh)
          <6>1. sendCh'[i] = sends + 1
            BY <4>1, <5>2
          <6>2. \A k \in 1..Len(written) : written[k] \in Nat
            OBVIOUS
          <6>3. QED
            BY <3>1, <6>1, <6>2
        <5>3. QED
          BY <5>1, <5>2
      <4>5. \A k \in 1..Len(written) : written[k] <= sends'
        <5>1. ASSUME NEW k \in 1..Len(written) PROVE written[k] \in Nat
          OBVIOUS
        <5>2. QED
          BY <3>1, <5>1
      <4>6. hand <= sends'
        BY <3>1
      <4>7. QED
        BY <3>1, <4>3, <4>4, <4>5, <4>6
    <3>4. QED
      BY <2>1, <3>2, <3>3, TakenOrRefused
  <2>2. CASE Take
    <3>1. /\ sendCh # <<>> /\ hand' = Head(sendCh) /\ sendCh' = Tail(sendCh)
          /\ UNCHANGED <<sends, written>>
      BY <2>2 DEF Take
    <3>2. /\ hand' = sendCh[1] /\ 1 \in 1..Len(sendCh) /\ Len(sendCh') = Len(sendCh) - 1
          /\ \A i \in 1..Len(sendCh') : sendCh'[i] = sendCh[i + 1] /\ i + 1 \in 1..Len(sendCh)
      BY <3>1
    <3>3. ASSUME NEW i \in 1..Len(sendCh')
          PROVE  hand' < sendCh'[i] /\ sendCh'[i] <= sends'
      BY <3>1, <3>2
    <3>4. ASSUME NEW i \in 1..Len(sendCh'), NEW j \in 1..Len(sendCh'), i < j
          PROVE  sendCh'[i] < sendCh'[j]
      <4>1. sendCh'[i] = sendCh[i + 1] /\ sendCh'[j] = sendCh[j + 1]
        BY <3>2
      <4>2. i + 1 \in 1..Len(sendCh) /\ j + 1 \in 1..Len(sendCh)
        BY <3>2
      <4>3. i + 1 < j + 1
        BY <3>4
      <4>4. QED
        BY <4>1, <4>2, <4>3
    <3>5. ASSUME NEW i \in 1..Len(written)
          PROVE  /\ written[i] < hand' /\ written[i] <= sends'
                 /\ \A j \in 1..Len(sendCh') : written[i] < sendCh'[j]
      BY <3>1, <3>2
    <3>6. hand' <= sends'
      BY <3>1, <3>2
    <3>7. QED
      BY <3>1, <3>3, <3>4, <3>5, <3>6
  <2>3. CASE Write
    BY <2>3 DEF Write
  <2>4. CASE WriteFails
    BY <2>4 DEF WriteFails
  <2>5. CASE UNCHANGED <<sendVars, hand, written>>
    BY <2>5
  <2>6. Dial \/ PumpReturns \/ DialFails \/ Wake \/ ReadFails \/ Join
          => UNCHANGED <<sendVars, hand, written>>
    BY DEF Dial, PumpReturns, DialFails, Wake, ReadFails, Join
  <2>7. QED
    BY <2>1, <2>2, <2>3, <2>4, <2>5, <2>6, FrameSteps
<1>3. QED
  BY <1>1, <1>2, PumpInvariant, PTL DEF Spec

\* The frames written, the one in hand and those on the channel are in the order
\* SendLocal took them, over all connections (writePump).
THEOREM FramesInOrder == Spec => []WrittenInOrder
<1>1. FrameTypes /\ OrderInv => WrittenInOrder
  <2> SUFFICES ASSUME FrameTypes, OrderInv PROVE WrittenInOrder
    OBVIOUS
  <2> DEFINE mid == IF hand = 0 THEN <<>> ELSE <<hand>>
             front == written \o mid
             all == front \o sendCh
  <2>1. mid \in Seq(Nat) /\ Len(mid) \in {0, 1}
        /\ (hand = 0 => Len(mid) = 0) /\ (hand # 0 => Len(mid) = 1 /\ mid[1] = hand)
    BY DEF FrameTypes
  <2>2. /\ front \in Seq(Nat) /\ Len(front) = Len(written) + Len(mid)
        /\ \A i \in 1..Len(written) : front[i] = written[i]
        /\ hand # 0 => front[Len(front)] = hand
    BY <2>1 DEF FrameTypes
  <2> HIDE DEF mid, front
  <2>3. Len(written) \in Nat /\ Len(mid) \in {0, 1}
    BY <2>1 DEF FrameTypes
  <2>4. ASSUME NEW i \in 1..Len(front), i \notin 1..Len(written)
        PROVE  i = Len(written) + 1 /\ i = Len(front) /\ front[i] = hand /\ hand # 0
    <3>1. CASE Len(mid) = 0
      BY <2>2, <2>3, <2>4, <3>1
    <3>2. CASE Len(mid) = 1
      <4>1. i \in 1..Len(written) + 1
        BY <2>2, <2>3, <3>2
      <4>2. i = Len(written) + 1 /\ i = Len(front)
        BY <2>2, <2>3, <2>4, <3>2, <4>1
      <4>3. QED
        BY <2>1, <2>2, <3>2, <4>2
    <3>3. QED
      BY <2>3, <3>1, <3>2
  <2>5. ASSUME NEW i \in 1..Len(front), NEW j \in 1..Len(front), i < j PROVE front[i] < front[j]
    <3>1. i \in 1..Len(written)
      BY <2>2, <2>5, <2>3, <2>4
    <3>2. CASE j \in 1..Len(written)
      BY <2>2, <2>5, <3>1, <3>2 DEF OrderInv
    <3>3. CASE j \notin 1..Len(written)
      BY <2>2, <2>4, <3>1, <3>3 DEF OrderInv
    <3>4. QED
      BY <3>2, <3>3
  <2>6. ASSUME NEW i \in 1..Len(front), NEW j \in 1..Len(sendCh) PROVE front[i] < sendCh[j]
    <3>1. CASE i \in 1..Len(written)
      BY <2>2, <3>1 DEF OrderInv
    <3>2. CASE i \notin 1..Len(written)
      BY <2>4, <3>2 DEF OrderInv
    <3>3. QED
      BY <3>1, <3>2
  <2>7. /\ Len(all) = Len(front) + Len(sendCh)
        /\ \A i \in 1..Len(all) :
             all[i] = IF i <= Len(front) THEN front[i] ELSE sendCh[i - Len(front)]
    <3>1. front \in Seq(Nat) /\ sendCh \in Seq(Nat)
      BY <2>2 DEF FrameTypes
    <3> HIDE DEF front
    <3>2. Len(all) = Len(front) + Len(sendCh)
      BY <3>1
    <3>3. ASSUME NEW i \in 1..Len(all)
          PROVE  all[i] = IF i <= Len(front) THEN front[i] ELSE sendCh[i - Len(front)]
      BY <3>1
    <3>4. QED
      BY <3>2, <3>3
  <2>8. ASSUME NEW i \in 1..Len(all), NEW j \in 1..Len(all), i < j PROVE all[i] < all[j]
    <3>1. CASE j <= Len(front)
      BY <2>5, <2>7, <2>8, <3>1, <2>2
    <3>2. CASE i <= Len(front) /\ j > Len(front)
      <4>1. j - Len(front) \in 1..Len(sendCh)
        BY <2>2, <2>7, <3>2 DEF FrameTypes
      <4>2. QED
        BY <2>2, <2>6, <2>7, <3>2, <4>1
    <3>3. CASE i > Len(front)
      <4>1. i - Len(front) \in 1..Len(sendCh) /\ j - Len(front) \in 1..Len(sendCh)
            /\ i - Len(front) < j - Len(front)
        BY <2>2, <2>7, <2>8, <3>3 DEF FrameTypes
      <4>2. sendCh[i - Len(front)] < sendCh[j - Len(front)]
        BY <4>1 DEF OrderInv
      <4>3. QED
        BY <2>2, <2>7, <2>8, <3>3, <4>2
    <3>4. Len(front) \in Nat /\ i \in Nat /\ j \in Nat
      BY <2>2, <2>7 DEF FrameTypes
    <3>5. QED
      BY <2>8, <3>1, <3>2, <3>3, <3>4
  <2>9. QED
    BY <2>8 DEF WrittenInOrder, InHand, mid, front
<1>2. QED
  BY <1>1, PumpInvariant, OrderInvariant, PTL

-----------------------------------------------------------------------------
(* Losses                                                                   *)

\* Each connection had one loss at most, and one that has its pump none yet.
LossInv ==
    /\ IsFiniteSet(lost) /\ conns \in Nat
    /\ Cardinality(lost) <= conns
    /\ pump # "none" => Cardinality(lost) < conns

\* Every step keeps LossInv: a pump that lost a frame is gone.
LEMMA LossInvariant == Spec => []LossInv
<1> USE DEF LossInv
<1>1. Init => LossInv
  BY FS_EmptySet DEF Init
<1>2. PumpInv /\ LossInv /\ [Next]_vars => LossInv'
  <2> SUFFICES ASSUME PumpInv, LossInv, [Next]_vars PROVE LossInv'
    OBVIOUS
  <2>1. Cardinality(lost) \in Nat
    BY FS_CardinalityType
  <2>2. CASE SendLocal
    BY <2>2 DEF SendLocal
  <2>3. CASE Dial
    BY <2>1, <2>3 DEF Dial, PumpInv
  <2>4. CASE Take
    BY <2>4 DEF Take
  <2>5. CASE Write
    BY <2>5 DEF Write
  <2>6. CASE WriteFails
    <3>1. IsFiniteSet(lost \cup {hand}) /\ Cardinality(lost \cup {hand}) <= Cardinality(lost) + 1
      <4>1. /\ IsFiniteSet(lost \cup {hand})
            /\ \/ Cardinality(lost \cup {hand}) = Cardinality(lost)
               \/ Cardinality(lost \cup {hand}) = Cardinality(lost) + 1
        BY FS_AddElement
      <4>2. QED
        BY <4>1, <2>1
    <3>2. IsFiniteSet(lost') /\ Cardinality(lost') <= Cardinality(lost) + 1
      BY <2>6, <3>1 DEF WriteFails
    <3>3. Cardinality(lost') \in Nat
      BY <3>2, FS_CardinalityType
    <3>4. pump # "none" /\ pump' = "none" /\ conns' = conns
      BY <2>6 DEF WriteFails
    <3>5. QED
      BY <2>1, <3>2, <3>3, <3>4
  <2>7. CASE PumpReturns
    BY <2>7 DEF PumpReturns
  <2>8. DialFails \/ Wake \/ ReadFails \/ Join => UNCHANGED <<conns, pump, lost>>
    BY DEF DialFails, Wake, ReadFails, Join
  <2>9. CASE UNCHANGED <<conns, pump, lost>>
    BY <2>9
  <2>10. QED
    BY <2>2, <2>3, <2>4, <2>5, <2>6, <2>7, <2>8, <2>9, FrameSteps
<1>3. QED
  BY <1>1, <1>2, PumpInvariant, PTL DEF Spec

\* Where a frame can be.
IsIn(n, s) == \E i \in 1..Len(s) : s[i] = n

Found(n) == n \in lost \/ n = hand \/ IsIn(n, written) \/ IsIn(n, sendCh)

FoundInv == \A n \in 1..sends \ refused : Found(n)

\* An appended sequence has its old elements and the new one.
LEMMA InAppended ==
    ASSUME NEW s \in Seq(Nat), NEW x \in Nat
    PROVE  IsIn(x, Append(s, x)) /\ \A n : IsIn(n, s) => IsIn(n, Append(s, x))
<1>1. Len(Append(s, x)) = Len(s) + 1 /\ Len(s) \in Nat /\ Append(s, x)[Len(s) + 1] = x
      /\ \A i \in 1..Len(s) : Append(s, x)[i] = s[i]
  OBVIOUS
<1>2. IsIn(x, Append(s, x))
  <2>1. Len(s) + 1 \in 1..Len(Append(s, x))
    BY <1>1
  <2>2. QED
    BY <1>1, <2>1 DEF IsIn
<1>3. ASSUME NEW n, IsIn(n, s) PROVE IsIn(n, Append(s, x))
  <2>1. PICK i \in 1..Len(s) : s[i] = n
    BY <1>3 DEF IsIn
  <2>2. i \in 1..Len(Append(s, x))
    BY <1>1, <2>1
  <2>3. QED
    BY <1>1, <2>1, <2>2 DEF IsIn
<1>4. QED
  BY <1>2, <1>3

\* What is not the head of a sequence is in its tail.
LEMMA InTail ==
    ASSUME NEW s \in Seq(Nat), s # <<>>, NEW n, IsIn(n, s)
    PROVE  n = Head(s) \/ IsIn(n, Tail(s))
<1>1. PICK i \in 1..Len(s) : s[i] = n
  BY DEF IsIn
<1>2. CASE i = 1
  BY <1>1, <1>2
<1>3. CASE i # 1
  <2>1. i - 1 \in 1..Len(Tail(s)) /\ Tail(s)[i - 1] = s[i]
    BY <1>1, <1>3
  <2>2. QED
    BY <1>1, <2>1 DEF IsIn
<1>4. QED
  BY <1>2, <1>3

\* Every step keeps FoundInv: no frame is dropped but by a failed write.
LEMMA FoundInvariant == Spec => []FoundInv
<1>1. Init => FoundInv
  BY DEF Init, FoundInv
<1>2. FrameTypes /\ PumpInv /\ FoundInv /\ [Next]_vars => FoundInv'
  <2> SUFFICES ASSUME FrameTypes, PumpInv, FoundInv, [Next]_vars PROVE FoundInv'
    OBVIOUS
  <2>1. CASE SendLocal
    <3>1. sends' = sends + 1 /\ sends \in Nat /\ UNCHANGED <<written, lost, hand>>
      BY <2>1 DEF SendLocal, FrameTypes
    <3>2. CASE HasRoom
      <4>1. sendCh' = Append(sendCh, sends + 1) /\ refused' = refused
        BY <2>1, <3>1, <3>2 DEF SendLocal
      <4>2. IsIn(sends + 1, sendCh') /\ \A n : IsIn(n, sendCh) => IsIn(n, sendCh')
        BY <3>1, <4>1, InAppended DEF FrameTypes
      <4>3. ASSUME NEW n \in 1..sends' \ refused' PROVE Found(n)'
        <5>1. CASE n = sends + 1
          BY <4>2, <5>1 DEF Found
        <5>2. CASE n # sends + 1
          <6>1. n \in 1..sends \ refused
            BY <3>1, <4>1, <5>2
          <6>2. Found(n)
            BY <6>1 DEF FoundInv
          <6>3. QED
            BY <3>1, <4>2, <6>2 DEF Found
        <5>3. QED
          BY <5>1, <5>2
      <4>4. QED
        BY <4>3 DEF FoundInv
    <3>3. CASE ~HasRoom
      <4>1. refused' = refused \cup {sends + 1} /\ UNCHANGED sendCh
        BY <2>1, <3>1, <3>3 DEF SendLocal
      <4>2. 1..sends' \ refused' \subseteq 1..sends \ refused
        BY <3>1, <4>1
      <4>3. ASSUME NEW n \in 1..sends' \ refused' PROVE Found(n)'
        BY <3>1, <4>1, <4>2 DEF FoundInv, Found
      <4>4. QED
        BY <4>3 DEF FoundInv
    <3>4. QED
      BY <3>2, <3>3
  <2>2. CASE Take
    <3>1. /\ sendCh # <<>> /\ hand = 0 /\ hand' = Head(sendCh) /\ sendCh' = Tail(sendCh)
          /\ UNCHANGED <<sends, refused, written, lost>>
      BY <2>2 DEF Take, PumpInv
    <3>2. ASSUME NEW n \in 1..sends \ refused PROVE Found(n)'
      <4>1. Found(n) /\ n # 0
        BY DEF FoundInv
      <4>2. CASE IsIn(n, sendCh)
        BY <3>1, <4>2, InTail DEF Found, FrameTypes
      <4>3. QED
        BY <3>1, <4>1, <4>2 DEF Found
    <3>3. QED
      BY <3>1, <3>2 DEF FoundInv
  <2>3. CASE Write
    <3>1. written' = Append(written, hand) /\ UNCHANGED <<sends, refused, sendCh, lost>>
      BY <2>3 DEF Write
    <3>2. IsIn(hand, written') /\ \A n : IsIn(n, written) => IsIn(n, written')
      BY <3>1, InAppended DEF FrameTypes
    <3>3. ASSUME NEW n \in 1..sends \ refused PROVE Found(n)'
      BY <3>1, <3>2 DEF FoundInv, Found
    <3>4. QED
      BY <3>1, <3>3 DEF FoundInv
  <2>4. CASE WriteFails
    <3>1. lost' = lost \cup {hand} /\ UNCHANGED <<sends, refused, sendCh, written>>
      BY <2>4 DEF WriteFails
    <3>2. ASSUME NEW n \in 1..sends \ refused PROVE Found(n)'
      BY <3>1 DEF FoundInv, Found
    <3>3. QED
      BY <3>1, <3>2 DEF FoundInv
  <2>5. CASE UNCHANGED <<sendVars, hand, written, lost>>
    BY <2>5 DEF FoundInv, Found
  <2>6. Dial \/ PumpReturns \/ DialFails \/ Wake \/ ReadFails \/ Join
          => UNCHANGED <<sendVars, hand, written, lost>>
    BY DEF Dial, PumpReturns, DialFails, Wake, ReadFails, Join
  <2>7. QED
    BY <2>1, <2>2, <2>3, <2>4, <2>5, <2>6, FrameSteps
<1>3. QED
  BY <1>1, <1>2, PumpInvariant, PTL DEF Spec

\* Every frame SendLocal took is written, on its way, or lost to a failed write, of
\* which each connection has at most one, and no pump outlives its connection
\* (writePump, runConn).
THEOREM FramesAccountedFor == Spec => []OneLossPerConnection
<1>1. PumpInv /\ LossInv /\ FoundInv => OneLossPerConnection
  BY DEF OneLossPerConnection, PumpInv, LossInv, FoundInv, Found, IsIn
<1>2. QED
  BY <1>1, PumpInvariant, LossInvariant, FoundInvariant, PTL

-----------------------------------------------------------------------------
(* The bounded queue of LossyChannel                                        *)

\* A frame in hand, or 0, and a channel as one sequence: what LossyChannel's queue is.
Line(h, s) == (IF h = 0 THEN <<>> ELSE <<h>>) \o s
Queued == Line(hand, sendCh)

\* The frame in hand, if there is one, and the channel behind it.
LEMMA QueueParts ==
    ASSUME NEW h \in Nat, NEW s \in Seq(Nat)
    PROVE  /\ Line(h, s) \in Seq(Nat)
           /\ h = 0 => Line(h, s) = s
           /\ h # 0 => /\ Line(h, s) # <<>> /\ Len(Line(h, s)) = Len(s) + 1
                       /\ Head(Line(h, s)) = h /\ Tail(Line(h, s)) = s
<1>1. CASE h = 0
  BY <1>1, ConcatEmptySeq DEF Line
<1>2. CASE h # 0
  <2>1. Line(h, s) = <<h>> \o s /\ <<h>> \in Seq(Nat)
    BY <1>2 DEF Line
  <2>2. Line(h, s) \in Seq(Nat)
    BY <2>1, ConcatProperties
  <2>3. QED
    BY <1>2, <2>1, <2>2, Prefixed
<1>3. QED
  BY <1>1, <1>2

\* A frame put on the channel is last, whatever is in hand.
LEMMA QueueAppended ==
    ASSUME NEW h \in Nat, NEW s \in Seq(Nat), NEW x \in Nat
    PROVE  Line(h, Append(s, x)) = Append(Line(h, s), x)
<1>1. CASE h = 0
  BY <1>1, QueueParts, AppendProperties
<1>2. CASE h # 0
  <2>1. <<h>> \in Seq(Nat)
    OBVIOUS
  <2>2. QED
    BY <1>2, <2>1, AppendedBehind DEF Line
<1>3. QED
  BY <1>1, <1>2

\* The first of the channel, in hand, is the first of the queue.
LEMMA QueueTaken ==
    ASSUME NEW s \in Seq(Nat), s # <<>>, Head(s) # 0
    PROVE  Line(Head(s), Tail(s)) = s
<1>1. /\ Len(s) \in Nat /\ 1 \in 1..Len(s) /\ Len(s) \in 1..Len(s) /\ Head(s) = s[1]
  OBVIOUS
<1>2. SubSeq(s, 1, Len(s)) = <<s[1]>> \o SubSeq(s, 1 + 1, Len(s))
  BY <1>1, SubSeqRecursiveFirst
<1>3. SubSeq(s, 1, Len(s)) = s /\ Tail(s) = SubSeq(s, 2, Len(s)) /\ 1 + 1 = 2
  BY SubSeqFull, TailIsSubSeq
<1>4. Line(Head(s), Tail(s)) = <<Head(s)>> \o Tail(s)
  BY DEF Line
<1>5. QED
  BY <1>1, <1>2, <1>3, <1>4

\* Each step of the bridge is one of the queue's, or leaves it as it is.
LEMMA ChannelStep ==
    ASSUME FrameTypes, FrameTypes', PumpInv, [Next]_vars
    PROVE  [Channel!Next]_<<Queued, sends, refused, written, lost, pump # "none">>
<1>1. hand \in Nat /\ sendCh \in Seq(Nat) /\ hand' \in Nat /\ sendCh' \in Seq(Nat)
      /\ sends \in Nat /\ Len(sendCh) \in Nat
  BY DEF FrameTypes
<1>2. Len(Queued) = Len(sendCh) \/ Len(Queued) = Len(sendCh) + 1
  BY <1>1, QueueParts DEF Queued
<1>3. CASE SendLocal
  <2>1. sends' = sends + 1 /\ sends + 1 \in Nat /\ UNCHANGED <<hand, written, lost, pump>>
    BY <1>1, <1>3 DEF SendLocal
  <2>2. CASE HasRoom
    <3>1. sendCh' = Append(sendCh, sends + 1) /\ refused' = refused
      BY <1>3, <2>1, <2>2 DEF SendLocal
    <3>2. Len(Queued) <= Buffer
      <4>1. Len(sendCh) < Buffer /\ Buffer \in Nat
        BY <2>2, BridgeAssumption DEF HasRoom
      <4>2. QED
        BY <1>1, <1>2, <4>1
    <3>3. Queued' = Append(Queued, sends + 1)
      <4>1. \A x \in Nat : Line(hand, Append(sendCh, x)) = Append(Line(hand, sendCh), x)
        BY <1>1, QueueAppended, Zenon
      <4>2. QED
        BY <2>1, <3>1, <4>1 DEF Queued
    <3>4. Channel!Accept
      BY <2>1, <3>1, <3>2, <3>3 DEF Channel!Accept, Queued, Line, InHand
    <3>5. QED
      BY <3>4 DEF Channel!Next
  <2>3. CASE ~HasRoom
    <3>1. UNCHANGED sendCh /\ refused' = refused \cup {sends + 1}
      BY <1>3, <2>1, <2>3 DEF SendLocal
    <3>2. Len(Queued) >= Buffer
      <4>1. Len(sendCh) >= Buffer /\ Buffer \in Nat
        BY <1>1, <2>3, BridgeAssumption DEF HasRoom
      <4>2. QED
        BY <1>1, <1>2, <4>1
    <3>3. Queued' = Queued
      BY <2>1, <3>1 DEF Queued
    <3>4. Channel!Refuse
      BY <2>1, <3>1, <3>2, <3>3 DEF Channel!Refuse, Queued, Line, InHand
    <3>5. QED
      BY <3>4 DEF Channel!Next
  <2>4. QED
    BY <2>2, <2>3
<1>4. CASE Dial
  <2>1. UNCHANGED <<sendCh, sends, refused, hand, written, lost>>
        /\ pump = "none" /\ pump' # "none"
    BY <1>4 DEF Dial, PumpInv
  <2>2. Queued' = Queued
    BY <2>1 DEF Queued
  <2>3. Channel!Connect
    BY <2>1, <2>2 DEF Channel!Connect, Queued, Line, InHand
  <2>4. QED
    BY <2>3 DEF Channel!Next
<1>5. CASE Take
  <2>1. hand = 0 /\ sendCh # <<>> /\ hand' = Head(sendCh) /\ sendCh' = Tail(sendCh)
    BY <1>5 DEF Take, PumpInv
  <2>2. UNCHANGED <<sends, refused, written, lost>> /\ pump # "none" /\ pump' # "none"
    BY <1>5 DEF Take
  <2>3. hand' # 0
    BY <1>1, <2>1 DEF PumpInv
  <2>4. Queued' = Queued
    BY <1>1, <2>1, <2>3, QueueParts, QueueTaken DEF Queued
  <2>5. QED
    BY <2>2, <2>4
<1>6. CASE Write
  <2>1. pump = "writing" /\ pump' = "idle" /\ hand' = 0 /\ written' = Append(written, hand)
        /\ UNCHANGED <<sendCh, sends, refused, lost>>
    BY <1>6 DEF Write, sendVars
  <2>2. hand # 0
    BY <2>1 DEF PumpInv
  <2>3. Queued # <<>> /\ Head(Queued) = hand /\ Queued' = Tail(Queued)
    BY <1>1, <2>1, <2>2, QueueParts DEF Queued
  <2>4. Channel!HandOver
    BY <2>1, <2>2, <2>3 DEF Channel!HandOver, Queued, Line, InHand
  <2>5. QED
    BY <2>4 DEF Channel!Next
<1>7. CASE WriteFails
  <2>1. pump = "writing" /\ pump' = "none" /\ hand' = 0 /\ lost' = lost \cup {hand}
        /\ UNCHANGED <<sendCh, sends, refused, written>>
    BY <1>7 DEF WriteFails, sendVars
  <2>2. hand # 0
    BY <2>1 DEF PumpInv
  <2>3. Queued # <<>> /\ Head(Queued) = hand /\ Queued' = Tail(Queued)
    BY <1>1, <2>1, <2>2, QueueParts DEF Queued
  <2>4. Channel!Lose
    BY <2>1, <2>2, <2>3 DEF Channel!Lose, Queued, Line, InHand
  <2>5. QED
    BY <2>4 DEF Channel!Next
<1>8. CASE PumpReturns
  <2>1. pump = "idle" /\ pump' = "none" /\ UNCHANGED <<sends, refused, sendCh, hand, written, lost>>
    BY <1>8 DEF PumpReturns
  <2>2. Queued' = Queued
    BY <2>1 DEF Queued
  <2>3. Channel!Close
    BY <2>1, <2>2 DEF Channel!Close, Queued, Line, InHand
  <2>4. QED
    BY <2>3 DEF Channel!Next
<1>9. CASE UNCHANGED <<sends, refused, sendCh, hand, written, lost, pump>>
  BY <1>9 DEF Queued
<1>10. QED
  <2>1. DialFails \/ Wake \/ ReadFails \/ Join \/ UNCHANGED <<phase, conns, sendVars, pumpVars>>
          => UNCHANGED <<sends, refused, sendCh, hand, written, lost, pump>>
    BY DEF DialFails, Wake, ReadFails, Join
  <2>2. QED
    BY <1>3, <1>4, <1>5, <1>6, <1>7, <1>8, <1>9, <2>1, FrameSteps

\* The bridge implements LossyChannel: whatever its pumps, contexts and connections do,
\* frames leave in the order they were taken, a connection that lost one takes no
\* more, and only a full channel refuses a frame (SendLocal, writePump, runConn).
THEOREM BridgeIsAChannel == Spec => ImplementsChannel
<1>1. Init => Channel!Init
  <2>1. Init => Line(hand, sendCh) = <<>>
    <3>1. 0 \in Nat /\ <<>> \in Seq(Nat)
      OBVIOUS
    <3>2. Line(0, <<>>) = <<>>
      BY <3>1, QueueParts
    <3>3. QED
      BY <3>2 DEF Init
  <2>2. QED
    BY <2>1 DEF Init, Channel!Init, Line, InHand
<1>2. /\ FrameTypes /\ FrameTypes' /\ PumpInv /\ [Next]_vars
      => [Channel!Next]_<<Queued, sends, refused, written, lost, pump # "none">>
  BY ChannelStep
<1>3. QED
  BY <1>1, <1>2, PumpInvariant, PTL
     DEF Spec, ImplementsChannel, Channel!Spec, Queued, Line, InHand

-----------------------------------------------------------------------------
(* The pi adapter                                                           *)

USE PiAssumption DEF connVars, callVars, envVars

-----------------------------------------------------------------------------
(* The socket                                                               *)

ConnTypes ==
    /\ sock \in [Sockets -> {"none", "connecting", "open", "closing", "dead"}]
    /\ ws \in Sockets \cup {None}
    /\ timer \in BOOLEAN /\ stopped \in BOOLEAN

\* connect makes a socket that did not exist, or fails.
LEMMA ConnectMakesOne == Connect => Throws \/ \E s \in Free : New(s)
<1>1. Free # {} => (CHOOSE s \in Free : TRUE) \in Free
  OBVIOUS
<1>2. QED
  BY <1>1 DEF Connect

\* What a step does to the socket and its timer: only these actions touch them.
LEMMA ConnSteps ==
    ASSUME [ClientNext]_clientVars
    PROVE  \/ Start \/ Stop \/ TimerFires \/ DaemonDies
           \/ \E s \in Sockets : Open(s) \/ Closed(s) \/ ErrorEvent(s)
           \/ UNCHANGED connVars
<1>1. ASSUME NEW c \in Calls, Call(c) PROVE UNCHANGED connVars
  BY <1>1 DEF Call, Send, Reply, Answer, Receive, ListFails, Posted, Broadcast
<1>2. ASSUME NEW p \in Peers, SessionsChange(p) PROVE UNCHANGED connVars
  BY <1>2 DEF SessionsChange
<1>3. ASSUME NEW s \in Sockets, NEW p \in Peers \cup {Self}, HandleFrame(s, p)
      PROVE  UNCHANGED connVars
  BY <1>3 DEF HandleFrame
<1>4. ASSUME DaemonStarts PROVE UNCHANGED connVars
  BY <1>4 DEF DaemonStarts
<1>5. ASSUME UNCHANGED clientVars PROVE UNCHANGED connVars
  BY <1>5 DEF clientVars
<1>6. QED
  BY <1>1, <1>2, <1>3, <1>4, <1>5 DEF ClientNext, Socket

\* Every step keeps the types of the socket.
LEMMA ConnTypesInvariant == ClientSpec => []ConnTypes
<1>1. ClientInit => ConnTypes
  BY DEF ClientInit, ConnTypes
<1>2. ConnTypes /\ [ClientNext]_clientVars => ConnTypes'
  <2> SUFFICES ASSUME ConnTypes, [ClientNext]_clientVars PROVE ConnTypes'
    OBVIOUS
  <2> USE DEF ConnTypes
  <2>1. ASSUME Connect, stopped' \in BOOLEAN PROVE ConnTypes'
    <3>1. CASE Throws
      BY <2>1, <3>1 DEF Throws, AfterClose, Live
    <3>2. ASSUME NEW s \in Free, New(s) PROVE ConnTypes'
      BY <2>1, <3>2 DEF New, Free, AfterClose, Live
    <3>3. QED
      BY <2>1, <3>1, <3>2, ConnectMakesOne
  <2>2. CASE Start
    BY <2>1, <2>2 DEF Start
  <2>3. CASE Stop
    BY <2>3 DEF Stop, AfterClose, Live
  <2>4. CASE TimerFires
    BY <2>1, <2>4 DEF TimerFires
  <2>5. CASE DaemonDies
    BY <2>5 DEF DaemonDies, Live
  <2>6. ASSUME NEW s \in Sockets, Open(s) PROVE ConnTypes'
    BY <2>6 DEF Open
  <2>7. ASSUME NEW s \in Sockets, Closed(s) PROVE ConnTypes'
    BY <2>7 DEF Closed, Drop
  <2>8. ASSUME NEW s \in Sockets, ErrorEvent(s) PROVE ConnTypes'
    BY <2>8 DEF ErrorEvent, Drop
  <2>9. CASE UNCHANGED connVars
    BY <2>9
  <2>10. QED
    BY <2>2, <2>3, <2>4, <2>5, <2>6, <2>7, <2>8, <2>9, ConnSteps
<1>3. QED
  BY <1>1, <1>2, PTL DEF ClientSpec

\* A started client has its timer set or a socket whose close will set it, and never
\* both; a stopped one neither (connect, scheduleReconnect).
THEOREM ClientIsNeverIdle == ClientSpec => []NeverIdle
<1>1. ClientInit => NeverIdle
  BY DEF ClientInit, NeverIdle
<1>2. ConnTypes /\ NeverIdle /\ [ClientNext]_clientVars => NeverIdle'
  <2> SUFFICES ASSUME ConnTypes, NeverIdle, [ClientNext]_clientVars PROVE NeverIdle'
    OBVIOUS
  <2> USE DEF NeverIdle, ConnTypes
  <2>1. ASSUME Connect, stopped' = FALSE PROVE NeverIdle'
    <3>1. CASE Throws
      BY <2>1, <3>1 DEF Throws
    <3>2. ASSUME NEW s \in Free, New(s) PROVE NeverIdle'
      <4>1. ws' = s /\ s # None /\ timer' = FALSE
        BY <3>2 DEF New, Free
      <4>2. sock'[s] = "connecting"
        BY <3>2 DEF New, Free, AfterClose
      <4>3. QED
        BY <2>1, <4>1, <4>2
    <3>3. QED
      BY <2>1, <3>1, <3>2, ConnectMakesOne
  <2>2. CASE Start
    BY <2>1, <2>2 DEF Start
  <2>3. CASE Stop
    BY <2>3 DEF Stop
  <2>4. CASE TimerFires
    BY <2>1, <2>4 DEF TimerFires
  <2>5. CASE DaemonDies
    BY <2>5 DEF DaemonDies, Live
  <2>6. ASSUME NEW s \in Sockets, Open(s) PROVE NeverIdle'
    BY <2>6 DEF Open
  <2>7. ASSUME NEW s \in Sockets, Closed(s) PROVE NeverIdle'
    BY <2>7 DEF Closed, Drop
  <2>8. ASSUME NEW s \in Sockets, ErrorEvent(s) PROVE NeverIdle'
    BY <2>8 DEF ErrorEvent, Drop
  <2>9. CASE UNCHANGED connVars
    BY <2>9
  <2>10. QED
    BY <2>2, <2>3, <2>4, <2>5, <2>6, <2>7, <2>8, <2>9, ConnSteps
<1>3. QED
  BY <1>1, <1>2, ConnTypesInvariant, PTL DEF ClientSpec

\* A live socket the client has lost sight of was taken out of ws by another socket's
\* handler (the 'close' and 'error' handlers of connect, closeSocket).
THEOREM OnlyHandlersLoseSockets == ClientSpec => []UntrackedAreTaken
<1>1. ClientInit => UntrackedAreTaken
  BY DEF ClientInit, UntrackedAreTaken, Live
<1>2. ConnTypes /\ UntrackedAreTaken /\ [ClientNext]_clientVars => UntrackedAreTaken'
  <2> SUFFICES ASSUME ConnTypes, UntrackedAreTaken, [ClientNext]_clientVars PROVE UntrackedAreTaken'
    OBVIOUS
  <2> USE DEF UntrackedAreTaken, ConnTypes, Live
  <2>1. ASSUME Connect PROVE UntrackedAreTaken'
    <3>1. CASE Throws
      BY <3>1 DEF Throws, AfterClose
    <3>2. ASSUME NEW s \in Free, New(s) PROVE UntrackedAreTaken'
      BY <3>2 DEF New, Free, AfterClose
    <3>3. QED
      BY <2>1, <3>1, <3>2, ConnectMakesOne
  <2>2. CASE Start
    BY <2>1, <2>2 DEF Start
  <2>3. CASE Stop
    BY <2>3 DEF Stop, AfterClose
  <2>4. CASE TimerFires
    BY <2>1, <2>4 DEF TimerFires
  <2>5. CASE DaemonDies
    BY <2>5 DEF DaemonDies
  <2>6. ASSUME NEW s \in Sockets, Open(s) PROVE UntrackedAreTaken'
    BY <2>6 DEF Open
  <2>7. ASSUME NEW s \in Sockets, Closed(s) PROVE UntrackedAreTaken'
    BY <2>7 DEF Closed, Drop
  <2>8. ASSUME NEW s \in Sockets, ErrorEvent(s) PROVE UntrackedAreTaken'
    BY <2>8 DEF ErrorEvent, Drop
  <2>9. CASE UNCHANGED connVars
    BY <2>9
  <2>10. QED
    BY <2>2, <2>3, <2>4, <2>5, <2>6, <2>7, <2>8, <2>9, ConnSteps
<1>3. QED
  BY <1>1, <1>2, ConnTypesInvariant, PTL DEF ClientSpec

-----------------------------------------------------------------------------
(* The calls of send                                                        *)

CallTypes ==
    /\ pc \in [Calls -> {"idle", "asking", "answered", "posting", "done"}]
    /\ target \in [Calls -> Peers \cup {Self, None}] /\ lastInboundFrom \in Peers \cup {Self, None}
    /\ answer \in [Calls -> SUBSET Peers] /\ seen \in [Calls -> SUBSET Peers]
    /\ outcome \in [Calls -> {"none", "local", "relay", "failed"}]
    /\ localPeers \in SUBSET Peers /\ sessions \in SUBSET Peers

\* A call has seen what is registered while it asks, and what it was answered.
CallInv ==
    /\ CallTypes
    /\ \A c \in Calls : pc[c] = "asking" => sessions \subseteq seen[c]
    /\ \A c \in Calls : pc[c] = "answered" => answer[c] \subseteq seen[c]
    /\ LocalTargetWasThere

\* Socket events leave the calls alone.
LEMMA CallSteps ==
    ASSUME [ClientNext]_clientVars
    PROVE  \/ \E c \in Calls : Call(c)
           \/ \E p \in Peers : SessionsChange(p)
           \/ \E s \in Sockets, p \in Peers \cup {Self} : HandleFrame(s, p)
           \/ UNCHANGED <<callVars, sessions, lastInboundFrom>>
<1>1. Start \/ Stop \/ TimerFires \/ DaemonDies \/ DaemonStarts
        => UNCHANGED <<callVars, sessions, lastInboundFrom>>
  BY DEF Start, Stop, TimerFires, DaemonDies, DaemonStarts
<1>2. ASSUME NEW s \in Sockets, Open(s) \/ Closed(s) \/ ErrorEvent(s)
      PROVE  UNCHANGED <<callVars, sessions, lastInboundFrom>>
  BY <1>2 DEF Open, Closed, ErrorEvent
<1>3. ASSUME UNCHANGED clientVars PROVE UNCHANGED <<callVars, sessions, lastInboundFrom>>
  BY <1>3 DEF clientVars
<1>4. QED
  BY <1>1, <1>2, <1>3 DEF ClientNext, Socket

\* Every step keeps CallInv: the sessions a call sees only grow while it asks.
LEMMA CallInvariant == ClientSpec => []CallInv
<1> USE DEF CallInv, CallTypes, LocalTargetWasThere
<1>1. ClientInit => CallInv
  BY DEF ClientInit
<1>2. CallInv /\ [ClientNext]_clientVars => CallInv'
  <2> SUFFICES ASSUME CallInv, [ClientNext]_clientVars PROVE CallInv'
    OBVIOUS
  <2>1. ASSUME NEW c \in Calls, NEW p \in Peers \cup {Self, None}, Send(c, p) PROVE CallInv'
    BY <2>1 DEF Send
  <2>2. ASSUME NEW c \in Calls, Reply(c) PROVE CallInv'
    BY <2>1, <2>2 DEF Reply
  <2>3. ASSUME NEW c \in Calls, Answer(c) PROVE CallInv'
    BY <2>3 DEF Answer
  <2>4. ASSUME NEW c \in Calls, Receive(c) PROVE CallInv'
    BY <2>4 DEF Receive, Route
  <2>5. ASSUME NEW c \in Calls, ListFails(c) PROVE CallInv'
    BY <2>5 DEF ListFails, Route
  <2>6. ASSUME NEW c \in Calls, Posted(c) PROVE CallInv'
    BY <2>6 DEF Posted
  <2>7. ASSUME NEW c \in Calls, Broadcast(c) PROVE CallInv'
    BY <2>7 DEF Broadcast
  <2>8. ASSUME NEW p \in Peers, SessionsChange(p) PROVE CallInv'
    BY <2>8 DEF SessionsChange
  <2>9. ASSUME NEW s \in Sockets, NEW p \in Peers \cup {Self}, HandleFrame(s, p) PROVE CallInv'
    BY <2>9 DEF HandleFrame
  <2>10. CASE UNCHANGED <<callVars, sessions, lastInboundFrom>>
    BY <2>10
  <2>11. QED
    BY <2>1, <2>2, <2>3, <2>4, <2>5, <2>6, <2>7, <2>8, <2>9, <2>10, CallSteps DEF Call
<1>3. QED
  BY <1>1, <1>2, PTL DEF ClientSpec

\* A send goes to a local session only if that session was registered after the call
\* was made, or the read of the list failed (send, fetchLocalPeers).
THEOREM LocalRouteIsFresh == ClientSpec => []LocalTargetWasThere
<1>1. CallInv => LocalTargetWasThere
  BY DEF CallInv
<1>2. QED
  BY <1>1, CallInvariant, PTL
===============================================================================

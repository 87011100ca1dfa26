------------------------------ MODULE MeshProofs ------------------------------
(* Proofs about Mesh, for every number of subscribers, targets, names and  *)
(* messages.                                                               *)
EXTENDS Mesh, TLAPS, SequenceTheorems

USE MeshAssumption DEF Routers, Holders, clientVars, regVars, routeVars

\* The registry, the hub and the stages of the subscribers agree, whatever the
\* order of registrations, releases and deregistrations (Register, serve).
LEMMA RegistryInvariant == Spec => []RegistryInv
<1>1. Init => RegistryInv
  BY DEF Init, RegistryInv, RegTypes, NewestIsRoutable, NoDanglingEntry
<1>2. RegistryInv /\ [Next]_vars => RegistryInv'
  <2> SUFFICES ASSUME RegistryInv, [Next]_vars PROVE RegistryInv'
    OBVIOUS
  <2>1. ASSUME NEW c \in Clients, NEW n \in Names \cup {None}, Upgrade(c, n)
        PROVE  RegistryInv'
    BY <2>1 DEF Upgrade, RegistryInv, RegTypes, NewestIsRoutable, NoDanglingEntry
  <2>2. ASSUME NEW c \in Clients, Add(c)
        PROVE  RegistryInv'
    BY <2>2 DEF Add, RegistryInv, RegTypes, NewestIsRoutable, NoDanglingEntry
  <2>3. ASSUME NEW c \in Clients, Register(c)
        PROVE  RegistryInv'
    BY <2>3 DEF Register, RegistryInv, RegTypes, NewestIsRoutable, NoDanglingEntry, SetEntry
  <2>4. ASSUME NEW c \in Clients, Write(c)
        PROVE  RegistryInv'
    BY <2>4 DEF Write, RegistryInv, RegTypes, NewestIsRoutable, NoDanglingEntry
  <2>5. ASSUME NEW c \in Clients, WriteFails(c)
        PROVE  RegistryInv'
    BY <2>5 DEF WriteFails, RegistryInv, RegTypes, NewestIsRoutable, NoDanglingEntry
  <2>6. ASSUME NEW c \in Clients, ReadFails(c)
        PROVE  RegistryInv'
    BY <2>6 DEF ReadFails, RegistryInv, RegTypes, NewestIsRoutable, NoDanglingEntry
  <2>7. ASSUME NEW c \in Clients, Release(c)
        PROVE  RegistryInv'
    BY <2>7 DEF Release, RegistryInv, RegTypes, NewestIsRoutable, NoDanglingEntry
  <2>8. ASSUME NEW c \in Clients, Remove(c)
        PROVE  RegistryInv'
    BY <2>8 DEF Remove, RegistryInv, RegTypes, NewestIsRoutable, NoDanglingEntry
  <2>9. ASSUME NEW c \in Clients, PeerGoes(c)
        PROVE  RegistryInv'
    BY <2>9 DEF PeerGoes, RegistryInv, RegTypes, NewestIsRoutable, NoDanglingEntry
  <2>10. ASSUME NEW n \in Names, DeregisterByName(n)
        PROVE  RegistryInv'
    BY <2>10 DEF DeregisterByName, RemoveEntry, RegistryInv, RegTypes, NewestIsRoutable, NoDanglingEntry
  <2>11. ASSUME NEW n \in Names, NEW t \in Targets, RegisterTarget(t, n)
        PROVE  RegistryInv'
    BY <2>11 DEF RegisterTarget, SetEntry, RegistryInv, RegTypes, NewestIsRoutable, NoDanglingEntry
  <2>12. ASSUME NEW r \in Routers, NEW n \in Names, Route(r, n)
        PROVE  RegistryInv'
    BY <2>12 DEF Route, Start, MaySend, RegistryInv, RegTypes, NewestIsRoutable, NoDanglingEntry
  <2>13. ASSUME NEW r \in Routers, Broadcast(r)
        PROVE  RegistryInv'
    BY <2>13 DEF Broadcast, Start, MaySend, RegistryInv, RegTypes, NewestIsRoutable,
       NoDanglingEntry
  <2>14. ASSUME NEW r \in Routers, NEW c \in Clients, DeliverToClient(r, c)
        PROVE  RegistryInv'
    BY <2>14 DEF DeliverToClient, Accept, Enqueue, RegistryInv, RegTypes, NewestIsRoutable,
       NoDanglingEntry
  <2>15. ASSUME NEW r \in Routers, NEW t \in Targets, DeliverToTarget(r, t)
        PROVE  RegistryInv'
    BY <2>15 DEF DeliverToTarget, Accept, RegistryInv, RegTypes, NewestIsRoutable, NoDanglingEntry
  <2>16. ASSUME NEW r \in Routers, Finish(r)
        PROVE  RegistryInv'
    BY <2>16 DEF Finish, Enqueue, RegistryInv, RegTypes, NewestIsRoutable, NoDanglingEntry
  <2>17. CASE SurfaceEvent
    BY <2>17 DEF SurfaceEvent, RegistryInv, RegTypes, NewestIsRoutable, NoDanglingEntry, Start,
       MaySend
  <2>18. CASE CloseAll
    BY <2>18 DEF CloseAll, RegistryInv, RegTypes, NewestIsRoutable, NoDanglingEntry
  <2>19. CASE UNCHANGED vars
    BY <2>19 DEF vars, RegistryInv, RegTypes, NewestIsRoutable, NoDanglingEntry
  <2>20. QED
    BY <2>1, <2>2, <2>3, <2>4, <2>5, <2>6, <2>7, <2>8, <2>9, <2>10, <2>11, <2>12,
       <2>13, <2>14, <2>15, <2>16, <2>17, <2>18, <2>19,
       Zenon DEF Next, Serve, Routing
<1>3. QED
  BY <1>1, <1>2, PTL DEF Spec

\* The newest registration of a name is routable while it is connected.
THEOREM NewestRoutable == Spec => []NewestIsRoutable
<1>1. RegistryInv => NewestIsRoutable
  BY DEF RegistryInv
<1>2. QED
  BY <1>1, RegistryInvariant, PTL

\* No entry outlives its connection, and no member of the hub its subscriber.
THEOREM NothingDangles == Spec => []NoDanglingEntry
<1>1. RegistryInv => NoDanglingEntry
  BY DEF RegistryInv
<1>2. QED
  BY <1>1, RegistryInvariant, PTL

\* The messages under way, and what was reported of them, are well formed.
LEMMA RoutingTypesInvariant == Spec => []RoutingTypes
<1>1. Init => RoutingTypes
  BY DEF Init, RoutingTypes
<1>2. RegistryInv /\ RoutingTypes /\ [Next]_vars => RoutingTypes'
  <2> SUFFICES ASSUME RegistryInv, RoutingTypes, [Next]_vars PROVE RoutingTypes'
    OBVIOUS
  <2>1. ASSUME NEW c \in Clients, NEW n \in Names \cup {None}, Upgrade(c, n)
        PROVE  RoutingTypes'
    BY <2>1 DEF Upgrade, RoutingTypes, RegistryInv, RegTypes
  <2>2. ASSUME NEW c \in Clients, Add(c)
        PROVE  RoutingTypes'
    BY <2>2 DEF Add, RoutingTypes, RegistryInv, RegTypes
  <2>3. ASSUME NEW c \in Clients, Register(c)
        PROVE  RoutingTypes'
    BY <2>3 DEF Register, RoutingTypes, RegistryInv, RegTypes, SetEntry
  <2>4. ASSUME NEW c \in Clients, Write(c)
        PROVE  RoutingTypes'
    BY <2>4 DEF Write, RoutingTypes, RegistryInv, RegTypes
  <2>5. ASSUME NEW c \in Clients, WriteFails(c)
        PROVE  RoutingTypes'
    BY <2>5 DEF WriteFails, RoutingTypes, RegistryInv, RegTypes
  <2>6. ASSUME NEW c \in Clients, ReadFails(c)
        PROVE  RoutingTypes'
    BY <2>6 DEF ReadFails, RoutingTypes, RegistryInv, RegTypes
  <2>7. ASSUME NEW c \in Clients, Release(c)
        PROVE  RoutingTypes'
    BY <2>7 DEF Release, RoutingTypes, RegistryInv, RegTypes
  <2>8. ASSUME NEW c \in Clients, Remove(c)
        PROVE  RoutingTypes'
    BY <2>8 DEF Remove, RoutingTypes, RegistryInv, RegTypes
  <2>9. ASSUME NEW c \in Clients, PeerGoes(c)
        PROVE  RoutingTypes'
    BY <2>9 DEF PeerGoes, RoutingTypes, RegistryInv, RegTypes
  <2>10. ASSUME NEW n \in Names, DeregisterByName(n)
        PROVE  RoutingTypes'
    BY <2>10 DEF DeregisterByName, RemoveEntry, RoutingTypes, RegistryInv, RegTypes
  <2>11. ASSUME NEW n \in Names, NEW t \in Targets, RegisterTarget(t, n)
        PROVE  RoutingTypes'
    BY <2>11 DEF RegisterTarget, SetEntry, RoutingTypes, RegistryInv, RegTypes
  <2>12. ASSUME NEW r \in Routers, NEW n \in Names, Route(r, n)
        PROVE  RoutingTypes'
    BY <2>12 DEF Route, Start, MaySend, RoutingTypes, RegistryInv, RegTypes
  <2>13. ASSUME NEW r \in Routers, Broadcast(r)
        PROVE  RoutingTypes'
    BY <2>13 DEF Broadcast, Start, MaySend, RoutingTypes, RegistryInv, RegTypes
  <2>14. ASSUME NEW r \in Routers, NEW c \in Clients, DeliverToClient(r, c)
        PROVE  RoutingTypes'
    BY <2>14 DEF DeliverToClient, Accept, Enqueue, RoutingTypes, RegistryInv, RegTypes
  <2>15. ASSUME NEW r \in Routers, NEW t \in Targets, DeliverToTarget(r, t)
        PROVE  RoutingTypes'
    BY <2>15 DEF DeliverToTarget, Accept, RoutingTypes, RegistryInv, RegTypes
  <2>16. ASSUME NEW r \in Routers, Finish(r)
        PROVE  RoutingTypes'
    BY <2>16 DEF Finish, Enqueue, RoutingTypes, RegistryInv, RegTypes
  <2>17. CASE SurfaceEvent
    BY <2>17 DEF SurfaceEvent, RoutingTypes, RegistryInv, RegTypes, Start, MaySend
  <2>18. CASE CloseAll
    BY <2>18 DEF CloseAll, RoutingTypes, RegistryInv, RegTypes
  <2>19. CASE UNCHANGED vars
    BY <2>19 DEF vars, RoutingTypes, RegistryInv, RegTypes
  <2>20. QED
    BY <2>1, <2>2, <2>3, <2>4, <2>5, <2>6, <2>7, <2>8, <2>9, <2>10, <2>11, <2>12,
       <2>13, <2>14, <2>15, <2>16, <2>17, <2>18, <2>19,
       Zenon DEF Next, Serve, Routing
<1>3. QED
  BY <1>1, <1>2, RegistryInvariant, PTL DEF Spec

\* A frame put on a channel with room leaves the channels well formed.
LEMMA RoomForOne ==
  ASSUME ChannelTypes, NEW c \in Clients, NEW f \in Frames, Room(c), Enqueue(c, f), UNCHANGED got
  PROVE  ChannelTypes'
<1>1. Append(buf[c], f) \in Seq(Frames) /\ Len(Append(buf[c], f)) = Len(buf[c]) + 1
  BY AppendProperties DEF ChannelTypes
<1>2. buf' = [buf EXCEPT ![c] = Append(buf[c], f)]
  BY DEF Enqueue
<1>3. buf' \in [Clients -> Seq(Frames)]
  BY <1>1, <1>2 DEF ChannelTypes
<1>4. \A d \in Clients : Len(buf'[d]) <= Buffer
  BY <1>1, <1>2 DEF ChannelTypes, Room
<1>5. QED
  BY <1>3, <1>4 DEF ChannelTypes

\* The channels hold frames and never more than they have room for.
LEMMA ChannelTypesInvariant == Spec => []ChannelTypes
<1>1. Init => ChannelTypes
  BY DEF Init, ChannelTypes
<1>2. RegistryInv /\ RoutingTypes /\ ChannelTypes /\ [Next]_vars => ChannelTypes'
  <2> SUFFICES ASSUME RegistryInv, RoutingTypes, ChannelTypes, [Next]_vars PROVE ChannelTypes'
    OBVIOUS
  <2>1. ASSUME NEW c \in Clients, NEW n \in Names \cup {None}, Upgrade(c, n)
        PROVE  ChannelTypes'
    BY <2>1 DEF Upgrade, ChannelTypes, RoutingTypes, RegistryInv, RegTypes, Frames
  <2>2. ASSUME NEW c \in Clients, Add(c)
        PROVE  ChannelTypes'
    BY <2>2 DEF Add, ChannelTypes, RoutingTypes, RegistryInv, RegTypes, Frames
  <2>3. ASSUME NEW c \in Clients, Register(c)
        PROVE  ChannelTypes'
    BY <2>3 DEF Register, ChannelTypes, RoutingTypes, RegistryInv, RegTypes, Frames, SetEntry
  <2>4. ASSUME NEW c \in Clients, Write(c)
        PROVE  ChannelTypes'
    <3>1. Head(buf[c]) \in Frames /\ Tail(buf[c]) \in Seq(Frames) /\ Len(Tail(buf[c])) =
       Len(buf[c]) - 1
      BY <2>4, HeadTailProperties DEF Write, ChannelTypes
    <3>2. buf' \in [Clients -> Seq(Frames)] /\ \A d \in Clients : Len(buf'[d]) <= Buffer
      BY <2>4, <3>1 DEF Write, ChannelTypes
    <3>3. Append(got[c], Head(buf[c])) \in Seq(Frames)
      BY <3>1, AppendProperties DEF ChannelTypes
    <3>4. got' \in [Clients -> Seq(Frames)]
      BY <2>4, <3>3 DEF Write, ChannelTypes
    <3>5. QED
      BY <3>2, <3>4 DEF ChannelTypes
  <2>5. ASSUME NEW c \in Clients, WriteFails(c)
        PROVE  ChannelTypes'
    BY <2>5 DEF WriteFails, ChannelTypes, RoutingTypes, RegistryInv, RegTypes, Frames
  <2>6. ASSUME NEW c \in Clients, ReadFails(c)
        PROVE  ChannelTypes'
    BY <2>6 DEF ReadFails, ChannelTypes, RoutingTypes, RegistryInv, RegTypes, Frames
  <2>7. ASSUME NEW c \in Clients, Release(c)
        PROVE  ChannelTypes'
    BY <2>7 DEF Release, ChannelTypes, RoutingTypes, RegistryInv, RegTypes, Frames
  <2>8. ASSUME NEW c \in Clients, Remove(c)
        PROVE  ChannelTypes'
    BY <2>8 DEF Remove, ChannelTypes, RoutingTypes, RegistryInv, RegTypes, Frames
  <2>9. ASSUME NEW c \in Clients, PeerGoes(c)
        PROVE  ChannelTypes'
    BY <2>9 DEF PeerGoes, ChannelTypes, RoutingTypes, RegistryInv, RegTypes, Frames
  <2>10. ASSUME NEW n \in Names, DeregisterByName(n)
        PROVE  ChannelTypes'
    BY <2>10 DEF DeregisterByName, RemoveEntry, ChannelTypes, RoutingTypes, RegistryInv, RegTypes, Frames
  <2>11. ASSUME NEW n \in Names, NEW t \in Targets, RegisterTarget(t, n)
        PROVE  ChannelTypes'
    BY <2>11 DEF RegisterTarget, SetEntry, ChannelTypes, RoutingTypes, RegistryInv, RegTypes,
       Frames
  <2>12. ASSUME NEW r \in Routers, NEW n \in Names, Route(r, n)
        PROVE  ChannelTypes'
    BY <2>12 DEF Route, Start, MaySend, ChannelTypes, RoutingTypes, RegistryInv, RegTypes, Frames
  <2>13. ASSUME NEW r \in Routers, Broadcast(r)
        PROVE  ChannelTypes'
    BY <2>13 DEF Broadcast, Start, MaySend, ChannelTypes, RoutingTypes, RegistryInv, RegTypes,
       Frames
  <2>14. ASSUME NEW r \in Routers, NEW c \in Clients, DeliverToClient(r, c)
        PROVE  ChannelTypes'
    <3>1. msg[r] \in 1..MaxSends
      BY <2>14 DEF DeliverToClient, RoutingTypes
    <3>2. Frame(r) \in Frames
      BY <3>1 DEF Frame, Frames
    <3>3. CASE Room(c) /\ Enqueue(c, Frame(r))
      BY <2>14, <3>2, <3>3, RoomForOne DEF DeliverToClient
    <3>4. CASE UNCHANGED buf
      BY <2>14, <3>4 DEF DeliverToClient, ChannelTypes
    <3>5. QED
      BY <2>14, <3>3, <3>4, Zenon DEF DeliverToClient
  <2>15. ASSUME NEW r \in Routers, NEW t \in Targets, DeliverToTarget(r, t)
        PROVE  ChannelTypes'
    BY <2>15 DEF DeliverToTarget, Accept, ChannelTypes, RoutingTypes, RegistryInv, RegTypes, Frames
  <2>16. ASSUME NEW r \in Routers, Finish(r)
        PROVE  ChannelTypes'
    <3>1. msg[r] \in 1..MaxSends
      BY <2>16 DEF Finish, RoutingTypes
    <3>2. [from |-> Self, n |-> msg[r]] \in Frames
      BY <3>1 DEF Frames
    <3>3. CASE r \in Clients /\ Room(r) /\ Enqueue(r, [from |-> Self, n |-> msg[r]])
      BY <2>16, <3>2, <3>3, RoomForOne DEF Finish
    <3>4. CASE UNCHANGED buf
      BY <2>16, <3>4 DEF Finish, ChannelTypes
    <3>5. QED
      BY <2>16, <3>3, <3>4, Zenon DEF Finish
  <2>17. CASE SurfaceEvent
    BY <2>17 DEF SurfaceEvent, ChannelTypes, RoutingTypes, RegistryInv, RegTypes, Frames, Start,
       MaySend
  <2>18. CASE CloseAll
    BY <2>18 DEF CloseAll, ChannelTypes, RoutingTypes, RegistryInv, RegTypes, Frames
  <2>19. CASE UNCHANGED vars
    BY <2>19 DEF vars, ChannelTypes, RoutingTypes, RegistryInv, RegTypes, Frames
  <2>20. QED
    BY <2>1, <2>2, <2>3, <2>4, <2>5, <2>6, <2>7, <2>8, <2>9, <2>10, <2>11, <2>12,
       <2>13, <2>14, <2>15, <2>16, <2>17, <2>18, <2>19,
       Zenon DEF Next, Serve, Routing
<1>3. QED
  BY <1>1, <1>2, RegistryInvariant, RoutingTypesInvariant, PTL DEF Spec

\* The flags of the subscribers and of CloseAll.
LEMMA FlagsCorrect == Spec => []FlagTypes
<1>1. Init => FlagTypes
  BY DEF Init, FlagTypes
<1>2. FlagTypes /\ [Next]_vars => FlagTypes'
  BY DEF FlagTypes, Next, Serve, Routing, Upgrade, Add, Register, PeerGoes, Write, WriteFails,
     ReadFails, Release, Remove, CloseAll, RegisterTarget, DeregisterByName, RemoveEntry, Route, Broadcast,
     SurfaceEvent, DeliverToClient, DeliverToTarget, Finish, Start, vars
<1>3. QED
  BY <1>1, <1>2, PTL DEF Spec

\* A message that was reported as delivered was queued, or its receiver had gone.
THEOREM AcceptedIsQueuedUnlessGone == Spec => []AcceptedUnlessGone
<1>1. Init => AcceptedUnlessGone
  BY DEF Init, AcceptedUnlessGone
<1>2. RoutingTypes /\ FlagTypes /\ AcceptedUnlessGone /\ [Next]_vars => AcceptedUnlessGone'
  <2> SUFFICES ASSUME RoutingTypes, FlagTypes, AcceptedUnlessGone, [Next]_vars
               PROVE  AcceptedUnlessGone'
    OBVIOUS
  <2>1. ASSUME NEW c \in Clients, NEW n \in Names \cup {None}, Upgrade(c, n)
        PROVE  AcceptedUnlessGone'
    BY <2>1 DEF Upgrade, AcceptedUnlessGone, RoutingTypes, FlagTypes
  <2>2. ASSUME NEW c \in Clients, Add(c)
        PROVE  AcceptedUnlessGone'
    BY <2>2 DEF Add, AcceptedUnlessGone, RoutingTypes, FlagTypes
  <2>3. ASSUME NEW c \in Clients, Register(c)
        PROVE  AcceptedUnlessGone'
    BY <2>3 DEF Register, AcceptedUnlessGone, RoutingTypes, SetEntry
  <2>4. ASSUME NEW c \in Clients, Write(c)
        PROVE  AcceptedUnlessGone'
    BY <2>4 DEF Write, AcceptedUnlessGone, RoutingTypes, FlagTypes
  <2>5. ASSUME NEW c \in Clients, WriteFails(c)
        PROVE  AcceptedUnlessGone'
    BY <2>5 DEF WriteFails, AcceptedUnlessGone, RoutingTypes, FlagTypes
  <2>6. ASSUME NEW c \in Clients, ReadFails(c)
        PROVE  AcceptedUnlessGone'
    BY <2>6 DEF ReadFails, AcceptedUnlessGone, RoutingTypes, FlagTypes
  <2>7. ASSUME NEW c \in Clients, Release(c)
        PROVE  AcceptedUnlessGone'
    BY <2>7 DEF Release, AcceptedUnlessGone, RoutingTypes, FlagTypes
  <2>8. ASSUME NEW c \in Clients, Remove(c)
        PROVE  AcceptedUnlessGone'
    BY <2>8 DEF Remove, AcceptedUnlessGone, RoutingTypes, FlagTypes
  <2>9. ASSUME NEW c \in Clients, PeerGoes(c)
        PROVE  AcceptedUnlessGone'
    BY <2>9 DEF PeerGoes, AcceptedUnlessGone, RoutingTypes, FlagTypes
  <2>10. ASSUME NEW n \in Names, DeregisterByName(n)
        PROVE  AcceptedUnlessGone'
    BY <2>10 DEF DeregisterByName, RemoveEntry, AcceptedUnlessGone, RoutingTypes, FlagTypes
  <2>11. ASSUME NEW n \in Names, NEW t \in Targets, RegisterTarget(t, n)
        PROVE  AcceptedUnlessGone'
    BY <2>11 DEF RegisterTarget, SetEntry, AcceptedUnlessGone, RoutingTypes, FlagTypes
  <2>12. ASSUME NEW r \in Routers, NEW n \in Names, Route(r, n)
        PROVE  AcceptedUnlessGone'
    BY <2>12 DEF Route, Start, MaySend, AcceptedUnlessGone, RoutingTypes, FlagTypes
  <2>13. ASSUME NEW r \in Routers, Broadcast(r)
        PROVE  AcceptedUnlessGone'
    BY <2>13 DEF Broadcast, Start, MaySend, AcceptedUnlessGone, RoutingTypes, FlagTypes
  <2>14. ASSUME NEW r \in Routers, NEW c \in Clients, DeliverToClient(r, c)
        PROVE  AcceptedUnlessGone'
    BY <2>14 DEF DeliverToClient, Accept, Enqueue, AcceptedUnlessGone, RoutingTypes, FlagTypes
  <2>15. ASSUME NEW r \in Routers, NEW t \in Targets, DeliverToTarget(r, t)
        PROVE  AcceptedUnlessGone'
    BY <2>15 DEF DeliverToTarget, Accept, AcceptedUnlessGone, RoutingTypes, FlagTypes
  <2>16. ASSUME NEW r \in Routers, Finish(r)
        PROVE  AcceptedUnlessGone'
    BY <2>16 DEF Finish, Enqueue, AcceptedUnlessGone, RoutingTypes, FlagTypes
  <2>17. CASE SurfaceEvent
    BY <2>17 DEF SurfaceEvent, AcceptedUnlessGone, RoutingTypes, Start, MaySend
  <2>18. CASE CloseAll
    BY <2>18 DEF CloseAll, AcceptedUnlessGone, RoutingTypes, FlagTypes
  <2>19. CASE UNCHANGED vars
    BY <2>19 DEF vars, AcceptedUnlessGone, RoutingTypes, FlagTypes
  <2>20. QED
    BY <2>1, <2>2, <2>3, <2>4, <2>5, <2>6, <2>7, <2>8, <2>9, <2>10, <2>11, <2>12,
       <2>13, <2>14, <2>15, <2>16, <2>17, <2>18, <2>19,
       Zenon DEF Next, Serve, Routing
<1>3. QED
  BY <1>1, <1>2, FlagsCorrect, RoutingTypesInvariant, PTL DEF Spec

\* The type of every variable of the mesh.
THEOREM TypeCorrect == Spec => []TypeOK
<1>1. RegistryInv /\ RoutingTypes /\ ChannelTypes /\ FlagTypes => TypeOK
  BY DEF RegistryInv, TypeOK
<1>2. QED
  BY <1>1, RegistryInvariant, RoutingTypesInvariant, ChannelTypesInvariant, FlagsCorrect, PTL

\* A frame put on the channel is the last of the stream.
LEMMA AppendedLast ==
  ASSUME NEW a \in Seq(Frames), NEW b \in Seq(Frames), NEW f \in Frames
  PROVE  a \o Append(b, f) = Append(a \o b, f)
<1>1. <<f>> \in Seq(Frames) /\ a \o b \in Seq(Frames)
  BY ConcatProperties
<1>2. Append(b, f) = b \o <<f>> /\ Append(a \o b, f) = (a \o b) \o <<f>>
  BY <1>1, AppendIsConcat
<1>3. QED
  BY <1>1, <1>2, ConcatAssociative

\* A channel that is not empty is its oldest frame, then the others.
LEMMA OldestFirst ==
  ASSUME NEW b \in Seq(Frames), b # <<>>
  PROVE  /\ Head(b) \in Frames /\ Tail(b) \in Seq(Frames) /\ <<Head(b)>> \in Seq(Frames)
         /\ b = <<Head(b)>> \o Tail(b)
<1>1. Head(b) \in Frames /\ Tail(b) \in Seq(Frames)
  BY HeadTailProperties
<1>2. Len(b) \in Nat /\ Len(b) >= 1
  BY EmptySeq
<1>3. SubSeq(b, 1, Len(b)) = <<b[1]>> \o SubSeq(b, 1 + 1, Len(b))
  BY <1>2, SubSeqRecursiveFirst
<1>4. SubSeq(b, 1, Len(b)) = b /\ Tail(b) = SubSeq(b, 2, Len(b)) /\ Head(b) = b[1]
  BY SubSeqFull, TailIsSubSeq
<1>5. 1 + 1 = 2
  OBVIOUS
<1>6. b = <<Head(b)>> \o Tail(b)
  BY <1>3, <1>4, <1>5
<1>7. QED
  BY <1>1, <1>6

\* Moving the oldest frame of the channel to the peer leaves the stream as it is.
LEMMA OldestMoved ==
  ASSUME NEW a \in Seq(Frames), NEW b \in Seq(Frames), b # <<>>
  PROVE  Append(a, Head(b)) \o Tail(b) = a \o b
<1>1. Append(a, Head(b)) = a \o <<Head(b)>>
  BY OldestFirst, AppendIsConcat
<1>2. (a \o <<Head(b)>>) \o Tail(b) = a \o (<<Head(b)>> \o Tail(b))
  BY OldestFirst, ConcatAssociative
<1>3. QED
  BY <1>1, <1>2, OldestFirst

\* An order is kept by a frame that is newer than those of its sender before it.
LEMMA AppendOrdered ==
  ASSUME NEW s \in Seq(Frames), Ordered(s), NEW f \in Frames,
         f.from \in Clients => \A g \in FramesOf(s) : g.from = f.from => g.n < f.n
  PROVE  Ordered(Append(s, f)) /\ FramesOf(Append(s, f)) = FramesOf(s) \cup {f}
<1>1. /\ Len(Append(s, f)) = Len(s) + 1 /\ Len(s) \in Nat
      /\ \A i \in 1..Len(s) : Append(s, f)[i] = s[i]
      /\ Append(s, f)[Len(s) + 1] = f
  BY AppendProperties, LenProperties
<1>2. 1..Len(Append(s, f)) = 1..Len(s) \cup {Len(s) + 1}
  BY <1>1
<1>3. FramesOf(Append(s, f)) = FramesOf(s) \cup {f}
  BY <1>1, <1>2 DEF FramesOf
<1>4. Ordered(Append(s, f))
  <2> SUFFICES ASSUME NEW i \in 1..Len(Append(s, f)), NEW j \in 1..Len(Append(s, f)), i < j,
                      Append(s, f)[i].from \in Clients,
                      Append(s, f)[j].from = Append(s, f)[i].from
               PROVE  Append(s, f)[i].n < Append(s, f)[j].n
    BY DEF Ordered
  <2>1. i \in 1..Len(s)
    BY <1>1
  <2>2. CASE j \in 1..Len(s)
    BY <1>1, <2>1, <2>2 DEF Ordered
  <2>3. CASE j = Len(s) + 1
    <3>1. s[i] \in FramesOf(s)
      BY <2>1 DEF FramesOf
    <3>2. QED
      BY <1>1, <2>1, <2>3, <3>1
  <2>4. QED
    BY <1>2, <2>2, <2>3
<1>5. QED
  BY <1>3, <1>4

\* An order is kept when a frame is lost from its middle.
LEMMA LostOrdered ==
  ASSUME NEW a \in Seq(Frames), NEW b \in Seq(Frames), b # <<>>, Ordered(a \o b)
  PROVE  Ordered(a \o Tail(b)) /\ FramesOf(a \o Tail(b)) \subseteq FramesOf(a \o b)
<1> DEFINE t == Tail(b)
           o == a \o b
           o2 == a \o t
           at(i) == IF i <= Len(a) THEN i ELSE i + 1
<1>1. /\ t \in Seq(Frames) /\ Len(t) = Len(b) - 1
      /\ \A i \in 1..Len(t) : t[i] = b[i + 1]
      /\ Len(a) \in Nat /\ Len(b) \in Nat
  BY HeadTailProperties, LenProperties
<1>2. /\ Len(o) = Len(a) + Len(b)
      /\ \A i \in 1..(Len(a) + Len(b)) : o[i] = IF i <= Len(a) THEN a[i] ELSE b[i - Len(a)]
  BY ConcatProperties
<1>3. /\ Len(o2) = Len(a) + Len(t)
      /\ \A i \in 1..(Len(a) + Len(t)) : o2[i] = IF i <= Len(a) THEN a[i] ELSE t[i - Len(a)]
  BY <1>1, ConcatProperties
<1>4. ASSUME NEW i \in 1..Len(o2)
      PROVE  at(i) \in 1..Len(o) /\ o2[i] = o[at(i)]
  <2>1. CASE i <= Len(a)
    BY <1>1, <1>2, <1>3, <2>1
  <2>2. CASE ~(i <= Len(a))
    <3>1. i - Len(a) \in 1..Len(t) /\ (i + 1) - Len(a) = (i - Len(a)) + 1
      BY <1>1, <1>3, <2>2
    <3>2. o2[i] = b[(i - Len(a)) + 1]
      BY <1>1, <1>3, <2>2, <3>1
    <3>3. i + 1 \in 1..(Len(a) + Len(b)) /\ ~(i + 1 <= Len(a))
      BY <1>1, <1>3, <2>2
    <3>4. o[i + 1] = b[(i + 1) - Len(a)]
      BY <1>2, <3>3
    <3>5. QED
      BY <1>2, <2>2, <3>1, <3>2, <3>3, <3>4
  <2>3. QED
    BY <2>1, <2>2
<1>5. ASSUME NEW i \in 1..Len(o2), NEW j \in 1..Len(o2), i < j
      PROVE  at(i) < at(j)
  BY <1>1, <1>5
<1>6. Ordered(o2)
  <2> SUFFICES ASSUME NEW i \in 1..Len(o2), NEW j \in 1..Len(o2), i < j,
                      o2[i].from \in Clients, o2[j].from = o2[i].from
               PROVE  o2[i].n < o2[j].n
    BY DEF Ordered
  <2> HIDE DEF o, o2, at
  <2>1. /\ at(i) \in 1..Len(o) /\ at(j) \in 1..Len(o) /\ at(i) < at(j)
        /\ o2[i] = o[at(i)] /\ o2[j] = o[at(j)]
    BY <1>4, <1>5
  <2>2. Ordered(o)
    BY DEF o
  <2>3. QED
    BY <2>1, <2>2 DEF Ordered
<1>7. FramesOf(o2) \subseteq FramesOf(o)
  BY <1>4 DEF FramesOf
<1>8. QED
  BY <1>6, <1>7

\* What is on the way to a subscriber is a sequence of frames.
LEMMA StreamType ==
  ASSUME ChannelTypes, NEW c \in Clients
  PROVE  /\ got[c] \in Seq(Frames) /\ buf[c] \in Seq(Frames) /\ Stream(c) \in Seq(Frames)
         /\ \A f \in FramesOf(Stream(c)) : f \in Frames
<1>1. got[c] \in Seq(Frames) /\ buf[c] \in Seq(Frames)
  BY DEF ChannelTypes
<1>2. Stream(c) \in Seq(Frames)
  BY <1>1, ConcatProperties DEF Stream
<1>3. QED
  BY <1>1, <1>2, ElementOfSeq DEF FramesOf

\* A new message is newer than all that its sender has put on a channel.
LEMMA StartKeepsOrder ==
  ASSUME RoutingTypes, ChannelTypes, OrderInv, NEW r \in Routers, NEW md, NEW hs,
         Start(r, md, hs), UNCHANGED <<buf, got>>
  PROVE  OrderInv'
<1>1. \A c \in Clients : Stream(c)' = Stream(c)
  BY DEF Stream
<1>2. sends \in Nat /\ sends' = sends + 1 /\ \A s \in Clients : msg[s] \in Nat
  BY DEF RoutingTypes, Start
<1>3. \A s \in Clients : (s = r /\ msg'[s] = sends + 1)
                         \/ (s # r /\ msg'[s] = msg[s] /\ todo'[s] = todo[s])
  BY DEF Start, RoutingTypes
<1>4. \A s \in Clients : msg'[s] <= sends'
  BY <1>2, <1>3 DEF OrderInv
<1>5. ASSUME NEW c \in Clients, NEW f \in FramesOf(Stream(c))
      PROVE  Behind(c, f)'
  <2>1. f \in Frames /\ f.n \in Nat
    BY StreamType DEF Frames
  <2>2. Behind(c, f) /\ \A s \in Clients : msg[s] <= sends
    BY DEF OrderInv
  <2>3. QED
    BY <1>2, <1>3, <2>1, <2>2 DEF Behind
<1>6. InOrder'
  BY <1>1 DEF OrderInv, InOrder
<1>7. QED
  BY <1>1, <1>4, <1>5, <1>6 DEF OrderInv

\* A frame is put on a channel behind those its sender put there before.
LEMMA EnqueueKeepsOrder ==
  ASSUME RoutingTypes, ChannelTypes, OrderInv, NEW c \in Clients, NEW f \in Frames,
         Enqueue(c, f), UNCHANGED <<got, msg, sends>>,
         \A r \in Routers : todo'[r] \subseteq todo[r],
         f.from \in Clients =>
           f.n = msg[f.from] /\ c \in todo[f.from] /\ c \notin todo'[f.from]
  PROVE  OrderInv'
<1>1. \A d \in Clients \ {c} : Stream(d)' = Stream(d)
  BY DEF Stream, Enqueue, ChannelTypes
<1>2. Stream(c)' = Append(Stream(c), f)
  BY StreamType, AppendedLast DEF Stream, Enqueue, ChannelTypes
<1>3. \A d \in Clients : \A g \in FramesOf(Stream(d)) : Behind(d, g) /\ Behind(d, g)'
  BY DEF OrderInv, Behind
<1>4. f.from \in Clients => \A g \in FramesOf(Stream(c)) : g.from = f.from => g.n < f.n
  BY <1>3 DEF Behind
<1>5. Ordered(Append(Stream(c), f)) /\ FramesOf(Append(Stream(c),
   f)) = FramesOf(Stream(c)) \cup {f}
  BY <1>4, StreamType, AppendOrdered DEF OrderInv, InOrder
<1>6. Behind(c, f)'
  BY DEF Behind, RoutingTypes
<1>7. \A d \in Clients : Ordered(Stream(d)') /\ \A g \in FramesOf(Stream(d)') : Behind(d, g)'
  <2> SUFFICES ASSUME NEW d \in Clients
               PROVE  Ordered(Stream(d)') /\ \A g \in FramesOf(Stream(d)') : Behind(d, g)'
    OBVIOUS
  <2>1. CASE d = c
    <3>1. FramesOf(Stream(c)') = FramesOf(Stream(c)) \cup {f} /\ Ordered(Stream(c)')
      BY <1>2, <1>5
    <3>2. \A g \in FramesOf(Stream(c)') : Behind(c, g)'
      BY <1>3, <1>6, <3>1
    <3>3. QED
      BY <2>1, <3>1, <3>2
  <2>2. CASE d # c
    BY <1>1, <1>3, <2>2 DEF OrderInv, InOrder
  <2>3. QED
    BY <2>1, <2>2
<1>8. \A s \in Clients : msg'[s] <= sends'
  BY DEF OrderInv
<1>9. QED
  BY <1>7, <1>8 DEF OrderInv, InOrder, Ordered, FramesOf

\* The write pump takes the oldest frame: what remains is in the order it was.
LEMMA WriteKeepsOrder ==
  ASSUME ChannelTypes, OrderInv, NEW c \in Clients, Write(c)
  PROVE  OrderInv'
<1>1. \A d \in Clients \ {c} : Stream(d)' = Stream(d)
  BY DEF Stream, Write, ChannelTypes
<1>2. buf[c] # <<>> /\ buf'[c] = Tail(buf[c]) /\ UNCHANGED <<msg, todo, sends>>
  BY DEF Write, ChannelTypes
<1>3. Ordered(Stream(c)') /\ FramesOf(Stream(c)') \subseteq FramesOf(Stream(c))
  <2>1. CASE peerGone[c]
    <3>1. Stream(c)' = got[c] \o Tail(buf[c])
      BY <1>2, <2>1 DEF Stream, Write
    <3>2. Ordered(got[c] \o buf[c])
      BY DEF OrderInv, InOrder, Stream
    <3>3. QED
      BY <1>2, <3>1, <3>2, StreamType, LostOrdered DEF Stream
  <2>2. CASE ~peerGone[c]
    <3>1. got'[c] = Append(got[c], Head(buf[c]))
      BY <2>2 DEF Write, ChannelTypes
    <3>2. Stream(c)' = Stream(c)
      BY <1>2, <3>1, StreamType, OldestMoved DEF Stream
    <3>3. QED
      BY <3>2 DEF OrderInv, InOrder
  <2>3. QED
    BY <2>1, <2>2
<1>4. \A d \in Clients : Ordered(Stream(d)') /\ FramesOf(Stream(d)') \subseteq FramesOf(Stream(d))
  BY <1>1, <1>3 DEF OrderInv, InOrder
<1>5. \A d \in Clients : \A g \in FramesOf(Stream(d)) : Behind(d, g)'
  BY <1>2 DEF OrderInv, Behind
<1>6. QED
  BY <1>2, <1>4, <1>5 DEF OrderInv, InOrder, Ordered, FramesOf

\* Each session's messages are on each channel in the order it sent them.
LEMMA OrderInvariant == Spec => []OrderInv
<1>1. Init => OrderInv
  <2> SUFFICES ASSUME Init PROVE OrderInv
    OBVIOUS
  <2>1. \A c \in Clients : Stream(c) = <<>>
    BY DEF Init, Stream
  <2>2. 1..Len(<<>>) = {}
    BY EmptySeq
  <2>3. QED
    BY <2>1, <2>2 DEF Init, OrderInv, InOrder, Ordered, FramesOf
<1>2. RoutingTypes /\ ChannelTypes /\ OrderInv /\ [Next]_vars => OrderInv'
  <2> SUFFICES ASSUME RoutingTypes, ChannelTypes, OrderInv, [Next]_vars PROVE OrderInv'
    OBVIOUS
  <2>1. ASSUME NEW c \in Clients, NEW n \in Names \cup {None}, Upgrade(c, n)
        PROVE  OrderInv'
    BY <2>1 DEF Upgrade, OrderInv, Behind, InOrder, Stream
  <2>2. ASSUME NEW c \in Clients, Add(c)
        PROVE  OrderInv'
    BY <2>2 DEF Add, OrderInv, Behind, InOrder, Stream
  <2>3. ASSUME NEW c \in Clients, Register(c)
        PROVE  OrderInv'
    BY <2>3 DEF Register, OrderInv, Behind, InOrder, Stream, SetEntry
  <2>4. ASSUME NEW c \in Clients, Write(c)
        PROVE  OrderInv'
    BY <2>4, WriteKeepsOrder
  <2>5. ASSUME NEW c \in Clients, WriteFails(c)
        PROVE  OrderInv'
    BY <2>5 DEF WriteFails, OrderInv, Behind, InOrder, Stream
  <2>6. ASSUME NEW c \in Clients, ReadFails(c)
        PROVE  OrderInv'
    BY <2>6 DEF ReadFails, OrderInv, Behind, InOrder, Stream
  <2>7. ASSUME NEW c \in Clients, Release(c)
        PROVE  OrderInv'
    BY <2>7 DEF Release, OrderInv, Behind, InOrder, Stream
  <2>8. ASSUME NEW c \in Clients, Remove(c)
        PROVE  OrderInv'
    BY <2>8 DEF Remove, OrderInv, Behind, InOrder, Stream
  <2>9. ASSUME NEW c \in Clients, PeerGoes(c)
        PROVE  OrderInv'
    BY <2>9 DEF PeerGoes, OrderInv, Behind, InOrder, Stream
  <2>10. ASSUME NEW n \in Names, DeregisterByName(n)
        PROVE  OrderInv'
    BY <2>10 DEF DeregisterByName, RemoveEntry, OrderInv, Behind, InOrder, Stream
  <2>11. ASSUME NEW n \in Names, NEW t \in Targets, RegisterTarget(t, n)
        PROVE  OrderInv'
    BY <2>11 DEF RegisterTarget, SetEntry, OrderInv, Behind, InOrder, Stream
  <2>12. ASSUME NEW r \in Routers, NEW n \in Names, Route(r, n)
        PROVE  OrderInv'
    BY <2>12, StartKeepsOrder DEF Route
  <2>13. ASSUME NEW r \in Routers, Broadcast(r)
        PROVE  OrderInv'
    BY <2>13, StartKeepsOrder DEF Broadcast
  <2>14. ASSUME NEW r \in Routers, NEW c \in Clients, DeliverToClient(r, c)
        PROVE  OrderInv'
    <3>1. msg[r] \in 1..MaxSends /\ Frame(r) \in Frames
      BY <2>14 DEF DeliverToClient, RoutingTypes, Frame, Frames
    <3>2. /\ \A s \in Routers : todo'[s] \subseteq todo[s]
          /\ c \in todo[r] /\ c \notin todo'[r]
          /\ UNCHANGED <<got, msg, sends>>
      BY <2>14 DEF DeliverToClient, RoutingTypes
    <3>3. CASE Enqueue(c, Frame(r))
      BY <3>1, <3>2, <3>3, EnqueueKeepsOrder DEF Frame
    <3>4. CASE UNCHANGED buf
      BY <3>2, <3>4 DEF OrderInv, Behind, InOrder, Stream
    <3>5. QED
      BY <2>14, <3>3, <3>4, Zenon DEF DeliverToClient
  <2>15. ASSUME NEW r \in Routers, NEW t \in Targets, DeliverToTarget(r, t)
        PROVE  OrderInv'
    BY <2>15 DEF DeliverToTarget, Accept, OrderInv, Behind, InOrder, Stream, RoutingTypes
  <2>16. ASSUME NEW r \in Routers, Finish(r)
        PROVE  OrderInv'
    <3>1. msg[r] \in 1..MaxSends /\ [from |-> Self, n |-> msg[r]] \in Frames
      BY <2>16 DEF Finish, RoutingTypes, Frames
    <3>2. UNCHANGED <<got, msg, sends, todo>>
      BY <2>16 DEF Finish
    <3>3. CASE r \in Clients /\ Enqueue(r, [from |-> Self, n |-> msg[r]])
      BY <3>1, <3>2, <3>3, EnqueueKeepsOrder
    <3>4. CASE UNCHANGED buf
      BY <3>2, <3>4 DEF OrderInv, Behind, InOrder, Stream
    <3>5. QED
      BY <2>16, <3>3, <3>4, Zenon DEF Finish
  <2>17. CASE SurfaceEvent
    BY <2>17, StartKeepsOrder DEF SurfaceEvent
  <2>18. CASE CloseAll
    BY <2>18 DEF CloseAll, OrderInv, Behind, InOrder, Stream
  <2>19. CASE UNCHANGED vars
    BY <2>19 DEF vars, OrderInv, Behind, InOrder, Stream
  <2>20. QED
    BY <2>1, <2>2, <2>3, <2>4, <2>5, <2>6, <2>7, <2>8, <2>9, <2>10, <2>11, <2>12,
       <2>13, <2>14, <2>15, <2>16, <2>17, <2>18, <2>19,
       Zenon DEF Next, Serve, Routing
<1>3. QED
  BY <1>1, <1>2, RoutingTypesInvariant, ChannelTypesInvariant, PTL DEF Spec

\* A session's messages reach each subscriber in the order it sent them.
THEOREM MessagesInOrder == Spec => []InOrder
<1>1. OrderInv => InOrder
  BY DEF OrderInv
<1>2. QED
  BY <1>1, OrderInvariant, PTL
===============================================================================

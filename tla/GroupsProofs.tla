----------------------------- MODULE GroupsProofs ------------------------------
(* Proofs about Groups, for any members, callers, events, failures and     *)
(* crashes.                                                                *)
EXTENDS Groups, TLAPS, SequenceTheorems

USE GroupsAssumption

-----------------------------------------------------------------------------
(* Types                                                                    *)

Frames == [kind : {"invite", "joined", "left"}, x : Everyone, who : SUBSET Everyone, n : Nat]

Records ==
    [op : {"none", "create", "accept", "decline", "add", "kick", "leave", "send", "react"},
     step : {"none", "group", "members", "request", "keys", "store", "row"},
     x : Everyone, who : SUBSET Everyone, n : Nat]

StoreTypes ==
    /\ row \in BOOLEAN /\ local \in SUBSET Everyone
    /\ invite \in [n : Nat, who : SUBSET Everyone]

RelayTypes ==
    /\ roster \in SUBSET Everyone /\ invited \in SUBSET Everyone /\ invites \in Nat
    /\ inbox \in Seq(Frames) /\ raced \in BOOLEAN
    /\ calls \in Nat /\ events \in Nat

\* Only an operation that has such a step is at it; who is added or kicked is another.
CallTypes ==
    /\ call \in [Callers -> Records]
    /\ \A c \in Callers :
         /\ call[c].step \in {"group", "members"} => call[c].op \in {"create", "accept"}
         /\ call[c].step = "keys" => call[c].op \in {"send", "react"}
         /\ call[c].op \in {"add", "kick"} => call[c].x \in Others

Types == StoreTypes /\ RelayTypes /\ CallTypes

\* The record of an idle caller.
LEMMA IdleIsRecord ==
    Idle \in Records /\ Idle.op = "none" /\ Idle.step = "none" /\ Me \in Everyone
BY DEF Idle, Records, Everyone

\* Replacing the record of one caller.
LEMMA RecordReplaced ==
    ASSUME CallTypes, NEW c \in Callers, NEW r \in Records, call' = [call EXCEPT ![c] = r]
    PROVE  /\ call' \in [Callers -> Records]
           /\ call'[c] = r
           /\ \A d \in Callers : d # c => call'[d] = call[d]
<1>1. call \in [Callers -> Records]
  BY DEF CallTypes
<1> QED
  BY <1>1, Zenon

\* The callers but c stay where they are, and c is at record r.
Becomes(c, r) ==
    /\ r \in Records /\ call' \in [Callers -> Records]
    /\ call'[c] = r
    /\ \A d \in Callers : d # c => call'[d] = call[d]

\* Moving one caller to another step changes nothing else.
LEMMA StepTaken ==
    ASSUME CallTypes, NEW c \in Callers, NEW s, Step(c, s),
           s \in {"none", "group", "members", "request", "keys", "store", "row"}
    PROVE  \E r : /\ Becomes(c, r)
                  /\ r.op = call[c].op /\ r.step = s /\ r.x = call[c].x
                  /\ r.who = call[c].who /\ r.n = call[c].n
<1> DEFINE r == [op |-> call[c].op, step |-> s, x |-> call[c].x,
                 who |-> call[c].who, n |-> call[c].n]
<1>1. call[c] \in Records
  BY DEF CallTypes
<1>2. r \in Records
  BY <1>1 DEF Records
<1>3. [call[c] EXCEPT !.step = s] = r
  BY <1>1 DEF Records
<1>4. call' = [call EXCEPT ![c] = r]
  BY <1>3 DEF Step
<1>5. Becomes(c, r)
  BY <1>2, <1>4, RecordReplaced DEF Becomes
<1>6. r.op = call[c].op /\ r.step = s /\ r.x = call[c].x /\ r.who = call[c].who /\ r.n = call[c].n
  OBVIOUS
<1>7. QED
  BY <1>5, <1>6

\* A caller that returns is idle.
LEMMA Returned ==
    ASSUME CallTypes, NEW c \in Callers, Return(c)
    PROVE  Becomes(c, Idle)
BY IdleIsRecord, RecordReplaced DEF Return, Becomes

\* What an operation begins with.
LEMMA Begun ==
    ASSUME CallTypes, NEW c \in Callers, NEW op, NEW step, NEW x, NEW who, NEW n,
           Begin(c, op, step, x, who, n),
           [op |-> op, step |-> step, x |-> x, who |-> who, n |-> n] \in Records
    PROVE  /\ Becomes(c, [op |-> op, step |-> step, x |-> x, who |-> who, n |-> n])
           /\ call[c] = Idle /\ calls' = calls + 1
           /\ UNCHANGED <<relayVars, inbox, raced, declined, blockVars, events>>
BY RecordReplaced DEF Begin, Becomes

\* Inserting a member row takes one name off the list, or goes on to the request.
LEMMA MemberInserted ==
    ASSUME Types, NEW c \in Callers, InsertMember(c)
    PROVE  \/ /\ call[c].who = {} /\ Step(c, "request") /\ local' = local
           \/ \E x \in call[c].who : \E r :
                /\ local' = local \cup {x} /\ x \in Everyone
                /\ Becomes(c, r)
                /\ r.op = call[c].op /\ r.step = call[c].step /\ r.x = call[c].x
                /\ r.who = call[c].who \ {x} /\ r.n = call[c].n
<1>1. CASE call[c].who = {}
  BY <1>1 DEF InsertMember
<1>2. CASE call[c].who # {}
  <2>1. PICK x \in call[c].who :
          local' = local \cup {x} /\ call' = [call EXCEPT ![c].who = @ \ {x}]
    BY <1>2 DEF InsertMember
  <2> DEFINE r == [op |-> call[c].op, step |-> call[c].step, x |-> call[c].x,
                   who |-> call[c].who \ {x}, n |-> call[c].n]
  <2>2. call[c] \in Records /\ CallTypes
    BY DEF CallTypes, Types
  <2>3. r \in Records /\ x \in Everyone
    BY <2>2 DEF Records
  <2>4. [call[c] EXCEPT !.who = call[c].who \ {x}] = r
    BY <2>2 DEF Records
  <2>5. call' = [call EXCEPT ![c] = r]
    BY <2>1, <2>4
  <2>6. Becomes(c, r)
    BY <2>2, <2>3, <2>5, RecordReplaced DEF Becomes
  <2>7. /\ r.op = call[c].op /\ r.step = call[c].step /\ r.x = call[c].x
        /\ r.who = call[c].who \ {x} /\ r.n = call[c].n
    OBVIOUS
  <2>8. QED
    BY <2>1, <2>3, <2>6, <2>7
<1>3. QED
  BY <1>1, <1>2

\* Encrypting leads to a request, or ends the call.
LEMMA Encrypted ==
    ASSUME Types, NEW c \in Callers, EncryptForMembers(c)
    PROVE  \/ Return(c)
           \/ \E r : Becomes(c, r) /\ r.op = call[c].op /\ r.step = "request" /\ r.x = call[c].x
<1>1. PICK to \in SUBSET call[c].who :
        IF to = {} THEN Return(c)
        ELSE call' = [call EXCEPT ![c].step = "request", ![c].who = to, ![c].n = calls]
  BY DEF EncryptForMembers
<1>2. CASE to = {}
  BY <1>1, <1>2
<1>3. CASE to # {}
  <2> DEFINE r == [op |-> call[c].op, step |-> "request", x |-> call[c].x, who |-> to, n |-> calls]
  <2>1. call[c] \in Records /\ call \in [Callers -> Records] /\ CallTypes /\ calls \in Nat
    BY DEF CallTypes, Types, RelayTypes
  <2>2. r \in Records
    BY <2>1 DEF Records
  <2>3. call[c] = [op |-> call[c].op, step |-> call[c].step, x |-> call[c].x,
                   who |-> call[c].who, n |-> call[c].n]
    BY <2>1 DEF Records
  <2>4. call' = [call EXCEPT ![c] = r]
    BY <1>1, <1>3, <2>1, <2>3
  <2>5. Becomes(c, r)
    BY <2>1, <2>2, <2>4, RecordReplaced DEF Becomes
  <2>6. r.op = call[c].op /\ r.step = "request" /\ r.x = call[c].x
    OBVIOUS
  <2>7. QED
    BY <2>5, <2>6
<1>4. QED
  BY <1>2, <1>3

\* What CallTypes asks of one record.
Shape(r) ==
    /\ r.step \in {"group", "members"} => r.op \in {"create", "accept"}
    /\ r.step = "keys" => r.op \in {"send", "react"}
    /\ r.op \in {"add", "kick"} => r.x \in Others

\* A step of one caller to a record of the right shape keeps the types of the calls.
LEMMA ShapesKept ==
    ASSUME CallTypes, NEW c \in Callers, NEW r, Becomes(c, r), Shape(r)
    PROVE  CallTypes'
BY DEF CallTypes, Becomes, Shape

\* The operations keep the types of the calls.
LEMMA OperationsKeepCalls ==
    ASSUME Types, NEW c \in Callers, Operation(c)
    PROVE  CallTypes'
<1>1. CallTypes /\ StoreTypes /\ Shape(call[c]) /\ call[c] \in Records
  BY DEF Types, CallTypes, Shape
<1>2. ASSUME NEW s \in {"none", "members", "request", "store", "row"}, Step(c, s),
             s = "members" => call[c].op \in {"create", "accept"}
      PROVE  CallTypes'
  BY <1>1, <1>2, StepTaken, ShapesKept DEF Shape
<1>3. ASSUME Return(c) PROVE CallTypes'
  BY <1>1, <1>3, Returned, ShapesKept, IdleIsRecord DEF Shape
<1>4. ASSUME NEW op \in {"create", "accept", "decline", "leave", "send", "react"},
             NEW step \in {"group", "request", "keys"}, NEW who \in SUBSET Everyone, NEW n \in Nat,
             step = "group" => op \in {"create", "accept"},
             step = "keys" => op \in {"send", "react"},
             Begin(c, op, step, Me, who, n)
      PROVE  CallTypes'
  <2> DEFINE r == [op |-> op, step |-> step, x |-> Me, who |-> who, n |-> n]
  <2>1. r \in Records /\ Shape(r)
    BY <1>4, IdleIsRecord DEF Records, Shape
  <2>2. QED
    BY <1>1, <1>4, <2>1, Begun, ShapesKept
<1>5. CASE CreateGroup(c)
  <2>1. PICK who \in SUBSET Others : Begin(c, "create", "group", Me, who, 0)
    BY <1>5 DEF CreateGroup
  <2>2. who \in SUBSET Everyone /\ 0 \in Nat
    BY DEF Everyone
  <2>3. QED
    BY <1>4, <2>1, <2>2
<1>6. CASE AcceptGroup(c)
  BY <1>1, <1>4, <1>6 DEF AcceptGroup, StoreTypes
<1>7. CASE DeclineGroup(c)
  BY <1>1, <1>4, <1>7 DEF DeclineGroup, StoreTypes
<1>8. CASE LeaveGroup(c)
  BY <1>4, <1>8 DEF LeaveGroup
<1>9. CASE SendGroup(c) \/ ReactGroup(c)
  BY <1>1, <1>4, <1>9 DEF SendGroup, ReactGroup, ReadMembers, StoreTypes
<1>10. CASE \E x \in Others : AddToGroup(c, x) \/ KickFromGroup(c, x)
  <2>1. PICK x \in Others, op \in {"add", "kick"} : Begin(c, op, "request", x, {}, 0)
    BY <1>10 DEF AddToGroup, KickFromGroup
  <2> DEFINE r == [op |-> op, step |-> "request", x |-> x, who |-> {}, n |-> 0]
  <2>2. r \in Records /\ Shape(r)
    BY <2>1 DEF Records, Shape, Everyone
  <2>3. QED
    BY <1>1, <2>1, <2>2, Begun, ShapesKept
<1>11. CASE InsertGroup(c)
  BY <1>1, <1>2, <1>11 DEF InsertGroup, At, Shape
<1>12. CASE InsertMember(c)
  BY <1>1, <1>2, <1>12, MemberInserted, ShapesKept DEF Shape
<1>13. CASE EncryptForMembers(c)
  <2>1. call[c].op \in {"send", "react"}
    BY <1>1, <1>13 DEF EncryptForMembers, At, Shape
  <2>2. QED
    BY <1>1, <1>3, <1>13, <2>1, Encrypted, ShapesKept DEF Shape
<1>14. CASE Answered(c)
  BY <1>2, <1>3, <1>14 DEF Answered
<1>15. CASE AnswerLost(c) \/ Refused(c)
  BY <1>2, <1>3, <1>15 DEF AnswerLost, Refused, GiveUp
<1>16. CASE DeleteInvite(c) \/ RemoveKicked(c) \/ SaveSent(c)
  BY <1>3, <1>16 DEF DeleteInvite, RemoveKicked, SaveSent
<1>17. CASE DeleteGroup(c)
  BY <1>2, <1>3, <1>17 DEF DeleteGroup
<1>18. QED
  BY <1>5, <1>6, <1>7, <1>8, <1>9, <1>10, <1>11, <1>12, <1>13, <1>14, <1>15, <1>16, <1>17
     DEF Operation

\* What the operations do to the store and the relay keeps the types of those.
LEMMA OperationsKeepTypes ==
    ASSUME Types, NEW c \in Callers, Operation(c)
    PROVE  StoreTypes' /\ RelayTypes'
<1> USE DEF Types, StoreTypes, RelayTypes, relayVars, storeVars, counters
<1>1. call[c] \in Records /\ Others \subseteq Everyone /\ Me \in Everyone
  BY DEF CallTypes, Everyone
<1>2. ASSUME Granted(c)
      PROVE  /\ roster' \in SUBSET Everyone /\ invited' \in SUBSET Everyone
             /\ invites' \in Nat /\ raced' \in BOOLEAN
  <2>1. call[c].x \in Everyone
    BY <1>1 DEF Records
  <2>2. QED
    BY <1>1, <1>2, <2>1 DEF Granted
<1>3. ASSUME NEW op, NEW step, NEW x, NEW who, NEW n, Begin(c, op, step, x, who, n),
             local' \in SUBSET Everyone, UNCHANGED <<row, invite>>
      PROVE  StoreTypes' /\ RelayTypes'
  BY <1>3 DEF Begin
<1>4. CASE \/ CreateGroup(c) \/ AcceptGroup(c) \/ DeclineGroup(c) \/ LeaveGroup(c)
           \/ SendGroup(c) \/ ReactGroup(c)
           \/ \E x \in Others : AddToGroup(c, x) \/ KickFromGroup(c, x)
  BY <1>1, <1>3, <1>4 DEF CreateGroup, AcceptGroup, DeclineGroup, LeaveGroup, SendGroup, ReactGroup,
                          ReadMembers, AddToGroup, KickFromGroup
<1>5. CASE InsertGroup(c)
  BY <1>5 DEF InsertGroup
<1>6. CASE InsertMember(c)
  <2>1. UNCHANGED <<row, invite, relayVars, inbox, raced, counters>>
    BY <1>6 DEF InsertMember
  <2>2. local' \in SUBSET Everyone
    BY <1>6, MemberInserted
  <2>3. QED
    BY <2>1, <2>2
<1>7. CASE EncryptForMembers(c)
  BY <1>7 DEF EncryptForMembers
<1>8. CASE Answered(c)
  BY <1>2, <1>8 DEF Answered
<1>9. CASE AnswerLost(c)
  BY <1>2, <1>9 DEF AnswerLost
<1>10. CASE Refused(c)
  BY <1>10 DEF Refused
<1>11. CASE DeleteInvite(c)
  BY <1>11 DEF DeleteInvite, NoInvite
<1>12. CASE RemoveKicked(c)
  BY <1>12 DEF RemoveKicked
<1>13. CASE DeleteGroup(c)
  BY <1>13 DEF DeleteGroup
<1>14. CASE SaveSent(c)
  BY <1>14 DEF SaveSent
<1>15. QED
  BY <1>4, <1>5, <1>6, <1>7, <1>8, <1>9, <1>10, <1>11, <1>12, <1>13, <1>14 DEF Operation

-----------------------------------------------------------------------------
(* The inbox                                                                *)

\* A frame at the end of the inbox, and one taken from its head.
LEMMA FrameAppended ==
    ASSUME NEW s \in Seq(Frames), NEW f \in Frames
    PROVE  /\ Append(s, f) \in Seq(Frames)
           /\ Len(Append(s, f)) = Len(s) + 1 /\ Len(s) \in Nat
           /\ Append(s, f)[Len(s) + 1] = f
           /\ \A i \in 1..Len(s) : Append(s, f)[i] = s[i]
OBVIOUS

\* A frame taken from the head of the inbox.
LEMMA FrameTaken ==
    ASSUME NEW s \in Seq(Frames), s # <<>>
    PROVE  /\ Tail(s) \in Seq(Frames) /\ Head(s) = s[1] /\ s[1] \in Frames
           /\ Len(Tail(s)) = Len(s) - 1 /\ Len(s) \in Nat \ {0}
           /\ \A i \in 1..Len(Tail(s)) : Tail(s)[i] = s[i + 1]
OBVIOUS

\* What the inbox holds are frames.
LEMMA FrameIn ==
    ASSUME NEW s \in Seq(Frames), NEW i \in 1..Len(s)
    PROVE  s[i] \in Frames /\ s[i].n \in Nat /\ s[i].who \in SUBSET Everyone /\ s[i].x \in Everyone
<1>1. s[i] \in Frames
  OBVIOUS
<1>2. QED
  BY <1>1 DEF Frames

\* A frame is stored, or its sender is blocked and it is dropped; who joined and was
\* dropped is missed, and stays so until there is other news of it.
LEMMA FrameHandled ==
    ASSUME NEW f \in Frames, HandleInbound(f)
    PROVE  /\ \/ StoreFrame(f)
              \/ /\ UNCHANGED <<local, invite>>
                 /\ f.kind = "joined" => f.x \in missed'
                 /\ f.kind = "invite" => f.n \in ignored'
           /\ \A x \in missed : f.kind = "invite" \/ f.x # x => x \in missed'
           /\ \A n \in ignored : f.kind # "invite" \/ f.n # n => n \in ignored'
<1>1. f.kind \in {"invite", "joined", "left"}
  BY DEF Frames
<1>2. CASE f.kind = "invite"
  BY <1>2 DEF HandleInbound
<1>3. CASE f.kind = "joined"
  BY <1>3 DEF HandleInbound
<1>4. CASE f.kind = "left"
  BY <1>4 DEF HandleInbound
<1>5. QED
  BY <1>1, <1>2, <1>3, <1>4

\* What is read is a frame, and the inbox has one less, or the same ones.
LEMMA FrameRead ==
    ASSUME Types, ReadFrame
    PROVE  /\ inbox # <<>> /\ inbox[1] \in Frames /\ HandleInbound(inbox[1])
           /\ StoreFrame(inbox[1]) \/ UNCHANGED <<local, invite>>
           /\ inbox' = Tail(inbox) \/ inbox' = inbox
           /\ inbox' \in Seq(Frames)
           /\ UNCHANGED <<row, roster, invited, invites, taken, call, raced, declined, calls, events>>
<1>1. inbox \in Seq(Frames) /\ inbox # <<>>
  BY DEF Types, RelayTypes, ReadFrame
<1>2. inbox[1] \in Frames /\ HandleInbound(inbox[1])
  BY <1>1, FrameTaken DEF ReadFrame
<1>3. StoreFrame(inbox[1]) \/ UNCHANGED <<local, invite>>
  BY <1>2, FrameHandled
<1>4. QED
  BY <1>1, <1>2, <1>3, FrameTaken DEF ReadFrame, relayVars

\* Blocking changes nothing but who is blocked.
LEMMA Blocking ==
    ASSUME Types, NEW x \in Others, Block(x)
    PROVE  /\ UNCHANGED <<row, local, invite, history, roster, invited, invites, taken, inbox, call,
                          raced, declined, missed, ignored, events>>
           /\ calls' = calls + 1
BY DEF Block, storeVars, relayVars

\* Some member invites the agent.
Invites == \E x \in Others : InviteMe(x)

\* A step of the relay: what it says is appended for a member or an invitee.
LEMMA RelaySteps ==
    ASSUME Types, Relay
    PROVE  /\ roster # {} /\ events' = events + 1 /\ UNCHANGED <<storeVars, taken, call, raced, declined, calls>>
           /\ UNCHANGED blockVars
           /\ \/ Invites \/ KickMe
              \/ \E x \in Others : OtherInvites(x) \/ OtherJoins(x) \/ OtherLeaves(x)
BY DEF Relay, Invites, InviteMe, KickMe, OtherInvites, OtherJoins, OtherLeaves, Event

\* The relay's steps keep the types.
LEMMA RelayKeepsTypes == Types /\ Relay => Types'
<1> SUFFICES ASSUME Types, Relay PROVE Types'
  OBVIOUS
<1>1. /\ inbox \in Seq(Frames) /\ roster \in SUBSET Everyone /\ invited \in SUBSET Everyone
      /\ invites \in Nat /\ Me \in Everyone /\ Others \subseteq Everyone
  BY DEF Types, RelayTypes, Everyone
<1>2. CallTypes' /\ StoreTypes' /\ raced' \in BOOLEAN /\ calls' \in Nat /\ events' \in Nat
  BY RelaySteps DEF Types, StoreTypes, RelayTypes, CallTypes, storeVars
<1>3. ASSUME NEW f \in Frames, Tell(f) PROVE inbox' \in Seq(Frames)
  BY <1>1, <1>3, FrameAppended DEF Tell
<1>4. ASSUME NEW kind \in {"joined", "left"}, NEW x \in Others
      PROVE  Frame(kind, x, {}, 0) \in Frames
  BY <1>1 DEF Frame, Frames
<1>5. ASSUME NEW x \in Others, InviteMe(x) PROVE Types'
  <2>1. invites' = invites + 1 /\ Frame("invite", x, roster, invites') \in Frames
    BY <1>1, <1>5 DEF InviteMe, Frame, Frames
  <2>2. QED
    BY <1>1, <1>2, <1>5, <2>1, FrameAppended DEF InviteMe, Types, RelayTypes
<1>6. CASE KickMe
  BY <1>1, <1>2, <1>6 DEF KickMe, Types, RelayTypes
<1>7. ASSUME NEW x \in Others, OtherInvites(x) PROVE Types'
  BY <1>1, <1>2, <1>7 DEF OtherInvites, Types, RelayTypes
<1>8. ASSUME NEW x \in Others, OtherJoins(x) PROVE Types'
  BY <1>1, <1>2, <1>3, <1>4, <1>8 DEF OtherJoins, Types, RelayTypes
<1>9. ASSUME NEW x \in Others, OtherLeaves(x) PROVE Types'
  BY <1>1, <1>2, <1>3, <1>4, <1>9 DEF OtherLeaves, Types, RelayTypes
<1>10. QED
  BY <1>5, <1>6, <1>7, <1>8, <1>9, RelaySteps DEF Invites

\* Every step keeps the types.
LEMMA TypesInvariant == Spec => []Types
<1>1. Init => Types
  <2> SUFFICES ASSUME Init PROVE Types
    OBVIOUS
  <2>1. StoreTypes
    BY DEF Init, StoreTypes, NoInvite
  <2>3. inbox \in Seq(Frames)
    BY DEF Init
  <2>4. RelayTypes
    BY <2>3 DEF Init, RelayTypes, Everyone
  <2>2. CallTypes
    BY IdleIsRecord DEF Init, CallTypes
  <2>5. QED
    BY <2>1, <2>2, <2>4 DEF Types
<1>2. Types /\ [Next]_vars => Types'
  <2> SUFFICES ASSUME Types, [Next]_vars PROVE Types'
    OBVIOUS
  <2>1. ASSUME NEW c \in Callers, Operation(c) PROVE Types'
    BY <2>1, OperationsKeepCalls, OperationsKeepTypes DEF Types
  <2>2. CASE Crash
    <3>1. StoreTypes' /\ RelayTypes'
      BY <2>2 DEF Crash, Types, StoreTypes, RelayTypes, storeVars, relayVars
    <3>2. CallTypes'
      BY <2>2, IdleIsRecord DEF Crash, CallTypes
    <3>3. QED
      BY <3>1, <3>2 DEF Types
  <2>3. CASE Relay
    BY <2>3, RelayKeepsTypes
  <2>4. CASE ReadFrame
    <3>1. CallTypes' /\ RelayTypes' /\ row' \in BOOLEAN
      BY <2>4, FrameRead DEF Types, StoreTypes, RelayTypes, CallTypes
    <3>2. local' \in SUBSET Everyone /\ invite' \in [n : Nat, who : SUBSET Everyone]
      BY <2>4, FrameRead DEF Types, StoreTypes, StoreFrame, SaveGroupInvite, Frames
    <3>3. QED
      BY <3>1, <3>2 DEF Types, StoreTypes
  <2>5. CASE UNCHANGED vars
    BY <2>5 DEF vars, Types, StoreTypes, RelayTypes, CallTypes, storeVars, relayVars, counters
  <2>6. ASSUME NEW x \in Others, Block(x) PROVE Types'
    BY <2>6, Blocking DEF Types, StoreTypes, RelayTypes, CallTypes
  <2>7. QED
    BY <2>1, <2>2, <2>3, <2>4, <2>5, <2>6 DEF Next
<1>3. QED
  BY <1>1, <1>2, PTL DEF Spec

-----------------------------------------------------------------------------
(* Who joined in the frames to come                                         *)

\* Frame i says that x did so; frame i is the agent's last invitation.
Says(s, i, kind, x) == s[i].kind = kind /\ s[i].x = x
InviteAt(i) == inbox[i].kind = "invite" /\ inbox[i].n = invites

\* The last that s says of x after frame i is that it joined.
JoinedIn(s, i, x) ==
    \E j \in i+1..Len(s) :
        Says(s, j, "joined", x) /\ \A k \in j+1..Len(s) : ~Says(s, k, "left", x)

JoinedAfter(i, x) == JoinedIn(inbox, i, x)

\* Who joined after frame i joined after an earlier one.
LEMMA JoinedEarlier ==
    ASSUME NEW s \in Seq(Frames), NEW i \in Nat, NEW j \in Nat, NEW x, j <= i, JoinedIn(s, i, x)
    PROVE  JoinedIn(s, j, x)
BY DEF JoinedIn

\* A frame that does not say x left changes nothing, and one that says it joined
\* makes it so.
LEMMA JoinedAppended ==
    ASSUME NEW s \in Seq(Frames), NEW f \in Frames, NEW i \in Nat, NEW x
    PROVE  /\ JoinedIn(s, i, x) /\ ~(f.kind = "left" /\ f.x = x) => JoinedIn(Append(s, f), i, x)
           /\ i <= Len(s) /\ f.kind = "joined" /\ f.x = x => JoinedIn(Append(s, f), i, x)
<1> DEFINE t == Append(s, f)
<1>1. /\ Len(t) = Len(s) + 1 /\ Len(s) \in Nat /\ t[Len(s) + 1] = f
      /\ \A k \in 1..Len(s) : t[k] = s[k]
  BY FrameAppended
<1> HIDE DEF t
<1>2. ASSUME JoinedIn(s, i, x), ~(f.kind = "left" /\ f.x = x) PROVE JoinedIn(t, i, x)
  <2>1. PICK j \in i+1..Len(s) :
          Says(s, j, "joined", x) /\ \A k \in j+1..Len(s) : ~Says(s, k, "left", x)
    BY <1>2 DEF JoinedIn
  <2>2. j \in i+1..Len(t) /\ Says(t, j, "joined", x)
    BY <1>1, <2>1 DEF Says
  <2>3. ASSUME NEW k \in j+1..Len(t) PROVE ~Says(t, k, "left", x)
    BY <1>1, <1>2, <2>1, <2>3 DEF Says
  <2>4. QED
    BY <2>2, <2>3 DEF JoinedIn
<1>3. ASSUME i <= Len(s), f.kind = "joined", f.x = x PROVE JoinedIn(t, i, x)
  <2>1. Len(s) + 1 \in i+1..Len(t) /\ Says(t, Len(s) + 1, "joined", x)
    BY <1>1, <1>3 DEF Says
  <2>2. \A k \in (Len(s) + 1) + 1..Len(t) : ~Says(t, k, "left", x)
    BY <1>1
  <2>3. QED
    BY <2>1, <2>2 DEF JoinedIn
<1>4. QED
  BY <1>2, <1>3 DEF t

\* Reading the first frame leaves what the others say; if nothing else says that x
\* joined, the first one did.
LEMMA JoinedTaken ==
    ASSUME NEW s \in Seq(Frames), s # <<>>, NEW x
    PROVE  /\ \A i \in Nat : JoinedIn(s, i + 1, x) => JoinedIn(Tail(s), i, x)
           /\ JoinedIn(s, 0, x) => JoinedIn(Tail(s), 0, x) \/ Says(s, 1, "joined", x)
<1> DEFINE t == Tail(s)
<1>1. Len(t) = Len(s) - 1 /\ Len(s) \in Nat \ {0} /\ \A k \in 1..Len(t) : t[k] = s[k + 1]
  BY FrameTaken
<1> HIDE DEF t
<1>2. ASSUME NEW i \in Nat, JoinedIn(s, i + 1, x) PROVE JoinedIn(t, i, x)
  <2>1. PICK j \in (i+1)+1..Len(s) :
          Says(s, j, "joined", x) /\ \A k \in j+1..Len(s) : ~Says(s, k, "left", x)
    BY <1>2 DEF JoinedIn
  <2>2. j - 1 \in i+1..Len(t) /\ Says(t, j - 1, "joined", x)
    BY <1>1, <2>1 DEF Says
  <2>3. ASSUME NEW k \in (j - 1) + 1..Len(t) PROVE ~Says(t, k, "left", x)
    <3>1. k \in 1..Len(t) /\ k + 1 \in j+1..Len(s) /\ t[k] = s[k + 1]
      BY <1>1, <2>1, <2>3
    <3>2. QED
      BY <2>1, <3>1 DEF Says
  <2>4. QED
    BY <2>2, <2>3 DEF JoinedIn
<1>3. ASSUME JoinedIn(s, 0, x), ~Says(s, 1, "joined", x) PROVE JoinedIn(t, 0, x)
  <2>1. JoinedIn(s, 0 + 1, x)
    BY <1>1, <1>3 DEF JoinedIn
  <2>2. QED
    BY <1>2, <2>1
<1>4. QED
  BY <1>2, <1>3 DEF t

-----------------------------------------------------------------------------
(* The numbers of the invitations                                           *)

\* Invitation n has been read: the inbox has newer ones only, but for the frame at
\* its head, which may be read twice.
Passed(n) ==
    /\ n <= invites
    /\ \A i \in 1..Len(inbox) : inbox[i].kind = "invite" =>
         n <= inbox[i].n /\ (i > 1 => n < inbox[i].n)

\* Invitations are numbered in the order they are sent and read.
Numbered ==
    /\ \A i \in 1..Len(inbox) : inbox[i].kind = "invite" => 0 < inbox[i].n /\ inbox[i].n <= invites
    /\ \A i, j \in 1..Len(inbox) :
         i < j /\ inbox[i].kind = "invite" /\ inbox[j].kind = "invite" => inbox[i].n < inbox[j].n

\* An answered accept, and the agent invited again: it is a later invitation.
InviteInv ==
    /\ Numbered
    /\ Passed(invite.n)
    /\ \A c \in Callers : call[c].op \in {"accept", "decline"} => Passed(call[c].n)
    /\ Me \in invited => invites > 0
    /\ \A c \in Callers : call[c].op = "accept" /\ At(c, "store") /\ ~raced /\ Me \in invited =>
         call[c].n < invites

\* An inbox that grows by an invitation, by another frame, or is read.
LEMMA NumberedInvited ==
    ASSUME Types, Numbered, NEW x \in Others, NEW who \in SUBSET Everyone, invites' = invites + 1,
           inbox' = Append(inbox, Frame("invite", x, who, invites'))
    PROVE  Numbered' /\ \A n \in Nat : Passed(n) => Passed(n)' /\ n < invites'
<1> DEFINE f == Frame("invite", x, who, invites')
<1>1. invites \in Nat /\ inbox \in Seq(Frames) /\ f \in Frames /\ f.kind = "invite" /\ f.n = invites + 1
  BY DEF Types, RelayTypes, Frames, Frame, Everyone
<1>2. /\ Len(inbox') = Len(inbox) + 1 /\ Len(inbox) \in Nat /\ inbox'[Len(inbox) + 1] = f
      /\ \A i \in 1..Len(inbox) : inbox'[i] = inbox[i]
  BY <1>1, FrameAppended
<1> HIDE DEF f
<1>3. \A i \in 1..Len(inbox) : inbox[i].n \in Nat
  BY <1>1, FrameIn
<1>4. Numbered'
  <2>1. ASSUME NEW i \in 1..Len(inbox'), inbox'[i].kind = "invite"
        PROVE  0 < inbox'[i].n /\ inbox'[i].n <= invites'
    BY <1>1, <1>2, <1>3, <2>1 DEF Numbered
  <2>2. ASSUME NEW i \in 1..Len(inbox'), NEW j \in 1..Len(inbox'),
               i < j, inbox'[i].kind = "invite", inbox'[j].kind = "invite"
        PROVE  inbox'[i].n < inbox'[j].n
    <3>1. i \in 1..Len(inbox) /\ inbox'[i] = inbox[i] /\ inbox[i].n <= invites
      BY <1>2, <2>2 DEF Numbered
    <3>2. CASE j \in 1..Len(inbox)
      BY <1>2, <2>2, <3>1, <3>2 DEF Numbered
    <3>3. CASE j = Len(inbox) + 1
      BY <1>1, <1>2, <1>3, <3>1, <3>3
    <3>4. QED
      BY <1>2, <3>2, <3>3
  <2>3. QED
    BY <2>1, <2>2 DEF Numbered
<1>5. ASSUME NEW n \in Nat, Passed(n) PROVE Passed(n)' /\ n < invites'
  BY <1>1, <1>2, <1>3, <1>5 DEF Passed
<1>6. QED
  BY <1>4, <1>5

\* A member update changes no number.
LEMMA NumberedTold ==
    ASSUME Types, Numbered, NEW f \in Frames, f.kind # "invite", invites' = invites,
           inbox' = Append(inbox, f)
    PROVE  Numbered' /\ \A n \in Nat : Passed(n) => Passed(n)'
<1>1. inbox \in Seq(Frames)
  BY DEF Types, RelayTypes
<1>2. /\ Len(inbox') = Len(inbox) + 1 /\ Len(inbox) \in Nat /\ inbox'[Len(inbox) + 1] = f
      /\ \A i \in 1..Len(inbox) : inbox'[i] = inbox[i]
  BY <1>1, FrameAppended
<1>3. QED
  BY <1>2 DEF Numbered, Passed

\* Reading, once or twice, keeps the order, and passes the invitation that is read.
LEMMA NumberedRead ==
    ASSUME Types, Numbered, inbox # <<>>, inbox' = Tail(inbox) \/ inbox' = inbox, invites' = invites
    PROVE  /\ Numbered'
           /\ \A n \in Nat : Passed(n) => Passed(n)'
           /\ \A n \in Nat : inbox[1].kind = "invite" /\ n = inbox[1].n => Passed(n)'
<1>1. inbox \in Seq(Frames) /\ \A i \in 1..Len(inbox) : inbox[i].n \in Nat
  BY FrameIn DEF Types, RelayTypes
<1>2. invites \in Nat
  BY DEF Types, RelayTypes
<1>3. CASE inbox' = inbox
  <2>1. Len(inbox) \in Nat \ {0}
    BY <1>1, FrameTaken
  <2>2. QED
    BY <1>1, <1>2, <1>3, <2>1 DEF Numbered, Passed
<1>4. CASE inbox' = Tail(inbox)
  <2>1. /\ Len(inbox') = Len(inbox) - 1 /\ Len(inbox) \in Nat \ {0}
        /\ \A i \in 1..Len(inbox') : inbox'[i] = inbox[i + 1]
    BY <1>1, <1>4, FrameTaken
  <2>2. \A i \in 1..Len(inbox') : i + 1 \in 2..Len(inbox) /\ i + 1 \in 1..Len(inbox) /\ i + 1 > 1
    BY <2>1
  <2>3. Numbered'
    <3>1. ASSUME NEW i \in 1..Len(inbox'), inbox'[i].kind = "invite"
          PROVE  0 < inbox'[i].n /\ inbox'[i].n <= invites'
      BY <2>1, <2>2, <3>1 DEF Numbered
    <3>2. ASSUME NEW i \in 1..Len(inbox'), NEW j \in 1..Len(inbox'), i < j,
                 inbox'[i].kind = "invite", inbox'[j].kind = "invite"
          PROVE  inbox'[i].n < inbox'[j].n
      <4>1. i + 1 < j + 1 /\ inbox'[i] = inbox[i + 1] /\ inbox'[j] = inbox[j + 1]
        BY <2>1, <3>2
      <4>2. QED
        BY <2>2, <3>2, <4>1 DEF Numbered
    <3>3. QED
      BY <3>1, <3>2 DEF Numbered
  <2>4. ASSUME NEW n \in Nat, Passed(n) PROVE Passed(n)'
    BY <1>2, <2>1, <2>2, <2>4 DEF Passed
  <2>5. ASSUME NEW n \in Nat, inbox[1].kind = "invite", n = inbox[1].n PROVE Passed(n)'
    <3>1. n <= invites /\ \A i \in 2..Len(inbox) : inbox[i].kind = "invite" => n < inbox[i].n
      BY <1>1, <2>1, <2>5 DEF Numbered
    <3>2. ASSUME NEW i \in 1..Len(inbox'), inbox'[i].kind = "invite" PROVE n < inbox'[i].n
      BY <2>1, <2>2, <3>1, <3>2
    <3>3. ASSUME NEW i \in 1..Len(inbox') PROVE inbox'[i].n \in Nat
      BY <1>1, <2>1, <2>2, <3>3
    <3>4. QED
      BY <1>2, <3>1, <3>2, <3>3 DEF Passed
  <2>6. QED
    BY <2>3, <2>4, <2>5
<1>5. QED
  BY <1>3, <1>4

-----------------------------------------------------------------------------
(* What an operation does in one step                                       *)

\* A call begins.
Starts(c, r) ==
    /\ call[c] = Idle /\ calls' = calls + 1 /\ r.step \in {"group", "request", "keys"}
    /\ r.op = "create" => r.step = "group" /\ roster = {} /\ events = 0 /\ calls = 0
    /\ r.op = "accept" => r.step = "group" /\ r.n = invite.n /\ r.who = invite.who
    /\ r.op = "decline" => r.n = invite.n

\* A call goes on to what comes before its request, or a refused decline to the store.
Proceeds(c, r) ==
    /\ calls' = calls /\ r.op = call[c].op
    /\ \/ /\ call[c].step = "group" /\ r.step = "members" /\ row'
          /\ r.who = call[c].who /\ r.n = call[c].n
       \/ /\ call[c].step = "members" /\ r.step = "members"
          /\ call[c].who \subseteq r.who \cup local' /\ r.n = call[c].n
       \/ /\ call[c].step = "members" /\ r.step = "request"
          /\ call[c].who = {} /\ r.who = {} /\ r.n = call[c].n
       \/ r.op \in {"send", "react"} /\ r.step = "request"
       \/ r.op = "decline" /\ r.step = "store" /\ r.n = call[c].n

\* Neither asks the relay, nor deletes anything.
Quiet(c, r) ==
    /\ local \subseteq local' /\ (row => row')
    /\ UNCHANGED <<invite, history, relayVars, inbox, raced, declined, blockVars, events>>
    /\ (call[c] # Idle /\ r = Idle /\ calls' = calls) \/ Starts(c, r) \/ Proceeds(c, r)

\* The relay grants a request, whether the answer arrives or not.
Grants(c, r) ==
    /\ Granted(c) /\ At(c, "request")
    /\ UNCHANGED <<storeVars, inbox, declined, blockVars, calls, events>>
    /\ \/ r = Idle
       \/ /\ r.op = call[c].op /\ r.op \notin {"create", "add"} /\ r.step = "store"
          /\ r.n = call[c].n

\* Every step of an operation is one of these, and leaves the other callers alone.
LEMMA OperationCases ==
    ASSUME Types, NEW c \in Callers, Operation(c)
    PROVE  \E r : /\ Becomes(c, r)
                  /\ \/ Quiet(c, r)
                     \/ Grants(c, r)
                     \/ DeleteInvite(c) /\ r = Idle
                     \/ RemoveKicked(c) /\ r = Idle
                     \/ DeleteGroup(c) /\ (r = Idle \/ (r.op = "leave" /\ r.step = "row"))
                     \/ SaveSent(c) /\ r = Idle
<1>1. CallTypes /\ StoreTypes /\ call[c] \in Records
  BY DEF Types, CallTypes
<1>2. ASSUME NEW op, NEW step \in {"group", "request", "keys"}, NEW x, NEW who, NEW n,
             op = "create" => step = "group" /\ roster = {} /\ events = 0 /\ calls = 0,
             op = "accept" => step = "group" /\ n = invite.n /\ who = invite.who,
             op = "decline" => n = invite.n,
             Begin(c, op, step, x, who, n), local \subseteq local', UNCHANGED <<row, invite, history>>,
             [op |-> op, step |-> step, x |-> x, who |-> who, n |-> n] \in Records
      PROVE  \E r : Becomes(c, r) /\ Quiet(c, r)
  <2> DEFINE r == [op |-> op, step |-> step, x |-> x, who |-> who, n |-> n]
  <2>1. Becomes(c, r) /\ call[c] = Idle /\ calls' = calls + 1
        /\ UNCHANGED <<relayVars, inbox, raced, declined, blockVars, events>>
    BY <1>1, <1>2, Begun
  <2>2. Starts(c, r)
    BY <1>2, <2>1 DEF Starts
  <2>3. QED
    BY <1>2, <2>1, <2>2 DEF Quiet
<1>3. CASE CreateGroup(c)
  <2>1. PICK who \in SUBSET Others : Begin(c, "create", "group", Me, who, 0)
    BY <1>3 DEF CreateGroup
  <2>2. [op |-> "create", step |-> "group", x |-> Me, who |-> who, n |-> 0] \in Records
    BY <2>1 DEF Records, Everyone
  <2>3. QED
    BY <1>2, <1>3, <2>1, <2>2 DEF CreateGroup, storeVars
<1>4. CASE AcceptGroup(c)
  <2>1. [op |-> "accept", step |-> "group", x |-> Me, who |-> invite.who, n |-> invite.n] \in Records
    BY <1>1 DEF Records, Everyone, StoreTypes
  <2>2. QED
    BY <1>2, <1>4, <2>1 DEF AcceptGroup, storeVars
<1>5. CASE DeclineGroup(c)
  <2>1. [op |-> "decline", step |-> "request", x |-> Me, who |-> {}, n |-> invite.n] \in Records
    BY <1>1 DEF Records, Everyone, StoreTypes
  <2>2. QED
    BY <1>2, <1>5, <2>1 DEF DeclineGroup, storeVars
<1>6. CASE LeaveGroup(c)
  <2>1. [op |-> "leave", step |-> "request", x |-> Me, who |-> {}, n |-> 0] \in Records
    BY DEF Records, Everyone
  <2>2. QED
    BY <1>2, <1>6, <2>1 DEF LeaveGroup, storeVars
<1>7. CASE SendGroup(c) \/ ReactGroup(c)
  <2>1. PICK op \in {"send", "react"} : Begin(c, op, "keys", Me, local, 0) /\ UNCHANGED storeVars
    BY <1>7 DEF SendGroup, ReactGroup, ReadMembers
  <2>2. [op |-> op, step |-> "keys", x |-> Me, who |-> local, n |-> 0] \in Records
    BY <1>1 DEF Records, Everyone, StoreTypes
  <2>3. QED
    BY <1>2, <2>1, <2>2 DEF storeVars
<1>8. CASE \E x \in Others : AddToGroup(c, x) \/ KickFromGroup(c, x)
  <2>1. PICK x \in Others, op \in {"add", "kick"} :
          /\ Begin(c, op, "request", x, {}, 0)
          /\ local \subseteq local' /\ UNCHANGED <<row, invite, history>>
    BY <1>8 DEF AddToGroup, KickFromGroup, storeVars
  <2>2. [op |-> op, step |-> "request", x |-> x, who |-> {}, n |-> 0] \in Records
    BY <2>1 DEF Records, Everyone
  <2>3. QED
    BY <1>2, <2>1, <2>2
<1>9. CASE InsertGroup(c)
  <2>1. PICK r : /\ Becomes(c, r) /\ r.op = call[c].op /\ r.step = "members"
                 /\ r.who = call[c].who /\ r.n = call[c].n
    BY <1>1, <1>9, StepTaken DEF InsertGroup
  <2>2. Proceeds(c, r)
    BY <1>9, <2>1 DEF InsertGroup, Proceeds, At, counters
  <2>3. Quiet(c, r)
    BY <1>9, <2>2 DEF InsertGroup, Quiet, counters
  <2>4. QED
    BY <2>1, <2>3
<1>10. CASE InsertMember(c)
  <2>1. /\ UNCHANGED <<row, invite, history, relayVars, inbox, raced, declined, blockVars, calls, events>>
        /\ call[c].step = "members"
    BY <1>10 DEF InsertMember, counters, At
  <2>2. CASE call[c].who = {} /\ Step(c, "request") /\ local' = local
    <3>1. PICK r : Becomes(c, r) /\ r.op = call[c].op /\ r.step = "request" /\ r.who = {} /\ r.n = call[c].n
      BY <1>1, <2>2, StepTaken
    <3>2. Proceeds(c, r)
      BY <2>1, <2>2, <3>1 DEF Proceeds
    <3>3. QED
      BY <2>1, <2>2, <3>1, <3>2 DEF Quiet
  <2>3. ASSUME NEW x \in call[c].who, NEW r, local' = local \cup {x}, Becomes(c, r),
               r.op = call[c].op, r.step = call[c].step, r.who = call[c].who \ {x}, r.n = call[c].n
        PROVE  Quiet(c, r)
    <3>1. Proceeds(c, r)
      BY <2>1, <2>3 DEF Proceeds
    <3>2. QED
      BY <2>1, <2>3, <3>1 DEF Quiet
  <2>4. QED
    BY <1>10, <2>2, <2>3, MemberInserted
<1>11. CASE EncryptForMembers(c)
  <2>1. UNCHANGED <<storeVars, relayVars, inbox, raced, declined, blockVars, calls, events>>
    BY <1>11 DEF EncryptForMembers, counters
  <2>2. CASE Return(c)
    <3>1. Becomes(c, Idle)
      BY <1>1, <2>2, Returned
    <3>2. Quiet(c, Idle)
      BY <1>11, <2>1, IdleIsRecord DEF Quiet, storeVars, EncryptForMembers, At
    <3>3. QED
      BY <3>1, <3>2
  <2>3. ASSUME NEW r, Becomes(c, r), r.op = call[c].op, r.step = "request" PROVE Quiet(c, r)
    <3>1. call[c].op \in {"send", "react"}
      BY <1>1, <1>11 DEF EncryptForMembers, At, CallTypes
    <3>2. Proceeds(c, r)
      BY <2>1, <2>3, <3>1 DEF Proceeds
    <3>3. QED
      BY <2>1, <3>2 DEF Quiet, storeVars
  <2>4. QED
    BY <1>11, <2>2, <2>3, Encrypted
<1>12. ASSUME NEW s \in {"store", "row"}, Step(c, s)
       PROVE  \E r : Becomes(c, r) /\ r.op = call[c].op /\ r.step = s /\ r.n = call[c].n
  BY <1>1, <1>12, StepTaken
<1>13. ASSUME Return(c) PROVE Becomes(c, Idle)
  BY <1>1, <1>13, Returned
<1>14. CASE Answered(c) \/ AnswerLost(c)
  <2>1. /\ Granted(c) /\ At(c, "request")
        /\ UNCHANGED <<storeVars, inbox, declined, blockVars, calls, events>>
        /\ Return(c) \/ (call[c].op \notin {"create", "add"} /\ Step(c, "store"))
    BY <1>14 DEF Answered, AnswerLost, GiveUp, counters
  <2>2. CASE Return(c)
    BY <1>13, <2>1, <2>2 DEF Grants
  <2>3. CASE call[c].op \notin {"create", "add"} /\ Step(c, "store")
    <3>1. PICK r : Becomes(c, r) /\ r.op = call[c].op /\ r.step = "store" /\ r.n = call[c].n
      BY <1>12, <2>3
    <3>2. Grants(c, r)
      BY <2>1, <2>3, <3>1 DEF Grants
    <3>3. QED
      BY <3>1, <3>2
  <2>4. QED
    BY <2>1, <2>2, <2>3
<1>15. CASE Refused(c)
  <2>1. /\ UNCHANGED <<storeVars, relayVars, inbox, raced, declined, blockVars, calls, events>>
        /\ Return(c) \/ (call[c].op = "decline" /\ Step(c, "store"))
    BY <1>15 DEF Refused, GiveUp, counters
  <2>2. CASE Return(c)
    BY <1>13, <1>15, <2>1, <2>2, IdleIsRecord DEF Quiet, storeVars, Refused, At
  <2>3. CASE call[c].op = "decline" /\ Step(c, "store")
    <3>1. PICK r : Becomes(c, r) /\ r.op = call[c].op /\ r.step = "store" /\ r.n = call[c].n
      BY <1>12, <2>3
    <3>2. Proceeds(c, r)
      BY <2>1, <2>3, <3>1 DEF Proceeds
    <3>3. QED
      BY <2>1, <3>1, <3>2 DEF Quiet, storeVars
  <2>4. QED
    BY <2>1, <2>2, <2>3
<1>16. CASE DeleteInvite(c) \/ RemoveKicked(c) \/ SaveSent(c)
  BY <1>13, <1>16 DEF DeleteInvite, RemoveKicked, SaveSent
<1>17. CASE DeleteGroup(c)
  BY <1>12, <1>13, <1>17 DEF DeleteGroup
<1>18. QED
  BY <1>3, <1>4, <1>5, <1>6, <1>7, <1>8, <1>9, <1>10, <1>11, <1>14, <1>15, <1>16, <1>17
     DEF Operation

\* What a granted request does to the membership.
LEMMA GrantEffects ==
    ASSUME Types, NEW c \in Callers, Granted(c)
    PROVE  /\ invites' = invites
           /\ roster' \ {Me} \subseteq roster
           /\ Me \in invited' => /\ Me \in invited /\ raced' = raced
                                 /\ call[c].op \in {"add", "kick", "send", "react"}
           /\ Me \in roster' =>
                \/ Me \in roster
                \/ call[c].op = "create" /\ roster = {} /\ roster' = {Me} /\ raced' = raced
                \/ call[c].op = "accept" /\ Me \in invited
                   /\ raced' = (raced \/ call[c].n # invites)
           /\ raced => raced'
<1>1. call[c].op \in {"add", "kick"} => call[c].x # Me
  BY DEF Types, CallTypes
<1>2. raced \in BOOLEAN
  BY DEF Types, RelayTypes
<1>3. Me \notin Others
  OBVIOUS
<1>4. CASE call[c].op \in {"create", "accept"}
  BY <1>2, <1>3, <1>4 DEF Granted
<1>5. CASE call[c].op \in {"decline", "leave"}
  BY <1>2, <1>5 DEF Granted
<1>6. CASE call[c].op \in {"add", "kick"}
  BY <1>1, <1>2, <1>6 DEF Granted
<1>7. CASE call[c].op \in {"send", "react"}
  BY <1>2, <1>7 DEF Granted
<1>8. QED
  BY <1>4, <1>5, <1>6, <1>7 DEF Granted

\* The operations leave the invitations and the inbox alone.
LEMMA OperationsKeepNumbers ==
    ASSUME Types, NEW c \in Callers, NEW r,
           \/ Quiet(c, r) \/ Grants(c, r) \/ DeleteInvite(c)
           \/ RemoveKicked(c) \/ DeleteGroup(c) \/ SaveSent(c)
    PROVE  /\ UNCHANGED <<invites, inbox, missed, ignored>>
           /\ Numbered' = Numbered /\ \A n : Passed(n)' <=> Passed(n)
           /\ raced => raced'
           /\ Me \in invited' => Me \in invited
           /\ invite' = invite \/ invite'.n = 0
           /\ \A i, x : JoinedAfter(i, x)' <=> JoinedAfter(i, x)
           /\ \A i : InviteAt(i)' <=> InviteAt(i)
<1>1. /\ UNCHANGED <<invites, inbox, missed, ignored>>
      /\ (raced => raced') /\ (Me \in invited' => Me \in invited)
      /\ invite' = invite \/ invite'.n = 0
  <2>1. CASE Quiet(c, r)
    BY <2>1 DEF Quiet, relayVars, blockVars
  <2>2. CASE Grants(c, r)
    BY <2>2, GrantEffects DEF Grants, storeVars, blockVars
  <2>3. CASE DeleteInvite(c)
    BY <2>3 DEF DeleteInvite, relayVars, blockVars, NoInvite
  <2>4. CASE RemoveKicked(c)
    BY <2>4 DEF RemoveKicked, relayVars, blockVars
  <2>5. CASE DeleteGroup(c)
    BY <2>5 DEF DeleteGroup, relayVars, blockVars
  <2>6. CASE SaveSent(c)
    BY <2>6 DEF SaveSent, relayVars, blockVars
  <2>7. QED
    BY <2>1, <2>2, <2>3, <2>4, <2>5, <2>6
<1>2. Numbered' = Numbered /\ \A n : Passed(n)' <=> Passed(n)
  BY <1>1 DEF Numbered, Passed
<1>3. /\ \A i, x : JoinedAfter(i, x)' <=> JoinedAfter(i, x)
      /\ \A i : InviteAt(i)' <=> InviteAt(i)
  BY <1>1 DEF JoinedAfter, JoinedIn, Says, InviteAt
<1>4. QED
  BY <1>1, <1>2, <1>3

\* The numbers and conditions of InviteInv for one caller.
Answering(c) == call[c].op \in {"accept", "decline"} => Passed(call[c].n)
Overtaken(c) == call[c].op = "accept" /\ At(c, "store") /\ ~raced /\ Me \in invited =>
                  call[c].n < invites

\* No invitation at all, number 0, comes before every one.
LEMMA PassedNone == Types /\ Numbered => Passed(0)
<1> SUFFICES ASSUME Types, Numbered PROVE Passed(0)
  OBVIOUS
<1>1. invites \in Nat /\ inbox \in Seq(Frames)
  BY DEF Types, RelayTypes
<1>2. \A i \in 1..Len(inbox) : inbox[i].n \in Nat
  BY <1>1, FrameIn
<1>3. QED
  BY <1>1, <1>2 DEF Passed, Numbered

\* The operations keep InviteInv: a granted accept ends the invitation.
LEMMA OperationsKeepInvite ==
    ASSUME Types, Types', InviteInv, NEW c \in Callers, Operation(c)
    PROVE  InviteInv'
<1>1. PICK r : /\ Becomes(c, r)
               /\ \/ Quiet(c, r) \/ Grants(c, r)
                  \/ (DeleteInvite(c) /\ r = Idle) \/ (RemoveKicked(c) /\ r = Idle)
                  \/ DeleteGroup(c) /\ (r = Idle \/ (r.op = "leave" /\ r.step = "row"))
                  \/ SaveSent(c) /\ r = Idle
  BY OperationCases
<1>2. /\ UNCHANGED <<invites, inbox>>
      /\ Numbered' = Numbered /\ \A n : Passed(n)' <=> Passed(n)
      /\ raced => raced'
      /\ Me \in invited' => Me \in invited
      /\ invite' = invite \/ invite'.n = 0
  BY <1>1, OperationsKeepNumbers
<1>3. Passed(0) /\ Passed(invite.n) /\ Numbered /\ \A d \in Callers : Answering(d) /\ Overtaken(d)
  BY PassedNone DEF InviteInv, Answering, Overtaken
<1>4. r.op \in {"accept", "decline"} => Passed(r.n)
  <2>1. Idle.op = "none"
    BY IdleIsRecord
  <2>2. CASE Starts(c, r)
    BY <1>3, <2>2 DEF Starts
  <2>3. CASE Proceeds(c, r)
    BY <1>3, <2>3 DEF Proceeds, Answering
  <2>4. CASE Grants(c, r)
    BY <1>3, <2>1, <2>4 DEF Grants, Answering
  <2>5. CASE r = Idle \/ r.op = "leave"
    BY <2>1, <2>5
  <2>6. QED
    BY <1>1, <2>2, <2>3, <2>4, <2>5 DEF Quiet
<1>5. ~(r.op = "accept" /\ r.step = "store" /\ Me \in invited')
  <2>1. Idle.op = "none"
    BY IdleIsRecord
  <2>2. CASE Quiet(c, r)
    BY <2>1, <2>2 DEF Quiet, Starts, Proceeds
  <2>3. CASE Grants(c, r)
    BY <2>1, <2>3, GrantEffects DEF Grants
  <2>4. CASE r = Idle \/ r.op = "leave"
    BY <2>1, <2>4
  <2>5. QED
    BY <1>1, <2>2, <2>3, <2>4
<1>6. \A d \in Callers : Answering(d)'
  BY <1>1, <1>2, <1>3, <1>4 DEF Answering, Becomes
<1>7. \A d \in Callers : Overtaken(d)'
  BY <1>1, <1>2, <1>3, <1>5 DEF Overtaken, Becomes, At
<1>8. Passed(invite.n)'
  BY <1>2, <1>3
<1>9. (Me \in invited => invites > 0)'
  BY <1>2 DEF InviteInv
<1>10. QED
  BY <1>2, <1>3, <1>6, <1>7, <1>8, <1>9 DEF InviteInv, Answering, Overtaken

\* What a step of the relay says, and to whom.
Tells(f) ==
    /\ f \in Frames /\ f.kind \in {"joined", "left"} /\ f.x \in Others
    /\ UNCHANGED <<invites, raced>>
    /\ Me \in roster' <=> Me \in roster
    /\ Me \in invited' <=> Me \in invited
    /\ roster' = IF f.kind = "joined" THEN roster \cup {f.x} ELSE roster \ {f.x}
    /\ Tell(f)

\* A step of the relay invites the agent, leaves it as it is, removes it, or tells it
\* of another member.
LEMMA RelayCases ==
    ASSUME Types, Relay
    PROVE  /\ UNCHANGED <<storeVars, taken, call, raced, declined, calls>> /\ roster # {}
           /\ UNCHANGED <<missed, ignored>>
           /\ \/ Invites
              \/ /\ UNCHANGED <<roster, inbox, invites>> /\ (Me \in invited' <=> Me \in invited)
              \/ /\ UNCHANGED <<inbox, invites>> /\ Me \notin roster' \cup invited'
                 /\ roster' \subseteq roster
              \/ \E f : Tells(f)
<1>1. ASSUME NEW x \in Others, OtherJoins(x)
      PROVE  \E f : Tells(f)
  <2> DEFINE f == Frame("joined", x, {}, 0)
  <2>1. f \in Frames /\ f.kind = "joined" /\ f.x = x
    BY DEF Frame, Frames, Everyone
  <2>2. Tells(f)
    BY <1>1, <2>1 DEF OtherJoins, Tells
  <2>3. QED
    BY <2>2
<1>2. ASSUME NEW x \in Others, OtherLeaves(x)
      PROVE  \E f : Tells(f)
  <2> DEFINE f == Frame("left", x, {}, 0)
  <2>1. f \in Frames /\ f.kind = "left" /\ f.x = x
    BY DEF Frame, Frames, Everyone
  <2>2. Tells(f)
    BY <1>2, <2>1 DEF OtherLeaves, Tells
  <2>3. QED
    BY <2>2
<1>3. ASSUME NEW x \in Others, OtherInvites(x)
      PROVE  UNCHANGED <<roster, inbox, invites>> /\ (Me \in invited' <=> Me \in invited)
  BY <1>3 DEF OtherInvites
<1>4. ASSUME KickMe
      PROVE  UNCHANGED <<inbox, invites>> /\ Me \notin roster' \cup invited' /\ roster' \subseteq roster
  BY <1>4 DEF KickMe
<1>5. QED
  BY <1>1, <1>2, <1>3, <1>4, RelaySteps DEF blockVars

\* The relay's invitation, which comes from a member.
LEMMA Invitation ==
    ASSUME Types, Invites
    PROVE  /\ Me \notin roster \cup invited /\ roster' = roster /\ roster \in SUBSET Everyone
           /\ invites' = invites + 1
           /\ \E x \in Others : /\ inbox' = Append(inbox, Frame("invite", x, roster, invites'))
                               /\ Frame("invite", x, roster, invites') \in Frames
BY DEF Types, RelayTypes, Invites, InviteMe, Frame, Frames, Everyone

\* The relay numbers its invitations, each above every answer given so far.
LEMMA RelayKeepsInvite ==
    ASSUME Types, InviteInv, Relay
    PROVE  InviteInv'
<1>1. /\ UNCHANGED <<invite, call, raced>>
      /\ invite.n \in Nat /\ invites \in Nat /\ \A c \in Callers : call[c].n \in Nat
  BY RelayCases DEF storeVars, Types, StoreTypes, CallTypes, Records, RelayTypes
<1>2. Numbered /\ Passed(invite.n) /\ \A c \in Callers : Answering(c) /\ Overtaken(c)
  BY DEF InviteInv, Answering, Overtaken
<1>3. ASSUME Numbered', \A n \in Nat : Passed(n) => Passed(n)',
             Me \in invited' => invites' > 0,
             \A c \in Callers : Overtaken(c)'
      PROVE  InviteInv'
  <2>1. \A c \in Callers : Answering(c)'
    BY <1>1, <1>2, <1>3 DEF Answering
  <2>2. Passed(invite.n)'
    BY <1>1, <1>2, <1>3
  <2>3. QED
    BY <1>3, <2>1, <2>2 DEF InviteInv, Answering, Overtaken
<1>4. CASE Invites
  <2>1. Numbered' /\ \A n \in Nat : Passed(n) => Passed(n)' /\ n < invites'
    BY <1>2, <1>4, Invitation, NumberedInvited
  <2>2. \A c \in Callers : call'[c].op = "accept" => call'[c].n < invites'
    BY <1>1, <1>2, <2>1 DEF Answering
  <2>3. \A c \in Callers : Overtaken(c)'
    BY <2>2 DEF Overtaken
  <2>4. invites' > 0
    BY <1>1, <1>4, Invitation
  <2>5. QED
    BY <1>3, <2>1, <2>3, <2>4
<1>5. CASE UNCHANGED <<inbox, invites>> /\ (Me \in invited' => Me \in invited)
  <2>1. Numbered' /\ \A n \in Nat : Passed(n) => Passed(n)'
    BY <1>2, <1>5 DEF Numbered, Passed
  <2>2. \A c \in Callers : Overtaken(c)'
    BY <1>1, <1>2, <1>5 DEF Overtaken, At
  <2>3. Me \in invited' => invites' > 0
    BY <1>5 DEF InviteInv
  <2>4. QED
    BY <1>3, <2>1, <2>2, <2>3
<1>6. ASSUME NEW f, Tells(f) PROVE InviteInv'
  <2>1. f \in Frames /\ f.kind # "invite" /\ invites' = invites /\ (Me \in invited' => Me \in invited)
        /\ (inbox' = inbox \/ inbox' = Append(inbox, f))
    BY <1>6 DEF Tells, Tell
  <2>2. CASE inbox' = inbox
    BY <1>5, <2>1, <2>2
  <2>3. CASE inbox' = Append(inbox, f)
    <3>1. Numbered' /\ \A n \in Nat : Passed(n) => Passed(n)'
      BY <1>2, <2>1, <2>3, NumberedTold
    <3>2. \A c \in Callers : Overtaken(c)'
      BY <1>1, <1>2, <2>1 DEF Overtaken, At
    <3>3. Me \in invited' => invites' > 0
      BY <2>1 DEF InviteInv
    <3>4. QED
      BY <1>3, <3>1, <3>2, <3>3
  <2>4. QED
    BY <2>1, <2>2, <2>3
<1>7. QED
  BY <1>4, <1>5, <1>6, RelayCases

\* Reading an invitation passes it.
LEMMA ReadKeepsInvite ==
    ASSUME Types, InviteInv, ReadFrame
    PROVE  InviteInv'
<1>1. /\ inbox # <<>> /\ inbox[1] \in Frames
      /\ StoreFrame(inbox[1]) \/ UNCHANGED <<local, invite>>
      /\ inbox' = Tail(inbox) \/ inbox' = inbox
      /\ UNCHANGED <<invites, invited, call, raced>>
  BY FrameRead
<1>2. /\ invite.n \in Nat /\ invites \in Nat /\ inbox[1].n \in Nat
      /\ \A c \in Callers : call[c].n \in Nat
  BY <1>1 DEF Types, StoreTypes, CallTypes, Records, RelayTypes, Frames
<1>3. Numbered /\ Passed(invite.n) /\ \A c \in Callers : Answering(c) /\ Overtaken(c)
  BY DEF InviteInv, Answering, Overtaken
<1>4. /\ Numbered'
      /\ \A n \in Nat : Passed(n) => Passed(n)'
      /\ \A n \in Nat : inbox[1].kind = "invite" /\ n = inbox[1].n => Passed(n)'
  BY <1>1, <1>3, NumberedRead
<1>5. \/ inbox[1].kind = "invite" /\ invite'.n = inbox[1].n
      \/ invite' = invite
  BY <1>1 DEF StoreFrame, SaveGroupInvite
<1>6. Passed(invite.n)'
  BY <1>2, <1>3, <1>4, <1>5
<1>7. \A c \in Callers : Answering(c)' /\ Overtaken(c)'
  BY <1>1, <1>2, <1>3, <1>4 DEF Answering, Overtaken, At
<1>8. (Me \in invited => invites > 0)'
  BY <1>1 DEF InviteInv
<1>9. QED
  BY <1>4, <1>6, <1>7, <1>8 DEF InviteInv, Answering, Overtaken

\* After a crash every caller is idle.
LEMMA CrashIdles ==
    ASSUME Types, Crash
    PROVE  /\ \A c \in Callers : call'[c] = Idle
           /\ UNCHANGED <<storeVars, relayVars, inbox, raced, declined, blockVars, calls, events>>
BY DEF Crash

\* Every step keeps the numbers of the invitations.
LEMMA InviteInvariant == Spec => []InviteInv
<1>1. Init => InviteInv
  BY IdleIsRecord DEF Init, InviteInv, Numbered, Passed, NoInvite
<1>2. Types /\ Types' /\ InviteInv /\ [Next]_vars => InviteInv'
  <2> SUFFICES ASSUME Types, Types', InviteInv, [Next]_vars PROVE InviteInv'
    OBVIOUS
  <2>1. ASSUME NEW c \in Callers, Operation(c) PROVE InviteInv'
    BY <2>1, OperationsKeepInvite
  <2>2. CASE Crash
    <3>1. UNCHANGED <<invite, invited, invites, inbox, raced>> /\ \A c \in Callers : call'[c].op = "none"
      BY <2>2, CrashIdles, IdleIsRecord DEF storeVars, relayVars
    <3>2. Numbered' = Numbered /\ \A n : Passed(n)' <=> Passed(n)
      BY <3>1 DEF Numbered, Passed
    <3>3. QED
      BY <3>1, <3>2 DEF InviteInv
  <2>3. CASE Relay
    BY <2>3, RelayKeepsInvite
  <2>4. CASE ReadFrame
    BY <2>4, ReadKeepsInvite
  <2>5. CASE UNCHANGED vars
    BY <2>5 DEF vars, storeVars, relayVars, InviteInv, Numbered, Passed, At
  <2>6. ASSUME NEW x \in Others, Block(x) PROVE InviteInv'
    BY <2>6, Blocking DEF InviteInv, Numbered, Passed, At
  <2>7. QED
    BY <2>1, <2>2, <2>3, <2>4, <2>5, <2>6 DEF Next
<1>3. QED
  BY <1>1, <1>2, TypesInvariant, PTL DEF Spec

-----------------------------------------------------------------------------
(* The news of members                                                      *)

\* Of a member who, in a frame the agent has yet to read, left, a later frame says that
\* it joined, or invites the agent.
News(x) ==
    \A i \in 1..Len(inbox) :
        Says(inbox, i, "left", x) => JoinedAfter(i, x) \/ \E j \in i+1..Len(inbox) : InviteAt(j)

NewsInv == Me \in roster \cup invited => \A x \in roster \ {Me} : News(x)

\* Frames appended, and frames read.
LEMMA NewsTold ==
    ASSUME Types, NEW f \in Frames, NEW x, invites' = invites, inbox' = Append(inbox, f),
           f.kind \in {"joined", "left"}
    PROVE  /\ News(x) /\ ~(f.kind = "left" /\ f.x = x) => News(x)'
           /\ \A i \in Nat : JoinedAfter(i, x) /\ ~(f.kind = "left" /\ f.x = x) => JoinedAfter(i, x)'
           /\ \A i \in 0..Len(inbox) : f.kind = "joined" /\ f.x = x => JoinedAfter(i, x)'
           /\ f.kind = "joined" /\ f.x = x => News(x)'
           /\ \A i \in 1..Len(inbox') : InviteAt(i)' => i \in 1..Len(inbox) /\ InviteAt(i) /\ inbox'[i] = inbox[i]
           /\ \A i \in 1..Len(inbox) : InviteAt(i) => i \in 1..Len(inbox') /\ InviteAt(i)'
<1>1. inbox \in Seq(Frames)
  BY DEF Types, RelayTypes
<1>2. /\ Len(inbox') = Len(inbox) + 1 /\ Len(inbox) \in Nat /\ inbox'[Len(inbox) + 1] = f
      /\ \A i \in 1..Len(inbox) : inbox'[i] = inbox[i]
  BY <1>1, FrameAppended
<1>3. \A i \in Nat : JoinedAfter(i, x) /\ ~(f.kind = "left" /\ f.x = x) => JoinedAfter(i, x)'
  BY <1>1, JoinedAppended DEF JoinedAfter
<1>4. \A i \in 0..Len(inbox) : f.kind = "joined" /\ f.x = x => JoinedAfter(i, x)'
  BY <1>1, <1>2, JoinedAppended DEF JoinedAfter
<1>5. \A i \in 1..Len(inbox) : InviteAt(i) => i \in 1..Len(inbox') /\ InviteAt(i)'
  BY <1>2 DEF InviteAt
<1>6. \A i \in 1..Len(inbox') : InviteAt(i)' => i \in 1..Len(inbox) /\ InviteAt(i) /\ inbox'[i] = inbox[i]
  BY <1>2 DEF InviteAt
<1>7. ASSUME News(x), ~(f.kind = "left" /\ f.x = x) PROVE News(x)'
  <2> SUFFICES ASSUME NEW i \in 1..Len(inbox'), Says(inbox', i, "left", x)
               PROVE  JoinedAfter(i, x)' \/ \E j \in i+1..Len(inbox') : InviteAt(j)'
    BY DEF News
  <2>1. i \in 1..Len(inbox) /\ Says(inbox, i, "left", x)
    BY <1>2, <1>7 DEF Says
  <2>2. CASE JoinedAfter(i, x)
    BY <1>3, <1>7, <2>1, <2>2
  <2>3. ASSUME NEW j \in i+1..Len(inbox), InviteAt(j) PROVE j \in i+1..Len(inbox') /\ InviteAt(j)'
    BY <1>2, <1>5, <2>1, <2>3
  <2>4. QED
    BY <1>7, <2>1, <2>2, <2>3 DEF News
<1>8. ASSUME f.kind = "joined", f.x = x PROVE News(x)'
  <2> SUFFICES ASSUME NEW i \in 1..Len(inbox'), Says(inbox', i, "left", x)
               PROVE  JoinedAfter(i, x)'
    BY DEF News
  <2>1. i \in 0..Len(inbox)
    BY <1>2, <1>8 DEF Says
  <2>2. QED
    BY <1>4, <1>8, <2>1
<1>9. QED
  BY <1>3, <1>4, <1>5, <1>6, <1>7, <1>8

\* An invitation is news of every member, and names those there are.
LEMMA NewsInvited ==
    ASSUME Types, Invites, NEW x
    PROVE  /\ News(x)'
           /\ \A i \in Nat : JoinedAfter(i, x) => JoinedAfter(i, x)'
           /\ \E i \in 1..Len(inbox') : InviteAt(i)'
           /\ Numbered => \A i \in 1..Len(inbox') : InviteAt(i)' => inbox'[i].who = roster
<1>0. PICK y \in Others : /\ inbox' = Append(inbox, Frame("invite", y, roster, invites'))
                         /\ Frame("invite", y, roster, invites') \in Frames
  BY Invitation
<1> DEFINE f == Frame("invite", y, roster, invites')
<1>1. /\ inbox \in Seq(Frames) /\ f \in Frames /\ inbox' = Append(inbox, f)
      /\ f.kind = "invite" /\ f.n = invites' /\ f.who = roster
  BY <1>0 DEF Types, RelayTypes, Frame
<1> HIDE DEF f
<1>2. /\ Len(inbox') = Len(inbox) + 1 /\ Len(inbox) \in Nat /\ inbox'[Len(inbox) + 1] = f
      /\ \A i \in 1..Len(inbox) : inbox'[i] = inbox[i]
  BY <1>1, FrameAppended
<1>3. \A i \in Nat : JoinedAfter(i, x) => JoinedAfter(i, x)'
  BY <1>1, JoinedAppended DEF JoinedAfter
<1>4. \E i \in 1..Len(inbox') : InviteAt(i)'
  BY <1>1, <1>2 DEF InviteAt
<1>5. ASSUME NEW i \in 1..Len(inbox'), Says(inbox', i, "left", x)
      PROVE  \E j \in i+1..Len(inbox') : InviteAt(j)'
  <2>1. Len(inbox') \in i+1..Len(inbox')
    BY <1>1, <1>2, <1>5 DEF Says
  <2>2. inbox'[Len(inbox')].kind = "invite" /\ inbox'[Len(inbox')].n = invites'
    BY <1>1, <1>2
  <2>3. QED
    BY <2>1, <2>2 DEF InviteAt
<1>6. ASSUME Numbered, NEW i \in 1..Len(inbox'), InviteAt(i)' PROVE inbox'[i].who = roster
  <2>1. invites \in Nat /\ invites' = invites + 1
    BY Invitation DEF Types, RelayTypes
  <2>2. i \notin 1..Len(inbox)
    <3>1. ASSUME i \in 1..Len(inbox) PROVE FALSE
      <4>1. inbox[i].kind = "invite" /\ inbox[i].n = invites + 1
        BY <1>2, <1>6, <2>1, <3>1 DEF InviteAt
      <4>2. QED
        BY <1>6, <2>1, <3>1, <4>1 DEF Numbered
    <3>2. QED
      BY <3>1
  <2>3. QED
    BY <1>1, <1>2, <2>2
<1>7. QED
  BY <1>3, <1>4, <1>5, <1>6 DEF News

\* Reading keeps the news of frames to come; what is lost is what the head said.
LEMMA NewsRead ==
    ASSUME Types, NEW x, inbox # <<>>, inbox' = Tail(inbox) \/ inbox' = inbox, invites' = invites
    PROVE  /\ News(x) => News(x)'
           /\ JoinedAfter(1, x) => JoinedAfter(0, x)'
           /\ JoinedAfter(0, x) => JoinedAfter(0, x)' \/ Says(inbox, 1, "joined", x)
<1>1. inbox \in Seq(Frames)
  BY DEF Types, RelayTypes
<1>2. CASE inbox' = inbox
  <2>1. JoinedAfter(1, x) => JoinedAfter(0, x)
    BY <1>1, JoinedEarlier DEF JoinedAfter
  <2>2. QED
    BY <1>2, <2>1 DEF News, JoinedAfter, InviteAt
<1>3. CASE inbox' = Tail(inbox)
  <2>1. /\ Len(inbox') = Len(inbox) - 1 /\ Len(inbox) \in Nat \ {0}
        /\ \A i \in 1..Len(inbox') : inbox'[i] = inbox[i + 1]
    BY <1>1, <1>3, FrameTaken
  <2>2. \A i \in Nat : JoinedAfter(i + 1, x) => JoinedAfter(i, x)'
    BY <1>1, <1>3, JoinedTaken DEF JoinedAfter
  <2>3. JoinedAfter(0, x) => JoinedAfter(0, x)' \/ Says(inbox, 1, "joined", x)
    BY <1>1, <1>3, JoinedTaken DEF JoinedAfter
  <2>4. ASSUME News(x), NEW i \in 1..Len(inbox'), Says(inbox', i, "left", x)
        PROVE  JoinedAfter(i, x)' \/ \E j \in i+1..Len(inbox') : InviteAt(j)'
    <3>1. i + 1 \in 1..Len(inbox) /\ Says(inbox, i + 1, "left", x)
      BY <2>1, <2>4 DEF Says
    <3>2. CASE JoinedAfter(i + 1, x)
      BY <2>2, <3>2
    <3>3. ASSUME NEW j \in (i + 1)+1..Len(inbox), InviteAt(j)
          PROVE  j - 1 \in i+1..Len(inbox') /\ InviteAt(j - 1)'
      BY <2>1, <3>1, <3>3 DEF InviteAt
    <3>4. QED
      BY <2>4, <3>1, <3>2, <3>3 DEF News
  <2>5. JoinedAfter(1, x) => JoinedAfter(0, x)'
    <3>1. JoinedAfter(0 + 1, x) => JoinedAfter(0, x)'
      BY <2>2
    <3>2. QED
      BY <3>1
  <2>6. QED
    BY <2>3, <2>4, <2>5 DEF News
<1>4. QED
  BY <1>2, <1>3

\* Only a granted request changes the membership, and it lets in nobody but the agent.
LEMMA OperationsLetIn ==
    ASSUME Types, NEW c \in Callers, NEW r,
           \/ Quiet(c, r) \/ Grants(c, r) \/ DeleteInvite(c)
           \/ RemoveKicked(c) \/ DeleteGroup(c) \/ SaveSent(c)
    PROVE  /\ roster' \ {Me} \subseteq roster
           /\ Me \in roster' \cup invited' => Me \in roster \cup invited \/ roster' = {Me}
<1>1. CASE Quiet(c, r)
  BY <1>1 DEF Quiet, relayVars
<1>2. CASE Grants(c, r)
  BY <1>2, GrantEffects DEF Grants
<1>3. CASE DeleteInvite(c)
  BY <1>3 DEF DeleteInvite, relayVars
<1>4. CASE RemoveKicked(c)
  BY <1>4 DEF RemoveKicked, relayVars
<1>5. CASE DeleteGroup(c)
  BY <1>5 DEF DeleteGroup, relayVars
<1>6. CASE SaveSent(c)
  BY <1>6 DEF SaveSent, relayVars
<1>7. QED
  BY <1>1, <1>2, <1>3, <1>4, <1>5, <1>6

\* Every step keeps the news of members.
LEMMA NewsInvariant == Spec => []NewsInv
<1>1. Init => NewsInv
  BY DEF Init, NewsInv, News
<1>2. Types /\ NewsInv /\ [Next]_vars => NewsInv'
  <2> SUFFICES ASSUME Types, NewsInv, [Next]_vars,
                      Me \in roster' \cup invited', NEW x \in roster' \ {Me}
               PROVE  News(x)'
    BY DEF NewsInv
  <2>1. ASSUME NEW c \in Callers, Operation(c) PROVE News(x)'
    <3>1. PICK r : \/ Quiet(c, r) \/ Grants(c, r) \/ DeleteInvite(c)
                   \/ RemoveKicked(c) \/ DeleteGroup(c) \/ SaveSent(c)
      BY <2>1, OperationCases
    <3>2. UNCHANGED <<invites, inbox>>
      BY <3>1, OperationsKeepNumbers
    <3>3. Me \in roster \cup invited /\ x \in roster \ {Me}
      BY <3>1, OperationsLetIn
    <3>4. QED
      BY <3>2, <3>3 DEF NewsInv, News, Says, JoinedAfter, JoinedIn, InviteAt
  <2>2. ASSUME UNCHANGED <<roster, invited, invites, inbox>> PROVE News(x)'
    BY <2>2 DEF NewsInv, News, Says, JoinedAfter, JoinedIn, InviteAt
  <2>3. CASE Crash
    BY <2>2, <2>3, CrashIdles DEF relayVars
  <2>4. CASE ReadFrame
    <3>1. UNCHANGED <<roster, invited, invites>> /\ inbox # <<>>
          /\ (inbox' = Tail(inbox) \/ inbox' = inbox)
      BY <2>4, FrameRead
    <3>2. News(x) => News(x)'
      BY <3>1, NewsRead
    <3>3. QED
      BY <3>1, <3>2 DEF NewsInv
  <2>5. CASE Relay
    <3>1. CASE Invites
      BY <3>1, NewsInvited
    <3>2. CASE UNCHANGED <<roster, inbox, invites>> /\ (Me \in invited' <=> Me \in invited)
      BY <3>2 DEF NewsInv, News, Says, JoinedAfter, JoinedIn, InviteAt
    <3>3. ASSUME NEW f, Tells(f) PROVE News(x)'
      <4>1. /\ f \in Frames /\ f.kind \in {"joined", "left"} /\ invites' = invites
            /\ Me \in roster \cup invited
            /\ inbox' = Append(inbox, f)
        BY <3>3 DEF Tells, Tell
      <4>2. \/ x \in roster \ {Me} /\ ~(f.kind = "left" /\ f.x = x)
            \/ f.kind = "joined" /\ f.x = x
        BY <3>3 DEF Tells
      <4>3. QED
        BY <4>1, <4>2, NewsTold DEF NewsInv
    <3>4. QED
      BY <2>5, <3>1, <3>2, <3>3, RelayCases
  <2>6. CASE UNCHANGED vars
    BY <2>2, <2>6 DEF vars, relayVars
  <2>7. ASSUME NEW y \in Others, Block(y) PROVE News(x)'
    BY <2>2, <2>7, Blocking
  <2>8. QED
    BY <2>1, <2>3, <2>4, <2>5, <2>6, <2>7 DEF Next
<1>3. QED
  BY <1>1, <1>2, TypesInvariant, PTL DEF Spec

-----------------------------------------------------------------------------
(* The creation of the group                                                *)

Creating(c) == call[c].op = "create" /\ call[c].step \in {"group", "members", "request"}
Deleting(c) == call[c].op = "leave" /\ call[c].step \in {"store", "row"}

\* Nothing has happened at the relay.
Untouched == roster = {} /\ invited = {} /\ inbox = <<>> /\ invites = 0

\* The group is created once, by the first call there is; until the relay grants it
\* there is nothing there, and nobody who deletes the row.
CreateInv ==
    /\ calls = 0 => \A c \in Callers : call[c] = Idle
    /\ calls = 0 /\ events = 0 => invited = {} /\ inbox = <<>> /\ invites = 0
    /\ \A c, d \in Callers : call[c].op = "create" /\ call[d].op = "create" => c = d
    /\ \A c \in Callers : Creating(c) =>
         /\ Untouched /\ (call[c].step # "group" => row)
         /\ \A d \in Callers : ~Deleting(d)

\* The operations keep CreateInv: only the first call can create the group.
LEMMA OperationsKeepCreate ==
    ASSUME Types, Types', CreateInv, NEW c \in Callers, Operation(c)
    PROVE  CreateInv'
<1>1. PICK r : /\ Becomes(c, r)
               /\ \/ Quiet(c, r) \/ Grants(c, r)
                  \/ (DeleteInvite(c) /\ r = Idle) \/ (RemoveKicked(c) /\ r = Idle)
                  \/ DeleteGroup(c) /\ (r = Idle \/ (r.op = "leave" /\ r.step = "row"))
                  \/ SaveSent(c) /\ r = Idle
  BY OperationCases
<1>2. /\ calls \in Nat /\ events \in Nat /\ Idle.op = "none" /\ Idle.step = "none"
      /\ UNCHANGED <<invites, inbox>>
  BY <1>1, IdleIsRecord, OperationsKeepNumbers DEF Types, RelayTypes
<1>3. \/ calls' = calls /\ call[c] # Idle
      \/ calls' = calls + 1 /\ call[c] = Idle
  <2>1. CASE Quiet(c, r)
    BY <1>2, <2>1 DEF Quiet, Proceeds, Starts
  <2>2. CASE Grants(c, r)
    BY <1>2, <2>2 DEF Grants, At
  <2>3. CASE DeleteInvite(c) \/ RemoveKicked(c) \/ DeleteGroup(c) \/ SaveSent(c)
    BY <1>2, <2>3 DEF DeleteInvite, RemoveKicked, DeleteGroup, SaveSent, counters
  <2>4. QED
    BY <1>1, <2>1, <2>2, <2>3
<1>4. calls' # 0
  BY <1>2, <1>3 DEF CreateInv
<1>5. r.op = "create" =>
        \/ /\ call[c].op = "create" /\ Proceeds(c, r) /\ Quiet(c, r)
        \/ /\ Quiet(c, r) /\ r.step = "group" /\ Untouched /\ \A d \in Callers : call[d] = Idle
  <2>1. CASE Quiet(c, r) /\ Starts(c, r)
    BY <2>1 DEF Starts, CreateInv, Untouched
  <2>2. QED
    BY <1>1, <1>2, <2>1 DEF Quiet, Proceeds, Grants
<1>6. \A d, e \in Callers : call'[d].op = "create" /\ call'[e].op = "create" => d = e
  BY <1>1, <1>2, <1>5 DEF CreateInv, Becomes
<1>7. ~Deleting(c) => ~Deleting(c)' \/ Grants(c, r)
  BY <1>1, <1>2 DEF Deleting, Becomes, Quiet, Starts, Proceeds, DeleteGroup, At
<1>8. ASSUME Creating(c)'
      PROVE  /\ Untouched' /\ (r.step # "group" => row')
             /\ \A d \in Callers : ~Deleting(d)'
  <2>1. r.op = "create" /\ r.step \in {"group", "members", "request"} /\ call'[c] = r
    BY <1>1, <1>8 DEF Creating, Becomes
  <2>2. Quiet(c, r) /\ Untouched /\ (r.step # "group" => row') /\ \A d \in Callers : ~Deleting(d)
    <3>1. CASE call[c].op = "create" /\ Proceeds(c, r) /\ Quiet(c, r)
      BY <2>1, <3>1 DEF Proceeds, Quiet, CreateInv, Creating
    <3>2. CASE Quiet(c, r) /\ r.step = "group" /\ Untouched /\ \A d \in Callers : call[d] = Idle
      BY <1>2, <3>2 DEF Deleting
    <3>3. QED
      BY <1>5, <2>1, <3>1, <3>2
  <2>3. QED
    BY <1>1, <2>1, <2>2 DEF Quiet, relayVars, Untouched, Deleting, Becomes
<1>9. ASSUME NEW d \in Callers, d # c, Creating(d)'
      PROVE  /\ Untouched' /\ (call'[d].step # "group" => row')
             /\ \A e \in Callers : ~Deleting(e)'
  <2>1. /\ Creating(d) /\ Untouched /\ (call'[d].step # "group" => row)
        /\ (\A e \in Callers : ~Deleting(e)) /\ call[c].op # "create"
    BY <1>1, <1>9 DEF Creating, CreateInv, Becomes
  <2>2. ~Grants(c, r) /\ ~DeleteGroup(c)
    BY <2>1 DEF Grants, Granted, Untouched, DeleteGroup, Deleting, At
  <2>3. Untouched' /\ (row => row')
    BY <1>1, <2>1, <2>2
       DEF Quiet, DeleteInvite, RemoveKicked, SaveSent, relayVars, Untouched
  <2>4. \A e \in Callers : ~Deleting(e)'
    BY <1>1, <1>7, <2>1, <2>2 DEF Deleting, Becomes
  <2>5. QED
    BY <2>1, <2>3, <2>4
<1>10. \A d \in Callers : Creating(d)' =>
         /\ Untouched' /\ (call'[d].step # "group" => row')
         /\ \A e \in Callers : ~Deleting(e)'
  BY <1>1, <1>8, <1>9 DEF Becomes
<1>11. QED
  BY <1>4, <1>6, <1>10 DEF CreateInv

\* Once somebody is in the group, or a frame is on its way, nobody is about to create it.
LEMMA CreateInvariant == Spec => []CreateInv
<1>1. Init => CreateInv
  BY IdleIsRecord DEF Init, CreateInv, Creating
<1>2. Types /\ Types' /\ CreateInv /\ [Next]_vars => CreateInv'
  <2> SUFFICES ASSUME Types, Types', CreateInv, [Next]_vars PROVE CreateInv'
    OBVIOUS
  <2>1. ASSUME NEW c \in Callers, Operation(c) PROVE CreateInv'
    BY <2>1, OperationsKeepCreate
  <2>2. CASE Crash
    BY <2>2, CrashIdles, IdleIsRecord DEF CreateInv, Creating, relayVars
  <2>3. ASSUME Relay PROVE CreateInv'
    <3>1. /\ roster # {} /\ events' = events + 1 /\ events \in Nat
          /\ UNCHANGED <<storeVars, call, calls>>
      BY <2>3, RelaySteps DEF Types, RelayTypes
    <3>2. \A c \in Callers : ~Creating(c)
      BY <3>1 DEF CreateInv, Untouched
    <3>3. events' # 0
      BY <3>1
    <3>4. \A c \in Callers : ~Creating(c)'
      BY <3>1, <3>2 DEF Creating
    <3>5. QED
      BY <3>1, <3>3, <3>4 DEF CreateInv
  <2>4. CASE ReadFrame
    <3>1. inbox # <<>> /\ UNCHANGED <<row, roster, invited, invites, call, calls, events>>
      BY <2>4, FrameRead
    <3>2. \A c \in Callers : ~Creating(c)
      BY <3>1 DEF CreateInv, Untouched
    <3>3. \A c \in Callers : ~Creating(c)'
      BY <3>1, <3>2 DEF Creating
    <3>4. QED
      BY <3>1, <3>3 DEF CreateInv
  <2>5. CASE UNCHANGED vars
    BY <2>5 DEF vars, storeVars, relayVars, counters, CreateInv, Creating, Deleting, Untouched
  <2>6. ASSUME NEW x \in Others, Block(x) PROVE CreateInv'
    <3>1. calls' # 0
      BY <2>6, Blocking DEF Types, RelayTypes
    <3>2. UNCHANGED <<row, roster, invited, invites, inbox, call>>
      BY <2>6, Blocking
    <3>3. QED
      BY <3>1, <3>2 DEF CreateInv, Creating, Deleting, Untouched
  <2>7. QED
    BY <2>1, <2>2, <2>3, <2>4, <2>5, <2>6 DEF Next
<1>3. QED
  BY <1>1, <1>2, TypesInvariant, PTL DEF Spec

-----------------------------------------------------------------------------
(* The members the agent knows                                              *)

\* It has a row, the news is on its way, or was dropped.
Known(x) == x \in local \/ JoinedAfter(0, x) \/ x \in missed

Accepting(c) ==
    /\ call[c].op = "accept" /\ call[c].step \in {"group", "members", "request"}
    /\ call[c].n = invites

\* Of the members, the agent's last invitation names those who do not join later, while
\* it is in the inbox, ...
NamedInFrames ==
    \A i \in 1..Len(inbox) : InviteAt(i) =>
        \A x \in roster \ {Me} : x \in inbox[i].who \/ JoinedAfter(i, x)

\* ... while it is pending, ...
NamedInInvite ==
    invite.n = invites => \A x \in roster \ {Me} : x \in invite.who \/ Known(x)

\* ... and while it is being accepted, until all have a row.
NamedInCall(c) ==
    Accepting(c) =>
        /\ \A x \in roster \ {Me} : x \in call[c].who \/ Known(x)
        /\ call[c].step # "group" => row
        /\ call[c].step = "request" => call[c].who = {}

InvitedInv ==
    Me \in invited =>
        /\ NamedInFrames
        /\ ~raced => NamedInInvite /\ \A c \in Callers : NamedInCall(c)

\* A member has a row of every other one, or is about to.
MemberInv ==
    ~raced /\ Me \in roster =>
        row /\ Passed(invites) /\ \A x \in roster \ {Me} : Known(x)

\* Nothing an operation deletes is a member's, or it counts as a race.
LEMMA OperationsKeepRow ==
    ASSUME Types, NEW c \in Callers, NEW r,
           \/ Quiet(c, r) \/ Grants(c, r) \/ DeleteInvite(c)
           \/ RemoveKicked(c) \/ DeleteGroup(c) \/ SaveSent(c),
           ~raced', Me \in roster \cup invited
    PROVE  (row => row') /\ \A x \in roster : x \in local => x \in local'
<1>1. CASE Quiet(c, r)
  BY <1>1 DEF Quiet
<1>2. CASE Grants(c, r)
  BY <1>2 DEF Grants, storeVars
<1>3. CASE DeleteInvite(c)
  BY <1>3 DEF DeleteInvite
<1>4. CASE RemoveKicked(c)
  BY <1>4 DEF RemoveKicked
<1>5. CASE DeleteGroup(c)
  BY <1>5 DEF DeleteGroup
<1>6. CASE SaveSent(c)
  BY <1>6 DEF SaveSent
<1>7. QED
  BY <1>1, <1>2, <1>3, <1>4, <1>5, <1>6

\* A member that is known stays known, whatever operation takes a step.
LEMMA OperationsKeepKnown ==
    ASSUME Types, NEW c \in Callers, NEW r, NEW x \in roster,
           \/ Quiet(c, r) \/ Grants(c, r) \/ DeleteInvite(c)
           \/ RemoveKicked(c) \/ DeleteGroup(c) \/ SaveSent(c),
           ~raced', Me \in roster \cup invited
    PROVE  Known(x) => Known(x)'
<1>1. (JoinedAfter(0, x)' <=> JoinedAfter(0, x)) /\ missed' = missed
  BY OperationsKeepNumbers
<1>2. QED
  BY <1>1, OperationsKeepRow DEF Known

\* What the relay tells keeps the members known.
LEMMA TellingKeepsKnown ==
    ASSUME Types, NEW f, Tells(f), Me \in roster \cup invited, NEW x \in roster' \ {Me}
    PROVE  /\ f \in Frames /\ f.kind \in {"joined", "left"} /\ invites' = invites
           /\ inbox' = Append(inbox, f)
           /\ \/ /\ x \in roster \ {Me} /\ ~(f.kind = "left" /\ f.x = x)
                 /\ \A i \in Nat : JoinedAfter(i, x) => JoinedAfter(i, x)'
              \/ \A i \in 0..Len(inbox) : JoinedAfter(i, x)'
<1>1. /\ f \in Frames /\ f.kind \in {"joined", "left"} /\ invites' = invites
      /\ inbox' = Append(inbox, f)
  BY DEF Tells, Tell
<1>2. \/ x \in roster \ {Me} /\ ~(f.kind = "left" /\ f.x = x)
      \/ f.kind = "joined" /\ f.x = x
  BY DEF Tells
<1>3. /\ \A i \in Nat : JoinedAfter(i, x) /\ ~(f.kind = "left" /\ f.x = x) => JoinedAfter(i, x)'
      /\ \A i \in 0..Len(inbox) : f.kind = "joined" /\ f.x = x => JoinedAfter(i, x)'
  BY <1>1, NewsTold
<1>4. QED
  BY <1>1, <1>2, <1>3

\* Once the last invitation is read, it is not in the inbox but for its head.
LEMMA NoneLater ==
    ASSUME Types, Passed(invites), NEW i \in 1..Len(inbox), i > 1
    PROVE  ~InviteAt(i)
BY DEF Passed, InviteAt, Types, RelayTypes

\* A frame that is read keeps the members known once the last invitation is read.
LEMMA ReadingKeepsKnown ==
    ASSUME Types, ReadFrame, Passed(invites), NEW x, News(x), Known(x)
    PROVE  Known(x)'
<1>1. /\ inbox # <<>> /\ inbox[1] \in Frames /\ HandleInbound(inbox[1]) /\ invites' = invites
      /\ inbox' = Tail(inbox) \/ inbox' = inbox
  BY FrameRead
<1>2. /\ JoinedAfter(1, x) => JoinedAfter(0, x)'
      /\ JoinedAfter(0, x) => JoinedAfter(0, x)' \/ Says(inbox, 1, "joined", x)
  BY <1>1, NewsRead
<1>3. CASE Says(inbox, 1, "left", x)
  <2>1. 1 \in 1..Len(inbox) /\ Len(inbox) \in Nat
    BY <1>1, FrameTaken DEF Types, RelayTypes
  <2>2. \A j \in 1+1..Len(inbox) : ~InviteAt(j)
    BY <2>1, NoneLater
  <2>3. JoinedAfter(1, x)
    BY <1>3, <2>1, <2>2 DEF News
  <2>4. QED
    BY <1>2, <2>3 DEF Known
<1>4. CASE Says(inbox, 1, "joined", x)
  <2>1. \/ StoreFrame(inbox[1])
        \/ UNCHANGED <<local, invite>> /\ x \in missed'
    BY <1>1, <1>4, FrameHandled DEF Says
  <2>2. StoreFrame(inbox[1]) => x \in local'
    BY <1>4 DEF StoreFrame, Says
  <2>3. QED
    BY <2>1, <2>2 DEF Known
<1>5. CASE ~Says(inbox, 1, "left", x) /\ ~Says(inbox, 1, "joined", x)
  <2>1. StoreFrame(inbox[1]) \/ UNCHANGED <<local, invite>>
    BY <1>1, FrameHandled
  <2>2. x \in local => x \in local'
    BY <1>5, <2>1 DEF StoreFrame, SaveGroupInvite, Says
  <2>3. inbox[1].kind = "invite" \/ inbox[1].x # x
    BY <1>1, <1>5 DEF Says, Frames
  <2>4. x \in missed => x \in missed'
    BY <1>1, <2>3, FrameHandled
  <2>5. QED
    BY <1>2, <1>5, <2>2, <2>4 DEF Known
<1>6. QED
  BY <1>3, <1>4, <1>5

\* The frames that stay in the inbox, each with what follows it.
LEMMA FramesStay ==
    ASSUME Types, inbox # <<>>, inbox' = Tail(inbox) \/ inbox' = inbox, invites' = invites,
           NEW i \in 1..Len(inbox'), InviteAt(i)'
    PROVE  \E k \in 1..Len(inbox) :
              /\ InviteAt(k) /\ inbox'[i] = inbox[k]
              /\ \A x : JoinedAfter(k, x) => JoinedAfter(i, x)'
<1>1. inbox \in Seq(Frames)
  BY DEF Types, RelayTypes
<1>2. CASE inbox' = inbox
  BY <1>2 DEF InviteAt, JoinedAfter
<1>3. CASE inbox' = Tail(inbox)
  <2>1. i + 1 \in 1..Len(inbox) /\ inbox'[i] = inbox[i + 1] /\ i \in Nat
    BY <1>1, <1>3, FrameTaken
  <2>2. InviteAt(i + 1)
    BY <2>1 DEF InviteAt
  <2>3. \A x : JoinedAfter(i + 1, x) => JoinedAfter(i, x)'
    BY <1>1, <1>3, <2>1, JoinedTaken DEF JoinedAfter
  <2>4. QED
    BY <2>1, <2>2, <2>3
<1>4. QED
  BY <1>2, <1>3

\* The operations keep InvitedInv: a name leaves the call's list for the member rows.
LEMMA OperationsKeepInvited ==
    ASSUME Types, Types', InviteInv, InvitedInv, NEW c \in Callers, Operation(c)
    PROVE  InvitedInv'
<1> SUFFICES ASSUME Me \in invited'
             PROVE  /\ NamedInFrames'
                    /\ ~raced' => NamedInInvite' /\ \A d \in Callers : NamedInCall(d)'
  BY DEF InvitedInv
<1>1. PICK r : /\ Becomes(c, r)
               /\ \/ Quiet(c, r) \/ Grants(c, r)
                  \/ (DeleteInvite(c) /\ r = Idle) \/ (RemoveKicked(c) /\ r = Idle)
                  \/ DeleteGroup(c) /\ (r = Idle \/ (r.op = "leave" /\ r.step = "row"))
                  \/ SaveSent(c) /\ r = Idle
  BY OperationCases
<1>2. /\ UNCHANGED <<invites, inbox>> /\ (raced => raced') /\ Me \in invited
      /\ roster' \ {Me} \subseteq roster
      /\ invite' = invite \/ invite'.n = 0
      /\ \A i, x : JoinedAfter(i, x)' <=> JoinedAfter(i, x)
      /\ \A i : InviteAt(i)' <=> InviteAt(i)
  BY <1>1, OperationsKeepNumbers, OperationsLetIn
<1>3. NamedInFrames'
  <2>1. NamedInFrames
    BY <1>2 DEF InvitedInv
  <2>2. QED
    BY <1>2, <2>1 DEF NamedInFrames
<1>4. ASSUME ~raced' PROVE NamedInInvite' /\ \A d \in Callers : NamedInCall(d)'
  <2>1. ~raced /\ NamedInInvite /\ \A d \in Callers : NamedInCall(d)
    BY <1>2, <1>4 DEF InvitedInv
  <2>2. \A x \in roster' \ {Me} : x \in roster \ {Me} /\ (Known(x) => Known(x)')
    BY <1>1, <1>2, <1>4, OperationsKeepKnown
  <2>3. row => row'
    BY <1>1, <1>2, <1>4, OperationsKeepRow
  <2>4. NamedInInvite'
    <3>1. CASE invite' = invite
      BY <1>2, <2>1, <2>2, <3>1 DEF NamedInInvite
    <3>2. CASE invite'.n = 0
      <4>1. invites' # 0
        BY <1>2 DEF InviteInv
      <4>2. QED
        BY <3>2, <4>1 DEF NamedInInvite
    <3>3. QED
      BY <1>2, <3>1, <3>2
  <2>5. ASSUME NEW d \in Callers, d # c PROVE NamedInCall(d)'
    <3>1. call'[d] = call[d]
      BY <1>1, <2>5 DEF Becomes
    <3>2. QED
      BY <1>2, <2>1, <2>2, <2>3, <3>1 DEF NamedInCall, Accepting
  <2>6. ASSUME Accepting(c)'
        PROVE  /\ \A x \in roster' \ {Me} : x \in r.who \/ Known(x)'
               /\ r.step # "group" => row'
               /\ r.step = "request" => r.who = {}
    <3>1. /\ r.op = "accept" /\ r.step \in {"group", "members", "request"} /\ r.n = invites
          /\ Quiet(c, r)
      BY <1>1, <1>2, <2>6, IdleIsRecord DEF Accepting, Becomes, Grants
    <3>2. CASE Starts(c, r)
      BY <2>1, <2>2, <3>1, <3>2 DEF Starts, NamedInInvite
    <3>3. CASE Proceeds(c, r)
      <4>1. call[c].op = "accept" /\ call[c].n = invites
            /\ call[c].step \in {"group", "members"}
        BY <3>1, <3>3 DEF Proceeds
      <4>2. \A x \in roster' \ {Me} : x \in call[c].who \/ Known(x)
        BY <2>1, <2>2, <4>1 DEF NamedInCall, Accepting
      <4>3. call[c].step # "group" => row'
        BY <2>1, <2>3, <4>1 DEF NamedInCall, Accepting
      <4>4. call[c].who \subseteq r.who \cup local'
        BY <3>1, <3>3 DEF Proceeds
      <4>5. \A x \in roster' \ {Me} : x \in r.who \/ Known(x)'
        BY <2>2, <4>2, <4>4 DEF Known
      <4>6. QED
        BY <3>1, <3>3, <4>3, <4>5 DEF Proceeds
    <3>4. QED
      BY <3>1, <3>2, <3>3, IdleIsRecord DEF Quiet
  <2>7. NamedInCall(c)'
    BY <1>1, <2>6 DEF NamedInCall, Becomes
  <2>8. QED
    BY <2>4, <2>5, <2>7
<1>5. QED
  BY <1>3, <1>4

\* The operations keep MemberInv: the agent becomes a member by a create or an accept,
\* each of which has stored the row and the members before its request.
LEMMA OperationsKeepMember ==
    ASSUME Types, Types', InviteInv, CreateInv, InvitedInv, MemberInv, NEW c \in Callers, Operation(c)
    PROVE  MemberInv'
<1> SUFFICES ASSUME ~raced', Me \in roster'
             PROVE  row' /\ Passed(invites)' /\ \A x \in roster' \ {Me} : Known(x)'
  BY DEF MemberInv
<1>1. PICK r : /\ Becomes(c, r)
               /\ \/ Quiet(c, r) \/ Grants(c, r)
                  \/ (DeleteInvite(c) /\ r = Idle) \/ (RemoveKicked(c) /\ r = Idle)
                  \/ DeleteGroup(c) /\ (r = Idle \/ (r.op = "leave" /\ r.step = "row"))
                  \/ SaveSent(c) /\ r = Idle
  BY OperationCases
<1>2. /\ UNCHANGED <<invites, inbox, missed>> /\ (raced => raced')
      /\ roster' \ {Me} \subseteq roster
      /\ \A n : Passed(n)' <=> Passed(n)
  BY <1>1, OperationsKeepNumbers, OperationsLetIn
<1>3. Passed(invites)' <=> Passed(invites)
  BY <1>2 DEF Passed
<1>4. CASE Me \in roster
  <2>1. row /\ Passed(invites) /\ \A x \in roster \ {Me} : Known(x)
    BY <1>2, <1>4 DEF MemberInv
  <2>2. \A x \in roster' \ {Me} : Known(x)'
    BY <1>1, <1>2, <1>4, <2>1, OperationsKeepKnown
  <2>3. row'
    BY <1>1, <1>4, <2>1, OperationsKeepRow
  <2>4. QED
    BY <1>3, <2>1, <2>2, <2>3
<1>5. CASE Me \notin roster
  <2>1. Grants(c, r)
    BY <1>1, <1>5 DEF Quiet, DeleteInvite, RemoveKicked, DeleteGroup, SaveSent, relayVars
  <2>2. UNCHANGED <<row, local>> /\ At(c, "request")
    BY <2>1 DEF Grants, storeVars
  <2>3. \/ call[c].op = "create" /\ roster' = {Me}
        \/ call[c].op = "accept" /\ Me \in invited /\ raced' = (raced \/ call[c].n # invites)
    BY <1>5, <2>1, GrantEffects DEF Grants
  <2>4. CASE call[c].op = "create" /\ roster' = {Me}
    <3>1. row /\ inbox = <<>>
      BY <2>2, <2>4 DEF CreateInv, Creating, Untouched, At
    <3>2. Passed(invites)
      BY <3>1 DEF Passed, Types, RelayTypes
    <3>3. QED
      BY <1>3, <2>2, <2>4, <3>1, <3>2
  <2>5. CASE call[c].op = "accept" /\ Me \in invited /\ raced' = (raced \/ call[c].n # invites)
    <3>1. call[c].n = invites /\ ~raced
      BY <1>2, <2>5
    <3>2. Accepting(c)
      BY <2>2, <2>5, <3>1 DEF Accepting, At
    <3>3. /\ \A x \in roster \ {Me} : x \in call[c].who \/ Known(x)
          /\ row /\ call[c].who = {}
      BY <2>2, <2>5, <3>1, <3>2 DEF InvitedInv, NamedInCall, At
    <3>4. Passed(invites)
      BY <2>5, <3>1 DEF InviteInv
    <3>5. \A x \in roster' \ {Me} : Known(x)'
      BY <1>2, <2>2, <3>3 DEF Known, JoinedAfter
    <3>6. QED
      BY <1>3, <2>2, <3>3, <3>4, <3>5
  <2>6. QED
    BY <2>3, <2>4, <2>5
<1>6. QED
  BY <1>4, <1>5

\* The relay's steps keep InvitedInv: who joins is told of, who is invited with the agent
\* is named.
LEMMA RelayKeepsInvited ==
    ASSUME Types, InviteInv, InvitedInv, Relay
    PROVE  InvitedInv'
<1> SUFFICES ASSUME Me \in invited'
             PROVE  /\ NamedInFrames'
                    /\ ~raced' => NamedInInvite' /\ \A c \in Callers : NamedInCall(c)'
  BY DEF InvitedInv
<1>1. /\ UNCHANGED <<row, local, invite, call, raced, missed>> /\ invites \in Nat
      /\ Numbered /\ Passed(invite.n)
      /\ \A c \in Callers : Answering(c)
      /\ invite.n \in Nat /\ \A c \in Callers : call[c].n \in Nat
      /\ inbox \in Seq(Frames)
  BY RelayCases DEF storeVars, Types, RelayTypes, StoreTypes, CallTypes, Records, InviteInv, Answering
<1>2. CASE Invites
  <2>1. roster' = roster /\ invites' = invites + 1
    BY <1>2, Invitation
  <2>2. NamedInFrames'
    BY <1>1, <1>2, <2>1, NewsInvited DEF NamedInFrames
  <2>3. NamedInInvite'
    <3>1. invite'.n # invites'
      BY <1>1, <2>1 DEF Passed
    <3>2. QED
      BY <3>1 DEF NamedInInvite
  <2>4. ASSUME NEW c \in Callers PROVE NamedInCall(c)'
    <3>1. call[c].op = "accept" => call[c].n # invites + 1
      BY <1>1 DEF Answering, Passed
    <3>2. QED
      BY <1>1, <2>1, <3>1 DEF NamedInCall, Accepting
  <2>5. QED
    BY <2>2, <2>3, <2>4
<1>3. CASE UNCHANGED <<roster, inbox, invites>> /\ (Me \in invited' <=> Me \in invited)
  BY <1>1, <1>3 DEF InvitedInv, NamedInFrames, NamedInInvite, NamedInCall, Accepting, Known,
                    JoinedAfter, InviteAt
<1>4. ASSUME NEW f, Tells(f)
      PROVE  /\ NamedInFrames'
             /\ ~raced' => NamedInInvite' /\ \A c \in Callers : NamedInCall(c)'
  <2>1. Me \in invited /\ Me \in roster \cup invited /\ invites' = invites
        /\ NamedInFrames /\ (~raced => NamedInInvite /\ \A c \in Callers : NamedInCall(c))
    BY <1>4 DEF Tells, InvitedInv
  <2>2. ASSUME NEW x \in roster' \ {Me}
        PROVE  /\ f \in Frames /\ f.kind \in {"joined", "left"} /\ inbox' = Append(inbox, f)
               /\ \/ /\ x \in roster \ {Me}
                     /\ \A i \in Nat : JoinedAfter(i, x) => JoinedAfter(i, x)'
                  \/ \A i \in 0..Len(inbox) : JoinedAfter(i, x)'
    BY <1>4, <2>1, <2>2, TellingKeepsKnown
  <2>3. Len(inbox) \in Nat
    BY <1>1
  <2>4. \A x \in roster' \ {Me} : Known(x)' \/ (x \in roster \ {Me} /\ (Known(x) => Known(x)'))
    <3> SUFFICES ASSUME NEW x \in roster' \ {Me}
                 PROVE  Known(x)' \/ (x \in roster \ {Me} /\ (Known(x) => Known(x)'))
      OBVIOUS
    <3>1. CASE x \in roster \ {Me} /\ \A i \in Nat : JoinedAfter(i, x) => JoinedAfter(i, x)'
      <4>1. JoinedAfter(0, x) => JoinedAfter(0, x)'
        BY <3>1
      <4>2. QED
        BY <1>1, <3>1, <4>1 DEF Known
    <3>2. CASE \A i \in 0..Len(inbox) : JoinedAfter(i, x)'
      <4>1. JoinedAfter(0, x)'
        BY <2>3, <3>2
      <4>2. QED
        BY <4>1 DEF Known
    <3>3. QED
      BY <2>2, <3>1, <3>2
  <2>5. NamedInFrames'
    <3> SUFFICES ASSUME NEW i \in 1..Len(inbox'), InviteAt(i)', NEW x \in roster' \ {Me}
                 PROVE  x \in inbox'[i].who \/ JoinedAfter(i, x)'
      BY DEF NamedInFrames
    <3>1. i \in 1..Len(inbox) /\ InviteAt(i) /\ inbox'[i] = inbox[i]
      BY <2>1, <2>2, NewsTold
    <3>2. QED
      BY <2>1, <2>2, <2>3, <3>1 DEF NamedInFrames
  <2>6. ~raced => NamedInInvite'
    BY <1>1, <2>1, <2>4 DEF NamedInInvite
  <2>7. ~raced => \A c \in Callers : NamedInCall(c)'
    BY <1>1, <2>1, <2>4 DEF NamedInCall, Accepting
  <2>8. QED
    BY <1>1, <2>5, <2>6, <2>7
<1>5. QED
  BY <1>2, <1>3, <1>4, RelayCases

\* The relay tells a member of everyone who joins.
LEMMA RelayKeepsMember ==
    ASSUME Types, MemberInv, Relay
    PROVE  MemberInv'
<1> SUFFICES ASSUME ~raced', Me \in roster'
             PROVE  row' /\ Passed(invites)' /\ \A x \in roster' \ {Me} : Known(x)'
  BY DEF MemberInv
<1>1. UNCHANGED <<row, local, raced, missed>> /\ inbox \in Seq(Frames) /\ invites \in Nat
  BY RelayCases DEF storeVars, Types, RelayTypes
<1>2. CASE Invites
  BY <1>2, Invitation
<1>3. CASE UNCHANGED <<roster, inbox, invites>>
  BY <1>1, <1>3 DEF MemberInv, Known, JoinedAfter, Passed
<1>4. ASSUME NEW f, Tells(f)
      PROVE  row' /\ Passed(invites)' /\ \A x \in roster' \ {Me} : Known(x)'
  <2>1. /\ Me \in roster /\ row /\ Passed(invites) /\ invites' = invites
        /\ \A x \in roster \ {Me} : Known(x)
        /\ f \in Frames /\ f.kind \in {"joined", "left"} /\ inbox' = Append(inbox, f)
    BY <1>1, <1>4 DEF Tells, Tell, MemberInv
  <2>2. ASSUME NEW x \in roster' \ {Me} PROVE Known(x)'
    <3>1. \/ x \in roster \ {Me} /\ \A i \in Nat : JoinedAfter(i, x) => JoinedAfter(i, x)'
          \/ \A i \in 0..Len(inbox) : JoinedAfter(i, x)'
      BY <1>4, <2>1, TellingKeepsKnown
    <3>2. 0 \in Nat /\ 0 \in 0..Len(inbox)
      BY <1>1
    <3>3. QED
      BY <1>1, <2>1, <3>1, <3>2 DEF Known
  <2>3. Passed(invites)'
    <3>1. /\ Len(inbox') = Len(inbox) + 1 /\ Len(inbox) \in Nat /\ inbox'[Len(inbox) + 1] = f
          /\ \A i \in 1..Len(inbox) : inbox'[i] = inbox[i]
      BY <1>1, <2>1, FrameAppended
    <3>2. QED
      BY <2>1, <3>1 DEF Passed
  <2>4. QED
    BY <1>1, <2>1, <2>2, <2>3
<1>5. QED
  BY <1>2, <1>3, <1>4, RelayCases

\* Reading keeps InvitedInv: an invitation that is stored names whom its frame named.
LEMMA ReadKeepsInvited ==
    ASSUME Types, InviteInv, NewsInv, InvitedInv, ReadFrame
    PROVE  InvitedInv'
<1> SUFFICES ASSUME Me \in invited'
             PROVE  /\ NamedInFrames'
                    /\ ~raced' => NamedInInvite' /\ \A c \in Callers : NamedInCall(c)'
  BY DEF InvitedInv
<1>1. /\ inbox # <<>> /\ inbox[1] \in Frames
      /\ StoreFrame(inbox[1]) \/ UNCHANGED <<local, invite>>
      /\ inbox' = Tail(inbox) \/ inbox' = inbox
      /\ UNCHANGED <<row, roster, invited, invites, call, raced>>
  BY FrameRead
<1>2. /\ NamedInFrames /\ (~raced => NamedInInvite /\ \A c \in Callers : NamedInCall(c))
      /\ \A x \in roster \ {Me} : News(x)
  BY <1>1 DEF InvitedInv, NewsInv
<1>3. NamedInFrames'
  <2> SUFFICES ASSUME NEW i \in 1..Len(inbox'), InviteAt(i)', NEW x \in roster' \ {Me}
               PROVE  x \in inbox'[i].who \/ JoinedAfter(i, x)'
    BY DEF NamedInFrames
  <2>1. PICK k \in 1..Len(inbox) :
          /\ InviteAt(k) /\ inbox'[i] = inbox[k]
          /\ \A y : JoinedAfter(k, y) => JoinedAfter(i, y)'
    BY <1>1, FramesStay
  <2>2. QED
    BY <1>1, <1>2, <2>1 DEF NamedInFrames
<1>4. ASSUME Passed(invites) PROVE \A x \in roster \ {Me} : Known(x) => Known(x)'
  BY <1>2, <1>4, ReadingKeepsKnown
<1>5. ASSUME ~raced PROVE NamedInInvite'
  <2> SUFFICES ASSUME invite'.n = invites, NEW x \in roster \ {Me}
               PROVE  x \in invite'.who \/ Known(x)'
    BY <1>1 DEF NamedInInvite
  <2>1. CASE inbox[1].kind = "invite" /\ StoreFrame(inbox[1])
    <3>1. invite'.n = inbox[1].n /\ invite'.who = inbox[1].who
      BY <1>1, <2>1 DEF StoreFrame, SaveGroupInvite
    <3>2. 1 \in 1..Len(inbox) /\ InviteAt(1)
      BY <1>1, <2>1, <3>1, FrameTaken DEF InviteAt, Types, RelayTypes
    <3>3. x \in inbox[1].who \/ JoinedAfter(1, x)
      BY <1>2, <3>2 DEF NamedInFrames
    <3>4. JoinedAfter(1, x) => JoinedAfter(0, x)'
      BY <1>1, NewsRead
    <3>5. QED
      BY <3>1, <3>3, <3>4 DEF Known
  <2>2. CASE inbox[1].kind # "invite" \/ UNCHANGED <<local, invite>>
    <3>1. invite' = invite
      BY <1>1, <2>2 DEF StoreFrame
    <3>2. Passed(invites) /\ (x \in invite.who \/ Known(x))
      BY <1>2, <1>5, <3>1 DEF InviteInv, NamedInInvite
    <3>3. QED
      BY <1>4, <3>1, <3>2
  <2>3. QED
    BY <1>1, <2>1, <2>2
<1>6. ASSUME ~raced, NEW c \in Callers PROVE NamedInCall(c)'
  <2> SUFFICES ASSUME Accepting(c)
               PROVE  /\ \A x \in roster \ {Me} : x \in call[c].who \/ Known(x)'
                      /\ call[c].step # "group" => row
                      /\ call[c].step = "request" => call[c].who = {}
    BY <1>1 DEF NamedInCall, Accepting
  <2>1. NamedInCall(c) /\ Passed(invites)
    BY <1>2, <1>6 DEF InviteInv, Accepting
  <2>2. QED
    BY <1>4, <2>1 DEF NamedInCall
<1>7. QED
  BY <1>1, <1>3, <1>5, <1>6

\* Reading keeps MemberInv: one who is removed joined again later.
LEMMA ReadKeepsMember ==
    ASSUME Types, InviteInv, NewsInv, MemberInv, ReadFrame
    PROVE  MemberInv'
<1> SUFFICES ASSUME ~raced', Me \in roster'
             PROVE  row' /\ Passed(invites)' /\ \A x \in roster' \ {Me} : Known(x)'
  BY DEF MemberInv
<1>1. /\ inbox # <<>> /\ (inbox' = Tail(inbox) \/ inbox' = inbox)
      /\ UNCHANGED <<row, roster, invited, invites, raced>> /\ invites \in Nat
  BY FrameRead DEF Types, RelayTypes
<1>2. row /\ Passed(invites) /\ \A x \in roster \ {Me} : Known(x) /\ News(x)
  BY <1>1 DEF MemberInv, NewsInv
<1>3. \A n \in Nat : Passed(n) => Passed(n)'
  BY <1>1, NumberedRead DEF InviteInv
<1>4. Passed(invites)'
  <2>1. \E n \in Nat : n = invites /\ Passed(n)'
    BY <1>1, <1>2, <1>3
  <2>2. QED
    BY <1>1, <2>1 DEF Passed
<1>5. \A x \in roster' \ {Me} : Known(x)'
  BY <1>1, <1>2, ReadingKeepsKnown
<1>6. QED
  BY <1>1, <1>2, <1>4, <1>5

\* Every step keeps the members known.
LEMMA MembersInvariant == Spec => [](InvitedInv /\ MemberInv)
<1>1. Init => InvitedInv /\ MemberInv
  <2> SUFFICES ASSUME Init PROVE Me \notin roster /\ Me \notin invited
    BY DEF InvitedInv, MemberInv
  <2>1. QED
    BY DEF Init
<1>2. /\ Types /\ Types' /\ InviteInv /\ NewsInv /\ CreateInv /\ InvitedInv /\ MemberInv
      /\ [Next]_vars
      => InvitedInv' /\ MemberInv'
  <2> SUFFICES ASSUME Types, Types', InviteInv, NewsInv, CreateInv, InvitedInv, MemberInv, [Next]_vars
               PROVE  InvitedInv' /\ MemberInv'
    OBVIOUS
  <2>1. ASSUME NEW c \in Callers, Operation(c) PROVE InvitedInv' /\ MemberInv'
    BY <2>1, OperationsKeepInvited, OperationsKeepMember
  <2>2. CASE Crash
    <3>1. /\ UNCHANGED <<row, local, invite, roster, invited, invites, inbox, raced, missed>>
          /\ \A c \in Callers : call'[c].op = "none"
      BY <2>2, CrashIdles, IdleIsRecord DEF storeVars, relayVars, blockVars
    <3>2. \A c \in Callers : NamedInCall(c)'
      BY <3>1 DEF NamedInCall, Accepting
    <3>3. (NamedInFrames' <=> NamedInFrames) /\ (NamedInInvite' <=> NamedInInvite)
      BY <3>1 DEF NamedInFrames, NamedInInvite, Known, JoinedAfter, InviteAt
    <3>4. InvitedInv'
      BY <3>1, <3>2, <3>3 DEF InvitedInv
    <3>5. MemberInv'
      BY <3>1 DEF MemberInv, Known, JoinedAfter, Passed
    <3>6. QED
      BY <3>4, <3>5
  <2>3. CASE Relay
    BY <2>3, RelayKeepsInvited, RelayKeepsMember
  <2>4. CASE ReadFrame
    BY <2>4, ReadKeepsInvited, ReadKeepsMember
  <2>5. ASSUME UNCHANGED <<row, local, invite, roster, invited, invites, inbox, raced, call, missed>>
        PROVE  InvitedInv' /\ MemberInv'
    <3>1. InvitedInv'
      BY <2>5 DEF InvitedInv, NamedInFrames, NamedInInvite, NamedInCall, Accepting, Known,
                  JoinedAfter, InviteAt
    <3>2. MemberInv'
      BY <2>5 DEF MemberInv, Known, JoinedAfter, Passed
    <3>3. QED
      BY <3>1, <3>2
  <2>6. CASE UNCHANGED vars
    BY <2>5, <2>6 DEF vars, storeVars, relayVars, blockVars
  <2>7. ASSUME NEW x \in Others, Block(x) PROVE InvitedInv' /\ MemberInv'
    BY <2>5, <2>7, Blocking
  <2>8. QED
    BY <2>1, <2>2, <2>3, <2>4, <2>6, <2>7 DEF Next
<1>3. QED
  BY <1>1, <1>2, TypesInvariant, InviteInvariant, NewsInvariant, CreateInvariant, PTL DEF Spec

\* While the relay counts the agent a member, the store has the group, and of every
\* other member a row or the news of its joining, unless a call was overtaken or the
\* member joined while it was blocked, which handleInbound drops (the order of store
\* and relay in each operation of ops.go).
THEOREM MembersAreKnown == Spec => []MembershipIsKnown
<1>1. MemberInv => MembershipIsKnown
  <2> SUFFICES ASSUME MemberInv, ~raced, Me \in roster
               PROVE  row /\ \A x \in roster \ {Me} : x \in local \/ JoinIsOnItsWay(x) \/ x \in missed
    BY DEF MembershipIsKnown
  <2>1. \A x : JoinedAfter(0, x) => JoinIsOnItsWay(x)
    BY DEF JoinedAfter, JoinedIn, Says, JoinIsOnItsWay
  <2>2. QED
    BY <2>1 DEF MemberInv, Known
<1>2. QED
  BY <1>1, MembersInvariant, PTL

-----------------------------------------------------------------------------
(* Open invitations                                                         *)

\* An operation that deletes the last invitation has declined it, or is overtaken.
LEMMA OperationsKeepOpen ==
    ASSUME Types, InviteInv, OpenInviteIsKept, NEW c \in Callers, Operation(c)
    PROVE  OpenInviteIsKept'
<1> SUFFICES ASSUME ~raced', Me \in invited'
             PROVE  \/ invite'.n = invites' \/ invites' \in declined' \/ invites' \in ignored'
                    \/ \E i \in 1..Len(inbox') : InviteAt(i)'
  BY DEF OpenInviteIsKept, InviteAt
<1>1. PICK r : \/ Quiet(c, r) \/ Grants(c, r) \/ DeleteInvite(c)
               \/ RemoveKicked(c) \/ DeleteGroup(c) \/ SaveSent(c)
  BY OperationCases
<1>2. /\ UNCHANGED <<invites, inbox, ignored>> /\ ~raced /\ Me \in invited
      /\ \A i : InviteAt(i)' <=> InviteAt(i)
  BY <1>1, OperationsKeepNumbers
<1>3. \/ invite.n = invites \/ invites \in declined \/ invites \in ignored
      \/ \E i \in 1..Len(inbox) : InviteAt(i)
  BY <1>2 DEF OpenInviteIsKept, InviteAt
<1>4. CASE DeleteInvite(c)
  <2>1. /\ call[c].op \in {"accept", "decline"} /\ At(c, "store")
        /\ ~(invite.n > call[c].n)
        /\ declined' = IF call[c].op = "decline" THEN declined \cup {call[c].n} ELSE declined
    BY <1>4 DEF DeleteInvite
  <2>2. invite.n \in Nat /\ call[c].n \in Nat /\ invites \in Nat
    BY DEF Types, StoreTypes, RelayTypes, CallTypes, Records
  <2>3. call[c].n <= invites /\ (call[c].op = "accept" => call[c].n < invites)
    BY <1>2, <2>1 DEF InviteInv, Passed
  <2>4. invite.n = invites => call[c].op = "decline" /\ call[c].n = invites
    BY <2>1, <2>2, <2>3
  <2>5. QED
    BY <1>2, <1>3, <2>1, <2>4
<1>5. CASE ~DeleteInvite(c)
  <2>1. invite' = invite /\ declined' = declined
    BY <1>1, <1>5 DEF Quiet, Grants, RemoveKicked, DeleteGroup, SaveSent, storeVars
  <2>2. QED
    BY <1>2, <1>3, <2>1
<1>6. QED
  BY <1>4, <1>5

\* An invitation the relay keeps open is pending here or on its way, unless the agent
\* declined it, had blocked the inviter, or a call was overtaken (AcceptGroup,
\* DeleteGroupInvite, handleInbound).
THEOREM OpenInvitesAreKept == Spec => []OpenInviteIsKept
<1>1. Init => OpenInviteIsKept
  BY DEF Init, OpenInviteIsKept
<1>2. Types /\ InviteInv /\ OpenInviteIsKept /\ [Next]_vars => OpenInviteIsKept'
  <2> SUFFICES ASSUME Types, InviteInv, OpenInviteIsKept, [Next]_vars
               PROVE  OpenInviteIsKept'
    OBVIOUS
  <2>1. ASSUME NEW c \in Callers, Operation(c) PROVE OpenInviteIsKept'
    BY <2>1, OperationsKeepOpen
  <2>2. ASSUME UNCHANGED <<invite, invited, invites, inbox, raced, declined, ignored>>
        PROVE  OpenInviteIsKept'
    BY <2>2 DEF OpenInviteIsKept
  <2>3. CASE Crash
    BY <2>2, <2>3, CrashIdles DEF storeVars, relayVars, blockVars
  <2>4. CASE Relay
    <3>1. UNCHANGED <<invite, raced, declined, ignored>>
      BY <2>4, RelayCases DEF storeVars
    <3>2. CASE Invites
      <4>1. \E i \in 1..Len(inbox') : InviteAt(i)'
        BY <3>2, NewsInvited
      <4>2. QED
        BY <4>1 DEF OpenInviteIsKept, InviteAt
    <3>3. CASE UNCHANGED <<inbox, invites>> /\ (Me \in invited' => Me \in invited)
      BY <3>1, <3>3 DEF OpenInviteIsKept
    <3>4. ASSUME NEW f, Tells(f) PROVE OpenInviteIsKept'
      <4>1. /\ f \in Frames /\ f.kind \in {"joined", "left"} /\ invites' = invites
            /\ (Me \in invited' <=> Me \in invited)
            /\ inbox' = inbox \/ inbox' = Append(inbox, f)
        BY <3>4 DEF Tells, Tell
      <4>2. CASE inbox' = inbox
        BY <3>1, <4>1, <4>2 DEF OpenInviteIsKept
      <4>3. CASE inbox' = Append(inbox, f)
        <5>1. \A i \in 1..Len(inbox) : InviteAt(i) => i \in 1..Len(inbox') /\ InviteAt(i)'
          BY <4>1, <4>3, NewsTold
        <5>2. QED
          BY <3>1, <4>1, <5>1 DEF OpenInviteIsKept, InviteAt
      <4>4. QED
        BY <4>1, <4>2, <4>3
    <3>5. QED
      BY <2>4, <3>2, <3>3, <3>4, RelayCases
  <2>5. CASE ReadFrame
    <3> SUFFICES ASSUME ~raced', Me \in invited'
                 PROVE  \/ invite'.n = invites' \/ invites' \in declined' \/ invites' \in ignored'
                        \/ \E i \in 1..Len(inbox') : InviteAt(i)'
      BY DEF OpenInviteIsKept, InviteAt
    <3>1. /\ inbox # <<>> /\ inbox[1] \in Frames /\ HandleInbound(inbox[1])
          /\ StoreFrame(inbox[1]) \/ UNCHANGED <<local, invite>>
          /\ inbox' = Tail(inbox) \/ inbox' = inbox
          /\ UNCHANGED <<invited, invites, raced, declined>>
          /\ inbox \in Seq(Frames)
      BY <2>5, FrameRead DEF Types, RelayTypes
    <3>2. 1 \in 1..Len(inbox)
      BY <3>1, FrameTaken
    <3>3. \/ invite.n = invites \/ invites \in declined \/ invites \in ignored
          \/ \E i \in 1..Len(inbox) : InviteAt(i)
      BY <3>1 DEF OpenInviteIsKept, InviteAt
    <3>4. \/ inbox[1].kind = "invite" /\ invite'.n = inbox[1].n
          \/ invite' = invite /\ (inbox[1].kind = "invite" => inbox[1].n \in ignored')
      <4>1. StoreFrame(inbox[1]) => \/ inbox[1].kind = "invite" /\ invite'.n = inbox[1].n
                                    \/ invite' = invite /\ inbox[1].kind # "invite"
      BY DEF StoreFrame, SaveGroupInvite
      <4>2. QED
      BY <3>1, <4>1, FrameHandled
    <3>5. ASSUME invite.n = invites PROVE invite'.n = invites
      <4>1. invites \in Nat /\ inbox[1].n \in Nat
        BY <3>1 DEF Types, RelayTypes, Frames
      <4>2. inbox[1].kind = "invite" => inbox[1].n = invites
        BY <3>2, <3>5, <4>1 DEF InviteInv, Passed, Numbered
      <4>3. QED
        BY <3>4, <3>5, <4>2
    <3>6. ASSUME NEW i \in 1..Len(inbox), InviteAt(i)
          PROVE  \/ invite'.n = invites \/ invites \in ignored'
                 \/ \E j \in 1..Len(inbox') : InviteAt(j)'
      <4>1. CASE inbox' = inbox
        BY <3>1, <3>6, <4>1 DEF InviteAt
      <4>2. CASE inbox' = Tail(inbox) /\ i = 1
        BY <3>4, <3>6, <4>2 DEF InviteAt
      <4>3. CASE inbox' = Tail(inbox) /\ i > 1
        <5>1. i - 1 \in 1..Len(inbox') /\ inbox'[i - 1] = inbox[i]
          BY <3>1, <4>3, FrameTaken
        <5>2. QED
          BY <3>1, <3>6, <5>1 DEF InviteAt
      <4>4. QED
        BY <3>1, <4>1, <4>2, <4>3
    <3>7. ASSUME invites \in ignored PROVE invite'.n = invites \/ invites \in ignored'
      <4>1. CASE inbox[1].kind = "invite" /\ inbox[1].n = invites
        BY <3>4, <4>1
      <4>2. CASE ~(inbox[1].kind = "invite" /\ inbox[1].n = invites)
        BY <3>1, <3>7, <4>2, FrameHandled
      <4>3. QED
        BY <4>1, <4>2
    <3>8. QED
      BY <3>1, <3>3, <3>5, <3>6, <3>7
  <2>6. CASE UNCHANGED vars
    BY <2>2, <2>6 DEF vars, storeVars, relayVars, blockVars
  <2>7. ASSUME NEW x \in Others, Block(x) PROVE OpenInviteIsKept'
    BY <2>2, <2>7, Blocking
  <2>8. QED
    BY <2>1, <2>3, <2>4, <2>5, <2>6, <2>7 DEF Next
<1>3. QED
  BY <1>1, <1>2, TypesInvariant, InviteInvariant, PTL DEF Spec

-----------------------------------------------------------------------------
(* The history                                                              *)

TakenInv ==
    /\ history \subseteq taken
    /\ \A c \in Callers :
         call[c].op \in {"send", "react"} /\ call[c].step = "store" => call[c].n \in taken

\* What the history says was sent to the group the relay took (SendGroup, reactGroup).
THEOREM HistoryIsTaken == Spec => []HistoryWasTaken
<1>1. Init => TakenInv
  BY IdleIsRecord DEF Init, TakenInv
<1>2. Types /\ TakenInv /\ [Next]_vars => TakenInv'
  <2> SUFFICES ASSUME Types, TakenInv, [Next]_vars PROVE TakenInv'
    OBVIOUS
  <2>1. ASSUME NEW c \in Callers, Operation(c) PROVE TakenInv'
    <3>1. PICK r : /\ Becomes(c, r)
                   /\ \/ Quiet(c, r) \/ Grants(c, r)
                      \/ (DeleteInvite(c) /\ r = Idle) \/ (RemoveKicked(c) /\ r = Idle)
                      \/ DeleteGroup(c) /\ (r = Idle \/ (r.op = "leave" /\ r.step = "row"))
                      \/ SaveSent(c) /\ r = Idle
      BY <2>1, OperationCases
    <3>2. taken \subseteq taken'
      BY <3>1 DEF Quiet, Grants, Granted, DeleteInvite, RemoveKicked, DeleteGroup, SaveSent, relayVars
    <3>3. history' \subseteq taken'
      <4>1. CASE SaveSent(c)
        BY <3>2, <4>1 DEF SaveSent, TakenInv, At
      <4>2. CASE ~SaveSent(c)
        BY <3>1, <3>2, <4>2
           DEF Quiet, Grants, DeleteInvite, RemoveKicked, DeleteGroup, TakenInv, storeVars
      <4>3. QED
        BY <4>1, <4>2
    <3>4. r.op \in {"send", "react"} /\ r.step = "store" => r.n \in taken'
      <4>1. CASE Grants(c, r)
        BY <4>1, IdleIsRecord DEF Grants, Granted
      <4>2. CASE ~Grants(c, r)
        BY <3>1, <4>2, IdleIsRecord DEF Quiet, Starts, Proceeds
      <4>3. QED
        BY <4>1, <4>2
    <3>5. QED
      BY <3>1, <3>2, <3>3, <3>4 DEF TakenInv, Becomes
  <2>2. CASE Crash
    BY <2>2, CrashIdles, IdleIsRecord DEF TakenInv, storeVars, relayVars
  <2>3. CASE Relay
    BY <2>3, RelaySteps DEF TakenInv, storeVars
  <2>4. CASE ReadFrame
    BY <2>4 DEF ReadFrame, TakenInv, relayVars
  <2>5. CASE UNCHANGED vars
    BY <2>5 DEF vars, storeVars, relayVars, TakenInv
  <2>6. ASSUME NEW x \in Others, Block(x) PROVE TakenInv'
    BY <2>6, Blocking DEF TakenInv
  <2>7. QED
    BY <2>1, <2>2, <2>3, <2>4, <2>5, <2>6 DEF Next
<1>3. TakenInv => HistoryWasTaken
  BY DEF TakenInv, HistoryWasTaken
<1>4. QED
  BY <1>1, <1>2, <1>3, TypesInvariant, PTL DEF Spec
===============================================================================

-------------------------------- MODULE Groups ---------------------------------
(***************************************************************************)
(* One group of the agent (internal/agent/ops.go, agent.go, store.go): the *)
(* group row, the member rows and the pending invite of the store, the     *)
(* operations that change them and the relay's membership in two writes,   *)
(* and the relay's invites and member updates, which the read loop stores. *)
(*                                                                         *)
(* Calls run concurrently, each statement and each request a step of its   *)
(* own.  The relay is external: it keeps members and invitations, tells    *)
(* members and invitees who joins or leaves, and refuses a request of one  *)
(* who is neither.  The agent itself is not listed in the member rows,     *)
(* which encryptForMembers passes over.                                    *)
(***************************************************************************)
EXTENDS Naturals, Sequences, FiniteSets

CONSTANTS
    Others,      \* the addresses that are not the agent's
    Me,          \* the agent's
    Callers,     \* concurrent operations
    MaxCalls, MaxEvents, MaxFailures, MaxCrashes, MaxRedelivered \* bounds

ASSUME GroupsAssumption ==
    /\ Me \notin Others /\ IsFiniteSet(Others)
    /\ {MaxCalls, MaxEvents, MaxFailures, MaxCrashes, MaxRedelivered} \subseteq Nat

VARIABLES
    row,      \* the group's row
    local,    \* its member rows
    invite,   \* the pending invite: its number and members, number 0 if there is none
    history,  \* group messages and reactions saved
    roster,   \* relay: the members
    invited,  \* relay: who may accept
    invites,  \* relay: how often the agent was invited
    taken,    \* relay: the group frames it took
    inbox,    \* its frames the agent has not acked
    call,     \* per caller: op, step, address, members read
    raced,    \* a call deleted what the relay holds anew, or answered an older invite
    declined, \* numbers of the invites the agent declined
    blocked,  \* the addresses the user blocked
    missed,   \* whose joining was the last the agent was told of them, and dropped it
    ignored,  \* numbers of the invites it dropped
    calls, events, failures, crashes, redelivered

storeVars == <<row, local, invite, history>>
relayVars == <<roster, invited, invites, taken>>
blockVars == <<blocked, missed, ignored>>
counters  == <<calls, events, failures, crashes, redelivered>>
vars == <<storeVars, relayVars, inbox, call, raced, declined, blockVars, counters>>

Everyone == Others \cup {Me}
NoInvite == [n |-> 0, who |-> {}]
Idle == [op |-> "none", step |-> "none", x |-> Me, who |-> {}, n |-> 0]

\* The relay has no group, or one of the others.
Init ==
    /\ row = FALSE /\ local = {} /\ invite = NoInvite /\ history = {}
    /\ roster \in {{}, Others} /\ invited = {} /\ invites = 0 /\ taken = {}
    /\ inbox = <<>> /\ call = [c \in Callers |-> Idle]
    /\ raced = FALSE /\ declined = {}
    /\ blocked \in SUBSET Others /\ missed = {} /\ ignored = {}
    /\ calls = 0 /\ events = 0 /\ failures = 0 /\ crashes = 0 /\ redelivered = 0

Begin(c, op, step, x, who, n) ==
    /\ call[c] = Idle /\ calls < MaxCalls /\ calls' = calls + 1
    /\ call' = [call EXCEPT ![c] = [op |-> op, step |-> step, x |-> x, who |-> who, n |-> n]]
    /\ UNCHANGED <<relayVars, inbox, raced, declined, blockVars, events, failures, crashes, redelivered>>

Step(c, step) == call' = [call EXCEPT ![c].step = step]

Return(c) == call' = [call EXCEPT ![c] = Idle]

At(c, step) == call[c].step = step

-----------------------------------------------------------------------------
(* The operations, up to their request                                      *)

\* CreateGroup: the row, then a row for each member, then the request.  The id is new.
CreateGroup(c) ==
    /\ roster = {} /\ events = 0 /\ calls = 0
    /\ \E who \in SUBSET Others \ {{}} : Begin(c, "create", "group", Me, who, 0)
    /\ UNCHANGED storeVars

\* AcceptGroup takes the members from the invite.
AcceptGroup(c) ==
    /\ invite # NoInvite
    /\ Begin(c, "accept", "group", Me, invite.who, invite.n)
    /\ UNCHANGED storeVars

InsertGroup(c) ==
    /\ At(c, "group") /\ row' = TRUE /\ Step(c, "members")
    /\ UNCHANGED <<local, invite, history, relayVars, inbox, raced, declined, blockVars, counters>>

InsertMember(c) ==
    /\ At(c, "members")
    /\ IF call[c].who = {}
       THEN Step(c, "request") /\ UNCHANGED local
       ELSE \E x \in call[c].who :
              /\ local' = local \cup {x}
              /\ call' = [call EXCEPT ![c].who = @ \ {x}]
    /\ UNCHANGED <<row, invite, history, relayVars, inbox, raced, declined, blockVars, counters>>

DeclineGroup(c) ==
    /\ invite # NoInvite
    /\ Begin(c, "decline", "request", Me, {}, invite.n)
    /\ UNCHANGED storeVars

\* AddToGroup stores the member before it asks the relay.
AddToGroup(c, x) ==
    /\ Begin(c, "add", "request", x, {}, 0)
    /\ local' = local \cup {x} /\ UNCHANGED <<row, invite, history>>

\* KickFromGroup asks the relay first.
KickFromGroup(c, x) ==
    /\ Begin(c, "kick", "request", x, {}, 0)
    /\ UNCHANGED storeVars

LeaveGroup(c) ==
    /\ row
    /\ Begin(c, "leave", "request", Me, {}, 0)
    /\ UNCHANGED storeVars

\* GetGroupMembers: what both begin with; without members they return an error.
ReadMembers(c, op) ==
    /\ local # {}
    /\ Begin(c, op, "keys", Me, local, 0)
    /\ UNCHANGED storeVars

SendGroup(c) == ReadMembers(c, "send")

ReactGroup(c) == ReadMembers(c, "react")

\* Members without a key are passed over; without any blob nothing is sent.
EncryptForMembers(c) ==
    /\ At(c, "keys")
    /\ \E to \in SUBSET call[c].who :
         IF to = {} THEN Return(c)
         ELSE call' = [call EXCEPT ![c].step = "request", ![c].who = to, ![c].n = calls]
    /\ UNCHANGED <<storeVars, relayVars, inbox, raced, declined, blockVars, counters>>

-----------------------------------------------------------------------------
(* The request, and what follows it                                         *)

\* External: what the relay does with a request, if it grants it.
Granted(c) ==
    LET k == call[c] IN
      \/ /\ k.op = "create" /\ roster = {}
         /\ roster' = {Me} /\ invited' = Others \cap local
         /\ UNCHANGED <<invites, taken, raced>>
      \/ /\ k.op = "accept" /\ Me \in invited
         /\ roster' = roster \cup {Me} /\ invited' = invited \ {Me}
         /\ raced' = (raced \/ k.n # invites)
         /\ UNCHANGED <<invites, taken>>
      \/ /\ k.op \in {"decline", "leave"} /\ Me \in roster \cup invited
         /\ roster' = roster \ {Me} /\ invited' = invited \ {Me}
         /\ UNCHANGED <<invites, taken, raced>>
      \/ /\ k.op = "add" /\ Me \in roster
         /\ invited' = invited \cup ({k.x} \ roster)
         /\ UNCHANGED <<roster, invites, taken, raced>>
      \/ /\ k.op = "kick" /\ Me \in roster
         /\ roster' = roster \ {k.x} /\ invited' = invited \ {k.x}
         /\ UNCHANGED <<invites, taken, raced>>
      \/ /\ k.op \in {"send", "react"} /\ Me \in roster
         /\ taken' = taken \cup {k.n}
         /\ UNCHANGED <<roster, invited, invites, raced>>

\* signedRaw: the relay grants the request and the answer arrives.
Answered(c) ==
    /\ At(c, "request") /\ Granted(c)
    /\ IF call[c].op \in {"create", "add"} THEN Return(c) ELSE Step(c, "store")
    /\ UNCHANGED <<storeVars, inbox, declined, blockVars, counters>>

\* Faulty variant: an error is taken for an answer.
AnswerLostIgnored(c) ==
    /\ At(c, "request") /\ failures < MaxFailures /\ failures' = failures + 1
    /\ UNCHANGED <<relayVars, raced>>
    /\ IF call[c].op \in {"create", "add"} THEN Return(c) ELSE Step(c, "store")
    /\ UNCHANGED <<storeVars, inbox, declined, blockVars, calls, events, crashes, redelivered>>

\* The operation returns an error, and what it stored stays; DeclineGroup goes on.
GiveUp(c) == IF call[c].op = "decline" THEN Step(c, "store") ELSE Return(c)

\* Or it is granted and the answer is lost.
AnswerLost(c) ==
    /\ At(c, "request") /\ failures < MaxFailures /\ failures' = failures + 1
    /\ Granted(c) /\ GiveUp(c)
    /\ UNCHANGED <<storeVars, inbox, declined, blockVars, calls, events, crashes, redelivered>>

\* Or the relay refuses it (an admin's request, say), or is not reached.
Refused(c) ==
    /\ At(c, "request") /\ GiveUp(c)
    /\ UNCHANGED <<storeVars, relayVars, inbox, raced, declined, blockVars, counters>>

\* AcceptGroup and DeclineGroup delete the invite, whichever it is by now.
DeleteInvite(c) ==
    /\ call[c].op \in {"accept", "decline"} /\ At(c, "store")
    /\ invite' = NoInvite
    /\ raced' = (raced \/ invite.n > call[c].n)
    /\ declined' = IF call[c].op = "decline" THEN declined \cup {call[c].n} ELSE declined
    /\ Return(c)
    /\ UNCHANGED <<row, local, history, relayVars, inbox, blockVars, counters>>

\* KickFromGroup removes the member.
RemoveKicked(c) ==
    /\ call[c].op = "kick" /\ At(c, "store")
    /\ local' = local \ {call[c].x}
    /\ raced' = (raced \/ call[c].x \in roster)
    /\ Return(c)
    /\ UNCHANGED <<row, invite, history, relayVars, inbox, declined, blockVars, counters>>

\* LeaveGroup deletes the member rows and then the group's.
DeleteGroup(c) ==
    /\ call[c].op = "leave"
    /\ \/ At(c, "store") /\ local' = {} /\ UNCHANGED row /\ Step(c, "row")
       \/ At(c, "row") /\ row' = FALSE /\ UNCHANGED local /\ Return(c)
    /\ raced' = (raced \/ Me \in roster \cup invited)
    /\ UNCHANGED <<invite, history, relayVars, inbox, declined, blockVars, counters>>

\* SendGroup and reactGroup save what was sent.
SaveSent(c) ==
    /\ call[c].op \in {"send", "react"} /\ At(c, "store")
    /\ history' = history \cup {call[c].n}
    /\ Return(c)
    /\ UNCHANGED <<row, local, invite, relayVars, inbox, raced, declined, blockVars, counters>>

\* The process dies and starts again.
Crash ==
    /\ crashes < MaxCrashes /\ crashes' = crashes + 1
    /\ call' = [c \in Callers |-> Idle]
    /\ UNCHANGED <<storeVars, relayVars, inbox, raced, declined, blockVars, calls, events,
                   failures, redelivered>>

-----------------------------------------------------------------------------
(* The relay and the read loop                                              *)

Event ==
    /\ roster # {} /\ events < MaxEvents /\ events' = events + 1
    /\ UNCHANGED <<storeVars, taken, call, declined, blockVars, calls, failures, crashes, redelivered>>

\* Members and invitees are told.
Tell(frame) ==
    inbox' = IF Me \in roster \cup invited THEN Append(inbox, frame) ELSE inbox

Frame(kind, x, who, n) == [kind |-> kind, x |-> x, who |-> who, n |-> n]

\* External: another member invites x.
OtherInvites(x) ==
    /\ Event /\ x \notin roster \cup invited
    /\ invited' = invited \cup {x}
    /\ UNCHANGED <<roster, invites, inbox, raced>>

\* External: a member x invites the agent, with the members there are.
InviteMe(x) ==
    /\ Event /\ x \in roster /\ Me \notin roster \cup invited
    /\ invited' = invited \cup {Me} /\ invites' = invites + 1
    /\ inbox' = Append(inbox, Frame("invite", x, roster, invites'))
    /\ UNCHANGED <<roster, raced>>

\* External: an invitee joins.
OtherJoins(x) ==
    /\ Event /\ x \in invited
    /\ roster' = roster \cup {x} /\ invited' = invited \ {x}
    /\ Tell(Frame("joined", x, {}, 0))
    /\ UNCHANGED <<invites, raced>>

\* External: a member leaves or is kicked by another.
OtherLeaves(x) ==
    /\ Event /\ x \in roster
    /\ roster' = roster \ {x}
    /\ Tell(Frame("left", x, {}, 0))
    /\ UNCHANGED <<invited, invites, raced>>

\* External: the agent is kicked.
KickMe ==
    /\ Event /\ Me \in roster \cup invited
    /\ roster' = roster \ {Me} /\ invited' = invited \ {Me}
    /\ UNCHANGED <<invites, inbox, raced>>

\* INSERT OR REPLACE: the newest invite takes the place of the pending one.
SaveGroupInvite(f) == invite' = [n |-> f.n, who |-> f.who] /\ UNCHANGED local

\* Faulty variant: a member update for a group without a row is dropped.
StoreFrameOfKnown(f) ==
    \/ f.kind = "invite" /\ SaveGroupInvite(f)
    \/ f.kind = "joined" /\ local' = (IF row THEN local \cup {f.x} ELSE local) /\ UNCHANGED invite
    \/ f.kind = "left"   /\ local' = (IF row THEN local \ {f.x} ELSE local) /\ UNCHANGED invite

\* A member update is stored, whether the group is or not.
StoreFrame(f) ==
    \/ f.kind = "invite" /\ SaveGroupInvite(f)
    \/ f.kind = "joined" /\ local' = local \cup {f.x} /\ UNCHANGED invite
    \/ f.kind = "left"   /\ local' = local \ {f.x}   /\ UNCHANGED invite

\* handleInbound drops the frame of a blocked sender: the inviter, the member that
\* joined or left.  Nothing else reads what is blocked, so the check and the store may
\* be one step.
HandleInbound(f) ==
    LET drop == f.x \in blocked IN
      /\ IF drop THEN UNCHANGED <<local, invite>> ELSE StoreFrame(f)
      /\ missed' = CASE f.kind = "invite" -> missed
                     [] f.kind = "joined" /\ drop -> missed \cup {f.x}
                     [] OTHER -> missed \ {f.x}
      /\ ignored' = CASE f.kind # "invite" -> ignored
                      [] drop  -> ignored \cup {f.n}
                      [] OTHER -> ignored \ {f.n}

\* The frame is acked, dropped or not, or the connection is lost and it comes again.
ReadFrame ==
    /\ inbox # <<>> /\ HandleInbound(Head(inbox))
    /\ \/ inbox' = Tail(inbox) /\ UNCHANGED redelivered
       \/ redelivered < MaxRedelivered /\ redelivered' = redelivered + 1 /\ UNCHANGED inbox
    /\ UNCHANGED <<row, history, relayVars, call, raced, declined, blocked, calls, events,
                   failures, crashes>>

\* The user blocks an address, or lifts the block: what was dropped does not come again.
Block(x) ==
    /\ calls < MaxCalls /\ calls' = calls + 1
    /\ \/ x \notin blocked /\ blocked' = blocked \cup {x}
       \/ x \in blocked /\ blocked' = blocked \ {x}
    /\ UNCHANGED <<storeVars, relayVars, inbox, call, raced, declined, missed, ignored,
                   events, failures, crashes, redelivered>>

-----------------------------------------------------------------------------
Operation(c) ==
    \/ CreateGroup(c) \/ AcceptGroup(c) \/ DeclineGroup(c)
    \/ InsertGroup(c) \/ InsertMember(c)
    \/ LeaveGroup(c) \/ SendGroup(c) \/ ReactGroup(c) \/ EncryptForMembers(c)
    \/ \E x \in Others : AddToGroup(c, x) \/ KickFromGroup(c, x)
    \/ Answered(c) \/ AnswerLost(c) \/ Refused(c)
    \/ DeleteInvite(c) \/ RemoveKicked(c) \/ DeleteGroup(c) \/ SaveSent(c)

Relay ==
    \/ KickMe
    \/ \E x \in Others : InviteMe(x) \/ OtherInvites(x) \/ OtherJoins(x) \/ OtherLeaves(x)

Next ==
    \/ \E c \in Callers : Operation(c)
    \/ \E x \in Others : Block(x)
    \/ Crash \/ Relay \/ ReadFrame

Spec == Init /\ [][Next]_vars

-----------------------------------------------------------------------------
(* Properties                                                               *)

\* The last the inbox says of x is that it joined.
JoinIsOnItsWay(x) ==
    \E i \in 1..Len(inbox) :
        /\ inbox[i].kind = "joined" /\ inbox[i].x = x
        /\ \A j \in i+1..Len(inbox) : ~(inbox[j].kind = "left" /\ inbox[j].x = x)

\* While the relay counts the agent a member, the store has the group, and of every
\* other member a row to encrypt for, or the news of its joining is on its way:
\* whatever failed, was cut off or came twice, unless a call was overtaken (the order
\* of store and relay in each operation of ops.go).  The exception is a member that
\* joined while the user had it blocked: handleInbound drops the news, the session acks
\* it, and nothing tells the agent again.
MembershipIsKnown ==
    ~raced /\ Me \in roster =>
        /\ row
        /\ \A x \in roster \ {Me} : x \in local \/ JoinIsOnItsWay(x) \/ x \in missed

\* An invitation the relay keeps open is pending here or on its way, unless the agent
\* declined it, had blocked the inviter when it came, or a call was overtaken: neither
\* an accept that failed nor a crash loses it (AcceptGroup, DeleteGroupInvite).
OpenInviteIsKept ==
    ~raced /\ Me \in invited =>
        \/ invite.n = invites \/ invites \in declined \/ invites \in ignored
        \/ \E i \in 1..Len(inbox) : inbox[i].kind = "invite" /\ inbox[i].n = invites

\* What the history says was sent to the group the relay took (SendGroup, reactGroup).
HistoryWasTaken == history \subseteq taken
===============================================================================

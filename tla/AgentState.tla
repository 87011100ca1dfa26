------------------------------ MODULE AgentState -------------------------------
(***************************************************************************)
(* What the agent keeps both in memory and in rows of the meta table       *)
(* (internal/agent/agent.go, ops.go): the target of the next reply or      *)
(* reaction, which the read loop sets and Reply and React read, and the    *)
(* agent's status, which Status sets in memory, in two rows and at the     *)
(* relay, and which onReady asserts at the relay after an authentication   *)
(* and Start reads after a restart.  Each row and each frame is a step of  *)
(* its own.  A reaction to a message named by its id is left out: it takes *)
(* its target from the history.                                            *)
(*                                                                         *)
(* Messages and statuses are numbered; 0 is the absence of a message and   *)
(* the status the agent starts with.                                       *)
(***************************************************************************)
EXTENDS Naturals, FiniteSets

CONSTANTS
    Callers,       \* concurrent operations
    MaxMessages,
    InGroup,       \* the numbers of the messages that come from a group
    MaxCalls, MaxConns, MaxCrashes, \* bounds
    Unset          \* the relay has no status on this connection

ASSUME AgentStateAssumption ==
    /\ {MaxMessages, MaxCalls, MaxConns, MaxCrashes} \subseteq Nat
    /\ InGroup \subseteq 1..MaxMessages

VARIABLES
    target,   \* memory: sender, group and id of the last message
    row,      \* the rows of the three
    done,     \* messages handled
    writing,  \* what handling the next message has left to write, or "none"
    torn,     \* a crash came between those writes
    status,   \* memory: state and text
    saved,    \* the rows of both
    relay,    \* the status the relay has of this connection, or Unset
    authed,
    onReady,  \* [step, v]: "none", "assert" or "flush", and the status read
    passed,   \* this connection's onReady was skipped, the previous one running
    crossed,  \* the last status sent was not the one in memory by then
    call,     \* per caller
    calls, conns, crashes

replyVars    == <<target, row, done, writing, torn>>
presenceVars == <<status, saved, relay, authed, onReady, passed, crossed>>
counters     == <<calls, conns, crashes>>
vars == <<replyVars, presenceVars, call, counters>>

NoTarget == [from |-> 0, group |-> 0, id |-> 0]
StatusOf(n) == [state |-> n, text |-> n]
TargetOf(m) == [from |-> m, group |-> IF m \in InGroup THEN m ELSE 0, id |-> m]

Idle == [op |-> "none", step |-> "none", to |-> NoTarget, since |-> 0, mixed |-> FALSE, v |-> 0]

Init ==
    /\ target = NoTarget /\ row = NoTarget /\ done = 0 /\ writing = "none" /\ torn = FALSE
    /\ status = StatusOf(0) /\ saved = StatusOf(0) /\ relay = Unset /\ authed = FALSE
    /\ onReady = [step |-> "none", v |-> StatusOf(0)] /\ passed = FALSE /\ crossed = FALSE
    /\ call = [c \in Callers |-> Idle]
    /\ calls = 0 /\ conns = 0 /\ crashes = 0

At(c, op, step) == call[c].op = op /\ call[c].step = step

Begin(c) == call[c] = Idle /\ calls < MaxCalls /\ calls' = calls + 1

-----------------------------------------------------------------------------
(* The reply target                                                         *)

\* Faulty variant: a direct message leaves the group as it was.
SetLastInboundKeeping ==
    /\ writing = "none" /\ authed /\ done < MaxMessages
    /\ target' = [TargetOf(done + 1) EXCEPT !.group = IF done + 1 \in InGroup THEN @ ELSE target.group]
    /\ writing' = "from"
    /\ UNCHANGED <<row, done, torn, presenceVars, call, counters>>

\* setLastInbound, of a message that is neither pending nor muted: memory first.  A
\* message cut off by a crash was not acked and comes again.
SetLastInbound ==
    /\ writing = "none" /\ authed /\ done < MaxMessages
    /\ target' = TargetOf(done + 1) /\ writing' = "from"
    /\ UNCHANGED <<row, done, torn, presenceVars, call, counters>>

\* The caller is reading the rows.
Reading(c) == call[c].op \in {"reply", "react"} /\ call[c].step \in {"from", "group", "id"}

\* MetaSet, three times.
StoreTarget ==
    /\ \/ /\ writing = "from"
          /\ row' = [row EXCEPT !.from = target.from] /\ writing' = "group"
          /\ UNCHANGED <<done, torn>>
       \/ /\ writing = "group"
          /\ row' = [row EXCEPT !.group = target.group] /\ writing' = "id"
          /\ UNCHANGED <<done, torn>>
       \/ /\ writing = "id"
          /\ row' = [row EXCEPT !.id = target.id] /\ writing' = "none"
          /\ done' = done + 1 /\ torn' = FALSE
    /\ call' = [c \in Callers |-> IF Reading(c) THEN [call[c] EXCEPT !.mixed = TRUE] ELSE call[c]]
    /\ UNCHANGED <<target, presenceVars, counters>>

\* getLastInbound takes the memory's target, or reads the rows if there is none.
GetLastInbound(c, op) ==
    /\ Begin(c)
    /\ call' = [call EXCEPT ![c] =
         [Idle EXCEPT !.op = op, !.since = done, !.to = target,
                      !.step = IF target.from = 0 /\ target.id = 0 THEN "from" ELSE "send",
                      !.mixed = target.from = 0 /\ torn]]
    /\ UNCHANGED <<replyVars, presenceVars, conns, crashes>>

Reply(c) == GetLastInbound(c, "reply")

React(c) == GetLastInbound(c, "react")

\* MetaGet, three times.
ReadRow(c) ==
    /\ call[c].op \in {"reply", "react"}
    /\ \/ /\ call[c].step = "from"
          /\ call' = [call EXCEPT ![c].step = "group", ![c].to.from = row.from]
       \/ /\ call[c].step = "group"
          /\ call' = [call EXCEPT ![c].step = "id", ![c].to.group = row.group]
       \/ /\ call[c].step = "id"
          /\ call' = [call EXCEPT ![c].step = "send", ![c].to.id = row.id]
    /\ UNCHANGED <<replyVars, presenceVars, counters>>

\* SendGroup if there is a group, Send if there is a sender, or an error.
SendReply(c) ==
    /\ At(c, "reply", "send") /\ call' = [call EXCEPT ![c] = Idle]
    /\ UNCHANGED <<replyVars, presenceVars, counters>>

\* reactGroup if there is a group, a reaction frame to the sender if there is none, or
\* an error.
SendReaction(c) ==
    /\ At(c, "react", "send") /\ call' = [call EXCEPT ![c] = Idle]
    /\ UNCHANGED <<replyVars, presenceVars, counters>>

-----------------------------------------------------------------------------
(* Status and presence                                                      *)

\* SetPresence, with what its caller read or was given: an error if the session is
\* not ready.
SetPresence(v) ==
    IF authed THEN relay' = v /\ crossed' = (v # status) /\ passed' = FALSE
    ELSE UNCHANGED <<relay, crossed, passed>>

Status(c) ==
    /\ Begin(c)
    /\ status' = StatusOf(calls')
    /\ call' = [call EXCEPT ![c] = [Idle EXCEPT !.op = "status", !.step = "state", !.v = calls']]
    /\ UNCHANGED <<replyVars, saved, relay, authed, onReady, passed, crossed, conns, crashes>>

StoreStatus(c) ==
    /\ \/ At(c, "status", "state")
          /\ saved' = [saved EXCEPT !.state = call[c].v]
          /\ call' = [call EXCEPT ![c].step = "text"]
       \/ At(c, "status", "text")
          /\ saved' = [saved EXCEPT !.text = call[c].v]
          /\ call' = [call EXCEPT ![c].step = "relay"]
    /\ UNCHANGED <<replyVars, status, relay, authed, onReady, passed, crossed, counters>>

SendStatus(c) ==
    /\ At(c, "status", "relay")
    /\ SetPresence(StatusOf(call[c].v)) /\ call' = [call EXCEPT ![c] = Idle]
    /\ UNCHANGED <<replyVars, status, saved, authed, onReady, counters>>

\* Authentication, and launchOnReady: one onReady at a time.
Authenticated ==
    /\ ~authed /\ conns < MaxConns /\ conns' = conns + 1
    /\ authed' = TRUE /\ relay' = Unset /\ crossed' = FALSE
    /\ passed' = (onReady.step # "none")
    /\ onReady' = IF passed' THEN onReady ELSE [step |-> "assert", v |-> status]
    /\ UNCHANGED <<replyVars, status, saved, call, calls, crashes>>

\* Faulty variant: the status is not asserted.
OnReadyFlushing ==
    /\ onReady.step # "none"
    /\ onReady' = [onReady EXCEPT !.step = IF @ = "assert" THEN "flush" ELSE "none"]
    /\ UNCHANGED <<replyVars, status, saved, relay, authed, passed, crossed, call, counters>>

\* onReady asserts the status it read, and flushes the outbox.
OnReady ==
    /\ \/ onReady.step = "assert" /\ SetPresence(onReady.v) /\ onReady' = [onReady EXCEPT !.step = "flush"]
       \/ onReady.step = "flush" /\ onReady' = [onReady EXCEPT !.step = "none"]
          /\ UNCHANGED <<relay, crossed, passed>>
    /\ UNCHANGED <<replyVars, status, saved, authed, call, counters>>

Disconnected ==
    /\ authed /\ authed' = FALSE /\ relay' = Unset
    /\ UNCHANGED <<replyVars, status, saved, onReady, passed, crossed, call, counters>>

\* The process dies.  Start reads the status; the reply target is left to the rows.
Restart ==
    /\ crashes < MaxCrashes /\ crashes' = crashes + 1
    /\ target' = NoTarget /\ writing' = "none" /\ torn' = (torn \/ writing \in {"group", "id"})
    /\ status' = saved
    /\ onReady' = [step |-> "none", v |-> StatusOf(0)]
    /\ authed' = FALSE /\ relay' = Unset /\ passed' = FALSE /\ crossed' = FALSE
    /\ call' = [c \in Callers |-> Idle]
    /\ UNCHANGED <<row, done, saved, calls, conns>>

-----------------------------------------------------------------------------
Operation(c) ==
    \/ Reply(c) \/ React(c) \/ ReadRow(c) \/ SendReply(c) \/ SendReaction(c)
    \/ Status(c) \/ StoreStatus(c) \/ SendStatus(c)

Next ==
    \/ SetLastInbound \/ StoreTarget
    \/ Authenticated \/ OnReady \/ Disconnected \/ Restart
    \/ \E c \in Callers : Operation(c)

Spec == Init /\ [][Next]_vars

-----------------------------------------------------------------------------
(* Properties                                                               *)

\* A reply goes where one message came from, and a reaction besides names that very
\* message, which is not older than the last one handled before the call, be it before
\* a restart: unless the call read the rows after a crash or during a write that left
\* them partly of one message and partly of another (setLastInbound, getLastInbound).
ReplyIsToOneMessage ==
    \A c \in Callers :
        call[c].op \in {"reply", "react"} /\ call[c].step = "send" /\ ~call[c].mixed =>
            \E m \in 0..MaxMessages :
                m >= call[c].since /\ call[c].to = (IF m = 0 THEN NoTarget ELSE TargetOf(m))

\* When nothing is under way on an authenticated connection, the relay has the status
\* the agent has, whether it was set before, between or after connections: unless a
\* status sent last was overtaken in memory, or the authentication found the previous
\* onReady still running (Status, onReady, launchOnReady).
RelayHasTheStatus ==
    (/\ authed /\ onReady.step = "none"
     /\ \A c \in Callers : call[c].op # "status")
      => relay = status \/ crossed \/ passed
===============================================================================

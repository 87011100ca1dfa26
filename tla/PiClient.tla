------------------------------- MODULE PiClient --------------------------------
(***************************************************************************)
(* The pi adapter (adapters/pi/src/core.ts, index.ts): one AttnMeshClient, *)
(* its WebSocket to the daemon with the reconnect timer, the frames it     *)
(* injects, and attn_send and attn_reply, which choose between the local   *)
(* mesh and the relay.                                                     *)
(*                                                                         *)
(* JavaScript runs one handler at a time: a step is one event (a call, a   *)
(* socket event, a timer, an answer).  Sockets is the set of sockets that  *)
(* can exist at once; a dead one is used again.  How a socket emits its    *)
(* events, and the daemon, are external.                                   *)
(*                                                                         *)
(* No name of this module is one of OpencodeBridge's: AdapterProofs        *)
(* extends both.                                                           *)
(***************************************************************************)
EXTENDS Naturals

CONSTANTS
    Sockets, Peers,
    Calls,       \* who calls send, one call after the other
    Self,        \* this session's name
    None,        \* no socket, no peer
    MaxStarts,   \* bound on session_start
    MaxOutages,  \* bound on the times the daemon dies
    MaxErrors,   \* bound on 'error' events of an open socket and throwing constructors
    MaxChanges   \* bound on changes of the daemon's list of sessions

ASSUME PiAssumption ==
    /\ None \notin Sockets \cup Peers \cup {Self} /\ Self \notin Peers
    /\ {MaxStarts, MaxOutages, MaxErrors, MaxChanges} \subseteq Nat

VARIABLES
    sock,      \* per socket: "none", "connecting", "open", "closing" or "dead"
    ws,        \* the client's socket, or None
    timer,     \* reconnectTimer is set
    stopped,
    starts,
    lastInboundFrom,
    localPeers,\* the cache of the daemon's sessions
    pc,        \* per call of send: its progress
    target,    \* per call: whom it is for
    answer,    \* per call: the sessions the daemon answers with
    outcome,   \* per call: "none", "local", "relay" or "failed"
    up, outages, errors,
    sessions, changes, \* the sessions registered at the daemon, this one excepted
    lostSockets, \* sockets that a handler of another socket took out of ws
    seen       \* per call: the peers registered while it asked

connVars  == <<sock, ws, timer, stopped, starts, errors, lostSockets>>
callVars  == <<localPeers, pc, target, answer, outcome, seen>>
envVars   == <<up, outages, sessions, changes>>
clientVars == <<connVars, callVars, envVars, lastInboundFrom>>

ClientInit ==
    /\ sock = [s \in Sockets |-> "none"] /\ ws = None /\ timer = FALSE
    /\ stopped = FALSE /\ starts = 0 /\ lastInboundFrom = None
    /\ localPeers = {} /\ pc = [c \in Calls |-> "idle"]
    /\ target = [c \in Calls |-> None] /\ answer = [c \in Calls |-> {}]
    /\ outcome = [c \in Calls |-> "none"] /\ seen = [c \in Calls |-> {}]
    /\ up \in BOOLEAN /\ outages = 0 /\ errors = 0
    /\ sessions \in SUBSET Peers /\ changes = 0 /\ lostSockets = {}

-----------------------------------------------------------------------------
(* The socket's life cycle                                                  *)

Live == {s \in Sockets : sock[s] \in {"connecting", "open"}}

\* Faulty variant: the old socket is left open.
AfterNoClose == sock

\* ws.close(): the handshake is aborted, or the close handshake begins; the close
\* event comes later.
AfterClose == [s \in Sockets |-> IF s = ws /\ s \in Live THEN "closing" ELSE sock[s]]

\* The constructor makes a socket ...
New(s) ==
    /\ ws' = s /\ timer' = FALSE
    /\ sock' = [AfterClose EXCEPT ![s] = "connecting"]
    /\ lostSockets' = lostSockets \ {s}
    /\ UNCHANGED errors

\* Faulty variant: a constructor that throws is not retried.
ThrowsForGood ==
    /\ errors < MaxErrors /\ errors' = errors + 1
    /\ ws' = None /\ timer' = FALSE
    /\ sock' = AfterClose
    /\ UNCHANGED lostSockets

\* ... or throws, and connect schedules the next attempt.
Throws ==
    /\ errors < MaxErrors /\ errors' = errors + 1
    /\ ws' = None /\ timer' = TRUE
    /\ sock' = AfterClose
    /\ UNCHANGED lostSockets

\* The sockets that do not exist.
Free == {s \in Sockets : sock[s] \in {"none", "dead"}}

\* connect, when not stopped: clears the timer, closes the socket it knows, makes
\* another one; Sockets bounds how many there are at once.
Connect == (Free # {} /\ New(CHOOSE s \in Free : TRUE)) \/ Throws

\* start, on session_start: also while connected.
Start ==
    /\ starts < MaxStarts
    /\ starts' = starts + 1
    /\ stopped' = FALSE
    /\ Connect
    /\ UNCHANGED <<callVars, envVars, lastInboundFrom>>

\* stop, on session_shutdown.
Stop ==
    /\ starts > 0 /\ ~stopped
    /\ stopped' = TRUE /\ timer' = FALSE /\ ws' = None /\ sock' = AfterClose
    /\ UNCHANGED <<starts, errors, lostSockets, callVars, envVars, lastInboundFrom>>

\* The timer's callback.
TimerFires ==
    /\ timer
    /\ Connect
    /\ UNCHANGED <<stopped, starts, callVars, envVars, lastInboundFrom>>

\* Faulty variant: a client that had lost its socket is not scheduled.
DropOnlyCurrent(s) ==
    /\ ws' = None
    /\ timer' = (timer \/ (~stopped /\ ws = s))
    /\ lostSockets' = lostSockets \cup ({ws} \ {s, None})

\* The handlers of 'close' and 'error': they clear ws whichever socket it is, and
\* scheduleReconnect sets the timer unless it is set, or the client is stopped.
Drop(s) ==
    /\ ws' = None
    /\ timer' = (timer \/ ~stopped)
    /\ lostSockets' = lostSockets \cup ({ws} \ {s, None})

\* External: the daemon accepts the connection.
Open(s) ==
    /\ sock[s] = "connecting" /\ up
    /\ sock' = [sock EXCEPT ![s] = "open"]
    /\ UNCHANGED <<ws, timer, stopped, starts, errors, lostSockets, callVars, envVars, lastInboundFrom>>

\* 'close', after a close handshake or a broken connection; a connection that is
\* refused emits 'error' and 'close' together.
Closed(s) ==
    /\ sock[s] = "closing" \/ (sock[s] = "connecting" /\ ~up)
    /\ sock' = [sock EXCEPT ![s] = "dead"]
    /\ Drop(s)
    /\ UNCHANGED <<stopped, starts, errors, callVars, envVars, lastInboundFrom>>

\* 'error' of an open socket: it then closes by itself, and emits 'close' later.
ErrorEvent(s) ==
    /\ sock[s] = "open" /\ errors < MaxErrors
    /\ errors' = errors + 1
    /\ sock' = [sock EXCEPT ![s] = "closing"]
    /\ Drop(s)
    /\ UNCHANGED <<stopped, starts, callVars, envVars, lastInboundFrom>>

\* External: the daemon dies, and every connection with it, or comes back.
DaemonDies ==
    /\ up /\ outages < MaxOutages
    /\ up' = FALSE /\ outages' = outages + 1
    /\ sock' = [s \in Sockets |-> IF s \in Live THEN "closing" ELSE sock[s]]
    /\ UNCHANGED <<ws, timer, stopped, starts, errors, lostSockets, callVars, sessions, changes,
                   lastInboundFrom>>

DaemonStarts ==
    /\ ~up /\ up' = TRUE
    /\ UNCHANGED <<connVars, callVars, outages, sessions, changes, lastInboundFrom>>

-----------------------------------------------------------------------------
(* Messages and sends                                                       *)

\* handleFrame: a message, a file or a reaction is injected and names whom
\* attn_reply answers.  A socket that is closing still delivers.  A frame from this
\* session itself, one that is not JSON and a local-ack do nothing.
HandleFrame(s, p) ==
    /\ sock[s] \in {"open", "closing"} /\ p # Self
    /\ lastInboundFrom' = p
    /\ UNCHANGED <<connVars, callVars, envVars>>

\* External: sessions come and go at the daemon.
SessionsChange(p) ==
    /\ changes < MaxChanges
    /\ changes' = changes + 1
    /\ sessions' = (sessions \ {p}) \cup ({p} \ sessions)
    /\ seen' = [c \in Calls |-> IF pc[c] = "asking" THEN seen[c] \cup sessions' ELSE seen[c]]
    /\ UNCHANGED <<connVars, localPeers, pc, target, answer, outcome, up, outages,
                   lastInboundFrom>>

\* send(to), up to the await of GET /local-peers.
Send(c, p) ==
    /\ pc[c] \in {"idle", "done"}
    /\ pc' = [pc EXCEPT ![c] = "asking"]
    /\ outcome' = [outcome EXCEPT ![c] = "none"]
    /\ target' = [target EXCEPT ![c] = p]
    /\ seen' = [seen EXCEPT ![c] = sessions]
    /\ UNCHANGED <<connVars, envVars, lastInboundFrom, localPeers, answer>>

\* attn_reply: to the sender of the most recent message.
Reply(c) == lastInboundFrom # None /\ Send(c, lastInboundFrom)

\* External: the daemon reads its registry; the answer is on its way.
Answer(c) ==
    /\ pc[c] = "asking" /\ up
    /\ pc' = [pc EXCEPT ![c] = "answered"]
    /\ answer' = [answer EXCEPT ![c] = sessions]
    /\ UNCHANGED <<connVars, envVars, lastInboundFrom, localPeers, target, outcome, seen>>

\* isConnected, and sendLocalFrame.
isConnected == ws # None /\ sock[ws] = "open"

\* The choice of the route: a session of the list over the socket, or an error;
\* anyone else over POST /send.
Route(c, list) ==
    IF target[c] \in list
      THEN /\ pc' = [pc EXCEPT ![c] = "done"]
           /\ outcome' = [outcome EXCEPT ![c] = IF isConnected THEN "local" ELSE "failed"]
      ELSE /\ pc' = [pc EXCEPT ![c] = "posting"] /\ UNCHANGED outcome

\* Faulty variant: the answer is stored after the choice.
ReceiveLate(c) ==
    /\ pc[c] = "answered"
    /\ localPeers' = answer[c]
    /\ Route(c, localPeers)
    /\ UNCHANGED <<connVars, envVars, lastInboundFrom, target, answer, seen>>

\* fetchLocalPeers returns: the cache is replaced, and decides.
Receive(c) ==
    /\ pc[c] = "answered"
    /\ localPeers' = answer[c]
    /\ Route(c, localPeers')
    /\ UNCHANGED <<connVars, envVars, lastInboundFrom, target, answer, seen>>

\* The read fails: the cache of an earlier answer decides.
ListFails(c) ==
    /\ pc[c] \in {"asking", "answered"} /\ ~up
    /\ Route(c, localPeers)
    /\ seen' = [seen EXCEPT ![c] = Peers]
    /\ UNCHANGED <<connVars, envVars, lastInboundFrom, localPeers, target, answer>>

\* POST /send is answered, or fails.
Posted(c) ==
    /\ pc[c] = "posting"
    /\ pc' = [pc EXCEPT ![c] = "done"]
    /\ \E o \in {"relay", "failed"} : outcome' = [outcome EXCEPT ![c] = o]
    /\ UNCHANGED <<connVars, envVars, lastInboundFrom, localPeers, target, answer, seen>>

\* send('all'): a local frame at once.
Broadcast(c) ==
    /\ pc[c] \in {"idle", "done"}
    /\ pc' = [pc EXCEPT ![c] = "done"] /\ target' = [target EXCEPT ![c] = None]
    /\ outcome' = [outcome EXCEPT ![c] = IF isConnected THEN "local" ELSE "failed"]
    /\ UNCHANGED <<connVars, envVars, lastInboundFrom, localPeers, answer, seen>>

-----------------------------------------------------------------------------
Socket(s) == Open(s) \/ Closed(s) \/ ErrorEvent(s) \/ \E p \in Peers \cup {Self} : HandleFrame(s, p)

Call(c) ==
    \/ (\E p \in Peers : Send(c, p)) \/ Reply(c) \/ Answer(c) \/ Receive(c)
    \/ ListFails(c) \/ Posted(c) \/ Broadcast(c)

ClientNext ==
    \/ Start \/ Stop \/ TimerFires \/ DaemonDies \/ DaemonStarts
    \/ \E s \in Sockets : Socket(s)
    \/ \E p \in Peers : SessionsChange(p)
    \/ \E c \in Calls : Call(c)

ClientSpec == ClientInit /\ [][ClientNext]_clientVars

\* The event loop runs what is due: a timer, an accepted connection, a close.
FairClientSpec ==
    /\ ClientSpec
    /\ WF_clientVars(TimerFires)
    /\ \A s \in Sockets : WF_clientVars(Open(s)) /\ WF_clientVars(Closed(s))

-----------------------------------------------------------------------------
(* Properties                                                               *)

\* A client that was started and not stopped is never left alone: its timer is set,
\* or it has a socket whose close event will set it, and never both; a stopped one
\* has neither, whatever close events are still to come (connect, scheduleReconnect).
NeverIdle ==
    /\ timer => ws = None /\ ~stopped
    /\ stopped => ws = None
    /\ starts > 0 /\ ~stopped /\ ~timer =>
         ws # None /\ sock[ws] \in {"connecting", "open", "closing"}

\* A live socket the client has lost sight of, which stop does not close and which
\* injects each frame once more, was taken out of ws by the handler of another
\* socket; there is no other way to lose one (the 'close' and 'error' handlers of
\* connect, closeSocket).
UntrackedAreTaken == Live \ {ws} \subseteq lostSockets

\* A send that goes to a local session names one that was registered at the daemon
\* after the call was made, whatever the cache held from an earlier one, unless the
\* read of the list failed (send).
LocalTargetWasThere ==
    \A c \in Calls :
        outcome[c] = "local" /\ target[c] # None => target[c] \in seen[c]

\* A client that stays started, with a daemon that stays up, ends up connected
\* (scheduleReconnect).
ConnectedInTheEnd ==
    <>[](up /\ starts > 0 /\ ~stopped) => <>[]isConnected
===============================================================================

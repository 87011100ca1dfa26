-------------------------------- MODULE Hermes ---------------------------------
(***************************************************************************)
(* The hermes adapter: the bridge (adapters/hermes/bridge/bridge.go), which*)
(* holds one WebSocket to the daemon and POSTs each message to the         *)
(* receiver, and the receiver (adapters/hermes/plugin/attn/adapter.py),    *)
(* which drops duplicates, starts an agent turn and routes its reply.      *)
(*                                                                         *)
(* The bridge reads and forwards in one goroutine; the receiver handles    *)
(* one request at a time.  A frame is <<message, n>>, the n-th of all: the *)
(* relay may redeliver, so the daemon may surface a message again.  All    *)
(* messages are for one channel.                                           *)
(***************************************************************************)
EXTENDS Naturals, Sequences, FiniteSets

CONSTANTS
    Messages, Peers,
    Sender,       \* Sender[m]: the peer m is from
    None,         \* no frame, no peer
    SeenCap,      \* the bridge's seenCap, 4096 in the code
    ReceiverMax,  \* the receiver's _IDEMPOTENCY_MAX, 8192 in the code
    MaxSurfaced,  \* bound on the frames the daemon surfaces
    MaxFailures   \* bound on failures: of connections, posts and processes,
                  \* and on ids that grow too old

ASSUME HermesAssumption ==
    /\ Sender \in [Messages -> Peers] /\ None \notin Peers \cup (Messages \X Nat)
    /\ {SeenCap, ReceiverMax} \subseteq Nat \ {0} /\ {MaxSurfaced, MaxFailures} \subseteq Nat

Frames == Messages \X (1..MaxSurfaced)

VARIABLES
    link,      \* the bridge's connection: "down", "up" or "broken"
    wire,      \* the frames on it that the bridge has not read
    surfaced,  \* how many frames the daemon has surfaced
    doing,     \* the frame the bridge is forwarding, or None
    reply,     \* the receiver's answer to that post: "none" or "ok"
    seen,      \* the bridge's set of ids
    posts,     \* the frames whose post has not reached the receiver
    known,     \* the receiver's ids, oldest first
    last_from,
    turns,     \* messages whose agent turn is under way, in the order they came
    runs,      \* per message: how many turns it started
    forgot,    \* per message: how often the receiver forgot its id
    accepted,  \* messages the receiver has ever taken
    replies,   \* <<the message a turn was about, whom its reply went to,
               \* the senders taken since>>
    since,     \* per message of turns: those senders
    failures

bridgeVars == <<link, wire, doing, reply, seen>>
recvVars   == <<known, last_from, turns, runs, forgot, accepted, replies, since>>
vars == <<bridgeVars, recvVars, surfaced, posts, failures>>

Init ==
    /\ link = "down" /\ wire = <<>> /\ surfaced = 0
    /\ doing = None /\ reply = "none" /\ seen = {} /\ posts = {}
    /\ known = <<>> /\ last_from = None /\ turns = {}
    /\ runs = [m \in Messages |-> 0] /\ forgot = [m \in Messages |-> 0]
    /\ accepted = {} /\ replies = {} /\ since = [m \in Messages |-> {}]
    /\ failures = 0

Fail == failures < MaxFailures /\ failures' = failures + 1

Ids(s) == {s[i] : i \in 1..Len(s)}

-----------------------------------------------------------------------------
(* The bridge's connection: Run and runOnce                                 *)

\* A dial that fails is a longer sleep; the delay only doubles, to its bound.
Dial ==
    /\ link = "down" /\ doing = None
    /\ link' = "up"
    /\ UNCHANGED <<wire, doing, reply, seen, recvVars, surfaced, posts, failures>>

\* External: the connection breaks; frames the bridge has not read may be lost.
Break ==
    /\ link = "up" /\ Fail
    /\ link' = "broken" /\ wire' \in {wire, <<>>}
    /\ UNCHANGED <<doing, reply, seen, recvVars, surfaced, posts>>

\* Faulty variant: no read deadline, so a silent connection is never left.
ReadFailsOnData ==
    /\ link = "broken" /\ doing = None /\ wire # <<>>
    /\ link' = "down" /\ wire' = <<>>
    /\ UNCHANGED <<doing, reply, seen, recvVars, surfaced, posts, failures>>

\* ReadMessage fails, between two frames: runOnce returns.
ReadFails ==
    /\ link = "broken" /\ doing = None
    /\ link' = "down" /\ wire' = <<>>
    /\ UNCHANGED <<doing, reply, seen, recvVars, surfaced, posts, failures>>

\* External: the daemon surfaces a message to its subscribers.
Surface(m) ==
    /\ surfaced < MaxSurfaced
    /\ surfaced' = surfaced + 1
    /\ wire' = IF link = "up" THEN Append(wire, <<m, surfaced'>>) ELSE wire
    /\ UNCHANGED <<link, doing, reply, seen, recvVars, posts, failures>>

-----------------------------------------------------------------------------
(* The bridge's frames: handleFrame                                         *)

\* alreadySeen: a full set is dropped as a whole.
Mark(m) == IF Cardinality(seen) >= SeenCap THEN {m} ELSE seen \cup {m}

\* shouldForward keeps messages and files that have a body and are not from this
\* session; a message whose id was seen is skipped, another is posted.
Read ==
    /\ link # "down" /\ doing = None /\ wire # <<>>
    /\ wire' = Tail(wire)
    /\ LET f == Head(wire) IN
         IF f[1] \in seen
           THEN UNCHANGED <<doing, seen, posts>>
           ELSE doing' = f /\ seen' = Mark(f[1]) /\ posts' = posts \cup {f}
    /\ reply' = "none"
    /\ UNCHANGED <<link, recvVars, surfaced, failures>>

\* forward returns: the receiver answered 2xx.
Forwarded ==
    /\ doing # None /\ reply = "ok"
    /\ doing' = None /\ reply' = "none"
    /\ UNCHANGED <<link, wire, seen, recvVars, surfaced, posts, failures>>

\* Faulty variant: the id is kept.
ForwardFailsKeeping ==
    /\ doing # None /\ Fail
    /\ doing' = None /\ reply' = "none"
    /\ posts' \in {posts, posts \ {doing}}
    /\ UNCHANGED <<link, wire, seen, recvVars, surfaced>>

\* forward fails: an error, a timeout of 30 s with the request or its answer still
\* under way.  forget makes the id new again.
ForwardFails ==
    /\ doing # None /\ Fail
    /\ doing' = None /\ reply' = "none"
    /\ seen' = seen \ {doing[1]}
    /\ posts' \in {posts, posts \ {doing}}
    /\ UNCHANGED <<link, wire, recvVars, surfaced>>

\* The process dies and is started again.
BridgeRestarts ==
    /\ Fail
    /\ link' = "down" /\ wire' = <<>> /\ doing' = None /\ reply' = "none" /\ seen' = {}
    /\ UNCHANGED <<recvVars, surfaced, posts>>

-----------------------------------------------------------------------------
(* The receiver: _handle_inbound, the agent's turn, send                    *)

\* _is_duplicate's cap: the newest ReceiverMax ids are kept.
Sweep == IF Len(known) > ReceiverMax
           THEN SubSeq(known, Len(known) - ReceiverMax + 1, Len(known)) ELSE known

Forgetting(old, new) ==
    forgot' = [m \in Messages |-> IF m \in Ids(old) \ Ids(new) THEN forgot[m] + 1 ELSE forgot[m]]

\* The answer, when the bridge still waits for it.
Answer(f) == reply' = IF doing = f THEN "ok" ELSE reply

\* Faulty variant: the last sender is set before the duplicate is found.
DuplicateRemembering(f) ==
    /\ f \in posts /\ f[1] \in Ids(Sweep)
    /\ posts' = posts \ {f} /\ known' = Sweep /\ Forgetting(known, Sweep)
    /\ Answer(f) /\ last_from' = Sender[f[1]]
    /\ UNCHANGED <<link, wire, doing, seen, turns, runs, accepted, replies, since, surfaced,
                   failures>>

\* An id the receiver knows is answered 200 and nothing runs.
Duplicate(f) ==
    /\ f \in posts /\ f[1] \in Ids(Sweep)
    /\ posts' = posts \ {f} /\ known' = Sweep /\ Forgetting(known, Sweep)
    /\ Answer(f)
    /\ UNCHANGED <<link, wire, doing, seen, last_from, turns, runs, accepted, replies, since,
                   surfaced, failures>>

\* Faulty variant: the id is not recorded.
AcceptForgetful(f) ==
    /\ f \in posts /\ f[1] \notin Ids(Sweep)
    /\ posts' = posts \ {f} /\ known' = Sweep
    /\ Forgetting(known, Sweep)
    /\ last_from' = Sender[f[1]]
    /\ turns' = turns \cup {f[1]} /\ runs' = [runs EXCEPT ![f[1]] = @ + 1]
    /\ accepted' = accepted \cup {f[1]}
    /\ since' = [m \in Messages |->
                   IF m = f[1] THEN {Sender[m]}
                   ELSE IF m \in turns THEN since[m] \cup {Sender[f[1]]} ELSE since[m]]
    /\ Answer(f)
    /\ UNCHANGED <<link, wire, doing, seen, replies, surfaced, failures>>

\* Another is recorded, its sender becomes the channel's last one, and a task runs
\* the turn; the answer is 202 at once.
Accept(f) ==
    /\ f \in posts /\ f[1] \notin Ids(Sweep)
    /\ posts' = posts \ {f} /\ known' = Append(Sweep, f[1])
    /\ Forgetting(known, Sweep)
    /\ last_from' = Sender[f[1]]
    /\ turns' = turns \cup {f[1]} /\ runs' = [runs EXCEPT ![f[1]] = @ + 1]
    /\ accepted' = accepted \cup {f[1]}
    /\ since' = [m \in Messages |->
                   IF m = f[1] THEN {Sender[m]}
                   ELSE IF m \in turns THEN since[m] \cup {Sender[f[1]]} ELSE since[m]]
    /\ Answer(f)
    /\ UNCHANGED <<link, wire, doing, seen, replies, surfaced, failures>>

\* An id older than _IDEMPOTENCY_TTL, an hour, is swept.
Expire ==
    /\ known # <<>> /\ Fail
    /\ known' = Tail(known) /\ Forgetting(known, Tail(known))
    /\ UNCHANGED <<bridgeVars, last_from, turns, runs, accepted, replies, since, surfaced, posts>>

\* send, at the end of a turn: the reply goes to the channel's last sender.
Reply(m) ==
    /\ m \in turns
    /\ turns' = turns \ {m}
    /\ replies' = replies \cup {<<m, last_from, since[m]>>}
    /\ UNCHANGED <<bridgeVars, known, last_from, runs, forgot, accepted, since, surfaced, posts,
                   failures>>

\* The receiver's process dies and is started again: its tables and turns are gone.
ReceiverRestarts ==
    /\ Fail
    /\ known' = <<>> /\ Forgetting(known, <<>>)
    /\ last_from' = None /\ turns' = {}
    /\ UNCHANGED <<bridgeVars, runs, accepted, replies, since, surfaced, posts>>

-----------------------------------------------------------------------------
Bridge == Dial \/ Break \/ ReadFails \/ Read \/ Forwarded \/ ForwardFails \/ BridgeRestarts

Receiver ==
    \/ \E f \in posts : Duplicate(f) \/ Accept(f)
    \/ (\E m \in turns : Reply(m)) \/ Expire \/ ReceiverRestarts

Next == Bridge \/ Receiver \/ \E m \in Messages : Surface(m)

Spec == Init /\ [][Next]_vars

\* The bridge's loop goes on, and a receiver that is up takes what was posted.
FairSpec ==
    /\ Spec
    /\ WF_vars(Dial) /\ WF_vars(ReadFails) /\ WF_vars(Read) /\ WF_vars(Forwarded)
    /\ WF_vars(\E f \in posts : Duplicate(f) \/ Accept(f))

-----------------------------------------------------------------------------
(* Properties                                                               *)

\* A message starts a second turn only if the receiver forgot its id in between:
\* however often it is redelivered, posted again after a timeout, or posted by a
\* bridge that was restarted or dropped its own set (_is_duplicate).
SecondTurnIsForgotten == \A m \in Messages : runs[m] <= 1 + forgot[m]

\* An id the bridge takes for seen, and is not posting, is one the receiver has
\* taken: no message is skipped that was never delivered (alreadySeen, forget).
SeenWasAccepted ==
    \A m \in seen : m \in accepted \/ (doing # None /\ doing[1] = m)

\* A reply goes to the sender of the message its turn was about, or to one whose
\* message was taken while the turn ran: never to an earlier one (send).
ReplyIsNotStale == \A r \in replies : r[2] \in r[3]

\* The bridge works off what it is sent: in the end it is connected again, has read
\* every frame, and waits for no post.  A post that failed is not repeated (Run,
\* runOnce, handleFrame).
DrainsInTheEnd == <>[](link = "up" /\ wire = <<>> /\ doing = None)
===============================================================================

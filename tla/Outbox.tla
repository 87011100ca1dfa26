-------------------------------- MODULE Outbox --------------------------------
(***************************************************************************)
(* Agent.Send with its offline queue, and the flush of that queue after    *)
(* every authentication (internal/agent/ops.go, agent.go, session.go and   *)
(* the outbox table of store.go), over connections that come and go and a  *)
(* daemon that is shut down or crashes.  The outbox and the history are in *)
(* SQLite and survive; everything else is lost with the process.           *)
(*                                                                         *)
(* A connection is abstracted to what a sender can see of it: ready        *)
(* (IsReady) and whether a write reaches the relay.  RelaySession has the  *)
(* detail.                                                                 *)
(***************************************************************************)
EXTENDS Naturals, FiniteSets

CONSTANTS
    Messages,    \* one Agent.Send call each
    MaxConns,    \* bound on authenticated connections
    MaxCrashes,  \* bound on the times the process dies or exits
    MaxAttempts, \* 10 in flushOutbox
    NoMessage

ASSUME OutboxAssumption ==
    /\ IsFiniteSet(Messages) /\ NoMessage \notin Messages
    /\ MaxConns \in Nat \ {0} /\ MaxCrashes \in Nat /\ MaxAttempts \in Nat \ {0}

VARIABLES
    life,          \* the daemon: "up", "stopping" (ctx cancelled) or "down"
    crashes,       \* times it went down
    dials, ready, link,  \* the newest connection, IsReady, its socket
    outbox, ts, attempts,  \* the outbox table: its rows, and two of their columns
    history,       \* the messages table
    written,       \* per message: writes of its frame that returned no error
    relayed,       \* per message: frames of it that reached the relay
    pc, got, result,     \* per message: the Send call that carries it
    onReadyActive, \* the single-flight flag
    flush,         \* per connection: the flushOutbox its auth_ok launched
    items,         \* the rows that flush has still to visit
    snap,          \* their attempts as it read them
    cur, fgot,     \* the row in hand and the connection taken for it
    reauthed       \* rows that have seen an auth_ok since they were queued

connVars  == <<dials, ready, link>>
tableVars == <<outbox, ts, attempts, history>>
sendVars  == <<pc, got, result>>
flushVars == <<onReadyActive, flush, items, snap, cur, fgot>>
vars == <<life, crashes, connVars, tableVars, written, relayed, sendVars, flushVars, reauthed>>

Conns == 1..MaxConns

IdleFlushes ==
    /\ onReadyActive' = FALSE
    /\ flush' = [n \in Conns |-> "idle"]
    /\ items' = [n \in Conns |-> {}]
    /\ cur' = [n \in Conns |-> NoMessage]
    /\ UNCHANGED <<snap, fgot>>

Init ==
    /\ life = "up" /\ crashes = 0
    /\ dials = 0 /\ ready = FALSE /\ link = "none"
    /\ outbox = {} /\ ts = [m \in Messages |-> 0]
    /\ attempts = [m \in Messages |-> 0] /\ history = {}
    /\ written = [m \in Messages |-> 0] /\ relayed = [m \in Messages |-> 0]
    /\ pc = [m \in Messages |-> "idle"] /\ got = [m \in Messages |-> 0]
    /\ result = [m \in Messages |-> "pending"]
    /\ onReadyActive = FALSE
    /\ flush = [n \in Conns |-> "idle"] /\ items = [n \in Conns |-> {}]
    /\ snap = [n \in Conns |-> attempts] /\ cur = [n \in Conns |-> NoMessage]
    /\ fgot = [n \in Conns |-> 0]
    /\ reauthed = {}

-----------------------------------------------------------------------------
(* Writes.  A write on a connection that is no longer the newest, or whose  *)
(* peer is gone, may succeed and reach nobody.                              *)

Reaches(n) == n = dials /\ link = "up"
MayVanish(n) == n # dials \/ link \in {"lost", "none"}

\* The outcomes of writing m's frame to connection n: TRUE is a nil error.
Written(m, n, ok) ==
    \/ /\ ok /\ Reaches(n)
       /\ written' = [written EXCEPT ![m] = @ + 1]
       /\ relayed' = [relayed EXCEPT ![m] = @ + 1]
    \/ /\ ok /\ MayVanish(n)
       /\ written' = [written EXCEPT ![m] = @ + 1]
       /\ UNCHANGED relayed
    \/ /\ ~ok /\ ~Reaches(n)
       /\ UNCHANGED <<written, relayed>>

-----------------------------------------------------------------------------
(* The connection and the daemon                                            *)

\* Faulty variant: no single flight.
AuthenticateAlwaysLaunching ==
    /\ life = "up" /\ ~ready /\ link = "none" /\ dials < MaxConns
    /\ dials' = dials + 1 /\ ready' = TRUE /\ link' = "up"
    /\ reauthed' = reauthed \cup outbox
    /\ onReadyActive' = TRUE
    /\ flush' = [flush EXCEPT ![dials + 1] = "start"]
    /\ UNCHANGED <<life, crashes, tableVars, written, relayed, sendVars, items, snap, cur,
                   fgot>>

\* auth_ok, with launchOnReady: skipped while an earlier flush still runs.
Authenticate ==
    /\ life = "up" /\ ~ready /\ link = "none" /\ dials < MaxConns
    /\ dials' = dials + 1 /\ ready' = TRUE /\ link' = "up"
    /\ reauthed' = reauthed \cup outbox
    /\ IF onReadyActive
         THEN UNCHANGED <<onReadyActive, flush>>
         ELSE /\ onReadyActive' = TRUE
              /\ flush' = [flush EXCEPT ![dials + 1] = "start"]
    /\ UNCHANGED <<life, crashes, tableVars, written, relayed, sendVars, items, snap, cur,
                   fgot>>

\* External: the peer goes away ("lost"), or a watchdog closes the socket.
LinkBreaks ==
    /\ link \in {"up", "lost"} /\ life # "down"
    /\ link' \in {"lost", "closed"} \ {link}
    /\ UNCHANGED <<life, crashes, dials, ready, tableVars, written, relayed, sendVars,
                   flushVars, reauthed>>

\* The read loop notices.
Disconnect ==
    /\ link \in {"lost", "closed"} /\ life # "down"
    /\ ready' = FALSE /\ link' = "none"
    /\ UNCHANGED <<life, crashes, dials, tableVars, written, relayed, sendVars, flushVars,
                   reauthed>>

Shutdown ==
    /\ life = "up"
    /\ life' = "stopping"
    /\ UNCHANGED <<crashes, connVars, tableVars, written, relayed, sendVars, flushVars,
                   reauthed>>

\* The process is gone, with every call in flight: a crash, or the end of main
\* 200ms after ctx is cancelled.
GoesDown ==
    /\ life \in {"up", "stopping"} /\ crashes < MaxCrashes
    /\ life' = "down" /\ crashes' = crashes + 1
    /\ ready' = FALSE /\ link' = "none"
    /\ pc' = [m \in Messages |-> IF pc[m] = "idle" THEN "idle" ELSE "done"]
    /\ IdleFlushes
    /\ UNCHANGED <<dials, tableVars, written, relayed, got, result, reauthed>>

Restart ==
    /\ life = "down"
    /\ life' = "up"
    /\ UNCHANGED <<crashes, connVars, tableVars, written, relayed, sendVars, flushVars,
                   reauthed>>

-----------------------------------------------------------------------------
(* Agent.Send                                                               *)

Return(m, r) ==
    /\ pc' = [pc EXCEPT ![m] = "done"]
    /\ result' = [result EXCEPT ![m] = r]

Goto(m, l) == pc' = [pc EXCEPT ![m] = l] /\ UNCHANGED result

\* IsReady decides between the relay and the queue; offline, a recipient whose
\* key is not cached is refused.
Send(m) ==
    /\ life # "down" /\ pc[m] = "idle"
    /\ IF ready THEN Goto(m, "conn") ELSE Goto(m, "queue") \/ Return(m, "error")
    /\ UNCHANGED <<life, crashes, connVars, tableVars, written, relayed, got, flushVars,
                   reauthed>>

\* Session.Send up to currentConn; GetKey may have failed before it.
TakeConn(m) ==
    /\ pc[m] = "conn"
    /\ \/ ready /\ got' = [got EXCEPT ![m] = dials] /\ Goto(m, "write")
       \/ Return(m, "error") /\ UNCHANGED got
    /\ UNCHANGED <<life, crashes, connVars, tableVars, written, relayed, flushVars,
                   reauthed>>

\* Faulty variant: a failed write is saved as sent.
TransmitIgnoringErrors(m) ==
    /\ pc[m] = "write"
    /\ \/ Written(m, got[m], TRUE) /\ Goto(m, "await")
       \/ Written(m, got[m], FALSE) /\ Goto(m, "save")
    /\ UNCHANGED <<life, crashes, connVars, tableVars, got, flushVars, reauthed>>

Transmit(m) ==
    /\ pc[m] = "write"
    /\ \/ Written(m, got[m], TRUE) /\ Goto(m, "await")
       \/ Written(m, got[m], FALSE) /\ Return(m, "error")
    /\ UNCHANGED <<life, crashes, connVars, tableVars, got, flushVars, reauthed>>

\* delivery_status comes back over the connection the message went out on, or
\* 15s pass: either way the call goes on to save the message as sent.
StatusOrTimeout(m) ==
    /\ pc[m] = "await"
    /\ Goto(m, "save")
    /\ UNCHANGED <<life, crashes, connVars, tableVars, written, relayed, got, flushVars,
                   reauthed>>

\* The caller's ctx ends first.
ContextDone(m) ==
    /\ pc[m] = "await"
    /\ Return(m, "error")
    /\ UNCHANGED <<life, crashes, connVars, tableVars, written, relayed, got, flushVars,
                   reauthed>>

SaveSent(m) ==
    /\ pc[m] = "save"
    /\ history' = history \cup {m}
    /\ Return(m, "sent")
    /\ UNCHANGED <<life, crashes, connVars, outbox, ts, attempts, written, relayed, got,
                   flushVars, reauthed>>

SaveOutbox(m) ==
    /\ pc[m] = "queue"
    /\ outbox' = outbox \cup {m}
    /\ ts' = [ts EXCEPT ![m] = Cardinality({k \in Messages : ts[k] > 0}) + 1]
    /\ Goto(m, "record")
    /\ UNCHANGED <<life, crashes, connVars, attempts, history, written, relayed, got,
                   flushVars, reauthed>>

SaveQueued(m) ==
    /\ pc[m] = "record"
    /\ history' = history \cup {m}
    /\ Return(m, "queued")
    /\ UNCHANGED <<life, crashes, connVars, outbox, ts, attempts, written, relayed, got,
                   flushVars, reauthed>>

-----------------------------------------------------------------------------
(* flushOutbox, one row at a time                                           *)

\* ORDER BY ts ASC
Oldest(n, m) == m \in items[n] /\ \A k \in items[n] : ts[m] <= ts[k]

FlushReads(n) ==
    /\ flush[n] = "start"
    /\ items' = [items EXCEPT ![n] = outbox]
    /\ snap' = [snap EXCEPT ![n] = attempts]
    /\ flush' = [flush EXCEPT ![n] = "loop"]
    /\ UNCHANGED <<life, crashes, connVars, tableVars, written, relayed, sendVars,
                   onReadyActive, cur, fgot, reauthed>>

\* Faulty variant: discards one attempt too early.
FlushDiscardsEarly(n, m) ==
    /\ flush[n] = "loop" /\ Oldest(n, m) /\ snap[n][m] >= MaxAttempts - 1
    /\ outbox' = outbox \ {m}
    /\ items' = [items EXCEPT ![n] = @ \ {m}]
    /\ UNCHANGED <<life, crashes, connVars, ts, attempts, history, written, relayed, sendVars,
                   onReadyActive, flush, snap, cur, fgot, reauthed>>

\* A row that has failed MaxAttempts times is discarded ...
FlushDiscards(n, m) ==
    /\ flush[n] = "loop" /\ Oldest(n, m) /\ snap[n][m] >= MaxAttempts
    /\ outbox' = outbox \ {m}
    /\ items' = [items EXCEPT ![n] = @ \ {m}]
    /\ UNCHANGED <<life, crashes, connVars, ts, attempts, history, written, relayed, sendVars,
                   onReadyActive, flush, snap, cur, fgot, reauthed>>

\* ... any other is handed to SendQueued, which takes the current connection ...
FlushTakesConn(n, m) ==
    /\ flush[n] = "loop" /\ Oldest(n, m) /\ snap[n][m] < MaxAttempts
    /\ items' = [items EXCEPT ![n] = @ \ {m}]
    /\ cur' = [cur EXCEPT ![n] = m]
    /\ fgot' = [fgot EXCEPT ![n] = dials]
    /\ flush' = [flush EXCEPT ![n] = IF ready THEN "write" ELSE "failed"]
    /\ UNCHANGED <<life, crashes, connVars, tableVars, written, relayed, sendVars,
                   onReadyActive, snap, reauthed>>

\* Faulty variant: the error of SendQueued is dropped.
FlushIgnoringErrors(n) ==
    /\ flush[n] \in {"write", "failed"}
    /\ \/ Written(cur[n], fgot[n], TRUE) \/ Written(cur[n], fgot[n], FALSE)
    /\ flush' = [flush EXCEPT ![n] = "sent"]
    /\ UNCHANGED <<life, crashes, connVars, tableVars, sendVars, onReadyActive, items, snap,
                   cur, fgot, reauthed>>

\* ... and writes to it.
FlushWrites(n) ==
    /\ flush[n] = "write"
    /\ \/ Written(cur[n], fgot[n], TRUE) /\ flush' = [flush EXCEPT ![n] = "sent"]
       \/ Written(cur[n], fgot[n], FALSE) /\ flush' = [flush EXCEPT ![n] = "failed"]
    /\ UNCHANGED <<life, crashes, connVars, tableVars, sendVars, onReadyActive, items, snap,
                   cur, fgot, reauthed>>

FlushDeletes(n) ==
    /\ flush[n] = "sent"
    /\ outbox' = outbox \ {cur[n]}
    /\ flush' = [flush EXCEPT ![n] = "loop"]
    /\ UNCHANGED <<life, crashes, connVars, ts, attempts, history, written, relayed, sendVars,
                   onReadyActive, items, snap, cur, fgot, reauthed>>

\* Faulty variant: counts down.
FlushCountsDown(n) ==
    /\ flush[n] = "failed"
    /\ attempts' = IF cur[n] \in outbox THEN [attempts EXCEPT ![cur[n]] = @ - 1]
                                        ELSE attempts
    /\ flush' = [flush EXCEPT ![n] = "loop"]
    /\ UNCHANGED <<life, crashes, connVars, outbox, ts, history, written, relayed, sendVars,
                   onReadyActive, items, snap, cur, fgot, reauthed>>

\* IncrementOutboxAttempts: an UPDATE, which finds no row that is gone.
FlushCounts(n) ==
    /\ flush[n] = "failed"
    /\ attempts' = IF cur[n] \in outbox THEN [attempts EXCEPT ![cur[n]] = @ + 1]
                                        ELSE attempts
    /\ flush' = [flush EXCEPT ![n] = "loop"]
    /\ UNCHANGED <<life, crashes, connVars, outbox, ts, history, written, relayed, sendVars,
                   onReadyActive, items, snap, cur, fgot, reauthed>>

\* The goroutine returns and the deferred Store(false) clears the flag.
FlushEnds(n) ==
    /\ flush[n] = "loop" /\ items[n] = {}
    /\ flush' = [flush EXCEPT ![n] = "idle"]
    /\ onReadyActive' = FALSE
    /\ UNCHANGED <<life, crashes, connVars, tableVars, written, relayed, sendVars, items,
                   snap, cur, fgot, reauthed>>

-----------------------------------------------------------------------------
Environment == Authenticate \/ LinkBreaks \/ Disconnect \/ Shutdown \/ GoesDown \/ Restart

Sender(m) ==
    \/ Send(m) \/ TakeConn(m) \/ Transmit(m) \/ StatusOrTimeout(m) \/ ContextDone(m)
    \/ SaveSent(m) \/ SaveOutbox(m) \/ SaveQueued(m)

Flusher(n) ==
    \/ FlushReads(n) \/ FlushWrites(n) \/ FlushDeletes(n) \/ FlushCounts(n) \/ FlushEnds(n)
    \/ \E m \in Messages : FlushDiscards(n, m) \/ FlushTakesConn(n, m)

Next ==
    \/ Environment
    \/ \E m \in Messages : Sender(m)
    \/ \E n \in Conns : Flusher(n)

Spec == Init /\ [][Next]_vars

\* The flush goroutine and the read loop are scheduled.
FairSpec ==
    /\ Spec
    /\ WF_vars(Disconnect)
    /\ \A n \in Conns : WF_vars(Flusher(n))

-----------------------------------------------------------------------------
(* Properties                                                               *)

TypeOK ==
    /\ life \in {"up", "stopping", "down"} /\ crashes \in 0..MaxCrashes
    /\ dials \in 0..MaxConns /\ ready \in BOOLEAN
    /\ link \in {"none", "up", "lost", "closed"}
    /\ outbox \in SUBSET Messages /\ history \in SUBSET Messages
    /\ ts \in [Messages -> Nat] /\ attempts \in [Messages -> Nat]
    /\ written \in [Messages -> Nat] /\ relayed \in [Messages -> Nat]
    /\ pc \in [Messages -> {"idle", "conn", "write", "await", "save", "queue", "record", "done"}]
    /\ got \in [Messages -> 0..MaxConns]
    /\ result \in [Messages -> {"pending", "error", "sent", "queued"}]
    /\ onReadyActive \in BOOLEAN
    /\ flush \in [Conns -> {"idle", "start", "loop", "write", "sent", "failed"}]
    /\ items \in [Conns -> SUBSET Messages] /\ snap \in [Conns -> [Messages -> Nat]]
    /\ cur \in [Conns -> Messages \cup {NoMessage}] /\ fgot \in [Conns -> 0..MaxConns]
    /\ reauthed \in SUBSET Messages

\* A message whose sender was told "queued" is still in the outbox, or its frame
\* has been written, or it has failed MaxAttempts times: no interleaving of
\* flushes, reconnects and crashes makes it vanish (Send, flushOutbox).
QueuedIsNotForgotten ==
    \A m \in Messages : result[m] = "queued" =>
        m \in outbox \/ written[m] > 0 \/ attempts[m] >= MaxAttempts

\* A message is written at most once, and once more for each time the process
\* went down between a write and the delete of its row: reconnect storms never
\* send a row twice (launchOnReady's single flight, flushOutbox).
WrittenOncePerLife == \A m \in Messages : written[m] <= 1 + crashes

\* The history lists no message as outbound that was neither written nor queued.
HistoryIsOfWrittenOrQueued ==
    \A m \in history : written[m] > 0 \/ m \in outbox \/ attempts[m] >= MaxAttempts

\* The tables implement the queue of MessageQueue.
Queue == INSTANCE MessageQueue WITH
    queue  <- outbox,
    handed <- {m \in Messages : written[m] > 0},
    tries  <- attempts

ImplementsQueue == Queue!Spec

-----------------------------------------------------------------------------
(* What comments of the source say and the code does not do                 *)

\* ops.go:184: "Message queued ... (relay offline). Will send on reconnect." A row
\* that has seen an auth_ok leaves the outbox as long as that session stays ready.
QueuedIsSentOnReconnect ==
    \A m \in Messages :
        (m \in outbox \cap reauthed /\ ready /\ life = "up")
            ~> (m \notin outbox \/ ~ready \/ life # "up")
===============================================================================

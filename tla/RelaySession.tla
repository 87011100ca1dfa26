----------------------------- MODULE RelaySession -----------------------------
(***************************************************************************)
(* The persistent relay connection of internal/relay/session.go: the       *)
(* connect / authenticate / serve / reconnect loop, the watchdogs that     *)
(* close a connection, the request/response waiters shared by GetKey,      *)
(* Resolve and QueryPresence, the ready channel and the single-flighted    *)
(* OnReady callback.                                                       *)
(*                                                                         *)
(* A step is a critical section of s.mu, a frame write, or a channel       *)
(* operation.  The relay and the network are external: a frame written on  *)
(* an "up" link reaches the relay; on a "lost" link (the peer is gone, or  *)
(* silent) a write may succeed and reach nobody; on a "closed" one (Close  *)
(* was called locally) it fails.  Of the relay the model assumes only that *)
(* it answers what it was asked: its handshake frames come in any number   *)
(* and order, and a second auth_ok on a connection panics (close of a      *)
(* closed channel), which ends the process.                                *)
(***************************************************************************)
EXTENDS Naturals, FiniteSets

CONSTANTS
    Calls,       \* callers: each may use WaitReady, then asks once, by one of GetKey,
                 \* Resolve and QueryPresence
    Kinds,       \* which of the three there are: "key", "resolve", "presence"
    Names,       \* the addresses and labels they ask about
    MaxConns,    \* bound on the connections dialled
    MaxBackoff   \* the backoff cap in seconds (30 in the code)

ASSUME SessionAssumption ==
    /\ Kinds \subseteq {"key", "resolve", "presence"}
    /\ MaxConns \in Nat \ {0}
    /\ MaxBackoff \in Nat \ {0}

VARIABLES
    phase,         \* where the goroutine of Run is
    cancelled,     \* ctx of Run is done
    backoff,       \* local of Run
    dials,         \* connections established so far; the newest is number dials
    conn,          \* s.conn: a connection number, 0 for nil
    authed,        \* s.authed
    link,          \* per connection: the state of its socket
    timer,         \* per connection: its authTimer
    authedCh,      \* of the newest connection: "empty", or it holds its "token"
    readyGen,      \* s.readyCh, numbered in order of creation
    readyClosed,   \* the ready channels that have been closed
    onReadyActive, \* s.onReadyActive
    running,       \* goroutines inside the OnReady callback
    wg,            \* the counter of s.wg
    asked,         \* per slot: requests on the newest connection not yet answered
    keyCache,      \* s.keyCache
    waits,         \* s.keyWaits, s.resWaits and s.presWaits, by slot
    fan,           \* waiters a response handler has taken out and not yet served
    chan,          \* per call: its capacity-1 channel, "empty" or holding a "result"
    pc,            \* per call: where it is
    slot,          \* per call: the map and the key it waits under
    got,           \* per call: its local conn
    gen,           \* per call: its local ch of WaitReady
    straddled      \* history: slots whose first waiter registered after the drain
                   \* of the connection it holds (read by no guard)

loopVars  == <<phase, cancelled, backoff>>
connVars  == <<dials, conn, authed, link, timer, authedCh>>
readyVars == <<readyGen, readyClosed, onReadyActive, running, wg>>
callVars  == <<waits, fan, chan, pc, slot, got, gen, straddled>>
vars == <<loopVars, connVars, readyVars, asked, keyCache, callVars>>

\* What no step of a caller changes.
sessionVars == <<loopVars, connVars, readyVars, keyCache, slot>>

Slots  == Kinds \X Names
Conns  == 1..MaxConns
Phases == {"dial", "read", "launch", "fanout", "cleared", "backoff", "joining", "stopped",
           "panicked"}

\* connectOnce between the dial and the end of drainWaiters.
Serving == phase \in {"read", "launch", "fanout", "cleared"}

\* A panic ends the whole process, and the goroutines with it.
Alive == phase # "panicked"

Init ==
    /\ phase = "dial" /\ cancelled = FALSE /\ backoff = 1
    /\ dials = 0 /\ conn = 0 /\ authed = FALSE
    /\ link = [n \in Conns |-> "unused"]
    /\ timer = [n \in Conns |-> "off"] /\ authedCh = "empty"
    /\ readyGen = 1 /\ readyClosed = {}
    /\ onReadyActive = FALSE /\ running = 0 /\ wg = 0
    /\ asked = [s \in Slots |-> 0] /\ keyCache = {}
    /\ waits = [s \in Slots |-> {}] /\ fan = {}
    /\ chan = [c \in Calls |-> "empty"]
    /\ pc = [c \in Calls |-> "idle"] /\ slot \in [Calls -> Slots]
    /\ got = [c \in Calls |-> 0] /\ gen = [c \in Calls |-> 0]
    /\ straddled = {}

\* Faulty variant: currentConn without its test of s.authed.
ReadyUnauthenticated == conn # 0

\* currentConn's second result, and IsReady.
Ready == authed /\ conn # 0

-----------------------------------------------------------------------------
(* Run and connectOnce                                                     *)

Dial ==
    /\ phase = "dial" /\ ~cancelled /\ dials < MaxConns
    /\ dials' = dials + 1
    /\ conn' = dials + 1 /\ authed' = FALSE
    /\ link' = [link EXCEPT ![dials + 1] = "up"]
    /\ timer' = [timer EXCEPT ![dials + 1] = "armed"]
    /\ authedCh' = "empty"
    /\ asked' = [s \in Slots |-> 0]
    /\ phase' = "read"
    /\ UNCHANGED <<cancelled, backoff, readyVars, keyCache, callVars>>

DialFails ==
    /\ phase = "dial" /\ ~cancelled
    /\ phase' = "backoff"
    /\ UNCHANGED <<cancelled, backoff, connVars, readyVars, asked, keyCache, callVars>>

\* Faulty variant: readyCh is not replaced when the connection ends.
ReadEndsKeepingReadyCh ==
    /\ phase = "read" /\ link[dials] # "up"
    /\ conn' = IF conn = dials THEN 0 ELSE conn
    /\ authed' = FALSE
    /\ phase' = "cleared"
    /\ UNCHANGED <<cancelled, backoff, dials, link, timer, authedCh, readyVars, asked,
                   keyCache, callVars>>

\* Faulty variant: s.authed is not cleared when the connection ends.
ReadEndsStayingAuthed ==
    /\ phase = "read" /\ link[dials] # "up"
    /\ conn' = IF conn = dials THEN 0 ELSE conn
    /\ readyGen' = readyGen + 1
    /\ phase' = "cleared"
    /\ UNCHANGED <<cancelled, backoff, dials, authed, link, timer, authedCh, readyClosed,
                   onReadyActive, running, wg, asked, keyCache, callVars>>

\* The read loop ends on a read error: the first critical section after it.
ReadEnds ==
    /\ phase = "read" /\ link[dials] # "up"
    /\ conn' = IF conn = dials THEN 0 ELSE conn
    /\ authed' = FALSE
    /\ readyGen' = readyGen + 1
    /\ phase' = "cleared"
    /\ UNCHANGED <<cancelled, backoff, dials, link, timer, authedCh, readyClosed,
                   onReadyActive, running, wg, asked, keyCache, callVars>>

AllWaiters == UNION {waits[s] : s \in Slots}

\* Faulty variant: the maps are cleared and no waiter is woken.
DrainSilently ==
    /\ phase = "cleared"
    /\ waits' = [s \in Slots |-> {}]
    /\ timer' = [timer EXCEPT ![dials] = IF @ = "armed" THEN "off" ELSE @]
    /\ phase' = IF cancelled THEN "joining" ELSE "backoff"
    /\ backoff' = IF authedCh = "token" /\ ~cancelled THEN 1 ELSE backoff
    /\ straddled' = {}
    /\ UNCHANGED <<cancelled, dials, conn, authed, link, authedCh, readyVars, asked,
                   keyCache, fan, chan, pc, slot, got, gen>>

\* drainWaiters (one critical section, non-blocking sends), then the return of
\* connectOnce with its deferred authTimer.Stop, then Run's use of the result.
Drain ==
    /\ phase = "cleared"
    /\ chan' = [c \in Calls |-> IF c \in AllWaiters /\ chan[c] = "empty"
                                THEN "result" ELSE chan[c]]
    /\ waits' = [s \in Slots |-> {}]
    /\ timer' = [timer EXCEPT ![dials] = IF @ = "armed" THEN "off" ELSE @]
    /\ IF cancelled
         THEN phase' = "joining" /\ UNCHANGED backoff
         ELSE phase' = "backoff" /\ backoff' = IF authedCh = "token" THEN 1 ELSE backoff
    /\ straddled' = {}
    /\ UNCHANGED <<cancelled, dials, conn, authed, link, authedCh, readyVars, asked,
                   keyCache, fan, pc, slot, got, gen>>

\* Faulty variant: the backoff is not capped.
BackoffUncapped ==
    /\ phase = "backoff"
    /\ backoff' = 2 * backoff
    /\ phase' = "dial"
    /\ UNCHANGED <<cancelled, connVars, readyVars, asked, keyCache, callVars>>

BackoffElapses ==
    /\ phase = "backoff"
    /\ backoff' = IF 2 * backoff > MaxBackoff THEN MaxBackoff ELSE 2 * backoff
    /\ phase' = "dial"
    /\ UNCHANGED <<cancelled, connVars, readyVars, asked, keyCache, callVars>>

RunReturns ==
    /\ phase \in {"dial", "backoff"} /\ cancelled
    /\ phase' = "joining"
    /\ UNCHANGED <<cancelled, backoff, connVars, readyVars, asked, keyCache, callVars>>

\* The deferred s.wg.Wait of Run.
Join ==
    /\ phase = "joining" /\ wg = 0
    /\ phase' = "stopped"
    /\ UNCHANGED <<cancelled, backoff, connVars, readyVars, asked, keyCache, callVars>>

Cancel ==
    /\ Alive /\ ~cancelled
    /\ cancelled' = TRUE
    /\ UNCHANGED <<phase, backoff, connVars, readyVars, asked, keyCache, callVars>>

-----------------------------------------------------------------------------
(* handle: one action per frame the read loop dispatches.  A frame that     *)
(* was buffered before the socket broke is still handled.                   *)

\* Answering changes nothing here, unless the write fails.
HandleChallenge ==
    /\ phase = "read" /\ link[dials] # "up"
    /\ link' = [link EXCEPT ![dials] = "closed"]
    /\ UNCHANGED <<loopVars, dials, conn, authed, timer, authedCh, readyVars, asked,
                   keyCache, callVars>>

\* The relay may send any number of them.  The second on a connection finds
\* readyCh closed, and closing it again panics.
HandleAuthOk ==
    /\ phase = "read"
    /\ timer' = [timer EXCEPT ![dials] = IF @ = "armed" THEN "off" ELSE @]
    /\ authed' = TRUE
    /\ IF readyGen \in readyClosed
         THEN phase' = "panicked" /\ UNCHANGED <<readyClosed, authedCh>>
         ELSE /\ readyClosed' = readyClosed \cup {readyGen}
              /\ authedCh' = "token"
              /\ phase' = "launch"
    /\ UNCHANGED <<cancelled, backoff, dials, conn, link, readyGen, onReadyActive, running,
                   wg, asked, keyCache, callVars>>

\* Faulty variant: launchOnReady without its compare-and-swap.
LaunchAlways ==
    /\ phase = "launch"
    /\ onReadyActive' = TRUE /\ running' = running + 1 /\ wg' = wg + 1
    /\ phase' = "read"
    /\ UNCHANGED <<cancelled, backoff, connVars, readyGen, readyClosed, asked, keyCache,
                   callVars>>

\* launchOnReady: skipped while an earlier OnReady is still running.
LaunchOnReady ==
    /\ phase = "launch"
    /\ IF onReadyActive
         THEN UNCHANGED <<onReadyActive, running, wg>>
         ELSE /\ onReadyActive' = TRUE
              /\ running' = running + 1
              /\ wg' = wg + 1
    /\ phase' = "read"
    /\ UNCHANGED <<cancelled, backoff, connVars, readyGen, readyClosed, asked, keyCache,
                   callVars>>

HandleAuthError ==
    /\ phase = "read" /\ link[dials] # "closed"
    /\ link' = [link EXCEPT ![dials] = "closed"]
    /\ UNCHANGED <<loopVars, dials, conn, authed, timer, authedCh, readyVars, asked,
                   keyCache, callVars>>

\* Faulty variant: the handler serves the waiters and leaves them registered.
HandleResponseKeepingWaiters(s) ==
    /\ phase = "read" /\ asked[s] > 0
    /\ asked' = [asked EXCEPT ![s] = @ - 1]
    /\ fan' = waits[s]
    /\ phase' = IF waits[s] = {} THEN "read" ELSE "fanout"
    /\ UNCHANGED <<cancelled, backoff, connVars, readyVars, keyCache, waits, chan, pc, slot,
                   got, gen, straddled>>

\* What a response may add to keyCache: a key_response the key of the address it
\* is about, a resolve_response that of any address; either may carry no key.
Learned(s) ==
    {{}} \cup {{n} : n \in {m \in Names : s[1] = "resolve" \/ (s[1] = "key" /\ m = s[2])}}

\* key_response, resolve_response and presence_response.
HandleResponse(s) ==
    /\ phase = "read" /\ asked[s] > 0
    /\ \E keys \in Learned(s) : keyCache' = keyCache \cup keys
    /\ asked' = [asked EXCEPT ![s] = @ - 1]
    /\ waits' = [waits EXCEPT ![s] = {}] /\ straddled' = straddled \ {s}
    /\ fan' = waits[s]
    /\ phase' = IF waits[s] = {} THEN "read" ELSE "fanout"
    /\ UNCHANGED <<cancelled, backoff, connVars, readyVars, chan, pc, slot, got, gen>>

\* One blocking send of the handler's loop over the waiters it took out.
ServeWaiter(w) ==
    /\ phase = "fanout" /\ w \in fan /\ chan[w] = "empty"
    /\ chan' = [chan EXCEPT ![w] = "result"]
    /\ fan' = fan \ {w}
    /\ phase' = IF fan = {w} THEN "read" ELSE "fanout"
    /\ UNCHANGED <<cancelled, backoff, connVars, readyVars, asked, keyCache, waits, pc, slot,
                   got, gen, straddled>>

-----------------------------------------------------------------------------
(* What closes a connection, and the OnReady goroutine                      *)

\* The authTimer callback reads s.authed in one critical section ...
AuthTimerFires(n) ==
    /\ Alive /\ timer[n] = "armed"
    /\ timer' = [timer EXCEPT ![n] = IF authed THEN "off" ELSE "firing"]
    /\ UNCHANGED <<loopVars, dials, conn, authed, link, authedCh, readyVars, asked,
                   keyCache, callVars>>

\* ... and closes its connection after it, whatever has happened meanwhile.
AuthTimerCloses(n) ==
    /\ Alive /\ timer[n] = "firing"
    /\ timer' = [timer EXCEPT ![n] = "off"]
    /\ link' = [link EXCEPT ![n] = "closed"]
    /\ UNCHANGED <<loopVars, dials, conn, authed, authedCh, readyVars, asked, keyCache,
                   callVars>>

\* Faulty variant: the watchdog goroutine returns without closing.
WatchdogOnlyReturns ==
    /\ Serving /\ ~cancelled
    /\ link[dials] = "lost"
    /\ UNCHANGED vars

\* keepAlive: no pong for 90s, or a failed ping.  The goroutine ends with ctx.
Watchdog ==
    /\ Serving /\ ~cancelled
    /\ link[dials] = "lost"
    /\ link' = [link EXCEPT ![dials] = "closed"]
    /\ UNCHANGED <<loopVars, dials, conn, authed, timer, authedCh, readyVars, asked,
                   keyCache, callVars>>

DropConn ==
    /\ Alive /\ conn # 0 /\ link[conn] # "closed"
    /\ link' = [link EXCEPT ![conn] = "closed"]
    /\ UNCHANGED <<loopVars, dials, conn, authed, timer, authedCh, readyVars, asked,
                   keyCache, callVars>>

\* External: the peer goes away, or stops answering.
LinkLost ==
    /\ Alive /\ dials > 0 /\ link[dials] = "up"
    /\ link' = [link EXCEPT ![dials] = "lost"]
    /\ UNCHANGED <<loopVars, dials, conn, authed, timer, authedCh, readyVars, asked,
                   keyCache, callVars>>

\* The goroutine of launchOnReady: the callback returns and the first deferred
\* call clears the flag; the second one, wg.Done, is a step of its own.
OnReadyReturns ==
    /\ Alive /\ running > 0
    /\ running' = running - 1
    /\ onReadyActive' = FALSE
    /\ UNCHANGED <<loopVars, connVars, readyGen, readyClosed, wg, asked, keyCache, callVars>>

OnReadyDone ==
    /\ Alive /\ wg > running
    /\ wg' = wg - 1
    /\ UNCHANGED <<loopVars, connVars, readyGen, readyClosed, onReadyActive, running, asked,
                   keyCache, callVars>>

-----------------------------------------------------------------------------
(* GetKey, Resolve and QueryPresence: the same steps over their own map.    *)

\* A caller goes on, unless a panic has ended it.
Goto(c, where) == Alive /\ pc' = [pc EXCEPT ![c] = where]

\* GetKey's cache check; the other two have none.
Begin(c) ==
    /\ pc[c] = "idle"
    /\ Goto(c, IF slot[c][1] = "key" /\ slot[c][2] \in keyCache THEN "done" ELSE "conn")
    /\ UNCHANGED <<sessionVars, asked, waits, fan, chan, got, gen, straddled>>

TakeConn(c) ==
    /\ pc[c] = "conn"
    /\ IF Ready
         THEN got' = [got EXCEPT ![c] = conn] /\ Goto(c, "register")
         ELSE Goto(c, "done") /\ UNCHANGED got
    /\ UNCHANGED <<sessionVars, asked, waits, fan, chan, gen, straddled>>

\* The history that Register keeps: this waiter is the first of its slot, and its
\* connection has ended and been drained.
NoteStraddling(c) ==
    straddled' = IF waits[slot[c]] = {} /\ ~(got[c] = dials /\ Serving)
                 THEN straddled \cup {slot[c]} ELSE straddled

\* Faulty variant: "first" is computed before the channel is appended.
RegisterCountingBefore(c) ==
    /\ pc[c] = "register"
    /\ waits' = [waits EXCEPT ![slot[c]] = @ \cup {c}]
    /\ Goto(c, IF Cardinality(waits[slot[c]]) = 1 THEN "send" ELSE "wait")
    /\ NoteStraddling(c)
    /\ UNCHANGED <<sessionVars, asked, fan, chan, got, gen>>

\* Append the channel; only the first waiter of a slot sends the request.
Register(c) ==
    /\ pc[c] = "register"
    /\ waits' = [waits EXCEPT ![slot[c]] = @ \cup {c}]
    /\ Goto(c, IF waits[slot[c]] = {} THEN "send" ELSE "wait")
    /\ NoteStraddling(c)
    /\ UNCHANGED <<sessionVars, asked, fan, chan, got, gen>>

\* The call returns; its local conn goes with it.
Return(c) == Goto(c, "done") /\ got' = [got EXCEPT ![c] = 0]

\* A failed write returns the error and leaves the waiter where it is.
SendRequest(c) ==
    /\ pc[c] = "send"
    /\ \/ /\ link[got[c]] = "up"
          /\ asked' = [asked EXCEPT ![slot[c]] = @ + 1]
          /\ Goto(c, "wait") /\ UNCHANGED got
       \/ link[got[c]] = "lost" /\ Goto(c, "wait") /\ UNCHANGED <<asked, got>>
       \/ link[got[c]] # "up" /\ Return(c) /\ UNCHANGED asked
    /\ UNCHANGED <<sessionVars, waits, fan, chan, gen, straddled>>

Receive(c) ==
    /\ pc[c] = "wait" /\ chan[c] # "empty"
    /\ chan' = [chan EXCEPT ![c] = "empty"]
    /\ Return(c)
    /\ UNCHANGED <<sessionVars, asked, waits, fan, gen, straddled>>

\* The per-call timeout, or the caller's ctx: both end in removeWaiter.
GiveUp(c) ==
    /\ pc[c] = "wait"
    /\ waits' = [waits EXCEPT ![slot[c]] = @ \ {c}]
    /\ straddled' = IF waits[slot[c]] \ {c} = {} THEN straddled \ {slot[c]} ELSE straddled
    /\ Return(c)
    /\ UNCHANGED <<sessionVars, asked, fan, chan, gen>>

-----------------------------------------------------------------------------
(* WaitReady, any number of times before the caller asks                    *)

WaitReadyChecks(c) ==
    /\ pc[c] = "idle" /\ ~Ready
    /\ Goto(c, "checked")
    /\ UNCHANGED <<sessionVars, asked, waits, fan, chan, got, gen, straddled>>

WaitReadyTakesChannel(c) ==
    /\ pc[c] = "checked"
    /\ Goto(c, "sleeping")
    /\ gen' = [gen EXCEPT ![c] = readyGen]
    /\ UNCHANGED <<sessionVars, asked, waits, fan, chan, got, straddled>>

\* The channel is closed, or the timeout or the caller's ctx comes first.
WaitReadyReturns(c) ==
    /\ pc[c] = "sleeping"
    /\ Goto(c, "idle")
    /\ gen' = [gen EXCEPT ![c] = 0]
    /\ UNCHANGED <<sessionVars, asked, waits, fan, chan, got, straddled>>

-----------------------------------------------------------------------------
Loop ==
    \/ Dial \/ DialFails \/ ReadEnds \/ Drain \/ BackoffElapses \/ RunReturns \/ Join
    \/ HandleChallenge \/ HandleAuthOk \/ LaunchOnReady \/ HandleAuthError
    \/ \E s \in Slots : HandleResponse(s)
    \/ \E w \in Calls : ServeWaiter(w)

Background ==
    \/ \E n \in Conns : AuthTimerFires(n) \/ AuthTimerCloses(n)
    \/ Watchdog \/ DropConn \/ LinkLost \/ OnReadyReturns \/ OnReadyDone \/ Cancel

Caller(c) ==
    \/ Begin(c) \/ TakeConn(c) \/ Register(c) \/ SendRequest(c) \/ Receive(c) \/ GiveUp(c)
    \/ WaitReadyChecks(c) \/ WaitReadyTakesChannel(c) \/ WaitReadyReturns(c)

Next == Loop \/ Background \/ \E c \in Calls : Caller(c)

Spec == Init /\ [][Next]_vars

\* The goroutines of the session are scheduled; the relay, the network, the
\* callers and the environment that cancels promise nothing.  A read on a socket
\* whose peer is merely silent need never return: only a closed one is sure to.
ReadEndsOnClosed == phase = "read" /\ link[dials] = "closed" /\ ReadEnds

Fairness ==
    /\ WF_vars(ReadEndsOnClosed) /\ WF_vars(Drain) /\ WF_vars(BackoffElapses)
    /\ WF_vars(RunReturns) /\ WF_vars(Join) /\ WF_vars(LaunchOnReady)
    /\ WF_vars(\E w \in Calls : ServeWaiter(w))
    /\ WF_vars(Watchdog)
    /\ \A n \in Conns : WF_vars(AuthTimerFires(n)) /\ WF_vars(AuthTimerCloses(n))
    /\ WF_vars(OnReadyReturns) /\ WF_vars(OnReadyDone)

FairSpec == Spec /\ Fairness

-----------------------------------------------------------------------------
(* Properties                                                               *)

FlagsOK ==
    /\ cancelled \in BOOLEAN
    /\ authed \in BOOLEAN
    /\ onReadyActive \in BOOLEAN

Places == {"idle", "checked", "sleeping", "conn", "register", "send", "wait", "done"}

DataOK ==
    /\ phase \in Phases /\ backoff \in 1..MaxBackoff
    /\ dials \in 0..MaxConns /\ conn \in 0..MaxConns
    /\ link \in [Conns -> {"unused", "up", "lost", "closed"}]
    /\ authedCh \in {"empty", "token"}
    /\ timer \in [Conns -> {"off", "armed", "firing"}]
    /\ readyGen \in Nat \ {0} /\ readyClosed \in SUBSET Nat
    /\ running \in Nat /\ wg \in Nat
    /\ asked \in [Slots -> Nat] /\ keyCache \in SUBSET Names
    /\ waits \in [Slots -> SUBSET Calls] /\ fan \in SUBSET Calls
    /\ chan \in [Calls -> {"empty", "result"}]
    /\ pc \in [Calls -> Places]
    /\ slot \in [Calls -> Slots] /\ got \in [Calls -> 0..MaxConns]
    /\ gen \in [Calls -> Nat] /\ straddled \in SUBSET Slots

\* The type of every variable of the session and of its callers (Session's
\* fields and the locals of its methods).
TypeOK == FlagsOK /\ DataOK

\* The read loop is never blocked on a waiter: the blocking sends of the
\* response handlers always find room in the capacity-1 channel, whatever
\* timeouts, disconnects and late registrations have happened (handle,
\* "w <- msg.PublicKey").
FanOutNeverBlocks ==
    phase = "fanout" => fan # {} /\ \A w \in fan : chan[w] = "empty"

\* No wake-up is lost: a call blocked on its channel has its result in it, or is
\* in the hands of the response handler, or is still registered under its slot
\* (GetKey, handle, drainWaiters and removeWaiter between them).
BlockedCallIsReachable ==
    \A c \in Calls : pc[c] = "wait" =>
        chan[c] # "empty" \/ c \in fan \/ c \in waits[slot[c]]

\* Nothing but the handshake is written before auth_ok: a request that reached
\* the relay reached it on an authenticated connection, although the caller
\* took its conn in an earlier critical section (currentConn).
RequestsOnlyAfterAuth ==
    \A s \in Slots : asked[s] > 0 => authedCh = "token"

\* Coalescing loses no request: while the link is up, a slot with waiters none of
\* which is still to send has a request at the relay, on every connection and
\* whatever the calls before it did (Register's "first" and SendRequest).  The
\* code breaks this in one way only, which the history names: the first waiter
\* of the slot straddled a reconnect, registering after the drain of the connection
\* it holds.  It sends to a dead connection, and the calls behind it wait for
\* a request nobody sent until one response, drain or timeout empties the slot.
LiveWaitersHaveRequest ==
    \A s \in Slots \ straddled :
        /\ dials > 0 /\ link[dials] = "up" /\ waits[s] # {}
        /\ \A c \in waits[s] : pc[c] # "send"
        => asked[s] > 0

\* No reconnect makes close(s.readyCh) panic: the first auth_ok of a connection
\* finds a channel that is open, whatever the connections before it came to.
\* Only a relay that sends a second one on the same connection ends the process.
OnlyRepeatedAuthOkPanics ==
    phase = "panicked" => authedCh = "token"

\* The ready channel is closed exactly while the session is authenticated, so
\* a WaitReady that takes it from a ready session does not block, and one that
\* takes it from a session that is not cannot pass before the next auth_ok.
ReadyChannelMirrorsAuth ==
    authed <=> readyGen \in readyClosed

\* WaitReady "blocks until the session is authenticated or ctx/timeout elapses"
\* (session.go:560): nobody is left on an open channel while the session is ready.
\* The code does not keep this: readyCh is replaced at a disconnect and the one
\* it replaces is never closed, so a caller that took it sleeps through the
\* next auth_ok.
NobodySleepsThroughReady ==
    \A c \in Calls : pc[c] = "sleeping" /\ Ready => gen[c] \in readyClosed

\* OnReady is single-flighted across reconnects (launchOnReady).
SingleFlight == running <= 1

\* Run returns only once no OnReady goroutine is left (the deferred wg.Wait).
RunJoinsOnReady == phase = "stopped" => running = 0

\* A broken connection is detected, drained and left: while ctx is live the
\* loop gets back to dialling, which it does not if any handler can block forever.
\* Nor is a live connection kept on which auth_ok never comes, however the timers
\* of earlier connections interleave (keepAlive, authTimer).  A panic ends it all.
BadConnectionIsLeft ==
    /\ (phase = "read" /\ link[dials] # "up") ~> (phase = "dial" \/ cancelled \/ ~Alive)
    /\ (phase = "read" /\ ~authed) ~> (authed \/ phase = "dial" \/ cancelled)

-----------------------------------------------------------------------------
(* The inductive invariants behind them                                     *)

\* Each channel is in one place at most until it has its one result.
WaiterInv ==
    /\ phase = "fanout" <=> fan # {}
    /\ \A c \in Calls :
        /\ chan[c] # "empty" => c \notin fan
        /\ \A s \in Slots : c \in waits[s] => s = slot[c] /\ c \notin fan /\ chan[c] = "empty"
        /\ pc[c] \in {"idle", "checked", "sleeping", "conn", "register"} =>
              chan[c] = "empty" /\ c \notin fan /\ c \notin waits[slot[c]]
        /\ pc[c] \in {"send", "wait"} =>
              chan[c] # "empty" \/ c \in fan \/ c \in waits[slot[c]]

\* A session that is authed is so on its newest connection, as is every call
\* that holds that connection, and older connections carry no frame any more.
AuthInv ==
    /\ authed => authedCh = "token" /\ conn = dials
    /\ conn \in {0, dials}
    /\ phase \in {"read", "launch", "fanout", "panicked"} => conn = dials /\ dials # 0
    /\ phase \in {"dial", "cleared", "backoff", "joining", "stopped"} => dials = 0 \/ link[dials] # "up"
    /\ \A n \in Conns : link[n] = "up" => n = dials
    /\ \A n \in Conns : n > dials => timer[n] = "off" /\ link[n] = "unused"
    /\ \A c \in Calls : got[c] <= dials /\ (got[c] = dials /\ dials # 0 => authedCh = "token")
    /\ \A c \in Calls : pc[c] \in {"register", "send", "wait"} => got[c] # 0
    /\ \A s \in Slots : asked[s] > 0 => authedCh = "token"

\* A slot whose first waiter did not straddle is served by the newest connection.
CoalesceInv ==
    /\ LiveWaitersHaveRequest
    /\ \A s \in Slots \ straddled : waits[s] # {} => Serving \/ ~Alive
    /\ \A s \in Slots \ straddled : \A c \in waits[s] : pc[c] = "send" => got[c] = dials

\* The ready channel of a connection is closed by its auth_ok and by nothing else.
ReadyInv ==
    /\ readyClosed \subseteq 1..readyGen
    /\ ReadyChannelMirrorsAuth
    /\ authed => authedCh = "token" /\ phase \in {"read", "launch", "fanout", "panicked"}
    /\ phase = "panicked" => authed

\* The flag, the callbacks and the wait group agree.
OnReadyInv ==
    /\ running = IF onReadyActive THEN 1 ELSE 0
    /\ wg >= running
    /\ phase = "stopped" => wg = 0

===============================================================================

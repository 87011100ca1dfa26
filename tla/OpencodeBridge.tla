---------------------------- MODULE OpencodeBridge -----------------------------
(***************************************************************************)
(* The opencode adapter's bridge (adapters/opencode/bridge.go): Run and    *)
(* its reconnect loop, one connection with its read pump, write pump and   *)
(* watcher, SendLocal and the send channel, and the injection of inbound   *)
(* frames into the opencode session.                                       *)
(*                                                                         *)
(* Frames are numbered in the order SendLocal takes them.  The read pump   *)
(* is Run's own goroutine; the write pump, the watcher and the callers of  *)
(* SendLocal (the control listener of cmd/attn-opencode) are others.       *)
(***************************************************************************)
EXTENDS Naturals, Sequences, FiniteSets

CONSTANTS
    Buffer,      \* bridgeSendBuffer
    MaxSends,    \* bound on calls of SendLocal
    MaxInbound,  \* bound on frames from the daemon
    MaxFailures  \* bound on failures of dials and connections

ASSUME BridgeAssumption ==
    /\ Buffer \in Nat \ {0} /\ {MaxSends, MaxInbound, MaxFailures} \subseteq Nat

VARIABLES
    phase,     \* Run: "dial", "read", "join", "sleep" or "returned"
    cancelled, \* Run's context
    link,      \* the connection: "none", "up", "dead" (the peer has gone, or does not
               \* read any more) or "closed"
    connDone,  \* connCtx is cancelled by runConn
    pump,      \* the write pump: "none", "idle" or "writing"
    hand,      \* the frame it writes, or 0
    sendCh,
    sends,     \* frames taken by SendLocal
    refused,   \* it returned an error for these
    written,   \* frames whose write succeeded, in order
    lost,      \* frames whose write failed
    wire,      \* inbound frames not read yet
    inbound,   \* how many the daemon has sent
    injecting, \* the read pump waits for PromptAsync
    conns,     \* connections made
    failures

runVars  == <<phase, cancelled, conns>>
linkVars == <<link, connDone, wire, inbound>>
sendVars == <<sendCh, sends, refused>>
pumpVars == <<pump, hand, written, lost>>
vars == <<runVars, linkVars, sendVars, pumpVars, injecting, failures>>

Init ==
    /\ phase = "dial" /\ cancelled = FALSE /\ conns = 0
    /\ link = "none" /\ connDone = FALSE /\ wire = 0 /\ inbound = 0
    /\ sendCh = <<>> /\ sends = 0 /\ refused = {}
    /\ pump = "none" /\ hand = 0 /\ written = <<>> /\ lost = {}
    /\ injecting = FALSE /\ failures = 0

Fail == failures < MaxFailures /\ failures' = failures + 1

-----------------------------------------------------------------------------
(* SendLocal, and the contexts                                              *)

HasRoom == Len(sendCh) < Buffer

\* A frame is put on the channel or refused, whether Run runs or not.
SendLocal ==
    /\ sends < MaxSends
    /\ sends' = sends + 1
    /\ IF HasRoom THEN sendCh' = Append(sendCh, sends') /\ UNCHANGED refused
       ELSE refused' = refused \cup {sends'} /\ UNCHANGED sendCh
    /\ UNCHANGED <<runVars, linkVars, pumpVars, injecting, failures>>

\* A signal.
Cancel ==
    /\ ~cancelled /\ cancelled' = TRUE
    /\ UNCHANGED <<phase, conns, linkVars, sendVars, pumpVars, injecting, failures>>

CtxDone == cancelled \/ connDone

\* Faulty variant: only the connection's own teardown is watched.
WatchTeardown ==
    /\ link \in {"up", "dead"} /\ connDone
    /\ link' = "closed"
    /\ UNCHANGED <<connDone, wire, inbound, runVars, sendVars, pumpVars, injecting, failures>>

\* The watcher closes the connection when its context ends.
Watch ==
    /\ link \in {"up", "dead"} /\ CtxDone
    /\ link' = "closed"
    /\ UNCHANGED <<connDone, wire, inbound, runVars, sendVars, pumpVars, injecting, failures>>

-----------------------------------------------------------------------------
(* Run and runConn                                                          *)

Dial ==
    /\ phase = "dial" /\ ~cancelled
    /\ phase' = "read" /\ conns' = conns + 1
    /\ link' = "up" /\ connDone' = FALSE /\ wire' = 0
    /\ pump' = "idle"
    /\ UNCHANGED <<cancelled, inbound, sendVars, hand, written, lost, injecting, failures>>

DialFails ==
    /\ phase = "dial" /\ (Fail \/ (cancelled /\ UNCHANGED failures))
    /\ phase' = "sleep"
    /\ UNCHANGED <<cancelled, conns, linkVars, sendVars, pumpVars, injecting>>

\* The delay between connections, which doubles up to its bound.
Wake ==
    /\ phase = "sleep"
    /\ phase' = IF cancelled THEN "returned" ELSE "dial"
    /\ UNCHANGED <<cancelled, conns, linkVars, sendVars, pumpVars, injecting, failures>>

\* External: the peer goes away, or its connection does.
PeerGoes ==
    /\ link = "up" /\ Fail
    /\ link' = "dead"
    /\ UNCHANGED <<connDone, wire, inbound, runVars, sendVars, pumpVars, injecting>>

\* External: the daemon sends a frame.
Inbound ==
    /\ link \in {"up", "dead"} /\ inbound < MaxInbound
    /\ inbound' = inbound + 1 /\ wire' = wire + 1
    /\ UNCHANGED <<link, connDone, runVars, sendVars, pumpVars, injecting, failures>>

\* readPump and HandleRaw: one frame at a time.  A frame to inject, or a reaction,
\* is posted to opencode; another (an ack, an echo, a bad one) is done with.
ReadFrame ==
    /\ phase = "read" /\ ~injecting /\ wire > 0 /\ link # "closed"
    /\ wire' = wire - 1
    /\ injecting' \in BOOLEAN
    /\ UNCHANGED <<link, connDone, inbound, runVars, sendVars, pumpVars, failures>>

\* PromptAsync returns, after 25 s at most; a failure is only logged.
Injected ==
    /\ injecting /\ injecting' = FALSE
    /\ UNCHANGED <<runVars, linkVars, sendVars, pumpVars, failures>>

\* ReadMessage fails, at the latest when the pong is overdue: runConn cancels its
\* context and closes the connection.
ReadFails ==
    /\ phase = "read" /\ ~injecting /\ link \in {"dead", "closed"}
    /\ phase' = "join" /\ connDone' = TRUE /\ link' = "closed"
    /\ UNCHANGED <<cancelled, conns, wire, inbound, sendVars, pumpVars, injecting, failures>>

\* wg.Wait, clearConn; Run returns or sleeps.
Join ==
    /\ phase = "join" /\ pump = "none"
    /\ phase' = IF cancelled THEN "returned" ELSE "sleep"
    /\ link' = "none" /\ wire' = 0
    /\ UNCHANGED <<cancelled, conns, connDone, inbound, sendVars, pumpVars, injecting, failures>>

-----------------------------------------------------------------------------
(* writePump                                                                *)

\* With a frame and a done context, select picks either.
Take ==
    /\ pump = "idle" /\ sendCh # <<>>
    /\ pump' = "writing" /\ hand' = Head(sendCh) /\ sendCh' = Tail(sendCh)
    /\ UNCHANGED <<runVars, linkVars, sends, refused, written, lost, injecting, failures>>

\* A write succeeds; to a peer that has gone it may, unnoticed.
Write ==
    /\ pump = "writing" /\ link \in {"up", "dead"}
    /\ pump' = "idle" /\ hand' = 0 /\ written' = Append(written, hand)
    /\ UNCHANGED <<runVars, linkVars, sendVars, lost, injecting, failures>>

\* Faulty variant: the pump goes on after a failed write.
WriteFailsGoingOn ==
    /\ pump = "writing" /\ link \in {"dead", "closed"}
    /\ pump' = "idle" /\ hand' = 0 /\ lost' = lost \cup {hand}
    /\ UNCHANGED <<runVars, linkVars, sendVars, written, injecting, failures>>

\* Faulty variant: puts the frame back at the end of the channel.
WriteFailsRequeueing ==
    /\ pump = "writing" /\ link \in {"dead", "closed"}
    /\ pump' = "none" /\ hand' = 0
    /\ IF HasRoom THEN sendCh' = Append(sendCh, hand) /\ UNCHANGED lost
       ELSE lost' = lost \cup {hand} /\ UNCHANGED sendCh
    /\ UNCHANGED <<runVars, linkVars, sends, refused, written, injecting, failures>>

\* A write fails: the frame is gone, and the pump returns; the read pump does not
\* know.
WriteFails ==
    /\ pump = "writing" /\ link \in {"dead", "closed"}
    /\ pump' = "none" /\ hand' = 0 /\ lost' = lost \cup {hand}
    /\ UNCHANGED <<runVars, linkVars, sendVars, written, injecting, failures>>

\* The context is done, or a ping fails.
PumpReturns ==
    /\ pump = "idle" /\ (CtxDone \/ link \in {"dead", "closed"})
    /\ pump' = "none"
    /\ UNCHANGED <<runVars, linkVars, sendVars, hand, written, lost, injecting, failures>>

-----------------------------------------------------------------------------
Run == Dial \/ DialFails \/ Wake \/ ReadFrame \/ Injected \/ ReadFails \/ Join

Pump == Take \/ Write \/ WriteFails \/ PumpReturns

Next == SendLocal \/ Cancel \/ Watch \/ PeerGoes \/ Inbound \/ Run \/ Pump

Spec == Init /\ [][Next]_vars

\* Every goroutine that can go on does; a pump that always has frames to take
\* sees its done context in the end, which a write to a closed connection decides.
FairSpec == Spec /\ WF_vars(Watch) /\ WF_vars(Run) /\ WF_vars(Pump)

-----------------------------------------------------------------------------
(* Properties                                                               *)

InHand == IF hand = 0 THEN <<>> ELSE <<hand>>

\* The frames written, over all connections, the one being written and those on the
\* channel are in the order SendLocal took them, none of them twice (writePump).
WrittenInOrder ==
    LET all == written \o InHand \o sendCh IN
      \A i, j \in 1..Len(all) : i < j => all[i] < all[j]

\* A frame SendLocal took is written, on its way, or was lost to a failed write, of
\* which each connection has at most one: its pump is then gone, and no pump is left
\* when the next connection is dialled (writePump, runConn).
OneLossPerConnection ==
    /\ \A n \in 1..sends \ refused :
         \/ n \in lost \/ n = hand
         \/ \E i \in 1..Len(written) : written[i] = n
         \/ \E i \in 1..Len(sendCh) : sendCh[i] = n
    /\ Cardinality(lost) <= conns
    /\ pump # "none" => phase \in {"read", "join"}

\* The frame in hand is still the first of those to be written.
Channel == INSTANCE LossyChannel WITH
    queue <- InHand \o sendCh,
    open  <- pump # "none"

\* The channel, the hand and the pumps of all connections together are one bounded
\* queue: frames leave it in the order SendLocal took them, after a failed write none
\* before the next connection, and only a full channel refuses one (Bridge, writePump).
ImplementsChannel == Channel!Spec

\* Run returns after a signal, whatever connection, injection or sleep it is in.
CancelledReturns == cancelled ~> phase = "returned"
===============================================================================

--------------------------------- MODULE Mesh ---------------------------------
(***************************************************************************)
(* The local mesh and the WebSocket hub: subscribers that connect, register *)
(* a session name, exchange local messages and disconnect, HTTP targets    *)
(* that register and deregister, and the fan-out of surfaced events        *)
(* (internal/mesh/registry.go, internal/httpapi/ws.go, localmesh.go and the *)
(* local routes of rest.go and agent/ops.go).                              *)
(*                                                                         *)
(* A registration is a connection (Clients) or one POST /local/register    *)
(* (Targets); both are used once, so a name that comes back is a new one.  *)
(* Routers send: a client's read pump, one at a time; the agent's requests *)
(* (Send to a local name or to "all"); the relay's surfaced events.        *)
(***************************************************************************)
EXTENDS Naturals, Sequences, FiniteSets

CONSTANTS
    Clients, Targets, Requests,
    Relay,       \* the router of surfaced events
    Names, Self, \* session names; the daemon's own, which Requests send under
    None,        \* no registration, no name
    Buffer,      \* wsSendBuffer, 64 in the code
    MaxSends     \* bound on routed messages and events

Routers == Clients \cup Requests \cup {Relay}
Holders == Clients \cup Targets

ASSUME MeshAssumption ==
    /\ None \notin Holders \cup Names /\ Self \notin Names \cup Clients
    /\ Buffer \in Nat \ {0} /\ MaxSends \in Nat
    /\ Clients \cap Targets = {} /\ Requests \cap Holders = {} /\ Relay \notin Holders \cup Requests

VARIABLES
    stage,    \* per client: serve's progress
    name,     \* per holder: the session name it registers under, or None
    peerGone, \* per client: its end of the socket has gone
    done,     \* per client: c.done is closed (and the socket with it)
    buf,      \* per client: the send channel
    got,      \* per client: the frames its peer has received
    entries,  \* the registry: the holder of a name
    hub,      \* the hub's set of clients
    mode,     \* per router: "idle", "one", "all" or "surface"
    msg,      \* per router: the message it is sending
    todo,     \* per router: the holders still to be served
    accepted, \* <<message, holder>> that Deliver accepted
    queued,   \* those of them that were put on the channel or taken by the target
    sends,
    owner,    \* the last registration under a name that was not deregistered
    closing   \* CloseAll: "no", "snapshot" or "closed"

clientVars == <<stage, name, peerGone, done, buf, got>>
regVars    == <<entries, hub, owner>>
routeVars  == <<mode, msg, todo, accepted, queued, sends>>
vars == <<clientVars, regVars, routeVars, closing>>

Init ==
    /\ stage = [c \in Clients |-> "new"] /\ name = [h \in Holders |-> None]
    /\ peerGone = [c \in Clients |-> FALSE] /\ done = [c \in Clients |-> FALSE]
    /\ buf = [c \in Clients |-> <<>>] /\ got = [c \in Clients |-> <<>>]
    /\ entries = [n \in Names |-> None] /\ hub = {} /\ owner = [n \in Names |-> None]
    /\ mode = [r \in Routers |-> "idle"] /\ msg = [r \in Routers |-> 0]
    /\ todo = [r \in Routers |-> {}]
    /\ accepted = {} /\ queued = {} /\ sends = 0
    /\ closing = "no"

-----------------------------------------------------------------------------
(* serve: upgrade, add, register, pump, release, remove                     *)

Upgrade(c, n) ==
    /\ stage[c] = "new" /\ closing = "no"
    /\ stage' = [stage EXCEPT ![c] = "upgraded"]
    /\ name' = [name EXCEPT ![c] = n]
    /\ UNCHANGED <<peerGone, done, buf, got, regVars, routeVars, closing>>

Add(c) ==
    /\ stage[c] = "upgraded"
    /\ stage' = [stage EXCEPT ![c] = "added"]
    /\ hub' = hub \cup {c}
    /\ UNCHANGED <<name, peerGone, done, buf, got, entries, owner, routeVars, closing>>

\* Registry.Register: the last registration of a name wins.
SetEntry(n, h) ==
    /\ entries' = [entries EXCEPT ![n] = h]
    /\ owner' = [owner EXCEPT ![n] = h]

\* A subscriber without a session name is not registered.
Register(c) ==
    /\ stage[c] = "added"
    /\ stage' = [stage EXCEPT ![c] = "live"]
    /\ IF name[c] = None THEN UNCHANGED <<entries, owner>> ELSE SetEntry(name[c], c)
    /\ UNCHANGED <<name, peerGone, done, buf, got, hub, routeVars, closing>>

\* External: the subscriber goes away.
PeerGoes(c) ==
    /\ stage[c] # "new" /\ ~peerGone[c]
    /\ peerGone' = [peerGone EXCEPT ![c] = TRUE]
    /\ UNCHANGED <<stage, name, done, buf, got, regVars, routeVars, closing>>

\* Faulty variant: writes the newest frame first.
WriteNewest(c) ==
    /\ stage[c] = "live" /\ ~done[c] /\ buf[c] # <<>>
    /\ buf' = [buf EXCEPT ![c] = SubSeq(@, 1, Len(@) - 1)]
    /\ got' = IF peerGone[c] THEN got ELSE [got EXCEPT ![c] = Append(@, buf[c][Len(buf[c])])]
    /\ UNCHANGED <<stage, name, peerGone, done, regVars, routeVars, closing>>

\* writePump: one frame to the socket.  A frame for a peer that has gone may be
\* swallowed; one on a closed socket is not written.
Write(c) ==
    /\ stage[c] = "live" /\ ~done[c] /\ buf[c] # <<>>
    /\ buf' = [buf EXCEPT ![c] = Tail(@)]
    /\ got' = IF peerGone[c] THEN got ELSE [got EXCEPT ![c] = Append(@, Head(buf[c]))]
    /\ UNCHANGED <<stage, name, peerGone, done, regVars, routeVars, closing>>

\* A write or a ping fails: the pump returns and closes the client.
WriteFails(c) ==
    /\ stage[c] = "live" /\ peerGone[c] /\ ~done[c]
    /\ done' = [done EXCEPT ![c] = TRUE]
    /\ UNCHANGED <<stage, name, peerGone, buf, got, regVars, routeVars, closing>>

\* Faulty variant: the read pump knows no deadline.
ReadFailsOnClose(c) ==
    /\ stage[c] = "live" /\ mode[c] = "idle" /\ done[c]
    /\ stage' = [stage EXCEPT ![c] = "left"]
    /\ UNCHANGED <<name, peerGone, done, buf, got, regVars, routeVars, closing>>

\* readPump returns, from between two frames: the peer has gone (an error, or 90s
\* without a pong), or the socket was closed under it.
ReadFails(c) ==
    /\ stage[c] = "live" /\ mode[c] = "idle" /\ (peerGone[c] \/ done[c])
    /\ stage' = [stage EXCEPT ![c] = "left"]
    /\ done' = [done EXCEPT ![c] = TRUE]
    /\ UNCHANGED <<name, peerGone, buf, got, regVars, routeVars, closing>>

\* Faulty variant: releases the name, whoever holds it.
ReleaseByName(c) ==
    /\ stage[c] = "left"
    /\ stage' = [stage EXCEPT ![c] = "released"]
    /\ entries' = [n \in Names |-> IF n = name[c] THEN None ELSE entries[n]]
    /\ UNCHANGED <<name, peerGone, done, buf, got, hub, owner, routeVars, closing>>

\* Faulty variant: the deferred release is missing.
ReleaseNothing(c) ==
    /\ stage[c] = "left"
    /\ stage' = [stage EXCEPT ![c] = "released"]
    /\ UNCHANGED <<name, peerGone, done, buf, got, regVars, routeVars, closing>>

\* The release function of Register: compares the entry, not the name.
Release(c) ==
    /\ stage[c] = "left"
    /\ stage' = [stage EXCEPT ![c] = "released"]
    /\ entries' = [n \in Names |-> IF entries[n] = c THEN None ELSE entries[n]]
    /\ UNCHANGED <<name, peerGone, done, buf, got, hub, owner, routeVars, closing>>

Remove(c) ==
    /\ stage[c] = "released"
    /\ stage' = [stage EXCEPT ![c] = "gone"]
    /\ hub' = hub \ {c}
    /\ UNCHANGED <<name, peerGone, done, buf, got, entries, owner, routeVars, closing>>

\* CloseAll: a snapshot of the hub, and c.close() for each of it.
CloseAll ==
    /\ closing # "closed"
    /\ closing' = IF closing = "no" THEN "snapshot" ELSE "closed"
    /\ done' = [c \in Clients |-> done[c] \/ (closing = "no" /\ c \in hub)]
    /\ UNCHANGED <<stage, name, peerGone, buf, got, regVars, routeVars>>

-----------------------------------------------------------------------------
(* POST /local/register and /local/deregister                               *)

RegisterTarget(t, n) ==
    /\ name[t] = None
    /\ name' = [name EXCEPT ![t] = n]
    /\ SetEntry(n, t)
    /\ UNCHANGED <<stage, peerGone, done, buf, got, hub, routeVars, closing>>

\* Deletes the entry of the name, whoever registered it; a name without one changes
\* nothing.
RemoveEntry(n) ==
    /\ entries[n] # None
    /\ entries' = [entries EXCEPT ![n] = None]
    /\ owner' = [owner EXCEPT ![n] = None]

DeregisterByName(n) ==
    /\ RemoveEntry(n)
    /\ UNCHANGED <<clientVars, hub, routeVars, closing>>

-----------------------------------------------------------------------------
(* Routing                                                                  *)

NameOf(r) == IF r \in Clients THEN name[r] ELSE Self

\* A subscriber with no name may not send; a request and the relay always may.  A
\* frame that arrived before the peer went, or the socket closed, is still read.
MaySend(r) ==
    /\ mode[r] = "idle" /\ sends < MaxSends
    /\ r \in Clients => stage[r] = "live" /\ name[r] # None

Start(r, md, hs) ==
    /\ mode' = [mode EXCEPT ![r] = md]
    /\ todo' = [todo EXCEPT ![r] = hs]
    /\ msg' = [msg EXCEPT ![r] = sends + 1]
    /\ sends' = sends + 1
    /\ UNCHANGED <<accepted, queued>>

\* Registry.Route and sendLocalTo: the holder is looked up under the lock ...
Route(r, n) ==
    /\ r # Relay /\ MaySend(r)
    /\ Start(r, "one", {entries[n]} \ {None})
    /\ UNCHANGED <<clientVars, regVars, closing>>

\* ... and so are those of a broadcast, the sender's name excepted ...
Broadcast(r) ==
    /\ r # Relay /\ MaySend(r)
    /\ Start(r, "all", {entries[n] : n \in Names \ {NameOf(r)}} \ {None})
    /\ UNCHANGED <<clientVars, regVars, closing>>

\* ... and the hub's clients for a surfaced event.
SurfaceEvent ==
    /\ MaySend(Relay)
    /\ Start(Relay, "surface", hub)
    /\ UNCHANGED <<clientVars, regVars, closing>>

\* Faulty variant: one frame too many.
RoomOffByOne(c) == Len(buf[c]) <= Buffer

\* trySend: the channel has room, or the client is done; with both, select picks.
Room(c) == Len(buf[c]) < Buffer

Enqueue(c, f) == buf' = [buf EXCEPT ![c] = Append(@, f)]

Frame(r) == [from |-> r, n |-> msg[r]]

\* Hub.Broadcast reports to nobody; the registry does.
Accept(r, h, put) ==
    /\ accepted' = IF r = Relay THEN accepted ELSE accepted \cup {<<msg[r], h>>}
    /\ queued' = IF put THEN queued \cup {<<msg[r], h>>} ELSE queued

\* Faulty variant: a dropped frame is reported as delivered.
DeliverDropping(r, c) ==
    /\ c \in todo[r]
    /\ todo' = [todo EXCEPT ![r] = @ \ {c}]
    /\ \/ Room(c) /\ Enqueue(c, Frame(r)) /\ Accept(r, c, TRUE)
       \/ (~Room(c) \/ done[c]) /\ Accept(r, c, FALSE) /\ UNCHANGED buf
    /\ UNCHANGED <<stage, name, peerGone, done, got, regVars, mode, msg, sends, closing>>

\* Delivery happens outside the lock: the client may be done by now.  A full
\* channel is an error.
DeliverToClient(r, c) ==
    /\ c \in todo[r]
    /\ todo' = [todo EXCEPT ![r] = @ \ {c}]
    /\ \/ Room(c) /\ Enqueue(c, Frame(r)) /\ Accept(r, c, TRUE)
       \/ done[c] /\ Accept(r, c, FALSE) /\ UNCHANGED buf
       \/ ~Room(c) /\ ~done[c] /\ UNCHANGED <<buf, accepted, queued>>
    /\ UNCHANGED <<stage, name, peerGone, done, got, regVars, mode, msg, sends, closing>>

\* A POST with a timeout of five seconds, to a target that may have gone.
DeliverToTarget(r, t) ==
    /\ t \in todo[r]
    /\ todo' = [todo EXCEPT ![r] = @ \ {t}]
    /\ Accept(r, t, TRUE) \/ UNCHANGED <<accepted, queued>>
    /\ UNCHANGED <<clientVars, regVars, mode, msg, sends, closing>>

\* A client is told the outcome in a local-ack, which a full channel drops.
Finish(r) ==
    /\ mode[r] # "idle" /\ todo[r] = {}
    /\ mode' = [mode EXCEPT ![r] = "idle"]
    /\ IF r \in Clients
         THEN \/ Room(r) /\ Enqueue(r, [from |-> Self, n |-> msg[r]])
              \/ (~Room(r) \/ done[r]) /\ UNCHANGED buf
         ELSE UNCHANGED buf
    /\ UNCHANGED <<stage, name, peerGone, done, got, regVars, msg, todo, accepted, queued, sends,
                   closing>>

-----------------------------------------------------------------------------
Serve(c) ==
    \/ (\E n \in Names \cup {None} : Upgrade(c, n)) \/ Add(c) \/ Register(c)
    \/ Write(c) \/ WriteFails(c) \/ ReadFails(c) \/ Release(c) \/ Remove(c)

Routing(r) ==
    \/ (\E n \in Names : Route(r, n)) \/ Broadcast(r)
    \/ (\E c \in Clients : DeliverToClient(r, c)) \/ (\E t \in Targets : DeliverToTarget(r, t))
    \/ Finish(r)

Next ==
    \/ \E c \in Clients : Serve(c) \/ PeerGoes(c)
    \/ \E n \in Names : DeregisterByName(n) \/ (\E t \in Targets : RegisterTarget(t, n))
    \/ \E r \in Routers : Routing(r)
    \/ SurfaceEvent
    \/ CloseAll

Spec == Init /\ [][Next]_vars

\* A goroutine that can go on does: serve after its upgrade, the pumps, whose
\* deadlines notice a peer that has gone, and deliveries, which have timeouts.
FairSpec ==
    /\ Spec
    /\ \A c \in Clients :
         WF_vars(Add(c)) /\ WF_vars(Register(c)) /\ WF_vars(ReadFails(c))
           /\ WF_vars(Release(c)) /\ WF_vars(Remove(c))
    /\ \A r \in Routers :
         /\ WF_vars(Finish(r))
         /\ \A h \in Clients : WF_vars(DeliverToClient(r, h))
         /\ \A h \in Targets : WF_vars(DeliverToTarget(r, h))

-----------------------------------------------------------------------------
(* Properties                                                               *)

Frames == [from : Routers \cup {Self}, n : 1..MaxSends]

RegTypes ==
    /\ stage \in [Clients -> {"new", "upgraded", "added", "live", "left", "released", "gone"}]
    /\ name \in [Holders -> Names \cup {None}]
    /\ entries \in [Names -> Holders \cup {None}] /\ owner \in [Names -> Holders \cup {None}]
    /\ hub \in SUBSET Clients

ChannelTypes ==
    /\ buf \in [Clients -> Seq(Frames)] /\ \A c \in Clients : Len(buf[c]) <= Buffer
    /\ got \in [Clients -> Seq(Frames)]

\* A router that has something to deliver is at work, on a message of its own.
RoutingTypes ==
    /\ mode \in [Routers -> {"idle", "one", "all", "surface"}]
    /\ msg \in [Routers -> 0..MaxSends] /\ todo \in [Routers -> SUBSET Holders]
    /\ accepted \in SUBSET ((1..MaxSends) \X Holders)
    /\ queued \in SUBSET ((1..MaxSends) \X Holders)
    /\ sends \in 0..MaxSends
    /\ \A r \in Routers : mode[r] # "idle" => msg[r] # 0
    /\ \A r \in Routers : todo[r] # {} => mode[r] # "idle"

FlagTypes ==
    /\ peerGone \in [Clients -> BOOLEAN] /\ done \in [Clients -> BOOLEAN]
    /\ closing \in {"no", "snapshot", "closed"}

\* The type of every variable: the registry and the hub, the channels, which hold
\* no more than Buffer frames, the flags, and the messages under way.
TypeOK == RegTypes /\ ChannelTypes /\ FlagTypes /\ RoutingTypes

\* The newest registration of a name is routable for as long as it is connected,
\* whatever older connections of that name do on their way out (Register).
NewestIsRoutable ==
    \A c \in Clients :
        stage[c] = "live" /\ name[c] # None /\ owner[name[c]] = c => entries[name[c]] = c

\* The registry holds no connection that has been released, and the hub none that
\* has been removed (serve's last two calls).
NoDanglingEntry ==
    /\ \A n \in Names : entries[n] \in Clients => stage[entries[n]] \in {"live", "left"}
    /\ \A c \in hub : stage[c] \notin {"new", "upgraded", "gone"}

\* A message reported as delivered was queued, unless its receiver had gone.
AcceptedUnlessGone ==
    \A e \in accepted : e \in queued \/ (e[2] \in Clients /\ done[e[2]])

\* What c has received and what is on its channel.
Stream(c) == got[c] \o buf[c]

\* The messages of each session are in the order it sent them.
Ordered(s) ==
    \A i, j \in 1..Len(s) :
        i < j /\ s[i].from \in Clients /\ s[j].from = s[i].from => s[i].n < s[j].n

\* Two messages of one session reach another in the order they were sent.
InOrder == \A c \in Clients : Ordered(Stream(c))

\* A subscriber that has gone leaves the registry and the hub.
GoneIsRemoved ==
    \A c \in Clients : (stage[c] = "live" /\ peerGone[c]) ~> stage[c] = "gone"

FramesOf(s) == {s[i] : i \in 1..Len(s)}

\* What a session has put on c's channel is not newer than what it sends now, and
\* older while that is still to be delivered to c.
Behind(c, f) ==
    f.from \in Clients => f.n <= msg[f.from] /\ (c \in todo[f.from] => f.n < msg[f.from])

OrderInv ==
    /\ \A s \in Clients : msg[s] <= sends
    /\ \A c \in Clients : \A f \in FramesOf(Stream(c)) : Behind(c, f)
    /\ InOrder

\* The two properties of the registry are inductive together with its types.
RegistryInv == RegTypes /\ NewestIsRoutable /\ NoDanglingEntry
===============================================================================

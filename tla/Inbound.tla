------------------------------- MODULE Inbound --------------------------------
(***************************************************************************)
(* The inbound pipeline: the relay's delivery of a message, the policy of  *)
(* internal/agent/agent.go (blocked, verified, contact or pending, muted), *)
(* the ack, and the operations that change the policy tables under it      *)
(* (AddContact, which Send ends with as well, RemoveContact, Block, Mute). *)
(*                                                                         *)
(* The read loop handles one frame at a time; operations run in goroutines *)
(* of the control and HTTP servers.  The store has one SQLite connection   *)
(* and no transactions: a step is one SQL statement.  The names of         *)
(* contacts (syncContactName) and the last sender (LastInbound) are left   *)
(* out: no decision here depends on them.                                  *)
(***************************************************************************)
EXTENDS Naturals, FiniteSets

CONSTANTS
    Peers, Messages,
    Sender,         \* Sender[m]: the peer m is from
    Kind,           \* Kind[m]: "dm", "forged" (it does not verify, or decrypt),
                    \* "group", "reaction" or "group_reaction"
    Requests,       \* the goroutines that run operations
    Nothing,        \* no message, no peer
    MaxOps,         \* bound on operations
    MaxDeliveries,  \* MaxDeliveries[m]: bound on the relay's deliveries of m
    MaxCrashes      \* bound on the times the process dies

Kinds == {"dm", "forged", "group", "reaction", "group_reaction"}

ASSUME InboundAssumption ==
    /\ Sender \in [Messages -> Peers] /\ Kind \in [Messages -> Kinds]
    /\ Nothing \notin Messages /\ Nothing \notin Peers
    /\ MaxOps \in Nat /\ MaxDeliveries \in [Messages -> Nat] /\ MaxCrashes \in Nat

VARIABLES
    relayQueue,     \* external: messages the relay holds for us
    deliveries, crashes, ops,
    contacts, blocked, muted,          \* tables, by peer
    pending, notified, history,        \* tables, by message; reactions are
                                       \* kept in history
    at, hand,       \* the read loop: what it does next, with which message
    surfaced,       \* surfaced[m]: <<trust, n-th delivery>> of each event for m
    opAt, opPeer,   \* per request: what it does next, for which peer
    taken,          \* per request: the rows FlushPending has read
    acked,          \* the relay has been told to forget these
    refused,        \* handled while the sender was blocked, or not verified
    purged,         \* pending rows deleted by BlockContact
    unread,         \* pending rows deleted by a FlushPending that never read them
    cut,            \* rows that were in a request's hands when the process died
    approved        \* peers that have ever been contacts

tables  == <<contacts, blocked, muted, pending, notified, history>>
opVars  == <<ops, opAt, opPeer, taken>>
loopVars == <<at, hand>>
ghosts  == <<refused, purged, unread, cut, approved>>
vars == <<relayQueue, deliveries, crashes, tables, loopVars, surfaced, opVars, acked, ghosts>>

From(p) == {m \in Messages : Sender[m] = p}

Init ==
    /\ relayQueue = Messages /\ deliveries = [m \in Messages |-> 0]
    /\ crashes = 0 /\ ops = 0
    /\ contacts \in SUBSET Peers /\ blocked = {} /\ muted = {}
    /\ pending = {} /\ notified = {} /\ history = {}
    /\ at = "read" /\ hand = Nothing
    /\ surfaced = [m \in Messages |-> {}]
    /\ opAt = [r \in Requests |-> "idle"] /\ opPeer = [r \in Requests |-> Nothing]
    /\ taken = [r \in Requests |-> {}]
    /\ acked = {} /\ refused = {} /\ purged = {} /\ unread = {} /\ cut = {}
    /\ approved = contacts

-----------------------------------------------------------------------------
(* The read loop                                                            *)

\* Where the read loop goes next.
Then(l) == at' = l /\ UNCHANGED hand

\* Faulty variant: the ack is sent before the message is handled.
ReceiveAcking(m) ==
    /\ at = "read" /\ m \in relayQueue /\ deliveries[m] < MaxDeliveries[m]
    /\ at' = "blocked?" /\ hand' = m
    /\ deliveries' = [deliveries EXCEPT ![m] = @ + 1]
    /\ relayQueue' = relayQueue \ {m} /\ acked' = acked \cup {m}
    /\ UNCHANGED <<crashes, tables, surfaced, opVars, ghosts>>

\* External: the relay sends, again if need be, whatever was not acked.
Receive(m) ==
    /\ at = "read" /\ m \in relayQueue /\ deliveries[m] < MaxDeliveries[m]
    /\ at' = "blocked?" /\ hand' = m
    /\ deliveries' = [deliveries EXCEPT ![m] = @ + 1]
    /\ UNCHANGED <<relayQueue, crashes, tables, surfaced, opVars, acked, ghosts>>

\* handleInbound: drops what a blocked peer sent; dispatches the rest.
CheckBlocked ==
    /\ at = "blocked?"
    /\ IF Sender[hand] \in blocked \/ Kind[hand] = "forged"
         THEN Then("ack") /\ refused' = refused \cup {hand}
         ELSE /\ Then(IF Kind[hand] \in {"dm", "reaction"} THEN "contact?" ELSE "save")
              /\ UNCHANGED refused
    /\ UNCHANGED <<relayQueue, deliveries, crashes, tables, surfaced, opVars, acked,
                   purged, unread, cut, approved>>

\* Faulty variant: reactions are not checked.
CheckContactOfDirect ==
    /\ at = "contact?"
    /\ Then(IF Kind[hand] = "dm" /\ Sender[hand] \notin contacts THEN "pend" ELSE "save")
    /\ UNCHANGED <<relayQueue, deliveries, crashes, tables, surfaced, opVars, acked, ghosts>>

\* A reaction of one who is not a contact is dropped, a direct message kept pending.
CheckContact ==
    /\ at = "contact?"
    /\ Then(CASE Sender[hand] \in contacts -> "save"
               [] Kind[hand] = "dm"         -> "pend"
               [] OTHER                     -> "ack")
    /\ UNCHANGED <<relayQueue, deliveries, crashes, tables, surfaced, opVars, acked, ghosts>>

\* INSERT OR IGNORE: a row that is there keeps its notified column.
SavePending ==
    /\ at = "pend"
    /\ pending' = pending \cup {hand}
    /\ Then("notified?")
    /\ UNCHANGED <<relayQueue, deliveries, crashes, contacts, blocked, muted, notified,
                   history, surfaced, opVars, acked, ghosts>>

CheckNotified ==
    /\ at = "notified?"
    /\ Then(IF notified \cap From(Sender[hand]) # {} THEN "ack" ELSE "mark")
    /\ UNCHANGED <<relayQueue, deliveries, crashes, tables, surfaced, opVars, acked, ghosts>>

\* Faulty variant: notes the row in hand, there or not.
MarkInHand ==
    /\ at = "mark"
    /\ notified' = notified \cup {hand}
    /\ Then("announce")
    /\ UNCHANGED <<relayQueue, deliveries, crashes, contacts, blocked, muted, pending,
                   history, surfaced, opVars, acked, ghosts>>

\* Faulty variant: the UPDATE is missing.
MarkNothing ==
    /\ at = "mark"
    /\ Then("announce")
    /\ UNCHANGED <<relayQueue, deliveries, crashes, tables, surfaced, opVars, acked, ghosts>>

MarkNotified ==
    /\ at = "mark"
    /\ notified' = notified \cup (pending \cap From(Sender[hand]))
    /\ Then("announce")
    /\ UNCHANGED <<relayQueue, deliveries, crashes, contacts, blocked, muted, pending,
                   history, surfaced, opVars, acked, ghosts>>

Surface(trust) ==
    surfaced' = [surfaced EXCEPT ![hand] = @ \cup {<<trust, deliveries[hand]>>}]

Announce ==
    /\ at = "announce"
    /\ Surface("pending")
    /\ Then("ack")
    /\ UNCHANGED <<relayQueue, deliveries, crashes, tables, opVars, acked, ghosts>>

\* SaveMessage or SaveReaction; a reaction is surfaced whoever is muted.
Save ==
    /\ at = "save"
    /\ history' = history \cup {hand}
    /\ Then(IF Kind[hand] \in {"dm", "group"} THEN "muted?" ELSE "surface")
    /\ UNCHANGED <<relayQueue, deliveries, crashes, contacts, blocked, muted, pending,
                   notified, surfaced, opVars, acked, ghosts>>

CheckMuted ==
    /\ at = "muted?"
    /\ Then(IF Sender[hand] \in muted THEN "ack" ELSE "surface")
    /\ UNCHANGED <<relayQueue, deliveries, crashes, tables, surfaced, opVars, acked, ghosts>>

SurfaceMessage ==
    /\ at = "surface"
    /\ Surface(IF Kind[hand] \in {"dm", "group"} THEN "normal" ELSE "reaction")
    /\ Then("ack")
    /\ UNCHANGED <<relayQueue, deliveries, crashes, tables, opVars, acked, ghosts>>

\* The deferred ack.  Its error is ignored: on a broken connection it is lost,
\* and the relay keeps the message.
Ack ==
    /\ at = "ack"
    /\ at' = "read" /\ hand' = Nothing
    /\ \/ relayQueue' = relayQueue \ {hand} /\ acked' = acked \cup {hand}
       \/ UNCHANGED <<relayQueue, acked>>
    /\ UNCHANGED <<deliveries, crashes, tables, surfaced, opVars, ghosts>>

ReadLoop ==
    \/ \E m \in Messages : Receive(m)
    \/ CheckBlocked \/ CheckContact \/ SavePending \/ CheckNotified \/ MarkNotified
    \/ Announce \/ Save \/ CheckMuted \/ SurfaceMessage \/ Ack

-----------------------------------------------------------------------------
(* Operations                                                               *)

Begin(r, p, l) ==
    /\ opAt[r] = "idle" /\ ops < MaxOps
    /\ ops' = ops + 1
    /\ opAt' = [opAt EXCEPT ![r] = l]
    /\ opPeer' = [opPeer EXCEPT ![r] = p]
    /\ UNCHANGED taken

Goto(r, l) == opAt' = [opAt EXCEPT ![r] = l] /\ UNCHANGED <<ops, opPeer>>

\* addContactAndFlush, of AddContact and Send: AddContact ...
AddContact(r, p) ==
    /\ Begin(r, p, "select")
    /\ contacts' = contacts \cup {p} /\ approved' = approved \cup {p}
    /\ UNCHANGED <<relayQueue, deliveries, crashes, blocked, muted, pending, notified, history,
                   loopVars, surfaced, acked, refused, purged, unread, cut>>

\* ... then FlushPending: the SELECT ...
SelectPending(r) ==
    /\ opAt[r] = "select"
    /\ taken' = [taken EXCEPT ![r] = pending \cap From(opPeer[r])]
    /\ Goto(r, IF taken'[r] = {} THEN "idle" ELSE "delete")
    /\ UNCHANGED <<relayQueue, deliveries, crashes, tables, loopVars, surfaced, acked, ghosts>>

\* ... and the DELETE, of whatever is there by now ...
DeletePending(r) ==
    /\ opAt[r] = "delete"
    /\ pending' = pending \ From(opPeer[r])
    /\ notified' = notified \ From(opPeer[r])
    /\ unread' = unread \cup ((pending \cap From(opPeer[r])) \ taken[r])
    /\ Goto(r, "deliver") /\ UNCHANGED taken
    /\ UNCHANGED <<relayQueue, deliveries, crashes, contacts, blocked, muted, history, loopVars,
                   surfaced, acked, refused, purged, cut, approved>>

\* ... and SaveMessage for each row that was read.
DeliverPending(r) ==
    /\ opAt[r] = "deliver"
    /\ \E m \in taken[r] :
         /\ history' = history \cup {m}
         /\ taken' = [taken EXCEPT ![r] = @ \ {m}]
    /\ Goto(r, IF taken'[r] = {} THEN "idle" ELSE "deliver")
    /\ UNCHANGED <<relayQueue, deliveries, crashes, contacts, blocked, muted, pending, notified,
                   loopVars, surfaced, acked, ghosts>>

RemoveContact(r, p) ==
    /\ Begin(r, p, "idle")
    /\ contacts' = contacts \ {p}
    /\ UNCHANGED <<relayQueue, deliveries, crashes, blocked, muted, pending, notified, history,
                   loopVars, surfaced, acked, ghosts>>

\* BlockContact: the row, then the contact, then the pending messages.
Block(r, p) ==
    /\ Begin(r, p, "uncontact")
    /\ blocked' = blocked \cup {p}
    /\ UNCHANGED <<relayQueue, deliveries, crashes, contacts, muted, pending, notified, history,
                   loopVars, surfaced, acked, ghosts>>

BlockRemovesContact(r) ==
    /\ opAt[r] = "uncontact"
    /\ contacts' = contacts \ {opPeer[r]}
    /\ Goto(r, "unpend") /\ UNCHANGED taken
    /\ UNCHANGED <<relayQueue, deliveries, crashes, blocked, muted, pending, notified, history,
                   loopVars, surfaced, acked, ghosts>>

BlockRemovesPending(r) ==
    /\ opAt[r] = "unpend"
    /\ pending' = pending \ From(opPeer[r])
    /\ notified' = notified \ From(opPeer[r])
    /\ purged' = purged \cup (pending \cap From(opPeer[r]))
    /\ Goto(r, "idle") /\ UNCHANGED taken
    /\ UNCHANGED <<relayQueue, deliveries, crashes, contacts, blocked, muted, history, loopVars,
                   surfaced, acked, refused, unread, cut, approved>>

Unblock(r, p) ==
    /\ Begin(r, p, "idle")
    /\ blocked' = blocked \ {p}
    /\ UNCHANGED <<relayQueue, deliveries, crashes, contacts, muted, pending, notified, history,
                   loopVars, surfaced, acked, ghosts>>

\* Mute and Unmute of a peer; the expiry of a mute is left out.
Mute(r, p) ==
    /\ Begin(r, p, "idle")
    /\ muted' = (IF p \in muted THEN muted \ {p} ELSE muted \cup {p})
    /\ UNCHANGED <<relayQueue, deliveries, crashes, contacts, blocked, pending, notified, history,
                   loopVars, surfaced, acked, ghosts>>

Operation(r) ==
    \/ \E p \in Peers :
         AddContact(r, p) \/ RemoveContact(r, p) \/ Block(r, p) \/ Unblock(r, p) \/ Mute(r, p)
    \/ SelectPending(r) \/ DeletePending(r) \/ DeliverPending(r)
    \/ BlockRemovesContact(r) \/ BlockRemovesPending(r)

-----------------------------------------------------------------------------
\* The process dies and is restarted: the tables and the relay's queue remain.
Crash ==
    /\ crashes < MaxCrashes
    /\ crashes' = crashes + 1
    /\ at' = "read" /\ hand' = Nothing
    /\ opAt' = [r \in Requests |-> "idle"] /\ taken' = [r \in Requests |-> {}]
    /\ cut' = cut \cup UNION {taken[r] : r \in {q \in Requests : opAt[q] = "deliver"}}
    /\ UNCHANGED <<relayQueue, deliveries, tables, surfaced, ops, opPeer, acked, refused, purged,
                   unread, approved>>

Next == ReadLoop \/ (\E r \in Requests : Operation(r)) \/ Crash

Spec == Init /\ [][Next]_vars

-----------------------------------------------------------------------------
(* Properties                                                               *)

TypeOK ==
    /\ relayQueue \in SUBSET Messages
    /\ \A m \in Messages :
         /\ deliveries[m] \in 0..MaxDeliveries[m]
         /\ surfaced[m] \subseteq {"pending", "normal", "reaction"} \X (1..MaxDeliveries[m])
    /\ crashes \in 0..MaxCrashes /\ ops \in 0..MaxOps
    /\ contacts \in SUBSET Peers /\ blocked \in SUBSET Peers /\ muted \in SUBSET Peers
    /\ pending \in SUBSET Messages /\ notified \in SUBSET pending
    /\ history \in SUBSET Messages
    /\ at \in {"read", "blocked?", "contact?", "pend", "notified?", "mark", "announce", "save",
               "muted?", "surface", "ack"}
    /\ hand \in Messages \cup {Nothing} /\ (hand = Nothing <=> at = "read")
    /\ opAt \in [Requests -> {"idle", "select", "delete", "deliver", "uncontact", "unpend"}]
    /\ opPeer \in [Requests -> Peers \cup {Nothing}]
    /\ taken \in [Requests -> SUBSET Messages]
    /\ acked \in SUBSET Messages
    /\ refused \in SUBSET Messages /\ purged \in SUBSET Messages
    /\ unread \in SUBSET Messages /\ cut \in SUBSET Messages
    /\ approved \in SUBSET Peers

InHands == UNION {taken[r] : r \in Requests}

\* A direct message the relay has been told to forget is in the history or among
\* the pending ones, or on its way from there to here; the only others are those of
\* blocked peers, and what the two races of FlushPending lose (the ack is deferred
\* until the handler has stored the message; addContactAndFlush).
AckedIsKept ==
    \A m \in acked : Kind[m] = "dm" =>
        m \in history \cup pending \cup InHands \cup refused \cup purged \cup unread \cup cut

\* A sender with pending messages is not left in silence: once the read loop has
\* acked all of them as such, one is marked, and in a process that has not died
\* meanwhile one was announced, whatever flushes and blocks went on in between
\* (handleInboundDM saves before it looks, and marks before it announces).
NoSilentPending ==
    \A p \in Peers :
        (pending \cap From(p) # {}
             /\ pending \cap From(p) \subseteq acked \ (refused \cup history)
             /\ (hand = Nothing \/ Sender[hand] # p))
        => /\ notified \cap From(p) # {}
           /\ crashes = 0 => \E m \in From(p) : surfaced[m] # {}

\* A direct message or a reaction reaches the history, and a live harness with
\* full trust, only if its sender has been a contact; a forged one never does.
OnlyApprovedInHistory ==
    \A m \in Messages :
        Kind[m] = "forged" \/ (Kind[m] \in {"dm", "reaction"} /\ Sender[m] \notin approved) =>
            m \notin history /\ \A e \in surfaced[m] : e[1] = "pending"
===============================================================================

----------------------------- MODULE OutboxProofs ------------------------------
(* Proofs about Outbox, for any messages and any bounds on connections,    *)
(* crashes and attempts, and of its refinement of MessageQueue.            *)
EXTENDS Outbox, FiniteSetTheorems, TLAPS

USE OutboxAssumption DEF connVars, tableVars, sendVars, flushVars, Conns

-----------------------------------------------------------------------------
(* Types                                                                    *)

Points == {"idle", "conn", "write", "await", "save", "queue", "record", "done"}
Results == {"pending", "error", "sent", "queued"}
Stages == {"idle", "start", "loop", "write", "sent", "failed"}

\* A call goes on or returns.
LEMMA CallGoesOn ==
    ASSUME pc \in [Messages -> Points], result \in [Messages -> Results], NEW m \in Messages
    PROVE  /\ \A l \in Points : Goto(m, l) => pc' \in [Messages -> Points] /\ result' = result
           /\ \A r \in Results : Return(m, r) => /\ pc' \in [Messages -> Points]
                                                /\ result' \in [Messages -> Results]
BY DEF Goto, Return, Points, Results

\* A count that goes up remains one, also if it is nobody's.
LEMMA OneMore ==
    ASSUME NEW f \in [Messages -> Nat], NEW m PROVE [f EXCEPT ![m] = @ + 1] \in [Messages -> Nat]
<1>1. CASE m \in Messages
  BY <1>1
<1>2. CASE m \notin Messages
  <2>1. [f EXCEPT ![m] = @ + 1] = f
    BY <1>2
  <2>2. QED
    BY <2>1
<1>3. QED
  BY <1>1, <1>2

\* A write that succeeds is counted, one that fails is not.
LEMMA WriteCounts ==
    ASSUME written \in [Messages -> Nat], relayed \in [Messages -> Nat], NEW m, NEW n
    PROVE  /\ Written(m, n, TRUE) =>
                /\ written' = [written EXCEPT ![m] = @ + 1]
                /\ written' \in [Messages -> Nat] /\ relayed' \in [Messages -> Nat]
           /\ Written(m, n, FALSE) => written' = written /\ relayed' = relayed
<1>1. ASSUME Written(m, n, TRUE)
      PROVE  /\ written' = [written EXCEPT ![m] = @ + 1]
             /\ written' \in [Messages -> Nat] /\ relayed' \in [Messages -> Nat]
  <2>1. /\ written' = [written EXCEPT ![m] = @ + 1]
        /\ relayed' = [relayed EXCEPT ![m] = @ + 1] \/ relayed' = relayed
    BY <1>1 DEF Written
  <2>2. [written EXCEPT ![m] = @ + 1] \in [Messages -> Nat]
    BY OneMore
  <2>3. [relayed EXCEPT ![m] = @ + 1] \in [Messages -> Nat]
    BY OneMore
  <2>4. QED
    BY <2>1, <2>2, <2>3
<1>2. Written(m, n, FALSE) => written' = written /\ relayed' = relayed
  BY DEF Written
<1>3. QED
  BY <1>1, <1>2

\* The next timestamp is a number.
LEMMA StampIsNat == Cardinality({k \in Messages : ts[k] > 0}) \in Nat
<1>1. IsFiniteSet({k \in Messages : ts[k] > 0})
  BY FS_Subset
<1>2. QED
  BY <1>1, FS_CardinalityType

\* Every step keeps the types.
LEMMA TypeNext == TypeOK /\ [Next]_vars => TypeOK'
<1> SUFFICES ASSUME TypeOK, [Next]_vars PROVE TypeOK'
  OBVIOUS
<1> USE DEF TypeOK, Points, Results, Stages
<1>1. CASE Authenticate
  <2>1. dials' \in 0..MaxConns
    BY <1>1 DEF Authenticate
  <2>2. onReadyActive' \in BOOLEAN
    BY <1>1 DEF Authenticate
  <2>3. flush' \in [Conns -> Stages]
    BY <1>1 DEF Authenticate
  <2>4. reauthed' \in SUBSET Messages
    BY <1>1 DEF Authenticate
  <2>5. QED
    BY <1>1, <2>1, <2>2, <2>3, <2>4 DEF Authenticate
<1>2. CASE LinkBreaks
  BY <1>2 DEF LinkBreaks
<1>3. CASE Disconnect
  BY <1>3 DEF Disconnect
<1>4. CASE Shutdown
  BY <1>4 DEF Shutdown
<1>5. CASE GoesDown
  <2>1. crashes' \in 0..MaxCrashes
    BY <1>5 DEF GoesDown
  <2>2. pc' \in [Messages -> Points]
    BY <1>5 DEF GoesDown
  <2>3. /\ flush' \in [Conns -> Stages]
        /\ items' \in [Conns -> SUBSET Messages]
        /\ cur' \in [Conns -> Messages \cup {NoMessage}]
    BY <1>5 DEF GoesDown, IdleFlushes
  <2>4. QED
    BY <1>5, <2>1, <2>2, <2>3 DEF GoesDown, IdleFlushes
<1>6. CASE Restart
  BY <1>6 DEF Restart
<1>7. ASSUME NEW m \in Messages, Send(m) PROVE TypeOK'
  <2>1. /\ pc' \in [Messages -> Points] /\ result' \in [Messages -> Results]
    BY <1>7 DEF Send, Goto, Return
  <2>2. QED
    BY <1>7, <2>1 DEF Send
<1>8. ASSUME NEW m \in Messages, TakeConn(m) PROVE TypeOK'
  <2>1. /\ pc' \in [Messages -> Points] /\ result' \in [Messages -> Results]
    BY <1>8, CallGoesOn DEF TakeConn, Points, Results
  <2>2. got' \in [Messages -> 0..MaxConns]
    BY <1>8 DEF TakeConn
  <2>3. QED
    BY <1>8, <2>1, <2>2 DEF TakeConn
<1>9. ASSUME NEW m \in Messages, Transmit(m) PROVE TypeOK'
  <2>1. /\ pc' \in [Messages -> Points] /\ result' \in [Messages -> Results]
    BY <1>9, CallGoesOn DEF Transmit, Points, Results
  <2>2. written' \in [Messages -> Nat] /\ relayed' \in [Messages -> Nat]
    BY <1>9, WriteCounts DEF Transmit
  <2>3. QED
    BY <1>9, <2>1, <2>2 DEF Transmit
<1>10. ASSUME NEW m \in Messages, StatusOrTimeout(m) PROVE TypeOK'
  BY <1>10 DEF StatusOrTimeout, Goto
<1>11. ASSUME NEW m \in Messages, ContextDone(m) PROVE TypeOK'
  BY <1>11 DEF ContextDone, Return
<1>12. ASSUME NEW m \in Messages, SaveSent(m) PROVE TypeOK'
  BY <1>12 DEF SaveSent, Return
<1>13. ASSUME NEW m \in Messages, SaveOutbox(m) PROVE TypeOK'
  <2>1. ts' \in [Messages -> Nat]
    BY <1>13, StampIsNat DEF SaveOutbox
  <2>2. pc' \in [Messages -> Points]
    BY <1>13 DEF SaveOutbox, Goto
  <2>3. QED
    BY <1>13, <2>1, <2>2 DEF SaveOutbox, Goto
<1>14. ASSUME NEW m \in Messages, SaveQueued(m) PROVE TypeOK'
  BY <1>14 DEF SaveQueued, Return
<1>15. ASSUME NEW n \in Conns, FlushReads(n) PROVE TypeOK'
  <2>1. items' \in [Conns -> SUBSET Messages] /\ snap' \in [Conns -> [Messages -> Nat]]
    BY <1>15 DEF FlushReads
  <2>2. flush' \in [Conns -> Stages]
    BY <1>15 DEF FlushReads
  <2>3. QED
    BY <1>15, <2>1, <2>2 DEF FlushReads
<1>16. ASSUME NEW n \in Conns, FlushWrites(n) PROVE TypeOK'
  <2>1. written' \in [Messages -> Nat] /\ relayed' \in [Messages -> Nat]
    BY <1>16, WriteCounts DEF FlushWrites
  <2>2. flush' \in [Conns -> Stages]
    BY <1>16 DEF FlushWrites
  <2>3. QED
    BY <1>16, <2>1, <2>2 DEF FlushWrites
<1>17. ASSUME NEW n \in Conns, FlushDeletes(n) PROVE TypeOK'
  BY <1>17 DEF FlushDeletes
<1>18. ASSUME NEW n \in Conns, FlushCounts(n) PROVE TypeOK'
  <2>1. attempts' \in [Messages -> Nat]
    BY <1>18 DEF FlushCounts
  <2>2. flush' \in [Conns -> Stages]
    BY <1>18 DEF FlushCounts
  <2>3. QED
    BY <1>18, <2>1, <2>2 DEF FlushCounts
<1>19. ASSUME NEW n \in Conns, FlushEnds(n) PROVE TypeOK'
  BY <1>19 DEF FlushEnds
<1>20. ASSUME NEW n \in Conns, NEW m \in Messages, FlushDiscards(n, m) PROVE TypeOK'
  BY <1>20 DEF FlushDiscards
<1>21. ASSUME NEW n \in Conns, NEW m \in Messages, FlushTakesConn(n, m) PROVE TypeOK'
  BY <1>21 DEF FlushTakesConn, Oldest
<1>22. CASE UNCHANGED vars
  BY <1>22 DEF vars
<1>23. QED
  BY <1>1, <1>2, <1>3, <1>4, <1>5, <1>6, <1>7, <1>8, <1>9, <1>10, <1>11, <1>12, <1>13,
     <1>14, <1>15, <1>16, <1>17, <1>18, <1>19, <1>20, <1>21, <1>22
     DEF Next, Environment, Sender, Flusher

\* Every variable keeps its type (Agent.Send, flushOutbox and the tables of store.go).
THEOREM TypeCorrect == Spec => []TypeOK
<1> USE DEF TypeOK, Points, Results, Stages
<1>1. ASSUME Init PROVE TypeOK
  <2>1. attempts \in [Messages -> Nat] /\ snap \in [Conns -> [Messages -> Nat]]
    BY <1>1 DEF Init
  <2>2. /\ ts \in [Messages -> Nat] /\ written \in [Messages -> Nat]
        /\ relayed \in [Messages -> Nat] /\ got \in [Messages -> 0..MaxConns]
        /\ items \in [Conns -> SUBSET Messages] /\ fgot \in [Conns -> 0..MaxConns]
    BY <1>1 DEF Init
  <2>3. /\ pc \in [Messages -> Points] /\ result \in [Messages -> Results]
        /\ flush \in [Conns -> Stages] /\ cur \in [Conns -> Messages \cup {NoMessage}]
    BY <1>1 DEF Init
  <2>4. ready \in BOOLEAN /\ onReadyActive \in BOOLEAN
    BY <1>1 DEF Init
  <2>5. /\ life \in {"up", "stopping", "down"} /\ crashes \in 0..MaxCrashes
        /\ dials \in 0..MaxConns /\ link \in {"none", "up", "lost", "closed"}
        /\ outbox \in SUBSET Messages /\ history \in SUBSET Messages
        /\ reauthed \in SUBSET Messages
    BY <1>1 DEF Init
  <2>6. QED
    BY <2>1, <2>2, <2>3, <2>4, <2>5
<1>2. TypeOK /\ [Next]_vars => TypeOK'
  BY TypeNext
<1>3. QED
  BY <1>1, <1>2, PTL DEF Spec

-----------------------------------------------------------------------------
(* One flush at a time                                                      *)

\* A flush that runs holds the flag, and is the only one.
FlightInv ==
    /\ \A n \in Conns : flush[n] # "idle" => onReadyActive
    /\ \A n, k \in Conns : flush[n] # "idle" /\ flush[k] # "idle" => n = k

\* The steps that neither start nor end a flush: each leaves the others where they are.
LEMMA FlushSteps ==
    ASSUME TypeOK, [Next]_vars
    PROVE  \/ Authenticate \/ GoesDown \/ \E n \in Conns : FlushEnds(n)
           \/ onReadyActive' = onReadyActive /\ flush' = flush
           \/ /\ onReadyActive' = onReadyActive
              /\ \E n \in Conns, st \in Stages :
                    flush[n] # "idle" /\ flush' = [flush EXCEPT ![n] = st]
<1>1. LinkBreaks \/ Disconnect \/ Shutdown \/ Restart \/ UNCHANGED vars
      => onReadyActive' = onReadyActive /\ flush' = flush
  BY DEF LinkBreaks, Disconnect, Shutdown, Restart, vars
<1>2. ASSUME NEW m \in Messages, Sender(m)
      PROVE  onReadyActive' = onReadyActive /\ flush' = flush
  BY <1>2 DEF Sender, Send, TakeConn, Transmit, StatusOrTimeout, ContextDone, SaveSent, SaveOutbox,
              SaveQueued
<1>3. ASSUME NEW n \in Conns, NEW m \in Messages, FlushDiscards(n, m)
      PROVE  onReadyActive' = onReadyActive /\ flush' = flush
  BY <1>3 DEF FlushDiscards
<1>4. ASSUME NEW n \in Conns, \/ FlushReads(n) \/ FlushWrites(n) \/ FlushDeletes(n)
                             \/ FlushCounts(n) \/ \E m \in Messages : FlushTakesConn(n, m)
      PROVE  /\ onReadyActive' = onReadyActive
             /\ \E st \in Stages : flush[n] # "idle" /\ flush' = [flush EXCEPT ![n] = st]
  BY <1>4 DEF FlushReads, FlushWrites, FlushDeletes, FlushCounts, FlushTakesConn, Stages
<1>5. QED
  BY <1>1, <1>2, <1>3, <1>4 DEF Next, Environment, Flusher

\* Every step keeps FlightInv: auth_ok starts a flush only when none runs.
LEMMA FlightInvariant == Spec => []FlightInv
<1>1. Init => FlightInv
  BY DEF Init, FlightInv
<1>2. TypeOK /\ FlightInv /\ [Next]_vars => FlightInv'
  <2> SUFFICES ASSUME TypeOK, FlightInv, [Next]_vars PROVE FlightInv'
    OBVIOUS
  <2>0. flush \in [Conns -> Stages]
    BY DEF TypeOK, Stages
  <2>1. CASE Authenticate
    BY <2>0, <2>1 DEF Authenticate, FlightInv
  <2>2. CASE GoesDown
    BY <2>2 DEF GoesDown, IdleFlushes, FlightInv
  <2>3. ASSUME NEW n \in Conns, FlushEnds(n) PROVE FlightInv'
    BY <2>0, <2>3 DEF FlushEnds, FlightInv
  <2>4. CASE onReadyActive' = onReadyActive /\ flush' = flush
    BY <2>4 DEF FlightInv
  <2>5. ASSUME NEW n \in Conns, NEW st \in Stages, onReadyActive' = onReadyActive,
               flush[n] # "idle", flush' = [flush EXCEPT ![n] = st]
        PROVE  FlightInv'
    BY <2>0, <2>5 DEF FlightInv
  <2>6. QED
    BY <2>1, <2>2, <2>3, <2>4, <2>5, FlushSteps
<1>3. QED
  BY <1>1, <1>2, TypeCorrect, PTL DEF Spec

-----------------------------------------------------------------------------
(* The rows a flush holds                                                   *)

Held == {"write", "sent", "failed"}

\* What a flush has still to visit is in the outbox, and so is the row in its hand,
\* which it will not visit again; a row has failed at least as often as it read.
RowsOf(n) ==
    /\ items[n] \subseteq outbox
    /\ flush[n] \in {"idle", "start"} => items[n] = {}
    /\ flush[n] \in Held => cur[n] \in outbox /\ cur[n] \notin items[n]
    /\ \A m \in items[n] : snap[n][m] <= attempts[m]

RowsInv == \A n \in Conns : RowsOf(n)

\* The steps that touch neither rows nor flushes.
LEMMA RowSteps ==
    ASSUME [Next]_vars
    PROVE  \/ Authenticate \/ GoesDown \/ \E m \in Messages : Sender(m)
           \/ \E n \in Conns : Flusher(n)
           \/ UNCHANGED <<crashes, outbox, attempts, history, written, sendVars, flushVars>>
<1>1. LinkBreaks \/ Disconnect \/ Shutdown \/ Restart \/ UNCHANGED vars
      => UNCHANGED <<crashes, outbox, attempts, history, written, sendVars, flushVars>>
  BY DEF LinkBreaks, Disconnect, Shutdown, Restart, vars
<1>2. QED
  BY <1>1 DEF Next, Environment

\* Every step keeps RowsInv: only the flush deletes rows, its own or one it discards.
LEMMA RowsInvariant == Spec => []RowsInv
<1>1. Init => RowsInv
  BY DEF Init, RowsInv, RowsOf, Held
<1>2. TypeOK /\ FlightInv /\ RowsInv /\ [Next]_vars => RowsInv'
  <2> SUFFICES ASSUME TypeOK, FlightInv, RowsInv, [Next]_vars, NEW k \in Conns
               PROVE  RowsOf(k)'
    BY DEF RowsInv
  <2> USE DEF RowsInv, RowsOf, Held
  <2>0. /\ flush \in [Conns -> Stages] /\ items \in [Conns -> SUBSET Messages]
        /\ cur \in [Conns -> Messages \cup {NoMessage}] /\ snap \in [Conns -> [Messages -> Nat]]
        /\ attempts \in [Messages -> Nat] /\ outbox \subseteq Messages
    BY DEF TypeOK, Stages
  <2>1. CASE Authenticate
    BY <2>0, <2>1 DEF Authenticate, FlightInv
  <2>2. CASE GoesDown
    BY <2>0, <2>2 DEF GoesDown, IdleFlushes
  <2>3. CASE UNCHANGED <<outbox, attempts, flushVars>>
    BY <2>3
  <2>4. ASSUME NEW m \in Messages, Sender(m) PROVE RowsOf(k)'
    <3>1. CASE SaveOutbox(m)
      BY <2>0, <3>1 DEF SaveOutbox
    <3>2. CASE ~SaveOutbox(m)
      BY <2>3, <2>4, <3>2
         DEF Sender, Send, TakeConn, Transmit, StatusOrTimeout, ContextDone, SaveSent, SaveQueued
    <3>3. QED
      BY <3>1, <3>2
  <2>6. ASSUME NEW n \in Conns, n # k, Flusher(n) PROVE RowsOf(k)'
    <3>1. flush[k] = "idle" /\ items[k] = {}
      BY <2>0, <2>6 DEF FlightInv, Flusher, FlushReads, FlushWrites, FlushDeletes, FlushCounts,
                        FlushEnds, FlushDiscards, FlushTakesConn
    <3>2. items'[k] = {} /\ flush'[k] = "idle"
      BY <2>0, <2>6, <3>1 DEF Flusher, FlushReads, FlushWrites, FlushDeletes, FlushCounts,
                        FlushEnds, FlushDiscards, FlushTakesConn
    <3>3. QED
      BY <3>2
  <2>7. CASE FlushReads(k)
    BY <2>0, <2>7 DEF FlushReads
  <2>8. CASE FlushWrites(k)
    BY <2>0, <2>8 DEF FlushWrites
  <2>9. CASE FlushDeletes(k)
    BY <2>0, <2>9 DEF FlushDeletes
  <2>10. CASE FlushCounts(k)
    BY <2>0, <2>10 DEF FlushCounts
  <2>11. CASE FlushEnds(k)
    BY <2>0, <2>11 DEF FlushEnds
  <2>12. ASSUME NEW m \in Messages, FlushDiscards(k, m) PROVE RowsOf(k)'
    BY <2>0, <2>12 DEF FlushDiscards
  <2>13. ASSUME NEW m \in Messages, FlushTakesConn(k, m) PROVE RowsOf(k)'
    BY <2>0, <2>13 DEF FlushTakesConn, Oldest
  <2>14. QED
    BY <2>1, <2>2, <2>3, <2>4, <2>6, <2>7, <2>8, <2>9, <2>10, <2>11, <2>12, <2>13, RowSteps
       DEF Flusher
<1>3. QED
  BY <1>1, <1>2, TypeCorrect, FlightInvariant, PTL DEF Spec

-----------------------------------------------------------------------------
(* New messages                                                             *)

Unsent == {"idle", "conn", "write", "queue"}

\* A message is new until its call writes or queues it.
IsNew(m) == m \notin outbox /\ written[m] = 0 /\ attempts[m] = 0

NewInv == \A m \in Messages : pc[m] \in Unsent => IsNew(m)

\* A flush leaves the calls alone, and the counts of what is not queued.
LEMMA FlusherOnly ==
    ASSUME TypeOK, RowsInv, NEW n \in Conns, Flusher(n), NEW m \in Messages
    PROVE  /\ UNCHANGED <<crashes, history, sendVars>> /\ outbox' \subseteq outbox
           /\ m \notin outbox => written'[m] = written[m] /\ attempts'[m] = attempts[m]
           /\ written'[m] \in Nat /\ written'[m] >= written[m]
           /\ attempts'[m] \in Nat /\ attempts'[m] >= attempts[m]
<1> USE DEF RowsInv, RowsOf, Held
<1>0. /\ written \in [Messages -> Nat] /\ relayed \in [Messages -> Nat]
      /\ attempts \in [Messages -> Nat] /\ outbox \subseteq Messages
  BY DEF TypeOK
<1>1. CASE FlushReads(n) \/ FlushEnds(n) \/ \E k \in Messages : FlushTakesConn(n, k)
  BY <1>0, <1>1 DEF FlushReads, FlushEnds, FlushTakesConn
<1>2. CASE FlushWrites(n)
  <2>1. cur[n] \in outbox
    BY <1>2 DEF FlushWrites
  <2>2. written' = written \/ written' = [written EXCEPT ![cur[n]] = @ + 1]
    BY <1>0, <1>2, WriteCounts DEF FlushWrites
  <2>3. QED
    BY <1>0, <1>2, <2>1, <2>2 DEF FlushWrites
<1>3. CASE FlushDeletes(n) \/ \E k \in Messages : FlushDiscards(n, k)
  BY <1>0, <1>3 DEF FlushDeletes, FlushDiscards
<1>4. CASE FlushCounts(n)
  <2>1. cur[n] \in outbox
    BY <1>4 DEF FlushCounts
  <2>2. attempts' = [attempts EXCEPT ![cur[n]] = @ + 1]
    BY <1>4, <2>1 DEF FlushCounts
  <2>3. QED
    BY <1>0, <1>4, <2>1, <2>2 DEF FlushCounts
<1>5. QED
  BY <1>1, <1>2, <1>3, <1>4 DEF Flusher

\* A call leaves the other messages alone.
LEMMA SenderOnly ==
    ASSUME TypeOK, NEW m \in Messages, Sender(m)
    PROVE  /\ UNCHANGED <<crashes, attempts, flushVars>>
           /\ \A k \in Messages \ {m} :
                 /\ pc'[k] = pc[k] /\ result'[k] = result[k] /\ written'[k] = written[k]
                 /\ (k \in outbox' <=> k \in outbox) /\ (k \in history' <=> k \in history)
<1>0. /\ written \in [Messages -> Nat] /\ relayed \in [Messages -> Nat]
      /\ pc \in [Messages -> Points] /\ result \in [Messages -> Results]
  BY DEF TypeOK, Points, Results
<1>1. CASE Transmit(m)
  <2>1. written' = written \/ written' = [written EXCEPT ![m] = @ + 1]
    BY <1>0, <1>1, WriteCounts DEF Transmit
  <2>2. QED
    BY <1>0, <1>1, <2>1 DEF Transmit, Goto, Return
<1>2. CASE Send(m)
  BY <1>0, <1>2 DEF Send, Goto, Return
<1>3. CASE TakeConn(m)
  BY <1>0, <1>3 DEF TakeConn, Goto, Return
<1>4. CASE StatusOrTimeout(m) \/ ContextDone(m)
  BY <1>0, <1>4 DEF StatusOrTimeout, ContextDone, Goto, Return
<1>5. CASE SaveSent(m) \/ SaveQueued(m)
  BY <1>0, <1>5 DEF SaveSent, SaveQueued, Return
<1>6. CASE SaveOutbox(m)
  BY <1>0, <1>6 DEF SaveOutbox, Goto
<1>7. QED
  BY <1>1, <1>2, <1>3, <1>4, <1>5, <1>6 DEF Sender

\* Every step keeps NewInv.
LEMMA NewInvariant == Spec => []NewInv
<1>1. Init => NewInv
  BY DEF Init, NewInv, IsNew
<1>2. TypeOK /\ RowsInv /\ NewInv /\ [Next]_vars => NewInv'
  <2> SUFFICES ASSUME TypeOK, RowsInv, NewInv, [Next]_vars, NEW k \in Messages, pc'[k] \in Unsent
               PROVE  IsNew(k)'
    BY DEF NewInv
  <2> USE DEF NewInv, IsNew, Unsent
  <2>0. /\ written \in [Messages -> Nat] /\ relayed \in [Messages -> Nat]
        /\ pc \in [Messages -> Points]
    BY DEF TypeOK, Points
  <2>1. CASE Authenticate
    BY <2>1 DEF Authenticate
  <2>2. CASE GoesDown
    BY <2>0, <2>2 DEF GoesDown
  <2>3. CASE UNCHANGED <<crashes, outbox, attempts, history, written, sendVars, flushVars>>
    BY <2>3
  <2>4. ASSUME NEW n \in Conns, Flusher(n) PROVE IsNew(k)'
    BY <2>4, FlusherOnly
  <2>5. ASSUME NEW m \in Messages, Sender(m) PROVE IsNew(k)'
    <3>1. CASE m # k
      BY <2>5, <3>1, SenderOnly
    <3>2. CASE Send(k)
      BY <2>0, <3>2 DEF Send
    <3>3. CASE TakeConn(k)
      BY <2>0, <3>3 DEF TakeConn
    <3>4. CASE Transmit(k)
      BY <2>0, <3>4, WriteCounts DEF Transmit, Goto
    <3>5. CASE StatusOrTimeout(k) \/ ContextDone(k) \/ SaveSent(k) \/ SaveOutbox(k) \/ SaveQueued(k)
      BY <2>0, <3>5 DEF StatusOrTimeout, ContextDone, SaveSent, SaveOutbox, SaveQueued, Goto, Return
    <3>6. QED
      BY <2>5, <3>1, <3>2, <3>3, <3>4, <3>5 DEF Sender
  <2>6. QED
    BY <2>1, <2>2, <2>3, <2>4, <2>5, RowSteps
<1>3. QED
  BY <1>1, <1>2, TypeCorrect, RowsInvariant, PTL DEF Spec

-----------------------------------------------------------------------------
(* Writes                                                                   *)

SentRow(m) == \E n \in Conns : flush[n] = "sent" /\ cur[n] = m

\* A row has been written at most once in each life before this one, and once more if
\* its flush has still to delete it.
WrittenOf(m) ==
    /\ written[m] <= 1 + crashes
    /\ m \in outbox /\ ~SentRow(m) => written[m] <= crashes

WrittenInv == \A m \in Messages : WrittenOf(m)

\* Every step keeps WrittenInv: a flush that has written a row is the only one.
LEMMA WrittenInvariant == Spec => []WrittenInv
<1>1. Init => WrittenInv
  BY DEF Init, WrittenInv, WrittenOf
<1>2. TypeOK /\ FlightInv /\ RowsInv /\ NewInv /\ WrittenInv /\ [Next]_vars => WrittenInv'
  <2> SUFFICES ASSUME TypeOK, FlightInv, RowsInv, NewInv, WrittenInv, [Next]_vars,
                      NEW k \in Messages
               PROVE  WrittenOf(k)'
    BY DEF WrittenInv
  <2> USE DEF WrittenInv, WrittenOf
  <2>0. /\ written \in [Messages -> Nat] /\ relayed \in [Messages -> Nat] /\ crashes \in Nat
        /\ pc \in [Messages -> Points] /\ flush \in [Conns -> Stages]
        /\ cur \in [Conns -> Messages \cup {NoMessage}]
    BY DEF TypeOK, Points, Stages
  <2>1. CASE Authenticate
    <3>1. SentRow(k) => SentRow(k)'
      BY <2>0, <2>1 DEF Authenticate, SentRow, FlightInv
    <3>2. QED
      BY <2>1, <3>1 DEF Authenticate
  <2>2. CASE GoesDown
    BY <2>0, <2>2 DEF GoesDown
  <2>3. CASE UNCHANGED <<crashes, outbox, attempts, history, written, sendVars, flushVars>>
    BY <2>3 DEF SentRow
  <2>4. ASSUME NEW m \in Messages, Sender(m) PROVE WrittenOf(k)'
    <3>0. SentRow(k)' <=> SentRow(k)
      BY <2>4, SenderOnly DEF SentRow
    <3>1. CASE m # k
      BY <2>4, <3>0, <3>1, SenderOnly
    <3>2. CASE Transmit(k)
      <4>1. written[k] = 0 /\ k \notin outbox
        BY <3>2 DEF Transmit, NewInv, IsNew, Unsent
      <4>2. written' = written \/ written' = [written EXCEPT ![k] = @ + 1]
        BY <2>0, <3>2, WriteCounts DEF Transmit
      <4>3. QED
        BY <2>0, <3>2, <4>1, <4>2 DEF Transmit
    <3>3. CASE SaveOutbox(k)
      BY <2>0, <3>3 DEF SaveOutbox, NewInv, IsNew, Unsent
    <3>4. CASE Send(k) \/ TakeConn(k) \/ StatusOrTimeout(k) \/ ContextDone(k) \/ SaveSent(k)
               \/ SaveQueued(k)
      BY <2>0, <3>0, <3>4 DEF Send, TakeConn, StatusOrTimeout, ContextDone, SaveSent, SaveQueued
    <3>5. QED
      BY <2>4, <3>1, <3>2, <3>3, <3>4 DEF Sender
  <2>5. ASSUME NEW n \in Conns, FlushWrites(n) PROVE WrittenOf(k)'
    <3>1. cur[n] \in outbox /\ ~SentRow(cur[n])
      BY <2>5 DEF FlushWrites, RowsInv, RowsOf, Held, FlightInv, SentRow
    <3>2. CASE k # cur[n]
      <4>1. written'[k] = written[k] /\ outbox' = outbox /\ crashes' = crashes
        <5>1. written' = written \/ written' = [written EXCEPT ![cur[n]] = @ + 1]
          BY <2>0, <2>5, WriteCounts DEF FlushWrites
        <5>2. QED
          BY <2>0, <2>5, <3>2, <5>1 DEF FlushWrites
      <4>2. SentRow(k) => SentRow(k)'
        BY <2>0, <2>5, <3>2 DEF FlushWrites, SentRow
      <4>3. QED
        BY <4>1, <4>2
    <3>3. CASE k = cur[n]
      <4>1. written[k] <= crashes /\ crashes' = crashes
        BY <2>5, <3>1, <3>3 DEF FlushWrites
      <4>2. CASE Written(k, fgot[n], TRUE) /\ flush' = [flush EXCEPT ![n] = "sent"]
        <5>1. SentRow(k)'
          BY <2>0, <2>5, <3>3, <4>2 DEF FlushWrites, SentRow
        <5>2. QED
          <6>1. written' = [written EXCEPT ![k] = @ + 1]
            BY <2>0, <4>2, WriteCounts
          <6>2. QED
            BY <2>0, <4>1, <5>1, <6>1
      <4>3. CASE Written(k, fgot[n], FALSE)
        BY <2>0, <4>1, <4>3, WriteCounts
      <4>4. QED
        BY <2>5, <3>3, <4>2, <4>3 DEF FlushWrites
    <3>4. QED
      BY <3>2, <3>3
  <2>6. ASSUME NEW n \in Conns, FlushDeletes(n) PROVE WrittenOf(k)'
    BY <2>0, <2>6 DEF FlushDeletes, SentRow
  <2>7. ASSUME NEW n \in Conns, NEW st \in Stages \ {"sent"}, flush[n] # "sent",
               flush' = flush \/ flush' = [flush EXCEPT ![n] = st],
               cur' = cur \/ \E m \in Messages : cur' = [cur EXCEPT ![n] = m],
               written' = written, crashes' = crashes, outbox' \subseteq outbox
        PROVE  WrittenOf(k)'
    <3>1. SentRow(k) => SentRow(k)'
      BY <2>0, <2>7 DEF SentRow
    <3>2. QED
      BY <2>7, <3>1
  <2>8. ASSUME NEW n \in Conns,
               \/ FlushReads(n) \/ FlushCounts(n) \/ FlushEnds(n)
               \/ \E m \in Messages : FlushDiscards(n, m) \/ FlushTakesConn(n, m)
        PROVE  WrittenOf(k)'
    <3>1. /\ flush[n] # "sent" /\ written' = written /\ crashes' = crashes
          /\ outbox' \subseteq outbox
      BY <2>8 DEF FlushReads, FlushCounts, FlushEnds, FlushDiscards, FlushTakesConn
    <3>2. \E st \in Stages \ {"sent"} : flush' = flush \/ flush' = [flush EXCEPT ![n] = st]
      BY <2>8 DEF FlushReads, FlushCounts, FlushEnds, FlushDiscards, FlushTakesConn, Stages
    <3>3. cur' = cur \/ \E m \in Messages : cur' = [cur EXCEPT ![n] = m]
      BY <2>8 DEF FlushReads, FlushCounts, FlushEnds, FlushDiscards, FlushTakesConn
    <3>4. QED
      BY <2>7, <3>1, <3>2, <3>3
  <2>9. QED
    BY <2>1, <2>2, <2>3, <2>4, <2>5, <2>6, <2>8, RowSteps DEF Flusher
<1>3. QED
  BY <1>1, <1>2, TypeCorrect, FlightInvariant, RowsInvariant, NewInvariant, PTL DEF Spec

\* A message is written at most once, and once more per crash: the single flight of
\* launchOnReady and the delete after each write (flushOutbox) leave nothing to send twice.
THEOREM RowsAreSentOnce == Spec => []WrittenOncePerLife
<1>1. WrittenInv => WrittenOncePerLife
  BY DEF WrittenInv, WrittenOf, WrittenOncePerLife
<1>2. QED
  BY <1>1, WrittenInvariant, PTL

-----------------------------------------------------------------------------
(* What is kept                                                             *)

\* A row is deleted as sent only after it was written.
SentInv == \A n \in Conns : flush[n] = "sent" => written[cur[n]] > 0

\* Every step keeps SentInv.
LEMMA SentInvariant == Spec => []SentInv
<1>1. Init => SentInv
  BY DEF Init, SentInv
<1>2. TypeOK /\ FlightInv /\ RowsInv /\ SentInv /\ [Next]_vars => SentInv'
  <2> SUFFICES ASSUME TypeOK, FlightInv, RowsInv, SentInv, [Next]_vars,
                      NEW k \in Conns, flush'[k] = "sent"
               PROVE  written'[cur'[k]] > 0
    BY DEF SentInv
  <2> USE DEF SentInv
  <2>0. /\ written \in [Messages -> Nat] /\ relayed \in [Messages -> Nat]
        /\ flush \in [Conns -> Stages] /\ cur \in [Conns -> Messages \cup {NoMessage}]
        /\ outbox \subseteq Messages
    BY DEF TypeOK, Stages
  <2>1. CASE Authenticate
    BY <2>0, <2>1 DEF Authenticate
  <2>2. CASE GoesDown
    BY <2>0, <2>2 DEF GoesDown, IdleFlushes
  <2>3. CASE UNCHANGED <<crashes, outbox, attempts, history, written, sendVars, flushVars>>
    BY <2>3
  <2>4. ASSUME NEW m \in Messages, Sender(m) PROVE written'[cur'[k]] > 0
    <3>1. flush[k] = "sent" /\ cur'[k] = cur[k]
      BY <2>4, SenderOnly
    <3>2. written[cur[k]] > 0 /\ cur[k] \in Messages
      BY <2>0, <3>1 DEF RowsInv, RowsOf, Held
    <3>3. CASE Transmit(m)
      <4>1. written' = written \/ written' = [written EXCEPT ![m] = @ + 1]
        BY <2>0, <3>3, WriteCounts DEF Transmit
      <4>2. QED
        BY <2>0, <3>1, <3>2, <4>1
    <3>4. CASE ~Transmit(m)
      BY <2>4, <3>1, <3>2, <3>4
         DEF Sender, Send, TakeConn, StatusOrTimeout, ContextDone, SaveSent, SaveOutbox, SaveQueued
    <3>5. QED
      BY <3>3, <3>4
  <2>5. ASSUME NEW n \in Conns, FlushWrites(n) PROVE written'[cur'[k]] > 0
    <3>1. flush[n] = "write" /\ cur' = cur /\ cur[n] \in Messages
      BY <2>0, <2>5 DEF FlushWrites, RowsInv, RowsOf, Held
    <3>2. k = n
      BY <2>0, <2>5, <3>1 DEF FlushWrites, FlightInv
    <3>3. Written(cur[n], fgot[n], TRUE)
      BY <2>0, <2>5, <3>2 DEF FlushWrites
    <3>4. written' = [written EXCEPT ![cur[n]] = @ + 1]
      BY <2>0, <3>3, WriteCounts
    <3>5. QED
      BY <2>0, <3>1, <3>2, <3>4
  <2>6. ASSUME NEW n \in Conns,
               \/ FlushReads(n) \/ FlushDeletes(n) \/ FlushCounts(n) \/ FlushEnds(n)
               \/ \E m \in Messages : FlushDiscards(n, m) \/ FlushTakesConn(n, m)
        PROVE  written'[cur'[k]] > 0
    <3>1. flush[k] = "sent" /\ cur'[k] = cur[k] /\ written' = written
      BY <2>0, <2>6 DEF FlushReads, FlushDeletes, FlushCounts, FlushEnds, FlushDiscards,
                        FlushTakesConn
    <3>2. QED
      BY <3>1
  <2>7. QED
    BY <2>1, <2>2, <2>3, <2>4, <2>5, <2>6, RowSteps DEF Flusher
<1>3. QED
  BY <1>1, <1>2, TypeCorrect, FlightInvariant, RowsInvariant, PTL DEF Spec

Kept(m) == m \in outbox \/ written[m] > 0 \/ attempts[m] >= MaxAttempts

\* What was stored as queued or in the history is kept, written or given up.
KeptOf(m) ==
    /\ pc[m] = "record" \/ result[m] = "queued" \/ m \in history => Kept(m)
    /\ pc[m] \in {"await", "save"} => written[m] > 0

KeptInv == \A m \in Messages : KeptOf(m)

\* No flush forgets a message.
LEMMA FlusherKeeps ==
    ASSUME TypeOK, RowsInv, SentInv, NEW n \in Conns, Flusher(n), NEW m \in Messages, Kept(m)
    PROVE  Kept(m)'
<1> USE DEF Kept
<1>0. /\ written[m] \in Nat /\ written'[m] \in Nat /\ written'[m] >= written[m]
      /\ attempts[m] \in Nat /\ attempts'[m] \in Nat /\ attempts'[m] >= attempts[m]
  BY FlusherOnly DEF TypeOK
<1>1. CASE FlushDeletes(n)
  BY <1>0, <1>1 DEF FlushDeletes, SentInv
<1>2. ASSUME NEW k \in Messages, FlushDiscards(n, k) PROVE Kept(m)'
  <2>1. k \in items[n] /\ snap[n][k] >= MaxAttempts /\ snap[n][k] <= attempts[k]
    BY <1>2 DEF FlushDiscards, Oldest, RowsInv, RowsOf
  <2>2. snap[n][k] \in Nat /\ attempts[k] \in Nat
    BY DEF TypeOK
  <2>3. attempts[k] >= MaxAttempts /\ attempts' = attempts
    BY <1>2, <2>1, <2>2 DEF FlushDiscards
  <2>4. QED
    BY <1>0, <1>2, <2>3 DEF FlushDiscards
<1>3. CASE \/ FlushReads(n) \/ FlushWrites(n) \/ FlushCounts(n) \/ FlushEnds(n)
           \/ \E k \in Messages : FlushTakesConn(n, k)
  <2>1. outbox' = outbox
    BY <1>3 DEF FlushReads, FlushWrites, FlushCounts, FlushEnds, FlushTakesConn
  <2>2. QED
    BY <1>0, <2>1
<1>4. QED
  BY <1>1, <1>2, <1>3 DEF Flusher

\* Every step keeps KeptInv.
LEMMA KeptInvariant == Spec => []KeptInv
<1>1. Init => KeptInv
  BY DEF Init, KeptInv, KeptOf
<1>2. TypeOK /\ RowsInv /\ SentInv /\ KeptInv /\ [Next]_vars => KeptInv'
  <2> SUFFICES ASSUME TypeOK, RowsInv, SentInv, KeptInv, [Next]_vars, NEW k \in Messages
               PROVE  KeptOf(k)'
    BY DEF KeptInv
  <2> USE DEF KeptInv, KeptOf
  <2>0. /\ written \in [Messages -> Nat] /\ relayed \in [Messages -> Nat]
        /\ pc \in [Messages -> Points] /\ result \in [Messages -> Results]
    BY DEF TypeOK, Points, Results
  <2>1. CASE Authenticate
    BY <2>1 DEF Authenticate, Kept
  <2>2. CASE GoesDown
    BY <2>0, <2>2 DEF GoesDown, Kept
  <2>3. CASE UNCHANGED <<crashes, outbox, attempts, history, written, sendVars, flushVars>>
    BY <2>3 DEF Kept
  <2>4. ASSUME NEW n \in Conns, Flusher(n) PROVE KeptOf(k)'
    <3>1. UNCHANGED <<history, sendVars>> /\ written'[k] \in Nat /\ written'[k] >= written[k]
      BY <2>4, FlusherOnly
    <3>2. QED
      BY <2>0, <2>4, <3>1, FlusherKeeps
  <2>5. ASSUME NEW m \in Messages, Sender(m) PROVE KeptOf(k)'
    <3>1. CASE m # k
      BY <2>5, <3>1, SenderOnly DEF Kept
    <3>2. CASE Send(k)
      BY <2>0, <3>2 DEF Send, Goto, Return, Kept
    <3>3. CASE TakeConn(k)
      BY <2>0, <3>3 DEF TakeConn, Goto, Return, Kept
    <3>4. CASE Transmit(k)
      <4>1. CASE Written(k, got[k], TRUE)
        <5>1. written' = [written EXCEPT ![k] = @ + 1]
          BY <2>0, <4>1, WriteCounts
        <5>2. written'[k] > 0
          BY <2>0, <5>1
        <5>3. QED
          BY <5>2 DEF Kept
      <4>2. CASE Written(k, got[k], FALSE) /\ Return(k, "error")
        BY <2>0, <3>4, <4>2, WriteCounts DEF Transmit, Return, Kept
      <4>3. QED
        BY <3>4, <4>1, <4>2 DEF Transmit
    <3>5. CASE StatusOrTimeout(k) \/ ContextDone(k)
      BY <2>0, <3>5 DEF StatusOrTimeout, ContextDone, Goto, Return, Kept
    <3>6. CASE SaveSent(k) \/ SaveQueued(k)
      BY <2>0, <3>6 DEF SaveSent, SaveQueued, Return, Kept
    <3>7. CASE SaveOutbox(k)
      BY <2>0, <3>7 DEF SaveOutbox, Goto, Kept
    <3>8. QED
      BY <2>5, <3>1, <3>2, <3>3, <3>4, <3>5, <3>6, <3>7 DEF Sender
  <2>6. QED
    BY <2>1, <2>2, <2>3, <2>4, <2>5, RowSteps
<1>3. QED
  BY <1>1, <1>2, TypeCorrect, RowsInvariant, SentInvariant, PTL DEF Spec

\* What the sender was told is queued stays in the outbox until it is written or has
\* failed MaxAttempts times (Send's offline path, flushOutbox).
THEOREM QueuedIsKept == Spec => []QueuedIsNotForgotten
<1>1. KeptInv => QueuedIsNotForgotten
  BY DEF KeptInv, KeptOf, Kept, QueuedIsNotForgotten
<1>2. QED
  BY <1>1, KeptInvariant, PTL

\* The history has only what was written, is queued or was given up.
THEOREM HistoryIsKept == Spec => []HistoryIsOfWrittenOrQueued
<1>1. TypeOK /\ KeptInv => HistoryIsOfWrittenOrQueued
  BY DEF TypeOK, KeptInv, KeptOf, Kept, HistoryIsOfWrittenOrQueued
<1>2. QED
  BY <1>1, KeptInvariant, TypeCorrect, PTL

-----------------------------------------------------------------------------
(* The refinement of MessageQueue                                           *)

Handed == {m \in Messages : written[m] > 0}

\* Each step is one of the queue's, or leaves the queue as it is.
LEMMA QueueStep ==
    ASSUME TypeOK, RowsInv, NewInv, SentInv, [Next]_vars
    PROVE  Queue!Next \/ UNCHANGED <<outbox, Handed, attempts>>
<1> USE DEF Handed
<1>0. /\ written \in [Messages -> Nat] /\ relayed \in [Messages -> Nat]
      /\ attempts \in [Messages -> Nat] /\ outbox \subseteq Messages
  BY DEF TypeOK
<1>1. ASSUME NEW m \in Messages, outbox' = outbox, attempts' = attempts,
             \/ Written(m, got[m], TRUE) \/ Written(m, got[m], FALSE)
             \/ \E n \in Conns : Written(m, fgot[n], TRUE) \/ Written(m, fgot[n], FALSE)
      PROVE  Queue!Next \/ UNCHANGED <<outbox, Handed, attempts>>
  <2>1. written' = written \/ written' = [written EXCEPT ![m] = @ + 1]
    BY <1>0, <1>1, WriteCounts
  <2>2. Handed' = Handed \/ Handed' = Handed \cup {m}
    BY <1>0, <2>1
  <2>3. Handed' = Handed \cup {m} => Queue!HandOver(m)
    BY <1>1 DEF Queue!HandOver
  <2>4. QED
    BY <1>1, <2>2, <2>3 DEF Queue!Next
<1>2. CASE UNCHANGED <<outbox, written, attempts>>
  BY <1>2
<1>3. ASSUME NEW m \in Messages, Sender(m)
      PROVE  Queue!Next \/ UNCHANGED <<outbox, Handed, attempts>>
  <2>1. CASE Transmit(m)
    BY <1>1, <2>1 DEF Transmit
  <2>2. CASE SaveOutbox(m)
    <3>1. m \notin outbox /\ m \notin Handed /\ attempts[m] = 0
      BY <2>2 DEF SaveOutbox, NewInv, IsNew, Unsent
    <3>2. outbox' = outbox \cup {m} /\ Handed' = Handed /\ attempts' = attempts
      BY <2>2 DEF SaveOutbox
    <3>3. Queue!Accept(m)
      BY <3>1, <3>2 DEF Queue!Accept
    <3>4. QED
      BY <3>3 DEF Queue!Next
  <2>3. CASE ~Transmit(m) /\ ~SaveOutbox(m)
    BY <1>2, <1>3, <2>3
       DEF Sender, Send, TakeConn, StatusOrTimeout, ContextDone, SaveSent, SaveQueued
  <2>4. QED
    BY <2>1, <2>2, <2>3
<1>4. ASSUME NEW n \in Conns, Flusher(n)
      PROVE  Queue!Next \/ UNCHANGED <<outbox, Handed, attempts>>
  <2>1. CASE FlushWrites(n)
    <3>1. cur[n] \in Messages
      BY <1>0, <2>1 DEF FlushWrites, RowsInv, RowsOf, Held
    <3>2. QED
      BY <1>1, <2>1, <3>1 DEF FlushWrites
  <2>2. CASE FlushDeletes(n)
    <3>1. cur[n] \in outbox /\ cur[n] \in Handed
      BY <1>0, <2>2 DEF FlushDeletes, RowsInv, RowsOf, Held, SentInv
    <3>2. outbox' = outbox \ {cur[n]} /\ Handed' = Handed /\ attempts' = attempts
      BY <2>2 DEF FlushDeletes
    <3>3. Queue!TakeOut(cur[n])
      BY <3>1, <3>2 DEF Queue!TakeOut
    <3>4. QED
      BY <1>0, <3>1, <3>3 DEF Queue!Next
  <2>3. CASE FlushCounts(n)
    <3>1. cur[n] \in outbox
      BY <2>3 DEF FlushCounts, RowsInv, RowsOf, Held
    <3>2. outbox' = outbox /\ Handed' = Handed /\ attempts' = [attempts EXCEPT ![cur[n]] = @ + 1]
      BY <2>3, <3>1 DEF FlushCounts
    <3>3. Queue!Fail(cur[n])
      BY <3>1, <3>2 DEF Queue!Fail
    <3>4. QED
      BY <1>0, <3>1, <3>3 DEF Queue!Next
  <2>4. ASSUME NEW m \in Messages, FlushDiscards(n, m)
        PROVE  Queue!Next \/ UNCHANGED <<outbox, Handed, attempts>>
    <3>1. m \in outbox /\ snap[n][m] >= MaxAttempts /\ snap[n][m] <= attempts[m]
      BY <2>4 DEF FlushDiscards, Oldest, RowsInv, RowsOf
    <3>2. snap[n][m] \in Nat /\ attempts[m] \in Nat
      BY DEF TypeOK
    <3>3. attempts[m] >= MaxAttempts
      BY <3>1, <3>2
    <3>4. outbox' = outbox \ {m} /\ Handed' = Handed /\ attempts' = attempts
      BY <2>4 DEF FlushDiscards
    <3>5. Queue!TakeOut(m)
      BY <3>1, <3>3, <3>4 DEF Queue!TakeOut
    <3>6. QED
      BY <3>5 DEF Queue!Next
  <2>5. CASE FlushReads(n) \/ FlushEnds(n) \/ \E m \in Messages : FlushTakesConn(n, m)
    BY <1>2, <2>5 DEF FlushReads, FlushEnds, FlushTakesConn
  <2>6. QED
    BY <1>4, <2>1, <2>2, <2>3, <2>4, <2>5 DEF Flusher
<1>5. CASE Authenticate
  BY <1>2, <1>5 DEF Authenticate
<1>6. CASE GoesDown
  BY <1>2, <1>6 DEF GoesDown
<1>7. QED
  BY <1>2, <1>3, <1>4, <1>5, <1>6, RowSteps

\* The outbox table is the queue of MessageQueue: what Send, the flushes and crashes do
\* to it is to accept a message once, hand it over, fail, and take it out for a reason.
THEOREM OutboxIsAQueue == Spec => ImplementsQueue
<1>1. Init => Queue!Init
  BY DEF Init, Queue!Init
<1>2. TypeOK /\ RowsInv /\ NewInv /\ SentInv /\ [Next]_vars
      => [Queue!Next]_<<outbox, Handed, attempts>>
  BY QueueStep
<1>3. QED
  BY <1>1, <1>2, TypeCorrect, RowsInvariant, NewInvariant, SentInvariant, PTL
     DEF Spec, ImplementsQueue, Queue!Spec, Handed
================================================================================

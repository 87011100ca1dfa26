-------------------------- MODULE RelaySessionProofs --------------------------
(* Proofs about RelaySession, for every number of callers and names and    *)
(* every bound on the connections.                                         *)
EXTENDS RelaySession, TLAPS

USE SessionAssumption DEF Conns, Slots, loopVars, connVars, readyVars, callVars, sessionVars

\* An assignment to one entry of a table keeps the table's type.
LEMMA EntryType ==
    ASSUME NEW S, NEW T, NEW f \in [S -> T], NEW s, NEW v, s \in S => v \in T
    PROVE  [f EXCEPT ![s] = v] \in [S -> T]
OBVIOUS

\* A step of a caller changes nothing of the session but the waiters and requests.
LEMMA CallerFrame ==
    ASSUME NEW c \in Calls, Caller(c)
    PROVE  UNCHANGED sessionVars
BY Zenon DEF Caller, Begin, TakeConn, Register, SendRequest, Receive, GiveUp,
   WaitReadyChecks, WaitReadyTakesChannel, WaitReadyReturns

\* Where a step of a caller takes it.
LEMMA CallerMoves ==
    ASSUME NEW c \in Calls, Caller(c)
    PROVE  \E p \in Places : pc' = [pc EXCEPT ![c] = p]
<1> USE DEF Goto, Places
<1>1. CASE Begin(c)
  BY <1>1 DEF Begin
<1>2. CASE TakeConn(c)
  BY <1>2 DEF TakeConn
<1>3. CASE Register(c)
  BY <1>3 DEF Register
<1>4. CASE SendRequest(c)
  BY <1>4 DEF SendRequest, Return
<1>5. CASE Receive(c) \/ GiveUp(c)
  BY <1>5 DEF Receive, GiveUp, Return
<1>6. CASE WaitReadyChecks(c) \/ WaitReadyTakesChannel(c) \/ WaitReadyReturns(c)
  BY <1>6 DEF WaitReadyChecks, WaitReadyTakesChannel, WaitReadyReturns
<1>7. QED
  BY <1>1, <1>2, <1>3, <1>4, <1>5, <1>6, Zenon DEF Caller

\* What an auth_ok does to the ready channel.
LEMMA AuthOkEffect ==
    ASSUME HandleAuthOk
    PROVE  /\ phase = "read" /\ authed' /\ UNCHANGED <<dials, conn, link, readyGen, callVars, asked>>
           /\ timer' = [timer EXCEPT ![dials] = IF @ = "armed" THEN "off" ELSE @]
           /\ \/ /\ readyGen \in readyClosed /\ phase' = "panicked"
                 /\ UNCHANGED <<readyClosed, authedCh>>
              \/ /\ readyClosed' = readyClosed \cup {readyGen}
                 /\ authedCh' = "token" /\ phase' = "launch"
BY Zenon DEF HandleAuthOk

\* The flags (cancelled, authed, onReadyActive) are booleans.
LEMMA FlagsCorrect == Spec => []FlagsOK
<1>1. Init => FlagsOK
  BY Zenon DEF Init, FlagsOK
<1>2. FlagsOK /\ [Next]_vars => FlagsOK'
  <2> SUFFICES ASSUME FlagsOK, [Next]_vars PROVE FlagsOK'
    OBVIOUS
  <2> USE DEF FlagsOK
  <2>1. CASE Loop
    <3>1. CASE Dial \/ DialFails \/ ReadEnds \/ Drain
      BY <3>1, Zenon DEF Dial, DialFails, ReadEnds, Drain
    <3>2. CASE BackoffElapses \/ RunReturns \/ Join
      BY <3>2, Zenon DEF BackoffElapses, RunReturns, Join
    <3>3. CASE HandleChallenge \/ HandleAuthError
      BY <3>3, Zenon DEF HandleChallenge, HandleAuthError
    <3>4. CASE HandleAuthOk
      BY <3>4, Zenon DEF HandleAuthOk
    <3>5. CASE LaunchOnReady
      BY <3>5, Zenon DEF LaunchOnReady
    <3>6. ASSUME NEW s \in Slots, HandleResponse(s)
          PROVE  FlagsOK'
      BY <3>6, Zenon DEF HandleResponse, Learned
    <3>7. ASSUME NEW w \in Calls, ServeWaiter(w)
          PROVE  FlagsOK'
      BY <3>7, Zenon DEF ServeWaiter
    <3> HIDE DEF FlagsOK
    <3>8. QED
      BY <2>1, <3>1, <3>2, <3>3, <3>4, <3>5, <3>6, <3>7, Zenon DEF Loop
  <2>2. CASE Background
    BY <2>2, Zenon DEF Background, AuthTimerFires, AuthTimerCloses, Watchdog, DropConn, LinkLost,
       OnReadyReturns, OnReadyDone, Cancel
  <2>3. ASSUME NEW c \in Calls, Caller(c)
        PROVE  FlagsOK'
    BY <2>3, Zenon DEF Caller, Begin, TakeConn, Register, SendRequest, Receive, GiveUp,
       WaitReadyChecks, WaitReadyTakesChannel, WaitReadyReturns
  <2>4. CASE UNCHANGED vars
    BY <2>4, Zenon DEF vars
  <2>5. QED
    BY <2>1, <2>2, <2>3, <2>4 DEF Next
<1>3. QED
  BY <1>1, <1>2, PTL DEF Spec

\* Every other variable of the session and of its callers keeps its type.
LEMMA DataCorrect == Spec => []DataOK
<1>1. Init => DataOK
  BY DEF Init, DataOK, Phases, Places
<1>2. DataOK /\ [Next]_vars => DataOK'
  <2> SUFFICES ASSUME DataOK, [Next]_vars PROVE DataOK'
    OBVIOUS
  <2>1. CASE Loop
    <3>1. CASE Dial
      BY <3>1 DEF Dial, DataOK, Phases
    <3>2. CASE DialFails
      BY <3>2 DEF DialFails, DataOK, Phases
    <3>3. CASE ReadEnds
      BY <3>3 DEF ReadEnds, DataOK, Phases
    <3>4. CASE Drain
      <4>1. chan' \in [Calls -> {"empty", "result"}]
        BY <3>4 DEF Drain, DataOK
      <4>2. waits' \in [Slots -> SUBSET Calls]
        BY <3>4 DEF Drain
      <4>3. timer' \in [Conns -> {"off", "armed", "firing"}]
        <5>1. timer \in [Conns -> {"off", "armed", "firing"}]
          BY DEF DataOK
        <5>2. timer' = [timer EXCEPT ![dials] = IF @ = "armed" THEN "off" ELSE @]
          BY <3>4 DEF Drain
        <5>3. QED
          BY <5>1, <5>2, EntryType
      <4>4. phase' \in Phases
        BY <3>4 DEF Drain, Phases
      <4>5. backoff' \in 1..MaxBackoff
        BY <3>4 DEF Drain, DataOK
      <4>6. QED
        BY <3>4, <4>1, <4>2, <4>3, <4>4, <4>5 DEF Drain, DataOK
    <3>5. CASE BackoffElapses
      BY <3>5 DEF BackoffElapses, DataOK, Phases
    <3>6. CASE RunReturns
      BY <3>6 DEF RunReturns, DataOK, Phases
    <3>7. CASE Join
      BY <3>7 DEF Join, DataOK, Phases
    <3>8. CASE HandleChallenge
      BY <3>8 DEF HandleChallenge, DataOK, Phases
    <3>9. CASE HandleAuthOk
      <4>1. timer' \in [Conns -> {"off", "armed", "firing"}]
        <5>1. timer \in [Conns -> {"off", "armed", "firing"}]
          BY DEF DataOK
        <5>2. timer' = [timer EXCEPT ![dials] = IF @ = "armed" THEN "off" ELSE @]
          BY <3>9 DEF HandleAuthOk
        <5>3. QED
          BY <5>1, <5>2, EntryType
      <4>2. readyClosed' \in SUBSET Nat /\ phase' \in Phases
        BY <3>9, AuthOkEffect DEF DataOK, Phases
      <4>3. authedCh' \in {"empty", "token"}
        BY <3>9, AuthOkEffect DEF DataOK
      <4>4. QED
        BY <3>9, <4>1, <4>2, <4>3 DEF HandleAuthOk, DataOK
    <3>10. CASE LaunchOnReady
      BY <3>10 DEF LaunchOnReady, DataOK, Phases
    <3>11. CASE HandleAuthError
      BY <3>11 DEF HandleAuthError, DataOK, Phases
    <3>12. ASSUME NEW s \in Slots, HandleResponse(s)
          PROVE  DataOK'
      BY <3>12 DEF HandleResponse, Learned, DataOK, Phases
    <3>13. ASSUME NEW w \in Calls, ServeWaiter(w)
          PROVE  DataOK'
      BY <3>13 DEF ServeWaiter, DataOK, Phases
    <3>14. QED
      BY <2>1, <3>1, <3>2, <3>3, <3>4, <3>5, <3>6, <3>7, <3>8, <3>9,
         <3>10, <3>11, <3>12, <3>13, Zenon DEF Loop
  <2>2. CASE Background
    <3>1. ASSUME NEW n \in Conns, AuthTimerFires(n)
          PROVE  DataOK'
      BY <3>1 DEF AuthTimerFires, DataOK, Phases
    <3>2. ASSUME NEW n \in Conns, AuthTimerCloses(n)
          PROVE  DataOK'
      BY <3>2 DEF AuthTimerCloses, DataOK, Phases
    <3>3. CASE Watchdog
      BY <3>3 DEF Watchdog, DataOK, Phases
    <3>4. CASE DropConn
      BY <3>4 DEF DropConn, DataOK, Phases
    <3>5. CASE LinkLost
      BY <3>5 DEF LinkLost, DataOK, Phases
    <3>6. CASE OnReadyReturns
      BY <3>6 DEF OnReadyReturns, DataOK, Phases
    <3>7. CASE OnReadyDone
      BY <3>7 DEF OnReadyDone, DataOK, Phases
    <3>8. CASE Cancel
      BY <3>8 DEF Cancel, DataOK, Phases
    <3>9. QED
      BY <2>2, <3>1, <3>2, <3>3, <3>4, <3>5, <3>6, <3>7, <3>8, Zenon DEF Background
  <2>3. ASSUME NEW c \in Calls, Caller(c)
        PROVE  DataOK'
    <3>1. UNCHANGED sessionVars
      BY <2>3, CallerFrame
    <3>2. pc' \in [Calls -> Places]
      <4>1. PICK p \in Places : pc' = [pc EXCEPT ![c] = p]
        BY <2>3, CallerMoves
      <4>2. pc \in [Calls -> Places]
        BY DEF DataOK
      <4>3. QED
        BY <4>1, <4>2, EntryType
    <3>3. got' \in [Calls -> 0..MaxConns]
      <4>1. \/ got' = got \/ got' = [got EXCEPT ![c] = conn] \/ got' = [got EXCEPT ![c] = 0]
        BY <2>3, Zenon DEF Caller, Begin, TakeConn, Register, SendRequest, Receive, GiveUp, Return,
           WaitReadyChecks, WaitReadyTakesChannel, WaitReadyReturns
      <4>2. got \in [Calls -> 0..MaxConns] /\ conn \in 0..MaxConns /\ 0 \in 0..MaxConns
        BY DEF DataOK
      <4>3. QED
        BY <4>1, <4>2, EntryType
    <3>4. asked' \in [Slots -> Nat]
      <4> HIDE DEF Slots
      <4>1. asked' = asked \/ asked' = [asked EXCEPT ![slot[c]] = @ + 1]
        BY <2>3, Zenon DEF Caller, Begin, TakeConn, Register, SendRequest, Receive, GiveUp,
           WaitReadyChecks, WaitReadyTakesChannel, WaitReadyReturns
      <4>2. asked \in [Slots -> Nat] /\ slot[c] \in Slots /\ asked[slot[c]] + 1 \in Nat
        BY DEF DataOK
      <4>3. QED
        BY <4>1, <4>2, EntryType
    <3>5. waits' \in [Slots -> SUBSET Calls] /\ straddled' \in SUBSET Slots
      <4>1. CASE Register(c)
        BY <4>1 DEF Register, NoteStraddling, DataOK
      <4>2. CASE GiveUp(c)
        BY <4>2 DEF GiveUp, DataOK
      <4>3. CASE waits' = waits /\ straddled' = straddled
        BY <4>3 DEF DataOK
      <4>4. QED
        BY <2>3, <4>1, <4>2, <4>3, Zenon DEF Caller, Begin, TakeConn, SendRequest, Receive,
           WaitReadyChecks, WaitReadyTakesChannel, WaitReadyReturns
    <3>6. fan' = fan /\ chan' \in [Calls -> {"empty", "result"}] /\ gen' \in [Calls -> Nat]
      <4>1. /\ fan' = fan
            /\ chan' = chan \/ chan' = [chan EXCEPT ![c] = "empty"]
            /\ gen' = gen \/ gen' = [gen EXCEPT ![c] = readyGen] \/ gen' = [gen EXCEPT ![c] = 0]
        BY <2>3, Zenon DEF Caller, Begin, TakeConn, Register, SendRequest, Receive, GiveUp,
           WaitReadyChecks, WaitReadyTakesChannel, WaitReadyReturns
      <4>2. QED
        BY <4>1 DEF DataOK
    <3>7. QED
      BY <3>1, <3>2, <3>3, <3>4, <3>5, <3>6 DEF DataOK
  <2>4. CASE UNCHANGED vars
    BY <2>4 DEF vars, DataOK
  <2>5. QED
    BY <2>1, <2>2, <2>3, <2>4, Zenon DEF Next
<1>3. QED
  BY <1>1, <1>2, PTL DEF Spec

\* Every variable of the session and of its callers keeps its type.
THEOREM TypeCorrect == Spec => []TypeOK
BY FlagsCorrect, DataCorrect, PTL DEF TypeOK

\* Every call that has registered and not returned is in the map, in the fan-out
\* in progress, or has its result; no channel is in two of these places.
LEMMA WaiterInvariant == Spec => []WaiterInv
<1>1. Init => WaiterInv
  BY DEF Init, WaiterInv
<1>2. DataOK /\ WaiterInv /\ [Next]_vars => WaiterInv'
  <2> SUFFICES ASSUME DataOK, WaiterInv, [Next]_vars PROVE WaiterInv'
    OBVIOUS
  <2>1. CASE Loop
    <3>1. CASE Dial
      BY <3>1 DEF Dial, DataOK, WaiterInv
    <3>2. CASE DialFails
      BY <3>2 DEF DialFails, DataOK, WaiterInv
    <3>3. CASE ReadEnds
      BY <3>3 DEF ReadEnds, DataOK, WaiterInv
    <3>4. CASE Drain
      <4>1. fan' = {} /\ phase' # "fanout" /\ UNCHANGED <<pc, slot>>
        BY <3>4 DEF Drain, WaiterInv
      <4>2. \A c \in Calls, s \in Slots : c \notin waits'[s]
        BY <3>4 DEF Drain
      <4>3. ASSUME NEW c \in Calls, pc[c] \in {"send", "wait"}
            PROVE  chan'[c] # "empty"
        <5>1. CASE chan[c] # "empty"
          BY <3>4, <5>1 DEF Drain, DataOK
        <5>2. CASE chan[c] = "empty"
          <6>1. slot[c] \in Slots /\ c \in waits[slot[c]]
            BY <3>4, <4>3, <5>2 DEF Drain, DataOK, WaiterInv
          <6>2. c \in AllWaiters
            BY <6>1 DEF AllWaiters
          <6>3. QED
            BY <3>4, <5>2, <6>2 DEF Drain
        <5>3. QED
          BY <5>1, <5>2
      <4>4. ASSUME NEW c \in Calls,
                   pc[c] \in {"idle", "checked", "sleeping", "conn", "register"}
            PROVE  chan'[c] = "empty"
        <5>1. c \notin AllWaiters
          BY <4>4 DEF AllWaiters, WaiterInv, DataOK
        <5>2. QED
          BY <3>4, <4>4, <5>1 DEF Drain, WaiterInv, DataOK
      <4>5. QED
        BY <4>1, <4>2, <4>3, <4>4 DEF WaiterInv, DataOK
    <3>5. CASE BackoffElapses
      BY <3>5 DEF BackoffElapses, DataOK, WaiterInv
    <3>6. CASE RunReturns
      BY <3>6 DEF RunReturns, DataOK, WaiterInv
    <3>7. CASE Join
      BY <3>7 DEF Join, DataOK, WaiterInv
    <3>8. CASE HandleChallenge
      BY <3>8 DEF HandleChallenge, DataOK, WaiterInv
    <3>9. CASE HandleAuthOk
      BY <3>9 DEF HandleAuthOk, DataOK, WaiterInv
    <3>10. CASE LaunchOnReady
      BY <3>10 DEF LaunchOnReady, DataOK, WaiterInv
    <3>11. CASE HandleAuthError
      BY <3>11 DEF HandleAuthError, DataOK, WaiterInv
    <3>12. ASSUME NEW s \in Slots, HandleResponse(s)
          PROVE  WaiterInv'
      BY <3>12 DEF HandleResponse, Learned, DataOK, WaiterInv
    <3>13. ASSUME NEW w \in Calls, ServeWaiter(w)
          PROVE  WaiterInv'
      <4>1. w \in fan /\ chan[w] = "empty" /\ fan' = fan \ {w} /\ UNCHANGED <<waits, pc, slot>>
        BY <3>13 DEF ServeWaiter
      <4>2. chan' = [chan EXCEPT ![w] = "result"] /\ chan'[w] # "empty"
        BY <3>13 DEF ServeWaiter, DataOK
      <4>3. phase' = "fanout" <=> fan' # {}
        BY <3>13 DEF ServeWaiter
      <4>4. \A s \in Slots : w \notin waits[s]
        BY <4>1 DEF WaiterInv
      <4>5. QED
        BY <4>1, <4>2, <4>3, <4>4 DEF WaiterInv, DataOK
    <3>14. QED
      BY <2>1, <3>1, <3>2, <3>3, <3>4, <3>5, <3>6, <3>7, <3>8, <3>9,
         <3>10, <3>11, <3>12, <3>13, Zenon DEF Loop
  <2>2. CASE Background
    <3>1. ASSUME NEW n \in Conns, AuthTimerFires(n)
          PROVE  WaiterInv'
      BY <3>1 DEF AuthTimerFires, DataOK, WaiterInv
    <3>2. ASSUME NEW n \in Conns, AuthTimerCloses(n)
          PROVE  WaiterInv'
      BY <3>2 DEF AuthTimerCloses, DataOK, WaiterInv
    <3>3. CASE Watchdog
      BY <3>3 DEF Watchdog, DataOK, WaiterInv
    <3>4. CASE DropConn
      BY <3>4 DEF DropConn, DataOK, WaiterInv
    <3>5. CASE LinkLost
      BY <3>5 DEF LinkLost, DataOK, WaiterInv
    <3>6. CASE OnReadyReturns
      BY <3>6 DEF OnReadyReturns, DataOK, WaiterInv
    <3>7. CASE OnReadyDone
      BY <3>7 DEF OnReadyDone, DataOK, WaiterInv
    <3>8. CASE Cancel
      BY <3>8 DEF Cancel, DataOK, WaiterInv
    <3>9. QED
      BY <2>2, <3>1, <3>2, <3>3, <3>4, <3>5, <3>6, <3>7, <3>8, Zenon DEF Background
  <2>3. ASSUME NEW c \in Calls, Caller(c)
        PROVE  WaiterInv'
    <3>1. CASE Begin(c)
      BY <3>1 DEF Begin, DataOK, WaiterInv, Goto
    <3>2. CASE TakeConn(c)
      BY <3>2 DEF TakeConn, DataOK, WaiterInv, Goto, Return
    <3>3. CASE Register(c)
      BY <3>3 DEF Register, Goto, NoteStraddling, DataOK, WaiterInv
    <3>4. CASE SendRequest(c)
      BY <3>4 DEF SendRequest, DataOK, WaiterInv, Goto, Return
    <3>5. CASE Receive(c)
      BY <3>5 DEF Receive, DataOK, WaiterInv, Goto, Return
    <3>6. CASE GiveUp(c)
      BY <3>6 DEF GiveUp, DataOK, WaiterInv, Goto, Return
    <3>7. CASE WaitReadyChecks(c)
      BY <3>7 DEF WaitReadyChecks, Goto, DataOK, WaiterInv
    <3>8. CASE WaitReadyTakesChannel(c)
      BY <3>8 DEF WaitReadyTakesChannel, Goto, DataOK, WaiterInv
    <3>9. CASE WaitReadyReturns(c)
      BY <3>9 DEF WaitReadyReturns, Goto, DataOK, WaiterInv
    <3>10. QED
      BY <2>3, <3>1, <3>2, <3>3, <3>4, <3>5, <3>6, <3>7, <3>8, <3>9, Zenon DEF Caller
  <2>4. CASE UNCHANGED vars
    BY <2>4 DEF vars, WaiterInv
  <2>5. QED
    BY <2>1, <2>2, <2>3, <2>4, Zenon DEF Next
<1>3. QED
  BY <1>1, <1>2, DataCorrect, PTL DEF Spec

\* The current ready channel is closed only while its connection is authenticated.
LEMMA ReadyInvariant == Spec => []ReadyInv
<1>1. Init => ReadyInv
  BY DEF Init, ReadyInv, ReadyChannelMirrorsAuth
<1>2. DataOK /\ ReadyInv /\ [Next]_vars => ReadyInv'
  <2> SUFFICES ASSUME DataOK, ReadyInv, [Next]_vars PROVE ReadyInv'
    OBVIOUS
  <2>1. CASE Loop
    <3>1. CASE Dial
      BY <3>1 DEF Dial, DataOK, ReadyInv, ReadyChannelMirrorsAuth
    <3>2. CASE DialFails
      BY <3>2 DEF DialFails, DataOK, ReadyInv, ReadyChannelMirrorsAuth
    <3>3. CASE ReadEnds
      BY <3>3 DEF ReadEnds, DataOK, ReadyInv, ReadyChannelMirrorsAuth
    <3>4. CASE Drain
      BY <3>4 DEF Drain, DataOK, ReadyInv, ReadyChannelMirrorsAuth
    <3>5. CASE BackoffElapses
      BY <3>5 DEF BackoffElapses, DataOK, ReadyInv, ReadyChannelMirrorsAuth
    <3>6. CASE RunReturns
      BY <3>6 DEF RunReturns, DataOK, ReadyInv, ReadyChannelMirrorsAuth
    <3>7. CASE Join
      BY <3>7 DEF Join, DataOK, ReadyInv, ReadyChannelMirrorsAuth
    <3>8. CASE HandleChallenge
      BY <3>8 DEF HandleChallenge, DataOK, ReadyInv, ReadyChannelMirrorsAuth
    <3>9. CASE HandleAuthOk
      <4>1. readyGen \in Nat \ {0} /\ readyClosed \subseteq 1..readyGen
        BY DEF DataOK, ReadyInv
      <4>2. readyGen' = readyGen /\ authed' /\ phase' \in {"launch", "panicked"}
        BY <3>9, AuthOkEffect, Zenon
      <4>3. readyGen \in readyClosed' /\ readyClosed' \subseteq 1..readyGen
        <5>1. readyGen \in readyClosed' /\ readyClosed' \subseteq readyClosed \cup {readyGen}
          BY <3>9, AuthOkEffect, Zenon
        <5>2. QED
          BY <4>1, <5>1
      <4>4. authedCh' = "token"
        BY <3>9, AuthOkEffect, Zenon DEF ReadyInv, ReadyChannelMirrorsAuth
      <4>5. QED
        BY <4>2, <4>3, <4>4 DEF ReadyInv, ReadyChannelMirrorsAuth
    <3>10. CASE LaunchOnReady
      BY <3>10 DEF LaunchOnReady, DataOK, ReadyInv, ReadyChannelMirrorsAuth
    <3>11. CASE HandleAuthError
      BY <3>11 DEF HandleAuthError, DataOK, ReadyInv, ReadyChannelMirrorsAuth
    <3>12. ASSUME NEW s \in Slots, HandleResponse(s)
          PROVE  ReadyInv'
      BY <3>12 DEF HandleResponse, Learned, DataOK, ReadyInv, ReadyChannelMirrorsAuth
    <3>13. ASSUME NEW w \in Calls, ServeWaiter(w)
          PROVE  ReadyInv'
      BY <3>13 DEF ServeWaiter, DataOK, ReadyInv, ReadyChannelMirrorsAuth
    <3>14. QED
      BY <2>1, <3>1, <3>2, <3>3, <3>4, <3>5, <3>6, <3>7, <3>8, <3>9,
         <3>10, <3>11, <3>12, <3>13, Zenon DEF Loop
  <2>2. CASE Background
    <3>1. ASSUME NEW n \in Conns, AuthTimerFires(n)
          PROVE  ReadyInv'
      BY <3>1 DEF AuthTimerFires, DataOK, ReadyInv, ReadyChannelMirrorsAuth
    <3>2. ASSUME NEW n \in Conns, AuthTimerCloses(n)
          PROVE  ReadyInv'
      BY <3>2 DEF AuthTimerCloses, DataOK, ReadyInv, ReadyChannelMirrorsAuth
    <3>3. CASE Watchdog
      BY <3>3 DEF Watchdog, DataOK, ReadyInv, ReadyChannelMirrorsAuth
    <3>4. CASE DropConn
      BY <3>4 DEF DropConn, DataOK, ReadyInv, ReadyChannelMirrorsAuth
    <3>5. CASE LinkLost
      BY <3>5 DEF LinkLost, DataOK, ReadyInv, ReadyChannelMirrorsAuth
    <3>6. CASE OnReadyReturns
      BY <3>6 DEF OnReadyReturns, DataOK, ReadyInv, ReadyChannelMirrorsAuth
    <3>7. CASE OnReadyDone
      BY <3>7 DEF OnReadyDone, DataOK, ReadyInv, ReadyChannelMirrorsAuth
    <3>8. CASE Cancel
      BY <3>8 DEF Cancel, DataOK, ReadyInv, ReadyChannelMirrorsAuth
    <3>9. QED
      BY <2>2, <3>1, <3>2, <3>3, <3>4, <3>5, <3>6, <3>7, <3>8, Zenon DEF Background
  <2>3. ASSUME NEW c \in Calls, Caller(c)
        PROVE  ReadyInv'
    <3>1. UNCHANGED sessionVars
      BY <2>3, CallerFrame
    <3>2. QED
      BY <3>1 DEF ReadyInv, ReadyChannelMirrorsAuth
  <2>4. CASE UNCHANGED vars
    BY <2>4 DEF vars, ReadyInv, ReadyChannelMirrorsAuth
  <2>5. QED
    BY <2>1, <2>2, <2>3, <2>4, Zenon DEF Next
<1>3. QED
  BY <1>1, <1>2, DataCorrect, PTL DEF Spec

\* Only the newest connection can be authenticated or carry frames, and requests
\* exist only on an authenticated one.
LEMMA AuthInvariant == Spec => []AuthInv
<1>1. Init => AuthInv
  BY DEF Init, AuthInv
<1>2. DataOK /\ ReadyInv /\ AuthInv /\ [Next]_vars => AuthInv'
  <2> SUFFICES ASSUME DataOK, ReadyInv, AuthInv, [Next]_vars PROVE AuthInv'
    OBVIOUS
  <2>1. CASE Loop
    <3>1. CASE Dial
      BY <3>1 DEF Dial, DataOK, AuthInv
    <3>2. CASE DialFails
      BY <3>2 DEF DialFails, DataOK, AuthInv
    <3>3. CASE ReadEnds
      BY <3>3 DEF ReadEnds, DataOK, AuthInv
    <3>4. CASE Drain
      BY <3>4 DEF Drain, DataOK, AuthInv
    <3>5. CASE BackoffElapses
      BY <3>5 DEF BackoffElapses, DataOK, AuthInv
    <3>6. CASE RunReturns
      BY <3>6 DEF RunReturns, DataOK, AuthInv
    <3>7. CASE Join
      BY <3>7 DEF Join, DataOK, AuthInv
    <3>8. CASE HandleChallenge
      BY <3>8 DEF HandleChallenge, DataOK, AuthInv
    <3>9. CASE HandleAuthOk
      <4>1. authed' => authedCh' = "token" /\ conn' = dials'
        BY <3>9, AuthOkEffect DEF AuthInv, ReadyInv, ReadyChannelMirrorsAuth
      <4>2. QED
        BY <3>9, AuthOkEffect, <4>1 DEF DataOK, AuthInv
    <3>10. CASE LaunchOnReady
      BY <3>10 DEF LaunchOnReady, DataOK, AuthInv
    <3>11. CASE HandleAuthError
      BY <3>11 DEF HandleAuthError, DataOK, AuthInv
    <3>12. ASSUME NEW s \in Slots, HandleResponse(s)
          PROVE  AuthInv'
      BY <3>12 DEF HandleResponse, Learned, DataOK, AuthInv
    <3>13. ASSUME NEW w \in Calls, ServeWaiter(w)
          PROVE  AuthInv'
      BY <3>13 DEF ServeWaiter, DataOK, AuthInv
    <3>14. QED
      BY <2>1, <3>1, <3>2, <3>3, <3>4, <3>5, <3>6, <3>7, <3>8, <3>9,
         <3>10, <3>11, <3>12, <3>13, Zenon DEF Loop
  <2>2. CASE Background
    <3>1. ASSUME NEW n \in Conns, AuthTimerFires(n)
          PROVE  AuthInv'
      BY <3>1 DEF AuthTimerFires, DataOK, AuthInv
    <3>2. ASSUME NEW n \in Conns, AuthTimerCloses(n)
          PROVE  AuthInv'
      BY <3>2 DEF AuthTimerCloses, DataOK, AuthInv
    <3>3. CASE Watchdog
      BY <3>3 DEF Watchdog, DataOK, AuthInv
    <3>4. CASE DropConn
      BY <3>4 DEF DropConn, DataOK, AuthInv
    <3>5. CASE LinkLost
      BY <3>5 DEF LinkLost, DataOK, AuthInv
    <3>6. CASE OnReadyReturns
      BY <3>6 DEF OnReadyReturns, DataOK, AuthInv
    <3>7. CASE OnReadyDone
      BY <3>7 DEF OnReadyDone, DataOK, AuthInv
    <3>8. CASE Cancel
      BY <3>8 DEF Cancel, DataOK, AuthInv
    <3>9. QED
      BY <2>2, <3>1, <3>2, <3>3, <3>4, <3>5, <3>6, <3>7, <3>8, Zenon DEF Background
  <2>3. ASSUME NEW c \in Calls, Caller(c)
        PROVE  AuthInv'
    <3>1. CASE Begin(c)
      BY <3>1 DEF Begin, DataOK, AuthInv, Goto
    <3>2. CASE TakeConn(c)
      <4>1. /\ UNCHANGED <<phase, authed, authedCh, conn, dials, link, timer, asked>>
            /\ \/ /\ pc' = [pc EXCEPT ![c] = "register"]
                  /\ authed /\ conn # 0 /\ got' = [got EXCEPT ![c] = conn]
               \/ pc' = [pc EXCEPT ![c] = "done"] /\ got' = got
        BY <3>2, Zenon DEF TakeConn, Ready, Goto, Return
      <4>2. CASE authed /\ conn # 0 /\ got' = [got EXCEPT ![c] = conn]
                 /\ pc' = [pc EXCEPT ![c] = "register"]
        BY <4>1, <4>2 DEF DataOK, AuthInv
      <4>3. CASE pc' = [pc EXCEPT ![c] = "done"] /\ got' = got
        BY <4>1, <4>3 DEF DataOK, AuthInv
      <4>4. QED
        BY <4>1, <4>2, <4>3
    <3>3. CASE Register(c)
      <4>1. /\ UNCHANGED <<phase, authed, authedCh, conn, dials, link, timer, asked, got>>
            /\ pc[c] = "register" /\ pc' \in [Calls -> Places]
            /\ \A d \in Calls \ {c} : pc'[d] = pc[d]
        BY <3>3 DEF Register, Goto, DataOK, Places
      <4>2. QED
        BY <4>1 DEF DataOK, AuthInv
    <3>4. CASE SendRequest(c)
      BY <3>4 DEF SendRequest, DataOK, AuthInv, Goto, Return
    <3>5. CASE Receive(c)
      BY <3>5 DEF Receive, DataOK, AuthInv, Goto, Return
    <3>6. CASE GiveUp(c)
      BY <3>6 DEF GiveUp, DataOK, AuthInv, Goto, Return
    <3>7. CASE WaitReadyChecks(c)
      BY <3>7 DEF WaitReadyChecks, Goto, DataOK, AuthInv
    <3>8. CASE WaitReadyTakesChannel(c)
      BY <3>8 DEF WaitReadyTakesChannel, Goto, DataOK, AuthInv
    <3>9. CASE WaitReadyReturns(c)
      BY <3>9 DEF WaitReadyReturns, Goto, DataOK, AuthInv
    <3>10. QED
      BY <2>3, <3>1, <3>2, <3>3, <3>4, <3>5, <3>6, <3>7, <3>8, <3>9, Zenon DEF Caller
  <2>4. CASE UNCHANGED vars
    BY <2>4 DEF vars, AuthInv
  <2>5. QED
    BY <2>1, <2>2, <2>3, <2>4, Zenon DEF Next
<1>3. QED
  BY <1>1, <1>2, DataCorrect, ReadyInvariant, PTL DEF Spec

\* The single-flight flag, the callbacks that run and the wait group agree.
LEMMA OnReadyInvariant == Spec => []OnReadyInv
<1>1. Init => OnReadyInv
  BY DEF Init, OnReadyInv
<1>2. DataOK /\ OnReadyInv /\ [Next]_vars => OnReadyInv'
  <2> SUFFICES ASSUME DataOK, OnReadyInv, [Next]_vars PROVE OnReadyInv'
    OBVIOUS
  <2>1. CASE Loop
    <3>1. CASE Dial
      BY <3>1 DEF Dial, DataOK, OnReadyInv
    <3>2. CASE DialFails
      BY <3>2 DEF DialFails, DataOK, OnReadyInv
    <3>3. CASE ReadEnds
      BY <3>3 DEF ReadEnds, DataOK, OnReadyInv
    <3>4. CASE Drain
      BY <3>4 DEF Drain, DataOK, OnReadyInv
    <3>5. CASE BackoffElapses
      BY <3>5 DEF BackoffElapses, DataOK, OnReadyInv
    <3>6. CASE RunReturns
      BY <3>6 DEF RunReturns, DataOK, OnReadyInv
    <3>7. CASE Join
      BY <3>7 DEF Join, DataOK, OnReadyInv
    <3>8. CASE HandleChallenge
      BY <3>8 DEF HandleChallenge, DataOK, OnReadyInv
    <3>9. CASE HandleAuthOk
      BY <3>9 DEF HandleAuthOk, DataOK, OnReadyInv
    <3>10. CASE LaunchOnReady
      BY <3>10 DEF LaunchOnReady, DataOK, OnReadyInv
    <3>11. CASE HandleAuthError
      BY <3>11 DEF HandleAuthError, DataOK, OnReadyInv
    <3>12. ASSUME NEW s \in Slots, HandleResponse(s)
          PROVE  OnReadyInv'
      BY <3>12 DEF HandleResponse, Learned, DataOK, OnReadyInv
    <3>13. ASSUME NEW w \in Calls, ServeWaiter(w)
          PROVE  OnReadyInv'
      BY <3>13 DEF ServeWaiter, DataOK, OnReadyInv
    <3>14. QED
      BY <2>1, <3>1, <3>2, <3>3, <3>4, <3>5, <3>6, <3>7, <3>8, <3>9,
         <3>10, <3>11, <3>12, <3>13, Zenon DEF Loop
  <2>2. CASE Background
    <3>1. ASSUME NEW n \in Conns, AuthTimerFires(n)
          PROVE  OnReadyInv'
      BY <3>1 DEF AuthTimerFires, DataOK, OnReadyInv
    <3>2. ASSUME NEW n \in Conns, AuthTimerCloses(n)
          PROVE  OnReadyInv'
      BY <3>2 DEF AuthTimerCloses, DataOK, OnReadyInv
    <3>3. CASE Watchdog
      BY <3>3 DEF Watchdog, DataOK, OnReadyInv
    <3>4. CASE DropConn
      BY <3>4 DEF DropConn, DataOK, OnReadyInv
    <3>5. CASE LinkLost
      BY <3>5 DEF LinkLost, DataOK, OnReadyInv
    <3>6. CASE OnReadyReturns
      BY <3>6 DEF OnReadyReturns, DataOK, OnReadyInv
    <3>7. CASE OnReadyDone
      BY <3>7 DEF OnReadyDone, DataOK, OnReadyInv
    <3>8. CASE Cancel
      BY <3>8 DEF Cancel, DataOK, OnReadyInv
    <3>9. QED
      BY <2>2, <3>1, <3>2, <3>3, <3>4, <3>5, <3>6, <3>7, <3>8, Zenon DEF Background
  <2>3. ASSUME NEW c \in Calls, Caller(c)
        PROVE  OnReadyInv'
    <3>1. UNCHANGED sessionVars
      BY <2>3, CallerFrame
    <3>2. QED
      BY <3>1 DEF OnReadyInv
  <2>4. CASE UNCHANGED vars
    BY <2>4 DEF vars, OnReadyInv
  <2>5. QED
    BY <2>1, <2>2, <2>3, <2>4, Zenon DEF Next
<1>3. QED
  BY <1>1, <1>2, DataCorrect, PTL DEF Spec

\* The end theorems: each safety property follows from one invariant.

\* The read loop never blocks while it hands a response to its waiters.
THEOREM ReadLoopNeverBlocks == Spec => []FanOutNeverBlocks
<1>1. DataOK /\ WaiterInv => FanOutNeverBlocks
  BY DEF DataOK, WaiterInv, FanOutNeverBlocks
<1>2. QED
  BY <1>1, DataCorrect, WaiterInvariant, PTL

\* A blocked call can always still be woken by a response or a disconnect.
THEOREM NoLostWakeup == Spec => []BlockedCallIsReachable
<1>1. WaiterInv => BlockedCallIsReachable
  BY DEF WaiterInv, BlockedCallIsReachable
<1>2. QED
  BY <1>1, WaiterInvariant, PTL

\* No request reaches the relay on a connection before its auth_ok.
THEOREM AuthBeforeRequests == Spec => []RequestsOnlyAfterAuth
<1>1. AuthInv => RequestsOnlyAfterAuth
  BY DEF AuthInv, RequestsOnlyAfterAuth
<1>2. QED
  BY <1>1, AuthInvariant, PTL

\* Only a second auth_ok on one connection makes close(s.readyCh) panic.
THEOREM OnlyASecondAuthOkPanics == Spec => []OnlyRepeatedAuthOkPanics
<1>1. ReadyInv => OnlyRepeatedAuthOkPanics
  BY DEF ReadyInv, OnlyRepeatedAuthOkPanics
<1>2. QED
  BY <1>1, ReadyInvariant, PTL

\* The channel that WaitReady takes is closed exactly if the session is ready then.
THEOREM ReadyChannelIsTheReadyState == Spec => []ReadyChannelMirrorsAuth
<1>1. ReadyInv => ReadyChannelMirrorsAuth
  BY DEF ReadyInv
<1>2. QED
  BY <1>1, ReadyInvariant, PTL

\* OnReady is single-flighted, and Run returns only after the last one has ended.
THEOREM OnReadySingleFlight == Spec => [](SingleFlight /\ RunJoinsOnReady)
<1>1. DataOK /\ OnReadyInv => SingleFlight /\ RunJoinsOnReady
  BY DEF DataOK, OnReadyInv, SingleFlight, RunJoinsOnReady
<1>2. QED
  BY <1>1, DataCorrect, OnReadyInvariant, PTL

\* A step that touches neither the waiters nor the requests, revives no link, keeps
\* the calls at "send" there with their connection and leaves a connection that is
\* served served cannot break the coalescing invariant.
LEMMA CoalesceFrame ==
  ASSUME DataOK, CoalesceInv, UNCHANGED <<dials, waits, asked, straddled>>,
         dials > 0 /\ link'[dials] = "up" => link[dials] = "up",
         Serving \/ ~Alive => Serving' \/ ~Alive',
         \A c \in Calls : pc[c] = "send" => pc'[c] = "send",
         \A c \in Calls : pc'[c] = "send" => pc[c] = "send" /\ got'[c] = got[c]
  PROVE  CoalesceInv'
<1>1. ASSUME NEW s \in Slots \ straddled, dials > 0, link[dials] = "up", waits[s] # {},
             \A c \in waits[s] : pc'[c] # "send"
      PROVE  asked[s] > 0
  <2>1. waits[s] \subseteq Calls
    BY DEF DataOK
  <2>2. \A c \in waits[s] : pc[c] # "send"
    BY <1>1, <2>1
  <2>3. QED
    BY <1>1, <2>2 DEF CoalesceInv, LiveWaitersHaveRequest
<1>2. LiveWaitersHaveRequest'
  BY <1>1 DEF LiveWaitersHaveRequest
<1>3. ASSUME NEW s \in Slots \ straddled, NEW c \in waits[s], pc'[c] = "send"
      PROVE  got'[c] = dials
  <2>1. c \in Calls
    BY DEF DataOK
  <2>2. QED
    BY <1>3, <2>1 DEF CoalesceInv
<1>4. ASSUME NEW s \in Slots \ straddled, waits[s] # {}
      PROVE  Serving' \/ ~Alive'
  BY <1>4 DEF CoalesceInv
<1>5. QED
  BY <1>2, <1>3, <1>4 DEF CoalesceInv

\* Whoever waits on a slot that no straddling call opened has a request on the
\* newest connection, or a sender that will write it there.
LEMMA CoalesceInvariant == Spec => []CoalesceInv
<1> USE DEF Serving, Alive
<1>1. Init => CoalesceInv
  BY DEF Init, CoalesceInv, LiveWaitersHaveRequest
<1>2. DataOK /\ WaiterInv /\ AuthInv /\ CoalesceInv /\ [Next]_vars => CoalesceInv'
  <2> SUFFICES ASSUME DataOK, WaiterInv, AuthInv, CoalesceInv, [Next]_vars
               PROVE  CoalesceInv'
    OBVIOUS
  <2>1. CASE Loop
    <3>1. CASE Dial
      BY <3>1 DEF Dial, CoalesceInv, LiveWaitersHaveRequest
    <3>2. CASE DialFails
      BY <3>2, CoalesceFrame DEF DialFails
    <3>3. CASE ReadEnds
      BY <3>3, CoalesceFrame DEF ReadEnds
    <3>4. CASE Drain
      BY <3>4 DEF Drain, CoalesceInv, LiveWaitersHaveRequest
    <3>5. CASE BackoffElapses
      BY <3>5, CoalesceFrame DEF BackoffElapses
    <3>6. CASE RunReturns
      BY <3>6, CoalesceFrame DEF RunReturns
    <3>7. CASE Join
      BY <3>7, CoalesceFrame DEF Join
    <3>8. CASE HandleChallenge
      BY <3>8, CoalesceFrame DEF HandleChallenge, DataOK, AuthInv
    <3>9. CASE HandleAuthOk
      BY <3>9, CoalesceFrame DEF HandleAuthOk
    <3>10. CASE LaunchOnReady
      BY <3>10, CoalesceFrame DEF LaunchOnReady
    <3>11. CASE HandleAuthError
      BY <3>11, CoalesceFrame DEF HandleAuthError, DataOK, AuthInv
    <3>12. ASSUME NEW s \in Slots, HandleResponse(s)
          PROVE  CoalesceInv'
      <4>1. /\ UNCHANGED <<dials, link, got, pc>> /\ waits' = [waits EXCEPT ![s] = {}]
            /\ straddled' = straddled \ {s} /\ Serving'
        BY <3>12 DEF HandleResponse, Learned
      <4>2. \A t \in Slots \ {s} : asked'[t] = asked[t] /\ waits'[t] = waits[t]
        BY <3>12 DEF HandleResponse, Learned, DataOK
      <4>3. waits'[s] = {}
        BY <4>1 DEF DataOK
      <4>4. LiveWaitersHaveRequest'
        BY <4>1, <4>2, <4>3 DEF CoalesceInv, LiveWaitersHaveRequest, DataOK
      <4>5. QED
        BY <4>1, <4>2, <4>3, <4>4 DEF CoalesceInv, DataOK
    <3>13. ASSUME NEW w \in Calls, ServeWaiter(w)
          PROVE  CoalesceInv'
      BY <3>13, CoalesceFrame DEF ServeWaiter
    <3>14. QED
      BY <2>1, <3>1, <3>2, <3>3, <3>4, <3>5, <3>6, <3>7, <3>8, <3>9,
         <3>10, <3>11, <3>12, <3>13, Zenon DEF Loop
  <2>2. CASE Background
    <3>1. ASSUME NEW n \in Conns, AuthTimerFires(n)
          PROVE  CoalesceInv'
      BY <3>1, CoalesceFrame DEF AuthTimerFires
    <3>2. ASSUME NEW n \in Conns, AuthTimerCloses(n)
          PROVE  CoalesceInv'
      BY <3>2, CoalesceFrame DEF AuthTimerCloses, DataOK
    <3>3. CASE Watchdog
      BY <3>3, CoalesceFrame DEF Watchdog, DataOK
    <3>4. CASE DropConn
      BY <3>4, CoalesceFrame DEF DropConn, DataOK
    <3>5. CASE LinkLost
      BY <3>5, CoalesceFrame DEF LinkLost, DataOK
    <3>6. CASE OnReadyReturns
      BY <3>6, CoalesceFrame DEF OnReadyReturns
    <3>7. CASE OnReadyDone
      BY <3>7, CoalesceFrame DEF OnReadyDone
    <3>8. CASE Cancel
      BY <3>8, CoalesceFrame DEF Cancel
    <3>9. QED
      BY <2>2, <3>1, <3>2, <3>3, <3>4, <3>5, <3>6, <3>7, <3>8, Zenon DEF Background
  <2>3. ASSUME NEW c \in Calls, Caller(c)
        PROVE  CoalesceInv'
    <3> DEFINE t == slot[c]
    <3>0. UNCHANGED <<phase, dials, link, slot>> /\ t \in Slots
      BY <2>3, CallerFrame DEF DataOK
    <3>1. CASE Begin(c) \/ TakeConn(c) \/ Receive(c)
      <4>1. /\ UNCHANGED <<waits, asked, straddled>> /\ pc[c] # "send"
            /\ \E p \in Places \ {"send"} : pc' = [pc EXCEPT ![c] = p]
            /\ got' = got \/ got' = [got EXCEPT ![c] = conn] \/ got' = [got EXCEPT ![c] = 0]
        BY <3>1 DEF Begin, TakeConn, Receive, Return, Goto, Places
      <4>2. QED
        BY <3>0, <4>1, CoalesceFrame DEF DataOK
    <3>2. CASE WaitReadyChecks(c) \/ WaitReadyTakesChannel(c) \/ WaitReadyReturns(c)
      <4>1. /\ UNCHANGED <<waits, asked, straddled, got>> /\ pc[c] # "send"
            /\ \E p \in Places \ {"send"} : pc' = [pc EXCEPT ![c] = p]
        BY <3>2 DEF WaitReadyChecks, WaitReadyTakesChannel, WaitReadyReturns, Goto, Places
      <4>2. QED
        BY <3>0, <4>1, CoalesceFrame DEF DataOK
    <3>3. CASE Register(c)
      <4>1. UNCHANGED <<got, asked>> /\ pc[c] = "register" /\ Alive
        BY <3>3 DEF Register, Goto
      <4>2. waits' = [waits EXCEPT ![t] = @ \cup {c}]
        BY <3>3 DEF Register
      <4>3. pc' = [pc EXCEPT ![c] = IF waits[t] = {} THEN "send" ELSE "wait"]
        BY <3>3 DEF Register, Goto
      <4>4. straddled' = IF waits[t] = {} /\ ~(got[c] = dials /\ Serving)
                         THEN straddled \cup {t} ELSE straddled
        BY <3>3 DEF Register, NoteStraddling
      <4>5. \A s \in Slots : c \notin waits[s]
        BY <4>1 DEF WaiterInv, DataOK
      <4>6. \A s \in Slots : \A d \in waits[s] : pc'[d] = pc[d] /\ d \in Calls
        BY <4>3, <4>5 DEF DataOK
      <4>7. \A s \in Slots \ {t} : waits'[s] = waits[s] /\ (s \in straddled' <=> s \in straddled)
        BY <3>0, <4>2, <4>4 DEF DataOK
      <4>8. waits'[t] = waits[t] \cup {c}
        BY <3>0, <4>2 DEF DataOK
      <4>9. ASSUME NEW s \in Slots \ straddled', dials > 0, link[dials] = "up",
                   \A d \in waits'[s] : pc'[d] # "send", waits'[s] # {}
            PROVE  asked[s] > 0
        <5>1. waits[s] # {} /\ waits[s] \subseteq waits'[s]
          <6>1. CASE s # t
            BY <4>7, <4>9, <6>1
          <6>2. CASE s = t
            <7>1. pc'[c] # "send" /\ pc \in [Calls -> Places]
              BY <4>8, <4>9, <6>2 DEF DataOK
            <7>2. waits[t] # {}
              BY <4>3, <7>1
            <7>3. QED
              BY <4>8, <6>2, <7>2
          <6>3. QED
            BY <6>1, <6>2
        <5>2. s \notin straddled /\ \A d \in waits[s] : pc[d] # "send"
          BY <4>4, <4>6, <4>9, <5>1
        <5>3. QED
          BY <4>9, <5>1, <5>2 DEF CoalesceInv, LiveWaitersHaveRequest
      <4>10. LiveWaitersHaveRequest'
        BY <3>0, <4>1, <4>9 DEF LiveWaitersHaveRequest
      <4>11. ASSUME NEW s \in Slots \ straddled', waits'[s] # {}
             PROVE  Serving' \/ ~Alive'
        <5>1. CASE s = t /\ waits[t] = {}
          BY <3>0, <4>4, <4>11, <5>1
        <5>2. CASE ~(s = t /\ waits[t] = {})
          <6>1. waits[s] # {} /\ s \notin straddled
            BY <4>4, <4>7, <4>11, <5>2
          <6>2. QED
            BY <3>0, <6>1 DEF CoalesceInv
        <5>3. QED
          BY <5>1, <5>2
      <4>12. ASSUME NEW s \in Slots \ straddled', NEW d \in waits'[s], pc'[d] = "send"
             PROVE  got'[d] = dials'
        <5>1. CASE d = c
          <6>1. s = t
            BY <4>5, <4>7, <5>1
          <6>2. waits[t] = {}
            BY <4>1, <4>3, <4>12, <5>1 DEF DataOK
          <6>3. QED
            BY <3>0, <4>1, <4>4, <4>12, <5>1, <6>1, <6>2
        <5>2. CASE d # c
          <6>1. d \in waits[s] /\ s \notin straddled
            BY <4>4, <4>7, <4>8, <4>12, <5>2
          <6>2. QED
            BY <3>0, <4>1, <4>6, <4>12, <6>1 DEF CoalesceInv
        <5>3. QED
          BY <5>1, <5>2
      <4>13. QED
        BY <4>10, <4>11, <4>12 DEF CoalesceInv
    <3>4. CASE SendRequest(c)
      <4>1. UNCHANGED <<waits, straddled>> /\ pc[c] = "send"
        BY <3>4 DEF SendRequest
      <4>2. \/ asked' = [asked EXCEPT ![t] = @ + 1] /\ pc' = [pc EXCEPT ![c] = "wait"]
            \/ /\ link[got[c]] # "up" /\ asked' = asked
               /\ pc' = [pc EXCEPT ![c] = "wait"] \/ pc' = [pc EXCEPT ![c] = "done"]
        BY <3>4 DEF SendRequest, Goto, Return
      <4>3. got' = got \/ got' = [got EXCEPT ![c] = 0]
        BY <3>4 DEF SendRequest, Return
      <4>4. \A d \in Calls \ {c} : pc'[d] = pc[d] /\ got'[d] = got[d]
        BY <4>2, <4>3 DEF DataOK
      <4>5. pc'[c] # "send"
        BY <4>2 DEF DataOK
      <4>6. ASSUME NEW s \in Slots \ straddled, dials > 0, link[dials] = "up", waits[s] # {},
                   \A d \in waits[s] : pc'[d] # "send"
            PROVE  asked'[s] > 0
        <5>1. CASE c \in waits[s]
          <6>1. s = t /\ got[c] = dials
            BY <4>1, <5>1 DEF WaiterInv, CoalesceInv
          <6>2. asked' = [asked EXCEPT ![t] = @ + 1]
            BY <4>2, <4>6, <6>1
          <6>3. QED
            BY <6>1, <6>2 DEF DataOK
        <5>2. CASE c \notin waits[s]
          <6>1. \A d \in waits[s] : pc[d] # "send"
            BY <4>4, <4>6, <5>2 DEF DataOK
          <6>2. asked[s] > 0
            BY <4>6, <6>1 DEF CoalesceInv, LiveWaitersHaveRequest
          <6>3. QED
            <7>1. asked[t] \in Nat /\ asked[s] \in Nat
              BY <3>0 DEF DataOK
            <7>2. asked'[s] = asked[s] \/ asked'[s] = asked[s] + 1
              BY <4>2, <3>0 DEF DataOK
            <7>3. QED
              BY <6>2, <7>1, <7>2
        <5>3. QED
          BY <5>1, <5>2
      <4>7. LiveWaitersHaveRequest'
        BY <3>0, <4>1, <4>6 DEF LiveWaitersHaveRequest
      <4>8. ASSUME NEW s \in Slots \ straddled, NEW d \in waits[s], pc'[d] = "send"
            PROVE  got'[d] = dials
        <5>1. d \in Calls \ {c}
          BY <4>5, <4>8 DEF DataOK
        <5>2. QED
          BY <4>4, <4>8, <5>1 DEF CoalesceInv
      <4>9. QED
        BY <3>0, <4>1, <4>7, <4>8 DEF CoalesceInv
    <3>5. CASE GiveUp(c)
      <4>1. UNCHANGED asked /\ pc[c] = "wait"
        BY <3>5 DEF GiveUp
      <4>2. /\ waits' = [waits EXCEPT ![t] = @ \ {c}]
            /\ pc' = [pc EXCEPT ![c] = "done"] /\ got' = [got EXCEPT ![c] = 0]
            /\ straddled' = IF waits[t] \ {c} = {} THEN straddled \ {t} ELSE straddled
        BY <3>5 DEF GiveUp, Return, Goto
      <4>3. \A s \in Slots : waits'[s] \subseteq waits[s] /\ waits[s] \subseteq waits'[s] \cup {c}
        BY <4>2 DEF DataOK
      <4>4. \A s \in Slots \ straddled' : s \in straddled => waits'[s] = {}
        BY <3>0, <4>2 DEF DataOK
      <4>5. \A d \in Calls : pc'[d] = "send" => pc[d] = "send" /\ got'[d] = got[d]
        BY <4>1, <4>2 DEF DataOK
      <4>6. \A d \in Calls : pc[d] = "send" => pc'[d] = "send"
        BY <4>1, <4>2 DEF DataOK
      <4>7. \A s \in Slots : waits[s] \subseteq Calls
        BY DEF DataOK
      <4>8. ASSUME NEW s \in Slots \ straddled', dials > 0, link[dials] = "up", waits'[s] # {},
                   \A d \in waits'[s] : pc'[d] # "send"
            PROVE  asked[s] > 0
        <5>1. s \notin straddled /\ waits[s] # {}
          BY <4>3, <4>4, <4>8
        <5>2. \A d \in waits[s] : pc[d] # "send"
          BY <4>1, <4>3, <4>6, <4>7, <4>8
        <5>3. QED
          BY <4>8, <5>1, <5>2 DEF CoalesceInv, LiveWaitersHaveRequest
      <4>9. LiveWaitersHaveRequest'
        BY <3>0, <4>1, <4>8 DEF LiveWaitersHaveRequest
      <4>10. ASSUME NEW s \in Slots \ straddled', waits'[s] # {}
             PROVE  Serving \/ ~Alive
        BY <4>3, <4>4, <4>10 DEF CoalesceInv
      <4>11. ASSUME NEW s \in Slots \ straddled', NEW d \in waits'[s], pc'[d] = "send"
             PROVE  got'[d] = dials
        <5>1. s \notin straddled /\ d \in waits[s] /\ d \in Calls
          BY <4>3, <4>4, <4>7, <4>11
        <5>2. QED
          BY <4>5, <4>11, <5>1 DEF CoalesceInv
      <4>12. QED
        BY <3>0, <4>9, <4>10, <4>11 DEF CoalesceInv
    <3>6. QED
      BY <2>3, <3>1, <3>2, <3>3, <3>4, <3>5, Zenon DEF Caller
  <2>4. CASE UNCHANGED vars
    BY <2>4 DEF vars, CoalesceInv, LiveWaitersHaveRequest
  <2>5. QED
    BY <2>1, <2>2, <2>3, <2>4, Zenon DEF Next
<1>3. QED
  BY <1>1, <1>2, DataCorrect, WaiterInvariant, AuthInvariant, PTL DEF Spec

\* On every connection a slot is stranded only by a first waiter that straddled.
THEOREM CoalescingLosesNoRequest == Spec => []LiveWaitersHaveRequest
<1>1. CoalesceInv => LiveWaitersHaveRequest
  BY DEF CoalesceInv
<1>2. QED
  BY <1>1, CoalesceInvariant, PTL

===============================================================================

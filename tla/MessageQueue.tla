---------------------------- MODULE MessageQueue ------------------------------
(* What the outbox promises, without sessions, flushes or crashes: an      *)
(* accepted message stays queued until it has been handed to a connection  *)
(* or has failed MaxAttempts times.  Handing over is at least once.        *)
EXTENDS Naturals

CONSTANTS Messages, MaxAttempts

VARIABLES queue,  \* accepted and not yet taken out
          handed, \* handed over at least once
          tries   \* failed attempts

Init ==
    /\ queue = {}
    /\ handed = {}
    /\ tries = [m \in Messages |-> 0]

Accept(m) ==
    /\ m \notin queue /\ m \notin handed /\ tries[m] = 0
    /\ queue' = queue \cup {m}
    /\ UNCHANGED <<handed, tries>>

\* Messages sent while the relay is online are handed over without queueing.
HandOver(m) ==
    /\ handed' = handed \cup {m}
    /\ UNCHANGED <<queue, tries>>

Fail(m) ==
    /\ m \in queue
    /\ tries' = [tries EXCEPT ![m] = @ + 1]
    /\ UNCHANGED <<queue, handed>>

TakeOut(m) ==
    /\ m \in queue
    /\ m \in handed \/ tries[m] >= MaxAttempts
    /\ queue' = queue \ {m}
    /\ UNCHANGED <<handed, tries>>

Next == \E m \in Messages : Accept(m) \/ HandOver(m) \/ Fail(m) \/ TakeOut(m)

Spec == Init /\ [][Next]_<<queue, handed, tries>>
===============================================================================

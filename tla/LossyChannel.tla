----------------------------- MODULE LossyChannel -----------------------------
(* What the opencode bridge promises of the frames it takes, without pumps, *)
(* contexts or reads: a queue of bounded length that outlives connections.  *)
(* A connection takes frames from its front until it closes or loses one.   *)
EXTENDS Naturals, Sequences

CONSTANT Buffer

VARIABLES queue,   \* accepted and not yet taken out
          sends,   \* frames offered; a frame is its number
          refused, \* those the queue had no room for
          written, \* handed over, in order
          lost,
          open     \* a connection takes frames

Init ==
    /\ queue = <<>> /\ sends = 0 /\ refused = {}
    /\ written = <<>> /\ lost = {} /\ open = FALSE

\* Besides the buffer there is room for the frame that is being written.
Accept ==
    /\ Len(queue) <= Buffer
    /\ sends' = sends + 1 /\ queue' = Append(queue, sends + 1)
    /\ UNCHANGED <<refused, written, lost, open>>

\* The buffer is full, whether or not a frame is being written.
Refuse ==
    /\ Len(queue) >= Buffer
    /\ sends' = sends + 1 /\ refused' = refused \cup {sends + 1}
    /\ UNCHANGED <<queue, written, lost, open>>

Connect ==
    /\ ~open /\ open' = TRUE
    /\ UNCHANGED <<queue, sends, refused, written, lost>>

Close ==
    /\ open /\ open' = FALSE
    /\ UNCHANGED <<queue, sends, refused, written, lost>>

HandOver ==
    /\ open /\ queue # <<>>
    /\ written' = Append(written, Head(queue)) /\ queue' = Tail(queue)
    /\ UNCHANGED <<sends, refused, lost, open>>

\* The frame is gone, and the connection with it.
Lose ==
    /\ open /\ queue # <<>> /\ open' = FALSE
    /\ lost' = lost \cup {Head(queue)} /\ queue' = Tail(queue)
    /\ UNCHANGED <<sends, refused, written>>

Next == Accept \/ Refuse \/ Connect \/ Close \/ HandOver \/ Lose

Spec == Init /\ [][Next]_<<queue, sends, refused, written, lost, open>>
===============================================================================

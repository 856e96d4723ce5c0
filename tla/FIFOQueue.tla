------------------------------ MODULE FIFOQueue ------------------------------
(***************************************************************************)
(* What every user of Common::LFQueue relies on: a queue between one       *)
(* producing and one consuming thread that delivers each message once and  *)
(* in the order of publication.  LFQueue (the ring buffer of               *)
(* common/lf_queue.h) is shown to implement this specification.            *)
(***************************************************************************)
EXTENDS Sequences

CONSTANTS Msg,      \* the messages
          NoMsg     \* no message has been delivered yet

VARIABLES queue,      \* published and not yet delivered, oldest first
          delivered   \* the message handed to the consumer last

vars == <<queue, delivered>>

Init ==
    /\ queue = << >>
    /\ delivered = NoMsg

Enqueue(m) ==
    /\ queue' = Append(queue, m)
    /\ UNCHANGED delivered

Dequeue ==
    /\ queue # << >>
    /\ delivered' = Head(queue)
    /\ queue' = Tail(queue)

Next == Dequeue \/ \E m \in Msg : Enqueue(m)

Spec == Init /\ [][Next]_vars

\* The consumer never stops while messages are waiting.
Fairness == WF_vars(Dequeue)
==============================================================================

------------------------------- MODULE LFQueue -------------------------------
(***************************************************************************)
(* Common::LFQueue (common/lf_queue.h): the ring buffer between two        *)
(* threads of the system, with the loops that use it.                      *)
(*                                                                         *)
(* The three counters are sequentially consistent atomics, so every access *)
(* to one of them is a step.  The slots are plain memory: copying a        *)
(* message into a slot and using a message in place both take time, so     *)
(* each has a beginning and an end.                                        *)
(*                                                                         *)
(* The producer is any caller of getNextToWriteTo / updateNextToWriteTo    *)
(* (FIFOSequencer, MatchingEngine, MarketDataConsumer, OrderGateway,       *)
(* Logger).  The consumer is any polling loop.  Two shapes of loop exist   *)
(* in the code: OrderServer, MarketDataPublisher, SnapshotSynthesizer and  *)
(* Logger test size() after getNextToRead(); MatchingEngine and            *)
(* OrderGateway do not.  ChecksSize selects the shape.                     *)
(*                                                                         *)
(* The queue has no test for being full.  MaxBacklog bounds how far the    *)
(* producer gets ahead: a value below Size says that the consumer keeps    *)
(* up, a value of Size or more says nothing, which is the code alone.      *)
(***************************************************************************)
EXTENDS Integers, Sequences

CONSTANTS Msg,         \* messages (the template argument T)
          NoMsg,       \* T() and the content of a half-written slot
          Size,        \* store_.size()
          MaxBacklog,  \* bound: unread messages when a write begins
          ChecksSize   \* does the consuming loop test size()?

ASSUME SizeAssumption == Size \in Nat \ {0}
ASSUME BacklogAssumption == MaxBacklog \in Nat
ASSUME ChecksSizeAssumption == ChecksSize \in BOOLEAN
ASSUME NoMsgAssumption == NoMsg \notin Msg

VARIABLES
    store_,             \* the slots
    next_write_index_,
    next_read_index_,
    store_size_,
    producer,           \* where the producing thread is
    consumer,           \* where the consuming thread is
    handled             \* the message the consumer used last

vars == <<store_, next_write_index_, next_read_index_, store_size_,
          producer, consumer, handled>>

Slots == 0 .. Size - 1

\* Mutant: the index is not taken modulo the size of the vector.
NextIndexUnwrapped(i) == i + 1

\* (index + 1) % store_.size()
NextIndex(i) == (i + 1) % Size

\* Messages between the two indices: what getNextToRead() can still return.
Unread ==
    IF next_write_index_ >= next_read_index_
    THEN next_write_index_ - next_read_index_
    ELSE next_write_index_ - next_read_index_ + Size

\* ASSERT calls exit(): the process is gone, and both threads with it.
Running == consumer # "aborted"

Init ==
    /\ store_ = [i \in Slots |-> NoMsg]
    /\ next_write_index_ = 0
    /\ next_read_index_ = 0
    /\ store_size_ = 0
    /\ producer = "idle"
    /\ consumer = "polling"
    /\ handled = NoMsg

-----------------------------------------------------------------------------
(* The producing thread. *)

\* getNextToWriteTo() and the first bytes of *next_write = message.
getNextToWriteTo ==
    /\ Running
    /\ producer = "idle"
    /\ Unread < MaxBacklog
    /\ store_' = [store_ EXCEPT ![next_write_index_] = NoMsg]
    /\ producer' = "writing"
    /\ UNCHANGED <<next_write_index_, next_read_index_, store_size_,
                   consumer, handled>>

\* The last bytes of *next_write = message.
FinishWrite(m) ==
    /\ Running
    /\ producer = "writing"
    /\ store_' = [store_ EXCEPT ![next_write_index_] = m]
    /\ producer' = "written"
    /\ UNCHANGED <<next_write_index_, next_read_index_, store_size_,
                   consumer, handled>>

\* Mutant: the index is published while the message is still being copied.
PublishIndexEarly ==
    /\ Running
    /\ producer \in {"writing", "written"}
    /\ next_write_index_' = NextIndex(next_write_index_)
    /\ producer' = "published"
    /\ UNCHANGED <<store_, next_read_index_, store_size_, consumer, handled>>

\* updateNextToWriteTo(): next_write_index_ = (next_write_index_ + 1) % size.
PublishIndex ==
    /\ Running
    /\ producer = "written"
    /\ next_write_index_' = NextIndex(next_write_index_)
    /\ producer' = "published"
    /\ UNCHANGED <<store_, next_read_index_, store_size_, consumer, handled>>

\* Mutant: the counter is not incremented.
IncrementSizeForgotten ==
    /\ Running
    /\ producer = "published"
    /\ producer' = "idle"
    /\ UNCHANGED <<store_, next_write_index_, next_read_index_, store_size_,
                   consumer, handled>>

\* updateNextToWriteTo(): store_size_++.
IncrementSize ==
    /\ Running
    /\ producer = "published"
    /\ store_size_' = store_size_ + 1
    /\ producer' = "idle"
    /\ UNCHANGED <<store_, next_write_index_, next_read_index_, consumer,
                   handled>>

-----------------------------------------------------------------------------
(* The consuming thread. *)

\* Mutant: getNextToRead() does not compare the indices.
getNextToReadAlways ==
    /\ consumer = "polling"
    /\ consumer' = IF ChecksSize THEN "found" ELSE "reading"
    /\ UNCHANGED <<store_, next_write_index_, next_read_index_, store_size_,
                   producer, handled>>

\* getNextToRead() returns a slot; a nullptr sends the loop round again.
getNextToRead ==
    /\ consumer = "polling"
    /\ next_read_index_ # next_write_index_
    /\ consumer' = IF ChecksSize THEN "found" ELSE "reading"
    /\ UNCHANGED <<store_, next_write_index_, next_read_index_, store_size_,
                   producer, handled>>

\* Mutant: the loop does not test size().
CheckSizeDropped ==
    /\ consumer = "found"
    /\ consumer' = "reading"
    /\ UNCHANGED <<store_, next_write_index_, next_read_index_, store_size_,
                   producer, handled>>

\* The loop condition size() && message, evaluated after getNextToRead().
CheckSize ==
    /\ consumer = "found"
    /\ consumer' = IF store_size_ # 0 THEN "reading" ELSE "polling"
    /\ UNCHANGED <<store_, next_write_index_, next_read_index_, store_size_,
                   producer, handled>>

\* The loop body is done with the message in the slot.
Handle ==
    /\ consumer = "reading"
    /\ handled' = store_[next_read_index_]
    /\ consumer' = "handled"
    /\ UNCHANGED <<store_, next_write_index_, next_read_index_, store_size_,
                   producer>>

\* updateReadIndex(): next_read_index_ = (next_read_index_ + 1) % size.
AdvanceRead ==
    /\ consumer = "handled"
    /\ next_read_index_' = NextIndex(next_read_index_)
    /\ consumer' = "advanced"
    /\ UNCHANGED <<store_, next_write_index_, store_size_, producer, handled>>

\* Mutant: the counter is not decremented.
DecrementSizeForgotten ==
    /\ consumer = "advanced"
    /\ consumer' = IF store_size_ # 0 THEN "polling" ELSE "aborted"
    /\ UNCHANGED <<store_, next_write_index_, next_read_index_, store_size_,
                   producer, handled>>

\* updateReadIndex(): ASSERT(store_size_ != 0), then store_size_--.  Only the
\* producer can step between the two, and it only increments.
DecrementSize ==
    /\ consumer = "advanced"
    /\ IF store_size_ # 0
       THEN /\ store_size_' = store_size_ - 1
            /\ consumer' = "polling"
       ELSE /\ consumer' = "aborted"
            /\ UNCHANGED store_size_
    /\ UNCHANGED <<store_, next_write_index_, next_read_index_, producer,
                   handled>>

-----------------------------------------------------------------------------
Produce ==
    \/ getNextToWriteTo
    \/ \E m \in Msg : FinishWrite(m)
    \/ PublishIndex
    \/ IncrementSize

Consume ==
    \/ getNextToRead
    \/ CheckSize
    \/ Handle
    \/ AdvanceRead
    \/ DecrementSize

Next == Produce \/ Consume

Spec == Init /\ [][Next]_vars

\* Both threads run to the end of what they have begun; nothing makes a
\* producer begin another write.
Fairness ==
    /\ WF_vars(\E m \in Msg : FinishWrite(m))
    /\ WF_vars(PublishIndex)
    /\ WF_vars(IncrementSize)
    /\ WF_vars(Consume)

-----------------------------------------------------------------------------
(* Properties. *)

\* The indices stay inside the vector and the counter is a size_t that never
\* underflows.
TypeOK ==
    /\ store_ \in [Slots -> Msg \cup {NoMsg}]
    /\ next_write_index_ \in Slots
    /\ next_read_index_ \in Slots
    /\ store_size_ \in Nat
    /\ producer \in {"idle", "writing", "written", "published"}
    /\ consumer \in {"polling", "found", "reading", "handled", "advanced",
                     "aborted"}
    /\ handled \in Msg \cup {NoMsg}

\* ASSERT(store_size_ != 0) in updateReadIndex() never ends the process:
\* whatever the interleaving with updateNextToWriteTo(), a consumer that has
\* used a message finds it counted.
AssertHolds == consumer # "aborted"

\* store_size_ differs from the distance between the indices only while one
\* of the threads is between its two counters.
SizeCountsUnread ==
    store_size_ + (IF producer = "published" THEN 1 ELSE 0)
        = Unread + (IF consumer \in {"advanced", "aborted"} THEN 1 ELSE 0)

\* The two threads are never in the same slot: the producer does not touch
\* the message the consumer is using through the pointer getNextToRead()
\* returned.
NoSharedSlot ==
    ~ /\ producer \in {"writing", "written"}
      /\ consumer \in {"found", "reading", "handled"}
      /\ next_write_index_ = next_read_index_

\* The slot that holds the k-th unread message, k counted from 0.
SlotOf(k) ==
    IF next_read_index_ + k < Size THEN next_read_index_ + k
                                   ELSE next_read_index_ + k - Size

\* The messages a getNextToRead() loop would still deliver, oldest first.
\* A message being used leaves the queue when the loop body ends.
Contents == [k \in 1 .. Unread |-> store_[SlotOf(k - 1)]]

Waiting == IF consumer = "handled" THEN Tail(Contents) ELSE Contents

FIFO == INSTANCE FIFOQueue WITH queue <- Waiting, delivered <- handled

\* The ring buffer delivers every published message once, whole and in
\* order: it implements the abstract queue.
ImplementsFIFO == FIFO!Spec

\* A published message is delivered as long as the consuming thread runs,
\* even when size() and the indices disagree at the moment it looks.
DeliversAll == FIFO!Fairness
=============================================================================

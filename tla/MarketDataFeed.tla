---------------------------- MODULE MarketDataFeed ----------------------------
(***************************************************************************)
(* The incremental market data feed: MarketDataPublisher numbers the       *)
(* updates of the matching engine and multicasts them, MarketDataConsumer  *)
(* at a trading client passes them on in order and recovers from gaps with *)
(* the snapshot stream.                                                    *)
(*                                                                         *)
(* A multicast datagram can be lost, duplicated and overtaken: everything  *)
(* that was sent may arrive at any time, any number of times, or never.    *)
(* The content of an update is its number; what a snapshot says about the  *)
(* book is left out, its messages and their numbers are kept.  The         *)
(* snapshots are what publishSnapshot() sends for one instrument.          *)
(***************************************************************************)
EXTENDS Integers, Sequences, FiniteSets

CONSTANTS
    MaxUpdates,       \* bound: updates the matching engine produces
    MaxBatch,         \* bound: updates waiting when the publisher looks
    MaxDatagram,      \* messages that fit into one UDP datagram
    MaxDescriptors    \* file descriptors the client's process may have

\* What the theorems assume of the constants.
FeedParameters ==
    /\ MaxUpdates \in Nat
    /\ MaxBatch \in Nat
    /\ MaxDatagram \in Nat
    /\ MaxDescriptors \in Nat \ {0}

VARIABLES
    next_inc_seq_num_,  \* the publisher's next number
    sent,               \* the datagrams sent to each multicast group
    refused,            \* history: the batches the kernel did not take
    inbound_data_,      \* the messages in each socket's receive buffer
    reading,            \* the socket recvCallback() is running for, or "none"
    consumer            \* the rest of MarketDataConsumer

vars == <<next_inc_seq_num_, sent, refused, inbound_data_, reading, consumer>>

Sockets == {"incremental", "snapshot"}

MDPMarketUpdate(n, type, id) == [seq_num |-> n, type_ |-> type, orderId_ |-> id]

\* An empty std::map.
NoUpdates == << >>

\* The constructor opens the incremental socket only.
InitConsumer ==
    [process |-> "running", next_update_seq_num_ |-> 0,
     in_recovery_mode_ |-> FALSE, incremental_queued |-> NoUpdates,
     snapshot_queued |-> NoUpdates, joined |-> FALSE, descriptors |-> 1,
     incoming |-> << >>]

Init ==
    /\ next_inc_seq_num_ = 1
    /\ sent = [s \in Sockets |-> {}]
    /\ refused = {}
    /\ inbound_data_ = [s \in Sockets |-> << >>]
    /\ reading = "none"
    /\ consumer = InitConsumer

-----------------------------------------------------------------------------
(* The exchange. *)

MovedOn(n, k) == n + k

\* run(): the updates found in the queue leave in one datagram.  The kernel
\* refuses one that is too long, and with MSG_DONTWAIT any other one when it
\* has no room; the result of send() is only logged.
publish ==
    \E k \in 1 .. MaxBatch :
        LET n == next_inc_seq_num_
            batch == [i \in 1 .. k |->
                        MDPMarketUpdate(n + i - 1, "ADD", n + i - 1)]
        IN  /\ n + k - 1 <= MaxUpdates
            /\ next_inc_seq_num_' = MovedOn(n, k)
            /\ \/ /\ k <= MaxDatagram
                  /\ sent' = [sent EXCEPT !["incremental"] = @ \cup {batch}]
                  /\ UNCHANGED refused
               \/ /\ refused' = refused \cup {batch}
                  /\ UNCHANGED sent
            /\ UNCHANGED <<inbound_data_, reading, consumer>>

\* A snapshot of a book with no order, or with one, after `last` updates.
Cycle(last, orders) ==
    LET start == MDPMarketUpdate(0, "SNAPSHOT_START", last)
        clear == MDPMarketUpdate(1, "CLEAR", last)
        end(n) == MDPMarketUpdate(n, "SNAPSHOT_END", last)
    IN  IF orders = 0
        THEN {<<start, clear, end(2)>>}
        ELSE {<<start, clear, MDPMarketUpdate(2, "ADD", last)>>, <<end(3)>>}

publishSnapshot ==
    /\ \E last \in 0 .. next_inc_seq_num_ - 1, orders \in 0 .. 1 :
          sent' = [sent EXCEPT !["snapshot"] = @ \cup Cycle(last, orders)]
    /\ UNCHANGED <<next_inc_seq_num_, refused, inbound_data_, reading, consumer>>

-----------------------------------------------------------------------------
(* The consumer, as operators on its state c. *)

First(queued) == CHOOSE n \in DOMAIN queued : \A k \in DOMAIN queued : n <= k
Last(queued) == CHOOSE n \in DOMAIN queued : \A k \in DOMAIN queued : k <= n

IsMarker(m) == m.type_ \in {"SNAPSHOT_START", "SNAPSHOT_END"}

\* The queued updates in the order of their numbers, markers left out.
InOrder(queued, from) ==
    LET kept == {n \in DOMAIN queued : n >= from /\ ~IsMarker(queued[n])}
    IN  [i \in 1 .. Cardinality(kept) |->
            queued[CHOOSE n \in kept : Cardinality({k \in kept : k < n}) = i - 1]]

\* The loop over incremental_queued: from the number after the snapshot on,
\* no number may be missing.
IncrementalComplete(queued, from) ==
    \A n \in DOMAIN queued : n > from => n - 1 \in DOMAIN queued

\* MulticastSocket::init() and join(): a new socket over the old descriptor.
join(c) == [c EXCEPT !.joined = TRUE, !.descriptors = @ + 1]

leave(c) == [c EXCEPT !.joined = FALSE, !.descriptors = @ - 1]

\* socket() in createSocket() fails when the process has no descriptor left.
createSocketFails(c) == c.descriptors = MaxDescriptors

\* checkSnapshotSync(): every queued snapshot number is compared with
\* next_update_seq_num_ (line 30).
checkSnapshotSync(c) ==
    LET q == c.snapshot_queued
        from == q[Last(q)].orderId_ + 1
        synced == [c EXCEPT !.incoming = @ \o InOrder(q, 0)
                                           \o InOrder(c.incremental_queued, from),
                            !.snapshot_queued = NoUpdates,
                            !.incremental_queued = NoUpdates,
                            !.in_recovery_mode_ = FALSE]
    IN  IF q = NoUpdates \/ q[First(q)].type_ # "SNAPSHOT_START"
        THEN c
        ELSE IF \E n \in DOMAIN q : n # c.next_update_seq_num_
        THEN [c EXCEPT !.snapshot_queued = NoUpdates]
        ELSE IF q[Last(q)].type_ # "SNAPSHOT_END"
        THEN c
        ELSE IF ~IncrementalComplete(c.incremental_queued, from)
        THEN [c EXCEPT !.snapshot_queued = NoUpdates]
        ELSE leave(synced)

\* map[m.seq_num] = m
Stored(queued, m) ==
    [n \in DOMAIN queued \cup {m.seq_num} |->
        IF n = m.seq_num THEN m ELSE queued[n]]

queueMessage(c, is_snapshot, m) ==
    LET base == IF m.seq_num \in DOMAIN c.snapshot_queued
                THEN NoUpdates ELSE c.snapshot_queued
    IN  checkSnapshotSync(
            IF is_snapshot
            THEN [c EXCEPT !.snapshot_queued = Stored(base, m)]
            ELSE [c EXCEPT !.incremental_queued = Stored(@, m)])

\* The result of init() is asserted.
startSnapshotSync(c) ==
    IF createSocketFails(c)
    THEN [c EXCEPT !.process = "terminated"]
    ELSE join([c EXCEPT !.incremental_queued = NoUpdates,
                        !.snapshot_queued = NoUpdates])

\* already_in_recovery_mode (line 160)
SyncNeeded(c) == c.in_recovery_mode_

\* The body of recvCallback()'s loop.
handleMessage(c, is_snapshot, m) ==
    LET rec == [c EXCEPT !.in_recovery_mode_ = TRUE]
        synced == IF SyncNeeded(c) THEN startSnapshotSync(rec) ELSE rec
    IN  IF c.in_recovery_mode_ \/ m.seq_num # c.next_update_seq_num_
        THEN IF synced.process = "running"
             THEN queueMessage(synced, is_snapshot, m)
             ELSE synced
        ELSE IF ~is_snapshot
        THEN [c EXCEPT !.next_update_seq_num_ = @ + 1,
                       !.incoming = Append(@, m)]
        ELSE c

-----------------------------------------------------------------------------
(* The consumer's steps. *)

\* sendAndRecv() takes one datagram and calls recvCallback(), which leaves a
\* snapshot in the buffer when there is no recovery.
sendAndRecv(s) ==
    /\ consumer.process = "running"
    /\ reading = "none"
    /\ s = "snapshot" => consumer.joined
    /\ \E d \in sent[s] :
          inbound_data_' = [inbound_data_ EXCEPT ![s] = @ \o d]
    /\ reading' = IF s = "snapshot" /\ ~consumer.in_recovery_mode_
                  THEN "none" ELSE s
    /\ UNCHANGED <<next_inc_seq_num_, sent, refused, consumer>>

\* recvCallback(), one message.  Line 152 makes a pointer of the buffer's
\* fill level: reading through it is a fault, or else the message that was
\* meant.  (The fault also stands for the other calls of createSocket() and
\* for join(): what the system refuses there ends the process, too.)
recvCallback ==
    /\ consumer.process = "running"
    /\ reading # "none"
    /\ \E fault \in BOOLEAN :
          consumer' = IF fault
                      THEN [consumer EXCEPT !.process = "faulted"]
                      ELSE handleMessage(consumer, reading = "snapshot",
                                         Head(inbound_data_[reading]))
    /\ inbound_data_' = [inbound_data_ EXCEPT ![reading] = Tail(@)]
    /\ reading' = IF Len(inbound_data_[reading]) = 1 THEN "none" ELSE reading
    /\ UNCHANGED <<next_inc_seq_num_, sent, refused>>

Next ==
    \/ publish
    \/ publishSnapshot
    \/ \E s \in Sockets : sendAndRecv(s)
    \/ recvCallback

Spec == Init /\ [][Next]_vars

\* Both loops go on, the synthesizer sends its cycles, and of what is sent to
\* a group that the client has joined something arrives again and again.
FairSpec ==
    /\ Spec
    /\ WF_vars(publish)
    /\ WF_vars(publishSnapshot)
    /\ WF_vars(recvCallback)
    /\ \A s \in Sockets : SF_vars(sendAndRecv(s))

-----------------------------------------------------------------------------
(* Properties. *)

TypeOK ==
    /\ next_inc_seq_num_ \in 1 .. MaxUpdates + 1
    /\ reading \in Sockets \cup {"none"}
    /\ consumer.process \in {"running", "terminated", "faulted"}
    /\ consumer.in_recovery_mode_ \in BOOLEAN
    /\ consumer.joined \in BOOLEAN
    /\ consumer.descriptors \in 1 .. MaxDescriptors

\* Every number the publisher has used is the number of exactly one update, in
\* exactly one datagram that was sent or refused, and no datagram carries a
\* number that is yet to be used: what a client misses it can tell by the
\* numbers, whatever the kernel refused (MarketDataPublisher::run()).
NumberedOnce ==
    LET places == {p \in (sent["incremental"] \cup refused) \X (1 .. MaxBatch) :
                      p[2] \in DOMAIN p[1]}
    IN  /\ sent["incremental"] \cap refused = {}
        /\ \A p \in places : p[1][p[2]].seq_num \in 1 .. next_inc_seq_num_ - 1
        /\ \A n \in 1 .. next_inc_seq_num_ - 1 : \E p \in places :
              /\ p[1][p[2]].seq_num = n
              /\ \A q \in places : q[1][q[2]].seq_num = n => q = p

\* What the recovery model of the documentation ends with, "Resume live
\* processing": a recovery ends unless the process faults.  (It has to get by
\* the clearing at line 165, and the comparison of line 30 with a number that
\* does not move; every message takes another descriptor.)
RecoveryEnds ==
    consumer.in_recovery_mode_
        ~> (~consumer.in_recovery_mode_ \/ consumer.process = "faulted")
=============================================================================

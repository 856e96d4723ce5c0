------------------------- MODULE MarketDataFeedProofs -------------------------
(***************************************************************************)
(* Proofs about MarketDataFeed for every number of updates, batch and      *)
(* datagram size: a client can tell by the numbers what it misses, and     *)
(* the trading engine is never sent an update all the same.                *)
(*                                                                         *)
(* The invariant: the consumer still expects number 0, while every update  *)
(* that was published has a number from 1 on.  A recovery can only end     *)
(* with a queued snapshot whose numbers are all 0, that is, with a single  *)
(* message that is both START and END.                                     *)
(***************************************************************************)
EXTENDS MarketDataFeed, TLAPS, FiniteSetTheorems, SequenceTheorems

Fields == {"process", "next_update_seq_num_", "in_recovery_mode_",
           "incremental_queued", "snapshot_queued", "joined", "descriptors",
           "incoming"}

Single(queued) == \E n : DOMAIN queued = {n}

QueuesInv(c) ==
    \/ c.incremental_queued = NoUpdates /\ c.snapshot_queued = NoUpdates
    \/ c.incremental_queued = NoUpdates /\ Single(c.snapshot_queued)
    \/ c.snapshot_queued = NoUpdates /\ Single(c.incremental_queued)

ConsumerInv(c) ==
    /\ DOMAIN c = Fields
    /\ c = [f \in Fields |-> c[f]]
    /\ c.process \in {"running", "terminated", "faulted"}
    /\ c.in_recovery_mode_ \in BOOLEAN
    /\ c.joined \in BOOLEAN
    /\ c.descriptors \in 1 .. MaxDescriptors
    /\ c.next_update_seq_num_ = 0
    /\ c.incoming = << >>
    /\ QueuesInv(c)
    /\ ~c.in_recovery_mode_ => /\ c.incremental_queued = NoUpdates
                               /\ c.snapshot_queued = NoUpdates

\* The updates the publisher sends: their numbers start at 1.
Published == [seq_num : Nat \ {0}, type_ : {"ADD"}, orderId_ : Nat]

FeedInv ==
    /\ next_inc_seq_num_ \in 1 .. MaxUpdates + 1
    /\ reading \in Sockets \cup {"none"}
    /\ DOMAIN sent = Sockets
    /\ sent["incremental"] \subseteq Seq(Published) \ {<< >>}
    /\ DOMAIN inbound_data_ = Sockets
    /\ inbound_data_["incremental"] \in Seq(Published)
    /\ reading = "incremental" => inbound_data_["incremental"] # << >>
    /\ ConsumerInv(consumer)

\* The trading engine has been handed nothing.
NothingDelivered == consumer.incoming = << >>

-----------------------------------------------------------------------------
(* The consumer. *)

LEMMA NoUpdatesEmpty == DOMAIN NoUpdates = {}
  BY DEF NoUpdates

\* Storing into an empty queue leaves one message.
LEMMA StoredSingle ==
  ASSUME NEW m
  PROVE  Single(Stored(NoUpdates, m)) /\ m.seq_num \in DOMAIN Stored(NoUpdates, m)
<1>1. DOMAIN Stored(NoUpdates, m) = {m.seq_num}
  BY NoUpdatesEmpty DEF Stored
<1>. QED
  BY <1>1 DEF Single

\* Line 30 never lets a recovery end: the only number it accepts is 0, and a
\* single message is not both the START and the END of a snapshot.
LEMMA NeverSynced ==
  ASSUME NEW c, ConsumerInv(c)
  PROVE  \/ checkSnapshotSync(c) = c
         \/ checkSnapshotSync(c) = [c EXCEPT !.snapshot_queued = NoUpdates]
<1> DEFINE q == c.snapshot_queued
<1>1. CASE q = NoUpdates
  BY <1>1 DEF checkSnapshotSync
<1>2. CASE q # NoUpdates
  <2>1. PICK n : DOMAIN q = {n}
    BY <1>2 DEF ConsumerInv, QueuesInv, Single
  <2>2. CASE n # c.next_update_seq_num_
    BY <2>1, <2>2 DEF checkSnapshotSync
  <2>3. CASE n = 0
    <3>1. First(q) = 0
      BY <2>1, <2>3 DEF First
    <3>2. Last(q) = 0
      BY <2>1, <2>3 DEF Last
    <3>. QED
      BY <3>1, <3>2, <2>1, <2>3 DEF checkSnapshotSync
  <2>. QED
    BY <2>2, <2>3 DEF ConsumerInv
<1>. QED
  BY <1>1, <1>2

LEMMA SyncKeepsInv ==
  ASSUME NEW c, ConsumerInv(c), c.in_recovery_mode_
  PROVE  ConsumerInv(checkSnapshotSync(c))
<1>1. ConsumerInv([c EXCEPT !.snapshot_queued = NoUpdates])
  BY DEF ConsumerInv, QueuesInv, Fields
<1>. QED
  BY <1>1, NeverSynced

\* A message is stored when the queues have just been cleared.
LEMMA QueueKeepsInv ==
  ASSUME NEW c, NEW is_snapshot \in BOOLEAN, NEW m, ConsumerInv(c),
         c.in_recovery_mode_, c.incremental_queued = NoUpdates,
         c.snapshot_queued = NoUpdates
  PROVE  ConsumerInv(queueMessage(c, is_snapshot, m))
<1> DEFINE q == Stored(NoUpdates, m)
<1>1. Single(q)
  BY StoredSingle
<1>2. CASE is_snapshot
  <2> DEFINE d == [c EXCEPT !.snapshot_queued = q]
  <2>1. ConsumerInv(d) /\ d.in_recovery_mode_
    BY <1>1 DEF ConsumerInv, QueuesInv, Fields
  <2>2. queueMessage(c, is_snapshot, m) = checkSnapshotSync(d)
    BY <1>2 DEF queueMessage
  <2>. QED
    BY <2>1, <2>2, SyncKeepsInv
<1>3. CASE ~is_snapshot
  <2> DEFINE d == [c EXCEPT !.incremental_queued = q]
  <2>1. ConsumerInv(d) /\ d.in_recovery_mode_
    BY <1>1 DEF ConsumerInv, QueuesInv, Fields
  <2>2. queueMessage(c, is_snapshot, m) = checkSnapshotSync(d)
    BY <1>3 DEF queueMessage, ConsumerInv, Fields
  <2>. QED
    BY <2>1, <2>2, SyncKeepsInv
<1>. QED
  BY <1>2, <1>3

LEMMA StartKeepsInv ==
  ASSUME FeedParameters, NEW c, ConsumerInv(c), c.in_recovery_mode_
  PROVE  LET d == startSnapshotSync(c)
         IN  /\ ConsumerInv(d)
             /\ d.process = "running" /\ c.process = "running" =>
                  /\ d.in_recovery_mode_
                  /\ d.incremental_queued = NoUpdates
                  /\ d.snapshot_queued = NoUpdates
<1>1. CASE c.descriptors = MaxDescriptors
  BY <1>1 DEF startSnapshotSync, createSocketFails, ConsumerInv, QueuesInv, Fields
<1>2. CASE c.descriptors # MaxDescriptors
  <2>1. c.descriptors + 1 \in 1 .. MaxDescriptors
    BY <1>2 DEF FeedParameters, ConsumerInv
  <2>. QED
    BY <1>2, <2>1 DEF startSnapshotSync, createSocketFails, join, ConsumerInv,
                      QueuesInv, Fields
<1>. QED
  BY <1>1, <1>2

\* No message, from either stream, makes the consumer pass on an update.
LEMMA HandleKeepsInv ==
  ASSUME FeedParameters, NEW c, NEW is_snapshot \in BOOLEAN, NEW m,
         ConsumerInv(c), c.process = "running", is_snapshot \/ m.seq_num # 0
  PROVE  ConsumerInv(handleMessage(c, is_snapshot, m))
<1> DEFINE rec == [c EXCEPT !.in_recovery_mode_ = TRUE]
<1>1. /\ ConsumerInv(rec)
      /\ rec.in_recovery_mode_
      /\ rec.process = "running"
      /\ rec.incremental_queued = c.incremental_queued
      /\ rec.snapshot_queued = c.snapshot_queued
  BY DEF ConsumerInv, QueuesInv, Fields
<1> HIDE DEF rec
<1>2. CASE c.in_recovery_mode_
  <2> DEFINE d == startSnapshotSync(rec)
  <2>1. handleMessage(c, is_snapshot, m)
          = IF d.process = "running" THEN queueMessage(d, is_snapshot, m) ELSE d
    BY <1>2 DEF handleMessage, SyncNeeded, rec
  <2>2. ConsumerInv(d)
    BY <1>1, StartKeepsInv
  <2>3. d.process = "running" => ConsumerInv(queueMessage(d, is_snapshot, m))
    BY <1>1, <2>2, StartKeepsInv, QueueKeepsInv
  <2>. QED
    BY <2>1, <2>2, <2>3
<1>3. CASE ~c.in_recovery_mode_ /\ m.seq_num # c.next_update_seq_num_
  <2>1. handleMessage(c, is_snapshot, m) = queueMessage(rec, is_snapshot, m)
    BY <1>1, <1>3 DEF handleMessage, SyncNeeded, rec
  <2>2. rec.incremental_queued = NoUpdates /\ rec.snapshot_queued = NoUpdates
    BY <1>1, <1>3 DEF ConsumerInv
  <2>. QED
    BY <1>1, <2>1, <2>2, QueueKeepsInv
<1>4. CASE ~c.in_recovery_mode_ /\ m.seq_num = c.next_update_seq_num_
  BY <1>4 DEF handleMessage, ConsumerInv
<1>. QED
  BY <1>2, <1>3, <1>4

-----------------------------------------------------------------------------
(* The feed. *)

LEMMA FeedInvInit ==
  ASSUME FeedParameters, Init
  PROVE  FeedInv
<1>1. ConsumerInv(consumer)
  BY DEF FeedParameters, Init, InitConsumer, ConsumerInv, QueuesInv, Fields,
                        NoUpdates
<1>2. /\ next_inc_seq_num_ \in 1 .. MaxUpdates + 1
      /\ reading = "none"
      /\ DOMAIN sent = Sockets
      /\ sent["incremental"] = {}
      /\ DOMAIN inbound_data_ = Sockets
      /\ inbound_data_["incremental"] = << >>
  BY DEF FeedParameters, Init, Sockets
<1>. QED
  BY <1>1, <1>2 DEF FeedInv

\* A datagram of k updates, numbered from n on.
LEMMA BatchPublished ==
  ASSUME NEW n \in Nat \ {0}, NEW k \in Nat \ {0}
  PROVE  [i \in 1 .. k |-> MDPMarketUpdate(n + i - 1, "ADD", n + i - 1)]
            \in Seq(Published) \ {<< >>}
<1> DEFINE b == [i \in 1 .. k |-> MDPMarketUpdate(n + i - 1, "ADD", n + i - 1)]
<1>1. \A i \in 1 .. k : MDPMarketUpdate(n + i - 1, "ADD", n + i - 1) \in Published
  BY DEF MDPMarketUpdate, Published
<1>2. b \in Seq(Published)
  BY <1>1
<1>3. b # << >>
  <2>1. 1 \in DOMAIN b
    OBVIOUS
  <2>. QED
    BY <2>1
<1>. QED
  BY <1>2, <1>3

LEMMA FeedInvStep ==
  ASSUME FeedParameters, FeedInv, [Next]_vars
  PROVE  FeedInv'
<1>1. CASE publish
  <2> DEFINE n == next_inc_seq_num_
             batch(k) == [i \in 1 .. k |->
                            MDPMarketUpdate(n + i - 1, "ADD", n + i - 1)]
  <2>1. PICK k \in 1 .. MaxBatch :
           /\ n + k - 1 <= MaxUpdates
           /\ next_inc_seq_num_' = n + k
           /\ \/ sent' = sent
              \/ sent' = [sent EXCEPT !["incremental"] = @ \cup {batch(k)}]
           /\ UNCHANGED <<inbound_data_, reading, consumer>>
    BY <1>1 DEF publish, MovedOn
  <2>2. k \in Nat \ {0} /\ n \in Nat \ {0}
    BY DEF FeedParameters, FeedInv
  <2>3. batch(k) \in Seq(Published) \ {<< >>}
    BY <2>2, BatchPublished
  <2> HIDE DEF batch
  <2>4. next_inc_seq_num_' \in 1 .. MaxUpdates + 1
    BY <2>1, <2>2 DEF FeedParameters
  <2>5. /\ DOMAIN sent' = Sockets
        /\ sent'["incremental"] \subseteq Seq(Published) \ {<< >>}
    BY <2>1, <2>3 DEF FeedInv, Sockets
  <2>. QED
    BY <2>1, <2>4, <2>5 DEF FeedInv
<1>2. CASE publishSnapshot
  <2>1. /\ DOMAIN sent' = Sockets
        /\ sent'["incremental"] = sent["incremental"]
    BY <1>2 DEF publishSnapshot, FeedInv, Sockets
  <2>. QED
    BY <1>2, <2>1 DEF publishSnapshot, FeedInv
<1>3. ASSUME NEW s \in Sockets, sendAndRecv(s)
      PROVE  FeedInv'
  <2>1. PICK d \in sent[s] :
           inbound_data_' = [inbound_data_ EXCEPT ![s] = @ \o d]
    BY <1>3 DEF sendAndRecv
  <2>2. reading' \in {s, "none"} \/ reading' = "none"
    BY <1>3 DEF sendAndRecv
  <2>3. CASE s = "incremental"
    <3>1. d \in Seq(Published) \ {<< >>}
      BY <2>1, <2>3 DEF FeedInv
    <3>2. /\ inbound_data_'["incremental"] = inbound_data_["incremental"] \o d
          /\ DOMAIN inbound_data_' = Sockets
      BY <2>1, <2>3 DEF FeedInv
    <3>3. /\ inbound_data_["incremental"] \o d \in Seq(Published)
          /\ inbound_data_["incremental"] \o d # << >>
      <4>1. Len(d) > 0 /\ inbound_data_["incremental"] \in Seq(Published)
        BY <3>1 DEF FeedInv
      <4>. QED
        BY <3>1, <4>1
    <3>. QED
      BY <1>3, <2>2, <3>2, <3>3 DEF FeedInv, sendAndRecv
  <2>4. CASE s = "snapshot"
    <3>1. /\ inbound_data_'["incremental"] = inbound_data_["incremental"]
          /\ DOMAIN inbound_data_' = Sockets
      BY <2>1, <2>4 DEF FeedInv, Sockets
    <3>. QED
      BY <1>3, <2>2, <2>4, <3>1 DEF FeedInv, sendAndRecv
  <2>. QED
    BY <2>3, <2>4 DEF Sockets
<1>4. CASE recvCallback
  <2> DEFINE m == Head(inbound_data_[reading])
  <2>1. reading = "incremental" => m.seq_num # 0
    <3> SUFFICES ASSUME reading = "incremental" PROVE m.seq_num # 0
      OBVIOUS
    <3>1. m \in Published
      BY HeadTailProperties DEF FeedInv
    <3>. QED
      BY <3>1 DEF Published
  <2>2. ConsumerInv(consumer')
    <3>1. PICK fault \in BOOLEAN :
             consumer' = IF fault
                         THEN [consumer EXCEPT !.process = "faulted"]
                         ELSE handleMessage(consumer, reading = "snapshot", m)
      BY <1>4 DEF recvCallback
    <3>2. ConsumerInv([consumer EXCEPT !.process = "faulted"])
      BY DEF FeedInv, ConsumerInv, QueuesInv, Fields
    <3>3. ConsumerInv(handleMessage(consumer, reading = "snapshot", m))
      <4>1. (reading = "snapshot") \/ m.seq_num # 0
        BY <1>4, <2>1 DEF FeedInv, recvCallback, Sockets
      <4>2. (reading = "snapshot") \in BOOLEAN
        OBVIOUS
      <4>3. ConsumerInv(consumer) /\ consumer.process = "running"
        BY <1>4 DEF FeedInv, recvCallback
      <4>. HIDE DEF m
      <4>. QED
        BY <4>1, <4>2, <4>3, HandleKeepsInv
    <3>. QED
      BY <3>1, <3>2, <3>3
  <2>3. CASE reading = "incremental"
    <3> DEFINE data == inbound_data_["incremental"]
    <3>1. data \in Seq(Published) /\ data # << >>
      BY <2>3 DEF FeedInv
    <3>2. /\ inbound_data_'["incremental"] = Tail(data)
          /\ DOMAIN inbound_data_' = Sockets
          /\ reading' = IF Len(data) = 1 THEN "none" ELSE "incremental"
      BY <1>4, <2>3 DEF recvCallback, FeedInv, Sockets
    <3>3. Tail(data) \in Seq(Published) /\ (Len(data) # 1 => Tail(data) # << >>)
      <4> HIDE DEF data
      <4>1. /\ Tail(data) \in Seq(Published)
            /\ Len(Tail(data)) = Len(data) - 1
            /\ Len(data) \in Nat
        BY <3>1, HeadTailProperties
      <4>2. Len(data) # 1 => Len(Tail(data)) # 0
        BY <4>1
      <4>3. Tail(data) = << >> => Len(Tail(data)) = 0
        BY EmptySeq
      <4>. QED
        BY <4>1, <4>2, <4>3
    <3>. QED
      BY <1>4, <2>2, <3>2, <3>3 DEF FeedInv, recvCallback, Sockets
  <2>4. CASE reading = "snapshot"
    <3>1. /\ inbound_data_'["incremental"] = inbound_data_["incremental"]
          /\ DOMAIN inbound_data_' = Sockets
          /\ reading' \in {"none", "snapshot"}
      BY <1>4, <2>4 DEF recvCallback, FeedInv, Sockets
    <3>. QED
      BY <1>4, <2>2, <3>1 DEF FeedInv, recvCallback, Sockets
  <2>. QED
    BY <1>4, <2>3, <2>4 DEF FeedInv, recvCallback, Sockets
<1>5. CASE UNCHANGED vars
  BY <1>5 DEF vars, FeedInv
<1>. QED
  BY <1>1, <1>2, <1>3, <1>4, <1>5 DEF Next

LEMMA FeedInvAlways == ASSUME FeedParameters PROVE Spec => []FeedInv
<1>1. Init => FeedInv
  BY FeedInvInit
<1>2. FeedInv /\ [Next]_vars => FeedInv'
  BY FeedInvStep
<1> QED BY <1>1, <1>2, PTL DEF Spec

\* The variables keep their types; in particular the sockets that
\* startSnapshotSync() opens never exceed the descriptors of the process.
THEOREM TypeCorrect == ASSUME FeedParameters PROVE Spec => []TypeOK
<1>1. FeedInv => TypeOK
  BY DEF FeedInv, ConsumerInv, TypeOK
<1>. QED
  BY <1>1, FeedInvAlways, PTL

\* However datagrams are lost, duplicated or reordered, recvCallback() hands
\* the trading engine nothing, neither an update nor a snapshot: what the run
\* feed_recovery shows does not depend on its bounds.
THEOREM NothingEverDelivered == ASSUME FeedParameters PROVE Spec => []NothingDelivered
<1>1. FeedInv => NothingDelivered
  BY DEF FeedInv, ConsumerInv, NothingDelivered
<1>. QED
  BY <1>1, FeedInvAlways, PTL

-----------------------------------------------------------------------------
(* The numbers of the updates.                                             *)
(*                                                                         *)
(* A datagram carries a run of numbers that ends before the publisher's    *)
(* next one, so the next one cannot collide with it, and begins where the  *)
(* one before it ended.                                                    *)

\* Everything the publisher handed to the kernel.
Out == sent["incremental"] \cup refused

\* Datagram d carries the k numbers from m on.
Run(d, m, k) == DOMAIN d = 1 .. k /\ \A i \in 1 .. k : d[i].seq_num = m + i - 1

Runs ==
    \A d \in Out : \E m \in Nat \ {0}, k \in 1 .. MaxBatch :
        Run(d, m, k) /\ m + k <= next_inc_seq_num_

Apart ==
    \A d, e \in Out : \A i \in DOMAIN d, j \in DOMAIN e :
        d[i].seq_num = e[j].seq_num => d = e /\ i = j

Covered ==
    \A x \in 1 .. next_inc_seq_num_ - 1 :
        \E d \in Out : \E i \in DOMAIN d : d[i].seq_num = x

NumbersInv ==
    /\ Runs
    /\ Apart
    /\ Covered
    /\ sent["incremental"] \cap refused = {}

\* No datagram carries a number from the publisher's next one on.
LEMMA CarriedIsOld ==
    ASSUME FeedParameters, FeedInv, Runs, NEW d \in Out, NEW i \in DOMAIN d
    PROVE  /\ d[i].seq_num \in 1 .. next_inc_seq_num_ - 1
           /\ i \in 1 .. MaxBatch
<1>1. PICK m \in Nat \ {0}, k \in 1 .. MaxBatch :
         Run(d, m, k) /\ m + k <= next_inc_seq_num_
  BY DEF Runs
<1>2. /\ i \in 1 .. k
      /\ d[i].seq_num = m + i - 1
      /\ k \in Nat
      /\ next_inc_seq_num_ \in Nat
  BY <1>1 DEF FeedParameters, Run, FeedInv
<1> QED BY <1>1, <1>2 DEF FeedParameters

\* A batch gets the next numbers, whether it is sent or refused.
LEMMA publishNumbers ==
    ASSUME FeedParameters, FeedInv, NumbersInv, publish
    PROVE  NumbersInv'
<1> DEFINE n == next_inc_seq_num_
           inc == sent["incremental"]
           b(k) == [i \in 1 .. k |-> MDPMarketUpdate(n + i - 1, "ADD", n + i - 1)]
<1>1. PICK k \in 1 .. MaxBatch :
         /\ n' = n + k
         /\ \/ /\ sent' = [sent EXCEPT !["incremental"] = @ \cup {b(k)}]
               /\ refused' = refused
            \/ /\ refused' = refused \cup {b(k)}
               /\ sent' = sent
  BY DEF publish, MovedOn
<1>2. /\ n \in Nat \ {0}
      /\ k \in Nat \ {0}
      /\ n' \in Nat
      /\ DOMAIN sent = Sockets
  BY <1>1 DEF FeedParameters, FeedInv
<1> DEFINE batch == b(k)
<1>3. Run(batch, n, k)
  BY DEF Run, MDPMarketUpdate
<1>4. \/ inc' = inc \cup {batch} /\ refused' = refused
      \/ refused' = refused \cup {batch} /\ inc' = inc
  BY <1>1, <1>2 DEF Sockets
<1> HIDE DEF batch, inc
<1>5. \A d \in Out : \A i \in DOMAIN d : d[i].seq_num \in 1 .. n - 1
  BY CarriedIsOld DEF NumbersInv
<1>6. Out = inc \cup refused /\ Out' = inc' \cup refused'
  BY DEF Out, inc
<1>7. Out' = Out \cup {batch}
  BY <1>4, <1>6
<1>8. \A i \in DOMAIN batch : /\ i \in 1 .. k
                              /\ batch[i].seq_num = n + i - 1
                              /\ batch[i].seq_num \notin 1 .. n - 1
  BY <1>2, <1>3 DEF Run
<1>9. batch \notin Out
  <2>1. 1 \in DOMAIN batch
    BY <1>2, <1>3 DEF Run
  <2> QED BY <2>1, <1>5, <1>8
<1>10. Runs'
  <2> SUFFICES ASSUME NEW d \in Out'
               PROVE  \E m \in Nat \ {0}, l \in 1 .. MaxBatch :
                         Run(d, m, l) /\ m + l <= n'
    BY DEF Runs
  <2>1. CASE d = batch
    <3>1. n + k <= n'
      BY <1>1, <1>2
    <3> QED BY <2>1, <3>1, <1>1, <1>2, <1>3
  <2>2. CASE d \in Out
    <3>1. PICK m \in Nat \ {0}, l \in 1 .. MaxBatch : Run(d, m, l) /\ m + l <= n
      BY <2>2 DEF NumbersInv, Runs
    <3>2. m + l <= n'
      BY <3>1, <1>1, <1>2
    <3> QED BY <3>1, <3>2
  <2> QED BY <2>1, <2>2, <1>7
<1>11. Apart'
  <2> SUFFICES ASSUME NEW d \in Out', NEW e \in Out',
                      NEW i \in DOMAIN d, NEW j \in DOMAIN e,
                      d[i].seq_num = e[j].seq_num
               PROVE  d = e /\ i = j
    BY DEF Apart
  <2>1. CASE d \in Out /\ e \in Out
    BY <2>1 DEF NumbersInv, Apart
  <2>2. CASE d = batch /\ e = batch
    BY <2>2, <1>2, <1>8
  <2>3. CASE d = batch /\ e \in Out
    BY <2>3, <1>5, <1>8
  <2>4. CASE d \in Out /\ e = batch
    BY <2>4, <1>5, <1>8
  <2> QED BY <2>1, <2>2, <2>3, <2>4, <1>7
<1>12. Covered'
  <2> SUFFICES ASSUME NEW x \in 1 .. n' - 1
               PROVE  \E d \in Out' : \E i \in DOMAIN d : d[i].seq_num = x
    BY DEF Covered
  <2>1. CASE x < n
    <3>1. x \in 1 .. n - 1
      BY <2>1, <1>1, <1>2
    <3> QED BY <3>1, <1>7 DEF NumbersInv, Covered
  <2>2. CASE ~(x < n)
    <3>1. x - n + 1 \in 1 .. k /\ n + (x - n + 1) - 1 = x
      BY <2>2, <1>1, <1>2
    <3>2. x - n + 1 \in DOMAIN batch /\ batch[x - n + 1].seq_num = x
      BY <3>1, <1>3 DEF Run
    <3> QED BY <3>2, <1>7
  <2> QED BY <2>1, <2>2
<1>13. inc' \cap refused' = {}
  <2>1. inc \cap refused = {}
    BY DEF NumbersInv, inc
  <2> QED BY <2>1, <1>4, <1>6, <1>9
<1> QED BY <1>10, <1>11, <1>12, <1>13 DEF NumbersInv, inc

\* Every number the publisher has used is carried by exactly one datagram,
\* sent or refused, in exactly one place, and none is carried before it is
\* used, whatever the kernel refuses (MarketDataPublisher::run()).
THEOREM EveryNumberOnce == ASSUME FeedParameters PROVE Spec => []NumberedOnce
<1>1. Init => NumbersInv
  BY DEF Init, Sockets, NumbersInv, Out, Runs, Apart, Covered
<1>2. FeedInv /\ NumbersInv /\ [Next]_vars => NumbersInv'
  <2> SUFFICES ASSUME FeedInv, NumbersInv, [Next]_vars
               PROVE  NumbersInv'
    OBVIOUS
  <2>1. CASE publish
    BY <2>1, publishNumbers
  <2>2. CASE ~publish
    <3>1. UNCHANGED <<sent["incremental"], refused, next_inc_seq_num_>>
      BY <2>2 DEF Next, publishSnapshot, sendAndRecv, recvCallback, vars,
                  FeedInv, Sockets
    <3>2. Out' = Out
      BY <3>1 DEF Out
    <3> QED BY <3>1, <3>2 DEF NumbersInv, Runs, Apart, Covered
  <2> QED BY <2>1, <2>2
<1>3. FeedInv /\ NumbersInv => NumberedOnce
  <2> SUFFICES ASSUME FeedInv, NumbersInv PROVE NumberedOnce
    OBVIOUS
  <2> DEFINE places == {p \in Out \X (1 .. MaxBatch) : p[2] \in DOMAIN p[1]}
  <2>1. \A d \in Out : \A i \in DOMAIN d :
           <<d, i>> \in places /\ d[i].seq_num \in 1 .. next_inc_seq_num_ - 1
    BY CarriedIsOld DEF NumbersInv
  <2>2. \A p \in places : p[1] \in Out /\ p[2] \in DOMAIN p[1] /\ p = <<p[1], p[2]>>
    OBVIOUS
  <2>3. \A p, q \in places : p[1][p[2]].seq_num = q[1][q[2]].seq_num => p = q
    BY <2>2 DEF NumbersInv, Apart
  <2>4. \A p \in places : p[1][p[2]].seq_num \in 1 .. next_inc_seq_num_ - 1
    BY <2>1, <2>2
  <2>5. \A x \in 1 .. next_inc_seq_num_ - 1 :
           \E p \in places : p[1][p[2]].seq_num = x
    <3> SUFFICES ASSUME NEW x \in 1 .. next_inc_seq_num_ - 1
                 PROVE  \E p \in places : p[1][p[2]].seq_num = x
      OBVIOUS
    <3>1. PICK d \in Out : \E i \in DOMAIN d : d[i].seq_num = x
      BY DEF NumbersInv, Covered
    <3>2. PICK i \in DOMAIN d : d[i].seq_num = x
      BY <3>1
    <3>3. <<d, i>> \in places
      BY <2>1
    <3> HIDE DEF places
    <3>4. <<d, i>>[1] = d /\ <<d, i>>[2] = i
      OBVIOUS
    <3> QED BY <3>2, <3>3, <3>4
  <2> HIDE DEF places
  <2>6. places = {p \in (sent["incremental"] \cup refused) \X (1 .. MaxBatch) :
                     p[2] \in DOMAIN p[1]}
    BY DEF places, Out
  <2>7. ASSUME NEW x \in 1 .. next_inc_seq_num_ - 1
        PROVE  \E p \in places :
                  /\ p[1][p[2]].seq_num = x
                  /\ \A q \in places : q[1][q[2]].seq_num = x => q = p
    BY <2>3, <2>5
  <2> QED BY <2>4, <2>6, <2>7 DEF NumberedOnce, NumbersInv
<1> QED BY <1>1, <1>2, <1>3, FeedInvAlways, PTL DEF Spec
=============================================================================

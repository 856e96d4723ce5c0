--------------------------- MODULE CommonProofs ----------------------------
(***************************************************************************)
(* Proofs about the two containers of src/common: the ring buffer LFQueue, *)
(* for every size and every set of messages, and the preallocated blocks   *)
(* of MemPool, for every number of blocks.                                 *)
(***************************************************************************)
EXTENDS LFQueue, MemPool, TLAPS

-----------------------------------------------------------------------------
(* Arithmetic of the ring. *)

\* The index after i is the next slot, or slot 0 after the last one: the
\* modulo in updateNextToWriteTo() and updateReadIndex().
LEMMA NextIndexValue ==
    ASSUME NEW i \in Slots
    PROVE  NextIndex(i) = IF i = Size - 1 THEN 0 ELSE i + 1
<1>1. CASE i = Size - 1
  <2>1. NextIndex(i) = Size % Size
    BY <1>1, SizeAssumption DEF NextIndex
  <2>2. Size % Size = 0
    BY SizeAssumption
  <2> QED BY <1>1, <2>1, <2>2
<1>2. CASE i # Size - 1
  <2>1. i + 1 \in 0 .. Size - 1
    BY <1>2, SizeAssumption DEF Slots
  <2>2. (i + 1) % Size = i + 1
    BY <2>1, SizeAssumption
  <2> QED BY <1>2, <2>2 DEF NextIndex
<1> QED BY <1>1, <1>2

-----------------------------------------------------------------------------
(* Type correctness. *)

\* The indices stay inside the vector and store_size_ never underflows,
\* whatever the loop tests and however far the producer runs ahead.
THEOREM TypeCorrect == Spec => []TypeOK
<1>1. Init => TypeOK
  BY SizeAssumption DEF Init, TypeOK, Slots
<1>2. TypeOK /\ [Next]_vars => TypeOK'
  <2> SUFFICES ASSUME TypeOK, [Next]_vars
               PROVE  TypeOK'
    OBVIOUS
  <2> USE DEF TypeOK
  <2>n. \A i \in Slots : NextIndex(i) \in Slots
    BY NextIndexValue, SizeAssumption DEF Slots
  <2>1. CASE getNextToWriteTo
    BY <2>1 DEF getNextToWriteTo
  <2>2. ASSUME NEW m \in Msg, FinishWrite(m) PROVE TypeOK'
    BY <2>2 DEF FinishWrite
  <2>3. CASE PublishIndex
    BY <2>3, <2>n DEF PublishIndex
  <2>4. CASE IncrementSize
    BY <2>4 DEF IncrementSize
  <2>5. CASE getNextToRead
    BY <2>5 DEF getNextToRead
  <2>6. CASE CheckSize
    BY <2>6 DEF CheckSize
  <2>7. CASE Handle
    BY <2>7 DEF Handle
  <2>8. CASE AdvanceRead
    BY <2>8, <2>n DEF AdvanceRead
  <2>9. CASE DecrementSize
    BY <2>9 DEF DecrementSize
  <2>10. CASE UNCHANGED vars
    BY <2>10 DEF vars
  <2> QED
    BY <2>1, <2>2, <2>3, <2>4, <2>5, <2>6, <2>7, <2>8, <2>9, <2>10
    DEF Next, Produce, Consume
<1> QED BY <1>1, <1>2, PTL DEF Spec

-----------------------------------------------------------------------------
(* The assertion in updateReadIndex(). *)

\* What a consumer that tested size() knows until it decrements the counter.
ReadingCounted ==
    consumer \in {"reading", "handled", "advanced"} => store_size_ # 0

\* A loop that tests size() after getNextToRead() never trips
\* ASSERT(store_size_ != 0), even when the producer has published an index
\* that it has not counted yet.
THEOREM AssertNeverFires ==
    ASSUME ChecksSize
    PROVE  Spec => []AssertHolds
<1> DEFINE I == ReadingCounted /\ AssertHolds
<1>1. Init => I
  BY DEF Init, ReadingCounted, AssertHolds
<1>2. TypeOK /\ I /\ [Next]_vars => I'
  <2> SUFFICES ASSUME TypeOK, I, [Next]_vars
               PROVE  I'
    OBVIOUS
  <2> USE DEF TypeOK, ReadingCounted, AssertHolds
  <2>1. CASE getNextToWriteTo
    BY <2>1 DEF getNextToWriteTo
  <2>2. ASSUME NEW m \in Msg, FinishWrite(m) PROVE I'
    BY <2>2 DEF FinishWrite
  <2>3. CASE PublishIndex
    BY <2>3 DEF PublishIndex
  <2>4. CASE IncrementSize
    BY <2>4 DEF IncrementSize
  <2>5. CASE getNextToRead
    BY <2>5, ChecksSize DEF getNextToRead
  <2>6. CASE CheckSize
    BY <2>6 DEF CheckSize
  <2>7. CASE Handle
    BY <2>7 DEF Handle
  <2>8. CASE AdvanceRead
    BY <2>8 DEF AdvanceRead
  <2>9. CASE DecrementSize
    BY <2>9 DEF DecrementSize
  <2>10. CASE UNCHANGED vars
    BY <2>10 DEF vars
  <2> QED
    BY <2>1, <2>2, <2>3, <2>4, <2>5, <2>6, <2>7, <2>8, <2>9, <2>10
    DEF Next, Produce, Consume
<1> QED BY <1>1, <1>2, TypeCorrect, PTL DEF Spec

-----------------------------------------------------------------------------
(* The ring as a whole, when the consumer keeps up.  NoSharedSlot is not   *)
(* inductive: it needs that a consumer inside a slot has something to      *)
(* read, and that a producer inside a slot found room for it.              *)

\* A consumer inside a slot is inside an unread one.
ReadingUnread == consumer \in {"found", "reading", "handled"} => Unread # 0

\* A producer inside a slot saw room for one more message, and the consumer
\* can only have made more since.
WriteHasRoom == producer \in {"writing", "written"} => Unread < MaxBacklog

\* The slot about to be published holds a whole message.
WrittenWhole == producer = "written" => store_[next_write_index_] \in Msg

Ring ==
    /\ TypeOK
    /\ SizeCountsUnread
    /\ ReadingUnread
    /\ WriteHasRoom
    /\ WrittenWhole

\* Publishing makes one more message readable as long as there is room for
\* one more.
LEMMA UnreadAfterPublish ==
    ASSUME TypeOK, Unread < Size - 1,
           next_write_index_' = NextIndex(next_write_index_),
           next_read_index_' = next_read_index_
    PROVE  Unread' = Unread + 1
  BY NextIndexValue, SizeAssumption DEF TypeOK, Unread, Slots

\* Advancing the read index consumes one unread message.
LEMMA UnreadAfterAdvance ==
    ASSUME TypeOK, Unread # 0,
           next_read_index_' = NextIndex(next_read_index_),
           next_write_index_' = next_write_index_
    PROVE  Unread' = Unread - 1
  BY NextIndexValue, SizeAssumption DEF TypeOK, Unread, Slots

LEMMA UnreadType ==
    ASSUME TypeOK
    PROVE  /\ Unread \in 0 .. Size - 1
           /\ Unread = 0 <=> next_read_index_ = next_write_index_
  BY SizeAssumption DEF TypeOK, Unread, Slots

\* Ring is inductive: it holds in every state if the producer never gets
\* Size or more messages ahead.
THEOREM RingInvariant ==
    ASSUME MaxBacklog < Size
    PROVE  Spec => []Ring
<1>1. Init => Ring
  <2> SUFFICES ASSUME Init PROVE Ring
    OBVIOUS
  <2>1. TypeOK
    BY SizeAssumption DEF Init, TypeOK, Slots
  <2> QED
    BY <2>1 DEF Init, Ring, SizeCountsUnread, ReadingUnread, WriteHasRoom,
                WrittenWhole, Unread
<1>2. Ring /\ TypeOK' /\ [Next]_vars => Ring'
  <2> SUFFICES ASSUME Ring, TypeOK', [Next]_vars
               PROVE  Ring'
    OBVIOUS
  <2>t. /\ TypeOK
        /\ Unread \in 0 .. Size - 1
        /\ Unread = 0 <=> next_read_index_ = next_write_index_
        /\ store_size_ \in Nat
        /\ MaxBacklog \in Nat
        /\ Size \in Nat \ {0}
    BY UnreadType, SizeAssumption, BacklogAssumption DEF Ring, TypeOK
  <2>s. ASSUME UNCHANGED <<next_write_index_, next_read_index_>>
        PROVE  Unread' = Unread
    BY <2>s DEF Unread
  <2> USE DEF Ring, SizeCountsUnread, ReadingUnread, WriteHasRoom,
              WrittenWhole
  <2>1. CASE getNextToWriteTo
    BY <2>1, <2>s, <2>t DEF getNextToWriteTo
  <2>2. ASSUME NEW m \in Msg, FinishWrite(m) PROVE Ring'
    <3>1. WrittenWhole'
      BY <2>2, <2>t DEF FinishWrite, TypeOK
    <3> QED BY <3>1, <2>2, <2>s, <2>t DEF FinishWrite
  <2>3. CASE PublishIndex
    <3>1. Unread' = Unread + 1
      BY <2>3, <2>t, UnreadAfterPublish, MaxBacklog < Size DEF PublishIndex
    <3> QED BY <3>1, <2>3, <2>t DEF PublishIndex
  <2>4. CASE IncrementSize
    BY <2>4, <2>s, <2>t DEF IncrementSize
  <2>5. CASE getNextToRead
    BY <2>5, <2>s, <2>t DEF getNextToRead
  <2>6. CASE CheckSize
    BY <2>6, <2>s, <2>t DEF CheckSize
  <2>7. CASE Handle
    BY <2>7, <2>s, <2>t DEF Handle
  <2>8. CASE AdvanceRead
    <3>1. Unread' = Unread - 1
      BY <2>8, <2>t, UnreadAfterAdvance DEF AdvanceRead
    <3> QED BY <3>1, <2>8, <2>t DEF AdvanceRead
  <2>9. CASE DecrementSize
    BY <2>9, <2>s, <2>t DEF DecrementSize
  <2>10. CASE UNCHANGED vars
    BY <2>10, <2>s, <2>t DEF vars
  <2> QED
    BY <2>1, <2>2, <2>3, <2>4, <2>5, <2>6, <2>7, <2>8, <2>9, <2>10
    DEF Next, Produce, Consume
<1> QED BY <1>1, <1>2, TypeCorrect, PTL DEF Spec

\* store_size_ counts the unread messages, up to the one each thread has in
\* hand between its two counters.
THEOREM SizeIsExact ==
    ASSUME MaxBacklog < Size
    PROVE  Spec => []SizeCountsUnread
  BY RingInvariant, PTL DEF Ring

\* The producer never touches the slot the consumer is using.
THEOREM SlotsNeverShared ==
    ASSUME MaxBacklog < Size
    PROVE  Spec => []NoSharedSlot
<1>1. Ring => NoSharedSlot
  BY UnreadType DEF Ring, ReadingUnread, NoSharedSlot
<1> QED BY <1>1, RingInvariant, PTL

-----------------------------------------------------------------------------
(* The ring buffer implements the abstract queue. *)

\* What the slots of unread messages can hold.
Content == Msg \cup {NoMsg}

\* The slots of the unread messages lie in the vector, and none of them is
\* the one the producer writes to.
LEMMA UnreadSlots ==
    ASSUME TypeOK, NEW k \in 1 .. Unread
    PROVE  /\ SlotOf(k - 1) \in Slots
           /\ SlotOf(k - 1) # next_write_index_
  BY SizeAssumption DEF TypeOK, Unread, Slots, SlotOf

LEMMA ContentsType ==
    ASSUME TypeOK
    PROVE  /\ Contents \in Seq(Content)
           /\ Len(Contents) = Unread
           /\ Unread \in Nat
           /\ \A k \in 1 .. Unread : Contents[k] = store_[SlotOf(k - 1)]
<1>1. Unread \in Nat
  BY UnreadType, SizeAssumption
<1>2. \A k \in 1 .. Unread : store_[SlotOf(k - 1)] \in Content
  BY UnreadSlots DEF TypeOK, Content
<1> QED BY <1>1, <1>2 DEF Contents

\* Two descriptions of a sequence that agree in length and in every element.
LEMMA SameSequence ==
    ASSUME NEW S, NEW s \in Seq(S), NEW t \in Seq(S), Len(s) = Len(t),
           \A i \in 1 .. Len(s) : s[i] = t[i]
    PROVE  s = t
  OBVIOUS

\* Writing into the slot that is not published yet changes no unread message.
LEMMA WritePreservesContents ==
    ASSUME TypeOK, TypeOK', NEW x,
           store_' = [store_ EXCEPT ![next_write_index_] = x],
           UNCHANGED <<next_write_index_, next_read_index_>>
    PROVE  Contents' = Contents
<1>1. Unread' = Unread
  BY DEF Unread
<1>2. \A k \in 1 .. Unread : store_'[SlotOf(k - 1)'] = store_[SlotOf(k - 1)]
  BY UnreadSlots DEF TypeOK, SlotOf
<1> QED BY <1>1, <1>2 DEF Contents

\* Publishing the index appends the written message.
LEMMA PublishAppends ==
    ASSUME TypeOK, TypeOK', Unread < Size - 1,
           next_write_index_' = NextIndex(next_write_index_),
           UNCHANGED <<store_, next_read_index_>>
    PROVE  Contents' = Append(Contents, store_[next_write_index_])
<1> DEFINE m == store_[next_write_index_]
<1>1. Unread' = Unread + 1
  BY UnreadAfterPublish
<1>2. m \in Content
  BY DEF TypeOK, Content
<1>3. /\ Contents \in Seq(Content)
      /\ Len(Contents) = Unread
      /\ Unread \in Nat
      /\ \A k \in 1 .. Unread : Contents[k] = store_[SlotOf(k - 1)]
  BY ContentsType
<1>4. /\ Contents' \in Seq(Content)
      /\ Len(Contents') = Unread + 1
      /\ \A k \in 1 .. Unread + 1 : Contents'[k] = store_[SlotOf(k - 1)]
  <2>1. \A k \in 1 .. Unread + 1 : store_[SlotOf(k - 1)] \in Content
    BY <1>1, UnreadType, SizeAssumption
    DEF TypeOK, Content, SlotOf, Slots
  <2>2. Contents' = [k \in 1 .. Unread + 1 |-> store_[SlotOf(k - 1)]]
    BY <1>1 DEF Contents, SlotOf
  <2> QED BY <2>1, <2>2, <1>3
<1>5. SlotOf((Unread + 1) - 1) = next_write_index_
  BY SizeAssumption DEF TypeOK, Unread, Slots, SlotOf
<1>6. /\ Append(Contents, m) \in Seq(Content)
      /\ Len(Append(Contents, m)) = Unread + 1
      /\ \A k \in 1 .. Unread : Append(Contents, m)[k] = Contents[k]
      /\ Append(Contents, m)[Unread + 1] = m
  BY <1>2, <1>3
<1>7. \A k \in 1 .. Unread + 1 : Contents'[k] = Append(Contents, m)[k]
  <2> SUFFICES ASSUME NEW k \in 1 .. Unread + 1
               PROVE  Contents'[k] = Append(Contents, m)[k]
    OBVIOUS
  <2>1. CASE k = Unread + 1
    BY <2>1, <1>4, <1>5, <1>6
  <2>2. CASE k # Unread + 1
    BY <2>2, <1>3, <1>4, <1>6
  <2> QED BY <2>1, <2>2
<1> HIDE DEF m
<1>8. Contents' = Append(Contents, m)
  BY <1>4, <1>6, <1>7, SameSequence
<1> QED BY <1>8 DEF m

\* Advancing the read index drops the oldest message.
LEMMA AdvanceDrops ==
    ASSUME TypeOK, TypeOK', Unread # 0,
           next_read_index_' = NextIndex(next_read_index_),
           UNCHANGED <<store_, next_write_index_>>
    PROVE  Contents' = Tail(Contents)
<1>1. Unread' = Unread - 1
  BY UnreadAfterAdvance
<1>2. /\ Contents \in Seq(Content)
      /\ Len(Contents) = Unread
      /\ Unread \in Nat
      /\ \A k \in 1 .. Unread : Contents[k] = store_[SlotOf(k - 1)]
  BY ContentsType
<1>3. \A k \in 1 .. Unread - 1 : SlotOf(k - 1)' = SlotOf((k + 1) - 1)
  <2> SUFFICES ASSUME NEW k \in 1 .. Unread - 1
               PROVE  SlotOf(k - 1)' = SlotOf((k + 1) - 1)
    OBVIOUS
  <2>1. next_read_index_' = IF next_read_index_ = Size - 1 THEN 0
                            ELSE next_read_index_ + 1
    BY NextIndexValue DEF TypeOK
  <2> QED BY <2>1, SizeAssumption, <1>2, UnreadType
          DEF TypeOK, SlotOf, Slots
<1>4. Contents' = [k \in 1 .. Unread - 1 |-> Contents[k + 1]]
  <2>1. \A k \in 1 .. Unread - 1 : store_'[SlotOf(k - 1)'] = Contents[k + 1]
    BY <1>2, <1>3
  <2> QED BY <1>1, <2>1 DEF Contents
<1>5. /\ Contents' \in Seq(Content)
      /\ Len(Contents') = Unread - 1
      /\ \A k \in 1 .. Unread - 1 : Contents'[k] = Contents[k + 1]
  <2>1. \A k \in 1 .. Unread - 1 : Contents[k + 1] \in Content
    BY <1>2
  <2> QED BY <1>2, <1>4, <2>1
<1>6. /\ Tail(Contents) \in Seq(Content)
      /\ Len(Tail(Contents)) = Unread - 1
      /\ \A k \in 1 .. Unread - 1 : Tail(Contents)[k] = Contents[k + 1]
  BY <1>2
<1> QED BY <1>5, <1>6, SameSequence

\* Taking the head of a queue commutes with adding at its end.
LEMMA TailOfAppend ==
    ASSUME NEW s \in Seq(Content), s # << >>, NEW m \in Content
    PROVE  Tail(Append(s, m)) = Append(Tail(s), m)
<1> DEFINE t == Tail(Append(s, m))
           u == Append(Tail(s), m)
<1>1. Len(s) \in Nat \ {0}
  OBVIOUS
<1>2. /\ t \in Seq(Content)
      /\ u \in Seq(Content)
      /\ Len(t) = Len(s)
      /\ Len(u) = Len(s)
  BY <1>1
<1>3. \A i \in 1 .. Len(s) : t[i] = u[i]
  BY <1>1
<1> HIDE DEF t, u
<1>4. t = u
  BY <1>2, <1>3, SameSequence
<1> QED BY <1>4 DEF t, u

\* Every message that is published is handed to the consumer exactly once,
\* whole and in order of publication: Spec implements FIFOQueue under the
\* mapping of Waiting and handled.
THEOREM RingImplementsFIFO ==
    ASSUME MaxBacklog < Size
    PROVE  Spec => ImplementsFIFO
<1>1. Init => FIFO!Init
  <2> SUFFICES ASSUME Init PROVE FIFO!Init
    OBVIOUS
  <2>1. Unread = 0
    BY DEF Init, Unread
  <2>2. Contents = << >>
    BY <2>1 DEF Contents
  <2> QED BY <2>2 DEF Init, FIFO!Init, Waiting
<1>2. Ring /\ Ring' /\ [Next]_vars => [FIFO!Next]_(FIFO!vars)
  <2> SUFFICES ASSUME Ring, Ring', [Next]_vars
               PROVE  [FIFO!Next]_(FIFO!vars)
    OBVIOUS
  <2>t. /\ TypeOK
        /\ TypeOK'
    BY DEF Ring
  <2>c. /\ Contents \in Seq(Content)
        /\ Len(Contents) = Unread
        /\ \A k \in 1 .. Unread : Contents[k] = store_[SlotOf(k - 1)]
        /\ Unread \in 0 .. Size - 1
    BY <2>t, ContentsType, UnreadType
  <2>s. ASSUME UNCHANGED <<store_, next_write_index_, next_read_index_>>
        PROVE  Contents' = Contents
    BY <2>s DEF Contents, SlotOf, Unread
  <2> USE DEF FIFO!vars, Waiting
  <2>1. CASE getNextToWriteTo
    BY <2>1, <2>t, WritePreservesContents DEF getNextToWriteTo
  <2>2. ASSUME NEW m \in Msg, FinishWrite(m)
        PROVE  [FIFO!Next]_(FIFO!vars)
    BY <2>2, <2>t, WritePreservesContents DEF FinishWrite
  <2>3. CASE PublishIndex
    <3> DEFINE m == store_[next_write_index_]
    <3>1. Contents' = Append(Contents, m)
      <4>1. Unread < Size - 1
        BY <2>3, <2>c, SizeAssumption, BacklogAssumption, MaxBacklog < Size
        DEF PublishIndex, Ring, WriteHasRoom
      <4> QED BY <4>1, <2>3, <2>t, PublishAppends DEF PublishIndex
    <3>2. m \in Msg
      BY <2>3 DEF PublishIndex, Ring, WrittenWhole
    <3> HIDE DEF m
    <3>3. Waiting' = Append(Waiting, m)
      <4>1. CASE consumer = "handled"
        <5>1. Contents # << >>
          BY <4>1, <2>c DEF Ring, ReadingUnread
        <5>2. Tail(Append(Contents, m)) = Append(Tail(Contents), m)
          BY <5>1, <3>2, <2>c, TailOfAppend DEF Content
        <5> QED BY <4>1, <5>2, <3>1, <2>3 DEF PublishIndex
      <4>2. CASE consumer # "handled"
        BY <4>2, <3>1, <2>3 DEF PublishIndex
      <4> QED BY <4>1, <4>2
    <3>4. handled' = handled
      BY <2>3 DEF PublishIndex
    <3> QED BY <3>2, <3>3, <3>4 DEF FIFO!Next, FIFO!Enqueue
  <2>4. CASE IncrementSize
    BY <2>4, <2>s DEF IncrementSize
  <2>5. CASE getNextToRead
    BY <2>5, <2>s DEF getNextToRead
  <2>6. CASE CheckSize
    BY <2>6, <2>s DEF CheckSize
  <2>7. CASE Handle
    <3>1. Contents # << >>
      BY <2>7, <2>c DEF Handle, Ring, ReadingUnread
    <3>2. Head(Contents) = store_[next_read_index_]
      <4>1. Unread # 0
        BY <2>7 DEF Handle, Ring, ReadingUnread
      <4>2. SlotOf(1 - 1) = next_read_index_
        BY <2>t, SizeAssumption DEF SlotOf, TypeOK, Slots
      <4> QED BY <4>1, <4>2, <2>c, <3>1
    <3>3. /\ Waiting = Contents
          /\ Waiting' = Tail(Contents)
      BY <2>7, <2>s DEF Handle
    <3>4. handled' = store_[next_read_index_]
      BY <2>7 DEF Handle
    <3> QED BY <3>1, <3>2, <3>3, <3>4 DEF FIFO!Next, FIFO!Dequeue
  <2>8. CASE AdvanceRead
    <3>1. Contents' = Tail(Contents)
      BY <2>8, <2>t, AdvanceDrops DEF AdvanceRead, Ring, ReadingUnread
    <3> QED BY <3>1, <2>8 DEF AdvanceRead
  <2>9. CASE DecrementSize
    BY <2>9, <2>s DEF DecrementSize
  <2>10. CASE UNCHANGED vars
    BY <2>10, <2>s DEF vars
  <2> QED
    BY <2>1, <2>2, <2>3, <2>4, <2>5, <2>6, <2>7, <2>8, <2>9, <2>10
    DEF Next, Produce, Consume
<1> QED BY <1>1, <1>2, RingInvariant, PTL DEF Spec, ImplementsFIFO, FIFO!Spec

-----------------------------------------------------------------------------
(* MemPool. *)

\* Every block from next_free_index_ on has never been handed out.
FreshFromIndex ==
    \A b \in Blocks : b >= pool.next_free_index_ => pool.is_free_[b]

\* HeldInUse and AssertsHold rest on FreshFromIndex: the index only grows.
PoolInv ==
    /\ PoolTypeOK
    /\ HeldInUse
    /\ AssertsHold
    /\ FreshFromIndex

\* With every later block free, the search of updateNextFreeIndex() stops at
\* the next index, which is past the end for the last block.
LEMMA SearchStopsAtNext ==
    ASSUME NEW i \in Blocks, NEW free \in [Blocks -> BOOLEAN], ~free[i],
           \A b \in Blocks : b > i => free[b]
    PROVE  updateNextFreeIndex(free, i) = i + 1
<1> DEFINE candidates == {j \in i .. NumElems - 1 : free[j]}
<1>1. candidates = {j \in Blocks : j > i}
  BY NumElemsAssumption DEF Blocks
<1>2. CASE i = NumElems - 1
  BY <1>1, <1>2, NumElemsAssumption DEF Blocks, updateNextFreeIndex, PastEnd
<1>3. CASE i # NumElems - 1
  <2>1. /\ i + 1 \in candidates
        /\ \A k \in candidates : i + 1 <= k
    BY <1>1, <1>3, NumElemsAssumption DEF Blocks
  <2>2. \A j \in candidates : (\A k \in candidates : j <= k) => j = i + 1
    BY <2>1, <1>1, NumElemsAssumption DEF Blocks
  <2> HIDE DEF candidates
  <2>3. (CHOOSE j \in candidates : \A k \in candidates : j <= k) = i + 1
    BY <2>1, <2>2
  <2>4. candidates # {}
    BY <2>1
  <2> QED BY <2>3, <2>4 DEF updateNextFreeIndex, candidates
<1> QED BY <1>2, <1>3

\* What allocate() does to a pool whose blocks are free from the index on.
LEMMA TakenPool ==
    ASSUME PoolTypeOK, FreshFromIndex, pool.next_free_index_ # PastEnd
    PROVE  Taken(pool) =
             [is_free_ |-> [pool.is_free_ EXCEPT
                              ![pool.next_free_index_] = FALSE],
              next_free_index_ |-> pool.next_free_index_ + 1]
<1> DEFINE i == pool.next_free_index_
           free == [pool.is_free_ EXCEPT ![i] = FALSE]
<1>1. i \in Blocks /\ pool.is_free_ \in [Blocks -> BOOLEAN]
  BY NumElemsAssumption DEF PoolTypeOK, Blocks, PastEnd
<1>2. free \in [Blocks -> BOOLEAN] /\ ~free[i]
  BY <1>1
<1>3. \A b \in Blocks : b > i => free[b]
  BY <1>1 DEF FreshFromIndex, Blocks
<1>4. updateNextFreeIndex(free, i) = i + 1
  <2> HIDE DEF i, free
  <2> QED BY <1>1, <1>2, <1>3, SearchStopsAtNext
<1> QED BY <1>4 DEF Taken

\* PoolInv is inductive.
THEOREM PoolInvariant == PoolSpec => []PoolInv
<1>1. PoolInit => PoolInv
  BY NumElemsAssumption
  DEF PoolInit, EmptyPool, PoolInv, PoolTypeOK, HeldInUse, AssertsHold,
      FreshFromIndex, Blocks
<1>2. PoolInv /\ [PoolNext]_poolVars => PoolInv'
  <2> SUFFICES ASSUME PoolInv, [PoolNext]_poolVars
               PROVE  PoolInv'
    OBVIOUS
  <2> USE DEF PoolInv, PoolTypeOK, HeldInUse, AssertsHold, FreshFromIndex
  <2>1. CASE allocate
    <3>1. /\ pool.next_free_index_ \in Blocks
          /\ pool.is_free_[pool.next_free_index_]
      BY <2>1, NumElemsAssumption DEF allocate, Blocks, PastEnd
    <3>2. pool' = [is_free_ |-> [pool.is_free_ EXCEPT
                                   ![pool.next_free_index_] = FALSE],
                   next_free_index_ |-> pool.next_free_index_ + 1]
      BY <2>1, <3>1, TakenPool DEF allocate
    <3>3. /\ held' = held \cup {pool.next_free_index_}
          /\ process' \in {"running", "terminated"}
          /\ process' = "terminated" => pool'.next_free_index_ = PastEnd
      BY <2>1, <3>1 DEF allocate
    <3>4. PoolTypeOK'
      BY <3>1, <3>2, <3>3, NumElemsAssumption DEF Blocks
    <3>5. HeldInUse'
      BY <3>1, <3>2, <3>3
    <3>6. AssertsHold' /\ FreshFromIndex'
      BY <3>1, <3>2, <3>3, NumElemsAssumption DEF Blocks
    <3> QED BY <3>4, <3>5, <3>6
  <2>2. CASE allocatePastEnd
    BY <2>2 DEF allocatePastEnd
  <2>3. ASSUME NEW b \in held, deallocate(b)
        PROVE  PoolInv'
    <3>1. b \in Blocks /\ ~pool.is_free_[b]
      BY <2>3
    <3>2. /\ pool' = [pool EXCEPT !.is_free_ = [@ EXCEPT ![b] = TRUE]]
          /\ held' = held \ {b}
          /\ UNCHANGED process
      BY <2>3, <3>1 DEF deallocate, Returned
    <3> QED BY <3>1, <3>2
  <2>4. CASE UNCHANGED poolVars
    BY <2>4 DEF poolVars
  <2> QED BY <2>1, <2>2, <2>3, <2>4 DEF PoolNext
<1> QED BY <1>1, <1>2, PTL DEF PoolSpec

\* No block is handed out twice and none is lost.
THEOREM NoBlockShared == PoolSpec => []HeldInUse
  BY PoolInvariant, PTL DEF PoolInv

\* The assertions of the pool never fire while its index is inside the vector.
THEOREM AssertionsNeverFire == PoolSpec => []AssertsHold
  BY PoolInvariant, PTL DEF PoolInv
=============================================================================

---------------------- MODULE SnapshotSynthesizerProofs ----------------------
(***************************************************************************)
(* Proofs about SnapshotSynthesizer: as long as every update names its     *)
(* order by the id of the book, it lives until its pool has given out its  *)
(* last block (SurvivesUntilFull), and every snapshot cycle is the         *)
(* exchange's book after the update whose number it carries                *)
(* (SnapshotIsBook).                                                       *)
(***************************************************************************)
EXTENDS SnapshotSynthesizer, FiniteSetTheorems, SequenceTheorems,
        WellFoundedInduction, TLAPS

-----------------------------------------------------------------------------
(* The updates.                                                            *)
(*                                                                         *)
(* What is said of the first k updates stays true as more are produced,    *)
(* and no two of them add the same order.                                  *)

AnUpdate ==
    [type_ : {"ADD", "MODIFY", "CANCEL"}, tickerId_ : Tickers, orderId_ : Nat,
     marketId : Nat, side_ : BookSides, terms : Terms \cup {Null}]

\* What the book that produced update m knew.
Produced(m) ==
    LET u == log[m]
    IN  IF u.type_ = "ADD"
        THEN /\ u.marketId = Cardinality(AddsIn(m - 1, {u.tickerId_})) + 1
             /\ u.terms \in Terms
        ELSE /\ \E n \in LiveAfter(m - 1) :
                   SameOrder(m, n) /\ u.side_ = log[n].side_
             /\ u.type_ = "MODIFY" => u.terms \in Terms

LogInv ==
    /\ log \in Seq(AnUpdate)
    /\ \A m \in 1 .. Len(log) : Produced(m)

\* Update m is the last of the first k that is about the order of update n.
Latest(m, n, k) ==
    m \in n .. k /\ SameOrder(m, n) /\ \A j \in m + 1 .. k : ~SameOrder(j, n)

\* A non-empty set of natural numbers has a least member.
LEMMA LeastMember ==
  ASSUME NEW T, T \subseteq Nat, T # {}
  PROVE  \E m \in T : \A k \in T : m <= k
<1> DEFINE R == {ss \in Nat \X Nat : ss[1] < ss[2]}
<1>1. IsWellFoundedOn(R, Nat)
  BY NatLessThanWellFounded, Zenon DEF OpToRel
<1> HIDE DEF R
<1>2. \E m \in T : \A k \in T : ~(<<k, m>> \in R)
  BY <1>1, WFMin
<1>3. \A k, m \in Nat : ~(<<k, m>> \in R) => m <= k
  BY DEF R
<1> QED BY <1>2, <1>3

\* LatestOf() is that update, and there is one for each of the first k.
LEMMA LatestUnique ==
  ASSUME NEW k \in Nat, NEW n \in 1 .. k, NEW m, Latest(m, n, k)
  PROVE  LatestOf(n, k) = m
<1>1. \A j : Latest(j, n, k) => j = m
  <2> SUFFICES ASSUME NEW j, Latest(j, n, k) PROVE j = m
    OBVIOUS
  <2>1. j \in n .. k /\ m \in n .. k /\ SameOrder(j, n) /\ SameOrder(m, n)
    BY DEF Latest
  <2>2. ~(j < m)
    BY <2>1 DEF Latest
  <2>3. ~(m < j)
    BY <2>1 DEF Latest
  <2> QED BY <2>1, <2>2, <2>3
<1>2. LatestOf(n, k) = CHOOSE j \in n .. k : Latest(j, n, k)
  BY DEF LatestOf, Latest
<1>3. m \in n .. k
  BY DEF Latest
<1> QED BY <1>1, <1>2, <1>3

LEMMA LatestExists ==
  ASSUME NEW k \in Nat, NEW n \in 1 .. k
  PROVE  \E m : Latest(m, n, k)
<1> DEFINE ago == {d \in 0 .. k - n : SameOrder(k - d, n)}
<1>1. k - n \in ago
  <2>1. k - (k - n) = n /\ k - n \in 0 .. k - n
    OBVIOUS
  <2> QED BY <2>1 DEF SameOrder
<1>2. PICK d \in ago : \A e \in ago : d <= e
  <2>1. ago \subseteq Nat /\ ago # {}
    BY <1>1
  <2> HIDE DEF ago
  <2> QED BY <2>1, LeastMember
<1>3. k - d \in n .. k /\ SameOrder(k - d, n)
  BY <1>2
<1>4. ASSUME NEW j \in (k - d) + 1 .. k PROVE ~SameOrder(j, n)
  <2>1. k - j \in 0 .. k - n /\ k - j < d /\ k - (k - j) = j
    BY <1>2
  <2>2. d \in 0 .. k - n /\ ~(d <= k - j)
    BY <2>1, <1>2
  <2> HIDE DEF ago
  <2>3. k - j \notin ago
    BY <2>2, <1>2
  <2> QED BY <2>1, <2>3 DEF ago
<1> QED BY <1>3, <1>4 DEF Latest

LEMMA AddsFinite ==
  ASSUME NEW k \in Nat, NEW tickers
  PROVE  /\ IsFiniteSet(AddsIn(k, tickers))
         /\ Cardinality(AddsIn(k, tickers)) \in Nat
<1>1. IsFiniteSet(1 .. k)
  BY FS_Interval
<1>2. AddsIn(k, tickers) \subseteq 1 .. k
  BY DEF AddsIn
<1> QED BY <1>1, <1>2, FS_Subset, FS_CardinalityType

\* An update that is not an ADD adds nothing, an ADD adds itself.
LEMMA AddsStep ==
  ASSUME NEW k \in Nat, NEW tickers
  PROVE  AddsIn(k + 1, tickers) =
            IF log[k + 1].type_ = "ADD" /\ log[k + 1].tickerId_ \in tickers
            THEN AddsIn(k, tickers) \cup {k + 1} ELSE AddsIn(k, tickers)
<1>1. 1 .. k + 1 = 1 .. k \cup {k + 1}
  OBVIOUS
<1> QED BY <1>1 DEF AddsIn

LEMMA AddsCount ==
  ASSUME NEW k \in Nat, NEW tickers
  PROVE  Cardinality(AddsIn(k + 1, tickers)) =
            IF log[k + 1].type_ = "ADD" /\ log[k + 1].tickerId_ \in tickers
            THEN Cardinality(AddsIn(k, tickers)) + 1
            ELSE Cardinality(AddsIn(k, tickers))
<1>1. k + 1 \notin AddsIn(k, tickers)
  BY DEF AddsIn
<1>2. /\ IsFiniteSet(AddsIn(k, tickers))
      /\ Cardinality(AddsIn(k, tickers)) \in Nat
  BY AddsFinite
<1>3. Cardinality(AddsIn(k, tickers) \cup {k + 1})
         = Cardinality(AddsIn(k, tickers)) + 1
  BY <1>1, <1>2, FS_AddElement
<1> QED BY <1>3, AddsStep

\* Two ADDs never number the same order.
LEMMA AddsDiffer ==
  ASSUME LogInv, NEW m \in 1 .. Len(log), NEW n \in 1 .. Len(log), m < n,
         log[m].type_ = "ADD", log[n].type_ = "ADD"
  PROVE  ~SameOrder(m, n)
<1> SUFFICES ASSUME SameOrder(m, n) PROVE FALSE
  OBVIOUS
<1> DEFINE t == log[n].tickerId_
           before == AddsIn(m - 1, {t})
           later == AddsIn(n - 1, {t})
<1>1. m \in Nat /\ n \in Nat /\ m - 1 \in Nat /\ n - 1 \in Nat
  OBVIOUS
<1>2. log[m].tickerId_ = t /\ log[m].marketId = log[n].marketId
  BY DEF SameOrder
<1>3. /\ log[m].marketId = Cardinality(before) + 1
      /\ log[n].marketId = Cardinality(later) + 1
  BY <1>2 DEF LogInv, Produced
<1>4. before \in SUBSET later /\ m \in later /\ m \notin before
  <2>1. 1 .. m - 1 \subseteq 1 .. n - 1 /\ m \in 1 .. n - 1 /\ m \notin 1 .. m - 1
    BY <1>1
  <2> QED BY <2>1, <1>2 DEF AddsIn
<1>5. /\ IsFiniteSet(later)
      /\ Cardinality(before) \in Nat
      /\ Cardinality(later) \in Nat
  BY <1>1, AddsFinite
<1> HIDE DEF before, later
<1>6. /\ Cardinality(before) <= Cardinality(later)
      /\ Cardinality(before) # Cardinality(later)
  BY <1>4, <1>5, FS_Subset
<1>7. \A a, b \in Nat : a + 1 = b + 1 => a = b
  OBVIOUS
<1> QED BY <1>2, <1>3, <1>5, <1>6, <1>7, Zenon

\* What is said of the first k updates depends on these alone.
LEMMA Stable ==
  ASSUME NEW k \in Nat, \A n \in 1 .. k : log'[n] = log[n]
  PROVE  /\ \A m, n \in 1 .. k : SameOrder(m, n)' <=> SameOrder(m, n)
         /\ LiveAfter(k)' = LiveAfter(k)
         /\ \A tickers : AddsIn(k, tickers)' = AddsIn(k, tickers)
         /\ \A n \in 1 .. k : LatestOf(n, k)' = LatestOf(n, k)
         /\ Mislabelled(k)' <=> Mislabelled(k)
<1>1. \A m, n \in 1 .. k : SameOrder(m, n)' <=> SameOrder(m, n)
  BY DEF SameOrder
<1>2. LiveAfter(k)' = LiveAfter(k)
  <2>1. \A n \in 1 .. k : \A m \in n + 1 .. k : m \in 1 .. k
    OBVIOUS
  <2> QED BY <1>1, <2>1 DEF LiveAfter
<1>3. \A tickers : AddsIn(k, tickers)' = AddsIn(k, tickers)
  BY DEF AddsIn
<1>4. ASSUME NEW n \in 1 .. k PROVE LatestOf(n, k)' = LatestOf(n, k)
  <2>1. PICK m : Latest(m, n, k)
    BY LatestExists
  <2>2. /\ m \in n .. k /\ m \in 1 .. k /\ SameOrder(m, n)
        /\ \A j \in m + 1 .. k : j \in 1 .. k /\ ~SameOrder(j, n)
    BY <2>1 DEF Latest
  <2>3. \A j : Latest(j, n, k)' <=> Latest(j, n, k)
    <3>1. \A j \in n .. k : /\ j \in 1 .. k
                           /\ \A i \in j + 1 .. k : i \in 1 .. k
      OBVIOUS
    <3> QED BY <1>1, <3>1 DEF Latest
  <2>4. \A j : Latest(j, n, k)' => j = m
    <3> SUFFICES ASSUME NEW j, Latest(j, n, k) PROVE j = m
      BY <2>3
    <3> QED BY <2>1, LatestUnique
  <2>5. LatestOf(n, k)' = CHOOSE j \in n .. k : Latest(j, n, k)'
    BY DEF LatestOf, Latest
  <2>6. LatestOf(n, k)' = m
    BY <2>1, <2>2, <2>3, <2>4, <2>5
  <2>7. LatestOf(n, k) = m
    BY <2>1, LatestUnique
  <2> QED BY <2>6, <2>7
<1>5. Mislabelled(k)' <=> Mislabelled(k)
  BY DEF Mislabelled
<1> QED BY <1>1, <1>2, <1>3, <1>4, <1>5

LEMMA Grown ==
  ASSUME log \in Seq(AnUpdate), NEW u \in AnUpdate, log' = Append(log, u)
  PROVE  /\ log' \in Seq(AnUpdate)
         /\ Len(log') = Len(log) + 1
         /\ Len(log) \in Nat
         /\ log'[Len(log) + 1] = u
         /\ \A k \in 0 .. Len(log) : \A n \in 1 .. k : log'[n] = log[n]
OBVIOUS

LEMMA UpdateType ==
  ASSUME LogInv, NEW m \in 1 .. Len(log)
  PROVE  /\ log[m] \in AnUpdate
         /\ log[m].tickerId_ \in Tickers
         /\ log[m].orderId_ \in Nat
         /\ log[m].marketId \in Nat
         /\ log[m].side_ \in BookSides
         /\ log[m].type_ \in {"ADD", "MODIFY", "CANCEL"}
<1>1. log[m] \in AnUpdate
  BY DEF LogInv
<1> QED BY <1>1 DEF AnUpdate

\* A book that produces an update keeps the invariant of all updates.
LEMMA ProducedKeeps ==
  ASSUME LogInv, NEW u \in AnUpdate, log' = Append(log, u),
         \/ /\ u.type_ = "ADD"
            /\ u.marketId =
                  Cardinality(AddsIn(Len(log), {u.tickerId_})) + 1
            /\ u.terms \in Terms
         \/ /\ u.type_ # "ADD"
            /\ \E n \in LiveAfter(Len(log)) :
                  /\ u.tickerId_ = log[n].tickerId_
                  /\ u.marketId = log[n].marketId
                  /\ u.side_ = log[n].side_
            /\ u.type_ = "MODIFY" => u.terms \in Terms
  PROVE  LogInv'
<1>1. /\ log' \in Seq(AnUpdate)
      /\ Len(log') = Len(log) + 1
      /\ Len(log) \in Nat
      /\ log'[Len(log) + 1] = u
      /\ \A k \in 0 .. Len(log) : \A n \in 1 .. k : log'[n] = log[n]
  BY Grown DEF LogInv
<1>2. ASSUME NEW m \in 1 .. Len(log) PROVE Produced(m)'
  <2>1. /\ m - 1 \in Nat /\ m - 1 \in 0 .. Len(log)
        /\ log'[m] = log[m]
    BY <1>1
  <2>2. /\ LiveAfter(m - 1)' = LiveAfter(m - 1)
        /\ \A tickers : AddsIn(m - 1, tickers)' = AddsIn(m - 1, tickers)
    BY <1>1, <2>1, Stable
  <2>3. \A n \in LiveAfter(m - 1) : log'[n] = log[n]
    BY <1>1, <2>1 DEF LiveAfter
  <2>4. \A n \in LiveAfter(m - 1) : SameOrder(m, n) => SameOrder(m, n)'
    BY <2>1, <2>3 DEF SameOrder
  <2>5. Produced(m)
    BY DEF LogInv
  <2> QED BY <2>1, <2>2, <2>3, <2>4, <2>5 DEF Produced
<1>3. ASSUME NEW m \in Nat, m = Len(log) + 1 PROVE Produced(m)'
  <2>1. /\ m - 1 \in Nat /\ m - 1 = Len(log) /\ m - 1 \in 0 .. Len(log)
        /\ log'[m] = u
    BY <1>1, <1>3
  <2>2. /\ LiveAfter(m - 1)' = LiveAfter(m - 1)
        /\ \A tickers : AddsIn(m - 1, tickers)' = AddsIn(m - 1, tickers)
    BY <1>1, <2>1, Stable
  <2>3. \A n \in LiveAfter(m - 1) : log'[n] = log[n]
    BY <1>1, <2>1 DEF LiveAfter
  <2>4. \A n \in LiveAfter(m - 1) :
           /\ u.tickerId_ = log[n].tickerId_
           /\ u.marketId = log[n].marketId
           => SameOrder(m, n)'
    BY <2>1, <2>3 DEF SameOrder
  <2>5. CASE u.type_ = "ADD"
    BY <2>1, <2>2, <2>5 DEF Produced
  <2>6. CASE u.type_ # "ADD"
    <3>1. PICK n \in LiveAfter(m - 1) :
                  /\ u.tickerId_ = log[n].tickerId_
                  /\ u.marketId = log[n].marketId
                  /\ u.side_ = log[n].side_
      BY <2>1, <2>6
    <3>2. SameOrder(m, n)' /\ log'[n] = log[n] /\ n \in LiveAfter(m - 1)'
      BY <3>1, <2>2, <2>3, <2>4
    <3> QED BY <3>1, <3>2, <2>1, <2>6 DEF Produced
  <2> QED BY <2>5, <2>6
<1>4. Len(log') \in Nat /\ \A m \in 1 .. Len(log') :
                              m \in Nat /\ (m \in 1 .. Len(log) \/ m = Len(log) + 1)
  BY <1>1
<1>5. \A m \in 1 .. Len(log') : Produced(m)'
  BY <1>2, <1>3, <1>4
<1> QED BY <1>1, <1>5 DEF LogInv

LEMMA LogKept == LogInv /\ log' = log => LogInv'
<1> SUFFICES ASSUME LogInv, log' = log PROVE LogInv'
  OBVIOUS
<1>1. /\ \A k : LiveAfter(k)' = LiveAfter(k)
      /\ \A k, tickers : AddsIn(k, tickers)' = AddsIn(k, tickers)
      /\ \A m, n : SameOrder(m, n)' <=> SameOrder(m, n)
  BY DEF LiveAfter, AddsIn, SameOrder
<1>2. \A m \in 1 .. Len(log) : Produced(m)'
  <2> SUFFICES ASSUME NEW m \in 1 .. Len(log) PROVE Produced(m)'
    OBVIOUS
  <2>1. Produced(m)
    BY DEF LogInv
  <2> QED BY <1>1, <2>1 DEF Produced
<1> QED BY <1>2 DEF LogInv

LEMMA LogStep == LogInv /\ sendMarketUpdate => LogInv'
<1> SUFFICES ASSUME LogInv, sendMarketUpdate PROVE LogInv'
  OBVIOUS
<1>1. /\ log \in Seq(AnUpdate)
      /\ Len(log) \in Nat
      /\ LiveAfter(Len(log)) \subseteq 1 .. Len(log)
  BY DEF LogInv, LiveAfter
<1>2. CASE add
  <2>1. PICK t \in Tickers, side \in BookSides, terms \in Terms :
           log' = Append(log, Logged("ADD", t,
                     Cardinality(AddsIn(Len(log), {t})) + 1,
                     Cardinality(AddsIn(Len(log), {t})) + 1, side, terms))
    BY <1>2 DEF add
  <2> DEFINE id == Cardinality(AddsIn(Len(log), {t})) + 1
             u == Logged("ADD", t, id, id, side, terms)
  <2>2. id \in Nat
    BY <1>1, AddsFinite
  <2>3. /\ u \in AnUpdate /\ u.type_ = "ADD" /\ u.tickerId_ = t
        /\ u.marketId = id /\ u.terms = terms
    <3> HIDE DEF id
    <3> QED BY <2>2 DEF Logged, AnUpdate
  <2> HIDE DEF u
  <2> QED BY <2>1, <2>3, ProducedKeeps DEF u
<1>3. CASE match
  <2>1. PICK n \in LiveAfter(Len(log)), terms \in Terms \cup {Null} :
           log' = Append(log, Logged(
                     IF terms = Null THEN "CANCEL" ELSE "MODIFY",
                     log[n].tickerId_, log[n].marketId, log[n].marketId,
                     log[n].side_, terms))
    BY <1>3 DEF match
  <2> DEFINE u == Logged(IF terms = Null THEN "CANCEL" ELSE "MODIFY",
                         log[n].tickerId_, log[n].marketId, log[n].marketId,
                         log[n].side_, terms)
  <2>2. /\ u \in AnUpdate /\ u.type_ # "ADD"
        /\ u.tickerId_ = log[n].tickerId_ /\ u.marketId = log[n].marketId
        /\ u.side_ = log[n].side_
        /\ u.type_ = "MODIFY" => u.terms \in Terms
    BY <1>1, UpdateType DEF Logged, AnUpdate
  <2> HIDE DEF u
  <2> QED BY <2>1, <2>2, ProducedKeeps DEF u
<1>4. CASE cancel
  <2>1. PICK n \in LiveAfter(Len(log)), id \in OrderIds :
           log' = Append(log, Logged("CANCEL", log[n].tickerId_, id,
                     log[n].marketId, log[n].side_, Null))
    BY <1>4 DEF cancel
  <2> DEFINE u == Logged("CANCEL", log[n].tickerId_, id, log[n].marketId,
                         log[n].side_, Null)
  <2>2. /\ u \in AnUpdate /\ u.type_ = "CANCEL"
        /\ u.tickerId_ = log[n].tickerId_ /\ u.marketId = log[n].marketId
        /\ u.side_ = log[n].side_
    <3>1. id \in Nat
      BY SynthesizerAssumption DEF OrderIds
    <3> QED BY <3>1, <1>1, UpdateType DEF Logged, AnUpdate
  <2> HIDE DEF u
  <2> QED BY <2>1, <2>2, ProducedKeeps DEF u
<1> QED BY <1>2, <1>3, <1>4 DEF sendMarketUpdate

-----------------------------------------------------------------------------
(* The synthesizer.                                                        *)
(*                                                                         *)
(* While it runs, and no update has named an order by another id, its      *)
(* array has an entry for exactly the orders that are in the exchange's    *)
(* books after the updates taken, with their latest price and quantity,    *)
(* and its pool has handed out one block for each ADD.                     *)

AnEntry == [block : Nat, side_ : BookSides, terms : Terms]

\* The array orders_per_ticker_ can be.
AnArray(f) == f \in [Tickers -> [OrderIds -> AnEntry \cup {Null}]]

IsOf(n, t, o) == log[n].tickerId_ = t /\ log[n].marketId = o

EntryIs(k, t, o) ==
    LET order == orders_per_ticker_[t][o]
    IN  IF order = Null
        THEN \A n \in LiveAfter(k) : ~IsOf(n, t, o)
        ELSE \E n \in LiveAfter(k), m \in 1 .. k :
                /\ IsOf(n, t, o)
                /\ Latest(m, n, k)
                /\ order.side_ = log[n].side_
                /\ order.terms = log[m].terms

Keeps(k) ==
    /\ AnArray(orders_per_ticker_)
    /\ \A n \in LiveAfter(k) : log[n].marketId \in OrderIds
    /\ \A t \in Tickers, o \in OrderIds : EntryIs(k, t, o)

PoolCounts(k) ==
    LET handedOut == Cardinality(AddsIn(k, Tickers))
    IN  /\ handedOut \in 0 .. MaxOrderIds
        /\ order_pool_.next_free_index_ = handedOut
        /\ order_pool_.is_free_ \in [OrderIds -> BOOLEAN]
        /\ \A b \in OrderIds : b >= handedOut => order_pool_.is_free_[b]

SynthInv ==
    /\ LogInv
    /\ taken \in 0 .. Len(log)
    /\ SurvivesUntilFull
    /\ process = "running" =>
          /\ last_inc_seq_num_ = taken
          /\ AnArray(orders_per_ticker_)
          /\ order_pool_.next_free_index_ \in 0 .. MaxOrderIds
          /\ ~Mislabelled(taken) => Keeps(taken) /\ PoolCounts(taken)

\* A further update that is named by its id was not the first that is not.
LEMMA LabelledStep ==
  ASSUME NEW k \in Nat, ~Mislabelled(k + 1)
  PROVE  ~Mislabelled(k) /\ log[k + 1].orderId_ = log[k + 1].marketId
<1>1. 1 .. k \subseteq 1 .. k + 1 /\ k + 1 \in 1 .. k + 1
  OBVIOUS
<1> QED BY <1>1 DEF Mislabelled

LEMMA LiveStep ==
  ASSUME NEW k \in Nat
  PROVE  LiveAfter(k + 1) =
            {n \in LiveAfter(k) :
                SameOrder(k + 1, n) => log[k + 1].type_ # "CANCEL"}
            \cup {n \in {k + 1} : log[n].type_ = "ADD"}
<1>1. 1 .. k + 1 = 1 .. k \cup {k + 1} /\ k + 1 \notin 1 .. k
  OBVIOUS
<1>2. \A n \in 1 .. k : n + 1 .. k + 1 = n + 1 .. k \cup {k + 1}
  OBVIOUS
<1>3. k + 1 + 1 .. k + 1 = {}
  OBVIOUS
<1> QED BY <1>1, <1>2, <1>3 DEF LiveAfter

LEMMA LatestStep ==
  ASSUME NEW k \in Nat
  PROVE  /\ Latest(k + 1, k + 1, k + 1)
         /\ \A n \in 1 .. k : SameOrder(k + 1, n) => Latest(k + 1, n, k + 1)
         /\ \A n \in 1 .. k : \A m : ~SameOrder(k + 1, n) /\ Latest(m, n, k)
                                     => Latest(m, n, k + 1)
<1>1. k + 1 + 1 .. k + 1 = {}
  OBVIOUS
<1>2. SameOrder(k + 1, k + 1)
  BY DEF SameOrder
<1>3. \A n \in 1 .. k : \A m \in n .. k :
         m \in n .. k + 1 /\ m + 1 .. k + 1 = m + 1 .. k \cup {k + 1}
  OBVIOUS
<1>4. \A n \in 1 .. k : k + 1 \in n .. k + 1
  OBVIOUS
<1> QED BY <1>1, <1>2, <1>3, <1>4 DEF Latest

\* The order that an update is about: a new one, or one of the book, and the
\* only one with its number.
LEMMA Subject ==
  ASSUME LogInv, NEW k \in Nat, k + 1 <= Len(log)
  PROVE  /\ log[k + 1].type_ = "ADD" =>
               \A n \in LiveAfter(k) : ~SameOrder(k + 1, n)
         /\ log[k + 1].type_ # "ADD" =>
               \E n \in LiveAfter(k) :
                  /\ SameOrder(k + 1, n)
                  /\ log[k + 1].side_ = log[n].side_
                  /\ \A j \in LiveAfter(k) : SameOrder(k + 1, j) => j = n
<1>1. /\ k + 1 \in 1 .. Len(log)
      /\ k + 1 - 1 = k
      /\ \A n \in LiveAfter(k) :
            n \in 1 .. Len(log) /\ n < k + 1 /\ log[n].type_ = "ADD"
  BY DEF LogInv, LiveAfter
<1>2. \A m, n : SameOrder(m, n) => SameOrder(n, m)
  BY DEF SameOrder
<1>3. ASSUME log[k + 1].type_ = "ADD", NEW n \in LiveAfter(k)
      PROVE  ~SameOrder(k + 1, n)
  BY <1>1, <1>2, <1>3, AddsDiffer
<1>4. ASSUME log[k + 1].type_ # "ADD"
      PROVE  \E n \in LiveAfter(k) :
                /\ SameOrder(k + 1, n)
                /\ log[k + 1].side_ = log[n].side_
                /\ \A j \in LiveAfter(k) : SameOrder(k + 1, j) => j = n
  <2>0. ASSUME NEW m \in 1 .. Len(log), m - 1 = k, log[m].type_ # "ADD"
        PROVE  \E n \in LiveAfter(k) :
                  SameOrder(m, n) /\ log[m].side_ = log[n].side_
    <3>1. Produced(m)
      BY DEF LogInv
    <3> QED BY <3>1, <2>0 DEF Produced
  <2>1. PICK n \in LiveAfter(k) :
                SameOrder(k + 1, n) /\ log[k + 1].side_ = log[n].side_
    BY <1>1, <1>4, <2>0
  <2>2. ASSUME NEW j \in LiveAfter(k), SameOrder(k + 1, j) PROVE j = n
    <3>1. SameOrder(j, n) /\ SameOrder(n, j)
      BY <2>1, <2>2 DEF SameOrder
    <3>2. ~(j < n) /\ ~(n < j)
      BY <1>1, <3>1, AddsDiffer
    <3> QED BY <1>1, <3>2
  <2> QED BY <2>1, <2>2
<1> QED BY <1>3, <1>4

\* One update changes at most the entry of its order.
LEMMA EntriesStep ==
  ASSUME LogInv, NEW k \in Nat, k + 1 <= Len(log), log' = log, Keeps(k),
         NEW ut \in Tickers, NEW uo \in OrderIds, IsOf(k + 1, ut, uo),
         AnArray(orders_per_ticker_'),
         EntryIs(k + 1, ut, uo)',
         \A t \in Tickers, o \in OrderIds :
            t # ut \/ o # uo
            => orders_per_ticker_'[t][o] = orders_per_ticker_[t][o]
  PROVE  Keeps(k + 1)'
<1>0. /\ \A n : LiveAfter(n)' = LiveAfter(n)
      /\ \A m, n : SameOrder(m, n)' = SameOrder(m, n)
      /\ \A m, n, l : Latest(m, n, l)' = Latest(m, n, l)
      /\ \A n, t, o : IsOf(n, t, o)' = IsOf(n, t, o)
  BY DEF LiveAfter, SameOrder, Latest, IsOf
<1>1. /\ \A n \in LiveAfter(k + 1) : n \in LiveAfter(k) \/ n = k + 1
      /\ \A n \in LiveAfter(k) : ~SameOrder(k + 1, n) => n \in LiveAfter(k + 1)
      /\ \A n \in LiveAfter(k) : n \in 1 .. k
  BY LiveStep DEF LiveAfter
<1>2. \A n \in LiveAfter(k + 1) : log'[n].marketId \in OrderIds
  BY <1>1 DEF Keeps, IsOf
<1>3. ASSUME NEW t \in Tickers, NEW o \in OrderIds, t # ut \/ o # uo
      PROVE  EntryIs(k + 1, t, o)'
  <2>1. \A n : IsOf(n, t, o) => ~SameOrder(k + 1, n) /\ n # k + 1
    BY <1>3 DEF IsOf, SameOrder
  <2>2. orders_per_ticker_'[t][o] = orders_per_ticker_[t][o]
    BY <1>3
  <2>3. EntryIs(k, t, o)
    BY DEF Keeps
  <2>4. CASE orders_per_ticker_[t][o] = Null
    <3>1. \A n \in LiveAfter(k + 1) : ~IsOf(n, t, o)
      BY <2>1, <2>3, <2>4, <1>1 DEF EntryIs
    <3> QED BY <3>1, <2>2, <2>4, <1>0 DEF EntryIs
  <2>5. CASE orders_per_ticker_[t][o] # Null
    <3>1. PICK n \in LiveAfter(k), m \in 1 .. k :
             /\ IsOf(n, t, o)
             /\ Latest(m, n, k)
             /\ orders_per_ticker_[t][o].side_ = log[n].side_
             /\ orders_per_ticker_[t][o].terms = log[m].terms
      BY <2>3, <2>5 DEF EntryIs
    <3>2. n \in LiveAfter(k + 1) /\ Latest(m, n, k + 1) /\ m \in 1 .. k + 1
      <4>1. n \in 1 .. k /\ ~SameOrder(k + 1, n)
        BY <3>1, <2>1, <1>1
      <4>2. Latest(m, n, k + 1)
        BY <4>1, <3>1, LatestStep
      <4>3. m \in 1 .. k + 1
        OBVIOUS
      <4> QED BY <4>1, <4>2, <4>3, <1>1
    <3>3. /\ n \in LiveAfter(k + 1)' /\ Latest(m, n, k + 1)' /\ IsOf(n, t, o)'
          /\ m \in 1 .. k + 1
      BY <3>1, <3>2, <1>0, Zenon
    <3>4. /\ orders_per_ticker_'[t][o] # Null
          /\ orders_per_ticker_'[t][o].side_ = log'[n].side_
          /\ orders_per_ticker_'[t][o].terms = log'[m].terms
      BY <3>1, <2>2, <2>5
    <3> QED BY <3>3, <3>4, Zenon DEF EntryIs
  <2> QED BY <2>4, <2>5
<1>4. \A t \in Tickers, o \in OrderIds : EntryIs(k + 1, t, o)'
  BY <1>3
<1> QED BY <1>0, <1>2, <1>4 DEF Keeps

\* Function g is f with value e at s and t.
Updated(g, f, s, t, e) == g = [f EXCEPT ![s][t] = e]

\* What that means for its entries.
Assigned(g, f, s, t, e) ==
    /\ AnArray(g)
    /\ g[s][t] = e
    /\ \A x \in Tickers, y \in OrderIds :
          x # s \/ y # t => g[x][y] = f[x][y]

LEMMA UpdatedEntry ==
  ASSUME NEW f, AnArray(f), NEW s \in Tickers, NEW t \in OrderIds,
         NEW e, e \in AnEntry \/ e = Null, NEW g, Updated(g, f, s, t, e)
  PROVE  Assigned(g, f, s, t, e)
<1> DEFINE V == AnEntry \cup {Null}
<1>1. e \in V
  OBVIOUS
<1> HIDE DEF V
<1>2. f \in [Tickers -> [OrderIds -> V]]
  BY DEF AnArray, V
<1>3. g \in [Tickers -> [OrderIds -> V]]
  BY <1>1, <1>2 DEF Updated
<1> QED BY <1>1, <1>2, <1>3 DEF Updated, Assigned, AnArray, V

LEMMA AddKeeps ==
  ASSUME LogInv, NEW k \in Nat, k + 1 <= Len(log), log' = log, Keeps(k),
         log[k + 1].type_ = "ADD", log[k + 1].orderId_ \in OrderIds,
         log[k + 1].orderId_ = log[k + 1].marketId,
         NEW b \in Nat,
         NEW ut, ut = log[k + 1].tickerId_, NEW uo, uo = log[k + 1].orderId_,
         NEW e, e = [block |-> b, side_ |-> log[k + 1].side_,
                     terms |-> log[k + 1].terms],
         Updated(orders_per_ticker_', orders_per_ticker_, ut, uo, e)
  PROVE  Keeps(k + 1)'
<1>1. k + 1 \in 1 .. Len(log) /\ k + 1 \in 1 .. k + 1
  BY DEF LogInv
<1>2. ut \in Tickers /\ uo \in OrderIds /\ IsOf(k + 1, ut, uo)
  BY <1>1, UpdateType DEF IsOf
<1>3. e \in AnEntry /\ e # Null
  <2>1. log[k + 1].side_ \in BookSides
    BY <1>1, UpdateType
  <2>2. log[k + 1].terms \in Terms
    BY <1>1 DEF LogInv, Produced
  <2>3. e \in AnEntry
    BY <2>1, <2>2 DEF AnEntry
  <2> QED BY <2>3, SynthesizerAssumption DEF AnEntry
<1>4. /\ e.side_ = log[k + 1].side_
      /\ e.terms = log[k + 1].terms
  OBVIOUS
<1>5. Updated(orders_per_ticker_', orders_per_ticker_, ut, uo, e)
  OBVIOUS
<1>6. AnArray(orders_per_ticker_)
  BY DEF Keeps
<1>7. /\ AnArray(orders_per_ticker_')
      /\ orders_per_ticker_'[ut][uo] = e
      /\ \A t \in Tickers, o \in OrderIds :
            t # ut \/ o # uo
            => orders_per_ticker_'[t][o] = orders_per_ticker_[t][o]
  <2>1. Assigned(orders_per_ticker_', orders_per_ticker_, ut, uo, e)
    BY Zenon, <1>2, <1>3, <1>5, <1>6, UpdatedEntry
  <2> QED BY <2>1 DEF Assigned
<1>8. EntryIs(k + 1, ut, uo)'
  <2>1. k + 1 \in LiveAfter(k + 1) /\ Latest(k + 1, k + 1, k + 1)
    BY <1>1, LiveStep, LatestStep
  <2>2. /\ k + 1 \in LiveAfter(k + 1)'
        /\ Latest(k + 1, k + 1, k + 1)'
        /\ IsOf(k + 1, ut, uo)'
    BY <2>1, <1>2 DEF LiveAfter, Latest, IsOf, SameOrder
  <2> QED BY <2>2, <1>1, <1>3, <1>4, <1>7 DEF EntryIs
<1> QED BY <1>2, <1>7, <1>8, EntriesStep

\* The entry that a MODIFY or CANCEL looks up: it is there and has its side.
LEMMA EntryFound ==
  ASSUME LogInv, NEW k \in Nat, k + 1 <= Len(log), Keeps(k),
         log[k + 1].type_ # "ADD",
         log[k + 1].orderId_ = log[k + 1].marketId,
         NEW t, t = log[k + 1].tickerId_, NEW o, o = log[k + 1].orderId_
  PROVE  /\ t \in Tickers /\ o \in OrderIds
         /\ orders_per_ticker_[t][o] \in AnEntry
         /\ orders_per_ticker_[t][o] # Null
         /\ orders_per_ticker_[t][o].side_ = log[k + 1].side_
         /\ \E n \in LiveAfter(k) :
               /\ IsOf(n, t, o)
               /\ SameOrder(k + 1, n)
               /\ log[n].side_ = log[k + 1].side_
               /\ \A j \in LiveAfter(k) : IsOf(j, t, o) => j = n
<1>1. k + 1 \in 1 .. Len(log)
  BY DEF LogInv
<1>2. PICK n \in LiveAfter(k) :
         /\ SameOrder(k + 1, n)
         /\ log[k + 1].side_ = log[n].side_
         /\ \A j \in LiveAfter(k) : SameOrder(k + 1, j) => j = n
  BY Subject
<1>3. IsOf(n, t, o) /\ \A j : IsOf(j, t, o) => SameOrder(k + 1, j)
  BY <1>2 DEF IsOf, SameOrder
<1>4. t \in Tickers /\ o \in OrderIds
  <2>1. log[n].marketId \in OrderIds
    BY DEF Keeps
  <2> QED BY <2>1, <1>1, <1>3, UpdateType DEF IsOf
<1>5. EntryIs(k, t, o) /\ orders_per_ticker_[t][o] \in AnEntry \cup {Null}
  <2>1. AnArray(orders_per_ticker_)
    BY DEF Keeps
  <2>2. orders_per_ticker_[t][o] \in AnEntry \cup {Null}
    BY <2>1, <1>4 DEF AnArray
  <2> QED BY <2>2, <1>4 DEF Keeps
<1>6. orders_per_ticker_[t][o] # Null
  BY <1>2, <1>3, <1>5 DEF EntryIs
<1>7. orders_per_ticker_[t][o].side_ = log[k + 1].side_
  BY <1>2, <1>3, <1>5, <1>6 DEF EntryIs
<1> QED BY <1>2, <1>3, <1>4, <1>5, <1>6, <1>7

LEMMA CancelKeeps ==
  ASSUME LogInv, NEW k \in Nat, k + 1 <= Len(log), log' = log, Keeps(k),
         log[k + 1].type_ = "CANCEL",
         log[k + 1].orderId_ = log[k + 1].marketId,
         orders_per_ticker_' = Forgotten(orders_per_ticker_, log[k + 1])
  PROVE  Keeps(k + 1)'
<1> SUFFICES ASSUME NEW t, t = log[k + 1].tickerId_,
                    NEW o, o = log[k + 1].orderId_
             PROVE  Keeps(k + 1)'
  OBVIOUS
<1>1. /\ t \in Tickers /\ o \in OrderIds
      /\ \E n \in LiveAfter(k) :
            /\ SameOrder(k + 1, n)
            /\ \A j \in LiveAfter(k) : IsOf(j, t, o) => j = n
  BY EntryFound
<1>2. IsOf(k + 1, t, o)
  BY DEF IsOf
<1>3. Updated(orders_per_ticker_', orders_per_ticker_, t, o, Null)
  BY DEF Updated, Forgotten
<1>4. AnArray(orders_per_ticker_)
  BY DEF Keeps
<1>5. /\ AnArray(orders_per_ticker_')
      /\ orders_per_ticker_'[t][o] = Null
      /\ \A x \in Tickers, y \in OrderIds :
            x # t \/ y # o
            => orders_per_ticker_'[x][y] = orders_per_ticker_[x][y]
  <2>1. Assigned(orders_per_ticker_', orders_per_ticker_, t, o, Null)
    BY Zenon, <1>1, <1>3, <1>4, UpdatedEntry
  <2> QED BY <2>1 DEF Assigned
<1>6. EntryIs(k + 1, t, o)'
  <2>1. \A n \in LiveAfter(k + 1) : n \in LiveAfter(k) /\ ~SameOrder(k + 1, n)
    BY LiveStep
  <2>2. \A n \in LiveAfter(k + 1) : ~IsOf(n, t, o)
    BY <1>1, <2>1
  <2>3. \A n \in LiveAfter(k + 1)' : ~IsOf(n, t, o)'
    BY <2>2 DEF LiveAfter, SameOrder, IsOf
  <2> QED BY <2>3, <1>5 DEF EntryIs
<1> QED BY <1>1, <1>2, <1>5, <1>6, EntriesStep

\* Function g is f with field terms at s and t replaced.
TermsUpdated(g, f, s, t, terms) == g = [f EXCEPT ![s][t].terms = terms]

LEMMA UpdatedTerms ==
  ASSUME NEW f, AnArray(f), NEW s \in Tickers, NEW t \in OrderIds,
         f[s][t] \in AnEntry,
         NEW terms \in Terms, NEW g, TermsUpdated(g, f, s, t, terms)
  PROVE  /\ AnArray(g)
         /\ g[s][t] \in AnEntry
         /\ g[s][t].terms = terms
         /\ g[s][t].side_ = f[s][t].side_
         /\ \A x \in Tickers, y \in OrderIds :
               x # s \/ y # t => g[x][y] = f[x][y]
<1> DEFINE e == [f[s][t] EXCEPT !.terms = terms]
<1>1. e \in AnEntry /\ e.terms = terms /\ e.side_ = f[s][t].side_
  BY DEF AnEntry
<1>2. Updated(g, f, s, t, e)
  BY Zenon DEF Updated, TermsUpdated
<1> HIDE DEF e
<1>3. /\ AnArray(g)
      /\ g[s][t] = e
      /\ \A x \in Tickers, y \in OrderIds :
            x # s \/ y # t => g[x][y] = f[x][y]
  <2>1. Assigned(g, f, s, t, e)
    BY Zenon, <1>1, <1>2, UpdatedEntry
  <2> QED BY <2>1 DEF Assigned
<1> QED BY <1>1, <1>3

LEMMA ModifyKeeps ==
  ASSUME LogInv, NEW k \in Nat, k + 1 <= Len(log), log' = log, Keeps(k),
         log[k + 1].type_ = "MODIFY",
         log[k + 1].orderId_ = log[k + 1].marketId,
         orders_per_ticker_' = Modified(orders_per_ticker_, log[k + 1])
  PROVE  Keeps(k + 1)'
<1> SUFFICES ASSUME NEW t, t = log[k + 1].tickerId_,
                    NEW o, o = log[k + 1].orderId_,
                    NEW terms, terms = log[k + 1].terms
             PROVE  Keeps(k + 1)'
  OBVIOUS
<1>0. k + 1 \in 1 .. Len(log) /\ k + 1 \in 1 .. k + 1
  BY DEF LogInv
<1>1. /\ t \in Tickers /\ o \in OrderIds
      /\ orders_per_ticker_[t][o] \in AnEntry
      /\ orders_per_ticker_[t][o].side_ = log[k + 1].side_
  BY EntryFound
<1>2. PICK n \in LiveAfter(k) :
         /\ IsOf(n, t, o)
         /\ SameOrder(k + 1, n)
         /\ log[n].side_ = log[k + 1].side_
  BY EntryFound
<1>3. terms \in Terms
  BY <1>0 DEF LogInv, Produced
<1>4. TermsUpdated(orders_per_ticker_', orders_per_ticker_, t, o, terms)
  BY DEF TermsUpdated, Modified
<1>5. AnArray(orders_per_ticker_)
  BY DEF Keeps
<1>6. /\ AnArray(orders_per_ticker_')
      /\ orders_per_ticker_'[t][o] \in AnEntry
      /\ orders_per_ticker_'[t][o].terms = terms
      /\ orders_per_ticker_'[t][o].side_ = orders_per_ticker_[t][o].side_
      /\ \A x \in Tickers, y \in OrderIds :
            x # t \/ y # o
            => orders_per_ticker_'[x][y] = orders_per_ticker_[x][y]
  BY <1>1, <1>3, <1>4, <1>5, UpdatedTerms
<1>7. EntryIs(k + 1, t, o)'
  <2>1. orders_per_ticker_'[t][o] # Null
    BY <1>6, SynthesizerAssumption DEF AnEntry
  <2>2. n \in 1 .. k /\ n \in LiveAfter(k + 1) /\ Latest(k + 1, n, k + 1)
    <3>1. n \in 1 .. k
      BY <1>2 DEF LiveAfter
    <3> QED BY <3>1, <1>2, LiveStep, LatestStep
  <2>3. /\ n \in LiveAfter(k + 1)'
        /\ Latest(k + 1, n, k + 1)'
        /\ IsOf(n, t, o)'
    BY <2>2, <1>2 DEF LiveAfter, Latest, IsOf, SameOrder
  <2> QED BY <2>1, <2>3, <1>0, <1>1, <1>2, <1>6 DEF EntryIs
<1>8. IsOf(k + 1, t, o)
  BY DEF IsOf
<1> QED BY <1>1, <1>6, <1>7, <1>8, EntriesStep

\* A block is taken, and the search for the next one stops right behind it.
LEMMA PoolTaken ==
  ASSUME NEW n \in OrderIds, NEW p, p.next_free_index_ = n,
         p.is_free_ \in [OrderIds -> BOOLEAN],
         \A b \in OrderIds : b >= n => p.is_free_[b]
  PROVE  LET t == OrderPool!Taken(p)
         IN  /\ t.next_free_index_ = n + 1
             /\ t.is_free_ \in [OrderIds -> BOOLEAN]
             /\ \A b \in OrderIds : b >= n + 1 => t.is_free_[b]
<1> DEFINE free == [p.is_free_ EXCEPT ![n] = FALSE]
           candidates == {j \in n .. MaxOrderIds - 1 : free[j]}
<1>1. /\ MaxOrderIds \in Nat \ {0}
      /\ OrderPool!Taken(p).is_free_ = free
      /\ OrderPool!Taken(p).next_free_index_ =
            OrderPool!updateNextFreeIndex(free, n)
  BY SynthesizerAssumption DEF OrderPool!Taken
<1>2. free \in [OrderIds -> BOOLEAN]
  BY Zenon
<1>3. \A b \in OrderIds : b >= n + 1 => free[b]
  BY <1>1 DEF OrderIds
<1>4. ~free[n]
  OBVIOUS
<1> HIDE DEF free
<1>5. candidates = {j \in OrderIds : j > n}
  BY <1>1, <1>3, <1>4 DEF OrderIds
<1>6. OrderPool!updateNextFreeIndex(free, n) = n + 1
  <2>1. CASE n = MaxOrderIds - 1
    <3>1. candidates = {}
      BY <1>1, <1>5, <2>1 DEF OrderIds
    <3> QED BY <3>1, <1>1, <2>1
            DEF OrderPool!updateNextFreeIndex, OrderPool!PastEnd
  <2>2. CASE n # MaxOrderIds - 1
    <3>1. n + 1 \in candidates /\ \A k \in candidates : n + 1 <= k
      BY <1>1, <1>5, <2>2 DEF OrderIds
    <3>2. \A j \in candidates : (\A k \in candidates : j <= k) => j = n + 1
      BY <3>1, <1>1, <1>5 DEF OrderIds
    <3> HIDE DEF candidates
    <3>3. (CHOOSE j \in candidates : \A k \in candidates : j <= k) = n + 1
      BY <3>1, <3>2
    <3>4. candidates # {}
      BY <3>1
    <3> QED BY <3>3, <3>4 DEF OrderPool!updateNextFreeIndex, candidates
  <2> QED BY <2>1, <2>2
<1> QED BY <1>1, <1>2, <1>3, <1>6

\* The ADDs of one more update; log[k + 1] takes a block exactly if it adds.
LEMMA HandedOut ==
  ASSUME LogInv, NEW k \in Nat, k + 1 <= Len(log), log' = log
  PROVE  /\ Cardinality(AddsIn(k, Tickers)) \in Nat
         /\ AddsIn(k + 1, Tickers)' = AddsIn(k + 1, Tickers)
         /\ Cardinality(AddsIn(k + 1, Tickers)) =
               IF log[k + 1].type_ = "ADD"
               THEN Cardinality(AddsIn(k, Tickers)) + 1
               ELSE Cardinality(AddsIn(k, Tickers))
<1>1. log[k + 1].tickerId_ \in Tickers
  <2>1. k + 1 \in 1 .. Len(log)
    BY DEF LogInv
  <2> QED BY <2>1, UpdateType
<1>2. AddsIn(k + 1, Tickers)' = AddsIn(k + 1, Tickers)
  BY DEF AddsIn
<1> QED BY <1>1, <1>2, AddsFinite, AddsCount

LEMMA TakenKeepsPool ==
  ASSUME LogInv, NEW k \in Nat, k + 1 <= Len(log), log' = log,
         PoolCounts(k), log[k + 1].type_ = "ADD",
         order_pool_.next_free_index_ # OrderPool!PastEnd,
         order_pool_' = OrderPool!Taken(order_pool_)
  PROVE  /\ PoolCounts(k + 1)'
         /\ order_pool_'.next_free_index_ =
               Cardinality(AddsIn(k + 1, Tickers))
<1> SUFFICES ASSUME NEW n, n = Cardinality(AddsIn(k, Tickers)),
                    NEW m, m = Cardinality(AddsIn(k + 1, Tickers))
             PROVE  /\ PoolCounts(k + 1)'
                    /\ order_pool_'.next_free_index_ = m
  OBVIOUS
<1>1. n \in OrderIds /\ m = n + 1 /\ m \in 0 .. MaxOrderIds
  BY HandedOut, SynthesizerAssumption
     DEF PoolCounts, OrderPool!PastEnd, OrderIds
<1>2. /\ order_pool_.next_free_index_ = n
      /\ order_pool_.is_free_ \in [OrderIds -> BOOLEAN]
      /\ \A b \in OrderIds : b >= n => order_pool_.is_free_[b]
  BY DEF PoolCounts
<1>3. /\ order_pool_'.next_free_index_ = n + 1
      /\ order_pool_'.is_free_ \in [OrderIds -> BOOLEAN]
      /\ \A b \in OrderIds : b >= n + 1 => order_pool_'.is_free_[b]
  BY <1>1, <1>2, PoolTaken
<1>4. Cardinality(AddsIn(k + 1, Tickers)') = m
  BY HandedOut
<1> QED BY <1>1, <1>3, <1>4 DEF PoolCounts

LEMMA ReturnedKeepsPool ==
  ASSUME LogInv, NEW k \in Nat, k + 1 <= Len(log), log' = log,
         PoolCounts(k), log[k + 1].type_ # "ADD", NEW b,
         \/ order_pool_' = order_pool_
         \/ order_pool_' = OrderPool!Returned(order_pool_, b)
  PROVE  PoolCounts(k + 1)'
<1> SUFFICES ASSUME NEW n, n = Cardinality(AddsIn(k, Tickers))
             PROVE  PoolCounts(k + 1)'
  OBVIOUS
<1>1. Cardinality(AddsIn(k + 1, Tickers)') = n
  BY HandedOut
<1>2. /\ n \in 0 .. MaxOrderIds
      /\ order_pool_.next_free_index_ = n
      /\ order_pool_.is_free_ \in [OrderIds -> BOOLEAN]
      /\ \A i \in OrderIds : i >= n => order_pool_.is_free_[i]
  BY DEF PoolCounts
<1>3. /\ order_pool_'.next_free_index_ = n
      /\ order_pool_'.is_free_ \in [OrderIds -> BOOLEAN]
      /\ \A i \in OrderIds : i >= n => order_pool_'.is_free_[i]
  <2>1. CASE order_pool_' = order_pool_
    BY <1>2, <2>1
  <2>2. CASE order_pool_' = OrderPool!Returned(order_pool_, b)
    <3>1. order_pool_'.next_free_index_ = n
      BY <1>2, <2>2 DEF OrderPool!Returned
    <3>2. order_pool_'.is_free_ = [order_pool_.is_free_ EXCEPT ![b] = TRUE]
      BY <2>2 DEF OrderPool!Returned
    <3> QED BY <1>2, <3>1, <3>2
  <2> QED BY <2>1, <2>2
<1> QED BY <1>1, <1>2, <1>3 DEF PoolCounts

\* The index of a pool stays inside it or right behind it.
LEMMA IndexKept ==
  ASSUME NEW p, NEW b, p.next_free_index_ \in 0 .. MaxOrderIds
  PROVE  /\ OrderPool!Taken(p).next_free_index_ \in 0 .. MaxOrderIds
         /\ OrderPool!Returned(p, b).next_free_index_ \in 0 .. MaxOrderIds
<1> SUFFICES ASSUME NEW i, i = p.next_free_index_, NEW free
             PROVE  OrderPool!updateNextFreeIndex(free, i) \in 0 .. MaxOrderIds
  BY DEF OrderPool!Taken, OrderPool!Returned
<1> DEFINE candidates == {j \in i .. MaxOrderIds - 1 : free[j]}
<1>1. candidates \subseteq 0 .. MaxOrderIds /\ candidates \subseteq Nat
      /\ MaxOrderIds \in 0 .. MaxOrderIds
  BY SynthesizerAssumption
<1> HIDE DEF candidates
<1>2. candidates # {} => \E j \in candidates : \A k \in candidates : j <= k
  BY <1>1, LeastMember
<1>3. OrderPool!updateNextFreeIndex(free, i) =
         IF candidates = {} THEN MaxOrderIds
         ELSE CHOOSE j \in candidates : \A k \in candidates : j <= k
  BY DEF OrderPool!updateNextFreeIndex, OrderPool!PastEnd, candidates
<1> QED BY <1>1, <1>2, <1>3

\* Whatever an update says, the array and the index of the pool keep their
\* types (addToSnapshot()).
LEMMA TakeKeepsArray ==
  ASSUME SynthInv, addToSnapshot, process' = "running"
  PROVE  /\ last_inc_seq_num_' = taken'
         /\ AnArray(orders_per_ticker_')
         /\ order_pool_'.next_free_index_ \in 0 .. MaxOrderIds
<1> SUFFICES ASSUME NEW k, k = taken, NEW u, u = log[k + 1],
                    NEW t, t = u.tickerId_, NEW o, o = u.orderId_
             PROVE  /\ last_inc_seq_num_' = taken'
                    /\ AnArray(orders_per_ticker_')
                    /\ order_pool_'.next_free_index_ \in 0 .. MaxOrderIds
  OBVIOUS
<1>1. /\ k + 1 \in 1 .. Len(log) /\ taken' = k + 1 /\ k + 1 - 1 = k
      /\ process = "running" /\ AnArray(orders_per_ticker_) /\ LogInv
      /\ last_inc_seq_num_ = k
      /\ order_pool_.next_free_index_ \in 0 .. MaxOrderIds
      /\ k \in Nat
  BY DEF addToSnapshot, SynthInv, LogInv
<1>2. /\ t \in Tickers /\ u.side_ \in BookSides
      /\ u.type_ \in {"ADD", "MODIFY", "CANCEL"}
  BY <1>1, UpdateType
<1>3. u.type_ \in {"ADD", "MODIFY"} => u.terms \in Terms
  <2>1. Produced(k + 1)
    BY <1>1 DEF LogInv
  <2> QED BY <2>1 DEF Produced
<1>4. CASE u.type_ = "ADD"
  <2>1. PICK fault \in BOOLEAN : Add(u, fault)
    BY <1>1, <1>4 DEF addToSnapshot
  <2> SUFFICES ASSUME NEW b, b = order_pool_.next_free_index_,
                      NEW e, e = [block |-> b, side_ |-> u.side_,
                                  terms |-> u.terms]
               PROVE  /\ last_inc_seq_num_' = taken'
                      /\ AnArray(orders_per_ticker_')
                      /\ order_pool_'.next_free_index_ \in 0 .. MaxOrderIds
    OBVIOUS
  <2>2. /\ o \in OrderIds
        /\ b # OrderPool!PastEnd
        /\ last_inc_seq_num_' = taken'
        /\ order_pool_' = OrderPool!Taken(order_pool_)
        /\ Updated(orders_per_ticker_', orders_per_ticker_, t, o, e)
    BY <2>1 DEF Add, Updated
  <2>3. e \in AnEntry
    <3>1. b \in Nat
      BY <1>1, SynthesizerAssumption
    <3> QED BY <3>1, <1>2, <1>3, <1>4 DEF AnEntry
  <2>4. Assigned(orders_per_ticker_', orders_per_ticker_, t, o, e)
    BY Zenon, <1>1, <1>2, <2>2, <2>3, UpdatedEntry
  <2> QED BY <1>1, <2>2, <2>4, IndexKept DEF Assigned
<1>5. CASE u.type_ # "ADD"
  <2>1. Change(u)
    BY <1>1, <1>5 DEF addToSnapshot
  <2>2. /\ o \in OrderIds
        /\ orders_per_ticker_[t][o] # Null
        /\ last_inc_seq_num_' = taken'
        /\ orders_per_ticker_' =
              IF u.type_ = "CANCEL" THEN Forgotten(orders_per_ticker_, u)
                                    ELSE Modified(orders_per_ticker_, u)
        /\ order_pool_' =
              IF u.type_ = "CANCEL"
              THEN OrderPool!Returned(order_pool_, orders_per_ticker_[t][o].block)
              ELSE order_pool_
    BY <2>1 DEF Change
  <2>3. CASE u.type_ = "CANCEL"
    <3>1. Updated(orders_per_ticker_', orders_per_ticker_, t, o, Null)
      BY <2>2, <2>3 DEF Forgotten, Updated
    <3>2. Assigned(orders_per_ticker_', orders_per_ticker_, t, o, Null)
      BY Zenon, <1>1, <1>2, <2>2, <3>1, UpdatedEntry
    <3> QED BY <1>1, <2>2, <2>3, <3>2, IndexKept DEF Assigned
  <2>4. CASE u.type_ = "MODIFY"
    <3>1. TermsUpdated(orders_per_ticker_', orders_per_ticker_, t, o, u.terms)
      BY <2>2, <2>4 DEF Modified, TermsUpdated
    <3>2. orders_per_ticker_[t][o] \in AnEntry
      BY <1>1, <1>2, <2>2 DEF AnArray
    <3> QED BY <1>1, <1>2, <1>3, <2>2, <2>4, <3>1, <3>2, UpdatedTerms
  <2> QED BY <1>2, <1>5, <2>3, <2>4
<1> QED BY <1>4, <1>5

\* Every update that names its order by the id of the book, but an ADD that
\* finds no room, is taken in, and the books stand for one update more.
LEMMA TakeKeepsBook ==
  ASSUME SynthInv, addToSnapshot, NEW k \in Nat, k = taken,
         ~Mislabelled(k + 1)
  PROVE  IF process' = "running"
         THEN Keeps(k + 1)' /\ PoolCounts(k + 1)'
         ELSE Cardinality(AddsIn(k + 1, Tickers)) >= MaxOrderIds
<1> SUFFICES ASSUME NEW u, u = log[k + 1],
                    NEW n, n = Cardinality(AddsIn(k, Tickers)),
                    NEW m, m = Cardinality(AddsIn(k + 1, Tickers))
             PROVE  IF process' = "running"
                    THEN Keeps(k + 1)' /\ PoolCounts(k + 1)'
                    ELSE m >= MaxOrderIds
  OBVIOUS
<1>1. /\ k \in Nat /\ k + 1 <= Len(log) /\ Len(log) \in Nat
      /\ k + 1 \in 1 .. Len(log) /\ k + 1 \in 0 .. Len(log)
      /\ k + 1 - 1 = k
      /\ log' = log /\ taken' = k + 1
  BY DEF addToSnapshot, SynthInv, LogInv
<1>2. /\ LogInv /\ Keeps(k) /\ PoolCounts(k)
      /\ process = "running" /\ last_inc_seq_num_ = k
      /\ u.orderId_ = u.marketId
  BY <1>1, LabelledStep DEF SynthInv, addToSnapshot
<1>3. /\ n \in 0 .. MaxOrderIds
      /\ order_pool_.next_free_index_ = n
      /\ m = IF u.type_ = "ADD" THEN n + 1 ELSE n
      /\ Cardinality(AddsIn(k + 1, Tickers)') = m
      /\ MaxOrderIds \in Nat
  BY <1>1, <1>2, HandedOut, SynthesizerAssumption DEF PoolCounts
<1>6. CASE u.type_ = "ADD"
  <2>1. PICK fault \in BOOLEAN : Add(u, fault)
    BY <1>1, <1>2, <1>6 DEF addToSnapshot
  <2> DEFINE full == order_pool_.next_free_index_ = OrderPool!PastEnd
             last == OrderPool!Taken(order_pool_).next_free_index_
                        = OrderPool!PastEnd
  <2>2. full <=> n = MaxOrderIds
    BY <1>3 DEF OrderPool!PastEnd
  <2>3. /\ u.tickerId_ \in Tickers /\ u.orderId_ \in Nat
        /\ u.orderId_ = Cardinality(AddsIn(k, {u.tickerId_})) + 1
    <3>1. ASSUME NEW i \in 1 .. Len(log), i - 1 = k, log[i].type_ = "ADD"
          PROVE  log[i].marketId =
                    Cardinality(AddsIn(k, {log[i].tickerId_})) + 1
      <4>1. Produced(i)
        BY <1>2 DEF LogInv
      <4> QED BY <3>1, <4>1 DEF Produced
    <3>2. u.orderId_ = Cardinality(AddsIn(k, {u.tickerId_})) + 1
      BY <3>1, <1>1, <1>2, <1>6
    <3> QED BY <3>2, <1>1, <1>2, UpdateType
  <2>4. CASE u.orderId_ \notin OrderIds
    <3>1. process' = "terminated"
      BY <2>1, <2>4 DEF Add
    <3>2. u.orderId_ >= MaxOrderIds
      BY <2>3, <2>4, <1>3 DEF OrderIds
    <3>3. u.orderId_ <= m
      <4>1. AddsIn(k, {u.tickerId_}) \in SUBSET AddsIn(k, Tickers)
        BY <2>3 DEF AddsIn
      <4>2. Cardinality(AddsIn(k, {u.tickerId_})) <= n
        BY <4>1, <1>1, AddsFinite, FS_Subset
      <4>3. Cardinality(AddsIn(k, {u.tickerId_})) \in Nat
        BY <1>1, AddsFinite
      <4> QED BY <4>2, <4>3, <2>3, <1>3, <1>6
    <3> QED BY <3>1, <3>2, <3>3, <2>3, <1>1, <1>3, <1>6
  <2>5. CASE u.orderId_ \in OrderIds
    <3>1. orders_per_ticker_[u.tickerId_][u.orderId_] = Null
      <4>1. \A j \in LiveAfter(k) : ~IsOf(j, u.tickerId_, u.orderId_)
        BY <1>1, <1>2, <1>6, Subject DEF IsOf, SameOrder
      <4>2. EntryIs(k, u.tickerId_, u.orderId_)
        BY <1>2, <2>3, <2>5 DEF Keeps
      <4> QED BY <4>1, <4>2 DEF EntryIs
    <3>2. CASE full
      <4>1. process' \in {"terminated", "corrupted"}
        BY <2>1, <2>5, <3>1, <3>2 DEF Add
      <4> QED BY <4>1, <3>2, <2>2, <1>3, <1>6
    <3>3. CASE ~full
      <4>1. /\ order_pool_' = OrderPool!Taken(order_pool_)
            /\ orders_per_ticker_' =
                  [orders_per_ticker_ EXCEPT ![u.tickerId_][u.orderId_] =
                     [block |-> order_pool_.next_free_index_,
                      side_ |-> u.side_, terms |-> u.terms]]
            /\ last_inc_seq_num_' = taken'
            /\ process' = IF fault /\ last THEN "terminated" ELSE process
        BY <2>1, <2>5, <3>1, <3>3 DEF Add
      <4>2. PoolCounts(k + 1)' /\ order_pool_'.next_free_index_ = m
        BY <1>1, <1>2, <1>6, <3>3, <4>1, TakenKeepsPool
      <4>3. Keeps(k + 1)'
        <5>0. order_pool_.next_free_index_ \in Nat
          BY <1>3
        <5> SUFFICES ASSUME NEW b \in Nat, b = order_pool_.next_free_index_,
                            NEW e, e = [block |-> b, side_ |-> u.side_,
                                        terms |-> u.terms]
                     PROVE  Keeps(k + 1)'
          BY <5>0, Zenon
        <5>1. Updated(orders_per_ticker_', orders_per_ticker_, u.tickerId_,
                      u.orderId_, e)
          BY <4>1 DEF Updated
        <5> QED BY <5>1, <1>1, <1>2, <1>6, <2>5, AddKeeps
      <4>4. last <=> m = MaxOrderIds
        BY <4>1, <4>2 DEF OrderPool!PastEnd
      <4>5. m <= MaxOrderIds
        BY <1>3, <1>6, <2>2, <3>3
      <4> QED BY <4>1, <4>2, <4>3, <4>4, <4>5, <1>2, <1>3
    <3> QED BY <3>2, <3>3
  <2> QED BY <2>4, <2>5
<1>7. CASE u.type_ # "ADD"
  <2>1. Change(u)
    BY <1>1, <1>2, <1>7 DEF addToSnapshot
  <2> DEFINE order == orders_per_ticker_[u.tickerId_][u.orderId_]
  <2>2. u.orderId_ \in OrderIds /\ order # Null /\ order.side_ = u.side_
    BY <1>1, <1>2, <1>7, EntryFound
  <2>3. /\ orders_per_ticker_' =
              IF u.type_ = "CANCEL" THEN Forgotten(orders_per_ticker_, u)
                                    ELSE Modified(orders_per_ticker_, u)
        /\ order_pool_' =
              IF u.type_ = "CANCEL"
              THEN OrderPool!Returned(order_pool_, order.block)
              ELSE order_pool_
        /\ last_inc_seq_num_' = taken'
        /\ process' = process
    BY <2>1, <2>2 DEF Change
  <2>4. PoolCounts(k + 1)'
    BY <2>3, <1>1, <1>2, <1>7, ReturnedKeepsPool
  <2>5. Keeps(k + 1)'
    <3>1. CASE u.type_ = "CANCEL"
      BY <3>1, <2>3, <1>1, <1>2, CancelKeeps
    <3>2. CASE u.type_ = "MODIFY"
      BY <3>2, <2>3, <1>1, <1>2, ModifyKeeps
    <3>3. u.type_ \in {"ADD", "MODIFY", "CANCEL"}
      BY <1>1, <1>2, UpdateType
    <3> QED BY <3>1, <3>2, <3>3, <1>7
  <2> QED BY <2>3, <2>4, <2>5, <1>2
<1> QED BY <1>6, <1>7

LEMMA TakeKeeps ==
  ASSUME SynthInv, addToSnapshot
  PROVE  SynthInv'
<1> SUFFICES ASSUME NEW k, k = taken PROVE SynthInv'
  OBVIOUS
<1>1. /\ taken' = k + 1 /\ log' = log /\ LogInv /\ k \in Nat
      /\ k + 1 \in 0 .. Len(log) /\ process = "running"
  BY DEF addToSnapshot, SynthInv, LogInv
<1>2. LogInv'
  BY <1>1, LogKept
<1>3. /\ Mislabelled(k + 1)' <=> Mislabelled(k + 1)
      /\ AddsIn(k + 1, Tickers)' = AddsIn(k + 1, Tickers)
  BY <1>1 DEF Mislabelled, AddsIn
<1>4. ~Mislabelled(k + 1) =>
         IF process' = "running"
         THEN Keeps(k + 1)' /\ PoolCounts(k + 1)'
         ELSE Cardinality(AddsIn(k + 1, Tickers)) >= MaxOrderIds
  BY <1>1, TakeKeepsBook
<1>5. SurvivesUntilFull'
  BY <1>1, <1>3, <1>4 DEF SurvivesUntilFull
<1>6. process' = "running" =>
         /\ last_inc_seq_num_' = taken'
         /\ AnArray(orders_per_ticker_')
         /\ order_pool_'.next_free_index_ \in 0 .. MaxOrderIds
  BY TakeKeepsArray
<1> QED BY <1>1, <1>2, <1>3, <1>4, <1>5, <1>6 DEF SynthInv

\* More updates change nothing for the synthesizer.
LEMMA SendKeeps ==
  ASSUME SynthInv, sendMarketUpdate
  PROVE  SynthInv'
<1>1. LogInv /\ LogInv'
  BY LogStep DEF SynthInv
<1>2. PICK u : log' = Append(log, u)
  BY DEF sendMarketUpdate, add, match, cancel
<1>3. /\ log \in Seq(AnUpdate) /\ Len(log) \in Nat
      /\ Len(log') = Len(log) + 1
      /\ \A n \in 1 .. Len(log) : log'[n] = log[n]
  BY <1>1, <1>2 DEF LogInv
<1>4. taken' = taken /\ taken \in 0 .. Len(log) /\ taken \in Nat
  BY <1>3 DEF sendMarketUpdate, SynthInv
<1> SUFFICES ASSUME NEW k \in Nat, k = taken PROVE SynthInv'
  BY <1>4
<1>5. \A n \in 1 .. k : log'[n] = log[n] /\ n \in 1 .. Len(log)
  BY <1>3, <1>4
<1>6. /\ \A m, n \in 1 .. k : SameOrder(m, n)' <=> SameOrder(m, n)
      /\ LiveAfter(k)' = LiveAfter(k)
      /\ \A tickers : AddsIn(k, tickers)' = AddsIn(k, tickers)
      /\ Mislabelled(k)' <=> Mislabelled(k)
  BY <1>5, Stable
<1>7. \A n \in LiveAfter(k) : n \in 1 .. k
  BY DEF LiveAfter
<1>8. SurvivesUntilFull'
  BY <1>4, <1>6 DEF sendMarketUpdate, SynthInv, SurvivesUntilFull
<1>9. Keeps(k) => Keeps(k)'
  <2> SUFFICES ASSUME Keeps(k) PROVE Keeps(k)'
    OBVIOUS
  <2>1. orders_per_ticker_' = orders_per_ticker_
    BY DEF sendMarketUpdate, synthesizer
  <2>2. ASSUME NEW t \in Tickers, NEW o \in OrderIds PROVE EntryIs(k, t, o)'
    <3>1. EntryIs(k, t, o)
      BY DEF Keeps
    <3>2. \A n \in 1 .. k : IsOf(n, t, o)' <=> IsOf(n, t, o)
      BY <1>5 DEF IsOf
    <3>3. CASE orders_per_ticker_[t][o] = Null
      BY <3>1, <3>2, <3>3, <2>1, <1>6, <1>7 DEF EntryIs
    <3>4. CASE orders_per_ticker_[t][o] # Null
      <4>1. PICK n \in LiveAfter(k), m \in 1 .. k :
               /\ IsOf(n, t, o)
               /\ Latest(m, n, k)
               /\ orders_per_ticker_[t][o].side_ = log[n].side_
               /\ orders_per_ticker_[t][o].terms = log[m].terms
        BY <3>1, <3>4 DEF EntryIs
      <4>2. /\ m \in n .. k /\ SameOrder(m, n)
            /\ \A j \in m + 1 .. k : j \in 1 .. k /\ ~SameOrder(j, n)
        BY <4>1 DEF Latest
      <4>3. Latest(m, n, k)'
        BY <4>1, <4>2, <1>6, <1>7 DEF Latest
      <4> QED BY <4>1, <4>3, <3>2, <3>4, <2>1, <1>5, <1>6, <1>7 DEF EntryIs
    <3> QED BY <3>3, <3>4
  <2> QED BY <2>1, <2>2, <1>5, <1>6, <1>7 DEF Keeps
<1>10. PoolCounts(k) => PoolCounts(k)'
  BY <1>6 DEF sendMarketUpdate, synthesizer, PoolCounts
<1>11. /\ process' = process /\ last_inc_seq_num_' = last_inc_seq_num_
       /\ orders_per_ticker_' = orders_per_ticker_
       /\ order_pool_' = order_pool_
       /\ taken' \in 0 .. Len(log')
  BY <1>3, <1>4 DEF sendMarketUpdate, synthesizer
<1> QED BY <1>1, <1>4, <1>6, <1>8, <1>9, <1>10, <1>11 DEF SynthInv

LEMMA SynthUnchanged ==
  ASSUME SynthInv, UNCHANGED <<log, taken, synthesizer, process>>
  PROVE  SynthInv'
<1>1. LogInv'
  BY LogKept DEF SynthInv
<1>2. /\ \A k : LiveAfter(k)' = LiveAfter(k)
      /\ \A k, tickers : AddsIn(k, tickers)' = AddsIn(k, tickers)
      /\ \A m, n, k : Latest(m, n, k)' <=> Latest(m, n, k)
      /\ \A n, t, o : IsOf(n, t, o)' <=> IsOf(n, t, o)
      /\ Mislabelled(taken)' <=> Mislabelled(taken)
  BY DEF LiveAfter, AddsIn, SameOrder, Latest, IsOf, Mislabelled
<1>3. /\ orders_per_ticker_' = orders_per_ticker_
      /\ order_pool_' = order_pool_
      /\ last_inc_seq_num_' = last_inc_seq_num_
  BY DEF synthesizer
<1>4. \A k, t, o : EntryIs(k, t, o)' <=> EntryIs(k, t, o)
  BY <1>2, <1>3 DEF EntryIs
<1>5. Keeps(taken) => Keeps(taken)'
  BY <1>2, <1>3, <1>4 DEF Keeps
<1>6. PoolCounts(taken) => PoolCounts(taken)'
  BY <1>2, <1>3 DEF PoolCounts
<1>7. SurvivesUntilFull'
  BY <1>2 DEF SynthInv, SurvivesUntilFull
<1> QED BY <1>1, <1>2, <1>3, <1>5, <1>6, <1>7 DEF SynthInv

LEMMA SynthInit == Init => SynthInv
<1> SUFFICES ASSUME Init PROVE SynthInv
  OBVIOUS
<1>1. /\ log = << >> /\ Len(log) = 0 /\ taken = 0
      /\ last_inc_seq_num_ = 0 /\ process = "running"
  BY DEF Init
<1>2. LogInv
  BY <1>1 DEF LogInv
<1>3. LiveAfter(0) = {} /\ AddsIn(0, Tickers) = {}
  BY DEF LiveAfter, AddsIn
<1>4. Cardinality(AddsIn(0, Tickers)) = 0
  BY <1>3, FS_EmptySet
<1>5. Keeps(0)
  <2>1. orders_per_ticker_ = [t \in Tickers |-> [o \in OrderIds |-> Null]]
    BY DEF Init
  <2>2. AnArray(orders_per_ticker_)
    BY <2>1 DEF AnArray
  <2> QED BY <2>1, <2>2, <1>3 DEF Keeps, EntryIs
<1>6. PoolCounts(0)
  <2>1. /\ order_pool_.next_free_index_ = 0
        /\ order_pool_.is_free_ = [b \in OrderIds |-> TRUE]
    BY DEF Init, OrderPool!EmptyPool, OrderPool!Blocks, OrderIds
  <2>2. order_pool_.is_free_ \in [OrderIds -> BOOLEAN]
    BY <2>1, Zenon
  <2> QED BY <2>1, <2>2, <1>4, SynthesizerAssumption DEF PoolCounts
<1>7. order_pool_.next_free_index_ = 0
  BY DEF Init, OrderPool!EmptyPool
<1> QED BY <1>1, <1>2, <1>5, <1>6, <1>7, SynthesizerAssumption
        DEF SynthInv, SurvivesUntilFull, Keeps

LEMMA SynthStep == SynthInv /\ [Next]_vars => SynthInv'
<1> SUFFICES ASSUME SynthInv, [Next]_vars PROVE SynthInv'
  OBVIOUS
<1>1. CASE sendMarketUpdate
  BY <1>1, SendKeeps
<1>2. CASE addToSnapshot
  BY <1>2, TakeKeeps
<1>3. CASE drained \/ publishSnapshot \/ notYet \/ UNCHANGED vars
  <2>1. UNCHANGED <<log, taken, synthesizer, process>>
    BY <1>3 DEF drained, publishSnapshot, notYet, vars
  <2> QED BY <2>1, SynthUnchanged
<1> QED BY <1>1, <1>2, <1>3 DEF Next

\* For every number of instruments, orders and updates: only a CANCEL by the
\* id of a client, or an ADD for which the pool has no further block, ends the
\* synthesizer (addToSnapshot(), me_order_book.cpp:185).
THEOREM OnePoolServed == Spec => []SurvivesUntilFull
<1>1. SynthInv => SurvivesUntilFull
  BY DEF SynthInv
<1> QED BY <1>1, SynthInit, SynthStep, PTL DEF Spec

-----------------------------------------------------------------------------
(* Sequences of sequences. *)

\* Induction up to N, for the members of a set.
LEMMA UpTo ==
  ASSUME NEW N \in Nat, NEW P, 0 \in P, \A n \in 1 .. N : n - 1 \in P => n \in P
  PROVE  \A n \in 0 .. N : n \in P
<1> DEFINE bad == {n \in 0 .. N : n \notin P}
<1> SUFFICES ASSUME bad # {} PROVE FALSE
  OBVIOUS
<1>1. PICK m \in bad : \A k \in bad : m <= k
  <2>1. bad \subseteq Nat
    OBVIOUS
  <2> HIDE DEF bad
  <2> QED BY <2>1, LeastMember
<1>2. m \in 1 .. N /\ m - 1 \in 0 .. N /\ m - 1 \notin bad
  BY <1>1
<1> QED BY <1>1, <1>2

IsStep(f, T, N) == f \in [1 .. N -> [T -> T]]

\* The values of g come from base, one step of f after the other.
Iterates(g, f, base, T, N) ==
    /\ g \in [0 .. N -> T]
    /\ g[0] = base
    /\ \A n \in 1 .. N : g[n] = f[n][g[n - 1]]

LEMMA StepsExist ==
  ASSUME NEW T, NEW base \in T, NEW N \in Nat, NEW f, IsStep(f, T, N)
  PROVE  \E g : Iterates(g, f, base, T, N)
<1>0. f \in [1 .. N -> [T -> T]]
  BY DEF IsStep
<1> DEFINE P == {k \in 0 .. N : \E g \in [0 .. k -> T] :
                    g[0] = base /\ \A n \in 1 .. k : g[n] = f[n][g[n - 1]]}
<1>1. 0 \in P
  <2> DEFINE g == [n \in 0 .. 0 |-> base]
  <2>1. g \in [0 .. 0 -> T] /\ g[0] = base /\ 1 .. 0 = {}
    OBVIOUS
  <2> HIDE DEF g
  <2> QED BY <2>1
<1>2. ASSUME NEW k \in 1 .. N, k - 1 \in P
      PROVE  k \in P
  <2>1. PICK g \in [0 .. k - 1 -> T] :
           g[0] = base /\ \A n \in 1 .. k - 1 : g[n] = f[n][g[n - 1]]
    BY <1>2
  <2> DEFINE h == [n \in 0 .. k |-> IF n = k THEN f[k][g[k - 1]] ELSE g[n]]
  <2>2. g[k - 1] \in T /\ f[k][g[k - 1]] \in T
    BY <1>0
  <2>3. h \in [0 .. k -> T]
    BY <2>2
  <2>4. h[0] = base
    BY <2>1
  <2>5. \A n \in 1 .. k : h[n] = f[n][h[n - 1]]
    <3> SUFFICES ASSUME NEW n \in 1 .. k PROVE h[n] = f[n][h[n - 1]]
      OBVIOUS
    <3>1. n - 1 \in 0 .. k /\ n - 1 # k /\ h[n - 1] = g[n - 1]
      OBVIOUS
    <3>2. CASE n = k
      BY <3>1, <3>2
    <3>3. CASE n # k
      <4>1. n \in 1 .. k - 1 /\ h[n] = g[n]
        BY <3>3
      <4> QED BY <4>1, <3>1, <2>1
    <3> QED BY <3>2, <3>3
  <2> HIDE DEF h
  <2> QED BY <2>3, <2>4, <2>5
<1> HIDE DEF P
<1>3. \A n \in 1 .. N : n - 1 \in P => n \in P
  BY <1>2
<1>4. \A n \in 0 .. N : n \in P
  BY <1>1, <1>3, UpTo
<1>5. N \in P
  BY <1>4
<1> QED BY <1>5 DEF P, Iterates

AreParts(parts, M, N) == parts \in [1 .. N -> Seq(M)]

\* The values of g are the parts up to n, one after the other.
Concats(g, parts, M, N) ==
    /\ g \in [0 .. N -> Seq(M)]
    /\ g[0] = << >>
    /\ \A n \in 1 .. N : g[n] = g[n - 1] \o parts[n]

LEMMA FlattenSteps ==
  ASSUME NEW M, NEW N \in Nat \ {0}, NEW parts, AreParts(parts, M, N)
  PROVE  \E g : Concats(g, parts, M, N) /\ FlattenSeq(parts) = g[N]
<1> DEFINE T == Seq(M)
           nothing == << >>
           step(n, q) == q \o parts[n]
           f == [n \in 1 .. N |-> [q \in T |-> step(n, q)]]
           flatten[n \in 1 .. N] ==
              IF n = 1 THEN parts[n] ELSE step(n, flatten[n - 1])
<1>1. /\ nothing \in T
      /\ \A n \in 1 .. N : parts[n] \in T /\ step(n, nothing) = parts[n]
  BY DEF AreParts
<1>2. \A n \in 1 .. N, q \in T : step(n, q) \in T
  BY <1>1
<1>3. FlattenSeq(parts) = flatten[N]
  <2>1. parts \in Seq(Seq(M)) /\ Len(parts) = N
    BY DEF AreParts
  <2> QED BY <2>1 DEF FlattenSeq
<1> HIDE DEF T, nothing, step
<1>4. f \in [1 .. N -> [T -> T]]
  BY <1>2
<1>5. PICK g : Iterates(g, f, nothing, T, N)
  <2>1. IsStep(f, T, N)
    BY <1>4 DEF IsStep
  <2>2. N \in Nat
    OBVIOUS
  <2> HIDE DEF f
  <2> QED BY <2>1, <2>2, <1>1, StepsExist
<1>6. /\ g \in [0 .. N -> T]
      /\ g[0] = nothing
      /\ \A n \in 1 .. N : g[n] = f[n][g[n - 1]]
  BY <1>5 DEF Iterates
<1>7. \A n \in 1 .. N : g[n] = step(n, g[n - 1])
  <2> SUFFICES ASSUME NEW n \in 1 .. N PROVE g[n] = step(n, g[n - 1])
    OBVIOUS
  <2>1. n - 1 \in 0 .. N
    OBVIOUS
  <2>2. g[n - 1] \in T
    BY <2>1, <1>6
  <2> QED BY <2>2, <1>6
<1> DEFINE h == [n \in 1 .. N |-> g[n]]
<1>8. h = [n \in 1 .. N |-> IF n = 1 THEN parts[n] ELSE step(n, h[n - 1])]
  <2> DEFINE e == [n \in 1 .. N |->
                     IF n = 1 THEN parts[n] ELSE step(n, h[n - 1])]
  <2> SUFFICES ASSUME NEW n \in 1 .. N PROVE h[n] = e[n]
    OBVIOUS
  <2>1. CASE n = 1
    <3>1. g[1] = step(1, nothing) /\ step(1, nothing) = parts[1]
      BY <1>1, <1>6, <1>7
    <3> QED BY <3>1, <2>1
  <2>2. CASE n # 1
    <3>1. n - 1 \in 1 .. N
      BY <2>2
    <3>2. h[n - 1] = g[n - 1]
      BY <3>1
    <3> QED BY <3>2, <2>2, <1>7
  <2> QED BY <2>1, <2>2
<1> HIDE DEF h
<1>9. flatten = [n \in 1 .. N |->
                   IF n = 1 THEN parts[n] ELSE step(n, flatten[n - 1])]
  BY <1>8
<1> HIDE DEF flatten
<1>10. \A n \in 1 .. N : flatten[n] = g[n]
  <2> DEFINE P == {n \in 0 .. N : n = 0 \/ flatten[n] = g[n]}
  <2>1. 0 \in P
    OBVIOUS
  <2>2. ASSUME NEW n \in 1 .. N, n - 1 \in P PROVE n \in P
    <3>1. CASE n = 1
      <4>1. g[1] = step(1, nothing) /\ step(1, nothing) = parts[1]
        BY <1>1, <1>6, <1>7
      <4> QED BY <4>1, <3>1, <1>9
    <3>2. CASE n # 1
      <4>1. n - 1 \in 1 .. N /\ n - 1 # 0
        BY <3>2
      <4>2. flatten[n - 1] = g[n - 1]
        BY <4>1, <2>2
      <4>3. flatten[n] = step(n, flatten[n - 1])
        BY <3>2, <1>9
      <4>4. flatten[n] = g[n]
        BY <4>2, <4>3, <1>7
      <4> QED BY <4>4
    <3> QED BY <3>1, <3>2
  <2> HIDE DEF P
  <2>3. \A n \in 1 .. N : n - 1 \in P => n \in P
    BY <2>2
  <2>4. \A n \in 0 .. N : n \in P
    BY <2>1, <2>3, UpTo
  <2> QED BY <2>4 DEF P
<1>11. FlattenSeq(parts) = g[N]
  BY <1>3, <1>10
<1> QED BY <1>6, <1>7, <1>11 DEF T, nothing, step, Concats

\* Every element of s is one of the first k parts', behind the first element
\* of the part, and every element of these parts is in s.
Joined(s, parts, k) ==
    /\ \A p \in 1 .. Len(s) : \E i \in 1 .. k : \E q \in 1 .. Len(parts[i]) :
          /\ s[p] = parts[i][q]
          /\ q = 1 \/ \E j \in 1 .. p - 1 : s[j] = parts[i][1]
    /\ \A i \in 1 .. k : \A q \in 1 .. Len(parts[i]) :
          \E p \in 1 .. Len(s) : s[p] = parts[i][q]

LEMMA JoinedStep ==
  ASSUME NEW M, NEW parts, NEW k \in Nat \ {0}, NEW s \in Seq(M),
         parts[k] \in Seq(M), Joined(s, parts, k - 1)
  PROVE  Joined(s \o parts[k], parts, k)
<1>0. s \o parts[k] \in Seq(M) /\ Len(s) \in Nat /\ Len(parts[k]) \in Nat
  OBVIOUS
<1> SUFFICES ASSUME NEW part \in Seq(M), part = parts[k],
                    NEW L \in Nat, L = Len(s), NEW P \in Nat, P = Len(part),
                    NEW t \in Seq(M), t = s \o part
             PROVE  Joined(t, parts, k)
  BY <1>0, Zenon
<1>1. /\ Len(t) = L + P
      /\ \A p \in 1 .. L : t[p] = s[p] /\ p \in 1 .. L + P
      /\ \A q \in 1 .. P : t[L + q] = part[q] /\ L + q \in 1 .. L + P
  OBVIOUS
<1>2. k \in 1 .. k /\ \A i \in 1 .. k : i \in 1 .. k - 1 \/ i = k
  OBVIOUS
<1>3. \A i \in 1 .. k - 1 : i \in 1 .. k
  OBVIOUS
<1>4. ASSUME NEW p \in 1 .. Len(t)
      PROVE  \E i \in 1 .. k : \E q \in 1 .. Len(parts[i]) :
                /\ t[p] = parts[i][q]
                /\ q = 1 \/ \E j \in 1 .. p - 1 : t[j] = parts[i][1]
  <2>1. CASE p \in 1 .. L
    <3>1. PICK i \in 1 .. k - 1 : \E q \in 1 .. Len(parts[i]) :
                /\ s[p] = parts[i][q]
                /\ q = 1 \/ \E j \in 1 .. p - 1 : s[j] = parts[i][1]
      BY <2>1 DEF Joined
    <3>2. \A j \in 1 .. p - 1 : t[j] = s[j]
      BY <2>1, <1>1
    <3> QED BY <3>1, <3>2, <2>1, <1>1, <1>3
  <2>2. CASE p \notin 1 .. L
    <3> SUFFICES ASSUME NEW q \in 1 .. P, p = L + q
                 PROVE  \E i \in 1 .. k : \E r \in 1 .. Len(parts[i]) :
                           /\ t[p] = parts[i][r]
                           /\ r = 1 \/ \E j \in 1 .. p - 1 : t[j] = parts[i][1]
      <4>1. p - L \in 1 .. P /\ p = L + (p - L)
        BY <2>2, <1>1
      <4> QED BY <4>1
    <3>1. t[p] = parts[k][q] /\ q \in 1 .. Len(parts[k])
      BY <1>1
    <3>2. q = 1 \/ (L + 1 \in 1 .. p - 1 /\ t[L + 1] = parts[k][1])
      <4>1. 1 \in 1 .. P
        OBVIOUS
      <4> QED BY <4>1, <1>1
    <3> QED BY <3>1, <3>2, <1>2
  <2> QED BY <2>1, <2>2
<1>5. ASSUME NEW i \in 1 .. k, NEW q \in 1 .. Len(parts[i])
      PROVE  \E p \in 1 .. Len(t) : t[p] = parts[i][q]
  <2>1. CASE i \in 1 .. k - 1
    <3>1. PICK p \in 1 .. L : s[p] = parts[i][q]
      BY <2>1 DEF Joined
    <3> QED BY <3>1, <1>1
  <2>2. CASE i = k
    BY <2>2, <1>1
  <2> QED BY <2>1, <2>2, <1>2
<1>6. \A p \in 1 .. Len(t) : \E i \in 1 .. k : \E q \in 1 .. Len(parts[i]) :
         /\ t[p] = parts[i][q]
         /\ q = 1 \/ \E j \in 1 .. p - 1 : t[j] = parts[i][1]
  BY <1>4, Zenon
<1>7. \A i \in 1 .. k : \A q \in 1 .. Len(parts[i]) :
         \E p \in 1 .. Len(t) : t[p] = parts[i][q]
  BY <1>5
<1> QED BY <1>6, <1>7, Zenon DEF Joined

LEMMA FlattenJoined ==
  ASSUME NEW M, NEW N \in Nat \ {0}, NEW parts, AreParts(parts, M, N)
  PROVE  FlattenSeq(parts) \in Seq(M) /\ Joined(FlattenSeq(parts), parts, N)
<1>1. PICK g : Concats(g, parts, M, N) /\ FlattenSeq(parts) = g[N]
  BY FlattenSteps
<1>2. /\ g \in [0 .. N -> Seq(M)]
      /\ g[0] = << >>
      /\ \A n \in 1 .. N : g[n] = g[n - 1] \o parts[n] /\ parts[n] \in Seq(M)
  BY <1>1 DEF Concats, AreParts
<1> DEFINE P == {n \in 0 .. N : Joined(g[n], parts, n)}
<1>3. 0 \in P
  BY <1>2 DEF Joined
<1>4. ASSUME NEW n \in 1 .. N, n - 1 \in P PROVE n \in P
  <2>1. /\ n \in Nat \ {0} /\ n - 1 \in 0 .. N /\ n \in 0 .. N
        /\ Joined(g[n - 1], parts, n - 1)
    BY <1>4
  <2>2. g[n - 1] \in Seq(M) /\ parts[n] \in Seq(M)
    BY <1>2, <2>1
  <2>3. Joined(g[n - 1] \o parts[n], parts, n)
    BY <2>1, <2>2, JoinedStep
  <2> QED BY <2>1, <2>3, <1>2
<1> HIDE DEF P
<1>5. \A n \in 1 .. N : n - 1 \in P => n \in P
  BY <1>4
<1>6. \A n \in 0 .. N : n \in P
  BY <1>3, <1>5, UpTo
<1>7. N \in P /\ N \in 0 .. N
  BY <1>6
<1> QED BY <1>1, <1>2, <1>7 DEF P

-----------------------------------------------------------------------------
(* A snapshot cycle. *)

AMessage ==
    [type_ : {"CLEAR", "ADD", "SNAPSHOT_START", "SNAPSHOT_END"},
     tickerId_ : Tickers \cup {Null}, orderId_ : Nat \cup {Null},
     side_ : BookSides \cup {Null}, terms : Terms \cup {Null}]

Clear(t) == MEMarketUpdate("CLEAR", t, Null, Null, Null)

OrderMessage(t, o) ==
    MEMarketUpdate("ADD", t, o, orders_per_ticker_[t][o].side_,
                   orders_per_ticker_[t][o].terms)

\* The part of an instrument: CLEAR, and the messages of its orders.
PartOf(s, t) ==
    /\ s \in Seq(AMessage)
    /\ Len(s) >= 1
    /\ s[1] = Clear(t)
    /\ \A q \in 2 .. Len(s) : \E o \in OrderIds :
          orders_per_ticker_[t][o] # Null /\ s[q] = OrderMessage(t, o)
    /\ \A o \in OrderIds : orders_per_ticker_[t][o] # Null =>
          \E q \in 1 .. Len(s) : s[q] = OrderMessage(t, o)

LEMMA MessageTypes ==
  ASSUME AnArray(orders_per_ticker_), NEW t \in Tickers
  PROVE  /\ Clear(t) \in AMessage
         /\ \A o \in OrderIds :
               orders_per_ticker_[t][o] # Null => OrderMessage(t, o) \in AMessage
<1>1. Clear(t) \in AMessage
  BY DEF Clear, MEMarketUpdate, AMessage
<1>2. ASSUME NEW o \in OrderIds, orders_per_ticker_[t][o] # Null
      PROVE  OrderMessage(t, o) \in AMessage
  <2>1. orders_per_ticker_[t][o] \in AnEntry
    BY <1>2 DEF AnArray
  <2>2. o \in Nat
    BY SynthesizerAssumption DEF OrderIds
  <2>3. /\ orders_per_ticker_[t][o].side_ \in BookSides
        /\ orders_per_ticker_[t][o].terms \in Terms
    BY <2>1 DEF AnEntry
  <2> QED BY <2>2, <2>3 DEF OrderMessage, MEMarketUpdate, AMessage
<1> QED BY <1>1, <1>2

LEMMA MessagesPart ==
  ASSUME AnArray(orders_per_ticker_), NEW t \in Tickers
  PROVE  PartOf(Messages(t), t)
<1> DEFINE cell(i) == IF orders_per_ticker_[t][i - 1] = Null THEN << >>
                      ELSE <<OrderMessage(t, i - 1)>>
           cells == [i \in 1 .. MaxOrderIds |-> cell(i)]
           flat == FlattenSeq(cells)
<1>1. Messages(t) = <<Clear(t)>> \o flat
  BY DEF Messages, Clear, OrderMessage
<1>2. /\ MaxOrderIds \in Nat \ {0}
      /\ \A i \in 1 .. MaxOrderIds : i - 1 \in OrderIds
      /\ \A o \in OrderIds : o + 1 \in 1 .. MaxOrderIds /\ (o + 1) - 1 = o
  BY SynthesizerAssumption DEF OrderIds
<1>3. AreParts(cells, AMessage, MaxOrderIds)
  <2>1. \A i \in 1 .. MaxOrderIds : cell(i) \in Seq(AMessage)
    BY <1>2, MessageTypes
  <2> HIDE DEF cell
  <2> QED BY <2>1 DEF AreParts
<1>4. flat \in Seq(AMessage) /\ Joined(flat, cells, MaxOrderIds)
  <2> HIDE DEF cells
  <2> QED BY <1>2, <1>3, FlattenJoined
<1> SUFFICES ASSUME NEW s \in Seq(AMessage), Joined(s, cells, MaxOrderIds)
             PROVE  PartOf(<<Clear(t)>> \o s, t)
  BY <1>1, <1>4
<1>5. ASSUME NEW p \in 1 .. Len(s)
      PROVE  \E o \in OrderIds :
                orders_per_ticker_[t][o] # Null /\ s[p] = OrderMessage(t, o)
  <2>1. PICK i \in 1 .. MaxOrderIds :
           \E q \in 1 .. Len(cells[i]) : s[p] = cells[i][q]
    BY DEF Joined
  <2>2. PICK q \in 1 .. Len(cell(i)) : s[p] = cell(i)[q]
    BY <2>1
  <2>3. orders_per_ticker_[t][i - 1] # Null
    BY <2>2
  <2>4. s[p] = OrderMessage(t, i - 1)
    BY <2>2, <2>3
  <2> QED BY <2>3, <2>4, <1>2
<1>6. ASSUME NEW o \in OrderIds, orders_per_ticker_[t][o] # Null
      PROVE  \E p \in 1 .. Len(s) : s[p] = OrderMessage(t, o)
  <2>1. PICK i \in 1 .. MaxOrderIds : i - 1 = o
    BY <1>2
  <2>2. cells[i] = <<OrderMessage(t, o)>>
    BY <2>1, <1>6
  <2>3. 1 \in 1 .. Len(cells[i]) /\ cells[i][1] = OrderMessage(t, o)
    <3> HIDE DEF cells
    <3> QED BY <2>2
  <2>4. \A q \in 1 .. Len(cells[i]) : \E p \in 1 .. Len(s) : s[p] = cells[i][q]
    <3> HIDE DEF cells
    <3> QED BY DEF Joined
  <2> HIDE DEF cells
  <2> QED BY <2>3, <2>4
<1> HIDE DEF cells
<1>10. Clear(t) \in AMessage /\ Len(s) \in Nat
  BY MessageTypes
<1> SUFFICES ASSUME NEW c \in AMessage, c = Clear(t),
                    NEW r, r = <<c>> \o s, NEW L \in Nat, L = Len(s)
             PROVE  PartOf(r, t)
  BY <1>10, Zenon
<1>7. /\ r \in Seq(AMessage) /\ Len(r) = L + 1 /\ r[1] = c
      /\ \A q \in 2 .. L + 1 : r[q] = s[q - 1] /\ q - 1 \in 1 .. L
      /\ \A p \in 1 .. L : r[p + 1] = s[p] /\ p + 1 \in 1 .. L + 1
  OBVIOUS
<1>8. \A q \in 2 .. Len(r) : \E o \in OrderIds :
          orders_per_ticker_[t][o] # Null /\ r[q] = OrderMessage(t, o)
  BY <1>5, <1>7
<1>9. \A o \in OrderIds : orders_per_ticker_[t][o] # Null =>
          \E q \in 1 .. Len(r) : r[q] = OrderMessage(t, o)
  BY <1>6, <1>7
<1> QED BY <1>7, <1>8, <1>9 DEF PartOf

\* A cycle as the array makes it.
CycleOf(c) ==
    /\ c \in Seq(AMessage)
    /\ Len(c) >= 2
    /\ c[1] = Marker("SNAPSHOT_START")
    /\ c[Len(c)] = Marker("SNAPSHOT_END")
    /\ \A i \in 1 .. Len(c) : c[i].type_ = "ADD" =>
          \E t \in Tickers, o \in OrderIds :
             /\ orders_per_ticker_[t][o] # Null
             /\ c[i] = OrderMessage(t, o)
             /\ \E j \in 1 .. i - 1 : c[j] = Clear(t)
    /\ \A t \in Tickers, o \in OrderIds : orders_per_ticker_[t][o] # Null =>
          \E i \in 1 .. Len(c) : c[i] = OrderMessage(t, o)

LEMMA CycleIs ==
  ASSUME AnArray(orders_per_ticker_), last_inc_seq_num_ \in Nat
  PROVE  CycleOf(<<Marker("SNAPSHOT_START")>>
                 \o FlattenSeq([i \in 1 .. NumTickers |-> Messages(i - 1)])
                 \o <<Marker("SNAPSHOT_END")>>)
<1> DEFINE parts == [i \in 1 .. NumTickers |-> Messages(i - 1)]
<1>1. /\ NumTickers \in Nat \ {0}
      /\ \A i \in 1 .. NumTickers : i - 1 \in Tickers
      /\ \A t \in Tickers : t + 1 \in 1 .. NumTickers /\ (t + 1) - 1 = t
  BY SynthesizerAssumption DEF Tickers
<1>2. \A i \in 1 .. NumTickers : PartOf(parts[i], i - 1)
  BY <1>1, MessagesPart
<1>3. AreParts(parts, AMessage, NumTickers)
  <2>1. \A i \in 1 .. NumTickers : Messages(i - 1) \in Seq(AMessage)
    BY <1>2 DEF PartOf
  <2> QED BY <2>1 DEF AreParts
<1> HIDE DEF parts
<1>4. FlattenSeq(parts) \in Seq(AMessage)
      /\ Joined(FlattenSeq(parts), parts, NumTickers)
  BY <1>1, <1>3, FlattenJoined
<1>5. /\ Marker("SNAPSHOT_START") \in AMessage
      /\ Marker("SNAPSHOT_END") \in AMessage
      /\ Marker("SNAPSHOT_START").type_ # "ADD"
      /\ Marker("SNAPSHOT_END").type_ # "ADD"
      /\ \A t : Clear(t).type_ # "ADD"
  BY DEF Marker, Clear, MEMarketUpdate, AMessage
<1>6. Len(FlattenSeq(parts)) \in Nat
  BY <1>4
<1> SUFFICES ASSUME NEW a \in AMessage, a = Marker("SNAPSHOT_START"),
                    NEW z \in AMessage, z = Marker("SNAPSHOT_END"),
                    NEW s \in Seq(AMessage), Joined(s, parts, NumTickers),
                    NEW L \in Nat, L = Len(s),
                    NEW c, c = <<a>> \o s \o <<z>>
             PROVE  CycleOf(c)
  BY <1>4, <1>5, <1>6, Zenon DEF parts
<1>7. /\ c \in Seq(AMessage) /\ Len(c) = L + 2 /\ c[1] = a /\ c[L + 2] = z
      /\ \A p \in 1 .. L : c[p + 1] = s[p] /\ p + 1 \in 1 .. L + 2
  <2>1. /\ <<a>> \o s \in Seq(AMessage)
        /\ Len(<<a>> \o s) = L + 1
        /\ (<<a>> \o s)[1] = a
        /\ \A p \in 1 .. L : (<<a>> \o s)[p + 1] = s[p]
    OBVIOUS
  <2> SUFFICES ASSUME NEW b \in Seq(AMessage), Len(b) = L + 1, b[1] = a,
                      \A p \in 1 .. L : b[p + 1] = s[p], c = b \o <<z>>
               PROVE  /\ c \in Seq(AMessage) /\ Len(c) = L + 2
                      /\ c[1] = a /\ c[L + 2] = z
                      /\ \A p \in 1 .. L :
                            c[p + 1] = s[p] /\ p + 1 \in 1 .. L + 2
    BY <2>1, Zenon
  <2> QED OBVIOUS
<1>8. ASSUME NEW i \in 1 .. L + 2, c[i].type_ = "ADD"
      PROVE  \E t \in Tickers, o \in OrderIds :
                /\ orders_per_ticker_[t][o] # Null
                /\ c[i] = OrderMessage(t, o)
                /\ \E j \in 1 .. i - 1 : c[j] = Clear(t)
  <2>1. i # 1 /\ i # L + 2
    BY <1>5, <1>7, <1>8
  <2>2. PICK p \in 1 .. L : i = p + 1
    <3>1. i - 1 \in 1 .. L /\ i = (i - 1) + 1
      BY <2>1
    <3> QED BY <3>1
  <2>3. c[i] = s[p]
    BY <1>7, <2>2
  <2>0. PICK x \in 1 .. NumTickers : \E q \in 1 .. Len(parts[x]) :
           /\ s[p] = parts[x][q]
           /\ q = 1 \/ \E j \in 1 .. p - 1 : s[j] = parts[x][1]
    BY DEF Joined
  <2>4. PICK q \in 1 .. Len(parts[x]) :
           /\ s[p] = parts[x][q]
           /\ q = 1 \/ \E j \in 1 .. p - 1 : s[j] = parts[x][1]
    BY <2>0
  <2>5. /\ parts[x] \in Seq(AMessage)
        /\ parts[x][1] = Clear(x - 1)
        /\ \A r \in 2 .. Len(parts[x]) : \E o \in OrderIds :
              /\ orders_per_ticker_[x - 1][o] # Null
              /\ parts[x][r] = OrderMessage(x - 1, o)
    BY <1>2 DEF PartOf
  <2>6. q # 1
    BY <1>5, <1>8, <2>3, <2>4, <2>5
  <2>7. q \in 2 .. Len(parts[x])
    BY <2>5, <2>6
  <2>8. PICK o \in OrderIds : /\ orders_per_ticker_[x - 1][o] # Null
                              /\ parts[x][q] = OrderMessage(x - 1, o)
    BY <2>5, <2>7
  <2>9. PICK j \in 1 .. p - 1 : s[j] = Clear(x - 1)
    BY <2>4, <2>5, <2>6
  <2>10. j + 1 \in 1 .. i - 1 /\ c[j + 1] = Clear(x - 1)
    <3>1. j \in 1 .. L /\ j + 1 \in 1 .. i - 1
      BY <2>2
    <3> QED BY <3>1, <2>9, <1>7
  <2> QED BY <2>3, <2>4, <2>8, <2>10, <1>1
<1>9. ASSUME NEW t \in Tickers, NEW o \in OrderIds,
             orders_per_ticker_[t][o] # Null
      PROVE  \E i \in 1 .. L + 2 : c[i] = OrderMessage(t, o)
  <2>1. PICK x \in 1 .. NumTickers : x - 1 = t
    BY <1>1
  <2>2. PICK q \in 1 .. Len(parts[x]) : parts[x][q] = OrderMessage(t, o)
    BY <1>2, <1>9, <2>1 DEF PartOf
  <2>3. PICK p \in 1 .. L : s[p] = parts[x][q]
    BY <2>2 DEF Joined
  <2> QED BY <2>2, <2>3, <1>7
<1>10. \A i \in 1 .. Len(c) : c[i].type_ = "ADD" =>
          \E t \in Tickers, o \in OrderIds :
             /\ orders_per_ticker_[t][o] # Null
             /\ c[i] = OrderMessage(t, o)
             /\ \E j \in 1 .. i - 1 : c[j] = Clear(t)
  BY <1>7, <1>8
<1>11. \A t \in Tickers, o \in OrderIds : orders_per_ticker_[t][o] # Null =>
          \E i \in 1 .. Len(c) : c[i] = OrderMessage(t, o)
  BY <1>7, <1>9
<1>12. /\ c \in Seq(AMessage)
       /\ Len(c) >= 2
       /\ c[1] = Marker("SNAPSHOT_START")
       /\ c[Len(c)] = Marker("SNAPSHOT_END")
  BY <1>7
<1> QED BY <1>10, <1>11, <1>12, Zenon DEF CycleOf

-----------------------------------------------------------------------------
(* The snapshot is the book. *)

\* The orders of the exchange's books after k updates.
BookAfter(k) ==
    {<<log[n].tickerId_, log[n].marketId, log[n].side_,
       log[LatestOf(n, k)].terms>> : n \in LiveAfter(k)}

\* Datagrams pub are a cycle that carries number k and the orders of book.
IsSnapshot(pub, k, book) ==
    LET up(i) == pub[i].update
        orders == {i \in DOMAIN pub : up(i).type_ = "ADD"}
    IN  /\ up(1).type_ = "SNAPSHOT_START"
        /\ up(Len(pub)).type_ = "SNAPSHOT_END"
        /\ up(Len(pub)).orderId_ = k
        /\ \A i \in DOMAIN pub : pub[i].seq_num = i - 1
        /\ {<<up(i).tickerId_, up(i).orderId_, up(i).side_, up(i).terms>> :
               i \in orders} = book
        /\ \A i \in orders : \E j \in 1 .. i - 1 :
              /\ up(j).type_ = "CLEAR"
              /\ up(j).tickerId_ = up(i).tickerId_

SnapshotInv ==
    published # << >> =>
        /\ published[1].update.orderId_ \in 0 .. Len(log)
        /\ ~Mislabelled(published[1].update.orderId_) =>
              IsSnapshot(published, published[1].update.orderId_,
                         BookAfter(published[1].update.orderId_))

LEMMA SnapshotInvBook == SnapshotInv => SnapshotIsBook
<1> DEFINE k == published[1].update.orderId_
<1> SUFFICES ASSUME SnapshotInv, published # << >>, ~Mislabelled(k)
             PROVE  SnapshotIsBook
  BY DEF SnapshotIsBook
<1>1. IsSnapshot(published, k, BookAfter(k))
  BY DEF SnapshotInv
<1> QED BY <1>1, Zenon DEF IsSnapshot, BookAfter, SnapshotIsBook

\* Two orders of the book never have the same number.
LEMMA LiveUnique ==
  ASSUME LogInv, NEW k \in 0 .. Len(log), NEW t, NEW o,
         NEW m \in LiveAfter(k), NEW n \in LiveAfter(k),
         IsOf(m, t, o), IsOf(n, t, o)
  PROVE  m = n
<1>1. /\ m \in 1 .. Len(log) /\ n \in 1 .. Len(log)
      /\ log[m].type_ = "ADD" /\ log[n].type_ = "ADD"
  BY DEF LiveAfter, LogInv
<1>2. SameOrder(m, n) /\ SameOrder(n, m)
  BY DEF IsOf, SameOrder
<1>3. ~(m < n) /\ ~(n < m)
  BY <1>1, <1>2, AddsDiffer
<1> QED BY <1>1, <1>3

\* The book after k updates does not depend on later ones.
LEMMA BookStable ==
  ASSUME NEW k \in Nat, \A n \in 1 .. k : log'[n] = log[n]
  PROVE  /\ BookAfter(k)' = BookAfter(k)
         /\ Mislabelled(k)' <=> Mislabelled(k)
<1>1. /\ LiveAfter(k)' = LiveAfter(k)
      /\ \A n \in 1 .. k : LatestOf(n, k)' = LatestOf(n, k)
      /\ Mislabelled(k)' <=> Mislabelled(k)
  BY Stable
<1>2. \A n \in 1 .. k : LatestOf(n, k) \in 1 .. k
  <2> SUFFICES ASSUME NEW n \in 1 .. k PROVE LatestOf(n, k) \in 1 .. k
    OBVIOUS
  <2>1. PICK m : Latest(m, n, k)
    BY LatestExists
  <2>2. LatestOf(n, k) = m
    BY <2>1, LatestUnique
  <2>3. m \in n .. k
    BY <2>1 DEF Latest
  <2> QED BY <2>2, <2>3
<1>3. LiveAfter(k) \subseteq 1 .. k
  BY DEF LiveAfter
<1>4. \A n \in LiveAfter(k) :
         /\ log'[n] = log[n]
         /\ LatestOf(n, k)' = LatestOf(n, k)
         /\ log'[LatestOf(n, k)] = log[LatestOf(n, k)]
  BY <1>1, <1>2, <1>3
<1>5. BookAfter(k)' =
         {<<log'[n].tickerId_, log'[n].marketId, log'[n].side_,
            log'[LatestOf(n, k)'].terms>> : n \in LiveAfter(k)'}
  BY Zenon DEF BookAfter
<1> QED BY <1>1, <1>4, <1>5 DEF BookAfter

\* The entries of the array are the orders of the book.
LEMMA EntriesAreBook ==
  ASSUME LogInv, NEW k \in 0 .. Len(log), Keeps(k)
  PROVE  BookAfter(k) =
            {b \in Tickers \X OrderIds \X BookSides \X Terms :
               LET order == orders_per_ticker_[b[1]][b[2]]
               IN  order # Null /\ order.side_ = b[3] /\ order.terms = b[4]}
<1> DEFINE B == {b \in Tickers \X OrderIds \X BookSides \X Terms :
               LET order == orders_per_ticker_[b[1]][b[2]]
               IN  order # Null /\ order.side_ = b[3] /\ order.terms = b[4]}
           tuple(n) == <<log[n].tickerId_, log[n].marketId, log[n].side_,
                         log[LatestOf(n, k)].terms>>
<1>0. k \in Nat /\ LiveAfter(k) \subseteq 1 .. k
  BY DEF LiveAfter, LogInv
<1>1. ASSUME NEW t \in Tickers, NEW o \in OrderIds, NEW n \in LiveAfter(k),
             IsOf(n, t, o)
      PROVE  /\ orders_per_ticker_[t][o] # Null
             /\ orders_per_ticker_[t][o].side_ = log[n].side_
             /\ orders_per_ticker_[t][o].terms = log[LatestOf(n, k)].terms
  <2>1. EntryIs(k, t, o)
    BY DEF Keeps
  <2>2. orders_per_ticker_[t][o] # Null
    BY <1>1, <2>1 DEF EntryIs
  <2>3. PICK i \in LiveAfter(k), m \in 1 .. k :
           /\ IsOf(i, t, o)
           /\ Latest(m, i, k)
           /\ orders_per_ticker_[t][o].side_ = log[i].side_
           /\ orders_per_ticker_[t][o].terms = log[m].terms
    BY <2>1, <2>2 DEF EntryIs
  <2>4. i = n
    BY <1>1, <2>3, LiveUnique
  <2>5. LatestOf(n, k) = m
    BY <1>0, <2>3, <2>4, LatestUnique
  <2> QED BY <2>2, <2>3, <2>4, <2>5
<1>2. ASSUME NEW n \in LiveAfter(k) PROVE tuple(n) \in B
  <2> SUFFICES ASSUME NEW t, t = log[n].tickerId_, NEW o, o = log[n].marketId,
                      NEW side, side = log[n].side_,
                      NEW terms, terms = log[LatestOf(n, k)].terms
               PROVE  <<t, o, side, terms>> \in B
    OBVIOUS
  <2>1. n \in 1 .. Len(log)
    BY <1>0 DEF LogInv
  <2>2. t \in Tickers /\ o \in OrderIds /\ IsOf(n, t, o)
    BY <2>1, UpdateType DEF Keeps, IsOf
  <2>3. /\ orders_per_ticker_[t][o] # Null
        /\ orders_per_ticker_[t][o].side_ = side
        /\ orders_per_ticker_[t][o].terms = terms
    BY <1>1, <2>2
  <2>4. orders_per_ticker_[t][o] \in AnEntry
    BY <2>2, <2>3 DEF Keeps, AnArray
  <2>5. side \in BookSides /\ terms \in Terms
    BY <2>3, <2>4 DEF AnEntry
  <2> QED BY <2>2, <2>3, <2>5
<1>3. ASSUME NEW b \in B PROVE \E n \in LiveAfter(k) : b = tuple(n)
  <2> SUFFICES ASSUME NEW t \in Tickers, NEW o \in OrderIds,
                      NEW side \in BookSides, NEW terms \in Terms,
                      b = <<t, o, side, terms>>,
                      orders_per_ticker_[t][o] # Null,
                      orders_per_ticker_[t][o].side_ = side,
                      orders_per_ticker_[t][o].terms = terms
               PROVE  \E n \in LiveAfter(k) : b = tuple(n)
    OBVIOUS
  <2>1. EntryIs(k, t, o)
    BY DEF Keeps
  <2>2. PICK n \in LiveAfter(k) : IsOf(n, t, o)
    BY <2>1 DEF EntryIs
  <2>3. /\ side = log[n].side_ /\ terms = log[LatestOf(n, k)].terms
        /\ t = log[n].tickerId_ /\ o = log[n].marketId
    BY <1>1, <2>2 DEF IsOf
  <2> QED BY <2>3
<1>4. BookAfter(k) = {tuple(n) : n \in LiveAfter(k)}
  BY DEF BookAfter
<1> HIDE DEF B, tuple
<1>5. BookAfter(k) = B
  BY <1>2, <1>3, <1>4
<1> QED BY <1>5 DEF B

\* The cycle that the array makes, numbered, is a snapshot of the book.
LEMMA NumberedSnapshot ==
  ASSUME LogInv, NEW k \in 0 .. Len(log), last_inc_seq_num_ = k,
         NEW c, CycleOf(c), NEW pub, pub = Numbered(c)
  PROVE  /\ pub[1].update.orderId_ = k
         /\ Keeps(k) => IsSnapshot(pub, k, BookAfter(k))
<1> SUFFICES ASSUME NEW L \in Nat, L = Len(c)
             PROVE  /\ pub[1].update.orderId_ = k
                    /\ Keeps(k) => IsSnapshot(pub, k, BookAfter(k))
  BY DEF CycleOf
<1>1. c \in Seq(AMessage) /\ L >= 2 /\ 1 \in 1 .. L /\ L \in 1 .. L
  BY DEF CycleOf
<1>2. /\ DOMAIN pub = 1 .. L /\ Len(pub) = L
      /\ \A i \in 1 .. L : pub[i].update = c[i] /\ pub[i].seq_num = i - 1
  <2>1. DOMAIN c = 1 .. L
    BY <1>1
  <2>2. pub = [i \in 1 .. L |-> [seq_num |-> i - 1, update |-> c[i]]]
    BY <2>1 DEF Numbered
  <2> QED BY <2>2
<1>3. /\ c[1].type_ = "SNAPSHOT_START" /\ c[1].orderId_ = k
      /\ c[L].type_ = "SNAPSHOT_END" /\ c[L].orderId_ = k
  BY DEF CycleOf, Marker, MEMarketUpdate
<1>0. pub[1].update.orderId_ = k
  BY <1>1, <1>2, <1>3
<1> SUFFICES ASSUME Keeps(k) PROVE IsSnapshot(pub, k, BookAfter(k))
  BY <1>0
<1>4. \A t, o : /\ OrderMessage(t, o).type_ = "ADD"
                /\ OrderMessage(t, o).tickerId_ = t
                /\ OrderMessage(t, o).orderId_ = o
                /\ OrderMessage(t, o).side_ = orders_per_ticker_[t][o].side_
                /\ OrderMessage(t, o).terms = orders_per_ticker_[t][o].terms
  BY DEF OrderMessage, MEMarketUpdate
<1>5. \A t : Clear(t).type_ = "CLEAR" /\ Clear(t).tickerId_ = t
  BY DEF Clear, MEMarketUpdate
<1> DEFINE adds == {i \in 1 .. L : c[i].type_ = "ADD"}
           tuple(i) == <<c[i].tickerId_, c[i].orderId_, c[i].side_, c[i].terms>>
           B == {b \in Tickers \X OrderIds \X BookSides \X Terms :
                   LET order == orders_per_ticker_[b[1]][b[2]]
                   IN  order # Null /\ order.side_ = b[3] /\ order.terms = b[4]}
<1>6. ASSUME NEW i \in adds
      PROVE  /\ tuple(i) \in B
             /\ \E j \in 1 .. i - 1 : /\ c[j].type_ = "CLEAR"
                                      /\ c[j].tickerId_ = c[i].tickerId_
  <2>1. PICK t \in Tickers, o \in OrderIds :
             /\ orders_per_ticker_[t][o] # Null
             /\ c[i] = OrderMessage(t, o)
             /\ \E j \in 1 .. i - 1 : c[j] = Clear(t)
    BY DEF CycleOf
  <2>2. orders_per_ticker_[t][o] \in AnEntry
    BY <2>1 DEF Keeps, AnArray
  <2>3. /\ orders_per_ticker_[t][o].side_ \in BookSides
        /\ orders_per_ticker_[t][o].terms \in Terms
    BY <2>2 DEF AnEntry
  <2>4. tuple(i) = <<t, o, orders_per_ticker_[t][o].side_,
                     orders_per_ticker_[t][o].terms>>
    BY <2>1, <1>4
  <2>5. tuple(i) \in B
    <3> HIDE DEF tuple
    <3> QED BY <2>1, <2>3, <2>4
  <2>6. \E j \in 1 .. i - 1 : /\ c[j].type_ = "CLEAR"
                              /\ c[j].tickerId_ = c[i].tickerId_
    BY <2>1, <1>4, <1>5
  <2> QED BY <2>5, <2>6
<1>7. ASSUME NEW b \in B PROVE \E i \in adds : b = tuple(i)
  <2> SUFFICES ASSUME NEW t \in Tickers, NEW o \in OrderIds,
                      NEW side \in BookSides, NEW terms \in Terms,
                      b = <<t, o, side, terms>>,
                      orders_per_ticker_[t][o] # Null,
                      orders_per_ticker_[t][o].side_ = side,
                      orders_per_ticker_[t][o].terms = terms
               PROVE  \E i \in adds : b = tuple(i)
    OBVIOUS
  <2>1. PICK i \in 1 .. L : c[i] = OrderMessage(t, o)
    BY DEF CycleOf
  <2>2. i \in adds /\ tuple(i) = <<t, o, side, terms>>
    BY <2>1, <1>4
  <2> QED BY <2>2
<1>8. BookAfter(k) = B
  BY EntriesAreBook
<1> HIDE DEF tuple, B
<1>9. {tuple(i) : i \in adds} = BookAfter(k)
  BY <1>6, <1>7, <1>8
<1>10. {i \in DOMAIN pub : pub[i].update.type_ = "ADD"} = adds
  BY <1>2
<1> DEFINE sent(i) == <<pub[i].update.tickerId_, pub[i].update.orderId_,
                        pub[i].update.side_, pub[i].update.terms>>
<1>11. \A i \in adds : tuple(i) = sent(i)
  BY <1>2 DEF tuple
<1>12. {<<pub[i].update.tickerId_, pub[i].update.orderId_,
          pub[i].update.side_, pub[i].update.terms>> :
           i \in {x \in DOMAIN pub : pub[x].update.type_ = "ADD"}}
       = BookAfter(k)
  <2>1. {sent(i) : i \in adds} = BookAfter(k)
    <3> HIDE DEF sent, adds
    <3> QED BY <1>9, <1>11
  <2> HIDE DEF adds
  <2> QED BY <2>1, <1>10, Zenon
<1>13. \A i \in {x \in DOMAIN pub : pub[x].update.type_ = "ADD"} :
          \E j \in 1 .. i - 1 :
             /\ pub[j].update.type_ = "CLEAR"
             /\ pub[j].update.tickerId_ = pub[i].update.tickerId_
  <2> SUFFICES ASSUME NEW i \in adds
               PROVE  \E j \in 1 .. i - 1 :
                         /\ pub[j].update.type_ = "CLEAR"
                         /\ pub[j].update.tickerId_ = pub[i].update.tickerId_
    BY <1>10
  <2>1. PICK j \in 1 .. i - 1 : /\ c[j].type_ = "CLEAR"
                                /\ c[j].tickerId_ = c[i].tickerId_
    BY <1>6
  <2>2. j \in 1 .. L
    OBVIOUS
  <2> QED BY <2>1, <2>2, <1>2
<1>14. /\ pub[1].update.type_ = "SNAPSHOT_START"
       /\ pub[1].update.orderId_ = k
       /\ pub[Len(pub)].update.type_ = "SNAPSHOT_END"
       /\ pub[Len(pub)].update.orderId_ = k
       /\ \A i \in DOMAIN pub : pub[i].seq_num = i - 1
  BY <1>1, <1>2, <1>3
<1> QED BY <1>12, <1>13, <1>14, Zenon DEF IsSnapshot

LEMMA SnapshotStep ==
  SynthInv /\ SnapshotInv /\ [Next]_vars => SnapshotInv'
<1> SUFFICES ASSUME SynthInv, SnapshotInv, [Next]_vars PROVE SnapshotInv'
  OBVIOUS
<1>1. CASE addToSnapshot \/ drained \/ notYet
  BY <1>1 DEF addToSnapshot, drained, notYet, SnapshotInv
<1>2. CASE publishSnapshot
  <2> SUFFICES ASSUME NEW k, k = taken PROVE SnapshotInv'
    OBVIOUS
  <2>1. /\ LogInv /\ k \in 0 .. Len(log) /\ last_inc_seq_num_ = k
        /\ AnArray(orders_per_ticker_) /\ (~Mislabelled(k) => Keeps(k))
        /\ k \in Nat /\ log' = log
    BY <1>2 DEF SynthInv, publishSnapshot, LogInv
  <2> DEFINE c == <<Marker("SNAPSHOT_START")>>
                  \o FlattenSeq([i \in 1 .. NumTickers |-> Messages(i - 1)])
                  \o <<Marker("SNAPSHOT_END")>>
  <2>2. published' = Numbered(c)
    BY <1>2 DEF publishSnapshot
  <2>3. CycleOf(c)
    BY <2>1, CycleIs
  <2> HIDE DEF c
  <2>4. /\ published'[1].update.orderId_ = k
        /\ ~Mislabelled(k) => IsSnapshot(published', k, BookAfter(k))
    BY <2>1, <2>2, <2>3, NumberedSnapshot
  <2>5. BookAfter(k)' = BookAfter(k) /\ (Mislabelled(k)' <=> Mislabelled(k))
    BY <2>1, BookStable
  <2>6. published'[1].update.orderId_ \in 0 .. Len(log')
    BY <2>1, <2>4
  <2> QED BY <2>4, <2>5, <2>6, Zenon DEF SnapshotInv
<1>3. CASE sendMarketUpdate
  <2> SUFFICES ASSUME published # << >> PROVE SnapshotInv'
    BY <1>3 DEF sendMarketUpdate, SnapshotInv
  <2> SUFFICES ASSUME NEW k, k = published[1].update.orderId_
               PROVE  SnapshotInv'
    OBVIOUS
  <2>1. /\ k \in 0 .. Len(log)
        /\ ~Mislabelled(k) => IsSnapshot(published, k, BookAfter(k))
    BY DEF SnapshotInv
  <2>2. PICK u : log' = Append(log, u)
    BY <1>3 DEF sendMarketUpdate, add, match, cancel
  <2>3. /\ k \in Nat /\ k \in 0 .. Len(log')
        /\ \A n \in 1 .. k : log'[n] = log[n]
    <3>1. log \in Seq(AnUpdate) /\ Len(log) \in Nat
      BY DEF SynthInv, LogInv
    <3> QED BY <3>1, <2>1, <2>2
  <2>4. BookAfter(k)' = BookAfter(k) /\ (Mislabelled(k)' <=> Mislabelled(k))
    BY <2>3, BookStable
  <2>5. published' = published
    BY <1>3 DEF sendMarketUpdate
  <2> QED BY <2>1, <2>3, <2>4, <2>5, Zenon DEF SnapshotInv
<1>4. CASE UNCHANGED vars
  <2> SUFFICES ASSUME published # << >> PROVE SnapshotInv'
    BY <1>4 DEF vars, SnapshotInv
  <2> SUFFICES ASSUME NEW k, k = published[1].update.orderId_
               PROVE  SnapshotInv'
    OBVIOUS
  <2>1. /\ k \in 0 .. Len(log)
        /\ ~Mislabelled(k) => IsSnapshot(published, k, BookAfter(k))
    BY DEF SnapshotInv
  <2>2. published' = published /\ log' = log
    BY <1>4 DEF vars
  <2>3. k \in Nat
    BY <2>1 DEF SynthInv, LogInv
  <2>4. BookAfter(k)' = BookAfter(k) /\ (Mislabelled(k)' <=> Mislabelled(k))
    BY <2>2, <2>3, BookStable
  <2> QED BY <2>1, <2>2, <2>4, Zenon DEF SnapshotInv
<1> QED BY <1>1, <1>2, <1>3, <1>4 DEF Next

\* For every number of instruments, orders and updates, as long as the updates
\* name their orders by the ids of the books: whoever applies a whole cycle has
\* the exchange's books as they were after the update whose number START and
\* END carry (publishSnapshot(), addToSnapshot()).
THEOREM SnapshotsAreBooks == Spec => []SnapshotIsBook
<1>1. Init => SnapshotInv
  BY DEF Init, SnapshotInv
<1> QED BY <1>1, SynthInit, SynthStep, SnapshotStep, SnapshotInvBook, PTL
        DEF Spec
=============================================================================

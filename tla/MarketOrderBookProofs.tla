------------------------ MODULE MarketOrderBookProofs ------------------------
(***************************************************************************)
(* Proofs about the client's book, for every stream of updates and every   *)
(* size of the book: it lives until a pool is used up, its levels hold     *)
(* what was added to them, and it never has a best bid or offer.           *)
(***************************************************************************)
EXTENDS MarketOrderBook, TLAPS, FiniteSetTheorems, SequenceTheorems,
        WellFoundedInduction

\* Neither side has a head or a best level, and FeatureEngine has computed no
\* feature.
NoBestOffer ==
    /\ \A s \in Sides : best_offer_[s] = Null /\ ring[s] = << >>
    /\ features = <<"NaN", "NaN">>

EmptyRings ==
    /\ ring = [s \in Sides |-> << >>]
    /\ best_offer_ = [s \in Sides |-> Null]
    /\ features = <<"NaN", "NaN">>

\* The rings stay empty: a level is only linked to a head, and only a level
\* that is linked becomes one.
LEMMA AddKeepsRings ==
  ASSUME EmptyRings, NEW b, NEW level, level.side_ \in Sides,
         addOrdersAtPriceLevel(b, level)
  PROVE  ring' = ring /\ best_offer_' = best_offer_
<1>1. ring[level.side_] = << >>
  BY DEF EmptyRings
<1>2. ring' = [ring EXCEPT ![level.side_] = << >>]
  BY <1>1 DEF addOrdersAtPriceLevel, NewHead
<1>3. best_offer_' = best_offer_
  BY <1>1 DEF addOrdersAtPriceLevel
<1>. QED
  BY <1>1, <1>2, <1>3 DEF EmptyRings

LEMMA OnAddKeepsRings ==
  ASSUME EmptyRings, NEW order, order.side_ \in Sides, NEW fault \in BOOLEAN,
         onAdd(order, fault)
  PROVE  EmptyRings'
<1> DEFINE full == order_pool_.next_free_index_ = OrderPool!PastEnd
           last == OrderPool!Taken(order_pool_).next_free_index_
                      = OrderPool!PastEnd
           crash == ReadsNullHead(order.side_) \/ (fault /\ (full \/ last))
<1>1. CASE crash
  BY <1>1 DEF onAdd, Crash, book, EmptyRings
<1>2. CASE ~crash /\ full
  BY <1>2 DEF onAdd, book, EmptyRings
<1>3. CASE ~crash /\ ~full
  <2>1. addOrder(order, fault) /\ UNCHANGED features
    BY <1>3 DEF onAdd
  <2>2. CASE orders_at_price_levels_[priceToIndex(order.price_)] # Null
    BY <2>1, <2>2 DEF addOrder, EmptyRings
  <2>3. CASE orders_at_price_levels_[priceToIndex(order.price_)] = Null
    <3> DEFINE b == price_level_pool_.next_free_index_
               level == MarketOrderPriceLevel(order)
    <3>1. addOrdersAtPriceLevel(b, level)
      BY <2>1, <2>3 DEF addOrder
    <3>2. level.side_ \in Sides
      BY DEF MarketOrderPriceLevel
    <3> HIDE DEF b, level
    <3>. QED
      BY <2>1, <3>1, <3>2, AddKeepsRings DEF EmptyRings
  <2>. QED
    BY <2>2, <2>3
<1>. QED
  BY <1>1, <1>2, <1>3

LEMMA EmptyRingsStep == EmptyRings /\ [Next]_vars => EmptyRings'
<1> SUFFICES ASSUME EmptyRings, [Next]_vars PROVE EmptyRings'
  OBVIOUS
<1>1. CASE onMarketUpdate
  <2>1. ASSUME NEW id \in OrderIds, NEW side \in Sides, NEW price \in Prices,
               NEW qty \in Qtys, NEW fault \in BOOLEAN,
               onAdd([orderId_ |-> id, side_ |-> side, price_ |-> price,
                      qty_ |-> qty], fault)
        PROVE  EmptyRings'
    <3> DEFINE order == [orderId_ |-> id, side_ |-> side, price_ |-> price,
                         qty_ |-> qty]
    <3>1. order.side_ \in Sides /\ onAdd(order, fault)
      BY <2>1
    <3> HIDE DEF order
    <3>. QED
      BY <3>1, OnAddKeepsRings
  <2>2. CASE onModify
    BY <2>2 DEF onModify, Crash, book, EmptyRings
  <2>3. ASSUME NEW id \in OrderIds, NEW side \in Sides, onCancel(id, side)
        PROVE  EmptyRings'
    BY <2>3 DEF onCancel, Crash, book, EmptyRings
  <2>4. CASE onClear
    BY <2>4 DEF onClear, Crash, book, EmptyRings
  <2>5. CASE onOther
    BY <2>5 DEF onOther, book, EmptyRings
  <2>. QED
    BY <1>1, <2>1, <2>2, <2>3, <2>4, <2>5 DEF onMarketUpdate
<1>2. CASE onOrderBookUpdate
  <2>1. \E s \in Sides : best_offer_[s] = Null
    BY DEF EmptyRings, Sides
  <2>. QED
    BY <1>2, <2>1 DEF onOrderBookUpdate, Crash, book, EmptyRings
<1>3. CASE onTradeUpdate
  <2>1. \E s \in Sides : best_offer_[s] = Null
    BY DEF EmptyRings, Sides
  <2>. QED
    BY <1>3, <2>1 DEF onTradeUpdate, Crash, book, EmptyRings
<1>4. CASE UNCHANGED vars
  BY <1>4 DEF vars, book, EmptyRings
<1>. QED
  BY <1>1, <1>2, <1>3, <1>4 DEF Next

\* Lines 26 and 30 set and link a copy of the head only: neither side ever has
\* a head or a best price, against "Update BBO" (line 49), and FeatureEngine
\* never computes a feature.
THEOREM NeverABestOffer == Spec => []NoBestOffer
<1>1. Init => EmptyRings
  BY DEF Init, EmptyRings, features
<1>2. EmptyRings => NoBestOffer
  BY DEF EmptyRings, NoBestOffer
<1>. QED
  BY <1>1, <1>2, EmptyRingsStep, PTL DEF Spec

-----------------------------------------------------------------------------
(* The pool of orders.                                                     *)
(*                                                                         *)
(* No line gives an order back, so the pool's index is the number of ADDs  *)
(* and every block from it on is free: only the last block or none at all  *)
(* ends the process.                                                       *)

AnOrder == [orderId_ : OrderIds, side_ : Sides, price_ : Prices, qty_ : Qtys]

PoolCounts ==
    LET pool == order_pool_
    IN  /\ adds \in Seq(AnOrder)
        /\ Len(adds) \in 0 .. MaxOrderIds
        /\ pool.is_free_ \in [0 .. MaxOrderIds - 1 -> BOOLEAN]
        /\ pool.next_free_index_ = Len(adds)
        /\ \A b \in 0 .. MaxOrderIds - 1 : b >= Len(adds) => pool.is_free_[b]

AddsInv ==
    /\ AddsUntilFull
    /\ process = "running" => PoolCounts

\* A block is taken, and the search for the next one stops right behind it.
LEMMA TakenCounts ==
  ASSUME ClientBookParameters,
         NEW n \in 0 .. MaxOrderIds - 1, NEW pool, pool.next_free_index_ = n,
         pool.is_free_ \in [0 .. MaxOrderIds - 1 -> BOOLEAN],
         \A b \in 0 .. MaxOrderIds - 1 : b >= n => pool.is_free_[b]
  PROVE  LET t == OrderPool!Taken(pool)
         IN  /\ t.next_free_index_ = n + 1
             /\ t.is_free_ \in [0 .. MaxOrderIds - 1 -> BOOLEAN]
             /\ \A b \in 0 .. MaxOrderIds - 1 : b >= n + 1 => t.is_free_[b]
<1> DEFINE free == [pool.is_free_ EXCEPT ![n] = FALSE]
           candidates == {j \in n .. MaxOrderIds - 1 : free[j]}
<1>1. /\ MaxOrderIds \in Nat \ {0}
      /\ OrderPool!Taken(pool).is_free_ = free
      /\ OrderPool!Taken(pool).next_free_index_ =
            OrderPool!updateNextFreeIndex(free, n)
  BY DEF ClientBookParameters, OrderPool!Taken
<1>2. free \in [0 .. MaxOrderIds - 1 -> BOOLEAN]
  BY Zenon
<1>3. \A b \in 0 .. MaxOrderIds - 1 : b >= n + 1 => free[b]
  BY <1>1
<1>4. ~free[n]
  OBVIOUS
<1> HIDE DEF free
<1>5. candidates = {j \in 0 .. MaxOrderIds - 1 : j > n}
  BY <1>1, <1>3, <1>4
<1>6. OrderPool!updateNextFreeIndex(free, n) = n + 1
  <2>1. CASE n = MaxOrderIds - 1
    <3>1. candidates = {}
      BY <1>1, <1>5, <2>1
    <3> QED BY <3>1, <1>1, <2>1 DEF OrderPool!updateNextFreeIndex, OrderPool!PastEnd
  <2>2. CASE n # MaxOrderIds - 1
    <3>1. n + 1 \in candidates /\ \A k \in candidates : n + 1 <= k
      BY <1>1, <1>5, <2>2
    <3>2. \A j \in candidates : (\A k \in candidates : j <= k) => j = n + 1
      BY <3>1, <1>1, <1>5
    <3> HIDE DEF candidates
    <3>3. (CHOOSE j \in candidates : \A k \in candidates : j <= k) = n + 1
      BY <3>1, <3>2
    <3>4. candidates # {}
      BY <3>1
    <3> QED BY <3>3, <3>4 DEF OrderPool!updateNextFreeIndex, candidates
  <2> QED BY <2>1, <2>2
<1> QED BY <1>1, <1>2, <1>3, <1>6

LEMMA OnAddCounts ==
  ASSUME ClientBookParameters,
         EmptyRings, AddsInv, process = "running", NEW order \in AnOrder,
         NEW fault \in BOOLEAN, onAdd(order, fault)
  PROVE  AddsInv'
<1> DEFINE n == Len(adds)
           pool == OrderPool!Taken(order_pool_)
           full == order_pool_.next_free_index_ = OrderPool!PastEnd
           last == pool.next_free_index_ = OrderPool!PastEnd
<1>1. /\ PoolCounts
      /\ MaxOrderIds \in Nat \ {0}
      /\ n \in 0 .. MaxOrderIds
      /\ full <=> n = MaxOrderIds
  BY DEF ClientBookParameters, AddsInv, PoolCounts, OrderPool!PastEnd
<1>2. ~ReadsNullHead(order.side_)
  BY DEF ReadsNullHead, EmptyRings, Sides
<1>3. ~full => /\ pool.next_free_index_ = n + 1
               /\ pool.is_free_ \in [0 .. MaxOrderIds - 1 -> BOOLEAN]
               /\ \A b \in 0 .. MaxOrderIds - 1 : b >= n + 1 => pool.is_free_[b]
  <2> SUFFICES ASSUME ~full
               PROVE  /\ pool.next_free_index_ = n + 1
                      /\ pool.is_free_ \in [0 .. MaxOrderIds - 1 -> BOOLEAN]
                      /\ \A b \in 0 .. MaxOrderIds - 1 :
                            b >= n + 1 => pool.is_free_[b]
    OBVIOUS
  <2>1. n \in 0 .. MaxOrderIds - 1
    BY <1>1
  <2>2. /\ order_pool_.next_free_index_ = n
        /\ order_pool_.is_free_ \in [0 .. MaxOrderIds - 1 -> BOOLEAN]
        /\ \A b \in 0 .. MaxOrderIds - 1 : b >= n => order_pool_.is_free_[b]
    BY <1>1 DEF PoolCounts
  <2> HIDE DEF n
  <2> QED BY <2>1, <2>2, TakenCounts
<1> HIDE DEF pool
<1>4. CASE fault /\ (full \/ last)
  <2>1. adds' = adds /\ process' = "terminated"
    BY <1>4 DEF onAdd, Crash, pool
  <2>2. n >= MaxOrderIds - 1
    BY <1>1, <1>3, <1>4 DEF OrderPool!PastEnd
  <2> QED BY <2>1, <2>2 DEF AddsInv, AddsUntilFull
<1>5. CASE full /\ ~fault
  <2>1. adds' = adds /\ process' = "corrupted"
    BY <1>2, <1>5 DEF onAdd
  <2>2. n >= MaxOrderIds - 1
    BY <1>1, <1>5
  <2> QED BY <2>1, <2>2 DEF AddsInv, AddsUntilFull
<1>6. CASE ~full /\ ~(fault /\ last)
  <2>1. /\ order_pool_' = pool
        /\ adds' = Append(adds, order)
        /\ addOrder(order, fault)
        /\ handled' = "ADD"
    BY <1>2, <1>6 DEF onAdd, pool
  <2>2. adds' \in Seq(AnOrder) /\ Len(adds') = n + 1
    <3>1. adds \in Seq(AnOrder)
      BY <1>1 DEF PoolCounts
    <3> QED BY <2>1, <3>1
  <2>3. PoolCounts'
    BY <2>1, <2>2, <1>1, <1>3, <1>6 DEF PoolCounts
  <2>4. \/ process' = process
        \/ /\ price_level_pool_'.next_free_index_ = LevelPool!PastEnd
           /\ process' = "terminated"
    BY <2>1 DEF addOrder
  <2> QED BY <2>3, <2>4 DEF AddsInv, AddsUntilFull
<1> QED BY <1>4, <1>5, <1>6

\* An ADD ends the process only when it takes the last block of a pool or
\* finds none, for every stream of updates (MarketOrderBook::onMarketUpdate()).
THEOREM LivesUntilFull ==
  ASSUME ClientBookParameters
  PROVE  Spec => []AddsUntilFull
<1>1. Init => AddsInv
  <2> SUFFICES ASSUME Init PROVE AddsInv
    OBVIOUS
  <2>1. /\ adds = << >>
        /\ order_pool_.next_free_index_ = 0
        /\ order_pool_.is_free_ = [b \in 0 .. MaxOrderIds - 1 |-> TRUE]
        /\ process = "running"
    BY DEF Init, OrderPool!EmptyPool, OrderPool!Blocks
  <2>2. order_pool_.is_free_ \in [0 .. MaxOrderIds - 1 -> BOOLEAN]
    BY <2>1, Zenon
  <2> QED BY <2>1, <2>2 DEF ClientBookParameters, AddsInv, AddsUntilFull, PoolCounts
<1>2. EmptyRings /\ AddsInv /\ [Next]_vars => AddsInv'
  <2> SUFFICES ASSUME EmptyRings, AddsInv, [Next]_vars PROVE AddsInv'
    OBVIOUS
  <2>1. ASSUME process = "running", NEW id \in OrderIds, NEW side \in Sides,
               NEW price \in Prices, NEW qty \in Qtys, NEW fault \in BOOLEAN,
               onAdd([orderId_ |-> id, side_ |-> side, price_ |-> price,
                      qty_ |-> qty], fault)
        PROVE  AddsInv'
    <3> DEFINE order == [orderId_ |-> id, side_ |-> side, price_ |-> price,
                         qty_ |-> qty]
    <3>1. order \in AnOrder /\ onAdd(order, fault)
      BY <2>1 DEF AnOrder
    <3> HIDE DEF order
    <3> QED BY <2>1, <3>1, OnAddCounts
  <2>2. ASSUME process = "running",
               handled' # "ADD",
               process' = "running" => UNCHANGED <<order_pool_, adds>>
        PROVE  AddsInv'
    BY <2>2 DEF AddsInv, AddsUntilFull, PoolCounts
  <2>3. CASE onMarketUpdate
    <3>1. CASE onModify \/ onClear \/ onOther
      BY <2>2, <2>3, <3>1 DEF onMarketUpdate, onModify, onClear, onOther, Crash, book
    <3>2. CASE \E id \in OrderIds, side \in Sides : onCancel(id, side)
      BY <2>2, <2>3, <3>2 DEF onMarketUpdate, onCancel, Crash, book
    <3> QED BY <2>1, <2>3, <3>1, <3>2 DEF onMarketUpdate
  <2>4. CASE onOrderBookUpdate \/ onTradeUpdate
    BY <2>2, <2>4 DEF onOrderBookUpdate, onTradeUpdate, Crash, book
  <2>5. CASE UNCHANGED vars
    BY <2>5 DEF vars, book, AddsInv, AddsUntilFull, PoolCounts
  <2> QED BY <2>3, <2>4, <2>5 DEF Next
<1>3. Init => EmptyRings
  BY DEF Init, EmptyRings, features
<1> QED BY <1>1, <1>2, <1>3, EmptyRingsStep, PTL DEF Spec, AddsInv

-----------------------------------------------------------------------------
(* Selections and sums over a sequence that grows. *)

\* A non-empty set of natural numbers has a least member.
LEMMA LeastMember ==
  ASSUME NEW T, T \subseteq Nat, T # {}
  PROVE  \E m \in T : \A k \in T : m <= k
<1> DEFINE R == {ss \in Nat \X Nat : ss[1] < ss[2]}
<1>1. IsWellFoundedOn(R, Nat)
  BY NatLessThanWellFounded, Zenon DEF OpToRel
<1> HIDE DEF R
<1>2. \E m \in T : \A k \in T : ~(<<k, m>> \in R)
  BY <1>1, WFMin
<1>3. \A k, m \in Nat : ~(<<k, m>> \in R) => m <= k
  BY DEF R
<1> QED BY <1>2, <1>3

\* Induction up to N, for the members of a set.
LEMMA UpTo ==
  ASSUME NEW N \in Nat, NEW P, 0 \in P, \A n \in 1 .. N : n - 1 \in P => n \in P
  PROVE  \A n \in 0 .. N : n \in P
<1> DEFINE bad == {n \in 0 .. N : n \notin P}
<1> SUFFICES ASSUME bad # {} PROVE FALSE
  OBVIOUS
<1>1. PICK m \in bad : \A k \in bad : m <= k
  <2>1. bad \subseteq Nat
    OBVIOUS
  <2> HIDE DEF bad
  <2> QED BY <2>1, LeastMember
<1>2. m \in 1 .. N /\ m - 1 \in 0 .. N /\ m - 1 \notin bad
  BY <1>1
<1> QED BY <1>1, <1>2

IsStep(f, T, N) == f \in [1 .. N -> [T -> T]]

\* The values of g come from base, one step of f after the other.
Iterates(g, f, base, T, N) ==
    /\ g \in [0 .. N -> T]
    /\ g[0] = base
    /\ \A n \in 1 .. N : g[n] = f[n][g[n - 1]]

LEMMA StepsExist ==
  ASSUME NEW T, NEW base \in T, NEW N \in Nat, NEW f, IsStep(f, T, N)
  PROVE  \E g : Iterates(g, f, base, T, N)
<1>0. f \in [1 .. N -> [T -> T]]
  BY DEF IsStep
<1> DEFINE P == {k \in 0 .. N : \E g \in [0 .. k -> T] :
                    g[0] = base /\ \A n \in 1 .. k : g[n] = f[n][g[n - 1]]}
<1>1. 0 \in P
  <2> DEFINE g == [n \in 0 .. 0 |-> base]
  <2>1. g \in [0 .. 0 -> T] /\ g[0] = base /\ 1 .. 0 = {}
    OBVIOUS
  <2> HIDE DEF g
  <2> QED BY <2>1
<1>2. ASSUME NEW k \in 1 .. N, k - 1 \in P
      PROVE  k \in P
  <2>1. PICK g \in [0 .. k - 1 -> T] :
           g[0] = base /\ \A n \in 1 .. k - 1 : g[n] = f[n][g[n - 1]]
    BY <1>2
  <2> DEFINE h == [n \in 0 .. k |-> IF n = k THEN f[k][g[k - 1]] ELSE g[n]]
  <2>2. g[k - 1] \in T /\ f[k][g[k - 1]] \in T
    BY <1>0
  <2>3. h \in [0 .. k -> T]
    BY <2>2
  <2>4. h[0] = base
    BY <2>1
  <2>5. \A n \in 1 .. k : h[n] = f[n][h[n - 1]]
    <3> SUFFICES ASSUME NEW n \in 1 .. k PROVE h[n] = f[n][h[n - 1]]
      OBVIOUS
    <3>1. n - 1 \in 0 .. k /\ n - 1 # k /\ h[n - 1] = g[n - 1]
      OBVIOUS
    <3>2. CASE n = k
      BY <3>1, <3>2
    <3>3. CASE n # k
      <4>1. n \in 1 .. k - 1 /\ h[n] = g[n]
        BY <3>3
      <4> QED BY <4>1, <3>1, <2>1
    <3> QED BY <3>2, <3>3
  <2> HIDE DEF h
  <2> QED BY <2>3, <2>4, <2>5
<1> HIDE DEF P
<1>3. \A n \in 1 .. N : n - 1 \in P => n \in P
  BY <1>2
<1>4. \A n \in 0 .. N : n \in P
  BY <1>1, <1>3, UpTo
<1>5. N \in P
  BY <1>4
<1> QED BY <1>5 DEF P, Iterates

\* What AtIndex and TotalQty read off their recursive functions.
Selects(g, s, i) ==
    /\ g \in [0 .. Len(s) -> Seq(AnOrder)]
    /\ g[0] = << >>
    /\ \A n \in 1 .. Len(s) :
          g[n] = IF priceToIndex(s[n].price_) = i
                 THEN Append(g[n - 1], s[n]) ELSE g[n - 1]

Sums(g, s) ==
    /\ g \in [0 .. Len(s) -> Nat]
    /\ g[0] = 0
    /\ \A n \in 1 .. Len(s) : g[n] = g[n - 1] + s[n].qty_

LEMMA AtIndexSteps ==
  ASSUME NEW s \in Seq(AnOrder), NEW i
  PROVE  \E g : Selects(g, s, i) /\ AtIndex(s, i) = g[Len(s)]
<1> SUFFICES ASSUME NEW N \in Nat, N = Len(s)
             PROVE  \E g : Selects(g, s, i) /\ AtIndex(s, i) = g[N]
  OBVIOUS
<1> DEFINE T == Seq(AnOrder)
           nothing == << >>
           step(n, q) == IF priceToIndex(s[n].price_) = i
                         THEN Append(q, s[n]) ELSE q
           f == [n \in 1 .. N |-> [q \in T |-> step(n, q)]]
           at[n \in 0 .. N] == IF n = 0 THEN nothing ELSE step(n, at[n - 1])
<1>1. nothing \in T /\ \A n \in 1 .. N : s[n] \in AnOrder
  OBVIOUS
<1>2. \A n \in 1 .. N, q \in T : step(n, q) \in T
  BY <1>1
<1>3. AtIndex(s, i) = at[N]
  BY DEF AtIndex
<1> HIDE DEF T, nothing, step
<1>4. f \in [1 .. N -> [T -> T]]
  BY <1>2
<1>5. PICK g : Iterates(g, f, nothing, T, N)
  <2>1. IsStep(f, T, N)
    BY <1>4 DEF IsStep
  <2> HIDE DEF f
  <2> QED BY <2>1, <1>1, StepsExist
<1>6. /\ g \in [0 .. N -> T]
      /\ g[0] = nothing
      /\ \A n \in 1 .. N : g[n] = f[n][g[n - 1]]
  BY <1>5 DEF Iterates
<1>7. \A n \in 1 .. N : g[n] = step(n, g[n - 1])
  <2> SUFFICES ASSUME NEW n \in 1 .. N PROVE g[n] = step(n, g[n - 1])
    OBVIOUS
  <2>1. n - 1 \in 0 .. N
    BY <1>1
  <2>2. g[n - 1] \in T
    BY <2>1, <1>6
  <2> QED BY <2>2, <1>6
<1>8. g = [n \in 0 .. N |-> IF n = 0 THEN nothing ELSE step(n, g[n - 1])]
  <2> DEFINE h == [n \in 0 .. N |->
                     IF n = 0 THEN nothing ELSE step(n, g[n - 1])]
  <2> SUFFICES ASSUME NEW n \in 0 .. N PROVE g[n] = h[n]
    BY <1>6
  <2>1. n # 0 => n \in 1 .. N
    BY <1>1
  <2> QED BY <2>1, <1>6, <1>7
<1>9. at = [n \in 0 .. N |-> IF n = 0 THEN nothing ELSE step(n, at[n - 1])]
  BY <1>8
<1> HIDE DEF at
<1>10. at[0] = nothing
  BY <1>1, <1>9
<1>11. \A n \in 1 .. N : at[n] = step(n, at[n - 1])
  <2> SUFFICES ASSUME NEW n \in 1 .. N PROVE at[n] = step(n, at[n - 1])
    OBVIOUS
  <2>1. n \in 0 .. N /\ n # 0
    BY <1>1
  <2> QED BY <2>1, <1>9
<1>12. \A n \in 0 .. N : at[n] = g[n]
  <2> DEFINE P == {n \in 0 .. N : at[n] = g[n]}
  <2>1. 0 \in P
    BY <1>1, <1>6, <1>10
  <2>2. \A n \in 1 .. N : n - 1 \in P => n \in P
    BY <1>1, <1>7, <1>11
  <2> HIDE DEF P
  <2>3. \A n \in 0 .. N : n \in P
    BY <1>1, <2>1, <2>2, UpTo
  <2> QED BY <2>3 DEF P
<1>13. AtIndex(s, i) = g[N]
  BY <1>1, <1>3, <1>12
<1> QED BY <1>6, <1>7, <1>13 DEF T, nothing, step, Selects

\* The sum that total_qty_ of market_order.h stands for.
TotalQty(s) ==
    LET total[n \in 0 .. Len(s)] ==
          IF n = 0 THEN 0 ELSE total[n - 1] + s[n].qty_
    IN  total[Len(s)]

\* The same for TotalQty.
LEMMA TotalSteps ==
  ASSUME ClientBookParameters,
         NEW s \in Seq(AnOrder)
  PROVE  \E g : Sums(g, s) /\ TotalQty(s) = g[Len(s)]
<1> SUFFICES ASSUME NEW N \in Nat, N = Len(s)
             PROVE  \E g : Sums(g, s) /\ TotalQty(s) = g[N]
  OBVIOUS
<1> DEFINE T == Nat
           nothing == 0
           step(n, q) == q + s[n].qty_
           f == [n \in 1 .. N |-> [q \in T |-> step(n, q)]]
           at[n \in 0 .. N] == IF n = 0 THEN nothing ELSE step(n, at[n - 1])
<1>1. nothing \in T /\ \A n \in 1 .. N : s[n] \in AnOrder
  OBVIOUS
<1>2. \A n \in 1 .. N, q \in T : step(n, q) \in T
  <2>1. \A e \in AnOrder : e.qty_ \in Nat
    <3>1. Qtys \subseteq Nat
      BY DEF ClientBookParameters
    <3> QED BY <3>1 DEF AnOrder
  <2> QED BY <1>1, <2>1
<1>3. TotalQty(s) = at[N]
  BY DEF TotalQty
<1> HIDE DEF T, nothing, step
<1>4. f \in [1 .. N -> [T -> T]]
  BY <1>2
<1>5. PICK g : Iterates(g, f, nothing, T, N)
  <2>1. IsStep(f, T, N)
    BY <1>4 DEF IsStep
  <2> HIDE DEF f
  <2> QED BY <2>1, <1>1, StepsExist
<1>6. /\ g \in [0 .. N -> T]
      /\ g[0] = nothing
      /\ \A n \in 1 .. N : g[n] = f[n][g[n - 1]]
  BY <1>5 DEF Iterates
<1>7. \A n \in 1 .. N : g[n] = step(n, g[n - 1])
  <2> SUFFICES ASSUME NEW n \in 1 .. N PROVE g[n] = step(n, g[n - 1])
    OBVIOUS
  <2>1. n - 1 \in 0 .. N
    BY <1>1
  <2>2. g[n - 1] \in T
    BY <2>1, <1>6
  <2> QED BY <2>2, <1>6
<1>8. g = [n \in 0 .. N |-> IF n = 0 THEN nothing ELSE step(n, g[n - 1])]
  <2> DEFINE h == [n \in 0 .. N |->
                     IF n = 0 THEN nothing ELSE step(n, g[n - 1])]
  <2> SUFFICES ASSUME NEW n \in 0 .. N PROVE g[n] = h[n]
    BY <1>6
  <2>1. n # 0 => n \in 1 .. N
    BY <1>1
  <2> QED BY <2>1, <1>6, <1>7
<1>9. at = [n \in 0 .. N |-> IF n = 0 THEN nothing ELSE step(n, at[n - 1])]
  BY <1>8
<1> HIDE DEF at
<1>10. at[0] = nothing
  BY <1>1, <1>9
<1>11. \A n \in 1 .. N : at[n] = step(n, at[n - 1])
  <2> SUFFICES ASSUME NEW n \in 1 .. N PROVE at[n] = step(n, at[n - 1])
    OBVIOUS
  <2>1. n \in 0 .. N /\ n # 0
    BY <1>1
  <2> QED BY <2>1, <1>9
<1>12. \A n \in 0 .. N : at[n] = g[n]
  <2> DEFINE P == {n \in 0 .. N : at[n] = g[n]}
  <2>1. 0 \in P
    BY <1>1, <1>6, <1>10
  <2>2. \A n \in 1 .. N : n - 1 \in P => n \in P
    BY <1>1, <1>7, <1>11
  <2> HIDE DEF P
  <2>3. \A n \in 0 .. N : n \in P
    BY <1>1, <2>1, <2>2, UpTo
  <2> QED BY <2>3 DEF P
<1>13. TotalQty(s) = g[N]
  BY <1>1, <1>3, <1>12
<1> QED BY <1>6, <1>7, <1>13 DEF T, nothing, step, Sums

LEMMA AtIndexEmpty == ASSUME NEW i PROVE AtIndex(<< >>, i) = << >>
<1>1. << >> \in Seq(AnOrder)
  OBVIOUS
<1> SUFFICES ASSUME NEW s \in Seq(AnOrder), s = << >>
             PROVE  AtIndex(s, i) = << >>
  BY <1>1
<1> QED BY AtIndexSteps DEF Selects

LEMMA AtIndexType ==
  ASSUME NEW s \in Seq(AnOrder), NEW i
  PROVE  AtIndex(s, i) \in Seq(AnOrder)
  BY AtIndexSteps DEF Selects

\* One more order is selected or not.
LEMMA AtIndexAppend ==
  ASSUME NEW s \in Seq(AnOrder), NEW e \in AnOrder, NEW i
  PROVE  AtIndex(Append(s, e), i) =
            IF priceToIndex(e.price_) = i THEN Append(AtIndex(s, i), e)
                                          ELSE AtIndex(s, i)
<1> SUFFICES ASSUME NEW N \in Nat, N = Len(s)
             PROVE  AtIndex(Append(s, e), i) =
                       IF priceToIndex(e.price_) = i
                       THEN Append(AtIndex(s, i), e) ELSE AtIndex(s, i)
  OBVIOUS
<1> DEFINE t == Append(s, e)
<1>1. /\ t \in Seq(AnOrder)
      /\ Len(t) = N + 1
      /\ t[N + 1] = e
      /\ \A n \in 1 .. N : t[n] = s[n]
  OBVIOUS
<1>2. PICK g : Selects(g, s, i) /\ AtIndex(s, i) = g[Len(s)]
  BY AtIndexSteps
<1>3. PICK h : Selects(h, t, i) /\ AtIndex(t, i) = h[Len(t)]
  <2> HIDE DEF t
  <2> QED BY <1>1, AtIndexSteps
<1> HIDE DEF t
<1>4. /\ AtIndex(s, i) = g[N]
      /\ g[0] = << >>
      /\ \A n \in 1 .. N : g[n] = IF priceToIndex(s[n].price_) = i
                                  THEN Append(g[n - 1], s[n]) ELSE g[n - 1]
  BY <1>2 DEF Selects
<1>5. /\ AtIndex(t, i) = h[N + 1]
      /\ h[0] = << >>
      /\ \A n \in 1 .. N + 1 :
            h[n] = IF priceToIndex(t[n].price_) = i
                   THEN Append(h[n - 1], t[n]) ELSE h[n - 1]
  BY <1>1, <1>3 DEF Selects
<1>6. \A n \in 0 .. N : g[n] = h[n]
  <2> DEFINE P == {n \in 0 .. N : g[n] = h[n]}
  <2>1. 0 \in P
    BY <1>1, <1>4, <1>5
  <2>2. \A n \in 1 .. N : n - 1 \in P => n \in P
    <3> SUFFICES ASSUME NEW n \in 1 .. N, n - 1 \in P PROVE n \in P
      OBVIOUS
    <3>1. n \in 0 .. N /\ n \in 1 .. N + 1 /\ g[n - 1] = h[n - 1]
      BY <1>1
    <3> QED BY <3>1, <1>1, <1>4, <1>5
  <2> HIDE DEF P
  <2>3. \A n \in 0 .. N : n \in P
    BY <1>1, <2>1, <2>2, UpTo
  <2> QED BY <2>3 DEF P
<1>7. N + 1 \in 1 .. N + 1 /\ N + 1 - 1 = N /\ N \in 0 .. N
  BY <1>1
<1>8. g[N] = h[N]
  BY <1>6, <1>7
<1> QED BY <1>1, <1>4, <1>5, <1>7, <1>8 DEF t

LEMMA TotalType ==
  ASSUME ClientBookParameters,
         NEW s \in Seq(AnOrder)
  PROVE  TotalQty(s) \in Nat
  BY TotalSteps DEF Sums

LEMMA TotalEmpty ==
  ASSUME ClientBookParameters
  PROVE  TotalQty(<< >>) = 0
<1>1. << >> \in Seq(AnOrder)
  OBVIOUS
<1> SUFFICES ASSUME NEW s \in Seq(AnOrder), s = << >>
             PROVE  TotalQty(s) = 0
  BY <1>1
<1> QED BY TotalSteps DEF Sums

LEMMA TotalAppend ==
  ASSUME ClientBookParameters,
         NEW s \in Seq(AnOrder), NEW e \in AnOrder
  PROVE  TotalQty(Append(s, e)) = TotalQty(s) + e.qty_
<1> SUFFICES ASSUME NEW N \in Nat, N = Len(s)
             PROVE  TotalQty(Append(s, e)) = TotalQty(s) + e.qty_
  OBVIOUS
<1> DEFINE t == Append(s, e)
<1>1. /\ t \in Seq(AnOrder)
      /\ Len(t) = N + 1
      /\ t[N + 1] = e
      /\ \A n \in 1 .. N : t[n] = s[n]
  OBVIOUS
<1>2. PICK g : Sums(g, s) /\ TotalQty(s) = g[Len(s)]
  BY TotalSteps
<1>3. PICK h : Sums(h, t) /\ TotalQty(t) = h[Len(t)]
  <2> HIDE DEF t
  <2> QED BY <1>1, TotalSteps
<1> HIDE DEF t
<1>4. /\ TotalQty(s) = g[N]
      /\ g[0] = 0
      /\ \A n \in 1 .. N : g[n] = g[n - 1] + s[n].qty_
  BY <1>2 DEF Sums
<1>5. /\ TotalQty(t) = h[N + 1]
      /\ h[0] = 0
      /\ \A n \in 1 .. N + 1 : h[n] = h[n - 1] + t[n].qty_
  BY <1>1, <1>3 DEF Sums
<1>6. \A n \in 0 .. N : g[n] = h[n]
  <2> DEFINE P == {n \in 0 .. N : g[n] = h[n]}
  <2>1. 0 \in P
    BY <1>4, <1>5
  <2>2. \A n \in 1 .. N : n - 1 \in P => n \in P
    <3> SUFFICES ASSUME NEW n \in 1 .. N, n - 1 \in P PROVE n \in P
      OBVIOUS
    <3>1. n \in 0 .. N /\ n \in 1 .. N + 1 /\ g[n - 1] = h[n - 1]
      OBVIOUS
    <3> QED BY <3>1, <1>1, <1>4, <1>5
  <2> HIDE DEF P
  <2>3. \A n \in 0 .. N : n \in P
    BY <2>1, <2>2, UpTo
  <2> QED BY <2>3 DEF P
<1>7. N + 1 \in 1 .. N + 1 /\ N + 1 - 1 = N /\ N \in 0 .. N
  OBVIOUS
<1>8. g[N] = h[N]
  BY <1>6, <1>7
<1> QED BY <1>1, <1>4, <1>5, <1>7, <1>8 DEF t

\* Sums taken modulo q at every step and at the end agree.
LEMMA SumModulo ==
  ASSUME NEW q \in Nat \ {0}, NEW a \in Nat, NEW b \in Nat
  PROVE  ((a % q) + b) % q = (a + b) % q
<1> DEFINE r == a % q
           k == a \div q
           m == (r + b) \div q
           u == (r + b) % q
           n == (a + b) \div q
           v == (a + b) % q
<1>1. /\ r \in 0 .. q - 1 /\ k \in Nat /\ a = (q * k) + r
      /\ u \in 0 .. q - 1 /\ m \in Int /\ r + b = (q * m) + u
      /\ v \in 0 .. q - 1 /\ n \in Int /\ a + b = (q * n) + v
  OBVIOUS
<1> HIDE DEF r, k, m, u, n, v
<1>2. a + b = (q * (k + m)) + u
  BY <1>1
<1>3. PICK d \in Int : d = n - (k + m)
  BY <1>1
<1>4. u - v = q * d
  BY <1>1, <1>2, <1>3
<1>5. d >= 1 => q * d >= q
  OBVIOUS
<1>6. d <= -1 => q * d <= -q
  OBVIOUS
<1>7. d = 0
  BY <1>1, <1>4, <1>5, <1>6
<1> QED BY <1>1, <1>4, <1>7 DEF u, v, r

-----------------------------------------------------------------------------
(* The levels.                                                             *)
(*                                                                         *)
(* With the rings empty CLEAR returns no level, so every level that was    *)
(* ever taken stays at its index and the pool's index counts them.         *)

Indices == 0 .. MaxPriceLevels - 1

Used == {i \in Indices : orders_at_price_levels_[i] # Null}

ALevel ==
    [side_ : Sides, price_ : Prices, orders : Seq(AnOrder),
     total_qty_ : Nat, orders_count_ : Nat]

\* Every used index has a level of its own among those taken.
LevelsApart ==
    LET at == orders_at_price_levels_
        pool == price_level_pool_
    IN  /\ at \in [Indices -> Indices \cup {Null}]
        /\ price_levels \in [Indices -> ALevel \cup {Null}]
        /\ pool.is_free_ \in [Indices -> BOOLEAN]
        /\ pool.next_free_index_ = Cardinality(Used)
        /\ \A b \in Indices : b >= Cardinality(Used) => pool.is_free_[b]
        /\ \A i \in Used : at[i] < Cardinality(Used)
                           /\ price_levels[at[i]] \in ALevel
        /\ \A i, j \in Used : at[i] = at[j] => i = j

\* Level l holds all of s, its orders.
Holds(l, s) ==
    /\ l.orders = s
    /\ l.orders_count_ = Len(s)
    /\ l.total_qty_ = (TotalQty(s) + QtyModulus - 1) % QtyModulus

LevelAt(i) ==
    LET here == AtIndex(adds, i)
    IN  IF here = << >>
        THEN orders_at_price_levels_[i] = Null
        ELSE /\ orders_at_price_levels_[i] # Null
             /\ Holds(price_levels[orders_at_price_levels_[i]], here)

LevelsInv ==
    /\ adds \in Seq(AnOrder)
    /\ LevelsApart
    /\ \A i \in Indices : LevelAt(i)

LEMMA UsedCount ==
  ASSUME ClientBookParameters,
         LevelsApart
  PROVE  /\ IsFiniteSet(Used)
         /\ Cardinality(Used) \in 0 .. MaxPriceLevels
         /\ \A i \in Indices \ Used : Cardinality(Used) \in Indices
<1>1. IsFiniteSet(Indices) /\ Cardinality(Indices) = MaxPriceLevels
  <2>1. MaxPriceLevels \in Nat /\ MaxPriceLevels - 1 \in Int
    BY DEF ClientBookParameters
  <2> QED BY <2>1, FS_Interval DEF Indices
<1>2. Used \subseteq Indices
  BY DEF Used
<1>3. /\ IsFiniteSet(Used)
      /\ Cardinality(Used) \in Nat
      /\ Cardinality(Used) <= MaxPriceLevels
  BY <1>1, <1>2, FS_Subset, FS_CardinalityType
<1>4. ASSUME NEW i \in Indices \ Used
      PROVE  Cardinality(Used) \in Indices
  <2>1. Used # Indices
    BY <1>4
  <2>2. Cardinality(Used) # MaxPriceLevels
    BY <1>1, <1>2, <2>1, FS_Subset
  <2> QED BY <1>3, <2>2 DEF ClientBookParameters, Indices
<1> QED BY <1>3, <1>4 DEF ClientBookParameters

\* Level w is l with its ring, total and count replaced.
Replaced(w, l, orders, total, count) ==
    w = [l EXCEPT !.orders = orders, !.total_qty_ = total,
                  !.orders_count_ = count]

LEMMA LevelExcept ==
  ASSUME NEW l \in ALevel, NEW orders \in Seq(AnOrder), NEW total \in Nat,
         NEW count \in Nat,
         NEW w, Replaced(w, l, orders, total, count)
  PROVE  /\ w \in ALevel
         /\ w.orders = orders
         /\ w.total_qty_ = total
         /\ w.orders_count_ = count
BY DEF ALevel, Replaced

\* One more order on a level that holds the others.
LEMMA HoldsOneMore ==
  ASSUME ClientBookParameters,
         NEW l \in ALevel, NEW s \in Seq(AnOrder), NEW order \in AnOrder,
         Holds(l, s)
  PROVE  /\ WithOrder(l, order) \in ALevel
         /\ Holds(WithOrder(l, order), Append(s, order))
<1> DEFINE t == TotalQty(s) + (QtyModulus - 1)
           q == order.qty_
<1>1. /\ QtyModulus \in Nat \ {0}
      /\ q \in Nat
  <2>1. Qtys \subseteq Nat
    BY DEF ClientBookParameters
  <2> QED BY <2>1 DEF ClientBookParameters, AnOrder
<1>2. TotalQty(s) \in Nat /\ t \in Nat
  BY <1>1, TotalType
<1>3. l.total_qty_ = t % QtyModulus
  BY <1>1, <1>2 DEF Holds
<1>4. ((t % QtyModulus) + q) % QtyModulus = (t + q) % QtyModulus
  <2> HIDE DEF t, q
  <2> QED BY <1>1, <1>2, SumModulo
<1>5. TotalQty(Append(s, order)) = TotalQty(s) + q
  BY TotalAppend
<1>6. t + q = TotalQty(Append(s, order)) + QtyModulus - 1
  BY <1>1, <1>2, <1>5
<1>7. (t + q) % QtyModulus \in Nat
  BY <1>1, <1>2
<1>8. /\ l.orders = s
      /\ l.orders_count_ = Len(s)
      /\ Append(s, order) \in Seq(AnOrder)
      /\ Len(Append(s, order)) = Len(s) + 1
  BY DEF Holds
<1> DEFINE w == WithOrder(l, order)
<1>9. w = [l EXCEPT !.orders = Append(l.orders, order),
                    !.total_qty_ = (l.total_qty_ + q) % QtyModulus,
                    !.orders_count_ = l.orders_count_ + 1]
  BY Zenon DEF WithOrder
<1> HIDE DEF t, q, w
<1>10. /\ w \in ALevel
       /\ w.orders = Append(s, order)
       /\ w.total_qty_ = (t + q) % QtyModulus
       /\ w.orders_count_ = Len(s) + 1
  <2>1. Len(s) + 1 \in Nat
    OBVIOUS
  <2>2. Replaced(w, l, Append(s, order), (t + q) % QtyModulus, Len(s) + 1)
    BY Zenon, <1>9, <1>3, <1>4, <1>8 DEF Replaced
  <2>3. \A orders \in Seq(AnOrder), total, count \in Nat :
           Replaced(w, l, orders, total, count)
           => /\ w \in ALevel
              /\ w.orders = orders
              /\ w.total_qty_ = total
              /\ w.orders_count_ = count
    BY LevelExcept
  <2> QED BY Zenon, <2>1, <2>2, <2>3, <1>7, <1>8
<1>11. Holds(w, Append(s, order))
  BY <1>6, <1>8, <1>10 DEF Holds
<1> QED BY <1>10, <1>11 DEF w

\* The level a first order gets.
LEMMA HoldsFirst ==
  ASSUME ClientBookParameters,
         NEW order \in AnOrder
  PROVE  LET l == MarketOrderPriceLevel(order)
         IN  l \in ALevel /\ Holds(l, << >>)
<1>1. /\ QtyModulus - 1 \in Nat
      /\ 0 + QtyModulus - 1 = QtyModulus - 1
      /\ (QtyModulus - 1) % QtyModulus = QtyModulus - 1
  BY DEF ClientBookParameters
<1>2. << >> \in Seq(AnOrder) /\ Len(<< >>) = 0
  OBVIOUS
<1> QED BY <1>1, <1>2, TotalEmpty
        DEF MarketOrderPriceLevel, ALevel, Holds, Qty_INVALID, AnOrder

\* Block b is taken for index i, which had no level.
LEMMA LevelPoolTaken ==
  ASSUME ClientBookParameters,
         NEW n \in Indices, NEW p, p.next_free_index_ = n,
         p.is_free_ \in [Indices -> BOOLEAN],
         \A b \in Indices : b >= n => p.is_free_[b]
  PROVE  LET t == LevelPool!Taken(p)
         IN  /\ t.next_free_index_ = n + 1
             /\ t.is_free_ \in [Indices -> BOOLEAN]
             /\ \A b \in Indices : b >= n + 1 => t.is_free_[b]
<1> DEFINE free == [p.is_free_ EXCEPT ![n] = FALSE]
           candidates == {j \in n .. MaxPriceLevels - 1 : free[j]}
<1>1. /\ MaxPriceLevels \in Nat \ {0}
      /\ LevelPool!Taken(p).is_free_ = free
      /\ LevelPool!Taken(p).next_free_index_ =
            LevelPool!updateNextFreeIndex(free, n)
  BY DEF ClientBookParameters, LevelPool!Taken
<1>2. free \in [Indices -> BOOLEAN]
  BY Zenon
<1>3. \A b \in Indices : b >= n + 1 => free[b]
  BY <1>1 DEF Indices
<1>4. ~free[n]
  OBVIOUS
<1> HIDE DEF free
<1>5. candidates = {j \in Indices : j > n}
  BY <1>1, <1>3, <1>4 DEF Indices
<1>6. LevelPool!updateNextFreeIndex(free, n) = n + 1
  <2>1. CASE n = MaxPriceLevels - 1
    <3>1. candidates = {}
      BY <1>1, <1>5, <2>1 DEF Indices
    <3> QED BY <3>1, <1>1, <2>1
            DEF LevelPool!updateNextFreeIndex, LevelPool!PastEnd
  <2>2. CASE n # MaxPriceLevels - 1
    <3>1. n + 1 \in candidates /\ \A k \in candidates : n + 1 <= k
      BY <1>1, <1>5, <2>2 DEF Indices
    <3>2. \A j \in candidates : (\A k \in candidates : j <= k) => j = n + 1
      BY <3>1, <1>1, <1>5 DEF Indices
    <3> HIDE DEF candidates
    <3>3. (CHOOSE j \in candidates : \A k \in candidates : j <= k) = n + 1
      BY <3>1, <3>2
    <3>4. candidates # {}
      BY <3>1
    <3> QED BY <3>3, <3>4 DEF LevelPool!updateNextFreeIndex, candidates
  <2> QED BY <2>1, <2>2
<1> QED BY <1>1, <1>2, <1>3, <1>6

\* addOrder() keeps the levels: the order joins the level at its index, or
\* gets the first one there.
LEMMA AddOrderKeeps ==
  ASSUME ClientBookParameters,
         EmptyRings, LevelsInv, NEW order \in AnOrder, NEW fault \in BOOLEAN,
         addOrder(order, fault), adds' = Append(adds, order)
  PROVE  LevelsInv'
<1> DEFINE i == priceToIndex(order.price_)
           at == orders_at_price_levels_
           here(j) == AtIndex(adds, j)
<1>1. /\ i \in Indices
      /\ order.price_ \in Nat
      /\ order.side_ \in Sides
  <2>1. order.price_ \in Nat /\ order.side_ \in Sides
    BY DEF ClientBookParameters, AnOrder
  <2>2. MaxPriceLevels \in Nat \ {0}
    BY DEF ClientBookParameters
  <2> QED BY <2>1, <2>2 DEF Indices, priceToIndex
<1>2. /\ adds \in Seq(AnOrder)
      /\ LevelsApart
      /\ \A j \in Indices : LevelAt(j)
  BY DEF LevelsInv
<1>3. adds' \in Seq(AnOrder)
  BY <1>2
<1>4. \A j \in Indices : here(j) \in Seq(AnOrder)
  BY <1>2, AtIndexType
<1>5. \A j \in Indices :
         AtIndex(adds', j) = IF j = i THEN Append(here(j), order) ELSE here(j)
  BY <1>2, AtIndexAppend
<1>6. Append(here(i), order) # << >>
  BY <1>1, <1>4
<1> HIDE DEF here, i
<1>7. CASE at[i] # Null
  <2> DEFINE b == at[i]
             l == price_levels[b]
  <2>1. /\ price_levels' = [price_levels EXCEPT ![b] = WithOrder(@, order)]
        /\ at' = at
        /\ price_level_pool_' = price_level_pool_
    BY <1>7 DEF addOrder, i
  <2>2. i \in Used /\ b \in Indices /\ l \in ALevel
    BY <1>1, <1>2, <1>7 DEF LevelsApart, Used
  <2>3. here(i) # << >> /\ Holds(l, here(i))
    BY <1>1, <1>2, <1>7 DEF LevelAt, here
  <2>4. /\ WithOrder(l, order) \in ALevel
        /\ Holds(WithOrder(l, order), Append(here(i), order))
    BY <1>1, <1>4, <2>2, <2>3, HoldsOneMore
  <2>5. /\ price_levels'[b] = WithOrder(l, order)
        /\ \A c \in Indices \ {b} : price_levels'[c] = price_levels[c]
        /\ price_levels' \in [Indices -> ALevel \cup {Null}]
    BY <1>2, <2>1, <2>2, <2>4 DEF LevelsApart
  <2>6. Used' = Used
    BY <2>1 DEF Used
  <2>7. \A j \in Used : at[j] \in Indices /\ (j # i => at[j] # b)
    BY <1>2, <2>2 DEF LevelsApart, Used
  <2> HIDE DEF b, l
  <2>8. LevelsApart'
    <3>1. \A j \in Used : price_levels'[at[j]] \in ALevel
      BY <1>2, <2>4, <2>5, <2>7 DEF LevelsApart
    <3> QED BY <1>2, <2>1, <2>5, <2>6, <3>1 DEF LevelsApart
  <2>9. ASSUME NEW j \in Indices
        PROVE  LevelAt(j)'
    <3>1. CASE j = i
      BY <3>1, <1>1, <1>5, <1>6, <1>7, <2>1, <2>4, <2>5 DEF LevelAt, b
    <3>2. CASE j # i
      <4>1. LevelAt(j) /\ AtIndex(adds', j) = here(j)
        BY <3>2, <1>2, <1>5
      <4>2. at[j] # Null => price_levels'[at[j]] = price_levels[at[j]]
        BY <3>2, <2>5, <2>7 DEF Used
      <4> QED BY <4>1, <4>2, <2>1 DEF LevelAt, here, Holds
    <3> QED BY <3>1, <3>2
  <2> QED BY <1>3, <2>8, <2>9 DEF LevelsInv
<1>8. CASE at[i] = Null
  <2> DEFINE b == price_level_pool_.next_free_index_
             l == MarketOrderPriceLevel(order)
             n == Cardinality(Used)
  <2>1. /\ price_levels' = [price_levels EXCEPT ![b] = WithOrder(l, order)]
        /\ at' = [at EXCEPT ![i] = b]
        /\ price_level_pool_' = LevelPool!Taken(price_level_pool_)
    <3>1. priceToIndex(l.price_) = i
      BY DEF MarketOrderPriceLevel, i
    <3> HIDE DEF l
    <3> QED BY <1>8, <3>1 DEF addOrder, addOrdersAtPriceLevel, i, l
  <2>2. /\ b = n
        /\ n \in Indices
        /\ n \in Nat
        /\ IsFiniteSet(Used)
        /\ i \notin Used
    <3>1. i \in Indices \ Used
      BY <1>1, <1>8 DEF Used
    <3>2. LevelsApart
      BY <1>2
    <3>3. /\ n \in Indices
          /\ IsFiniteSet(Used)
      BY <3>1, <3>2, UsedCount
    <3>4. b = n
      BY <3>2 DEF LevelsApart
    <3> QED BY <3>1, <3>3, <3>4 DEF ClientBookParameters, Indices
  <2>3. here(i) = << >>
    BY <1>1, <1>2, <1>8 DEF LevelAt, here
  <2>4. /\ WithOrder(l, order) \in ALevel
        /\ Holds(WithOrder(l, order), Append(here(i), order))
    <3>1. l \in ALevel /\ Holds(l, << >>) /\ << >> \in Seq(AnOrder)
      BY HoldsFirst
    <3> HIDE DEF l
    <3> QED BY <2>3, <3>1, HoldsOneMore
  <2> HIDE DEF b, l, n
  <2>5. /\ price_levels'[b] = WithOrder(l, order)
        /\ \A c \in Indices \ {b} : price_levels'[c] = price_levels[c]
        /\ price_levels' \in [Indices -> ALevel \cup {Null}]
    BY <1>2, <2>1, <2>2, <2>4 DEF LevelsApart
  <2>6. /\ at'[i] = b
        /\ b # Null
        /\ \A j \in Indices \ {i} : at'[j] = at[j]
        /\ at' \in [Indices -> Indices \cup {Null}]
    BY <1>1, <1>2, <2>1, <2>2 DEF ClientBookParameters, LevelsApart
  <2>7. Used' = Used \cup {i}
    BY <1>1, <2>6 DEF Used
  <2>8. Cardinality(Used') = n + 1
    BY <2>2, <2>7, FS_AddElement DEF n
  <2>9. \A j \in Used : /\ at[j] \in Indices
                        /\ at[j] < b
                        /\ at'[j] = at[j]
                        /\ price_levels'[at[j]] = price_levels[at[j]]
    <3> SUFFICES ASSUME NEW j \in Used
                 PROVE  /\ at[j] \in Indices
                        /\ at[j] < b
                        /\ at'[j] = at[j]
                        /\ price_levels'[at[j]] = price_levels[at[j]]
      OBVIOUS
    <3>1. j \in Indices \ {i} /\ at[j] \in Indices /\ at[j] < b
      BY <1>2, <2>2 DEF LevelsApart, Used, n
    <3>2. at[j] # b
      BY <3>1, <2>2 DEF Indices
    <3> QED BY <3>1, <3>2, <2>5, <2>6
  <2>10. /\ price_level_pool_'.next_free_index_ = n + 1
         /\ price_level_pool_'.is_free_ \in [Indices -> BOOLEAN]
         /\ \A c \in Indices : c >= n + 1 => price_level_pool_'.is_free_[c]
    <3>1. /\ price_level_pool_.next_free_index_ = n
          /\ price_level_pool_.is_free_ \in [Indices -> BOOLEAN]
          /\ \A c \in Indices : c >= n => price_level_pool_.is_free_[c]
      BY <1>2 DEF LevelsApart, n
    <3> QED BY <3>1, <2>1, <2>2, LevelPoolTaken
  <2>11. LevelsApart'
    <3>1. \A j \in Used' : at'[j] < n + 1 /\ price_levels'[at'[j]] \in ALevel
      <4> SUFFICES ASSUME NEW j \in Used'
                   PROVE  at'[j] < n + 1 /\ price_levels'[at'[j]] \in ALevel
        OBVIOUS
      <4>1. CASE j = i
        BY <4>1, <2>2, <2>4, <2>5, <2>6
      <4>2. CASE j \in Used
        <5>1. at[j] < n + 1
          BY <4>2, <2>2, <2>9 DEF Indices
        <5> QED BY <4>2, <5>1, <1>2, <2>9 DEF LevelsApart
      <4> QED BY <4>1, <4>2, <2>7
    <3>2. \A j, k \in Used' : at'[j] = at'[k] => j = k
      <4>1. \A j \in Used : at[j] # b
        BY <2>2, <2>9 DEF Indices
      <4>2. \A j, k \in Used : at[j] = at[k] => j = k
        BY <1>2 DEF LevelsApart
      <4> QED BY <4>1, <4>2, <2>6, <2>7, <2>9
    <3> QED BY <3>1, <3>2, <2>5, <2>6, <2>8, <2>10 DEF LevelsApart
  <2>12. ASSUME NEW j \in Indices
         PROVE  LevelAt(j)'
    <3>1. CASE j = i
      BY <3>1, <1>1, <1>5, <1>6, <2>4, <2>5, <2>6 DEF LevelAt
    <3>2. CASE j # i
      <4>1. LevelAt(j) /\ AtIndex(adds', j) = here(j) /\ at'[j] = at[j]
        BY <3>2, <1>2, <1>5, <2>6
      <4>2. at[j] # Null => price_levels'[at[j]] = price_levels[at[j]]
        BY <2>9 DEF Used
      <4> QED BY <4>1, <4>2 DEF LevelAt, here, Holds
    <3> QED BY <3>1, <3>2
  <2> QED BY <1>3, <2>11, <2>12 DEF LevelsInv
<1> QED BY <1>7, <1>8

LEMMA LevelsStep ==
  ASSUME ClientBookParameters
  PROVE  EmptyRings /\ LevelsInv /\ [Next]_vars => LevelsInv'
<1> SUFFICES ASSUME EmptyRings, LevelsInv, [Next]_vars PROVE LevelsInv'
  OBVIOUS
<1>1. ASSUME UNCHANGED <<book, adds>>
      PROVE  LevelsInv'
  <2>1. /\ Used' = Used
        /\ UNCHANGED <<adds, orders_at_price_levels_, price_levels,
                       price_level_pool_>>
    BY <1>1 DEF Used, book
  <2>2. LevelsApart' = LevelsApart
    BY <2>1 DEF LevelsApart
  <2>3. \A i \in Indices : LevelAt(i)' = LevelAt(i)
    BY <2>1 DEF LevelAt, Holds
  <2> QED BY <2>1, <2>2, <2>3 DEF LevelsInv
<1>2. ASSUME NEW order \in AnOrder, NEW fault \in BOOLEAN, onAdd(order, fault)
      PROVE  LevelsInv'
  <2>1. CASE UNCHANGED <<book, adds>>
    BY <2>1, <1>1
  <2>2. CASE addOrder(order, fault) /\ adds' = Append(adds, order)
    BY <2>2, AddOrderKeeps
  <2> QED BY <1>2, <2>1, <2>2 DEF onAdd, Crash
<1>3. ASSUME NEW id \in OrderIds, NEW side \in Sides, NEW price \in Prices,
             NEW qty \in Qtys, NEW fault \in BOOLEAN,
             onAdd([orderId_ |-> id, side_ |-> side, price_ |-> price,
                    qty_ |-> qty], fault)
      PROVE  LevelsInv'
  <2> DEFINE order == [orderId_ |-> id, side_ |-> side, price_ |-> price,
                       qty_ |-> qty]
  <2>1. order \in AnOrder /\ onAdd(order, fault)
    BY <1>3 DEF AnOrder
  <2> HIDE DEF order
  <2> QED BY <2>1, <1>2
<1>4. CASE onClear
  <2>1. ring = [s \in Sides |-> << >>]
    BY DEF EmptyRings
  <2>2. CASE UNCHANGED <<book, adds>>
    BY <2>2, <1>1
  <2>3. CASE /\ orders_at_price_levels_' = orders_at_price_levels_
             /\ UNCHANGED <<price_levels, adds>>
             /\ price_level_pool_' =
                   [price_level_pool_ EXCEPT !.is_free_ =
                      [b \in DOMAIN @ |->
                         @[b] \/ \E s \in Sides : b \in Range(ring[s])]]
    <3>1. Used' = Used
      BY <2>3 DEF Used
    <3>2. \A b : ~\E s \in Sides : b \in Range(ring[s])
      BY <2>1 DEF Range
    <3>3. price_level_pool_.is_free_ \in [Indices -> BOOLEAN]
      BY DEF LevelsInv, LevelsApart
    <3>4. /\ price_level_pool_'.is_free_ = price_level_pool_.is_free_
          /\ price_level_pool_'.next_free_index_ =
                price_level_pool_.next_free_index_
      BY <2>3, <3>2, <3>3
    <3>5. LevelsApart'
      BY <2>3, <3>1, <3>4 DEF LevelsInv, LevelsApart
    <3>6. \A i \in Indices : LevelAt(i)' = LevelAt(i)
      BY <2>3 DEF LevelAt, Holds
    <3> QED BY <2>3, <3>5, <3>6 DEF LevelsInv
  <2> QED BY <1>4, <2>2, <2>3 DEF onClear, Crash, book
<1>5. CASE onMarketUpdate
  <2>1. CASE onModify \/ onOther
    BY <2>1, <1>1 DEF onModify, onOther, Crash
  <2>2. CASE \E id \in OrderIds, side \in Sides : onCancel(id, side)
    BY <2>2, <1>1 DEF onCancel, Crash
  <2> QED BY <1>3, <1>4, <1>5, <2>1, <2>2 DEF onMarketUpdate
<1>6. CASE onOrderBookUpdate \/ onTradeUpdate
  BY <1>1, <1>6 DEF onOrderBookUpdate, onTradeUpdate, Crash
<1>7. CASE UNCHANGED vars
  BY <1>1, <1>7 DEF vars
<1> QED BY <1>5, <1>6, <1>7 DEF Next

LEMMA LevelsInit == Init => LevelsInv
<1> SUFFICES ASSUME Init PROVE LevelsInv
  OBVIOUS
<1>1. /\ adds = << >>
      /\ << >> \in Seq(AnOrder)
      /\ orders_at_price_levels_ = [i \in Indices |-> Null]
      /\ price_levels = [i \in Indices |-> Null]
      /\ price_level_pool_.next_free_index_ = 0
      /\ price_level_pool_.is_free_ = [b \in Indices |-> TRUE]
  BY DEF Init, Indices, LevelPool!EmptyPool, LevelPool!Blocks
<1>2. price_level_pool_.is_free_ \in [Indices -> BOOLEAN]
  BY <1>1, Zenon
<1>3. Used = {} /\ Cardinality(Used) = 0
  BY <1>1, FS_EmptySet DEF Used
<1>4. LevelsApart
  BY <1>1, <1>2, <1>3 DEF LevelsApart
<1>5. \A i \in Indices : LevelAt(i)
  BY <1>1, AtIndexEmpty DEF LevelAt
<1> QED BY <1>1, <1>4, <1>5 DEF LevelsInv

\* The level at an index holds every order ever added there, also after a
\* CANCEL or a CLEAR, with the right count and a total one less than their sum.
LevelsKeepEverything == \A i \in Indices : LevelAt(i)

\* As long as nothing was to leave the book, a level has every order added at
\* its index, in order of arrival, and counts them right, for every stream of
\* updates and every size of the tables and pools (addOrder()).
THEOREM LevelsAreRight ==
  ASSUME ClientBookParameters
  PROVE  Spec => []LevelsHoldAdds
<1>1. Init => EmptyRings
  BY DEF Init, EmptyRings, features
<1>2. LevelsInv => LevelsHoldAdds
  BY DEF LevelsInv, LevelAt, Holds, Indices, LevelsHoldAdds
<1> QED BY <1>1, <1>2, LevelsInit, LevelsStep, EmptyRingsStep, PTL DEF Spec

\* CANCEL and CLEAR take nothing out of a level, against "We need to clear whole
\* book" (line 173), and its total is one less than the sum of its orders modulo
\* the width of Qty, for every stream of updates and every width of Qty
\* (onMarketUpdate(), CLEAR, and the initial value of total_qty_).
THEOREM NothingIsForgotten ==
  ASSUME ClientBookParameters
  PROVE  Spec => []LevelsKeepEverything
<1>1. Init => EmptyRings
  BY DEF Init, EmptyRings, features
<1>2. LevelsInv => LevelsKeepEverything
  BY DEF LevelsInv, LevelsKeepEverything
<1> QED BY <1>1, <1>2, LevelsInit, LevelsStep, EmptyRingsStep, PTL DEF Spec
=============================================================================

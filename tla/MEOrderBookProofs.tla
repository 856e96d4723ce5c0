------------------------- MODULE MEOrderBookProofs -------------------------
(***************************************************************************)
(* Proofs about MEOrderBook for all clients, prices, quantities and sizes  *)
(* of the pools.                                                           *)
(***************************************************************************)
EXTENDS MEOrderBook, TLAPS, FiniteSetTheorems, WellFoundedInduction

\* s has the fields of a book.
IsBook(s) ==
    s = [orders |-> s.orders, order_pool_ |-> s.order_pool_,
         levels |-> s.levels, price_levels_pool_ |-> s.price_levels_pool_,
         price_levels_ |-> s.price_levels_,
         client_orders_ |-> s.client_orders_,
         bid_levels_head_ |-> s.bid_levels_head_,
         ask_levels_head_ |-> s.ask_levels_head_,
         next_market_order_id_ |-> s.next_market_order_id_,
         responses |-> s.responses, updates |-> s.updates,
         process |-> s.process]

\* The book's heads are never set, so no request is answered with FILLED.
HeadsNeverSet ==
    /\ bid_levels_head_ = Null
    /\ ask_levels_head_ = Null
    /\ \A r \in Elements(responses) : r.type # "FILLED"

\* No order is announced among these updates.
NoAdds(sent) == \A u \in Elements(sent) : u.type # "ADD"

\* The states of the process.
Fates == {"running", "terminated", "corrupted"}

\* A function that took s and returned t left the heads alone and sent no
\* message; at most it ended the process.
Quiet(s, t) ==
    /\ IsBook(t)
    /\ s.process \in Fates => t.process \in Fates
    /\ t.bid_levels_head_ = s.bid_levels_head_
    /\ t.ask_levels_head_ = s.ask_levels_head_
    /\ t.responses = s.responses
    /\ t.updates = s.updates

\* Relinking orders is quiet.
LEMMA OrdersChangeQuiet ==
    ASSUME NEW s, IsBook(s), NEW heap
    PROVE  Quiet(s, [s EXCEPT !.orders = heap])
  BY DEF IsBook, Quiet, Fates

LEMMA AllocateQuiet ==
    ASSUME NEW s, IsBook(s), NEW x, NEW fault
    PROVE  /\ Quiet(s, allocateOrder(s, x, fault))
           /\ Quiet(s, allocateLevel(s, x, fault))
  BY DEF IsBook, Quiet, Fates, allocateOrder, allocateLevel, Terminated

LEMMA DeallocateQuiet ==
    ASSUME NEW s, IsBook(s), NEW b
    PROVE  /\ Quiet(s, deallocateOrder(s, b))
           /\ Quiet(s, deallocateLevel(s, b))
  BY DEF IsBook, Quiet, Fates, deallocateOrder, deallocateLevel, Terminated

LEMMA QuietTransitive ==
    ASSUME NEW s, NEW t, NEW u, Quiet(s, t), Quiet(t, u)
    PROVE  Quiet(s, u)
  BY DEF Quiet

\* Without a head, a new level does not become one.
LEMMA AddLevelQuiet ==
    ASSUME NEW s, IsBook(s), NEW l,
           s.bid_levels_head_ = Null, s.ask_levels_head_ = Null
    PROVE  Quiet(s, addOrdersAtPrice(s, l))
<1> DEFINE side   == s.levels[l].side_
           listed == [s EXCEPT
                        !.price_levels_[priceToIndex(s.levels[l].price_)] = l]
<1>1. LevelsHead(s, side) = Null
  BY DEF LevelsHead
<1>2. addOrdersAtPrice(s, l)
        = [listed EXCEPT !.levels[l].prev_price_level_ = l,
                         !.levels[l].next_price_level_ = l]
  BY <1>1 DEF addOrdersAtPrice
<1> QED BY <1>2 DEF IsBook, Quiet

LEMMA RemoveLevelQuiet ==
    ASSUME NEW s, IsBook(s), NEW side, NEW price
    PROVE  Quiet(s, removePriceLevel(s, side, price))
<1> DEFINE l        == getPriceLevel(s, price)
           next     == s.levels[l].next_price_level_
           prev     == s.levels[l].prev_price_level_
           unlinked == IF next = l
                       THEN s
                       ELSE [s EXCEPT !.levels =
                               [@ EXCEPT ![prev].next_price_level_ = next,
                                         ![next].prev_price_level_ = prev]]
           cleared  == [unlinked EXCEPT
                          !.price_levels_[priceToIndex(price)] = Null]
<1>1. removePriceLevel(s, side, price) = deallocateLevel(cleared, l)
  BY DEF removePriceLevel
<1>2. Quiet(s, unlinked)
  BY DEF IsBook, Quiet, Fates
<1> HIDE DEF unlinked
<1>3. Quiet(unlinked, cleared)
  BY <1>2 DEF IsBook, Quiet
<1> HIDE DEF cleared
<1>4. IsBook(cleared)
  BY <1>3 DEF Quiet
<1>5. Quiet(cleared, deallocateLevel(cleared, l))
  BY <1>4, DeallocateQuiet
<1> QED BY <1>1, <1>2, <1>3, <1>5, QuietTransitive

LEMMA RemoveOrderQuiet ==
    ASSUME NEW s, IsBook(s), NEW o
    PROVE  Quiet(s, removeOrder(s, o))
<1> DEFINE c       == s.orders[o].clientId_
           id      == s.orders[o].client_orderId_
           cleared == [Detached(s, o) EXCEPT !.client_orders_[c][id] = Null]
<1>1. Quiet(s, Detached(s, o))
  <2>1. Quiet(s, removePriceLevel(s, s.orders[o].side_, s.orders[o].price_))
    BY RemoveLevelQuiet
  <2> QED BY <2>1 DEF Detached, IsBook, Quiet
<1>2. Quiet(Detached(s, o), cleared)
  BY <1>1 DEF IsBook, Quiet
<1> HIDE DEF cleared
<1>3. Quiet(cleared, deallocateOrder(cleared, o))
  BY <1>2, DeallocateQuiet DEF Quiet
<1>4. removeOrder(s, o) = IF Running(Detached(s, o))
                          THEN deallocateOrder(cleared, o)
                          ELSE Detached(s, o)
  BY DEF removeOrder, cleared
<1> QED BY <1>1, <1>2, <1>3, <1>4, QuietTransitive

LEMMA AddOrderQuiet ==
    ASSUME NEW s, IsBook(s), NEW o, NEW fault,
           s.bid_levels_head_ = Null, s.ask_levels_head_ = Null
    PROVE  Quiet(s, addOrder(s, o, fault))
<1>1. Quiet(s, Enlisted(s, o, fault))
  <2> DEFINE order == s.orders[o]
             l     == getPriceLevel(s, order.price_)
             first == s.levels[l].first_order_
             last  == s.orders[first].prev_order_
             self  == [s EXCEPT !.orders[o] = [@ EXCEPT !.next_order_ = o,
                                                        !.prev_order_ = o]]
             level == [side_ |-> order.side_, price_ |-> order.price_,
                       first_order_ |-> o, prev_price_level_ |-> Null,
                       next_price_level_ |-> Null]
             alone == allocateLevel(self, level, fault)
             new   == s.price_levels_pool_.next_free_index_
             appended == [s EXCEPT !.orders =
                            [@ EXCEPT ![last].next_order_ = o,
                                      ![o].prev_order_ = last,
                                      ![o].next_order_ = first,
                                      ![first].prev_order_ = o]]
  <2>1. Enlisted(s, o, fault) = IF l # Null THEN appended
                                ELSE IF ~Running(alone) THEN alone
                                ELSE addOrdersAtPrice(alone, new)
    BY DEF Enlisted
  <2>2. Quiet(s, appended)
    BY OrdersChangeQuiet
  <2>3. Quiet(s, self)
    BY DEF IsBook, Quiet, Fates
  <2> HIDE DEF appended, self, level, l, new
  <2>4. Quiet(self, alone)
    BY <2>3, AllocateQuiet DEF Quiet
  <2>5. Quiet(s, alone)
    BY <2>3, <2>4, QuietTransitive
  <2> HIDE DEF alone
  <2>6. Quiet(alone, addOrdersAtPrice(alone, new))
    BY <2>5, AddLevelQuiet DEF Quiet
  <2> QED BY <2>1, <2>2, <2>5, <2>6, QuietTransitive
<1>2. Quiet(Enlisted(s, o, fault), addOrder(s, o, fault))
  BY <1>1 DEF addOrder, Terminated, IsBook, Quiet, Fates
<1> QED BY <1>1, <1>2, QuietTransitive

\* The heads of s are null, and it carries at most one answer, not a fill.
Inert(s) ==
    /\ IsBook(s)
    /\ s.process \in Fates
    /\ s.bid_levels_head_ = Null
    /\ s.ask_levels_head_ = Null
    /\ \/ s.responses = << >>
       \/ \E r : s.responses = <<r>> /\ r.type # "FILLED"

LEMMA QuietInert ==
    ASSUME NEW s, NEW t, Inert(s), Quiet(s, t)
    PROVE  Inert(t)
  BY DEF Inert, Quiet

LEMMA PublishInert ==
    ASSUME NEW s, Inert(s), NEW u
    PROVE  /\ Inert(Publish(s, u))
           /\ Publish(s, u).responses = s.responses
           /\ Publish(s, u).updates = Append(s.updates, u)
<1> DEFINE all == Append(s.updates, u)
<1>1. Publish(s, u) = [s EXCEPT !.updates = all]
  BY DEF Publish
<1> HIDE DEF all
<1>2. /\ Inert(Publish(s, u))
      /\ Publish(s, u).responses = s.responses
      /\ Publish(s, u).updates = all
  BY <1>1 DEF Inert, IsBook
<1> QED BY <1>2 DEF all

LEMMA SendInert ==
    ASSUME NEW s, Inert(s), s.responses = << >>, NEW r, r.type # "FILLED"
    PROVE  Inert(Send(s, r)) /\ Send(s, r).updates = s.updates
<1>1. Append(s.responses, r) = <<r>>
  OBVIOUS
<1>2. /\ IsBook(Send(s, r))
      /\ Send(s, r).process \in Fates
      /\ Send(s, r).bid_levels_head_ = Null
      /\ Send(s, r).ask_levels_head_ = Null
      /\ Send(s, r).responses = Append(s.responses, r)
      /\ Send(s, r).updates = s.updates
  BY DEF Inert, IsBook, Send
<1> QED BY <1>1, <1>2 DEF Inert

\* A NEW request, whatever its side, price and quantity, matches nothing, and
\* announces nothing when it ends the process.
LEMMA AddInert ==
    ASSUME NEW s, Inert(s), s.responses = << >>, s.updates = << >>,
           NEW c, NEW id, NEW side, NEW price, NEW qty, NEW fault
    PROVE  LET t == add(s, c, id, side, price, qty, fault)
           IN  Inert(t) /\ (Running(t) \/ NoAdds(t.updates))
<1> DEFINE marketId == s.next_market_order_id_
           numbered == [s EXCEPT !.next_market_order_id_ = @ + 1]
           reply    == Response("ACCEPTED", c, id, marketId, side, price, 0,
                                qty)
           accepted == Send(numbered, reply)
           taker    == [clientId_ |-> c, client_orderId_ |-> id,
                        market_orderId_ |-> marketId, side_ |-> side,
                        price_ |-> price, qty_ |-> qty]
           matched  == checkForMatch(accepted, taker)
           order    == [clientId_ |-> c, client_orderId_ |-> id,
                        market_orderId_ |-> marketId, side_ |-> side,
                        price_ |-> price, qty_ |-> matched.left,
                        priority_ |-> getNextPriority(matched.book, price),
                        prev_order_ |-> Null, next_order_ |-> Null]
           o        == matched.book.order_pool_.next_free_index_
           stored   == allocateOrder(matched.book, order, fault)
           placed   == addOrder(stored, o, fault)
<1>1. add(s, c, id, side, price, qty, fault)
        = IF ~Running(matched.book) \/ matched.left = 0
          THEN matched.book
          ELSE IF ~Running(stored)
          THEN stored
          ELSE IF ~Running(placed)
          THEN placed
          ELSE Publish(placed, Announcement(order))
  BY DEF add
<1>2. Inert(accepted) /\ accepted.updates = << >>
  <2>1. Quiet(s, numbered)
    BY DEF Inert, IsBook, Quiet
  <2>2. /\ Inert(numbered)
        /\ numbered.responses = << >>
        /\ numbered.updates = << >>
    BY <2>1, QuietInert DEF Quiet
  <2>3. reply.type # "FILLED"
    BY DEF Response
  <2> HIDE DEF numbered, reply
  <2> QED BY <2>2, <2>3, SendInert
<1> HIDE DEF accepted
<1>3. matched.book = accepted
  <2>1. OppositeHead(accepted, taker.side_) = Null
    BY <1>2 DEF Inert, OppositeHead
  <2> QED BY <2>1 DEF checkForMatch
<1>4. Inert(matched.book) /\ matched.book.updates = << >>
  BY <1>2, <1>3
<1> HIDE DEF matched, order, o
<1>5. Inert(stored) /\ stored.updates = << >>
  <2>1. Quiet(matched.book, stored)
    BY <1>4, AllocateQuiet DEF Inert
  <2> HIDE DEF stored
  <2> QED BY <1>4, <2>1, QuietInert DEF Quiet
<1> HIDE DEF stored
<1>6. Inert(placed) /\ placed.updates = << >>
  <2>1. Quiet(stored, placed)
    BY <1>5, AddOrderQuiet DEF Inert
  <2> HIDE DEF placed
  <2> QED BY <1>5, <2>1, QuietInert DEF Quiet
<1> HIDE DEF placed
<1> DEFINE told == Publish(placed, Announcement(order))
<1>7. Inert(told)
  BY <1>6, PublishInert
<1>8. ASSUME ~Running(placed) PROVE NoAdds(placed.updates)
  BY <1>6 DEF NoAdds, Elements
<1>9. Running(placed) => Running(told)
  BY <1>6 DEF Publish, Running, Inert, IsBook
<1>10. NoAdds(<< >>)
  BY DEF NoAdds, Elements
<1> HIDE DEF told
<1> QED BY <1>1, <1>4, <1>5, <1>6, <1>7, <1>8, <1>9, <1>10 DEF told

LEMMA CancelInert ==
    ASSUME NEW s, Inert(s), s.responses = << >>, s.updates = << >>,
           NEW c, NEW id, NEW fault
    PROVE  LET t == cancel(s, c, id, fault)
           IN  Inert(t) /\ NoAdds(t.updates)
<1> DEFINE Fine(t) == Inert(t) /\ NoAdds(t.updates)
<1>0. NoAdds(<< >>)
  BY DEF NoAdds, Elements
<1>1. Fine(Terminated(s))
  BY <1>0 DEF Inert, Terminated, IsBook, Fates
<1>2. Fine(Send(s, Response("CANCEL_REJECTED", c, id, Null, Null, Null, Null,
                            Null)))
  <2> DEFINE r == Response("CANCEL_REJECTED", c, id, Null, Null, Null, Null,
                           Null)
  <2>1. r.type # "FILLED"
    BY DEF Response
  <2> HIDE DEF r
  <2>2. Inert(Send(s, r)) /\ Send(s, r).updates = s.updates
    BY <2>1, SendInert
  <2> QED BY <2>2, <1>0 DEF r
<1>3. ASSUME NEW o PROVE Fine(Canceled(s, c, id, o))
  <2> DEFINE order == s.orders[o]
             u     == Update("CANCEL", id, order.side_, order.price_,
                             order.qty_, order.priority_)
             gone  == Publish(removeOrder(s, o), u)
             r     == Response("CANCELED", c, id, order.market_orderId_,
                               order.side_, order.price_, Null, order.qty_)
  <2>1. Quiet(s, removeOrder(s, o))
    BY RemoveOrderQuiet DEF Inert
  <2>2. /\ Inert(removeOrder(s, o))
        /\ removeOrder(s, o).responses = << >>
        /\ removeOrder(s, o).updates = << >>
    BY <2>1, QuietInert DEF Quiet
  <2>3. r.type # "FILLED" /\ u.type = "CANCEL"
    BY DEF Response, Update
  <2>4. Canceled(s, c, id, o) = Send(gone, r)
    BY DEF Canceled
  <2> HIDE DEF u, r
  <2>5. Append(<< >>, u) = <<u>>
    OBVIOUS
  <2>6. Inert(gone) /\ gone.responses = << >> /\ gone.updates = <<u>>
    BY <2>2, <2>5, PublishInert
  <2> HIDE DEF gone
  <2>7. Inert(Send(gone, r)) /\ Send(gone, r).updates = <<u>>
    BY <2>3, <2>6, SendInert
  <2>8. NoAdds(<<u>>)
    BY <2>3 DEF NoAdds, Elements
  <2> QED BY <2>4, <2>7, <2>8
<1>4. Fine(s)
  BY <1>0
<1> QED BY <1>1, <1>2, <1>3, <1>4 DEF cancel

LEMMA BookInert ==
    ASSUME HeadsNeverSet, process = "running"
    PROVE  Inert(Book) /\ Book.responses = << >> /\ Book.updates = << >>
  BY DEF HeadsNeverSet, Inert, IsBook, Book, Fates

LEMMA StepInert ==
    ASSUME HeadsNeverSet, NEW s, Inert(s), Step(s)
    PROVE  HeadsNeverSet' /\ process' \in Fates
<1>0. process' \in Fates
  BY DEF Step, Becomes, Inert
<1>1. /\ bid_levels_head_' = Null
      /\ ask_levels_head_' = Null
      /\ responses' = s.responses
  BY DEF Step, Becomes, Inert, HeadsNeverSet
<1>2. \A r \in Elements(s.responses) : r.type # "FILLED"
  BY DEF Inert, Elements
<1> QED BY <1>0, <1>1, <1>2 DEF HeadsNeverSet, Elements

LEMMA NextInert ==
    ASSUME HeadsNeverSet, process \in Fates, [Next]_vars
    PROVE  HeadsNeverSet' /\ process' \in Fates
<1>b. process = "running" =>
         Inert(Book) /\ Book.responses = << >> /\ Book.updates = << >>
  BY BookInert
<1>1. ASSUME NEW c \in Clients, NEW id \in OrderIds, NEW side \in Sides,
             NEW price \in Prices, NEW qty \in Qtys, NEW fault \in BOOLEAN,
             NewRequest(c, id, side, price, qty, fault)
      PROVE  HeadsNeverSet' /\ process' \in Fates
  <2>1. Inert(add(Book, c, id, side, price, qty, fault))
    BY <1>b, <1>1, AddInert DEF NewRequest
  <2> QED BY <2>1, <1>1, StepInert DEF NewRequest
<1>2. ASSUME NEW c \in Clients, NEW id \in OrderIds, NEW fault \in BOOLEAN,
             CancelRequest(c, id, fault)
      PROVE  HeadsNeverSet' /\ process' \in Fates
  <2>1. Inert(cancel(Book, c, id, fault))
    BY <1>b, <1>2, CancelInert DEF CancelRequest
  <2> QED BY <2>1, <1>2, StepInert DEF CancelRequest
<1>3. CASE InvalidRequest
  <2>1. Inert(Terminated(Book))
    BY <1>b, <1>3 DEF InvalidRequest, Inert, Terminated, IsBook, Fates
  <2> QED BY <2>1, <1>3, StepInert DEF InvalidRequest
<1>4. CASE UNCHANGED vars
  BY <1>4 DEF vars, HeadsNeverSet, Elements
<1> QED BY <1>1, <1>2, <1>3, <1>4 DEF Next

LEMMA HeadsStartUnset == Init => HeadsNeverSet /\ process \in Fates
  BY DEF Init, HeadsNeverSet, Elements, Fates

\* Whatever the requests, no order is ever matched and no client is ever told
\* of a fill, because addOrdersAtPrice() stores the first level of a side in a
\* local variable only: the note of me_order_book.h:53-55, that an order which
\* reaches a level of the other side is matched at once, holds of no book.
THEOREM BookNeverTrades == Spec => []HeadsNeverSet
<1>1. HeadsNeverSet /\ process \in Fates /\ [Next]_vars
        => HeadsNeverSet' /\ (process \in Fates)'
  BY NextInert
<1> QED BY <1>1, HeadsStartUnset, PTL DEF Spec

-----------------------------------------------------------------------------
(* What a request does to the book, field by field.                        *)

\* Groups of fields in which books s and t agree.
SameOrders(s, t) == t.orders = s.orders /\ t.order_pool_ = s.order_pool_

SameLevels(s, t) ==
    /\ t.levels = s.levels
    /\ t.price_levels_pool_ = s.price_levels_pool_
    /\ t.price_levels_ = s.price_levels_

SameHeads(s, t) ==
    /\ t.bid_levels_head_ = s.bid_levels_head_
    /\ t.ask_levels_head_ = s.ask_levels_head_

SameIndex(s, t) ==
    /\ t.client_orders_ = s.client_orders_
    /\ t.next_market_order_id_ = s.next_market_order_id_

SameMessages(s, t) == t.responses = s.responses /\ t.updates = s.updates

\* allocate() of an order that returns.
LEMMA AllocateOrderEffect ==
    ASSUME NEW s, IsBook(s), NEW x, NEW fault,
           Running(allocateOrder(s, x, fault))
    PROVE  LET t == allocateOrder(s, x, fault)
               b == s.order_pool_.next_free_index_
           IN  /\ IsBook(t)
               /\ Running(s)
               /\ b # OrderPool!PastEnd
               /\ s.order_pool_.is_free_[b]
               /\ t.orders = [s.orders EXCEPT ![b] = x]
               /\ t.order_pool_ = OrderPool!Taken(s.order_pool_)
               /\ SameLevels(s, t)
               /\ SameHeads(s, t)
               /\ SameIndex(s, t)
               /\ SameMessages(s, t)
<1> DEFINE b == s.order_pool_.next_free_index_
           taken == OrderPool!Taken(s.order_pool_)
           t == allocateOrder(s, x, fault)
<1>1. b # OrderPool!PastEnd
  BY DEF allocateOrder, Running, IsBook
<1>2. s.order_pool_.is_free_[b]
  BY <1>1 DEF allocateOrder, Running, IsBook, Terminated
<1>3. t = [s EXCEPT !.orders[b] = x, !.order_pool_ = taken,
                    !.process = IF fault /\ taken.next_free_index_ = OrderPool!PastEnd
                                THEN "terminated" ELSE @]
  BY <1>1, <1>2 DEF allocateOrder
<1> HIDE DEF b, taken, t
<1>4. Running(t)
  BY DEF t
<1> QED BY <1>1, <1>2, <1>3, <1>4 DEF IsBook, Running, SameLevels, SameHeads, SameIndex,
                                SameMessages, b, taken, t

LEMMA AllocateLevelEffect ==
    ASSUME NEW s, IsBook(s), NEW x, NEW fault,
           Running(allocateLevel(s, x, fault))
    PROVE  LET t == allocateLevel(s, x, fault)
               b == s.price_levels_pool_.next_free_index_
           IN  /\ IsBook(t)
               /\ Running(s)
               /\ b # LevelPool!PastEnd
               /\ s.price_levels_pool_.is_free_[b]
               /\ t.levels = [s.levels EXCEPT ![b] = x]
               /\ t.price_levels_pool_ = LevelPool!Taken(s.price_levels_pool_)
               /\ t.price_levels_ = s.price_levels_
               /\ SameOrders(s, t)
               /\ SameHeads(s, t)
               /\ SameIndex(s, t)
               /\ SameMessages(s, t)
<1> DEFINE b == s.price_levels_pool_.next_free_index_
           taken == LevelPool!Taken(s.price_levels_pool_)
           t == allocateLevel(s, x, fault)
<1>1. b # LevelPool!PastEnd
  BY DEF allocateLevel, Running, IsBook
<1>2. s.price_levels_pool_.is_free_[b]
  BY <1>1 DEF allocateLevel, Running, IsBook, Terminated
<1>3. t = [s EXCEPT !.levels[b] = x, !.price_levels_pool_ = taken,
                    !.process = IF fault /\ taken.next_free_index_ = LevelPool!PastEnd
                                THEN "terminated" ELSE @]
  BY <1>1, <1>2 DEF allocateLevel
<1> HIDE DEF b, taken, t
<1>4. Running(t)
  BY DEF t
<1> QED BY <1>1, <1>2, <1>3, <1>4 DEF IsBook, Running, SameOrders, SameHeads, SameIndex,
                                SameMessages, b, taken, t

\* Without a head a new level is linked to itself.
LEMMA AddLevelEffect ==
    ASSUME NEW s, IsBook(s), NEW l,
           s.bid_levels_head_ = Null, s.ask_levels_head_ = Null
    PROVE  LET t == addOrdersAtPrice(s, l)
               i == priceToIndex(s.levels[l].price_)
           IN  /\ IsBook(t)
               /\ t.process = s.process
               /\ t.price_levels_ = [s.price_levels_ EXCEPT ![i] = l]
               /\ t.levels = [s.levels EXCEPT
                                ![l] = [[@ EXCEPT !.prev_price_level_ = l]
                                           EXCEPT !.next_price_level_ = l]]
               /\ t.price_levels_pool_ = s.price_levels_pool_
               /\ SameOrders(s, t)
               /\ SameHeads(s, t)
               /\ SameIndex(s, t)
               /\ SameMessages(s, t)
<1> DEFINE side   == s.levels[l].side_
           i      == priceToIndex(s.levels[l].price_)
           listed == [s EXCEPT !.price_levels_[i] = l]
           t      == addOrdersAtPrice(s, l)
<1>1. LevelsHead(s, side) = Null
  BY DEF LevelsHead
<1>2. t = [listed EXCEPT !.levels[l].prev_price_level_ = l,
                         !.levels[l].next_price_level_ = l]
  BY <1>1 DEF addOrdersAtPrice
<1>3. /\ IsBook(listed)
      /\ listed.levels = s.levels
      /\ listed.price_levels_ = [s.price_levels_ EXCEPT ![i] = l]
  BY DEF IsBook
<1>4. /\ IsBook(t)
      /\ t.process = s.process
      /\ t.price_levels_ = [s.price_levels_ EXCEPT ![i] = l]
      /\ t.price_levels_pool_ = s.price_levels_pool_
      /\ SameOrders(s, t)
      /\ SameHeads(s, t)
      /\ SameIndex(s, t)
      /\ SameMessages(s, t)
  BY <1>2 DEF IsBook, SameOrders, SameHeads, SameIndex, SameMessages
<1>5. t.levels = [[s.levels EXCEPT ![l].prev_price_level_ = l]
                     EXCEPT ![l].next_price_level_ = l]
  BY <1>2 DEF IsBook
<1>6. t.levels = [s.levels EXCEPT ![l] = [[@ EXCEPT !.prev_price_level_ = l]
                                             EXCEPT !.next_price_level_ = l]]
  BY <1>5
<1> QED BY <1>4, <1>6

\* The orders after o was linked in between last and first.
Linked(heap, o, first, last) ==
    [heap EXCEPT ![last].next_order_ = o, ![o].prev_order_ = last,
                 ![o].next_order_ = first, ![first].prev_order_ = o]

Alone(heap, o) == [heap EXCEPT ![o] = [@ EXCEPT !.next_order_ = o,
                                                !.prev_order_ = o]]

\* A level of its own for order o: the constructor leaves the links open,
\* addOrdersAtPrice() closes them.
LevelFor(order, o, l) ==
    [[[side_ |-> order.side_, price_ |-> order.price_, first_order_ |-> o,
       prev_price_level_ |-> Null, next_price_level_ |-> Null]
         EXCEPT !.prev_price_level_ = l]
         EXCEPT !.next_price_level_ = l]

LEMMA LevelForEffect ==
    ASSUME NEW order, NEW o, NEW l
    PROVE  /\ LevelFor(order, o, l).price_ = order.price_
           /\ LevelFor(order, o, l).first_order_ = o
           /\ LevelFor(order, o, l).prev_price_level_ = l
           /\ LevelFor(order, o, l).next_price_level_ = l
           /\ /\ order \in MEOrder
              /\ o \in OrderBlocks
              /\ l \in LevelBlocks
              => LevelFor(order, o, l) \in MEOrderAtPriceLevel
  BY DEF LevelFor, MEOrder, MEOrderAtPriceLevel, Pointers

\* Book t is s with order o on the list of its price.
Enlists(s, t, o) ==
    LET order == s.orders[o]
        i     == priceToIndex(order.price_)
        l     == s.price_levels_[i]
        first == s.levels[l].first_order_
        b     == s.price_levels_pool_.next_free_index_
    IN  /\ IsBook(t)
        /\ Running(s)
        /\ t.order_pool_ = s.order_pool_
        /\ SameHeads(s, t)
        /\ SameIndex(s, t)
        /\ SameMessages(s, t)
        /\ \/ /\ l # Null
              /\ SameLevels(s, t)
              /\ t.orders = Linked(s.orders, o, first,
                                   s.orders[first].prev_order_)
           \/ /\ l = Null
              /\ b \in LevelBlocks
              /\ s.price_levels_pool_.is_free_[b]
              /\ t.orders = Alone(s.orders, o)
              /\ t.levels = [s.levels EXCEPT ![b] = LevelFor(order, o, b)]
              /\ t.price_levels_pool_ = LevelPool!Taken(s.price_levels_pool_)
              /\ t.price_levels_ = [s.price_levels_ EXCEPT ![i] = b]

LEMMA EnlistedEffect ==
    ASSUME NEW s, IsBook(s), NEW o, NEW fault,
           s.bid_levels_head_ = Null, s.ask_levels_head_ = Null,
           s.levels \in [LevelBlocks -> MEOrderAtPriceLevel \cup {Null}],
           s.price_levels_pool_.next_free_index_ \in 0 .. MaxPriceLevels,
           Running(Enlisted(s, o, fault))
    PROVE  Enlists(s, Enlisted(s, o, fault), o)
<1> DEFINE t     == Enlisted(s, o, fault)
           order == s.orders[o]
           i     == priceToIndex(order.price_)
           l     == getPriceLevel(s, order.price_)
           first == s.levels[l].first_order_
           last  == s.orders[first].prev_order_
           b     == s.price_levels_pool_.next_free_index_
           self  == [s EXCEPT !.orders[o] = [@ EXCEPT !.next_order_ = o,
                                                      !.prev_order_ = o]]
           level == [side_ |-> order.side_, price_ |-> order.price_,
                     first_order_ |-> o, prev_price_level_ |-> Null,
                     next_price_level_ |-> Null]
           alone == allocateLevel(self, level, fault)
           appended == [s EXCEPT !.orders = Linked(s.orders, o, first, last)]
<1>1. t = IF l # Null THEN appended
          ELSE IF ~Running(alone) THEN alone
          ELSE addOrdersAtPrice(alone, b)
  BY DEF Enlisted, Linked
<1>2. l = s.price_levels_[i]
  BY DEF getPriceLevel
<1>3. CASE l # Null
  <2>1. t = appended
    BY <1>1, <1>3
  <2>2. Running(appended)
    BY <2>1
  <2> HIDE DEF t
  <2>3. /\ IsBook(appended)
        /\ appended.process = s.process
        /\ appended.orders = Linked(s.orders, o, first, last)
        /\ appended.order_pool_ = s.order_pool_
        /\ SameLevels(s, appended)
        /\ SameHeads(s, appended)
        /\ SameIndex(s, appended)
        /\ SameMessages(s, appended)
    BY DEF IsBook, SameLevels, SameHeads, SameIndex, SameMessages
  <2> HIDE DEF appended
  <2>4. Running(s)
    BY <2>2, <2>3 DEF Running
  <2> QED BY <2>1, <2>3, <2>4, <1>2, <1>3 DEF t, Enlists
<1>4. CASE l = Null
  <2>1. Running(alone) /\ t = addOrdersAtPrice(alone, b)
    BY <1>1, <1>4
  <2>2. /\ IsBook(self)
        /\ self.process = s.process
        /\ self.orders = Alone(s.orders, o)
        /\ self.order_pool_ = s.order_pool_
        /\ SameLevels(s, self)
        /\ SameHeads(s, self)
        /\ SameIndex(s, self)
        /\ SameMessages(s, self)
    BY DEF IsBook, SameLevels, SameHeads, SameIndex, SameMessages, Alone
  <2> HIDE DEF self
  <2>3. self.price_levels_pool_ = s.price_levels_pool_
    BY <2>2 DEF SameLevels
  <2>4. /\ IsBook(alone)
        /\ Running(self)
        /\ b # LevelPool!PastEnd
        /\ s.price_levels_pool_.is_free_[b]
        /\ alone.levels = [self.levels EXCEPT ![b] = level]
        /\ alone.price_levels_pool_ = LevelPool!Taken(s.price_levels_pool_)
        /\ alone.price_levels_ = self.price_levels_
        /\ SameOrders(self, alone)
        /\ SameHeads(self, alone)
        /\ SameIndex(self, alone)
        /\ SameMessages(self, alone)
    <3> HIDE DEF level
    <3> QED BY <2>1, <2>2, <2>3, AllocateLevelEffect
  <2>5. b \in LevelBlocks
    BY <2>4, MaxPriceLevelsAssumption DEF LevelPool!PastEnd, LevelBlocks
  <2>6. /\ alone.levels = [s.levels EXCEPT ![b] = level]
        /\ alone.price_levels_ = s.price_levels_
        /\ alone.bid_levels_head_ = Null
        /\ alone.ask_levels_head_ = Null
        /\ alone.orders = Alone(s.orders, o)
        /\ alone.order_pool_ = s.order_pool_
        /\ SameHeads(s, alone)
        /\ SameIndex(s, alone)
        /\ SameMessages(s, alone)
    BY <2>2, <2>4 DEF SameLevels, SameOrders, SameHeads, SameIndex, SameMessages
  <2>7. alone.levels[b] = level
    BY <2>5, <2>6
  <2>8. alone.levels[b].price_ = order.price_
    BY <2>7
  <2> HIDE DEF alone, b
  <2>9. /\ IsBook(t)
        /\ t.process = alone.process
        /\ t.price_levels_ = [alone.price_levels_ EXCEPT
                                ![priceToIndex(alone.levels[b].price_)] = b]
        /\ t.levels = [alone.levels EXCEPT
                         ![b] = [[@ EXCEPT !.prev_price_level_ = b]
                                    EXCEPT !.next_price_level_ = b]]
        /\ t.price_levels_pool_ = alone.price_levels_pool_
        /\ SameOrders(alone, t)
        /\ SameHeads(alone, t)
        /\ SameIndex(alone, t)
        /\ SameMessages(alone, t)
    <3>1. t = addOrdersAtPrice(alone, b)
      BY <2>1
    <3> HIDE DEF t
    <3>2. ASSUME NEW x, NEW y, x = alone, y = b
          PROVE  LET v == addOrdersAtPrice(x, y)
                     k == priceToIndex(x.levels[y].price_)
                 IN  /\ IsBook(v)
                     /\ v.process = x.process
                     /\ v.price_levels_ = [x.price_levels_ EXCEPT ![k] = y]
                     /\ v.levels = [x.levels EXCEPT
                                      ![y] = [[@ EXCEPT !.prev_price_level_ = y]
                                                 EXCEPT !.next_price_level_ = y]]
                     /\ v.price_levels_pool_ = x.price_levels_pool_
                     /\ SameOrders(x, v)
                     /\ SameHeads(x, v)
                     /\ SameIndex(x, v)
                     /\ SameMessages(x, v)
      <4>1. IsBook(x) /\ x.bid_levels_head_ = Null /\ x.ask_levels_head_ = Null
        BY <3>2, <2>4, <2>6
      <4> QED BY <4>1, AddLevelEffect
    <3> QED BY <3>1, <3>2, ZenonT(30)
  <2>10. t.price_levels_ = [s.price_levels_ EXCEPT ![i] = b]
    BY <2>6, <2>8, <2>9
  <2>11. t.levels = [s.levels EXCEPT ![b] = LevelFor(order, o, b)]
    <3>1. [[level EXCEPT !.prev_price_level_ = b] EXCEPT !.next_price_level_ = b]
            = LevelFor(order, o, b)
      BY DEF LevelFor
    <3>2. t.levels = [alone.levels EXCEPT ![b] = LevelFor(order, o, b)]
      <4> HIDE DEF level, t
      <4> QED BY <3>1, <2>7, <2>9
    <3> HIDE DEF t, level, order
    <3> QED BY <3>2, <2>5, <2>6
  <2>12. Running(s)
    BY <2>2, <2>4 DEF Running
  <2>13. /\ t.orders = Alone(s.orders, o)
         /\ t.order_pool_ = s.order_pool_
         /\ t.price_levels_pool_ = LevelPool!Taken(s.price_levels_pool_)
         /\ SameHeads(s, t)
         /\ SameIndex(s, t)
         /\ SameMessages(s, t)
    <3> HIDE DEF t
    <3> QED BY <2>4, <2>6, <2>9 DEF SameOrders, SameHeads, SameIndex, SameMessages
  <2> HIDE DEF t
  <2> QED BY <1>2, <1>4, <2>4, <2>5, <2>9, <2>10, <2>11, <2>12, <2>13
      DEF b, t, Enlists
<1> QED BY <1>3, <1>4

LEMMA AddOrderEffect ==
    ASSUME NEW s, IsBook(s), NEW o, NEW fault,
           Running(addOrder(s, o, fault)), IsBook(Enlisted(s, o, fault))
    PROVE  LET t     == addOrder(s, o, fault)
               u     == Enlisted(s, o, fault)
               order == s.orders[o]
           IN  /\ IsBook(t)
               /\ Running(u)
               /\ order.client_orderId_ \in OrderBlocks
               /\ t.client_orders_ =
                     [u.client_orders_ EXCEPT
                        ![order.clientId_][order.client_orderId_] = o]
               /\ t.next_market_order_id_ = u.next_market_order_id_
               /\ SameOrders(u, t)
               /\ SameLevels(u, t)
               /\ SameHeads(u, t)
               /\ SameMessages(u, t)
<1> DEFINE t     == addOrder(s, o, fault)
           u     == Enlisted(s, o, fault)
           order == s.orders[o]
<1>1. t = IF ~Running(u) THEN u
          ELSE IF order.client_orderId_ \notin OrderBlocks THEN Terminated(u)
          ELSE [u EXCEPT !.client_orders_[order.clientId_][order.client_orderId_] = o]
  BY DEF addOrder
<1> HIDE DEF u, order
<1>2. ~Running(Terminated(u))
  BY DEF Running, Terminated, u, IsBook
<1>3. Running(u) /\ order.client_orderId_ \in OrderBlocks
  BY <1>1, <1>2
<1>4. t = [u EXCEPT !.client_orders_[order.clientId_][order.client_orderId_] = o]
  BY <1>1, <1>3
<1>5. IsBook(u)
  BY DEF u
<1> HIDE DEF t
<1>6. /\ IsBook(t)
      /\ t.client_orders_ =
                     [u.client_orders_ EXCEPT
                        ![order.clientId_][order.client_orderId_] = o]
      /\ t.next_market_order_id_ = u.next_market_order_id_
      /\ SameOrders(u, t)
      /\ SameLevels(u, t)
      /\ SameHeads(u, t)
      /\ SameMessages(u, t)
  BY <1>4, <1>5 DEF IsBook, SameOrders, SameLevels, SameHeads, SameMessages
<1> QED BY <1>3, <1>6 DEF t, u, order

\* The order that a NEW request puts into book s.
OrderFor(s, c, id, side, price, qty) ==
    [clientId_ |-> c, client_orderId_ |-> id,
     market_orderId_ |-> s.next_market_order_id_, side_ |-> side,
     price_ |-> price, qty_ |-> qty, priority_ |-> getNextPriority(s, price),
     prev_order_ |-> Null, next_order_ |-> Null]

\* How a request for order, stored as block o, changes orders and levels: the
\* order joins a level or starts one.
Joins(s, t, order, o) ==
    LET heap  == [s.orders EXCEPT ![o] = order]
        first == s.levels[s.price_levels_[priceToIndex(order.price_)]].first_order_
    IN  /\ s.price_levels_[priceToIndex(order.price_)] # Null
        /\ SameLevels(s, t)
        /\ t.orders = Linked(heap, o, first, heap[first].prev_order_)

Starts(s, t, order, o) ==
    LET b == s.price_levels_pool_.next_free_index_
    IN  /\ s.price_levels_[priceToIndex(order.price_)] = Null
        /\ b \in LevelBlocks
        /\ s.price_levels_pool_.is_free_[b]
        /\ t.orders = Alone([s.orders EXCEPT ![o] = order], o)
        /\ t.levels = [s.levels EXCEPT ![b] = LevelFor(order, o, b)]
        /\ t.price_levels_pool_ = LevelPool!Taken(s.price_levels_pool_)
        /\ t.price_levels_ = [s.price_levels_ EXCEPT
                                ![priceToIndex(order.price_)] = b]

\* The types that a function on books needs of its argument.
Usable(s) ==
    /\ IsBook(s)
    /\ s.bid_levels_head_ = Null
    /\ s.ask_levels_head_ = Null
    /\ s.orders \in [OrderBlocks -> MEOrder \cup {Null}]
    /\ s.levels \in [LevelBlocks -> MEOrderAtPriceLevel \cup {Null}]
    /\ s.order_pool_.next_free_index_ \in 0 .. MaxOrderIds
    /\ s.price_levels_pool_.next_free_index_ \in 0 .. MaxPriceLevels

\* Book t is s with order stored as block o and enlisted.
Places(s, t, order, o) ==
    /\ IsBook(t)
    /\ Running(t)
    /\ SameHeads(s, t)
    /\ SameMessages(s, t)
    /\ t.next_market_order_id_ = s.next_market_order_id_
    /\ o \in OrderBlocks
    /\ s.order_pool_.is_free_[o]
    /\ order.client_orderId_ \in OrderBlocks
    /\ t.order_pool_ = OrderPool!Taken(s.order_pool_)
    /\ t.client_orders_ =
          [s.client_orders_ EXCEPT
             ![order.clientId_][order.client_orderId_] = o]
    /\ Joins(s, t, order, o) \/ Starts(s, t, order, o)

LEMMA PlaceEffect ==
    ASSUME NEW s, Usable(s), NEW order \in MEOrder, NEW fault, NEW k,
           k = s.order_pool_.next_free_index_,
           Running(allocateOrder(s, order, fault)),
           Running(addOrder(allocateOrder(s, order, fault), k, fault))
    PROVE  Places(s, addOrder(allocateOrder(s, order, fault), k, fault), order,
                  k)
<1> DEFINE o      == s.order_pool_.next_free_index_
           stored == allocateOrder(s, order, fault)
           heap   == [s.orders EXCEPT ![o] = order]
           placed == Enlisted(stored, o, fault)
           t      == addOrder(stored, o, fault)
<1>1. /\ IsBook(stored)
      /\ Running(s)
      /\ o # OrderPool!PastEnd
      /\ s.order_pool_.is_free_[o]
      /\ stored.orders = heap
      /\ stored.order_pool_ = OrderPool!Taken(s.order_pool_)
      /\ SameLevels(s, stored)
      /\ SameHeads(s, stored)
      /\ SameIndex(s, stored)
      /\ SameMessages(s, stored)
  BY AllocateOrderEffect DEF Usable
<1>2. o \in OrderBlocks
  BY <1>1, MaxOrderIdsAssumption DEF OrderPool!PastEnd, OrderBlocks, Usable
<1>3. stored.orders[o] = order
  BY <1>1, <1>2 DEF Usable
<1> HIDE DEF stored, o, heap
<1>4. /\ stored.bid_levels_head_ = Null
      /\ stored.ask_levels_head_ = Null
      /\ stored.levels \in [LevelBlocks -> MEOrderAtPriceLevel \cup {Null}]
      /\ stored.price_levels_pool_.next_free_index_ \in 0 .. MaxPriceLevels
      /\ stored.price_levels_ = s.price_levels_
      /\ stored.levels = s.levels
      /\ stored.price_levels_pool_ = s.price_levels_pool_
  BY <1>1 DEF Usable, SameHeads, SameLevels
<1>5. Running(t)
  BY DEF stored, o
<1>6. Running(placed)
  BY <1>5 DEF addOrder, Running
<1> DEFINE i     == priceToIndex(order.price_)
           l     == s.price_levels_[i]
           first == s.levels[l].first_order_
           b     == s.price_levels_pool_.next_free_index_
<1>7. /\ IsBook(placed)
      /\ placed.order_pool_ = stored.order_pool_
      /\ SameHeads(stored, placed)
      /\ SameIndex(stored, placed)
      /\ SameMessages(stored, placed)
      /\ \/ /\ l # Null
            /\ SameLevels(stored, placed)
            /\ placed.orders = Linked(heap, o, first, heap[first].prev_order_)
         \/ /\ l = Null
            /\ b \in LevelBlocks
            /\ s.price_levels_pool_.is_free_[b]
            /\ placed.orders = Alone(heap, o)
            /\ placed.levels = [s.levels EXCEPT ![b] = LevelFor(order, o, b)]
            /\ placed.price_levels_pool_ =
                  LevelPool!Taken(s.price_levels_pool_)
            /\ placed.price_levels_ = [s.price_levels_ EXCEPT ![i] = b]
  <2>1. Enlists(stored, Enlisted(stored, o, fault), o)
    <3>1. /\ IsBook(stored)
          /\ stored.bid_levels_head_ = Null
          /\ stored.ask_levels_head_ = Null
          /\ stored.levels \in [LevelBlocks -> MEOrderAtPriceLevel \cup {Null}]
          /\ stored.price_levels_pool_.next_free_index_
                \in 0 .. MaxPriceLevels
          /\ Running(Enlisted(stored, o, fault))
      BY <1>1, <1>4, <1>6
    <3> QED BY <3>1, EnlistedEffect
  <2> HIDE DEF placed
  <2> QED BY <1>1, <1>3, <1>4, <2>1 DEF placed, Enlists
<1> HIDE DEF placed
<1>8. /\ IsBook(t)
      /\ order.client_orderId_ \in OrderBlocks
      /\ t.client_orders_ =
            [placed.client_orders_ EXCEPT
               ![order.clientId_][order.client_orderId_] = o]
      /\ t.next_market_order_id_ = placed.next_market_order_id_
      /\ SameOrders(placed, t)
      /\ SameLevels(placed, t)
      /\ SameHeads(placed, t)
      /\ SameMessages(placed, t)
  <2>1. LET v == addOrder(stored, o, fault)
            u == Enlisted(stored, o, fault)
            x == stored.orders[o]
        IN  /\ IsBook(v)
            /\ Running(u)
            /\ x.client_orderId_ \in OrderBlocks
            /\ v.client_orders_ =
                  [u.client_orders_ EXCEPT
                     ![x.clientId_][x.client_orderId_] = o]
            /\ v.next_market_order_id_ = u.next_market_order_id_
            /\ SameOrders(u, v)
            /\ SameLevels(u, v)
            /\ SameHeads(u, v)
            /\ SameMessages(u, v)
    <3>1. IsBook(Enlisted(stored, o, fault))
      BY <1>7 DEF placed
    <3> QED BY <1>1, <1>5, <3>1, AddOrderEffect
  <2> HIDE DEF t
  <2> QED BY <1>3, <2>1 DEF placed, t
<1> HIDE DEF t
<1>9. /\ SameHeads(s, t)
      /\ SameMessages(s, t)
      /\ t.next_market_order_id_ = s.next_market_order_id_
      /\ t.order_pool_ = OrderPool!Taken(s.order_pool_)
      /\ t.client_orders_ =
            [s.client_orders_ EXCEPT
               ![order.clientId_][order.client_orderId_] = o]
      /\ t.orders = placed.orders
  <2>1. /\ placed.order_pool_ = stored.order_pool_
        /\ SameHeads(stored, placed)
        /\ SameIndex(stored, placed)
        /\ SameMessages(stored, placed)
    BY <1>7, ZenonT(30)
  <2>2. SameHeads(s, t) /\ SameMessages(s, t)
    BY <2>1, <1>1, <1>8 DEF SameHeads, SameMessages
  <2>3. /\ t.next_market_order_id_ = s.next_market_order_id_
        /\ placed.client_orders_ = s.client_orders_
    BY <2>1, <1>1, <1>8 DEF SameIndex
  <2>4. /\ t.order_pool_ = OrderPool!Taken(s.order_pool_)
        /\ t.orders = placed.orders
    BY <2>1, <1>1, <1>8 DEF SameOrders
  <2> QED BY <2>2, <2>3, <2>4, <1>8
<1>10. Joins(s, t, order, o) \/ Starts(s, t, order, o)
  BY <1>1, <1>7, <1>8, <1>9 DEF SameLevels, Joins, Starts, heap
<1> QED BY <1>1, <1>2, <1>5, <1>8, <1>9, <1>10 DEF t, o, stored, Places

\* Book t is s after the request for order was accepted.
Adds(s, t, order) ==
    LET o == s.order_pool_.next_free_index_
    IN  /\ IsBook(t)
        /\ Running(t)
        /\ SameHeads(s, t)
        /\ t.next_market_order_id_ = s.next_market_order_id_ + 1
        /\ t.responses =
              <<Response("ACCEPTED", order.clientId_, order.client_orderId_,
                         order.market_orderId_, order.side_, order.price_, 0,
                         order.qty_)>>
        /\ \/ /\ order.qty_ = 0
              /\ t.updates = << >>
              /\ t.client_orders_ = s.client_orders_
              /\ SameOrders(s, t)
              /\ SameLevels(s, t)
           \/ /\ o \in OrderBlocks
              /\ s.order_pool_.is_free_[o]
              /\ order.client_orderId_ \in OrderBlocks
              /\ t.updates = <<Announcement(order)>>
              /\ t.order_pool_ = OrderPool!Taken(s.order_pool_)
              /\ t.client_orders_ =
                    [s.client_orders_ EXCEPT
                       ![order.clientId_][order.client_orderId_] = o]
              /\ Joins(s, t, order, o) \/ Starts(s, t, order, o)

LEMMA AddEffect ==
    ASSUME NEW s, Usable(s), s.responses = << >>, s.updates = << >>,
           NEW c, NEW id, NEW side, NEW price, NEW qty, NEW fault,
           OrderFor(s, c, id, side, price, qty) \in MEOrder,
           Running(add(s, c, id, side, price, qty, fault))
    PROVE  Adds(s, add(s, c, id, side, price, qty, fault),
                OrderFor(s, c, id, side, price, qty))
<1> DEFINE marketId == s.next_market_order_id_
           numbered == [s EXCEPT !.next_market_order_id_ = @ + 1]
           reply    == Response("ACCEPTED", c, id, marketId, side, price, 0,
                                qty)
           accepted == Send(numbered, reply)
           taker    == [clientId_ |-> c, client_orderId_ |-> id,
                        market_orderId_ |-> marketId, side_ |-> side,
                        price_ |-> price, qty_ |-> qty]
           matched  == checkForMatch(accepted, taker)
           order    == [clientId_ |-> c, client_orderId_ |-> id,
                        market_orderId_ |-> marketId, side_ |-> side,
                        price_ |-> price, qty_ |-> matched.left,
                        priority_ |-> getNextPriority(matched.book, price),
                        prev_order_ |-> Null, next_order_ |-> Null]
           o        == matched.book.order_pool_.next_free_index_
           stored   == allocateOrder(matched.book, order, fault)
           placed   == addOrder(stored, o, fault)
           t        == add(s, c, id, side, price, qty, fault)
           new      == OrderFor(s, c, id, side, price, qty)
<1>1. t = IF ~Running(matched.book) \/ matched.left = 0
          THEN matched.book
          ELSE IF ~Running(stored)
          THEN stored
          ELSE IF ~Running(placed)
          THEN placed
          ELSE Publish(placed, Announcement(order))
  BY DEF add
<1>2. /\ IsBook(accepted)
      /\ accepted.process = s.process
      /\ accepted.next_market_order_id_ = s.next_market_order_id_ + 1
      /\ accepted.responses = Append(<< >>, reply)
      /\ accepted.updates = << >>
      /\ accepted.client_orders_ = s.client_orders_
      /\ SameHeads(s, accepted)
      /\ SameOrders(s, accepted)
      /\ SameLevels(s, accepted)
  <2>1. /\ IsBook(numbered)
        /\ numbered.process = s.process
        /\ numbered.next_market_order_id_ = s.next_market_order_id_ + 1
        /\ numbered.responses = << >>
        /\ numbered.updates = << >>
        /\ numbered.client_orders_ = s.client_orders_
        /\ SameHeads(s, numbered)
        /\ SameOrders(s, numbered)
        /\ SameLevels(s, numbered)
    BY DEF Usable, IsBook, SameHeads, SameOrders, SameLevels
  <2> HIDE DEF reply, numbered
  <2>2. accepted = [numbered EXCEPT !.responses = Append(<< >>, reply)]
    BY <2>1 DEF Send
  <2> DEFINE replies == Append(<< >>, reply)
  <2> HIDE DEF replies
  <2>3. accepted = [numbered EXCEPT !.responses = replies]
    BY <2>2 DEF replies
  <2> HIDE DEF accepted
  <2>4. accepted.responses = Append(<< >>, reply)
    BY <2>1, <2>3 DEF replies, IsBook
  <2> QED BY <2>1, <2>3, <2>4 DEF IsBook, SameHeads, SameOrders, SameLevels
<1>3. accepted.responses = <<reply>>
  <2> HIDE DEF accepted, reply
  <2> QED BY <1>2
<1> HIDE DEF accepted
<1>4. matched = [book |-> accepted, left |-> qty]
  <2>1. OppositeHead(accepted, taker.side_) = Null
    BY <1>2 DEF Usable, SameHeads, OppositeHead
  <2> QED BY <2>1 DEF checkForMatch
<1>5. matched.book = accepted /\ matched.left = qty
  BY <1>4
<1> HIDE DEF matched
<1>6. getNextPriority(accepted, price) = getNextPriority(s, price)
  BY <1>2 DEF getNextPriority, getPriceLevel, SameLevels, SameOrders
<1>7. order = new
  BY <1>5, <1>6 DEF OrderFor
<1>8. Usable(accepted)
  BY <1>2 DEF Usable, SameHeads, SameOrders, SameLevels
<1>9. /\ new.clientId_ = c
      /\ new.client_orderId_ = id
      /\ new.market_orderId_ = marketId
      /\ new.side_ = side
      /\ new.price_ = price
      /\ new.qty_ = qty
  BY DEF OrderFor
<1>10. new \in MEOrder
  OBVIOUS
<1>11. o = s.order_pool_.next_free_index_
  BY <1>2, <1>5 DEF SameOrders
<1>12. reply = Response("ACCEPTED", new.clientId_, new.client_orderId_,
                        new.market_orderId_, new.side_, new.price_, 0,
                        new.qty_)
  BY <1>9
<1> HIDE DEF order, new, reply, marketId
<1>13. CASE qty = 0
  <2>1. t = accepted
    BY <1>1, <1>5, <1>13
  <2>2. Running(t)
    OBVIOUS
  <2> HIDE DEF t
  <2>3. Adds(s, t, new)
    BY <2>1, <2>2, <1>2, <1>3, <1>9, <1>12, <1>13 DEF Adds
  <2> QED BY <2>3 DEF t, new
<1>14. CASE qty # 0
  <2> HIDE DEF t, placed
  <2>r. Running(t)
    BY DEF t
  <2>1. /\ Running(stored)
        /\ Running(placed)
        /\ t = Publish(placed, Announcement(order))
    BY <2>r, <1>1, <1>5, <1>14
  <2>2. /\ IsBook(placed)
        /\ Running(placed)
        /\ SameHeads(accepted, placed)
        /\ SameMessages(accepted, placed)
        /\ placed.next_market_order_id_ = accepted.next_market_order_id_
        /\ o \in OrderBlocks
        /\ accepted.order_pool_.is_free_[o]
        /\ new.client_orderId_ \in OrderBlocks
        /\ placed.order_pool_ = OrderPool!Taken(accepted.order_pool_)
        /\ placed.client_orders_ =
              [accepted.client_orders_ EXCEPT
                 ![new.clientId_][new.client_orderId_] = o]
        /\ Joins(accepted, placed, new, o) \/ Starts(accepted, placed, new, o)
    <3>1. o = accepted.order_pool_.next_free_index_
      BY <1>5
    <3>2. placed = addOrder(allocateOrder(accepted, new, fault), o, fault)
      BY <1>5, <1>7 DEF placed
    <3>3. /\ Running(allocateOrder(accepted, new, fault))
          /\ Running(addOrder(allocateOrder(accepted, new, fault), o, fault))
      BY <2>1, <1>5, <1>7 DEF placed
    <3> HIDE DEF o
    <3>4. Places(accepted, placed, new, o)
      BY <3>1, <3>2, <3>3, <1>8, <1>10, PlaceEffect
    <3> QED BY <3>4 DEF Places
  <2> DEFINE note == Announcement(order)
  <2> HIDE DEF note
  <2>3. /\ IsBook(t)
        /\ t.responses = placed.responses
        /\ t.updates = Append(placed.updates, note)
        /\ SameHeads(placed, t)
        /\ SameIndex(placed, t)
        /\ SameOrders(placed, t)
        /\ SameLevels(placed, t)
    <3>1. t = [placed EXCEPT !.updates = Append(@, note)]
      BY <2>1 DEF note, Publish
    <3> QED BY <3>1, <2>2 DEF IsBook, SameHeads, SameIndex, SameOrders, SameLevels
  <2>4. t.updates = <<Announcement(new)>>
    <3>1. placed.updates = << >>
      BY <1>2, <2>2 DEF SameMessages
    <3>2. t.updates = Append(<< >>, note)
      BY <2>3, <3>1
    <3>3. Append(<< >>, note) = <<note>>
      OBVIOUS
    <3> QED BY <3>2, <3>3, <1>7 DEF note
  <2>5. /\ t.responses = <<reply>>
        /\ t.next_market_order_id_ = s.next_market_order_id_ + 1
        /\ SameHeads(s, t)
        /\ s.order_pool_.is_free_[o]
        /\ t.order_pool_ = OrderPool!Taken(s.order_pool_)
        /\ t.client_orders_ =
              [s.client_orders_ EXCEPT
                 ![new.clientId_][new.client_orderId_] = o]
    BY <1>2, <1>3, <2>2, <2>3 DEF SameMessages, SameHeads, SameIndex, SameOrders
  <2>6. ASSUME Joins(accepted, placed, new, o) PROVE Joins(s, t, new, o)
    BY <1>2, <2>3, <2>6 DEF Joins, SameOrders, SameLevels
  <2>7. ASSUME Starts(accepted, placed, new, o) PROVE Starts(s, t, new, o)
    BY <1>2, <2>3, <2>7 DEF Starts, SameOrders, SameLevels
  <2>8. /\ o \in OrderBlocks
        /\ new.client_orderId_ \in OrderBlocks
        /\ Joins(s, t, new, o) \/ Starts(s, t, new, o)
    BY <2>2, <2>6, <2>7
  <2> HIDE DEF o
  <2>9. Adds(s, t, new)
    BY <2>r, <2>3, <2>4, <2>5, <2>8, <1>11, <1>12 DEF Adds
  <2> QED BY <2>9 DEF t, new
<1> QED BY <1>13, <1>14

\* The orders after what was between prev and next was taken out.
Relinked(heap, prev, next) ==
    [heap EXCEPT ![prev].next_order_ = next, ![next].prev_order_ = prev]

\* Order o leaves a level with other orders, or is the end of its level.
Leaves(s, t, o) ==
    LET prev == s.orders[o].prev_order_
        next == s.orders[o].next_order_
        l    == s.price_levels_[priceToIndex(s.orders[o].price_)]
    IN  /\ prev # o
        /\ t.orders = Relinked(s.orders, prev, next)
        /\ t.levels = [s.levels EXCEPT
                         ![l].first_order_ = IF @ = o THEN next ELSE @]
        /\ t.price_levels_pool_ = s.price_levels_pool_
        /\ t.price_levels_ = s.price_levels_

Ends(s, t, o) ==
    LET i == priceToIndex(s.orders[o].price_)
        l == s.price_levels_[i]
    IN  /\ s.orders[o].prev_order_ = o
        /\ ~s.price_levels_pool_.is_free_[l]
        /\ t.orders = s.orders
        /\ t.levels = s.levels
        /\ t.price_levels_pool_ = LevelPool!Returned(s.price_levels_pool_, l)
        /\ t.price_levels_ = [s.price_levels_ EXCEPT ![i] = Null]

\* A level that is linked to itself goes back to the pool.
LEMMA RemoveLevelEffect ==
    ASSUME NEW s, IsBook(s), NEW side, NEW price,
           LET l == s.price_levels_[priceToIndex(price)]
           IN  s.levels[l].next_price_level_ = l,
           Running(removePriceLevel(s, side, price))
    PROVE  LET t == removePriceLevel(s, side, price)
               i == priceToIndex(price)
               l == s.price_levels_[i]
           IN  /\ IsBook(t)
               /\ t.process = s.process
               /\ ~s.price_levels_pool_.is_free_[l]
               /\ t.levels = s.levels
               /\ t.price_levels_pool_ =
                     LevelPool!Returned(s.price_levels_pool_, l)
               /\ t.price_levels_ = [s.price_levels_ EXCEPT ![i] = Null]
               /\ SameOrders(s, t)
               /\ SameHeads(s, t)
               /\ SameIndex(s, t)
               /\ SameMessages(s, t)
<1> DEFINE i       == priceToIndex(price)
           l       == s.price_levels_[i]
           cleared == [s EXCEPT !.price_levels_[i] = Null]
           t       == removePriceLevel(s, side, price)
<1>1. t = deallocateLevel(cleared, l)
  BY DEF removePriceLevel, getPriceLevel
<1>2. cleared.price_levels_pool_ = s.price_levels_pool_
  BY DEF IsBook
<1>3. Running(t)
  OBVIOUS
<1> HIDE DEF l, t
<1>4. ~s.price_levels_pool_.is_free_[l]
  BY <1>1, <1>2, <1>3 DEF deallocateLevel, Terminated, Running, IsBook
<1>5. t = [cleared EXCEPT !.price_levels_pool_ = LevelPool!Returned(@, l)]
  BY <1>1, <1>2, <1>4 DEF deallocateLevel
<1>6. /\ IsBook(t)
      /\ t.process = s.process
      /\ t.levels = s.levels
      /\ t.price_levels_pool_ = LevelPool!Returned(s.price_levels_pool_, l)
      /\ t.price_levels_ = [s.price_levels_ EXCEPT ![i] = Null]
      /\ SameOrders(s, t)
      /\ SameHeads(s, t)
      /\ SameIndex(s, t)
      /\ SameMessages(s, t)
  BY <1>5 DEF IsBook, SameOrders, SameHeads, SameIndex, SameMessages
<1> QED BY <1>4, <1>6 DEF l, t

\* Book t is s without order o.
Removes(s, t, o) ==
    /\ IsBook(t)
    /\ Running(t)
    /\ SameHeads(s, t)
    /\ SameMessages(s, t)
    /\ t.next_market_order_id_ = s.next_market_order_id_
    /\ t.order_pool_ = OrderPool!Returned(s.order_pool_, o)
    /\ t.client_orders_ =
          [s.client_orders_ EXCEPT
             ![s.orders[o].clientId_][s.orders[o].client_orderId_] = Null]
    /\ Leaves(s, t, o) \/ Ends(s, t, o)

LEMMA DetachedEffect ==
    ASSUME NEW s, IsBook(s), NEW o, Running(Detached(s, o)),
           LET l == s.price_levels_[priceToIndex(s.orders[o].price_)]
           IN  s.levels[l].next_price_level_ = l
    PROVE  LET t == Detached(s, o)
           IN  /\ IsBook(t)
               /\ t.order_pool_ = s.order_pool_
               /\ SameHeads(s, t)
               /\ SameIndex(s, t)
               /\ SameMessages(s, t)
               /\ Leaves(s, t, o) \/ Ends(s, t, o)
<1> DEFINE t    == Detached(s, o)
           side == s.orders[o].side_
           price == s.orders[o].price_
           i    == priceToIndex(price)
           l    == s.price_levels_[i]
           prev == s.orders[o].prev_order_
           next == s.orders[o].next_order_
<1>1. CASE prev = o
  <2>1. t = removePriceLevel(s, side, price)
    BY <1>1 DEF Detached
  <2>2. /\ Running(removePriceLevel(s, side, price))
        /\ s.levels[l].next_price_level_ = l
    BY <2>1
  <2>3. /\ IsBook(t)
        /\ ~s.price_levels_pool_.is_free_[l]
        /\ t.levels = s.levels
        /\ t.price_levels_pool_ = LevelPool!Returned(s.price_levels_pool_, l)
        /\ t.price_levels_ = [s.price_levels_ EXCEPT ![i] = Null]
        /\ SameOrders(s, t)
        /\ SameHeads(s, t)
        /\ SameIndex(s, t)
        /\ SameMessages(s, t)
    <3>1. LET v == removePriceLevel(s, side, price)
          IN  /\ IsBook(v)
              /\ v.process = s.process
              /\ ~s.price_levels_pool_.is_free_[l]
              /\ v.levels = s.levels
              /\ v.price_levels_pool_ =
                    LevelPool!Returned(s.price_levels_pool_, l)
              /\ v.price_levels_ = [s.price_levels_ EXCEPT ![i] = Null]
              /\ SameOrders(s, v)
              /\ SameHeads(s, v)
              /\ SameIndex(s, v)
              /\ SameMessages(s, v)
      <4> HIDE DEF side, price, t
      <4> QED BY <2>2, RemoveLevelEffect
    <3> HIDE DEF t, i, l, side, price
    <3> QED BY <2>1, <3>1
  <2> HIDE DEF t
  <2>4. Ends(s, t, o)
    BY <1>1, <2>3 DEF Ends, SameOrders
  <2> QED BY <2>3, <2>4 DEF t, SameOrders
<1>2. CASE prev # o
  <2>1. t = [s EXCEPT !.orders = Relinked(@, prev, next),
                      !.levels[l].first_order_ = IF @ = o THEN next ELSE @]
    BY <1>2 DEF Detached, Relinked, getPriceLevel
  <2> HIDE DEF t
  <2>2. /\ IsBook(t)
        /\ t.order_pool_ = s.order_pool_
        /\ SameHeads(s, t)
        /\ SameIndex(s, t)
        /\ SameMessages(s, t)
        /\ t.orders = Relinked(s.orders, prev, next)
        /\ t.levels = [s.levels EXCEPT
                         ![l].first_order_ = IF @ = o THEN next ELSE @]
        /\ t.price_levels_pool_ = s.price_levels_pool_
        /\ t.price_levels_ = s.price_levels_
    <3> HIDE DEF l, prev, next
    <3> QED BY <2>1 DEF IsBook, SameHeads, SameIndex, SameMessages
  <2>3. Leaves(s, t, o)
    BY <2>2, <1>2 DEF Leaves
  <2> QED BY <2>2, <2>3 DEF t
<1> QED BY <1>1, <1>2

LEMMA RemoveEffect ==
    ASSUME NEW s, IsBook(s), NEW o, Running(removeOrder(s, o)),
           LET l == s.price_levels_[priceToIndex(s.orders[o].price_)]
           IN  s.levels[l].next_price_level_ = l
    PROVE  Removes(s, removeOrder(s, o), o)
<1> DEFINE c       == s.orders[o].clientId_
           id      == s.orders[o].client_orderId_
           u       == Detached(s, o)
           cleared == [u EXCEPT !.client_orders_[c][id] = Null]
           t       == removeOrder(s, o)
<1>1. Running(u) /\ t = deallocateOrder(cleared, o)
  BY DEF removeOrder, Running
<1>2. /\ IsBook(u)
      /\ u.order_pool_ = s.order_pool_
      /\ SameHeads(s, u)
      /\ SameIndex(s, u)
      /\ SameMessages(s, u)
      /\ Leaves(s, u, o) \/ Ends(s, u, o)
  BY <1>1, DetachedEffect
<1>3. Running(t)
  OBVIOUS
<1> HIDE DEF u, t
<1>4. /\ IsBook(cleared)
      /\ cleared.order_pool_ = s.order_pool_
      /\ cleared.client_orders_ = [s.client_orders_ EXCEPT ![c][id] = Null]
      /\ cleared.next_market_order_id_ = s.next_market_order_id_
      /\ cleared.orders = u.orders
      /\ SameHeads(s, cleared)
      /\ SameMessages(s, cleared)
      /\ SameLevels(u, cleared)
  <2> HIDE DEF c, id
  <2> QED BY <1>2 DEF IsBook, SameHeads, SameMessages, SameIndex, SameLevels
<1> HIDE DEF cleared
<1>5. ~s.order_pool_.is_free_[o]
  BY <1>1, <1>3, <1>4 DEF deallocateOrder, Terminated, Running, IsBook
<1>6. t = [cleared EXCEPT !.order_pool_ = OrderPool!Returned(@, o)]
  BY <1>1, <1>4, <1>5 DEF deallocateOrder
<1>7. /\ IsBook(t)
      /\ t.order_pool_ = OrderPool!Returned(s.order_pool_, o)
      /\ t.client_orders_ = [s.client_orders_ EXCEPT ![c][id] = Null]
      /\ t.next_market_order_id_ = s.next_market_order_id_
      /\ t.orders = u.orders
      /\ SameHeads(s, t)
      /\ SameMessages(s, t)
      /\ SameLevels(u, t)
  <2> HIDE DEF c, id
  <2> QED BY <1>4, <1>6 DEF IsBook, SameHeads, SameMessages, SameLevels
<1>8. Leaves(s, t, o) \/ Ends(s, t, o)
  BY <1>2, <1>7 DEF Leaves, Ends, SameLevels
<1>9. Removes(s, t, o)
  BY <1>3, <1>7, <1>8 DEF Removes
<1> QED BY <1>9 DEF t

LEMMA FirstMessage == ASSUME NEW m PROVE Append(<< >>, m) = <<m>>
  OBVIOUS

LEMMA PublishEffect ==
    ASSUME NEW s, IsBook(s), NEW u
    PROVE  LET t == Publish(s, u)
           IN  /\ IsBook(t)
               /\ t.process = s.process
               /\ t.updates = Append(s.updates, u)
               /\ t.client_orders_ = s.client_orders_
               /\ t.next_market_order_id_ = s.next_market_order_id_
               /\ SameOrders(s, t)
               /\ SameLevels(s, t)
               /\ SameHeads(s, t)
<1> DEFINE all == Append(s.updates, u)
<1>1. Publish(s, u) = [s EXCEPT !.updates = all]
  BY DEF Publish
<1> HIDE DEF all
<1>2. LET t == Publish(s, u)
      IN  /\ IsBook(t)
          /\ t.process = s.process
          /\ t.updates = all
          /\ t.client_orders_ = s.client_orders_
          /\ t.next_market_order_id_ = s.next_market_order_id_
          /\ SameOrders(s, t)
          /\ SameLevels(s, t)
          /\ SameHeads(s, t)
  BY <1>1 DEF IsBook, SameOrders, SameLevels, SameHeads
<1> QED BY <1>2 DEF all

\* Book t is s after a CANCEL of client c for its order id: there is nothing
\* to cancel, or the order found in client_orders_ was removed.
Cancels(s, t, c, id) ==
    LET o == s.client_orders_[c][id]
    IN  /\ Running(t)
        /\ SameHeads(s, t)
        /\ t.next_market_order_id_ = s.next_market_order_id_
        /\ \/ /\ t.client_orders_ = s.client_orders_
              /\ SameOrders(s, t)
              /\ SameLevels(s, t)
              /\ t.updates = << >>
           \/ /\ id \in OrderBlocks
              /\ o # Null
              /\ \E u : t.updates = <<u>> /\ u.type = "CANCEL"
              /\ t.order_pool_ = OrderPool!Returned(s.order_pool_, o)
              /\ t.client_orders_ =
                    [s.client_orders_ EXCEPT
                       ![s.orders[o].clientId_][s.orders[o].client_orderId_]
                          = Null]
              /\ Leaves(s, t, o) \/ Ends(s, t, o)

LEMMA CancelEffect ==
    ASSUME NEW s, IsBook(s), s.updates = << >>, NEW c, NEW id, NEW fault,
           LET o == s.client_orders_[c][id]
               l == s.price_levels_[priceToIndex(s.orders[o].price_)]
           IN  id \in OrderBlocks /\ o # Null
                  => s.levels[l].next_price_level_ = l,
           Running(cancel(s, c, id, fault)),
           c \in DOMAIN s.client_orders_
    PROVE  Cancels(s, cancel(s, c, id, fault), c, id)
<1> DEFINE t == cancel(s, c, id, fault)
           o == s.client_orders_[c][id]
<1>1. Running(t)
  OBVIOUS
<1>2. ~Running(Terminated(s))
  BY DEF Running, Terminated, IsBook
<1>3. /\ id \in OrderBlocks
      /\ t = IF o = Null
             THEN Send(s, Response("CANCEL_REJECTED", c, id, Null, Null, Null,
                                   Null, Null))
             ELSE Canceled(s, c, id, o)
  BY <1>2 DEF cancel
<1>4. CASE o = Null
  <2> DEFINE r == Response("CANCEL_REJECTED", c, id, Null, Null, Null, Null,
                           Null)
  <2>1. t = Send(s, r)
    BY <1>3, <1>4
  <2> HIDE DEF t, r
  <2>2. /\ t.client_orders_ = s.client_orders_
        /\ t.next_market_order_id_ = s.next_market_order_id_
        /\ t.updates = << >>
        /\ SameOrders(s, t)
        /\ SameLevels(s, t)
        /\ SameHeads(s, t)
    BY <2>1 DEF Send, IsBook, SameOrders, SameLevels, SameHeads
  <2>3. Cancels(s, t, c, id)
    BY <1>1, <2>2 DEF Cancels
  <2> QED BY <2>3 DEF t
<1>5. CASE o # Null
  <2> DEFINE order == s.orders[o]
             gone  == removeOrder(s, o)
             u     == Update("CANCEL", id, order.side_, order.price_,
                             order.qty_, order.priority_)
             r     == Response("CANCELED", c, id, order.market_orderId_,
                               order.side_, order.price_, Null, order.qty_)
  <2>1. t = Send(Publish(gone, u), r)
    BY <1>3, <1>5 DEF Canceled
  <2>2. u.type = "CANCEL"
    BY DEF Update
  <2>3. LET l == s.price_levels_[priceToIndex(s.orders[o].price_)]
        IN  s.levels[l].next_price_level_ = l
    BY <1>3, <1>5
  <2> HIDE DEF t, u, r, o
  <2>4. IsBook(gone)
    BY RemoveOrderQuiet DEF Quiet
  <2> HIDE DEF gone
  <2> DEFINE told == Publish(gone, u)
  <2>5. /\ IsBook(told)
        /\ told.process = gone.process
        /\ told.updates = Append(gone.updates, u)
        /\ told.client_orders_ = gone.client_orders_
        /\ told.next_market_order_id_ = gone.next_market_order_id_
        /\ SameOrders(gone, told)
        /\ SameLevels(gone, told)
        /\ SameHeads(gone, told)
    BY <2>4, PublishEffect
  <2>6. t = Send(told, r)
    BY <2>1
  <2> HIDE DEF told
  <2>7. /\ t.process = told.process
        /\ t.updates = told.updates
        /\ t.client_orders_ = told.client_orders_
        /\ t.next_market_order_id_ = told.next_market_order_id_
        /\ SameOrders(told, t)
        /\ SameLevels(told, t)
        /\ SameHeads(told, t)
    BY <2>5, <2>6 DEF Send, IsBook, SameOrders, SameLevels, SameHeads
  <2>8. Running(gone)
    BY <1>1, <2>5, <2>7 DEF Running
  <2>9. Removes(s, gone, o)
    BY <2>3, <2>8, RemoveEffect DEF gone
  <2>10. Append(<< >>, u) = <<u>>
    BY FirstMessage
  <2>11. t.updates = <<u>>
    BY <2>5, <2>7, <2>9, <2>10 DEF Removes, SameMessages
  <2>12. /\ SameHeads(s, t)
         /\ t.next_market_order_id_ = s.next_market_order_id_
         /\ t.order_pool_ = OrderPool!Returned(s.order_pool_, o)
         /\ t.client_orders_ =
               [s.client_orders_ EXCEPT
                  ![s.orders[o].clientId_][s.orders[o].client_orderId_] = Null]
         /\ t.orders = gone.orders
         /\ SameLevels(gone, t)
    BY <2>5, <2>7, <2>9 DEF Removes, SameOrders, SameLevels, SameHeads
  <2>13. Leaves(s, t, o) \/ Ends(s, t, o)
    BY <2>9, <2>12 DEF Removes, Leaves, Ends, SameLevels
  <2>14. \E v : t.updates = <<v>> /\ v.type = "CANCEL"
    BY <2>2, <2>11
  <2>15. Cancels(s, t, c, id)
    BY <1>1, <1>3, <1>5, <2>12, <2>13, <2>14 DEF Cancels, o
  <2> QED BY <2>15 DEF t
<1> QED BY <1>4, <1>5

-----------------------------------------------------------------------------
(* The list of a level as an abstract line: a set of orders, next and      *)
(* previous, priorities and the first of the line.                         *)

\* Next and previous are inverse, priorities are distinct, the first has the
\* smallest one, and the next of an order is the one with the next priority;
\* behind the last comes the first.  No order is left out, since there is no
\* priority in between.
IsLine(S, nxt, prv, pri, first) ==
    /\ first \in S
    /\ \A o \in S :
          /\ nxt[o] \in S
          /\ prv[o] \in S
          /\ prv[nxt[o]] = o
          /\ nxt[prv[o]] = o
          /\ pri[o] \in Nat
          /\ nxt[o] = first \/ pri[o] < pri[nxt[o]]
          /\ \A x \in S : /\ pri[first] <= pri[x]
                          /\ pri[x] = pri[o] => x = o
                          /\ \/ pri[x] <= pri[o]
                             \/ nxt[o] # first /\ pri[nxt[o]] <= pri[x]

LEMMA LineSame ==
    ASSUME NEW S, NEW N, NEW P, NEW Q, NEW first, IsLine(S, N, P, Q, first),
           NEW N2, NEW P2, NEW Q2,
           \A x \in S : N2[x] = N[x] /\ P2[x] = P[x] /\ Q2[x] = Q[x]
    PROVE  IsLine(S, N2, P2, Q2, first)
  BY DEF IsLine

\* The last of the line has the largest priority.
LEMMA LastInLine ==
    ASSUME NEW S, NEW N, NEW P, NEW Q, NEW first, IsLine(S, N, P, Q, first)
    PROVE  /\ P[first] \in S
           /\ Q[P[first]] \in Nat
           /\ \A x \in S : Q[x] <= Q[P[first]]
  BY DEF IsLine

LEMMA LineOfOne ==
    ASSUME NEW N, NEW P, NEW Q, NEW o, N[o] = o, P[o] = o, Q[o] \in Nat
    PROVE  IsLine({o}, N, P, Q, o)
  BY DEF IsLine

\* An order joins behind the last.
LEMMA LineGrows ==
    ASSUME NEW S, NEW N, NEW P, NEW Q, NEW first, IsLine(S, N, P, Q, first),
           NEW o, o \notin S, NEW N2, NEW P2, NEW Q2,
           N2[o] = first, P2[o] = P[first], N2[P[first]] = o, P2[first] = o,
           Q2[o] = Q[P[first]] + 1,
           \A x \in S : /\ Q2[x] = Q[x]
                        /\ x # P[first] => N2[x] = N[x]
                        /\ x # first => P2[x] = P[x]
    PROVE  IsLine(S \cup {o}, N2, P2, Q2, first)
<1> DEFINE last == P[first]
           T    == S \cup {o}
<1>1. /\ last \in S
      /\ first \in S
      /\ N[last] = first
      /\ Q[last] \in Nat
      /\ \A x \in S : Q[x] <= Q[last]
  BY LastInLine DEF IsLine
<1> HIDE DEF last
<1>2. ASSUME NEW y \in S
      PROVE  /\ N2[y] \in T
             /\ P2[y] \in T
             /\ P2[N2[y]] = y
             /\ N2[P2[y]] = y
             /\ Q2[y] \in Nat
             /\ N2[y] = first \/ Q2[y] < Q2[N2[y]]
  BY <1>1 DEF IsLine, last
<1>3. ASSUME NEW y \in S, NEW x \in T
      PROVE  /\ Q2[first] <= Q2[x]
             /\ Q2[x] = Q2[y] => x = y
             /\ \/ Q2[x] <= Q2[y]
                \/ N2[y] # first /\ Q2[N2[y]] <= Q2[x]
  <2>1. CASE x \in S /\ y # last
    BY <2>1, <1>1 DEF IsLine, last
  <2>2. CASE x \in S /\ y = last
    BY <2>2, <1>1 DEF IsLine, last
  <2>3. CASE x = o /\ y # last
    BY <2>3, <1>1 DEF IsLine, last
  <2>4. CASE x = o /\ y = last
    BY <2>4, <1>1 DEF IsLine, last
  <2> QED BY <2>1, <2>2, <2>3, <2>4
<1>4. /\ N2[o] \in T
      /\ P2[o] \in T
      /\ P2[N2[o]] = o
      /\ N2[P2[o]] = o
      /\ Q2[o] \in Nat
      /\ N2[o] = first
  BY <1>1 DEF last
<1>5. \A x \in T : /\ Q2[first] <= Q2[x]
                   /\ Q2[x] = Q2[o] => x = o
                   /\ Q2[x] <= Q2[o]
  BY <1>1 DEF IsLine, last
<1>6. first \in T
  BY <1>1
<1> HIDE DEF T
<1>7. \A y \in T : y \in S \/ y = o
  BY DEF T
<1>8. IsLine(T, N2, P2, Q2, first)
  BY <1>2, <1>3, <1>4, <1>5, <1>6, <1>7 DEF IsLine
<1> QED BY <1>8 DEF T

\* Who is previous to itself is alone.
LEMMA AloneInLine ==
    ASSUME NEW S, NEW N, NEW P, NEW Q, NEW first, IsLine(S, N, P, Q, first),
           NEW o \in S, P[o] = o
    PROVE  S = {o}
<1>1. N[o] = o
  BY DEF IsLine
<1>2. first = o
  BY <1>1 DEF IsLine
<1>3. \A x \in S : Q[x] \in Nat /\ Q[o] <= Q[x] /\ Q[x] <= Q[o]
  BY <1>1, <1>2 DEF IsLine
<1> QED BY <1>3 DEF IsLine

\* The links and priorities N2, P2, Q2 pass over o, and head is the first.
PassesOver(S, N, P, Q, first, o, N2, P2, Q2, head) ==
    /\ N2[P[o]] = N[o]
    /\ P2[N[o]] = P[o]
    /\ \A x \in S \ {o} : /\ Q2[x] = Q[x]
                          /\ x # P[o] => N2[x] = N[x]
                          /\ x # N[o] => P2[x] = P[x]
    /\ head = IF first = o THEN N[o] ELSE first

\* An order that is not alone leaves.
LEMMA LineShrinks ==
    ASSUME NEW S, NEW N, NEW P, NEW Q, NEW first, IsLine(S, N, P, Q, first),
           NEW o \in S, P[o] # o, NEW N2, NEW P2, NEW Q2, NEW head,
           PassesOver(S, N, P, Q, first, o, N2, P2, Q2, head)
    PROVE  IsLine(S \ {o}, N2, P2, Q2, head)
<1>0. /\ N2[P[o]] = N[o]
      /\ P2[N[o]] = P[o]
      /\ \A x \in S \ {o} : /\ Q2[x] = Q[x]
                            /\ x # P[o] => N2[x] = N[x]
                            /\ x # N[o] => P2[x] = P[x]
      /\ head = IF first = o THEN N[o] ELSE first
  BY DEF PassesOver
<1> USE <1>0
<1> DEFINE T   == S \ {o}
           p   == P[o]
           n   == N[o]
           new == IF first = o THEN n ELSE first
<1>1. /\ p \in T
      /\ n \in T
      /\ new \in T
  BY DEF IsLine
<1>2. \A y \in T : /\ y # p => N[y] # o /\ N[y] # n
                   /\ y # n => P[y] # o /\ P[y] # p
  BY DEF IsLine
<1>3. ASSUME NEW y \in T
      PROVE  /\ N2[y] \in T
             /\ P2[y] \in T
             /\ P2[N2[y]] = y
             /\ N2[P2[y]] = y
             /\ Q2[y] \in Nat
  BY <1>1, <1>2 DEF IsLine
<1>4. ASSUME NEW x \in T
      PROVE  Q2[new] <= Q2[x]
  <2>1. CASE first # o
    BY <2>1, <1>1 DEF IsLine
  <2>2. CASE first = o
    <3>1. Q[o] <= Q[x] /\ Q[x] # Q[o] /\ Q[o] \in Nat /\ Q[x] \in Nat
      BY <2>2 DEF IsLine
    <3>2. ~(Q[x] <= Q[o])
      BY <3>1
    <3>3. Q[n] <= Q[x]
      BY <3>2 DEF IsLine
    <3> QED BY <3>3, <2>2, <1>1
  <2> QED BY <2>1, <2>2
<1>5. ASSUME NEW y \in T, NEW x \in T
      PROVE  /\ N2[y] = new \/ Q2[y] < Q2[N2[y]]
             /\ Q2[x] = Q2[y] => x = y
             /\ \/ Q2[x] <= Q2[y]
                \/ N2[y] # new /\ Q2[N2[y]] <= Q2[x]
  <2>1. Q2[x] = Q[x] /\ Q2[y] = Q[y] /\ Q[x] \in Nat /\ Q[y] \in Nat
    BY DEF IsLine
  <2>2. Q2[x] = Q2[y] => x = y
    BY <2>1 DEF IsLine
  <2>3. CASE y # p
    <3>1. N2[y] = N[y] /\ N[y] \in T /\ N[y] # n /\ Q2[N[y]] = Q[N[y]]
      BY <2>3, <1>2, <1>3
    <3>2. N[y] # first => N[y] # new
      BY <3>1
    <3>3. N[y] = first => N[y] = new
      BY <3>1
    <3> HIDE DEF new
    <3> QED BY <2>1, <2>2, <3>1, <3>2, <3>3 DEF IsLine
  <2>4. CASE y = p
    <3>1. N2[y] = n /\ N[y] = o /\ Q2[n] = Q[n] /\ Q[n] \in Nat /\ Q[o] \in Nat
      BY <2>4, <1>1 DEF IsLine
    <3>2. CASE first = o
      <4>1. Q[x] <= Q[y]
        BY <3>1, <3>2 DEF IsLine
      <4> QED BY <2>1, <2>2, <3>1, <3>2, <4>1
    <3>3. CASE first # o
      <4>1. Q[y] < Q[o]
        BY <3>1, <3>3 DEF IsLine
      <4>2. n = first \/ Q[o] < Q[n]
        BY DEF IsLine
      <4>3. Q[x] <= Q[y] \/ Q[o] <= Q[x]
        BY <3>1 DEF IsLine
      <4>4. Q[x] # Q[o]
        BY DEF IsLine
      <4>5. Q[x] <= Q[o] \/ (n # first /\ Q[n] <= Q[x])
        BY DEF IsLine
      <4> QED BY <2>1, <2>2, <3>1, <3>3, <4>1, <4>2, <4>3, <4>4, <4>5
    <3> QED BY <3>2, <3>3
  <2> QED BY <2>3, <2>4
<1> HIDE DEF T, new
<1>6. IsLine(T, N2, P2, Q2, new)
  BY <1>1, <1>3, <1>4, <1>5 DEF IsLine
<1> QED BY <1>6 DEF T, new

-----------------------------------------------------------------------------
(* What the assignments to links do to the orders.                         *)

Heap == [OrderBlocks -> MEOrder \cup {Null}]

\* Two versions of an order that differ in their links only.
SameTerms(order, other) ==
    /\ other.clientId_ = order.clientId_
    /\ other.client_orderId_ = order.client_orderId_
    /\ other.market_orderId_ = order.market_orderId_
    /\ other.side_ = order.side_
    /\ other.price_ = order.price_
    /\ other.qty_ = order.qty_
    /\ other.priority_ = order.priority_

LEMMA SetNext ==
    ASSUME NEW heap \in Heap, NEW x \in OrderBlocks, NEW y \in OrderBlocks,
           heap[x] \in MEOrder
    PROVE  LET h == [heap EXCEPT ![x].next_order_ = y]
           IN  /\ h \in Heap
               /\ h[x] \in MEOrder
               /\ h[x].next_order_ = y
               /\ h[x].prev_order_ = heap[x].prev_order_
               /\ SameTerms(heap[x], h[x])
               /\ \A z \in OrderBlocks : z # x => h[z] = heap[z]
<1> DEFINE order == [heap[x] EXCEPT !.next_order_ = y]
           h     == [heap EXCEPT ![x].next_order_ = y]
<1>1. /\ order \in MEOrder
      /\ order.next_order_ = y
      /\ order.prev_order_ = heap[x].prev_order_
      /\ SameTerms(heap[x], order)
  BY DEF MEOrder, Pointers, SameTerms
<1>2. h = [heap EXCEPT ![x] = order]
  OBVIOUS
<1> HIDE DEF order, h
<1>3. h \in Heap /\ h[x] = order /\ \A z \in OrderBlocks : z # x => h[z] = heap[z]
  BY <1>1, <1>2 DEF Heap
<1> QED BY <1>1, <1>3 DEF h

LEMMA SetPrev ==
    ASSUME NEW heap \in Heap, NEW x \in OrderBlocks, NEW y \in OrderBlocks,
           heap[x] \in MEOrder
    PROVE  LET h == [heap EXCEPT ![x].prev_order_ = y]
           IN  /\ h \in Heap
               /\ h[x] \in MEOrder
               /\ h[x].prev_order_ = y
               /\ h[x].next_order_ = heap[x].next_order_
               /\ SameTerms(heap[x], h[x])
               /\ \A z \in OrderBlocks : z # x => h[z] = heap[z]
<1> DEFINE order == [heap[x] EXCEPT !.prev_order_ = y]
           h     == [heap EXCEPT ![x].prev_order_ = y]
<1>1. /\ order \in MEOrder
      /\ order.prev_order_ = y
      /\ order.next_order_ = heap[x].next_order_
      /\ SameTerms(heap[x], order)
  BY DEF MEOrder, Pointers, SameTerms
<1>2. h = [heap EXCEPT ![x] = order]
  OBVIOUS
<1> HIDE DEF order, h
<1>3. h \in Heap /\ h[x] = order /\ \A z \in OrderBlocks : z # x => h[z] = heap[z]
  BY <1>1, <1>2 DEF Heap
<1> QED BY <1>1, <1>3 DEF h

\* The orders h are those of heap with other links.
SameBut(heap, h) ==
    /\ h \in Heap
    /\ \A x \in OrderBlocks : /\ heap[x] \in MEOrder => h[x] \in MEOrder
                              /\ SameTerms(heap[x], h[x])

LEMMA SameButTransitive ==
    ASSUME NEW h1, NEW h2, NEW h3, SameBut(h1, h2), SameBut(h2, h3)
    PROVE  SameBut(h1, h3)
  BY DEF SameBut, SameTerms

\* In h, order o has been linked in between last and first.
LinksIn(heap, h, o, first, last) ==
    /\ SameBut(heap, h)
    /\ h[o].next_order_ = first
    /\ h[o].prev_order_ = last
    /\ h[last].next_order_ = o
    /\ h[first].prev_order_ = o
    /\ \A x \in OrderBlocks :
          /\ x \notin {o, last} => h[x].next_order_ = heap[x].next_order_
          /\ x \notin {o, first} => h[x].prev_order_ = heap[x].prev_order_

LEMMA LinkedEffect ==
    ASSUME NEW heap \in Heap, NEW o \in OrderBlocks, NEW first \in OrderBlocks,
           NEW last \in OrderBlocks, heap[o] \in MEOrder,
           heap[first] \in MEOrder, heap[last] \in MEOrder,
           o # first, o # last
    PROVE  LinksIn(heap, Linked(heap, o, first, last), o, first, last)
<1> DEFINE h1 == [heap EXCEPT ![last].next_order_ = o]
           h2 == [h1 EXCEPT ![o].prev_order_ = last]
           h3 == [h2 EXCEPT ![o].next_order_ = first]
           h4 == [h3 EXCEPT ![first].prev_order_ = o]
<1>0. Linked(heap, o, first, last) = h4
  BY DEF Linked
<1>1. /\ h1 \in Heap
      /\ h1[last] \in MEOrder
      /\ h1[last].next_order_ = o
      /\ h1[last].prev_order_ = heap[last].prev_order_
      /\ SameTerms(heap[last], h1[last])
      /\ \A z \in OrderBlocks : z # last => h1[z] = heap[z]
  BY SetNext
<1> HIDE DEF h1
<1>2. h1[o] \in MEOrder /\ h1[first] \in MEOrder
  BY <1>1
<1>3. /\ h2 \in Heap
      /\ h2[o] \in MEOrder
      /\ h2[o].prev_order_ = last
      /\ h2[o].next_order_ = h1[o].next_order_
      /\ SameTerms(h1[o], h2[o])
      /\ \A z \in OrderBlocks : z # o => h2[z] = h1[z]
  BY <1>1, <1>2, SetPrev
<1> HIDE DEF h2
<1>4. /\ h3 \in Heap
      /\ h3[o] \in MEOrder
      /\ h3[o].next_order_ = first
      /\ h3[o].prev_order_ = h2[o].prev_order_
      /\ SameTerms(h2[o], h3[o])
      /\ \A z \in OrderBlocks : z # o => h3[z] = h2[z]
  BY <1>3, SetNext, SMTT(30)
<1> HIDE DEF h3
<1>5. h3[first] \in MEOrder
  BY <1>2, <1>3, <1>4
<1>6. /\ h4 \in Heap
      /\ h4[first] \in MEOrder
      /\ h4[first].prev_order_ = o
      /\ h4[first].next_order_ = h3[first].next_order_
      /\ SameTerms(h3[first], h4[first])
      /\ \A z \in OrderBlocks : z # first => h4[z] = h3[z]
  BY <1>4, <1>5, SetPrev
<1> HIDE DEF h4
<1>7. SameBut(heap, h1)
  BY <1>1 DEF SameBut, SameTerms
<1>8. SameBut(h1, h2)
  BY <1>3 DEF SameBut, SameTerms
<1>9. SameBut(h2, h3)
  BY <1>4 DEF SameBut, SameTerms
<1>10. SameBut(h3, h4)
  BY <1>6 DEF SameBut, SameTerms
<1>11. SameBut(heap, h4)
  BY <1>7, <1>8, <1>9, <1>10, SameButTransitive
<1>12. /\ h4[o].next_order_ = first
       /\ h4[o].prev_order_ = last
       /\ h4[last].next_order_ = o
       /\ h4[first].prev_order_ = o
  BY <1>1, <1>3, <1>4, <1>6
<1>13. ASSUME NEW x \in OrderBlocks
       PROVE  /\ x \notin {o, last} =>
                    h4[x].next_order_ = heap[x].next_order_
              /\ x \notin {o, first} =>
                    h4[x].prev_order_ = heap[x].prev_order_
  BY <1>1, <1>3, <1>4, <1>6
<1> QED BY <1>0, <1>11, <1>12, <1>13 DEF LinksIn

\* In h, order o is linked to itself.
LinksAlone(heap, h, o) ==
    /\ SameBut(heap, h)
    /\ h[o].next_order_ = o
    /\ h[o].prev_order_ = o
    /\ \A x \in OrderBlocks : x # o => h[x] = heap[x]

LEMMA AloneEffect ==
    ASSUME NEW heap \in Heap, NEW o \in OrderBlocks, heap[o] \in MEOrder
    PROVE  LinksAlone(heap, Alone(heap, o), o)
<1> DEFINE h1 == [heap EXCEPT ![o].next_order_ = o]
           h2 == [h1 EXCEPT ![o].prev_order_ = o]
<1>0. Alone(heap, o) = h2
  BY DEF Alone
<1>1. /\ h1 \in Heap
      /\ h1[o] \in MEOrder
      /\ h1[o].next_order_ = o
      /\ SameTerms(heap[o], h1[o])
      /\ \A z \in OrderBlocks : z # o => h1[z] = heap[z]
  BY SetNext
<1> HIDE DEF h1
<1>2. /\ h2 \in Heap
      /\ h2[o] \in MEOrder
      /\ h2[o].prev_order_ = o
      /\ h2[o].next_order_ = h1[o].next_order_
      /\ SameTerms(h1[o], h2[o])
      /\ \A z \in OrderBlocks : z # o => h2[z] = h1[z]
  BY <1>1, SetPrev
<1> HIDE DEF h2
<1> QED BY <1>0, <1>1, <1>2 DEF SameBut, SameTerms, LinksAlone

\* In h, prev and next are neighbours.
LinksOut(heap, h, prev, next) ==
    /\ SameBut(heap, h)
    /\ h[prev].next_order_ = next
    /\ h[next].prev_order_ = prev
    /\ \A x \in OrderBlocks :
          /\ x # prev => h[x].next_order_ = heap[x].next_order_
          /\ x # next => h[x].prev_order_ = heap[x].prev_order_

LEMMA RelinkedEffect ==
    ASSUME NEW heap \in Heap, NEW prev \in OrderBlocks,
           NEW next \in OrderBlocks, heap[prev] \in MEOrder,
           heap[next] \in MEOrder
    PROVE  LinksOut(heap, Relinked(heap, prev, next), prev, next)
<1> DEFINE h1 == [heap EXCEPT ![prev].next_order_ = next]
           h2 == [h1 EXCEPT ![next].prev_order_ = prev]
<1>0. Relinked(heap, prev, next) = h2
  BY DEF Relinked
<1>1. /\ h1 \in Heap
      /\ h1[prev] \in MEOrder
      /\ h1[prev].next_order_ = next
      /\ h1[prev].prev_order_ = heap[prev].prev_order_
      /\ SameTerms(heap[prev], h1[prev])
      /\ \A z \in OrderBlocks : z # prev => h1[z] = heap[z]
  BY SetNext
<1> HIDE DEF h1
<1>2. h1[next] \in MEOrder
  BY <1>1
<1>3. /\ h2 \in Heap
      /\ h2[next] \in MEOrder
      /\ h2[next].prev_order_ = prev
      /\ h2[next].next_order_ = h1[next].next_order_
      /\ SameTerms(h1[next], h2[next])
      /\ \A z \in OrderBlocks : z # next => h2[z] = h1[z]
  BY <1>1, <1>2, SetPrev
<1> HIDE DEF h2
<1>4. SameBut(heap, h1)
  BY <1>1 DEF SameBut, SameTerms
<1>5. SameBut(h1, h2)
  BY <1>3 DEF SameBut, SameTerms
<1>6. SameBut(heap, h2)
  BY <1>4, <1>5, SameButTransitive
<1> QED BY <1>0, <1>1, <1>3, <1>6 DEF LinksOut

-----------------------------------------------------------------------------
(* The pools.                                                              *)

\* The natural numbers are well-founded.
LEMMA LeastMember ==
    ASSUME NEW T, T \subseteq Nat, T # {}
    PROVE  \E m \in T : \A k \in T : m <= k
<1> DEFINE R == {ss \in Nat \X Nat : ss[1] < ss[2]}
<1>1. IsWellFoundedOn(R, Nat)
  BY NatLessThanWellFounded, Zenon DEF OpToRel
<1> HIDE DEF R
<1>2. \E m \in T : \A k \in T : ~(<<k, m>> \in R)
  BY <1>1, WFMin
<1>3. \A k, m \in Nat : ~(<<k, m>> \in R) => m <= k
  BY DEF R
<1> QED BY <1>2, <1>3

LEMMA LeastChosen ==
    ASSUME NEW T, T \subseteq Nat, T # {}
    PROVE  LET m == CHOOSE j \in T : \A k \in T : j <= k
           IN  m \in T /\ \A k \in T : m <= k
  BY LeastMember

APool(blocks, size) ==
    [is_free_ : [blocks -> BOOLEAN], next_free_index_ : 0 .. size]

LEMMA TakenOrder ==
    ASSUME NEW pool \in APool(OrderBlocks, MaxOrderIds),
           pool.next_free_index_ \in OrderBlocks
    PROVE  /\ OrderPool!Taken(pool) \in APool(OrderBlocks, MaxOrderIds)
           /\ InUse(OrderPool!Taken(pool))
                 = InUse(pool) \cup {pool.next_free_index_}
<1> DEFINE b == pool.next_free_index_
           free == [pool.is_free_ EXCEPT ![b] = FALSE]
           candidates == {j \in b .. MaxOrderIds - 1 : free[j]}
           next == OrderPool!updateNextFreeIndex(free, b)
<1>1. OrderPool!Taken(pool) = [is_free_ |-> free, next_free_index_ |-> next]
  BY DEF OrderPool!Taken
<1>2. free \in [OrderBlocks -> BOOLEAN] /\ b \in OrderBlocks
  BY Zenon DEF APool
<1>3. InUse([is_free_ |-> free, next_free_index_ |-> next]) = InUse(pool) \cup {b}
  BY <1>2 DEF InUse, APool
<1> HIDE DEF free
<1>4. next \in 0 .. MaxOrderIds
  <2>1. next = IF candidates = {} THEN MaxOrderIds
               ELSE CHOOSE j \in candidates : \A k \in candidates : j <= k
    BY DEF OrderPool!updateNextFreeIndex, OrderPool!PastEnd
  <2>2. candidates \subseteq 0 .. MaxOrderIds
    BY <1>2, MaxOrderIdsAssumption DEF OrderBlocks
  <2> HIDE DEF candidates, next
  <2>3. CASE candidates = {}
    BY <2>1, <2>3, MaxOrderIdsAssumption
  <2>4. CASE candidates # {}
    <3>1. candidates \subseteq Nat
      BY <2>2, MaxOrderIdsAssumption
    <3>2. next \in candidates
      BY <2>1, <2>4, <3>1, LeastChosen
    <3> QED BY <2>2, <3>2
  <2> QED BY <2>3, <2>4
<1> HIDE DEF next
<1> QED BY <1>1, <1>2, <1>3, <1>4 DEF APool

LEMMA TakenLevel ==
    ASSUME NEW pool \in APool(LevelBlocks, MaxPriceLevels),
           pool.next_free_index_ \in LevelBlocks
    PROVE  /\ LevelPool!Taken(pool) \in APool(LevelBlocks, MaxPriceLevels)
           /\ InUse(LevelPool!Taken(pool))
                 = InUse(pool) \cup {pool.next_free_index_}
<1> DEFINE b == pool.next_free_index_
           free == [pool.is_free_ EXCEPT ![b] = FALSE]
           candidates == {j \in b .. MaxPriceLevels - 1 : free[j]}
           next == LevelPool!updateNextFreeIndex(free, b)
<1>1. LevelPool!Taken(pool) = [is_free_ |-> free, next_free_index_ |-> next]
  BY DEF LevelPool!Taken
<1>2. free \in [LevelBlocks -> BOOLEAN] /\ b \in LevelBlocks
  BY Zenon DEF APool
<1>3. InUse([is_free_ |-> free, next_free_index_ |-> next]) = InUse(pool) \cup {b}
  BY <1>2 DEF InUse, APool
<1> HIDE DEF free
<1>4. next \in 0 .. MaxPriceLevels
  <2>1. next = IF candidates = {} THEN MaxPriceLevels
               ELSE CHOOSE j \in candidates : \A k \in candidates : j <= k
    BY DEF LevelPool!updateNextFreeIndex, LevelPool!PastEnd
  <2>2. candidates \subseteq 0 .. MaxPriceLevels
    BY <1>2, MaxPriceLevelsAssumption DEF LevelBlocks
  <2> HIDE DEF candidates, next
  <2>3. CASE candidates = {}
    BY <2>1, <2>3, MaxPriceLevelsAssumption
  <2>4. CASE candidates # {}
    <3>1. candidates \subseteq Nat
      BY <2>2, MaxPriceLevelsAssumption
    <3>2. next \in candidates
      BY <2>1, <2>4, <3>1, LeastChosen
    <3> QED BY <2>2, <3>2
  <2> QED BY <2>3, <2>4
<1> HIDE DEF next
<1> QED BY <1>1, <1>2, <1>3, <1>4 DEF APool

Freed(pool, b) == [pool EXCEPT !.is_free_[b] = TRUE]

LEMMA ReturnedBlock ==
    ASSUME NEW blocks, NEW size, NEW pool \in APool(blocks, size),
           NEW b \in blocks
    PROVE  /\ Freed(pool, b) \in APool(blocks, size)
           /\ InUse(Freed(pool, b)) = InUse(pool) \ {b}
<1> DEFINE free == [pool.is_free_ EXCEPT ![b] = TRUE]
           back == [pool EXCEPT !.is_free_[b] = TRUE]
<1>1. free \in [blocks -> BOOLEAN]
  BY Zenon DEF APool
<1>2. back.is_free_ = free /\ back.next_free_index_ = pool.next_free_index_
  BY DEF APool
<1>3. back = [pool EXCEPT !.is_free_ = free]
  OBVIOUS
<1>4. back \in APool(blocks, size)
  <2> HIDE DEF free, back
  <2> QED BY <1>1, <1>3 DEF APool
<1>5. InUse(back) = InUse(pool) \ {b}
  <2> HIDE DEF back
  <2> QED BY <1>1, <1>2 DEF InUse, APool
<1> QED BY <1>4, <1>5 DEF Freed

LEMMA ReturnedOrder ==
    ASSUME NEW pool \in APool(OrderBlocks, MaxOrderIds), NEW b \in OrderBlocks
    PROVE  /\ OrderPool!Returned(pool, b) \in APool(OrderBlocks, MaxOrderIds)
           /\ InUse(OrderPool!Returned(pool, b)) = InUse(pool) \ {b}
<1>1. OrderPool!Returned(pool, b) = Freed(pool, b)
  BY DEF OrderPool!Returned, Freed
<1> QED BY <1>1, ReturnedBlock

LEMMA ReturnedLevel ==
    ASSUME NEW pool \in APool(LevelBlocks, MaxPriceLevels),
           NEW b \in LevelBlocks
    PROVE  /\ LevelPool!Returned(pool, b) \in APool(LevelBlocks, MaxPriceLevels)
           /\ InUse(LevelPool!Returned(pool, b)) = InUse(pool) \ {b}
<1>1. LevelPool!Returned(pool, b) = Freed(pool, b)
  BY DEF LevelPool!Returned, Freed
<1> QED BY <1>1, ReturnedBlock

-----------------------------------------------------------------------------
(* The invariant of the book.                                              *)

\* The orders in use whose price belongs to table entry i, and the abstract
\* line that their links and priorities make up.
At(i) == {o \in LiveOrders : priceToIndex(orders[o].price_) = i}
NextOf == [o \in LiveOrders |-> orders[o].next_order_]
PrevOf == [o \in LiveOrders |-> orders[o].prev_order_]
PriorityOf == [o \in LiveOrders |-> orders[o].priority_]
First(i) == levels[price_levels_[i]].first_order_

BookTypes ==
    /\ orders \in Heap
    /\ levels \in [LevelBlocks -> MEOrderAtPriceLevel \cup {Null}]
    /\ order_pool_ \in APool(OrderBlocks, MaxOrderIds)
    /\ price_levels_pool_ \in APool(LevelBlocks, MaxPriceLevels)
    /\ price_levels_ \in [LevelBlocks -> Pointers(LevelBlocks)]
    /\ client_orders_ \in [Clients -> [OrderBlocks -> Pointers(OrderBlocks)]]
    /\ next_market_order_id_ \in Nat \ {0}

\* An order in use is one that was accepted, and its price has a level.
OrdersInv ==
    \A o \in LiveOrders :
       /\ orders[o] \in MEOrder
       /\ orders[o].client_orderId_ \in OrderBlocks
       /\ orders[o].market_orderId_ < next_market_order_id_
       /\ price_levels_[priceToIndex(orders[o].price_)] # Null

\* The levels in use are those of the table.  No level is linked to another,
\* since there is no head to link it to.
LevelsInv ==
    /\ \A i \in LevelBlocks : price_levels_[i] # Null =>
          /\ price_levels_[i] \in LiveLevels
          /\ priceToIndex(levels[price_levels_[i]].price_) = i
          /\ levels[price_levels_[i]].next_price_level_ = price_levels_[i]
    /\ \A l \in LiveLevels :
          /\ levels[l] \in MEOrderAtPriceLevel
          /\ price_levels_[priceToIndex(levels[l].price_)] = l

LineInv ==
    \A i \in LevelBlocks : price_levels_[i] # Null =>
       IsLine(At(i), NextOf, PrevOf, PriorityOf, First(i))

BookInv == BookTypes /\ OrdersInv /\ LevelsInv /\ LineInv /\ ClientIndexLive

LEMMA PriceIndex ==
    ASSUME NEW price \in Prices
    PROVE  priceToIndex(price) \in LevelBlocks
<1>1. price \in Nat /\ MaxPriceLevels \in Nat \ {0}
  BY PricesAssumption, MaxPriceLevelsAssumption
<1> QED BY <1>1 DEF priceToIndex, LevelBlocks

LEMMA LiveBlocks ==
    ASSUME BookTypes
    PROVE  LiveOrders \subseteq OrderBlocks /\ LiveLevels \subseteq LevelBlocks
  BY DEF BookTypes, LiveOrders, LiveLevels, InUse, APool

LEMMA NullIsNoBlock == Null \notin OrderBlocks /\ Null \notin LevelBlocks
  BY NullAssumption DEF OrderBlocks, LevelBlocks

\* What the invariant says of an order in use, and of its level.
LEMMA LiveOrderFacts ==
    ASSUME BookInv, NEW o \in LiveOrders
    PROVE  LET i == priceToIndex(orders[o].price_)
           IN  /\ o \in OrderBlocks
               /\ orders[o] \in MEOrder
               /\ i \in LevelBlocks
               /\ o \in At(i)
               /\ price_levels_[i] # Null
               /\ price_levels_[i] \in LiveLevels
               /\ levels[price_levels_[i]] \in MEOrderAtPriceLevel
               /\ levels[price_levels_[i]].next_price_level_ = price_levels_[i]
               /\ IsLine(At(i), NextOf, PrevOf, PriorityOf, First(i))
<1> DEFINE i == priceToIndex(orders[o].price_)
<1>1. orders[o] \in MEOrder /\ price_levels_[i] # Null
  BY DEF BookInv, OrdersInv
<1>2. i \in LevelBlocks
  <2>1. orders[o].price_ \in Prices
    BY <1>1 DEF MEOrder
  <2> QED BY <2>1, PriceIndex
<1>3. o \in OrderBlocks
  BY LiveBlocks DEF BookInv
<1>4. o \in At(i)
  BY DEF At
<1> HIDE DEF i
<1> QED BY <1>1, <1>2, <1>3, <1>4 DEF BookInv, LevelsInv, LineInv, i

LEMMA Lookups ==
    \A o \in LiveOrders : /\ NextOf[o] = orders[o].next_order_
                          /\ PrevOf[o] = orders[o].prev_order_
                          /\ PriorityOf[o] = orders[o].priority_
  BY DEF NextOf, PrevOf, PriorityOf

\* The level of a price with orders.
LEMMA LevelFacts ==
    ASSUME BookInv, NEW i \in LevelBlocks, price_levels_[i] # Null
    PROVE  /\ IsLine(At(i), NextOf, PrevOf, PriorityOf, First(i))
           /\ First(i) \in At(i)
           /\ First(i) \in LiveOrders
           /\ orders[First(i)].prev_order_ \in At(i)
           /\ orders[First(i)].prev_order_ = PrevOf[First(i)]
           /\ orders[orders[First(i)].prev_order_].priority_ \in Nat
           /\ orders[orders[First(i)].prev_order_].priority_
                 = PriorityOf[PrevOf[First(i)]]
<1>1. IsLine(At(i), NextOf, PrevOf, PriorityOf, First(i))
  BY DEF BookInv, LineInv
<1>2. First(i) \in At(i) /\ PrevOf[First(i)] \in At(i)
  BY <1>1 DEF IsLine
<1>3. \A o \in At(i) : o \in LiveOrders /\ PriorityOf[o] \in Nat
  BY <1>1 DEF IsLine, At
<1> QED BY <1>1, <1>2, <1>3, Lookups

\* The order of a request has the type of an order.
LEMMA RequestTyped ==
    ASSUME BookInv, NEW c \in Clients, NEW id \in OrderIds, NEW side \in Sides,
           NEW price \in Prices, NEW qty \in Qtys
    PROVE  LET order == OrderFor(Book, c, id, side, price, qty)
               i     == priceToIndex(price)
           IN  /\ order \in MEOrder
               /\ order.clientId_ = c
               /\ order.client_orderId_ = id
               /\ order.price_ = price
               /\ order.market_orderId_ = next_market_order_id_
               /\ order.priority_ \in Nat
               /\ price_levels_[i] # Null =>
                     order.priority_ =
                        orders[orders[First(i)].prev_order_].priority_ + 1
<1> DEFINE i == priceToIndex(price)
           n == getNextPriority(Book, price)
<1>1. i \in LevelBlocks
  BY PriceIndex
<1>2. n = IF price_levels_[i] = Null THEN 1
          ELSE orders[orders[First(i)].prev_order_].priority_ + 1
  BY DEF getNextPriority, getPriceLevel, Book, First
<1> HIDE DEF i, n
<1>3. n \in Nat
  BY <1>1, <1>2, LevelFacts
<1>4. qty \in Nat /\ next_market_order_id_ \in Nat \ {0}
  BY QtysAssumption DEF BookInv, BookTypes
<1>5. OrderFor(Book, c, id, side, price, qty)
        = [clientId_ |-> c, client_orderId_ |-> id,
           market_orderId_ |-> next_market_order_id_, side_ |-> side,
           price_ |-> price, qty_ |-> qty, priority_ |-> n,
           prev_order_ |-> Null, next_order_ |-> Null]
  BY DEF OrderFor, Book, n
<1>6. OrderFor(Book, c, id, side, price, qty) \in MEOrder
  BY <1>3, <1>4, <1>5 DEF MEOrder, Pointers
<1> QED BY <1>2, <1>3, <1>5, <1>6 DEF i

\* The part of the orders in a NEW request: block o becomes order.
Grows(o, order) ==
    /\ o \notin LiveOrders
    /\ LiveOrders' = LiveOrders \cup {o}
    /\ orders' \in Heap
    /\ order_pool_' \in APool(OrderBlocks, MaxOrderIds)
    /\ client_orders_' \in [Clients -> [OrderBlocks -> Pointers(OrderBlocks)]]
    /\ next_market_order_id_' \in Nat \ {0}
    /\ \A x \in LiveOrders : SameTerms(orders[x], orders'[x])
    /\ SameTerms(order, orders'[o])
    /\ \A x \in LiveOrders' :
          /\ orders'[x] \in MEOrder
          /\ orders'[x].client_orderId_ \in OrderBlocks
          /\ orders'[x].market_orderId_ < next_market_order_id_'
    /\ ClientIndexLive'
    /\ \A i : At(i)' = IF i = priceToIndex(order.price_) THEN At(i) \cup {o}
                       ELSE At(i)

LEMMA OrdersGrow ==
    ASSUME BookInv, NEW o, o = order_pool_.next_free_index_,
           o \in OrderBlocks, order_pool_.is_free_[o],
           NEW order \in MEOrder, order.client_orderId_ \in OrderBlocks,
           order.market_orderId_ = next_market_order_id_,
           SameBut([orders EXCEPT ![o] = order], orders'),
           order_pool_' = OrderPool!Taken(order_pool_),
           client_orders_' =
              [client_orders_ EXCEPT
                 ![order.clientId_][order.client_orderId_] = o],
           next_market_order_id_' = next_market_order_id_ + 1
    PROVE  Grows(o, order)
<1> DEFINE heap == [orders EXCEPT ![o] = order]
           c    == order.clientId_
           id   == order.client_orderId_
<1>1. /\ orders \in Heap
      /\ order_pool_ \in APool(OrderBlocks, MaxOrderIds)
      /\ client_orders_ \in [Clients -> [OrderBlocks -> Pointers(OrderBlocks)]]
      /\ next_market_order_id_ \in Nat \ {0}
      /\ LiveOrders \subseteq OrderBlocks
  BY LiveBlocks DEF BookInv, BookTypes
<1>2. /\ order_pool_' \in APool(OrderBlocks, MaxOrderIds)
      /\ LiveOrders' = LiveOrders \cup {o}
  BY <1>1, TakenOrder DEF LiveOrders
<1>3. o \notin LiveOrders
  BY DEF LiveOrders, InUse
<1>4. /\ heap[o] = order
      /\ \A x \in LiveOrders : heap[x] = orders[x]
  BY <1>1, <1>3 DEF Heap
<1>5. /\ orders' \in Heap
      /\ \A x \in OrderBlocks : /\ heap[x] \in MEOrder => orders'[x] \in MEOrder
                                /\ SameTerms(heap[x], orders'[x])
  BY DEF SameBut
<1> HIDE DEF heap
<1>6. /\ \A x \in LiveOrders : SameTerms(orders[x], orders'[x])
      /\ SameTerms(order, orders'[o])
  BY <1>1, <1>4, <1>5
<1>7. /\ next_market_order_id_' \in Nat \ {0}
      /\ \A x \in LiveOrders' :
            /\ orders'[x] \in MEOrder
            /\ orders'[x].client_orderId_ \in OrderBlocks
            /\ orders'[x].market_orderId_ < next_market_order_id_'
  <2>1. ASSUME NEW x \in LiveOrders
        PROVE  /\ orders'[x] \in MEOrder
               /\ orders'[x].client_orderId_ \in OrderBlocks
               /\ orders'[x].market_orderId_ < next_market_order_id_'
    <3>1. /\ orders[x] \in MEOrder
          /\ orders[x].client_orderId_ \in OrderBlocks
          /\ orders[x].market_orderId_ < next_market_order_id_
      BY DEF BookInv, OrdersInv
    <3>2. orders[x].market_orderId_ \in Nat
      BY <3>1 DEF MEOrder
    <3> QED BY <1>1, <1>4, <1>5, <1>6, <3>1, <3>2 DEF SameTerms
  <2>2. /\ orders'[o] \in MEOrder
        /\ orders'[o].client_orderId_ \in OrderBlocks
        /\ orders'[o].market_orderId_ < next_market_order_id_'
    BY <1>1, <1>4, <1>5, <1>6 DEF SameTerms
  <2> QED BY <1>1, <1>2, <2>1, <2>2
<1>8. c \in Clients /\ id \in OrderBlocks
  BY DEF MEOrder
<1> HIDE DEF c, id
<1>9. \A d \in Clients, k \in OrderBlocks :
         client_orders_'[d][k] = IF d = c /\ k = id THEN o
                                 ELSE client_orders_[d][k]
  BY <1>1, <1>8 DEF c, id
<1>10. client_orders_' \in [Clients -> [OrderBlocks -> Pointers(OrderBlocks)]]
  BY <1>1, <1>8 DEF c, id, Pointers
<1>11. ClientIndexLive'
  <2> SUFFICES ASSUME NEW d \in Clients, NEW k \in OrderBlocks,
                      client_orders_'[d][k] # Null
               PROVE  /\ client_orders_'[d][k] \in LiveOrders'
                      /\ orders'[client_orders_'[d][k]].clientId_ = d
                      /\ orders'[client_orders_'[d][k]].client_orderId_ = k
    BY DEF ClientIndexLive
  <2>1. CASE d = c /\ k = id
    BY <2>1, <1>2, <1>6, <1>9 DEF SameTerms, c, id
  <2>2. CASE ~(d = c /\ k = id)
    <3>1. /\ client_orders_'[d][k] = client_orders_[d][k]
          /\ client_orders_[d][k] \in LiveOrders
          /\ orders[client_orders_[d][k]].clientId_ = d
          /\ orders[client_orders_[d][k]].client_orderId_ = k
      BY <2>2, <1>9 DEF BookInv, ClientIndexLive
    <3> QED BY <3>1, <1>2, <1>6 DEF SameTerms
  <2> QED BY <2>1, <2>2
<1>12. ASSUME NEW i
       PROVE  At(i)' = IF i = priceToIndex(order.price_) THEN At(i) \cup {o}
                       ELSE At(i)
  BY <1>2, <1>3, <1>6 DEF At, SameTerms
<1> QED BY <1>2, <1>3, <1>5, <1>6, <1>7, <1>10, <1>11, <1>12 DEF Grows

\* The order joins the line of its level.
LEMMA JoinKeeps ==
    ASSUME BookInv, NEW o, o = order_pool_.next_free_index_,
           o \in OrderBlocks, order_pool_.is_free_[o],
           NEW order \in MEOrder, order.client_orderId_ \in OrderBlocks,
           order.market_orderId_ = next_market_order_id_,
           price_levels_[priceToIndex(order.price_)] # Null,
           order.priority_ =
              orders[orders[First(priceToIndex(order.price_))].prev_order_]
                 .priority_ + 1,
           orders' = LET heap == [orders EXCEPT ![o] = order]
                         first == First(priceToIndex(order.price_))
                     IN  Linked(heap, o, first, heap[first].prev_order_),
           order_pool_' = OrderPool!Taken(order_pool_),
           client_orders_' =
              [client_orders_ EXCEPT
                 ![order.clientId_][order.client_orderId_] = o],
           next_market_order_id_' = next_market_order_id_ + 1,
           UNCHANGED <<levels, price_levels_pool_, price_levels_>>
    PROVE  BookInv' /\ Grows(o, order)
<1> DEFINE i     == priceToIndex(order.price_)
           heap  == [orders EXCEPT ![o] = order]
           first == First(i)
           last  == orders[first].prev_order_
<1>1. i \in LevelBlocks
  <2>1. order.price_ \in Prices
    BY DEF MEOrder
  <2> QED BY <2>1, PriceIndex
<1>2. /\ IsLine(At(i), NextOf, PrevOf, PriorityOf, first)
      /\ first \in At(i)
      /\ last \in At(i)
      /\ last = PrevOf[first]
      /\ order.priority_ = PriorityOf[PrevOf[first]] + 1
  <2> HIDE DEF i
  <2>1. price_levels_[i] # Null
    BY DEF i
  <2> QED BY <1>1, <2>1, LevelFacts DEF i
<1>3. /\ orders \in Heap
      /\ LiveOrders \subseteq OrderBlocks
      /\ At(i) \subseteq LiveOrders
      /\ o \notin LiveOrders
      /\ \A x \in LiveOrders : orders[x] \in MEOrder
  BY LiveBlocks DEF BookInv, BookTypes, OrdersInv, LiveOrders, InUse, At
<1>4. orders' = Linked(heap, o, first, heap[first].prev_order_)
  BY DEF i
<1> HIDE DEF i, first, last
<1>5. /\ heap \in Heap
      /\ heap[o] = order
      /\ \A x \in OrderBlocks : x # o => heap[x] = orders[x]
  BY <1>3 DEF Heap
<1> HIDE DEF heap
<1>6. /\ first \in LiveOrders
      /\ last \in LiveOrders
      /\ o # first
      /\ o # last
      /\ heap[first].prev_order_ = last
      /\ heap[first] \in MEOrder
      /\ heap[last] \in MEOrder
  BY <1>2, <1>3, <1>5 DEF last
<1>7. /\ SameBut(heap, orders')
      /\ orders'[o].next_order_ = first
      /\ orders'[o].prev_order_ = last
      /\ orders'[last].next_order_ = o
      /\ orders'[first].prev_order_ = o
      /\ \A x \in OrderBlocks :
            /\ x \notin {o, last} =>
                  orders'[x].next_order_ = heap[x].next_order_
            /\ x \notin {o, first} =>
                  orders'[x].prev_order_ = heap[x].prev_order_
  <2>1. orders' = Linked(heap, o, first, last)
    BY <1>4, <1>6
  <2>2. first \in OrderBlocks /\ last \in OrderBlocks
    BY <1>3, <1>6
  <2>3. LinksIn(heap, orders', o, first, last)
    BY <2>1, <2>2, <1>3, <1>5, <1>6, LinkedEffect
  <2> QED BY <2>3 DEF LinksIn
<1>8. Grows(o, order)
  BY <1>7, OrdersGrow DEF heap
<1>9. BookTypes' /\ OrdersInv'
  <2>1. BookTypes'
    BY <1>8 DEF Grows, BookInv, BookTypes
  <2>2. ASSUME NEW x \in LiveOrders'
        PROVE  price_levels_'[priceToIndex(orders'[x].price_)] # Null
    <3>1. CASE x \in LiveOrders
      <4>1. orders'[x].price_ = orders[x].price_
        BY <1>8, <3>1 DEF Grows, SameTerms
      <4> QED BY <3>1, <4>1 DEF BookInv, OrdersInv
    <3>2. CASE x = o
      <4>1. orders'[x].price_ = order.price_
        BY <1>8, <3>2 DEF Grows, SameTerms
      <4> QED BY <4>1
    <3> QED BY <1>8, <3>1, <3>2 DEF Grows
  <2>3. OrdersInv'
    BY <1>8, <2>2 DEF Grows, OrdersInv
  <2> QED BY <2>1, <2>3
<1>10. LevelsInv'
  BY DEF BookInv, LevelsInv, LiveLevels
<1>11. /\ \A x \in LiveOrders' : /\ NextOf'[x] = orders'[x].next_order_
                                 /\ PrevOf'[x] = orders'[x].prev_order_
                                 /\ PriorityOf'[x] = orders'[x].priority_
       /\ LiveOrders' = LiveOrders \cup {o}
  BY <1>8 DEF Grows, NextOf, PrevOf, PriorityOf
<1>12. ASSUME NEW x \in LiveOrders
       PROVE  /\ PriorityOf'[x] = PriorityOf[x]
              /\ x # last => NextOf'[x] = NextOf[x]
              /\ x # first => PrevOf'[x] = PrevOf[x]
  <2>1. x # o /\ x \in OrderBlocks /\ x \in LiveOrders'
    BY <1>3, <1>11
  <2>2. orders'[x].priority_ = orders[x].priority_
    BY <1>8 DEF Grows, SameTerms
  <2>3. heap[x] = orders[x]
    BY <2>1, <1>5
  <2>4. /\ NextOf'[x] = orders'[x].next_order_
        /\ PrevOf'[x] = orders'[x].prev_order_
        /\ PriorityOf'[x] = orders'[x].priority_
    BY <2>1, <1>11
  <2>5. /\ NextOf[x] = orders[x].next_order_
        /\ PrevOf[x] = orders[x].prev_order_
        /\ PriorityOf[x] = orders[x].priority_
    BY Lookups
  <2>6. /\ x # last => orders'[x].next_order_ = heap[x].next_order_
        /\ x # first => orders'[x].prev_order_ = heap[x].prev_order_
    BY <2>1, <1>7
  <2> QED BY <2>2, <2>3, <2>4, <2>5, <2>6
<1>13. IsLine(At(i) \cup {o}, NextOf', PrevOf', PriorityOf', first)
  <2>1. /\ NextOf'[o] = first
        /\ PrevOf'[o] = PrevOf[first]
        /\ NextOf'[PrevOf[first]] = o
        /\ PrevOf'[first] = o
        /\ PriorityOf'[o] = PriorityOf[PrevOf[first]] + 1
    <3>1. orders'[o].priority_ = order.priority_
      BY <1>8 DEF Grows, SameTerms
    <3>2. o \in LiveOrders' /\ first \in LiveOrders' /\ last \in LiveOrders'
      BY <1>6, <1>11
    <3>3. /\ NextOf'[o] = orders'[o].next_order_
          /\ PrevOf'[o] = orders'[o].prev_order_
          /\ PriorityOf'[o] = orders'[o].priority_
          /\ NextOf'[last] = orders'[last].next_order_
          /\ PrevOf'[first] = orders'[first].prev_order_
      BY <1>11, <3>2
    <3> QED BY <1>2, <1>7, <3>1, <3>3
  <2>2. \A x \in At(i) : /\ PriorityOf'[x] = PriorityOf[x]
                         /\ x # PrevOf[first] => NextOf'[x] = NextOf[x]
                         /\ x # first => PrevOf'[x] = PrevOf[x]
    BY <1>2, <1>3, <1>12
  <2>3. o \notin At(i)
    BY <1>3
  <2> QED BY <1>2, <2>1, <2>2, <2>3, LineGrows, SMTT(30)
<1>14. LineInv'
  <2> SUFFICES ASSUME NEW j \in LevelBlocks, price_levels_'[j] # Null
               PROVE  IsLine(At(j)', NextOf', PrevOf', PriorityOf', First(j)')
    BY DEF LineInv
  <2>1. First(j)' = First(j)
    BY DEF First
  <2>2. CASE j = i
    <3>1. At(j)' = At(i) \cup {o}
      BY <1>8, <2>2 DEF Grows, i
    <3> QED BY <1>13, <2>1, <2>2, <3>1 DEF first
  <2>3. CASE j # i
    <3>1. At(j)' = At(j)
      BY <1>8, <2>3 DEF Grows, i
    <3>2. IsLine(At(j), NextOf, PrevOf, PriorityOf, First(j))
      BY DEF BookInv, LineInv
    <3>3. \A x \in At(j) : x \in LiveOrders /\ x \notin At(i)
      BY <2>3 DEF At
    <3>4. \A x \in At(j) : /\ NextOf'[x] = NextOf[x]
                           /\ PrevOf'[x] = PrevOf[x]
                           /\ PriorityOf'[x] = PriorityOf[x]
      BY <3>3, <1>2, <1>12
    <3> QED BY <2>1, <3>1, <3>2, <3>4, LineSame
  <2> QED BY <2>2, <2>3
<1> QED BY <1>8, <1>9, <1>10, <1>14 DEF Grows, BookInv

\* The order starts a level of its own.
LEMMA StartKeeps ==
    ASSUME BookInv, NEW o, o = order_pool_.next_free_index_,
           o \in OrderBlocks, order_pool_.is_free_[o],
           NEW order \in MEOrder, order.client_orderId_ \in OrderBlocks,
           order.market_orderId_ = next_market_order_id_,
           NEW b, b = price_levels_pool_.next_free_index_,
           b \in LevelBlocks, price_levels_pool_.is_free_[b],
           price_levels_[priceToIndex(order.price_)] = Null,
           orders' = Alone([orders EXCEPT ![o] = order], o),
           order_pool_' = OrderPool!Taken(order_pool_),
           client_orders_' =
              [client_orders_ EXCEPT
                 ![order.clientId_][order.client_orderId_] = o],
           next_market_order_id_' = next_market_order_id_ + 1,
           levels' = [levels EXCEPT ![b] = LevelFor(order, o, b)],
           price_levels_pool_' = LevelPool!Taken(price_levels_pool_),
           price_levels_' = [price_levels_ EXCEPT
                               ![priceToIndex(order.price_)] = b]
    PROVE  BookInv' /\ Grows(o, order)
<1> DEFINE i     == priceToIndex(order.price_)
           heap  == [orders EXCEPT ![o] = order]
           level == LevelFor(order, o, b)
<1>1. i \in LevelBlocks
  <2>1. order.price_ \in Prices
    BY DEF MEOrder
  <2> QED BY <2>1, PriceIndex
<1>2. /\ orders \in Heap
      /\ levels \in [LevelBlocks -> MEOrderAtPriceLevel \cup {Null}]
      /\ price_levels_ \in [LevelBlocks -> Pointers(LevelBlocks)]
      /\ price_levels_pool_ \in APool(LevelBlocks, MaxPriceLevels)
      /\ LiveOrders \subseteq OrderBlocks
      /\ LiveLevels \subseteq LevelBlocks
      /\ o \notin LiveOrders
      /\ b \notin LiveLevels
  BY LiveBlocks DEF BookInv, BookTypes, LiveOrders, LiveLevels, InUse
<1>3. /\ price_levels_pool_' \in APool(LevelBlocks, MaxPriceLevels)
      /\ LiveLevels' = LiveLevels \cup {b}
  BY <1>2, TakenLevel DEF LiveLevels
<1>4. /\ level.price_ = order.price_
      /\ level.first_order_ = o
      /\ level.next_price_level_ = b
      /\ level \in MEOrderAtPriceLevel
  BY LevelForEffect
<1> HIDE DEF level
<1>5. /\ levels' \in [LevelBlocks -> MEOrderAtPriceLevel \cup {Null}]
      /\ levels'[b] = level
      /\ \A l \in LevelBlocks : l # b => levels'[l] = levels[l]
  BY <1>2, <1>4 DEF level
<1>6. /\ price_levels_' \in [LevelBlocks -> Pointers(LevelBlocks)]
      /\ price_levels_'[i] = b
      /\ \A j \in LevelBlocks : j # i => price_levels_'[j] = price_levels_[j]
  BY <1>1, <1>2 DEF Pointers
<1>7. /\ heap \in Heap
      /\ heap[o] = order
      /\ \A x \in OrderBlocks : x # o => heap[x] = orders[x]
  BY <1>2 DEF Heap
<1>8. /\ SameBut(heap, orders')
      /\ orders'[o].next_order_ = o
      /\ orders'[o].prev_order_ = o
      /\ \A x \in OrderBlocks : x # o => orders'[x] = heap[x]
  <2> HIDE DEF heap
  <2>1. orders' = Alone(heap, o) /\ heap[o] \in MEOrder
    BY <1>7 DEF heap
  <2>2. LinksAlone(heap, orders', o)
    BY <1>7, <2>1, AloneEffect
  <2> QED BY <2>2 DEF LinksAlone
<1>9. Grows(o, order)
  BY <1>8, OrdersGrow
<1> HIDE DEF heap
<1>10. /\ LiveOrders' = LiveOrders \cup {o}
       /\ SameTerms(order, orders'[o])
       /\ orders'[o] \in MEOrder
       /\ \A x \in LiveOrders : orders'[x] = orders[x]
  <2>1. /\ LiveOrders' = LiveOrders \cup {o}
        /\ SameTerms(order, orders'[o])
        /\ orders'[o] \in MEOrder
    BY <1>9 DEF Grows
  <2>2. ASSUME NEW x \in LiveOrders PROVE orders'[x] = orders[x]
    <3>1. x \in OrderBlocks /\ x # o
      BY <1>2
    <3>2. orders'[x] = heap[x]
      BY <3>1, <1>8
    <3>3. heap[x] = orders[x]
      BY <3>1, <1>7
    <3> QED BY <3>2, <3>3
  <2> QED BY <2>1, <2>2
<1>11. BookTypes'
  BY <1>3, <1>5, <1>6, <1>9 DEF Grows, BookTypes
<1>12. OrdersInv'
  <2>1. ASSUME NEW x \in LiveOrders'
        PROVE  price_levels_'[priceToIndex(orders'[x].price_)] # Null
    <3>1. CASE x \in LiveOrders
      <4>1. /\ orders'[x] = orders[x]
            /\ price_levels_[priceToIndex(orders[x].price_)] # Null
            /\ priceToIndex(orders[x].price_) \in LevelBlocks
        BY <3>1, <1>10, LiveOrderFacts
      <4> QED BY <4>1, <1>6
    <3>2. CASE x = o
      <4>1. orders'[x].price_ = order.price_
        BY <1>10, <3>2 DEF SameTerms
      <4> QED BY <4>1, <1>6, NullIsNoBlock
    <3> QED BY <1>10, <3>1, <3>2
  <2> QED BY <1>9, <2>1 DEF Grows, OrdersInv
<1>13. \A j \in LevelBlocks : j # i /\ price_levels_[j] # Null =>
          /\ price_levels_[j] \in LiveLevels
          /\ price_levels_[j] \in LevelBlocks
          /\ price_levels_[j] # b
  BY <1>2 DEF BookInv, LevelsInv
<1>14. LevelsInv'
  <2>1. ASSUME NEW j \in LevelBlocks, price_levels_'[j] # Null
        PROVE  /\ price_levels_'[j] \in LiveLevels'
               /\ priceToIndex(levels'[price_levels_'[j]].price_) = j
               /\ levels'[price_levels_'[j]].next_price_level_
                     = price_levels_'[j]
    <3>1. CASE j = i
      BY <3>1, <1>3, <1>4, <1>5, <1>6
    <3>2. CASE j # i
      <4>1. /\ price_levels_'[j] = price_levels_[j]
            /\ price_levels_[j] \in LiveLevels
            /\ price_levels_[j] \in LevelBlocks
            /\ price_levels_[j] # b
        BY <2>1, <3>2, <1>6, <1>13
      <4>2. levels'[price_levels_[j]] = levels[price_levels_[j]]
        BY <4>1, <1>5
      <4> QED BY <2>1, <4>1, <4>2, <1>3 DEF BookInv, LevelsInv
    <3> QED BY <3>1, <3>2
  <2>2. ASSUME NEW l \in LiveLevels'
        PROVE  /\ levels'[l] \in MEOrderAtPriceLevel
               /\ price_levels_'[priceToIndex(levels'[l].price_)] = l
    <3>1. CASE l = b
      BY <3>1, <1>4, <1>5, <1>6
    <3>2. CASE l # b
      <4>1. l \in LiveLevels /\ levels'[l] = levels[l]
        BY <3>2, <1>2, <1>3, <1>5
      <4>2. /\ levels[l] \in MEOrderAtPriceLevel
            /\ price_levels_[priceToIndex(levels[l].price_)] = l
        BY <4>1 DEF BookInv, LevelsInv
      <4>3. priceToIndex(levels[l].price_) \in LevelBlocks
        <5>1. levels[l].price_ \in Prices
          BY <4>2 DEF MEOrderAtPriceLevel
        <5> QED BY <5>1, PriceIndex
      <4>4. priceToIndex(levels[l].price_) # i
        BY <4>1, <4>2, <1>2, NullIsNoBlock
      <4> QED BY <4>1, <4>2, <4>3, <4>4, <1>6
    <3> QED BY <3>1, <3>2
  <2> QED BY <2>1, <2>2 DEF LevelsInv
<1>15. /\ \A x \in LiveOrders' : /\ NextOf'[x] = orders'[x].next_order_
                                 /\ PrevOf'[x] = orders'[x].prev_order_
                                 /\ PriorityOf'[x] = orders'[x].priority_
  BY DEF NextOf, PrevOf, PriorityOf
<1>16. LineInv'
  <2> SUFFICES ASSUME NEW j \in LevelBlocks, price_levels_'[j] # Null
               PROVE  IsLine(At(j)', NextOf', PrevOf', PriorityOf', First(j)')
    BY DEF LineInv
  <2>1. First(j)' = levels'[price_levels_'[j]].first_order_
    BY DEF First
  <2>2. CASE j = i
    <3>1. At(i) = {}
      BY DEF At, BookInv, OrdersInv
    <3>2. At(j)' = {o}
      BY <1>9, <2>2, <3>1 DEF Grows
    <3>3. First(j)' = o
      BY <2>1, <2>2, <1>4, <1>5, <1>6
    <3>4. /\ NextOf'[o] = o
          /\ PrevOf'[o] = o
          /\ PriorityOf'[o] \in Nat
      <4>1. orders'[o].priority_ \in Nat /\ o \in LiveOrders'
        BY <1>10 DEF MEOrder
      <4> QED BY <4>1, <1>8, <1>15
    <3> QED BY <3>2, <3>3, <3>4, LineOfOne
  <2>3. CASE j # i
    <3>1. At(j)' = At(j)
      BY <1>9, <2>3 DEF Grows
    <3>2. price_levels_'[j] = price_levels_[j] /\ price_levels_[j] # Null
      BY <2>3, <1>6
    <3>3. IsLine(At(j), NextOf, PrevOf, PriorityOf, First(j))
      BY <3>2 DEF BookInv, LineInv
    <3>4. First(j)' = First(j)
      <4>1. levels'[price_levels_[j]] = levels[price_levels_[j]]
        BY <2>3, <3>2, <1>5, <1>13
      <4> QED BY <2>1, <3>2, <4>1 DEF First
    <3>5. ASSUME NEW x \in At(j)
          PROVE  /\ NextOf'[x] = NextOf[x]
                 /\ PrevOf'[x] = PrevOf[x]
                 /\ PriorityOf'[x] = PriorityOf[x]
      <4>1. x \in LiveOrders /\ x \in LiveOrders'
        BY <1>10 DEF At
      <4>2. orders'[x] = orders[x]
        BY <4>1, <1>10
      <4>3. /\ NextOf'[x] = orders'[x].next_order_
            /\ PrevOf'[x] = orders'[x].prev_order_
            /\ PriorityOf'[x] = orders'[x].priority_
        BY <4>1, <1>15
      <4>4. /\ NextOf[x] = orders[x].next_order_
            /\ PrevOf[x] = orders[x].prev_order_
            /\ PriorityOf[x] = orders[x].priority_
        BY <4>1, Lookups
      <4> QED BY <4>2, <4>3, <4>4
    <3> QED BY <3>1, <3>3, <3>4, <3>5, LineSame
  <2> QED BY <2>2, <2>3
<1> QED BY <1>9, <1>11, <1>12, <1>14, <1>16 DEF Grows, BookInv

\* The part of the orders in a CANCEL request: block o is returned.
Shrinks(o) ==
    /\ LiveOrders' = LiveOrders \ {o}
    /\ orders' \in Heap
    /\ order_pool_' \in APool(OrderBlocks, MaxOrderIds)
    /\ client_orders_' \in [Clients -> [OrderBlocks -> Pointers(OrderBlocks)]]
    /\ next_market_order_id_' \in Nat \ {0}
    /\ \A x \in LiveOrders : SameTerms(orders[x], orders'[x])
    /\ \A x \in LiveOrders' :
          /\ orders'[x] \in MEOrder
          /\ orders'[x].client_orderId_ \in OrderBlocks
          /\ orders'[x].market_orderId_ < next_market_order_id_'
    /\ ClientIndexLive'
    /\ \A i : At(i)' = At(i) \ {o}

LEMMA OrdersShrink ==
    ASSUME BookInv, NEW o \in LiveOrders, SameBut(orders, orders'),
           order_pool_' = OrderPool!Returned(order_pool_, o),
           client_orders_' =
              [client_orders_ EXCEPT
                 ![orders[o].clientId_][orders[o].client_orderId_] = Null],
           next_market_order_id_' = next_market_order_id_
    PROVE  Shrinks(o)
<1> DEFINE c  == orders[o].clientId_
           id == orders[o].client_orderId_
<1>1. /\ order_pool_ \in APool(OrderBlocks, MaxOrderIds)
      /\ client_orders_ \in [Clients -> [OrderBlocks -> Pointers(OrderBlocks)]]
      /\ next_market_order_id_ \in Nat \ {0}
      /\ LiveOrders \subseteq OrderBlocks
  BY LiveBlocks DEF BookInv, BookTypes
<1>2. /\ order_pool_' \in APool(OrderBlocks, MaxOrderIds)
      /\ LiveOrders' = LiveOrders \ {o}
  <2>1. o \in OrderBlocks
    BY <1>1
  <2>2. /\ order_pool_' \in APool(OrderBlocks, MaxOrderIds)
        /\ InUse(order_pool_') = InUse(order_pool_) \ {o}
    BY <1>1, <2>1, ReturnedOrder
  <2> QED BY <2>2 DEF LiveOrders
<1>3. /\ orders' \in Heap
      /\ \A x \in OrderBlocks :
            /\ orders[x] \in MEOrder => orders'[x] \in MEOrder
            /\ SameTerms(orders[x], orders'[x])
  BY DEF SameBut
<1>4. \A x \in LiveOrders : SameTerms(orders[x], orders'[x])
  BY <1>1, <1>3
<1>5. ASSUME NEW x \in LiveOrders'
      PROVE  /\ orders'[x] \in MEOrder
             /\ orders'[x].client_orderId_ \in OrderBlocks
             /\ orders'[x].market_orderId_ < next_market_order_id_'
  <2>1. x \in LiveOrders /\ x \in OrderBlocks
    BY <1>1, <1>2
  <2>2. /\ orders[x] \in MEOrder
        /\ orders[x].client_orderId_ \in OrderBlocks
        /\ orders[x].market_orderId_ < next_market_order_id_
    BY <2>1 DEF BookInv, OrdersInv
  <2> QED BY <1>3, <1>4, <2>1, <2>2 DEF SameTerms
<1>6. c \in Clients /\ id \in OrderBlocks
  BY DEF BookInv, OrdersInv, MEOrder
<1> HIDE DEF c, id
<1>7. \A d \in Clients, k \in OrderBlocks :
         client_orders_'[d][k] = IF d = c /\ k = id THEN Null
                                 ELSE client_orders_[d][k]
  BY <1>1, <1>6 DEF c, id
<1>8. client_orders_' \in [Clients -> [OrderBlocks -> Pointers(OrderBlocks)]]
  BY <1>1, <1>6 DEF c, id, Pointers
<1>9. ClientIndexLive'
  <2> SUFFICES ASSUME NEW d \in Clients, NEW k \in OrderBlocks,
                      client_orders_'[d][k] # Null
               PROVE  /\ client_orders_'[d][k] \in LiveOrders'
                      /\ orders'[client_orders_'[d][k]].clientId_ = d
                      /\ orders'[client_orders_'[d][k]].client_orderId_ = k
    BY DEF ClientIndexLive
  <2>1. ~(d = c /\ k = id)
    BY <1>7
  <2>2. /\ client_orders_'[d][k] = client_orders_[d][k]
        /\ client_orders_[d][k] \in LiveOrders
        /\ orders[client_orders_[d][k]].clientId_ = d
        /\ orders[client_orders_[d][k]].client_orderId_ = k
    BY <2>1, <1>7 DEF BookInv, ClientIndexLive
  <2>3. client_orders_[d][k] # o
    BY <2>1, <2>2 DEF c, id
  <2> QED BY <2>2, <2>3, <1>2, <1>4 DEF SameTerms
<1>10. ASSUME NEW i PROVE At(i)' = At(i) \ {o}
  BY <1>2, <1>4 DEF At, SameTerms
<1> QED BY <1>1, <1>2, <1>3, <1>4, <1>5, <1>8, <1>9, <1>10 DEF Shrinks

\* An order leaves a level in which others stay.
LEMMA LeaveKeeps ==
    ASSUME BookInv, NEW o \in LiveOrders, orders[o].prev_order_ # o,
           orders' = Relinked(orders, orders[o].prev_order_,
                              orders[o].next_order_),
           levels' = LET l == price_levels_[priceToIndex(orders[o].price_)]
                     IN  [levels EXCEPT
                            ![l].first_order_ =
                               IF @ = o THEN orders[o].next_order_ ELSE @],
           order_pool_' = OrderPool!Returned(order_pool_, o),
           client_orders_' =
              [client_orders_ EXCEPT
                 ![orders[o].clientId_][orders[o].client_orderId_] = Null],
           UNCHANGED <<next_market_order_id_, price_levels_pool_,
                       price_levels_>>
    PROVE  BookInv' /\ Shrinks(o)
<1> DEFINE i     == priceToIndex(orders[o].price_)
           l     == price_levels_[i]
           prev  == orders[o].prev_order_
           next  == orders[o].next_order_
           first == levels[l].first_order_
           new   == IF first = o THEN next ELSE first
           level == [levels[l] EXCEPT !.first_order_ = new]
<1>1. /\ o \in OrderBlocks
      /\ orders[o] \in MEOrder
      /\ i \in LevelBlocks
      /\ o \in At(i)
      /\ l # Null
      /\ l \in LiveLevels
      /\ levels[l] \in MEOrderAtPriceLevel
      /\ levels[l].next_price_level_ = l
      /\ IsLine(At(i), NextOf, PrevOf, PriorityOf, First(i))
  BY LiveOrderFacts
<1>2. First(i) = first
  BY DEF First
<1>3. /\ orders \in Heap
      /\ levels \in [LevelBlocks -> MEOrderAtPriceLevel \cup {Null}]
      /\ LiveOrders \subseteq OrderBlocks
      /\ LiveLevels \subseteq LevelBlocks
      /\ At(i) \subseteq LiveOrders
      /\ \A x \in LiveOrders : orders[x] \in MEOrder
  BY LiveBlocks DEF BookInv, BookTypes, OrdersInv, At
<1>4. orders' = Relinked(orders, prev, next)
  OBVIOUS
<1>5. levels' = [levels EXCEPT ![l] = level]
  OBVIOUS
<1>6. NextOf[o] = next /\ PrevOf[o] = prev
  BY Lookups
<1> HIDE DEF i, l, prev, next, first
<1>7. /\ prev \in At(i)
      /\ next \in At(i)
      /\ first \in At(i)
      /\ new \in At(i)
  BY <1>1, <1>2, <1>6 DEF IsLine
<1>8. /\ level \in MEOrderAtPriceLevel
      /\ level.first_order_ = new
      /\ level.price_ = levels[l].price_
      /\ level.next_price_level_ = levels[l].next_price_level_
  <2>1. new \in Pointers(OrderBlocks)
    BY <1>3, <1>7 DEF Pointers
  <2> HIDE DEF new
  <2> QED BY <1>1, <2>1 DEF MEOrderAtPriceLevel
<1> HIDE DEF level, new
<1>9. l \in LevelBlocks
  BY <1>1, <1>3
<1>10. /\ levels' \in [LevelBlocks -> MEOrderAtPriceLevel \cup {Null}]
       /\ levels'[l] = level
       /\ \A k \in LevelBlocks : k # l => levels'[k] = levels[k]
  BY <1>3, <1>5, <1>8, <1>9
<1>11. /\ SameBut(orders, orders')
       /\ orders'[prev].next_order_ = next
       /\ orders'[next].prev_order_ = prev
       /\ \A x \in OrderBlocks :
             /\ x # prev => orders'[x].next_order_ = orders[x].next_order_
             /\ x # next => orders'[x].prev_order_ = orders[x].prev_order_
  <2>1. /\ prev \in OrderBlocks
        /\ next \in OrderBlocks
        /\ orders[prev] \in MEOrder
        /\ orders[next] \in MEOrder
    BY <1>3, <1>7
  <2>2. LinksOut(orders, orders', prev, next)
    BY <1>3, <1>4, <2>1, RelinkedEffect
  <2> QED BY <2>2 DEF LinksOut
<1>12. Shrinks(o)
  BY <1>11, OrdersShrink
<1>13. /\ LiveOrders' = LiveOrders \ {o}
       /\ \A x \in LiveOrders : SameTerms(orders[x], orders'[x])
       /\ \A j : At(j)' = At(j) \ {o}
  BY <1>12 DEF Shrinks
<1>14. BookTypes'
  BY <1>10, <1>12 DEF Shrinks, BookInv, BookTypes
<1>15. OrdersInv'
  <2>1. ASSUME NEW x \in LiveOrders'
        PROVE  price_levels_'[priceToIndex(orders'[x].price_)] # Null
    <3>1. x \in LiveOrders /\ orders'[x].price_ = orders[x].price_
      BY <1>13 DEF SameTerms
    <3> QED BY <3>1 DEF BookInv, OrdersInv
  <2> QED BY <1>12, <2>1 DEF Shrinks, OrdersInv
<1>16. LevelsInv'
  <2>1. LiveLevels' = LiveLevels
    BY DEF LiveLevels
  <2>2. ASSUME NEW k \in LiveLevels
        PROVE  /\ levels'[k] \in MEOrderAtPriceLevel
               /\ levels'[k].price_ = levels[k].price_
               /\ levels'[k].next_price_level_ = levels[k].next_price_level_
    <3>1. CASE k = l
      BY <3>1, <1>8, <1>10
    <3>2. CASE k # l
      <4>1. levels'[k] = levels[k]
        BY <3>2, <1>3, <1>10
      <4> QED BY <4>1 DEF BookInv, LevelsInv
    <3> QED BY <3>1, <3>2
  <2>3. ASSUME NEW j \in LevelBlocks, price_levels_'[j] # Null
        PROVE  /\ price_levels_'[j] \in LiveLevels'
               /\ priceToIndex(levels'[price_levels_'[j]].price_) = j
               /\ levels'[price_levels_'[j]].next_price_level_
                     = price_levels_'[j]
    <3>1. /\ price_levels_'[j] = price_levels_[j]
          /\ price_levels_[j] \in LiveLevels
          /\ priceToIndex(levels[price_levels_[j]].price_) = j
          /\ levels[price_levels_[j]].next_price_level_ = price_levels_[j]
      BY <2>3 DEF BookInv, LevelsInv
    <3> QED BY <3>1, <2>1, <2>2
  <2>4. ASSUME NEW k \in LiveLevels'
        PROVE  /\ levels'[k] \in MEOrderAtPriceLevel
               /\ price_levels_'[priceToIndex(levels'[k].price_)] = k
    BY <2>1, <2>2 DEF BookInv, LevelsInv
  <2> QED BY <2>3, <2>4 DEF LevelsInv
<1>17. /\ \A x \in LiveOrders' : /\ NextOf'[x] = orders'[x].next_order_
                                 /\ PrevOf'[x] = orders'[x].prev_order_
                                 /\ PriorityOf'[x] = orders'[x].priority_
  BY DEF NextOf, PrevOf, PriorityOf
<1>18. ASSUME NEW x \in LiveOrders, x # o
       PROVE  /\ PriorityOf'[x] = PriorityOf[x]
              /\ x # prev => NextOf'[x] = NextOf[x]
              /\ x # next => PrevOf'[x] = PrevOf[x]
  <2>1. x \in OrderBlocks /\ x \in LiveOrders'
    BY <1>3, <1>13, <1>18
  <2>2. orders'[x].priority_ = orders[x].priority_
    BY <1>13 DEF SameTerms
  <2>3. /\ NextOf'[x] = orders'[x].next_order_
        /\ PrevOf'[x] = orders'[x].prev_order_
        /\ PriorityOf'[x] = orders'[x].priority_
    BY <2>1, <1>17
  <2>4. /\ NextOf[x] = orders[x].next_order_
        /\ PrevOf[x] = orders[x].prev_order_
        /\ PriorityOf[x] = orders[x].priority_
    BY Lookups
  <2>5. /\ x # prev => orders'[x].next_order_ = orders[x].next_order_
        /\ x # next => orders'[x].prev_order_ = orders[x].prev_order_
    BY <2>1, <1>11
  <2> QED BY <2>2, <2>3, <2>4, <2>5
<1>19. IsLine(At(i) \ {o}, NextOf', PrevOf', PriorityOf', new)
  <2>1. prev # o /\ next # o
    <3>1. prev # o
      BY DEF prev
    <3>2. PrevOf[next] = o
      BY <1>1, <1>6 DEF IsLine
    <3> QED BY <3>1, <3>2, <1>6
  <2>2. /\ NextOf'[prev] = next
        /\ PrevOf'[next] = prev
    <3>1. prev \in LiveOrders' /\ next \in LiveOrders'
      BY <2>1, <1>3, <1>7, <1>13
    <3> QED BY <3>1, <1>11, <1>17
  <2>3. \A x \in At(i) \ {o} :
           /\ PriorityOf'[x] = PriorityOf[x]
           /\ x # prev => NextOf'[x] = NextOf[x]
           /\ x # next => PrevOf'[x] = PrevOf[x]
    BY <1>3, <1>18
  <2>4. new = IF First(i) = o THEN NextOf[o] ELSE First(i)
    BY <1>2, <1>6 DEF new
  <2>5. PrevOf[o] # o
    BY <2>1, <1>6
  <2>6. /\ NextOf'[PrevOf[o]] = NextOf[o]
        /\ PrevOf'[NextOf[o]] = PrevOf[o]
        /\ \A x \in At(i) \ {o} :
              /\ PriorityOf'[x] = PriorityOf[x]
              /\ x # PrevOf[o] => NextOf'[x] = NextOf[x]
              /\ x # NextOf[o] => PrevOf'[x] = PrevOf[x]
    BY <1>6, <2>2, <2>3
  <2>7. PassesOver(At(i), NextOf, PrevOf, PriorityOf, First(i), o, NextOf',
                   PrevOf', PriorityOf', new)
    BY <2>4, <2>6 DEF PassesOver
  <2> QED BY <1>1, <2>5, <2>7, LineShrinks
<1>20. LineInv'
  <2> SUFFICES ASSUME NEW j \in LevelBlocks, price_levels_'[j] # Null
               PROVE  IsLine(At(j)', NextOf', PrevOf', PriorityOf', First(j)')
    BY DEF LineInv
  <2>1. /\ First(j)' = levels'[price_levels_[j]].first_order_
        /\ First(j) = levels[price_levels_[j]].first_order_
        /\ At(j)' = At(j) \ {o}
        /\ price_levels_[j] # Null
    BY <1>13 DEF First
  <2>2. CASE j = i
    <3>1. First(j)' = new
      BY <2>1, <2>2, <1>8, <1>10 DEF l
    <3> QED BY <1>19, <2>1, <2>2, <3>1
  <2>3. CASE j # i
    <3>1. o \notin At(j)
      BY <1>1, <2>3 DEF At
    <3>2. At(j)' = At(j)
      BY <2>1, <3>1
    <3>3. IsLine(At(j), NextOf, PrevOf, PriorityOf, First(j))
      BY <2>1 DEF BookInv, LineInv
    <3>4. First(j)' = First(j)
      <4>1. /\ price_levels_[j] \in LiveLevels
            /\ priceToIndex(levels[price_levels_[j]].price_) = j
            /\ priceToIndex(levels[l].price_) = i
        BY <2>1, <1>1 DEF BookInv, LevelsInv, l
      <4>2. price_levels_[j] # l /\ price_levels_[j] \in LevelBlocks
        BY <4>1, <2>3, <1>3
      <4> QED BY <2>1, <4>2, <1>10
    <3>5. ASSUME NEW x \in At(j)
          PROVE  /\ NextOf'[x] = NextOf[x]
                 /\ PrevOf'[x] = PrevOf[x]
                 /\ PriorityOf'[x] = PriorityOf[x]
      <4>1. x \in LiveOrders /\ x \notin At(i) /\ x # o
        BY <2>3, <3>1 DEF At
      <4>2. x # prev /\ x # next
        BY <4>1, <1>7
      <4> QED BY <4>1, <4>2, <1>18
    <3> QED BY <3>2, <3>3, <3>4, <3>5, LineSame
  <2> QED BY <2>2, <2>3
<1> QED BY <1>12, <1>14, <1>15, <1>16, <1>20 DEF Shrinks, BookInv

\* The last order of a level takes the level with it.
LEMMA EndKeeps ==
    ASSUME BookInv, NEW o \in LiveOrders, orders[o].prev_order_ = o,
           UNCHANGED <<orders, levels, next_market_order_id_>>,
           order_pool_' = OrderPool!Returned(order_pool_, o),
           client_orders_' =
              [client_orders_ EXCEPT
                 ![orders[o].clientId_][orders[o].client_orderId_] = Null],
           price_levels_pool_' =
              LevelPool!Returned(price_levels_pool_,
                                 price_levels_[priceToIndex(orders[o].price_)]),
           price_levels_' = [price_levels_ EXCEPT
                               ![priceToIndex(orders[o].price_)] = Null]
    PROVE  BookInv' /\ Shrinks(o)
<1> DEFINE i == priceToIndex(orders[o].price_)
           l == price_levels_[i]
<1>1. /\ o \in OrderBlocks
      /\ orders[o] \in MEOrder
      /\ i \in LevelBlocks
      /\ o \in At(i)
      /\ l # Null
      /\ l \in LiveLevels
      /\ IsLine(At(i), NextOf, PrevOf, PriorityOf, First(i))
  BY LiveOrderFacts
<1>2. /\ orders \in Heap
      /\ price_levels_ \in [LevelBlocks -> Pointers(LevelBlocks)]
      /\ price_levels_pool_ \in APool(LevelBlocks, MaxPriceLevels)
      /\ LiveLevels \subseteq LevelBlocks
  BY LiveBlocks DEF BookInv, BookTypes
<1>3. At(i) = {o}
  <2>1. PrevOf[o] = o
    BY Lookups
  <2> QED BY <1>1, <2>1, AloneInLine
<1>4. priceToIndex(levels[l].price_) = i
  BY <1>1 DEF BookInv, LevelsInv
<1> HIDE DEF l
<1>5. /\ price_levels_pool_' \in APool(LevelBlocks, MaxPriceLevels)
      /\ LiveLevels' = LiveLevels \ {l}
  <2>1. l \in LevelBlocks
    BY <1>1, <1>2
  <2>2. /\ price_levels_pool_' \in APool(LevelBlocks, MaxPriceLevels)
        /\ InUse(price_levels_pool_') = InUse(price_levels_pool_) \ {l}
    BY <1>2, <2>1, ReturnedLevel DEF l
  <2> QED BY <2>2 DEF LiveLevels
<1>6. /\ price_levels_' \in [LevelBlocks -> Pointers(LevelBlocks)]
      /\ price_levels_'[i] = Null
      /\ \A j \in LevelBlocks : j # i => price_levels_'[j] = price_levels_[j]
  BY <1>1, <1>2 DEF Pointers
<1>7. Shrinks(o)
  <2>1. SameBut(orders, orders')
    BY <1>2 DEF SameBut, SameTerms
  <2> QED BY <2>1, OrdersShrink
<1> HIDE DEF i
<1>8. LiveOrders' = LiveOrders \ {o} /\ \A j : At(j)' = At(j) \ {o}
  BY <1>7 DEF Shrinks
<1>9. BookTypes'
  BY <1>5, <1>6, <1>7 DEF Shrinks, BookInv, BookTypes
<1>10. OrdersInv'
  <2>1. ASSUME NEW x \in LiveOrders'
        PROVE  price_levels_'[priceToIndex(orders'[x].price_)] # Null
    <3>1. x \in LiveOrders /\ x # o
      BY <1>8
    <3>2. /\ priceToIndex(orders[x].price_) \in LevelBlocks
          /\ x \in At(priceToIndex(orders[x].price_))
          /\ price_levels_[priceToIndex(orders[x].price_)] # Null
      BY <3>1, LiveOrderFacts
    <3>3. priceToIndex(orders[x].price_) # i
      BY <3>1, <3>2, <1>3
    <3> QED BY <3>2, <3>3, <1>6
  <2> QED BY <1>7, <2>1 DEF Shrinks, OrdersInv
<1>11. LevelsInv'
  <2>1. ASSUME NEW j \in LevelBlocks, price_levels_'[j] # Null
        PROVE  /\ price_levels_'[j] \in LiveLevels'
               /\ priceToIndex(levels'[price_levels_'[j]].price_) = j
               /\ levels'[price_levels_'[j]].next_price_level_
                     = price_levels_'[j]
    <3>1. j # i /\ price_levels_'[j] = price_levels_[j]
      BY <2>1, <1>6
    <3>2. /\ price_levels_[j] \in LiveLevels
          /\ priceToIndex(levels[price_levels_[j]].price_) = j
          /\ levels[price_levels_[j]].next_price_level_ = price_levels_[j]
      BY <2>1, <3>1 DEF BookInv, LevelsInv
    <3> QED BY <3>1, <3>2, <1>4, <1>5
  <2>2. ASSUME NEW k \in LiveLevels'
        PROVE  /\ levels'[k] \in MEOrderAtPriceLevel
               /\ price_levels_'[priceToIndex(levels'[k].price_)] = k
    <3>1. k \in LiveLevels /\ k # l
      BY <1>5
    <3>2. /\ levels[k] \in MEOrderAtPriceLevel
          /\ price_levels_[priceToIndex(levels[k].price_)] = k
      BY <3>1 DEF BookInv, LevelsInv
    <3>3. priceToIndex(levels[k].price_) \in LevelBlocks
      <4>1. levels[k].price_ \in Prices
        BY <3>2 DEF MEOrderAtPriceLevel
      <4> QED BY <4>1, PriceIndex
    <3>4. priceToIndex(levels[k].price_) # i
      BY <3>1, <3>2 DEF l
    <3> QED BY <3>2, <3>3, <3>4, <1>6
  <2> QED BY <2>1, <2>2 DEF LevelsInv
<1>12. LineInv'
  <2> SUFFICES ASSUME NEW j \in LevelBlocks, price_levels_'[j] # Null
               PROVE  IsLine(At(j)', NextOf', PrevOf', PriorityOf', First(j)')
    BY DEF LineInv
  <2>1. j # i /\ price_levels_'[j] = price_levels_[j] /\ price_levels_[j] # Null
    BY <1>6
  <2>2. IsLine(At(j), NextOf, PrevOf, PriorityOf, First(j))
    BY <2>1 DEF BookInv, LineInv
  <2>3. First(j)' = First(j)
    BY <2>1 DEF First
  <2>4. o \notin At(j)
    BY <1>1, <2>1 DEF At
  <2>5. At(j)' = At(j)
    BY <1>8, <2>4
  <2>6. ASSUME NEW x \in At(j)
        PROVE  /\ NextOf'[x] = NextOf[x]
               /\ PrevOf'[x] = PrevOf[x]
               /\ PriorityOf'[x] = PriorityOf[x]
    <3>1. x \in LiveOrders /\ x \in LiveOrders'
      BY <1>8, <2>4 DEF At
    <3> QED BY <3>1 DEF NextOf, PrevOf, PriorityOf
  <2> QED BY <2>2, <2>3, <2>5, <2>6, LineSame
<1> QED BY <1>7, <1>9, <1>10, <1>11, <1>12 DEF Shrinks, BookInv

-----------------------------------------------------------------------------
(* The requests.                                                           *)

\* order comes to rest in block o.
Rests(o, order) ==
    /\ order \in MEOrder
    /\ order.market_orderId_ = next_market_order_id_
    /\ next_market_order_id_ <= MaxRequests
    /\ \A x \in At(priceToIndex(order.price_)) :
          orders[x].priority_ < order.priority_
    /\ Grows(o, order)
    /\ client_orders_' =
          [client_orders_ EXCEPT
             ![order.clientId_][order.client_orderId_] = o]
    /\ updates' = <<Announcement(order)>>
    /\ responses' =
          <<Response("ACCEPTED", order.clientId_, order.client_orderId_,
                     order.market_orderId_, order.side_, order.price_, 0,
                     order.qty_)>>

\* The order in block o is canceled.
Departs(o) ==
    /\ o \in LiveOrders
    /\ Shrinks(o)
    /\ \E c \in Clients, id \in OrderBlocks : o = client_orders_[c][id]
    /\ client_orders_' =
          [client_orders_ EXCEPT
             ![orders[o].clientId_][orders[o].client_orderId_] = Null]
    /\ \E u : updates' = <<u>> /\ u.type = "CANCEL"

\* The orders stay as they are.
Stays ==
    /\ UNCHANGED <<orders, order_pool_, levels, price_levels_pool_,
                   price_levels_, client_orders_>>
    /\ \/ next_market_order_id_' = next_market_order_id_
       \/ next_market_order_id_' = next_market_order_id_ + 1
    /\ NoAdds(updates') \/ UNCHANGED vars

LEMMA BookUsable ==
    ASSUME BookInv, HeadsNeverSet
    PROVE  Usable(Book) /\ Book.responses = << >> /\ Book.updates = << >>
  BY DEF BookInv, BookTypes, HeadsNeverSet, Usable, IsBook, Book, Heap, APool

LEMMA StaysKeeps ==
    ASSUME BookInv, Stays
    PROVE  BookInv'
<1>1. /\ UNCHANGED <<orders, order_pool_, levels, price_levels_pool_,
                     price_levels_, client_orders_>>
      /\ next_market_order_id_ \in Nat \ {0}
      /\ next_market_order_id_' \in Nat \ {0}
      /\ next_market_order_id_ <= next_market_order_id_'
  BY DEF Stays, BookInv, BookTypes
<1>2. LiveOrders' = LiveOrders /\ LiveLevels' = LiveLevels
  BY <1>1 DEF LiveOrders, LiveLevels
<1>3. BookTypes'
  BY <1>1 DEF BookInv, BookTypes
<1>4. OrdersInv'
  <2>1. \A o \in LiveOrders : orders[o].market_orderId_ \in Nat
    BY DEF BookInv, OrdersInv, MEOrder
  <2> QED BY <1>1, <1>2, <2>1 DEF BookInv, OrdersInv
<1>5. LevelsInv'
  BY <1>1, <1>2 DEF BookInv, LevelsInv
<1>6. LineInv'
  <2>1. /\ NextOf' = NextOf
        /\ PrevOf' = PrevOf
        /\ PriorityOf' = PriorityOf
    BY <1>1, <1>2 DEF NextOf, PrevOf, PriorityOf
  <2>2. \A i \in LevelBlocks : At(i)' = At(i) /\ First(i)' = First(i)
    BY <1>1, <1>2 DEF At, First
  <2> QED BY <1>1, <2>1, <2>2 DEF BookInv, LineInv
<1>7. ClientIndexLive'
  BY <1>1, <1>2 DEF BookInv, ClientIndexLive
<1> QED BY <1>3, <1>4, <1>5, <1>6, <1>7 DEF BookInv

\* A request that ends the process leaves the book alone.
LEMMA FailStays ==
    ASSUME NEW s, Step(s), ~Running(s), NoAdds(s.updates)
    PROVE  Stays
  BY DEF Step, Running, Stays

LEMMA NewRequestCases ==
    ASSUME BookInv, HeadsNeverSet, NEW c \in Clients, NEW id \in OrderIds,
           NEW side \in Sides, NEW price \in Prices, NEW qty \in Qtys,
           NEW fault \in BOOLEAN, NewRequest(c, id, side, price, qty, fault)
    PROVE  /\ BookInv'
           /\ Stays \/ \E o, order : Rests(o, order)
<1> DEFINE t     == add(Book, c, id, side, price, qty, fault)
           order == OrderFor(Book, c, id, side, price, qty)
           o     == order_pool_.next_free_index_
           i     == priceToIndex(price)
<1>1. /\ Step(t)
      /\ next_market_order_id_ <= MaxRequests
      /\ process = "running"
  BY DEF NewRequest
<1>f. Running(t) \/ NoAdds(t.updates)
  BY <1>1, BookInert, AddInert
<1> HIDE DEF t
<1>2. CASE ~Running(t)
  BY <1>1, <1>2, <1>f, FailStays, StaysKeeps
<1>3. CASE Running(t)
  <2>1. /\ orders' = t.orders
        /\ order_pool_' = t.order_pool_
        /\ levels' = t.levels
        /\ price_levels_pool_' = t.price_levels_pool_
        /\ price_levels_' = t.price_levels_
        /\ client_orders_' = t.client_orders_
        /\ next_market_order_id_' = t.next_market_order_id_
        /\ responses' = t.responses
        /\ updates' = t.updates
    BY <1>1, <1>3 DEF Step, Becomes
  <2>2. /\ Book.orders = orders
        /\ Book.order_pool_ = order_pool_
        /\ Book.levels = levels
        /\ Book.price_levels_pool_ = price_levels_pool_
        /\ Book.price_levels_ = price_levels_
        /\ Book.client_orders_ = client_orders_
        /\ Book.next_market_order_id_ = next_market_order_id_
    BY DEF Book
  <2>3. /\ order \in MEOrder
        /\ order.clientId_ = c
        /\ order.client_orderId_ = id
        /\ order.price_ = price
        /\ order.market_orderId_ = next_market_order_id_
        /\ order.priority_ \in Nat
        /\ price_levels_[i] # Null =>
              order.priority_ =
                 orders[orders[First(i)].prev_order_].priority_ + 1
    BY RequestTyped
  <2> HIDE DEF order
  <2>4. Adds(Book, t, order)
    BY <1>3, <2>3, BookUsable, AddEffect DEF t, order
  <2>5. /\ next_market_order_id_' = next_market_order_id_ + 1
        /\ responses' =
              <<Response("ACCEPTED", order.clientId_, order.client_orderId_,
                         order.market_orderId_, order.side_, order.price_, 0,
                         order.qty_)>>
        /\ \/ /\ updates' = << >>
              /\ UNCHANGED <<orders, order_pool_, levels, price_levels_pool_,
                             price_levels_, client_orders_>>
           \/ /\ o \in OrderBlocks
              /\ order_pool_.is_free_[o]
              /\ order.client_orderId_ \in OrderBlocks
              /\ updates' = <<Announcement(order)>>
              /\ order_pool_' = OrderPool!Taken(order_pool_)
              /\ client_orders_' =
                    [client_orders_ EXCEPT
                       ![order.clientId_][order.client_orderId_] = o]
              /\ Joins(Book, t, order, o) \/ Starts(Book, t, order, o)
    BY <2>1, <2>2, <2>4 DEF Adds, SameOrders, SameLevels
  <2>6. CASE /\ updates' = << >>
             /\ UNCHANGED <<orders, order_pool_, levels, price_levels_pool_,
                            price_levels_, client_orders_>>
    <3>1. Stays
      BY <2>5, <2>6 DEF Stays, NoAdds, Elements
    <3> QED BY <3>1, StaysKeeps
  <2>7. CASE /\ o \in OrderBlocks
             /\ order_pool_.is_free_[o]
             /\ order.client_orderId_ \in OrderBlocks
             /\ updates' = <<Announcement(order)>>
             /\ order_pool_' = OrderPool!Taken(order_pool_)
             /\ client_orders_' =
                   [client_orders_ EXCEPT
                      ![order.clientId_][order.client_orderId_] = o]
             /\ Joins(Book, t, order, o) \/ Starts(Book, t, order, o)
    <3>1. CASE Joins(Book, t, order, o)
      <4>1. /\ price_levels_[i] # Null
            /\ orders' = LET heap == [orders EXCEPT ![o] = order]
                         IN  Linked(heap, o, First(i),
                                    heap[First(i)].prev_order_)
            /\ UNCHANGED <<levels, price_levels_pool_, price_levels_>>
        BY <3>1, <2>1, <2>2, <2>3 DEF Joins, SameLevels, First
      <4>2. BookInv' /\ Grows(o, order)
        BY <2>3, <2>5, <2>7, <4>1, JoinKeeps
      <4>3. \A x \in At(i) : orders[x].priority_ < order.priority_
        <5>1. i \in LevelBlocks
          BY PriceIndex
        <5>2. /\ IsLine(At(i), NextOf, PrevOf, PriorityOf, First(i))
              /\ orders[orders[First(i)].prev_order_].priority_
                    = PriorityOf[PrevOf[First(i)]]
          BY <4>1, <5>1, LevelFacts
        <5>3. /\ PriorityOf[PrevOf[First(i)]] \in Nat
              /\ \A x \in At(i) : PriorityOf[x] <= PriorityOf[PrevOf[First(i)]]
              /\ \A x \in At(i) : PriorityOf[x] \in Nat
          BY <5>2, LastInLine DEF IsLine
        <5>4. \A x \in At(i) : PriorityOf[x] = orders[x].priority_
          BY Lookups DEF At
        <5>5. order.priority_ = PriorityOf[PrevOf[First(i)]] + 1
          BY <2>3, <4>1, <5>2
        <5> QED BY <5>3, <5>4, <5>5
      <4>4. Rests(o, order)
        BY <1>1, <2>3, <2>5, <2>7, <4>2, <4>3 DEF Rests
      <4> QED BY <4>2, <4>4
    <3>2. CASE Starts(Book, t, order, o)
      <4> DEFINE b == price_levels_pool_.next_free_index_
      <4>1. /\ price_levels_[i] = Null
            /\ b \in LevelBlocks
            /\ price_levels_pool_.is_free_[b]
            /\ orders' = Alone([orders EXCEPT ![o] = order], o)
            /\ levels' = [levels EXCEPT ![b] = LevelFor(order, o, b)]
            /\ price_levels_pool_' = LevelPool!Taken(price_levels_pool_)
            /\ price_levels_' = [price_levels_ EXCEPT ![i] = b]
        BY <3>2, <2>1, <2>2, <2>3 DEF Starts
      <4>2. BookInv' /\ Grows(o, order)
        BY <2>3, <2>5, <2>7, <4>1, StartKeeps
      <4>3. \A x \in At(i) : orders[x].priority_ < order.priority_
        BY <4>1 DEF At, BookInv, OrdersInv
      <4>4. Rests(o, order)
        BY <1>1, <2>3, <2>5, <2>7, <4>2, <4>3 DEF Rests
      <4> QED BY <4>2, <4>4
    <3> QED BY <2>7, <3>1, <3>2
  <2> QED BY <2>5, <2>6, <2>7
<1> QED BY <1>2, <1>3

LEMMA CancelRequestCases ==
    ASSUME BookInv, HeadsNeverSet, NEW c \in Clients, NEW id \in OrderIds,
           NEW fault \in BOOLEAN, CancelRequest(c, id, fault)
    PROVE  /\ BookInv'
           /\ Stays \/ \E o : Departs(o)
<1> DEFINE t == cancel(Book, c, id, fault)
           o == client_orders_[c][id]
           l == price_levels_[priceToIndex(orders[o].price_)]
<1>1. Step(t) /\ process = "running"
  BY DEF CancelRequest
<1>f. NoAdds(t.updates)
  BY <1>1, BookInert, CancelInert
<1> HIDE DEF t
<1>2. CASE ~Running(t)
  BY <1>1, <1>2, <1>f, FailStays, StaysKeeps
<1>3. CASE Running(t)
  <2>1. /\ orders' = t.orders
        /\ order_pool_' = t.order_pool_
        /\ levels' = t.levels
        /\ price_levels_pool_' = t.price_levels_pool_
        /\ price_levels_' = t.price_levels_
        /\ client_orders_' = t.client_orders_
        /\ next_market_order_id_' = t.next_market_order_id_
        /\ updates' = t.updates
    BY <1>1, <1>3 DEF Step, Becomes
  <2>2. /\ Book.orders = orders
        /\ Book.order_pool_ = order_pool_
        /\ Book.levels = levels
        /\ Book.price_levels_pool_ = price_levels_pool_
        /\ Book.price_levels_ = price_levels_
        /\ Book.client_orders_ = client_orders_
        /\ Book.next_market_order_id_ = next_market_order_id_
    BY DEF Book
  <2>3. IsBook(Book) /\ Book.updates = << >>
    BY BookUsable DEF Usable
  <2>4. c \in DOMAIN Book.client_orders_
    BY <2>2 DEF BookInv, BookTypes
  <2>5. id \in OrderBlocks /\ o # Null => o \in LiveOrders
    BY DEF BookInv, ClientIndexLive
  <2>6. id \in OrderBlocks /\ o # Null => levels[l].next_price_level_ = l
    <3> HIDE DEF o
    <3> QED BY <2>5, LiveOrderFacts
  <2>7. Cancels(Book, t, c, id)
    <3>1. LET ob == Book.client_orders_[c][id]
              lv == Book.price_levels_[priceToIndex(Book.orders[ob].price_)]
          IN  id \in OrderBlocks /\ ob # Null
                 => Book.levels[lv].next_price_level_ = lv
      BY <2>2, <2>6
    <3> QED BY <1>3, <2>3, <2>4, <3>1, CancelEffect DEF t
  <2>8. next_market_order_id_' = next_market_order_id_
    BY <2>1, <2>2, <2>7 DEF Cancels
  <2>9. CASE /\ UNCHANGED <<orders, order_pool_, levels, price_levels_pool_,
                            price_levels_, client_orders_>>
             /\ updates' = << >>
    <3>1. Stays
      BY <2>8, <2>9 DEF Stays, NoAdds, Elements
    <3> QED BY <3>1, StaysKeeps
  <2>10. CASE /\ id \in OrderBlocks
              /\ o # Null
              /\ \E u : updates' = <<u>> /\ u.type = "CANCEL"
              /\ order_pool_' = OrderPool!Returned(order_pool_, o)
              /\ client_orders_' =
                    [client_orders_ EXCEPT
                       ![orders[o].clientId_][orders[o].client_orderId_]
                          = Null]
              /\ Leaves(Book, t, o) \/ Ends(Book, t, o)
    <3>1. o \in LiveOrders
      BY <2>5, <2>10
    <3>2. ASSUME Leaves(Book, t, o)
          PROVE  BookInv' /\ Shrinks(o)
      <4>1. /\ orders[o].prev_order_ # o
            /\ orders' = Relinked(orders, orders[o].prev_order_,
                                  orders[o].next_order_)
            /\ levels' = [levels EXCEPT
                            ![l].first_order_ =
                               IF @ = o THEN orders[o].next_order_ ELSE @]
            /\ UNCHANGED <<price_levels_pool_, price_levels_>>
        BY <3>2, <2>1, <2>2 DEF Leaves
      <4> HIDE DEF o
      <4> QED BY <2>8, <2>10, <3>1, <4>1, LeaveKeeps
    <3>3. ASSUME Ends(Book, t, o)
          PROVE  BookInv' /\ Shrinks(o)
      <4>1. /\ orders[o].prev_order_ = o
            /\ UNCHANGED <<orders, levels>>
            /\ price_levels_pool_' = LevelPool!Returned(price_levels_pool_, l)
            /\ price_levels_' = [price_levels_ EXCEPT
                                   ![priceToIndex(orders[o].price_)] = Null]
        BY <3>3, <2>1, <2>2 DEF Ends
      <4> HIDE DEF o
      <4> QED BY <2>8, <2>10, <3>1, <4>1, EndKeeps
    <3>4. BookInv' /\ Shrinks(o)
      BY <2>10, <3>2, <3>3
    <3>5. Departs(o)
      BY <2>10, <3>1, <3>4 DEF Departs
    <3> QED BY <3>4, <3>5
  <2> QED BY <2>1, <2>2, <2>7, <2>9, <2>10 DEF Cancels, SameOrders, SameLevels
<1> QED BY <1>2, <1>3

LEMMA StepCases ==
    ASSUME BookInv, HeadsNeverSet, [Next]_vars
    PROVE  /\ BookInv'
           /\ \/ Stays
              \/ \E o, order : Rests(o, order)
              \/ \E o : Departs(o)
<1>1. ASSUME NEW c \in Clients, NEW id \in OrderIds, NEW side \in Sides,
             NEW price \in Prices, NEW qty \in Qtys, NEW fault \in BOOLEAN,
             NewRequest(c, id, side, price, qty, fault)
      PROVE  BookInv' /\ (Stays \/ \E o, order : Rests(o, order))
  BY <1>1, NewRequestCases
<1>2. ASSUME NEW c \in Clients, NEW id \in OrderIds, NEW fault \in BOOLEAN,
             CancelRequest(c, id, fault)
      PROVE  BookInv' /\ (Stays \/ \E o : Departs(o))
  BY <1>2, CancelRequestCases
<1>3. CASE InvalidRequest
  <2>1. ~Running(Terminated(Book))
    BY DEF Running, Terminated, Book
  <2>2. NoAdds(Terminated(Book).updates)
    BY DEF Terminated, Book, NoAdds, Elements
  <2>3. Stays
    BY <1>3, <2>1, <2>2, FailStays DEF InvalidRequest
  <2> QED BY <2>3, StaysKeeps
<1>4. CASE UNCHANGED vars
  <2>1. Stays
    BY <1>4 DEF Stays, vars
  <2> QED BY <2>1, StaysKeeps
<1> QED BY <1>1, <1>2, <1>3, <1>4 DEF Next

LEMMA BookStarts == Init => BookInv
<1> SUFFICES ASSUME Init PROVE BookInv
  OBVIOUS
<1>1. /\ orders = [b \in OrderBlocks |-> Null]
      /\ levels = [b \in LevelBlocks |-> Null]
      /\ price_levels_ = [i \in LevelBlocks |-> Null]
      /\ client_orders_ = [c \in Clients |-> [o \in OrderBlocks |-> Null]]
      /\ next_market_order_id_ = 1
  BY DEF Init
<1>2. /\ order_pool_ = [is_free_ |-> [b \in OrderBlocks |-> TRUE],
                        next_free_index_ |-> 0]
      /\ price_levels_pool_ = [is_free_ |-> [b \in LevelBlocks |-> TRUE],
                               next_free_index_ |-> 0]
  BY DEF Init, OrderPool!EmptyPool, LevelPool!EmptyPool, OrderPool!Blocks,
         LevelPool!Blocks, OrderBlocks, LevelBlocks
<1>3. LiveOrders = {} /\ LiveLevels = {}
  BY <1>2 DEF LiveOrders, LiveLevels, InUse
<1>4. /\ order_pool_ \in APool(OrderBlocks, MaxOrderIds)
      /\ price_levels_pool_ \in APool(LevelBlocks, MaxPriceLevels)
  BY <1>2, MaxOrderIdsAssumption, MaxPriceLevelsAssumption DEF APool
<1>5. BookTypes
  BY <1>1, <1>4 DEF BookTypes, Heap, Pointers
<1>6. OrdersInv /\ LevelsInv /\ LineInv /\ ClientIndexLive
  BY <1>1, <1>3 DEF OrdersInv, LevelsInv, LineInv, ClientIndexLive
<1> QED BY <1>5, <1>6 DEF BookInv

\* The book's pointers keep their shape through every sequence of requests
\* (MEOrderBook::add() and MEOrderBook::cancel()).
THEOREM BookInvariant == Spec => []BookInv
<1>1. Init => BookInv
  BY BookStarts
<1>2. BookInv /\ HeadsNeverSet /\ [Next]_vars => BookInv'
  BY StepCases
<1> QED BY <1>1, <1>2, BookNeverTrades, PTL DEF Spec


\* Type correctness of the book.
THEOREM TypeCorrect == Spec => []TypeOK
<1>1. BookInv /\ HeadsNeverSet /\ process \in Fates => TypeOK
  <2> SUFFICES ASSUME BookInv, HeadsNeverSet, process \in Fates PROVE TypeOK
    OBVIOUS
  <2>1. LiveOrders \subseteq OrderBlocks /\ LiveLevels \subseteq LevelBlocks
    BY LiveBlocks DEF BookInv
  <2>2. OrderPool!PoolTypeOK
    <3>1. order_pool_.next_free_index_ \in Nat
      BY MaxOrderIdsAssumption DEF BookInv, BookTypes, APool
    <3> QED BY <2>1, <3>1 DEF BookInv, BookTypes, APool, OrderPool!PoolTypeOK,
                OrderPool!Blocks, OrderBlocks, Fates
  <2>3. LevelPool!PoolTypeOK
    <3>1. price_levels_pool_.next_free_index_ \in Nat
      BY MaxPriceLevelsAssumption DEF BookInv, BookTypes, APool
    <3> QED BY <2>1, <3>1 DEF BookInv, BookTypes, APool, LevelPool!PoolTypeOK,
                LevelPool!Blocks, LevelBlocks, Fates
  <2> QED BY <2>2, <2>3 DEF TypeOK, BookInv, BookTypes, Heap, HeadsNeverSet,
                            Pointers
<1>2. HeadsNeverSet /\ process \in Fates /\ [Next]_vars
        => HeadsNeverSet' /\ (process \in Fates)'
  BY NextInert
<1> QED BY <1>1, <1>2, HeadsStartUnset, BookInvariant, PTL DEF Spec

\* A pointer in client_orders_ is never stale, whatever is reused, canceled or
\* sent twice: cancel() finds an order in use that belongs to its client.
THEOREM IndexNeverStale == Spec => []ClientIndexLive
<1>1. BookInv => ClientIndexLive
  BY DEF BookInv
<1> QED BY <1>1, BookInvariant, PTL

LEMMA CancelableStep ==
    ASSUME BookInv, HeadsNeverSet, [Next]_vars, NEW o \in LiveOrders',
           NEW c, NEW id, c = orders'[o].clientId_,
           id = orders'[o].client_orderId_
    PROVE  \/ client_orders_'[c][id] = o
           \/ /\ o \in LiveOrders
              /\ \/ client_orders_[c][id] # o
                 \/ \E r \in Elements(responses') :
                       /\ r.type = "ACCEPTED"
                       /\ r.clientId_ = c
                       /\ r.client_order_id_ = id
<1>1. CASE Stays
  BY <1>1 DEF Stays, LiveOrders
<1>2. ASSUME NEW x, NEW order, Rests(x, order)
      PROVE  \/ client_orders_'[c][id] = o
             \/ /\ o \in LiveOrders
                /\ \/ client_orders_[c][id] # o
                   \/ \E r \in Elements(responses') :
                         /\ r.type = "ACCEPTED"
                         /\ r.clientId_ = c
                         /\ r.client_order_id_ = id
  <2> DEFINE d == order.clientId_
             k == order.client_orderId_
             reply == Response("ACCEPTED", d, k, order.market_orderId_,
                               order.side_, order.price_, 0, order.qty_)
  <2>1. /\ o \in LiveOrders \/ o = x
        /\ SameTerms(order, orders'[x])
        /\ orders'[x] \in MEOrder
        /\ orders'[x].client_orderId_ \in OrderBlocks
        /\ orders'[o] \in MEOrder
        /\ orders'[o].client_orderId_ \in OrderBlocks
        /\ client_orders_' = [client_orders_ EXCEPT ![d][k] = x]
        /\ responses' = <<reply>>
    BY <1>2 DEF Rests, Grows
  <2>2. /\ c \in Clients
        /\ id \in OrderBlocks
        /\ d \in Clients
        /\ k \in OrderBlocks
    BY <2>1 DEF MEOrder, SameTerms
  <2>3. client_orders_ \in [Clients -> [OrderBlocks -> Pointers(OrderBlocks)]]
    BY DEF BookInv, BookTypes
  <2>4. /\ reply.type = "ACCEPTED"
        /\ reply.clientId_ = d
        /\ reply.client_order_id_ = k
    BY DEF Response
  <2>5. reply \in Elements(responses')
    <3> HIDE DEF reply
    <3> QED BY <2>1 DEF Elements
  <2> HIDE DEF d, k, reply
  <2>6. CASE o = x
    <3>1. c = d /\ id = k
      BY <2>1, <2>6 DEF SameTerms, d, k
    <3> QED BY <2>1, <2>2, <2>3, <2>6, <3>1
  <2>7. CASE o # x /\ c = d /\ id = k
    BY <2>1, <2>4, <2>5, <2>7
  <2>8. CASE ~(c = d /\ id = k)
    <3>1. client_orders_'[c][id] = client_orders_[c][id]
      BY <2>1, <2>2, <2>3, <2>8
    <3>2. o \in LiveOrders \/ o = x
      BY <2>1
    <3> QED BY <2>6, <3>1, <3>2
  <2> QED BY <2>6, <2>7, <2>8
<1>3. ASSUME NEW x, Departs(x)
      PROVE  \/ client_orders_'[c][id] = o
             \/ o \in LiveOrders /\ client_orders_[c][id] # o
  <2> DEFINE d == orders[x].clientId_
             k == orders[x].client_orderId_
  <2>1. /\ o \in LiveOrders
        /\ o # x
        /\ orders'[o] \in MEOrder
        /\ id \in OrderBlocks
        /\ client_orders_' = [client_orders_ EXCEPT ![d][k] = Null]
        /\ x \in LiveOrders
        /\ \E e \in Clients, m \in OrderBlocks : x = client_orders_[e][m]
    BY <1>3 DEF Departs, Shrinks
  <2>2. /\ c \in Clients
        /\ d \in Clients
        /\ k \in OrderBlocks
    BY <2>1 DEF MEOrder, BookInv, OrdersInv
  <2>3. client_orders_ \in [Clients -> [OrderBlocks -> Pointers(OrderBlocks)]]
    BY DEF BookInv, BookTypes
  <2>4. client_orders_[d][k] = x
    <3>1. PICK e \in Clients, m \in OrderBlocks : x = client_orders_[e][m]
      BY <2>1
    <3>2. x # Null
      BY <2>1, LiveBlocks, NullIsNoBlock DEF BookInv
    <3>3. orders[x].clientId_ = e /\ orders[x].client_orderId_ = m
      BY <3>1, <3>2 DEF BookInv, ClientIndexLive
    <3> QED BY <3>1, <3>3
  <2> HIDE DEF d, k
  <2>5. CASE c = d /\ id = k
    BY <2>1, <2>4, <2>5
  <2>6. CASE ~(c = d /\ id = k)
    <3>1. client_orders_'[c][id] = client_orders_[c][id]
      BY <2>1, <2>2, <2>3, <2>6
    <3> QED BY <2>1, <3>1
  <2> QED BY <2>5, <2>6
<1> QED BY <1>1, <1>2, <1>3, StepCases

\* An order in the book stays within reach of its client: no request of
\* anybody else, and no reuse of a block, hides it from cancel().
THEOREM StaysCancelable == Spec => OrdersCancelable
<1> DEFINE A == process' = "running" =>
                   \A o \in LiveOrders' :
                      LET c  == orders'[o].clientId_
                          id == orders'[o].client_orderId_
                      IN  \/ client_orders_'[c][id] = o
                          \/ /\ o \in LiveOrders
                             /\ \/ client_orders_[c][id] # o
                                \/ \E r \in Elements(responses') :
                                      /\ r.type = "ACCEPTED"
                                      /\ r.clientId_ = c
                                      /\ r.client_order_id_ = id
<1>1. ASSUME BookInv, HeadsNeverSet, [Next]_vars
      PROVE  A
  BY <1>1, CancelableStep
<1> HIDE DEF A
<1>2. BookInv /\ HeadsNeverSet /\ [Next]_vars => [A]_vars
  BY <1>1
<1>3. Spec => [][A]_vars
  BY <1>2, BookInvariant, BookNeverTrades, PTL DEF Spec
<1>4. OrdersCancelable <=> [][A]_vars
  BY PTL DEF OrdersCancelable, A
<1> QED BY <1>3, <1>4, PTL

\* What AddsAnnounced says of a step.
RestedAreAnnounced ==
    LET rested == LiveOrders' \ LiveOrders
        adds   == {k \in DOMAIN updates' : updates'[k].type = "ADD"}
    IN  /\ \A o \in rested : \E k \in adds :
              /\ Announces(updates'[k], orders'[o])
              /\ \A j \in adds : Announces(updates'[j], orders'[o]) => j = k
        /\ \A k \in adds : \E o \in rested :
              Announces(updates'[k], orders'[o])

LEMMA AnnounceStep ==
    ASSUME BookInv, HeadsNeverSet, [Next]_vars, ~UNCHANGED vars
    PROVE  RestedAreAnnounced
<1> DEFINE rested == LiveOrders' \ LiveOrders
           adds   == {k \in DOMAIN updates' : updates'[k].type = "ADD"}
<1>1. CASE Stays
  <2>1. rested = {}
    BY <1>1 DEF Stays, LiveOrders
  <2>2. adds = {}
    BY <1>1 DEF Stays, NoAdds, Elements
  <2> HIDE DEF rested, adds
  <2> QED BY <2>1, <2>2 DEF RestedAreAnnounced, rested, adds
<1>2. ASSUME NEW x, NEW order, Rests(x, order)
      PROVE  RestedAreAnnounced
  <2> DEFINE u == Announcement(order)
  <2>1. /\ x \notin LiveOrders
        /\ LiveOrders' = LiveOrders \cup {x}
        /\ SameTerms(order, orders'[x])
        /\ updates' = <<u>>
    BY <1>2 DEF Rests, Grows
  <2>2. Announces(u, orders'[x])
    BY <2>1 DEF Announcement, Update, Announces, SameTerms
  <2> HIDE DEF u
  <2>3. DOMAIN updates' = {1} /\ updates'[1] = u
    BY <2>1
  <2>4. rested = {x}
    BY <2>1
  <2>5. adds = {1}
    BY <2>2, <2>3 DEF Announces
  <2> HIDE DEF rested, adds
  <2> QED BY <2>2, <2>3, <2>4, <2>5 DEF RestedAreAnnounced, rested, adds
<1>3. ASSUME NEW x, Departs(x)
      PROVE  RestedAreAnnounced
  <2>1. LiveOrders' = LiveOrders \ {x}
    BY <1>3 DEF Departs, Shrinks
  <2>2. PICK u : updates' = <<u>> /\ u.type = "CANCEL"
    BY <1>3 DEF Departs
  <2>3. DOMAIN updates' = {1} /\ updates'[1] = u
    BY <2>2
  <2>4. adds = {}
    BY <2>2, <2>3
  <2>5. rested = {}
    BY <2>1
  <2> HIDE DEF rested, adds
  <2> QED BY <2>4, <2>5 DEF RestedAreAnnounced, rested, adds
<1> QED BY <1>1, <1>2, <1>3, StepCases

\* Every order that comes to rest is announced by exactly one ADD, with the
\* terms it has in the book, and every ADD announces such an order: nothing is
\* announced by a request that fails, at any size of the pools.
THEOREM RestingIsAnnounced == Spec => AddsAnnounced
<1> DEFINE A == process' # "corrupted" => RestedAreAnnounced
<1>1. ASSUME BookInv, HeadsNeverSet, [Next]_vars, ~UNCHANGED vars
      PROVE  A
  BY <1>1, AnnounceStep
<1> HIDE DEF A
<1>2. BookInv /\ HeadsNeverSet /\ [Next]_vars => [A]_vars
  BY <1>1
<1>3. Spec => [][A]_vars
  BY <1>2, BookInvariant, BookNeverTrades, PTL DEF Spec
<1>4. AddsAnnounced <=> [][A]_vars
  BY PTL DEF AddsAnnounced, A, RestedAreAnnounced
<1> QED BY <1>3, <1>4, PTL

-----------------------------------------------------------------------------
(* The walk along a ring.  RingFrom() follows next_order_ and stops at the *)
(* return to the first order; that it returns at all, passes every order   *)
(* of the level and meets them by increasing priority follows from IsLine. *)

\* at goes from first along the links of the orders, size steps far: what the
\* recursive function of RingFrom() is.
Walks(at, first, size) ==
    at = [n \in 0 .. size |->
            IF n = 0 THEN first ELSE orders[at[n - 1]].next_order_]

\* Induction over the naturals, for a set.
LEMMA UpTo ==
    ASSUME NEW T, T \subseteq Nat, 0 \in T,
           \A n \in Nat : n \in T => n + 1 \in T
    PROVE  T = Nat
<1> SUFFICES ASSUME T # Nat PROVE FALSE
  OBVIOUS
<1> DEFINE U == {n \in Nat : n \notin T}
<1>1. U \subseteq Nat /\ U # {}
  OBVIOUS
<1> HIDE DEF U
<1>2. PICK m \in U : \A k \in U : m <= k
  BY <1>1, LeastMember
<1>3. m \in Nat /\ m \notin T /\ m # 0
  BY <1>2 DEF U
<1>4. m - 1 \in Nat /\ (m - 1) + 1 = m /\ ~(m <= m - 1)
  BY <1>3
<1>5. m - 1 \in T
  BY <1>2, <1>4 DEF U
<1> QED BY <1>3, <1>4, <1>5

\* The recursion defines a function.
LEMMA WalkExists ==
    ASSUME NEW first, NEW size \in Nat
    PROVE  \E at : Walks(at, first, size)
<1> DEFINE T == {n \in Nat : \E at : Walks(at, first, n)}
<1>1. 0 \in T
  <2> DEFINE f == [n \in 0 .. 0 |-> first]
  <2>1. f = [n \in 0 .. 0 |->
            IF n = 0 THEN first ELSE orders[f[n - 1]].next_order_]
    OBVIOUS
  <2> QED BY <2>1 DEF Walks
<1>2. ASSUME NEW n \in Nat, n \in T PROVE n + 1 \in T
  <2>1. PICK f : Walks(f, first, n)
    BY <1>2
  <2> DEFINE g == [k \in 0 .. n + 1 |->
                     IF k = n + 1 THEN orders[f[n]].next_order_ ELSE f[k]]
  <2>2. ASSUME NEW k \in 0 .. n + 1
        PROVE  g[k] = IF k = 0 THEN first ELSE orders[g[k - 1]].next_order_
    <3>1. CASE k = 0
      BY <2>1, <3>1 DEF Walks
    <3>2. CASE k \in 1 .. n
      <4>1. f[k] = orders[f[k - 1]].next_order_
        BY <2>1, <3>2 DEF Walks
      <4>2. g[k] = f[k] /\ g[k - 1] = f[k - 1] /\ k # 0
        BY <3>2
      <4> QED BY <4>1, <4>2
    <3>3. CASE k = n + 1
      <4>1. g[k] = orders[f[n]].next_order_ /\ g[k - 1] = f[n] /\ k # 0
        BY <3>3
      <4> QED BY <4>1
    <3> QED BY <3>1, <3>2, <3>3
  <2>3. g = [k \in 0 .. n + 1 |->
               IF k = 0 THEN first ELSE orders[g[k - 1]].next_order_]
    BY <2>2
  <2> HIDE DEF g
  <2>4. Walks(g, first, n + 1)
    BY <2>3 DEF Walks
  <2> QED BY <2>4
<1>3. T \subseteq Nat
  OBVIOUS
<1> HIDE DEF T
<1>4. T = Nat
  BY <1>1, <1>2, <1>3, UpTo
<1> QED BY <1>4 DEF T

\* The length RingFrom() gives to the list of a walk.
Rounds(at, first) ==
    LET returns == {n \in 1 .. MaxOrderIds : at[n] = first}
    IN  IF returns = {} THEN MaxOrderIds
        ELSE CHOOSE n \in returns : \A m \in returns : n <= m

\* s is what at passes on its first r places.
Copies(s, at, r) == s = [k \in 1 .. r |-> at[k - 1]]

\* RingFrom() is what a walk passes before it comes back.
LEMMA RingIsWalk ==
    ASSUME NEW first
    PROVE  \E at : /\ Walks(at, first, MaxOrderIds)
                   /\ Copies(RingFrom(first), at, Rounds(at, first))
<1> DEFINE at == CHOOSE f : f = [n \in 0 .. MaxOrderIds |->
            IF n = 0 THEN first ELSE orders[f[n - 1]].next_order_]
<1>1. \E f : f = [n \in 0 .. MaxOrderIds |->
            IF n = 0 THEN first ELSE orders[f[n - 1]].next_order_]
  <2>1. \E f : Walks(f, first, MaxOrderIds)
    BY MaxOrderIdsAssumption, WalkExists
  <2> QED BY <2>1 DEF Walks
<1>2. Walks(at, first, MaxOrderIds)
  BY <1>1 DEF Walks
<1>3. Copies(RingFrom(first), at, Rounds(at, first))
  BY Zenon DEF RingFrom, Rounds, Copies
<1> QED BY <1>2, <1>3

\* at goes along N from first, MaxOrderIds steps far.
Follows(at, S, N, first) ==
    /\ at[0] = first
    /\ \A n \in 1 .. MaxOrderIds : at[n - 1] \in S => at[n] = N[at[n - 1]]

\* A walk along a line never leaves it,
LEMMA StaysInLine ==
    ASSUME NEW S, NEW N, NEW P, NEW Q, NEW first, IsLine(S, N, P, Q, first),
           NEW at, Follows(at, S, N, first)
    PROVE  \A n \in 0 .. MaxOrderIds : at[n] \in S
<1> DEFINE T == {n \in Nat : n <= MaxOrderIds => at[n] \in S}
<1>1. 0 \in T
  BY DEF IsLine, Follows
<1>2. ASSUME NEW n \in Nat, n \in T PROVE n + 1 \in T
  <2> SUFFICES ASSUME n + 1 <= MaxOrderIds PROVE at[n + 1] \in S
    OBVIOUS
  <2>1. n + 1 \in 1 .. MaxOrderIds /\ (n + 1) - 1 = n /\ n <= MaxOrderIds
    BY MaxOrderIdsAssumption
  <2>2. at[n + 1] = N[at[n]]
    BY <1>2, <2>1 DEF Follows
  <2> QED BY <1>2, <2>1, <2>2 DEF IsLine
<1>3. T \subseteq Nat
  OBVIOUS
<1> HIDE DEF T
<1>4. T = Nat
  BY <1>1, <1>2, <1>3, UpTo
<1> QED BY <1>4, MaxOrderIdsAssumption DEF T

\* the priorities rise as long as it has not come back,
LEMMA RisesInLine ==
    ASSUME NEW S, NEW N, NEW P, NEW Q, NEW first, IsLine(S, N, P, Q, first),
           NEW at, Follows(at, S, N, first), NEW r \in 0 .. MaxOrderIds,
           \A n \in 1 .. r : at[n] # first
    PROVE  \A k \in 0 .. r : \A j \in 0 .. k - 1 : Q[at[j]] < Q[at[k]]
<1> DEFINE T == {k \in Nat : k <= r => \A j \in 0 .. k - 1 :
                                         Q[at[j]] < Q[at[k]]}
<1>1. 0 \in T
  OBVIOUS
<1>2. ASSUME NEW n \in Nat, n \in T PROVE n + 1 \in T
  <2> SUFFICES ASSUME n + 1 <= r, NEW j \in 0 .. n
               PROVE  Q[at[j]] < Q[at[n + 1]]
    OBVIOUS
  <2>1. /\ n + 1 \in 1 .. MaxOrderIds /\ n + 1 \in 1 .. r /\ (n + 1) - 1 = n
        /\ n \in 0 .. MaxOrderIds /\ j \in 0 .. MaxOrderIds
        /\ n + 1 \in 0 .. MaxOrderIds /\ n <= r
    BY MaxOrderIdsAssumption
  <2>3. at[n] \in S /\ at[j] \in S /\ at[n + 1] \in S
    BY <2>1, StaysInLine
  <2>2. at[n + 1] = N[at[n]] /\ at[n + 1] # first
    BY <2>1, <2>3 DEF Follows
  <2>4. Q[at[n]] < Q[at[n + 1]]
    BY <2>2, <2>3 DEF IsLine
  <2>5. Q[at[n]] \in Nat /\ Q[at[j]] \in Nat /\ Q[at[n + 1]] \in Nat
    BY <2>3 DEF IsLine
  <2>6. j = n \/ Q[at[j]] < Q[at[n]]
    BY <1>2, <2>1
  <2> QED BY <2>4, <2>5, <2>6
<1>3. T \subseteq Nat
  OBVIOUS
<1> HIDE DEF T
<1>4. T = Nat
  BY <1>1, <1>2, <1>3, UpTo
<1> QED BY <1>4, MaxOrderIdsAssumption DEF T

\* it comes back, since there are not enough orders to rise for ever,
LEMMA ComesRound ==
    ASSUME NEW S, NEW N, NEW P, NEW Q, NEW first, IsLine(S, N, P, Q, first),
           S \subseteq OrderBlocks, NEW at, Follows(at, S, N, first)
    PROVE  \E n \in 1 .. MaxOrderIds : at[n] = first
<1> SUFFICES ASSUME \A n \in 1 .. MaxOrderIds : at[n] # first PROVE FALSE
  OBVIOUS
<1>1. \A n \in 0 .. MaxOrderIds : at[n] \in S
  BY StaysInLine
<1>2. \A k \in 0 .. MaxOrderIds : \A j \in 0 .. k - 1 : Q[at[j]] < Q[at[k]]
  <2>1. MaxOrderIds \in 0 .. MaxOrderIds
    BY MaxOrderIdsAssumption
  <2> QED BY <2>1, RisesInLine
<1>3. \A n \in 0 .. MaxOrderIds : Q[at[n]] \in Nat
  BY <1>1 DEF IsLine
<1> DEFINE f == [n \in 0 .. MaxOrderIds |-> at[n]]
<1>4. f \in [0 .. MaxOrderIds -> S]
  BY <1>1
<1>5. ASSUME NEW j \in 0 .. MaxOrderIds, NEW k \in 0 .. MaxOrderIds, j # k
      PROVE  at[j] # at[k]
  <2>1. j \in 0 .. k - 1 \/ k \in 0 .. j - 1
    BY <1>5, MaxOrderIdsAssumption
  <2>2. Q[at[j]] < Q[at[k]] \/ Q[at[k]] < Q[at[j]]
    BY <1>2, <2>1
  <2> QED BY <1>3, <2>2
<1>6. /\ IsFiniteSet(0 .. MaxOrderIds - 1)
      /\ Cardinality(0 .. MaxOrderIds - 1) = MaxOrderIds
  BY MaxOrderIdsAssumption, FS_Interval
<1>7. /\ IsFiniteSet(0 .. MaxOrderIds)
      /\ Cardinality(0 .. MaxOrderIds) = MaxOrderIds + 1
  BY MaxOrderIdsAssumption, FS_Interval
<1>8. IsFiniteSet(S) /\ Cardinality(S) <= MaxOrderIds
  BY <1>6, FS_Subset DEF OrderBlocks
<1>9. Cardinality(S) < Cardinality(0 .. MaxOrderIds)
  BY <1>7, <1>8, FS_CardinalityType, MaxOrderIdsAssumption
<1>10. \E j, k \in 0 .. MaxOrderIds : j # k /\ f[j] = f[k]
  <2> HIDE DEF f
  <2> QED BY <1>4, <1>7, <1>8, <1>9, FS_PigeonHole
<1> QED BY <1>5, <1>10

\* s lists the members of S, each once, by increasing Q.
Lists(s, S, Q) ==
    /\ s \in Seq(S)
    /\ \A x \in S : \E k \in 1 .. Len(s) : s[k] = x
    /\ \A k \in 1 .. Len(s) : \A j \in 1 .. k - 1 : Q[s[j]] < Q[s[k]]

\* and the length of the list is that of its first round.
LEMMA RoundsLeast ==
    ASSUME NEW at, NEW first, \E n \in 1 .. MaxOrderIds : at[n] = first
    PROVE  /\ Rounds(at, first) \in 1 .. MaxOrderIds
           /\ at[Rounds(at, first)] = first
           /\ \A n \in 1 .. Rounds(at, first) - 1 : at[n] # first
<1> DEFINE returns == {n \in 1 .. MaxOrderIds : at[n] = first}
           m == CHOOSE n \in returns : \A k \in returns : n <= k
<1>1. returns # {} /\ returns \subseteq Nat
  BY MaxOrderIdsAssumption
<1>2. Rounds(at, first) = m
  BY <1>1, Zenon DEF Rounds
<1>3. m \in returns /\ \A k \in returns : m <= k
  <2> HIDE DEF returns
  <2> QED BY <1>1, LeastChosen
<1> HIDE DEF m
<1>4. m \in 1 .. MaxOrderIds /\ at[m] = first
  BY <1>3
<1>5. ASSUME NEW n \in 1 .. m - 1 PROVE at[n] # first
  <2>1. n \in 1 .. MaxOrderIds /\ ~(m <= n)
    BY <1>4, MaxOrderIdsAssumption
  <2> QED BY <1>3, <2>1
<1> QED BY <1>2, <1>4, <1>5

\* A walk that has come back has passed every order of the line.
LEMMA NobodyMissed ==
    ASSUME NEW S, NEW N, NEW P, NEW Q, NEW first, IsLine(S, N, P, Q, first),
           NEW at, Follows(at, S, N, first), NEW r \in 1 .. MaxOrderIds,
           at[r] = first,
           NEW x \in S
    PROVE  \E k \in 0 .. r - 1 : at[k] = x
<1> SUFFICES ASSUME \A k \in 0 .. r - 1 : at[k] # x PROVE FALSE
  OBVIOUS
<1>1. \A n \in 0 .. MaxOrderIds : at[n] \in S
  BY StaysInLine
<1>2. \A n \in 0 .. MaxOrderIds : Q[at[n]] \in Nat
  BY <1>1 DEF IsLine
<1>3. Q[x] \in Nat
  BY DEF IsLine
<1> DEFINE T == {k \in Nat : k <= r - 1 => Q[at[k]] < Q[x]}
<1>4. 0 \in T
  <2>1. 0 \in 0 .. r - 1 /\ 0 \in 0 .. MaxOrderIds
    BY MaxOrderIdsAssumption
  <2>2. at[0] # x /\ at[0] = first /\ at[0] \in S
    BY <1>1, <2>1 DEF Follows
  <2>3. Q[at[0]] <= Q[x] /\ Q[x] # Q[at[0]]
    BY <2>2 DEF IsLine
  <2> QED BY <1>2, <1>3, <2>1, <2>3
<1>5. ASSUME NEW n \in Nat, n \in T PROVE n + 1 \in T
  <2> SUFFICES ASSUME n + 1 <= r - 1 PROVE Q[at[n + 1]] < Q[x]
    OBVIOUS
  <2>1. /\ n + 1 \in 1 .. MaxOrderIds /\ (n + 1) - 1 = n
        /\ n \in 0 .. MaxOrderIds
        /\ n + 1 \in 0 .. MaxOrderIds /\ n + 1 \in 0 .. r - 1 /\ n <= r - 1
    BY MaxOrderIdsAssumption
  <2>2. at[n + 1] = N[at[n]] /\ at[n] \in S /\ at[n + 1] \in S
    BY <1>1, <2>1 DEF Follows
  <2>3. Q[at[n]] < Q[x]
    BY <1>5, <2>1
  <2>4. ~(Q[x] <= Q[at[n]])
    BY <1>2, <1>3, <2>1, <2>3
  <2>5. Q[at[n + 1]] <= Q[x]
    BY <2>2, <2>4 DEF IsLine
  <2>6. Q[at[n + 1]] # Q[x]
    BY <2>1, <2>2 DEF IsLine
  <2> QED BY <1>2, <1>3, <2>1, <2>5, <2>6
<1>6. T \subseteq Nat
  OBVIOUS
<1> HIDE DEF T
<1>7. T = Nat
  BY <1>4, <1>5, <1>6, UpTo
<1>8. r - 1 \in Nat /\ r - 1 <= r - 1 /\ r - 1 \in 0 .. MaxOrderIds
  BY MaxOrderIdsAssumption
<1>9. Q[at[r - 1]] < Q[x]
  BY <1>7, <1>8 DEF T
<1>10. N[at[r - 1]] = first /\ at[r - 1] \in S
  BY <1>1, <1>8 DEF Follows
<1>11. Q[x] <= Q[at[r - 1]]
  BY <1>10 DEF IsLine
<1> QED BY <1>2, <1>3, <1>8, <1>9, <1>11

\* What is copied is a sequence.
LEMMA CopyIsSeq ==
    ASSUME NEW s, NEW at, NEW r \in Nat, NEW S, Copies(s, at, r),
           \A n \in 0 .. r - 1 : at[n] \in S
    PROVE  /\ s \in Seq(S)
           /\ Len(s) = r
           /\ \A k \in 1 .. r : s[k] = at[k - 1]
<1> DEFINE f == [k \in 1 .. r |-> at[k - 1]]
<1>1. f \in [1 .. r -> S] /\ DOMAIN f = 1 .. r
  OBVIOUS
<1>2. \A k \in 1 .. r : f[k] = at[k - 1]
  OBVIOUS
<1> HIDE DEF f
<1>3. f \in Seq(S) /\ Len(f) = r
  BY <1>1
<1>4. s = f
  BY Zenon DEF Copies, f
<1> QED BY <1>2, <1>3, <1>4

\* The list of a line lists its orders by priority and closes the ring.
LEMMA WalkLists ==
    ASSUME NEW S, NEW N, NEW P, NEW Q, NEW first, IsLine(S, N, P, Q, first),
           S \subseteq OrderBlocks, NEW at, Follows(at, S, N, first), NEW s,
           Copies(s, at, Rounds(at, first))
    PROVE  /\ Lists(s, S, Q)
           /\ Len(s) \in Nat \ {0}
           /\ s[1] = first
           /\ N[s[Len(s)]] = first
<1> DEFINE r == Rounds(at, first)
<1>1. /\ r \in 1 .. MaxOrderIds
      /\ at[r] = first
      /\ \A n \in 1 .. r - 1 : at[n] # first
  <2>1. \E n \in 1 .. MaxOrderIds : at[n] = first
    BY ComesRound
  <2> QED BY <2>1, RoundsLeast
<1>2. Copies(s, at, r)
  OBVIOUS
<1> HIDE DEF r
<1>3. \A n \in 0 .. MaxOrderIds : at[n] \in S
  BY StaysInLine
<1>4. /\ s \in Seq(S)
      /\ Len(s) = r
      /\ \A k \in 1 .. r : s[k] = at[k - 1]
  <2>1. r \in Nat /\ \A n \in 0 .. r - 1 : at[n] \in S
    BY <1>1, <1>3, MaxOrderIdsAssumption
  <2> QED BY <1>2, <2>1, CopyIsSeq
<1>6. ASSUME NEW x \in S PROVE \E k \in 1 .. r : s[k] = x
  <2>1. PICK k \in 0 .. r - 1 : at[k] = x
    BY <1>1, NobodyMissed
  <2>2. k + 1 \in 1 .. r /\ (k + 1) - 1 = k
    BY <1>1
  <2>3. s[k + 1] = x
    BY <1>4, <2>1, <2>2
  <2> QED BY <2>2, <2>3
<1>7. ASSUME NEW k \in 1 .. r, NEW j \in 1 .. k - 1
      PROVE  Q[s[j]] < Q[s[k]]
  <2>1. /\ k - 1 \in 0 .. r - 1 /\ j - 1 \in 0 .. (k - 1) - 1
        /\ j \in 1 .. r /\ r - 1 \in 0 .. MaxOrderIds
    BY <1>1, MaxOrderIdsAssumption
  <2>2. Q[at[j - 1]] < Q[at[k - 1]]
    BY <1>1, <2>1, RisesInLine
  <2> QED BY <1>4, <2>1, <2>2
<1>8. s[1] = first
  <2>1. 1 \in 1 .. r /\ 1 - 1 = 0
    BY <1>1
  <2> QED BY <1>4, <2>1 DEF Follows
<1>9. N[s[r]] = first
  <2>1. r \in 1 .. r /\ r - 1 \in 0 .. MaxOrderIds
    BY <1>1, MaxOrderIdsAssumption
  <2> QED BY <1>1, <1>3, <1>4, <2>1 DEF Follows
<1>10. Lists(s, S, Q)
  BY <1>4, <1>6, <1>7 DEF Lists
<1>11. r \in Nat \ {0}
  BY <1>1
<1> QED BY <1>4, <1>8, <1>9, <1>10, <1>11

\* The places of a sequence and what stands there.
LEMMA SeqIndices ==
    ASSUME NEW S, NEW s \in Seq(S)
    PROVE  /\ Len(s) \in Nat
           /\ DOMAIN s = 1 .. Len(s)
           /\ \A k \in 1 .. Len(s) : s[k] \in S
  OBVIOUS

\* Two lists that agree before place k: the second has a place k, too, and
\* nobody later there.
LEMMA ListedBefore ==
    ASSUME NEW S, NEW Q, \A x \in S : Q[x] \in Nat,
           NEW u, Lists(u, S, Q), NEW v, Lists(v, S, Q),
           NEW k \in Nat \ {0}, k <= Len(u),
           \A j \in 1 .. k - 1 : u[j] = v[j]
    PROVE  k <= Len(v) /\ Q[v[k]] <= Q[u[k]]
<1>1. k \in 1 .. Len(u) /\ u[k] \in S
  BY SeqIndices DEF Lists
<1>2. Len(u) \in Nat /\ Len(v) \in Nat
  BY SeqIndices DEF Lists
<1>3. PICK m \in 1 .. Len(v) : v[m] = u[k]
  BY <1>1 DEF Lists
<1>4. k <= m
  <2> SUFFICES ASSUME m < k PROVE FALSE
    BY <1>2, <1>3
  <2>1. m \in 1 .. k - 1
    BY <1>2, <1>3
  <2>2. u[m] = u[k]
    BY <1>3, <2>1
  <2>3. Q[u[m]] < Q[u[k]]
    BY <1>1, <2>1 DEF Lists
  <2> QED BY <1>1, <2>2, <2>3
<1>5. k <= Len(v) /\ k \in 1 .. Len(v)
  BY <1>2, <1>3, <1>4
<1>6. k = m \/ Q[v[k]] < Q[v[m]]
  <2> SUFFICES ASSUME k # m PROVE Q[v[k]] < Q[v[m]]
    OBVIOUS
  <2>1. k \in 1 .. m - 1
    BY <1>2, <1>3, <1>4
  <2> QED BY <1>3, <2>1 DEF Lists
<1>7. v[k] \in S /\ v[m] \in S
  BY <1>3, <1>5, SeqIndices DEF Lists
<1>8. Q[v[k]] <= Q[v[m]]
  BY <1>6, <1>7
<1> QED BY <1>3, <1>5, <1>8

\* A set is listed in one way only.
LEMMA ListedOnce ==
    ASSUME NEW S, NEW Q, \A x \in S : Q[x] \in Nat,
           NEW s, Lists(s, S, Q), NEW t, Lists(t, S, Q)
    PROVE  s = t
<1>1. /\ s \in Seq(S) /\ Len(s) \in Nat /\ \A k \in 1 .. Len(s) : s[k] \in S
      /\ t \in Seq(S) /\ Len(t) \in Nat /\ \A k \in 1 .. Len(t) : t[k] \in S
  BY SeqIndices DEF Lists
<1>2. ASSUME NEW k \in Nat \ {0}, k <= Len(s), k <= Len(t),
             \A j \in 1 .. k - 1 : s[j] = t[j]
      PROVE  s[k] = t[k]
  <2>1. Q[t[k]] <= Q[s[k]]
    BY <1>2, ListedBefore
  <2>2. Q[s[k]] <= Q[t[k]]
    BY <1>2, ListedBefore
  <2>3. k \in 1 .. Len(s) /\ k \in 1 .. Len(t) /\ s[k] \in S /\ t[k] \in S
    BY <1>1, <1>2
  <2>4. PICK j \in 1 .. Len(s) : s[j] = t[k]
    BY <2>3 DEF Lists
  <2>5. Q[s[j]] = Q[s[k]] /\ Q[s[k]] \in Nat
    BY <2>1, <2>2, <2>3, <2>4
  <2>6. j \in 1 .. k - 1 \/ j = k \/ k \in 1 .. j - 1
    BY <1>1, <2>3, <2>4
  <2>7. /\ j \in 1 .. k - 1 => Q[s[j]] < Q[s[k]]
        /\ k \in 1 .. j - 1 => Q[s[k]] < Q[s[j]]
    BY <2>3, <2>4 DEF Lists
  <2> QED BY <2>4, <2>5, <2>6, <2>7
<1> DEFINE T == {n \in Nat : \A k \in 1 .. n :
                               /\ k <= Len(s) <=> k <= Len(t)
                               /\ k <= Len(s) => s[k] = t[k]}
<1>3. 0 \in T
  OBVIOUS
<1>4. ASSUME NEW n \in Nat, n \in T PROVE n + 1 \in T
  <2> DEFINE k == n + 1
  <2>1. k \in Nat \ {0} /\ k - 1 = n
    OBVIOUS
  <2>2. ASSUME k <= Len(s) PROVE k <= Len(t) /\ s[k] = t[k]
    <3>1. \A j \in 1 .. k - 1 : s[j] = t[j]
      BY <1>1, <1>4, <2>2
    <3> HIDE DEF k
    <3>2. k <= Len(t)
      BY <2>1, <2>2, <3>1, ListedBefore
    <3> QED BY <1>2, <2>1, <2>2, <3>1, <3>2
  <2>3. ASSUME k <= Len(t) PROVE k <= Len(s)
    <3>1. \A j \in 1 .. k - 1 : t[j] = s[j]
      BY <1>1, <1>4, <2>3
    <3> HIDE DEF k
    <3> QED BY <2>1, <2>3, <3>1, ListedBefore
  <2>4. \A j \in 1 .. n + 1 : j \in 1 .. n \/ j = k
    OBVIOUS
  <2> QED BY <1>4, <2>2, <2>3, <2>4
<1>5. T \subseteq Nat
  OBVIOUS
<1> HIDE DEF T
<1>6. T = Nat
  BY <1>3, <1>4, <1>5, UpTo
<1>7. \A k \in Nat \ {0} : /\ k <= Len(s) <=> k <= Len(t)
                           /\ k <= Len(s) => s[k] = t[k]
  <2> SUFFICES ASSUME NEW k \in Nat \ {0}
               PROVE  /\ k <= Len(s) <=> k <= Len(t)
                      /\ k <= Len(s) => s[k] = t[k]
    OBVIOUS
  <2>1. k \in T /\ k \in 1 .. k
    BY <1>6
  <2> QED BY <2>1 DEF T
<1>8. Len(s) = Len(t)
  <2>1. Len(s) = 0 \/ Len(s) <= Len(t)
    BY <1>1, <1>7
  <2>2. Len(t) = 0 \/ Len(t) <= Len(s)
    BY <1>1, <1>7
  <2>3. Len(s) + 1 \in Nat \ {0} /\ Len(t) + 1 \in Nat \ {0}
    BY <1>1
  <2> QED BY <1>1, <1>7, <2>1, <2>2, <2>3
<1>9. \A k \in 1 .. Len(s) : s[k] = t[k]
  BY <1>1, <1>7
<1> QED BY <1>1, <1>8, <1>9

\* Somebody later than all of a list goes to its end,
LEMMA ListGrows ==
    ASSUME NEW S, NEW Q, NEW s, Lists(s, S, Q), NEW o, o \notin S, NEW Q2,
           \A x \in S : Q2[x] = Q[x] /\ Q2[x] < Q2[o]
    PROVE  Lists(Append(s, o), S \cup {o}, Q2)
<1> DEFINE t == Append(s, o)
           n == Len(s)
<1>1. s \in Seq(S) /\ n \in Nat /\ \A k \in 1 .. n : s[k] \in S
  BY SeqIndices DEF Lists
<1>2. /\ t \in Seq(S \cup {o})
      /\ Len(t) = n + 1
      /\ t[n + 1] = o
      /\ \A k \in 1 .. n : t[k] = s[k]
  BY <1>1
<1> HIDE DEF t, n
<1>3. ASSUME NEW x \in S \cup {o} PROVE \E k \in 1 .. Len(t) : t[k] = x
  <2>1. CASE x = o
    BY <1>1, <1>2, <2>1
  <2>2. CASE x \in S
    <3>1. PICK k \in 1 .. n : s[k] = x
      BY <2>2 DEF Lists, n
    <3> QED BY <1>1, <1>2, <3>1
  <2> QED BY <2>1, <2>2
<1>4. ASSUME NEW k \in 1 .. Len(t), NEW j \in 1 .. k - 1
      PROVE  Q2[t[j]] < Q2[t[k]]
  <2>1. j \in 1 .. n /\ t[j] = s[j] /\ s[j] \in S
    BY <1>1, <1>2
  <2>2. CASE k = n + 1
    BY <1>2, <2>1, <2>2
  <2>3. CASE k \in 1 .. n
    <3>1. Q[s[j]] < Q[s[k]]
      BY <2>3 DEF Lists, n
    <3> QED BY <1>1, <1>2, <2>1, <2>3, <3>1
  <2> QED BY <1>1, <1>2, <2>2, <2>3
<1> QED BY <1>2, <1>3, <1>4 DEF Lists, t

\* RemoveAt() of the community modules.
Without(s, k) == SubSeq(s, 1, k - 1) \o SubSeq(s, k + 1, Len(s))

\* What stands where after one has left.
LEMMA WithoutEffect ==
    ASSUME NEW S, NEW s \in Seq(S), NEW k \in 1 .. Len(s)
    PROVE  /\ Without(s, k) \in Seq(S)
           /\ Len(Without(s, k)) = Len(s) - 1
           /\ \A j \in 1 .. Len(s) - 1 :
                 Without(s, k)[j] = IF j < k THEN s[j] ELSE s[j + 1]
<1> DEFINE a == SubSeq(s, 1, k - 1)
           b == SubSeq(s, k + 1, Len(s))
           n == Len(s)
<1>1. n \in Nat /\ k \in 1 .. n
  OBVIOUS
<1>2. /\ a \in Seq(S) /\ Len(a) = k - 1
      /\ \A j \in 1 .. k - 1 : a[j] = s[j]
  OBVIOUS
<1>3. /\ b \in Seq(S) /\ Len(b) = n - k
      /\ \A j \in 1 .. n - k : b[j] = s[j + k]
  OBVIOUS
<1> HIDE DEF a, b, n
<1>4. /\ a \o b \in Seq(S) /\ Len(a \o b) = n - 1
      /\ \A j \in 1 .. n - 1 :
            (a \o b)[j] = IF j < k THEN s[j] ELSE s[j + 1]
  <2>1. a \o b \in Seq(S) /\ Len(a \o b) = Len(a) + Len(b)
    <3>1. a \in Seq(S) /\ b \in Seq(S)
      BY <1>2, <1>3
    <3>2. a \o b \in Seq(S)
      BY <3>1
    <3>3. Len(a \o b) = Len(a) + Len(b)
      BY <3>1
    <3> QED BY <3>2, <3>3
  <2>2. \A j \in 1 .. Len(a) + Len(b) :
           (a \o b)[j] = IF j <= Len(a) THEN a[j] ELSE b[j - Len(a)]
    BY <1>2, <1>3
  <2>3. Len(a) + Len(b) = n - 1
    BY <1>1, <1>2, <1>3
  <2>4. ASSUME NEW j \in 1 .. n - 1
        PROVE  (a \o b)[j] = IF j < k THEN s[j] ELSE s[j + 1]
    <3>1. CASE j < k
      <4>1. j <= Len(a) /\ j \in 1 .. k - 1
        BY <1>1, <1>2, <3>1
      <4> QED BY <1>2, <2>2, <2>3, <3>1, <4>1
    <3>2. CASE ~(j < k)
      <4>1. ~(j <= Len(a)) /\ j - Len(a) \in 1 .. n - k
            /\ (j - Len(a)) + k = j + 1
        BY <1>1, <1>2, <3>2
      <4>2. (a \o b)[j] = b[j - Len(a)]
        BY <2>2, <2>3, <4>1
      <4>3. b[j - Len(a)] = s[j + 1]
        BY <1>3, <4>1
      <4> QED BY <3>2, <4>2, <4>3
    <3> QED BY <3>1, <3>2
  <2> QED BY <2>1, <2>3, <2>4
<1>5. Without(s, k) = a \o b
  BY DEF Without, a, b
<1> QED BY <1>4, <1>5 DEF n

\* and the list without one of its members lists the others.
LEMMA ListShrinks ==
    ASSUME NEW S, NEW Q, NEW s, Lists(s, S, Q), NEW k \in 1 .. Len(s), NEW Q2,
           \A x \in S : Q[x] \in Nat,
           \A x \in S : x # s[k] => Q2[x] = Q[x]
    PROVE  Lists(Without(s, k), S \ {s[k]}, Q2)
<1> DEFINE t == Without(s, k)
           n == Len(s)
           R == S \ {s[k]}
<1>1. s \in Seq(S) /\ n \in Nat /\ k \in 1 .. n
      /\ \A j \in 1 .. n : s[j] \in S
  BY SeqIndices DEF Lists
<1>2. /\ t \in Seq(S) /\ Len(t) = n - 1
      /\ \A j \in 1 .. n - 1 : t[j] = IF j < k THEN s[j] ELSE s[j + 1]
  BY <1>1, WithoutEffect
<1> HIDE DEF t, n
<1>3. \A m \in 1 .. n : \A j \in 1 .. m - 1 : Q[s[j]] < Q[s[m]]
  BY DEF Lists, n
<1>4. \A m, j \in 1 .. n : m # j => s[m] # s[j]
  <2> SUFFICES ASSUME NEW m \in 1 .. n, NEW j \in 1 .. n, m # j
               PROVE  s[m] # s[j]
    OBVIOUS
  <2>1. j \in 1 .. m - 1 \/ m \in 1 .. j - 1
    BY <1>1
  <2>2. Q[s[j]] < Q[s[m]] \/ Q[s[m]] < Q[s[j]]
    BY <1>3, <2>1
  <2>3. Q[s[j]] \in Nat /\ Q[s[m]] \in Nat
    BY <1>1
  <2> QED BY <2>2, <2>3
<1>5. ASSUME NEW j \in 1 .. n - 1 PROVE t[j] \in R
  <2>1. CASE j < k
    BY <1>1, <1>2, <1>4, <2>1
  <2>2. CASE ~(j < k)
    <3>1. j + 1 \in 1 .. n /\ j + 1 # k
      BY <1>1, <2>2
    <3> QED BY <1>1, <1>2, <1>4, <2>2, <3>1
  <2> QED BY <2>1, <2>2
<1>6. t \in Seq(R)
  <2>1. Len(t) \in Nat /\ t = [j \in 1 .. Len(t) |-> t[j]]
    BY <1>2
  <2>2. t \in [1 .. Len(t) -> R]
    BY <1>2, <1>5, <2>1
  <2> HIDE DEF R
  <2> QED BY <2>1, <2>2
<1>7. ASSUME NEW x \in R PROVE \E j \in 1 .. Len(t) : t[j] = x
  <2>1. PICK m \in 1 .. n : s[m] = x
    BY DEF Lists, n
  <2>2. m # k
    BY <2>1
  <2>3. CASE m < k
    <3>1. m \in 1 .. n - 1 /\ t[m] = x
      BY <1>1, <1>2, <2>1, <2>3
    <3> QED BY <1>2, <3>1
  <2>4. CASE k < m
    <3>1. m - 1 \in 1 .. n - 1 /\ ~(m - 1 < k) /\ (m - 1) + 1 = m
      BY <1>1, <2>1, <2>4
    <3>2. t[m - 1] = x
      BY <1>2, <2>1, <3>1
    <3> QED BY <1>2, <3>1, <3>2
  <2> QED BY <1>1, <2>1, <2>2, <2>3, <2>4
<1>8. ASSUME NEW m \in 1 .. Len(t), NEW j \in 1 .. m - 1
      PROVE  Q2[t[j]] < Q2[t[m]]
  <2> DEFINE p(i) == IF i < k THEN i ELSE i + 1
  <2>1. m \in 1 .. n - 1 /\ j \in 1 .. n - 1
    BY <1>1, <1>2
  <2>2. p(m) \in 1 .. n /\ p(j) \in 1 .. p(m) - 1
    BY <1>1, <2>1
  <2>3. t[m] = s[p(m)] /\ t[j] = s[p(j)]
    BY <1>2, <2>1
  <2> HIDE DEF p
  <2>4. Q[t[j]] < Q[t[m]]
    BY <1>3, <2>2, <2>3
  <2>5. t[j] \in R /\ t[m] \in R
    BY <1>5, <2>1
  <2> QED BY <2>4, <2>5
<1> QED BY <1>6, <1>7, <1>8 DEF Lists, t

\* The list of a level is that of its orders, by priority, and it closes.
LEMMA OrdersListed ==
    ASSUME BookInv, NEW i \in LevelBlocks
    PROVE  /\ Lists(OrdersAt(i), At(i), PriorityOf)
           /\ price_levels_[i] # Null =>
                 /\ Len(OrdersAt(i)) \in Nat \ {0}
                 /\ OrdersAt(i)[1] \in At(i)
                 /\ NextOf[OrdersAt(i)[Len(OrdersAt(i))]] = OrdersAt(i)[1]
<1>1. CASE price_levels_[i] = Null
  <2>1. OrdersAt(i) = << >>
    BY <1>1 DEF OrdersAt
  <2>2. At(i) = {}
    BY <1>1 DEF BookInv, OrdersInv, At
  <2>3. << >> \in Seq(At(i)) /\ Len(<< >>) = 0
    OBVIOUS
  <2>4. Lists(<< >>, At(i), PriorityOf)
    BY <2>2, <2>3 DEF Lists
  <2> QED BY <1>1, <2>1, <2>4
<1>2. CASE price_levels_[i] # Null
  <2> DEFINE first == First(i)
             s     == OrdersAt(i)
  <2>1. s = RingFrom(first)
    BY <1>2 DEF OrdersAt, First
  <2>2. IsLine(At(i), NextOf, PrevOf, PriorityOf, first) /\ first \in At(i)
    BY <1>2, LevelFacts
  <2>3. At(i) \subseteq OrderBlocks
    BY LiveBlocks DEF At, BookInv
  <2> HIDE DEF first, s
  <2>4. PICK at : /\ Walks(at, first, MaxOrderIds)
                  /\ Copies(RingFrom(first), at, Rounds(at, first))
    BY RingIsWalk
  <2>5. Follows(at, At(i), NextOf, first)
    <3>1. at[0] = first
      BY <2>4, MaxOrderIdsAssumption DEF Walks
    <3>2. ASSUME NEW n \in 1 .. MaxOrderIds, at[n - 1] \in At(i)
          PROVE  at[n] = NextOf[at[n - 1]]
      <4>1. n \in 0 .. MaxOrderIds /\ n # 0
        BY MaxOrderIdsAssumption
      <4>2. at[n] = orders[at[n - 1]].next_order_
        BY <2>4, <4>1 DEF Walks
      <4>3. at[n - 1] \in LiveOrders
        BY <3>2 DEF At
      <4> QED BY <4>2, <4>3 DEF NextOf
    <3> QED BY <3>1, <3>2 DEF Follows
  <2>6. Copies(s, at, Rounds(at, first))
    BY <2>1, <2>4
  <2>7. /\ Lists(s, At(i), PriorityOf)
        /\ Len(s) \in Nat \ {0}
        /\ s[1] = first
        /\ NextOf[s[Len(s)]] = first
    BY <2>2, <2>3, <2>5, <2>6, WalkLists
  <2> QED BY <2>2, <2>7 DEF s
<1> QED BY <1>1, <1>2

\* The priorities of a level are numbers.
LEMMA PrioritiesAt ==
    ASSUME BookInv, NEW i \in LevelBlocks, NEW x \in At(i)
    PROVE  /\ x \in LiveOrders
           /\ PriorityOf[x] \in Nat
           /\ PriorityOf[x] = orders[x].priority_
           /\ NextOf[x] = orders[x].next_order_
           /\ PrevOf[x] = orders[x].prev_order_
<1>1. x \in LiveOrders
  BY DEF At
<1>2. orders[x] \in MEOrder
  BY <1>1, LiveOrderFacts
<1>3. orders[x].priority_ \in Nat
  BY <1>2 DEF MEOrder
<1> QED BY <1>1, <1>3 DEF PriorityOf, NextOf, PrevOf

\* The orders of a level, as a set.
LEMMA ElementsAt ==
    ASSUME BookInv, NEW i \in LevelBlocks
    PROVE  Elements(OrdersAt(i)) = At(i)
<1>1. Lists(OrdersAt(i), At(i), PriorityOf)
  BY OrdersListed
<1> HIDE DEF OrdersAt
<1>2. /\ DOMAIN OrdersAt(i) = 1 .. Len(OrdersAt(i))
      /\ \A k \in 1 .. Len(OrdersAt(i)) : OrdersAt(i)[k] \in At(i)
  BY <1>1, SeqIndices DEF Lists
<1>3. \A x \in At(i) : \E k \in 1 .. Len(OrdersAt(i)) : OrdersAt(i)[k] = x
  BY <1>1 DEF Lists
<1> QED BY <1>2, <1>3 DEF Elements

\* Whatever has been added and canceled, the priorities increase along the
\* list of every level.
LEMMA LineOrdered == BookInv => PriorityInLine
<1> SUFFICES ASSUME BookInv, NEW i \in LevelBlocks,
                    NEW k \in 1 .. Len(OrdersAt(i)) - 1
             PROVE  orders[OrdersAt(i)[k]].priority_
                       < orders[OrdersAt(i)[k + 1]].priority_
  BY DEF PriorityInLine
<1> DEFINE s == OrdersAt(i)
<1>1. Lists(s, At(i), PriorityOf)
  BY OrdersListed
<1> HIDE DEF s
<1>2. Len(s) \in Nat /\ \A j \in 1 .. Len(s) : s[j] \in At(i)
  BY <1>1, SeqIndices DEF Lists
<1>3. /\ k \in 1 .. Len(s) /\ k + 1 \in 1 .. Len(s)
      /\ k \in 1 .. (k + 1) - 1
  BY <1>2 DEF s
<1>4. PriorityOf[s[k]] < PriorityOf[s[k + 1]]
  BY <1>1, <1>3 DEF Lists
<1>5. /\ PriorityOf[s[k]] = orders[s[k]].priority_
      /\ PriorityOf[s[k + 1]] = orders[s[k + 1]].priority_
  BY <1>2, <1>3, PrioritiesAt
<1> QED BY <1>4, <1>5 DEF s

\* For all sizes: along the list of a level the published priorities increase,
\* also after any number of cancels (addOrder() and removeOrder()).
THEOREM StandInLine == Spec => []PriorityInLine
  BY BookInvariant, LineOrdered, PTL

\* In every state the pointers of orders and levels make up the book.
LEMMA RingsClosed == BookInv => RingsWellFormed
<1> SUFFICES ASSUME BookInv PROVE RingsWellFormed
  OBVIOUS
<1>1. LiveLevels = Elements(price_levels_) \ {Null}
  <2>1. DOMAIN price_levels_ = LevelBlocks
    BY DEF BookInv, BookTypes
  <2>2. ASSUME NEW l \in LiveLevels PROVE l \in Elements(price_levels_) \ {Null}
    <3>1. levels[l] \in MEOrderAtPriceLevel
          /\ price_levels_[priceToIndex(levels[l].price_)] = l
      BY DEF BookInv, LevelsInv
    <3>2. priceToIndex(levels[l].price_) \in LevelBlocks
      BY <3>1, PriceIndex DEF MEOrderAtPriceLevel
    <3>3. l # Null
      BY LiveBlocks, NullIsNoBlock DEF BookInv
    <3> QED BY <2>1, <3>1, <3>2, <3>3 DEF Elements
  <2>3. \A i \in LevelBlocks : price_levels_[i] # Null =>
           price_levels_[i] \in LiveLevels
    BY DEF BookInv, LevelsInv
  <2> QED BY <2>1, <2>2, <2>3 DEF Elements
<1>2. ASSUME NEW i \in LevelBlocks, price_levels_[i] # Null
      PROVE  /\ priceToIndex(levels[price_levels_[i]].price_) = i
             /\ IsRing(OrdersAt(i))
             /\ \A o \in Elements(OrdersAt(i)) :
                   /\ o \in LiveOrders
                   /\ orders[orders[o].next_order_].prev_order_ = o
                   /\ priceToIndex(orders[o].price_) = i
  <2>1. priceToIndex(levels[price_levels_[i]].price_) = i
    BY <1>2 DEF BookInv, LevelsInv
  <2>2. IsRing(OrdersAt(i))
    <3> DEFINE s == OrdersAt(i)
    <3>1. /\ Lists(s, At(i), PriorityOf)
          /\ Len(s) \in Nat \ {0}
          /\ NextOf[s[Len(s)]] = s[1]
      BY <1>2, OrdersListed
    <3> HIDE DEF s
    <3>2. Len(s) \in 1 .. Len(s)
      BY <3>1
    <3>3. s[Len(s)] \in At(i)
      BY <3>1, <3>2, SeqIndices DEF Lists
    <3>4. orders[s[Len(s)]].next_order_ = s[1]
      BY <3>1, <3>3, PrioritiesAt
    <3> QED BY <3>4 DEF IsRing, s
  <2>3. ASSUME NEW o \in At(i)
        PROVE  /\ o \in LiveOrders
               /\ orders[orders[o].next_order_].prev_order_ = o
               /\ priceToIndex(orders[o].price_) = i
    <3>1. IsLine(At(i), NextOf, PrevOf, PriorityOf, First(i))
      BY <1>2, LevelFacts
    <3>2. NextOf[o] \in At(i) /\ PrevOf[NextOf[o]] = o
      BY <3>1 DEF IsLine
    <3>3. NextOf[o] = orders[o].next_order_
      BY PrioritiesAt
    <3>4. PrevOf[NextOf[o]] = orders[NextOf[o]].prev_order_
      BY <3>2, PrioritiesAt
    <3> QED BY <3>2, <3>3, <3>4 DEF At
  <2> QED BY <2>1, <2>2, <2>3, ElementsAt
<1>3. LiveOrders \subseteq UNION {Elements(OrdersAt(i)) : i \in LevelBlocks}
  <2> SUFFICES ASSUME NEW o \in LiveOrders
               PROVE  \E i \in LevelBlocks : o \in Elements(OrdersAt(i))
    OBVIOUS
  <2>1. /\ priceToIndex(orders[o].price_) \in LevelBlocks
        /\ o \in At(priceToIndex(orders[o].price_))
    BY LiveOrderFacts
  <2> QED BY <2>1, ElementsAt
<1> QED BY <1>1, <1>2, <1>3 DEF RingsWellFormed

\* For all sizes: whatever addOrder(), addOrdersAtPrice(), removeOrder() and
\* removePriceLevel() have done, every list is a ring, linked the same way in
\* both directions, and holds exactly the orders in use at its price.
THEOREM RingsStayClosed == Spec => []RingsWellFormed
  BY BookInvariant, RingsClosed, PTL

-----------------------------------------------------------------------------
(* The refinement.  A list of a set by priority is the only one, so what   *)
(* happens to the orders of a level and to their priorities decides what   *)
(* happens to its list, whatever pointers the code has changed.            *)

\* The list does not depend on what the priorities of others are.
LEMMA ListSame ==
    ASSUME NEW S, NEW Q, NEW s, Lists(s, S, Q), NEW Q2,
           \A x \in S : Q2[x] = Q[x]
    PROVE  Lists(s, S, Q2)
<1>1. Len(s) \in Nat /\ \A k \in 1 .. Len(s) : s[k] \in S
  BY SeqIndices DEF Lists
<1>2. ASSUME NEW k \in 1 .. Len(s), NEW j \in 1 .. k - 1
      PROVE  Q2[s[j]] < Q2[s[k]]
  <2>1. j \in 1 .. Len(s)
    BY <1>1
  <2>2. Q2[s[j]] = Q[s[j]] /\ Q2[s[k]] = Q[s[k]]
    BY <1>1, <2>1
  <2>3. Q[s[j]] < Q[s[k]]
    BY DEF Lists
  <2> QED BY <2>2, <2>3
<1> QED BY <1>2 DEF Lists

\* The market order ids of the orders of s.
Ids(s, heap) == [k \in DOMAIN s |-> heap[s[k]].market_orderId_]

\* Every order of a list keeps its id: so do the ids of the list,
LEMMA IdsSame ==
    ASSUME NEW S, NEW s \in Seq(S), NEW heap, NEW h,
           \A x \in S : h[x].market_orderId_ = heap[x].market_orderId_
    PROVE  Ids(s, h) = Ids(s, heap)
<1>1. DOMAIN s = 1 .. Len(s) /\ \A k \in 1 .. Len(s) : s[k] \in S
  BY SeqIndices
<1> QED BY <1>1 DEF Ids

\* The ids of the orders in S.
IdSet(heap, S) == {heap[x].market_orderId_ : x \in S}

\* Places of the ids of a list.
LEMMA IdsEffect ==
    ASSUME NEW S, NEW s \in Seq(S), NEW heap
    PROVE  /\ DOMAIN Ids(s, heap) = 1 .. Len(s)
           /\ Len(Ids(s, heap)) = Len(s)
           /\ Ids(s, heap) \in Seq(IdSet(heap, S))
           /\ \A k \in 1 .. Len(s) :
                 Ids(s, heap)[k] = heap[s[k]].market_orderId_
<1> DEFINE f == Ids(s, heap)
           I == IdSet(heap, S)
<1>1. Len(s) \in Nat /\ DOMAIN s = 1 .. Len(s)
      /\ \A k \in 1 .. Len(s) : s[k] \in S
  BY SeqIndices
<1>2. f = [k \in 1 .. Len(s) |-> heap[s[k]].market_orderId_]
  BY <1>1, Zenon DEF Ids
<1>3. \A k \in 1 .. Len(s) : heap[s[k]].market_orderId_ \in I
  BY <1>1 DEF IdSet
<1> HIDE DEF f, I
<1>4. f \in [1 .. Len(s) -> I] /\ DOMAIN f = 1 .. Len(s)
      /\ \A k \in 1 .. Len(s) : f[k] = heap[s[k]].market_orderId_
  BY <1>2, <1>3
<1>5. f \in Seq(I) /\ Len(f) = Len(s)
  BY <1>1, <1>4
<1> QED BY <1>4, <1>5 DEF f, I

\* two sequences with the same places are the same,
LEMMA SamePlaces ==
    ASSUME NEW S, NEW s \in Seq(S), NEW T, NEW t \in Seq(T),
           Len(s) = Len(t), \A k \in 1 .. Len(s) : s[k] = t[k]
    PROVE  s = t
<1>1. DOMAIN s = DOMAIN t /\ DOMAIN s = 1 .. Len(s)
  OBVIOUS
<1>2. s = [k \in DOMAIN s |-> s[k]] /\ t = [k \in DOMAIN t |-> t[k]]
  OBVIOUS
<1> QED BY <1>1, <1>2

\* s with o behind it.
With(s, o) == Append(s, o)

\* an order at the end brings its id to the end,
LEMMA IdsAppend ==
    ASSUME NEW S, NEW s \in Seq(S), NEW o, NEW heap, NEW h,
           \A x \in S : h[x].market_orderId_ = heap[x].market_orderId_
    PROVE  Ids(With(s, o), h) = With(Ids(s, heap), h[o].market_orderId_)
<1> DEFINE u == Append(s, o)
           a == Ids(s, heap)
           m == h[o].market_orderId_
           R == IdSet(h, S \cup {o})
           I == IdSet(heap, S)
<1>1. Len(s) \in Nat /\ \A k \in 1 .. Len(s) : s[k] \in S
  BY SeqIndices
<1>2. /\ u \in Seq(S \cup {o}) /\ Len(u) = Len(s) + 1
      /\ u[Len(s) + 1] = o /\ \A k \in 1 .. Len(s) : u[k] = s[k]
  BY <1>1
<1> HIDE DEF u
<1>3. /\ Len(Ids(u, h)) = Len(s) + 1
      /\ Ids(u, h) \in Seq(R)
      /\ \A k \in 1 .. Len(s) + 1 : Ids(u, h)[k] = h[u[k]].market_orderId_
  BY <1>2, IdsEffect
<1>4. /\ Len(a) = Len(s)
      /\ a \in Seq(I)
      /\ \A k \in 1 .. Len(s) : a[k] = heap[s[k]].market_orderId_
  BY IdsEffect
<1> HIDE DEF a, I, R, m
<1>5. /\ Append(a, m) \in Seq(I \cup {m})
      /\ Len(Append(a, m)) = Len(s) + 1
      /\ Append(a, m)[Len(s) + 1] = m
      /\ \A k \in 1 .. Len(s) : Append(a, m)[k] = a[k]
  BY <1>1, <1>4
<1>6. ASSUME NEW k \in 1 .. Len(s) + 1 PROVE Ids(u, h)[k] = Append(a, m)[k]
  <2>1. CASE k = Len(s) + 1
    BY <1>2, <1>3, <1>5, <2>1 DEF m
  <2>2. CASE k \in 1 .. Len(s)
    BY <1>1, <1>2, <1>3, <1>4, <1>5, <2>2
  <2>3. k = Len(s) + 1 \/ k \in 1 .. Len(s)
    BY <1>1
  <2> QED BY <2>1, <2>2, <2>3
<1>7. Ids(u, h) = Append(a, m)
  <2> DEFINE v == Ids(u, h)
             w == Append(a, m)
  <2>1. /\ v \in Seq(R) /\ w \in Seq(I \cup {m}) /\ Len(v) = Len(w)
        /\ \A k \in 1 .. Len(v) : v[k] = w[k]
    BY <1>3, <1>5, <1>6
  <2> HIDE DEF v, w
  <2>2. v = w
    BY <2>1, SamePlaces
  <2> QED BY <2>2 DEF v, w
<1> QED BY <1>7 DEF u, a, m, With

\* and an order that leaves takes its id with it.
LEMMA IdsWithout ==
    ASSUME NEW S, NEW s \in Seq(S), NEW k \in 1 .. Len(s), NEW heap, NEW h,
           \A x \in S : h[x].market_orderId_ = heap[x].market_orderId_
    PROVE  Ids(Without(s, k), h) = Without(Ids(s, heap), k)
<1> DEFINE u == Without(s, k)
           a == Ids(s, heap)
           R == IdSet(h, S)
           I == IdSet(heap, S)
           n == Len(s) - 1
           v == Ids(u, h)
           w == Without(a, k)
<1>1. Len(s) \in Nat /\ \A j \in 1 .. Len(s) : s[j] \in S
  BY SeqIndices
<1>2. /\ u \in Seq(S) /\ Len(u) = n
      /\ \A j \in 1 .. n : u[j] = IF j < k THEN s[j] ELSE s[j + 1]
  BY WithoutEffect
<1> HIDE DEF u
<1>3. /\ Len(v) = n
      /\ v \in Seq(R)
      /\ \A j \in 1 .. n : v[j] = h[u[j]].market_orderId_
  BY <1>2, IdsEffect
<1>4. /\ Len(a) = Len(s)
      /\ a \in Seq(I)
      /\ \A j \in 1 .. Len(s) : a[j] = heap[s[j]].market_orderId_
  BY IdsEffect
<1> HIDE DEF a, I, R
<1>5. /\ w \in Seq(I) /\ Len(w) = n
      /\ \A j \in 1 .. n : w[j] = IF j < k THEN a[j] ELSE a[j + 1]
  <2>1. k \in 1 .. Len(a)
    BY <1>4
  <2> QED BY <1>4, <2>1, WithoutEffect
<1> HIDE DEF v, w
<1>6. ASSUME NEW j \in 1 .. n PROVE v[j] = w[j]
  <2> DEFINE p == IF j < k THEN j ELSE j + 1
  <2>1. p \in 1 .. Len(s)
    BY <1>1
  <2>2. u[j] = s[p] /\ w[j] = a[p]
    BY <1>2, <1>5
  <2> HIDE DEF p
  <2> QED BY <1>1, <1>3, <1>4, <2>1, <2>2
<1>7. v = w
  BY <1>3, <1>5, <1>6, SamePlaces
<1> QED BY <1>7 DEF u, v, w, a

\* The list of every level is that of its orders by priority.
Listed ==
    \A i \in LevelBlocks :
       /\ Lists(OrdersAt(i), At(i), PriorityOf)
       /\ \A x \in At(i) : PriorityOf[x] \in Nat

LEMMA ListedAlways == BookInv => Listed
  BY OrdersListed, PrioritiesAt DEF Listed

LEMMA LineIsIds == \A i \in LevelBlocks : LineAt(i) = Ids(OrdersAt(i), orders)
  BY DEF LineAt, Ids

\* The priorities after a step that keeps the terms of the orders.
LEMMA PrioritiesKept ==
    ASSUME \A x \in LiveOrders : SameTerms(orders[x], orders'[x]),
           NEW x \in LiveOrders, x \in LiveOrders'
    PROVE  PriorityOf'[x] = PriorityOf[x]
<1>1. orders'[x].priority_ = orders[x].priority_
  BY DEF SameTerms
<1> HIDE DEF LiveOrders
<1>2. PriorityOf'[x] = orders'[x].priority_
  BY DEF PriorityOf
<1>3. PriorityOf[x] = orders[x].priority_
  BY DEF PriorityOf
<1> QED BY <1>1, <1>2, <1>3

\* A level with the orders it had keeps its list,
LEMMA LevelKept ==
    ASSUME Listed, Listed', NEW i \in LevelBlocks, At(i)' = At(i),
           \A x \in LiveOrders : SameTerms(orders[x], orders'[x]),
           At(i) \subseteq LiveOrders'
    PROVE  LineAt(i)' = LineAt(i)
<1> DEFINE s == OrdersAt(i)
           t == OrdersAt(i)'
           S == At(i)
<1>1. Lists(s, S, PriorityOf) /\ \A x \in S : PriorityOf[x] \in Nat
  BY DEF Listed
<1>2. Lists(t, S, PriorityOf')
  BY DEF Listed
<1>3. S \subseteq LiveOrders
  BY DEF At
<1>4. \A x \in S : PriorityOf'[x] = PriorityOf[x]
  BY <1>3, PrioritiesKept
<1>5. \A x \in S : orders'[x].market_orderId_ = orders[x].market_orderId_
  BY <1>3 DEF SameTerms
<1>6. LineAt(i) = Ids(s, orders) /\ LineAt(i)' = Ids(t, orders')
  BY LineIsIds DEF LineAt, Ids
<1> HIDE DEF s, t, S
<1>7. Lists(t, S, PriorityOf)
  BY <1>2, <1>4, ListSame
<1>8. t = s
  BY <1>1, <1>7, ListedOnce
<1>9. s \in Seq(S)
  BY <1>1 DEF Lists
<1>10. Ids(s, orders') = Ids(s, orders)
  BY <1>5, <1>9, IdsSame
<1> QED BY <1>6, <1>8, <1>10

\* a level an order comes to has it at the end,
LEMMA LevelJoined ==
    ASSUME Listed, Listed', NEW i \in LevelBlocks, NEW o, o \notin LiveOrders,
           At(i)' = At(i) \cup {o}, LiveOrders' = LiveOrders \cup {o},
           \A x \in LiveOrders : SameTerms(orders[x], orders'[x]),
           \A x \in At(i) : orders[x].priority_ < orders'[o].priority_
    PROVE  LineAt(i)' = Append(LineAt(i), orders'[o].market_orderId_)
<1> DEFINE s == OrdersAt(i)
           t == OrdersAt(i)'
           S == At(i)
           T == S \cup {o}
<1>1. Lists(s, S, PriorityOf) /\ \A x \in S : PriorityOf[x] \in Nat
  BY DEF Listed
<1>2. Lists(t, T, PriorityOf') /\ \A x \in T : PriorityOf'[x] \in Nat
  BY DEF Listed
<1>3. S \subseteq LiveOrders /\ o \notin S
  BY DEF At
<1>4. \A x \in S : PriorityOf'[x] = PriorityOf[x]
  BY <1>3, PrioritiesKept
<1>5. PriorityOf'[o] = orders'[o].priority_
  BY DEF PriorityOf
<1>6. \A x \in S : PriorityOf[x] = orders[x].priority_
  BY <1>3 DEF PriorityOf
<1>7. \A x \in S : orders'[x].market_orderId_ = orders[x].market_orderId_
  BY <1>3 DEF SameTerms
<1>8. LineAt(i) = Ids(s, orders) /\ LineAt(i)' = Ids(t, orders')
  BY LineIsIds DEF LineAt, Ids
<1>9. \A x \in S : orders[x].priority_ < orders'[o].priority_
  OBVIOUS
<1> HIDE DEF s, t, S
<1>10. \A x \in S : PriorityOf'[x] < PriorityOf'[o]
  BY <1>4, <1>5, <1>6, <1>9
<1>11. Lists(Append(s, o), T, PriorityOf')
  BY <1>1, <1>3, <1>4, <1>10, ListGrows
<1> HIDE DEF T
<1>12. t = Append(s, o)
  BY <1>2, <1>11, ListedOnce
<1>13. s \in Seq(S)
  BY <1>1 DEF Lists
<1>14. Ids(With(s, o), orders')
          = With(Ids(s, orders), orders'[o].market_orderId_)
  BY <1>7, <1>13, IdsAppend
<1> QED BY <1>8, <1>12, <1>14 DEF With

\* and a level an order leaves has the others as they were.
LEMMA LevelLeft ==
    ASSUME Listed, Listed', NEW i \in LevelBlocks, NEW o \in At(i),
           At(i)' = At(i) \ {o}, LiveOrders' = LiveOrders \ {o},
           \A x \in LiveOrders : SameTerms(orders[x], orders'[x])
    PROVE  \E k \in 1 .. Len(OrdersAt(i)) :
              LineAt(i)' = Without(LineAt(i), k)
<1> DEFINE s == OrdersAt(i)
           t == OrdersAt(i)'
           S == At(i)
           T == S \ {o}
<1>1. Lists(s, S, PriorityOf) /\ \A x \in S : PriorityOf[x] \in Nat
  BY DEF Listed
<1>2. Lists(t, T, PriorityOf') /\ \A x \in T : PriorityOf'[x] \in Nat
  BY DEF Listed
<1>3. S \subseteq LiveOrders /\ T \subseteq LiveOrders'
  BY DEF At
<1>4. \A x \in S : x # o => PriorityOf'[x] = PriorityOf[x]
  BY <1>3, PrioritiesKept
<1>5. \A x \in S : orders'[x].market_orderId_ = orders[x].market_orderId_
  BY <1>3 DEF SameTerms
<1>6. LineAt(i) = Ids(s, orders) /\ LineAt(i)' = Ids(t, orders')
  BY LineIsIds DEF LineAt, Ids
<1>7. o \in S
  OBVIOUS
<1> HIDE DEF s, t, S
<1>8. PICK k \in 1 .. Len(s) : s[k] = o
  BY <1>1, <1>7 DEF Lists
<1>9. Lists(Without(s, k), T, PriorityOf')
  BY <1>1, <1>4, <1>8, ListShrinks
<1> HIDE DEF T
<1>10. t = Without(s, k)
  BY <1>2, <1>9, ListedOnce
<1>11. s \in Seq(S)
  BY <1>1 DEF Lists
<1>12. Ids(Without(s, k), orders') = Without(Ids(s, orders), k)
  BY <1>5, <1>11, IdsWithout
<1> QED BY <1>6, <1>8, <1>10, <1>12 DEF s

\* Only the line at i changes, to q.
OneLine(i, q) ==
    /\ LineAt(i)' = q
    /\ \A j \in LevelBlocks : j # i => LineAt(j)' = LineAt(j)

\* An order that comes to rest joins one line, with the largest id so far.
LEMMA RestsJoins ==
    ASSUME BookInv, Listed, Listed', NEW o, NEW order, Rests(o, order)
    PROVE  \E i \in LevelBlocks :
              OneLine(i, With(LineAt(i), next_market_order_id_))
<1> DEFINE i == priceToIndex(order.price_)
<1>1. order \in MEOrder /\ Grows(o, order)
      /\ order.market_orderId_ = next_market_order_id_
  BY DEF Rests
<1>2. i \in LevelBlocks
  BY <1>1, PriceIndex DEF MEOrder
<1>3. /\ o \notin LiveOrders /\ LiveOrders' = LiveOrders \cup {o}
      /\ \A x \in LiveOrders : SameTerms(orders[x], orders'[x])
      /\ SameTerms(order, orders'[o])
      /\ \A j : At(j)' = IF j = i THEN At(j) \cup {o} ELSE At(j)
  BY <1>1 DEF Grows
<1>4. \A x \in At(i) : orders[x].priority_ < order.priority_
  BY DEF Rests
<1> HIDE DEF i
<1>5. /\ orders'[o].priority_ = order.priority_
      /\ orders'[o].market_orderId_ = next_market_order_id_
  BY <1>1, <1>3 DEF SameTerms
<1>6. LineAt(i)' = With(LineAt(i), next_market_order_id_)
  <2>1. \A x \in At(i) : orders[x].priority_ < orders'[o].priority_
    BY <1>4, <1>5
  <2>2. At(i)' = At(i) \cup {o}
    BY <1>3
  <2>3. LineAt(i)' = Append(LineAt(i), orders'[o].market_orderId_)
    BY <1>2, <1>3, <2>1, <2>2, LevelJoined
  <2> QED BY <1>5, <2>3 DEF With
<1>7. ASSUME NEW j \in LevelBlocks, j # i PROVE LineAt(j)' = LineAt(j)
  <2>1. At(j)' = At(j)
    BY <1>3, <1>7
  <2>2. At(j) \subseteq LiveOrders'
    BY <1>3 DEF At
  <2> QED BY <1>3, <2>1, <2>2, LevelKept
<1>8. OneLine(i, With(LineAt(i), next_market_order_id_))
  BY <1>6, <1>7 DEF OneLine
<1> QED BY <1>2, <1>8

\* An order that departs leaves one line.
LEMMA DepartsLeaves ==
    ASSUME BookInv, Listed, Listed', NEW o, Departs(o)
    PROVE  \E i \in LevelBlocks : \E k \in 1 .. Len(OrdersAt(i)) :
              OneLine(i, Without(LineAt(i), k))
<1>1. o \in LiveOrders /\ Shrinks(o)
  BY DEF Departs
<1>2. PICK i \in LevelBlocks : i = priceToIndex(orders[o].price_) /\ o \in At(i)
  BY <1>1, LiveOrderFacts
<1>3. /\ LiveOrders' = LiveOrders \ {o}
      /\ \A x \in LiveOrders : SameTerms(orders[x], orders'[x])
      /\ \A j : At(j)' = At(j) \ {o}
  BY <1>1 DEF Shrinks
<1>4. \A j : j # i => o \notin At(j)
  BY <1>2 DEF At
<1>5. PICK k \in 1 .. Len(OrdersAt(i)) : LineAt(i)' = Without(LineAt(i), k)
  <2>1. At(i)' = At(i) \ {o}
    BY <1>3
  <2> QED BY <1>2, <1>3, <2>1, LevelLeft
<1>6. ASSUME NEW j \in LevelBlocks, j # i PROVE LineAt(j)' = LineAt(j)
  <2>1. At(j)' = At(j)
    BY <1>3, <1>4, <1>6
  <2>2. At(j) \subseteq LiveOrders'
    BY <1>3, <1>4, <1>6 DEF At
  <2> QED BY <1>3, <2>1, <2>2, LevelKept
<1>7. OneLine(i, Without(LineAt(i), k))
  BY <1>5, <1>6 DEF OneLine
<1> QED BY <1>2, <1>7

\* Without a change of the pointers the lines are what they were.
LEMMA StaysWaits ==
    ASSUME Stays
    PROVE  \A i \in LevelBlocks : LineAt(i)' = LineAt(i)
<1>1. orders' = orders /\ levels' = levels /\ price_levels_' = price_levels_
  BY DEF Stays
<1>2. ASSUME NEW i \in LevelBlocks PROVE OrdersAt(i)' = OrdersAt(i)
  BY <1>1 DEF OrdersAt, RingFrom
<1> QED BY <1>1, <1>2 DEF LineAt

\* What stands in a line: sequences of ids that are all given out already.
LEMMA LineTyped ==
    ASSUME BookInv, NEW i \in LevelBlocks
    PROVE  /\ LineAt(i) \in Seq(Nat)
           /\ Len(LineAt(i)) = Len(OrdersAt(i))
           /\ \A k \in DOMAIN LineAt(i) : LineAt(i)[k] < next_market_order_id_
<1> DEFINE s == OrdersAt(i)
           S == At(i)
           q == LineAt(i)
           I == IdSet(orders, S)
<1>1. s \in Seq(S)
  BY OrdersListed DEF Lists
<1>2. q = Ids(s, orders)
  BY LineIsIds
<1>3. ASSUME NEW x \in S
      PROVE  /\ orders[x].market_orderId_ \in Nat
             /\ orders[x].market_orderId_ < next_market_order_id_
  <2>1. x \in LiveOrders
    BY DEF At
  <2>2. orders[x] \in MEOrder
    BY <2>1, LiveOrderFacts
  <2> QED BY <2>1, <2>2 DEF BookInv, OrdersInv, MEOrder
<1> HIDE DEF s, S, q
<1>4. /\ DOMAIN q = 1 .. Len(s)
      /\ Len(q) = Len(s)
      /\ q \in Seq(I)
      /\ \A k \in 1 .. Len(s) : q[k] = orders[s[k]].market_orderId_
  BY <1>1, <1>2, IdsEffect
<1>5. I \subseteq Nat
  BY <1>3 DEF IdSet
<1> HIDE DEF I
<1>6. q \in Seq(Nat)
  <2>1. Len(q) \in Nat /\ \A k \in 1 .. Len(q) : q[k] \in I
    BY <1>4, SeqIndices
  <2>2. q = [k \in 1 .. Len(q) |-> q[k]]
    BY <1>4
  <2>3. q \in [1 .. Len(q) -> Nat]
    BY <1>5, <2>1, <2>2
  <2> QED BY <2>1, <2>3
<1>7. \A k \in 1 .. Len(s) : s[k] \in S
  BY <1>1, SeqIndices
<1>8. \A k \in DOMAIN q : q[k] < next_market_order_id_
  BY <1>3, <1>4, <1>7
<1> QED BY <1>4, <1>6, <1>8 DEF s, q

\* All the lines.
Queues == [i \in LevelBlocks |-> LineAt(i)]

\* A step that changes the line at i to q, as LevelQueues sees it.
LEMMA OneLineChanges ==
    ASSUME NEW i \in LevelBlocks, NEW q, OneLine(i, q)
    PROVE  Queues' = [Queues EXCEPT ![i] = q]
<1>1. \A j \in LevelBlocks : LineAt(j)' = IF j = i THEN q ELSE LineAt(j)
  BY DEF OneLine
<1>2. Queues' = [j \in LevelBlocks |-> LineAt(j)']
  BY DEF Queues
<1>3. Queues' = [j \in LevelBlocks |-> IF j = i THEN q ELSE LineAt(j)]
  BY <1>1, <1>2
<1> QED BY <1>3 DEF Queues

\* Each step of the book is a step of the waiting lines, or none.
LEMMA LinesStep ==
    ASSUME BookInv, Listed, Listed',
           \/ Stays
           \/ \E o, order : Rests(o, order)
           \/ \E o : Departs(o)
    PROVE  Lines!Next \/ Queues' = Queues
<1>1. CASE Stays
  <2>1. \A i \in LevelBlocks : LineAt(i)' = LineAt(i)
    BY <1>1, StaysWaits
  <2>2. Queues' = [j \in LevelBlocks |-> LineAt(j)']
    BY DEF Queues
  <2> QED BY <2>1, <2>2 DEF Queues
<1>2. ASSUME NEW o, NEW order, Rests(o, order) PROVE Lines!Next
  <2> DEFINE id == next_market_order_id_
  <2>1. PICK i \in LevelBlocks : OneLine(i, With(LineAt(i), id))
    BY <1>2, RestsJoins
  <2>2. id \in 1 .. MaxRequests
    BY <1>2, MaxRequestsAssumption DEF Rests, BookInv, BookTypes
  <2>3. Queues' = [Queues EXCEPT ![i] = With(LineAt(i), id)]
    BY <2>1, OneLineChanges
  <2>4. Queues[i] = LineAt(i)
    BY DEF Queues
  <2>5. Queues' = [Queues EXCEPT ![i] = Append(@, id)]
    BY <2>3, <2>4 DEF With
  <2>6. Queues'[i] # Queues[i]
    <3>1. Queues'[i] = Append(LineAt(i), id)
      BY <2>5 DEF Queues
    <3>2. LineAt(i) \in Seq(Nat) /\ id \in Nat
      BY LineTyped, <2>2
    <3>3. Len(Append(LineAt(i), id)) = Len(LineAt(i)) + 1
          /\ Len(LineAt(i)) \in Nat
      BY <3>2
    <3> QED BY <2>4, <3>1, <3>3
  <2>7. ASSUME NEW other \in Lines!Waiting PROVE other < id
    <3>1. PICK j \in LevelBlocks : \E k \in DOMAIN LineAt(j) :
             other = LineAt(j)[k]
      BY DEF Lines!Waiting
    <3> QED BY <3>1, LineTyped
  <2>8. Lines!Join(i, id)
    BY <2>5, <2>7 DEF Lines!Join, Queues
  <2> QED BY <2>2, <2>6, <2>8 DEF Lines!Next, Queues
<1>3. ASSUME NEW o, Departs(o) PROVE Lines!Next
  <2>0. PICK i \in LevelBlocks : \E k \in 1 .. Len(OrdersAt(i)) :
           OneLine(i, Without(LineAt(i), k))
    BY <1>3, DepartsLeaves
  <2>1. PICK k \in 1 .. Len(OrdersAt(i)) : OneLine(i, Without(LineAt(i), k))
    BY <2>0
  <2>2. /\ LineAt(i) \in Seq(Nat)
        /\ k \in 1 .. Len(LineAt(i))
        /\ k \in DOMAIN LineAt(i)
    <3>1. LineAt(i) \in Seq(Nat) /\ Len(LineAt(i)) = Len(OrdersAt(i))
      BY LineTyped
    <3>2. DOMAIN LineAt(i) = 1 .. Len(LineAt(i))
      BY <3>1, SeqIndices
    <3> QED BY <2>1, <3>1, <3>2
  <2>3. Queues' = [Queues EXCEPT ![i] = Without(LineAt(i), k)]
    BY <2>1, OneLineChanges
  <2>4. Queues[i] = LineAt(i)
    BY DEF Queues
  <2>5. Queues' = [Queues EXCEPT ![i] = Lines!RemoveAt(@, k)]
    BY <2>3, <2>4 DEF Without, Lines!RemoveAt
  <2>6. Queues'[i] # Queues[i]
    <3>1. Queues'[i] = Without(LineAt(i), k)
      BY <2>3 DEF Queues
    <3>2. Len(Without(LineAt(i), k)) = Len(LineAt(i)) - 1
      BY <2>2, WithoutEffect
    <3>3. Len(LineAt(i)) \in Nat
      BY <2>2, SeqIndices
    <3> QED BY <2>4, <3>1, <3>2, <3>3
  <2>7. Lines!Leave(i, k)
    BY <2>5 DEF Lines!Leave, Queues
  <2>8. k \in DOMAIN Queues[i]
    BY <2>2, <2>4
  <2> QED BY <2>6, <2>7, <2>8 DEF Lines!Next, Queues
<1> QED BY <1>1, <1>2, <1>3

\* The linked lists are waiting lines, for every size of the pools and of the
\* price table and any number of clients: an order that comes to rest goes to
\* the end of one line, behind orders that are all older, a cancel takes one
\* order out of its line and leaves the others where they were, and no other
\* step moves anybody.
THEOREM BookImplementsLines == Spec => ImplementsLines
<1>1. Init => Lines!Init
  <2> SUFFICES ASSUME Init PROVE Lines!Init
    OBVIOUS
  <2>1. ASSUME NEW i \in LevelBlocks PROVE LineAt(i) = << >>
    <3>1. OrdersAt(i) = << >>
      BY DEF Init, OrdersAt
    <3> QED BY <3>1 DEF LineAt
  <2> QED BY <2>1 DEF Lines!Init
<1>2. BookInv /\ HeadsNeverSet /\ Listed /\ Listed' /\ [Next]_vars
         => [Lines!Next]_Queues
  <2> SUFFICES ASSUME BookInv, HeadsNeverSet, Listed, Listed', [Next]_vars
               PROVE  [Lines!Next]_Queues
    OBVIOUS
  <2>1. \/ Stays
        \/ \E o, order : Rests(o, order)
        \/ \E o : Departs(o)
    BY StepCases
  <2>2. Lines!Next \/ Queues' = Queues
    BY <2>1, LinesStep
  <2> QED BY <2>2
<1>3. Spec => []Listed
  BY BookInvariant, ListedAlways, PTL
<1>4. Spec => [][Lines!Next]_Queues
  BY <1>2, <1>3, BookInvariant, BookNeverTrades, PTL DEF Spec
<1>5. Spec => Lines!Init
  BY <1>1, PTL DEF Spec
<1> QED BY <1>4, <1>5, PTL DEF ImplementsLines, Lines!Spec, Queues
=============================================================================

----------------------------- MODULE MEOrderBook -----------------------------
(***************************************************************************)
(* Exchange::MEOrderBook (exchange/matcher/me_order_book.cpp) and the      *)
(* dispatch of requests to it in MatchingEngine::processClientRequest: the *)
(* limit order book of one instrument, driven by one thread.               *)
(*                                                                         *)
(* Orders and price levels are blocks of two MemPools and point at each    *)
(* other.  The orders of a level form a circular doubly linked list that   *)
(* starts at first_order_.  Pointers are block numbers, nullptr is Null.   *)
(*                                                                         *)
(* A handler is a function of the book, as it is in the code: the private  *)
(* member functions take a book and return the book they leave behind,     *)
(* with the messages sent on the way.  The book starts zeroed: at 2 GiB it *)
(* is allocated straight from fresh pages.                                 *)
(***************************************************************************)
EXTENDS Integers, Sequences

CONSTANTS
    Clients,         \* client ids below ME_MAX_NUM_CLIENTS
    OrderIds,        \* the client order ids that clients send
    Prices, Qtys,    \* what clients send
    MaxOrderIds,     \* ME_MAX_ORDER_IDS: order pool, and ids per client
    MaxPriceLevels,  \* ME_MAX_PRICE_LEVELS: level pool, and price table
    MaxRequests,     \* bound: NEW requests in a behaviour
    Null             \* nullptr, and the *_INVALID constants

ASSUME OrderIdsAssumption == OrderIds \subseteq Nat
ASSUME PricesAssumption == Prices \subseteq Nat
ASSUME QtysAssumption == Qtys \subseteq Nat
ASSUME MaxOrderIdsAssumption == MaxOrderIds \in Nat \ {0}
ASSUME MaxPriceLevelsAssumption == MaxPriceLevels \in Nat \ {0}
ASSUME MaxRequestsAssumption == MaxRequests \in Nat
ASSUME NullAssumption == Null \notin Int

VARIABLES
    orders,                 \* the objects in order_pool_
    order_pool_,
    levels,                 \* the objects in price_levels_pool_
    price_levels_pool_,
    price_levels_,          \* the price table
    client_orders_,
    bid_levels_head_,
    ask_levels_head_,
    next_market_order_id_,
    responses,              \* sent to clients by the last request
    updates,                \* published by the last request
    process                 \* "running", "terminated" or "corrupted"

vars == <<orders, order_pool_, levels, price_levels_pool_, price_levels_,
          client_orders_, bid_levels_head_, ask_levels_head_,
          next_market_order_id_, responses, updates, process>>

Sides == {"BUY", "SELL"}
OrderBlocks == 0 .. MaxOrderIds - 1
LevelBlocks == 0 .. MaxPriceLevels - 1

\* The orders and the levels that are in use.
InUse(pool) == {b \in DOMAIN pool.is_free_ : ~pool.is_free_[b]}
LiveOrders == InUse(order_pool_)
LiveLevels == InUse(price_levels_pool_)

OrderPool == INSTANCE MemPool
    WITH NumElems <- MaxOrderIds, pool <- order_pool_, held <- LiveOrders
LevelPool == INSTANCE MemPool
    WITH NumElems <- MaxPriceLevels, pool <- price_levels_pool_,
         held <- LiveLevels

\* The state as a value, for the functions that take and return a book.
Book ==
    [orders |-> orders, order_pool_ |-> order_pool_, levels |-> levels,
     price_levels_pool_ |-> price_levels_pool_,
     price_levels_ |-> price_levels_, client_orders_ |-> client_orders_,
     bid_levels_head_ |-> bid_levels_head_,
     ask_levels_head_ |-> ask_levels_head_,
     next_market_order_id_ |-> next_market_order_id_,
     responses |-> << >>, updates |-> << >>, process |-> process]

\* The handler has left book s behind.
Becomes(s) ==
    /\ orders' = s.orders
    /\ order_pool_' = s.order_pool_
    /\ levels' = s.levels
    /\ price_levels_pool_' = s.price_levels_pool_
    /\ price_levels_' = s.price_levels_
    /\ client_orders_' = s.client_orders_
    /\ bid_levels_head_' = s.bid_levels_head_
    /\ ask_levels_head_' = s.ask_levels_head_
    /\ next_market_order_id_' = s.next_market_order_id_
    /\ responses' = s.responses
    /\ updates' = s.updates
    /\ process' = s.process

Init ==
    /\ orders = [b \in OrderBlocks |-> Null]
    /\ order_pool_ = OrderPool!EmptyPool
    /\ levels = [b \in LevelBlocks |-> Null]
    /\ price_levels_pool_ = LevelPool!EmptyPool
    /\ price_levels_ = [i \in LevelBlocks |-> Null]
    /\ client_orders_ = [c \in Clients |-> [o \in OrderBlocks |-> Null]]
    /\ bid_levels_head_ = Null
    /\ ask_levels_head_ = Null
    /\ next_market_order_id_ = 1
    /\ responses = << >>
    /\ updates = << >>
    /\ process = "running"

Running(s) == s.process = "running"

\* exit(), std::terminate() or a fault: nothing of the process is left.
Terminated(s) == [s EXCEPT !.process = "terminated"]

Send(s, response) == [s EXCEPT !.responses = Append(@, response)]
Publish(s, update) == [s EXCEPT !.updates = Append(@, update)]

Response(type, client, orderId, marketId, side, price, execQty, leftQty) ==
    [type |-> type, clientId_ |-> client, client_order_id_ |-> orderId,
     marker_order_id |-> marketId, side_ |-> side, price_ |-> price,
     exec_qty_ |-> execQty, left_qty_ |-> leftQty]

Update(type, orderId, side, price, qty, priority) ==
    [type |-> type, orderId_ |-> orderId, side_ |-> side, price_ |-> price,
     qty_ |-> qty, priority_ |-> priority]

-----------------------------------------------------------------------------
(* The pools.  fault chooses what touching memory past a pool's end does.  *)

allocateOrder(s, order, fault) ==
    LET b == s.order_pool_.next_free_index_
        taken == OrderPool!Taken(s.order_pool_)
    IN  IF b = OrderPool!PastEnd
        THEN [s EXCEPT !.process = IF fault THEN "terminated" ELSE "corrupted"]
        ELSE IF ~s.order_pool_.is_free_[b]
        THEN Terminated(s)
        ELSE [s EXCEPT !.orders[b] = order, !.order_pool_ = taken,
                       !.process =
                          IF fault /\ taken.next_free_index_ = OrderPool!PastEnd
                          THEN "terminated" ELSE @]

allocateLevel(s, level, fault) ==
    LET b == s.price_levels_pool_.next_free_index_
        taken == LevelPool!Taken(s.price_levels_pool_)
    IN  IF b = LevelPool!PastEnd
        THEN [s EXCEPT !.process = IF fault THEN "terminated" ELSE "corrupted"]
        ELSE IF ~s.price_levels_pool_.is_free_[b]
        THEN Terminated(s)
        ELSE [s EXCEPT !.levels[b] = level, !.price_levels_pool_ = taken,
                       !.process =
                          IF fault /\ taken.next_free_index_ = LevelPool!PastEnd
                          THEN "terminated" ELSE @]

deallocateOrder(s, b) ==
    IF s.order_pool_.is_free_[b]
    THEN Terminated(s)
    ELSE [s EXCEPT !.order_pool_ = OrderPool!Returned(@, b)]

deallocateLevel(s, b) ==
    IF s.price_levels_pool_.is_free_[b]
    THEN Terminated(s)
    ELSE [s EXCEPT !.price_levels_pool_ = LevelPool!Returned(@, b)]

-----------------------------------------------------------------------------
(* Price levels. *)

priceToIndex(price) == price % MaxPriceLevels

getPriceLevel(s, price) == s.price_levels_[priceToIndex(price)]

LevelsHead(s, side) ==
    IF side = "BUY" THEN s.bid_levels_head_ ELSE s.ask_levels_head_

\* Is price a better one than other for this side?
Better(side, price, other) ==
    IF side = "BUY" THEN price > other ELSE price < other

\* The loop of addOrdersAtPrice(): from the head on, past the levels the new
\* one is better than, to the last level at most.
InsertionPoint(s, l, head) ==
    LET walk[x \in LevelBlocks] ==
            IF /\ Better(s.levels[l].side_, s.levels[l].price_,
                         s.levels[x].price_)
               /\ s.levels[x].next_price_level_ # head
            THEN walk[s.levels[x].next_price_level_]
            ELSE x
    IN  walk[head]

\* With no head the new level is linked to itself and assigned to a local
\* variable: the head of the book stays null.
addOrdersAtPrice(s, l) ==
    LET side    == s.levels[l].side_
        head    == LevelsHead(s, side)
        listed  == [s EXCEPT
                      !.price_levels_[priceToIndex(s.levels[l].price_)] = l]
        current == InsertionPoint(s, l, head)
        before  == s.levels[current].prev_price_level_
        linked  == [listed EXCEPT !.levels =
                      [@ EXCEPT ![l].next_price_level_ = current,
                                ![l].prev_price_level_ = before,
                                ![before].next_price_level_ = l,
                                ![current].prev_price_level_ = l]]
        first   == Better(side, s.levels[l].price_, s.levels[head].price_)
    IN  IF head = Null
        THEN [listed EXCEPT !.levels[l].prev_price_level_ = l,
                            !.levels[l].next_price_level_ = l]
        ELSE [linked EXCEPT
                !.bid_levels_head_ = IF first /\ side = "BUY" THEN l ELSE @,
                !.ask_levels_head_ = IF first /\ side # "BUY" THEN l ELSE @]

\* Mutant: the level stays in the price table.
removePriceLevelKeepsEntry(s, side, price) ==
    deallocateLevel(s, getPriceLevel(s, price))

\* The new head, too, is assigned to a local variable only.
removePriceLevel(s, side, price) ==
    LET l        == getPriceLevel(s, price)
        next     == s.levels[l].next_price_level_
        prev     == s.levels[l].prev_price_level_
        unlinked == IF next = l
                    THEN s
                    ELSE [s EXCEPT !.levels =
                            [@ EXCEPT ![prev].next_price_level_ = next,
                                      ![next].prev_price_level_ = prev]]
    IN  deallocateLevel(
            [unlinked EXCEPT !.price_levels_[priceToIndex(price)] = Null], l)

-----------------------------------------------------------------------------
(* Orders. *)

\* Mutant: the first order's priority is taken for the last one's.
getNextPriorityOfFirst(s, price) ==
    LET l == getPriceLevel(s, price)
    IN  IF l = Null THEN 1 ELSE s.orders[s.levels[l].first_order_].priority_ + 1

\* Mutant: an empty level has no priority to count from.
getNextPriorityInvalid(s, price) ==
    LET l == getPriceLevel(s, price)
    IN  IF l = Null
        THEN Null
        ELSE s.orders[s.orders[s.levels[l].first_order_].prev_order_].priority_
             + 1

\* One more than the last order of the level; first -> prev is the last.
getNextPriority(s, price) ==
    LET l == getPriceLevel(s, price)
    IN  IF l = Null
        THEN 1
        ELSE s.orders[s.orders[s.levels[l].first_order_].prev_order_].priority_
             + 1

\* Mutant: the order goes to the front of its level.
EnlistedInFront(s, o, fault) ==
    LET order == s.orders[o]
        l     == getPriceLevel(s, order.price_)
        alone == allocateLevel(
                    [s EXCEPT !.orders[o] = [@ EXCEPT !.next_order_ = o,
                                                      !.prev_order_ = o]],
                    [side_ |-> order.side_, price_ |-> order.price_,
                     first_order_ |-> o, prev_price_level_ |-> Null,
                     next_price_level_ |-> Null], fault)
        first == s.levels[l].first_order_
        last  == s.orders[first].prev_order_
    IN  IF l = Null /\ ~Running(alone)
        THEN alone
        ELSE IF l = Null
        THEN addOrdersAtPrice(alone, s.price_levels_pool_.next_free_index_)
        ELSE [s EXCEPT !.levels[l].first_order_ = o,
                       !.orders = [@ EXCEPT ![last].next_order_ = o,
                                            ![o].prev_order_ = last,
                                            ![o].next_order_ = first,
                                            ![first].prev_order_ = o]]

\* The order joins its level at the end, or starts a level.
Enlisted(s, o, fault) ==
    LET order == s.orders[o]
        l     == getPriceLevel(s, order.price_)
        alone == allocateLevel(
                    [s EXCEPT !.orders[o] = [@ EXCEPT !.next_order_ = o,
                                                      !.prev_order_ = o]],
                    [side_ |-> order.side_, price_ |-> order.price_,
                     first_order_ |-> o, prev_price_level_ |-> Null,
                     next_price_level_ |-> Null], fault)
        first == s.levels[l].first_order_
        last  == s.orders[first].prev_order_
    IN  IF l # Null
        THEN [s EXCEPT !.orders = [@ EXCEPT ![last].next_order_ = o,
                                            ![o].prev_order_ = last,
                                            ![o].next_order_ = first,
                                            ![first].prev_order_ = o]]
        ELSE IF ~Running(alone)
        THEN alone
        ELSE addOrdersAtPrice(alone, s.price_levels_pool_.next_free_index_)

\* Mutant: only an order that starts a level is entered in client_orders_.
addOrderInBranch(s, o, fault) ==
    LET order  == s.orders[o]
        placed == Enlisted(s, o, fault)
    IN  IF ~Running(placed) \/ getPriceLevel(s, order.price_) # Null
        THEN placed
        ELSE IF order.client_orderId_ \notin OrderBlocks
        THEN Terminated(placed)
        ELSE [placed EXCEPT
                !.client_orders_[order.clientId_][order.client_orderId_] = o]

\* client_orders_.at().at() throws for an id that is too large, and throwing
\* from a noexcept function terminates.
addOrder(s, o, fault) ==
    LET order  == s.orders[o]
        placed == Enlisted(s, o, fault)
    IN  IF ~Running(placed)
        THEN placed
        ELSE IF order.client_orderId_ \notin OrderBlocks
        THEN Terminated(placed)
        ELSE [placed EXCEPT
                !.client_orders_[order.clientId_][order.client_orderId_] = o]

\* removeOrder(), first half: the order leaves the list of its level, and the
\* last order takes the level with it.
Detached(s, o) ==
    LET l    == getPriceLevel(s, s.orders[o].price_)
        prev == s.orders[o].prev_order_
        next == s.orders[o].next_order_
    IN  IF prev = o
        THEN removePriceLevel(s, s.orders[o].side_, s.orders[o].price_)
        ELSE [s EXCEPT !.orders = [@ EXCEPT ![prev].next_order_ = next,
                                            ![next].prev_order_ = prev],
                       !.levels[l].first_order_ = IF @ = o THEN next ELSE @]

\* Mutant: the client's entry is not cleared.
removeOrderKeepsEntry(s, o) ==
    LET detached == Detached(s, o)
    IN  IF Running(detached) THEN deallocateOrder(detached, o) ELSE detached

removeOrder(s, o) ==
    LET c        == s.orders[o].clientId_
        id       == s.orders[o].client_orderId_
        detached == Detached(s, o)
    IN  IF Running(detached)
        THEN deallocateOrder([detached EXCEPT !.client_orders_[c][id] = Null],
                             o)
        ELSE detached

-----------------------------------------------------------------------------
(* Matching.  x is a book with what is left of the incoming order, taker.  *)

match(x, taker, o) ==
    LET s      == x.book
        order  == s.orders[o]
        fill   == IF x.left < order.qty_ THEN x.left ELSE order.qty_
        left   == x.left - fill
        rest   == order.qty_ - fill
        filled == Publish(
                    Send(Send([s EXCEPT !.orders[o].qty_ = rest],
                              Response("FILLED", taker.clientId_,
                                       taker.client_orderId_,
                                       taker.market_orderId_, taker.side_,
                                       order.price_, fill, left)),
                         Response("FILLED", order.clientId_,
                                  order.client_orderId_,
                                  order.market_orderId_, order.side_,
                                  order.price_, fill, rest)),
                    Update("TRADE", Null, taker.side_, order.price_, fill,
                           Null))
    IN  [left |-> left,
         book |-> IF rest = 0
                  THEN removeOrder(
                         Publish(filled,
                                 Update("CANCEL", order.market_orderId_,
                                        order.side_, order.price_,
                                        order.qty_, Null)), o)
                  ELSE Publish(filled,
                               Update("MODIFY", order.market_orderId_,
                                      order.side_, order.price_, rest,
                                      order.priority_))]

OppositeHead(s, side) ==
    IF side = "BUY" THEN s.ask_levels_head_ ELSE s.bid_levels_head_

\* One round of the loop in checkForMatch(): the first order of the best
\* opposite level trades unless its price is out of reach.
MatchRound(x, taker) ==
    LET s     == x.book
        head  == OppositeHead(s, taker.side_)
        first == s.levels[head].first_order_
    IN  IF x.left = 0 \/ head = Null \/ ~Running(s)
        THEN x
        ELSE IF Better(taker.side_, s.orders[first].price_, taker.price_)
        THEN x
        ELSE match(x, taker, first)

\* The loop is not entered without a head; every round but the last removes
\* an order.
checkForMatch(s, taker) ==
    LET rounds[n \in 0 .. MaxOrderIds] ==
            IF n = 0 THEN [book |-> s, left |-> taker.qty_]
                     ELSE MatchRound(rounds[n - 1], taker)
    IN  IF OppositeHead(s, taker.side_) = Null
        THEN [book |-> s, left |-> taker.qty_]
        ELSE rounds[MaxOrderIds]

-----------------------------------------------------------------------------
(* The two requests. *)

\* Mutant: the update names the order by its client's id.
AnnouncementByClientId(order) ==
    Update("ADD", order.client_orderId_, order.side_, order.price_,
           order.qty_, order.priority_)

\* The market update for an order that comes to rest in the book.
Announcement(order) ==
    Update("ADD", order.market_orderId_, order.side_, order.price_,
           order.qty_, order.priority_)

\* add(): ACCEPTED, then what can be filled, then what is left is put into
\* the book and announced.
add(s, c, id, side, price, qty, fault) ==
    LET marketId == s.next_market_order_id_
        accepted == Send([s EXCEPT !.next_market_order_id_ = @ + 1],
                         Response("ACCEPTED", c, id, marketId, side, price, 0,
                                  qty))
        taker    == [clientId_ |-> c, client_orderId_ |-> id,
                     market_orderId_ |-> marketId, side_ |-> side,
                     price_ |-> price, qty_ |-> qty]
        matched  == checkForMatch(accepted, taker)
        order    == [clientId_ |-> c, client_orderId_ |-> id,
                     market_orderId_ |-> marketId, side_ |-> side,
                     price_ |-> price, qty_ |-> matched.left,
                     priority_ |-> getNextPriority(matched.book, price),
                     prev_order_ |-> Null, next_order_ |-> Null]
        o        == matched.book.order_pool_.next_free_index_
        stored   == allocateOrder(matched.book, order, fault)
        placed   == addOrder(stored, o, fault)
    IN  IF ~Running(matched.book) \/ matched.left = 0
        THEN matched.book
        ELSE IF ~Running(stored)
        THEN stored
        ELSE IF ~Running(placed)
        THEN placed
        ELSE Publish(placed, Announcement(order))

\* cancel() of an order that was found.  The market update carries the
\* client's id of the order.
Canceled(s, c, id, o) ==
    LET order == s.orders[o]
    IN  Send(Publish(removeOrder(s, o),
                     Update("CANCEL", id, order.side_, order.price_,
                            order.qty_, order.priority_)),
             Response("CANCELED", c, id, order.market_orderId_, order.side_,
                      order.price_, Null, order.qty_))

\* cancel(): a client outside the table gets no answer at all; an id outside
\* it makes at() throw.  The table of the client, 8 MiB, is copied to the
\* stack of the thread first, which may overflow it.
cancel(s, c, id, fault) ==
    IF c \notin DOMAIN s.client_orders_
    THEN s
    ELSE IF fault \/ id \notin OrderBlocks
    THEN Terminated(s)
    ELSE IF s.client_orders_[c][id] = Null
    THEN Send(s, Response("CANCEL_REJECTED", c, id, Null, Null, Null, Null,
                          Null))
    ELSE Canceled(s, c, id, s.client_orders_[c][id])

-----------------------------------------------------------------------------
(* MatchingEngine::processClientRequest. *)

\* What a request leaves behind.  When the process ends the book is gone, so
\* its last state is kept as it was; what was sent before the end is on its way.
Step(s) ==
    IF Running(s)
    THEN Becomes(s)
    ELSE /\ process' = s.process
         /\ responses' = s.responses
         /\ updates' = s.updates
         /\ UNCHANGED <<orders, order_pool_, levels, price_levels_pool_,
                        price_levels_, client_orders_, bid_levels_head_,
                        ask_levels_head_, next_market_order_id_>>

NewRequest(c, id, side, price, qty, fault) ==
    /\ process = "running"
    /\ next_market_order_id_ <= MaxRequests
    /\ Step(add(Book, c, id, side, price, qty, fault))

CancelRequest(c, id, fault) ==
    /\ process = "running"
    /\ Step(cancel(Book, c, id, fault))

\* FATAL("Recieved invalid requestType_").
InvalidRequest ==
    /\ process = "running"
    /\ Step(Terminated(Book))

Next ==
    \/ \E c \in Clients, id \in OrderIds, side \in Sides, price \in Prices,
          qty \in Qtys, fault \in BOOLEAN :
          NewRequest(c, id, side, price, qty, fault)
    \/ \E c \in Clients, id \in OrderIds, fault \in BOOLEAN :
          CancelRequest(c, id, fault)
    \/ InvalidRequest

Spec == Init /\ [][Next]_vars

-----------------------------------------------------------------------------
(* Properties. *)

Pointers(blocks) == blocks \cup {Null}

MEOrder ==
    [clientId_ : Clients, client_orderId_ : OrderIds, market_orderId_ : Nat,
     side_ : Sides, price_ : Prices, qty_ : Nat, priority_ : Nat,
     prev_order_ : Pointers(OrderBlocks), next_order_ : Pointers(OrderBlocks)]

MEOrderAtPriceLevel ==
    [side_ : Sides, price_ : Prices, first_order_ : Pointers(OrderBlocks),
     prev_price_level_ : Pointers(LevelBlocks),
     next_price_level_ : Pointers(LevelBlocks)]

TypeOK ==
    /\ orders \in [OrderBlocks -> MEOrder \cup {Null}]
    /\ levels \in [LevelBlocks -> MEOrderAtPriceLevel \cup {Null}]
    /\ OrderPool!PoolTypeOK
    /\ LevelPool!PoolTypeOK
    /\ price_levels_ \in [LevelBlocks -> Pointers(LevelBlocks)]
    /\ client_orders_ \in [Clients -> [OrderBlocks -> Pointers(OrderBlocks)]]
    /\ bid_levels_head_ \in Pointers(LevelBlocks)
    /\ ask_levels_head_ \in Pointers(LevelBlocks)
    /\ next_market_order_id_ \in Nat

\* The orders reached from first along next_order_, up to the return to first
\* if there is one.
RingFrom(first) ==
    LET at[n \in 0 .. MaxOrderIds] ==
            IF n = 0 THEN first ELSE orders[at[n - 1]].next_order_
        returns == {n \in 1 .. MaxOrderIds : at[n] = first}
        length  == IF returns = {} THEN MaxOrderIds
                   ELSE CHOOSE n \in returns : \A m \in returns : n <= m
    IN  [k \in 1 .. length |-> at[k - 1]]

IsRing(s) == orders[s[Len(s)]].next_order_ = s[1]

\* The orders of table entry i in the order of the list.
OrdersAt(i) ==
    IF price_levels_[i] = Null
    THEN << >>
    ELSE RingFrom(levels[price_levels_[i]].first_order_)

Elements(s) == {s[k] : k \in DOMAIN s}

\* Whatever the sequence of requests, the pointers make up the book: the
\* levels in use are those of the table, each at the entry of its price; the
\* orders of a level form a ring, linked the same way in both directions, and
\* every order in use is in the ring of its own price.
RingsWellFormed ==
    /\ LiveLevels = Elements(price_levels_) \ {Null}
    /\ \A i \in LevelBlocks : price_levels_[i] # Null =>
          /\ priceToIndex(levels[price_levels_[i]].price_) = i
          /\ IsRing(OrdersAt(i))
          /\ \A o \in Elements(OrdersAt(i)) :
                /\ o \in LiveOrders
                /\ orders[orders[o].next_order_].prev_order_ = o
                /\ priceToIndex(orders[o].price_) = i
    /\ LiveOrders \subseteq UNION {Elements(OrdersAt(i)) : i \in LevelBlocks}

\* Among the orders that are now in the line of a table entry the published
\* priorities increase, so that nobody sees two of them with the same one or in
\* the wrong order.  (A priority can be given again: when the last order of a
\* line leaves, the next one gets its number.)
PriorityInLine ==
    \A i \in LevelBlocks :
       LET line == OrdersAt(i)
       IN  \A k \in 1 .. Len(line) - 1 :
              orders[line[k]].priority_ < orders[line[k + 1]].priority_

\* A pointer in client_orders_ is never stale: it points to an order in use
\* that belongs to that client under that id, so cancel() cannot touch a
\* removed order or somebody else's.
ClientIndexLive ==
    \A c \in Clients, id \in OrderBlocks : client_orders_[c][id] # Null =>
       /\ client_orders_[c][id] \in LiveOrders
       /\ orders[client_orders_[c][id]].clientId_ = c
       /\ orders[client_orders_[c][id]].client_orderId_ = id

\* An order that comes to rest can be canceled by its client, and it stays so
\* until it leaves the book or the client itself has a NEW with the same id
\* accepted: nothing anybody else does takes an order out of its reach.
OrdersCancelable ==
    [][process' = "running" =>
         \A o \in LiveOrders' :
            LET c  == orders'[o].clientId_
                id == orders'[o].client_orderId_
            IN  \/ client_orders_'[c][id] = o
                \/ /\ o \in LiveOrders
                   /\ \/ client_orders_[c][id] # o
                      \/ \E r \in Elements(responses') :
                            /\ r.type = "ACCEPTED"
                            /\ r.clientId_ = c
                            /\ r.client_order_id_ = id]_vars

\* What the note on price_levels_ says (me_order_book.h:53-55): an order that
\* reaches a price of the other side is matched at once, so bids and asks
\* never rest at prices that meet.  addOrdersAtPrice() assigns the first level
\* of a side to a local variable, and checkForMatch() never finds a head.
SidesNeverCross ==
    \A bid, ask \in LiveOrders :
       orders[bid].side_ = "BUY" /\ orders[ask].side_ = "SELL"
          => orders[bid].price_ < orders[ask].price_

\* Does update u announce that order rests in the book?
Announces(u, order) ==
    /\ u.type = "ADD"
    /\ u.orderId_ = order.market_orderId_
    /\ u.side_ = order.side_
    /\ u.price_ = order.price_
    /\ u.qty_ = order.qty_
    /\ u.priority_ = order.priority_

\* An order that comes to rest is announced to the market by exactly one ADD
\* with the id, side, price, quantity and priority it has in the book, and
\* every ADD announces such an order: none is sent for an order that is already
\* there or is filled, nor when the insertion fails and the process ends.
AddsAnnounced ==
    [][process' # "corrupted" =>
         LET rested == LiveOrders' \ LiveOrders
             adds   == {k \in DOMAIN updates' : updates'[k].type = "ADD"}
         IN  /\ \A o \in rested : \E k \in adds :
                   /\ Announces(updates'[k], orders'[o])
                   /\ \A j \in adds :
                         Announces(updates'[j], orders'[o]) => j = k
             /\ \A k \in adds : \E o \in rested :
                   Announces(updates'[k], orders'[o])]_vars

LineAt(i) ==
    LET line == OrdersAt(i)
    IN  [k \in DOMAIN line |-> orders[line[k]].market_orderId_]

Lines == INSTANCE LevelQueues
    WITH Levels <- LevelBlocks, MarketIds <- 1 .. MaxRequests,
         queues <- [i \in LevelBlocks |-> LineAt(i)]

\* The linked lists implement waiting lines: newcomers go behind everybody
\* who is older, and a cancel leaves the rest of the line as it was.
ImplementsLines == Lines!Spec
=============================================================================

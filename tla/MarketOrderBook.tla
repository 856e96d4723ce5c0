--------------------------- MODULE MarketOrderBook ---------------------------
(***************************************************************************)
(* TradingSystem::MarketOrderBook: the trading client's copy of one        *)
(* instrument's book, and FeatureEngine, which reads its best bid and      *)
(* offer.  One thread owns both.                                           *)
(*                                                                         *)
(* The ring of orders of a price level is a sequence from first_order_ on, *)
(* the ring of levels of a side a sequence from its head on.               *)
(* removeOrder() and removePriceLevel() are called nowhere (line 165), and *)
(* no line stores an order in orderId_to_order_: all its entries are null. *)
(***************************************************************************)
EXTENDS CommonTypes, Integers, Sequences, FiniteSets, SequencesExt

CONSTANTS
    OrderIds, Prices, Qtys,  \* what updates carry
    MaxOrderIds,             \* ME_MAX_ORDER_IDS
    MaxPriceLevels,          \* ME_MAX_PRICE_LEVELS
    QtyModulus,              \* 2^32: Qty is uint32_t
    Null

\* What the parameters may be.
ClientBookParameters ==
    /\ OrderIds \subseteq Nat
    /\ Prices \subseteq Nat
    /\ MaxOrderIds \in Nat \ {0}
    /\ MaxPriceLevels \in Nat \ {0}
    /\ QtyModulus \in Nat \ {0}
    /\ Qtys \subseteq 0 .. QtyModulus - 1
    /\ Null \notin Nat

VARIABLES
    order_pool_, price_level_pool_,
    price_levels,             \* the price levels in price_level_pool_
    orders_at_price_levels_,  \* price index -> block, or Null
    ring,                     \* side -> the levels from the side's head on
    best_offer_,              \* side -> block, or Null
    market_price_, aggregated_trade_qty_ratio_,  \* FeatureEngine's values
    process,
    adds,                     \* history: the orders of all ADD updates
    removals,                 \* history: a CANCEL or CLEAR has arrived
    handled                   \* history: what the last call was

book == <<order_pool_, price_level_pool_, price_levels,
          orders_at_price_levels_, ring, best_offer_>>
features == <<market_price_, aggregated_trade_qty_ratio_>>
vars == <<book, features, process, adds, removals, handled>>

Qty_INVALID == QtyModulus - 1

OrderPool == INSTANCE MemPool
    WITH NumElems <- MaxOrderIds, pool <- order_pool_, held <- {}
LevelPool == INSTANCE MemPool
    WITH NumElems <- MaxPriceLevels, pool <- price_level_pool_, held <- {}

priceToIndex(price) == price % MaxPriceLevels

\* The constructor leaves total_qty_ at its initialiser.
MarketOrderPriceLevel(order) ==
    [side_ |-> order.side_, price_ |-> order.price_, orders |-> << >>,
     total_qty_ |-> Qty_INVALID, orders_count_ |-> 0]

\* The arrays have no initialiser; the object, of more than 8 MB, comes from
\* pages of zeroes.
Init ==
    /\ order_pool_ = OrderPool!EmptyPool
    /\ price_level_pool_ = LevelPool!EmptyPool
    /\ price_levels = [b \in LevelPool!Blocks |-> Null]
    /\ orders_at_price_levels_ = [i \in 0 .. MaxPriceLevels - 1 |-> Null]
    /\ ring = [s \in Sides |-> << >>]
    /\ best_offer_ = [s \in Sides |-> Null]
    /\ market_price_ = "NaN"
    /\ aggregated_trade_qty_ratio_ = "NaN"
    /\ process = "running"
    /\ adds = << >>
    /\ removals = FALSE
    /\ handled = "nothing"

Crash == process' = "terminated" /\ UNCHANGED <<book, features, adds>>

\* Line 146 reads the bid head for an update of the ask side once there is an
\* ask head.
ReadsNullHead(side) ==
    side = "SELL" /\ ring["SELL"] # << >> /\ ring["BUY"] = << >>

-----------------------------------------------------------------------------
(* ADD. *)

Better(side, p, q) == IF side = "BUY" THEN p > q ELSE p < q

\* Level b joins a ring: it is put in front of the first level it is not
\* better than, or of the last, and becomes the head if it is better.
Enlisted(r, b, level) ==
    LET price(i) == price_levels[r[i]].price_
        at == CHOOSE i \in DOMAIN r :
                 /\ i = Len(r) \/ ~Better(level.side_, level.price_, price(i))
                 /\ \A j \in 1 .. i - 1 :
                       Better(level.side_, level.price_, price(j))
        joined == IF at = 1 THEN Append(r, b) ELSE InsertAt(r, at, b)
        k == IF at = 1 THEN Len(joined) ELSE at
    IN  IF Better(level.side_, level.price_, price(1))
        THEN SubSeq(joined, k, Len(joined)) \o SubSeq(joined, 1, k - 1)
        ELSE joined

\* Mutant: the head of an empty side is set.
NewHeadKept(r, b) == <<b>>

\* The head of an empty side is assigned to a local variable (line 26).
NewHead(r, b) == r

addOrdersAtPriceLevel(b, level) ==
    LET side == level.side_
        r == ring[side]
        best == best_offer_[side]
    IN  /\ orders_at_price_levels_' =
              [orders_at_price_levels_ EXCEPT ![priceToIndex(level.price_)] = b]
        /\ ring' = [ring EXCEPT ![side] =
                      IF r = << >> THEN NewHead(r, b) ELSE Enlisted(r, b, level)]
        /\ best_offer_' =
              IF /\ r # << >>
                 /\ \/ best = Null
                    \/ Better(side, level.price_, price_levels[best].price_)
              THEN [best_offer_ EXCEPT ![side] = b]
              ELSE best_offer_

\* Mutant: the order goes to the front of the ring.
OrderInFront(level, order) ==
    [level EXCEPT !.orders = <<order>> \o @,
                  !.total_qty_ = (@ + order.qty_) % QtyModulus,
                  !.orders_count_ = @ + 1]

\* The order goes to the end of its level's ring; the level is the one at the
\* price's index, whatever its price and side.
WithOrder(level, order) ==
    [level EXCEPT !.orders = Append(@, order),
                  !.total_qty_ = (@ + order.qty_) % QtyModulus,
                  !.orders_count_ = @ + 1]

addOrder(order, fault) ==
    LET at == orders_at_price_levels_[priceToIndex(order.price_)]
        b == price_level_pool_.next_free_index_
        level == MarketOrderPriceLevel(order)
        pool == LevelPool!Taken(price_level_pool_)
    IN  IF at # Null
        THEN /\ price_levels' = [price_levels EXCEPT ![at] = WithOrder(@, order)]
             /\ UNCHANGED <<price_level_pool_, orders_at_price_levels_, ring,
                            best_offer_, process>>
        ELSE /\ price_level_pool_' = pool
             /\ price_levels' =
                   [price_levels EXCEPT ![b] = WithOrder(level, order)]
             /\ addOrdersAtPriceLevel(b, level)
             /\ process' = IF fault /\ pool.next_free_index_ = LevelPool!PastEnd
                           THEN "terminated" ELSE process

\* Both pools end the process, or worse, past their last block.
onAdd(order, fault) ==
    LET pool == OrderPool!Taken(order_pool_)
        full == order_pool_.next_free_index_ = OrderPool!PastEnd
        last == pool.next_free_index_ = OrderPool!PastEnd
    IN  /\ handled' = "ADD"
        /\ UNCHANGED removals
        /\ IF ReadsNullHead(order.side_) \/ (fault /\ (full \/ last))
           THEN Crash
           ELSE IF full
           THEN process' = "corrupted" /\ UNCHANGED <<book, features, adds>>
           ELSE /\ order_pool_' = pool
                /\ adds' = Append(adds, order)
                /\ addOrder(order, fault)
                /\ UNCHANGED features

-----------------------------------------------------------------------------
(* The other updates. *)

\* at() throws past the array, and inside it the entry is null.
onModify == handled' = "MODIFY" /\ UNCHANGED removals /\ Crash

\* CANCEL looks its order up and falls through to TRADE, which returns.
onCancel(id, side) ==
    /\ handled' = "CANCEL"
    /\ removals' = TRUE
    /\ IF id >= MaxOrderIds \/ ReadsNullHead(side)
       THEN Crash
       ELSE UNCHANGED <<book, features, process, adds>>

\* CLEAR finds no order to return, and returns the levels of the rings.  The
\* loop over a ring returns the level after the head again and again, which
\* an assertion ends.
onClear ==
    /\ handled' = "CLEAR"
    /\ removals' = TRUE
    /\ IF \E s \in Sides : Len(ring[s]) > 1
       THEN Crash
       ELSE /\ price_level_pool_' =
                  [price_level_pool_ EXCEPT !.is_free_ =
                     [b \in DOMAIN @ |->
                        @[b] \/ \E s \in Sides : b \in Range(ring[s])]]
            /\ ring' = [s \in Sides |-> << >>]
            /\ UNCHANGED <<order_pool_, price_levels, orders_at_price_levels_,
                           best_offer_, features, process, adds>>

\* TRADE, INVALID, SNAPSHOT_START and SNAPSHOT_END change nothing.
onOther ==
    /\ handled' = "OTHER"
    /\ UNCHANGED <<book, features, process, adds, removals>>

onMarketUpdate ==
    /\ process = "running"
    /\ \/ \E id \in OrderIds, side \in Sides, price \in Prices, qty \in Qtys,
             fault \in BOOLEAN :
             onAdd([orderId_ |-> id, side_ |-> side, price_ |-> price,
                    qty_ |-> qty], fault)
       \/ onModify
       \/ \E id \in OrderIds, side \in Sides : onCancel(id, side)
       \/ onClear
       \/ onOther

\* FeatureEngine reads the best levels through their pointers.
onOrderBookUpdate ==
    /\ process = "running"
    /\ handled' = "BBO"
    /\ UNCHANGED removals
    /\ IF \E s \in Sides : best_offer_[s] = Null
       THEN Crash
       ELSE /\ market_price_' = "computed"
            /\ UNCHANGED <<book, aggregated_trade_qty_ratio_, process, adds>>

onTradeUpdate ==
    /\ process = "running"
    /\ handled' = "BBO"
    /\ UNCHANGED removals
    /\ IF \E s \in Sides : best_offer_[s] = Null
       THEN Crash
       ELSE /\ aggregated_trade_qty_ratio_' = "computed"
            /\ UNCHANGED <<book, market_price_, process, adds>>

Next == onMarketUpdate \/ onOrderBookUpdate \/ onTradeUpdate

Spec == Init /\ [][Next]_vars

-----------------------------------------------------------------------------
(* Properties. *)

Levels(s) ==
    {orders_at_price_levels_[i] : i \in 0 .. MaxPriceLevels - 1} \cap
        {b \in LevelPool!Blocks :
            price_levels[b] # Null /\ price_levels[b].side_ = s}

\* The best bid is the highest price someone buys at and the best offer the
\* lowest someone sells at (addOrdersAtPriceLevel(), "Update BBO"; the pair is
\* what FeatureEngine computes with).
BestOfferIsBest ==
    \A s \in Sides :
        process = "running" /\ Levels(s) # {} =>
            /\ best_offer_[s] \in Levels(s)
            /\ \A b \in Levels(s) :
                  ~Better(s, price_levels[b].price_,
                          price_levels[best_offer_[s]].price_)

\* The orders of s whose prices have index i, as they stand in s.
AtIndex(s, i) ==
    LET at[n \in 0 .. Len(s)] ==
          IF n = 0 THEN << >>
          ELSE IF priceToIndex(s[n].price_) = i THEN Append(at[n - 1], s[n])
          ELSE at[n - 1]
    IN  at[Len(s)]

\* As long as nothing was to leave the book, the level at an index holds every
\* order added at one of its prices and no other, in order of arrival, and
\* counts them right (addOrder(), addOrdersAtPriceLevel()).
LevelsHoldAdds ==
    ~removals =>
        \A i \in 0 .. MaxPriceLevels - 1 :
            LET here == AtIndex(adds, i)
                at == orders_at_price_levels_[i]
            IN  IF here = << >>
                THEN at = Null
                ELSE /\ at # Null
                     /\ price_levels[at].orders = here
                     /\ price_levels[at].orders_count_ = Len(here)

\* An ADD ends the process only when it takes the last block of a pool or
\* finds none: the book lives through MaxOrderIds orders, recoveries
\* included, since CLEAR gives none back.
AddsUntilFull ==
    handled = "ADD" /\ process # "running" =>
        \/ Len(adds) >= MaxOrderIds - 1
        \/ price_level_pool_.next_free_index_ = LevelPool!PastEnd
=============================================================================

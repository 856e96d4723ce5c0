------------------------------ MODULE MCObjects ------------------------------
(***************************************************************************)
(* Four objects that one thread each works on, in one run: the synthesizer *)
(* of the exchange, and the orders, the position and the book of a client. *)
(* They meet at messages only, of which each module takes all that can     *)
(* arrive, so a behaviour moves one of them and leaves the others as they  *)
(* started.                                                                *)
(***************************************************************************)
EXTENDS SnapshotSynthesizer, OrderManager, PositionInfo

CONSTANTS
    UpdateIds, UpdatePrices, UpdateQtys,  \* what the client's book receives
    MaxPriceLevels, QtyModulus

VARIABLES
    client_order_pool_, price_level_pool_, price_levels,
    orders_at_price_levels_, ring, best_offer_, market_price_,
    aggregated_trade_qty_ratio_, book_process, adds, removals, handled,
    moving   \* the object of this behaviour

bookVars == <<client_order_pool_, price_level_pool_, price_levels,
              orders_at_price_levels_, ring, best_offer_, market_price_,
              aggregated_trade_qty_ratio_, book_process, adds, removals,
              handled>>

ClientBook == INSTANCE MarketOrderBook
    WITH OrderIds <- UpdateIds, Prices <- UpdatePrices, Qtys <- UpdateQtys,
         order_pool_ <- client_order_pool_, process <- book_process

ASSUME ClientBookAssumption == ClientBook!ClientBookParameters

\* Only a position that moves has more than one initial state.
ObjectsInit ==
    /\ moving \in {"snapshot", "orders", "position", "book"}
    /\ Init
    /\ OrdersInit
    /\ PositionInit
    /\ ClientBook!Init
    /\ moving # "position" => open_vwap_ = [s \in Sides |-> 0]

ObjectsNext ==
    /\ UNCHANGED moving
    /\ \/ /\ moving = "snapshot"
          /\ Next
          /\ UNCHANGED <<orderVars, positionVars, bookVars>>
       \/ /\ moving = "orders"
          /\ OrdersNext
          /\ UNCHANGED <<vars, positionVars, bookVars>>
       \/ /\ moving = "position"
          /\ PositionNext
          /\ UNCHANGED <<vars, orderVars, bookVars>>
       \/ /\ moving = "book"
          /\ ClientBook!Next
          /\ UNCHANGED <<vars, orderVars, positionVars>>

ObjectsSpec ==
    ObjectsInit
    /\ [][ObjectsNext]_<<vars, orderVars, positionVars, bookVars, moving>>

-----------------------------------------------------------------------------
(* The properties of the client's book, under their names there. *)

\* As long as nothing was to leave the book, its levels hold what was added, in
\* order of arrival (MarketOrderBook::addOrder()).
LevelsHoldAdds == ClientBook!LevelsHoldAdds

\* An ADD ends the client's process only when a pool is used up
\* (MarketOrderBook::onMarketUpdate()).
AddsUntilFull == ClientBook!AddsUntilFull
=============================================================================

----------------------------- MODULE PositionInfo -----------------------------
(***************************************************************************)
(* TradingSystem::PositionInfo, the position and the profit in one         *)
(* instrument, and RiskInfo::checkPreTradeRisk(), which looks at both      *)
(* before an order leaves.  PositionKeeper and RiskManager hold one of     *)
(* each per instrument and forward their calls.                            *)
(*                                                                         *)
(* OrderManager has at most one order per side, which is filled in parts   *)
(* or canceled.  Its call of the risk check is commented out, so an order  *)
(* leaves whatever the check says; unchecked records that one left which   *)
(* the check would not have allowed.                                       *)
(*                                                                         *)
(* Money is exact: every double is a multiple of 1 / Scale.  An int that   *)
(* overflows wraps around.                                                 *)
(***************************************************************************)
EXTENDS CommonTypes, Integers

CONSTANTS
    FillPrices, OrderQtys,    \* what the strategy asks for
    max_order_size_, max_position_,   \* RiskCfg, both of type Qty
    MaxLoss,         \* the loss that max_loss_ allows
    Scale,           \* the unit of money is 1 / Scale
    Garbage,         \* what an uninitialised double may hold
    GarbageQty,      \* what an uninitialised Qty may hold
    MaxInt,          \* 2^31 - 1, the largest int32_t
    MaxVolume,       \* bound: contracts traded
    Price_INVALID,
    NullPrice        \* a best bid or offer that is null

IntRange == 2 * (MaxInt + 1)

ASSUME PositionAssumption ==
    /\ FillPrices \subseteq Nat
    /\ MaxInt \in Nat
    /\ OrderQtys \subseteq 0 .. IntRange - 1
    /\ max_order_size_ \in 0 .. IntRange - 1
    /\ max_position_ \in 0 .. IntRange - 1
    /\ MaxLoss \in Nat
    /\ Scale \in Nat \ {0}
    /\ Garbage \subseteq Int
    /\ GarbageQty \subseteq 0 .. IntRange - 1
    /\ MaxVolume \in Nat
    /\ Price_INVALID \notin FillPrices
    /\ NullPrice \notin FillPrices \cup {Price_INVALID}

VARIABLES
    position_, volume_,
    real_PnL_, unreal_PnL_, total_PnL_,
    open_vwap_,   \* side -> price times quantity of the open position
    working,      \* side -> quantity the side's order may still trade
    client_process,
    unchecked,    \* history: an order has left that was not ALLOWED
    traded,       \* history: contracts traded
    cash,         \* history: what the fills brought in and cost
    mark          \* history: the price of the last valuation

pnl == <<real_PnL_, unreal_PnL_, total_PnL_, open_vwap_>>
books == <<traded, cash, mark>>
positionVars ==
    <<position_, volume_, pnl, working, client_process, unchecked, books>>

max_loss_ == -MaxLoss

Opposite(side) == IF side = "BUY" THEN "SELL" ELSE "BUY"

Abs(n) == IF n < 0 THEN -n ELSE n

Lesser(m, n) == IF m < n THEN m ELSE n

\* A conversion to int32_t.
Int32(n) == ((n + MaxInt + 1) % IntRange) - (MaxInt + 1)

\* open_vwap_ and volume_ have no initializer.
PositionInit ==
    /\ position_ = 0
    /\ volume_ \in GarbageQty
    /\ real_PnL_ = 0
    /\ unreal_PnL_ = 0
    /\ total_PnL_ = 0
    /\ open_vwap_ \in [Sides -> Garbage]
    /\ working = [s \in Sides |-> 0]
    /\ client_process = "running"
    /\ unchecked = FALSE
    /\ traded = 0
    /\ cash = 0
    /\ mark = 0

-----------------------------------------------------------------------------
(* RiskInfo. *)

\* Mutant: the position is compared as it is before the order.
checkPreTradeRiskAfterwards(side, qty) ==
    IF qty > max_order_size_ THEN "ORDER_TOO_LARGE"
    ELSE IF Abs(position_) > Int32(max_position_) THEN "POSITION_TOO_LARGE"
    ELSE IF total_PnL_ < max_loss_ * Scale THEN "LOSS_TOO_LARGE"
    ELSE "ALLOWED"

checkPreTradeRisk(side, qty) ==
    IF qty > max_order_size_ THEN "ORDER_TOO_LARGE"
    ELSE IF Abs(Int32(position_ + sideToValue(side) * Int32(qty)))
              > Int32(max_position_)
    THEN "POSITION_TOO_LARGE"
    ELSE IF total_PnL_ < max_loss_ * Scale THEN "LOSS_TOO_LARGE"
    ELSE "ALLOWED"

\* moveOrder() of a side without an order: the branch is if(LIKELY(true)).
sendOrder(side, qty) ==
    /\ client_process = "running"
    /\ working[side] = 0
    /\ working' = [working EXCEPT ![side] = qty]
    /\ unchecked' = (unchecked \/ checkPreTradeRisk(side, qty) # "ALLOWED")
    /\ UNCHANGED <<position_, volume_, pnl, client_process, books>>

\* The exchange has confirmed a cancel: what is left will not trade.
canceled(side) ==
    /\ client_process = "running"
    /\ working[side] > 0
    /\ working' = [working EXCEPT ![side] = 0]
    /\ UNCHANGED <<position_, volume_, pnl, client_process, unchecked, books>>

-----------------------------------------------------------------------------
(* PositionInfo. *)

\* Mutant: a flipped position is taken for a reduced one.
VwapAfterReduced(side, qty, price, pos) ==
    IF pos = 0
    THEN [s \in Sides |-> 0]
    ELSE IF position_ * sideToValue(side) >= 0
    THEN [open_vwap_ EXCEPT ![side] = @ + qty * price]
    ELSE [open_vwap_ EXCEPT
            ![Opposite(side)] = (@ \div Abs(position_)) * Abs(pos)]

\* open_vwap_ after a fill that makes the position pos: the fill opens or
\* adds, flips, closes, or reduces the position.
VwapAfter(side, qty, price, pos) ==
    IF pos = 0
    THEN [s \in Sides |-> 0]
    ELSE IF position_ * sideToValue(side) >= 0
    THEN [open_vwap_ EXCEPT ![side] = @ + qty * price]
    ELSE IF pos * position_ < 0
    THEN [open_vwap_ EXCEPT ![side] = price * Abs(pos), ![Opposite(side)] = 0]
    ELSE [open_vwap_ EXCEPT
            ![Opposite(side)] = (@ \div Abs(position_)) * Abs(pos)]

\* A fill on the other side of the position realizes the difference to the
\* average price.
Realized(side, qty, price) ==
    IF position_ * sideToValue(side) >= 0
    THEN 0
    ELSE Lesser(Int32(qty), Abs(position_)) * sideToValue(side)
            * (open_vwap_[Opposite(side)] \div Abs(position_) - price)

\* The open position pos at a price, against what it cost.
Unrealized(pos, vwap, price) ==
    IF pos > 0 THEN price * pos - vwap["BUY"] ELSE vwap["SELL"] + price * pos

\* Line 77.
TotalAfterFill(real, unreal) == unreal + unreal

addFill(side, qty, price) ==
    LET pos    == Int32(position_ + qty * sideToValue(side))
        vwap   == VwapAfter(side, qty, price * Scale, pos)
        real   == real_PnL_ + Realized(side, qty, price * Scale)
        unreal == IF pos = 0 THEN 0 ELSE Unrealized(pos, vwap, price * Scale)
    IN  /\ client_process = "running"
        /\ traded + qty <= MaxVolume
        /\ position_' = pos
        /\ volume_' = (volume_ + qty) % IntRange
        /\ open_vwap_' = vwap
        /\ real_PnL_' = real
        /\ unreal_PnL_' = unreal
        /\ total_PnL_' = TotalAfterFill(real, unreal)
        /\ working' = [working EXCEPT ![side] = @ - qty]
        /\ traded' = traded + qty
        /\ cash' = cash - qty * sideToValue(side) * price * Scale
        /\ mark' = price * Scale
        /\ UNCHANGED <<client_process, unchecked>>

\* Line 87 reads the prices through the pointers of the best bid and offer.
ReadsNull(bid, ask) == bid = NullPrice \/ (bid # Price_INVALID /\ ask = NullPrice)

\* A best bid and offer without a price does not change anything, nor does one
\* without a position.
updateBBO(bid, ask) ==
    LET mid_price == ((bid + ask) * Scale) \div 2
    IN  /\ client_process = "running"
        /\ position_ # 0
        /\ \/ /\ ReadsNull(bid, ask)
              /\ client_process' = "terminated"
              /\ UNCHANGED <<pnl, mark>>
           \/ /\ {bid, ask} \subseteq FillPrices
              /\ unreal_PnL_' = Unrealized(position_, open_vwap_, mid_price)
              /\ total_PnL_' = unreal_PnL_' + real_PnL_
              /\ mark' = mid_price
              /\ UNCHANGED <<client_process, real_PnL_, open_vwap_>>
        /\ UNCHANGED <<position_, volume_, working, unchecked, traded, cash>>

PositionNext ==
    \/ \E side \in Sides, qty \in OrderQtys : sendOrder(side, qty)
    \/ \E side \in Sides : canceled(side)
    \/ \E side \in Sides, price \in FillPrices :
          \E qty \in 1 .. working[side] : addFill(side, qty, price)
    \/ \E bid, ask \in FillPrices \cup {Price_INVALID, NullPrice} : updateBBO(bid, ask)

PositionSpec == PositionInit /\ [][PositionNext]_positionVars

-----------------------------------------------------------------------------
(* Properties. *)

PositionTypeOK ==
    /\ position_ \in Int
    /\ volume_ \in 0 .. IntRange - 1
    /\ {real_PnL_, unreal_PnL_, total_PnL_, cash, mark} \subseteq Int
    /\ open_vwap_ \in [Sides -> Int]
    /\ working \in [Sides -> Nat]
    /\ client_process \in {"running", "terminated"}
    /\ unchecked \in BOOLEAN
    /\ traded \in Nat

\* No order that violates the limit leaves, so that the position never exceeds
\* it (OrderManager::moveOrder()).
PositionWithinLimit == Abs(position_) <= max_position_

\* The position never exceeds the limit as long as only orders left that the
\* check allows (RiskInfo::checkPreTradeRisk()).
CheckKeepsLimit == ~unchecked => PositionWithinLimit

\* The same where the limits fit into an int32_t together.  The check was made
\* when the order left, and both sides' orders trade later, in parts and in
\* any order: because each side has one order only, the position at the time
\* of the check can since have moved away from the limit only.
AllowedStaysWithin ==
    max_order_size_ + max_position_ <= MaxInt => CheckKeepsLimit

\* An instrument that has lost more than the limit allows is refused its next
\* order (RiskInfo::checkPreTradeRisk(), total_PnL_ after addFill()).
LossLimitHolds ==
    real_PnL_ + unreal_PnL_ < max_loss_ * Scale =>
        \A side \in Sides, qty \in OrderQtys :
            checkPreTradeRisk(side, qty) # "ALLOWED"

\* The fill and the valuation rules keep the books: real and unrealized
\* profit change by exactly what the cash and the value of the position do,
\* through adding, reducing, closing and flipping, until more is traded than
\* an int32_t holds.  Only the first fill can bring in what the averages held
\* uninitialised (addFill(), updateBBO()).
BooksBalance ==
    [][traded' <= MaxInt /\ (traded > 0 \/ open_vwap_ = [s \in Sides |-> 0])
       => (real_PnL_ + unreal_PnL_)' - (real_PnL_ + unreal_PnL_)
             = (cash + position_ * mark)' - (cash + position_ * mark)]_positionVars
===============================================================================

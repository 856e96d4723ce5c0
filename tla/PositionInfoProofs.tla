-------------------------- MODULE PositionInfoProofs --------------------------
(***************************************************************************)
(* Proofs about PositionInfo for every risk configuration.                 *)
(***************************************************************************)
EXTENDS PositionInfo, TLAPS

\* A product of integers is one, and its sign is known.
LEMMA ProductInt == \A a, b \in Int : a * b \in Int
  BY SMT

LEMMA AbsInt == \A n \in Int : Abs(n) \in Nat /\ (n # 0 => Abs(n) > 0)
  BY DEF Abs

LEMMA SideValues ==
  ASSUME NEW side \in Sides
  PROVE  /\ sideToValue(side) \in Int
         /\ Opposite(side) \in Sides
         /\ sideToValue(side) = 1 \/ sideToValue(side) = -1
  BY DEF Sides, sideToValue, Opposite

LEMMA Ranges ==
  /\ MaxInt \in Nat
  /\ IntRange \in Nat \ {0}
  /\ IntRange = 2 * (MaxInt + 1)
  BY PositionAssumption DEF IntRange

\* A remainder is below its divisor, and a number below it is its own.
LEMMA Remainder ==
  \A n \in Int, m \in Nat \ {0} :
     n % m \in 0 .. m - 1 /\ (n \in 0 .. m - 1 => n % m = n)
  BY SMT

\* A conversion to int32_t yields one, and what fits is not changed.
LEMMA Int32Fits ==
  ASSUME NEW n \in Int
  PROVE  /\ Int32(n) \in Int
         /\ -(MaxInt + 1) <= n /\ n <= MaxInt => Int32(n) = n
<1>1. n + MaxInt + 1 \in Int
  BY Ranges
<1>2. /\ (n + MaxInt + 1) % IntRange \in 0 .. IntRange - 1
      /\ n + MaxInt + 1 \in 0 .. IntRange - 1 =>
            (n + MaxInt + 1) % IntRange = n + MaxInt + 1
  BY <1>1, Ranges, Remainder
<1> QED BY <1>2, Ranges DEF Int32

\* What VwapAfter(), Realized() and Unrealized() return are numbers.
LEMMA VwapAfterType ==
  ASSUME PositionTypeOK, NEW side \in Sides, NEW qty \in Int, NEW price \in Int,
         NEW pos \in Int
  PROVE  VwapAfter(side, qty, price, pos) \in [Sides -> Int]
<1>1. /\ qty * price \in Int
      /\ price * Abs(pos) \in Int
      /\ Opposite(side) \in Sides
      /\ position_ \in Int
      /\ open_vwap_ \in [Sides -> Int]
  BY ProductInt, AbsInt, SideValues DEF PositionTypeOK
<1>2. CASE pos = 0
  BY <1>2 DEF VwapAfter
<1>3. CASE position_ * sideToValue(side) >= 0
  BY <1>1, <1>3 DEF VwapAfter
<1>4. CASE ~(position_ * sideToValue(side) >= 0) /\ pos # 0
  <2>1. position_ # 0
    BY <1>1, <1>4, SideValues
  <2>2. open_vwap_[Opposite(side)] \div Abs(position_) \in Int
    BY <1>1, <2>1, AbsInt
  <2>3. (open_vwap_[Opposite(side)] \div Abs(position_)) * Abs(pos) \in Int
    BY <2>2, ProductInt, AbsInt
  <2>. QED
    BY <1>1, <1>4, <2>3 DEF VwapAfter
<1>. QED
  BY <1>2, <1>3, <1>4

LEMMA RealizedType ==
  ASSUME PositionTypeOK, NEW side \in Sides, NEW qty \in Int, NEW price \in Int
  PROVE  Realized(side, qty, price) \in Int
<1>1. /\ Opposite(side) \in Sides
      /\ position_ \in Int
      /\ open_vwap_ \in [Sides -> Int]
      /\ Lesser(Int32(qty), Abs(position_)) \in Int
  BY SideValues, AbsInt, Int32Fits DEF PositionTypeOK, Lesser
<1>2. CASE position_ * sideToValue(side) >= 0
  BY <1>2 DEF Realized
<1>3. CASE ~(position_ * sideToValue(side) >= 0)
  <2>1. position_ # 0
    BY <1>1, <1>3, SideValues
  <2>2. open_vwap_[Opposite(side)] \div Abs(position_) - price \in Int
    BY <1>1, <2>1, AbsInt
  <2>3. Lesser(Int32(qty), Abs(position_)) * sideToValue(side) \in Int
    BY <1>1, ProductInt, SideValues
  <2>. QED
    BY <1>3, <2>2, <2>3, ProductInt DEF Realized
<1>. QED
  BY <1>2, <1>3

LEMMA UnrealizedType ==
  ASSUME NEW pos \in Int, NEW vwap \in [Sides -> Int], NEW price \in Int
  PROVE  Unrealized(pos, vwap, price) \in Int
<1>1. price * pos \in Int /\ vwap["BUY"] \in Int /\ vwap["SELL"] \in Int
  BY ProductInt DEF Sides
<1>. QED
  BY <1>1 DEF Unrealized

\* Every variable keeps its type.
THEOREM TypeCorrect == PositionSpec => []PositionTypeOK
<1>1. PositionInit => PositionTypeOK
  <2> SUFFICES ASSUME PositionInit PROVE PositionTypeOK
    OBVIOUS
  <2>1. open_vwap_ \in [Sides -> Int]
    BY PositionAssumption DEF PositionInit
  <2>2. working \in [Sides -> Nat]
    BY DEF PositionInit
  <2>3. {real_PnL_, unreal_PnL_, total_PnL_, cash, mark} \subseteq Int
    BY DEF PositionInit
  <2>4. /\ position_ \in Int
        /\ volume_ \in 0 .. IntRange - 1
        /\ client_process \in {"running", "terminated"}
        /\ traded \in Nat
    BY PositionAssumption DEF PositionInit
  <2>5. unchecked \in BOOLEAN
    BY DEF PositionInit
  <2>. QED
    BY <2>1, <2>2, <2>3, <2>4, <2>5 DEF PositionTypeOK
<1>2. PositionTypeOK /\ [PositionNext]_positionVars => PositionTypeOK'
  <2> SUFFICES ASSUME PositionTypeOK, [PositionNext]_positionVars PROVE PositionTypeOK'
    OBVIOUS
  <2>1. ASSUME NEW side \in Sides, NEW qty \in OrderQtys, sendOrder(side, qty)
        PROVE  PositionTypeOK'
    <3>1. qty \in Nat
      BY PositionAssumption, Ranges
    <3>2. unchecked' \in BOOLEAN
      BY <2>1 DEF sendOrder
    <3>. QED
      BY <2>1, <3>1, <3>2 DEF sendOrder, PositionTypeOK, pnl, books
  <2>2. ASSUME NEW side \in Sides, canceled(side)
        PROVE  PositionTypeOK'
    BY <2>2 DEF canceled, PositionTypeOK, pnl, books
  <2>3. ASSUME NEW side \in Sides, NEW price \in FillPrices,
               NEW qty \in 1 .. working[side], addFill(side, qty, price)
        PROVE  PositionTypeOK'
    <3> DEFINE pos == Int32(position_ + qty * sideToValue(side))
               vwap == VwapAfter(side, qty, price * Scale, pos)
               real == real_PnL_ + Realized(side, qty, price * Scale)
               unreal == IF pos = 0 THEN 0
                         ELSE Unrealized(pos, vwap, price * Scale)
    <3>1. /\ working[side] \in Nat
          /\ qty \in Nat
          /\ qty <= working[side]
          /\ price \in Int
          /\ price * Scale \in Int
      BY PositionAssumption, ProductInt DEF PositionTypeOK
    <3>2. pos \in Int
      <4>1. position_ + qty * sideToValue(side) \in Int
        BY <3>1, ProductInt, SideValues DEF PositionTypeOK
      <4>. QED
        BY <4>1, Int32Fits
    <3>3. vwap \in [Sides -> Int]
      BY <3>1, <3>2, VwapAfterType
    <3>4. real \in Int
      BY <3>1, RealizedType DEF PositionTypeOK
    <3>5. unreal \in Int
      BY <3>1, <3>2, <3>3, UnrealizedType
    <3>6. cash - qty * sideToValue(side) * price * Scale \in Int
      <4>1. qty * sideToValue(side) * price * Scale \in Int
        BY <3>1, ProductInt, SideValues, PositionAssumption
      <4>. QED
        BY <4>1 DEF PositionTypeOK
    <3>7. /\ position_' = pos
          /\ open_vwap_' = vwap
          /\ real_PnL_' = real
          /\ unreal_PnL_' = unreal
          /\ total_PnL_' = unreal + unreal
          /\ volume_' = (volume_ + qty) % IntRange
          /\ traded' = traded + qty
          /\ UNCHANGED <<client_process, unchecked>>
          /\ working' = [working EXCEPT ![side] = @ - qty]
          /\ cash' = cash - qty * sideToValue(side) * price * Scale
          /\ mark' = price * Scale
      BY <2>3 DEF addFill, TotalAfterFill
    <3>8. /\ volume_' \in 0 .. IntRange - 1
          /\ working' \in [Sides -> Nat]
          /\ traded' \in Nat
      <4>1. volume_ + qty \in Int
        BY <3>1, Ranges DEF PositionTypeOK
      <4>2. volume_' \in 0 .. IntRange - 1
        BY <3>7, <4>1, Ranges, Remainder
      <4>. QED
        BY <3>1, <3>7, <4>2 DEF PositionTypeOK
    <3> HIDE DEF pos, vwap, real, unreal
    <3>9. total_PnL_' \in Int
      BY <3>5, <3>7
    <3>. QED
      BY <3>1, <3>2, <3>3, <3>4, <3>5, <3>6, <3>7, <3>8, <3>9 DEF PositionTypeOK
  <2>4. ASSUME NEW bid \in FillPrices \cup {Price_INVALID, NullPrice},
               NEW ask \in FillPrices \cup {Price_INVALID, NullPrice}, updateBBO(bid, ask)
        PROVE  PositionTypeOK'
    <3> DEFINE mid == ((bid + ask) * Scale) \div 2
    <3>1. CASE ReadsNull(bid, ask) /\ client_process' = "terminated" /\ UNCHANGED <<pnl, mark>>
      BY <2>4, <3>1 DEF updateBBO, PositionTypeOK, pnl
    <3>2. CASE /\ {bid, ask} \subseteq FillPrices
               /\ unreal_PnL_' = Unrealized(position_, open_vwap_, mid)
               /\ total_PnL_' = unreal_PnL_' + real_PnL_
               /\ mark' = mid
               /\ UNCHANGED <<client_process, real_PnL_, open_vwap_>>
      <4>1. bid + ask \in Int
        BY <3>2, PositionAssumption
      <4>2. mid \in Int
        <5>1. (bid + ask) * Scale \in Int
          BY <4>1, ProductInt, PositionAssumption
        <5>. QED
          BY <5>1
      <4>3. Unrealized(position_, open_vwap_, mid) \in Int
        BY <4>2, UnrealizedType DEF PositionTypeOK
      <4>4. UNCHANGED <<position_, volume_, working, unchecked, traded, cash>>
        BY <2>4 DEF updateBBO
      <4> HIDE DEF mid
      <4>. QED
        BY <3>2, <4>2, <4>3, <4>4 DEF PositionTypeOK
    <3>. QED
      BY <2>4, <3>1, <3>2 DEF updateBBO
  <2>5. CASE UNCHANGED positionVars
    BY <2>5 DEF positionVars, pnl, books, PositionTypeOK
  <2>. QED
    BY <2>1, <2>2, <2>3, <2>4, <2>5 DEF PositionNext
<1>. QED
  BY <1>1, <1>2, PTL DEF PositionSpec

-----------------------------------------------------------------------------
(* The position limit.  What the working orders can still trade is part of  *)
(* the inductive invariant: each side's order fits under the limit by       *)
(* itself, whatever becomes of the other.                                   *)

LimitsFit == max_order_size_ + max_position_ <= MaxInt

WithinLimitWhenFilled ==
    LimitsFit /\ ~unchecked =>
        /\ \A s \in Sides : working[s] <= max_order_size_
        /\ position_ + working["BUY"] <= max_position_
        /\ position_ - working["SELL"] >= -max_position_

\* An order that is ALLOWED fits under the limit: nothing of what the check
\* computes leaves int32_t.
LEMMA AllowedFits ==
  ASSUME LimitsFit, NEW side \in Sides, NEW qty \in Nat,
         position_ \in Int, Abs(position_) <= max_position_,
         checkPreTradeRisk(side, qty) = "ALLOWED"
  PROVE  /\ qty <= max_order_size_
         /\ Abs(position_ + sideToValue(side) * qty) <= max_position_
<1> DEFINE after == position_ + sideToValue(side) * qty
<1>1. /\ max_order_size_ \in Nat
      /\ max_position_ \in Nat
      /\ MaxInt \in Nat
      /\ max_order_size_ + max_position_ <= MaxInt
  BY PositionAssumption, Ranges DEF LimitsFit
<1>2. /\ qty <= max_order_size_
      /\ ~(Abs(Int32(position_ + sideToValue(side) * Int32(qty)))
             > Int32(max_position_))
  BY <1>1 DEF checkPreTradeRisk
<1>3. Int32(qty) = qty /\ Int32(max_position_) = max_position_
  BY <1>1, <1>2, Int32Fits
<1>4. after \in Int /\ -(MaxInt + 1) <= after /\ after <= MaxInt
  BY <1>1, <1>2, SideValues DEF Abs
<1>5. Int32(after) = after
  BY <1>4, Int32Fits
<1>6. ~(Abs(after) > max_position_)
  BY <1>2, <1>3, <1>5
<1> HIDE DEF after
<1>7. Abs(after) \in Int
  BY <1>4, AbsInt
<1> QED BY <1>1, <1>2, <1>6, <1>7 DEF after

\* Where the limits fit into an int32_t, checkPreTradeRisk() keeps the position
\* within max_position_ through every sequence of orders it allows, partial
\* fills and cancels.
THEOREM PositionLimit == PositionSpec => []AllowedStaysWithin
<1>1. PositionInit => WithinLimitWhenFilled
  BY PositionAssumption DEF PositionInit, WithinLimitWhenFilled, Sides
<1>2. PositionTypeOK /\ WithinLimitWhenFilled => AllowedStaysWithin
  BY PositionAssumption, Ranges DEF PositionTypeOK, WithinLimitWhenFilled, AllowedStaysWithin,
       LimitsFit, CheckKeepsLimit, PositionWithinLimit, Abs, Sides
<1>3. PositionTypeOK /\ WithinLimitWhenFilled /\ [PositionNext]_positionVars => WithinLimitWhenFilled'
  <2> SUFFICES ASSUME PositionTypeOK, WithinLimitWhenFilled, [PositionNext]_positionVars, LimitsFit,
                      ~unchecked'
               PROVE  /\ \A s \in Sides : working'[s] <= max_order_size_
                      /\ position_' + working'["BUY"] <= max_position_
                      /\ position_' - working'["SELL"] >= -max_position_
    BY DEF WithinLimitWhenFilled
  <2>0. /\ position_ \in Int
        /\ working \in [Sides -> Nat]
        /\ working["BUY"] \in Nat
        /\ working["SELL"] \in Nat
        /\ max_position_ \in Nat
        /\ max_order_size_ \in Nat
        /\ MaxInt \in Nat
        /\ max_order_size_ + max_position_ <= MaxInt
    BY PositionAssumption, Ranges DEF PositionTypeOK, Sides, LimitsFit
  <2>1. ~unchecked
    BY DEF PositionNext, sendOrder, canceled, addFill, updateBBO, positionVars
  <2>2. /\ \A s \in Sides : working[s] <= max_order_size_
        /\ position_ + working["BUY"] <= max_position_
        /\ position_ - working["SELL"] >= -max_position_
    BY <2>1 DEF WithinLimitWhenFilled
  <2>3. ASSUME NEW side \in Sides, NEW qty \in OrderQtys, sendOrder(side, qty)
        PROVE  /\ \A s \in Sides : working'[s] <= max_order_size_
               /\ position_' + working'["BUY"] <= max_position_
               /\ position_' - working'["SELL"] >= -max_position_
    <3>1. /\ working' = [working EXCEPT ![side] = qty]
          /\ position_' = position_
          /\ checkPreTradeRisk(side, qty) = "ALLOWED"
      BY <2>3 DEF sendOrder
    <3>2. qty \in Nat
      BY PositionAssumption, Ranges
    <3>3. Abs(position_) <= max_position_
      BY <2>0, <2>2 DEF Abs
    <3>4. /\ qty <= max_order_size_
          /\ Abs(position_ + sideToValue(side) * qty) <= max_position_
      BY <2>0, <3>1, <3>2, <3>3, AllowedFits
    <3>5. CASE side = "BUY"
      BY <2>0, <2>2, <3>1, <3>2, <3>4, <3>5 DEF sideToValue, Abs, Sides
    <3>6. CASE side = "SELL"
      BY <2>0, <2>2, <3>1, <3>2, <3>4, <3>6 DEF sideToValue, Abs, Sides
    <3>. QED
      BY <3>5, <3>6 DEF Sides
  <2>4. ASSUME NEW side \in Sides, canceled(side)
        PROVE  /\ \A s \in Sides : working'[s] <= max_order_size_
               /\ position_' + working'["BUY"] <= max_position_
               /\ position_' - working'["SELL"] >= -max_position_
    BY <2>0, <2>2, <2>4 DEF canceled, Sides
  <2>5. ASSUME NEW side \in Sides, NEW price \in FillPrices,
               NEW qty \in 1 .. working[side], addFill(side, qty, price)
        PROVE  /\ \A s \in Sides : working'[s] <= max_order_size_
               /\ position_' + working'["BUY"] <= max_position_
               /\ position_' - working'["SELL"] >= -max_position_
    <3> DEFINE after == position_ + qty * sideToValue(side)
    <3>1. /\ position_' = Int32(after)
          /\ working' = [working EXCEPT ![side] = @ - qty]
      BY <2>5 DEF addFill
    <3>2. /\ after \in Int
          /\ -(MaxInt + 1) <= after
          /\ after <= MaxInt
      BY <2>0, <2>2 DEF sideToValue, Sides
    <3>3. position_' = after
      BY <3>1, <3>2, Int32Fits
    <3>. QED
      BY <2>0, <2>2, <3>1, <3>3 DEF sideToValue, Sides
  <2>6. ASSUME NEW bid \in FillPrices \cup {Price_INVALID, NullPrice},
               NEW ask \in FillPrices \cup {Price_INVALID, NullPrice}, updateBBO(bid, ask)
        PROVE  UNCHANGED <<position_, working>>
    BY <2>6 DEF updateBBO
  <2>7. CASE UNCHANGED positionVars
    BY <2>2, <2>7 DEF positionVars
  <2>. QED
    BY <2>2, <2>3, <2>4, <2>5, <2>6, <2>7 DEF PositionNext
<1>. QED
  BY <1>1, <1>2, <1>3, TypeCorrect, PTL DEF PositionSpec
-----------------------------------------------------------------------------
(* The loss limit. *)

\* Without a position the total is 0, whatever was lost before.
FlatForgetsLoss ==
    position_ = 0 =>
        /\ total_PnL_ = 0
        /\ \A side \in Sides, qty \in Nat :
              checkPreTradeRisk(side, qty) # "LOSS_TOO_LARGE"

\* The "Max daily loss" of Risk_Manager.md:23 stops nobody who has closed the
\* position: line 77 of position_info.h leaves the realized loss out of the
\* total, and updateBBO() does not value a closed position.
THEOREM LossIsForgotten == PositionSpec => []FlatForgetsLoss
<1> DEFINE Total == position_ = 0 => total_PnL_ = 0
<1>1. PositionInit => Total
  BY DEF PositionInit
<1>2. Total /\ [PositionNext]_positionVars => Total'
  <2> SUFFICES ASSUME Total, [PositionNext]_positionVars, position_' = 0
               PROVE  total_PnL_' = 0
    OBVIOUS
  <2>1. ASSUME NEW side \in Sides, NEW qty \in OrderQtys, sendOrder(side, qty)
        PROVE  total_PnL_' = 0
    BY <2>1 DEF sendOrder, pnl
  <2>2. ASSUME NEW side \in Sides, canceled(side)
        PROVE  total_PnL_' = 0
    BY <2>2 DEF canceled, pnl
  <2>3. ASSUME NEW side \in Sides, NEW price \in FillPrices,
               NEW qty \in 1 .. working[side], addFill(side, qty, price)
        PROVE  total_PnL_' = 0
    BY <2>3 DEF addFill, TotalAfterFill
  <2>4. ASSUME NEW bid, NEW ask, updateBBO(bid, ask)
        PROVE  total_PnL_' = 0
    BY <2>4 DEF updateBBO
  <2>5. CASE UNCHANGED positionVars
    BY <2>5 DEF positionVars, pnl
  <2> QED BY <2>1, <2>2, <2>3, <2>4, <2>5 DEF PositionNext
<1>3. Total => FlatForgetsLoss
  <2> SUFFICES ASSUME total_PnL_ = 0, NEW side \in Sides, NEW qty \in Nat
               PROVE  checkPreTradeRisk(side, qty) # "LOSS_TOO_LARGE"
    BY DEF FlatForgetsLoss
  <2>1. ~(total_PnL_ < max_loss_ * Scale)
    <3>1. MaxLoss * Scale \in Nat
      BY PositionAssumption
    <3>2. max_loss_ * Scale = -(MaxLoss * Scale)
      BY PositionAssumption DEF max_loss_
    <3> QED BY <3>1, <3>2
  <2> QED BY <2>1 DEF checkPreTradeRisk
<1> QED BY <1>1, <1>2, <1>3, PTL DEF PositionSpec
===============================================================================

----------------------------- MODULE OrderManager -----------------------------
(***************************************************************************)
(* TradingSystem::OrderManager: one order per side of an instrument, moved *)
(* by canceling it and sending another, and an exchange that answers its   *)
(* requests.  Requests and responses are on their way at the same time, in *)
(* order in each direction.                                                *)
(*                                                                         *)
(* The exchange may silently ignore a request, as the order server does    *)
(* with one it does not expect.  OrderGateway hands the responses over and *)
(* drops what is not the next number, so each is handled once; but its     *)
(* loop over them does not move on (order_gateway.cpp:15), and its thread  *)
(* reads the first response again for ever.  The calls of                  *)
(* sendClientRequest() are commented out; here they are made.              *)
(***************************************************************************)
EXTENDS CommonTypes, Integers, Sequences, FiniteSets

CONSTANTS
    Prices, Qtys,   \* what the strategy asks for
    MaxOrders,      \* bound: orders the client sends
    MaxIgnored,     \* bound: requests ignored
    LoopAdvances    \* whether the gateway's loop moves on; FALSE as written.
                    \* With TRUE it may stop at any point, too: what is never
                    \* wrong then is never wrong with FALSE.

ASSUME OrderManagerAssumption ==
    /\ Qtys \subseteq Nat \ {0}
    /\ MaxOrders \in Nat
    /\ MaxIgnored \in Nat
    /\ LoopAdvances \in BOOLEAN

VARIABLES
    ticker_orders_,   \* side -> OMOrder
    next_orderId_,
    requests, responses,
    resting,          \* the client's orders in the exchange's book
    gateway,          \* the gateway's thread: "running" or "spinning"
    ignored           \* history: the requests the exchange ignored

client == <<ticker_orders_, next_orderId_>>
orderVars == <<client, requests, responses, resting, gateway, ignored>>

OMOrder(id, price, qty, state) ==
    [order_id_ |-> id, price_ |-> price, qty_ |-> qty, order_state_ |-> state]

MEClientRequest(type, side, order) ==
    [type |-> type, side_ |-> side, order_id_ |-> order.order_id_,
     qty_ |-> order.qty_]

MEClientResponse(type, side, id, left) ==
    [type |-> type, side_ |-> side, order_id_ |-> id, left_qty_ |-> left]

OrdersInit ==
    /\ ticker_orders_ = [s \in Sides |-> OMOrder(0, 0, 0, "INVALID")]
    /\ next_orderId_ = 1
    /\ requests = << >>
    /\ responses = << >>
    /\ resting = {}
    /\ gateway = "running"
    /\ ignored = {}

-----------------------------------------------------------------------------
(* The client: moveOrders() on the state s of the client and its requests. *)

\* Mutant: a new order does not wait for the cancel of the last one.
CanReplaceEarly(state) == state \in {"INVALID", "DEAD", "PENDING_CANCEL"}

\* Mutant: an order that is not answered is given up.
CanReplaceUnanswered(state) == state \in {"INVALID", "DEAD", "PENDING_NEW"}

CanReplace(state) == state \in {"INVALID", "DEAD"}

newOrder(s, side, price, qty) ==
    LET order == OMOrder(s.next, price, qty, "PENDING_NEW")
    IN  [orders |-> [s.orders EXCEPT ![side] = order],
         next |-> s.next + 1,
         requests |-> Append(s.requests, MEClientRequest("NEW", side, order))]

cancelOrder(s, side) ==
    [s EXCEPT !.orders[side].order_state_ = "PENDING_CANCEL",
              !.requests = Append(@, MEClientRequest("CANCEL", side,
                                                     s.orders[side]))]

\* moveOrder(): the risk check is commented out.
moveOrder(s, side, price, qty) ==
    LET order == s.orders[side]
    IN  IF /\ order.order_state_ = "LIVE"
           /\ order.price_ # price \/ order.qty_ # qty
        THEN cancelOrder(s, side)
        ELSE IF CanReplace(order.order_state_)
        THEN newOrder(s, side, price, qty)
        ELSE s

\* The strategy's call, for both sides.
moveOrders ==
    \E bid_price \in Prices, ask_price \in Prices, clip \in Qtys :
        LET s == moveOrder(moveOrder([orders |-> ticker_orders_,
                                      next |-> next_orderId_,
                                      requests |-> requests],
                                     "BUY", bid_price, clip),
                           "SELL", ask_price, clip)
        IN  /\ s.next <= MaxOrders + 1
            /\ ticker_orders_' = s.orders
            /\ next_orderId_' = s.next
            /\ requests' = s.requests
            /\ UNCHANGED <<responses, resting, gateway, ignored>>

\* Mutant: a partly filled order is taken for live, as after ACCEPTED.
AfterResponseRevives(order, r) ==
    CASE r.type = "CANCELED" -> [order EXCEPT !.order_state_ = "DEAD"]
      [] r.type \in {"ACCEPTED", "FILLED"} ->
            [order EXCEPT !.order_state_ = "LIVE", !.qty_ = r.left_qty_]
      [] OTHER -> order

\* Mutant: a partial fill leaves the quantity as it was.
AfterResponseKeepsQty(order, r) ==
    CASE r.type = "ACCEPTED" -> [order EXCEPT !.order_state_ = "LIVE"]
      [] r.type = "CANCELED" -> [order EXCEPT !.order_state_ = "DEAD"]
      [] r.type = "FILLED" /\ r.left_qty_ = 0 ->
            [order EXCEPT !.order_state_ = "DEAD"]
      [] OTHER -> order

\* onOrderUpdate() finds the order by instrument and side.
AfterResponse(order, r) ==
    CASE r.type = "ACCEPTED" -> [order EXCEPT !.order_state_ = "LIVE"]
      [] r.type = "CANCELED" -> [order EXCEPT !.order_state_ = "DEAD"]
      [] r.type = "FILLED" ->
            [order EXCEPT !.qty_ = r.left_qty_,
                          !.order_state_ = IF r.left_qty_ = 0 THEN "DEAD" ELSE @]
      [] OTHER -> order

\* The gateway hands a response over, and the manager handles it.  A
\* CANCEL_REJECTED carries Side::INVALID, which has an entry of its own.
onOrderUpdate ==
    /\ gateway = "running"
    /\ responses # << >>
    /\ LET r == Head(responses)
       IN  ticker_orders_' = [s \in Sides |->
                                IF s = r.side_
                                THEN AfterResponse(ticker_orders_[s], r)
                                ELSE ticker_orders_[s]]
    /\ responses' = Tail(responses)
    /\ gateway' = IF LoopAdvances THEN gateway ELSE "spinning"
    /\ UNCHANGED <<next_orderId_, requests, resting, ignored>>

-----------------------------------------------------------------------------
(* The exchange. *)

Order(r) == [order_id_ |-> r.order_id_, side_ |-> r.side_, qty_ |-> r.qty_]

CancelAnswer(r) ==
    IF \E o \in resting : o.order_id_ = r.order_id_
    THEN "CANCELED" ELSE "CANCEL_REJECTED"

\* Once the gateway spins it sends no more, but what it sent before is still
\* answered; here that is so of every request, and the client hears of none.
answer ==
    /\ requests # << >>
    /\ LET r == Head(requests)
           id == r.order_id_
           canceled == CancelAnswer(r)
       IN  IF r.type = "NEW"
           THEN /\ resting' = resting \cup {Order(r)}
                /\ responses' = Append(responses,
                      MEClientResponse("ACCEPTED", r.side_, id, r.qty_))
           ELSE /\ resting' = {o \in resting : o.order_id_ # id}
                /\ responses' = Append(responses,
                      MEClientResponse(canceled,
                          IF canceled = "CANCELED" THEN r.side_ ELSE "INVALID",
                          id, 0))
    /\ requests' = Tail(requests)
    /\ UNCHANGED <<client, gateway, ignored>>

ignore ==
    /\ requests # << >>
    /\ Cardinality(ignored) < MaxIgnored
    /\ ignored' = ignored \cup {Head(requests)}
    /\ requests' = Tail(requests)
    /\ UNCHANGED <<client, responses, resting, gateway>>

Remainder(o, left) == IF left = 0 THEN {} ELSE {[o EXCEPT !.qty_ = left]}

fill ==
    /\ \E o \in resting : \E left \in 0 .. o.qty_ - 1 :
          /\ resting' = (resting \ {o}) \cup Remainder(o, left)
          /\ responses' = Append(responses,
                MEClientResponse("FILLED", o.side_, o.order_id_, left))
    /\ UNCHANGED <<client, requests, gateway, ignored>>

OrdersNext ==
    \/ moveOrders
    \/ onOrderUpdate
    \/ answer
    \/ ignore
    \/ fill

OrdersSpec == OrdersInit /\ [][OrdersNext]_orderVars

\* The loops poll for ever: the exchange's reads what the gateway sends while
\* it runs, and the gateway reads what has arrived unless it spins.  Neither
\* the strategy nor the market has to do anything.
OrdersFairSpec ==
    /\ OrdersSpec
    /\ WF_orderVars(gateway = "running" /\ (answer \/ ignore))
    /\ WF_orderVars(onOrderUpdate)

-----------------------------------------------------------------------------
(* Properties. *)

\* The orders of one side that rest at the exchange or are on their way.
Open(side) ==
    {o.order_id_ : o \in {o \in resting : o.side_ = side}}
    \cup {requests[i].order_id_ : i \in {i \in DOMAIN requests :
             requests[i].type = "NEW" /\ requests[i].side_ = side}}

\* The client never has two orders of one side at the exchange, and the one
\* it has is the one its record is about, whatever fills, cancels and
\* responses cross on the way (moveOrder(), onOrderUpdate()).
OneOrderPerSide ==
    \A s \in Sides : Open(s) \subseteq {ticker_orders_[s].order_id_}

About(s) ==
    {i \in DOMAIN requests : requests[i].side_ = s}
    \cup {i \in DOMAIN responses : responses[i].side_ = s}

\* When nothing is on its way for a side, the record and the exchange agree:
\* a LIVE order rests with exactly the quantity the client believes, and
\* nothing rests for a DEAD one (onOrderUpdate()).
RecordAgrees ==
    \A s \in Sides :
        LET order == ticker_orders_[s]
            there == {o \in resting : o.side_ = s}
        IN  About(s) = {} =>
              /\ order.order_state_ = "LIVE" =>
                    there = {[order_id_ |-> order.order_id_, side_ |-> s,
                              qty_ |-> order.qty_]}
              /\ order.order_state_ \in {"INVALID", "DEAD"} => there = {}

\* The states of an order follow one another as order_manager_order.h:9-15
\* says: accepted once, canceled only when live, and dead for good until the
\* next order (moveOrder(), onOrderUpdate()).
LifeCycle ==
    [][\A s \in Sides :
          LET old == ticker_orders_[s].order_state_
              new == ticker_orders_[s]'.order_state_
          IN  old # new => <<old, new>> \in
                {<<"INVALID", "PENDING_NEW">>, <<"DEAD", "PENDING_NEW">>,
                 <<"PENDING_NEW", "LIVE">>, <<"LIVE", "PENDING_CANCEL">>,
                 <<"LIVE", "DEAD">>, <<"PENDING_CANCEL", "DEAD">>}]_orderVars

\* An order that is waiting for the exchange gets its answer, unless the
\* request was ignored: the gateway reads one response after the other
\* (recvCallback()).
PendingResolves ==
    \A s \in Sides :
        LET pending == ticker_orders_[s].order_state_
                          \in {"PENDING_NEW", "PENDING_CANCEL"}
        IN  pending ~> (~pending \/ \E r \in ignored : r.side_ = s)

\* A NEW that was ignored leaves its side waiting for ever: no later call of
\* moveOrders() trades on it (lines 68-70).
IgnoredIsStuck ==
    \A r \in ignored : r.type = "NEW" =>
        /\ ticker_orders_[r.side_].order_id_ = r.order_id_
        /\ ticker_orders_[r.side_].order_state_ = "PENDING_NEW"
=============================================================================

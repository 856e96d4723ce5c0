-------------------------- MODULE OrderManagerProofs --------------------------
(***************************************************************************)
(* Proofs about OrderManager, for all prices, quantities and numbers of    *)
(* orders, and every way in which requests, fills and responses cross.     *)
(*                                                                         *)
(* The properties speak of what the client believes and what rests at the  *)
(* exchange.  What connects the two is on its way: Consistent says which   *)
(* requests and responses of a side can be under way in each state of its  *)
(* order.  It is stated of a state given by its parts, so that the two     *)
(* calls of moveOrder() in a step can be taken one after the other.        *)
(***************************************************************************)
EXTENDS OrderManager, TLAPS, SequenceTheorems

States == {"INVALID", "PENDING_NEW", "LIVE", "PENDING_CANCEL", "DEAD"}

OMOrders ==
    [order_id_ : Nat, price_ : Prices \cup {0}, qty_ : Nat, order_state_ : States]

Requests == [type : {"NEW", "CANCEL"}, side_ : Sides, order_id_ : Nat, qty_ : Nat]

Responses ==
    [type : {"ACCEPTED", "CANCELED", "CANCEL_REJECTED", "FILLED"},
     side_ : Sides \cup {"INVALID"}, order_id_ : Nat, left_qty_ : Nat]

Orders == [order_id_ : Nat, side_ : Sides, qty_ : Nat \ {0}]

Typed(orders, next, reqs, resps, rest, ign) ==
    /\ orders \in [Sides -> OMOrders]
    /\ next \in Nat
    /\ reqs \in Seq(Requests)
    /\ resps \in Seq(Responses)
    /\ rest \in SUBSET Orders
    /\ ign \in SUBSET Requests

\* Ids are below the next one, an order that was sent has not the id of the
\* other, and a request of one side never names the order of the other.
IdsApart(orders, next, reqs) ==
    /\ \A s \in Sides :
          /\ orders[s].order_id_ < next
          /\ orders[s].order_state_ # "INVALID" =>
                \A t \in Sides : t # s =>
                   orders[t].order_id_ # orders[s].order_id_
    /\ \A i \in 1 .. Len(reqs) :
          /\ reqs[i].order_id_ < next
          /\ \A s \in Sides : s # reqs[i].side_ =>
                                 reqs[i].order_id_ # orders[s].order_id_

\* Nothing of side s rests, nothing is to be heard of it.
NoneRests(rest, s) == \A o \in rest : o.side_ # s
NoneDue(resps, s) == \A i \in 1 .. Len(resps) : resps[i].side_ # s

\* What rests of a side is the order of the record, and is one order; it has
\* been accepted.
RestingIsOpen(order, resps, rest, s) ==
    \A o \in rest : o.side_ = s =>
        /\ o.order_id_ = order.order_id_
        /\ order.order_state_ \in {"PENDING_NEW", "LIVE", "PENDING_CANCEL"}
        /\ order.order_state_ = "PENDING_NEW" => ~NoneDue(resps, s)
        /\ \A p \in rest : p.side_ = s => p = o

\* A NEW on its way is about the order of the record, which has not been
\* heard of; a CANCEL of that order was sent when it was live.
RequestsFit(order, reqs, resps, rest, s) ==
    \A i \in 1 .. Len(reqs) : reqs[i].side_ = s =>
        /\ reqs[i].type = "NEW" =>
              /\ reqs[i].order_id_ = order.order_id_
              /\ reqs[i].qty_ = order.qty_
              /\ reqs[i].qty_ # 0
              /\ order.order_state_ = "PENDING_NEW"
              /\ NoneRests(rest, s)
              /\ NoneDue(resps, s)
              /\ \A j \in 1 .. Len(reqs) :
                    reqs[j].side_ = s /\ reqs[j].type = "NEW" => j = i
        /\ reqs[i].type = "CANCEL" /\ reqs[i].order_id_ = order.order_id_ =>
              order.order_state_ \in {"PENDING_CANCEL", "DEAD"}

Terminal(r) == r.type = "CANCELED" \/ (r.type = "FILLED" /\ r.left_qty_ = 0)

FirstOf(resps, s, i) == \A j \in 1 .. i - 1 : resps[j].side_ # s
LastOf(resps, s, i) == \A j \in i + 1 .. Len(resps) : resps[j].side_ # s

\* ACCEPTED comes first, to a pending order; a response that ends the order
\* comes last, when nothing of it rests any more.
ResponsesFit(order, resps, rest, s) ==
    \A i \in 1 .. Len(resps) : resps[i].side_ = s =>
        /\ order.order_state_ \in {"PENDING_NEW", "LIVE", "PENDING_CANCEL"}
        /\ resps[i].type # "CANCEL_REJECTED"
        /\ resps[i].type = "ACCEPTED" <=>
              order.order_state_ = "PENDING_NEW" /\ FirstOf(resps, s, i)
        /\ resps[i].type = "CANCELED" => order.order_state_ = "PENDING_CANCEL"
        /\ Terminal(resps[i]) => LastOf(resps, s, i) /\ NoneRests(rest, s)

RestsWith(rest, s, qty) == \E o \in rest : o.side_ = s /\ o.qty_ = qty

\* The quantity at the exchange is what the last response says, or what the
\* record says if no response is due.
QtyKnown(order, resps, rest, s) ==
    /\ \A i \in 1 .. Len(resps) :
          resps[i].side_ = s /\ LastOf(resps, s, i) /\ ~Terminal(resps[i]) =>
             RestsWith(rest, s, IF resps[i].type = "ACCEPTED"
                                THEN order.qty_ ELSE resps[i].left_qty_)
    /\ NoneDue(resps, s) /\ order.order_state_ \in {"LIVE", "PENDING_CANCEL"} =>
          RestsWith(rest, s, order.qty_)

\* A NEW that was ignored will not be heard of.
IgnoredFits(order, reqs, resps, rest, ign, s) ==
    \A r \in ign : r.side_ = s /\ r.type = "NEW" =>
        /\ order.order_id_ = r.order_id_
        /\ order.order_state_ = "PENDING_NEW"
        /\ NoneRests(rest, s)
        /\ NoneDue(resps, s)
        /\ \A i \in 1 .. Len(reqs) :
              reqs[i].side_ = s => reqs[i].type # "NEW"

SideFits(order, reqs, resps, rest, ign, s) ==
    /\ RestingIsOpen(order, resps, rest, s)
    /\ RequestsFit(order, reqs, resps, rest, s)
    /\ ResponsesFit(order, resps, rest, s)
    /\ QtyKnown(order, resps, rest, s)
    /\ IgnoredFits(order, reqs, resps, rest, ign, s)

Consistent(orders, next, reqs, resps, rest, ign) ==
    /\ Typed(orders, next, reqs, resps, rest, ign)
    /\ IdsApart(orders, next, reqs)
    /\ \A s \in Sides : SideFits(orders[s], reqs, resps, rest, ign, s)

ManagerInv ==
    Consistent(ticker_orders_, next_orderId_, requests, responses, resting,
               ignored)

\* The part of the state that moveOrders() changes.
ClientStates ==
    [orders : [Sides -> OMOrders], next : Nat, requests : Seq(Requests)]

-----------------------------------------------------------------------------
(* Sequences. *)

\* The elements of a sequence after Append().
LEMMA AppendElements ==
    ASSUME NEW S, NEW q \in Seq(S), NEW e \in S
    PROVE  /\ Append(q, e) \in Seq(S)
           /\ Len(q) \in Nat
           /\ Len(Append(q, e)) = Len(q) + 1
           /\ \A i \in 1 .. Len(q) : Append(q, e)[i] = q[i]
           /\ Append(q, e)[Len(q) + 1] = e
  OBVIOUS

\* The elements of a sequence without its first one.
LEMMA TailElements ==
    ASSUME NEW S, NEW q \in Seq(S), q # << >>
    PROVE  /\ Head(q) \in S
           /\ Head(q) = q[1]
           /\ Len(q) \in Nat \ {0}
           /\ Tail(q) \in Seq(S)
           /\ Len(Tail(q)) = Len(q) - 1
           /\ \A i \in 1 .. Len(q) - 1 : Tail(q)[i] = q[i + 1]
  OBVIOUS

-----------------------------------------------------------------------------
(* What a side does not notice. *)

\* A request of the other side is sent.
LEMMA OtherRequestSent ==
    ASSUME NEW order, NEW reqs \in Seq(Requests), NEW resps, NEW rest, NEW ign,
           NEW s \in Sides, NEW r \in Requests, r.side_ # s,
           SideFits(order, reqs, resps, rest, ign, s)
    PROVE  SideFits(order, Append(reqs, r), resps, rest, ign, s)
<1> DEFINE q == Append(reqs, r)
<1>1. /\ Len(reqs) \in Nat
      /\ Len(q) = Len(reqs) + 1
      /\ \A i \in 1 .. Len(reqs) : q[i] = reqs[i]
      /\ q[Len(reqs) + 1] = r
  BY AppendElements
<1>2. \A i \in 1 .. Len(q) : q[i].side_ = s => i \in 1 .. Len(reqs)
  BY <1>1
<1> HIDE DEF q
<1>3. RequestsFit(order, q, resps, rest, s)
  BY <1>1, <1>2 DEF SideFits, RequestsFit
<1>4. IgnoredFits(order, q, resps, rest, ign, s)
  BY <1>1, <1>2 DEF SideFits, IgnoredFits
<1> QED BY <1>3, <1>4 DEF SideFits, q

\* The exchange takes a request.
LEMMA RequestTaken ==
    ASSUME NEW order, NEW reqs \in Seq(Requests), reqs # << >>, NEW resps,
           NEW rest, NEW ign, NEW s \in Sides,
           SideFits(order, reqs, resps, rest, ign, s)
    PROVE  SideFits(order, Tail(reqs), resps, rest, ign, s)
<1> DEFINE q == Tail(reqs)
<1>1. /\ Len(reqs) \in Nat \ {0}
      /\ Len(q) = Len(reqs) - 1
      /\ \A i \in 1 .. Len(reqs) - 1 : q[i] = reqs[i + 1]
  BY TailElements
<1>2. \A i \in 1 .. Len(q) : i + 1 \in 1 .. Len(reqs) /\ q[i] = reqs[i + 1]
  BY <1>1
<1> HIDE DEF q
<1>3. RequestsFit(order, q, resps, rest, s)
  <2> SUFFICES ASSUME NEW i \in 1 .. Len(q), q[i].side_ = s
               PROVE  /\ q[i].type = "NEW" =>
                            /\ q[i].order_id_ = order.order_id_
                            /\ q[i].qty_ = order.qty_
                            /\ q[i].qty_ # 0
                            /\ order.order_state_ = "PENDING_NEW"
                            /\ NoneRests(rest, s)
                            /\ NoneDue(resps, s)
                            /\ \A j \in 1 .. Len(q) :
                                  q[j].side_ = s /\ q[j].type = "NEW" => j = i
                      /\ /\ q[i].type = "CANCEL"
                         /\ q[i].order_id_ = order.order_id_
                         => order.order_state_ \in {"PENDING_CANCEL", "DEAD"}
    BY DEF RequestsFit
  <2> DEFINE r == reqs[i + 1]
  <2>1. i + 1 \in 1 .. Len(reqs) /\ q[i] = r /\ r.side_ = s
    BY <1>2
  <2>2. RequestsFit(order, reqs, resps, rest, s)
    BY DEF SideFits
  <2>3. /\ r.type = "NEW" =>
              /\ r.order_id_ = order.order_id_
              /\ r.qty_ = order.qty_
              /\ r.qty_ # 0
              /\ order.order_state_ = "PENDING_NEW"
              /\ NoneRests(rest, s)
              /\ NoneDue(resps, s)
        /\ r.type = "CANCEL" /\ r.order_id_ = order.order_id_ =>
              order.order_state_ \in {"PENDING_CANCEL", "DEAD"}
    BY <2>1, <2>2 DEF RequestsFit
  <2>4. ASSUME r.type = "NEW", NEW j \in 1 .. Len(q), q[j].side_ = s,
               q[j].type = "NEW"
        PROVE  j = i
    <3>1. j + 1 \in 1 .. Len(reqs) /\ q[j] = reqs[j + 1]
      BY <1>2
    <3>2. j + 1 = i + 1
      BY <2>1, <2>2, <2>4, <3>1 DEF RequestsFit
    <3> QED BY <1>1, <3>2
  <2> HIDE DEF r
  <2> QED BY <2>1, <2>3, <2>4
<1>4. IgnoredFits(order, q, resps, rest, ign, s)
  BY <1>1, <1>2 DEF SideFits, IgnoredFits
<1> QED BY <1>3, <1>4 DEF SideFits, q

\* A response that is not about the side is sent.
LEMMA OtherResponseSent ==
    ASSUME NEW order, NEW reqs, NEW resps \in Seq(Responses), NEW rest, NEW ign,
           NEW s \in Sides, NEW r \in Responses, r.side_ # s,
           SideFits(order, reqs, resps, rest, ign, s)
    PROVE  SideFits(order, reqs, Append(resps, r), rest, ign, s)
<1> DEFINE q == Append(resps, r)
<1>1. /\ Len(resps) \in Nat
      /\ Len(q) = Len(resps) + 1
      /\ \A i \in 1 .. Len(resps) : q[i] = resps[i]
      /\ q[Len(resps) + 1] = r
  BY AppendElements
<1>2. \A i \in 1 .. Len(q) : q[i].side_ = s => i \in 1 .. Len(resps)
  BY <1>1
<1> HIDE DEF q
<1>3. NoneDue(q, s) <=> NoneDue(resps, s)
  BY <1>1, <1>2 DEF NoneDue
<1>4. \A i \in 1 .. Len(resps) :
         /\ FirstOf(q, s, i) <=> FirstOf(resps, s, i)
         /\ LastOf(q, s, i) <=> LastOf(resps, s, i)
  BY <1>1, <1>2 DEF FirstOf, LastOf
<1>5. RestingIsOpen(order, q, rest, s)
  BY <1>3 DEF SideFits, RestingIsOpen
<1>6. RequestsFit(order, reqs, q, rest, s)
  BY <1>3 DEF SideFits, RequestsFit
<1>7. ResponsesFit(order, q, rest, s)
  BY <1>1, <1>2, <1>4 DEF SideFits, ResponsesFit
<1>8. QtyKnown(order, q, rest, s)
  BY <1>1, <1>2, <1>3, <1>4 DEF SideFits, QtyKnown
<1>9. IgnoredFits(order, reqs, q, rest, ign, s)
  BY <1>3 DEF SideFits, IgnoredFits
<1> QED BY <1>5, <1>6, <1>7, <1>8, <1>9 DEF SideFits, q

\* The client takes a response that is not about the side.
LEMMA OtherResponseTaken ==
    ASSUME NEW order, NEW reqs, NEW resps \in Seq(Responses), resps # << >>,
           NEW rest, NEW ign, NEW s \in Sides, Head(resps).side_ # s,
           SideFits(order, reqs, resps, rest, ign, s)
    PROVE  SideFits(order, reqs, Tail(resps), rest, ign, s)
<1> DEFINE q == Tail(resps)
<1>1. /\ Len(resps) \in Nat \ {0}
      /\ Len(q) = Len(resps) - 1
      /\ resps[1].side_ # s
      /\ \A i \in 1 .. Len(resps) - 1 : q[i] = resps[i + 1]
  BY TailElements
<1>2. \A i \in 1 .. Len(q) : i + 1 \in 1 .. Len(resps) /\ q[i] = resps[i + 1]
  BY <1>1
<1>3. \A i \in 1 .. Len(resps) : resps[i].side_ = s =>
         i - 1 \in 1 .. Len(q) /\ q[i - 1] = resps[i]
  BY <1>1
<1> HIDE DEF q
<1>4. NoneDue(q, s) <=> NoneDue(resps, s)
  BY <1>1, <1>2, <1>3 DEF NoneDue
<1>5. \A i \in 1 .. Len(q) : LastOf(q, s, i) <=> LastOf(resps, s, i + 1)
  BY <1>1, <1>2, <1>3, SMTT(30) DEF LastOf
<1>6. \A i \in 1 .. Len(q) : FirstOf(q, s, i) <=> FirstOf(resps, s, i + 1)
  BY <1>1, <1>2, <1>3, SMTT(30) DEF FirstOf
<1>7. RestingIsOpen(order, q, rest, s)
  BY <1>4 DEF SideFits, RestingIsOpen
<1>8. RequestsFit(order, reqs, q, rest, s)
  BY <1>4 DEF SideFits, RequestsFit
<1>9. ResponsesFit(order, q, rest, s)
  BY <1>1, <1>2, <1>5, <1>6 DEF SideFits, ResponsesFit
<1>10. QtyKnown(order, q, rest, s)
  BY <1>1, <1>2, <1>4, <1>5 DEF SideFits, QtyKnown
<1>11. IgnoredFits(order, reqs, q, rest, ign, s)
  BY <1>4 DEF SideFits, IgnoredFits
<1> QED BY <1>7, <1>8, <1>9, <1>10, <1>11 DEF SideFits, q

\* Orders of the other side come and go.
LEMMA OtherRests ==
    ASSUME NEW order, NEW reqs, NEW resps, NEW rest, NEW rest2, NEW ign,
           NEW s \in Sides,
           \A o : o.side_ = s => (o \in rest <=> o \in rest2),
           SideFits(order, reqs, resps, rest, ign, s)
    PROVE  SideFits(order, reqs, resps, rest2, ign, s)
<1>1. NoneRests(rest2, s) <=> NoneRests(rest, s)
  BY DEF NoneRests
<1>2. \A n : RestsWith(rest2, s, n) <=> RestsWith(rest, s, n)
  BY DEF RestsWith
<1>3. RestingIsOpen(order, resps, rest2, s)
  BY DEF SideFits, RestingIsOpen
<1>4. RequestsFit(order, reqs, resps, rest2, s)
  BY <1>1 DEF SideFits, RequestsFit
<1>5. ResponsesFit(order, resps, rest2, s)
  BY <1>1 DEF SideFits, ResponsesFit
<1>6. QtyKnown(order, resps, rest2, s)
  BY <1>2 DEF SideFits, QtyKnown
<1>7. IgnoredFits(order, reqs, resps, rest2, ign, s)
  BY <1>1 DEF SideFits, IgnoredFits
<1> QED BY <1>3, <1>4, <1>5, <1>6, <1>7 DEF SideFits

-----------------------------------------------------------------------------
(* The client's calls, on a state given by its parts. *)

\* newOrder() for a side whose order was never sent or is dead.
LEMMA newOrderKeeps ==
    ASSUME NEW m, NEW resps, NEW rest, NEW ign, NEW side \in Sides,
           NEW price \in Prices, NEW qty \in Qtys,
           Consistent(m.orders, m.next, m.requests, resps, rest, ign),
           CanReplace(m.orders[side].order_state_)
    PROVE  LET n == newOrder(m, side, price, qty)
           IN  Consistent(n.orders, n.next, n.requests, resps, rest, ign)
<1> DEFINE order == OMOrder(m.next, price, qty, "PENDING_NEW")
           r == MEClientRequest("NEW", side, order)
           orders == [m.orders EXCEPT ![side] = order]
           q == Append(m.requests, r)
<1>1. /\ newOrder(m, side, price, qty).orders = orders
      /\ newOrder(m, side, price, qty).next = m.next + 1
      /\ newOrder(m, side, price, qty).requests = q
  BY DEF newOrder
<1>2. Typed(m.orders, m.next, m.requests, resps, rest, ign)
      /\ IdsApart(m.orders, m.next, m.requests)
      /\ \A s \in Sides : SideFits(m.orders[s], m.requests, resps, rest, ign, s)
  BY DEF Consistent
<1>3. /\ m.next \in Nat
      /\ m.orders \in [Sides -> OMOrders]
      /\ m.requests \in Seq(Requests)
  BY <1>2 DEF Typed
<1>4. qty \in Nat \ {0}
  BY OrderManagerAssumption
<1>5. /\ order \in OMOrders
      /\ order.order_id_ = m.next
      /\ order.qty_ = qty
      /\ order.order_state_ = "PENDING_NEW"
  BY <1>3, <1>4 DEF OMOrder, OMOrders, States
<1>6. /\ r \in Requests
      /\ r.type = "NEW"
      /\ r.side_ = side
      /\ r.order_id_ = m.next
      /\ r.qty_ = qty
  BY <1>3, <1>4, <1>5 DEF MEClientRequest, Requests
<1> HIDE DEF order, r
<1>7. /\ q \in Seq(Requests)
      /\ Len(m.requests) \in Nat
      /\ Len(q) = Len(m.requests) + 1
      /\ \A i \in 1 .. Len(m.requests) : q[i] = m.requests[i]
      /\ q[Len(m.requests) + 1] = r
  BY <1>3, <1>6, AppendElements
<1>8. Typed(orders, m.next + 1, q, resps, rest, ign)
  BY <1>2, <1>3, <1>5, <1>7 DEF Typed
<1>9. /\ orders[side] = order
      /\ \A s \in Sides : s # side => orders[s] = m.orders[s]
  BY <1>3
<1>10. ASSUME NEW i \in 1 .. Len(q)
       PROVE  i \in 1 .. Len(m.requests) \/ i = Len(m.requests) + 1
  BY <1>7
<1>11. \A i \in 1 .. Len(m.requests) : m.requests[i] \in Requests
  BY <1>3
<1>12. \A s \in Sides : m.orders[s].order_id_ \in Nat
  BY <1>3 DEF OMOrders
<1> HIDE DEF q, orders
<1>13. IdsApart(orders, m.next + 1, q)
  <2>1. ASSUME NEW s \in Sides
        PROVE  /\ orders[s].order_id_ < m.next + 1
               /\ orders[s].order_state_ # "INVALID" =>
                     \A t \in Sides : t # s =>
                        orders[t].order_id_ # orders[s].order_id_
    BY <1>2, <1>3, <1>5, <1>9, <1>12 DEF IdsApart
  <2>2. ASSUME NEW i \in 1 .. Len(q)
        PROVE  /\ q[i].order_id_ < m.next + 1
               /\ \A s \in Sides : s # q[i].side_ =>
                                      q[i].order_id_ # orders[s].order_id_
    <3>1. CASE i = Len(m.requests) + 1
      BY <3>1, <1>2, <1>3, <1>6, <1>7, <1>9, <1>12 DEF IdsApart
    <3>2. CASE i \in 1 .. Len(m.requests)
      <4>1. q[i] = m.requests[i] /\ q[i].order_id_ \in Nat
        BY <3>2, <1>7, <1>11 DEF Requests
      <4>2. /\ q[i].order_id_ < m.next
            /\ \A s \in Sides : s # q[i].side_ =>
                                   q[i].order_id_ # m.orders[s].order_id_
        BY <3>2, <4>1, <1>2 DEF IdsApart
      <4> QED BY <4>1, <4>2, <1>3, <1>5, <1>9
    <3> QED BY <3>1, <3>2, <1>10
  <2> QED BY <2>1, <2>2 DEF IdsApart
<1>14. ASSUME NEW s \in Sides
       PROVE  SideFits(orders[s], q, resps, rest, ign, s)
  <2>1. CASE s # side
    <3>1. SideFits(m.orders[s], q, resps, rest, ign, s)
      BY <2>1, <1>2, <1>3, <1>6, OtherRequestSent DEF q
    <3> QED BY <3>1, <2>1, <1>9
  <2>2. CASE s = side
    <3>1. m.orders[side].order_state_ \in {"INVALID", "DEAD"}
      BY DEF CanReplace
    <3>2. SideFits(m.orders[side], m.requests, resps, rest, ign, side)
      BY <1>2
    <3>3. NoneRests(rest, side)
      BY <3>1, <3>2 DEF SideFits, RestingIsOpen, NoneRests
    <3>4. NoneDue(resps, side)
      BY <3>1, <3>2 DEF SideFits, ResponsesFit, NoneDue
    <3>5. \A i \in 1 .. Len(m.requests) :
             m.requests[i].side_ = side => m.requests[i].type # "NEW"
      BY <3>1, <3>2 DEF SideFits, RequestsFit
    <3>6. \A i \in 1 .. Len(m.requests) : m.requests[i].order_id_ # m.next
      BY <1>2, <1>3, <1>11 DEF IdsApart, Requests
    <3>7. \A x \in ign : x.side_ = side => x.type # "NEW"
      BY <3>1, <3>2 DEF SideFits, IgnoredFits
    <3>8. RestingIsOpen(order, resps, rest, side)
      BY <3>3 DEF RestingIsOpen, NoneRests
    <3>9. RequestsFit(order, q, resps, rest, side)
      BY <3>3, <3>4, <3>5, <3>6, <1>4, <1>5, <1>6, <1>7, <1>10, SMTT(30) DEF RequestsFit
    <3>10. ResponsesFit(order, resps, rest, side)
      BY <3>4 DEF ResponsesFit, NoneDue
    <3>11. QtyKnown(order, resps, rest, side)
      BY <3>4, <1>5 DEF QtyKnown, NoneDue
    <3>12. IgnoredFits(order, q, resps, rest, ign, side)
      BY <3>7 DEF IgnoredFits
    <3> QED BY <2>2, <3>8, <3>9, <3>10, <3>11, <3>12, <1>9 DEF SideFits
  <2> QED BY <2>1, <2>2
<1> QED BY <1>1, <1>8, <1>13, <1>14 DEF Consistent, q, orders

\* cancelOrder() of a live order.
LEMMA cancelOrderKeeps ==
    ASSUME NEW m \in ClientStates, NEW resps, NEW rest, NEW ign, NEW side \in Sides,
           Consistent(m.orders, m.next, m.requests, resps, rest, ign),
           m.orders[side].order_state_ = "LIVE"
    PROVE  LET n == cancelOrder(m, side)
           IN  Consistent(n.orders, n.next, n.requests, resps, rest, ign)
<1> DEFINE old == m.orders[side]
           order == [old EXCEPT !.order_state_ = "PENDING_CANCEL"]
           r == MEClientRequest("CANCEL", side, old)
           orders == [m.orders EXCEPT ![side] = order]
           q == Append(m.requests, r)
<1>1. /\ cancelOrder(m, side).orders = orders
      /\ cancelOrder(m, side).next = m.next
      /\ cancelOrder(m, side).requests = q
  BY DEF cancelOrder
<1>2. Typed(m.orders, m.next, m.requests, resps, rest, ign)
      /\ IdsApart(m.orders, m.next, m.requests)
      /\ \A s \in Sides : SideFits(m.orders[s], m.requests, resps, rest, ign, s)
  BY DEF Consistent
<1>3. /\ m.next \in Nat
      /\ m.orders \in [Sides -> OMOrders]
      /\ m.requests \in Seq(Requests)
  BY <1>2 DEF Typed
<1>4. old \in OMOrders
  BY <1>3
<1>5. /\ order \in OMOrders
      /\ order.order_id_ = old.order_id_
      /\ order.qty_ = old.qty_
      /\ order.order_state_ = "PENDING_CANCEL"
  BY <1>4 DEF OMOrders, States
<1>6. /\ r \in Requests
      /\ r.type = "CANCEL"
      /\ r.side_ = side
      /\ r.order_id_ = old.order_id_
  BY <1>4 DEF MEClientRequest, Requests, OMOrders
<1> HIDE DEF order, r
<1>7. /\ q \in Seq(Requests)
      /\ Len(m.requests) \in Nat
      /\ Len(q) = Len(m.requests) + 1
      /\ \A i \in 1 .. Len(m.requests) : q[i] = m.requests[i]
      /\ q[Len(m.requests) + 1] = r
  BY <1>3, <1>6, AppendElements
<1>8. Typed(orders, m.next, q, resps, rest, ign)
  BY <1>2, <1>3, <1>5, <1>7 DEF Typed
<1>9. /\ orders[side] = order
      /\ \A s \in Sides : s # side => orders[s] = m.orders[s]
  BY <1>3
<1>10. \A i \in 1 .. Len(q) : i \in 1 .. Len(m.requests) \/ i = Len(m.requests) + 1
  BY <1>7
<1> HIDE DEF q, orders
<1>11. SideFits(old, m.requests, resps, rest, ign, side)
  BY <1>2
<1>12. IdsApart(orders, m.next, q)
  <2>1. \A s \in Sides : orders[s].order_id_ = m.orders[s].order_id_
    BY <1>5, <1>9
  <2>2. \A s \in Sides : s # side => m.orders[s].order_id_ # old.order_id_
    BY <1>2 DEF IdsApart
  <2>3. \A s \in Sides : orders[s].order_state_ # "INVALID" =>
                            m.orders[s].order_state_ # "INVALID"
    BY <1>9
  <2> QED BY <2>1, <2>2, <2>3, <1>2, <1>6, <1>7, <1>10 DEF IdsApart
<1>13. ASSUME NEW s \in Sides
       PROVE  SideFits(orders[s], q, resps, rest, ign, s)
  <2>1. CASE s # side
    <3>1. SideFits(m.orders[s], q, resps, rest, ign, s)
      BY <2>1, <1>2, <1>3, <1>6, OtherRequestSent DEF q
    <3> QED BY <3>1, <2>1, <1>9
  <2>2. CASE s = side
    <3>1. RestingIsOpen(order, resps, rest, side)
      BY <1>5, <1>11 DEF SideFits, RestingIsOpen
    <3>2. RequestsFit(order, q, resps, rest, side)
      BY <1>5, <1>6, <1>7, <1>10, <1>11 DEF SideFits, RequestsFit
    <3>3. ResponsesFit(order, resps, rest, side)
      BY <1>5, <1>11 DEF SideFits, ResponsesFit
    <3>4. QtyKnown(order, resps, rest, side)
      BY <1>5, <1>11 DEF SideFits, QtyKnown
    <3>5. IgnoredFits(order, q, resps, rest, ign, side)
      BY <1>11 DEF SideFits, IgnoredFits
    <3> QED BY <2>2, <3>1, <3>2, <3>3, <3>4, <3>5, <1>9 DEF SideFits
  <2> QED BY <2>1, <2>2
<1> QED BY <1>1, <1>8, <1>12, <1>13 DEF Consistent, q, orders

\* moveOrder() cancels a live order, replaces a dead one, or does nothing.
LEMMA moveOrderKeeps ==
    ASSUME NEW m \in ClientStates, NEW resps, NEW rest, NEW ign,
           NEW side \in Sides, NEW price \in Prices, NEW qty \in Qtys,
           Consistent(m.orders, m.next, m.requests, resps, rest, ign)
    PROVE  LET n == moveOrder(m, side, price, qty)
           IN  /\ n \in ClientStates
               /\ Consistent(n.orders, n.next, n.requests, resps, rest, ign)
<1> DEFINE n == moveOrder(m, side, price, qty)
<1>1. Consistent(n.orders, n.next, n.requests, resps, rest, ign)
  BY newOrderKeeps, cancelOrderKeeps DEF moveOrder
<1>2. /\ n.orders \in [Sides -> OMOrders]
      /\ n.next \in Nat
      /\ n.requests \in Seq(Requests)
  BY <1>1 DEF Consistent, Typed
<1>3. n = [orders |-> n.orders, next |-> n.next, requests |-> n.requests]
  BY DEF moveOrder, newOrder, cancelOrder, ClientStates
<1> QED BY <1>1, <1>2, <1>3 DEF ClientStates

\* The strategy's call, for both sides.
LEMMA moveOrdersKeeps ==
    ASSUME Consistent(ticker_orders_, next_orderId_, requests, responses,
                      resting, ignored),
           moveOrders
    PROVE  Consistent(ticker_orders_, next_orderId_, requests, responses,
                      resting, ignored)'
<1> DEFINE m == [orders |-> ticker_orders_, next |-> next_orderId_,
                 requests |-> requests]
<1>1. PICK bid_price \in Prices, ask_price \in Prices, clip \in Qtys :
         LET n == moveOrder(moveOrder(m, "BUY", bid_price, clip),
                            "SELL", ask_price, clip)
         IN  /\ ticker_orders_' = n.orders
             /\ next_orderId_' = n.next
             /\ requests' = n.requests
             /\ UNCHANGED <<responses, resting, ignored>>
  BY DEF moveOrders
<1> DEFINE a == moveOrder(m, "BUY", bid_price, clip)
           b == moveOrder(a, "SELL", ask_price, clip)
<1>2. /\ m \in ClientStates
      /\ Consistent(m.orders, m.next, m.requests, responses, resting, ignored)
  BY DEF Consistent, Typed, ClientStates
<1> HIDE DEF m
<1>3. /\ a \in ClientStates
      /\ Consistent(a.orders, a.next, a.requests, responses, resting, ignored)
  BY <1>2, moveOrderKeeps DEF Sides
<1> HIDE DEF a
<1>4. Consistent(b.orders, b.next, b.requests, responses, resting, ignored)
  BY <1>3, moveOrderKeeps DEF Sides
<1> QED BY <1>1, <1>4 DEF a

-----------------------------------------------------------------------------
(* The exchange. *)

\* Of the side whose request is the next, no NEW but this one is on its way.
LEMMA NewTaken ==
    ASSUME NEW order, NEW reqs \in Seq(Requests), reqs # << >>, NEW resps,
           NEW rest, NEW s \in Sides,
           RequestsFit(order, reqs, resps, rest, s),
           Head(reqs).side_ = s, Head(reqs).type = "NEW"
    PROVE  \A i \in 1 .. Len(Tail(reqs)) :
              Tail(reqs)[i].side_ = s => Tail(reqs)[i].type # "NEW"
<1> DEFINE q == Tail(reqs)
<1>1. /\ Len(reqs) \in Nat \ {0}
      /\ Head(reqs) = reqs[1]
      /\ Len(q) = Len(reqs) - 1
      /\ \A i \in 1 .. Len(reqs) - 1 : q[i] = reqs[i + 1]
  BY TailElements
<1>2. \A i \in 1 .. Len(q) : i + 1 \in 1 .. Len(reqs) /\ q[i] = reqs[i + 1]
                             /\ i + 1 # 1
  BY <1>1
<1> HIDE DEF q
<1>3. \A j \in 1 .. Len(reqs) : reqs[j].side_ = s /\ reqs[j].type = "NEW" => j = 1
  BY <1>1 DEF RequestsFit
<1> QED BY <1>2, <1>3 DEF q

\* A NEW is accepted: the order rests, and ACCEPTED is the first response.
LEMMA AcceptKeeps ==
    ASSUME NEW order \in OMOrders, NEW reqs \in Seq(Requests), reqs # << >>,
           NEW resps \in Seq(Responses), NEW rest \in SUBSET Orders, NEW ign,
           NEW s \in Sides,
           SideFits(order, reqs, resps, rest, ign, s),
           Head(reqs).side_ = s, Head(reqs).type = "NEW"
    PROVE  LET r == Head(reqs)
           IN  SideFits(order, Tail(reqs),
                        Append(resps, MEClientResponse("ACCEPTED", s,
                                                       r.order_id_, r.qty_)),
                        rest \cup {Order(r)}, ign, s)
<1> DEFINE r == Head(reqs)
           a == MEClientResponse("ACCEPTED", s, r.order_id_, r.qty_)
           new == Order(r)
           p == Append(resps, a)
           q == Tail(reqs)
           rest2 == rest \cup {new}
<1>1. /\ r \in Requests
      /\ r = reqs[1]
      /\ 1 \in 1 .. Len(reqs)
  BY TailElements
<1>2. /\ r.order_id_ = order.order_id_
      /\ r.qty_ = order.qty_
      /\ order.order_state_ = "PENDING_NEW"
      /\ NoneRests(rest, s)
      /\ NoneDue(resps, s)
  BY <1>1 DEF SideFits, RequestsFit
<1>3. /\ a \in Responses
      /\ a.type = "ACCEPTED"
      /\ a.side_ = s
  BY <1>1 DEF MEClientResponse, Responses, Requests
<1>4. /\ new.side_ = s
      /\ new.order_id_ = order.order_id_
      /\ new.qty_ = order.qty_
  BY <1>2 DEF Order
<1>5. \A i \in 1 .. Len(q) : q[i].side_ = s => q[i].type # "NEW"
  BY NewTaken DEF SideFits
<1>6. SideFits(order, q, resps, rest, ign, s)
  BY RequestTaken
<1>7. \A x \in ign : x.side_ = s => x.type # "NEW"
  BY <1>1 DEF SideFits, IgnoredFits
<1> HIDE DEF r, a, new, q
<1>8. /\ Len(resps) \in Nat
      /\ Len(p) = Len(resps) + 1
      /\ \A i \in 1 .. Len(resps) : p[i] = resps[i]
      /\ p[Len(resps) + 1] = a
  BY <1>3, AppendElements
<1> HIDE DEF p
<1>9. \A i \in 1 .. Len(p) : p[i].side_ = s => i = Len(p) /\ p[i] = a
  BY <1>2, <1>8 DEF NoneDue
<1>10. \A i \in 1 .. Len(p) : FirstOf(p, s, i)
  BY <1>2, <1>8 DEF NoneDue, FirstOf
<1>11. RestingIsOpen(order, p, rest2, s)
  <2>1. ~NoneDue(p, s)
    BY <1>3, <1>8 DEF NoneDue
  <2> QED BY <2>1, <1>2, <1>4 DEF RestingIsOpen, NoneRests
<1>12. RequestsFit(order, q, p, rest2, s)
  BY <1>5, <1>6 DEF SideFits, RequestsFit
<1>13. ResponsesFit(order, p, rest2, s)
  BY <1>2, <1>3, <1>9, <1>10 DEF ResponsesFit, Terminal
<1>14. QtyKnown(order, p, rest2, s)
  <2>1. RestsWith(rest2, s, order.qty_)
    BY <1>4 DEF RestsWith
  <2> QED BY <2>1, <1>2, <1>3, <1>9 DEF QtyKnown
<1>15. IgnoredFits(order, q, p, rest2, ign, s)
  BY <1>7 DEF IgnoredFits
<1> QED BY <1>11, <1>12, <1>13, <1>14, <1>15 DEF SideFits, r, a, new, p, q

\* A response about an order that rests: it is canceled, or filled in part or
\* as a whole.
LEMMA ResponseSent ==
    ASSUME NEW order, NEW reqs, NEW resps \in Seq(Responses), NEW rest,
           NEW rest2, NEW ign, NEW s \in Sides, NEW a \in Responses, NEW o \in rest,
           SideFits(order, reqs, resps, rest, ign, s),
           o.side_ = s, a.side_ = s, a.type \in {"CANCELED", "FILLED"},
           a.type = "CANCELED" => order.order_state_ = "PENDING_CANCEL",
           \A x \in rest2 : x.side_ = s =>
               /\ x.order_id_ = o.order_id_
               /\ x.qty_ = a.left_qty_
               /\ \A y \in rest2 : y.side_ = s => y = x,
           Terminal(a) <=> NoneRests(rest2, s)
    PROVE  SideFits(order, reqs, Append(resps, a), rest2, ign, s)
<1> DEFINE p == Append(resps, a)
<1>1. /\ Len(resps) \in Nat
      /\ Len(p) = Len(resps) + 1
      /\ \A i \in 1 .. Len(resps) : p[i] = resps[i]
      /\ p[Len(resps) + 1] = a
  BY AppendElements
<1> HIDE DEF p
<1>2. ~NoneRests(rest, s)
  BY DEF NoneRests
<1>3. ~NoneDue(p, s)
  BY <1>1 DEF NoneDue
<1>4. /\ order.order_id_ = o.order_id_
      /\ order.order_state_ \in {"PENDING_NEW", "LIVE", "PENDING_CANCEL"}
      /\ order.order_state_ = "PENDING_NEW" => ~NoneDue(resps, s)
  BY DEF SideFits, RestingIsOpen
<1>5. \A i \in 1 .. Len(resps) : resps[i].side_ = s => ~Terminal(resps[i])
  BY <1>2 DEF SideFits, ResponsesFit
<1>6. ASSUME NEW i \in 1 .. Len(resps)
      PROVE  /\ FirstOf(p, s, i) <=> FirstOf(resps, s, i)
             /\ ~LastOf(p, s, i)
  <2>1. \A j \in 1 .. i - 1 : p[j] = resps[j]
    BY <1>1
  <2>2. Len(p) \in i + 1 .. Len(p) /\ p[Len(p)] = a
    BY <1>1
  <2> QED BY <2>1, <2>2 DEF FirstOf, LastOf
<1>7. order.order_state_ = "PENDING_NEW" => ~FirstOf(p, s, Len(p))
  BY <1>1, <1>4 DEF NoneDue, FirstOf
<1>8. LastOf(p, s, Len(p))
  BY <1>1 DEF LastOf
<1>9. RestingIsOpen(order, p, rest2, s)
  BY <1>3, <1>4 DEF RestingIsOpen
<1>10. RequestsFit(order, reqs, p, rest2, s)
  BY <1>2 DEF SideFits, RequestsFit
<1>11. ResponsesFit(order, p, rest2, s)
  <2> SUFFICES ASSUME NEW i \in 1 .. Len(p), p[i].side_ = s
               PROVE  /\ p[i].type # "CANCEL_REJECTED"
                      /\ p[i].type = "ACCEPTED" <=>
                           order.order_state_ = "PENDING_NEW" /\ FirstOf(p, s, i)
                      /\ p[i].type = "CANCELED" =>
                           order.order_state_ = "PENDING_CANCEL"
                      /\ Terminal(p[i]) => LastOf(p, s, i) /\ NoneRests(rest2, s)
    BY <1>4 DEF ResponsesFit
  <2>1. CASE i \in 1 .. Len(resps)
    BY <2>1, <1>1, <1>5, <1>6 DEF SideFits, ResponsesFit
  <2>2. CASE i = Len(p)
    BY <2>2, <1>1, <1>7, <1>8
  <2> QED BY <2>1, <2>2, <1>1
<1>12. QtyKnown(order, p, rest2, s)
  <2>1. ~Terminal(a) => RestsWith(rest2, s, a.left_qty_)
    BY DEF NoneRests, RestsWith
  <2> QED BY <2>1, <1>1, <1>3, <1>6 DEF QtyKnown
<1>13. IgnoredFits(order, reqs, p, rest2, ign, s)
  BY <1>2 DEF SideFits, IgnoredFits
<1> QED BY <1>9, <1>10, <1>11, <1>12, <1>13 DEF SideFits, p

\* The order of a side is known at the exchange by an id of its own.
LEMMA RestingId ==
    ASSUME NEW orders, NEW next, NEW reqs \in Seq(Requests), reqs # << >>,
           NEW resps, NEW rest, NEW ign, NEW s \in Sides,
           Consistent(orders, next, reqs, resps, rest, ign),
           Head(reqs).side_ # s
    PROVE  \A o \in rest : o.side_ = s => o.order_id_ # Head(reqs).order_id_
<1>1. Head(reqs) = reqs[1] /\ 1 \in 1 .. Len(reqs)
  BY TailElements
<1>2. Head(reqs).order_id_ # orders[s].order_id_
  BY <1>1 DEF Consistent, IdsApart
<1> QED BY <1>2 DEF Consistent, SideFits, RestingIsOpen

\* What is left of the requests still names the orders of their sides.
LEMMA TakenIdsApart ==
    ASSUME NEW orders, NEW next, NEW reqs \in Seq(Requests), reqs # << >>,
           IdsApart(orders, next, reqs)
    PROVE  IdsApart(orders, next, Tail(reqs))
<1>1. \A i \in 1 .. Len(Tail(reqs)) :
         i + 1 \in 1 .. Len(reqs) /\ Tail(reqs)[i] = reqs[i + 1]
  BY TailElements
<1> QED BY <1>1 DEF IdsApart

\* A NEW is answered.
LEMMA answerNewKeeps ==
    ASSUME Consistent(ticker_orders_, next_orderId_, requests, responses,
                      resting, ignored),
           answer, Head(requests).type = "NEW"
    PROVE  Consistent(ticker_orders_, next_orderId_, requests, responses,
                      resting, ignored)'
<1> DEFINE r == Head(requests)
           a == MEClientResponse("ACCEPTED", r.side_, r.order_id_, r.qty_)
<1>1. /\ requests # << >>
      /\ resting' = resting \cup {Order(r)}
      /\ responses' = Append(responses, a)
      /\ requests' = Tail(requests)
      /\ UNCHANGED <<ticker_orders_, next_orderId_, ignored>>
  BY DEF answer, client
<1>2. /\ Typed(ticker_orders_, next_orderId_, requests, responses, resting, ignored)
      /\ IdsApart(ticker_orders_, next_orderId_, requests)
      /\ \A s \in Sides : SideFits(ticker_orders_[s], requests, responses,
                                   resting, ignored, s)
  BY DEF Consistent
<1>3. /\ requests \in Seq(Requests)
      /\ responses \in Seq(Responses)
      /\ resting \in SUBSET Orders
      /\ ticker_orders_ \in [Sides -> OMOrders]
  BY <1>2 DEF Typed
<1>4. /\ r \in Requests
      /\ r = requests[1]
      /\ 1 \in 1 .. Len(requests)
      /\ requests' \in Seq(Requests)
  BY <1>1, <1>3, TailElements
<1>5. /\ a \in Responses
      /\ a.side_ = r.side_
  BY <1>4 DEF MEClientResponse, Responses, Requests
<1>6. Order(r) \in Orders /\ Order(r).side_ = r.side_
  <2>1. r.side_ \in Sides /\ r.order_id_ \in Nat /\ r.qty_ \in Nat
    BY <1>4 DEF Requests
  <2>2. r.qty_ # 0
    BY <1>2, <1>4, <2>1 DEF SideFits, RequestsFit
  <2> QED BY <2>1, <2>2 DEF Order, Orders
<1>7. responses' \in Seq(Responses)
  BY <1>1, <1>3, <1>5, AppendElements
<1>8. Typed(ticker_orders_, next_orderId_, requests, responses, resting, ignored)'
  BY <1>1, <1>2, <1>4, <1>6, <1>7 DEF Typed
<1>9. IdsApart(ticker_orders_, next_orderId_, requests)'
  BY <1>1, <1>2, <1>3, TakenIdsApart
<1>10. ASSUME NEW s \in Sides
       PROVE  SideFits(ticker_orders_[s], requests', responses', resting',
                       ignored, s)
  <2>1. CASE r.side_ = s
    <3>1. ticker_orders_[s] \in OMOrders
      BY <1>3
    <3>2. SideFits(ticker_orders_[s], Tail(requests),
                   Append(responses, MEClientResponse("ACCEPTED", s,
                                                      r.order_id_, r.qty_)),
                   resting \cup {Order(r)}, ignored, s)
      BY <2>1, <3>1, <1>1, <1>2, <1>3, AcceptKeeps
    <3> QED BY <3>2, <2>1, <1>1
  <2>2. CASE r.side_ # s
    <3>1. SideFits(ticker_orders_[s], requests', responses, resting, ignored, s)
      BY <1>1, <1>2, <1>3, RequestTaken
    <3>2. SideFits(ticker_orders_[s], requests', responses', resting, ignored, s)
      BY <3>1, <2>2, <1>1, <1>3, <1>5, OtherResponseSent
    <3>3. \A o : o.side_ = s => (o \in resting <=> o \in resting')
      BY <2>2, <1>1, <1>6
    <3> QED BY <3>2, <3>3, OtherRests
  <2> QED BY <2>1, <2>2
<1> QED BY <1>1, <1>8, <1>9, <1>10 DEF Consistent

\* A CANCEL is answered: the order rests and goes, or is not known any more.
LEMMA answerCancelKeeps ==
    ASSUME Consistent(ticker_orders_, next_orderId_, requests, responses,
                      resting, ignored),
           answer, Head(requests).type # "NEW"
    PROVE  Consistent(ticker_orders_, next_orderId_, requests, responses,
                      resting, ignored)'
<1> DEFINE r == Head(requests)
           id == r.order_id_
           found == \E o \in resting : o.order_id_ = id
           a == MEClientResponse(CancelAnswer(r),
                   IF CancelAnswer(r) = "CANCELED" THEN r.side_ ELSE "INVALID",
                   id, 0)
<1>1. /\ requests # << >>
      /\ resting' = {o \in resting : o.order_id_ # id}
      /\ responses' = Append(responses, a)
      /\ requests' = Tail(requests)
      /\ UNCHANGED <<ticker_orders_, next_orderId_, ignored>>
  BY DEF answer, client
<1>2. /\ Typed(ticker_orders_, next_orderId_, requests, responses, resting, ignored)
      /\ IdsApart(ticker_orders_, next_orderId_, requests)
      /\ \A s \in Sides : SideFits(ticker_orders_[s], requests, responses,
                                   resting, ignored, s)
  BY DEF Consistent
<1>3. /\ requests \in Seq(Requests)
      /\ responses \in Seq(Responses)
      /\ resting \in SUBSET Orders
  BY <1>2 DEF Typed
<1>4. /\ r \in Requests
      /\ r = requests[1]
      /\ 1 \in 1 .. Len(requests)
      /\ requests' \in Seq(Requests)
  BY <1>1, <1>3, TailElements
<1>5. r.type = "CANCEL" /\ r.side_ \in Sides /\ id \in Nat
  BY <1>4 DEF Requests
<1>6. /\ a \in Responses
      /\ found => a.type = "CANCELED" /\ a.side_ = r.side_ /\ a.left_qty_ = 0
      /\ ~found => a.side_ = "INVALID"
  BY <1>5 DEF MEClientResponse, Responses, CancelAnswer
<1>7. responses' \in Seq(Responses)
  BY <1>1, <1>3, <1>6, AppendElements
<1>8. Typed(ticker_orders_, next_orderId_, requests, responses, resting, ignored)'
  BY <1>1, <1>2, <1>4, <1>7 DEF Typed
<1>9. IdsApart(ticker_orders_, next_orderId_, requests)'
  BY <1>1, <1>2, <1>3, TakenIdsApart
<1> HIDE DEF a
<1>10. ASSUME NEW s \in Sides
       PROVE  SideFits(ticker_orders_[s], requests', responses', resting',
                       ignored, s)
  <2>1. SideFits(ticker_orders_[s], requests', responses, resting, ignored, s)
    BY <1>1, <1>2, <1>3, RequestTaken
  <2>2. CASE found /\ r.side_ = s
    <3>1. PICK o \in resting : o.order_id_ = id
      BY <2>2
    <3>2. o.side_ = s
      <4>1. o.side_ \in Sides
        BY <1>3 DEF Orders
      <4> QED BY <4>1, <3>1, <2>2, <1>1, <1>3, RestingId
    <3>3. /\ ticker_orders_[s].order_id_ = id
          /\ ticker_orders_[s].order_state_ = "PENDING_CANCEL"
      BY <3>1, <3>2, <2>2, <1>2, <1>4, <1>5
         DEF SideFits, RestingIsOpen, RequestsFit
    <3>4. NoneRests(resting', s)
      BY <3>3, <1>1, <1>2 DEF SideFits, RestingIsOpen, NoneRests
    <3>5. Terminal(a)
      BY <2>2, <1>6 DEF Terminal
    <3> QED BY <3>2, <3>3, <3>4, <3>5, <2>1, <2>2, <1>1, <1>3, <1>6,
               ResponseSent, ZenonT(30) DEF NoneRests
  <2>3. CASE ~(found /\ r.side_ = s)
    <3>1. a.side_ # s
      BY <2>3, <1>6 DEF Sides
    <3>2. SideFits(ticker_orders_[s], requests', responses', resting, ignored, s)
      BY <3>1, <2>1, <1>1, <1>3, <1>6, OtherResponseSent
    <3>3. \A o \in resting : o.side_ = s => o.order_id_ # id
      BY <2>3, <1>1, <1>3, RestingId
    <3>4. \A o : o.side_ = s => (o \in resting <=> o \in resting')
      BY <3>3, <1>1
    <3> QED BY <3>2, <3>4, OtherRests
  <2> QED BY <2>2, <2>3
<1> QED BY <1>1, <1>8, <1>9, <1>10 DEF Consistent

\* A request is ignored: if it is a NEW, the order of its side stays pending.
LEMMA ignoreKeeps ==
    ASSUME Consistent(ticker_orders_, next_orderId_, requests, responses,
                      resting, ignored),
           ignore
    PROVE  Consistent(ticker_orders_, next_orderId_, requests, responses,
                      resting, ignored)'
<1> DEFINE r == Head(requests)
<1>1. /\ requests # << >>
      /\ ignored' = ignored \cup {r}
      /\ requests' = Tail(requests)
      /\ UNCHANGED <<ticker_orders_, next_orderId_, responses, resting>>
  BY DEF ignore, client
<1>2. /\ Typed(ticker_orders_, next_orderId_, requests, responses, resting, ignored)
      /\ IdsApart(ticker_orders_, next_orderId_, requests)
      /\ \A s \in Sides : SideFits(ticker_orders_[s], requests, responses,
                                   resting, ignored, s)
  BY DEF Consistent
<1>3. requests \in Seq(Requests)
  BY <1>2 DEF Typed
<1>4. /\ r \in Requests
      /\ r = requests[1]
      /\ 1 \in 1 .. Len(requests)
      /\ requests' \in Seq(Requests)
  BY <1>1, <1>3, TailElements
<1>5. Typed(ticker_orders_, next_orderId_, requests, responses, resting, ignored)'
  BY <1>1, <1>2, <1>4 DEF Typed
<1>6. IdsApart(ticker_orders_, next_orderId_, requests)'
  BY <1>1, <1>2, <1>3, TakenIdsApart
<1>7. ASSUME NEW s \in Sides
      PROVE  SideFits(ticker_orders_[s], requests', responses, resting,
                      ignored', s)
  <2>1. SideFits(ticker_orders_[s], requests', responses, resting, ignored, s)
    BY <1>1, <1>2, <1>3, RequestTaken
  <2>2. ASSUME r.side_ = s, r.type = "NEW"
        PROVE  /\ ticker_orders_[s].order_id_ = r.order_id_
               /\ ticker_orders_[s].order_state_ = "PENDING_NEW"
               /\ NoneRests(resting, s)
               /\ NoneDue(responses, s)
    BY <2>2, <1>2, <1>4 DEF SideFits, RequestsFit
  <2>3. ASSUME r.side_ = s, r.type = "NEW"
        PROVE  \A i \in 1 .. Len(requests') :
                  requests'[i].side_ = s => requests'[i].type # "NEW"
    <3>1. RequestsFit(ticker_orders_[s], requests, responses, resting, s)
      BY <1>2 DEF SideFits
    <3> QED BY <3>1, <2>3, <1>1, <1>3, NewTaken
  <2>4. IgnoredFits(ticker_orders_[s], requests', responses, resting, ignored', s)
    BY <2>1, <2>2, <2>3, <1>1 DEF SideFits, IgnoredFits
  <2> QED BY <2>1, <2>4 DEF SideFits
<1> QED BY <1>1, <1>5, <1>6, <1>7 DEF Consistent

\* An order is filled, in part or as a whole.
LEMMA fillKeeps ==
    ASSUME Consistent(ticker_orders_, next_orderId_, requests, responses,
                      resting, ignored),
           fill
    PROVE  Consistent(ticker_orders_, next_orderId_, requests, responses,
                      resting, ignored)'
<1>1. PICK o \in resting : \E left \in 0 .. o.qty_ - 1 :
         /\ resting' = (resting \ {o}) \cup Remainder(o, left)
         /\ responses' = Append(responses,
               MEClientResponse("FILLED", o.side_, o.order_id_, left))
  BY DEF fill
<1>2. PICK left \in 0 .. o.qty_ - 1 :
         /\ resting' = (resting \ {o}) \cup Remainder(o, left)
         /\ responses' = Append(responses,
               MEClientResponse("FILLED", o.side_, o.order_id_, left))
  BY <1>1
<1> DEFINE a == MEClientResponse("FILLED", o.side_, o.order_id_, left)
<1>3. UNCHANGED <<ticker_orders_, next_orderId_, requests, ignored>>
  BY DEF fill, client
<1>4. /\ Typed(ticker_orders_, next_orderId_, requests, responses, resting, ignored)
      /\ IdsApart(ticker_orders_, next_orderId_, requests)
      /\ \A s \in Sides : SideFits(ticker_orders_[s], requests, responses,
                                   resting, ignored, s)
  BY DEF Consistent
<1>5. /\ responses \in Seq(Responses)
      /\ resting \in SUBSET Orders
      /\ o \in Orders
  BY <1>4 DEF Typed
<1>6. /\ o.side_ \in Sides
      /\ o.order_id_ \in Nat
      /\ o.qty_ \in Nat
      /\ left \in Nat
  BY <1>5 DEF Orders
<1>7. /\ a \in Responses
      /\ a.type = "FILLED"
      /\ a.side_ = o.side_
      /\ a.left_qty_ = left
  BY <1>6 DEF MEClientResponse, Responses
<1>8. \A x \in Remainder(o, left) :
         /\ x \in Orders
         /\ x.side_ = o.side_
         /\ x.order_id_ = o.order_id_
         /\ x.qty_ = left
         /\ \A y \in Remainder(o, left) : y = x
  BY <1>5, <1>6 DEF Remainder, Orders
<1>9. Remainder(o, left) = {} <=> left = 0
  BY DEF Remainder
<1>10. responses' \in Seq(Responses)
  BY <1>2, <1>5, <1>7, AppendElements
<1>11. Typed(ticker_orders_, next_orderId_, requests, responses, resting, ignored)'
  BY <1>2, <1>3, <1>4, <1>8, <1>10 DEF Typed
<1> HIDE DEF a
<1>12. ASSUME NEW s \in Sides
       PROVE  SideFits(ticker_orders_[s], requests, responses', resting',
                       ignored, s)
  <2>1. SideFits(ticker_orders_[s], requests, responses, resting, ignored, s)
    BY <1>4
  <2>2. CASE o.side_ = s
    <3>1. \A x \in resting : x.side_ = s => x = o
      BY <2>1, <2>2 DEF SideFits, RestingIsOpen
    <3>2. \A x \in resting' : x.side_ = s => x \in Remainder(o, left)
      BY <3>1, <1>2
    <3>3. Terminal(a) <=> NoneRests(resting', s)
      BY <3>2, <2>2, <1>2, <1>7, <1>8, <1>9 DEF Terminal, NoneRests
    <3>4. \A x \in resting' : x.side_ = s =>
             /\ x.order_id_ = o.order_id_
             /\ x.qty_ = a.left_qty_
             /\ \A y \in resting' : y.side_ = s => y = x
      BY <3>2, <1>7, <1>8
    <3>5. SideFits(ticker_orders_[s], requests, Append(responses, a), resting',
                   ignored, s)
      BY <3>3, <3>4, <2>1, <2>2, <1>5, <1>7, ResponseSent
    <3> QED BY <3>5, <1>2 DEF a
  <2>3. CASE o.side_ # s
    <3>1. SideFits(ticker_orders_[s], requests, Append(responses, a), resting,
                   ignored, s)
      BY <2>1, <2>3, <1>5, <1>7, OtherResponseSent
    <3>2. \A x : x.side_ = s => (x \in resting <=> x \in resting')
      BY <2>3, <1>2, <1>8
    <3> QED BY <3>1, <3>2, <1>2, OtherRests DEF a
  <2> QED BY <2>2, <2>3
<1> QED BY <1>3, <1>4, <1>11, <1>12 DEF Consistent

-----------------------------------------------------------------------------
(* The client hears of its order. *)

\* What a response does to the order of its side.
LEMMA AfterResponseOrder ==
    ASSUME NEW order \in OMOrders, NEW r \in Responses
    PROVE  LET n == AfterResponse(order, r)
           IN  /\ n \in OMOrders
               /\ n.order_id_ = order.order_id_
               /\ r.type = "ACCEPTED" =>
                     n.order_state_ = "LIVE" /\ n.qty_ = order.qty_
               /\ Terminal(r) => n.order_state_ = "DEAD"
               /\ r.type = "FILLED" /\ ~Terminal(r) =>
                     /\ n.order_state_ = order.order_state_
                     /\ n.qty_ = r.left_qty_
<1>1. /\ r.left_qty_ \in Nat
      /\ r.type \in {"ACCEPTED", "CANCELED", "CANCEL_REJECTED", "FILLED"}
  BY DEF Responses
<1>2. CASE r.type = "ACCEPTED"
  BY <1>2 DEF AfterResponse, OMOrders, States, Terminal
<1>3. CASE r.type = "CANCELED"
  BY <1>3 DEF AfterResponse, OMOrders, States, Terminal
<1>4. CASE r.type = "FILLED"
  BY <1>1, <1>4 DEF AfterResponse, OMOrders, States, Terminal
<1>5. CASE r.type = "CANCEL_REJECTED"
  BY <1>5 DEF AfterResponse, Terminal
<1> QED BY <1>1, <1>2, <1>3, <1>4, <1>5

\* The first response about a side is handled.
LEMMA ResponseTaken ==
    ASSUME NEW order \in OMOrders, NEW reqs, NEW resps \in Seq(Responses),
           resps # << >>, NEW rest, NEW ign, NEW s \in Sides,
           SideFits(order, reqs, resps, rest, ign, s),
           Head(resps).side_ = s
    PROVE  SideFits(AfterResponse(order, Head(resps)), reqs, Tail(resps), rest,
                    ign, s)
<1> DEFINE r == Head(resps)
           n == AfterResponse(order, r)
           q == Tail(resps)
<1>1. /\ r \in Responses
      /\ r = resps[1]
      /\ Len(resps) \in Nat \ {0}
      /\ Len(q) = Len(resps) - 1
      /\ \A i \in 1 .. Len(resps) - 1 : q[i] = resps[i + 1]
  BY TailElements
<1>2. /\ n.order_id_ = order.order_id_
      /\ r.type = "ACCEPTED" => n.order_state_ = "LIVE" /\ n.qty_ = order.qty_
      /\ Terminal(r) => n.order_state_ = "DEAD"
      /\ r.type = "FILLED" /\ ~Terminal(r) =>
            n.order_state_ = order.order_state_ /\ n.qty_ = r.left_qty_
  BY <1>1, AfterResponseOrder
<1> HIDE DEF n, r, q
<1>3. ~NoneDue(resps, s) /\ r.side_ = s /\ 1 \in 1 .. Len(resps)
  BY <1>1 DEF NoneDue, r
<1>4. FirstOf(resps, s, 1)
  BY DEF FirstOf
<1>5. /\ order.order_state_ \in {"PENDING_NEW", "LIVE", "PENDING_CANCEL"}
      /\ r.type \in {"ACCEPTED", "CANCELED", "FILLED"}
      /\ r.type = "ACCEPTED" <=> order.order_state_ = "PENDING_NEW"
      /\ r.type = "CANCELED" => order.order_state_ = "PENDING_CANCEL"
      /\ Terminal(r) => LastOf(resps, s, 1) /\ NoneRests(rest, s)
  BY <1>1, <1>3, <1>4 DEF SideFits, ResponsesFit, Responses
<1>6. \A i \in 1 .. Len(q) : /\ i + 1 \in 1 .. Len(resps)
                             /\ q[i] = resps[i + 1]
                             /\ ~FirstOf(resps, s, i + 1)
                             /\ LastOf(q, s, i) <=> LastOf(resps, s, i + 1)
  <2> SUFFICES ASSUME NEW i \in 1 .. Len(q)
               PROVE  /\ i + 1 \in 1 .. Len(resps)
                      /\ q[i] = resps[i + 1]
                      /\ ~FirstOf(resps, s, i + 1)
                      /\ LastOf(q, s, i) <=> LastOf(resps, s, i + 1)
    OBVIOUS
  <2>1. i + 1 \in 1 .. Len(resps) /\ q[i] = resps[i + 1]
    BY <1>1
  <2>2. ~FirstOf(resps, s, i + 1)
    BY <1>1, <1>3 DEF FirstOf
  <2>3. \A j \in i + 1 .. Len(q) : j + 1 \in (i + 1) + 1 .. Len(resps)
                                   /\ q[j] = resps[j + 1]
    BY <1>1
  <2>4. \A j \in (i + 1) + 1 .. Len(resps) : j - 1 \in i + 1 .. Len(q)
                                             /\ q[j - 1] = resps[j]
    BY <1>1
  <2>5. LastOf(q, s, i) <=> LastOf(resps, s, i + 1)
    BY <2>3, <2>4, ZenonT(30) DEF LastOf
  <2> QED BY <2>1, <2>2, <2>5
<1>7. NoneDue(q, s) <=> LastOf(resps, s, 1)
  <2>1. \A j \in 1 + 1 .. Len(resps) : j - 1 \in 1 .. Len(q)
                                       /\ q[j - 1] = resps[j]
    BY <1>1
  <2>2. \A j \in 1 .. Len(q) : j + 1 \in 1 + 1 .. Len(resps)
                               /\ q[j] = resps[j + 1]
    BY <1>1
  <2> QED BY <2>1, <2>2, ZenonT(30) DEF NoneDue, LastOf
<1>8. RestingIsOpen(n, q, rest, s)
  BY <1>2, <1>5 DEF SideFits, RestingIsOpen, NoneRests, Terminal
<1>9. RequestsFit(n, reqs, q, rest, s)
  BY <1>2, <1>3, <1>5 DEF SideFits, RequestsFit, Terminal
<1>10. ResponsesFit(n, q, rest, s)
  <2>1. \A i \in 1 .. Len(q) : q[i].side_ = s =>
           /\ ~Terminal(r)
           /\ q[i].type \notin {"ACCEPTED", "CANCEL_REJECTED"}
           /\ q[i].type = "CANCELED" => order.order_state_ = "PENDING_CANCEL"
           /\ Terminal(q[i]) => LastOf(q, s, i) /\ NoneRests(rest, s)
    BY <1>5, <1>6, <1>7 DEF SideFits, ResponsesFit, NoneDue
  <2> QED BY <2>1, <1>2, <1>5 DEF ResponsesFit, Terminal
<1>11. QtyKnown(n, q, rest, s)
  <2>1. \A i \in 1 .. Len(q) : q[i].side_ = s => q[i].type # "ACCEPTED"
    BY <1>6 DEF SideFits, ResponsesFit
  <2>2. LastOf(resps, s, 1) /\ ~Terminal(r) => RestsWith(rest, s, n.qty_)
    BY <1>1, <1>2, <1>3, <1>5 DEF SideFits, QtyKnown, Terminal
  <2>3. Terminal(r) => n.order_state_ = "DEAD"
    BY <1>2
  <2>4. \A i \in 1 .. Len(q) :
           q[i].side_ = s /\ LastOf(q, s, i) /\ ~Terminal(q[i]) =>
              RestsWith(rest, s, q[i].left_qty_)
    BY <2>1, <1>6 DEF SideFits, QtyKnown
  <2> QED BY <2>1, <2>2, <2>3, <2>4, <1>7 DEF QtyKnown
<1>12. IgnoredFits(n, reqs, q, rest, ign, s)
  BY <1>3 DEF SideFits, IgnoredFits
<1> QED BY <1>8, <1>9, <1>10, <1>11, <1>12 DEF SideFits, n, r, q

\* The manager handles a response.
LEMMA onOrderUpdateKeeps ==
    ASSUME Consistent(ticker_orders_, next_orderId_, requests, responses,
                      resting, ignored),
           onOrderUpdate
    PROVE  Consistent(ticker_orders_, next_orderId_, requests, responses,
                      resting, ignored)'
<1> DEFINE r == Head(responses)
<1>1. /\ responses # << >>
      /\ ticker_orders_' = [s \in Sides |-> IF s = r.side_
                                            THEN AfterResponse(ticker_orders_[s], r)
                                            ELSE ticker_orders_[s]]
      /\ responses' = Tail(responses)
      /\ UNCHANGED <<next_orderId_, requests, resting, ignored>>
  BY DEF onOrderUpdate
<1>2. /\ Typed(ticker_orders_, next_orderId_, requests, responses, resting, ignored)
      /\ IdsApart(ticker_orders_, next_orderId_, requests)
      /\ \A s \in Sides : SideFits(ticker_orders_[s], requests, responses,
                                   resting, ignored, s)
  BY DEF Consistent
<1>3. /\ responses \in Seq(Responses)
      /\ \A s \in Sides : ticker_orders_[s] \in OMOrders
  BY <1>2 DEF Typed
<1>4. /\ r \in Responses
      /\ r = responses[1]
      /\ 1 \in 1 .. Len(responses)
      /\ responses' \in Seq(Responses)
  BY <1>1, <1>3, TailElements
<1> HIDE DEF r
<1>5. ASSUME NEW s \in Sides
      PROVE  /\ ticker_orders_'[s] \in OMOrders
             /\ ticker_orders_'[s].order_id_ = ticker_orders_[s].order_id_
  BY <1>1, <1>3, <1>4, AfterResponseOrder
<1>6. Typed(ticker_orders_, next_orderId_, requests, responses, resting, ignored)'
  BY <1>1, <1>2, <1>4, <1>5 DEF Typed
<1>7. \A s \in Sides : ticker_orders_'[s].order_state_ # "INVALID" =>
                          ticker_orders_[s].order_state_ # "INVALID"
  <2> SUFFICES ASSUME NEW s \in Sides, r.side_ = s
               PROVE  ticker_orders_[s].order_state_ # "INVALID"
    BY <1>1
  <2> QED BY <1>2, <1>4 DEF SideFits, ResponsesFit
<1>8. IdsApart(ticker_orders_, next_orderId_, requests)'
  BY <1>1, <1>2, <1>5, <1>7 DEF IdsApart
<1>9. ASSUME NEW s \in Sides
      PROVE  SideFits(ticker_orders_'[s], requests, responses', resting, ignored, s)
  <2>1. CASE r.side_ = s
    <3>1. ticker_orders_'[s] = AfterResponse(ticker_orders_[s], r)
      BY <2>1, <1>1
    <3> QED BY <3>1, <2>1, <1>1, <1>2, <1>3, ResponseTaken DEF r
  <2>2. CASE r.side_ # s
    <3>1. ticker_orders_'[s] = ticker_orders_[s]
      BY <2>2, <1>1
    <3> QED BY <3>1, <2>2, <1>1, <1>2, <1>3, OtherResponseTaken DEF r
  <2> QED BY <2>1, <2>2
<1> QED BY <1>1, <1>6, <1>8, <1>9 DEF Consistent

-----------------------------------------------------------------------------
(* The theorems. *)

\* At the start nothing is on its way.
LEMMA InitManagerInv == OrdersInit => ManagerInv
<1> SUFFICES ASSUME OrdersInit PROVE ManagerInv
  OBVIOUS
<1> DEFINE none == OMOrder(0, 0, 0, "INVALID")
<1>1. /\ ticker_orders_ = [s \in Sides |-> none]
      /\ next_orderId_ = 1
      /\ requests = << >>
      /\ responses = << >>
      /\ resting = {}
      /\ ignored = {}
  BY DEF OrdersInit
<1>2. /\ none \in OMOrders
      /\ none.order_id_ = 0
      /\ none.order_state_ = "INVALID"
  BY DEF OMOrder, OMOrders, States
<1> HIDE DEF none
<1>3. \A s \in Sides : ticker_orders_[s] = none
  BY <1>1
<1>4. Len(requests) = 0 /\ Len(responses) = 0
  BY <1>1
<1>5. Typed(ticker_orders_, next_orderId_, requests, responses, resting, ignored)
  BY <1>1, <1>2 DEF Typed
<1>6. IdsApart(ticker_orders_, next_orderId_, requests)
  BY <1>1, <1>2, <1>3, <1>4 DEF IdsApart
<1>7. \A s \in Sides : SideFits(ticker_orders_[s], requests, responses, resting,
                                ignored, s)
  <2> SUFFICES ASSUME NEW s \in Sides
               PROVE  SideFits(none, requests, responses, resting, ignored, s)
    BY <1>3
  <2>1. RestingIsOpen(none, responses, resting, s)
    BY <1>1 DEF RestingIsOpen
  <2>2. RequestsFit(none, requests, responses, resting, s)
    BY <1>4 DEF RequestsFit
  <2>3. ResponsesFit(none, responses, resting, s)
    BY <1>4 DEF ResponsesFit
  <2>4. QtyKnown(none, responses, resting, s)
    BY <1>2, <1>4 DEF QtyKnown
  <2>5. IgnoredFits(none, requests, responses, resting, ignored, s)
    BY <1>1 DEF IgnoredFits
  <2> QED BY <2>1, <2>2, <2>3, <2>4, <2>5 DEF SideFits
<1> QED BY <1>1, <1>5, <1>6, <1>7 DEF ManagerInv, Consistent

\* Every step keeps the parts consistent.
LEMMA NextManagerInv == ManagerInv /\ [OrdersNext]_orderVars => ManagerInv'
<1> SUFFICES ASSUME ManagerInv, [OrdersNext]_orderVars
             PROVE  ManagerInv'
  OBVIOUS
<1>1. CASE moveOrders
  BY <1>1, moveOrdersKeeps DEF ManagerInv
<1>2. CASE onOrderUpdate
  BY <1>2, onOrderUpdateKeeps DEF ManagerInv
<1>3. CASE answer
  BY <1>3, answerNewKeeps, answerCancelKeeps DEF ManagerInv
<1>4. CASE ignore
  BY <1>4, ignoreKeeps DEF ManagerInv
<1>5. CASE fill
  BY <1>5, fillKeeps DEF ManagerInv
<1>6. CASE UNCHANGED orderVars
  BY <1>6 DEF ManagerInv, orderVars, client
<1> QED BY <1>1, <1>2, <1>3, <1>4, <1>5, <1>6 DEF OrdersNext

\* In every reachable state what is on its way fits the client's record and
\* the exchange's book (moveOrder(), onOrderUpdate() and the exchange's
\* answers).
THEOREM ManagerInvariant == OrdersSpec => []ManagerInv
  BY InitManagerInv, NextManagerInv, PTL DEF OrdersSpec

\* The client never has two orders of one side at the exchange, and the one it
\* has is the one of its record, however requests, fills and responses cross.
THEOREM OneOrder == OrdersSpec => []OneOrderPerSide
<1>1. ManagerInv => OneOrderPerSide
  <2> SUFFICES ASSUME ManagerInv, NEW s \in Sides, NEW id \in Open(s)
               PROVE  id = ticker_orders_[s].order_id_
    BY DEF OneOrderPerSide
  <2>1. /\ SideFits(ticker_orders_[s], requests, responses, resting, ignored, s)
        /\ requests \in Seq(Requests)
    BY DEF ManagerInv, Consistent, Typed
  <2>2. CASE \E o \in resting : o.side_ = s /\ o.order_id_ = id
    BY <2>1, <2>2 DEF SideFits, RestingIsOpen
  <2>3. CASE \E i \in DOMAIN requests : /\ requests[i].type = "NEW"
                                        /\ requests[i].side_ = s
                                        /\ requests[i].order_id_ = id
    BY <2>1, <2>3 DEF SideFits, RequestsFit
  <2> QED BY <2>2, <2>3 DEF Open
<1> QED BY <1>1, ManagerInvariant, PTL

\* When nothing is on its way for a side, a LIVE order rests with exactly the
\* quantity of the record, and nothing rests for one that is DEAD or was never
\* sent (onOrderUpdate()).
THEOREM RecordIsRight == OrdersSpec => []RecordAgrees
<1>1. ManagerInv => RecordAgrees
  <2> SUFFICES ASSUME ManagerInv, NEW s \in Sides, About(s) = {}
               PROVE  LET order == ticker_orders_[s]
                          there == {o \in resting : o.side_ = s}
                      IN  /\ order.order_state_ = "LIVE" =>
                                there = {[order_id_ |-> order.order_id_, side_ |-> s,
                                          qty_ |-> order.qty_]}
                          /\ order.order_state_ \in {"INVALID", "DEAD"} => there = {}
    BY DEF RecordAgrees
  <2> DEFINE order == ticker_orders_[s]
             there == {o \in resting : o.side_ = s}
  <2>1. /\ SideFits(order, requests, responses, resting, ignored, s)
        /\ responses \in Seq(Responses)
        /\ resting \in SUBSET Orders
    BY DEF ManagerInv, Consistent, Typed
  <2>2. NoneDue(responses, s)
    BY <2>1 DEF About, NoneDue
  <2>3. ASSUME order.order_state_ = "LIVE"
        PROVE  there = {[order_id_ |-> order.order_id_, side_ |-> s,
                         qty_ |-> order.qty_]}
    <3>1. PICK o \in resting : o.side_ = s /\ o.qty_ = order.qty_
      BY <2>1, <2>2, <2>3 DEF SideFits, QtyKnown, RestsWith
    <3>2. there = {o} /\ o.order_id_ = order.order_id_
      BY <3>1, <2>1 DEF SideFits, RestingIsOpen
    <3>3. o = [order_id_ |-> o.order_id_, side_ |-> o.side_, qty_ |-> o.qty_]
      BY <2>1 DEF Orders
    <3> QED BY <3>1, <3>2, <3>3
  <2>4. order.order_state_ \in {"INVALID", "DEAD"} => there = {}
    BY <2>1 DEF SideFits, RestingIsOpen
  <2> QED BY <2>3, <2>4
<1> QED BY <1>1, ManagerInvariant, PTL

\* A side whose NEW was ignored stays pending for ever: no call of moveOrder()
\* leads out of PENDING_NEW, and no response can come any more.
THEOREM StuckWhenIgnored == OrdersSpec => []IgnoredIsStuck
<1>1. ManagerInv => IgnoredIsStuck
  <2> SUFFICES ASSUME ManagerInv, NEW r \in ignored, r.type = "NEW"
               PROVE  /\ ticker_orders_[r.side_].order_id_ = r.order_id_
                      /\ ticker_orders_[r.side_].order_state_ = "PENDING_NEW"
    BY DEF IgnoredIsStuck
  <2>1. r.side_ \in Sides
    BY DEF ManagerInv, Consistent, Typed, Requests
  <2>2. IgnoredFits(ticker_orders_[r.side_], requests, responses, resting,
                    ignored, r.side_)
    BY <2>1 DEF ManagerInv, Consistent, SideFits
  <2> QED BY <2>2 DEF IgnoredFits
<1> QED BY <1>1, ManagerInvariant, PTL

\* The transitions of an order's state in one step, LifeCycle's table.
Follows(old, new) ==
    old # new => <<old, new>> \in
        {<<"INVALID", "PENDING_NEW">>, <<"DEAD", "PENDING_NEW">>,
         <<"PENDING_NEW", "LIVE">>, <<"LIVE", "PENDING_CANCEL">>,
         <<"LIVE", "DEAD">>, <<"PENDING_CANCEL", "DEAD">>}

\* One call of moveOrder() touches its side only, and moves it as it should.
LEMMA moveOrderFollows ==
    ASSUME NEW m \in ClientStates, NEW side \in Sides, NEW price, NEW qty
    PROVE  LET n == moveOrder(m, side, price, qty)
           IN  /\ \A s \in Sides : s # side => n.orders[s] = m.orders[s]
               /\ Follows(m.orders[side].order_state_, n.orders[side].order_state_)
<1>1. m.orders \in [Sides -> OMOrders]
  BY DEF ClientStates
<1>2. m.orders[side].order_state_ \in States
  BY <1>1 DEF OMOrders
<1>3. CASE moveOrder(m, side, price, qty) = m
  BY <1>3 DEF Follows
<1>4. CASE /\ m.orders[side].order_state_ = "LIVE"
           /\ moveOrder(m, side, price, qty) = cancelOrder(m, side)
  <2>1. cancelOrder(m, side).orders =
           [m.orders EXCEPT ![side] =
               [m.orders[side] EXCEPT !.order_state_ = "PENDING_CANCEL"]]
    BY DEF cancelOrder
  <2>2. /\ \A s \in Sides : s # side =>
              cancelOrder(m, side).orders[s] = m.orders[s]
        /\ cancelOrder(m, side).orders[side].order_state_ = "PENDING_CANCEL"
    BY <2>1, <1>1 DEF OMOrders
  <2> QED BY <2>2, <1>4 DEF Follows
<1>5. CASE /\ m.orders[side].order_state_ \in {"INVALID", "DEAD"}
           /\ moveOrder(m, side, price, qty) = newOrder(m, side, price, qty)
  <2>1. newOrder(m, side, price, qty).orders =
           [m.orders EXCEPT ![side] = OMOrder(m.next, price, qty, "PENDING_NEW")]
    BY DEF newOrder
  <2>2. /\ \A s \in Sides : s # side =>
              newOrder(m, side, price, qty).orders[s] = m.orders[s]
        /\ newOrder(m, side, price, qty).orders[side].order_state_ = "PENDING_NEW"
    BY <2>1, <1>1 DEF OMOrder
  <2> QED BY <2>2, <1>5 DEF Follows
<1> QED BY <1>3, <1>4, <1>5 DEF moveOrder, CanReplace

\* A response moves its order as it should: ACCEPTED comes
\* to a pending order only, and no fill or cancel to one that is not open.
LEMMA AfterResponseFollows ==
    ASSUME NEW order \in OMOrders, NEW reqs, NEW resps \in Seq(Responses),
           resps # << >>, NEW rest, NEW ign, NEW s \in Sides,
           SideFits(order, reqs, resps, rest, ign, s),
           Head(resps).side_ = s
    PROVE  Follows(order.order_state_,
                   AfterResponse(order, Head(resps)).order_state_)
<1> DEFINE r == Head(resps)
           n == AfterResponse(order, r)
<1>1. r \in Responses /\ r = resps[1] /\ 1 \in 1 .. Len(resps)
  BY TailElements
<1>2. /\ r.type = "ACCEPTED" => n.order_state_ = "LIVE"
      /\ Terminal(r) => n.order_state_ = "DEAD"
      /\ r.type = "FILLED" /\ ~Terminal(r) => n.order_state_ = order.order_state_
  BY <1>1, AfterResponseOrder
<1> HIDE DEF n, r
<1>3. FirstOf(resps, s, 1)
  BY DEF FirstOf
<1>4. /\ order.order_state_ \in {"PENDING_NEW", "LIVE", "PENDING_CANCEL"}
      /\ r.type \in {"ACCEPTED", "CANCELED", "FILLED"}
      /\ r.type = "ACCEPTED" <=> order.order_state_ = "PENDING_NEW"
  BY <1>1, <1>3 DEF SideFits, ResponsesFit, Responses, r
<1>5. r.type = "ACCEPTED" => Follows(order.order_state_, n.order_state_)
  BY <1>2, <1>4 DEF Follows
<1>6. r.type # "ACCEPTED" => Follows(order.order_state_, n.order_state_)
  BY <1>2, <1>4 DEF Follows, Terminal
<1> QED BY <1>5, <1>6 DEF n, r

\* The states of an order follow one another as order_manager_order.h lists
\* them: accepted once, canceled only when live, dead until the next order.
THEOREM LifeCycleHolds == OrdersSpec => LifeCycle
<1> DEFINE A == \A s \in Sides : Follows(ticker_orders_[s].order_state_,
                                         ticker_orders_[s]'.order_state_)
<1>1. ASSUME ManagerInv, [OrdersNext]_orderVars
      PROVE  A
  <2> SUFFICES ASSUME NEW s \in Sides
               PROVE  Follows(ticker_orders_[s].order_state_,
                              ticker_orders_'[s].order_state_)
    OBVIOUS
  <2>1. CASE ticker_orders_'[s] = ticker_orders_[s]
    BY <2>1 DEF Follows
  <2>2. CASE moveOrders
    <3> DEFINE m == [orders |-> ticker_orders_, next |-> next_orderId_,
                     requests |-> requests]
    <3>1. PICK bid_price \in Prices, ask_price \in Prices, clip \in Qtys :
             ticker_orders_' = moveOrder(moveOrder(m, "BUY", bid_price, clip),
                                         "SELL", ask_price, clip).orders
      BY <2>2 DEF moveOrders
    <3> DEFINE a == moveOrder(m, "BUY", bid_price, clip)
               b == moveOrder(a, "SELL", ask_price, clip)
    <3>2. Consistent(ticker_orders_, next_orderId_, requests, responses,
                     resting, ignored)
      BY <1>1 DEF ManagerInv
    <3>3. /\ m \in ClientStates
          /\ Consistent(m.orders, m.next, m.requests, responses, resting, ignored)
          /\ m.orders = ticker_orders_
      BY <3>2 DEF Consistent, Typed, ClientStates
    <3> HIDE DEF m
    <3>4. a \in ClientStates
      BY <3>3, moveOrderKeeps DEF Sides
    <3>5. /\ \A t \in Sides : t # "BUY" => a.orders[t] = m.orders[t]
          /\ Follows(m.orders["BUY"].order_state_, a.orders["BUY"].order_state_)
      BY <3>3, moveOrderFollows DEF Sides
    <3> HIDE DEF a
    <3>6. /\ \A t \in Sides : t # "SELL" => b.orders[t] = a.orders[t]
          /\ Follows(a.orders["SELL"].order_state_, b.orders["SELL"].order_state_)
      BY <3>4, moveOrderFollows DEF Sides
    <3> HIDE DEF b
    <3> QED BY <3>1, <3>3, <3>5, <3>6 DEF Sides, a, b
  <2>3. CASE onOrderUpdate
    <3>1. /\ SideFits(ticker_orders_[s], requests, responses, resting, ignored, s)
          /\ ticker_orders_[s] \in OMOrders
          /\ responses \in Seq(Responses)
      BY <1>1 DEF ManagerInv, Consistent, Typed
    <3>2. CASE Head(responses).side_ = s
      <4>1. responses # << >>
            /\ ticker_orders_'[s] = AfterResponse(ticker_orders_[s], Head(responses))
        BY <2>3, <3>2 DEF onOrderUpdate
      <4> QED BY <4>1, <3>1, <3>2, AfterResponseFollows
    <3>3. CASE Head(responses).side_ # s
      BY <2>1, <2>3, <3>3 DEF onOrderUpdate
    <3> QED BY <3>2, <3>3
  <2>4. CASE answer \/ ignore \/ fill \/ UNCHANGED orderVars
    BY <2>1, <2>4 DEF answer, ignore, fill, orderVars, client
  <2> QED BY <1>1, <2>2, <2>3, <2>4 DEF OrdersNext
<1>2. A => (\A s \in Sides :
          LET old == ticker_orders_[s].order_state_
              new == ticker_orders_[s]'.order_state_
          IN  old # new => <<old, new>> \in
                {<<"INVALID", "PENDING_NEW">>, <<"DEAD", "PENDING_NEW">>,
                 <<"PENDING_NEW", "LIVE">>, <<"LIVE", "PENDING_CANCEL">>,
                 <<"LIVE", "DEAD">>, <<"PENDING_CANCEL", "DEAD">>})
  BY DEF Follows
<1> HIDE DEF A
<1> QED BY <1>1, <1>2, ManagerInvariant, PTL DEF OrdersSpec, LifeCycle
=============================================================================

------------------------- MODULE SnapshotSynthesizer -------------------------
(***************************************************************************)
(* Exchange::SnapshotSynthesizer: keeps the orders of every instrument up  *)
(* to date from the numbered market updates and publishes them all as a    *)
(* snapshot cycle.  The synthesizer thread is an actor of its own, behind  *)
(* the exchange by as many updates as wait in its queue.                   *)
(*                                                                         *)
(* The updates are those of MEOrderBook, one book per instrument: add()    *)
(* and match() name an order by the id the book gave it, cancel() by the   *)
(* id its client gave it.  Price and quantity, which every update carries  *)
(* together, are one value; a TRADE, which only uses up a number, is left  *)
(* out.                                                                    *)
(***************************************************************************)
EXTENDS Integers, Sequences, FiniteSets, SequencesExt

CONSTANTS
    NumTickers,    \* ME_MAX_TICKERS
    MaxOrderIds,   \* ME_MAX_ORDER_IDS
    BookSides,
    Terms,         \* prices and quantities of an order
    MaxUpdates,    \* bound: updates the exchange produces
    Null

ASSUME SynthesizerAssumption ==
    /\ NumTickers \in Nat \ {0}
    /\ MaxOrderIds \in Nat \ {0}
    /\ MaxUpdates \in Nat
    /\ Null \notin [block : Nat, side_ : BookSides, terms : Terms]

VARIABLES
    log,                \* the updates sent so far; log[n] has number n
    taken,              \* how many of them have left the queue
    orders_per_ticker_,
    order_pool_,
    last_inc_seq_num_,
    loop,               \* where run() is: "drain" or "timer"
    published,          \* the datagrams sent by the last step
    process

synthesizer == <<orders_per_ticker_, order_pool_, last_inc_seq_num_>>
vars == <<log, taken, synthesizer, loop, published, process>>

Tickers == 0 .. NumTickers - 1
OrderIds == 0 .. MaxOrderIds - 1

OrderPool == INSTANCE MemPool
    WITH NumElems <- MaxOrderIds, pool <- order_pool_, held <- {}

MEMarketUpdate(type, ticker, id, side, terms) ==
    [type_ |-> type, tickerId_ |-> ticker, orderId_ |-> id, side_ |-> side,
     terms |-> terms]

\* An update of the log, and the market id of the order it is about, which the
\* message does not carry when orderId_ is another id.
Logged(type, ticker, id, marketId, side, terms) ==
    [type_ |-> type, tickerId_ |-> ticker, orderId_ |-> id,
     marketId |-> marketId, side_ |-> side, terms |-> terms]

\* orders_per_ticker_ has no initialiser; it is a part of an object of 64 MB
\* from new, which comes from pages of zeroes.
Init ==
    /\ log = << >>
    /\ taken = 0
    /\ orders_per_ticker_ = [t \in Tickers |-> [o \in OrderIds |-> Null]]
    /\ order_pool_ = OrderPool!EmptyPool
    /\ last_inc_seq_num_ = 0
    /\ loop = "drain"
    /\ published = << >>
    /\ process = "running"

-----------------------------------------------------------------------------
(* The order books of the exchange. *)

SameOrder(m, n) ==
    log[m].tickerId_ = log[n].tickerId_ /\ log[m].marketId = log[n].marketId

\* The updates that make the orders of the book after k updates.
LiveAfter(k) ==
    {n \in 1 .. k :
        /\ log[n].type_ = "ADD"
        /\ \A m \in n + 1 .. k : SameOrder(m, n) => log[m].type_ # "CANCEL"}

\* The last of the first k updates that is about the order of update n.
LatestOf(n, k) ==
    CHOOSE m \in n .. k :
        SameOrder(m, n) /\ \A j \in m + 1 .. k : ~SameOrder(j, n)

AddsIn(k, tickers) ==
    {n \in 1 .. k : log[n].type_ = "ADD" /\ log[n].tickerId_ \in tickers}

\* One of the first k updates names its order by another id.
Mislabelled(k) == \E n \in 1 .. k : log[n].orderId_ # log[n].marketId

\* add(): the order gets the book's next id (generateNewMarketOrderId()).
add ==
    \E t \in Tickers, side \in BookSides, terms \in Terms :
        LET id == Cardinality(AddsIn(Len(log), {t})) + 1
        IN  log' = Append(log, Logged("ADD", t, id, id, side, terms))

\* match(): what it leaves of an order, by the id of the book.
match ==
    \E n \in LiveAfter(Len(log)), terms \in Terms \cup {Null} :
        log' = Append(log, Logged(IF terms = Null THEN "CANCEL" ELSE "MODIFY",
                  log[n].tickerId_, log[n].marketId, log[n].marketId,
                  log[n].side_, terms))

\* cancel(): by the id of the client, any index of client_orders_.
cancel ==
    \E n \in LiveAfter(Len(log)), id \in OrderIds :
        log' = Append(log, Logged("CANCEL", log[n].tickerId_, id,
                  log[n].marketId, log[n].side_, Null))

\* sendMarketUpdate(): the next update of one of the books.
sendMarketUpdate ==
    /\ Len(log) < MaxUpdates
    /\ add \/ match \/ cancel
    /\ UNCHANGED <<taken, synthesizer, loop, published, process>>

-----------------------------------------------------------------------------
(* The synthesizer. *)

Forgotten(orders, u) == [orders EXCEPT ![u.tickerId_][u.orderId_] = Null]

\* Mutant: MODIFY does not change the order.
ModifiedNot(orders, u) == orders

\* Mutant: MODIFY has no break and goes on into CANCEL.
ModifiedFallsThrough(orders, u) == Forgotten(orders, u)

Modified(orders, u) ==
    [orders EXCEPT ![u.tickerId_][u.orderId_].terms = u.terms]

\* ADD: at() throws for an order id past the array, which ends the process
\* (run() is noexcept); an order that exists is asserted not to.  fault chooses
\* what touching memory past the pool's end does.
Add(u, fault) ==
    LET b == order_pool_.next_free_index_
        pool == OrderPool!Taken(order_pool_)
        full == b = OrderPool!PastEnd
    IN  IF u.orderId_ \notin OrderIds
        THEN process' = "terminated" /\ UNCHANGED synthesizer
        ELSE IF orders_per_ticker_[u.tickerId_][u.orderId_] # Null
        THEN process' = "asserted" /\ UNCHANGED synthesizer
        ELSE IF full
        THEN /\ process' = IF fault THEN "terminated" ELSE "corrupted"
             /\ UNCHANGED synthesizer
        ELSE /\ order_pool_' = pool
             /\ orders_per_ticker_' =
                   [orders_per_ticker_ EXCEPT ![u.tickerId_][u.orderId_] =
                       [block |-> b, side_ |-> u.side_, terms |-> u.terms]]
             /\ last_inc_seq_num_' = taken'
             /\ process' = IF fault /\ pool.next_free_index_ = OrderPool!PastEnd
                           THEN "terminated" ELSE process

\* MODIFY and CANCEL assert that there is an order, and that it is the one.
Change(u) ==
    LET order == orders_per_ticker_[u.tickerId_][u.orderId_]
    IN  IF u.orderId_ \notin OrderIds
        THEN process' = "terminated" /\ UNCHANGED synthesizer
        ELSE IF order = Null \/ order.side_ # u.side_
        THEN process' = "asserted" /\ UNCHANGED synthesizer
        ELSE /\ orders_per_ticker_' =
                   IF u.type_ = "CANCEL" THEN Forgotten(orders_per_ticker_, u)
                                         ELSE Modified(orders_per_ticker_, u)
             /\ order_pool_' =
                   IF u.type_ = "CANCEL"
                   THEN OrderPool!Returned(order_pool_, order.block)
                   ELSE order_pool_
             /\ last_inc_seq_num_' = taken'
             /\ process' = process

\* The inner loop of run(): the assertion on the number at the end of
\* addToSnapshot() compares it with the last one.
addToSnapshot ==
    /\ process = "running"
    /\ loop = "drain"
    /\ taken < Len(log)
    /\ taken' = taken + 1
    /\ IF taken' # last_inc_seq_num_ + 1
       THEN process' = "asserted" /\ UNCHANGED synthesizer
       ELSE IF log[taken'].type_ = "ADD"
       THEN \E fault \in BOOLEAN : Add(log[taken'], fault)
       ELSE Change(log[taken'])
    /\ published' = << >>
    /\ UNCHANGED <<log, loop>>

\* The inner loop has found its queue empty.
drained ==
    /\ process = "running"
    /\ loop = "drain"
    /\ taken = Len(log)
    /\ loop' = "timer"
    /\ published' = << >>
    /\ UNCHANGED <<log, taken, synthesizer, process>>

\* An instrument's part of the cycle: CLEAR, then the entries of its array
\* that are not null, in the order of their ids.
Messages(t) ==
    <<MEMarketUpdate("CLEAR", t, Null, Null, Null)>>
    \o FlattenSeq([i \in 1 .. MaxOrderIds |->
          LET order == orders_per_ticker_[t][i - 1]
          IN  IF order = Null THEN << >>
              ELSE <<MEMarketUpdate("ADD", t, i - 1, order.side_, order.terms)>>])

Marker(type) == MEMarketUpdate(type, Null, last_inc_seq_num_, Null, Null)

\* snapshot_size numbers the cycle's messages from 0 on.
Numbered(messages) ==
    [i \in DOMAIN messages |-> [seq_num |-> i - 1, update |-> messages[i]]]

\* publishSnapshot(): which messages share a datagram is left out.
publishSnapshot ==
    /\ process = "running"
    /\ loop = "timer"
    /\ loop' = "drain"
    /\ published' = Numbered(
          <<Marker("SNAPSHOT_START")>>
          \o FlattenSeq([i \in 1 .. NumTickers |-> Messages(i - 1)])
          \o <<Marker("SNAPSHOT_END")>>)
    /\ UNCHANGED <<log, taken, synthesizer, process>>

\* Less than a minute has passed since the last snapshot.
notYet ==
    /\ process = "running"
    /\ loop = "timer"
    /\ loop' = "drain"
    /\ published' = << >>
    /\ UNCHANGED <<log, taken, synthesizer, process>>

Next ==
    \/ sendMarketUpdate
    \/ addToSnapshot
    \/ drained
    \/ publishSnapshot
    \/ notYet

Spec == Init /\ [][Next]_vars

-----------------------------------------------------------------------------
(* Properties. *)

\* As long as every update named its order by the id of the book: a client
\* that applies a whole cycle has the exchange's book as it was after the
\* update whose number START and END carry, however many updates have been
\* sent since: the same orders, each with its latest price and quantity, under
\* numbers without a gap, and every CLEAR before the orders of its instrument
\* (publishSnapshot(), addToSnapshot()).
SnapshotIsBook ==
    published # << >> =>
        LET up(i) == published[i].update
            k == up(1).orderId_
            orders == {i \in DOMAIN published : up(i).type_ = "ADD"}
        IN  ~Mislabelled(k) =>
            /\ up(1).type_ = "SNAPSHOT_START"
            /\ up(Len(published)).type_ = "SNAPSHOT_END"
            /\ up(Len(published)).orderId_ = k
            /\ \A i \in DOMAIN published : published[i].seq_num = i - 1
            /\ {<<up(i).tickerId_, up(i).orderId_, up(i).side_, up(i).terms>> :
                   i \in orders}
               = {<<log[n].tickerId_, log[n].marketId, log[n].side_,
                    log[LatestOf(n, k)].terms>> : n \in LiveAfter(k)}
            /\ \A i \in orders : \E j \in 1 .. i - 1 :
                  /\ up(j).type_ = "CLEAR"
                  /\ up(j).tickerId_ = up(i).tickerId_

\* Nothing but a CANCEL by the id of a client, or a pool that has given out its
\* last block, ends the synthesizer: the assertions of addToSnapshot() hold of
\* every other stream, whatever the books do and however far it lags.
SurvivesUntilFull ==
    process # "running" =>
        Mislabelled(taken) \/ Cardinality(AddsIn(taken, Tickers)) >= MaxOrderIds
=============================================================================

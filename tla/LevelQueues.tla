----------------------------- MODULE LevelQueues -----------------------------
(***************************************************************************)
(* What a limit order book promises about time priority: at each price     *)
(* level the orders stand in line.  A newcomer joins at the end of one     *)
(* line, behind orders that are all older, and an order that leaves does   *)
(* not change the order of the others.  MEOrderBook, with its linked       *)
(* lists, is shown to implement this specification.                        *)
(***************************************************************************)
EXTENDS Integers, SequencesExt

CONSTANTS Levels,     \* the entries of the price table
          MarketIds   \* the ids the exchange gives to orders

VARIABLE queues   \* market order ids at each level, first in line first

Waiting == UNION {{queues[i][k] : k \in DOMAIN queues[i]} : i \in Levels}

Init == queues = [i \in Levels |-> << >>]

Join(i, id) ==
    /\ \A other \in Waiting : other < id
    /\ queues' = [queues EXCEPT ![i] = Append(@, id)]

Leave(i, k) == queues' = [queues EXCEPT ![i] = RemoveAt(@, k)]

Next ==
    \E i \in Levels :
       /\ queues'[i] # queues[i]
       /\ \/ \E id \in MarketIds : Join(i, id)
          \/ \E k \in DOMAIN queues[i] : Leave(i, k)

Spec == Init /\ [][Next]_queues
==============================================================================

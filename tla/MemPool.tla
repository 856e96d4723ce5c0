------------------------------- MODULE MemPool -------------------------------
(***************************************************************************)
(* Common::MemPool (common/mem_pool.h): the preallocated blocks that every *)
(* order and every price level of an order book lives in.  A pool is used  *)
(* by the one thread that owns the book.                                   *)
(*                                                                         *)
(* The pool itself is a value, and its operations are operators on it, so  *)
(* that MEOrderBook can carry two pools in its own state.  The state       *)
(* machine below is a pool with a user that returns each block at most     *)
(* once, as removeOrder() and removePriceLevel() do.                       *)
(***************************************************************************)
EXTENDS Integers, FiniteSets

CONSTANT NumElems   \* store_.size()

\* The constructor reads store_[0].
ASSUME NumElemsAssumption == NumElems \in Nat \ {0}

VARIABLES
    pool,     \* [is_free_, next_free_index_]
    held,     \* the blocks the user has pointers to
    process   \* "running", "terminated", or "corrupted"

poolVars == <<pool, held, process>>

Blocks == 0 .. NumElems - 1

\* Every index past the end of store_: what is read there is not the pool's.
PastEnd == NumElems

EmptyPool == [is_free_ |-> [b \in Blocks |-> TRUE], next_free_index_ |-> 0]

-----------------------------------------------------------------------------
(* Operations on a pool. *)

\* Mutant: the search looks at one block only.
updateNextFreeIndexOnce(free, i) == IF i + 1 \in Blocks THEN i + 1 ELSE 0

\* updateNextFreeIndex(): the first free block from i on.  At the end of
\* store_ the code compares next_free_index_ with 0 and does not assign it, so
\* the search leaves the vector.
updateNextFreeIndex(free, i) ==
    LET candidates == {j \in i .. NumElems - 1 : free[j]}
    IN  IF candidates = {}
        THEN PastEnd
        ELSE CHOOSE j \in candidates : \A k \in candidates : j <= k

\* Mutant: the block is not marked in use.
TakenUnmarked(p) ==
    [p EXCEPT !.next_free_index_ = IF @ + 1 \in Blocks THEN @ + 1 ELSE PastEnd]

\* allocate(): the block at next_free_index_ is marked in use and the index
\* moves on.
Taken(p) ==
    LET free == [p.is_free_ EXCEPT ![p.next_free_index_] = FALSE]
    IN  [is_free_ |-> free,
         next_free_index_ |-> updateNextFreeIndex(free, p.next_free_index_)]

\* deallocate(): the block is marked free; the index stays where it is.
Returned(p, b) == [p EXCEPT !.is_free_[b] = TRUE]

-----------------------------------------------------------------------------
(* A pool and its user. *)

PoolInit ==
    /\ pool = EmptyPool
    /\ held = {}
    /\ process = "running"

\* Reading is_free_ past the end either faults or ends the search there.
allocate ==
    /\ process = "running"
    /\ pool.next_free_index_ # PastEnd
    /\ IF pool.is_free_[pool.next_free_index_]
       THEN /\ pool' = Taken(pool)
            /\ held' = held \cup {pool.next_free_index_}
            /\ process' \in IF pool'.next_free_index_ = PastEnd
                            THEN {"running", "terminated"}
                            ELSE {"running"}
       ELSE /\ process' = "terminated"          \* ASSERT: not a free block
            /\ UNCHANGED <<pool, held>>

\* The block would be constructed outside store_: an assertion on foreign
\* bytes, a fault, or an object written over somebody else's memory.
allocatePastEnd ==
    /\ process = "running"
    /\ pool.next_free_index_ = PastEnd
    /\ process' \in {"terminated", "corrupted"}
    /\ UNCHANGED <<pool, held>>

deallocate(b) ==
    /\ process = "running"
    /\ b \in held
    /\ IF b \in Blocks /\ ~pool.is_free_[b]
       THEN /\ pool' = Returned(pool, b)
            /\ held' = held \ {b}
            /\ UNCHANGED process
       ELSE /\ process' = "terminated"          \* ASSERT: foreign or free
            /\ UNCHANGED <<pool, held>>

PoolNext ==
    \/ allocate
    \/ allocatePastEnd
    \/ \E b \in held : deallocate(b)

PoolSpec == PoolInit /\ [][PoolNext]_poolVars

-----------------------------------------------------------------------------
(* Properties. *)

PoolTypeOK ==
    /\ pool \in [is_free_ : [Blocks -> BOOLEAN],
                 next_free_index_ : 0 .. NumElems]
    /\ held \in SUBSET Blocks
    /\ process \in {"running", "terminated", "corrupted"}

\* A block is marked in use exactly while somebody holds a pointer to it: no
\* block is handed out twice and none is lost.
HeldInUse == held = {b \in Blocks : ~pool.is_free_[b]}

\* As long as the index is inside the vector none of the three assertions of
\* allocate() and deallocate() ends the process.
AssertsHold == process = "running" \/ pool.next_free_index_ = PastEnd
=============================================================================

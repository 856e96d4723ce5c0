------------------------------ MODULE MCCommon ------------------------------
(***************************************************************************)
(* The two containers of common/ in one run: the threads of a queue, and a *)
(* thread that uses a pool.  They share nothing, so their steps interleave *)
(* freely.                                                                 *)
(***************************************************************************)
EXTENDS LFQueue, MemPool

CommonInit == Init /\ PoolInit

CommonNext ==
    \/ Next /\ UNCHANGED poolVars
    \/ PoolNext /\ UNCHANGED vars

CommonSpec == CommonInit /\ [][CommonNext]_<<vars, poolVars>> /\ Fairness
=============================================================================

---------------------------- MODULE MCWorkerPool ----------------------------
(* The calls to a node's workers, in two lanes: four calls without deadlines *)
(* (two for one generation of a database, one for a later generation, one    *)
(* for another database), and three with deadlines that pass anywhere and    *)
(* workers that are never idle.                                              *)
EXTENDS WorkerPool, TLC

CONSTANTS Lanes, r1, r2, r3, r4

VARIABLE lane

MCRoute ==
  (r1 :> [database |-> "d1", generation |-> 1]) @@
  (r2 :> [database |-> "d1", generation |-> 1]) @@
  (r3 :> [database |-> "d1", generation |-> 2]) @@
  (r4 :> [database |-> "d2", generation |-> 1])

MCInit == lane \in Lanes /\ PoolInit

MCNext ==
  /\ PoolNext
  /\ lane = "plain" => ~\E r \in Requests : DeadlinePasses(r)
  /\ lane = "deadlines" => call'[r3] = call[r3] /\ unused' \subseteq unused
  /\ lane' = lane

\* The fairness of FairPoolSpec where no deadline passes.
MCSpec ==
  /\ MCInit /\ [][MCNext]_<<poolVars, lane>>
  /\ \A r \in Requests : /\ WF_poolVars(lane = "plain" /\ CallNext(r))
                         /\ SF_poolVars(lane = "plain" /\ Lock(r))
  /\ \A p \in Processes : WF_poolVars(lane = "plain" /\ Serve(p))

\* Every call of execute comes back without the help of its deadline: no
\* mutex, permit or pipe is waited for in vain, whatever dies or is evicted.
CallsComeBack == lane = "plain" => CallsReturn
=============================================================================

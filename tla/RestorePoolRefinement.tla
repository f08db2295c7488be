------------------------ MODULE RestorePoolRefinement ------------------------
(* RestoreWorkers implements RestorePool.                                   *)
EXTENDS RestoreWorkers

(* A task waits in the buffer or in the hand of a dispatcher, which takes   *)
(* it out of the channel before it waits for a slot of sem; it runs while   *)
(* the goroutine started for it exists.                                     *)
Waiting(t) ==
  Cardinality({i \in DOMAIN queue : queue[i] = t})
    + Cardinality({d \in Dispatchers : hand[d] = t})

Running(t) == Cardinality({w \in Active : job[w] = t})

Pool == INSTANCE RestorePool WITH
          WaitBound <- MaxTasks + Cardinality(Dispatchers),
          RunBound <- Concurrency,
          waiting <- [t \in Tasks |-> Waiting(t)],
          running <- [t \in Tasks |-> Running(t)]

(* No send is run twice and none disappears except in a crash, whichever    *)
(* dispatcher takes it and however the goroutines interleave; the two       *)
(* dispatchers let two more sends wait than taskQueue has places.           *)
PoolSpec == Pool!Spec
=============================================================================

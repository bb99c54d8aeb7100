------------------------- MODULE MCQueuedThreadPool -------------------------
(* Instance of QueuedThreadPool for TLC. *)
EXTENDS QueuedThreadPool, TLC

ExecutorSymmetry == Permutations(Task) \cup Permutations(Thread)
=============================================================================

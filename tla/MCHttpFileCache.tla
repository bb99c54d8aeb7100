-------------------------- MODULE MCHttpFileCache --------------------------
(* Instance of HttpFileCache for TLC: any body fits alone except the huge    *)
(* one, and the large one leaves no space for another.                       *)
EXTENDS HttpFileCache, TLC

CONSTANTS Small, Large, Huge

MCSize == [b \in Body |-> IF b = Small THEN 1 ELSE IF b = Large THEN 2 ELSE 4]

CacheSymmetry == Permutations(Key) \cup Permutations(Stream)
=============================================================================

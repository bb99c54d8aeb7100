-------------------------- MODULE InterceptorChain --------------------------
(***************************************************************************)
(* A chain of interceptors, around a call (CallInterceptorChain) or around *)
(* an exchange with a server (NetworkInterceptorChain).  Every link is a   *)
(* Chain object of its own, but all of them hold one iterator by           *)
(* reference: proceed() of any of them moves it on for all.                *)
(***************************************************************************)
EXTENDS Naturals, Sequences, SequencesExt

CONSTANT K  \* interceptors in the list

VARIABLE chain  \* where the iterator stands, who is being called, who has control

ChainType == [at : 0..K + 2, stack : BoundedSeq(1..K, K),
              control : {"out", "interceptor", "inner", "undefined"}, again : BOOLEAN]

Rest == [at |-> 0, stack |-> << >>, control |-> "out", again |-> FALSE]

(* The first interceptor is called, or the inner work if there is none.      *)
Begin ==
  /\ chain.control = "out"
  /\ chain' = IF K = 0 THEN [Rest EXCEPT !.at = 1, !.control = "inner"]
              ELSE [Rest EXCEPT !.at = 1, !.stack = <<1>>, !.control = "interceptor"]

(* An interceptor that has proceeded before finds the iterator elsewhere.    *)
Again == chain.at # Last(chain.stack)

(* proceed(): the next interceptor, at the end the inner work, and behind    *)
(* the end whatever the memory there holds.                                  *)
Proceed_EndIsLast ==
  LET next == chain.at + 1
  IN  /\ chain.control = "interceptor"
      /\ chain' = [chain EXCEPT
           !.at = next, !.again = @ \/ Again,
           !.stack = IF next < K THEN Append(@, next) ELSE @,
           !.control = IF next < K THEN "interceptor"
                       ELSE IF next <= K + 1 THEN "inner" ELSE "undefined"]

Proceed ==
  LET next == chain.at + 1
  IN  /\ chain.control = "interceptor"
      /\ chain' = [chain EXCEPT
           !.at = next, !.again = @ \/ Again,
           !.stack = IF next <= K THEN Append(@, next) ELSE @,
           !.control = IF next <= K THEN "interceptor"
                       ELSE IF next = K + 1 THEN "inner" ELSE "undefined"]

Back(stack) == IF stack = << >> THEN "out" ELSE "interceptor"

(* The inner work returns or throws to the interceptor that proceeded last.  *)
InnerEnds ==
  /\ chain.control = "inner"
  /\ chain' = [chain EXCEPT !.control = Back(chain.stack)]

(* intercept() returns or throws: that of an application with or without     *)
(* having proceeded, a logging interceptor after it has proceeded once.      *)
InterceptorEnds ==
  /\ chain.control = "interceptor"
  /\ chain' = [chain EXCEPT !.stack = Front(@), !.control = Back(Front(chain.stack))]

(* The inner work is seen by every interceptor, in order, unless one of them *)
(* proceeded twice: the second time those behind it are passed by.           *)
SeenByAll == chain.control = "inner" => chain.again \/ chain.stack = [i \in 1..K |-> i]
=============================================================================

--------------------------- MODULE FollowUps_proof ---------------------------
(***************************************************************************)
(* Theorems about one call: what execute() promises its caller whatever is *)
(* intercepted, cached, retried, redirected or drained on the way.         *)
(***************************************************************************)
EXTENDS FollowUps, FiniteSetTheorems, SequenceTheorems, TLAPS

Identity(n) == [i \in 1..n |-> i]

(* A chain: the interceptors on the stack come in their order, none beyond   *)
(* the iterator, and none is left out unless one has proceeded again.        *)
Links(K, ch) ==
  /\ ch \in [at : 0..K + 2, stack : Seq(1..K), again : BOOLEAN,
             control : {"out", "interceptor", "inner", "undefined"}]
  /\ \A i \in 1..Len(ch.stack) : i <= ch.stack[i] /\ ch.stack[i] <= ch.at
  /\ \A i, j \in 1..Len(ch.stack) : i < j => ch.stack[i] < ch.stack[j]
  /\ ch.control = "interceptor" =>
       /\ ch.stack # << >> /\ ch.at <= K + 1
       /\ ch.at = ch.stack[Len(ch.stack)] => ch.again \/ ch.stack = Identity(ch.at)
  /\ ch.control = "inner" => ch.at = K + 1 /\ (ch.again \/ ch.stack = Identity(K))

(* Where the call is, and which chain has control there.                     *)
EngineAtWork == {"create", "lookup", "net", "connect", "write", "receive", "judge", "discard",
                 "decide", "drain", "failing", "endless"}
CallPhases == EngineAtWork \cup {"idle", "call", "returned", "failed", "releasing", "undefined"}

ControlIsThere ==
  /\ phase = "call" => callChain.control = "interceptor"
  /\ phase \in EngineAtWork => callChain.control = "inner"
  /\ phase = "net" => netChain.control = "interceptor"
  /\ phase = "net" /\ netChain.at <= NetworkInterceptors => ~NetInterceptors!Again
  /\ phase \in {"connect", "write", "receive", "endless"} => netChain.control = "inner"

Chains ==
  /\ Links(Interceptors, callChain) /\ Links(NetworkInterceptors, netChain)
  /\ ControlIsThere /\ phase \in CallPhases

(* The steps of a chain as operators on it.                                  *)
Begun(K) == IF K = 0 THEN [at |-> 1, stack |-> << >>, control |-> "inner", again |-> FALSE]
            ELSE [at |-> 1, stack |-> <<1>>, control |-> "interceptor", again |-> FALSE]

Proceeded(K, c) ==
  LET next == c.at + 1
  IN  [c EXCEPT !.at = next, !.again = @ \/ c.at # c.stack[Len(c.stack)],
                !.stack = IF next <= K THEN Append(@, next) ELSE @,
                !.control = IF next <= K THEN "interceptor"
                            ELSE IF next = K + 1 THEN "inner" ELSE "undefined"]

BackTo(stack) == IF stack = << >> THEN "out" ELSE "interceptor"
InnerDone(c) == [c EXCEPT !.control = BackTo(c.stack)]
Popped(c) == SubSeq(c.stack, 1, Len(c.stack) - 1)
Returned(c) == [c EXCEPT !.stack = Popped(c), !.control = BackTo(Popped(c))]

(* proceed() on a chain that rests.                                          *)
LEMMA LinksBegun ==
  ASSUME NEW K \in Nat
  PROVE  /\ Links(K, Begun(K))
         /\ Begun(K).control = IF K = 0 THEN "inner" ELSE "interceptor"
         /\ Begun(K).at = 1
         /\ K # 0 => Begun(K).at = Begun(K).stack[Len(Begun(K).stack)]
<1>1. CASE K = 0
  <2>1. << >> \in Seq(1..K) /\ Len(<< >>) = 0 /\ << >> = Identity(0)
    BY DEF Identity
  <2> QED
    BY <1>1, <2>1 DEF Links, Begun
<1>2. CASE K # 0
  <2> DEFINE s == <<1>>
  <2>1. s \in Seq(1..K) /\ Len(s) = 1 /\ s[1] = 1 /\ s # << >>
    BY <1>2
  <2>2. s = Identity(1)
    BY DEF Identity
  <2> HIDE DEF s
  <2>3. Begun(K) = [at |-> 1, stack |-> s, control |-> "interceptor", again |-> FALSE]
    BY <1>2 DEF Begun, s
  <2> QED
    BY <1>2, <2>1, <2>2, <2>3 DEF Links
<1> QED
  BY <1>1, <1>2

(* proceed() called by the interceptor in control moves the iterator on.     *)
LEMMA LinksProceeded ==
  ASSUME NEW K \in Nat, NEW c, Links(K, c), c.control = "interceptor",
         NEW d, d = Proceeded(K, c)
  PROVE  /\ Links(K, d)
         /\ d.control = IF c.at < K THEN "interceptor"
                        ELSE IF c.at = K THEN "inner" ELSE "undefined"
         /\ d.at = c.at + 1
         /\ c.at < K => d.at = d.stack[Len(d.stack)]
<1> DEFINE next == c.at + 1
           again == c.again \/ c.at # c.stack[Len(c.stack)]
           stack == IF next <= K THEN Append(c.stack, next) ELSE c.stack
           control == IF next <= K THEN "interceptor" ELSE IF next = K + 1 THEN "inner" ELSE "undefined"
<1>1. /\ c \in [at : 0..K + 2, stack : Seq(1..K), again : BOOLEAN,
                control : {"out", "interceptor", "inner", "undefined"}]
      /\ c.stack \in Seq(1..K) /\ Len(c.stack) \in Nat /\ Len(c.stack) > 0 /\ c.at \in Nat /\ c.at <= K + 1
      /\ \A i \in 1..Len(c.stack) : i <= c.stack[i] /\ c.stack[i] <= c.at /\ c.stack[i] \in 1..K
      /\ \A i, j \in 1..Len(c.stack) : i < j => c.stack[i] < c.stack[j]
      /\ c.at = c.stack[Len(c.stack)] => c.again \/ c.stack = Identity(c.at)
  BY DEF Links
<1>2. /\ d = [c EXCEPT !.at = next, !.again = again, !.stack = stack, !.control = control]
      /\ again \in BOOLEAN /\ stack \in Seq(1..K) /\ next \in 0..K + 2
  <2>1. d = [c EXCEPT !.at = next, !.again = again, !.stack = stack, !.control = control]
    BY DEF Proceeded
  <2>2. again \in BOOLEAN
    BY <1>1
  <2>3. stack \in Seq(1..K)
    <3>1. next <= K => next \in 1..K
      BY <1>1
    <3>2. next <= K => Append(c.stack, next) \in Seq(1..K)
      BY <1>1, <3>1, AppendProperties
    <3> QED
      BY <1>1, <3>2
  <2> QED
    BY <1>1, <2>1, <2>2, <2>3
<1> HIDE DEF again
<1>3. again \/ c.stack = Identity(c.at)
  BY <1>1, <1>2 DEF again
<1> HIDE DEF stack, control
<1>4. /\ d.at = next /\ d.again = again /\ d.stack = stack /\ d.control = control
      /\ d \in [at : 0..K + 2, stack : Seq(1..K), again : BOOLEAN,
                control : {"out", "interceptor", "inner", "undefined"}]
  <2>1. control \in {"out", "interceptor", "inner", "undefined"}
    BY DEF control
  <2> QED
    BY <1>1, <1>2, <2>1
<1>5. CASE next <= K
  <2>1. /\ d.stack = Append(c.stack, next) /\ Len(d.stack) = Len(c.stack) + 1
        /\ d.stack[Len(d.stack)] = next
        /\ \A i \in 1..Len(c.stack) : d.stack[i] = c.stack[i]
    BY <1>1, <1>4, <1>5 DEF stack
  <2>2. Len(c.stack) <= c.at
    BY <1>1
  <2>3. \A i \in 1..Len(d.stack) : i <= d.stack[i] /\ d.stack[i] <= d.at
    <3>1. SUFFICES ASSUME NEW i \in 1..Len(d.stack) PROVE i <= d.stack[i] /\ d.stack[i] <= d.at
      OBVIOUS
    <3>2. CASE i = Len(d.stack)
      BY <1>1, <1>4, <2>1, <2>2, <3>2
    <3>3. CASE i # Len(d.stack)
      <4>1. i \in 1..Len(c.stack)
        BY <1>1, <2>1, <3>1, <3>3
      <4> QED
        BY <1>1, <1>4, <2>1, <4>1, SMTT(20)
    <3> QED
      BY <3>2, <3>3
  <2>4. \A i, j \in 1..Len(d.stack) : i < j => d.stack[i] < d.stack[j]
    <3>1. SUFFICES ASSUME NEW i \in 1..Len(d.stack), NEW j \in 1..Len(d.stack), i < j
                   PROVE  d.stack[i] < d.stack[j]
      OBVIOUS
    <3>2. i \in 1..Len(c.stack) /\ d.stack[i] = c.stack[i] /\ c.stack[i] <= c.at /\ c.stack[i] \in 1..K
      BY <1>1, <2>1, <3>1
    <3>3. CASE j = Len(d.stack)
      BY <1>1, <2>1, <3>2, <3>3
    <3>4. CASE j # Len(d.stack)
      <4>1. j \in 1..Len(c.stack) /\ d.stack[j] = c.stack[j]
        BY <1>1, <2>1, <3>1, <3>4
      <4> QED
        BY <1>1, <3>1, <3>2, <4>1
    <3> QED
      BY <3>3, <3>4
  <2>5. c.stack = Identity(c.at) => d.stack = Identity(next)
    <3>1. SUFFICES ASSUME c.stack = Identity(c.at) PROVE d.stack = Identity(next)
      OBVIOUS
    <3>2. Len(c.stack) = c.at /\ \A i \in 1..c.at : c.stack[i] = i
      <4>1. DOMAIN c.stack = 1..Len(c.stack) /\ DOMAIN Identity(c.at) = 1..c.at
        BY <1>1 DEF Identity
      <4>2. 1..Len(c.stack) = 1..c.at
        BY <3>1, <4>1
      <4>3. Len(c.stack) = c.at
        BY <1>1, <4>2
      <4> QED
        BY <3>1, <4>3 DEF Identity
    <3>3. d.stack \in Seq(1..K) /\ Len(d.stack) = next
      BY <1>4, <2>1, <3>2
    <3>4. \A i \in 1..next : d.stack[i] = i
      BY <1>1, <2>1, <3>2, <3>3
    <3>5. d.stack = [i \in 1..next |-> d.stack[i]]
      BY <3>3
    <3> QED
      BY <3>4, <3>5 DEF Identity
  <2>6. d.control = "interceptor" /\ d.stack # << >> /\ d.at <= K + 1
    BY <1>1, <1>4, <1>5, <2>1 DEF control
  <2>7. d.again \/ d.stack = Identity(d.at)
    BY <1>3, <1>4, <2>5
  <2>8. d.control # "inner" /\ d.control = "interceptor"
    BY <2>6
  <2>9. Links(K, d)
    BY <1>4, <2>3, <2>4, <2>6, <2>7, <2>8 DEF Links
  <2> QED
    BY <1>1, <1>4, <1>5, <2>1, <2>6, <2>9
<1>6. CASE ~(next <= K)
  <2>1. d.stack = c.stack
    BY <1>4, <1>6 DEF stack
  <2>2. d.control = IF next = K + 1 THEN "inner" ELSE "undefined"
    BY <1>4, <1>6 DEF control
  <2>3. \A i \in 1..Len(d.stack) : i <= d.stack[i] /\ d.stack[i] <= d.at
    BY <1>1, <1>4, <2>1
  <2>4. next = K + 1 => c.at = K
    BY <1>1
  <2>5. d.control = "inner" => d.at = K + 1 /\ (d.again \/ d.stack = Identity(K))
    BY <1>3, <1>4, <2>1, <2>2, <2>4
  <2>6. c.at >= K /\ d.control # "interceptor"
    BY <1>1, <1>6, <2>2
  <2> QED
    BY <1>1, <1>4, <2>1, <2>2, <2>3, <2>5, <2>6 DEF Links
<1> QED
  BY <1>5, <1>6

(* The inner work ends: control comes back to the last interceptor.          *)
LEMMA LinksInnerDone ==
  ASSUME NEW K \in Nat, NEW c, Links(K, c), c.control = "inner",
         NEW d, d = InnerDone(c)
  PROVE  Links(K, d) /\ d.at = K + 1 /\ d.control \in {"out", "interceptor"}
<1>1. /\ c \in [at : 0..K + 2, stack : Seq(1..K), again : BOOLEAN,
                control : {"out", "interceptor", "inner", "undefined"}]
      /\ c.stack \in Seq(1..K) /\ c.at = K + 1
      /\ \A i \in 1..Len(c.stack) : c.stack[i] \in 1..K
  BY DEF Links
<1>2. /\ d.at = c.at /\ d.again = c.again /\ d.stack = c.stack /\ d.control = BackTo(c.stack)
      /\ d \in [at : 0..K + 2, stack : Seq(1..K), again : BOOLEAN,
                control : {"out", "interceptor", "inner", "undefined"}]
  BY <1>1 DEF InnerDone, BackTo
<1>3. c.stack # << >> => c.stack[Len(c.stack)] \in 1..K
  BY <1>1
<1> QED
  BY <1>1, <1>2, <1>3 DEF Links, BackTo

(* An interceptor returns to the one before it.                              *)
LEMMA LinksReturned ==
  ASSUME NEW K \in Nat, NEW c, Links(K, c), c.control = "interceptor",
         NEW d, d = Returned(c)
  PROVE  Links(K, d) /\ d.at = c.at /\ d.control \in {"out", "interceptor"}
<1> DEFINE n == Len(c.stack) - 1
<1>1. /\ c \in [at : 0..K + 2, stack : Seq(1..K), again : BOOLEAN,
                control : {"out", "interceptor", "inner", "undefined"}]
      /\ c.stack \in Seq(1..K) /\ Len(c.stack) \in Nat /\ Len(c.stack) > 0 /\ c.at \in Nat /\ c.at <= K + 1
      /\ \A i \in 1..Len(c.stack) : i <= c.stack[i] /\ c.stack[i] <= c.at /\ c.stack[i] \in 1..K
      /\ \A i, j \in 1..Len(c.stack) : i < j => c.stack[i] < c.stack[j]
  BY DEF Links
<1>2. /\ Popped(c) \in Seq(1..K) /\ Len(Popped(c)) = n
      /\ \A i \in 1..n : Popped(c)[i] = c.stack[i]
  <2> DEFINE len == Len(c.stack)
  <2>0. len \in Nat /\ len > 0 /\ n = len - 1
    BY <1>1
  <2>1. n \in Int /\ \A i \in 1..n : c.stack[i] \in 1..K
    BY <1>1
  <2> HIDE DEF len, n
  <2>2. 1 <= n \/ n = 0
    BY <2>0

  <2>3. /\ SubSeq(c.stack, 1, n) \in Seq(1..K)
        /\ Len(SubSeq(c.stack, 1, n)) = IF 1 <= n THEN n - 1 + 1 ELSE 0
        /\ \A i \in 1..n - 1 + 1 : SubSeq(c.stack, 1, n)[i] = c.stack[1 + i - 1]
    BY <2>1, SubSeqProperties
  <2>4. Popped(c) = SubSeq(c.stack, 1, n)
    BY DEF Popped, n
  <2>5. n - 1 + 1 = n /\ \A i \in 1..n : 1 + i - 1 = i
    BY <2>1
  <2>6. \A i \in 1..n : SubSeq(c.stack, 1, n)[i] = c.stack[i]
    BY <2>3, <2>5
  <2>7. Len(SubSeq(c.stack, 1, n)) = n
    BY <2>1, <2>2, <2>3, <2>5
  <2> QED
    BY <2>3, <2>4, <2>6, <2>7
<1>3. /\ d.at = c.at /\ d.again = c.again /\ d.stack = Popped(c)
      /\ d.control = IF Popped(c) = << >> THEN "out" ELSE "interceptor"
      /\ d \in [at : 0..K + 2, stack : Seq(1..K), again : BOOLEAN,
                control : {"out", "interceptor", "inner", "undefined"}]
  BY <1>1, <1>2 DEF Returned, BackTo
<1>4. n \in Nat /\ n < Len(c.stack)
  BY <1>1
<1> HIDE DEF n
<1>5. d.stack # << >> => d.at # d.stack[Len(d.stack)]
  <2>1. SUFFICES ASSUME d.stack # << >> PROVE d.at # d.stack[Len(d.stack)]
    OBVIOUS
  <2>2. Len(d.stack) = n /\ n > 0
    BY <1>2, <1>3, <1>4, <2>1
  <2>3. d.stack[n] = c.stack[n]
    BY <1>2, <1>3, <1>4, <2>2
  <2>4. n \in 1..Len(c.stack) /\ Len(c.stack) \in 1..Len(c.stack)
    BY <1>1, <1>4, <2>2
  <2>5. c.stack[n] < c.stack[Len(c.stack)] /\ c.stack[Len(c.stack)] <= c.at
        /\ c.stack[n] \in 1..K /\ c.stack[Len(c.stack)] \in 1..K
    BY <1>1, <1>4, <2>4
  <2> QED
    BY <1>1, <1>3, <2>2, <2>3, <2>5
<1>6. \A i \in 1..Len(d.stack) : i \in 1..Len(c.stack) /\ d.stack[i] = c.stack[i]
  BY <1>1, <1>2, <1>3, <1>4
<1>7. \A i \in 1..Len(d.stack) : i <= d.stack[i] /\ d.stack[i] <= d.at
  BY <1>1, <1>3, <1>6
<1>8. \A i, j \in 1..Len(d.stack) : i < j => d.stack[i] < d.stack[j]
  BY <1>1, <1>6
<1> QED
  BY <1>1, <1>3, <1>5, <1>7, <1>8 DEF Links

(* The steps of both chains are those operators.                             *)
LEMMA ChainSteps ==
  /\ CallInterceptors!Begin => callChain' = Begun(Interceptors)
  /\ CallInterceptors!Proceed =>
       callChain.control = "interceptor" /\ callChain' = Proceeded(Interceptors, callChain)
  /\ CallInterceptors!InnerEnds => callChain.control = "inner" /\ callChain' = InnerDone(callChain)
  /\ CallInterceptors!InterceptorEnds =>
       callChain.control = "interceptor" /\ callChain' = Returned(callChain)
  /\ NetInterceptors!Begin => netChain' = Begun(NetworkInterceptors)
  /\ NetInterceptors!Proceed =>
       netChain.control = "interceptor" /\ netChain' = Proceeded(NetworkInterceptors, netChain)
  /\ NetInterceptors!InnerEnds => netChain.control = "inner" /\ netChain' = InnerDone(netChain)
  /\ NetInterceptors!InterceptorEnds =>
       netChain.control = "interceptor" /\ netChain' = Returned(netChain)
  BY DEF CallInterceptors!Begin, CallInterceptors!Proceed, CallInterceptors!InnerEnds,
         CallInterceptors!InterceptorEnds, CallInterceptors!Rest, CallInterceptors!Again,
         CallInterceptors!Back, CallInterceptors!Last, CallInterceptors!Front,
         NetInterceptors!Begin, NetInterceptors!Proceed, NetInterceptors!InnerEnds,
         NetInterceptors!InterceptorEnds, NetInterceptors!Rest, NetInterceptors!Again,
         NetInterceptors!Back, NetInterceptors!Last, NetInterceptors!Front,
         Begun, Proceeded, InnerDone, BackTo, Popped, Returned

(* A chain nobody is in.                                                     *)
LEMMA LinksRest ==
  ASSUME NEW K \in Nat
  PROVE  Links(K, CallInterceptors!Rest) /\ Links(K, NetInterceptors!Rest)
  BY DEF Links, CallInterceptors!Rest, NetInterceptors!Rest

(* The phases at which the network chain is not in use.                      *)
NetRests == {"idle", "call", "returned", "failed", "releasing", "undefined",
             "create", "lookup", "judge", "discard", "decide", "drain", "failing"}

(* Steps that leave the call's chain as it is, and bring the network's one   *)
(* to rest, or the phase to where the network's does not matter.             *)
LEMMA ChainsStay ==
  ASSUME Chains, callChain' = callChain,
         netChain' \in {netChain, NetInterceptors!Rest},
         \/ phase' \in NetRests
         \/ phase' = phase /\ netChain' = netChain
         \/ /\ phase \in {"connect", "write", "receive"}
            /\ phase' \in {"connect", "write", "receive", "endless"}
            /\ netChain' = netChain,
         \/ phase \in EngineAtWork /\ phase' \in EngineAtWork
         \/ phase' \in {"returned", "failed", "releasing", "undefined"} \cup {phase}
  PROVE  Chains'
<1>1. Links(Interceptors, callChain)' /\ Links(NetworkInterceptors, netChain)'
  BY FollowUpsAssumption, LinksRest DEF Chains
<1>2. phase' \in CallPhases
  BY DEF Chains, CallPhases, EngineAtWork, NetRests
<1>3. ControlIsThere'
  BY DEF Chains, ControlIsThere, EngineAtWork, NetRests, NetInterceptors!Again
<1> QED
  BY <1>1, <1>2, <1>3 DEF Chains

(* An engine's work, or the call's last one, ends in the call's chain.       *)
LEMMA ChainsComeBack ==
  ASSUME Chains, CallInterceptors!InnerEnds, netChain' = NetInterceptors!Rest,
         CallEnds(callChain'.control)
  PROVE  Chains'
<1>1. callChain.control = "inner" /\ callChain' = InnerDone(callChain)
  BY ChainSteps
<1>2. Links(Interceptors, callChain)' /\ callChain'.control \in {"out", "interceptor"}
  BY <1>1, FollowUpsAssumption, LinksInnerDone DEF Chains
<1>3. Links(NetworkInterceptors, netChain)'
  BY FollowUpsAssumption, LinksRest
<1>4. phase' = IF callChain'.control # "out" THEN "call"
               ELSE IF answer' = NoResponse THEN "failed" ELSE "returned"
  BY DEF CallEnds, Goes
<1> QED
  BY <1>2, <1>3, <1>4 DEF Chains, ControlIsThere, EngineAtWork, CallPhases

(* networkRequest(): the chain of network interceptors begins.               *)
LEMMA ChainsGoOut ==
  ASSUME Chains, NEW r, phase = "lookup", GoesOut(r)
  PROVE  Chains'
<1>1. /\ netChain' = Begun(NetworkInterceptors) /\ callChain' = callChain
      /\ phase' = IF netChain'.control = "inner" THEN "connect" ELSE "net"
  BY ChainSteps DEF GoesOut, Goes
<1>2. /\ Links(NetworkInterceptors, netChain)'
      /\ netChain'.control = IF NetworkInterceptors = 0 THEN "inner" ELSE "interceptor"
      /\ NetworkInterceptors # 0 => netChain'.at = netChain'.stack[Len(netChain'.stack)]
  BY <1>1, FollowUpsAssumption, LinksBegun
<1>3. phase' = "net" => ~NetInterceptors!Again'
  BY <1>1, <1>2 DEF NetInterceptors!Again, NetInterceptors!Last
<1> QED
  BY <1>1, <1>2, <1>3 DEF Chains, ControlIsThere, EngineAtWork, CallPhases

(* No step of the call breaks a chain.                                       *)
LEMMA ChainsStep ==
  ASSUME Chains, CallNext
  PROVE  Chains'
<1>1. CASE Start
  <2>1. /\ callChain' = Begun(Interceptors) /\ netChain' = netChain
        /\ phase' = IF callChain'.control = "inner" THEN "create" ELSE "call"
    BY <1>1, ChainSteps DEF Start, Goes
  <2>2. /\ Links(Interceptors, callChain)' /\ Links(NetworkInterceptors, netChain)'
        /\ callChain'.control \in {"inner", "interceptor"}
    BY <2>1, FollowUpsAssumption, LinksBegun DEF Chains
  <2> QED
    BY <2>1, <2>2 DEF Chains, ControlIsThere, EngineAtWork, CallPhases
<1>2. CASE CallProceeds
  <2>1. /\ callChain.control = "interceptor" /\ callChain' = Proceeded(Interceptors, callChain)
        /\ netChain' = netChain
        /\ phase' = CASE callChain'.control = "inner" -> "create"
                      [] callChain'.control = "undefined" -> "undefined"
                      [] OTHER -> "call"
    BY <1>2, ChainSteps DEF CallProceeds
  <2>2. /\ Links(Interceptors, callChain)' /\ Links(NetworkInterceptors, netChain)'
        /\ callChain'.control \in {"inner", "interceptor", "undefined"}
    BY <2>1, FollowUpsAssumption, LinksProceeded DEF Chains
  <2> QED
    BY <2>1, <2>2 DEF Chains, ControlIsThere, EngineAtWork, CallPhases
<1>3. CASE CallInterceptorReturns
  <2>1. /\ callChain.control = "interceptor" /\ callChain' = Returned(callChain)
        /\ netChain' = netChain
        /\ phase' = IF callChain'.control # "out" THEN "call"
                    ELSE IF answer' = NoResponse THEN "failed" ELSE "returned"
    BY <1>3, ChainSteps DEF CallInterceptorReturns, CallEnds, Goes
  <2>2. /\ Links(Interceptors, callChain)' /\ Links(NetworkInterceptors, netChain)'
        /\ callChain'.control \in {"out", "interceptor"}
    BY <2>1, FollowUpsAssumption, LinksReturned DEF Chains
  <2> QED
    BY <2>1, <2>2 DEF Chains, ControlIsThere, EngineAtWork, CallPhases
<1>4. CASE LookupMisses \/ LookupValidates
  <2>1. PICK r : phase = "lookup" /\ GoesOut(r)
    BY <1>4 DEF LookupMisses, LookupValidates, Validates
  <2> QED
    BY <2>1, ChainsGoOut
<1>5. CASE NetProceeds
  <2>1. /\ netChain.control = "interceptor" /\ netChain' = Proceeded(NetworkInterceptors, netChain)
        /\ callChain' = callChain /\ phase = "net"
        /\ phase' = CASE netChain'.control = "inner" -> "connect"
                      [] netChain'.control = "undefined" -> "undefined"
                      [] OTHER -> "net"
    BY <1>5, ChainSteps DEF NetProceeds, Goes
  <2>2. /\ Links(NetworkInterceptors, netChain)' /\ netChain'.at = netChain.at + 1
        /\ netChain'.control = IF netChain.at < NetworkInterceptors THEN "interceptor"
                               ELSE IF netChain.at = NetworkInterceptors THEN "inner" ELSE "undefined"
        /\ netChain.at < NetworkInterceptors => netChain'.at = netChain'.stack[Len(netChain'.stack)]
    BY <2>1, FollowUpsAssumption, LinksProceeded DEF Chains
  <2>3. phase' = "net" => ~NetInterceptors!Again' /\ netChain'.control = "interceptor"
    BY <2>1, <2>2 DEF NetInterceptors!Again, NetInterceptors!Last
  <2>4. phase' \in {"connect", "undefined", "net"} /\ (phase' = "connect" => netChain'.control = "inner")
    BY <2>1
  <2> QED
    BY <2>1, <2>2, <2>3, <2>4 DEF Chains, ControlIsThere, EngineAtWork, CallPhases
<1>6. CASE NetInterceptorReturns
  <2>1. /\ netChain.control = "interceptor" /\ netChain' = Returned(netChain)
        /\ callChain' = callChain /\ phase = "net" /\ NetInterceptors!Again
        /\ phase' = IF netChain'.control = "out" THEN "judge" ELSE "net"
    BY <1>6, ChainSteps DEF NetInterceptorReturns, Goes
  <2>2. /\ Links(NetworkInterceptors, netChain)' /\ netChain'.at = netChain.at
        /\ netChain'.control \in {"out", "interceptor"}
    BY <2>1, FollowUpsAssumption, LinksReturned DEF Chains
  <2>3. ~(netChain.at <= NetworkInterceptors)
    BY <2>1 DEF Chains, ControlIsThere
  <2> QED
    BY <2>1, <2>2, <2>3 DEF Chains, ControlIsThere, EngineAtWork, CallPhases
<1>7. CASE ReceiveResponse
  <2>1. /\ netChain.control = "inner" /\ netChain' = InnerDone(netChain)
        /\ callChain' = callChain /\ phase = "receive"
        /\ phase' = IF netChain'.control = "out" THEN "judge" ELSE "net"
    BY <1>7, ChainSteps DEF ReceiveResponse, Goes
  <2>2. /\ Links(NetworkInterceptors, netChain)' /\ netChain'.at = NetworkInterceptors + 1
        /\ netChain'.control \in {"out", "interceptor"}
    BY <2>1, FollowUpsAssumption, LinksInnerDone DEF Chains
  <2>3. ~(netChain'.at <= NetworkInterceptors)
    BY <2>2, FollowUpsAssumption
  <2> QED
    BY <2>1, <2>2, <2>3 DEF Chains, ControlIsThere, EngineAtWork, CallPhases
<1>8. CASE Assign \/ (Fail /\ callChain' # callChain)
  <2>1. /\ CallInterceptors!InnerEnds /\ netChain' = NetInterceptors!Rest
        /\ CallEnds(callChain'.control)
    BY <1>8 DEF Assign, Fail, ExchangeOver, callVars, chainVars
  <2> QED
    BY <2>1, ChainsComeBack
<1>9. CASE CreateEngine \/ LookupRefuses \/ LookupHits \/ JudgeNetwork \/ JudgeValid \/ Retry \/ RetryThrows
  BY <1>9, ChainsStay DEF CreateEngine, LookupRefuses, LookupHits, JudgeNetwork, JudgeValid, Retry, RetryThrows,
     Goes, NextHop, ExchangeOver, chainVars, NetRests, EngineAtWork
<1>10. CASE GetConnection \/ SendRequest \/ ExchangeFails \/ ExchangeTimesOut
  BY <1>10, ChainsStay DEF GetConnection, SendRequest, ExchangeFails, ExchangeTimesOut, Throws, Goes,
     chainVars, NetRests, EngineAtWork
<1>11. CASE Discard \/ DrainEnds \/ (Fail /\ callChain' = callChain /\ UNCHANGED callVars)
  BY <1>11, ChainsStay DEF Discard, DrainEnds, NextHop, Goes, callVars, chainVars, progressVars, NetRests, EngineAtWork
<1>12. CASE UserReads \/ UserCloses \/ CloseEarlier \/ DrainReads \/ DrainCloses \/ DestroyRest \/ StreamStep \/ Cancel
  <2>1. callChain' = callChain /\ netChain' = netChain /\ phase' = phase
    BY <1>12 DEF UserReads, UserCloses, CloseEarlier, DrainReads, DrainCloses, DestroyRest, StreamStep, Cancel,
       callVars, chainVars, progressVars
  <2> QED
    BY <2>1, ChainsStay
<1>13. CASE Release
  BY <1>13, ChainsStay DEF Release, Goes, chainVars, NetRests, EngineAtWork
<1>14. Fail => \/ callChain' = callChain /\ UNCHANGED callVars
               \/ callChain' # callChain
  <2>1. CASE Fail /\ CallInterceptors!InnerEnds
    <3>1. callChain.control = "inner" /\ callChain' = InnerDone(callChain)
      BY <2>1, ChainSteps
    <3>2. callChain'.control \in {"out", "interceptor"}
      BY <3>1, FollowUpsAssumption, LinksInnerDone DEF Chains
    <3> QED
      BY <3>1, <3>2
  <2>2. CASE Fail /\ UNCHANGED callVars
    BY <2>2 DEF callVars, chainVars
  <2> QED
    BY <2>1, <2>2 DEF Fail
<1> QED
  BY <1>1, <1>2, <1>3, <1>4, <1>5, <1>6, <1>7, <1>8, <1>9, <1>10, <1>11, <1>12, <1>13, <1>14 DEF CallNext, Executes

(* Both chains rest at first.                                                *)
LEMMA ChainsInit ==
  ASSUME CallInit
  PROVE  Chains
<1>1. callChain = CallInterceptors!Rest /\ netChain = NetInterceptors!Rest /\ phase = "idle"
  BY DEF CallInit
<1> QED
  BY <1>1, FollowUpsAssumption, LinksRest DEF Chains, ControlIsThere, CallPhases, EngineAtWork

-----------------------------------------------------------------------------
(* The streams.  While a stream is open or being closed, its file has at     *)
(* most what was taken, and what is missing is in the reader's hand or was   *)
(* a fault.                                                                  *)
Counts(s) == IF temp[s] = NoFile THEN 0 ELSE written[s]
InHands(s) == IF Overtaken(s) THEN 1 ELSE 0

Copied(s) ==
  /\ Counts(s) + InHands(s) <= taken[s]
  /\ at[s] = "open" /\ Overtaken(s) => hand[s] = taken[s]
  /\ IsEof(s) => taken[s] = N \/ "dropped" \in harm[s]
  /\ conn[s] = "released" => IsEof(s)
  /\ kind[s] = "caching" /\ "unwritten" \notin harm[s] =>
       /\ Len(InFile(s)) = Counts(s)
       /\ Len(InFile(s)) = taken[s] => InFile(s) = Identity(taken[s])
       /\ at[s] = "open" /\ Overtaken(s) /\ Len(InFile(s)) + 1 = taken[s] =>
            InFile(s) = Identity(taken[s] - 1)
       /\ harm[s] = {} => Len(InFile(s)) + InHands(s) = taken[s]

StateOf(s) ==
  /\ temp[s] = NoFile => written[s] = 0
  /\ at[s] # "closed" => Copied(s)
  /\ at[s] = "closed" => taken[s] = 0 /\ temp[s] = NoFile

StreamTypes ==
  /\ kind \in [Stream -> {"none", "caching", "plain"}] /\ sized \in [Stream -> BOOLEAN]
  /\ content \in [Stream -> {"more", "eof", "bad"}] /\ taken \in [Stream -> 0..N]
  /\ reader \in [Stream -> {"out", "in", "has"}] /\ hand \in [Stream -> 0..N]
  /\ at \in [Stream -> {"open", "skipping", "judging", "closed"}]
  /\ conn \in [Stream -> {"none", "held", "released", "removed"}]
  /\ temp \in [Stream -> Seq(1..N) \cup {NoFile}]
  /\ written \in [Stream -> 0..N] /\ harm \in [Stream -> SUBSET FaultKinds]

Streams == StreamTypes /\ \A s \in Stream : StateOf(s)

(* A stream of which nothing has been read.                                  *)
Fresh(s) ==
  /\ kind[s] = "plain" /\ at[s] = "open" /\ content[s] = "more" /\ taken[s] = 0
  /\ reader[s] = "out" /\ hand[s] = 0 /\ temp[s] = NoFile /\ harm[s] = {} /\ conn[s] = "held"

(* The file, with none for an empty one.                                     *)
LEMMA FileFacts ==
  ASSUME Streams, NEW s \in Stream
  PROVE  /\ InFile(s) \in Seq(1..N) /\ Len(InFile(s)) \in Nat
         /\ NoFile \notin Seq(1..N)
         /\ Counts(s) \in 0..N /\ InHands(s) \in {0, 1} /\ taken[s] \in 0..N
         /\ temp[s] = NoFile => InFile(s) = << >> /\ Len(InFile(s)) = 0 /\ Counts(s) = 0
<1>1. N \in Nat /\ temp[s] \in Seq(1..N) \cup {NoFile} /\ written[s] \in 0..N /\ taken[s] \in 0..N
  BY StreamAssumption DEF Streams, StreamTypes
<1>2. NoFile \notin Seq(1..N)
  <2> SUFFICES ASSUME NoFile \in Seq(1..N) PROVE FALSE
    OBVIOUS
  <2> DEFINE file == NoFile
  <2>1. file \in Seq(1..N) /\ Len(file) = 1 /\ file[1] = 0
    BY DEF NoFile
  <2> HIDE DEF file
  <2>2. \A i \in 1..Len(file) : file[i] \in 1..N
    BY <2>1, ElementOfSeq
  <2>3. file[1] \in 1..N
    BY <2>1, <2>2
  <2> QED
    BY <2>1, <2>3
<1>3. InFile(s) \in Seq(1..N)
  <2>1. << >> \in Seq(1..N)
    BY EmptySeq
  <2> QED
    BY <1>1, <2>1 DEF InFile
<1>4. Len(InFile(s)) \in Nat
  BY <1>3, LenProperties
<1>5. temp[s] = NoFile => InFile(s) = << >> /\ Len(InFile(s)) = 0 /\ Counts(s) = 0
  BY DEF InFile, Counts
<1> QED
  BY <1>1, <1>2, <1>3, <1>4, <1>5 DEF Counts, InHands

(* Appending the next chunk to the first n.                                  *)
LEMMA IdentityGrows ==
  ASSUME NEW n \in Nat
  PROVE  /\ Append(Identity(n), n + 1) = Identity(n + 1)
         /\ Len(Identity(n)) = n
         /\ Identity(0) = << >>
<1>1. Identity(n) \in Seq(Nat) /\ Len(Identity(n)) = n /\ \A i \in 1..n : Identity(n)[i] = i
  BY DEF Identity
<1>2. Identity(n + 1) \in Seq(Nat) /\ Len(Identity(n + 1)) = n + 1 /\ \A i \in 1..n + 1 : Identity(n + 1)[i] = i
  BY DEF Identity
<1> DEFINE a == Append(Identity(n), n + 1)
<1>3. a \in Seq(Nat) /\ Len(a) = n + 1 /\ \A i \in 1..n + 1 : a[i] = i
  BY <1>1, AppendProperties
<1>4. Identity(0) = << >>
  BY DEF Identity
<1> HIDE DEF a
<1>5. a = Identity(n + 1)
  BY <1>2, <1>3, SeqEqual
<1> QED
  BY <1>1, <1>4, <1>5 DEF a

(* What a step of one stream leaves alone.                                   *)
SameAt(t) ==
  /\ kind'[t] = kind[t] /\ sized'[t] = sized[t] /\ content'[t] = content[t] /\ taken'[t] = taken[t]
  /\ reader'[t] = reader[t] /\ hand'[t] = hand[t] /\ at'[t] = at[t] /\ conn'[t] = conn[t]
  /\ temp'[t] = temp[t] /\ written'[t] = written[t] /\ harm'[t] = harm[t]

LEMMA SameStateOf ==
  ASSUME NEW t \in Stream, SameAt(t), StateOf(t)
  PROVE  StateOf(t)'
<1>1. /\ Counts(t)' = Counts(t) /\ InHands(t)' = InHands(t) /\ InFile(t)' = InFile(t)
      /\ (Overtaken(t)' <=> Overtaken(t)) /\ (IsEof(t)' <=> IsEof(t))
  BY DEF SameAt, Counts, InHands, Overtaken, IsEof, InFile
<1>2. Copied(t) => Copied(t)'
  BY <1>1 DEF SameAt, Copied
<1> QED
  BY <1>2 DEF SameAt, StateOf

(* A step of one stream leaves the others in their states.                   *)
LEMMA OneStream ==
  ASSUME Streams, NEW s \in Stream, StreamTypes', StateOf(s)',
         \A t \in Stream \ {s} : SameAt(t)
  PROVE  Streams'
<1>1. ASSUME NEW t \in Stream, t # s PROVE StateOf(t)'
  BY <1>1, SameStateOf DEF Streams
<1> QED
  BY <1>1 DEF Streams

(* What a read of the connection may return.                                 *)
LEMMA DeliveryFacts ==
  ASSUME Streams, NEW s \in Stream, NEW d \in Deliveries(s), Deliver(s, d)
  PROVE  /\ d.chunk \in {0, taken[s] + 1} /\ d.chunk \in 0..N
         /\ d.content \in {"more", "eof"} /\ d.met \subseteq {"dropped", "endless"}
         /\ d.chunk = 0 => taken'[s] = taken[s]
         /\ d.chunk # 0 => taken'[s] = taken[s] + 1 /\ taken[s] < N /\ d.met = {}
         /\ d.content = "eof" => taken'[s] = N \/ "dropped" \in d.met
         /\ content'[s] = d.content
         /\ content' \in [Stream -> {"more", "eof", "bad"}] /\ taken' \in [Stream -> 0..N]
         /\ \A t \in Stream \ {s} : content'[t] = content[t] /\ taken'[t] = taken[t]
<1>1. /\ N \in Nat \ {0} /\ taken[s] \in 0..N /\ taken \in [Stream -> 0..N]
      /\ content \in [Stream -> {"more", "eof", "bad"}]
  BY StreamAssumption DEF Streams, StreamTypes
<1> DEFINE next == taken[s] + 1
<1>2. \/ d.chunk = next /\ d.content \in {"more", "eof"} /\ d.met = {} /\ next <= N /\ (d.content = "eof" => next = N)
      \/ d.chunk = 0 /\ d.content = "eof" /\ d.met \in {{}, {"dropped"}} /\ (next <= N <=> d.met = {"dropped"})
      \/ d.chunk = 0 /\ d.content = "more" /\ d.met = {"endless"}
  BY <1>1 DEF Deliveries
<1>3. /\ taken' = [taken EXCEPT ![s] = IF d.chunk = 0 THEN taken[s] ELSE d.chunk]
      /\ content' = [content EXCEPT ![s] = d.content]
  BY DEF Deliver
<1>4. CASE d.chunk = next /\ next <= N
  <2>1. taken'[s] = next /\ d.chunk # 0 /\ taken[s] < N /\ next \in 0..N
    BY <1>1, <1>3, <1>4
  <2> QED
    BY <1>1, <1>2, <1>3, <1>4, <2>1
<1>5. CASE ~(d.chunk = next /\ next <= N)
  <2>1. /\ d.chunk = 0
        /\ \/ d.content = "eof" /\ d.met \in {{}, {"dropped"}} /\ (next <= N <=> d.met = {"dropped"})
           \/ d.content = "more" /\ d.met = {"endless"}
    BY <1>2, <1>5
  <2>2. taken'[s] = taken[s]
    BY <1>1, <1>3, <2>1
  <2>3. d.content = "eof" => taken[s] = N \/ "dropped" \in d.met
    BY <1>1, <2>1
  <2> QED
    BY <1>1, <1>3, <2>1, <2>2, <2>3
<1> QED
  BY <1>4, <1>5

(* A fresh stream has nothing in its file and the reader nothing in hand.    *)
LEMMA FreshState ==
  ASSUME NEW s \in Stream, taken[s] = 0, temp[s] = NoFile, written[s] = 0, content[s] = "more",
         conn[s] # "released", reader[s] = "out"
  PROVE  StateOf(s)
<1>1. Counts(s) = 0 /\ InHands(s) = 0 /\ ~Overtaken(s) /\ ~IsEof(s) /\ InFile(s) = << >> /\ Len(InFile(s)) = 0
  BY DEF Counts, InHands, Overtaken, IsEof, InFile
<1>2. Identity(0) = << >>
  BY IdentityGrows
<1> QED
  BY <1>1, <1>2 DEF StateOf, Copied

(* read() of the connection under the stream.                                *)
LEMMA TakeChunkStep ==
  ASSUME Streams, NEW s \in Stream, TakeChunk(s)
  PROVE  Streams'
<1>1. PICK d \in Deliveries(s) :
        /\ Deliver(s, d) /\ hand' = [hand EXCEPT ![s] = d.chunk] /\ harm' = [harm EXCEPT ![s] = @ \cup d.met]
  BY DEF TakeChunk
<1>2. /\ d.chunk \in {0, taken[s] + 1} /\ d.chunk \in 0..N
      /\ d.content \in {"more", "eof"} /\ d.met \subseteq {"dropped", "endless"}
      /\ d.chunk = 0 => taken'[s] = taken[s]
      /\ d.chunk # 0 => taken'[s] = taken[s] + 1 /\ taken[s] < N /\ d.met = {}
      /\ d.content = "eof" => taken'[s] = N \/ "dropped" \in d.met
      /\ content'[s] = d.content
      /\ content' \in [Stream -> {"more", "eof", "bad"}] /\ taken' \in [Stream -> 0..N]
      /\ \A t \in Stream \ {s} : content'[t] = content[t] /\ taken'[t] = taken[t]
  BY <1>1, DeliveryFacts
<1>3. /\ reader[s] = "in" /\ at[s] # "closed" /\ content[s] = "more"
      /\ reader' = [reader EXCEPT ![s] = "has"]
      /\ kind' = kind /\ sized' = sized /\ at' = at /\ conn' = conn /\ temp' = temp /\ written' = written
  BY DEF TakeChunk
<1>4. StreamTypes'
  BY <1>1, <1>2, <1>3 DEF Streams, StreamTypes, FaultKinds
<1>5. \A t \in Stream \ {s} : SameAt(t)
  BY <1>1, <1>2, <1>3 DEF Streams, StreamTypes, SameAt
<1>6. /\ reader'[s] = "has" /\ hand'[s] = d.chunk /\ harm'[s] = harm[s] \cup d.met
      /\ Counts(s)' = Counts(s) /\ InFile(s)' = InFile(s) /\ ~Overtaken(s) /\ InHands(s) = 0
      /\ InHands(s)' = (IF d.chunk = 0 THEN 0 ELSE 1) /\ (Overtaken(s)' <=> d.chunk # 0)
      /\ (IsEof(s)' <=> d.content = "eof")
  BY <1>1, <1>2, <1>3 DEF Streams, StreamTypes, Counts, InFile, Overtaken, InHands, IsEof
<1>7. Copied(s) /\ conn[s] # "released"
  BY <1>3 DEF Streams, StateOf, Copied, IsEof
<1>8. taken[s] \in Nat /\ Counts(s) \in Nat /\ Len(InFile(s)) \in Nat
  BY FileFacts
<1> DEFINE F == InFile(s)
           c == Counts(s)
<1>9. /\ c <= taken[s]
      /\ kind[s] = "caching" /\ "unwritten" \notin harm[s] =>
           Len(F) = c /\ (Len(F) = taken[s] => F = Identity(taken[s])) /\ (harm[s] = {} => Len(F) = taken[s])
  BY <1>6, <1>7, <1>8 DEF Copied
<1>20. temp[s] = NoFile => written[s] = 0
  BY DEF Streams, StateOf
<1>10. ASSUME d.chunk = 0 PROVE StateOf(s)'
  <2>1. taken'[s] = taken[s] /\ InHands(s)' = 0 /\ ~Overtaken(s)'
    BY <1>2, <1>6, <1>10
  <2>2. /\ IsEof(s)' => taken'[s] = N \/ "dropped" \in harm'[s]
        /\ conn'[s] = "released" => IsEof(s)'
    BY <1>2, <1>3, <1>6, <1>7
  <2>3. "unwritten" \notin harm'[s] => "unwritten" \notin harm[s]
    BY <1>6
  <2>4. harm'[s] = {} => harm[s] = {}
    BY <1>6
  <2> HIDE DEF F, c
  <2>5. /\ c + 0 <= taken[s] /\ Len(F) \in Nat
        /\ Len(F) + 0 = Len(F)
    BY <1>8, <1>9 DEF F, c
  <2>6. /\ Counts(s)' = c /\ InFile(s)' = F
    BY <1>6 DEF F, c
  <2>7. Copied(s)'
    BY <1>3, <1>9, <2>1, <2>2, <2>3, <2>4, <2>5, <2>6 DEF Copied
  <2> QED
    BY <1>3, <1>20, <2>7 DEF StateOf
<1>11. ASSUME d.chunk # 0 PROVE StateOf(s)'
  <2>1. taken'[s] = taken[s] + 1 /\ harm'[s] = harm[s] /\ d.chunk = taken'[s] /\ taken'[s] - 1 = taken[s]
    BY <1>2, <1>6, <1>8, <1>11
  <2> HIDE DEF F, c
  <2>2. c + 1 <= taken'[s] /\ (kind[s] = "caching" /\ "unwritten" \notin harm[s] => Len(F) # taken'[s])
    BY <1>8, <1>9, <2>1 DEF F, c
  <2>3. /\ Counts(s)' = c /\ InFile(s)' = F /\ InHands(s)' = 1 /\ Overtaken(s)' /\ hand'[s] = taken'[s]
    BY <1>6, <1>11, <2>1 DEF F, c
  <2>4. /\ IsEof(s)' => taken'[s] = N \/ "dropped" \in harm'[s]
        /\ conn'[s] = "released" => IsEof(s)'
    BY <1>2, <1>3, <1>6, <1>7
  <2>5. kind[s] = "caching" /\ "unwritten" \notin harm[s] =>
          /\ Len(F) = c
          /\ Len(F) + 1 = taken'[s] => F = Identity(taken'[s] - 1)
          /\ harm[s] = {} => Len(F) + 1 = taken'[s]
    <3>1. Len(F) \in Nat /\ taken[s] \in Nat
      BY <1>8 DEF F
    <3>2. Len(F) + 1 = taken'[s] => Len(F) = taken[s]
      BY <2>1, <3>1
    <3> QED
      BY <1>9, <2>1, <3>2 DEF F, c
  <2>6. Copied(s)'
    BY <1>3, <2>1, <2>2, <2>3, <2>4, <2>5 DEF Copied
  <2> QED
    BY <1>3, <1>20, <2>6 DEF StateOf
<1>12. StateOf(s)'
  BY <1>10, <1>11
<1> QED
  BY <1>4, <1>5, <1>12, OneStream

(* One more chunk, or none.                                                  *)
More(k) == IF k = 0 THEN 0 ELSE 1

(* A write that is not lost in a full file system appends the chunk, or      *)
(* finds no place for a file.                                                *)
Wrote(s, k, met) ==
  /\ temp' \in [Stream -> Seq(1..N) \cup {NoFile}]
  /\ written' \in [Stream -> 0..N] /\ harm' \in [Stream -> SUBSET FaultKinds]
  /\ \A t \in Stream \ {s} : temp'[t] = temp[t] /\ written'[t] = written[t] /\ harm'[t] = harm[t]
  /\ temp'[s] = NoFile => written'[s] = 0
  /\ met \subseteq harm'[s] /\ Counts(s)' \in 0..(Counts(s) + More(k))
  /\ kind[s] = "caching" /\ "unwritten" \notin harm'[s] =>
       \/ /\ harm'[s] = met /\ Counts(s)' = Counts(s) + More(k)
          /\ InFile(s)' = IF k = 0 THEN InFile(s) ELSE Append(InFile(s), k)
       \/ harm'[s] # {} /\ InFile(s)' = << >> /\ Counts(s)' = 0

LEMMA AppendsFacts ==
  ASSUME Streams, NEW s \in Stream, NEW k \in 0..N, NEW met \in SUBSET FaultKinds,
         NEW m \in {met, met \cup {"unwritten"}}, Appends(s, k, m), Counts(s) + More(k) <= N
  PROVE  Wrote(s, k, met)
<1>1. /\ N \in Nat /\ temp \in [Stream -> Seq(1..N) \cup {NoFile}]
      /\ written \in [Stream -> 0..N] /\ harm \in [Stream -> SUBSET FaultKinds]
  BY StreamAssumption DEF Streams, StreamTypes
<1>2. /\ InFile(s) \in Seq(1..N) /\ NoFile \notin Seq(1..N) /\ Counts(s) \in 0..N
      /\ temp[s] = NoFile => InFile(s) = << >> /\ Counts(s) = 0
  BY FileFacts
<1>3. Counted(s, k) = Counts(s) + More(k) /\ More(k) \in {0, 1} /\ Counted(s, k) \in 0..N
  BY <1>1, <1>2 DEF Counted, Counts, More
<1> DEFINE F == IF k = 0 \/ "unwritten" \in m THEN InFile(s) ELSE Append(InFile(s), k)
<1>4. F \in Seq(1..N)
  <2>1. k # 0 => Append(InFile(s), k) \in Seq(1..N)
    BY <1>1, <1>2, AppendProperties
  <2> QED
    BY <1>2, <2>1
<1>5. /\ temp' = [temp EXCEPT ![s] = F] /\ written' = [written EXCEPT ![s] = Counted(s, k)]
      /\ harm' = [harm EXCEPT ![s] = m]
  BY DEF Appends
<1>6. "unwritten" \notin m => m = met /\ F = IF k = 0 THEN InFile(s) ELSE Append(InFile(s), k)
  OBVIOUS
<1>7. m \in SUBSET FaultKinds /\ met \subseteq m
  BY DEF FaultKinds
<1> HIDE DEF F
<1>8. temp'[s] = F /\ written'[s] = Counted(s, k) /\ harm'[s] = m /\ temp'[s] # NoFile
  BY <1>1, <1>2, <1>4, <1>5
<1>9. Counts(s)' = Counts(s) + More(k) /\ InFile(s)' = F
  BY <1>3, <1>8 DEF Counts, InFile
<1>10. /\ temp' \in [Stream -> Seq(1..N) \cup {NoFile}]
       /\ written' \in [Stream -> 0..N] /\ harm' \in [Stream -> SUBSET FaultKinds]
       /\ \A t \in Stream \ {s} : temp'[t] = temp[t] /\ written'[t] = written[t] /\ harm'[t] = harm[t]
  BY <1>1, <1>3, <1>4, <1>5, <1>7
<1>11. Counts(s)' \in 0..(Counts(s) + More(k))
  BY <1>2, <1>3, <1>9
<1> QED
  BY <1>6, <1>7, <1>8, <1>9, <1>10, <1>11 DEF Wrote

LEMMA WriteFacts ==
  ASSUME Streams, NEW s \in Stream, NEW k \in 0..N, NEW met \in SUBSET FaultKinds, Write(s, k, met),
         Counts(s) + More(k) <= N
  PROVE  Wrote(s, k, met)
<1>1. /\ N \in Nat /\ temp \in [Stream -> Seq(1..N) \cup {NoFile}]
      /\ written \in [Stream -> 0..N] /\ harm \in [Stream -> SUBSET FaultKinds]
      /\ temp[s] = NoFile => written[s] = 0
  BY StreamAssumption DEF Streams, StreamTypes, StateOf
<1>2. /\ InFile(s) \in Seq(1..N) /\ Counts(s) \in 0..N /\ More(k) \in {0, 1}
      /\ temp[s] = NoFile => InFile(s) = << >> /\ Counts(s) = 0
  BY FileFacts DEF More
<1>3. CASE \E m \in {met, met \cup {"unwritten"}} : Appends(s, k, m)
  BY <1>3, AppendsFacts
<1>4. ASSUME NEW m \in SUBSET FaultKinds, met \subseteq m, harm' = [harm EXCEPT ![s] = m], temp' = temp, written' = written,
             kind[s] = "caching" => temp[s] = NoFile /\ m # {}
      PROVE  Wrote(s, k, met)
  <2>1. harm'[s] = m /\ Counts(s)' = Counts(s) /\ InFile(s)' = InFile(s)
    BY <1>1, <1>4 DEF Counts, InFile
  <2>2. /\ harm' \in [Stream -> SUBSET FaultKinds]
        /\ \A t \in Stream \ {s} : temp'[t] = temp[t] /\ written'[t] = written[t] /\ harm'[t] = harm[t]
    BY <1>1, <1>4
  <2>3. Counts(s)' \in 0..(Counts(s) + More(k))
    BY <1>2, <2>1
  <2> QED
    BY <1>1, <1>2, <1>4, <2>1, <2>2, <2>3 DEF Wrote
<1>5. CASE kind[s] = "caching" /\ MayLackFile(s) /\ harm' = [harm EXCEPT ![s] = met \cup {"unstored"}]
             /\ UNCHANGED <<temp, written>>
  <2>1. met \cup {"unstored"} \in SUBSET FaultKinds
    BY DEF FaultKinds
  <2> QED
    BY <1>4, <1>5, <2>1 DEF MayLackFile
<1>6. CASE kind[s] # "caching" /\ harm' = [harm EXCEPT ![s] = met] /\ UNCHANGED <<temp, written>>
  BY <1>4, <1>6
<1> QED
  BY <1>3, <1>5, <1>6 DEF Write

(* The second half of read(): what it stores it took last.                   *)
LEMMA StoreChunkStep ==
  ASSUME Streams, NEW s \in Stream, StoreChunk(s)
  PROVE  Streams'
<1> DEFINE k == hand[s]
           F == InFile(s)
           c == Counts(s)
<1>1. /\ reader[s] = "has" /\ at[s] = "open" /\ Write(s, k, harm[s])
      /\ reader' = [reader EXCEPT ![s] = "out"] /\ hand' = [hand EXCEPT ![s] = 0]
      /\ kind' = kind /\ sized' = sized /\ content' = content /\ taken' = taken /\ at' = at /\ conn' = conn
  BY DEF StoreChunk, contentVars
<1>2. k \in 0..N /\ harm[s] \in SUBSET FaultKinds /\ taken[s] \in 0..N /\ N \in Nat
  BY StreamAssumption DEF Streams, StreamTypes
<1>3. Copied(s) /\ c \in 0..N /\ F \in Seq(1..N) /\ Len(F) \in Nat
  BY <1>1, FileFacts DEF Streams, StateOf
<1>4. InHands(s) = More(k) /\ (Overtaken(s) <=> k # 0) /\ More(k) \in {0, 1}
  BY <1>1 DEF InHands, Overtaken, More
<1>5. c + More(k) <= taken[s] /\ c + More(k) <= N
  BY <1>2, <1>3, <1>4 DEF Copied
<1>6. Wrote(s, k, harm[s])
  BY <1>1, <1>2, <1>5, WriteFacts
<1>7. StreamTypes'
  <2>1. temp' \in [Stream -> Seq(1..N) \cup {NoFile}] /\ written' \in [Stream -> 0..N] /\ harm' \in [Stream -> SUBSET FaultKinds]
    BY <1>6 DEF Wrote
  <2>2. reader' \in [Stream -> {"out", "in", "has"}] /\ hand' \in [Stream -> 0..N]
    BY <1>1, <1>2 DEF Streams, StreamTypes
  <2> QED
    BY <1>1, <2>1, <2>2 DEF Streams, StreamTypes
<1>8. \A t \in Stream \ {s} : SameAt(t)
  BY <1>1, <1>6 DEF Streams, StreamTypes, SameAt, Wrote
<1>9. reader'[s] = "out" /\ hand'[s] = 0 /\ InHands(s)' = 0 /\ ~Overtaken(s)' /\ (IsEof(s)' <=> IsEof(s))
  BY <1>1 DEF Streams, StreamTypes, InHands, Overtaken, IsEof
<1> HIDE DEF F, c, k
<1>10. Counts(s)' + InHands(s)' <= taken'[s]
  BY <1>1, <1>2, <1>3, <1>4, <1>5, <1>6, <1>9 DEF Wrote, c
<1>11. /\ IsEof(s)' => taken'[s] = N \/ "dropped" \in harm'[s]
       /\ conn'[s] = "released" => IsEof(s)'
  <2>1. harm[s] \subseteq harm'[s]
    BY <1>6 DEF Wrote
  <2> QED
    BY <1>1, <1>3, <1>9, <2>1 DEF Copied
<1>12. ASSUME kind[s] = "caching", "unwritten" \notin harm'[s]
       PROVE  /\ Len(InFile(s)') = Counts(s)'
              /\ Len(InFile(s)') = taken[s] => InFile(s)' = Identity(taken[s])
              /\ harm'[s] = {} => Len(InFile(s)') = taken[s]
  <2>1. /\ Len(F) = c
        /\ Len(F) = taken[s] => F = Identity(taken[s])
        /\ k # 0 /\ Len(F) + 1 = taken[s] => F = Identity(taken[s] - 1)
        /\ harm[s] = {} => Len(F) + More(k) = taken[s]
        /\ k # 0 => k = taken[s]
    BY <1>1, <1>3, <1>4, <1>6, <1>12 DEF Copied, Wrote, F, c, k
  <2>2. CASE k = 0 /\ harm'[s] = harm[s] /\ Counts(s)' = c + More(k) /\ InFile(s)' = F
    <3>1. c + More(k) = c /\ Len(F) + More(k) = Len(F)
      BY <1>3, <2>2 DEF More
    <3> QED
      BY <2>1, <2>2, <3>1
  <2>3. CASE k # 0 /\ harm'[s] = harm[s] /\ Counts(s)' = c + More(k) /\ InFile(s)' = Append(F, k)
    <3>1. More(k) = 1 /\ Len(Append(F, k)) = Len(F) + 1
      BY <1>2, <1>3, <2>3, AppendProperties DEF More
    <3>2. ASSUME Len(F) + 1 = taken[s] PROVE Append(F, k) = Identity(taken[s])
      <4>1. taken[s] - 1 \in Nat /\ (taken[s] - 1) + 1 = taken[s]
        BY <1>2, <1>3, <3>2
      <4>2. Append(Identity(taken[s] - 1), (taken[s] - 1) + 1) = Identity((taken[s] - 1) + 1)
        BY <4>1, IdentityGrows
      <4> QED
        BY <2>1, <2>3, <3>2, <4>1, <4>2
    <3> QED
      BY <2>1, <2>3, <3>1, <3>2
  <2>4. CASE harm'[s] # {} /\ InFile(s)' = << >> /\ Counts(s)' = 0
    <3>1. Len(<< >>) = 0 /\ Identity(0) = << >>
      BY IdentityGrows
    <3> QED
      BY <2>4, <3>1
  <2> QED
    BY <1>6, <1>12, <2>2, <2>3, <2>4 DEF Wrote, F, c
<1>13. Copied(s)'
  <2>1. Len(InFile(s)') \in Nat => Len(InFile(s)') + 0 = Len(InFile(s)')
    OBVIOUS
  <2>2. Counts(s)' \in Nat
    BY <1>2, <1>3, <1>5, <1>6 DEF Wrote, c
  <2> QED
    BY <1>1, <1>9, <1>10, <1>11, <1>12, <2>1, <2>2 DEF Copied
<1>14. StateOf(s)'
  BY <1>1, <1>6, <1>13 DEF StateOf, Wrote
<1> QED
  BY <1>7, <1>8, <1>14, OneStream

(* skipAll: what close() reads goes into the file too.                       *)
LEMMA SkipChunkStep ==
  ASSUME Streams, NEW s \in Stream, SkipChunk(s)
  PROVE  Streams'
<1>1. PICK d \in Deliveries(s) : Deliver(s, d) /\ Write(s, d.chunk, harm[s] \cup d.met)
  BY DEF SkipChunk
<1> DEFINE k == d.chunk
           F == InFile(s)
           c == Counts(s)
           met == harm[s] \cup d.met
<1>2. /\ k \in {0, taken[s] + 1} /\ k \in 0..N
      /\ d.content \in {"more", "eof"} /\ d.met \subseteq {"dropped", "endless"}
      /\ k = 0 => taken'[s] = taken[s]
      /\ k # 0 => taken'[s] = taken[s] + 1 /\ taken[s] < N /\ d.met = {}
      /\ d.content = "eof" => taken'[s] = N \/ "dropped" \in d.met
      /\ content'[s] = d.content
      /\ content' \in [Stream -> {"more", "eof", "bad"}] /\ taken' \in [Stream -> 0..N]
      /\ \A t \in Stream \ {s} : content'[t] = content[t] /\ taken'[t] = taken[t]
  BY <1>1, DeliveryFacts
<1>3. /\ at[s] = "skipping" /\ content[s] = "more"
      /\ kind' = kind /\ sized' = sized /\ reader' = reader /\ hand' = hand /\ at' = at /\ conn' = conn
  BY DEF SkipChunk, readerVars
<1>4. /\ harm[s] \in SUBSET FaultKinds /\ met \in SUBSET FaultKinds /\ taken[s] \in 0..N /\ N \in Nat
      /\ InHands(s) \in {0, 1} /\ More(k) \in {0, 1}
  BY <1>2, StreamAssumption, FileFacts DEF Streams, StreamTypes, FaultKinds, More
<1>5. Copied(s) /\ c \in 0..N /\ F \in Seq(1..N) /\ Len(F) \in Nat
  BY <1>3, FileFacts DEF Streams, StateOf
<1> HIDE DEF F, c, met
<1>6. taken'[s] = taken[s] + More(k) /\ taken'[s] \in 0..N
  BY <1>2, <1>4 DEF More
<1>7. c + InHands(s) <= taken[s] /\ c + More(k) <= N
  <2>1. c + InHands(s) <= taken[s]
    BY <1>5 DEF Copied, c
  <2> QED
    BY <1>4, <1>5, <1>6, <2>1
<1>8. Wrote(s, k, met)
  BY <1>1, <1>2, <1>4, <1>7, WriteFacts DEF met, c
<1> HIDE DEF k
<1>9. StreamTypes'
  BY <1>2, <1>3, <1>8 DEF Streams, StreamTypes, Wrote
<1>10. \A t \in Stream \ {s} : SameAt(t)
  BY <1>2, <1>3, <1>8 DEF SameAt, Wrote
<1>11. InHands(s)' = InHands(s) /\ (Overtaken(s)' <=> Overtaken(s)) /\ (IsEof(s)' <=> d.content = "eof") /\ ~IsEof(s)
  BY <1>2, <1>3 DEF InHands, Overtaken, IsEof
<1>12. /\ met \subseteq harm'[s] /\ Counts(s)' \in 0..(c + More(k))
       /\ kind[s] = "caching" /\ "unwritten" \notin harm'[s] =>
            \/ /\ harm'[s] = met /\ Counts(s)' = c + More(k)
               /\ InFile(s)' = IF k = 0 THEN F ELSE Append(F, k)
            \/ harm'[s] # {} /\ InFile(s)' = << >> /\ Counts(s)' = 0
  BY <1>8 DEF Wrote, F, c
<1>13. Counts(s)' + InHands(s)' <= taken'[s]
  BY <1>4, <1>5, <1>6, <1>7, <1>11, <1>12
<1>14. /\ IsEof(s)' => taken'[s] = N \/ "dropped" \in harm'[s]
       /\ conn'[s] = "released" => IsEof(s)'
  <2>1. conn[s] # "released"
    BY <1>5, <1>11 DEF Copied
  <2>2. "dropped" \in d.met => "dropped" \in harm'[s]
    BY <1>12 DEF met
  <2> QED
    BY <1>2, <1>3, <1>11, <2>1, <2>2
<1>15. ASSUME kind[s] = "caching", "unwritten" \notin harm'[s]
       PROVE  /\ Len(InFile(s)') = Counts(s)'
              /\ Len(InFile(s)') = taken'[s] => InFile(s)' = Identity(taken'[s])
              /\ harm'[s] = {} => Len(InFile(s)') + InHands(s) = taken'[s]
  <2>1. "unwritten" \notin harm[s] /\ (met = {} => harm[s] = {})
    BY <1>12, <1>15 DEF met
  <2>2. /\ Len(F) = c
        /\ Len(F) = taken[s] => F = Identity(taken[s])
        /\ harm[s] = {} => Len(F) + InHands(s) = taken[s]
    BY <1>5, <1>15, <2>1 DEF Copied, F, c
  <2>3. CASE k = 0 /\ harm'[s] = met /\ Counts(s)' = c + More(k) /\ InFile(s)' = F
    <3>1. c + More(k) = c /\ taken'[s] = taken[s]
      BY <1>2, <1>5, <2>3 DEF More, k
    <3> QED
      BY <2>1, <2>2, <2>3, <3>1
  <2>4. CASE k # 0 /\ harm'[s] = met /\ Counts(s)' = c + More(k) /\ InFile(s)' = Append(F, k)
    <3>1. More(k) = 1 /\ k = taken[s] + 1 /\ taken'[s] = taken[s] + 1
      BY <1>2, <2>4 DEF More, k
    <3>2. Len(Append(F, k)) = Len(F) + 1
      BY <1>2, <1>5, AppendProperties DEF k
    <3>3. ASSUME Len(F) + 1 = taken'[s] PROVE Append(F, k) = Identity(taken'[s])
      <4>1. taken[s] \in Nat /\ Len(F) = taken[s]
        BY <1>4, <1>5, <3>1, <3>3
      <4>2. Append(Identity(taken[s]), taken[s] + 1) = Identity(taken[s] + 1)
        BY <4>1, IdentityGrows
      <4> QED
        BY <2>2, <3>1, <4>1, <4>2
    <3>4. harm[s] = {} => Len(F) + 1 + InHands(s) = taken'[s]
      BY <1>4, <1>5, <2>2, <3>1
    <3> QED
      BY <2>1, <2>2, <2>4, <3>1, <3>2, <3>3, <3>4
  <2>5. CASE harm'[s] # {} /\ InFile(s)' = << >> /\ Counts(s)' = 0
    <3>1. Len(<< >>) = 0 /\ Identity(0) = << >>
      BY IdentityGrows
    <3> QED
      BY <2>5, <3>1
  <2> QED
    BY <1>12, <1>15, <2>3, <2>4, <2>5
<1>16. Copied(s)'
  BY <1>3, <1>11, <1>13, <1>14, <1>15 DEF Copied
<1>17. StateOf(s)'
  BY <1>3, <1>8, <1>16 DEF StateOf, Wrote
<1> QED
  BY <1>9, <1>10, <1>17, OneStream

(* The steps of a stream that leave its file alone.                          *)
LEMMA PlainStreamSteps ==
  ASSUME Streams, NEW s \in Stream,
         \/ BeginRead(s) \/ BeginClose(s) \/ GiveBack(s) \/ SkipFails(s) \/ ContentFails(s)
         \/ ReadReturnsNothing(s) \/ Close(s) \/ Destroy(s)
  PROVE  Streams'
<1>1. StreamTypes'
  <2>1. CASE Close(s)
    BY <2>1, StreamAssumption DEF Streams, StreamTypes, Close, FileGoes, Shut, readerVars
  <2>2. CASE ContentFails(s)
    BY <2>2 DEF Streams, StreamTypes, ContentFails, fileVars
  <2>4. CASE BeginRead(s)
    BY <2>4 DEF Streams, StreamTypes, BeginRead, contentVars, fileVars
  <2>5. CASE ReadReturnsNothing(s)
    <3>1. hand' \in [Stream -> 0..N]
      BY <2>5, StreamAssumption DEF Streams, StreamTypes, ReadReturnsNothing
    <3> QED
      BY <2>5, <3>1 DEF Streams, StreamTypes, ReadReturnsNothing, contentVars, fileVars
  <2>3. CASE BeginClose(s) \/ GiveBack(s)
    BY <2>3 DEF Streams, StreamTypes, BeginClose, GiveBack, contentVars, readerVars, fileVars
  <2>6. CASE SkipFails(s) \/ Destroy(s)
    BY <2>6 DEF Streams, StreamTypes, SkipFails, Destroy, contentVars, readerVars, fileVars
  <2> QED
    BY <2>1, <2>2, <2>3, <2>4, <2>5, <2>6
<1>2. \A t \in Stream \ {s} : SameAt(t)
  BY DEF Streams, StreamTypes, SameAt, BeginRead, BeginClose, GiveBack, SkipFails, ContentFails, ReadReturnsNothing,
     Close, FileGoes, Shut, Destroy, contentVars, readerVars, fileVars
<1>3. StateOf(s)
  BY DEF Streams
<1>4. CASE Close(s)
  <2>1. taken'[s] = 0 /\ temp'[s] = NoFile /\ at'[s] = "closed" /\ written'[s] = 0
    BY <1>4 DEF Close, FileGoes, Shut, Streams, StreamTypes
  <2> QED
    BY <1>1, <1>2, <2>1, OneStream DEF StateOf
<1>5. CASE Destroy(s)
  <2>1. at[s] = "closed" /\ at'[s] = "closed" /\ taken'[s] = taken[s] /\ temp'[s] = temp[s] /\ written'[s] = written[s]
    BY <1>5 DEF Destroy, contentVars, fileVars
  <2> QED
    BY <1>1, <1>2, <1>3, <2>1, OneStream DEF StateOf
<1>6. ASSUME BeginRead(s) \/ BeginClose(s) \/ GiveBack(s) \/ SkipFails(s) \/ ContentFails(s) \/ ReadReturnsNothing(s)
      PROVE  StateOf(s)'
  <2>1. /\ kind' = kind /\ taken' = taken /\ temp' = temp /\ written' = written /\ harm' = harm
        /\ Counts(s)' = Counts(s) /\ InFile(s)' = InFile(s)
    BY <1>6 DEF BeginRead, BeginClose, GiveBack, SkipFails, ContentFails, ReadReturnsNothing, contentVars, readerVars,
       fileVars, Counts, InFile
  <2>2. CASE at'[s] = "closed"
    <3>1. at[s] = "closed"
      BY <1>6, <2>2 DEF BeginRead, BeginClose, GiveBack, SkipFails, ContentFails, ReadReturnsNothing, Streams, StreamTypes
    <3> QED
      BY <1>3, <2>1, <2>2, <3>1 DEF StateOf
  <2>3. CASE at'[s] # "closed"
    <3>1. at[s] # "closed"
      BY <1>6, <2>3 DEF BeginRead, BeginClose, GiveBack, SkipFails, ContentFails, ReadReturnsNothing, Streams, StreamTypes
    <3>2. Copied(s)
      BY <1>3, <3>1 DEF StateOf
    <3>3. (Overtaken(s)' <=> Overtaken(s)) /\ InHands(s)' = InHands(s) /\ (Overtaken(s) => hand'[s] = hand[s])
      BY <1>6, <2>3 DEF BeginRead, BeginClose, GiveBack, SkipFails, ContentFails, ReadReturnsNothing, contentVars,
         readerVars, Overtaken, InHands, Streams, StreamTypes
    <3>4. at'[s] = "open" => at[s] = "open"
      BY <1>6 DEF BeginRead, BeginClose, GiveBack, SkipFails, ContentFails, ReadReturnsNothing, Streams, StreamTypes
    <3>5. (IsEof(s)' => IsEof(s)) /\ (conn'[s] = "released" => IsEof(s)')
      BY <1>6, <3>2 DEF BeginRead, BeginClose, GiveBack, SkipFails, ContentFails, ReadReturnsNothing, contentVars,
         Streams, StreamTypes, IsEof, Copied
    <3>6. Copied(s)'
      BY <2>1, <3>2, <3>3, <3>4, <3>5 DEF Copied
    <3> QED
      BY <1>3, <2>1, <2>3, <3>6 DEF StateOf
  <2> QED
    BY <2>2, <2>3
<1> QED
  BY <1>1, <1>2, <1>4, <1>5, <1>6, OneStream

(* The steps of a call that disturb a stream.                                *)
LEMMA OpenStep ==
  ASSUME Streams, NEW s \in Stream, NEW hasLength \in BOOLEAN, Open(s, "plain", hasLength)
  PROVE  Streams' /\ Fresh(s)'
<1>1. StreamTypes'
  <2>1. /\ kind' \in [Stream -> {"none", "caching", "plain"}] /\ sized' \in [Stream -> BOOLEAN]
        /\ content' \in [Stream -> {"more", "eof", "bad"}] /\ reader' \in [Stream -> {"out", "in", "has"}]
    BY DEF Streams, StreamTypes, Open
  <2>2. /\ taken' \in [Stream -> 0..N] /\ hand' \in [Stream -> 0..N]
        /\ at' \in [Stream -> {"open", "skipping", "judging", "closed"}]
        /\ conn' \in [Stream -> {"none", "held", "released", "removed"}]
    BY StreamAssumption DEF Streams, StreamTypes, Open
  <2>3. /\ temp' \in [Stream -> Seq(1..N) \cup {NoFile}]
        /\ written' \in [Stream -> 0..N] /\ harm' \in [Stream -> SUBSET FaultKinds]
    BY StreamAssumption DEF Streams, StreamTypes, Open, NoFileYet
  <2> QED
    BY <2>1, <2>2, <2>3 DEF StreamTypes
<1>2. /\ kind'[s] = "plain" /\ at'[s] = "open" /\ content'[s] = "more" /\ taken'[s] = 0 /\ written'[s] = 0
      /\ reader'[s] = "out" /\ hand'[s] = 0 /\ temp'[s] = NoFile /\ harm'[s] = {} /\ conn'[s] = "held"
  BY DEF Streams, StreamTypes, Open, NoFileYet
<1>3. \A t \in Stream \ {s} : SameAt(t)
  BY DEF Streams, StreamTypes, SameAt, Open, NoFileYet
<1>4. /\ Counts(s)' = 0 /\ InHands(s)' = 0 /\ ~Overtaken(s)' /\ ~IsEof(s)' /\ InFile(s)' = << >>
      /\ Len(<< >>) = 0 /\ Identity(0) = << >>
  BY <1>2, IdentityGrows DEF Counts, InHands, Overtaken, IsEof, InFile
<1>5. StateOf(s)'
  BY <1>2, <1>4 DEF StateOf, Copied
<1> QED
  BY <1>1, <1>2, <1>3, <1>5, OneStream DEF Fresh

LEMMA ExchangeStep ==
  ASSUME Streams, NEW s \in Stream, Fresh(s), kind' = [kind EXCEPT ![s] = "caching"],
         UNCHANGED <<sized, contentVars, readerVars, at, conn, fileVars>>
  PROVE  Streams'
<1>1. StreamTypes'
  BY DEF Streams, StreamTypes, contentVars, readerVars, fileVars
<1>2. /\ kind'[s] = "caching" /\ at'[s] = "open" /\ content'[s] = "more" /\ taken'[s] = 0
      /\ reader'[s] = "out" /\ temp'[s] = NoFile /\ conn'[s] = "held" /\ written'[s] = 0
  BY DEF Streams, StreamTypes, StateOf, Fresh, contentVars, readerVars, fileVars
<1>3. \A t \in Stream \ {s} : SameAt(t)
  BY DEF Streams, StreamTypes, SameAt, contentVars, readerVars, fileVars
<1>4. /\ Counts(s)' = 0 /\ InHands(s)' = 0 /\ ~Overtaken(s)' /\ ~IsEof(s)' /\ InFile(s)' = << >>
      /\ Len(<< >>) = 0 /\ Identity(0) = << >>
  BY <1>2, IdentityGrows DEF Counts, InHands, Overtaken, IsEof, InFile
<1>5. StateOf(s)'
  BY <1>2, <1>4 DEF StateOf, Copied
<1> QED
  BY <1>1, <1>3, <1>5, OneStream

LEMMA StreamsInit ==
  ASSUME StreamInit
  PROVE  Streams
<1>1. StreamTypes
  BY StreamAssumption DEF StreamInit, StreamTypes
<1> QED
  BY <1>1 DEF StreamInit, Streams, StateOf

(* What close() finds.                                                       *)
LEMMA OfferFacts ==
  ASSUME Streams
  PROVE  OfferedIsWhole /\ ReusedIsDrained
<1>1. ASSUME NEW s \in Stream, at[s] = "judging", IsValidResponseBody(s), ~Suspect(s)
      PROVE  temp[s] = [i \in 1..N |-> i]
  <2>1. Copied(s) /\ kind[s] = "caching" /\ "unwritten" \notin harm[s]
    BY <1>1 DEF Streams, StateOf, IsValidResponseBody, Suspect
  <2>2. /\ N \in Nat /\ N > 0 /\ taken[s] \in 0..N /\ Counts(s) \in 0..N /\ InHands(s) \in {0, 1}
        /\ temp[s] = NoFile => Len(InFile(s)) = 0 /\ Counts(s) = 0
    BY FileFacts, StreamAssumption
  <2>3. /\ Counts(s) + InHands(s) <= taken[s] /\ Len(InFile(s)) = Counts(s)
        /\ Len(InFile(s)) = taken[s] => InFile(s) = Identity(taken[s])
        /\ harm[s] = {} => Len(InFile(s)) + InHands(s) = taken[s]
        /\ IsEof(s) => taken[s] = N \/ "dropped" \in harm[s]
    BY <2>1 DEF Copied
  <2>4. Counts(s) = N /\ taken[s] = N
    <3>1. CASE sized[s]
      <4>1. written[s] = N
        BY <1>1, <3>1 DEF IsValidResponseBody
      <4>2. temp[s] # NoFile
        BY <2>2, <4>1 DEF Streams, StateOf
      <4> QED
        BY <2>2, <2>3, <4>1, <4>2 DEF Counts
    <3>2. CASE ~sized[s]
      <4>1. harm[s] = {} /\ InHands(s) = 0
        BY <1>1, <3>2 DEF Suspect, InHands
      <4>2. IsEof(s)
        BY <1>1, <3>2 DEF IsValidResponseBody
      <4>3. taken[s] = N
        BY <2>3, <4>1, <4>2
      <4> QED
        BY <2>2, <2>3, <4>1, <4>3
    <3> QED
      BY <3>1, <3>2
  <2>5. InFile(s) = Identity(N) /\ temp[s] # NoFile
    BY <2>2, <2>3, <2>4
  <2> QED
    BY <2>5 DEF InFile, Identity
<1>2. ASSUME NEW s \in Stream, at[s] = "judging", conn[s] = "released"
      PROVE  IsEof(s) /\ (taken[s] = N \/ "dropped" \in harm[s])
  BY <1>2 DEF Streams, StateOf, Copied
<1> QED
  BY <1>1, <1>2 DEF OfferedIsWhole, ReusedIsDrained

-----------------------------------------------------------------------------
(* Which streams are open at each place of a call.                           *)
NotBegun == phase = "idle" \/ (phase = "call" /\ callChain.at <= Interceptors)

BeforeReply == \/ phase \in {"lookup", "connect", "write", "receive"}
               \/ phase = "net" /\ netChain.at <= NetworkInterceptors

AfterReply == phase = "judge" \/ (phase = "net" /\ netChain.at > NetworkInterceptors)

Other == Slot(hop + 1)

Slots ==
  /\ NotBegun \/ (phase = "create" /\ hop = 0) => \A s \in Stream : at[s] = "closed"
  /\ NotBegun => hop = 0
  /\ BeforeReply => at[Mine] = "closed"
  /\ AfterReply => Fresh(Mine)
  /\ setting.cache /\ (BeforeReply \/ AfterReply \/ phase \in {"create", "discard", "decide", "drain"})
       => at[Other] = "closed"
  /\ phase = "decide" /\ at[Mine] # "closed" => answer # NoResponse /\ answer.body = "net"
  /\ phase = "drain" => setting.cache
  /\ \A s \in Stream : reader[s] # "out" => phase = "returned" \/ (phase = "drain" /\ s = Mine)

LEMMA SlotFacts ==
  ASSUME NEW h \in Nat
  PROVE  /\ Slot(h) \in Stream /\ Slot(h + 1) \in Stream /\ Slot(h + 1) # Slot(h)
         /\ Slot(h + 1 + 1) = Slot(h)
         /\ \A s \in Stream : s = Slot(h) \/ s = Slot(h + 1)
<1>1. Stream = {0, 1}
  BY FollowUpsAssumption
<1> QED
  BY <1>1 DEF Slot

LEMMA StreamsStep ==
  ASSUME Streams, Slots, CallNext, hop \in Nat
  PROVE  Streams'
<1>1. Mine \in Stream
  BY SlotFacts DEF Mine
<1>2. ASSUME UNCHANGED streamVars PROVE Streams'
  <2>1. StreamTypes'
    BY <1>2 DEF Streams, StreamTypes, streamVars, contentVars, readerVars, fileVars
  <2>2. \A t \in Stream : SameAt(t)
    BY <1>2 DEF SameAt, streamVars, contentVars, readerVars, fileVars
  <2>3. \A t \in Stream : StateOf(t)'
    BY <2>2, SameStateOf DEF Streams
  <2> QED
    BY <2>1, <2>3 DEF Streams
<1>3. ASSUME NEW s \in Stream, BeginClose(s) \/ BeginRead(s) \/ Destroy(s) \/ Reading(s) \/ Closing(s)
      PROVE  Streams'
  BY <1>3, PlainStreamSteps, TakeChunkStep, StoreChunkStep, SkipChunkStep DEF Reading, Closing
<1>4. CASE Start \/ CallProceeds \/ CallInterceptorReturns \/ LookupMisses \/ LookupRefuses \/ LookupHits
             \/ LookupValidates \/ NetProceeds \/ NetInterceptorReturns \/ GetConnection \/ SendRequest
             \/ ExchangeFails \/ ExchangeTimesOut \/ JudgeValid \/ Assign \/ Retry \/ RetryThrows \/ DrainEnds \/ Release
  BY <1>2, <1>4 DEF Start, CallProceeds, CallInterceptorReturns, LookupMisses, LookupRefuses, LookupHits, LookupValidates,
     NetProceeds, NetInterceptorReturns, GetConnection, SendRequest, ExchangeFails, ExchangeTimesOut, JudgeValid, Assign,
     Retry, RetryThrows, DrainEnds, Release
<1>5. CASE CreateEngine
  BY <1>1, <1>2, <1>3, <1>5 DEF CreateEngine
<1>6. CASE CloseEarlier \/ Discard \/ DrainReads \/ DrainCloses \/ Fail \/ UserReads \/ UserCloses \/ Cancel
  BY <1>1, <1>2, <1>3, <1>6 DEF CloseEarlier, Discard, DrainReads, DrainCloses, Fail, UserReads, UserCloses, Cancel
<1>7. CASE ReceiveResponse
  BY <1>1, <1>7, OpenStep DEF ReceiveResponse
<1>8. CASE JudgeNetwork
  <2>1. Fresh(Mine)
    BY <1>8 DEF Slots, AfterReply, JudgeNetwork
  <2> QED
    BY <1>1, <1>2, <1>8, <2>1, ExchangeStep DEF JudgeNetwork
<1>9. CASE DestroyRest \/ StreamStep
  BY <1>3, <1>9 DEF DestroyRest, StreamStep
<1> QED
  BY <1>4, <1>5, <1>6, <1>7, <1>8, <1>9 DEF CallNext, Executes

(* Where the steps of the chains lead.                                       *)
LEMMA Places ==
  ASSUME Chains
  PROVE  /\ Start => NotBegun /\ phase' \in {"create", "call"} /\ hop' = hop
         /\ CallProceeds => /\ phase = "call" /\ phase' \in {"create", "call", "undefined"} /\ hop' = hop
                            /\ (NotBegun' => NotBegun) /\ (phase' = "create" => NotBegun)
         /\ CallInterceptorReturns => /\ phase = "call" /\ phase' \in {"call", "failed", "returned"} /\ hop' = hop
                                      /\ (NotBegun' => NotBegun)
         /\ NetProceeds => /\ phase = "net" /\ phase' \in {"connect", "undefined", "net"} /\ hop' = hop
                           /\ (BeforeReply' => BeforeReply) /\ ~AfterReply'
         /\ NetInterceptorReturns => /\ phase = "net" /\ phase' \in {"judge", "net"} /\ hop' = hop
                                     /\ AfterReply /\ ~BeforeReply'
         /\ ReceiveResponse => /\ phase = "receive" /\ phase' \in {"judge", "net"} /\ hop' = hop
                               /\ ~BeforeReply'
         /\ \A r : phase = "lookup" /\ GoesOut(r) =>
              phase' \in {"connect", "net"} /\ hop' = hop /\ ~AfterReply'
         /\ CallInterceptors!InnerEnds /\ CallEnds(callChain'.control) =>
              phase' \in {"call", "failed", "returned"} /\ hop' = hop /\ ~NotBegun'
<1>0. /\ Interceptors \in Nat /\ NetworkInterceptors \in Nat
      /\ Links(Interceptors, callChain) /\ Links(NetworkInterceptors, netChain)
      /\ callChain.at \in Nat /\ netChain.at \in Nat
  BY FollowUpsAssumption DEF Chains, Links
<1>1. ASSUME Start
      PROVE  NotBegun /\ phase' \in {"create", "call"} /\ hop' = hop
  BY <1>1 DEF Start, Goes, NotBegun
<1>2. ASSUME CallProceeds
      PROVE  /\ phase = "call" /\ phase' \in {"create", "call", "undefined"} /\ hop' = hop
             /\ (NotBegun' => NotBegun) /\ (phase' = "create" => NotBegun)
  <2>1. /\ callChain'.at = callChain.at + 1
        /\ callChain'.control = IF callChain.at < Interceptors THEN "interceptor"
                                ELSE IF callChain.at = Interceptors THEN "inner" ELSE "undefined"
    BY <1>0, <1>2, ChainSteps, LinksProceeded DEF CallProceeds
  <2>2. /\ phase = "call" /\ hop' = hop
        /\ phase' = CASE callChain'.control = "inner" -> "create"
                      [] callChain'.control = "undefined" -> "undefined"
                      [] OTHER -> "call"
    BY <1>2 DEF CallProceeds
  <2>3. /\ callChain'.control = "inner" => phase' = "create"
        /\ callChain'.control = "undefined" => phase' = "undefined"
        /\ callChain'.control = "interceptor" => phase' = "call"
    BY <2>2
  <2>4. callChain.at < Interceptors \/ callChain.at = Interceptors \/ callChain.at > Interceptors
    BY <1>0
  <2>5. phase' # "undefined" => callChain.at <= Interceptors
    BY <1>0, <2>1, <2>3, <2>4
  <2>6. phase' \in {"create", "call", "undefined"}
    BY <2>1, <2>3, <2>4
  <2> QED
    BY <2>2, <2>5, <2>6 DEF NotBegun
<1>3. ASSUME CallInterceptorReturns
      PROVE  /\ phase = "call" /\ phase' \in {"call", "failed", "returned"} /\ hop' = hop
             /\ (NotBegun' => NotBegun)
  <2>1. callChain'.at = callChain.at
    BY <1>0, <1>3, ChainSteps, LinksReturned DEF CallInterceptorReturns
  <2> QED
    BY <1>3, <2>1 DEF CallInterceptorReturns, CallEnds, Goes, NotBegun
<1>4. ASSUME NetProceeds
      PROVE  /\ phase = "net" /\ phase' \in {"connect", "undefined", "net"} /\ hop' = hop
             /\ (BeforeReply' => BeforeReply) /\ ~AfterReply'
  <2>1. /\ netChain'.at = netChain.at + 1
        /\ netChain'.control = IF netChain.at < NetworkInterceptors THEN "interceptor"
                               ELSE IF netChain.at = NetworkInterceptors THEN "inner" ELSE "undefined"
    BY <1>0, <1>4, ChainSteps, LinksProceeded DEF NetProceeds
  <2>2. /\ phase = "net" /\ hop' = hop
        /\ phase' = CASE netChain'.control = "inner" -> "connect"
                      [] netChain'.control = "undefined" -> "undefined"
                      [] OTHER -> "net"
    BY <1>4 DEF NetProceeds, Goes
  <2>3. /\ netChain'.control = "inner" => phase' = "connect"
        /\ netChain'.control = "undefined" => phase' = "undefined"
        /\ netChain'.control = "interceptor" => phase' = "net"
    BY <2>2
  <2>4. netChain.at < NetworkInterceptors \/ netChain.at = NetworkInterceptors \/ netChain.at > NetworkInterceptors
    BY <1>0
  <2>5. phase' # "undefined" => netChain.at <= NetworkInterceptors
    BY <1>0, <2>1, <2>3, <2>4
  <2>6. phase' = "net" => netChain.at + 1 <= NetworkInterceptors
    BY <1>0, <2>1, <2>3, <2>4
  <2>7. phase' \in {"connect", "net", "undefined"}
    BY <2>1, <2>3, <2>4
  <2>8. ~AfterReply'
    BY <1>0, <2>1, <2>6, <2>7 DEF AfterReply
  <2> QED
    BY <2>2, <2>5, <2>7, <2>8 DEF BeforeReply
<1>5. ASSUME NetInterceptorReturns
      PROVE  /\ phase = "net" /\ phase' \in {"judge", "net"} /\ hop' = hop
             /\ AfterReply /\ ~BeforeReply'
  <2>1. netChain'.at = netChain.at
    BY <1>0, <1>5, ChainSteps, LinksReturned DEF NetInterceptorReturns
  <2>2. phase = "net" /\ phase' \in {"judge", "net"} /\ hop' = hop /\ NetInterceptors!Again
    BY <1>5 DEF NetInterceptorReturns, Goes
  <2>3. netChain.at > NetworkInterceptors
    BY <1>0, <2>2 DEF Chains, ControlIsThere
  <2> QED
    BY <1>0, <2>1, <2>2, <2>3 DEF AfterReply, BeforeReply
<1>6. ASSUME ReceiveResponse
      PROVE  phase = "receive" /\ phase' \in {"judge", "net"} /\ hop' = hop /\ ~BeforeReply'
  <2>1. netChain'.at = NetworkInterceptors + 1
    BY <1>0, <1>6, ChainSteps, LinksInnerDone DEF ReceiveResponse
  <2> QED
    BY <1>0, <1>6, <2>1 DEF ReceiveResponse, Goes, BeforeReply
<1>7. ASSUME NEW r, phase = "lookup", GoesOut(r)
      PROVE  phase' \in {"connect", "net"} /\ hop' = hop /\ ~AfterReply'
  <2>1. /\ netChain'.at = 1 /\ netChain'.control = IF NetworkInterceptors = 0 THEN "inner" ELSE "interceptor"
        /\ phase' = IF netChain'.control = "inner" THEN "connect" ELSE "net"
        /\ hop' = hop
    BY <1>0, <1>7, ChainSteps, LinksBegun DEF GoesOut, Goes
  <2> QED
    BY <1>0, <2>1 DEF AfterReply
<1>8. ASSUME CallInterceptors!InnerEnds, CallEnds(callChain'.control)
      PROVE  phase' \in {"call", "failed", "returned"} /\ hop' = hop /\ ~NotBegun'
  <2>1. callChain'.at = Interceptors + 1
    BY <1>0, <1>8, ChainSteps, LinksInnerDone
  <2> QED
    BY <1>0, <1>8, <2>1 DEF CallEnds, Goes, NotBegun
<1> QED
  BY <1>1, <1>2, <1>3, <1>4, <1>5, <1>6, <1>7, <1>8

-----------------------------------------------------------------------------
(* What the setters of a response leave and change.                          *)
Is(x, code, location, where, request) ==
  /\ IsResponse(x) /\ x # NoResponse
  /\ x.code = code /\ x.location = location /\ x.body = where /\ x.request = request

LEMMA ResponseFacts ==
  ASSUME NEW r, IsResponse(r)
  PROVE  Is(r, r.code, r.location, r.body, r.request)
<1>1. "location" \in DOMAIN r /\ "location" \notin DOMAIN NoResponse
  BY DEF IsResponse, NewResponse, NoResponse
<1>2. r # NoResponse
  BY <1>1
<1> QED
  BY <1>2 DEF Is

LEMMA NewIs == Is(NewResponse, "ok", NoUrl, "none", NoRequest)
<1>1. IsResponse(NewResponse)
  BY DEF IsResponse, NewResponse
<1> QED
  BY <1>1, ResponseFacts DEF NewResponse, Is

LEMMA SetBodyIs ==
  ASSUME NEW r, IsResponse(r), NEW where \in {"none", "net", "cache"}
  PROVE  Is(SetBody(r, where), r.code, r.location, where, r.request)
<1>1. IsResponse(SetBody(r, where))
  BY DEF IsResponse, NewResponse, SetBody
<1> QED
  BY <1>1, ResponseFacts DEF IsResponse, NewResponse, SetBody, Is

LEMMA SetCodeIs ==
  ASSUME NEW r, IsResponse(r), NEW code \in {"ok", "redirect", "notModified", "timeout"}
  PROVE  Is(SetCode(r, code), code, r.location, r.body, r.request)
<1>1. IsResponse(SetCode(r, code))
  BY DEF IsResponse, NewResponse, SetCode
<1> QED
  BY <1>1, ResponseFacts DEF IsResponse, NewResponse, SetCode, Is

LEMMA SetLocationIs ==
  ASSUME NEW r, IsResponse(r), NEW url \in Url \cup {NoUrl, BadUrl}
  PROVE  Is(SetLocation(r, url), r.code, url, r.body, r.request)
<1>1. IsResponse(SetLocation(r, url))
  BY DEF IsResponse, NewResponse, SetLocation
<1> QED
  BY <1>1, ResponseFacts DEF IsResponse, NewResponse, SetLocation, Is

LEMMA SetRequestIs ==
  ASSUME NEW r, IsResponse(r), NEW request \in Requests \cup {NoRequest}
  PROVE  Is(SetRequest(r, request), r.code, r.location, r.body, request)
<1>1. IsResponse(SetRequest(r, request))
  BY DEF IsResponse, NewResponse, SetRequest
<1> QED
  BY <1>1, ResponseFacts DEF IsResponse, NewResponse, SetRequest, Is

LEMMA SetRelatedIs ==
  ASSUME NEW r, IsResponse(r), NEW x
  PROVE  /\ Is(SetPriorResponse(r, x), r.code, r.location, r.body, r.request)
         /\ Is(SetNetworkResponse(r, x), r.code, r.location, r.body, r.request)
         /\ Is(SetCacheResponse(r, x), r.code, r.location, r.body, r.request)
<1> DEFINE b == Brief(x)
<1> HIDE DEF b
<1>1. /\ SetPriorResponse(r, x) = [r EXCEPT !.prior = x]
      /\ SetNetworkResponse(r, x) = [r EXCEPT !.network = b]
      /\ SetCacheResponse(r, x) = [r EXCEPT !.cache = b]
  BY DEF SetPriorResponse, SetNetworkResponse, SetCacheResponse, b
<1>2. ASSUME NEW f \in {"prior", "network", "cache"}, NEW y, NEW z, z = [r EXCEPT ![f] = y]
      PROVE  Is(z, r.code, r.location, r.body, r.request)
  <2>1. IsResponse(z)
    BY <1>2 DEF IsResponse, NewResponse
  <2> QED
    BY <1>2, <2>1, ResponseFacts DEF IsResponse, NewResponse, Is
<1> QED
  BY <1>1, <1>2

(* What the engine gives its user.                                           *)
LEMMA FromCacheIs ==
  ASSUME NEW r, IsResponse(r), NEW network, NEW request \in Requests \cup {NoRequest}, NEW earlier
  PROVE  Is(FromCache(r, network, request, earlier), r.code, r.location, "cache", request)
<1> DEFINE p == StripBody(earlier)
           m == StripBody(r)
           n == StripBody(network)
           a == SetRequest(r, request)
           b == SetPriorResponse(a, p)
           c == SetCacheResponse(b, m)
           d == SetBody(c, "cache")
<1>1. FromCache(r, network, request, earlier) = SetNetworkResponse(d, n)
  BY DEF FromCache
<1> HIDE DEF p, m, n
<1>2. Is(a, r.code, r.location, r.body, request)
  BY SetRequestIs
<1> HIDE DEF a
<1>3. Is(b, r.code, r.location, r.body, request)
  BY <1>2, SetRelatedIs DEF Is
<1> HIDE DEF b
<1>4. Is(c, r.code, r.location, r.body, request)
  BY <1>3, SetRelatedIs DEF Is
<1> HIDE DEF c
<1>5. Is(d, r.code, r.location, "cache", request)
  BY <1>4, SetBodyIs DEF Is
<1> HIDE DEF d
<1> QED
  BY <1>1, <1>5, SetRelatedIs DEF Is

LEMMA FromNetworkIs ==
  ASSUME NEW r, IsResponse(r), NEW earlier
  PROVE  /\ Is(FromNetwork(r, earlier), r.code, r.location, r.body, r.request)
         /\ Is(WithCaching(r, earlier), r.code, r.location, "net", r.request)
<1> DEFINE p == StripBody(earlier)
           m == StripBody(r)
           a == SetNetworkResponse(r, m)
           b == SetBody(m, "net")
           c == SetNetworkResponse(b, m)
<1>1. FromNetwork(r, earlier) = SetPriorResponse(a, p) /\ WithCaching(r, earlier) = SetPriorResponse(c, p)
  BY DEF FromNetwork, WithCaching
<1>2. Is(m, r.code, r.location, "none", r.request)
  <2>1. m = SetBody(r, "none")
    BY ResponseFacts DEF StripBody, Is
  <2> QED
    BY <2>1, SetBodyIs
<1> HIDE DEF p, m
<1>3. Is(a, r.code, r.location, r.body, r.request)
  BY SetRelatedIs
<1>4. Is(b, r.code, r.location, "net", r.request)
  BY <1>2, SetBodyIs DEF Is
<1> HIDE DEF a, b
<1>5. Is(c, r.code, r.location, "net", r.request)
  BY <1>4, SetRelatedIs DEF Is
<1> HIDE DEF c
<1>6. Is(SetPriorResponse(a, p), r.code, r.location, r.body, r.request)
  BY <1>3, SetRelatedIs DEF Is
<1>7. Is(SetPriorResponse(c, p), r.code, r.location, "net", r.request)
  BY <1>5, SetRelatedIs DEF Is
<1> QED
  BY <1>1, <1>6, <1>7

LEMMA GatewayTimeoutIs ==
  ASSUME NEW request \in Requests \cup {NoRequest}, NEW earlier
  PROVE  Is(GatewayTimeout(request, earlier), "timeout", NoUrl, "none", request)
<1> DEFINE p == StripBody(earlier)
           a == SetRequest(NewResponse, request)
           b == SetPriorResponse(a, p)
<1>1. GatewayTimeout(request, earlier) = SetCode(b, "timeout")
  BY DEF GatewayTimeout
<1> HIDE DEF p
<1>2. Is(a, "ok", NoUrl, "none", request)
  BY NewIs, SetRequestIs DEF Is
<1> HIDE DEF a
<1>3. Is(b, "ok", NoUrl, "none", request)
  BY <1>2, SetRelatedIs DEF Is
<1> HIDE DEF b
<1> QED
  BY <1>1, <1>3, SetCodeIs DEF Is

(* What the servers answer with, and what may be stored.                     *)
LEMMA AnswersAre ==
  ASSUME NEW r \in Answers
  PROVE  IsResponse(r) /\ r.code \in {"ok", "redirect"}
<1>1. CASE r = NewResponse
  BY <1>1, NewIs DEF Is
<1>2. ASSUME NEW u \in Url \cup {NoUrl, BadUrl}, r = Redirect(u)
      PROVE  IsResponse(r) /\ r.code \in {"ok", "redirect"}
  <2> DEFINE a == SetCode(NewResponse, "redirect")
  <2>1. IsResponse(a) /\ a.code = "redirect"
    BY NewIs, SetCodeIs DEF Is
  <2>2. r = SetLocation(a, u)
    BY <1>2 DEF Redirect
  <2> HIDE DEF a
  <2> QED
    BY <2>1, <2>2, SetLocationIs DEF Is
<1> QED
  BY <1>1, <1>2 DEF Answers

LEMMA StoredAre ==
  ASSUME Current \in Requests, NEW r \in Stored
  PROVE  IsResponse(r) /\ r.code \in {"ok", "redirect"} /\ r.request = Current
<1>1. PICK a \in {NewResponse} \cup {Redirect(u) : u \in Url} : r = SetRequest(a, Current)
  BY DEF Stored
<1>2. a \in Answers
  BY <1>1 DEF Answers
<1> QED
  BY <1>1, <1>2, AnswersAre, SetRequestIs DEF Is

LEMMA RepliesAre ==
  ASSUME sent \in Requests, NEW r \in Replies
  PROVE  /\ IsResponse(r) /\ r.request = sent /\ r.body = "net"
         /\ r.code \in {"ok", "redirect", "notModified"}
         /\ r.code = "notModified" => Validator(sent) # NoUrl
<1>1. PICK a \in Codes : r = SetBody(SetRequest(a, sent), "net")
  BY DEF Replies
<1>2. /\ IsResponse(a) /\ a.code \in {"ok", "redirect", "notModified"}
      /\ a.code = "notModified" => Validator(sent) # NoUrl
  <2>1. CASE a \in Answers
    BY <2>1, AnswersAre
  <2>2. CASE a = SetCode(NewResponse, "notModified") /\ Validator(sent) # NoUrl
    BY <2>2, NewIs, SetCodeIs DEF Is
  <2> QED
    BY <2>1, <2>2 DEF Codes
<1> DEFINE b == SetRequest(a, sent)
<1>3. Is(b, a.code, a.location, a.body, sent)
  BY <1>2, SetRequestIs
<1> HIDE DEF b
<1>4. Is(SetBody(b, "net"), a.code, a.location, "net", sent)
  BY <1>3, SetBodyIs DEF Is
<1> QED
  BY <1>1, <1>2, <1>4 DEF Is, b

(* What a step does that opens no stream and starts no read.                 *)
Quiet == \A s \in Stream : /\ at[s] = "closed" => at'[s] = "closed"
                           /\ reader[s] = "out" => reader'[s] = "out"
                           /\ Fresh(s) /\ UNCHANGED streamVars => Fresh(s)'

Here == BeforeReply \/ AfterReply \/ phase \in {"create", "discard", "decide", "drain"}

LEMMA StillHere ==
  ASSUME UNCHANGED streamVars
  PROVE  Quiet
  BY DEF Quiet, Fresh, streamVars, contentVars, readerVars, fileVars

(* A step within a hop.                                                      *)
LEMMA SlotsHere ==
  ASSUME Slots, hop \in Nat, hop' = hop, setting' = setting,
         \A s \in Stream : at[s] = "closed" => at'[s] = "closed",
         \A s \in Stream : reader'[s] # "out" => phase' = "returned" \/ (phase' = "drain" /\ s = Mine),
         NotBegun' => NotBegun,
         phase' = "create" /\ hop = 0 => NotBegun \/ phase = "create",
         BeforeReply' => at'[Mine] = "closed",
         AfterReply' => Fresh(Mine)',
         Here' => Here \/ NotBegun,
         phase' = "decide" /\ at'[Mine] # "closed" => answer' # NoResponse /\ answer'.body = "net",
         phase' = "drain" => setting.cache
  PROVE  Slots'
<1>1. Mine \in Stream /\ Other \in Stream /\ Mine' = Mine /\ Other' = Other
  BY SlotFacts DEF Mine, Other, Slot
<1>2. NotBegun' \/ (phase' = "create" /\ hop' = 0) => \A s \in Stream : at'[s] = "closed"
  BY DEF Slots
<1>3. NotBegun' => hop' = 0
  BY DEF Slots
<1>4. setting'.cache /\ Here' => at'[Other] = "closed"
  BY <1>1 DEF Slots, Here
<1> QED
  BY <1>1, <1>2, <1>3, <1>4 DEF Slots, Here

(* The next hop: the response of this one becomes the earlier one.           *)
LEMMA SlotsNext ==
  ASSUME Slots, hop \in Nat, NextHop, phase \in {"drain", "decide"}, setting' = setting, UNCHANGED streamVars,
         phase = "drain" => at[Mine] = "closed" /\ reader[Mine] = "out",
         setting.cache => at[Mine] = "closed"
  PROVE  Slots'
<1>1. at' = at /\ reader' = reader
  BY DEF streamVars, readerVars
<1>2. \A s \in Stream : reader[s] = "out"
  BY DEF Slots
<1>3. CASE phase' = "create" /\ hop' = hop + 1
  <2>1. Other' = Mine /\ hop' # 0
    BY <1>3, SlotFacts DEF Other, Mine, Slot
  <2>2. ~NotBegun' /\ ~BeforeReply' /\ ~AfterReply'
    BY <1>3 DEF NotBegun, BeforeReply, AfterReply
  <2> QED
    BY <1>1, <1>2, <1>3, <2>1, <2>2 DEF Slots
<1>4. CASE phase' = "failing"
  <2>1. ~NotBegun' /\ ~BeforeReply' /\ ~AfterReply'
    BY <1>4 DEF NotBegun, BeforeReply, AfterReply
  <2> QED
    BY <1>1, <1>2, <1>4, <2>1 DEF Slots
<1> QED
  BY <1>3, <1>4 DEF NextHop

(* A step of a stream that is in use.                                        *)
LEMMA StreamQuiet ==
  ASSUME Streams, NEW s \in Stream, Reading(s) \/ Closing(s)
  PROVE  /\ \A t \in Stream : at[t] = "closed" => at'[t] = "closed"
         /\ \A t \in Stream : reader[t] = "out" => reader'[t] = "out"
         /\ ~Fresh(s)
         /\ \A t \in Stream \ {s} : Fresh(t) => Fresh(t)'
<1>1. at \in [Stream -> {"open", "skipping", "judging", "closed"}] /\ reader \in [Stream -> {"out", "in", "has"}]
  BY DEF Streams, StreamTypes
<1>2. \A t \in Stream : at[t] = "closed" => at'[t] = "closed"
  BY <1>1 DEF Reading, Closing, TakeChunk, ContentFails, ReadReturnsNothing, StoreChunk, SkipChunk, GiveBack, SkipFails,
     Close, Shut
<1>3. \A t \in Stream : reader[t] = "out" => reader'[t] = "out"
  BY <1>1 DEF Reading, Closing, TakeChunk, ContentFails, ReadReturnsNothing, StoreChunk, SkipChunk, GiveBack, SkipFails,
     Close, readerVars
<1>4. ~Fresh(s)
  BY DEF Fresh, Reading, Closing, TakeChunk, ContentFails, ReadReturnsNothing, StoreChunk, SkipChunk, GiveBack, SkipFails, Close
<1>5. \A t \in Stream \ {s} : SameAt(t)
  <2>1. /\ kind \in [Stream -> {"none", "caching", "plain"}] /\ sized \in [Stream -> BOOLEAN]
        /\ content \in [Stream -> {"more", "eof", "bad"}] /\ taken \in [Stream -> 0..N]
        /\ reader \in [Stream -> {"out", "in", "has"}] /\ hand \in [Stream -> 0..N]
        /\ at \in [Stream -> {"open", "skipping", "judging", "closed"}]
        /\ conn \in [Stream -> {"none", "held", "released", "removed"}]
        /\ temp \in [Stream -> Seq(1..N) \cup {NoFile}]
        /\ written \in [Stream -> 0..N] /\ harm \in [Stream -> SUBSET FaultKinds]
    BY DEF Streams, StreamTypes
  <2>2. CASE TakeChunk(s) \/ SkipChunk(s) \/ StoreChunk(s)
    BY <2>1, <2>2 DEF TakeChunk, SkipChunk, StoreChunk, Deliver, Write, Appends, SameAt, contentVars, readerVars
  <2>3. CASE ContentFails(s) \/ ReadReturnsNothing(s) \/ GiveBack(s) \/ SkipFails(s)
    BY <2>1, <2>3 DEF ContentFails, ReadReturnsNothing, GiveBack, SkipFails, SameAt, contentVars, readerVars, fileVars
  <2>4. CASE Close(s)
    BY <2>1, <2>4 DEF Close, FileGoes, Shut, SameAt, readerVars
  <2> QED
    BY <2>2, <2>3, <2>4 DEF Reading, Closing
<1>6. \A t \in Stream \ {s} : Fresh(t) => Fresh(t)'
  BY <1>5 DEF Fresh, SameAt
<1> QED
  BY <1>2, <1>3, <1>4, <1>6

(* close() begins, or nothing happens to the streams.                        *)
LEMMA CloseQuiet ==
  ASSUME Streams, hop \in Nat, hop' = hop, BeginClose(Mine) \/ UNCHANGED streamVars
  PROVE  /\ \A t \in Stream : at[t] = "closed" => at'[t] = "closed"
         /\ reader' = reader
         /\ UNCHANGED streamVars => at' = at /\ (Fresh(Mine) => Fresh(Mine)')
<1>1. at \in [Stream -> {"open", "skipping", "judging", "closed"}] /\ Mine \in Stream /\ Mine' = Mine
  BY SlotFacts DEF Streams, StreamTypes, Mine, Slot
<1>2. /\ \A t \in Stream : at[t] = "closed" => at'[t] = "closed"
      /\ reader' = reader
  BY <1>1 DEF BeginClose, streamVars, readerVars
<1>3. UNCHANGED streamVars => at' = at /\ (Fresh(Mine) => Fresh(Mine)')
  BY <1>1 DEF streamVars, contentVars, readerVars, fileVars, Fresh
<1> QED
  BY <1>2, <1>3

LEMMA SlotsStep ==
  ASSUME Streams, Chains, Slots, hop \in Nat, CallNext,
         AfterReply => IsResponse(answer) /\ answer # NoResponse /\ answer.body = "net"
  PROVE  Slots'
<1>1. Mine \in Stream /\ Other \in Stream /\ Mine # Other
  BY SlotFacts DEF Mine, Other
<1>2. \A s \in Stream : reader[s] # "out" => phase = "returned" \/ (phase = "drain" /\ s = Mine)
  BY DEF Slots
<1>3. CASE Start \/ CallProceeds \/ CallInterceptorReturns
  <2>1. /\ hop' = hop /\ setting' = setting /\ UNCHANGED streamVars
        /\ (NotBegun \/ phase = "call") /\ (NotBegun' => NotBegun) /\ (phase' = "create" => NotBegun)
        /\ phase' \in {"create", "call", "failed", "returned", "undefined"} /\ phase \in {"idle", "call"}
    BY <1>3, Places DEF Start, CallProceeds, CallInterceptorReturns
  <2>2. ~BeforeReply' /\ ~AfterReply' /\ (Here' => phase' = "create")
    BY <2>1 DEF BeforeReply, AfterReply, Here
  <2> QED
    BY <1>2, <2>1, <2>2, SlotsHere, CloseQuiet
<1>4. CASE CreateEngine
  <2>1. CASE cancelled # "no"
    <3>1. phase = "create" /\ phase' = "failing" /\ UNCHANGED streamVars
      BY <1>4, <2>1 DEF CreateEngine
    <3>2. ~NotBegun' /\ ~BeforeReply' /\ ~AfterReply'
      BY <3>1 DEF NotBegun, BeforeReply, AfterReply
    <3>3. reader' = reader
      BY <3>1 DEF streamVars, readerVars
    <3> QED
      BY <1>2, <3>1, <3>2, <3>3 DEF Slots
  <2>2. CASE cancelled = "no"
    <3>1. /\ phase = "create" /\ phase' = "lookup" /\ hop' = hop /\ setting' = setting
          /\ Destroy(Mine)
      BY <1>4, <2>2 DEF CreateEngine, Goes
    <3>2. at' = at /\ at[Mine] = "closed" /\ reader' = reader
      BY <3>1 DEF Destroy, readerVars
    <3>3. ~NotBegun' /\ ~AfterReply' /\ Here
      BY <3>1 DEF NotBegun, AfterReply, Here
    <3> QED
      BY <1>2, <3>1, <3>2, <3>3, SlotsHere
  <2> QED
    BY <2>1, <2>2
<1>5. CASE CloseEarlier \/ UserCloses \/ Cancel \/ DrainCloses
  <2>1. /\ phase' = phase /\ hop' = hop /\ setting' = setting /\ callChain' = callChain /\ netChain' = netChain
        /\ answer' = answer /\ (BeginClose(Mine) \/ UNCHANGED streamVars)
        /\ phase \in {"create", "returned", "call", "drain"} \/ UNCHANGED streamVars
    BY <1>5 DEF CloseEarlier, UserCloses, InHand, Cancel, Assigned, DrainCloses, callVars, chainVars, progressVars,
       engineVars
  <2>2. (NotBegun' <=> NotBegun) /\ (BeforeReply' <=> BeforeReply) /\ (AfterReply' <=> AfterReply) /\ (Here' <=> Here)
    BY <2>1 DEF NotBegun, BeforeReply, AfterReply, Here
  <2>3. BeforeReply => at[Mine] = "closed"
    BY DEF Slots
  <2>4. AfterReply => Fresh(Mine)'
    <3>1. AfterReply => UNCHANGED streamVars
      BY <2>1 DEF AfterReply
    <3> QED
      BY <2>1, <3>1, CloseQuiet DEF Slots
  <2>5. /\ phase = "decide" /\ at[Mine] # "closed" => answer # NoResponse /\ answer.body = "net"
        /\ phase = "drain" => setting.cache
    BY DEF Slots
  <2>6. /\ \A t \in Stream : at[t] = "closed" => at'[t] = "closed"
        /\ reader' = reader /\ (phase = "decide" => at' = at)
    BY <2>1, CloseQuiet
  <2> QED
    BY <1>1, <1>2, <2>1, <2>2, <2>3, <2>4, <2>5, <2>6, SlotsHere
<1>6. CASE LookupMisses \/ LookupValidates
  <2>1. /\ phase = "lookup" /\ phase' \in {"connect", "net"} /\ hop' = hop /\ ~AfterReply'
        /\ setting' = setting /\ UNCHANGED streamVars
    BY <1>6, Places DEF LookupMisses, LookupValidates, Validates
  <2>2. ~NotBegun' /\ Here /\ BeforeReply
    BY <2>1 DEF NotBegun, BeforeReply, Here
  <2>3. at'[Mine] = "closed" /\ at' = at /\ reader' = reader
    BY <2>1, <2>2, CloseQuiet DEF Slots
  <2> QED
    BY <1>2, <2>1, <2>2, <2>3, SlotsHere
<1>7. CASE LookupRefuses \/ LookupHits \/ JudgeValid \/ RetryThrows
  <2>1. /\ phase \in {"lookup", "judge", "decide"} /\ phase' \in {"decide", "discard", "failing"} /\ hop' = hop
        /\ setting' = setting /\ UNCHANGED streamVars
        /\ phase' = "decide" => phase = "lookup"
    BY <1>7 DEF LookupRefuses, LookupHits, JudgeValid, RetryThrows, Goes
  <2>2. ~NotBegun' /\ Here /\ ~BeforeReply' /\ ~AfterReply'
    BY <2>1 DEF NotBegun, BeforeReply, AfterReply, Here
  <2>3. (phase = "lookup" => at'[Mine] = "closed") /\ at' = at /\ reader' = reader
    BY <2>1, CloseQuiet DEF Slots, BeforeReply
  <2> QED
    BY <1>2, <2>1, <2>2, <2>3, SlotsHere
<1>8. CASE NetProceeds \/ NetInterceptorReturns
  <2>1. /\ phase = "net" /\ phase' \in {"connect", "net", "judge", "undefined"} /\ hop' = hop
        /\ (BeforeReply' => BeforeReply) /\ (AfterReply' => AfterReply)
        /\ setting' = setting /\ UNCHANGED streamVars
    BY <1>8, Places DEF NetProceeds, NetInterceptorReturns
  <2>2. ~NotBegun' /\ (Here' => Here)
    BY <2>1 DEF NotBegun, Here
  <2>3. at' = at /\ reader' = reader /\ (Fresh(Mine) => Fresh(Mine)')
    BY <2>1, CloseQuiet
  <2>4. (BeforeReply => at[Mine] = "closed") /\ (AfterReply => Fresh(Mine))
    BY DEF Slots
  <2> QED
    BY <1>2, <2>1, <2>2, <2>3, <2>4, SlotsHere
<1>9. CASE GetConnection \/ SendRequest \/ ExchangeFails \/ ExchangeTimesOut
  <2>1. /\ phase \in {"connect", "write", "receive"}
        /\ phase' \in {"connect", "write", "receive", "endless", "failing"} /\ hop' = hop
        /\ setting' = setting /\ UNCHANGED streamVars
    BY <1>9 DEF GetConnection, SendRequest, ExchangeFails, ExchangeTimesOut, Throws, Goes
  <2>2. ~NotBegun' /\ Here /\ BeforeReply /\ ~AfterReply'
    BY <2>1 DEF NotBegun, BeforeReply, AfterReply, Here
  <2>3. at'[Mine] = "closed" /\ at' = at /\ reader' = reader
    BY <2>1, <2>2, CloseQuiet DEF Slots
  <2> QED
    BY <1>2, <2>1, <2>2, <2>3, SlotsHere
<1>10. CASE ReceiveResponse
  <2>1. PICK hasLength \in BOOLEAN : Open(Mine, "plain", hasLength)
    BY <1>10 DEF ReceiveResponse
  <2>2. /\ phase = "receive" /\ phase' \in {"judge", "net"} /\ hop' = hop /\ ~BeforeReply'
        /\ setting' = setting /\ Mine' = Mine /\ Other' = Other
    BY <1>10, Places DEF ReceiveResponse, Mine, Other
  <2>3. Fresh(Mine)'
    <3>1. \A s : s = Mine => Fresh(s)'
      BY <1>1, <2>1, OpenStep
    <3> QED
      BY <2>2, <3>1 DEF Fresh
  <2>4. /\ at'[Other] = at[Other]
        /\ \A s \in Stream : reader'[s] = "out"
    <3>1. /\ at' = [at EXCEPT ![Mine] = "open"] /\ reader' = [reader EXCEPT ![Mine] = "out"]
      BY <2>1 DEF Open
    <3> QED
      BY <1>1, <1>2, <2>2, <3>1 DEF Streams, StreamTypes
  <2>5. setting.cache => at[Other] = "closed"
    BY <2>2 DEF Slots, BeforeReply
  <2>6. ~NotBegun'
    BY <2>2 DEF NotBegun
  <2> QED
    BY <2>2, <2>3, <2>4, <2>5, <2>6 DEF Slots
<1>11. CASE JudgeNetwork
  <2>1. /\ phase = "judge" /\ phase' = "decide" /\ hop' = hop /\ setting' = setting
        /\ at' = at /\ reader' = reader /\ answer' \in {FromNetwork(answer, prior), WithCaching(answer, prior)}
    BY <1>11 DEF JudgeNetwork, Goes, streamVars, readerVars
  <2>2. ~NotBegun' /\ ~BeforeReply' /\ ~AfterReply' /\ Here /\ AfterReply
    BY <2>1 DEF NotBegun, BeforeReply, AfterReply, Here
  <2>3. answer' # NoResponse /\ answer'.body = "net"
    BY <2>1, <2>2, FromNetworkIs DEF Is
  <2> QED
    BY <1>2, <2>1, <2>2, <2>3, SlotsHere
<1>12. CASE Discard
  <2>1. /\ phase = "discard" /\ hop' = hop /\ setting' = setting
        /\ \/ BeginClose(Mine) /\ phase' = phase
           \/ UNCHANGED streamVars /\ phase' = "decide" /\ at[Mine] = "closed"
    BY <1>12 DEF Discard, Goes, callVars, progressVars
  <2>2. ~NotBegun' /\ ~BeforeReply' /\ ~AfterReply' /\ Here
    BY <2>1 DEF NotBegun, BeforeReply, AfterReply, Here
  <2>3. /\ \A t \in Stream : at[t] = "closed" => at'[t] = "closed"
        /\ reader' = reader
    BY <2>1, CloseQuiet
  <2> QED
    BY <1>1, <1>2, <2>1, <2>2, <2>3, SlotsHere
<1>13. CASE Assign
  <2>1. /\ phase = "decide" /\ phase' \in {"call", "failed", "returned"} /\ hop' = hop /\ ~NotBegun'
        /\ setting' = setting /\ UNCHANGED streamVars
    BY <1>13, Places DEF Assign
  <2>2. ~BeforeReply' /\ ~AfterReply' /\ ~Here'
    BY <2>1 DEF BeforeReply, AfterReply, Here
  <2> QED
    BY <1>2, <2>1, <2>2, SlotsHere, CloseQuiet
<1>14. CASE Retry
  <2>1. phase = "decide" /\ setting' = setting /\ UNCHANGED streamVars
    BY <1>14 DEF Retry
  <2>2. CASE setting.cache /\ answer.body = "net"
    <3>1. phase' = "drain" /\ hop' = hop
      BY <1>14, <2>2 DEF Retry
    <3>2. ~NotBegun' /\ ~BeforeReply' /\ ~AfterReply' /\ Here
      BY <2>1, <3>1 DEF NotBegun, BeforeReply, AfterReply, Here
    <3> QED
      BY <1>2, <2>1, <2>2, <3>1, <3>2, SlotsHere, CloseQuiet
  <2>3. CASE ~(setting.cache /\ answer.body = "net")
    <3>1. NextHop
      BY <1>14, <2>3 DEF Retry
    <3>2. setting.cache => at[Mine] = "closed"
      BY <2>1, <2>3 DEF Slots
    <3> QED
      BY <2>1, <3>1, <3>2, SlotsNext
  <2> QED
    BY <2>2, <2>3
<1>15. CASE DrainReads
  <2>1. /\ phase = "drain" /\ phase' = phase /\ hop' = hop /\ setting' = setting
        /\ at' = at /\ reader' = [reader EXCEPT ![Mine] = "in"]
    BY <1>15 DEF DrainReads, BeginRead, callVars, progressVars
  <2>2. ~NotBegun' /\ ~BeforeReply' /\ ~AfterReply' /\ Here
    BY <2>1 DEF NotBegun, BeforeReply, AfterReply, Here
  <2>3. setting.cache
    BY <2>1 DEF Slots
  <2> QED
    BY <1>2, <2>1, <2>2, <2>3, SlotsHere
<1>16. CASE DrainEnds
  <2>1. /\ phase = "drain" /\ reader[Mine] = "out" /\ setting' = setting /\ UNCHANGED streamVars
        /\ \/ at[Mine] = "closed" /\ NextHop
           \/ phase' = "failing" /\ hop' = hop
    BY <1>16 DEF DrainEnds
  <2>2. CASE at[Mine] = "closed" /\ NextHop
    BY <2>1, <2>2, SlotsNext
  <2>3. CASE phase' = "failing" /\ hop' = hop
    <3>1. ~NotBegun' /\ ~BeforeReply' /\ ~AfterReply' /\ ~Here'
      BY <2>3 DEF NotBegun, BeforeReply, AfterReply, Here
    <3> QED
      BY <1>2, <2>1, <2>3, <3>1, SlotsHere, CloseQuiet
  <2> QED
    BY <2>1, <2>2, <2>3
<1>17. CASE Fail
  <2>1. /\ phase = "failing" /\ hop' = hop /\ setting' = setting /\ ~NotBegun'
        /\ \/ BeginClose(Mine) /\ phase' = phase
           \/ UNCHANGED streamVars /\ phase' \in {"call", "failed", "returned"}
    <3>1. CASE BeginClose(Mine) /\ UNCHANGED callVars
      BY <1>17, <3>1 DEF Fail, callVars, progressVars, NotBegun
    <3>2. CASE ~(BeginClose(Mine) /\ UNCHANGED callVars)
      BY <1>17, <3>2, Places DEF Fail
    <3> QED
      BY <3>1, <3>2
  <2>2. ~BeforeReply' /\ ~AfterReply' /\ ~Here'
    BY <2>1 DEF BeforeReply, AfterReply, Here
  <2> QED
    BY <1>2, <2>1, <2>2, SlotsHere, CloseQuiet
<1>18. CASE UserReads
  <2>1. /\ phase = "returned" /\ phase' = phase /\ hop' = hop /\ setting' = setting /\ at' = at
    BY <1>18 DEF UserReads, InHand, BeginRead, callVars, progressVars
  <2>2. ~NotBegun' /\ ~BeforeReply' /\ ~AfterReply' /\ ~Here'
    BY <2>1 DEF NotBegun, BeforeReply, AfterReply, Here
  <2> QED
    BY <2>1, <2>2, SlotsHere
<1>19. CASE Release
  <2>1. /\ phase' = "releasing" /\ hop' = hop /\ setting' = setting /\ UNCHANGED streamVars
        /\ \A s \in Stream : reader[s] = "out"
    BY <1>19 DEF Release, Goes
  <2>2. ~NotBegun' /\ ~BeforeReply' /\ ~AfterReply' /\ ~Here'
    BY <2>1 DEF NotBegun, BeforeReply, AfterReply, Here
  <2> QED
    BY <2>1, <2>2, SlotsHere, CloseQuiet
<1>20. CASE DestroyRest
  <2>1. PICK s \in Stream : BeginClose(s) /\ phase = "releasing" /\ UNCHANGED callVars
    BY <1>20 DEF DestroyRest
  <2>2. /\ phase' = "releasing" /\ hop' = hop /\ setting' = setting /\ reader' = reader
        /\ \A t \in Stream : at[t] = "closed" => at'[t] = "closed"
    BY <2>1 DEF callVars, progressVars, BeginClose, readerVars, Streams, StreamTypes
  <2>3. ~NotBegun' /\ ~BeforeReply' /\ ~AfterReply' /\ ~Here'
    BY <2>2 DEF NotBegun, BeforeReply, AfterReply, Here
  <2> QED
    BY <1>2, <2>1, <2>2, <2>3, SlotsHere
<1>21. CASE StreamStep
  <2>1. PICK s \in Stream : (Reading(s) \/ Closing(s)) /\ UNCHANGED callVars
    BY <1>21 DEF StreamStep
  <2>2. /\ phase' = phase /\ hop' = hop /\ setting' = setting /\ callChain' = callChain /\ netChain' = netChain
        /\ answer' = answer
    BY <2>1 DEF callVars, chainVars, progressVars, engineVars
  <2>3. (NotBegun' <=> NotBegun) /\ (BeforeReply' <=> BeforeReply) /\ (AfterReply' <=> AfterReply) /\ (Here' <=> Here)
    BY <2>2 DEF NotBegun, BeforeReply, AfterReply, Here
  <2>4. /\ \A t \in Stream : at[t] = "closed" => at'[t] = "closed"
        /\ \A t \in Stream : reader[t] = "out" => reader'[t] = "out"
        /\ ~Fresh(s)
        /\ \A t \in Stream \ {s} : Fresh(t) => Fresh(t)'
    BY <2>1, StreamQuiet
  <2>5. AfterReply => Fresh(Mine)'
    <3>1. Mine' = Mine
      BY <2>2 DEF Mine
    <3>2. AfterReply => Mine \in Stream \ {s} /\ Fresh(Mine)
      BY <1>1, <2>4 DEF Slots
    <3>3. \A t : t = Mine /\ AfterReply => Fresh(t)'
      BY <2>4, <3>2
    <3> QED
      BY <3>1, <3>3 DEF Fresh
  <2>6. /\ BeforeReply => at[Mine] = "closed"
        /\ phase = "decide" /\ at[Mine] # "closed" => answer # NoResponse /\ answer.body = "net"
        /\ phase = "drain" => setting.cache
    BY DEF Slots
  <2> QED
    BY <1>1, <1>2, <2>2, <2>3, <2>4, <2>5, <2>6, SlotsHere
<1> QED
  BY <1>3, <1>4, <1>5, <1>6, <1>7, <1>8, <1>9, <1>10, <1>11, <1>12, <1>13, <1>14, <1>15, <1>16, <1>17, <1>18, <1>19,
     <1>20, <1>21 DEF CallNext, Executes

-----------------------------------------------------------------------------
(* The requests of a call and their headers.                                 *)
AreHeaders(h) == DOMAIN h = HeaderName /\ GetValue(h, "Cache-Control", "none") \in Controls

HeadersType == DOMAIN heap = Ref /\ \A ref \in Ref : AreHeaders(heap[ref])

(* Authorization only for its origin, and the caller's only-if-cached.       *)
Trusted(r) == Authorized(r) => OriginOf[r.url] = OriginOf[given.url]
SameRules(r) == given.control = "only-if-cached" => r.control = "only-if-cached"

Sending == {"net", "connect", "write", "receive", "endless", "judge", "discard"}

RequestState ==
  /\ given \in Requests /\ given.headers = "given"
  /\ follow # NoRequest => /\ follow \in Requests /\ follow.headers = "follow" /\ follow.method = "GET"
                           /\ Trusted(follow) /\ SameRules(follow)
  /\ phase \in EngineAtWork /\ hop > 0 => follow # NoRequest
  /\ phase = "drain" => follow # NoRequest
  /\ sent # NoRequest => sent \in Requests /\ Trusted(sent) /\ SameRules(sent)
  /\ sent # NoRequest => phase \in Sending \cup {"decide", "failing", "undefined"}
  /\ phase \in Sending => sent # NoRequest

RequestsInv == HeadersType /\ RequestState

(* Headers that are set, copied or removed.                                  *)
LEMMA HeaderFacts ==
  /\ AreHeaders(NoHeaders) /\ ~Has(NoHeaders, "Authorization")
  /\ NoRequest \notin Requests
  /\ \A h, v : AreHeaders(h) =>
       /\ AreHeaders(Set(h, "Validator", v))
       /\ Has(Set(h, "Validator", v), "Authorization") <=> Has(h, "Authorization")
       /\ GetValue(Set(h, "Validator", v), "Validator", NoUrl) = v
  /\ \A h, from, to : AreHeaders(h) =>
       /\ AreHeaders(RetryHeaders(h, from, to))
       /\ Has(RetryHeaders(h, from, to), "Authorization") =>
            Has(h, "Authorization") /\ OriginOf[from] = OriginOf[to]
<1>1. AreHeaders(NoHeaders) /\ ~Has(NoHeaders, "Authorization")
  BY DEF AreHeaders, NoHeaders, Has, GetValue, HeaderName, Controls
<1>2. NoRequest \notin Requests
  <2>1. \A r \in Requests : "url" \in DOMAIN r
    BY DEF Requests
  <2>2. "url" \notin DOMAIN NoRequest
    BY DEF NoRequest
  <2> QED
    BY <2>1, <2>2
<1>3. ASSUME NEW h, NEW v, AreHeaders(h)
      PROVE  /\ AreHeaders(Set(h, "Validator", v))
             /\ Has(Set(h, "Validator", v), "Authorization") <=> Has(h, "Authorization")
             /\ GetValue(Set(h, "Validator", v), "Validator", NoUrl) = v
  <2> DEFINE g == Set(h, "Validator", v)
  <2>1. DOMAIN g = HeaderName /\ g["Cache-Control"] = h["Cache-Control"] /\ g["Authorization"] = h["Authorization"]
        /\ g["Validator"] = <<v>>
    BY <1>3 DEF AreHeaders, Set, HeaderName
  <2> HIDE DEF g
  <2>2. AreHeaders(g) /\ (Has(g, "Authorization") <=> Has(h, "Authorization"))
    BY <1>3, <2>1 DEF AreHeaders, GetValue, Has
  <2>3. GetValue(g, "Validator", NoUrl) = v
    BY <2>1 DEF GetValue, Has
  <2> QED
    BY <2>2, <2>3 DEF g
<1>4. ASSUME NEW h, NEW from, NEW to, AreHeaders(h)
      PROVE  /\ AreHeaders(RetryHeaders(h, from, to))
             /\ Has(RetryHeaders(h, from, to), "Authorization") =>
                  Has(h, "Authorization") /\ OriginOf[from] = OriginOf[to]
  <2>1. CASE OriginOf[from] = OriginOf[to]
    BY <1>4, <2>1 DEF RetryHeaders
  <2>2. CASE OriginOf[from] # OriginOf[to]
    <3> DEFINE g == [h EXCEPT !["Authorization"] = << >>]
    <3>1. DOMAIN g = HeaderName /\ g["Cache-Control"] = h["Cache-Control"] /\ g["Authorization"] = << >>
      BY <1>4 DEF AreHeaders, HeaderName
    <3>2. RetryHeaders(h, from, to) = g
      BY <2>2 DEF RetryHeaders
    <3> HIDE DEF g
    <3> QED
      BY <1>4, <3>1, <3>2 DEF AreHeaders, GetValue, Has
  <2> QED
    BY <2>1, <2>2
<1> QED
  BY <1>1, <1>2, <1>3, <1>4

(* build() of a builder made from a request.                                 *)
LEMMA BuildFacts ==
  ASSUME NEW r \in Requests, NEW h, AreHeaders(h), NEW ref \in Ref
  PROVE  /\ Build(r, h, ref) \in Requests
         /\ Build(r, h, ref).url = r.url /\ Build(r, h, ref).method = r.method /\ Build(r, h, ref).headers = ref
         /\ Build(r, h, ref).hasBody = r.hasBody
         /\ r.control = "only-if-cached" => Build(r, h, ref).control = "only-if-cached"
<1> DEFINE c == IF r.control # "none" THEN r.control ELSE GetValue(h, "Cache-Control", "none")
<1>1. c \in Controls /\ (r.control = "only-if-cached" => c = "only-if-cached")
  BY DEF AreHeaders, Requests
<1>2. Build(r, h, ref) = [r EXCEPT !.headers = ref, !.control = c]
  BY DEF Build
<1> HIDE DEF c
<1>3. /\ [r EXCEPT !.headers = ref, !.control = c] \in Requests
      /\ [r EXCEPT !.headers = ref, !.control = c].url = r.url
      /\ [r EXCEPT !.headers = ref, !.control = c].method = r.method
      /\ [r EXCEPT !.headers = ref, !.control = c].hasBody = r.hasBody
      /\ [r EXCEPT !.headers = ref, !.control = c].headers = ref
      /\ [r EXCEPT !.headers = ref, !.control = c].control = c
  BY <1>1 DEF Requests
<1> QED
  BY <1>1, <1>2, <1>3

LEMMA SetUrlFacts ==
  ASSUME NEW r \in Requests, NEW url \in Url
  PROVE  /\ SetUrl(r, url) \in Requests /\ SetUrl(r, url).url = url /\ SetUrl(r, url).method = r.method
         /\ SetUrl(r, url).control = r.control
  BY DEF SetUrl, Requests

(* The request of the engine at work.                                        *)
LEMMA CurrentFacts ==
  ASSUME RequestsInv, hop \in Nat, phase \in EngineAtWork
  PROVE  /\ Current \in Requests /\ Current.headers \in {"given", "follow"}
         /\ Trusted(Current) /\ SameRules(Current)
         /\ AreHeaders(heap[Current.headers])
         /\ hop > 0 => Current.method = "GET"
<1>1. CASE hop = 0
  BY <1>1 DEF Current, RequestsInv, RequestState, HeadersType, Trusted, SameRules, Ref
<1>2. CASE hop # 0
  <2>1. hop > 0
    BY <1>2
  <2> QED
    BY <1>2, <2>1 DEF Current, RequestsInv, RequestState, HeadersType, Ref
<1> QED
  BY <1>1, <1>2

(* Steps that leave the requests as they are.                                *)
LEMMA RequestsStay ==
  ASSUME RequestsInv, given' = given, follow' = follow, sent' = sent, heap' = heap,
         phase' \in EngineAtWork /\ hop' > 0 => (phase \in EngineAtWork /\ hop > 0) \/ follow # NoRequest,
         phase' = "drain" => phase = "drain",
         phase' \in Sending => phase \in Sending,
         phase \in Sending \cup {"decide", "failing", "undefined"} =>
           phase' \in Sending \cup {"decide", "failing", "undefined"} \/ sent = NoRequest
  PROVE  RequestsInv'
<1>1. HeadersType'
  BY DEF RequestsInv, HeadersType
<1>2. /\ Trusted(follow)' <=> Trusted(follow)
      /\ SameRules(follow)' <=> SameRules(follow)
      /\ Trusted(sent)' <=> Trusted(sent)
      /\ SameRules(sent)' <=> SameRules(sent)
  BY DEF Trusted, SameRules, Authorized
<1> QED
  BY <1>1, <1>2 DEF RequestsInv, RequestState

(* Steps after which the engine is gone.                                     *)
LEMMA RequestsReset ==
  ASSUME RequestsInv, given' = given, follow' = NoRequest, sent' = NoRequest,
         heap' = [heap EXCEPT !["follow"] = NoHeaders, !["sent"] = NoHeaders],
         phase' \in {"call", "failed", "returned"}
  PROVE  RequestsInv'
<1>1. HeadersType'
  BY HeaderFacts DEF RequestsInv, HeadersType, Ref
<1> QED
  BY <1>1 DEF RequestsInv, RequestState, EngineAtWork, Sending

(* The request goes out as it is.                                            *)
LEMMA RequestsPassBy ==
  ASSUME RequestsInv, Chains, hop \in Nat, LookupMisses
  PROVE  RequestsInv' /\ sent' = Current /\ heap' = heap
<1>1. phase = "lookup" /\ GoesOut(Current) /\ heap' = heap
  BY DEF LookupMisses
<1>2. Current \in Requests /\ Trusted(Current) /\ SameRules(Current)
  BY <1>1, CurrentFacts DEF EngineAtWork
<1>3. /\ sent' = Current /\ given' = given /\ follow' = follow /\ hop' = hop
      /\ phase' \in {"connect", "net"}
  BY <1>1, Places DEF GoesOut
<1>4. /\ given \in Requests /\ given.headers = "given"
      /\ hop > 0 => follow # NoRequest
      /\ follow # NoRequest => /\ follow \in Requests /\ follow.headers = "follow" /\ follow.method = "GET"
                               /\ Trusted(follow) /\ SameRules(follow)
  BY <1>1 DEF RequestsInv, RequestState, EngineAtWork
<1>5. HeadersType'
  BY <1>1 DEF RequestsInv, HeadersType
<1>6. /\ Trusted(follow)' <=> Trusted(follow)
      /\ SameRules(follow)' <=> SameRules(follow)
      /\ Trusted(sent)' <=> Trusted(Current)
      /\ SameRules(sent)' <=> SameRules(Current)
  BY <1>1, <1>3 DEF Trusted, SameRules, Authorized
<1>7. phase' \in Sending /\ phase' # "drain"
  BY <1>3 DEF Sending
<1>9. Current # NoRequest
  BY <1>2, HeaderFacts
<1>8. RequestState'
  BY <1>2, <1>3, <1>4, <1>6, <1>7, <1>9 DEF RequestState
<1> QED
  BY <1>1, <1>3, <1>5, <1>8 DEF RequestsInv

(* A request with a validator, which the engine's own request gets too.      *)
LEMMA RequestsValidate ==
  ASSUME RequestsInv, Chains, hop \in Nat, LookupValidates
  PROVE  /\ RequestsInv' /\ sent'.headers = "sent" /\ sent'.method = Current.method
         /\ Validator(sent)' = Current.url
<1> DEFINE ref == Current.headers
           h == Set(heap[ref], "Validator", Current.url)
           after == [heap EXCEPT ![ref] = h]
<1>1. phase = "lookup" /\ Validates
  BY DEF LookupValidates
<1>2. /\ Current \in Requests /\ ref \in {"given", "follow"} /\ Current.url \in Url
      /\ Trusted(Current) /\ SameRules(Current) /\ AreHeaders(heap[ref])
  BY <1>1, CurrentFacts DEF EngineAtWork, Requests
<1>3. /\ given \in Requests /\ given.headers = "given"
      /\ hop > 0 => follow # NoRequest
      /\ follow # NoRequest => /\ follow \in Requests /\ follow.headers = "follow" /\ follow.method = "GET"
                               /\ Trusted(follow) /\ SameRules(follow)
  BY <1>1 DEF RequestsInv, RequestState, EngineAtWork
<1>4. /\ AreHeaders(h) /\ (Has(h, "Authorization") <=> Has(heap[ref], "Authorization"))
      /\ GetValue(h, "Validator", NoUrl) = Current.url
  BY <1>2, HeaderFacts
<1>5. SetHeader(heap, Current, "Validator", Current.url) = after /\ after[ref] = h
  <2>1. SetHeader(heap, Current, "Validator", Current.url) = after
    BY DEF SetHeader
  <2> QED
    BY <1>2, <2>1 DEF RequestsInv, HeadersType, Ref
<1>6. /\ heap' = [after EXCEPT !["sent"] = h] /\ GoesOut(Build(Current, h, "sent"))
  BY <1>1, <1>5 DEF Validates
<1> DEFINE out == Build(Current, h, "sent")
<1>7. /\ DOMAIN heap = Ref /\ \A x \in Ref : AreHeaders(heap[x])
  BY DEF RequestsInv, HeadersType
<1> HIDE DEF h
<1>8. /\ DOMAIN heap' = Ref /\ heap'["sent"] = h /\ heap'[ref] = h
      /\ \A x \in Ref \ {"sent", ref} : heap'[x] = heap[x]
  BY <1>2, <1>6, <1>7 DEF Ref
<1>9. HeadersType'
  BY <1>4, <1>7, <1>8 DEF HeadersType
<1>10. /\ out \in Requests /\ out.url = Current.url /\ out.method = Current.method /\ out.headers = "sent"
       /\ Current.control = "only-if-cached" => out.control = "only-if-cached"
  BY <1>2, <1>4, BuildFacts DEF Ref
<1> HIDE DEF out
<1>11. /\ sent' = out /\ given' = given /\ follow' = follow /\ hop' = hop /\ phase' \in {"connect", "net"}
  BY <1>1, <1>6, Places DEF GoesOut, out
<1>12. \A x \in Ref \ {"sent"} : Has(heap'[x], "Authorization") <=> Has(heap[x], "Authorization")
  BY <1>4, <1>8
<1>13. /\ follow # NoRequest => Trusted(follow)' /\ SameRules(follow)'
       /\ Trusted(sent)' /\ SameRules(sent)'
  <2>1. follow # NoRequest => Trusted(follow)' /\ SameRules(follow)'
    BY <1>3, <1>11, <1>12 DEF Trusted, SameRules, Authorized, Ref
  <2>2. Trusted(sent)'
    BY <1>2, <1>4, <1>8, <1>10, <1>11 DEF Trusted, Authorized
  <2>3. SameRules(sent)'
    BY <1>2, <1>10, <1>11 DEF SameRules
  <2> QED
    BY <2>1, <2>2, <2>3
<1>14. phase' \in Sending /\ phase' # "drain"
  BY <1>11 DEF Sending
<1>17. out # NoRequest
  BY <1>10, HeaderFacts
<1>15. RequestState'
  BY <1>3, <1>10, <1>11, <1>13, <1>14, <1>17 DEF RequestState
<1>16. Validator(sent)' = Current.url
  BY <1>4, <1>8, <1>10, <1>11 DEF Validator
<1> QED
  BY <1>9, <1>10, <1>11, <1>15, <1>16 DEF RequestsInv

(* The request that follows a redirect.                                      *)
LEMMA RequestsFollow ==
  ASSUME RequestsInv, hop \in Nat, Retry,
         answer.request \in {Current, sent} \ {NoRequest}
  PROVE  RequestsInv'
<1> DEFINE from == answer.request
           to == answer.location
           h == RetryHeaders(heap[from.headers], from.url, to)
           next == Build(SetUrl(from, to), h, "follow")
<1>1. /\ phase = "decide" /\ from.method = "GET" /\ to \in Url
      /\ follow' = next /\ heap' = [heap EXCEPT !["follow"] = h, !["sent"] = NoHeaders]
      /\ sent' = NoRequest /\ given' = given /\ phase' \in {"drain", "create", "failing"}
      /\ hop' \in {hop, hop + 1}
  BY DEF Retry, IsRetry, Accepts, RetryRequest, ExchangeOver, NextHop
<1>2. /\ from \in Requests /\ from.url \in Url /\ Trusted(from) /\ SameRules(from) /\ from.headers \in Ref
      /\ AreHeaders(heap[from.headers])
  <2>1. CASE from = Current
    BY <1>1, <2>1, CurrentFacts DEF EngineAtWork, Requests, Ref
  <2>2. CASE from = sent /\ sent # NoRequest
    BY <2>2 DEF RequestsInv, RequestState, HeadersType, Requests
  <2> QED
    BY <2>1, <2>2
<1>3. given \in Requests /\ given.headers = "given"
  BY DEF RequestsInv, RequestState
<1>4. /\ AreHeaders(h)
      /\ Has(h, "Authorization") => Has(heap[from.headers], "Authorization") /\ OriginOf[from.url] = OriginOf[to]
  BY <1>2, HeaderFacts
<1> HIDE DEF h
<1>5. /\ next \in Requests /\ next.url = to /\ next.method = "GET" /\ next.headers = "follow"
      /\ from.control = "only-if-cached" => next.control = "only-if-cached"
  <2> DEFINE b == SetUrl(from, to)
  <2>1. b \in Requests /\ b.url = to /\ b.method = "GET" /\ b.control = from.control
    BY <1>1, <1>2, SetUrlFacts
  <2> HIDE DEF b
  <2>2. /\ Build(b, h, "follow") \in Requests /\ Build(b, h, "follow").url = to
        /\ Build(b, h, "follow").method = "GET" /\ Build(b, h, "follow").headers = "follow"
        /\ b.control = "only-if-cached" => Build(b, h, "follow").control = "only-if-cached"
    BY <1>1, <1>4, <2>1, BuildFacts DEF Ref
  <2> QED
    BY <2>1, <2>2 DEF b
<1> HIDE DEF next, from, to
<1>6. DOMAIN heap' = Ref /\ heap'["follow"] = h /\ \A x \in Ref : AreHeaders(heap'[x])
  BY <1>1, <1>4, HeaderFacts DEF RequestsInv, HeadersType, Ref
<1>7. Trusted(follow)'
  BY <1>1, <1>2, <1>4, <1>5, <1>6 DEF Trusted, Authorized
<1>8. SameRules(follow)'
  BY <1>1, <1>2, <1>5 DEF SameRules
<1>9. follow' # NoRequest /\ phase' \notin Sending
  BY <1>1, <1>5, HeaderFacts DEF Sending
<1>10. RequestState'
  BY <1>1, <1>3, <1>5, <1>7, <1>8, <1>9 DEF RequestState
<1> QED
  BY <1>6, <1>10 DEF RequestsInv, HeadersType

LEMMA RequestsStep ==
  ASSUME RequestsInv, Chains, Slots, hop \in 0..MaxRetryCount, CallNext,
         phase = "decide" => answer.request \in {Current, sent} \ {NoRequest}
  PROVE  RequestsInv'
<1>0. hop \in Nat
  BY FollowUpsAssumption
<1>1. CASE Retry
  BY <1>0, <1>1, RequestsFollow DEF Retry
<1>2. CASE LookupMisses \/ LookupValidates
  BY <1>0, <1>2, RequestsPassBy, RequestsValidate
<1>3. CASE Assign
  BY <1>3, Places, RequestsReset DEF Assign, ExchangeOver
<1>4. CASE Fail /\ ~(BeginClose(Mine) /\ UNCHANGED callVars)
  BY <1>4, Places, RequestsReset DEF Fail, ExchangeOver
<1>5. CASE Start \/ CallProceeds \/ CallInterceptorReturns
  <2>1. /\ given' = given /\ follow' = follow /\ sent' = sent /\ heap' = heap /\ hop' = hop
        /\ phase \in {"idle", "call"} /\ phase' \in {"create", "call", "failed", "returned", "undefined"}
        /\ phase' = "create" => NotBegun
    BY <1>5, Places DEF Start, CallProceeds, CallInterceptorReturns, requestVars
  <2>2. phase' \in EngineAtWork => hop' = 0
    BY <2>1 DEF Slots, EngineAtWork
  <2> QED
    BY <2>1, <2>2, RequestsStay DEF Sending, EngineAtWork
<1>6. CASE CreateEngine
  <2>1. /\ given' = given /\ follow' = follow /\ sent' = sent /\ heap' = heap
        /\ phase = "create" /\ phase' \in {"failing", "lookup"} /\ hop' \in {0, hop - 1, hop}
        /\ hop' > 0 => hop > 0
    BY <1>0, <1>6 DEF CreateEngine, requestVars, Goes
  <2> QED
    BY <2>1, RequestsStay DEF Sending, EngineAtWork
<1>7. CASE NetProceeds \/ NetInterceptorReturns \/ ReceiveResponse
  <2>1. /\ given' = given /\ follow' = follow /\ sent' = sent /\ heap' = heap /\ hop' = hop
        /\ phase \in {"net", "receive"} /\ phase' \in {"net", "connect", "undefined", "judge"}
    BY <1>7, Places DEF NetProceeds, NetInterceptorReturns, ReceiveResponse, requestVars
  <2> QED
    BY <2>1, RequestsStay DEF Sending, EngineAtWork
<1>8. CASE GetConnection \/ SendRequest \/ ExchangeFails \/ ExchangeTimesOut \/ JudgeNetwork \/ JudgeValid \/ RetryThrows
  <2>1. /\ given' = given /\ follow' = follow /\ sent' = sent /\ heap' = heap /\ hop' = hop
        /\ phase \in {"connect", "write", "receive", "judge", "decide"}
        /\ phase' \in {"connect", "write", "receive", "endless", "failing", "decide", "discard"}
        /\ phase = "decide" => phase' = "failing"
    BY <1>8 DEF GetConnection, SendRequest, ExchangeFails, ExchangeTimesOut, JudgeNetwork, JudgeValid, RetryThrows,
       requestVars, Throws, Goes
  <2> QED
    BY <2>1, RequestsStay DEF Sending, EngineAtWork
<1>9. CASE LookupRefuses \/ LookupHits
  <2>1. /\ given' = given /\ follow' = follow /\ sent' = sent /\ heap' = heap /\ hop' = hop
        /\ phase = "lookup" /\ phase' \in {"failing", "decide"}
    BY <1>9 DEF LookupRefuses, LookupHits, requestVars, Goes
  <2> QED
    BY <2>1, RequestsStay DEF Sending, EngineAtWork
<1>10. CASE Discard \/ DrainEnds \/ Release
  <2>1. /\ given' = given /\ follow' = follow /\ sent' = sent /\ heap' = heap
        /\ \/ phase = "discard" /\ phase' \in {"discard", "decide"} /\ hop' = hop
           \/ phase = "drain" /\ phase' \in {"create", "failing"} /\ hop' \in {hop, hop + 1}
           \/ phase \in {"returned", "failed"} /\ phase' = "releasing" /\ hop' = hop
    BY <1>10 DEF Discard, DrainEnds, Release, NextHop, Goes, requestVars, callVars, progressVars
  <2>2. phase = "drain" => follow # NoRequest
    BY DEF RequestsInv, RequestState
  <2> QED
    BY <2>1, <2>2, RequestsStay DEF Sending, EngineAtWork
<1>11. CASE UNCHANGED <<requestVars, phase, hop>>
  BY <1>11, RequestsStay DEF requestVars
<1>12. CASE \/ CloseEarlier \/ DrainReads \/ DrainCloses \/ UserReads \/ UserCloses \/ DestroyRest \/ Cancel \/ StreamStep
            \/ (BeginClose(Mine) /\ UNCHANGED callVars)
  <2>1. UNCHANGED <<requestVars, phase, hop>>
    BY <1>12 DEF CloseEarlier, DrainReads, DrainCloses, UserReads, UserCloses, DestroyRest, Cancel, StreamStep, callVars,
       progressVars, requestVars
  <2> QED
    BY <1>11, <2>1
<1> QED
  BY <1>1, <1>2, <1>3, <1>4, <1>5, <1>6, <1>7, <1>8, <1>9, <1>10, <1>12 DEF CallNext, Executes

-----------------------------------------------------------------------------
(* The other types, and the responses.                                       *)
CallTypes ==
  /\ setting \in [cache : BOOLEAN, fresh : BOOLEAN]
  /\ body \in {"none", "buffer", "whole", "part", "spent", "bad"}
  /\ sentBody \in {"none", "whole", "rest", "empty"} /\ reused \in {"may", "yes", "no"}
  /\ hop \in 0..MaxRetryCount /\ cancelled \in {"no", "before", "after"}

LEMMA CallTypesStep ==
  ASSUME CallTypes, CallNext
  PROVE  CallTypes'
<1>1. MaxRetryCount \in Nat /\ hop \in 0..MaxRetryCount
  BY FollowUpsAssumption DEF CallTypes
<1>2. CASE Start \/ CallProceeds \/ CallInterceptorReturns \/ LookupRefuses \/ LookupHits
  BY <1>2 DEF CallTypes, Start, CallProceeds, CallInterceptorReturns, LookupRefuses, LookupHits, CallEnds, Goes, requestVars,
     engineVars
<1>3. CASE CreateEngine
  BY <1>1, <1>3 DEF CallTypes, CreateEngine, requestVars, engineVars, Goes
<1>4. CASE LookupMisses \/ LookupValidates
  BY <1>4 DEF CallTypes, LookupMisses, LookupValidates, Validates, GoesOut, Goes
<1>5. CASE NetProceeds \/ NetInterceptorReturns \/ GetConnection \/ ReceiveResponse \/ ExchangeTimesOut
  BY <1>5 DEF CallTypes, NetProceeds, NetInterceptorReturns, GetConnection, ReceiveResponse, ExchangeTimesOut, Throws, Goes,
     requestVars, engineVars
<1>6. CASE SendRequest
  BY <1>6 DEF CallTypes, SendRequest, Written, WrittenOfStream, Throws, Goes, engineVars
<1>7. CASE ExchangeFails
  BY <1>7 DEF CallTypes, ExchangeFails, Rewound, CanReset, Throws, Goes
<1>8. CASE JudgeNetwork \/ JudgeValid \/ RetryThrows \/ Release
  BY <1>8 DEF CallTypes, JudgeNetwork, JudgeValid, RetryThrows, Release, Goes, requestVars, engineVars
<1>9. CASE Assign \/ (Fail /\ ~(BeginClose(Mine) /\ UNCHANGED callVars))
  BY <1>9 DEF CallTypes, Assign, Fail, ExchangeOver, CallEnds, Goes
<1>10. CASE Retry
  BY <1>1, <1>10 DEF CallTypes, Retry, ExchangeOver, NextHop
<1>11. CASE DrainEnds
  BY <1>1, <1>11 DEF CallTypes, DrainEnds, NextHop, requestVars, engineVars
<1>12. CASE Cancel
  BY <1>12 DEF CallTypes, Cancel, requestVars, engineVars
<1>13. CASE \/ CloseEarlier \/ Discard \/ DrainReads \/ DrainCloses \/ UserReads \/ UserCloses \/ DestroyRest \/ StreamStep
            \/ (BeginClose(Mine) /\ UNCHANGED callVars)
  BY <1>13 DEF CallTypes, CloseEarlier, Discard, DrainReads, DrainCloses, UserReads, UserCloses, DestroyRest, StreamStep, Goes,
     callVars, requestVars, engineVars, progressVars
<1> QED
  BY <1>2, <1>3, <1>4, <1>5, <1>6, <1>7, <1>8, <1>9, <1>10, <1>11, <1>12, <1>13 DEF CallNext, Executes

ResponseState ==
  /\ \A r \in {candidate, answer, prior} \ {NoResponse} : IsResponse(r)
  /\ candidate # NoResponse => candidate.code \in {"ok", "redirect"}
  /\ AfterReply => answer # NoResponse /\ answer.request = sent /\ answer.body = "net"
  /\ phase \in {"discard", "decide"} => answer # NoResponse /\ answer.request \in {Current, sent} \ {NoRequest}
  /\ phase \in {"drain", "returned"} => answer # NoResponse

(* Steps that leave the responses as they are.                               *)
LEMMA ResponsesStay ==
  ASSUME ResponseState, candidate' = candidate, answer' = answer, prior' = prior,
         AfterReply' => AfterReply /\ sent' = sent,
         phase' \in {"discard", "decide"} => phase \in {"discard", "decide"} /\ sent' = sent /\ Current' = Current,
         phase' \in {"drain", "returned"} =>
           phase \in {"drain", "returned", "discard", "decide"} \/ answer # NoResponse
  PROVE  ResponseState'
  BY DEF ResponseState

(* Steps that make a response for the caller.                                *)
LEMMA ResponseMade ==
  ASSUME ResponseState, RequestsInv, hop \in Nat, phase \in {"lookup", "judge"}, AfterReply => sent # NoRequest,
         candidate' = candidate, prior' = prior, given' = given, follow' = follow, sent' = sent, hop' = hop,
         phase' \in {"discard", "decide"},
         IsResponse(answer'), answer' # NoResponse,
         answer'.request = Current \/ (AfterReply /\ answer'.request = answer.request)
  PROVE  ResponseState'
<1>1. Current \in Requests /\ Current' = Current /\ Current # NoRequest
  BY CurrentFacts, HeaderFacts DEF EngineAtWork, Current
<1>2. ~AfterReply'
  BY DEF AfterReply
<1> QED
  BY <1>1, <1>2 DEF ResponseState

LEMMA ResponsesStep ==
  ASSUME ResponseState, RequestsInv, Chains, Slots, hop \in Nat, CallNext
  PROVE  ResponseState'
<1>0. /\ answer = NoResponse \/ IsResponse(answer)
      /\ candidate = NoResponse \/ IsResponse(candidate)
      /\ prior = NoResponse \/ IsResponse(prior)
  BY DEF ResponseState
<1>1. CASE Start \/ CallProceeds
  <2>1. /\ candidate' = candidate /\ answer' = answer /\ prior' = prior
        /\ phase' \in {"create", "call", "undefined"}
    BY <1>1, Places DEF Start, CallProceeds, engineVars
  <2>2. ~AfterReply'
    BY <2>1 DEF AfterReply
  <2> QED
    BY <2>1, <2>2, ResponsesStay
<1>2. CASE CallInterceptorReturns
  <2>1. /\ candidate' = candidate /\ prior' = prior /\ answer' \in {answer, NewResponse}
        /\ phase' \in {"call", "failed", "returned"} /\ (phase' = "returned" => answer' # NoResponse)
    BY <1>2, Places DEF CallInterceptorReturns, CallEnds, Goes
  <2>2. ~AfterReply' /\ IsResponse(NewResponse)
    BY <2>1, NewIs DEF AfterReply, Is
  <2> QED
    BY <2>1, <2>2 DEF ResponseState
<1>3. CASE CreateEngine
  <2>1. /\ phase' \in {"failing", "lookup"}
        /\ \/ candidate' = candidate /\ answer' = answer /\ prior' = prior
           \/ candidate' = NoResponse /\ answer' = NoResponse /\ prior' \in {answer, NoResponse}
    BY <1>3 DEF CreateEngine, Goes, engineVars
  <2>2. ~AfterReply'
    BY <2>1 DEF AfterReply
  <2> QED
    BY <2>1, <2>2 DEF ResponseState
<1>4. CASE LookupMisses \/ LookupValidates
  <2>1. /\ answer' = answer /\ prior' = prior /\ (candidate' = candidate \/ candidate' \in Stored)
        /\ phase' \in {"connect", "net"} /\ ~AfterReply' /\ phase = "lookup"
    BY <1>4, Places DEF LookupMisses, LookupValidates, Validates, GoesOut
  <2>2. \A r \in Stored : IsResponse(r) /\ r.code \in {"ok", "redirect"}
    BY <2>1, StoredAre, CurrentFacts DEF EngineAtWork
  <2> QED
    BY <2>1, <2>2 DEF ResponseState
<1>5. CASE LookupRefuses \/ LookupHits
  <2>1. /\ phase = "lookup" /\ candidate' = candidate /\ prior' = prior /\ given' = given /\ follow' = follow /\ sent' = sent
        /\ hop' = hop
        /\ \/ phase' = "failing" /\ answer' = NoResponse
           \/ /\ phase' = "decide"
              /\ \/ answer' = GatewayTimeout(Current, prior)
                 \/ \E r \in Stored : answer' = FromCache(r, NoResponse, Current, prior)
    BY <1>5 DEF LookupRefuses, LookupHits, Goes, requestVars
  <2>2. CASE phase' = "failing" /\ answer' = NoResponse
    BY <2>1, <2>2 DEF ResponseState, AfterReply
  <2>3. CASE phase' = "decide" /\ answer' = GatewayTimeout(Current, prior)
    <3>1. Is(answer', "timeout", NoUrl, "none", Current)
      BY <2>1, <2>3, CurrentFacts, GatewayTimeoutIs DEF EngineAtWork
    <3> QED
      BY <2>1, <2>3, <3>1, ResponseMade DEF Is, AfterReply
  <2>4. ASSUME phase' = "decide", NEW r \in Stored, answer' = FromCache(r, NoResponse, Current, prior)
        PROVE  ResponseState'
    <3>1. Current \in Requests
      BY <2>1, CurrentFacts DEF EngineAtWork
    <3>2. Is(answer', r.code, r.location, "cache", Current)
      BY <2>4, <3>1, StoredAre, FromCacheIs
    <3> QED
      BY <2>1, <2>4, <3>2, ResponseMade DEF Is, AfterReply
  <2> QED
    BY <2>1, <2>2, <2>3, <2>4
<1>6. CASE NetProceeds \/ NetInterceptorReturns
  <2>1. /\ candidate' = candidate /\ answer' = answer /\ prior' = prior /\ sent' = sent
        /\ phase' \in {"connect", "net", "judge", "undefined"} /\ (AfterReply' => AfterReply)
    BY <1>6, Places DEF NetProceeds, NetInterceptorReturns, engineVars, requestVars
  <2> QED
    BY <2>1, ResponsesStay
<1>7. CASE GetConnection \/ SendRequest \/ ExchangeFails \/ ExchangeTimesOut \/ RetryThrows \/ Release
  <2>1. /\ candidate' = candidate /\ answer' = answer /\ prior' = prior
        /\ phase' \in {"connect", "write", "receive", "endless", "failing", "releasing"}
    BY <1>7 DEF GetConnection, SendRequest, ExchangeFails, ExchangeTimesOut, RetryThrows, Release, Throws, Goes, engineVars
  <2>2. ~AfterReply'
    BY <2>1 DEF AfterReply
  <2> QED
    BY <2>1, <2>2, ResponsesStay
<1>8. CASE ReceiveResponse
  <2>1. /\ phase = "receive" /\ answer' \in Replies /\ candidate' = candidate /\ prior' = prior /\ sent' = sent
        /\ phase' \in {"judge", "net"}
    BY <1>8, Places DEF ReceiveResponse, requestVars
  <2>2. sent \in Requests
    BY <2>1 DEF RequestsInv, RequestState, Sending
  <2>3. IsResponse(answer') /\ answer'.request = sent /\ answer'.body = "net" /\ answer' # NoResponse
    BY <2>1, <2>2, RepliesAre, ResponseFacts DEF Is
  <2> QED
    BY <2>1, <2>3 DEF ResponseState
<1>9. CASE JudgeNetwork
  <2>1. /\ phase = "judge" /\ phase' = "decide" /\ candidate' = candidate /\ prior' = prior
        /\ given' = given /\ follow' = follow /\ sent' = sent /\ hop' = hop
        /\ answer' \in {FromNetwork(answer, prior), WithCaching(answer, prior)}
    BY <1>9 DEF JudgeNetwork, Goes, requestVars
  <2>2. AfterReply /\ sent # NoRequest /\ IsResponse(answer)
    BY <1>0, <2>1 DEF AfterReply, ResponseState, RequestsInv, RequestState, Sending
  <2>3. IsResponse(answer') /\ answer' # NoResponse /\ answer'.request = answer.request
    BY <2>1, <2>2, FromNetworkIs DEF Is
  <2> QED
    BY <2>1, <2>2, <2>3, ResponseMade
<1>10. CASE JudgeValid
  <2>1. /\ phase = "judge" /\ candidate # NoResponse /\ candidate' = candidate /\ prior' = prior
        /\ given' = given /\ follow' = follow /\ sent' = sent /\ hop' = hop
        /\ \/ answer' = FromCache(candidate, answer, Current, prior) /\ phase' = "discard"
           \/ answer' = NoResponse /\ phase' = "failing"
    BY <1>10 DEF JudgeValid, Goes, requestVars
  <2>2. CASE answer' = NoResponse /\ phase' = "failing"
    BY <2>1, <2>2 DEF ResponseState, AfterReply
  <2>3. CASE answer' = FromCache(candidate, answer, Current, prior) /\ phase' = "discard"
    <3>1. sent # NoRequest /\ IsResponse(candidate) /\ Current \in Requests
      BY <1>0, <2>1, CurrentFacts DEF RequestsInv, RequestState, Sending, EngineAtWork
    <3>2. Is(answer', candidate.code, candidate.location, "cache", Current)
      BY <2>3, <3>1, FromCacheIs
    <3> QED
      BY <2>1, <2>3, <3>1, <3>2, ResponseMade DEF Is
  <2> QED
    BY <2>1, <2>2, <2>3
<1>11. CASE Assign
  <2>1. /\ phase = "decide" /\ candidate' = NoResponse /\ prior' = NoResponse
        /\ answer' = SetBody(SetCode(NewResponse, answer.code), answer.body)
        /\ phase' \in {"call", "failed", "returned"}
    BY <1>11, Places DEF Assign, ExchangeOver
  <2>2. answer.code \in {"ok", "redirect", "notModified", "timeout"} /\ answer.body \in {"none", "net", "cache"}
    BY <1>0, <2>1 DEF ResponseState, IsResponse
  <2>3. IsResponse(answer') /\ answer' # NoResponse
    <3> DEFINE a == SetCode(NewResponse, answer.code)
    <3>1. IsResponse(a)
      BY <2>2, NewIs, SetCodeIs DEF Is
    <3> HIDE DEF a
    <3>2. Is(SetBody(a, answer.body), a.code, a.location, answer.body, a.request)
      BY <2>2, <3>1, SetBodyIs
    <3> QED
      BY <2>1, <3>2 DEF Is, a
  <2> QED
    BY <2>1, <2>3 DEF ResponseState, AfterReply
<1>12. CASE Fail /\ ~(BeginClose(Mine) /\ UNCHANGED callVars)
  <2>1. /\ candidate' = NoResponse /\ prior' = NoResponse /\ answer' = NoResponse
        /\ phase' \in {"call", "failed"}
    BY <1>12 DEF Fail, ExchangeOver, CallEnds, Goes
  <2> QED
    BY <2>1 DEF ResponseState, AfterReply
<1>13. CASE Retry
  <2>1. /\ candidate' = NoResponse /\ answer' = answer /\ prior' = prior /\ phase = "decide"
        /\ phase' \in {"drain", "create", "failing"}
    BY <1>13 DEF Retry, ExchangeOver, NextHop
  <2> QED
    BY <1>0, <2>1 DEF ResponseState, AfterReply
<1>14. CASE DrainEnds
  <2>1. /\ candidate' = candidate /\ answer' = answer /\ prior' = prior /\ phase' \in {"create", "failing"}
    BY <1>14 DEF DrainEnds, NextHop, engineVars
  <2> QED
    BY <2>1, ResponsesStay DEF AfterReply
<1>15. CASE \/ CloseEarlier \/ Discard \/ DrainReads \/ DrainCloses \/ UserReads \/ UserCloses \/ DestroyRest \/ Cancel
            \/ StreamStep \/ (BeginClose(Mine) /\ UNCHANGED callVars)
  <2>1. /\ candidate' = candidate /\ answer' = answer /\ prior' = prior /\ sent' = sent /\ netChain' = netChain
        /\ given' = given /\ follow' = follow /\ hop' = hop
        /\ phase' = phase \/ (phase = "discard" /\ phase' = "decide")
    BY <1>15 DEF CloseEarlier, Discard, DrainReads, DrainCloses, UserReads, UserCloses, DestroyRest, Cancel, StreamStep, Goes,
       callVars, requestVars, engineVars, progressVars, chainVars
  <2>2. Current' = Current /\ (AfterReply' => AfterReply)
    BY <2>1 DEF Current, AfterReply
  <2> QED
    BY <2>1, <2>2, ResponsesStay
<1> QED
  BY <1>1, <1>2, <1>3, <1>4, <1>5, <1>6, <1>7, <1>8, <1>9, <1>10, <1>11, <1>12, <1>13, <1>14, <1>15 DEF CallNext, Executes

-----------------------------------------------------------------------------
(* The first request stays the caller's.                                     *)
GivenIsFresh == setting.fresh => Validator(given) \in {NoUrl, Own}

AtWork == BeforeReply \/ AfterReply

AsGiven ==
  /\ NotBegun => GivenIsFresh /\ candidate = NoResponse
  /\ phase \in {"create", "lookup", "drain"} => candidate = NoResponse
  /\ hop = 0 /\ candidate = NoResponse /\ (AtWork \/ phase = "create") => GivenIsFresh
  /\ hop = 0 /\ candidate = NoResponse /\ AtWork /\ phase # "lookup" => sent = given
  /\ setting.fresh /\ hop = 0 /\ answer # NoResponse /\ answer.code = "notModified"
       /\ ((AfterReply /\ candidate = NoResponse) \/ phase \in {"idle", "discard", "decide", "call", "returned"})
       => Validator(given) = Own

LEMMA AsGivenStay ==
  ASSUME AsGiven, hop' = hop, setting' = setting, given' = given, given.headers = "given", heap'["given"] = heap["given"],
         candidate' = candidate, sent' = sent,
         answer' = answer \/ answer' = NoResponse \/ answer'.code # "notModified",
         NotBegun' => NotBegun,
         phase' \in {"create", "lookup", "drain"} => NotBegun \/ phase \in {"create", "lookup", "drain"},
         AtWork' \/ phase' = "create" => NotBegun \/ AtWork \/ phase = "create",
         AtWork' /\ phase' # "lookup" => AtWork /\ phase # "lookup",
         AfterReply' => AfterReply,
         phase' \in {"idle", "discard", "decide", "call", "returned"} =>
           \/ phase \in {"idle", "discard", "decide", "call", "returned"}
           \/ AfterReply /\ candidate = NoResponse
           \/ answer' = NoResponse \/ answer'.code # "notModified"
  PROVE  AsGiven'
<1>1. Validator(given)' = Validator(given)
  BY DEF Validator
<1>2. GivenIsFresh' <=> GivenIsFresh
  BY <1>1 DEF GivenIsFresh
<1>3. /\ NotBegun' => GivenIsFresh' /\ candidate' = NoResponse
      /\ phase' \in {"create", "lookup", "drain"} => candidate' = NoResponse
  BY <1>2 DEF AsGiven
<1>4. hop' = 0 /\ candidate' = NoResponse /\ (AtWork' \/ phase' = "create") => GivenIsFresh'
  BY <1>2 DEF AsGiven
<1>5. hop' = 0 /\ candidate' = NoResponse /\ AtWork' /\ phase' # "lookup" => sent' = given'
  BY DEF AsGiven
<1>6. setting'.fresh /\ hop' = 0 /\ answer' # NoResponse /\ answer'.code = "notModified"
        /\ ((AfterReply' /\ candidate' = NoResponse) \/ phase' \in {"idle", "discard", "decide", "call", "returned"})
        => Validator(given)' = Own
  BY <1>1 DEF AsGiven
<1> QED
  BY <1>3, <1>4, <1>5, <1>6 DEF AsGiven

LEMMA AsGivenStep ==
  ASSUME AsGiven, ResponseState, RequestsInv, Chains, Slots, hop \in Nat, CallNext
  PROVE  AsGiven'
<1>0. given.headers = "given" /\ given \in Requests /\ DOMAIN heap = Ref
  BY DEF RequestsInv, RequestState, HeadersType
<1>1. CASE Start \/ CallProceeds \/ CallInterceptorReturns
  <2>1. /\ hop' = hop /\ setting' = setting /\ given' = given /\ heap' = heap /\ candidate' = candidate /\ sent' = sent
        /\ answer' \in {answer, NewResponse} /\ phase \in {"idle", "call"}
        /\ phase' \in {"create", "call", "failed", "returned", "undefined"}
        /\ (NotBegun \/ phase = "call") /\ (NotBegun' => NotBegun) /\ (phase' = "create" => NotBegun)
    BY <1>1, Places DEF Start, CallProceeds, CallInterceptorReturns, requestVars, engineVars
  <2>2. ~AtWork' /\ ~AfterReply' /\ NewResponse.code = "ok"
    BY <2>1 DEF AtWork, BeforeReply, AfterReply, NewResponse
  <2> QED
    BY <1>0, <2>1, <2>2, AsGivenStay
<1>2. CASE CreateEngine
  <2>1. CASE cancelled # "no"
    <3>1. phase' = "failing"
      BY <1>2, <2>1 DEF CreateEngine
    <3> QED
      BY <3>1 DEF AsGiven, AtWork, NotBegun, BeforeReply, AfterReply
  <2>2. CASE cancelled = "no"
    <3>1. /\ phase = "create" /\ phase' = "lookup" /\ hop' = hop /\ setting' = setting /\ given' = given /\ heap' = heap
          /\ candidate' = NoResponse /\ answer' = NoResponse
      BY <1>2, <2>2 DEF CreateEngine, Goes, requestVars
    <3>2. GivenIsFresh' <=> GivenIsFresh
      BY <3>1 DEF GivenIsFresh, Validator
    <3> QED
      BY <3>1, <3>2 DEF AsGiven, NotBegun
  <2> QED
    BY <2>1, <2>2
<1>3. CASE LookupMisses
  <2>1. /\ phase = "lookup" /\ phase' \in {"connect", "net"} /\ hop' = hop /\ ~AfterReply' /\ setting' = setting
        /\ given' = given /\ heap' = heap /\ candidate' = candidate /\ sent' = Current
    BY <1>3, Places DEF LookupMisses, GoesOut
  <2>2. (GivenIsFresh' <=> GivenIsFresh) /\ AtWork /\ ~NotBegun' /\ (hop = 0 => Current = given)
    BY <2>1 DEF GivenIsFresh, Validator, AtWork, BeforeReply, NotBegun, Current
  <2> QED
    BY <2>1, <2>2 DEF AsGiven
<1>4. CASE LookupValidates
  <2>1. /\ phase = "lookup" /\ phase' \in {"connect", "net"} /\ ~AfterReply' /\ candidate' \in Stored
    BY <1>4, Places DEF LookupValidates, Validates
  <2>2. candidate' # NoResponse /\ ~NotBegun'
    BY <2>1, StoredAre, CurrentFacts, ResponseFacts DEF EngineAtWork, NotBegun, Is
  <2> QED
    BY <2>1, <2>2 DEF AsGiven
<1>5. CASE LookupRefuses \/ LookupHits
  <2>1. /\ phase = "lookup" /\ hop' = hop /\ setting' = setting /\ given' = given /\ heap' = heap /\ candidate' = candidate
        /\ sent' = sent /\ phase' \in {"failing", "decide"}
        /\ \/ answer' = NoResponse
           \/ answer' = GatewayTimeout(Current, prior)
           \/ \E r \in Stored : answer' = FromCache(r, NoResponse, Current, prior)
    BY <1>5 DEF LookupRefuses, LookupHits, Goes, requestVars
  <2>2. Current \in Requests
    BY <2>1, CurrentFacts DEF EngineAtWork
  <2>3. answer' = NoResponse \/ answer'.code # "notModified"
    <3>1. ASSUME NEW r \in Stored, answer' = FromCache(r, NoResponse, Current, prior) PROVE answer'.code # "notModified"
      <4>1. Is(answer', r.code, r.location, "cache", Current) /\ r.code \in {"ok", "redirect"}
        BY <2>2, <3>1, StoredAre, FromCacheIs
      <4> QED
        BY <4>1 DEF Is
    <3>2. answer' = GatewayTimeout(Current, prior) => answer'.code = "timeout"
      BY <2>2, GatewayTimeoutIs DEF Is
    <3> QED
      BY <2>1, <3>1, <3>2
  <2>4. ~NotBegun' /\ ~AtWork' /\ ~AfterReply'
    BY <2>1 DEF NotBegun, AtWork, BeforeReply, AfterReply
  <2> QED
    BY <1>0, <2>1, <2>3, <2>4, AsGivenStay
<1>6. CASE NetProceeds \/ NetInterceptorReturns
  <2>1. /\ hop' = hop /\ setting' = setting /\ given' = given /\ heap' = heap /\ candidate' = candidate /\ sent' = sent
        /\ answer' = answer /\ phase = "net" /\ phase' \in {"connect", "net", "judge", "undefined"}
        /\ (AfterReply' => AfterReply) /\ (BeforeReply' => BeforeReply)
    BY <1>6, Places DEF NetProceeds, NetInterceptorReturns, requestVars, engineVars
  <2>2. ~NotBegun' /\ (AtWork' => AtWork)
    BY <2>1 DEF NotBegun, AtWork
  <2> QED
    BY <1>0, <2>1, <2>2, AsGivenStay
<1>7. CASE GetConnection \/ SendRequest \/ ExchangeFails \/ ExchangeTimesOut
  <2>1. /\ hop' = hop /\ setting' = setting /\ given' = given /\ heap' = heap /\ candidate' = candidate /\ sent' = sent
        /\ answer' = answer /\ phase \in {"connect", "write", "receive"}
        /\ phase' \in {"connect", "write", "receive", "endless", "failing"}
    BY <1>7 DEF GetConnection, SendRequest, ExchangeFails, ExchangeTimesOut, Throws, Goes, requestVars, engineVars
  <2>2. ~NotBegun' /\ AtWork /\ ~AfterReply'
    BY <2>1 DEF NotBegun, AtWork, BeforeReply, AfterReply
  <2> QED
    BY <1>0, <2>1, <2>2, AsGivenStay
<1>8. CASE ReceiveResponse
  <2>1. /\ phase = "receive" /\ phase' \in {"judge", "net"} /\ hop' = hop /\ setting' = setting /\ given' = given
        /\ heap' = heap /\ candidate' = candidate /\ sent' = sent /\ answer' \in Replies
    BY <1>8, Places DEF ReceiveResponse, requestVars
  <2>2. /\ Validator(given)' = Validator(given) /\ (GivenIsFresh' <=> GivenIsFresh) /\ AtWork /\ ~NotBegun'
        /\ phase # "lookup"
    BY <2>1 DEF GivenIsFresh, Validator, AtWork, BeforeReply, NotBegun
  <2>3. answer'.code = "notModified" => Validator(sent) # NoUrl
    <3>1. sent \in Requests
      BY <2>1 DEF RequestsInv, RequestState, Sending
    <3> QED
      BY <2>1, <3>1, RepliesAre
  <2>4. setting.fresh /\ hop = 0 /\ candidate = NoResponse /\ answer'.code = "notModified" => Validator(given) = Own
    BY <2>2, <2>3 DEF AsGiven, GivenIsFresh
  <2> QED
    BY <2>1, <2>2, <2>4 DEF AsGiven
<1>9. CASE JudgeNetwork \/ JudgeValid
  <2>1. /\ phase = "judge" /\ phase' \in {"decide", "discard", "failing"} /\ hop' = hop /\ setting' = setting
        /\ given' = given /\ heap' = heap /\ candidate' = candidate /\ sent' = sent
        /\ \/ answer' = NoResponse
           \/ candidate # NoResponse /\ answer' = FromCache(candidate, answer, Current, prior)
           \/ /\ answer' \in {FromNetwork(answer, prior), WithCaching(answer, prior)}
              /\ candidate # NoResponse => answer.code # "notModified"
    BY <1>9 DEF JudgeNetwork, JudgeValid, Goes, requestVars
  <2>2. AfterReply /\ AtWork /\ IsResponse(answer) /\ Current \in Requests
    BY <2>1, CurrentFacts DEF AfterReply, AtWork, ResponseState, EngineAtWork
  <2>3. \/ answer' = NoResponse \/ answer'.code # "notModified"
        \/ candidate = NoResponse /\ answer'.code = answer.code
    <3>1. CASE candidate # NoResponse /\ answer' = FromCache(candidate, answer, Current, prior)
      <4>1. IsResponse(candidate) /\ candidate.code \in {"ok", "redirect"}
        BY <3>1 DEF ResponseState
      <4>2. Is(answer', candidate.code, candidate.location, "cache", Current)
        BY <2>2, <3>1, <4>1, FromCacheIs
      <4> QED
        BY <4>1, <4>2 DEF Is
    <3>2. CASE answer' \in {FromNetwork(answer, prior), WithCaching(answer, prior)} /\
               (candidate # NoResponse => answer.code # "notModified")
      <4>1. answer'.code = answer.code
        BY <2>2, <3>2, FromNetworkIs DEF Is
      <4> QED
        BY <3>2, <4>1
    <3> QED
      BY <2>1, <3>1, <3>2
  <2>4. ~NotBegun' /\ ~AtWork' /\ ~AfterReply'
    BY <2>1 DEF NotBegun, AtWork, BeforeReply, AfterReply
  <2>5. Validator(given)' = Validator(given) /\ answer # NoResponse
    BY <2>1, <2>2 DEF Validator, ResponseState
  <2> QED
    BY <2>1, <2>2, <2>3, <2>4, <2>5 DEF AsGiven
<1>10. CASE Assign
  <2>1. /\ phase = "decide" /\ phase' \in {"call", "failed", "returned"} /\ hop' = hop /\ ~NotBegun' /\ setting' = setting
        /\ given' = given /\ heap' = [heap EXCEPT !["follow"] = NoHeaders, !["sent"] = NoHeaders]
        /\ answer' = SetBody(SetCode(NewResponse, answer.code), answer.body)
    BY <1>10, Places DEF Assign
  <2>2. heap'["given"] = heap["given"]
    BY <1>0, <2>1 DEF Ref
  <2>3. Validator(given)' = Validator(given)
    BY <1>0, <2>1, <2>2 DEF Validator
  <2>4. answer'.code = answer.code /\ answer # NoResponse
    <3>1. /\ answer # NoResponse /\ answer.code \in {"ok", "redirect", "notModified", "timeout"}
          /\ answer.body \in {"none", "net", "cache"}
      BY <2>1 DEF ResponseState, IsResponse
    <3> DEFINE a == SetCode(NewResponse, answer.code)
    <3>2. IsResponse(a) /\ a.code = answer.code
      BY <3>1, NewIs, SetCodeIs DEF Is
    <3> HIDE DEF a
    <3>3. Is(SetBody(a, answer.body), a.code, a.location, answer.body, a.request)
      BY <3>1, <3>2, SetBodyIs
    <3> QED
      BY <2>1, <3>1, <3>2, <3>3 DEF Is, a
  <2>5. ~AtWork' /\ ~AfterReply'
    BY <2>1 DEF AtWork, BeforeReply, AfterReply
  <2> QED
    BY <2>1, <2>3, <2>4, <2>5 DEF AsGiven
<1>11. CASE Fail /\ ~(BeginClose(Mine) /\ UNCHANGED callVars)
  <2>1. answer' = NoResponse /\ ~NotBegun' /\ phase' \in {"call", "failed", "returned"}
    BY <1>11, Places DEF Fail
  <2> QED
    BY <2>1 DEF AsGiven, AtWork, BeforeReply, AfterReply
<1>12. CASE Retry
  <2>1. /\ candidate' = NoResponse /\ (phase' = "create" => hop' = hop + 1)
        /\ phase' \in {"drain", "create", "failing"}
    BY <1>12 DEF Retry, ExchangeOver, NextHop
  <2>2. ~NotBegun' /\ ~AtWork' /\ ~AfterReply' /\ hop + 1 # 0
    BY <2>1 DEF NotBegun, AtWork, BeforeReply, AfterReply
  <2> QED
    BY <2>1, <2>2 DEF AsGiven
<1>13. CASE DrainEnds
  <2>1. /\ phase = "drain" /\ candidate' = candidate /\ phase' \in {"create", "failing"}
        /\ (phase' = "create" => hop' = hop + 1)
    BY <1>13 DEF DrainEnds, NextHop, engineVars
  <2>2. ~NotBegun' /\ ~AtWork' /\ ~AfterReply' /\ hop + 1 # 0
    BY <2>1 DEF NotBegun, AtWork, BeforeReply, AfterReply
  <2> QED
    BY <2>1, <2>2 DEF AsGiven
<1>14. CASE RetryThrows \/ Release
  <2>1. phase' \in {"failing", "releasing"}
    BY <1>14 DEF RetryThrows, Release, Goes
  <2> QED
    BY <2>1 DEF AsGiven, NotBegun, AtWork, BeforeReply, AfterReply
<1>15. CASE \/ CloseEarlier \/ Discard \/ DrainReads \/ DrainCloses \/ UserReads \/ UserCloses \/ DestroyRest \/ Cancel
            \/ StreamStep \/ (BeginClose(Mine) /\ UNCHANGED callVars)
  <2>1. /\ hop' = hop /\ setting' = setting /\ given' = given /\ heap' = heap /\ candidate' = candidate /\ sent' = sent
        /\ answer' = answer /\ callChain' = callChain /\ netChain' = netChain
        /\ phase' = phase \/ (phase = "discard" /\ phase' = "decide")
    BY <1>15 DEF CloseEarlier, Discard, DrainReads, DrainCloses, UserReads, UserCloses, DestroyRest, Cancel, StreamStep, Goes,
       callVars, requestVars, engineVars, progressVars, chainVars
  <2>2. (NotBegun' => NotBegun) /\ (AtWork' => AtWork) /\ (AfterReply' => AfterReply)
    BY <2>1 DEF NotBegun, AtWork, BeforeReply, AfterReply
  <2> QED
    BY <1>0, <2>1, <2>2, AsGivenStay
<1> QED
  BY <1>1, <1>2, <1>3, <1>4, <1>5, <1>6, <1>7, <1>8, <1>9, <1>10, <1>11, <1>12, <1>13, <1>14, <1>15 DEF CallNext, Executes

(* Outside the cache keeps nothing that it could have answered.              *)
LEMMA OnlyIfCachedStep ==
  ASSUME OnlyIfCachedStaysHome, RequestsInv, Chains, hop \in Nat, CallNext
  PROVE  OnlyIfCachedStaysHome'
<1>1. CASE LookupMisses
  <2>1. /\ phase = "lookup" /\ given' = given /\ setting' = setting
        /\ IsAvailableToCache => ~OnlyIfCached
    BY <1>1 DEF LookupMisses, GoesOut
  <2>2. sent' = Current /\ heap' = heap
    BY <1>1, RequestsPassBy
  <2>3. given.control = "only-if-cached" => OnlyIfCached
    BY <2>1, CurrentFacts DEF EngineAtWork, SameRules, OnlyIfCached
  <2>4. /\ Authorized(sent)' <=> Authorized(Current)
        /\ Validator(sent)' = Validator(Current)
    BY <2>2 DEF Authorized, Validator
  <2> QED
    BY <2>1, <2>2, <2>3, <2>4 DEF OnlyIfCachedStaysHome, IsAvailableToCache
<1>2. CASE LookupValidates
  <2>1. phase = "lookup" /\ ~OnlyIfCached /\ given' = given
    BY <1>2 DEF LookupValidates, Validates, GoesOut
  <2>2. given.control # "only-if-cached"
    BY <2>1, CurrentFacts DEF EngineAtWork, SameRules, OnlyIfCached
  <2> QED
    BY <2>1, <2>2 DEF OnlyIfCachedStaysHome
<1>3. ASSUME given' = given, setting' = setting, sent' = sent, heap' = heap, Outside' => Outside
      PROVE  OnlyIfCachedStaysHome'
  <2>1. /\ Authorized(sent)' <=> Authorized(sent)
        /\ Validator(sent)' = Validator(sent)
    BY <1>3 DEF Authorized, Validator
  <2> QED
    BY <1>3, <2>1 DEF OnlyIfCachedStaysHome
<1>4. ASSUME phase' \notin {"net", "connect", "write", "receive"}
      PROVE  OnlyIfCachedStaysHome'
  BY <1>4 DEF OnlyIfCachedStaysHome, Outside
<1>5. CASE NetProceeds \/ NetInterceptorReturns \/ GetConnection \/ SendRequest \/ ExchangeFails \/ ReceiveResponse
  BY <1>3, <1>5 DEF NetProceeds, NetInterceptorReturns, GetConnection, SendRequest, ExchangeFails, ReceiveResponse, Outside,
     requestVars
<1>6. CASE Start \/ CallProceeds \/ CallInterceptorReturns \/ CreateEngine \/ LookupRefuses \/ LookupHits \/ ExchangeTimesOut
  <2>1. phase' \notin {"net", "connect", "write", "receive"}
    BY <1>6, Places DEF CreateEngine, LookupRefuses, LookupHits, ExchangeTimesOut, Throws, Goes
  <2> QED
    BY <1>4, <2>1
<1>7. CASE JudgeNetwork \/ JudgeValid \/ Assign \/ Retry \/ RetryThrows \/ DrainEnds \/ Release
  <2>1. phase' \notin {"net", "connect", "write", "receive"}
    BY <1>7, Places DEF JudgeNetwork, JudgeValid, Assign, Retry, RetryThrows, DrainEnds, Release, NextHop, Goes
  <2> QED
    BY <1>4, <2>1
<1>8. CASE Fail /\ ~(BeginClose(Mine) /\ UNCHANGED callVars)
  <2>1. phase' \notin {"net", "connect", "write", "receive"}
    BY <1>8, Places DEF Fail
  <2> QED
    BY <1>4, <2>1
<1>9. CASE \/ CloseEarlier \/ Discard \/ DrainReads \/ DrainCloses \/ UserReads \/ UserCloses \/ DestroyRest \/ Cancel
           \/ StreamStep \/ (BeginClose(Mine) /\ UNCHANGED callVars)
  <2>1. /\ given' = given /\ setting' = setting /\ sent' = sent /\ heap' = heap
        /\ phase' = phase \/ phase' = "decide"
    BY <1>9 DEF CloseEarlier, Discard, DrainReads, DrainCloses, UserReads, UserCloses, DestroyRest, Cancel, StreamStep, Goes,
       callVars, requestVars, progressVars
  <2> QED
    BY <1>3, <2>1 DEF Outside
<1> QED
  BY <1>1, <1>2, <1>5, <1>6, <1>7, <1>8, <1>9 DEF CallNext, Executes

-----------------------------------------------------------------------------
(* The body of a Request that no call has used is whole whenever it is sent. *)
WholeBody ==
  setting.fresh /\ hop = 0 =>
    /\ NotBegun \/ phase = "create" \/ (BeforeReply /\ phase # "receive") => body \in {"none", "buffer", "whole", "bad"}
    /\ phase = "receive" => body \in {"none", "buffer", "spent"} /\ sentBody \in {"none", "whole"}

LEMMA WholeBodyStep ==
  ASSUME WholeBody, Chains, Slots, hop \in Nat, CallNext
  PROVE  WholeBody'
<1> DEFINE Unsent == NotBegun \/ phase = "create" \/ (BeforeReply /\ phase # "receive")
<1>1. ASSUME setting' = setting, hop' = hop, body' = body, Unsent' => Unsent, phase' # "receive"
      PROVE  WholeBody'
  BY <1>1 DEF WholeBody
<1>2. ASSUME phase' \notin {"receive", "create"}, ~NotBegun', ~BeforeReply'
      PROVE  WholeBody'
  BY <1>2 DEF WholeBody
<1>3. CASE Start \/ CallProceeds \/ CallInterceptorReturns
  <2>1. /\ setting' = setting /\ hop' = hop /\ body' = body
        /\ phase' \in {"create", "call", "failed", "returned", "undefined"}
        /\ (NotBegun \/ phase = "call") /\ (NotBegun' => NotBegun) /\ (phase' = "create" => NotBegun)
    BY <1>3, Places DEF Start, CallProceeds, CallInterceptorReturns, requestVars
  <2>2. ~BeforeReply'
    BY <2>1 DEF BeforeReply
  <2> QED
    BY <1>1, <2>1, <2>2
<1>4. CASE CreateEngine
  <2>1. CASE cancelled # "no"
    <3>1. phase' = "failing"
      BY <1>4, <2>1 DEF CreateEngine
    <3> QED
      BY <1>2, <3>1 DEF NotBegun, BeforeReply
  <2>2. CASE cancelled = "no"
    <3>1. phase = "create" /\ phase' = "lookup" /\ setting' = setting /\ hop' = hop /\ body' = body
      BY <1>4, <2>2 DEF CreateEngine, Goes, requestVars
    <3> QED
      BY <1>1, <3>1
  <2> QED
    BY <2>1, <2>2
<1>5. CASE LookupMisses \/ LookupValidates
  <2>1. /\ phase = "lookup" /\ phase' \in {"connect", "net"} /\ hop' = hop /\ setting' = setting /\ body' = body
    BY <1>5, Places DEF LookupMisses, LookupValidates, Validates, GoesOut
  <2> QED
    BY <1>1, <2>1 DEF BeforeReply
<1>6. CASE NetProceeds \/ NetInterceptorReturns
  <2>1. /\ phase' \in {"connect", "net", "judge", "undefined"} /\ hop' = hop /\ setting' = setting /\ body' = body
        /\ (BeforeReply' => BeforeReply) /\ phase = "net"
    BY <1>6, Places DEF NetProceeds, NetInterceptorReturns, requestVars
  <2> QED
    BY <1>1, <2>1 DEF NotBegun
<1>7. CASE GetConnection
  <2>1. /\ phase = "connect" /\ phase' \in {"write", "failing"} /\ hop' = hop /\ setting' = setting /\ body' = body
    BY <1>7 DEF GetConnection, Throws, Goes, requestVars
  <2> QED
    BY <1>1, <2>1 DEF BeforeReply
<1>8. CASE SendRequest
  <2>1. /\ phase = "write" /\ phase' \in {"receive", "endless", "failing"} /\ hop' = hop /\ setting' = setting
        /\ sentBody' = (IF sent.hasBody THEN Written(body) ELSE "none")
        /\ body' = (IF body \in {"whole", "part"} THEN "spent" ELSE body)
        /\ phase' = "receive" => body # "bad"
    BY <1>8 DEF SendRequest, Throws, Goes
  <2>2. CASE phase' = "receive"
    <3>1. ASSUME setting.fresh, hop = 0 PROVE body \in {"none", "buffer", "whole"}
      BY <2>1, <2>2, <3>1 DEF WholeBody, BeforeReply
    <3>2. ASSUME setting.fresh, hop = 0
          PROVE  body' \in {"none", "buffer", "spent"} /\ sentBody' \in {"none", "whole"}
      BY <2>1, <3>1, <3>2 DEF Written, WrittenOfStream
    <3>3. ~NotBegun'
      BY <2>2 DEF NotBegun
    <3> QED
      BY <2>1, <2>2, <3>2, <3>3 DEF WholeBody
  <2>3. CASE phase' # "receive"
    BY <1>2, <2>1, <2>3 DEF NotBegun, BeforeReply
  <2> QED
    BY <2>2, <2>3
<1>9. CASE ExchangeFails
  <2>1. PICK b \in {body} \cup CASE phase = "write" /\ body = "whole" -> {"part", "spent"}
                                 [] phase = "write" /\ body = "part" -> {"spent"}
                                 [] OTHER -> {} :
          IF reused = "yes" /\ cancelled = "no" /\ CanReset(b)
          THEN body' = Rewound(b) /\ reused' = "no" /\ Goes("connect") /\ UNCHANGED netChain
          ELSE body' = b /\ Throws /\ UNCHANGED reused
    BY <1>9 DEF ExchangeFails
  <2>2. phase \in {"write", "receive"} /\ setting' = setting
    BY <1>9 DEF ExchangeFails
  <2>3. CASE CanReset(b) /\ body' = Rewound(b) /\ phase' = "connect" /\ hop' = hop
    <3>1. ASSUME setting.fresh, hop = 0 PROVE body' \in {"none", "buffer", "whole", "bad"}
      <4>1. body \in {"none", "buffer", "whole", "bad", "spent"}
        BY <2>2, <3>1 DEF WholeBody, BeforeReply
      <4>2. b \in {body, "part", "spent"}
        BY <2>1
      <4> QED
        BY <2>3, <4>1, <4>2 DEF CanReset, Rewound
    <3> QED
      BY <2>2, <2>3, <3>1 DEF WholeBody
  <2>4. CASE phase' = "failing"
    BY <1>2, <2>4 DEF NotBegun, BeforeReply
  <2> QED
    BY <2>1, <2>3, <2>4 DEF Throws, Goes
<1>10. CASE LookupRefuses \/ LookupHits \/ ExchangeTimesOut \/ JudgeNetwork \/ JudgeValid \/ RetryThrows \/ Release
  <2>1. phase' \in {"decide", "failing", "discard", "releasing"}
    BY <1>10 DEF LookupRefuses, LookupHits, ExchangeTimesOut, JudgeNetwork, JudgeValid, RetryThrows, Release, Throws, Goes
  <2> QED
    BY <1>2, <2>1 DEF NotBegun, BeforeReply
<1>11. CASE ReceiveResponse
  <2>1. phase' \in {"judge", "net"} /\ ~BeforeReply'
    BY <1>11, Places
  <2> QED
    BY <1>2, <2>1 DEF NotBegun
<1>12. CASE Assign \/ (Fail /\ ~(BeginClose(Mine) /\ UNCHANGED callVars))
  <2>1. phase' \in {"call", "failed", "returned"} /\ ~NotBegun'
    BY <1>12, Places DEF Assign, Fail
  <2> QED
    BY <1>2, <2>1 DEF BeforeReply
<1>13. CASE Retry \/ DrainEnds
  <2>1. phase' \in {"drain", "create", "failing"} /\ (phase' = "create" => hop' = hop + 1)
    BY <1>13 DEF Retry, DrainEnds, NextHop
  <2>2. ~NotBegun' /\ ~BeforeReply' /\ hop + 1 # 0
    BY <2>1 DEF NotBegun, BeforeReply
  <2> QED
    BY <2>1, <2>2 DEF WholeBody
<1>14. CASE \/ CloseEarlier \/ Discard \/ DrainReads \/ DrainCloses \/ UserReads \/ UserCloses \/ DestroyRest \/ Cancel
            \/ StreamStep \/ (BeginClose(Mine) /\ UNCHANGED callVars)
  <2>1. /\ hop' = hop /\ setting' = setting /\ body' = body /\ sentBody' = sentBody
        /\ callChain' = callChain /\ netChain' = netChain
        /\ phase' = phase \/ phase' = "decide"
    BY <1>14 DEF CloseEarlier, Discard, DrainReads, DrainCloses, UserReads, UserCloses, DestroyRest, Cancel, StreamStep, Goes,
       callVars, requestVars, progressVars, chainVars
  <2> QED
    BY <2>1 DEF WholeBody, NotBegun, BeforeReply
<1> QED
  BY <1>3, <1>4, <1>5, <1>6, <1>7, <1>8, <1>9, <1>10, <1>11, <1>12, <1>13, <1>14 DEF CallNext, Executes

-----------------------------------------------------------------------------
(* What holds at each place of a call.                                       *)
FollowUpsInv ==
  /\ Streams /\ Slots /\ Chains /\ CallTypes /\ RequestsInv /\ ResponseState
  /\ AsGiven /\ OnlyIfCachedStaysHome /\ WholeBody

(* The Request that the caller builds.                                       *)
LEMMA GivenFacts ==
  ASSUME NEW c \in Callers,
         given = Build(SetCacheControl(HttpMethod(SetUrl(NewBuilder, c.url), c.method, c.body # "none"),
                                       c.control), c.headers, "given")
  PROVE  given \in Requests /\ given.headers = "given"
<1> DEFINE made == c.body # "none"
           none == FALSE
           b0 == [method |-> "GET", url |-> c.url, hasBody |-> none, control |-> "none", headers |-> "none"]
           b1 == [b0 EXCEPT !.method = c.method, !.hasBody = @ \/ made]
           b2 == [b1 EXCEPT !.control = c.control]
           control == IF c.control # "none" THEN c.control ELSE GetValue(c.headers, "Cache-Control", "none")
<1>1. /\ c.url \in Url /\ c.method \in {"GET", "POST"} /\ c.control \in Controls
      /\ GetValue(c.headers, "Cache-Control", "none") \in Controls
  BY CallersAssumption
<1>2. SetUrl(NewBuilder, c.url) = b0
  <2>1. NewBuilder = [method |-> "GET", url |-> NoUrl, hasBody |-> none, control |-> "none", headers |-> "none"]
    BY Zenon DEF NewBuilder
  <2> HIDE DEF none
  <2>2. [[method |-> "GET", url |-> NoUrl, hasBody |-> none, control |-> "none", headers |-> "none"]
            EXCEPT !.url = c.url] = b0
    OBVIOUS
  <2>3. SetUrl(NewBuilder, c.url) = [NewBuilder EXCEPT !.url = c.url]
    BY Zenon DEF SetUrl
  <2> HIDE DEF b0
  <2> QED
    BY <2>1, <2>2, <2>3, Zenon
<1>3. made \in BOOLEAN /\ none \in BOOLEAN
  <2>1. made = TRUE \/ made = FALSE
    BY Zenon
  <2>2. none \in BOOLEAN
    OBVIOUS
  <2> QED
    BY <2>1, <2>2, Zenon
<1>4. HttpMethod(b0, c.method, made) = b1
  BY DEF HttpMethod
<1>5. control \in Controls
  BY <1>1
<1> HIDE DEF made, none
<1> DEFINE hasBody == none \/ made
<1>6. hasBody \in BOOLEAN
  BY <1>3
<1>7. b1 = [method |-> c.method, url |-> c.url, hasBody |-> hasBody, control |-> "none", headers |-> "none"]
  <2>1. b0.hasBody = none
    OBVIOUS
  <2>2. b1 = [[b0 EXCEPT !.method = c.method] EXCEPT !.hasBody = @ \/ made]
    OBVIOUS
  <2> DEFINE bm == [b0 EXCEPT !.method = c.method]
  <2>3. bm = [method |-> c.method, url |-> c.url, hasBody |-> none, control |-> "none", headers |-> "none"]
    OBVIOUS
  <2>4. bm.hasBody = none
    BY <2>3
  <2> HIDE DEF b0, b1, bm
  <2>5. b1 = [bm EXCEPT !.hasBody = bm.hasBody \/ made]
    BY <2>2 DEF bm
  <2>6. b1 = [bm EXCEPT !.hasBody = hasBody]
    BY <2>4, <2>5, Zenon DEF hasBody
  <2> HIDE DEF hasBody
  <2> QED
    BY <2>3, <2>6
<1> HIDE DEF b0, b1, hasBody
<1>8. b2 = [method |-> c.method, url |-> c.url, hasBody |-> hasBody, control |-> c.control, headers |-> "none"]
  BY <1>7
<1>9. SetCacheControl(b1, c.control) = b2
  BY DEF SetCacheControl
<1> HIDE DEF b2
<1>10. b2.control = c.control
  BY <1>8
<1>11. Build(b2, c.headers, "given") = [b2 EXCEPT !.headers = "given", !.control = control]
  BY <1>10 DEF Build
<1> HIDE DEF control
<1>12. Build(b2, c.headers, "given") =
         [method |-> c.method, url |-> c.url, hasBody |-> hasBody, control |-> control, headers |-> "given"]
  BY <1>8, <1>11
<1>13. given = Build(b2, c.headers, "given")
  BY <1>2, <1>4, <1>9 DEF made
<1> QED
  BY <1>1, <1>5, <1>6, <1>12, <1>13 DEF Requests, Ref

LEMMA FollowUpsInit ==
  ASSUME CallInit
  PROVE  FollowUpsInv
<1>1. PICK c \in Callers :
        /\ setting = c.setting /\ body = c.body
        /\ given = Build(SetCacheControl(HttpMethod(SetUrl(NewBuilder, c.url), c.method, c.body # "none"),
                                         c.control), c.headers, "given")
        /\ heap = [[ref \in Ref |-> NoHeaders] EXCEPT !["given"] = c.headers]
  BY DEF CallInit
<1>2. /\ follow = NoRequest /\ sent = NoRequest /\ sentBody = "none"
      /\ reused = "may" /\ candidate = NoResponse /\ answer = NoResponse /\ prior = NoResponse
      /\ phase = "idle" /\ hop = 0 /\ cancelled = "no"
  BY DEF CallInit
<1>3. /\ c.setting \in [cache : BOOLEAN, fresh : BOOLEAN]
      /\ c.body \in {"none", "buffer", "whole", "part", "spent", "bad"}
      /\ DOMAIN c.headers = HeaderName /\ GetValue(c.headers, "Cache-Control", "none") \in Controls
      /\ c.setting.fresh => /\ GetValue(c.headers, "Validator", NoUrl) \in {NoUrl, Own}
                            /\ c.body \notin {"part", "spent"}
  BY CallersAssumption
<1>4. given \in Requests /\ given.headers = "given"
  BY <1>1, GivenFacts
<1>5. heap["given"] = c.headers /\ HeadersType
  <2>1. DOMAIN heap = Ref /\ heap["given"] = c.headers /\ \A x \in Ref \ {"given"} : heap[x] = NoHeaders
    BY <1>1 DEF Ref
  <2>2. AreHeaders(c.headers)
    BY <1>3 DEF AreHeaders
  <2> QED
    BY <2>1, <2>2, HeaderFacts DEF HeadersType
<1>6. Streams /\ Chains
  BY StreamsInit, ChainsInit DEF CallInit
<1>7. /\ ~BeforeReply /\ ~AfterReply /\ NotBegun /\ phase \notin EngineAtWork /\ phase \notin Sending /\ ~Outside
  BY <1>2 DEF BeforeReply, AfterReply, NotBegun, EngineAtWork, Sending, Outside
<1>8. Slots
  <2>1. \A s \in Stream : at[s] = "closed" /\ reader[s] = "out"
    BY DEF CallInit, StreamInit
  <2> QED
    BY <1>2, <1>7, <2>1 DEF Slots
<1>9. CallTypes
  BY <1>1, <1>2, <1>3, FollowUpsAssumption DEF CallTypes
<1>10. RequestsInv
  BY <1>2, <1>4, <1>5, <1>7 DEF RequestsInv, RequestState
<1>11. ResponseState
  BY <1>2, <1>7 DEF ResponseState
<1>12. AsGiven
  <2>1. Validator(given) = GetValue(c.headers, "Validator", NoUrl)
    BY <1>4, <1>5 DEF Validator
  <2>2. GivenIsFresh
    BY <1>1, <1>3, <2>1 DEF GivenIsFresh
  <2> QED
    BY <1>2, <1>7, <2>2 DEF AsGiven, AtWork
<1>13. OnlyIfCachedStaysHome
  BY <1>7 DEF OnlyIfCachedStaysHome
<1>14. WholeBody
  BY <1>1, <1>2, <1>3, <1>7 DEF WholeBody
<1> QED
  BY <1>6, <1>8, <1>9, <1>10, <1>11, <1>12, <1>13, <1>14 DEF FollowUpsInv

LEMMA FollowUpsStep ==
  ASSUME FollowUpsInv, CallNext
  PROVE  FollowUpsInv'
<1>1. /\ Streams /\ Slots /\ Chains /\ CallTypes /\ RequestsInv /\ ResponseState
      /\ AsGiven /\ OnlyIfCachedStaysHome /\ WholeBody
  BY DEF FollowUpsInv
<1>2. hop \in 0..MaxRetryCount /\ hop \in Nat
  BY <1>1, FollowUpsAssumption DEF CallTypes
<1>3. AfterReply => IsResponse(answer) /\ answer # NoResponse /\ answer.body = "net"
  BY <1>1 DEF ResponseState
<1>4. phase = "decide" => answer.request \in {Current, sent} \ {NoRequest}
  BY <1>1 DEF ResponseState
<1>5. Streams' /\ Slots' /\ Chains'
  BY <1>1, <1>2, <1>3, StreamsStep, SlotsStep, ChainsStep
<1>6. CallTypes' /\ RequestsInv' /\ ResponseState'
  BY <1>1, <1>2, <1>4, CallTypesStep, RequestsStep, ResponsesStep
<1>7. AsGiven' /\ OnlyIfCachedStaysHome' /\ WholeBody'
  BY <1>1, <1>2, AsGivenStep, OnlyIfCachedStep, WholeBodyStep
<1> QED
  BY <1>5, <1>6, <1>7 DEF FollowUpsInv

LEMMA FollowUpsStutter ==
  ASSUME FollowUpsInv, UNCHANGED allVars
  PROVE  FollowUpsInv'
<1>1. /\ Streams /\ Slots /\ Chains /\ CallTypes /\ RequestsInv /\ ResponseState
      /\ AsGiven /\ OnlyIfCachedStaysHome /\ WholeBody
  BY DEF FollowUpsInv
<1>2. /\ setting' = setting /\ given' = given /\ body' = body /\ follow' = follow /\ sent' = sent /\ heap' = heap
      /\ sentBody' = sentBody /\ reused' = reused /\ candidate' = candidate /\ answer' = answer /\ prior' = prior
      /\ phase' = phase /\ hop' = hop /\ cancelled' = cancelled /\ callChain' = callChain /\ netChain' = netChain
      /\ UNCHANGED streamVars
  BY DEF allVars, callVars, requestVars, engineVars, progressVars, chainVars
<1>3. /\ (NotBegun' <=> NotBegun) /\ (BeforeReply' <=> BeforeReply) /\ (AfterReply' <=> AfterReply)
      /\ (Here' <=> Here) /\ (AtWork' <=> AtWork) /\ (Outside' <=> Outside) /\ Current' = Current /\ Mine' = Mine
  BY <1>2 DEF NotBegun, BeforeReply, AfterReply, Here, AtWork, Outside, Current, Mine
<1>4. hop \in Nat /\ given.headers = "given"
  BY <1>1, FollowUpsAssumption DEF CallTypes, RequestsInv, RequestState
<1>5. Streams'
  <2>1. StreamTypes'
    BY <1>1, <1>2 DEF Streams, StreamTypes, streamVars, contentVars, readerVars, fileVars
  <2>2. \A t \in Stream : SameAt(t)
    BY <1>2 DEF SameAt, streamVars, contentVars, readerVars, fileVars
  <2> QED
    BY <1>1, <2>1, <2>2, SameStateOf DEF Streams
<1>6. Slots'
  BY <1>1, <1>2, <1>3, <1>4, CloseQuiet, SlotsHere DEF Slots
<1>7. Chains' /\ CallTypes'
  BY <1>1, <1>2, ChainsStay DEF CallTypes
<1>8. RequestsInv' /\ ResponseState'
  BY <1>1, <1>2, <1>3, RequestsStay, ResponsesStay
<1>9. AsGiven'
  BY <1>1, <1>2, <1>3, <1>4, AsGivenStay
<1>10. OnlyIfCachedStaysHome'
  <2>1. (Authorized(sent)' <=> Authorized(sent)) /\ Validator(sent)' = Validator(sent)
    BY <1>2 DEF Authorized, Validator
  <2> QED
    BY <1>1, <1>2, <1>3, <2>1 DEF OnlyIfCachedStaysHome
<1>11. WholeBody'
  BY <1>1, <1>2, <1>3 DEF WholeBody
<1> QED
  BY <1>5, <1>6, <1>7, <1>8, <1>9, <1>10, <1>11 DEF FollowUpsInv

-----------------------------------------------------------------------------
(* The responses before a response.                                          *)
LEMMA LeastNumber ==
  ASSUME NEW B \in SUBSET Nat, B # {}
  PROVE  \E m \in B : \A i \in B : m <= i
<1> DEFINE Below(i) == 0..i
           Belows == {Below(i) : i \in B}
           Finite == FiniteSubsetsOf(Nat)
           Smaller == StrictSubsetOrdering(Nat)
<1>1. \A i \in Nat : Below(i) \in Finite
  BY FS_Interval DEF FiniteSubsetsOf
<1>2. PICK x \in Belows : \A y \in Belows : <<y, x>> \notin Smaller
  <2>1. IsWellFoundedOn(Smaller, Finite)
    BY FS_StrictSubsetOrderingWellFounded
  <2>2. Belows \subseteq Finite /\ Belows # {}
    BY <1>1
  <2> HIDE DEF Smaller, Belows, Finite
  <2> QED
    BY <2>1, <2>2, WFMin
<1>3. PICK m \in B : x = Below(m)
  BY <1>2
<1>4. ASSUME NEW i \in B, ~(m <= i) PROVE FALSE
  <2>1. Below(i) \subseteq Below(m) /\ m \in Below(m) /\ m \notin Below(i)
    BY <1>4
  <2>2. Below(i) \in SUBSET Nat /\ Below(m) \in SUBSET Nat
    OBVIOUS
  <2>3. <<Below(i), Below(m)>> \in Smaller
    BY <2>1, <2>2 DEF StrictSubsetOrdering
  <2> QED
    BY <1>2, <1>3, <2>3
<1> QED
  BY <1>4

(* Whatever is followed by its prior responses is what Earlier finds.        *)
LEMMA EarlierIs ==
  ASSUME NEW r, NEW n \in Nat, NEW f, f[0] = r, \A i \in 1..n : f[i] = f[i - 1].prior
  PROVE  Earlier(r, n) = f[n]
<1> DEFINE Step(g) == [i \in 0..n |-> IF i = 0 THEN r ELSE g[i - 1].prior]
           back == CHOOSE g : g = Step(g)
           h == [i \in 0..n |-> f[i]]
<1>1. Earlier(r, n) = back[n]
  BY DEF Earlier
<1>2. \A i \in 0..n : h[i] = f[i]
  OBVIOUS
<1>3. h = Step(h)
  <2>1. \A i \in 0..n : h[i] = IF i = 0 THEN r ELSE h[i - 1].prior
    <3>1. ASSUME NEW i \in 0..n, i # 0 PROVE h[i] = h[i - 1].prior
      <4>1. i \in 1..n /\ i - 1 \in 0..n
        BY <3>1
      <4> QED
        BY <1>2, <3>1, <4>1
    <3>2. h[0] = r
      BY <1>2
    <3> QED
      BY <3>1, <3>2
  <2> QED
    BY <2>1
<1>4. back = Step(back)
  <2> HIDE DEF h, Step
  <2> QED
    BY <1>3
<1>5. \A i \in 0..n : back[i] = IF i = 0 THEN r ELSE back[i - 1].prior
  <2> HIDE DEF back, h
  <2> QED
    BY <1>4
<1> HIDE DEF back, Step, h
<1> DEFINE Wrong == {i \in 0..n : back[i] # f[i]}
<1>6. Wrong = {}
  <2>1. SUFFICES ASSUME Wrong # {} PROVE FALSE
    OBVIOUS
  <2>2. PICK m \in Wrong : \A i \in Wrong : m <= i
    <3>1. Wrong \in SUBSET Nat
      OBVIOUS
    <3> HIDE DEF Wrong
    <3> QED
      BY <2>1, <3>1, LeastNumber
  <2>3. m \in 0..n /\ back[m] # f[m]
    OBVIOUS
  <2>4. CASE m = 0
    BY <1>5, <2>3, <2>4
  <2>5. CASE m # 0
    <3>1. m \in 1..n /\ m - 1 \in 0..n /\ ~(m <= m - 1)
      BY <2>3, <2>5
    <3>2. back[m - 1] = f[m - 1]
      BY <2>2, <3>1
    <3>3. back[m] = back[m - 1].prior /\ f[m] = f[m - 1].prior
      BY <1>5, <2>5, <3>1
    <3> QED
      BY <2>3, <3>2, <3>3
  <2> QED
    BY <2>4, <2>5
<1> QED
  BY <1>1, <1>6

(* A response tells the truth about those it names.                          *)
Honest(r) ==
  /\ \A t \in Tells(r) : t.body = "none"
  /\ r.prior # NoResponse => r.prior.code = "redirect" /\ r.prior.location = r.request.url

(* f is r and the h responses before it, which all do.                       *)
Tale(f, r, h) ==
  /\ f[0] = r /\ f[h + 1] = NoResponse
  /\ \A i \in 0..h : Honest(f[i]) /\ f[i + 1] = f[i].prior

Told(r, h) == \E f : Tale(f, r, h)

LEMMA ToldIsTrue ==
  ASSUME NEW r, NEW h \in Nat, Told(r, h)
  PROVE  Earlier(r, h + 1) = NoResponse /\ \A n \in 0..h : Honest(Earlier(r, n))
<1>1. PICK f : Tale(f, r, h)
  BY DEF Told
<1>2. /\ f[0] = r /\ f[h + 1] = NoResponse
      /\ \A i \in 0..h : Honest(f[i]) /\ f[i + 1] = f[i].prior
  BY <1>1 DEF Tale
<1>3. ASSUME NEW n \in 0..h + 1
      PROVE  Earlier(r, n) = f[n]
  <2>1. ASSUME NEW i \in 1..n
        PROVE  f[i] = f[i - 1].prior
    <3>1. i - 1 \in 0..h /\ i - 1 + 1 = i
      OBVIOUS
    <3> QED
      BY <1>2, <3>1
  <2> QED
    BY <1>2, <2>1, EarlierIs
<1>4. h + 1 \in 0..h + 1 /\ \A n \in 0..h : n \in 0..h + 1
  OBVIOUS
<1> QED
  BY <1>2, <1>3, <1>4

(* The first response, and one that follows a redirect.                      *)
LEMMA ToldFirst ==
  ASSUME NEW r, Honest(r), r.prior = NoResponse
  PROVE  Told(r, 0)
<1> DEFINE f == [i \in 0..1 |-> IF i = 0 THEN r ELSE NoResponse]
<1>1. f[0] = r /\ f[1] = NoResponse /\ 0 + 1 = 1 /\ \A i \in 0..0 : i = 0
  OBVIOUS
<1> HIDE DEF f
<1>2. Tale(f, r, 0)
  BY <1>1 DEF Tale
<1> QED
  BY <1>2 DEF Told

LEMMA ToldNext ==
  ASSUME NEW r, NEW p, NEW q, NEW h \in Nat, Told(p, h), Honest(r), r.prior = q,
         Honest(p) => Honest(q), q.prior = p.prior
  PROVE  Told(r, h + 1)
<1>1. PICK f : Tale(f, p, h)
  BY DEF Told
<1>2. /\ f[0] = p /\ f[h + 1] = NoResponse
      /\ \A i \in 0..h : Honest(f[i]) /\ f[i + 1] = f[i].prior
  BY <1>1 DEF Tale
<1> DEFINE g == [i \in 0..h + 2 |-> IF i = 0 THEN r ELSE IF i = 1 THEN q ELSE f[i - 1]]
<1>3. g[0] = r /\ g[1] = q /\ \A i \in 2..h + 2 : g[i] = f[i - 1]
  OBVIOUS
<1> HIDE DEF g
<1>4. g[h + 1 + 1] = NoResponse
  <2>1. h + 1 + 1 \in 2..h + 2 /\ h + 1 + 1 - 1 = h + 1
    OBVIOUS
  <2> QED
    BY <1>2, <1>3, <2>1
<1>5. ASSUME NEW i \in 0..h + 1
      PROVE  Honest(g[i]) /\ g[i + 1] = g[i].prior
  <2>1. CASE i = 0
    BY <1>3, <2>1
  <2>2. CASE i = 1
    <3>1. 0 \in 0..h /\ 2 \in 2..h + 2 /\ 2 - 1 = 1 /\ 0 + 1 = 1 /\ 1 + 1 = 2
      OBVIOUS
    <3>2. Honest(p) /\ f[1] = p.prior
      BY <1>2, <3>1
    <3>3. g[2] = f[1]
      BY <1>3, <3>1
    <3> QED
      BY <1>3, <2>2, <3>1, <3>2, <3>3
  <2>3. CASE i > 1
    <3>1. i \in 2..h + 2 /\ i + 1 \in 2..h + 2 /\ i - 1 \in 0..h /\ i + 1 - 1 = i - 1 + 1
      BY <2>3
    <3>2. Honest(f[i - 1]) /\ f[i - 1 + 1] = f[i - 1].prior
      BY <1>2, <3>1
    <3>3. g[i] = f[i - 1] /\ g[i + 1] = f[i - 1 + 1]
      BY <1>3, <3>1
    <3> QED
      BY <3>2, <3>3
  <2> QED
    BY <2>1, <2>2, <2>3
<1>6. Tale(g, r, h + 1)
  BY <1>3, <1>4, <1>5 DEF Tale
<1> QED
  BY <1>6 DEF Told

-----------------------------------------------------------------------------
(* What a response names.                                                    *)
Parts(r, cache, network, earlier) == r.cache = cache /\ r.network = network /\ r.prior = earlier

Plain(r) == Parts(r, NoResponse, NoResponse, NoResponse)

LEMMA SetterParts ==
  ASSUME NEW r, IsResponse(r), NEW v
  PROVE  /\ Parts(SetBody(r, v), r.cache, r.network, r.prior)
         /\ Parts(SetCode(r, v), r.cache, r.network, r.prior)
         /\ Parts(SetLocation(r, v), r.cache, r.network, r.prior)
         /\ Parts(SetRequest(r, v), r.cache, r.network, r.prior)
<1>1. {"body", "code", "location", "request", "cache", "network", "prior"} \subseteq DOMAIN r
  BY DEF IsResponse, NewResponse
<1> QED
  BY <1>1 DEF SetBody, SetCode, SetLocation, SetRequest, Parts

LEMMA RelatedParts ==
  ASSUME NEW r, IsResponse(r), NEW v
  PROVE  /\ Parts(SetPriorResponse(r, v), r.cache, r.network, v)
         /\ Parts(SetNetworkResponse(r, v), r.cache, Brief(v), r.prior)
         /\ Parts(SetCacheResponse(r, v), Brief(v), r.network, r.prior)
<1> DEFINE b == Brief(v)
<1> HIDE DEF b
<1>1. {"cache", "network", "prior"} \subseteq DOMAIN r
  BY DEF IsResponse, NewResponse
<1>2. /\ SetPriorResponse(r, v) = [r EXCEPT !.prior = v]
      /\ SetNetworkResponse(r, v) = [r EXCEPT !.network = b]
      /\ SetCacheResponse(r, v) = [r EXCEPT !.cache = b]
  BY DEF SetPriorResponse, SetNetworkResponse, SetCacheResponse, b
<1>3. /\ Parts(SetPriorResponse(r, v), r.cache, r.network, v)
      /\ Parts(SetNetworkResponse(r, v), r.cache, b, r.prior)
      /\ Parts(SetCacheResponse(r, v), b, r.network, r.prior)
  BY <1>1, <1>2 DEF Parts
<1> QED
  BY <1>3 DEF b

LEMMA NewIsPlain == Plain(NewResponse) /\ StripBody(NoResponse) = NoResponse /\ Brief(NoResponse) = NoResponse
  BY DEF Plain, Parts, NewResponse, StripBody, Brief

(* Without its body a response tells the same.                               *)
LEMMA StripBodyParts ==
  ASSUME NEW r, IsResponse(r)
  PROVE  /\ Is(StripBody(r), r.code, r.location, "none", r.request)
         /\ Parts(StripBody(r), r.cache, r.network, r.prior)
<1>1. StripBody(r) = SetBody(r, "none")
  BY ResponseFacts DEF StripBody, Is
<1> QED
  BY <1>1, SetBodyIs, SetterParts

LEMMA BriefOfStripped ==
  ASSUME NEW r, IsResponse(r)
  PROVE  /\ Brief(StripBody(r)) # NoResponse
         /\ Brief(StripBody(r)).body = "none" /\ Brief(StripBody(r)).request = r.request
<1> DEFINE s == StripBody(r)
           a == SetBody(NewResponse, s.body)
<1>1. Is(s, r.code, r.location, "none", r.request)
  BY StripBodyParts
<1> HIDE DEF s
<1>2. Brief(s) = SetRequest(a, s.request)
  BY <1>1 DEF Brief, Is
<1>3. Is(a, "ok", NoUrl, "none", NoRequest)
  BY <1>1, NewIs, SetBodyIs DEF Is
<1> HIDE DEF a
<1>4. s.request \in Requests \cup {NoRequest} /\ s.request = r.request
  BY <1>1 DEF Is, IsResponse
<1>5. Is(SetRequest(a, s.request), "ok", NoUrl, "none", s.request)
  BY <1>3, <1>4, SetRequestIs DEF Is
<1>6. Brief(s) # NoResponse /\ Brief(s).body = "none" /\ Brief(s).request = r.request
  BY <1>2, <1>4, <1>5 DEF Is
<1> QED
  BY <1>6 DEF s

LEMMA FromCacheParts ==
  ASSUME NEW r, IsResponse(r), NEW network, NEW request \in Requests \cup {NoRequest}, NEW earlier
  PROVE  Parts(FromCache(r, network, request, earlier),
               Brief(StripBody(r)), Brief(StripBody(network)), StripBody(earlier))
<1> DEFINE p == StripBody(earlier)
           m == StripBody(r)
           n == StripBody(network)
           a == SetRequest(r, request)
           b == SetPriorResponse(a, p)
           c == SetCacheResponse(b, m)
           d == SetBody(c, "cache")
<1>1. FromCache(r, network, request, earlier) = SetNetworkResponse(d, n)
  BY DEF FromCache
<1> HIDE DEF p, m, n
<1>2. IsResponse(a)
  BY SetRequestIs DEF Is
<1> HIDE DEF a
<1>3. IsResponse(b) /\ b.prior = p
  BY <1>2, SetRelatedIs, RelatedParts DEF Is, Parts
<1> HIDE DEF b
<1>4. IsResponse(c) /\ c.prior = p /\ c.cache = Brief(m)
  BY <1>3, SetRelatedIs, RelatedParts DEF Is, Parts
<1> HIDE DEF c
<1>5. IsResponse(d) /\ d.prior = p /\ d.cache = Brief(m)
  BY <1>4, SetBodyIs, SetterParts DEF Is, Parts
<1> HIDE DEF d
<1>6. Parts(SetNetworkResponse(d, n), Brief(m), Brief(n), p)
  BY <1>5, RelatedParts DEF Parts
<1> QED
  BY <1>1, <1>6 DEF m, n, p

LEMMA FromNetworkParts ==
  ASSUME NEW r, IsResponse(r), NEW earlier
  PROVE  /\ Parts(FromNetwork(r, earlier), r.cache, Brief(StripBody(r)), StripBody(earlier))
         /\ Parts(WithCaching(r, earlier), r.cache, Brief(StripBody(r)), StripBody(earlier))
<1> DEFINE p == StripBody(earlier)
           m == StripBody(r)
           a == SetNetworkResponse(r, m)
           b == SetBody(m, "net")
           c == SetNetworkResponse(b, m)
<1>1. FromNetwork(r, earlier) = SetPriorResponse(a, p) /\ WithCaching(r, earlier) = SetPriorResponse(c, p)
  BY DEF FromNetwork, WithCaching
<1>2. IsResponse(m) /\ m.cache = r.cache
  BY StripBodyParts DEF Is, Parts
<1> HIDE DEF p, m
<1>3. IsResponse(a) /\ a.cache = r.cache /\ a.network = Brief(m)
  BY SetRelatedIs, RelatedParts DEF Is, Parts
<1>4. IsResponse(b) /\ b.cache = r.cache
  BY <1>2, SetBodyIs, SetterParts DEF Is, Parts
<1> HIDE DEF a, b
<1>5. IsResponse(c) /\ c.cache = r.cache /\ c.network = Brief(m)
  BY <1>4, SetRelatedIs, RelatedParts DEF Is, Parts
<1> HIDE DEF c
<1>6. Parts(SetPriorResponse(a, p), r.cache, Brief(m), p) /\ Parts(SetPriorResponse(c, p), r.cache, Brief(m), p)
  BY <1>3, <1>5, RelatedParts DEF Parts
<1> QED
  BY <1>1, <1>6 DEF m, p

LEMMA GatewayTimeoutParts ==
  ASSUME NEW request \in Requests \cup {NoRequest}, NEW earlier
  PROVE  Parts(GatewayTimeout(request, earlier), NoResponse, NoResponse, StripBody(earlier))
<1> DEFINE p == StripBody(earlier)
           a == SetRequest(NewResponse, request)
           b == SetPriorResponse(a, p)
<1>1. GatewayTimeout(request, earlier) = SetCode(b, "timeout")
  BY DEF GatewayTimeout
<1> HIDE DEF p
<1>2. IsResponse(a) /\ Plain(a)
  BY NewIs, NewIsPlain, SetRequestIs, SetterParts DEF Is, Plain, Parts
<1> HIDE DEF a
<1>3. IsResponse(b) /\ Parts(b, NoResponse, NoResponse, p)
  BY <1>2, SetRelatedIs, RelatedParts DEF Is, Plain, Parts
<1> HIDE DEF b
<1>4. Parts(SetCode(b, "timeout"), NoResponse, NoResponse, p)
  BY <1>3, SetterParts DEF Parts
<1> QED
  BY <1>1, <1>4 DEF p

LEMMA AnswersArePlain ==
  ASSUME NEW r \in Answers
  PROVE  Plain(r)
<1>1. ASSUME NEW u, u \in Url \cup {NoUrl, BadUrl}, r = Redirect(u)
      PROVE  Plain(r)
  <2> DEFINE a == SetCode(NewResponse, "redirect")
  <2>1. IsResponse(a) /\ Plain(a)
    BY NewIs, NewIsPlain, SetCodeIs, SetterParts DEF Is, Plain, Parts
  <2>2. r = SetLocation(a, u)
    BY <1>1 DEF Redirect
  <2> HIDE DEF a
  <2> QED
    BY <2>1, <2>2, SetterParts DEF Plain, Parts
<1> QED
  BY <1>1, NewIsPlain DEF Answers

LEMMA RepliesArePlain ==
  ASSUME sent \in Requests, NEW r \in Replies
  PROVE  Plain(r)
<1>1. PICK a \in Codes : r = SetBody(SetRequest(a, sent), "net")
  BY DEF Replies
<1>2. IsResponse(a) /\ Plain(a)
  <2>1. CASE a \in Answers
    BY <2>1, AnswersAre, AnswersArePlain
  <2>2. CASE a = SetCode(NewResponse, "notModified")
    BY <2>2, NewIs, NewIsPlain, SetCodeIs, SetterParts DEF Is, Plain, Parts
  <2> QED
    BY <2>1, <2>2 DEF Codes
<1> DEFINE b == SetRequest(a, sent)
<1>3. IsResponse(b) /\ Plain(b)
  BY <1>2, SetRequestIs, SetterParts DEF Is, Plain, Parts
<1> HIDE DEF b
<1> QED
  BY <1>1, <1>3, SetterParts DEF Plain, Parts, b

-----------------------------------------------------------------------------
(* What the responses tell at each place of a call.                          *)
Working == {"lookup", "net", "connect", "write", "receive", "judge"}

Led ==
  IF hop = 0 THEN prior = NoResponse
  ELSE prior # NoResponse /\ Told(prior, hop - 1) /\ prior.code = "redirect" /\ prior.location = Current.url

Redirects(h) == answer # NoResponse /\ Told(answer, h) /\ answer.code = "redirect" /\ answer.location = follow.url

Finished ==
  /\ IF sent = NoRequest THEN answer.network = NoResponse ELSE answer.network.request = sent
  /\ answer.cache # NoResponse => CacheKey(answer.cache.request) = CacheKey(Current)
  /\ Told(answer, hop)

History ==
  /\ phase \in Working => Led
  /\ phase \in Working \ {"lookup"} =>
       sent.url = Current.url /\ (candidate # NoResponse => candidate.request = Current)
  /\ AfterReply => Plain(answer)
  /\ phase \in {"discard", "decide"} => Finished
  /\ phase = "drain" => Redirects(hop)
  /\ phase = "create" /\ hop > 0 => Redirects(hop - 1)

HistoryInv == FollowUpsInv /\ History

LEMMA HistoryStay ==
  ASSUME History, hop' = hop, given' = given, follow' = follow, prior' = prior, sent' = sent,
         candidate' = candidate, answer' = answer,
         phase' \in Working => phase \in Working,
         phase' \in Working \ {"lookup"} => phase \in Working \ {"lookup"},
         AfterReply' => AfterReply,
         phase' \in {"discard", "decide"} => phase \in {"discard", "decide"},
         phase' = "drain" => phase = "drain",
         phase' = "create" /\ hop > 0 => phase = "create"
  PROVE  History'
<1>1. Current' = Current
  BY DEF Current
<1>2. (Led' <=> Led) /\ (Finished' <=> Finished)
  BY <1>1 DEF Led, Finished
<1> QED
  BY <1>1, <1>2 DEF History, Redirects, Plain, Parts

(* The phases of which nothing is said.                                      *)
LEMMA HistorySilent ==
  ASSUME phase' \notin Working \cup {"discard", "decide", "drain", "create"} \/ (phase' = "create" /\ ~(hop' > 0))
  PROVE  History'
<1>1. ~AfterReply'
  BY DEF AfterReply, Working
<1> QED
  BY <1>1 DEF History, Working

(* A response is made for the user.                                          *)
LEMMA HistoryMade ==
  ASSUME HistoryInv, phase \in Working, phase' \in {"discard", "decide"},
         hop' = hop, given' = given, follow' = follow, sent' = sent,
         answer'.request.url = Current.url, answer'.prior = StripBody(prior),
         answer'.cache # NoResponse =>
           answer'.cache.body = "none" /\ CacheKey(answer'.cache.request) = CacheKey(Current),
         answer'.network # NoResponse => answer'.network.body = "none",
         IF sent = NoRequest THEN answer'.network = NoResponse ELSE answer'.network.request = sent
  PROVE  History'
<1>1. Led /\ hop \in Nat /\ (prior = NoResponse \/ IsResponse(prior))
  BY FollowUpsAssumption DEF HistoryInv, FollowUpsInv, History, CallTypes, ResponseState
<1>2. Current' = Current
  BY DEF Current
<1>3. ASSUME hop = 0 PROVE Told(answer', hop)
  <2>1. answer'.prior = NoResponse
    BY <1>1, <1>3, NewIsPlain DEF Led
  <2>2. Honest(answer')
    BY <2>1 DEF Honest, Tells
  <2> QED
    BY <1>3, <2>1, <2>2, ToldFirst
<1>4. ASSUME hop # 0 PROVE Told(answer', hop)
  <2>1. /\ IsResponse(prior) /\ Told(prior, hop - 1) /\ prior.code = "redirect" /\ prior.location = Current.url
        /\ hop - 1 \in Nat /\ hop - 1 + 1 = hop
    BY <1>1, <1>4 DEF Led
  <2> DEFINE q == StripBody(prior)
  <2>2. Is(q, prior.code, prior.location, "none", prior.request) /\ Parts(q, prior.cache, prior.network, prior.prior)
    BY <2>1, StripBodyParts
  <2> HIDE DEF q
  <2>3. answer'.prior = q
    BY DEF q
  <2>4. Honest(prior) => Honest(q)
    BY <2>2 DEF Is, Parts, Honest, Tells
  <2>5. Honest(answer')
    BY <2>1, <2>2, <2>3 DEF Is, Honest, Tells
  <2>6. Told(answer', hop - 1 + 1)
    BY <2>1, <2>2, <2>3, <2>4, <2>5, ToldNext DEF Parts
  <2> QED
    BY <2>1, <2>6
<1>5. Told(answer', hop)
  BY <1>3, <1>4
<1>6. Finished'
  BY <1>2, <1>5 DEF Finished
<1>7. ~AfterReply' /\ phase' \notin Working \cup {"drain", "create"}
  BY DEF AfterReply, Working
<1> QED
  BY <1>6, <1>7 DEF History

(* The builder that copies a request keeps its url.                          *)
LEMMA UrlStays ==
  ASSUME NEW r \in Requests, NEW h, NEW ref
  PROVE  Build(r, h, ref).url = r.url
<1> DEFINE c == IF r.control # "none" THEN r.control ELSE GetValue(h, "Cache-Control", "none")
<1>1. Build(r, h, ref) = [r EXCEPT !.headers = ref, !.control = c]
  BY DEF Build
<1> HIDE DEF c
<1>2. [r EXCEPT !.headers = ref, !.control = c].url = r.url
  BY DEF Requests
<1> QED
  BY <1>1, <1>2

LEMMA HistoryStep ==
  ASSUME HistoryInv, CallNext
  PROVE  History'
<1>0. /\ History /\ Chains /\ Slots /\ RequestsInv /\ ResponseState /\ AsGiven
      /\ hop \in Nat
  BY FollowUpsAssumption DEF HistoryInv, FollowUpsInv, CallTypes
<1>1. CASE Start \/ CallProceeds
  <2>1. phase' \in {"create", "call", "undefined"} /\ hop' = hop /\ (phase' = "create" => NotBegun)
    BY <1>0, <1>1, Places
  <2>2. ~(hop > 0) \/ ~NotBegun
    BY <1>0 DEF Slots
  <2> QED
    BY <2>1, <2>2, HistorySilent DEF Working
<1>2. CASE CallInterceptorReturns
  <2>1. phase' \in {"call", "failed", "returned"}
    BY <1>0, <1>2, Places
  <2> QED
    BY <2>1, HistorySilent DEF Working
<1>3. CASE CreateEngine
  <2>1. CASE cancelled # "no"
    BY <1>3, <2>1, HistorySilent DEF CreateEngine, Working
  <2>2. CASE cancelled = "no"
    <3>1. /\ phase = "create" /\ phase' = "lookup" /\ hop' = hop /\ given' = given /\ follow' = follow
          /\ prior' = (IF hop = 0 THEN NoResponse ELSE answer)
      BY <1>3, <2>2 DEF CreateEngine, Goes, requestVars
    <3>2. Current' = Current
      BY <3>1 DEF Current
    <3>3. hop # 0 => Redirects(hop - 1) /\ Current = follow
      BY <1>0, <3>1 DEF History, Current
    <3>4. Led'
      BY <3>1, <3>2, <3>3 DEF Led, Redirects
    <3>5. ~AfterReply'
      BY <3>1 DEF AfterReply
    <3> QED
      BY <3>1, <3>4, <3>5 DEF History
  <2> QED
    BY <2>1, <2>2
<1>4. CASE LookupMisses \/ LookupValidates
  <2>1. /\ phase = "lookup" /\ given' = given /\ follow' = follow /\ prior' = prior /\ hop' = hop
        /\ phase' \in {"connect", "net"} /\ ~AfterReply'
    BY <1>0, <1>4, Places DEF LookupMisses, LookupValidates, Validates, GoesOut
  <2>2. Current \in Requests /\ Current' = Current /\ Led
    BY <1>0, <2>1, CurrentFacts DEF EngineAtWork, Current, History, Working
  <2>3. Led'
    BY <2>1, <2>2 DEF Led
  <2>4. ASSUME LookupMisses
        PROVE  sent'.url = Current.url /\ candidate' = NoResponse
    BY <1>0, <2>1, <2>4 DEF LookupMisses, GoesOut, AsGiven
  <2>5. ASSUME LookupValidates
        PROVE  sent'.url = Current.url /\ candidate'.request = Current
    <3>1. candidate' \in Stored /\ \E h : sent' = Build(Current, h, "sent")
      BY <2>5 DEF LookupValidates, Validates, GoesOut
    <3> QED
      BY <2>2, <3>1, StoredAre, UrlStays
  <2>6. sent'.url = Current.url /\ (candidate' # NoResponse => candidate'.request = Current)
    BY <1>4, <2>4, <2>5
  <2> QED
    BY <2>1, <2>2, <2>3, <2>6 DEF History
<1>5. CASE LookupRefuses \/ LookupHits
  <2>1. /\ phase = "lookup" /\ prior' = prior /\ given' = given /\ follow' = follow /\ sent' = sent /\ hop' = hop
        /\ \/ phase' = "failing"
           \/ /\ phase' = "decide"
              /\ \/ answer' = GatewayTimeout(Current, prior)
                 \/ \E r \in Stored : answer' = FromCache(r, NoResponse, Current, prior)
    BY <1>5 DEF LookupRefuses, LookupHits, Goes, requestVars
  <2>2. Current \in Requests /\ sent = NoRequest
    BY <1>0, <2>1, CurrentFacts DEF EngineAtWork, RequestsInv, RequestState, Sending
  <2>3. CASE phase' = "failing"
    BY <2>3, HistorySilent DEF Working
  <2>4. ASSUME phase' = "decide", answer' = GatewayTimeout(Current, prior)
        PROVE  History'
    <3>1. Is(answer', "timeout", NoUrl, "none", Current) /\ Parts(answer', NoResponse, NoResponse, StripBody(prior))
      BY <2>2, <2>4, GatewayTimeoutIs, GatewayTimeoutParts
    <3> QED
      BY <2>1, <2>2, <2>4, <3>1, HistoryMade DEF Is, Parts, Working
  <2>5. ASSUME phase' = "decide", NEW r \in Stored, answer' = FromCache(r, NoResponse, Current, prior)
        PROVE  History'
    <3>1. IsResponse(r) /\ r.request = Current
      BY <2>2, StoredAre
    <3>2. /\ Is(answer', r.code, r.location, "cache", Current)
          /\ Parts(answer', Brief(StripBody(r)), NoResponse, StripBody(prior))
      BY <2>2, <2>5, <3>1, FromCacheIs, FromCacheParts, NewIsPlain
    <3>3. Brief(StripBody(r)).body = "none" /\ Brief(StripBody(r)).request = Current
      BY <3>1, BriefOfStripped
    <3> QED
      BY <2>1, <2>2, <2>5, <3>2, <3>3, HistoryMade DEF Is, Parts, Working
  <2> QED
    BY <2>1, <2>3, <2>4, <2>5
<1>6. CASE NetProceeds \/ NetInterceptorReturns
  <2>1. /\ phase = "net" /\ phase' \in {"connect", "net", "judge", "undefined"} /\ (AfterReply' => AfterReply)
        /\ hop' = hop /\ given' = given /\ follow' = follow /\ prior' = prior /\ sent' = sent
        /\ candidate' = candidate /\ answer' = answer
    BY <1>0, <1>6, Places DEF NetProceeds, NetInterceptorReturns, engineVars, requestVars
  <2> QED
    BY <1>0, <2>1, HistoryStay DEF Working
<1>7. CASE GetConnection \/ SendRequest \/ ExchangeFails
  <2>1. /\ phase \in {"connect", "write", "receive"}
        /\ phase' \in {"connect", "write", "receive", "endless", "failing"}
        /\ hop' = hop /\ given' = given /\ follow' = follow /\ prior' = prior /\ sent' = sent
        /\ candidate' = candidate /\ answer' = answer
    BY <1>7 DEF GetConnection, SendRequest, ExchangeFails, Throws, Goes, engineVars, requestVars
  <2>2. ~AfterReply'
    BY <2>1 DEF AfterReply
  <2> QED
    BY <1>0, <2>1, <2>2, HistoryStay DEF Working
<1>8. CASE ExchangeTimesOut \/ RetryThrows \/ Release
  <2>1. phase' \in {"failing", "releasing"}
    BY <1>8 DEF ExchangeTimesOut, RetryThrows, Release, Throws, Goes
  <2> QED
    BY <2>1, HistorySilent DEF Working
<1>9. CASE ReceiveResponse
  <2>1. /\ phase = "receive" /\ phase' \in {"judge", "net"} /\ answer' \in Replies
        /\ hop' = hop /\ given' = given /\ follow' = follow /\ prior' = prior /\ sent' = sent /\ candidate' = candidate
    BY <1>0, <1>9, Places DEF ReceiveResponse, requestVars
  <2>2. sent \in Requests
    BY <1>0, <2>1 DEF RequestsInv, RequestState, Sending
  <2>3. Plain(answer')
    BY <2>1, <2>2, RepliesArePlain
  <2>4. Current' = Current
    BY <2>1 DEF Current
  <2>5. Led /\ sent.url = Current.url /\ (candidate # NoResponse => candidate.request = Current)
    BY <1>0, <2>1 DEF History, Working
  <2>6. Led'
    BY <2>1, <2>4, <2>5 DEF Led
  <2> QED
    BY <2>1, <2>3, <2>4, <2>5, <2>6 DEF History, Plain, Parts
<1>10. CASE JudgeNetwork
  <2>1. /\ phase = "judge" /\ phase' = "decide"
        /\ hop' = hop /\ given' = given /\ follow' = follow /\ prior' = prior /\ sent' = sent
        /\ answer' \in {FromNetwork(answer, prior), WithCaching(answer, prior)}
    BY <1>10 DEF JudgeNetwork, Goes, requestVars
  <2>2. AfterReply /\ sent # NoRequest /\ IsResponse(answer) /\ answer.request = sent
    BY <1>0, <2>1 DEF AfterReply, ResponseState, RequestsInv, RequestState, Sending
  <2>3. Plain(answer) /\ sent.url = Current.url
    BY <1>0, <2>1, <2>2 DEF History, Working
  <2>4. answer'.request = sent /\ Parts(answer', NoResponse, Brief(StripBody(answer)), StripBody(prior))
    <3>1. answer.cache = NoResponse
      BY <2>3 DEF Plain, Parts
    <3>2. answer'.request = sent
      <4>1. FromNetwork(answer, prior).request = sent /\ WithCaching(answer, prior).request = sent
        BY <2>2, FromNetworkIs DEF Is
      <4> QED
        BY <2>1, <4>1
    <3>3. Parts(answer', answer.cache, Brief(StripBody(answer)), StripBody(prior))
      BY <2>1, <2>2, FromNetworkParts
    <3> QED
      BY <3>1, <3>2, <3>3
  <2>5. Brief(StripBody(answer)).body = "none" /\ Brief(StripBody(answer)).request = sent
    BY <2>2, BriefOfStripped
  <2> QED
    BY <2>1, <2>2, <2>3, <2>4, <2>5, HistoryMade DEF Parts, Working
<1>11. CASE JudgeValid
  <2>1. /\ phase = "judge" /\ candidate # NoResponse
        /\ hop' = hop /\ given' = given /\ follow' = follow /\ prior' = prior /\ sent' = sent
        /\ \/ phase' = "failing"
           \/ phase' = "discard" /\ answer' = FromCache(candidate, answer, Current, prior)
    BY <1>11 DEF JudgeValid, Goes, requestVars
  <2>2. CASE phase' = "failing"
    BY <2>2, HistorySilent DEF Working
  <2>3. ASSUME phase' = "discard", answer' = FromCache(candidate, answer, Current, prior)
        PROVE  History'
    <3>1. /\ sent # NoRequest /\ IsResponse(answer) /\ answer.request = sent
          /\ Current \in Requests /\ IsResponse(candidate)
      BY <1>0, <2>1, CurrentFacts DEF AfterReply, ResponseState, RequestsInv, RequestState, Sending, EngineAtWork
    <3>2. candidate.request = Current
      BY <1>0, <2>1 DEF History, Working
    <3>3. /\ answer'.request = Current
          /\ Parts(answer', Brief(StripBody(candidate)), Brief(StripBody(answer)), StripBody(prior))
      <4>1. Is(answer', candidate.code, candidate.location, "cache", Current)
        BY <2>3, <3>1, FromCacheIs
      <4>2. Parts(answer', Brief(StripBody(candidate)), Brief(StripBody(answer)), StripBody(prior))
        BY <2>3, <3>1, FromCacheParts
      <4> QED
        BY <4>1, <4>2 DEF Is
    <3>4. /\ Brief(StripBody(candidate)).body = "none" /\ Brief(StripBody(candidate)).request = Current
          /\ Brief(StripBody(answer)).body = "none" /\ Brief(StripBody(answer)).request = sent
      BY <3>1, <3>2, BriefOfStripped
    <3> QED
      BY <2>1, <2>3, <3>1, <3>3, <3>4, HistoryMade DEF Parts, Working
  <2> QED
    BY <2>1, <2>2, <2>3
<1>12. CASE Assign
  <2>1. phase' \in {"call", "failed", "returned"}
    BY <1>0, <1>12, Places DEF Assign
  <2> QED
    BY <2>1, HistorySilent DEF Working
<1>13. CASE Fail /\ ~(BeginClose(Mine) /\ UNCHANGED callVars)
  <2>1. phase' \in {"call", "failed"}
    BY <1>13 DEF Fail, CallEnds, Goes
  <2> QED
    BY <2>1, HistorySilent DEF Working
<1>14. CASE Retry
  <2> DEFINE from == answer.request
             to == answer.location
             h == RetryHeaders(heap[from.headers], from.url, to)
  <2>1. /\ phase = "decide" /\ answer.code = "redirect" /\ to \in Url /\ answer' = answer
        /\ follow' = Build(SetUrl(from, to), h, "follow")
        /\ \/ phase' = "drain" /\ hop' = hop
           \/ phase' = "create" /\ hop' = hop + 1
           \/ phase' = "failing"
    BY <1>14 DEF Retry, IsRetry, Accepts, RetryRequest, NextHop
  <2>2. from \in Requests
    <3>1. from \in {Current, sent} \ {NoRequest}
      BY <1>0, <2>1 DEF ResponseState
    <3> QED
      BY <1>0, <2>1, <3>1, CurrentFacts DEF EngineAtWork, RequestsInv, RequestState
  <2>3. SetUrl(from, to) \in Requests /\ SetUrl(from, to).url = to
    BY <2>1, <2>2, SetUrlFacts
  <2>4. follow'.url = to
    BY <2>1, <2>3, UrlStays
  <2>5. answer # NoResponse /\ Told(answer, hop)
    BY <1>0, <2>1 DEF History, Finished, ResponseState
  <2>6. ~AfterReply' \/ phase' \notin {"drain", "create"}
    BY DEF AfterReply
  <2>7. CASE phase' = "drain" /\ hop' = hop
    BY <2>1, <2>4, <2>5, <2>6, <2>7 DEF History, Redirects, Working
  <2>8. CASE phase' = "create" /\ hop' = hop + 1
    <3>1. hop' - 1 = hop
      BY <1>0, <2>8
    <3> QED
      BY <2>1, <2>4, <2>5, <2>6, <2>8, <3>1 DEF History, Redirects, Working
  <2>9. CASE phase' = "failing"
    BY <2>9, HistorySilent DEF Working
  <2> QED
    BY <2>1, <2>7, <2>8, <2>9
<1>15. CASE DrainEnds
  <2>1. /\ phase = "drain" /\ answer' = answer /\ follow' = follow
        /\ \/ phase' = "create" /\ hop' = hop + 1
           \/ phase' = "failing"
    BY <1>15 DEF DrainEnds, NextHop, engineVars, requestVars
  <2>2. Redirects(hop)
    BY <1>0, <2>1 DEF History
  <2>3. CASE phase' = "create" /\ hop' = hop + 1
    <3>1. hop' - 1 = hop /\ ~AfterReply'
      BY <1>0, <2>3 DEF AfterReply
    <3> QED
      BY <2>1, <2>2, <2>3, <3>1 DEF History, Redirects, Working
  <2>4. CASE phase' = "failing"
    BY <2>4, HistorySilent DEF Working
  <2> QED
    BY <2>1, <2>3, <2>4
<1>16. CASE \/ CloseEarlier \/ Discard \/ DrainReads \/ DrainCloses \/ UserReads \/ UserCloses \/ DestroyRest \/ Cancel
            \/ StreamStep \/ (BeginClose(Mine) /\ UNCHANGED callVars)
  <2>1. /\ candidate' = candidate /\ answer' = answer /\ prior' = prior /\ sent' = sent /\ netChain' = netChain
        /\ given' = given /\ follow' = follow /\ hop' = hop
        /\ phase' = phase \/ (phase = "discard" /\ phase' = "decide")
    BY <1>16 DEF CloseEarlier, Discard, DrainReads, DrainCloses, UserReads, UserCloses, DestroyRest, Cancel, StreamStep, Goes,
       callVars, requestVars, engineVars, progressVars, chainVars
  <2>2. AfterReply' => AfterReply
    BY <2>1 DEF AfterReply
  <2> QED
    BY <1>0, <2>1, <2>2, HistoryStay DEF Working
<1> QED
  BY <1>1, <1>2, <1>3, <1>4, <1>5, <1>6, <1>7, <1>8, <1>9, <1>10, <1>11, <1>12, <1>13, <1>14, <1>15, <1>16
     DEF CallNext, Executes

LEMMA HistoryFollows ==
  ASSUME HistoryInv
  PROVE  HistoryIsTrue
<1>1. hop \in Nat
  BY FollowUpsAssumption DEF HistoryInv, FollowUpsInv, CallTypes
<1>2. SUFFICES ASSUME phase = "decide"
               PROVE  /\ IF sent = NoRequest THEN answer.network = NoResponse ELSE answer.network.request = sent
                      /\ answer.cache # NoResponse => CacheKey(answer.cache.request) = CacheKey(Current)
                      /\ Earlier(answer, hop + 1) = NoResponse
                      /\ \A n \in 0..hop : Honest(Earlier(answer, n))
  BY DEF HistoryIsTrue, Honest
<1>3. Finished
  BY <1>2 DEF HistoryInv, History
<1>4. Earlier(answer, hop + 1) = NoResponse /\ \A n \in 0..hop : Honest(Earlier(answer, n))
  BY <1>1, <1>3, ToldIsTrue DEF Finished
<1> QED
  BY <1>3, <1>4 DEF Finished

-----------------------------------------------------------------------------
(* What the invariant says for the properties of a call.                     *)
LEMMA StacksAreBounded ==
  ASSUME NEW K \in Nat, NEW ch, Links(K, ch)
  PROVE  ch \in [at : 0..K + 2, stack : UNION {[1..m -> 1..K] : m \in 0..K},
                 control : {"out", "interceptor", "inner", "undefined"}, again : BOOLEAN]
<1> DEFINE stacks == UNION {[1..m -> 1..K] : m \in 0..K}
           n == Len(ch.stack)
<1>1. /\ ch \in [at : 0..K + 2, stack : Seq(1..K), again : BOOLEAN,
                 control : {"out", "interceptor", "inner", "undefined"}]
      /\ \A i \in 1..Len(ch.stack) : i <= ch.stack[i]
  BY DEF Links
<1>2. ch.stack \in Seq(1..K)
  BY <1>1
<1>3. n \in Nat /\ ch.stack \in [1..n -> 1..K]
  BY <1>2
<1>4. n \in 0..K
  <2>1. CASE n = 0
    BY <2>1
  <2>2. CASE n # 0
    <3>1. n \in 1..n
      BY <1>3, <2>2
    <3>2. ch.stack[n] \in 1..K /\ n <= ch.stack[n]
      BY <1>1, <1>3, <3>1
    <3> QED
      BY <1>3, <3>2
  <2> QED
    BY <2>1, <2>2
<1> HIDE DEF n
<1>5. ch.stack \in stacks
  <2>1. [1..n -> 1..K] \in {[1..m -> 1..K] : m \in 0..K}
    BY <1>4
  <2> QED
    BY <1>3, <2>1
<1> HIDE DEF stacks
<1>6. ch \in [at : 0..K + 2, stack : stacks, control : {"out", "interceptor", "inner", "undefined"}, again : BOOLEAN]
  BY <1>1, <1>5
<1> QED
  BY <1>6 DEF stacks

LEMMA TypesFollow ==
  ASSUME FollowUpsInv
  PROVE  CallTypeOK
<1>1. /\ Streams /\ Chains /\ CallTypes /\ RequestsInv /\ ResponseState
  BY DEF FollowUpsInv
<1>2. StreamTypeOK
  <2>1. StreamTypes
    BY <1>1 DEF Streams
  <2>2. ASSUME NEW s \in Stream
        PROVE  temp[s] = NoFile \/ \A i \in DOMAIN temp[s] : temp[s][i] \in 1..N
    <3>1. temp[s] \in Seq(1..N) \/ temp[s] = NoFile
      BY <2>1 DEF StreamTypes
    <3>2. ASSUME NEW S, NEW t \in Seq(S)
          PROVE  \A i \in DOMAIN t : t[i] \in S
      BY <3>2, ElementOfSeq, LenProperties
    <3> QED
      BY <3>1, <3>2
  <2> QED
    BY <2>1, <2>2 DEF StreamTypes, StreamTypeOK
<1>3. callChain \in CallInterceptors!ChainType /\ netChain \in NetInterceptors!ChainType
  <2>1. Interceptors \in Nat /\ NetworkInterceptors \in Nat
    BY FollowUpsAssumption
  <2>2. Links(Interceptors, callChain) /\ Links(NetworkInterceptors, netChain)
    BY <1>1 DEF Chains
  <2>3. callChain \in CallInterceptors!ChainType
    BY <2>1, <2>2, StacksAreBounded
       DEF CallInterceptors!ChainType, CallInterceptors!BoundedSeq, CallInterceptors!SeqOf
  <2>4. netChain \in NetInterceptors!ChainType
    BY <2>1, <2>2, StacksAreBounded
       DEF NetInterceptors!ChainType, NetInterceptors!BoundedSeq, NetInterceptors!SeqOf
  <2> QED
    BY <2>3, <2>4
<1>4. /\ given \in Requests /\ {follow, sent} \subseteq Requests \cup {NoRequest}
      /\ DOMAIN heap = Ref /\ \A ref \in Ref : DOMAIN heap[ref] = HeaderName
  BY <1>1 DEF RequestsInv, RequestState, HeadersType, AreHeaders
<1>5. \A r \in {candidate, answer, prior} \ {NoResponse} : IsResponse(r)
  BY <1>1 DEF ResponseState
<1>6. /\ setting \in [cache : BOOLEAN, fresh : BOOLEAN]
      /\ body \in {"none", "buffer", "whole", "part", "spent", "bad"}
      /\ sentBody \in {"none", "whole", "rest", "empty"} /\ reused \in {"may", "yes", "no"}
      /\ hop \in 0..MaxRetryCount /\ cancelled \in {"no", "before", "after"}
  BY <1>1 DEF CallTypes
<1> QED
  BY <1>2, <1>3, <1>4, <1>5, <1>6 DEF CallTypeOK

LEMMA EarlierFollows ==
  ASSUME FollowUpsInv
  PROVE  EarlierAreClosed
<1>1. Slots
  BY DEF FollowUpsInv
<1>2. phase \in {"lookup", "connect", "write", "receive"} => BeforeReply
  BY DEF BeforeReply
<1> QED
  BY <1>1, <1>2 DEF Slots, EarlierAreClosed, Other

LEMMA RulesFollow ==
  ASSUME FollowUpsInv
  PROVE  CacheRulesHold
<1>1. OnlyIfCachedStaysHome /\ AsGiven /\ CallTypes /\ ResponseState
  BY DEF FollowUpsInv
<1>2. ASSUME phase = "returned", answer.code = "notModified", setting.fresh, ~(hop > 0)
      PROVE  Validator(given) = Own
  <2>1. hop = 0
    BY <1>1, <1>2, FollowUpsAssumption DEF CallTypes
  <2>2. answer # NoResponse
    BY <1>1, <1>2 DEF ResponseState
  <2> QED
    BY <1>1, <1>2, <2>1, <2>2 DEF AsGiven
<1>3. NotModifiedOnlyIfAsked
  BY <1>2 DEF NotModifiedOnlyIfAsked
<1> QED
  BY <1>1, <1>3 DEF CacheRulesHold

LEMMA ArrivesFollows ==
  ASSUME FollowUpsInv
  PROVE  BodyArrivesWhole
<1>1. WholeBody /\ CallTypes
  BY DEF FollowUpsInv
<1>2. ASSUME phase = "receive", sentBody \in {"rest", "empty"}, ~(hop > 0), setting.fresh
      PROVE  FALSE
  <2>1. hop = 0
    BY <1>1, <1>2, FollowUpsAssumption DEF CallTypes
  <2> QED
    BY <1>1, <1>2, <2>1 DEF WholeBody
<1> QED
  BY <1>2 DEF BodyArrivesWhole

-----------------------------------------------------------------------------
(* The whole of a call, from HttpRequestExecutor::execute to the response    *)
(* that its caller reads and closes: what its streams, requests, responses   *)
(* and chains are at each place of it, for any number of redirects, any url  *)
(* and any Request of the caller.                                            *)
THEOREM FollowUpsInvariant == CallSpec => []FollowUpsInv
<1>1. FollowUpsInv /\ [CallNext]_allVars => FollowUpsInv'
  BY FollowUpsStep, FollowUpsStutter
<1> QED
  BY <1>1, FollowUpsInit, PTL DEF CallSpec

(* What the close of a stream offers to the cache is the whole body, in its  *)
(* order, whichever way the body ended and whatever the reader has seen of   *)
(* it (ResponseBodyStreamWithCaching::close), in every hop of every call.    *)
THEOREM BodiesAreOfferedWhole == CallSpec => []OfferedIsWhole
<1>1. FollowUpsInv => OfferedIsWhole
  BY OfferFacts DEF FollowUpsInv
<1> QED
  BY <1>1, FollowUpsInvariant, PTL

(* A connection is given back for reuse only when its stream is drained      *)
(* (ResponseBodyStreamWithoutCaching::close), and with a cache none is kept  *)
(* by an earlier response of the same call while an engine is at work        *)
(* (HttpEngine::readAllResponseBodyForCache, ResponseBody::~ResponseBody).   *)
THEOREM ConnectionsAreFree == CallSpec => []ConnectionsComeBack
<1>1. FollowUpsInv => ConnectionsComeBack
  BY TypesFollow, EarlierFollows, OfferFacts DEF FollowUpsInv, ConnectionsComeBack
<1> QED
  BY <1>1, FollowUpsInvariant, PTL

(* Authorization is sent to the origin of the caller's Request and to no     *)
(* other, along any chain of redirects (HttpEngine::makeRetryRequest).       *)
THEOREM CredentialsStayHome == CallSpec => []AuthorizationOnlyToItsOrigin
<1>1. FollowUpsInv => AuthorizationOnlyToItsOrigin
  BY DEF FollowUpsInv, RequestsInv, RequestState, Sending, Trusted, Outside, AuthorizationOnlyToItsOrigin
<1> QED
  BY <1>1, FollowUpsInvariant, PTL

(* only-if-cached holds along every chain of redirects, and a 304 is given   *)
(* only to a caller whose Request was validated already or whose call was    *)
(* redirected (HttpCacheStrategy::determine, HttpEngine::execute).           *)
THEOREM RulesAreKept == CallSpec => []CacheRulesHold
<1>1. FollowUpsInv => CacheRulesHold
  BY RulesFollow
<1> QED
  BY <1>1, FollowUpsInvariant, PTL

(* A request that is repeated on a new connection has its whole body again   *)
(* (HttpEngine::sendRequestAndReceiveResponseWithRetryByConnection).         *)
THEOREM BodiesArrive == CallSpec => []BodyArrivesWhole
<1>1. FollowUpsInv => BodyArrivesWhole
  BY ArrivesFollows
<1> QED
  BY <1>1, FollowUpsInvariant, PTL

(* What a response tells of its own making is true: its network response     *)
(* answers the request that was sent, its cache response is of the key that  *)
(* was asked for, and its prior responses are all the redirects before, each *)
(* to the url that the next one answers (HttpEngine::execute,                *)
(* HttpRequestExecutor::executeWithRetry), for any number of redirects.      *)
THEOREM ResponsesTellTheTruth == CallSpec => []HistoryIsTrue
<1>1. CallInit => HistoryInv
  <2>1. CallInit => phase = "idle"
    BY DEF CallInit
  <2>2. phase = "idle" => History
    BY DEF History, Working, AfterReply
  <2> QED
    BY <2>1, <2>2, FollowUpsInit DEF HistoryInv
<1>2. HistoryInv /\ [CallNext]_allVars => HistoryInv'
  <2>1. SUFFICES ASSUME HistoryInv, [CallNext]_allVars PROVE HistoryInv'
    OBVIOUS
  <2>2. FollowUpsInv'
    BY <2>1, FollowUpsStep, FollowUpsStutter DEF HistoryInv
  <2>3. CASE CallNext
    BY <2>1, <2>2, <2>3, HistoryStep DEF HistoryInv
  <2>4. CASE UNCHANGED allVars
    <3>1. /\ hop' = hop /\ given' = given /\ follow' = follow /\ prior' = prior /\ sent' = sent
          /\ candidate' = candidate /\ answer' = answer /\ phase' = phase /\ netChain' = netChain
      BY <2>4 DEF allVars, callVars, requestVars, engineVars, progressVars, chainVars
    <3>2. AfterReply' => AfterReply
      BY <3>1 DEF AfterReply
    <3> QED
      BY <2>1, <2>2, <3>1, <3>2, HistoryStay DEF HistoryInv
  <2> QED
    BY <2>1, <2>3, <2>4
<1>3. HistoryInv => HistoryIsTrue
  BY HistoryFollows
<1> QED
  BY <1>1, <1>2, <1>3, PTL DEF CallSpec

-----------------------------------------------------------------------------
(* Through every call each chain holds the interceptors it called, in their  *)
(* order, and the phase of the call is where its chain has control           *)
(* (CallInterceptorChain, NetworkInterceptorChain, HttpRequestExecutor), for *)
(* any number of interceptors and of redirects.                              *)
THEOREM ChainsInvariant == CallSpec => []Chains
<1>1. Chains /\ [CallNext]_allVars => Chains'
  <2>1. SUFFICES ASSUME Chains, [CallNext]_allVars PROVE Chains'
    OBVIOUS
  <2>2. CASE UNCHANGED allVars
    <3>1. callChain' = callChain /\ netChain' = netChain /\ phase' = phase
      BY <2>2 DEF allVars, callVars, chainVars, progressVars
    <3> QED
      BY <2>1, <3>1, ChainsStay
  <2> QED
    BY <2>1, <2>2, ChainsStep
<1> QED
  BY <1>1, ChainsInit, PTL DEF CallSpec

(* Every interceptor of the list is on the stack when the work it wraps      *)
(* begins, in the order of the list, unless one of them has proceeded a      *)
(* second time (CallInterceptorChain and NetworkInterceptorChain::proceed).  *)
THEOREM InterceptorsSee == CallSpec => []EveryInterceptorSees
<1>1. Chains => EveryInterceptorSees
  BY DEF Chains, Links, Identity, EveryInterceptorSees, CallInterceptors!SeenByAll, NetInterceptors!SeenByAll
<1> QED
  BY <1>1, ChainsInvariant, PTL
=============================================================================

---------------------------- MODULE MCFollowUps ----------------------------
(* Instance of FollowUps for TLC: two urls of one host, on different ports.  *)
EXTENDS FollowUps, TLC

CONSTANTS u1, u2

MCOriginOf == [u \in Url |-> [host |-> "h", port |-> IF u = u1 THEN 1 ELSE 2]]

LOCAL With(h, name, values) == IF values = {} THEN h ELSE Add(h, name, CHOOSE v \in values : TRUE)

LOCAL Asks(method, only, cache, fresh, auth, validator, b) ==
  [setting |-> [cache |-> cache, fresh |-> fresh], url |-> u1, method |-> method, body |-> b,
   control |-> IF only /\ auth THEN "only-if-cached" ELSE "none",
   headers |-> With(With(With(NoHeaders, "Authorization", IF auth THEN {"credentials"} ELSE {}),
                         "Validator", {validator} \ {NoUrl}),
                    "Cache-Control", IF only THEN {"only-if-cached"} ELSE {})]

(* Plain requests with and without a cache; only-if-cached, with Authorization *)
(* or without; a conditional request; one that was validated before; bodies.   *)
MCCallers ==
  {Asks("GET", FALSE, TRUE, TRUE, FALSE, NoUrl, "none"),
   Asks("GET", TRUE, TRUE, TRUE, FALSE, NoUrl, "none"),
   Asks("GET", TRUE, TRUE, TRUE, TRUE, NoUrl, "none"),
   Asks("POST", TRUE, TRUE, TRUE, FALSE, NoUrl, "none"),
   Asks("GET", FALSE, FALSE, TRUE, TRUE, NoUrl, "whole"),
   Asks("GET", FALSE, TRUE, TRUE, FALSE, Own, "none"),
   Asks("GET", FALSE, TRUE, FALSE, FALSE, u1, "none"),
   Asks("POST", FALSE, FALSE, TRUE, FALSE, NoUrl, "whole"),
   Asks("POST", FALSE, FALSE, TRUE, FALSE, NoUrl, "bad"),
   Asks("POST", FALSE, FALSE, FALSE, FALSE, NoUrl, "spent"),
   Asks("POST", FALSE, FALSE, TRUE, FALSE, NoUrl, "buffer")}
=============================================================================

------------------------------ MODULE MCRateLimit -----------------------------
(* Three configuration versions limit the same key differently: one with a   *)
(* long window, one with a short window and a burst above its rate, whose    *)
(* key expires before the others would have filled it, and a slow one.       *)
EXTENDS RateLimit

LongShortSlow == {[requests |-> 2, burst |-> 2, window |-> 4],
                  [requests |-> 1, burst |-> 3, window |-> 2],
                  [requests |-> 1, burst |-> 1, window |-> 4]}
===============================================================================

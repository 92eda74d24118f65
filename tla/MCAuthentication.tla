--------------------------- MODULE MCAuthentication ---------------------------
(* Three requests with tokens, two of them signed with the first key of the   *)
(* provider, and one request with the API key.                                *)
EXTENDS Authentication

MCRequests == {"t1", "t2", "t3", "k1"}
MCKeyUses == {"k1"}
MCSigner == [r \in MCRequests |-> IF r = "t2" THEN 2 ELSE 1]
===============================================================================

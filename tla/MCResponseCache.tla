---------------------------- MODULE MCResponseCache ---------------------------
(* Concurrent requests of two principals, with two methods.                *)
EXTENDS ResponseCache

CONSTANTS r1

One == {r1}

AliceGet  == [principal |-> "alice", method |-> "GET"]
AliceHead == [principal |-> "alice", method |-> "HEAD"]
BobGet    == [principal |-> "bob", method |-> "GET"]

ThreeShapes == {AliceGet, AliceHead, BobGet}
===============================================================================

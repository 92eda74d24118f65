------------------------------ MODULE MCDataPlane -----------------------------
(***************************************************************************)
(* Instances of DataPlane: get may be retried, post may not.               *)
(***************************************************************************)
EXTENDS DataPlane, TLC

CONSTANTS get, post

GetAndPost == {get, post}
OnlyGet    == {get}
===============================================================================

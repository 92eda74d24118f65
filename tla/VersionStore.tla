----------------------------- MODULE VersionStore -----------------------------
(***************************************************************************)
(* What the control plane promises about the configuration keys it keeps   *)
(* in Redis, with every operation a single atomic step: a version key is   *)
(* written only while it is free, the active version is never removed, and *)
(* the active pointer moves only onto a stored version.  The one exception *)
(* is Seed: gateway start-up points an empty store at its own bootstrap    *)
(* version with a command that does not look at the version key.           *)
(***************************************************************************)
EXTENDS Naturals

CONSTANTS Versions,     \* version numbers of gateway configurations
          Contents,     \* what a configuration says (an opaque document)
          NoContent     \* the value of a version key that does not exist

VARIABLES configs,      \* vial-gateway:config:<version>
          active        \* vial-gateway:config:active, 0 when it is absent

vsVars == <<configs, active>>

Free(v) == configs[v] = NoContent

VSInit == /\ configs = [v \in Versions |-> NoContent]
          /\ active = 0

\* A version key is written once; it keeps its content until it is removed.
Put(v, c) == /\ Free(v)
             /\ configs' = [configs EXCEPT ![v] = c]
             /\ UNCHANGED active

\* Only a version that is stored and not active can be removed.
Remove(v) == /\ ~Free(v)
             /\ active # v
             /\ configs' = [configs EXCEPT ![v] = NoContent]
             /\ UNCHANGED active

\* Activation replaces the pointer the administrator named by a stored version.
Point(old, v) == /\ active = old
                 /\ ~Free(v)
                 /\ active' = v
                 /\ UNCHANGED configs

\* Start-up of a gateway on a store with no active pointer.
Seed(v) == /\ active = 0
           /\ active' = v
           /\ UNCHANGED configs

VSNext == \E v \in Versions :
             \/ \E c \in Contents : Put(v, c)
             \/ Remove(v)
             \/ \E old \in Versions : Point(old, v)
             \/ Seed(v)

VSSpec == VSInit /\ [][VSNext]_vsVars
===============================================================================

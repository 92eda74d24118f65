---------------------------- MODULE MCConfigPlane -----------------------------
(***************************************************************************)
(* Instances of ConfigPlane.  The deployment of deploy/compose: one        *)
(* control-only process with the admin API beside data-plane gateways; and *)
(* a single process that is both.                                          *)
(***************************************************************************)
EXTENDS ConfigPlane, TLC

CONSTANTS ctl, gw, h1, h2

Cfg(v, c) == [version |-> v, content |-> c]

Both    == {ctl, gw}
OnlyCtl == {ctl}
OnlyGw  == {gw}
One     == {h1}
Two     == {h1, h2}
Nobody  == {}

TwoVersions   == 1..2
ThreeVersions == 1..3
MCContents == {"bootRoutes", "newRoutes", "devOnly", "noRoutes"}

\* devOnly (say, a wildcard CORS origin) passes in the control plane's
\* environment and is rejected by the gateway beside it.
SplitAccepts  == ctl :> MCContents @@ gw :> (MCContents \ {"devOnly"})
SingleAccepts == gw :> MCContents

SplitBoot  == ctl :> Cfg(1, "noRoutes") @@ gw :> Cfg(1, "bootRoutes")
SingleBoot == gw :> Cfg(1, "bootRoutes")

\* What the gateway's file may say at a SIGHUP or a restart: other routes under the
\* same version, or no route, which is rejected.
SplitReload  == ctl :> {} @@ gw :> {Cfg(1, "newRoutes"), Cfg(1, "noRoutes")}
SingleReload == gw :> {}

\* Version 2 is either a configuration the gateway takes or one it rejects.
TakenOrRejected == {Cfg(2, "newRoutes"), Cfg(2, "devOnly")}

\* Version 1, seeded with "bootRoutes", may be deleted and stored again with
\* another document.
SecondDocument == {Cfg(1, "newRoutes"), Cfg(2, "newRoutes")}

\* Three versions; the first may be stored again with another document than the
\* gateway's file has, the second with either of two.
ThreeDrafts == {Cfg(1, "newRoutes"), Cfg(2, "newRoutes"), Cfg(2, "bootRoutes"),
                Cfg(3, "devOnly")}

Symmetry == Permutations(Two)
===============================================================================

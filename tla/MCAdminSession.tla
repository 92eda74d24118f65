---------------------------- MODULE MCAdminSession ----------------------------
(* Two tabs of one browser, which are interchangeable, beside a second browser  *)
(* or alone.                                                                    *)
EXTENDS AdminSession, TLC

CONSTANTS a1, a2, b1

TwoBrowsers == {a1, a2, b1}
OneBrowser == {a1, a2}
OwnerOf(tabs) == [t \in tabs |-> IF t = b1 THEN "b" ELSE "a"]
TwoOwners == OwnerOf(TwoBrowsers)
OneOwner == OwnerOf(OneBrowser)
TabsOfOneBrowser == Permutations({a1, a2})
===============================================================================

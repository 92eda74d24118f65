------------------------------ MODULE MCRouting -------------------------------
(***************************************************************************)
(* Tables of two routes against every kind of request, without a body; and *)
(* every transform of up to two renames against every body, on one route.  *)
(***************************************************************************)
EXTENDS Routing

Empty == [k \in {} |-> 0]
NoTransform == [remove |-> {}, rename |-> Empty, add |-> Empty]

RoutePrefixes == {<<"">>, <<"a">>, <<"a", "">>, <<"a", "b">>}
Hosts == {Unset, "h"}
Methods == {Unset, "GET", "HEAD"}

Routes(rewrites, targets) ==
    [prefix : RoutePrefixes, rewrite : rewrites, host : Hosts, method : Methods,
     target : targets, rewriteRedirects : {TRUE}]

PathInputs ==
    [routes : {<<r, s>> : r \in Routes({<<>>, <<"">>, <<"x">>, <<"x", "">>}, {<<>>}),
                          s \in Routes({<<>>}, {<<"v">>})},
     request : [host : {"g", "h"}, method : {"GET", "HEAD", "POST"},
                path : {<<"">>, <<"a">>, <<"a", "">>, <<"a", "b">>, <<"a", "c">>, <<"ab">>}],
     transform : {NoTransform}, body : {Empty}]

Objects(keys) == UNION {[s -> {1, 2}] : s \in SUBSET keys}
Renames == UNION {[s -> {"k", "l", "m"}] : s \in SUBSET {"k", "l"}}

BodyInputs ==
    [routes : {<<[prefix |-> <<"">>, rewrite |-> <<>>, host |-> Unset, method |-> Unset,
                  target |-> <<>>, rewriteRedirects |-> FALSE]>>},
     request : {[host |-> "h", method |-> "POST", path |-> <<"a">>]},
     transform : [remove : SUBSET {"k", "m"}, rename : Renames,
                  add : {Empty, [k \in {"k"} |-> 3]}],
     body : Objects({"k", "l", "m"})]

MCInputs == PathInputs \cup BodyInputs
MCLocations == {<<"">>, <<"x">>, <<"x", "">>, <<"x", "q">>, <<"a">>, <<"a", "b">>, <<"xq">>}
===============================================================================

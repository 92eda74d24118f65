------------------------------- MODULE Routing --------------------------------
(***************************************************************************)
(* The way of one request through a snapshot: the pattern it is dispatched *)
(* by, the path it has upstream, the JSON body it takes along, and where a *)
(* redirect of the upstream leads the client back to.                      *)
(*                                                                         *)
(* A path is the sequence of its segments: "/a/b" is <<"a", "b">>, "/a/"   *)
(* is <<"a", "">>, "/" is <<"">> and the empty string <<>>.                *)
(***************************************************************************)
EXTENDS Naturals, FiniteSets, SequencesExt

CONSTANTS Inputs,       \* records [routes, request, transform, body]
          Locations     \* what a redirect of the upstream may name

\* Request paths and resolved Locations have a segment at least (joinURLPath makes "/"
\* of a Location without a path); prefixes, rewrites and upstream paths may be empty.
ASSUME InputsAssumption ==
    /\ Locations \subseteq Seq(STRING) \ {<<>>}
    /\ \A i \in Inputs :
          /\ i.request.path \in Seq(STRING) \ {<<>>}
          /\ \A n \in DOMAIN i.routes :
                {i.routes[n].prefix, i.routes[n].rewrite, i.routes[n].target} \subseteq Seq(STRING)

Unset == ""             \* no host or no method given: every one matches

VARIABLES input,
          pc,
          route,        \* the number of the route that serves the request, 0 for none
          path,         \* the path the client asks for
          body,         \* the top-level keys of the JSON object and their values
          todo,         \* keys whose renaming is still ahead
          upstream,     \* the path the upstream is asked for
          named         \* the path the upstream has named in a Location

vars == <<input, pc, route, path, body, todo, upstream, named>>

-------------------------------------------------------------------------------
(* Paths.                                                                   *)

\* strings.TrimSuffix(p, "/").
TrimSlash(p) == IF p # <<>> /\ Last(p) = "" THEN Front(p) ELSE p

JoinURLPath(left, right) == TrimSlash(left) \o (IF right = <<>> THEN <<"">> ELSE right)

After(p, prefix) == SubSeq(p, Len(prefix) + 1, Len(p))

RewritePath(p, prefix, replacement) == JoinURLPath(replacement, After(p, TrimSlash(prefix)))

\* normalizeRoute: no path_rewrite keeps the path.
PathRewrite(r) == IF r.rewrite = <<>> THEN r.prefix ELSE r.rewrite

\* Mutant: the rewrite is compared as it was written, "/x/" included.
StripRewriteAsWritten(p, r) ==
    LET rewrite == PathRewrite(r) IN
    IF rewrite # <<"">> /\ IsPrefix(rewrite, p) THEN After(p, rewrite) ELSE p

StripRewrite(p, r) ==
    LET rewrite == TrimSlash(PathRewrite(r)) IN
    IF rewrite # <<>> /\ IsPrefix(rewrite, p) THEN After(p, rewrite) ELSE p

\* rewriteRedirectLocation, for a Location on the same upstream.
RewriteRedirectLocation(p, r) == JoinURLPath(r.prefix, StripRewrite(p, r))

-------------------------------------------------------------------------------
(* Patterns: routePatterns, and http.ServeMux (external).                   *)

\* base and base + "/"; the latter stands for everything below.
RoutePatterns(routes, n) ==
    LET base == TrimSlash(routes[n].prefix) IN
    [route : {n}, host : {routes[n].host}, method : {routes[n].method}, base : {base},
     subtree : IF base = <<>> THEN {TRUE} ELSE BOOLEAN]

Patterns(routes) == UNION {RoutePatterns(routes, n) : n \in DOMAIN routes}

PathMatches(pattern, p) == IF pattern.subtree
                             THEN IsPrefix(pattern.base, p) /\ Len(p) > Len(pattern.base)
                             ELSE p = pattern.base

\* A GET pattern also serves HEAD.
MethodMatches(pattern, method) == \/ pattern.method \in {Unset, method}
                                  \/ pattern.method = "GET" /\ method = "HEAD"

\* Everything q matches, p matches as well.
Covers(p, q) == /\ MethodMatches(p, q.method)
                /\ \/ p.subtree /\ IsPrefix(p.base, q.base)
                               /\ (q.subtree \/ Len(q.base) > Len(p.base))
                   \/ ~p.subtree /\ ~q.subtree /\ p.base = q.base

\* Some request matches both.
Overlap(p, q) == /\ MethodMatches(p, q.method) \/ MethodMatches(q, p.method)
                 /\ \/ p.subtree /\ q.subtree /\ (IsPrefix(p.base, q.base) \/ IsPrefix(q.base, p.base))
                    \/ p.subtree /\ ~q.subtree /\ PathMatches(p, q.base)
                    \/ ~p.subtree /\ q.subtree /\ PathMatches(q, p.base)
                    \/ ~p.subtree /\ ~q.subtree /\ p.base = q.base

\* Handle panics on a second pattern that is not strictly above or below the first.
Conflict(p, q) == p.host = q.host /\ Overlap(p, q) /\ (Covers(p, q) <=> Covers(q, p))

\* Validate's own check: method, host and prefix name a route once.
Duplicate(r, s) == <<r.method, r.host, TrimSlash(r.prefix)>> = <<s.method, s.host, TrimSlash(s.prefix)>>

\* Mutant: Validate's check alone decides, patterns that overlap are served.
AcceptedIfDistinct(routes) == \A m, n \in DOMAIN routes : m # n => ~Duplicate(routes[m], routes[n])

Accepted(routes) ==
    \A m, n \in DOMAIN routes : m # n =>
        /\ ~Duplicate(routes[m], routes[n])
        /\ \A p \in RoutePatterns(routes, m), q \in RoutePatterns(routes, n) : ~Conflict(p, q)

\* ServeMux walks its tree by host, then by method, then by path, and takes the
\* first branch in which something matches.
Preferred(branch, patterns) == IF branch = {} THEN patterns ELSE branch

Dispatch(routes, request, p) ==
    LET matching == {t \in Patterns(routes) : /\ t.host \in {Unset, request.host}
                                              /\ MethodMatches(t, request.method)
                                              /\ PathMatches(t, p)}
        ofHost == Preferred({t \in matching : t.host # Unset}, matching)
        ofMethod == Preferred({t \in ofHost : t.method # Unset}, ofHost)
        branch == Preferred({t \in ofMethod : t.method = request.method}, ofMethod)
    IN  IF branch = {} THEN 0
        ELSE (CHOOSE t \in branch : \A o \in branch : Len(o.base) <= Len(t.base)).route

-------------------------------------------------------------------------------
(* transformJSON: remove, then rename in the order the map yields, then add. *)

Without(object, keys) == [k \in DOMAIN object \ keys |-> object[k]]
With(object, k, value) == [j \in DOMAIN object \cup {k} |-> IF j = k THEN value ELSE object[j]]

\* Mutant: the old key is left in place.
RenamedCopy(object, from, to) ==
    IF from \in DOMAIN object THEN With(object, to, object[from]) ELSE object

Renamed(object, from, to) ==
    IF from \in DOMAIN object THEN Without(With(object, to, object[from]), {from}) ELSE object

-------------------------------------------------------------------------------
r0 == input.routes[route]

Init == /\ input \in Inputs
        /\ Accepted(input.routes)
        /\ pc = "arrive"
        /\ route = 0
        /\ path = input.request.path
        /\ body = input.body
        /\ todo = {}
        /\ upstream = <<>>
        /\ named = <<>>

\* The mux finds a route, or answers 404.
Arrive == /\ pc = "arrive"
          /\ route' = Dispatch(input.routes, input.request, path)
          /\ pc' = IF route' = 0 THEN "done" ELSE "served"
          /\ UNCHANGED <<input, path, body, todo, upstream, named>>

\* forward begins to transform the body.
RemoveKeys == /\ pc = "served"
              /\ body' = Without(body, input.transform.remove)
              /\ todo' = DOMAIN input.transform.rename
              /\ pc' = "rename"
              /\ UNCHANGED <<input, route, path, upstream, named>>

Rename(from) == /\ pc = "rename"
                /\ from \in todo
                /\ todo' = todo \ {from}
                /\ body' = Renamed(body, from, input.transform.rename[from])
                /\ UNCHANGED <<input, pc, route, path, upstream, named>>

\* The body is complete; cloneUpstreamRequest computes the path and it is sent.
Send == /\ pc = "rename"
        /\ todo = {}
        /\ body' = [k \in DOMAIN body \cup DOMAIN input.transform.add |->
                       IF k \in DOMAIN input.transform.add THEN input.transform.add[k] ELSE body[k]]
        /\ upstream' = JoinURLPath(r0.target, RewritePath(path, r0.prefix, PathRewrite(r0)))
        /\ pc' = "sent"
        /\ UNCHANGED <<input, route, path, todo, named>>

\* The upstream redirects to a path of its own; the client follows once, with GET
\* and the rewritten Location.
Redirect(p) == /\ pc = "sent"
               /\ named = <<>>
               /\ r0.rewriteRedirects
               /\ named' = p
               /\ path' = RewriteRedirectLocation(p, r0)
               /\ body' = input.body
               /\ pc' = "follow"
               /\ UNCHANGED <<input, route, todo, upstream>>

Follow == /\ pc = "follow"
          /\ LET n == Dispatch(input.routes, [input.request EXCEPT !.method = "GET"], path) IN
             /\ pc' = IF n = route THEN "served" ELSE "done"
          /\ UNCHANGED <<input, route, path, body, todo, upstream, named>>

Finish == /\ pc = "sent"
          /\ pc' = "done"
          /\ UNCHANGED <<input, route, path, body, todo, upstream, named>>

Next == \/ Arrive \/ RemoveKeys \/ Send \/ Follow \/ Finish
        \/ \E from \in todo : Rename(from)
        \/ \E p \in Locations : Redirect(p)

Spec == Init /\ [][Next]_vars

-------------------------------------------------------------------------------
(***************************************************************************)
(* Properties.                                                             *)
(***************************************************************************)

\* Type invariant.
TypeOK ==
    /\ pc \in {"arrive", "served", "rename", "sent", "follow", "done"}
    /\ route \in {0} \cup DOMAIN input.routes
    /\ pc \in {"served", "rename", "sent", "follow"} => route # 0 /\ path # <<>>
    /\ todo \subseteq DOMAIN input.transform.rename
    /\ pc = "sent" => upstream # <<>>

\* The prefix of r leads to p, and r is for this host and method.
Concerns(r, p) == /\ r.host \in {Unset, input.request.host}
                  /\ MethodMatches(r, input.request.method)
                  /\ IsPrefix(TrimSlash(r.prefix), p)

\* compile accepts only tables in which the mux's search, host first, then method,
\* then path, serves every request by the longest prefix there is for its host: no
\* method list of one route hides a longer prefix of another.
LongestPrefixServes ==
    /\ TypeOK
    /\ pc = "served" /\ named = <<>> =>
          /\ Concerns(r0, path)
          /\ \A n \in DOMAIN input.routes : LET r == input.routes[n] IN
                Concerns(r, path) /\ (r.host = r0.host \/ r.host # Unset) =>
                    /\ r.host = r0.host
                    /\ Len(TrimSlash(r.prefix)) <= Len(TrimSlash(r0.prefix))

\* rewrite_redirects (docs/configuration.md:43): when the upstream redirects to a
\* path under the route's path_rewrite, the client that follows the rewritten
\* Location and is served by the same route reaches that very path, but for the
\* slash that a path equal to the rewrite gets.  It holds for upstream URLs without a path of their own, which
\* the Location would have to lose as well.
RedirectsLeadBack ==
    LET under == TrimSlash(PathRewrite(r0)) IN
    pc = "sent" /\ named # <<>> /\ r0.target = <<>> /\ IsPrefix(under, named) =>
        upstream = IF named = under THEN Append(named, "") ELSE named

\* What the transform says of every key, whatever order the renames are made in.
Meant(k) ==
    LET t == input.transform
        kept == DOMAIN input.body \ t.remove
        sources == {from \in DOMAIN t.rename \cap kept : t.rename[from] = k}
    IN  IF k \in DOMAIN t.add THEN {t.add[k]}
        ELSE IF sources # {} THEN {input.body[from] : from \in sources}
        ELSE IF k \in kept \ DOMAIN t.rename THEN {input.body[k]}
        ELSE {}

\* No key is renamed to one that is itself renamed, or to the target of another.
NoChains == LET rename == input.transform.rename IN
            \A f \in DOMAIN rename : /\ rename[f] \notin DOMAIN rename
                                     /\ \A g \in DOMAIN rename : rename[g] = rename[f] => g = f

\* transformJSON ranges over a map, in an order that differs from call to call: the
\* body sent is the same for every order, unless renames chain.
OrderDoesNotMatter ==
    pc = "sent" /\ NoChains =>
        \A k \in DOMAIN body \cup DOMAIN input.body \cup DOMAIN input.transform.add :
            Meant(k) = IF k \in DOMAIN body THEN {body[k]} ELSE {}
===============================================================================

---------------------------- MODULE RoutingProofs -----------------------------
(***************************************************************************)
(* Dispatch, rewriting and body transforms, for any table of routes, any   *)
(* paths and any JSON objects.                                             *)
(***************************************************************************)
EXTENDS Routing, Integers, SequenceTheorems, WellFoundedInduction, TLAPS

-------------------------------------------------------------------------------
(* Paths.                                                                  *)

Segment == STRING \cup {""}
Path == Seq(Segment)

\* "/" is a path.
LEMMA RootPath == <<"">> \in Path /\ <<"">> # <<>>
<1>1. "" \in Segment
  BY DEF Segment
<1>2. ASSUME NEW x \in Segment PROVE <<x>> \in Path /\ <<x>> # <<>>
  BY DEF Path
<1> QED BY <1>1, <1>2, Zenon

\* Trimming a slash shortens a path to a prefix of itself.
LEMMA TrimSlashPath == ASSUME NEW p \in Path PROVE TrimSlash(p) \in Path
<1>1. p # <<>> => Front(p) \in Path
  BY DEF Front, Path
<1> QED BY <1>1 DEF TrimSlash

\* A joined path is a path of at least one segment, the left one's and then the rest.
LEMMA JoinPath ==
    ASSUME NEW p \in Path, NEW q \in Path
    PROVE  JoinURLPath(p, q) \in Path /\ JoinURLPath(p, q) # <<>>
<1>1. TrimSlash(p) \in Path
  BY TrimSlashPath
<1> DEFINE r == IF q = <<>> THEN <<"">> ELSE q
<1>2. r \in Path /\ r # <<>>
  BY RootPath
<1>3. JoinURLPath(p, q) = TrimSlash(p) \o r
  BY DEF JoinURLPath
<1> HIDE DEF r
<1> QED BY <1>1, <1>2, <1>3, ConcatProperties, EmptySeq DEF Path

\* What follows a prefix.
LEMMA AfterPrefix ==
    ASSUME NEW p \in Path, NEW q \in Path
    PROVE  After(p \o q, p) = q
BY DEF After, Path

\* Prefixes agree segment by segment.
LEMMA PrefixSegments ==
    ASSUME NEW p \in Path, NEW q \in Path
    PROVE  IsPrefix(p, q) <=> Len(p) <= Len(q) /\ \A i \in 1 .. Len(p) : p[i] = q[i]
<1>1. Len(p) \in Nat /\ Len(q) \in Nat
  BY LenProperties DEF Path
<1>2. SubSeq(p, 1, Len(p)) = p
  BY SubSeqFull DEF Path
<1>3. SUFFICES ASSUME Len(p) <= Len(q)
               PROVE  p = SubSeq(q, 1, Len(p)) <=> \A i \in 1 .. Len(p) : p[i] = q[i]
  BY <1>2 DEF IsPrefix
<1> DEFINE f == SubSeq(q, 1, Len(p))
<1>4. f \in Path /\ Len(f) = Len(p) /\ \A i \in 1 .. Len(p) : f[i] = q[i]
  <2>1. \A i \in 1 .. Len(p) : q[i] \in Segment
    BY <1>1, <1>3, ElementOfSeq DEF Path
  <2>2. /\ f \in Path /\ Len(f) = IF 1 <= Len(p) THEN Len(p) - 1 + 1 ELSE 0
        /\ \A i \in 1 .. Len(p) - 1 + 1 : f[i] = q[1 + i - 1]
    BY <1>1, <2>1, SubSeqProperties DEF Path
  <2> QED BY <1>1, <2>2
<1> HIDE DEF f
<1>5. (\A i \in 1 .. Len(p) : p[i] = f[i]) => p = f
  BY <1>4, SeqEqual DEF Path
<1> QED BY <1>4, <1>5 DEF f

\* A path is its prefix and what follows it.
LEMMA PrefixAndRest ==
    ASSUME NEW p \in Path, NEW q \in Path, IsPrefix(p, q)
    PROVE  After(q, p) \in Path /\ p \o After(q, p) = q
<1>1. Len(p) \in Nat /\ Len(q) \in Nat /\ Len(p) <= Len(q) /\ \A i \in 1 .. Len(p) : p[i] = q[i]
  BY PrefixSegments, LenProperties DEF Path
<1> DEFINE a == SubSeq(q, Len(p) + 1, Len(q))
<1>2. a \in Path /\ Len(a) = Len(q) - Len(p) /\ \A i \in 1 .. Len(q) - Len(p) : a[i] = q[Len(p) + i]
  <2>1. \A i \in Len(p) + 1 .. Len(q) : q[i] \in Segment
    BY <1>1, ElementOfSeq DEF Path
  <2>2. /\ a \in Path /\ Len(a) = IF Len(p) + 1 <= Len(q) THEN Len(q) - (Len(p) + 1) + 1 ELSE 0
        /\ \A i \in 1 .. Len(q) - (Len(p) + 1) + 1 : a[i] = q[(Len(p) + 1) + i - 1]
    BY <1>1, <2>1, SubSeqProperties DEF Path
  <2> QED BY <1>1, <2>2
<1>3. a = After(q, p)
  BY DEF After
<1> HIDE DEF a
<1>4. /\ p \o a \in Path /\ Len(p \o a) = Len(p) + Len(a)
      /\ \A i \in 1 .. Len(p) + Len(a) : (p \o a)[i] = IF i <= Len(p) THEN p[i] ELSE a[i - Len(p)]
  BY <1>2, ConcatProperties DEF Path
<1>5. Len(p \o a) = Len(q)
  BY <1>1, <1>2, <1>4
<1>6. ASSUME NEW i \in 1 .. Len(p \o a) PROVE (p \o a)[i] = q[i]
  <2>1. CASE i <= Len(p)
    BY <1>1, <1>2, <1>4, <2>1
  <2>2. CASE i > Len(p)
    <3>1. i - Len(p) \in 1 .. Len(q) - Len(p) /\ Len(p) + (i - Len(p)) = i
      BY <1>1, <1>5, <2>2
    <3>2. (p \o a)[i] = a[i - Len(p)] /\ a[i - Len(p)] = q[Len(p) + (i - Len(p))]
      BY <1>1, <1>2, <1>4, <2>2, <3>1
    <3> QED BY <3>1, <3>2
  <2> QED BY <1>1, <1>2, <1>4, <2>1, <2>2
<1>7. p \o a = q
  BY <1>4, <1>5, <1>6, SeqEqual DEF Path
<1> QED BY <1>2, <1>3, <1>7

\* Two prefixes of one path: the shorter is a prefix of the longer.
LEMMA PrefixesNest ==
    ASSUME NEW p \in Path, NEW q \in Path, NEW r \in Path,
           IsPrefix(p, r), IsPrefix(q, r), Len(p) <= Len(q)
    PROVE  IsPrefix(p, q)
<1>1. /\ Len(p) \in Nat /\ Len(q) \in Nat
      /\ \A i \in 1 .. Len(p) : p[i] = r[i]
      /\ \A i \in 1 .. Len(q) : q[i] = r[i]
  BY PrefixSegments, LenProperties DEF Path
<1>2. \A i \in 1 .. Len(p) : i \in 1 .. Len(q)
  BY <1>1
<1> QED BY <1>1, <1>2, PrefixSegments

\* What a redirect is rewritten to and the way back: the upstream is asked for the
\* path it has named, with a slash if that was the rewrite itself.
LEMMA ThereAndBack ==
    ASSUME NEW prefix \in Path, NEW under \in Path, NEW p \in Path, p # <<>>, IsPrefix(under, p)
    PROVE  LET strip == IF under # <<>> THEN After(p, under) ELSE p
               rest  == After(JoinURLPath(prefix, strip), TrimSlash(prefix))
           IN  /\ rest # <<>>
               /\ under \o rest = IF p = under THEN Append(p, "") ELSE p
<1> DEFINE strip == IF under # <<>> THEN After(p, under) ELSE p
           full == IF strip = <<>> THEN <<"">> ELSE strip
           rest == After(JoinURLPath(prefix, strip), TrimSlash(prefix))
<1>1. strip \in Path /\ under \o strip = p
  <2>1. After(p, under) \in Path /\ under \o After(p, under) = p
    BY PrefixAndRest
  <2>2. <<>> \o p = p
    BY ConcatEmptySeq DEF Path
  <2> QED BY <2>1, <2>2
<1> HIDE DEF strip
<1>2. full \in Path /\ full # <<>>
  BY <1>1, RootPath
<1>3. JoinURLPath(prefix, strip) = TrimSlash(prefix) \o full
  BY DEF JoinURLPath
<1>4. rest = full
  <2> HIDE DEF full
  <2>1. TrimSlash(prefix) \in Path
    BY TrimSlashPath
  <2>2. After(TrimSlash(prefix) \o full, TrimSlash(prefix)) = full
    BY <1>2, <2>1, AfterPrefix
  <2> QED BY <1>3, <2>2
<1>5. CASE strip = <<>>
  <2>1. p = under /\ full = <<"">>
    <3>1. under \o <<>> = under
      BY ConcatEmptySeq DEF Path
    <3> QED BY <1>1, <1>5, <3>1
  <2>2. under \o <<"">> = Append(under, "")
    <3>1. ASSUME NEW x \in Segment PROVE under \o <<x>> = Append(under, x)
      BY AppendIsConcat DEF Path
    <3>2. "" \in Segment
      BY DEF Segment
    <3> QED BY <3>1, <3>2, Zenon
  <2> QED BY <1>2, <1>4, <2>1, <2>2 DEF strip
<1>6. CASE strip # <<>>
  <2>1. p # under
    BY <1>1, <1>6, ConcatEqualIffEmpty DEF Path
  <2> QED BY <1>1, <1>2, <1>4, <1>6, <2>1 DEF strip
<1> QED BY <1>5, <1>6

-------------------------------------------------------------------------------
(* Dispatch.                                                               *)

\* Of patterns that lead to one path there is a longest.
LEMMA LongestExists ==
    ASSUME NEW p \in Path, NEW branch, branch # {},
           \A t \in branch : t.base \in Path /\ Len(t.base) <= Len(p)
    PROVE  \E t \in branch : \A o \in branch : Len(o.base) <= Len(t.base)
<1>1. Len(p) \in Nat /\ \A t \in branch : Len(t.base) \in Nat /\ Len(p) - Len(t.base) \in Nat
  BY LenProperties DEF Path
<1> DEFINE gaps == {Len(p) - Len(t.base) : t \in branch}
<1>2. gaps \subseteq Nat /\ gaps # {}
  BY <1>1
<1>3. PICK x \in gaps : \A y \in gaps : ~(<<y, x>> \in OpToRel(<, Nat))
  BY <1>2, WFMin, NatLessThanWellFounded
<1>4. \A y \in gaps : ~(y < x)
  BY <1>2, <1>3 DEF OpToRel
<1>5. PICK t \in branch : x = Len(p) - Len(t.base)
  BY <1>3
<1>6. ASSUME NEW o \in branch PROVE Len(o.base) <= Len(t.base)
  <2>1. ~(Len(p) - Len(o.base) < Len(p) - Len(t.base))
    BY <1>4, <1>5
  <2>2. Len(p) \in Nat /\ Len(o.base) \in Nat /\ Len(t.base) \in Nat
    BY <1>1
  <2> QED BY <2>1, <2>2
<1> QED BY <1>6

\* The two patterns of a route.
LEMMA PatternFacts ==
    ASSUME NEW routes, NEW n, NEW t \in RoutePatterns(routes, n)
    PROVE  /\ t.route = n /\ t.host = routes[n].host /\ t.method = routes[n].method
           /\ t.base = TrimSlash(routes[n].prefix) /\ t.subtree \in BOOLEAN
BY DEF RoutePatterns

\* One of them leads to every path that the route's prefix leads to.
LEMMA PrefixHasPattern ==
    ASSUME NEW routes, NEW n, routes[n].prefix \in Path, NEW p \in Path, p # <<>>,
           IsPrefix(TrimSlash(routes[n].prefix), p)
    PROVE  \E t \in RoutePatterns(routes, n) : PathMatches(t, p)
<1> DEFINE base == TrimSlash(routes[n].prefix)
           pattern(b) == [route |-> n, host |-> routes[n].host, method |-> routes[n].method,
                          base |-> base, subtree |-> b]
<1>1. /\ base \in Path /\ Len(base) \in Nat /\ Len(p) \in Nat
      /\ Len(base) <= Len(p) /\ \A i \in 1 .. Len(base) : base[i] = p[i]
  BY TrimSlashPath, PrefixSegments, LenProperties DEF Path
<1>2. CASE Len(p) > Len(base)
  <2>1. pattern(TRUE) \in RoutePatterns(routes, n)
    BY DEF RoutePatterns
  <2>2. PathMatches(pattern(TRUE), p)
    BY <1>2 DEF PathMatches
  <2> QED BY <2>1, <2>2
<1>3. CASE Len(p) = Len(base)
  <2>1. base = p
    BY <1>1, <1>3, SeqEqual DEF Path
  <2>2. pattern(FALSE) \in RoutePatterns(routes, n)
    BY <2>1 DEF RoutePatterns
  <2>3. PathMatches(pattern(FALSE), p)
    BY <2>1 DEF PathMatches
  <2> QED BY <2>2, <2>3
<1> QED BY <1>1, <1>2, <1>3

\* A pattern that matches has a prefix of the path as its base.
LEMMA MatchIsPrefix ==
    ASSUME NEW p \in Path, NEW t, t.base \in Path, PathMatches(t, p)
    PROVE  IsPrefix(t.base, p) /\ Len(t.base) <= Len(p) /\ (~t.subtree => Len(t.base) = Len(p))
<1>1. Len(p) \in Nat /\ IsPrefix(p, p)
  BY PrefixSegments, LenProperties DEF Path
<1> QED BY <1>1, PrefixSegments DEF PathMatches

\* ServeMux: a longer pattern u that the search leaves for the branch of t, because of the
\* methods, is one that compile would have refused beside t.
LEMMA HiddenPatternsConflict ==
    ASSUME NEW p \in Path, NEW t, NEW u, t.base \in Path, u.base \in Path,
           PathMatches(t, p), PathMatches(u, p), t.host = u.host,
           t.subtree \in BOOLEAN, u.subtree \in BOOLEAN,
           MethodMatches(u, t.method), ~MethodMatches(t, u.method),
           Len(t.base) < Len(u.base)
    PROVE  Conflict(t, u)
<1>1. /\ IsPrefix(t.base, p) /\ IsPrefix(u.base, p) /\ Len(u.base) <= Len(p)
      /\ (~t.subtree => Len(t.base) = Len(p))
      /\ Len(t.base) \in Nat /\ Len(u.base) \in Nat /\ Len(p) \in Nat
  BY MatchIsPrefix, LenProperties DEF Path
<1>2. t.subtree /\ IsPrefix(t.base, u.base)
  BY <1>1, PrefixesNest
<1>3. Overlap(t, u)
  BY <1>2 DEF Overlap, PathMatches
<1>4. ~IsPrefix(u.base, t.base)
  BY <1>1, PrefixSegments
<1>5. ~Covers(t, u) /\ ~Covers(u, t)
  BY <1>2, <1>4 DEF Covers
<1> QED BY <1>3, <1>5 DEF Conflict

\* The route that is found leads to the path, and no other route with a say has a longer
\* prefix for it.
LEMMA DispatchIsLongest ==
    ASSUME NEW routes, NEW request, NEW p \in Path, p # <<>>,
           \A n \in DOMAIN routes : routes[n].prefix \in Path,
           Accepted(routes), Dispatch(routes, request, p) # 0
    PROVE  LET m == Dispatch(routes, request, p)
               Leads(n) == /\ routes[n].host \in {Unset, request.host}
                           /\ MethodMatches(routes[n], request.method)
                           /\ IsPrefix(TrimSlash(routes[n].prefix), p)
           IN  /\ m \in DOMAIN routes /\ Leads(m)
               /\ \A n \in DOMAIN routes :
                     Leads(n) /\ (routes[n].host = routes[m].host \/ routes[n].host # Unset) =>
                        /\ routes[n].host = routes[m].host
                        /\ Len(TrimSlash(routes[n].prefix)) <= Len(TrimSlash(routes[m].prefix))
<1> DEFINE matching == {t \in Patterns(routes) : /\ t.host \in {Unset, request.host}
                                                 /\ MethodMatches(t, request.method)
                                                 /\ PathMatches(t, p)}
           ofHost == Preferred({t \in matching : t.host # Unset}, matching)
           ofMethod == Preferred({t \in ofHost : t.method # Unset}, ofHost)
           branch == Preferred({t \in ofMethod : t.method = request.method}, ofMethod)
           Leads(n) == /\ routes[n].host \in {Unset, request.host}
                       /\ MethodMatches(routes[n], request.method)
                       /\ IsPrefix(TrimSlash(routes[n].prefix), p)
           best == CHOOSE t \in branch : \A o \in branch : Len(o.base) <= Len(t.base)
           m == Dispatch(routes, request, p)
<1>1. branch # {} /\ m = best.route
  BY DEF Dispatch
<1>2. branch \subseteq ofMethod /\ ofMethod \subseteq ofHost /\ ofHost \subseteq matching
  BY DEF Preferred
<1>3. ASSUME NEW t \in matching
      PROVE  /\ t.route \in DOMAIN routes /\ t \in RoutePatterns(routes, t.route)
             /\ t.host = routes[t.route].host /\ t.method = routes[t.route].method
             /\ t.base = TrimSlash(routes[t.route].prefix) /\ t.subtree \in BOOLEAN
             /\ t.host \in {Unset, request.host} /\ MethodMatches(t, request.method)
             /\ PathMatches(t, p) /\ t.base \in Path /\ Len(t.base) <= Len(p) /\ IsPrefix(t.base, p)
  <2>1. PICK n \in DOMAIN routes : t \in RoutePatterns(routes, n)
    BY DEF Patterns
  <2>2. /\ t.route = n /\ t.host = routes[n].host /\ t.method = routes[n].method
        /\ t.base = TrimSlash(routes[n].prefix) /\ t.subtree \in BOOLEAN
    BY <2>1, PatternFacts
  <2>3. t.base \in Path
    BY <2>2, TrimSlashPath
  <2>4. PathMatches(t, p) /\ t.host \in {Unset, request.host} /\ MethodMatches(t, request.method)
    OBVIOUS
  <2> QED BY <2>1, <2>2, <2>3, <2>4, MatchIsPrefix
<1>4. best \in branch /\ \A o \in branch : Len(o.base) <= Len(best.base)
  <2>1. \A t \in branch : t.base \in Path /\ Len(t.base) <= Len(p)
    BY <1>2, <1>3
  <2> HIDE DEF branch
  <2>2. \E t \in branch : \A o \in branch : Len(o.base) <= Len(t.base)
    BY <1>1, <2>1, LongestExists
  <2> QED BY <2>2
<1> HIDE DEF best
<1>5. best \in matching
  BY <1>2, <1>4
<1>6. m \in DOMAIN routes /\ Leads(m)
  <2>1. MethodMatches(best, request.method) => MethodMatches(routes[m], request.method)
    BY <1>1, <1>3, <1>5 DEF MethodMatches
  <2> QED BY <1>1, <1>3, <1>5, <2>1
<1>7. ASSUME NEW n \in DOMAIN routes, Leads(n),
             routes[n].host = routes[m].host \/ routes[n].host # Unset
      PROVE  /\ routes[n].host = routes[m].host
             /\ Len(TrimSlash(routes[n].prefix)) <= Len(TrimSlash(routes[m].prefix))
  <2>1. PICK u \in RoutePatterns(routes, n) : PathMatches(u, p)
    BY <1>7, PrefixHasPattern
  <2>2. /\ u.route = n /\ u.host = routes[n].host /\ u.method = routes[n].method
        /\ u.base = TrimSlash(routes[n].prefix) /\ u.subtree \in BOOLEAN
    BY <2>1, PatternFacts
  <2>3. u \in matching
    <3>1. u \in Patterns(routes)
      BY <2>1 DEF Patterns
    <3>2. MethodMatches(u, request.method)
      BY <1>7, <2>2 DEF MethodMatches
    <3> QED BY <1>7, <2>1, <2>2, <3>1, <3>2
  <2>4. best.host = routes[m].host /\ best.base = TrimSlash(routes[m].prefix)
    BY <1>1, <1>3, <1>5
  <2>5. u \in ofHost /\ u.host = best.host
    <3>1. best \in ofHost
      BY <1>2, <1>4
    <3>2. best.host \in {Unset, request.host} /\ u.host \in {Unset, request.host}
      BY <1>3, <1>5, <2>3
    <3> HIDE DEF matching
    <3>3. CASE u.host # Unset
      <4>1. best.host # Unset
        BY <2>3, <3>1, <3>3 DEF Preferred
      <4>2. u \in ofHost
        BY <2>3, <3>3 DEF Preferred
      <4> QED BY <3>2, <3>3, <4>1, <4>2
    <3>4. CASE u.host = Unset
      <4>1. best.host = Unset
        BY <1>7, <2>2, <2>4, <3>4
      <4>2. u \in ofHost
        BY <2>3, <3>1, <4>1 DEF Preferred
      <4> QED BY <3>4, <4>1, <4>2
    <3> QED BY <3>3, <3>4
  <2>6. Len(u.base) <= Len(best.base)
    <3>1. SUFFICES ASSUME Len(best.base) < Len(u.base) PROVE FALSE
      <4>1. Len(u.base) \in Nat /\ Len(best.base) \in Nat
        BY <1>3, <1>5, <2>3, LenProperties DEF Path
      <4> QED BY <4>1
    <3>2. u \notin branch
      <4>1. Len(u.base) \in Nat /\ Len(best.base) \in Nat
        BY <1>3, <1>5, <2>3, LenProperties DEF Path
      <4> QED BY <1>4, <3>1, <4>1
    <3>3. MethodMatches(u, request.method) /\ MethodMatches(best, request.method)
      BY <1>3, <1>5, <2>3
    <3>4. best \in ofMethod /\ best \in ofHost /\ best \in branch
      BY <1>2, <1>4
    <3> HIDE DEF matching
    <3>5. ~MethodMatches(best, u.method)
      <4> HIDE DEF ofHost
      <4>1. ASSUME best.method = u.method PROVE FALSE
        <5>1. u \in ofMethod
          BY <2>5, <3>4, <4>1 DEF Preferred
        <5> HIDE DEF ofMethod
        <5> QED BY <3>2, <3>4, <4>1, <5>1 DEF Preferred
      <4>2. ASSUME best.method = Unset, u.method # Unset PROVE FALSE
        BY <2>5, <3>4, <4>2 DEF Preferred
      <4>3. ASSUME best.method = "GET", u.method = "HEAD" PROVE FALSE
        <5>1. request.method = "HEAD"
          BY <3>3, <4>3 DEF MethodMatches, Unset
        <5>2. u \in ofMethod
          BY <2>5, <4>3 DEF Preferred, Unset
        <5> HIDE DEF ofMethod
        <5> QED BY <3>4, <4>3, <5>1, <5>2 DEF Preferred
      <4> QED BY <4>1, <4>2, <4>3 DEF MethodMatches
    <3>6. MethodMatches(u, best.method)
      BY <3>3, <3>5 DEF MethodMatches
    <3>7. Conflict(best, u)
      BY <1>3, <1>5, <2>3, <2>5, <3>1, <3>5, <3>6, HiddenPatternsConflict DEF matching
    <3>8. n # m
      BY <2>2, <2>4, <3>1, <1>3, <1>5, LenProperties DEF Path
    <3>9. best \in RoutePatterns(routes, m)
      BY <1>1, <1>3, <1>5
    <3> QED BY <1>6, <2>1, <3>7, <3>8, <3>9 DEF Accepted
  <2> QED BY <2>2, <2>4, <2>5, <2>6
<1> QED BY <1>6, <1>7

-------------------------------------------------------------------------------
(* Bodies.                                                                 *)

Kept == DOMAIN input.body \ input.transform.remove

\* The body after the renames in `done`, whatever order they were made in: renamed keys
\* are gone, their targets have their values and the others are untouched.
RenamedBy(done) ==
    LET rename == input.transform.rename
        moved  == done \cap Kept
    IN  /\ \A k : k \in DOMAIN body <=> (k \in Kept \ done \/ \E f \in moved : rename[f] = k)
        /\ \A f \in moved : body[rename[f]] = input.body[f]
        /\ \A k \in Kept \ done : (\A f \in moved : rename[f] # k) => body[k] = input.body[k]

BodyInv ==
    /\ pc \in {"arrive", "served", "follow"} => body = input.body
    /\ pc = "rename" => /\ todo \subseteq DOMAIN input.transform.rename
                        /\ NoChains => RenamedBy(DOMAIN input.transform.rename \ todo)
    /\ OrderDoesNotMatter

\* One rename more.
LEMMA RenameKeeps ==
    ASSUME BodyInv, NoChains, NEW from \in todo, Rename(from)
    PROVE  RenamedBy(DOMAIN input.transform.rename \ todo)'
<1> DEFINE rename == input.transform.rename
           done == DOMAIN rename \ todo
           to == rename[from]
           b == input.body
           moved == done \cap Kept
<1>1. /\ todo \subseteq DOMAIN rename /\ RenamedBy(done)
      /\ input' = input /\ todo' = todo \ {from} /\ body' = Renamed(body, from, to)
  BY DEF BodyInv, Rename
<1>2. /\ from \in DOMAIN rename /\ from \notin done
      /\ DOMAIN rename \ todo' = done \cup {from}
  BY <1>1
<1>3. /\ \A f \in DOMAIN rename : rename[f] \notin DOMAIN rename
      /\ \A f, g \in DOMAIN rename : rename[g] = rename[f] => g = f
  BY DEF NoChains
<1>4. /\ \A k : k \in DOMAIN body <=> (k \in Kept \ done \/ \E f \in moved : rename[f] = k)
      /\ \A f \in moved : body[rename[f]] = b[f]
      /\ \A k \in Kept \ done : (\A f \in moved : rename[f] # k) => body[k] = b[k]
  BY <1>1 DEF RenamedBy
<1>5. from \in DOMAIN body <=> from \in Kept
  BY <1>2, <1>3, <1>4
<1>6. SUFFICES LET new == (done \cup {from}) \cap Kept IN
               /\ \A k : k \in DOMAIN body' <=> (k \in Kept \ (done \cup {from}) \/ \E f \in new : rename[f] = k)
               /\ \A f \in new : body'[rename[f]] = b[f]
               /\ \A k \in Kept \ (done \cup {from}) : (\A f \in new : rename[f] # k) => body'[k] = b[k]
  <2>1. Kept' = Kept /\ input.transform.rename' = rename /\ input.body' = b
    BY <1>1 DEF Kept
  <2>2. (DOMAIN input.transform.rename \ todo)' = done \cup {from}
    BY <1>1, <1>2
  <2> HIDE DEF rename, done, b
  <2> QED BY <1>6, <2>1, <2>2 DEF RenamedBy
<1> HIDE DEF rename, done, b
<1>7. CASE from \notin Kept
  <2>1. body' = body /\ (done \cup {from}) \cap Kept = moved /\ Kept \ (done \cup {from}) = Kept \ done
    BY <1>1, <1>5, <1>7 DEF Renamed
  <2> QED BY <1>4, <2>1
<1>8. CASE from \in Kept
  <2>1. /\ DOMAIN body' = (DOMAIN body \cup {to}) \ {from}
        /\ \A k \in DOMAIN body' : body'[k] = IF k = to THEN body[from] ELSE body[k]
    BY <1>1, <1>5, <1>8 DEF Renamed, With, Without
  <2>2. body[from] = b[from]
    BY <1>2, <1>3, <1>4, <1>8
  <2>3. to # from /\ to \notin done /\ \A f \in moved : rename[f] # to /\ rename[f] # from
    BY <1>1, <1>2, <1>3 DEF done
  <2>4. (done \cup {from}) \cap Kept = moved \cup {from}
    BY <1>8
  <2>5. \A k : k \in DOMAIN body' <=> (k \in Kept \ (done \cup {from}) \/ \E f \in moved \cup {from} : rename[f] = k)
    BY <1>4, <1>8, <2>1, <2>3
  <2>6. ASSUME NEW f \in moved \cup {from} PROVE body'[rename[f]] = b[f]
    <3>1. rename[f] \in DOMAIN body'
      BY <2>5
    <3> QED BY <1>4, <2>1, <2>2, <2>3, <3>1
  <2>7. ASSUME NEW k \in Kept \ (done \cup {from}), \A f \in moved \cup {from} : rename[f] # k
        PROVE  body'[k] = b[k]
    <3>1. k \in DOMAIN body' /\ k # to
      BY <2>5, <2>7
    <3> QED BY <1>4, <2>1, <2>7, <3>1
  <2> QED BY <2>4, <2>5, <2>6, <2>7
<1> QED BY <1>7, <1>8

\* The body as it is sent.
LEMMA SendKeeps ==
    ASSUME BodyInv, Send
    PROVE  OrderDoesNotMatter'
<1> DEFINE t == input.transform
           rename == t.rename
           b == input.body
           moved == DOMAIN rename \cap Kept
<1>1. SUFFICES ASSUME NoChains', NEW k
               PROVE  Meant(k)' = IF k \in DOMAIN body' THEN {body'[k]} ELSE {}
  BY DEF OrderDoesNotMatter
<1>2. /\ input' = input /\ pc = "rename" /\ todo = {}
      /\ body' = [j \in DOMAIN body \cup DOMAIN t.add |-> IF j \in DOMAIN t.add THEN t.add[j] ELSE body[j]]
  BY DEF Send
<1>3. NoChains
  BY <1>1, <1>2 DEF NoChains
<1>4. RenamedBy(DOMAIN rename)
  BY <1>2, <1>3 DEF BodyInv
<1>5. /\ \A j : j \in DOMAIN body <=> (j \in Kept \ DOMAIN rename \/ \E f \in moved : rename[f] = j)
      /\ \A f \in moved : body[rename[f]] = b[f]
      /\ \A j \in Kept \ DOMAIN rename : (\A f \in moved : rename[f] # j) => body[j] = b[j]
  BY <1>4 DEF RenamedBy
<1>6. \A f, g \in DOMAIN rename : rename[g] = rename[f] => g = f
  BY <1>3 DEF NoChains
<1> DEFINE sources == {f \in DOMAIN rename \cap Kept : rename[f] = k}
<1>7. Meant(k)' = IF k \in DOMAIN t.add THEN {t.add[k]}
                  ELSE IF sources # {} THEN {b[f] : f \in sources}
                  ELSE IF k \in Kept \ DOMAIN rename THEN {b[k]}
                  ELSE {}
  BY <1>2 DEF Meant, Kept
<1>8. CASE k \in DOMAIN t.add
  BY <1>2, <1>7, <1>8
<1>9. CASE k \notin DOMAIN t.add /\ sources # {}
  <2>1. PICK f \in sources : TRUE
    BY <1>9
  <2>2. sources = {f}
    BY <1>6, <2>1
  <2>3. {b[g] : g \in sources} = {b[f]}
    BY <2>2
  <2>4. k \in DOMAIN body /\ body[k] = b[f]
    BY <1>5, <2>1
  <2> QED BY <1>2, <1>7, <1>9, <2>3, <2>4
<1>10. CASE k \notin DOMAIN t.add /\ sources = {} /\ k \in Kept \ DOMAIN rename
  <2>1. k \in DOMAIN body /\ body[k] = b[k]
    BY <1>5, <1>10
  <2> QED BY <1>2, <1>7, <1>10, <2>1
<1>11. CASE k \notin DOMAIN t.add /\ sources = {} /\ k \notin Kept \ DOMAIN rename
  <2>1. k \notin DOMAIN body
    BY <1>5, <1>11
  <2> QED BY <1>2, <1>7, <1>11, <2>1
<1> QED BY <1>8, <1>9, <1>10, <1>11

-------------------------------------------------------------------------------
(* The inductive invariant.                                                *)

\* Inputs do not change, the table is one that compiles and paths are paths.
InputInv ==
    /\ input \in Inputs /\ Accepted(input.routes)
    /\ path \in Path /\ path # <<>> /\ named \in Path
    /\ pc = "arrive" => named = <<>>
    /\ pc = "follow" => named # <<>>

\* After a redirect the client is where the rewritten Location leads, and the upstream
\* is asked for what becomes of that.
RedirectInv ==
    /\ pc \in {"served", "rename", "sent", "follow"} /\ named # <<>> =>
          path = RewriteRedirectLocation(named, r0)
    /\ pc = "sent" => upstream = JoinURLPath(r0.target, RewritePath(path, r0.prefix, PathRewrite(r0)))

RoutingInv == InputInv /\ LongestPrefixServes /\ RedirectInv /\ BodyInv

\* The paths of a table are paths.
LEMMA TablePaths ==
    ASSUME NEW i \in Inputs, NEW n \in DOMAIN i.routes
    PROVE  i.routes[n].prefix \in Path /\ i.routes[n].rewrite \in Path /\ i.routes[n].target \in Path
<1>1. STRING \subseteq Segment
  BY DEF Segment
<1>2. i.routes[n].prefix \in Seq(STRING) /\ i.routes[n].rewrite \in Seq(STRING) /\ i.routes[n].target \in Seq(STRING)
  BY InputsAssumption
<1> QED BY <1>1, <1>2, SeqMonotonic DEF Path

\* So are those of requests and redirects.
LEMMA GivenPaths ==
    /\ \A i \in Inputs : i.request.path \in Path /\ i.request.path # <<>>
    /\ \A p \in Locations : p \in Path /\ p # <<>>
<1>1. STRING \subseteq Segment
  BY DEF Segment
<1>2. \A p \in Seq(STRING) : p \in Path
  BY <1>1, SeqMonotonic DEF Path
<1> QED BY <1>2, InputsAssumption

\* What a route makes of a path is a path.
LEMMA RewrittenPaths ==
    ASSUME InputInv, route \in DOMAIN input.routes, NEW p \in Path
    PROVE  /\ RewriteRedirectLocation(p, r0) \in Path /\ RewriteRedirectLocation(p, r0) # <<>>
           /\ JoinURLPath(r0.target, RewritePath(p, r0.prefix, PathRewrite(r0))) # <<>>
<1>1. r0.prefix \in Path /\ r0.rewrite \in Path /\ r0.target \in Path /\ PathRewrite(r0) \in Path
  BY TablePaths DEF InputInv, r0, PathRewrite
<1>2. \A q \in Path : After(p, q) \in Path
  <2>1. TAKE q \in Path
  <2>2. Len(q) \in Nat /\ Len(p) \in Nat
    BY LenProperties DEF Path
  <2>3. \A i \in Len(q) + 1 .. Len(p) : p[i] \in Segment
    BY <2>2, ElementOfSeq DEF Path
  <2> QED BY <2>2, <2>3, SubSeqProperties DEF After, Path
<1>3. StripRewrite(p, r0) \in Path
  BY <1>1, <1>2, TrimSlashPath DEF StripRewrite
<1>4. RewritePath(p, r0.prefix, PathRewrite(r0)) \in Path
  BY <1>1, <1>2, TrimSlashPath, JoinPath DEF RewritePath
<1> QED BY <1>1, <1>3, <1>4, JoinPath DEF RewriteRedirectLocation

\* It holds at the start,
LEMMA RoutingInit == Init => RoutingInv
<1> SUFFICES ASSUME Init PROVE RoutingInv
  OBVIOUS
<1>1. InputInv
  <2>1. <<>> \in Path
    BY EmptySeq DEF Path
  <2> QED BY <2>1, GivenPaths DEF Init, InputInv
<1>2. LongestPrefixServes /\ RedirectInv
  BY DEF Init, LongestPrefixServes, TypeOK, RedirectInv
<1>3. BodyInv
  BY DEF Init, BodyInv, OrderDoesNotMatter
<1> QED BY <1>1, <1>2, <1>3 DEF RoutingInv

\* the mux keeps it,
LEMMA ArriveKeeps == ASSUME RoutingInv, Arrive PROVE RoutingInv'
<1>1. /\ InputInv /\ TypeOK /\ BodyInv /\ pc = "arrive" /\ named = <<>>
      /\ route' = Dispatch(input.routes, input.request, path)
      /\ pc' = IF route' = 0 THEN "done" ELSE "served"
      /\ UNCHANGED <<input, path, body, todo, upstream, named>>
  BY DEF RoutingInv, Arrive, LongestPrefixServes, InputInv
<1>2. InputInv'
  BY <1>1 DEF InputInv
<1>3. RedirectInv' /\ BodyInv'
  BY <1>1 DEF RedirectInv, BodyInv, OrderDoesNotMatter
<1>4. LongestPrefixServes'
  <2>1. CASE route' = 0
    BY <1>1, <2>1 DEF LongestPrefixServes, TypeOK
  <2>2. CASE route' # 0
    <3> DEFINE m == route'
               Leads(n) == /\ input.routes[n].host \in {Unset, input.request.host}
                           /\ MethodMatches(input.routes[n], input.request.method)
                           /\ IsPrefix(TrimSlash(input.routes[n].prefix), path)
    <3>1. \A n \in DOMAIN input.routes : input.routes[n].prefix \in Path
      BY <1>1, TablePaths DEF InputInv
    <3>2. /\ m \in DOMAIN input.routes /\ Leads(m)
          /\ \A n \in DOMAIN input.routes :
                Leads(n) /\ (input.routes[n].host = input.routes[m].host \/ input.routes[n].host # Unset) =>
                   /\ input.routes[n].host = input.routes[m].host
                   /\ Len(TrimSlash(input.routes[n].prefix)) <= Len(TrimSlash(input.routes[m].prefix))
      BY <1>1, <2>2, <3>1, DispatchIsLongest DEF InputInv
    <3>3. TypeOK'
      BY <1>1, <2>2, <3>2 DEF TypeOK, InputInv
    <3>4. pc' = "served" /\ input' = input /\ path' = path /\ r0' = input.routes[m]
      BY <1>1, <2>2 DEF r0
    <3>5. \A r : Concerns(r, path)' <=> /\ r.host \in {Unset, input.request.host}
                                       /\ MethodMatches(r, input.request.method)
                                       /\ IsPrefix(TrimSlash(r.prefix), path)
      BY <3>4 DEF Concerns
    <3> HIDE DEF m
    <3> QED BY <3>2, <3>3, <3>4, <3>5 DEF LongestPrefixServes
  <2> QED BY <2>1, <2>2
<1> QED BY <1>2, <1>3, <1>4 DEF RoutingInv

\* the transform keeps it,
LEMMA RemoveKeysKeeps == ASSUME RoutingInv, RemoveKeys PROVE RoutingInv'
<1>1. /\ InputInv /\ TypeOK /\ RedirectInv /\ BodyInv /\ pc = "served" /\ pc' = "rename"
      /\ body' = Without(body, input.transform.remove) /\ todo' = DOMAIN input.transform.rename
      /\ UNCHANGED <<input, route, path, upstream, named>>
  BY DEF RoutingInv, RemoveKeys, LongestPrefixServes
<1>2. InputInv'
  BY <1>1 DEF InputInv
<1>3. LongestPrefixServes'
  BY <1>1 DEF LongestPrefixServes, TypeOK
<1>4. RedirectInv'
  BY <1>1 DEF RedirectInv, r0
<1>5. BodyInv'
  <2>1. body = input.body /\ body' = [k \in Kept |-> input.body[k]] /\ Kept' = Kept
    BY <1>1 DEF BodyInv, Without, Kept
  <2>2. (DOMAIN input.transform.rename \ todo)' = {}
    BY <1>1
  <2>3. RenamedBy({})'
    BY <1>1, <2>1 DEF RenamedBy
  <2>4. RenamedBy(DOMAIN input.transform.rename \ todo)'
    BY <2>2, <2>3 DEF RenamedBy
  <2> QED BY <1>1, <2>4 DEF BodyInv, OrderDoesNotMatter
<1> QED BY <1>2, <1>3, <1>4, <1>5 DEF RoutingInv

\* one rename at a time,
LEMMA RenamesKeep == ASSUME RoutingInv, NEW from \in todo, Rename(from) PROVE RoutingInv'
<1>1. /\ InputInv /\ TypeOK /\ RedirectInv /\ BodyInv /\ pc = "rename" /\ pc' = "rename"
      /\ todo' = todo \ {from} /\ UNCHANGED <<input, route, path, upstream, named>>
  BY DEF RoutingInv, Rename, LongestPrefixServes
<1>2. InputInv' /\ LongestPrefixServes'
  BY <1>1 DEF InputInv, LongestPrefixServes, TypeOK
<1>3. RedirectInv'
  BY <1>1 DEF RedirectInv, r0
<1>4. BodyInv'
  <2>1. NoChains' => NoChains
    BY <1>1 DEF NoChains
  <2>2. NoChains => RenamedBy(DOMAIN input.transform.rename \ todo)'
    BY <1>1, RenameKeeps
  <2>3. todo' \subseteq DOMAIN input'.transform.rename
    BY <1>1 DEF BodyInv
  <2> QED BY <1>1, <2>1, <2>2, <2>3 DEF BodyInv, OrderDoesNotMatter
<1> QED BY <1>2, <1>3, <1>4 DEF RoutingInv

\* until the request is sent.
LEMMA SendingKeeps == ASSUME RoutingInv, Send PROVE RoutingInv'
<1>1. /\ InputInv /\ TypeOK /\ RedirectInv /\ BodyInv /\ pc = "rename" /\ pc' = "sent"
      /\ upstream' = JoinURLPath(r0.target, RewritePath(path, r0.prefix, PathRewrite(r0)))
      /\ UNCHANGED <<input, route, path, todo, named>>
  BY DEF RoutingInv, Send, LongestPrefixServes
<1>2. InputInv'
  BY <1>1 DEF InputInv
<1>3. LongestPrefixServes'
  <2>1. route \in DOMAIN input.routes /\ path \in Path
    BY <1>1 DEF TypeOK, InputInv
  <2>2. upstream' # <<>>
    BY <1>1, <2>1, RewrittenPaths
  <2> QED BY <1>1, <2>2 DEF LongestPrefixServes, TypeOK
<1>4. RedirectInv'
  BY <1>1 DEF RedirectInv, r0
<1>5. BodyInv'
  BY <1>1, SendKeeps DEF BodyInv
<1> QED BY <1>2, <1>3, <1>4, <1>5 DEF RoutingInv

\* A redirect takes the client to the rewritten path.
LEMMA RedirectKeeps == ASSUME RoutingInv, NEW p \in Locations, Redirect(p) PROVE RoutingInv'
<1>1. /\ InputInv /\ TypeOK /\ pc = "sent" /\ pc' = "follow"
      /\ named' = p /\ path' = RewriteRedirectLocation(p, r0) /\ body' = input.body
      /\ UNCHANGED <<input, route, todo, upstream>>
  BY DEF RoutingInv, Redirect, LongestPrefixServes
<1>2. p \in Path /\ p # <<>> /\ route \in DOMAIN input.routes
  BY <1>1, GivenPaths DEF TypeOK
<1>3. path' \in Path /\ path' # <<>>
  BY <1>1, <1>2, RewrittenPaths
<1>4. InputInv'
  BY <1>1, <1>2, <1>3 DEF InputInv
<1>5. LongestPrefixServes'
  BY <1>1, <1>3 DEF LongestPrefixServes, TypeOK
<1>6. RedirectInv'
  BY <1>1 DEF RedirectInv, r0
<1>7. BodyInv'
  BY <1>1 DEF BodyInv, OrderDoesNotMatter
<1> QED BY <1>4, <1>5, <1>6, <1>7 DEF RoutingInv

\* The client follows it, or the request ends.
LEMMA FollowKeeps == ASSUME RoutingInv, Follow \/ Finish PROVE RoutingInv'
<1>1. /\ InputInv /\ TypeOK /\ RedirectInv /\ BodyInv
      /\ \/ pc = "follow" /\ pc' \in {"served", "done"}
         \/ pc = "sent" /\ pc' = "done"
      /\ UNCHANGED <<input, route, path, body, todo, upstream, named>>
  <2>1. CASE Finish
    BY <2>1 DEF RoutingInv, Finish, LongestPrefixServes
  <2>2. CASE Follow
    <3> DEFINE asked == [input.request EXCEPT !.method = "GET"]
               n == Dispatch(input.routes, asked, path)
    <3>1. /\ pc = "follow" /\ pc' = (IF n = route THEN "served" ELSE "done")
          /\ UNCHANGED <<input, route, path, body, todo, upstream, named>>
      BY <2>2, Zenon DEF Follow
    <3> HIDE DEF n
    <3> QED BY <3>1 DEF RoutingInv, LongestPrefixServes
  <2> QED BY <2>1, <2>2
<1>2. InputInv'
  BY <1>1 DEF InputInv
<1>3. LongestPrefixServes'
  BY <1>1 DEF LongestPrefixServes, TypeOK, InputInv
<1>4. RedirectInv'
  BY <1>1 DEF RedirectInv, r0
<1>5. BodyInv'
  BY <1>1 DEF BodyInv, OrderDoesNotMatter
<1> QED BY <1>2, <1>3, <1>4, <1>5 DEF RoutingInv

\* Every step keeps the invariant.
LEMMA RoutingNext == RoutingInv /\ [Next]_vars => RoutingInv'
<1> SUFFICES ASSUME RoutingInv, [Next]_vars PROVE RoutingInv'
  OBVIOUS
<1>1. CASE UNCHANGED vars
  <2>1. UNCHANGED <<input, pc, route, path, body, todo, upstream, named>>
    BY <1>1 DEF vars
  <2>2. InputInv' /\ RedirectInv'
    BY <2>1 DEF RoutingInv, InputInv, RedirectInv, r0
  <2>3. LongestPrefixServes'
    BY <2>1 DEF RoutingInv, LongestPrefixServes, TypeOK, Concerns, r0
  <2>4. BodyInv'
    <3>1. NoChains' <=> NoChains
      BY <2>1 DEF NoChains
    <3>2. RenamedBy(DOMAIN input.transform.rename \ todo)' <=> RenamedBy(DOMAIN input.transform.rename \ todo)
      BY <2>1 DEF RenamedBy, Kept
    <3>3. OrderDoesNotMatter => OrderDoesNotMatter'
      <4>1. \A k : Meant(k)' = Meant(k)
        BY <2>1 DEF Meant
      <4> QED BY <2>1, <3>1, <4>1 DEF OrderDoesNotMatter
    <3> QED BY <2>1, <3>1, <3>2, <3>3 DEF RoutingInv, BodyInv
  <2> QED BY <2>2, <2>3, <2>4 DEF RoutingInv
<1>2. CASE Next
  BY <1>2, ArriveKeeps, RemoveKeysKeeps, RenamesKeep, SendingKeeps, RedirectKeeps, FollowKeeps, Zenon DEF Next
<1> QED BY <1>1, <1>2

\* The inductive invariant holds in every behaviour.
THEOREM RoutingInvHolds == Spec => []RoutingInv
<1> QED BY RoutingInit, RoutingNext, PTL DEF Spec

\* routePatterns and http.ServeMux: for any table that compile accepts, and any number of
\* routes in it, the search by host, method and path ends at the longest prefix.
THEOREM RoutesAreLongest == Spec => []LongestPrefixServes
<1>1. RoutingInv => LongestPrefixServes
  BY DEF RoutingInv
<1> QED BY <1>1, RoutingInvHolds, PTL

\* rewritePath undoes rewriteRedirectLocation, for any prefix, rewrite and path.
THEOREM RedirectsComeBack == Spec => []RedirectsLeadBack
<1>1. RoutingInv => RedirectsLeadBack
  <2> DEFINE under == TrimSlash(PathRewrite(r0))
  <2> SUFFICES ASSUME RoutingInv, pc = "sent", named # <<>>, r0.target = <<>>, IsPrefix(under, named)
               PROVE  upstream = IF named = under THEN Append(named, "") ELSE named
    BY DEF RedirectsLeadBack
  <2>1. /\ InputInv /\ route \in DOMAIN input.routes /\ named \in Path
        /\ path = RewriteRedirectLocation(named, r0)
        /\ upstream = JoinURLPath(<<>>, RewritePath(path, r0.prefix, PathRewrite(r0)))
    BY DEF RoutingInv, InputInv, LongestPrefixServes, TypeOK, RedirectInv
  <2>2. r0.prefix \in Path /\ under \in Path
    BY <2>1, TablePaths, TrimSlashPath DEF InputInv, r0, PathRewrite
  <2> DEFINE strip == IF under # <<>> THEN After(named, under) ELSE named
             rest == After(JoinURLPath(r0.prefix, strip), TrimSlash(r0.prefix))
  <2>3. rest # <<>> /\ under \o rest = IF named = under THEN Append(named, "") ELSE named
    BY <2>1, <2>2, ThereAndBack
  <2>4. StripRewrite(named, r0) = strip
    BY DEF StripRewrite
  <2>5. RewritePath(path, r0.prefix, PathRewrite(r0)) = under \o rest
    BY <2>1, <2>3, <2>4 DEF RewritePath, RewriteRedirectLocation, JoinURLPath
  <2>6. under \o rest # <<>> /\ under \o rest \in Path
    <3>1. Append(named, "") = named \o <<"">> /\ Append(named, "") \in Path /\ Append(named, "") # <<>>
      <4>1. "" \in Segment
        BY DEF Segment
      <4> QED BY <2>1, <4>1, AppendIsConcat, AppendProperties DEF Path
    <3> QED BY <2>1, <2>3, <3>1
  <2>7. \A q \in Path : q # <<>> => JoinURLPath(<<>>, q) = q
    <3>1. TrimSlash(<<>>) = <<>>
      BY DEF TrimSlash
    <3>2. \A q \in Path : <<>> \o q = q
      BY ConcatEmptySeq DEF Path
    <3> QED BY <3>1, <3>2 DEF JoinURLPath
  <2> QED BY <2>1, <2>3, <2>5, <2>6, <2>7
<1> QED BY <1>1, RoutingInvHolds, PTL

\* transformJSON: for any renames that do not chain, and any number of them, the order in
\* which the map yields them does not show in the body.
THEOREM RenamesCommute == Spec => []OrderDoesNotMatter
<1>1. RoutingInv => OrderDoesNotMatter
  BY DEF RoutingInv, BodyInv
<1> QED BY <1>1, RoutingInvHolds, PTL
===============================================================================

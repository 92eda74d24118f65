------------------------------- MODULE MCReload -------------------------------
(***************************************************************************)
(* Start-up meets three files that pass and files that differ from one of  *)
(* them in one field; reloads meet the files whose second judgement (in    *)
(* the environment of the start) can differ from the first.                *)
(***************************************************************************)
EXTENDS Reload

Development ==
    [parses |-> TRUE, env |-> "development", controlOnly |-> FALSE, redis |-> "good",
     admin |-> TRUE, bootstrapKey |-> "good", oidc |-> "none", externalUrl |-> "http",
     adminScope |-> FALSE, sessionTtl |-> 1, prometheusUrl |-> "none", tls |-> "on",
     schema |-> 1, version |-> 1, routes |-> 2, other |-> "distinct", maxHeader |-> 1,
     wildcard |-> TRUE, trusted |-> "good", dns |-> TRUE, dnsPlaceholder |-> TRUE,
     dnsUrl |-> "http", dnsInterval |-> 10, dnsTimeout |-> 10, authType |-> "api_key",
     staticKeys |-> "good", jwtFields |-> "none", jwksUrl |-> "none", rateRequests |-> 1,
     rateBurst |-> 0, rateWindow |-> 1000000, cacheTtl |-> 1, cacheMaxBody |-> 1,
     perPrincipal |-> TRUE, prefix |-> "good", rewrite |-> "none", upstreams |-> "good",
     timeout |-> 0, maxBody |-> 0, concurrency |-> 0, retries |-> 1, authRef |-> "known",
     rateRef |-> "known", cacheRef |-> "known", streaming |-> FALSE, transform |-> "body",
     method |-> "GET", name |-> "good", healthPath |-> "good", healthInterval |-> 0]

Production ==
    [Development EXCEPT !.env = "production", !.oidc = "full", !.externalUrl = "https",
        !.adminScope = TRUE, !.wildcard = FALSE, !.dnsUrl = "https", !.authType = "jwt",
        !.jwtFields = "full", !.jwksUrl = "good"]

Streams ==
    [Development EXCEPT !.admin = FALSE, !.tls = "off", !.streaming = TRUE, !.retries = 0,
        !.transform = "headers", !.cacheRef = "none", !.rateRef = "none", !.dns = FALSE]

Presence == {"none", "good", "bad"}
Policy == {"none", "known", "unknown"}

\* The values of every field.
Values ==
    [parses |-> BOOLEAN, env |-> {"development", "production", "blank"},
     controlOnly |-> BOOLEAN, redis |-> Presence, admin |-> BOOLEAN, bootstrapKey |-> Presence,
     oidc |-> {"none", "partial", "full"}, externalUrl |-> {"none", "http", "https", "bad"},
     adminScope |-> BOOLEAN, sessionTtl |-> 0..1, prometheusUrl |-> Presence,
     tls |-> {"off", "on", "half"}, schema |-> 1..2, version |-> 0..1, routes |-> 0..2,
     other |-> {"distinct", "same name", "same pattern", "ambiguous"}, maxHeader |-> -1..1,
     wildcard |-> BOOLEAN, trusted |-> Presence, dns |-> BOOLEAN, dnsPlaceholder |-> BOOLEAN,
     dnsUrl |-> {"http", "https", "bad"}, dnsInterval |-> {0, 9, 10, 11},
     dnsTimeout |-> {0, 1, 10, 11}, authType |-> {"none", "api_key", "jwt", "other"},
     staticKeys |-> Presence, jwtFields |-> {"none", "partial", "full"}, jwksUrl |-> Presence,
     rateRequests |-> 0..1, rateBurst |-> -1..1, rateWindow |-> {0, 999, 1000}, cacheTtl |-> 0..1,
     cacheMaxBody |-> 0..1, perPrincipal |-> BOOLEAN, prefix |-> Presence,
     rewrite |-> Presence, upstreams |-> Presence, timeout |-> -1..1, maxBody |-> -1..1,
     concurrency |-> -1..1, retries |-> -1..1, authRef |-> Policy, rateRef |-> Policy,
     cacheRef |-> Policy, streaming |-> BOOLEAN,
     transform |-> {"none", "headers", "body", "too many"}, method |-> {"any", "GET", "CONNECT"},
     name |-> {"none", "good"}, healthPath |-> {"none", "good"}, healthInterval |-> -1..1]

OneFieldOff(base, fields) == UNION {{[base EXCEPT ![f] = v] : v \in Values[f]} : f \in fields}

MCBootFiles ==
    OneFieldOff(Production, DOMAIN Values)
      \cup OneFieldOff(Development, {"env", "externalUrl", "dnsUrl", "authType"})
      \cup OneFieldOff(Streams, {"streaming", "retries", "transform", "cacheRef", "redis"})

MCEdits == {Development, Production,
            [Production EXCEPT !.other = "ambiguous"],
            [Production EXCEPT !.controlOnly = TRUE, !.routes = 0],
            [Streams EXCEPT !.parses = FALSE]}

\* A process that runs, and the values of its file that Validate does not look at.
MCRunning == {Production}
MCUnchecked == OneFieldOff(Production, {"healthInterval", "rateWindow"})
===============================================================================

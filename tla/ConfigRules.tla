----------------------------- MODULE ConfigRules ------------------------------
(***************************************************************************)
(* The rules a configuration file has to meet, and what the code that runs *)
(* a configuration needs of the values that no rule checks.                *)
(*                                                                         *)
(* A file is a record whose fields take one value for every case a rule    *)
(* tells apart: "none", "good" and "bad" for a URL, key or list that is    *)
(* absent, well formed or malformed, small numbers where a limit is        *)
(* compared (rateWindow in microseconds, other times in seconds).  One     *)
(* route stands for all; `other` says how a second route relates to it.    *)
(***************************************************************************)
EXTENDS Integers

-------------------------------------------------------------------------------
(* applicationConfig.Validate.                                              *)

SecureUrl(env, url) == url \in {"http", "https"} /\ (env = "production" => url = "https")

\* The part under admin.enabled.
ValidAdmin(c) ==
    /\ c.redis # "none"
    /\ c.bootstrapKey # "bad"
    /\ c.oidc # "partial"
    /\ c.oidc = "full" => c.externalUrl # "none" /\ c.adminScope
    /\ c.env = "production" => c.oidc = "full"
    /\ c.externalUrl # "none" => SecureUrl(c.env, c.externalUrl)
    /\ c.sessionTtl > 0
    /\ c.prometheusUrl # "bad"

\* dynamicDNSConfig.validate.
ValidDNS(c, env) ==
    c.dns => /\ c.dnsPlaceholder
             /\ SecureUrl(env, c.dnsUrl)
             /\ c.dnsInterval >= 10
             /\ c.dnsTimeout > 0 /\ c.dnsTimeout <= c.dnsInterval

\* authPolicy.validate.
ValidAuth(c) == \/ c.authType = "none"
                \/ c.authType = "api_key" /\ c.staticKeys # "bad"
                \/ c.authType = "jwt" /\ c.jwtFields = "full" /\ c.jwksUrl = "good"

\* Rate and cache policies.
ValidPolicies(c) == /\ c.rateRequests > 0 /\ c.rateBurst >= 0 /\ c.rateWindow > 0
                    /\ c.cacheTtl > 0 /\ c.cacheMaxBody > 0

CachingRule(c) ==
    c.cacheRef # "none" => /\ c.cacheRef = "known"
                           /\ c.authRef # "none" => c.perPrincipal
                           /\ ~c.streaming

StreamingRule(c) == c.streaming => c.retries = 0 /\ c.transform \in {"none", "headers"}

\* One route, as far as it is judged alone.
ValidRoute(c) ==
    /\ c.name # "none"
    /\ c.prefix = "good" /\ c.rewrite # "bad"
    /\ c.upstreams = "good"
    /\ c.timeout >= 0 /\ c.maxBody >= 0 /\ c.concurrency >= 0 /\ c.retries >= 0
    /\ c.authRef # "unknown" /\ c.rateRef # "unknown"
    /\ CachingRule(c)
    /\ StreamingRule(c)
    /\ c.transform # "too many"
    /\ c.method # "CONNECT"

\* GatewayConfig.Validate.
ValidGateway(c, env, allowNoRoutes) ==
    /\ c.schema = 1
    /\ c.version >= 1
    /\ c.routes = 0 => allowNoRoutes
    /\ c.maxHeader >= 0
    /\ c.wildcard => env = "development"
    /\ c.trusted # "bad"
    /\ ValidDNS(c, env)
    /\ ValidAuth(c)
    /\ ValidPolicies(c)
    /\ c.routes > 0 => ValidRoute(c)
    /\ c.routes > 1 => c.other \notin {"same name", "same pattern"}

ValidApplication(c) ==
    /\ c.env # "blank"
    /\ ValidGateway(c, c.env, c.controlOnly)
    /\ c.redis # "bad"
    /\ c.admin => ValidAdmin(c)
    /\ c.tls # "half"

\* routerManager.compile: the rules again, in the environment the process started
\* in; then registering the patterns, where http.ServeMux panics on a pair of
\* which neither is more specific, and compile turns the panic into an error.
Compiles(c, started) ==
    /\ ValidGateway(c, started.env, started.controlOnly)
    /\ c.routes > 1 => c.other # "ambiguous"

-------------------------------------------------------------------------------
(* Values that no rule checks, or not in the unit they are used in.         *)

\* normalizeRoute replaces zeros only.
OrDefault(value, default) == IF value = 0 THEN default ELSE value

\* startHealthChecks, for a route with a health_path: time.NewTicker panics unless
\* its interval is positive, and nothing recovers in that goroutine.
CheckersRun(c) == c.healthPath # "none" => OrDefault(c.healthInterval, 10) > 0

\* Duration.Milliseconds.
Milliseconds(micros) == micros \div 1000

\* allowRequest: tokenBucketScript divides by the window in milliseconds.
LimiterRuns(c) == c.rateRef = "known" => Milliseconds(c.rateWindow) > 0

-------------------------------------------------------------------------------
\* What an administrator's browser keeps in production is sent over TLS only:
\* setCookie takes Secure from the scheme of external_url.
CookieIsSecure(c) == c.externalUrl = "https"
===============================================================================

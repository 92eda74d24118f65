----------------------------- MODULE ConfigPlane ------------------------------
(***************************************************************************)
(* The life of a gateway configuration: gateway start-up seeds Redis, the  *)
(* admin API creates, activates and deletes versions under WATCH/MULTI/    *)
(* EXEC, and every instance runs a watch goroutine that loads the active   *)
(* version and swaps its router snapshot.  SIGHUP reloads the local file;  *)
(* instances crash and restart.                                            *)
(*                                                                         *)
(* One action is one Redis command, one WATCH block up to its EXEC, or one *)
(* access to the two atomics an instance keeps (current, redisVersion).    *)
(* log and documents, and the epoch and copy fields that point into them,  *)
(* are history: a version number can be deleted and stored again, so it    *)
(* may have stood for several documents.                                   *)
(***************************************************************************)
EXTENDS Naturals, Sequences, FiniteSets

CONSTANTS Instances,    \* gateway processes sharing one Redis
          Admin,        \* those with admin.enabled
          ControlOnly,  \* those with control_only
          Handlers,     \* concurrent admin HTTP requests
          Versions,     \* version numbers
          Contents,     \* what a configuration document says
          NoContent,    \* the value of an absent version key
          Routeless,    \* contents with no route at all
          Accepts,      \* Accepts[i]: contents that validate and compile at i
          BootFile,     \* BootFile[i]: the gateway section of i's config file
          ReloadFiles,  \* ReloadFiles[i]: what that file may say at a SIGHUP
          Drafts,       \* configurations administrators submit
          MaxOps,       \* bound: admin requests that reach Redis
          MaxFaults     \* bound: crashes and SIGHUPs

Config == [version : Versions, content : Contents]

NoVersion == 0

ASSUME VersionsAssumption == Versions \subseteq Nat \ {NoVersion}

ASSUME ContentsAssumption == NoContent \notin Contents /\ Routeless \subseteq Contents

ASSUME InstancesAssumption == /\ Instances # {}
                              /\ Admin \subseteq Instances
                              /\ ControlOnly \subseteq Instances

ASSUME FilesAssumption == /\ Accepts \in [Instances -> SUBSET Contents]
                          /\ BootFile \in [Instances -> Config]
                          /\ ReloadFiles \in [Instances -> SUBSET Config]
                          /\ Drafts \subseteq Config

ASSUME BoundsAssumption == MaxOps \in Nat /\ MaxFaults \in Nat

VARIABLES
    configs,        \* Redis: content of every version key
    active,         \* Redis: the active pointer
    audit,          \* Redis: the newest event of the audit stream
    log,            \* history: every write of the active pointer, in order
    documents,      \* history: what each version key was created with, in order
    committed,      \* history: the operations of handlers that took effect in Redis
    serving,        \* per instance: the snapshot requests are routed by
    redisVersion,   \* per instance: version the watch goroutine believes served
    wpc,            \* per instance: where start-up or the watch goroutine is
    load,           \* per instance: what the current load has read so far
    hpc,            \* per handler: where the request is
    req,            \* per handler: the request and what it has read so far
    dirty,          \* per handler: a watched key was written since WATCH
    ops, faults     \* how much of MaxOps and MaxFaults is used

redisVars    == <<configs, active, log, documents, committed>>
instanceVars == <<serving, redisVersion, wpc, load>>
handlerVars  == <<hpc, req, dirty>>
vars == <<configs, active, audit, log, documents, committed, serving, redisVersion, wpc, load,
          hpc, req, dirty, ops, faults>>

Load == [version : Versions \cup {NoVersion}, epoch : Nat,
         content : Contents \cup {NoContent}, copy : Nat]
NoLoad == [version |-> NoVersion, epoch |-> 0, content |-> NoContent, copy |-> 0]

Request == [op : {"none", "create", "activate", "delete"}, at : Instances,
            version : Versions \cup {NoVersion}, expected : Versions \cup {NoVersion},
            content : Contents \cup {NoContent}, copy : Nat, epoch : Nat]
Event == {"create", "activate", "delete"} \X Versions
NoEvent == <<"none", NoVersion>>
NoRequest == [op |-> "none", at |-> CHOOSE i \in Instances : TRUE,
              version |-> NoVersion, expected |-> NoVersion,
              content |-> NoContent, copy |-> 0, epoch |-> 0]

Stored(v) == configs[v] # NoContent

\* Which of its documents v stands for, or stood for last.
Copy(v) == Len(documents[v])

\* GatewayConfig.Validate: its other rules are abstracted to Accepts.
Valid(i, c, allowNoRoutes) == c \in Accepts[i] /\ (c \in Routeless => allowNoRoutes)

\* routerManager.Validate and Activate both compile.
Compiles(i, c) == Valid(i, c, i \in ControlOnly)

\* The admin API first validates with allowNoRoutes = false.
ValidateGatewayConfig(i, c) == Valid(i, c, FALSE) /\ Compiles(i, c)

\* A process validates its own file before it serves.
ASSUME BootAssumption == \A i \in Instances : Compiles(i, BootFile[i].content)

FromFile(config) == [config |-> config, epoch |-> 0, copy |-> 0]

\* newApp activates the file; Start seeds Redis unless the process is control-only.
StartPC(i) == IF i \in ControlOnly THEN "idle" ELSE "seed"

\* run() serves HTTP and handles signals only after Start has returned.
Started(i) == wpc[i] \notin {"seed", "point"}

Init == /\ configs = [v \in Versions |-> NoContent]
        /\ active = NoVersion
        /\ audit = NoEvent
        /\ log = <<>>
        /\ documents = [v \in Versions |-> <<>>]
        /\ committed = {}
        /\ serving = [i \in Instances |-> FromFile(BootFile[i])]
        /\ redisVersion = [i \in Instances |-> NoVersion]
        /\ wpc = [i \in Instances |-> StartPC(i)]
        /\ load = [i \in Instances |-> NoLoad]
        /\ hpc = [h \in Handlers |-> "idle"]
        /\ req = [h \in Handlers |-> NoRequest]
        /\ dirty = [h \in Handlers |-> FALSE]
        /\ ops = 0
        /\ faults = 0

-------------------------------------------------------------------------------
(***************************************************************************)
(* WATCH: a write to a watched key makes the EXEC of the watcher fail.     *)
(* Every WATCH block names the active pointer and one version key.         *)
(***************************************************************************)
Watchers == {h \in Handlers : hpc[h] = "watching"}
\* Mutant: WATCH names only the pointer, not the version key.
WatchersOfPointerOnly(v) == {}

WatchersOf(v) == {h \in Watchers : req[h].version = v}
\* Mutant: the commands are pipelined without MULTI/EXEC.
ExecSucceedsAlways(h) == TRUE

ExecSucceeds(h) == ~dirty[h]
Dirtied(hit) == [h \in Handlers |-> dirty[h] \/ h \in hit]

\* The reply is sent (or the client is gone) and the handler returns.
Finish(h) == /\ hpc' = [hpc EXCEPT ![h] = "idle"]
             /\ req' = [req EXCEPT ![h] = NoRequest]

GoTo(h, pc) == hpc' = [hpc EXCEPT ![h] = pc]

\* Every write of the pointer is one activation; old is the pointer it replaced.
Record(v, old) == Append(log, [version |-> v, content |-> configs[v], copy |-> Copy(v),
                               replaced |-> old])

\* SETNX of a version key that is free.
Put(config) == /\ ~Stored(config.version)
               /\ configs' = [configs EXCEPT ![config.version] = config.content]
               /\ documents' = [documents EXCEPT ![config.version] = Append(@, config.content)]
               /\ dirty' = Dirtied(WatchersOf(config.version))

-------------------------------------------------------------------------------
(* Start-up.  Both SETNX commands may fail; a failure is only logged.       *)

\* gateway.configuration: until Start returns, what a process serves is its file.
File(i) == serving[i].config

BootStore(i) ==
    /\ wpc[i] = "seed"
    /\ wpc' = [wpc EXCEPT ![i] = "point"]
    /\ Put(File(i)) \/ UNCHANGED <<configs, documents, dirty>>
    /\ UNCHANGED <<active, audit, log, committed, serving, redisVersion, load, hpc, req,
                   ops, faults>>

BootPoint(i) ==
    LET v == File(i).version IN
    /\ wpc[i] = "point"
    /\ wpc' = [wpc EXCEPT ![i] = "idle"]
    /\ \/ /\ active = NoVersion
          /\ active' = v
          /\ log' = Record(v, NoVersion)
          /\ dirty' = Dirtied(Watchers)
       \/ UNCHANGED <<active, log, dirty>>
    /\ UNCHANGED <<configs, documents, audit, committed, serving, redisVersion, load, hpc,
                   req, ops, faults>>

-------------------------------------------------------------------------------
(* load() of the watch goroutine.  The ticker or a pub/sub message starts   *)
(* it at any time, so a lost message is one of the behaviours.              *)

\* Mutant: load trusts the version in the pub/sub message, which may be late.
LoadActiveFromMessage(i) ==
    /\ wpc[i] = "idle"
    /\ wpc' = [wpc EXCEPT ![i] = "read"]
    /\ \E n \in 1..Len(log) :
          load' = [load EXCEPT ![i] = [NoLoad EXCEPT !.version = log[n].version, !.epoch = n]]
    /\ UNCHANGED <<redisVars, handlerVars, audit, serving, redisVersion, ops, faults>>

LoadActive(i) ==
    /\ wpc[i] = "idle"
    /\ active # NoVersion
    /\ wpc' = [wpc EXCEPT ![i] = "read"]
    /\ load' = [load EXCEPT ![i] = [NoLoad EXCEPT !.version = active, !.epoch = Len(log)]]
    /\ UNCHANGED <<redisVars, handlerVars, audit, serving, redisVersion, ops, faults>>

\* GET of an absent pointer: load returns.
LoadNothing(i) ==
    /\ wpc[i] = "idle"
    /\ active = NoVersion
    /\ UNCHANGED vars

\* Mutant: an active version below the recorded one is taken for an old message.
AlreadyServedOrOlder(i) == redisVersion[i] >= load[i].version

AlreadyServed(i) == redisVersion[i] = load[i].version

LoadCompare(i) ==
    /\ wpc[i] = "read"
    /\ IF AlreadyServed(i)
         THEN /\ wpc' = [wpc EXCEPT ![i] = "idle"]
              /\ load' = [load EXCEPT ![i] = NoLoad]
         ELSE /\ wpc' = [wpc EXCEPT ![i] = "stale"]
              /\ UNCHANGED load
    /\ UNCHANGED <<redisVars, handlerVars, audit, serving, redisVersion, ops, faults>>

\* Mutant: the key to fetch is computed from a second read of the pointer.
FetchKeyReread(i) == active

FetchKey(i) == load[i].version

LoadFetch(i) ==
    /\ wpc[i] = "stale"
    /\ Stored(FetchKey(i))
    /\ wpc' = [wpc EXCEPT ![i] = "fetched"]
    /\ load' = [load EXCEPT ![i].content = configs[FetchKey(i)],
                            ![i].copy = Copy(FetchKey(i))]
    /\ UNCHANGED <<redisVars, handlerVars, audit, serving, redisVersion, ops, faults>>

\* The version key is gone, or Redis did not answer.
LoadFail(i) ==
    /\ wpc[i] = "stale"
    /\ wpc' = [wpc EXCEPT ![i] = "idle"]
    /\ load' = [load EXCEPT ![i] = NoLoad]
    /\ UNCHANGED <<redisVars, handlerVars, audit, serving, redisVersion, ops, faults>>

\* manager.Activate: compile, then swap the snapshot; a rejected one leaves
\* the last good snapshot and the version unrecorded.
LoadSwap(i) ==
    /\ wpc[i] = "fetched"
    /\ IF Compiles(i, load[i].content)
         THEN /\ serving' = [serving EXCEPT ![i] =
                    [config |-> [version |-> load[i].version, content |-> load[i].content],
                     epoch |-> load[i].epoch, copy |-> load[i].copy]]
              /\ wpc' = [wpc EXCEPT ![i] = "swapped"]
              /\ UNCHANGED load
         ELSE /\ wpc' = [wpc EXCEPT ![i] = "idle"]
              /\ load' = [load EXCEPT ![i] = NoLoad]
              /\ UNCHANGED serving
    /\ UNCHANGED <<redisVars, handlerVars, audit, redisVersion, ops, faults>>

\* Mutant: the version recorded is the pointer's value after the swap.
LoadStoreRereads(i) ==
    /\ wpc[i] = "swapped"
    /\ redisVersion' = [redisVersion EXCEPT ![i] = active]
    /\ wpc' = [wpc EXCEPT ![i] = "idle"]
    /\ load' = [load EXCEPT ![i] = NoLoad]
    /\ UNCHANGED <<redisVars, handlerVars, audit, serving, ops, faults>>

LoadStore(i) ==
    /\ wpc[i] = "swapped"
    /\ redisVersion' = [redisVersion EXCEPT ![i] = load[i].version]
    /\ wpc' = [wpc EXCEPT ![i] = "idle"]
    /\ load' = [load EXCEPT ![i] = NoLoad]
    /\ UNCHANGED <<redisVars, handlerVars, audit, serving, ops, faults>>

Watch(i) == \/ LoadActive(i) \/ LoadNothing(i) \/ LoadCompare(i) \/ LoadFetch(i)
            \/ LoadFail(i) \/ LoadSwap(i) \/ LoadStore(i)

-------------------------------------------------------------------------------
(* Admin handlers.  A request that is refused before it touches Redis       *)
(* changes nothing and is not a step.                                       *)

Receive(h, i) == /\ hpc[h] = "idle"
                 /\ ops < MaxOps
                 /\ Started(i)
                 /\ ops' = ops + 1

\* createConfig: validate, then SETNX.
CreateConfig(h, i, draft) ==
    /\ Receive(h, i)
    /\ ValidateGatewayConfig(i, draft.content)
    /\ Put(draft)
    /\ committed' = committed \cup {<<"create", draft.version>>}
    /\ GoTo(h, "audit")
    /\ req' = [req EXCEPT ![h] = [NoRequest EXCEPT !.op = "create", !.at = i,
                                                   !.version = draft.version]]
    /\ UNCHANGED <<instanceVars, active, audit, log, faults>>

\* Mutant: an absent or invalid document is not noticed when it is read.
UsableUnchecked(i, v) == TRUE

Usable(i, v) == Stored(v) /\ ValidateGatewayConfig(i, configs[v])

\* activateConfig up to the WATCH: read the version key and validate it.
ActivateGet(h, i, v, expected) ==
    /\ Receive(h, i)
    /\ Usable(i, v)
    /\ GoTo(h, "fetched")
    /\ req' = [req EXCEPT ![h] = [op |-> "activate", at |-> i, version |-> v,
                                  expected |-> expected, content |-> configs[v],
                                  copy |-> Copy(v), epoch |-> 0]]
    /\ UNCHANGED <<redisVars, instanceVars, audit, dirty, faults>>

\* Mutant: the EXISTS inside the WATCH block is left out.
ActivateWatchNoExists(h) ==
    /\ hpc[h] = "fetched"
    /\ active = req[h].expected
    /\ GoTo(h, "watching")
    /\ UNCHANGED <<redisVars, instanceVars, audit, req, dirty, ops, faults>>

\* WATCH, GET of the pointer, EXISTS of the version key.
ActivateWatch(h) ==
    /\ hpc[h] = "fetched"
    /\ active = req[h].expected
    /\ Stored(req[h].version)
    /\ GoTo(h, "watching")
    /\ UNCHANGED <<redisVars, instanceVars, audit, req, dirty, ops, faults>>

\* EXEC of SET and PUBLISH.  The reply may be lost after the commit.
ActivateExec(h) ==
    /\ hpc[h] = "watching"
    /\ req[h].op = "activate"
    /\ ExecSucceeds(h)
    /\ active' = req[h].version
    /\ log' = Record(req[h].version, req[h].expected)
    /\ committed' = committed \cup {<<"activate", req[h].version>>}
    /\ dirty' = Dirtied(Watchers \ {h})
    /\ \/ /\ GoTo(h, "committed")
          /\ req' = [req EXCEPT ![h].epoch = Len(log) + 1]
       \/ Finish(h)
    /\ UNCHANGED <<instanceVars, configs, documents, audit, ops, faults>>

\* Mutant: the handler activates the document the pointer names by then.
ActivateSwapRereads(h) ==
    LET i == req[h].at IN
    /\ hpc[h] = "committed"
    /\ Stored(active)
    /\ serving' = [serving EXCEPT ![i] =
          [config |-> [version |-> active, content |-> configs[active]],
           epoch |-> req[h].epoch, copy |-> Copy(active)]]
    /\ GoTo(h, "swapped")
    /\ UNCHANGED <<redisVars, audit, redisVersion, wpc, load, req, dirty, ops, faults>>

\* manager.Activate with the configuration read by ActivateGet.  It compiled
\* then, so it compiles now.
ActivateSwap(h) ==
    LET i == req[h].at IN
    /\ hpc[h] = "committed"
    /\ serving' = [serving EXCEPT ![i] =
          [config |-> [version |-> req[h].version, content |-> req[h].content],
           epoch |-> req[h].epoch, copy |-> req[h].copy]]
    /\ GoTo(h, "swapped")
    /\ UNCHANGED <<redisVars, audit, redisVersion, wpc, load, req, dirty, ops, faults>>

ActivateStore(h) ==
    /\ hpc[h] = "swapped"
    /\ redisVersion' = [redisVersion EXCEPT ![req[h].at] = req[h].version]
    /\ GoTo(h, "audit")
    /\ UNCHANGED <<redisVars, audit, serving, wpc, load, req, dirty, ops, faults>>

\* deleteConfig: WATCH, GET of the pointer, EXISTS of the version key.
DeleteWatch(h, i, v) ==
    /\ Receive(h, i)
    /\ active # v
    /\ Stored(v)
    /\ GoTo(h, "watching")
    /\ req' = [req EXCEPT ![h] = [NoRequest EXCEPT !.op = "delete", !.at = i, !.version = v]]
    /\ UNCHANGED <<redisVars, instanceVars, audit, dirty, faults>>

DeleteExec(h) ==
    /\ hpc[h] = "watching"
    /\ req[h].op = "delete"
    /\ ExecSucceeds(h)
    /\ configs' = [configs EXCEPT ![req[h].version] = NoContent]
    /\ committed' = committed \cup {<<"delete", req[h].version>>}
    /\ dirty' = Dirtied(WatchersOf(req[h].version) \ {h})
    /\ GoTo(h, "audit")
    /\ UNCHANGED <<instanceVars, active, audit, log, documents, req, ops, faults>>

\* Mutant: the audit event is written whatever the outcome was.
RefuseAudited(h) ==
    /\ hpc[h] \in {"fetched", "watching"}
    /\ GoTo(h, "audit")
    /\ dirty' = [dirty EXCEPT ![h] = FALSE]
    /\ UNCHANGED <<redisVars, instanceVars, audit, req, ops, faults>>

\* EXEC answered nil because a watched key was written, the pointer was not the
\* expected one, the version is gone, or Redis or the client went away.
Refuse(h) ==
    /\ hpc[h] \in {"fetched", "watching"}
    /\ Finish(h)
    /\ dirty' = [dirty EXCEPT ![h] = FALSE]
    /\ UNCHANGED <<redisVars, instanceVars, audit, ops, faults>>

\* XADD to the audit stream, whose failure is only logged; then the reply.  The
\* handler whose SETNX or DEL took effect without an answer skips the event too.
Audit(h) ==
    /\ hpc[h] = "audit"
    /\ \/ audit' = <<req[h].op, req[h].version>>
       \/ UNCHANGED audit
    /\ Finish(h)
    /\ UNCHANGED <<redisVars, instanceVars, dirty, ops, faults>>

Handle(h) ==
    \/ \E i \in Admin :
          \/ \E draft \in Drafts : CreateConfig(h, i, draft)
          \/ \E v, expected \in Versions : ActivateGet(h, i, v, expected)
          \/ \E v \in Versions : DeleteWatch(h, i, v)
    \/ ActivateWatch(h) \/ ActivateExec(h) \/ ActivateSwap(h) \/ ActivateStore(h)
    \/ DeleteExec(h) \/ Refuse(h) \/ Audit(h)

-------------------------------------------------------------------------------
\* SIGHUP: the file replaces the snapshot; redisVersion is not touched.
Reload(i, file) ==
    /\ Started(i)
    /\ faults < MaxFaults
    /\ faults' = faults + 1
    /\ Compiles(i, file.content)
    /\ serving' = [serving EXCEPT ![i] = FromFile(file)]
    /\ UNCHANGED <<redisVars, handlerVars, audit, redisVersion, wpc, load, ops>>

\* What the file of i's configuration may say when i starts again.
Files(i) == {BootFile[i]} \cup ReloadFiles[i]

\* The process dies, with every request it was handling, and starts again with
\* whatever its file says by then.
Crash(i, file) ==
    /\ faults < MaxFaults
    /\ faults' = faults + 1
    /\ Compiles(i, file.content)
    /\ serving' = [serving EXCEPT ![i] = FromFile(file)]
    /\ redisVersion' = [redisVersion EXCEPT ![i] = NoVersion]
    /\ wpc' = [wpc EXCEPT ![i] = StartPC(i)]
    /\ load' = [load EXCEPT ![i] = NoLoad]
    /\ LET lost == {h \in Handlers : hpc[h] # "idle" /\ req[h].at = i} IN
       /\ hpc' = [h \in Handlers |-> IF h \in lost THEN "idle" ELSE hpc[h]]
       /\ req' = [h \in Handlers |-> IF h \in lost THEN NoRequest ELSE req[h]]
       /\ dirty' = [h \in Handlers |-> dirty[h] /\ h \notin lost]
    /\ UNCHANGED <<redisVars, audit, ops>>

Next == \/ \E i \in Instances :
              \/ BootStore(i) \/ BootPoint(i)
              \/ Watch(i)
              \/ \E file \in ReloadFiles[i] : Reload(i, file)
              \/ \E file \in Files(i) : Crash(i, file)
        \/ \E h \in Handlers : Handle(h)

Spec == Init /\ [][Next]_vars

\* On the data plane, start-up and the watch goroutine run when they can, and the
\* ticker keeps starting loads.  A GET returns, with the value or an error; a load
\* whose GET fails is retried at the next tick, and as outages end, one of the
\* retries is answered.
Fairness == \A i \in Instances \ Admin :
                /\ WF_vars(BootStore(i) \/ BootPoint(i) \/ Watch(i))
                /\ SF_vars(LoadFetch(i))

FairSpec == Spec /\ Fairness

-------------------------------------------------------------------------------
(***************************************************************************)
(* Properties.                                                             *)
(***************************************************************************)

\* Type invariant: every variable has the values the code can give it.
TypeOK ==
    /\ configs \in [Versions -> Contents \cup {NoContent}]
    /\ active \in Versions \cup {NoVersion}
    /\ audit \in Event \cup {NoEvent}
    /\ committed \subseteq Event
    /\ log \in Seq([version : Versions, content : Contents \cup {NoContent}, copy : Nat,
                    replaced : Versions \cup {NoVersion}])
    /\ documents \in [Versions -> Seq(Contents)]
    /\ serving \in [Instances -> [config : Config, epoch : Nat, copy : Nat]]
    /\ redisVersion \in [Instances -> Versions \cup {NoVersion}]
    /\ wpc \in [Instances -> {"seed", "point", "idle", "read", "stale", "fetched", "swapped"}]
    /\ load \in [Instances -> Load]
    /\ hpc \in [Handlers -> {"idle", "fetched", "watching", "committed", "swapped", "audit"}]
    /\ req \in [Handlers -> Request]
    /\ dirty \in [Handlers -> BOOLEAN]
    /\ ops \in Nat /\ faults \in Nat

\* Optimistic transactions see what they decided on: while a handler is between
\* its checks and its EXEC, and no watched key was written, the checks of
\* activateConfig (pointer = If-Match, version stored) and of deleteConfig
\* (version not active) still hold.
ChecksStillHold ==
    \A h \in Handlers : hpc[h] = "watching" /\ ~dirty[h] =>
        /\ req[h].op \in {"activate", "delete"}
        /\ req[h].version \in Versions
        /\ Stored(req[h].version)
        /\ req[h].op = "activate" => active = req[h].expected
        /\ req[h].op = "delete"   => active # req[h].version

\* No lost update (If-Match of activateConfig): the activations form one chain.
\* Each one names in If-Match exactly the version the previous one made active,
\* whatever interleaving of administrators, start-ups and crashes produced it.
ActivationsFormAChain ==
    \A n \in 1..Len(log) :
        log[n].replaced = IF n = 1 THEN NoVersion ELSE log[n - 1].version

\* "active configuration cannot be deleted": once the pointer leads to a stored
\* version it does so for ever; no race of delete, create and activate orphans it.
PointerNeverOrphaned ==
    [][active # NoVersion /\ Stored(active)
         => active' # NoVersion /\ configs'[active'] # NoContent]_vars

\* A snapshot from Redis has the version that the activation it was made for had
\* made active, and, unless the number was deleted and stored again between that
\* EXEC and the GET of the document, its content; the GET of load() comes after the
\* EXEC, so a gateway never serves a document older than the activated one.  The
\* pointer and the version key are read by separate commands, with activations,
\* deletions and creations in between.  (An activation whose version was not
\* stored, left by a failed bootstrap, has no content to match.)
ServesWhatWasActivated ==
    \A i \in Instances : serving[i].epoch > 0 =>
        /\ serving[i].epoch <= Len(log)
        /\ LET a == log[serving[i].epoch] IN
           /\ a.version = serving[i].config.version
           /\ a.copy = serving[i].copy => a.content \in {serving[i].config.content, NoContent}
           /\ i \notin Admin => a.copy <= serving[i].copy

\* Redis says i serves the active version, and nothing is under way at i.
Settled(i) ==
    /\ wpc[i] = "idle"
    /\ redisVersion[i] # NoVersion
    /\ redisVersion[i] = active
    /\ \A h \in Handlers : req[h].at = i => hpc[h] = "idle"

\* A SIGHUP put a file snapshot over the one loaded from Redis.
Overridden(i) == serving[i].epoch = 0

\* load() does nothing when redisVersion equals the pointer, so that equality has
\* to mean that the active configuration is served.
SettledServesActive(i) ==
    Settled(i) /\ ~Overridden(i) /\ Stored(active)
        => serving[i].config = [version |-> active, content |-> configs[active]]

\* The number of the active version was stored again after i read its document.
Reused(i) == serving[i].config.version = active /\ serving[i].copy < Copy(active)

\* On the instances without the admin API the skip in load() is right about the
\* number, and about the document as long as the number was not stored again.
DataPlaneSkipIsSafe ==
    \A i \in Instances \ Admin :
        /\ Settled(i) /\ ~Overridden(i) => serving[i].config.version = active
        /\ ~Reused(i) => SettledServesActive(i)

\* "Immutable configuration versions" (README.md:12): a version stands for one
\* document, so the skip is right about the document.
DataPlaneSkipSeesTheDocument == \A i \in Instances \ Admin : SettledServesActive(i)

\* The same for every instance, also where activateConfig runs beside the watch
\* goroutine and beside another activateConfig ("A polling loop repairs
\* convergence after missed pub/sub events", docs/README.md:29).
EverySkipIsSafe == \A i \in Instances : SettledServesActive(i)

\* A data-plane instance never goes back to an earlier activation: the snapshot
\* it swaps in is from a later one, or from its file (SIGHUP, restart).
NeverGoesBack ==
    [][\A i \in Instances \ Admin :
          serving'[i].epoch = 0 \/ serving'[i].epoch >= serving[i].epoch]_vars

\* The audit stream does not lie: an event of createConfig, activateConfig (or its
\* rollback) or deleteConfig stands for an operation that took effect, whatever
\* conflicts, lost replies and crashes the handlers met.
AuditedOperationsCommitted == audit \in committed \cup {NoEvent}

\* What Redis asks of instance i and i could do but does not.
Lags(i) == /\ active # NoVersion
           /\ Stored(active)
           /\ Compiles(i, configs[active])
           /\ serving[i].config # [version |-> active, content |-> configs[active]]
           /\ ~(redisVersion[i] = active /\ (Overridden(i) \/ Reused(i)))

\* Convergence (docs/README.md:29, docs/operations.md:60): when administrators
\* stop, every data-plane instance ends up serving the active configuration,
\* through lost messages, failed loads, crashes and handlers that died midway,
\* unless it rejects it, a SIGHUP put its file on top, or the number it recorded
\* has been stored again with another document.
DataPlaneConverges == \A i \in Instances \ Admin : <>[]~Lags(i)

\* Every step of the protocol is a step of the atomic version store or leaves
\* it alone.
Store == INSTANCE VersionStore WITH configs <- configs, active <- active
ImplementsVersionStore == Store!VSSpec
===============================================================================

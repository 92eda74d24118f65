-------------------------- MODULE ConfigPlaneProofs ---------------------------
(***************************************************************************)
(* Theorems about ConfigPlane for any number of instances, requests,       *)
(* versions, crashes and reloads.                                          *)
(***************************************************************************)
EXTENDS ConfigPlane, TLAPS

InLoad(i) == wpc[i] \in {"read", "stale", "fetched", "swapped"}
Fetched(i) == wpc[i] \in {"fetched", "swapped"}
InActivate(h) == hpc[h] \in {"fetched", "committed", "swapped"}

\* What load and an admin request have read by the time they use it.
ReadsAreSound ==
    /\ \A i \in Instances : InLoad(i) => load[i].version \in Versions
    /\ \A i \in Instances : Fetched(i) => load[i].content \in Contents
    /\ \A h \in Handlers : InActivate(h) => /\ req[h].op = "activate"
                                            /\ req[h].version \in Versions
                                            /\ req[h].content \in Contents
    /\ \A h \in Handlers : hpc[h] = "watching" =>
          /\ req[h].op \in {"activate", "delete"}
          /\ req[h].version \in Versions
          /\ req[h].op = "activate" => /\ req[h].content \in Contents
    /\ \A h \in Handlers : hpc[h] = "audit" =>
          /\ req[h].op \in {"create", "activate", "delete"}
          /\ req[h].version \in Versions

\* The history ends with the pointer.
LogTracksPointer ==
    /\ Len(log) = 0 => active = NoVersion
    /\ Len(log) > 0 => active = log[Len(log)].version

LogEntry == [version : Versions, content : Contents \cup {NoContent}, copy : Nat,
             replaced : Versions \cup {NoVersion}]

IndInv == TypeOK /\ ReadsAreSound /\ ChecksStillHold /\ LogTracksPointer /\ ActivationsFormAChain

\* The value of an idle handler is a request record.
LEMMA NoRequestType == NoRequest \in Request
  BY InstancesAssumption DEF NoRequest, Request, NoVersion

\* The value of an idle watch goroutine is a load record.
LEMMA NoLoadType == NoLoad \in Load
  BY DEF NoLoad, Load, NoVersion

\* The file of a process holds a configuration, at its first start and at later ones.
LEMMA FilesType ==
  ASSUME NEW i \in Instances
  PROVE  BootFile[i] \in Config /\ ReloadFiles[i] \subseteq Config /\ Files(i) \subseteq Config
  BY FilesAssumption DEF Files

\* What is served is a configuration.
LEMMA ServedType ==
  ASSUME TypeOK, NEW i \in Instances
  PROVE  /\ File(i) \in Config
         /\ File(i).version \in Versions
         /\ File(i).content \in Contents
  BY DEF TypeOK, File, Config

\* A snapshot of a file.
LEMMA FromFileType ==
  ASSUME NEW file \in Config
  PROVE  FromFile(file) \in [config : Config, epoch : Nat, copy : Nat]
  BY DEF FromFile

\* A number has stood for some number of documents.
LEMMA CopyType ==
  ASSUME TypeOK, NEW v \in Versions
  PROVE  Copy(v) \in Nat
  BY DEF TypeOK, Copy

\* A committed activation that notes its place in the history stays a request.
LEMMA RequestEpochType ==
  ASSUME NEW r \in Request, NEW n \in Nat
  PROVE  [r EXCEPT !.epoch = n] \in Request
  BY DEF Request

\* What a swap installs is a snapshot.
LEMMA SnapshotType ==
  ASSUME NEW v \in Versions, NEW c \in Contents, NEW n \in Nat, NEW m \in Nat
  PROVE  [config |-> [version |-> v, content |-> c], epoch |-> n, copy |-> m]
            \in [config : Config, epoch : Nat, copy : Nat]
  BY DEF Config

\* A load that has read the pointer is a load.
LEMMA LoadStartType ==
  ASSUME NEW v \in Versions, NEW n \in Nat
  PROVE  [NoLoad EXCEPT !.version = v, !.epoch = n] \in Load
  BY DEF NoLoad, Load, NoVersion

\* A load that has fetched its version key stays a load.
LEMMA LoadContentType ==
  ASSUME NEW l \in Load, NEW c \in Contents, NEW n \in Nat
  PROVE  [l EXCEPT !.content = c, !.copy = n] \in Load
  BY DEF Load

\* An operation on a version is an audit event.
LEMMA EventType ==
  ASSUME NEW op \in {"create", "activate", "delete"}, NEW v \in Versions
  PROVE  <<op, v>> \in Event
  BY DEF Event

\* The request of a creation or a deletion, which have no If-Match.
LEMMA ShortRequestType ==
  ASSUME NEW op \in {"create", "delete"}, NEW i \in Instances, NEW v \in Versions
  PROVE  [NoRequest EXCEPT !.op = op, !.at = i, !.version = v] \in Request
  BY InstancesAssumption DEF NoRequest, Request, NoVersion

\* What appending one activation does to the history.
LEMMA RecordFacts ==
  ASSUME TypeOK, NEW v \in Versions, NEW old \in Versions \cup {NoVersion}
  PROVE  /\ Record(v, old) \in Seq(LogEntry)
         /\ Len(Record(v, old)) = Len(log) + 1
         /\ Record(v, old)[Len(log) + 1].version = v
         /\ Record(v, old)[Len(log) + 1].content = configs[v]
         /\ Record(v, old)[Len(log) + 1].copy = Copy(v)
         /\ Record(v, old)[Len(log) + 1].replaced = old
         /\ \A n \in 1..Len(log) : Record(v, old)[n] = log[n]
  <1> DEFINE e == [version |-> v, content |-> configs[v], copy |-> Copy(v), replaced |-> old]
  <1>1. e \in LogEntry
    BY CopyType DEF TypeOK, LogEntry
  <1>2. log \in Seq(LogEntry)
    BY DEF TypeOK, LogEntry
  <1>3. Record(v, old) = Append(log, e)
    BY DEF Record
  <1> HIDE DEF e
  <1>4. /\ Append(log, e) \in Seq(LogEntry)
        /\ Len(Append(log, e)) = Len(log) + 1
        /\ Append(log, e)[Len(log) + 1] = e
        /\ \A n \in 1..Len(log) : Append(log, e)[n] = log[n]
    BY <1>1, <1>2
  <1> QED
    BY <1>3, <1>4 DEF e

\* The initial state satisfies the inductive invariant.
LEMMA InitEstablishes == Init => IndInv
  <1> SUFFICES ASSUME Init PROVE IndInv
    OBVIOUS
  <1> USE DEF Init
  <1>1. TypeOK
    BY NoRequestType, NoLoadType, FilesType, FromFileType DEF TypeOK, StartPC, NoVersion
  <1>2. ReadsAreSound
    BY DEF ReadsAreSound, InLoad, Fetched, InActivate, StartPC
  <1>3. ChecksStillHold
    BY DEF ChecksStillHold
  <1>4. LogTracksPointer /\ ActivationsFormAChain
    BY DEF LogTracksPointer, ActivationsFormAChain
  <1> QED
    BY <1>1, <1>2, <1>3, <1>4 DEF IndInv

-------------------------------------------------------------------------------
(* Each part of the invariant is kept by each action. *)

\* SETNX of a version key keeps the types of what it writes.
LEMMA PutType ==
  ASSUME TypeOK, NEW config \in Config, Put(config)
  PROVE  /\ configs' \in [Versions -> Contents \cup {NoContent}]
         /\ documents' \in [Versions -> Seq(Contents)]
         /\ dirty' \in [Handlers -> BOOLEAN]
  <1>1. config.version \in Versions /\ config.content \in Contents
    BY DEF Config
  <1>2. Append(documents[config.version], config.content) \in Seq(Contents)
    BY <1>1 DEF TypeOK
  <1> QED
    BY <1>1, <1>2 DEF TypeOK, Put, Dirtied

\* Types.
LEMMA TypeStep ==
  ASSUME TypeOK, ReadsAreSound, [Next]_vars
  PROVE  TypeOK'
  <1> USE DEF TypeOK, redisVars, instanceVars, handlerVars
  <1>1. ASSUME NEW i \in Instances, BootStore(i)
         PROVE  TypeOK'
    BY <1>1, ServedType, PutType DEF BootStore
  <1>2. ASSUME NEW i \in Instances, BootPoint(i)
         PROVE  TypeOK'
    <2>1. File(i).version \in Versions
      BY ServedType
    <2>2. log' \in Seq(LogEntry)
      <3>1. CASE log' = Record(File(i).version, NoVersion)
        BY <2>1, <3>1, RecordFacts
      <3>2. CASE log' = log
        BY <3>2 DEF LogEntry
      <3> QED
        BY <1>2, <3>1, <3>2 DEF BootPoint
    <2> QED
      BY <1>2, <2>1, <2>2 DEF BootPoint, Dirtied, LogEntry
  <1>3. ASSUME NEW i \in Instances, LoadActive(i)
         PROVE  TypeOK'
    <2>1. active \in Versions /\ Len(log) \in Nat
      BY <1>3 DEF LoadActive
    <2>2. load' \in [Instances -> Load]
      BY <1>3, <2>1, LoadStartType DEF LoadActive
    <2> QED
      BY <1>3, <2>2 DEF LoadActive
  <1>4. ASSUME NEW i \in Instances, LoadCompare(i)
         PROVE  TypeOK'
    BY <1>4, NoLoadType DEF LoadCompare
  <1>5. ASSUME NEW i \in Instances, LoadFetch(i)
         PROVE  TypeOK'
    <2>1. load[i].version \in Versions /\ configs[load[i].version] \in Contents
      BY <1>5 DEF LoadFetch, ReadsAreSound, InLoad, FetchKey, Stored
    <2>2. [load[i] EXCEPT !.content = configs[load[i].version], !.copy = Copy(load[i].version)]
             \in Load
      BY <2>1, LoadContentType, CopyType
    <2>3. load' \in [Instances -> Load]
      BY <1>5, <2>2 DEF LoadFetch, FetchKey
    <2> QED
      BY <1>5, <2>3 DEF LoadFetch
  <1>6. ASSUME NEW i \in Instances, LoadFail(i)
         PROVE  TypeOK'
    BY <1>6, NoLoadType DEF LoadFail
  <1>7. ASSUME NEW i \in Instances, LoadSwap(i)
         PROVE  TypeOK'
    <2>1. load[i].version \in Versions /\ load[i].content \in Contents
          /\ load[i].epoch \in Nat /\ load[i].copy \in Nat
      BY <1>7 DEF LoadSwap, ReadsAreSound, InLoad, Fetched, Load
    <2> DEFINE new == [config |-> [version |-> load[i].version, content |-> load[i].content],
                       epoch |-> load[i].epoch, copy |-> load[i].copy]
    <2>2. new \in [config : Config, epoch : Nat, copy : Nat]
      BY <2>1, SnapshotType
    <2>3. \/ serving' = [serving EXCEPT ![i] = new]
          \/ serving' = serving
      BY <1>7 DEF LoadSwap
    <2> HIDE DEF new
    <2>4. serving' \in [Instances -> [config : Config, epoch : Nat, copy : Nat]]
      BY <2>2, <2>3
    <2> QED
      BY <1>7, <2>4, NoLoadType DEF LoadSwap
  <1>8. ASSUME NEW i \in Instances, LoadStore(i)
         PROVE  TypeOK'
    BY <1>8, NoLoadType DEF LoadStore, ReadsAreSound, InLoad, Load
  <1>9. ASSUME NEW i \in Instances, NEW file \in ReloadFiles[i], Reload(i, file)
         PROVE  TypeOK'
    <2>1. file \in Config
      BY FilesType
    <2>2. FromFile(file) \in [config : Config, epoch : Nat, copy : Nat]
      BY <2>1, FromFileType
    <2>3. serving' \in [Instances -> [config : Config, epoch : Nat, copy : Nat]]
      BY <1>9, <2>2 DEF Reload
    <2> QED
      BY <1>9, <2>3 DEF Reload
  <1>10. ASSUME NEW i \in Instances, NEW file \in Files(i), Crash(i, file)
          PROVE  TypeOK'
    <2>1. FromFile(file) \in [config : Config, epoch : Nat, copy : Nat]
      BY FilesType, FromFileType
    <2> QED
      BY <1>10, <2>1, NoRequestType, NoLoadType DEF Crash, StartPC, NoVersion
  <1>11. ASSUME NEW h \in Handlers, NEW i \in Admin, NEW draft \in Drafts, CreateConfig(h, i, draft)
          PROVE  TypeOK'
    <2> DEFINE new == [NoRequest EXCEPT !.op = "create", !.at = i, !.version = draft.version]
    <2>1. draft.version \in Versions /\ draft.content \in Contents /\ i \in Instances
      BY FilesAssumption, InstancesAssumption DEF Config
    <2>2. new \in Request /\ <<"create", draft.version>> \in Event
      BY <2>1, ShortRequestType, EventType
    <2>3. req' = [req EXCEPT ![h] = new]
      BY <1>11 DEF CreateConfig
    <2> HIDE DEF new
    <2>4. req' \in [Handlers -> Request] /\ committed' \subseteq Event
      BY <1>11, <2>2, <2>3 DEF CreateConfig
    <2>5. draft \in Config
      BY FilesAssumption
    <2>6. /\ configs' \in [Versions -> Contents \cup {NoContent}]
          /\ documents' \in [Versions -> Seq(Contents)]
          /\ dirty' \in [Handlers -> BOOLEAN]
      BY <1>11, <2>5, PutType DEF CreateConfig
    <2> QED
      BY <1>11, <2>4, <2>6 DEF CreateConfig, Receive, GoTo
  <1>12. ASSUME NEW h \in Handlers, NEW i \in Admin, NEW v \in Versions, NEW x \in Versions, ActivateGet(h, i, v, x)
          PROVE  TypeOK'
    <2>1. i \in Instances /\ configs[v] \in Contents \cup {NoContent} /\ Copy(v) \in Nat
      BY InstancesAssumption, CopyType
    <2>2. [op |-> "activate", at |-> i, version |-> v, expected |-> x, content |-> configs[v],
           copy |-> Copy(v), epoch |-> 0] \in Request
      BY <2>1 DEF Request
    <2>3. req' \in [Handlers -> Request]
      BY <1>12, <2>2 DEF ActivateGet
    <2> QED
      BY <1>12, <2>3 DEF ActivateGet, Receive, GoTo
  <1>13. ASSUME NEW h \in Handlers, NEW i \in Admin, NEW v \in Versions, DeleteWatch(h, i, v)
          PROVE  TypeOK'
    <2>1. [NoRequest EXCEPT !.op = "delete", !.at = i, !.version = v] \in Request
      BY ShortRequestType, InstancesAssumption
    <2>2. req' \in [Handlers -> Request]
      BY <1>13, <2>1 DEF DeleteWatch
    <2> QED
      BY <1>13, <2>2 DEF DeleteWatch, Receive, GoTo
  <1>14. ASSUME NEW h \in Handlers, ActivateWatch(h)
          PROVE  TypeOK'
    BY <1>14 DEF ActivateWatch, GoTo
  <1>15. ASSUME NEW h \in Handlers, ActivateExec(h)
          PROVE  TypeOK'
    <2>1. req[h].version \in Versions /\ req[h].expected \in Versions \cup {NoVersion}
      BY <1>15 DEF ActivateExec, ReadsAreSound, Request
    <2>2. log' \in Seq(LogEntry) /\ Len(log) \in Nat
      BY <1>15, <2>1, RecordFacts DEF ActivateExec
    <2>3. req[h] \in Request /\ Len(log) + 1 \in Nat
      BY <2>2
    <2>4. [req[h] EXCEPT !.epoch = Len(log) + 1] \in Request
      BY <2>3, RequestEpochType
    <2>5. req' \in [Handlers -> Request]
      BY <1>15, <2>4, NoRequestType DEF ActivateExec, Finish
    <2>6. committed' \subseteq Event
      BY <1>15, <2>1, EventType DEF ActivateExec
    <2> QED
      BY <1>15, <2>1, <2>2, <2>5, <2>6 DEF ActivateExec, GoTo, Finish, Dirtied, LogEntry
  <1>16. ASSUME NEW h \in Handlers, ActivateSwap(h)
          PROVE  TypeOK'
    BY <1>16 DEF ActivateSwap, GoTo, Request, ReadsAreSound, InActivate, Config
  <1>17. ASSUME NEW h \in Handlers, ActivateStore(h)
          PROVE  TypeOK'
    BY <1>17 DEF ActivateStore, GoTo, Request, ReadsAreSound, InActivate
  <1>18. ASSUME NEW h \in Handlers, DeleteExec(h)
          PROVE  TypeOK'
    <2>1. req[h].version \in Versions
      BY <1>18 DEF DeleteExec, ReadsAreSound
    <2>2. committed' \subseteq Event
      BY <1>18, <2>1, EventType DEF DeleteExec
    <2> QED
      BY <1>18, <2>1, <2>2 DEF DeleteExec, GoTo, Dirtied
  <1>19. ASSUME NEW h \in Handlers, Refuse(h)
          PROVE  TypeOK'
    BY <1>19, NoRequestType DEF Refuse, Finish
  <1>20. ASSUME NEW h \in Handlers, Audit(h)
          PROVE  TypeOK'
    <2>1. <<req[h].op, req[h].version>> \in Event
      BY <1>20, EventType DEF Audit, ReadsAreSound
    <2>2. audit' \in Event \cup {NoEvent}
      BY <1>20, <2>1 DEF Audit
    <2> QED
      BY <1>20, <2>2, NoRequestType DEF Audit, Finish
  <1>21. CASE UNCHANGED vars
    BY <1>21 DEF vars
  <1> QED
    BY <1>1, <1>2, <1>3, <1>4, <1>5, <1>6, <1>7, <1>8, <1>9, <1>10, <1>11,
       <1>12, <1>13, <1>14, <1>15, <1>16, <1>17, <1>18, <1>19, <1>20, <1>21
       DEF Next, Watch, Handle, LoadNothing

\* What load and the handlers have read.
LEMMA ReadsStep ==
  ASSUME TypeOK, ReadsAreSound, [Next]_vars
  PROVE  ReadsAreSound'
  <1> USE DEF ReadsAreSound, InLoad, Fetched, InActivate, redisVars, instanceVars, handlerVars
  <1>1. ASSUME NEW i \in Instances, BootStore(i)
         PROVE  ReadsAreSound'
    BY <1>1 DEF BootStore, TypeOK
  <1>2. ASSUME NEW i \in Instances, BootPoint(i)
         PROVE  ReadsAreSound'
    BY <1>2 DEF BootPoint, Dirtied, TypeOK
  <1>3. ASSUME NEW i \in Instances, LoadActive(i)
         PROVE  ReadsAreSound'
    BY <1>3 DEF LoadActive, TypeOK, NoVersion
  <1>4. ASSUME NEW i \in Instances, LoadCompare(i)
         PROVE  ReadsAreSound'
    BY <1>4 DEF LoadCompare, TypeOK
  <1>5. ASSUME NEW i \in Instances, LoadFetch(i)
         PROVE  ReadsAreSound'
    BY <1>5 DEF LoadFetch, TypeOK, FetchKey, Stored, Load
  <1>6. ASSUME NEW i \in Instances, LoadFail(i)
         PROVE  ReadsAreSound'
    BY <1>6 DEF LoadFail, TypeOK
  <1>7. ASSUME NEW i \in Instances, LoadSwap(i)
         PROVE  ReadsAreSound'
    BY <1>7 DEF LoadSwap, TypeOK
  <1>8. ASSUME NEW i \in Instances, LoadStore(i)
         PROVE  ReadsAreSound'
    BY <1>8 DEF LoadStore, TypeOK
  <1>9. ASSUME NEW i \in Instances, NEW file \in ReloadFiles[i], Reload(i, file)
         PROVE  ReadsAreSound'
    BY <1>9 DEF Reload, Started
  <1>10. ASSUME NEW i \in Instances, NEW file \in Files(i), Crash(i, file)
          PROVE  ReadsAreSound'
    BY <1>10 DEF Crash, TypeOK, StartPC
  <1>11. ASSUME NEW h \in Handlers, NEW i \in Admin, NEW draft \in Drafts, CreateConfig(h, i, draft)
          PROVE  ReadsAreSound'
    <2> DEFINE new == [NoRequest EXCEPT !.op = "create", !.at = i, !.version = draft.version]
    <2>1. draft.version \in Versions /\ i \in Instances
      BY FilesAssumption, InstancesAssumption DEF Config
    <2>2. new.op = "create" /\ new.version \in Versions
      BY <2>1 DEF NoRequest
    <2>3. req' = [req EXCEPT ![h] = new] /\ hpc' = [hpc EXCEPT ![h] = "audit"]
      BY <1>11 DEF CreateConfig, GoTo
    <2> HIDE DEF new
    <2>4. /\ hpc'[h] = "audit" /\ req'[h] = new
          /\ \A k \in Handlers : k # h => hpc'[k] = hpc[k] /\ req'[k] = req[k]
      BY <2>3 DEF TypeOK
    <2>5. UNCHANGED <<wpc, load>>
      BY <1>11 DEF CreateConfig
    <2> QED
      BY <2>2, <2>4, <2>5
  <1>12. ASSUME NEW h \in Handlers, NEW i \in Admin, NEW v \in Versions, NEW x \in Versions, ActivateGet(h, i, v, x)
          PROVE  ReadsAreSound'
    BY <1>12 DEF ActivateGet, Receive, GoTo, Usable, TypeOK, Stored
  <1>13. ASSUME NEW h \in Handlers, NEW i \in Admin, NEW v \in Versions, DeleteWatch(h, i, v)
          PROVE  ReadsAreSound'
    BY <1>13 DEF DeleteWatch, Receive, GoTo, TypeOK
  <1>14. ASSUME NEW h \in Handlers, ActivateWatch(h)
          PROVE  ReadsAreSound'
    BY <1>14 DEF ActivateWatch, GoTo, TypeOK
  <1>15. ASSUME NEW h \in Handlers, ActivateExec(h)
          PROVE  ReadsAreSound'
    <2>1. \A k \in Handlers : k # h => req'[k] = req[k] /\ hpc'[k] = hpc[k]
      BY <1>15 DEF ActivateExec, GoTo, Finish, TypeOK
    <2>2. CASE hpc' = [hpc EXCEPT ![h] = "committed"] /\ req' = [req EXCEPT ![h].epoch = Len(log) + 1]
      <3>1. /\ req'[h].op = req[h].op /\ req'[h].version = req[h].version
            /\ req'[h].content = req[h].content
        BY <2>2 DEF TypeOK, Request
      <3>2. hpc'[h] = "committed"
        BY <2>2 DEF TypeOK
      <3> QED
        BY <1>15, <2>1, <3>1, <3>2 DEF ActivateExec
    <2>3. CASE Finish(h)
      <3>1. hpc'[h] = "idle"
        BY <2>3 DEF Finish, TypeOK
      <3> QED
        BY <1>15, <2>1, <3>1 DEF ActivateExec
    <2> QED
      BY <1>15, <2>2, <2>3 DEF ActivateExec, GoTo
  <1>16. ASSUME NEW h \in Handlers, ActivateSwap(h)
          PROVE  ReadsAreSound'
    BY <1>16 DEF ActivateSwap, GoTo, TypeOK
  <1>17. ASSUME NEW h \in Handlers, ActivateStore(h)
          PROVE  ReadsAreSound'
    BY <1>17 DEF ActivateStore, GoTo, TypeOK
  <1>18. ASSUME NEW h \in Handlers, DeleteExec(h)
          PROVE  ReadsAreSound'
    BY <1>18 DEF DeleteExec, GoTo, Dirtied, TypeOK
  <1>19. ASSUME NEW h \in Handlers, Refuse(h)
          PROVE  ReadsAreSound'
    BY <1>19 DEF Refuse, Finish, TypeOK
  <1>20. ASSUME NEW h \in Handlers, Audit(h)
          PROVE  ReadsAreSound'
    BY <1>20 DEF Audit, Finish, TypeOK
  <1>21. CASE UNCHANGED vars
    BY <1>21 DEF vars
  <1> QED
    BY <1>1, <1>2, <1>3, <1>4, <1>5, <1>6, <1>7, <1>8, <1>9, <1>10, <1>11,
       <1>12, <1>13, <1>14, <1>15, <1>16, <1>17, <1>18, <1>19, <1>20, <1>21
       DEF Next, Watch, Handle, LoadNothing

\* A write that would falsify the checks of a waiting transaction hits a key it
\* watches.
LEMMA ChecksStep ==
  ASSUME TypeOK, ReadsAreSound, ChecksStillHold, [Next]_vars
  PROVE  ChecksStillHold'
  <1> USE DEF ChecksStillHold, Stored, redisVars, instanceVars, handlerVars
  <1>1. ASSUME NEW i \in Instances, BootStore(i)
         PROVE  ChecksStillHold'
    BY <1>1, ServedType, ContentsAssumption
       DEF BootStore, Put, Dirtied, TypeOK, WatchersOf, Watchers
  <1>2. ASSUME NEW i \in Instances, BootPoint(i)
         PROVE  ChecksStillHold'
    BY <1>2 DEF BootPoint, Dirtied, TypeOK, Watchers
  <1>3. ASSUME NEW i \in Instances, LoadActive(i)
         PROVE  ChecksStillHold'
    BY <1>3 DEF LoadActive, TypeOK
  <1>4. ASSUME NEW i \in Instances, LoadCompare(i)
         PROVE  ChecksStillHold'
    BY <1>4 DEF LoadCompare, TypeOK
  <1>5. ASSUME NEW i \in Instances, LoadFetch(i)
         PROVE  ChecksStillHold'
    BY <1>5 DEF LoadFetch, TypeOK
  <1>6. ASSUME NEW i \in Instances, LoadFail(i)
         PROVE  ChecksStillHold'
    BY <1>6 DEF LoadFail, TypeOK
  <1>7. ASSUME NEW i \in Instances, LoadSwap(i)
         PROVE  ChecksStillHold'
    BY <1>7 DEF LoadSwap, TypeOK
  <1>8. ASSUME NEW i \in Instances, LoadStore(i)
         PROVE  ChecksStillHold'
    BY <1>8 DEF LoadStore, TypeOK
  <1>9. ASSUME NEW i \in Instances, NEW file \in ReloadFiles[i], Reload(i, file)
         PROVE  ChecksStillHold'
    BY <1>9 DEF Reload, Started, TypeOK
  <1>10. ASSUME NEW i \in Instances, NEW file \in Files(i), Crash(i, file)
          PROVE  ChecksStillHold'
    BY <1>10 DEF Crash, TypeOK
  <1>11. ASSUME NEW h \in Handlers, NEW i \in Admin, NEW draft \in Drafts, CreateConfig(h, i, draft)
          PROVE  ChecksStillHold'
    <2>1. hpc'[h] = "audit" /\ \A k \in Handlers : k # h => hpc'[k] = hpc[k] /\ req'[k] = req[k]
      BY <1>11 DEF CreateConfig, GoTo, TypeOK
    <2> QED
      BY <1>11, <2>1, FilesAssumption, ContentsAssumption
         DEF CreateConfig, Put, Dirtied, TypeOK, WatchersOf, Watchers, Config
  <1>12. ASSUME NEW h \in Handlers, NEW i \in Admin, NEW v \in Versions, NEW x \in Versions, ActivateGet(h, i, v, x)
          PROVE  ChecksStillHold'
    BY <1>12 DEF ActivateGet, Receive, GoTo, Usable, TypeOK
  <1>13. ASSUME NEW h \in Handlers, NEW i \in Admin, NEW v \in Versions, DeleteWatch(h, i, v)
          PROVE  ChecksStillHold'
    BY <1>13 DEF DeleteWatch, Receive, GoTo, TypeOK, NoRequest
  <1>14. ASSUME NEW h \in Handlers, ActivateWatch(h)
          PROVE  ChecksStillHold'
    BY <1>14 DEF ActivateWatch, GoTo, TypeOK, ReadsAreSound, InActivate
  <1>15. ASSUME NEW h \in Handlers, ActivateExec(h)
          PROVE  ChecksStillHold'
    BY <1>15 DEF ActivateExec, GoTo, Finish, Dirtied, TypeOK, Watchers
  <1>16. ASSUME NEW h \in Handlers, ActivateSwap(h)
          PROVE  ChecksStillHold'
    BY <1>16 DEF ActivateSwap, GoTo, TypeOK
  <1>17. ASSUME NEW h \in Handlers, ActivateStore(h)
          PROVE  ChecksStillHold'
    BY <1>17 DEF ActivateStore, GoTo, TypeOK
  <1>18. ASSUME NEW h \in Handlers, DeleteExec(h)
          PROVE  ChecksStillHold'
    BY <1>18 DEF DeleteExec, GoTo, Dirtied, TypeOK, WatchersOf, Watchers, NoVersion
  <1>19. ASSUME NEW h \in Handlers, Refuse(h)
          PROVE  ChecksStillHold'
    BY <1>19 DEF Refuse, Finish, TypeOK
  <1>20. ASSUME NEW h \in Handlers, Audit(h)
          PROVE  ChecksStillHold'
    BY <1>20 DEF Audit, Finish, TypeOK
  <1>21. CASE UNCHANGED vars
    BY <1>21 DEF vars
  <1> QED
    BY <1>1, <1>2, <1>3, <1>4, <1>5, <1>6, <1>7, <1>8, <1>9, <1>10, <1>11,
       <1>12, <1>13, <1>14, <1>15, <1>16, <1>17, <1>18, <1>19, <1>20, <1>21
       DEF Next, Watch, Handle, LoadNothing

\* An activation that replaces the current pointer extends the chain.
LEMMA AppendKeepsChain ==
  ASSUME TypeOK, LogTracksPointer, ActivationsFormAChain,
         NEW v \in Versions, NEW old \in Versions \cup {NoVersion},
         active = old, active' = v, log' = Record(v, old)
  PROVE  (LogTracksPointer /\ ActivationsFormAChain)'
  <1> DEFINE new == Record(v, old)
  <1>1. /\ Len(new) = Len(log) + 1
        /\ new[Len(log) + 1].version = v
        /\ new[Len(log) + 1].replaced = old
        /\ \A n \in 1..Len(log) : new[n] = log[n]
    BY RecordFacts
  <1>2. Len(log) \in Nat
    BY DEF TypeOK
  <1> HIDE DEF new
  <1>3. LogTracksPointer'
    BY <1>1, <1>2 DEF LogTracksPointer, new
  <1>4. ASSUME NEW n \in 1..Len(new)
        PROVE  new[n].replaced = IF n = 1 THEN NoVersion ELSE new[n - 1].version
    <2>1. CASE n \in 1..Len(log)
      BY <1>1, <1>2, <2>1 DEF ActivationsFormAChain
    <2>2. CASE n = Len(log) + 1
      BY <1>1, <1>2, <2>2 DEF LogTracksPointer
    <2> QED
      BY <1>1, <1>2, <2>1, <2>2
  <1>5. ActivationsFormAChain'
    BY <1>4 DEF ActivationsFormAChain, new
  <1> QED
    BY <1>3, <1>5

\* The history: only a pointer write extends it, and its EXEC replaced the last one.
LEMMA LogStep ==
  ASSUME TypeOK, ReadsAreSound, ChecksStillHold, LogTracksPointer, ActivationsFormAChain, [Next]_vars
  PROVE  (LogTracksPointer /\ ActivationsFormAChain)'
  <1> USE DEF LogTracksPointer, ActivationsFormAChain, redisVars
  <1>1. ASSUME NEW i \in Instances, BootStore(i)
         PROVE  (LogTracksPointer /\ ActivationsFormAChain)'
    BY <1>1 DEF BootStore
  <1>2. ASSUME NEW i \in Instances, BootPoint(i)
         PROVE  (LogTracksPointer /\ ActivationsFormAChain)'
    <2>1. CASE log' = Record(File(i).version, NoVersion) /\ active = NoVersion
                 /\ active' = File(i).version
      BY <2>1, ServedType, AppendKeepsChain
    <2>2. CASE UNCHANGED <<active, log>>
      BY <2>2
    <2> QED
      BY <1>2, <2>1, <2>2 DEF BootPoint
  <1>3. ASSUME NEW i \in Instances, LoadActive(i)
         PROVE  (LogTracksPointer /\ ActivationsFormAChain)'
    BY <1>3 DEF LoadActive
  <1>4. ASSUME NEW i \in Instances, LoadCompare(i)
         PROVE  (LogTracksPointer /\ ActivationsFormAChain)'
    BY <1>4 DEF LoadCompare
  <1>5. ASSUME NEW i \in Instances, LoadFetch(i)
         PROVE  (LogTracksPointer /\ ActivationsFormAChain)'
    BY <1>5 DEF LoadFetch
  <1>6. ASSUME NEW i \in Instances, LoadFail(i)
         PROVE  (LogTracksPointer /\ ActivationsFormAChain)'
    BY <1>6 DEF LoadFail
  <1>7. ASSUME NEW i \in Instances, LoadSwap(i)
         PROVE  (LogTracksPointer /\ ActivationsFormAChain)'
    BY <1>7 DEF LoadSwap
  <1>8. ASSUME NEW i \in Instances, LoadStore(i)
         PROVE  (LogTracksPointer /\ ActivationsFormAChain)'
    BY <1>8 DEF LoadStore
  <1>9. ASSUME NEW i \in Instances, NEW file \in ReloadFiles[i], Reload(i, file)
         PROVE  (LogTracksPointer /\ ActivationsFormAChain)'
    BY <1>9 DEF Reload, Started
  <1>10. ASSUME NEW i \in Instances, NEW file \in Files(i), Crash(i, file)
          PROVE  (LogTracksPointer /\ ActivationsFormAChain)'
    BY <1>10 DEF Crash
  <1>11. ASSUME NEW h \in Handlers, NEW i \in Admin, NEW draft \in Drafts, CreateConfig(h, i, draft)
          PROVE  (LogTracksPointer /\ ActivationsFormAChain)'
    BY <1>11 DEF CreateConfig, Receive, Dirtied
  <1>12. ASSUME NEW h \in Handlers, NEW i \in Admin, NEW v \in Versions, NEW x \in Versions, ActivateGet(h, i, v, x)
          PROVE  (LogTracksPointer /\ ActivationsFormAChain)'
    BY <1>12 DEF ActivateGet, Receive, GoTo, Usable
  <1>13. ASSUME NEW h \in Handlers, NEW i \in Admin, NEW v \in Versions, DeleteWatch(h, i, v)
          PROVE  (LogTracksPointer /\ ActivationsFormAChain)'
    BY <1>13 DEF DeleteWatch, Receive, GoTo
  <1>14. ASSUME NEW h \in Handlers, ActivateWatch(h)
          PROVE  (LogTracksPointer /\ ActivationsFormAChain)'
    BY <1>14 DEF ActivateWatch, GoTo
  <1>15. ASSUME NEW h \in Handlers, ActivateExec(h)
          PROVE  (LogTracksPointer /\ ActivationsFormAChain)'
    <2>1. req[h].version \in Versions /\ active = req[h].expected
      BY <1>15 DEF ActivateExec, ExecSucceeds, ChecksStillHold
    <2>2. active \in Versions \cup {NoVersion}
      BY DEF TypeOK
    <2> QED
      BY <1>15, <2>1, <2>2, AppendKeepsChain DEF ActivateExec
  <1>16. ASSUME NEW h \in Handlers, ActivateSwap(h)
          PROVE  (LogTracksPointer /\ ActivationsFormAChain)'
    BY <1>16 DEF ActivateSwap, GoTo
  <1>17. ASSUME NEW h \in Handlers, ActivateStore(h)
          PROVE  (LogTracksPointer /\ ActivationsFormAChain)'
    BY <1>17 DEF ActivateStore, GoTo
  <1>18. ASSUME NEW h \in Handlers, DeleteExec(h)
          PROVE  (LogTracksPointer /\ ActivationsFormAChain)'
    BY <1>18 DEF DeleteExec, Finish, Dirtied
  <1>19. ASSUME NEW h \in Handlers, Refuse(h)
          PROVE  (LogTracksPointer /\ ActivationsFormAChain)'
    BY <1>19 DEF Refuse, Finish
  <1>20. ASSUME NEW h \in Handlers, Audit(h)
          PROVE  (LogTracksPointer /\ ActivationsFormAChain)'
    BY <1>20 DEF Audit, Finish
  <1>21. CASE UNCHANGED vars
    BY <1>21 DEF vars
  <1> QED
    BY <1>1, <1>2, <1>3, <1>4, <1>5, <1>6, <1>7, <1>8, <1>9, <1>10, <1>11,
       <1>12, <1>13, <1>14, <1>15, <1>16, <1>17, <1>18, <1>19, <1>20, <1>21
       DEF Next, Watch, Handle, LoadNothing

\* Every step keeps the inductive invariant.
LEMMA IndInvStep == IndInv /\ [Next]_vars => IndInv'
  BY TypeStep, ReadsStep, ChecksStep, LogStep DEF IndInv

\* The inductive invariant holds of start-up, the watch goroutines, the admin
\* handlers, SIGHUPs and crashes in any interleaving.
THEOREM Invariant == Spec => []IndInv
  <1>1. Init => IndInv
    BY InitEstablishes
  <1>2. IndInv /\ [Next]_vars => IndInv'
    BY IndInvStep
  <1> QED
    BY <1>1, <1>2, PTL DEF Spec

-------------------------------------------------------------------------------
(***************************************************************************)
(* The theorems.                                                           *)
(***************************************************************************)

\* Every reachable state is well typed.
THEOREM TypeCorrect == Spec => []TypeOK
  <1>1. IndInv => TypeOK
    BY DEF IndInv
  <1> QED
    BY <1>1, Invariant, PTL

\* Between its checks and its EXEC an activation or a deletion is protected by
\* WATCH: unless a watched key was written, what it checked still holds.
THEOREM TransactionsSeeTheirChecks == Spec => []ChecksStillHold
  <1>1. IndInv => ChecksStillHold
    BY DEF IndInv
  <1> QED
    BY <1>1, Invariant, PTL

\* No activation is lost: each names, in If-Match, the one it replaced.
THEOREM NoLostActivation == Spec => []ActivationsFormAChain
  <1>1. IndInv => ActivationsFormAChain
    BY DEF IndInv
  <1> QED
    BY <1>1, Invariant, PTL

-------------------------------------------------------------------------------
\* What a step does to the two Redis keys: one operation of the atomic store, or nothing.
LEMMA StepIsAStoreStep ==
  ASSUME IndInv, [Next]_vars
  PROVE  [Store!VSNext]_(Store!vsVars)
  <1> USE DEF IndInv, Store!vsVars, Store!Free, redisVars, instanceVars, handlerVars
  <1>1. ASSUME NEW i \in Instances, BootStore(i)
        PROVE  [Store!VSNext]_(Store!vsVars)
    <2>1. File(i).version \in Versions /\ File(i).content \in Contents
      BY ServedType
    <2>2. \/ Store!Put(File(i).version, File(i).content)
          \/ UNCHANGED <<configs, active>>
      BY <1>1 DEF BootStore, Put, Store!Put, Stored
    <2> QED
      BY <2>1, <2>2 DEF Store!VSNext
  <1>2. ASSUME NEW i \in Instances, BootPoint(i)
        PROVE  [Store!VSNext]_(Store!vsVars)
    <2>1. File(i).version \in Versions
      BY ServedType
    <2>2. Store!Seed(File(i).version) \/ UNCHANGED <<configs, active>>
      BY <1>2 DEF BootPoint, Store!Seed, NoVersion
    <2> QED
      BY <2>1, <2>2 DEF Store!VSNext
  <1>3. ASSUME NEW h \in Handlers, NEW i \in Admin, NEW draft \in Drafts,
               CreateConfig(h, i, draft)
        PROVE  [Store!VSNext]_(Store!vsVars)
    <2>1. draft.version \in Versions /\ draft.content \in Contents
      BY FilesAssumption DEF Config
    <2>2. Store!Put(draft.version, draft.content)
      BY <1>3 DEF CreateConfig, Put, Store!Put, Stored
    <2> QED
      BY <2>1, <2>2 DEF Store!VSNext
  <1>4. ASSUME NEW h \in Handlers, ActivateExec(h)
        PROVE  [Store!VSNext]_(Store!vsVars)
    <2>1. /\ req[h].version \in Versions
          /\ Stored(req[h].version)
          /\ active = req[h].expected
      BY <1>4 DEF ActivateExec, ExecSucceeds, ChecksStillHold
    <2>2. CASE active \in Versions
      <3>1. Store!Point(active, req[h].version)
        BY <1>4, <2>1 DEF ActivateExec, Store!Point, Stored
      <3> QED
        BY <2>1, <2>2, <3>1 DEF Store!VSNext
    <2>3. CASE active = NoVersion
      <3>1. Store!Seed(req[h].version)
        BY <1>4, <2>3 DEF ActivateExec, Store!Seed, NoVersion
      <3> QED
        BY <2>1, <3>1 DEF Store!VSNext
    <2> QED
      BY <2>2, <2>3 DEF TypeOK
  <1>5. ASSUME NEW h \in Handlers, DeleteExec(h)
        PROVE  [Store!VSNext]_(Store!vsVars)
    <2>1. /\ req[h].version \in Versions
          /\ Stored(req[h].version)
          /\ active # req[h].version
      BY <1>5 DEF DeleteExec, ExecSucceeds, ChecksStillHold
    <2>2. Store!Remove(req[h].version)
      BY <1>5, <2>1 DEF DeleteExec, Store!Remove, Stored
    <2> QED
      BY <2>1, <2>2 DEF Store!VSNext
  <1>6. CASE UNCHANGED <<configs, active>>
    BY <1>6
  <1>7. \/ \E i \in Instances : BootStore(i) \/ BootPoint(i)
        \/ \E h \in Handlers : \E i \in Admin : \E draft \in Drafts : CreateConfig(h, i, draft)
        \/ \E h \in Handlers : ActivateExec(h) \/ DeleteExec(h)
        \/ UNCHANGED <<configs, active>>
    BY DEF Next, Watch, Handle, vars, LoadActive, LoadNothing, LoadCompare, LoadFetch,
           LoadFail, LoadSwap, LoadStore, Reload, Crash, ActivateGet, DeleteWatch,
           ActivateWatch, ActivateSwap, ActivateStore, Refuse, Audit
  <1> QED
    BY <1>1, <1>2, <1>3, <1>4, <1>5, <1>6, <1>7

\* The WATCH/EXEC protocol, with start-ups, crashes and lost replies, implements
\* the store whose every operation is atomic.
THEOREM Refinement == Spec => ImplementsVersionStore
  <1>1. Init => Store!VSInit
    BY DEF Init, Store!VSInit, NoVersion
  <1>2. IndInv /\ [Next]_vars => [Store!VSNext]_(Store!vsVars)
    BY StepIsAStoreStep
  <1> QED
    BY <1>1, <1>2, Invariant, PTL DEF Spec, ImplementsVersionStore, Store!VSSpec

\* The active configuration is never deleted: no step of any process takes the
\* pointer from a stored version to nothing or to a version that is not stored.
THEOREM ActiveNeverDeleted == Spec => PointerNeverOrphaned
  <1>1. ASSUME IndInv, [Next]_vars
        PROVE  [active # NoVersion /\ Stored(active)
                  => active' # NoVersion /\ configs'[active'] # NoContent]_vars
    <2> SUFFICES ASSUME active # NoVersion, Stored(active)
                 PROVE  active' # NoVersion /\ configs'[active'] # NoContent
      OBVIOUS
    <2>1. active \in Versions /\ configs \in [Versions -> Contents \cup {NoContent}]
      BY <1>1 DEF IndInv, TypeOK
    <2>2. [Store!VSNext]_(Store!vsVars)
      BY <1>1, StepIsAStoreStep
    <2>3. ASSUME NEW v \in Versions, NEW c \in Contents, Store!Put(v, c)
          PROVE  active' # NoVersion /\ configs'[active'] # NoContent
      BY <2>1, <2>3, ContentsAssumption DEF Store!Put, Stored
    <2>4. ASSUME NEW v \in Versions, Store!Remove(v)
          PROVE  active' # NoVersion /\ configs'[active'] # NoContent
      BY <2>1, <2>4 DEF Store!Remove, Stored
    <2>5. ASSUME NEW v \in Versions, NEW old \in Versions, Store!Point(old, v)
          PROVE  active' # NoVersion /\ configs'[active'] # NoContent
      BY <2>5, VersionsAssumption DEF Store!Point, Store!Free
    <2>6. ASSUME NEW v \in Versions, Store!Seed(v)
          PROVE  FALSE
      BY <2>6 DEF Store!Seed, NoVersion
    <2>7. CASE UNCHANGED <<configs, active>>
      BY <2>7 DEF Stored
    <2> QED
      BY <2>2, <2>3, <2>4, <2>5, <2>6, <2>7 DEF Store!VSNext, Store!vsVars
  <1> QED
    BY <1>1, Invariant, PTL DEF Spec, PointerNeverOrphaned

-------------------------------------------------------------------------------
(* The audit stream. *)

\* A handler past its commit acts for an operation that took effect.
CommittedBeforeAudit ==
    \A h \in Handlers : hpc[h] \in {"committed", "swapped", "audit"} =>
        <<req[h].op, req[h].version>> \in committed

\* Every step keeps it, and only a handler past its commit writes an event.
LEMMA AuditStep ==
  ASSUME TypeOK, CommittedBeforeAudit, AuditedOperationsCommitted, [Next]_vars
  PROVE  (CommittedBeforeAudit /\ AuditedOperationsCommitted)'
  <1> USE DEF CommittedBeforeAudit, AuditedOperationsCommitted, redisVars, handlerVars
  <1>1. ASSUME NEW i \in Instances, BootStore(i)
         PROVE  (CommittedBeforeAudit /\ AuditedOperationsCommitted)'
    BY <1>1 DEF BootStore
  <1>2. ASSUME NEW i \in Instances, BootPoint(i)
         PROVE  (CommittedBeforeAudit /\ AuditedOperationsCommitted)'
    BY <1>2 DEF BootPoint
  <1>3. ASSUME NEW i \in Instances, LoadActive(i)
         PROVE  (CommittedBeforeAudit /\ AuditedOperationsCommitted)'
    BY <1>3 DEF LoadActive
  <1>4. ASSUME NEW i \in Instances, LoadCompare(i)
         PROVE  (CommittedBeforeAudit /\ AuditedOperationsCommitted)'
    BY <1>4 DEF LoadCompare
  <1>5. ASSUME NEW i \in Instances, LoadFetch(i)
         PROVE  (CommittedBeforeAudit /\ AuditedOperationsCommitted)'
    BY <1>5 DEF LoadFetch
  <1>6. ASSUME NEW i \in Instances, LoadFail(i)
         PROVE  (CommittedBeforeAudit /\ AuditedOperationsCommitted)'
    BY <1>6 DEF LoadFail
  <1>7. ASSUME NEW i \in Instances, LoadSwap(i)
         PROVE  (CommittedBeforeAudit /\ AuditedOperationsCommitted)'
    BY <1>7 DEF LoadSwap
  <1>8. ASSUME NEW i \in Instances, LoadStore(i)
         PROVE  (CommittedBeforeAudit /\ AuditedOperationsCommitted)'
    BY <1>8 DEF LoadStore
  <1>9. ASSUME NEW i \in Instances, NEW file \in ReloadFiles[i], Reload(i, file)
         PROVE  (CommittedBeforeAudit /\ AuditedOperationsCommitted)'
    BY <1>9 DEF Reload
  <1>10. ASSUME NEW i \in Instances, NEW file \in Files(i), Crash(i, file)
         PROVE  (CommittedBeforeAudit /\ AuditedOperationsCommitted)'
    BY <1>10 DEF Crash, TypeOK
  <1>11. ASSUME NEW h \in Handlers, NEW i \in Admin, NEW draft \in Drafts, CreateConfig(h, i, draft)
         PROVE  (CommittedBeforeAudit /\ AuditedOperationsCommitted)'
    BY <1>11 DEF CreateConfig, GoTo, TypeOK, NoRequest
  <1>12. ASSUME NEW h \in Handlers, NEW i \in Admin, NEW v \in Versions, NEW x \in Versions,
                ActivateGet(h, i, v, x)
         PROVE  (CommittedBeforeAudit /\ AuditedOperationsCommitted)'
    BY <1>12 DEF ActivateGet, GoTo, TypeOK
  <1>13. ASSUME NEW h \in Handlers, NEW i \in Admin, NEW v \in Versions, DeleteWatch(h, i, v)
         PROVE  (CommittedBeforeAudit /\ AuditedOperationsCommitted)'
    BY <1>13 DEF DeleteWatch, GoTo, TypeOK
  <1>14. ASSUME NEW h \in Handlers, ActivateWatch(h)
         PROVE  (CommittedBeforeAudit /\ AuditedOperationsCommitted)'
    BY <1>14 DEF ActivateWatch, GoTo, TypeOK
  <1>15. ASSUME NEW h \in Handlers, ActivateExec(h)
         PROVE  (CommittedBeforeAudit /\ AuditedOperationsCommitted)'
    <2>1. \A k \in Handlers : k # h => req'[k] = req[k] /\ hpc'[k] = hpc[k]
      BY <1>15 DEF ActivateExec, GoTo, Finish, TypeOK
    <2>2. hpc'[h] = "idle" \/ (req'[h].op = req[h].op /\ req'[h].version = req[h].version)
      BY <1>15 DEF ActivateExec, GoTo, Finish, TypeOK, Request
    <2> QED
      BY <1>15, <2>1, <2>2 DEF ActivateExec
  <1>16. ASSUME NEW h \in Handlers, ActivateSwap(h)
         PROVE  (CommittedBeforeAudit /\ AuditedOperationsCommitted)'
    BY <1>16 DEF ActivateSwap, GoTo, TypeOK
  <1>17. ASSUME NEW h \in Handlers, ActivateStore(h)
         PROVE  (CommittedBeforeAudit /\ AuditedOperationsCommitted)'
    BY <1>17 DEF ActivateStore, GoTo, TypeOK
  <1>18. ASSUME NEW h \in Handlers, DeleteExec(h)
         PROVE  (CommittedBeforeAudit /\ AuditedOperationsCommitted)'
    BY <1>18 DEF DeleteExec, GoTo, TypeOK
  <1>19. ASSUME NEW h \in Handlers, Refuse(h)
         PROVE  (CommittedBeforeAudit /\ AuditedOperationsCommitted)'
    BY <1>19 DEF Refuse, Finish, TypeOK
  <1>20. ASSUME NEW h \in Handlers, Audit(h)
         PROVE  (CommittedBeforeAudit /\ AuditedOperationsCommitted)'
    BY <1>20 DEF Audit, Finish, TypeOK
  <1>21. CASE UNCHANGED vars
    BY <1>21 DEF vars
  <1> QED
    BY <1>1, <1>2, <1>3, <1>4, <1>5, <1>6, <1>7, <1>8, <1>9, <1>10, <1>11,
       <1>12, <1>13, <1>14, <1>15, <1>16, <1>17, <1>18, <1>19, <1>20, <1>21
       DEF Next, Watch, Handle, LoadNothing

\* An audit event of the control plane stands for an operation that took effect:
\* conflicts, lost replies and crashes never leave one behind.
THEOREM AuditIsTruthful == Spec => []AuditedOperationsCommitted
  <1>1. Init => CommittedBeforeAudit /\ AuditedOperationsCommitted
    BY DEF Init, CommittedBeforeAudit, AuditedOperationsCommitted
  <1>2. TypeOK /\ (CommittedBeforeAudit /\ AuditedOperationsCommitted) /\ [Next]_vars
          => (CommittedBeforeAudit /\ AuditedOperationsCommitted)'
    BY AuditStep
  <1> QED
    BY <1>1, <1>2, TypeCorrect, PTL DEF Spec

-------------------------------------------------------------------------------
(***************************************************************************)
(* What a gateway serves, for any number of processes, versions, requests, *)
(* crashes and reloads: a load never takes a data-plane instance back to   *)
(* an earlier activation, and what is served from Redis is the content of  *)
(* the activation it is served for.                                        *)
(*                                                                         *)
(* A step changes one instance in one of six ways (StepAtInstance) and one *)
(* handler in one of four (StepAtHandler); the invariants are shown from   *)
(* those two lemmas and never look at Next again.                          *)
(***************************************************************************)

Snapshot(x) == [config |-> [version |-> x.version, content |-> x.content], epoch |-> x.epoch,
                copy |-> x.copy]

\* What a step may do to instance k.
LoadKept(k) == /\ InLoad(k)' => /\ InLoad(k)
                                /\ load'[k].version = load[k].version
                                /\ load'[k].epoch = load[k].epoch
               /\ Fetched(k)' => /\ Fetched(k)
                                 /\ load'[k].content = load[k].content
                                 /\ load'[k].copy = load[k].copy
Keeps(k) == serving'[k] = serving[k] /\ LoadKept(k)
Starts(k) == /\ serving'[k] = serving[k]
             /\ active \in Versions
             /\ load'[k].version = active
             /\ load'[k].epoch = Len(log)
             /\ ~Fetched(k)'
Fetches(k) == /\ serving'[k] = serving[k]
              /\ InLoad(k)
              /\ load'[k].version = load[k].version
              /\ load'[k].epoch = load[k].epoch
              /\ load'[k].content = configs[load[k].version]
              /\ load'[k].copy = Copy(load[k].version)
              /\ Stored(load[k].version)
Swaps(k) == Fetched(k) /\ serving'[k] = Snapshot(load[k]) /\ LoadKept(k)
Restores(k) == serving'[k].epoch = 0 /\ LoadKept(k)
Activated(k) == /\ \E h \in Handlers : /\ hpc[h] = "committed"
                                       /\ req[h].at = k
                                       /\ serving'[k] = Snapshot(req[h])
                /\ LoadKept(k)

AtInstance(k) == Keeps(k) \/ Starts(k) \/ Fetches(k) \/ Swaps(k) \/ Restores(k) \/ Activated(k)

\* A step that is none of the instance's own leaves it alone.
LEMMA UntouchedInstance ==
  ASSUME NEW k \in Instances, serving'[k] = serving[k], wpc'[k] = wpc[k], load'[k] = load[k]
  PROVE  AtInstance(k)
  BY DEF AtInstance, Keeps, LoadKept, InLoad, Fetched

\* Every step of the system does one of the six things to an instance.
LEMMA StepAtInstance ==
  ASSUME TypeOK, ReadsAreSound, [Next]_vars, NEW k \in Instances
  PROVE  AtInstance(k)
  <1> USE DEF redisVars, instanceVars, handlerVars
  <1>1. ASSUME NEW i \in Instances, BootStore(i) \/ BootPoint(i)
        PROVE  AtInstance(k)
    <2>1. CASE i = k
      BY <1>1, <2>1 DEF BootStore, BootPoint, AtInstance, Keeps, LoadKept, InLoad, Fetched, TypeOK
    <2>2. CASE i # k
      BY <1>1, <2>2, UntouchedInstance DEF BootStore, BootPoint, TypeOK
    <2> QED
      BY <2>1, <2>2
  <1>2. ASSUME NEW i \in Instances, LoadActive(i)
        PROVE  AtInstance(k)
    <2>1. CASE i = k
      BY <1>2, <2>1 DEF LoadActive, AtInstance, Starts, Fetched, TypeOK
    <2>2. CASE i # k
      BY <1>2, <2>2, UntouchedInstance DEF LoadActive, TypeOK
    <2> QED
      BY <2>1, <2>2
  <1>3. ASSUME NEW i \in Instances, LoadCompare(i) \/ LoadFail(i) \/ LoadStore(i)
        PROVE  AtInstance(k)
    <2>1. CASE i = k
      BY <1>3, <2>1 DEF LoadCompare, LoadFail, LoadStore, AtInstance, Keeps, LoadKept, InLoad,
                        Fetched, TypeOK
    <2>2. CASE i # k
      BY <1>3, <2>2, UntouchedInstance DEF LoadCompare, LoadFail, LoadStore, TypeOK
    <2> QED
      BY <2>1, <2>2
  <1>4. ASSUME NEW i \in Instances, LoadFetch(i)
        PROVE  AtInstance(k)
    <2>1. CASE i = k
      <3>1. load[k] \in Load
        BY DEF TypeOK
      <3>2. load'[k] = [load[k] EXCEPT !.content = configs[load[k].version],
                                       !.copy = Copy(load[k].version)]
        BY <1>4, <2>1 DEF LoadFetch, FetchKey, TypeOK
      <3>3. /\ load'[k].version = load[k].version
            /\ load'[k].epoch = load[k].epoch
            /\ load'[k].content = configs[load[k].version]
            /\ load'[k].copy = Copy(load[k].version)
        BY <3>1, <3>2 DEF Load
      <3> QED
        BY <1>4, <2>1, <3>3 DEF LoadFetch, FetchKey, AtInstance, Fetches, InLoad
    <2>2. CASE i # k
      BY <1>4, <2>2, UntouchedInstance DEF LoadFetch, TypeOK
    <2> QED
      BY <2>1, <2>2
  <1>5. ASSUME NEW i \in Instances, LoadSwap(i)
        PROVE  AtInstance(k)
    <2>1. CASE i = k /\ Compiles(i, load[i].content)
      <3>1. serving'[k] = Snapshot(load[k]) /\ wpc'[k] = "swapped" /\ load' = load
        BY <1>5, <2>1 DEF LoadSwap, Snapshot, TypeOK
      <3>2. wpc[k] = "fetched"
        BY <1>5, <2>1 DEF LoadSwap
      <3> QED
        BY <3>1, <3>2 DEF AtInstance, Swaps, LoadKept, InLoad, Fetched
    <2>2. CASE i = k /\ ~Compiles(i, load[i].content)
      BY <1>5, <2>2 DEF LoadSwap, AtInstance, Keeps, LoadKept, InLoad, Fetched, TypeOK
    <2>3. CASE i # k
      BY <1>5, <2>3, UntouchedInstance DEF LoadSwap, TypeOK
    <2> QED
      BY <2>1, <2>2, <2>3
  <1>6. ASSUME NEW i \in Instances, NEW file \in ReloadFiles[i], Reload(i, file)
        PROVE  AtInstance(k)
    <2>1. CASE i = k
      BY <1>6, <2>1 DEF Reload, FromFile, AtInstance, Restores, LoadKept, InLoad, Fetched, TypeOK
    <2>2. CASE i # k
      BY <1>6, <2>2, UntouchedInstance DEF Reload, TypeOK
    <2> QED
      BY <2>1, <2>2
  <1>7. ASSUME NEW i \in Instances, NEW file \in Files(i), Crash(i, file)
        PROVE  AtInstance(k)
    <2>1. CASE i = k
      BY <1>7, <2>1 DEF Crash, FromFile, StartPC, AtInstance, Restores, LoadKept, InLoad, Fetched,
                        TypeOK
    <2>2. CASE i # k
      BY <1>7, <2>2, UntouchedInstance DEF Crash, TypeOK
    <2> QED
      BY <2>1, <2>2
  <1>8. ASSUME NEW h \in Handlers, ActivateSwap(h)
        PROVE  AtInstance(k)
    <2>1. CASE req[h].at = k
      BY <1>8, <2>1 DEF ActivateSwap, AtInstance, Activated, Snapshot, LoadKept, InLoad, Fetched,
                        TypeOK
    <2>2. CASE req[h].at # k
      BY <1>8, <2>2, UntouchedInstance DEF ActivateSwap, TypeOK
    <2> QED
      BY <2>1, <2>2
  <1>9. CASE UNCHANGED <<serving, wpc, load>>
    BY <1>9, UntouchedInstance
  <1>10. ASSUME NEW h \in Handlers, Handle(h)
         PROVE  ActivateSwap(h) \/ UNCHANGED <<serving, wpc, load>>
    BY <1>10 DEF Handle, CreateConfig, ActivateGet, DeleteWatch, ActivateWatch, ActivateExec,
                 ActivateStore, DeleteExec, Refuse, Audit
  <1>11. ASSUME NEW i \in Instances, LoadNothing(i)
         PROVE  UNCHANGED <<serving, wpc, load>>
    BY <1>11 DEF LoadNothing, vars
  <1>12. CASE UNCHANGED vars
    BY <1>12, <1>9 DEF vars
  <1> QED
    BY <1>1, <1>2, <1>3, <1>4, <1>5, <1>6, <1>7, <1>8, <1>9, <1>10, <1>11, <1>12 DEF Next, Watch

-------------------------------------------------------------------------------
\* What a step may do to handler h.
Idles(h) == hpc'[h] = "idle"
SameRequest(h) == /\ hpc[h] # "idle"
                  /\ req'[h].op = req[h].op
                  /\ req'[h].at = req[h].at
                  /\ req'[h].version = req[h].version
                  /\ req'[h].content = req[h].content
                  /\ req'[h].copy = req[h].copy
Moves(h) == /\ SameRequest(h)
            /\ hpc'[h] = "committed" => hpc[h] = "committed" /\ req'[h].epoch = req[h].epoch
Opens(h) == /\ hpc'[h] # "committed"
            /\ req'[h].at \in Admin
            /\ req'[h].op = "activate" => /\ req'[h].version \in Versions
                                          /\ Stored(req'[h].version)
                                          /\ req'[h].content = configs[req'[h].version]
                                          /\ req'[h].copy = Copy(req'[h].version)
Commits(h) == /\ SameRequest(h)
              /\ req'[h].epoch = Len(log) + 1
              /\ req[h].version \in Versions
              /\ log' = Record(req[h].version, req[h].expected)
              /\ req[h].expected \in Versions \cup {NoVersion}

AtHandler(h) == Idles(h) \/ Moves(h) \/ Opens(h) \/ Commits(h)

\* A handler that is not the one that steps is left alone.
LEMMA UntouchedHandler ==
  ASSUME TypeOK, NEW h \in Handlers, hpc'[h] = hpc[h], req'[h] = req[h]
  PROVE  AtHandler(h)
  BY DEF AtHandler, Idles, Moves, SameRequest

\* Every step of the system does one of the four things to a handler.
LEMMA StepAtHandler ==
  ASSUME TypeOK, ReadsAreSound, [Next]_vars, NEW h \in Handlers
  PROVE  AtHandler(h)
  <1> USE DEF redisVars, instanceVars, handlerVars
  <1>1. ASSUME NEW g \in Handlers, NEW i \in Admin, NEW draft \in Drafts, CreateConfig(g, i, draft)
        PROVE  AtHandler(h)
    <2>1. CASE g = h
      <3>1. hpc'[h] = "audit" /\ req'[h].at = i /\ req'[h].op = "create"
        BY <1>1, <2>1 DEF CreateConfig, GoTo, NoRequest, TypeOK
      <3> QED
        BY <3>1 DEF AtHandler, Opens
    <2>2. CASE g # h
      BY <1>1, <2>2, UntouchedHandler DEF CreateConfig, GoTo, TypeOK
    <2> QED
      BY <2>1, <2>2
  <1>2. ASSUME NEW g \in Handlers, NEW i \in Admin, NEW v \in Versions, NEW x \in Versions,
               ActivateGet(g, i, v, x)
        PROVE  AtHandler(h)
    <2>1. CASE g = h
      BY <1>2, <2>1 DEF ActivateGet, Usable, GoTo, AtHandler, Opens, TypeOK
    <2>2. CASE g # h
      BY <1>2, <2>2, UntouchedHandler DEF ActivateGet, GoTo, TypeOK
    <2> QED
      BY <2>1, <2>2
  <1>3. ASSUME NEW g \in Handlers, NEW i \in Admin, NEW v \in Versions, DeleteWatch(g, i, v)
        PROVE  AtHandler(h)
    <2>1. CASE g = h
      <3>1. hpc'[h] = "watching" /\ req'[h].at = i /\ req'[h].op = "delete"
        BY <1>3, <2>1 DEF DeleteWatch, GoTo, NoRequest, TypeOK
      <3> QED
        BY <3>1 DEF AtHandler, Opens
    <2>2. CASE g # h
      BY <1>3, <2>2, UntouchedHandler DEF DeleteWatch, GoTo, TypeOK
    <2> QED
      BY <2>1, <2>2
  <1>4. ASSUME NEW g \in Handlers, ActivateExec(g)
        PROVE  AtHandler(h)
    <2>1. CASE g = h
      <3>1. /\ req[h] \in Request
            /\ hpc[h] = "watching"
            /\ req[h].version \in Versions
            /\ log' = Record(req[h].version, req[h].expected)
        BY <1>4, <2>1 DEF ActivateExec, ReadsAreSound, TypeOK
      <3>2. hpc'[h] = "idle" \/ req'[h] = [req[h] EXCEPT !.epoch = Len(log) + 1]
        BY <1>4, <2>1 DEF ActivateExec, Finish, GoTo, TypeOK
      <3> QED
        BY <3>1, <3>2 DEF AtHandler, Idles, Commits, SameRequest, Request
    <2>2. CASE g # h
      BY <1>4, <2>2, UntouchedHandler DEF ActivateExec, GoTo, Finish, TypeOK
    <2> QED
      BY <2>1, <2>2
  <1>5. ASSUME NEW g \in Handlers, ActivateWatch(g) \/ ActivateSwap(g) \/ ActivateStore(g) \/ DeleteExec(g)
        PROVE  AtHandler(h)
    <2>1. CASE g = h
      BY <1>5, <2>1 DEF ActivateWatch, ActivateSwap, ActivateStore, DeleteExec, GoTo, AtHandler,
                        Moves, SameRequest, TypeOK
    <2>2. CASE g # h
      BY <1>5, <2>2, UntouchedHandler DEF ActivateWatch, ActivateSwap, ActivateStore, DeleteExec,
                                          GoTo, TypeOK
    <2> QED
      BY <2>1, <2>2
  <1>6. ASSUME NEW g \in Handlers, Refuse(g) \/ Audit(g)
        PROVE  AtHandler(h)
    <2>1. CASE g = h
      BY <1>6, <2>1 DEF Refuse, Audit, Finish, AtHandler, Idles, TypeOK
    <2>2. CASE g # h
      BY <1>6, <2>2, UntouchedHandler DEF Refuse, Audit, Finish, TypeOK
    <2> QED
      BY <2>1, <2>2
  <1>7. ASSUME NEW i \in Instances, NEW file \in Files(i), Crash(i, file)
        PROVE  AtHandler(h)
    BY <1>7, UntouchedHandler DEF Crash, AtHandler, Idles
  <1>8. CASE UNCHANGED <<hpc, req>>
    BY <1>8, UntouchedHandler
  <1>9. ASSUME NEW i \in Instances, \/ BootStore(i) \/ BootPoint(i) \/ Watch(i)
                                    \/ \E file \in ReloadFiles[i] : Reload(i, file)
        PROVE  UNCHANGED <<hpc, req>>
    BY <1>9 DEF BootStore, BootPoint, Watch, LoadActive, LoadNothing, LoadCompare, LoadFetch,
                LoadFail, LoadSwap, LoadStore, Reload, vars
  <1>10. CASE UNCHANGED vars
    BY <1>10, <1>8 DEF vars
  <1> QED
    BY <1>1, <1>2, <1>3, <1>4, <1>5, <1>6, <1>7, <1>8, <1>9, <1>10 DEF Next, Handle

-------------------------------------------------------------------------------
\* The history only grows, by an activation of what the version key says.
LEMMA LogGrows ==
  ASSUME TypeOK, ReadsAreSound, [Next]_vars
  PROVE  \/ log' = log
         \/ \E v \in Versions, old \in Versions \cup {NoVersion} : log' = Record(v, old)
  <1> USE DEF redisVars, instanceVars, handlerVars
  <1>1. ASSUME NEW i \in Instances, BootPoint(i)
        PROVE  \/ log' = log
               \/ \E v \in Versions, old \in Versions \cup {NoVersion} : log' = Record(v, old)
    <2>1. File(i).version \in Versions
      BY ServedType
    <2> QED
      BY <1>1, <2>1 DEF BootPoint
  <1>2. ASSUME NEW h \in Handlers, ActivateExec(h)
        PROVE  \E v \in Versions, old \in Versions \cup {NoVersion} : log' = Record(v, old)
    <2>1. req[h].version \in Versions /\ req[h].expected \in Versions \cup {NoVersion}
      BY <1>2 DEF ActivateExec, ReadsAreSound, TypeOK, Request
    <2> QED
      BY <1>2, <2>1 DEF ActivateExec
  <1>3. ASSUME NEW h \in Handlers, Handle(h)
        PROVE  ActivateExec(h) \/ log' = log
    BY <1>3 DEF Handle, CreateConfig, ActivateGet, DeleteWatch, ActivateWatch, ActivateSwap,
                ActivateStore, DeleteExec, Refuse, Audit
  <1>4. ASSUME NEW i \in Instances, \/ BootStore(i) \/ Watch(i)
                                    \/ \E file \in ReloadFiles[i] : Reload(i, file)
                                    \/ \E file \in Files(i) : Crash(i, file)
        PROVE  log' = log
    BY <1>4 DEF BootStore, Watch, LoadActive, LoadNothing, LoadCompare, LoadFetch, LoadFail,
                LoadSwap, LoadStore, Crash, Reload, vars
  <1>5. CASE UNCHANGED vars
    BY <1>5 DEF vars
  <1> QED
    BY <1>1, <1>2, <1>3, <1>4, <1>5 DEF Next

\* What was once activated stays where it is in the history.
LEMMA HistoryIsKept ==
  ASSUME TypeOK, ReadsAreSound, [Next]_vars
  PROVE  /\ Len(log) \in Nat /\ Len(log)' \in Nat
         /\ Len(log) <= Len(log)'
         /\ \A n \in 1..Len(log) : log'[n] = log[n]
  <1>1. Len(log) \in Nat
    BY DEF TypeOK
  <1>2. CASE log' = log
    BY <1>1, <1>2
  <1>3. ASSUME NEW v \in Versions, NEW old \in Versions \cup {NoVersion}, log' = Record(v, old)
        PROVE  Len(log)' = Len(log) + 1 /\ \A n \in 1..Len(log) : log'[n] = log[n]
    BY <1>3, RecordFacts
  <1> QED
    BY <1>1, <1>2, <1>3, LogGrows

-------------------------------------------------------------------------------
(* Order: loads move forward along the history. *)

\* x.epoch is the place in the history of an activation of x.version.
Entry(x) == /\ x.epoch \in 1..Len(log)
            /\ log[x.epoch].version = x.version

\* Only processes with the admin API have handlers.
HandlersAreAdmins == \A h \in Handlers : hpc[h] # "idle" => req[h].at \in Admin

\* A load, a committed activation and a snapshot know their place in the history.
EpochsAreEntries ==
    /\ \A h \in Handlers : hpc[h] = "committed" => Entry(req[h])
    /\ \A i \in Instances : InLoad(i) => Entry(load[i])
    /\ \A i \in Instances : serving[i].epoch > 0 =>
          Entry([version |-> serving[i].config.version, epoch |-> serving[i].epoch])

\* A load of the data plane never read the pointer before the load that is served did.
LoadsAreAhead == \A i \in Instances \ Admin : InLoad(i) => serving[i].epoch <= load[i].epoch

OrderInv == HandlersAreAdmins /\ EpochsAreEntries /\ LoadsAreAhead

\* Entries stay entries.
LEMMA EntryKept ==
  ASSUME TypeOK, ReadsAreSound, [Next]_vars, NEW x, Entry(x)
  PROVE  x.epoch \in 1..Len(log)' /\ log'[x.epoch].version = x.version
  <1>1. x.epoch \in 1..Len(log) /\ log[x.epoch].version = x.version
    BY DEF Entry
  <1>2. x.epoch \in 1..Len(log)'
    BY <1>1, HistoryIsKept
  <1> QED
    BY <1>1, <1>2, HistoryIsKept

\* Every step keeps the order.
LEMMA OrderStep ==
  ASSUME IndInv, OrderInv, [Next]_vars
  PROVE  OrderInv'
  <1>0. TypeOK /\ ReadsAreSound /\ LogTracksPointer /\ TypeOK'
    BY IndInvStep DEF IndInv
  <1>1. HandlersAreAdmins'
    <2> SUFFICES ASSUME NEW h \in Handlers, hpc'[h] # "idle" PROVE req'[h].at \in Admin
      BY DEF HandlersAreAdmins
    <2> QED
      BY <1>0, StepAtHandler DEF AtHandler, Idles, Moves, Opens, Commits, SameRequest, OrderInv,
                                 HandlersAreAdmins
  <1>2. ASSUME NEW h \in Handlers, hpc'[h] = "committed"
        PROVE  Entry(req[h])'
    <2>1. CASE Moves(h)
      <3>1. Entry(req[h])
        BY <1>2, <2>1 DEF Moves, OrderInv, EpochsAreEntries
      <3> QED
        BY <1>0, <1>2, <2>1, <3>1, EntryKept DEF Moves, SameRequest, Entry
    <2>2. CASE Commits(h)
      <3>1. /\ Len(log)' = Len(log) + 1
            /\ log'[Len(log) + 1].version = req[h].version
            /\ Len(log) \in Nat
        BY <1>0, <2>2, RecordFacts, HistoryIsKept DEF Commits
      <3> QED
        BY <2>2, <3>1 DEF Commits, SameRequest, Entry
    <2> QED
      BY <1>0, <1>2, <2>1, <2>2, StepAtHandler DEF AtHandler, Idles, Opens
  <1>3. \A i \in Instances : serving[i].epoch \in Nat /\ serving[i].epoch <= Len(log)
    BY <1>0 DEF OrderInv, EpochsAreEntries, Entry, TypeOK
  <1>4. ASSUME NEW i \in Instances, InLoad(i)'
        PROVE  /\ Entry(load[i])'
               /\ i \notin Admin => serving'[i].epoch <= load'[i].epoch
    <2>1. CASE LoadKept(i)
      <3>1. Entry(load[i]) /\ load'[i].version = load[i].version /\ load'[i].epoch = load[i].epoch
        BY <1>4, <2>1 DEF LoadKept, OrderInv, EpochsAreEntries
      <3>2. Entry(load[i])'
        BY <1>0, <3>1, EntryKept DEF Entry
      <3>3. \/ serving'[i] = serving[i]
            \/ serving'[i].epoch = load[i].epoch
            \/ serving'[i].epoch = 0
            \/ i \in Admin
            \/ Starts(i)
        <4>1. Activated(i) => i \in Admin
          BY DEF Activated, OrderInv, HandlersAreAdmins
        <4>2. Swaps(i) => serving'[i].epoch = load[i].epoch
          BY DEF Swaps, Snapshot
        <4> QED
          BY <1>0, <4>1, <4>2, StepAtInstance DEF AtInstance, Keeps, Fetches, Restores
      <3>4. i \notin Admin => serving[i].epoch <= load[i].epoch
        BY <1>4, <2>1 DEF LoadKept, OrderInv, LoadsAreAhead
      <3> QED
        BY <3>1, <3>2, <3>3, <3>4, <1>0 DEF Starts, Entry
    <2>2. CASE Starts(i)
      <3>1. Len(log) \in Nat /\ Len(log) > 0 /\ log[Len(log)].version = active
        BY <1>0, <2>2, VersionsAssumption DEF Starts, LogTracksPointer, TypeOK
      <3>2. Entry(load'[i])
        BY <2>2, <3>1 DEF Starts, Entry
      <3>3. Entry(load[i])'
        BY <1>0, <3>2, EntryKept DEF Entry
      <3> QED
        BY <1>3, <2>2, <3>3 DEF Starts
    <2>3. CASE Fetches(i)
      <3>1. Entry(load[i]) /\ load'[i].version = load[i].version /\ load'[i].epoch = load[i].epoch
        BY <2>3 DEF Fetches, OrderInv, EpochsAreEntries
      <3>2. Entry(load[i])'
        BY <1>0, <3>1, EntryKept DEF Entry
      <3> QED
        BY <2>3, <3>1, <3>2 DEF Fetches, OrderInv, LoadsAreAhead
    <2> QED
      BY <1>0, <2>1, <2>2, <2>3, StepAtInstance DEF AtInstance, Keeps, Swaps, Restores, Activated
  <1>5. ASSUME NEW i \in Instances, serving'[i].epoch > 0
        PROVE  Entry([version |-> serving[i].config.version, epoch |-> serving[i].epoch])'
    <2>2. CASE Fetched(i) /\ serving'[i] = Snapshot(load[i])
      <3>1. Entry(load[i])
        BY <2>2 DEF OrderInv, EpochsAreEntries, InLoad, Fetched
      <3> QED
        BY <1>0, <2>2, <3>1, EntryKept DEF Entry, Snapshot
    <2>3. ASSUME NEW h \in Handlers, hpc[h] = "committed", serving'[i] = Snapshot(req[h])
          PROVE  Entry([version |-> serving[i].config.version, epoch |-> serving[i].epoch])'
      <3>1. Entry(req[h])
        BY <2>3 DEF OrderInv, EpochsAreEntries
      <3> QED
        BY <1>0, <2>3, <3>1, EntryKept DEF Entry, Snapshot
    <2>4. CASE serving'[i].epoch = 0
      BY <1>5, <2>4
    <2>5. ASSUME serving'[i] = serving[i]
          PROVE  Entry([version |-> serving[i].config.version, epoch |-> serving[i].epoch])'
      <3>1. Entry([version |-> serving[i].config.version, epoch |-> serving[i].epoch])
        BY <1>5, <2>5 DEF OrderInv, EpochsAreEntries
      <3> QED
        BY <1>0, <2>5, <3>1, EntryKept DEF Entry
    <2> QED
      BY <1>0, <2>2, <2>3, <2>4, <2>5, StepAtInstance
         DEF AtInstance, Keeps, Starts, Fetches, Swaps, Restores, Activated
  <1> QED
    BY <1>1, <1>2, <1>4, <1>5 DEF OrderInv, EpochsAreEntries, LoadsAreAhead

\* The order holds in every reachable state.
THEOREM OrderInvariant == Spec => []OrderInv
  <1>1. Init => OrderInv
    BY DEF Init, OrderInv, HandlersAreAdmins, EpochsAreEntries, LoadsAreAhead, InLoad, StartPC,
           FromFile
  <1>2. IndInv /\ OrderInv /\ [Next]_vars => OrderInv'
    BY OrderStep
  <1> QED
    BY <1>1, <1>2, Invariant, PTL DEF Spec

\* A data-plane instance never goes back to an earlier activation, whatever loads,
\* pub/sub messages, SIGHUPs and crashes of whatever processes interleave.
THEOREM ForwardOnly == Spec => NeverGoesBack
  <1>1. ASSUME IndInv, OrderInv, [Next]_vars
        PROVE  [\A i \in Instances \ Admin :
                  serving'[i].epoch = 0 \/ serving'[i].epoch >= serving[i].epoch]_vars
    <2> SUFFICES ASSUME NEW i \in Instances \ Admin
                 PROVE  serving'[i].epoch = 0 \/ serving'[i].epoch >= serving[i].epoch
      OBVIOUS
    <2>1. TypeOK /\ ReadsAreSound /\ serving[i].epoch \in Nat
      BY <1>1 DEF IndInv, TypeOK
    <2>2. ~Activated(i)
      BY <1>1 DEF Activated, OrderInv, HandlersAreAdmins
    <2>3. Swaps(i) => serving'[i].epoch = load[i].epoch /\ load[i].epoch >= serving[i].epoch
      <3>1. load[i].epoch \in Nat
        BY <1>1 DEF IndInv, TypeOK, Load
      <3> QED
        BY <1>1, <2>1, <3>1 DEF Swaps, Snapshot, OrderInv, LoadsAreAhead, Fetched, InLoad
    <2> QED
      BY <1>1, <2>1, <2>2, <2>3, StepAtInstance DEF AtInstance, Keeps, Starts, Fetches, Restores
  <1> QED
    BY <1>1, Invariant, OrderInvariant, PTL DEF Spec, NeverGoesBack

-------------------------------------------------------------------------------
(***************************************************************************)
(* Documents.  The admin API lets a version number be deleted and stored   *)
(* again with another document.  What is read is the document the number   *)
(* stood for at the time, and every copy of it, in a load, in a request,   *)
(* in the history or in a snapshot, knows which one that was.              *)
(***************************************************************************)

\* The n-th document stored under v says c.
Document(v, n, c) == n \in 1..Len(documents[v]) /\ documents[v][n] = c

Carries(h) == hpc[h] # "idle" /\ req[h].op = "activate"

\* A stored version is the last document of its number.
StoredIsLast == \A v \in Versions : Stored(v) => Document(v, Copy(v), configs[v])

\* An activation is of a document its number had by then.
LogIsSound ==
    \A n \in 1..Len(log) :
        /\ log[n].copy <= Copy(log[n].version)
        /\ log[n].content # NoContent => Document(log[n].version, log[n].copy, log[n].content)

RequestsAreSound ==
    \A h \in Handlers : Carries(h) => Document(req[h].version, req[h].copy, req[h].content)

\* A load reads the document after the pointer, so none older than the activated one.
LoadsAreSound ==
    \A i \in Instances : Fetched(i) =>
        /\ Document(load[i].version, load[i].copy, load[i].content)
        /\ log[load[i].epoch].copy <= load[i].copy

ServingIsSound ==
    \A i \in Instances : serving[i].epoch > 0 =>
        /\ Document(serving[i].config.version, serving[i].copy, serving[i].config.content)
        /\ i \notin Admin => log[serving[i].epoch].copy <= serving[i].copy

DocumentInv == StoredIsLast /\ LogIsSound /\ RequestsAreSound /\ LoadsAreSound /\ ServingIsSound

\* SETNX of a version key adds a document to its number, the one it now stands for.
LEMMA PutAdds ==
  ASSUME TypeOK, NEW config \in Config, Put(config), NEW v \in Versions
  PROVE  \/ documents'[v] = documents[v] /\ configs'[v] = configs[v]
         \/ \E c \in Contents : documents'[v] = Append(documents[v], c) /\ configs'[v] = c
  BY DEF Put, TypeOK, Config

\* A version key is left alone, deleted, or created with one more document.
LEMMA StepAtVersion ==
  ASSUME TypeOK, ReadsAreSound, [Next]_vars, NEW v \in Versions
  PROVE  \/ documents'[v] = documents[v] /\ configs'[v] \in {configs[v], NoContent}
         \/ \E c \in Contents : documents'[v] = Append(documents[v], c) /\ configs'[v] = c
  <1> DEFINE Goal == \/ documents'[v] = documents[v] /\ configs'[v] \in {configs[v], NoContent}
                     \/ \E c \in Contents : /\ documents'[v] = Append(documents[v], c)
                                            /\ configs'[v] = c
  <1> USE DEF redisVars, instanceVars, handlerVars
  <1>1. ASSUME NEW i \in Instances, BootStore(i)
        PROVE  Goal
    BY <1>1, ServedType, PutAdds DEF BootStore
  <1>2. ASSUME NEW h \in Handlers, NEW i \in Admin, NEW draft \in Drafts, CreateConfig(h, i, draft)
        PROVE  Goal
    BY <1>2, FilesAssumption, PutAdds DEF CreateConfig
  <1>3. ASSUME NEW h \in Handlers, DeleteExec(h)
        PROVE  Goal
    BY <1>3 DEF DeleteExec, TypeOK
  <1>4. ASSUME configs' = configs, documents' = documents
        PROVE  Goal
    BY <1>4
  <1>5. ASSUME NEW h \in Handlers, Handle(h)
        PROVE  \/ \E i \in Admin : \E draft \in Drafts : CreateConfig(h, i, draft)
               \/ DeleteExec(h)
               \/ configs' = configs /\ documents' = documents
    BY <1>5 DEF Handle, ActivateGet, DeleteWatch, ActivateWatch, ActivateExec, ActivateSwap,
                ActivateStore, Refuse, Audit
  <1>6. ASSUME NEW i \in Instances, \/ BootPoint(i) \/ Watch(i)
                                    \/ \E file \in ReloadFiles[i] : Reload(i, file)
                                    \/ \E file \in Files(i) : Crash(i, file)
        PROVE  configs' = configs /\ documents' = documents
    BY <1>6 DEF BootPoint, Watch, LoadActive, LoadNothing, LoadCompare, LoadFetch, LoadFail,
                LoadSwap, LoadStore, Crash, Reload, vars
  <1>7. ASSUME UNCHANGED vars
        PROVE  Goal
    BY <1>7, <1>4 DEF vars
  <1>8. ASSUME NEW i \in Instances, \/ BootPoint(i) \/ Watch(i)
                                    \/ \E file \in ReloadFiles[i] : Reload(i, file)
                                    \/ \E file \in Files(i) : Crash(i, file)
        PROVE  Goal
    BY <1>4, <1>6, <1>8
  <1>9. ASSUME NEW h \in Handlers, Handle(h)
        PROVE  Goal
    BY <1>2, <1>3, <1>4, <1>5, <1>9
  <1> HIDE DEF Goal
  <1>10. Goal
    BY <1>1, <1>7, <1>8, <1>9 DEF Next
  <1> QED
    BY <1>10 DEF Goal

\* Documents are never forgotten, and a stored version stays the last of them.
LEMMA DocumentsAreKept ==
  ASSUME TypeOK, ReadsAreSound, [Next]_vars, NEW v \in Versions
  PROVE  /\ Copy(v) \in Nat /\ Copy(v)' \in Nat /\ Copy(v) <= Copy(v)'
         /\ \A n, c : Document(v, n, c) => Document(v, n, c)'
         /\ StoredIsLast /\ Stored(v)' => Document(v, Copy(v), configs[v])'
  <1>1. documents[v] \in Seq(Contents)
    BY DEF TypeOK
  <1>2. CASE documents'[v] = documents[v] /\ configs'[v] \in {configs[v], NoContent}
    BY <1>1, <1>2 DEF Copy, Document, StoredIsLast, Stored
  <1>3. ASSUME NEW c \in Contents, documents'[v] = Append(documents[v], c), configs'[v] = c
        PROVE  /\ Len(documents'[v]) = Len(documents[v]) + 1
               /\ Len(documents[v]) \in Nat
               /\ documents'[v][Len(documents[v]) + 1] = c
               /\ \A n \in 1..Len(documents[v]) : documents'[v][n] = documents[v][n]
    BY <1>1, <1>3
  <1>4. ASSUME NEW c \in Contents, documents'[v] = Append(documents[v], c), configs'[v] = c
        PROVE  /\ Copy(v) \in Nat /\ Copy(v)' \in Nat /\ Copy(v) <= Copy(v)'
               /\ \A n, d : Document(v, n, d) => Document(v, n, d)'
               /\ Document(v, Copy(v), configs[v])'
    BY <1>3, <1>4 DEF Copy, Document
  <1> QED
    BY <1>2, <1>4, StepAtVersion

\* Every step keeps the documents apart.
LEMMA DocumentStep ==
  ASSUME IndInv, OrderInv, DocumentInv, [Next]_vars
  PROVE  DocumentInv'
  <1>0. TypeOK /\ ReadsAreSound /\ TypeOK' /\ ReadsAreSound'
    BY IndInvStep DEF IndInv
  <1>1. StoredIsLast'
    BY <1>0, DocumentsAreKept DEF StoredIsLast, DocumentInv
  <1>2. LogIsSound'
    <2> SUFFICES ASSUME NEW n \in 1..Len(log)'
                 PROVE  /\ log'[n].copy <= Copy(log[n].version)'
                        /\ log'[n].content # NoContent
                             => Document(log[n].version, log[n].copy, log[n].content)'
      BY DEF LogIsSound
    <2>1. CASE n \in 1..Len(log)
      <3>1. log'[n] = log[n] /\ log[n].version \in Versions /\ log[n].copy \in Nat
        <4>1. log \in Seq(LogEntry)
          BY <1>0 DEF TypeOK, LogEntry
        <4>2. log[n] \in LogEntry
          BY <2>1, <4>1
        <4> QED
          BY <1>0, <2>1, <4>2, HistoryIsKept DEF LogEntry
      <3> QED
        BY <1>0, <2>1, <3>1, DocumentsAreKept DEF DocumentInv, LogIsSound
    <2>2. ASSUME NEW v \in Versions, NEW old \in Versions \cup {NoVersion}, log' = Record(v, old),
                 n \notin 1..Len(log)
          PROVE  /\ log'[n].copy <= Copy(log[n].version)'
                 /\ log'[n].content # NoContent
                      => Document(log[n].version, log[n].copy, log[n].content)'
      <3>1. Len(log) \in Nat /\ Len(log)' = Len(log) + 1
        BY <1>0, <2>2, RecordFacts, HistoryIsKept
      <3>2. n = Len(log) + 1
        BY <2>2, <3>1
      <3>3. log'[n].version = v /\ log'[n].content = configs[v] /\ log'[n].copy = Copy(v)
        BY <1>0, <2>2, <3>2, RecordFacts
      <3>4. configs[v] # NoContent => Document(v, Copy(v), configs[v])
        BY DEF DocumentInv, StoredIsLast, Stored
      <3> QED
        BY <1>0, <3>3, <3>4, DocumentsAreKept
    <2>3. CASE log' = log
      BY <2>1, <2>3
    <2> QED
      BY <1>0, <2>1, <2>2, <2>3, LogGrows
  <1>3. RequestsAreSound'
    <2> SUFFICES ASSUME NEW h \in Handlers, Carries(h)'
                 PROVE  Document(req[h].version, req[h].copy, req[h].content)'
      BY DEF RequestsAreSound
    <2>1. req'[h].version \in Versions
      BY <1>0 DEF Carries, ReadsAreSound, InActivate, TypeOK
    <2>2. Document(req'[h].version, req'[h].copy, req'[h].content)
      <3>1. CASE SameRequest(h)
        BY <3>1 DEF SameRequest, Carries, DocumentInv, RequestsAreSound
      <3>2. CASE Opens(h)
        BY <3>2 DEF Opens, Carries, DocumentInv, StoredIsLast
      <3> QED
        BY <1>0, <3>1, <3>2, StepAtHandler DEF AtHandler, Idles, Moves, Commits, Carries
    <2> QED
      BY <1>0, <2>1, <2>2, DocumentsAreKept
  <1>4. LoadsAreSound'
    <2> SUFFICES ASSUME NEW i \in Instances, Fetched(i)'
                 PROVE  /\ Document(load[i].version, load[i].copy, load[i].content)'
                        /\ log'[load'[i].epoch].copy <= load'[i].copy
      BY DEF LoadsAreSound
    <2>1. LoadKept(i) \/ Fetches(i)
      BY <1>0, StepAtInstance DEF AtInstance, Keeps, Starts, Swaps, Restores, Activated
    <2>2. /\ InLoad(i)
          /\ load'[i].version = load[i].version
          /\ load'[i].epoch = load[i].epoch
      BY <2>1 DEF LoadKept, Fetches, InLoad, Fetched
    <2>3. load[i].version \in Versions
      BY <1>0, <2>2 DEF ReadsAreSound
    <2>4. /\ load[i].epoch \in 1..Len(log)
          /\ log[load[i].epoch].version = load[i].version
          /\ log'[load[i].epoch] = log[load[i].epoch]
      BY <1>0, <2>2, HistoryIsKept DEF OrderInv, EpochsAreEntries, Entry
    <2>5. /\ Document(load'[i].version, load'[i].copy, load'[i].content)
          /\ log[load[i].epoch].copy <= load'[i].copy
      <3>1. CASE LoadKept(i)
        BY <2>2, <3>1 DEF LoadKept, DocumentInv, LoadsAreSound
      <3>2. CASE Fetches(i)
        BY <2>2, <2>3, <2>4, <3>2 DEF Fetches, DocumentInv, StoredIsLast, LogIsSound
      <3> QED
        BY <2>1, <3>1, <3>2
    <2> QED
      BY <1>0, <2>2, <2>3, <2>4, <2>5, DocumentsAreKept
  <1>5. ServingIsSound'
    <2> SUFFICES ASSUME NEW i \in Instances, serving'[i].epoch > 0
                 PROVE  /\ Document(serving[i].config.version, serving[i].copy,
                                    serving[i].config.content)'
                        /\ i \notin Admin => log'[serving'[i].epoch].copy <= serving'[i].copy
      BY DEF ServingIsSound
    <2>1. serving'[i].config.version \in Versions
      BY <1>0 DEF TypeOK, Config
    <2>2. /\ Document(serving'[i].config.version, serving'[i].copy, serving'[i].config.content)
          /\ i \notin Admin => /\ serving'[i].epoch \in 1..Len(log)
                               /\ log[serving'[i].epoch].copy <= serving'[i].copy
      <3>1. CASE serving'[i] = serving[i]
        BY <3>1 DEF DocumentInv, ServingIsSound, OrderInv, EpochsAreEntries, Entry
      <3>2. CASE Swaps(i)
        <4>1. InLoad(i)
          BY <3>2 DEF Swaps, InLoad, Fetched
        <4> QED
          BY <3>2, <4>1 DEF Swaps, Snapshot, DocumentInv, LoadsAreSound, OrderInv,
                            EpochsAreEntries, Entry
      <3>3. CASE Activated(i)
        <4>1. PICK h \in Handlers : /\ hpc[h] = "committed"
                                    /\ req[h].at = i
                                    /\ serving'[i] = Snapshot(req[h])
          BY <3>3 DEF Activated
        <4>2. Carries(h) /\ i \in Admin
          BY <1>0, <4>1 DEF Carries, ReadsAreSound, InActivate, OrderInv, HandlersAreAdmins
        <4> QED
          BY <4>1, <4>2 DEF Snapshot, DocumentInv, RequestsAreSound
      <3>4. CASE Restores(i)
        BY <3>4 DEF Restores
      <3> QED
        BY <1>0, <3>1, <3>2, <3>3, <3>4, StepAtInstance DEF AtInstance, Keeps, Starts, Fetches
    <2> QED
      BY <1>0, <2>1, <2>2, DocumentsAreKept, HistoryIsKept
  <1> QED
    BY <1>1, <1>2, <1>3, <1>4, <1>5 DEF DocumentInv

\* Whatever is activated, loaded or served as version v is the document of v it says.
THEOREM DocumentInvariant == Spec => []DocumentInv
  <1>1. Init => DocumentInv
    BY DEF Init, DocumentInv, StoredIsLast, LogIsSound, RequestsAreSound, LoadsAreSound,
           ServingIsSound, Stored, Carries, Fetched, StartPC, FromFile
  <1>2. IndInv /\ OrderInv /\ DocumentInv /\ [Next]_vars => DocumentInv'
    BY DocumentStep
  <1> QED
    BY <1>1, <1>2, Invariant, OrderInvariant, PTL DEF Spec

\* Every snapshot from Redis has the version its activation made active, and its
\* content unless the number was stored again between the EXEC and the GET; no
\* gateway serves a document older than the activated one.  Numbers may be deleted
\* and stored again without limit.
THEOREM ServedIsActivated == Spec => []ServesWhatWasActivated
  <1>1. ASSUME IndInv, OrderInv, DocumentInv
        PROVE  ServesWhatWasActivated
    <2> SUFFICES ASSUME NEW i \in Instances, serving[i].epoch > 0
                 PROVE  /\ serving[i].epoch <= Len(log)
                        /\ LET a == log[serving[i].epoch] IN
                           /\ a.version = serving[i].config.version
                           /\ a.copy = serving[i].copy
                                => a.content \in {serving[i].config.content, NoContent}
                           /\ i \notin Admin => a.copy <= serving[i].copy
      BY DEF ServesWhatWasActivated
    <2> DEFINE a == log[serving[i].epoch]
    <2>1. /\ serving[i].epoch \in 1..Len(log)
          /\ a.version = serving[i].config.version
      BY <1>1 DEF OrderInv, EpochsAreEntries, Entry
    <2>2. Len(log) \in Nat
      BY <1>1 DEF IndInv, TypeOK
    <2>3. /\ a.content # NoContent => Document(a.version, a.copy, a.content)
          /\ Document(serving[i].config.version, serving[i].copy, serving[i].config.content)
          /\ i \notin Admin => a.copy <= serving[i].copy
      BY <1>1, <2>1 DEF DocumentInv, LogIsSound, ServingIsSound
    <2> HIDE DEF a
    <2>4. a.copy = serving[i].copy => a.content \in {serving[i].config.content, NoContent}
      BY <2>1, <2>3 DEF Document
    <2> QED
      BY <2>1, <2>2, <2>3, <2>4 DEF a
  <1> QED
    BY <1>1, Invariant, OrderInvariant, DocumentInvariant, PTL

-------------------------------------------------------------------------------
(* The version the watch goroutine records. *)

\* On the data plane redisVersion is the version of the snapshot loaded last, or
\* the load that swapped it in is about to record it.
RecordedAt(i) ==
    serving[i].epoch > 0 =>
        serving[i].config.version = IF wpc[i] = "swapped" THEN load[i].version ELSE redisVersion[i]
Recorded == \A i \in Instances \ Admin : RecordedAt(i)

\* Every step keeps it, as handlers act on processes with the admin API only.
LEMMA RecordedStep ==
  ASSUME IndInv, OrderInv, Recorded, [Next]_vars
  PROVE  Recorded'
  <1> SUFFICES ASSUME NEW k \in Instances \ Admin PROVE RecordedAt(k)'
    BY DEF Recorded
  <1> USE DEF redisVars, instanceVars, handlerVars
  <1>0. TypeOK /\ RecordedAt(k) /\ \A h \in Handlers : hpc[h] # "idle" => req[h].at # k
    BY DEF IndInv, Recorded, OrderInv, HandlersAreAdmins
  <1>1. ASSUME serving'[k] = serving[k], redisVersion'[k] = redisVersion[k],
               wpc'[k] = wpc[k], load'[k] = load[k]
        PROVE  RecordedAt(k)'
    BY <1>0, <1>1 DEF RecordedAt
  <1>2. ASSUME NEW i \in Instances, \/ BootStore(i) \/ BootPoint(i) \/ LoadActive(i) \/ LoadCompare(i)
                                    \/ LoadFetch(i) \/ LoadFail(i) \/ LoadStore(i)
        PROVE  RecordedAt(k)'
    <2>1. CASE i = k
      BY <1>0, <1>2, <2>1 DEF BootStore, BootPoint, LoadActive, LoadCompare, LoadFetch, LoadFail,
                              LoadStore, RecordedAt, TypeOK
    <2>2. CASE i # k
      BY <1>0, <1>1, <1>2, <2>2 DEF BootStore, BootPoint, LoadActive, LoadCompare, LoadFetch,
                                    LoadFail, LoadStore, TypeOK
    <2> QED
      BY <2>1, <2>2
  <1>3. ASSUME NEW i \in Instances, LoadSwap(i)
        PROVE  RecordedAt(k)'
    <2>1. CASE i = k /\ Compiles(i, load[i].content)
      BY <1>0, <1>3, <2>1 DEF LoadSwap, RecordedAt, TypeOK
    <2>2. CASE i = k /\ ~Compiles(i, load[i].content)
      BY <1>0, <1>3, <2>2 DEF LoadSwap, RecordedAt, TypeOK
    <2>3. CASE i # k
      BY <1>0, <1>1, <1>3, <2>3 DEF LoadSwap, TypeOK
    <2> QED
      BY <2>1, <2>2, <2>3
  <1>4. ASSUME NEW i \in Instances, \/ \E file \in ReloadFiles[i] : Reload(i, file)
                                    \/ \E file \in Files(i) : Crash(i, file)
        PROVE  RecordedAt(k)'
    <2>1. CASE i = k
      BY <1>0, <1>4, <2>1 DEF Crash, Reload, FromFile, RecordedAt, TypeOK
    <2>2. CASE i # k
      BY <1>0, <1>1, <1>4, <2>2 DEF Crash, Reload, TypeOK
    <2> QED
      BY <2>1, <2>2
  <1>5. ASSUME NEW h \in Handlers, ActivateSwap(h) \/ ActivateStore(h)
        PROVE  RecordedAt(k)'
    BY <1>0, <1>1, <1>5 DEF ActivateSwap, ActivateStore, TypeOK
  <1>6. ASSUME NEW h \in Handlers, Handle(h)
        PROVE  ActivateSwap(h) \/ ActivateStore(h) \/ UNCHANGED instanceVars
    BY <1>6 DEF Handle, CreateConfig, ActivateGet, DeleteWatch, ActivateWatch, ActivateExec,
                DeleteExec, Refuse, Audit
  <1>7. ASSUME NEW i \in Instances, LoadNothing(i)
        PROVE  UNCHANGED instanceVars
    BY <1>7 DEF LoadNothing, vars
  <1>8. CASE UNCHANGED instanceVars
    BY <1>1, <1>8
  <1>9. CASE UNCHANGED vars
    BY <1>8, <1>9 DEF vars
  <1> QED
    BY <1>2, <1>3, <1>4, <1>5, <1>6, <1>7, <1>8, <1>9 DEF Next, Watch

\* The early return of load() on every instance without the admin API: a recorded
\* version that equals the pointer means that the active number is served, and the
\* active document too unless that number was stored again after it was read.
THEOREM SkipIsSafe == Spec => []DataPlaneSkipIsSafe
  <1>1. Init => Recorded
    BY DEF Init, Recorded, RecordedAt, FromFile
  <1>2. IndInv /\ OrderInv /\ Recorded /\ [Next]_vars => Recorded'
    BY RecordedStep
  <1>3. ASSUME IndInv, DocumentInv, Recorded
        PROVE  DataPlaneSkipIsSafe
    <2> SUFFICES ASSUME NEW i \in Instances \ Admin, Settled(i), ~Overridden(i)
                 PROVE  /\ serving[i].config.version = active
                        /\ ~Reused(i) /\ Stored(active) =>
                             serving[i].config = [version |-> active, content |-> configs[active]]
      BY DEF DataPlaneSkipIsSafe, SettledServesActive
    <2>1. /\ serving[i].config \in Config
          /\ serving[i].epoch > 0
          /\ serving[i].copy \in Nat
      BY <1>3 DEF Overridden, IndInv, TypeOK
    <2>2. serving[i].config.version = active
      BY <1>3, <2>1 DEF Recorded, RecordedAt, Settled
    <2>3. active \in Versions /\ Copy(active) \in Nat
      BY <1>3, <2>1, <2>2, CopyType DEF Config, IndInv
    <2>4. Document(active, serving[i].copy, serving[i].config.content)
      BY <1>3, <2>1, <2>2 DEF DocumentInv, ServingIsSound
    <2>5. ASSUME ~Reused(i), Stored(active)
          PROVE  serving[i].config.content = configs[active]
      <3>1. serving[i].copy = Copy(active)
        BY <2>1, <2>2, <2>3, <2>4, <2>5 DEF Reused, Document, Copy
      <3>2. Document(active, Copy(active), configs[active])
        BY <1>3, <2>3, <2>5 DEF DocumentInv, StoredIsLast
      <3> QED
        BY <2>4, <3>1, <3>2 DEF Document
    <2> QED
      BY <2>1, <2>2, <2>5 DEF Config
  <1> QED
    BY <1>1, <1>2, <1>3, Invariant, OrderInvariant, DocumentInvariant, PTL DEF Spec
===============================================================================

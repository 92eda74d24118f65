----------------------------- MODULE ReloadProofs -----------------------------
(***************************************************************************)
(* Reloads of configuration and certificate, for any files, certificates,  *)
(* edits and signals: what is served meets the rules of the environment of *)
(* the start, and a reload takes effect as a whole or not at all.          *)
(***************************************************************************)
EXTENDS Reload, TLAPS

-------------------------------------------------------------------------------
(* The rules.                                                              *)

\* What compile accepts meets the rules of the environment it is given.
LEMMA CompiledMeetsRules ==
    ASSUME NEW c, NEW d, Compiles(c, d)
    PROVE  /\ d.env = "production" => ~c.wildcard /\ (c.dns => c.dnsUrl = "https")
           /\ c.routes = 0 => d.controlOnly
           /\ c.routes > 1 => c.other \notin {"same name", "same pattern", "ambiguous"}
<1>1. ValidGateway(c, d.env, d.controlOnly) /\ (c.routes > 1 => c.other # "ambiguous")
  BY DEF Compiles
<1>2. d.env = "production" => ~c.wildcard /\ (c.dns => c.dnsUrl = "https")
  BY <1>1 DEF ValidGateway, ValidDNS, SecureUrl
<1> QED BY <1>1, <1>2 DEF ValidGateway

\* Validate insists on TLS where an administrator's cookie is at stake.
LEMMA ValidatedCookieIsSecure ==
    ASSUME NEW c, ValidApplication(c), c.admin, c.env = "production"
    PROVE  CookieIsSecure(c)
BY DEF ValidApplication, ValidAdmin, SecureUrl, CookieIsSecure

-------------------------------------------------------------------------------
(* The inductive invariant.                                                *)

Files == BootFiles \cup Edits

\* A reload judges the copy it has read: what it holds is a file that was on disk.
HeldInv ==
    /\ held = [config |-> held.config, cert |-> held.cert]
    /\ held.cert \in Certs \cup {NoCert}
    /\ pc \in {"stage", "activate", "store"} => held.config \in Files
    /\ pc = "store" => held.config = serving

\* What is served is a file that compiled in the environment of the start.
ServedInv ==
    /\ serving \in Files
    /\ ValidApplication(started)
    /\ Compiles(serving, started)

ReloadInv ==
    /\ disk = [config |-> disk.config, cert |-> disk.cert]
    /\ disk.config \in Files
    /\ TypeOK
    /\ HeldInv
    /\ ServedInv

\* It holds at the start,
LEMMA ReloadInit == Init => ReloadInv
<1> SUFFICES ASSUME Init PROVE ReloadInv
  OBVIOUS
<1>1. PICK c \in BootFiles : disk = [config |-> c, cert |-> BootCert]
  BY DEF Init
<1>2. disk.config = c /\ disk.cert = BootCert /\ BootCert \in Certs
  BY <1>1, ReloadAssumption
<1>3. held = Nothing /\ Nothing.config = "none" /\ Nothing.cert = NoCert
  BY DEF Init, Nothing
<1>4. TypeOK
  <2>1. signals \in Seq({"HUP", "TERM"}) /\ Len(signals) <= 2
    BY DEF Init
  <2>2. cert \in Certs \cup {NoCert} /\ held.cert \in Certs \cup {NoCert}
    BY <1>2, <1>3 DEF Init
  <2>3. revision \in Nat /\ edits \in 0..MaxEdits /\ sent \in 0..MaxSignals
    BY ReloadAssumption DEF Init
  <2> QED BY <1>2, <2>1, <2>2, <2>3 DEF Init, TypeOK
<1>5. HeldInv
  BY <1>3 DEF Init, HeldInv, Nothing
<1>6. ServedInv
  BY <1>2 DEF Init, ServedInv, Files
<1> QED BY <1>1, <1>2, <1>4, <1>5, <1>6 DEF ReloadInv, Files

\* the operator keeps it,
LEMMA ChangeKeeps ==
    ASSUME ReloadInv, NEW d, Change(d),
           d = [config |-> d.config, cert |-> d.cert], d.config \in Files,
           d.cert \in Certs \cup {Broken}
    PROVE  ReloadInv'
<1>1. edits' \in 0..MaxEdits
  BY ReloadAssumption DEF ReloadInv, TypeOK, Change
<1>2. /\ disk' = d /\ due' = FALSE
      /\ UNCHANGED <<phase, started, serving, cert, revision, signals, pc, held, sent>>
  BY DEF Change, served, goroutine
<1>3. TypeOK'
  BY <1>1, <1>2 DEF ReloadInv, TypeOK
<1>4. HeldInv' /\ ServedInv'
  BY <1>2 DEF ReloadInv, HeldInv, ServedInv
<1> QED BY <1>2, <1>3, <1>4 DEF ReloadInv

\* signals keep it,
LEMMA SignalKeeps ==
    ASSUME ReloadInv, NEW s \in {"HUP", "TERM"}, Signal(s)
    PROVE  ReloadInv'
<1>1. /\ UNCHANGED <<disk, started, serving, cert, revision, pc, held, edits>>
      /\ signals \in Seq({"HUP", "TERM"}) /\ Len(signals) <= 2
  BY DEF Signal, served, goroutine, ReloadInv, TypeOK
<1>2. signals' \in Seq({"HUP", "TERM"}) /\ Len(signals') <= 2
  <2>1. CASE Room
    BY <1>1, <2>1 DEF Signal, Room
  <2>2. CASE ~Room
    BY <1>1, <2>2 DEF Signal
  <2> QED BY <2>1, <2>2
<1>3. /\ phase' \in {"starting", "running", "stopping", "dead"}
      /\ sent' \in 0..MaxSignals /\ due' \in BOOLEAN
  BY ReloadAssumption DEF Signal, ReloadInv, TypeOK
<1>4. TypeOK'
  BY <1>1, <1>2, <1>3 DEF ReloadInv, TypeOK
<1>5. HeldInv' /\ ServedInv'
  BY <1>1 DEF ReloadInv, HeldInv, ServedInv
<1> QED BY <1>1, <1>4, <1>5 DEF ReloadInv

\* and so does the signal goroutine,
LEMMA HandleSignalsKeeps == ASSUME ReloadInv, HandleSignals PROVE ReloadInv'
<1>1. TypeOK /\ HeldInv /\ ServedInv
  BY DEF ReloadInv
<1>2. Nothing.config = "none" /\ Nothing.cert = NoCert /\ Nothing = [config |-> "none", cert |-> NoCert]
  BY DEF Nothing
<1>3. CASE Receive
  <2>1. /\ UNCHANGED <<disk, started, serving, cert, revision, held, due, edits, sent>>
        /\ pc' \in {"load", "ended"} /\ phase' \in {"starting", "running", "stopping", "dead"}
    BY <1>1, <1>3 DEF Receive, served, TypeOK
  <2>2. signals' \in Seq({"HUP", "TERM"}) /\ Len(signals') <= 2
    BY <1>1, <1>3 DEF Receive, TypeOK
  <2>3. TypeOK'
    BY <1>1, <2>1, <2>2 DEF TypeOK
  <2>4. HeldInv' /\ ServedInv'
    BY <1>1, <2>1 DEF HeldInv, ServedInv
  <2> QED BY <2>1, <2>3, <2>4 DEF ReloadInv
<1>4. ASSUME NextSignal, UNCHANGED <<disk, phase, started, serving, revision, signals, due, edits, sent>>,
             cert' \in Certs \cup {NoCert}
      PROVE  ReloadInv'
  <2>1. pc' = "receive" /\ held' = Nothing
    BY <1>4 DEF NextSignal
  <2>2. TypeOK'
    BY <1>1, <1>2, <1>4, <2>1 DEF TypeOK
  <2>3. HeldInv' /\ ServedInv'
    BY <1>1, <1>2, <1>4, <2>1 DEF HeldInv, ServedInv
  <2> QED BY <1>4, <2>2, <2>3 DEF ReloadInv
<1>5. CASE Load
  <2>1. UNCHANGED <<disk, phase, started, serving, cert, revision, signals, due, edits, sent>>
    BY <1>5 DEF Load, served
  <2>2. CASE disk.config.parses
    <3>1. pc' = "stage" /\ held' = [held EXCEPT !.config = disk.config]
      BY <1>5, <2>2 DEF Load
    <3>2. held' = [config |-> disk.config, cert |-> held.cert]
      BY <1>1, <3>1 DEF HeldInv
    <3>3. TypeOK'
      BY <1>1, <2>1, <3>1, <3>2 DEF TypeOK
    <3>4. HeldInv' /\ ServedInv'
      BY <1>1, <2>1, <3>1, <3>2 DEF HeldInv, ServedInv, ReloadInv
    <3> QED BY <2>1, <3>3, <3>4 DEF ReloadInv
  <2>3. CASE ~disk.config.parses
    BY <1>1, <1>4, <1>5, <2>1, <2>3 DEF Load, TypeOK
  <2> QED BY <2>2, <2>3
<1>6. CASE Stage
  <2> DEFINE accepted == /\ ValidApplication(held.config)
                         /\ TLSEnabled(held.config) = (cert # NoCert)
                         /\ TLSEnabled(held.config) => disk.cert # Broken
             k == IF TLSEnabled(held.config) THEN disk.cert ELSE NoCert
  <2>1. UNCHANGED <<disk, phase, started, serving, cert, revision, signals, due, edits, sent>>
    BY <1>6 DEF Stage, served
  <2>2. CASE accepted
    <3>1. pc = "stage" /\ pc' = "activate" /\ held' = [held EXCEPT !.cert = k]
      BY <1>6, <2>2 DEF Stage
    <3>2. k \in Certs \cup {NoCert}
      BY <1>1, <2>2 DEF TypeOK
    <3> HIDE DEF k
    <3>3. held' = [config |-> held.config, cert |-> k]
      BY <1>1, <3>1 DEF HeldInv
    <3>4. TypeOK'
      BY <1>1, <2>1, <3>1, <3>2, <3>3 DEF TypeOK
    <3>5. HeldInv' /\ ServedInv'
      BY <1>1, <2>1, <3>1, <3>2, <3>3 DEF HeldInv, ServedInv
    <3> QED BY <2>1, <3>4, <3>5 DEF ReloadInv
  <2>3. CASE ~accepted
    <3>1. NextSignal
      BY <1>6, <2>3 DEF Stage
    <3> QED BY <1>1, <1>4, <2>1, <3>1 DEF TypeOK
  <2> QED BY <2>2, <2>3
<1>7. CASE Activate
  <2>1. UNCHANGED <<disk, phase, started, cert, signals, due, edits, sent>> /\ pc = "activate"
    BY <1>7 DEF Activate
  <2>2. CASE Compiles(held.config, started)
    <3>1. serving' = held.config /\ revision' = revision + 1 /\ pc' = "store" /\ held' = held
      BY <1>7, <2>2 DEF Activate
    <3>2. TypeOK'
      BY <1>1, <2>1, <3>1 DEF TypeOK
    <3>3. HeldInv' /\ ServedInv'
      BY <1>1, <2>1, <2>2, <3>1 DEF HeldInv, ServedInv
    <3> QED BY <2>1, <3>2, <3>3 DEF ReloadInv
  <2>3. CASE ~Compiles(held.config, started)
    <3>1. NextSignal /\ UNCHANGED <<serving, revision>>
      BY <1>7, <2>3 DEF Activate
    <3> QED BY <1>1, <1>4, <2>1, <3>1 DEF TypeOK
  <2> QED BY <2>2, <2>3
<1>8. CASE StoreCert
  <2>1. /\ NextSignal /\ cert' = held.cert
        /\ UNCHANGED <<disk, phase, started, serving, revision, signals, due, edits, sent>>
    BY <1>8 DEF StoreCert
  <2> QED BY <1>1, <1>4, <2>1 DEF HeldInv
<1> QED BY <1>3, <1>5, <1>6, <1>7, <1>8 DEF HandleSignals

\* so that every step keeps it.
LEMMA ReloadNext == ReloadInv /\ [Next]_vars => ReloadInv'
<1> SUFFICES ASSUME ReloadInv, [Next]_vars PROVE ReloadInv'
  OBVIOUS
<1>1. ASSUME UNCHANGED <<disk, started, serving, cert, revision, signals, pc, held, due, edits, sent>>,
             phase' \in {"starting", "running", "stopping", "dead"}
      PROVE  ReloadInv'
  BY <1>1 DEF ReloadInv, TypeOK, HeldInv, ServedInv
<1>2. CASE UNCHANGED vars \/ Listen \/ Stop
  <2>1. /\ UNCHANGED <<disk, started, serving, cert, revision, signals, pc, held, due, edits, sent>>
        /\ phase' \in {"starting", "running", "stopping", "dead"}
    BY <1>2 DEF vars, Listen, Stop, served, goroutine, ReloadInv, TypeOK
  <2> QED BY <1>1, <2>1
<1>3. CASE HandleSignals
  BY <1>3, HandleSignalsKeeps
<1>4. ASSUME NEW c \in Edits, EditFile(c) PROVE ReloadInv'
  <2> DEFINE d == [disk EXCEPT !.config = c]
  <2>1. d = [config |-> c, cert |-> disk.cert] /\ disk.cert \in Certs \cup {Broken}
    BY DEF ReloadInv, TypeOK
  <2>2. Change(d)
    BY <1>4 DEF EditFile
  <2> HIDE DEF d
  <2>3. d = [config |-> d.config, cert |-> d.cert] /\ d.config = c /\ d.cert = disk.cert
    BY <2>1
  <2> QED BY <2>1, <2>2, <2>3, ChangeKeeps DEF Files
<1>5. ASSUME NEW k \in Certs \cup {Broken}, RotateCert(k) PROVE ReloadInv'
  <2> DEFINE d == [disk EXCEPT !.cert = k]
  <2>1. d = [config |-> disk.config, cert |-> k] /\ disk.config \in Files
    BY DEF ReloadInv
  <2>2. Change(d)
    BY <1>5 DEF RotateCert
  <2> HIDE DEF d
  <2>3. d = [config |-> d.config, cert |-> d.cert] /\ d.config = disk.config /\ d.cert = k
    BY <2>1
  <2> QED BY <2>1, <2>2, <2>3, ChangeKeeps
<1>6. CASE \E s \in {"HUP", "TERM"} : Signal(s)
  BY <1>6, SignalKeeps
<1> QED BY <1>2, <1>3, <1>4, <1>5, <1>6 DEF Next

\* The inductive invariant holds in every behaviour of a process.
THEOREM ReloadInvHolds == Spec => []ReloadInv
<1> QED BY ReloadInit, ReloadNext, PTL DEF Spec

\* reloadGateway and compile: whatever files start-up and reloads read, the
\* configuration in service meets the rules of the environment of the start.
THEOREM StartedRulesAlwaysHold == Spec => []StartedRulesHold
<1>1. ReloadInv => StartedRulesHold
  <2> SUFFICES ASSUME ReloadInv PROVE StartedRulesHold
    OBVIOUS
  <2>1. TypeOK /\ ValidApplication(started) /\ Compiles(serving, started)
    BY DEF ReloadInv, ServedInv
  <2>2. started.admin /\ started.env = "production" => CookieIsSecure(started)
    BY <2>1, ValidatedCookieIsSecure
  <2> QED BY <2>1, <2>2, CompiledMeetsRules DEF StartedRulesHold
<1> QED BY <1>1, ReloadInvHolds, PTL

-------------------------------------------------------------------------------
(* Reloads are whole.                                                      *)

\* What the refinement mapping shows of certificates: the new one from the swap on.
Shown == IF pc = "store" THEN held.cert ELSE cert

\* Only an activation shows, as one replacement of configuration and certificate.
LEMMA StepsAreWhole ==
    ReloadInv /\ [Next]_vars => [Whole!Replace]_<<serving, Compiles(serving, started), Shown, revision>>
<1> SUFFICES ASSUME ReloadInv, [Next]_vars
             PROVE  \/ /\ revision' = revision + 1 /\ Compiles(serving, started)' = TRUE
                    \/ UNCHANGED <<serving, started, revision, Shown>>
  BY DEF Whole!Replace
<1>1. CASE \/ UNCHANGED vars \/ Listen \/ Stop
           \/ \E c \in Edits : EditFile(c)
           \/ \E k \in Certs \cup {Broken} : RotateCert(k)
           \/ \E s \in {"HUP", "TERM"} : Signal(s)
  <2>1. UNCHANGED <<started, serving, cert, revision, pc, held>>
    BY <1>1 DEF vars, Listen, Stop, EditFile, RotateCert, Change, Signal, served, goroutine
  <2> QED BY <2>1 DEF Shown
<1>2. CASE Receive \/ Load \/ Stage
  <2>1. UNCHANGED <<started, serving, cert, revision>> /\ pc # "store" /\ pc' # "store"
    BY <1>2 DEF Receive, Load, Stage, NextSignal, served
  <2> QED BY <2>1 DEF Shown
<1>3. CASE Activate
  <2>1. CASE Compiles(held.config, started)
    <3>1. serving' = held.config /\ started' = started /\ revision' = revision + 1
      BY <1>3, <2>1 DEF Activate
    <3> QED BY <2>1, <3>1 DEF Compiles
  <2>2. CASE ~Compiles(held.config, started)
    <3>1. UNCHANGED <<started, serving, cert, revision>> /\ pc # "store" /\ pc' # "store"
      BY <1>3, <2>2 DEF Activate, NextSignal
    <3> QED BY <3>1 DEF Shown
  <2> QED BY <2>1, <2>2
<1>4. CASE StoreCert
  <2>1. UNCHANGED <<started, serving, revision>> /\ pc = "store" /\ pc' # "store" /\ cert' = held.cert
    BY <1>4 DEF StoreCert, NextSignal
  <2> QED BY <2>1 DEF Shown
<1> QED BY <1>1, <1>2, <1>3, <1>4 DEF Next, HandleSignals

\* README.md:65: a reload replaces configuration and certificate together, by what
\* compiles, or leaves the last good state; the store of the certificate that follows
\* the swap is not a second change.
THEOREM ReloadsAreAtomic == Spec => ReloadsAreWhole
<1>1. Init => Whole!LGInit
  BY ReloadInit DEF Init, Whole!LGInit, Compiles, ReloadInv, ServedInv
<1>2. ReloadInv /\ [Next]_vars =>
        [Whole!Replace]_<<serving, Compiles(serving, started), IF pc = "store" THEN held.cert ELSE cert, revision>>
  BY StepsAreWhole DEF Shown
<1> QED BY <1>1, <1>2, ReloadInvHolds, PTL DEF Spec, ReloadsAreWhole, Whole!LGSpec
===============================================================================

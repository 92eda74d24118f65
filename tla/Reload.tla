-------------------------------- MODULE Reload --------------------------------
(***************************************************************************)
(* The life of one process: start-up from its file, the goroutine that     *)
(* takes signals from a channel of two, SIGHUP reloads of configuration    *)
(* and TLS certificate, SIGTERM.  The file and the certificate on disk     *)
(* change at any time, also while a reload reads them.                     *)
(***************************************************************************)
EXTENDS ConfigRules, Sequences

CONSTANTS BootFiles,    \* what the file may hold at start-up
          Edits,        \* what it may be changed to
          Certs,        \* certificates of the pair of TLS files
          BootCert,     \* the one there at start-up
          MaxEdits,     \* bound: changes on disk
          MaxSignals    \* bound: signals sent

Broken == "broken"      \* a certificate that does not fit its key, mid-rotation
NoCert == "none"

ASSUME ReloadAssumption == /\ Broken \notin Certs /\ NoCert \notin Certs
                           /\ BootCert \in Certs
                           /\ MaxEdits \in Nat /\ MaxSignals \in Nat

VARIABLES
    disk,       \* the file and the certificate as they are now
    phase,      \* of the process
    started,    \* the configuration the process started with
    serving,    \* the configuration of the current snapshot
    cert,       \* certificateReloader.current
    signals,    \* the channel
    pc,         \* the signal goroutine
    held,       \* what it has read: the replacement and its certificate
    revision,   \* history: activations
    due,        \* history: SIGHUP was sent after the last change on disk
    edits, sent \* how much of MaxEdits and MaxSignals is used

goroutine == <<pc, held>>
served == <<serving, cert, revision>>
vars == <<disk, phase, started, serving, cert, signals, pc, held, revision, due, edits, sent>>

Nothing == [config |-> "none", cert |-> NoCert]

\* run(): load, Validate, newApp (Activate), then the certificate.  A process that
\* fails here ends before it listens, and is not a behaviour of interest.
Init ==
    /\ disk \in {[config |-> c, cert |-> BootCert] : c \in BootFiles}
    /\ disk.config.parses /\ ValidApplication(disk.config)
    /\ Compiles(disk.config, disk.config)
    /\ phase = "starting"
    /\ started = disk.config
    /\ serving = disk.config
    /\ cert = IF disk.config.tls = "on" THEN disk.cert ELSE NoCert
    /\ signals = <<>>
    /\ pc = "receive"
    /\ held = Nothing
    /\ revision = 0
    /\ due = FALSE
    /\ edits = 0
    /\ sent = 0

\* app.Start has returned, signal.Notify is called, the goroutine runs.
Listen == /\ phase = "starting"
          /\ phase' = "running"
          /\ UNCHANGED <<disk, started, served, signals, goroutine, due, edits, sent>>

-------------------------------------------------------------------------------
(* The operator.                                                            *)

Change(d) == /\ edits < MaxEdits
             /\ edits' = edits + 1
             /\ disk' = d
             /\ due' = FALSE
             /\ UNCHANGED <<phase, started, served, signals, goroutine, sent>>

EditFile(c) == Change([disk EXCEPT !.config = c])
RotateCert(k) == k # disk.cert /\ Change([disk EXCEPT !.cert = k])

\* Mutant: the channel has no buffer, so a signal is lost while a reload runs.
RoomWhenIdle == pc = "receive" /\ signals = <<>>

\* signal.Notify does not wait: a signal that finds the channel full is lost.
Room == Len(signals) < 2

\* Before Notify the default action of either signal ends the process.
Signal(s) ==
    /\ phase \in {"starting", "running"}
    /\ sent < MaxSignals
    /\ sent' = sent + 1
    /\ phase' = IF phase = "starting" THEN "dead" ELSE phase
    /\ signals' = IF Room THEN Append(signals, s) ELSE signals
    /\ due' = (due \/ s = "HUP")
    /\ UNCHANGED <<disk, started, served, goroutine, edits>>

-------------------------------------------------------------------------------
(* The signal goroutine.                                                    *)

Receive ==
    /\ phase = "running"
    /\ pc = "receive"
    /\ signals # <<>>
    /\ signals' = Tail(signals)
    /\ IF Head(signals) = "HUP"
         THEN pc' = "load" /\ UNCHANGED phase
         ELSE pc' = "ended" /\ phase' = "stopping"
    /\ UNCHANGED <<disk, started, served, held, due, edits, sent>>

\* Mutant: a rejected replacement ends the goroutine.
NextSignalNone == pc' = "ended" /\ held' = Nothing

\* continue: the next signal.
NextSignal == pc' = "receive" /\ held' = Nothing

\* config.Load over the defaults; an unreadable file is logged.
Load ==
    /\ pc = "load"
    /\ IF disk.config.parses
         THEN pc' = "stage" /\ held' = [held EXCEPT !.config = disk.config]
         ELSE NextSignal
    /\ UNCHANGED <<disk, phase, started, served, signals, due, edits, sent>>

TLSEnabled(c) == c.tls = "on"

\* reloadGateway up to Activate: Validate, no change of the listener's mode, and
\* the certificate read from disk and kept aside.
Stage ==
    /\ pc = "stage"
    /\ IF /\ ValidApplication(held.config)
          /\ TLSEnabled(held.config) = (cert # NoCert)
          /\ TLSEnabled(held.config) => disk.cert # Broken
         THEN /\ pc' = "activate"
              /\ held' = [held EXCEPT !.cert = IF TLSEnabled(held.config) THEN disk.cert ELSE NoCert]
         ELSE NextSignal
    /\ UNCHANGED <<disk, phase, started, served, signals, due, edits, sent>>

\* Mutant: the certificate is put to use when it has been read.
ActivateAfterCert ==
    /\ pc = "activate"
    /\ cert' = held.cert
    /\ IF Compiles(held.config, started)
         THEN /\ serving' = held.config
              /\ revision' = revision + 1
              /\ pc' = "store" /\ UNCHANGED held
         ELSE NextSignal /\ UNCHANGED <<serving, revision>>
    /\ UNCHANGED <<disk, phase, started, signals, due, edits, sent>>

\* Mutant: compile judges by the environment the replacement names.
ActivateInNewEnvironment ==
    /\ pc = "activate"
    /\ IF Compiles(held.config, held.config)
         THEN /\ serving' = held.config
              /\ revision' = revision + 1
              /\ pc' = "store" /\ UNCHANGED held
         ELSE NextSignal /\ UNCHANGED <<serving, revision>>
    /\ UNCHANGED <<disk, phase, started, cert, signals, due, edits, sent>>

\* manager.Activate: compile and swap, or keep the snapshot.
Activate ==
    /\ pc = "activate"
    /\ IF Compiles(held.config, started)
         THEN /\ serving' = held.config
              /\ revision' = revision + 1
              /\ pc' = "store" /\ UNCHANGED held
         ELSE NextSignal /\ UNCHANGED <<serving, revision>>
    /\ UNCHANGED <<disk, phase, started, cert, signals, due, edits, sent>>

StoreCert ==
    /\ pc = "store"
    /\ cert' = held.cert
    /\ NextSignal
    /\ UNCHANGED <<disk, phase, started, serving, signals, revision, due, edits, sent>>

\* Serve returns and the deferred calls close the gateway.
Stop == /\ phase = "stopping"
        /\ phase' = "dead"
        /\ UNCHANGED <<disk, started, served, signals, goroutine, due, edits, sent>>

HandleSignals == Receive \/ Load \/ Stage \/ Activate \/ StoreCert

Next == \/ Listen \/ Stop \/ HandleSignals
        \/ \E c \in Edits : EditFile(c)
        \/ \E k \in Certs \cup {Broken} : RotateCert(k)
        \/ \E s \in {"HUP", "TERM"} : Signal(s)

\* The process is scheduled; operators owe it nothing.
Fairness == WF_vars(Listen) /\ WF_vars(HandleSignals) /\ WF_vars(Stop)

Spec == Init /\ [][Next]_vars /\ Fairness

-------------------------------------------------------------------------------
(***************************************************************************)
(* Properties.                                                             *)
(***************************************************************************)

\* Type invariant; a channel never holds more than it was made for, and only a
\* reload that has activated has a certificate to store.
TypeOK ==
    /\ disk.cert \in Certs \cup {Broken}
    /\ phase \in {"starting", "running", "stopping", "dead"}
    /\ cert \in Certs \cup {NoCert}
    /\ signals \in Seq({"HUP", "TERM"}) /\ Len(signals) <= 2
    /\ pc \in {"receive", "load", "stage", "activate", "store", "ended"}
    /\ held.cert \in Certs \cup {NoCert}
    /\ pc = "store" => held.config = serving
    /\ revision \in Nat /\ due \in BOOLEAN
    /\ edits \in 0..MaxEdits /\ sent \in 0..MaxSignals

\* A reload is judged by the environment its file names and, in compile, by the one
\* the process was started in: whatever files it is given, a production process
\* never serves wildcard CORS or a DNS worker that talks plain HTTP, its admin
\* cookie is Secure, only a control-only process is left without routes, and no two
\* routes claim a request with equal right.
StartedRulesHold ==
    /\ TypeOK
    /\ started.env = "production" => /\ ~serving.wildcard
                                     /\ serving.dns => serving.dnsUrl = "https"
                                     /\ started.admin => CookieIsSecure(started)
    /\ serving.routes = 0 => started.controlOnly
    /\ serving.routes > 1 => serving.other \notin {"same name", "same pattern", "ambiguous"}

\* "The process validates the complete configuration" (README.md:65): what is served
\* has no value that stops the code that uses it.
ServingCanBeRun == serving.routes > 0 => CheckersRun(serving) /\ LimiterRuns(serving)

\* What the process would make of the disk if it reloaded now.
Acceptable(c) == /\ c.parses
                 /\ ValidApplication(c)
                 /\ TLSEnabled(c) = TLSEnabled(started)
                 /\ Compiles(c, started)
UpToDate == serving = disk.config /\ (TLSEnabled(disk.config) => cert = disk.cert)
Refused == \/ ~Acceptable(disk.config)
           \/ TLSEnabled(disk.config) /\ disk.cert = Broken

\* The last SIGHUP wins: a process told to reload after the last change on disk
\* ends up serving what is there, or cannot accept it, although the channel drops
\* signals and reloads read the disk in two steps.  A dropped SIGHUP is one behind
\* which another is still queued.
LastSignalWins ==
    []((due /\ phase = "running") => <>(UpToDate \/ Refused \/ ~due \/ phase # "running"))

\* A SIGTERM that the channel took stops the process, whatever reloads are ahead of
\* it and however they end.
QueuedTermStops ==
    []((\E n \in DOMAIN signals : signals[n] = "TERM") /\ phase = "running"
         => <>(phase # "running"))

\* README.md:65, "invalid configuration or TLS certificate files leave the last-good
\* state active": seen from the moment of the swap, configuration and certificate
\* change together or not at all.
Whole == INSTANCE LastGood WITH
            gateway <- serving,
            certificate <- IF pc = "store" THEN held.cert ELSE cert,
            good <- Compiles(serving, started),
            revision <- revision
ReloadsAreWhole == Whole!LGSpec
===============================================================================

------------------------------ MODULE DynamicDNS ------------------------------
(***************************************************************************)
(* The Dynamic DNS workers of one gateway process.  Every activation whose *)
(* configuration enables Dynamic DNS starts a worker of its own and the    *)
(* previous snapshot's worker is cancelled; a worker asks an external      *)
(* service for the public address and sends it to the DNS provider when it *)
(* is not the one it remembers.                                            *)
(*                                                                         *)
(* The public address changes over time: Address[n] is the n-th one.  The  *)
(* provider may apply an update whose answer is lost, and may apply it     *)
(* late, when the worker has given up on it.                               *)
(***************************************************************************)
EXTENDS Naturals

CONSTANTS Ips,           \* canonical public addresses
          NoIp,          \* lastIP of a new worker
          MaxMoves,      \* bound: public addresses, one after the other
          Address,       \* Address[n]: the n-th of them
          MaxSnapshots   \* bound: activations, the first one included

Epochs    == 1..MaxMoves
Snapshots == 1..MaxSnapshots

ASSUME AddressAssumption == /\ MaxMoves \in Nat \ {0}
                            /\ MaxSnapshots \in Nat \ {0}
                            /\ NoIp \notin Ips
                            /\ Address \in [Epochs -> Ips]

VARIABLES epoch,       \* the public address now is Address[epoch]
          record,      \* epoch of the address in the DNS, 0 for none
          late,        \* updates given up on that the provider may still apply
          overtaken,   \* history: an update was applied after a newer one
          current,     \* routerManager.current
          cancelled,   \* snapshots whose context is cancelled
          worker       \* the worker of every snapshot

vars == <<epoch, record, late, overtaken, current, cancelled, worker>>

PCs == {"none", "off", "compiled", "check", "send", "inflight", "applied", "wait", "stopped"}

NoWorker == [pc |-> "none", seen |-> 0, last |-> NoIp]

Compiled(on) == [NoWorker EXCEPT !.pc = IF on THEN "compiled" ELSE "off"]

Init == /\ epoch = 1
        /\ record = 0
        /\ late = {}
        /\ overtaken = FALSE
        /\ current = 1
        /\ cancelled = {}
        /\ \E on \in BOOLEAN : worker = [s \in Snapshots |->
                                   IF s = 1 THEN Compiled(on) ELSE NoWorker]

dnsVars == <<record, late, overtaken>>

-------------------------------------------------------------------------------
(* routerManager.Activate: swap, cancel the previous snapshot, start the     *)
(* worker.  Another activation may run between two of these steps.           *)

Swap(on) ==
    /\ current < MaxSnapshots
    /\ current' = current + 1
    /\ worker' = [worker EXCEPT ![current + 1] = Compiled(on)]
    /\ UNCHANGED <<dnsVars, epoch, cancelled>>

\* Mutant: the previous snapshot is dropped without cancelling its context.
CancelPreviousNever(s) == FALSE

CancelPrevious(s) ==
    /\ s < current
    /\ s \notin cancelled
    /\ cancelled' = cancelled \cup {s}
    /\ UNCHANGED <<dnsVars, epoch, current, worker>>

Start(s) ==
    /\ worker[s].pc = "compiled"
    /\ s > 1 => s - 1 \in cancelled
    /\ worker' = [worker EXCEPT ![s].pc = "check"]
    /\ UNCHANGED <<dnsVars, epoch, current, cancelled>>

-------------------------------------------------------------------------------
(* run and sync.                                                             *)

\* run after an error: return if the context is done, else wait for the ticker.
AfterError(s) == IF s \in cancelled THEN "stopped" ELSE "wait"

\* The check endpoint answers; the address is compared with lastIP.
Discover(s) ==
    /\ worker[s].pc = "check"
    /\ s \notin cancelled
    /\ worker' = IF Address[epoch] = worker[s].last
                   THEN [worker EXCEPT ![s].pc = "wait"]
                   ELSE [worker EXCEPT ![s].pc = "send", ![s].seen = epoch]
    /\ UNCHANGED <<dnsVars, epoch, current, cancelled>>

\* No answer, no 2xx, no public address, or the context is done.
DiscoverFail(s) ==
    /\ worker[s].pc = "check"
    /\ worker' = [worker EXCEPT ![s].pc = AfterError(s)]
    /\ UNCHANGED <<dnsVars, epoch, current, cancelled>>

Send(s) ==
    /\ worker[s].pc = "send"
    /\ s \notin cancelled
    /\ worker' = [worker EXCEPT ![s].pc = "inflight"]
    /\ UNCHANGED <<dnsVars, epoch, current, cancelled>>

\* The DNS provider (external) applies an update.
Applied(e) == /\ record' = e
              /\ overtaken' = (overtaken \/ e < record)

Apply(s) ==
    /\ worker[s].pc = "inflight"
    /\ Applied(worker[s].seen)
    /\ worker' = [worker EXCEPT ![s].pc = "applied"]
    /\ UNCHANGED <<late, epoch, current, cancelled>>

LateApply(e) ==
    /\ e \in late
    /\ late' = late \ {e}
    /\ Applied(e)
    /\ UNCHANGED <<epoch, current, cancelled, worker>>

\* The 2xx arrives: only now is the address remembered.
Confirm(s) ==
    /\ worker[s].pc = "applied"
    /\ worker' = [worker EXCEPT ![s].pc = "wait", ![s].seen = 0,
                                ![s].last = Address[worker[s].seen]]
    /\ UNCHANGED <<dnsVars, epoch, current, cancelled>>

\* Mutant: the address is remembered whatever the provider said.
UpdateFailRemembers(s) ==
    /\ worker[s].pc \in {"inflight", "applied"}
    /\ worker' = [worker EXCEPT ![s].pc = AfterError(s), ![s].seen = 0,
                                ![s].last = Address[worker[s].seen]]
    /\ UNCHANGED <<dnsVars, epoch, current, cancelled>>

\* The update was not sent because the context is done; or no 2xx came back in
\* time, and the provider has applied it, will apply it, or never does.
UpdateFail(s) ==
    /\ \/ worker[s].pc = "send" /\ s \in cancelled
       \/ worker[s].pc \in {"inflight", "applied"}
    /\ worker' = [worker EXCEPT ![s].pc = AfterError(s), ![s].seen = 0]
    /\ late' \in IF worker[s].pc = "inflight" THEN {late, late \cup {worker[s].seen}} ELSE {late}
    /\ UNCHANGED <<record, overtaken, epoch, current, cancelled>>

\* The select of run; with both channels ready it may take either.
Tick(s) ==
    /\ worker[s].pc = "wait"
    /\ worker' = [worker EXCEPT ![s].pc = "check"]
    /\ UNCHANGED <<dnsVars, epoch, current, cancelled>>

Stop(s) ==
    /\ worker[s].pc = "wait"
    /\ s \in cancelled
    /\ worker' = [worker EXCEPT ![s].pc = "stopped"]
    /\ UNCHANGED <<dnsVars, epoch, current, cancelled>>

\* The environment: the network gets another public address.
Move ==
    /\ epoch < MaxMoves
    /\ epoch' = epoch + 1
    /\ UNCHANGED <<dnsVars, current, cancelled, worker>>

Run(s) == \/ Start(s) \/ Discover(s) \/ DiscoverFail(s) \/ Send(s) \/ Apply(s)
          \/ Confirm(s) \/ UpdateFail(s) \/ Tick(s) \/ Stop(s)

Next == \/ \E on \in BOOLEAN : Swap(on)
        \/ \E s \in Snapshots : CancelPrevious(s) \/ Run(s)
        \/ \E e \in late : LateApply(e)
        \/ Move

Spec == Init /\ [][Next]_vars

\* Goroutines and the ticker run; HTTP calls end by their timeout; outages of the
\* check endpoint and of the provider end, so one of the retries succeeds.
Fairness == \A s \in Snapshots :
    /\ WF_vars(CancelPrevious(s)) /\ WF_vars(Run(s))
    /\ SF_vars(Discover(s)) /\ SF_vars(Apply(s)) /\ SF_vars(Confirm(s))

FairSpec == Spec /\ Fairness

-------------------------------------------------------------------------------
\* "Update your DNS provider whenever the gateway's public IP changes"
\* (admin-ui/index.html:125): when the address and the configuration stop
\* changing, the DNS ends up with the address, unless Dynamic DNS is off or the
\* provider applied two updates in the wrong order.  It takes an address that does
\* not return: lastIP is what was confirmed, and after an update whose answer was
\* lost sync takes a returning address for the one in the DNS.
RecordFollowsAddress ==
    <>[](\/ worker[current].pc = "off"
         \/ overtaken
         \/ record # 0 /\ Address[record] = Address[epoch])

\* The worker of a snapshot that was replaced ends, whatever it was doing.
RetiredWorkersStop ==
    \A s \in Snapshots : (s < current /\ worker[s].pc # "off") ~> (worker[s].pc = "stopped")
===============================================================================

------------------------------ MODULE Ingress ------------------------------
(***************************************************************************)
(* The inline ingress of a router (crates/ingress-inline): concurrent      *)
(* requests through `proxy` or `decide`, the classifier on a bounded       *)
(* blocking pool (pipeline.rs), the snapshot swapped under them by a       *)
(* source, and the upstream gateway.                                       *)
(*                                                                         *)
(* One action is what a handler does between two awaits.  The engine is    *)
(* abstract: a snapshot is the function from findings to the outcome that  *)
(* Engine!Decide computes from it for these requests, and it routes or     *)
(* passes through whatever the findings (EngineProofs,                     *)
(* IngressNeverSkipsARoutedRequest).  Deadlines are untimed: they may      *)
(* strike at any moment, and do strike in the end.                         *)
(***************************************************************************)
EXTENDS Integers, FiniteSets

CONSTANTS
    Requests,     \* the requests of a behaviour
    Permits,      \* --classify-concurrency
    Snapshots,    \* what the engine makes of findings under each snapshot
    None          \* no snapshot loaded, no outcome yet

\* what decide is given: the classifier's findings, the degraded ones of a
\* failure, or those assumed for a request that is not classified
Finding == {"found", "degraded", "assumed"}
Outcome == {"ROUTE", "BLOCK", "PASS_THROUGH"}

ASSUME PermitsAssumption == Permits \in Nat \ {0}
ASSUME RequestsAssumption == IsFiniteSet(Requests)
ASSUME SnapshotsAssumption ==
    /\ Snapshots \subseteq [Finding -> Outcome]
    /\ None \notin Snapshots
    /\ None \notin Finding \union Outcome
    /\ \A s \in Snapshots, f, g \in Finding :
          s[f] = "PASS_THROUGH" => s[g] = "PASS_THROUGH"

\* "call" wants its decision applied; "ask" wants to see it (/v1/decide, or
\* a dry-run header); "other" is any path the router takes no decision for
Kind == {"call", "ask", "other"}

Stage == {"idle", "reading",        \* the body is being received
          "queued", "granted",      \* waits for a permit; has been handed one
          "classifying",            \* awaits its classifier task
          "forwarding", "relaying", \* upstream has it; its answer streams
          "refused", "decided", "blocked", "relayed", "failed", "gone"}

VARIABLES
    holder,       \* the snapshot being served
    stage,        \* how far each request is
    kind,         \* what each request asks for
    snapshot,     \* the snapshot each request loaded
    findings,     \* what its decision was given
    outcome,      \* what was decided
    task,         \* its classifier task on the blocking pool
    free,         \* permits nobody holds
    ahead         \* who was waiting when it queued: the semaphore is a FIFO

request == <<stage, kind, snapshot, findings, outcome>>
pool    == <<task, free, ahead>>
vars    == <<holder, request, pool>>

Waiting == {r \in Requests : stage[r] = "queued"}
Granted == {r \in Requests : stage[r] = "granted"}
Busy    == {r \in Requests : task[r] = "running"}

Pending == {"reading", "queued", "granted", "classifying"}
Over    == {"refused", "decided", "blocked", "relayed", "failed", "gone"}

-----------------------------------------------------------------------------
Init ==
    /\ holder = None
    /\ stage = [r \in Requests |-> "idle"]
    /\ kind = [r \in Requests |-> "call"]
    /\ snapshot = [r \in Requests |-> None]
    /\ findings = [r \in Requests |-> None]
    /\ outcome = [r \in Requests |-> None]
    /\ task = [r \in Requests |-> "none"]
    /\ free = Permits
    /\ ahead = [r \in Requests |-> {}]

\* A source swaps the snapshot, between any two steps of a request.
Store(s) ==
    /\ holder' = s
    /\ UNCHANGED <<request, pool>>

\* A request arrives.  A bad path or caller is refused; a path without a
\* decision is forwarded verbatim; any other waits for its body.
Arrive(r, k) ==
    /\ stage[r] = "idle"
    /\ kind' = [kind EXCEPT ![r] = k]
    /\ \E to \in {"refused", IF k = "other" THEN "forwarding" ELSE "reading"} :
          stage' = [stage EXCEPT ![r] = to]
    /\ UNCHANGED <<holder, snapshot, findings, outcome, pool>>

\* The body is too large, unreadable, late, or no request at all.
BodyFails(r) ==
    /\ stage[r] = "reading"
    /\ stage' = [stage EXCEPT ![r] = "refused"]
    /\ UNCHANGED <<holder, kind, snapshot, findings, outcome, pool>>

\* A plausible bug: a blocked request is forwarded all the same
AfterForwards(r, o) == IF kind[r] # "call" THEN "decided" ELSE "forwarding"

\* What a decision leads to: an answer with it, a refusal, or upstream.
After(r, o) ==
    IF kind[r] # "call" THEN "decided"
    ELSE IF o = "BLOCK" THEN "blocked" ELSE "forwarding"

\* A plausible bug: the holder is read again after the await
SettleReloads(r, s, f) ==
    /\ findings' = [findings EXCEPT ![r] = f]
    /\ outcome' = [outcome EXCEPT ![r] = holder[f]]
    /\ stage' = [stage EXCEPT ![r] = After(r, holder[f])]
    /\ snapshot' = [snapshot EXCEPT ![r] = s]
    /\ UNCHANGED <<holder, kind>>

\* decide under the snapshot s that the request loaded, and what follows
\* before the next await
Settle(r, s, f) ==
    /\ findings' = [findings EXCEPT ![r] = f]
    /\ outcome' = [outcome EXCEPT ![r] = s[f]]
    /\ stage' = [stage EXCEPT ![r] = After(r, s[f])]
    /\ snapshot' = [snapshot EXCEPT ![r] = s]
    /\ UNCHANGED <<holder, kind>>

IsRouted(s) == s["assumed"] # "PASS_THROUGH"

\* The body is complete: load the snapshot once and, for a request the
\* policies route, ask for a permit.
NotReady(r) ==
    /\ stage[r] = "reading"
    /\ holder = None
    /\ stage' = [stage EXCEPT ![r] = "refused"]
    /\ UNCHANGED <<holder, kind, snapshot, findings, outcome, pool>>

SkipClassifier(r) ==
    /\ stage[r] = "reading"
    /\ holder # None
    /\ ~IsRouted(holder)
    /\ Settle(r, holder, "assumed")
    /\ UNCHANGED pool

TakePermit(r) ==
    /\ stage[r] = "reading"
    /\ holder # None
    /\ IsRouted(holder)
    /\ free > 0
    /\ free' = free - 1
    /\ task' = [task EXCEPT ![r] = "running"]
    /\ stage' = [stage EXCEPT ![r] = "classifying"]
    /\ snapshot' = [snapshot EXCEPT ![r] = holder]
    /\ UNCHANGED <<holder, kind, findings, outcome, ahead>>

Queue(r) ==
    /\ stage[r] = "reading"
    /\ holder # None
    /\ IsRouted(holder)
    /\ free = 0
    /\ ahead' = [ahead EXCEPT ![r] = Waiting]
    /\ stage' = [stage EXCEPT ![r] = "queued"]
    /\ snapshot' = [snapshot EXCEPT ![r] = holder]
    /\ UNCHANGED <<holder, kind, findings, outcome, task, free>>

\* A plausible bug: the wait for a permit has no deadline
QueueTimeoutNever(r) == FALSE /\ UNCHANGED vars

\* The deadline strikes in the queue, before a permit is handed over.
QueueTimeout(r) ==
    /\ stage[r] = "queued"
    /\ Settle(r, snapshot[r], "degraded")
    /\ UNCHANGED pool

\* The request wakes with its permit and starts the blocking task, even
\* when its deadline has struck meanwhile.
Spawn(r) ==
    /\ stage[r] = "granted"
    /\ task' = [task EXCEPT ![r] = "running"]
    /\ stage' = [stage EXCEPT ![r] = "classifying"]
    /\ UNCHANGED <<holder, kind, snapshot, findings, outcome, free, ahead>>

\* A dropped permit goes to the longest waiting request, if there is one.
Release(st) ==
    IF Waiting = {}
    THEN /\ free' = free + 1
         /\ stage' = st
    ELSE \E w \in Waiting :
            /\ ahead[w] \cap Waiting = {}
            /\ stage' = [st EXCEPT ![w] = "granted"]
            /\ UNCHANGED free

\* The task returns, fails or panics, and drops the permit it carries;
\* nobody need be awaiting it any more.
TaskEnds(r, result) ==
    /\ task[r] = "running"
    /\ task' = [task EXCEPT ![r] = result]
    /\ Release(stage)
    /\ UNCHANGED <<holder, kind, snapshot, findings, outcome, ahead>>

Classified(r) ==
    /\ stage[r] = "classifying"
    /\ task[r] # "running"
    /\ Settle(r, snapshot[r], IF task[r] = "returned" THEN "found" ELSE "degraded")
    /\ UNCHANGED pool

\* The deadline strikes: the request goes on, its task keeps the permit.
ClassifyTimeout(r) ==
    /\ stage[r] = "classifying"
    /\ task[r] = "running"
    /\ Settle(r, snapshot[r], "degraded")
    /\ UNCHANGED pool

\* Upstream: nothing bounds the wait for its response headers; a stalled
\* body is cut by the idle watchdog.
UpstreamStep(r) ==
    /\ \/ /\ stage[r] = "forwarding"
          /\ \E to \in {"relaying", "failed"} : stage' = [stage EXCEPT ![r] = to]
       \/ /\ stage[r] = "relaying"
          /\ \E to \in {"relayed", "failed"} : stage' = [stage EXCEPT ![r] = to]
    /\ UNCHANGED <<holder, kind, snapshot, findings, outcome, pool>>

\* A plausible bug: a permit handed to a request that left is not returned
DisconnectLeaks(r) ==
    /\ stage[r] \notin Over \union {"idle"}
    /\ stage' = [stage EXCEPT ![r] = "gone"]
    /\ UNCHANGED <<holder, kind, snapshot, findings, outcome, pool>>

\* The caller hangs up and its handler is dropped at the await it is in: a
\* permit handed over goes back, a task started keeps running.
Disconnect(r) ==
    /\ stage[r] \notin Over \union {"idle"}
    /\ IF stage[r] = "granted"
       THEN Release([stage EXCEPT ![r] = "gone"])
       ELSE /\ stage' = [stage EXCEPT ![r] = "gone"]
            /\ UNCHANGED free
    /\ UNCHANGED <<holder, kind, snapshot, findings, outcome, task, ahead>>

-----------------------------------------------------------------------------
Decision(r) ==
    NotReady(r) \/ SkipClassifier(r) \/ TakePermit(r) \/ Queue(r) \/ BodyFails(r)

Proceed(r) ==
    QueueTimeout(r) \/ Spawn(r) \/ Classified(r) \/ ClassifyTimeout(r)

Next ==
    \/ \E s \in Snapshots : Store(s)
    \/ \E r \in Requests :
          \/ \E k \in Kind : Arrive(r, k)
          \/ Decision(r)
          \/ Proceed(r)
          \/ \E result \in {"returned", "failed"} : TaskEnds(r, result)
          \/ UpstreamStep(r)
          \/ Disconnect(r)

Spec == Init /\ [][Next]_vars

\* The body timeout, the deadlines and the runtime make every handler move;
\* nothing is assumed of the classifier or of upstream.
Responsive == \A r \in Requests : WF_vars(Decision(r)) /\ WF_vars(Proceed(r))

FairSpec == Spec /\ Responsive

-----------------------------------------------------------------------------
TypeOK ==
    /\ holder \in Snapshots \union {None}
    /\ stage \in [Requests -> Stage]
    /\ kind \in [Requests -> Kind]
    /\ snapshot \in [Requests -> Snapshots \union {None}]
    /\ findings \in [Requests -> Finding \union {None}]
    /\ outcome \in [Requests -> Outcome \union {None}]
    /\ task \in [Requests -> {"none", "running", "returned", "failed"}]
    /\ free \in 0..Permits
    /\ ahead \in [Requests -> SUBSET Requests]

\* Classifier tasks never outnumber the permits, those of requests that
\* timed out or left included: "bounded blocking-pool usage" (pipeline.rs).
PoolIsBounded == Cardinality(Busy) <= Permits

\* No permit is lost or idle: each is free, with a running task or handed
\* to a request about to start one, and nobody waits while one is free.
PermitsAddUp ==
    /\ free + Cardinality(Busy) + Cardinality(Granted) = Permits
    /\ Waiting # {} => free = 0

\* One snapshot per request, however often it is swapped meanwhile: the
\* findings assumed for a request that is passed through (a risk of zero)
\* never route one, and a routed one is judged by the snapshot that sent
\* it to the classifier.
OneSnapshotPerRequest ==
    \A r \in Requests : outcome[r] # None =>
        /\ outcome[r] = snapshot[r][findings[r]]
        /\ (findings[r] = "assumed") <=> (outcome[r] = "PASS_THROUGH")

\* A request upstream hears of was asked to be forwarded, and is either
\* none of the router's or was decided and not blocked.
UpstreamHearsOnlyCleared ==
    \A r \in Requests : stage[r] \in {"forwarding", "relaying", "relayed"} =>
        \/ kind[r] = "other"
        \/ kind[r] = "call" /\ outcome[r] \in {"ROUTE", "PASS_THROUGH"}

\* A request is never kept waiting by the classifier: it is decided, or
\* over, even when every task hangs and keeps its permit for ever.
EveryRequestDecided ==
    \A r \in Requests : (stage[r] \in Pending) ~> (stage[r] \notin Pending)
=============================================================================

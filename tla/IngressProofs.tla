--------------------------- MODULE IngressProofs ---------------------------
(***************************************************************************)
(* Safety of the ingress for any number of requests, permits and           *)
(* snapshots.  The inductive invariant adds to the properties what a stage *)
(* says of a request: who awaits a task has one, who waits was routed by   *)
(* the snapshot it loaded, and nothing is decided before it is settled.    *)
(***************************************************************************)
EXTENDS Ingress, FiniteSetTheorems, TLAPS

\* what the stage of a request says of its other parts
Staged ==
    \A r \in Requests :
        /\ stage[r] \in {"idle", "reading", "queued", "granted"} => task[r] = "none"
        /\ stage[r] = "classifying" => task[r] # "none"
        /\ stage[r] \in {"queued", "granted", "classifying"} =>
              snapshot[r] # None /\ IsRouted(snapshot[r])
        /\ stage[r] \in Pending \union {"idle"} => outcome[r] = None
        /\ stage[r] \in Pending => kind[r] # "other"

Decided ==
    \A r \in Requests : outcome[r] # None =>
        snapshot[r] # None /\ findings[r] # None

IInv ==
    /\ TypeOK
    /\ PermitsAddUp
    /\ Staged
    /\ Decided
    /\ OneSnapshotPerRequest
    /\ UpstreamHearsOnlyCleared

\* Any set of requests is finite.
LEMMA Counted ==
    ASSUME NEW S, S \subseteq Requests
    PROVE  IsFiniteSet(S) /\ Cardinality(S) \in Nat
BY RequestsAssumption, FS_Subset, FS_CardinalityType

\* A set of requests grows by the one that joins it.
LEMMA Joins ==
    ASSUME NEW S, S \subseteq Requests, NEW r, r \notin S
    PROVE  Cardinality(S \union {r}) = Cardinality(S) + 1
BY Counted, FS_AddElement

\* And shrinks by the one that leaves it.
LEMMA Leaves ==
    ASSUME NEW S, S \subseteq Requests, NEW r, r \in S
    PROVE  Cardinality(S \ {r}) = Cardinality(S) - 1
BY Counted, FS_RemoveElement

\* A step that moves no request in or out of the pool, and at most lets
\* some leave the queue, keeps the permits accounted for.
LEMMA PoolUntouched ==
    ASSUME PermitsAddUp, UNCHANGED <<free, task>>,
           Granted' = Granted, Waiting' \subseteq Waiting
    PROVE  PermitsAddUp'
<1>1. Busy' = Busy
  BY DEF Busy
<1> QED
  BY <1>1 DEF PermitsAddUp

\* The initial state satisfies the invariant: every permit is free.
LEMMA IInvInit == Init => IInv
<1> SUFFICES ASSUME Init PROVE IInv
  OBVIOUS
<1>1. TypeOK
  BY PermitsAssumption DEF Init, TypeOK, Stage, Kind
<1>2. Busy = {} /\ Granted = {} /\ Waiting = {}
  BY DEF Init, Busy, Granted, Waiting
<1>3. PermitsAddUp
  BY <1>2, FS_EmptySet, PermitsAssumption DEF Init, PermitsAddUp
<1>4. Staged /\ Decided /\ OneSnapshotPerRequest /\ UpstreamHearsOnlyCleared
  BY DEF Init, Staged, Decided, OneSnapshotPerRequest, UpstreamHearsOnlyCleared, Pending
<1> QED
  BY <1>1, <1>3, <1>4 DEF IInv

\* So does a request that moves on without a permit handed to it.
LEMMA MovesOn ==
    ASSUME TypeOK, PermitsAddUp, NEW r \in Requests, NEW to,
           stage[r] # "granted", to \notin {"granted", "queued"},
           stage' = [stage EXCEPT ![r] = to], UNCHANGED <<free, task>>
    PROVE  PermitsAddUp'
<1>1. Granted' = Granted /\ Waiting' \subseteq Waiting
  BY DEF TypeOK, Granted, Waiting
<1> QED
  BY <1>1, PoolUntouched

\* A settled request is past every stage of the pool.
LEMMA AfterSettling ==
    ASSUME NEW r, NEW o
    PROVE  After(r, o) \in {"decided", "blocked", "forwarding"}
BY DEF After

\* Where a dropped permit goes, it stays accounted for: `kept` are the
\* requests that keep one handed to them before.
LEMMA Released ==
    ASSUME TypeOK, PermitsAddUp, NEW st \in [Requests -> Stage], Release(st),
           NEW kept, kept = {r \in Requests : st[r] = "granted"},
           Waiting = {r \in Requests : st[r] = "queued"}
    PROVE  /\ free' + Cardinality(Granted') = free + Cardinality(kept) + 1
           /\ free' \in Nat
           /\ Waiting' # {} => free' = 0
           /\ stage' \in [Requests -> Stage]
<1>0. kept \subseteq Requests
  OBVIOUS
<1>1. CASE Waiting = {}
  <2>1. free' = free + 1 /\ stage' = st
    BY <1>1 DEF Release
  <2>2. Granted' = kept /\ Waiting' = {}
    BY <1>1, <2>1 DEF Granted, Waiting
  <2> QED
    BY <2>1, <2>2, <1>0, Counted DEF TypeOK
<1>2. CASE Waiting # {}
  <2>1. PICK w \in Waiting : stage' = [st EXCEPT ![w] = "granted"] /\ free' = free
    BY <1>2 DEF Release
  <2>2. w \in Requests /\ w \notin kept
    BY <2>1 DEF Waiting
  <2>3. Granted' = kept \union {w}
    BY <2>1, <2>2 DEF Granted
  <2>4. free = 0
    BY <1>2 DEF PermitsAddUp
  <2>5. Cardinality(Granted') = Cardinality(kept) + 1 /\ Cardinality(kept) \in Nat
    BY <1>0, <2>2, <2>3, Joins, Counted
  <2>6. stage' \in [Requests -> Stage]
    BY <2>1 DEF Stage
  <2> QED
    BY <2>1, <2>4, <2>5, <2>6
<1> QED
  BY <1>1, <1>2

\* Every step keeps the permits accounted for.
LEMMA PermitsKept ==
    ASSUME IInv, [Next]_vars
    PROVE  PermitsAddUp'
<1> USE DEF IInv
<1>0. /\ Busy \subseteq Requests /\ Granted \subseteq Requests
      /\ Cardinality(Busy) \in Nat /\ Cardinality(Granted) \in Nat
      /\ free \in Nat
  BY Counted DEF Busy, Granted, TypeOK
<1>1. CASE UNCHANGED vars
  BY <1>1 DEF vars, request, pool, PermitsAddUp, Waiting, Granted, Busy
<1>2. ASSUME NEW s \in Snapshots, Store(s) PROVE PermitsAddUp'
  BY <1>2 DEF Store, request, pool, PermitsAddUp, Waiting, Granted, Busy
<1>3. ASSUME NEW r \in Requests, NEW k \in Kind, Arrive(r, k) PROVE PermitsAddUp'
  BY <1>3, MovesOn DEF Arrive, pool
<1>4. ASSUME NEW r \in Requests, BodyFails(r) \/ NotReady(r) PROVE PermitsAddUp'
  BY <1>4, MovesOn DEF BodyFails, NotReady, pool
<1>5. ASSUME NEW r \in Requests,
             \/ SkipClassifier(r) \/ QueueTimeout(r)
             \/ Classified(r) \/ ClassifyTimeout(r)
      PROVE  PermitsAddUp'
  <2>1. stage[r] # "granted" /\ UNCHANGED <<free, task>>
    BY <1>5 DEF SkipClassifier, QueueTimeout, Classified, ClassifyTimeout, pool
  <2>2. PICK o : stage' = [stage EXCEPT ![r] = After(r, o)]
    BY <1>5 DEF SkipClassifier, QueueTimeout, Classified, ClassifyTimeout, Settle
  <2> QED
    BY <2>1, <2>2, AfterSettling, MovesOn
<1>6. ASSUME NEW r \in Requests, TakePermit(r) PROVE PermitsAddUp'
  <2>1. /\ stage[r] = "reading" /\ task[r] = "none"
        /\ free > 0 /\ free' = free - 1
        /\ task' = [task EXCEPT ![r] = "running"]
        /\ stage' = [stage EXCEPT ![r] = "classifying"]
    BY <1>6 DEF TakePermit, Staged
  <2>2. Granted' = Granted /\ Waiting' = {}
    BY <2>1, <1>0 DEF Granted, Waiting, PermitsAddUp, TypeOK
  <2>3. Busy' = Busy \union {r} /\ r \notin Busy
    BY <2>1 DEF Busy, TypeOK
  <2>4. Cardinality(Busy') = Cardinality(Busy) + 1
    BY <2>3, <1>0, Joins
  <2> QED
    BY <2>1, <2>2, <2>4, <1>0, PermitsAssumption DEF PermitsAddUp
<1>7. ASSUME NEW r \in Requests, Queue(r) PROVE PermitsAddUp'
  <2>1. Granted' = Granted /\ Busy' = Busy /\ free' = 0 /\ free = 0
    BY <1>7 DEF Queue, Granted, Busy, TypeOK
  <2> QED
    BY <2>1 DEF PermitsAddUp
<1>8. ASSUME NEW r \in Requests, Spawn(r) PROVE PermitsAddUp'
  <2>1. /\ stage[r] = "granted" /\ task[r] = "none" /\ free' = free
        /\ task' = [task EXCEPT ![r] = "running"]
        /\ stage' = [stage EXCEPT ![r] = "classifying"]
    BY <1>8 DEF Spawn, Staged
  <2>2. Granted' = Granted \ {r} /\ r \in Granted /\ Waiting' = Waiting
    BY <2>1 DEF Granted, Waiting, TypeOK
  <2>3. Busy' = Busy \union {r} /\ r \notin Busy
    BY <2>1 DEF Busy, TypeOK
  <2>4. /\ Cardinality(Busy') = Cardinality(Busy) + 1
        /\ Cardinality(Granted') = Cardinality(Granted) - 1
    BY <2>2, <2>3, <1>0, Joins, Leaves
  <2> QED
    BY <2>1, <2>2, <2>4, <1>0, PermitsAssumption DEF PermitsAddUp
<1>9. ASSUME NEW r \in Requests, NEW result \in {"returned", "failed"}, TaskEnds(r, result)
      PROVE  PermitsAddUp'
  <2>1. task[r] = "running" /\ task' = [task EXCEPT ![r] = result] /\ Release(stage)
    BY <1>9 DEF TaskEnds
  <2>2. /\ free' + Cardinality(Granted') = free + Cardinality(Granted) + 1
        /\ free' \in Nat
        /\ Waiting' # {} => free' = 0
    BY <2>1, Released DEF Granted, Waiting, TypeOK
  <2>3. Busy' = Busy \ {r} /\ r \in Busy
    BY <2>1 DEF Busy, TypeOK
  <2>4. Cardinality(Busy') = Cardinality(Busy) - 1
    BY <2>3, <1>0, Leaves
  <2>5. Granted' \subseteq Requests
    BY DEF Granted
  <2> QED
    BY <2>2, <2>4, <2>5, <1>0, Counted, PermitsAssumption DEF PermitsAddUp
<1>10. ASSUME NEW r \in Requests, UpstreamStep(r) PROVE PermitsAddUp'
  <2>1. /\ stage[r] # "granted" /\ UNCHANGED <<free, task>>
        /\ \E to \in {"relaying", "relayed", "failed"} : stage' = [stage EXCEPT ![r] = to]
    BY <1>10 DEF UpstreamStep, pool
  <2> QED
    BY <2>1, MovesOn
<1>11. ASSUME NEW r \in Requests, Disconnect(r) PROVE PermitsAddUp'
  <2>1. CASE stage[r] # "granted"
    BY <1>11, <2>1, MovesOn DEF Disconnect
  <2>2. CASE stage[r] = "granted"
    <3> DEFINE st == [stage EXCEPT ![r] = "gone"]
               kept == Granted \ {r}
    <3>1. Release(st) /\ task' = task
      BY <1>11, <2>2 DEF Disconnect
    <3>2. /\ st \in [Requests -> Stage]
          /\ kept = {q \in Requests : st[q] = "granted"}
          /\ Waiting = {q \in Requests : st[q] = "queued"}
          /\ r \in Granted
      BY <2>2 DEF TypeOK, Stage, Granted, Waiting
    <3>3. /\ free' + Cardinality(Granted') = free + Cardinality(kept) + 1
          /\ free' \in Nat
          /\ Waiting' # {} => free' = 0
      BY <3>1, <3>2, Released
    <3>4. Cardinality(kept) = Cardinality(Granted) - 1
      BY <3>2, <1>0, Leaves
    <3>5. Busy' = Busy
      BY <3>1 DEF Busy
    <3>6. Granted' \subseteq Requests
      BY DEF Granted
    <3> QED
      BY <3>3, <3>4, <3>5, <3>6, <1>0, Counted, PermitsAssumption DEF PermitsAddUp
  <2> QED
    BY <2>1, <2>2
<1> QED
  BY <1>1, <1>2, <1>3, <1>4, <1>5, <1>6, <1>7, <1>8, <1>9, <1>10, <1>11
  DEF Next, Decision, Proceed

\* Every step keeps the types; that free permits never exceed the configured
\* number is because they are accounted for.
LEMMA TypeKept ==
    ASSUME IInv, [Next]_vars, PermitsAddUp'
    PROVE  TypeOK'
<1> USE DEF IInv
<1> DEFINE Shape == /\ holder' \in Snapshots \union {None}
                    /\ stage' \in [Requests -> Stage]
                    /\ kind' \in [Requests -> Kind]
                    /\ snapshot' \in [Requests -> Snapshots \union {None}]
                    /\ findings' \in [Requests -> Finding \union {None}]
                    /\ outcome' \in [Requests -> Outcome \union {None}]
                    /\ task' \in [Requests -> {"none", "running", "returned", "failed"}]
                    /\ free' \in Nat
                    /\ ahead' \in [Requests -> SUBSET Requests]
<1>0. TypeOK /\ free \in Nat
  BY DEF TypeOK
<1>1. CASE UNCHANGED vars
  BY <1>1, <1>0 DEF vars, request, pool, TypeOK
<1>2. ASSUME NEW s \in Snapshots, Store(s) PROVE Shape
  BY <1>2, <1>0 DEF Store, request, pool, TypeOK
<1>3. ASSUME NEW r \in Requests, NEW k \in Kind, Arrive(r, k) PROVE Shape
  BY <1>3, <1>0 DEF Arrive, pool, TypeOK, Stage
<1>4. ASSUME NEW r \in Requests, BodyFails(r) \/ NotReady(r) PROVE Shape
  BY <1>4, <1>0 DEF BodyFails, NotReady, pool, TypeOK, Stage
<1>5. ASSUME NEW r \in Requests, NEW s \in Snapshots, NEW f \in Finding,
             Settle(r, s, f), UNCHANGED pool
      PROVE  Shape
  <2>1. s[f] \in Outcome /\ After(r, s[f]) \in Stage
    BY SnapshotsAssumption, AfterSettling DEF Stage
  <2> QED
    BY <1>5, <1>0, <2>1 DEF Settle, pool, TypeOK
<1>6. ASSUME NEW r \in Requests,
             \/ SkipClassifier(r) \/ QueueTimeout(r)
             \/ Classified(r) \/ ClassifyTimeout(r)
      PROVE  Shape
  <2>1. stage[r] \in {"queued", "classifying"} => snapshot[r] \in Snapshots
    BY DEF Staged, TypeOK
  <2>2. \E s \in Snapshots, f \in Finding : Settle(r, s, f) /\ UNCHANGED pool
    BY <1>6, <2>1, <1>0
    DEF SkipClassifier, QueueTimeout, Classified, ClassifyTimeout, Finding, TypeOK
  <2> QED
    BY <2>2, <1>5
<1>7. ASSUME NEW r \in Requests, TakePermit(r) \/ Queue(r) \/ Spawn(r) PROVE Shape
  <2>1. free > 0 => free - 1 \in Nat
    BY <1>0
  <2>2. Waiting \subseteq Requests
    BY DEF Waiting
  <2> QED
    BY <1>7, <1>0, <2>1, <2>2 DEF TakePermit, Queue, Spawn, TypeOK, Stage
<1>8. ASSUME NEW r \in Requests, NEW result \in {"returned", "failed"}, TaskEnds(r, result)
      PROVE  Shape
  <2>1. stage' \in [Requests -> Stage] /\ free' \in Nat
    BY <1>8, Released DEF TaskEnds, Granted, Waiting, TypeOK
  <2> QED
    BY <1>8, <2>1 DEF TaskEnds, TypeOK
<1>9. ASSUME NEW r \in Requests, UpstreamStep(r) PROVE Shape
  BY <1>9, <1>0 DEF UpstreamStep, pool, TypeOK, Stage
<1>10. ASSUME NEW r \in Requests, Disconnect(r) PROVE Shape
  <2>1. [stage EXCEPT ![r] = "gone"] \in [Requests -> Stage]
    BY DEF TypeOK, Stage
  <2>2. stage' \in [Requests -> Stage] /\ free' \in Nat
    <3>1. CASE stage[r] # "granted"
      BY <1>10, <3>1, <2>1, <1>0 DEF Disconnect
    <3>2. CASE stage[r] = "granted"
      <4>1. Waiting = {q \in Requests : [stage EXCEPT ![r] = "gone"][q] = "queued"}
        BY <3>2 DEF Waiting, TypeOK
      <4> QED
        BY <1>10, <3>2, <2>1, <4>1, Released DEF Disconnect
    <3> QED
      BY <3>1, <3>2
  <2> QED
    BY <1>10, <2>2 DEF Disconnect, TypeOK
<1>11. Shape
  BY <1>1, <1>2, <1>3, <1>4, <1>6, <1>7, <1>8, <1>9, <1>10
  DEF Next, Decision, Proceed, TypeOK, vars, request, pool
<1>12. free' <= Permits
  <2>1. Busy' \subseteq Requests /\ Granted' \subseteq Requests
    BY DEF Busy, Granted
  <2>2. Cardinality(Busy') \in Nat /\ Cardinality(Granted') \in Nat
    BY <2>1, Counted
  <2> QED
    BY <1>11, <2>2, PermitsAssumption DEF PermitsAddUp
<1> QED
  BY <1>11, <1>12, PermitsAssumption DEF TypeOK

\* what the invariant says of one request
Fine(r) ==
    /\ stage[r] \in {"idle", "reading", "queued", "granted"} => task[r] = "none"
    /\ stage[r] = "classifying" => task[r] # "none"
    /\ stage[r] \in {"queued", "granted", "classifying"} =>
          snapshot[r] # None /\ IsRouted(snapshot[r])
    /\ stage[r] \in Pending \union {"idle"} => outcome[r] = None
    /\ stage[r] \in Pending => kind[r] # "other"
    /\ outcome[r] # None =>
          /\ snapshot[r] # None /\ findings[r] # None
          /\ outcome[r] = snapshot[r][findings[r]]
          /\ (findings[r] = "assumed") <=> (outcome[r] = "PASS_THROUGH")
    /\ stage[r] \in {"forwarding", "relaying", "relayed"} =>
          \/ kind[r] = "other"
          \/ kind[r] = "call" /\ outcome[r] \in {"ROUTE", "PASS_THROUGH"}

\* The invariant is the types, the permits, and every request being fine.
LEMMA FineParts ==
    (\A r \in Requests : Fine(r)) <=>
        Staged /\ Decided /\ OneSnapshotPerRequest /\ UpstreamHearsOnlyCleared
BY DEF Fine, Staged, Decided, OneSnapshotPerRequest, UpstreamHearsOnlyCleared

\* A request is untouched by the steps of another, but for a permit that
\* may be handed to it while it waits.
Bystander(q) ==
    /\ \/ stage'[q] = stage[q]
       \/ stage[q] = "queued" /\ stage'[q] = "granted"
    /\ UNCHANGED <<kind[q], snapshot[q], findings[q], outcome[q], task[q]>>

\* And stays fine.
LEMMA BystanderFine ==
    ASSUME NEW q \in Requests, Fine(q), Bystander(q)
    PROVE  Fine(q)'
BY DEF Fine, Bystander, Pending, IsRouted

\* Whoever a dropped permit goes to was waiting for it.
LEMMA ReleaseHandsOver ==
    ASSUME NEW st \in [Requests -> Stage], Release(st), NEW q \in Requests,
           st[q] = stage[q]
    PROVE  stage'[q] = stage[q] \/ (stage[q] = "queued" /\ stage'[q] = "granted")
<1>1. CASE Waiting = {}
  BY <1>1 DEF Release
<1>2. CASE Waiting # {}
  <2>1. PICK w \in Waiting : stage' = [st EXCEPT ![w] = "granted"]
    BY <1>2 DEF Release
  <2> QED
    BY <2>1 DEF Waiting
<1> QED
  BY <1>1, <1>2

\* A request settled under its own snapshot is fine: with assumed findings
\* it is passed through, with any others it is not.
LEMMA SettledFine ==
    ASSUME TypeOK, NEW r \in Requests, NEW s \in Snapshots, NEW f \in Finding,
           Settle(r, s, f), kind[r] # "other", UNCHANGED pool,
           (f = "assumed") <=> ~IsRouted(s)
    PROVE  Fine(r)'
<1>1. /\ findings'[r] = f /\ outcome'[r] = s[f] /\ snapshot'[r] = s
      /\ stage'[r] = After(r, s[f]) /\ kind'[r] = kind[r]
  BY DEF Settle, TypeOK
<1>2. s # None /\ f # None /\ s[f] \in Outcome
  BY SnapshotsAssumption
<1>3. (f = "assumed") <=> (s[f] = "PASS_THROUGH")
  BY SnapshotsAssumption DEF IsRouted, Finding
<1>4. /\ After(r, s[f]) \in {"decided", "blocked", "forwarding"}
      /\ After(r, s[f]) = "forwarding" =>
            kind[r] = "call" /\ s[f] \in {"ROUTE", "PASS_THROUGH"}
  BY <1>2 DEF After, Outcome, TypeOK, Kind
<1> QED
  BY <1>1, <1>2, <1>3, <1>4 DEF Fine, Pending

\* Every step keeps every request fine.
LEMMA FineKept ==
    ASSUME IInv, [Next]_vars, NEW q \in Requests
    PROVE  Fine(q)'
<1>0. TypeOK /\ \A r \in Requests : Fine(r)
  BY FineParts DEF IInv
<1>1. CASE UNCHANGED vars
  BY <1>1, <1>0, BystanderFine DEF vars, request, pool, Bystander
<1>2. ASSUME NEW s \in Snapshots, Store(s) PROVE Fine(q)'
  BY <1>2, <1>0, BystanderFine DEF Store, request, pool, Bystander
<1>3. ASSUME NEW r \in Requests, NEW k \in Kind, Arrive(r, k) PROVE Fine(q)'
  <2>1. CASE q # r
    BY <1>3, <2>1, <1>0, BystanderFine DEF Arrive, pool, Bystander, TypeOK
  <2>2. CASE q = r
    <3>1. /\ kind'[q] = k /\ stage[q] = "idle"
          /\ stage'[q] \in {"refused", IF k = "other" THEN "forwarding" ELSE "reading"}
          /\ UNCHANGED <<outcome[q], snapshot[q], findings[q], task[q]>>
      BY <1>3, <2>2, <1>0 DEF Arrive, pool, TypeOK
    <3> QED
      BY <3>1, <1>0 DEF Fine, Pending
  <2> QED
    BY <2>1, <2>2
<1>4. ASSUME NEW r \in Requests, BodyFails(r) \/ NotReady(r) PROVE Fine(q)'
  <2>1. CASE q # r
    BY <1>4, <2>1, <1>0, BystanderFine DEF BodyFails, NotReady, pool, Bystander, TypeOK
  <2>2. CASE q = r
    <3>1. stage'[q] = "refused" /\ stage[q] = "reading"
          /\ UNCHANGED <<kind[q], outcome[q], snapshot[q], findings[q], task[q]>>
      BY <1>4, <2>2, <1>0 DEF BodyFails, NotReady, pool, TypeOK
    <3> QED
      BY <3>1, <1>0 DEF Fine, Pending
  <2> QED
    BY <2>1, <2>2
<1>5. ASSUME NEW r \in Requests,
             \/ SkipClassifier(r) \/ QueueTimeout(r)
             \/ Classified(r) \/ ClassifyTimeout(r)
      PROVE  Fine(q)'
  <2>1. PICK s, f : /\ Settle(r, s, f) /\ UNCHANGED pool
                    /\ s \in Snapshots /\ f \in Finding /\ kind[r] # "other"
                    /\ (f = "assumed") <=> ~IsRouted(s)
    <3>1. CASE SkipClassifier(r)
      <4>1. holder \in Snapshots /\ kind[r] # "other"
        BY <3>1, <1>0 DEF SkipClassifier, TypeOK, Fine, Pending
      <4> QED
        BY <3>1, <4>1 DEF SkipClassifier, Finding
    <3>2. CASE QueueTimeout(r) \/ Classified(r) \/ ClassifyTimeout(r)
      <4>1. /\ stage[r] \in {"queued", "classifying"}
            /\ snapshot[r] \in Snapshots /\ IsRouted(snapshot[r]) /\ kind[r] # "other"
        BY <3>2, <1>0 DEF QueueTimeout, Classified, ClassifyTimeout, TypeOK, Fine, Pending
      <4>2. \E f \in {"found", "degraded"} : Settle(r, snapshot[r], f) /\ UNCHANGED pool
        BY <3>2 DEF QueueTimeout, Classified, ClassifyTimeout
      <4> QED
        BY <4>1, <4>2 DEF Finding
    <3> QED
      BY <1>5, <3>1, <3>2
  <2>2. CASE q # r
    BY <2>1, <2>2, <1>0, BystanderFine DEF Settle, pool, Bystander, TypeOK
  <2>3. CASE q = r
    BY <2>1, <2>3, <1>0, SettledFine
  <2> QED
    BY <2>2, <2>3
<1>6. ASSUME NEW r \in Requests, TakePermit(r) \/ Queue(r) PROVE Fine(q)'
  <2>1. CASE q # r
    BY <1>6, <2>1, <1>0, BystanderFine DEF TakePermit, Queue, Bystander, TypeOK
  <2>2. CASE q = r
    <3>1. /\ stage[q] = "reading" /\ snapshot'[q] = holder /\ holder # None
          /\ IsRouted(holder)
          /\ \/ stage'[q] = "classifying" /\ task'[q] = "running"
             \/ stage'[q] = "queued" /\ task'[q] = task[q]
          /\ UNCHANGED <<kind[q], outcome[q], findings[q]>>
      BY <1>6, <2>2, <1>0 DEF TakePermit, Queue, TypeOK
    <3> QED
      BY <3>1, <1>0 DEF Fine, Pending, IsRouted
  <2> QED
    BY <2>1, <2>2
<1>7. ASSUME NEW r \in Requests, Spawn(r) PROVE Fine(q)'
  <2>1. CASE q # r
    BY <1>7, <2>1, <1>0, BystanderFine DEF Spawn, Bystander, TypeOK
  <2>2. CASE q = r
    <3>1. /\ stage[q] = "granted" /\ stage'[q] = "classifying" /\ task'[q] = "running"
          /\ UNCHANGED <<kind[q], snapshot[q], outcome[q], findings[q]>>
      BY <1>7, <2>2, <1>0 DEF Spawn, TypeOK
    <3> QED
      BY <3>1, <1>0 DEF Fine, Pending, IsRouted
  <2> QED
    BY <2>1, <2>2
<1>8. ASSUME NEW r \in Requests, NEW result \in {"returned", "failed"}, TaskEnds(r, result)
      PROVE  Fine(q)'
  <2>1. stage'[q] = stage[q] \/ (stage[q] = "queued" /\ stage'[q] = "granted")
    BY <1>8, <1>0, ReleaseHandsOver DEF TaskEnds, TypeOK
  <2>2. CASE q # r
    BY <1>8, <2>1, <2>2, <1>0, BystanderFine DEF TaskEnds, Bystander, TypeOK
  <2>3. CASE q = r
    <3>1. /\ task[q] = "running" /\ task'[q] = result
          /\ UNCHANGED <<kind[q], snapshot[q], outcome[q], findings[q]>>
      BY <1>8, <2>3, <1>0 DEF TaskEnds, TypeOK
    <3>2. stage[q] # "queued" /\ stage'[q] = stage[q]
      BY <3>1, <2>1, <1>0 DEF Fine
    <3> QED
      BY <3>1, <3>2, <1>0 DEF Fine, IsRouted
  <2> QED
    BY <2>2, <2>3
<1>9. ASSUME NEW r \in Requests, UpstreamStep(r) PROVE Fine(q)'
  <2>1. CASE q # r
    BY <1>9, <2>1, <1>0, BystanderFine DEF UpstreamStep, pool, Bystander, TypeOK
  <2>2. CASE q = r
    <3>1. /\ stage[q] \in {"forwarding", "relaying"}
          /\ stage'[q] \in {"relaying", "relayed", "failed"}
          /\ UNCHANGED <<kind[q], snapshot[q], outcome[q], findings[q], task[q]>>
      BY <1>9, <2>2, <1>0 DEF UpstreamStep, pool, TypeOK
    <3> QED
      BY <3>1, <1>0 DEF Fine, Pending
  <2> QED
    BY <2>1, <2>2
<1>10. ASSUME NEW r \in Requests, Disconnect(r) PROVE Fine(q)'
  <2> DEFINE st == [stage EXCEPT ![r] = "gone"]
  <2>1. /\ st \in [Requests -> Stage]
        /\ Release(st) \/ stage' = st
        /\ UNCHANGED <<kind, snapshot, outcome, findings, task>>
    BY <1>10, <1>0 DEF Disconnect, TypeOK, Stage
  <2>2. CASE q # r
    <3>1. stage'[q] = stage[q] \/ (stage[q] = "queued" /\ stage'[q] = "granted")
      BY <2>1, <2>2, <1>0, ReleaseHandsOver DEF TypeOK
    <3> QED
      BY <2>1, <3>1, <1>0, BystanderFine DEF Bystander
  <2>3. CASE q = r
    <3>1. stage'[q] = "gone"
      <4>1. CASE stage[r] # "granted"
        BY <1>10, <4>1, <2>3, <1>0 DEF Disconnect, TypeOK
      <4>2. CASE stage[r] = "granted"
        BY <1>10, <4>2, <2>1, <2>3, <1>0 DEF Disconnect, Release, Waiting, TypeOK
      <4> QED
        BY <4>1, <4>2
    <3> QED
      BY <3>1, <2>1, <1>0 DEF Fine, Pending
  <2> QED
    BY <2>2, <2>3
<1> QED
  BY <1>1, <1>2, <1>3, <1>4, <1>5, <1>6, <1>7, <1>8, <1>9, <1>10
  DEF Next, Decision, Proceed

\* The invariant is inductive.
LEMMA IInvKept == IInv /\ [Next]_vars => IInv'
<1> SUFFICES ASSUME IInv, [Next]_vars PROVE IInv'
  OBVIOUS
<1>1. PermitsAddUp' /\ TypeOK'
  BY PermitsKept, TypeKept
<1>2. \A q \in Requests : Fine(q)'
  BY FineKept
<1>3. Staged' /\ Decided' /\ OneSnapshotPerRequest' /\ UpstreamHearsOnlyCleared'
  BY <1>2 DEF Fine, Staged, Decided, OneSnapshotPerRequest, UpstreamHearsOnlyCleared
<1> QED
  BY <1>1, <1>3 DEF IInv

\* It holds in every reachable state.
LEMMA Invariant == Spec => []IInv
BY IInvInit, IInvKept, PTL DEF Spec

\* Every variable keeps its type; free permits stay within the limit.
THEOREM TypesHold == Spec => []TypeOK
<1>1. IInv => TypeOK
  BY DEF IInv
<1> QED
  BY <1>1, Invariant, PTL

\* No permit is lost or idle, for any number of requests and permits and
\* whichever of them time out, fail, panic or hang up.
THEOREM PermitsAreConserved == Spec => []PermitsAddUp
<1>1. IInv => PermitsAddUp
  BY DEF IInv
<1> QED
  BY <1>1, Invariant, PTL

\* So classifier tasks never outnumber the permits.
THEOREM BlockingPoolIsBounded == Spec => []PoolIsBounded
<1>1. IInv => PoolIsBounded
  <2> SUFFICES ASSUME IInv PROVE PoolIsBounded
    OBVIOUS
  <2>1. Busy \subseteq Requests /\ Granted \subseteq Requests
    BY DEF Busy, Granted
  <2>2. Cardinality(Busy) \in Nat /\ Cardinality(Granted) \in Nat
    BY <2>1, Counted
  <2> QED
    BY <2>2, PermitsAssumption DEF IInv, PermitsAddUp, TypeOK, PoolIsBounded
<1> QED
  BY <1>1, Invariant, PTL

\* A request is decided under the one snapshot it loaded, however often the
\* snapshot is swapped under it.
THEOREM SnapshotSwapsAreInvisible == Spec => []OneSnapshotPerRequest
<1>1. IInv => OneSnapshotPerRequest
  BY DEF IInv
<1> QED
  BY <1>1, Invariant, PTL

\* Nothing blocked, and nothing asked for as a decision only, is forwarded.
THEOREM OnlyClearedIsForwarded == Spec => []UpstreamHearsOnlyCleared
<1>1. IInv => UpstreamHearsOnlyCleared
  BY DEF IInv
<1> QED
  BY <1>1, Invariant, PTL
=============================================================================

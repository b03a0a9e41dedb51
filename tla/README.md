# routeD, specified

TLA+ models of routeD, the routing layer between callers of large language
models and the gateways that serve them. Two programs make the system:

* **routed**, the router. It parses an OpenAI-shaped request, classifies its
  text, and decides by policy which model tier serves it, or that nobody may.
  It runs inline as a proxy or beside Envoy as an `ext_proc` server, and takes
  its compiled configuration, the *snapshot*, from files or from the operator.
* **routed-operator**. It compiles the Kubernetes resources (ModelTier,
  DataClass, RoutingPolicy, RouterProfile) into snapshots, streams them to the
  routers over gRPC, writes the objects' statuses and keeps a fallback
  ConfigMap. Replicas elect a leader for the writes; every replica serves
  streams.

The models are translated from the source under `src/`. `PROJECT.json` names,
for each definition, the file and lines it stands for, and lists the runs, the
mutants that show each property can fail, the hazards, findings and theorems.

## How to run it

    tlc -config Operator.cfg MCOperator           # any run: its module and .cfg
    tlapm OperatorProofs.tla                      # likewise Distribution-, Engine-, Ingress-, ExtProc-,
                                                  # ArtifactCache-, Journal- and AdmissionProofs

## Inventory of the system

| component (source) | state | operations | what makes it hard | what makes it correct | modelled by |
|---|---|---|---|---|---|
| operator reconcile loop (`routed-operator/src/main.rs`, `reconcile.rs`, `status.rs`, `configmap.rs`) | the last snapshot sent and published, the pending watch events | list, compile, send, patch statuses, publish, debounce | four lists that are not atomic, its own status writes echo as events, partial failures, another leader | no edit is lost; channels only move forward; the loop comes to rest; statuses and ConfigMap settle | `Operator` |
| leader election (`leader.rs`) | the Lease object, a flag per replica | a tick: get, then create or forced apply | no compare-and-swap, clocks, slow and failing calls | short overlaps, stable leadership, some leader | `Lease` |
| gRPC distribution (`grpc.rs`, `snapshot_source.rs` GrpcSource, `routed/src/main.rs`) | a channel per replica, a stream per router, the holder | watch, push, receive, reconnect | either end restarts, values skipped, lagging replicas | a router serves what its replica serves, one stream never goes back, in the end it is what the cluster says | `SnapshotFeed`, `Distribution` |
| file sources (`snapshot_source.rs` FileSource, CompiledFileSource) | fingerprint, holder | load, poll, reload | files change between two reads | the router settles on the files | `FileSource` |
| snapshot holder (`crates/snapshot`) | current and previous snapshot | load, store, revert | swapped under running requests | one request, one snapshot | `Distribution`, `FileSource`, `Ingress` |
| decision engine (`crates/decision`) | none: a pure function | `decide`, `is_routed` | order of stages, partial findings, hints, saturation, rounding, ties | constraints hold on every path; hints only tighten; the explanation is true | `Engine` |
| inline ingress (`crates/ingress-inline`) | requests in flight, classifier permits, blocking tasks | proxy, decide, classify, forward | timeouts racing answers, disconnects, hung tasks, hot swaps | bounded pool, no lost permit, every request decided, nothing blocked is forwarded | `Ingress` |
| ext_proc ingress (`crates/ingress-extproc`) | one state per stream | headers, body chunks, response headers | message order, body limit, end of stream, resets | a request goes on only once decided on its whole body; every message is answered | `ExtProc` |
| policy compiler (`crates/policy`) | none | compile a resource set | references, defaults, ordering, error collection | all or nothing, the same in every order of the lists, no reference to what is not there | `Compiler`; inside `Operator` it is the constant `Blamed` |
| admission webhook (`webhook.rs`) | none | check an object against a listing | four lists, concurrent writes, an object in the place of its old version, failing lists | its verdict on an object is the compiler's | `Admission` |
| request parsing (`crates/router`) | none | extract text, estimate tokens, run the pipeline | truncation, which text is classified | estimates never undercount | not modelled |
| artifact cache (`crates/artifact`) | files of a shared directory | look up, verify, fetch, write, rename, note | crashes, power loss, two writers, wrong answers | only pinned and, with a trust root, signed bytes are used | `ArtifactCache` |
| feedback sink (`crates/feedback`) | a bounded channel, two files of lines | record, report, write | full channel, failing and torn writes, blocking calls, stops | losses are bounded, feedback follows its decision, the channel drains | `Journal` |
| classifiers, detectors (`crates/classify`, `crates/security`) | model weights | classify | text and numbers | measured, not specified | only their results and failures (`Engine`, `Ingress`) |
| telemetry, health, routedctl, API types, TLS, trainer, Helm chart, mock gateway | | | nothing depends on their order | | not modelled |

How they interact: the cluster's objects reach each operator replica as watch
events; the replica's channel feeds the streams of the routers; a router's
source stores the snapshot in the holder; each request loads it from the
holder once, asks the engine whether it is routed, classifies under a permit
and a deadline, asks the engine for a decision and forwards or refuses. Beside
Envoy the same decision answers a stream of messages about one request. What
was decided, and what callers report of it, goes through a channel to the
journal that the trainer reads. Before an object reaches the cluster the
webhook compiles it with the others; before a router classifies it fetches the
models its profile names into the cache.

## Modules

Each component is one module with its state as variables and an action per
operation; `MC…` modules give it finite constants; `…Proofs` modules extend it
with theorems. Two proof modules have a second part, about the neighbour of
their component: `OperatorProofs` extends `Lease` too, and `DistributionProofs`
extends `FileSource`. The names of these two modules therefore differ from those
of their hosts (`ElectionInit`, `FilesSpec`, ...), except what they share: the
replicas and the leader flag, `Leadership`, are declared once for `Operator` and
`Lease`. A definition introduced as "a plausible bug" is a mutated form
used by `PROJECT.json`; nothing else refers to it.

### Operator

The loop of `run_reconcile_loop` in every replica, over one API server. An
action is what the loop does between two awaits: `ListKind` per list call,
`CompileAndSend` for everything from the last list to the first write (the
channel's `send`, the reading of the leader flag and the decision what to
write are one step in the code, because nothing is awaited), `PatchStatus`,
`PublishConfigMap`, `Wake` after the debounce. The cluster is `object` and
`configMap`; `pending` is the set of watch events on their way to a replica;
a status write raises an event too. Environment: `Edit`, `Resync`, failing
calls (`ListFails`; `WriteFails` before the call did anything, `AnswerLost`
after it took effect: `PatchLands`, `PublishLands`), `SetLeading` (any change of
the flag the election might make) and `Restart`.

Abstractions: one object stands for all of a kind, because a list returns them
together and they are patched in a row; a snapshot is the specs it was
compiled from, that is, SHA-256 is taken as injective; the compiler is
`Blamed(spec)`, the kinds it reports errors for. A condition's reason and
message, which the code compares too, follow from the listed specs as the
verdict does. Histories no guard reads: `from` (the generations behind a
snapshot), `owed` (the writes that no round has judged since they failed or
lost their answer, or since the replica came to lead) and `displaced` (another
leader, or a call whose answer was lost, has written the ConfigMap since this
replica published).

`NoLostUpdate` and `Quiesces` together say that every replica's channel, leader
or not, settles on the configuration. Statuses and ConfigMap are the leader's,
and for them the code keeps less than its comments say. `SettlesOnTheCluster`
is what it keeps, in any interleaving of leaders and through calls that fail on
either side of their effect: a leader at rest has written all there is to write,
but for what `owed` and `displaced` name. Those two exceptions are the code's:
becoming leader or failing to write starts no round, and `cm_hash` is what the
replica published, not what is there. `TakeoverPublishes` has no exceptions and
is false.

Abstract specification: `SnapshotFeed`, what a watcher is promised of the
channels: they only move forward in generations, hold only what compiled, and
are emptied only by a restart. `ImplementsFeed` is that refinement, checked by
TLC and proved.

### Lease

One tick of `leader.rs` in four steps (read the clock, get, write, result) and
a sleep. The API call takes effect at some moment before it returns and may
fail on either side of it. Time is relative: ages count up to a cap at which
every clock calls the lease expired, timers count down, `Advance` may not pass
a timer. The state space is finite without a horizon, so liveness is checked
over all time. `Skew` gives each replica a clock error, of at most `MaxSkew`.
`together` is a history variable: for each two replicas, how long both have had
the flag set. The overlap is stated of pairs because that is what the code
limits; with three or more replicas the overlaps of successive pairs may follow
one another. `Timely` and `RoomForOne` say how short calls must be against the
period and the duration.

### Distribution

Routers watching replicas through gRPC, on top of `SnapshotFeed` (it extends
the abstract feed, not `Operator`, and adds what the code does with digests:
equal ones are not sent again). The stream is the tonic `WatchStream`: at the
connect the current value, then the value at the time of each poll, those
replaced in between skipped. `Break` loses a tail of what is on the wire.
The start-up of the process (a wait of 30 s for the first snapshot, then a
classifier and a deadline of its own) changes nothing of this state and is not
in the model.

### FileSource

`FileSource` and `CompiledFileSource` in one module (`compiled` says which, and
never changes), file by file: a load reads the files one after the other while
they are edited, a poll compares the fingerprint and remembers it before it
reloads. `early` is a history variable: a change fell between the start-up load
and the watcher's first fingerprint, which takes it for loaded. The two properties
except that case, in which the code keeps the older content (see the
observations). The fingerprint is taken in one step and every edit changes it: the
granularity of modification times and a stat of several files in a row are left
out.

### Engine

`decide` stage by stage: `SelectPolicy`, `ResolveDataClass`, `RiskDenied`,
`Degraded`, `Survivors` of the hard constraints, `OverCap`, `AboveFloor`,
`Scores` and `BestOf`, `FallbackOrBlock`. One step computes one decision; TLC's
initial states are the worlds (a snapshot and a request) of `Families`. Numbers
are integers, scores are the exact rationals rounded to `1/Grain`, sums saturate
at `MaxU64`, costs are summed before they saturate, as the code's u128. Left
out: the 1e-9 float tolerances and the wording of `reason`.

### Ingress

Requests through `proxy` and `decide`. The tokio semaphore is a FIFO
(`ahead[r]` is who waited when `r` queued); a dropped permit goes to the
longest waiter. The permit belongs to the blocking task, which outlives a
request that times out or leaves. A snapshot is the function from findings to
outcome that the engine computes under it. Deadlines may strike at any moment.
A disconnect drops the handler at its await (hyper's behaviour) and leaves the
blocking task running.

### ExtProc

One stream: Envoy on one side, which holds the request until its message is
answered, `stream_loop` on the other. Envoy is external and modelled from the
filter configuration ADR-0017 asks for; it may send the body in any number of
chunks (the code buffers them), may or may not honour the mode override, and may
reset the stream at any moment (`GiveUp`). With `Trailers` a body may end
without ending the stream. The decision itself is a choice of `Verdict`: what
`decide_bytes` does is `Ingress` and `Engine`. `judged` is a history variable:
the verdict and the size of the body it was reached on.

### ArtifactCache

`Resolver::resolve` in any number of processes on one cache directory, one
action per system call on the directory (`Look`, `Compare`, `OpenTmp`,
`WriteTmp`, `Rename`, `OpenRecord`, `WriteRecord`) and one per answer of a peer
(`GetManifest`, `GetSignatures`, `GetBlob`, `Unauthorised`, `FetchFails`), so
that any two processes interleave between any two of them. The three schemes
differ as in the code: `http` bytes hash to the name they are stored under,
`oci` ones to the digest that a manifest of that name gives and that a `.layer`
record beside the file repeats for the next hit, `file` is checked where it
lies. Peers answer with any bytes and any signatures. Faults: a file that is there
cannot be read (`ReadFails`: the call ends, but a record is taken as none), a write fails at
any call and leaves what it left, a process is killed, the machine loses power
and any file that was there may be found torn (nothing is synced).

Abstractions: SHA-256 is injective, so a digest is named by the bytes that have
it; a signature is whose key made it, the manifest it names and whether it
came intact; of several signatures one suffices, so sets of at most one are
enumerated. A local file does not change while a process runs.

### Journal

The feedback sink between the handlers and the trainer. `Decide` and `Accept`
end in `try_send`; the writer takes a record and makes two write calls for its
line, because `writeln!` does. Each holds a thread of the runtime; of handlers no
step is required, so that they stand still meanwhile is among the behaviours. A
failing call or a stop may leave part of a line, which the next record continues.
The two files are sequences of lines, a line is the fragments on it, and a reader
can parse the lines that are one whole record.
`taken` is a history variable: what the channel accepted.

### Compiler and Admission

`Compiler` is `policy::compile` as operators over the four lists, in the
compiler's own order: rates, profiles, data classes and the header values they
claim, tiers, policies with their candidates, fallback and learned profile,
evaluation order and shadowing. Its results are the report, a set of
`Diag(level, kind, name, field)`, and the snapshot, or `None` if the report has
an error. A resource is a record of the fields that other resources or the
report depend on; those checked alone (ranges, blanks) are a set `bad`. Left
out: the wording of messages, the YAML loader, the snapshot's hash, prices as
floats (whole numbers here, one price for a tier's two, so that no conversion
overflows), and currencies other than two. Rates are whole numbers too, equal or
not, where the code compares within `f64::EPSILON` and keeps the last of equal
ones.

`Admission` puts the webhook around it: a write is submitted, the kinds are
listed one by one, the object is put in the place of the one it updates or at
the end of its list, and the write is denied when the report has an error that
names it (`Admit`, `Deny`). The API server stores it later (`Persist`); other
writes, deletes and failing lists come in between. The cluster may hold, from
before the webhook, objects it would have denied. `Reconciled` are the objects
the operator lists, all of them unless it was started with `--namespace`;
`CreateVerdictIsExact` is about these, because the webhook judges the others too
and the compiler never sees them.

## Runs

| run | question | bounds |
|---|---|---|
| Operator | Is an edit ever lost, a channel emptied or taken back? Has a leader at rest written what is to be written? Does the loop come to rest? Do the channels refine `SnapshotFeed`? | two replicas, of which none leads at first, two kinds, two contents (one combination does not compile); of two edits (a content may return), one failed or answerless call, one resync, one restart and two changes of the leader flag any three: both replicas may lead at once and write the same statuses, an edit may fall between any two lists of either, a leader may lose the flag in the middle of its writes. The proofs cover any number of each |
| OperatorTakeover | finding: does a new leader publish? | two replicas, one edit, two changes of the flag, no fault |
| Lease | How long do two leaders overlap, does one lost call move the lease, does one leader emerge? | period 7, duration 21, calls of at most 1, one clock a unit ahead; two failures, one crash. The ratio of the code's 5 s and 15 s, with room for a call to be short against the period |
| Distribution | Does a router serve what its replica last pushed, and settle on the cluster's configuration? | two replicas, one router, three generations, three digests (content may return; one cannot be parsed), window 2; a replica restart, a broken stream, a router restart |
| FileSource | Does the router settle on the files, and is a watcher at rest current? | both sources; two files, four changes, one of the contents does not load |
| Engine | Constraints, risk, degradation, monotonicity; scores, floor, explanation; the effective class and hints; overrides and `is_routed` | four families of worlds: tiers that fail exactly one check each, with both fallback settings and token counts that saturate; three tiers over cost, latency and quality under three weightings and learned prediction; classes under every order of ranks, ties included; policies over every scope and `overridable` |
| Ingress | Permits, pool, snapshots, forwarding; is every request decided even when no task ends? | two requests for one permit, so that one holds it and one waits or is handed it; three snapshots. The proofs below cover any number |
| ExtProc | Does only a decided request go on, is every message answered? | bodies of at most 4 bytes in chunks of 0 to 2, limit 3: the limit is met in one, two or three chunks and passed by one |
| ExtProcTrailers | finding: is what goes on always stripped? | the same, with trailers |
| ArtifactCache | Is what a caller opens what its URI pinned, does a trust root keep the unsigned out, does a resolve end if its peers' calls do? | two processes; one artifact that is reachable under its own digest, by a signed manifest and by an unsigned one; one with a trust root beside one without, or with an unreadable one; one fault (a read, a write, a crash or a power loss) at any moment. The proofs below cover any number of each |
| Journal | How much of what the channel took may be lost, does feedback overtake its decision, does the channel drain? | three requests, two of which are reported on: five records for a channel of two, so that it is full; two failing writes, so that one can spoil the record after it; one stop |
| Admission | Is the webhook's verdict the compiler's? Does the snapshot depend on the order of the lists, or name what it does not hold? | eleven objects of two namespaces with one tier name, one header value in two cases, two rates of one currency, one unsound tier, one unsound rate; seven clusters, some of which do not compile; two writers, two writes or deletes, one failing list |

All runs set `CHECK_DEADLOCK FALSE` except `Lease` (its clock never
stops): budgets run out, files stop changing, requests end.

### Fairness

* `Operator`: weak fairness of each replica's loop. The runtime polls a live
  task, API calls return (with a result or an error), and the API server
  delivers the events it owes. Nothing is assumed of edits, faults, resyncs,
  restarts or the flag.
* `Lease`: time passes, a running task proceeds, a crashed pod is restarted.
* `Distribution`: replicas catch up with the cluster (this is what `Quiesces`
  and `NoLostUpdate` say of `Operator`), both runtimes poll their tasks. A
  broken connection is taken to be reported as broken; there is no keep-alive
  in the code, so a half-open one would stay unnoticed for as long as TCP
  allows.
* `FileSource`: the poll task runs and the supervisor restarts an exited
  router. Each edit is taken to change a modification time, and a read error
  other than a vanished file is left out.
* `Ingress`: a request's own deadlines and the runtime make its handler move.
  Nothing is assumed of classifier tasks or of upstream.
* `ExtProc`: the runtime polls the stream's task, the decision comes (it has
  deadlines of its own), and Envoy acts on a reply. That Envoy sends anything,
  or ever gives up, is not assumed.
* `ArtifactCache`: the process's own steps, its calls on the directory among
  them. That a peer's call ends is not assumed, because none has a deadline
  (`oci.rs`, `lib.rs`): `EveryResolveEnds` has it as its premise (`Fetch`), for
  each process apart, and says that whatever the answers are the resolve then
  ends.
* `Journal`: none. That a call on the disk returns is not assumed:
  `JournalDrains` has it as its premise. That the runtime polls the handlers is
  not needed, and with one thread it does not while a call is under way.
* `Operator`, `Distribution`, `FileSource` and `Journal` settle only because
  their environment's budgets run out: edits, faults and restarts are finitely
  many in a behaviour. `Admission` and `Engine` state no liveness.

## What is proved

TLAPS proves the following for every value of the constants, under the named
assumptions of the modules (finite sets, positive bounds, `None` outside the
data; numbers in snapshots and requests are numbers).

**OperatorProofs.** `TypeCorrect`, `LostUpdateFreedom` (`NoLostUpdate`),
`LeadersSettle` (`SettlesOnTheCluster`), `ForwardChannel` (`ChannelMovesForward`)
and `OperatorImplementsFeed`.

*No lost update.* The property alone is not inductive: that a sleeping replica
has the current configuration depends on what it listed. The invariant adds
that every kind already listed in this round is either as it is now (spec,
generation and status) or has its event pending (`FreshOrPending`), and that the same
holds of the snapshot last sent when the replica is past compiling
(`SentOrPending`). An edit or a status write raises the event in the same step,
a list refreshes, and waking consumes an event only to list again.

*What a leader leaves behind.* Three more parts. While a round writes, what it
listed is still the cluster or an event is pending, and if nothing disturbed it
the writes left are the whole of what that listing asks for (`ToWrite`): a
status patch raises an event, so a leader that falls asleep without one had
nothing to patch. Then all is up to date and published (`Written`), and what a
replica published is in the ConfigMap until it is displaced (`Remembers`).

*Forward only.* The generations behind the channel are at most those of any
listing made since (`Ages`, `Paid`), and equal generations mean equal specs
(`SameAge`, `SentAge`): an object's generation grows with each edit, a round
lists after the last send.

*Refinement.* The two together give that each step of `Operator` is a
`Change`, an `Offer`, a `Forget` or a stutter of `SnapshotFeed`.

*The election*, for any number of replicas, failed calls and crashes:
`ElectionTypes`, `OverlapsAreShort` (`OverlapIsShort`) and
`OneFailureIsSurvived` (`OneFailureKeepsTheLease`). `SetLeading` lets any flag
change at any moment, so the theorems above hold whatever the election does.

The overlap rests on `Timely`: two calls are shorter than a period, a lease
outlives a period, five calls and the skew. With the code's 5 s and 15 s and no
skew that is any call of up to 2 s; the code itself sets no limit on a call. That
the overlap is short says nothing of the lease, so the invariant (`ElectionInv`)
says what the lease is like while anybody leads: its stamp is recent, by the
leader's own step (`Recent`), so a tick that reads it then stands back; a forced
apply decided just before the holder's own write lands before the holder's
next tick (`LateWritesLandEarly`), which then finds another holder; and so of
two leaders one does not hold the lease, has no write under way and learns of it
at its next answer, for which `OneIsDoomed` counts the time left against the
time both have led. `OneFailureIsSurvived` rests on `RoomForOne`, a lease that
outlives two periods, six calls and the skew (calls of up to 0.8 s), and on
`CalmInv`: as long as no pod has crashed and one call at most has failed, the
age of the lease and the time until the holder's next write (`Due`) stay below
the duration (`RenewedInTime`), so nobody else ever plans to write.

**DistributionProofs.** `DistributionTypes`, `RoutersServeTheirReplica`
(`ServesItsReplica`) and `StreamsMoveForward` (a router goes back to an older
snapshot only by reconnecting; no run states it). On the operator's side
`Distribution` has `SnapshotFeed`'s own actions, which is why the composition
rests on `OperatorImplementsFeed`. The invariant says that
what a stream last took from the channel is the last chunk on the wire or, when
none is left, what the holder has. That a stream never goes back rests on
`NotBehind`: the channel it is attached to is never emptied nor older than what
was taken from it, since `Offer` only raises generations (natural numbers, and
`None` is no snapshot: `DistributionAssumption`) and a restart, which empties the
channel, ends the stream.

*Routers configured from files*, for any number of files and changes:
`PolledTypes` and `RestsOnWhatIsOnDisk` (`AtRestCurrent`). Nothing can be said of
a file that changes under a load; the invariant (`FileInv`) is therefore about
the files that are no newer than the fingerprint (`Old`). They were never more
than it counted (`Times`), a later save takes a file out of them for good, and as
long as none was taken out (`Unmoved`) what the load has read is what they say
(`Reload`) and so is what it left in the holder (`Watched`). When the
fingerprint is still true at rest, these are all the files there are.

**EngineProofs.** All nine properties of the Engine run, for every snapshot and
request. The engine is one step, so the invariant is only that the decision is
`None` or what `Decide` returns (`Computed`); the work is in the lemmas about
the stages.

* `RoutedTiersAreLawful`, `DeniedRisksBlock`, `ClassifierLossIsConservative`
  rest on `RoutedEnds` and `RoutedOutcome`: a routed decision is either the
  best of the scored survivors or the fallback, and each way has passed
  `MeetingPasses` (no violation reported is the same as all facts met).
* `HarderRequestsStayBlocked`: a tier that passes for the harder request passes
  for the easier one (`EasierPasses`), so what blocks the easier one leaves
  nothing for the harder.
* `ChoicesAreTheBest`: a score is monotone in its parts, rounding included
  (`ScoreIsMonotone`), and the sort keeps a greatest (`BestIsBest`).
* `TheHighestClassApplies` and `HintsOnlyTighten`: resolution takes a highest of
  the classes considered (`ResolvedIsHighest`), a header only adds to these
  (`HeadersOnlyRaise`), and where ranks follow strictness a higher class
  forbids whatever the lower one does (`HeadersNeverUnblock`).
* `ExplanationsAddUp`; `IngressNeverSkipsARoutedRequest`: `is_routed` and
  `decide` select the same policy.

**IngressProofs.** `TypesHold`, `PermitsAreConserved`, `BlockingPoolIsBounded`,
`SnapshotSwapsAreInvisible`, `OnlyClearedIsForwarded`, for any number of
requests and permits. The invariant adds what a stage implies of a request
(`Staged`: it is granted or queued under a snapshot that routes, it has no
task before it is classifying) and of its decision (`Decided`). Conservation
is counted with the cardinalities of `Busy` and `Granted`, one lemma for each
way a step moves a request between them.

**ExtProcProofs.** `StreamTypes`, `DecidedOnlyGoesOn` (`OnlyDecidedGoesOn`, for
streams without trailers: `~Trailers` is its one assumption beyond the
module's) and `ResponseTagged` (`ResponseNamesDecision`), for bodies of any
length in chunks of any sizes. The invariant counts bytes: what Envoy has sent
of a routed body is what is buffered (`Whole`), or is with the message on its
way (`Coming`), so that what the last message is decided on is the whole
(`Counts`, `Answers`). `InStep` ties Envoy's phase to the loop's state, a reset
at any moment included; `Kept` says that nothing is judged before the last
message, nor twice, and that exactly what clears is kept for the response. The
`…Parts` lemmas state each step in those terms, so that no arithmetic is left
when the invariant is checked.

**ArtifactCacheProofs.** `CacheTypes`, `LoadedArtifactsArePinned`
(`LoadedIsPinned`) and `UnsignedStaysOut` (`OnlySignedArtifacts`), for any
number of processes, artifacts and faults. The invariant says that a file in the
cache is absent, torn or whole (`Cache`), that what a process has fetched and
what is in its temporary file is whole until it has renamed it (`Held`), and
that a process which has looked holds on to that: others only rename bytes they
have verified, so they never turn a whole entry into a wrong one, and a power
loss ends every process that had looked. `PidsDiffer` is the assumption this
rests on (see the observations).

**JournalProofs.** `JournalTypes`, `FeedbackFollowsItsDecision`
(`JoinIsSettled`) and `LossesAreBounded` (`LossIsBounded`). For the join the
invariant is the order of the channel: feedback is behind its decision. For the
losses it counts: the records lost so far and those that the unfinished line of
each file will still cost (`Debt`) stay within what failures and stops allow.

**AdmissionProofs.** `AdmissionTypes`, `NothingDangles` (`NoDanglingReference`),
from `SnapshotsAreClosed` about any lists that compile, and
`ClusterCompilesInAnyOrder` (`CompileIgnoresOrder`), from `OrderIsIgnored`:
lists that are permutations of one another compile to one report and one
snapshot. Every definition of `Compiler` that names a position is shown to
depend on the object at it only; where keys are distinct the first of a name is
the only one, and the evaluation order is total (`KeyOrderAssumption`).

`CreatesAreJudgedExactly` (`CreateVerdictIsExact`) is about every cluster that
compiles and every new object. The argument (`VerdictIsExact`) goes through the
list the webhook compiles, in which the object is last. One object more takes
nothing from the others, as no earlier object has less to refer to
(`MoreToReferTo`), so if nothing is wrong with it the whole list compiles
(`OneProfileMore` to `OnePolicyMore`); the reconciler's list is the same objects
in another order, and by `OrderIsIgnored` it compiles too. Conversely an error on
the object is an error.

`AdmittedAreClean` (`AdmittedIsClean`) is about every cluster, so the order
matters: a name, a key or a header may be taken by an object with errors of its
own. An object that takes the place of an older one is compiled at that place
both times (`ReplacedInPlace`). A new one moves from the end to the place of its
key (`InsertedAtItsPlace`): what is before it there was before it at the end, so
it is still the first of its name and its claims are still free
(`EarlierProfile`, `EarlierClass`, `EarlierTier`), and what it refers to is in the
other lists, which are the same (`CleanAtItsPlace`). An object the operator does
not list has no error in its report (`UnlistedIsClean`). The invariants are
`StoreInv`, a cluster is finite and no two objects have one key, and
`AdmittedInv`, a write that waits to be stored was either admissible for what is
listed or let through by a failing list. That a listing is the sorted sequence
of what is watched is the lemma `ListingIs`, from the ranks of a total order.
`NoneAssumption` keeps `None` apart from objects and from lists of them.

**Only model-checked.** The liveness properties, one or more of every passing
run but Engine and Admission: TLAPS does not do fairness or ENABLED.
All invariants and action properties of the runs that pass are proved. The type
invariants are proved too, but for that of `Engine`, which its proofs do not
need; that of `ExtProc` is a property of its run besides, the others are stated
for the reader and for the proofs.

## Findings

Two runs end with a counterexample. Each checks one sentence of the
repository, and the code does otherwise.

* `ExtProcTrailers`: a body with trailers behind it is never decided on and goes
  on with its `x-routed-*` headers, which `ingress-extproc/src/lib.rs:10-11`
  excludes. Without trailers it cannot (`OnlyDecidedGoesOn`).
* `OperatorTakeover`: a replica that becomes leader publishes nothing until the
  next event, although `main.rs:192-193` says that it must; if it led before it may
  not publish even then, because its `cm_hash` still names the snapshot
  (`main.rs:222-228`). What holds all the same is `SettlesOnTheCluster`, and of the
  channels `NoLostUpdate`.

Observations made while reading, which no run states:

Operator.

* Two leaders that overlap publish in any order (`main.rs:229`, a forced apply in
  `configmap.rs:34-35`), so that an older snapshot replaces a newer one in the
  ConfigMap: more than the "duplicate write" of `leader.rs:7-9`. `OverlapIsShort`
  bounds the time in which that may happen; the next round of the leader that
  remains repairs it, unless its `cm_hash` names the newer one already.
* A publication that fails is not tried again before some event (`main.rs:238`),
  so that gRPC and ConfigMap disagree for good if there is none, which ADR-0014
  (lines 62-63, 114-116) excludes. One that took effect and lost its answer is not
  in `cm_hash` either: if the configuration then returns to what that names, the
  ConfigMap keeps the other.
* A lease tick has no deadline: two leaders overlap for as long as a call hangs.
  `OverlapIsShort` holds for calls shorter than `Latency`.
* A policy may be Ready with no `compiledHash` while another object keeps the
  set from compiling (`status.rs`, against ADR-0014).

Compiler.

* Rates of one currency that differ by less than `f64::EPSILON` are taken as
  equal and the last is kept (`policy/src/lib.rs:192-203`), so which one it is
  depends on the order of the profiles: `CompileIgnoresOrder` holds of rates that
  are equal or told apart.

Admission.

* Two writes that are checked at once are both admitted and may together not
  compile (`webhook.rs:69`).
* An update in place may be admitted and break the set, when the error then
  names an object that comes later in the list. This is why
  `CreateVerdictIsExact` is about creates.
* `webhook.rs:7-8` says that no object is rejected because another is broken. A
  policy is, whose included tier is broken, and so is a tier in a currency whose
  only rate is not positive.
* Deletes are not examined, and a list that fails admits the write.
* Started with `--namespace`, the operator lists that namespace only, but the
  webhook judges objects of any, against that list (`webhook.rs:69`).

Router.

* A file changed between the start-up load and the first fingerprint
  (`snapshot_source.rs:54`) is not read again until the next change, although lines
  3-4 of that file say that a source re-reads files when they change.
* A header that names a higher-ranked, laxer class widens the candidates
  (`decision/src/lib.rs:535`), which ADR-0007 (lines 39-40) excludes and the
  property test at `props.rs:454` does not reach. Where ranks follow strictness it
  cannot (`HintsNeverLoosen`).
* A hint below the effective class leaves a note only in some paths, and a
  degraded decision does not list every candidate, although
  `docs/how-routing-works.md` says both.
* A router that started on defaults may read one profile for its deadline and
  another for its classifier (`routed/src/main.rs`, two loads of the holder).
* A fingerprint is remembered before the load it announces, so a load that fails
  on a passing read error is not tried again until the next change
  (`snapshot_source.rs:61`); a change that keeps the modification time is not
  seen at all.
* The gRPC client sends no keep-alive: a connection that is half open keeps the
  router on its snapshot without an error.
* Classifier, deadline and predictor are those of the first profile until the
  router restarts (the log says so).
* In ext_proc mode the process ends when the first of its two servers has shut
  down, and cuts what the other still serves (`main.rs:229`).

Artifact cache.

* Temporary files are named by pid. Containers that share a volume may all have
  pid 1; two of them may then write one temporary file at once, and what is
  renamed is compared with its digest only at the next hit.
* A `file://` artifact is hashed and read again later by its consumer.
* A fetch has no deadline: a registry that accepts and never answers keeps the
  caller waiting for ever (the premise of `EveryResolveEnds`).

Journal.

* With one runtime thread, as `#[tokio::main]` starts on one processor, the
  writer's blocking calls stop the handlers (`feedback/src/lib.rs:165`), against
  "the hot path never blocks on disk" (lines 8-9, ADR-0018).
* A dropped record is logged, not counted (`lib.rs:9-10`, ADR-0018).
* Feedback that was answered 202 and is still in the channel is lost at a
  shutdown, however orderly.
* A torn line is neither ended nor skipped by the next writer; the trainer's
  reader fails on it (`read_jsonl` in `train.py`).
* ADR-0018 lists estimated tokens among what is recorded; the record has none.

## What is not modelled

* Request parsing and the router's pipeline (`crates/router`): a traversal of
  JSON and a sum of lengths, without state or order.
* Classifiers and detectors: regular expressions, tokenisation, inference. Their
  results and failures are inputs of `Engine` and `Ingress`.
* Policy lint: warnings that nothing reads.
* The start-up of `routed` and its flags; TLS and certificate reading.
* Telemetry, health and metrics: they are written or read only.
* routedctl: a sequential caller of the compiler and the engine.
* The trainer, the Helm chart and the mock gateway: no part of the running system.
* The rewriting of bodies and headers on the way upstream and back, and the
  wait for upstream's headers, which has no deadline in the code:
  `EveryRequestDecided` claims a decision, not an answer.
* `revert` of the holder, which has no caller outside tests.

## Plan

All modules of the plan are there except `Extract` (token estimates and the
choice of text, as operators). What is left, in order:

1. `Operator`'s `Blamed` instantiated with `Compiler`, over a few objects a kind,
   so that statuses and admission meet in one model.
2. `Extract`, in the run of `Engine`.
3. The start-up of `routed`, in `Distribution`: the wait, the two reads of the
   holder, the pinned classifier.
4. Proofs of abstract specifications that no run has yet: the journal's channel
   as a queue that loses, the classifier's permits as a counter.

The number of runs is kept small: one per component, which asks all of its
questions, and one per finding.

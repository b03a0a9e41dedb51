------------------------------ MODULE Operator ------------------------------
(***************************************************************************)
(* The reconcile loop of routed-operator (cmd/routed-operator/src/main.rs  *)
(* run_reconcile_loop, with reconcile.rs, status.rs, configmap.rs and the  *)
(* watch channel of grpc.rs), run by every replica of the operator over    *)
(* one Kubernetes API server.                                              *)
(*                                                                         *)
(* A replica lists the CRD kinds one after the other, compiles what it     *)
(* listed, sends a changed snapshot to its own gRPC channel and, while its *)
(* leader flag is set, patches the objects' statuses and publishes a       *)
(* changed snapshot to the fallback ConfigMap.  It then sleeps on the      *)
(* merged watch streams of the kinds.  Every API call is an await: the     *)
(* cluster, the other replicas and the leader flag move between any two.   *)
(*                                                                         *)
(* One object stands for all the objects of a kind, because a list call    *)
(* returns them together.  The digest of a snapshot is the specs it was    *)
(* compiled from (SHA-256 taken as injective).                             *)
(***************************************************************************)
EXTENDS Naturals, Sequences, Leadership

CONSTANTS
  Kind,         \* CRD kinds (ModelTier, DataClass, RoutingPolicy, RouterProfile)
  Content,      \* what the objects of one kind may say
  Start,        \* what those of each kind say at first
  Blamed(_),    \* Blamed(spec): the kinds routed_policy::compile reports an error for
  ListOrder,    \* the order list_input lists the kinds in
  StatusRank,   \* where each kind comes in the order status::apply walks
  HashedKind,   \* the kinds whose status carries compiledHash (RoutingPolicy)
  LeaderElect,  \* the --leader-elect flag
  Bound,        \* how many edits, failed calls, resyncs, restarts, handovers, and
                \* how many of them all
  None

Chance == {"edit", "fault", "resync", "restart", "handover"}
Count == Chance \cup {"all"}
Spec0 == [Kind -> Content]

ASSUME OperatorAssumption ==
  /\ Start \subseteq Spec0
  /\ ListOrder \in Seq(Kind)
  /\ \A k \in Kind : \E i \in 1..Len(ListOrder) : ListOrder[i] = k
  /\ StatusRank \in [Kind -> Nat]
  /\ HashedKind \subseteq Kind
  /\ LeaderElect \in BOOLEAN
  /\ Bound \in [Count -> Nat]
  /\ \A s \in Spec0 : Blamed(s) \subseteq Kind
  /\ "ConfigMap" \notin Kind

VARIABLES
  object,     \* API server: per kind, spec, metadata.generation and status
  configMap,  \* API server: the snapshot in the fallback ConfigMap, or None
  pc,         \* per replica: where the loop stands
  cursor,     \* per replica: the next position of ListOrder to list
  listed,     \* per replica: the objects of this round (reconcile::Compiled)
  writes,     \* per replica: API writes this round still has to make
  pending,    \* per replica: the kinds with an undelivered watch event
  sent,       \* per replica: the snapshot in the gRPC watch channel (and sent_hash)
  published,  \* per replica: the snapshot behind cm_hash, or None
  owed,       \* history, per replica: the writes that no round has judged since
              \* they failed, or since the replica came to lead
  displaced,  \* history, per replica: has the ConfigMap been written since it
              \* published, by another or by a call whose answer was lost?
  left        \* what is left of Bound

cluster == <<object, configMap>>
process == <<pc, cursor, listed, writes, pending, sent, published>>
vars == <<object, configMap, leading, pc, cursor, listed, writes, pending, sent,
          published, owed, displaced, left>>

----------------------------------------------------------------------------
(* Data *)

Status == [ready : {"Unset", "True", "False"}, observed : Nat, hash : Spec0 \cup {None}]
Object == [spec : Content, gen : Nat \ {0}, status : Status]

(* A snapshot is known by its digest.  `from` remembers the generations it *)
(* was compiled from; the code has no such field and no guard reads it.    *)
Snapshot == [hash : Spec0, from : [Kind -> Nat \ {0}]]

Unlisted == [k \in Kind |-> None]

Write == Kind \cup {"ConfigMap"}

ASSUME NoneAssumption ==
  None \notin Object /\ None \notin Snapshot /\ None \notin Spec0

NoStatus == [ready |-> "Unset", observed |-> 0, hash |-> None]

Hash(snapshot) == IF snapshot = None THEN None ELSE snapshot.hash

SpecOf(objs) == [k \in Kind |-> objs[k].spec]
GenOf(objs) == [k \in Kind |-> objs[k].gen]

(* routed_policy::compile as the loop sees it: all or nothing. *)
Compile(objs) ==
  IF Blamed(SpecOf(objs)) = {}
    THEN [hash |-> SpecOf(objs), from |-> GenOf(objs)]
    ELSE None

Desired(objs, k) == IF k \in Blamed(SpecOf(objs)) THEN "False" ELSE "True"

(* A plausible bug: every status is rewritten in every round. *)
NeverUpToDate(objs, k) == FALSE

(* Status writes are skipped when the LISTED status already says what would *)
(* be written.  Reason and message of the condition, which the code compares *)
(* too, follow from the listed specs as the verdict does.                    *)
UpToDate(objs, k) ==
  LET st == objs[k].status IN
  /\ st.observed = objs[k].gen
  /\ st.ready = Desired(objs, k)
  /\ (k \in HashedKind /\ Desired(objs, k) = "True") => st.hash = Hash(Compile(objs))

(* The merge patch patch_one sends, applied to whatever is stored by then. *)
Patched(stored, objs, k) ==
  [ready |-> Desired(objs, k),
   observed |-> objs[k].gen,
   hash |-> IF k \in HashedKind /\ Desired(objs, k) = "True"
              THEN Hash(Compile(objs)) ELSE stored.hash]

----------------------------------------------------------------------------
(* Initial state: a cluster with objects nobody has looked at, and replicas *)
(* whose watchers all owe the event of their initial sync.                  *)

Init ==
  /\ \E s \in Start :
       object = [k \in Kind |-> [spec |-> s[k], gen |-> 1, status |-> NoStatus]]
  /\ configMap = None
  /\ leading = [r \in Replica |-> ~LeaderElect]
  /\ pc = [r \in Replica |-> "list"]
  /\ cursor = [r \in Replica |-> 1]
  /\ listed = [r \in Replica |-> Unlisted]
  /\ writes = [r \in Replica |-> {}]
  /\ pending = [r \in Replica |-> Kind]
  /\ sent = [r \in Replica |-> None]
  /\ published = [r \in Replica |-> None]
  /\ owed = [r \in Replica |-> {}]
  /\ displaced = [r \in Replica |-> FALSE]
  /\ left = Bound

Spend(c) ==
  /\ left[c] > 0
  /\ left["all"] > 0
  /\ left' = [left EXCEPT ![c] = @ - 1, !["all"] = @ - 1]

Notify(k) == pending' = [r \in Replica |-> pending[r] \cup {k}]

----------------------------------------------------------------------------
(* The API server's other clients *)

Edit(k) ==
  /\ Spend("edit")
  /\ \E c \in Content \ {object[k].spec} :
       object' = [object EXCEPT ![k] =
                    [spec |-> c, gen |-> @.gen + 1, status |-> @.status]]
  /\ Notify(k)
  /\ UNCHANGED <<configMap, leading, pc, cursor, listed, writes, sent,
                  published, owed, displaced>>

(* A watch that fails is restarted and ends its relist with InitDone. *)
Resync(r, k) ==
  /\ Spend("resync")
  /\ pending' = [pending EXCEPT ![r] = @ \cup {k}]
  /\ UNCHANGED <<cluster, leading, pc, cursor, listed, writes, sent,
                  published, owed, displaced>>

----------------------------------------------------------------------------
(* One round of the loop *)

ListKind(r) ==
  /\ pc[r] = "list"
  /\ cursor[r] <= Len(ListOrder)
  /\ LET k == ListOrder[cursor[r]] IN
       listed' = [listed EXCEPT ![r][k] = object[k]]
  /\ cursor' = [cursor EXCEPT ![r] = @ + 1]
  /\ UNCHANGED <<cluster, leading, pc, writes, pending, sent,
                  published, owed, displaced, left>>

(* A failed list abandons the round, which starts again after five seconds. *)
ListFails(r) ==
  /\ Spend("fault")
  /\ pc[r] = "list"
  /\ cursor[r] <= Len(ListOrder)
  /\ cursor' = [cursor EXCEPT ![r] = 1]
  /\ listed' = [listed EXCEPT ![r] = Unlisted]
  /\ UNCHANGED <<cluster, leading, pc, writes, pending, sent,
                  published, owed, displaced>>

(* Go on with the writes still to be made; with none left the round is over *)
(* and what it listed is dropped.                                           *)
GoOn(r, ws) ==
  /\ writes' = [writes EXCEPT ![r] = ws]
  /\ pc' = [pc EXCEPT ![r] = IF ws = {} THEN "wait" ELSE "write"]
  /\ cursor' = IF ws = {} THEN [cursor EXCEPT ![r] = 1] ELSE cursor
  /\ listed' = IF ws = {} THEN [listed EXCEPT ![r] = Unlisted] ELSE listed

(* What a leader has to write: the statuses that are not up to date, and the *)
(* ConfigMap when this replica last published something else.                *)
RoundWrites(objs, cm) ==
  {k \in Kind : ~UpToDate(objs, k)}
    \cup IF Compile(objs) # None /\ Hash(Compile(objs)) # Hash(cm)
           THEN {"ConfigMap"} ELSE {}

(* Statuses are written in the order of StatusRank, the ConfigMap last. *)
FirstWrite(ws, w) ==
  /\ w \in ws
  /\ IF w = "ConfigMap" THEN ws = {"ConfigMap"}
     ELSE \A j \in ws \ {"ConfigMap"} : StatusRank[w] <= StatusRank[j]

(* A leader's round finds out what is undone. *)
JudgesAgain(r) ==
  owed' = IF leading[r] THEN [owed EXCEPT ![r] = {}] ELSE owed

(* A plausible bug: the snapshot is sent in spite of the report's errors. *)
CompileAndSendRejected(r) ==
  /\ pc[r] = "list"
  /\ cursor[r] > Len(ListOrder)
  /\ sent' = [sent EXCEPT ![r] = [hash |-> SpecOf(listed[r]), from |-> GenOf(listed[r])]]
  /\ GoOn(r, IF leading[r] THEN RoundWrites(listed[r], published[r]) ELSE {})
  /\ JudgesAgain(r)
  /\ UNCHANGED <<cluster, leading, pending, published, displaced, left>>

(* A plausible bug: a compile that fails empties the channel. *)
CompileAndSendAlways(r) ==
  /\ pc[r] = "list"
  /\ cursor[r] > Len(ListOrder)
  /\ sent' = [sent EXCEPT ![r] = Compile(listed[r])]
  /\ GoOn(r, IF leading[r] THEN RoundWrites(listed[r], published[r]) ELSE {})
  /\ JudgesAgain(r)
  /\ UNCHANGED <<cluster, leading, pending, published, displaced, left>>

(* A plausible bug: only the leader feeds its channel. *)
CompileAndSendLeading(r) ==
  /\ pc[r] = "list"
  /\ cursor[r] > Len(ListOrder)
  /\ LET s  == Compile(listed[r])
         ws == IF leading[r] THEN RoundWrites(listed[r], published[r]) ELSE {}
     IN /\ sent' = IF leading[r] /\ s # None /\ Hash(s) # Hash(sent[r])
                     THEN [sent EXCEPT ![r] = s] ELSE sent
        /\ GoOn(r, ws)
  /\ JudgesAgain(r)
  /\ UNCHANGED <<cluster, leading, pending, published, displaced, left>>

(* From the last list to the first write nothing is awaited. The leader flag *)
(* is read once for the round.                                               *)
CompileAndSend(r) ==
  /\ pc[r] = "list"
  /\ cursor[r] > Len(ListOrder)
  /\ LET s  == Compile(listed[r])
         ws == IF leading[r] THEN RoundWrites(listed[r], published[r]) ELSE {}
     IN /\ sent' = IF s # None /\ Hash(s) # Hash(sent[r])
                     THEN [sent EXCEPT ![r] = s] ELSE sent
        /\ GoOn(r, ws)
  /\ JudgesAgain(r)
  /\ UNCHANGED <<cluster, leading, pending, published, displaced, left>>

(* What a call does to the cluster. *)
PatchLands(r, k) ==
  /\ object' = [object EXCEPT ![k].status = Patched(@, listed[r], k)]
  /\ Notify(k)
  /\ UNCHANGED configMap

PublishLands(r) ==
  /\ configMap' = Compile(listed[r])
  /\ UNCHANGED <<object, pending>>

PatchStatus(r, k) ==
  /\ pc[r] = "write"
  /\ FirstWrite(writes[r], k)
  /\ PatchLands(r, k)
  /\ GoOn(r, writes[r] \ {k})
  /\ UNCHANGED <<leading, sent, published, owed, displaced, left>>

PublishConfigMap(r) ==
  /\ pc[r] = "write"
  /\ FirstWrite(writes[r], "ConfigMap")
  /\ PublishLands(r)
  /\ published' = [published EXCEPT ![r] = Compile(listed[r])]
  /\ displaced' = [s \in Replica |-> s # r]
  /\ GoOn(r, {})
  /\ UNCHANGED <<leading, sent, owed, left>>

(* A plausible bug: cm_hash is set before the call. *)
WriteFailsRemembered(r, w) ==
  /\ Spend("fault")
  /\ pc[r] = "write"
  /\ FirstWrite(writes[r], w)
  /\ published' = IF w = "ConfigMap" THEN [published EXCEPT ![r] = Compile(listed[r])]
                  ELSE published
  /\ GoOn(r, writes[r] \ {w})
  /\ owed' = [owed EXCEPT ![r] = @ \cup {w}]
  /\ UNCHANGED <<cluster, leading, pending, sent, displaced>>

(* A failed patch or publish is logged, and the round goes on: the call may *)
(* have failed before it did anything ...                                   *)
WriteFails(r, w) ==
  /\ Spend("fault")
  /\ pc[r] = "write"
  /\ FirstWrite(writes[r], w)
  /\ GoOn(r, writes[r] \ {w})
  /\ owed' = [owed EXCEPT ![r] = @ \cup {w}]
  /\ UNCHANGED <<cluster, leading, pending, sent, published, displaced>>

(* ... or it has taken effect and its answer is lost. *)
AnswerLost(r, w) ==
  /\ Spend("fault")
  /\ pc[r] = "write"
  /\ FirstWrite(writes[r], w)
  /\ IF w = "ConfigMap"
       THEN PublishLands(r) /\ displaced' = [s \in Replica |-> TRUE]
       ELSE PatchLands(r, w) /\ UNCHANGED displaced
  /\ GoOn(r, writes[r] \ {w})
  /\ owed' = [owed EXCEPT ![r] = @ \cup {w}]
  /\ UNCHANGED <<leading, sent, published>>

(* The watch streams are independent: the events of some kinds may still be *)
(* under way when the debounce window closes.                               *)
Wake(r) ==
  /\ pc[r] = "wait"
  /\ \E arrived \in SUBSET pending[r] \ {{}} :
       pending' = [pending EXCEPT ![r] = @ \ arrived]
  /\ pc' = [pc EXCEPT ![r] = "list"]
  /\ UNCHANGED <<cluster, leading, cursor, listed, writes, sent,
                  published, owed, displaced, left>>

----------------------------------------------------------------------------
(* The leader flag, set by the election task (see Lease), and restarts *)

SetLeading(r) ==
  /\ LeaderElect
  /\ Spend("handover")
  /\ leading' = [leading EXCEPT ![r] = ~@]
  /\ owed' = [owed EXCEPT ![r] = IF leading[r] THEN @ ELSE Write]
  /\ UNCHANGED <<cluster, process, displaced>>

Restart(r) ==
  /\ Spend("restart")
  /\ leading' = [leading EXCEPT ![r] = ~LeaderElect]
  /\ pc' = [pc EXCEPT ![r] = "list"]
  /\ cursor' = [cursor EXCEPT ![r] = 1]
  /\ listed' = [listed EXCEPT ![r] = Unlisted]
  /\ writes' = [writes EXCEPT ![r] = {}]
  /\ pending' = [pending EXCEPT ![r] = Kind]
  /\ sent' = [sent EXCEPT ![r] = None]
  /\ published' = [published EXCEPT ![r] = None]
  /\ owed' = [owed EXCEPT ![r] = {}]
  /\ UNCHANGED <<cluster, displaced>>

Loop(r) ==
  \/ ListKind(r)
  \/ CompileAndSend(r)
  \/ \E k \in Kind : PatchStatus(r, k)
  \/ PublishConfigMap(r)
  \/ Wake(r)

Next ==
  \/ \E k \in Kind : Edit(k)
  \/ \E r \in Replica, k \in Kind : Resync(r, k)
  \/ \E r \in Replica :
       \/ Loop(r)
       \/ ListFails(r)
       \/ \E w \in Write : WriteFails(r, w) \/ AnswerLost(r, w)
       \/ SetLeading(r)
       \/ Restart(r)

Spec == Init /\ [][Next]_vars

(* The runtime keeps polling the loop of a live replica, calls return, and *)
(* the API server delivers the events it owes.                             *)
FairSpec == Spec /\ \A r \in Replica : WF_vars(Loop(r))

----------------------------------------------------------------------------
(* Properties *)

TypeOK ==
  /\ object \in [Kind -> Object]
  /\ configMap \in Snapshot \cup {None}
  /\ leading \in [Replica -> BOOLEAN]
  /\ pc \in [Replica -> {"list", "write", "wait"}]
  /\ cursor \in [Replica -> 1..(Len(ListOrder) + 1)]
  /\ listed \in [Replica -> [Kind -> Object \cup {None}]]
  /\ writes \in [Replica -> SUBSET Write]
  /\ pending \in [Replica -> SUBSET Kind]
  /\ sent \in [Replica -> Snapshot \cup {None}]
  /\ published \in [Replica -> Snapshot \cup {None}]
  /\ owed \in [Replica -> SUBSET Write]
  /\ displaced \in [Replica -> BOOLEAN]
  /\ left \in [Count -> Nat]

Current == SpecOf(object)
Valid == Blamed(Current) = {}
Serves(snapshot) == Hash(snapshot) = Current

(* A replica asleep with no event on its way has the cluster's configuration *)
(* in its channel, whenever that compiles: no edit slips between the four    *)
(* lists, the debounce and the next wait (main.rs 197-275).                  *)
NoLostUpdate ==
  \A r \in Replica :
    (pc[r] = "wait" /\ pending[r] = {} /\ Valid) => Serves(sent[r])

Older(s, t) == \E k \in Kind : s.from[k] < t.from[k]

(* A live replica never takes a snapshot out of its channel, whatever fails  *)
(* to compile, and never replaces it by one that read any kind at an earlier *)
(* generation, although one round may mix generations (reconcile.rs 91-129). *)
ChannelMovesForward ==
  [][\A r \in Replica :
       sent[r] # None =>
         \/ Restart(r)
         \/ sent'[r] # None /\ ~Older(sent'[r], sent[r])]_vars

(* The loop falls asleep: the events its own status writes echo back do not *)
(* keep it running (status.rs 5-8, "would loop forever").                   *)
Quiesces == <>[](\A r \in Replica : pc[r] = "wait" /\ pending[r] = {})

(* A leader asleep with no event on its way has written what is to be        *)
(* written: the verdict on every object's current generation, the digest of  *)
(* the configuration in the policies and, if it compiles, the fallback       *)
(* ConfigMap.  That is so whatever else was written in between by another    *)
(* leader, and however calls failed, as the next round judges all again      *)
(* (main.rs 222-243, status.rs patch_one).  Excepted are what no round has   *)
(* judged since it failed or since the replica came to lead, and a ConfigMap *)
(* that another leader, or a call whose answer was lost, has written since   *)
(* this one published: it goes by what it remembers (cm_hash).               *)
SettlesOnTheCluster ==
  \A r \in Replica :
    (pc[r] = "wait" /\ pending[r] = {} /\ leading[r] /\ owed[r] = {}) =>
      /\ \A k \in Kind : UpToDate(object, k)
      /\ (Valid /\ ~displaced[r]) => Serves(configMap)

(* What main.rs 192-193 says of a leader, "a replica can become leader after *)
(* the snapshot changed and must still publish": whoever leads in the end,   *)
(* the ConfigMap is the configuration.  False of the code: becoming leader   *)
(* starts no round, and cm_hash may name what another leader has replaced.   *)
TakeoverPublishes ==
  <>[]((Valid /\ \E r \in Replica : leading[r]) => Serves(configMap))

(* What the watchers are promised.  Whatever the lists, compiles, writes and *)
(* restarts do, the channels behave like the slots of SnapshotFeed.          *)
Feed == INSTANCE SnapshotFeed WITH
          Digest <- Spec0,
          Gen <- 1..(1 + Bound["edit"]),
          latest <- [hash |-> IF Valid THEN Current ELSE None, from |-> GenOf(object)],
          channel <- sent

ImplementsFeed == Feed!FeedSpec
=============================================================================

---------------------------- MODULE Distribution ----------------------------
(***************************************************************************)
(* Routers that take their snapshots from the operator over gRPC:          *)
(* cmd/routed/src/snapshot_source.rs GrpcSource, the SnapshotHolder it     *)
(* stores into (crates/snapshot), and on the operator's side the Watch     *)
(* handler of grpc.rs over the channels of SnapshotFeed.                   *)
(*                                                                         *)
(* A stream carries the channel's value at the connect, then the values it *)
(* has when the stream is polled: values replaced in between are skipped.  *)
(* A router whose stream ends reconnects after two seconds, to whichever   *)
(* replica the Service picks.                                              *)
(***************************************************************************)
EXTENDS SnapshotFeed, Sequences

CONSTANTS
  Router,      \* router processes
  Unreadable,  \* digests of the snapshots this router's version cannot parse
  Window,      \* bound on the chunks buffered in a stream
  Bound        \* how many replica restarts, broken streams, router restarts

Chance == {"replica", "stream", "router"}

ASSUME DistributionAssumption ==
  /\ Gen \subseteq Nat
  /\ None \notin Snapshot
  /\ Unreadable \subseteq Digest
  /\ Window \in Nat \ {0}
  /\ Bound \in [Chance -> Nat]

VARIABLES
  conn,        \* per router: the replica its stream comes from, or None
  attached,    \* per router: whether that replica still feeds the stream
  seen,        \* per router: what the stream last took from the channel, or None
  flight,      \* per router: the chunks under way
  current,     \* per router: SnapshotHolder::current, or None
  previous,    \* per router: SnapshotHolder::previous, or None
  left         \* what is left of Bound

stream == <<conn, attached, seen, flight>>
holder == <<current, previous>>
vars == <<feed, stream, holder, left>>

Init ==
  /\ FeedInit
  /\ conn = [x \in Router |-> None]
  /\ attached = [x \in Router |-> FALSE]
  /\ seen = [x \in Router |-> None]
  /\ flight = [x \in Router |-> <<>>]
  /\ current = [x \in Router |-> None]
  /\ previous = [x \in Router |-> None]
  /\ left = Bound

Spend(c) ==
  /\ left[c] > 0
  /\ left' = [left EXCEPT ![c] = @ - 1]

Prefixes(q) == {SubSeq(q, 1, n) : n \in 0..Len(q)}

----------------------------------------------------------------------------
(* The operator's side *)

(* Every edit raises a generation; the configuration may return to a digest. *)
Edit ==
  /\ \E c \in Configuration \ {latest} :
       c.from # latest.from /\ Change(c)
  /\ UNCHANGED <<stream, holder, left>>

Compile(r) ==
  /\ \E s \in Snapshot :
       /\ Offer(r, s)
       /\ channel[r] # None => s.hash # channel[r].hash
  /\ UNCHANGED <<stream, holder, left>>

(* The loop of a live replica catches up (Operator's Quiesces and NoLostUpdate). *)
CatchUp(r) ==
  /\ latest.hash # None
  /\ channel[r] # None => channel[r].hash # latest.hash
  /\ Offer(r, latest)
  /\ UNCHANGED <<stream, holder, left>>

(* A replica restarts: its streams end after what is already on the wire. *)
RestartReplica(r) ==
  /\ Spend("replica")
  /\ Forget(r)
  /\ attached' = [x \in Router |-> attached[x] /\ conn[x] # r]
  /\ UNCHANGED <<conn, seen, flight, holder>>

(* A plausible bug: the stream does not start with the current value. *)
ConnectToChanges(x) ==
  /\ conn[x] = None
  /\ \E r \in Replica :
       /\ conn' = [conn EXCEPT ![x] = r]
       /\ seen' = [seen EXCEPT ![x] = channel[r]]
  /\ attached' = [attached EXCEPT ![x] = TRUE]
  /\ flight' = [flight EXCEPT ![x] = <<>>]
  /\ UNCHANGED <<feed, holder, left>>

(* connect() and watch(): the new receiver has seen nothing yet. *)
Connect(x) ==
  /\ conn[x] = None
  /\ \E r \in Replica : conn' = [conn EXCEPT ![x] = r]
  /\ attached' = [attached EXCEPT ![x] = TRUE]
  /\ seen' = [seen EXCEPT ![x] = None]
  /\ flight' = [flight EXCEPT ![x] = <<>>]
  /\ UNCHANGED <<feed, holder, left>>

(* The server polls the WatchStream: an empty channel yields no chunk. *)
Push(x) ==
  /\ attached[x]
  /\ channel[conn[x]] \notin {None, seen[x]}
  /\ Len(flight[x]) < Window
  /\ seen' = [seen EXCEPT ![x] = channel[conn[x]]]
  /\ flight' = [flight EXCEPT ![x] = Append(@, channel[conn[x]])]
  /\ UNCHANGED <<feed, conn, attached, holder, left>>

(* The connection breaks: a tail of what is on the wire is lost. *)
Break(x) ==
  /\ Spend("stream")
  /\ attached[x]
  /\ attached' = [attached EXCEPT ![x] = FALSE]
  /\ \E q \in Prefixes(flight[x]) : flight' = [flight EXCEPT ![x] = q]
  /\ UNCHANGED <<feed, conn, seen, holder>>

----------------------------------------------------------------------------
(* The router's side *)

Same(x, s) == current[x] # None /\ current[x].hash = s.hash

Store(x, s) ==
  /\ current' = [current EXCEPT ![x] = s]
  /\ previous' = [previous EXCEPT ![x] = current[x]]

(* A plausible bug: a chunk seen before the last swap is taken for a repeat. *)
ReceiveNew(x) ==
  /\ flight[x] # <<>>
  /\ flight' = [flight EXCEPT ![x] = Tail(@)]
  /\ LET s == Head(flight[x]) IN
       IF s.hash \in Unreadable \/ Same(x, s)
            \/ (previous[x] # None /\ previous[x].hash = s.hash)
         THEN UNCHANGED holder ELSE Store(x, s)
  /\ UNCHANGED <<feed, conn, attached, seen, left>>

(* A chunk that does not parse is ignored, one with the current digest too. *)
Receive(x) ==
  /\ flight[x] # <<>>
  /\ flight' = [flight EXCEPT ![x] = Tail(@)]
  /\ LET s == Head(flight[x]) IN
       IF s.hash \in Unreadable \/ Same(x, s) THEN UNCHANGED holder ELSE Store(x, s)
  /\ UNCHANGED <<feed, conn, attached, seen, left>>

(* The stream is over: watch_once returns and the loop sleeps. *)
StreamEnds(x) ==
  /\ conn[x] # None
  /\ ~attached[x]
  /\ flight[x] = <<>>
  /\ conn' = [conn EXCEPT ![x] = None]
  /\ seen' = [seen EXCEPT ![x] = None]
  /\ UNCHANGED <<feed, attached, flight, holder, left>>

RestartRouter(x) ==
  /\ Spend("router")
  /\ conn' = [conn EXCEPT ![x] = None]
  /\ attached' = [attached EXCEPT ![x] = FALSE]
  /\ seen' = [seen EXCEPT ![x] = None]
  /\ flight' = [flight EXCEPT ![x] = <<>>]
  /\ current' = [current EXCEPT ![x] = None]
  /\ previous' = [previous EXCEPT ![x] = None]
  /\ UNCHANGED feed

Watch(x) == Connect(x) \/ Receive(x) \/ StreamEnds(x)

Next ==
  \/ Edit
  \/ \E r \in Replica : Compile(r) \/ CatchUp(r) \/ RestartReplica(r)
  \/ \E x \in Router :
       Push(x) \/ Break(x) \/ Watch(x) \/ RestartRouter(x)

Spec == Init /\ [][Next]_vars

(* Replicas catch up, the runtimes of both sides poll their tasks. *)
FairSpec ==
  /\ Spec
  /\ \A r \in Replica : WF_vars(CatchUp(r))
  /\ \A x \in Router : WF_vars(Push(x)) /\ WF_vars(Watch(x))

----------------------------------------------------------------------------
(* Properties *)

TypeOK ==
  /\ latest \in Configuration
  /\ channel \in [Replica -> Snapshot \cup {None}]
  /\ conn \in [Router -> Replica \cup {None}]
  /\ attached \in [Router -> BOOLEAN]
  /\ seen \in [Router -> Snapshot \cup {None}]
  /\ flight \in [Router -> Seq(Snapshot)]
  /\ \A x \in Router : Len(flight[x]) <= Window
  /\ current \in [Router -> Snapshot \cup {None}]
  /\ previous \in [Router -> Snapshot \cup {None}]
  /\ left \in [Chance -> Nat]

(* A router that has drained its stream serves the snapshot its replica last *)
(* pushed, whatever it served before it reconnected: no order of reconnects, *)
(* skipped values and repeated digests leaves it with another one.           *)
ServesItsReplica ==
  \A x \in Router :
    (attached[x] /\ flight[x] = <<>> /\ seen[x] # None /\ seen[x].hash \notin Unreadable)
      => current[x] # None /\ current[x].hash = seen[x].hash

(* Once edits stop, every router serves the configuration, however often    *)
(* replicas, streams and routers went down.                                 *)
RoutersConverge ==
  <>[](latest.hash \notin Unreadable \cup {None} =>
         \A x \in Router : current[x] # None /\ current[x].hash = latest.hash)
=============================================================================

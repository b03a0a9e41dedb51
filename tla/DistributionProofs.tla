------------------------- MODULE DistributionProofs -------------------------
(* Proofs about Distribution, for any number of replicas and routers, any   *)
(* window and any number of restarts and broken streams.  The invariant     *)
(* says where the last value taken from the channel is: on the wire, behind *)
(* everything else there, until it is in the holder; a second one says that *)
(* the channel it came from has not gone back since.  The last part is about *)
(* FileSource, the other way a router gets its configuration.               *)
EXTENDS Distribution, FileSource, SequenceTheorems, FiniteSetTheorems,
        WellFoundedInduction, TLAPS

ReplicaKnown(x) == attached[x] => conn[x] \in Replica

(* What the stream last took is either the last chunk on the wire, or it is *)
(* served (or could not be read).                                           *)
LastIsUnderWay(x) ==
  (attached[x] /\ seen[x] # None)
    => IF flight[x] = <<>>
         THEN seen[x].hash \notin Unreadable
                => current[x] # None /\ current[x].hash = seen[x].hash
         ELSE flight[x][Len(flight[x])] = seen[x]

(* The channel of an attached stream never goes back behind what the stream *)
(* took from it: only a restart empties it, and that ends the stream.       *)
NotBehind(x) ==
  (attached[x] /\ seen[x] # None)
    => channel[conn[x]] # None /\ AtMost(seen[x], channel[conn[x]])

IInv ==
  /\ TypeOK
  /\ \A x \in Router : ReplicaKnown(x)
  /\ \A x \in Router : LastIsUnderWay(x)

----------------------------------------------------------------------------
(* Sequences of chunks *)

(* The queue a broken stream leaves is a prefix of what was on the wire. *)
LEMMA PrefixIsQueue ==
  ASSUME NEW S, NEW q \in Seq(S), NEW p \in Prefixes(q)
  PROVE  p \in Seq(S) /\ Len(p) <= Len(q)
<1>1. PICK n \in 0..Len(q) : p = SubSeq(q, 1, n)
  BY DEF Prefixes
<1>2. n \in Nat /\ n <= Len(q) /\ Len(q) \in Nat
  BY <1>1, LenProperties
<1>3. \A i \in 1..n : q[i] \in S
  BY <1>2, ElementOfSeq
<1>4. SubSeq(q, 1, n) \in Seq(S) /\ Len(SubSeq(q, 1, n)) = n
  <2>1. CASE n = 0
    BY <1>2, <2>1, SubSeqProperties
  <2>2. CASE n # 0
    BY <1>2, <2>2, SubSeqProperties
  <2> QED  BY <2>1, <2>2
<1> QED  BY <1>1, <1>2, <1>4

(* Taking the first chunk leaves the last where it was, if others remain. *)
LEMMA TailKeepsTheLast ==
  ASSUME NEW S, NEW q \in Seq(S), q # <<>>
  PROVE  /\ Tail(q) \in Seq(S)
         /\ Len(Tail(q)) = Len(q) - 1
         /\ Len(q) \in Nat \ {0}
         /\ Head(q) \in S
         /\ Tail(q) = <<>> => Head(q) = q[Len(q)]
         /\ Tail(q) # <<>> => Tail(q)[Len(Tail(q))] = q[Len(q)]
<1>1. /\ Len(q) \in Nat \ {0}
      /\ Tail(q) \in Seq(S)
      /\ Len(Tail(q)) = Len(q) - 1
      /\ \A i \in 1..Len(Tail(q)) : Tail(q)[i] = q[i + 1]
      /\ Head(q) = q[1]
      /\ Head(q) \in S
  BY HeadTailProperties, EmptySeq
<1>2. Tail(q) = <<>> <=> Len(Tail(q)) = 0
  BY <1>1, EmptySeq
<1> QED  BY <1>1, <1>2

(* A chunk put on the wire is the last one there. *)
LEMMA AppendIsLast ==
  ASSUME NEW S, NEW q \in Seq(S), NEW s \in S
  PROVE  /\ Append(q, s) \in Seq(S)
         /\ Len(Append(q, s)) = Len(q) + 1
         /\ Append(q, s) # <<>>
         /\ Append(q, s)[Len(Append(q, s))] = s
<1>1. Len(q) \in Nat
  BY LenProperties
<1>2. Append(q, s) \in Seq(S) /\ Len(Append(q, s)) = Len(q) + 1
      /\ Append(q, s)[Len(q) + 1] = s
  BY <1>1, AppendProperties
<1> QED  BY <1>1, <1>2, EmptySeq

----------------------------------------------------------------------------
(* Types *)

USE DistributionAssumption

(* Every variable starts in its type. *)
LEMMA InitTypes == Init => TypeOK
<1> SUFFICES ASSUME Init PROVE TypeOK
  OBVIOUS
<1>1. <<>> \in Seq(Snapshot) /\ Len(<<>>) <= Window
  BY EmptySeq
<1>2. flight \in [Router -> Seq(Snapshot)] /\ \A x \in Router : Len(flight[x]) <= Window
  BY <1>1 DEF Init
<1> QED  BY <1>2 DEF Init, FeedInit, TypeOK

(* The operator's steps keep the types: only the feed and attached change. *)
LEMMA OperatorTypes ==
  ASSUME TypeOK,
         Edit \/ \E r \in Replica : Compile(r) \/ CatchUp(r) \/ RestartReplica(r)
  PROVE  TypeOK'
<1>1. CASE Edit
  BY <1>1 DEF Edit, Change, stream, holder, TypeOK
<1>2. ASSUME NEW r \in Replica, Compile(r)
      PROVE  TypeOK'
  BY <1>2 DEF Compile, Offer, stream, holder, TypeOK
<1>3. ASSUME NEW r \in Replica, CatchUp(r)
      PROVE  TypeOK'
  BY <1>3 DEF CatchUp, Offer, stream, holder, TypeOK
<1>4. ASSUME NEW r \in Replica, RestartReplica(r)
      PROVE  TypeOK'
  <2>1. left' \in [Chance -> Nat]
    BY <1>4 DEF RestartReplica, Spend, TypeOK, Chance
  <2>2. attached' \in [Router -> BOOLEAN]
    BY <1>4 DEF RestartReplica, TypeOK
  <2> QED  BY <1>4, <2>1, <2>2 DEF RestartReplica, Forget, holder, TypeOK
<1> QED  BY <1>1, <1>2, <1>3, <1>4

(* The stream's steps keep the types: the window bounds what is on the wire. *)
LEMMA StreamTypes ==
  ASSUME TypeOK, NEW x \in Router, ReplicaKnown(x),
         Push(x) \/ Break(x) \/ Connect(x) \/ StreamEnds(x) \/ RestartRouter(x)
  PROVE  TypeOK'
<1>0. \A q \in {<<>>} : q \in Seq(Snapshot) /\ Len(q) <= Window
  BY EmptySeq
<1>1. CASE Push(x)
  <2>1. channel[conn[x]] \in Snapshot
    BY <1>1 DEF Push, ReplicaKnown, TypeOK
  <2> DEFINE q == Append(flight[x], channel[conn[x]])
  <2>2. q \in Seq(Snapshot) /\ Len(q) = Len(flight[x]) + 1
    BY <2>1, AppendIsLast DEF TypeOK
  <2>3. Len(flight[x]) \in Nat
    BY LenProperties DEF TypeOK
  <2>4. Len(q) <= Window
    BY <1>1, <2>2, <2>3 DEF Push
  <2>5. flight' = [flight EXCEPT ![x] = q]
    BY <1>1 DEF Push
  <2> HIDE DEF q
  <2>6. \A y \in Router : flight'[y] \in {flight[y], q}
    BY <2>5
  <2> QED  BY <1>1, <2>1, <2>2, <2>4, <2>6 DEF Push, feed, holder, TypeOK
<1>2. CASE Break(x)
  <2>1. PICK q \in Prefixes(flight[x]) : flight' = [flight EXCEPT ![x] = q]
    BY <1>2 DEF Break
  <2>2. q \in Seq(Snapshot) /\ Len(q) <= Len(flight[x])
    BY <2>1, PrefixIsQueue DEF TypeOK
  <2>3. Len(q) <= Window
    BY <2>2, LenProperties DEF TypeOK
  <2>4. left' \in [Chance -> Nat]
    BY <1>2 DEF Break, Spend, TypeOK, Chance
  <2> QED  BY <1>2, <2>1, <2>2, <2>3, <2>4 DEF Break, feed, holder, TypeOK
<1>3. CASE Connect(x)
  BY <1>0, <1>3 DEF Connect, feed, holder, TypeOK
<1>4. CASE StreamEnds(x)
  BY <1>4 DEF StreamEnds, feed, holder, TypeOK
<1>5. CASE RestartRouter(x)
  <2>1. left' \in [Chance -> Nat]
    BY <1>5 DEF RestartRouter, Spend, TypeOK, Chance
  <2> QED  BY <1>0, <1>5, <2>1 DEF RestartRouter, feed, TypeOK
<1> QED  BY <1>1, <1>2, <1>3, <1>4, <1>5

(* So does a chunk's arrival. *)
LEMMA ReceiveTypes ==
  ASSUME TypeOK, NEW x \in Router, Receive(x)
  PROVE  TypeOK'
<1> DEFINE s == Head(flight[x])
           q == Tail(flight[x])
<1>1. s \in Snapshot /\ q \in Seq(Snapshot) /\ Len(q) = Len(flight[x]) - 1
      /\ Len(flight[x]) \in Nat
  BY TailKeepsTheLast DEF Receive, TypeOK
<1>2. Len(q) <= Window
  BY <1>1 DEF TypeOK
<1>3. flight' = [flight EXCEPT ![x] = q]
  BY DEF Receive
<1>4. UNCHANGED holder \/ Store(x, s)
  BY DEF Receive
<1> HIDE DEF s, q
<1>5. /\ current' \in [Router -> Snapshot \cup {None}]
      /\ previous' \in [Router -> Snapshot \cup {None}]
  BY <1>1, <1>4 DEF holder, Store, TypeOK
<1>6. \A y \in Router : flight'[y] \in {flight[y], q}
  BY <1>3
<1> QED  BY <1>1, <1>2, <1>5, <1>6 DEF Receive, feed, TypeOK

----------------------------------------------------------------------------
(* Where the last value is *)

(* The steps of the operator leave every stream they do not end as it is. *)
LEMMA OperatorLast ==
  ASSUME IInv,
         Edit \/ \E r \in Replica : Compile(r) \/ CatchUp(r) \/ RestartReplica(r),
         NEW y \in Router
  PROVE  ReplicaKnown(y)' /\ LastIsUnderWay(y)'
<1>1. UNCHANGED <<conn, seen, flight, current>> /\ (attached'[y] => attached[y])
  BY DEF Edit, Compile, CatchUp, RestartReplica, stream, holder
<1> QED  BY <1>1 DEF IInv, ReplicaKnown, LastIsUnderWay

(* A router's steps keep its own last value on its way. *)
LEMMA RouterLast ==
  ASSUME IInv, NEW x \in Router,
         Push(x) \/ Break(x) \/ Connect(x) \/ StreamEnds(x) \/ RestartRouter(x)
  PROVE  ReplicaKnown(x)' /\ LastIsUnderWay(x)'
<1>0. TypeOK /\ ReplicaKnown(x) /\ LastIsUnderWay(x)
  BY DEF IInv
<1>1. CASE Push(x)
  <2>1. channel[conn[x]] \in Snapshot
    BY <1>0, <1>1 DEF Push, ReplicaKnown, TypeOK
  <2> DEFINE q == Append(flight[x], channel[conn[x]])
  <2>2. q # <<>> /\ q[Len(q)] = channel[conn[x]]
    <3>1. flight[x] \in Seq(Snapshot)
      BY <1>0 DEF TypeOK
    <3> QED  BY <2>1, <3>1, AppendIsLast
  <2>3. flight' = [flight EXCEPT ![x] = q]
    BY <1>1 DEF Push
  <2> HIDE DEF q
  <2>5. flight'[x] = q /\ seen'[x] = channel[conn[x]]
    BY <1>0, <1>1, <2>3 DEF Push, TypeOK
  <2> QED  BY <1>0, <1>1, <2>2, <2>5 DEF Push, ReplicaKnown, LastIsUnderWay
<1>2. CASE Break(x)
  BY <1>0, <1>2 DEF Break, ReplicaKnown, LastIsUnderWay, TypeOK
<1>3. CASE Connect(x)
  BY <1>0, <1>3 DEF Connect, ReplicaKnown, LastIsUnderWay, TypeOK
<1>4. CASE StreamEnds(x)
  BY <1>0, <1>4 DEF StreamEnds, ReplicaKnown, LastIsUnderWay, TypeOK
<1>5. CASE RestartRouter(x)
  BY <1>0, <1>5 DEF RestartRouter, ReplicaKnown, LastIsUnderWay, TypeOK
<1> QED  BY <1>1, <1>2, <1>3, <1>4, <1>5

(* So does the arrival of a chunk: the last one on the wire is stored, has  *)
(* the digest the holder already serves, or cannot be read.                 *)
LEMMA ReceiveLast ==
  ASSUME IInv, NEW x \in Router, Receive(x)
  PROVE  ReplicaKnown(x)' /\ LastIsUnderWay(x)'
<1> DEFINE s == Head(flight[x])
           q == Tail(flight[x])
<1>0. TypeOK /\ ReplicaKnown(x) /\ LastIsUnderWay(x)
  BY DEF IInv
<1>1. /\ q = <<>> => s = flight[x][Len(flight[x])]
      /\ q # <<>> => q[Len(q)] = flight[x][Len(flight[x])]
  BY <1>0, TailKeepsTheLast DEF Receive, TypeOK
<1>2. flight'[x] = q /\ flight[x] # <<>> /\ UNCHANGED <<conn, attached, seen>>
  BY <1>0 DEF Receive, TypeOK
<1>3. s.hash \notin Unreadable
        => \/ current'[x] # None /\ current'[x].hash = s.hash
           \/ current'[x] = s
  BY <1>0 DEF Receive, Same, Store, holder, TypeOK
<1> HIDE DEF s, q
<1>4. ReplicaKnown(x)'
  BY <1>0, <1>2 DEF ReplicaKnown
<1>5. CASE attached[x] /\ seen[x] # None
  <2>1. flight[x][Len(flight[x])] = seen[x]
    BY <1>0, <1>2, <1>5 DEF LastIsUnderWay
  <2>2. CASE q = <<>>
    <3>1. s = seen[x]
      BY <1>1, <2>1, <2>2
    <3>2. s.hash \notin Unreadable => current'[x] # None /\ current'[x].hash = s.hash
      BY <1>3, <1>5, <3>1
    <3> QED  BY <1>2, <1>4, <2>2, <3>1, <3>2 DEF LastIsUnderWay
  <2>3. CASE q # <<>>
    <3>1. q[Len(q)] = seen[x]
      BY <1>1, <2>1, <2>3
    <3> QED  BY <1>2, <1>4, <2>3, <3>1 DEF LastIsUnderWay
  <2> QED  BY <1>4, <2>2, <2>3
<1> QED  BY <1>2, <1>4, <1>5 DEF LastIsUnderWay

(* No step of a router touches another one. *)
LEMMA OthersKeepTheirs ==
  ASSUME IInv, NEW x \in Router, NEW y \in Router, y # x,
         Push(x) \/ Break(x) \/ Watch(x) \/ RestartRouter(x)
  PROVE  ReplicaKnown(y)' /\ LastIsUnderWay(y)'
<1>1. /\ conn'[y] = conn[y] /\ attached'[y] = attached[y] /\ seen'[y] = seen[y]
      /\ flight'[y] = flight[y] /\ current'[y] = current[y]
  <2>1. CASE Push(x)
    BY <2>1 DEF Push, holder, IInv, TypeOK
  <2>2. CASE Break(x)
    BY <2>2 DEF Break, holder, IInv, TypeOK
  <2>3. CASE Connect(x)
    BY <2>3 DEF Connect, holder, IInv, TypeOK
  <2>4. CASE Receive(x)
    BY <2>4 DEF Receive, Store, holder, IInv, TypeOK
  <2>5. CASE StreamEnds(x)
    BY <2>5 DEF StreamEnds, holder, IInv, TypeOK
  <2>6. CASE RestartRouter(x)
    BY <2>6 DEF RestartRouter, IInv, TypeOK
  <2> QED  BY <2>1, <2>2, <2>3, <2>4, <2>5, <2>6 DEF Watch
<1> QED  BY <1>1 DEF IInv, ReplicaKnown, LastIsUnderWay

----------------------------------------------------------------------------
(* The order of what a stream carries *)

(* Generations only rise. *)
LEMMA AtMostComposes ==
  ASSUME NEW s \in Snapshot, NEW t \in Snapshot, NEW u \in Snapshot,
         AtMost(s, t), AtMost(t, u)
  PROVE  AtMost(s, u)
<1> SUFFICES ASSUME NEW k \in Kind PROVE s.from[k] <= u.from[k]
  BY DEF AtMost
<1>1. s.from[k] \in Nat /\ t.from[k] \in Nat /\ u.from[k] \in Nat
  BY DEF Snapshot
<1>2. s.from[k] <= t.from[k] /\ t.from[k] <= u.from[k]
  BY DEF AtMost
<1> QED  BY <1>1, <1>2

(* No snapshot is older than itself. *)
LEMMA AtMostItself == \A s \in Snapshot : AtMost(s, s)
<1> SUFFICES ASSUME NEW s \in Snapshot, NEW k \in Kind PROVE s.from[k] <= s.from[k]
  BY DEF AtMost
<1>1. s.from[k] \in Nat
  BY DEF Snapshot
<1> QED  BY <1>1

(* A snapshot offered on a channel is at least what the channel had. *)
LEMMA OfferNotBehind ==
  ASSUME IInv, NEW r \in Replica, NEW s, Offer(r, s), UNCHANGED stream,
         NEW y \in Router, NotBehind(y)
  PROVE  NotBehind(y)'
<1> SUFFICES ASSUME attached[y], seen[y] # None
             PROVE  channel'[conn[y]] # None /\ AtMost(seen[y], channel'[conn[y]])
  BY DEF stream, NotBehind, AtMost
<1>1. /\ conn[y] \in Replica /\ seen[y] \in Snapshot
      /\ channel[conn[y]] \in Snapshot /\ AtMost(seen[y], channel[conn[y]])
  BY DEF IInv, ReplicaKnown, NotBehind, TypeOK
<1>2. channel[conn[y]] # None
  BY DEF NotBehind
<1>3. CASE conn[y] = r
  <2>1. s \in Snapshot /\ AtMost(channel[r], s) /\ channel'[r] = s
    BY <1>2, <1>3 DEF Offer, IInv, TypeOK
  <2>2. AtMost(seen[y], s)
    BY <1>1, <1>3, <2>1, AtMostComposes
  <2>3. channel'[r] # None
    BY <1>2, <1>3, <2>1
  <2> QED  BY <1>3, <2>1, <2>2, <2>3
<1>4. CASE conn[y] # r
  <2>1. channel'[conn[y]] = channel[conn[y]]
    BY <1>1, <1>4 DEF Offer, IInv, TypeOK
  <2> QED  BY <1>1, <1>2, <2>1
<1> QED  BY <1>3, <1>4

(* Nor does a restart leave a stream behind an emptied channel. *)
LEMMA OperatorNotBehind ==
  ASSUME IInv,
         Edit \/ \E r \in Replica : Compile(r) \/ CatchUp(r) \/ RestartReplica(r),
         NEW y \in Router, NotBehind(y)
  PROVE  NotBehind(y)'
<1>1. CASE Edit
  BY <1>1 DEF Edit, Change, stream, NotBehind, AtMost
<1>2. ASSUME NEW r \in Replica, Compile(r) \/ CatchUp(r)
      PROVE  NotBehind(y)'
  BY <1>2, OfferNotBehind DEF Compile, CatchUp
<1>3. ASSUME NEW r \in Replica, RestartReplica(r)
      PROVE  NotBehind(y)'
  <2> SUFFICES ASSUME attached'[y], seen[y] # None
               PROVE  channel'[conn[y]] # None /\ AtMost(seen[y], channel'[conn[y]])
    BY <1>3 DEF RestartReplica, NotBehind, AtMost
  <2>1. attached[y] /\ conn[y] # r
    BY <1>3 DEF RestartReplica
  <2>2. conn[y] \in Replica
    BY <2>1 DEF IInv, ReplicaKnown
  <2>3. channel'[conn[y]] = channel[conn[y]]
    BY <1>3, <2>1, <2>2 DEF RestartReplica, Forget, IInv, TypeOK
  <2> QED  BY <2>1, <2>3 DEF NotBehind
<1> QED  BY <1>1, <1>2, <1>3

(* A stream takes what the channel has, or starts again with nothing. *)
LEMMA RouterNotBehind ==
  ASSUME IInv, NEW x \in Router, NEW y \in Router, NotBehind(y),
         Push(x) \/ Break(x) \/ Watch(x) \/ RestartRouter(x)
  PROVE  NotBehind(y)'
<1>1. CASE Push(x)
  <2>1. channel[conn[x]] \in Snapshot /\ channel[conn[x]] # None
    BY <1>1 DEF Push, IInv, ReplicaKnown, TypeOK
  <2>2. AtMost(channel[conn[x]], channel[conn[x]])
    BY <2>1, AtMostItself
  <2>3. /\ channel' = channel /\ conn' = conn /\ attached' = attached
        /\ seen'[x] = channel[conn[x]]
        /\ y # x => seen'[y] = seen[y]
    BY <1>1 DEF Push, feed, IInv, TypeOK
  <2> SUFFICES ASSUME attached[y], seen'[y] # None
               PROVE  channel[conn[y]] # None /\ AtMost(seen'[y], channel[conn[y]])
    BY <2>3 DEF NotBehind, AtMost
  <2>4. CASE y = x
    BY <2>1, <2>2, <2>3, <2>4
  <2>5. CASE y # x
    BY <2>3, <2>5 DEF NotBehind
  <2> QED  BY <2>4, <2>5
<1>2. CASE Break(x) \/ Watch(x) \/ RestartRouter(x)
  <2>1. /\ channel' = channel
        /\ \/ conn'[y] = conn[y] /\ (attached'[y] => attached[y]) /\ seen'[y] = seen[y]
           \/ seen'[y] = None
    BY <1>2 DEF Break, Watch, Connect, Receive, StreamEnds, RestartRouter, feed,
                IInv, TypeOK
  <2> QED  BY <2>1 DEF NotBehind, AtMost
<1> QED  BY <1>1, <1>2

----------------------------------------------------------------------------
(* The invariant and its theorems *)

(* The invariant holds at the start, when no stream is attached. *)
LEMMA InitInv == Init => IInv
<1> SUFFICES ASSUME Init PROVE IInv
  OBVIOUS
<1>1. \A x \in Router : ~attached[x]
  BY DEF Init
<1> QED  BY <1>1, InitTypes DEF IInv, ReplicaKnown, LastIsUnderWay

(* Every step keeps it. *)
LEMMA StepInv == IInv /\ [Next]_vars => IInv'
<1> SUFFICES ASSUME IInv, [Next]_vars PROVE IInv'
  OBVIOUS
<1>1. CASE Edit \/ \E r \in Replica : Compile(r) \/ CatchUp(r) \/ RestartReplica(r)
  <2>1. TypeOK'
    BY <1>1, OperatorTypes DEF IInv
  <2>2. \A y \in Router : ReplicaKnown(y)' /\ LastIsUnderWay(y)'
    BY <1>1, OperatorLast
  <2> QED  BY <2>1, <2>2 DEF IInv
<1>2. ASSUME NEW x \in Router, Push(x) \/ Break(x) \/ Watch(x) \/ RestartRouter(x)
      PROVE  IInv'
  <2>1. TypeOK'
    BY <1>2, StreamTypes, ReceiveTypes DEF IInv, Watch
  <2>2. ReplicaKnown(x)' /\ LastIsUnderWay(x)'
    BY <1>2, RouterLast, ReceiveLast DEF Watch
  <2>3. \A y \in Router : ReplicaKnown(y)' /\ LastIsUnderWay(y)'
    BY <1>2, <2>2, OthersKeepTheirs
  <2> QED  BY <2>1, <2>3 DEF IInv
<1>3. CASE UNCHANGED vars
  BY <1>3 DEF vars, feed, stream, holder, IInv, TypeOK, ReplicaKnown, LastIsUnderWay
<1> QED  BY <1>1, <1>2, <1>3 DEF Next

(* Every reachable state satisfies the invariant. *)
LEMMA Invariant == Spec => []IInv
<1> QED  BY InitInv, StepInv, PTL DEF Spec

(* Every variable stays in its type: no more chunks are under way than the  *)
(* window admits, and an attached stream comes from a replica.              *)
THEOREM DistributionTypes == Spec => []TypeOK
<1>1. IInv => TypeOK
  BY DEF IInv
<1> QED  BY <1>1, Invariant, PTL

(* A router that has drained its stream serves the snapshot its replica     *)
(* last pushed (snapshot_source.rs watch_once, SnapshotHolder::store), for  *)
(* every number of replicas, routers, reconnects and restarts.              *)
THEOREM RoutersServeTheirReplica == Spec => []ServesItsReplica
<1>1. IInv => ServesItsReplica
  BY DEF IInv, LastIsUnderWay, ServesItsReplica
<1> QED  BY <1>1, Invariant, PTL

(* No stream has taken anything yet. *)
LEMMA InitNotBehind == Init => \A y \in Router : NotBehind(y)
BY DEF Init, NotBehind

(* Every step keeps every stream no further than its channel. *)
LEMMA StepNotBehind ==
  IInv /\ (\A y \in Router : NotBehind(y)) /\ [Next]_vars => \A y \in Router : NotBehind(y)'
<1> SUFFICES ASSUME IInv, [Next]_vars, NEW y \in Router, NotBehind(y)
             PROVE  NotBehind(y)'
  OBVIOUS
<1>1. CASE UNCHANGED vars
  BY <1>1 DEF vars, feed, stream, NotBehind, AtMost
<1> QED  BY <1>1, OperatorNotBehind, RouterNotBehind DEF Next

(* One stream never goes back: whatever edits, restarts and skipped values  *)
(* lie between two chunks, the later one was compiled from objects none of  *)
(* which is older.  A router goes back by reconnecting only.                *)
StreamMovesForward ==
  [][\A x \in Router :
       (seen[x] # None /\ seen'[x] # None) => AtMost(seen[x], seen'[x])]_vars

(* One stream never goes back (grpc.rs watch over the channel of the loop): *)
(* the channel of a live replica only moves forward, and a router that took *)
(* a value from another life of it is no longer attached.                   *)
THEOREM StreamsMoveForward == Spec => StreamMovesForward
<1> DEFINE Ahead == \A y \in Router : NotBehind(y)
<1>1. IInv /\ Ahead /\ [Next]_vars =>
        [\A x \in Router :
           (seen[x] # None /\ seen'[x] # None) => AtMost(seen[x], seen'[x])]_vars
  <2> SUFFICES ASSUME IInv, Ahead, [Next]_vars, NEW x \in Router,
                      seen[x] # None, seen'[x] # None
               PROVE  AtMost(seen[x], seen'[x])
    OBVIOUS
  <2>1. AtMost(seen[x], seen[x])
    BY AtMostItself DEF IInv, TypeOK
  <2>2. seen'[x] = seen[x] \/ Push(x)
    BY DEF Next, Edit, Compile, CatchUp, RestartReplica, Push, Break, Watch, Connect,
           Receive, StreamEnds, RestartRouter, vars, stream, IInv, TypeOK
  <2>3. CASE Push(x)
    <3>1. attached[x] /\ seen'[x] = channel[conn[x]]
      BY <2>3 DEF Push, IInv, TypeOK
    <3> QED  BY <3>1 DEF NotBehind
  <2> QED  BY <2>1, <2>2, <2>3
<1>2. Init => Ahead
  BY InitNotBehind
<1>3. IInv /\ Ahead /\ [Next]_vars => Ahead'
  BY StepNotBehind
<1> HIDE DEF Ahead
<1> QED  BY <1>1, <1>2, <1>3, Invariant, PTL DEF Spec, StreamMovesForward

----------------------------------------------------------------------------
(* Routers configured from files: FileSource, for any number of files that  *)
(* change any number of times between any two reads of a load.  What a load *)
(* must have read are the files no later change touched; if the fingerprint *)
(* it started from is still true at the end, these are all there are.       *)

(* The files left as they were when the fingerprint was taken: a later save *)
(* gives a newer time, so a file never comes back to this set.              *)
Old == {f \in Present : disk[f].mtime <= last[2]}
Unmoved == Cardinality(Old) = last[1]

(* What the files of a set say. *)
Contents(S) == [f \in File |-> IF f \in S THEN disk[f].content ELSE Absent]

ReadSoFar(S) == todo \subseteq S /\ got = Contents(S \ todo)

(* Times never run ahead of the clock, nor old files outnumber the ones the *)
(* fingerprint counted.                                                     *)
Times ==
  /\ \A f \in Present : disk[f].mtime <= clock
  /\ last[2] <= clock
  /\ Cardinality(Old) <= last[1]

FirstLoad == (phase = "load" /\ ~early) => ReadSoFar(Present)
Reload == (phase = "reload" /\ Unmoved) => ReadSoFar(Old)
Loaded ==
  (phase = "loaded" /\ ~early /\ Loads(OnDisk)) => held = OnDisk
Watched ==
  (phase = "sleep" /\ ~early /\ Unmoved /\ Loads(Contents(Old)))
    => held = Contents(Old)

FileInv == FilesTypeOK /\ Times /\ FirstLoad /\ Reload /\ Loaded /\ Watched

----------------------------------------------------------------------------
(* A bounded set of numbers has a greatest one. *)
LEMMA HasGreatest ==
  ASSUME NEW n \in Nat, NEW T, T \subseteq 0..n, T # {}
  PROVE  \E m \in T : \A t \in T : t <= m
<1> DEFINE S == {n - t : t \in T}
<1>1. S \subseteq Nat /\ S # {}
  <2>1. ASSUME NEW t \in T PROVE n - t \in Nat
    OBVIOUS
  <2> QED BY <2>1
<1>2. \E i \in S : \A j \in S : ~(<<j, i>> \in OpToRel(<, Nat))
  <2> HIDE DEF S
  <2> QED BY <1>1, NatLessThanWellFounded, WFMin
<1>3. PICK m \in T : \A j \in S : <<j, n - m>> \notin OpToRel(<, Nat)
  BY <1>2
<1>4. ASSUME NEW t \in T PROVE t <= m
  <2>1. n - t \in S /\ n - t \in Nat /\ n - m \in Nat
    OBVIOUS
  <2>2. ~(n - t < n - m)
    BY <1>3, <2>1 DEF OpToRel
  <2> QED BY <2>2
<1> QED BY <1>4

(* There are finitely many files. *)
LEMMA FilesAreFinite ==
  ASSUME NEW S, S \subseteq File
  PROVE  IsFiniteSet(S) /\ Cardinality(S) \in 0..Files
<1>0. Files \in Nat /\ Files >= 1
  BY FileAssumption
<1>1. /\ IsFiniteSet(1..Files)
      /\ Cardinality(1..Files) = IF 1 > Files THEN 0 ELSE Files - 1 + 1
  BY <1>0, FS_Interval
<1>2. IsFiniteSet(File) /\ Cardinality(File) = Files /\ Files \in Nat
  BY <1>0, <1>1 DEF File
<1>3. IsFiniteSet(S) /\ Cardinality(S) <= Cardinality(File)
  BY <1>2, FS_Subset
<1>4. Cardinality(S) \in Nat
  BY <1>3, FS_CardinalityType
<1> QED BY <1>2, <1>3, <1>4

(* A fingerprint counts the files and bounds their times. *)
LEMMA FingerprintIs ==
  ASSUME FilesTypeOK,
         \A f \in Present : disk[f].mtime <= clock
  PROVE  /\ Fingerprint \in (0..Files) \X (0..MaxTime)
         /\ Fingerprint[1] = Cardinality(Present)
         /\ Fingerprint[2] <= clock
         /\ \A f \in Present : disk[f].mtime <= Fingerprint[2]
<1> DEFINE T == {disk[f].mtime : f \in Present}
           m == CHOOSE t \in T : \A f \in Present : disk[f].mtime <= t
<1>1. Cardinality(Present) \in 0..Files
  BY FilesAreFinite DEF Present
<1>2. CASE Present = {}
  BY <1>1, <1>2, FileAssumption DEF Fingerprint, FilesTypeOK
<1>3. CASE Present # {}
  <2>1. T \subseteq 0..MaxTime /\ T # {} /\ MaxTime \in Nat
    BY <1>3, FileAssumption DEF Present, FilesTypeOK
  <2>2. \E t \in T : \A u \in T : u <= t
    <3> HIDE DEF T
    <3> QED BY <2>1, HasGreatest
  <2>3. \E t \in T : \A f \in Present : disk[f].mtime <= t
    BY <2>2
  <2>4. m \in T /\ \A f \in Present : disk[f].mtime <= m
    BY <2>3
  <2>5. Fingerprint = <<Cardinality(Present), m>>
    BY <1>3 DEF Fingerprint
  <2>6. m <= clock
    BY <2>4
  <2> HIDE DEF m
  <2>7. m \in 0..MaxTime
    BY <2>1, <2>4
  <2> QED BY <1>1, <2>4, <2>5, <2>6, <2>7
<1> QED BY <1>2, <1>3

(* Right after a fingerprint every file is old. *)
LEMMA FingerprintTaken ==
  ASSUME FilesTypeOK,
         \A f \in Present : disk[f].mtime <= clock,
         last' = Fingerprint, disk' = disk
  PROVE  Old' = Present /\ Present' = Present /\ Unmoved'
<1>1. Present' = Present
  BY DEF Present
<1>2. Old' = Present
  BY <1>1, FingerprintIs DEF Old
<1> QED BY <1>1, <1>2, FingerprintIs DEF Unmoved

(* Every step of the task and every change to the files keeps the types.   *)
LEMMA FileTypeStep ==
  ASSUME FilesTypeOK, Times, [FilesNext]_fileVars
  PROVE  FilesTypeOK'
<1> USE FileAssumption DEF FilesTypeOK
<1>a. Fingerprint \in (0..Files) \X (0..MaxTime)
      /\ Present \subseteq File
  BY FingerprintIs DEF Times, Present
<1>b. Nothing \in [File -> Content \cup {Absent}]
  BY DEF Nothing
<1>1. CASE Boot
  BY <1>1, <1>a, <1>b DEF Boot, BeginLoad
<1>2. CASE StartWatch
  BY <1>2, <1>a DEF StartWatch
<1>3. CASE Poll
  BY <1>3, <1>a, <1>b DEF Poll, BeginLoad
<1>4. ASSUME NEW s, s = Absent \/ s = got, EndLoad(s) PROVE FilesTypeOK'
  BY <1>4, <1>b DEF EndLoad
<1>5. CASE FinishLoad
  BY <1>5, <1>4 DEF FinishLoad
<1>6. ASSUME NEW f \in File, ReadFile(f) PROVE FilesTypeOK'
  <2>1. disk[f].content \in Content
    BY <1>6 DEF ReadFile
  <2> QED BY <1>6, <2>1 DEF ReadFile
<1>7. ASSUME NEW f \in File, ReadFails(f) PROVE FilesTypeOK'
  BY <1>7, <1>4 DEF ReadFails
<1>8. ASSUME NEW f \in File, Save(f) PROVE FilesTypeOK'
  <2>1. clock' \in 1..MaxTime /\ early' \in BOOLEAN
    BY <1>8 DEF Save, Changed
  <2>2. PICK c \in Content : disk' = [disk EXCEPT ![f] = [content |-> c, mtime |-> clock']]
    BY <1>8 DEF Save
  <2>3. disk' \in [File -> {Absent} \cup [content : Content, mtime : 1..MaxTime]]
    <3>1. [content |-> c, mtime |-> clock'] \in [content : Content, mtime : 1..MaxTime]
      BY <2>1
    <3> HIDE FileAssumption
    <3> QED BY <2>2, <3>1
  <2> QED BY <1>8, <2>1, <2>3 DEF Save
<1>9. ASSUME NEW f \in File, Remove(f) PROVE FilesTypeOK'
  BY <1>9 DEF Remove, Changed
<1>10. CASE Restart
  BY <1>10 DEF Restart
<1>11. CASE UNCHANGED fileVars
  BY <1>11 DEF fileVars
<1> QED BY <1>1, <1>2, <1>3, <1>5, <1>6, <1>7, <1>8, <1>9, <1>10, <1>11 DEF FilesNext,
                                                                            Task

(* A change leaves fewer old files, or the same ones as they were. *)
LEMMA ChangeKeepsOld ==
  ASSUME FilesTypeOK, Times, NEW f \in File,
        Save(f) \/ Remove(f)
  PROVE  /\ Times'
         /\ Old' \subseteq Old
         /\ \A g \in Old' : disk'[g] = disk[g]
         /\ Unmoved' => Unmoved /\ Old' = Old
<1>a. /\ clock \in Nat /\ clock' = clock + 1 /\ last' = last /\ last[2] \in Nat
      /\ last[1] \in Nat
      /\ last[2] <= clock
  BY DEF Save, Remove, Changed, FilesTypeOK, Times
<1>b. \A g \in Present : disk[g].mtime \in Nat /\ disk[g].mtime <= clock
  BY DEF FilesTypeOK, Present, Times
<1>1. \A g \in File \ {f} : disk'[g] = disk[g]
  BY DEF Save, Remove, FilesTypeOK
<1>2. f \in Present' => disk'[f].mtime = clock'
  BY DEF Present, Save, Remove, FilesTypeOK
<1>3. /\ \A g \in Present' : disk'[g].mtime <= clock'
      /\ f \notin Old'
  BY <1>a, <1>b, <1>1, <1>2 DEF Present, Old
<1>4. Old' \subseteq Old /\ \A g \in Old' : disk'[g] = disk[g]
  BY <1>a, <1>1, <1>3 DEF Old, Present
<1>5. /\ IsFiniteSet(Old) /\ Cardinality(Old) \in Nat
      /\ Cardinality(Old') <= Cardinality(Old)
      /\ Cardinality(Old) = Cardinality(Old') => Old' = Old
      /\ Cardinality(Old') \in Nat
  <2>1. IsFiniteSet(Old) /\ Cardinality(Old) \in Nat
    BY FilesAreFinite DEF Old, Present
  <2>2. IsFiniteSet(Old')
    BY <1>4, <2>1, FS_Subset
  <2> QED BY <1>4, <2>1, <2>2, FS_Subset, FS_CardinalityType
<1>6. Cardinality(Old) <= last[1]
  BY DEF Times
<1>7. Times'
  BY <1>a, <1>3, <1>5, <1>6 DEF Times
<1>8. Unmoved' => Unmoved /\ Old' = Old
  BY <1>a, <1>5, <1>6 DEF Unmoved
<1> QED BY <1>4, <1>7, <1>8

(* Every change takes a new time, so no file becomes old again.            *)
LEMMA TimesStep ==
  ASSUME FilesTypeOK, Times, [FilesNext]_fileVars
  PROVE  Times'
<1>a. ASSUME disk' = disk, clock' = clock, last' = last PROVE Times'
  BY <1>a DEF Times, Old, Present
<1>b. ASSUME disk' = disk, clock' = clock, last' = Fingerprint PROVE Times'
  <2>1. \A f \in Present : disk[f].mtime <= clock
    BY DEF Times
  <2>2. Old' = Present /\ Present' = Present /\ Unmoved'
    BY <1>b, <2>1, FingerprintTaken
  <2>3. Cardinality(Present) \in Nat
    BY FilesAreFinite DEF Present
  <2> QED BY <1>b, <2>1, <2>2, <2>3, FingerprintIs DEF Times, Unmoved
<1>1. CASE Restart
  <2>1. Old' = {}
    <3>1. disk' = disk /\ last'[2] = 0
      BY <1>1 DEF Restart
    <3>2. \A f \in Present : disk[f].mtime > 0
      BY DEF FilesTypeOK, Present
    <3> QED BY <3>1, <3>2 DEF Old, Present, FilesTypeOK
  <2>2. Cardinality(Old') = 0
    BY <2>1, FS_EmptySet
  <2>3. disk' = disk /\ clock' = clock /\ last' = <<0, 0>> /\ clock \in Nat
    BY <1>1 DEF Restart, FilesTypeOK
  <2> QED BY <2>2, <2>3 DEF Times, Present
<1>2. ASSUME NEW f \in File, Save(f) \/ Remove(f) PROVE Times'
  BY <1>2, ChangeKeepsOld
<1> QED BY <1>a, <1>b, <1>1, <1>2
        DEF FilesNext, Task, Boot, StartWatch, Poll,
            FinishLoad, ReadFile, ReadFails, EndLoad,
                  fileVars

(* A load begins with nothing read. *)
LEMMA NothingRead ==
  ASSUME NEW during, BeginLoad(during), NEW S, S = Present, disk' = disk
  PROVE  todo' = S
        /\ got' = [f \in File |-> IF f \in S \ todo' THEN disk'[f].content ELSE Absent]
BY DEF BeginLoad, Nothing

(* A file that is read is the one on disk. *)
LEMMA ReadKeeps ==
  ASSUME NEW S, S \subseteq Present, ReadSoFar(S), NEW f \in File,
        ReadFile(f)
  PROVE  todo' \subseteq S
         /\ got' = [g \in File |->
                       IF g \in S \ todo' THEN disk'[g].content ELSE Absent]
<1>1. /\ todo' = todo \ {f} /\ f \in todo /\ disk' = disk
      /\ got' = [got EXCEPT ![f] = disk[f].content]
  BY DEF ReadFile
<1>2. got = [g \in File |-> IF g \in S \ todo THEN disk[g].content ELSE Absent]
      /\ todo \subseteq S
  BY DEF ReadSoFar, Contents
<1>3. \A g \in File : got'[g] = IF g \in S \ todo' THEN disk'[g].content ELSE Absent
  BY <1>1, <1>2
<1>4. got' = [g \in File |-> got'[g]]
  BY <1>1, <1>2
<1> QED BY <1>1, <1>2, <1>3, <1>4

(* What the present files say is what is on disk. *)
LEMMA ContentsOnDisk == Contents(Present) = OnDisk
BY DEF Contents, OnDisk, Present

(* What a load has read of the files that stay as they were is right, and so*)
(* is the snapshot it ends with.                                           *)
LEMMA ReadsStep ==
  ASSUME FileInv, [FilesNext]_fileVars
  PROVE  FirstLoad' /\ Reload' /\ Loaded' /\ Watched'
<1>a. \A f \in Present : disk[f].mtime <= clock
  BY DEF FileInv, Times
<1> USE DEF FileInv, FirstLoad, Reload, Loaded, Watched
<1>1. CASE Boot
  <2>1. phase' = "load" /\ disk' = disk
    BY <1>1 DEF Boot, BeginLoad
  <2>2. ReadSoFar(Present)'
    <3>1. Present' = Present
      BY <2>1 DEF Present
    <3>2. /\ todo' = Present
          /\ got' = [f \in File |->
                       IF f \in Present \ todo' THEN disk'[f].content ELSE Absent]
      BY <1>1, <2>1, NothingRead DEF Boot
    <3> QED BY <3>1, <3>2 DEF ReadSoFar, Contents
  <2> QED BY <2>1, <2>2
<1>2. CASE StartWatch
  <2>1. /\ phase = "loaded" /\ phase' = "sleep" /\ early' = early /\ disk' = disk
        /\ held' = held /\ compiled' = compiled /\ last' = Fingerprint
    BY <1>2 DEF StartWatch
  <2>2. Old' = Present
    BY <1>a, <2>1, FingerprintTaken
  <2>3. Contents(Old)' = OnDisk
    BY <2>1, <2>2, ContentsOnDisk DEF Contents
  <2>4. Loads(Contents(Old))' <=> Loads(OnDisk)
    BY <2>1, <2>3 DEF Loads
  <2> QED BY <2>1, <2>3, <2>4
<1>3. CASE Poll
  <2>1. phase' = "reload" /\ disk' = disk /\ last' = Fingerprint
    BY <1>3 DEF Poll, BeginLoad
  <2>2. Old' = Present
    BY <1>a, <2>1, FingerprintTaken
  <2>3. ReadSoFar(Old)'
    BY <1>3, <2>1, <2>2, NothingRead DEF Poll, ReadSoFar, Contents
  <2> QED BY <2>1, <2>3
<1>4. CASE FinishLoad
  <2>1. /\ todo = {} /\ Loading /\ disk' = disk /\ early' = early
        /\ compiled' = compiled
        /\ last' = last
        /\ phase' = IF phase = "reload" THEN "sleep"
                    ELSE IF ~Loads(got) /\ ~compiled THEN "exited" ELSE "loaded"
        /\ Loads(got) => held' = got
    <3>1. got # Absent
      BY FileAssumption DEF FilesTypeOK
    <3> QED BY <1>4, <3>1 DEF FinishLoad, EndLoad
  <2>2. /\ phase = "load" /\ ~early => got = OnDisk
        /\ phase = "reload" /\ Unmoved => got = Contents(Old)
    BY <2>1, ContentsOnDisk DEF ReadSoFar
  <2>3. /\ OnDisk' = OnDisk /\ Contents(Old)' = Contents(Old)
        /\ (Unmoved' <=> Unmoved)
        /\ Loads(OnDisk)' <=> Loads(OnDisk)
        /\ Loads(Contents(Old))' <=> Loads(Contents(Old))
    BY <2>1 DEF OnDisk, Contents, Old, Present, Unmoved, Loads
  <2> QED BY <2>1, <2>2, <2>3 DEF Loading
<1>5. ASSUME NEW f \in File, ReadFile(f) PROVE FirstLoad' /\ Reload'
      /\ Loaded' /\ Watched'
  <2>1. /\ phase' = phase /\ Loading /\ disk' = disk /\ last' = last
        /\ early' = early
    BY <1>5 DEF ReadFile
  <2>2. Present' = Present /\ Old' = Old /\ Old \subseteq Present
    BY <2>1 DEF Present, Old
  <2>3. Unmoved' <=> Unmoved
    BY <2>1, <2>2 DEF Unmoved
  <2>4. ReadSoFar(Present) => ReadSoFar(Present)'
    BY <1>5, <2>2, ReadKeeps DEF ReadSoFar, Contents
  <2>5. ReadSoFar(Old) => ReadSoFar(Old)'
    BY <1>5, <2>2, ReadKeeps DEF ReadSoFar, Contents
  <2> QED BY <2>1, <2>3, <2>4, <2>5 DEF Loading
<1>6. ASSUME NEW f \in File, ReadFails(f) PROVE FirstLoad' /\ Reload'
      /\ Loaded' /\ Watched'
  <2>1. /\ disk[f] = Absent /\ f \in todo /\ Loading /\ disk' = disk /\ last' = last
        /\ early' = early /\ phase' \in {"sleep", "exited", "loaded"}
        /\ phase' = "sleep" => phase = "reload"
        /\ phase' = "loaded" => phase = "load"
    BY <1>6 DEF ReadFails, EndLoad, Loading
  <2>2. f \notin Present /\ Old \subseteq Present
    BY <2>1 DEF Present, Old
  <2>3. phase = "load" => early
    BY <2>1, <2>2 DEF ReadSoFar
  <2>4. phase = "reload" => ~Unmoved
    BY <2>1, <2>2 DEF ReadSoFar
  <2>5. Unmoved' <=> Unmoved
    BY <2>1 DEF Unmoved, Old, Present
  <2> QED BY <2>1, <2>3, <2>4, <2>5
<1>7. ASSUME NEW f \in File, Save(f) \/ Remove(f)
      PROVE  FirstLoad' /\ Reload' /\ Loaded' /\ Watched'
  <2>1. /\ phase' = phase /\ todo' = todo /\ got' = got /\ held' = held
        /\ compiled' = compiled
        /\ early' = (early \/ phase \in {"load", "loaded"})
    BY <1>7 DEF Save, Remove, Changed
  <2>2. /\ Unmoved' => Unmoved /\ Old' = Old
        /\ \A g \in Old' : disk'[g] = disk[g]
    BY <1>7, ChangeKeepsOld
  <2>3. Unmoved' => ReadSoFar(Old)' = ReadSoFar(Old) /\ Contents(Old)' = Contents(Old)
    <3> SUFFICES ASSUME Unmoved'
                 PROVE  ReadSoFar(Old)' = ReadSoFar(Old) /\ Contents(Old)' = Contents(Old)
      OBVIOUS
    <3>1. \A S : S \subseteq Old => Contents(S)' = Contents(S)
      BY <2>2 DEF Contents
    <3>2. Old' = Old /\ Contents(Old)' = Contents(Old)
      BY <2>2 DEF Contents
    <3>3. Contents(Old \ todo)' = Contents(Old \ todo)
      BY <2>1, <2>2 DEF Contents
    <3> QED BY <2>1, <3>2, <3>3 DEF ReadSoFar
  <2>4. Unmoved' => (Loads(Contents(Old))' <=> Loads(Contents(Old)))
    BY <2>1, <2>3 DEF Loads
  <2> QED BY <2>1, <2>2, <2>3, <2>4
<1>8. CASE Restart
  BY <1>8 DEF Restart
<1>9. CASE UNCHANGED fileVars
  BY <1>9 DEF fileVars, ReadSoFar, Contents, Present, Old, Unmoved,
              Loads, OnDisk
<1> QED BY <1>1, <1>2, <1>3, <1>4, <1>5, <1>6, <1>7, <1>8, <1>9 DEF FilesNext, Task

(* A router starts with nothing read. *)
LEMMA FilesStart ==
  ASSUME FilesInit
  PROVE  FileInv
<1> USE DEF FilesInit
<1>1. FilesTypeOK
  <2>1. disk \in [File -> {Absent} \cup [content : Content, mtime : 1..MaxTime]]
    <3>1. 1 \in 1..MaxTime
      BY FileAssumption
    <3>2. \A c \in Content : [content |-> c, mtime |-> 1] \in [content : Content,
          mtime : 1..MaxTime]
      BY <3>1
    <3> QED BY <3>2
  <2>2. got \in [File -> Content \cup {Absent}]
    BY DEF Nothing
  <2>3. clock \in 1..MaxTime /\ last \in (0..Files) \X (0..MaxTime)
    BY FileAssumption
  <2>4. todo \subseteq File
    OBVIOUS
  <2>5. compiled \in BOOLEAN /\ early \in BOOLEAN
    OBVIOUS
  <2>6. phase \in {"boot", "load", "loaded", "exited", "sleep", "reload"} /\ held = Absent
    OBVIOUS
  <2> HIDE DEF FilesInit
  <2> QED BY <2>1, <2>2, <2>3, <2>4, <2>5, <2>6 DEF FilesTypeOK
<1>2. \A f \in Present : disk[f].mtime = 1
  BY DEF Present
<1>3. Old = {} /\ Cardinality(Old) = 0
  <2>1. Old = {}
    BY <1>2 DEF Old
  <2> QED BY <2>1, FS_EmptySet
<1>4. Times
  BY <1>2, <1>3 DEF Times
<1> QED BY <1>1, <1>4 DEF FileInv, FirstLoad, Reload, Loaded, Watched

(* The invariant behind a watcher at rest.                                 *)
LEMMA FileInvariant ==
  FilesSpec => []FileInv
<1>1. FilesInit => FileInv
  BY FilesStart
<1>2. FileInv /\ [FilesNext]_fileVars => FileInv'
  BY FileTypeStep, TimesStep, ReadsStep DEF FileInv
<1> QED BY <1>1, <1>2, PTL DEF FilesSpec

(* The disk, the load under way, the fingerprint and the holder are of their *)
(* types in every state.                                                     *)
THEOREM PolledTypes == FilesSpec => []FilesTypeOK
<1>1. FileInv => FilesTypeOK
  BY DEF FileInv
<1> QED BY <1>1, FileInvariant, PTL

(* A watcher at rest whose fingerprint is up to date holds what is on disk,  *)
(* whenever that loads, however many files there are and however often they  *)
(* change between two reads of a load.                                       *)
THEOREM RestsOnWhatIsOnDisk == FilesSpec => []AtRestCurrent
<1>1. FileInv => AtRestCurrent
  <2> SUFFICES ASSUME FileInv, phase = "sleep", last = Fingerprint,
        Loads(OnDisk), ~early
               PROVE  held = OnDisk
    BY DEF AtRestCurrent
  <2>1. Old = Present /\ Unmoved
    BY FingerprintIs DEF FileInv, Times, Old, Unmoved
  <2> QED BY <2>1, ContentsOnDisk DEF FileInv, Watched
<1> QED BY <1>1, FileInvariant, PTL
=============================================================================

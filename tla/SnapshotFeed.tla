---------------------------- MODULE SnapshotFeed ----------------------------
(* What the operator promises its gRPC watchers: every replica keeps one    *)
(* slot with the last snapshot it compiled.  The slot fills at some time    *)
(* after a start, is emptied by a restart only, and each snapshot put there *)
(* was compiled from objects the cluster has had, none of them older than   *)
(* those behind the snapshot it replaces and some younger; compiled from the objects of this *)
(* moment, it is the configuration of this moment.  Operator implements     *)
(* this (see OperatorProofs); Distribution builds on it.                    *)
EXTENDS Naturals

CONSTANTS
  Replica,   \* operator replicas
  Kind,      \* CRD kinds
  Digest,    \* snapshot hashes
  Gen,       \* generations the objects of a kind go through
  None

Snapshot == [hash : Digest, from : [Kind -> Gen]]

(* The configuration of the cluster: its hash is None if it does not compile. *)
Configuration == [hash : Digest \cup {None}, from : [Kind -> Gen]]

AtMost(s, t) == \A k \in Kind : s.from[k] <= t.from[k]

VARIABLES
  latest,    \* the cluster's configuration
  channel    \* per replica: its watch channel's snapshot, or None

feed == <<latest, channel>>

FeedInit ==
  /\ latest \in Configuration
  /\ channel = [r \in Replica |-> None]

Change(c) ==
  /\ c \in Configuration
  /\ latest' = c
  /\ AtMost(latest, c)
  /\ UNCHANGED channel

Offer(r, s) ==
  /\ s \in Snapshot
  /\ AtMost(s, latest)
  /\ s.from = latest.from => s = latest
  /\ channel[r] # None => AtMost(channel[r], s) /\ s.from # channel[r].from
  /\ channel' = [channel EXCEPT ![r] = s]
  /\ UNCHANGED latest

Forget(r) ==
  /\ channel' = [channel EXCEPT ![r] = None]
  /\ UNCHANGED latest

FeedNext ==
  \/ \E c \in Configuration : Change(c)
  \/ \E r \in Replica :
       \/ \E s \in Snapshot : Offer(r, s)
       \/ Forget(r)

FeedSpec == FeedInit /\ [][FeedNext]_feed
=============================================================================

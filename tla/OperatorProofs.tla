--------------------------- MODULE OperatorProofs ---------------------------
(* Proofs about Operator, for every set of replicas, kinds and contents and *)
(* every finite number of edits, faults, restarts and handovers.  The last  *)
(* part is about Lease, which decides when a replica leads.                 *)
EXTENDS Operator, Lease, SequenceTheorems, TLAPS

(* The kinds a cursor has passed, and those a round has already listed. *)
Passed(c) == {ListOrder[i] : i \in 1..(c - 1)}
Seen(r) == Passed(cursor[r])

(* A round's listing holds an object for every kind it has passed. *)
Listings ==
  \A r \in Replica :
    /\ pc[r] = "list" => \A k \in Seen(r) : listed[r][k] \in Object
    /\ pc[r] = "write" => \A k \in Kind : listed[r][k] \in Object
    /\ pc[r] = "wait" => cursor[r] = 1

(* What was listed in this round is still what the cluster says, or the     *)
(* event of the change is on its way.                                       *)
FreshOrPending ==
  \A r \in Replica :
    pc[r] = "list" =>
      \A k \in Seen(r) :
        k \in pending[r] \/ listed[r][k] = object[k]

(* After the compile, the channel holds the configuration unless an event is *)
(* on its way.                                                               *)
SentOrPending ==
  \A r \in Replica :
    (pc[r] \in {"write", "wait"} /\ pending[r] = {} /\ Valid) => Serves(sent[r])

IInv == TypeOK /\ Listings /\ FreshOrPending /\ SentOrPending

----------------------------------------------------------------------------

(* list_all lists kinds, in a finite order. *)
LEMMA OrderIsFinite ==
  /\ Len(ListOrder) \in Nat
  /\ \A i \in 1..Len(ListOrder) : ListOrder[i] \in Kind
BY OperatorAssumption, LenProperties, ElementOfSeq

(* A round begins with nothing listed. *)
LEMMA PassedEmpty == Passed(1) = {}
<1>1. 1..(1 - 1) = {}
  OBVIOUS
<1> QED BY <1>1 DEF Passed

(* Each list call adds the kind it is for. *)
LEMMA PassedGrows ==
  ASSUME NEW c \in 1..Len(ListOrder)
  PROVE  Passed(c + 1) = Passed(c) \cup {ListOrder[c]}
<1>1. 1..((c + 1) - 1) = 1..(c - 1) \cup {c}
  BY OrderIsFinite
<1> QED BY <1>1 DEF Passed

(* Past the last call every kind is listed. *)
LEMMA PassedAll ==
  ASSUME NEW c \in 1..(Len(ListOrder) + 1), c > Len(ListOrder)
  PROVE  Kind \subseteq Passed(c)
<1> SUFFICES ASSUME NEW k \in Kind PROVE k \in Passed(c)
  OBVIOUS
<1>1. PICK i \in 1..Len(ListOrder) : ListOrder[i] = k
  BY OperatorAssumption
<1>2. i \in 1..(c - 1)
  BY OrderIsFinite
<1> QED BY <1>1, <1>2 DEF Passed

(* Nothing but kinds is listed. *)
LEMMA PassedAreKinds ==
  ASSUME NEW c \in 1..(Len(ListOrder) + 1)
  PROVE  Passed(c) \subseteq Kind
<1> SUFFICES ASSUME NEW i \in 1..(c - 1) PROVE ListOrder[i] \in Kind
  BY DEF Passed
<1>1. i \in 1..Len(ListOrder)
  BY OrderIsFinite
<1> QED BY <1>1, OrderIsFinite

(* A complete listing compiles to a snapshot or to nothing. *)
LEMMA CompileType ==
  ASSUME NEW objs, \A k \in Kind : objs[k] \in Object
  PROVE  /\ SpecOf(objs) \in Spec0
         /\ Compile(objs) \in Snapshot \cup {None}
         /\ Hash(Compile(objs)) \in Spec0 \cup {None}
<1>1. SpecOf(objs) \in Spec0
  BY DEF SpecOf, Object, Spec0
<1>2. GenOf(objs) \in [Kind -> Nat \ {0}]
  BY DEF GenOf, Object
<1>3. Compile(objs) \in Snapshot \cup {None}
  BY <1>1, <1>2 DEF Compile, Snapshot
<1>4. Hash(Compile(objs)) \in Spec0 \cup {None}
  BY <1>3 DEF Hash, Snapshot
<1> QED BY <1>1, <1>3, <1>4

(* A patched status is a status. *)
LEMMA PatchedType ==
  ASSUME NEW objs, \A k \in Kind : objs[k] \in Object,
         NEW k \in Kind, NEW stored \in Status
  PROVE  Patched(stored, objs, k) \in Status
<1>1. Hash(Compile(objs)) \in Spec0 \cup {None}
  BY CompileType
<1>2. objs[k].gen \in Nat
  BY DEF Object
<1>3. stored.hash \in Spec0 \cup {None}
  BY DEF Status
<1>4. Desired(objs, k) \in {"Unset", "True", "False"}
  BY DEF Desired
<1> QED BY <1>1, <1>2, <1>3, <1>4 DEF Patched, Status

(* What a round has to write are writes. *)
LEMMA RoundWritesType ==
  ASSUME NEW objs, NEW cm
  PROVE  RoundWrites(objs, cm) \subseteq Write
BY DEF RoundWrites, Write

(* If the listing repeats the cluster's specs, so does its digest. *)
LEMMA FreshDigest ==
  ASSUME NEW objs, \A k \in Kind : objs[k].spec = object[k].spec
  PROVE  SpecOf(objs) = Current
BY DEF SpecOf, Current

----------------------------------------------------------------------------
(* Type correctness *)

(* A replica that has not listed anything satisfies the invariant. *)
LEMMA InitInvariant == Init => IInv
<1> SUFFICES ASSUME Init PROVE IInv
  OBVIOUS
<1>1. TypeOK
  <2>1. NoStatus \in Status
    BY DEF NoStatus, Status
  <2>2. object \in [Kind -> Object]
    BY <2>1, OperatorAssumption DEF Init, Object, Spec0
  <2>3. 1 \in 1..(Len(ListOrder) + 1)
    BY OrderIsFinite
  <2> QED BY <2>2, <2>3, OperatorAssumption DEF Init, TypeOK, Unlisted
<1>2. \A r \in Replica : Seen(r) = {} /\ pc[r] = "list"
  BY PassedEmpty DEF Init, Seen
<1> QED BY <1>1, <1>2 DEF IInv, Listings, FreshOrPending, SentOrPending

(* Every step keeps the types. *)
LEMMA TypeStep == TypeOK /\ Listings /\ [Next]_vars => TypeOK'
<1> SUFFICES ASSUME TypeOK, Listings, [Next]_vars PROVE TypeOK'
  OBVIOUS
<1> USE DEF TypeOK
<1>0. /\ Len(ListOrder) \in Nat
      /\ \A i \in 1..Len(ListOrder) : ListOrder[i] \in Kind
      /\ Unlisted \in [Kind -> Object \cup {None}]
      /\ 1 \in 1..(Len(ListOrder) + 1)
  BY OrderIsFinite DEF Unlisted
<1>a. ASSUME NEW r \in Replica, NEW ws \in SUBSET Write, GoOn(r, ws)
      PROVE  /\ writes' \in [Replica -> SUBSET Write]
             /\ pc' \in [Replica -> {"list", "write", "wait"}]
             /\ cursor' \in [Replica -> 1..(Len(ListOrder) + 1)]
             /\ listed' \in [Replica -> [Kind -> Object \cup {None}]]
  BY <1>0, <1>a DEF GoOn
<1>b. ASSUME NEW c \in Chance, Spend(c) PROVE left' \in [Count -> Nat]
  BY <1>b DEF Spend, Chance, Count
<1>c. ASSUME NEW k \in Kind, Notify(k) PROVE pending' \in [Replica -> SUBSET Kind]
  BY <1>c DEF Notify
<1>d. ASSUME NEW r \in Replica, JudgesAgain(r) PROVE owed' \in [Replica -> SUBSET Write]
  BY <1>d DEF JudgesAgain
<1>e. ASSUME NEW r \in Replica, NEW k \in Kind, pc[r] = "write", PatchLands(r, k)
      PROVE  /\ object' \in [Kind -> Object] /\ configMap' = configMap
             /\ pending' \in [Replica -> SUBSET Kind]
  <2>1. \A j \in Kind : listed[r][j] \in Object
    BY <1>e DEF Listings
  <2>2. Patched(object[k].status, listed[r], k) \in Status
    BY <2>1, PatchedType DEF Object
  <2>3. object' \in [Kind -> Object]
    BY <1>e, <2>2 DEF PatchLands, Object
  <2> QED BY <1>e, <1>c, <2>3 DEF PatchLands
<1>f. ASSUME NEW r \in Replica, pc[r] = "write", PublishLands(r)
      PROVE  /\ configMap' = Compile(listed[r]) /\ configMap' \in Snapshot \cup {None}
             /\ object' = object /\ pending' = pending
  <2>1. \A k \in Kind : listed[r][k] \in Object
    BY <1>f DEF Listings
  <2> QED BY <1>f, <2>1, CompileType DEF PublishLands
<1>1. ASSUME NEW k \in Kind, Edit(k) PROVE TypeOK'
  <2>3. object' \in [Kind -> Object]
    BY <1>1 DEF Edit, Object
  <2> QED BY <1>1, <1>b, <1>c, <2>3 DEF Edit, Chance
<1>2. ASSUME NEW r \in Replica, NEW k \in Kind, Resync(r, k) PROVE TypeOK'
  BY <1>2, <1>b DEF Resync, Chance, cluster
<1>3. ASSUME NEW r \in Replica, ListKind(r) PROVE TypeOK'
  <2>1. ListOrder[cursor[r]] \in Kind
    BY <1>3, <1>0 DEF ListKind
  <2>2. listed' \in [Replica -> [Kind -> Object \cup {None}]]
    BY <1>3, <2>1 DEF ListKind
  <2>3. cursor' \in [Replica -> 1..(Len(ListOrder) + 1)]
    BY <1>3, <1>0 DEF ListKind
  <2> QED BY <1>3, <2>2, <2>3 DEF ListKind, cluster
<1>4. ASSUME NEW r \in Replica, ListFails(r) PROVE TypeOK'
  BY <1>4, <1>0, <1>b DEF ListFails, Chance, cluster
<1>5. ASSUME NEW r \in Replica, CompileAndSend(r) PROVE TypeOK'
  <2>1. \A k \in Kind : listed[r][k] \in Object
    BY <1>5, PassedAll DEF CompileAndSend, Listings, Seen
  <2>2. Compile(listed[r]) \in Snapshot \cup {None}
    BY <2>1, CompileType
  <2>3. sent' \in [Replica -> Snapshot \cup {None}]
    BY <1>5, <2>2 DEF CompileAndSend
  <2>4. PICK ws \in SUBSET Write : GoOn(r, ws)
    BY <1>5, RoundWritesType, Zenon DEF CompileAndSend
  <2> QED BY <1>5, <1>a, <1>d, <2>3, <2>4 DEF CompileAndSend, cluster
<1>6. ASSUME NEW r \in Replica, NEW k \in Kind, PatchStatus(r, k) PROVE TypeOK'
  <2>1. /\ object' \in [Kind -> Object] /\ configMap' = configMap
        /\ pending' \in [Replica -> SUBSET Kind]
    BY <1>6, <1>e DEF PatchStatus
  <2> QED BY <1>6, <1>a, <2>1 DEF PatchStatus
<1>7. ASSUME NEW r \in Replica, PublishConfigMap(r) PROVE TypeOK'
  <2>1. /\ configMap' \in Snapshot \cup {None} /\ configMap' = Compile(listed[r])
        /\ object' = object /\ pending' = pending
    BY <1>7, <1>f DEF PublishConfigMap
  <2>2. published' \in [Replica -> Snapshot \cup {None}] 
    BY <1>7, <2>1 DEF PublishConfigMap
  <2> QED BY <1>7, <1>a, <2>1, <2>2 DEF PublishConfigMap
<1>8. ASSUME NEW r \in Replica, NEW w \in Write, WriteFails(r, w) PROVE TypeOK'
  <2>1. owed' \in [Replica -> SUBSET Write]
    BY <1>8 DEF WriteFails
  <2> QED BY <1>8, <1>a, <1>b, <2>1 DEF WriteFails, Chance, cluster
<1>13. ASSUME NEW r \in Replica, NEW w \in Write, AnswerLost(r, w) PROVE TypeOK'
  <2>2. /\ object' \in [Kind -> Object] /\ configMap' \in Snapshot \cup {None}
        /\ pending' \in [Replica -> SUBSET Kind]
    BY <1>13, <1>e, <1>f DEF AnswerLost, Write
  <2>1. owed' \in [Replica -> SUBSET Write]
    BY <1>13 DEF AnswerLost
  <2> QED BY <1>13, <1>a, <1>b, <2>1, <2>2 DEF AnswerLost, Chance
<1>9. ASSUME NEW r \in Replica, Wake(r) PROVE TypeOK'
  BY <1>9 DEF Wake, cluster
<1>10. ASSUME NEW r \in Replica, SetLeading(r) PROVE TypeOK'
  BY <1>10, <1>b DEF SetLeading, Chance, cluster, process
<1>11. ASSUME NEW r \in Replica, Restart(r) PROVE TypeOK'
  BY <1>11, <1>0, <1>b, OperatorAssumption DEF Restart, Chance, cluster
<1>12. CASE UNCHANGED vars
  BY <1>12 DEF vars
<1> QED
  BY <1>1, <1>2, <1>3, <1>4, <1>5, <1>6, <1>7, <1>8, <1>9, <1>10, <1>11, <1>12,
     <1>13
  DEF Next, Loop

----------------------------------------------------------------------------
(* No lost update *)

(* The end of a round forgets the listing; before it nothing changes. *)
LEMMA GoOnEffect ==
  ASSUME TypeOK, NEW r \in Replica, NEW ws, GoOn(r, ws)
  PROVE  /\ pc'[r] \in {"write", "wait"}
         /\ pc'[r] = "wait" => cursor'[r] = 1
         /\ pc'[r] = "write" => listed'[r] = listed[r]
         /\ \A s \in Replica \ {r} : /\ pc'[s] = pc[s]
                                     /\ cursor'[s] = cursor[s]
                                     /\ listed'[s] = listed[s]
BY DEF GoOn, TypeOK

(* Every step keeps the listings: what was listed is an object. *)
LEMMA ListingsStep == TypeOK /\ Listings /\ [Next]_vars => Listings'
<1> SUFFICES ASSUME TypeOK, Listings, [Next]_vars PROVE Listings'
  OBVIOUS
<1> USE DEF Listings, Seen
<1>1. ASSUME UNCHANGED <<pc, cursor, listed>> PROVE Listings'
  BY <1>1
<1>2. ASSUME NEW r \in Replica, NEW ws, pc[r] \in {"write", "list"}, GoOn(r, ws),
             \A k \in Kind : listed[r][k] \in Object
      PROVE  Listings'
  BY <1>2, GoOnEffect
<1>3. ASSUME NEW r \in Replica, pc'[r] = "list", cursor'[r] = 1,
             \A s \in Replica \ {r} : pc'[s] = pc[s] /\ cursor'[s] = cursor[s]
                                      /\ listed'[s] = listed[s]
      PROVE  Listings'
  BY <1>3, PassedEmpty
<1>4. ASSUME NEW r \in Replica, ListKind(r) PROVE Listings'
  <2>1. cursor[r] \in 1..Len(ListOrder) /\ cursor'[r] = cursor[r] + 1
    BY <1>4, OrderIsFinite DEF ListKind, TypeOK
  <2>2. Seen(r)' = Seen(r) \cup {ListOrder[cursor[r]]}
    BY <2>1, PassedGrows
  <2>3. ListOrder[cursor[r]] \in Kind /\ Seen(r) \subseteq Kind
    BY <2>1, OrderIsFinite, PassedAreKinds DEF TypeOK
  <2>4. /\ listed'[r] = [listed[r] EXCEPT ![ListOrder[cursor[r]]] =
                                object[ListOrder[cursor[r]]]]
        /\ \A s \in Replica \ {r} : listed'[s] = listed[s] /\ cursor'[s] = cursor[s]
        /\ pc' = pc
    BY <1>4 DEF ListKind, TypeOK
  <2>5. \A k \in Seen(r)' : listed'[r][k] \in Object
    BY <1>4, <2>2, <2>3, <2>4 DEF ListKind, TypeOK
  <2> QED BY <1>4, <2>4, <2>5 DEF ListKind
<1>5. ASSUME NEW r \in Replica, CompileAndSend(r) PROVE Listings'
  <2>1. \A k \in Kind : listed[r][k] \in Object
    BY <1>5, PassedAll DEF CompileAndSend, TypeOK
  <2>2. pc[r] = "list" /\ \E ws : GoOn(r, ws)
    BY <1>5, Zenon DEF CompileAndSend
  <2> QED BY <1>2, <2>1, <2>2
<1>6. ASSUME NEW r \in Replica, ListFails(r) \/ Wake(r) \/ Restart(r) PROVE Listings'
  <2>1. /\ pc'[r] = "list" /\ cursor'[r] = 1
        /\ \A s \in Replica \ {r} : pc'[s] = pc[s] /\ cursor'[s] = cursor[s]
                                     /\ listed'[s] = listed[s]
    BY <1>6 DEF ListFails, Wake, Restart, TypeOK
  <2> QED BY <1>3, <2>1
<1>7. ASSUME NEW k \in Kind, Edit(k) PROVE Listings'
  BY <1>1, <1>7 DEF Edit
<1>8. ASSUME NEW r \in Replica, NEW k \in Kind, Resync(r, k) PROVE Listings'
  BY <1>1, <1>8 DEF Resync
<1>9. ASSUME NEW r \in Replica, NEW k \in Kind, PatchStatus(r, k) PROVE Listings'
  BY <1>2, <1>9 DEF PatchStatus
<1>10. ASSUME NEW r \in Replica, PublishConfigMap(r) PROVE Listings'
  BY <1>2, <1>10 DEF PublishConfigMap
<1>11. ASSUME NEW r \in Replica, NEW w \in Write, WriteFails(r, w) PROVE Listings'
  BY <1>2, <1>11 DEF WriteFails
<1>14. ASSUME NEW r \in Replica, NEW w \in Write, AnswerLost(r, w) PROVE Listings'
  BY <1>2, <1>14 DEF AnswerLost
<1>12. ASSUME NEW r \in Replica, SetLeading(r) PROVE Listings'
  BY <1>1, <1>12 DEF SetLeading, process
<1>13. CASE UNCHANGED vars
  BY <1>1, <1>13 DEF vars
<1> QED
  BY <1>4, <1>5, <1>6, <1>7, <1>8, <1>9, <1>10, <1>11, <1>12, <1>13,
     <1>14 DEF Next, Loop

(* A step that keeps the objects or raises an event, and loses none. *)
Keeps(s) ==
  /\ pending[s] \subseteq pending'[s]
  /\ \A k \in Kind : object'[k] = object[k] \/ k \in pending'[s]

(* No event is lost but by waking: what changes stays pending. *)
LEMMA KeepsStep ==
  ASSUME TypeOK, NEW s \in Replica, [Next]_vars, ~Wake(s)
  PROVE  Keeps(s)
<1> USE DEF TypeOK, Keeps
<1>1. ASSUME NEW k \in Kind, Notify(k),
             \A j \in Kind \ {k} : object'[j] = object[j]
      PROVE  Keeps(s)
  BY <1>1 DEF Notify
<1>2. ASSUME NEW k \in Kind, Edit(k) PROVE Keeps(s)
  BY <1>1, <1>2 DEF Edit
<1>7. ASSUME UNCHANGED <<object, pending>> PROVE Keeps(s)
  BY <1>7
<1>3. ASSUME NEW r \in Replica, NEW k \in Kind, PatchLands(r, k) PROVE Keeps(s)
  BY <1>1, <1>3 DEF PatchLands
<1>9. ASSUME NEW r \in Replica, NEW k \in Kind, PatchStatus(r, k) PROVE Keeps(s)
  BY <1>3, <1>9 DEF PatchStatus
<1>10. ASSUME NEW r \in Replica, NEW w \in Write, AnswerLost(r, w) PROVE Keeps(s)
  BY <1>3, <1>7, <1>10 DEF AnswerLost, PublishLands, Write
<1>4. ASSUME NEW r \in Replica, NEW k \in Kind, Resync(r, k) PROVE Keeps(s)
  BY <1>4 DEF Resync, cluster
<1>5. ASSUME NEW r \in Replica, Wake(r) PROVE Keeps(s)
  BY <1>5 DEF Wake, cluster
<1>6. ASSUME NEW r \in Replica, Restart(r) PROVE Keeps(s)
  BY <1>6 DEF Restart, cluster
<1>8. ASSUME NEW r \in Replica,
             \/ ListKind(r) \/ ListFails(r) \/ CompileAndSend(r)
             \/ PublishConfigMap(r) \/ SetLeading(r)
             \/ \E w \in Write : WriteFails(r, w)
      PROVE  Keeps(s)
  BY <1>7, <1>8 DEF ListKind, ListFails, CompileAndSend, PublishConfigMap,
                    PublishLands, SetLeading, WriteFails, cluster, process
<1> QED
  BY <1>2, <1>4, <1>5, <1>6, <1>7, <1>8, <1>9, <1>10 DEF Next, Loop, vars

(* While a round goes on listing, only ListKind touches what it holds. *)
LEMMA RoundFrame ==
  ASSUME TypeOK, Listings, [Next]_vars, NEW s \in Replica,
         pc'[s] = "list", cursor'[s] # 1, ~ListKind(s)
  PROVE  /\ pc[s] = "list" /\ cursor'[s] = cursor[s]
         /\ listed'[s] = listed[s] /\ sent'[s] = sent[s]
<1> DEFINE Same == /\ pc[s] = "list" /\ cursor'[s] = cursor[s]
                   /\ listed'[s] = listed[s] /\ sent'[s] = sent[s]
<1>1. ~Wake(s) /\ ~ListFails(s) /\ ~Restart(s)
  BY DEF Wake, ListFails, Restart, Listings, TypeOK
<1>2. ASSUME UNCHANGED <<pc, cursor, listed, sent>> PROVE Same
  BY <1>2
<1>3. ASSUME NEW r \in Replica, NEW ws, GoOn(r, ws), sent' = sent PROVE Same
  BY <1>3, GoOnEffect
<1>4. ASSUME NEW r \in Replica \ {s},
             ListKind(r) \/ ListFails(r) \/ Wake(r) \/ Restart(r)
      PROVE  Same
  BY <1>4 DEF ListKind, ListFails, Wake, Restart, TypeOK
<1>5. ASSUME NEW r \in Replica, CompileAndSend(r) PROVE Same
  <2>1. \E ws : GoOn(r, ws)
    BY <1>5, Zenon DEF CompileAndSend
  <2>2. r # s
    BY <2>1, GoOnEffect
  <2>3. sent'[s] = sent[s]
    BY <1>5, <2>2 DEF CompileAndSend
  <2> QED BY <2>1, <2>2, <2>3, GoOnEffect
<1>6. ASSUME NEW r \in Replica, NEW j \in Kind, PatchStatus(r, j) PROVE Same
  BY <1>3, <1>6 DEF PatchStatus
<1>7. ASSUME NEW r \in Replica, PublishConfigMap(r) PROVE Same
  BY <1>3, <1>7 DEF PublishConfigMap
<1>8. ASSUME NEW r \in Replica, NEW w \in Write, WriteFails(r, w) PROVE Same
  BY <1>3, <1>8 DEF WriteFails
<1>14. ASSUME NEW r \in Replica, NEW w \in Write, AnswerLost(r, w) PROVE Same
  BY <1>3, <1>14 DEF AnswerLost
<1>9. ASSUME NEW j \in Kind, Edit(j) PROVE Same
  BY <1>2, <1>9 DEF Edit
<1>10. ASSUME NEW r \in Replica, NEW j \in Kind, Resync(r, j) PROVE Same
  BY <1>2, <1>10 DEF Resync
<1>11. ASSUME NEW r \in Replica, SetLeading(r) PROVE Same
  BY <1>2, <1>11 DEF SetLeading, process
<1>12. ASSUME UNCHANGED vars PROVE Same
  BY <1>2, <1>12 DEF vars
<1>0. [Next]_vars /\ ~ListKind(s)
  OBVIOUS
<1> HIDE DEF Same
<1>13. Same
  BY <1>0, <1>1, <1>4, <1>5, <1>6, <1>7, <1>8, <1>9, <1>10, <1>11, <1>12,
     <1>14 DEF Next, Loop
<1> QED BY <1>13 DEF Same

(* What ListKind adds to the listing of its round. *)
LEMMA ListKindEffect ==
  ASSUME TypeOK, NEW s \in Replica, ListKind(s)
  PROVE  /\ pc[s] = "list" /\ object' = object /\ pending' = pending /\ sent' = sent
         /\ \A k \in Kind : listed'[s][k] = IF k = ListOrder[cursor[s]]
                                             THEN object[k] ELSE listed[s][k]
         /\ Seen(s)' = Seen(s) \cup {ListOrder[cursor[s]]}
<1>1. cursor[s] \in 1..Len(ListOrder) /\ cursor'[s] = cursor[s] + 1
  BY OrderIsFinite DEF ListKind, TypeOK
<1>2. Seen(s)' = Seen(s) \cup {ListOrder[cursor[s]]}
  BY <1>1, PassedGrows DEF Seen
<1>3. /\ pc[s] = "list" /\ object' = object /\ pending' = pending /\ sent' = sent
      /\ listed' = [listed EXCEPT ![s][ListOrder[cursor[s]]] = object[ListOrder[cursor[s]]]]
  BY DEF ListKind, cluster
<1> QED BY <1>2, <1>3 DEF TypeOK

(* What a round has listed is fresh, or its event is pending. *)
LEMMA FreshStep ==
  TypeOK /\ Listings /\ FreshOrPending /\ [Next]_vars => FreshOrPending'
<1> SUFFICES ASSUME TypeOK, Listings, FreshOrPending, [Next]_vars,
                    NEW s \in Replica, pc'[s] = "list", NEW k \in Seen(s)'
             PROVE  k \in pending'[s] \/ listed'[s][k] = object'[k]
  BY DEF FreshOrPending
<1>1. k \in Kind
  BY TypeStep, PassedAreKinds DEF TypeOK, Seen
<1>2. cursor'[s] # 1
  BY PassedEmpty DEF Seen
<1>3. CASE ListKind(s)
  <2>1. k \in Seen(s) \/ k = ListOrder[cursor[s]]
    BY <1>3, ListKindEffect
  <2>2. listed'[s][k] = IF k = ListOrder[cursor[s]] THEN object[k] ELSE listed[s][k]
    BY <1>1, <1>3, ListKindEffect
  <2> QED BY <1>3, <2>1, <2>2, ListKindEffect DEF FreshOrPending
<1>4. CASE ~ListKind(s)
  <2>1. pc[s] = "list" /\ Seen(s)' = Seen(s) /\ listed'[s] = listed[s]
    BY <1>2, <1>4, RoundFrame DEF Seen
  <2>2. ~Wake(s)
    BY <2>1 DEF Wake
  <2>3. Keeps(s)
    BY <2>2, KeepsStep
  <2> QED BY <1>1, <2>1, <2>3 DEF FreshOrPending, Keeps
<1> QED BY <1>3, <1>4

(* What a waiting or writing replica sent is current unless an event is due. *)
LEMMA SentStep ==
  IInv /\ [Next]_vars => SentOrPending'
<1> SUFFICES ASSUME IInv, [Next]_vars, NEW s \in Replica,
                    pc'[s] \in {"write", "wait"}, pending'[s] = {}, Valid'
             PROVE  Serves(sent[s])'
  BY DEF SentOrPending
<1> USE DEF IInv, TypeOK
<1>1. ~Wake(s)
  BY DEF Wake
<1>2. Keeps(s)
  BY <1>1, KeepsStep
<1>3. pending[s] = {} /\ \A k \in Kind : object'[k].spec = object[k].spec
  BY <1>2 DEF Keeps
<1>4. Current' = Current /\ Valid
  BY <1>3 DEF Current, SpecOf, Valid
<1>5. CASE CompileAndSend(s)
  <2>1. /\ \A k \in Kind : listed[s][k] \in Object
        /\ \A k \in Kind : listed[s][k].spec = object[k].spec
    BY <1>3, <1>5, PassedAll DEF CompileAndSend, Listings, FreshOrPending, Seen
  <2>2. SpecOf(listed[s]) = Current
    BY <2>1, FreshDigest
  <2>3. Compile(listed[s]) = [hash |-> Current, from |-> GenOf(listed[s])]
    BY <1>4, <2>2 DEF Compile, Valid
  <2>4. Compile(listed[s]) # None
    BY <2>1, <2>3, CompileType, NoneAssumption DEF GenOf, Object, Snapshot, Current,
       SpecOf, Spec0
  <2>5. Hash(Compile(listed[s])) = Current
    BY <2>3, <2>4 DEF Hash
  <2>6. \/ sent'[s] = Compile(listed[s])
        \/ sent'[s] = sent[s] /\ Hash(sent[s]) = Hash(Compile(listed[s]))
    BY <1>5, <2>4 DEF CompileAndSend
  <2> QED BY <1>4, <2>5, <2>6 DEF Serves, Hash
<1> DEFINE Same == pc[s] \in {"write", "wait"} /\ sent'[s] = sent[s]
<1>6. CASE Same
  BY <1>3, <1>4, <1>6 DEF SentOrPending, Serves, Hash
<1>7. ASSUME ~CompileAndSend(s) PROVE Same
  <2>1. ASSUME UNCHANGED <<pc, sent>> PROVE Same
    BY <2>1
  <2>2. ASSUME NEW r \in Replica, pc[r] = "write", NEW ws, GoOn(r, ws), sent' = sent
        PROVE  Same
    BY <2>2, GoOnEffect
  <2>3. ASSUME NEW r \in Replica, ListFails(r) \/ Wake(r) \/ Restart(r) PROVE Same
    BY <2>3 DEF ListFails, Wake, Restart
  <2>4. ASSUME NEW r \in Replica \ {s}, CompileAndSend(r) PROVE Same
    <3>1. sent'[s] = sent[s]
      BY <2>4 DEF CompileAndSend
    <3>2. \E ws : GoOn(r, ws)
      BY <2>4, Zenon DEF CompileAndSend
    <3> QED BY <2>4, <3>1, <3>2, GoOnEffect
  <2>5. ASSUME NEW r \in Replica, NEW k \in Kind, PatchStatus(r, k) PROVE Same
    BY <2>2, <2>5 DEF PatchStatus
  <2>6. ASSUME NEW r \in Replica, PublishConfigMap(r) PROVE Same
    BY <2>2, <2>6 DEF PublishConfigMap
  <2>7. ASSUME NEW r \in Replica, NEW w \in Write, WriteFails(r, w) PROVE Same
    BY <2>2, <2>7 DEF WriteFails
  <2>12. ASSUME NEW r \in Replica, NEW w \in Write, AnswerLost(r, w) PROVE Same
    BY <2>2, <2>12 DEF AnswerLost
  <2>8. ASSUME NEW k \in Kind, Edit(k) PROVE Same
    BY <2>1, <2>8 DEF Edit
  <2>9. ASSUME NEW r \in Replica, NEW k \in Kind, Resync(r, k) PROVE Same
    BY <2>1, <2>9 DEF Resync
  <2>10. ASSUME NEW r \in Replica, ListKind(r) \/ SetLeading(r) PROVE Same
    BY <2>1, <2>10 DEF ListKind, SetLeading, process
  <2>11. CASE UNCHANGED vars
    BY <2>1, <2>11 DEF vars
  <2> HIDE DEF Same
  <2> QED
    BY <1>7, <2>3, <2>4, <2>5, <2>6, <2>7, <2>8, <2>9, <2>10, <2>11,
       <2>12 DEF Next, Loop
<1> QED BY <1>5, <1>6, <1>7

(* Every reachable state satisfies the invariant. *)
LEMMA Invariance == Spec => []IInv
<1>1. IInv /\ [Next]_vars => IInv'
  BY TypeStep, ListingsStep, FreshStep, SentStep DEF IInv
<1> QED BY InitInvariant, <1>1, PTL DEF Spec

(* Every variable of the operator keeps its type: in particular a round only *)
(* ever compiles a complete listing, and only compiled snapshots reach the   *)
(* channel and the ConfigMap.                                                *)
THEOREM TypeCorrect == Spec => []TypeOK
<1>1. IInv => TypeOK
  BY DEF IInv
<1> QED BY Invariance, <1>1, PTL

(* A replica that sleeps with no event on its way has the cluster's         *)
(* configuration in its channel, whenever that configuration compiles.      *)
THEOREM LostUpdateFreedom == Spec => []NoLostUpdate
<1>1. IInv => NoLostUpdate
  BY DEF IInv, SentOrPending, NoLostUpdate
<1> QED BY Invariance, <1>1, PTL

----------------------------------------------------------------------------
(* What a leader leaves behind *)

(* It leads, has judged since it came to lead or a write failed, and hears    *)
(* of no change.                                                             *)
Undisturbed(r) == leading[r] /\ owed[r] = {} /\ pending[r] = {}

(* What is still to be written was judged on the objects as they are ...     *)
ToWrite ==
  \A r \in Replica :
    pc[r] = "write" =>
      /\ \A k \in Kind : k \in pending[r] \/ listed[r][k] = object[k]
      /\ Undisturbed(r) => writes[r] = RoundWrites(listed[r], published[r])

(* ... and afterwards all is written, as far as the replica can know.        *)
Written ==
  \A r \in Replica :
    (pc[r] = "wait" /\ Undisturbed(r)) =>
      /\ \A k \in Kind : UpToDate(object, k)
      /\ Valid => Serves(published[r])

(* What a replica published is the ConfigMap, until it is displaced.         *)
Remembers ==
  \A r \in Replica : (published[r] # None /\ ~displaced[r]) => configMap = published[r]

(* Nobody but the replica itself, or the election, touches its round's end.  *)
LEMMA WriterFrame ==
  ASSUME TypeOK, [Next]_vars, NEW s \in Replica,
         pc'[s] \in {"write", "wait"}, ~CompileAndSend(s), ~PublishConfigMap(s),
         ~(\E k \in Kind : PatchStatus(s, k)),
         ~(\E w \in Write : WriteFails(s, w) \/ AnswerLost(s, w))
  PROVE  /\ pc'[s] = pc[s] /\ listed'[s] = listed[s]
         /\ writes'[s] = writes[s] /\ published'[s] = published[s]
         /\ (leading'[s] /\ owed'[s] = {}) => (leading[s] /\ owed[s] = {})
<1> DEFINE Same == /\ pc'[s] = pc[s] /\ listed'[s] = listed[s]
                   /\ writes'[s] = writes[s] /\ published'[s] = published[s]
           Kept == (leading'[s] /\ owed'[s] = {}) => (leading[s] /\ owed[s] = {})
<1>0. /\ [Next]_vars /\ ~CompileAndSend(s) /\ ~PublishConfigMap(s)
      /\ ~(\E k \in Kind : PatchStatus(s, k))
      /\ ~(\E w \in Write : WriteFails(s, w) \/ AnswerLost(s, w))
  OBVIOUS
<1>1. ASSUME UNCHANGED <<pc, listed, writes, published, leading, owed>>
      PROVE  Same /\ Kept
  BY <1>1
<1>2. ASSUME NEW r \in Replica \ {s}, NEW ws, GoOn(r, ws)
      PROVE  pc'[s] = pc[s] /\ listed'[s] = listed[s] /\ writes'[s] = writes[s]
  BY <1>2 DEF GoOn, TypeOK
<1>3. ASSUME NEW r \in Replica \ {s}, CompileAndSend(r) PROVE Same /\ Kept
  <2>1. \E ws : GoOn(r, ws)
    BY <1>3, Zenon DEF CompileAndSend
  <2>2. published' = published /\ leading' = leading /\ owed'[s] = owed[s]
    BY <1>3 DEF CompileAndSend, JudgesAgain, TypeOK
  <2> QED BY <1>2, <2>1, <2>2
<1>4. ASSUME NEW r \in Replica \ {s}, NEW k \in Kind, PatchStatus(r, k) PROVE Same /\ Kept
  BY <1>2, <1>4 DEF PatchStatus
<1>5. ASSUME NEW r \in Replica \ {s}, PublishConfigMap(r) PROVE Same /\ Kept
  <2>1. published'[s] = published[s] /\ leading' = leading /\ owed' = owed
    BY <1>5 DEF PublishConfigMap, TypeOK
  <2> QED BY <1>2, <1>5, <2>1 DEF PublishConfigMap
<1>6. ASSUME NEW r \in Replica \ {s}, NEW w \in Write, WriteFails(r, w) \/ AnswerLost(r, w)
      PROVE  Same /\ Kept
  <2>1. published' = published /\ leading' = leading /\ owed'[s] = owed[s]
    BY <1>6 DEF WriteFails, AnswerLost, TypeOK
  <2> QED BY <1>2, <1>6, <2>1 DEF WriteFails, AnswerLost
<1>7. ASSUME NEW r \in Replica, ListKind(r) PROVE Same /\ Kept
  BY <1>7 DEF ListKind, TypeOK
<1>8. ASSUME NEW r \in Replica, ListFails(r) \/ Wake(r) \/ Restart(r) PROVE Same /\ Kept
  <2>1. r # s
    BY <1>8 DEF ListFails, Wake, Restart, TypeOK
  <2> QED BY <1>8, <2>1 DEF ListFails, Wake, Restart, TypeOK
<1>9. ASSUME NEW r \in Replica, SetLeading(r) PROVE Same /\ Kept
  <2>1. Write # {}
    BY DEF Write
  <2> QED BY <1>9, <2>1 DEF SetLeading, process, TypeOK
<1>10. ASSUME NEW k \in Kind, Edit(k) \/ \E r \in Replica : Resync(r, k) PROVE Same /\ Kept
  BY <1>1, <1>10 DEF Edit, Resync
<1>11. ASSUME UNCHANGED vars PROVE Same /\ Kept
  BY <1>1, <1>11 DEF vars
<1> HIDE DEF Same, Kept
<1>12. ASSUME NEW r \in Replica,
              \/ Loop(r) \/ ListFails(r) \/ SetLeading(r) \/ Restart(r)
              \/ \E w \in Write : WriteFails(r, w) \/ AnswerLost(r, w)
       PROVE  Same /\ Kept
  <2>1. CASE r = s
    BY <1>0, <1>7, <1>8, <1>9, <1>12, <2>1 DEF Loop
  <2>2. CASE r # s
    BY <1>3, <1>4, <1>5, <1>6, <1>7, <1>8, <1>9, <1>12, <2>2 DEF Loop
  <2> QED BY <2>1, <2>2
<1>13. Same /\ Kept
  BY <1>0, <1>10, <1>11, <1>12 DEF Next
<1> QED BY <1>13 DEF Same, Kept

(* A listing of the objects as they are compiles to the configuration.       *)
LEMMA CompilesToCurrent ==
  ASSUME TypeOK, Valid
  PROVE  Compile(object) # None /\ Hash(Compile(object)) = Current
<1>1. \A k \in Kind : object[k] \in Object
  BY DEF TypeOK
<1>2. Compile(object) = [hash |-> Current, from |-> GenOf(object)]
  BY DEF Compile, Valid, Current
<1>3. Compile(object) # None
  <2>1. Compile(object) \in Snapshot
    BY <1>1, <1>2 DEF Snapshot, Current, SpecOf, GenOf, Spec0, Object
  <2> QED BY <2>1, NoneAssumption
<1> QED BY <1>2, <1>3 DEF Hash

(* A listing that repeats the objects is the objects. *)
LEMMA ListedObjects ==
  ASSUME TypeOK, NEW s \in Replica, pending[s] = {},
         \A k \in Kind : k \in pending[s] \/ listed[s][k] = object[k]
  PROVE  listed[s] = object
<1>1. object \in [Kind -> Object] /\ listed[s] \in [Kind -> Object \cup {None}]
  BY DEF TypeOK
<1> QED BY <1>1

(* With nothing left to write, all is up to date and published. *)
LEMMA NothingToWrite ==
  ASSUME TypeOK, NEW cm, RoundWrites(object, cm) \subseteq {"ConfigMap"}
  PROVE  /\ \A k \in Kind : UpToDate(object, k)
         /\ (Valid /\ RoundWrites(object, cm) = {}) => Serves(cm)
<1>1. \A k \in Kind : UpToDate(object, k)
  BY OperatorAssumption DEF RoundWrites
<1>2. ASSUME Valid, RoundWrites(object, cm) = {} PROVE Serves(cm)
  BY <1>2, CompilesToCurrent DEF RoundWrites, Serves
<1> QED BY <1>1, <1>2

(* The two hold after a step of the replica's own, or a change it hears of.  *)
LEMMA WrittenStep ==
  IInv /\ ToWrite /\ Written /\ [Next]_vars => ToWrite' /\ Written'
<1> SUFFICES ASSUME IInv, ToWrite, Written, [Next]_vars, NEW s \in Replica,
                    pc'[s] \in {"write", "wait"}
             PROVE  /\ pc'[s] = "write" =>
                         /\ \A k \in Kind : k \in pending'[s] \/ listed'[s][k] = object'[k]
                         /\ Undisturbed(s)' =>
                              writes'[s] = RoundWrites(listed'[s], published'[s])
                    /\ (pc'[s] = "wait" /\ Undisturbed(s)') =>
                         /\ \A k \in Kind : UpToDate(object', k)
                         /\ Valid' => Serves(published[s])'
  BY DEF ToWrite, Written
<1> DEFINE Judged == \A k \in Kind : k \in pending'[s] \/ listed'[s][k] = object'[k]
           Planned == writes'[s] = RoundWrites(listed'[s], published'[s])
           Done == /\ \A k \in Kind : UpToDate(object', k)
                   /\ Valid' => Serves(published[s])'
           Goal == /\ pc'[s] = "write" => Judged /\ (Undisturbed(s)' => Planned)
                   /\ (pc'[s] = "wait" /\ Undisturbed(s)') => Done
<1> SUFFICES Goal
  OBVIOUS
<1>0. [Next]_vars /\ TypeOK /\ TypeOK' /\ Listings /\ FreshOrPending /\ Keeps(s)
  <2>1. ~Wake(s)
    BY DEF Wake, IInv, TypeOK
  <2> QED BY <2>1, KeepsStep, TypeStep DEF IInv
<1>1. ASSUME pending'[s] = {} PROVE pending[s] = {} /\ object' = object
  <2>1. object \in [Kind -> Object] /\ object' \in [Kind -> Object]
    BY <1>0 DEF TypeOK
  <2> QED BY <1>0, <1>1, <2>1 DEF Keeps
<1>2. object' = object => Valid' = Valid /\ TypeOK
  BY <1>0 DEF Valid, Current, SpecOf
<1>3. CASE CompileAndSend(s)
  <2> DEFINE ws == IF leading[s] THEN RoundWrites(listed[s], published[s]) ELSE {}
  <2>1. /\ GoOn(s, ws) /\ object' = object /\ pending' = pending
        /\ published' = published /\ leading' = leading
    BY <1>3 DEF CompileAndSend, cluster
  <2>2. \A k \in Kind : k \in pending[s] \/ listed[s][k] = object[k]
    BY <1>0, <1>3, PassedAll DEF CompileAndSend, FreshOrPending, Seen, TypeOK
  <2>3. /\ writes'[s] = ws /\ pc'[s] = IF ws = {} THEN "wait" ELSE "write"
        /\ pc'[s] = "write" => listed'[s] = listed[s]
    BY <1>0, <2>1 DEF GoOn, TypeOK
  <2> HIDE DEF ws
  <2>4. ASSUME pc'[s] = "write" PROVE Judged /\ (Undisturbed(s)' => Planned)
    BY <2>1, <2>2, <2>3, <2>4 DEF Undisturbed, ws
  <2>5. ASSUME pc'[s] = "wait", Undisturbed(s)' PROVE Done
    <3>1. ws = {} /\ leading[s] /\ pending[s] = {}
      BY <2>1, <2>3, <2>5 DEF Undisturbed
    <3>2. listed[s] = object
      BY <1>0, <2>2, <3>1, ListedObjects
    <3>3. RoundWrites(object, published[s]) = {}
      BY <3>1, <3>2 DEF ws
    <3> QED BY <1>0, <1>2, <2>1, <3>3, NothingToWrite DEF Serves, Current, SpecOf
  <2> QED BY <2>4, <2>5
<1>4. CASE PublishConfigMap(s)
  <2>1. /\ object' = object /\ pending' = pending /\ leading' = leading /\ owed' = owed
        /\ pc[s] = "write" /\ pc'[s] = "wait" /\ writes[s] = {"ConfigMap"}
        /\ published'[s] = Compile(listed[s])
    BY <1>0, <1>4 DEF PublishConfigMap, PublishLands, GoOn, FirstWrite, TypeOK
  <2>2. ASSUME Undisturbed(s)' PROVE Done
    <3>1. Undisturbed(s)
      BY <2>1, <2>2 DEF Undisturbed
    <3>2. /\ \A k \in Kind : k \in pending[s] \/ listed[s][k] = object[k]
          /\ writes[s] = RoundWrites(listed[s], published[s])
      BY <2>1, <3>1 DEF ToWrite
    <3>3. listed[s] = object
      BY <1>0, <3>1, <3>2, ListedObjects DEF Undisturbed
    <3>4. RoundWrites(object, published[s]) \subseteq {"ConfigMap"}
      BY <2>1, <3>2, <3>3
    <3>5. \A k \in Kind : UpToDate(object, k)
      BY <1>0, <3>4, NothingToWrite
    <3>6. Valid => Hash(published'[s]) = Current
      BY <1>0, <2>1, <3>3, CompilesToCurrent
    <3> QED BY <1>2, <2>1, <3>5, <3>6 DEF Serves, Current, SpecOf
  <2> QED BY <2>1, <2>2
<1>5. ASSUME \/ \E k \in Kind : PatchStatus(s, k)
             \/ \E w \in Write : WriteFails(s, w) \/ AnswerLost(s, w)
      PROVE  Goal
  <2>1. pc[s] = "write" /\ (pc'[s] = "write" => listed'[s] = listed[s])
    BY <1>0, <1>5, GoOnEffect DEF PatchStatus, WriteFails, AnswerLost
  <2>2. pc'[s] = "write" => Judged
    BY <1>0, <2>1 DEF ToWrite, Keeps
  <2>3. ~Undisturbed(s)'
    <3>1. ASSUME NEW k \in Kind, PatchStatus(s, k) PROVE pending'[s] # {}
      BY <1>0, <3>1 DEF PatchStatus, PatchLands, Notify, TypeOK
    <3>2. ASSUME NEW w \in Write, WriteFails(s, w) \/ AnswerLost(s, w) PROVE owed'[s] # {}
      <4>1. owed' = [owed EXCEPT ![s] = @ \cup {w}]
        BY <3>2 DEF WriteFails, AnswerLost
      <4>2. owed'[s] = owed[s] \cup {w}
        BY <1>0, <4>1 DEF TypeOK
      <4> QED BY <4>2
    <3> QED BY <1>5, <3>1, <3>2 DEF Undisturbed
  <2> QED BY <2>2, <2>3
<1>6. ASSUME ~CompileAndSend(s), ~PublishConfigMap(s), ~(\E k \in Kind : PatchStatus(s, k)),
             ~(\E w \in Write : WriteFails(s, w) \/ AnswerLost(s, w))
      PROVE  Goal
  <2>1. /\ pc'[s] = pc[s] /\ listed'[s] = listed[s]
        /\ writes'[s] = writes[s] /\ published'[s] = published[s]
        /\ (leading'[s] /\ owed'[s] = {}) => (leading[s] /\ owed[s] = {})
    BY <1>0, <1>6, WriterFrame
  <2>2. pc'[s] = "write" => Judged
    <3>1. pc[s] = "write" => \A k \in Kind : k \in pending[s] \/ listed[s][k] = object[k]
      BY DEF ToWrite
    <3> QED BY <1>0, <2>1, <3>1 DEF Keeps
  <2>3. Undisturbed(s)' => Undisturbed(s) /\ object' = object
    BY <1>1, <2>1 DEF Undisturbed
  <2>4. (pc'[s] = "write" /\ Undisturbed(s)') => Planned
    BY <2>1, <2>3 DEF ToWrite
  <2>5. (pc'[s] = "wait" /\ Undisturbed(s)') => Done
    BY <1>2, <2>1, <2>3 DEF Written, Serves, Current, SpecOf
  <2> QED BY <2>2, <2>4, <2>5
<1> HIDE DEF Goal
<1> QED BY <1>3, <1>4, <1>5, <1>6

(* Only publications change the ConfigMap, and they say whom they displace.  *)
LEMMA RemembersStep == TypeOK /\ Remembers /\ [Next]_vars => Remembers'
<1> SUFFICES ASSUME TypeOK, Remembers, [Next]_vars PROVE Remembers'
  OBVIOUS
<1> USE DEF Remembers, TypeOK
<1>1. ASSUME UNCHANGED <<configMap, published, displaced>> PROVE Remembers'
  BY <1>1
<1>2. ASSUME NEW r \in Replica, PublishConfigMap(r) PROVE Remembers'
  BY <1>2 DEF PublishConfigMap, PublishLands
<1>3. ASSUME NEW r \in Replica, NEW w \in Write, AnswerLost(r, w) PROVE Remembers'
  BY <1>1, <1>3 DEF AnswerLost, PatchLands
<1>4. ASSUME NEW r \in Replica, Restart(r) PROVE Remembers'
  BY <1>4 DEF Restart, cluster
<1>5. ASSUME NEW r \in Replica,
             \/ ListKind(r) \/ ListFails(r) \/ CompileAndSend(r) \/ Wake(r) \/ SetLeading(r)
             \/ \E w \in Write : WriteFails(r, w)
             \/ \E k \in Kind : PatchStatus(r, k) \/ Edit(k) \/ Resync(r, k)
      PROVE  Remembers'
  BY <1>1, <1>5 DEF ListKind, ListFails, CompileAndSend, Wake, SetLeading, WriteFails,
     PatchStatus, PatchLands, Resync, Edit, cluster, process
<1>6. ASSUME NEW k \in Kind, Edit(k) PROVE Remembers'
  BY <1>1, <1>6 DEF Edit
<1>7. ASSUME UNCHANGED vars PROVE Remembers'
  BY <1>1, <1>7 DEF vars
<1> QED
  BY <1>2, <1>3, <1>4, <1>5, <1>6, <1>7 DEF Next, Loop

(* A leader that sleeps with no event on its way, and has judged since it    *)
(* came to lead or a write failed, has every verdict and digest in the       *)
(* statuses and the configuration in the ConfigMap, unless another, or a     *)
(* call whose answer was lost, has written the ConfigMap since it published. *)
THEOREM LeadersSettle == Spec => []SettlesOnTheCluster
<1>1. Init => ToWrite /\ Written /\ Remembers
  BY DEF Init, ToWrite, Written, Remembers
<1>2. IInv /\ Written /\ Remembers => SettlesOnTheCluster
  <2> SUFFICES ASSUME IInv, Written, Remembers, NEW r \in Replica,
                      pc[r] = "wait", Undisturbed(r)
               PROVE  /\ \A k \in Kind : UpToDate(object, k)
                      /\ (Valid /\ ~displaced[r]) => Serves(configMap)
    BY DEF SettlesOnTheCluster, Undisturbed
  <2>1. /\ \A k \in Kind : UpToDate(object, k)
        /\ Valid => Hash(published[r]) = Current
    BY DEF Written, Serves
  <2>2. Current # None
    BY NoneAssumption DEF IInv, TypeOK, Object, Current, SpecOf, Spec0
  <2>3. Valid => published[r] # None
    BY <2>1, <2>2 DEF Hash
  <2> QED BY <2>1, <2>3 DEF Remembers, Serves
<1>3. IInv => TypeOK
  BY DEF IInv
<1>4. Spec => [](ToWrite /\ Written /\ Remembers)
  BY Invariance, <1>1, <1>3, WrittenStep, RemembersStep, PTL DEF Spec
<1> QED BY <1>2, <1>4, Invariance, PTL

----------------------------------------------------------------------------
(* The channel only moves forward *)

Oldest(r, k) == sent[r] # None => sent[r].from[k] <= object[k].gen

(* A round lists every kind no earlier than the snapshot sent before it did. *)
Ages ==
  \A r \in Replica :
    /\ \A k \in Kind : Oldest(r, k)
    /\ pc[r] = "list" =>
         \A k \in Seen(r) :
           /\ listed[r][k].gen <= object[k].gen
           /\ sent[r] # None => sent[r].from[k] <= listed[r][k].gen

(* Only an edit or a patch that gets through changes an object. *)
LEMMA OnlyPatchesAndEdits ==
  ASSUME [Next]_vars, ~(\E k \in Kind : Edit(k)),
         ~(\E r \in Replica, k \in Kind : PatchLands(r, k))
  PROVE  object' = object
<1>1. ASSUME NEW r \in Replica, NEW w \in Write, AnswerLost(r, w) PROVE object' = object
  BY <1>1 DEF AnswerLost, PublishLands, Write
<1>2. ASSUME NEW r \in Replica, NEW k \in Kind, PatchStatus(r, k) PROVE object' = object
  BY <1>2 DEF PatchStatus
<1>3. ASSUME ~(\E r \in Replica, w \in Write : AnswerLost(r, w)),
             ~(\E r \in Replica, k \in Kind : PatchStatus(r, k))
      PROVE  object' = object
  BY <1>3 DEF Next, Loop, vars, Resync, ListKind, ListFails, CompileAndSend,
     PublishConfigMap, PublishLands, WriteFails, Wake, SetLeading, Restart, cluster
<1> QED BY <1>1, <1>2, <1>3

(* Generations only grow. *)
LEMMA GenerationsGrow ==
  ASSUME TypeOK, Listings, [Next]_vars, NEW k \in Kind
  PROVE  object[k].gen \in Nat /\ object'[k].gen \in Nat /\ object[k].gen <= object'[k].gen
<1> USE DEF TypeOK, Object
<1>1. ASSUME NEW j \in Kind, Edit(j) PROVE object[k].gen <= object'[k].gen
  BY <1>1 DEF Edit
<1>2. ASSUME NEW r \in Replica, NEW j \in Kind, PatchLands(r, j)
      PROVE  object[k].gen <= object'[k].gen
  BY <1>2 DEF PatchLands
<1>3. ASSUME object' = object PROVE object[k].gen <= object'[k].gen
  BY <1>3
<1>4. ASSUME ~(\E j \in Kind : Edit(j)),
             ~(\E r \in Replica, j \in Kind : PatchLands(r, j))
      PROVE  object' = object
  BY <1>4, OnlyPatchesAndEdits
<1>5. object[k].gen <= object'[k].gen
  BY <1>1, <1>2, <1>3, <1>4
<1>6. object[k].gen \in Nat /\ object'[k].gen \in Nat
  BY TypeStep
<1> QED BY <1>5, <1>6

(* Only a compile, or a restart, touches a channel. *)
LEMMA ChannelFrame ==
  ASSUME TypeOK, [Next]_vars, NEW s \in Replica, ~CompileAndSend(s), ~Restart(s)
  PROVE  sent'[s] = sent[s]
<1>1. ASSUME NEW r \in Replica \ {s}, CompileAndSend(r) \/ Restart(r)
      PROVE  sent'[s] = sent[s]
  BY <1>1 DEF CompileAndSend, Restart, TypeOK
<1>2. ASSUME sent' = sent PROVE sent'[s] = sent[s]
  BY <1>2
<1>3. ASSUME ~(\E r \in Replica : CompileAndSend(r) \/ Restart(r)) PROVE sent' = sent
  BY <1>3 DEF Next, Loop, vars, Edit, Resync, ListKind, ListFails, PatchStatus,
     PublishConfigMap, WriteFails, AnswerLost, Wake, SetLeading, process
<1> QED BY <1>1, <1>2, <1>3

(* The listing a compile works on is complete, and no older than the channel. *)
LEMMA CompileForward ==
  ASSUME TypeOK, Listings, Ages, NEW s \in Replica, CompileAndSend(s)
  PROVE  \/ sent'[s] = sent[s]
         \/ /\ sent'[s] = Compile(listed[s]) /\ sent'[s] # None
            /\ \A k \in Kind : /\ sent'[s].from[k] <= object[k].gen
                               /\ sent[s] # None => sent[s].from[k] <= sent'[s].from[k]
<1>1. \A k \in Kind :
        /\ listed[s][k].gen <= object[k].gen
        /\ sent[s] # None => sent[s].from[k] <= listed[s][k].gen
  BY PassedAll DEF CompileAndSend, Ages, Seen, TypeOK
<1>2. \/ sent'[s] = sent[s]
      \/ sent'[s] = Compile(listed[s]) /\ Compile(listed[s]) # None
  BY DEF CompileAndSend, TypeOK
<1>3. Compile(listed[s]) # None =>
        \A k \in Kind : Compile(listed[s]).from[k] = listed[s][k].gen
  BY DEF Compile, GenOf
<1> QED BY <1>1, <1>2, <1>3

(* Every step keeps the ages: nothing sent is newer than what is listed. *)
LEMMA AgesStep == TypeOK /\ Listings /\ Ages /\ [Next]_vars => Ages'
<1> SUFFICES ASSUME TypeOK, Listings, Ages, [Next]_vars PROVE Ages'
  OBVIOUS
<1>1. ASSUME NEW s \in Replica, NEW k \in Kind PROVE Oldest(s, k)'
  <2>1. /\ object[k].gen \in Nat /\ object'[k].gen \in Nat
        /\ object[k].gen <= object'[k].gen
    BY GenerationsGrow
  <2>2. \/ sent'[s] = None \/ sent'[s] = sent[s]
        \/ sent'[s].from[k] <= object[k].gen
    BY ChannelFrame, CompileForward DEF Restart, TypeOK
  <2>3. sent'[s] # None => sent'[s].from[k] \in Nat
    BY TypeStep DEF TypeOK, Snapshot
  <2>4. sent'[s] = sent[s] /\ sent'[s] # None => sent'[s].from[k] <= object[k].gen
    BY DEF Ages, Oldest
  <2> QED BY <2>1, <2>2, <2>3, <2>4 DEF Oldest
<1>2. ASSUME NEW s \in Replica, pc'[s] = "list", NEW k \in Seen(s)'
      PROVE  /\ listed'[s][k].gen <= object'[k].gen
             /\ sent'[s] # None => sent'[s].from[k] <= listed'[s][k].gen
  <2>1. k \in Kind
    BY <1>2, TypeStep, PassedAreKinds DEF TypeOK, Seen
  <2>2. cursor'[s] # 1
    BY <1>2, PassedEmpty DEF Seen
  <2>3. /\ object[k].gen \in Nat /\ object'[k].gen \in Nat
        /\ object[k].gen <= object'[k].gen
    BY <2>1, GenerationsGrow
  <2>4. CASE ListKind(s)
    <3>1. k \in Seen(s) \/ k = ListOrder[cursor[s]]
      BY <1>2, <2>4, ListKindEffect
    <3>2. listed'[s][k] = IF k = ListOrder[cursor[s]] THEN object[k] ELSE listed[s][k]
      BY <2>1, <2>4, ListKindEffect
    <3>3. pc[s] = "list" /\ sent' = sent /\ object' = object
      BY <2>4, ListKindEffect
    <3> QED BY <2>1, <2>3, <3>1, <3>2, <3>3 DEF Ages, Oldest
  <2>5. CASE ~ListKind(s)
    <3>1. /\ pc[s] = "list" /\ Seen(s)' = Seen(s) /\ listed'[s] = listed[s]
          /\ sent'[s] = sent[s]
      BY <1>2, <2>2, <2>5, RoundFrame DEF Seen
    <3>2. listed[s][k].gen \in Nat
      BY <1>2, <2>1, <3>1 DEF Listings, Object
    <3> QED BY <1>2, <2>3, <3>1, <3>2 DEF Ages
  <2> QED BY <2>4, <2>5
<1> QED BY <1>1, <1>2 DEF Ages

(* And they hold before anything is listed. *)
LEMMA InitAges == Init => Ages
BY PassedEmpty DEF Init, Ages, Oldest, Seen

(* A replica that stays up never empties its channel and never goes back, in *)
(* any kind, to a generation older than the one its channel already showed.  *)
THEOREM ForwardChannel == Spec => ChannelMovesForward
<1>1. ASSUME TypeOK, Listings, Ages, [Next]_vars
      PROVE  [\A r \in Replica :
                sent[r] # None =>
                  \/ Restart(r)
                  \/ sent'[r] # None /\ ~Older(sent'[r], sent[r])]_vars
  <2> SUFFICES ASSUME NEW r \in Replica, sent[r] # None, ~Restart(r)
               PROVE  sent'[r] # None /\ ~Older(sent'[r], sent[r])
    OBVIOUS
  <2>1. sent[r] \in Snapshot
    BY <1>1 DEF TypeOK
  <2>2. CASE sent'[r] = sent[r]
    BY <2>1, <2>2 DEF Older, Snapshot
  <2>3. CASE CompileAndSend(r) /\ sent'[r] # sent[r]
    <3>1. sent'[r] \in Snapshot
      BY <1>1, <2>3, CompileForward, TypeStep DEF TypeOK
    <3> QED BY <1>1, <2>1, <2>3, <3>1, CompileForward DEF Older, Snapshot
  <2> QED BY <1>1, <2>2, <2>3, ChannelFrame
<1>2. IInv => TypeOK /\ Listings
  BY DEF IInv
<1>3. Spec => []Ages
  BY Invariance, InitAges, AgesStep, <1>2, PTL DEF Spec
<1> QED BY Invariance, <1>1, <1>2, <1>3, PTL DEF Spec, ChannelMovesForward

----------------------------------------------------------------------------
(* The channels implement SnapshotFeed *)

Configuration == [hash |-> IF Valid THEN Current ELSE None, from |-> GenOf(object)]

(* Every edit is paid for, so generations stay within what Bound allows. *)
Paid == \A k \in Kind : object[k].gen + left["edit"] <= 1 + Bound["edit"]

(* The edits that may still come are counted by a number. *)
LEMMA EditBudget == TypeOK => Bound["edit"] \in Nat /\ left["edit"] \in Nat
BY OperatorAssumption DEF TypeOK, Chance, Count

(* A first generation takes no edit. *)
LEMMA InitPaid == Init => Paid
<1>1. Bound["edit"] \in Nat
  BY OperatorAssumption DEF Chance, Count
<1> QED BY <1>1 DEF Init, Paid

(* Only an edit changes a spec or a generation. *)
LEMMA SpecsStay ==
  ASSUME TypeOK, [Next]_vars, ~(\E k \in Kind : Edit(k))
  PROVE  /\ \A k \in Kind : object'[k].spec = object[k].spec /\ object'[k].gen = object[k].gen
         /\ left'["edit"] <= left["edit"]
<1> USE DEF TypeOK, Object, Chance, Count
<1>1. ASSUME NEW c \in Chance, Spend(c) PROVE left'["edit"] <= left["edit"]
  <2>1. left["edit"] \in Nat
    OBVIOUS
  <2>2. left'["edit"] = IF c = "edit" THEN left["edit"] - 1 ELSE left["edit"]
    BY <1>1 DEF Spend
  <2> QED BY <2>1, <2>2
<1>2. \A j \in Kind : object'[j].spec = object[j].spec /\ object'[j].gen = object[j].gen
  <2>1. ASSUME NEW r \in Replica, NEW k \in Kind, PatchLands(r, k)
        PROVE  \A j \in Kind : object'[j].spec = object[j].spec /\ object'[j].gen = object[j].gen
    BY <2>1 DEF PatchLands
  <2> QED BY <2>1, OnlyPatchesAndEdits
<1>3. ASSUME NEW r \in Replica,
             \/ ListFails(r) \/ \E w \in Write : WriteFails(r, w) \/ AnswerLost(r, w)
             \/ SetLeading(r) \/ Restart(r) \/ \E k \in Kind : Resync(r, k)
      PROVE  left'["edit"] <= left["edit"]
  BY <1>1, <1>3 DEF ListFails, WriteFails, AnswerLost, SetLeading, Restart, Resync
<1>4. ASSUME NEW r \in Replica, Loop(r) PROVE left' = left
  BY <1>4 DEF Loop, ListKind, CompileAndSend, PatchStatus, PublishConfigMap, Wake
<1>5. CASE UNCHANGED vars
  BY <1>5 DEF vars
<1> QED BY <1>2, <1>3, <1>4, <1>5 DEF Next

(* Every step keeps the generations paid for by edits. *)
LEMMA PaidStep == TypeOK /\ Listings /\ Paid /\ [Next]_vars => Paid'
<1> SUFFICES ASSUME TypeOK, Listings, Paid, [Next]_vars, NEW k \in Kind
             PROVE  object'[k].gen + left'["edit"] <= 1 + Bound["edit"]
  BY DEF Paid
<1>1. /\ Bound["edit"] \in Nat /\ left["edit"] \in Nat /\ left'["edit"] \in Nat
      /\ object[k].gen + left["edit"] <= 1 + Bound["edit"]
  <2>1. left \in [Count -> Nat] /\ left' \in [Count -> Nat]
    BY TypeStep DEF TypeOK
  <2> QED BY <2>1, OperatorAssumption DEF Chance, Count, Paid
<1>2. object[k].gen \in Nat /\ object'[k].gen \in Nat
  BY GenerationsGrow
<1>3. ASSUME NEW j \in Kind, Edit(j) PROVE object'[k].gen + left'["edit"] <= 1 + Bound["edit"]
  <2>1. object'[k].gen <= object[k].gen + 1
    BY <1>2, <1>3 DEF Edit, TypeOK, Object
  <2>2. left'["edit"] = left["edit"] - 1
    BY <1>3 DEF Edit, Spend, TypeOK, Chance, Count
  <2> QED BY <1>1, <1>2, <2>1, <2>2
<1>4. CASE ~(\E j \in Kind : Edit(j))
  <2>1. object'[k].gen = object[k].gen /\ left'["edit"] <= left["edit"]
    BY <1>4, SpecsStay
  <2> QED BY <1>1, <1>2, <2>1
<1> QED BY <1>3, <1>4

(* So generations are bounded, as those of SnapshotFeed are. *)
LEMMA GenerationRange ==
  ASSUME TypeOK, Paid, NEW k \in Kind
  PROVE  object[k].gen \in 1..(1 + Bound["edit"])
<1>1. object[k].gen \in Nat \ {0}
  BY DEF TypeOK, Object
<1>2. object[k].gen + left["edit"] <= 1 + Bound["edit"]
  BY DEF Paid
<1> QED BY <1>1, <1>2, EditBudget

(* A listing of the generation the cluster has is a listing of its content. *)
SameAge ==
  \A r \in Replica :
    pc[r] = "list" =>
      \A k \in Seen(r) :
        listed[r][k].gen = object[k].gen => listed[r][k].spec = object[k].spec

(* Nothing is listed at first. *)
LEMMA InitSameAge == Init => SameAge
BY PassedEmpty DEF Init, SameAge, Seen

(* A listed object of the present generation has the present spec. *)
LEMMA SameAgeStep == TypeOK /\ Listings /\ Ages /\ SameAge /\ [Next]_vars => SameAge'
<1> SUFFICES ASSUME TypeOK, Listings, Ages, SameAge, [Next]_vars,
                    NEW s \in Replica, pc'[s] = "list", NEW k \in Seen(s)',
                    listed'[s][k].gen = object'[k].gen
             PROVE  listed'[s][k].spec = object'[k].spec
  BY DEF SameAge
<1>1. k \in Kind
  BY TypeStep, PassedAreKinds DEF TypeOK, Seen
<1>2. cursor'[s] # 1
  BY PassedEmpty DEF Seen
<1>3. CASE ListKind(s)
  <2>1. k \in Seen(s) \/ k = ListOrder[cursor[s]]
    BY <1>3, ListKindEffect
  <2>2. listed'[s][k] = IF k = ListOrder[cursor[s]] THEN object[k] ELSE listed[s][k]
    BY <1>1, <1>3, ListKindEffect
  <2>3. pc[s] = "list" /\ object' = object
    BY <1>3, ListKindEffect
  <2> QED BY <2>1, <2>2, <2>3 DEF SameAge
<1>4. CASE ~ListKind(s)
  <2>1. pc[s] = "list" /\ k \in Seen(s) /\ listed'[s] = listed[s]
    BY <1>2, <1>4, RoundFrame DEF Seen
  <2>2. listed[s][k].gen <= object[k].gen
    BY <2>1 DEF Ages
  <2>3. CASE \E j \in Kind : Edit(j)
    <3>1. PICK j \in Kind : Edit(j)
      BY <2>3
    <3>2. object[k].gen \in Nat /\ listed[s][k].gen \in Nat
      BY <1>1, <2>1 DEF TypeOK, Listings, Object
    <3>3. j # k
      <4>1. j = k => object'[k].gen = object[k].gen + 1
        BY <3>1 DEF Edit, TypeOK, Object
      <4> QED BY <2>1, <2>2, <3>2, <4>1
    <3>4. object'[k] = object[k]
      BY <1>1, <3>1, <3>3 DEF Edit, TypeOK
    <3> QED BY <2>1, <3>4 DEF SameAge
  <2>4. CASE ~(\E j \in Kind : Edit(j))
    <3>1. object'[k].spec = object[k].spec /\ object'[k].gen = object[k].gen
      BY <1>1, <2>4, SpecsStay
    <3> QED BY <2>1, <3>1 DEF SameAge
  <2> QED BY <2>3, <2>4
<1> QED BY <1>3, <1>4

(* So a snapshot compiled from the cluster's generations is its configuration. *)
LEMMA CompileCurrent ==
  ASSUME TypeOK, Listings, SameAge, NEW s \in Replica, CompileAndSend(s),
         Compile(listed[s]) # None, GenOf(listed[s]) = GenOf(object)
  PROVE  Compile(listed[s]) = Configuration
<1>1. Kind \subseteq Seen(s) /\ pc[s] = "list"
  BY PassedAll DEF CompileAndSend, Seen, TypeOK
<1>2. \A k \in Kind : listed[s][k].gen = object[k].gen
  <2>1. \A k \in Kind : GenOf(listed[s])[k] = GenOf(object)[k]
    OBVIOUS
  <2> QED BY <2>1 DEF GenOf
<1>3. SpecOf(listed[s]) = Current
  BY <1>1, <1>2 DEF SameAge, SpecOf, Current
<1> QED BY <1>3 DEF Compile, Configuration, Valid

(* What the channel read at a generation is that generation's content: no   *)
(* two snapshots of one replica were compiled from the same objects.        *)
SentAge ==
  \A r \in Replica :
    sent[r] # None =>
      /\ \A k \in Kind :
           sent[r].from[k] = object[k].gen => sent[r].hash[k] = object[k].spec
      /\ pc[r] = "list" =>
           \A k \in Seen(r) :
             sent[r].from[k] = listed[r][k].gen => sent[r].hash[k] = listed[r][k].spec

(* Nothing is sent at first. *)
LEMMA InitSentAge == Init => SentAge
BY DEF Init, SentAge

(* A compile that changes the channel reads its digest off the listing. *)
LEMMA CompileReads ==
  ASSUME TypeOK, NEW s \in Replica, CompileAndSend(s), sent'[s] # sent[s]
  PROVE  /\ Compile(listed[s]) # None /\ sent'[s] = Compile(listed[s])
         /\ sent'[s].hash = SpecOf(listed[s]) /\ sent'[s].from = GenOf(listed[s])
         /\ Hash(sent'[s]) # Hash(sent[s])
<1>1. /\ Compile(listed[s]) # None /\ sent'[s] = Compile(listed[s])
      /\ Hash(sent'[s]) # Hash(sent[s])
  BY DEF CompileAndSend, TypeOK
<1> QED BY <1>1 DEF Compile

(* So has what was sent. *)
LEMMA SentAgeStep ==
  TypeOK /\ Listings /\ Ages /\ SameAge /\ SentAge /\ [Next]_vars => SentAge'
<1> SUFFICES ASSUME TypeOK, Listings, Ages, SameAge, SentAge, [Next]_vars,
                    NEW s \in Replica, sent'[s] # None
             PROVE  /\ \A k \in Kind :
                         sent'[s].from[k] = object'[k].gen => sent'[s].hash[k] = object'[k].spec
                    /\ pc'[s] = "list" =>
                         \A k \in Seen(s)' :
                           sent'[s].from[k] = listed'[s][k].gen
                             => sent'[s].hash[k] = listed'[s][k].spec
  BY DEF SentAge
<1>1. CASE sent'[s] = sent[s]
  <2>1. ASSUME NEW k \in Kind, sent'[s].from[k] = object'[k].gen
        PROVE  sent'[s].hash[k] = object'[k].spec
    <3>1. sent[s].from[k] <= object[k].gen
      BY <1>1 DEF Ages, Oldest
    <3>2. CASE \E j \in Kind : Edit(j)
      <4>1. PICK j \in Kind : Edit(j)
        BY <3>2
      <4>2. object[k].gen \in Nat /\ sent[s].from[k] \in Nat
        BY <1>1 DEF TypeOK, Object, Snapshot
      <4>3. j = k => object'[k].gen = object[k].gen + 1
        BY <4>1 DEF Edit, TypeOK, Object
      <4>4. object'[k] = object[k]
        BY <1>1, <2>1, <3>1, <4>1, <4>2, <4>3 DEF Edit, TypeOK
      <4> QED BY <1>1, <2>1, <4>4 DEF SentAge
    <3>3. CASE ~(\E j \in Kind : Edit(j))
      <4>1. object'[k].spec = object[k].spec /\ object'[k].gen = object[k].gen
        BY <3>3, SpecsStay
      <4> QED BY <1>1, <2>1, <4>1 DEF SentAge
    <3> QED BY <3>2, <3>3
  <2>2. ASSUME pc'[s] = "list", NEW k \in Seen(s)', sent'[s].from[k] = listed'[s][k].gen
        PROVE  sent'[s].hash[k] = listed'[s][k].spec
    <3>1. k \in Kind
      BY <2>2, TypeStep, PassedAreKinds DEF TypeOK, Seen
    <3>2. cursor'[s] # 1
      BY <2>2, PassedEmpty DEF Seen
    <3>3. CASE ListKind(s)
      <4>1. k \in Seen(s) \/ k = ListOrder[cursor[s]]
        BY <2>2, <3>3, ListKindEffect
      <4>2. listed'[s][k] = IF k = ListOrder[cursor[s]] THEN object[k] ELSE listed[s][k]
        BY <3>1, <3>3, ListKindEffect
      <4>3. pc[s] = "list"
        BY <3>3, ListKindEffect
      <4> QED BY <1>1, <2>2, <3>1, <4>1, <4>2, <4>3 DEF SentAge
    <3>4. CASE ~ListKind(s)
      <4>1. pc[s] = "list" /\ k \in Seen(s) /\ listed'[s] = listed[s]
        BY <2>2, <3>2, <3>4, RoundFrame DEF Seen
      <4> QED BY <1>1, <2>2, <4>1 DEF SentAge
    <3> QED BY <3>3, <3>4
  <2> QED BY <2>1, <2>2
<1>2. CASE sent'[s] # sent[s]
  <2>1. CompileAndSend(s)
    BY <1>2, ChannelFrame DEF Restart, TypeOK
  <2>2. pc[s] = "list" /\ Kind \subseteq Seen(s)
    BY <2>1, PassedAll DEF CompileAndSend, Seen, TypeOK
  <2>3. /\ \A k \in Kind : sent'[s].hash[k] = listed[s][k].spec
        /\ \A k \in Kind : sent'[s].from[k] = listed[s][k].gen
    BY <1>2, <2>1, CompileReads DEF SpecOf, GenOf
  <2>4. object' = object
    BY <2>1 DEF CompileAndSend, cluster
  <2>5. pc'[s] # "list"
    <3>1. \E ws : GoOn(s, ws)
      BY <2>1, Zenon DEF CompileAndSend
    <3> QED BY <3>1 DEF GoOn, TypeOK
  <2> QED BY <2>2, <2>3, <2>4, <2>5 DEF SameAge
<1> QED BY <1>1, <1>2

(* So a changed channel was compiled from other generations. *)
LEMMA CompileAdvances ==
  ASSUME TypeOK, Listings, SentAge, NEW s \in Replica, CompileAndSend(s),
         sent[s] # None, sent'[s] # sent[s]
  PROVE  sent'[s].from # sent[s].from
<1> SUFFICES ASSUME sent'[s].from = sent[s].from PROVE FALSE
  OBVIOUS
<1>1. pc[s] = "list" /\ Kind \subseteq Seen(s)
  BY PassedAll DEF CompileAndSend, Seen, TypeOK
<1>2. sent'[s].hash = SpecOf(listed[s]) /\ sent'[s].from = GenOf(listed[s])
  BY CompileReads
<1>3. \A k \in Kind : sent[s].from[k] = listed[s][k].gen
  BY <1>2 DEF GenOf
<1>4. \A k \in Kind : sent[s].hash[k] = listed[s][k].spec
  BY <1>1, <1>3 DEF SentAge
<1>5. sent[s].hash = SpecOf(listed[s])
  <2>1. sent[s].hash \in [Kind -> Content]
    BY DEF TypeOK, Snapshot, Spec0
  <2> QED BY <1>4, <2>1 DEF SpecOf
<1>6. sent'[s] # None
  BY CompileReads
<1> QED BY <1>2, <1>5, <1>6, CompileReads DEF Hash

(* The configuration is one of those SnapshotFeed ranges over. *)
LEMMA ConfigurationType == TypeOK /\ Paid => Configuration \in Feed!Configuration
<1> SUFFICES ASSUME TypeOK, Paid PROVE Configuration \in Feed!Configuration
  OBVIOUS
<1>1. \A k \in Kind : object[k].gen \in 1..(1 + Bound["edit"])
  BY GenerationRange
<1>2. GenOf(object) \in [Kind -> 1..(1 + Bound["edit"])]
  BY <1>1 DEF GenOf
<1>3. Current \in Spec0
  BY DEF TypeOK, Current, SpecOf, Object, Spec0
<1> QED BY <1>2, <1>3 DEF Configuration, Feed!Configuration

(* And so it is after the step. *)
LEMMA NextConfigurationType == TypeOK' /\ Paid' => (Configuration \in Feed!Configuration)'
BY ConfigurationType, PTL

(* A snapshot no younger than the cluster is one the feed may offer. *)
LEMMA SnapshotType ==
  ASSUME TypeOK, Paid, NEW s \in Snapshot,
         \A k \in Kind : s.from[k] <= object[k].gen
  PROVE  s \in Feed!Snapshot /\ Feed!AtMost(s, Configuration)
<1>1. ASSUME NEW k \in Kind PROVE s.from[k] \in 1..(1 + Bound["edit"])
  <2>1. object[k].gen \in 1..(1 + Bound["edit"]) /\ Bound["edit"] \in Nat
    BY GenerationRange, EditBudget
  <2>2. s.from[k] \in Nat \ {0} /\ s.from[k] <= object[k].gen
    BY DEF Snapshot
  <2> QED BY <2>1, <2>2
<1>2. s.from \in [Kind -> 1..(1 + Bound["edit"])]
  BY <1>1 DEF Snapshot
<1> QED BY <1>2 DEF Snapshot, Feed!Snapshot, Feed!AtMost, Configuration, GenOf

(* Each step of the operator is one of the feed, or a stutter. *)
LEMMA FeedStep ==
  ASSUME TypeOK, Listings, Ages, Paid, SameAge, SentAge, TypeOK', Paid',
         [Next]_vars
  PROVE  [Feed!FeedNext]_(Feed!feed)
<1>1. ASSUME NEW k \in Kind, Edit(k) PROVE [Feed!FeedNext]_(Feed!feed)
  <2>1. Configuration' \in Feed!Configuration
    BY NextConfigurationType
  <2>2. Feed!AtMost(Configuration, Configuration')
    BY GenerationsGrow DEF Feed!AtMost, Configuration, GenOf
  <2>3. Configuration' = [hash |-> IF Valid' THEN Current' ELSE None, from |-> GenOf(object')]
    BY DEF Configuration
  <2>4. Feed!Change(Configuration')
    BY <1>1, <2>1, <2>2, <2>3 DEF Edit, Feed!Change, Configuration
  <2> QED BY <2>1, <2>4 DEF Feed!FeedNext
<1>2. ASSUME ~(\E k \in Kind : Edit(k)) PROVE Configuration' = Configuration
  <2>1. \A k \in Kind : object'[k].spec = object[k].spec /\ object'[k].gen = object[k].gen
    BY <1>2, SpecsStay
  <2>2. Current' = Current /\ GenOf(object') = GenOf(object)
    BY <2>1 DEF Current, SpecOf, GenOf
  <2> QED BY <2>2 DEF Configuration, Valid
<1>3. ASSUME NEW r \in Replica, Restart(r) PROVE [Feed!FeedNext]_(Feed!feed)
  <2>1. ~(\E k \in Kind : Edit(k))
    BY <1>3 DEF Restart, Edit, cluster, TypeOK, Object
  <2>2. Feed!Forget(r)
    BY <1>2, <1>3, <2>1 DEF Restart, Feed!Forget, Configuration
  <2> QED BY <2>2 DEF Feed!FeedNext
<1>4. ASSUME NEW r \in Replica, CompileAndSend(r), sent' # sent
      PROVE  [Feed!FeedNext]_(Feed!feed)
  <2>1. ~(\E k \in Kind : Edit(k))
    BY <1>4 DEF Edit
  <2>2. sent' = [sent EXCEPT ![r] = sent'[r]]
    BY <1>4 DEF CompileAndSend, TypeOK
  <2>a. sent'[r] # sent[r]
    BY <1>4, <2>2 DEF TypeOK
  <2>b. sent'[r] \in Snapshot \cup {None}
    BY DEF TypeOK
  <2>3. /\ sent'[r] \in Snapshot
        /\ \A k \in Kind : /\ sent'[r].from[k] <= object[k].gen
                           /\ sent[r] # None => sent[r].from[k] <= sent'[r].from[k]
    BY <1>4, <2>a, <2>b, CompileForward
  <2>4. sent'[r] \in Feed!Snapshot /\ Feed!AtMost(sent'[r], Configuration)
    BY <2>3, SnapshotType
  <2>5. sent[r] # None => Feed!AtMost(sent[r], sent'[r]) /\ sent'[r].from # sent[r].from
    BY <1>4, <2>a, <2>3, CompileAdvances DEF Feed!AtMost
  <2>6. sent'[r].from = Configuration.from => sent'[r] = Configuration
    <3>1. sent'[r] = Compile(listed[r]) /\ Compile(listed[r]) # None
      BY <1>4, <2>2, <2>a, <2>3, NoneAssumption, CompileForward
    <3>2. sent'[r].from = GenOf(listed[r]) /\ Configuration.from = GenOf(object)
      BY <3>1 DEF Compile, Configuration
    <3> QED BY <1>4, <3>1, <3>2, CompileCurrent
  <2>7. Feed!Offer(r, sent'[r])
    BY <1>2, <2>1, <2>2, <2>4, <2>5, <2>6 DEF Feed!Offer, Configuration
  <2> QED BY <2>4, <2>7 DEF Feed!FeedNext
<1>5. ASSUME ~(\E k \in Kind : Edit(k)), sent' = sent PROVE [Feed!FeedNext]_(Feed!feed)
  BY <1>2, <1>5 DEF Feed!feed, Configuration
<1>6. ASSUME ~(\E r \in Replica : CompileAndSend(r) \/ Restart(r)) PROVE sent' = sent
  BY <1>6 DEF Next, Loop, vars, Edit, Resync, ListKind, ListFails, PatchStatus,
     PublishConfigMap, WriteFails, AnswerLost, Wake, SetLeading, process
<1> QED BY <1>1, <1>3, <1>4, <1>5, <1>6

(* The channels of the replicas behave like the slots of SnapshotFeed: what a *)
(* watcher may rely on without knowing how rounds list, compile and fail.     *)
THEOREM OperatorImplementsFeed == Spec => ImplementsFeed
<1>1. Init => Feed!FeedInit
  <2> SUFFICES ASSUME Init PROVE Feed!FeedInit
    OBVIOUS
  <2>1. Configuration \in Feed!Configuration
    BY InitInvariant, InitPaid, ConfigurationType DEF IInv
  <2> QED BY <2>1 DEF Init, Feed!FeedInit, Configuration
<1>2. IInv => TypeOK /\ Listings
  BY DEF IInv
<1>3. Spec => []Ages
  BY Invariance, InitAges, AgesStep, <1>2, PTL DEF Spec
<1>4. Spec => []Paid
  BY Invariance, InitPaid, PaidStep, <1>2, PTL DEF Spec
<1>5. Spec => []SameAge
  BY Invariance, InitSameAge, SameAgeStep, <1>2, <1>3, PTL DEF Spec
<1>6. Spec => []SentAge
  BY Invariance, InitSentAge, SentAgeStep, <1>2, <1>3, <1>5, PTL DEF Spec
<1> QED BY Invariance, FeedStep, <1>1, <1>2, <1>3, <1>4, <1>5, <1>6, PTL
        DEF Spec, ImplementsFeed, Feed!FeedSpec

----------------------------------------------------------------------------
(* Leader election.  The flags above are those the election tasks of Lease *)
(* set, for every set of replicas and every period, duration, latency and  *)
(* skew, and for any number of failed calls and crashes.                   *)

(* A tick's plan and stamp fit the step it stands at.                      *)
InOrder(r) ==
  /\ step[r] \in {"sleep", "get", "down"} => plan[r] = "none"
  /\ step[r] \in {"got", "wrote"} => plan[r] # "none"
  /\ step[r] = "write" => plan[r] \in {"create", "apply"}
  /\ step[r] \in Calling => timer[r] <= Latency
  /\ step[r] \in {"get", "got"} => stamp[r] + timer[r] <= Latency
  /\ step[r] \in {"write", "wrote"} => stamp[r] + timer[r] <= 2 * Latency

TicksInOrder == \A r \in Replica : InOrder(r)

(* Before the first create nobody leads or thinks it has written.          *)
NobodyBefore ==
  holder = NoHolder =>
    \A r \in Replica : ~leading[r] /\ plan[r] \in {"none", "create"} /\ step[r] # "wrote"

(* A leader renews or stands back: it never creates.                       *)
Led(r) == leading[r] =>
  /\ step[r] # "down"
  /\ plan[r] # "create"
  /\ step[r] = "wrote" => plan[r] = "apply"

LeadersRenew == \A r \in Replica : Led(r)

(* How old the stamp in the lease may be when a leader's timer runs out.   *)
Slack(r) ==
  IF step[r] = "sleep" THEN Period + 3 * Latency
  ELSE IF step[r] = "write" THEN Period + 5 * Latency
  ELSE IF step[r] = "wrote" THEN 3 * Latency
  ELSE Period + 4 * Latency

(* While somebody leads the stamp is recent, whoever wrote it: so a tick   *)
(* that reads a lease held by another stands back.                         *)
RecentFor(r) ==
  (leading[r] \/ (step[r] = "wrote" /\ plan[r] # "standback")) => age + timer[r] <= Slack(r)

Recent == \A r \in Replica : RecentFor(r)

(* A leader that is about to renew holds the lease.                        *)
RenewsOwn(r) == (leading[r] /\ plan[r] = "apply") => holder = r

OnlyHolderRenews == \A r \in Replica : RenewsOwn(r)

(* A write decided before the holder's own write got through lands before  *)
(* the holder's next tick.                                                 *)
Late(a, z) ==
  (leading[a] /\ holder = a /\ z # a /\ step[z] \in {"got", "write"} /\ plan[z] = "apply")
    => step[a] = "sleep" /\ Period <= stamp[z] + timer[a]

LateWritesLandEarly == \A a, z \in Replica : Late(a, z)

(* A replica that does not hold the lease and whose next answer will say   *)
(* so: it stops leading within a period and a call.                        *)
Remaining(x) == IF step[x] = "sleep" THEN timer[x] + Latency ELSE timer[x]

Doomed(x, t) ==
  /\ holder # x
  /\ step[x] \in {"sleep", "get", "down"} \/ plan[x] = "standback"
  /\ leading[x] => t + Remaining(x) <= Period + Latency

(* Of two leaders one is doomed.                                           *)
Handover(a, z) ==
  (a # z /\ ((leading[a] /\ leading[z]) \/ together[a][z] > 0)) =>
    /\ holder # NoHolder
    /\ age <= Period + 5 * Latency
    /\ together[a][z] <= Period + Latency
    /\ Doomed(a, together[a][z]) \/ Doomed(z, together[a][z])

OneIsDoomed == \A a, z \in Replica : Handover(a, z)

NobodyOverlapsItself == \A a \in Replica : together[a][a] = 0

ElectionInv ==
  /\ ElectionTypeOK /\ TicksInOrder /\ NobodyBefore /\ LeadersRenew /\ Recent
  /\ OnlyHolderRenews /\ LateWritesLandEarly /\ OneIsDoomed /\ NobodyOverlapsItself

(* The time a holder's next renewal may still take to reach the server.    *)
Due(r) ==
  IF step[r] = "sleep" THEN timer[r] + 2 * Latency
  ELSE IF step[r] \in {"get", "got"} THEN timer[r] + Latency
  ELSE IF step[r] = "wrote" THEN timer[r] + Period + 2 * Latency
  ELSE timer[r]

Calm == crashes = 0 /\ fails <= 1 /\ holder # NoHolder

Allowed == IF fails = 0 THEN Period + 4 * Latency ELSE 2 * Period + 6 * Latency

NobodyDown == crashes = 0 => \A r \in Replica : step[r] # "down"

(* In the calm the holder renews before its stamp looks expired to anyone, *)
(* and nobody else has decided to write.                                   *)
RenewedInTime == Calm => age + Due(holder) <= Allowed

OnlyHolderWrites ==
  Calm => \A r \in Replica :
            /\ plan[r] = "apply" => holder = r
            /\ holder = r => /\ plan[r] # "standback"
                             /\ plan[r] = "create" => step[r] = "wrote"

CalmInv ==
  /\ ElectionTypeOK /\ TicksInOrder /\ NobodyBefore
  /\ NobodyDown /\ RenewedInTime /\ OnlyHolderWrites

----------------------------------------------------------------------------
(* Setting one replica's entry leaves the others alone. *)
LEMMA SetEntry ==
  ASSUME NEW S, NEW f \in [Replica -> S], NEW r \in Replica, NEW v \in S
  PROVE  /\ Set(f, r, v) \in [Replica -> S]
         /\ Set(f, r, v)[r] = v
         /\ \A x \in Replica \ {r} : Set(f, r, v)[x] = f[x]
BY DEF Set

(* The values a tick assigns are of their types.                           *)
LEMMA InTypes ==
  /\ {"sleep", "get", "got", "write", "wrote", "down"} \subseteq Steps
         /\ {"none", "standback", "create", "apply"} \subseteq Plans
         /\ {0, Period, Latency} \subseteq Timers /\ Timers \subseteq Nat
         /\ \A n \in Timers : n > 0 => n - 1 \in Timers
BY LeaseAssumption DEF Steps, Calling, Plans, Timers

(* The end of a tick keeps the types.                                      *)
LEMMA EndTickTypes ==
  ASSUME ElectionTypeOK, NEW r \in Replica, NEW b \in BOOLEAN,
         EndTick(r, b),
         holder' = holder, age' = age, together' = together,
         fails' \in 0..MaxFails, crashes' = crashes
  PROVE  ElectionTypeOK'
<1> USE LeaseAssumption DEF ElectionTypeOK, EndTick
<1>1. /\ step' \in [Replica -> Steps]
      /\ plan' \in [Replica -> Plans]
  BY SetEntry, InTypes
<1>2. stamp' \in [Replica -> Nat] /\ leading' \in [Replica -> BOOLEAN]
  BY SetEntry, InTypes
<1>3. timer' \in [Replica -> Timers]
  BY SetEntry, InTypes
<1> QED BY <1>1, <1>2, <1>3

(* So does every step of the election.                                     *)
LEMMA ElectionTypeStep ==
  ASSUME ElectionTypeOK, [ElectionNext]_electionVars
  PROVE  ElectionTypeOK'
<1> USE LeaseAssumption DEF ElectionTypeOK
<1>1. CASE Advance
  <2>1. timer' \in [Replica -> Timers]
    BY <1>1, InTypes DEF Advance
  <2>2. stamp' \in [Replica -> Nat]
    BY <1>1 DEF Advance
  <2>3. age' \in Nat
    BY <1>1 DEF Advance, Capped, AgeCap
  <2>4. together' \in [Replica -> [Replica -> 0..(Overlap + 1)]]
    BY <1>1 DEF Advance, Capped
  <2> QED BY <1>1, <2>1, <2>2, <2>3, <2>4 DEF Advance
<1>2. ASSUME NEW r \in Replica, BeginTick(r) PROVE ElectionTypeOK'
  <2>1. step' \in [Replica -> Steps]
    BY <1>2, SetEntry, InTypes DEF BeginTick
  <2>2. stamp' \in [Replica -> Nat] /\ timer' \in [Replica -> Timers]
    BY <1>2, SetEntry, InTypes DEF BeginTick
  <2> QED BY <1>2, <2>1, <2>2 DEF BeginTick
<1>3. ASSUME NEW r \in Replica, Get(r) PROVE ElectionTypeOK'
  <2>1. step' \in [Replica -> Steps]
    BY <1>3, SetEntry, InTypes DEF Get
  <2>2. plan' \in [Replica -> Plans]
    BY <1>3, SetEntry, InTypes DEF Get, PlanOf
  <2> QED BY <1>3, <2>1, <2>2 DEF Get
<1>4. ASSUME NEW r \in Replica, StandBack(r) PROVE ElectionTypeOK'
  BY <1>4, EndTickTypes DEF StandBack
<1>5. ASSUME NEW r \in Replica, BeginWrite(r) PROVE ElectionTypeOK'
  <2>1. step' \in [Replica -> Steps]
    BY <1>5, SetEntry, InTypes DEF BeginWrite
  <2>2. timer' \in [Replica -> Timers]
    BY <1>5, SetEntry, InTypes DEF BeginWrite
  <2> QED BY <1>5, <2>1, <2>2 DEF BeginWrite
<1>6. ASSUME NEW r \in Replica, WriteLease(r) PROVE ElectionTypeOK'
  <2>1. step' \in [Replica -> Steps]
    BY <1>6, SetEntry, InTypes DEF WriteLease
  <2>2. plan' \in [Replica -> Plans]
    <3>1. plan' = plan \/ plan' = Set(plan, r, "standback")
      BY <1>6 DEF WriteLease
    <3>2. Set(plan, r, "standback") \in [Replica -> Plans]
      BY <1>6, SetEntry, InTypes
    <3> QED BY <3>1, <3>2
  <2>3. holder' \in Replica \cup {NoHolder} /\ age' \in Nat
    <3>1. \/ holder' = holder /\ age' = age
          \/ holder' = r /\ age' = stamp[r]
      BY <1>6 DEF WriteLease
    <3> QED BY <1>6, <3>1
  <2> QED BY <1>6, <2>1, <2>2, <2>3 DEF WriteLease
<1>7. ASSUME NEW r \in Replica, Wrote(r) PROVE ElectionTypeOK'
  BY <1>7, EndTickTypes DEF Wrote
<1>8. ASSUME NEW r \in Replica, CallFails(r) PROVE ElectionTypeOK'
  <2>1. fails' \in 0..MaxFails
    BY <1>8 DEF CallFails
  <2> QED BY <1>8, <2>1, EndTickTypes DEF CallFails
<1>9. ASSUME NEW r \in Replica, Crash(r) PROVE ElectionTypeOK'
  <2>1. step' \in [Replica -> Steps] /\ plan' \in [Replica -> Plans]
    BY <1>9, SetEntry, InTypes DEF Crash
  <2>2. stamp' \in [Replica -> Nat] /\ timer' \in [Replica -> Timers]
    BY <1>9, SetEntry, InTypes DEF Crash
  <2>3. leading' \in [Replica -> BOOLEAN]
    BY <1>9, SetEntry, InTypes DEF Crash
  <2>4. crashes' \in 0..MaxCrashes
    BY <1>9 DEF Crash
  <2> QED BY <1>9, <2>1, <2>2, <2>3, <2>4 DEF Crash
<1>10. ASSUME NEW r \in Replica, Reboot(r) PROVE ElectionTypeOK'
  BY <1>10, SetEntry, InTypes DEF Reboot
<1>11. CASE UNCHANGED electionVars
  BY <1>11 DEF electionVars
<1> QED BY <1>1, <1>2, <1>3, <1>4, <1>5, <1>6, <1>7, <1>8, <1>9, <1>10, <1>11
        DEF ElectionNext, Task

(* What the passing of time does to one replica and to the age. *)
LEMMA AdvanceEffect ==
  ASSUME ElectionTypeOK, Advance, NEW x \in Replica
  PROVE  /\ step' = step /\ plan' = plan /\ leading' = leading /\ holder' = holder
         /\ step[x] # "down" => timer[x] > 0 /\ timer'[x] = timer[x] - 1
         /\ step[x] = "down" => timer'[x] = 0
         /\ step[x] \in Calling => stamp'[x] = stamp[x] + 1
         /\ step[x] \notin Calling => stamp'[x] = 0
         /\ age' <= age + 1
         /\ timer[x] \in Nat /\ stamp[x] \in Nat /\ timer'[x] \in Nat
<1>1. timer \in [Replica -> Nat] /\ stamp \in [Replica -> Nat] /\ age \in Nat
  BY LeaseAssumption DEF ElectionTypeOK, Timers
<1>2. timer'[x] = IF step[x] = "down" THEN 0 ELSE timer[x] - 1
  BY DEF Advance
<1>3. stamp'[x] = IF step[x] \in Calling THEN stamp[x] + 1 ELSE 0
  BY DEF Advance
<1>4. age' <= age + 1
  BY <1>1, LeaseAssumption DEF Advance, Capped, AgeCap
<1> QED BY <1>1, <1>2, <1>3, <1>4 DEF Advance

(* The ranges of one replica's entries. *)
LEMMA Entries ==
  ASSUME ElectionTypeOK
  PROVE  /\ Period \in Nat /\ Latency \in Nat /\ MaxSkew \in Nat /\ Duration \in Nat
         /\ age \in Nat
         /\ \A x \in Replica :
              /\ timer[x] \in Nat /\ stamp[x] \in Nat
              /\ timer[x] <= Period \/ timer[x] <= Latency
BY LeaseAssumption DEF ElectionTypeOK, Timers

(* What each action does, read at one replica. *)
LEMMA EndTickEffect ==
  ASSUME ElectionTypeOK, NEW r \in Replica, NEW b, EndTick(r, b),
         NEW x \in Replica
  PROVE  IF x = r
           THEN /\ step'[x] = "sleep" /\ plan'[x] = "none" /\ stamp'[x] = 0
                /\ timer'[x] = Period /\ leading'[x] = b
           ELSE /\ step'[x] = step[x] /\ plan'[x] = plan[x] /\ stamp'[x] = stamp[x]
                /\ timer'[x] = timer[x] /\ leading'[x] = leading[x]
BY DEF EndTick, Set, ElectionTypeOK

(* The clock is read and the get begins.                                   *)
LEMMA BeginTickEffect ==
  ASSUME ElectionTypeOK, NEW r \in Replica, BeginTick(r), NEW x \in Replica
  PROVE  /\ step[r] = "sleep" /\ timer[r] = 0
         /\ holder' = holder /\ age' = age /\ together' = together
         /\ plan'[x] = plan[x] /\ leading'[x] = leading[x]
         /\ IF x = r
              THEN step'[x] = "get" /\ stamp'[x] = 0 /\ timer'[x] = Latency
              ELSE step'[x] = step[x] /\ stamp'[x] = stamp[x] /\ timer'[x] = timer[x]
BY DEF BeginTick, Set, ElectionTypeOK

(* The get reads the lease and settles the plan.                           *)
LEMMA GetEffect ==
  ASSUME ElectionTypeOK, NEW r \in Replica, Get(r), NEW x \in Replica
  PROVE  /\ step[r] = "get"
         /\ holder' = holder /\ age' = age /\ together' = together
         /\ stamp'[x] = stamp[x] /\ timer'[x] = timer[x] /\ leading'[x] = leading[x]
         /\ IF x = r
              THEN step'[x] = "got" /\ plan'[x] = PlanOf(x)
              ELSE step'[x] = step[x] /\ plan'[x] = plan[x]
BY DEF Get, Set, ElectionTypeOK

(* The create or the apply begins.                                         *)
LEMMA BeginWriteEffect ==
  ASSUME ElectionTypeOK, NEW r \in Replica, BeginWrite(r), NEW x \in Replica
  PROVE  /\ step[r] = "got" /\ plan[r] \in {"create", "apply"}
         /\ holder' = holder /\ age' = age /\ together' = together
         /\ plan'[x] = plan[x] /\ stamp'[x] = stamp[x] /\ leading'[x] = leading[x]
         /\ IF x = r
              THEN step'[x] = "write" /\ timer'[x] = Latency
              ELSE step'[x] = step[x] /\ timer'[x] = timer[x]
BY DEF BeginWrite, Set, ElectionTypeOK

(* The write lands, unless it creates what exists by now.                  *)
LEMMA WriteEffect ==
  ASSUME ElectionTypeOK, NEW r \in Replica, WriteLease(r), NEW x \in Replica
  PROVE  /\ step[r] = "write"
         /\ together' = together
         /\ stamp'[x] = stamp[x] /\ timer'[x] = timer[x] /\ leading'[x] = leading[x]
         /\ step'[x] = IF x = r THEN "wrote" ELSE step[x]
         /\ IF plan[r] = "create" /\ holder # NoHolder
              THEN /\ plan'[x] = (IF x = r THEN "standback" ELSE plan[x])
                   /\ holder' = holder /\ age' = age
              ELSE /\ plan'[x] = plan[x]
                   /\ holder' = r /\ age' = stamp[r]
BY DEF WriteLease, Set, ElectionTypeOK

(* A crash forgets the tick and the flag.                                  *)
LEMMA CrashEffect ==
  ASSUME ElectionTypeOK, NEW r \in Replica, Crash(r), NEW x \in Replica
  PROVE  /\ step[r] # "down"
         /\ holder' = holder /\ age' = age /\ together' = together
         /\ IF x = r
              THEN /\ step'[x] = "down" /\ plan'[x] = "none" /\ stamp'[x] = 0
                   /\ timer'[x] = 0 /\ leading'[x] = FALSE
              ELSE /\ step'[x] = step[x] /\ plan'[x] = plan[x] /\ stamp'[x] = stamp[x]
                   /\ timer'[x] = timer[x] /\ leading'[x] = leading[x]
BY DEF Crash, Set, ElectionTypeOK

(* A restart begins with a sleep that is over.                             *)
LEMMA RestartEffect ==
  ASSUME ElectionTypeOK, NEW r \in Replica, Reboot(r), NEW x \in Replica
  PROVE  /\ step[r] = "down"
         /\ holder' = holder /\ age' = age /\ together' = together
         /\ plan'[x] = plan[x] /\ stamp'[x] = stamp[x] /\ timer'[x] = timer[x]
         /\ leading'[x] = leading[x]
         /\ step'[x] = IF x = r THEN "sleep" ELSE step[x]
BY DEF Reboot, Set, ElectionTypeOK

(* Every step keeps ticks in order: stamps and timers run together.        *)
LEMMA TickStep ==
  ASSUME ElectionTypeOK, TicksInOrder,
         [ElectionNext]_electionVars
  PROVE  TicksInOrder'
<1> SUFFICES ASSUME NEW x \in Replica PROVE InOrder(x)'
  BY DEF TicksInOrder
<1>a. InOrder(x)
  BY DEF TicksInOrder
<1>1. CASE Advance
  BY <1>a, <1>1, Entries, AdvanceEffect DEF InOrder, Calling
<1>2. ASSUME NEW r \in Replica, BeginTick(r) PROVE InOrder(x)'
  BY <1>a, <1>2, Entries, BeginTickEffect DEF InOrder, Calling
<1>3. ASSUME NEW r \in Replica, Get(r) PROVE InOrder(x)'
  BY <1>a, <1>3, Entries, GetEffect DEF InOrder, Calling, PlanOf
<1>4. ASSUME NEW r \in Replica, StandBack(r) PROVE InOrder(x)'
  BY <1>a, <1>4, Entries, EndTickEffect DEF InOrder, Calling, StandBack
<1>5. ASSUME NEW r \in Replica, BeginWrite(r) PROVE InOrder(x)'
  BY <1>a, <1>5, Entries, BeginWriteEffect DEF InOrder, Calling
<1>6. ASSUME NEW r \in Replica, WriteLease(r) PROVE InOrder(x)'
  BY <1>a, <1>6, Entries, WriteEffect DEF InOrder, Calling
<1>7. ASSUME NEW r \in Replica, Wrote(r) PROVE InOrder(x)'
  BY <1>a, <1>7, Entries, EndTickEffect DEF InOrder, Calling, Wrote
<1>8. ASSUME NEW r \in Replica, CallFails(r) PROVE InOrder(x)'
  BY <1>a, <1>8, Entries, EndTickEffect DEF InOrder, Calling, CallFails
<1>9. ASSUME NEW r \in Replica, Crash(r) PROVE InOrder(x)'
  BY <1>a, <1>9, Entries, CrashEffect DEF InOrder, Calling
<1>10. ASSUME NEW r \in Replica, Reboot(r) PROVE InOrder(x)'
  BY <1>a, <1>10, Entries, RestartEffect DEF InOrder, Calling
<1>11. CASE UNCHANGED electionVars
  BY <1>a, <1>11 DEF InOrder, Calling, electionVars
<1> QED BY <1>1, <1>2, <1>3, <1>4, <1>5, <1>6, <1>7, <1>8, <1>9, <1>10, <1>11
        DEF ElectionNext, Task

(* The slack, step by step.                                                *)
LEMMA SlackRange ==
  ASSUME NEW x \in Replica
  PROVE  /\ Slack(x) \in Nat
         /\ step[x] = "sleep" => Slack(x) = Period + 3 * Latency
         /\ step[x] \in {"get", "got"} => Slack(x) = Period + 4 * Latency
         /\ step[x] = "write" => Slack(x) = Period + 5 * Latency
         /\ step[x] = "wrote" => Slack(x) = 3 * Latency
BY LeaseAssumption DEF Slack

(* A write lands with a stamp at most two calls old, and a leader's slack  *)
(* covers the rest of its round.                                           *)
LEMMA RecentStep ==
  ASSUME ElectionTypeOK, ElectionTypeOK', TicksInOrder,
         NobodyBefore, LeadersRenew, Recent, [ElectionNext]_electionVars
  PROVE  Recent'
<1> SUFFICES ASSUME NEW x \in Replica,
                    leading'[x] \/ (step'[x] = "wrote" /\ plan'[x] # "standback")
             PROVE  age' + timer'[x] <= Slack(x)'
  BY DEF Recent, RecentFor
<1>a. /\ RecentFor(x) /\ Slack(x) \in Nat
      /\ leading[x] /\ step[x] = "wrote" => plan[x] = "apply"
      /\ leading[x] => step[x] # "down"
  BY SlackRange DEF Recent, LeadersRenew, Led
<1>b. /\ timer[x] \in Nat /\ age \in Nat /\ Latency \in Nat /\ Period \in Nat
      /\ timer'[x] \in Nat /\ age' \in Nat
  BY LeaseAssumption DEF ElectionTypeOK, Timers
<1>c. ASSUME step'[x] = step[x], age' + timer'[x] <= age + timer[x],
             leading[x] \/ (step[x] = "wrote" /\ plan[x] # "standback")
      PROVE  age' + timer'[x] <= Slack(x)'
  <2>1. Slack(x)' = Slack(x)
    BY <1>c DEF Slack
  <2> QED BY <1>a, <1>b, <1>c, <2>1 DEF RecentFor
<1>d. ASSUME step'[x] = step[x], leading'[x] = leading[x], plan'[x] = plan[x],
             age' = age, timer'[x] = timer[x]
      PROVE  age' + timer'[x] <= Slack(x)'
  BY <1>b, <1>c, <1>d
<1>1. CASE Advance
  BY <1>1, <1>a, <1>b, <1>c, AdvanceEffect
<1>2. ASSUME NEW r \in Replica, BeginTick(r) PROVE age' + timer'[x] <= Slack(x)'
  <2>1. CASE x = r
    <3>1. /\ leading[x] /\ step[x] = "sleep" /\ timer[x] = 0
          /\ step'[x] = "get" /\ timer'[x] = Latency /\ age' = age
      BY <1>2, <2>1, BeginTickEffect
    <3>2. Slack(x)' = Period + 4 * Latency /\ age <= Period + 3 * Latency
      BY <1>a, <1>b, <3>1 DEF Slack, RecentFor
    <3> QED BY <1>b, <3>1, <3>2
  <2>2. CASE x # r
    BY <1>2, <1>d, <2>2, BeginTickEffect
  <2> QED BY <2>1, <2>2
<1>3. ASSUME NEW r \in Replica, Get(r) PROVE age' + timer'[x] <= Slack(x)'
  <2>1. CASE x = r
    <3>1. /\ leading[x] /\ step[x] = "get" /\ step'[x] = "got"
          /\ timer'[x] = timer[x] /\ age' = age
      BY <1>3, <2>1, GetEffect
    <3>2. Slack(x)' = Slack(x)
      BY <3>1 DEF Slack
    <3> QED BY <1>a, <1>b, <3>1, <3>2 DEF RecentFor
  <2>2. CASE x # r
    BY <1>3, <1>d, <2>2, GetEffect
  <2> QED BY <2>1, <2>2
<1>4. ASSUME NEW r \in Replica, StandBack(r) PROVE age' + timer'[x] <= Slack(x)'
  BY <1>4, <1>d, EndTickEffect DEF StandBack
<1>5. ASSUME NEW r \in Replica, BeginWrite(r) PROVE age' + timer'[x] <= Slack(x)'
  <2>1. CASE x = r
    <3>1. /\ leading[x] /\ step[x] = "got" /\ step'[x] = "write"
          /\ timer'[x] = Latency /\ age' = age
      BY <1>5, <2>1, BeginWriteEffect
    <3>2. Slack(x)' = Period + 5 * Latency /\ age <= Period + 4 * Latency
      BY <1>a, <1>b, <3>1 DEF Slack, RecentFor
    <3> QED BY <1>b, <3>1, <3>2
  <2>2. CASE x # r
    BY <1>5, <1>d, <2>2, BeginWriteEffect
  <2> QED BY <2>1, <2>2
<1>6. ASSUME NEW r \in Replica, WriteLease(r) PROVE age' + timer'[x] <= Slack(x)'
  <2>1. CASE plan[r] = "create" /\ holder # NoHolder
    <3>1. x # r
      BY <1>6, <2>1, WriteEffect DEF LeadersRenew, Led
    <3> QED BY <1>6, <1>d, <2>1, <3>1, WriteEffect
  <2>2. CASE ~(plan[r] = "create" /\ holder # NoHolder)
    <3>1. age' + timer'[r] <= 2 * Latency /\ timer'[r] \in Nat
      BY <1>6, <2>2, WriteEffect, Entries DEF TicksInOrder, InOrder
    <3>2. CASE x = r \/ step[x] = "wrote"
      <4>1. timer'[x] <= Latency /\ Slack(x)' = 3 * Latency /\ age' <= 2 * Latency
        BY <1>6, <1>b, <3>1, <3>2, WriteEffect DEF TicksInOrder, InOrder,
                                                   Calling, Slack
      <4>2. x = r => age' + timer'[x] <= 2 * Latency
        BY <3>1
      <4> QED BY <1>b, <4>1, <4>2
    <3>3. CASE x # r /\ step[x] # "wrote"
      <4>1. Slack(x)' >= Period + 3 * Latency /\ Slack(x)' \in Nat
        BY <1>6, <1>b, <3>3, WriteEffect DEF Slack
      <4>2. timer'[x] <= Period + Latency
        BY <1>6, <1>b, Entries, WriteEffect
      <4>3. age' <= 2 * Latency
        BY <1>b, <3>1
      <4> QED BY <1>b, <4>1, <4>2, <4>3
    <3> QED BY <3>2, <3>3
  <2> QED BY <2>1, <2>2
<1>7. ASSUME NEW r \in Replica, Wrote(r) PROVE age' + timer'[x] <= Slack(x)'
  <2>1. CASE x = r
    <3>1. /\ step[x] = "wrote" /\ plan[x] # "standback" /\ step'[x] = "sleep"
          /\ timer'[x] = Period /\ age' = age
      BY <1>7, <2>1, EndTickEffect DEF Wrote
    <3>2. Slack(x)' = Period + 3 * Latency /\ age <= 3 * Latency
      BY <1>a, <1>b, <3>1 DEF Slack, RecentFor
    <3> QED BY <1>b, <3>1, <3>2
  <2>2. CASE x # r
    BY <1>7, <1>d, <2>2, EndTickEffect DEF Wrote
  <2> QED BY <2>1, <2>2
<1>8. ASSUME NEW r \in Replica, CallFails(r) PROVE age' + timer'[x] <= Slack(x)'
  BY <1>8, <1>d, EndTickEffect DEF CallFails
<1>9. ASSUME NEW r \in Replica, Crash(r) PROVE age' + timer'[x] <= Slack(x)'
  BY <1>9, <1>d, CrashEffect
<1>10. ASSUME NEW r \in Replica, Reboot(r) PROVE age' + timer'[x] <= Slack(x)'
  BY <1>10, <1>a, <1>d, RestartEffect
<1>11. CASE UNCHANGED electionVars
  BY <1>11, <1>d DEF electionVars
<1> QED BY <1>1, <1>2, <1>3, <1>4, <1>5, <1>6, <1>7, <1>8, <1>9, <1>10, <1>11
        DEF ElectionNext, Task

(* Nobody leads before the first write has landed.                         *)
LEMMA NobodyStep ==
  ASSUME ElectionTypeOK, TicksInOrder, NobodyBefore,
         [ElectionNext]_electionVars
  PROVE  NobodyBefore'
<1> SUFFICES ASSUME holder' = NoHolder,
                    NEW x \in Replica PROVE ~leading'[x] /\ plan'[x] \in {"none",
                    "create"} /\ step'[x] # "wrote"
  BY DEF NobodyBefore
<1>a. holder' = NoHolder /\ NoHolder \notin Replica
  BY LeaseAssumption
<1>b. holder = NoHolder => ~leading[x] /\ plan[x] \in {"none",
  "create"} /\ step[x] # "wrote"
  BY DEF NobodyBefore
<1>1. CASE Advance
  BY <1>a, <1>1, <1>b, AdvanceEffect
<1>2. ASSUME NEW r \in Replica,
             BeginTick(r) PROVE ~leading'[x] /\ plan'[x] \in {"none",
             "create"} /\ step'[x] # "wrote"
  BY <1>a, <1>2, <1>b, BeginTickEffect
<1>3. ASSUME NEW r \in Replica,
             Get(r) PROVE ~leading'[x] /\ plan'[x] \in {"none",
             "create"} /\ step'[x] # "wrote"
  BY <1>a, <1>3, <1>b, GetEffect DEF PlanOf
<1>4. ASSUME NEW r \in Replica,
             StandBack(r) PROVE ~leading'[x] /\ plan'[x] \in {"none",
             "create"} /\ step'[x] # "wrote"
  BY <1>a, <1>4, <1>b, EndTickEffect DEF StandBack
<1>5. ASSUME NEW r \in Replica,
             BeginWrite(r) PROVE ~leading'[x] /\ plan'[x] \in {"none",
             "create"} /\ step'[x] # "wrote"
  BY <1>a, <1>5, <1>b, BeginWriteEffect
<1>6. ASSUME NEW r \in Replica,
             WriteLease(r) PROVE ~leading'[x] /\ plan'[x] \in {"none",
             "create"} /\ step'[x] # "wrote"
  BY <1>a, <1>6, <1>b, WriteEffect
<1>7. ASSUME NEW r \in Replica,
             Wrote(r) PROVE ~leading'[x] /\ plan'[x] \in {"none",
             "create"} /\ step'[x] # "wrote"
  BY <1>a, <1>7, <1>b, EndTickEffect DEF Wrote
<1>8. ASSUME NEW r \in Replica,
             CallFails(r) PROVE ~leading'[x] /\ plan'[x] \in {"none",
             "create"} /\ step'[x] # "wrote"
  BY <1>a, <1>8, <1>b, EndTickEffect DEF CallFails
<1>9. ASSUME NEW r \in Replica,
             Crash(r) PROVE ~leading'[x] /\ plan'[x] \in {"none",
             "create"} /\ step'[x] # "wrote"
  BY <1>a, <1>9, <1>b, CrashEffect
<1>10. ASSUME NEW r \in Replica,
              Reboot(r) PROVE ~leading'[x] /\ plan'[x] \in {"none",
              "create"} /\ step'[x] # "wrote"
  BY <1>a, <1>10, <1>b, RestartEffect
<1>11. CASE UNCHANGED electionVars
  BY <1>a, <1>b, <1>11 DEF electionVars
<1> QED BY <1>1, <1>2, <1>3, <1>4, <1>5, <1>6, <1>7, <1>8, <1>9, <1>10, <1>11
        DEF ElectionNext, Task

(* A leader that reads the lease finds it, so it never plans to create it. *)
LEMMA LeaderStep ==
  ASSUME ElectionTypeOK, TicksInOrder, NobodyBefore,
         LeadersRenew, [ElectionNext]_electionVars
  PROVE  LeadersRenew'
<1> SUFFICES ASSUME NEW x \in Replica PROVE Led(x)'
  BY DEF LeadersRenew
<1>a. /\ Led(x) /\ InOrder(x) /\ (leading[x] => holder # NoHolder)
      /\ leading[x] \in BOOLEAN /\ plan[x] \in Plans
  BY DEF LeadersRenew, TicksInOrder, NobodyBefore, ElectionTypeOK
<1>1. CASE Advance
  BY <1>a, <1>1, AdvanceEffect DEF Led, InOrder, Plans
<1>2. ASSUME NEW r \in Replica, BeginTick(r) PROVE Led(x)'
  BY <1>a, <1>2, BeginTickEffect DEF Led, InOrder, Plans
<1>3. ASSUME NEW r \in Replica, Get(r) PROVE Led(x)'
  BY <1>a, <1>3, GetEffect DEF Led, InOrder, Plans, PlanOf
<1>4. ASSUME NEW r \in Replica, StandBack(r) PROVE Led(x)'
  BY <1>a, <1>4, EndTickEffect DEF Led, InOrder, Plans, StandBack
<1>5. ASSUME NEW r \in Replica, BeginWrite(r) PROVE Led(x)'
  BY <1>a, <1>5, BeginWriteEffect DEF Led, InOrder, Plans
<1>6. ASSUME NEW r \in Replica, WriteLease(r) PROVE Led(x)'
  BY <1>a, <1>6, WriteEffect DEF Led, InOrder, Plans
<1>7. ASSUME NEW r \in Replica, Wrote(r) PROVE Led(x)'
  BY <1>a, <1>7, EndTickEffect DEF Led, InOrder, Plans, Wrote
<1>8. ASSUME NEW r \in Replica, CallFails(r) PROVE Led(x)'
  BY <1>a, <1>8, EndTickEffect DEF Led, InOrder, Plans, CallFails
<1>9. ASSUME NEW r \in Replica, Crash(r) PROVE Led(x)'
  BY <1>a, <1>9, CrashEffect DEF Led, InOrder, Plans
<1>10. ASSUME NEW r \in Replica, Reboot(r) PROVE Led(x)'
  BY <1>a, <1>10, RestartEffect DEF Led, InOrder, Plans
<1>11. CASE UNCHANGED electionVars
  BY <1>a, <1>11 DEF Led, InOrder, Plans, electionVars
<1> QED BY <1>1, <1>2, <1>3, <1>4, <1>5, <1>6, <1>7, <1>8, <1>9, <1>10, <1>11
        DEF ElectionNext, Task

(* A stamp within the duration, skew allowed for, is not expired to anyone.*)
LEMMA RecentIsNotExpired ==
  ASSUME ElectionTypeOK, NEW z \in Replica, holder # NoHolder,
         age + MaxSkew <= Duration
  PROVE  ~Expired(z)
<1>1. /\ holder \in Replica /\ age \in Nat /\ stamp[z] \in Nat
      /\ Duration \in Nat /\ MaxSkew \in Nat
  BY LeaseAssumption DEF ElectionTypeOK
<1>2. Skew[z] \in 0..MaxSkew /\ Skew[holder] \in 0..MaxSkew
  BY <1>1, LeaseAssumption
<1> QED BY <1>1, <1>2 DEF Expired

(* While somebody leads, the stamp is at most a period and five calls old. *)
LEMMA LeaderIsRecent ==
  ASSUME ElectionTypeOK, NobodyBefore, LeadersRenew, Recent,
         NEW a \in Replica, leading[a]
  PROVE  /\ holder # NoHolder
         /\ age + timer[a] <= Period + 5 * Latency
<1>1. holder # NoHolder /\ step[a] # "down" /\ age + timer[a] <= Slack(a)
  BY DEF NobodyBefore, LeadersRenew, Led, Recent, RecentFor
<1>2. Slack(a) <= Period + 5 * Latency /\ Slack(a) \in Nat
  BY LeaseAssumption DEF Slack
<1> QED BY <1>1, <1>2, Entries

(* Nobody takes a leader's lease between its read and its write.           *)
LEMMA OnlyHolderStep ==
  ASSUME Timely, ElectionTypeOK, TicksInOrder,
         NobodyBefore, LeadersRenew, Recent, OnlyHolderRenews, LateWritesLandEarly,
         [ElectionNext]_electionVars
  PROVE  OnlyHolderRenews'
<1> SUFFICES ASSUME NEW x \in Replica PROVE RenewsOwn(x)'
  BY DEF OnlyHolderRenews
<1>a. RenewsOwn(x) /\ InOrder(x)
  BY DEF OnlyHolderRenews, TicksInOrder
<1>1. CASE Advance
  BY <1>a, <1>1, AdvanceEffect DEF RenewsOwn
<1>2. ASSUME NEW r \in Replica, BeginTick(r) PROVE RenewsOwn(x)'
  BY <1>a, <1>2, BeginTickEffect DEF RenewsOwn
<1>3. ASSUME NEW r \in Replica, Get(r) PROVE RenewsOwn(x)'
  <2>1. leading[x] => ~Expired(x)
    <3> SUFFICES ASSUME leading[x] PROVE ~Expired(x)
      OBVIOUS
    <3>1. holder # NoHolder /\ age + MaxSkew <= Duration
      BY LeaderIsRecent, Entries DEF Timely
    <3> QED BY <3>1, RecentIsNotExpired
  <2> QED BY <1>a, <1>3, <2>1, GetEffect DEF RenewsOwn, PlanOf
<1>4. ASSUME NEW r \in Replica, StandBack(r) PROVE RenewsOwn(x)'
  BY <1>a, <1>4, EndTickEffect DEF RenewsOwn, StandBack
<1>5. ASSUME NEW r \in Replica, BeginWrite(r) PROVE RenewsOwn(x)'
  BY <1>a, <1>5, BeginWriteEffect DEF RenewsOwn
<1>6. ASSUME NEW r \in Replica, WriteLease(r) PROVE RenewsOwn(x)'
  <2> SUFFICES ASSUME leading[x], plan[x] = "apply", x # r PROVE holder' = x
    BY <1>6, WriteEffect DEF RenewsOwn
  <2>1. holder = x /\ holder # NoHolder
    BY <1>a, LeaseAssumption DEF RenewsOwn
  <2>2. plan[r] \in {"create", "apply"} /\ step[x] # "sleep" /\ step[r] = "write"
    BY <1>a, <1>6, WriteEffect DEF TicksInOrder, InOrder
  <2>3. plan[r] # "apply"
    BY <1>6, <2>1, <2>2 DEF LateWritesLandEarly, Late
  <2> QED BY <1>6, <2>1, <2>2, <2>3, WriteEffect
<1>7. ASSUME NEW r \in Replica, Wrote(r) PROVE RenewsOwn(x)'
  BY <1>a, <1>7, EndTickEffect DEF RenewsOwn, Wrote
<1>8. ASSUME NEW r \in Replica, CallFails(r) PROVE RenewsOwn(x)'
  BY <1>a, <1>8, EndTickEffect DEF RenewsOwn, CallFails
<1>9. ASSUME NEW r \in Replica, Crash(r) PROVE RenewsOwn(x)'
  BY <1>a, <1>9, CrashEffect DEF RenewsOwn
<1>10. ASSUME NEW r \in Replica, Reboot(r) PROVE RenewsOwn(x)'
  BY <1>a, <1>10, RestartEffect DEF RenewsOwn
<1>11. CASE UNCHANGED electionVars
  BY <1>a, <1>11 DEF RenewsOwn, electionVars
<1> QED BY <1>1, <1>2, <1>3, <1>4, <1>5, <1>6, <1>7, <1>8, <1>9, <1>10, <1>11
        DEF ElectionNext, Task

(* A rival's write that is on its way was decided before the holder led.   *)
LEMMA LateStep ==
  ASSUME Timely, ElectionTypeOK, TicksInOrder,
         NobodyBefore, LeadersRenew, Recent, OnlyHolderRenews, LateWritesLandEarly,
         [ElectionNext]_electionVars
  PROVE  LateWritesLandEarly'
<1> SUFFICES ASSUME NEW a \in Replica, NEW z \in Replica, leading'[a], holder' = a, z # a,
                    step'[z] \in {"got", "write"},
                    plan'[z] = "apply"
             PROVE  step'[a] = "sleep" /\ Period <= stamp'[z] + timer'[a]
  BY DEF LateWritesLandEarly, Late
<1>a. /\ Late(a, z) /\ InOrder(z) /\ RenewsOwn(a) /\ Led(a) /\ InOrder(a)
      /\ plan[a] \in Plans /\ a # z
  BY DEF LateWritesLandEarly, TicksInOrder, OnlyHolderRenews, LeadersRenew, ElectionTypeOK
<1>b. /\ Period \in Nat /\ Latency \in Nat
      /\ stamp[z] \in Nat /\ timer[a] \in Nat /\ timer[z] \in Nat
  BY Entries
<1>c. holder # NoHolder => ~Expired(z) \/ ~leading[a]
  <2> SUFFICES ASSUME leading[a] PROVE ~Expired(z)
    OBVIOUS
  <2>1. holder # NoHolder /\ age + MaxSkew <= Duration
    BY LeaderIsRecent, Entries DEF Timely
  <2> QED BY <2>1, RecentIsNotExpired
<1>d. NoHolder \notin Replica
  BY LeaseAssumption
<1>1. CASE Advance
  <2>1. /\ leading[a] /\ holder = a /\ step[z] \in {"got", "write"} /\ plan[z] = "apply"
        /\ step'[a] = step[a]
    BY <1>1, AdvanceEffect
  <2>2. step[a] = "sleep" /\ Period <= stamp[z] + timer[a]
    BY <1>a, <2>1 DEF Late
  <2>3. timer'[a] = timer[a] - 1
    BY <1>1, <2>2, AdvanceEffect
  <2>4. stamp'[z] = stamp[z] + 1
    BY <1>1, <2>1, AdvanceEffect DEF Calling
  <2> QED BY <1>b, <2>1, <2>2, <2>3, <2>4
<1>2. ASSUME NEW r \in Replica,
             BeginTick(r)
             PROVE  step'[a] = "sleep" /\ Period <= stamp'[z] + timer'[a]
  <2>1. z # r
    BY <1>2, BeginTickEffect
  <2>2. a # r
    <3>1. a = r => stamp[z] >= Period /\ step[z] \in {"got", "write"}
      BY <1>a, <1>b, <1>2, <2>1, BeginTickEffect DEF Late
    <3> QED BY <1>a, <1>b, <3>1 DEF Timely, InOrder
  <2> QED BY <1>a, <1>2, <2>1, <2>2, BeginTickEffect DEF Late
<1>3. ASSUME NEW r \in Replica,
             Get(r)
             PROVE  step'[a] = "sleep" /\ Period <= stamp'[z] + timer'[a]
  <2>1. z # r
    BY <1>a, <1>c, <1>d, <1>3, GetEffect DEF PlanOf
  <2>2. a # r
    BY <1>a, <1>3, <2>1, GetEffect DEF Late
  <2> QED BY <1>a, <1>3, <2>1, <2>2, GetEffect DEF Late
<1>4. ASSUME NEW r \in Replica,
             StandBack(r)
             PROVE  step'[a] = "sleep" /\ Period <= stamp'[z] + timer'[a]
  BY <1>a, <1>4, <1>b, EndTickEffect DEF Late, StandBack
<1>5. ASSUME NEW r \in Replica,
             BeginWrite(r)
             PROVE  step'[a] = "sleep" /\ Period <= stamp'[z] + timer'[a]
  <2>1. a # r
    BY <1>a, <1>5, BeginWriteEffect DEF Late
  <2> QED BY <1>a, <1>5, <2>1, BeginWriteEffect DEF Late
<1>6. ASSUME NEW r \in Replica,
             WriteLease(r)
             PROVE  step'[a] = "sleep" /\ Period <= stamp'[z] + timer'[a]
  <2>1. z # r
    BY <1>6, WriteEffect
  <2>2. a # r
    <3> SUFFICES ASSUME a = r PROVE FALSE
      OBVIOUS
    <3>1. leading[a] /\ step[a] = "write" /\ plan[a] = "apply"
      BY <1>a, <1>6, WriteEffect DEF Led, InOrder
    <3>2. holder = a
      BY <1>a, <3>1 DEF RenewsOwn
    <3> QED BY <1>a, <1>6, <2>1, <3>1, <3>2, WriteEffect DEF Late
  <2> QED BY <1>a, <1>6, <2>1, <2>2, WriteEffect DEF Late
<1>7. ASSUME NEW r \in Replica,
             Wrote(r)
             PROVE  step'[a] = "sleep" /\ Period <= stamp'[z] + timer'[a]
  <2>1. z # r
    BY <1>7, EndTickEffect DEF Wrote
  <2> QED BY <1>a, <1>b, <1>7, <2>1, EndTickEffect DEF Late, Wrote
<1>8. ASSUME NEW r \in Replica,
             CallFails(r)
             PROVE  step'[a] = "sleep" /\ Period <= stamp'[z] + timer'[a]
  BY <1>a, <1>8, <1>b, EndTickEffect DEF Late, CallFails
<1>9. ASSUME NEW r \in Replica,
             Crash(r)
             PROVE  step'[a] = "sleep" /\ Period <= stamp'[z] + timer'[a]
  BY <1>a, <1>9, <1>b, CrashEffect DEF Late
<1>10. ASSUME NEW r \in Replica,
              Reboot(r)
             PROVE  step'[a] = "sleep" /\ Period <= stamp'[z] + timer'[a]
  BY <1>a, <1>10, <1>b, RestartEffect DEF Late
<1>11. CASE UNCHANGED electionVars
  BY <1>a, <1>11 DEF Late, electionVars
<1> QED BY <1>1, <1>2, <1>3, <1>4, <1>5, <1>6, <1>7, <1>8, <1>9, <1>10, <1>11
        DEF ElectionNext, Task

(* Once doomed, a leader is doomed until it has stood back. *)
LEMMA DoomedStays ==
  ASSUME Timely, ElectionTypeOK, TicksInOrder,
         LeadersRenew,
         holder # NoHolder, age <= Period + 5 * Latency,
         NEW x \in Replica, NEW t \in Nat, Doomed(x, t), t <= Period + Latency,
         [ElectionNext]_electionVars, ~Advance
  PROVE  Doomed(x, t)'
<1>a. /\ InOrder(x) /\ Led(x) /\ plan[x] \in Plans /\ step[x] \in Steps
      /\ timer[x] \in Nat /\ Latency \in Nat /\ Period \in Nat
  BY Entries DEF TicksInOrder, LeadersRenew, ElectionTypeOK
<1>b. /\ holder # x
      /\ step[x] \in {"sleep", "get", "down"} \/ plan[x] = "standback"
      /\ step[x] # "write"
      /\ leading[x] => step[x] # "wrote" /\ t + Remaining(x) <= Period + Latency
  BY <1>a DEF Doomed, Led, InOrder
<1>c. ~Expired(x)
  BY RecentIsNotExpired, Entries DEF Timely
<1>d. ASSUME step'[x] = step[x], plan'[x] = plan[x], timer'[x] = timer[x],
             leading'[x] = leading[x], holder' # x
      PROVE  Doomed(x, t)'
  BY <1>d, <1>b DEF Doomed, Remaining
<1>e. ASSUME NEW r \in Replica, EndTick(r, FALSE), holder' = holder
      PROVE  Doomed(x, t)'
  <2>1. CASE x = r
    BY <1>b, <1>e, <2>1, EndTickEffect DEF Doomed
  <2>2. CASE x # r
    BY <1>b, <1>d, <1>e, <2>2, EndTickEffect
  <2> QED BY <2>1, <2>2
<1>2. ASSUME NEW r \in Replica, BeginTick(r) PROVE Doomed(x, t)'
  <2>1. CASE x = r
    <3>1. /\ step[x] = "sleep" /\ timer[x] = 0 /\ step'[x] = "get" /\ timer'[x] = Latency
          /\ leading'[x] = leading[x] /\ holder' = holder
      BY <1>2, <2>1, BeginTickEffect
    <3>2. leading[x] => t + Latency <= Period + Latency
      BY <1>a, <1>b, <3>1 DEF Remaining
    <3>3. Remaining(x)' = Latency
      BY <3>1 DEF Remaining
    <3> QED BY <1>b, <3>1, <3>2, <3>3 DEF Doomed
  <2>2. CASE x # r
    BY <1>2, <1>b, <1>d, <2>2, BeginTickEffect
  <2> QED BY <2>1, <2>2
<1>3. ASSUME NEW r \in Replica, Get(r) PROVE Doomed(x, t)'
  <2>1. CASE x = r
    <3>1. /\ step[x] = "get" /\ step'[x] = "got" /\ timer'[x] = timer[x]
          /\ leading'[x] = leading[x] /\ holder' = holder
      BY <1>3, <2>1, GetEffect
    <3>2. plan'[x] = "standback"
      BY <1>3, <1>b, <1>c, <2>1, GetEffect DEF PlanOf
    <3>3. Remaining(x)' = Remaining(x)
      BY <3>1 DEF Remaining
    <3> QED BY <1>b, <3>1, <3>2, <3>3 DEF Doomed
  <2>2. CASE x # r
    BY <1>3, <1>b, <1>d, <2>2, GetEffect
  <2> QED BY <2>1, <2>2
<1>4. ASSUME NEW r \in Replica, StandBack(r) PROVE Doomed(x, t)'
  BY <1>4, <1>e DEF StandBack
<1>5. ASSUME NEW r \in Replica, BeginWrite(r) PROVE Doomed(x, t)'
  <2>1. x # r
    BY <1>5, <1>b, BeginWriteEffect
  <2> QED BY <1>5, <1>b, <1>d, <2>1, BeginWriteEffect
<1>6. ASSUME NEW r \in Replica, WriteLease(r) PROVE Doomed(x, t)'
  <2>1. x # r
    BY <1>6, <1>b, WriteEffect
  <2> QED BY <1>6, <1>b, <1>d, <2>1, WriteEffect
<1>7. ASSUME NEW r \in Replica, Wrote(r) PROVE Doomed(x, t)'
  <2>1. CASE x = r
    BY <1>7, <1>e, <1>b, <2>1 DEF Wrote
  <2>2. CASE x # r
    BY <1>7, <1>b, <1>d, <2>2, EndTickEffect DEF Wrote
  <2> QED BY <2>1, <2>2
<1>8. ASSUME NEW r \in Replica, CallFails(r) PROVE Doomed(x, t)'
  BY <1>8, <1>e DEF CallFails
<1>9. ASSUME NEW r \in Replica, Crash(r) PROVE Doomed(x, t)'
  <2>1. CASE x = r
    BY <1>9, <1>b, <2>1, CrashEffect DEF Doomed
  <2>2. CASE x # r
    BY <1>9, <1>b, <1>d, <2>2, CrashEffect
  <2> QED BY <2>1, <2>2
<1>10. ASSUME NEW r \in Replica, Reboot(r) PROVE Doomed(x, t)'
  <2>1. CASE x = r
    BY <1>10, <1>a, <1>b, <2>1, RestartEffect DEF Doomed, Led
  <2>2. CASE x # r
    BY <1>10, <1>b, <1>d, <2>2, RestartEffect
  <2> QED BY <2>1, <2>2
<1>11. CASE UNCHANGED electionVars
  BY <1>11, <1>b, <1>d DEF electionVars
<1> QED BY <1>2, <1>3, <1>4, <1>5, <1>6, <1>7, <1>8, <1>9, <1>10, <1>11
        DEF ElectionNext, Task

(* Of a leader and a replica whose write has just returned, the one that   *)
(* does not hold the lease is doomed.                                       *)
LEMMA NewcomerDooms ==
  ASSUME Timely, ElectionTypeOK, TicksInOrder,
         LeadersRenew, OnlyHolderRenews,
         NEW y \in Replica, NEW r \in Replica, y # r, leading[y], holder # NoHolder,
         Wrote(r), plan[r] # "standback"
  PROVE  Doomed(y, 0)' \/ Doomed(r, 0)'
<1>1. /\ step'[r] = "sleep" /\ timer'[r] = Period /\ holder' = holder
      /\ step'[y] = step[y] /\ plan'[y] = plan[y] /\ timer'[y] = timer[y]
  BY EndTickEffect DEF Wrote
<1>2. timer[y] \in Nat /\ Latency \in Nat /\ Period \in Nat
  BY Entries
<1>3. CASE holder # r
  <2>1. Remaining(r)' = Period + Latency
    BY <1>1 DEF Remaining
  <2> QED BY <1>1, <1>2, <1>3, <2>1 DEF Doomed
<1>4. CASE holder = r
  <2>1. /\ plan[y] # "apply" /\ plan[y] # "create" /\ plan[y] \in Plans
        /\ step[y] # "down"
    BY <1>4 DEF OnlyHolderRenews, RenewsOwn, LeadersRenew, Led, ElectionTypeOK
  <2>2. step[y] \in {"sleep", "get"} \/ plan[y] = "standback"
    BY <2>1 DEF TicksInOrder, InOrder, ElectionTypeOK, Steps, Calling,
                Plans
  <2>3. Remaining(y)' <= Period + Latency /\ Remaining(y)' \in Nat
    <3>1. step[y] \in Calling => timer[y] <= Latency
      BY DEF TicksInOrder, InOrder
    <3>2. timer[y] <= Period \/ timer[y] <= Latency
      BY Entries
    <3>3. Remaining(y)' = IF step[y] = "sleep" THEN timer[y] + Latency ELSE timer[y]
      BY <1>1 DEF Remaining
    <3>4. step[y] # "sleep" => step[y] \in Calling
      BY <2>1 DEF ElectionTypeOK, Steps
    <3>5. step[y] = "sleep" => timer[y] <= Period
      BY <1>2, <3>2 DEF Timely
    <3> QED BY <1>2, <3>1, <3>3, <3>4, <3>5
  <2> QED BY <1>1, <1>2, <1>4, <2>2, <2>3 DEF Doomed
<1> QED BY <1>3, <1>4

(* Two leaders overlap only while one of them is on its way out. *)
LEMMA HandoverStep ==
  ASSUME Timely, ElectionTypeOK, ElectionTypeOK',
         TicksInOrder, NobodyBefore, LeadersRenew, Recent,
         OnlyHolderRenews, OneIsDoomed, [ElectionNext]_electionVars
  PROVE  OneIsDoomed'
<1> SUFFICES ASSUME NEW a \in Replica, NEW z \in Replica, a # z,
                    (leading'[a] /\ leading'[z]) \/ together'[a][z] > 0
             PROVE  /\ holder' # NoHolder
                    /\ age' <= Period + 5 * Latency
                    /\ together'[a][z] <= Period + Latency
                    /\ Doomed(a, together[a][z])' \/ Doomed(z, together[a][z])'
  BY DEF OneIsDoomed, Handover
<1> DEFINE t == together[a][z]
<1>a. /\ t \in Nat /\ together'[a][z] \in Nat /\ age \in Nat /\ age' \in Nat
      /\ Period \in Nat /\ Latency \in Nat /\ NoHolder \notin Replica
  BY LeaseAssumption DEF ElectionTypeOK
<1>b. Handover(a, z)
  BY DEF OneIsDoomed
<1>1. CASE Advance
  <2>1. /\ holder' = holder /\ leading' = leading /\ plan' = plan /\ step' = step
        /\ leading[a] /\ leading[z] /\ together'[a][z] <= t + 1
    BY <1>1, <1>a, LeaseAssumption DEF Advance, Capped, ElectionTypeOK
  <2>2. /\ holder # NoHolder
        /\ t <= Period + Latency
        /\ Doomed(a, t) \/ Doomed(z, t)
    BY <1>b, <2>1 DEF Handover
  <2>3. age' <= Period + 5 * Latency
    <3>1. age + timer[a] <= Period + 5 * Latency
      BY <2>1, LeaderIsRecent
    <3>2. step[a] # "down"
      BY <2>1 DEF LeadersRenew, Led
    <3>3. age' <= age + 1 /\ timer[a] > 0 /\ timer[a] \in Nat
      BY <1>1, <3>2, AdvanceEffect
    <3> QED BY <1>a, <3>1, <3>3
  <2>4. ASSUME NEW x \in {a, z}, Doomed(x, t)
        PROVE  together'[a][z] <= Period + Latency /\ Doomed(x, together[a][z])'
    <3>1. leading[x] /\ step[x] # "down" /\ x \in Replica
      BY <2>1 DEF LeadersRenew, Led
    <3>2. timer'[x] = timer[x] - 1 /\ timer[x] \in Nat /\ timer[x] > 0
      BY <1>1, <3>1, AdvanceEffect
    <3>3. /\ Remaining(x) = IF step[x] = "sleep" THEN timer[x] + Latency ELSE timer[x]
          /\ Remaining(x)' = IF step[x] = "sleep" THEN timer'[x] + Latency ELSE timer'[x]
      BY <2>1 DEF Remaining
    <3>4. Remaining(x)' = Remaining(x) - 1 /\ Remaining(x) \in Nat /\ Remaining(x) > 0
      BY <1>a, <3>2, <3>3
    <3>5. t + Remaining(x) <= Period + Latency
      BY <2>4, <3>1 DEF Doomed
    <3>6. /\ together'[a][z] + Remaining(x)' <= Period + Latency
          /\ together'[a][z] <= Period + Latency
      BY <1>a, <2>1, <3>4, <3>5
    <3> QED BY <2>1, <2>4, <3>6 DEF Doomed
  <2> QED BY <2>1, <2>2, <2>3, <2>4
<1>2. CASE ~Advance
  <2>1. together' = together
    BY <1>2 DEF ElectionNext, Task, BeginTick, Get,
                StandBack, BeginWrite, WriteLease, Wrote,
                CallFails,
                Crash, Reboot, electionVars
  <2>2. /\ holder # NoHolder => holder' # NoHolder
        /\ age' <= age \/ age' <= 2 * Latency
    <3>1. ASSUME NEW r \in Replica, WriteLease(r)
          PROVE  /\ holder # NoHolder => holder' # NoHolder
                 /\ age' <= age \/ age' <= 2 * Latency
      BY <1>a, <3>1, WriteEffect, Entries DEF TicksInOrder, InOrder
    <3>2. (\E r \in Replica : WriteLease(r)) \/ (holder' = holder /\ age' = age)
      BY <1>2 DEF ElectionNext, Task, BeginTick, Get,
                  StandBack, BeginWrite, Wrote,
                  CallFails, Crash,
                  Reboot, electionVars
    <3> QED BY <1>a, <3>1, <3>2
  <2>3. CASE (leading[a] /\ leading[z]) \/ t > 0
    <3>1. /\ holder # NoHolder /\ age <= Period + 5 * Latency /\ t <= Period + Latency
          /\ Doomed(a, t) \/ Doomed(z, t)
      BY <1>b, <2>3 DEF Handover
    <3>2. ASSUME NEW x \in {a, z}, Doomed(x, t) PROVE Doomed(x, together[a][z])'
      <4>1. ASSUME NEW n \in Nat, n = t PROVE Doomed(x, n)'
        BY <1>2, <3>1, <3>2, <4>1, DoomedStays
      <4> QED BY <1>a, <2>1, <4>1 DEF Doomed
    <3> QED BY <1>a, <2>1, <2>2, <3>1, <3>2
  <2>4. CASE ~((leading[a] /\ leading[z]) \/ t > 0)
    <3>1. t = 0 /\ leading'[a] /\ leading'[z]
      BY <1>a, <2>1, <2>4
    <3>2. PICK r \in Replica : Wrote(r) /\ plan[r] # "standback" /\ ~leading[r]
      <4>1. PICK x \in {a, z} : ~leading[x] /\ leading'[x]
        BY <2>4, <3>1
      <4>2. ASSUME NEW r \in Replica, EndTick(r, FALSE) PROVE FALSE
        BY <4>1, <4>2, EndTickEffect
      <4>3. ASSUME NEW r \in Replica, Wrote(r), x # r PROVE FALSE
        BY <4>1, <4>3, EndTickEffect DEF Wrote
      <4>4. ASSUME NEW r \in Replica, Wrote(r), plan[r] = "standback" PROVE FALSE
        BY <4>2, <4>4 DEF Wrote
      <4>5. ASSUME NEW r \in Replica, Crash(r) PROVE FALSE
        BY <4>1, <4>5, CrashEffect
      <4>6. leading' # leading
        BY <4>1
      <4> QED BY <1>2, <4>1, <4>2, <4>3, <4>4, <4>5, <4>6
              DEF ElectionNext, Task, BeginTick, Get,
                  StandBack, BeginWrite, WriteLease,
                  CallFails, Reboot, electionVars
    <3>3. ASSUME NEW y \in Replica, y # r, leading'[y] PROVE leading[y]
      BY <3>2, <3>3, EndTickEffect DEF Wrote
    <3>4. PICK y \in {a, z} : y # r /\ leading[y]
      BY <3>1, <3>3
    <3>5. r \in {a, z}
      BY <2>4, <3>1, <3>3
    <3>6. holder # NoHolder /\ age <= Period + 5 * Latency
      BY <1>a, <3>4, LeaderIsRecent, Entries
    <3>7. Doomed(y, 0)' \/ Doomed(r, 0)'
      BY <3>2, <3>4, <3>6, NewcomerDooms
    <3>8. together'[a][z] = 0
      BY <2>1, <3>1
    <3>9. Doomed(y, together[a][z])' \/ Doomed(r, together[a][z])'
      BY <3>7, <3>8 DEF Doomed
    <3> QED BY <1>a, <2>2, <3>4, <3>5, <3>6, <3>8, <3>9
  <2> QED BY <2>3, <2>4
<1> QED BY <1>1, <1>2

(* What changes the lease or the counts. *)
LEMMA ServerEffect ==
  ASSUME [ElectionNext]_electionVars
  PROVE  /\ \/ \E r \in Replica : WriteLease(r)
            \/ Advance
            \/ holder' = holder /\ age' = age
         /\ (\E r \in Replica : CallFails(r)) \/ fails' = fails
         /\ (\E r \in Replica : Crash(r)) \/ crashes' = crashes
BY DEF ElectionNext, Task, Advance, BeginTick, Get,
       StandBack, BeginWrite, WriteLease, Wrote,
         CallFails,
       Crash, Reboot, electionVars

(* Without a crash no replica is down.                                     *)
LEMMA NobodyDownStep ==
  ASSUME ElectionTypeOK, NobodyDown,
         [ElectionNext]_electionVars
  PROVE  NobodyDown'
<1> SUFFICES ASSUME crashes' = 0, NEW x \in Replica PROVE step'[x] # "down"
  BY DEF NobodyDown
<1>1. ASSUME NEW r \in Replica, Crash(r) PROVE FALSE
  BY <1>1, LeaseAssumption DEF Crash, ElectionTypeOK
<1>2. crashes' = crashes
  BY <1>1, ServerEffect
<1>3. step[x] # "down"
  BY <1>2 DEF NobodyDown
<1>4. ASSUME NEW r \in Replica,
             Task(r) \/ CallFails(r) \/ Reboot(r)
      PROVE  step'[x] # "down"
  BY <1>3, <1>4, BeginTickEffect, GetEffect, EndTickEffect, BeginWriteEffect, WriteEffect,
     RestartEffect DEF Task, StandBack, Wrote, CallFails
<1> QED BY <1>1, <1>3, <1>4, AdvanceEffect DEF ElectionNext, electionVars

(* The calm before a step into calm. *)
LEMMA CalmBefore ==
  ASSUME ElectionTypeOK, [ElectionNext]_electionVars, Calm'
  PROVE  crashes = 0 /\ fails <= 1 /\ ~(\E r \in Replica : Crash(r))
<1>1. ASSUME NEW r \in Replica, Crash(r) PROVE FALSE
  BY <1>1, LeaseAssumption DEF Crash, ElectionTypeOK, Calm
<1>2. ASSUME NEW r \in Replica, CallFails(r) PROVE fails <= fails'
  BY <1>2, LeaseAssumption DEF CallFails, ElectionTypeOK
<1>3. fails \in Nat /\ fails' <= 1 /\ crashes' = 0
  BY LeaseAssumption DEF Calm, ElectionTypeOK
<1>4. fails' = fails \/ fails <= fails'
  BY <1>2, ServerEffect
<1>5. fails' \in Nat
  <2>1. ASSUME NEW r \in Replica, CallFails(r) PROVE fails' \in Nat
    BY <1>3, <2>1 DEF CallFails
  <2> QED BY <1>3, <2>1, ServerEffect
<1> QED BY <1>1, <1>3, <1>4, <1>5, ServerEffect

(* In the calm only the holder plans to write.                             *)
LEMMA OnlyHolderWritesStep ==
  ASSUME RoomForOne, ElectionTypeOK, TicksInOrder,
         NobodyBefore,
         RenewedInTime, OnlyHolderWrites, [ElectionNext]_electionVars
  PROVE  OnlyHolderWrites'
<1> SUFFICES ASSUME Calm', NEW x \in Replica
             PROVE  /\ plan'[x] = "apply" => holder' = x
                    /\ holder' = x => /\ plan'[x] # "standback"
                                      /\ plan'[x] = "create" => step'[x] = "wrote"
  BY DEF OnlyHolderWrites
<1>a. /\ InOrder(x) /\ NoHolder \notin Replica /\ holder' # NoHolder
      /\ crashes = 0 /\ fails <= 1 /\ ~(\E r \in Replica : Crash(r))
  BY CalmBefore, LeaseAssumption DEF TicksInOrder, Calm
<1>b. holder # NoHolder =>
        /\ plan[x] = "apply" => holder = x
        /\ holder = x => /\ plan[x] # "standback"
                         /\ plan[x] = "create" => step[x] = "wrote"
  BY <1>a DEF OnlyHolderWrites, Calm
<1>c. holder # NoHolder => ~Expired(x)
  <2> SUFFICES ASSUME holder # NoHolder PROVE ~Expired(x)
    OBVIOUS
  <2>1. holder \in Replica
    BY DEF ElectionTypeOK
  <2>2. Due(holder) \in Nat /\ Allowed <= 2 * Period + 6 * Latency /\ Allowed \in Nat
    BY <2>1, Entries DEF Due, Allowed
  <2>3. age + Due(holder) <= Allowed
    BY <1>a DEF RenewedInTime, Calm
  <2>4. age + MaxSkew <= Duration
    BY <2>2, <2>3, Entries DEF RoomForOne
  <2> QED BY <2>4, RecentIsNotExpired
<1> DEFINE Ours ==
             /\ plan'[x] = "apply" => holder' = x
             /\ holder' = x => /\ plan'[x] # "standback"
                               /\ plan'[x] = "create" => step'[x] = "wrote"
<1>1. CASE Advance
  BY <1>a, <1>b, <1>1, AdvanceEffect
<1>2. ASSUME NEW r \in Replica, BeginTick(r) PROVE Ours
  BY <1>a, <1>b, <1>2, BeginTickEffect DEF InOrder
<1>3. ASSUME NEW r \in Replica, Get(r) PROVE Ours
  BY <1>a, <1>b, <1>c, <1>3, GetEffect DEF PlanOf
<1>4. ASSUME NEW r \in Replica, StandBack(r) PROVE Ours
  BY <1>a, <1>b, <1>4, EndTickEffect DEF StandBack
<1>5. ASSUME NEW r \in Replica, BeginWrite(r) PROVE Ours
  BY <1>a, <1>b, <1>5, BeginWriteEffect
<1>6. ASSUME NEW r \in Replica, WriteLease(r) PROVE Ours
  <2>1. CASE holder = NoHolder
    BY <1>a, <1>6, <2>1, WriteEffect DEF NobodyBefore, TicksInOrder, InOrder
  <2>2. CASE holder # NoHolder
    <3>1. plan[r] \in {"create", "apply"} /\ step[r] = "write"
      BY <1>6, WriteEffect DEF TicksInOrder, InOrder
    <3>2. plan[r] = "apply" => holder = r
      BY <1>a, <2>2 DEF OnlyHolderWrites, Calm
    <3>3. plan[r] = "create" => holder # r
      BY <1>a, <2>2, <3>1 DEF OnlyHolderWrites, Calm
    <3> QED BY <1>a, <1>b, <1>6, <2>2, <3>1, <3>2, <3>3, WriteEffect
  <2> QED BY <2>1, <2>2
<1>7. ASSUME NEW r \in Replica, Wrote(r) PROVE Ours
  BY <1>a, <1>b, <1>7, EndTickEffect DEF Wrote
<1>8. ASSUME NEW r \in Replica, CallFails(r) PROVE Ours
  BY <1>a, <1>b, <1>8, EndTickEffect DEF CallFails
<1>9. ASSUME NEW r \in Replica, Reboot(r) PROVE Ours
  BY <1>a, <1>b, <1>9, RestartEffect DEF InOrder
<1>10. CASE UNCHANGED electionVars
  BY <1>a, <1>b, <1>10 DEF electionVars
<1> QED BY <1>a, <1>1, <1>2, <1>3, <1>4, <1>5, <1>6, <1>7, <1>8, <1>9,
           <1>10 DEF ElectionNext, Task

(* In the calm the holder's next write lands in time.                      *)
LEMMA RenewedInTimeStep ==
  ASSUME ElectionTypeOK, ElectionTypeOK', TicksInOrder,
         NobodyBefore, NobodyDown,
         RenewedInTime, OnlyHolderWrites, OnlyHolderWrites', [ElectionNext]_electionVars
  PROVE  RenewedInTime'
<1> SUFFICES ASSUME Calm' PROVE age' + Due(holder)' <= Allowed'
  BY DEF RenewedInTime
<1>a. /\ holder' # NoHolder /\ holder' \in Replica /\ fails <= 1 /\ crashes = 0
      /\ ~(\E r \in Replica : Crash(r))
  BY CalmBefore DEF Calm, ElectionTypeOK
<1>b. /\ Allowed \in Nat /\ Allowed <= Allowed' /\ Allowed' \in Nat
      /\ Period + 4 * Latency <= Allowed
  <2>1. fails' = fails \/ fails' # 0
    <3>1. ASSUME NEW r \in Replica, CallFails(r) PROVE fails' # 0
      BY <3>1, LeaseAssumption DEF CallFails, ElectionTypeOK
    <3> QED BY <3>1, ServerEffect
  <2> QED BY <2>1, Entries DEF Allowed
<1>c. ASSUME WriteLease(holder') PROVE age' + Due(holder)' <= Allowed'
  <2>1. /\ stamp[holder'] + timer[holder'] <= 2 * Latency
        /\ step'[holder'] = "wrote" /\ timer'[holder'] = timer[holder']
    BY <1>a, <1>c, WriteEffect DEF TicksInOrder, InOrder
  <2>2. age' = stamp[holder']
    <3>1. ~(plan[holder'] = "create" /\ holder # NoHolder)
      BY <1>a, <1>c, WriteEffect DEF OnlyHolderWrites, Calm
    <3> QED BY <1>a, <1>c, <3>1, WriteEffect
  <2>3. Due(holder)' = timer[holder'] + Period + 2 * Latency
    BY <2>1 DEF Due
  <2> QED BY <1>a, <1>b, <2>1, <2>2, <2>3, Entries
<1> SUFFICES ASSUME ~WriteLease(holder') PROVE age' + Due(holder)' <= Allowed'
  BY <1>c
<1>d. holder' = holder
  <2>1. ASSUME NEW r \in Replica, WriteLease(r) PROVE holder' = holder
    BY <1>a, <2>1, WriteEffect
  <2> QED BY <2>1, ServerEffect DEF Advance
<1> DEFINE h == holder
<1>e. /\ h \in Replica /\ step[h] # "down" /\ Calm
      /\ age + Due(h) <= Allowed /\ InOrder(h) /\ plan[h] # "standback"
      /\ plan[h] = "create" => step[h] = "wrote"
  BY <1>a, <1>d DEF NobodyDown, RenewedInTime, Calm, TicksInOrder, OnlyHolderWrites
<1>f. /\ age \in Nat /\ age' \in Nat /\ timer[h] \in Nat /\ timer'[h] \in Nat
      /\ Due(h) \in Nat /\ Period \in Nat /\ Latency \in Nat
  <2>1. timer \in [Replica -> Nat] /\ timer' \in [Replica -> Nat]
    BY Entries, LeaseAssumption DEF ElectionTypeOK, Timers
  <2> QED BY <1>e, <2>1, Entries DEF ElectionTypeOK, Due
<1>g. ASSUME age' = age, Due(holder)' <= Due(h), Due(holder)' \in Nat
      PROVE  age' + Due(holder)' <= Allowed'
  BY <1>b, <1>e, <1>f, <1>g
<1>h. ASSUME age' = age, step'[h] = step[h], timer'[h] = timer[h]
      PROVE  age' + Due(holder)' <= Allowed'
  BY <1>d, <1>f, <1>g, <1>h DEF Due
<1>1. CASE Advance
  <2>1. /\ step'[h] = step[h] /\ timer'[h] = timer[h] - 1 /\ timer[h] > 0 /\ age' <= age + 1
    BY <1>1, <1>e, AdvanceEffect
  <2>2. Due(holder)' = Due(h) - 1
    BY <1>d, <1>f, <2>1 DEF Due
  <2> QED BY <1>b, <1>e, <1>f, <2>1, <2>2
<1>2. ASSUME NEW r \in Replica, BeginTick(r) PROVE age' + Due(holder)' <= Allowed'
  <2>1. CASE h = r
    <3>1. /\ step[h] = "sleep" /\ timer[h] = 0 /\ age' = age
          /\ step'[h] = "get" /\ timer'[h] = Latency
      BY <1>2, <1>e, <2>1, BeginTickEffect
    <3> QED BY <1>d, <1>f, <1>g, <3>1 DEF Due
  <2>2. CASE h # r
    BY <1>2, <1>e, <1>h, <2>2, BeginTickEffect
  <2> QED BY <2>1, <2>2
<1>3. ASSUME NEW r \in Replica, Get(r) PROVE age' + Due(holder)' <= Allowed'
  <2>1. CASE h = r
    <3>1. step[h] = "get" /\ timer'[h] = timer[h] /\ step'[h] = "got" /\ age' = age
      BY <1>3, <1>e, <2>1, GetEffect
    <3> QED BY <1>d, <1>f, <1>g, <3>1 DEF Due
  <2>2. CASE h # r
    BY <1>3, <1>e, <1>h, <2>2, GetEffect
  <2> QED BY <2>1, <2>2
<1>4. ASSUME NEW r \in Replica, StandBack(r) PROVE age' + Due(holder)' <= Allowed'
  BY <1>4, <1>e, <1>h, EndTickEffect DEF StandBack
<1>5. ASSUME NEW r \in Replica, BeginWrite(r) PROVE age' + Due(holder)' <= Allowed'
  <2>1. CASE h = r
    <3>1. step[h] = "got" /\ timer'[h] = Latency /\ step'[h] = "write" /\ age' = age
      BY <1>5, <1>e, <2>1, BeginWriteEffect
    <3> QED BY <1>d, <1>f, <1>g, <3>1 DEF Due
  <2>2. CASE h # r
    BY <1>5, <1>e, <1>h, <2>2, BeginWriteEffect
  <2> QED BY <2>1, <2>2
<1>6. ASSUME NEW r \in Replica, WriteLease(r) PROVE age' + Due(holder)' <= Allowed'
  <2>1. h # r
    BY <1>6, <1>d
  <2>2. holder' = holder /\ age' = age
    BY <1>6, <1>d, <2>1, WriteEffect
  <2> QED BY <1>6, <1>e, <1>h, <2>1, <2>2, WriteEffect
<1>7. ASSUME NEW r \in Replica, Wrote(r) PROVE age' + Due(holder)' <= Allowed'
  <2>1. CASE h = r
    <3>1. step[h] = "wrote" /\ timer'[h] = Period /\ step'[h] = "sleep" /\ age' = age
      BY <1>7, <1>e, <2>1, EndTickEffect DEF Wrote
    <3> QED BY <1>d, <1>f, <1>g, <3>1 DEF Due
  <2>2. CASE h # r
    BY <1>7, <1>e, <1>h, <2>2, EndTickEffect DEF Wrote
  <2> QED BY <2>1, <2>2
<1>8. ASSUME NEW r \in Replica, CallFails(r) PROVE age' + Due(holder)' <= Allowed'
  <2>1. CASE h = r
    <3>1. timer'[h] = Period /\ step'[h] = "sleep" /\ age' = age
      BY <1>8, <1>e, <2>1, EndTickEffect DEF CallFails
    <3>2. Due(holder)' = Period + 2 * Latency
      BY <1>d, <3>1 DEF Due
    <3>3. Allowed = Period + 4 * Latency /\ Allowed' = 2 * Period + 6 * Latency
      <4>1. fails' = fails + 1 /\ fails' <= 1 /\ fails \in Nat
        BY <1>8, LeaseAssumption DEF CallFails, Calm, ElectionTypeOK
      <4>2. fails = 0 /\ fails' = 1
        BY <4>1
      <4> QED BY <4>2 DEF Allowed
    <3> QED BY <1>e, <1>f, <3>1, <3>2, <3>3
  <2>2. CASE h # r
    BY <1>8, <1>e, <1>h, <2>2, EndTickEffect DEF CallFails
  <2> QED BY <2>1, <2>2
<1>9. ASSUME NEW r \in Replica, Reboot(r) PROVE age' + Due(holder)' <= Allowed'
  BY <1>9, <1>e, <1>h, RestartEffect
<1>10. CASE UNCHANGED electionVars
  BY <1>10, <1>h DEF electionVars
<1> QED BY <1>a, <1>1, <1>2, <1>3, <1>4, <1>5, <1>6, <1>7, <1>8, <1>9,
           <1>10 DEF ElectionNext, Task

(* A replica does not count as overlapping itself.                         *)
LEMMA OverlapsItselfStep ==
  ASSUME ElectionTypeOK, NobodyOverlapsItself,
         [ElectionNext]_electionVars
  PROVE  NobodyOverlapsItself'
<1> SUFFICES ASSUME NEW a \in Replica PROVE together'[a][a] = 0
  BY DEF NobodyOverlapsItself
<1>1. CASE Advance
  BY <1>1 DEF Advance
<1>2. CASE ~Advance
  BY <1>2 DEF NobodyOverlapsItself, ElectionNext, Task, BeginTick,
              Get, StandBack, BeginWrite, WriteLease,
              Wrote, CallFails, Crash, Reboot,
              electionVars
<1> QED BY <1>1, <1>2

(* The first states are in the invariants.                                 *)
LEMMA ElectionStarts ==
  ASSUME ElectionInit
  PROVE  ElectionInv /\ CalmInv
<1> USE LeaseAssumption DEF ElectionInit
<1>1. ElectionTypeOK
  BY InTypes DEF ElectionTypeOK, Steps, Timers
<1>2. TicksInOrder /\ NobodyBefore /\ LeadersRenew /\ Recent
  BY DEF TicksInOrder, InOrder, NobodyBefore, LeadersRenew, Led, Recent, RecentFor,
         Calling
<1>3. OnlyHolderRenews /\ LateWritesLandEarly /\ OneIsDoomed /\ NobodyOverlapsItself
  BY DEF OnlyHolderRenews, RenewsOwn, LateWritesLandEarly, Late, OneIsDoomed, Handover,
         NobodyOverlapsItself
<1>4. NobodyDown /\ RenewedInTime /\ OnlyHolderWrites
  BY DEF NobodyDown, RenewedInTime, OnlyHolderWrites, Calm
<1> QED BY <1>1, <1>2, <1>3, <1>4 DEF ElectionInv, CalmInv

(* What the replicas, the lease and the clocks may look like: every state  *)
(* of the election task and of the API server is of its type.              *)
THEOREM ElectionTypes == ElectionSpec => []ElectionTypeOK
<1>1. ElectionInit => ElectionTypeOK
  BY ElectionStarts DEF ElectionInv
<1>2. ElectionTypeOK /\ [ElectionNext]_electionVars => ElectionTypeOK'
  BY ElectionTypeStep
<1> QED BY <1>1, <1>2, PTL DEF ElectionSpec

(* The invariant behind the overlap.                                       *)
LEMMA ElectionInvariant ==
  ASSUME Timely
  PROVE  ElectionSpec => []ElectionInv
<1>1. ElectionInit => ElectionInv
  BY ElectionStarts
<1>2. ElectionInv /\ [ElectionNext]_electionVars => ElectionInv'
  BY ElectionTypeStep, TickStep, NobodyStep, LeaderStep, RecentStep, OnlyHolderStep,
     LateStep,
     HandoverStep, OverlapsItselfStep DEF ElectionInv
<1> QED BY <1>1, <1>2, PTL DEF ElectionSpec

(* leader.rs calls the overlap of two leaders at a handover short: no two  *)
(* flags are set together for longer than a period and a call, provided a  *)
(* lease outlives a period, five calls and the skew of the clocks.         *)
THEOREM OverlapsAreShort ==
  ASSUME Timely
  PROVE  ElectionSpec => []OverlapIsShort
<1>1. ElectionInv => OverlapIsShort
  <2> SUFFICES ASSUME ElectionInv, NEW a \in Replica, NEW z \in Replica
               PROVE  together[a][z] <= Overlap
    BY DEF OverlapIsShort
  <2>1. together[a][z] \in Nat /\ Overlap \in Nat /\ Period \in Nat /\ Latency \in Nat
    BY LeaseAssumption DEF ElectionInv, ElectionTypeOK
  <2>2. CASE a = z
    BY <2>1, <2>2 DEF ElectionInv, NobodyOverlapsItself
  <2>3. CASE a # z
    BY <2>1, <2>3 DEF ElectionInv, OneIsDoomed, Handover, Timely
  <2> QED BY <2>2, <2>3
<1> QED BY <1>1, ElectionInvariant, PTL

(* The invariant behind the one failure.                                   *)
LEMMA CalmInvariant ==
  ASSUME RoomForOne
  PROVE  ElectionSpec => []CalmInv
<1>1. ElectionInit => CalmInv
  BY ElectionStarts
<1>2. CalmInv /\ [ElectionNext]_electionVars => CalmInv'
  BY ElectionTypeStep, TickStep, NobodyStep, NobodyDownStep, OnlyHolderWritesStep,
     RenewedInTimeStep DEF CalmInv
<1> QED BY <1>1, <1>2, PTL DEF ElectionSpec

(* Renewing every third of the duration leaves room for one lost renewal:  *)
(* the lease changes hands only after a crash or two failed calls, provided *)
(* it outlives two periods, six calls and the skew of the clocks.          *)
THEOREM OneFailureIsSurvived ==
  ASSUME RoomForOne
  PROVE  ElectionSpec => OneFailureKeepsTheLease
<1>1. CalmInv /\ [ElectionNext]_electionVars
        => [(holder # NoHolder /\ holder' # holder) => crashes > 0 \/ fails > 1]_electionVars
  <2> SUFFICES ASSUME CalmInv, [ElectionNext]_electionVars, holder # NoHolder,
                      holder' # holder,
                      ~(crashes > 0 \/ fails > 1)
               PROVE  FALSE
    OBVIOUS
  <2>1. Calm
    BY LeaseAssumption DEF CalmInv, ElectionTypeOK, Calm
  <2>2. PICK r \in Replica : WriteLease(r) /\ holder' = r
    <3>1. ASSUME NEW r \in Replica, WriteLease(r) PROVE holder' = r
      BY <3>1 DEF WriteLease
    <3> QED BY <3>1, ServerEffect DEF Advance
  <2>3. plan[r] \in {"create", "apply"} /\ plan[r] # "create"
    BY <2>2, WriteEffect DEF CalmInv, TicksInOrder, InOrder
  <2> QED BY <2>1, <2>2, <2>3 DEF CalmInv, OnlyHolderWrites
<1> QED BY <1>1, CalmInvariant, PTL DEF ElectionSpec, OneFailureKeepsTheLease
=============================================================================

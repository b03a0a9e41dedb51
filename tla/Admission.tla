----------------------------- MODULE Admission ------------------------------
(***************************************************************************)
(* The validating webhook of the operator (routed-operator/src/webhook.rs, *)
(* ADR-0015): what users write to the cluster is compiled with what the    *)
(* cluster holds, and denied when the report has an error that names it.   *)
(*                                                                         *)
(* The API server asks before it stores; other writes go on meanwhile, and *)
(* the webhook lists the kinds one after the other.  Deletes are not       *)
(* examined, and a listing that fails admits the write.                    *)
(***************************************************************************)
EXTENDS Compiler

CONSTANTS
    Writers,         \* writes under way at once
    Drafts,          \* the objects users may write
    Stores,          \* what a cluster may hold before the webhook is installed
    WatchNamespace,  \* the operator's --namespace, or None
    MaxWrites,       \* bound on writes and deletes
    MaxFaults        \* bound on failing listings

Kind == {"ModelTier", "DataClass", "RoutingPolicy", "RouterProfile"}

\* The order list_input lists them in
ListOrder == <<"ModelTier", "DataClass", "RoutingPolicy", "RouterProfile">>

SameObject(o, d) == o.kind = d.kind /\ Key(o) = Key(d)

ASSUME NoneAssumption ==
    None \notin Drafts /\ None \notin {"create", "update"} /\ None \notin Seq(Drafts)
ASSUME DraftsAssumption ==
    Drafts \subseteq Resource /\ \A d \in Drafts : d.ns # None /\ d.name # None
ASSUME StoresAssumption ==
    \A S \in Stores : /\ S \subseteq Drafts /\ IsFiniteSet(S)
                      /\ \A o, d \in S : SameObject(o, d) => o = d
ASSUME KeyOrderAssumption ==
    \A o, p, q \in Drafts :
        /\ ~KeyBefore(Key(o), Key(o))
        /\ Key(o) = Key(p) \/ KeyBefore(Key(o), Key(p)) \/ KeyBefore(Key(p), Key(o))
        /\ KeyBefore(Key(o), Key(p)) /\ KeyBefore(Key(p), Key(q))
             => KeyBefore(Key(o), Key(q))
ASSUME BoundsAssumption == MaxWrites \in Nat /\ MaxFaults \in Nat

VARIABLES
    store,    \* the objects in the cluster
    stage,    \* where the write of each writer is
    draft,    \* what it writes
    op,       \* Create or Update
    listed,   \* the kinds its webhook call has listed
    writes, faults

vars == <<store, stage, draft, op, listed, writes, faults>>

Unlisted == [k \in Kind |-> None]

Init ==
    /\ store \in Stores
    /\ stage = [w \in Writers |-> "idle"]
    /\ draft = [w \in Writers |-> None]
    /\ op = [w \in Writers |-> None]
    /\ listed = [w \in Writers |-> Unlisted]
    /\ writes = 0
    /\ faults = 0

----------------------------------------------------------------------------
(* Listings: the watched objects of a kind, in the order of their keys *)

Watched(S, k) ==
    {o \in S : o.kind = k /\ (WatchNamespace # None => o.ns = WatchNamespace)}

Listing(S, k) ==
    LET place(o) == 1 + Cardinality({p \in Watched(S, k) : KeyBefore(Key(p), Key(o))})
    IN  [n \in 1..Cardinality(Watched(S, k)) |-> CHOOSE o \in Watched(S, k) : place(o) = n]

Listings(S) == [k \in Kind |-> Listing(S, k)]

Input(lists) ==
    [tiers |-> lists["ModelTier"], data_classes |-> lists["DataClass"],
     policies |-> lists["RoutingPolicy"], profiles |-> lists["RouterProfile"]]

(* A plausible bug: the object is compiled ahead of the others. *)
SubstituteFirst(lists, d) == [lists EXCEPT ![d.kind] = <<d>> \o @]

(* The object in the place of the one it updates, or at the end. *)
Substitute(lists, d) ==
    LET list == lists[d.kind]
        same == {i \in DOMAIN list : Key(list[i]) = Key(d)}
    IN  [lists EXCEPT ![d.kind] =
            IF same = {} THEN Append(@, d)
            ELSE [@ EXCEPT ![CHOOSE i \in same : \A j \in same : i <= j] = d]]

OwnErrors(lists, d) ==
    {e \in Errors(Report(Input(lists))) : e.kind = d.kind /\ e.name = Key(d)}

----------------------------------------------------------------------------
(* The webhook *)

Idle(w) ==
    /\ stage' = [stage EXCEPT ![w] = "idle"]
    /\ draft' = [draft EXCEPT ![w] = None]
    /\ op' = [op EXCEPT ![w] = None]
    /\ listed' = [listed EXCEPT ![w] = Unlisted]

(* A kubectl apply: an update when the object is there, else a create. *)
Submit(w) ==
    /\ stage[w] = "idle"
    /\ writes < MaxWrites
    /\ \E d \in Drafts \ store :
         /\ draft' = [draft EXCEPT ![w] = d]
         /\ op' = [op EXCEPT ![w] =
                     IF \E o \in store : SameObject(o, d) THEN "update" ELSE "create"]
    /\ stage' = [stage EXCEPT ![w] = "list"]
    /\ writes' = writes + 1
    /\ UNCHANGED <<store, listed, faults>>

ListKind(w) ==
    /\ stage[w] = "list"
    /\ \E n \in DOMAIN ListOrder :
         /\ listed[w][ListOrder[n]] = None
         /\ \A m \in 1..(n - 1) : listed[w][ListOrder[m]] # None
         /\ listed' = [listed EXCEPT ![w][ListOrder[n]] = Listing(store, ListOrder[n])]
         /\ stage' = IF n = Len(ListOrder) THEN [stage EXCEPT ![w] = "check"] ELSE stage
    /\ UNCHANGED <<store, draft, op, writes, faults>>

(* A cluster that cannot be read must not block its repair. *)
ListFails(w) ==
    /\ stage[w] = "list"
    /\ faults < MaxFaults
    /\ faults' = faults + 1
    /\ stage' = [stage EXCEPT ![w] = "admitted"]
    /\ listed' = [listed EXCEPT ![w] = Unlisted]
    /\ UNCHANGED <<store, draft, op, writes>>

Admissible(w) == OwnErrors(Substitute(listed[w], draft[w]), draft[w]) = {}

Admit(w) ==
    /\ stage[w] = "check"
    /\ Admissible(w)
    /\ stage' = [stage EXCEPT ![w] = "admitted"]
    /\ UNCHANGED <<store, draft, op, listed, writes, faults>>

Deny(w) ==
    /\ stage[w] = "check"
    /\ ~Admissible(w)
    /\ Idle(w)
    /\ UNCHANGED <<store, writes, faults>>

(* The API server stores the object, unless a create finds it there by now *)
(* or an update finds it gone.                                             *)
Persist(w) ==
    /\ stage[w] = "admitted"
    /\ LET old == {o \in store : SameObject(o, draft[w])} IN
         store' = IF (old = {}) = (op[w] = "create")
                    THEN (store \ old) \cup {draft[w]} ELSE store
    /\ Idle(w)
    /\ UNCHANGED <<writes, faults>>

Delete(o) ==
    /\ writes < MaxWrites
    /\ store' = store \ {o}
    /\ writes' = writes + 1
    /\ UNCHANGED <<stage, draft, op, listed, faults>>

Next ==
    \/ \E w \in Writers :
         Submit(w) \/ ListKind(w) \/ ListFails(w) \/ Admit(w) \/ Deny(w) \/ Persist(w)
    \/ \E o \in store : Delete(o)

Spec == Init /\ [][Next]_vars

----------------------------------------------------------------------------
(* Properties *)

TypeOK ==
    /\ store \subseteq Drafts
    /\ stage \in [Writers -> {"idle", "list", "check", "admitted"}]
    /\ draft \in [Writers -> Drafts \cup {None}]
    /\ op \in [Writers -> {"create", "update", None}]
    /\ \A w \in Writers : stage[w] # "idle" => draft[w] # None /\ op[w] # None
    /\ writes \in 0..MaxWrites
    /\ faults \in 0..MaxFaults

StoreCompiles(S) == Compiles(Input(Listings(S)))

\* Nothing was written between a writer's first list and now.
Fresh(w) == listed[w] = Listings(store)

Judged(w) == Admit(w) \/ Deny(w)

New(w) == op[w] = "create" /\ \A o \in store : ~SameObject(o, draft[w])

\* An object the operator lists, once it is in the cluster.
Reconciled(d) == d \in Watched({d}, d.kind)

(* What a webhook says of a create is what the compiler will say of the     *)
(* cluster with it: alone with a cluster that compiles, an object is        *)
(* admitted exactly when the cluster compiles with it, although the webhook *)
(* puts it last and the reconciler lists it by its key, and although it     *)
(* reads only the errors that name it (webhook.rs 106-174).  An object of a *)
(* namespace that is not watched is judged all the same.                    *)
CreateVerdictIsExact ==
    [][\A w \in Writers :
         Judged(w) /\ New(w) /\ Reconciled(draft[w]) /\ Fresh(w) /\ StoreCompiles(store)
           => (Admit(w) <=> StoreCompiles(store \cup {draft[w]}))]_vars

(* An object admitted into the cluster it was checked against, whatever is  *)
(* wrong with the others, is not the one the reconciler then writes an      *)
(* error on (webhook.rs 69-94, status.rs).                                  *)
AdmittedIsClean ==
    [][\A w \in Writers :
         Persist(w) /\ Fresh(w) /\ draft[w] \in store'
           => OwnErrors(Listings(store'), draft[w]) = {}]_vars

Permuted(list) ==
    {[n \in DOMAIN list |-> list[f[n]]] :
        f \in {f \in [DOMAIN list -> DOMAIN list] :
                 \A n, m \in DOMAIN list : n # m => f[n] # f[m]}}

Orderings(lists) ==
    {Input([ModelTier |-> ts, DataClass |-> cs, RoutingPolicy |-> ps, RouterProfile |-> fs]) :
        ts \in Permuted(lists["ModelTier"]), cs \in Permuted(lists["DataClass"]),
        ps \in Permuted(lists["RoutingPolicy"]), fs \in Permuted(lists["RouterProfile"])}

(* Two replicas, or the operator and a router reading files, that see the  *)
(* same objects in different orders compile the same snapshot, or none *)
(* (ADR-0008; policy/src/lib.rs 782 sorts what the lists left in order).    *)
CompileIgnoresOrder ==
    \E result \in {Compile(Input(Listings(store)))} :
        \A in \in Orderings(Listings(store)) : Compile(in) = result

(* A snapshot refers only to what it holds: every candidate and fallback    *)
(* tier of a policy is a tier of the snapshot, and of the policy's own      *)
(* namespace, its profile and the classes of its tiers are there (the       *)
(* engine indexes them without a check).                                    *)
NoDangling(in) ==
    Compiles(in) =>
      /\ \A i \in Kept(in) :
           LET p == CompiledPolicy(in, i) IN
           /\ p.candidates # {}
           /\ \A n \in p.candidates \cup ({p.fallback} \ {None}) :
                \E k \in Tiers(in) :
                   in.tiers[k].name = n /\ Namespace(in.tiers[k]) = p.ns
           /\ p.learned => p.profile \in NamesOf(in.profiles, Profiles(in))
      /\ \A k \in Tiers(in) :
           in.tiers[k].classes \subseteq NamesOf(in.data_classes, DataClasses(in))

NoDanglingReference == NoDangling(Input(Listings(store)))
=============================================================================

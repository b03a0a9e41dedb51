--------------------------- MODULE AdmissionProofs --------------------------
(***************************************************************************)
(* What holds of the compiler's output for every input, and of the webhook *)
(* in every cluster.                                                       *)
(***************************************************************************)
EXTENDS Admission, FiniteSetTheorems, FunctionTheorems, TLAPS

-----------------------------------------------------------------------------
(* References.                                                             *)

\* A candidate is a tier of the policy's namespace.
LEMMA CandidatesAreNear ==
    ASSUME NEW in, NEW p, NEW n \in Candidates(in, p)
    PROVE  InNamespace(in, p, n)
BY DEF Candidates, Selected

\* What a kept policy refers to is kept.
LEMMA KeptRefersToKept ==
    ASSUME NEW in, NEW i \in Kept(in)
    PROVE  LET p == in.policies[i] IN
           /\ Candidates(in, p) # {}
           /\ p.fallback # None => InNamespace(in, p, p.fallback)
           /\ p.learned => p.profile \in NamesOf(in.profiles, Profiles(in))
<1> DEFINE p == in.policies[i]
<1>1. PolicyFaults(in, p) = {}
  BY DEF Kept
<1>2. Candidates(in, p) # {}
  BY <1>1 DEF PolicyFaults
<1>3. p.fallback # None => InNamespace(in, p, p.fallback)
  BY <1>1 DEF PolicyFaults
<1>4. p.learned => p.profile \in NamesOf(in.profiles, Profiles(in))
  BY <1>1 DEF PolicyFaults
<1> QED
  BY <1>2, <1>3, <1>4

\* What a kept tier refers to is kept.
LEMMA TierClassesAreKept ==
    ASSUME NEW in, NEW k \in Tiers(in)
    PROVE  in.tiers[k].classes \subseteq NamesOf(in.data_classes, DataClasses(in))
<1>1. TierFaults(in, k) = {}
  BY DEF Tiers, Sound
<1> QED
  BY <1>1 DEF TierFaults

\* Whatever is compiled, in whatever order it was listed, the snapshot refers
\* only to what it holds (policy/src/lib.rs 560-780).
THEOREM SnapshotsAreClosed == \A in : NoDangling(in)
<1> SUFFICES ASSUME NEW in PROVE NoDangling(in)
  OBVIOUS
<1>1. ASSUME NEW i \in Kept(in)
      PROVE  LET p == CompiledPolicy(in, i) IN
             /\ p.candidates # {}
             /\ \A n \in p.candidates \cup ({p.fallback} \ {None}) :
                  \E k \in Tiers(in) :
                     in.tiers[k].name = n /\ Namespace(in.tiers[k]) = p.ns
             /\ p.learned => p.profile \in NamesOf(in.profiles, Profiles(in))
  <2> DEFINE q == in.policies[i]
             p == CompiledPolicy(in, i)
  <2>1. /\ p.candidates = Candidates(in, q)
        /\ p.fallback = q.fallback
        /\ p.ns = Namespace(q)
        /\ p.learned = q.learned
        /\ p.profile = q.profile
    BY DEF CompiledPolicy
  <2>2. /\ Candidates(in, q) # {}
        /\ q.fallback # None => InNamespace(in, q, q.fallback)
        /\ q.learned => q.profile \in NamesOf(in.profiles, Profiles(in))
    BY KeptRefersToKept
  <2>3. ASSUME NEW n \in Candidates(in, q) \cup ({q.fallback} \ {None})
        PROVE  \E k \in Tiers(in) :
                  in.tiers[k].name = n /\ Namespace(in.tiers[k]) = Namespace(q)
    <3>1. InNamespace(in, q, n)
      BY <2>2, <2>3, CandidatesAreNear
    <3> QED
      BY <3>1 DEF InNamespace
  <2> HIDE DEF p, q
  <2>4. /\ p.candidates # {}
        /\ \A n \in p.candidates \cup ({p.fallback} \ {None}) :
             \E k \in Tiers(in) :
                in.tiers[k].name = n /\ Namespace(in.tiers[k]) = p.ns
        /\ p.learned => p.profile \in NamesOf(in.profiles, Profiles(in))
    BY <2>1, <2>2, <2>3
  <2> QED
    BY <2>4 DEF p
<1> QED
  BY <1>1, TierClassesAreKept DEF NoDangling

\* In every cluster the operator's snapshot, if there is one, refers only to
\* what it holds.
THEOREM NothingDangles == Spec => []NoDanglingReference
<1>1. NoDanglingReference
  BY SnapshotsAreClosed DEF NoDanglingReference
<1> QED
  BY <1>1, PTL

-----------------------------------------------------------------------------
(* Types.                                                                  *)

LEMMA InitTypes == Init => TypeOK
BY StoresAssumption, BoundsAssumption DEF Init, TypeOK

LEMMA StepTypes == TypeOK /\ [Next]_vars => TypeOK'
<1> SUFFICES ASSUME TypeOK, [Next]_vars PROVE TypeOK'
  OBVIOUS
<1> USE BoundsAssumption
<1>1. ASSUME NEW w \in Writers, Submit(w) PROVE TypeOK'
  <2> PICK d \in Drafts \ store :
         /\ draft' = [draft EXCEPT ![w] = d]
         /\ op' = [op EXCEPT ![w] =
                     IF \E o \in store : SameObject(o, d) THEN "update" ELSE "create"]
    BY <1>1 DEF Submit
  <2>1. draft'[w] # None /\ op'[w] \in {"create", "update"}
    BY NoneAssumption DEF TypeOK
  <2>2. op'[w] # None
    BY <2>1, NoneAssumption
  <2>3. /\ draft' \in [Writers -> Drafts \cup {None}]
        /\ op' \in [Writers -> {"create", "update", None}]
    BY DEF TypeOK
  <2> QED
    BY <1>1, <2>1, <2>2, <2>3 DEF TypeOK, Submit
<1>2. ASSUME NEW w \in Writers, ListKind(w) PROVE TypeOK'
  BY <1>2 DEF TypeOK, ListKind
<1>3. ASSUME NEW w \in Writers, ListFails(w) PROVE TypeOK'
  BY <1>3 DEF TypeOK, ListFails
<1>4. ASSUME NEW w \in Writers, Admit(w) PROVE TypeOK'
  BY <1>4 DEF TypeOK, Admit
<1>5. ASSUME NEW w \in Writers, Deny(w) PROVE TypeOK'
  BY <1>5 DEF TypeOK, Deny, Idle
<1>6. ASSUME NEW w \in Writers, Persist(w) PROVE TypeOK'
  <2>1. draft[w] \in Drafts
    BY <1>6 DEF TypeOK, Persist
  <2> QED
    BY <1>6, <2>1 DEF TypeOK, Persist, Idle
<1>7. ASSUME NEW o \in store, Delete(o) PROVE TypeOK'
  BY <1>7 DEF TypeOK, Delete
<1>8. CASE UNCHANGED vars
  BY <1>8 DEF TypeOK, vars
<1> QED
  BY <1>1, <1>2, <1>3, <1>4, <1>5, <1>6, <1>7, <1>8 DEF Next

\* The variables take the values their comments give them.
THEOREM AdmissionTypes == Spec => []TypeOK
BY InitTypes, StepTypes, PTL DEF Spec

-----------------------------------------------------------------------------
(* Places in a total order.                                                *)

Rank(S, R, x) == 1 + Cardinality({y \in S : <<y, x>> \in R})

TotalOrder(S, R) ==
    /\ \A x \in S : <<x, x>> \notin R
    /\ \A x, y \in S : x = y \/ <<x, y>> \in R \/ <<y, x>> \in R
    /\ \A x, y, z \in S : <<x, y>> \in R /\ <<y, z>> \in R => <<x, z>> \in R

\* In a total order a greater element has a greater rank.
LEMMA RanksGrow ==
    ASSUME NEW S, IsFiniteSet(S), NEW R, TotalOrder(S, R),
           NEW x \in S, NEW y \in S, <<x, y>> \in R
    PROVE  Rank(S, R, x) < Rank(S, R, y)
<1> DEFINE X == {z \in S : <<z, x>> \in R}
           Y == {z \in S : <<z, y>> \in R}
<1>1. IsFiniteSet(Y) /\ Cardinality(Y) \in Nat
  BY FS_Subset, FS_CardinalityType
<1>2. X \subseteq Y /\ x \in Y /\ x \notin X
  BY DEF TotalOrder
<1>3. IsFiniteSet(X) /\ Cardinality(X) \in Nat
  BY FS_Subset, FS_CardinalityType
<1>4. Cardinality(X) <= Cardinality(Y) /\ Cardinality(X) # Cardinality(Y)
  BY <1>1, <1>2, FS_Subset
<1> QED
  BY <1>1, <1>3, <1>4 DEF Rank

\* The ranks of a finite totally ordered set number its elements.
LEMMA RankIsBijective ==
    ASSUME NEW S, IsFiniteSet(S), NEW R, TotalOrder(S, R)
    PROVE  /\ \A x \in S : Rank(S, R, x) \in 1..Cardinality(S)
           /\ \A x, y \in S : Rank(S, R, x) = Rank(S, R, y) => x = y
           /\ \A n \in 1..Cardinality(S) : \E x \in S : Rank(S, R, x) = n
<1>1. Cardinality(S) \in Nat
  BY FS_CardinalityType
<1>2. ASSUME NEW x \in S PROVE Rank(S, R, x) \in 1..Cardinality(S)
  <2> DEFINE X == {y \in S : <<y, x>> \in R}
  <2>1. IsFiniteSet(X) /\ Cardinality(X) \in Nat
    BY FS_Subset, FS_CardinalityType
  <2>2. X # S /\ X \subseteq S
    BY DEF TotalOrder
  <2>3. Cardinality(X) <= Cardinality(S) /\ Cardinality(X) # Cardinality(S)
    BY <2>2, FS_Subset
  <2> QED
    BY <1>1, <2>1, <2>3 DEF Rank
<1>3. ASSUME NEW x \in S, NEW y \in S, Rank(S, R, x) = Rank(S, R, y) PROVE x = y
  <2>1. Rank(S, R, x) \in Int
    BY <1>1, <1>2
  <2>2. <<x, y>> \notin R /\ <<y, x>> \notin R
    BY <1>3, <2>1, RanksGrow
  <2> QED
    BY <2>2 DEF TotalOrder
<1>4. ASSUME NEW n \in 1..Cardinality(S) PROVE \E x \in S : Rank(S, R, x) = n
  <2> DEFINE f == [x \in S |-> Rank(S, R, x)]
             T == 1..Cardinality(S)
  <2>1. f \in Injection(S, T)
    BY <1>2, <1>3, Fun_IsInj
  <2>2. IsFiniteSet(T)
    <3>1. 1 \in Int /\ Cardinality(S) \in Int
      BY <1>1
    <3> QED
      BY <3>1, FS_Interval, Zenon
  <2>3. Cardinality(T) = Cardinality(S)
    <3>1. 1 \in Int /\ Cardinality(S) \in Int
      BY <1>1
    <3>2. Cardinality(T) = IF 1 > Cardinality(S) THEN 0 ELSE Cardinality(S) - 1 + 1
      BY <3>1, FS_Interval, Zenon
    <3> QED
      BY <1>1, <3>2
  <2>4. f \in Surjection(S, T)
    BY <2>1, <2>2, <2>3, FS_Injection
  <2>5. \E x \in S : f[x] = n
    <3> HIDE DEF f
    <3> QED
      BY <2>4 DEF Surjection
  <2> QED
    BY <2>5
<1> QED
  BY <1>2, <1>3, <1>4

\* Every set of numbers has a least one.
LEMMA HasLeast ==
    ASSUME NEW S, S \subseteq Nat, S # {}
    PROVE  \E i \in S : \A j \in S : i <= j
<1>1. \E i \in S : \A j \in S : ~(<<j, i>> \in OpToRel(<, Nat))
  BY NatLessThanWellFounded, WFMin
<1>2. PICK i \in S : \A j \in S : <<j, i>> \notin OpToRel(<, Nat)
  BY <1>1
<1>3. ASSUME NEW j \in S PROVE i <= j
  <2>1. ~(j < i)
    BY <1>2 DEF OpToRel
  <2> QED
    BY <2>1
<1> QED
  BY <1>3

-----------------------------------------------------------------------------
(* What the compiler is given, as sets.                                    *)

Elems(list) == {list[i] : i \in DOMAIN list}

\* A list of drafts of one kind
ListOf(list, k) ==
    /\ \E n \in Nat : DOMAIN list = 1..n
    /\ \A i \in DOMAIN list : list[i] \in Drafts /\ list[i].kind = k

GoodInput(in) ==
    /\ ListOf(in.tiers, "ModelTier")
    /\ ListOf(in.data_classes, "DataClass")
    /\ ListOf(in.policies, "RoutingPolicy")
    /\ ListOf(in.profiles, "RouterProfile")

OwnNames(list) ==
    \A i, j \in DOMAIN list : i # j => list[i].name # list[j].name

OwnKeys(list) ==
    \A i, j \in DOMAIN list : i # j => Key(list[i]) # Key(list[j])

\* Nothing is wrong with the profiles, with the classes, with the tiers.
ProfilesClean(F) ==
    /\ \A p \in F : p.bad = {}
    /\ \A p, q \in F : \A c \in Currency :
          p.rates[c] # None =>
            p.rates[c] # 0 /\ (q.rates[c] # None => q.rates[c] = p.rates[c])

ClassesClean(C) ==
    /\ \A x \in C : x.bad = {}
    /\ \A x, y \in C : x.name # y.name => Claims(x) \cap Claims(y) = {}

TiersClean(T, C, F) ==
    \A t \in T :
       /\ t.bad = {}
       /\ t.classes \subseteq {x.name : x \in C}
       /\ t.currency = "EUR" \/ \E p \in F : p.rates[t.currency] \notin {None, 0}

Clean(in) ==
    /\ OwnNames(in.profiles) /\ ProfilesClean(Elems(in.profiles))
    /\ OwnNames(in.data_classes) /\ ClassesClean(Elems(in.data_classes))
    /\ OwnNames(in.tiers)
    /\ TiersClean(Elems(in.tiers), Elems(in.data_classes), Elems(in.profiles))
    /\ OwnKeys(in.policies)

\* Every place is the first of its name exactly when no name is repeated.
LEMMA FirstOfDistinct ==
    ASSUME NEW list, NEW k, ListOf(list, k)
    PROVE  FirstNamed(list) = DOMAIN list <=> OwnNames(list)
<1>1. \A i \in DOMAIN list : i \in Nat /\ \A j \in 1..(i - 1) : j \in DOMAIN list /\ j # i
  BY DEF ListOf
<1>2. \A i \in DOMAIN list : list[i].name # None
  BY DraftsAssumption DEF ListOf
<1>3. ASSUME OwnNames(list) PROVE FirstNamed(list) = DOMAIN list
  BY <1>1, <1>2, <1>3 DEF FirstNamed, OwnNames
<1>4. ASSUME FirstNamed(list) = DOMAIN list,
             NEW i \in DOMAIN list, NEW j \in DOMAIN list, i # j
      PROVE  list[i].name # list[j].name
  <2>1. i \in Nat /\ j \in Nat /\ i >= 1 /\ j >= 1
    BY DEF ListOf
  <2>2. CASE j < i
    <3>1. j \in 1..(i - 1)
      BY <2>1, <2>2
    <3> QED
      BY <1>4, <3>1 DEF FirstNamed
  <2>3. CASE i < j
    <3>1. i \in 1..(j - 1)
      BY <2>1, <2>3
    <3> QED
      BY <1>4, <3>1 DEF FirstNamed
  <2> QED
    BY <1>4, <2>1, <2>2, <2>3
<1> QED
  BY <1>3, <1>4 DEF OwnNames

\* Every policy is looked at exactly when no key is repeated.
LEMMA SeenOfDistinct ==
    ASSUME NEW in, GoodInput(in)
    PROVE  Seen(in) = DOMAIN in.policies <=> OwnKeys(in.policies)
<1> DEFINE list == in.policies
<1>1. \A i \in DOMAIN list : i \in Nat /\ \A j \in 1..(i - 1) : j \in DOMAIN list /\ j # i
  BY DEF GoodInput, ListOf
<1>2. \A i \in DOMAIN list : list[i].name # None
  BY DraftsAssumption DEF GoodInput, ListOf
<1>3. ASSUME OwnKeys(list) PROVE Seen(in) = DOMAIN list
  BY <1>1, <1>2, <1>3 DEF Seen, OwnKeys
<1>4. ASSUME Seen(in) = DOMAIN list,
             NEW i \in DOMAIN list, NEW j \in DOMAIN list, i # j
      PROVE  Key(list[i]) # Key(list[j])
  <2>1. i \in Nat /\ j \in Nat /\ i >= 1 /\ j >= 1
    BY DEF GoodInput, ListOf
  <2>2. CASE j < i
    <3>1. j \in 1..(i - 1)
      BY <2>1, <2>2
    <3> QED
      BY <1>4, <3>1 DEF Seen
  <2>3. CASE i < j
    <3>1. i \in 1..(j - 1)
      BY <2>1, <2>3
    <3> QED
      BY <1>4, <3>1 DEF Seen
  <2> QED
    BY <1>4, <2>1, <2>2, <2>3
<1> QED
  BY <1>3, <1>4 DEF OwnKeys

\* Rates agree when no profile has a wrong one.
LEMMA RatesAgree ==
    ASSUME NEW in, GoodInput(in)
    PROVE  RateErrors(in) = {} <=>
             \A p, q \in Elems(in.profiles) : \A c \in Currency :
                p.rates[c] # None =>
                  p.rates[c] # 0 /\ (q.rates[c] # None => q.rates[c] = p.rates[c])
<1> DEFINE D == DOMAIN in.profiles
           rate(i, c) == in.profiles[i].rates[c]
<1>1. RateErrors(in) = {} <=>
        \A i \in D : \A c \in Currency :
           rate(i, c) # None => rate(i, c) # 0 /\ rate(i, c) = Fx(in, c)
  BY DEF RateErrors, WrongRates
<1>2. (\A p, q \in Elems(in.profiles) : \A c \in Currency :
          p.rates[c] # None =>
            p.rates[c] # 0 /\ (q.rates[c] # None => q.rates[c] = p.rates[c])) <=>
      \A i, j \in D : \A c \in Currency :
         rate(i, c) # None =>
           rate(i, c) # 0 /\ (rate(j, c) # None => rate(j, c) = rate(i, c))
  BY DEF Elems
<1>3. ASSUME \A i \in D : \A c \in Currency :
                rate(i, c) # None => rate(i, c) # 0 /\ rate(i, c) = Fx(in, c)
      PROVE  \A i, j \in D : \A c \in Currency :
                rate(i, c) # None =>
                  rate(i, c) # 0 /\ (rate(j, c) # None => rate(j, c) = rate(i, c))
  BY <1>3
<1>4. ASSUME \A i, j \in D : \A c \in Currency :
                rate(i, c) # None =>
                  rate(i, c) # 0 /\ (rate(j, c) # None => rate(j, c) = rate(i, c)),
             NEW i \in D, NEW c \in Currency, rate(i, c) # None
      PROVE  rate(i, c) # 0 /\ rate(i, c) = Fx(in, c)
  <2>1. i \in Quotes(in, c) /\ Quotes(in, c) \subseteq Nat
    BY <1>4 DEF Quotes, GoodInput, ListOf
  <2>2. \E k \in Quotes(in, c) : \A j \in Quotes(in, c) : k <= j
    BY <2>1, HasLeast
  <2> DEFINE first == CHOOSE k \in Quotes(in, c) : \A j \in Quotes(in, c) : k <= j
  <2>3. first \in Quotes(in, c)
    BY <2>2
  <2>4. Fx(in, c) = rate(first, c) /\ first \in D /\ rate(first, c) # None
    BY <2>3 DEF Fx, Quotes
  <2> HIDE DEF first
  <2> QED
    BY <1>4, <2>4
<1> QED
  BY <1>1, <1>2, <1>3, <1>4

\* No header is claimed twice exactly when the claims of two classes are apart.
LEMMA ClaimsAreApart ==
    ASSUME NEW in, GoodInput(in), OwnNames(in.data_classes)
    PROVE  HeaderErrors(in) = {} <=>
             \A x, y \in Elems(in.data_classes) :
                x.name # y.name => Claims(x) \cap Claims(y) = {}
<1> DEFINE D == DOMAIN in.data_classes
           dc(i) == in.data_classes[i]
<1>1. DataClasses(in) = D /\ D \subseteq Nat
  <2>1. ListOf(in.data_classes, "DataClass")
    BY DEF GoodInput
  <2>2. FirstNamed(in.data_classes) = D
    BY <2>1, FirstOfDistinct
  <2>3. D \subseteq Nat
    BY <2>1 DEF ListOf
  <2> QED
    BY <2>2, <2>3 DEF DataClasses
<1>2. HeaderErrors(in) = {} <=>
        \A i, j \in D : j < i => Claims(dc(i)) \cap Claims(dc(j)) = {}
  BY <1>1 DEF HeaderErrors, Earlier
<1>3. (\A x, y \in Elems(in.data_classes) :
          x.name # y.name => Claims(x) \cap Claims(y) = {}) <=>
      \A i, j \in D : i # j => Claims(dc(i)) \cap Claims(dc(j)) = {}
  BY DEF Elems, OwnNames
<1>4. ASSUME \A i, j \in D : j < i => Claims(dc(i)) \cap Claims(dc(j)) = {},
             NEW i \in D, NEW j \in D, i # j
      PROVE  Claims(dc(i)) \cap Claims(dc(j)) = {}
  <2>1. j < i \/ i < j
    BY <1>1, <1>4
  <2>2. \/ Claims(dc(i)) \cap Claims(dc(j)) = {}
        \/ Claims(dc(j)) \cap Claims(dc(i)) = {}
    BY <1>4, <2>1
  <2> QED
    BY <2>2
<1>5. ASSUME \A i, j \in D : i # j => Claims(dc(i)) \cap Claims(dc(j)) = {},
             NEW i \in D, NEW j \in D, j < i
      PROVE  Claims(dc(i)) \cap Claims(dc(j)) = {}
  <2>1. i # j
    BY <1>1, <1>5
  <2> QED
    BY <1>5, <2>1
<1> QED
  BY <1>2, <1>3, <1>4, <1>5

\* The kinds of diagnostics that are errors, and whether there is any
TierErrors(in) ==
    NameErrors("ModelTier", in.tiers, Examined(in))
      \cup (UNION {{Diag("error", "ModelTier", in.tiers[i], f) :
                      f \in TierFaults(in, i)} : i \in Examined(in)})

PolicyErrors(in) ==
    NameErrors("RoutingPolicy", in.policies, Seen(in))
      \cup (UNION {{Diag("error", "RoutingPolicy", in.policies[i], f) :
                      f \in PolicyFaults(in, in.policies[i])} : i \in Seen(in)})

\* An error is no warning.
LEMMA Levels ==
    ASSUME NEW k, NEW o, NEW f
    PROVE  /\ Diag("error", k, o, f).level = "error"
           /\ Diag("warning", k, o, f).level # "error"
BY DEF Diag

\* An input compiles when no part of the compiler reports an error.
LEMMA ErrorsOfParts ==
    ASSUME NEW in
    PROVE  Compiles(in) <=>
             /\ RateErrors(in) = {}
             /\ NameErrors("RouterProfile", in.profiles, Profiles(in)) = {}
             /\ BadFields("RouterProfile", in.profiles, Profiles(in)) = {}
             /\ NameErrors("DataClass", in.data_classes, DataClasses(in)) = {}
             /\ BadFields("DataClass", in.data_classes, DataClasses(in)) = {}
             /\ HeaderErrors(in) = {}
             /\ TierErrors(in) = {}
             /\ PolicyErrors(in) = {}
<1>1. Compiles(in) <=> /\ Errors(ProfileDiags(in)) = {}
                       /\ Errors(DataClassDiags(in)) = {}
                       /\ Errors(TierDiags(in)) = {}
                       /\ Errors(PolicyDiags(in)) = {}
  BY DEF Compiles, Report, Errors
<1>2. ASSUME NEW k, NEW objs, NEW kept
      PROVE  /\ Errors(NameErrors(k, objs, kept)) = NameErrors(k, objs, kept)
             /\ Errors(BadFields(k, objs, kept)) = BadFields(k, objs, kept)
  BY Levels DEF Errors, NameErrors, BadFields
<1>3. ASSUME NEW A, NEW B PROVE Errors(A \cup B) = Errors(A) \cup Errors(B)
  BY DEF Errors
<1>4. /\ Errors(RateErrors(in)) = RateErrors(in)
      /\ Errors(HeaderErrors(in)) = HeaderErrors(in)
      /\ Errors(RankWarnings(in)) = {}
      /\ Errors(ClaimWarnings(in)) = {}
  <2>1. Errors(RateErrors(in)) = RateErrors(in)
    BY Levels DEF Errors, RateErrors
  <2>2. Errors(HeaderErrors(in)) = HeaderErrors(in)
    BY Levels DEF Errors, HeaderErrors
  <2>3. Errors(RankWarnings(in)) = {}
    BY Levels DEF Errors, RankWarnings
  <2>4. Errors(ClaimWarnings(in)) = {}
    BY Levels DEF Errors, ClaimWarnings
  <2> QED
    BY <2>1, <2>2, <2>3, <2>4
<1>5. Errors(ProfileDiags(in)) = {} <=>
        /\ RateErrors(in) = {}
        /\ NameErrors("RouterProfile", in.profiles, Profiles(in)) = {}
        /\ BadFields("RouterProfile", in.profiles, Profiles(in)) = {}
  BY <1>2, <1>3, <1>4 DEF ProfileDiags
<1>6. Errors(DataClassDiags(in)) = {} <=>
        /\ NameErrors("DataClass", in.data_classes, DataClasses(in)) = {}
        /\ BadFields("DataClass", in.data_classes, DataClasses(in)) = {}
        /\ HeaderErrors(in) = {}
  BY <1>2, <1>3, <1>4 DEF DataClassDiags
<1>7. Errors(TierDiags(in)) = {} <=> TierErrors(in) = {}
  <2>1. TierDiags(in) = TierErrors(in) \cup ClaimWarnings(in)
    BY Zenon DEF TierDiags, TierErrors
  <2>2. Errors(TierErrors(in)) = TierErrors(in)
    BY Levels DEF Errors, TierErrors, NameErrors
  <2> QED
    BY <1>3, <1>4, <2>1, <2>2
<1>8. Errors(PolicyDiags(in)) = {} <=> PolicyErrors(in) = {}
  <2> DEFINE P(i) == in.policies[i]
             Named == NameErrors("RoutingPolicy", in.policies, Seen(in))
             Fault(i) == {Diag("error", "RoutingPolicy", P(i), f) :
                            f \in PolicyFaults(in, P(i))}
             Warn(i) == {Diag("warning", "RoutingPolicy", P(i), f) :
                           f \in PolicyWarnings(in, P(i))}
             Shadow == {Diag("warning", "RoutingPolicy", in.policies[i], "priority") :
                          i \in {i \in Kept(in) : Shadowed(in, i)}}
  <2>1. PolicyDiags(in) =
          Named \cup (UNION {Fault(i) \cup Warn(i) : i \in Seen(in)}) \cup Shadow
    BY Zenon DEF PolicyDiags
  <2>2. PolicyErrors(in) = Named \cup (UNION {Fault(i) : i \in Seen(in)})
    BY Zenon DEF PolicyErrors
  <2>3. /\ \A d \in Named : d.level = "error"
        /\ \A i : \A d \in Fault(i) : d.level = "error"
        /\ \A i : \A d \in Warn(i) : d.level # "error"
        /\ \A d \in Shadow : d.level # "error"
    BY Levels DEF NameErrors
  <2> HIDE DEF Named, Fault, Warn, Shadow
  <2>4. ASSUME NEW d PROVE d \in Errors(PolicyDiags(in)) <=> d \in PolicyErrors(in)
    <3>1. d \in Errors(PolicyDiags(in)) <=>
            /\ d.level = "error"
            /\ \/ d \in Named
               \/ \E i \in Seen(in) : d \in Fault(i) \/ d \in Warn(i)
               \/ d \in Shadow
      <4>1. d \in UNION {Fault(i) \cup Warn(i) : i \in Seen(in)} <=>
              \E i \in Seen(in) : d \in Fault(i) \/ d \in Warn(i)
        OBVIOUS
      <4>2. d \in PolicyDiags(in) <=>
              \/ d \in Named
              \/ d \in UNION {Fault(i) \cup Warn(i) : i \in Seen(in)}
              \/ d \in Shadow
        BY <2>1
      <4> QED
        BY <4>1, <4>2 DEF Errors
    <3>2. d \in PolicyErrors(in) <=> d \in Named \/ \E i \in Seen(in) : d \in Fault(i)
      BY <2>2
    <3> QED
      BY <2>3, <3>1, <3>2
  <2> QED
    BY <2>4
<1> QED
  BY <1>1, <1>5, <1>6, <1>7, <1>8

\* What is in a list is at one of its places.
LEMMA ElemsOf ==
    ASSUME NEW list
    PROVE  /\ \A i \in DOMAIN list : list[i] \in Elems(list)
           /\ \A x \in Elems(list) : \E i \in DOMAIN list : list[i] = x
           /\ {list[i].name : i \in DOMAIN list} = {x.name : x \in Elems(list)}
BY DEF Elems

\* No diagnostic where every position is kept and nothing else is wrong
LEMMA NoNameErrors ==
    ASSUME NEW kind, NEW list, NEW kept, kept \subseteq DOMAIN list
    PROVE  NameErrors(kind, list, kept) = {} <=> kept = DOMAIN list
BY DEF NameErrors

\* No field is reported when none is bad.
LEMMA NoBadFields ==
    ASSUME NEW kind, NEW list, NEW kept
    PROVE  BadFields(kind, list, kept) = {} <=> \A i \in kept : list[i].bad = {}
BY DEF BadFields

\* A tier has no fault when its fields, its classes and its currency are right.
LEMMA TierFaultsOf ==
    ASSUME NEW in, NEW i
    PROVE  TierFaults(in, i) = {} <=>
             LET t == in.tiers[i] IN
             /\ t.bad = {}
             /\ t.classes \subseteq NamesOf(in.data_classes, DataClasses(in))
             /\ HasRate(in, t.currency)
BY DEF TierFaults

\* A currency has a rate when some profile gives it one.
LEMMA RatesOf ==
    ASSUME NEW in, NEW c
    PROVE  HasRate(in, c) <=>
             c = "EUR" \/ \E p \in Elems(in.profiles) : p.rates[c] \notin {None, 0}
BY DEF HasRate, Quotes, Elems

\* With good profiles and classes, tiers without errors are just clean.
LEMMA TiersOfClean ==
    ASSUME NEW in, GoodInput(in), DataClasses(in) = DOMAIN in.data_classes
    PROVE  TierErrors(in) = {} <=>
             /\ OwnNames(in.tiers)
             /\ TiersClean(Elems(in.tiers), Elems(in.data_classes), Elems(in.profiles))
<1> DEFINE D == DOMAIN in.tiers
           Faultless == \A i \in D : TierFaults(in, i) = {}
<1>1. \A i \in D : i \in Nat /\ in.tiers[i].name # None
  BY DraftsAssumption DEF GoodInput, ListOf
<1>2. NameErrors("ModelTier", in.tiers, Examined(in)) = {} <=> Examined(in) = D
  <2>1. Examined(in) \subseteq D
    BY DEF Examined
  <2> QED
    BY <2>1, NoNameErrors
<1>3. TierErrors(in) = {} <=>
        Examined(in) = D /\ \A i \in Examined(in) : TierFaults(in, i) = {}
  BY <1>2 DEF TierErrors
<1>4. Faultless => (Examined(in) = D <=> OwnNames(in.tiers))
  <2> SUFFICES ASSUME Faultless PROVE Examined(in) = D <=> OwnNames(in.tiers)
    OBVIOUS
  <2>1. Examined(in) = D <=>
          \A i, j \in D : j < i => in.tiers[j].name # in.tiers[i].name
    BY <1>1 DEF Examined, Namesakes, Sound
  <2>2. (\A i, j \in D : j < i => in.tiers[j].name # in.tiers[i].name) <=>
          OwnNames(in.tiers)
    <3>1. \A i, j \in D : i # j => i < j \/ j < i
      BY <1>1
    <3>2. \A i, j \in D : j < i => i # j
      BY <1>1
    <3> QED
      BY <3>1, <3>2 DEF OwnNames
  <2> QED
    BY <2>1, <2>2
<1>5. Faultless <=>
        TiersClean(Elems(in.tiers), Elems(in.data_classes), Elems(in.profiles))
  <2>1. NamesOf(in.data_classes, DataClasses(in)) = {x.name : x \in Elems(in.data_classes)}
    BY ElemsOf DEF NamesOf
  <2>2. Faultless <=>
          \A i \in D : LET t == in.tiers[i] IN
             /\ t.bad = {}
             /\ t.classes \subseteq {x.name : x \in Elems(in.data_classes)}
             /\ \/ t.currency = "EUR"
                \/ \E p \in Elems(in.profiles) : p.rates[t.currency] \notin {None, 0}
    BY <2>1, TierFaultsOf, RatesOf
  <2> QED
    BY <2>2, ElemsOf DEF TiersClean
<1> QED
  BY <1>3, <1>4, <1>5

\* An input compiles when its objects have no fault, in no order in particular.
LEMMA CompilesMeansClean ==
    ASSUME NEW in, GoodInput(in)
    PROVE  Compiles(in) <=>
             Clean(in) /\ \A p \in Elems(in.policies) : PolicyFaults(in, p) = {}
<1>1. /\ FirstNamed(in.profiles) = DOMAIN in.profiles <=> OwnNames(in.profiles)
      /\ FirstNamed(in.data_classes) = DOMAIN in.data_classes <=> OwnNames(in.data_classes)
  BY FirstOfDistinct DEF GoodInput
<1>2. /\ NameErrors("RouterProfile", in.profiles, Profiles(in)) = {} <=>
           Profiles(in) = DOMAIN in.profiles
      /\ NameErrors("DataClass", in.data_classes, DataClasses(in)) = {} <=>
           DataClasses(in) = DOMAIN in.data_classes
      /\ NameErrors("RoutingPolicy", in.policies, Seen(in)) = {} <=>
           Seen(in) = DOMAIN in.policies
  BY NoNameErrors DEF Profiles, DataClasses, FirstNamed, Seen
<1>3. /\ RateErrors(in) = {}
      /\ NameErrors("RouterProfile", in.profiles, Profiles(in)) = {}
      /\ BadFields("RouterProfile", in.profiles, Profiles(in)) = {}
      <=> OwnNames(in.profiles) /\ ProfilesClean(Elems(in.profiles))
  <2>1. Profiles(in) = DOMAIN in.profiles =>
          (BadFields("RouterProfile", in.profiles, Profiles(in)) = {} <=>
             \A p \in Elems(in.profiles) : p.bad = {})
    BY NoBadFields, ElemsOf
  <2> QED
    BY <1>1, <1>2, <2>1, RatesAgree DEF ProfilesClean, Profiles
<1>4. /\ NameErrors("DataClass", in.data_classes, DataClasses(in)) = {}
      /\ BadFields("DataClass", in.data_classes, DataClasses(in)) = {}
      /\ HeaderErrors(in) = {}
      <=> OwnNames(in.data_classes) /\ ClassesClean(Elems(in.data_classes))
  <2>1. DataClasses(in) = DOMAIN in.data_classes =>
          (BadFields("DataClass", in.data_classes, DataClasses(in)) = {} <=>
             \A p \in Elems(in.data_classes) : p.bad = {})
    BY NoBadFields, ElemsOf
  <2>2. OwnNames(in.data_classes) =>
          (HeaderErrors(in) = {} <=>
             \A x, y \in Elems(in.data_classes) :
                x.name # y.name => Claims(x) \cap Claims(y) = {})
    BY ClaimsAreApart
  <2> QED
    BY <1>1, <1>2, <2>1, <2>2 DEF ClassesClean, DataClasses
<1>5. OwnNames(in.data_classes) =>
        (TierErrors(in) = {} <=>
           /\ OwnNames(in.tiers)
           /\ TiersClean(Elems(in.tiers), Elems(in.data_classes), Elems(in.profiles)))
  BY <1>1, TiersOfClean DEF DataClasses
<1>6. PolicyErrors(in) = {} <=>
        OwnKeys(in.policies) /\ \A p \in Elems(in.policies) : PolicyFaults(in, p) = {}
  <2>1. PolicyErrors(in) = {} <=>
          /\ NameErrors("RoutingPolicy", in.policies, Seen(in)) = {}
          /\ \A i \in Seen(in) : PolicyFaults(in, in.policies[i]) = {}
    <3> DEFINE Fault(i) == {Diag("error", "RoutingPolicy", in.policies[i], f) :
                              f \in PolicyFaults(in, in.policies[i])}
    <3>1. \A i : Fault(i) = {} <=> PolicyFaults(in, in.policies[i]) = {}
      OBVIOUS
    <3>2. PolicyErrors(in) = {} <=>
            /\ NameErrors("RoutingPolicy", in.policies, Seen(in)) = {}
            /\ (UNION {Fault(i) : i \in Seen(in)}) = {}
      BY DEF PolicyErrors
    <3> HIDE DEF Fault
    <3>3. (UNION {Fault(i) : i \in Seen(in)}) = {} <=> \A i \in Seen(in) : Fault(i) = {}
      OBVIOUS
    <3> QED
      BY <3>1, <3>2, <3>3
  <2>2. (\A i \in DOMAIN in.policies : PolicyFaults(in, in.policies[i]) = {}) <=>
          \A p \in Elems(in.policies) : PolicyFaults(in, p) = {}
    BY ElemsOf
  <2> QED
    BY <1>2, <2>1, <2>2, SeenOfDistinct
<1> QED
  BY <1>3, <1>4, <1>5, <1>6, ErrorsOfParts DEF Clean

-----------------------------------------------------------------------------
(* The order of the lists does not matter.                                 *)

\* A clean input loses nothing to the compiler.
LEMMA CleanKeepsAll ==
    ASSUME NEW in, GoodInput(in), Clean(in)
    PROVE  /\ Profiles(in) = DOMAIN in.profiles
           /\ DataClasses(in) = DOMAIN in.data_classes
           /\ Tiers(in) = DOMAIN in.tiers
           /\ Seen(in) = DOMAIN in.policies
<1>1. Profiles(in) = DOMAIN in.profiles /\ DataClasses(in) = DOMAIN in.data_classes
  BY FirstOfDistinct DEF GoodInput, Clean, Profiles, DataClasses
<1>2. Seen(in) = DOMAIN in.policies
  BY SeenOfDistinct DEF Clean
<1>3. TierErrors(in) = {}
  BY <1>1, TiersOfClean DEF Clean
<1>4. Examined(in) = DOMAIN in.tiers
  <2>1. Examined(in) \subseteq DOMAIN in.tiers
    BY DEF Examined
  <2> QED
    BY <1>3, <2>1, NoNameErrors DEF TierErrors
<1>5. \A i \in DOMAIN in.tiers : TierFaults(in, i) = {}
  BY <1>3, <1>4 DEF TierErrors
<1>6. Tiers(in) = DOMAIN in.tiers
  BY <1>4, <1>5 DEF Examined, Tiers, Sound
<1> QED
  BY <1>1, <1>2, <1>6

\* The same objects, whatever their order
Alike(in, jn) ==
    /\ Elems(in.tiers) = Elems(jn.tiers)
    /\ Elems(in.data_classes) = Elems(jn.data_classes)
    /\ Elems(in.policies) = Elems(jn.policies)
    /\ Elems(in.profiles) = Elems(jn.profiles)

\* A name that is not repeated is the name of one object.
LEMMA OwnIsOne ==
    ASSUME NEW list, OwnNames(list), NEW x \in Elems(list), NEW y \in Elems(list),
           x.name = y.name
    PROVE  x = y
BY DEF OwnNames, Elems

\* In a clean input the rate of a currency is the one any profile gives.
LEMMA RateIsTheOne ==
    ASSUME NEW in, GoodInput(in), Clean(in), NEW c \in Currency,
           NEW p \in Elems(in.profiles), p.rates[c] # None
    PROVE  Fx(in, c) = p.rates[c]
<1>1. RateErrors(in) = {}
  BY RatesAgree DEF Clean, ProfilesClean
<1>2. PICK i \in DOMAIN in.profiles : in.profiles[i] = p
  BY ElemsOf
<1>3. WrongRates(in, i) = {}
  BY <1>1 DEF RateErrors
<1> QED
  BY <1>2, <1>3 DEF WrongRates

\* Inputs with the same objects have the same references and prices.
LEMMA AlikeReferTheSame ==
    ASSUME NEW in, GoodInput(in), Clean(in), NEW jn, GoodInput(jn), Clean(jn), Alike(in, jn)
    PROVE  /\ \A p : Candidates(in, p) = Candidates(jn, p)
           /\ \A p : PolicyFaults(in, p) = PolicyFaults(jn, p)
           /\ \A t \in Elems(in.tiers) :
                ToEur(in, t.price, t.currency) = ToEur(jn, t.price, t.currency)
<1>1. /\ NamesOf(in.tiers, Tiers(in)) = NamesOf(jn.tiers, Tiers(jn))
      /\ NamesOf(in.profiles, Profiles(in)) = NamesOf(jn.profiles, Profiles(jn))
  BY CleanKeepsAll, ElemsOf DEF NamesOf, Alike
<1>2. ASSUME NEW p, NEW n PROVE InNamespace(in, p, n) <=> InNamespace(jn, p, n)
  <2>1. InNamespace(in, p, n) <=>
          \E t \in Elems(in.tiers) : t.name = n /\ Namespace(t) = Namespace(p)
    BY CleanKeepsAll, ElemsOf DEF InNamespace
  <2>2. InNamespace(jn, p, n) <=>
          \E t \in Elems(jn.tiers) : t.name = n /\ Namespace(t) = Namespace(p)
    BY CleanKeepsAll, ElemsOf DEF InNamespace
  <2> QED
    BY <2>1, <2>2 DEF Alike
<1>3. ASSUME NEW n \in NamesOf(in.tiers, Tiers(in))
      PROVE  Of(in.tiers, Tiers(in), n) = Of(jn.tiers, Tiers(jn), n)
  <2> DEFINE i == CHOOSE i \in Tiers(in) : in.tiers[i].name = n
             j == CHOOSE j \in Tiers(jn) : jn.tiers[j].name = n
  <2>1. i \in Tiers(in) /\ in.tiers[i].name = n
    BY DEF NamesOf
  <2>2. j \in Tiers(jn) /\ jn.tiers[j].name = n
    BY <1>1 DEF NamesOf
  <2>3. in.tiers[i] \in Elems(in.tiers) /\ jn.tiers[j] \in Elems(in.tiers)
    BY <2>1, <2>2, CleanKeepsAll, ElemsOf DEF Alike
  <2>4. in.tiers[i] = jn.tiers[j]
    BY <2>1, <2>2, <2>3, OwnIsOne DEF Clean
  <2> QED
    BY <2>4 DEF Of
<1>4. ASSUME NEW p PROVE Candidates(in, p) = Candidates(jn, p)
  <2>1. Selected(in, p) = Selected(jn, p)
    BY <1>1, <1>2, <1>3 DEF Selected
  <2> QED
    BY <1>2, <2>1 DEF Candidates
<1>5. ASSUME NEW p PROVE PolicyFaults(in, p) = PolicyFaults(jn, p)
  BY <1>1, <1>2, <1>4 DEF PolicyFaults
<1>6. ASSUME NEW t \in Elems(in.tiers)
      PROVE  ToEur(in, t.price, t.currency) = ToEur(jn, t.price, t.currency)
  <2>1. CASE t.currency = "EUR"
    BY <2>1 DEF ToEur
  <2>2. CASE t.currency # "EUR"
    <3>1. t.currency \in Currency
      <4>1. t \in Resource /\ t.kind = "ModelTier"
        BY DraftsAssumption DEF GoodInput, ListOf, Elems
      <4> QED
        BY <4>1 DEF Resource, ModelTier, DataClass, RouterProfile, RoutingPolicy
    <3>2. PICK p \in Elems(in.profiles) : p.rates[t.currency] # None
      BY <2>2 DEF Clean, TiersClean
    <3>3. Fx(in, t.currency) = p.rates[t.currency]
      BY <3>1, <3>2, RateIsTheOne
    <3>4. Fx(jn, t.currency) = p.rates[t.currency]
      BY <3>1, <3>2, RateIsTheOne DEF Alike
    <3> QED
      BY <3>3, <3>4 DEF ToEur
  <2> QED
    BY <2>1, <2>2
<1> QED
  BY <1>4, <1>5, <1>6

\* The order policies are evaluated in, as a relation on a set of them
Evaluation(P) == {x \in P \X P : Before(x[1], x[2])}

\* Policies of different keys are evaluated in one order.
LEMMA EvaluationIsTotal ==
    ASSUME NEW list, ListOf(list, "RoutingPolicy"), OwnKeys(list)
    PROVE  TotalOrder(Elems(list), Evaluation(Elems(list)))
<1> DEFINE P == Elems(list)
           R == Evaluation(P)
<1>1. \A p \in P : p \in Drafts /\ p.priority \in Int
  <2>1. \A p \in P : p \in Drafts /\ p \in Resource /\ p.kind = "RoutingPolicy"
    BY DraftsAssumption DEF ListOf, Elems
  <2> QED
    BY <2>1 DEF Resource, ModelTier, DataClass, RouterProfile, RoutingPolicy
<1>2. \A p, q \in P : p = q \/ Key(p) # Key(q)
  BY DEF Elems, OwnKeys
<1>3. \A p, q \in P : <<p, q>> \in R <=> Before(p, q)
  BY DEF Evaluation
<1> HIDE DEF R, P
<1>4. \A p \in P : ~Before(p, p)
  BY <1>1, KeyOrderAssumption DEF Before
<1>5. \A p, q \in P : p = q \/ Before(p, q) \/ Before(q, p)
  <2> TAKE p, q \in P
  <2>1. p.priority \in Int /\ q.priority \in Int
    BY <1>1
  <2>2. CASE p.priority = q.priority
    BY <1>1, <1>2, <2>2, KeyOrderAssumption DEF Before
  <2>3. CASE p.priority # q.priority
    BY <2>1, <2>3 DEF Before
  <2> QED
    BY <2>2, <2>3
<1>6. \A p, q, r \in P : Before(p, q) /\ Before(q, r) => Before(p, r)
  <2> SUFFICES ASSUME NEW p \in P, NEW q \in P, NEW r \in P, Before(p, q), Before(q, r)
               PROVE  Before(p, r)
    OBVIOUS
  <2>1. p.priority \in Int /\ q.priority \in Int /\ r.priority \in Int
    BY <1>1
  <2>2. CASE p.priority = q.priority /\ q.priority = r.priority
    <3>1. KeyBefore(Key(p), Key(q)) /\ KeyBefore(Key(q), Key(r))
      BY <2>1, <2>2 DEF Before
    <3>2. KeyBefore(Key(p), Key(r))
      BY <1>1, <3>1, KeyOrderAssumption
    <3> QED
      BY <2>2, <3>2 DEF Before
  <2>3. CASE ~(p.priority = q.priority /\ q.priority = r.priority)
    BY <2>1, <2>3 DEF Before
  <2> QED
    BY <2>2, <2>3
<1>7. TotalOrder(P, R)
  BY <1>3, <1>4, <1>5, <1>6 DEF TotalOrder
<1> QED
  BY <1>7 DEF P, R

\* Of policies with keys of their own, the list may be read as a set.
LEMMA ListIsSet ==
    ASSUME NEW list, NEW k, ListOf(list, k), OwnKeys(list)
    PROVE  /\ IsFiniteSet(DOMAIN list) /\ IsFiniteSet(Elems(list))
           /\ Cardinality(Elems(list)) = Cardinality(DOMAIN list)
<1> DEFINE D == DOMAIN list
           f == [i \in D |-> list[i]]
<1>1. IsFiniteSet(D)
  <2>1. PICK n \in Nat : D = 1..n
    BY DEF ListOf
  <2>2. 1 \in Int /\ n \in Int
    OBVIOUS
  <2>3. IsFiniteSet(1..n)
    BY <2>2, FS_Interval, Zenon
  <2> QED
    BY <2>1, <2>3
<1>2. f \in Bijection(D, Elems(list))
  <2>1. f \in [D -> Elems(list)] /\ \A t \in Elems(list) : \E i \in D : f[i] = t
    BY DEF Elems
  <2>2. \A i, j \in D : f[i] = f[j] => i = j
    BY DEF OwnKeys
  <2> HIDE DEF f
  <2> QED
    BY <2>1, <2>2, Fun_IsBij
<1>3. ExistsBijection(D, Elems(list))
  BY <1>2 DEF ExistsBijection
<1> QED
  BY <1>1, <1>3, FS_Bijection

\* A policy's place in the sorted list is its rank.
LEMMA PlaceIsRank ==
    ASSUME NEW in, GoodInput(in), OwnKeys(in.policies), Kept(in) = DOMAIN in.policies,
           NEW i \in DOMAIN in.policies
    PROVE  1 + Cardinality({j \in Kept(in) : Sooner(in, j, i)})
             = Rank(Elems(in.policies), Evaluation(Elems(in.policies)), in.policies[i])
<1> DEFINE list == in.policies
           D == DOMAIN list
           P == Elems(list)
           A == {j \in Kept(in) : Sooner(in, j, i)}
           B == {q \in P : <<q, list[i]>> \in Evaluation(P)}
           f == [j \in A |-> list[j]]
<1>0. ListOf(list, "RoutingPolicy")
  BY DEF GoodInput
<1>1. IsFiniteSet(A)
  <2>1. IsFiniteSet(D)
    BY <1>0, ListIsSet
  <2>2. A \subseteq D
    OBVIOUS
  <2> QED
    BY <2>1, <2>2, FS_Subset
<1>2. TotalOrder(P, Evaluation(P))
  BY <1>0, EvaluationIsTotal
<1>3. \A p, q \in P : <<p, q>> \in Evaluation(P) <=> Before(p, q)
  BY DEF Evaluation
<1>4. ASSUME NEW j \in D PROVE Sooner(in, j, i) <=> Before(list[j], list[i])
  <2>1. list[i] \in P /\ list[j] \in P
    BY ElemsOf
  <2>2. CASE j = i
    <3>1. i \in Int
      BY <1>0 DEF ListOf
    <3> QED
      BY <2>1, <2>2, <3>1 DEF Sooner
  <2>3. CASE j # i
    <3>1. list[i] # list[j]
      BY <2>3 DEF OwnKeys
    <3>2. Before(list[j], list[i]) \/ Before(list[i], list[j])
      BY <1>2, <1>3, <2>1, <3>1 DEF TotalOrder
    <3> QED
      BY <3>2 DEF Sooner
  <2> QED
    BY <2>2, <2>3
<1>5. f \in Bijection(A, B)
  <2>1. \A j \in A : list[j] \in B
    BY <1>3, <1>4, ElemsOf
  <2>2. f \in [A -> B]
    BY <2>1
  <2>3. \A q \in B : \E j \in A : f[j] = q
    <3> TAKE q \in B
    <3>1. q \in P /\ Before(q, list[i])
      BY <1>3, ElemsOf
    <3>2. PICK j \in D : list[j] = q
      BY <3>1, ElemsOf
    <3>3. j \in A
      BY <1>4, <3>1, <3>2
    <3> QED
      BY <3>2, <3>3
  <2>4. \A j, k \in A : f[j] = f[k] => j = k
    BY DEF OwnKeys
  <2> HIDE DEF f, A, B
  <2> QED
    BY <2>2, <2>3, <2>4, Fun_IsBij
<1>6. Cardinality(A) = Cardinality(B)
  <2>1. ExistsBijection(A, B)
    BY <1>5 DEF ExistsBijection
  <2> QED
    BY <1>1, <2>1, FS_Bijection
<1> QED
  BY <1>6 DEF Rank

\* The snapshot holds a policy at its rank.
LEMMA PolicyAtRank ==
    ASSUME NEW in, GoodInput(in), OwnKeys(in.policies), Kept(in) = DOMAIN in.policies
    PROVE  LET P == Elems(in.policies)
               R == Evaluation(P)
           IN  Policies(in) = [n \in 1..Cardinality(P) |->
                  CompiledPolicy(in, CHOOSE i \in DOMAIN in.policies :
                                        in.policies[i] = CHOOSE p \in P : Rank(P, R, p) = n)]
<1> DEFINE list == in.policies
           D == DOMAIN list
           P == Elems(list)
           R == Evaluation(P)
           at(n) == CHOOSE p \in P : Rank(P, R, p) = n
           place(i) == 1 + Cardinality({j \in Kept(in) : Sooner(in, j, i)})
           spot(n) == CHOOSE i \in Kept(in) : place(i) = n
           index(n) == CHOOSE i \in D : list[i] = at(n)
<1>1. /\ IsFiniteSet(P) /\ Cardinality(P) = Cardinality(Kept(in))
      /\ TotalOrder(P, R)
  BY ListIsSet, EvaluationIsTotal DEF GoodInput
<1>2. ASSUME NEW n \in 1..Cardinality(P) PROVE spot(n) = index(n)
  <2>1. at(n) \in P /\ Rank(P, R, at(n)) = n
    <3>1. \E p \in P : Rank(P, R, p) = n
      BY <1>1, RankIsBijective
    <3> QED
      BY <3>1
  <2>2. \A i \in D : place(i) = n <=> list[i] = at(n)
    <3> TAKE i \in D
    <3>1. place(i) = Rank(P, R, list[i]) /\ list[i] \in P
      BY PlaceIsRank, ElemsOf
    <3> HIDE DEF place, at, R, P
    <3> QED
      BY <1>1, <2>1, <3>1, RankIsBijective
  <2> HIDE DEF place, at
  <2> QED
    BY <2>2
<1>3. Policies(in) = [n \in 1..Cardinality(Kept(in)) |-> CompiledPolicy(in, spot(n))]
  BY DEF Policies
<1> HIDE DEF spot, index
<1>4. Policies(in) = [n \in 1..Cardinality(P) |-> CompiledPolicy(in, index(n))]
  BY <1>1, <1>2, <1>3
<1> QED
  BY <1>4 DEF index

\* Inputs with the same objects have the same policies ...
LEMMA AlikePoliciesTheSame ==
    ASSUME NEW in, GoodInput(in), Compiles(in), NEW jn, GoodInput(jn), Compiles(jn),
           Alike(in, jn)
    PROVE  Policies(in) = Policies(jn)
<1>1. Clean(in) /\ Clean(jn)
  BY CompilesMeansClean
<1>2. /\ Kept(in) = DOMAIN in.policies /\ Kept(jn) = DOMAIN jn.policies
      /\ OwnKeys(in.policies) /\ OwnKeys(jn.policies)
  BY <1>1, CleanKeepsAll, CompilesMeansClean, ElemsOf DEF Kept, Clean
<1> DEFINE P == Elems(in.policies)
           R == Evaluation(P)
           at(n) == CHOOSE p \in P : Rank(P, R, p) = n
           index(n) == CHOOSE i \in DOMAIN in.policies : in.policies[i] = at(n)
           jndex(n) == CHOOSE i \in DOMAIN jn.policies : jn.policies[i] = at(n)
<1>3. /\ Policies(in) = [n \in 1..Cardinality(P) |-> CompiledPolicy(in, index(n))]
      /\ Policies(jn) = [n \in 1..Cardinality(P) |-> CompiledPolicy(jn, jndex(n))]
  <2>1. Policies(in) = [n \in 1..Cardinality(P) |-> CompiledPolicy(in, index(n))]
    BY <1>2, PolicyAtRank
  <2>2. Policies(jn) = [n \in 1..Cardinality(P) |-> CompiledPolicy(jn, jndex(n))]
    BY <1>2, PolicyAtRank DEF Alike
  <2> QED
    BY <2>1, <2>2
<1>4. ASSUME NEW n \in 1..Cardinality(P)
      PROVE  CompiledPolicy(in, index(n)) = CompiledPolicy(jn, jndex(n))
  <2>1. at(n) \in P
    <3>1. IsFiniteSet(P) /\ TotalOrder(P, R)
      BY <1>2, ListIsSet, EvaluationIsTotal DEF GoodInput
    <3>2. \E p \in P : Rank(P, R, p) = n
      BY <3>1, RankIsBijective
    <3> QED
      BY <3>2
  <2> HIDE DEF at
  <2>2. in.policies[index(n)] = at(n) /\ jn.policies[jndex(n)] = at(n)
    <3>1. at(n) \in Elems(in.policies) /\ at(n) \in Elems(jn.policies)
      BY <2>1 DEF Alike
    <3>2. /\ \E i \in DOMAIN in.policies : in.policies[i] = at(n)
          /\ \E i \in DOMAIN jn.policies : jn.policies[i] = at(n)
      BY <3>1, ElemsOf
    <3> QED
      BY <3>2
  <2> HIDE DEF index, jndex
  <2>3. Candidates(in, at(n)) = Candidates(jn, at(n))
    BY <1>1, AlikeReferTheSame
  <2> QED
    BY <2>2, <2>3 DEF CompiledPolicy
<1> HIDE DEF index, jndex, P
<1> QED
  BY <1>3, <1>4

\* ... and the same snapshot.
LEMMA AlikeCompileTheSame ==
    ASSUME NEW in, GoodInput(in), Compiles(in), NEW jn, GoodInput(jn), Compiles(jn),
           Alike(in, jn)
    PROVE  Snapshot(in) = Snapshot(jn)
<1>1. Clean(in) /\ Clean(jn)
  BY CompilesMeansClean
<1>2. /\ Tiers(in) = DOMAIN in.tiers /\ Tiers(jn) = DOMAIN jn.tiers
      /\ DataClasses(in) = DOMAIN in.data_classes
      /\ DataClasses(jn) = DOMAIN jn.data_classes
      /\ Profiles(in) = DOMAIN in.profiles /\ Profiles(jn) = DOMAIN jn.profiles
  BY <1>1, CleanKeepsAll
<1>3. {CompiledTier(in, i) : i \in Tiers(in)} = {CompiledTier(jn, i) : i \in Tiers(jn)}
  <2> DEFINE tier(kn, t) == [t EXCEPT !.price = ToEur(kn, @, t.currency)]
  <2>1. {CompiledTier(in, i) : i \in Tiers(in)} = {tier(in, t) : t \in Elems(in.tiers)}
    BY <1>2, ElemsOf DEF CompiledTier
  <2>2. {CompiledTier(jn, i) : i \in Tiers(jn)} = {tier(jn, t) : t \in Elems(in.tiers)}
    BY <1>2, ElemsOf DEF CompiledTier, Alike
  <2>3. ASSUME NEW t \in Elems(in.tiers) PROVE tier(in, t) = tier(jn, t)
    <3>1. ToEur(in, t.price, t.currency) = ToEur(jn, t.price, t.currency)
      BY <1>1, AlikeReferTheSame
    <3> QED
      BY <3>1
  <2> HIDE DEF tier
  <2> QED
    BY <2>1, <2>2, <2>3
<1>4. {CompiledClass(in, i) : i \in DataClasses(in)} =
        {CompiledClass(jn, i) : i \in DataClasses(jn)}
  <2> DEFINE class(dc) == [dc EXCEPT !.headers = {Lower[v] : v \in @}]
  <2>1. {CompiledClass(in, i) : i \in DataClasses(in)} =
          {class(x) : x \in Elems(in.data_classes)}
    BY <1>2, ElemsOf DEF CompiledClass
  <2>2. {CompiledClass(jn, i) : i \in DataClasses(jn)} =
          {class(x) : x \in Elems(in.data_classes)}
    BY <1>2, ElemsOf DEF CompiledClass, Alike
  <2> QED
    BY <2>1, <2>2
<1>5. {in.profiles[i] : i \in Profiles(in)} = {jn.profiles[i] : i \in Profiles(jn)}
  BY <1>2 DEF Alike, Elems
<1>6. Policies(in) = Policies(jn)
  BY AlikePoliciesTheSame
<1> QED
  BY <1>3, <1>4, <1>5, <1>6 DEF Snapshot

\* A list in another order has the same objects.
LEMMA ShuffledLists ==
    ASSUME NEW list, NEW k, ListOf(list, k), NEW other \in Permuted(list)
    PROVE  /\ ListOf(other, k)
           /\ Elems(other) = Elems(list)
           /\ OwnNames(other) <=> OwnNames(list)
           /\ OwnKeys(other) <=> OwnKeys(list)
<1> DEFINE D == DOMAIN list
<1>1. PICK f \in [D -> D] :
         /\ other = [n \in D |-> list[f[n]]]
         /\ \A n, m \in D : n # m => f[n] # f[m]
  BY DEF Permuted
<1>2. IsFiniteSet(D)
  <2>1. PICK n \in Nat : D = 1..n
    BY DEF ListOf
  <2>2. 1 \in Int /\ n \in Int
    OBVIOUS
  <2>3. IsFiniteSet(1..n)
    BY <2>2, FS_Interval, Zenon
  <2> QED
    BY <2>1, <2>3
<1>3. \A m \in D : \E n \in D : f[n] = m
  <2>1. f \in Injection(D, D)
    BY <1>1, Fun_IsInj
  <2>2. f \in Surjection(D, D)
    BY <1>2, <2>1, FS_Injection
  <2> QED
    BY <2>2 DEF Surjection
<1>4. DOMAIN other = D /\ \A n \in D : other[n] = list[f[n]] /\ f[n] \in D
  BY <1>1
<1>5. ListOf(other, k)
  BY <1>4 DEF ListOf
<1>6. Elems(other) = Elems(list)
  BY <1>3, <1>4 DEF Elems
<1>7. OwnNames(list) => OwnNames(other)
  BY <1>1, <1>4 DEF OwnNames
<1>8. OwnKeys(list) => OwnKeys(other)
  BY <1>1, <1>4 DEF OwnKeys
<1>9. ASSUME NEW i \in D, NEW j \in D, i # j
      PROVE  \E n, m \in DOMAIN other : n # m /\ other[n] = list[i] /\ other[m] = list[j]
  <2>1. PICK n \in D : f[n] = i
    BY <1>3
  <2>2. PICK m \in D : f[m] = j
    BY <1>3
  <2>3. n # m /\ other[n] = list[i] /\ other[m] = list[j]
    BY <1>4, <1>9, <2>1, <2>2
  <2> QED
    BY <1>4, <2>3
<1>10. OwnNames(other) => OwnNames(list)
  BY <1>9 DEF OwnNames
<1>11. OwnKeys(other) => OwnKeys(list)
  BY <1>9 DEF OwnKeys
<1> QED
  BY <1>5, <1>6, <1>7, <1>8, <1>10, <1>11

\* The same objects compile in one order if they do in another.
LEMMA AlikeCompileOrNot ==
    ASSUME NEW in, GoodInput(in), NEW jn, GoodInput(jn), Alike(in, jn),
           OwnNames(in.tiers) <=> OwnNames(jn.tiers),
           OwnNames(in.data_classes) <=> OwnNames(jn.data_classes),
           OwnNames(in.profiles) <=> OwnNames(jn.profiles),
           OwnKeys(in.policies) <=> OwnKeys(jn.policies)
    PROVE  Compiles(in) <=> Compiles(jn)
<1>1. Clean(in) <=> Clean(jn)
  BY DEF Clean, Alike
<1>2. CASE Clean(in)
  BY <1>1, <1>2, CompilesMeansClean, AlikeReferTheSame DEF Alike
<1>3. CASE ~Clean(in)
  BY <1>1, <1>3, CompilesMeansClean
<1> QED
  BY <1>2, <1>3

\* The same objects compile in every order of the lists, and to the same
\* snapshot, or in none (policy/src/lib.rs 782, ADR-0008).
THEOREM OrderIsIgnored ==
    ASSUME NEW lists, GoodInput(Input(lists)), NEW jn \in Orderings(lists)
    PROVE  Compile(jn) = Compile(Input(lists))
<1> DEFINE in == Input(lists)
<1>1. PICK ts \in Permuted(lists["ModelTier"]), cs \in Permuted(lists["DataClass"]),
           ps \in Permuted(lists["RoutingPolicy"]), fs \in Permuted(lists["RouterProfile"]) :
        jn = Input([ModelTier |-> ts, DataClass |-> cs, RoutingPolicy |-> ps,
                    RouterProfile |-> fs])
  BY DEF Orderings
<1>2. /\ jn.tiers = ts /\ jn.data_classes = cs /\ jn.policies = ps /\ jn.profiles = fs
      /\ in.tiers = lists["ModelTier"] /\ in.data_classes = lists["DataClass"]
      /\ in.policies = lists["RoutingPolicy"] /\ in.profiles = lists["RouterProfile"]
  BY <1>1 DEF Input
<1> HIDE DEF in
<1>3. GoodInput(in)
  BY DEF in
<1>4. /\ GoodInput(jn) /\ Alike(in, jn)
      /\ OwnNames(jn.tiers) <=> OwnNames(in.tiers)
      /\ OwnNames(jn.data_classes) <=> OwnNames(in.data_classes)
      /\ OwnNames(jn.profiles) <=> OwnNames(in.profiles)
      /\ OwnKeys(jn.policies) <=> OwnKeys(in.policies)
  BY <1>2, <1>3, ShuffledLists DEF GoodInput, Alike
<1>5. Compiles(in) <=> Compiles(jn)
  BY <1>3, <1>4, AlikeCompileOrNot
<1>6. Compile(in) = Compile(jn)
  BY <1>3, <1>4, <1>5, AlikeCompileTheSame DEF Compile
<1> QED
  BY <1>6 DEF in

-----------------------------------------------------------------------------
(* Listings of the cluster.                                                *)

GoodStore(S) ==
    /\ S \subseteq Drafts /\ IsFiniteSet(S)
    /\ \A o, d \in S : SameObject(o, d) => o = d

StoreInv == GoodStore(store)

Place(S, k, o) == 1 + Cardinality({p \in Watched(S, k) : KeyBefore(Key(p), Key(o))})

\* Every watched object is in the listing, in the place of its key.
LEMMA ListingIs ==
    ASSUME NEW S, GoodStore(S), NEW k \in Kind
    PROVE  /\ Cardinality(Watched(S, k)) \in Nat
           /\ Listing(S, k) \in [1..Cardinality(Watched(S, k)) -> Watched(S, k)]
           /\ \A n \in DOMAIN Listing(S, k) : Place(S, k, Listing(S, k)[n]) = n
           /\ \A o \in Watched(S, k) :
                /\ Place(S, k, o) \in DOMAIN Listing(S, k)
                /\ Listing(S, k)[Place(S, k, o)] = o
<1> DEFINE W == Watched(S, k)
           R == {x \in W \X W : KeyBefore(Key(x[1]), Key(x[2]))}
           at(n) == CHOOSE o \in W : Place(S, k, o) = n
<1>1. W \subseteq S /\ IsFiniteSet(W) /\ \A o \in W : o.kind = k
  BY FS_Subset DEF Watched, GoodStore
<1>2. \A p, q \in W : <<p, q>> \in R <=> KeyBefore(Key(p), Key(q))
  OBVIOUS
<1>3. TotalOrder(W, R)
  <2>1. \A p, q \in W : p = q \/ Key(p) # Key(q)
    BY <1>1 DEF GoodStore, SameObject
  <2>2. \A p \in W : p \in Drafts
    BY <1>1 DEF GoodStore
  <2> HIDE DEF W, R
  <2> QED
    BY <1>2, <2>1, <2>2, KeyOrderAssumption DEF TotalOrder
<1>4. \A o \in W : Place(S, k, o) = Rank(W, R, o)
  <2> TAKE o \in W
  <2>1. {p \in W : KeyBefore(Key(p), Key(o))} = {p \in W : <<p, o>> \in R}
    BY <1>2
  <2> QED
    BY <2>1 DEF Rank, Place
<1>5. Cardinality(W) \in Nat
  BY <1>1, FS_CardinalityType
<1>6. ASSUME NEW n \in 1..Cardinality(W) PROVE at(n) \in W /\ Place(S, k, at(n)) = n
  <2>1. \E o \in W : Rank(W, R, o) = n
    <3> HIDE DEF W, R, at
    <3> QED
      BY <1>1, <1>3, RankIsBijective
  <2>2. \E o \in W : Place(S, k, o) = n
    BY <1>4, <2>1
  <2> QED
    BY <2>2
<1>7. Listing(S, k) = [n \in 1..Cardinality(W) |-> at(n)]
  BY DEF Listing, Place
<1>8. ASSUME NEW o \in W PROVE Place(S, k, o) \in 1..Cardinality(W) /\ at(Place(S, k, o)) = o
  <2>1. Place(S, k, o) \in 1..Cardinality(W)
    BY <1>1, <1>3, <1>4, RankIsBijective
  <2>2. Rank(W, R, at(Place(S, k, o))) = Rank(W, R, o) /\ at(Place(S, k, o)) \in W
    BY <1>4, <1>6, <2>1
  <2> HIDE DEF at, W, R
  <2> QED
    BY <1>1, <1>3, <2>1, <2>2, RankIsBijective
<1> HIDE DEF at, W, R
<1> QED
  BY <1>5, <1>6, <1>7, <1>8 DEF W

\* Each object once
Distinct(list) == \A i, j \in DOMAIN list : i # j => list[i] # list[j]

\* A listing has every watched object once.
LEMMA ListingIsGood ==
    ASSUME NEW S, GoodStore(S), NEW k \in Kind
    PROVE  /\ ListOf(Listing(S, k), k)
           /\ Elems(Listing(S, k)) = Watched(S, k)
           /\ Distinct(Listing(S, k))
           /\ Listing(S, k) # None
<1> DEFINE L == Listing(S, k)
           W == Watched(S, k)
           N == Cardinality(W)
<1>1. /\ N \in Nat /\ L \in [1..N -> W]
      /\ \A n \in DOMAIN L : Place(S, k, L[n]) = n
      /\ \A o \in W : Place(S, k, o) \in DOMAIN L /\ L[Place(S, k, o)] = o
  BY ListingIs
<1>2. W \subseteq Drafts /\ \A o \in W : o.kind = k
  BY DEF Watched, GoodStore
<1> HIDE DEF L, W, N
<1>3. ListOf(L, k)
  BY <1>1, <1>2 DEF ListOf
<1>4. Elems(L) = W
  BY <1>1 DEF Elems
<1>5. Distinct(L)
  BY <1>1 DEF Distinct
<1>6. L \in Seq(Drafts)
  BY <1>1, <1>2
<1>7. L # None
  BY <1>6, NoneAssumption
<1> QED
  BY <1>3, <1>4, <1>5, <1>7 DEF L, W

\* What the cluster lists is an input of the compiler.
LEMMA ListingsAreGood ==
    ASSUME NEW S, GoodStore(S)
    PROVE  GoodInput(Input(Listings(S)))
<1>1. \A k \in Kind : ListOf(Listings(S)[k], k)
  BY ListingIsGood DEF Listings
<1> QED
  BY <1>1 DEF GoodInput, Input, Kind

\* In every good cluster the order of the lists is ignored.
LEMMA CompileOfAnyOrder == StoreInv => CompileIgnoresOrder
BY ListingsAreGood, OrderIsIgnored DEF StoreInv, CompileIgnoresOrder

\* No two objects of a cluster have one key.
LEMMA InitStore == Init => StoreInv
BY StoresAssumption DEF Init, StoreInv, GoodStore

LEMMA StepStore == TypeOK /\ StoreInv /\ [Next]_vars => StoreInv'
<1> SUFFICES ASSUME TypeOK, StoreInv, [Next]_vars PROVE StoreInv'
  OBVIOUS
<1>1. ASSUME NEW w \in Writers, Persist(w) PROVE StoreInv'
  <2> DEFINE old == {o \in store : SameObject(o, draft[w])}
  <2>1. draft[w] \in Drafts
    BY <1>1 DEF TypeOK, Persist
  <2>2. store' = store \/ store' = (store \ old) \cup {draft[w]}
    BY <1>1 DEF Persist
  <2>3. IsFiniteSet((store \ old) \cup {draft[w]})
    <3>1. IsFiniteSet(store \ old)
      BY FS_Subset DEF StoreInv, GoodStore
    <3> QED
      BY <3>1, FS_AddElement
  <2>4. \A o, d \in (store \ old) \cup {draft[w]} : SameObject(o, d) => o = d
    BY DEF StoreInv, GoodStore, SameObject
  <2> HIDE DEF old
  <2> QED
    BY <2>1, <2>2, <2>3, <2>4 DEF StoreInv, GoodStore
<1>2. ASSUME NEW o \in store, Delete(o) PROVE StoreInv'
  <2>1. store' = store \ {o} /\ IsFiniteSet(store \ {o})
    BY <1>2, FS_RemoveElement DEF Delete, StoreInv, GoodStore
  <2> QED
    BY <2>1 DEF StoreInv, GoodStore
<1>3. ASSUME UNCHANGED store PROVE StoreInv'
  BY <1>3 DEF StoreInv, GoodStore
<1> QED
  BY <1>1, <1>2, <1>3
  DEF Next, Submit, ListKind, ListFails, Admit, Deny, vars

\* In every state the cluster holds drafts, and one object of a kind and key.
LEMMA StoreInvariant == Spec => [](TypeOK /\ StoreInv)
BY InitTypes, StepTypes, InitStore, StepStore, PTL DEF Spec

\* Whatever the cluster holds, the order it is listed in makes no difference
\* to what is compiled from it.
THEOREM ClusterCompilesInAnyOrder == Spec => []CompileIgnoresOrder
BY StoreInvariant, CompileOfAnyOrder, PTL

-----------------------------------------------------------------------------
(* What a report says of one object.                                       *)

ErrorsOn(in, d) ==
    {e \in Errors(Report(in)) : e.kind = d.kind /\ e.name = Key(d)}

FaultlessProfile(in, i) ==
    i \in Profiles(in) /\ in.profiles[i].bad = {} /\ WrongRates(in, i) = {}

FaultlessClass(in, i) ==
    /\ i \in DataClasses(in) /\ in.data_classes[i].bad = {}
    /\ \A j \in Earlier(in, i) :
          Claims(in.data_classes[i]) \cap Claims(in.data_classes[j]) = {}

\* The errors on a kind are those of its own stage of the compiler.
LEMMA ErrorsOfKind ==
    ASSUME NEW in
    PROVE  /\ {e \in Errors(Report(in)) : e.kind = "RouterProfile"}
                = RateErrors(in)
                    \cup NameErrors("RouterProfile", in.profiles, Profiles(in))
                    \cup BadFields("RouterProfile", in.profiles, Profiles(in))
           /\ {e \in Errors(Report(in)) : e.kind = "DataClass"}
                = NameErrors("DataClass", in.data_classes, DataClasses(in))
                    \cup BadFields("DataClass", in.data_classes, DataClasses(in))
                    \cup HeaderErrors(in)
           /\ {e \in Errors(Report(in)) : e.kind = "ModelTier"} = TierErrors(in)
           /\ {e \in Errors(Report(in)) : e.kind = "RoutingPolicy"} = PolicyErrors(in)
<1>1. /\ \A e \in RateErrors(in) : e.level = "error" /\ e.kind = "RouterProfile"
      /\ \A k, list, kept :
           /\ \A e \in NameErrors(k, list, kept) : e.level = "error" /\ e.kind = k
           /\ \A e \in BadFields(k, list, kept) : e.level = "error" /\ e.kind = k
      /\ \A e \in HeaderErrors(in) : e.level = "error" /\ e.kind = "DataClass"
      /\ \A e \in RankWarnings(in) : e.level = "warning" /\ e.kind = "DataClass"
      /\ \A e \in ClaimWarnings(in) : e.level = "warning" /\ e.kind = "ModelTier"
  BY DEF RateErrors, NameErrors, BadFields, HeaderErrors, RankWarnings, ClaimWarnings, Diag
<1>2. \A e \in TierErrors(in) : e.level = "error" /\ e.kind = "ModelTier"
  BY <1>1 DEF TierErrors, Diag
<1>3. \A e \in PolicyErrors(in) : e.level = "error" /\ e.kind = "RoutingPolicy"
  BY <1>1 DEF PolicyErrors, Diag
<1>4. PICK W : /\ PolicyDiags(in) = PolicyErrors(in) \cup W
               /\ \A e \in W : e.level = "warning" /\ e.kind = "RoutingPolicy"
  <2> DEFINE P(i) == in.policies[i]
             Fault(i) == {Diag("error", "RoutingPolicy", P(i), f) :
                            f \in PolicyFaults(in, P(i))}
             Warn(i) == {Diag("warning", "RoutingPolicy", P(i), f) :
                           f \in PolicyWarnings(in, P(i))}
             Shadow == {Diag("warning", "RoutingPolicy", P(i), "priority") :
                          i \in {i \in Kept(in) : Shadowed(in, i)}}
             Named == NameErrors("RoutingPolicy", in.policies, Seen(in))
             V == (UNION {Warn(i) : i \in Seen(in)}) \cup Shadow
  <2>1. PolicyDiags(in) =
          Named \cup (UNION {Fault(i) \cup Warn(i) : i \in Seen(in)}) \cup Shadow
    BY DEF PolicyDiags
  <2>2. PolicyErrors(in) = Named \cup (UNION {Fault(i) : i \in Seen(in)})
    BY DEF PolicyErrors
  <2>3. \A e \in V : e.level = "warning" /\ e.kind = "RoutingPolicy"
    BY DEF Diag
  <2>4. PolicyDiags(in) = PolicyErrors(in) \cup V
    <3> HIDE DEF Fault, Warn, Shadow, Named
    <3> QED
      BY <2>1, <2>2
  <2> HIDE DEF V
  <2> QED
    BY <2>3, <2>4
<1>5. TierDiags(in) = TierErrors(in) \cup ClaimWarnings(in)
  BY DEF TierDiags, TierErrors
<1> QED
  BY <1>1, <1>2, <1>3, <1>4, <1>5 DEF Errors, Report, ProfileDiags, DataClassDiags

\* An object has no error on it exactly when there is nothing wrong at any
\* place it is listed at.
LEMMA ErrorsAtPlaces ==
    ASSUME NEW in, NEW d
    PROVE  /\ d.kind = "RouterProfile" =>
                (ErrorsOn(in, d) = {} <=>
                   \A i \in DOMAIN in.profiles :
                      Key(in.profiles[i]) = Key(d) => FaultlessProfile(in, i))
           /\ d.kind = "DataClass" =>
                (ErrorsOn(in, d) = {} <=>
                   \A i \in DOMAIN in.data_classes :
                      Key(in.data_classes[i]) = Key(d) => FaultlessClass(in, i))
           /\ d.kind = "ModelTier" =>
                (ErrorsOn(in, d) = {} <=>
                   \A i \in DOMAIN in.tiers : Key(in.tiers[i]) = Key(d) => i \in Tiers(in))
           /\ d.kind = "RoutingPolicy" =>
                (ErrorsOn(in, d) = {} <=>
                   \A i \in DOMAIN in.policies :
                      Key(in.policies[i]) = Key(d) => i \in Kept(in))
<1> DEFINE On(E) == {e \in E : e.name = Key(d)}
<1>1. \A k, o, f : Diag("error", k, o, f).name = Key(o)
  BY DEF Diag
<1>2. ASSUME NEW k, NEW list, NEW kept, kept \subseteq DOMAIN list
      PROVE  /\ On(NameErrors(k, list, kept)) = {} <=>
                  \A i \in DOMAIN list : Key(list[i]) = Key(d) => i \in kept
             /\ On(BadFields(k, list, kept)) = {} <=>
                  \A i \in kept : Key(list[i]) = Key(d) => list[i].bad = {}
  <2>1. On(NameErrors(k, list, kept)) = {} <=>
          \A i \in DOMAIN list : Key(list[i]) = Key(d) => i \in kept
    BY <1>1 DEF NameErrors
  <2>2. On(BadFields(k, list, kept)) = {} <=>
          \A i \in kept : Key(list[i]) = Key(d) => list[i].bad = {}
    BY <1>1 DEF BadFields
  <2> QED
    BY <2>1, <2>2
<1>3. CASE d.kind = "RouterProfile"
  <2> DEFINE F == in.profiles
  <2>1. ErrorsOn(in, d) = On(RateErrors(in))
                            \cup On(NameErrors("RouterProfile", F, Profiles(in)))
                            \cup On(BadFields("RouterProfile", F, Profiles(in)))
    BY <1>3, ErrorsOfKind DEF ErrorsOn
  <2>2. On(RateErrors(in)) = {} <=>
          \A i \in DOMAIN F : Key(F[i]) = Key(d) => WrongRates(in, i) = {}
    BY <1>1 DEF RateErrors
  <2>3. Profiles(in) \subseteq DOMAIN F
    BY DEF Profiles, FirstNamed
  <2>4. ErrorsOn(in, d) = {} <=>
          /\ On(RateErrors(in)) = {}
          /\ On(NameErrors("RouterProfile", F, Profiles(in))) = {}
          /\ On(BadFields("RouterProfile", F, Profiles(in))) = {}
    <3> HIDE DEF On
    <3> QED
      BY <2>1
  <2> HIDE DEF On, F
  <2>5. ErrorsOn(in, d) = {} <=>
          \A i \in DOMAIN F : Key(F[i]) = Key(d) =>
             i \in Profiles(in) /\ F[i].bad = {} /\ WrongRates(in, i) = {}
    BY <1>2, <2>2, <2>3, <2>4
  <2> QED
    BY <1>3, <2>5 DEF FaultlessProfile, F
<1>4. CASE d.kind = "DataClass"
  <2> DEFINE C == in.data_classes
             Apart(i) == \A j \in Earlier(in, i) : Claims(C[i]) \cap Claims(C[j]) = {}
  <2>1. ErrorsOn(in, d) = On(NameErrors("DataClass", C, DataClasses(in)))
                            \cup On(BadFields("DataClass", C, DataClasses(in)))
                            \cup On(HeaderErrors(in))
    BY <1>4, ErrorsOfKind DEF ErrorsOn
  <2>2. On(HeaderErrors(in)) = {} <=>
          \A i \in DataClasses(in) : Key(C[i]) = Key(d) => Apart(i)
    <3>1. \A i \in DataClasses(in) :
            (\E j \in Earlier(in, i) : Claims(C[i]) \cap Claims(C[j]) # {}) <=> ~Apart(i)
      OBVIOUS
    <3>2. HeaderErrors(in) = {Diag("error", "DataClass", C[i], "headerValues") :
                                i \in {i \in DataClasses(in) : ~Apart(i)}}
      BY <3>1 DEF HeaderErrors
    <3> HIDE DEF Apart
    <3> QED
      BY <1>1, <3>2
  <2>3. DataClasses(in) \subseteq DOMAIN C
    BY DEF DataClasses, FirstNamed
  <2>4. ErrorsOn(in, d) = {} <=>
          /\ On(NameErrors("DataClass", C, DataClasses(in))) = {}
          /\ On(BadFields("DataClass", C, DataClasses(in))) = {}
          /\ On(HeaderErrors(in)) = {}
    <3> HIDE DEF On
    <3> QED
      BY <2>1
  <2> HIDE DEF On, C, Apart
  <2>5. ErrorsOn(in, d) = {} <=>
          \A i \in DOMAIN C : Key(C[i]) = Key(d) =>
             i \in DataClasses(in) /\ C[i].bad = {} /\ Apart(i)
    BY <1>2, <2>2, <2>3, <2>4
  <2> QED
    BY <1>4, <2>5 DEF FaultlessClass, C, Apart
<1>5. CASE d.kind = "ModelTier"
  <2> DEFINE T == in.tiers
             Fault(i) == {Diag("error", "ModelTier", T[i], f) : f \in TierFaults(in, i)}
             Faults == UNION {Fault(i) : i \in Examined(in)}
  <2>1. ErrorsOn(in, d) = On(NameErrors("ModelTier", T, Examined(in))) \cup On(Faults)
    BY <1>5, ErrorsOfKind DEF ErrorsOn, TierErrors
  <2>2. On(Faults) = {} <=>
          \A i \in Examined(in) : Key(T[i]) = Key(d) => TierFaults(in, i) = {}
    BY <1>1
  <2>3. Examined(in) \subseteq DOMAIN T
    BY DEF Examined
  <2>4. ErrorsOn(in, d) = {} <=>
          On(NameErrors("ModelTier", T, Examined(in))) = {} /\ On(Faults) = {}
    <3> HIDE DEF On, Faults
    <3> QED
      BY <2>1
  <2>5. \A i \in DOMAIN T : i \in Tiers(in) <=> i \in Examined(in) /\ TierFaults(in, i) = {}
    BY DEF Tiers, Examined, Sound
  <2> HIDE DEF On, Faults, T
  <2>6. ErrorsOn(in, d) = {} <=> \A i \in DOMAIN T : Key(T[i]) = Key(d) => i \in Tiers(in)
    BY <1>2, <2>2, <2>3, <2>4, <2>5
  <2> QED
    BY <1>5, <2>6 DEF T
<1>6. CASE d.kind = "RoutingPolicy"
  <2> DEFINE P == in.policies
             Fault(i) == {Diag("error", "RoutingPolicy", P[i], f) :
                            f \in PolicyFaults(in, P[i])}
             Faults == UNION {Fault(i) : i \in Seen(in)}
  <2>1. ErrorsOn(in, d) = On(NameErrors("RoutingPolicy", P, Seen(in))) \cup On(Faults)
    <3>1. PolicyErrors(in) = NameErrors("RoutingPolicy", P, Seen(in)) \cup Faults
      BY DEF PolicyErrors
    <3>2. ErrorsOn(in, d) = On(PolicyErrors(in))
      BY <1>6, ErrorsOfKind DEF ErrorsOn
    <3> HIDE DEF Faults
    <3> QED
      BY <3>1, <3>2
  <2>2. On(Faults) = {} <=>
          \A i \in Seen(in) : Key(P[i]) = Key(d) => PolicyFaults(in, P[i]) = {}
    <3> DEFINE faultsOf(i) == PolicyFaults(in, P[i])
    <3>1. On(UNION {{Diag("error", "RoutingPolicy", P[i], f) : f \in faultsOf(i)} :
                       i \in Seen(in)}) = {} <=>
            \A i \in Seen(in) : Key(P[i]) = Key(d) => faultsOf(i) = {}
      <4> HIDE DEF faultsOf
      <4> QED
        BY <1>1
    <3> QED
      BY <3>1
  <2>3. Seen(in) \subseteq DOMAIN P
    BY DEF Seen
  <2>4. ErrorsOn(in, d) = {} <=>
          On(NameErrors("RoutingPolicy", P, Seen(in))) = {} /\ On(Faults) = {}
    <3> HIDE DEF On, Faults
    <3> QED
      BY <2>1
  <2>5. \A i \in DOMAIN P : i \in Kept(in) <=> i \in Seen(in) /\ PolicyFaults(in, P[i]) = {}
    BY <2>3 DEF Kept
  <2> HIDE DEF On, Faults, P
  <2>6. ErrorsOn(in, d) = {} <=> \A i \in DOMAIN P : Key(P[i]) = Key(d) => i \in Kept(in)
    BY <1>2, <2>2, <2>3, <2>4, <2>5
  <2> QED
    BY <1>6, <2>6 DEF P
<1> QED
  BY <1>3, <1>4, <1>5, <1>6

-----------------------------------------------------------------------------
(* One object more.                                                        *)

\* The webhook's list: the object comes last.
Longer(list, longer, d) ==
    \E n \in Nat :
       /\ DOMAIN list = 1..n /\ DOMAIN longer = 1..(n + 1)
       /\ \A i \in 1..n : longer[i] = list[i]
       /\ longer[n + 1] = d

\* A longer list has the objects of the shorter one and the new object.
LEMMA LongerList ==
    ASSUME NEW list, NEW longer, NEW d, Longer(list, longer, d)
    PROVE  /\ Elems(longer) = Elems(list) \cup {d}
           /\ OwnNames(list) /\ (\A x \in Elems(list) : x.name # d.name) => OwnNames(longer)
           /\ OwnKeys(list) /\ (\A x \in Elems(list) : Key(x) # Key(d)) => OwnKeys(longer)
<1>1. PICK n \in Nat : /\ DOMAIN list = 1..n /\ DOMAIN longer = 1..(n + 1)
                       /\ \A i \in 1..n : longer[i] = list[i]
                       /\ longer[n + 1] = d
  BY DEF Longer
<1>2. \A i \in DOMAIN longer : i \in DOMAIN list \/ i = n + 1
  BY <1>1
<1>3. \A i \in DOMAIN list : i \in DOMAIN longer /\ longer[i] = list[i]
  BY <1>1
<1>4. n + 1 \in DOMAIN longer
  BY <1>1
<1>5. Elems(longer) = Elems(list) \cup {d}
  BY <1>1, <1>2, <1>3, <1>4 DEF Elems
<1>6. ASSUME OwnNames(list), \A x \in Elems(list) : x.name # d.name PROVE OwnNames(longer)
  BY <1>1, <1>2, <1>3, <1>6 DEF OwnNames, Elems
<1>7. ASSUME OwnKeys(list), \A x \in Elems(list) : Key(x) # Key(d) PROVE OwnKeys(longer)
  BY <1>1, <1>2, <1>3, <1>7 DEF OwnKeys, Elems
<1> QED
  BY <1>5, <1>6, <1>7

\* More tiers and profiles take nothing from a policy.
LEMMA MoreToReferTo ==
    ASSUME NEW in, GoodInput(in), Clean(in), NEW jn, GoodInput(jn), Clean(jn),
           Elems(in.tiers) \subseteq Elems(jn.tiers),
           Elems(in.profiles) \subseteq Elems(jn.profiles),
           NEW p, PolicyFaults(in, p) = {}
    PROVE  PolicyFaults(jn, p) = {}
<1>1. /\ NamesOf(in.tiers, Tiers(in)) \subseteq NamesOf(jn.tiers, Tiers(jn))
      /\ NamesOf(in.profiles, Profiles(in)) \subseteq NamesOf(jn.profiles, Profiles(jn))
  <2>1. ASSUME NEW kn, GoodInput(kn), Clean(kn)
        PROVE  /\ NamesOf(kn.tiers, Tiers(kn)) = {x.name : x \in Elems(kn.tiers)}
               /\ NamesOf(kn.profiles, Profiles(kn)) = {x.name : x \in Elems(kn.profiles)}
    BY <2>1, CleanKeepsAll, ElemsOf DEF NamesOf
  <2>2. /\ {x.name : x \in Elems(in.tiers)} \subseteq {x.name : x \in Elems(jn.tiers)}
        /\ {x.name : x \in Elems(in.profiles)} \subseteq {x.name : x \in Elems(jn.profiles)}
    OBVIOUS
  <2>3. /\ NamesOf(in.tiers, Tiers(in)) = {x.name : x \in Elems(in.tiers)}
        /\ NamesOf(in.profiles, Profiles(in)) = {x.name : x \in Elems(in.profiles)}
        /\ NamesOf(jn.tiers, Tiers(jn)) = {x.name : x \in Elems(jn.tiers)}
        /\ NamesOf(jn.profiles, Profiles(jn)) = {x.name : x \in Elems(jn.profiles)}
    BY <2>1
  <2> QED
    BY <2>2, <2>3
<1>2. ASSUME NEW n, InNamespace(in, p, n) PROVE InNamespace(jn, p, n)
  <2>1. \E t \in Elems(in.tiers) : t.name = n /\ Namespace(t) = Namespace(p)
    BY <1>2, CleanKeepsAll, ElemsOf DEF InNamespace
  <2> QED
    BY <2>1, CleanKeepsAll, ElemsOf DEF InNamespace
<1>3. ASSUME NEW n \in NamesOf(in.tiers, Tiers(in))
      PROVE  Of(in.tiers, Tiers(in), n) = Of(jn.tiers, Tiers(jn), n)
  <2> DEFINE i == CHOOSE i \in Tiers(in) : in.tiers[i].name = n
             j == CHOOSE j \in Tiers(jn) : jn.tiers[j].name = n
  <2>1. i \in Tiers(in) /\ in.tiers[i].name = n
    BY DEF NamesOf
  <2>2. j \in Tiers(jn) /\ jn.tiers[j].name = n
    BY <1>1 DEF NamesOf
  <2>3. in.tiers[i] \in Elems(jn.tiers) /\ jn.tiers[j] \in Elems(jn.tiers)
    BY <2>1, <2>2, CleanKeepsAll, ElemsOf
  <2>4. in.tiers[i] = jn.tiers[j]
    BY <2>1, <2>2, <2>3, OwnIsOne DEF Clean
  <2> QED
    BY <2>4 DEF Of
<1>4. Candidates(in, p) \subseteq Candidates(jn, p)
  <2>1. Selected(in, p) \subseteq Selected(jn, p)
    BY <1>1, <1>2, <1>3 DEF Selected
  <2> QED
    BY <1>2, <2>1 DEF Candidates
<1>5. /\ p.bad = {} /\ \A n \in p.include : InNamespace(in, p, n)
      /\ Candidates(in, p) # {}
      /\ p.learned => p.profile \in NamesOf(in.profiles, Profiles(in))
      /\ p.fallback # None => InNamespace(in, p, p.fallback)
  BY DEF PolicyFaults
<1>6. /\ \A n \in p.include : InNamespace(jn, p, n)
      /\ Candidates(jn, p) # {}
      /\ p.learned => p.profile \in NamesOf(jn.profiles, Profiles(jn))
      /\ p.fallback # None => InNamespace(jn, p, p.fallback)
  BY <1>1, <1>2, <1>4, <1>5
<1> QED
  BY <1>5, <1>6 DEF PolicyFaults

\* A cluster that compiles compiles with one object more that has no fault.
LEMMA OneProfileMore ==
    ASSUME NEW in, GoodInput(in), Compiles(in), NEW jn, GoodInput(jn), NEW d,
           Longer(in.profiles, jn.profiles, d), jn.data_classes = in.data_classes,
           jn.tiers = in.tiers, jn.policies = in.policies,
           \A i \in DOMAIN jn.profiles : jn.profiles[i] = d => FaultlessProfile(jn, i)
    PROVE  Compiles(jn)
<1> DEFINE F == Elems(in.profiles)
<1>0. PICK n \in Nat : /\ DOMAIN in.profiles = 1..n /\ DOMAIN jn.profiles = 1..(n + 1)
                       /\ \A i \in 1..n : jn.profiles[i] = in.profiles[i]
                       /\ jn.profiles[n + 1] = d
  BY DEF Longer
<1>1. FaultlessProfile(jn, n + 1)
  BY <1>0
<1>2. Clean(in) /\ \A p \in Elems(in.policies) : PolicyFaults(in, p) = {}
  BY CompilesMeansClean
<1>3. \A x \in F : x.name # d.name
  BY <1>0, <1>1 DEF FaultlessProfile, Profiles, FirstNamed, Elems
<1>4. Elems(jn.profiles) = F \cup {d} /\ OwnNames(jn.profiles)
  BY <1>2, <1>3, LongerList DEF Clean
<1>5. ASSUME NEW c \in Currency, d.rates[c] # None
      PROVE  d.rates[c] # 0 /\ \A q \in F : q.rates[c] # None => q.rates[c] = d.rates[c]
  <2>1. d.rates[c] # 0 /\ d.rates[c] = Fx(jn, c)
    BY <1>0, <1>1, <1>5 DEF FaultlessProfile, WrongRates
  <2>2. ASSUME NEW q \in F, q.rates[c] # None PROVE q.rates[c] = Fx(jn, c)
    <3>1. PICK i \in 1..n : in.profiles[i] = q
      BY <1>0, ElemsOf
    <3>2. q.rates[c] # 0
      BY <1>2, <2>2 DEF Clean, ProfilesClean
    <3>3. i \in Quotes(jn, c) /\ Quotes(jn, c) \subseteq Nat
      BY <1>0, <2>2, <3>1, <3>2 DEF Quotes
    <3> DEFINE first == CHOOSE k \in Quotes(jn, c) : \A j \in Quotes(jn, c) : k <= j
    <3>4. first \in Quotes(jn, c) /\ first <= i
      <4>1. \E k \in Quotes(jn, c) : \A j \in Quotes(jn, c) : k <= j
        BY <3>3, HasLeast
      <4> QED
        BY <3>3, <4>1
    <3>5. Fx(jn, c) = jn.profiles[first].rates[c]
      BY DEF Fx
    <3> HIDE DEF first
    <3>6. first \in 1..n /\ jn.profiles[first].rates[c] # None
      BY <1>0, <3>1, <3>3, <3>4 DEF Quotes
    <3>7. in.profiles[first] \in F /\ jn.profiles[first] = in.profiles[first]
      BY <1>0, <3>6, ElemsOf
    <3> QED
      BY <1>2, <2>2, <3>5, <3>6, <3>7 DEF Clean, ProfilesClean
  <2> QED
    BY <2>1, <2>2
<1>6. d.bad = {}
  BY <1>0, <1>1 DEF FaultlessProfile
<1>7. ProfilesClean(F \cup {d})
  BY <1>2, <1>5, <1>6 DEF Clean, ProfilesClean
<1>8. Clean(jn)
  <2>1. TiersClean(Elems(jn.tiers), Elems(jn.data_classes), Elems(jn.profiles))
    BY <1>2, <1>4 DEF Clean, TiersClean
  <2> QED
    BY <1>2, <1>4, <1>7, <2>1 DEF Clean
<1>9. \A p \in Elems(jn.policies) : PolicyFaults(jn, p) = {}
  BY <1>2, <1>4, <1>8, MoreToReferTo
<1> QED
  BY <1>8, <1>9, CompilesMeansClean

\* The same for a data class ...
LEMMA OneClassMore ==
    ASSUME NEW in, GoodInput(in), Compiles(in), NEW jn, GoodInput(jn), NEW d,
           Longer(in.data_classes, jn.data_classes, d), jn.profiles = in.profiles,
           jn.tiers = in.tiers, jn.policies = in.policies,
           \A i \in DOMAIN jn.data_classes :
              jn.data_classes[i] = d => FaultlessClass(jn, i)
    PROVE  Compiles(jn)
<1> DEFINE C == Elems(in.data_classes)
<1>0. PICK n \in Nat :
         /\ DOMAIN in.data_classes = 1..n /\ DOMAIN jn.data_classes = 1..(n + 1)
         /\ \A i \in 1..n : jn.data_classes[i] = in.data_classes[i]
         /\ jn.data_classes[n + 1] = d
  BY DEF Longer
<1>1. FaultlessClass(jn, n + 1)
  BY <1>0
<1>2. Clean(in) /\ \A p \in Elems(in.policies) : PolicyFaults(in, p) = {}
  BY CompilesMeansClean
<1>3. \A x \in C : x.name # d.name
  BY <1>0, <1>1 DEF FaultlessClass, DataClasses, FirstNamed, Elems
<1>4. Elems(jn.data_classes) = C \cup {d} /\ OwnNames(jn.data_classes)
  BY <1>2, <1>3, LongerList DEF Clean
<1>5. ASSUME NEW x \in C PROVE Claims(d) \cap Claims(x) = {}
  <2>1. PICK i \in 1..n : in.data_classes[i] = x
    BY <1>0, ElemsOf
  <2>2. DataClasses(jn) = DOMAIN jn.data_classes
    BY <1>4, FirstOfDistinct DEF GoodInput, DataClasses
  <2>3. i \in Earlier(jn, n + 1)
    BY <1>0, <2>2 DEF Earlier
  <2> QED
    BY <1>0, <1>1, <2>1, <2>3 DEF FaultlessClass
<1>6. d.bad = {}
  BY <1>0, <1>1 DEF FaultlessClass
<1>7. ClassesClean(C \cup {d})
  <2>1. \A x \in C \cup {d} : x.bad = {}
    BY <1>2, <1>6 DEF Clean, ClassesClean
  <2>2. ASSUME NEW x \in C \cup {d}, NEW y \in C \cup {d}, x.name # y.name
        PROVE  Claims(x) \cap Claims(y) = {}
    BY <1>2, <1>5, <2>2 DEF Clean, ClassesClean
  <2> QED
    BY <2>1, <2>2 DEF ClassesClean
<1>8. Clean(jn)
  <2>1. TiersClean(Elems(jn.tiers), Elems(jn.data_classes), Elems(jn.profiles))
    BY <1>2, <1>4 DEF Clean, TiersClean
  <2> QED
    BY <1>2, <1>4, <1>7, <2>1 DEF Clean
<1>9. \A p \in Elems(jn.policies) : PolicyFaults(jn, p) = {}
  BY <1>2, <1>8, MoreToReferTo
<1> QED
  BY <1>8, <1>9, CompilesMeansClean

\* ... a tier ...
LEMMA OneTierMore ==
    ASSUME NEW in, GoodInput(in), Compiles(in), NEW jn, GoodInput(jn), NEW d,
           Longer(in.tiers, jn.tiers, d), jn.profiles = in.profiles,
           jn.data_classes = in.data_classes, jn.policies = in.policies,
           \A i \in DOMAIN jn.tiers : jn.tiers[i] = d => i \in Tiers(jn)
    PROVE  Compiles(jn)
<1> DEFINE T == Elems(in.tiers)
<1>0. PICK n \in Nat : /\ DOMAIN in.tiers = 1..n /\ DOMAIN jn.tiers = 1..(n + 1)
                       /\ \A i \in 1..n : jn.tiers[i] = in.tiers[i]
                       /\ jn.tiers[n + 1] = d
  BY DEF Longer
<1>1. n + 1 \in Tiers(jn)
  BY <1>0
<1>2. Clean(in) /\ \A p \in Elems(in.policies) : PolicyFaults(in, p) = {}
  BY CompilesMeansClean
<1>3. \A i \in DOMAIN jn.tiers :
        TierFaults(jn, i) = {} <=>
          /\ jn.tiers[i].bad = {}
          /\ jn.tiers[i].classes \subseteq {x.name : x \in Elems(in.data_classes)}
          /\ \/ jn.tiers[i].currency = "EUR"
             \/ \E p \in Elems(in.profiles) : p.rates[jn.tiers[i].currency] \notin {None, 0}
  <2>1. DataClasses(jn) = DOMAIN in.data_classes
    BY <1>2, CleanKeepsAll DEF DataClasses
  <2>2. NamesOf(jn.data_classes, DataClasses(jn)) = {x.name : x \in Elems(in.data_classes)}
    BY <2>1, ElemsOf DEF NamesOf
  <2> QED
    BY <2>2, TierFaultsOf, RatesOf
<1>4. \A i \in 1..n : Sound(jn, i)
  <2> SUFFICES ASSUME NEW i \in 1..n PROVE Sound(jn, i)
    OBVIOUS
  <2>1. jn.tiers[i] = in.tiers[i] /\ in.tiers[i] \in T /\ i \in DOMAIN jn.tiers
    BY <1>0, ElemsOf
  <2>2. TierFaults(jn, i) = {}
    BY <1>2, <1>3, <2>1 DEF Clean, TiersClean
  <2>3. jn.tiers[i].name # None
    BY <2>1, DraftsAssumption DEF GoodInput, ListOf
  <2> QED
    BY <2>2, <2>3 DEF Sound
<1>5. \A x \in T : x.name # d.name
  <2>1. ASSUME NEW i \in 1..n PROVE in.tiers[i].name # d.name
    <3>1. i \notin Namesakes(jn, n + 1)
      BY <1>1 DEF Tiers
    <3> QED
      BY <1>0, <1>4, <3>1 DEF Namesakes
  <2> QED
    BY <1>0, <2>1, ElemsOf
<1>6. Elems(jn.tiers) = T \cup {d} /\ OwnNames(jn.tiers)
  BY <1>2, <1>5, LongerList DEF Clean
<1>7. TierFaults(jn, n + 1) = {} /\ n + 1 \in DOMAIN jn.tiers
  BY <1>0, <1>1 DEF Tiers, Sound
<1>8. TiersClean(T \cup {d}, Elems(in.data_classes), Elems(in.profiles))
  BY <1>0, <1>2, <1>3, <1>7 DEF Clean, TiersClean
<1>9. Clean(jn)
  BY <1>2, <1>6, <1>8 DEF Clean
<1>10. \A p \in Elems(jn.policies) : PolicyFaults(jn, p) = {}
  BY <1>2, <1>6, <1>9, MoreToReferTo
<1> QED
  BY <1>9, <1>10, CompilesMeansClean

\* ... and a policy.
LEMMA OnePolicyMore ==
    ASSUME NEW in, GoodInput(in), Compiles(in), NEW jn, GoodInput(jn), NEW d,
           Longer(in.policies, jn.policies, d), jn.profiles = in.profiles,
           jn.data_classes = in.data_classes, jn.tiers = in.tiers,
           \A i \in DOMAIN jn.policies : jn.policies[i] = d => i \in Kept(jn)
    PROVE  Compiles(jn)
<1> DEFINE P == Elems(in.policies)
<1>0. PICK n \in Nat : /\ DOMAIN in.policies = 1..n /\ DOMAIN jn.policies = 1..(n + 1)
                       /\ \A i \in 1..n : jn.policies[i] = in.policies[i]
                       /\ jn.policies[n + 1] = d
  BY DEF Longer
<1>1. n + 1 \in Kept(jn)
  BY <1>0
<1>2. Clean(in) /\ \A p \in P : PolicyFaults(in, p) = {}
  BY CompilesMeansClean
<1>3. \A x \in P : Key(x) # Key(d)
  BY <1>0, <1>1 DEF Kept, Seen, Elems
<1>4. Elems(jn.policies) = P \cup {d} /\ OwnKeys(jn.policies)
  BY <1>2, <1>3, LongerList DEF Clean
<1>5. Clean(jn)
  BY <1>2, <1>4 DEF Clean
<1>6. PolicyFaults(jn, d) = {}
  BY <1>0, <1>1 DEF Kept
<1>7. \A p \in P : PolicyFaults(jn, p) = {}
  BY <1>2, <1>5, MoreToReferTo
<1> QED
  BY <1>4, <1>5, <1>6, <1>7, CompilesMeansClean

-----------------------------------------------------------------------------
(* The verdict on a create.                                                *)

\* The webhook's lists for an object that is not in the cluster
LEMMA SubstitutedLast ==
    ASSUME NEW S, GoodStore(S), NEW d \in Drafts, \A o \in S : ~SameObject(o, d)
    PROVE  LET more == Substitute(Listings(S), d) IN
           /\ d.kind \in Kind
           /\ Longer(Listing(S, d.kind), more[d.kind], d)
           /\ \A k \in Kind : k # d.kind => more[k] = Listing(S, k)
           /\ \A k \in Kind : ListOf(more[k], k) /\ Distinct(more[k])
<1> DEFINE L == Listing(S, d.kind)
           N == Cardinality(Watched(S, d.kind))
           more == Substitute(Listings(S), d)
<1>1. d.kind \in Kind
  <2>1. d \in Resource
    BY DraftsAssumption
  <2> QED
    BY <2>1 DEF Resource, ModelTier, DataClass, RouterProfile, RoutingPolicy, Kind
<1>2. /\ N \in Nat /\ DOMAIN L = 1..N /\ L \in Seq(Drafts) /\ Len(L) = N
      /\ \A i \in 1..N : L[i] \in S /\ L[i].kind = d.kind
  <2>1. N \in Nat /\ L \in [1..N -> Watched(S, d.kind)]
    BY <1>1, ListingIs
  <2>2. Watched(S, d.kind) \subseteq Drafts
    BY DEF Watched, GoodStore
  <2>3. \A o \in Watched(S, d.kind) : o \in S /\ o.kind = d.kind
    BY DEF Watched
  <2> HIDE DEF L, N
  <2> QED
    BY <2>1, <2>2, <2>3
<1>3. Listings(S)[d.kind] = L
  BY <1>1 DEF Listings
<1>4. {i \in DOMAIN L : Key(L[i]) = Key(d)} = {}
  BY <1>2 DEF SameObject
<1> HIDE DEF L, N
<1>5. more = [Listings(S) EXCEPT ![d.kind] = Append(L, d)]
  BY <1>3, <1>4 DEF Substitute
<1>6. /\ more[d.kind] = Append(L, d)
      /\ \A k \in Kind : k # d.kind => more[k] = Listing(S, k)
  BY <1>1, <1>5 DEF Listings
<1>7. /\ DOMAIN Append(L, d) = 1..(N + 1) /\ Append(L, d)[N + 1] = d
      /\ \A i \in 1..N : Append(L, d)[i] = L[i]
  BY <1>2
<1>8. Longer(L, more[d.kind], d)
  BY <1>2, <1>6, <1>7 DEF Longer
<1>9. ListOf(Append(L, d), d.kind) /\ Distinct(Append(L, d))
  <2>1. ListOf(L, d.kind) /\ Distinct(L)
    BY <1>1, ListingIsGood DEF L
  <2>2. \A i \in 1..N : L[i] # d
    BY <1>2 DEF SameObject
  <2>3. \A i \in 1..(N + 1) : i \in 1..N \/ i = N + 1
    BY <1>2
  <2>4. ListOf(Append(L, d), d.kind)
    BY <1>2, <1>7, <2>1, <2>3 DEF ListOf
  <2>5. Distinct(Append(L, d))
    BY <1>2, <1>7, <2>1, <2>2, <2>3 DEF Distinct
  <2> QED
    BY <2>4, <2>5
<1>10. \A k \in Kind : ListOf(more[k], k) /\ Distinct(more[k])
  BY <1>6, <1>9, ListingIsGood
<1> HIDE DEF more
<1> QED
  BY <1>1, <1>6, <1>8, <1>10 DEF more, L

\* The cluster with the object
LEMMA WithTheObject ==
    ASSUME NEW S, GoodStore(S), NEW d \in Drafts, \A o \in S : ~SameObject(o, d)
    PROVE  /\ GoodStore(S \cup {d})
           /\ \A k \in Kind : k # d.kind => Watched(S \cup {d}, k) = Watched(S, k)
           /\ Reconciled(d) => Watched(S \cup {d}, d.kind) = Watched(S, d.kind) \cup {d}
           /\ ~Reconciled(d) => Watched(S \cup {d}, d.kind) = Watched(S, d.kind)
<1>1. IsFiniteSet(S \cup {d})
  BY FS_AddElement DEF GoodStore
<1>2. \A o, p \in S \cup {d} : SameObject(o, p) => o = p
  BY DEF GoodStore, SameObject
<1>3. GoodStore(S \cup {d})
  BY <1>1, <1>2 DEF GoodStore
<1> QED
  BY <1>3 DEF Watched, Reconciled

\* Whether names are repeated does not depend on the order.
LEMMA DistinctNames ==
    ASSUME NEW list, NEW other, Distinct(list), Distinct(other), Elems(list) = Elems(other)
    PROVE  (OwnNames(list) <=> OwnNames(other)) /\ (OwnKeys(list) <=> OwnKeys(other))
<1>1. ASSUME NEW l, Distinct(l)
      PROVE  /\ OwnNames(l) <=> \A x, y \in Elems(l) : x # y => x.name # y.name
             /\ OwnKeys(l) <=> \A x, y \in Elems(l) : x # y => Key(x) # Key(y)
  BY <1>1 DEF Distinct, OwnNames, OwnKeys, Elems
<1> QED
  BY <1>1

\* To a cluster that compiles, an object is admitted exactly when the cluster
\* compiles with it, wherever it is listed.
LEMMA VerdictIsExact ==
    ASSUME NEW S, GoodStore(S), NEW d \in Drafts, \A o \in S : ~SameObject(o, d),
           Reconciled(d), StoreCompiles(S)
    PROVE  OwnErrors(Substitute(Listings(S), d), d) = {} <=> StoreCompiles(S \cup {d})
<1> DEFINE more == Substitute(Listings(S), d)
           in == Input(Listings(S))
           jn == Input(more)
           kn == Input(Listings(S \cup {d}))
<1>1. /\ d.kind \in Kind
      /\ Longer(Listing(S, d.kind), more[d.kind], d)
      /\ \A k \in Kind : k # d.kind => more[k] = Listing(S, k)
      /\ \A k \in Kind : ListOf(more[k], k) /\ Distinct(more[k])
  BY SubstitutedLast
<1>2. /\ in.tiers = Listing(S, "ModelTier") /\ in.data_classes = Listing(S, "DataClass")
      /\ in.policies = Listing(S, "RoutingPolicy") /\ in.profiles = Listing(S, "RouterProfile")
  BY DEF Input, Listings, Kind
<1>3. /\ jn.tiers = more["ModelTier"] /\ jn.data_classes = more["DataClass"]
      /\ jn.policies = more["RoutingPolicy"] /\ jn.profiles = more["RouterProfile"]
  BY DEF Input
<1>4. /\ kn.tiers = Listing(S \cup {d}, "ModelTier")
      /\ kn.data_classes = Listing(S \cup {d}, "DataClass")
      /\ kn.policies = Listing(S \cup {d}, "RoutingPolicy")
      /\ kn.profiles = Listing(S \cup {d}, "RouterProfile")
  BY DEF Input, Listings, Kind
<1>5. GoodInput(in) /\ GoodInput(kn) /\ GoodStore(S \cup {d})
  BY ListingsAreGood, WithTheObject
<1>6. GoodInput(jn)
  BY <1>1, <1>3 DEF GoodInput, Kind
<1>7. Compiles(in) /\ (StoreCompiles(S \cup {d}) <=> Compiles(kn))
  BY DEF StoreCompiles
<1>8. OwnErrors(more, d) = ErrorsOn(jn, d)
  BY DEF OwnErrors, ErrorsOn
<1> HIDE DEF more, in, jn, kn
<1>9. ASSUME NEW k \in Kind
      PROVE  Elems(more[k]) = Elems(Listing(S \cup {d}, k))
  <2>1. /\ Elems(Listing(S, k)) = Watched(S, k)
        /\ Elems(Listing(S \cup {d}, k)) = Watched(S \cup {d}, k)
    BY <1>5, ListingIsGood
  <2>2. CASE k # d.kind
    <3>1. Watched(S \cup {d}, k) = Watched(S, k)
      BY <2>2, WithTheObject
    <3> QED
      BY <1>1, <2>1, <2>2, <3>1
  <2>3. CASE k = d.kind
    <3>1. Elems(more[k]) = Elems(Listing(S, k)) \cup {d}
      BY <1>1, <2>3, LongerList
    <3> QED
      BY <2>1, <2>3, <3>1, WithTheObject
  <2> QED
    BY <2>2, <2>3
<1>10. Compiles(jn) <=> Compiles(kn)
  <2>1. Alike(jn, kn)
    BY <1>3, <1>4, <1>9 DEF Alike, Kind
  <2>2. \A k \in Kind : Distinct(more[k]) /\ Distinct(Listing(S \cup {d}, k))
    BY <1>1, <1>5, ListingIsGood
  <2>3. /\ OwnNames(jn.tiers) <=> OwnNames(kn.tiers)
        /\ OwnNames(jn.data_classes) <=> OwnNames(kn.data_classes)
        /\ OwnNames(jn.profiles) <=> OwnNames(kn.profiles)
        /\ OwnKeys(jn.policies) <=> OwnKeys(kn.policies)
    BY <1>3, <1>4, <1>9, <2>2, DistinctNames DEF Kind
  <2> QED
    BY <1>5, <1>6, <2>1, <2>3, AlikeCompileOrNot
<1>11. ASSUME Compiles(jn) PROVE ErrorsOn(jn, d) = {}
  BY <1>11 DEF Compiles, ErrorsOn
<1>12. ASSUME ErrorsOn(jn, d) = {} PROVE Compiles(jn)
  <2>1. CASE d.kind = "RouterProfile"
    <3>1. \A i \in DOMAIN jn.profiles : jn.profiles[i] = d => FaultlessProfile(jn, i)
      BY <1>12, <2>1, ErrorsAtPlaces
    <3> QED
      BY <1>1, <1>2, <1>3, <1>5, <1>6, <1>7, <2>1, <3>1, OneProfileMore DEF Kind
  <2>2. CASE d.kind = "DataClass"
    <3>1. \A i \in DOMAIN jn.data_classes : jn.data_classes[i] = d => FaultlessClass(jn, i)
      BY <1>12, <2>2, ErrorsAtPlaces
    <3> QED
      BY <1>1, <1>2, <1>3, <1>5, <1>6, <1>7, <2>2, <3>1, OneClassMore DEF Kind
  <2>3. CASE d.kind = "ModelTier"
    <3>1. \A i \in DOMAIN jn.tiers : jn.tiers[i] = d => i \in Tiers(jn)
      BY <1>12, <2>3, ErrorsAtPlaces
    <3> QED
      BY <1>1, <1>2, <1>3, <1>5, <1>6, <1>7, <2>3, <3>1, OneTierMore DEF Kind
  <2>4. CASE d.kind = "RoutingPolicy"
    <3>1. \A i \in DOMAIN jn.policies : jn.policies[i] = d => i \in Kept(jn)
      BY <1>12, <2>4, ErrorsAtPlaces
    <3> QED
      BY <1>1, <1>2, <1>3, <1>5, <1>6, <1>7, <2>4, <3>1, OnePolicyMore DEF Kind
  <2> QED
    BY <1>1, <2>1, <2>2, <2>3, <2>4 DEF Kind
<1> QED
  BY <1>7, <1>8, <1>10, <1>11, <1>12 DEF more

\* What a webhook says of a create is what the compiler will say of the
\* cluster with it, for every cluster and every object.
THEOREM CreatesAreJudgedExactly == Spec => CreateVerdictIsExact
<1>1. ASSUME TypeOK, StoreInv, NEW w \in Writers, Judged(w), New(w), Reconciled(draft[w]),
             Fresh(w), StoreCompiles(store)
      PROVE  Admit(w) <=> StoreCompiles(store \cup {draft[w]})
  <2>1. draft[w] \in Drafts
    BY <1>1 DEF TypeOK, Judged, Admit, Deny
  <2>2. Admissible(w) <=> OwnErrors(Substitute(Listings(store), draft[w]), draft[w]) = {}
    BY <1>1 DEF Fresh, Admissible
  <2>3. Admissible(w) <=> StoreCompiles(store \cup {draft[w]})
    BY <1>1, <2>1, <2>2, VerdictIsExact DEF New, StoreInv
  <2>4. Admit(w) <=> Admissible(w)
    BY <1>1 DEF Judged, Admit, Deny
  <2> QED
    BY <2>3, <2>4
<1>2. TypeOK /\ StoreInv /\ [Next]_vars =>
        [\A w \in Writers :
           Judged(w) /\ New(w) /\ Reconciled(draft[w]) /\ Fresh(w) /\ StoreCompiles(store)
             => (Admit(w) <=> StoreCompiles(store \cup {draft[w]}))]_vars
  BY <1>1
<1> QED
  BY <1>2, StoreInvariant, PTL DEF Spec, CreateVerdictIsExact

-----------------------------------------------------------------------------
(* An object listed earlier has no more errors than one listed later.      *)

\* A profile that is the first of its name stays the first nearer the front.
LEMMA EarlierProfile ==
    ASSUME NEW in, GoodInput(in), NEW jn, GoodInput(jn),
           NEW m \in DOMAIN in.profiles, NEW n \in DOMAIN jn.profiles, m <= n,
           in.profiles[m] = jn.profiles[n],
           \A i \in 1..(m - 1) : in.profiles[i] = jn.profiles[i],
           FaultlessProfile(jn, n)
    PROVE  FaultlessProfile(in, m)
<1>0. PICK a \in Nat, b \in Nat : DOMAIN in.profiles = 1..a /\ DOMAIN jn.profiles = 1..b
  BY DEF GoodInput, ListOf
<1>1. \A i \in 1..(m - 1) :
        i \in 1..(n - 1) /\ i \in DOMAIN in.profiles /\ i \in DOMAIN jn.profiles
  BY <1>0
<1>2. m \in Profiles(in)
  BY <1>1 DEF FaultlessProfile, Profiles, FirstNamed
<1>3. in.profiles[m].bad = {}
  BY DEF FaultlessProfile
<1>4. ASSUME NEW c \in Currency, in.profiles[m].rates[c] # None
      PROVE  in.profiles[m].rates[c] # 0 /\ in.profiles[m].rates[c] = Fx(in, c)
  <2>1. in.profiles[m].rates[c] # 0 /\ in.profiles[m].rates[c] = Fx(jn, c)
    BY <1>4 DEF FaultlessProfile, WrongRates
  <2>2. /\ m \in Quotes(in, c) /\ n \in Quotes(jn, c)
        /\ Quotes(in, c) \subseteq Nat /\ Quotes(jn, c) \subseteq Nat
    BY <1>0, <1>4, <2>1 DEF Quotes
  <2> DEFINE first == CHOOSE i \in Quotes(in, c) : \A j \in Quotes(in, c) : i <= j
             jirst == CHOOSE i \in Quotes(jn, c) : \A j \in Quotes(jn, c) : i <= j
  <2>3. first \in Quotes(in, c) /\ \A j \in Quotes(in, c) : first <= j
    <3>1. \E i \in Quotes(in, c) : \A j \in Quotes(in, c) : i <= j
      BY <2>2, HasLeast
    <3> QED
      BY <3>1
  <2>4. jirst \in Quotes(jn, c) /\ \A j \in Quotes(jn, c) : jirst <= j
    <3>1. \E i \in Quotes(jn, c) : \A j \in Quotes(jn, c) : i <= j
      BY <2>2, HasLeast
    <3> QED
      BY <3>1
  <2>5. Fx(in, c) = in.profiles[first].rates[c] /\ Fx(jn, c) = jn.profiles[jirst].rates[c]
    BY DEF Fx
  <2> HIDE DEF first, jirst
  <2>6. CASE first = m
    BY <2>1, <2>5, <2>6
  <2>7. CASE first # m
    <3>1. first \in 1..(m - 1)
      BY <1>0, <2>2, <2>3, <2>7 DEF Quotes
    <3>2. \A i \in 1..(m - 1) : i \in Quotes(in, c) <=> i \in Quotes(jn, c)
      BY <1>1 DEF Quotes
    <3>3. jirst <= first /\ jirst \in 1..(m - 1)
      <4>1. jirst <= first
        BY <2>4, <3>1, <3>2, <2>3
      <4>2. jirst \in 1..b
        BY <1>0, <2>4 DEF Quotes
      <4> QED
        BY <1>0, <3>1, <4>1, <4>2
    <3>4. jirst = first
      BY <2>2, <2>3, <2>4, <3>2, <3>3
    <3> QED
      BY <2>1, <2>5, <3>1, <3>4
  <2> QED
    BY <2>6, <2>7
<1>5. WrongRates(in, m) = {}
  BY <1>4 DEF WrongRates
<1> QED
  BY <1>2, <1>3, <1>5 DEF FaultlessProfile

\* The same for a data class, whose claims meet fewer earlier ones ...
LEMMA EarlierClass ==
    ASSUME NEW in, GoodInput(in), NEW jn, GoodInput(jn),
           NEW m \in DOMAIN in.data_classes, NEW n \in DOMAIN jn.data_classes, m <= n,
           in.data_classes[m] = jn.data_classes[n],
           \A i \in 1..(m - 1) : in.data_classes[i] = jn.data_classes[i],
           FaultlessClass(jn, n)
    PROVE  FaultlessClass(in, m)
<1>0. PICK a \in Nat, b \in Nat :
         DOMAIN in.data_classes = 1..a /\ DOMAIN jn.data_classes = 1..b
  BY DEF GoodInput, ListOf
<1>1. \A i \in 1..(m - 1) :
        /\ i \in 1..(n - 1) /\ i < n
        /\ i \in DOMAIN in.data_classes /\ i \in DOMAIN jn.data_classes
  BY <1>0
<1>2. m \in DataClasses(in)
  BY <1>1 DEF FaultlessClass, DataClasses, FirstNamed
<1>3. in.data_classes[m].bad = {}
  BY DEF FaultlessClass
<1>4. ASSUME NEW j \in Earlier(in, m)
      PROVE  Claims(in.data_classes[m]) \cap Claims(in.data_classes[j]) = {}
  <2>1. j \in 1..(m - 1) /\ \A i \in 1..(j - 1) : i \in 1..(m - 1)
    BY <1>0 DEF Earlier, DataClasses, FirstNamed
  <2>2. j \in DataClasses(jn)
    BY <1>1, <2>1 DEF Earlier, DataClasses, FirstNamed
  <2>3. j \in Earlier(jn, n)
    BY <1>1, <2>1, <2>2 DEF Earlier
  <2> QED
    BY <2>1, <2>3 DEF FaultlessClass
<1> QED
  BY <1>2, <1>3, <1>4 DEF FaultlessClass

\* What a tier needs is in the other lists.
LEMMA SameTierFaults ==
    ASSUME NEW in, NEW jn, in.data_classes = jn.data_classes, in.profiles = jn.profiles,
           NEW i, NEW j, in.tiers[i] = jn.tiers[j]
    PROVE  TierFaults(in, i) = TierFaults(jn, j) /\ (Sound(in, i) <=> Sound(jn, j))
<1>1. NamesOf(in.data_classes, DataClasses(in)) = NamesOf(jn.data_classes, DataClasses(jn))
  BY DEF DataClasses
<1>2. HasRate(in, in.tiers[i].currency) <=> HasRate(jn, jn.tiers[j].currency)
  BY DEF HasRate, Quotes
<1>3. TierFaults(in, i) = TierFaults(jn, j)
  BY <1>1, <1>2 DEF TierFaults
<1> QED
  BY <1>3 DEF Sound

\* ... and for a tier.
LEMMA EarlierTier ==
    ASSUME NEW in, GoodInput(in), NEW jn, GoodInput(jn),
           in.data_classes = jn.data_classes, in.profiles = jn.profiles,
           NEW m \in DOMAIN in.tiers, NEW n \in DOMAIN jn.tiers, m <= n,
           in.tiers[m] = jn.tiers[n],
           \A i \in 1..(m - 1) : in.tiers[i] = jn.tiers[i],
           n \in Tiers(jn)
    PROVE  m \in Tiers(in)
<1>0. PICK a \in Nat, b \in Nat : DOMAIN in.tiers = 1..a /\ DOMAIN jn.tiers = 1..b
  <2>1. ListOf(in.tiers, "ModelTier") /\ ListOf(jn.tiers, "ModelTier")
    BY DEF GoodInput
  <2> QED
    BY <2>1 DEF ListOf
<1>1. Sound(in, m)
  BY SameTierFaults DEF Tiers
<1>2. ASSUME NEW i \in Namesakes(in, m) PROVE FALSE
  <2>1. i \in 1..(m - 1) /\ i < n /\ i \in DOMAIN jn.tiers
    BY <1>0 DEF Namesakes
  <2>2. in.tiers[i] = jn.tiers[i]
    BY <2>1
  <2>3. Sound(jn, i)
    BY <2>2, SameTierFaults DEF Namesakes
  <2>4. i \in Namesakes(jn, n)
    BY <2>1, <2>2, <2>3 DEF Namesakes
  <2> QED
    BY <2>4 DEF Tiers
<1> QED
  BY <1>1, <1>2 DEF Tiers

\* What a policy needs is in the other lists.
LEMMA SamePolicyFaults ==
    ASSUME NEW in, NEW jn, in.data_classes = jn.data_classes, in.profiles = jn.profiles,
           in.tiers = jn.tiers, NEW p
    PROVE  PolicyFaults(in, p) = PolicyFaults(jn, p)
<1>1. \A i : Sound(in, i) <=> Sound(jn, i)
  BY SameTierFaults
<1>2. \A i : Namesakes(in, i) = Namesakes(jn, i)
  BY <1>1 DEF Namesakes
<1>3. Tiers(in) = Tiers(jn) /\ Profiles(in) = Profiles(jn)
  BY <1>1, <1>2 DEF Tiers, Profiles
<1>4. \A n : InNamespace(in, p, n) <=> InNamespace(jn, p, n)
  BY <1>3 DEF InNamespace
<1>5. Selected(in, p) = Selected(jn, p)
  BY <1>3, <1>4 DEF Selected
<1>6. Candidates(in, p) = Candidates(jn, p)
  BY <1>4, <1>5 DEF Candidates
<1> QED
  BY <1>3, <1>4, <1>6 DEF PolicyFaults

-----------------------------------------------------------------------------
(* Where an object stands in the listing.                                  *)

\* The listing is in the order of the keys.
LEMMA PlacesGrow ==
    ASSUME NEW S, GoodStore(S), NEW k \in Kind,
           NEW p \in Watched(S, k), NEW q \in Watched(S, k), KeyBefore(Key(p), Key(q))
    PROVE  Place(S, k, p) < Place(S, k, q)
<1> DEFINE W == Watched(S, k)
           R == {x \in W \X W : KeyBefore(Key(x[1]), Key(x[2]))}
<1>1. W \subseteq Drafts /\ IsFiniteSet(W)
  BY FS_Subset DEF Watched, GoodStore
<1>2. \A x, y \in W : <<x, y>> \in R <=> KeyBefore(Key(x), Key(y))
  OBVIOUS
<1>3. TotalOrder(W, R)
  <2>1. \A x, y \in W : x = y \/ Key(x) # Key(y)
    BY DEF Watched, GoodStore, SameObject
  <2> HIDE DEF W, R
  <2> QED
    BY <1>1, <1>2, <2>1, KeyOrderAssumption DEF TotalOrder
<1>4. ASSUME NEW o \in W PROVE Place(S, k, o) = Rank(W, R, o)
  <2>1. {x \in W : KeyBefore(Key(x), Key(o))} = {x \in W : <<x, o>> \in R}
    BY <1>2
  <2> QED
    BY <2>1 DEF Rank, Place
<1>5. <<p, q>> \in R
  BY <1>2
<1> HIDE DEF W, R
<1>6. p \in W /\ q \in W
  BY DEF W
<1> QED
  BY <1>1, <1>3, <1>4, <1>5, <1>6, RanksGrow

\* The list T has d at place m, and before it what the list S has there.
AtItsPlace(S, T, k, d, m) ==
    /\ m \in 1..(Cardinality(Watched(S, k)) + 1)
    /\ m \in DOMAIN Listing(T, k)
    /\ Listing(T, k)[m] = d
    /\ \A i \in 1..(m - 1) :
         i \in DOMAIN Listing(S, k) /\ Listing(T, k)[i] = Listing(S, k)[i]
    /\ \A i \in DOMAIN Listing(T, k) : Key(Listing(T, k)[i]) = Key(d) => i = m

\* A new object comes to its place; those before it keep theirs.
LEMMA InsertedAtItsPlace ==
    ASSUME NEW S, GoodStore(S), NEW d \in Drafts, d.kind \in Kind,
           \A o \in S : ~SameObject(o, d), Reconciled(d)
    PROVE  LET T == S \cup {d} IN AtItsPlace(S, T, d.kind, d, Place(T, d.kind, d))
<1> DEFINE T == S \cup {d}
           k == d.kind
           m == Place(T, k, d)
           W == Watched(S, k)
           V == Watched(T, k)
           L == Listing(S, k)
           M == Listing(T, k)
<1>1. GoodStore(T) /\ V = W \cup {d}
  BY WithTheObject
<1>2. /\ Cardinality(V) \in Nat /\ M \in [1..Cardinality(V) -> V]
      /\ \A n \in DOMAIN M : Place(T, k, M[n]) = n
      /\ \A o \in V : Place(T, k, o) \in DOMAIN M /\ M[Place(T, k, o)] = o
  BY <1>1, ListingIs
<1>3. /\ Cardinality(W) \in Nat /\ L \in [1..Cardinality(W) -> W]
      /\ \A o \in W : Place(S, k, o) \in DOMAIN L /\ L[Place(S, k, o)] = o
  BY ListingIs
<1>4. W \subseteq Drafts /\ IsFiniteSet(W) /\ \A o \in W : Key(o) # Key(d)
  BY FS_Subset DEF Watched, GoodStore, SameObject
<1>5. d \notin W /\ Cardinality(V) = Cardinality(W) + 1
  <2>1. d \notin W
    BY <1>4
  <2> QED
    BY <1>1, <1>4, <2>1, FS_AddElement
<1>6. /\ m \in DOMAIN M /\ M[m] = d /\ m \in 1..(Cardinality(W) + 1)
      /\ DOMAIN M = 1..(Cardinality(W) + 1)
  BY <1>1, <1>2, <1>5
<1>7. ASSUME NEW i \in DOMAIN M, Key(M[i]) = Key(d) PROVE i = m
  <2>1. M[i] \in V
    BY <1>2
  <2>2. M[i] = d
    BY <1>1, <1>4, <1>7, <2>1
  <2> QED
    BY <1>2, <2>2
<1>8. ASSUME NEW i \in 1..(m - 1) PROVE i \in DOMAIN L /\ M[i] = L[i]
  <2> DEFINE x == M[i]
  <2>1. i \in DOMAIN M /\ x \in V /\ Place(T, k, x) = i /\ i < m
    <3>1. i \in DOMAIN M /\ i < m
      <4> HIDE DEF M, W
      <4> QED
        BY <1>3, <1>6
    <3> QED
      BY <1>2, <3>1
  <2>2. x # d
    BY <2>1, <1>6
  <2>3. x \in W
    BY <1>1, <2>1, <2>2
  <2>4. ~KeyBefore(Key(d), Key(x))
    <3> SUFFICES ASSUME KeyBefore(Key(d), Key(x)) PROVE FALSE
      OBVIOUS
    <3>1. d \in V /\ k \in Kind
      BY <1>1
    <3>2. m < i
      BY <1>1, <2>1, <3>1, PlacesGrow
    <3> QED
      BY <1>6, <2>1, <3>2
  <2>5. {p \in V : KeyBefore(Key(p), Key(x))} = {p \in W : KeyBefore(Key(p), Key(x))}
    BY <1>1, <2>4
  <2>6. Place(S, k, x) = i
    BY <2>1, <2>5 DEF Place
  <2> QED
    BY <1>3, <2>3, <2>6
<1> QED
  BY <1>6, <1>7, <1>8 DEF AtItsPlace
\* A listing is made of what is watched.
LEMMA SameListing ==
    ASSUME NEW S, NEW T, NEW k, Watched(S, k) = Watched(T, k)
    PROVE  Listing(S, k) = Listing(T, k)
<1> DEFINE place(W, o) == 1 + Cardinality({p \in W : KeyBefore(Key(p), Key(o))})
           list(W) == [n \in 1..Cardinality(W) |-> CHOOSE o \in W : place(W, o) = n]
<1>1. Listing(S, k) = list(Watched(S, k)) /\ Listing(T, k) = list(Watched(T, k))
  BY DEF Listing
<1> HIDE DEF list
<1> QED
  BY <1>1

\* An object in the place of another of its key: the list is the webhook's.
LEMMA ReplacedInPlace ==
    ASSUME NEW S, GoodStore(S), NEW d \in Drafts, d.kind \in Kind, Reconciled(d),
           NEW o \in S, SameObject(o, d)
    PROVE  LET T == (S \ {o}) \cup {d} IN
           GoodStore(T) /\ Listings(T) = Substitute(Listings(S), d)
<1> DEFINE T == (S \ {o}) \cup {d}
           k == d.kind
           W == Watched(S, k)
           V == Watched(T, k)
           L == Listing(S, k)
           M == Listing(T, k)
           N == Cardinality(W)
<1>1. GoodStore(T)
  <2>1. IsFiniteSet(S \ {o})
    BY FS_Subset DEF GoodStore
  <2>2. IsFiniteSet(T)
    BY <2>1, FS_AddElement
  <2>3. \A x, y \in T : SameObject(x, y) => x = y
    BY DEF GoodStore, SameObject
  <2> QED
    BY <2>2, <2>3 DEF GoodStore
<1>2. o \in Drafts /\ o.kind = k /\ Key(o) = Key(d) /\ o.ns = d.ns
  <2>1. o \in Drafts /\ o.ns # None /\ d.ns # None
    BY DraftsAssumption DEF GoodStore
  <2>2. Namespace(o) = Namespace(d)
    BY DEF SameObject, Key
  <2> QED
    BY <2>1, <2>2 DEF Namespace, SameObject
<1>3. o \in W /\ d \in V /\ V = (W \ {o}) \cup {d}
  BY <1>2 DEF Watched, Reconciled
<1>4. ASSUME NEW j \in Kind, j # k PROVE Listing(T, j) = Listing(S, j)
  <2>1. Watched(T, j) = Watched(S, j)
    BY <1>2, <1>4 DEF Watched
  <2> QED
    BY <2>1, SameListing
<1>5. d \in W => d = o
  BY DEF Watched, GoodStore, SameObject
<1>6. ASSUME NEW A, A \subseteq W, o \in A
      PROVE  Cardinality((A \ {o}) \cup {d}) = Cardinality(A)
  <2>1. IsFiniteSet(A)
    BY <1>6, FS_Subset DEF Watched, GoodStore
  <2>2. IsFiniteSet(A \ {o}) /\ Cardinality(A \ {o}) = Cardinality(A) - 1
    BY <1>6, <2>1, FS_RemoveElement
  <2>3. Cardinality(A) \in Nat /\ d \notin A \ {o}
    BY <1>5, <1>6, <2>1, FS_CardinalityType
  <2>4. Cardinality((A \ {o}) \cup {d}) = Cardinality(A \ {o}) + 1
    BY <2>2, <2>3, FS_AddElement
  <2> QED
    BY <2>2, <2>3, <2>4
<1>7. Cardinality(V) = N
  BY <1>3, <1>6
<1>8. /\ N \in Nat /\ L \in [1..N -> W]
      /\ \A n \in DOMAIN L : Place(S, k, L[n]) = n
      /\ \A x \in W : Place(S, k, x) \in DOMAIN L /\ L[Place(S, k, x)] = x
  BY ListingIs
<1>9. /\ M \in [1..N -> V]
      /\ \A x \in V : Place(T, k, x) \in DOMAIN M /\ M[Place(T, k, x)] = x
  BY <1>1, <1>7, ListingIs
<1>10. \A x \in W : Key(x) = Key(d) => x = o
  BY <1>2 DEF Watched, GoodStore, SameObject
<1>11. ASSUME NEW n \in 1..N
       PROVE  M[n] = IF Key(L[n]) = Key(d) THEN d ELSE L[n]
  <2> DEFINE x == L[n]
             y == IF Key(x) = Key(d) THEN d ELSE x
             A == {p \in W : KeyBefore(Key(p), Key(x))}
             B == {p \in V : KeyBefore(Key(p), Key(y))}
  <2>1. x \in W /\ Place(S, k, x) = n
    BY <1>8
  <2>2. y \in V /\ Key(y) = Key(x)
    BY <1>3, <1>10, <1>2, <2>1
  <2>3. Cardinality(B) = Cardinality(A)
    <3>1. CASE o \in A
      <4>1. B = (A \ {o}) \cup {d}
        BY <1>2, <1>3, <2>2, <3>1
      <4> QED
        BY <1>6, <3>1, <4>1
    <3>2. CASE o \notin A
      <4>1. B = A
        BY <1>2, <1>3, <2>2, <3>2
      <4> QED
        BY <4>1
    <3> QED
      BY <3>1, <3>2
  <2>4. Place(T, k, y) = n
    BY <2>1, <2>3 DEF Place
  <2> QED
    BY <1>9, <2>2, <2>4
<1> DEFINE q == Place(S, k, o)
           same == {i \in DOMAIN L : Key(L[i]) = Key(d)}
<1>12. q \in 1..N /\ L[q] = o /\ DOMAIN L = 1..N
  BY <1>3, <1>8
<1>13. same = {q}
  <2>1. ASSUME NEW i \in DOMAIN L, Key(L[i]) = Key(d) PROVE i = q
    <3>1. L[i] = o
      BY <1>8, <1>10, <2>1
    <3> QED
      BY <1>8, <2>1, <3>1
  <2>2. q \in DOMAIN L /\ Key(L[q]) = Key(d)
    BY <1>2, <1>12
  <2> QED
    BY <2>1, <2>2
<1>14. M = [L EXCEPT ![q] = d]
  <2> HIDE DEF L, M, N, q, W, V
  <2>1. \A n \in 1..N : (Key(L[n]) = Key(d)) <=> n = q
    BY <1>12, <1>13
  <2>2. \A n \in 1..N : M[n] = [L EXCEPT ![q] = d][n]
    BY <1>8, <1>11, <1>12, <2>1
  <2> QED
    BY <1>8, <1>9, <2>2
<1>15. Listings(S)[k] = L /\ (CHOOSE i \in same : \A j \in same : i <= j) = q
  <2>1. Listings(S)[k] = L
    BY DEF Listings
  <2>2. q <= q
    BY <1>12
  <2> HIDE DEF q, same
  <2> QED
    BY <1>13, <2>1, <2>2
<1>16. Substitute(Listings(S), d) = [Listings(S) EXCEPT ![k] = M]
  <2>1. Substitute(Listings(S), d) =
          [Listings(S) EXCEPT ![k] =
             [L EXCEPT ![CHOOSE i \in same : \A j \in same : i <= j] = d]]
    <3>1. same # {}
      BY <1>13
    <3> QED
      BY <1>15, <3>1 DEF Substitute
  <2> HIDE DEF q, same, L, M
  <2> QED
    BY <1>14, <1>15, <2>1
<1>17. Listings(T) = [Listings(S) EXCEPT ![k] = M]
  <2> HIDE DEF T, M
  <2>1. \A j \in Kind : Listings(T)[j] = [Listings(S) EXCEPT ![k] = M][j]
    BY <1>4 DEF Listings, M
  <2> QED
    BY <2>1 DEF Listings
<1> QED
  BY <1>1, <1>16, <1>17

\* A report says nothing of an object the operator does not list.
LEMMA UnlistedIsClean ==
    ASSUME NEW S, GoodStore(S), NEW d \in Drafts, d.kind \in Kind, ~Reconciled(d)
    PROVE  OwnErrors(Listings(S), d) = {}
<1> DEFINE in == Input(Listings(S))
<1>1. WatchNamespace # None /\ d.ns # WatchNamespace /\ d.ns # None
  BY DraftsAssumption DEF Reconciled, Watched
<1>2. \A k \in Kind : \A i \in DOMAIN Listing(S, k) : Key(Listing(S, k)[i]) # Key(d)
  <2> SUFFICES ASSUME NEW k \in Kind, NEW i \in DOMAIN Listing(S, k)
               PROVE  Key(Listing(S, k)[i]) # Key(d)
    OBVIOUS
  <2>1. Listing(S, k)[i] \in Watched(S, k)
    BY ListingIsGood, ElemsOf
  <2>2. Namespace(Listing(S, k)[i]) = WatchNamespace
    BY <1>1, <2>1 DEF Watched, Namespace
  <2> QED
    BY <1>1, <2>2 DEF Key, Namespace
<1>3. /\ in.tiers = Listing(S, "ModelTier") /\ in.data_classes = Listing(S, "DataClass")
      /\ in.policies = Listing(S, "RoutingPolicy") /\ in.profiles = Listing(S, "RouterProfile")
  BY DEF Input, Listings, Kind
<1>4. OwnErrors(Listings(S), d) = ErrorsOn(in, d)
  BY DEF OwnErrors, ErrorsOn
<1> HIDE DEF in
<1>5. /\ \A i \in DOMAIN in.tiers : Key(in.tiers[i]) # Key(d)
      /\ \A i \in DOMAIN in.data_classes : Key(in.data_classes[i]) # Key(d)
      /\ \A i \in DOMAIN in.policies : Key(in.policies[i]) # Key(d)
      /\ \A i \in DOMAIN in.profiles : Key(in.profiles[i]) # Key(d)
  BY <1>2, <1>3 DEF Kind
<1>6. ErrorsOn(in, d) = {}
  BY <1>5, ErrorsAtPlaces DEF Kind
<1> QED
  BY <1>4, <1>6

\* A new object that is clean at the end of the list is clean at its place.
LEMMA CleanAtItsPlace ==
    ASSUME NEW S, GoodStore(S), NEW d \in Drafts, \A o \in S : ~SameObject(o, d),
           Reconciled(d), OwnErrors(Substitute(Listings(S), d), d) = {}
    PROVE  OwnErrors(Listings(S \cup {d}), d) = {}
<1> DEFINE more == Substitute(Listings(S), d)
           T == S \cup {d}
           in == Input(Listings(T))
           jn == Input(more)
           k == d.kind
           M == Listing(T, k)
           m == Place(T, k, d)
<1>1. /\ k \in Kind
      /\ Longer(Listing(S, k), more[k], d)
      /\ \A j \in Kind : j # k => more[j] = Listing(S, j)
      /\ \A j \in Kind : ListOf(more[j], j)
  BY SubstitutedLast
<1>2. GoodStore(T) /\ \A j \in Kind : j # k => Watched(T, j) = Watched(S, j)
  BY WithTheObject
<1>3. \A j \in Kind : j # k => Listing(T, j) = more[j]
  <2> SUFFICES ASSUME NEW j \in Kind, j # k PROVE Listing(T, j) = more[j]
    OBVIOUS
  <2>1. Watched(T, j) = Watched(S, j)
    BY <1>2
  <2>2. Listing(T, j) = Listing(S, j)
    BY <2>1, SameListing
  <2>3. more[j] = Listing(S, j)
    BY <1>1
  <2> QED
    BY <2>2, <2>3
<1>4. /\ in.tiers = Listing(T, "ModelTier") /\ in.data_classes = Listing(T, "DataClass")
      /\ in.policies = Listing(T, "RoutingPolicy") /\ in.profiles = Listing(T, "RouterProfile")
      /\ jn.tiers = more["ModelTier"] /\ jn.data_classes = more["DataClass"]
      /\ jn.policies = more["RoutingPolicy"] /\ jn.profiles = more["RouterProfile"]
  BY DEF Input, Listings, Kind
<1>5. GoodInput(in)
  BY <1>2, ListingsAreGood
<1>6. GoodInput(jn)
  BY <1>1, <1>4 DEF GoodInput, Kind
<1>7. /\ OwnErrors(Listings(T), d) = ErrorsOn(in, d)
      /\ ErrorsOn(jn, d) = {}
  BY DEF OwnErrors, ErrorsOn
<1>8. PICK n \in Nat :
         /\ DOMAIN Listing(S, k) = 1..n /\ DOMAIN more[k] = 1..(n + 1)
         /\ \A i \in 1..n : more[k][i] = Listing(S, k)[i]
         /\ more[k][n + 1] = d
  BY <1>1 DEF Longer
<1>9. /\ m \in DOMAIN M /\ M[m] = d /\ m <= n + 1
      /\ \A i \in 1..(m - 1) : M[i] = more[k][i]
      /\ \A i \in DOMAIN M : Key(M[i]) = Key(d) => i = m
  <2>1. Cardinality(Watched(S, k)) = n
    <3>1. /\ DOMAIN Listing(S, k) = 1..Cardinality(Watched(S, k))
          /\ Cardinality(Watched(S, k)) \in Nat
      BY <1>1, ListingIs
    <3> QED
      BY <1>8, <3>1
  <2>2. /\ m \in 1..(n + 1) /\ m \in DOMAIN M /\ M[m] = d
        /\ \A i \in 1..(m - 1) : i \in DOMAIN Listing(S, k) /\ M[i] = Listing(S, k)[i]
        /\ \A i \in DOMAIN M : Key(M[i]) = Key(d) => i = m
    <3>1. AtItsPlace(S, T, k, d, m)
      BY <1>1, InsertedAtItsPlace
    <3> HIDE DEF m, M
    <3> QED
      BY <2>1, <3>1 DEF AtItsPlace, M
  <2> HIDE DEF m, M, k, more
  <2>3. \A i \in 1..(m - 1) : M[i] = more[k][i]
    BY <1>8, <2>2
  <2>4. m <= n + 1
    BY <2>2
  <2> QED
    BY <2>2, <2>3, <2>4
<1> DEFINE l == n + 1
<1>10. l \in DOMAIN more[k] /\ more[k][l] = d /\ m <= l /\ M[m] = more[k][l]
  BY <1>8, <1>9
<1> HIDE DEF more, in, jn, M, m, T, l
<1>11. CASE k = "RouterProfile"
  <2>1. in.profiles = M /\ jn.profiles = more[k]
    BY <1>4, <1>11 DEF M
  <2>2. FaultlessProfile(jn, l)
    BY <1>7, <1>10, <1>11, <2>1, ErrorsAtPlaces
  <2>3. FaultlessProfile(in, m)
    BY <1>5, <1>6, <1>9, <1>10, <2>1, <2>2, EarlierProfile
  <2> QED
    BY <1>7, <1>9, <1>11, <2>1, <2>3, ErrorsAtPlaces DEF T
<1>12. CASE k = "DataClass"
  <2>1. in.data_classes = M /\ jn.data_classes = more[k]
    BY <1>4, <1>12 DEF M
  <2>2. FaultlessClass(jn, l)
    BY <1>7, <1>10, <1>12, <2>1, ErrorsAtPlaces
  <2>3. FaultlessClass(in, m)
    BY <1>5, <1>6, <1>9, <1>10, <2>1, <2>2, EarlierClass
  <2> QED
    BY <1>7, <1>9, <1>12, <2>1, <2>3, ErrorsAtPlaces DEF T
<1>13. CASE k = "ModelTier"
  <2>1. /\ in.tiers = M /\ jn.tiers = more[k]
        /\ in.data_classes = jn.data_classes /\ in.profiles = jn.profiles
    BY <1>3, <1>4, <1>13 DEF M, Kind
  <2>2. l \in Tiers(jn)
    BY <1>7, <1>10, <1>13, <2>1, ErrorsAtPlaces
  <2>3. m \in Tiers(in)
    BY <1>5, <1>6, <1>9, <1>10, <2>1, <2>2, EarlierTier
  <2> QED
    BY <1>7, <1>9, <1>13, <2>1, <2>3, ErrorsAtPlaces DEF T
<1>14. CASE k = "RoutingPolicy"
  <2>1. /\ in.policies = M /\ jn.policies = more[k] /\ in.tiers = jn.tiers
        /\ in.data_classes = jn.data_classes /\ in.profiles = jn.profiles
    BY <1>3, <1>4, <1>14 DEF M, Kind
  <2>2. l \in Kept(jn)
    BY <1>7, <1>10, <1>14, <2>1, ErrorsAtPlaces
  <2>3. PolicyFaults(in, d) = {} /\ d.name # None
    BY <1>10, <2>1, <2>2, SamePolicyFaults, DraftsAssumption DEF Kept
  <2>4. \A j \in 1..(m - 1) : j \in DOMAIN M /\ j # m
    <3>1. PICK a \in Nat : DOMAIN M = 1..a
      BY <1>5, <2>1 DEF GoodInput, ListOf
    <3> QED
      BY <1>9, <3>1
  <2>5. m \in Kept(in)
    BY <1>9, <2>1, <2>3, <2>4 DEF Kept, Seen
  <2> QED
    BY <1>7, <1>9, <1>14, <2>1, <2>5, ErrorsAtPlaces DEF T
<1> QED
  BY <1>1, <1>11, <1>12, <1>13, <1>14 DEF Kind

\* A write that has been admitted was admitted on what it had listed, or on
\* nothing.
AdmittedInv ==
    /\ DOMAIN listed = Writers
    /\ \A w \in Writers :
          stage[w] = "admitted" => listed[w] = Unlisted \/ Admissible(w)

LEMMA InitAdmitted == Init => AdmittedInv
BY DEF Init, AdmittedInv

LEMMA StepAdmitted == TypeOK /\ AdmittedInv /\ [Next]_vars => AdmittedInv'
<1> SUFFICES ASSUME TypeOK, AdmittedInv, [Next]_vars PROVE AdmittedInv'
  OBVIOUS
<1>a. /\ stage \in [Writers -> {"idle", "list", "check", "admitted"}]
      /\ DOMAIN draft = Writers /\ DOMAIN listed = Writers
  BY DEF TypeOK, AdmittedInv
<1>1. ASSUME NEW w \in Writers, stage[w] = "admitted", stage'[w] = "admitted",
             listed'[w] = listed[w], draft'[w] = draft[w]
      PROVE  listed'[w] = Unlisted \/ Admissible(w)'
  BY <1>1 DEF AdmittedInv, Admissible
<1>2. ASSUME NEW v \in Writers,
             Submit(v) \/ ListKind(v) \/ ListFails(v) \/ Admit(v) \/ Deny(v) \/ Persist(v)
      PROVE  AdmittedInv'
  <2>1. DOMAIN listed' = Writers
    BY <1>2, <1>a DEF Submit, ListKind, ListFails, Admit, Deny, Persist, Idle
  <2>2. ASSUME NEW w \in Writers, w # v, stage'[w] = "admitted"
        PROVE  listed'[w] = Unlisted \/ Admissible(w)'
    <3>1. stage[w] = "admitted" /\ listed'[w] = listed[w] /\ draft'[w] = draft[w]
      BY <1>2, <1>a, <2>2 DEF Submit, ListKind, ListFails, Admit, Deny, Persist, Idle
    <3> QED
      BY <1>1, <2>2, <3>1
  <2>3. ASSUME stage'[v] = "admitted" PROVE listed'[v] = Unlisted \/ Admissible(v)'
    <3>1. ListFails(v) \/ Admit(v)
      BY <1>2, <1>a, <2>3 DEF Submit, ListKind, Deny, Persist, Idle
    <3>2. CASE ListFails(v)
      BY <1>a, <3>2 DEF ListFails
    <3>3. CASE Admit(v)
      BY <3>3 DEF Admit, Admissible
    <3> QED
      BY <3>1, <3>2, <3>3
  <2> QED
    BY <2>1, <2>2, <2>3 DEF AdmittedInv
<1>3. ASSUME stage' = stage, listed' = listed, draft' = draft PROVE AdmittedInv'
  BY <1>3 DEF AdmittedInv, Admissible
<1> QED
  BY <1>2, <1>3 DEF Next, Delete, vars

\* An object admitted into the cluster it was checked against has no error on
\* it there, whatever is wrong with the others.
THEOREM AdmittedAreClean == Spec => AdmittedIsClean
<1>1. ASSUME TypeOK, StoreInv, AdmittedInv, NEW w \in Writers, Persist(w), Fresh(w),
             draft[w] \in store'
      PROVE  OwnErrors(Listings(store'), draft[w]) = {}
  <2> DEFINE d == draft[w]
             old == {o \in store : SameObject(o, d)}
  <2>1. d \in Drafts /\ d.kind \in Kind
    <3>1. d \in Drafts
      BY <1>1 DEF TypeOK, Persist
    <3>2. d \in Resource
      BY <3>1, DraftsAssumption
    <3> QED
      BY <3>1, <3>2 DEF Resource, ModelTier, DataClass, RouterProfile, RoutingPolicy, Kind
  <2>2. OwnErrors(Substitute(Listings(store), d), d) = {}
    <3>1. listed[w] # Unlisted
      <4>1. Listings(store)["ModelTier"] # None
        BY <1>1, ListingIsGood DEF StoreInv, Listings, Kind
      <4>2. Unlisted["ModelTier"] = None
        BY DEF Unlisted, Kind
      <4> QED
        BY <1>1, <4>1, <4>2 DEF Fresh
    <3>2. Admissible(w)
      BY <1>1, <3>1 DEF AdmittedInv, Persist
    <3> QED
      BY <1>1, <3>2 DEF Admissible, Fresh
  <2>3. \/ old = {} /\ store' = store \cup {d}
        \/ \E o \in store : SameObject(o, d) /\ store' = (store \ {o}) \cup {d}
    <3>1. store' = store \/ store' = (store \ old) \cup {d}
      BY <1>1 DEF Persist
    <3>2. \A o \in old : old = {o}
      BY <1>1 DEF StoreInv, GoodStore, SameObject
    <3>3. CASE store' = store
      <4>1. d \in old /\ store = (store \ {d}) \cup {d}
        BY <1>1, <3>3 DEF SameObject
      <4> QED
        BY <3>3, <4>1
    <3>4. CASE store' = (store \ old) \cup {d}
      BY <3>2, <3>4
    <3> QED
      BY <3>1, <3>3, <3>4
  <2> HIDE DEF d
  <2>4. CASE old = {} /\ store' = store \cup {d}
    <3>1. \A o \in store : ~SameObject(o, d)
      BY <2>4
    <3>2. CASE Reconciled(d)
      BY <1>1, <2>1, <2>2, <2>4, <3>1, <3>2, CleanAtItsPlace DEF StoreInv, d
    <3>3. CASE ~Reconciled(d)
      <4>1. GoodStore(store \cup {d})
        BY <1>1, <2>1, <3>1, WithTheObject DEF StoreInv
      <4> QED
        BY <2>1, <2>4, <3>3, <4>1, UnlistedIsClean DEF d
    <3> QED
      BY <3>2, <3>3
  <2>5. ASSUME NEW o \in store, SameObject(o, d), store' = (store \ {o}) \cup {d}
        PROVE  OwnErrors(Listings(store'), d) = {}
    <3>1. CASE Reconciled(d)
      BY <1>1, <2>1, <2>2, <2>5, <3>1, ReplacedInPlace DEF StoreInv
    <3>2. CASE ~Reconciled(d)
      <4>1. GoodStore(store')
        BY <1>1, StepStore DEF Next, StoreInv
      <4> QED
        BY <2>1, <3>2, <4>1, UnlistedIsClean
    <3> QED
      BY <3>1, <3>2
  <2> QED
    BY <2>3, <2>4, <2>5 DEF d
<1>2. TypeOK /\ StoreInv /\ AdmittedInv /\ [Next]_vars =>
        [\A w \in Writers :
           Persist(w) /\ Fresh(w) /\ draft[w] \in store'
             => OwnErrors(Listings(store'), draft[w]) = {}]_vars
  BY <1>1
<1>3. Spec => []AdmittedInv
  BY InitTypes, StepTypes, InitAdmitted, StepAdmitted, PTL DEF Spec
<1> QED
  BY <1>2, <1>3, StoreInvariant, PTL DEF Spec, AdmittedIsClean
=============================================================================

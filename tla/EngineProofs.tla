---------------------------- MODULE EngineProofs ----------------------------
(***************************************************************************)
(* Proofs about the decision engine for every snapshot and request.        *)
(***************************************************************************)
EXTENDS Engine, TLAPS, FiniteSetTheorems, WellFoundedInduction

\* the snapshots and requests that meet in some family
Snapshots == UNION {f.snapshots : f \in Families}
Requests  == UNION {f.requests : f \in Families}

\* What the types of snapshots say of their numbers.
LEMMA SnapshotNumbers ==
    \A s \in Snapshots :
        /\ DOMAIN s.tiers \subseteq Nat
        /\ \A t \in DOMAIN s.tiers : NumericTier(s.tiers[t])
        /\ IsFiniteSet(DOMAIN s.policies) /\ DOMAIN s.policies \subseteq Nat
        /\ Len(s.policies) \in Nat /\ DOMAIN s.policies = 1..Len(s.policies)
        /\ None \notin DOMAIN s.policies
        /\ \A i \in DOMAIN s.policies : NumericPolicy(s.policies[i])
        /\ IsFiniteSet(DOMAIN s.classes) /\ DOMAIN s.classes \subseteq Nat
        /\ \A c \in DOMAIN s.classes : s.classes[c].rank \in Nat
<1> TAKE s \in Snapshots
<1>1. /\ DOMAIN s.tiers \subseteq Nat
      /\ \A t \in DOMAIN s.tiers : NumericTier(s.tiers[t])
      /\ Len(s.policies) \in Nat /\ DOMAIN s.policies = 1..Len(s.policies)
      /\ \A i \in DOMAIN s.policies : NumericPolicy(s.policies[i])
      /\ IsFiniteSet(DOMAIN s.classes) /\ DOMAIN s.classes \subseteq Nat
      /\ \A c \in DOMAIN s.classes : s.classes[c].rank \in Nat
  BY SnapshotAssumption DEF Snapshots
<1>2. IsFiniteSet(1..Len(s.policies))
  BY <1>1, FS_Interval
<1>3. DOMAIN s.policies \subseteq Nat /\ None \notin DOMAIN s.policies
  BY <1>1, ReasonAssumption
<1> QED
  BY <1>1, <1>2, <1>3

\* What the types of requests say of theirs.
LEMMA RequestNumbers ==
    \A r \in Requests :
        /\ NumericRequest(r)
        /\ DOMAIN r = {"tenant", "agent", "path", "model", "tools", "input", "output",
                       "classHints", "policyHint", "prediction", "findings"}
        /\ DOMAIN r.findings = {"task", "complexity", "risk", "pii", "label", "degraded"}
        /\ Len(r.classHints) \in Nat /\ DOMAIN r.classHints = 1..Len(r.classHints)
BY RequestAssumption DEF Requests

-----------------------------------------------------------------------------
(* Order facts. *)

\* A nonempty finite set has a member of the least key: were there a finite
\* set without one, a smallest such set could not be extended by an element.
LEMMA LeastExists ==
    ASSUME NEW S, IsFiniteSet(S), S # {},
           NEW key, \A x \in S : key[x] \in Int
    PROVE  \E x \in S : \A y \in S : key[x] <= key[y]
<1> DEFINE Ok(T) == \E x \in T : \A y \in T : key[x] <= key[y]
           Bad == {T \in FiniteSubsetsOf(S) : T # {} /\ ~Ok(T)}
<1>1. SUFFICES ASSUME ~Ok(S) PROVE FALSE
  OBVIOUS
<1>2. S \in Bad
  BY <1>1 DEF FiniteSubsetsOf
<1>3. PICK T \in Bad : \A U \in Bad : <<U, T>> \notin StrictSubsetOrdering(S)
  <2> HIDE DEF Bad
  <2>1. Bad \subseteq FiniteSubsetsOf(S) /\ Bad # {}
    BY <1>2 DEF Bad
  <2> QED
    BY <2>1, FS_StrictSubsetOrderingWellFounded, WFMin
<1>4. PICK a \in T : TRUE
  BY <1>3
<1>5. T \ {a} \in FiniteSubsetsOf(S)
  BY <1>3, FS_Subset DEF FiniteSubsetsOf
<1>6. <<T \ {a}, T>> \in StrictSubsetOrdering(S)
  BY <1>3, <1>4 DEF StrictSubsetOrdering, FiniteSubsetsOf
<1>7. T \ {a} \notin Bad
  BY <1>3, <1>6
<1>8. CASE T = {a}
  BY <1>3, <1>8 DEF FiniteSubsetsOf
<1>9. CASE T \ {a} # {}
  <2>1. PICK b \in T \ {a} : \A y \in T \ {a} : key[b] <= key[y]
    BY <1>5, <1>7, <1>9
  <2>2. \A x \in T : key[x] \in Int
    BY <1>3 DEF FiniteSubsetsOf
  <2>3. CASE key[a] <= key[b]
    <3>1. \A y \in T : key[a] <= key[y]
      BY <1>4, <2>1, <2>2, <2>3
    <3> QED
      BY <1>3, <1>4, <3>1
  <2>4. CASE key[b] <= key[a]
    <3>1. \A y \in T : key[b] <= key[y]
      BY <1>4, <2>1, <2>2, <2>4
    <3> QED
      BY <1>3, <2>1, <3>1
  <2> QED
    BY <1>4, <2>1, <2>2, <2>3, <2>4
<1> QED
  BY <1>4, <1>8, <1>9

\* The same for the greatest key.
LEMMA GreatestExists ==
    ASSUME NEW S, IsFiniteSet(S), S # {},
           NEW key, \A x \in S : key[x] \in Int
    PROVE  \E x \in S : \A y \in S : key[y] <= key[x]
<1> DEFINE minus == [x \in S |-> 0 - key[x]]
<1>1. \A x \in S : minus[x] \in Int /\ minus[x] = 0 - key[x]
  OBVIOUS
<1> HIDE DEF minus
<1>2. PICK x \in S : \A y \in S : minus[x] <= minus[y]
  BY <1>1, LeastExists
<1>3. \A y \in S : key[y] <= key[x]
  BY <1>1, <1>2
<1> QED
  BY <1>3

\* What the sorting passes keep is nonempty, and part of what they sort.
LEMMA LeastKeeps ==
    ASSUME NEW S, IsFiniteSet(S), S # {},
           NEW key, \A x \in S : key[x] \in Int
    PROVE  /\ Least(S, key) # {}
           /\ Least(S, key) \subseteq S
           /\ IsFiniteSet(Least(S, key))
<1>1. Least(S, key) \subseteq S
  BY DEF Least
<1>2. Least(S, key) # {}
  BY LeastExists DEF Least
<1> QED
  BY <1>1, <1>2, FS_Subset

\* The ends of a range of integer keys are integers.
LEMMA ExtremesAreInt ==
    ASSUME NEW S, IsFiniteSet(S), S # {},
           NEW key, \A x \in S : key[x] \in Int
    PROVE  Lowest(S, key) \in Int /\ Highest(S, key) \in Int
BY LeastExists, GreatestExists DEF Lowest, Highest

\* First finds the least of a nonempty finite set of integers.
LEMMA FirstExists ==
    ASSUME NEW I \in SUBSET Int, IsFiniteSet(I), I # {}
    PROVE  /\ First(I) \in I
           /\ \A j \in I : First(I) <= j
<1> DEFINE key == [i \in I |-> i]
<1>1. \A x \in I : key[x] \in Int
  OBVIOUS
<1>2. PICK i \in I : \A j \in I : key[i] <= key[j]
  <2> HIDE DEF key
  <2> QED  BY <1>1, LeastExists
<1>3. \A j \in I : i <= j
  BY <1>2
<1> QED
  BY <1>3 DEF First

-----------------------------------------------------------------------------
(* Constraints. *)

\* When no check of a list is named as failing, none of them fails.
LEMMA NoFailure ==
    ASSUME NEW n \in Nat, NEW checks,
           DOMAIN checks = 1..n,
           \A k \in 1..n : checks[k].by \in Reason,
           FirstFailure(checks) = None
    PROVE  \A k \in 1..n : ~checks[k].fails
<1> DEFINE failing == {k \in 1..n : checks[k].fails}
<1>1. SUFFICES ASSUME failing # {} PROVE FALSE
  OBVIOUS
<1>2. IsFiniteSet(failing)
  <2>1. IsFiniteSet(1..n)
    BY FS_Interval
  <2> QED  BY <2>1, FS_Subset
<1>3. First(failing) \in failing
  <2>1. failing \in SUBSET Int
    OBVIOUS
  <2> HIDE DEF failing
  <2> QED  BY <1>1, <1>2, <2>1, FirstExists
<1>4. FirstFailure(checks) = checks[First(failing)].by
  BY <1>1 DEF FirstFailure
<1> QED
  BY <1>3, <1>4, ReasonAssumption

\* A tier with no data class violation satisfies the class as documented.
LEMMA ClassOk ==
    ASSUME NEW s, NEW t, NEW c,
           DataClassViolation(s.tiers[t], s.classes[c], c) = None
    PROVE  Fits(s, c, t)
<1> DEFINE tier  == s.tiers[t]
           class == s.classes[c]
           checks == <<
    Fails(c \notin tier.allowedDataClasses, "allowedDataClasses"),
    Fails(/\ class.requireJurisdiction # {}
          /\ tier.jurisdiction \notin class.requireJurisdiction, "requireJurisdiction"),
    Fails(class.forbidCloudActExposed /\ tier.cloudActExposed, "forbidCloudActExposed"),
    Fails(/\ class.requireOperatorControl # {}
          /\ tier.operatorControl \notin class.requireOperatorControl,
          "requireOperatorControl"),
    Fails(tier.capabilities \cap class.forbidCapabilities # {}, "forbidCapabilities") >>
<1>1. FirstFailure(checks) = None
  BY DEF DataClassViolation
<1>2. DOMAIN checks = 1..5 /\ \A k \in 1..5 : checks[k].by \in Reason
  BY DEF Fails, Reason
<1>3. \A k \in 1..5 : ~checks[k].fails
  <2> HIDE DEF checks
  <2> QED  BY <1>1, <1>2, NoFailure
<1>4. ~checks[1].fails /\ ~checks[2].fails /\ ~checks[3].fails
      /\ ~checks[4].fails /\ ~checks[5].fails
  <2> HIDE DEF checks
  <2> QED  BY <1>3
<1>5. /\ c \in tier.allowedDataClasses
      /\ class.requireJurisdiction = {} \/ tier.jurisdiction \in class.requireJurisdiction
      /\ ~(class.forbidCloudActExposed /\ tier.cloudActExposed)
      /\ \/ class.requireOperatorControl = {}
         \/ tier.operatorControl \in class.requireOperatorControl
      /\ tier.capabilities \cap class.forbidCapabilities = {}
  BY <1>4 DEF Fails
<1> QED
  BY <1>5 DEF Fits

\* what a tier that passes the request facts is known to satisfy
MeetsFacts(s, p, r, dc, t) ==
    /\ (p.respectDataClass /\ dc # None) => Fits(s, dc, t)
    /\ p.requireCapabilities \subseteq s.tiers[t].capabilities
    /\ r.tools => "tools" \in s.tiers[t].capabilities /\ s.tiers[t].toolCallingAllowed
    /\ Capped(r.input + r.output) <= s.tiers[t].contextWindow
    /\ r.findings.risk # None => r.findings.risk <= s.tiers[t].maxRiskScore

\* A tier with no violation of the request facts meets them all.
LEMMA FactsOk ==
    ASSUME NEW s \in Snapshots, NEW r, NumericRequest(r), NEW p, NEW dc,
           NEW t \in DOMAIN s.tiers,
           FactViolation(s, p, r, dc, s.tiers[t]) = None
    PROVE  MeetsFacts(s, p, r, dc, t)
<1> DEFINE tier == s.tiers[t]
           ofClass == IF p.respectDataClass /\ dc # None
                      THEN DataClassViolation(tier, s.classes[dc], dc) ELSE None
           checks == <<
            Fails(~(p.requireCapabilities \subseteq tier.capabilities), "requireCapabilities"),
            Fails(r.tools /\ "tools" \notin tier.capabilities, "tools"),
            Fails(tier.contextWindow < Capped(r.input + r.output), "contextWindow"),
            Fails(/\ r.findings.risk # None
                  /\ r.findings.risk > tier.maxRiskScore, "maxRiskScore"),
            Fails(ToolsForbidden(tier, r), "toolCallingAllowed") >>
<1>1. ofClass = None /\ FirstFailure(checks) = None
  BY DEF FactViolation
<1>2. (p.respectDataClass /\ dc # None) => Fits(s, dc, t)
  BY <1>1, ClassOk
<1>3. DOMAIN checks = 1..5 /\ \A k \in 1..5 : checks[k].by \in Reason
  BY DEF Fails, Reason
<1>4. \A k \in 1..5 : ~checks[k].fails
  <2> HIDE DEF checks
  <2> QED  BY <1>1, <1>3, NoFailure
<1>5. ~checks[1].fails /\ ~checks[2].fails /\ ~checks[3].fails
      /\ ~checks[4].fails /\ ~checks[5].fails
  <2> HIDE DEF checks
  <2> QED  BY <1>4
<1>6. /\ p.requireCapabilities \subseteq tier.capabilities
      /\ ~(r.tools /\ "tools" \notin tier.capabilities)
      /\ ~(tier.contextWindow < Capped(r.input + r.output))
      /\ ~(r.findings.risk # None /\ r.findings.risk > tier.maxRiskScore)
      /\ ~(r.tools /\ ~tier.toolCallingAllowed)
  BY <1>5 DEF Fails, ToolsForbidden
<1>7. /\ tier.contextWindow \in Int /\ tier.maxRiskScore \in Int
      /\ Capped(r.input + r.output) \in Int
      /\ r.findings.risk # None => r.findings.risk \in Int
  BY SnapshotNumbers, WidthAssumption DEF NumericTier, NumericRequest, Capped
<1> QED
  BY <1>2, <1>6, <1>7 DEF MeetsFacts

\* A tier with no hard violation meets the facts and the cost cap.
LEMMA HardOk ==
    ASSUME NEW s \in Snapshots, NEW r, NumericRequest(r), NEW p, NEW dc,
           NEW t \in DOMAIN s.tiers,
           HardViolation(s, p, r, dc, s.tiers[t]) = None
    PROVE  MeetsFacts(s, p, r, dc, t) /\ ~OverCap(p, r, s.tiers[t])
<1>1. FactViolation(s, p, r, dc, s.tiers[t]) = None
  BY DEF HardViolation
<1>2. ~OverCap(p, r, s.tiers[t])
  BY <1>1, ReasonAssumption DEF HardViolation, Reason
<1> QED
  BY <1>1, <1>2, FactsOk

-----------------------------------------------------------------------------
(* Selection and scoring. *)

\* The selected policy is one of the snapshot's, and matches the request.
LEMMA SelectedMatches ==
    ASSUME NEW s \in Snapshots, NEW r, SelectPolicy(s, r) # None
    PROVE  SelectPolicy(s, r) \in Matching(s, r)
<1>1. /\ Matching(s, r) \in SUBSET Int /\ IsFiniteSet(Matching(s, r))
      /\ Hinted(s, r) \in SUBSET Int /\ IsFiniteSet(Hinted(s, r))
      /\ Hinted(s, r) \subseteq Matching(s, r)
  <2>1. /\ Matching(s, r) \subseteq DOMAIN s.policies
        /\ Hinted(s, r) \subseteq Matching(s, r)
    BY DEF Matching, Hinted
  <2> QED  BY <2>1, SnapshotNumbers, FS_Subset
<1>2. CASE HintHonoured(s, r)
  <2>1. First(Hinted(s, r)) \in Hinted(s, r)
    BY <1>1, <1>2, FirstExists DEF HintHonoured
  <2> QED  BY <1>1, <1>2, <2>1 DEF SelectPolicy
<1>3. CASE ~HintHonoured(s, r)
  BY <1>1, <1>3, FirstExists DEF SelectPolicy
<1> QED
  BY <1>2, <1>3

\* An estimated cost is a natural number within the width of the counter.
LEMMA CostIsNat ==
    ASSUME NEW s \in Snapshots, NEW r, NumericRequest(r), NEW t \in DOMAIN s.tiers
    PROVE  EstimateCost(s.tiers[t], r) \in Int
<1>1. /\ r.input \in Nat /\ r.output \in Nat
      /\ s.tiers[t].inputPrice \in Nat /\ s.tiers[t].outputPrice \in Nat
  BY SnapshotNumbers DEF NumericTier, NumericRequest
<1> DEFINE total == r.input * s.tiers[t].inputPrice + r.output * s.tiers[t].outputPrice
<1>2. total \in Int
  BY <1>1
<1>3. CeilDiv(total, PerMillion) \in Int
  <2> HIDE DEF total
  <2> QED  BY <1>2, WidthAssumption DEF CeilDiv
<1> QED
  BY <1>3, WidthAssumption DEF EstimateCost, Capped

\* A predicted quality is a number, wherever it comes from.
LEMMA QualityIsInt ==
    ASSUME NEW s \in Snapshots, NEW r, NumericRequest(r), NEW p, NEW t \in DOMAIN s.tiers
    PROVE  PredictedQuality(p, r, t, s.tiers[t]) \in Int
BY SnapshotNumbers DEF NumericTier, NumericRequest, PredictedQuality

\* The quality floor never empties the set of survivors.
LEMMA FloorKeeps ==
    ASSUME NEW p, NEW S, IsFiniteSet(S), S # {},
           NEW quality, \A t \in S : quality[t] \in Int
    PROVE  AboveFloor(p, S, quality) # {} /\ AboveFloor(p, S, quality) \subseteq S
BY GreatestExists DEF AboveFloor

\* A width is a number, so that a score is one.
LEMMA ScoreIsInt ==
    ASSUME NEW p, NumericPolicy(p), NEW S, IsFiniteSet(S), S # {},
           NEW cost, NEW quality, NEW latency,
           \A t \in S : cost[t] \in Int /\ quality[t] \in Int /\ latency[t] \in Int
    PROVE  \A t \in S : Scores(p, S, cost, quality, latency)[t] \in Int
<1> DEFINE w == p.weights
           c == Width(S, cost)
           q == Width(S, quality)
           l == Width(S, latency)
           total == (w.cost + w.quality + w.latency) * c * q * l
           exact(t) ==
               w.cost      * (c - (cost[t] - Lowest(S, cost))) * q * l
               + w.quality * (quality[t] - Lowest(S, quality)) * c * l
               + w.latency * (l - (latency[t] - Lowest(S, latency))) * c * q
<1>1. /\ Lowest(S, cost) \in Int /\ Highest(S, cost) \in Int
      /\ Lowest(S, quality) \in Int /\ Highest(S, quality) \in Int
      /\ Lowest(S, latency) \in Int /\ Highest(S, latency) \in Int
  BY ExtremesAreInt
<1>2. c \in Int /\ c > 0 /\ q \in Int /\ q > 0 /\ l \in Int /\ l > 0
  BY <1>1 DEF Width
<1>3. /\ w.cost \in Nat /\ w.quality \in Nat /\ w.latency \in Nat
      /\ w.cost + w.quality + w.latency > 0
  BY DEF NumericPolicy
<1> SUFFICES ASSUME NEW t \in S
             PROVE  Scores(p, S, cost, quality, latency)[t] \in Int
  OBVIOUS
<1>4. total \in Int /\ total > 0
  <2>1. \A a, b \in Int : a > 0 /\ b > 0 => a * b \in Int /\ a * b > 0
    OBVIOUS
  <2> DEFINE sum == w.cost + w.quality + w.latency
  <2>2. sum \in Int /\ sum > 0
    BY <1>3
  <2> HIDE DEF c, q, l, w, sum
  <2>3. sum * c \in Int /\ sum * c > 0
    BY <1>2, <2>1, <2>2
  <2>4. sum * c * q \in Int /\ sum * c * q > 0
    BY <1>2, <2>1, <2>3
  <2>5. sum * c * q * l \in Int /\ sum * c * q * l > 0
    BY <1>2, <2>1, <2>4
  <2> QED  BY <2>5 DEF sum
<1>5. (2 * Grain * exact(t) + total) \div (2 * total) \in Int
  <2>1. exact(t) \in Int
    <3> HIDE DEF c, q, l, w
    <3> QED  BY <1>1, <1>2, <1>3
  <2> HIDE DEF total, exact
  <2> QED  BY <1>4, <2>1, WidthAssumption
<1>6. Scores(p, S, cost, quality, latency)[t]
         = (2 * Grain * exact(t) + total) \div (2 * total)
  BY DEF Scores
<1> QED
  BY <1>5, <1>6

\* Sorting picks one of the scored candidates.
LEMMA BestIsScored ==
    ASSUME NEW S, IsFiniteSet(S), S # {}, S \subseteq Int, NEW score, NEW cost,
           \A t \in S : score[t] \in Int /\ cost[t] \in Int
    PROVE  BestOf(S, score, cost) \in S
<1> DEFINE key == [t \in S |-> 0 - score[t]]
           top == Least(S, key)
           cheap == Least(top, cost)
<1>1. \A t \in S : key[t] \in Int
  OBVIOUS
<1>2. top # {} /\ top \subseteq S /\ IsFiniteSet(top)
  <2> HIDE DEF key
  <2> QED  BY <1>1, LeastKeeps
<1>3. cheap # {} /\ cheap \subseteq top /\ IsFiniteSet(cheap)
  <2> HIDE DEF top
  <2> QED  BY <1>2, LeastKeeps
<1>4. First(cheap) \in cheap
  <2> HIDE DEF cheap
  <2> QED  BY <1>2, <1>3, FirstExists
<1> QED
  BY <1>2, <1>3, <1>4 DEF BestOf

-----------------------------------------------------------------------------
(* The three ways a decision about a routed request is reached. *)

\* d is a decision about to be completed under policy i
Opened(d, s, r, i) ==
    /\ d.policy = i
    /\ d.fallback = FALSE
    /\ DOMAIN d = DOMAIN Blank(s, r)

\* A fallback that routes is lawful: it met the request facts, and the cost
\* cap too unless the decision is marked degraded.
LEMMA FallbackIsLawful ==
    ASSUME NEW s \in Snapshots, NEW r \in Requests, NEW i \in DOMAIN s.policies,
           NEW d, Opened(d, s, r, i),
           NEW classified \in {"degraded", "fully"},
           classified = "degraded" => d.degraded # {},
           NEW e, e = FallbackOrBlock(d, s, s.policies[i], r, classified)
    PROVE  /\ e.outcome \in {"ROUTE", "BLOCK"} /\ e.policy = i
           /\ e.outcome = "ROUTE" => Lawful(s, r, e)
<1> DEFINE p == s.policies[i]
           f == p.fallbackTier
           why == IF classified = "degraded" THEN FactViolation(s, p, r, d.dataClass, s.tiers[f])
                  ELSE HardViolation(s, p, r, d.dataClass, s.tiers[f])
<1>1. CASE f = None \/ f \notin DOMAIN s.tiers
  BY <1>1 DEF FallbackOrBlock, Blank, Opened
<1>2. CASE f # None /\ f \in DOMAIN s.tiers /\ why # None
  BY <1>2 DEF FallbackOrBlock, Blank, Opened
<1>3. CASE f # None /\ f \in DOMAIN s.tiers /\ why = None
  <2>1. /\ e.outcome = "ROUTE" /\ e.selected = f /\ e.fallback = TRUE
        /\ e.policy = i /\ e.dataClass = d.dataClass /\ e.degraded = d.degraded
    BY <1>3 DEF FallbackOrBlock, Blank, Opened
  <2>2. MeetsFacts(s, p, r, d.dataClass, f) /\ (d.degraded = {} => ~OverCap(p, r, s.tiers[f]))
    <3>1. CASE classified = "degraded"
      BY <1>3, <3>1, FactsOk, RequestNumbers
    <3>2. CASE classified # "degraded"
      BY <1>3, <3>2, HardOk, RequestNumbers
    <3> QED  BY <3>1, <3>2
  <2> QED
    BY <1>3, <2>1, <2>2 DEF Lawful, MeetsFacts
<1> QED
  BY <1>1, <1>2, <1>3

\* what score_and_select computes of the survivors S, by name
CostsOf(s, r, S)        == [t \in S |-> EstimateCost(s.tiers[t], r)]
QualitiesOf(s, p, r, S) == [t \in S |-> PredictedQuality(p, r, t, s.tiers[t])]
KeptOf(s, p, r, S)      == AboveFloor(p, S, QualitiesOf(s, p, r, S))
ScoresOf(s, p, r, S)    == Scores(p, KeptOf(s, p, r, S), CostsOf(s, r, S),
                                  QualitiesOf(s, p, r, S),
                                  [t \in KeptOf(s, p, r, S) |-> s.tiers[t].latency])
ChoiceOf(s, p, r, S)    == BestOf(KeptOf(s, p, r, S), ScoresOf(s, p, r, S), CostsOf(s, r, S))

\* Every survivor has a cost, every one kept a score, and one of them is chosen.
LEMMA ScoringIsSound ==
    ASSUME NEW s \in Snapshots, NEW r \in Requests, NEW p, NumericPolicy(p),
           NEW S, S \subseteq Known(s, p), S # {}
    PROVE  /\ \A t \in S : CostsOf(s, r, S)[t] \in Int
           /\ KeptOf(s, p, r, S) \subseteq S /\ IsFiniteSet(KeptOf(s, p, r, S))
           /\ \A t \in KeptOf(s, p, r, S) : ScoresOf(s, p, r, S)[t] \in Int
           /\ ChoiceOf(s, p, r, S) \in KeptOf(s, p, r, S)
<1> DEFINE cost    == CostsOf(s, r, S)
           quality == QualitiesOf(s, p, r, S)
           kept    == KeptOf(s, p, r, S)
           latency == [t \in kept |-> s.tiers[t].latency]
           score   == ScoresOf(s, p, r, S)
<1>1. S \subseteq DOMAIN s.tiers /\ S \subseteq Int /\ IsFiniteSet(S)
  <2>1. S \subseteq DOMAIN s.tiers /\ S \subseteq p.candidates
    BY DEF Known
  <2>2. IsFiniteSet(p.candidates) /\ DOMAIN s.tiers \subseteq Nat
    BY SnapshotNumbers DEF NumericPolicy
  <2> QED  BY <2>1, <2>2, FS_Subset
<1>2. \A t \in S : cost[t] \in Int /\ quality[t] \in Int
  BY <1>1, CostIsNat, QualityIsInt, RequestNumbers DEF CostsOf, QualitiesOf
<1>3. kept # {} /\ kept \subseteq S /\ IsFiniteSet(kept)
  <2>1. kept # {} /\ kept \subseteq S
    <3> HIDE DEF quality
    <3> QED  BY <1>1, <1>2, FloorKeeps DEF KeptOf, quality
  <2> QED  BY <1>1, <2>1, FS_Subset
<1>4. \A t \in kept : cost[t] \in Int /\ quality[t] \in Int /\ latency[t] \in Int
  <2>1. \A t \in kept : latency[t] \in Int
    <3> HIDE DEF kept
    <3> QED  BY <1>1, <1>3, SnapshotNumbers DEF NumericTier
  <2> QED  BY <1>2, <1>3, <2>1
<1>5. \A t \in kept : score[t] \in Int
  <2>1. score = Scores(p, kept, cost, quality, latency)
    BY DEF ScoresOf
  <2> HIDE DEF cost, quality, kept, latency, score
  <2> QED  BY <1>1, <1>3, <1>4, <2>1, ScoreIsInt
<1>6. BestOf(kept, score, cost) \in kept
  <2> HIDE DEF cost, quality, kept, latency, score
  <2> QED  BY <1>1, <1>3, <1>4, <1>5, BestIsScored
<1> QED
  BY <1>2, <1>3, <1>5, <1>6 DEF ChoiceOf

\* the fates score_and_select writes down
FatesOf(d, s, p, r, S) ==
    [t \in Known(s, p) |->
        IF t \in KeptOf(s, p, r, S)
        THEN Fate(None, CostsOf(s, r, S)[t], ScoresOf(s, p, r, S)[t])
        ELSE IF t \in S THEN Fate("qualityFloor", CostsOf(s, r, S)[t], None)
        ELSE d.candidates[t]]

\* What score_and_select makes of a decision.
LEMMA ScoredIs ==
    ASSUME NEW s, NEW p, NEW r, NEW S, NEW d,
           DOMAIN d = {"outcome", "policy", "dataClass", "selected", "candidates", "cost",
                       "savings", "reasoning", "fallback", "degraded", "notes"},
           NEW e, e = ScoreAndSelect(d, s, p, r, S)
    PROVE  /\ e.outcome = "ROUTE" /\ e.selected = ChoiceOf(s, p, r, S)
           /\ e.fallback = d.fallback /\ e.policy = d.policy /\ e.dataClass = d.dataClass
           /\ e.cost = CostsOf(s, r, S)[ChoiceOf(s, p, r, S)]
           /\ e.savings = Savings(CostsOf(s, r, S), KeptOf(s, p, r, S), ChoiceOf(s, p, r, S))
           /\ e.candidates = FatesOf(d, s, p, r, S)
<1> DEFINE cost    == CostsOf(s, r, S)
           kept    == KeptOf(s, p, r, S)
           best    == ChoiceOf(s, p, r, S)
           savings == Savings(cost, kept, best)
           effort  == Reasoning(p, r)
           fates   == FatesOf(d, s, p, r, S)
<1>1. e = [d EXCEPT !.outcome = "ROUTE", !.selected = best, !.cost = cost[best],
                    !.savings = savings, !.reasoning = effort, !.candidates = fates]
  BY DEF ScoreAndSelect, CostsOf, QualitiesOf, KeptOf, ScoresOf, ChoiceOf, FatesOf
<1> HIDE DEF cost, kept, best, savings, effort, fates
<1>2. /\ e.outcome = "ROUTE" /\ e.selected = best /\ e.cost = cost[best]
      /\ e.savings = savings /\ e.candidates = fates
      /\ e.fallback = d.fallback /\ e.policy = d.policy /\ e.dataClass = d.dataClass
  BY <1>1
<1> QED
  BY <1>2 DEF cost, kept, best, savings, fates

\* A scored choice is a survivor, so it is lawful.
LEMMA ScoredIsLawful ==
    ASSUME NEW s \in Snapshots, NEW r \in Requests, NEW i \in DOMAIN s.policies,
           NEW d, Opened(d, s, r, i),
           Survivors(s, s.policies[i], r, d.dataClass) # {},
           NEW e, e = ScoreAndSelect(d, s, s.policies[i], r,
                                     Survivors(s, s.policies[i], r, d.dataClass))
    PROVE  e.outcome = "ROUTE" /\ e.policy = i /\ Lawful(s, r, e)
<1> DEFINE p    == s.policies[i]
           S    == Survivors(s, p, r, d.dataClass)
           best == ChoiceOf(s, p, r, S)
<1>1. S \subseteq Known(s, p) /\ S # {} /\ NumericPolicy(p)
  BY SnapshotNumbers DEF Survivors
<1>2. best \in S
  <2> HIDE DEF p, S
  <2> QED  BY <1>1, ScoringIsSound
<1>3. /\ e.outcome = "ROUTE" /\ e.selected = best /\ e.fallback = FALSE
      /\ e.policy = i /\ e.dataClass = d.dataClass
  <2>1. /\ DOMAIN d = {"outcome", "policy", "dataClass", "selected", "candidates", "cost",
                       "savings", "reasoning", "fallback", "degraded", "notes"}
        /\ d.policy = i /\ d.fallback = FALSE
    BY DEF Blank, Opened
  <2>2. e = ScoreAndSelect(d, s, p, r, S)
    OBVIOUS
  <2> HIDE DEF p, S
  <2> QED  BY <2>1, <2>2, ScoredIs
<1>4. /\ best \in DOMAIN s.tiers /\ best \in p.candidates
      /\ HardViolation(s, p, r, d.dataClass, s.tiers[best]) = None
  <2> HIDE DEF best
  <2> QED  BY <1>2 DEF Survivors, Known
<1>5. MeetsFacts(s, p, r, d.dataClass, best) /\ ~OverCap(p, r, s.tiers[best])
  <2> HIDE DEF best
  <2> QED  BY <1>4, HardOk, RequestNumbers
<1> HIDE DEF best
<1> QED
  BY <1>3, <1>4, <1>5 DEF Lawful, MeetsFacts

\* Whatever stage ends the judgement of a routed request, it ends in a route
\* or a block; a route is lawful, and a denied risk always blocks.
LEMMA JudgeIsLawful ==
    ASSUME NEW s \in Snapshots, NEW r \in Requests, NEW i \in DOMAIN s.policies,
           NEW d, Opened(d, s, r, i),
           NEW e, e = Judge(d, s, s.policies[i], r)
    PROVE  /\ e.outcome \in {"ROUTE", "BLOCK"} /\ e.policy = i
           /\ e.outcome = "ROUTE" => Lawful(s, r, e)
           /\ RiskDenied(s.policies[i], r) => e.outcome = "BLOCK"
<1> DEFINE p == s.policies[i]
           S == Survivors(s, p, r, d.dataClass)
           missing == Degraded(s, p, r)
           degraded == [d EXCEPT !.degraded = missing]
           fates == [t \in Known(s, p) \ S |->
                        Fate(HardViolation(s, p, r, d.dataClass, s.tiers[t]), None, None)]
           eliminated == [d EXCEPT !.candidates = fates]
<1>1. /\ DOMAIN d = {"outcome", "policy", "dataClass", "selected", "candidates", "cost",
                     "savings", "reasoning", "fallback", "degraded", "notes"}
      /\ d.policy = i /\ d.fallback = FALSE
  BY DEF Blank, Opened
<1>2. e = IF RiskDenied(p, r) THEN BlockRisky(d, p)
          ELSE IF missing # {} THEN FallbackOrBlock(degraded, s, p, r, "degraded")
          ELSE IF S = {} THEN FallbackOrBlock(eliminated, s, p, r, "fully")
          ELSE ScoreAndSelect(eliminated, s, p, r, S)
  BY DEF Judge
<1>3. Opened(degraded, s, r, i) /\ degraded.degraded = missing
  <2> HIDE DEF missing
  <2> QED  BY <1>1 DEF Opened
<1>4. Opened(eliminated, s, r, i) /\ eliminated.dataClass = d.dataClass
  <2> HIDE DEF fates
  <2> QED  BY <1>1 DEF Opened
<1> HIDE DEF S, missing, degraded, eliminated
<1>5. CASE RiskDenied(p, r)
  <2> DEFINE all == [t \in p.candidates |-> Fate("denyIfRiskScoreAbove", None, None)]
  <2>1. e = [d EXCEPT !.outcome = "BLOCK", !.candidates = all]
    BY <1>2, <1>5 DEF BlockRisky
  <2> HIDE DEF all
  <2>2. e.outcome = "BLOCK" /\ e.policy = i
    BY <1>1, <2>1
  <2> QED  BY <2>2
<1>6. CASE ~RiskDenied(p, r) /\ missing # {}
  <2>1. e = FallbackOrBlock(degraded, s, p, r, "degraded")
    BY <1>2, <1>6
  <2>2. e.outcome \in {"ROUTE", "BLOCK"} /\ e.policy = i
        /\ (e.outcome = "ROUTE" => Lawful(s, r, e))
    BY <1>3, <1>6, <2>1, FallbackIsLawful
  <2> QED  BY <1>6, <2>2
<1>7. CASE ~RiskDenied(p, r) /\ missing = {} /\ S = {}
  <2>1. e = FallbackOrBlock(eliminated, s, p, r, "fully")
    BY <1>2, <1>7
  <2>2. e.outcome \in {"ROUTE", "BLOCK"} /\ e.policy = i
        /\ (e.outcome = "ROUTE" => Lawful(s, r, e))
    BY <1>4, <2>1, FallbackIsLawful
  <2> QED  BY <1>7, <2>2
<1>8. CASE ~RiskDenied(p, r) /\ missing = {} /\ S # {}
  <2>1. e = ScoreAndSelect(eliminated, s, p, r, S)
    BY <1>2, <1>8
  <2>2. S = Survivors(s, p, r, eliminated.dataClass)
    BY <1>4 DEF S
  <2>3. e.outcome = "ROUTE" /\ e.policy = i /\ Lawful(s, r, e)
    BY <1>4, <1>8, <2>1, <2>2, ScoredIsLawful
  <2> QED  BY <1>8, <2>3
<1> QED
  BY <1>5, <1>6, <1>7, <1>8

\* The same of decide, and its agreement with is_routed.
LEMMA DecideIsLawful ==
    ASSUME NEW s \in Snapshots, NEW r \in Requests, NEW e, e = Decide(s, r)
    PROVE  /\ e.outcome = "ROUTE" => Lawful(s, r, e)
           /\ IsRouted(s, r) <=> e.outcome # "PASS_THROUGH"
           /\ (IsRouted(s, r) /\ RiskDenied(s.policies[e.policy], r)) => e.outcome = "BLOCK"
<1> DEFINE i == SelectPolicy(s, r)
           class == ResolveDataClass(s, r)
           notes == Blank(s, r).notes \union ClassNotes(s, r)
           opening == [Blank(s, r) EXCEPT !.policy = i, !.dataClass = class, !.notes = notes]
<1>1. CASE i = None
  BY <1>1 DEF Decide, IsRouted, Blank
<1>2. CASE i # None /\ ~RoutedAlias(s, r, i)
  <2>1. e = [Blank(s, r) EXCEPT !.policy = i]
    BY <1>2 DEF Decide
  <2>2. e.outcome = "PASS_THROUGH"
    <3> HIDE DEF i
    <3> QED  BY <2>1 DEF Blank
  <2> QED  BY <1>2, <2>2 DEF IsRouted
<1>3. CASE i # None /\ RoutedAlias(s, r, i)
  <2>1. i \in DOMAIN s.policies
    BY <1>3, SelectedMatches DEF Matching
  <2>2. e = Judge(opening, s, s.policies[i], r)
    BY <1>3 DEF Decide
  <2>3. Opened(opening, s, r, i)
    <3> HIDE DEF i, class, notes
    <3> QED  BY DEF Blank, Opened
  <2>4. IsRouted(s, r)
    BY <1>3 DEF IsRouted
  <2> HIDE DEF i, opening
  <2> QED  BY <2>1, <2>2, <2>3, <2>4, JudgeIsLawful
<1> QED
  BY <1>1, <1>2, <1>3

-----------------------------------------------------------------------------
(* How a decision ends, stage by stage. *)

Fields == {"outcome", "policy", "dataClass", "selected", "candidates", "cost",
           "savings", "reasoning", "fallback", "degraded", "notes"}

\* the decision that decide hands to the stages
Opening(s, r) ==
    [Blank(s, r) EXCEPT !.policy = SelectPolicy(s, r),
                        !.dataClass = ResolveDataClass(s, r),
                        !.notes = @ \union ClassNotes(s, r)]

\* It selects nothing, judges nobody, and carries the class and the policy.
LEMMA OpeningFields ==
    ASSUME NEW s, NEW r, NEW d, d = Opening(s, r)
    PROVE  /\ DOMAIN d = Fields
           /\ d.outcome = "PASS_THROUGH" /\ d.policy = SelectPolicy(s, r)
           /\ d.dataClass = ResolveDataClass(s, r)
           /\ d.selected = None /\ d.candidates = <<>> /\ d.fallback = FALSE
           /\ d.degraded = r.findings.degraded
           /\ PolicyNotes(s, r) \subseteq d.notes
<1> DEFINE i     == SelectPolicy(s, r)
           class == ResolveDataClass(s, r)
           notes == Blank(s, r).notes \union ClassNotes(s, r)
<1>1. d = [Blank(s, r) EXCEPT !.policy = i, !.dataClass = class, !.notes = notes]
  BY DEF Opening
<1>2. PolicyNotes(s, r) \subseteq notes
  BY DEF Blank
<1> HIDE DEF i, class, notes
<1>3. d.policy = i /\ d.dataClass = class /\ d.notes = notes
  BY <1>1 DEF Blank
<1> QED
  BY <1>1, <1>2, <1>3 DEF Blank, Fields, i, class

\* the fallback is missing, or violates what it must answer to
Refused(s, p, r, dc, classified) ==
    LET f == p.fallbackTier IN
    \/ f = None \/ f \notin DOMAIN s.tiers
    \/ (IF classified = "degraded" THEN FactViolation(s, p, r, dc, s.tiers[f])
        ELSE HardViolation(s, p, r, dc, s.tiers[f])) # None

\* no candidate is scored
NoScores(e) == \A t \in DOMAIN e.candidates : e.candidates[t].score = None

\* what fallback_or_block may make of a decision d
Concluded(s, p, r, d, classified, e) ==
    /\ Refused(s, p, r, d.dataClass, classified)
         => e.outcome = "BLOCK" /\ e.selected = d.selected
    /\ ~Refused(s, p, r, d.dataClass, classified)
         => e.outcome = "ROUTE" /\ e.selected = p.fallbackTier
    /\ e.fallback = TRUE /\ e.policy = d.policy /\ e.dataClass = d.dataClass
    /\ e.outcome = "ROUTE" => e.savings = 0
                              /\ e.cost = EstimateCost(s.tiers[p.fallbackTier], r)
    /\ NoScores(d) => NoScores(e)
    /\ d.notes \subseteq e.notes

\* It blocks exactly when the fallback is refused, and gives no candidate a
\* score that had none.
LEMMA FallbackEnds ==
    ASSUME NEW s, NEW r, NEW p, NEW classified, NEW d, DOMAIN d = Fields
    PROVE  Concluded(s, p, r, d, classified, FallbackOrBlock(d, s, p, r, classified))
<1> SUFFICES ASSUME NEW e, e = FallbackOrBlock(d, s, p, r, classified)
             PROVE  Concluded(s, p, r, d, classified, e)
  OBVIOUS
<1> DEFINE f   == p.fallbackTier
           why == IF classified = "degraded" THEN FactViolation(s, p, r, d.dataClass, s.tiers[f])
                  ELSE HardViolation(s, p, r, d.dataClass, s.tiers[f])
           cost   == EstimateCost(s.tiers[f], r)
           others == (DOMAIN d.candidates \ {f}) \union {f}
           kept   == [t \in others |-> IF t \in DOMAIN d.candidates THEN d.candidates[t]
                                       ELSE Fate(why, None, None)]
           served == [t \in others |-> IF t = f THEN Fate(None, cost, None)
                                       ELSE d.candidates[t]]
           notes  == d.notes \union (IF f \in DOMAIN d.candidates THEN {<<"relaxed", f>>} ELSE {})
           effort == Reasoning(p, r)
<1>1. Refused(s, p, r, d.dataClass, classified)
        <=> f = None \/ f \notin DOMAIN s.tiers \/ why # None
  BY DEF Refused
<1>2. e = IF f = None \/ f \notin DOMAIN s.tiers
          THEN [d EXCEPT !.outcome = "BLOCK", !.fallback = TRUE]
          ELSE IF why # None
          THEN [d EXCEPT !.outcome = "BLOCK", !.fallback = TRUE, !.candidates = kept]
          ELSE [d EXCEPT !.outcome = "ROUTE", !.fallback = TRUE, !.selected = f,
                         !.cost = cost, !.savings = 0, !.reasoning = effort,
                         !.notes = notes, !.candidates = served]
  BY DEF FallbackOrBlock
<1>3. (\A t \in DOMAIN d.candidates : d.candidates[t].score = None)
        => \A t \in others : kept[t].score = None /\ served[t].score = None
  BY DEF Fate
<1>4. DOMAIN kept = others /\ DOMAIN served = others /\ d.notes \subseteq notes
  OBVIOUS
<1> HIDE DEF f, why, cost, others, kept, served, notes, effort
<1>5. CASE f = None \/ f \notin DOMAIN s.tiers
  BY <1>1, <1>2, <1>5 DEF Fields, Concluded, NoScores
<1>6. CASE ~(f = None \/ f \notin DOMAIN s.tiers) /\ why # None
  <2>1. e = [d EXCEPT !.outcome = "BLOCK", !.fallback = TRUE, !.candidates = kept]
    BY <1>2, <1>6
  <2>2. e.outcome = "BLOCK" /\ e.fallback = TRUE /\ e.candidates = kept
        /\ e.selected = d.selected /\ e.policy = d.policy /\ e.dataClass = d.dataClass
        /\ e.notes = d.notes
    BY <2>1 DEF Fields
  <2> QED  BY <1>1, <1>3, <1>4, <1>6, <2>2 DEF Concluded, NoScores
<1>7. CASE ~(f = None \/ f \notin DOMAIN s.tiers) /\ why = None
  <2>1. e = [d EXCEPT !.outcome = "ROUTE", !.fallback = TRUE, !.selected = f,
                      !.cost = cost, !.savings = 0, !.reasoning = effort,
                      !.notes = notes, !.candidates = served]
    BY <1>2, <1>7
  <2>2. e.outcome = "ROUTE" /\ e.fallback = TRUE /\ e.candidates = served
        /\ e.selected = f /\ e.savings = 0 /\ e.cost = cost
        /\ e.policy = d.policy /\ e.dataClass = d.dataClass /\ e.notes = notes
    BY <2>1 DEF Fields
  <2> QED  BY <1>1, <1>3, <1>4, <1>7, <2>2 DEF f, cost, Concluded, NoScores
<1> QED
  BY <1>5, <1>6, <1>7

\* how the stages may end the decision e on a routed request
Ended(s, r, p, dc, e) ==
    /\ e.policy = SelectPolicy(s, r) /\ e.dataClass = dc
    /\ PolicyNotes(s, r) \subseteq e.notes
    /\ IF RiskDenied(p, r)
       THEN e.outcome = "BLOCK" /\ e.selected = None /\ NoScores(e)
       ELSE IF Degraded(s, p, r) # {}
       THEN /\ e.outcome = IF Refused(s, p, r, dc, "degraded") THEN "BLOCK" ELSE "ROUTE"
            /\ e.selected \in {None, p.fallbackTier} /\ e.fallback = TRUE
            /\ NoScores(e)
       ELSE IF Survivors(s, p, r, dc) = {}
       THEN /\ e.outcome = IF Refused(s, p, r, dc, "fully") THEN "BLOCK" ELSE "ROUTE"
            /\ e.selected \in {None, p.fallbackTier} /\ e.fallback = TRUE
       ELSE e.outcome = "ROUTE"

\* Each stage ends it as it should, in the order of the code.
LEMMA RoutedEnds ==
    ASSUME NEW s, NEW r, IsRouted(s, r)
    PROVE  Ended(s, r, s.policies[SelectPolicy(s, r)], ResolveDataClass(s, r), Decide(s, r))
<1> SUFFICES ASSUME NEW p, p = s.policies[SelectPolicy(s, r)],
                    NEW dc, dc = ResolveDataClass(s, r),
                    NEW e, e = Decide(s, r)
             PROVE  Ended(s, r, p, dc, e)
  OBVIOUS
<1> DEFINE d == Opening(s, r)
           S == Survivors(s, p, r, dc)
           missing == Degraded(s, p, r)
           degraded == [d EXCEPT !.degraded = missing]
           fates == [t \in Known(s, p) \ S |->
                        Fate(HardViolation(s, p, r, dc, s.tiers[t]), None, None)]
           eliminated == [d EXCEPT !.candidates = fates]
<1>1. /\ DOMAIN d = Fields /\ d.policy = SelectPolicy(s, r) /\ d.dataClass = dc
      /\ d.selected = None /\ d.candidates = <<>> /\ d.fallback = FALSE
      /\ PolicyNotes(s, r) \subseteq d.notes
  BY OpeningFields
<1>2. e = IF RiskDenied(p, r) THEN BlockRisky(d, p)
          ELSE IF missing # {} THEN FallbackOrBlock(degraded, s, p, r, "degraded")
          ELSE IF S = {} THEN FallbackOrBlock(eliminated, s, p, r, "fully")
          ELSE ScoreAndSelect(eliminated, s, p, r, S)
  <2>1. e = Judge(d, s, p, r)
    BY DEF Decide, IsRouted, Opening
  <2> QED  BY <1>1, <2>1 DEF Judge
<1> HIDE DEF d, S, missing
<1>3. /\ DOMAIN degraded = Fields /\ degraded.policy = d.policy
      /\ degraded.dataClass = dc /\ degraded.selected = None
      /\ degraded.candidates = <<>> /\ degraded.notes = d.notes
  BY <1>1 DEF Fields
<1>4. /\ DOMAIN eliminated = Fields /\ eliminated.policy = d.policy
      /\ eliminated.dataClass = dc /\ eliminated.selected = None
      /\ eliminated.notes = d.notes
  <2> HIDE DEF fates
  <2> QED  BY <1>1 DEF Fields
<1> HIDE DEF degraded, eliminated
<1>5. CASE RiskDenied(p, r)
  <2> DEFINE all == [t \in p.candidates |-> Fate("denyIfRiskScoreAbove", None, None)]
  <2>1. e = [d EXCEPT !.outcome = "BLOCK", !.candidates = all]
    BY <1>2, <1>5 DEF BlockRisky
  <2>2. DOMAIN all = p.candidates /\ \A t \in p.candidates : all[t].score = None
    BY DEF Fate
  <2> HIDE DEF all
  <2>3. /\ e.outcome = "BLOCK" /\ e.candidates = all /\ e.selected = None
        /\ e.policy = d.policy /\ e.dataClass = dc /\ d.notes \subseteq e.notes
    BY <1>1, <2>1 DEF Fields
  <2> QED  BY <1>1, <1>5, <2>2, <2>3 DEF NoScores, Ended
<1>6. CASE ~RiskDenied(p, r) /\ missing # {}
  <2>1. e = FallbackOrBlock(degraded, s, p, r, "degraded")
    BY <1>2, <1>6
  <2>2. Concluded(s, p, r, degraded, "degraded", e)
    BY <1>3, <2>1, FallbackEnds
  <2>3. /\ e.outcome = IF Refused(s, p, r, dc, "degraded") THEN "BLOCK" ELSE "ROUTE"
        /\ e.selected \in {None, p.fallbackTier} /\ e.fallback = TRUE
        /\ e.policy = d.policy /\ e.dataClass = dc /\ d.notes \subseteq e.notes
    BY <1>3, <2>2 DEF Concluded
  <2>4. NoScores(e)
    <3>1. DOMAIN <<>> = {}
      OBVIOUS
    <3>2. DOMAIN degraded.candidates = {}
      BY <1>3, <3>1, Zenon
    <3>3. NoScores(degraded)
      BY <3>2 DEF NoScores
    <3> QED  BY <2>2, <3>3 DEF Concluded
  <2> QED  BY <1>1, <1>6, <2>3, <2>4 DEF missing, Ended
<1>7. CASE ~RiskDenied(p, r) /\ missing = {} /\ S = {}
  <2>1. e = FallbackOrBlock(eliminated, s, p, r, "fully")
    BY <1>2, <1>7
  <2>2. Concluded(s, p, r, eliminated, "fully", e)
    BY <1>4, <2>1, FallbackEnds
  <2>3. /\ e.outcome = IF Refused(s, p, r, dc, "fully") THEN "BLOCK" ELSE "ROUTE"
        /\ e.selected \in {None, p.fallbackTier} /\ e.fallback = TRUE
        /\ e.policy = d.policy /\ e.dataClass = dc /\ d.notes \subseteq e.notes
    BY <1>4, <2>2 DEF Concluded
  <2> QED  BY <1>1, <1>7, <2>3 DEF S, missing, Ended
<1>8. CASE ~RiskDenied(p, r) /\ missing = {} /\ S # {}
  <2>1. e = ScoreAndSelect(eliminated, s, p, r, S)
    BY <1>2, <1>8
  <2>2. e.outcome = "ROUTE" /\ e.policy = d.policy /\ e.dataClass = dc /\ e.notes = d.notes
    BY <1>4, <2>1 DEF ScoreAndSelect, Fields
  <2> QED  BY <1>1, <1>8, <2>2 DEF S, missing, Ended
<1> QED
  BY <1>5, <1>6, <1>7, <1>8

\* the outcome of a routed request under policy p and class dc
OutcomeUnder(s, r, p, dc) ==
    IF RiskDenied(p, r) THEN "BLOCK"
    ELSE IF Degraded(s, p, r) # {}
    THEN IF Refused(s, p, r, dc, "degraded") THEN "BLOCK" ELSE "ROUTE"
    ELSE IF Survivors(s, p, r, dc) = {} /\ Refused(s, p, r, dc, "fully") THEN "BLOCK"
    ELSE "ROUTE"

\* The outcome depends on nothing else.
LEMMA RoutedOutcome ==
    ASSUME NEW s, NEW r, IsRouted(s, r)
    PROVE  Decide(s, r).outcome
             = OutcomeUnder(s, r, s.policies[SelectPolicy(s, r)], ResolveDataClass(s, r))
BY RoutedEnds DEF Ended, OutcomeUnder

\* A decision on a request that is not routed passes it through.
LEMMA UnroutedPasses ==
    ASSUME NEW s, NEW r, ~IsRouted(s, r)
    PROVE  Decide(s, r).outcome = "PASS_THROUGH"
<1> DEFINE i == SelectPolicy(s, r)
<1>1. CASE i = None
  BY <1>1 DEF Decide, Blank
<1>2. CASE i # None
  <2>1. Decide(s, r) = [Blank(s, r) EXCEPT !.policy = i]
    BY <1>2 DEF Decide, IsRouted
  <2> HIDE DEF i
  <2> QED  BY <2>1 DEF Blank
<1> QED
  BY <1>1, <1>2

\* A classifier that is lost leaves the fallback or nothing.
LEMMA LossIsDegraded ==
    ASSUME NEW s, NEW r, NEW p,
           \/ r.findings.degraded # {}
           \/ r.findings.risk = None /\ RiskNeeded(s, p)
    PROVE  Degraded(s, p, r) # {}
BY DEF Degraded

-----------------------------------------------------------------------------
(* Harder requests. *)

\* q asks of the same policies for the same class what r asks, and more
Harder(r, q) ==
    /\ q.tenant = r.tenant /\ q.agent = r.agent /\ q.path = r.path
    /\ q.model = r.model /\ q.policyHint = r.policyHint /\ q.classHints = r.classHints
    /\ q.findings.label = r.findings.label /\ q.findings.pii = r.findings.pii
    /\ q.findings.degraded = r.findings.degraded
    /\ r.tools => q.tools
    /\ r.input <= q.input /\ r.output <= q.output
    /\ q.findings.risk = None <=> r.findings.risk = None
    /\ r.findings.risk # None => r.findings.risk <= q.findings.risk

\* Multiplication by a price, and rounding up to the price's unit, are
\* monotone.
LEMMA TimesIsMonotone ==
    ASSUME NEW a \in Nat, NEW b \in Nat, NEW c \in Nat, a <= b
    PROVE  a * c <= b * c
OBVIOUS

LEMMA DivIsMonotone ==
    ASSUME NEW a \in Nat, NEW b \in Nat, NEW d \in Nat \ {0}, a <= b
    PROVE  a \div d <= b \div d /\ a \div d \in Nat
OBVIOUS

\* A request that costs more to serve costs no less at any tier.
LEMMA CostGrows ==
    ASSUME NEW s \in Snapshots, NEW t \in DOMAIN s.tiers,
           NEW r, NumericRequest(r), NEW q, NumericRequest(q), Harder(r, q)
    PROVE  EstimateCost(s.tiers[t], r) <= EstimateCost(s.tiers[t], q)
<1> DEFINE a == s.tiers[t].inputPrice
           b == s.tiers[t].outputPrice
           low  == r.input * a + r.output * b
           high == q.input * a + q.output * b
<1>1. /\ a \in Nat /\ b \in Nat /\ r.input \in Nat /\ r.output \in Nat
      /\ q.input \in Nat /\ q.output \in Nat /\ r.input <= q.input /\ r.output <= q.output
  BY SnapshotNumbers DEF NumericTier, NumericRequest, Harder
<1> HIDE DEF a, b
<1>2. low \in Nat /\ high \in Nat /\ low <= high
  <2>1. r.input * a <= q.input * a /\ r.output * b <= q.output * b
    BY <1>1, TimesIsMonotone
  <2>2. /\ r.input * a \in Nat /\ q.input * a \in Nat
        /\ r.output * b \in Nat /\ q.output * b \in Nat
    BY <1>1
  <2> QED  BY <2>1, <2>2
<1> HIDE DEF low, high
<1>3. CeilDiv(low, PerMillion) <= CeilDiv(high, PerMillion)
      /\ CeilDiv(low, PerMillion) \in Nat /\ CeilDiv(high, PerMillion) \in Nat
  <2>1. /\ low + PerMillion - 1 \in Nat /\ high + PerMillion - 1 \in Nat
        /\ low + PerMillion - 1 <= high + PerMillion - 1
    BY <1>2, WidthAssumption
  <2> QED  BY <2>1, DivIsMonotone, WidthAssumption DEF CeilDiv
<1>4. Capped(CeilDiv(low, PerMillion)) <= Capped(CeilDiv(high, PerMillion))
  BY <1>3, WidthAssumption DEF Capped
<1> QED
  BY <1>4 DEF EstimateCost, low, high, a, b

\* When no check fails, no reason is named.
LEMMA AllPass ==
    ASSUME NEW checks, \A k \in DOMAIN checks : ~checks[k].fails
    PROVE  FirstFailure(checks) = None
BY DEF FirstFailure

\* A tier that satisfies the class violates nothing of it.
LEMMA FitsPasses ==
    ASSUME NEW s, NEW t, NEW c, Fits(s, c, t)
    PROVE  DataClassViolation(s.tiers[t], s.classes[c], c) = None
<1> DEFINE tier  == s.tiers[t]
           class == s.classes[c]
           checks == <<
    Fails(c \notin tier.allowedDataClasses, "allowedDataClasses"),
    Fails(/\ class.requireJurisdiction # {}
          /\ tier.jurisdiction \notin class.requireJurisdiction, "requireJurisdiction"),
    Fails(class.forbidCloudActExposed /\ tier.cloudActExposed, "forbidCloudActExposed"),
    Fails(/\ class.requireOperatorControl # {}
          /\ tier.operatorControl \notin class.requireOperatorControl,
          "requireOperatorControl"),
    Fails(tier.capabilities \cap class.forbidCapabilities # {}, "forbidCapabilities") >>
<1>1. DOMAIN checks = 1..5
  OBVIOUS
<1>2. ~checks[1].fails /\ ~checks[2].fails /\ ~checks[3].fails
      /\ ~checks[4].fails /\ ~checks[5].fails
  BY DEF Fits, Fails
<1>3. FirstFailure(checks) = None
  <2> HIDE DEF checks
  <2>1. \A k \in DOMAIN checks : ~checks[k].fails
    BY <1>1, <1>2
  <2> QED  BY <2>1, AllPass
<1> QED
  BY <1>3 DEF DataClassViolation

\* A tier that meets the facts violates none: the converse of FactsOk.
LEMMA MeetingPasses ==
    ASSUME NEW s \in Snapshots, NEW r, NumericRequest(r), NEW p, NEW dc,
           NEW t \in DOMAIN s.tiers, MeetsFacts(s, p, r, dc, t)
    PROVE  FactViolation(s, p, r, dc, s.tiers[t]) = None
<1> DEFINE tier == s.tiers[t]
           ofClass == IF p.respectDataClass /\ dc # None
                      THEN DataClassViolation(tier, s.classes[dc], dc) ELSE None
           checks == <<
            Fails(~(p.requireCapabilities \subseteq tier.capabilities), "requireCapabilities"),
            Fails(r.tools /\ "tools" \notin tier.capabilities, "tools"),
            Fails(tier.contextWindow < Capped(r.input + r.output), "contextWindow"),
            Fails(/\ r.findings.risk # None
                  /\ r.findings.risk > tier.maxRiskScore, "maxRiskScore"),
            Fails(ToolsForbidden(tier, r), "toolCallingAllowed") >>
<1>1. ofClass = None
  BY FitsPasses DEF MeetsFacts
<1>2. DOMAIN checks = 1..5
  OBVIOUS
<1>3. /\ tier.contextWindow \in Int /\ tier.maxRiskScore \in Int
      /\ Capped(r.input + r.output) \in Int
      /\ r.findings.risk # None => r.findings.risk \in Int
  BY SnapshotNumbers, WidthAssumption DEF NumericTier, NumericRequest, Capped
<1>4. ~checks[1].fails /\ ~checks[2].fails /\ ~checks[3].fails
      /\ ~checks[4].fails /\ ~checks[5].fails
  <2>1. /\ p.requireCapabilities \subseteq tier.capabilities
        /\ ~(r.tools /\ "tools" \notin tier.capabilities)
        /\ ~(tier.contextWindow < Capped(r.input + r.output))
        /\ ~(r.findings.risk # None /\ r.findings.risk > tier.maxRiskScore)
        /\ ~(r.tools /\ ~tier.toolCallingAllowed)
    BY <1>3 DEF MeetsFacts
  <2> HIDE DEF tier
  <2> QED  BY <2>1 DEF Fails, ToolsForbidden
<1>5. FirstFailure(checks) = None
  <2> HIDE DEF checks
  <2>1. \A k \in DOMAIN checks : ~checks[k].fails
    BY <1>2, <1>4
  <2> QED  BY <2>1, AllPass
<1> QED
  BY <1>1, <1>5 DEF FactViolation

\* A tier that passes the harder request passes the easier one.
LEMMA EasierPasses ==
    ASSUME NEW s \in Snapshots, NEW t \in DOMAIN s.tiers, NEW p, NumericPolicy(p), NEW dc,
           NEW r, NumericRequest(r), NEW q, NumericRequest(q), Harder(r, q)
    PROVE  /\ FactViolation(s, p, q, dc, s.tiers[t]) = None
                => FactViolation(s, p, r, dc, s.tiers[t]) = None
           /\ HardViolation(s, p, q, dc, s.tiers[t]) = None
                => HardViolation(s, p, r, dc, s.tiers[t]) = None
<1>1. MeetsFacts(s, p, q, dc, t) => MeetsFacts(s, p, r, dc, t)
  <2>1. Capped(q.input + q.output) <= s.tiers[t].contextWindow
          => Capped(r.input + r.output) <= s.tiers[t].contextWindow
    <3>1. /\ r.input \in Nat /\ r.output \in Nat /\ q.input \in Nat /\ q.output \in Nat
          /\ r.input <= q.input /\ r.output <= q.output
          /\ s.tiers[t].contextWindow \in Nat
      BY SnapshotNumbers DEF NumericTier, NumericRequest, Harder
    <3> QED  BY <3>1, WidthAssumption DEF Capped
  <2>2. (q.findings.risk # None => q.findings.risk <= s.tiers[t].maxRiskScore)
          => (r.findings.risk # None => r.findings.risk <= s.tiers[t].maxRiskScore)
    BY SnapshotNumbers DEF NumericTier, NumericRequest, Harder
  <2> QED  BY <2>1, <2>2 DEF MeetsFacts, Harder
<1>2. FactViolation(s, p, q, dc, s.tiers[t]) = None
        => FactViolation(s, p, r, dc, s.tiers[t]) = None
  BY <1>1, FactsOk, MeetingPasses
<1>3. ~OverCap(p, q, s.tiers[t]) => ~OverCap(p, r, s.tiers[t])
  <2>1. EstimateCost(s.tiers[t], r) <= EstimateCost(s.tiers[t], q)
    BY CostGrows
  <2>2. EstimateCost(s.tiers[t], r) \in Int /\ EstimateCost(s.tiers[t], q) \in Int
    BY CostIsNat
  <2>3. p.maxCost \in Int \union {None}
    BY DEF NumericPolicy
  <2> QED  BY <2>1, <2>2, <2>3 DEF OverCap
<1>4. HardViolation(s, p, q, dc, s.tiers[t]) = None
        => FactViolation(s, p, q, dc, s.tiers[t]) = None /\ ~OverCap(p, q, s.tiers[t])
  BY HardOk DEF HardViolation
<1> QED
  BY <1>2, <1>3, <1>4 DEF HardViolation

\* Hardness changes neither the policy nor the class a request comes under.
LEMMA HarderIsUnderTheSame ==
    ASSUME NEW s, NEW r, NEW q, Harder(r, q)
    PROVE  /\ SelectPolicy(s, q) = SelectPolicy(s, r)
           /\ IsRouted(s, q) <=> IsRouted(s, r)
           /\ ResolveDataClass(s, q) = ResolveDataClass(s, r)
<1>1. Matching(s, q) = Matching(s, r)
  BY DEF Matching, ScopeMatches, Harder
<1>2. Hinted(s, q) = Hinted(s, r)
  BY <1>1 DEF Hinted, Harder
<1>3. SelectPolicy(s, q) = SelectPolicy(s, r)
  BY <1>1, <1>2 DEF SelectPolicy, HintHonoured
<1>4. IsRouted(s, q) <=> IsRouted(s, r)
  BY <1>3 DEF IsRouted, RoutedAlias, Harder
<1>5. Considered(s, q) = Considered(s, r)
  BY DEF Considered, Detected, Harder
<1>6. ResolveDataClass(s, q) = ResolveDataClass(s, r)
  BY <1>5 DEF ResolveDataClass
<1> QED
  BY <1>3, <1>4, <1>6

\* A harder request is refused the fallback, and every candidate, that the
\* easier one is refused.
LEMMA HarderStaysBlocked ==
    ASSUME NEW s \in Snapshots, NEW r, NumericRequest(r), NEW q, NumericRequest(q),
           Harder(r, q), Decide(s, r).outcome = "BLOCK"
    PROVE  Decide(s, q).outcome = "BLOCK"
<1> DEFINE i  == SelectPolicy(s, r)
           p  == s.policies[i]
           dc == ResolveDataClass(s, r)
<1>1. IsRouted(s, r)
  BY UnroutedPasses
<1>2. IsRouted(s, q) /\ SelectPolicy(s, q) = i /\ ResolveDataClass(s, q) = dc
  BY <1>1, HarderIsUnderTheSame
<1>3. i \in DOMAIN s.policies /\ NumericPolicy(p)
  BY <1>1, SelectedMatches, SnapshotNumbers DEF IsRouted, Matching
<1>4. /\ OutcomeUnder(s, r, p, dc) = "BLOCK"
      /\ Decide(s, q).outcome = OutcomeUnder(s, q, p, dc)
  <2>1. Decide(s, r).outcome = OutcomeUnder(s, r, p, dc)
    BY <1>1, RoutedOutcome
  <2>2. Decide(s, q).outcome
          = OutcomeUnder(s, q, s.policies[SelectPolicy(s, q)], ResolveDataClass(s, q))
    BY <1>2, RoutedOutcome
  <2> QED  BY <1>2, <2>1, <2>2
<1> HIDE DEF p, dc, i
<1>5. RiskDenied(p, r) => RiskDenied(p, q)
  BY <1>3 DEF RiskDenied, Harder, NumericRequest, NumericPolicy
<1>6. Degraded(s, p, q) = Degraded(s, p, r)
  BY DEF Degraded, Harder
<1>7. Survivors(s, p, q, dc) \subseteq Survivors(s, p, r, dc)
  BY <1>3, EasierPasses DEF Survivors, Known
<1>8. \A c \in {"degraded", "fully"} :
        Refused(s, p, r, dc, c) => Refused(s, p, q, dc, c)
  BY <1>3, EasierPasses DEF Refused
<1> QED
  BY <1>4, <1>5, <1>6, <1>7, <1>8 DEF OutcomeUnder

-----------------------------------------------------------------------------
(* The effective class. *)

\* What is considered, and when.
LEMMA ConsideredIs ==
    ASSUME NEW s, NEW r, NEW x
    PROVE  x \in Considered(s, r) <=>
             \/ \E h \in DOMAIN r.classHints :
                   \E c \in Named(s, r.classHints[h]) : x = [at |-> h, class |-> c]
             \/ \E c \in DOMAIN s.classes \cap {r.findings.label} :
                   x = [at |-> Len(r.classHints) + 1, class |-> c]
             \/ \E c \in DOMAIN s.classes : /\ Detected(s, r.findings, c)
                                          /\ x = [at |-> Len(r.classHints) + 2, class |-> c]
<1> DEFINE byHint(h) == {[at |-> h, class |-> c] : c \in Named(s, r.classHints[h])}
           hinted    == UNION {byHint(h) : h \in DOMAIN r.classHints}
           labelled  == {[at |-> Len(r.classHints) + 1, class |-> c] :
                            c \in DOMAIN s.classes \cap {r.findings.label}}
           found     == {k \in DOMAIN s.classes : Detected(s, r.findings, k)}
           detected  == {[at |-> Len(r.classHints) + 2, class |-> c] : c \in found}
<1>1. Considered(s, r) = hinted \union labelled \union detected
  BY DEF Considered
<1>2. x \in hinted <=> \E h \in DOMAIN r.classHints : x \in byHint(h)
  <2> HIDE DEF byHint
  <2> QED  BY Zenon
<1>3. \A h : x \in byHint(h)
              <=> \E c \in Named(s, r.classHints[h]) : x = [at |-> h, class |-> c]
  BY Zenon
<1>4. x \in labelled <=> \E c \in DOMAIN s.classes \cap {r.findings.label} :
                           x = [at |-> Len(r.classHints) + 1, class |-> c]
  BY Zenon
<1>5. x \in detected <=> \E c \in DOMAIN s.classes :
                           /\ Detected(s, r.findings, c)
                           /\ x = [at |-> Len(r.classHints) + 2, class |-> c]
  BY Zenon
<1> HIDE DEF byHint, hinted, labelled, detected
<1> QED
  BY <1>1, <1>2, <1>3, <1>4, <1>5, Zenon

\* the list of class headers is a list
CountedHints(r) ==
    Len(r.classHints) \in Nat /\ DOMAIN r.classHints = 1..Len(r.classHints)

\* Finitely many classes are considered, each of them the snapshot's.
LEMMA ConsideredIsFinite ==
    ASSUME NEW s \in Snapshots, NEW r, CountedHints(r)
    PROVE  /\ IsFiniteSet(Considered(s, r))
           /\ \A x \in Considered(s, r) : x.class \in DOMAIN s.classes /\ x.at \in Int
<1> DEFINE n     == Len(r.classHints)
           C     == DOMAIN s.classes
           pairs == (1..(n + 2)) \X C
           of    == [q \in pairs |-> [at |-> q[1], class |-> q[2]]]
           seen  == {of[q] : q \in pairs}
<1>1. n \in Nat /\ DOMAIN r.classHints = 1..n
  BY DEF CountedHints
<1>2. \A h \in 1..(n + 2), c \in C :
        [at |-> h, class |-> c] = of[<<h, c>>] /\ <<h, c>> \in pairs
  OBVIOUS
<1>3. IsFiniteSet(pairs)
  <2>1. IsFiniteSet(C) /\ IsFiniteSet(1..(n + 2))
    BY <1>1, FS_Interval, SnapshotNumbers
  <2> HIDE DEF C, n
  <2> QED  BY <2>1, FS_Product
<1>4. IsFiniteSet(seen)
  <2>1. of \in Surjection(pairs, seen)
    <3> HIDE DEF pairs
    <3> QED  BY DEF Surjection
  <2> HIDE DEF of, pairs, seen
  <2> QED  BY <1>3, <2>1, FS_Surjection
<1>5. ASSUME NEW x \in Considered(s, r)
      PROVE  \E h \in 1..(n + 2), c \in C : x = [at |-> h, class |-> c]
  <2>1. \A v : Named(s, v) \subseteq C
    BY DEF Named
  <2>2. n + 1 \in 1..(n + 2) /\ n + 2 \in 1..(n + 2) /\ 1..n \subseteq 1..(n + 2)
    BY <1>1
  <2> HIDE DEF n, C
  <2>3. \/ \E h \in 1..n : \E c \in C : x = [at |-> h, class |-> c]
        \/ \E c \in C : x = [at |-> n + 1, class |-> c]
        \/ \E c \in C : x = [at |-> n + 2, class |-> c]
    <3>1. \/ \E h \in DOMAIN r.classHints :
                \E c \in Named(s, r.classHints[h]) : x = [at |-> h, class |-> c]
          \/ \E c \in C : x = [at |-> n + 1, class |-> c]
          \/ \E c \in C : x = [at |-> n + 2, class |-> c]
      BY <1>5, ConsideredIs DEF n, C
    <3> QED  BY <1>1, <2>1, <3>1, Zenon
  <2> QED  BY <2>2, <2>3, Zenon
<1>6. Considered(s, r) \subseteq seen
  <2> SUFFICES ASSUME NEW x \in Considered(s, r)  PROVE  x \in seen
    OBVIOUS
  <2>1. PICK h \in 1..(n + 2), c \in C : x = [at |-> h, class |-> c]
    BY <1>5
  <2>2. x = of[<<h, c>>] /\ <<h, c>> \in pairs
    BY <1>2, <2>1
  <2> HIDE DEF of, pairs, n, C
  <2> QED  BY <2>2
<1>7. \A x \in Considered(s, r) : x.class \in C /\ x.at \in Int
  <2> HIDE DEF C
  <2>1. 1..(n + 2) \subseteq Int
    BY <1>1
  <2> HIDE DEF n
  <2> QED  BY <1>5, <2>1
<1> QED
  BY <1>4, <1>6, <1>7, FS_Subset

\* The class resolved is considered, and none considered outranks it.
LEMMA ResolvedIsHighest ==
    ASSUME NEW s \in Snapshots, NEW r, CountedHints(r), NEW x \in Considered(s, r)
    PROVE  /\ ResolveDataClass(s, r) \in DOMAIN s.classes
           /\ \E y \in Considered(s, r) : ResolveDataClass(s, r) = y.class
           /\ s.classes[x.class].rank <= s.classes[ResolveDataClass(s, r)].rank
<1> DEFINE seen  == Considered(s, r)
           low   == [y \in seen |-> 0 - s.classes[y.class].rank]
           top   == Least(seen, low)
           at    == [y \in top |-> y.at]
           early == Least(top, at)
           name  == [y \in early |-> y.class]
           final == Least(early, name)
<1>1. /\ IsFiniteSet(seen) /\ seen # {}
      /\ \A y \in seen : y.class \in DOMAIN s.classes /\ y.at \in Int /\ y.class \in Int
      /\ \A y \in seen : s.classes[y.class].rank \in Int
  BY ConsideredIsFinite, SnapshotNumbers
<1>2. \A y \in seen : low[y] = 0 - s.classes[y.class].rank
  OBVIOUS
<1> HIDE DEF seen, low
<1>3. top # {} /\ top \subseteq seen /\ IsFiniteSet(top)
  BY <1>1, <1>2, LeastKeeps
<1>4. \A y \in top : \A z \in seen : low[y] <= low[z]
  BY DEF Least
<1>5. early # {} /\ early \subseteq top /\ IsFiniteSet(early)
  <2>1. \A y \in top : at[y] \in Int
    BY <1>1, <1>3
  <2> HIDE DEF top, at
  <2> QED  BY <1>3, <2>1, LeastKeeps
<1>6. final # {} /\ final \subseteq early
  <2>1. \A y \in early : name[y] \in Int
    BY <1>1, <1>3, <1>5
  <2> HIDE DEF early, name
  <2> QED  BY <1>5, <2>1, LeastKeeps
<1>7. ResolveDataClass(s, r) = (CHOOSE y \in final : TRUE).class
  BY <1>1 DEF ResolveDataClass, seen, low
<1> HIDE DEF top, early, final, at, name
<1>8. PICK y \in final : ResolveDataClass(s, r) = y.class
  BY <1>6, <1>7
<1>9. y \in top /\ y \in seen /\ x \in seen
  BY <1>3, <1>5, <1>6, <1>8 DEF seen
<1>10. 0 - s.classes[y.class].rank <= 0 - s.classes[x.class].rank
  BY <1>2, <1>4, <1>9
<1> QED
  BY <1>1, <1>8, <1>9, <1>10 DEF seen

-----------------------------------------------------------------------------
(* Optimised decisions. *)

\* the decision that reaches score_and_select: every lost candidate has a reason
Eliminated(s, r, p, dc) ==
    [Opening(s, r) EXCEPT !.candidates =
        [t \in Known(s, p) \ Survivors(s, p, r, dc) |->
            Fate(HardViolation(s, p, r, dc, s.tiers[t]), None, None)]]

\* A route that is no fallback was scored.
LEMMA OptimisedIsScored ==
    ASSUME NEW s, NEW r, IsRouted(s, r),
           NEW p, p = s.policies[SelectPolicy(s, r)],
           NEW dc, dc = ResolveDataClass(s, r),
           NEW e, e = Decide(s, r), e.outcome = "ROUTE", ~e.fallback
    PROVE  /\ Survivors(s, p, r, dc) # {}
           /\ e = ScoreAndSelect(Eliminated(s, r, p, dc), s, p, r, Survivors(s, p, r, dc))
<1> DEFINE d == Opening(s, r)
<1>1. d.dataClass = dc
  BY OpeningFields
<1>2. e = Judge(d, s, p, r)
  BY DEF Decide, IsRouted, Opening
<1>3. Ended(s, r, p, dc, e)
  BY RoutedEnds
<1>4. ~RiskDenied(p, r) /\ Degraded(s, p, r) = {} /\ Survivors(s, p, r, dc) # {}
  BY <1>3 DEF Ended
<1>5. e = ScoreAndSelect([d EXCEPT !.candidates =
              [t \in Known(s, p) \ Survivors(s, p, r, dc) |->
                  Fate(HardViolation(s, p, r, dc, s.tiers[t]), None, None)]],
              s, p, r, Survivors(s, p, r, dc))
  <2> HIDE DEF d
  <2> QED  BY <1>1, <1>2, <1>4 DEF Judge
<1> QED
  BY <1>4, <1>5 DEF Eliminated

\* The greatest key is a member's, and no member's is greater.
LEMMA HighestIsGreatest ==
    ASSUME NEW S, IsFiniteSet(S), S # {}, NEW key, \A x \in S : key[x] \in Int
    PROVE  /\ \E x \in S : key[x] = Highest(S, key)
           /\ \A x \in S : key[x] <= Highest(S, key)
<1> DEFINE x == CHOOSE x \in S : \A y \in S : key[y] <= key[x]
<1>1. x \in S /\ \A y \in S : key[y] <= key[x]
  BY GreatestExists
<1> QED
  BY <1>1 DEF Highest

\* what an explanation adds up to, of a decision e under policy p
AddsUp(s, p, e) ==
    LET fate   == e.candidates
        scored == {t \in DOMAIN fate : fate[t].score # None}
    IN  /\ DOMAIN fate = Known(s, p)
        /\ \A t \in DOMAIN fate : (t \in scored) <=> (fate[t].eliminatedBy = None)
        /\ e.selected \in scored
        /\ \A t \in scored : fate[t].cost <= e.cost + e.savings
        /\ \E t \in scored : fate[t].cost = e.cost + e.savings

\* What a scored decision says of its candidates: those kept have their cost
\* and a score, the others a reason.
LEMMA ScoredFates ==
    ASSUME NEW s \in Snapshots, NEW r \in Requests, NEW p, NumericPolicy(p), NEW dc,
           Survivors(s, p, r, dc) # {},
           NEW e, e = ScoreAndSelect(Eliminated(s, r, p, dc), s, p, r, Survivors(s, p, r, dc))
    PROVE  LET S == Survivors(s, p, r, dc) IN
           /\ DOMAIN e.candidates = Known(s, p) /\ S \subseteq Known(s, p)
           /\ e.selected = ChoiceOf(s, p, r, S) /\ e.cost = CostsOf(s, r, S)[ChoiceOf(s, p, r, S)]
           /\ e.savings = Savings(CostsOf(s, r, S), KeptOf(s, p, r, S), ChoiceOf(s, p, r, S))
           /\ {t \in DOMAIN e.candidates : e.candidates[t].score # None} = KeptOf(s, p, r, S)
           /\ \A t \in KeptOf(s, p, r, S) : /\ e.candidates[t].eliminatedBy = None
                                          /\ e.candidates[t].cost = CostsOf(s, r, S)[t]
           /\ \A t \in Known(s, p) \ KeptOf(s, p, r, S) : e.candidates[t].eliminatedBy # None
<1> DEFINE S     == Survivors(s, p, r, dc)
           lost(t) == Fate(HardViolation(s, p, r, dc, s.tiers[t]), None, None)
           fates == [t \in Known(s, p) \ S |-> lost(t)]
           d     == Eliminated(s, r, p, dc)
           cost  == CostsOf(s, r, S)
           kept  == KeptOf(s, p, r, S)
           score == ScoresOf(s, p, r, S)
           best  == ChoiceOf(s, p, r, S)
           fate  == FatesOf(d, s, p, r, S)
<1>1. S \subseteq Known(s, p) /\ \A t \in Known(s, p) \ S : lost(t).eliminatedBy # None
  BY DEF Survivors, Fate
<1>2. /\ \A t \in S : cost[t] \in Int
      /\ kept \subseteq S /\ IsFiniteSet(kept)
      /\ \A t \in kept : score[t] \in Int
      /\ best \in kept
  <2> HIDE DEF S
  <2> QED  BY <1>1, ScoringIsSound DEF S
<1>3. DOMAIN d = Fields /\ d.candidates = fates
  <2>1. d = [Opening(s, r) EXCEPT !.candidates = fates] /\ DOMAIN Opening(s, r) = Fields
    BY OpeningFields DEF Eliminated
  <2> HIDE DEF d, fates
  <2> QED  BY <2>1 DEF Fields
<1>4. /\ e.selected = best /\ e.cost = cost[best]
      /\ e.savings = Savings(cost, kept, best) /\ e.candidates = fate
  <2> HIDE DEF S, d
  <2> QED  BY <1>3, ScoredIs DEF Fields, S, d
<1> HIDE DEF d
<1>5. /\ DOMAIN fate = Known(s, p)
      /\ \A t \in kept : fate[t] = Fate(None, cost[t], score[t])
      /\ \A t \in S \ kept : fate[t] = Fate("qualityFloor", cost[t], None)
      /\ \A t \in Known(s, p) \ S : fate[t] = lost(t)
  <2> HIDE DEF S, cost, kept, score, lost
  <2> QED  BY <1>1, <1>2, <1>3 DEF FatesOf, cost, kept, score
<1> HIDE DEF S, cost, kept, score, best, fate
<1>6. /\ \A t \in kept : /\ fate[t].score = score[t] /\ fate[t].eliminatedBy = None
                        /\ fate[t].cost = cost[t] /\ fate[t].score # None
      /\ \A t \in Known(s, p) \ kept : fate[t].score = None /\ fate[t].eliminatedBy # None
  <2>0. \A x, y, z : /\ Fate(x, y, z).eliminatedBy = x /\ Fate(x, y, z).cost = y
                     /\ Fate(x, y, z).score = z
    BY DEF Fate
  <2>1. \A t \in kept : score[t] # None
    BY <1>2, ReasonAssumption
  <2>2. \A t \in kept : /\ fate[t].score = score[t] /\ fate[t].eliminatedBy = None
                        /\ fate[t].cost = cost[t]
    BY <1>5, <2>0
  <2>3. \A t \in S \ kept : fate[t].score = None /\ fate[t].eliminatedBy # None
    BY <1>5, <2>0, ReasonAssumption DEF Reason
  <2>4. \A t \in Known(s, p) \ S : fate[t].score = None /\ fate[t].eliminatedBy # None
    BY <1>1, <1>5, <2>0
  <2> QED  BY <2>1, <2>2, <2>3, <2>4
<1>7. {t \in DOMAIN fate : fate[t].score # None} = kept
  BY <1>1, <1>2, <1>5, <1>6
<1> QED
  BY <1>1, <1>4, <1>5, <1>6, <1>7 DEF S, cost, kept, best

\* A scored decision adds up.
LEMMA ScoredAddsUp ==
    ASSUME NEW s \in Snapshots, NEW r \in Requests, NEW p, NumericPolicy(p), NEW dc,
           Survivors(s, p, r, dc) # {},
           NEW e, e = ScoreAndSelect(Eliminated(s, r, p, dc), s, p, r, Survivors(s, p, r, dc))
    PROVE  AddsUp(s, p, e)
<1> DEFINE S     == Survivors(s, p, r, dc)
           cost  == CostsOf(s, r, S)
           kept  == KeptOf(s, p, r, S)
           best  == ChoiceOf(s, p, r, S)
<1>1. /\ DOMAIN e.candidates = Known(s, p) /\ S \subseteq Known(s, p)
      /\ e.selected = best /\ e.cost = cost[best] /\ e.savings = Savings(cost, kept, best)
      /\ {t \in DOMAIN e.candidates : e.candidates[t].score # None} = kept
      /\ \A t \in kept : e.candidates[t].eliminatedBy = None /\ e.candidates[t].cost = cost[t]
      /\ \A t \in Known(s, p) \ kept : e.candidates[t].eliminatedBy # None
  BY ScoredFates
<1> HIDE DEF S
<1>2. /\ \A t \in S : cost[t] \in Int
      /\ kept \subseteq S /\ IsFiniteSet(kept) /\ best \in kept
  BY <1>1, ScoringIsSound DEF S
<1> HIDE DEF cost, kept, best
<1>3. /\ \A t \in kept : cost[t] <= e.cost + e.savings
      /\ \E t \in kept : cost[t] = e.cost + e.savings
  <2>1. /\ \E t \in kept : cost[t] = Highest(kept, cost)
        /\ \A t \in kept : cost[t] <= Highest(kept, cost)
    BY <1>2, HighestIsGreatest
  <2>2. e.cost + e.savings = Highest(kept, cost)
    BY <1>1, <1>2, <2>1 DEF Savings
  <2> QED  BY <2>1, <2>2
<1> QED
  BY <1>1, <1>2, <1>3 DEF AddsUp

-----------------------------------------------------------------------------
(* The choice. *)

\* The same of integers.
LEMMA WeighingIsMonotone ==
    ASSUME NEW w \in Nat, NEW a \in Int, NEW b \in Int, a <= b,
           NEW m \in Nat, NEW n \in Nat
    PROVE  w * a * m * n <= w * b * m * n /\ w * a * m * n \in Int /\ w * b * m * n \in Int
<1>1. \A x, y \in Int, z \in Nat : x <= y => x * z <= y * z /\ x * z \in Int /\ y * z \in Int
  OBVIOUS
<1>2. w * a <= w * b /\ w * a \in Int /\ w * b \in Int
  OBVIOUS
<1>3. w * a * m <= w * b * m /\ w * a * m \in Int /\ w * b * m \in Int
  BY <1>1, <1>2
<1> QED
  BY <1>1, <1>3

LEMMA RoundingIsMonotone ==
    ASSUME NEW a \in Int, NEW b \in Int, a <= b, NEW d \in Nat \ {0}
    PROVE  a \div d <= b \div d
OBVIOUS

\* A candidate that is no dearer, no worse and no slower scores no less,
\* whatever the weights.
LEMMA ScoreIsMonotone ==
    ASSUME NEW p, NumericPolicy(p), NEW S, IsFiniteSet(S),
           NEW cost, NEW quality, NEW latency,
           \A t \in S : cost[t] \in Int /\ quality[t] \in Int /\ latency[t] \in Int,
           NEW t \in S, NEW u \in S,
           cost[t] <= cost[u], quality[u] <= quality[t], latency[t] <= latency[u]
    PROVE  Scores(p, S, cost, quality, latency)[u] <= Scores(p, S, cost, quality, latency)[t]
<1> DEFINE w == p.weights
           c == Width(S, cost)
           q == Width(S, quality)
           l == Width(S, latency)
           total == (w.cost + w.quality + w.latency) * c * q * l
           cheap(x) == w.cost    * (c - (cost[x] - Lowest(S, cost))) * q * l
           good(x)  == w.quality * (quality[x] - Lowest(S, quality)) * c * l
           fast(x)  == w.latency * (l - (latency[x] - Lowest(S, latency))) * c * q
           exact(x) == cheap(x) + good(x) + fast(x)
<1>1. /\ Lowest(S, cost) \in Int /\ Highest(S, cost) \in Int
      /\ Lowest(S, quality) \in Int /\ Highest(S, quality) \in Int
      /\ Lowest(S, latency) \in Int /\ Highest(S, latency) \in Int
  <2>1. S # {}
    OBVIOUS
  <2> QED  BY <2>1, ExtremesAreInt
<1>2. c \in Nat /\ c > 0 /\ q \in Nat /\ q > 0 /\ l \in Nat /\ l > 0
  BY <1>1 DEF Width
<1>3. /\ w.cost \in Nat /\ w.quality \in Nat /\ w.latency \in Nat
      /\ w.cost + w.quality + w.latency > 0
  BY DEF NumericPolicy
<1>4. total \in Nat \ {0}
  <2>1. \A a, b \in Nat \ {0} : a * b \in Nat \ {0}
    OBVIOUS
  <2> DEFINE sum == w.cost + w.quality + w.latency
  <2>2. sum \in Nat \ {0}
    BY <1>3
  <2> HIDE DEF c, q, l, w, sum
  <2>3. sum * c \in Nat \ {0}
    BY <1>2, <2>1, <2>2
  <2>4. sum * c * q \in Nat \ {0}
    BY <1>2, <2>1, <2>3
  <2>5. sum * c * q * l \in Nat \ {0}
    BY <1>2, <2>1, <2>4
  <2> QED  BY <2>5 DEF sum
<1>5. exact(u) \in Int /\ exact(t) \in Int /\ exact(u) <= exact(t)
  <2>1. /\ c - (cost[u] - Lowest(S, cost)) \in Int /\ c - (cost[t] - Lowest(S, cost)) \in Int
        /\ c - (cost[u] - Lowest(S, cost)) <= c - (cost[t] - Lowest(S, cost))
        /\ quality[u] - Lowest(S, quality) \in Int /\ quality[t] - Lowest(S, quality) \in Int
        /\ quality[u] - Lowest(S, quality) <= quality[t] - Lowest(S, quality)
        /\ l - (latency[u] - Lowest(S, latency)) \in Int
        /\ l - (latency[t] - Lowest(S, latency)) \in Int
        /\ l - (latency[u] - Lowest(S, latency)) <= l - (latency[t] - Lowest(S, latency))
    <3> HIDE DEF c, q, l, w
    <3> QED  BY <1>1, <1>2
  <2> HIDE DEF c, q, l, w
  <2>2. cheap(u) <= cheap(t) /\ cheap(u) \in Int /\ cheap(t) \in Int
    BY <1>2, <1>3, <2>1, WeighingIsMonotone
  <2>3. good(u) <= good(t) /\ good(u) \in Int /\ good(t) \in Int
    BY <1>2, <1>3, <2>1, WeighingIsMonotone
  <2>4. fast(u) <= fast(t) /\ fast(u) \in Int /\ fast(t) \in Int
    BY <1>2, <1>3, <2>1, WeighingIsMonotone
  <2> HIDE DEF cheap, good, fast
  <2> QED  BY <2>2, <2>3, <2>4
<1>6. (2 * Grain * exact(u) + total) \div (2 * total)
        <= (2 * Grain * exact(t) + total) \div (2 * total)
  <2> HIDE DEF exact, total
  <2>1. 2 * Grain * exact(u) <= 2 * Grain * exact(t)
    <3>1. 2 * Grain \in Nat
      BY WidthAssumption
    <3>2. \A g \in Nat, a, b \in Int : a <= b => g * a <= g * b
      OBVIOUS
    <3> QED  BY <1>5, <3>1, <3>2
  <2>2. /\ 2 * Grain * exact(u) + total \in Int /\ 2 * Grain * exact(t) + total \in Int
        /\ 2 * Grain * exact(u) + total <= 2 * Grain * exact(t) + total
        /\ 2 * total \in Nat \ {0}
    BY <1>4, <1>5, <2>1, WidthAssumption
  <2> QED  BY <2>2, RoundingIsMonotone
<1>7. \A x \in S : Scores(p, S, cost, quality, latency)[x]
                   = (2 * Grain * exact(x) + total) \div (2 * total)
  BY DEF Scores
<1> QED
  BY <1>6, <1>7

\* The best has a greatest score, and of those with it the least cost.
LEMMA BestIsBest ==
    ASSUME NEW S, IsFiniteSet(S), S # {}, S \subseteq Int, NEW score, NEW cost,
           \A t \in S : score[t] \in Int /\ cost[t] \in Int,
           NEW t \in S, score[BestOf(S, score, cost)] <= score[t]
    PROVE  cost[BestOf(S, score, cost)] <= cost[t]
<1> DEFINE key == [x \in S |-> 0 - score[x]]
           top == Least(S, key)
           cheap == Least(top, cost)
           best == BestOf(S, score, cost)
<1>1. \A x \in S : key[x] \in Int /\ key[x] = 0 - score[x]
  OBVIOUS
<1>2. top # {} /\ top \subseteq S /\ IsFiniteSet(top)
  <2> HIDE DEF key
  <2> QED  BY <1>1, LeastKeeps
<1>3. cheap # {} /\ cheap \subseteq top /\ IsFiniteSet(cheap)
  <2> HIDE DEF top
  <2> QED  BY <1>2, LeastKeeps
<1>4. best \in cheap
  <2>1. First(cheap) \in cheap
    <3> HIDE DEF cheap
    <3> QED  BY <1>2, <1>3, FirstExists
  <2> QED  BY <2>1 DEF BestOf
<1> HIDE DEF key, best
<1>5. \A y \in S : key[best] <= key[y]
  BY <1>3, <1>4 DEF Least
<1>6. t \in top
  <2>1. best \in S /\ score[best] <= score[t]
    BY <1>2, <1>3, <1>4 DEF best
  <2>2. key[t] <= key[best]
    BY <1>1, <2>1
  <2>3. \A y \in S : key[t] <= key[y]
    BY <1>1, <1>5, <2>1, <2>2
  <2> QED  BY <2>3 DEF Least
<1>7. \A y \in top : cost[best] <= cost[y]
  BY <1>4 DEF Least
<1> QED
  BY <1>6, <1>7 DEF best

\* nothing kept beats best, which meets the floor if any survivor does
Unbeaten(s, p, S, kept, cost, quality, best) ==
    /\ \A t \in kept : ~ /\ cost[t] < cost[best] /\ quality[t] >= quality[best]
                         /\ s.tiers[t].latency <= s.tiers[best].latency
    /\ p.qualityFloor # None =>
         \/ quality[best] >= p.qualityFloor
         \/ \A t \in S : quality[t] < p.qualityFloor /\ quality[t] <= quality[best]

\* The choice is unbeaten.
LEMMA ChoiceIsUndominated ==
    ASSUME NEW s \in Snapshots, NEW r \in Requests, NEW p, NumericPolicy(p),
           NEW S, S \subseteq Known(s, p), S # {}
    PROVE  Unbeaten(s, p, S, KeptOf(s, p, r, S), CostsOf(s, r, S), QualitiesOf(s, p, r, S),
                    ChoiceOf(s, p, r, S))
<1> SUFFICES ASSUME NEW cost, cost = CostsOf(s, r, S),
                    NEW quality, quality = QualitiesOf(s, p, r, S),
                    NEW best, best = ChoiceOf(s, p, r, S)
             PROVE  Unbeaten(s, p, S, KeptOf(s, p, r, S), cost, quality, best)
  OBVIOUS
<1> DEFINE kept    == KeptOf(s, p, r, S)
           latency == [t \in kept |-> s.tiers[t].latency]
           score   == ScoresOf(s, p, r, S)
<1>1. S \subseteq DOMAIN s.tiers /\ S \subseteq Int /\ IsFiniteSet(S)
  <2>1. S \subseteq DOMAIN s.tiers /\ S \subseteq p.candidates
    BY DEF Known
  <2>2. IsFiniteSet(p.candidates) /\ DOMAIN s.tiers \subseteq Nat
    BY SnapshotNumbers DEF NumericPolicy
  <2> QED  BY <2>1, <2>2, FS_Subset
<1>2. \A t \in S : cost[t] \in Int /\ quality[t] \in Int
  BY <1>1, CostIsNat, QualityIsInt, RequestNumbers DEF CostsOf, QualitiesOf
<1>3. /\ kept \subseteq S /\ IsFiniteSet(kept) /\ best \in kept
      /\ \A t \in kept : score[t] \in Int
  BY ScoringIsSound
<1>4. \A t \in kept : latency[t] \in Int /\ latency[t] = s.tiers[t].latency
  <2> HIDE DEF kept
  <2> QED  BY <1>1, <1>3, SnapshotNumbers DEF NumericTier
<1>5. score = Scores(p, kept, cost, quality, latency) /\ best = BestOf(kept, score, cost)
  BY DEF ScoresOf, ChoiceOf
<1>6. kept = AboveFloor(p, S, quality)
  BY DEF KeptOf
<1> HIDE DEF kept, latency, score
<1>7. ASSUME NEW t \in kept
      PROVE  ~ /\ cost[t] < cost[best] /\ quality[t] >= quality[best]
               /\ s.tiers[t].latency <= s.tiers[best].latency
  <2> SUFFICES ASSUME cost[t] < cost[best], quality[t] >= quality[best],
                      s.tiers[t].latency <= s.tiers[best].latency
               PROVE  FALSE
    OBVIOUS
  <2>1. \A x \in kept : cost[x] \in Int /\ quality[x] \in Int /\ latency[x] \in Int
    BY <1>2, <1>3, <1>4
  <2>2. cost[t] <= cost[best] /\ quality[best] <= quality[t] /\ latency[t] <= latency[best]
    BY <1>3, <1>4, <1>7, <2>1
  <2>3. score[best] <= score[t]
    BY <1>3, <1>5, <1>7, <2>1, <2>2, ScoreIsMonotone
  <2>4. cost[best] <= cost[t]
    <3>1. kept # {} /\ kept \subseteq Int
      BY <1>1, <1>3
    <3> QED  BY <1>3, <1>5, <1>7, <2>1, <2>3, <3>1, BestIsBest
  <2> QED  BY <1>3, <1>7, <2>1, <2>4
<1>8. ASSUME p.qualityFloor # None
      PROVE  \/ quality[best] >= p.qualityFloor
             \/ \A t \in S : quality[t] < p.qualityFloor /\ quality[t] <= quality[best]
  <2>1. p.qualityFloor \in Int
    BY <1>8 DEF NumericPolicy
  <2>2. CASE {t \in S : quality[t] >= p.qualityFloor} # {}
    BY <1>3, <1>6, <1>8, <2>2 DEF AboveFloor
  <2>3. CASE {t \in S : quality[t] >= p.qualityFloor} = {}
    <3>1. \A t \in S : quality[t] <= quality[best]
      BY <1>3, <1>6, <1>8, <2>3 DEF AboveFloor
    <3>2. \A t \in S : quality[t] < p.qualityFloor
      BY <1>2, <2>1, <2>3
    <3> QED  BY <3>1, <3>2
  <2> QED  BY <2>2, <2>3
<1>9. Unbeaten(s, p, S, kept, cost, quality, best)
  BY <1>7, <1>8 DEF Unbeaten
<1> QED
  BY <1>9 DEF kept

-----------------------------------------------------------------------------
(* Hints. *)

\* Which policy is selected, seen from the policies that match.
LEMMA SelectionIsConsented ==
    ASSUME NEW s \in Snapshots, NEW r, NEW i, i = SelectPolicy(s, r)
    PROVE  IF i = None
           THEN \A j \in DOMAIN s.policies : ~ScopeMatches(s.policies[j], r)
           ELSE /\ i \in DOMAIN s.policies /\ ScopeMatches(s.policies[i], r)
                /\ (\E j \in 1..(i - 1) : ScopeMatches(s.policies[j], r)) =>
                       s.policies[i].overridable /\ r.policyHint \in s.policies[i].names
                /\ r.policyHint # None =>
                       \/ r.policyHint \in s.policies[i].names
                       \/ <<"ignored X-Routed-Policy", r.policyHint>> \in PolicyNotes(s, r)
<1> DEFINE M == Matching(s, r)
           H == Hinted(s, r)
<1>1. /\ M \in SUBSET Int /\ IsFiniteSet(M) /\ H \in SUBSET Int /\ IsFiniteSet(H)
      /\ H \subseteq M /\ M \subseteq DOMAIN s.policies
  <2>1. M \subseteq DOMAIN s.policies /\ H \subseteq M
    BY DEF Matching, Hinted
  <2> QED  BY <2>1, SnapshotNumbers, FS_Subset
<1>2. M # {} => First(M) \in M /\ \A j \in M : First(M) <= j
  BY <1>1, FirstExists
<1>3. H # {} => First(H) \in H
  BY <1>1, FirstExists
<1>4. CASE i = None
  <2>1. M = {}
    BY <1>1, <1>2, <1>3, <1>4, SnapshotNumbers DEF SelectPolicy, HintHonoured
  <2> QED  BY <1>4, <2>1 DEF Matching
<1>5. CASE i # None
  <2>1. i \in M /\ M # {}
    BY <1>5, SelectedMatches DEF SelectPolicy
  <2>2. CASE HintHonoured(s, r)
    <3>1. i = First(H) /\ i \in H /\ (s.policies[i].overridable \/ i = First(M))
      BY <1>3, <2>1, <2>2 DEF SelectPolicy, HintHonoured
    <3>2. r.policyHint \in s.policies[i].names
      BY <3>1 DEF Hinted
    <3>3. ASSUME NEW j \in 1..(i - 1), ScopeMatches(s.policies[j], r)
          PROVE  s.policies[i].overridable
      <4>1. j \in M /\ j < i
        <5>1. i \in 1..Len(s.policies) /\ Len(s.policies) \in Nat
          BY <1>1, <2>1, SnapshotNumbers
        <5>2. j \in 1..Len(s.policies) /\ j < i
          BY <5>1
        <5> QED  BY <3>3, <5>2, SnapshotNumbers DEF Matching
      <4>2. First(M) <= j /\ First(M) \in Int /\ j \in Int /\ i \in Int
        BY <1>1, <1>2, <2>1, <4>1
      <4>3. i # First(M)
        BY <4>1, <4>2
      <4> QED  BY <3>1, <4>3
    <3> QED  BY <1>1, <1>5, <2>1, <3>2, <3>3 DEF Matching
  <2>3. CASE ~HintHonoured(s, r)
    <3>1. i = First(M)
      BY <2>1, <2>3 DEF SelectPolicy
    <3>2. ASSUME NEW j \in 1..(i - 1), ScopeMatches(s.policies[j], r)
          PROVE  FALSE
      <4>1. j \in M /\ j < i
        <5>1. i \in 1..Len(s.policies) /\ Len(s.policies) \in Nat
          BY <1>1, <2>1, SnapshotNumbers
        <5>2. j \in 1..Len(s.policies) /\ j < i
          BY <5>1
        <5> QED  BY <3>2, <5>2, SnapshotNumbers DEF Matching
      <4>2. First(M) <= j /\ First(M) \in Int /\ j \in Int
        BY <1>1, <1>2, <2>1, <4>1
      <4> QED  BY <3>1, <4>1, <4>2
    <3>3. r.policyHint # None =>
            <<"ignored X-Routed-Policy", r.policyHint>> \in PolicyNotes(s, r)
      BY <2>3 DEF PolicyNotes
    <3> QED  BY <1>1, <1>5, <2>1, <3>2, <3>3 DEF Matching
  <2> QED  BY <2>2, <2>3
<1> QED
  BY <1>4, <1>5

\* A decision names the policy selected, and keeps the notes about it.
LEMMA DecisionNamesItsPolicy ==
    ASSUME NEW s, NEW r
    PROVE  Decide(s, r).policy = SelectPolicy(s, r) /\ PolicyNotes(s, r) \subseteq Decide(s, r).notes
<1> DEFINE i == SelectPolicy(s, r)
<1>1. CASE i = None
  BY <1>1 DEF Decide, Blank
<1>2. CASE i # None /\ ~RoutedAlias(s, r, i)
  <2>1. Decide(s, r) = [Blank(s, r) EXCEPT !.policy = i]
    BY <1>2 DEF Decide
  <2> HIDE DEF i
  <2>2. Decide(s, r).policy = i /\ Decide(s, r).notes = PolicyNotes(s, r)
    BY <2>1 DEF Blank
  <2> QED  BY <2>2 DEF i
<1>3. CASE i # None /\ RoutedAlias(s, r, i)
  <2>1. IsRouted(s, r)
    BY <1>3 DEF IsRouted
  <2> QED  BY <2>1, RoutedEnds DEF Ended
<1> QED
  BY <1>1, <1>2, <1>3

\* q is r without its class headers
HintFree(r, q) ==
    /\ q.classHints = <<>> /\ q.findings = r.findings
    /\ q.tenant = r.tenant /\ q.agent = r.agent /\ q.path = r.path /\ q.model = r.model
    /\ q.tools = r.tools /\ q.input = r.input /\ q.output = r.output
    /\ q.policyHint = r.policyHint

\* A class header never lowers the rank, nor, where ranks follow strictness,
\* admits a tier that the inferred class forbids.
LEMMA HeadersOnlyRaise ==
    ASSUME NEW s \in Snapshots, NEW r, CountedHints(r), NEW q, CountedHints(q), HintFree(r, q),
           NEW dc, dc = ResolveDataClass(s, r), NEW k, k = ResolveDataClass(s, q)
    PROVE  /\ Rank(s, dc) >= Rank(s, k)
           /\ k # None => dc # None
           /\ k # None /\ Laddered(s) => \A t \in DOMAIN s.tiers : Fits(s, dc, t) => Fits(s, k, t)
<1>0. None \notin DOMAIN s.classes
  BY SnapshotNumbers, ReasonAssumption
<1>1. CASE Considered(s, q) = {}
  <2>1. k = None
    BY <1>1 DEF ResolveDataClass
  <2>2. CASE Considered(s, r) = {}
    <3>1. dc = None
      BY <2>2 DEF ResolveDataClass
    <3> QED  BY <2>1, <3>1 DEF Rank
  <2>3. CASE \E x \in Considered(s, r) : TRUE
    <3>1. dc \in DOMAIN s.classes /\ dc # None
      BY <1>0, <2>3, ResolvedIsHighest
    <3>2. s.classes[dc].rank \in Nat
      BY <3>1, SnapshotNumbers
    <3> QED  BY <2>1, <3>1, <3>2 DEF Rank
  <2> QED  BY <2>2, <2>3
<1>2. CASE \E x \in Considered(s, q) : TRUE
  <2>1. PICK x \in Considered(s, q) : x.class = k
    BY <1>2, ResolvedIsHighest
  <2>2. k \in DOMAIN s.classes
    BY <1>2, ResolvedIsHighest
  <2>3. PICK y \in Considered(s, r) : y.class = k
    <3>0. DOMAIN q.classHints = {}
      <4>1. DOMAIN <<>> = {}
        OBVIOUS
      <4> QED  BY <4>1, Zenon DEF HintFree
    <3>1. \/ \E c \in DOMAIN s.classes \cap {r.findings.label} :
               x = [at |-> Len(q.classHints) + 1, class |-> c]
          \/ \E c \in DOMAIN s.classes :
               Detected(s, r.findings, c) /\ x = [at |-> Len(q.classHints) + 2, class |-> c]
      <4>1. q.findings = r.findings
        BY DEF HintFree
      <4> QED  BY <3>0, <4>1, ConsideredIs
    <3>2. \/ k \in DOMAIN s.classes \cap {r.findings.label}
          \/ k \in DOMAIN s.classes /\ Detected(s, r.findings, k)
      BY <2>1, <3>1
    <3>3. \/ [at |-> Len(r.classHints) + 1, class |-> k] \in Considered(s, r)
          \/ [at |-> Len(r.classHints) + 2, class |-> k] \in Considered(s, r)
      BY <3>2, ConsideredIs
    <3> QED  BY <3>3
  <2>4. dc \in DOMAIN s.classes /\ s.classes[k].rank <= s.classes[dc].rank
    BY <2>3, ResolvedIsHighest
  <2>5. s.classes[k].rank \in Nat /\ s.classes[dc].rank \in Nat
    BY <2>2, <2>4, SnapshotNumbers
  <2>6. dc # None /\ k # None
    BY <1>0, <2>2, <2>4
  <2>7. Rank(s, dc) >= Rank(s, k)
    BY <2>4, <2>5, <2>6 DEF Rank
  <2>8. Laddered(s) => \A t \in DOMAIN s.tiers : Fits(s, dc, t) => Fits(s, k, t)
    BY <2>2, <2>4, <2>5 DEF Laddered
  <2> QED  BY <2>6, <2>7, <2>8
<1> QED
  BY <1>1, <1>2

\* A request blocked without its class headers is blocked with them.
LEMMA HeadersNeverUnblock ==
    ASSUME NEW s \in Snapshots, NEW r, NumericRequest(r), NEW q, NumericRequest(q),
           HintFree(r, q), NEW p, NEW dc, NEW k,
           k # None => dc # None /\ \A t \in DOMAIN s.tiers : Fits(s, dc, t) => Fits(s, k, t),
           OutcomeUnder(s, q, p, k) = "BLOCK"
    PROVE  OutcomeUnder(s, r, p, dc) = "BLOCK"
<1>1. /\ RiskDenied(p, r) <=> RiskDenied(p, q)
      /\ Degraded(s, p, r) = Degraded(s, p, q)
      /\ \A t \in DOMAIN s.tiers : OverCap(p, r, s.tiers[t]) <=> OverCap(p, q, s.tiers[t])
  BY DEF RiskDenied, Degraded, OverCap, EstimateCost, HintFree
<1>2. ASSUME NEW t \in DOMAIN s.tiers
      PROVE  /\ FactViolation(s, p, r, dc, s.tiers[t]) = None
                   => FactViolation(s, p, q, k, s.tiers[t]) = None
             /\ HardViolation(s, p, r, dc, s.tiers[t]) = None
                   => HardViolation(s, p, q, k, s.tiers[t]) = None
  <2>1. MeetsFacts(s, p, r, dc, t) => MeetsFacts(s, p, q, k, t)
    BY DEF MeetsFacts, HintFree
  <2>2. FactViolation(s, p, r, dc, s.tiers[t]) = None
          => FactViolation(s, p, q, k, s.tiers[t]) = None
    BY <2>1, FactsOk, MeetingPasses
  <2>3. HardViolation(s, p, r, dc, s.tiers[t]) = None
          => FactViolation(s, p, r, dc, s.tiers[t]) = None /\ ~OverCap(p, r, s.tiers[t])
    BY HardOk DEF HardViolation
  <2> QED  BY <1>1, <2>2, <2>3 DEF HardViolation
<1>3. Survivors(s, p, r, dc) \subseteq Survivors(s, p, q, k)
  BY <1>2 DEF Survivors, Known
<1>4. \A c \in {"degraded", "fully"} : Refused(s, p, q, k, c) => Refused(s, p, r, dc, c)
  BY <1>2 DEF Refused
<1> QED
  BY <1>1, <1>3, <1>4 DEF OutcomeUnder

-----------------------------------------------------------------------------
(* Theorems of the specification. *)

\* an answer is what decide computes from the snapshot and the request held
Computed ==
    /\ snapshot \in Snapshots
    /\ request \in Requests
    /\ Answered => decision = Decide(snapshot, request)

\* The decision on record is decide's answer: the inductive invariant.
LEMMA AnswersAreComputed == Spec => []Computed
<1>1. Init => Computed
  BY DEF Init, Computed, Answered, Snapshots, Requests
<1>2. Computed /\ [Answer]_vars => Computed'
  BY DEF Computed, Answered, Answer, vars
<1> QED
  BY <1>1, <1>2, PTL DEF Spec

\* Whatever path decide took, the tier it routes to satisfies the data class,
\* the request facts, and, unless classification was degraded, the cost cap.
THEOREM RoutedTiersAreLawful == Spec => []RoutedTierIsLawful
<1>1. Computed => RoutedTierIsLawful
  BY DecideIsLawful DEF Computed, RoutedTierIsLawful, Routed, Answered
<1> QED
  BY <1>1, AnswersAreComputed, PTL

\* A known risk above the policy threshold blocks on every path.
THEOREM DeniedRisksBlock == Spec => []DeniedRiskAlwaysBlocks
<1>1. Computed => DeniedRiskAlwaysBlocks
  BY DecideIsLawful DEF Computed, DeniedRiskAlwaysBlocks, Policy, Answered
<1> QED
  BY <1>1, AnswersAreComputed, PTL

\* is_routed, which ingress asks before it classifies, agrees with decide.
THEOREM IngressNeverSkipsARoutedRequest == Spec => []IngressAgrees
<1>1. Computed => IngressAgrees
  BY DecideIsLawful DEF Computed, IngressAgrees, Answered
<1> QED
  BY <1>1, AnswersAreComputed, PTL

\* Losing a classifier, or a risk score that something depends on, leaves the
\* fallback as the only tier that may serve, and no candidate is scored.
THEOREM ClassifierLossIsConservative == Spec => []LostClassifierNeverOptimises
<1>1. ASSUME Computed, Answered, IsRouted(snapshot, request),
             \/ request.findings.degraded # {}
             \/ request.findings.risk = None /\ RiskNeeded(snapshot, Policy)
      PROVE  decision.selected \in {None, Policy.fallbackTier} /\ NoScores(decision)
  <2>1. decision = Decide(snapshot, request)
    BY <1>1 DEF Computed
  <2>2. Ended(snapshot, request, snapshot.policies[SelectPolicy(snapshot, request)],
              ResolveDataClass(snapshot, request), decision)
    BY <1>1, <2>1, RoutedEnds
  <2>3. Policy = snapshot.policies[SelectPolicy(snapshot, request)]
    BY <2>2 DEF Ended, Policy
  <2>4. Degraded(snapshot, Policy, request) # {}
    BY <1>1, LossIsDegraded
  <2> QED  BY <2>2, <2>3, <2>4 DEF Ended
<1>2. Computed => LostClassifierNeverOptimises
  BY <1>1 DEF LostClassifierNeverOptimises, RiskNeeded, NoScores
<1> QED
  BY <1>2, AnswersAreComputed, PTL

\* More tokens, a higher risk score or tools never rescue a blocked request.
THEOREM HarderRequestsStayBlocked == Spec => []HarderRequestNeverUnblocks
<1>1. ASSUME Computed, Answered, decision.outcome = "BLOCK",
             NEW q \in {[request EXCEPT !.tools = TRUE]}
               \union {[request EXCEPT !.input = n]  : n \in {m \in Tokens : m > request.input}}
               \union {[request EXCEPT !.output = n] : n \in {m \in Tokens : m > request.output}}
               \union {[request EXCEPT !.findings.risk = n] :
                           n \in {m \in Risks : /\ request.findings.risk # None
                                                /\ m > request.findings.risk}}
      PROVE  Decide(snapshot, q).outcome = "BLOCK"
  <2>1. NumericRequest(request) /\ request \in Requests
    BY <1>1, RequestNumbers DEF Computed
  <2>2. NumericRequest(q) /\ Harder(request, q)
    <3>1. CASE q = [request EXCEPT !.tools = TRUE]
      BY <2>1, <3>1, RequestNumbers DEF NumericRequest, Harder
    <3>2. ASSUME NEW n \in Tokens, n > request.input, q = [request EXCEPT !.input = n]
          PROVE  NumericRequest(q) /\ Harder(request, q)
      BY <2>1, <3>2, RequestNumbers, WhatIfAssumption DEF NumericRequest, Harder
    <3>3. ASSUME NEW n \in Tokens, n > request.output, q = [request EXCEPT !.output = n]
          PROVE  NumericRequest(q) /\ Harder(request, q)
      BY <2>1, <3>3, RequestNumbers, WhatIfAssumption DEF NumericRequest, Harder
    <3>4. ASSUME NEW n \in Risks, request.findings.risk # None,
                 n > request.findings.risk, q = [request EXCEPT !.findings.risk = n]
          PROVE  NumericRequest(q) /\ Harder(request, q)
      BY <2>1, <3>4, RequestNumbers, WhatIfAssumption, ReasonAssumption
         DEF NumericRequest, Harder
    <3> QED  BY <1>1, <3>1, <3>2, <3>3, <3>4
  <2>3. snapshot \in Snapshots /\ Decide(snapshot, request).outcome = "BLOCK"
    BY <1>1 DEF Computed
  <2> QED  BY <2>1, <2>2, <2>3, HarderStaysBlocked
<1>2. Computed => HarderRequestNeverUnblocks
  BY <1>1 DEF HarderRequestNeverUnblocks
<1> QED
  BY <1>2, AnswersAreComputed, PTL

\* No class a header names, the label gives or a confident detection implies
\* outranks the effective one.
THEOREM TheHighestClassApplies == Spec => []MostSensitiveClassWins
<1>1. ASSUME Computed, Answered, IsRouted(snapshot, request),
             NEW c \in DOMAIN snapshot.classes,
             \/ \E h \in DOMAIN request.classHints :
                    request.classHints[h] \in snapshot.classes[c].headerValues
             \/ c = request.findings.label
             \/ \E e \in DOMAIN request.findings.pii :
                    /\ e \in snapshot.classes[c].piiEntities
                    /\ request.findings.pii[e] >= snapshot.classes[c].minConfidence
      PROVE  Rank(snapshot, decision.dataClass) >= snapshot.classes[c].rank
  <2>1. \E x \in Considered(snapshot, request) : x.class = c
    <3>1. CASE \E h \in DOMAIN request.classHints :
                 request.classHints[h] \in snapshot.classes[c].headerValues
      <4>1. PICK h \in DOMAIN request.classHints : c \in Named(snapshot, request.classHints[h])
        BY <3>1 DEF Named
      <4>2. [at |-> h, class |-> c] \in Considered(snapshot, request)
        BY <1>1, <4>1, ConsideredIs
      <4> QED  BY <4>2
    <3>2. CASE c = request.findings.label
      <4>1. [at |-> Len(request.classHints) + 1, class |-> c] \in Considered(snapshot, request)
        BY <1>1, <3>2, ConsideredIs
      <4> QED  BY <4>1
    <3>3. CASE \E e \in DOMAIN request.findings.pii :
                 /\ e \in snapshot.classes[c].piiEntities
                 /\ request.findings.pii[e] >= snapshot.classes[c].minConfidence
      <4>1. Detected(snapshot, request.findings, c)
        BY <3>3 DEF Detected
      <4>2. [at |-> Len(request.classHints) + 2, class |-> c] \in Considered(snapshot, request)
        BY <1>1, <4>1, ConsideredIs
      <4> QED  BY <4>2
    <3> QED  BY <1>1, <3>1, <3>2, <3>3
  <2>2. decision.dataClass = ResolveDataClass(snapshot, request)
    <3>1. Ended(snapshot, request, snapshot.policies[SelectPolicy(snapshot, request)],
                ResolveDataClass(snapshot, request), Decide(snapshot, request))
      BY <1>1, RoutedEnds
    <3> QED  BY <1>1, <3>1 DEF Ended, Computed
  <2>3. /\ ResolveDataClass(snapshot, request) \in DOMAIN snapshot.classes
        /\ snapshot.classes[c].rank
             <= snapshot.classes[ResolveDataClass(snapshot, request)].rank
    BY <1>1, <2>1, ResolvedIsHighest, RequestNumbers DEF Computed, CountedHints
  <2>4. ResolveDataClass(snapshot, request) # None
    BY <1>1, <2>3, SnapshotNumbers, ReasonAssumption DEF Computed
  <2>5. /\ snapshot.classes[c].rank \in Int
        /\ snapshot.classes[ResolveDataClass(snapshot, request)].rank \in Int
    BY <1>1, <2>3, SnapshotNumbers DEF Computed
  <2> QED  BY <2>2, <2>3, <2>4, <2>5 DEF Rank
<1>2. Computed => MostSensitiveClassWins
  BY <1>1 DEF MostSensitiveClassWins
<1> QED
  BY <1>2, AnswersAreComputed, PTL

\* An optimised decision accounts for every candidate, with a score or a
\* reason, and saves against the dearest scored one.
THEOREM ExplanationsAddUp == Spec => []ExplanationAddsUp
<1>1. ASSUME Computed, Routed, ~decision.fallback
      PROVE  AddsUp(snapshot, Policy, decision)
  <2> DEFINE p  == snapshot.policies[SelectPolicy(snapshot, request)]
             dc == ResolveDataClass(snapshot, request)
             S  == Survivors(snapshot, p, request, dc)
  <2>1. decision = Decide(snapshot, request) /\ snapshot \in Snapshots /\ request \in Requests
    BY <1>1 DEF Computed, Routed
  <2>2. IsRouted(snapshot, request)
    BY <1>1, <2>1, DecideIsLawful DEF Routed
  <2>3. S # {} /\ decision = ScoreAndSelect(Eliminated(snapshot, request, p, dc),
                                           snapshot, p, request, S)
    BY <1>1, <2>1, <2>2, OptimisedIsScored DEF Routed
  <2>4. NumericPolicy(p)
    BY <2>1, <2>2, SelectedMatches, SnapshotNumbers DEF IsRouted, Matching
  <2>5. Policy = p
    <3>1. Ended(snapshot, request, p, dc, decision)
      BY <2>1, <2>2, RoutedEnds
    <3> QED  BY <3>1 DEF Ended, Policy
  <2> HIDE DEF p, dc, S
  <2>6. AddsUp(snapshot, p, decision)
    BY <2>1, <2>3, <2>4, ScoredAddsUp DEF S
  <2> QED  BY <2>5, <2>6
<1>2. Computed => ExplanationAddsUp
  BY <1>1 DEF ExplanationAddsUp, AddsUp
<1> QED
  BY <1>2, AnswersAreComputed, PTL

\* The policy header moves a request only into a matching policy that opted
\* in, and is noted when it is ignored.
LEMMA OverridesAreConsented == Computed /\ Answered => OverrideIsConsented
<1> SUFFICES ASSUME Computed, Answered  PROVE  OverrideIsConsented
  OBVIOUS
<1>1. /\ snapshot \in Snapshots /\ decision.policy = SelectPolicy(snapshot, request)
      /\ PolicyNotes(snapshot, request) \subseteq decision.notes
  BY DecisionNamesItsPolicy DEF Computed
<1>2. CASE decision.policy = None
  BY <1>1, <1>2, SelectionIsConsented DEF OverrideIsConsented
<1>3. CASE decision.policy # None
  <2>1. /\ ScopeMatches(Policy, request)
        /\ (\E j \in 1..(decision.policy - 1) : ScopeMatches(snapshot.policies[j], request)) =>
               Policy.overridable /\ request.policyHint \in Policy.names
        /\ request.policyHint # None =>
               \/ request.policyHint \in Policy.names
               \/ <<"ignored X-Routed-Policy", request.policyHint>>
                     \in PolicyNotes(snapshot, request)
    BY <1>1, <1>3, SelectionIsConsented DEF Policy
  <2> QED  BY <1>1, <1>3, <2>1 DEF OverrideIsConsented
<1> QED
  BY <1>2, <1>3

\* The class header makes routing stricter.
LEMMA HeadersTighten ==
    Computed /\ Answered /\ IsRouted(snapshot, request) => ClassHintTightens
<1> SUFFICES ASSUME Computed, Answered, IsRouted(snapshot, request)
             PROVE  ClassHintTightens
  OBVIOUS
<1> DEFINE s  == snapshot
           r  == request
           q  == [request EXCEPT !.classHints = <<>>]
           i  == SelectPolicy(s, r)
           dc == ResolveDataClass(s, r)
           k  == ResolveDataClass(s, q)
<1>1. s \in Snapshots /\ r \in Requests /\ decision = Decide(s, r)
  BY DEF Computed
<1>2. NumericRequest(r) /\ CountedHints(r)
  BY <1>1, RequestNumbers DEF CountedHints
<1>3. NumericRequest(q) /\ CountedHints(q) /\ HintFree(r, q)
  <2>1. Len(<<>>) = 0 /\ DOMAIN <<>> = 1..0
    OBVIOUS
  <2>2. q.classHints = <<>> /\ HintFree(r, q) /\ q.prediction = r.prediction
    BY <1>1, RequestNumbers DEF HintFree
  <2>3. NumericRequest(q)
    BY <1>2, <2>2 DEF NumericRequest, HintFree
  <2>4. Len(q.classHints) = 0 /\ DOMAIN q.classHints = 1..0
    BY <2>1, <2>2, Zenon
  <2> QED  BY <2>2, <2>3, <2>4 DEF CountedHints
<1>4. SelectPolicy(s, q) = i /\ IsRouted(s, q)
  <2> HIDE DEF q
  <2>1. Matching(s, q) = Matching(s, r)
    BY <1>3 DEF Matching, ScopeMatches, HintFree
  <2>2. Hinted(s, q) = Hinted(s, r)
    BY <1>3, <2>1 DEF Hinted, HintFree
  <2>3. SelectPolicy(s, q) = i
    BY <2>1, <2>2 DEF SelectPolicy, HintHonoured
  <2> QED  BY <1>3, <2>3 DEF IsRouted, RoutedAlias, HintFree
<1> DEFINE p == s.policies[i]
           u == Decide(s, q)
<1>5. /\ decision.policy = i /\ decision.dataClass = dc
      /\ decision.outcome = OutcomeUnder(s, r, p, dc)
  BY <1>1, RoutedEnds, RoutedOutcome DEF Ended
<1>6. u.dataClass = k /\ u.outcome = OutcomeUnder(s, q, p, k)
  <2> HIDE DEF q
  <2> QED  BY <1>4, RoutedEnds, RoutedOutcome DEF Ended
<1>7. /\ Rank(s, dc) >= Rank(s, k)
      /\ k # None => dc # None
      /\ k # None /\ Laddered(s) => \A t \in DOMAIN s.tiers : Fits(s, dc, t) => Fits(s, k, t)
  <2> HIDE DEF q
  <2> QED  BY <1>1, <1>2, <1>3, HeadersOnlyRaise
<1> HIDE DEF q
<1>8. Laddered(s) /\ u.outcome = "BLOCK" => decision.outcome = "BLOCK"
  <2> SUFFICES ASSUME Laddered(s), u.outcome = "BLOCK"  PROVE  decision.outcome = "BLOCK"
    OBVIOUS
  <2>1. OutcomeUnder(s, q, p, k) = "BLOCK"
    BY <1>6
  <2>2. k # None => dc # None /\ \A t \in DOMAIN s.tiers : Fits(s, dc, t) => Fits(s, k, t)
    BY <1>7
  <2> HIDE DEF p, dc, k, u
  <2>3. OutcomeUnder(s, r, p, dc) = "BLOCK"
    BY <1>1, <1>2, <1>3, <2>1, <2>2, HeadersNeverUnblock
  <2> QED  BY <1>5, <2>3
<1>9. ASSUME Laddered(s), Routed, Policy.respectDataClass, u.dataClass # None
      PROVE  Fits(s, u.dataClass, decision.selected)
  <2>1. Lawful(s, r, decision)
    BY <1>1, <1>9, DecideIsLawful DEF Routed
  <2>2. decision.selected \in DOMAIN s.tiers /\ Fits(s, dc, decision.selected)
    BY <1>5, <1>6, <1>7, <1>9, <2>1 DEF Lawful, Policy
  <2> QED  BY <1>6, <1>7, <1>9, <2>2
<1>10. WithoutClassHints = u
  BY DEF WithoutClassHints, q
<1> QED
  BY <1>5, <1>6, <1>7, <1>8, <1>9, <1>10 DEF ClassHintTightens

\* An optimised choice is beaten by no scored candidate, under any weights
\* and after rounding, and meets the quality floor whenever one can.
THEOREM ChoicesAreTheBest == Spec => []ChoiceIsTheBest
<1>1. ASSUME Computed, Routed, ~decision.fallback
      PROVE  ChoiceIsTheBest
  <2> DEFINE s  == snapshot
             r  == request
             p  == s.policies[SelectPolicy(s, r)]
             dc == ResolveDataClass(s, r)
             S  == Survivors(s, p, r, dc)
  <2>1. decision = Decide(s, r) /\ s \in Snapshots /\ r \in Requests
    BY <1>1 DEF Computed, Routed
  <2>2. IsRouted(s, r)
    BY <1>1, <2>1, DecideIsLawful DEF Routed
  <2>3. S # {} /\ decision = ScoreAndSelect(Eliminated(s, r, p, dc), s, p, r, S)
    BY <1>1, <2>1, <2>2, OptimisedIsScored DEF Routed
  <2>4. NumericPolicy(p)
    BY <2>1, <2>2, SelectedMatches, SnapshotNumbers DEF IsRouted, Matching
  <2>5. Policy = p /\ decision.dataClass = dc
    <3>1. Ended(s, r, p, dc, decision)
      BY <2>1, <2>2, RoutedEnds
    <3> QED  BY <3>1 DEF Ended, Policy
  <2> DEFINE cost    == CostsOf(s, r, S)
             quality == QualitiesOf(s, p, r, S)
             kept    == KeptOf(s, p, r, S)
             best    == ChoiceOf(s, p, r, S)
  <2> HIDE DEF p, dc
  <2>6. /\ S \subseteq Known(s, p) /\ decision.selected = best /\ decision.cost = cost[best]
        /\ {t \in DOMAIN decision.candidates : decision.candidates[t].score # None} = kept
        /\ \A t \in kept : decision.candidates[t].cost = cost[t]
    BY <2>1, <2>3, <2>4, ScoredFates
  <2>7. kept \subseteq S /\ best \in kept
    <3> HIDE DEF S
    <3> QED  BY <2>1, <2>3, <2>4, <2>6, ScoringIsSound
  <2>8. \A t \in S : QualityOf(t) = quality[t]
    BY <2>5 DEF QualityOf, QualitiesOf
  <2>9. S = Survivors(snapshot, Policy, request, decision.dataClass)
    BY <2>5
  <2> HIDE DEF S
  <2>10. Unbeaten(s, p, S, kept, cost, quality, best)
    BY <2>1, <2>3, <2>4, <2>6, ChoiceIsUndominated
  <2> HIDE DEF cost, quality, kept, best
  <2>11. Undominated
    BY <2>6, <2>7, <2>8, <2>10 DEF Undominated, Unbeaten
  <2> QED
    BY <2>5, <2>6, <2>7, <2>8, <2>9, <2>10, <2>11 DEF ChoiceIsTheBest, Unbeaten
<1>2. Computed => ChoiceIsTheBest
  BY <1>1 DEF ChoiceIsTheBest
<1> QED
  BY <1>2, AnswersAreComputed, PTL

\* What a caller puts into the two unauthenticated headers only tightens.
THEOREM HintsOnlyTighten == Spec => []HintsNeverLoosen
<1>1. Computed => HintsNeverLoosen
  BY OverridesAreConsented, HeadersTighten DEF HintsNeverLoosen
<1> QED
  BY <1>1, AnswersAreComputed, PTL
=============================================================================

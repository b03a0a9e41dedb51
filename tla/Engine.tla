------------------------------- MODULE Engine -------------------------------
(***************************************************************************)
(* The decision engine (crates/decision/src/lib.rs): a pure function from  *)
(* a compiled snapshot, the facts of a request and the classifier findings *)
(* to a decision.  Every router calls it once per request; nothing here    *)
(* performs I/O, so the whole of `decide` is one step.                     *)
(*                                                                         *)
(* Abstractions.  Tier and class names are numbers in the order of the     *)
(* BTreeMaps that hold them, so "name ascending" is <.  A glob pattern, a  *)
(* header value and a policy name are the sets of values they match, with  *)
(* trimming and case folding inside them.  Prices, qualities, confidences  *)
(* and risks, which the code keeps as f64 or micro-EUR, are integers; a    *)
(* score is the exact rational of the code rounded to 1/Grain, as round6   *)
(* does with Grain = 10^6.  The 1e-9 tolerances of float comparisons and   *)
(* the free text of `reason` are left out.                                 *)
(***************************************************************************)
EXTENDS Integers, FiniteSets, Sequences

CONSTANTS
    Families,     \* sets of snapshots a router may hold, each with the
                  \* requests (facts and findings) that meet them
    None,         \* an absent Option
    PerMillion,   \* tokens a tier price is quoted for (1_000_000)
    MaxU64,       \* where token sums and costs saturate (2^64 - 1)
    FullRisk,     \* risk 1.0: a tier that accepts it depends on no score
    Grain,        \* resolution of a rounded score
    Tokens, Risks \* values the what-if properties put in a request

ASSUME WidthAssumption ==
    /\ PerMillion \in Nat \ {0}
    /\ Grain \in Nat \ {0}
    /\ MaxU64 \in Nat

\* EliminationReason, the closed set of reasons (decision/types.rs)
Reason ==
    {"denyIfRiskScoreAbove", "allowedDataClasses", "requireJurisdiction",
     "forbidCloudActExposed", "requireOperatorControl", "forbidCapabilities",
     "requireCapabilities", "tools", "contextWindow", "maxRiskScore",
     "toolCallingAllowed", "maxCostPerRequest", "qualityFloor"}

ASSUME ReasonAssumption == None \notin Reason /\ None \notin Int

\* what the types of a compiled snapshot and of a request say of numbers
NumericTier(t) ==
    /\ t.contextWindow \in Nat /\ t.inputPrice \in Nat /\ t.outputPrice \in Nat
    /\ t.latency \in Nat /\ t.maxRiskScore \in Int /\ t.qualityBaseline \in Int
    /\ \A k \in DOMAIN t.qualityByTask : t.qualityByTask[k] \in Int

NumericPolicy(p) ==
    /\ IsFiniteSet(p.candidates)
    /\ p.maxCost \in Int \union {None}
    /\ p.denyAbove \in Int \union {None}
    /\ p.qualityFloor \in Int \union {None}
    /\ p.weights \in [cost : Nat, quality : Nat, latency : Nat]
    /\ p.weights.cost + p.weights.quality + p.weights.latency > 0

ASSUME SnapshotAssumption ==
    \A f \in Families : \A s \in f.snapshots :
        /\ DOMAIN s.tiers \subseteq Nat
        /\ \A t \in DOMAIN s.tiers : NumericTier(s.tiers[t])
        /\ Len(s.policies) \in Nat /\ DOMAIN s.policies = 1..Len(s.policies)
        /\ \A i \in DOMAIN s.policies : NumericPolicy(s.policies[i])
        /\ IsFiniteSet(DOMAIN s.classes) /\ DOMAIN s.classes \subseteq Nat
        /\ \A c \in DOMAIN s.classes : s.classes[c].rank \in Nat

NumericRequest(r) ==
    /\ r.input \in Nat /\ r.output \in Nat
    /\ r.findings.risk \in Int \union {None}
    /\ \A t \in DOMAIN r.prediction : r.prediction[t].quality \in Int

ASSUME RequestAssumption ==
    \A f \in Families : \A r \in f.requests :
        /\ NumericRequest(r)
        /\ DOMAIN r = {"tenant", "agent", "path", "model", "tools", "input", "output",
                       "classHints", "policyHint", "prediction", "findings"}
        /\ DOMAIN r.findings = {"task", "complexity", "risk", "pii", "label", "degraded"}
        /\ Len(r.classHints) \in Nat /\ DOMAIN r.classHints = 1..Len(r.classHints)

ASSUME WhatIfAssumption == Tokens \subseteq Nat /\ Risks \subseteq Int

VARIABLES snapshot, request, decision

vars == <<snapshot, request, decision>>

-----------------------------------------------------------------------------
(* Small arithmetic and order helpers. *)

\* A plausible bug: the sum wraps around
CappedWraps(n) == n % (MaxU64 + 1)

Capped(n) == IF n > MaxU64 THEN MaxU64 ELSE n

CeilDiv(n, d) == (n + d - 1) \div d

\* the members of S on which the key is smallest: one pass of a sort
Least(S, key) == {x \in S : \A y \in S : key[x] <= key[y]}

Lowest(S, key)  == key[CHOOSE x \in S : \A y \in S : key[x] <= key[y]]
Highest(S, key) == key[CHOOSE x \in S : \A y \in S : key[y] <= key[x]]

First(I) == CHOOSE i \in I : \A j \in I : i <= j

-----------------------------------------------------------------------------
(* Policy selection. *)

\* an empty list matches anything, an absent value matches as ""
ListMatches(patterns, value) ==
    \/ patterns = <<>>
    \/ \E n \in DOMAIN patterns : (IF value = None THEN "" ELSE value) \in patterns[n]

ScopeMatches(p, r) ==
    /\ ListMatches(p.tenants, r.tenant)
    /\ ListMatches(p.agents, r.agent)
    /\ ListMatches(p.paths, r.path)

Matching(s, r) == {i \in DOMAIN s.policies : ScopeMatches(s.policies[i], r)}

\* the matching policies X-Routed-Policy names, by key or by bare name
Hinted(s, r) == {i \in Matching(s, r) : r.policyHint \in s.policies[i].names}

\* the override is honoured for an overridable policy, or for the winner
HintHonoured(s, r) ==
    /\ Hinted(s, r) # {}
    /\ \/ s.policies[First(Hinted(s, r))].overridable
       \/ First(Hinted(s, r)) = First(Matching(s, r))

SelectPolicy(s, r) ==
    IF Matching(s, r) = {} THEN None
    ELSE IF HintHonoured(s, r) THEN First(Hinted(s, r))
    ELSE First(Matching(s, r))

PolicyNotes(s, r) ==
    IF r.policyHint = None \/ HintHonoured(s, r) THEN {}
    ELSE {<<"ignored X-Routed-Policy", r.policyHint>>}

RoutedAlias(s, r, i) == r.model \in s.policies[i].aliases

\* A plausible bug: the override is forgotten
IsRoutedByWinner(s, r) ==
    Matching(s, r) # {} /\ RoutedAlias(s, r, First(Matching(s, r)))

\* is_routed: ingress skips classification when this is false
IsRouted(s, r) ==
    /\ SelectPolicy(s, r) # None
    /\ RoutedAlias(s, r, SelectPolicy(s, r))

-----------------------------------------------------------------------------
(* The effective data class. *)

Named(s, value) == {c \in DOMAIN s.classes : value \in s.classes[c].headerValues}

\* a detected entity counts when its confidence reaches the class threshold
Detected(s, f, c) ==
    \E e \in DOMAIN f.pii \cap s.classes[c].piiEntities :
        f.pii[e] >= s.classes[c].minConfidence

\* A plausible bug: a header replaces inference
ConsideredTrustsHeader(s, r) ==
    (UNION {{[at |-> h, class |-> c] : c \in Named(s, r.classHints[h])} :
              h \in DOMAIN r.classHints})
    \union {[at |-> 9, class |-> c] :
              c \in {k \in DOMAIN s.classes : r.classHints = <<>> /\ Detected(s, r.findings, k)}}

\* every class considered, and when: headers in order, the label, then PII
Considered(s, r) ==
    LET last == Len(r.classHints) IN
    (UNION {{[at |-> h, class |-> c] : c \in Named(s, r.classHints[h])} :
              h \in DOMAIN r.classHints})
    \union {[at |-> last + 1, class |-> c] :
              c \in DOMAIN s.classes \cap {r.findings.label}}
    \union {[at |-> last + 2, class |-> c] :
              c \in {k \in DOMAIN s.classes : Detected(s, r.findings, k)}}

\* A plausible bug: the first class seen wins
ResolveDataClassFirst(s, r) ==
    LET seen  == Considered(s, r)
        early == Least(seen, [x \in seen |-> x.at])
    IN  IF seen = {} THEN None ELSE (CHOOSE x \in early : TRUE).class

\* the highest rank wins; of equal ranks the one considered first is kept
ResolveDataClass(s, r) ==
    LET seen  == Considered(s, r)
        top   == Least(seen, [x \in seen |-> 0 - s.classes[x.class].rank])
        early == Least(top, [x \in top |-> x.at])
        final == Least(early, [x \in early |-> x.class])
    IN  IF seen = {} THEN None ELSE (CHOOSE x \in final : TRUE).class

ClassNotes(s, r) ==
    {<<"unknown data class", r.classHints[h]>> :
        h \in {k \in DOMAIN r.classHints : Named(s, r.classHints[k]) = {}}}

-----------------------------------------------------------------------------
(* Hard constraints.  The first check that fails names the reason. *)

Fails(cond, reason) == [fails |-> cond, by |-> reason]

FirstFailure(checks) ==
    LET failing == {k \in DOMAIN checks : checks[k].fails}
    IN  IF failing = {} THEN None ELSE checks[First(failing)].by

DataClassViolation(t, c, name) == FirstFailure(<<
    Fails(name \notin t.allowedDataClasses, "allowedDataClasses"),
    Fails(/\ c.requireJurisdiction # {}
          /\ t.jurisdiction \notin c.requireJurisdiction, "requireJurisdiction"),
    Fails(c.forbidCloudActExposed /\ t.cloudActExposed, "forbidCloudActExposed"),
    Fails(/\ c.requireOperatorControl # {}
          /\ t.operatorControl \notin c.requireOperatorControl, "requireOperatorControl"),
    Fails(t.capabilities \cap c.forbidCapabilities # {}, "forbidCapabilities") >>)

\* The sum is taken in u128, which holds it unless counts and prices are all
\* near the greatest u64 (left out); the result saturates.
EstimateCost(t, r) ==
    Capped(CeilDiv(r.input * t.inputPrice + r.output * t.outputPrice, PerMillion))

\* A plausible bug: the tier's word on tools is not asked
ToolsForbiddenNever(t, r) == FALSE

ToolsForbidden(t, r) == r.tools /\ ~t.toolCallingAllowed

FactViolation(s, p, r, dc, t) ==
    LET ofClass == IF p.respectDataClass /\ dc # None
                   THEN DataClassViolation(t, s.classes[dc], dc) ELSE None
    IN  IF ofClass # None THEN ofClass ELSE FirstFailure(<<
            Fails(~(p.requireCapabilities \subseteq t.capabilities), "requireCapabilities"),
            Fails(r.tools /\ "tools" \notin t.capabilities, "tools"),
            Fails(t.contextWindow < Capped(r.input + r.output), "contextWindow"),
            Fails(/\ r.findings.risk # None
                  /\ r.findings.risk > t.maxRiskScore, "maxRiskScore"),
            Fails(ToolsForbidden(t, r), "toolCallingAllowed") >>)

OverCap(p, r, t) == p.maxCost # None /\ EstimateCost(t, r) > p.maxCost

HardViolation(s, p, r, dc, t) ==
    LET fact == FactViolation(s, p, r, dc, t)
    IN  IF fact # None THEN fact
        ELSE IF OverCap(p, r, t) THEN "maxCostPerRequest" ELSE None

-----------------------------------------------------------------------------
(* Building a decision.  `candidates` maps a tier to its fate. *)

Fate(by, cost, score) == [eliminatedBy |-> by, cost |-> cost, score |-> score]

Blank(s, r) ==
    [outcome |-> "PASS_THROUGH", policy |-> None, dataClass |-> None,
     selected |-> None, candidates |-> <<>>, cost |-> None, savings |-> None,
     reasoning |-> None, fallback |-> FALSE, degraded |-> r.findings.degraded,
     notes |-> PolicyNotes(s, r)]

Known(s, p) == p.candidates \cap DOMAIN s.tiers

\* parameters_for: an injected reasoning level, when the policy maps one
Reasoning(p, r) ==
    IF r.findings.complexity \in DOMAIN p.reasoningMap
    THEN p.reasoningMap[r.findings.complexity] ELSE None

\* some candidate, or the policy, cannot be judged without a risk score
RiskNeeded(s, p) ==
    \/ p.denyAbove # None
    \/ \E t \in Known(s, p) : s.tiers[t].maxRiskScore < FullRisk

\* A plausible bug: a missing risk score passes
DegradedIgnoresRisk(s, p, r) == r.findings.degraded

Degraded(s, p, r) ==
    r.findings.degraded \union
        (IF r.findings.risk = None /\ RiskNeeded(s, p) THEN {"risk:missing"} ELSE {})

\* deny_if_risk_score_above: every candidate is eliminated at once
RiskDenied(p, r) ==
    /\ p.denyAbove # None
    /\ r.findings.risk # None
    /\ r.findings.risk > p.denyAbove

BlockRisky(d, p) ==
    [d EXCEPT !.outcome = "BLOCK",
              !.candidates = [t \in p.candidates |->
                                 Fate("denyIfRiskScoreAbove", None, None)]]

\* fallback_or_block: the fallback answers to the request facts, and to the
\* cost cap as well unless classification is degraded
FallbackOrBlock(d, s, p, r, classified) ==
    LET f   == p.fallbackTier
        why == IF classified = "degraded" THEN FactViolation(s, p, r, d.dataClass, s.tiers[f])
               ELSE HardViolation(s, p, r, d.dataClass, s.tiers[f])
        others == DOMAIN d.candidates \ {f}
    IN  IF f = None \/ f \notin DOMAIN s.tiers
        THEN [d EXCEPT !.outcome = "BLOCK", !.fallback = TRUE]
        ELSE IF why # None
        THEN [d EXCEPT !.outcome = "BLOCK", !.fallback = TRUE,
                       !.candidates = [t \in others \union {f} |->
                            IF t \in DOMAIN d.candidates THEN d.candidates[t]
                            ELSE Fate(why, None, None)]]
        ELSE [d EXCEPT !.outcome = "ROUTE", !.fallback = TRUE, !.selected = f,
                       !.cost = EstimateCost(s.tiers[f], r), !.savings = 0,
                       !.reasoning = Reasoning(p, r),
                       !.notes = d.notes \union
                            (IF f \in DOMAIN d.candidates THEN {<<"relaxed", f>>} ELSE {}),
                       !.candidates = [t \in others \union {f} |->
                            IF t = f THEN Fate(None, EstimateCost(s.tiers[f], r), None)
                            ELSE d.candidates[t]]]

-----------------------------------------------------------------------------
(* Scoring the survivors. *)

\* a confident learned prediction, else the task prior, else the baseline
PredictedQuality(p, r, t, tier) ==
    IF /\ p.learnedEnabled
       /\ t \in DOMAIN r.prediction
       /\ r.prediction[t].confidence >= p.minConfidence
    THEN r.prediction[t].quality
    ELSE IF r.findings.task \in DOMAIN tier.qualityByTask
    THEN tier.qualityByTask[r.findings.task]
    ELSE tier.qualityBaseline

\* survivors at the floor; if none reaches it, those of the best quality
AboveFloor(p, S, quality) ==
    LET above == {t \in S : quality[t] >= p.qualityFloor}
    IN  IF p.qualityFloor = None THEN S
        ELSE IF above # {} THEN above
        ELSE {t \in S : \A u \in S : quality[u] <= quality[t]}

\* the width of a min-max normalisation; a flat key normalises to zero
Width(S, key) ==
    IF Highest(S, key) > Lowest(S, key) THEN Highest(S, key) - Lowest(S, key) ELSE 1

\* w.cost*(1-cost_n) + w.quality*q_n + w.latency*(1-lat_n) over the common
\* denominator of the three normalisations, rounded to 1/Grain
Scores(p, S, cost, quality, latency) ==
    LET c == Width(S, cost)
        q == Width(S, quality)
        l == Width(S, latency)
        total == (p.weights.cost + p.weights.quality + p.weights.latency) * c * q * l
        exact == [t \in S |->
            p.weights.cost      * (c - (cost[t] - Lowest(S, cost))) * q * l
            + p.weights.quality * (quality[t] - Lowest(S, quality)) * c * l
            + p.weights.latency * (l - (latency[t] - Lowest(S, latency))) * c * q]
    IN  [t \in S |-> (2 * Grain * exact[t] + total) \div (2 * total)]

\* A plausible bug: the tie-break on cost is lost
BestOfByName(S, score, cost) == First(Least(S, [t \in S |-> 0 - score[t]]))

\* score descending, cost ascending, name ascending
BestOf(S, score, cost) ==
    LET top   == Least(S, [t \in S |-> 0 - score[t]])
        cheap == Least(top, cost)
    IN  First(cheap)

\* A plausible bug: against every survivor
SavingsOfSurvivors(cost, scored, best) == Highest(DOMAIN cost, cost) - cost[best]

\* against the dearest scored candidate
Savings(cost, scored, best) == Highest(scored, cost) - cost[best]

ScoreAndSelect(d, s, p, r, S) ==
    LET cost    == [t \in S |-> EstimateCost(s.tiers[t], r)]
        quality == [t \in S |-> PredictedQuality(p, r, t, s.tiers[t])]
        kept    == AboveFloor(p, S, quality)
        score   == Scores(p, kept, cost, quality, [t \in kept |-> s.tiers[t].latency])
        best    == BestOf(kept, score, cost)
    IN  [d EXCEPT !.outcome = "ROUTE", !.selected = best, !.cost = cost[best],
                  !.savings = Savings(cost, kept, best),
                  !.reasoning = Reasoning(p, r),
                  !.candidates = [t \in Known(s, p) |->
                       IF t \in kept THEN Fate(None, cost[t], score[t])
                       ELSE IF t \in S THEN Fate("qualityFloor", cost[t], None)
                       ELSE d.candidates[t]]]

-----------------------------------------------------------------------------
(* decide: the stages in their fixed order, each with its early return. *)

Survivors(s, p, r, dc) ==
    {t \in Known(s, p) : HardViolation(s, p, r, dc, s.tiers[t]) = None}

\* A plausible bug: degradation is looked at before the risk score
JudgeDegradedFirst(d, s, p, r) ==
    LET dc         == d.dataClass
        degraded   == [d EXCEPT !.degraded = Degraded(s, p, r)]
        eliminated == [d EXCEPT !.candidates =
                          [t \in Known(s, p) \ Survivors(s, p, r, dc) |->
                              Fate(HardViolation(s, p, r, dc, s.tiers[t]), None, None)]]
    IN  IF Degraded(s, p, r) # {} THEN FallbackOrBlock(degraded, s, p, r, "degraded")
        ELSE IF RiskDenied(p, r) THEN BlockRisky(d, p)
        ELSE IF Survivors(s, p, r, dc) = {} THEN FallbackOrBlock(eliminated, s, p, r, "fully")
        ELSE ScoreAndSelect(eliminated, s, p, r, Survivors(s, p, r, dc))

Judge(d, s, p, r) ==
    LET dc         == d.dataClass
        degraded   == [d EXCEPT !.degraded = Degraded(s, p, r)]
        eliminated == [d EXCEPT !.candidates =
                          [t \in Known(s, p) \ Survivors(s, p, r, dc) |->
                              Fate(HardViolation(s, p, r, dc, s.tiers[t]), None, None)]]
    IN  IF RiskDenied(p, r) THEN BlockRisky(d, p)
        ELSE IF Degraded(s, p, r) # {} THEN FallbackOrBlock(degraded, s, p, r, "degraded")
        ELSE IF Survivors(s, p, r, dc) = {} THEN FallbackOrBlock(eliminated, s, p, r, "fully")
        ELSE ScoreAndSelect(eliminated, s, p, r, Survivors(s, p, r, dc))

Decide(s, r) ==
    LET i == SelectPolicy(s, r) IN
    IF i = None THEN Blank(s, r)
    ELSE IF ~RoutedAlias(s, r, i) THEN [Blank(s, r) EXCEPT !.policy = i]
    ELSE Judge([Blank(s, r) EXCEPT !.policy = i,
                                   !.dataClass = ResolveDataClass(s, r),
                                   !.notes = @ \union ClassNotes(s, r)],
               s, s.policies[i], r)

-----------------------------------------------------------------------------
Init ==
    /\ \E f \in Families : snapshot \in f.snapshots /\ request \in f.requests
    /\ decision = None

Answer ==
    /\ decision = None
    /\ decision' = Decide(snapshot, request)
    /\ UNCHANGED <<snapshot, request>>

Spec == Init /\ [][Answer]_vars

-----------------------------------------------------------------------------
(* What the engine promises.  The reference definitions below are written   *)
(* from the documents, not from the operators above.                       *)

Answered == decision # None
Routed   == Answered /\ decision.outcome = "ROUTE"

Policy == snapshot.policies[decision.policy]

\* the tier satisfies every constraint of the data class
Fits(s, c, t) ==
    LET class == s.classes[c]
        tier  == s.tiers[t]
    IN  /\ c \in tier.allowedDataClasses
        /\ class.requireJurisdiction = {} \/ tier.jurisdiction \in class.requireJurisdiction
        /\ class.forbidCloudActExposed => ~tier.cloudActExposed
        /\ \/ class.requireOperatorControl = {}
           \/ tier.operatorControl \in class.requireOperatorControl
        /\ \A k \in tier.capabilities : k \notin class.forbidCapabilities

Rank(s, c) == IF c = None THEN -1 ELSE s.classes[c].rank

\* The decision record keeps its shape: a route names a tier, its cost and
\* its savings; anything else names no tier.
TypeOK ==
    /\ \E f \in Families : snapshot \in f.snapshots /\ request \in f.requests
    /\ Answered =>
        /\ decision.outcome \in {"ROUTE", "PASS_THROUGH", "BLOCK"}
        /\ Routed <=> decision.selected # None
        /\ Routed => /\ decision.selected \in DOMAIN snapshot.tiers
                     /\ decision.cost \in 0..MaxU64
                     /\ decision.savings \in 0..MaxU64

\* what the constraints ask of the tier a decision d selects
Lawful(s, r, d) ==
    LET p == s.policies[d.policy]
        t == s.tiers[d.selected]
    IN  /\ d.selected \in DOMAIN s.tiers
        /\ (p.respectDataClass /\ d.dataClass # None) => Fits(s, d.dataClass, d.selected)
        /\ p.requireCapabilities \subseteq t.capabilities
        /\ r.tools => "tools" \in t.capabilities /\ t.toolCallingAllowed
        /\ Capped(r.input + r.output) <= t.contextWindow
        /\ r.findings.risk # None => r.findings.risk <= t.maxRiskScore
        /\ d.degraded = {} => ~OverCap(p, r, t)
        /\ d.selected \in (IF d.fallback THEN {p.fallbackTier} ELSE p.candidates)

\* Security comes before cost (docs/adr/0003): whatever path led to it, a
\* routed tier satisfies the data class and the request facts; an optimised
\* choice is one of the policy's candidates and within the cost cap, and so
\* is a fallback taken for any reason but a degraded classification.
RoutedTierIsLawful == Routed => Lawful(snapshot, request, decision)

\* A known risk above the policy threshold blocks the request on every path:
\* a fallback, a degraded classifier or a pass-through cannot outrun it.
DeniedRiskAlwaysBlocks ==
    (Answered /\ IsRouted(snapshot, request)) =>
        (RiskDenied(Policy, request) => decision.outcome = "BLOCK")

\* Losing a classifier never lets the engine optimise: with a classifier
\* down, or without a risk score the policy or a candidate depends on, no
\* candidate is scored and the only tier that may serve is the fallback.
LostClassifierNeverOptimises ==
    (/\ Answered
     /\ IsRouted(snapshot, request)
     /\ \/ request.findings.degraded # {}
        \/ /\ request.findings.risk = None
           /\ \/ Policy.denyAbove # None
              \/ \E t \in Known(snapshot, Policy) :
                     snapshot.tiers[t].maxRiskScore < FullRisk)
        => /\ decision.selected \in {None, Policy.fallbackTier}
           /\ \A t \in DOMAIN decision.candidates : decision.candidates[t].score = None

\* Making a request harder never rescues it: a blocked request stays blocked
\* with more tokens, a higher risk score or tools added.
HarderRequestNeverUnblocks ==
    (Answered /\ decision.outcome = "BLOCK") =>
        \A q \in {[request EXCEPT !.tools = TRUE]}
            \union {[request EXCEPT !.input = n]  : n \in {m \in Tokens : m > request.input}}
            \union {[request EXCEPT !.output = n] : n \in {m \in Tokens : m > request.output}}
            \union {[request EXCEPT !.findings.risk = n] :
                        n \in {m \in Risks : /\ request.findings.risk # None
                                             /\ m > request.findings.risk}} :
            Decide(snapshot, q).outcome = "BLOCK"

\* No class that a header names, the label gives or a confident detection
\* implies outranks the effective one.
MostSensitiveClassWins ==
    (Answered /\ IsRouted(snapshot, request)) =>
        \A c \in DOMAIN snapshot.classes :
            (\/ \E h \in DOMAIN request.classHints :
                    request.classHints[h] \in snapshot.classes[c].headerValues
             \/ c = request.findings.label
             \/ \E e \in DOMAIN request.findings.pii :
                    /\ e \in snapshot.classes[c].piiEntities
                    /\ request.findings.pii[e] >= snapshot.classes[c].minConfidence)
            => Rank(snapshot, decision.dataClass) >= snapshot.classes[c].rank

\* ranks order the classes by strictness, as an administrator intends them
Laddered(s) ==
    \A c, k \in DOMAIN s.classes :
        c # k =>
            /\ s.classes[c].rank # s.classes[k].rank
            /\ (s.classes[c].rank < s.classes[k].rank) =>
                    (\A t \in DOMAIN s.tiers : Fits(s, k, t) => Fits(s, c, t))

WithoutClassHints == Decide(snapshot, [request EXCEPT !.classHints = <<>>])

\* The class header never lowers the effective rank, and where ranks follow
\* strictness it neither routes a request that would be blocked without it
\* nor reaches a tier the inferred class forbids.
ClassHintTightens ==
    LET u == WithoutClassHints IN
    /\ Rank(snapshot, decision.dataClass) >= Rank(snapshot, u.dataClass)
    /\ Laddered(snapshot) =>
        /\ u.outcome = "BLOCK" => decision.outcome = "BLOCK"
        /\ (Routed /\ Policy.respectDataClass /\ u.dataClass # None) =>
                Fits(snapshot, u.dataClass, decision.selected)

\* The policy header moves a request only between policies that match it, only
\* into one that opted in, and is noted if it changed nothing and did not name
\* the policy that applied.
OverrideIsConsented ==
    IF decision.policy = None
    THEN \A i \in DOMAIN snapshot.policies : ~ScopeMatches(snapshot.policies[i], request)
    ELSE /\ ScopeMatches(Policy, request)
         /\ (\E i \in 1..(decision.policy - 1) :
                 ScopeMatches(snapshot.policies[i], request)) =>
                    Policy.overridable /\ request.policyHint \in Policy.names
         /\ request.policyHint # None =>
                \/ request.policyHint \in Policy.names
                \/ <<"ignored X-Routed-Policy", request.policyHint>> \in decision.notes

\* What a caller puts into X-Routed-Data-Class and X-Routed-Policy, which
\* nobody authenticates (docs/adr/0007), makes routing stricter or selects
\* among the policies that allow it.
HintsNeverLoosen ==
    Answered => /\ OverrideIsConsented
                /\ IsRouted(snapshot, request) => ClassHintTightens

\* Ingress asks is_routed before it classifies and skips the engine's other
\* inputs when it says no; the answer is the one decide reaches with them.
IngressAgrees ==
    Answered => (IsRouted(snapshot, request) <=> decision.outcome # "PASS_THROUGH")

\* An optimised decision accounts for every candidate once, with a score or
\* a reason, and its savings are those against the dearest scored candidate,
\* never against an eliminated one.
ExplanationAddsUp ==
    (Routed /\ ~decision.fallback) =>
        LET fate   == decision.candidates
            scored == {t \in DOMAIN fate : fate[t].score # None}
        IN  /\ DOMAIN fate = Known(snapshot, Policy)
            /\ \A t \in DOMAIN fate : (t \in scored) <=> (fate[t].eliminatedBy = None)
            /\ decision.selected \in scored
            /\ \A t \in scored : fate[t].cost <= decision.cost + decision.savings
            /\ \E t \in scored : fate[t].cost = decision.cost + decision.savings

QualityOf(t) == PredictedQuality(Policy, request, t, snapshot.tiers[t])

\* The choice is never beaten outright: no scored candidate is cheaper and
\* at least as good and as fast, under any weights and after rounding.
Undominated ==
    \A t \in DOMAIN decision.candidates :
        decision.candidates[t].score # None =>
            ~ /\ decision.candidates[t].cost < decision.cost
              /\ QualityOf(t) >= QualityOf(decision.selected)
              /\ snapshot.tiers[t].latency <= snapshot.tiers[decision.selected].latency

\* An optimised choice is undominated and meets the quality floor whenever a
\* lawful candidate can; when none can, no lawful candidate is better.
ChoiceIsTheBest ==
    (Routed /\ ~decision.fallback) =>
        /\ Undominated
        /\ Policy.qualityFloor # None =>
             \/ QualityOf(decision.selected) >= Policy.qualityFloor
             \/ \A t \in Survivors(snapshot, Policy, request, decision.dataClass) :
                   /\ QualityOf(t) < Policy.qualityFloor
                   /\ QualityOf(t) <= QualityOf(decision.selected)
=============================================================================

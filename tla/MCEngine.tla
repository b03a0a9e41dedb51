------------------------------ MODULE MCEngine ------------------------------
(* Worlds for TLC.  Each family varies one part of a snapshot and of a      *)
(* request through every combination and fixes the rest.                    *)
EXTENDS Engine, TLC

Empty == [x \in {} |-> 0]

BaseTier ==
  [capabilities |-> {"chat", "tools"}, contextWindow |-> 6, inputPrice |-> 2,
   outputPrice |-> 4, qualityBaseline |-> 5, qualityByTask |-> Empty, latency |-> 2,
   jurisdiction |-> "eu", operatorControl |-> "self", cloudActExposed |-> FALSE,
   allowedDataClasses |-> {1, 2, 3}, maxRiskScore |-> 10, toolCallingAllowed |-> TRUE]

BaseClass ==
  [rank |-> 1, headerValues |-> {"secret"}, piiEntities |-> {"email"}, minConfidence |-> 5,
   requireJurisdiction |-> {}, forbidCloudActExposed |-> FALSE,
   requireOperatorControl |-> {}, forbidCapabilities |-> {}]

BasePolicy ==
  [names |-> {"ns/p", "p"}, tenants |-> <<>>, agents |-> <<>>, paths |-> <<>>,
   aliases |-> {"auto"}, candidates |-> {1, 2}, respectDataClass |-> TRUE,
   maxCost |-> None, requireCapabilities |-> {}, denyAbove |-> None, qualityFloor |-> None,
   weights |-> [cost |-> 6, quality |-> 3, latency |-> 1], learnedEnabled |-> FALSE,
   minConfidence |-> 5, reasoningMap |-> [c \in {"high"} |-> "deep"],
   fallbackTier |-> None, overridable |-> FALSE]

BaseRequest ==
  [tenant |-> None, agent |-> None, path |-> "/v1", model |-> "auto", tools |-> FALSE,
   input |-> 1, output |-> 1, classHints |-> <<>>, policyHint |-> None, prediction |-> Empty,
   findings |-> [task |-> None, complexity |-> "high", risk |-> 2, pii |-> Empty,
                 label |-> None, degraded |-> {}]]

MCTokens == {1, 4, 12}
MCRisks  == {2, 7}

-----------------------------------------------------------------------------
(* Constraints: each tier fails at most one check; 12 saturates.            *)

StrictClass ==
  [BaseClass EXCEPT !.requireJurisdiction = {"eu"}, !.forbidCloudActExposed = TRUE,
                    !.requireOperatorControl = {"self"}, !.forbidCapabilities = {"audio"}]

ConstraintTiers ==
  {BaseTier,
   [BaseTier EXCEPT !.allowedDataClasses = {}],
   [BaseTier EXCEPT !.jurisdiction = "us"],
   [BaseTier EXCEPT !.cloudActExposed = TRUE],
   [BaseTier EXCEPT !.operatorControl = "provider"],
   [BaseTier EXCEPT !.capabilities = {"chat", "tools", "audio"}],
   [BaseTier EXCEPT !.capabilities = {"chat"}],
   [BaseTier EXCEPT !.capabilities = {"tools"}],
   [BaseTier EXCEPT !.contextWindow = 12],
   [BaseTier EXCEPT !.maxRiskScore = 5],
   [BaseTier EXCEPT !.toolCallingAllowed = FALSE],
   [BaseTier EXCEPT !.inputPrice = 9]}

ConstraintPolicies ==
  {[BasePolicy EXCEPT !.candidates = c[1], !.fallbackTier = c[2], !.denyAbove = d,
                      !.maxCost = m, !.respectDataClass = b,
                      !.requireCapabilities = {"chat"}] :
      c \in {<<{1}, None>>, <<{1}, 2>>, <<{1, 2}, 2>>}, d \in {None, 6},
      m \in {None, 3}, b \in BOOLEAN}

SecondTiers ==
  {BaseTier,
   [BaseTier EXCEPT !.allowedDataClasses = {}],
   [BaseTier EXCEPT !.contextWindow = 12, !.inputPrice = 9],
   [BaseTier EXCEPT !.maxRiskScore = 5]}

ConstraintSnapshots ==
  {[tiers |-> <<t, u>>, classes |-> <<StrictClass>>, policies |-> <<p>>] :
      t \in ConstraintTiers, u \in SecondTiers, p \in ConstraintPolicies}

ConstraintRequests ==
  {[BaseRequest EXCEPT !.tools = b, !.input = n, !.classHints = h,
                       !.findings.risk = k, !.findings.degraded = g] :
      b \in BOOLEAN, n \in MCTokens, h \in {<<>>, <<"secret">>},
      k \in {None} \union MCRisks, g \in {{}, {"pii"}}}

-----------------------------------------------------------------------------
(* Scoring: three tiers, ties, floors, weights and a learned prediction.    *)

ScoringTiers ==
  {[BaseTier EXCEPT !.inputPrice = 4 * c, !.outputPrice = 0, !.latency = l,
                    !.qualityBaseline = q] :
      c \in 1..3, l \in 1..2, q \in {3, 7}}

ScoringPolicies ==
  {[BasePolicy EXCEPT !.candidates = {1, 2, 3}, !.qualityFloor = f, !.weights = w,
                      !.learnedEnabled = TRUE, !.maxCost = 2] :
      f \in {None, 4, 9},
      w \in {[cost |-> 6, quality |-> 3, latency |-> 1],
             [cost |-> 0, quality |-> 8, latency |-> 1],
             [cost |-> 1, quality |-> 1, latency |-> 1]}}

ScoringSnapshots ==
  {[tiers |-> <<t, u, [v EXCEPT !.qualityByTask = [k \in {"code"} |-> 8]]>>,
    classes |-> <<>>, policies |-> <<p>>] :
      t, u, v \in ScoringTiers, p \in ScoringPolicies}

ScoringRequests ==
  {[BaseRequest EXCEPT !.findings.task = "code"],
   [BaseRequest EXCEPT !.prediction = [t \in {1, 2} |->
                          [confidence |-> 3 * t, quality |-> 9]]]}

-----------------------------------------------------------------------------
(* Classes: three classes, every rank, three ways to be named.              *)

ClassSnapshots ==
  {[tiers |-> <<[BaseTier EXCEPT !.allowedDataClasses = a],
                [BaseTier EXCEPT !.jurisdiction = "us"]>>,
    classes |-> <<[BaseClass EXCEPT !.rank = x, !.requireJurisdiction = j],
                  [BaseClass EXCEPT !.rank = y, !.headerValues = {"internal"},
                                    !.minConfidence = 8],
                  [BaseClass EXCEPT !.rank = z, !.headerValues = {"public"},
                                    !.piiEntities = {}, !.requireJurisdiction = k]>>,
    policies |-> <<[BasePolicy EXCEPT !.fallbackTier = f]>>] :
      a \in {{}, {1}, {2, 3}, {1, 2, 3}}, x, y, z \in 0..2, j, k \in {{}, {"eu"}}, f \in {None, 2}}

ClassRequests ==
  {[BaseRequest EXCEPT !.classHints = h, !.findings.label = l, !.findings.pii = e,
                       !.findings.degraded = g] :
      h \in {<<>>, <<"public">>, <<"internal">>, <<"odd", "secret">>, <<"public", "internal">>},
      l \in {None, 3, 9}, e \in {Empty} \union {[x \in {"email"} |-> c] : c \in {6, 9}},
      g \in {{}, {"pii"}}}

-----------------------------------------------------------------------------
(* Selection: three policies, scopes, aliases and overrides.                *)

Scopes == {<<>>, <<{"acme"}>>, <<{"acme", "other", ""}>>}

SelectionSnapshots ==
  {[tiers |-> <<BaseTier, [BaseTier EXCEPT !.maxRiskScore = 1]>>, classes |-> <<>>,
    policies |-> <<
      [BasePolicy EXCEPT !.names = {"a/p", "p"}, !.tenants = x, !.overridable = o],
      [BasePolicy EXCEPT !.names = {"b/p", "p"}, !.tenants = y, !.agents = <<{"bot"}>>,
                         !.overridable = w, !.aliases = {"auto", "fast"}, !.candidates = {2}],
      [BasePolicy EXCEPT !.names = {"c/q", "q"}, !.tenants = z, !.aliases = m,
                         !.overridable = v]>>] :
      x, y, z \in Scopes, o, w, v \in BOOLEAN, m \in {{}, {"auto"}}}

SelectionRequests ==
  {[BaseRequest EXCEPT !.tenant = t, !.agent = a, !.model = m, !.policyHint = h] :
      t \in {None, "acme", "third"}, a \in {None, "bot"}, m \in {"auto", "fast", "raw"},
      h \in {None, "p", "b/p", "q", "zz"}}

-----------------------------------------------------------------------------
MCFamilies ==
  {[snapshots |-> ConstraintSnapshots, requests |-> ConstraintRequests],
   [snapshots |-> ScoringSnapshots,    requests |-> ScoringRequests],
   [snapshots |-> ClassSnapshots,      requests |-> ClassRequests],
   [snapshots |-> SelectionSnapshots,  requests |-> SelectionRequests]}
=============================================================================

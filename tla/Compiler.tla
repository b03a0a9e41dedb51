------------------------------ MODULE Compiler ------------------------------
(***************************************************************************)
(* The policy compiler (crates/policy): from a listing of the four kinds   *)
(* of resources to a snapshot and a report, or to a report with an error.  *)
(* It walks each list in the order it is given: profiles, data classes,    *)
(* tiers, policies, each stage reading what the stages before it kept.     *)
(*                                                                         *)
(* A resource is a record of what another resource or the report depends   *)
(* on.  `bad` holds the fields that fail a check of their own (a number    *)
(* out of range, a blank model, an ONNX classifier without artifacts).     *)
(* Names, keys and values are compared, never read.  One price stands for  *)
(* a tier's two, in whole numbers, and a rate of 0 for any that is not     *)
(* positive; `aliases` stands for all a policy matches on.                 *)
(***************************************************************************)
EXTENDS Integers, FiniteSets, Sequences

CONSTANTS
    Lower,               \* to_ascii_lowercase
    DefaultNamespace,    \* of an object that names none
    KeyBefore(_, _),     \* the order of "namespace/name" strings
    None

(* Resources, of which the CRD schemas check less than the compiler does: a *)
(* file is not checked against them at all.                                 *)

Currency        == {"EUR", "USD"}
Jurisdiction    == {"EU", "US", "OTHER"}
OperatorControl == {"eu-entity", "us-entity", "on-prem"}
Capability      == {"chat", "tools", "json", "vision", "audio", "embeddings", "reasoning"}

Reference == STRING \cup {None}

ModelTier ==
    [kind : {"ModelTier"}, ns : Reference, name : Reference,
     bad : SUBSET {"gatewayModel", "contextWindow", "cost", "quality.baseline",
                   "quality.byTask", "security.maxRiskScore"},
     price : Nat, currency : Currency, classes : SUBSET STRING, labels : SUBSET STRING,
     jurisdiction : Jurisdiction, cloudAct : BOOLEAN, control : OperatorControl,
     capabilities : SUBSET Capability]

DataClass ==
    [kind : {"DataClass"}, ns : Reference, name : Reference,
     bad : SUBSET {"detection.minConfidence"},
     headers : SUBSET STRING, rank : Nat, jurisdictions : SUBSET Jurisdiction,
     forbidCloudAct : BOOLEAN, controls : SUBSET OperatorControl,
     forbidden : SUBSET Capability]

RouterProfile ==
    [kind : {"RouterProfile"}, ns : Reference, name : Reference,
     bad : SUBSET {"classifier.timeoutMs", "classifier.uri", "classifier.tokenizerUri",
                   "costModel.defaultOutputTokens", "learnedRouter.calibration"},
     rates : [Currency -> Nat \cup {None}]]

RoutingPolicy ==
    [kind : {"RoutingPolicy"}, ns : Reference, name : Reference,
     bad : SUBSET {"hardConstraints.maxCostPerRequestEUR", "objective.qualityFloor",
                   "hardConstraints.denyIfRiskScoreAbove", "objective.weights",
                   "learnedRouter.minConfidence"},
     priority : Int, aliases : SUBSET STRING, include : SUBSET STRING,
     exclude : SUBSET STRING, selector : SUBSET STRING, respectClass : BOOLEAN,
     learned : BOOLEAN, profile : Reference, fallback : Reference]

Resource == ModelTier \cup DataClass \cup RouterProfile \cup RoutingPolicy

Namespace(o) == IF o.ns = None THEN DefaultNamespace ELSE o.ns
Key(o)       == <<Namespace(o), o.name>>

Diag(level, kind, o, field) ==
    [level |-> level, kind |-> kind, name |-> Key(o), field |-> field]

Errors(report) == {d \in report : d.level = "error"}

(* The first of each name; an object without one is reported and skipped. *)
FirstNamed(objs) ==
    {i \in DOMAIN objs :
        /\ objs[i].name # None
        /\ \A j \in 1..(i - 1) : objs[j].name # objs[i].name}

(* Every position that is not kept has the error on its name. *)
NameErrors(kind, objs, kept) ==
    {Diag("error", kind, objs[i], "metadata.name") : i \in DOMAIN objs \ kept}

BadFields(kind, objs, kept) ==
    UNION {{Diag("error", kind, objs[i], f) : f \in objs[i].bad} : i \in kept}

(* The object a list kept under a name. *)
Of(objs, kept, name) == objs[CHOOSE i \in kept : objs[i].name = name]

NamesOf(objs, kept) == {objs[i].name : i \in kept}

----------------------------------------------------------------------------
(* Exchange rates, the union of what all profiles say: the first good one *)
(* of a currency counts, and those that differ from it are errors.  The   *)
(* code lets rates within f64::EPSILON pass as equal and keeps the last   *)
(* of them, and a price that is not finite in EUR is an error of its tier *)
(* as a missing rate is: numbers here are whole and unbounded.            *)

Quotes(in, c) ==
    {i \in DOMAIN in.profiles :
        in.profiles[i].rates[c] \notin {None, 0}}

Fx(in, c) ==
    LET first == CHOOSE i \in Quotes(in, c) : \A j \in Quotes(in, c) : i <= j
    IN  in.profiles[first].rates[c]

WrongRates(in, i) ==
    LET rates == in.profiles[i].rates
    IN  {c \in Currency : rates[c] # None /\ (rates[c] = 0 \/ rates[c] # Fx(in, c))}

RateErrors(in) ==
    UNION {{Diag("error", "RouterProfile", in.profiles[i], "costModel.fxToEUR") :
              c \in WrongRates(in, i)} : i \in DOMAIN in.profiles}

HasRate(in, currency)  == currency = "EUR" \/ Quotes(in, currency) # {}
ToEur(in, n, currency) == IF currency = "EUR" THEN n ELSE n * Fx(in, currency)

----------------------------------------------------------------------------
(* Profiles *)

Profiles(in) == FirstNamed(in.profiles)

ProfileDiags(in) ==
    RateErrors(in)
      \cup NameErrors("RouterProfile", in.profiles, Profiles(in))
      \cup BadFields("RouterProfile", in.profiles, Profiles(in))

----------------------------------------------------------------------------
(* Data classes.  A class is named in a header by its header values and by *)
(* its own name, whatever their case.                                      *)

DataClasses(in) == FirstNamed(in.data_classes)

Claims(dc) == {Lower[v] : v \in dc.headers \cup {dc.name}}

Earlier(in, i) == {j \in DataClasses(in) : j < i}

HeaderErrors(in) ==
    {Diag("error", "DataClass", in.data_classes[i], "headerValues") :
        i \in {i \in DataClasses(in) :
                 \E j \in Earlier(in, i) :
                    Claims(in.data_classes[i]) \cap Claims(in.data_classes[j]) # {}}}

RankWarnings(in) ==
    {Diag("warning", "DataClass", in.data_classes[i], "rank") :
        i \in {i \in DataClasses(in) :
                 \E j \in Earlier(in, i) :
                    in.data_classes[i].rank = in.data_classes[j].rank}}

DataClassDiags(in) ==
    NameErrors("DataClass", in.data_classes, DataClasses(in))
      \cup BadFields("DataClass", in.data_classes, DataClasses(in))
      \cup HeaderErrors(in) \cup RankWarnings(in)

(* Why a tier cannot serve a class: one of its constraints fails. *)
DataClassViolation(t, dc) ==
    \/ dc.name \notin t.classes
    \/ dc.jurisdictions # {} /\ t.jurisdiction \notin dc.jurisdictions
    \/ dc.forbidCloudAct /\ t.cloudAct
    \/ dc.controls # {} /\ t.control \notin dc.controls
    \/ t.capabilities \cap dc.forbidden # {}

----------------------------------------------------------------------------
(* Tiers.  Only one without an error takes its name: a later one may have  *)
(* the name of one that was dropped.                                       *)

TierFaults(in, i) ==
    LET t == in.tiers[i] IN
    t.bad
      \cup (IF t.classes \subseteq NamesOf(in.data_classes, DataClasses(in))
              THEN {} ELSE {"allowedDataClasses"})
      \cup (IF HasRate(in, t.currency) THEN {} ELSE {"currency"})

Sound(in, i) == in.tiers[i].name # None /\ TierFaults(in, i) = {}

Namesakes(in, i) ==
    {j \in DOMAIN in.tiers : j < i /\ Sound(in, j) /\ in.tiers[j].name = in.tiers[i].name}

Tiers(in) == {i \in DOMAIN in.tiers : Sound(in, i) /\ Namesakes(in, i) = {}}

ClaimWarnings(in) ==
    {Diag("warning", "ModelTier", in.tiers[i], "allowedDataClasses") :
        i \in {i \in Tiers(in) :
                 \E k \in DataClasses(in) :
                    /\ in.data_classes[k].name \in in.tiers[i].classes
                    /\ DataClassViolation(in.tiers[i], in.data_classes[k])}}

Examined(in) ==
    {i \in DOMAIN in.tiers : in.tiers[i].name # None /\ Namesakes(in, i) = {}}

TierDiags(in) ==
    NameErrors("ModelTier", in.tiers, Examined(in))
      \cup (UNION {{Diag("error", "ModelTier", in.tiers[i], f) :
                      f \in TierFaults(in, i)} : i \in Examined(in)})
      \cup ClaimWarnings(in)

----------------------------------------------------------------------------
(* Policies.  A policy sees the tiers of its own namespace only. *)

(* A plausible bug: any tier of that name will do. *)
InNamespaceByName(in, p, name) == name \in NamesOf(in.tiers, Tiers(in))

InNamespace(in, p, name) ==
    \E i \in Tiers(in) :
        in.tiers[i].name = name /\ Namespace(in.tiers[i]) = Namespace(p)

(* Tiers whose labels match; none, when policies only list tiers. *)
Selected(in, p) ==
    IF p.include # {} /\ p.selector = {} THEN {}
    ELSE {n \in NamesOf(in.tiers, Tiers(in)) :
            /\ InNamespace(in, p, n)
            /\ p.selector \subseteq Of(in.tiers, Tiers(in), n).labels}

Candidates(in, p) ==
    (Selected(in, p) \cup {n \in p.include : InNamespace(in, p, n)}) \ p.exclude

PolicyFaults(in, p) ==
    p.bad
      \cup (IF \A n \in p.include : InNamespace(in, p, n)
              THEN {} ELSE {"candidates.include"})
      \cup (IF Candidates(in, p) # {} THEN {} ELSE {"candidates"})
      \cup (IF p.learned => p.profile \in NamesOf(in.profiles, Profiles(in))
              THEN {} ELSE {"learnedRouter.profile"})
      \cup (IF p.fallback # None => InNamespace(in, p, p.fallback)
              THEN {} ELSE {"fallbackDecision.tier"})

(* The classes whose degraded requests the fallback tier cannot serve. *)
Unserved(in, p) ==
    IF p.fallback = None \/ ~InNamespace(in, p, p.fallback) \/ ~p.respectClass THEN {}
    ELSE {k \in DataClasses(in) :
            DataClassViolation(Of(in.tiers, Tiers(in), p.fallback), in.data_classes[k])}

PolicyWarnings(in, p) ==
    (IF p.selector # {} /\ p.include = {} /\ Selected(in, p) = {}
       THEN {"tierSelector"} ELSE {})
      \cup (IF \A n \in p.exclude : InNamespace(in, p, n) THEN {} ELSE {"exclude"})
      \cup (IF Unserved(in, p) = {} THEN {} ELSE {"fallbackDecision.tier"})
      \cup (IF p.aliases = {} THEN {"modelAliases"} ELSE {})

(* The first of each key, with or without errors. *)
Seen(in) ==
    {i \in DOMAIN in.policies :
        /\ in.policies[i].name # None
        /\ \A j \in 1..(i - 1) : Key(in.policies[j]) # Key(in.policies[i])}

Kept(in) == {i \in Seen(in) : PolicyFaults(in, in.policies[i]) = {}}

(* A plausible bug: policies of one priority stay in the order listed. *)
BeforeByPriority(p, q) == p.priority > q.priority

(* Evaluation order, which decides who answers a request two policies match. *)
Before(p, q) ==
    \/ p.priority > q.priority
    \/ p.priority = q.priority /\ KeyBefore(Key(p), Key(q))

(* The same in the sorted list; the sort is stable. *)
Sooner(in, j, i) ==
    \/ Before(in.policies[j], in.policies[i])
    \/ ~Before(in.policies[i], in.policies[j]) /\ j < i

Shadowed(in, i) ==
    \E j \in Kept(in) \ {i} :
        LET p == in.policies[i]
            q == in.policies[j]
        IN  /\ Sooner(in, j, i)
            /\ <<q.priority, Namespace(q), q.aliases>> = <<p.priority, Namespace(p), p.aliases>>

PolicyDiags(in) ==
    NameErrors("RoutingPolicy", in.policies, Seen(in))
      \cup (UNION {LET p == in.policies[i] IN
                   {Diag("error", "RoutingPolicy", p, f) : f \in PolicyFaults(in, p)}
                     \cup {Diag("warning", "RoutingPolicy", p, f) : f \in PolicyWarnings(in, p)} :
                   i \in Seen(in)})
      \cup {Diag("warning", "RoutingPolicy", in.policies[i], "priority") :
              i \in {i \in Kept(in) : Shadowed(in, i)}}

----------------------------------------------------------------------------
(* What comes out *)

Report(in) ==
    ProfileDiags(in) \cup DataClassDiags(in) \cup TierDiags(in) \cup PolicyDiags(in)

Compiles(in) == Errors(Report(in)) = {}

CompiledTier(in, i) ==
    LET t == in.tiers[i]
    IN  [t EXCEPT !.price = ToEur(in, @, t.currency)]

CompiledClass(in, i) ==
    LET dc == in.data_classes[i]
    IN  [dc EXCEPT !.headers = {Lower[v] : v \in @}]

(* The selector is resolved: what a policy keeps is the candidates. *)
CompiledPolicy(in, i) ==
    LET p == in.policies[i] IN
    [ns |-> Namespace(p), name |-> p.name, priority |-> p.priority,
     aliases |-> p.aliases, candidates |-> Candidates(in, p),
     respectClass |-> p.respectClass, learned |-> p.learned,
     profile |-> p.profile, fallback |-> p.fallback]

Policies(in) ==
    LET place(i) == 1 + Cardinality({j \in Kept(in) : Sooner(in, j, i)})
    IN  [n \in 1..Cardinality(Kept(in)) |->
            CompiledPolicy(in, CHOOSE i \in Kept(in) : place(i) = n)]

Snapshot(in) ==
    [tiers    |-> {CompiledTier(in, i) : i \in Tiers(in)},
     classes  |-> {CompiledClass(in, i) : i \in DataClasses(in)},
     profiles |-> {in.profiles[i] : i \in Profiles(in)},
     policies |-> Policies(in)]

Compile(in) == IF Compiles(in) THEN Snapshot(in) ELSE None
=============================================================================

---------------------------- MODULE MCAdmission -----------------------------
(* Two namespaces whose objects meet: tiers of one name, classes that claim *)
(* a header value in different case, profiles whose rates conflict.         *)
EXTENDS Admission

\* The order of the strings
Names == <<"a", "b", "eu", "main", "pii", "secret", "t", "u">>
PlaceOf(s) == CHOOSE n \in DOMAIN Names : Names[n] = s

MCLower == [v \in {"pii", "secret", "PII"} |-> IF v = "PII" THEN "pii" ELSE v]
MCKeyBefore(x, y) ==
    \/ PlaceOf(x[1]) < PlaceOf(y[1])
    \/ x[1] = y[1] /\ PlaceOf(x[2]) < PlaceOf(y[2])

Profile(ns, name, rate) ==
    [kind |-> "RouterProfile", ns |-> ns, name |-> name, bad |-> {},
     rates |-> [EUR |-> None, USD |-> rate]]
Class(ns, name, headers) ==
    [kind |-> "DataClass", ns |-> ns, name |-> name, bad |-> {}, headers |-> headers,
     rank |-> 1, jurisdictions |-> {}, forbidCloudAct |-> TRUE, controls |-> {},
     forbidden |-> {}]
Tier(ns, name, currency, classes, bad) ==
    [kind |-> "ModelTier", ns |-> ns, name |-> name, bad |-> bad, currency |-> currency,
     price |-> 1, classes |-> classes, labels |-> {"fast"}, jurisdiction |-> "EU",
     cloudAct |-> FALSE, control |-> "eu-entity", capabilities |-> {}]
Policy(ns, name, include, selector, fallback, learned) ==
    [kind |-> "RoutingPolicy", ns |-> ns, name |-> name, bad |-> {}, include |-> include,
     exclude |-> {}, selector |-> selector, learned |-> learned # None,
     profile |-> learned, fallback |-> fallback, respectClass |-> TRUE,
     aliases |-> {"gpt"}, priority |-> 1]

TierA     == Tier("a", "t", "EUR", {"pii"}, {})
TierABad  == Tier("a", "t", "EUR", {}, {"quality.byTask"})
TierB     == Tier("b", "t", "USD", {}, {})
ClassPii  == Class("a", "pii", {})
ClassB    == Class("b", "secret", {"PII"})
PolicyA   == Policy("a", "main", {"t"}, {}, "t", None)
PolicyB   == Policy("b", "main", {}, {"fast"}, None, "eu")
PolicyA2  == Policy("a", "b", {"t"}, {"fast"}, None, None)
ProfileA  == Profile("a", "eu", 2)
ProfileB  == Profile("b", "u", 3)
ProfileB0 == Profile("b", "u", 0)

MCDrafts == {TierA, TierABad, TierB, ClassPii, ClassB, PolicyA, PolicyB, PolicyA2,
             ProfileA, ProfileB, ProfileB0}

\* Clusters that compile and clusters that do not
MCStores ==
    {{}, {TierA, ClassPii, PolicyA}, {TierB, ProfileA, PolicyB},
     {TierA, ClassPii, PolicyA, PolicyA2, ProfileA}, {TierA, ClassB, PolicyA2},
     {TierABad, TierB, ProfileB, ClassB}, {TierABad, ClassPii, ProfileB0, PolicyB}}
=============================================================================

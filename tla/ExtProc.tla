------------------------------ MODULE ExtProc ------------------------------
(***************************************************************************)
(* One ext_proc stream (crates/ingress-extproc): Envoy asks about the      *)
(* phases of one HTTP request, stream_loop answers each message, buffers   *)
(* the body and decides on it when it is complete.                         *)
(*                                                                         *)
(* Envoy is external and behaves as the filter configuration of ADR-0017   *)
(* makes it: it holds the request until its messages are answered, sends   *)
(* one message at a time and fails closed.  Chunks are tolerated by the    *)
(* contract, so the body comes in any number of them.  The last one ends   *)
(* the stream unless trailers follow, which are not sent to routeD.        *)
(***************************************************************************)
EXTENDS Naturals

CONSTANTS
  Sizes,     \* sizes a chunk may have
  MaxSent,   \* bound on the length of a body
  MaxBody,   \* max_body_bytes
  Trailers,  \* whether a request may end in trailers
  Override,  \* what the filter's allow_mode_override may be
  None

Phase == {"headers", "body", "response headers"}
Message == [phase : Phase, size : Nat, last : BOOLEAN]

(* "continue" lets the message's phase go on, with orders to strip          *)
(* x-routed-* headers, to skip the later phases or to tag the response with *)
(* the decision; "immediate" answers the caller.                            *)
Order == {"strip", "skip", "tag"}
Reply == [phase : Phase, act : {"continue", "immediate"}, orders : SUBSET Order]

(* How decide_bytes ends: an error response, or a decision. *)
Verdict == {"error", "dry run", "BLOCK", "ROUTE", "PASS_THROUGH"}
Clear == {"ROUTE", "PASS_THROUGH"}
Judgement == [verdict : Verdict, size : 0..MaxBody]

ASSUME ExtProcAssumption ==
  /\ Sizes \subseteq Nat /\ MaxSent \in Nat /\ MaxBody \in Nat
  /\ Trailers \in BOOLEAN /\ Override \subseteq BOOLEAN
  /\ None \notin Nat \cup Verdict \cup Judgement \cup Message \cup Reply

VARIABLES
  path,      \* "routed" for a POST to a routed path, "other" for the rest
  at,        \* Envoy: the phase it asks about next, "upstream" or "over"
  asked,     \* Envoy: the message it awaits the reply to, or None
  length,    \* Envoy: the length of the body sent so far
  done,      \* Envoy: the orders it has carried out, and "upstream" once the
             \* request was let through
  loop,      \* stream_loop: "waiting", "deciding", "closed"
  pending,   \* stream_loop: how many bytes are buffered, or None
  decided,   \* stream_loop: the decision kept for the response, or None
  judged,    \* stream_loop: the verdict and the size it was reached on, or None
  reply      \* the reply on its way, or None

envoy  == <<path, at, asked, length, done>>
routed == <<loop, pending, decided, judged>>
vars   == <<envoy, routed, reply>>

Init ==
  /\ path \in {"routed", "other"}
  /\ at = "headers"
  /\ asked = None
  /\ length = 0
  /\ done = {}
  /\ loop = "waiting"
  /\ pending = None
  /\ decided = None
  /\ judged = None
  /\ reply = None

----------------------------------------------------------------------------
(* Envoy *)

Ask(phase, size, last) ==
  /\ at = phase
  /\ asked = None
  /\ asked' = [phase |-> phase, size |-> size, last |-> last]
  /\ length' = length + size
  /\ length' <= MaxSent
  /\ UNCHANGED <<path, at, done, routed, reply>>

(* Where Envoy goes once message m may continue; `final` when the body ended, *)
(* with or without the stream.                                                *)
After(m, obeyed, final) ==
  IF m.phase = "headers" /\ ~m.last /\ "skip" \notin obeyed THEN "body"
  ELSE IF m.phase = "body" /\ ~final THEN "body"
  ELSE IF m.phase = "response headers" THEN "over"
  ELSE "upstream"

(* The order to skip is carried out only if the filter allows an override. *)
Continue ==
  /\ reply # None /\ asked # None
  /\ reply.act = "continue"
  /\ \E allowed \in Override, final \in {asked.last} \cup (IF Trailers THEN {TRUE} ELSE {}) :
       LET obeyed == IF allowed THEN reply.orders ELSE reply.orders \ {"skip"} IN
       /\ at' = After(asked, obeyed, final)
       /\ done' = done \cup obeyed \cup (IF at' = "upstream" THEN {"upstream"} ELSE {})
  /\ asked' = None
  /\ reply' = None
  /\ UNCHANGED <<path, length, routed>>

(* An immediate reply answers the caller and ends the stream. *)
Immediate ==
  /\ reply # None /\ asked # None
  /\ reply.act = "immediate"
  /\ at' = "over"
  /\ asked' = None
  /\ reply' = None
  /\ UNCHANGED <<path, length, done, routed>>

(* Upstream responds; without a phase for it the stream just ends. *)
Respond ==
  /\ at = "upstream"
  /\ at' = IF "skip" \in done THEN "over" ELSE "response headers"
  /\ UNCHANGED <<path, asked, length, done, routed, reply>>

(* The message timeout, or a caller that leaves: the stream is reset. *)
GiveUp ==
  /\ at # "over"
  /\ at' = "over"
  /\ asked' = None
  /\ reply' = None
  /\ UNCHANGED <<path, length, done, routed>>

Envoy ==
  \/ \E last \in BOOLEAN : Ask("headers", 0, last)
  \/ \E size \in Sizes, last \in BOOLEAN : Ask("body", size, last)
  \/ Ask("response headers", 0, FALSE)
  \/ Continue \/ Immediate \/ Respond

----------------------------------------------------------------------------
(* stream_loop *)

(* Lets the phase go on, with these orders. *)
Go(phase, orders) == [phase |-> phase, act |-> "continue", orders |-> orders]

(* Answers the caller. *)
Answer(phase) == [phase |-> phase, act |-> "immediate", orders |-> {}]

(* `tx.send` fails once the stream is reset, and the loop returns. *)
Send(r) ==
  IF asked = None
    THEN /\ loop' = "closed"
         /\ UNCHANGED reply
    ELSE /\ loop' = "waiting"
         /\ reply' = r

Receives(phase) ==
  /\ loop = "waiting"
  /\ asked # None
  /\ asked.phase = phase
  /\ reply = None

NotOurs ==
  /\ Receives("headers")
  /\ path = "other"
  /\ Send(Go("headers", {"strip", "skip"}))
  /\ pending' = None
  /\ UNCHANGED <<envoy, decided, judged>>

(* A routed request without a body does not parse, and is answered at once. *)
Bodyless ==
  /\ Receives("headers")
  /\ path = "routed" /\ asked.last
  /\ judged' = [verdict |-> "error", size |-> 0]
  /\ Send(Answer("headers"))
  /\ pending' = None
  /\ UNCHANGED <<envoy, decided>>

ExpectBody ==
  /\ Receives("headers")
  /\ path = "routed" /\ ~asked.last
  /\ Send(Go("headers", {}))
  /\ pending' = 0
  /\ UNCHANGED <<envoy, decided, judged>>

NoBodyWanted ==
  /\ Receives("body")
  /\ pending = None
  /\ Send(Go("body", {}))
  /\ UNCHANGED <<envoy, pending, decided, judged>>

TooLarge ==
  /\ Receives("body")
  /\ pending # None
  /\ pending + asked.size > MaxBody
  /\ Send(Answer("body"))
  /\ UNCHANGED <<envoy, pending, decided, judged>>

(* A plausible bug: a chunk takes the place of those before it. *)
BufferLatest ==
  /\ Receives("body")
  /\ pending # None
  /\ pending + asked.size <= MaxBody
  /\ pending' = asked.size
  /\ IF asked.last THEN loop' = "deciding" /\ UNCHANGED reply ELSE Send(Go("body", {}))
  /\ UNCHANGED <<envoy, decided, judged>>

(* A plausible bug: the limit is asked of the chunk, not of the body. *)
BufferAny ==
  /\ Receives("body")
  /\ pending # None
  /\ asked.size <= MaxBody
  /\ pending' = pending + asked.size
  /\ IF asked.last THEN loop' = "deciding" /\ UNCHANGED reply ELSE Send(Go("body", {}))
  /\ UNCHANGED <<envoy, decided, judged>>

(* A plausible bug: a chunk is buffered without a reply. *)
BufferSilently ==
  /\ Receives("body")
  /\ pending # None
  /\ pending + asked.size <= MaxBody
  /\ pending' = pending + asked.size
  /\ asked.last
  /\ loop' = "deciding"
  /\ UNCHANGED <<envoy, decided, judged, reply>>

(* A chunk is acknowledged; the last one is decided on, which awaits the *)
(* classifier.                                                           *)
Buffer ==
  /\ Receives("body")
  /\ pending # None
  /\ pending + asked.size <= MaxBody
  /\ pending' = pending + asked.size
  /\ IF asked.last THEN loop' = "deciding" /\ UNCHANGED reply ELSE Send(Go("body", {}))
  /\ UNCHANGED <<envoy, decided, judged>>

(* A plausible bug: only a routed request has its decision kept. *)
DecideKeepsRoutes ==
  /\ loop = "deciding"
  /\ \E v \in Verdict :
       /\ judged' = [verdict |-> v, size |-> pending]
       /\ decided' = IF v = "ROUTE" THEN v ELSE decided
       /\ Send(IF v \in Clear THEN Go("body", {"strip"}) ELSE Answer("body"))
  /\ UNCHANGED <<envoy, pending>>

(* The verdict is in.  A routed body that cannot be rewritten is an error. *)
Decide ==
  /\ loop = "deciding"
  /\ \E v \in Verdict :
       /\ judged' = [verdict |-> v, size |-> pending]
       /\ decided' = IF v \in Clear THEN v ELSE decided
       /\ Send(IF v \in Clear THEN Go("body", {"strip"}) ELSE Answer("body"))
  /\ UNCHANGED <<envoy, pending>>

TagResponse ==
  /\ Receives("response headers")
  /\ Send(Go("response headers", IF decided # None THEN {"tag"} ELSE {}))
  /\ UNCHANGED <<envoy, pending, decided, judged>>

(* Envoy has closed the stream. *)
EndOfInbound ==
  /\ loop = "waiting"
  /\ at = "over"
  /\ loop' = "closed"
  /\ UNCHANGED <<envoy, pending, decided, judged, reply>>

Routed ==
  \/ NotOurs \/ Bodyless \/ ExpectBody
  \/ NoBodyWanted \/ TooLarge \/ Buffer \/ Decide
  \/ TagResponse \/ EndOfInbound

Next == Envoy \/ GiveUp \/ Routed

Spec == Init /\ [][Next]_vars

(* The runtime polls the stream's task, and decide_bytes has deadlines of  *)
(* its own (see Ingress); Envoy takes the replies it is sent.              *)
FairSpec == Spec /\ WF_vars(Routed) /\ WF_vars(Continue) /\ WF_vars(Immediate)

----------------------------------------------------------------------------
(* Properties *)

TypeOK ==
  /\ path \in {"routed", "other"}
  /\ at \in Phase \cup {"upstream", "over"}
  /\ asked \in Message \cup {None}
  /\ length \in 0..MaxSent
  /\ done \subseteq Order \cup {"upstream"}
  /\ loop \in {"waiting", "deciding", "closed"}
  /\ pending \in 0..MaxBody \cup {None}
  /\ decided \in Clear \cup {None}
  /\ judged \in Judgement \cup {None}
  /\ reply \in Reply \cup {None}

(* A request to a routed path goes on only after a decision that clears it, *)
(* reached on the whole of its body, however the body was cut.              *)
OnlyDecidedGoesOn ==
  (path = "routed" /\ "upstream" \in done) =>
    /\ judged # None
    /\ judged.verdict \in Clear
    /\ judged.size = length

(* lib.rs 10-11: inbound x-routed-* headers are always stripped before the  *)
(* request continues upstream.                                              *)
AlwaysStripped == "upstream" \in done => "strip" \in done

(* The caller sees the decision its request went on with, if one was made:  *)
(* it is kept from the body's phase to the response's, as inline mode does   *)
(* by holding the request (ADR-0017, "response headers").                   *)
ResponseNamesDecision ==
  [][(Continue /\ at = "response headers") =>
        ("tag" \in done' <=> (judged # None /\ judged.verdict \in Clear))]_vars

(* Envoy is never left without an answer: it holds the request until then.  *)
EveryMessageAnswered == (asked # None) ~> (asked = None)
=============================================================================

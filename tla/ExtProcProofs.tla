--------------------------- MODULE ExtProcProofs ---------------------------
(***************************************************************************)
(* Safety of an ext_proc stream for any chunks and limits.  The inductive  *)
(* invariant counts the bytes: what Envoy has sent of a body is what is    *)
(* buffered, plus the message on its way to stream_loop.                   *)
(***************************************************************************)
EXTENDS ExtProc, TLAPS

Continues == reply # None /\ reply.act = "continue"
Cleared == judged # None /\ judged.verdict \in Clear

(* The whole of what was sent is buffered; or is, with the message asked. *)
Whole == pending = length
Coming == pending # None /\ pending + asked.size = length

(* The verdict was reached on all that was sent, and clears it. *)
ClearedWhole == Cleared /\ judged.size = length

(* Envoy awaits the reply to the message of the phase it is in; the loop   *)
(* decides on the last message of a body, or on that of a stream given up. *)
InStep ==
  /\ asked # None => at = asked.phase
  /\ reply # None => asked # None /\ loop = "waiting"
  /\ loop = "closed" => at = "over"
  /\ loop = "deciding" =>
       /\ pending # None
       /\ "upstream" \notin done
       /\ at = "over" \/ (asked # None /\ at = "body" /\ asked.last)
  /\ "upstream" \in done => at \notin {"headers", "body"}
  /\ at \in {"upstream", "response headers"} => "upstream" \in done

(* Nothing is judged before the message that ends the body, and nothing   *)
(* is judged twice; what clears the request is kept, and only that.        *)
Kept ==
  /\ loop = "deciding" => judged = None
  /\ (at \in {"headers", "body"} /\
        (reply = None \/ (Continues /\ ~(at = "body" /\ asked.last)))) => judged = None
  /\ decided # None <=> Cleared
  /\ "tag" \in done => at = "over"
  /\ Continues =>
       ("tag" \in reply.orders <=> (at = "response headers" /\ decided # None))

(* The bytes of a routed request's body. *)
Counts ==
  path = "routed" =>
    /\ at = "headers" => length = 0 /\ (Continues => Whole)
    /\ (at = "body" /\ (asked = None \/ Continues \/ loop = "deciding")) => Whole
    /\ (at = "body" /\ asked # None /\ reply = None /\ loop = "waiting") => Coming

(* A continued message of a routed request skips no phase; unless it ends  *)
(* the body, that is, once the whole of it is judged and clear, the body   *)
(* is still to come.                                                       *)
Answers ==
  (path = "routed" /\ Continues) =>
    /\ "skip" \notin reply.orders
    /\ at = "headers" => ~asked.last
    /\ (at = "body" /\ asked.last) => ClearedWhole

IInv ==
  /\ TypeOK
  /\ InStep
  /\ Kept
  /\ Counts
  /\ Answers

USE ExtProcAssumption

(* A stream starts in the invariant. *)
LEMMA Starts == Init => IInv
<1> SUFFICES ASSUME Init PROVE IInv
  OBVIOUS
<1> USE DEF Init, Continues
<1>1. TypeOK
  BY DEF TypeOK, Phase
<1>2. InStep /\ Kept
  BY DEF InStep, Kept, Cleared
<1>3. Counts /\ Answers
  BY DEF Counts, Answers
<1> QED
  BY <1>1, <1>2, <1>3 DEF IInv

(* What a message and a reply are made of. *)
LEMMA MessageParts ==
  ASSUME NEW m \in Message
  PROVE  m.phase \in Phase /\ m.size \in Nat /\ m.last \in BOOLEAN
BY DEF Message

(* What Envoy asks is a message. *)
LEMMA MessageType ==
  ASSUME NEW phase \in Phase, NEW size \in Nat, NEW last \in BOOLEAN
  PROVE  [phase |-> phase, size |-> size, last |-> last] \in Message
BY DEF Message

(* What the two kinds of reply say. *)
LEMMA ReplyParts ==
  ASSUME NEW phase, NEW orders
  PROVE  /\ Go(phase, orders).act = "continue"
         /\ Go(phase, orders).orders = orders
         /\ Answer(phase).act = "immediate"
BY DEF Go, Answer

(* Both are replies. *)
LEMMA ReplyType ==
  ASSUME NEW phase \in Phase, NEW orders \in SUBSET Order
  PROVE  Go(phase, orders) \in Reply /\ Answer(phase) \in Reply
BY DEF Reply, Go, Answer

(* A judgement has the verdict and the size it was reached with. *)
LEMMA JudgementParts ==
  ASSUME NEW v \in Verdict, NEW n \in 0..MaxBody
  PROVE  LET j == [verdict |-> v, size |-> n] IN
         j \in Judgement /\ j # None /\ j.verdict = v /\ j.size = n
BY DEF Judgement

(* While Envoy waits, a reply reaches it. *)
LEMMA Sends ==
  ASSUME NEW r, asked # None, Send(r)
  PROVE  loop' = "waiting" /\ reply' = r
BY DEF Send

(* Only a body has a size. *)
Asks(phase, size, last) == Ask(phase, size, last) /\ (phase # "body" => size = 0)

(* Envoy asks, acts on a reply, or hears from upstream. *)
LEMMA EnvoySteps ==
  ASSUME Envoy
  PROVE  \/ \E phase \in Phase, size \in Nat, last \in BOOLEAN : Asks(phase, size, last)
         \/ Continue \/ Immediate \/ Respond
<1>1. 0 \in Nat /\ Sizes \subseteq Nat
  OBVIOUS
<1>2. {"headers", "body", "response headers"} \subseteq Phase
  BY DEF Phase
<1>3. ASSUME NEW last \in BOOLEAN, Ask("headers", 0, last)
      PROVE  Asks("headers", 0, last)
  BY <1>3 DEF Asks
<1>4. ASSUME NEW size \in Sizes, NEW last \in BOOLEAN, Ask("body", size, last)
      PROVE  Asks("body", size, last)
  BY <1>4 DEF Asks
<1>5. ASSUME Ask("response headers", 0, FALSE)
      PROVE  Asks("response headers", 0, FALSE)
  BY <1>5 DEF Asks
<1> QED
  BY <1>1, <1>2, <1>3, <1>4, <1>5, Zenon DEF Envoy

(* Every step keeps the types. *)
LEMMA KeepsType ==
  ASSUME IInv, Next
  PROVE  TypeOK'
<1> USE DEF IInv, TypeOK
<1>0. {"headers", "body", "response headers"} \subseteq Phase
  BY DEF Phase
<1>1. ASSUME NEW phase \in Phase, NEW size \in Nat, NEW last \in BOOLEAN,
             Asks(phase, size, last)
      PROVE  TypeOK'
  <2>1. asked' \in Message
    BY <1>1, MessageType DEF Asks, Ask
  <2>2. length' \in 0..MaxSent
    BY <1>1 DEF Asks, Ask
  <2> QED
    BY <1>1, <2>1, <2>2 DEF Asks, Ask, routed
<1>2. CASE Continue
  <2>1. reply \in Reply /\ reply.orders \subseteq Order
    BY <1>2 DEF Continue, Reply
  <2>2. PICK allowed \in Override, final \in BOOLEAN :
          LET obeyed == IF allowed THEN reply.orders ELSE reply.orders \ {"skip"} IN
          /\ at' = After(asked, obeyed, final)
          /\ done' = done \cup obeyed \cup (IF at' = "upstream" THEN {"upstream"} ELSE {})
    <3>1. asked.last \in BOOLEAN
      BY <1>2, MessageParts DEF Continue
    <3> QED
      BY <1>2, <3>1 DEF Continue
  <2>3. at' \in Phase \cup {"upstream", "over"}
    BY <2>2, <1>0 DEF After
  <2>4. done' \subseteq Order \cup {"upstream"}
    BY <2>1, <2>2
  <2> QED
    BY <1>2, <2>3, <2>4 DEF Continue, routed
<1>3. CASE Immediate
  BY <1>3 DEF Immediate, routed
<1>4. CASE Respond
  BY <1>4, <1>0 DEF Respond, routed
<1>5. CASE GiveUp
  BY <1>5 DEF GiveUp, routed
<1>6. ASSUME NEW r \in Reply, asked # None, Send(r),
             pending' \in 0..MaxBody \cup {None},
             decided' \in Clear \cup {None},
             judged' \in Judgement \cup {None}, UNCHANGED envoy
      PROVE  TypeOK'
  BY <1>6, Sends DEF envoy
<1>7. CASE NotOurs
  <2>1. Go("headers", {"strip", "skip"}) \in Reply
    BY <1>0, ReplyType DEF Order
  <2> QED
    BY <1>6, <1>7, <2>1 DEF NotOurs, Receives
<1>8. CASE Bodyless
  <2>1. judged' \in Judgement
    <3>1. 0 \in 0..MaxBody
      OBVIOUS
    <3>2. "error" \in Verdict
      BY DEF Verdict
    <3> QED
      BY <1>8, <3>1, <3>2, JudgementParts DEF Bodyless
  <2>2. Answer("headers") \in Reply
    BY <1>0, ReplyType
  <2> QED
    BY <1>6, <1>8, <2>1, <2>2 DEF Bodyless, Receives
<1>9. CASE ExpectBody
  <2>1. Go("headers", {}) \in Reply
    BY <1>0, ReplyType
  <2> QED
    BY <1>6, <1>9, <2>1 DEF ExpectBody, Receives
<1>10. CASE NoBodyWanted
  <2>1. Go("body", {}) \in Reply
    BY <1>0, ReplyType
  <2> QED
    BY <1>6, <1>10, <2>1 DEF NoBodyWanted, Receives
<1>11. CASE TooLarge
  <2>1. Answer("body") \in Reply
    BY <1>0, ReplyType
  <2> QED
    BY <1>6, <1>11, <2>1 DEF TooLarge, Receives
<1>12. CASE Buffer
  <2>1. pending' \in 0..MaxBody
    BY <1>12, MessageParts DEF Buffer, Receives
  <2>2. Go("body", {}) \in Reply
    BY <1>0, ReplyType
  <2>3. CASE asked.last
    BY <1>12, <2>1, <2>3 DEF Buffer, envoy
  <2>4. CASE ~asked.last
    BY <1>6, <1>12, <2>1, <2>2, <2>4 DEF Buffer, Receives
  <2> QED
    BY <2>3, <2>4
<1>13. CASE Decide
  <2>1. pending \in 0..MaxBody
    BY <1>13 DEF Decide, InStep
  <2>2. PICK v \in Verdict :
          /\ judged' = [verdict |-> v, size |-> pending]
          /\ decided' = IF v \in Clear THEN v ELSE decided
          /\ Send(IF v \in Clear THEN Go("body", {"strip"}) ELSE Answer("body"))
    BY <1>13 DEF Decide
  <2>3. judged' \in Judgement
    BY <2>1, <2>2, JudgementParts
  <2>4. Go("body", {"strip"}) \in Reply /\ Answer("body") \in Reply
    BY <1>0, ReplyType DEF Order
  <2>5. CASE asked = None
    BY <1>13, <2>2, <2>3, <2>5 DEF Decide, Send, envoy
  <2>6. CASE asked # None
    BY <1>6, <1>13, <2>2, <2>3, <2>4, <2>6 DEF Decide
  <2> QED
    BY <2>5, <2>6
<1>14. CASE TagResponse
  <2>1. Go("response headers", IF decided # None THEN {"tag"} ELSE {}) \in Reply
    BY <1>0, ReplyType DEF Order
  <2> QED
    BY <1>6, <1>14, <2>1 DEF TagResponse, Receives
<1>15. CASE EndOfInbound
  BY <1>15 DEF EndOfInbound, envoy
<1>16. CASE Envoy
  BY <1>1, <1>2, <1>3, <1>4, <1>16, EnvoySteps
<1>17. CASE Routed
  BY <1>7, <1>8, <1>9, <1>10, <1>11, <1>12, <1>13, <1>14, <1>15, <1>17 DEF Routed
<1> QED
  BY <1>5, <1>16, <1>17 DEF Next

(* The numbers are numbers. *)
LEMMA Numbers ==
  ASSUME TypeOK
  PROVE  /\ length \in Nat
         /\ pending # None => pending \in Nat
         /\ asked # None => asked.size \in Nat
BY MessageParts DEF TypeOK

(* What Envoy awaits a reply to is of one of the phases. *)
LEMMA AskedPhase ==
  ASSUME TypeOK, asked # None
  PROVE  asked.phase \in Phase
BY MessageParts DEF TypeOK

(* A message that goes on leaves a reply that continues, with its orders. *)
LEMMA Goes ==
  ASSUME NEW phase \in Phase, NEW orders \in SUBSET Order,
         asked # None, Send(Go(phase, orders))
  PROVE  loop' = "waiting" /\ Continues' /\ reply'.orders = orders
BY Sends, ReplyParts, ReplyType DEF Continues

(* An answer to the caller leaves one that does not. *)
LEMMA AnswersCaller ==
  ASSUME NEW phase \in Phase, asked # None, Send(Answer(phase))
  PROVE  loop' = "waiting" /\ reply' # None /\ ~Continues'
<1>1. Answer(phase) # None
  BY ReplyType DEF Order
<1> QED
  BY <1>1, Sends, ReplyParts DEF Continues

(* A message the loop receives is of the phase Envoy is in. *)
LEMMA ReceiveParts ==
  ASSUME InStep, NEW phase, Receives(phase)
  PROVE  asked # None /\ asked.phase = phase /\ at = phase /\ reply = None /\ loop = "waiting"
BY DEF InStep, Receives

(* Nothing judged is nothing cleared, and what continues is a reply. *)
LEMMA Unjudged == (judged = None => ~Cleared) /\ (Continues => reply # None)
BY DEF Cleared, Continues

(* What each step does, in the terms of the invariant: Envoy asks. *)
LEMMA AskParts ==
  ASSUME TypeOK, NEW phase \in Phase, NEW size \in Nat, NEW last \in BOOLEAN,
         Asks(phase, size, last)
  PROVE  /\ at = phase /\ at' = at
         /\ asked = None /\ asked' # None /\ asked'.phase = phase
         /\ Whole => Coming'
         /\ Cleared' <=> Cleared
         /\ Continues' <=> Continues
         /\ phase # "body" => length' = length
         /\ phase # "body" => (ClearedWhole' <=> ClearedWhole)
         /\ UNCHANGED <<path, done, loop, pending, decided, judged, reply>>
<1>1. /\ at = phase /\ at' = at
      /\ asked = None /\ asked'.phase = phase /\ asked'.size = size
      /\ length' = length + size
      /\ UNCHANGED <<path, done, loop, pending, decided, judged, reply>>
  BY DEF Asks, Ask, routed
<1>2. ASSUME Whole
      PROVE  Coming'
  <2>1. length \in Nat
    BY Numbers
  <2>2. pending' \in Nat /\ pending' = length
    BY <1>1, <1>2, <2>1 DEF Whole
  <2>3. pending' # None
    BY <2>2
  <2>4. pending' + asked'.size = length'
    BY <1>1, <2>2
  <2> QED
    BY <2>3, <2>4 DEF Coming
<1>3. ASSUME phase # "body"
      PROVE  length' = length
  <2>1. length \in Nat
    BY Numbers
  <2> QED
    BY <1>1, <1>3, <2>1 DEF Asks
<1>4. asked' # None
  BY MessageType DEF Asks, Ask
<1>5. (Cleared' <=> Cleared) /\ (Continues' <=> Continues)
  BY <1>1 DEF Cleared, Continues
<1>6. phase # "body" => (ClearedWhole' <=> ClearedWhole)
  BY <1>1, <1>3 DEF ClearedWhole, Cleared
<1> QED
  BY <1>1, <1>2, <1>3, <1>4, <1>5, <1>6

(* Envoy goes on: the phase that follows, and the orders it carries out. *)
LEMMA ContinueParts ==
  ASSUME TypeOK, Continue
  PROVE  /\ asked.phase = "headers" => at' \in {"body", "upstream"}
         /\ asked.phase = "body" => at' \in {"body", "upstream"}
         /\ asked.phase = "response headers" => at' = "over"
         /\ (at' = "body" /\ asked.phase = "body") => ~asked.last
         /\ (asked.phase = "headers" /\ ~asked.last /\ "skip" \notin reply.orders) => at' = "body"
         /\ (asked.phase = "body" /\ ~asked.last /\ ~Trailers) => at' = "body"
         /\ "upstream" \in done' <=> ("upstream" \in done \/ at' = "upstream")
         /\ "tag" \in done' <=> ("tag" \in done \/ "tag" \in reply.orders)
         /\ asked # None /\ Continues /\ reply # None
         /\ asked' = None /\ reply' = None /\ ~Continues'
         /\ Whole' <=> Whole
         /\ Cleared' <=> Cleared
         /\ ClearedWhole' <=> ClearedWhole
         /\ UNCHANGED <<path, length, loop, pending, decided, judged>>
<1>1. asked.last \in BOOLEAN /\ reply.orders \subseteq Order
  BY MessageParts DEF Continue, TypeOK, Reply
<1>2. PICK allowed \in Override, final \in {asked.last} \cup (IF Trailers THEN {TRUE} ELSE {}) :
        LET obeyed == IF allowed THEN reply.orders ELSE reply.orders \ {"skip"} IN
        /\ at' = After(asked, obeyed, final)
        /\ done' = done \cup obeyed \cup (IF at' = "upstream" THEN {"upstream"} ELSE {})
  BY DEF Continue
<1>3. asked.last => final
  BY <1>1, <1>2
<1>4. (~asked.last /\ ~Trailers) => ~final
  BY <1>1, <1>2
<1>5. PICK obeyed \in SUBSET reply.orders :
        /\ "tag" \in obeyed <=> "tag" \in reply.orders
        /\ at' = After(asked, obeyed, final)
        /\ done' = done \cup obeyed \cup (IF at' = "upstream" THEN {"upstream"} ELSE {})
  BY <1>2
<1>6. "upstream" \notin obeyed
  BY <1>1, <1>5 DEF Order
<1>7. /\ asked # None /\ Continues /\ reply # None
      /\ asked' = None /\ reply' = None /\ ~Continues'
      /\ UNCHANGED <<path, length, loop, pending, decided, judged>>
  BY DEF Continue, Continues, routed
<1>8. (Whole' <=> Whole) /\ (Cleared' <=> Cleared) /\ (ClearedWhole' <=> ClearedWhole)
  BY <1>7 DEF Whole, Cleared, ClearedWhole
<1>9. /\ "upstream" \in done' <=> ("upstream" \in done \/ at' = "upstream")
      /\ "tag" \in done' <=> ("tag" \in done \/ "tag" \in reply.orders)
  BY <1>5, <1>6
<1>10. /\ asked.phase = "headers" => at' \in {"body", "upstream"}
       /\ asked.phase = "body" => at' \in {"body", "upstream"}
       /\ asked.phase = "response headers" => at' = "over"
       /\ (at' = "body" /\ asked.phase = "body") => ~asked.last
       /\ (asked.phase = "headers" /\ ~asked.last /\ "skip" \notin reply.orders) => at' = "body"
       /\ (asked.phase = "body" /\ ~asked.last /\ ~Trailers) => at' = "body"
  BY <1>3, <1>4, <1>5 DEF After
<1> QED
  BY <1>7, <1>8, <1>9, <1>10

(* Envoy answers its caller with what it was sent. *)
LEMMA ImmediateParts ==
  ASSUME Immediate
  PROVE  /\ Whole' <=> Whole
         /\ Cleared' <=> Cleared
         /\ UNCHANGED <<path, length, done, loop, pending, decided, judged>>
         /\ at' = "over" /\ asked' = None /\ reply' = None /\ ~Continues'
BY DEF Immediate, routed, Whole, Cleared, Continues

(* The response reaches Envoy. *)
LEMMA RespondParts ==
  ASSUME Respond
  PROVE  /\ Whole' <=> Whole
         /\ Cleared' <=> Cleared
         /\ UNCHANGED <<path, length, done, loop, pending, decided, judged>>
         /\ at = "upstream" /\ at' \in {"over", "response headers"}
         /\ (Continues' <=> Continues) /\ UNCHANGED <<asked, reply>>
BY DEF Respond, routed, Whole, Cleared, Continues

(* The stream is reset. *)
LEMMA GiveUpParts ==
  ASSUME GiveUp
  PROVE  /\ Whole' <=> Whole
         /\ Cleared' <=> Cleared
         /\ UNCHANGED <<path, length, done, loop, pending, decided, judged>>
         /\ at' = "over" /\ asked' = None /\ reply' = None /\ ~Continues'
BY DEF GiveUp, routed, Whole, Cleared, Continues

(* on_request_headers lets go of a path that is not routed. *)
LEMMA NotOursParts ==
  ASSUME IInv, NotOurs
  PROVE  /\ asked # None /\ asked.phase = "headers" /\ at = "headers"
         /\ reply = None /\ loop = "waiting" /\ loop' = "waiting"
         /\ path = "other"
         /\ Continues' /\ reply'.orders = {"strip", "skip"}
         /\ UNCHANGED <<decided, judged>> /\ (Cleared' <=> Cleared)
         /\ UNCHANGED <<path, at, asked, length, done>>
<1>1. asked # None /\ asked.phase = "headers" /\ at = "headers" /\ reply = None /\ loop = "waiting"
  BY ReceiveParts DEF NotOurs, IInv
<1>2. "headers" \in Phase
  BY DEF Phase
<1>3. {"strip", "skip"} \in SUBSET Order
  BY DEF Order
<1>4. loop' = "waiting" /\ Continues' /\ reply'.orders = {"strip", "skip"}
  BY <1>1, <1>2, <1>3, Goes DEF NotOurs
<1> QED
  BY <1>1, <1>4 DEF NotOurs, envoy, Cleared

(* on_request_headers begins to buffer. *)
LEMMA ExpectBodyParts ==
  ASSUME IInv, ExpectBody
  PROVE  /\ asked # None /\ asked.phase = "headers" /\ at = "headers"
         /\ reply = None /\ loop = "waiting" /\ loop' = "waiting"
         /\ path = "routed" /\ ~asked.last
         /\ length = 0 => Whole'
         /\ Continues' /\ reply'.orders = {}
         /\ UNCHANGED <<decided, judged>> /\ (Cleared' <=> Cleared)
         /\ UNCHANGED <<path, at, asked, length, done>>
<1>1. asked # None /\ asked.phase = "headers" /\ at = "headers" /\ reply = None /\ loop = "waiting"
  BY ReceiveParts DEF ExpectBody, IInv
<1>2. "headers" \in Phase
  BY DEF Phase
<1>3. {} \in SUBSET Order
  BY DEF Order
<1>4. loop' = "waiting" /\ Continues' /\ reply'.orders = {}
  BY <1>1, <1>2, <1>3, Goes DEF ExpectBody
<1>5. length = 0 => Whole'
  BY DEF ExpectBody, envoy, Whole
<1> QED
  BY <1>1, <1>4, <1>5 DEF ExpectBody, envoy, Cleared

(* A body nobody asked for; no routed one is. *)
LEMMA NoBodyWantedParts ==
  ASSUME IInv, NoBodyWanted
  PROVE  /\ asked # None /\ asked.phase = "body" /\ at = "body"
         /\ reply = None /\ loop = "waiting" /\ loop' = "waiting"
         /\ ~Coming
         /\ Continues' /\ reply'.orders = {}
         /\ UNCHANGED <<decided, judged>> /\ (Cleared' <=> Cleared)
         /\ UNCHANGED <<path, at, asked, length, done>>
<1>1. asked # None /\ asked.phase = "body" /\ at = "body" /\ reply = None /\ loop = "waiting"
  BY ReceiveParts DEF NoBodyWanted, IInv
<1>2. "body" \in Phase
  BY DEF Phase
<1>3. {} \in SUBSET Order
  BY DEF Order
<1>4. loop' = "waiting" /\ Continues' /\ reply'.orders = {}
  BY <1>1, <1>2, <1>3, Goes DEF NoBodyWanted
<1>5. ~Coming
  BY DEF NoBodyWanted, Coming
<1> QED
  BY <1>1, <1>4, <1>5 DEF NoBodyWanted, envoy, Cleared

(* on_request_headers answers a request without a body. *)
LEMMA BodylessParts ==
  ASSUME IInv, Bodyless
  PROVE  /\ asked # None /\ asked.phase = "headers" /\ at = "headers"
         /\ reply = None /\ loop = "waiting" /\ loop' = "waiting"
         /\ reply' # None /\ ~Continues' /\ ~Cleared' /\ UNCHANGED decided
         /\ UNCHANGED <<path, at, asked, length, done>>
<1>1. asked # None /\ asked.phase = "headers" /\ at = "headers" /\ reply = None /\ loop = "waiting"
  BY ReceiveParts DEF Bodyless, IInv
<1>2. "headers" \in Phase
  BY DEF Phase
<1>3. loop' = "waiting" /\ reply' # None /\ ~Continues'
  BY <1>1, <1>2, AnswersCaller DEF Bodyless
<1>4. 0 \in 0..MaxBody
  OBVIOUS
<1>5. "error" \in Verdict /\ "error" \notin Clear
  BY DEF Verdict, Clear
<1>6. ~Cleared'
  BY <1>4, <1>5, JudgementParts DEF Bodyless, Cleared
<1> QED
  BY <1>1, <1>3, <1>6 DEF Bodyless, envoy

(* on_request_body refuses what is over the limit. *)
LEMMA TooLargeParts ==
  ASSUME IInv, TooLarge
  PROVE  /\ asked # None /\ asked.phase = "body" /\ at = "body"
         /\ reply = None /\ loop = "waiting" /\ loop' = "waiting"
         /\ reply' # None /\ ~Continues'
         /\ UNCHANGED <<decided, judged>> /\ (Cleared' <=> Cleared)
         /\ UNCHANGED <<path, at, asked, length, done>>
<1>1. asked # None /\ asked.phase = "body" /\ at = "body" /\ reply = None /\ loop = "waiting"
  BY ReceiveParts DEF TooLarge, IInv
<1>2. "body" \in Phase
  BY DEF Phase
<1>3. loop' = "waiting" /\ reply' # None /\ ~Continues'
  BY <1>1, <1>2, AnswersCaller DEF TooLarge
<1> QED
  BY <1>1, <1>3 DEF TooLarge, envoy, Cleared

(* The response headers are tagged with what was kept. *)
LEMMA TagResponseParts ==
  ASSUME IInv, TagResponse
  PROVE  /\ asked # None /\ asked.phase = "response headers" /\ at = "response headers"
         /\ reply = None /\ loop = "waiting" /\ loop' = "waiting"
         /\ Continues' /\ "skip" \notin reply'.orders
         /\ "tag" \in reply'.orders <=> decided # None
         /\ UNCHANGED <<decided, judged>> /\ (Cleared' <=> Cleared)
         /\ UNCHANGED <<path, at, asked, length, done>>
<1>1. asked # None /\ asked.phase = "response headers" /\ at = "response headers" /\ reply = None /\ loop = "waiting"
  BY ReceiveParts DEF TagResponse, IInv
<1>2. "response headers" \in Phase
  BY DEF Phase
<1>3. (IF decided # None THEN {"tag"} ELSE {}) \in SUBSET Order
  BY DEF Order
<1>4. /\ loop' = "waiting" /\ Continues'
      /\ reply'.orders = IF decided # None THEN {"tag"} ELSE {}
  BY <1>1, <1>2, <1>3, Goes DEF TagResponse
<1>5. "skip" \notin reply'.orders /\ ("tag" \in reply'.orders <=> decided # None)
  BY <1>4
<1> QED
  BY <1>1, <1>4, <1>5 DEF TagResponse, envoy, Cleared

(* on_request_body buffers what was on its way. *)
LEMMA BufferParts ==
  ASSUME IInv, Buffer
  PROVE  /\ asked # None /\ asked.phase = "body" /\ at = "body"
         /\ reply = None /\ loop = "waiting" /\ asked.last \in BOOLEAN
         /\ asked.last => loop' = "deciding" /\ reply' = None /\ ~Continues'
         /\ ~asked.last => loop' = "waiting" /\ Continues' /\ reply'.orders = {}
         /\ pending' # None
         /\ Coming => Whole'
         /\ UNCHANGED <<decided, judged>> /\ (Cleared' <=> Cleared)
         /\ UNCHANGED <<path, at, asked, length, done>>
<1>1. asked # None /\ asked.phase = "body" /\ at = "body" /\ reply = None /\ loop = "waiting"
  BY ReceiveParts DEF Buffer, IInv
<1>2. pending \in Nat /\ asked.size \in Nat
  BY <1>1, Numbers DEF Buffer, IInv
<1>3. pending' \in Nat /\ pending' = pending + asked.size
  BY <1>2 DEF Buffer
<1>4. pending' # None
  BY <1>3
<1>5. UNCHANGED <<path, at, asked, length, done, decided, judged>>
  BY DEF Buffer, envoy
<1>6. Coming => Whole'
  BY <1>3, <1>5 DEF Coming, Whole
<1>7. ASSUME asked.last
      PROVE  loop' = "deciding" /\ reply' = None /\ ~Continues'
  BY <1>1, <1>7 DEF Buffer, Continues
<1>8. ASSUME ~asked.last
      PROVE  loop' = "waiting" /\ Continues' /\ reply'.orders = {}
  <2>1. "body" \in Phase /\ {} \in SUBSET Order
    BY DEF Phase
  <2> QED
    BY <1>1, <1>8, <2>1, Goes DEF Buffer
<1>9. asked.last \in BOOLEAN
  BY <1>1, MessageParts DEF IInv, TypeOK
<1> QED
  BY <1>1, <1>4, <1>5, <1>6, <1>7, <1>8, <1>9 DEF Cleared

(* decide_bytes returns: only a verdict that clears the whole goes on. *)
LEMMA DecideParts ==
  ASSUME IInv, Decide
  PROVE  /\ loop = "deciding"
         /\ asked = None => loop' = "closed" /\ reply' = reply /\ (Continues' <=> Continues)
         /\ asked # None =>
              /\ loop' = "waiting" /\ reply' # None
              /\ Continues' <=> Cleared'
              /\ Continues' => reply'.orders = {"strip"}
         /\ decided = None => (decided' # None <=> Cleared')
         /\ (Cleared' /\ Whole) => ClearedWhole'
         /\ Whole' <=> Whole
         /\ UNCHANGED <<path, at, asked, length, done, pending>>
<1>1. pending \in 0..MaxBody
  BY DEF Decide, IInv, TypeOK, InStep
<1>2. PICK v \in Verdict :
        /\ judged' = [verdict |-> v, size |-> pending]
        /\ decided' = IF v \in Clear THEN v ELSE decided
        /\ Send(IF v \in Clear THEN Go("body", {"strip"}) ELSE Answer("body"))
  BY DEF Decide
<1>3. judged' # None /\ judged'.verdict = v /\ judged'.size = pending
  BY <1>1, <1>2, JudgementParts
<1>4. Cleared' <=> v \in Clear
  BY <1>3 DEF Cleared
<1>5. v # None
  OBVIOUS
<1>6. loop = "deciding" /\ UNCHANGED <<path, at, asked, length, done, pending>>
  BY DEF Decide, envoy
<1>7. ASSUME asked = None
      PROVE  loop' = "closed" /\ reply' = reply /\ (Continues' <=> Continues)
  BY <1>2, <1>7 DEF Send, Continues
<1>8. ASSUME asked # None
      PROVE  /\ loop' = "waiting" /\ reply' # None
             /\ Continues' <=> Cleared'
             /\ Continues' => reply'.orders = {"strip"}
  <2>1. "body" \in Phase /\ {"strip"} \in SUBSET Order
    BY DEF Phase, Order
  <2>2. CASE v \in Clear
    BY <1>2, <1>4, <1>8, <2>1, <2>2, Goes DEF Continues
  <2>3. CASE v \notin Clear
    BY <1>2, <1>4, <1>8, <2>1, <2>3, AnswersCaller
  <2> QED
    BY <2>2, <2>3
<1>9. decided = None => (decided' # None <=> Cleared')
  BY <1>2, <1>4, <1>5
<1>10. ((Cleared' /\ Whole) => ClearedWhole') /\ (Whole' <=> Whole)
  BY <1>3, <1>6 DEF ClearedWhole, Whole
<1> QED
  BY <1>6, <1>7, <1>8, <1>9, <1>10

(* stream_loop returns with its stream. *)
LEMMA EndOfInboundParts ==
  ASSUME EndOfInbound
  PROVE  /\ at = "over" /\ loop' = "closed"
         /\ (Continues' <=> Continues) /\ (Cleared' <=> Cleared)
         /\ UNCHANGED <<path, at, asked, length, done, pending, decided, judged, reply>>
BY DEF EndOfInbound, envoy, Continues, Cleared

(* Every step keeps the two sides in step. *)
LEMMA StaysInStep ==
  ASSUME IInv, Next
  PROVE  InStep'
<1>0. TypeOK /\ InStep /\ Kept /\ Counts /\ Answers
  BY DEF IInv
<1>1. asked # None => asked.phase \in Phase
  BY <1>0, AskedPhase
<1> USE DEF Phase, InStep
<1>2. ASSUME NEW phase \in Phase, NEW size \in Nat, NEW last \in BOOLEAN,
             Asks(phase, size, last)
      PROVE  InStep'
  BY <1>0, <1>1, <1>2, AskParts
<1>3. CASE Continue
  BY <1>0, <1>1, <1>3, ContinueParts
<1>4. CASE Immediate
  BY <1>0, <1>1, <1>4, ImmediateParts
<1>5. CASE Respond
  BY <1>0, <1>1, <1>5, RespondParts
<1>6. CASE GiveUp
  BY <1>0, <1>1, <1>6, GiveUpParts
<1>7. CASE NotOurs
  BY <1>0, <1>1, <1>7, NotOursParts
<1>8. CASE Bodyless
  BY <1>0, <1>1, <1>8, BodylessParts
<1>9. CASE ExpectBody
  BY <1>0, <1>1, <1>9, ExpectBodyParts
<1>10. CASE NoBodyWanted
  BY <1>0, <1>1, <1>10, NoBodyWantedParts
<1>11. CASE TooLarge
  BY <1>0, <1>1, <1>11, TooLargeParts
<1>12. CASE Buffer
  BY <1>0, <1>1, <1>12, BufferParts
<1>13. CASE Decide
  BY <1>0, <1>1, <1>13, DecideParts
<1>14. CASE TagResponse
  BY <1>0, <1>1, <1>14, TagResponseParts
<1>15. CASE EndOfInbound
  BY <1>0, <1>1, <1>15, EndOfInboundParts
<1>16. CASE Envoy
  BY <1>2, <1>3, <1>4, <1>5, <1>16, EnvoySteps
<1>17. CASE Routed
  BY <1>7, <1>8, <1>9, <1>10, <1>11, <1>12, <1>13, <1>14, <1>15, <1>17 DEF Routed
<1> QED
  BY <1>6, <1>16, <1>17 DEF Next

(* Every step keeps what is judged and what is kept in agreement. *)
LEMMA KeepsVerdict ==
  ASSUME IInv, Next
  PROVE  Kept'
<1>0. TypeOK /\ InStep /\ Kept /\ Counts /\ Answers
  BY DEF IInv
<1>1. asked # None => asked.phase \in Phase
  BY <1>0, AskedPhase
<1>18. /\ judged = None => ~Cleared
       /\ Continues => reply # None
       /\ Continues' => reply' # None
  BY Unjudged DEF Continues
<1> USE DEF Phase, InStep, Kept
<1>2. ASSUME NEW phase \in Phase, NEW size \in Nat, NEW last \in BOOLEAN,
             Asks(phase, size, last)
      PROVE  Kept'
  BY <1>0, <1>1, <1>2, <1>18, AskParts
<1>3. CASE Continue
  BY <1>0, <1>1, <1>3, ContinueParts
<1>4. CASE Immediate
  BY <1>0, <1>1, <1>4, ImmediateParts
<1>5. CASE Respond
  BY <1>0, <1>1, <1>5, <1>18, RespondParts
<1>6. CASE GiveUp
  BY <1>0, <1>1, <1>6, GiveUpParts
<1>7. CASE NotOurs
  BY <1>0, <1>1, <1>7, NotOursParts
<1>8. CASE Bodyless
  BY <1>0, <1>1, <1>8, <1>18, BodylessParts
<1>9. CASE ExpectBody
  BY <1>0, <1>1, <1>9, <1>18, ExpectBodyParts
<1>10. CASE NoBodyWanted
  BY <1>0, <1>1, <1>10, <1>18, NoBodyWantedParts
<1>11. CASE TooLarge
  BY <1>0, <1>1, <1>11, TooLargeParts
<1>12. CASE Buffer
  BY <1>0, <1>1, <1>12, <1>18, BufferParts
<1>13. CASE Decide
  BY <1>0, <1>1, <1>13, <1>18, DecideParts
<1>14. CASE TagResponse
  BY <1>0, <1>1, <1>14, TagResponseParts
<1>15. CASE EndOfInbound
  BY <1>0, <1>1, <1>15, EndOfInboundParts
<1>16. CASE Envoy
  BY <1>2, <1>3, <1>4, <1>5, <1>16, EnvoySteps
<1>17. CASE Routed
  BY <1>7, <1>8, <1>9, <1>10, <1>11, <1>12, <1>13, <1>14, <1>15, <1>17 DEF Routed
<1> QED
  BY <1>6, <1>16, <1>17 DEF Next

(* Every step keeps the count of the bytes. *)
LEMMA KeepsCount ==
  ASSUME IInv, Next
  PROVE  Counts'
<1>0. TypeOK /\ InStep /\ Kept /\ Counts /\ Answers
  BY DEF IInv
<1>1. asked # None => asked.phase \in Phase
  BY <1>0, AskedPhase
<1>18. /\ judged = None => ~Cleared
       /\ Continues => reply # None
       /\ Continues' => reply' # None
  BY Unjudged DEF Continues
<1> USE DEF Phase, InStep, Counts
<1>2. ASSUME NEW phase \in Phase, NEW size \in Nat, NEW last \in BOOLEAN,
             Asks(phase, size, last)
      PROVE  Counts'
  BY <1>0, <1>1, <1>2, <1>18, AskParts
<1>3. CASE Continue
  BY <1>0, <1>1, <1>3, ContinueParts
<1>4. CASE Immediate
  BY <1>0, <1>1, <1>4, ImmediateParts
<1>5. CASE Respond
  BY <1>0, <1>1, <1>5, <1>18, RespondParts
<1>6. CASE GiveUp
  BY <1>0, <1>1, <1>6, GiveUpParts
<1>7. CASE NotOurs
  BY <1>0, <1>1, <1>7, NotOursParts
<1>8. CASE Bodyless
  BY <1>0, <1>1, <1>8, <1>18, BodylessParts
<1>9. CASE ExpectBody
  BY <1>0, <1>1, <1>9, <1>18, ExpectBodyParts
<1>10. CASE NoBodyWanted
  BY <1>0, <1>1, <1>10, <1>18, NoBodyWantedParts
<1>11. CASE TooLarge
  BY <1>0, <1>1, <1>11, TooLargeParts
<1>12. CASE Buffer
  BY <1>0, <1>1, <1>12, <1>18, BufferParts
<1>13. CASE Decide
  BY <1>0, <1>1, <1>13, <1>18, DecideParts
<1>14. CASE TagResponse
  BY <1>0, <1>1, <1>14, TagResponseParts
<1>15. CASE EndOfInbound
  BY <1>0, <1>1, <1>15, EndOfInboundParts
<1>16. CASE Envoy
  BY <1>2, <1>3, <1>4, <1>5, <1>16, EnvoySteps
<1>17. CASE Routed
  BY <1>7, <1>8, <1>9, <1>10, <1>11, <1>12, <1>13, <1>14, <1>15, <1>17 DEF Routed
<1> QED
  BY <1>6, <1>16, <1>17 DEF Next

(* Every step keeps what a reply says true. *)
LEMMA KeepsAnswers ==
  ASSUME IInv, Next
  PROVE  Answers'
<1>0. TypeOK /\ InStep /\ Kept /\ Counts /\ Answers
  BY DEF IInv
<1>1. asked # None => asked.phase \in Phase
  BY <1>0, AskedPhase
<1>18. /\ judged = None => ~Cleared
       /\ Continues => reply # None
       /\ Continues' => reply' # None
  BY Unjudged DEF Continues
<1> USE DEF Phase, InStep, Kept, Counts, Answers
<1>2. ASSUME NEW phase \in Phase, NEW size \in Nat, NEW last \in BOOLEAN,
             Asks(phase, size, last)
      PROVE  Answers'
  BY <1>0, <1>1, <1>2, <1>18, AskParts
<1>3. CASE Continue
  BY <1>0, <1>1, <1>3, ContinueParts
<1>4. CASE Immediate
  BY <1>0, <1>1, <1>4, ImmediateParts
<1>5. CASE Respond
  BY <1>0, <1>1, <1>5, <1>18, RespondParts
<1>6. CASE GiveUp
  BY <1>0, <1>1, <1>6, GiveUpParts
<1>7. CASE NotOurs
  BY <1>0, <1>1, <1>7, NotOursParts
<1>8. CASE Bodyless
  BY <1>0, <1>1, <1>8, <1>18, BodylessParts
<1>9. CASE ExpectBody
  BY <1>0, <1>1, <1>9, <1>18, ExpectBodyParts
<1>10. CASE NoBodyWanted
  BY <1>0, <1>1, <1>10, <1>18, NoBodyWantedParts
<1>11. CASE TooLarge
  BY <1>0, <1>1, <1>11, TooLargeParts
<1>12. CASE Buffer
  BY <1>0, <1>1, <1>12, <1>18, BufferParts
<1>13. CASE Decide
  <2>1. CASE asked = None
    BY <1>0, <1>13, <1>18, <2>1, DecideParts
  <2>2. CASE asked # None
    <3>1. loop = "deciding" /\ at = "body"
      BY <1>0, <1>1, <1>13, <2>2, DecideParts
    <3>2. path = "routed" => Whole
      BY <1>0, <3>1
    <3>3. /\ at' = at /\ path' = path
          /\ Continues' <=> Cleared'
          /\ Continues' => reply'.orders = {"strip"}
          /\ (Cleared' /\ Whole) => ClearedWhole'
      BY <1>0, <1>13, <2>2, DecideParts
    <3> QED
      BY <3>1, <3>2, <3>3
  <2> QED
    BY <2>1, <2>2
<1>14. CASE TagResponse
  BY <1>0, <1>1, <1>14, TagResponseParts
<1>15. CASE EndOfInbound
  BY <1>0, <1>1, <1>15, EndOfInboundParts
<1>16. CASE Envoy
  BY <1>2, <1>3, <1>4, <1>5, <1>16, EnvoySteps
<1>17. CASE Routed
  BY <1>7, <1>8, <1>9, <1>10, <1>11, <1>12, <1>13, <1>14, <1>15, <1>17 DEF Routed
<1> QED
  BY <1>6, <1>16, <1>17 DEF Next

(* Every step keeps the invariant. *)
LEMMA KeepsInvariant == IInv /\ [Next]_vars => IInv'
<1> SUFFICES ASSUME IInv, [Next]_vars PROVE IInv'
  OBVIOUS
<1>1. CASE Next
  BY <1>1, KeepsType, StaysInStep, KeepsVerdict, KeepsCount, KeepsAnswers DEF IInv
<1>2. CASE UNCHANGED vars
  BY <1>2 DEF vars, envoy, routed, IInv, TypeOK, InStep, Kept, Counts, Answers,
     Continues, Cleared, ClearedWhole, Whole, Coming
<1> QED
  BY <1>1, <1>2

(* Every reachable state of a stream satisfies the invariant. *)
THEOREM StreamInvariant == Spec => []IInv
BY Starts, KeepsInvariant, PTL DEF Spec

(* The variables of stream_loop and of Envoy keep their types. *)
THEOREM StreamTypes == Spec => []TypeOK
<1>1. IInv => TypeOK
  BY DEF IInv
<1> QED
  BY <1>1, StreamInvariant, PTL

(* What is judged is not judged again, and what was sent is not added to,   *)
(* once the request went upstream.                                          *)
LEMMA GoneStays ==
  ASSUME ~Trailers, IInv, Next, OnlyDecidedGoesOn
  PROVE  OnlyDecidedGoesOn'
<1>0. TypeOK /\ InStep /\ Answers
  BY DEF IInv
<1>1. asked # None => asked.phase \in Phase
  BY <1>0, AskedPhase
<1>2. (path = "routed" /\ "upstream" \in done) => ClearedWhole
  BY DEF OnlyDecidedGoesOn, ClearedWhole, Cleared
<1>3. SUFFICES ASSUME path' = "routed", "upstream" \in done'
               PROVE  ClearedWhole'
  BY DEF OnlyDecidedGoesOn, ClearedWhole, Cleared
<1> USE DEF Phase, InStep
<1>4. ASSUME NEW phase \in Phase, NEW size \in Nat, NEW last \in BOOLEAN,
             Asks(phase, size, last)
      PROVE  ClearedWhole'
  BY <1>0, <1>2, <1>3, <1>4, AskParts
<1>5. CASE Continue
  <2>1. asked.last \in BOOLEAN
    BY <1>0, <1>5, ContinueParts, MessageParts DEF TypeOK
  <2> QED
    BY <1>0, <1>1, <1>2, <1>3, <1>5, <2>1, ContinueParts DEF Answers
<1>6. ASSUME UNCHANGED <<path, length, done, judged>>
      PROVE  ClearedWhole'
  BY <1>2, <1>3, <1>6 DEF ClearedWhole, Cleared
<1>7. CASE Immediate
  BY <1>6, <1>7 DEF Immediate, routed
<1>8. CASE Respond
  BY <1>6, <1>8 DEF Respond, routed
<1>9. CASE GiveUp
  BY <1>6, <1>9 DEF GiveUp, routed
<1>10. CASE Bodyless
  BY <1>0, <1>3, <1>10, BodylessParts
<1>11. CASE Decide
  BY <1>0, <1>3, <1>11, DecideParts
<1>12. CASE Envoy
  BY <1>4, <1>5, <1>7, <1>8, <1>12, EnvoySteps
<1>13. CASE Routed
  BY <1>6, <1>10, <1>11, <1>13
  DEF Routed, NotOurs, ExpectBody, NoBodyWanted, TooLarge, Buffer, TagResponse,
      EndOfInbound, envoy
<1> QED
  BY <1>9, <1>12, <1>13 DEF Next

(* Fail-closed over any chunks: a request to a routed path whose stream     *)
(* carries no trailers goes upstream only after a verdict on the whole of   *)
(* its body that clears it (stream_loop, handle_message, process_body).     *)
THEOREM DecidedOnlyGoesOn ==
  ASSUME ~Trailers
  PROVE  Spec => []OnlyDecidedGoesOn
<1>1. Init => OnlyDecidedGoesOn
  BY DEF Init, OnlyDecidedGoesOn
<1>2. IInv /\ OnlyDecidedGoesOn /\ [Next]_vars => OnlyDecidedGoesOn'
  <2>1. IInv /\ OnlyDecidedGoesOn /\ UNCHANGED vars => OnlyDecidedGoesOn'
    BY DEF OnlyDecidedGoesOn, vars, envoy, routed
  <2> QED
    BY <2>1, GoneStays
<1> QED
  BY <1>1, <1>2, StreamInvariant, PTL DEF Spec

(* The response names the decision its request went on with: what           *)
(* process_body kept is what handle_message tags the response with.         *)
THEOREM ResponseTagged == Spec => ResponseNamesDecision
<1>1. IInv /\ [Next]_vars =>
        [(Continue /\ at = "response headers") =>
            ("tag" \in done' <=> (judged # None /\ judged.verdict \in Clear))]_vars
  <2> SUFFICES ASSUME IInv, Continue, at = "response headers"
               PROVE  "tag" \in done' <=> (judged # None /\ judged.verdict \in Clear)
    OBVIOUS
  <2>1. "tag" \notin done /\ (decided # None <=> Cleared)
    BY DEF IInv, Kept
  <2>2. "tag" \in reply.orders <=> decided # None
    BY ContinueParts DEF IInv, Kept
  <2>3. "tag" \in done' <=> ("tag" \in done \/ "tag" \in reply.orders)
    BY ContinueParts DEF IInv
  <2> QED
    BY <2>1, <2>2, <2>3 DEF Cleared
<1> QED
  BY <1>1, StreamInvariant, PTL DEF Spec, ResponseNamesDecision

=============================================================================

---------------------------- MODULE JournalProofs ---------------------------
(***************************************************************************)
(* What holds of Journal for any number of requests, any capacity and any  *)
(* number of failures and stops.  The order of the channel is an invariant *)
(* on its positions; the bound on what is lost charges each failure and    *)
(* each stop with the losses it leaves a file to suffer later.             *)
(***************************************************************************)
EXTENDS Journal, FiniteSetTheorems, SequenceTheorems, TLAPS

Decision(r) == [kind |-> "decision", id |-> r]
Feedback(r) == [kind |-> "feedback", id |-> r]

-----------------------------------------------------------------------------
(* Types.                                                                  *)

LEMMA InitTypes == Init => TypeOK
<1> SUFFICES ASSUME Init PROVE TypeOK
  OBVIOUS
<1>1. /\ phase \in [Requests -> Phase]
      /\ taken \in SUBSET Record
  BY DEF Init, Phase
<1>2. queue \in Seq(Record) /\ Len(queue) <= Capacity
  BY CapacityAssumption DEF Init
<1>3. lines \in [Kind -> Seq(Seq(Fragment))] /\ tail \in [Kind -> Seq(Fragment)]
  BY DEF Init
<1>4. /\ hand = None /\ ended = FALSE
      /\ failures \in 0..MaxFailures /\ stops \in 0..MaxStops
  BY BoundsAssumption DEF Init
<1> QED
  BY <1>1, <1>2, <1>3, <1>4 DEF TypeOK

LEMMA RecordsAreRecords ==
    ASSUME NEW r \in Requests
    PROVE  Decision(r) \in Record /\ Feedback(r) \in Record
BY DEF Record, Kind, Decision, Feedback

LEMMA SendTypes ==
    ASSUME TypeOK, NEW x \in Record, Send(x)
    PROVE  /\ queue' \in Seq(Record) /\ Len(queue') <= Capacity
           /\ taken' \in SUBSET Record
<1>1. CASE Len(queue) = Capacity
  BY <1>1 DEF TypeOK, Send
<1>2. CASE Len(queue) # Capacity
  <2>1. queue' = Append(queue, x) /\ taken' = taken \union {x}
    BY <1>2 DEF Send
  <2> QED
    BY <1>2, <2>1, CapacityAssumption DEF TypeOK
<1> QED
  BY <1>1, <1>2

LEMMA LeavesTypes ==
    ASSUME TypeOK, hand # None, NEW b \in BOOLEAN, Leaves(b)
    PROVE  tail' \in [Kind -> Seq(Fragment)]
<1>1. hand \in Record /\ hand.kind \in Kind
  BY DEF TypeOK, Record
<1>2. [record |-> hand, whole |-> b] \in Fragment
  BY <1>1 DEF Fragment
<1> QED
  BY <1>1, <1>2 DEF TypeOK, Leaves

LEMMA StepTypes == TypeOK /\ [Next]_vars => TypeOK'
<1> SUFFICES ASSUME TypeOK, [Next]_vars PROVE TypeOK'
  OBVIOUS
<1> USE BoundsAssumption, CapacityAssumption
<1>1. ASSUME NEW r \in Requests, Arrive(r) PROVE TypeOK'
  BY <1>1 DEF TypeOK, Arrive, Become, Phase, writer
<1>2. ASSUME NEW r \in Requests, Decide(r) PROVE TypeOK'
  <2>1. Send(Decision(r))
    BY <1>2 DEF Decide, Decision
  <2>2. /\ queue' \in Seq(Record) /\ Len(queue') <= Capacity
        /\ taken' \in SUBSET Record
    BY <2>1, SendTypes, RecordsAreRecords
  <2> QED
    BY <1>2, <2>2 DEF TypeOK, Decide, Become, Phase, writer
<1>3. ASSUME NEW r \in Requests, Answer(r) PROVE TypeOK'
  BY <1>3 DEF TypeOK, Answer, Become, Phase, writer
<1>4. ASSUME NEW r \in Requests, Accept(r) PROVE TypeOK'
  <2>1. Send(Feedback(r))
    BY <1>4 DEF Accept, Feedback
  <2>2. /\ queue' \in Seq(Record) /\ Len(queue') <= Capacity
        /\ taken' \in SUBSET Record
    BY <2>1, SendTypes, RecordsAreRecords
  <2> QED
    BY <1>4, <2>2 DEF TypeOK, Accept, Become, Phase, writer
<1>5. ASSUME NEW r \in Requests, Report(r) PROVE TypeOK'
  BY <1>5 DEF TypeOK, Report, Become, Phase, writer
<1>6. ASSUME Take PROVE TypeOK'
  <2>1. /\ Head(queue) \in Record /\ Tail(queue) \in Seq(Record)
        /\ Len(Tail(queue)) <= Capacity
    BY <1>6 DEF TypeOK, Take
  <2> QED
    BY <1>6, <2>1 DEF TypeOK, Take, Idle
<1>7. ASSUME WriteLine PROVE TypeOK'
  BY <1>7, LeavesTypes DEF TypeOK, WriteLine, Idle
<1>8. ASSUME WriteEnd PROVE TypeOK'
  <2>1. hand.kind \in Kind
    BY <1>8 DEF TypeOK, WriteEnd, Record
  <2>2. lines' \in [Kind -> Seq(Seq(Fragment))]
    BY <1>8, <2>1 DEF TypeOK, WriteEnd
  <2>3. tail' \in [Kind -> Seq(Fragment)]
    BY <1>8, <2>1 DEF TypeOK, WriteEnd
  <2> QED
    BY <1>8, <2>2, <2>3 DEF TypeOK, WriteEnd, Idle
<1>9. ASSUME WriteFails PROVE TypeOK'
  <2>1. tail' \in [Kind -> Seq(Fragment)]
    BY <1>9, LeavesTypes DEF TypeOK, WriteFails
  <2>2. /\ hand' = None /\ ended' = FALSE /\ failures' \in 0..MaxFailures
        /\ UNCHANGED <<queue, lines, phase, taken, stops>>
    BY <1>9 DEF TypeOK, WriteFails, Idle
  <2> QED
    BY <2>1, <2>2 DEF TypeOK
<1>10. ASSUME Stop PROVE TypeOK'
  <2>1. phase' \in [Requests -> Phase]
    BY <1>10 DEF TypeOK, Stop, Phase
  <2>2. tail' \in [Kind -> Seq(Fragment)]
    BY <1>10, LeavesTypes DEF TypeOK, Stop
  <2>3. queue' \in Seq(Record) /\ Len(queue') <= Capacity
    BY <1>10 DEF Stop
  <2>4. /\ hand' = None /\ ended' = FALSE /\ stops' \in 0..MaxStops
        /\ UNCHANGED <<lines, taken, failures>>
    BY <1>10 DEF TypeOK, Stop
  <2> QED
    BY <2>1, <2>2, <2>3, <2>4 DEF TypeOK
<1>11. CASE UNCHANGED vars
  BY <1>11 DEF TypeOK, vars, writer
<1> QED
  BY <1>1, <1>2, <1>3, <1>4, <1>5, <1>6, <1>7, <1>8, <1>9, <1>10, <1>11
  DEF Next, Handle, Write

\* The variables take the values their comments give them; the channel never
\* holds more than its capacity.
THEOREM JournalTypes == Spec => []TypeOK
BY InitTypes, StepTypes, PTL DEF Spec

-----------------------------------------------------------------------------
(* The order of the channel.                                               *)

\* What the channel took says how far its request is, and a decision is never
\* behind the feedback about it.
Fifo ==
    /\ \A x \in Record : InQueue(x) \/ hand = x => x \in taken
    /\ \A r \in Requests :
          /\ Feedback(r) \in taken => phase[r] = "accepted"
          /\ \A i, j \in 1..Len(queue) :
                queue[i] = Feedback(r) /\ queue[j] = Decision(r) => j < i

OrderInv == TypeOK /\ Fifo /\ JoinIsSettled

LEMMA Distinct ==
    ASSUME NEW r, NEW s
    PROVE  /\ Decision(r) # Feedback(s)
           /\ Decision(r) = Decision(s) => r = s
           /\ Feedback(r) = Feedback(s) => r = s
<1>1. /\ Decision(r).kind = "decision" /\ Feedback(s).kind = "feedback"
      /\ Decision(r).id = r /\ Decision(s).id = s
      /\ Feedback(r).id = r /\ Feedback(s).id = s
  BY DEF Decision, Feedback
<1> QED
  BY <1>1

\* Settled(r) for one request, over the named records
LEMMA JoinByNames ==
    JoinIsSettled <=>
      \A r \in Requests :
         Feedback(r) \in taken /\ ~InQueue(Feedback(r)) =>
            ~InQueue(Decision(r)) /\ hand # Decision(r)
BY DEF JoinIsSettled, Decision, Feedback

\* A record joins the channel at its end, or is dropped.
LEMMA SendAppends ==
    ASSUME TypeOK, NEW x \in Record, Send(x)
    PROVE  \/ UNCHANGED <<queue, taken>>
           \/ /\ taken' = taken \union {x}
              /\ Len(queue') = Len(queue) + 1
              /\ queue'[Len(queue) + 1] = x
              /\ \A i \in 1..Len(queue) : queue'[i] = queue[i]
              /\ \A y : InQueue(y)' <=> InQueue(y) \/ y = x
<1>1. CASE Len(queue) = Capacity
  BY <1>1 DEF Send
<1>2. CASE Len(queue) # Capacity
  <2>1. queue' = Append(queue, x) /\ taken' = taken \union {x}
    BY <1>2 DEF Send
  <2>2. queue \in Seq(Record) /\ Len(queue) \in Nat
    BY DEF TypeOK
  <2>3. /\ Len(queue') = Len(queue) + 1
        /\ queue'[Len(queue) + 1] = x
        /\ \A i \in 1..Len(queue) : queue'[i] = queue[i]
    BY <2>1, <2>2
  <2>4. ASSUME NEW y PROVE InQueue(y)' <=> InQueue(y) \/ y = x
    BY <2>2, <2>3 DEF InQueue
  <2> QED
    BY <2>1, <2>3, <2>4
<1> QED
  BY <1>1, <1>2

\* The record the writer takes was the first of the channel.
LEMMA TakeRemoves ==
    ASSUME TypeOK, Take
    PROVE  /\ hand' = queue[1] /\ hand' \in Record
           /\ Len(queue') = Len(queue) - 1
           /\ \A i \in 1..Len(queue') : queue'[i] = queue[i + 1]
           /\ \A y : InQueue(y) <=> InQueue(y)' \/ y = hand'
<1>1. /\ queue \in Seq(Record) /\ queue # <<>>
      /\ hand' = Head(queue) /\ queue' = Tail(queue)
  BY DEF TypeOK, Take
<1>2. Len(queue) \in Nat \ {0}
  BY <1>1
<1>3. /\ hand' = queue[1] /\ hand' \in Record
      /\ Len(queue') = Len(queue) - 1
      /\ \A i \in 1..Len(queue') : queue'[i] = queue[i + 1]
  BY <1>1, <1>2
<1>4. ASSUME NEW y PROVE InQueue(y) <=> InQueue(y)' \/ y = hand'
  <2>1. ASSUME InQueue(y), y # hand' PROVE InQueue(y)'
    <3>1. PICK i \in 1..Len(queue) : queue[i] = y
      BY <2>1 DEF InQueue
    <3>2. i # 1 /\ i - 1 \in 1..Len(queue')
      BY <1>2, <1>3, <2>1, <3>1
    <3>3. queue'[i - 1] = y
      BY <1>2, <1>3, <3>1, <3>2
    <3> QED
      BY <3>2, <3>3 DEF InQueue
  <2>2. ASSUME InQueue(y)' PROVE InQueue(y)
    <3>1. PICK i \in 1..Len(queue') : queue'[i] = y
      BY <2>2 DEF InQueue
    <3>2. i + 1 \in 1..Len(queue) /\ queue[i + 1] = y
      BY <1>2, <1>3, <3>1
    <3> QED
      BY <3>2 DEF InQueue
  <2>3. y = hand' => InQueue(y)
    BY <1>2, <1>3 DEF InQueue
  <2> QED
    BY <2>1, <2>2, <2>3
<1> QED
  BY <1>3, <1>4

LEMMA InitOrder == Init => OrderInv
<1> SUFFICES ASSUME Init PROVE OrderInv
  OBVIOUS
<1>1. \A x : ~InQueue(x)
  BY DEF Init, InQueue
<1>2. ASSUME NEW x \in Record PROVE hand # x
  BY NoneAssumption DEF Init
<1>3. Fifo
  BY <1>1, <1>2 DEF Init, Fifo
<1>4. JoinIsSettled
  BY DEF Init, JoinIsSettled
<1> QED
  BY <1>3, <1>4, InitTypes DEF OrderInv

\* Steps that move no record keep the order, as long as accepted feedback
\* stays accepted.
LEMMA OrderKept ==
    ASSUME OrderInv, UNCHANGED <<queue, taken>>, hand' \in {hand, None},
           \A r \in Requests : phase[r] = "accepted" => phase'[r] = "accepted"
    PROVE  Fifo' /\ JoinIsSettled'
<1>1. \A y : InQueue(y)' <=> InQueue(y)
  BY DEF InQueue
<1>2. \A x \in Record : hand' = x => hand = x
  BY NoneAssumption
<1>3. Fifo'
  BY <1>1, <1>2 DEF OrderInv, Fifo
<1>4. JoinIsSettled'
  BY <1>1, <1>2, RecordsAreRecords, JoinByNames DEF OrderInv, JoinIsSettled, Decision, Feedback
<1> QED
  BY <1>3, <1>4

LEMMA SendKeepsOrder ==
    ASSUME OrderInv, NEW s \in Requests, NEW x \in {Decision(s), Feedback(s)}, Send(x),
           phase[s] # "accepted", x = Feedback(s) => phase'[s] = "accepted",
           \A r \in Requests : phase[r] = "accepted" => phase'[r] = "accepted",
           UNCHANGED hand
    PROVE  Fifo' /\ JoinIsSettled'
<1>1. x \in Record
  BY RecordsAreRecords
<1>2. CASE UNCHANGED <<queue, taken>>
  BY <1>2, OrderKept
<1>3. CASE /\ taken' = taken \union {x}
           /\ Len(queue') = Len(queue) + 1
           /\ queue'[Len(queue) + 1] = x
           /\ \A i \in 1..Len(queue) : queue'[i] = queue[i]
           /\ \A y : InQueue(y)' <=> InQueue(y) \/ y = x
  <2>1. Len(queue) \in Nat
    BY DEF OrderInv, TypeOK
  <2>2. ASSUME NEW y \in Record, InQueue(y)' \/ hand' = y PROVE y \in taken'
    BY <1>3, <2>2 DEF OrderInv, Fifo
  <2>3. ASSUME NEW r \in Requests, Feedback(r) \in taken' PROVE phase'[r] = "accepted"
    <3>1. CASE Feedback(r) \in taken
      BY <3>1 DEF OrderInv, Fifo
    <3>2. CASE Feedback(r) = x
      BY <3>2, Distinct
    <3> QED
      BY <1>3, <2>3, <3>1, <3>2
  <2>4. ~InQueue(Feedback(s))
    BY RecordsAreRecords DEF OrderInv, Fifo
  <2>5. ASSUME NEW r \in Requests, NEW i \in 1..Len(queue'), NEW j \in 1..Len(queue'),
               queue'[i] = Feedback(r), queue'[j] = Decision(r)
        PROVE  j < i
    <3>1. CASE i <= Len(queue) /\ j <= Len(queue)
      <4>1. queue[i] = Feedback(r) /\ queue[j] = Decision(r)
        BY <1>3, <2>1, <2>5, <3>1
      <4> QED
        BY <2>1, <3>1, <4>1 DEF OrderInv, Fifo
    <3>2. CASE i = Len(queue) + 1
      <4>1. j # i
        BY <2>5, Distinct
      <4> QED
        BY <1>3, <2>1, <3>2, <4>1
    <3>3. CASE j = Len(queue) + 1 /\ i <= Len(queue)
      <4>1. Decision(r) = x
        BY <1>3, <2>5, <3>3
      <4>2. r = s
        BY <4>1, Distinct
      <4>3. queue[i] = Feedback(s)
        BY <1>3, <2>1, <2>5, <3>3, <4>2
      <4> QED
        BY <2>1, <2>4, <3>3, <4>3 DEF InQueue
    <3> QED
      BY <1>3, <2>1, <3>1, <3>2, <3>3
  <2>6. ASSUME NEW r \in Requests, Feedback(r) \in taken', ~InQueue(Feedback(r))'
        PROVE  ~InQueue(Decision(r))' /\ hand' # Decision(r)
    <3>1. Feedback(r) # x /\ Feedback(r) \in taken /\ ~InQueue(Feedback(r))
      BY <1>3, <2>6
    <3>2. ~InQueue(Decision(r)) /\ hand # Decision(r)
      BY <3>1, JoinByNames DEF OrderInv
    <3>3. phase[r] = "accepted"
      BY <3>1 DEF OrderInv, Fifo
    <3>4. Decision(r) # x
      BY <3>3, Distinct
    <3> QED
      BY <1>3, <3>2, <3>4
  <2>7. JoinIsSettled'
    BY <2>6 DEF JoinIsSettled, Decision, Feedback
  <2>8. Fifo'
    BY <2>2, <2>3, <2>5 DEF Fifo
  <2> QED
    BY <2>7, <2>8
<1> QED
  BY <1>1, <1>2, <1>3, SendAppends DEF OrderInv

LEMMA TakeKeepsOrder ==
    ASSUME OrderInv, Take
    PROVE  Fifo' /\ JoinIsSettled'
<1>1. /\ hand' = queue[1] /\ hand' \in Record
      /\ Len(queue') = Len(queue) - 1
      /\ \A i \in 1..Len(queue') : queue'[i] = queue[i + 1]
      /\ \A y : InQueue(y) <=> InQueue(y)' \/ y = hand'
  BY TakeRemoves DEF OrderInv
<1>2. Len(queue) \in Nat \ {0} /\ UNCHANGED <<taken, phase>>
  BY DEF OrderInv, TypeOK, Take, Idle
<1>3. Fifo'
  <2>1. ASSUME NEW y \in Record, InQueue(y)' \/ hand' = y PROVE y \in taken'
    BY <1>1, <1>2, <2>1 DEF OrderInv, Fifo
  <2>2. ASSUME NEW r \in Requests, NEW i \in 1..Len(queue'), NEW j \in 1..Len(queue'),
               queue'[i] = Feedback(r), queue'[j] = Decision(r)
        PROVE  j < i
    <3>1. /\ i + 1 \in 1..Len(queue) /\ j + 1 \in 1..Len(queue)
          /\ queue[i + 1] = Feedback(r) /\ queue[j + 1] = Decision(r)
      BY <1>1, <1>2, <2>2
    <3> QED
      BY <3>1 DEF OrderInv, Fifo
  <2> QED
    BY <1>2, <2>1, <2>2 DEF OrderInv, Fifo
<1>4. ASSUME NEW r \in Requests, Feedback(r) \in taken', ~InQueue(Feedback(r))'
      PROVE  ~InQueue(Decision(r))' /\ hand' # Decision(r)
  <2>1. CASE hand' = Feedback(r)
    <3>1. ~InQueue(Decision(r))
      <4>1. \A i, j \in 1..Len(queue) :
               queue[i] = Feedback(r) /\ queue[j] = Decision(r) => j < i
        BY DEF OrderInv, Fifo
      <4>2. 1 \in 1..Len(queue) /\ queue[1] = Feedback(r)
        BY <1>1, <1>2, <2>1
      <4>3. \A j \in 1..Len(queue) : queue[j] = Decision(r) => j < 1
        BY <4>1, <4>2
      <4> QED
        BY <4>3 DEF InQueue
    <3> QED
      BY <1>1, <2>1, <3>1, Distinct
  <2>2. CASE hand' # Feedback(r)
    <3>1. Feedback(r) \in taken /\ ~InQueue(Feedback(r))
      BY <1>1, <1>2, <1>4, <2>2
    <3>2. ~InQueue(Decision(r))
      BY <3>1, JoinByNames DEF OrderInv
    <3> QED
      BY <1>1, <3>2
  <2> QED
    BY <2>1, <2>2
<1>5. JoinIsSettled'
  BY <1>4 DEF JoinIsSettled, Decision, Feedback
<1> QED
  BY <1>3, <1>5

LEMMA StepOrder == OrderInv /\ [Next]_vars => OrderInv'
<1> SUFFICES ASSUME OrderInv, [Next]_vars PROVE Fifo' /\ JoinIsSettled'
  BY StepTypes DEF OrderInv
<1> USE DEF Become
<1>1. ASSUME NEW r \in Requests, Arrive(r) \/ Answer(r) \/ Report(r)
      PROVE  Fifo' /\ JoinIsSettled'
  <2>1. \A s \in Requests : phase[s] = "accepted" => phase'[s] = "accepted"
    BY <1>1 DEF OrderInv, TypeOK, Arrive, Answer, Report
  <2> QED
    BY <1>1, <2>1, OrderKept DEF Arrive, Answer, Report, writer
<1>2. ASSUME NEW r \in Requests, Decide(r) PROVE Fifo' /\ JoinIsSettled'
  <2>1. \A s \in Requests : phase[s] = "accepted" => phase'[s] = "accepted"
    BY <1>2 DEF OrderInv, TypeOK, Decide
  <2>2. Send(Decision(r)) /\ phase[r] = "open" /\ UNCHANGED hand
    BY <1>2 DEF Decide, Decision, writer
  <2> QED
    BY <2>1, <2>2, SendKeepsOrder, Distinct
<1>3. ASSUME NEW r \in Requests, Accept(r) PROVE Fifo' /\ JoinIsSettled'
  <2>1. \A s \in Requests : phase[s] = "accepted" => phase'[s] = "accepted"
    BY <1>3 DEF OrderInv, TypeOK, Accept
  <2>2. /\ Send(Feedback(r)) /\ phase[r] = "reporting" /\ UNCHANGED hand
        /\ phase'[r] = "accepted"
    BY <1>3 DEF OrderInv, TypeOK, Accept, Feedback, writer
  <2> QED
    BY <2>1, <2>2, SendKeepsOrder
<1>4. ASSUME Take PROVE Fifo' /\ JoinIsSettled'
  BY <1>4, TakeKeepsOrder
<1>5. ASSUME WriteLine \/ WriteEnd \/ WriteFails PROVE Fifo' /\ JoinIsSettled'
  BY <1>5, OrderKept DEF WriteLine, WriteEnd, WriteFails, Idle
<1>6. ASSUME Stop PROVE Fifo' /\ JoinIsSettled'
  <2>1. /\ queue' = <<>> /\ hand' = None /\ taken' = taken
        /\ \A r \in Requests : phase[r] = "accepted" => phase'[r] = "accepted"
    BY <1>6 DEF Stop, Serving
  <2>2. \A y : ~InQueue(y)'
    BY <2>1 DEF InQueue
  <2>3. \A x \in Record : hand' # x
    BY <2>1, NoneAssumption
  <2>4. Fifo'
    BY <2>1, <2>2, <2>3 DEF OrderInv, Fifo
  <2>5. JoinIsSettled'
    BY <2>2, <2>3, RecordsAreRecords DEF JoinIsSettled, Decision, Feedback
  <2> QED
    BY <2>4, <2>5
<1>7. CASE UNCHANGED vars
  BY <1>7, OrderKept DEF vars, writer
<1> QED
  BY <1>1, <1>2, <1>3, <1>4, <1>5, <1>6, <1>7 DEF Next, Handle, Write

\* When feedback has reached its file, the decision it is about is not still
\* on its way: the one channel keeps the order of the handlers, which record
\* a decision before its id is known (handlers.rs, feedback/src/lib.rs).
THEOREM FeedbackFollowsItsDecision == Spec => []JoinIsSettled
<1>1. Spec => []OrderInv
  BY InitOrder, StepOrder, PTL DEF Spec
<1>2. OrderInv => JoinIsSettled
  BY DEF OrderInv
<1> QED
  BY <1>1, <1>2, PTL

-----------------------------------------------------------------------------
(* What may be lost.                                                       *)

\* The losses that the failures and stops so far may still bring to a file:
\* the next line continues what they left, which may be a record by itself.
Owed(k) ==
    IF tail[k] = <<>> THEN 0
    ELSE IF ended /\ hand # None /\ hand.kind = k
         THEN IF Len(tail[k]) = 1 THEN 0 ELSE 1
    ELSE IF Len(tail[k]) = 1 /\ tail[k][1].whole THEN 2 ELSE 1

Debt == Owed("decision") + Owed("feedback")

\* Between its two calls the writer has put its record at the end of a file.
AtEnd ==
    ended =>
      /\ hand # None
      /\ tail[hand.kind] # <<>>
      /\ Len(tail[hand.kind]) = 1 =>
            tail[hand.kind] = <<[record |-> hand, whole |-> TRUE]>>

Budget == 2 * failures + (Capacity + 2) * stops

LossInv ==
    /\ TypeOK
    /\ AtEnd
    /\ IsFiniteSet(taken)
    /\ Cardinality(Lost) + Debt <= Budget

LEMMA OwedBounds ==
    ASSUME TypeOK, NEW k \in Kind
    PROVE  Owed(k) \in 0..2
BY DEF TypeOK, Owed

LEMMA Numbers ==
    ASSUME LossInv
    PROVE  /\ Debt \in Nat /\ Budget \in Nat
           /\ IsFiniteSet(Lost) /\ Cardinality(Lost) \in Nat
<1>1. Owed("decision") \in Nat /\ Owed("feedback") \in Nat
  BY OwedBounds DEF LossInv, Kind
<1>2. IsFiniteSet(Lost)
  BY FS_Subset DEF LossInv, Lost
<1>3. failures \in Nat /\ stops \in Nat /\ Capacity \in Nat
  BY CapacityAssumption, BoundsAssumption DEF LossInv, TypeOK
<1>4. (Capacity + 2) * stops \in Nat
  BY <1>3
<1> QED
  BY <1>1, <1>2, <1>3, <1>4, FS_CardinalityType DEF Debt, Budget

\* At most as many are lost as a set that covers the new losses has members.
LEMMA LossGrows ==
    ASSUME LossInv, NEW X, IsFiniteSet(X), Lost' \subseteq Lost \union X
    PROVE  /\ Cardinality(Lost') \in Nat
           /\ Cardinality(Lost') <= Cardinality(Lost) + Cardinality(X)
<1>1. IsFiniteSet(Lost) /\ Cardinality(Lost) \in Nat /\ Cardinality(X) \in Nat
  BY Numbers, FS_CardinalityType
<1>2. /\ IsFiniteSet(Lost \union X)
      /\ Cardinality(Lost \union X) \in Nat
      /\ Cardinality(Lost \union X) <= Cardinality(Lost) + Cardinality(X)
  <2>1. IsFiniteSet(Lost \cap X)
    BY <1>1, FS_Subset
  <2>2. Cardinality(Lost \cap X) \in Nat
    BY <2>1, FS_CardinalityType
  <2>3. IsFiniteSet(Lost \union X)
    BY <1>1, FS_Union
  <2>4. Cardinality(Lost \union X) \in Nat
    BY <2>3, FS_CardinalityType
  <2>5. Cardinality(Lost \union X) =
          Cardinality(Lost) + Cardinality(X) - Cardinality(Lost \cap X)
    BY <1>1, FS_Union
  <2> QED
    BY <1>1, <2>2, <2>3, <2>4, <2>5
<1>3. IsFiniteSet(Lost') /\ Cardinality(Lost') <= Cardinality(Lost \union X)
  BY <1>2, FS_Subset
<1>4. Cardinality(Lost') \in Nat
  BY <1>3, FS_CardinalityType
<1> QED
  BY <1>1, <1>2, <1>3, <1>4
LEMMA BudgetHolds ==
    ASSUME LossInv, TypeOK', NEW X, IsFiniteSet(X), Lost' \subseteq Lost \union X,
           Budget' \in Nat, Cardinality(X) + Debt' + Budget <= Debt + Budget'
    PROVE  Cardinality(Lost') + Debt' <= Budget'
<1>1. Owed("decision")' \in Nat /\ Owed("feedback")' \in Nat
  BY DEF Kind, TypeOK, Owed
<1>2. Debt' \in Nat
  BY <1>1 DEF Debt
<1>3. Cardinality(X) \in Nat
  BY FS_CardinalityType
<1>4. /\ Cardinality(Lost') \in Nat
      /\ Cardinality(Lost') <= Cardinality(Lost) + Cardinality(X)
  BY LossGrows
<1>5. Cardinality(Lost) + Debt <= Budget
  BY DEF LossInv
<1> QED
  BY <1>2, <1>3, <1>4, <1>5, Numbers

\* The debt changes as that of the file being written.
LEMMA DebtMoves ==
    ASSUME TypeOK, hand # None, hand' \in {hand, None}, NEW k \in Kind, hand.kind = k,
           \A m \in Kind : m # k => tail'[m] = tail[m],
           NEW d \in Int, Owed(k)' = Owed(k) + d
    PROVE  Debt' = Debt + d
<1>1. ASSUME NEW m \in Kind, m # k PROVE Owed(m)' = Owed(m)
  BY <1>1 DEF Owed
<1>2. \A m \in Kind : Owed(m) \in Int
  BY OwedBounds
<1>3. CASE k = "decision"
  <2>1. Owed("feedback")' = Owed("feedback")
    BY <1>1, <1>3 DEF Kind
  <2> QED
    BY <1>2, <1>3, <2>1 DEF Debt, Kind
<1>4. CASE k = "feedback"
  <2>1. Owed("decision")' = Owed("decision")
    BY <1>1, <1>4 DEF Kind
  <2> QED
    BY <1>2, <1>4, <2>1 DEF Debt, Kind
<1> QED
  BY <1>3, <1>4 DEF Kind

\* The record that is alone at the end of the file, not yet ended, to which
\* the next one will be added
Alone(x) == <<[record |-> x, whole |-> TRUE]>>
Ruined   == {x \in taken : x.kind = hand.kind /\ tail[x.kind] = Alone(x)}

LEMMA AloneFacts ==
    ASSUME NEW x
    PROVE  Len(Alone(x)) = 1 /\ Alone(x)[1].whole /\ Alone(x)[1].record = x /\ Alone(x) # <<>>
BY DEF Alone

LEMMA RuinedIsOwed ==
    ASSUME LossInv, hand # None, ~ended, NEW k \in Kind, hand.kind = k
    PROVE  /\ IsFiniteSet(Ruined) /\ Cardinality(Ruined) \in Nat
           /\ tail[k] = <<>> => Cardinality(Ruined) = 0 /\ Owed(k) = 0
           /\ tail[k] # <<>> => Cardinality(Ruined) + 1 <= Owed(k)
<1>1. Owed(k) = IF tail[k] = <<>> THEN 0
                ELSE IF Len(tail[k]) = 1 /\ tail[k][1].whole THEN 2 ELSE 1
  BY DEF Owed
<1>2. CASE Ruined = {}
  <2>1. IsFiniteSet(Ruined) /\ Cardinality(Ruined) = 0
    BY <1>2, FS_EmptySet
  <2> QED
    BY <1>1, <2>1
<1>3. CASE Ruined # {}
  <2>1. PICK x \in Ruined : TRUE
    BY <1>3
  <2>2. tail[k] = Alone(x)
    BY <2>1 DEF Ruined
  <2>3. Owed(k) = 2 /\ tail[k] # <<>>
    BY <1>1, <2>2, AloneFacts
  <2>4. Ruined = {x}
    <3>1. ASSUME NEW y \in Ruined PROVE y = x
      <4>1. Alone(y) = Alone(x)
        BY <2>2 DEF Ruined
      <4> QED
        BY <4>1, AloneFacts
    <3> QED
      BY <2>1, <3>1
  <2>5. IsFiniteSet(Ruined) /\ Cardinality(Ruined) = 1
    BY <2>4, FS_Singleton
  <2> QED
    BY <2>3, <2>5
<1> QED
  BY <1>2, <1>3

LEMMA ReadableByTail ==
    ASSUME NEW x
    PROVE  Readable(x) <=> \/ tail[x.kind] = Alone(x)
                           \/ \E i \in 1..Len(lines[x.kind]) : lines[x.kind][i] = Alone(x)
BY DEF Readable, Alone

\* A line continued ruins no other record than the one it continues.
LEMMA LeavesRuins ==
    ASSUME LossInv, hand # None, ~ended, NEW b \in BOOLEAN, Leaves(b), UNCHANGED lines,
           NEW k \in Kind, hand.kind = k
    PROVE  /\ \A x \in taken : Readable(x) /\ ~Readable(x)' => x \in Ruined
           /\ \A m \in Kind : m # k => tail'[m] = tail[m]
           /\ tail'[k] = Append(tail[k], [record |-> hand, whole |-> b])
           /\ tail[k] \in Seq(Fragment)
<1>1. /\ tail'[k] = Append(tail[k], [record |-> hand, whole |-> b])
      /\ \A m \in Kind : m # k => tail'[m] = tail[m]
      /\ tail[k] \in Seq(Fragment)
  BY DEF Leaves, LossInv, TypeOK
<1>2. ASSUME NEW x \in taken, Readable(x), ~Readable(x)' PROVE x \in Ruined
  <2>1. x.kind \in Kind
    BY DEF LossInv, TypeOK, Record
  <2>2. Readable(x)' <=> \/ tail'[x.kind] = Alone(x)
                         \/ \E i \in 1..Len(lines'[x.kind]) : lines'[x.kind][i] = Alone(x)
    BY DEF Readable, Alone
  <2>3. tail[x.kind] = Alone(x) /\ tail'[x.kind] # Alone(x)
    BY <1>2, <2>2, ReadableByTail
  <2>4. x.kind = k
    BY <1>1, <2>1, <2>3
  <2> QED
    BY <2>3, <2>4 DEF Ruined
<1> QED
  BY <1>1, <1>2
LEMMA WriteLineKeepsBudget ==
    ASSUME LossInv, TypeOK', WriteLine
    PROVE  AtEnd' /\ Cardinality(Lost') + Debt' <= Budget'
<1>1. /\ hand # None /\ ~ended /\ Leaves(TRUE) /\ ended'
      /\ UNCHANGED <<queue, hand, lines, failures, taken, stops>>
  BY DEF WriteLine, Idle
<1>2. PICK k \in Kind : hand.kind = k
  BY <1>1 DEF LossInv, TypeOK, Record
<1>3. /\ \A x \in taken : Readable(x) /\ ~Readable(x)' => x \in Ruined
      /\ \A m \in Kind : m # k => tail'[m] = tail[m]
      /\ tail'[k] = Append(tail[k], [record |-> hand, whole |-> TRUE])
      /\ tail[k] \in Seq(Fragment)
  BY <1>1, <1>2, LeavesRuins
<1>4. /\ tail[k] = <<>> => tail'[k] = <<[record |-> hand, whole |-> TRUE]>>
      /\ tail'[k] # <<>> /\ (Len(tail'[k]) = 1 <=> tail[k] = <<>>)
  <2>1. Len(tail'[k]) = Len(tail[k]) + 1 /\ Len(tail[k]) \in Nat
    BY <1>3
  <2>2. Len(tail[k]) = 0 <=> tail[k] = <<>>
    BY <1>3, EmptySeq
  <2>3. tail[k] = <<>> => tail'[k] = <<[record |-> hand, whole |-> TRUE]>>
    BY <1>3
  <2>4. tail'[k] # <<>>
    BY <2>1
  <2> QED
    BY <2>1, <2>2, <2>3, <2>4
<1>5. AtEnd'
  BY <1>1, <1>2, <1>4 DEF AtEnd
<1>6. Lost' \subseteq Lost \union Ruined
  BY <1>1, <1>3 DEF Lost, InQueue
<1>7. Owed(k)' = IF tail[k] = <<>> THEN 0 ELSE 1
  BY <1>1, <1>2, <1>4 DEF Owed
<1>8. /\ IsFiniteSet(Ruined) /\ Cardinality(Ruined) \in Nat
      /\ tail[k] = <<>> => Cardinality(Ruined) = 0 /\ Owed(k) = 0
      /\ tail[k] # <<>> => Cardinality(Ruined) + 1 <= Owed(k)
      /\ Owed(k) \in Int
  BY <1>1, <1>2, RuinedIsOwed, OwedBounds DEF LossInv
<1>9. Debt' = Debt + (Owed(k)' - Owed(k))
  BY <1>1, <1>2, <1>3, <1>7, <1>8, DebtMoves DEF LossInv
<1>10. Cardinality(Ruined) + Debt' <= Debt
  BY <1>7, <1>8, <1>9, Numbers
<1>11. Budget' = Budget /\ Budget \in Nat /\ Debt \in Nat
  BY <1>1, Numbers DEF Budget
<1>12. Debt' \in Int
  BY <1>7, <1>8, <1>9, <1>11
<1>13. Cardinality(Ruined) + Debt' + Budget <= Debt + Budget'
  BY <1>8, <1>10, <1>11, <1>12
<1> QED
  BY <1>5, <1>6, <1>8, <1>11, <1>13, BudgetHolds

LEMMA WriteEndKeepsBudget ==
    ASSUME LossInv, TypeOK', WriteEnd
    PROVE  AtEnd' /\ Cardinality(Lost') + Debt' <= Budget'
<1>1. /\ hand # None /\ ended /\ hand' = None /\ ~ended'
      /\ lines' = [lines EXCEPT ![hand.kind] = Append(@, tail[hand.kind])]
      /\ tail' = [tail EXCEPT ![hand.kind] = <<>>]
      /\ UNCHANGED <<queue, failures, taken, stops>>
  BY DEF WriteEnd, Idle
<1>2. PICK k \in Kind : hand.kind = k
  BY <1>1 DEF LossInv, TypeOK, Record
<1> DEFINE X == IF Len(tail[k]) = 1 THEN {} ELSE {hand}
<1>3. IsFiniteSet(X) /\ Cardinality(X) = IF Len(tail[k]) = 1 THEN 0 ELSE 1
  BY FS_EmptySet, FS_Singleton
<1>4. tail[k] # <<>> /\ (Len(tail[k]) = 1 => tail[k] = Alone(hand))
  BY <1>1, <1>2 DEF LossInv, AtEnd, Alone
<1>5. /\ \A m \in Kind : m # k => tail'[m] = tail[m] /\ lines'[m] = lines[m]
      /\ tail'[k] = <<>> /\ lines'[k] = Append(lines[k], tail[k])
      /\ lines[k] \in Seq(Seq(Fragment)) /\ tail[k] \in Seq(Fragment)
  BY <1>1, <1>2 DEF LossInv, TypeOK
<1>6. /\ Len(lines'[k]) = Len(lines[k]) + 1 /\ Len(lines[k]) \in Nat
      /\ lines'[k][Len(lines[k]) + 1] = tail[k]
      /\ \A i \in 1..Len(lines[k]) : lines'[k][i] = lines[k][i]
  BY <1>5
<1>7. ASSUME NEW x \in taken, Readable(x) PROVE Readable(x)'
  <2>1. x.kind \in Kind
    BY DEF LossInv, TypeOK, Record
  <2>2. \/ tail[x.kind] = Alone(x)
        \/ \E i \in 1..Len(lines[x.kind]) : lines[x.kind][i] = Alone(x)
    BY <1>7, ReadableByTail
  <2>3. \/ tail'[x.kind] = Alone(x)
        \/ \E i \in 1..Len(lines'[x.kind]) : lines'[x.kind][i] = Alone(x)
    <3>1. CASE x.kind # k
      BY <1>5, <2>1, <2>2, <3>1
    <3>2. CASE x.kind = k /\ tail[k] = Alone(x)
      <4>1. Len(lines[k]) + 1 \in 1..Len(lines'[k])
        BY <1>6
      <4> QED
        BY <1>6, <3>2, <4>1
    <3>3. CASE x.kind = k /\ \E i \in 1..Len(lines[k]) : lines[k][i] = Alone(x)
      <4>1. PICK i \in 1..Len(lines[k]) : lines[k][i] = Alone(x)
        BY <3>3
      <4>2. i \in 1..Len(lines'[k]) /\ lines'[k][i] = Alone(x)
        BY <1>6, <4>1
      <4> QED
        BY <3>3, <4>2
    <3> QED
      BY <2>2, <3>1, <3>2, <3>3
  <2> QED
    BY <2>3 DEF Readable, Alone
<1>8. ASSUME Len(tail[k]) = 1, NEW x \in taken, hand = x PROVE Readable(x)'
  <2>1. tail[k] = Alone(x) /\ x.kind = k
    BY <1>2, <1>4, <1>8
  <2>2. Len(lines[k]) + 1 \in 1..Len(lines'[k])
    BY <1>6
  <2>3. \E i \in 1..Len(lines'[x.kind]) : lines'[x.kind][i] = Alone(x)
    BY <1>6, <2>1, <2>2
  <2> QED
    BY <2>3 DEF Readable, Alone
<1>9. Lost' \subseteq Lost \union X
  BY <1>1, <1>7, <1>8 DEF Lost, InQueue
<1>10. Owed(k) = Cardinality(X) /\ Owed(k)' = 0
  BY <1>1, <1>2, <1>3, <1>4, <1>5 DEF Owed
<1>11. Cardinality(X) \in Int
  BY <1>3
<1> HIDE DEF X
<1>12. Debt' = Debt + (0 - Cardinality(X))
  BY <1>1, <1>2, <1>5, <1>10, <1>11, DebtMoves DEF LossInv
<1>13. Budget' = Budget /\ Budget \in Nat /\ Debt \in Nat
  BY <1>1, Numbers DEF Budget
<1>14. Cardinality(X) + Debt' + Budget <= Debt + Budget'
  BY <1>11, <1>12, <1>13
<1>15. AtEnd'
  BY <1>1 DEF AtEnd
<1> QED
  BY <1>3, <1>9, <1>13, <1>14, <1>15, BudgetHolds

\* The writer gives up its record, as after an error or at a stop.
GiveUp ==
    /\ hand' = None /\ ended' = FALSE
    /\ UNCHANGED <<lines, taken>>
    /\ UNCHANGED tail \/ (hand # None /\ ~ended /\ Leaves(FALSE))

\* The records it can cost: its own, and the one it continued.
Victims == {x \in taken : (hand = x \/ Readable(x)) /\ ~Readable(x)'}
LEMMA GiveUpCosts ==
    ASSUME LossInv, TypeOK', GiveUp
    PROVE  \E X : /\ IsFiniteSet(X) /\ Victims \subseteq X
                 /\ Cardinality(X) + Debt' <= Debt + 2
<1>1. CASE hand = None
  <2>1. ~ended /\ UNCHANGED <<tail, lines, taken>>
    BY <1>1 DEF LossInv, AtEnd, GiveUp
  <2>2. Victims = {}
    <3>1. ASSUME NEW x \in taken PROVE hand # x /\ (Readable(x)' <=> Readable(x))
      BY <1>1, <2>1, NoneAssumption DEF LossInv, TypeOK, Readable
    <3> QED
      BY <3>1 DEF Victims
  <2>3. Debt' = Debt
    BY <1>1, <2>1 DEF GiveUp, Debt, Owed
  <2>4. Cardinality({}) + Debt' <= Debt + 2
    BY <2>3, Numbers, FS_EmptySet
  <2> QED
    BY <2>2, <2>4, FS_EmptySet
<1>2. CASE hand # None /\ ended
  <2>1. PICK k \in Kind : hand.kind = k
    BY <1>2 DEF LossInv, TypeOK, Record
  <2>2. /\ UNCHANGED <<tail, lines, taken>> /\ hand' = None /\ ~ended'
        /\ tail[k] # <<>> /\ (Len(tail[k]) = 1 => tail[k] = Alone(hand))
    BY <1>2, <2>1 DEF LossInv, AtEnd, GiveUp, Alone
  <2>3. ASSUME NEW x \in Victims PROVE x = hand /\ Len(tail[k]) # 1
    <3>1. x = hand /\ ~Readable(x)
      BY <2>2 DEF Victims, Readable
    <3> QED
      BY <2>1, <2>2, <3>1, ReadableByTail
  <2>4. CASE Len(tail[k]) = 1
    <3>1. Victims = {} /\ IsFiniteSet({}) /\ Cardinality({}) = 0
      BY <2>3, <2>4, FS_EmptySet
    <3>2. Owed(k) = 0 /\ Owed(k)' = 2
      BY <1>2, <2>1, <2>2, <2>4, AloneFacts DEF Owed
    <3>3. Debt' = Debt + 2
      BY <1>2, <2>1, <2>2, <3>2, DebtMoves DEF LossInv
    <3>4. Cardinality({}) + Debt' <= Debt + 2
      BY <3>1, <3>3, Numbers
    <3> QED
      BY <3>1, <3>4
  <2>5. CASE Len(tail[k]) # 1
    <3>1. Victims \subseteq {hand} /\ IsFiniteSet({hand}) /\ Cardinality({hand}) = 1
      BY <2>3, FS_Singleton
    <3>2. Owed(k) = 1 /\ Owed(k)' = 1
      BY <1>2, <2>1, <2>2, <2>5 DEF Owed
    <3>3. Debt' = Debt + 0
      BY <1>2, <2>1, <2>2, <3>2, DebtMoves DEF LossInv
    <3>4. Cardinality({hand}) + Debt' <= Debt + 2
      BY <3>1, <3>3, Numbers
    <3> QED
      BY <3>1, <3>4
  <2> QED
    BY <2>4, <2>5
<1>3. CASE hand # None /\ ~ended /\ UNCHANGED tail
  <2>1. PICK k \in Kind : hand.kind = k
    BY <1>3 DEF LossInv, TypeOK, Record
  <2>2. Victims \subseteq {hand} /\ IsFiniteSet({hand}) /\ Cardinality({hand}) = 1
    <3>1. \A x : Readable(x)' <=> Readable(x)
      BY <1>3 DEF GiveUp, Readable
    <3> QED
      BY <3>1, FS_Singleton DEF Victims
  <2>3. Owed(k)' = Owed(k) + 0
    <3>1. Owed(k)' = Owed(k)
      BY <1>3 DEF GiveUp, Owed
    <3> QED
      BY <3>1, OwedBounds DEF LossInv
  <2>4. Debt' = Debt + 0
    BY <1>3, <2>1, <2>3, DebtMoves DEF LossInv, GiveUp
  <2>5. Cardinality({hand}) + Debt' <= Debt + 2
    BY <2>2, <2>4, Numbers
  <2> QED
    BY <2>2, <2>5
<1>4. CASE hand # None /\ ~ended /\ Leaves(FALSE)
  <2>1. PICK k \in Kind : hand.kind = k
    BY <1>4 DEF LossInv, TypeOK, Record
  <2>2. UNCHANGED <<lines, taken>> /\ hand' = None /\ ~ended'
    BY DEF GiveUp
  <2>3. /\ \A x \in taken : Readable(x) /\ ~Readable(x)' => x \in Ruined
        /\ \A m \in Kind : m # k => tail'[m] = tail[m]
        /\ tail'[k] = Append(tail[k], [record |-> hand, whole |-> FALSE])
        /\ tail[k] \in Seq(Fragment)
    BY <1>4, <2>1, <2>2, LeavesRuins
  <2>4. /\ tail'[k] # <<>>
        /\ Len(tail'[k]) = 1 => tail'[k][1] = [record |-> hand, whole |-> FALSE]
    <3>1. /\ Len(tail'[k]) = Len(tail[k]) + 1 /\ Len(tail[k]) \in Nat
          /\ tail'[k][Len(tail[k]) + 1] = [record |-> hand, whole |-> FALSE]
      BY <2>3
    <3> QED
      BY <3>1
  <2>5. Owed(k)' = 1
    BY <2>2, <2>4 DEF Owed
  <2>6. /\ IsFiniteSet(Ruined) /\ Cardinality(Ruined) \in Nat
        /\ tail[k] = <<>> => Cardinality(Ruined) = 0 /\ Owed(k) = 0
        /\ tail[k] # <<>> => Cardinality(Ruined) + 1 <= Owed(k)
        /\ Owed(k) \in Int
    BY <1>4, <2>1, RuinedIsOwed, OwedBounds DEF LossInv
  <2>7. Debt' = Debt + (1 - Owed(k))
    BY <1>4, <2>1, <2>2, <2>3, <2>5, <2>6, DebtMoves DEF LossInv
  <2>8. Victims \subseteq Ruined \union {hand}
    BY <2>3 DEF Victims
  <2>9. /\ IsFiniteSet(Ruined \union {hand})
        /\ Cardinality(Ruined \union {hand}) \in Nat
        /\ Cardinality(Ruined \union {hand}) <= Cardinality(Ruined) + 1
    <3>1. /\ IsFiniteSet(Ruined \union {hand})
          /\ Cardinality(Ruined \union {hand}) =
               IF hand \in Ruined THEN Cardinality(Ruined) ELSE Cardinality(Ruined) + 1
      BY <2>6, FS_AddElement
    <3> QED
      BY <2>6, <3>1
  <2>10. Cardinality(Ruined \union {hand}) + Debt' <= Debt + 2
    BY <2>6, <2>7, <2>9, Numbers
  <2> QED
    BY <2>8, <2>9, <2>10
<1> QED
  BY <1>1, <1>2, <1>3, <1>4 DEF GiveUp

LEMMA WriteFailsKeepsBudget ==
    ASSUME LossInv, TypeOK', WriteFails
    PROVE  AtEnd' /\ Cardinality(Lost') + Debt' <= Budget'
<1>1. GiveUp /\ failures' = failures + 1 /\ UNCHANGED <<queue, stops>>
  BY DEF WriteFails, GiveUp, Idle
<1>2. PICK X : /\ IsFiniteSet(X) /\ Victims \subseteq X
               /\ Cardinality(X) + Debt' <= Debt + 2
  BY <1>1, GiveUpCosts
<1>3. Lost' \subseteq Lost \union X
  BY <1>1, <1>2 DEF Lost, Victims, InQueue, GiveUp
<1>4. failures \in Nat /\ (Capacity + 2) * stops \in Int
  BY CapacityAssumption, BoundsAssumption DEF LossInv, TypeOK
<1>5. Budget' = Budget + 2 /\ Budget \in Nat /\ Debt \in Nat
  BY <1>1, <1>4, Numbers DEF Budget
<1>6. Debt' \in Int /\ Cardinality(X) \in Int
  <2>1. Owed("decision")' \in Int /\ Owed("feedback")' \in Int
    BY DEF Kind, TypeOK, Owed
  <2> QED
    BY <1>2, <2>1, FS_CardinalityType DEF Debt
<1>7. Cardinality(X) + Debt' + Budget <= Debt + Budget'
  BY <1>2, <1>5, <1>6
<1>8. AtEnd'
  BY <1>1 DEF AtEnd, GiveUp
<1> QED
  BY <1>2, <1>3, <1>5, <1>7, <1>8, BudgetHolds

\* What a function makes of a finite set is no larger.
LEMMA ImageIsSmall ==
    ASSUME NEW S, NEW T, IsFiniteSet(S), \E f : f \in Surjection(S, T)
    PROVE  IsFiniteSet(T) /\ Cardinality(T) <= Cardinality(S)
<1>1. PICK f : f \in Surjection(S, T)
  OBVIOUS
<1> QED
  BY <1>1, FS_Surjection, Zenon

LEMMA StopKeepsBudget ==
    ASSUME LossInv, TypeOK', Stop
    PROVE  AtEnd' /\ Cardinality(Lost') + Debt' <= Budget'
<1>1. GiveUp /\ stops' = stops + 1 /\ UNCHANGED failures
  BY DEF Stop, GiveUp
<1>2. PICK X : /\ IsFiniteSet(X) /\ Victims \subseteq X
               /\ Cardinality(X) + Debt' <= Debt + 2
  BY <1>1, GiveUpCosts
<1> DEFINE Queued == {queue[i] : i \in 1..Len(queue)}
<1>3. /\ IsFiniteSet(Queued) /\ Cardinality(Queued) \in Nat
      /\ Cardinality(Queued) <= Capacity
  <2>1. Len(queue) \in Nat /\ Len(queue) <= Capacity /\ Capacity \in Nat
    BY CapacityAssumption DEF LossInv, TypeOK
  <2>2. IsFiniteSet(1..Len(queue)) /\ Cardinality(1..Len(queue)) = Len(queue)
    <3>1. /\ IsFiniteSet(1..Len(queue))
          /\ Cardinality(1..Len(queue)) =
               IF 1 > Len(queue) THEN 0 ELSE Len(queue) - 1 + 1
      <4>1. 1 \in Int /\ Len(queue) \in Int
        BY <2>1
      <4> QED
        BY <4>1, FS_Interval, Zenon
    <3> QED
      BY <2>1, <3>1
  <2>3. [i \in 1..Len(queue) |-> queue[i]] \in Surjection(1..Len(queue), Queued)
    BY DEF Surjection
  <2>4. IsFiniteSet(Queued) /\ Cardinality(Queued) <= Cardinality(1..Len(queue))
    BY <2>2, <2>3, ImageIsSmall, Zenon
  <2>5. Cardinality(Queued) \in Nat
    BY <2>4, FS_CardinalityType
  <2> QED
    BY <2>1, <2>2, <2>4, <2>5
<1>4. Lost' \subseteq Lost \union (X \union Queued)
  BY <1>1, <1>2 DEF Lost, Victims, InQueue, GiveUp
<1> HIDE DEF Queued
<1>5. /\ IsFiniteSet(X \union Queued) /\ Cardinality(X) \in Nat
      /\ Cardinality(X \union Queued) \in Nat
      /\ Cardinality(X \union Queued) <= Cardinality(X) + Capacity
  <2>1. IsFiniteSet(X \cap Queued) /\ Cardinality(X) \in Nat
    BY <1>2, FS_Subset, FS_CardinalityType
  <2>2. Cardinality(X \cap Queued) \in Nat
    BY <2>1, FS_CardinalityType
  <2>3. /\ IsFiniteSet(X \union Queued)
        /\ Cardinality(X \union Queued) =
             Cardinality(X) + Cardinality(Queued) - Cardinality(X \cap Queued)
    BY <1>2, <1>3, FS_Union
  <2>4. Cardinality(X \union Queued) \in Nat
    BY <2>3, FS_CardinalityType
  <2> QED
    BY <1>3, <2>1, <2>2, <2>3, <2>4, CapacityAssumption
<1>6. failures \in Nat /\ stops \in Nat /\ Capacity \in Nat
  BY CapacityAssumption, BoundsAssumption DEF LossInv, TypeOK
<1>7. Budget' = Budget + (Capacity + 2) /\ Budget \in Nat /\ Debt \in Nat
  <2>1. (Capacity + 2) * (stops + 1) = (Capacity + 2) * stops + (Capacity + 2)
    BY <1>6
  <2>2. (Capacity + 2) * stops \in Nat
    BY <1>6
  <2> QED
    BY <1>1, <1>6, <2>1, <2>2, Numbers DEF Budget
<1>8. Debt' \in Int
  <2>1. Owed("decision")' \in Int /\ Owed("feedback")' \in Int
    BY DEF Kind, TypeOK, Owed
  <2> QED
    BY <2>1 DEF Debt
<1>9. Cardinality(X \union Queued) + Debt' + Budget <= Debt + Budget'
  BY <1>2, <1>5, <1>6, <1>7, <1>8
<1>10. Budget' \in Nat
  BY <1>6, <1>7
<1>11. AtEnd'
  BY <1>1 DEF AtEnd, GiveUp
<1> QED
  BY <1>4, <1>5, <1>9, <1>10, <1>11, BudgetHolds

\* The other steps lose nothing and touch neither file.
LEMMA NothingLost ==
    ASSUME LossInv, TypeOK', UNCHANGED <<tail, ended, failures, stops>>,
           ended => UNCHANGED hand, Lost' \subseteq Lost
    PROVE  AtEnd' /\ Cardinality(Lost') + Debt' <= Budget'
<1>1. AtEnd'
  BY DEF LossInv, AtEnd
<1>2. Debt' = Debt
  BY DEF Debt, Owed
<1>3. Budget' = Budget
  BY DEF Budget
<1>4. Lost' \subseteq Lost \union {}
  OBVIOUS
<1>5. IsFiniteSet({}) /\ Cardinality({}) = 0
  BY FS_EmptySet
<1>6. Cardinality({}) + Debt' + Budget <= Debt + Budget' /\ Budget' \in Nat
  BY <1>2, <1>3, <1>5, Numbers
<1> QED
  BY <1>1, <1>4, <1>5, <1>6, BudgetHolds

LEMMA InitLoss == Init => LossInv
<1> SUFFICES ASSUME Init PROVE LossInv
  OBVIOUS
<1>1. Lost = {} /\ taken = {} /\ IsFiniteSet({}) /\ Cardinality({}) = 0
  BY FS_EmptySet DEF Init, Lost
<1>2. Owed("decision") = 0 /\ Owed("feedback") = 0
  BY DEF Init, Owed, Kind
<1>3. Budget = 0
  BY CapacityAssumption DEF Init, Budget
<1>4. AtEnd
  BY DEF Init, AtEnd
<1> QED
  BY <1>1, <1>2, <1>3, <1>4, InitTypes DEF LossInv, Debt

LEMMA SendLosesNothing ==
    ASSUME LossInv, NEW x \in Record, Send(x), UNCHANGED <<hand, lines, tail>>
    PROVE  Lost' \subseteq Lost /\ IsFiniteSet(taken')
<1>1. \A y : Readable(y)' <=> Readable(y)
  BY DEF Readable
<1>2. \/ UNCHANGED <<queue, taken>>
      \/ /\ taken' = taken \union {x}
         /\ \A y : InQueue(y)' <=> InQueue(y) \/ y = x
  BY SendAppends DEF LossInv
<1>3. CASE UNCHANGED <<queue, taken>>
  BY <1>1, <1>3 DEF LossInv, Lost, InQueue
<1>4. CASE /\ taken' = taken \union {x}
           /\ \A y : InQueue(y)' <=> InQueue(y) \/ y = x
  <2>1. IsFiniteSet(taken')
    BY <1>4, FS_AddElement DEF LossInv
  <2>2. Lost' \subseteq Lost
    BY <1>1, <1>4 DEF Lost
  <2> QED
    BY <2>1, <2>2
<1> QED
  BY <1>2, <1>3, <1>4

LEMMA StepLoss == LossInv /\ [Next]_vars => LossInv'
<1> SUFFICES ASSUME LossInv, [Next]_vars, TypeOK'
             PROVE  /\ IsFiniteSet(taken')
                    /\ AtEnd' /\ Cardinality(Lost') + Debt' <= Budget'
  BY StepTypes DEF LossInv
<1> DEFINE Goal == /\ IsFiniteSet(taken')
                   /\ AtEnd' /\ Cardinality(Lost') + Debt' <= Budget'
<1>1. ASSUME UNCHANGED <<queue, writer, taken, failures, stops>> PROVE Goal
  <2>1. Lost' = Lost
    BY <1>1 DEF Lost, InQueue, Readable, writer
  <2> QED
    BY <1>1, <2>1, NothingLost DEF LossInv, writer
<1>2. ASSUME NEW r \in Requests, Decide(r) \/ Accept(r) PROVE Goal
  <2>1. PICK x \in Record : Send(x)
    BY <1>2, RecordsAreRecords DEF Decide, Accept, Decision, Feedback
  <2>2. UNCHANGED <<writer, failures, stops>>
    BY <1>2 DEF Decide, Accept
  <2>3. Lost' \subseteq Lost /\ IsFiniteSet(taken')
    BY <2>1, <2>2, SendLosesNothing DEF writer
  <2> QED
    BY <2>2, <2>3, NothingLost DEF writer
<1>3. ASSUME Take PROVE Goal
  <2>1. /\ hand = None /\ UNCHANGED <<ended, lines, tail, failures, taken, stops>>
    BY <1>3 DEF Take, Idle
  <2>2. \A y : InQueue(y) <=> InQueue(y)' \/ y = hand'
    BY <1>3, TakeRemoves DEF LossInv
  <2>3. \A y : Readable(y)' <=> Readable(y)
    BY <2>1 DEF Readable
  <2>4. \A y \in taken : hand # y
    BY <2>1, NoneAssumption DEF LossInv, TypeOK
  <2>5. Lost' \subseteq Lost
    BY <2>1, <2>2, <2>3, <2>4 DEF Lost
  <2>6. ended => UNCHANGED hand
    BY <2>1 DEF LossInv, AtEnd
  <2> QED
    BY <2>1, <2>5, <2>6, NothingLost DEF LossInv
<1>4. ASSUME WriteLine PROVE Goal
  BY <1>4, WriteLineKeepsBudget DEF LossInv, WriteLine, Idle
<1>5. ASSUME WriteEnd PROVE Goal
  BY <1>5, WriteEndKeepsBudget DEF LossInv, WriteEnd, Idle
<1>6. ASSUME WriteFails PROVE Goal
  BY <1>6, WriteFailsKeepsBudget DEF LossInv, WriteFails, Idle
<1>7. ASSUME Stop PROVE Goal
  BY <1>7, StopKeepsBudget DEF LossInv, Stop
<1> HIDE DEF Goal
<1>8. ASSUME NEW r \in Requests, Arrive(r) \/ Answer(r) \/ Report(r) PROVE Goal
  BY <1>1, <1>8 DEF Arrive, Answer, Report
<1>9. ASSUME UNCHANGED vars PROVE Goal
  <2>1. UNCHANGED <<queue, writer, taken, failures, stops>>
    BY <1>9 DEF vars
  <2> QED
    BY <1>1, <2>1
<1>10. Goal
  BY <1>2, <1>3, <1>4, <1>5, <1>6, <1>7, <1>8, <1>9 DEF Next, Handle, Write
<1> QED
  BY <1>10 DEF Goal

\* A failed write costs at most two records and a stop what was in the
\* channel and two more, whenever they strike and whatever follows: no other
\* record the channel took is lost (feedback/src/lib.rs).
THEOREM LossesAreBounded == Spec => []LossIsBounded
<1>1. Spec => []LossInv
  BY InitLoss, StepLoss, PTL DEF Spec
<1>2. LossInv => LossIsBounded
  <2> SUFFICES ASSUME LossInv PROVE Cardinality(Lost) <= Budget
    BY DEF LossIsBounded, Budget
  <2> QED
    BY Numbers DEF LossInv
<1> QED
  BY <1>1, <1>2, PTL
=============================================================================

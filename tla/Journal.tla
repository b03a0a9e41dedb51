------------------------------- MODULE Journal -------------------------------
(***************************************************************************)
(* The feedback sink of a router (crates/feedback, ADR-0018): handlers     *)
(* record decisions and the feedback of callers with try_send on a bounded *)
(* channel; a writer task on the same runtime appends them to two files of *)
(* lines, which the trainer reads and joins on the decision's id.          *)
(*                                                                         *)
(* writeln! makes two calls, one for the line and one for its end, and     *)
(* both block the thread of the runtime that polls the writer.  A call     *)
(* that fails, or a process that is killed, may leave part of a line; the  *)
(* files are opened to append, so what is written next continues it.       *)
(***************************************************************************)
EXTENDS Naturals, Sequences, FiniteSets

CONSTANTS
    Requests,     \* the requests of a behaviour, which give decisions their id
    Reporters,    \* those whose callers will send feedback
    Capacity,     \* of the channel: 1024
    None,         \* the writer has no record
    MaxFailures,  \* bound on failing writes
    MaxStops      \* bound on stops of the process

ASSUME RequestsAssumption == IsFiniteSet(Requests) /\ Reporters \subseteq Requests
ASSUME CapacityAssumption == Capacity \in Nat \ {0}
ASSUME BoundsAssumption == MaxFailures \in Nat /\ MaxStops \in Nat

Kind   == {"decision", "feedback"}     \* decisions.jsonl, feedback.jsonl
Record == [kind : Kind, id : Requests]
ASSUME NoneAssumption == None \notin Record

\* What a write call leaves of a record: all of it or a part
Fragment == [record : Record, whole : BOOLEAN]

Phase == {"idle", "open", "decided",   \* arrived; decision made and recorded
          "told",                      \* the caller knows the decision's id
          "reporting", "accepted",     \* feedback arrived; answered 202
          "gone"}                      \* cut off by a stop

\* A handler is at work on it.
Serving == {"open", "decided", "reporting"}

VARIABLES
    phase,     \* how far each request is
    queue,     \* the channel
    hand,      \* the record the writer is writing
    ended,     \* is only the end of its line left to write?
    lines,     \* each file's lines, as the fragments on them
    tail,      \* the fragments after the last line's end
    taken,     \* history: the records the channel took
    failures,  \* failed writes so far
    stops      \* stops so far

writer == <<hand, ended, lines, tail>>
vars   == <<phase, queue, writer, taken, failures, stops>>

Init ==
    /\ phase = [r \in Requests |-> "idle"]
    /\ queue = <<>>
    /\ hand = None
    /\ ended = FALSE
    /\ lines = [k \in Kind |-> <<>>]
    /\ tail = [k \in Kind |-> <<>>]
    /\ taken = {}
    /\ failures = 0
    /\ stops = 0

-----------------------------------------------------------------------------
(* Handlers.                                                               *)

Become(r, p) == phase' = [phase EXCEPT ![r] = p]

\* A plausible bug: feedback is more urgent
SendUrgent(record) ==
    /\ queue' = IF record.kind = "feedback" THEN <<record>> \o queue
                ELSE Append(queue, record)
    /\ taken' = taken \union {record}

\* try_send: a full channel drops the record.
Send(record) ==
    IF Len(queue) = Capacity
    THEN UNCHANGED <<queue, taken>>
    ELSE queue' = Append(queue, record) /\ taken' = taken \union {record}

Arrive(r) ==
    /\ phase[r] = "idle"
    /\ Become(r, "open")
    /\ UNCHANGED <<queue, writer, taken, failures, stops>>

\* decide_bytes records the decision before anybody hears of it.
Decide(r) ==
    /\ phase[r] = "open"
    /\ Send([kind |-> "decision", id |-> r])
    /\ Become(r, "decided")
    /\ UNCHANGED <<writer, failures, stops>>

\* The answer carries the decision's id.
Answer(r) ==
    /\ phase[r] = "decided"
    /\ Become(r, "told")
    /\ UNCHANGED <<queue, writer, taken, failures, stops>>

\* A caller reports how its request went.
Report(r) ==
    /\ r \in Reporters
    /\ phase[r] = "told"
    /\ Become(r, "reporting")
    /\ UNCHANGED <<queue, writer, taken, failures, stops>>

\* It is accepted whether the channel has room or not.  That the decision
\* was recorded is not looked up.
Accept(r) ==
    /\ phase[r] = "reporting"
    /\ Send([kind |-> "feedback", id |-> r])
    /\ Become(r, "accepted")
    /\ UNCHANGED <<writer, failures, stops>>

-----------------------------------------------------------------------------
(* The writer task.                                                        *)

Idle == UNCHANGED <<phase, taken, stops>>

\* A plausible bug: the task ends at the first error
TakeUntilError ==
    /\ hand = None
    /\ failures = 0
    /\ queue # <<>>
    /\ hand' = Head(queue)
    /\ queue' = Tail(queue)
    /\ UNCHANGED <<ended, lines, tail, failures>>
    /\ Idle

Take ==
    /\ hand = None
    /\ queue # <<>>
    /\ hand' = Head(queue)
    /\ queue' = Tail(queue)
    /\ UNCHANGED <<ended, lines, tail, failures>>
    /\ Idle

Leaves(whole) ==
    tail' = [tail EXCEPT ![hand.kind] =
                Append(@, [record |-> hand, whole |-> whole])]

WriteLine ==
    /\ hand # None
    /\ ~ended
    /\ Leaves(TRUE)
    /\ ended' = TRUE
    /\ UNCHANGED <<queue, hand, lines, failures>>
    /\ Idle

\* A plausible bug: write! in place of writeln!
NoEnd ==
    /\ hand # None
    /\ ended
    /\ hand' = None
    /\ ended' = FALSE
    /\ UNCHANGED <<queue, lines, tail, failures>>
    /\ Idle

WriteEnd ==
    /\ hand # None
    /\ ended
    /\ lines' = [lines EXCEPT ![hand.kind] = Append(@, tail[hand.kind])]
    /\ tail' = [tail EXCEPT ![hand.kind] = <<>>]
    /\ hand' = None
    /\ ended' = FALSE
    /\ UNCHANGED <<queue, failures>>
    /\ Idle

\* A call fails: the record is given up with a warning.  If it was the first
\* call, part of the line may be there.
WriteFails ==
    /\ hand # None
    /\ failures < MaxFailures
    /\ failures' = failures + 1
    /\ hand' = None
    /\ ended' = FALSE
    /\ UNCHANGED tail \/ (~ended /\ Leaves(FALSE))
    /\ UNCHANGED <<queue, lines>>
    /\ Idle

-----------------------------------------------------------------------------
(* The process.                                                            *)

\* It stops and starts again, by signal once its requests are done, or by a
\* kill at any moment.  Nothing waits for the writer: what is in the channel
\* is lost, and so are the requests that are under way.
Stop ==
    /\ stops < MaxStops
    /\ stops' = stops + 1
    /\ queue' = <<>>
    /\ hand' = None
    /\ ended' = FALSE
    /\ UNCHANGED tail \/ (hand # None /\ ~ended /\ Leaves(FALSE))
    /\ phase' = [r \in Requests |->
                   IF phase[r] \in Serving THEN "gone" ELSE phase[r]]
    /\ UNCHANGED <<lines, taken, failures>>

-----------------------------------------------------------------------------
Handle(r) == Decide(r) \/ Answer(r) \/ Accept(r)
Write     == Take \/ WriteLine \/ WriteEnd

Next ==
    \/ \E r \in Requests : Arrive(r) \/ Handle(r) \/ Report(r)
    \/ Write
    \/ WriteFails
    \/ Stop

\* No fairness: a call on the disk may never return, and where the runtime has
\* one thread (#[tokio::main] starts one per processor) it stops the handlers.
\* JournalDrains has the return of these calls as its premise.
Spec == Init /\ [][Next]_vars

-----------------------------------------------------------------------------
(* Properties.                                                             *)

\* The variables take the values the comments above give them.
TypeOK ==
    /\ phase \in [Requests -> Phase]
    /\ queue \in Seq(Record) /\ Len(queue) <= Capacity
    /\ hand \in Record \union {None}
    /\ ended \in BOOLEAN
    /\ lines \in [Kind -> Seq(Seq(Fragment))]
    /\ tail \in [Kind -> Seq(Fragment)]
    /\ taken \in SUBSET Record
    /\ failures \in 0..MaxFailures
    /\ stops \in 0..MaxStops

InQueue(record) == \E i \in 1..Len(queue) : queue[i] = record

\* What a reader of lines can parse: one whole record, on a line of its own.
\* The last line may lack its end.
Readable(record) ==
    LET alone == <<[record |-> record, whole |-> TRUE]>> IN
    \/ tail[record.kind] = alone
    \/ \E i \in 1..Len(lines[record.kind]) : lines[record.kind][i] = alone

\* What the channel took, and nobody will read
Lost == {x \in taken : ~(InQueue(x) \/ hand = x \/ Readable(x))}

\* A failed write costs its own record and at most the next one of its file,
\* which continues the line; a stop costs what was in the channel besides.
\* Everything else the channel took can be read.
LossIsBounded ==
    Cardinality(Lost) <= 2 * failures + (Capacity + 2) * stops

\* The trainer joins the files: when feedback has reached its file, whole or
\* not, the decision it is about is not still on its way.
JoinIsSettled ==
    \A r \in Requests :
        LET decision == [kind |-> "decision", id |-> r]
            feedback == [kind |-> "feedback", id |-> r]
        IN  feedback \in taken /\ ~InQueue(feedback) =>
                ~InQueue(decision) /\ hand # decision

\* As long as calls on the disk return, with or without an error, all that
\* is in the channel leaves it in the end (requests are finitely many).
JournalDrains == WF_vars(Write) => <>[](queue = <<>> /\ hand = None)
=============================================================================

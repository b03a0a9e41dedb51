------------------------------- MODULE Lease -------------------------------
(***************************************************************************)
(* Leader election of routed-operator over one coordination.k8s.io Lease   *)
(* (cmd/routed-operator/src/leader.rs).                                    *)
(*                                                                         *)
(* Every replica runs one election task: a tick reads its clock, gets the  *)
(* lease, gives up if another holder's renewal is recent enough, and       *)
(* otherwise creates or force-applies the lease with itself as holder.     *)
(* There is no compare-and-swap.  Whatever the tick returns goes into the  *)
(* leader flag, then the task sleeps.  A call acts on the API server at    *)
(* some moment before it returns, and may fail before or after it acted.   *)
(*                                                                         *)
(* Time is relative: ages count up to a cap, timers count down, and the    *)
(* clock may not advance past a timer.  That finite clock lets TLC check   *)
(* what holds for ever, not up to a horizon.                               *)
(***************************************************************************)
EXTENDS Integers, Leadership

CONSTANTS
  Period,    \* sleep between ticks: LEASE_DURATION_SECS / 3
  Duration,  \* LEASE_DURATION_SECS
  Latency,   \* longest an API call takes (the client's environment)
  Skew,      \* per replica: how far its clock is ahead
  MaxSkew,   \* bound on how far a clock is ahead
  Overlap,   \* the bound stated on two flags being set together
  MaxFails, MaxCrashes,  \* bounds on failed calls and crashes
  NoHolder

ASSUME LeaseAssumption ==
  /\ Period \in Nat \ {0} /\ Duration \in Nat /\ Latency \in Nat /\ Overlap \in Nat
  /\ MaxSkew \in Nat /\ Skew \in [Replica -> 0..MaxSkew]
  /\ MaxFails \in Nat /\ MaxCrashes \in Nat
  /\ NoHolder \notin Replica

VARIABLES
  holder,    \* API server: spec.holderIdentity, or NoHolder before the first create
  age,       \* API server: true time since the stamp in spec.renewTime
  step,      \* per replica: where its election task stands
  plan,      \* per replica: what the get led to
  stamp,     \* per replica: true time since the tick read its clock
  timer,     \* per replica: time left to the end of the sleep or call
  together,  \* per two replicas: how long both have had the flag set
             \* (history, capped)
  fails, crashes

task == <<step, plan, stamp, timer>>
electionVars == <<holder, age, step, plan, stamp, timer, leading, together, fails, crashes>>

Calling == {"get", "got", "write", "wrote"}
Steps == Calling \cup {"sleep", "down"}
Plans == {"none", "standback", "create", "apply"}
Timers == 0..Period \cup 0..Latency

(* Ages beyond this all look expired to every clock. *)
AgeCap == Duration + 1 + MaxSkew
Capped(n, cap) == IF n > cap THEN cap ELSE n

Leaders == {r \in Replica : leading[r]}

ElectionInit ==
  /\ holder = NoHolder
  /\ age = 0
  /\ step = [r \in Replica |-> "sleep"]
  /\ plan = [r \in Replica |-> "none"]
  /\ stamp = [r \in Replica |-> 0]
  /\ timer \in [Replica -> 0..Period]
  /\ leading = [r \in Replica |-> FALSE]
  /\ together = [a \in Replica |-> [b \in Replica |-> 0]]
  /\ fails = 0
  /\ crashes = 0

Set(f, r, v) == [f EXCEPT ![r] = v]

(* The end of a tick: the flag is stored, then the task sleeps. *)
EndTick(r, isLeader) ==
  /\ leading' = Set(leading, r, isLeader)
  /\ step' = Set(step, r, "sleep")
  /\ plan' = Set(plan, r, "none")
  /\ stamp' = Set(stamp, r, 0)
  /\ timer' = Set(timer, r, Period)

----------------------------------------------------------------------------
(* One tick *)

BeginTick(r) ==
  /\ step[r] = "sleep"
  /\ timer[r] = 0
  /\ step' = Set(step, r, "get")
  /\ stamp' = Set(stamp, r, 0)
  /\ timer' = Set(timer, r, Latency)
  /\ UNCHANGED <<holder, age, plan, leading, together, fails, crashes>>

(* A plausible bug: a lease is expired as soon as it is a period old. *)
ExpiredEarly(r) == age - stamp[r] + Skew[r] - Skew[holder] > Period

(* now - renewTime > duration, between the reader's and the holder's clock. *)
Expired(r) == age - stamp[r] + Skew[r] - Skew[holder] > Duration

(* A plausible bug: whoever gets the lease takes it. *)
PlanOfGreedy(r) == IF holder = NoHolder THEN "create" ELSE "apply"

PlanOf(r) ==
  IF holder = NoHolder THEN "create"
  ELSE IF holder = r \/ Expired(r) THEN "apply"
  ELSE "standback"

(* The get acts on the server. *)
Get(r) ==
  /\ step[r] = "get"
  /\ step' = Set(step, r, "got")
  /\ plan' = Set(plan, r, PlanOf(r))
  /\ UNCHANGED <<holder, age, stamp, timer, leading, together, fails, crashes>>

(* A plausible bug: only the write's outcome reaches the flag. *)
StandBackStill(r) ==
  /\ step[r] = "got"
  /\ plan[r] = "standback"
  /\ EndTick(r, leading[r])
  /\ UNCHANGED <<holder, age, together, fails, crashes>>

(* Another holder's renewal is recent enough. *)
StandBack(r) ==
  /\ step[r] = "got"
  /\ plan[r] = "standback"
  /\ EndTick(r, FALSE)
  /\ UNCHANGED <<holder, age, together, fails, crashes>>

BeginWrite(r) ==
  /\ step[r] = "got"
  /\ plan[r] \in {"create", "apply"}
  /\ step' = Set(step, r, "write")
  /\ timer' = Set(timer, r, Latency)
  /\ UNCHANGED <<holder, age, plan, stamp, leading, together, fails, crashes>>

(* A create of a lease that exists by now is refused; an apply is forced. *)
WriteLease(r) ==
  /\ step[r] = "write"
  /\ step' = Set(step, r, "wrote")
  /\ IF plan[r] = "create" /\ holder # NoHolder
       THEN /\ plan' = Set(plan, r, "standback")
            /\ UNCHANGED <<holder, age>>
       ELSE /\ holder' = r
            /\ age' = stamp[r]
            /\ UNCHANGED plan
  /\ UNCHANGED <<stamp, timer, leading, together, fails, crashes>>

Wrote(r) ==
  /\ step[r] = "wrote"
  /\ EndTick(r, plan[r] # "standback")
  /\ UNCHANGED <<holder, age, together, fails, crashes>>

(* An error from either call, before or after it acted, clears the flag; an *)
(* error of the create is a refusal, which clears it as well.               *)
CallFails(r) ==
  /\ fails < MaxFails
  /\ step[r] \in Calling
  /\ fails' = fails + 1
  /\ EndTick(r, FALSE)
  /\ UNCHANGED <<holder, age, together, crashes>>

----------------------------------------------------------------------------
(* Processes and time *)

Crash(r) ==
  /\ crashes < MaxCrashes
  /\ step[r] # "down"
  /\ crashes' = crashes + 1
  /\ leading' = Set(leading, r, FALSE)
  /\ step' = Set(step, r, "down")
  /\ plan' = Set(plan, r, "none")
  /\ stamp' = Set(stamp, r, 0)
  /\ timer' = Set(timer, r, 0)
  /\ UNCHANGED <<holder, age, together, fails>>

(* The pod comes back under the same identity, its first tick due at once. *)
Reboot(r) ==
  /\ step[r] = "down"
  /\ step' = Set(step, r, "sleep")
  /\ UNCHANGED <<holder, age, plan, stamp, timer, leading, together, fails, crashes>>

(* Time moves on when every running task still has time left. *)
Advance ==
  /\ \A r \in Replica : step[r] # "down" => timer[r] > 0
  /\ timer' = [r \in Replica |-> IF step[r] = "down" THEN 0 ELSE timer[r] - 1]
  /\ stamp' = [r \in Replica |-> IF step[r] \in Calling THEN stamp[r] + 1 ELSE 0]
  /\ age' = IF holder = NoHolder THEN 0 ELSE Capped(age + 1, AgeCap + 2 * Latency)
  /\ together' = [a \in Replica |-> [b \in Replica |->
                    IF a # b /\ leading[a] /\ leading[b]
                      THEN Capped(together[a][b] + 1, Overlap + 1) ELSE 0]]
  /\ UNCHANGED <<holder, step, plan, leading, fails, crashes>>

Task(r) ==
  \/ BeginTick(r) \/ Get(r) \/ StandBack(r)
  \/ BeginWrite(r) \/ WriteLease(r) \/ Wrote(r)

ElectionNext ==
  \/ Advance
  \/ \E r \in Replica : Task(r) \/ CallFails(r) \/ Crash(r) \/ Reboot(r)

ElectionSpec == ElectionInit /\ [][ElectionNext]_electionVars

(* Time passes, a running task goes on, a crashed pod is restarted. *)
FairElectionSpec ==
  /\ ElectionSpec
  /\ WF_electionVars(Advance)
  /\ \A r \in Replica : WF_electionVars(Task(r)) /\ WF_electionVars(Reboot(r))

----------------------------------------------------------------------------
(* What the bounds need *)

(* A lease outlives a renewal and five calls, on clocks this far apart.      *)
Timely ==
  /\ 2 * Latency < Period
  /\ Period + 5 * Latency + MaxSkew <= Duration
  /\ Period + Latency <= Overlap

(* And it outlives a lost renewal. *)
RoomForOne == 2 * Period + 6 * Latency + MaxSkew <= Duration

----------------------------------------------------------------------------
(* Properties *)

ElectionTypeOK ==
  /\ holder \in Replica \cup {NoHolder}
  /\ age \in Nat
  /\ step \in [Replica -> Steps]
  /\ plan \in [Replica -> Plans]
  /\ stamp \in [Replica -> Nat]
  /\ timer \in [Replica -> Timers]
  /\ leading \in [Replica -> BOOLEAN]
  /\ together \in [Replica -> [Replica -> 0..(Overlap + 1)]]
  /\ fails \in 0..MaxFails
  /\ crashes \in 0..MaxCrashes

(* leader.rs 7-9 admits two leaders during a handover, calling the overlap  *)
(* short: no two flags are set together for longer than Overlap.            *)
OverlapIsShort == \A a, b \in Replica : together[a][b] <= Overlap

(* Renewing every third of the duration leaves room for one lost renewal:   *)
(* the lease changes hands only after a crash or two failed calls.          *)
OneFailureKeepsTheLease ==
  [][(holder # NoHolder /\ holder' # holder) => crashes > 0 \/ fails > 1]_electionVars

(* Once calls stop failing and pods stop crashing, one replica leads for    *)
(* good and it is the only one.                                             *)
OneLeaderEmerges ==
  \E r \in Replica : <>[](Leaders = {r} /\ holder = r)
=============================================================================

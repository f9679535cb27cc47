-------------------------------- MODULE Gate ---------------------------------
(***************************************************************************)
(* eo/concurrency_gate.py over utils/rate_ledger.py: run_gated starts a    *)
(* batch of tasks as one account's daily budget has room for them, and the *)
(* model calls a task makes book the same budget again (utils/             *)
(* llm_client.py).  The ledger is a record per day in a store that can     *)
(* only be read and written: an adjustment is a read, then a write, and    *)
(* the admission loop and the tasks' threads do theirs at the same time.   *)
(* One account in "neurons" mode, whose outer bookings are real sizes.     *)
(***************************************************************************)
EXTENDS Integers, Sequences, FiniteSets, FiniteSetsExt

CONSTANTS Gated,        \* tasks with a step: they are held until the account has room
          Free,         \* tasks without one: admitted at once
          Limit,        \* the account's budget of a day
          Ceiling,      \* the outer booking of a task: its step's max_tokens
          Estimate,     \* what a model call books: a rough figure, too high or too low
          Costs,        \* what a call of each task may turn out to cost
          MaxCalls,     \* bound: the model calls of each task, retries included
          Loop, Nothing

Task == Gated \union Free
Thread == Task \union {Loop}
Today == 0              \* a day is named by its age
Yesterday == 1
Day == {Today, Yesterday}

ASSUME GateAssumption ==
  /\ {Limit, Ceiling, Estimate} \subseteq Nat \ {0} /\ MaxCalls \in [Task -> Nat]
  /\ Costs \in [Task -> SUBSET (Nat \ {0})] /\ Ceiling <= Limit
  /\ Gated \cap Free = {} /\ Loop \notin Task /\ Nothing \notin Thread
  /\ IsFiniteSet(Task) /\ Task \cap {"waiting", "scan", "full", "sleep", "over"} = {}
  /\ Nothing \notin Nat \union [day : Day, n : {Ceiling, Estimate}]

VARIABLES used,         \* the record of each day: bookings and usage
          at,           \* where each thread stands
          on,           \* the day a thread's reserve() began on
          todo,         \* the adjustments a thread has still to make, in order
          seen,         \* the record as it read it, between the read and the write
          outer, inner, \* each task's reservations: the gate's and its model call's
          pending,      \* tasks the loop has not admitted
          left,         \* those of them it has not looked at in this scan
          any,          \* this scan admitted one
          wake,         \* the event that ends the loop's sleep
          fut,          \* the futures the caller holds
          calls,        \* history: model calls each task has made
          real,         \* history: what the calls booked on each day have cost
          owed,         \* history: what the record should be left with
          unnamed,      \* history: what they cost beyond that, named by no answer
          astray       \* history: what may make the record wrong

books == <<used, todo, seen>>
gate   == <<pending, left, any, wake>>
truth  == <<calls, real, owed, unnamed>>
gateVars == <<books, at, on, outer, inner, gate, fut, truth, astray>>

Clean == [d \in Day |-> 0]

GateInit ==
  /\ used = Clean
  /\ at = [p \in Thread |-> IF p = Loop THEN "scan" ELSE "waiting"]
  /\ on = [p \in Thread |-> Today]
  /\ todo = [p \in Thread |-> <<>>] /\ seen = [p \in Thread |-> Nothing]
  /\ outer = [t \in Task |-> Nothing] /\ inner = [t \in Task |-> Nothing]
  /\ pending = Task /\ left = Task /\ any = FALSE /\ wake = FALSE
  /\ fut = [t \in Task |-> "pending"]
  /\ calls = [t \in Task |-> 0]
  /\ real = Clean /\ owed = Clean /\ unnamed = Clean
  /\ astray = {}

Goto(p, from, to) == at[p] = from /\ at' = [at EXCEPT ![p] = to]
Settled(p) == todo[p] = <<>>
Happens(what) == astray' = IF "lost" \in astray THEN astray ELSE astray \union what

(* An adjustment or a booking is lost, and nothing is counted any further: *)
(* neither what else goes wrong, nor what the calls cost.                  *)
Lost == astray' = {"lost"} /\ real' = Clean /\ owed' = Clean /\ unnamed' = Clean

------------------------------------------------------------------------------
(* The ledger's adjustments.                                               *)

\* _adjust_daily_neurons and _decrement_daily_count: the read ...
AdjustRead(p) ==
  /\ ~Settled(p) /\ seen[p] = Nothing
  /\ seen' = [seen EXCEPT ![p] = used[Head(todo[p]).day]]
  /\ UNCHANGED <<used, todo, at, on, outer, inner, gate, fut, truth, astray>>

\* ... and the write, floored at zero, over whatever is there by now.
AdjustWrite(p) ==
  /\ ~Settled(p) /\ seen[p] # Nothing
  /\ LET a == Head(todo[p]) IN
     /\ used' = [used EXCEPT ![a.day] = Max({0, seen[p] + a.delta})]
     /\ IF used[a.day] # seen[p] THEN Lost ELSE UNCHANGED <<real, owed, unnamed, astray>>
  /\ todo' = [todo EXCEPT ![p] = Tail(@)] /\ seen' = [seen EXCEPT ![p] = Nothing]
  /\ UNCHANGED <<at, on, outer, inner, gate, fut, calls>>

\* reserve(): the check.  The day is fixed here; the booking is written after.
HasRoom(n) == used[Today] + n <= Limit
Book(p, n) == todo' = [todo EXCEPT ![p] = <<[day |-> on[p], delta |-> n]>>]

\* Fault: what was booked is settled, as in the other modes.
RollbackSettles(p, b) == todo' = todo /\ Happens({})

(* release_reservation(dispatched=False): the day's count is taken back on *)
(* the day of the booking, its neurons on the day of the release.          *)
Rollback(p, b) ==
  IF b = Nothing THEN todo' = todo /\ Happens({})
  ELSE /\ todo' = [todo EXCEPT ![p] = <<[day |-> b.day, delta |-> 0],
                                        [day |-> Today, delta |-> -b.n]>>]
       /\ Happens(IF b.day # Today THEN {"midnight"} ELSE {})

\* Fault: a call whose usage is not known is taken for one not made.
TrueUpUnknown(p, b, cost) ==
  IF b = Nothing THEN todo' = todo /\ Happens({})
  ELSE /\ todo' = [todo EXCEPT ![p] =
                     <<[day |-> Today, delta |-> (IF cost = Nothing THEN 0 ELSE cost) - b.n]>>]
       /\ Happens(IF b.day # Today THEN {"midnight"} ELSE {})

(* release_reservation(dispatched=True): the estimate gives way to the     *)
(* real cost, and stands where the answer did not name it.                 *)
TrueUp(p, b, cost) ==
  IF b = Nothing \/ cost = Nothing \/ cost = b.n THEN todo' = todo /\ Happens({})
  ELSE /\ todo' = [todo EXCEPT ![p] = <<[day |-> Today, delta |-> cost - b.n]>>]
       /\ Happens(IF b.day # Today THEN {"midnight"} ELSE {})

------------------------------------------------------------------------------
(* The admission loop: one scan over the tasks still pending, in any order.*)

Forget(p) == on' = [on EXCEPT ![p] = Today]

Submit(t, b) ==
  /\ at' = [at EXCEPT ![Loop] = "scan", ![t] = "submitted"]
  /\ outer' = [outer EXCEPT ![t] = b]
  /\ any' = TRUE /\ pending' = pending \ {t} /\ left' = left \ {t}
  /\ Forget(Loop)

\* A task without a step asks the ledger nothing.
AdmitFree(t) ==
  /\ t \in left \cap Free /\ at[Loop] = "scan"
  /\ Submit(t, Nothing)
  /\ UNCHANGED <<books, inner, wake, fut, truth, astray>>

\* _admit() of a task with one, up to the booking's first read ...
Admit(t) ==
  /\ t \in left \cap Gated /\ at[Loop] = "scan"
  /\ IF HasRoom(Ceiling)
     THEN Book(Loop, Ceiling) /\ Goto(Loop, "scan", t) /\ UNCHANGED left
     ELSE left' = left \ {t} /\ UNCHANGED <<todo, at>>
  /\ UNCHANGED <<used, seen, on, outer, inner, pending, any, wake, fut, truth, astray>>

\* ... and the reservation's own record, after which the pool has the task.
Admitted(t) ==
  /\ at[Loop] = t /\ Settled(Loop)
  /\ Submit(t, [day |-> on[Loop], n |-> Ceiling])
  /\ UNCHANGED <<books, inner, wake, fut, truth, astray>>

(* reserve() fails before it booked, or after: the task is admitted all    *)
(* the same.  Bound: where nothing else went wrong.                        *)
AdmittedOpen(t) ==
  /\ t \in left \cap Gated /\ at[Loop] \in {"scan", t} /\ Settled(Loop) /\ astray = {}
  /\ Submit(t, Nothing) /\ Lost
  /\ UNCHANGED <<books, inner, wake, fut, calls>>

\* The end of a scan.
Scanned ==
  /\ left = {} /\ left' = pending /\ any' = FALSE
  /\ Goto(Loop, "scan", CASE pending = {} -> "over" [] any -> "scan" [] OTHER -> "full")
  /\ UNCHANGED <<books, on, outer, inner, pending, wake, fut, truth, astray>>

Clear ==
  /\ Goto(Loop, "full", "sleep") /\ wake' = FALSE
  /\ UNCHANGED <<books, on, outer, inner, pending, left, any, fut, truth, astray>>

\* A task's end wakes the loop, and so does the wait's own limit.
Wake ==
  /\ Goto(Loop, "sleep", "scan")
  /\ UNCHANGED <<books, on, outer, inner, gate, fut, truth, astray>>

------------------------------------------------------------------------------
(* A task in its thread: _run_one.                                         *)

\* A future the caller cancelled rolls its reservation back and wakes nobody.
RunOne(t) ==
  /\ IF fut[t] = "cancelled"
     THEN Goto(t, "submitted", "dropping") /\ Rollback(t, outer[t]) /\ UNCHANGED fut
     ELSE /\ Goto(t, "submitted", "working") /\ fut' = [fut EXCEPT ![t] = "running"]
          /\ UNCHANGED <<todo, astray>>
  /\ UNCHANGED <<used, seen, on, outer, inner, gate, truth>>

Dropped(t) ==
  /\ Settled(t) /\ Goto(t, "dropping", "over") /\ outer' = [outer EXCEPT ![t] = Nothing]
  /\ UNCHANGED <<books, on, inner, gate, fut, truth, astray>>

Starts(t) == calls[t] < MaxCalls[t] /\ calls' = [calls EXCEPT ![t] = @ + 1]

(* The task asks the model: _ledger_gate.  Without room the chain goes on  *)
(* to another account, which this record knows nothing of.                 *)
Ask(t) ==
  /\ Starts(t)
  /\ IF HasRoom(Estimate)
     THEN Goto(t, "working", "booking") /\ Book(t, Estimate)
     ELSE at[t] = "working" /\ UNCHANGED <<at, todo>>
  /\ UNCHANGED <<used, seen, on, outer, inner, gate, fut, real, owed, unnamed, astray>>

Proceed(t) ==
  /\ Settled(t) /\ Goto(t, "booking", "calling")
  /\ inner' = [inner EXCEPT ![t] = [day |-> on[t], n |-> Estimate]]
  /\ UNCHANGED <<books, on, outer, gate, fut, truth, astray>>

\* As in AdmittedOpen.
ProceedOpen(t) ==
  /\ astray = {} /\ Settled(t) /\ Lost
  /\ \/ Starts(t) /\ Goto(t, "working", "calling")
     \/ Goto(t, "booking", "calling") /\ UNCHANGED calls
  /\ UNCHANGED <<books, on, outer, inner, gate, fut>>

\* What a call costs, and what of it the record is to show.
Bill(t, cost, owes) ==
  IF "lost" \in astray THEN UNCHANGED <<real, owed, unnamed>>
  ELSE /\ real' = [real EXCEPT ![on[t]] = @ + cost]
       /\ owed' = [owed EXCEPT ![on[t]] = @ + owes]
       /\ unnamed' = [unnamed EXCEPT ![on[t]] = @ + Max({0, cost - owes})]

\* An answer, with or without its usage; both are charged to the day of the booking.
Answer(t) ==
  /\ Goto(t, "calling", "settling")
  /\ \E cost \in Costs[t], known \in BOOLEAN :
       /\ Bill(t, cost, IF known THEN cost ELSE Estimate)
       /\ TrueUp(t, inner[t], IF known THEN cost ELSE Nothing)
  /\ Forget(t) /\ UNCHANGED <<calls, used, seen, outer, inner, gate, fut>>

(* A transient error: the booking is rolled back whole, though the         *)
(* provider may have charged for the call all the same.                    *)
Failed(t) ==
  /\ Goto(t, "calling", "settling") /\ Rollback(t, inner[t])
  /\ \E cost \in Costs[t] \union {0} : Bill(t, cost, 0)
  /\ Forget(t) /\ UNCHANGED <<calls, used, seen, outer, inner, gate, fut>>

\* Any other error leaves the generation and the task, and the booking as it is.
Broken(t) ==
  /\ Goto(t, "calling", "settling") /\ calls' = [calls EXCEPT ![t] = MaxCalls[t]]
  /\ \E cost \in Costs[t] \union {0} : Bill(t, cost, Estimate)
  /\ Forget(t) /\ UNCHANGED <<books, outer, inner, gate, fut, astray>>

Recorded(t) ==
  /\ Settled(t) /\ Goto(t, "settling", "working") /\ inner' = [inner EXCEPT ![t] = Nothing]
  /\ UNCHANGED <<books, on, outer, gate, fut, truth, astray>>

\* _release: the outer booking goes, for the calls' own bookings are the record.
ReleaseOuter(t) ==
  /\ Goto(t, "working", "ending") /\ Rollback(t, outer[t])
  /\ UNCHANGED <<used, seen, on, outer, inner, gate, fut, truth>>

\* Fault: to release what was not reserved is an error, and the future is left as it is.
FinishReserved(t) ==
  /\ Settled(t) /\ Goto(t, "ending", "over") /\ outer' = [outer EXCEPT ![t] = Nothing]
  /\ fut' = [fut EXCEPT ![t] = IF outer[t] = Nothing THEN @ ELSE "done"] /\ wake' = TRUE
  /\ UNCHANGED <<books, on, inner, pending, left, any, truth, astray>>

Finish(t) ==
  /\ Settled(t) /\ Goto(t, "ending", "over") /\ outer' = [outer EXCEPT ![t] = Nothing]
  /\ fut' = [fut EXCEPT ![t] = "done"] /\ wake' = TRUE
  /\ UNCHANGED <<books, on, inner, pending, left, any, truth, astray>>

------------------------------------------------------------------------------
\* The caller gives a future up before it runs.
Cancel(t) ==
  /\ fut[t] = "pending" /\ fut' = [fut EXCEPT ![t] = "cancelled"]
  /\ UNCHANGED <<books, at, on, outer, inner, gate, truth, astray>>

(* A task runs longer than a reservation lives: its release finds nothing. *)
(* Bound: once.                                                            *)
Expire(t) ==
  /\ astray = {} /\ outer[t] # Nothing /\ at[t] = "working"
  /\ outer' = [outer EXCEPT ![t] = Nothing] /\ Happens({"expired"})
  /\ UNCHANGED <<books, at, on, inner, gate, fut, truth>>

Reserving(p) == IF p = Loop THEN at[p] \in Gated ELSE at[p] \in {"booking", "calling"}
Of(b, d) == IF b = Nothing THEN FALSE ELSE b.day = d

\* Nothing of yesterday is still under way: a reservation lives fifteen minutes.
YesterdayIsOver ==
  /\ \A p \in Thread : /\ \A i \in DOMAIN todo[p] : todo[p][i].day = Today
                       /\ on[p] = Today
  /\ \A t \in Task : ~Of(outer[t], Yesterday) /\ ~Of(inner[t], Yesterday)

\* UTC midnight: the new day has no record yet, and what was of today is of yesterday.
Midnight ==
  LET older(f) == [d \in Day |-> IF d = Today THEN 0 ELSE f[Today]]
      aged(b) == IF b = Nothing THEN Nothing ELSE [b EXCEPT !.day = Yesterday] IN
  /\ YesterdayIsOver
  /\ used' = older(used)
  /\ real' = older(real) /\ owed' = older(owed) /\ unnamed' = older(unnamed)
  /\ on' = [p \in Thread |-> IF Reserving(p) THEN Yesterday ELSE Today]
  /\ todo' = [p \in Thread |->
                [i \in DOMAIN todo[p] |-> [todo[p][i] EXCEPT !.day = Yesterday]]]
  /\ outer' = [t \in Task |-> aged(outer[t])] /\ inner' = [t \in Task |-> aged(inner[t])]
  /\ UNCHANGED <<seen, at, gate, fut, calls, astray>>

------------------------------------------------------------------------------
Adjust(p) == AdjustRead(p) \/ AdjustWrite(p)

LoopStep ==
  \/ Adjust(Loop) \/ Scanned \/ Clear \/ Wake
  \/ \E t \in Task : AdmitFree(t) \/ Admit(t) \/ Admitted(t)

TaskStep(t) ==
  \/ Adjust(t) \/ RunOne(t) \/ Dropped(t) \/ Ask(t) \/ Proceed(t)
  \/ Answer(t) \/ Failed(t) \/ Broken(t) \/ Recorded(t) \/ ReleaseOuter(t) \/ Finish(t)

GateNext ==
  \/ LoopStep \/ Midnight
  \/ \E t \in Task : TaskStep(t) \/ AdmittedOpen(t) \/ ProceedOpen(t) \/ Cancel(t) \/ Expire(t)

(* Threads run, a model call ends one way or another, the loop's sleep has *)
(* a limit of five seconds, and midnight comes.                            *)
Fairness ==
  WF_gateVars(LoopStep) /\ WF_gateVars(Midnight) /\ \A t \in Task : WF_gateVars(TaskStep(t))

GateSpec == GateInit /\ [][GateNext]_gateVars /\ Fairness

------------------------------------------------------------------------------
Idle(p) == Settled(p) /\ at[p] \in {"waiting", "over", "scan", "full", "sleep"}

(* When no task is at work and nothing went wrong, a day's record holds    *)
(* what its model calls cost, or were estimated at where that is unknown,  *)
(* and nothing of the gate's own bookings: each was taken back, once.      *)
RecordIsExact ==
  (astray = {} /\ \A p \in Thread : Idle(p)) => \A d \in Day : used[d] = owed[d]

\* A call has cost more than it booked, and the rest is not on the record yet.
Correcting ==
  \E t \in Task : at[t] = "settling" /\ ~Settled(t) /\ Head(todo[t]).delta > 0

(* While bookings and releases come and go in any order, a day's record is *)
(* never below what the calls booked on it have cost, but for what no      *)
(* answer named: the cost of a call that ended in an error (llm_client.py: *)
(* 3457-3461), and what a cost without usage has above its rough estimate  *)
(* (rate_ledger.py:377-389).  That is once the calls' corrections are      *)
(* written, and unless two threads' adjustments overlapped, a booking was  *)
(* released after midnight or could not be made.                           *)
NeverUndercounts ==
  astray \subseteq {"expired"} /\ ~Correcting =>
    \A d \in Day : used[d] + unnamed[d] >= real[d]

(* As release_reservation has it, with no exception for midnight: "tracked *)
(* usage >= real usage, never <".                                          *)
NeverUndercountsAtMidnight ==
  astray \subseteq {"expired", "midnight"} /\ ~Correcting =>
    \A d \in Day : used[d] + unnamed[d] >= real[d]

(* Every future is resolved: no task is held for ever by bookings that     *)
(* were lost, by a wake-up that came too early or by a used-up budget.     *)
EveryTaskEnds == <>(\A t \in Task : fut[t] \in {"done", "cancelled"})
==============================================================================

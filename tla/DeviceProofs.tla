---------------------------- MODULE DeviceProofs -----------------------------
(***************************************************************************)
(* What holds of a device, whatever it is asked to do: of m2c/runner.py    *)
(* for every number of calls, whichever of them change something, and of   *)
(* m2c/checkpoints.py for every set of files and contents and every number *)
(* of steps.  The two components share no state; each has an invariant of  *)
(* its own.                                                                *)
(***************************************************************************)
EXTENDS DeviceRunner, Checkpoints, FiniteSetTheorems, WellFoundedInduction, TLAPS

------------------------------------------------------------------------------
(* DeviceRunner.                                                           *)

(* The queue holds the changes that were taken, each once; a change that   *)
(* has had its turn has none before it that is not over.                   *)
QueueFits ==
  /\ \A c \in Serial : c \in ToSet(queue) => at[c] # "new"
  /\ \A c \in Serial : ~Idle(c) \/ c \in thread => c \in ToSet(queue)
  /\ \A i, j \in DOMAIN queue :
       i < j /\ at[queue[j]] # "queued" => at[queue[i]] = "done"

(* When the run is over every call under way is cancelled, so that no      *)
(* change starts beside one that was left in its thread.                   *)
EndCancels == ended => Busy \subseteq cancel

(* A tool at work has a task that waits for it or was given up; only one   *)
(* of them is a change, and changes are not taken for reads.               *)
ThreadsFit ==
  /\ \A c \in thread : at[c] \in {"running", "done"}
  /\ \A c, d \in thread \cap Serial : c = d
  /\ \A c \in Serial : at[c] # "reading"

(* A call on its way to its tool was not decided before, and one that has  *)
(* its record did not run, unless a lookup failed; what has run was        *)
(* decided.                                                                *)
DecidedOnce ==
  \A c \in Call :
    /\ at[c] \in {"queued", "settling", "waiting", "prompt"} => c \in unread \/ c \notin decided
    /\ at[c] \in {"approve", "reading"} => c \in decided /\ (c \in unread \/ runs[c] = 0)
    /\ runs[c] > 0 => c \in decided

(* A change that waits for its answer or its approval, and that the server *)
(* has closed, is cancelled.                                               *)
ClosedIsKnown ==
  \A c \in Serial : at[c] \in {"waiting", "prompt", "approve"} /\ c \in closed => c \in cancel

(* The inductive invariant.                                                *)
IInv ==
  /\ TypeOK /\ QueueFits /\ EndCancels /\ ThreadsFit
  /\ DecidedOnce /\ RunsOnce /\ ClosedIsKnown

------------------------------------------------------------------------------
(* The start: nothing was proposed.                                        *)
LEMMA InitIInv == Init => IInv
<1> SUFFICES ASSUME Init PROVE IInv
  OBVIOUS
<1>1. queue \in Seq(Serial) /\ IsInjective(queue)
  BY DEF Init, IsInjective
<1>2. TypeOK
  <2>1. /\ at \in [Call -> Places] /\ runs \in [Call -> 0 .. 2]
    BY DEF Init, Places
  <2> QED
    BY <1>1, <2>1, RunnerAssumption DEF Init, TypeOK
<1>3. QueueFits /\ EndCancels /\ ThreadsFit
  BY RunnerAssumption DEF Init, QueueFits, ToSet, EndCancels, Idle, ThreadsFit
<1>4. DecidedOnce /\ RunsOnce /\ ClosedIsKnown
  BY DEF Init, DecidedOnce, RunsOnce, ClosedIsKnown
<1> QED
  BY <1>2, <1>3, <1>4 DEF IInv

------------------------------------------------------------------------------
(* A queue to which a call is appended that it did not hold.               *)
LEMMA Appended ==
  ASSUME NEW q \in Seq(Serial), IsInjective(q), NEW c \in Serial, c \notin ToSet(q)
  PROVE  /\ Append(q, c) \in Seq(Serial) /\ IsInjective(Append(q, c))
         /\ ToSet(Append(q, c)) = ToSet(q) \union {c}
         /\ Len(Append(q, c)) = Len(q) + 1
         /\ Append(q, c)[Len(q) + 1] = c
         /\ \A i \in DOMAIN q : Append(q, c)[i] = q[i]
         /\ DOMAIN Append(q, c) = 1 .. Len(q) + 1 /\ DOMAIN q = 1 .. Len(q) /\ Len(q) \in Nat
<1> DEFINE r == Append(q, c)
<1>1. /\ r \in Seq(Serial) /\ Len(r) = Len(q) + 1 /\ Len(q) \in Nat
      /\ DOMAIN r = 1 .. Len(q) + 1 /\ DOMAIN q = 1 .. Len(q)
  OBVIOUS
<1>2. r[Len(q) + 1] = c /\ \A i \in DOMAIN q : r[i] = q[i]
  OBVIOUS
<1>3. \A i \in DOMAIN r : i \in DOMAIN q \/ i = Len(q) + 1
  BY <1>1
<1>4. IsInjective(r)
  BY DEF IsInjective, ToSet
<1>5. ToSet(r) = ToSet(q) \union {c}
  BY <1>3 DEF ToSet
<1> QED
  BY <1>1, <1>2, <1>4, <1>5

(* A call that is proposed is new, so that the queue does not hold it.     *)
LEMMA ProposedKeeps ==
  ASSUME IInv, NEW c \in Call, Proposed(c)
  PROVE  IInv'
<1>0. c \in Serial => c \notin ToSet(queue)
  BY DEF IInv, QueueFits, Proposed, At
<1>q. /\ UNCHANGED <<cancel, ended, closed, asking, thread, decided, runs>>
      /\ at[c] = "new" /\ ~ended
      /\ \/ c \in Serial /\ queue' = Append(queue, c) /\ Goto(c, "queued")
         \/ c \notin Serial /\ queue' = queue /\ Goto(c, "queued")
         \/ queue' = queue /\ Goto(c, "done")
  BY DEF Proposed, At, past
<1>1. TypeOK'
  <2>1. at' \in [Call -> Places]
    BY <1>q DEF IInv, TypeOK, Places, Goto
  <2>2. queue' \in Seq(Serial) /\ IsInjective(queue')
    <3>0. queue \in Seq(Serial) /\ IsInjective(queue)
      BY DEF IInv, TypeOK
    <3>1. CASE queue' = queue
      BY <3>0, <3>1
    <3>2. CASE c \in Serial /\ queue' = Append(queue, c)
      BY <3>0, <3>2, <1>0, Appended
    <3> QED
      BY <3>1, <3>2, <1>q
  <2>3. \A d \in Call : (at'[d] = "prompt" <=> at[d] = "prompt")
          /\ (at[d] = "running" => at'[d] = "running")
    BY <1>q DEF IInv, TypeOK, Goto
  <2>4. unread' \subseteq Call
    BY DEF IInv, TypeOK, Proposed
  <2> QED
    BY <1>q, <2>1, <2>2, <2>3, <2>4 DEF IInv, TypeOK
<1>2. QueueFits'
  <2>1. CASE queue' = queue
    <3>1. /\ \A d \in Serial : d \in ToSet(queue') => at'[d] # "new"
          /\ \A d \in Serial : ~Idle(d)' \/ d \in thread' => d \in ToSet(queue')
      BY <1>q, <2>1, RunnerAssumption DEF IInv, TypeOK, QueueFits, Idle, Goto
    <3>2. \A i \in DOMAIN queue : queue[i] # c /\ queue[i] \in Call
      BY <1>0, RunnerAssumption DEF IInv, TypeOK, ToSet
    <3>3. \A i \in DOMAIN queue : at'[queue[i]] = at[queue[i]]
      BY <1>q, <3>2 DEF IInv, TypeOK, Goto
    <3> QED
      BY <2>1, <3>1, <3>3 DEF IInv, QueueFits
  <2>2. CASE c \in Serial /\ queue' = Append(queue, c) /\ Goto(c, "queued")
    <3>0. queue \in Seq(Serial) /\ IsInjective(queue) /\ at \in [Call -> Places]
      BY DEF IInv, TypeOK
    <3>1. /\ ToSet(queue') = ToSet(queue) \union {c}
          /\ DOMAIN queue' = 1 .. Len(queue) + 1 /\ DOMAIN queue = 1 .. Len(queue)
          /\ Len(queue) \in Nat /\ queue'[Len(queue) + 1] = c
          /\ \A i \in DOMAIN queue : queue'[i] = queue[i]
      BY <3>0, <2>2, <1>0, Appended
    <3>2. at' = [at EXCEPT ![c] = "queued"]
      BY <2>2 DEF Goto
    <3>3. /\ \A d \in Serial : d \in ToSet(queue') => at'[d] # "new"
          /\ \A d \in Serial : ~Idle(d)' \/ d \in thread' => d \in ToSet(queue')
      BY <3>0, <3>1, <3>2, <1>q DEF IInv, QueueFits, Idle
    <3>4. \A i \in DOMAIN queue : queue[i] # c /\ queue[i] \in Call
      BY <3>0, <1>0, RunnerAssumption DEF ToSet
    <3>5. ASSUME NEW i \in DOMAIN queue', NEW j \in DOMAIN queue', i < j, at'[queue'[j]] # "queued"
          PROVE  at'[queue'[i]] = "done"
      <4>1. j # Len(queue) + 1
        BY <3>0, <3>1, <3>2, <3>5
      <4>2. i \in DOMAIN queue /\ j \in DOMAIN queue
        BY <4>1, <3>1, <3>5
      <4>3. at'[queue'[i]] = at[queue[i]] /\ at'[queue'[j]] = at[queue[j]]
        BY <4>2, <3>0, <3>1, <3>2, <3>4
      <4> QED
        BY <4>2, <4>3, <3>5 DEF IInv, QueueFits
    <3> QED
      BY <3>3, <3>5 DEF QueueFits
  <2> QED
    BY <1>q, <2>1, <2>2
<1>3. EndCancels'
  BY DEF EndCancels, Proposed
<1>4. ThreadsFit'
  BY RunnerAssumption DEF IInv, ThreadsFit, TypeOK, Proposed, At, Goto
<1>5. DecidedOnce'
  BY DEF IInv, DecidedOnce, TypeOK, Proposed, Goto, past
<1>6. RunsOnce'
  BY DEF IInv, RunsOnce, Proposed
<1>7. ClosedIsKnown'
  BY DEF IInv, ClosedIsKnown, TypeOK, Proposed, Goto, past
<1> QED
  BY <1>1, <1>2, <1>3, <1>4, <1>5, <1>6, <1>7 DEF IInv

LEMMA ClosedByServerKeeps ==
  ASSUME IInv, NEW c \in Call, ClosedByServer(c)
  PROVE  IInv'
<1>1. TypeOK'
  BY DEF IInv, TypeOK, ClosedByServer, memory, past
<1>2. QueueFits'
  BY DEF IInv, QueueFits, Idle, ClosedByServer
<1>3. EndCancels'
  BY DEF IInv, EndCancels, Busy, Idle, ClosedByServer
<1>4. ThreadsFit'
  BY DEF IInv, ThreadsFit, ClosedByServer
<1>5. DecidedOnce'
  BY DEF IInv, DecidedOnce, ClosedByServer, memory, past
<1>6. RunsOnce'
  BY DEF IInv, RunsOnce, ClosedByServer, memory, past
<1>7. ClosedIsKnown'
  BY DEF IInv, ClosedIsKnown, Idle, ClosedByServer
<1> QED
  BY <1>1, <1>2, <1>3, <1>4, <1>5, <1>6, <1>7 DEF IInv

LEMMA TurnKeeps ==
  ASSUME IInv, NEW c \in Call, Turn(c)
  PROVE  IInv'
<1>1. TypeOK'
  BY DEF IInv, TypeOK, Places, Turn, At, Goto, memory, past
<1>2. QueueFits'
  <2>0. /\ queue \in Seq(Serial) /\ IsInjective(queue) /\ at \in [Call -> Places]
        /\ queue' = queue /\ thread' = thread /\ at' = [at EXCEPT ![c] = "settling"]
             /\ at[c] = "queued"
    BY DEF IInv, TypeOK, Turn, At, Goto, memory
  <2>1. /\ \A d \in Serial : d \in ToSet(queue') => at'[d] # "new"
        /\ \A d \in Serial : ~Idle(d)' \/ d \in thread' => d \in ToSet(queue')
    BY <2>0 DEF IInv, QueueFits, Idle
  <2>2. ASSUME NEW i \in DOMAIN queue, NEW j \in DOMAIN queue, i < j, at'[queue[j]] # "queued"
        PROVE  at'[queue[i]] = "done"
    <3>0. queue[i] \in Serial /\ queue[j] \in Serial /\ queue[i] # queue[j]
      BY <2>0, <2>2 DEF IsInjective
    <3>1. CASE queue[j] # c
      BY <2>0, <2>2, <3>1 DEF IInv, QueueFits
    <3>2. CASE queue[j] = c
      <4>1. Before(c) = SubSeq(queue, 1, j - 1)
        BY <2>0, <3>2 DEF Before, IsInjective
      <4>2. i \in 1 .. j - 1 /\ j - 1 \in DOMAIN queue
        BY <2>0, <2>2
      <4>3. Before(c) # <<>> /\ Last(Before(c)) = queue[j - 1]
        BY <4>1, <4>2, <2>0 DEF Last
      <4>4. queue[j - 1] \in Serial /\ Idle(queue[j - 1])
        BY <4>2, <4>3, <2>0, <3>0, <3>2 DEF Turn
      <4>5. at[queue[j - 1]] = "done"
        BY <4>2, <4>4 DEF IInv, QueueFits, ToSet, Idle
      <4>6. at[queue[i]] = "done"
        <5>1. CASE i = j - 1
          BY <4>5, <5>1
        <5>2. CASE i < j - 1
          BY <4>2, <4>5, <5>2 DEF IInv, QueueFits
        <5> QED
          BY <4>2, <5>1, <5>2, <2>0
      <4> QED
        BY <4>6, <2>0, <3>0, <3>2, RunnerAssumption
    <3> QED
      BY <3>1, <3>2
  <2> QED
    BY <2>0, <2>1, <2>2 DEF QueueFits
<1>3. EndCancels'
  BY DEF IInv, EndCancels, Busy, Idle, Turn, At, Goto, memory
<1>4. ThreadsFit'
  BY DEF IInv, ThreadsFit, Turn, At, Goto
<1>5. DecidedOnce'
  BY DEF IInv, DecidedOnce, Turn, At, Goto, past
<1>6. RunsOnce'
  BY DEF IInv, RunsOnce, Turn, memory, past
<1>7. ClosedIsKnown'
  BY DEF IInv, ClosedIsKnown, Turn, Goto, memory, past
<1> QED
  BY <1>1, <1>2, <1>3, <1>4, <1>5, <1>6, <1>7 DEF IInv

LEMMA DecideKeeps ==
  ASSUME IInv, NEW c \in Call, Decide(c)
  PROVE  IInv'
<1>1. TypeOK'
  BY DEF IInv, TypeOK, Places, Decide, Allowed, Denied, Record, At, Goto, memory, past
<1>2. QueueFits'
  BY RunnerAssumption DEF IInv, QueueFits, TypeOK, Idle, Decide, Allowed, Denied, At, Goto, memory
<1>3. EndCancels'
  BY DEF IInv, EndCancels, TypeOK, Busy, Idle, Decide, Allowed, Denied, At, Goto, memory
<1>4. ThreadsFit'
  BY RunnerAssumption DEF IInv, ThreadsFit, TypeOK, Decide, Allowed, Denied, At, Goto
<1>5. DecidedOnce'
  <2>0. at \in [Call -> Places] /\ runs \in [Call -> 0 .. 2]
    BY DEF IInv, TypeOK
  <2>1. /\ at[c] \in {"settling", "prompt"} /\ UNCHANGED <<runs, unread>>
        /\ \/ at' = [at EXCEPT ![c] = "approve"] /\ decided' = decided \union {c}
           \/ at' = [at EXCEPT ![c] = "done"] /\ decided' = decided \union {c}
           \/ /\ at' = [at EXCEPT ![c] = "done"] /\ UNCHANGED decided
           \/ /\ at' = [at EXCEPT ![c] = "waiting"] /\ at[c] = "settling" /\ UNCHANGED decided
    BY DEF Decide, Allowed, Denied, Record, At, Goto, past
  <2>2. \A d \in Call \ {c} : at'[d] = at[d] /\ (d \in decided' <=> d \in decided)
    BY <2>0, <2>1
  <2>3. /\ at'[c] \in {"approve", "done"} \/ (at'[c] = "waiting" /\ decided' = decided)
        /\ at'[c] = "approve" => c \in decided'
        /\ c \in decided => c \in decided'
    BY <2>0, <2>1
  <2>4. runs[c] > 0 => c \in decided
    BY DEF IInv, DecidedOnce
  <2>5. at[c] \in {"settling", "prompt"} => c \in unread \/ c \notin decided
    BY DEF IInv, DecidedOnce
  <2>6. runs[c] \in Nat
    BY <2>0
  <2> QED
    BY <2>1, <2>2, <2>3, <2>6 DEF IInv, DecidedOnce
<1>6. RunsOnce'
  BY DEF IInv, RunsOnce, Decide, memory, past
<1>7. ClosedIsKnown'
  BY DEF IInv, ClosedIsKnown, TypeOK, Decide, Dropped, Allowed, Denied, Record, Goto, memory
<1> QED
  BY <1>1, <1>2, <1>3, <1>4, <1>5, <1>6, <1>7 DEF IInv

LEMMA ShowKeeps ==
  ASSUME IInv, NEW c \in Call, Show(c)
  PROVE  IInv'
<1>1. TypeOK'
  BY RunnerAssumption DEF IInv, TypeOK, Places, Show, At, Goto, memory, past
<1>2. QueueFits'
  BY DEF IInv, QueueFits, Idle, Show, At, Goto, memory
<1>3. EndCancels'
  BY DEF IInv, EndCancels, Busy, Idle, Show, At, memory
<1>4. ThreadsFit'
  BY DEF IInv, ThreadsFit, Show, At, Goto
<1>5. DecidedOnce'
  BY DEF IInv, DecidedOnce, Show, At, Goto, past
<1>6. RunsOnce'
  BY DEF IInv, RunsOnce, Show, memory, past
<1>7. ClosedIsKnown'
  BY DEF IInv, ClosedIsKnown, Show, At, Goto, memory, past
<1> QED
  BY <1>1, <1>2, <1>3, <1>4, <1>5, <1>6, <1>7 DEF IInv

LEMMA AnswerKeeps ==
  ASSUME IInv, NEW c \in Call, Answer(c)
  PROVE  IInv'
<1>1. TypeOK'
  BY RunnerAssumption DEF IInv, TypeOK, Places, Answer, Allowed, Denied, Record, At, Goto, memory,
     past
<1>2. QueueFits'
  BY RunnerAssumption DEF IInv, QueueFits, TypeOK, Idle, Answer, Allowed, Denied, At, Goto, memory
<1>3. EndCancels'
  BY DEF IInv, EndCancels, TypeOK, Busy, Idle, Answer, Allowed, Denied, At, Goto, memory
<1>4. ThreadsFit'
  BY RunnerAssumption DEF IInv, ThreadsFit, TypeOK, Answer, Allowed, Denied, At, Goto
<1>5. DecidedOnce'
  <2>0. at \in [Call -> Places] /\ runs \in [Call -> 0 .. 2]
    BY DEF IInv, TypeOK
  <2>1. /\ at[c] \in {"settling", "prompt"} /\ UNCHANGED <<runs, unread>>
        /\ \/ at' = [at EXCEPT ![c] = "approve"] /\ decided' = decided \union {c}
           \/ at' = [at EXCEPT ![c] = "done"] /\ decided' = decided \union {c}
           \/ /\ at' = [at EXCEPT ![c] = "done"] /\ UNCHANGED decided
           \/ /\ at' = [at EXCEPT ![c] = "waiting"] /\ at[c] = "settling" /\ UNCHANGED decided
    BY DEF Answer, Allowed, Denied, Record, At, Goto, past
  <2>2. \A d \in Call \ {c} : at'[d] = at[d] /\ (d \in decided' <=> d \in decided)
    BY <2>0, <2>1
  <2>3. /\ at'[c] \in {"approve", "done"} \/ (at'[c] = "waiting" /\ decided' = decided)
        /\ at'[c] = "approve" => c \in decided'
        /\ c \in decided => c \in decided'
    BY <2>0, <2>1
  <2>4. runs[c] > 0 => c \in decided
    BY DEF IInv, DecidedOnce
  <2>5. at[c] \in {"settling", "prompt"} => c \in unread \/ c \notin decided
    BY DEF IInv, DecidedOnce
  <2>6. runs[c] \in Nat
    BY <2>0
  <2> QED
    BY <2>1, <2>2, <2>3, <2>6 DEF IInv, DecidedOnce
<1>6. RunsOnce'
  BY DEF IInv, RunsOnce, Answer, memory, past
<1>7. ClosedIsKnown'
  BY DEF IInv, ClosedIsKnown, TypeOK, Answer, Allowed, Denied, Record, At, Goto, memory
<1> QED
  BY <1>1, <1>2, <1>3, <1>4, <1>5, <1>6, <1>7 DEF IInv

LEMMA DismissKeeps ==
  ASSUME IInv, NEW c \in Call, Dismiss(c)
  PROVE  IInv'
<1>1. TypeOK'
  BY RunnerAssumption DEF IInv, TypeOK, Places, Dismiss, Goto, memory, past
<1>2. QueueFits'
  BY DEF IInv, QueueFits, Idle, Dismiss, Goto, memory
<1>3. EndCancels'
  BY DEF IInv, EndCancels, Busy, Idle, Dismiss, Goto, memory
<1>4. ThreadsFit'
  BY DEF IInv, ThreadsFit, Dismiss, Goto
<1>5. DecidedOnce'
  BY DEF IInv, DecidedOnce, Dismiss, Goto, past
<1>6. RunsOnce'
  BY DEF IInv, RunsOnce, Dismiss, memory, past
<1>7. ClosedIsKnown'
  BY DEF IInv, ClosedIsKnown, Dismiss, Goto, memory, past
<1> QED
  BY <1>1, <1>2, <1>3, <1>4, <1>5, <1>6, <1>7 DEF IInv

LEMMA SendAllowKeeps ==
  ASSUME IInv, NEW c \in Call, SendAllow(c)
  PROVE  IInv'
<1>1. TypeOK'
  BY DEF IInv, TypeOK, Places, RunsOnce, SendAllow, Start, At, Goto, memory, past
<1>2. QueueFits'
  BY RunnerAssumption DEF IInv, QueueFits, TypeOK, Idle, SendAllow, Start, At, Goto, memory
<1>3. EndCancels'
  BY DEF IInv, EndCancels, TypeOK, Busy, Idle, SendAllow, At, Goto, memory
<1>4. ThreadsFit'
  BY RunnerAssumption DEF IInv, ThreadsFit, TypeOK, QueueFits, ToSet, EndCancels, Busy, Idle,
     SendAllow, Start, At, Goto, memory, past
<1>5. DecidedOnce'
  BY DEF IInv, DecidedOnce, TypeOK, SendAllow, Start, At, Goto, past
<1>6. RunsOnce'
  BY DEF IInv, RunsOnce, DecidedOnce, TypeOK, SendAllow, Start, At
<1>7. ClosedIsKnown'
  BY DEF IInv, ClosedIsKnown, TypeOK, SendAllow, Start, Goto, memory, past
<1> QED
  BY <1>1, <1>2, <1>3, <1>4, <1>5, <1>6, <1>7 DEF IInv

LEMMA ReadKeeps ==
  ASSUME IInv, NEW c \in Call, Read(c)
  PROVE  IInv'
<1>1. TypeOK'
  BY DEF IInv, TypeOK, Places, RunsOnce, Read, Start, At, Goto, memory, past
<1>2. QueueFits'
  BY DEF IInv, QueueFits, Idle, Read, Start, At, Goto, memory
<1>3. EndCancels'
  BY DEF IInv, EndCancels, Busy, Idle, Read, Start, At, Goto, memory
<1>4. ThreadsFit'
  BY DEF IInv, ThreadsFit, TypeOK, Read, Start, At, Goto
<1>5. DecidedOnce'
  BY DEF IInv, DecidedOnce, TypeOK, Read, Start, At, Goto, past
<1>6. RunsOnce'
  BY DEF IInv, RunsOnce, DecidedOnce, Read, Start, At
<1>7. ClosedIsKnown'
  BY DEF IInv, ClosedIsKnown, Read, Start, Goto, memory, past
<1> QED
  BY <1>1, <1>2, <1>3, <1>4, <1>5, <1>6, <1>7 DEF IInv

LEMMA ToolEndsKeeps ==
  ASSUME IInv, NEW c \in Call, ToolEnds(c)
  PROVE  IInv'
<1>1. TypeOK'
  BY DEF IInv, TypeOK, Places, ToolEnds, At, Goto, memory, past
<1>2. QueueFits'
  BY RunnerAssumption DEF IInv, QueueFits, TypeOK, Idle, ToolEnds, At, Goto, memory
<1>3. EndCancels'
  BY DEF IInv, EndCancels, TypeOK, Busy, Idle, ToolEnds, Goto, memory
<1>4. ThreadsFit'
  BY RunnerAssumption DEF IInv, ThreadsFit, TypeOK, ToolEnds, Goto
<1>5. DecidedOnce'
  BY DEF IInv, DecidedOnce, TypeOK, ToolEnds, Goto, past
<1>6. RunsOnce'
  BY DEF IInv, RunsOnce, ToolEnds, memory, past
<1>7. ClosedIsKnown'
  BY DEF IInv, ClosedIsKnown, TypeOK, ToolEnds, Goto, memory, past
<1> QED
  BY <1>1, <1>2, <1>3, <1>4, <1>5, <1>6, <1>7 DEF IInv

LEMMA InterruptKeeps ==
  ASSUME IInv, Interrupt
  PROVE  IInv'
<1>1. TypeOK'
  BY DEF IInv, TypeOK, Busy, Interrupt, past
<1>2. QueueFits'
  BY DEF IInv, QueueFits, Idle, Interrupt
<1>3. EndCancels'
  BY DEF EndCancels, Busy, Idle, Interrupt
<1>4. ThreadsFit'
  BY DEF IInv, ThreadsFit, Interrupt
<1>5. DecidedOnce'
  BY DEF IInv, DecidedOnce, Interrupt, past
<1>6. RunsOnce'
  BY DEF IInv, RunsOnce, Interrupt, memory, past
<1>7. ClosedIsKnown'
  BY DEF IInv, ClosedIsKnown, Interrupt, past
<1> QED
  BY <1>1, <1>2, <1>3, <1>4, <1>5, <1>6, <1>7 DEF IInv

LEMMA EndKeeps ==
  ASSUME IInv, End
  PROVE  IInv'
<1>1. TypeOK'
  BY DEF IInv, TypeOK, Busy, End, past
<1>2. QueueFits'
  BY DEF IInv, QueueFits, Idle, End
<1>3. EndCancels'
  BY DEF EndCancels, Busy, Idle, End
<1>4. ThreadsFit'
  BY DEF IInv, ThreadsFit, End
<1>5. DecidedOnce'
  BY DEF IInv, DecidedOnce, End, past
<1>6. RunsOnce'
  BY DEF IInv, RunsOnce, End, memory, past
<1>7. ClosedIsKnown'
  BY DEF IInv, ClosedIsKnown, End, past
<1> QED
  BY <1>1, <1>2, <1>3, <1>4, <1>5, <1>6, <1>7 DEF IInv

LEMMA AbandonKeeps ==
  ASSUME IInv, Abandon
  PROVE  IInv'
<1>1. TypeOK'
  BY RunnerAssumption DEF IInv, TypeOK, Places, EndCancels, Busy, Idle, Abandon, memory, past
<1>2. QueueFits'
  BY RunnerAssumption DEF IInv, QueueFits, TypeOK, Idle, ToSet, Abandon, memory
<1>3. EndCancels'
  BY DEF EndCancels, Busy, Idle, Abandon
<1>4. ThreadsFit'
  BY RunnerAssumption DEF IInv, ThreadsFit, TypeOK, Abandon
<1>5. DecidedOnce'
  BY DEF IInv, DecidedOnce, Abandon, past
<1>6. RunsOnce'
  BY DEF IInv, RunsOnce, Abandon, memory, past
<1>7. ClosedIsKnown'
  BY RunnerAssumption DEF ClosedIsKnown, Idle, Abandon
<1> QED
  BY <1>1, <1>2, <1>3, <1>4, <1>5, <1>6, <1>7 DEF IInv

LEMMA RestartKeeps ==
  ASSUME IInv, Restart
  PROVE  IInv'
<1>1. TypeOK'
  <2>1. queue' \in Seq(Serial) /\ IsInjective(queue')
    BY DEF Restart, IsInjective
  <2>2. at' \in [Call -> Places]
    BY DEF Restart, Places
  <2> QED
    BY <2>1, <2>2, RunnerAssumption DEF IInv, TypeOK, Restart, memory, past
<1>2. QueueFits'
  BY RunnerAssumption DEF QueueFits, Idle, ToSet, Restart
<1>3. EndCancels'
  BY DEF EndCancels, Restart
<1>4. ThreadsFit'
  BY RunnerAssumption DEF ThreadsFit, Restart
<1>5. DecidedOnce'
  BY DEF IInv, DecidedOnce, Restart, memory, past
<1>6. RunsOnce'
  BY DEF IInv, RunsOnce, Restart, memory, past
<1>7. ClosedIsKnown'
  BY RunnerAssumption DEF ClosedIsKnown, Restart
<1> QED
  BY <1>1, <1>2, <1>3, <1>4, <1>5, <1>6, <1>7 DEF IInv

LEMMA StutterKeeps ==
  ASSUME IInv, UNCHANGED vars
  PROVE  IInv'
<1>1. TypeOK' /\ QueueFits' /\ EndCancels' /\ ThreadsFit'
  BY DEF IInv, vars, TypeOK, QueueFits, EndCancels, Busy, ThreadsFit, Idle
<1>2. DecidedOnce' /\ RunsOnce' /\ ClosedIsKnown'
  BY DEF IInv, vars, DecidedOnce, RunsOnce, ClosedIsKnown
<1> QED
  BY <1>1, <1>2 DEF IInv

LEMMA StepKeeps == IInv /\ [Next]_vars => IInv'
<1> SUFFICES ASSUME IInv, [Next]_vars PROVE IInv'
  OBVIOUS
<1>1. ASSUME NEW c \in Call,
             Step(c) \/ Proposed(c) \/ ClosedByServer(c) \/ Show(c) \/ Answer(c)
      PROVE  IInv'
  BY <1>1, TurnKeeps, DecideKeeps, DismissKeeps, SendAllowKeeps, ReadKeeps, ToolEndsKeeps,
     ProposedKeeps, ClosedByServerKeeps, ShowKeeps, AnswerKeeps DEF Step
<1>2. CASE Interrupt \/ End \/ Abandon \/ Restart
  BY <1>2, InterruptKeeps, EndKeeps, AbandonKeeps, RestartKeeps
<1>3. CASE UNCHANGED vars
  BY <1>3, StutterKeeps
<1> QED
  BY <1>1, <1>2, <1>3 DEF Next

(* The inductive invariant holds in every state, whatever the server, the *)
(* person, the store and the process do.                                   *)
THEOREM Safety == Spec => []IInv
<1>1. Init => IInv
  BY InitIInv
<1>2. IInv /\ [Next]_vars => IInv'
  BY StepKeeps
<1> QED
  BY <1>1, <1>2, PTL DEF Spec

------------------------------------------------------------------------------
(* The runner's tables have their types, and a tool at work belongs to a   *)
(* task that waits for it, or that was left when the run was over.         *)
THEOREM TypeCorrect == Spec => []TypeOK
<1>1. IInv => TypeOK
  BY DEF IInv
<1> QED
  BY <1>1, Safety, PTL

(* However often a call is proposed, and to however many processes, its    *)
(* tool is started at most once, unless a new process's lookup of the      *)
(* decision failed (runner.py:470, :863).                                  *)
THEOREM CallsRunOnce == Spec => []RunsOnce
<1>1. IInv => RunsOnce
  BY DEF IInv
<1> QED
  BY <1>1, Safety, PTL

(* What is before a call in the queue.                                     *)
LEMMA BeforeIs ==
  ASSUME TypeOK, NEW c \in ToSet(queue)
  PROVE  \E k \in DOMAIN queue :
           /\ queue[k] = c
           /\ \A d \in ToSet(Before(c)) : \E i \in DOMAIN queue : i < k /\ queue[i] = d
           /\ \A i \in DOMAIN queue : i < k => queue[i] \in ToSet(Before(c))
<1>0. queue \in Seq(Serial) /\ IsInjective(queue)
  BY DEF TypeOK
<1>1. PICK k \in DOMAIN queue : queue[k] = c
  BY DEF ToSet
<1>2. Before(c) = SubSeq(queue, 1, k - 1)
  BY <1>0, <1>1 DEF Before, IsInjective
<1>3. /\ DOMAIN Before(c) = 1 .. k - 1 /\ k - 1 <= Len(queue)
      /\ DOMAIN queue = 1 .. Len(queue) /\ Len(queue) \in Nat
      /\ \A i \in 1 .. k - 1 : Before(c)[i] = queue[i]
  BY <1>0, <1>1, <1>2
<1>4. \A d \in ToSet(Before(c)) : \E i \in DOMAIN queue : i < k /\ queue[i] = d
  BY <1>3 DEF ToSet
<1>5. \A i \in DOMAIN queue : i < k => queue[i] \in ToSet(Before(c))
  BY <1>3 DEF ToSet
<1> QED
  BY <1>1, <1>4, <1>5

(* The invariant leaves a change alone: the queue's order, and the threads *)
(* that an end left behind.                                                *)
LEMMA Alone == IInv => AloneInOrder
<1> SUFFICES ASSUME IInv, NEW c \in thread \cap Serial
             PROVE  /\ \A d \in ToSet(Before(c)) : Idle(d) /\ d \notin thread
                    /\ At(c, "running") =>
                         \A d \in ToSet(queue) \ (ToSet(Before(c)) \union {c}) : At(d, "queued")
  BY DEF AloneInOrder
<1>1. TypeOK /\ queue \in Seq(Serial) /\ IsInjective(queue)
  BY DEF IInv, TypeOK
<1>2. c \in ToSet(queue)
  BY DEF IInv, QueueFits
<1>3. PICK k \in DOMAIN queue :
        /\ queue[k] = c
        /\ \A d \in ToSet(Before(c)) : \E i \in DOMAIN queue : i < k /\ queue[i] = d
        /\ \A i \in DOMAIN queue : i < k => queue[i] \in ToSet(Before(c))
  BY <1>1, <1>2, BeforeIs
<1>4. at[c] # "queued"
  BY DEF IInv, ThreadsFit
<1>5. ASSUME NEW d \in ToSet(Before(c)) PROVE Idle(d) /\ d \notin thread
  <2>1. PICK i \in DOMAIN queue : i < k /\ queue[i] = d
    BY <1>3
  <2>2. d # c /\ d \in Serial
    BY <1>1, <1>3 DEF IsInjective
  <2> QED
    BY <1>3, <2>2 DEF IInv, QueueFits, ThreadsFit, Idle
<1>6. ASSUME At(c, "running"), NEW d \in ToSet(queue) \ (ToSet(Before(c)) \union {c})
      PROVE  At(d, "queued")
  <2>1. PICK j \in DOMAIN queue : queue[j] = d
    BY DEF ToSet
  <2>2. k < j
    BY <1>1, <1>3, <1>6, <2>1
  <2> QED
    BY <1>3, <1>6, <2>1, <2>2 DEF IInv, QueueFits, At
<1> QED
  BY <1>5, <1>6

(* A change runs alone and in its turn, whatever is cancelled, closed or   *)
(* abandoned around it (runner.py:489, :567).                              *)
THEOREM ChangesRunAlone == Spec => []AloneInOrder
  BY Alone, Safety, PTL

(* No change starts that this runner was told the server closed; what only *)
(* an earlier process was told is not spoken of (runner.py:582, :645).     *)
THEOREM ClosedChangesStay == Spec => ClosedStaysClosed
<1>1. IInv /\ [Next]_vars => [\A c \in Serial \cap (thread' \ thread) : c \notin closed]_vars
  <2> SUFFICES ASSUME IInv, Next, NEW c \in Serial \cap (thread' \ thread)
               PROVE  c \notin closed
    OBVIOUS
  <2>1. PICK d \in Call : SendAllow(d) \/ Read(d)
    BY DEF Next, Step, Turn, Decide, Dismiss, ToolEnds, Proposed, ClosedByServer, Show, Answer,
           Interrupt, End, Abandon, Restart, past
  <2>2. d = c /\ at[c] \in {"approve", "reading"}
    BY <2>1, RunnerAssumption DEF SendAllow, Read, Start, At, IInv, TypeOK
  <2>3. at[c] = "approve" /\ c \notin cancel
    BY <2>1, <2>2 DEF SendAllow, Read, At, IInv, ThreadsFit
  <2> QED
    BY <2>3 DEF IInv, ClosedIsKnown
<1> QED
  BY <1>1, Safety, PTL DEF Spec, ClosedStaysClosed

------------------------------------------------------------------------------
(* Checkpoints.                                                            *)

(* A snapshot is one of an open run, for the runner's last number, and all *)
(* changes that are under way meanwhile belong to runs that are over.      *)
SnapshotFits ==
  loop.kind = "snapshot" =>
    /\ open /\ loop.step = counter /\ changing[counter] = None
    /\ \A k \in Steps : changing[k] # None => changing[k].late
    /\ loop.at # "insert" => loop.saved \in Content

(* The runner's numbers are new: no row has a later one, and none has that *)
(* of a snapshot.                                                          *)
NumbersAreNew ==
  \A k \in Recorded :
    /\ counter # Unread => k <= counter
    /\ loop.kind = "snapshot" => k < counter

(* Every row is of a change that was made or is under way; a change under  *)
(* way will find its file as its row has it, and is alone on it.           *)
RowsAreChanges == hurried \/ \A k \in Recorded : ran[k] # None \/ changing[k] # None

ChangesFit ==
  hurried \/
    /\ \A k \in Steps : changing[k] # None =>
         row[k] = [path |-> changing[k].path, saved |-> file[changing[k].path]]
    /\ \A j, k \in Steps : changing[j] # None /\ changing[k] # None /\ j # k =>
         changing[j].path # changing[k].path

(* A snapshot has what its file holds, with no other change on the way.    *)
CaptureFits ==
  hurried \/ (loop.kind = "snapshot" => file[loop.path] = loop.saved /\ ~OnTheWay(loop.path))

(* A rewind works from the rows as they are, beside no change, and what it *)
(* has done without a failure is done.                                     *)
RewindFits ==
  hurried \/
    (loop.kind = "rewind" =>
       /\ \A k \in Steps : changing[k] = None
       /\ loop.plan = Plan(loop.from)
       /\ ~loop.failed => \A p \in Path \ loop.todo : loop.plan[p] # Other =>
            file[p] \in {loop.plan[p], Other})

(* The collector aims at blobs no row names, and a snapshot's blob is too  *)
(* young for it by the time its row is there.                              *)
BlobsFit ==
  /\ \A c \in Content : blob[c] = "bad" => rotted
  /\ \A c \in Content : gc = c => ~Named(c)
  /\ raced \/ \A k \in Recorded : row[k].saved \in Content => blob[row[k].saved] # "none"
  /\ raced \/ (loop.kind = "snapshot" /\ loop.saved \in Content =>
                 /\ loop.at = "insert" => blob[loop.saved] = "young"
                 /\ loop.at = "touch" => Good(loop.saved))

(* The inductive invariant.                                                *)
StoreInv ==
  /\ StoreTypeOK /\ SnapshotFits /\ NumbersAreNew
  /\ EditsAreSaved /\ RowsAreChanges /\ ChangesFit
  /\ CaptureFits /\ RewindFits /\ BlobsFit

------------------------------------------------------------------------------
(* The words for what is not there are none of what is.                    *)
LEMMA Words ==
  /\ Absent \notin Content /\ Other \notin Content /\ Absent # Other
  /\ "idle" \notin Content /\ "look" \notin Content
  /\ Other \notin Saved
  /\ Content \subseteq Saved
  BY CheckpointsAssumption DEF Absent, Other, Saved

LEMMA NoneIsNone ==
  /\ \A r \in Row : r # None
  /\ \A t \in [path : Path, late : BOOLEAN] : t # None
  /\ \A f \in [path : Path, before : Saved \union {Other}] : f # None
  BY DEF Row, None

(* What the loop's jobs hold.                                              *)
LEMMA Jobs ==
  ASSUME StoreTypeOK
  PROVE  /\ loop.kind = "snapshot" =>
              /\ loop \in [kind : {"snapshot"}, at : {"verify", "touch", "insert"}, step : Steps,
                           path : Path, saved : Saved]
              /\ loop.step \in Steps /\ loop.path \in Path /\ loop.saved \in Saved
              /\ loop.at \in {"verify", "touch", "insert"}
         /\ loop.kind = "rewind" =>
              /\ loop \in [kind : {"rewind"}, from : Steps, plan : [Path -> Saved \union {Other}],
                           todo : SUBSET Path, failed : BOOLEAN]
              /\ loop.from \in Steps /\ loop.plan \in [Path -> Saved \union {Other}]
              /\ loop.todo \subseteq Path /\ loop.failed \in BOOLEAN
         /\ Free.kind = "free"
  BY DEF StoreTypeOK, Job, Free

(* Some number of a set of numbers is the last.                            *)
LEMMA HasLast ==
  ASSUME NEW n \in Nat, NEW S \in SUBSET (1 .. n), S # {}
  PROVE  \E k \in S : \A j \in S : j <= k
<1> DEFINE Above(k) == {j \in S : j > k}
           F == {Above(k) : k \in S}
<1>1. IsFiniteSet(S)
  <2>1. IsFiniteSet(1 .. n)
    BY FS_Interval
  <2> QED
    BY <2>1, FS_Subset
<1>2. F \subseteq FiniteSubsetsOf(S) /\ F # {}
  <2>1. \A k \in S : Above(k) \in SUBSET S /\ IsFiniteSet(Above(k))
    BY <1>1, FS_Subset
  <2> QED
    BY <2>1 DEF FiniteSubsetsOf
<1>3. PICK T \in F : \A U \in F : ~ (<<U, T>> \in StrictSubsetOrdering(S))
  <2>1. IsWellFoundedOn(StrictSubsetOrdering(S), FiniteSubsetsOf(S))
    BY FS_StrictSubsetOrderingWellFounded
  <2> QED
    BY <1>2, <2>1, WFMin
<1>4. PICK k \in S : T = Above(k)
  BY <1>3
<1>5. ASSUME NEW j \in S, ~ (j <= k)
      PROVE  FALSE
  <2>1. Above(j) \subseteq Above(k) /\ Above(j) # Above(k)
    <3>1. j \in Above(k) /\ j \notin Above(j)
      BY <1>5
    <3>2. \A i \in Above(j) : i \in Above(k)
      BY <1>5
    <3> QED
      BY <3>1, <3>2
  <2>2. <<Above(j), Above(k)>> \in StrictSubsetOrdering(S)
    BY <2>1 DEF StrictSubsetOrdering
  <2> QED
    BY <2>2, <1>3, <1>4
<1> QED
  BY <1>5

(* And some number is the first.                                           *)
LEMMA HasFirst ==
  ASSUME NEW n \in Nat, NEW S \in SUBSET (1 .. n), S # {}
  PROVE  \E k \in S : \A j \in S : k <= j
<1> DEFINE T == {m \in 1 .. n : n + 1 - m \in S}
<1>1. \A k \in S : n + 1 - k \in T
  OBVIOUS
<1>2. T \in SUBSET (1 .. n) /\ T # {}
  BY <1>1
<1>3. PICK m \in T : \A j \in T : j <= m
  <2> HIDE DEF T
  <2> QED
    BY <1>2, HasLast
<1> QED
  BY <1>1, <1>3

(* The row a rewind takes for a path that has one.                         *)
LEMMA EarliestIs ==
  ASSUME NEW n, NEW p \in Path, Covering(n, p) # {}
  PROVE  /\ Earliest(Covering(n, p)) \in Covering(n, p)
         /\ \A j \in Covering(n, p) : Earliest(Covering(n, p)) <= j
<1>1. Covering(n, p) \in SUBSET (1 .. MaxStep) /\ MaxStep \in Nat
  BY CheckpointsAssumption DEF Covering, Recorded, Steps
<1>2. \E k \in Covering(n, p) : \A j \in Covering(n, p) : k <= j
  BY <1>1, HasFirst
<1> QED
  BY <1>2 DEF Earliest

(* What a rewind plans for each file is what a row has, or Other.          *)
LEMMA PlanIs ==
  ASSUME StoreTypeOK, NEW n
  PROVE  Plan(n) \in [Path -> Saved \union {Other}]
<1>1. ASSUME NEW p \in Path, Covering(n, p) # {}
      PROVE  row[Earliest(Covering(n, p))].saved \in Saved
  <2>1. PICK k \in Covering(n, p) : k = Earliest(Covering(n, p))
    BY <1>1, EarliestIs
  <2>2. k \in Steps /\ row[k] # None
    BY DEF Covering, Recorded
  <2> QED
    BY <2>1, <2>2 DEF StoreTypeOK, Row
<1> QED
  BY <1>1 DEF Plan

(* A new number is above all rows.                                         *)
LEMMA NextIsNew ==
  ASSUME StoreTypeOK, NumbersAreNew
  PROVE  \A k \in Recorded : k < NextStep
<1>1. CASE counter # Unread
  BY <1>1 DEF StoreTypeOK, NumbersAreNew, NextStep, Recorded, Steps
<1>2. CASE counter = Unread
  <2>1. Recorded \in SUBSET (1 .. MaxStep) /\ MaxStep \in Nat
    BY CheckpointsAssumption DEF Recorded, Steps
  <2>2. CASE Recorded = {}
    BY <2>2
  <2>3. CASE Recorded # {}
    <3>1. \E k \in Recorded : \A j \in Recorded : j <= k
      BY <2>1, <2>3, HasLast
    <3>2. LastStep \in Recorded /\ \A j \in Recorded : j <= LastStep
      BY <3>1 DEF LastStep
    <3> QED
      BY <1>2, <2>1, <3>2 DEF NextStep
  <2> QED
    BY <2>2, <2>3
<1> QED
  BY <1>1, <1>2

------------------------------------------------------------------------------
LEMMA InitStoreInv == StoreInit => StoreInv
<1> SUFFICES ASSUME StoreInit PROVE StoreInv
  OBVIOUS
<1>1. StoreTypeOK
  BY DEF StoreInit, StoreTypeOK
<1>2. \A k \in Steps : row[k] = None /\ changing[k] = None /\ ran[k] = None
  BY DEF StoreInit
<1>3. Recorded = {} /\ loop.kind = "free" /\ gc = "idle"
  BY DEF Recorded, StoreInit, Free
<1>4. SnapshotFits /\ NumbersAreNew /\ EditsAreSaved /\ RowsAreChanges /\ ChangesFit
  BY <1>2, <1>3 DEF SnapshotFits, NumbersAreNew, EditsAreSaved, RowsAreChanges, ChangesFit
<1>5. CaptureFits /\ RewindFits /\ BlobsFit
  BY <1>3 DEF CaptureFits, RewindFits, BlobsFit, Named, StoreInit
<1> QED
  BY <1>1, <1>4, <1>5 DEF StoreInv

------------------------------------------------------------------------------
LEMMA StartRunKeeps ==
  ASSUME StoreInv, StartRun
  PROVE  StoreInv'
<1>1. StoreTypeOK'
  BY DEF StoreInv, StoreTypeOK, Free, StartRun, store, history
<1>2. SnapshotFits'
  BY DEF SnapshotFits, Free, StartRun
<1>3. NumbersAreNew'
  BY DEF NumbersAreNew, Free, StartRun
<1>4. EditsAreSaved'
  BY DEF StoreInv, EditsAreSaved, StartRun, store, history
<1>5. RowsAreChanges'
  BY DEF StoreInv, RowsAreChanges, Recorded, StartRun, store, history
<1>6. ChangesFit'
  BY DEF StoreInv, ChangesFit, StartRun, store, history
<1>7. CaptureFits'
  BY DEF CaptureFits, Free, StartRun
<1>8. RewindFits'
  BY DEF RewindFits, Free, StartRun
<1>9. BlobsFit'
  BY DEF StoreInv, BlobsFit, Named, Recorded, SnapshotFits, StartRun, store, history
<1> QED
  BY <1>1, <1>2, <1>3, <1>4, <1>5, <1>6, <1>7, <1>8, <1>9 DEF StoreInv

LEMMA EndRunKeeps ==
  ASSUME StoreInv, EndRun
  PROVE  StoreInv'
<1>1. StoreTypeOK'
  BY Words DEF StoreInv, StoreTypeOK, Job, Row, Free, Unread, Steps, EndRun, store, history
<1>2. SnapshotFits'
  BY DEF SnapshotFits, Free, EndRun
<1>3. NumbersAreNew'
  BY DEF StoreInv, NumbersAreNew, Recorded, EndRun, store
<1>4. EditsAreSaved'
  BY DEF StoreInv, EditsAreSaved, EndRun, store, history
<1>5. RowsAreChanges'
  BY Words, NoneIsNone, ZenonT(40) DEF StoreInv, RowsAreChanges, StoreTypeOK, Recorded, EndRun,
     store, history
<1>6. ChangesFit'
  BY DEF StoreInv, ChangesFit, EndRun, store, history
<1>7. CaptureFits'
  BY DEF CaptureFits, Free, EndRun
<1>8. RewindFits'
  BY DEF RewindFits, Free, EndRun
<1>9. BlobsFit'
  BY DEF StoreInv, BlobsFit, Named, Recorded, Free, EndRun, store, history
<1> QED
  BY <1>1, <1>2, <1>3, <1>4, <1>5, <1>6, <1>7, <1>8, <1>9 DEF StoreInv

LEMMA CrashKeeps ==
  ASSUME StoreInv, Crash
  PROVE  StoreInv'
<1>1. StoreTypeOK'
  BY DEF StoreInv, StoreTypeOK, Crash, store, Found
<1>2. SnapshotFits'
  BY DEF SnapshotFits, Free, Crash
<1>3. NumbersAreNew'
  BY DEF NumbersAreNew, Free, Crash
<1>4. EditsAreSaved'
  BY DEF StoreInv, EditsAreSaved, ChangesFit, Crash, store, Found
<1>5. RowsAreChanges'
  BY NoneIsNone DEF StoreInv, RowsAreChanges, StoreTypeOK, Recorded, Crash, store, Found
<1>6. ChangesFit'
  BY DEF ChangesFit, Crash
<1>7. CaptureFits'
  BY DEF CaptureFits, Free, Crash
<1>8. RewindFits'
  BY DEF RewindFits, Free, Crash
<1>9. BlobsFit'
  BY DEF StoreInv, BlobsFit, Named, Recorded, Free, Crash, store
<1> QED
  BY <1>1, <1>2, <1>3, <1>4, <1>5, <1>6, <1>7, <1>8, <1>9 DEF StoreInv

LEMMA CaptureKeeps ==
  ASSUME StoreInv, NEW p \in Path, Capture(p)
  PROVE  StoreInv'
<1>1. StoreTypeOK'
  BY DEF StoreInv, StoreTypeOK, Job, Steps, Capture, store, OnTheWay
<1>2. SnapshotFits'
  <2>1. /\ open' /\ counter' = NextStep /\ changing' = changing /\ changing[NextStep] = None
        /\ \A k \in Steps : changing[k] # None => changing[k].late
    BY DEF Capture
  <2>2. CASE loop' = [kind |-> "snapshot", at |-> IF file[p] = Absent THEN "insert" ELSE "verify",
                      step |-> NextStep, path |-> p, saved |-> file[p]] /\ file[p] # Other
    <3>1. file[p] \in Content \/ file[p] = Absent
      BY <2>2 DEF StoreInv, StoreTypeOK, Saved
    <3>2. /\ loop'.step = NextStep /\ loop'.saved = file[p]
          /\ loop'.at = IF file[p] = Absent THEN "insert" ELSE "verify"
      BY <2>2
    <3> QED
      BY <2>1, <3>1, <3>2 DEF SnapshotFits
  <2>3. CASE loop' = loop
    BY <2>3 DEF SnapshotFits, Capture, Free
  <2> QED
    BY <2>2, <2>3 DEF Capture
<1>3. NumbersAreNew'
  <2>1. row' = row /\ counter' = NextStep /\ NextStep \in Steps /\ Recorded' = Recorded
    BY DEF Capture, store, Recorded
  <2>2. \A k \in Recorded : k \in Nat /\ k < NextStep
    BY NextIsNew DEF StoreInv, Recorded, Steps
  <2> QED
    BY <2>1, <2>2 DEF NumbersAreNew, Steps
<1>4. EditsAreSaved'
  BY DEF StoreInv, EditsAreSaved, StoreTypeOK, Capture, store
<1>5. RowsAreChanges'
  BY DEF StoreInv, RowsAreChanges, StoreTypeOK, Recorded, Capture, store
<1>6. ChangesFit'
  BY DEF StoreInv, ChangesFit, StoreTypeOK, Capture, store
<1>7. CaptureFits'
  BY DEF StoreInv, CaptureFits, StoreTypeOK, OnTheWay, Capture
<1>8. RewindFits'
  BY DEF RewindFits, Free, Capture
<1>9. BlobsFit'
  BY Words DEF StoreInv, BlobsFit, Named, Recorded, Free, Capture, store
<1> QED
  BY <1>1, <1>2, <1>3, <1>4, <1>5, <1>6, <1>7, <1>8, <1>9 DEF StoreInv

LEMMA ApplyKeeps ==
  ASSUME StoreInv, NEW p \in Path, Apply(p)
  PROVE  StoreInv'
<1>0. /\ UNCHANGED <<row, blob, changing, open, counter, gc, ran, hurried, raced, rotted>>
      /\ loop.kind = "rewind" /\ loop.todo \subseteq Path
           /\ loop.plan \in [Path -> Saved \union {Other}]
      /\ loop.from \in Steps /\ loop.failed \in BOOLEAN /\ p \in loop.todo
      /\ file' = file \/ (file' = [file EXCEPT ![p] = loop.plan[p]] /\ loop'.kind = "rewind")
  BY Jobs DEF StoreInv, Apply, store, history
<1>a. \/ loop' = Free /\ file' = file
      \/ /\ loop' = [loop EXCEPT !.todo = @ \ {p}]
         /\ \/ file' = [file EXCEPT ![p] = loop.plan[p]]
            \/ file' = file /\ file[p] \in {Other, loop.plan[p]}
      \/ loop' = [[loop EXCEPT !.todo = @ \ {p}] EXCEPT !.failed = TRUE] /\ file' = file
  <2> DEFINE done == [loop EXCEPT !.todo = @ \ {p}]
             last == [done EXCEPT !.failed = TRUE]
  <2>1. \/ file[p] \in {Other, loop.plan[p]} /\ loop' = done /\ file' = file
        \/ file' = [file EXCEPT ![p] = loop.plan[p]] /\ loop' = done
        \/ loop' = Free /\ file' = file
        \/ loop' = last /\ file' = file
    BY DEF Apply
  <2> QED
    BY <2>1
<1>b. loop' = Free \/
      /\ loop'.kind = "rewind" /\ loop'.plan = loop.plan /\ loop'.from = loop.from
      /\ loop'.todo = loop.todo \ {p} /\ loop' \in Job
      /\ ~loop'.failed => ~loop.failed /\ file'[p] \in {Other, loop.plan[p]}
  <2>1. CASE loop' = [loop EXCEPT !.todo = @ \ {p}]
    BY <1>0, <1>a, <2>1, Jobs DEF StoreInv, StoreTypeOK, Job
  <2>2. CASE loop' = [[loop EXCEPT !.todo = @ \ {p}] EXCEPT !.failed = TRUE]
    BY <1>0, <2>2, Jobs DEF StoreInv, Job
  <2> QED
    BY <1>a, <2>1, <2>2
<1>c. /\ loop'.kind \in {"free", "rewind"} /\ loop' \in Job \union {Free}
      /\ file' \in [Path -> Saved \union {Other}] /\ \A q \in Path \ {p} : file'[q] = file[q]
      /\ loop'.kind = "rewind" => ~open
  BY <1>0, <1>b DEF Free, StoreInv, StoreTypeOK
<1>1. StoreTypeOK'
  BY <1>0, <1>c DEF StoreInv, StoreTypeOK
<1>2. SnapshotFits' /\ NumbersAreNew' /\ CaptureFits'
  BY <1>0, <1>c DEF StoreInv, SnapshotFits, NumbersAreNew, Recorded, CaptureFits
<1>3. EditsAreSaved' /\ RowsAreChanges'
  BY <1>0 DEF StoreInv, EditsAreSaved, RowsAreChanges, Recorded
<1>4. ChangesFit'
  BY <1>0 DEF StoreInv, ChangesFit, RewindFits
<1>5. RewindFits'
  <2>2. \A n : Plan(n)' = Plan(n)
    BY <1>0 DEF Plan, Covering, Recorded
  <2> QED
    BY <1>0, <1>b, <1>c, <2>2 DEF StoreInv, RewindFits, Free
<1>6. BlobsFit'
  BY <1>0, <1>c DEF StoreInv, BlobsFit, Named, Recorded
<1> QED
  BY <1>1, <1>2, <1>3, <1>4, <1>5, <1>6 DEF StoreInv

LEMMA OutsideKeeps ==
  ASSUME StoreInv, NEW p \in Path, Outside(p)
  PROVE  StoreInv'
<1>1. StoreTypeOK'
  BY DEF StoreInv, StoreTypeOK, Outside, store, history
<1>2. SnapshotFits'
  BY DEF StoreInv, SnapshotFits, Outside
<1>3. NumbersAreNew'
  BY DEF StoreInv, NumbersAreNew, Recorded, Outside, store
<1>4. EditsAreSaved'
  BY DEF StoreInv, EditsAreSaved, Outside, store, history
<1>5. RowsAreChanges'
  BY DEF StoreInv, RowsAreChanges, Recorded, Outside, store, history
<1>6. ChangesFit'
  BY DEF StoreInv, ChangesFit, OnTheWay, Outside, store, history
<1>7. CaptureFits'
  BY DEF StoreInv, CaptureFits, OnTheWay, Outside, history
<1>8. RewindFits'
  BY DEF RewindFits, Outside
<1>9. BlobsFit'
  BY DEF StoreInv, BlobsFit, Named, Recorded, Good, Outside, store, history
<1> QED
  BY <1>1, <1>2, <1>3, <1>4, <1>5, <1>6, <1>7, <1>8, <1>9 DEF StoreInv

LEMMA CommitKeeps ==
  ASSUME StoreInv, Commit
  PROVE  StoreInv'
<1>1. StoreTypeOK'
  BY DEF StoreInv, StoreTypeOK, Job, Free, Commit, history
<1>2. SnapshotFits'
  BY DEF StoreInv, SnapshotFits, StoreTypeOK, Free, Job, Commit
<1>3. NumbersAreNew'
  BY DEF StoreInv, NumbersAreNew, Recorded, Commit
<1>4. EditsAreSaved'
  BY DEF StoreInv, EditsAreSaved, Commit, history
<1>5. RowsAreChanges'
  BY DEF StoreInv, RowsAreChanges, Recorded, Commit, history
<1>6. ChangesFit'
  BY DEF StoreInv, ChangesFit, Commit, history
<1>7. CaptureFits'
  BY DEF StoreInv, CaptureFits, StoreTypeOK, OnTheWay, Free, Job, Commit, history
<1>8. RewindFits'
  BY DEF StoreInv, RewindFits, StoreTypeOK, Free, Job, Commit
<1>9. BlobsFit'
  BY DEF StoreInv, BlobsFit, StoreTypeOK, Named, Recorded, Good, Free, Job, Commit, history
<1> QED
  BY <1>1, <1>2, <1>3, <1>4, <1>5, <1>6, <1>7, <1>8, <1>9 DEF StoreInv

LEMMA TouchKeeps ==
  ASSUME StoreInv, Touch
  PROVE  StoreInv'
<1>1. StoreTypeOK'
  BY DEF StoreInv, StoreTypeOK, Job, Free, Touch, history
<1>2. SnapshotFits'
  BY DEF StoreInv, SnapshotFits, Touch
<1>3. NumbersAreNew'
  BY DEF StoreInv, NumbersAreNew, Recorded, Touch
<1>4. EditsAreSaved'
  BY DEF StoreInv, EditsAreSaved, Touch, history
<1>5. RowsAreChanges'
  BY DEF StoreInv, RowsAreChanges, Recorded, Touch, history
<1>6. ChangesFit'
  BY DEF StoreInv, ChangesFit, Touch, history
<1>7. CaptureFits'
  BY DEF StoreInv, CaptureFits, OnTheWay, Touch, history
<1>8. RewindFits'
  BY DEF RewindFits, Touch
<1>9. BlobsFit'
  BY DEF StoreInv, BlobsFit, StoreTypeOK, Named, Recorded, Good, Touch, history
<1> QED
  BY <1>1, <1>2, <1>3, <1>4, <1>5, <1>6, <1>7, <1>8, <1>9 DEF StoreInv

(* The row of a change is there before the change is under way.            *)
LEMMA InsertKeeps ==
  ASSUME StoreInv, Insert
  PROVE  StoreInv'
<1>0. /\ loop.kind = "snapshot" /\ loop.at = "insert" /\ loop' = Free /\ loop'.kind = "free"
      /\ UNCHANGED <<file, blob, open, counter, gc, ran, hurried, raced, rotted>>
      /\ loop.step \in Steps /\ loop.path \in Path /\ loop.saved \in Saved
      /\ loop.step = counter /\ open /\ changing[loop.step] = None
      /\ \A k \in Steps : changing[k] # None => changing[k].late
  BY Jobs DEF StoreInv, Insert, history, SnapshotFits
<1>1. CASE UNCHANGED <<row, changing>>
  <2>1. StoreTypeOK' /\ SnapshotFits' /\ NumbersAreNew' /\ EditsAreSaved' /\ RowsAreChanges'
    BY <1>0, <1>1 DEF StoreInv, StoreTypeOK, SnapshotFits, NumbersAreNew, EditsAreSaved,
       RowsAreChanges, Recorded
  <2>2. ChangesFit' /\ CaptureFits' /\ RewindFits' /\ BlobsFit'
    BY <1>0, <1>1 DEF StoreInv, ChangesFit, CaptureFits, RewindFits, BlobsFit, Named, Recorded
  <2> QED
    BY <2>1, <2>2 DEF StoreInv
<1>2. CASE /\ gc = "idle"
           /\ row' = [row EXCEPT ![loop.step] = [path |-> loop.path, saved |-> loop.saved]]
           /\ changing' = [changing EXCEPT ![loop.step] = [path |-> loop.path, late |-> FALSE]]
  <2> DEFINE r == [path |-> loop.path, saved |-> loop.saved]
             t == [path |-> loop.path, late |-> FALSE]
  <2>0. /\ r \in Row /\ r # None /\ r.path = loop.path /\ r.saved = loop.saved
        /\ t \in [path : Path, late : BOOLEAN] /\ t # None /\ t.path = loop.path /\ ~t.late
    BY <1>0, NoneIsNone DEF Row
  <2>1. /\ row \in [Steps -> Row \union {None}] /\ row' \in [Steps -> Row \union {None}]
        /\ changing \in [Steps -> [path : Path, late : BOOLEAN] \union {None}]
        /\ changing' \in [Steps -> [path : Path, late : BOOLEAN] \union {None}]
        /\ row'[loop.step] = r /\ changing'[loop.step] = t
        /\ \A k \in Steps \ {loop.step} : row'[k] = row[k] /\ changing'[k] = changing[k]
    <3> HIDE DEF r, t
    <3> QED
      BY <1>0, <1>2, <2>0 DEF StoreInv, StoreTypeOK, r
  <2>2. \A k \in Steps : row[k] # None => k # loop.step /\ k <= counter
    BY <1>0 DEF StoreInv, NumbersAreNew, Recorded, Steps
  <2> HIDE DEF r, t
  <2>3. StoreTypeOK'
    BY <1>0, <2>1 DEF StoreInv, StoreTypeOK
  <2>4. SnapshotFits' /\ CaptureFits' /\ RewindFits'
    BY <1>0 DEF SnapshotFits, CaptureFits, RewindFits
  <2>5. NumbersAreNew'
    BY <1>0, <2>1, <2>2 DEF NumbersAreNew, Recorded, Steps
  <2>6. EditsAreSaved'
    <3>1. ASSUME NEW k \in Steps, ran[k] # None, ~hurried
          PROVE  row'[k] = [path |-> ran[k].path, saved |-> ran[k].before]
      <4>1. row[k] = [path |-> ran[k].path, saved |-> ran[k].before]
        BY <3>1 DEF StoreInv, EditsAreSaved
      <4>2. row[k] # None
        BY <4>1 DEF None
      <4> QED
        BY <4>1, <4>2, <2>1, <2>2
    <3> QED
      BY <1>0, <3>1 DEF EditsAreSaved
  <2>7. RowsAreChanges'
    BY <1>0, <2>0, <2>1 DEF StoreInv, RowsAreChanges, Recorded
  <2>8. ChangesFit'
    BY <1>0, <2>0, <2>1 DEF StoreInv, ChangesFit, CaptureFits, OnTheWay, r
  <2>9. BlobsFit'
    <3>1. \A k \in Recorded' : k = loop.step \/ (k \in Recorded /\ row'[k] = row[k])
      BY <2>1 DEF Recorded
    <3>2. \A c \in Content : gc # c
      BY <1>2, Words
    <3>3. raced \/ \A k \in Recorded' : row'[k].saved \in Content => blob[row'[k].saved] # "none"
      BY <1>0, <2>0, <2>1, <3>1 DEF StoreInv, BlobsFit
    <3> QED
      BY <1>0, <3>2, <3>3 DEF StoreInv, BlobsFit
  <2> QED
    BY <2>3, <2>4, <2>5, <2>6, <2>7, <2>8, <2>9 DEF StoreInv
<1> QED
  BY <1>1, <1>2 DEF Insert

LEMMA FinishKeeps ==
  ASSUME StoreInv, Finish
  PROVE  StoreInv'
<1>1. StoreTypeOK'
  BY DEF StoreInv, StoreTypeOK, Finish
<1>2. SnapshotFits'
  BY DEF SnapshotFits, Free, Finish
<1>3. NumbersAreNew'
  BY DEF StoreInv, NumbersAreNew, Recorded, Free, Finish
<1>4. EditsAreSaved'
  BY DEF StoreInv, EditsAreSaved, Finish
<1>5. RowsAreChanges'
  BY DEF StoreInv, RowsAreChanges, Recorded, Finish
<1>6. ChangesFit'
  BY DEF StoreInv, ChangesFit, RewindFits, Finish
<1>7. CaptureFits'
  BY DEF CaptureFits, Free, Finish
<1>8. RewindFits'
  BY DEF RewindFits, Free, Finish
<1>9. BlobsFit'
  BY DEF StoreInv, BlobsFit, Named, Recorded, Free, Finish
<1> QED
  BY <1>1, <1>2, <1>3, <1>4, <1>5, <1>6, <1>7, <1>8, <1>9 DEF StoreInv

LEMMA LandKeeps ==
  ASSUME StoreInv, NEW k \in Steps, Land(k)
  PROVE  StoreInv'
<1>1. StoreTypeOK'
  BY DEF StoreInv, StoreTypeOK, Land, store, Found
<1>2. SnapshotFits'
  BY DEF StoreInv, SnapshotFits, Land
<1>3. NumbersAreNew'
  BY DEF StoreInv, NumbersAreNew, Recorded, Land, store
<1>4. EditsAreSaved'
  BY DEF StoreInv, EditsAreSaved, ChangesFit, Land, store, Found
<1>5. RowsAreChanges'
  BY NoneIsNone DEF StoreInv, RowsAreChanges, StoreTypeOK, Recorded, Land, store, Found
<1>6. ChangesFit'
  BY DEF StoreInv, ChangesFit, StoreTypeOK, Land, store
<1>7. CaptureFits'
  BY DEF StoreInv, CaptureFits, StoreTypeOK, OnTheWay, Free, Job, Land
<1>8. RewindFits'
  BY DEF StoreInv, RewindFits, Land
<1>9. BlobsFit'
  BY DEF StoreInv, BlobsFit, Named, Recorded, Good, Land, store
<1> QED
  BY <1>1, <1>2, <1>3, <1>4, <1>5, <1>6, <1>7, <1>8, <1>9 DEF StoreInv

LEMMA BeginRewindKeeps ==
  ASSUME StoreInv, NEW k \in Steps, BeginRewind(k)
  PROVE  StoreInv'
<1>0. /\ UNCHANGED <<file, row, blob, changing, open, counter, gc, ran, raced, rotted>>
      /\ loop' = [kind |-> "rewind", from |-> k, plan |-> Plan(k),
                   todo |-> {p \in Path : Plan(k)[p] # Other}, failed |-> FALSE]
      /\ hurried' = (hurried \/ \E j \in Steps : changing[j] # None) /\ ~open
      /\ Plan(k) \in [Path -> Saved \union {Other}]
  BY PlanIs DEF StoreInv, BeginRewind, store
<1>1. StoreTypeOK'
  <2>1. loop' \in Job /\ loop'.kind = "rewind"
    BY <1>0 DEF Job
  <2>2. hurried' \in BOOLEAN
    BY <1>0
  <2> QED
    BY <1>0, <2>1 DEF StoreInv, StoreTypeOK
<1>2. SnapshotFits'
  BY DEF SnapshotFits, BeginRewind
<1>3. NumbersAreNew'
  BY DEF StoreInv, NumbersAreNew, Recorded, BeginRewind, store
<1>4. EditsAreSaved'
  BY DEF StoreInv, EditsAreSaved, BeginRewind, store
<1>5. RowsAreChanges'
  BY DEF StoreInv, RowsAreChanges, Recorded, BeginRewind, store
<1>6. ChangesFit'
  BY DEF ChangesFit, BeginRewind
<1>7. CaptureFits'
  BY DEF CaptureFits, BeginRewind
<1>8. RewindFits'
  <2>1. Plan(k)' = Plan(k)
    BY <1>0 DEF Plan, Covering, Recorded
  <2>2. /\ loop'.from = k /\ loop'.plan = Plan(k)
        /\ loop'.todo = {p \in Path : Plan(k)[p] # Other}
    BY <1>0
  <2>3. \A p \in Path \ loop'.todo : loop'.plan[p] = Other
    BY <2>2
  <2> QED
    BY <1>0, <2>1 DEF RewindFits
<1>9. BlobsFit'
  BY DEF StoreInv, BlobsFit, Named, Recorded, BeginRewind, store
<1> QED
  BY <1>1, <1>2, <1>3, <1>4, <1>5, <1>6, <1>7, <1>8, <1>9 DEF StoreInv

LEMMA CollectBeginKeeps ==
  ASSUME StoreInv, CollectBegin
  PROVE  StoreInv'
<1>1. StoreTypeOK'
  BY DEF StoreInv, StoreTypeOK, CollectBegin, store, history
<1>2. SnapshotFits'
  BY DEF StoreInv, SnapshotFits, CollectBegin
<1>3. NumbersAreNew'
  BY DEF StoreInv, NumbersAreNew, Recorded, CollectBegin, store
<1>4. EditsAreSaved'
  BY DEF StoreInv, EditsAreSaved, CollectBegin, store, history
<1>5. RowsAreChanges'
  BY DEF StoreInv, RowsAreChanges, Recorded, CollectBegin, store, history
<1>6. ChangesFit'
  BY DEF StoreInv, ChangesFit, CollectBegin, store, history
<1>7. CaptureFits'
  BY DEF StoreInv, CaptureFits, OnTheWay, CollectBegin, history
<1>8. RewindFits'
  BY DEF StoreInv, RewindFits, Plan, Covering, Recorded, CollectBegin, store, history
<1>9. BlobsFit'
  BY Words DEF StoreInv, BlobsFit, Recorded, Good, CollectBegin, store, history
<1> QED
  BY <1>1, <1>2, <1>3, <1>4, <1>5, <1>6, <1>7, <1>8, <1>9 DEF StoreInv

LEMMA CollectEndKeeps ==
  ASSUME StoreInv, CollectEnd
  PROVE  StoreInv'
<1>1. StoreTypeOK'
  BY DEF StoreInv, StoreTypeOK, CollectEnd, store, history
<1>2. SnapshotFits'
  BY DEF StoreInv, SnapshotFits, CollectEnd
<1>3. NumbersAreNew'
  BY DEF StoreInv, NumbersAreNew, Recorded, CollectEnd, store
<1>4. EditsAreSaved'
  BY DEF StoreInv, EditsAreSaved, CollectEnd, store, history
<1>5. RowsAreChanges'
  BY DEF StoreInv, RowsAreChanges, Recorded, CollectEnd, store, history
<1>6. ChangesFit'
  BY DEF StoreInv, ChangesFit, CollectEnd, store, history
<1>7. CaptureFits'
  BY DEF StoreInv, CaptureFits, OnTheWay, CollectEnd, history
<1>8. RewindFits'
  BY DEF StoreInv, RewindFits, Plan, Covering, Recorded, CollectEnd, store, history
<1>9. BlobsFit'
  BY Words DEF StoreInv, BlobsFit, Recorded, Good, CollectEnd, store, history
<1> QED
  BY <1>1, <1>2, <1>3, <1>4, <1>5, <1>6, <1>7, <1>8, <1>9 DEF StoreInv

LEMMA AimKeeps ==
  ASSUME StoreInv, NEW c \in Content, Aim(c)
  PROVE  StoreInv'
<1>1. StoreTypeOK'
  BY DEF StoreInv, StoreTypeOK, Aim, store, history
<1>2. SnapshotFits'
  BY DEF StoreInv, SnapshotFits, Aim
<1>3. NumbersAreNew'
  BY DEF StoreInv, NumbersAreNew, Recorded, Aim, store
<1>4. EditsAreSaved'
  BY DEF StoreInv, EditsAreSaved, Aim, store, history
<1>5. RowsAreChanges'
  BY DEF StoreInv, RowsAreChanges, Recorded, Aim, store, history
<1>6. ChangesFit'
  BY DEF StoreInv, ChangesFit, Aim, store, history
<1>7. CaptureFits'
  BY DEF StoreInv, CaptureFits, OnTheWay, Aim, history
<1>8. RewindFits'
  BY DEF StoreInv, RewindFits, Plan, Covering, Recorded, Aim, store, history
<1>9. BlobsFit'
  BY DEF StoreInv, BlobsFit, Named, Recorded, Good, Aim, store, history
<1> QED
  BY <1>1, <1>2, <1>3, <1>4, <1>5, <1>6, <1>7, <1>8, <1>9 DEF StoreInv

LEMMA UnlinkKeeps ==
  ASSUME StoreInv, NEW c \in Content, Unlink(c)
  PROVE  StoreInv'
<1>1. StoreTypeOK'
  BY DEF StoreInv, StoreTypeOK, Unlink
<1>2. SnapshotFits'
  BY DEF StoreInv, SnapshotFits, Unlink
<1>3. NumbersAreNew'
  BY DEF StoreInv, NumbersAreNew, Recorded, Unlink
<1>4. EditsAreSaved'
  BY DEF StoreInv, EditsAreSaved, Unlink
<1>5. RowsAreChanges'
  BY DEF StoreInv, RowsAreChanges, Recorded, Unlink
<1>6. ChangesFit'
  BY DEF StoreInv, ChangesFit, Unlink
<1>7. CaptureFits'
  BY DEF StoreInv, CaptureFits, OnTheWay, Unlink
<1>8. RewindFits'
  BY DEF StoreInv, RewindFits, Plan, Covering, Recorded, Unlink
<1>9. BlobsFit'
  BY Words DEF StoreInv, BlobsFit, StoreTypeOK, Named, Recorded, Good, Unlink
<1> QED
  BY <1>1, <1>2, <1>3, <1>4, <1>5, <1>6, <1>7, <1>8, <1>9 DEF StoreInv

LEMMA AgeKeeps ==
  ASSUME StoreInv, NEW c \in Content, Age(c)
  PROVE  StoreInv'
<1>1. StoreTypeOK'
  BY DEF StoreInv, StoreTypeOK, Age, history
<1>2. SnapshotFits'
  BY DEF StoreInv, SnapshotFits, Age
<1>3. NumbersAreNew'
  BY DEF StoreInv, NumbersAreNew, Recorded, Age
<1>4. EditsAreSaved'
  BY DEF StoreInv, EditsAreSaved, Age, history
<1>5. RowsAreChanges'
  BY DEF StoreInv, RowsAreChanges, Recorded, Age, history
<1>6. ChangesFit'
  BY DEF StoreInv, ChangesFit, Age, history
<1>7. CaptureFits'
  BY DEF StoreInv, CaptureFits, OnTheWay, Age, history
<1>8. RewindFits'
  BY DEF StoreInv, RewindFits, Plan, Covering, Recorded, Age, history
<1>9. BlobsFit'
  BY DEF StoreInv, BlobsFit, Named, Recorded, Good, Age, history
<1> QED
  BY <1>1, <1>2, <1>3, <1>4, <1>5, <1>6, <1>7, <1>8, <1>9 DEF StoreInv

LEMMA RotKeeps ==
  ASSUME StoreInv, NEW c \in Content, Rot(c)
  PROVE  StoreInv'
<1>1. StoreTypeOK'
  BY DEF StoreInv, StoreTypeOK, Rot
<1>2. SnapshotFits'
  BY DEF StoreInv, SnapshotFits, Rot
<1>3. NumbersAreNew'
  BY DEF StoreInv, NumbersAreNew, Recorded, Rot
<1>4. EditsAreSaved'
  BY DEF StoreInv, EditsAreSaved, Rot
<1>5. RowsAreChanges'
  BY DEF StoreInv, RowsAreChanges, Recorded, Rot
<1>6. ChangesFit'
  BY DEF StoreInv, ChangesFit, Rot
<1>7. CaptureFits'
  BY DEF StoreInv, CaptureFits, OnTheWay, Rot
<1>8. RewindFits'
  BY DEF StoreInv, RewindFits, Plan, Covering, Recorded, Rot
<1>9. BlobsFit'
  BY DEF StoreInv, BlobsFit, Named, Recorded, Good, Rot
<1> QED
  BY <1>1, <1>2, <1>3, <1>4, <1>5, <1>6, <1>7, <1>8, <1>9 DEF StoreInv

LEMMA StoreStutterKeeps ==
  ASSUME StoreInv, UNCHANGED storeVars
  PROVE  StoreInv'
<1>1. StoreTypeOK' /\ SnapshotFits' /\ NumbersAreNew' /\ EditsAreSaved' /\ RowsAreChanges'
  BY DEF StoreInv, storeVars, StoreTypeOK, SnapshotFits, NumbersAreNew, EditsAreSaved,
     RowsAreChanges, Recorded
<1>2. ChangesFit' /\ CaptureFits' /\ RewindFits' /\ BlobsFit'
  BY DEF StoreInv, storeVars, ChangesFit, CaptureFits, OnTheWay, RewindFits, Plan, Covering,
     Recorded, BlobsFit, Named, Good
<1> QED
  BY <1>1, <1>2 DEF StoreInv

LEMMA StoreStepKeeps == StoreInv /\ [StoreNext]_storeVars => StoreInv'
<1> SUFFICES ASSUME StoreInv, [StoreNext]_storeVars PROVE StoreInv'
  OBVIOUS
<1>1. CASE StartRun \/ EndRun \/ Crash \/ Commit \/ Touch \/ Insert \/ Finish \/ CollectBegin
             \/ CollectEnd
  BY <1>1, StartRunKeeps, EndRunKeeps, CrashKeeps, CommitKeeps, TouchKeeps, InsertKeeps,
     FinishKeeps,
     CollectBeginKeeps, CollectEndKeeps
<1>2. ASSUME NEW p \in Path, Capture(p) \/ Apply(p) \/ Outside(p)
      PROVE  StoreInv'
  BY <1>2, CaptureKeeps, ApplyKeeps, OutsideKeeps
<1>3. ASSUME NEW k \in Steps, Land(k) \/ BeginRewind(k)
      PROVE  StoreInv'
  BY <1>3, LandKeeps, BeginRewindKeeps
<1>4. ASSUME NEW c \in Content, Aim(c) \/ Unlink(c) \/ Age(c) \/ Rot(c)
      PROVE  StoreInv'
  BY <1>4, AimKeeps, UnlinkKeeps, AgeKeeps, RotKeeps
<1>5. CASE UNCHANGED storeVars
  BY <1>5, StoreStutterKeeps
<1> QED
  BY <1>1, <1>2, <1>3, <1>4, <1>5 DEF StoreNext

(* The inductive invariant holds in every state, whatever runs, tools,     *)
(* rewinds, collectors and crashes interleave.                             *)
THEOREM StoreSafety == StoreSpec => []StoreInv
<1>1. StoreInit => StoreInv
  BY InitStoreInv
<1>2. StoreInv /\ [StoreNext]_storeVars => StoreInv'
  BY StoreStepKeeps
<1> QED
  BY <1>1, <1>2, PTL DEF StoreSpec

------------------------------------------------------------------------------
(* The index, the store and the jobs have their types; the loop rewinds    *)
(* only without an open run, and the change of an open run has the         *)
(* runner's last number.                                                   *)
THEOREM StoreTypeCorrect == StoreSpec => []StoreTypeOK
<1>1. StoreInv => StoreTypeOK
  BY DEF StoreInv
<1> QED
  BY <1>1, StoreSafety, PTL

(* What a tool has changed, and no rewind has undone, has a row with what  *)
(* it found (checkpoints.py:793), until a rewind begins, or its file is    *)
(* saved again, while the thread of an ended run is still to change it     *)
(* (tui/session.py:854).                                                   *)
THEOREM ChangesAreSaved == StoreSpec => []EditsAreSaved
<1>1. StoreInv => EditsAreSaved
  BY DEF StoreInv
<1> QED
  BY <1>1, StoreSafety, PTL

(* A row's blob is in the store, whole unless the disk damaged it, or the  *)
(* collector took it from a snapshot (checkpoints.py:690, :1182).          *)
THEOREM BlobsAreKept == StoreSpec => []RowsNameBlobs
<1>1. StoreInv => RowsNameBlobs
  <2> SUFFICES ASSUME StoreInv, ~raced, NEW k \in Recorded, row[k].saved \in Content
               PROVE  Good(row[k].saved) \/ (blob[row[k].saved] = "bad" /\ rotted)
    BY DEF RowsNameBlobs
  <2>1. blob[row[k].saved] \in {"young", "old", "bad"}
    BY DEF StoreInv, StoreTypeOK, BlobsFit
  <2> QED
    BY <2>1 DEF StoreInv, BlobsFit, Good
<1> QED
  BY <1>1, StoreSafety, PTL

(* When a rewind ends well, every file that a change from its step on has  *)
(* touched is what the first of these changes found (checkpoints.py:931,   *)
(* :1067); again, as long as no rewind began over the thread of an ended   *)
(* run that was still to change its file (tui/session.py:854).             *)
THEOREM RewindsUndo == StoreSpec => RewindUndoes
<1>1. StoreInv /\ [StoreNext]_storeVars => [Finished => hurried \/ Undone(loop.from)]_storeVars
  <2> SUFFICES ASSUME StoreInv, StoreNext, Finished, ~hurried PROVE Undone(loop.from)
    OBVIOUS
  <2>0. loop.kind = "rewind" /\ loop.from \in Steps /\ loop.todo = {} /\ ~loop.failed
    BY Jobs DEF StoreInv, StoreNext, Finished, StartRun, EndRun, Crash, Capture, Apply, Outside,
       Commit, Touch,
       Insert, Finish, Land, BeginRewind, CollectBegin, CollectEnd, Aim, Unlink, Age, Rot, store
  <2>1. /\ loop.plan = Plan(loop.from)
        /\ \A p \in Path : loop.plan[p] # Other => file[p] \in {loop.plan[p], Other}
        /\ \A k \in Steps : changing[k] = None
    BY <2>0 DEF StoreInv, RewindFits
  <2> SUFFICES ASSUME NEW k \in Steps, ran[k] # None, k >= loop.from,
                      \A j \in Steps : ran[j] # None /\ j >= loop.from /\ ran[j].path = ran[k].path
                        => k <= j
               PROVE  file[ran[k].path] \in {ran[k].before, Other}
    BY DEF Undone
  <2> DEFINE p == ran[k].path
             C == Covering(loop.from, p)
  <2>2. \A j \in Steps : ran[j] # None => row[j] = [path |-> ran[j].path, saved |-> ran[j].before]
    BY DEF StoreInv, EditsAreSaved
  <2>3. row[k] # None /\ row[k].path = p /\ row[k].saved = ran[k].before /\ p \in Path
          /\ ran[k].before \in Saved
    <3>1. row[k] = [path |-> p, saved |-> ran[k].before]
      BY <2>2
    <3>2. row[k] # None
      BY <3>1 DEF None
    <3>3. row[k] \in Row
      BY <3>2 DEF StoreInv, StoreTypeOK
    <3> QED
      BY <3>1, <3>2, <3>3 DEF Row
  <2>4. k \in C
    BY <2>3 DEF Covering, Recorded
  <2>5. \A j \in C : k <= j
    <3> SUFFICES ASSUME NEW j \in C PROVE k <= j
      OBVIOUS
    <3>1. j \in Steps /\ row[j] # None /\ row[j].path = p /\ j >= loop.from
      BY DEF Covering, Recorded
    <3>2. ran[j] # None
      BY <3>1, <2>1 DEF StoreInv, RowsAreChanges, Recorded
    <3>3. ran[j].path = p
      <4>1. row[j] = [path |-> ran[j].path, saved |-> ran[j].before]
        BY <2>2, <3>1, <3>2
      <4>2. row[j].path = ran[j].path
        BY <4>1
      <4> QED
        BY <3>1, <4>2
    <3> QED
      BY <3>1, <3>2, <3>3
  <2>6. Earliest(C) = k
    <3>1. Earliest(C) \in C /\ \A j \in C : Earliest(C) <= j
      BY <2>3, <2>4, EarliestIs
    <3>2. Earliest(C) \in Nat /\ k \in Nat
      BY <3>1 DEF Covering, Recorded, Steps
    <3> QED
      BY <3>1, <3>2, <2>4, <2>5
  <2>7. loop.plan[p] = ran[k].before
    BY <2>1, <2>3, <2>4, <2>6 DEF Plan
  <2> QED
    BY <2>1, <2>3, <2>7, Words
<1> QED
  BY <1>1, StoreSafety, PTL DEF StoreSpec, RewindUndoes
=============================================================================

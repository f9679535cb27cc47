---------------------------- MODULE DeviceRunner -----------------------------
(***************************************************************************)
(* m2c/runner.py: what the device does with the calls the server proposes  *)
(* for one run.  Every call is a task of the event loop; its actions below *)
(* are the code between two awaits.  Worker threads run the tools.  The    *)
(* server closes calls, the person answers, interrupts and leaves, the     *)
(* process dies and a runner for the same run starts again, at any time.   *)
(***************************************************************************)
EXTENDS Integers, Sequences, FiniteSets, SequencesExt

CONSTANTS Call,         \* the calls of the run
          Serial,       \* those that change something: they run alone, in order
          Edits,        \* those of Serial that need a checkpoint first
          ReadCap,      \* max_parallel_reads
          MaxUnread,    \* bound: calls whose decision is ever not found
          Nobody

ASSUME RunnerAssumption ==
  /\ Serial \subseteq Call /\ Edits \subseteq Serial
  /\ ReadCap \in Nat \ {0} /\ MaxUnread \in Nat /\ Nobody \notin Call

VARIABLES at,           \* where each call's task stands
          queue,        \* the serial calls in the order they arrived; each waits for the one before
          cancel,       \* the calls' cancel flags
          ended,        \* the runner takes no more calls
          asking,       \* whose prompt is shown: the prompt lock
          thread,       \* calls whose tool is running in a worker thread
          decided,      \* the approvals table: the calls allowed or denied
          closed,       \* _server_closed: those this process was told of
          runs,         \* history: how often each call's tool was started: never, once, or again
          unread        \* history: calls whose decision was once not found although it was there

vars == <<at, queue, cancel, ended, asking, thread, decided, closed, runs, unread>>
memory == <<queue, cancel, ended, closed>>
past == <<runs, unread>>

Places == {"new", "queued", "settling", "waiting", "prompt", "approve", "reading", "running", "done"}
Idle(c) == at[c] \in {"new", "done"}

(* The variables' types; and a tool that runs belongs to a task that waits *)
(* for it, unless the runner was closed over it.                           *)
TypeOK ==
  /\ at \in [Call -> Places]
  /\ queue \in Seq(Serial) /\ IsInjective(queue)
  /\ cancel \subseteq Call /\ closed \subseteq Call /\ thread \subseteq Call
  /\ decided \subseteq Call /\ unread \subseteq Call
  /\ ended \in BOOLEAN
  /\ asking \in Call \union {Nobody}
  /\ runs \in [Call -> 0 .. 2]
  /\ \A c \in thread : at[c] = "running" \/ (ended /\ c \in cancel)
  /\ \A c \in Call : asking = c <=> at[c] = "prompt"

Init ==
  /\ at = [c \in Call |-> "new"]
  /\ queue = <<>> /\ cancel = {} /\ ended = FALSE
  /\ asking = Nobody /\ thread = {}
  /\ decided = {} /\ closed = {}
  /\ runs = [c \in Call |-> 0] /\ unread = {}

At(c, place) == at[c] = place
Goto(c, place) == at' = [at EXCEPT ![c] = place]

------------------------------------------------------------------------------
(* What reaches the runner.                                                *)

\* Fault: what an earlier process decided is not looked up.
ProposedAnew(c) ==
  /\ At(c, "new") /\ ~ended
  /\ Goto(c, "queued")
  /\ queue' = IF c \in Serial THEN Append(queue, c) ELSE queue
  /\ UNCHANGED <<cancel, ended, closed, asking, thread, decided, past>>

(* on_tool_proposed: live or replayed.  A call this runner has seen, or an *)
(* earlier one decided, is left alone.  A lookup that fails counts as "not *)
(* decided", whatever becomes of the record later.                         *)
Proposed(c) ==
  /\ At(c, "new") /\ ~ended
  /\ \/ /\ Goto(c, "queued")
        /\ queue' = IF c \in Serial THEN Append(queue, c) ELSE queue
        /\ unread' = unread \union ({c} \cap decided)
        /\ Cardinality(unread') <= MaxUnread
     \/ c \in decided /\ Goto(c, "done") /\ UNCHANGED <<queue, unread>>
  /\ UNCHANGED <<cancel, ended, closed, asking, thread, decided, runs>>

\* observe: the server has closed the call.
ClosedByServer(c) ==
  /\ c \notin closed
  /\ closed' = closed \union {c}
  /\ cancel' = IF Idle(c) THEN cancel ELSE cancel \union {c}
  /\ UNCHANGED <<at, queue, ended, asking, thread, decided, past>>

\* interrupt, and cancel_run: every call under way is cancelled.
Busy == {c \in Call : ~Idle(c)}
Interrupt ==
  /\ Busy \ cancel # {}
  /\ cancel' = cancel \union Busy
  /\ UNCHANGED <<at, queue, ended, closed, asking, thread, decided, past>>

\* The run reached a terminal state, or aclose.
End ==
  /\ ~ended
  /\ ended' = TRUE
  /\ cancel' = cancel \union Busy
  /\ UNCHANGED <<at, queue, closed, asking, thread, decided, past>>

\* Fault: a task that is cancelled keeps the prompt.
AbandonWithPrompt ==
  /\ ended /\ Busy # {}
  /\ at' = [c \in Call |-> IF Idle(c) THEN at[c] ELSE "done"]
  /\ UNCHANGED <<memory, asking, thread, decided, past>>

\* aclose: fifteen seconds later the tasks that are left are cancelled, not their threads.
Abandon ==
  /\ ended /\ Busy # {}
  /\ at' = [c \in Call |-> IF Idle(c) THEN at[c] ELSE "done"]
  /\ asking' = Nobody
  /\ UNCHANGED <<memory, thread, decided, past>>

------------------------------------------------------------------------------
(* _process and _pipeline: one call.                                       *)

Before(c) == LET i == CHOOSE i \in DOMAIN queue : queue[i] = c IN SubSeq(queue, 1, i - 1)

\* Fault: a change does not wait for the one before it.
TurnAtOnce(c) ==
  /\ At(c, "queued") /\ Goto(c, "settling")
  /\ UNCHANGED <<memory, asking, thread, decided, past>>

\* await call.predecessor
Turn(c) ==
  /\ At(c, "queued")
  /\ c \in Serial /\ Before(c) # <<>> => Idle(Last(Before(c)))
  /\ Goto(c, "settling")
  /\ UNCHANGED <<memory, asking, thread, decided, past>>

\* _record: the approval event and its row, in one transaction; any write may fail.
Record(c) == decided' = decided \union {c}

\* A denial is recorded when it can be, and sent when it can be.
Denied(c) ==
  /\ Record(c) \/ UNCHANGED decided
  /\ Goto(c, "done")

\* Without a record the call is not run: it is denied.
Allowed(c) ==
  \/ Record(c) /\ Goto(c, "approve")
  \/ UNCHANGED decided /\ Goto(c, "done")

\* _dropped, by what this runner knows: cancelled, or closed as the server told it.
Dropped(c) == c \in cancel \union closed

(* The replay has settled.  _closed_in_store may find a tool_finished in   *)
(* the log an earlier process's link wrote, and the call is dropped; it    *)
(* need not find one that is there, for the read may fail and the host may *)
(* look under another id than the link writes to.  The policy then allows, *)
(* denies or wants the person asked; an exact call allowed for the session *)
(* counts as allowed, and with nobody to ask it is a denial.               *)
Decide(c) ==
  /\ At(c, "settling")
  /\ IF Dropped(c) THEN Goto(c, "done") /\ UNCHANGED decided
     ELSE \/ Allowed(c)
          \/ Denied(c)
          \/ Goto(c, "waiting") /\ UNCHANGED decided
          \/ Goto(c, "done") /\ UNCHANGED decided
  /\ UNCHANGED <<memory, asking, thread, past>>

\* _prompt: one at a time.
Show(c) ==
  /\ At(c, "waiting") /\ asking = Nobody /\ c \notin cancel
  /\ asking' = c
  /\ Goto(c, "prompt")
  /\ UNCHANGED <<memory, thread, decided, past>>

\* The person answers, or ask fails; an answer that came first counts.
Answer(c) ==
  /\ At(c, "prompt")
  /\ Allowed(c) \/ Denied(c)
  /\ asking' = Nobody
  /\ UNCHANGED <<memory, thread, past>>

\* Fault: only a prompt that still waits for the lock is dismissed.
DismissWaiting(c) ==
  /\ At(c, "waiting") /\ c \in cancel
  /\ UNCHANGED asking
  /\ Goto(c, "done")
  /\ UNCHANGED <<memory, thread, decided, past>>

Dismiss(c) ==
  /\ at[c] \in {"waiting", "prompt"} /\ c \in cancel
  /\ asking' = IF asking = c THEN Nobody ELSE asking
  /\ Goto(c, "done")
  /\ UNCHANGED <<memory, thread, decided, past>>

Start(c) ==
  /\ Goto(c, "running")
  /\ thread' = thread \union {c}
  /\ runs' = [runs EXCEPT ![c] = IF @ = 0 THEN 1 ELSE 2]

\* Fault: a call closed while its approval was sent is carried out.
SendAllowUnasked(c) ==
  /\ At(c, "approve")
  /\ \/ Goto(c, "done") /\ UNCHANGED <<thread, runs>>
     \/ c \notin Serial /\ Goto(c, "reading") /\ UNCHANGED <<thread, runs>>
     \/ c \in Serial /\ Start(c)
  /\ UNCHANGED <<memory, asking, decided, unread>>

(* send_approval{allow}: not sent, the call is not run; closed meanwhile,  *)
(* neither.  An edit whose file cannot be saved is answered with an error; *)
(* a read waits for a free place.                                          *)
SendAllow(c) ==
  /\ At(c, "approve")
  /\ \/ Goto(c, "done") /\ UNCHANGED <<thread, runs>>
     \/ c \notin cancel /\ c \notin Serial /\ Goto(c, "reading") /\ UNCHANGED <<thread, runs>>
     \/ c \notin cancel /\ c \in Edits /\ Goto(c, "done") /\ UNCHANGED <<thread, runs>>
     \/ c \notin cancel /\ c \in Serial /\ Start(c)
  /\ UNCHANGED <<memory, asking, decided, unread>>

Read(c) ==
  /\ At(c, "reading")
  /\ Cardinality({d \in Call \ Serial : At(d, "running")}) < ReadCap
  /\ Start(c)
  /\ UNCHANGED <<memory, asking, decided, unread>>

(* The tool ends, or is killed; its result is sent, or dropped when the    *)
(* call was cancelled.                                                     *)
ToolEnds(c) ==
  /\ c \in thread
  /\ thread' = thread \ {c}
  /\ IF At(c, "running") THEN Goto(c, "done") ELSE UNCHANGED at
  /\ UNCHANGED <<memory, asking, decided, past>>

------------------------------------------------------------------------------
\* The process dies with its threads; a new one opens the store again.
Restart ==
  /\ at' = [c \in Call |-> "new"]
  /\ queue' = <<>> /\ cancel' = {} /\ ended' = FALSE /\ closed' = {}
  /\ asking' = Nobody /\ thread' = {}
  /\ UNCHANGED <<decided, past>>

Step(c) ==
  Turn(c) \/ Decide(c) \/ Dismiss(c) \/ SendAllow(c) \/ Read(c) \/ ToolEnds(c)

Next ==
  \/ \E c \in Call : Step(c) \/ Proposed(c) \/ ClosedByServer(c) \/ Show(c) \/ Answer(c)
  \/ Interrupt \/ End \/ Abandon \/ Restart

(* The loop runs a task that can go on, and a tool ends (each has a limit  *)
(* of time or size of its own).  Nothing is asked of the person, the       *)
(* server or the fifteen seconds of aclose.                                *)
Fairness == \A c \in Call : WF_vars(Step(c))

Spec == Init /\ [][Next]_vars /\ Fairness

------------------------------------------------------------------------------
(* No call is carried out twice: not when it is proposed again, not by the *)
(* runner of a new process that gets it replayed; unless that one's lookup *)
(* of the decision failed, and its own record then did not.                *)
RunsOnce == \A c \in Call \ unread : runs[c] <= 1

(* A change runs alone: when its tool is at work, the tools of all changes *)
(* that came before it have ended, their tasks are over, and none that     *)
(* came after it has been decided.                                         *)
AloneInOrder ==
  \A c \in thread \cap Serial :
    /\ \A d \in ToSet(Before(c)) : Idle(d) /\ d \notin thread
    /\ At(c, "running") => \A d \in ToSet(queue) \ (ToSet(Before(c)) \union {c}) : At(d, "queued")

(* No change starts that the server has told this process is closed: not   *)
(* while it waits, is asked or is being approved.  What only an earlier    *)
(* process was told is not spoken of.                                      *)
ClosedStaysClosed ==
  [][\A c \in Serial \cap (thread' \ thread) : c \notin closed]_vars

(* Once the run is over every call's task ends, without the person: shown  *)
(* or waiting prompts are dismissed, and no change waits for ever for the  *)
(* one before it.                                                          *)
EndStopsWork == ended ~> (~ended \/ \A c \in Call : Idle(c))
====

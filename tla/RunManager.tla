----------------------------- MODULE RunManager ------------------------------
(***************************************************************************)
(* backend/codeagent/run_manager.py: what makes a run's row and its        *)
(* encrypted buffer one run.  The calls of several threads, and the sweep, *)
(* interleave on ONE run (runs share nothing here but the device's cap,    *)
(* which Runs.tla models: a resume may always find it full).  A move of    *)
(* the row is one step: RunsProofs shows that transition() implements it.  *)
(***************************************************************************)
EXTENDS RunStates

CONSTANTS Client,       \* threads that start, resume, end, cancel and purge
          Sweeper       \* the thread that runs expire_stale

None == "none"
ASSUME ManagerAssumption == Sweeper \notin Client

Caller == Client \union {Sweeper}

VARIABLES state,        \* the row's state, None before the run is recorded
          stale,        \* updated_at is older than SWEEP_MIN_IDLE_SECONDS
          buf,          \* the buffer: none, readable, or sealed with a retired key
          flag,         \* run_guard's cancel flag
          call,         \* what each thread is doing
          lost,         \* history: the content went with its TTL, its key or a fault
          unclean,      \* history: a fault stopped a cleanup
          unfenced      \* history: what no end of the run looks at again

vars == <<state, stale, buf, flag, call, lost, unclean, unfenced>>
content == <<buf, lost, unclean, unfenced>>

Places == {"row", "fill", "fail", "launch", "get", "attach", "drop", "rebuild",
           "leave", "discard", "undo", "look", "flag", "move", "delete", "clear", "exists"}

(* One call: where it stands, where it moves the run, the open state it read, *)
(* whether the device sent a state, and whether the buffer was rebuilt.    *)
Calls == [op : {"start", "resume", "end", "cancel", "purge", "sweep"}, at : Places,
          to : TerminalStates \union {None}, saw : OpenStates \union {None},
          withState : BOOLEAN, rebuilt : BOOLEAN]
NoCall == [op |-> "idle", at |-> "idle"]
NewCall(op, at, to, withState) ==
  [op |-> op, at |-> at, to |-> to, saw |-> None, withState |-> withState, rebuilt |-> FALSE]

Busy(op) == \E c \in Caller : call[c].op = op
Quiet == \A c \in Caller : call[c] = NoCall
Ended == state \in TerminalStates
Open  == state \in OpenStates

Init ==
  /\ state = None /\ stale = FALSE
  /\ buf = "none" /\ flag = FALSE
  /\ call = [c \in Caller |-> NoCall]
  /\ lost = FALSE /\ unclean = FALSE /\ unfenced = FALSE

At(c, place) == call[c].at = place
Goto(c, place) == call' = [call EXCEPT ![c].at = place]
Return(c) == call' = [call EXCEPT ![c] = NoCall]
Begin(c, new) ==
  /\ call[c] = NoCall
  /\ call' = [call EXCEPT ![c] = new]
  /\ UNCHANGED <<state, stale, flag, content>>

\* runs.transition(): judged and written at once, and updated_at is now.
Legal(to) == Open /\ CanTransition(state, to)
Move(to) == Legal(to) /\ state' = to /\ stale' = FALSE
Still == UNCHANGED <<state, stale, flag>>

------------------------------------------------------------------------------
(* start_run, and on_run_start around it.                                  *)
BeginStart(c) == Begin(c, NewCall("start", "row", None, FALSE))

StartRow(c) ==
  /\ At(c, "row")
  /\ \/ /\ state = None
        /\ state' = "created" /\ stale' = FALSE
        /\ Goto(c, "fill")
     \/ \* the id is taken, or the device is at its cap
        /\ Return(c)
        /\ UNCHANGED <<state, stale>>
  /\ UNCHANGED <<flag, content>>

StartFill(c) ==
  /\ At(c, "fill")
  /\ \/ /\ buf = "none"
        /\ buf' = "readable"
        /\ lost' = FALSE
        /\ unfenced' = (unfenced \/ Ended)
        /\ Goto(c, "launch")
     \/ \* BufferExists
        /\ buf # "none"
        /\ Goto(c, "fail")
        /\ UNCHANGED <<buf, lost, unfenced>>
  /\ Still /\ UNCHANGED unclean

\* The buffer could not be created: the row is failed, with no cleanup.
StartFail(c) ==
  /\ At(c, "fail")
  /\ \/ /\ Move("failed")
        /\ unfenced' = (unfenced \/ buf # "none" \/ flag)
     \/ /\ ~Legal("failed")
        /\ UNCHANGED <<state, stale, unfenced>>
  /\ Return(c)
  /\ UNCHANGED <<buf, flag, lost, unclean>>

(* The handlers' transition(.., "running") behind start_run and behind the *)
(* resume of a run that was never started; _abandon ends a run that could  *)
(* not be launched.                                                        *)
Launch(c) ==
  /\ At(c, "launch")
  /\ \/ Move("running") /\ Return(c)
     \/ Move("running") /\ Goto(c, "move")                   \* not announced: _abandon
     \/ /\ ~Legal("running")
        /\ IF call[c].op = "start" THEN Goto(c, "move") ELSE Return(c)
        /\ UNCHANGED <<state, stale>>
  /\ UNCHANGED <<flag, content>>

------------------------------------------------------------------------------
(* resume_run, _attach, and _undo_resume behind it.                        *)
BeginResume(c, withState) == Begin(c, NewCall("resume", "get", None, withState))

\* Fault: a run that is over is not refused.
ResumeGetEnded(c) ==
  /\ At(c, "get")
  /\ IF state # None THEN call' = [call EXCEPT ![c].at = "attach", ![c].saw = state]
                     ELSE Return(c)
  /\ Still /\ UNCHANGED content

ResumeGet(c) ==
  /\ At(c, "get")
  /\ IF Open THEN call' = [call EXCEPT ![c].at = "attach", ![c].saw = state]
             ELSE Return(c)                                  \* RunNotFound, RunNotResumable
  /\ Still /\ UNCHANGED content

Attach(c) ==
  /\ At(c, "attach")
  /\ \/ buf = "readable" /\ Goto(c, "leave")
     \/ buf # "readable" /\ ~call[c].withState /\ Return(c)  \* RunGone
     \/ buf = "none" /\ call[c].withState /\ Goto(c, "rebuild")
     \/ buf = "unreadable" /\ call[c].withState /\ Goto(c, "drop")
     \/ buf # "readable" /\ call[c].withState /\ Return(c)   \* InvalidRunState
  /\ Still /\ UNCHANGED content

DropUnreadable(c) ==
  /\ At(c, "drop")
  /\ buf' = "none"
  /\ Goto(c, "rebuild")
  /\ Still /\ UNCHANGED <<lost, unclean, unfenced>>

Rebuild(c) ==
  /\ At(c, "rebuild")
  /\ \/ /\ buf = "none"
        /\ buf' = "readable"
        /\ lost' = FALSE
        /\ unfenced' = (unfenced \/ (Ended /\ call[c].saw \notin ResumeFrom))
        /\ call' = [call EXCEPT ![c].at = "leave", ![c].rebuilt = TRUE]
     \/ \* BufferExists: another call was first
        /\ buf # "none"
        /\ IF buf = "readable"
             THEN call' = [call EXCEPT ![c].at = "leave", ![c].rebuilt = TRUE]
             ELSE Return(c)
        /\ UNCHANGED <<buf, lost, unfenced>>
  /\ Still /\ UNCHANGED unclean

\* Fault: the ended run is left with the buffer that was just rebuilt.
LeaveWithoutUndo(c) ==
  /\ At(c, "leave")
  /\ \/ /\ call[c].saw \in ResumeFrom /\ state \in ResumeFrom
        /\ Move("running") /\ Return(c)
     \/ /\ call[c].saw \notin ResumeFrom \/ state \notin ResumeFrom
        /\ Return(c)
        /\ UNCHANGED <<state, stale>>
  /\ UNCHANGED <<flag, content>>

(* Out of the pause, if the run was seen in one.                           *)
Leave(c) ==
  /\ At(c, "leave")
  /\ \/ /\ call[c].saw \in ResumeFrom /\ state \in ResumeFrom
        /\ \/ Move("running") /\ Return(c)
           \/ Move("running") /\ Goto(c, "undo")             \* the redelivery failed
           \/ Return(c) /\ UNCHANGED <<state, stale>>        \* ParallelRunLimit
     \/ /\ call[c].saw \in ResumeFrom /\ state \notin ResumeFrom
        /\ IF Ended /\ call[c].rebuilt THEN Goto(c, "discard") ELSE Return(c)
        /\ UNCHANGED <<state, stale>>
     \/ /\ call[c].saw \notin ResumeFrom
        /\ IF call[c].saw = "created" THEN Goto(c, "launch") ELSE Return(c)
        /\ UNCHANGED <<state, stale>>
  /\ UNCHANGED <<flag, content>>

Discard(c) ==
  /\ At(c, "discard")
  /\ buf' = "none"
  /\ Return(c)
  /\ Still /\ UNCHANGED <<lost, unclean, unfenced>>

UndoResume(c) ==
  /\ At(c, "undo")
  /\ \/ Move(call[c].saw)
     \/ ~Legal(call[c].saw) /\ UNCHANGED <<state, stale>>
  /\ Return(c)
  /\ UNCHANGED <<flag, content>>

------------------------------------------------------------------------------
(* pause_run is its one move.                                              *)
Pause(to) == Move(to) /\ UNCHANGED <<flag, call, content>>

\* The grant route's claim: it leaves a budget pause, which run.resume does not.
Grant ==
  /\ state = "paused_budget"
  /\ Move("running")
  /\ UNCHANGED <<flag, call, content>>

(* end_run, cancel_run and purge_run.                                      *)
BeginEnd(c, to) == Begin(c, NewCall("end", "move", to, FALSE))
BeginCancel(c)  == Begin(c, NewCall("cancel", "look", "cancelled", FALSE))
BeginPurge(c)   == Begin(c, NewCall("purge", "look", None, FALSE))

\* Fault: purge_run does not ask whether the run is over.
LookUnasked(c) ==
  /\ At(c, "look")
  /\ \/ call[c].op = "cancel" /\ Open /\ Goto(c, "flag")
     \/ call[c].op = "cancel" /\ ~Open /\ Return(c)
     \/ call[c].op = "purge" /\ Goto(c, "delete")
  /\ Still /\ UNCHANGED content

Look(c) ==
  /\ At(c, "look")
  /\ \/ call[c].op = "cancel" /\ Open /\ Goto(c, "flag")
     \/ call[c].op = "purge" /\ Ended /\ Goto(c, "delete")
     \/ ~(IF call[c].op = "cancel" THEN Open ELSE Ended) /\ Return(c)
  /\ Still /\ UNCHANGED content

Flag(c) ==
  /\ At(c, "flag")
  /\ flag' = TRUE
  /\ Goto(c, "move")
  /\ UNCHANGED <<state, stale, content>>

\* Where end_run, cancel_run, _abandon and the sweep take the run.
Target(c) ==
  CASE call[c].op \in {"start", "resume"} -> "failed"
    [] call[c].op = "sweep"               -> "expired"
    [] OTHER                              -> call[c].to

EndMove(c) ==
  /\ At(c, "move")
  /\ \/ /\ Move(Target(c))
        /\ Goto(c, "delete")
        /\ UNCHANGED flag
     \/ /\ ~Legal(Target(c))
        /\ flag' = (flag /\ call[c].op # "cancel")
        /\ Return(c)
        /\ UNCHANGED <<state, stale>>
  /\ UNCHANGED content

(* _cleanup                                                                *)
Delete(c) ==
  /\ At(c, "delete")
  /\ buf' = "none" /\ unclean' = FALSE /\ unfenced' = FALSE
  /\ Goto(c, "clear")
  /\ Still /\ UNCHANGED lost

Clear(c) ==
  /\ At(c, "clear")
  /\ flag' = FALSE
  /\ Return(c)
  /\ UNCHANGED <<state, stale, content>>

------------------------------------------------------------------------------
(* expire_stale: the page lists open rows that were idle; each is judged   *)
(* by its buffer.                                                          *)
BeginSweep ==
  /\ Open /\ stale
  /\ Begin(Sweeper, NewCall("sweep", "exists", None, FALSE))

SweepExists(c) ==
  /\ At(c, "exists")
  /\ IF buf = "none" THEN Goto(c, "move") ELSE Return(c)
  /\ Still /\ UNCHANGED content

------------------------------------------------------------------------------
Step(c) ==
  \/ StartRow(c) \/ StartFill(c) \/ StartFail(c) \/ Launch(c)
  \/ ResumeGet(c) \/ Attach(c) \/ DropUnreadable(c) \/ Rebuild(c)
  \/ Leave(c) \/ Discard(c) \/ UndoResume(c)
  \/ Look(c) \/ Flag(c) \/ EndMove(c) \/ Delete(c) \/ Clear(c) \/ SweepExists(c)

(* Postgres or Redis refuses the step: start_run fails the row, on_run_start    *)
(* abandons it, _cleanup goes on to the guard, and every other call raises. *)
Fail(c) ==
  /\ call[c] # NoCall
  /\ ~At(c, "flag") /\ ~At(c, "clear")                        \* run_guard fails open
  /\ CASE At(c, "fill")   -> Goto(c, "fail")
       [] At(c, "launch") -> IF call[c].op = "start" THEN Goto(c, "move") ELSE Return(c)
       [] At(c, "delete") -> Goto(c, "clear")
       [] OTHER           -> Return(c)
  /\ lost' = (lost \/ At(c, "fill") \/ At(c, "rebuild"))
  /\ unclean' = (unclean \/ At(c, "delete") \/ At(c, "discard")
                   \/ (Ended /\ call[c].op \in {"cancel", "resume"}))
  /\ Still /\ UNCHANGED <<buf, unfenced>>

(* The worker process dies in the call.                                    *)
Crash(c) ==
  /\ call[c] # NoCall
  /\ Return(c)
  /\ lost' = (lost \/ At(c, "fill") \/ At(c, "rebuild") \/ At(c, "fail"))
  /\ unclean' = TRUE
  /\ Still /\ UNCHANGED <<buf, unfenced>>

(* The row grows old.  A call takes less than SWEEP_MIN_IDLE_SECONDS, so   *)
(* not between a call's write of the row and its return.                   *)
Idle ==
  /\ Open /\ ~stale
  /\ \A c \in Client : call[c].op \in {"idle", "purge"}
  /\ stale' = TRUE
  /\ UNCHANGED <<state, flag, call, content>>

\* The buffer's idle TTL or its hard cap.
Lapse ==
  /\ buf # "none"
  /\ buf' = "none" /\ lost' = TRUE
  /\ Still /\ UNCHANGED <<call, unclean, unfenced>>

\* The key that sealed it is retired.
Retire ==
  /\ buf = "readable"
  /\ buf' = "unreadable" /\ lost' = TRUE
  /\ Still /\ UNCHANGED <<call, unclean, unfenced>>

Next ==
  \/ \E c \in Client :
       \/ BeginStart(c)
       \/ \E withState \in BOOLEAN : BeginResume(c, withState)
       \/ \E to \in TerminalStates \ {"cancelled"} : BeginEnd(c, to)
       \/ BeginCancel(c) \/ BeginPurge(c)
  \/ BeginSweep
  \/ \E c \in Caller : Step(c) \/ Fail(c) \/ Crash(c)
  \/ (\E to \in PausedStates : Pause(to)) \/ Grant
  \/ Idle \/ Lapse \/ Retire

Spec == Init /\ [][Next]_vars

------------------------------------------------------------------------------
(* Types of all the variables.                                             *)
TypeOK ==
  /\ state \in States \union {None}
  /\ buf \in {"none", "readable", "unreadable"}
  /\ {stale, flag, lost, unclean, unfenced} \subseteq BOOLEAN
  /\ call \in [Caller -> Calls \union {NoCall}]

(* The rule run_manager.py exists to keep, for content written before the  *)
(* end or by a resume out of a pause: once every call has returned, a run  *)
(* that is over has neither buffer nor cancel flag, unless a fault stopped *)
(* the cleanup.  A resume from outside a resumable pause is exempt without *)
(* any fault (unfenced): it does not look at the row again.                *)
EndedRunIsClean ==
  Quiet /\ Ended /\ ~unclean /\ ~unfenced => buf = "none" /\ ~flag

(* No cleanup of one call takes the buffer of a run that is still open:    *)
(* when nobody is building it, it is there, or it lapsed or was lost to a  *)
(* fault.                                                                  *)
LiveContentKept ==
  Open /\ ~Busy("start") /\ ~Busy("resume") => buf = "readable" \/ lost
==============================================================================

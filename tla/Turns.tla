-------------------------------- MODULE Turns --------------------------------
(***************************************************************************)
(* Who works on one run: backend/codeagent/run_handlers.py queues the      *)
(* device's messages for a worker task, loop.py runs turns under the run's *)
(* lock and starts a continuation when a pause is resumed, and the         *)
(* handlers of `cancel`, run.resume and a lost connection (ws.py) stop     *)
(* them, each awaiting in between.  A connection's handlers run one at a   *)
(* time; the handler of a lost connection runs beside those of the next.   *)
(***************************************************************************)
EXTENDS Naturals, Sequences

CONSTANTS Task,         \* bound: tasks that are there at once
          Conn,         \* the connections of the device, one after another
          MaxMsg,       \* bound: messages the device sends
          MaxQueued,    \* max_queued_turns
          MaxSteps      \* the loop's step_limit

None == "none"

ASSUME TurnsAssumption ==
  /\ MaxMsg \in Nat /\ MaxQueued \in Nat /\ MaxSteps \in Nat \ {0}
  /\ None \notin Task \union Conn

Msg == 1 .. MaxMsg
PauseStates == {"paused", "budget"}   \* a pause run.resume ends, and one it does not

VARIABLES row,          \* the run's row
          conns, reg,   \* each connection, and the registered one
          doing, about, \* the handler each connection is in, and the message it handles
          entry, queue, \* the run's turns: its worker, and what waits behind the active message
          cont,         \* the loop's continuation of the run
          task,         \* the tasks there are
          turn,         \* who has the loop's lock
          adrift,       \* moves of the row in the threads of tasks and handlers that are gone
          sent, fate,   \* how many messages the device sent, and what became of each
          given,        \* the messages the loop took, in order
          late          \* history: lost connections whose pausing the device came back during

links    == <<conns, reg, doing, about>>
tasks    == <<entry, queue, cont, task, turn>>
messages == <<sent, fate, given>>
vars     == <<row, links, tasks, adrift, messages, late>>

Free == [at |-> "free", msg |-> 0, steps |-> 0, to |-> None, stopped |-> FALSE]
New(m) == [at |-> IF m = 0 THEN "wait" ELSE "look", msg |-> m, steps |-> 0, to |-> None,
           stopped |-> FALSE]

Init ==
  /\ row = "running"
  /\ conns = [k \in Conn |-> "new"] /\ reg = None
  /\ doing = [k \in Conn |-> "idle"] /\ about = [k \in Conn |-> 0]
  /\ entry = None /\ queue = <<>> /\ cont = None
  /\ task = [t \in Task |-> Free] /\ turn = None /\ adrift = {}
  /\ sent = 0 /\ fate = [m \in Msg |-> "new"] /\ given = <<>>
  /\ late = {}

------------------------------------------------------------------------------
(* Stopping: the task is told, and goes when it comes to its next await;   *)
(* who stopped it waits no longer than the stop timeout.                   *)
Told(t) == IF t = None THEN task ELSE [task EXCEPT ![t].stopped = TRUE]

\* stop_turns: the entry is gone at once, with the messages that waited.
StopTurns ==
  /\ entry' = None /\ queue' = <<>>
  /\ task' = Told(entry)
  /\ fate' = [m \in Msg |-> IF \E i \in DOMAIN queue : queue[i] = m THEN "dropped" ELSE fate[m]]
  /\ UNCHANGED <<cont, turn, sent, given>>

\* _stop_task: the continuation.
StopTask ==
  /\ cont' = None
  /\ task' = Told(cont)
  /\ UNCHANGED <<entry, queue, turn, messages>>

------------------------------------------------------------------------------
(* user_message                                                            *)
At(k, where) == doing' = [doing EXCEPT ![k] = where]

\* The guard reads the row: not now, or on to the queue.
Ask(k) ==
  /\ conns[k] = "live" /\ doing[k] = "idle" /\ sent < MaxMsg
  /\ sent' = sent + 1
  /\ IF row = "running"
       THEN At(k, "ask") /\ about' = [about EXCEPT ![k] = sent'] /\ UNCHANGED fate
       ELSE fate' = [fate EXCEPT ![sent'] = "answered"] /\ UNCHANGED <<doing, about>>
  /\ UNCHANGED <<row, conns, reg, tasks, adrift, given, late>>

\* Fault: one message too many waits.
FullOffByOne == Len(queue) > MaxQueued
Full == Len(queue) >= MaxQueued

Accept(k) ==
  LET m == about[k]
  IN  /\ doing[k] = "ask"
      /\ At(k, "idle") /\ about' = [about EXCEPT ![k] = 0]
      /\ \/ /\ entry = None
            /\ \E t \in Task : /\ task[t] = Free
                               /\ entry' = t
                               /\ task' = [task EXCEPT ![t] = New(m)]
            /\ fate' = [fate EXCEPT ![m] = "queued"]
            /\ UNCHANGED queue
         \/ /\ entry # None /\ ~Full
            /\ queue' = Append(queue, m)
            /\ fate' = [fate EXCEPT ![m] = "queued"]
            /\ UNCHANGED <<entry, task>>
         \/ /\ entry # None /\ Full              \* rate_limited
            /\ fate' = [fate EXCEPT ![m] = "answered"]
            /\ UNCHANGED <<entry, queue, task>>
      /\ UNCHANGED <<row, conns, reg, cont, turn, adrift, sent, given, late>>

------------------------------------------------------------------------------
(* The worker: one message after another, each with a look at the row.     *)
Alive(t) == ~task[t].stopped

\* Fault: the entry is gone once nothing waits, with a turn still to do.
NextMessageEarly(t) ==
  /\ entry' = (IF entry = t /\ Len(queue) <= 1 THEN None ELSE entry)
  /\ IF queue = <<>>
       THEN task' = [task EXCEPT ![t] = Free] /\ UNCHANGED queue
       ELSE /\ task' = [task EXCEPT ![t] = New(Head(queue))]
            /\ queue' = Tail(queue)

\* Fault: the worker leaves its entry behind.
NextMessageStays(t) ==
  IF queue = <<>>
    THEN task' = [task EXCEPT ![t] = Free] /\ UNCHANGED <<entry, queue>>
    ELSE /\ task' = [task EXCEPT ![t] = New(Head(queue))]
         /\ queue' = Tail(queue)
         /\ UNCHANGED entry

\* The next message, or the worker ends and takes its entry along.
NextMessage(t) ==
  IF queue = <<>>
    THEN /\ task' = [task EXCEPT ![t] = Free]
         /\ entry' = (IF entry = t THEN None ELSE entry)
         /\ UNCHANGED queue
    ELSE /\ task' = [task EXCEPT ![t] = New(Head(queue))]
         /\ queue' = Tail(queue)
         /\ UNCHANGED entry

\* The loop's lock is taken, and the message given to the model.
TakeTurn(t, m) ==
  /\ turn = None /\ turn' = t
  /\ task' = [task EXCEPT ![t].at = "turn"]
  /\ IF m = 0 THEN UNCHANGED <<fate, given>>
              ELSE fate' = [fate EXCEPT ![m] = "given"] /\ given' = Append(given, m)
  /\ UNCHANGED <<entry, queue>>

Waiting == {t \in Task : task[t].at = "wait"}

Look(t) ==
  /\ task[t].at = "look" /\ Alive(t)
  /\ \/ row = "running" /\ Waiting = {} /\ TakeTurn(t, task[t].msg)
     \/ /\ row = "running" /\ (turn # None \/ Waiting # {})
        /\ task' = [task EXCEPT ![t].at = "wait"]
        /\ UNCHANGED <<entry, queue, turn, fate, given>>
     \/ /\ row # "running"                       \* not now, or the run is over
        /\ fate' = [fate EXCEPT ![task[t].msg] = "answered"]
        /\ NextMessage(t)
        /\ UNCHANGED <<turn, given>>
  /\ UNCHANGED <<row, links, cont, adrift, sent, late>>

------------------------------------------------------------------------------
(* A turn, of a worker or of the continuation.                             *)
Enter(t) ==
  /\ task[t].at = "wait" /\ Alive(t)
  /\ TakeTurn(t, task[t].msg)
  /\ UNCHANGED <<row, links, cont, adrift, sent, late>>

\* A model step, after _check_cancel: a run that is over has its flag raised.
Call(t) ==
  /\ task[t].at = "turn" /\ Alive(t) /\ task[t].steps < MaxSteps /\ row # "over"
  /\ task' = [task EXCEPT ![t].steps = @ + 1]
  /\ UNCHANGED <<row, links, entry, queue, cont, turn, adrift, messages, late>>

\* The lock is free, and a worker goes on to its next message.
TurnOver(t) ==
  /\ turn' = None
  /\ IF task[t].msg = 0
       THEN /\ task' = [task EXCEPT ![t] = Free]
            /\ cont' = (IF cont = t THEN None ELSE cont)
            /\ UNCHANGED <<entry, queue>>
       ELSE NextMessage(t) /\ UNCHANGED cont

\* The model has answered, or the cancel flag was seen.
Finish(t) ==
  /\ task[t].at = "turn" /\ Alive(t)
  /\ TurnOver(t)
  /\ UNCHANGED <<row, links, adrift, messages, late>>

\* The turn parks its run: a failure, a disconnected call, a budget, the step limit.
BeginPark(t) ==
  /\ task[t].at = "turn" /\ Alive(t)
  /\ \E to \in PauseStates : task' = [task EXCEPT ![t].at = "park", ![t].to = to]
  /\ UNCHANGED <<row, links, entry, queue, cont, turn, adrift, messages, late>>

\* The row's own rules: a pause is of a running run, a resume of a paused one.
Moved(to) ==
  row' = CASE to \in PauseStates -> IF row = "running" THEN to ELSE row
           [] to = "running"     -> IF row = "paused" THEN to ELSE row
           [] to = "over"        -> to

Park(t) ==
  /\ task[t].at = "park" /\ Alive(t)
  /\ Moved(task[t].to)
  /\ TurnOver(t)
  /\ UNCHANGED <<links, adrift, messages, late>>

\* A task that was stopped goes; a pause it was about to make is left to its thread.
Unwind(t) ==
  LET m == task[t].msg
  IN  /\ task[t].stopped
      /\ task' = [task EXCEPT ![t] = Free]
      /\ turn' = IF turn = t THEN None ELSE turn
      /\ adrift' = IF task[t].at = "park" THEN adrift \union {task[t].to} ELSE adrift
      /\ fate' = IF m # 0 /\ fate[m] = "queued" THEN [fate EXCEPT ![m] = "dropped"] ELSE fate
      /\ UNCHANGED <<row, links, entry, queue, cont, sent, given, late>>

Land ==
  /\ \E to \in adrift : Moved(to) /\ adrift' = adrift \ {to}
  /\ UNCHANGED <<links, tasks, messages, late>>

------------------------------------------------------------------------------
(* cancel                                                                  *)
Cancel(k) ==
  /\ conns[k] = "live" /\ doing[k] = "idle" /\ row # "over"
  /\ At(k, "hook")
  /\ UNCHANGED <<row, conns, reg, about, tasks, adrift, messages, late>>

CancelHook(k) ==
  /\ doing[k] = "hook"
  /\ At(k, "stop")
  /\ StopTask
  /\ UNCHANGED <<row, conns, reg, about, adrift, late>>

CancelStop(k) ==
  /\ doing[k] = "stop"
  /\ At(k, "end")
  /\ StopTurns
  /\ UNCHANGED <<row, conns, reg, about, adrift, late>>

CancelEnd(k) ==
  /\ doing[k] = "end"
  /\ At(k, "idle")
  /\ row' = "over"
  /\ UNCHANGED <<conns, reg, about, tasks, adrift, messages, late>>

(* run.resume, out of a pause it ends.                                     *)
Resume(k) ==
  /\ conns[k] = "live" /\ doing[k] = "idle" /\ row = "paused"
  /\ At(k, "resume")
  /\ UNCHANGED <<row, conns, reg, about, tasks, adrift, messages, late>>

\* Not out of a pause after all: the run is left as it is.
Resumed(k) ==
  /\ doing[k] = "resume"
  /\ Moved("running")
  /\ At(k, IF row = "paused" THEN "resumed" ELSE "idle")
  /\ UNCHANGED <<conns, reg, about, tasks, adrift, messages, late>>

\* The re-delivery failed: the run is put back.
UndoResume(k) ==
  /\ doing[k] = "resumed"
  /\ At(k, "idle")
  /\ Moved("paused")
  /\ UNCHANGED <<conns, reg, about, tasks, adrift, messages, late>>

\* on_resume: an earlier continuation is stopped, and only then the new one starts.
ResumeHook(k) ==
  /\ doing[k] = "resumed"
  /\ At(k, "restart")
  /\ StopTask
  /\ UNCHANGED <<row, conns, reg, about, adrift, late>>

Restart(k) ==
  /\ doing[k] = "restart"
  /\ At(k, "idle")
  /\ \E t \in Task : /\ task[t] = Free
                     /\ cont' = t
                     /\ task' = [task EXCEPT ![t] = New(0)]
  /\ UNCHANGED <<row, conns, reg, about, entry, queue, turn, adrift, messages, late>>

------------------------------------------------------------------------------
(* Connections: the reader and its handler are cancelled, then on_disconnect. *)
(* A move of the row that a handler was waiting for is left to its thread. *)
LeftBehind == [end |-> "over", resume |-> "running", resumed |-> "paused"]

Aborted(k) ==
  /\ doing' = [doing EXCEPT ![k] = "idle"] /\ about' = [about EXCEPT ![k] = 0]
  /\ fate' = IF doing[k] = "ask" THEN [fate EXCEPT ![about[k]] = "dropped"] ELSE fate
  /\ \/ UNCHANGED adrift
     \/ doing[k] \in DOMAIN LeftBehind /\ adrift' = adrift \union {LeftBehind[doing[k]]}

Pausing == {k \in Conn : conns[k] \in {"stopping", "hooking", "pausing"}}

Connect(k) ==
  /\ conns[k] = "new"
  /\ reg' = k
  /\ conns' = [conns EXCEPT ![k] = "joining"]
  /\ late' = late \union Pausing
  /\ UNCHANGED <<row, doing, about, tasks, adrift, messages>>

\* The welcome waits until the connection before (there are two at most) is closed,
\* its handler with it; a connection superseded meanwhile fails in its welcome.
Serve(k) ==
  /\ conns[k] = "joining" /\ reg = k /\ \A j \in Conn : conns[j] # "live"
  /\ conns' = [conns EXCEPT ![k] = "live"]
  /\ UNCHANGED <<row, reg, doing, about, tasks, adrift, messages, late>>

Leave(k) ==
  /\ conns[k] = "live" \/ (conns[k] = "joining" /\ reg # k)
  /\ reg' = IF reg = k THEN None ELSE reg
  /\ conns' = [conns EXCEPT ![k] = "left"]
  /\ Aborted(k)
  /\ UNCHANGED <<row, tasks, sent, given, late>>

\* The device is back already, or the run holds no slot.
LookForRuns(k) ==
  /\ conns[k] = "left"
  /\ conns' = [conns EXCEPT ![k] = IF reg = None /\ row = "running" THEN "stopping" ELSE "gone"]
  /\ UNCHANGED <<row, reg, doing, about, tasks, adrift, messages, late>>

\* Fault: the run is paused under its worker.
StopForPauseNot(k) ==
  /\ conns[k] = "stopping"
  /\ conns' = [conns EXCEPT ![k] = "hooking"]
  /\ UNCHANGED <<row, reg, doing, about, tasks, adrift, messages, late>>

StopForPause(k) ==
  /\ conns[k] = "stopping"
  /\ conns' = [conns EXCEPT ![k] = "hooking"]
  /\ StopTurns
  /\ UNCHANGED <<row, reg, doing, about, adrift, late>>

HookForPause(k) ==
  /\ conns[k] = "hooking"
  /\ conns' = [conns EXCEPT ![k] = "pausing"]
  /\ StopTask
  /\ UNCHANGED <<row, reg, doing, about, adrift, late>>

Pause(k) ==
  /\ conns[k] = "pausing"
  /\ conns' = [conns EXCEPT ![k] = "gone"]
  /\ Moved("paused")
  /\ UNCHANGED <<reg, doing, about, tasks, adrift, messages, late>>

------------------------------------------------------------------------------
Work(t) == Look(t) \/ Enter(t) \/ Call(t) \/ Finish(t) \/ BeginPark(t) \/ Park(t) \/ Unwind(t)

Next ==
  \/ \E t \in Task : Work(t)
  \/ Land
  \/ \E k \in Conn :
       \/ Ask(k) \/ Accept(k)
       \/ Cancel(k) \/ CancelHook(k) \/ CancelStop(k) \/ CancelEnd(k)
       \/ Resume(k) \/ Resumed(k) \/ UndoResume(k) \/ ResumeHook(k) \/ Restart(k)
       \/ Connect(k) \/ Serve(k) \/ Leave(k)
       \/ LookForRuns(k) \/ StopForPause(k) \/ HookForPause(k) \/ Pause(k)

Spec == Init /\ [][Next]_vars

------------------------------------------------------------------------------
(* Types of all the variables.                                             *)
TypeOK ==
  /\ row \in {"running", "over"} \union PauseStates
  /\ conns \in [Conn -> {"new", "joining", "live", "left", "stopping", "hooking", "pausing", "gone"}]
  /\ reg \in Conn \union {None}
  /\ doing \in [Conn -> {"idle", "ask", "hook", "stop", "end", "resume", "resumed", "restart"}]
  /\ about \in [Conn -> Msg \union {0}]
  /\ {entry, cont, turn} \subseteq Task \union {None}
  /\ queue \in Seq(Msg) /\ Len(queue) <= MaxQueued
  /\ task \in [Task -> [at : {"free", "look", "wait", "turn", "park"}, msg : Msg \union {0},
                        steps : 0 .. MaxSteps, to : PauseStates \union {None},
                        stopped : BOOLEAN]]
  /\ adrift \subseteq PauseStates \union {"running", "over"}
  /\ sent \in 0 .. MaxMsg
  /\ fate \in [Msg -> {"new", "queued", "given", "answered", "dropped"}]
  /\ given \in Seq(Msg)
  /\ late \subseteq Conn

(* "Every message that is accepted is either given to the runner or        *)
(* answered; none vanishes": one that is neither, and was not dropped by a *)
(* stop, is in the hands of a worker: its active message, or in the queue  *)
(* of an entry whose worker is there and was not stopped.                  *)
NoMessageVanishes ==
  \A m \in Msg :
    fate[m] = "queued" =>
      \/ \E t \in Task : task[t].msg = m
      \/ /\ \E i \in DOMAIN queue : queue[i] = m
         /\ entry # None /\ task[entry] # Free /\ Alive(entry)

(* "Turns on one run happen one at a time, in arrival order": the loop     *)
(* takes the messages in the order the device sent them, and each once.    *)
GivenInOrder ==
  \A i, j \in DOMAIN given : i < j => given[i] < given[j]

(* "A paused or cancelled run never keeps calling the model": when a cancel *)
(* ends the run, or a lost connection pauses it, every task that worked on *)
(* it is gone or was told to stop; only a device that came back meanwhile  *)
(* may have started another.                                               *)
NobodyWorksOn ==
  [][\A k \in Conn : CancelEnd(k) \/ (Pause(k) /\ k \notin late) =>
        \A t \in Task : task[t] = Free \/ ~Alive(t)]_vars
=============================================================================

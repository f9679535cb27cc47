----------------------------- MODULE ToolBroker ------------------------------
(***************************************************************************)
(* The tool calls of one run: backend/codeagent/broker.py with the callers *)
(* that open and end calls - the loop's batch (loop.py), the device's      *)
(* answers, the deadlines, and the cancel and disconnect handlers          *)
(* (run_handlers.py) of connections that come and go (ws.py).  The run's   *)
(* emitter is the line of tasks that wait for its lock.                    *)
(***************************************************************************)
EXTENDS Naturals, Sequences, FiniteSets

CONSTANTS Call,         \* the calls the model asks for, each with an id of its own
          Conn,         \* the connections of the device, one after another
          Parallel,     \* the loop's max_parallel_calls
          MaxInFlight,  \* the broker's max_in_flight
          Cancels,      \* whether the device may cancel the run
          Refusals      \* whether the store may refuse an event

ASSUME BrokerAssumption ==
  /\ {Parallel, MaxInFlight} \subseteq Nat \ {0}
  /\ {Cancels, Refusals} \subseteq BOOLEAN
  /\ IsFiniteSet(Call) /\ "none" \notin Conn

None == "none"
Status == {"ok", "error", "denied", "timeout", "disconnected", "cancelled"}
Answers == {"ok", "error"}

VARIABLES call,     \* the broker's table
          done,     \* each call's future
          waiter,   \* the loop's task for each call
          turn,     \* whether the run has a worker
          line,     \* the emits that wait for the run's lock, in order
          about,    \* the run's stream: its events of each call, in order
          latest,   \* the run's stream: the kind of its last event
          bound,    \* the emitter is bound
          row,      \* the run's row
          conns,    \* each connection
          reg,      \* the registered connection
          cancel,   \* the handler of `cancel`
          loose,    \* history: a device was back before its old connection was cleaned up,
                    \*          or a turn failed while calls of it were not over
          unheard   \* history: the store refused a tool_finished

table   == <<call, done>>
loop    == <<waiter, turn>>
stream  == <<about, latest>>
emitter == <<line, stream, bound>>
links   == <<conns, reg>>
history == <<loose, unheard>>
vars    == <<table, loop, emitter, row, links, cancel, history>>

Unknown == [at |-> "no", status |-> None, conn |-> None, timer |-> FALSE, denying |-> FALSE]

Init ==
  /\ call = [c \in Call |-> Unknown] /\ done = [c \in Call |-> "no"]
  /\ waiter = [c \in Call |-> "no"] /\ turn = FALSE
  /\ line = <<>> /\ about = [c \in Call |-> <<>>] /\ latest = None /\ bound = TRUE /\ row = "running"
  /\ \E k \in Conn : reg = k /\ conns = [j \in Conn |-> IF j = k THEN "live" ELSE "new"]
  /\ cancel = "no" /\ loose = FALSE /\ unheard = FALSE

\* An emit queues for the lock of the binding there is.
Emit(kind, of) == [t |-> kind, of |-> of, live |-> bound]
\* Unbound: whoever waits for the old binding's lock gives up.
Dead(queue) == [i \in DOMAIN queue |-> [queue[i] EXCEPT !.live = FALSE]]

Pending == {c \in Call : call[c].at = "open"}

------------------------------------------------------------------------------
(* Ending calls: the first to close a call wins.                           *)
Finish(c, binding) == [t |-> "finished", of |-> c, live |-> binding]
SeqsOf(S) == {s \in [1 .. Cardinality(S) -> S] : \A i, j \in DOMAIN s : s[i] = s[j] => i = j}

\* Fault: a call that has ended is ended again.
CloseAgain(calls, status, binding) ==
  /\ call' = [c \in Call |-> IF c \in calls
                THEN [call[c] EXCEPT !.at = "over", !.status = status, !.timer = FALSE]
                ELSE call[c]]
  /\ \E order \in SeqsOf(calls) :
       line' = line \o [i \in DOMAIN order |-> Finish(order[i], binding)]

Close(calls, status, binding) ==
  LET closed == calls \intersect Pending
  IN  /\ call' = [c \in Call |-> IF c \in closed
                    THEN [call[c] EXCEPT !.at = "over", !.status = status, !.timer = FALSE]
                    ELSE call[c]]
      /\ \E order \in SeqsOf(closed) :
           line' = line \o [i \in DOMAIN order |-> Finish(order[i], binding)]

------------------------------------------------------------------------------
(* The loop's batch: a task for each call, Parallel of them at a time.     *)
StartTurn ==
  /\ ~turn /\ row = "running" /\ reg # None /\ cancel = "no"
  /\ turn' = TRUE
  /\ UNCHANGED <<table, waiter, emitter, row, links, cancel, history>>

Waiting == {c \in Call : waiter[c] = "waits"}
Full == Cardinality(Pending) >= MaxInFlight

Propose(c) ==
  /\ turn /\ waiter[c] = "no" /\ Cardinality(Waiting) < Parallel
  /\ \/ /\ ~Full /\ reg # None
        /\ call' = [call EXCEPT ![c] = [Unknown EXCEPT !.at = "open", !.conn = reg]]
        /\ line' = Append(line, Emit("proposed", c))
        /\ waiter' = [waiter EXCEPT ![c] = "waits"]
     \/ /\ Full                                  \* TooManyCalls
        /\ waiter' = [waiter EXCEPT ![c] = "back"]
        /\ UNCHANGED <<call, line>>
     \/ /\ ~Full /\ reg = None                   \* the device is offline: never on the stream
        /\ waiter' = [waiter EXCEPT ![c] = "cut"]
        /\ UNCHANGED <<call, line>>
  /\ UNCHANGED <<done, turn, stream, bound, row, links, cancel, history>>

(* The call's task ends: with its outcome, or with an error that fails the *)
(* turn, when the proposal was refused or the outcome cannot be written.   *)
Hear(c) ==
  /\ waiter[c] = "waits" /\ done[c] # "no"
  /\ \E heard \in {"back", "cut", "failed"} :
       /\ heard = "cut" => call[c].status = "disconnected"
       /\ heard = "back" => call[c].status # "disconnected"
       /\ IF done[c] = "told" THEN heard = "failed" => Refusals ELSE heard = "failed"
       /\ waiter' = [waiter EXCEPT ![c] = heard]
  /\ UNCHANGED <<table, turn, emitter, row, links, cancel, history>>

\* The worker is cancelled, or fails: its calls stay with the broker.
Stopped ==
  /\ turn' = FALSE
  /\ waiter' = [c \in Call |-> IF turn /\ waiter[c] # "no" THEN "back" ELSE waiter[c]]

Failed == \E c \in Call : waiter[c] = "failed"
Untold == {c \in Call : call[c].at \in {"open", "over"} /\ done[c] = "no"}

(* _infrastructure_failure: an error ends the batch whatever else is open; *)
(* the run is paused, and announced as paused if a handler paused it too.  *)
TurnFails ==
  /\ turn /\ Failed
  /\ Stopped
  /\ row' = IF row = "running" THEN "paused" ELSE row
  /\ IF row = "over" THEN UNCHANGED line
                     ELSE line' = Append(line, Emit("paused", None))
  /\ loose' = (loose \/ Untold # {})
  /\ UNCHANGED <<table, stream, bound, links, cancel, unheard>>

\* The batch is done and a call of it was cut off: the loop pauses the run.
TurnPauses ==
  /\ turn /\ Waiting = {} /\ ~Failed /\ \E c \in Call : waiter[c] = "cut"
  /\ Stopped
  /\ IF row = "running" THEN row' = "paused" /\ line' = Append(line, Emit("paused", None))
                        ELSE UNCHANGED <<row, line>>     \* a handler paused it, or ended it
  /\ UNCHANGED <<table, stream, bound, links, cancel, history>>

TurnEnds ==
  /\ turn /\ Waiting = {} /\ \A c \in Call : waiter[c] \notin {"cut", "failed"}
  /\ Stopped
  /\ UNCHANGED <<table, emitter, row, links, cancel, history>>

------------------------------------------------------------------------------
(* The run's lock: the emits are served in the order they came.            *)
Served == Head(line)

Refused == ~Served.live \/ Refusals
StoredOf(c, kind) == about' = [about EXCEPT ![c] = Append(@, kind)] /\ latest' = "call"
StoredState(kind) == latest' = kind /\ UNCHANGED about

\* Fault: nobody starts the deadline.
ServeProposalUntimed ==
  LET c == Served.of
  IN  /\ line # <<>> /\ Served.t = "proposed"
      /\ line' = Tail(line)
      /\ IF Served.live THEN StoredOf(c, "proposed") ELSE UNCHANGED stream
      /\ UNCHANGED <<table, loop, bound, row, links, cancel, history>>

\* _open: the proposal is out and its deadline runs, or the call never existed.
ServeProposal ==
  LET c == Served.of
  IN  /\ line # <<>> /\ Served.t = "proposed"
      /\ line' = Tail(line)
      /\ \/ /\ Served.live
            /\ StoredOf(c, "proposed")
            /\ call' = [call EXCEPT ![c].timer = call[c].at = "open"]
            /\ UNCHANGED done
         \/ /\ Refused /\ call[c].at = "open"
            /\ call' = [call EXCEPT ![c] = [Unknown EXCEPT !.at = "dropped"]]
            /\ done' = [done EXCEPT ![c] = "raised"]
            /\ UNCHANGED stream
         \/ /\ Refused /\ call[c].at # "open"
            /\ UNCHANGED <<call, done, stream>>
      /\ UNCHANGED <<loop, bound, row, links, cancel, history>>

\* _announce: tool_finished, and only then the waiters.
ServeFinish ==
  LET c == Served.of
  IN  /\ line # <<>> /\ Served.t = "finished"
      /\ line' = Tail(line)
      /\ done' = [done EXCEPT ![c] = "told"]
      /\ \/ Served.live /\ StoredOf(c, call[c].status) /\ UNCHANGED unheard
         \/ Refused /\ unheard' = (unheard \/ Served.live) /\ UNCHANGED stream
      /\ UNCHANGED <<call, loop, bound, row, links, cancel, loose>>

\* A pause releases the run whatever the emit does.
ServePause ==
  /\ line # <<>> /\ Served.t = "paused"
  /\ bound' = FALSE /\ line' = Dead(Tail(line))
  /\ \/ Served.live /\ StoredState("paused")
     \/ Refused /\ UNCHANGED stream
  /\ conns' = [k \in Conn |-> IF k = Served.of THEN "paused" ELSE conns[k]]
  /\ UNCHANGED <<table, loop, row, reg, cancel, history>>

\* run.resume takes the run out of the pause, or finds it released.
ServeResume ==
  /\ line # <<>> /\ Served.t = "resumed"
  /\ line' = Tail(line)
  /\ IF Served.live /\ row = "paused"
       THEN row' = "running" /\ StoredState("running")
       ELSE UNCHANGED <<row, stream>>
  /\ UNCHANGED <<table, loop, bound, links, cancel, history>>

\* The end under the lock: the row, the buffer, the last event.
ServeEnd ==
  /\ line # <<>> /\ Served.t = "over"
  /\ cancel' = "done"
  /\ IF Served.live
       THEN /\ row' = "over" /\ StoredState("over")
            /\ bound' = FALSE /\ line' = Dead(Tail(line))
       ELSE /\ line' = Tail(line)               \* RunNotBound: nothing was cancelled
            /\ UNCHANGED <<row, stream, bound>>
  /\ UNCHANGED <<table, loop, links, history>>

------------------------------------------------------------------------------
(* The device's answers: one message of a connection at a time.            *)
Reads(k) == conns[k] = "live" /\ \A c \in Call : ~(call[c].denying /\ call[c].conn = k)

Proposed(c) == about[c] # <<>> /\ about[c][1] = "proposed"

\* A result or a decision on another connection than the call's closes it.
Result(k, c) ==
  /\ Reads(k) /\ Proposed(c) /\ c \in Pending
  /\ \E s \in Answers : Close({c}, IF k = call[c].conn THEN s ELSE "disconnected", bound)
  /\ UNCHANGED <<done, loop, stream, bound, row, links, cancel, history>>

\* A denial is reported to the loop first, which may take a while.
Deny(k, c) ==
  /\ Reads(k) /\ Proposed(c) /\ c \in Pending /\ k = call[c].conn
  /\ call' = [call EXCEPT ![c].denying = TRUE]
  /\ UNCHANGED <<done, loop, emitter, row, links, cancel, history>>

Denied(c) ==
  LET quiet == [call EXCEPT ![c].denying = FALSE]
  IN  /\ call[c].denying
      /\ IF call[c].at = "open"
           THEN /\ call' = [quiet EXCEPT ![c].at = "over", ![c].status = "denied", ![c].timer = FALSE]
                /\ line' = Append(line, Emit("finished", c))
           ELSE call' = quiet /\ UNCHANGED line
      /\ UNCHANGED <<done, loop, stream, bound, row, links, cancel, history>>

Expire(c) ==
  /\ call[c].timer
  /\ Close({c}, "timeout", bound)
  /\ UNCHANGED <<done, loop, stream, bound, row, links, cancel, history>>

------------------------------------------------------------------------------
(* Connections.                                                            *)
Connect(k) ==
  /\ conns[k] = "new"
  /\ loose' = (loose \/ \E j \in Conn : conns[j] \notin {"new", "done"})
  /\ reg' = k
  /\ conns' = [j \in Conn |-> IF j = k THEN "live" ELSE IF j = reg THEN "left" ELSE conns[j]]
  /\ UNCHANGED <<table, loop, emitter, row, cancel, unheard>>

\* The connection ends: its reader is cancelled, in a denial too.
Leave(k) ==
  /\ conns[k] = "live"
  /\ conns' = [conns EXCEPT ![k] = "left"] /\ reg' = None
  /\ call' = [c \in Call |-> IF call[c].conn = k THEN [call[c] EXCEPT !.denying = FALSE] ELSE call[c]]
  /\ UNCHANGED <<done, loop, emitter, row, cancel, history>>

\* on_disconnect: nothing for a superseded connection, or for a run in no slot.
LookForRuns(k) ==
  /\ conns[k] = "left"
  /\ conns' = [conns EXCEPT ![k] = IF reg = None /\ row = "running" THEN "stopping" ELSE "paused"]
  /\ UNCHANGED <<table, loop, emitter, row, reg, cancel, history>>

StopForPause(k) ==
  /\ conns[k] = "stopping"
  /\ conns' = [conns EXCEPT ![k] = "hook"]
  /\ bound' = TRUE
  /\ Stopped
  /\ UNCHANGED <<table, line, stream, row, reg, cancel, history>>

\* Fault: the hook leaves the calls to the listener, which comes after the pause.
CloseForPauseLater(k) ==
  /\ conns[k] = "hook"
  /\ conns' = [conns EXCEPT ![k] = "pause"]
  /\ UNCHANGED <<table, loop, emitter, row, reg, cancel, history>>

\* The broker's hook: the run's open calls of this device.
CloseForPause(k) ==
  /\ conns[k] = "hook"
  /\ conns' = [conns EXCEPT ![k] = "pause"]
  /\ Close(Call, "disconnected", bound)
  /\ UNCHANGED <<done, loop, stream, bound, row, reg, cancel, history>>

Pause(k) ==
  /\ conns[k] = "pause"
  /\ IF row = "running"
       THEN /\ row' = "paused" /\ line' = Append(line, Emit("paused", k))
            /\ conns' = [conns EXCEPT ![k] = "pausing"]
            /\ UNCHANGED bound
       ELSE /\ bound' = FALSE /\ line' = Dead(line)
            /\ conns' = [conns EXCEPT ![k] = "paused"]
            /\ UNCHANGED row
  /\ UNCHANGED <<table, loop, stream, reg, cancel, history>>

\* Fault: the broker does not listen to connections.
CleanUpLeaves(k) ==
  /\ conns[k] = "paused"
  /\ conns' = [conns EXCEPT ![k] = "done"]
  /\ UNCHANGED <<table, loop, emitter, row, reg, cancel, history>>

\* The router's next listener is the broker's: the calls of the connection.
CleanUp(k) ==
  /\ conns[k] = "paused"
  /\ conns' = [conns EXCEPT ![k] = "done"]
  /\ Close({c \in Call : call[c].conn = k}, "disconnected", bound)
  /\ UNCHANGED <<done, loop, stream, bound, row, reg, cancel, history>>

Resume ==
  /\ reg # None /\ row = "paused" /\ cancel = "no"
  /\ \A i \in DOMAIN line : line[i].t # "resumed"
  /\ bound' = TRUE
  /\ line' = Append(line, [t |-> "resumed", of |-> None, live |-> TRUE])
  /\ UNCHANGED <<table, loop, stream, row, links, cancel, history>>

------------------------------------------------------------------------------
(* on_cancel_request: hook, worker, end.                                   *)
CancelCalls ==
  /\ Cancels /\ cancel = "no" /\ reg # None /\ row # "over"
  /\ cancel' = "hooked"
  /\ bound' = TRUE                               \* _bind_for_end
  /\ Close(Call, "cancelled", TRUE)
  /\ UNCHANGED <<done, loop, stream, row, links, history>>

CancelTurn ==
  /\ cancel = "hooked"
  /\ cancel' = "stopped"
  /\ Stopped
  /\ UNCHANGED <<table, emitter, row, links, history>>

CancelRun ==
  /\ cancel = "stopped"
  /\ cancel' = "ending"
  /\ line' = Append(line, Emit("over", None))
  /\ UNCHANGED <<table, loop, stream, bound, row, links, history>>

------------------------------------------------------------------------------
Serve == ServeProposal \/ ServeFinish \/ ServePause \/ ServeResume \/ ServeEnd
Handlers(k) == LookForRuns(k) \/ StopForPause(k) \/ CloseForPause(k) \/ Pause(k) \/ CleanUp(k)

Next ==
  \/ StartTurn \/ TurnFails \/ TurnPauses \/ TurnEnds
  \/ \E c \in Call : Propose(c) \/ Hear(c) \/ Denied(c) \/ Expire(c)
  \/ Serve
  \/ \E k \in Conn : Connect(k) \/ Leave(k) \/ Handlers(k)
  \/ \E k \in Conn, c \in Call : Result(k, c) \/ Deny(k, c)
  \/ Resume
  \/ CancelCalls \/ CancelTurn \/ CancelRun

Spec == Init /\ [][Next]_vars

------------------------------------------------------------------------------
(* "A reconnect never silently revives an old call": when a connection is  *)
(* cleaned up, none of its calls is open.                                  *)
CallsEndWithConnection ==
  \A c \in Pending : conns[call[c].conn] # "done"

InLine(kind, c) == \E i \in DOMAIN line : line[i].t = kind /\ line[i].of = c

(* A call is never left to nobody: while it is open its deadline runs, or  *)
(* its proposal still waits for the run's lock and will start it; once it  *)
(* has ended its waiters were told, or tool_finished waits for the lock    *)
(* and will tell them.                                                     *)
NoCallIsStranded ==
  \A c \in Call :
    /\ call[c].at = "open" => call[c].timer \/ InLine("proposed", c)
    /\ call[c].at = "over" => done[c] = "told" \/ InLine("finished", c)

Finished(c) == \E i \in DOMAIN about[c] : about[c][i] # "proposed"

(* "Closes every open call of the run, so that event is numbered before    *)
(* the pause": whoever pauses the run, each call it proposed is finished   *)
(* in the stream before the pause.  Not claimed once a turn has failed     *)
(* over calls whose end was not told, a device was back before its old     *)
(* connection was cleaned up, or the store refused a tool_finished.        *)
PauseFinishesCalls ==
  latest = "paused" /\ ~loose /\ ~unheard => \A c \in Call : Proposed(c) => Finished(c)

Calls == INSTANCE ToolCalls WITH
           outcome <- [c \in Call |-> IF call[c].at = "over" THEN {call[c].status} ELSE {}],
           told    <- [c \in Call |-> done[c] # "no"]

(* One outcome, one tool_finished that says so, behind the proposal, and   *)
(* before the loop is told.                                                *)
ImplementsToolCalls == Calls!CallsSpec
==============================================================================

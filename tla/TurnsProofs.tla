------------------------------ MODULE TurnsProofs ------------------------------
(***************************************************************************)
(* What holds of the turns of a run for every number of tasks, connections *)
(* and messages: the proofs of the properties of Turns.                    *)
(***************************************************************************)
EXTENDS Turns, SequenceTheorems, TLAPS


(* Types of the variables the tasks and the messages are made of.          *)
Rows == {"running", "over"} \union PauseStates
TaskRecord == [at : {"free", "look", "wait", "turn", "park"}, msg : Msg \union {0},
               steps : 0 .. MaxSteps, to : PauseStates \union {None}, stopped : BOOLEAN]
Fates == {"new", "queued", "given", "answered", "dropped"}

(* A task that is there and was not told to stop is the run's worker or its *)
(* continuation, and a message a turn was taken for no longer waits.        *)
TaskFits(t) ==
  /\ task[t].at = "free" => task[t] = Free
  /\ task[t].at = "look" => task[t].msg # 0
  /\ task[t].at = "park" => task[t].to \in PauseStates
  /\ task[t].at # "free" /\ Alive(t) => t = (IF task[t].msg = 0 THEN cont ELSE entry)

TasksFit ==
  /\ \A t \in Task : TaskFits(t)
  /\ entry # None => task[entry].at # "free" /\ Alive(entry) /\ task[entry].msg # 0
  /\ cont # None => task[cont].at # "free" /\ Alive(cont) /\ task[cont].msg = 0
  /\ queue # <<>> => entry # None

(* One connection is served at a time, a handler runs for one that is       *)
(* served, and a handler that stopped the tasks finds them stopped.         *)
HandlersFit ==
  /\ \A j, k \in Conn : conns[j] = "live" /\ conns[k] = "live" => j = k
  /\ reg # None => conns[reg] \in {"joining", "live"}
  /\ \A k \in Conn :
       /\ conns[k] = "live" => reg # None
       /\ doing[k] # "idle" => conns[k] = "live"
       /\ doing[k] = "ask" <=> about[k] # 0
       /\ doing[k] \in {"stop", "end", "restart"} => cont = None
       /\ doing[k] = "end" => entry = None

(* A lost connection that pauses the run without the device being back is  *)
(* alone, and finds stopped what it stopped.                               *)
PausersFit ==
  \A k \in Pausing \ late :
    /\ reg = None
    /\ conns[k] \in {"hooking", "pausing"} => entry = None
    /\ conns[k] = "pausing" => cont = None

(* The messages come in the order they were sent: those given, the worker's *)
(* own, those in the queue, the one that is being accepted; none of them is *)
(* the next one the device will send.                                      *)
GivenBelow(m) == \A i \in 1 .. Len(given) : given[i] < m
QueueBelow(m) == \A i \in 1 .. Len(queue) : queue[i] < m
QueueAbove(m) == \A i \in 1 .. Len(queue) : m < queue[i]
Above(m) == GivenBelow(m) /\ QueueBelow(m) /\ \A t \in Task : task[t].msg < m

SentFits == Above(sent + 1) /\ \A k \in Conn : about[k] < sent + 1
AskedFits == \A k \in Conn : doing[k] = "ask" => Above(about[k])
Ordered ==
  /\ \A i, j \in 1 .. Len(given) : i < j => given[i] < given[j]
  /\ \A i, j \in 1 .. Len(queue) : i < j => queue[i] < queue[j]
  /\ \A i \in 1 .. Len(queue) : GivenBelow(queue[i])
  /\ entry # None => /\ QueueAbove(task[entry].msg)
                     /\ task[entry].at \in {"look", "wait"} => GivenBelow(task[entry].msg)

(* A message whose turn has begun does not wait, and one that waits is in   *)
(* the hands of a task or in the queue.                                    *)
FatesFit ==
  /\ \A t \in Task : task[t].at \in {"turn", "park"} /\ task[t].msg # 0
                       => fate[task[t].msg] # "queued"
  /\ \A m \in Msg : fate[m] = "queued" => \/ \E t \in Task : task[t].msg = m
                                          \/ \E i \in 1 .. Len(queue) : queue[i] = m

IInv == /\ TypeOK /\ TasksFit /\ HandlersFit /\ PausersFit
        /\ SentFits /\ AskedFits /\ Ordered /\ FatesFit

------------------------------------------------------------------------------
(* What one step does to the tasks, to the queue and to the row.           *)
Only(t) == task' \in [Task -> TaskRecord] /\ \A u \in Task \ {t} : task'[u] = task[u]
Holds(t, at) ==
  /\ Only(t) /\ task'[t].at = at
  /\ task'[t].msg = task[t].msg /\ task'[t].stopped = task[t].stopped

LEMMA NewType == ASSUME NEW m \in Msg \union {0} PROVE New(m) \in TaskRecord /\ Free \in TaskRecord
BY TurnsAssumption DEF TaskRecord, New, Free, PauseStates

LEMMA MoveAt ==
  ASSUME task \in [Task -> TaskRecord], NEW t \in Task, NEW at \in {"wait", "turn"},
         task' = [task EXCEPT ![t].at = at]
  PROVE  Holds(t, at)
BY DEF Holds, Only, TaskRecord

LEMMA CallFacts ==
  ASSUME task \in [Task -> TaskRecord], NEW t \in Task, Call(t)
  PROVE  Holds(t, "turn")
<1>1. task[t].steps + 1 \in 0 .. MaxSteps
  BY TurnsAssumption DEF Call, TaskRecord
<1> QED BY <1>1 DEF Call, TaskRecord, Holds, Only

LEMMA BeginParkFacts ==
  ASSUME task \in [Task -> TaskRecord], NEW t \in Task, BeginPark(t)
  PROVE  Holds(t, "park") /\ task'[t].to \in PauseStates
<1>1. PICK to \in PauseStates : task' = [task EXCEPT ![t].at = "park", ![t].to = to]
  BY DEF BeginPark
<1> QED BY <1>1 DEF TaskRecord, Holds, Only

(* stop_turns and _stop_task change the flag of one task, or of none.      *)
IsTold(t) ==
  /\ task' \in [Task -> TaskRecord]
  /\ \A u \in Task : u # t => task'[u] = task[u]
  /\ t # None => task'[t].at = task[t].at /\ task'[t].msg = task[t].msg
                  /\ task'[t].to = task[t].to /\ task'[t].stopped = TRUE
LEMMA ToldFacts ==
  ASSUME task \in [Task -> TaskRecord], NEW t \in Task \union {None}, task' = Told(t)
  PROVE  IsTold(t)
BY TurnsAssumption DEF IsTold, Told, TaskRecord

Shifts ==
  /\ queue # <<>> /\ queue[1] \in Msg /\ queue' \in Seq(Msg) /\ Len(queue') = Len(queue) - 1
  /\ Len(queue) \in Nat /\ \A i \in 1 .. Len(queue') : i + 1 \in 1 .. Len(queue)
       /\ queue'[i] = queue[i + 1]
LEMMA TailFacts ==
  ASSUME queue \in Seq(Msg), queue # <<>>, queue' = Tail(queue)
  PROVE  Shifts
<1>1. queue' \in Seq(Msg) /\ Len(queue') = Len(queue) - 1
  BY HeadTailProperties
<1>2. Len(queue) \in Nat /\ queue[1] \in Msg
  OBVIOUS
<1>3. \A i \in 1 .. Len(queue') : i + 1 \in 1 .. Len(queue) /\ queue'[i] = queue[i + 1]
  BY HeadTailProperties
<1> QED BY <1>1, <1>2, <1>3 DEF Shifts

(* The worker ends, or goes on to the first message that waits.            *)
NextFacts(t) ==
  /\ Only(t)
  /\ \/ /\ queue = <<>> /\ queue' = queue /\ task'[t] = Free
        /\ entry' = (IF entry = t THEN None ELSE entry)
     \/ Shifts /\ task'[t] = New(queue[1]) /\ entry' = entry
LEMMA NextMessageFacts ==
  ASSUME task \in [Task -> TaskRecord], queue \in Seq(Msg), NEW t \in Task, NextMessage(t)
  PROVE  NextFacts(t)
<1>1. CASE queue = <<>>
  BY <1>1, NewType DEF NextMessage, NextFacts, Only
<1>2. CASE queue # <<>>
  <2>1. Shifts
    BY <1>2, TailFacts DEF NextMessage
  <2>2. Head(queue) = queue[1]
    OBVIOUS
  <2> QED BY <1>2, <2>1, <2>2, NewType DEF NextMessage, NextFacts, Only, Shifts
<1> QED BY <1>1, <1>2

LEMMA MovedFacts == ASSUME row \in Rows, NEW to \in Rows, Moved(to) PROVE row' \in Rows
BY DEF Moved, Rows, PauseStates

(* A turn begins: the message is the model's.                              *)
Grows(m) ==
  /\ given' \in Seq(Msg) /\ Len(given) \in Nat /\ Len(given') = Len(given) + 1
  /\ \A i \in 1 .. Len(given) : given'[i] = given[i]
  /\ given'[Len(given) + 1] = m
TakesFacts(t) ==
  /\ Holds(t, "turn") /\ turn' = t /\ entry' = entry /\ queue' = queue
  /\ \/ task[t].msg = 0 /\ fate' = fate /\ given' = given
     \/ /\ task[t].msg \in Msg /\ Grows(task[t].msg)
        /\ fate' = [fate EXCEPT ![task[t].msg] = "given"]
LEMMA TakeTurnFacts ==
  ASSUME task \in [Task -> TaskRecord], given \in Seq(Msg), NEW t \in Task,
         TakeTurn(t, task[t].msg)
  PROVE  TakesFacts(t)
<1>1. task[t].msg \in Msg \union {0}
  BY DEF TaskRecord
<1>2. Holds(t, "turn")
  BY MoveAt DEF TakeTurn
<1>3. CASE task[t].msg = 0
  BY <1>2, <1>3 DEF TakeTurn, TakesFacts
<1>4. CASE task[t].msg # 0
  <2>1. given' = Append(given, task[t].msg) /\ task[t].msg \in Msg
    BY <1>1, <1>4 DEF TakeTurn
  <2>2. Grows(task[t].msg)
    BY <2>1, AppendProperties DEF Grows
  <2> QED BY <1>2, <1>4, <2>1, <2>2 DEF TakeTurn, TakesFacts
<1> QED BY <1>3, <1>4

LooksFacts(t) ==
  /\ UNCHANGED <<row, links, cont, adrift, sent, late>>
  /\ \/ TakesFacts(t)
     \/ Holds(t, "wait") /\ UNCHANGED <<entry, queue, turn, fate, given>>
     \/ /\ NextFacts(t) /\ UNCHANGED <<turn, given>>
        /\ fate' = [fate EXCEPT ![task[t].msg] = "answered"]
LEMMA LookFacts ==
  ASSUME task \in [Task -> TaskRecord], queue \in Seq(Msg), given \in Seq(Msg),
         NEW t \in Task, Look(t)
  PROVE  LooksFacts(t)
<1>1. ASSUME TakeTurn(t, task[t].msg) PROVE TakesFacts(t)
  BY <1>1, TakeTurnFacts
<1>2. ASSUME task' = [task EXCEPT ![t].at = "wait"] PROVE Holds(t, "wait")
  BY <1>2, MoveAt
<1>3. ASSUME NextMessage(t) PROVE NextFacts(t)
  BY <1>3, NextMessageFacts
<1> QED BY <1>1, <1>2, <1>3 DEF Look, LooksFacts

TurnOverFacts(t) ==
  /\ turn' = None
  /\ \/ /\ task[t].msg = 0 /\ Only(t) /\ task'[t] = Free
        /\ cont' = (IF cont = t THEN None ELSE cont) /\ entry' = entry /\ queue' = queue
     \/ task[t].msg # 0 /\ NextFacts(t) /\ cont' = cont
LEMMA TurnOversFacts ==
  ASSUME task \in [Task -> TaskRecord], queue \in Seq(Msg), NEW t \in Task, TurnOver(t)
  PROVE  TurnOverFacts(t)
<1>1. CASE task[t].msg = 0
  BY <1>1, NewType DEF TurnOver, TurnOverFacts, Only
<1>2. CASE task[t].msg # 0
  BY <1>2, NextMessageFacts DEF TurnOver, TurnOverFacts
<1> QED BY <1>1, <1>2

(* The two actions that start a task, and the one that takes it away.      *)
LEMMA StartFacts ==
  ASSUME task \in [Task -> TaskRecord], NEW t \in Task, NEW m \in Msg \union {0},
         task' = [task EXCEPT ![t] = New(m)]
  PROVE  Only(t) /\ task'[t] = New(m)
BY NewType DEF Only
LEMMA GoneFacts ==
  ASSUME task \in [Task -> TaskRecord], NEW t \in Task, task' = [task EXCEPT ![t] = Free]
  PROVE  Only(t) /\ task'[t] = Free
BY NewType DEF Only

------------------------------------------------------------------------------
(* The types.                                                              *)
LinkTypes ==
  /\ row \in Rows /\ adrift \subseteq Rows /\ sent \in 0 .. MaxMsg
  /\ conns \in [Conn -> {"new", "joining", "live", "left", "stopping", "hooking", "pausing",
                          "gone"}]
  /\ reg \in Conn \union {None} /\ late \subseteq Conn
  /\ doing \in [Conn -> {"idle", "ask", "hook", "stop", "end", "resume", "resumed",
                          "restart"}]
  /\ about \in [Conn -> Msg \union {0}]
MessageTypes ==
  /\ entry \in Task \union {None} /\ cont \in Task \union {None} /\ turn \in Task \union {None}
  /\ queue \in Seq(Msg) /\ Len(queue) <= MaxQueued
  /\ fate \in [Msg -> Fates] /\ given \in Seq(Msg)

LEMMA TypeParts ==
  /\ TypeOK <=> LinkTypes /\ MessageTypes /\ task \in [Task -> TaskRecord]
  /\ TypeOK' <=> LinkTypes' /\ MessageTypes' /\ task' \in [Task -> TaskRecord]
BY DEF TypeOK, Rows, TaskRecord, Fates, PauseStates, LinkTypes, MessageTypes

LEMMA TaskTypesStep ==
  ASSUME TypeOK, TasksFit, HandlersFit, Next
  PROVE  task' \in [Task -> TaskRecord]
<1>0. /\ task \in [Task -> TaskRecord] /\ queue \in Seq(Msg) /\ given \in Seq(Msg)
      /\ entry \in Task \union {None} /\ cont \in Task \union {None}
      /\ about \in [Conn -> Msg \union {0}] /\ 0 \in Msg \union {0}
  BY TypeParts DEF LinkTypes, MessageTypes
<1>1. ASSUME NEW t \in Task, Look(t) PROVE task' \in [Task -> TaskRecord]
  BY <1>1, <1>0, LookFacts DEF LooksFacts, TakesFacts, NextFacts, Holds, Only, tasks, messages
<1>2. ASSUME NEW t \in Task, Enter(t) PROVE task' \in [Task -> TaskRecord]
  BY <1>2, <1>0, TakeTurnFacts DEF Enter, TakesFacts, Holds, Only
<1>3. ASSUME NEW t \in Task, Call(t) PROVE task' \in [Task -> TaskRecord]
  BY <1>3, <1>0, CallFacts DEF Holds, Only
<1>4. ASSUME NEW t \in Task, Finish(t) PROVE task' \in [Task -> TaskRecord]
  BY <1>4, <1>0, TurnOversFacts DEF Finish, TurnOverFacts, NextFacts, Only, messages
<1>5. ASSUME NEW t \in Task, BeginPark(t) PROVE task' \in [Task -> TaskRecord]
  BY <1>5, <1>0, BeginParkFacts DEF Holds, Only
<1>6. ASSUME NEW t \in Task, Park(t) PROVE task' \in [Task -> TaskRecord]
  BY <1>6, <1>0, TurnOversFacts DEF Park, TurnOverFacts, NextFacts, Only, messages
<1>7. ASSUME NEW t \in Task, Unwind(t) PROVE task' \in [Task -> TaskRecord]
  BY <1>7, <1>0, GoneFacts DEF Unwind, Only
<1>8. ASSUME Land PROVE task' \in [Task -> TaskRecord]
  BY <1>8, <1>0 DEF Land, tasks
<1>9. ASSUME NEW k \in Conn, Ask(k) PROVE task' \in [Task -> TaskRecord]
  BY <1>9, <1>0 DEF Ask, tasks
<1>10. ASSUME NEW k \in Conn, Accept(k) PROVE task' \in [Task -> TaskRecord]
  BY <1>10, <1>0, StartFacts DEF Accept, Only
<1>11. ASSUME NEW k \in Conn, Cancel(k) PROVE task' \in [Task -> TaskRecord]
  BY <1>11, <1>0 DEF Cancel, tasks
<1>12. ASSUME NEW k \in Conn, CancelHook(k) PROVE task' \in [Task -> TaskRecord]
  BY <1>12, <1>0, ToldFacts DEF CancelHook, StopTask, IsTold
<1>13. ASSUME NEW k \in Conn, CancelStop(k) PROVE task' \in [Task -> TaskRecord]
  BY <1>13, <1>0, ToldFacts DEF CancelStop, StopTurns, IsTold
<1>14. ASSUME NEW k \in Conn, CancelEnd(k) PROVE task' \in [Task -> TaskRecord]
  BY <1>14, <1>0 DEF CancelEnd, tasks
<1>15. ASSUME NEW k \in Conn, Resume(k) PROVE task' \in [Task -> TaskRecord]
  BY <1>15, <1>0 DEF Resume, tasks
<1>16. ASSUME NEW k \in Conn, Resumed(k) PROVE task' \in [Task -> TaskRecord]
  BY <1>16, <1>0 DEF Resumed, tasks
<1>17. ASSUME NEW k \in Conn, UndoResume(k) PROVE task' \in [Task -> TaskRecord]
  BY <1>17, <1>0 DEF UndoResume, tasks
<1>18. ASSUME NEW k \in Conn, ResumeHook(k) PROVE task' \in [Task -> TaskRecord]
  BY <1>18, <1>0, ToldFacts DEF ResumeHook, StopTask, IsTold
<1>19. ASSUME NEW k \in Conn, Restart(k) PROVE task' \in [Task -> TaskRecord]
  BY <1>19, <1>0, StartFacts DEF Restart, Only
<1>20. ASSUME NEW k \in Conn, Connect(k) PROVE task' \in [Task -> TaskRecord]
  BY <1>20, <1>0 DEF Connect, links, tasks
<1>21. ASSUME NEW k \in Conn, Serve(k) PROVE task' \in [Task -> TaskRecord]
  BY <1>21, <1>0 DEF Serve, links, tasks
<1>22. ASSUME NEW k \in Conn, Leave(k) PROVE task' \in [Task -> TaskRecord]
  BY <1>22, <1>0 DEF Leave, tasks
<1>23. ASSUME NEW k \in Conn, LookForRuns(k) PROVE task' \in [Task -> TaskRecord]
  BY <1>23, <1>0 DEF LookForRuns, links, tasks
<1>24. ASSUME NEW k \in Conn, StopForPause(k) PROVE task' \in [Task -> TaskRecord]
  BY <1>24, <1>0, ToldFacts DEF StopForPause, StopTurns, IsTold, links, tasks, messages
<1>25. ASSUME NEW k \in Conn, HookForPause(k) PROVE task' \in [Task -> TaskRecord]
  BY <1>25, <1>0, ToldFacts DEF HookForPause, StopTask, IsTold, links, tasks
<1>26. ASSUME NEW k \in Conn, Pause(k) PROVE task' \in [Task -> TaskRecord]
  BY <1>26, <1>0 DEF Pause, links, tasks
<1> QED BY <1>1, <1>2, <1>3, <1>4, <1>5, <1>6, <1>7, <1>8, <1>9, <1>10, <1>11, <1>12, <1>13, <1>14,
      <1>15, <1>16, <1>17, <1>18, <1>19, <1>20, <1>21, <1>22, <1>23, <1>24, <1>25, <1>26 DEF Next,
        Work

LEMMA LeftBehindFacts ==
  /\ DOMAIN LeftBehind = {"end", "resume", "resumed"}
  /\ LeftBehind["end"] = "over" /\ LeftBehind["resume"] = "running"
  /\ LeftBehind["resumed"] = "paused"
BY DEF LeftBehind

LEMMA LinkTypesStep ==
  ASSUME TypeOK, TasksFit, HandlersFit, Next
  PROVE  LinkTypes'
<1>0. LinkTypes /\ task \in [Task -> TaskRecord] /\ queue \in Seq(Msg) /\ given \in Seq(Msg)
      /\ entry \in Task \union {None} /\ cont \in Task \union {None}
  BY TypeParts DEF MessageTypes
<1>1. ASSUME NEW t \in Task, Look(t) PROVE LinkTypes'
  BY <1>1, <1>0, LookFacts DEF LooksFacts, LinkTypes, links, tasks, messages
<1>2. ASSUME NEW t \in Task, Enter(t) PROVE LinkTypes'
  BY <1>2, <1>0, TakeTurnFacts DEF Enter, LinkTypes, links, messages
<1>3. ASSUME NEW t \in Task, Call(t) PROVE LinkTypes'
  BY <1>3, <1>0, CallFacts DEF Call, LinkTypes, links, messages
<1>4. ASSUME NEW t \in Task, Finish(t) PROVE LinkTypes'
  BY <1>4, <1>0, TurnOversFacts DEF Finish, LinkTypes, links, tasks, messages
<1>5. ASSUME NEW t \in Task, BeginPark(t) PROVE LinkTypes'
  BY <1>5, <1>0, BeginParkFacts DEF BeginPark, LinkTypes, links, messages
<1>6. ASSUME NEW t \in Task, Park(t) PROVE LinkTypes'
  BY <1>6, <1>0, MovedFacts, TurnOversFacts DEF Park, LinkTypes, Rows, TasksFit, TaskFits, links,
     tasks, messages
<1>7. ASSUME NEW t \in Task, Unwind(t) PROVE LinkTypes'
  <2>1. task[t].at = "park" => task[t].to \in Rows
    BY DEF TasksFit, TaskFits, Rows
  <2> QED BY <1>7, <1>0, <2>1 DEF Unwind, links, LinkTypes
<1>8. ASSUME Land PROVE LinkTypes'
  BY <1>8, <1>0, MovedFacts DEF Land, LinkTypes, links, tasks, messages
<1>9. ASSUME NEW k \in Conn, Ask(k) PROVE LinkTypes'
  <2>1. sent' \in 0 .. MaxMsg /\ sent' \in Msg /\ UNCHANGED <<row, adrift, conns, reg, late>>
    BY <1>9, <1>0, TurnsAssumption DEF Ask, LinkTypes, Msg
  <2>2. (doing' = doing /\ about' = about)
          \/ (doing' = [doing EXCEPT ![k] = "ask"] /\ about' = [about EXCEPT ![k] = sent'])
    BY <1>9 DEF Ask, At
  <2> QED BY <1>0, <2>1, <2>2 DEF LinkTypes
<1>10. ASSUME NEW k \in Conn, Accept(k) PROVE LinkTypes'
  BY <1>10, <1>0, StartFacts DEF Accept, At, LinkTypes
<1>11. ASSUME NEW k \in Conn, Cancel(k) PROVE LinkTypes'
  BY <1>11, <1>0 DEF Cancel, At, LinkTypes, links, messages
<1>12. ASSUME NEW k \in Conn, CancelHook(k) PROVE LinkTypes'
  BY <1>12, <1>0, ToldFacts DEF CancelHook, At, StopTask, IsTold, LinkTypes, links, tasks, messages
<1>13. ASSUME NEW k \in Conn, CancelStop(k) PROVE LinkTypes'
  BY <1>13, <1>0, ToldFacts DEF CancelStop, At, StopTurns, LinkTypes, messages
<1>14. ASSUME NEW k \in Conn, CancelEnd(k) PROVE LinkTypes'
  BY <1>14, <1>0 DEF CancelEnd, At, LinkTypes, Rows, links, messages
<1>15. ASSUME NEW k \in Conn, Resume(k) PROVE LinkTypes'
  BY <1>15, <1>0 DEF Resume, At, LinkTypes, links, messages
<1>16. ASSUME NEW k \in Conn, Resumed(k) PROVE LinkTypes'
  BY <1>16, <1>0, MovedFacts DEF Resumed, At, LinkTypes, Rows, links, messages
<1>17. ASSUME NEW k \in Conn, UndoResume(k) PROVE LinkTypes'
  BY <1>17, <1>0, MovedFacts DEF UndoResume, At, LinkTypes, Rows, PauseStates, links, messages
<1>18. ASSUME NEW k \in Conn, ResumeHook(k) PROVE LinkTypes'
  BY <1>18, <1>0, ToldFacts DEF ResumeHook, At, StopTask, LinkTypes, messages
<1>19. ASSUME NEW k \in Conn, Restart(k) PROVE LinkTypes'
  BY <1>19, <1>0, StartFacts DEF Restart, At, LinkTypes, messages
<1>20. ASSUME NEW k \in Conn, Connect(k) PROVE LinkTypes'
  BY <1>20, <1>0 DEF Connect, LinkTypes, Pausing, links, messages
<1>21. ASSUME NEW k \in Conn, Serve(k) PROVE LinkTypes'
  BY <1>21, <1>0 DEF Serve, LinkTypes, links, messages
<1>22. ASSUME NEW k \in Conn, Leave(k) PROVE LinkTypes'
  BY <1>22, <1>0, LeftBehindFacts DEF Leave, Aborted, LinkTypes, Rows, PauseStates, links, messages
<1>23. ASSUME NEW k \in Conn, LookForRuns(k) PROVE LinkTypes'
  BY <1>23, <1>0 DEF LookForRuns, LinkTypes, links, messages
<1>24. ASSUME NEW k \in Conn, StopForPause(k) PROVE LinkTypes'
  BY <1>24, <1>0, ToldFacts DEF StopForPause, StopTurns, LinkTypes
<1>25. ASSUME NEW k \in Conn, HookForPause(k) PROVE LinkTypes'
  BY <1>25, <1>0, ToldFacts DEF HookForPause, StopTask, LinkTypes, messages
<1>26. ASSUME NEW k \in Conn, Pause(k) PROVE LinkTypes'
  BY <1>26, <1>0, MovedFacts DEF Pause, LinkTypes, Rows, PauseStates, links, messages
<1> QED BY <1>1, <1>2, <1>3, <1>4, <1>5, <1>6, <1>7, <1>8, <1>9, <1>10, <1>11, <1>12, <1>13, <1>14,
      <1>15, <1>16, <1>17, <1>18, <1>19, <1>20, <1>21, <1>22, <1>23, <1>24, <1>25, <1>26 DEF Next,
        Work

LEMMA MessageTypesStep ==
  ASSUME TypeOK, TasksFit, HandlersFit, Next
  PROVE  MessageTypes'
<1>0. MessageTypes /\ task \in [Task -> TaskRecord] /\ about \in [Conn -> Msg \union {0}]
        /\ None \in Task \union {None}
      /\ sent \in 0 .. MaxMsg
  BY TypeParts DEF LinkTypes
<1>1. ASSUME NEW t \in Task, Look(t) PROVE MessageTypes'
  <2>1. LooksFacts(t) /\ task[t].msg \in Msg
    BY <1>1, <1>0, LookFacts DEF MessageTypes, TasksFit, TaskFits, Look, TaskRecord
  <2>2. CASE TakesFacts(t)
    BY <1>0, <2>1, <2>2 DEF LooksFacts, TakesFacts, MessageTypes, Fates, Grows
  <2>3. CASE UNCHANGED <<entry, queue, turn, fate, given>>
    BY <1>0, <2>1, <2>3 DEF LooksFacts, MessageTypes
  <2>4. CASE NextFacts(t) /\ UNCHANGED <<turn, given>>
               /\ fate' = [fate EXCEPT ![task[t].msg] = "answered"]
    BY <1>0, <2>1, <2>4, TurnsAssumption DEF LooksFacts, NextFacts, Shifts, MessageTypes, Fates
  <2> QED BY <2>1, <2>2, <2>3, <2>4 DEF LooksFacts
<1>2. ASSUME NEW t \in Task, Enter(t) PROVE MessageTypes'
  BY <1>2, <1>0, TakeTurnFacts DEF Enter, TakesFacts, MessageTypes, Fates, Grows, links, tasks,
     messages
<1>3. ASSUME NEW t \in Task, Call(t) PROVE MessageTypes'
  BY <1>3, <1>0, TurnsAssumption, CallFacts DEF Call, MessageTypes, tasks, messages
<1>4. ASSUME NEW t \in Task, Finish(t) PROVE MessageTypes'
  BY <1>4, <1>0, TurnsAssumption, TurnOversFacts DEF Finish, TurnOverFacts, NextFacts,
     MessageTypes, Shifts, links, tasks, messages
<1>5. ASSUME NEW t \in Task, BeginPark(t) PROVE MessageTypes'
  BY <1>5, <1>0, TurnsAssumption, BeginParkFacts DEF BeginPark, MessageTypes, tasks, messages
<1>6. ASSUME NEW t \in Task, Park(t) PROVE MessageTypes'
  BY <1>6, <1>0, TurnsAssumption, TurnOversFacts DEF Park, TurnOverFacts, NextFacts, Only,
     MessageTypes, Shifts, links, tasks, messages
<1>7. ASSUME NEW t \in Task, Unwind(t) PROVE MessageTypes'
  BY <1>7, <1>0, TurnsAssumption, GoneFacts DEF Unwind, MessageTypes, Fates
<1>8. ASSUME Land PROVE MessageTypes'
  BY <1>8, <1>0 DEF Land, MessageTypes, tasks, messages
<1>9. ASSUME NEW k \in Conn, Ask(k) PROVE MessageTypes'
  BY <1>9, <1>0, TurnsAssumption DEF Ask, MessageTypes, Fates, tasks
<1>10. ASSUME NEW k \in Conn, Accept(k) PROVE MessageTypes'
  <2>1. about[k] \in Msg /\ UNCHANGED <<cont, turn, given>>
    BY <1>10, <1>0 DEF Accept, HandlersFit
  <2>2. fate' \in [Msg -> Fates] /\ entry' \in Task \union {None}
    BY <1>10, <1>0 DEF Accept, Fates, MessageTypes
  <2>3. queue' \in Seq(Msg) /\ Len(queue') <= MaxQueued
    <3>1. CASE queue' = queue
      BY <1>0, <3>1 DEF MessageTypes
    <3>2. CASE queue' = Append(queue, about[k]) /\ ~Full
      <4>1. queue' \in Seq(Msg) /\ Len(queue') = Len(queue) + 1 /\ Len(queue) \in Nat
        BY <1>0, <2>1, <3>2 DEF MessageTypes
      <4> QED BY <3>2, <4>1, TurnsAssumption DEF Full
    <3> QED BY <1>10, <3>1, <3>2 DEF Accept
  <2> QED BY <1>0, <2>1, <2>2, <2>3 DEF MessageTypes
<1>11. ASSUME NEW k \in Conn, Cancel(k) PROVE MessageTypes'
  BY <1>11, <1>0, TurnsAssumption DEF Cancel, MessageTypes, tasks, messages
<1>12. ASSUME NEW k \in Conn, CancelHook(k) PROVE MessageTypes'
  BY <1>12, <1>0, TurnsAssumption, ToldFacts DEF CancelHook, StopTask, MessageTypes, tasks, messages
<1>13. ASSUME NEW k \in Conn, CancelStop(k) PROVE MessageTypes'
  BY <1>13, <1>0, TurnsAssumption, ToldFacts DEF CancelStop, StopTurns, MessageTypes, Fates, tasks,
     messages
<1>14. ASSUME NEW k \in Conn, CancelEnd(k) PROVE MessageTypes'
  BY <1>14, <1>0, TurnsAssumption DEF CancelEnd, MessageTypes, tasks, messages
<1>15. ASSUME NEW k \in Conn, Resume(k) PROVE MessageTypes'
  BY <1>15, <1>0, TurnsAssumption DEF Resume, MessageTypes, tasks, messages
<1>16. ASSUME NEW k \in Conn, Resumed(k) PROVE MessageTypes'
  BY <1>16, <1>0, TurnsAssumption DEF Resumed, MessageTypes, tasks, messages
<1>17. ASSUME NEW k \in Conn, UndoResume(k) PROVE MessageTypes'
  BY <1>17, <1>0, TurnsAssumption DEF UndoResume, MessageTypes, tasks, messages
<1>18. ASSUME NEW k \in Conn, ResumeHook(k) PROVE MessageTypes'
  BY <1>18, <1>0, TurnsAssumption, ToldFacts DEF ResumeHook, StopTask, MessageTypes, tasks, messages
<1>19. ASSUME NEW k \in Conn, Restart(k) PROVE MessageTypes'
  BY <1>19, <1>0, TurnsAssumption, StartFacts DEF Restart, MessageTypes, messages
<1>20. ASSUME NEW k \in Conn, Connect(k) PROVE MessageTypes'
  BY <1>20, <1>0 DEF Connect, MessageTypes, tasks, messages
<1>21. ASSUME NEW k \in Conn, Serve(k) PROVE MessageTypes'
  BY <1>21, <1>0 DEF Serve, MessageTypes, tasks, messages
<1>22. ASSUME NEW k \in Conn, Leave(k) PROVE MessageTypes'
  BY <1>22, <1>0, TurnsAssumption DEF Leave, Aborted, MessageTypes, Fates, links, tasks, messages
<1>23. ASSUME NEW k \in Conn, LookForRuns(k) PROVE MessageTypes'
  BY <1>23, <1>0 DEF LookForRuns, MessageTypes, tasks, messages
<1>24. ASSUME NEW k \in Conn, StopForPause(k) PROVE MessageTypes'
  BY <1>24, <1>0, TurnsAssumption, ToldFacts DEF StopForPause, StopTurns, MessageTypes, Fates,
     messages
<1>25. ASSUME NEW k \in Conn, HookForPause(k) PROVE MessageTypes'
  BY <1>25, <1>0, TurnsAssumption, ToldFacts DEF HookForPause, StopTask, MessageTypes, messages
<1>26. ASSUME NEW k \in Conn, Pause(k) PROVE MessageTypes'
  BY <1>26, <1>0 DEF Pause, MessageTypes, tasks, messages
<1> QED BY <1>1, <1>2, <1>3, <1>4, <1>5, <1>6, <1>7, <1>8, <1>9, <1>10, <1>11, <1>12, <1>13, <1>14,
      <1>15, <1>16, <1>17, <1>18, <1>19, <1>20, <1>21, <1>22, <1>23, <1>24, <1>25, <1>26 DEF Next,
        Work


------------------------------------------------------------------------------
(* The handlers, and the connections that pause the run.                   *)
LEMMA HandlersStep ==
  ASSUME TypeOK, TasksFit, HandlersFit, Next
  PROVE  HandlersFit'
<1>0. LinkTypes /\ task \in [Task -> TaskRecord] /\ queue \in Seq(Msg) /\ given \in Seq(Msg)
      /\ entry \in Task \union {None} /\ cont \in Task \union {None}
  BY TypeParts DEF MessageTypes
<1>1. ASSUME NEW t \in Task, Look(t) PROVE HandlersFit'
  BY <1>1, <1>0, TurnsAssumption, LookFacts DEF Look, LooksFacts, TakesFacts, NextFacts, Holds,
     Only, LinkTypes, HandlersFit, links, tasks, messages
<1>2. ASSUME NEW t \in Task, Enter(t) PROVE HandlersFit'
  BY <1>2, <1>0, TurnsAssumption, TakeTurnFacts DEF Enter, TakesFacts, Holds, Only, LinkTypes,
     HandlersFit, links, tasks, messages
<1>3. ASSUME NEW t \in Task, Call(t) PROVE HandlersFit'
  BY <1>3, <1>0, TurnsAssumption, CallFacts DEF Call, Alive, Holds, Only, LinkTypes, HandlersFit,
     links, tasks, messages
<1>4. ASSUME NEW t \in Task, Finish(t) PROVE HandlersFit'
  BY <1>4, <1>0, TurnsAssumption, TurnOversFacts DEF Finish, Alive, TurnOverFacts, NextFacts, Only,
     LinkTypes, HandlersFit, links, tasks, messages
<1>5. ASSUME NEW t \in Task, BeginPark(t) PROVE HandlersFit'
  BY <1>5 DEF BeginPark, links, HandlersFit
<1>6. ASSUME NEW t \in Task, Park(t) PROVE HandlersFit'
  BY <1>6, <1>0, TurnsAssumption, TurnOversFacts DEF Park, Alive, TurnOverFacts, NextFacts, Only,
     LinkTypes, HandlersFit, links, tasks, messages
<1>7. ASSUME NEW t \in Task, Unwind(t) PROVE HandlersFit'
  BY <1>7, <1>0, TurnsAssumption, GoneFacts DEF Unwind, Only, LinkTypes, HandlersFit, links, tasks,
     messages
<1>8. ASSUME Land PROVE HandlersFit'
  BY <1>8, <1>0, TurnsAssumption DEF Land, LinkTypes, HandlersFit, links, tasks, messages
<1>9. ASSUME NEW k \in Conn, Ask(k) PROVE HandlersFit'
  BY <1>9, <1>0, TurnsAssumption DEF Ask, At, LinkTypes, HandlersFit, links, tasks, messages
<1>10. ASSUME NEW k \in Conn, Accept(k) PROVE HandlersFit'
  BY <1>10, <1>0, TurnsAssumption, StartFacts DEF Accept, At, Only, LinkTypes, HandlersFit, links,
     tasks, messages
<1>11. ASSUME NEW k \in Conn, Cancel(k) PROVE HandlersFit'
  BY <1>11, <1>0, TurnsAssumption DEF Cancel, At, LinkTypes, HandlersFit, links, tasks, messages
<1>12. ASSUME NEW k \in Conn, CancelHook(k) PROVE HandlersFit'
  BY <1>12, <1>0, TurnsAssumption, ToldFacts DEF CancelHook, At, StopTask, IsTold, LinkTypes,
     HandlersFit, links, tasks, messages
<1>13. ASSUME NEW k \in Conn, CancelStop(k) PROVE HandlersFit'
  BY <1>13, <1>0, TurnsAssumption, ToldFacts DEF CancelStop, At, StopTurns, IsTold, LinkTypes,
     HandlersFit, links, tasks, messages
<1>14. ASSUME NEW k \in Conn, CancelEnd(k) PROVE HandlersFit'
  BY <1>14, <1>0, TurnsAssumption DEF CancelEnd, At, LinkTypes, HandlersFit, links, tasks, messages
<1>15. ASSUME NEW k \in Conn, Resume(k) PROVE HandlersFit'
  BY <1>15, <1>0, TurnsAssumption DEF Resume, At, LinkTypes, HandlersFit, links, tasks, messages
<1>16. ASSUME NEW k \in Conn, Resumed(k) PROVE HandlersFit'
  BY <1>16, <1>0, TurnsAssumption DEF Resumed, At, LinkTypes, HandlersFit, links, tasks, messages
<1>17. ASSUME NEW k \in Conn, UndoResume(k) PROVE HandlersFit'
  BY <1>17, <1>0, TurnsAssumption DEF UndoResume, At, LinkTypes, HandlersFit, links, tasks, messages
<1>18. ASSUME NEW k \in Conn, ResumeHook(k) PROVE HandlersFit'
  BY <1>18, <1>0, TurnsAssumption, ToldFacts DEF ResumeHook, At, StopTask, IsTold, LinkTypes,
     HandlersFit, links, tasks, messages
<1>19. ASSUME NEW k \in Conn, Restart(k) PROVE HandlersFit'
  BY <1>19, <1>0, TurnsAssumption, StartFacts DEF Restart, At, Only, LinkTypes, HandlersFit, links,
     tasks, messages
<1>20. ASSUME NEW k \in Conn, Connect(k) PROVE HandlersFit'
  BY <1>20, <1>0, TurnsAssumption DEF Connect, LinkTypes, HandlersFit, links, tasks, messages
<1>21. ASSUME NEW k \in Conn, Serve(k) PROVE HandlersFit'
  BY <1>21, <1>0, TurnsAssumption DEF Serve, LinkTypes, HandlersFit, links, tasks, messages
<1>22. ASSUME NEW k \in Conn, Leave(k) PROVE HandlersFit'
  BY <1>22, <1>0, TurnsAssumption DEF Leave, Aborted, LinkTypes, HandlersFit, links, tasks, messages
<1>23. ASSUME NEW k \in Conn, LookForRuns(k) PROVE HandlersFit'
  BY <1>23, <1>0, TurnsAssumption DEF LookForRuns, LinkTypes, HandlersFit, links, tasks, messages
<1>24. ASSUME NEW k \in Conn, StopForPause(k) PROVE HandlersFit'
  BY <1>24, <1>0, TurnsAssumption, ToldFacts DEF StopForPause, StopTurns, IsTold, LinkTypes,
     HandlersFit, links, tasks, messages
<1>25. ASSUME NEW k \in Conn, HookForPause(k) PROVE HandlersFit'
  BY <1>25, <1>0, TurnsAssumption, ToldFacts DEF HookForPause, StopTask, IsTold, LinkTypes,
     HandlersFit, links, tasks, messages
<1>26. ASSUME NEW k \in Conn, Pause(k) PROVE HandlersFit'
  BY <1>26, <1>0, TurnsAssumption DEF Pause, LinkTypes, HandlersFit, links, tasks, messages
<1> QED BY <1>1, <1>2, <1>3, <1>4, <1>5, <1>6, <1>7, <1>8, <1>9, <1>10, <1>11, <1>12, <1>13, <1>14,
      <1>15, <1>16, <1>17, <1>18, <1>19, <1>20, <1>21, <1>22, <1>23, <1>24, <1>25, <1>26 DEF Next,
        Work

LEMMA PausersStep ==
  ASSUME TypeOK, TasksFit, HandlersFit, PausersFit, Next
  PROVE  PausersFit'
<1>0. LinkTypes /\ task \in [Task -> TaskRecord] /\ queue \in Seq(Msg) /\ given \in Seq(Msg)
      /\ entry \in Task \union {None} /\ cont \in Task \union {None}
  BY TypeParts DEF MessageTypes
<1>1. ASSUME NEW t \in Task, Look(t) PROVE PausersFit'
  BY <1>1, <1>0, TurnsAssumption, LookFacts DEF Look, LooksFacts, TakesFacts, NextFacts, Holds,
     Only, LinkTypes, HandlersFit, PausersFit, Pausing, links, tasks, messages
<1>2. ASSUME NEW t \in Task, Enter(t) PROVE PausersFit'
  BY <1>2, <1>0, TurnsAssumption, TakeTurnFacts DEF Enter, TakesFacts, Holds, Only, LinkTypes,
     HandlersFit, PausersFit, Pausing, links, tasks, messages
<1>3. ASSUME NEW t \in Task, Call(t) PROVE PausersFit'
  BY <1>3, <1>0, TurnsAssumption, CallFacts DEF Call, Alive, Holds, Only, LinkTypes, HandlersFit,
     PausersFit, Pausing, links, tasks, messages
<1>4. ASSUME NEW t \in Task, Finish(t) PROVE PausersFit'
  BY <1>4, <1>0, TurnsAssumption, TurnOversFacts DEF Finish, Alive, TurnOverFacts, NextFacts, Only,
     LinkTypes, HandlersFit, PausersFit, Pausing, links, tasks, messages
<1>5. ASSUME NEW t \in Task, BeginPark(t) PROVE PausersFit'
  BY <1>5, <1>0, TurnsAssumption, BeginParkFacts DEF BeginPark, Alive, Holds, Only, LinkTypes,
     HandlersFit, PausersFit, Pausing, links, tasks, messages
<1>6. ASSUME NEW t \in Task, Park(t) PROVE PausersFit'
  BY <1>6, <1>0, TurnsAssumption, TurnOversFacts DEF Park, Alive, TurnOverFacts, NextFacts, Only,
     LinkTypes, HandlersFit, PausersFit, Pausing, links, tasks, messages
<1>7. ASSUME NEW t \in Task, Unwind(t) PROVE PausersFit'
  BY <1>7, <1>0, TurnsAssumption, GoneFacts DEF Unwind, Only, LinkTypes, HandlersFit, PausersFit,
     Pausing, links, tasks, messages
<1>8. ASSUME Land PROVE PausersFit'
  BY <1>8, <1>0, TurnsAssumption DEF Land, LinkTypes, HandlersFit, PausersFit, Pausing, links,
     tasks, messages
<1>9. ASSUME NEW k \in Conn, Ask(k) PROVE PausersFit'
  BY <1>9, <1>0, TurnsAssumption DEF Ask, At, LinkTypes, HandlersFit, PausersFit, Pausing, links,
     tasks, messages
<1>10. ASSUME NEW k \in Conn, Accept(k) PROVE PausersFit'
  BY <1>10, <1>0, TurnsAssumption, StartFacts DEF Accept, At, Only, LinkTypes, HandlersFit,
     PausersFit, Pausing, links, tasks, messages
<1>11. ASSUME NEW k \in Conn, Cancel(k) PROVE PausersFit'
  BY <1>11, <1>0, TurnsAssumption DEF Cancel, At, LinkTypes, HandlersFit, PausersFit, Pausing,
     links, tasks, messages
<1>12. ASSUME NEW k \in Conn, CancelHook(k) PROVE PausersFit'
  BY <1>12, <1>0, TurnsAssumption, ToldFacts DEF CancelHook, At, StopTask, IsTold, LinkTypes,
     HandlersFit, PausersFit, Pausing, links, tasks, messages
<1>13. ASSUME NEW k \in Conn, CancelStop(k) PROVE PausersFit'
  BY <1>13, <1>0, TurnsAssumption, ToldFacts DEF CancelStop, At, StopTurns, IsTold, LinkTypes,
     HandlersFit, PausersFit, Pausing, links, tasks, messages
<1>14. ASSUME NEW k \in Conn, CancelEnd(k) PROVE PausersFit'
  BY <1>14, <1>0, TurnsAssumption DEF CancelEnd, At, LinkTypes, HandlersFit, PausersFit, Pausing,
     links, tasks, messages
<1>15. ASSUME NEW k \in Conn, Resume(k) PROVE PausersFit'
  BY <1>15, <1>0, TurnsAssumption DEF Resume, At, LinkTypes, HandlersFit, PausersFit, Pausing,
     links, tasks, messages
<1>16. ASSUME NEW k \in Conn, Resumed(k) PROVE PausersFit'
  BY <1>16, <1>0, TurnsAssumption DEF Resumed, At, LinkTypes, HandlersFit, PausersFit, Pausing,
     links, tasks, messages
<1>17. ASSUME NEW k \in Conn, UndoResume(k) PROVE PausersFit'
  BY <1>17, <1>0, TurnsAssumption DEF UndoResume, At, LinkTypes, HandlersFit, PausersFit, Pausing,
     links, tasks, messages
<1>18. ASSUME NEW k \in Conn, ResumeHook(k) PROVE PausersFit'
  BY <1>18, <1>0, TurnsAssumption, ToldFacts DEF ResumeHook, At, StopTask, IsTold, LinkTypes,
     HandlersFit, PausersFit, Pausing, links, tasks, messages
<1>19. ASSUME NEW k \in Conn, Restart(k) PROVE PausersFit'
  BY <1>19, <1>0, TurnsAssumption, StartFacts DEF Restart, At, Only, LinkTypes, HandlersFit,
     PausersFit, Pausing, links, tasks, messages
<1>20. ASSUME NEW k \in Conn, Connect(k) PROVE PausersFit'
  BY <1>20, <1>0, TurnsAssumption DEF Connect, LinkTypes, HandlersFit, PausersFit, Pausing, links,
     tasks, messages
<1>21. ASSUME NEW k \in Conn, Serve(k) PROVE PausersFit'
  BY <1>21, <1>0, TurnsAssumption DEF Serve, LinkTypes, HandlersFit, PausersFit, Pausing, links,
     tasks, messages
<1>22. ASSUME NEW k \in Conn, Leave(k) PROVE PausersFit'
  BY <1>22, <1>0, TurnsAssumption DEF Leave, Aborted, LinkTypes, HandlersFit, PausersFit, Pausing,
     links, tasks, messages
<1>23. ASSUME NEW k \in Conn, LookForRuns(k) PROVE PausersFit'
  BY <1>23, <1>0, TurnsAssumption DEF LookForRuns, LinkTypes, HandlersFit, PausersFit, Pausing,
     links, tasks, messages
<1>24. ASSUME NEW k \in Conn, StopForPause(k) PROVE PausersFit'
  BY <1>24, <1>0, TurnsAssumption, ToldFacts DEF StopForPause, StopTurns, IsTold, LinkTypes,
     HandlersFit, PausersFit, Pausing, links, tasks, messages
<1>25. ASSUME NEW k \in Conn, HookForPause(k) PROVE PausersFit'
  BY <1>25, <1>0, TurnsAssumption, ToldFacts DEF HookForPause, StopTask, IsTold, LinkTypes,
     HandlersFit, PausersFit, Pausing, links, tasks, messages
<1>26. ASSUME NEW k \in Conn, Pause(k) PROVE PausersFit'
  BY <1>26, <1>0, TurnsAssumption DEF Pause, LinkTypes, HandlersFit, PausersFit, Pausing, links,
     tasks, messages
<1> QED BY <1>1, <1>2, <1>3, <1>4, <1>5, <1>6, <1>7, <1>8, <1>9, <1>10, <1>11, <1>12, <1>13, <1>14,
      <1>15, <1>16, <1>17, <1>18, <1>19, <1>20, <1>21, <1>22, <1>23, <1>24, <1>25, <1>26 DEF Next,
        Work

------------------------------------------------------------------------------
(* The tasks: one that goes on, one that ends, the next message, a stop    *)
(* and a start.                                                            *)
Typed == /\ task \in [Task -> TaskRecord] /\ queue \in Seq(Msg)
         /\ entry \in Task \union {None} /\ cont \in Task \union {None}
AtWork(t) == task[t].at # "free" /\ Alive(t)

LEMMA TasksHold ==
  ASSUME Typed, TasksFit, NEW t \in Task, AtWork(t), UNCHANGED <<entry, cont, queue>>,
         NEW at \in {"wait", "turn", "park"}, Holds(t, at),
         at = "park" => task'[t].to \in PauseStates
  PROVE  TasksFit'
<1>1. ASSUME NEW u \in Task, u # t PROVE TaskFits(u)'
  BY <1>1 DEF TasksFit, TaskFits, Alive, Holds, Only
<1>2. TaskFits(t)'
  BY DEF TasksFit, TaskFits, AtWork, Holds, TaskRecord
<1>3. (entry # None => task[entry].at # "free" /\ Alive(entry) /\ task[entry].msg # 0)'
  BY DEF TasksFit, Alive, Holds, Only, Typed
<1>4. (cont # None => task[cont].at # "free" /\ Alive(cont) /\ task[cont].msg = 0)'
  BY DEF TasksFit, Alive, Holds, Only, Typed
<1> QED BY <1>1, <1>2, <1>3, <1>4 DEF TasksFit

LEMMA TasksGone ==
  ASSUME Typed, TasksFit, NEW t \in Task, Only(t), task'[t] = Free, UNCHANGED queue,
         entry' = (IF entry = t THEN None ELSE entry), cont' = (IF cont = t THEN None ELSE cont),
         entry = t => queue = <<>>
  PROVE  TasksFit'
<1>1. ASSUME NEW u \in Task, u # t PROVE TaskFits(u)'
  BY <1>1 DEF TasksFit, TaskFits, Alive, Only
<1>2. TaskFits(t)'
  BY DEF TaskFits, Free, Alive
<1>3. (entry # None => task[entry].at # "free" /\ Alive(entry) /\ task[entry].msg # 0)'
  BY DEF TasksFit, Alive, Only, Typed
<1>4. (cont # None => task[cont].at # "free" /\ Alive(cont) /\ task[cont].msg = 0)'
  BY DEF TasksFit, Alive, Only, Typed
<1> QED BY <1>1, <1>2, <1>3, <1>4 DEF TasksFit

LEMMA TasksNext ==
  ASSUME Typed, TasksFit, NEW t \in Task, AtWork(t), task[t].msg # 0, NextFacts(t),
         UNCHANGED cont
  PROVE  TasksFit'
<1>1. t = entry /\ t # cont /\ t # None
  BY TurnsAssumption DEF TasksFit, TaskFits, AtWork
<1>2. CASE queue = <<>> /\ queue' = queue /\ task'[t] = Free
             /\ entry' = (IF entry = t THEN None ELSE entry)
  BY <1>1, <1>2, TasksGone DEF NextFacts
<1>3. CASE Shifts /\ task'[t] = New(queue[1]) /\ entry' = entry
  <2>0. queue[1] # 0
    BY <1>3 DEF Shifts, Msg
  <2>1. ASSUME NEW u \in Task, u # t PROVE TaskFits(u)'
    BY <2>1 DEF TasksFit, TaskFits, Alive, NextFacts, Only
  <2>2. TaskFits(t)'
    BY <1>1, <1>3, <2>0 DEF TaskFits, New
  <2>3. (entry # None => task[entry].at # "free" /\ Alive(entry) /\ task[entry].msg # 0)'
    BY <1>1, <1>3, <2>0 DEF Alive, New
  <2>4. (cont # None => task[cont].at # "free" /\ Alive(cont) /\ task[cont].msg = 0)'
    BY DEF TasksFit, Alive, NextFacts, Only, Typed
  <2> QED BY <1>1, <1>3, <2>1, <2>2, <2>3, <2>4 DEF TasksFit
<1> QED BY <1>2, <1>3 DEF NextFacts

LEMMA TasksStart ==
  ASSUME Typed, TasksFit, NEW t \in Task, NEW m \in Msg \union {0}, task[t] = Free,
         Only(t), task'[t] = New(m), UNCHANGED queue,
         IF m = 0 THEN cont = None /\ cont' = t /\ entry' = entry
                  ELSE entry = None /\ entry' = t /\ cont' = cont
  PROVE  TasksFit'
<1>0. task[t].at = "free" /\ entry # t /\ cont # t
  BY TurnsAssumption DEF TasksFit, Free
<1>1. ASSUME NEW u \in Task, u # t PROVE TaskFits(u)'
  BY <1>1, TurnsAssumption DEF TasksFit, TaskFits, Alive, Only
<1>2. TaskFits(t)'
  BY DEF TaskFits, New, Alive
<1>3. (entry # None => task[entry].at # "free" /\ Alive(entry) /\ task[entry].msg # 0)'
  BY <1>0 DEF TasksFit, Alive, Only, Typed, New
<1>4. (cont # None => task[cont].at # "free" /\ Alive(cont) /\ task[cont].msg = 0)'
  BY <1>0 DEF TasksFit, Alive, Only, Typed, New
<1> QED BY <1>1, <1>2, <1>3, <1>4 DEF TasksFit

LEMMA TasksTold ==
  ASSUME Typed, TasksFit, NEW t \in Task \union {None}, IsTold(t),
         \/ t = entry /\ entry' = None /\ cont' = cont /\ queue' = <<>>
         \/ t = cont /\ cont' = None /\ entry' = entry /\ queue' = queue
  PROVE  TasksFit'
<1>1. ASSUME NEW u \in Task PROVE TaskFits(u)'
  <2>1. CASE u = t
    BY TurnsAssumption DEF TasksFit, TaskFits, Alive, IsTold
  <2>2. CASE u # t
    BY <2>2 DEF TasksFit, TaskFits, Alive, IsTold
  <2> QED BY <2>1, <2>2
<1>2. (entry # None => task[entry].at # "free" /\ Alive(entry) /\ task[entry].msg # 0)'
  BY DEF TasksFit, Alive, IsTold, Typed
<1>3. (cont # None => task[cont].at # "free" /\ Alive(cont) /\ task[cont].msg = 0)'
  BY DEF TasksFit, Alive, IsTold, Typed
<1> QED BY <1>1, <1>2, <1>3 DEF TasksFit

LEMMA OverTasks ==
  ASSUME Typed, TasksFit, NEW t \in Task, AtWork(t), TurnOver(t)
  PROVE  TasksFit'
<1>1. TurnOverFacts(t)
  BY TurnOversFacts DEF Typed
<1>2. CASE task[t].msg = 0
  <2>1. entry # t
    BY <1>2, TurnsAssumption DEF TasksFit
  <2> QED BY <1>1, <1>2, <2>1, TasksGone DEF TurnOverFacts
<1>3. CASE task[t].msg # 0
  BY <1>1, <1>3, TasksNext DEF TurnOverFacts
<1> QED BY <1>2, <1>3

LEMMA TasksStep ==
  ASSUME TypeOK, TasksFit, HandlersFit, Next
  PROVE  TasksFit'
<1>0. Typed /\ MessageTypes /\ task \in [Task -> TaskRecord] /\ about \in [Conn -> Msg \union {0}]
        /\ 0 \in Msg \union {0}
  BY TypeParts DEF LinkTypes, MessageTypes, Typed
<1>1. ASSUME NEW t \in Task, Look(t) PROVE TasksFit'
  <2>1. LooksFacts(t) /\ AtWork(t) /\ task[t].msg # 0
    BY <1>1, <1>0, LookFacts DEF MessageTypes, TasksFit, TaskFits, Look, AtWork
  <2> QED BY <1>0, <2>1, TasksHold, TasksNext DEF LooksFacts, TakesFacts
<1>2. ASSUME NEW t \in Task, Enter(t) PROVE TasksFit'
  BY <1>2, <1>0, TakeTurnFacts, TasksHold DEF Enter, MessageTypes, TakesFacts, AtWork
<1>3. ASSUME NEW t \in Task, Call(t) PROVE TasksFit'
  BY <1>3, <1>0, CallFacts, TasksHold DEF Call, AtWork
<1>4. ASSUME NEW t \in Task, Finish(t) PROVE TasksFit'
  BY <1>4, <1>0, OverTasks DEF Finish, AtWork
<1>5. ASSUME NEW t \in Task, BeginPark(t) PROVE TasksFit'
  BY <1>5, <1>0, BeginParkFacts, TasksHold DEF BeginPark, AtWork
<1>6. ASSUME NEW t \in Task, Park(t) PROVE TasksFit'
  BY <1>6, <1>0, OverTasks DEF Park, AtWork
<1>7. ASSUME NEW t \in Task, Unwind(t) PROVE TasksFit'
  BY <1>7, <1>0, GoneFacts, TasksGone DEF Unwind, TasksFit, Alive
<1>8. ASSUME Land PROVE TasksFit'
  BY <1>8, <1>0 DEF Land, TasksFit, TaskFits, Alive, tasks
<1>9. ASSUME NEW k \in Conn, Ask(k) PROVE TasksFit'
  BY <1>9, <1>0 DEF Ask, TasksFit, TaskFits, Alive, tasks, messages
<1>10. ASSUME NEW k \in Conn, Accept(k) PROVE TasksFit'
  <2>1. about[k] \in Msg \union {0} /\ about[k] # 0 /\ cont' = cont
    BY <1>10, <1>0 DEF Accept, HandlersFit
  <2>2. CASE entry = None /\ UNCHANGED queue
    <3>1. PICK t \in Task : task[t] = Free /\ entry' = t
                 /\ task' = [task EXCEPT ![t] = New(about[k])]
      BY <1>10, <2>2 DEF Accept
    <3>2. Only(t) /\ task'[t] = New(about[k])
      BY <1>0, <3>1, StartFacts
    <3> QED BY <1>0, <2>1, <2>2, <3>1, <3>2, TasksStart
  <2>3. CASE entry # None /\ UNCHANGED <<entry, task>>
    BY <2>1, <2>3 DEF TasksFit, TaskFits, Alive
  <2> QED BY <1>10, <2>2, <2>3 DEF Accept
<1>11. ASSUME NEW k \in Conn, Cancel(k) PROVE TasksFit'
  BY <1>11, <1>0 DEF Cancel, TasksFit, TaskFits, Alive, tasks, messages
<1>12. ASSUME NEW k \in Conn, CancelHook(k) PROVE TasksFit'
  BY <1>12, <1>0, ToldFacts, TasksTold DEF CancelHook, StopTask, Typed
<1>13. ASSUME NEW k \in Conn, CancelStop(k) PROVE TasksFit'
  BY <1>13, <1>0, ToldFacts, TasksTold DEF CancelStop, StopTurns, Typed
<1>14. ASSUME NEW k \in Conn, CancelEnd(k) PROVE TasksFit'
  BY <1>14, <1>0 DEF CancelEnd, TasksFit, TaskFits, Alive, tasks, messages
<1>15. ASSUME NEW k \in Conn, Resume(k) PROVE TasksFit'
  BY <1>15, <1>0 DEF Resume, TasksFit, TaskFits, Alive, tasks, messages
<1>16. ASSUME NEW k \in Conn, Resumed(k) PROVE TasksFit'
  BY <1>16, <1>0 DEF Resumed, TasksFit, TaskFits, Alive, tasks, messages
<1>17. ASSUME NEW k \in Conn, UndoResume(k) PROVE TasksFit'
  BY <1>17, <1>0 DEF UndoResume, TasksFit, TaskFits, Alive, tasks, messages
<1>18. ASSUME NEW k \in Conn, ResumeHook(k) PROVE TasksFit'
  BY <1>18, <1>0, ToldFacts, TasksTold DEF ResumeHook, StopTask, Typed
<1>19. ASSUME NEW k \in Conn, Restart(k) PROVE TasksFit'
  BY <1>19, <1>0, StartFacts, TasksStart DEF Restart, HandlersFit
<1>20. ASSUME NEW k \in Conn, Connect(k) PROVE TasksFit'
  BY <1>20, <1>0 DEF Connect, TasksFit, TaskFits, Alive, links, tasks
<1>21. ASSUME NEW k \in Conn, Serve(k) PROVE TasksFit'
  BY <1>21, <1>0 DEF Serve, TasksFit, TaskFits, Alive, links, tasks
<1>22. ASSUME NEW k \in Conn, Leave(k) PROVE TasksFit'
  BY <1>22, <1>0 DEF Leave, TasksFit, TaskFits, Alive, tasks, messages
<1>23. ASSUME NEW k \in Conn, LookForRuns(k) PROVE TasksFit'
  BY <1>23, <1>0 DEF LookForRuns, TasksFit, TaskFits, Alive, links, tasks
<1>24. ASSUME NEW k \in Conn, StopForPause(k) PROVE TasksFit'
  BY <1>24, <1>0, ToldFacts, TasksTold DEF StopForPause, StopTurns, Typed
<1>25. ASSUME NEW k \in Conn, HookForPause(k) PROVE TasksFit'
  BY <1>25, <1>0, ToldFacts, TasksTold DEF HookForPause, StopTask, Typed
<1>26. ASSUME NEW k \in Conn, Pause(k) PROVE TasksFit'
  BY <1>26, <1>0 DEF Pause, TasksFit, TaskFits, Alive, links, tasks
<1> QED BY <1>1, <1>2, <1>3, <1>4, <1>5, <1>6, <1>7, <1>8, <1>9, <1>10, <1>11, <1>12, <1>13, <1>14,
      <1>15, <1>16, <1>17, <1>18, <1>19, <1>20, <1>21, <1>22, <1>23, <1>24, <1>25, <1>26 DEF Next,
        Work



------------------------------------------------------------------------------
(* The messages.  What an action may do to those that are there: a task    *)
(* takes the first of the queue, a turn takes a task's, a stop drops the   *)
(* queue, and only an accepted message is new among them.                  *)
Msgs == /\ task \in [Task -> TaskRecord] /\ queue \in Seq(Msg) /\ given \in Seq(Msg)
        /\ Len(queue) \in Nat /\ Len(given) \in Nat
Quiet ==
  /\ given' = given /\ queue' \in {queue, <<>>}
  /\ \A t \in Task : task'[t].msg \in {task[t].msg, 0}

LEMMA QuietHolds ==
  ASSUME NEW t \in Task, NEW at, Holds(t, at), UNCHANGED <<given, queue>>
  PROVE  Quiet
BY DEF Quiet, Holds, Only

LEMMA QuietGone ==
  ASSUME NEW t \in Task, Only(t), task'[t] = Free, UNCHANGED <<given, queue>>
  PROVE  Quiet
BY DEF Quiet, Free, Only

LEMMA QuietTold ==
  ASSUME NEW t \in Task \union {None}, IsTold(t), given' = given, queue' \in {queue, <<>>}
  PROVE  Quiet
BY TurnsAssumption DEF Quiet, IsTold

LEMMA AboveQuiet ==
  ASSUME NEW m \in Nat \ {0}, Msgs, Above(m), Quiet
  PROVE  Above(m)'
BY DEF Above, GivenBelow, QueueBelow, Quiet

LEMMA AboveTakes ==
  ASSUME NEW m \in Nat \ {0}, Msgs, Above(m), NEW t \in Task, TakesFacts(t)
  PROVE  Above(m)'
<1>1. \A u \in Task : task'[u].msg = task[u].msg
  BY DEF TakesFacts, Holds, Only
<1>2. GivenBelow(m)'
  <2>1. CASE given' = given
    BY <2>1 DEF Above, GivenBelow
  <2>2. CASE Grows(task[t].msg)
    BY <2>2 DEF Above, GivenBelow, Grows
  <2> QED BY <2>1, <2>2 DEF TakesFacts
<1> QED BY <1>1, <1>2 DEF Above, QueueBelow, TakesFacts

LEMMA AboveNext ==
  ASSUME NEW m \in Nat \ {0}, Msgs, Above(m), NEW t \in Task, NextFacts(t), given' = given
  PROVE  Above(m)'
<1>1. CASE UNCHANGED queue /\ task'[t] = Free
  BY <1>1, QuietGone, AboveQuiet DEF NextFacts
<1>2. CASE Shifts /\ task'[t] = New(queue[1])
  <2>1. \A u \in Task : task'[u].msg < m
    BY <1>2 DEF NextFacts, Only, New, Above, QueueBelow, Shifts
  <2>2. QueueBelow(m)'
    BY <1>2 DEF Above, QueueBelow, Shifts
  <2> QED BY <2>1, <2>2 DEF Above, GivenBelow
<1> QED BY <1>1, <1>2 DEF NextFacts

LEMMA AboveStep ==
  ASSUME TypeOK, TasksFit, NEW m \in Nat \ {0}, Above(m), Next,
         \A k \in Conn : Accept(k) => about[k] < m
  PROVE  Above(m)'
<1>0. Msgs /\ Typed /\ about \in [Conn -> Msg \union {0}] /\ 0 \in Msg \union {0}
  BY TypeParts DEF LinkTypes, Msgs, MessageTypes, Typed
<1>1. ASSUME NEW t \in Task, Look(t) PROVE Above(m)'
  <2>1. LooksFacts(t)
    BY <1>1, <1>0, LookFacts DEF Msgs
  <2> QED BY <1>0, <2>1, AboveTakes, AboveNext, QuietHolds, AboveQuiet DEF LooksFacts
<1>2. ASSUME NEW t \in Task, Enter(t) PROVE Above(m)'
  BY <1>2, <1>0, TakeTurnFacts, AboveTakes DEF Enter, Msgs
<1>3. ASSUME NEW t \in Task, Call(t) PROVE Above(m)'
  BY <1>3, <1>0, CallFacts, QuietHolds, AboveQuiet DEF Call, Msgs, messages
<1>4. ASSUME NEW t \in Task, Finish(t) PROVE Above(m)'
  <2>1. TurnOverFacts(t) /\ given' = given
    BY <1>4, <1>0, TurnOversFacts DEF Finish, Msgs, messages
  <2> QED BY <1>0, <2>1, AboveNext, QuietGone, AboveQuiet DEF TurnOverFacts
<1>5. ASSUME NEW t \in Task, BeginPark(t) PROVE Above(m)'
  BY <1>5, <1>0, BeginParkFacts, QuietHolds, AboveQuiet DEF BeginPark, Msgs, messages
<1>6. ASSUME NEW t \in Task, Park(t) PROVE Above(m)'
  <2>1. TurnOverFacts(t) /\ given' = given
    BY <1>6, <1>0, TurnOversFacts DEF Park, Msgs, messages
  <2> QED BY <1>0, <2>1, AboveNext, QuietGone, AboveQuiet DEF TurnOverFacts
<1>7. ASSUME NEW t \in Task, Unwind(t) PROVE Above(m)'
  BY <1>7, <1>0, GoneFacts, QuietGone, AboveQuiet DEF Unwind, Msgs
<1>8. ASSUME Land PROVE Above(m)'
  BY <1>8, <1>0, AboveQuiet DEF Land, Quiet, tasks, messages
<1>9. ASSUME NEW k \in Conn, Ask(k) PROVE Above(m)'
  BY <1>9, <1>0, AboveQuiet DEF Ask, Quiet, tasks
<1>10. ASSUME NEW k \in Conn, Accept(k) PROVE Above(m)'
  <2>1. about[k] \in Msg \union {0} /\ about[k] < m /\ given' = given
    BY <1>10, <1>0 DEF Accept
  <2>2. CASE UNCHANGED <<task, queue>>
    BY <1>0, <2>1, <2>2, AboveQuiet DEF Quiet
  <2>3. CASE UNCHANGED queue /\ \E t \in Task : task' = [task EXCEPT ![t] = New(about[k])]
    <3>1. PICK t \in Task : Only(t) /\ task'[t] = New(about[k])
      BY <1>0, <2>3, StartFacts DEF Msgs
    <3>2. \A u \in Task : task'[u].msg < m
      BY <2>1, <3>1 DEF Only, New, Above
    <3> QED BY <2>1, <2>3, <3>2 DEF Above, GivenBelow, QueueBelow
  <2>4. CASE UNCHANGED task /\ queue' = Append(queue, about[k])
    <3>1. QueueBelow(m)'
      BY <2>1, <2>4 DEF Above, QueueBelow
    <3> QED BY <2>1, <2>4, <3>1 DEF Above, GivenBelow
  <2> QED BY <1>10, <2>2, <2>3, <2>4 DEF Accept
<1>11. ASSUME NEW k \in Conn, Cancel(k) PROVE Above(m)'
  BY <1>11, <1>0, AboveQuiet DEF Cancel, Quiet, tasks, messages
<1>12. ASSUME NEW k \in Conn, CancelHook(k) PROVE Above(m)'
  BY <1>12, <1>0, ToldFacts, QuietTold, AboveQuiet DEF CancelHook, StopTask, Typed, messages
<1>13. ASSUME NEW k \in Conn, CancelStop(k) PROVE Above(m)'
  BY <1>13, <1>0, ToldFacts, QuietTold, AboveQuiet DEF CancelStop, StopTurns, Typed, messages
<1>14. ASSUME NEW k \in Conn, CancelEnd(k) PROVE Above(m)'
  BY <1>14, <1>0, AboveQuiet DEF CancelEnd, Quiet, tasks, messages
<1>15. ASSUME NEW k \in Conn, Resume(k) PROVE Above(m)'
  BY <1>15, <1>0, AboveQuiet DEF Resume, Quiet, tasks, messages
<1>16. ASSUME NEW k \in Conn, Resumed(k) PROVE Above(m)'
  BY <1>16, <1>0, AboveQuiet DEF Resumed, Quiet, tasks, messages
<1>17. ASSUME NEW k \in Conn, UndoResume(k) PROVE Above(m)'
  BY <1>17, <1>0, AboveQuiet DEF UndoResume, Quiet, tasks, messages
<1>18. ASSUME NEW k \in Conn, ResumeHook(k) PROVE Above(m)'
  BY <1>18, <1>0, ToldFacts, QuietTold, AboveQuiet DEF ResumeHook, StopTask, Typed, messages
<1>19. ASSUME NEW k \in Conn, Restart(k) PROVE Above(m)'
  <2>1. PICK t \in Task : Only(t) /\ task'[t] = New(0)
    BY <1>19, <1>0, StartFacts DEF Restart, Msgs
  <2> QED BY <1>19, <1>0, <2>1, AboveQuiet DEF Restart, messages, Quiet, Only, New
<1>20. ASSUME NEW k \in Conn, Connect(k) PROVE Above(m)'
  BY <1>20, <1>0, AboveQuiet DEF Connect, Quiet, links, tasks, messages
<1>21. ASSUME NEW k \in Conn, Serve(k) PROVE Above(m)'
  BY <1>21, <1>0, AboveQuiet DEF Serve, Quiet, links, tasks, messages
<1>22. ASSUME NEW k \in Conn, Leave(k) PROVE Above(m)'
  BY <1>22, <1>0, AboveQuiet DEF Leave, Quiet, tasks
<1>23. ASSUME NEW k \in Conn, LookForRuns(k) PROVE Above(m)'
  BY <1>23, <1>0, AboveQuiet DEF LookForRuns, Quiet, links, tasks, messages
<1>24. ASSUME NEW k \in Conn, StopForPause(k) PROVE Above(m)'
  BY <1>24, <1>0, ToldFacts, QuietTold, AboveQuiet DEF StopForPause, StopTurns, Typed, messages
<1>25. ASSUME NEW k \in Conn, HookForPause(k) PROVE Above(m)'
  BY <1>25, <1>0, ToldFacts, QuietTold, AboveQuiet DEF HookForPause, StopTask, Typed, messages
<1>26. ASSUME NEW k \in Conn, Pause(k) PROVE Above(m)'
  BY <1>26, <1>0, AboveQuiet DEF Pause, Quiet, links, tasks, messages
<1> QED BY <1>1, <1>2, <1>3, <1>4, <1>5, <1>6, <1>7, <1>8, <1>9, <1>10, <1>11, <1>12, <1>13, <1>14,
      <1>15, <1>16, <1>17, <1>18, <1>19, <1>20, <1>21, <1>22, <1>23, <1>24, <1>25, <1>26 DEF Next,
        Work

(* Only a new message changes how many were sent, or is being accepted.    *)
Later ==
  /\ sent' = sent
  /\ \A j \in Conn : /\ about'[j] \in {about[j], 0}
                     /\ doing'[j] = "ask" => doing[j] = "ask" /\ about'[j] = about[j]

LEMMA LaterStep ==
  ASSUME TypeOK, Next
  PROVE  Later \/ \E j \in Conn : Ask(j)
<1>0. LinkTypes
  BY TypeParts
<1>1. ASSUME NEW t \in Task, Look(t) PROVE Later \/ \E j \in Conn : Ask(j)
  BY <1>1 DEF Look, Later, links, messages
<1>2. ASSUME NEW t \in Task, Enter(t) PROVE Later \/ \E j \in Conn : Ask(j)
  BY <1>2 DEF Enter, Later, links, messages
<1>3. ASSUME NEW t \in Task, Call(t) PROVE Later \/ \E j \in Conn : Ask(j)
  BY <1>3 DEF Call, Later, links, messages
<1>4. ASSUME NEW t \in Task, Finish(t) PROVE Later \/ \E j \in Conn : Ask(j)
  BY <1>4 DEF Finish, Later, links, messages
<1>5. ASSUME NEW t \in Task, BeginPark(t) PROVE Later \/ \E j \in Conn : Ask(j)
  BY <1>5 DEF BeginPark, Later, links, messages
<1>6. ASSUME NEW t \in Task, Park(t) PROVE Later \/ \E j \in Conn : Ask(j)
  BY <1>6 DEF Park, Later, links, messages
<1>7. ASSUME NEW t \in Task, Unwind(t) PROVE Later \/ \E j \in Conn : Ask(j)
  BY <1>7 DEF Unwind, Later, links, messages
<1>8. ASSUME Land PROVE Later \/ \E j \in Conn : Ask(j)
  BY <1>8, <1>0 DEF Land, Later, links, messages
<1>9. ASSUME NEW k \in Conn, Ask(k) PROVE Later \/ \E j \in Conn : Ask(j)
  BY <1>9
<1>10. ASSUME NEW k \in Conn, Accept(k) PROVE Later \/ \E j \in Conn : Ask(j)
  BY <1>10, <1>0, StartFacts DEF Accept, At, LinkTypes, Later, messages
<1>11. ASSUME NEW k \in Conn, Cancel(k) PROVE Later \/ \E j \in Conn : Ask(j)
  BY <1>11, <1>0 DEF Cancel, At, Later, messages
<1>12. ASSUME NEW k \in Conn, CancelHook(k) PROVE Later \/ \E j \in Conn : Ask(j)
  BY <1>12, <1>0 DEF CancelHook, StopTask, At, Later, messages
<1>13. ASSUME NEW k \in Conn, CancelStop(k) PROVE Later \/ \E j \in Conn : Ask(j)
  BY <1>13 DEF CancelStop, StopTurns, At, Later
<1>14. ASSUME NEW k \in Conn, CancelEnd(k) PROVE Later \/ \E j \in Conn : Ask(j)
  BY <1>14, <1>0 DEF CancelEnd, At, Later, messages
<1>15. ASSUME NEW k \in Conn, Resume(k) PROVE Later \/ \E j \in Conn : Ask(j)
  BY <1>15, <1>0 DEF Resume, At, Later, messages
<1>16. ASSUME NEW k \in Conn, Resumed(k) PROVE Later \/ \E j \in Conn : Ask(j)
  BY <1>16, <1>0 DEF Resumed, At, Later, messages
<1>17. ASSUME NEW k \in Conn, UndoResume(k) PROVE Later \/ \E j \in Conn : Ask(j)
  BY <1>17, <1>0 DEF UndoResume, At, Later, messages
<1>18. ASSUME NEW k \in Conn, ResumeHook(k) PROVE Later \/ \E j \in Conn : Ask(j)
  BY <1>18, <1>0 DEF ResumeHook, StopTask, At, Later, messages
<1>19. ASSUME NEW k \in Conn, Restart(k) PROVE Later \/ \E j \in Conn : Ask(j)
  BY <1>19, <1>0, StartFacts DEF Restart, At, Later, messages
<1>20. ASSUME NEW k \in Conn, Connect(k) PROVE Later \/ \E j \in Conn : Ask(j)
  BY <1>20, <1>0 DEF Connect, Later, messages
<1>21. ASSUME NEW k \in Conn, Serve(k) PROVE Later \/ \E j \in Conn : Ask(j)
  BY <1>21, <1>0 DEF Serve, Later, messages
<1>22. ASSUME NEW k \in Conn, Leave(k) PROVE Later \/ \E j \in Conn : Ask(j)
  BY <1>22, <1>0 DEF Leave, Aborted, LinkTypes, Later, links
<1>23. ASSUME NEW k \in Conn, LookForRuns(k) PROVE Later \/ \E j \in Conn : Ask(j)
  BY <1>23, <1>0 DEF LookForRuns, Later, messages
<1>24. ASSUME NEW k \in Conn, StopForPause(k) PROVE Later \/ \E j \in Conn : Ask(j)
  BY <1>24 DEF StopForPause, StopTurns, Later
<1>25. ASSUME NEW k \in Conn, HookForPause(k) PROVE Later \/ \E j \in Conn : Ask(j)
  BY <1>25 DEF HookForPause, StopTask, Later, messages
<1>26. ASSUME NEW k \in Conn, Pause(k) PROVE Later \/ \E j \in Conn : Ask(j)
  BY <1>26, <1>0 DEF Pause, Later, messages
<1> QED BY <1>1, <1>2, <1>3, <1>4, <1>5, <1>6, <1>7, <1>8, <1>9, <1>10, <1>11, <1>12, <1>13, <1>14,
      <1>15, <1>16, <1>17, <1>18, <1>19, <1>20, <1>21, <1>22, <1>23, <1>24, <1>25, <1>26 DEF Next,
        Work

LEMMA AskFacts ==
  ASSUME TypeOK, NEW k \in Conn, Ask(k)
  PROVE  /\ sent \in Nat /\ sent' = sent + 1 /\ UNCHANGED <<task, queue, given, entry>>
         /\ about \in [Conn -> Nat] /\ about'[k] \in {about[k], sent'}
         /\ doing'[k] = "ask" => about'[k] = sent'
         /\ \A j \in Conn \ {k} : about'[j] = about[j] /\ doing'[j] = doing[j]
<1>1. LinkTypes /\ sent \in Nat /\ about \in [Conn -> Nat]
  BY TypeParts DEF LinkTypes, Msg
<1> QED BY <1>1 DEF Ask, At, LinkTypes, tasks

LEMMA SentStep ==
  ASSUME TypeOK, TasksFit, SentFits, Next
  PROVE  SentFits'
<1>0. sent \in Nat /\ about \in [Conn -> Nat]
  BY TypeParts DEF LinkTypes, Msg
<1>1. CASE Later
  <2>1. PICK m \in Nat \ {0} : m = sent + 1
    BY <1>0
  <2>2. Above(m)'
    BY <2>1, AboveStep DEF SentFits
  <2> QED BY <1>0, <1>1, <2>1, <2>2 DEF SentFits, Later, Above, GivenBelow, QueueBelow
<1>2. ASSUME NEW k \in Conn, Ask(k) PROVE SentFits'
  <2>0. Msgs
    BY TypeParts DEF Msgs, MessageTypes
  <2>1. /\ sent' = sent + 1 /\ UNCHANGED <<task, queue, given>>
        /\ \A j \in Conn : about'[j] < sent' + 1
    BY <1>2, AskFacts DEF SentFits
  <2>2. (\A i \in 1 .. Len(given) : given[i] \in Nat)
          /\ (\A i \in 1 .. Len(queue) : queue[i] \in Nat)
        /\ \A t \in Task : task[t].msg \in Nat
    BY <2>0, TurnsAssumption DEF Msgs, Msg, TaskRecord
  <2> QED BY <1>0, <2>0, <2>1, <2>2 DEF SentFits, Above, GivenBelow, QueueBelow
<1> QED BY <1>1, <1>2, LaterStep

LEMMA AskedStep ==
  ASSUME TypeOK, TasksFit, HandlersFit, SentFits, AskedFits, Next
  PROVE  AskedFits'
<1>0. sent \in Nat /\ about \in [Conn -> Nat]
        /\ doing \in [Conn -> {"idle", "ask", "hook", "stop", "end", "resume", "resumed",
                               "restart"}]
  BY TypeParts DEF LinkTypes, Msg
<1>1. ASSUME Later, NEW j \in Conn, doing'[j] = "ask" PROVE Above(about[j])'
  <2>1. PICK m \in Nat \ {0} : m = about[j]
    BY <1>0, <1>1 DEF HandlersFit, Later
  <2>2. ASSUME NEW k \in Conn, Accept(k) PROVE FALSE
    BY <1>0, <1>1, <2>2 DEF Accept, At, HandlersFit, Later
  <2>3. Above(m)'
    BY <1>1, <2>1, <2>2, AboveStep DEF AskedFits, Later
  <2> QED BY <1>1, <2>1, <2>3 DEF Later, Above, GivenBelow, QueueBelow
<1>2. ASSUME NEW k \in Conn, Ask(k), NEW j \in Conn, doing'[j] = "ask" PROVE Above(about[j])'
  <2>1. about'[j] = sent + 1 \/ (doing[j] = "ask" /\ about'[j] = about[j])
    BY <1>2, AskFacts
  <2>2. UNCHANGED <<task, queue, given>>
    BY <1>2, AskFacts
  <2> QED BY <2>1, <2>2 DEF SentFits, AskedFits, Above, GivenBelow, QueueBelow
<1> QED BY <1>1, <1>2, LaterStep DEF AskedFits

------------------------------------------------------------------------------
(* The order.  Calm is a step that takes, queues and starts nothing.       *)
Calm ==
  /\ given' = given /\ queue' \in {queue, <<>>}
  /\ entry' # None => /\ entry' = entry /\ task'[entry].msg = task[entry].msg
                      /\ task'[entry].at \in {"look", "wait"} => task[entry].at \in {"look", "wait"}

LEMMA OrderedCalm == ASSUME Msgs, Ordered, Calm PROVE Ordered'
BY DEF Ordered, Calm, GivenBelow, QueueAbove

LEMMA CalmHolds ==
  ASSUME Typed, NEW t \in Task, UNCHANGED <<given, queue, entry>>,
         NEW at \in {"wait", "turn", "park"}, Holds(t, at), at = "wait" => task[t].at = "look"
  PROVE  Calm
BY DEF Calm, Holds, Only, Typed

LEMMA CalmGone ==
  ASSUME Typed, NEW t \in Task, UNCHANGED <<given, queue>>, Only(t), t # entry \/ entry' = None,
         entry' # None => entry' = entry
  PROVE  Calm
BY DEF Calm, Only, Typed

LEMMA CalmTold ==
  ASSUME Typed, NEW t \in Task \union {None}, given' = given, IsTold(t),
         \/ entry' = None /\ queue' = <<>>
         \/ entry' = entry /\ queue' = queue /\ (entry # None => t # entry)
  PROVE  Calm
BY DEF Calm, IsTold, Typed

LEMMA OrderedTakes ==
  ASSUME Msgs, Typed, TasksFit, Ordered, NEW t \in Task, AtWork(t), TakesFacts(t),
         task[t].at \in {"look", "wait"}
  PROVE  Ordered'
<1>1. CASE given' = given
  <2>1. Calm
    BY <1>1 DEF Calm, TakesFacts, Holds, Only, Typed
  <2> QED BY <2>1, OrderedCalm
<1>2. CASE task[t].msg \in Msg /\ Grows(task[t].msg)
  <2>1. t = entry /\ t # None /\ entry' = entry /\ queue' = queue
    BY <1>2, TurnsAssumption DEF TasksFit, TaskFits, AtWork, TakesFacts, Msg
  <2>2. task'[t].msg = task[t].msg /\ task'[t].at = "turn" /\ task[t].msg \in Nat
    BY DEF TakesFacts, Holds, Msg
  <2>3. GivenBelow(task[t].msg) /\ QueueAbove(task[t].msg)
    BY <2>1 DEF Ordered
  <2>4. \A i, j \in 1 .. Len(given') : i < j => given'[i] < given'[j]
    BY <1>2, <2>3 DEF Ordered, Grows, GivenBelow
  <2>5. \A i \in 1 .. Len(queue) : GivenBelow(queue[i])'
    BY <1>2, <2>1 DEF Ordered, Grows, GivenBelow, QueueAbove
  <2> QED BY <2>1, <2>2, <2>3, <2>4, <2>5 DEF Ordered, QueueAbove
<1> QED BY <1>1, <1>2 DEF TakesFacts

LEMMA OrderedNext ==
  ASSUME Msgs, Typed, TasksFit, Ordered, NEW t \in Task, AtWork(t), task[t].msg # 0,
         NextFacts(t), given' = given
  PROVE  Ordered'
<1>1. t = entry /\ t # None
  BY TurnsAssumption DEF TasksFit, TaskFits, AtWork
<1>2. CASE UNCHANGED queue /\ entry' = (IF entry = t THEN None ELSE entry)
  BY <1>2, CalmGone, OrderedCalm DEF NextFacts
<1>3. CASE Shifts /\ task'[t] = New(queue[1]) /\ entry' = entry
  <2>1. task'[entry].msg = queue[1] /\ GivenBelow(queue[1]) /\ 1 \in 1 .. Len(queue)
    BY <1>1, <1>3 DEF New, Ordered, Shifts
  <2>2. \A i, j \in 1 .. Len(queue') : i < j => queue'[i] < queue'[j]
    BY <1>3 DEF Ordered, Shifts
  <2>3. \A i \in 1 .. Len(queue') : GivenBelow(queue'[i]) /\ queue[1] < queue'[i]
    BY <1>3 DEF Ordered, Shifts
  <2> QED BY <1>3, <2>1, <2>2, <2>3 DEF Ordered, GivenBelow, QueueAbove
<1> QED BY <1>2, <1>3 DEF NextFacts

LEMMA OrderedAccept ==
  ASSUME Msgs, Typed, TasksFit, AskedFits, Ordered, NEW k \in Conn, Accept(k),
         about[k] \in Msg
  PROVE  Ordered'
<1>1. Above(about[k]) /\ given' = given
  BY DEF Accept, AskedFits
<1>2. CASE entry = None /\ UNCHANGED queue
  <2>1. PICK t \in Task : entry' = t /\ task' = [task EXCEPT ![t] = New(about[k])]
    BY <1>2 DEF Accept
  <2>2. task'[t].msg = about[k] /\ queue = <<>>
    BY <1>2, <2>1 DEF New, TasksFit, Msgs
  <2> QED BY <1>1, <1>2, <2>1, <2>2 DEF Ordered, GivenBelow, QueueAbove, Above
<1>3. CASE entry # None /\ UNCHANGED <<entry, task, queue>>
  BY <1>1, <1>3, OrderedCalm DEF Calm
<1>4. CASE entry # None /\ UNCHANGED <<entry, task>> /\ queue' = Append(queue, about[k])
  <2>1. Len(queue') = Len(queue) + 1 /\ queue'[Len(queue) + 1] = about[k]
        /\ \A i \in 1 .. Len(queue) : queue'[i] = queue[i]
    BY <1>4 DEF Msgs
  <2> QED BY <1>1, <1>4, <2>1 DEF Ordered, GivenBelow, QueueAbove, QueueBelow, Above, Msgs, Typed
<1> QED BY <1>2, <1>3, <1>4 DEF Accept

LEMMA OrderedStep ==
  ASSUME TypeOK, TasksFit, HandlersFit, AskedFits, Ordered, Next
  PROVE  Ordered'
<1>0. Msgs /\ Typed /\ about \in [Conn -> Msg \union {0}] /\ 0 \in Msg \union {0}
  BY TypeParts DEF LinkTypes, Msgs, MessageTypes, Typed
<1>1. ASSUME NEW t \in Task, Look(t) PROVE Ordered'
  <2>1. LooksFacts(t) /\ AtWork(t) /\ task[t].at = "look" /\ task[t].msg # 0
    BY <1>1, <1>0, LookFacts DEF Msgs, Look, AtWork, TasksFit, TaskFits
  <2> QED BY <1>0, <2>1, OrderedTakes, OrderedNext, CalmHolds, OrderedCalm DEF LooksFacts
<1>2. ASSUME NEW t \in Task, Enter(t) PROVE Ordered'
  BY <1>2, <1>0, TakeTurnFacts, OrderedTakes DEF Enter, Msgs, AtWork
<1>3. ASSUME NEW t \in Task, Call(t) PROVE Ordered'
  BY <1>3, <1>0, CallFacts, CalmHolds, OrderedCalm DEF Call, Msgs, messages
<1>4. ASSUME NEW t \in Task, Finish(t) PROVE Ordered'
  <2>1. TurnOverFacts(t) /\ given' = given /\ AtWork(t)
    BY <1>4, <1>0, TurnOversFacts DEF Finish, Msgs, AtWork, messages
  <2>2. CASE task[t].msg = 0
    <3>1. t # entry
      BY <2>2, TurnsAssumption DEF TasksFit
    <3> QED BY <1>0, <2>1, <2>2, <3>1, CalmGone, OrderedCalm DEF TurnOverFacts
  <2>3. CASE task[t].msg # 0
    BY <1>0, <2>1, <2>3, OrderedNext DEF TurnOverFacts
  <2> QED BY <2>2, <2>3
<1>5. ASSUME NEW t \in Task, BeginPark(t) PROVE Ordered'
  BY <1>5, <1>0, BeginParkFacts, CalmHolds, OrderedCalm DEF BeginPark, Msgs, messages
<1>6. ASSUME NEW t \in Task, Park(t) PROVE Ordered'
  <2>1. TurnOverFacts(t) /\ given' = given /\ AtWork(t)
    BY <1>6, <1>0, TurnOversFacts DEF Park, Msgs, AtWork, messages
  <2>2. CASE task[t].msg = 0
    <3>1. t # entry
      BY <2>2, TurnsAssumption DEF TasksFit
    <3> QED BY <1>0, <2>1, <2>2, <3>1, CalmGone, OrderedCalm DEF TurnOverFacts
  <2>3. CASE task[t].msg # 0
    BY <1>0, <2>1, <2>3, OrderedNext DEF TurnOverFacts
  <2> QED BY <2>2, <2>3
<1>7. ASSUME NEW t \in Task, Unwind(t) PROVE Ordered'
  <2>1. t # entry
    BY <1>7, TurnsAssumption DEF Unwind, TasksFit, Alive
  <2> QED BY <1>7, <1>0, <2>1, GoneFacts, CalmGone, OrderedCalm DEF Unwind, Msgs
<1>8. ASSUME Land PROVE Ordered'
  BY <1>8, <1>0, OrderedCalm DEF Land, Calm, tasks, messages
<1>9. ASSUME NEW k \in Conn, Ask(k) PROVE Ordered'
  BY <1>9, <1>0, OrderedCalm DEF Ask, Calm, tasks
<1>10. ASSUME NEW k \in Conn, Accept(k) PROVE Ordered'
  BY <1>10, <1>0, OrderedAccept DEF Accept, HandlersFit
<1>11. ASSUME NEW k \in Conn, Cancel(k) PROVE Ordered'
  BY <1>11, <1>0, OrderedCalm DEF Cancel, Calm, tasks, messages
<1>12. ASSUME NEW k \in Conn, CancelHook(k) PROVE Ordered'
  BY <1>12, <1>0, ToldFacts, CalmTold, OrderedCalm DEF CancelHook, StopTask, Typed, messages,
     TasksFit
<1>13. ASSUME NEW k \in Conn, CancelStop(k) PROVE Ordered'
  BY <1>13, <1>0, ToldFacts, CalmTold, OrderedCalm DEF CancelStop, StopTurns, Typed, messages
<1>14. ASSUME NEW k \in Conn, CancelEnd(k) PROVE Ordered'
  BY <1>14, <1>0, OrderedCalm DEF CancelEnd, Calm, tasks, messages
<1>15. ASSUME NEW k \in Conn, Resume(k) PROVE Ordered'
  BY <1>15, <1>0, OrderedCalm DEF Resume, Calm, tasks, messages
<1>16. ASSUME NEW k \in Conn, Resumed(k) PROVE Ordered'
  BY <1>16, <1>0, OrderedCalm DEF Resumed, Calm, tasks, messages
<1>17. ASSUME NEW k \in Conn, UndoResume(k) PROVE Ordered'
  BY <1>17, <1>0, OrderedCalm DEF UndoResume, Calm, tasks, messages
<1>18. ASSUME NEW k \in Conn, ResumeHook(k) PROVE Ordered'
  BY <1>18, <1>0, ToldFacts, CalmTold, OrderedCalm DEF ResumeHook, StopTask, Typed, messages,
     TasksFit
<1>19. ASSUME NEW k \in Conn, Restart(k) PROVE Ordered'
  <2>1. PICK t \in Task : task[t] = Free /\ Only(t) /\ task'[t] = New(0)
    BY <1>19, <1>0, StartFacts DEF Restart, Msgs
  <2>2. t # entry
    BY <2>1, TurnsAssumption DEF TasksFit, Free
  <2> QED BY <1>19, <1>0, <2>1, <2>2, CalmGone, OrderedCalm DEF Restart, messages
<1>20. ASSUME NEW k \in Conn, Connect(k) PROVE Ordered'
  BY <1>20, <1>0, OrderedCalm DEF Connect, Calm, links, tasks, messages
<1>21. ASSUME NEW k \in Conn, Serve(k) PROVE Ordered'
  BY <1>21, <1>0, OrderedCalm DEF Serve, Calm, links, tasks, messages
<1>22. ASSUME NEW k \in Conn, Leave(k) PROVE Ordered'
  BY <1>22, <1>0, OrderedCalm DEF Leave, Calm, tasks
<1>23. ASSUME NEW k \in Conn, LookForRuns(k) PROVE Ordered'
  BY <1>23, <1>0, OrderedCalm DEF LookForRuns, Calm, links, tasks, messages
<1>24. ASSUME NEW k \in Conn, StopForPause(k) PROVE Ordered'
  BY <1>24, <1>0, ToldFacts, CalmTold, OrderedCalm DEF StopForPause, StopTurns, Typed, messages
<1>25. ASSUME NEW k \in Conn, HookForPause(k) PROVE Ordered'
  BY <1>25, <1>0, ToldFacts, CalmTold, OrderedCalm DEF HookForPause, StopTask, Typed, messages,
     TasksFit
<1>26. ASSUME NEW k \in Conn, Pause(k) PROVE Ordered'
  BY <1>26, <1>0, OrderedCalm DEF Pause, Calm, links, tasks, messages
<1> QED BY <1>1, <1>2, <1>3, <1>4, <1>5, <1>6, <1>7, <1>8, <1>9, <1>10, <1>11, <1>12, <1>13, <1>14,
      <1>15, <1>16, <1>17, <1>18, <1>19, <1>20, <1>21, <1>22, <1>23, <1>24, <1>25, <1>26 DEF Next,
        Work


------------------------------------------------------------------------------
(* What became of the messages.  Fades: none is queued anew, and one of    *)
(* them is not any longer.                                                 *)
Fades(m) == \A n \in Msg : fate'[n] = "queued" => fate[n] = "queued" /\ n # m
SameWork ==
  \A u \in Task : /\ task'[u].msg = task[u].msg
                  /\ task'[u].at \in {"turn", "park"} => task[u].at \in {"turn", "park"}
FTypes == Msgs /\ 0 \notin Msg

LEMMA FatesSame ==
  ASSUME FTypes, FatesFit, SameWork, UNCHANGED queue, Fades(0)
  PROVE  FatesFit'
<1>1. \A u \in Task : task[u].msg \in Msg \union {0}
  BY DEF FTypes, Msgs, TaskRecord
<1> QED BY <1>1 DEF FatesFit, SameWork, Fades

LEMMA FatesHold ==
  ASSUME NEW t \in Task, NEW at \in {"wait", "turn", "park"}, Holds(t, at),
         at # "wait" => task[t].at = "turn"
  PROVE  SameWork
BY DEF SameWork, Holds, Only

LEMMA FatesTakes ==
  ASSUME FTypes, FatesFit, fate \in [Msg -> Fates], NEW t \in Task, TakesFacts(t)
  PROVE  FatesFit'
<1>1. Fades(task[t].msg) /\ queue' = queue
  BY DEF TakesFacts, Fades, FTypes
<1>2. \A u \in Task : /\ task'[u].msg = task[u].msg
                      /\ u # t => task'[u].at = task[u].at
  BY DEF TakesFacts, Holds, Only
<1>3. \A u \in Task : task[u].msg \in Msg \union {0}
  BY DEF FTypes, Msgs, TaskRecord
<1> QED BY <1>1, <1>2, <1>3 DEF FatesFit, Fades

LEMMA FatesGone ==
  ASSUME FTypes, FatesFit, NEW t \in Task, Only(t), task'[t] \in {Free, New(0)}, UNCHANGED queue,
         Fades(task[t].msg)
  PROVE  FatesFit'
<1>1. task'[t].at \in {"free", "wait"} /\ task'[t].msg = 0
  BY DEF Free, New
<1>2. \A u \in Task : task[u].msg \in Msg \union {0}
  BY DEF FTypes, Msgs, TaskRecord
<1> QED BY <1>1, <1>2 DEF FTypes, FatesFit, Only, Fades

LEMMA FatesNext ==
  ASSUME FTypes, FatesFit, NEW t \in Task, NextFacts(t), Fades(task[t].msg)
  PROVE  FatesFit'
<1>1. CASE UNCHANGED queue /\ task'[t] = Free
  BY <1>1, FatesGone DEF NextFacts
<1>2. CASE Shifts /\ task'[t] = New(queue[1])
  <2>1. task'[t].at \in {"look", "wait"} /\ task'[t].msg = queue[1]
    BY <1>2 DEF New
  <2>2. \A u \in Task : task[u].msg \in Msg \union {0}
    BY DEF FTypes, Msgs, TaskRecord
  <2>3. \A u \in Task : u # t => task'[u] = task[u]
    BY DEF NextFacts, Only
  <2>4. \A u \in Task : (task[u].at \in {"turn", "park"} /\ task[u].msg # 0
                           => fate[task[u].msg] # "queued")'
    BY <2>1, <2>2, <2>3 DEF FatesFit, Fades
  <2>5. ASSUME NEW m \in Msg, fate'[m] = "queued"
        PROVE  (\E u \in Task : task'[u].msg = m) \/ \E i \in 1 .. Len(queue') : queue'[i] = m
    <3>1. CASE \E u \in Task : task[u].msg = m
      BY <2>3, <2>5, <3>1 DEF Fades
    <3>2. ASSUME NEW i \in 1 .. Len(queue), queue[i] = m
          PROVE  (\E u \in Task : task'[u].msg = m) \/ \E j \in 1 .. Len(queue') : queue'[j] = m
      <4>1. CASE i = 1
        BY <2>1, <3>2, <4>1
      <4>2. CASE i # 1
        <5>1. i - 1 \in 1 .. Len(queue') /\ queue'[i - 1] = queue[(i - 1) + 1] /\ (i - 1) + 1 = i
          BY <1>2, <4>2 DEF Shifts
        <5> QED BY <3>2, <5>1
      <4> QED BY <4>1, <4>2
    <3> QED BY <2>5, <3>1, <3>2 DEF FatesFit, Fades
  <2> QED BY <2>4, <2>5 DEF FatesFit
<1> QED BY <1>1, <1>2 DEF NextFacts

LEMMA FatesStop ==
  ASSUME FTypes, FatesFit, NEW t \in Task \union {None}, IsTold(t), queue' = <<>>,
         fate' = [m \in Msg |-> IF \E i \in DOMAIN queue : queue[i] = m THEN "dropped" ELSE fate[m]]
  PROVE  FatesFit'
<1>1. SameWork
  BY TurnsAssumption DEF SameWork, IsTold
<1>2. DOMAIN queue = 1 .. Len(queue)
  BY DEF FTypes, Msgs
<1>3. \A m \in Msg : fate'[m] = "queued"
                       => fate[m] = "queued" /\ ~ \E i \in 1 .. Len(queue) : queue[i] = m
  <2> SUFFICES ASSUME NEW m \in Msg, fate'[m] = "queued"
               PROVE  fate[m] = "queued" /\ ~ \E i \in DOMAIN queue : queue[i] = m
    BY <1>2
  <2>1. fate'[m] = IF \E i \in DOMAIN queue : queue[i] = m THEN "dropped" ELSE fate[m]
    BY Zenon
  <2> QED BY <2>1
<1>4. \A u \in Task : task[u].msg \in Msg \union {0}
  BY DEF FTypes, Msgs, TaskRecord
<1> QED BY <1>1, <1>3, <1>4 DEF FTypes, FatesFit, SameWork

LEMMA FatesAccept ==
  ASSUME FTypes, Typed, TasksFit, AskedFits, FatesFit, fate \in [Msg -> Fates],
         NEW k \in Conn, Accept(k), about[k] \in Msg
  PROVE  FatesFit'
<1>0. Above(about[k]) /\ \A n \in Msg \ {about[k]} : fate'[n] = fate[n]
  BY DEF Accept, AskedFits, Fates
<1>1. \A u \in Task : task[u].msg \in Msg \union {0} /\ task[u].msg # about[k]
  BY <1>0 DEF FTypes, Msgs, TaskRecord, Above, Msg
<1>2. CASE entry = None /\ UNCHANGED queue
  <2>1. PICK t \in Task : task[t] = Free /\ task' = [task EXCEPT ![t] = New(about[k])]
    BY <1>2 DEF Accept
  <2>2. Only(t) /\ task'[t] = New(about[k])
    BY <2>1, StartFacts DEF FTypes, Msgs
  <2>3. task'[t].msg = about[k] /\ task'[t].at \in {"look", "wait"} /\ task[t].msg = 0
    BY <2>1, <2>2 DEF New, Free
  <2> QED BY <1>0, <1>1, <1>2, <2>2, <2>3 DEF FTypes, FatesFit, Only
<1>3. CASE UNCHANGED <<task, queue>> /\ fate'[about[k]] = "answered"
  BY <1>0, <1>1, <1>3 DEF FatesFit
<1>4. CASE UNCHANGED task /\ queue' = Append(queue, about[k])
  <2>1. Len(queue') = Len(queue) + 1 /\ queue'[Len(queue) + 1] = about[k]
        /\ (\A i \in 1 .. Len(queue) : queue'[i] = queue[i]) /\ Len(queue) \in Nat
    BY <1>4 DEF FTypes, Msgs
  <2>2. \A m \in Msg : (\E i \in 1 .. Len(queue) : queue[i] = m) \/ m = about[k]
                          => \E i \in 1 .. Len(queue') : queue'[i] = m
    BY <2>1
  <2> QED BY <1>0, <1>1, <1>4, <2>2 DEF FTypes, FatesFit
<1> QED BY <1>2, <1>3, <1>4 DEF Accept, Fates

LEMMA FatesStep ==
  ASSUME TypeOK, TasksFit, HandlersFit, AskedFits, FatesFit, Next
  PROVE  FatesFit'
<1>0. FTypes /\ Msgs /\ Typed /\ about \in [Conn -> Msg \union {0}] /\ 0 \in Msg \union {0}
        /\ fate \in [Msg -> Fates]
  BY TypeParts DEF LinkTypes, FTypes, Msgs, MessageTypes, Typed, Msg
<1>1. ASSUME NEW t \in Task, Look(t) PROVE FatesFit'
  <2>1. LooksFacts(t) /\ AtWork(t) /\ task[t].at = "look" /\ task[t].msg \in Msg
    BY <1>1, <1>0, LookFacts DEF Msgs, Look, AtWork, TasksFit, TaskFits, TaskRecord
  <2>2. CASE TakesFacts(t)
    BY <1>0, <2>2, FatesTakes
  <2>3. CASE Holds(t, "wait") /\ UNCHANGED <<queue, fate>>
    BY <1>0, <2>3, FatesHold, FatesSame DEF Fades, FTypes
  <2>4. CASE NextFacts(t) /\ fate' = [fate EXCEPT ![task[t].msg] = "answered"]
    <3>1. Fades(task[t].msg)
      BY <1>0, <2>4 DEF Fades
    <3> QED BY <1>0, <2>4, <3>1, FatesNext
  <2> QED BY <2>1, <2>2, <2>3, <2>4 DEF LooksFacts
<1>2. ASSUME NEW t \in Task, Enter(t) PROVE FatesFit'
  BY <1>2, <1>0, TakeTurnFacts, FatesTakes DEF Enter, Msgs
<1>3. ASSUME NEW t \in Task, Call(t) PROVE FatesFit'
  BY <1>3, <1>0, CallFacts, FatesHold, FatesSame DEF Call, Msgs, messages, Fades, FTypes
<1>4. ASSUME NEW t \in Task, Finish(t) PROVE FatesFit'
  <2>1. TurnOverFacts(t) /\ fate' = fate /\ task[t].at \in {"turn", "park"}
    BY <1>4, <1>0, TurnOversFacts DEF Finish, Msgs, messages
  <2>2. Fades(task[t].msg)
    BY <1>0, <2>1 DEF Fades, FatesFit, FTypes
  <2> QED BY <1>0, <2>1, <2>2, FatesGone, FatesNext DEF TurnOverFacts
<1>5. ASSUME NEW t \in Task, BeginPark(t) PROVE FatesFit'
  BY <1>5, <1>0, BeginParkFacts, FatesHold, FatesSame DEF BeginPark, Msgs, messages, Fades, FTypes
<1>6. ASSUME NEW t \in Task, Park(t) PROVE FatesFit'
  <2>1. TurnOverFacts(t) /\ fate' = fate /\ task[t].at \in {"turn", "park"}
    BY <1>6, <1>0, TurnOversFacts DEF Park, Msgs, messages
  <2>2. Fades(task[t].msg)
    BY <1>0, <2>1 DEF Fades, FatesFit, FTypes
  <2> QED BY <1>0, <2>1, <2>2, FatesGone, FatesNext DEF TurnOverFacts
<1>7. ASSUME NEW t \in Task, Unwind(t) PROVE FatesFit'
  <2>1. Fades(task[t].msg)
    BY <1>7, <1>0 DEF Unwind, Fades, FTypes
  <2> QED BY <1>7, <1>0, <2>1, GoneFacts, FatesGone DEF Unwind, Msgs
<1>8. ASSUME Land PROVE FatesFit'
  BY <1>8, <1>0, FatesSame DEF Land, SameWork, Fades, FTypes, tasks, messages
<1>9. ASSUME NEW k \in Conn, Ask(k) PROVE FatesFit'
  <2>1. Fades(0) /\ UNCHANGED <<task, queue>>
    BY <1>9, <1>0 DEF Ask, Fades, FTypes, tasks
  <2> QED BY <1>0, <2>1, FatesSame DEF SameWork
<1>10. ASSUME NEW k \in Conn, Accept(k) PROVE FatesFit'
  BY <1>10, <1>0, FatesAccept DEF Accept, HandlersFit
<1>11. ASSUME NEW k \in Conn, Cancel(k) PROVE FatesFit'
  BY <1>11, <1>0, FatesSame DEF Cancel, SameWork, Fades, FTypes, tasks, messages
<1>12. ASSUME NEW k \in Conn, CancelHook(k) PROVE FatesFit'
  <2>1. Fades(0) /\ UNCHANGED queue /\ IsTold(cont)
    BY <1>12, <1>0, ToldFacts DEF CancelHook, StopTask, Typed, messages, Fades, FTypes
  <2> QED BY <1>0, <2>1, FatesSame, TurnsAssumption DEF SameWork, IsTold
<1>13. ASSUME NEW k \in Conn, CancelStop(k) PROVE FatesFit'
  BY <1>13, <1>0, ToldFacts, FatesStop DEF CancelStop, StopTurns, Typed
<1>14. ASSUME NEW k \in Conn, CancelEnd(k) PROVE FatesFit'
  BY <1>14, <1>0, FatesSame DEF CancelEnd, SameWork, Fades, FTypes, tasks, messages
<1>15. ASSUME NEW k \in Conn, Resume(k) PROVE FatesFit'
  BY <1>15, <1>0, FatesSame DEF Resume, SameWork, Fades, FTypes, tasks, messages
<1>16. ASSUME NEW k \in Conn, Resumed(k) PROVE FatesFit'
  BY <1>16, <1>0, FatesSame DEF Resumed, SameWork, Fades, FTypes, tasks, messages
<1>17. ASSUME NEW k \in Conn, UndoResume(k) PROVE FatesFit'
  BY <1>17, <1>0, FatesSame DEF UndoResume, SameWork, Fades, FTypes, tasks, messages
<1>18. ASSUME NEW k \in Conn, ResumeHook(k) PROVE FatesFit'
  <2>1. Fades(0) /\ UNCHANGED queue /\ IsTold(cont)
    BY <1>18, <1>0, ToldFacts DEF ResumeHook, StopTask, Typed, messages, Fades, FTypes
  <2> QED BY <1>0, <2>1, FatesSame, TurnsAssumption DEF SameWork, IsTold
<1>19. ASSUME NEW k \in Conn, Restart(k) PROVE FatesFit'
  <2>1. PICK t \in Task : task[t] = Free /\ Only(t) /\ task'[t] = New(0)
    BY <1>19, <1>0, StartFacts DEF Restart, Msgs
  <2>2. Fades(task[t].msg)
    BY <1>19, <1>0, <2>1 DEF Restart, messages, Fades, Free, FTypes
  <2> QED BY <1>19, <1>0, <2>1, <2>2, FatesGone DEF Restart
<1>20. ASSUME NEW k \in Conn, Connect(k) PROVE FatesFit'
  BY <1>20, <1>0, FatesSame DEF Connect, SameWork, Fades, FTypes, tasks, messages
<1>21. ASSUME NEW k \in Conn, Serve(k) PROVE FatesFit'
  BY <1>21, <1>0, FatesSame DEF Serve, SameWork, Fades, FTypes, tasks, messages
<1>22. ASSUME NEW k \in Conn, Leave(k) PROVE FatesFit'
  <2>1. Fades(0) /\ UNCHANGED <<task, queue>>
    BY <1>22, <1>0 DEF Leave, Aborted, Fades, FTypes, tasks
  <2> QED BY <1>0, <2>1, FatesSame DEF SameWork
<1>23. ASSUME NEW k \in Conn, LookForRuns(k) PROVE FatesFit'
  BY <1>23, <1>0, FatesSame DEF LookForRuns, SameWork, Fades, FTypes, tasks, messages
<1>24. ASSUME NEW k \in Conn, StopForPause(k) PROVE FatesFit'
  BY <1>24, <1>0, ToldFacts, FatesStop DEF StopForPause, StopTurns, Typed
<1>25. ASSUME NEW k \in Conn, HookForPause(k) PROVE FatesFit'
  <2>1. Fades(0) /\ UNCHANGED queue /\ IsTold(cont)
    BY <1>25, <1>0, ToldFacts DEF HookForPause, StopTask, Typed, messages, Fades, FTypes
  <2> QED BY <1>0, <2>1, FatesSame, TurnsAssumption DEF SameWork, IsTold
<1>26. ASSUME NEW k \in Conn, Pause(k) PROVE FatesFit'
  BY <1>26, <1>0, FatesSame DEF Pause, SameWork, Fades, FTypes, tasks, messages
<1> QED BY <1>1, <1>2, <1>3, <1>4, <1>5, <1>6, <1>7, <1>8, <1>9, <1>10, <1>11, <1>12, <1>13, <1>14,
      <1>15, <1>16, <1>17, <1>18, <1>19, <1>20, <1>21, <1>22, <1>23, <1>24, <1>25, <1>26 DEF Next,
        Work

------------------------------------------------------------------------------
(* The theorems.                                                           *)
LEMMA InitIInv == Init => IInv
<1> SUFFICES ASSUME Init PROVE IInv
  OBVIOUS
<1>1. TypeOK
  BY TurnsAssumption, NewType DEF Init, TypeOK, TaskRecord
<1>2. \A t \in Task : task[t].at = "free" /\ task[t] = Free /\ task[t].msg = 0
  BY DEF Init, Free
<1>3. TasksFit
  BY <1>2 DEF Init, TasksFit, TaskFits
<1>4. HandlersFit /\ PausersFit
  BY DEF Init, HandlersFit, PausersFit, Pausing
<1>5. Len(given) = 0 /\ Len(queue) = 0
  BY DEF Init
<1>6. SentFits /\ AskedFits
  BY <1>2, <1>5 DEF Init, SentFits, AskedFits, Above, GivenBelow, QueueBelow
<1>7. Ordered /\ FatesFit
  BY <1>2 DEF Init, Ordered, FatesFit
<1> QED BY <1>1, <1>3, <1>4, <1>6, <1>7 DEF IInv

LEMMA StepIInv == IInv /\ [Next]_vars => IInv'
<1>1. ASSUME IInv, Next PROVE IInv'
  <2>1. TypeOK'
    BY <1>1, TypeParts, TaskTypesStep, LinkTypesStep, MessageTypesStep DEF IInv
  <2>2. HandlersFit' /\ PausersFit' /\ TasksFit'
    BY <1>1, HandlersStep, PausersStep, TasksStep DEF IInv
  <2>3. SentFits' /\ AskedFits' /\ Ordered' /\ FatesFit'
    BY <1>1, SentStep, AskedStep, OrderedStep, FatesStep DEF IInv
  <2> QED BY <2>1, <2>2, <2>3 DEF IInv
<1>2. ASSUME IInv, UNCHANGED vars PROVE IInv'
  <2>1. UNCHANGED <<row, conns, reg, doing, about, entry, queue, cont, task, turn, adrift, sent,
                    fate, given, late>>
    BY <1>2 DEF vars, links, tasks, messages
  <2>2. TypeOK' /\ HandlersFit' /\ PausersFit' /\ TasksFit'
    BY <1>2, <2>1 DEF IInv, TypeOK, HandlersFit, PausersFit, Pausing, TasksFit, TaskFits, Alive
  <2>3. SentFits' /\ AskedFits' /\ Ordered' /\ FatesFit'
    BY <1>2, <2>1 DEF IInv, SentFits, AskedFits, Ordered, FatesFit, Above, GivenBelow, QueueBelow,
       QueueAbove
  <2> QED BY <2>2, <2>3 DEF IInv
<1> QED BY <1>1, <1>2

(* The inductive invariant holds of every behaviour of the run's tasks and  *)
(* handlers, whatever the connections and the stops do in between.         *)
THEOREM Safety == Spec => []IInv
BY InitIInv, StepIInv, PTL DEF Spec

(* The variables keep their types: on_user_message never queues more than   *)
(* max_queued_turns, and a turn takes no more steps than the loop's limit. *)
THEOREM Types == Spec => []TypeOK
<1>1. IInv => TypeOK
  BY DEF IInv
<1> QED BY <1>1, Safety, PTL

(* Every message on_user_message accepts is given to the loop, answered, or *)
(* dropped by a stop, and until then somebody has it that will.             *)
THEOREM NothingVanishes == Spec => []NoMessageVanishes
<1>1. ASSUME IInv PROVE NoMessageVanishes
  <2>1. TypeOK /\ TasksFit /\ FatesFit
    BY <1>1 DEF IInv
  <2>2. DOMAIN queue = 1 .. Len(queue) /\ entry \in Task \union {None} /\ Len(queue) \in Nat
    BY <2>1, TypeParts DEF MessageTypes
  <2>3. ASSUME NEW i \in 1 .. Len(queue) PROVE entry # None /\ task[entry] # Free /\ Alive(entry)
    BY <2>1 DEF TasksFit, Free
  <2> QED BY <2>1, <2>2, <2>3 DEF NoMessageVanishes, FatesFit
<1> QED BY <1>1, Safety, PTL

(* The loop's turns take the messages in the order the device sent them,    *)
(* and each of them once.                                                  *)
THEOREM InOrder == Spec => []GivenInOrder
<1>1. ASSUME IInv PROVE GivenInOrder
  <2>1. DOMAIN given = 1 .. Len(given)
    OBVIOUS
  <2> QED BY <1>1, <2>1 DEF IInv, Ordered, GivenInOrder
<1> QED BY <1>1, Safety, PTL

(* When on_cancel_request ends the run, or _pause_after_disconnect pauses   *)
(* it, no task works on it that was not told to stop; but for a device     *)
(* that came back during that very pause (run_handlers.py:853, :876).      *)
THEOREM WorkStops == Spec => NobodyWorksOn
<1> DEFINE Stops(k) == CancelEnd(k) \/ (Pause(k) /\ k \notin late)
<1>1. ASSUME IInv, NEW k \in Conn, Stops(k) PROVE \A t \in Task : task[t] = Free \/ ~Alive(t)
  <2>1. entry = None /\ cont = None
    BY <1>1 DEF CancelEnd, Pause, IInv, HandlersFit, PausersFit, Pausing
  <2> QED BY <1>1, <2>1, TurnsAssumption DEF IInv, TasksFit, TaskFits
<1>2. IInv /\ [Next]_vars
        => [\A k \in Conn : Stops(k) => \A t \in Task : task[t] = Free \/ ~Alive(t)]_vars
  BY <1>1
<1> QED BY <1>2, Safety, PTL DEF Spec, NobodyWorksOn
================================================================================

------------------------------- MODULE Stream --------------------------------
(***************************************************************************)
(* One run's event stream: backend/codeagent/emitter.py numbers, stores    *)
(* and sends each event under the run's lock, buffer.py keeps the counter  *)
(* and the replay, run_handlers.py resumes and ends the stream, and the    *)
(* device link (m2c/link/client.py) keeps the log.  Tasks that emit, a     *)
(* resume and an end interleave with connections that come and go.         *)
(***************************************************************************)
EXTENDS Naturals, Sequences, FiniteSets

CONSTANTS Emitter,      \* tasks that emit: the loop, the broker, a handler
          MaxSeq,       \* bound: events numbered by the counter
          MaxEpoch,     \* bound: rebuilds of the buffer
          MaxDrops,     \* bound: connections that are lost
          Mishaps       \* what may happen: a task is cancelled in an emit, a resume
                        \* with its connection, the store or the cap refuses

None == "none"

ASSUME StreamAssumption ==
  /\ MaxSeq \in Nat \ {0} /\ MaxEpoch \in Nat /\ MaxDrops \in Nat
  /\ Mishaps \subseteq {"stop", "abort", "refuse"}
  /\ Emitter \intersect {None, "resume", "end", "final"} = {}

Seqs == 1 .. MaxSeq + 1
Event == [epoch : 0 .. MaxEpoch + 1, by : Emitter \union {"final"}]

VARIABLES counter,      \* Redis: the last seq handed out
          base,         \* Redis: the seq the buffer was created at
          alive,        \* Redis: the buffer exists
          stored,       \* the event at each seq; the replay is what lies above base
          epoch,        \* how often the stream was cut
          bound, last,  \* the emitter's binding and its tracker
          lock,         \* who holds the lock of that binding
          task,         \* each emitting task
          resumer,      \* the handler of run.resume
          ending,       \* the end of the run
          up, wire,     \* the connection, and what is on its way to the device
          inbox,        \* a run.resume on its way to the server: its last_seq, or nothing
          drops,
          log,          \* the device's event log
          asked,        \* a resume was asked for less than resume_retry_s ago
          lost,         \* the device was told run_not_found
          happened      \* history: the mishaps so far

redis   == <<counter, base, alive, stored, epoch>>
binding == <<bound, last, lock>>
server  == <<redis, binding, task, resumer, ending>>
device  == <<log, asked, lost>>
net     == <<up, wire, inbox, drops>>
vars    == <<server, net, device, happened>>

May(mishap) == mishap \in Mishaps /\ happened' = happened \union {mishap}

NoEvent == [epoch |-> 0, by |-> "none"]
Idle == [at |-> "idle", seq |-> 0, own |-> FALSE, stopped |-> FALSE]
NoResume == [at |-> "idle", from |-> 0, wasBound |-> FALSE, live |-> FALSE, events |-> <<>>]

Init ==
  /\ counter = 0 /\ base = 0 /\ alive = TRUE /\ epoch = 0
  /\ stored = [n \in Seqs |-> NoEvent]
  /\ bound = TRUE /\ last = 0 /\ lock = None
  /\ task = [e \in Emitter |-> Idle]
  /\ resumer = NoResume /\ ending = "no"
  /\ up = TRUE /\ wire = <<>> /\ inbox = {} /\ drops = 0
  /\ log = <<>> /\ asked = FALSE /\ lost = FALSE /\ happened = {}

Above(a, b) == IF a > b THEN a ELSE b
Replay == IF alive THEN {n \in Seqs : n > base /\ stored[n] # NoEvent} ELSE {}
Cursor == Len(log)
Finished == Cursor > 0 /\ log[Cursor].by = "final"
Message(n, ev) == [seq |-> n, ev |-> ev]
Deliver(messages) == wire' = IF up THEN wire \o messages ELSE wire
Unlock(holder) == lock' = IF lock = holder THEN None ELSE lock

------------------------------------------------------------------------------
(* An emit: one thread numbers and stores, then the task sends.            *)
Begin(e) ==
  /\ task[e] = Idle /\ counter < MaxSeq
  /\ task' = [task EXCEPT ![e] = [Idle EXCEPT !.at = "number", !.own = TRUE]]
  /\ lock' = e

EmitBegin(e) ==
  /\ bound /\ lock = None
  /\ Begin(e)
  /\ UNCHANGED <<redis, bound, last, resumer, ending, net, device, happened>>

\* The emit raises, or a stopped task's thread is done.
Leave(e) ==
  /\ task' = [task EXCEPT ![e] = Idle]
  /\ Unlock(e)

Number(e) ==
  /\ task[e].at = "number"
  /\ \/ /\ alive /\ counter < MaxSeq
        /\ counter' = counter + 1
        /\ last' = IF task[e].own THEN Above(last, counter') ELSE last
        /\ task' = [task EXCEPT ![e].at = "store", ![e].seq = counter']
        /\ UNCHANGED lock
     \/ \* BufferMissing
        /\ ~alive
        /\ Leave(e)
        /\ UNCHANGED <<counter, last>>
  /\ UNCHANGED <<base, alive, stored, epoch, bound, resumer, ending, net, device, happened>>

Store(e) ==
  /\ task[e].at = "store"
  /\ \/ /\ alive
        /\ stored' = [stored EXCEPT ![task[e].seq] = [epoch |-> epoch, by |-> e]]
        /\ IF task[e].stopped THEN Leave(e)
           ELSE task' = [task EXCEPT ![e].at = "send"] /\ UNCHANGED lock
     \/ \* BufferMissing
        /\ ~alive
        /\ Leave(e)
        /\ UNCHANGED stored
  /\ UNCHANGED <<counter, base, alive, epoch, bound, last, resumer, ending, net, device, happened>>

\* BufferFull or BufferUnavailable, after the number was handed out.
StoreRefused(e) ==
  /\ task[e].at = "store" /\ alive
  /\ May("refuse")
  /\ Leave(e)
  /\ UNCHANGED <<redis, bound, last, resumer, ending, net, device>>

Send(e) ==
  /\ task[e].at = "send"
  /\ Deliver(<<Message(task[e].seq, stored[task[e].seq])>>)
  /\ Leave(e)
  /\ UNCHANGED <<redis, bound, last, resumer, ending, up, inbox, drops, device, happened>>

(* The task is cancelled: it gives the lock back at once, and a thread     *)
(* that numbers and stores goes on by itself.                              *)
Stop(e) ==
  /\ task[e].at # "idle" /\ ~task[e].stopped
  /\ May("stop")
  /\ task' = [task EXCEPT ![e] = IF @.at = "send" THEN Idle ELSE [@ EXCEPT !.stopped = TRUE]]
  /\ Unlock(e)
  /\ UNCHANGED <<redis, bound, last, resumer, ending, net, device>>

(* unbind: a stopped emit's thread goes on with a binding nobody looks at. *)
Released ==
  /\ bound' = FALSE /\ last' = 0 /\ lock' = None
  /\ task' = [e \in Emitter |-> [task[e] EXCEPT !.own = FALSE]]

\* After the disconnect's pause was emitted, and by handlers that give up on
\* the run when no emit is under way.
Unbind ==
  /\ bound /\ lock = None
  /\ Released
  /\ UNCHANGED <<redis, resumer, ending, net, device, happened>>

------------------------------------------------------------------------------
(* run.resume: bind, take the lock, read or rebuild, redeliver.            *)
ResumeBegin ==
  /\ inbox # {} /\ resumer = NoResume
  /\ bound => lock = None
  /\ inbox' = {}
  /\ IF ending # "no" /\ ~bound
       THEN /\ lost' = TRUE                      \* owned_run: the run is over
            /\ UNCHANGED <<binding, resumer>>
       ELSE /\ bound' = TRUE /\ last' = (IF bound THEN last ELSE 0) /\ lock' = "resume"
            /\ resumer' = [at |-> "read", from |-> CHOOSE n \in inbox : TRUE, wasBound |-> bound,
                           live |-> TRUE, events |-> <<>>]
            /\ UNCHANGED lost
  /\ UNCHANGED <<redis, task, ending, up, wire, drops, log, asked, happened>>

\* The stored events above n, in seq order.
ReplayAfter(n) ==
  LET above == {k \in Replay : k > n}
      Nth(i) == CHOOSE k \in above : Cardinality({j \in above : j <= k}) = i
  IN  [i \in 1 .. Cardinality(above) |-> Message(Nth(i), stored[Nth(i)])]

StoredLast == CHOOSE n \in Replay \union {0} : \A k \in Replay : k <= n

ResumeRead ==
  /\ resumer.at = "read" /\ alive
  /\ resumer' = [resumer EXCEPT !.at = "send", !.events = ReplayAfter(resumer.from)]
  /\ last' = Above(last, StoredLast)
  /\ UNCHANGED <<redis, bound, lock, task, ending, net, device, happened>>

\* Fault: the rebuilt buffer counts from the beginning.
ResumeRebuildAnew ==
  /\ resumer.at = "read" /\ ~alive /\ ending = "no"
  /\ alive' = TRUE /\ counter' = 0 /\ base' = 0 /\ epoch' = epoch + 1
  /\ resumer' = [resumer EXCEPT !.at = "send"]
  /\ UNCHANGED <<stored, bound, last, lock, task, ending, net, device, happened>>

\* The buffer is gone and the device sent its state: the counter goes on from its log.
ResumeRebuild ==
  /\ resumer.at = "read" /\ ~alive /\ ending = "no"
  /\ alive' = TRUE /\ counter' = resumer.from /\ base' = resumer.from /\ epoch' = epoch + 1
  /\ stored' = [n \in Seqs |-> IF n <= resumer.from THEN stored[n] ELSE NoEvent]
  /\ resumer' = [resumer EXCEPT !.at = "send"]
  /\ last' = Above(last, resumer.from)
  /\ UNCHANGED <<bound, lock, task, ending, net, device, happened>>

\* The end of a resume that does not go through.
ResumeOver ==
  /\ resumer' = NoResume
  /\ IF resumer.wasBound THEN Unlock("resume") /\ UNCHANGED <<bound, last, task>> ELSE Released

\* RunGone, or the run is over.
ResumeGone ==
  /\ resumer.at = "read"
  /\ ~alive \/ ending # "no"
  /\ ResumeOver
  /\ lost' = (lost \/ (resumer.live /\ ~alive))
  /\ UNCHANGED <<redis, ending, net, log, asked, happened>>

\* The store, or the cap on the device's runs, refuses.
ResumeRefused ==
  /\ resumer.at = "read"
  /\ May("refuse")
  /\ ResumeOver
  /\ UNCHANGED <<redis, ending, net, device>>

(* The connection ended under the resume: its thread was waited for, the   *)
(* rest is dropped and nothing is undone.                                  *)
ResumeAborted ==
  /\ resumer.at # "idle" /\ ~resumer.live
  /\ May("abort")
  /\ resumer' = NoResume
  /\ Unlock("resume")
  /\ UNCHANGED <<redis, bound, last, task, ending, net, device>>

ResumeSend ==
  /\ resumer.at = "send"
  /\ Deliver(resumer.events)
  /\ resumer' = NoResume
  /\ \/ Unlock("resume") /\ UNCHANGED task
     \/ \E e \in Emitter : Begin(e)     \* out of a pause: `running` is emitted under the lock
  /\ UNCHANGED <<redis, bound, last, ending, up, inbox, drops, device, happened>>

------------------------------------------------------------------------------
(* The end: cancel_run moves the row and deletes the buffer, emit_final    *)
(* tells the device from the tracker.  on_cancel_request holds the lock    *)
(* around both, the loop's own end only around emit_final.                 *)
EndLock ==
  /\ ending = "no" /\ bound /\ lock = None
  /\ ending' = "locked" /\ lock' = "end"
  /\ UNCHANGED <<redis, bound, last, task, resumer, net, device, happened>>

\* _bind_for_end: the end of an unbound run is numbered from the replay, or not told.
EndBind ==
  /\ ending = "no" /\ ~bound
  /\ IF alive THEN bound' = TRUE /\ last' = StoredLast /\ UNCHANGED ending
              ELSE ending' = "told" /\ UNCHANGED <<bound, last>>
  /\ UNCHANGED <<redis, lock, task, resumer, net, device, happened>>

EndMove ==
  /\ ending \in {"no", "locked"} /\ bound
  /\ ending' = "moved"
  /\ alive' = FALSE
  /\ UNCHANGED <<counter, base, stored, epoch, binding, task, resumer, net, device, happened>>

\* Fault: the last event takes the last number again.
FinalAgain == last
FinalSeq == last + 1

Fresh(n) == n > Cursor /\ \A i \in DOMAIN wire : n > wire[i].seq
Final == [epoch |-> epoch + 1, by |-> "final"]

EndFinal ==
  /\ ending = "moved" /\ bound /\ lock \in {None, "end"}
  /\ ending' = "told"
  /\ epoch' = epoch + 1
  /\ stored' = IF Fresh(FinalSeq)           \* history: the buffer is gone
                 THEN [n \in Seqs |-> IF n < FinalSeq THEN stored[n]
                                      ELSE IF n = FinalSeq THEN Final ELSE NoEvent]
                 ELSE stored
  /\ Deliver(<<Message(FinalSeq, Final)>>)
  /\ Released
  /\ UNCHANGED <<counter, base, alive, resumer, up, inbox, drops, device, happened>>

\* The run was released before its end could be told.
EndUntold ==
  /\ ending = "moved" /\ ~bound
  /\ ending' = "told"
  /\ UNCHANGED <<redis, binding, task, resumer, net, device, happened>>

------------------------------------------------------------------------------
(* The device link.                                                        *)
\* Fault: a link that is back does not ask for what it missed.
ConnectSilently ==
  /\ ~up
  /\ up' = TRUE
  /\ UNCHANGED <<server, wire, inbox, drops, device, happened>>

Connect ==
  /\ ~up
  /\ up' = TRUE
  /\ IF Finished \/ lost THEN UNCHANGED <<inbox, asked>>
                         ELSE inbox' = {Cursor} /\ asked' = TRUE
  /\ UNCHANGED <<server, wire, drops, log, lost, happened>>

Disconnect ==
  /\ up /\ drops < MaxDrops
  /\ up' = FALSE /\ wire' = <<>> /\ inbox' = {} /\ drops' = drops + 1
  /\ resumer' = [resumer EXCEPT !.live = FALSE]
  /\ UNCHANGED <<redis, binding, task, ending, device, happened>>

\* Fault: an event beyond a gap is stored.
ReceiveGaps ==
  /\ wire # <<>>
  /\ wire' = Tail(wire)
  /\ log' = IF Head(wire).seq > Cursor THEN Append(log, Head(wire).ev) ELSE log
  /\ asked' = FALSE
  /\ UNCHANGED <<server, up, inbox, drops, lost, happened>>

Receive ==
  LET m == Head(wire)
  IN  /\ wire # <<>>
      /\ wire' = Tail(wire)
      /\ \/ m.seq <= Cursor /\ UNCHANGED <<log, asked, inbox>>
         \/ /\ m.seq = Cursor + 1
            /\ log' = Append(log, m.ev)
            /\ asked' = FALSE
            /\ UNCHANGED inbox
         \/ /\ m.seq > Cursor + 1
            /\ IF asked THEN UNCHANGED <<inbox, asked>>
                        ELSE inbox' = {Cursor} /\ asked' = TRUE
            /\ UNCHANGED log
      /\ UNCHANGED <<server, up, drops, lost, happened>>

\* resume_retry_s pass; the server has answered by then.
Tick ==
  /\ asked /\ inbox = {} /\ resumer = NoResume /\ wire = <<>>
  /\ asked' = FALSE
  /\ UNCHANGED <<server, net, log, lost, happened>>

\* The buffer's TTL: nothing was on its way for two hours.
Lapse ==
  /\ alive /\ epoch < MaxEpoch /\ ending = "no"
  /\ wire = <<>> /\ inbox = {} /\ resumer = NoResume
  /\ \A e \in Emitter : task[e] = Idle
  /\ alive' = FALSE
  /\ UNCHANGED <<counter, base, stored, epoch, binding, task, resumer, ending, net, device, happened>>

Next ==
  \/ \E e \in Emitter : EmitBegin(e) \/ Number(e) \/ Store(e) \/ StoreRefused(e) \/ Send(e) \/ Stop(e)
  \/ Unbind
  \/ ResumeBegin \/ ResumeRead \/ ResumeRebuild \/ ResumeSend
  \/ ResumeGone \/ ResumeRefused \/ ResumeAborted
  \/ EndLock \/ EndBind \/ EndMove \/ EndFinal \/ EndUntold
  \/ Connect \/ Disconnect \/ Receive \/ Tick \/ Lapse

Spec == Init /\ [][Next]_vars

(* Threads and handlers that began go on, messages arrive, and the link    *)
(* reconnects.  Nothing has to be emitted.                                 *)
Fairness ==
  /\ \A e \in Emitter : WF_vars(Number(e)) /\ WF_vars(Store(e)) /\ WF_vars(Send(e))
  /\ WF_vars(ResumeBegin) /\ WF_vars(ResumeRead \/ ResumeRebuild) /\ WF_vars(ResumeSend)
  /\ WF_vars(EndMove /\ ending = "locked") /\ WF_vars(EndFinal)
  /\ WF_vars(Connect) /\ WF_vars(Receive)

FairSpec == Spec /\ Fairness

------------------------------------------------------------------------------
(* "An event it saw but the server lost cannot exist": while the buffer is *)
(* there, what is on its way to the device and what the device logged      *)
(* since the buffer was created is in the replay, as it was sent.          *)
SeenIsStored ==
  alive => /\ \A i \in DOMAIN wire : stored[wire[i].seq] = wire[i].ev
           /\ \A n \in DOMAIN log : stored[n] = log[n]

(* The same of a stream that has something in its replay since it was      *)
(* rebuilt, or was never rebuilt, when no resume was cut off: the numbers  *)
(* a bound run's tracker and an unbound run's replay give are not behind   *)
(* the device, whatever was emitted, refused or stopped on the way.        *)
FinalIsFresh ==
  [][EndFinal /\ (epoch = 0 \/ last > 0) /\ "abort" \notin happened => Fresh(FinalSeq)]_vars

Whole(n) == \A k \in 1 .. n : stored[k] # NoEvent

(* What is stored reaches the device, over lost connections, duplicates    *)
(* and gaps, as long as the run and its buffer are there and nobody was    *)
(* stopped, cut off or refused on the way: what a stopped emit leaves      *)
(* unsent, or a resume unanswered, waits for the next event or connection. *)
CatchesUp ==
  \A n \in 1 .. MaxSeq :
    (alive /\ Whole(n)) ~> (Cursor >= n \/ ~alive \/ lost \/ happened # {})

Reach == CHOOSE n \in 0 .. MaxSeq + 1 : Whole(n) /\ (n = MaxSeq + 1 \/ stored[n + 1] = NoEvent)
Abstract == INSTANCE EventStream WITH
              published <- [n \in 1 .. Reach |-> stored[n]],
              received  <- log

(* The device's log is the server's stream up to some point: each event    *)
(* once, in order, and only what the device has not received is given up.  *)
ImplementsEventStream == Abstract!StreamSpec
==============================================================================

# MiniMe, the coding agent: a TLA+ model

MiniMe runs coding agents in its backend (`src/backend/codeagent/`) that work on a person's machine
through **M2C**, a terminal agent (`src/m2c/`) that keeps one WebSocket to the backend. A *run* is a
row in Postgres, an encrypted buffer in Redis (conversation, replay of events), a numbered stream of
events to the device, a worker that takes turns with a model, and tool calls that the device carries
out. All of these are moved by tasks, threads, timers and connections that interleave at every
`await`. On the device a runner carries the calls out, behind checkpoints that a rewind goes back
to. What all this may cost is held by two ledgers: a run's ceiling, and the daily budget that the
older pipeline's tasks share. These modules model that core, check it with TLC on small instances,
and prove every safety property that TLC checks of them - of the run table, the run manager, the
buffer, the event stream, the tool broker, the turns, the spending, the concurrency gate, the device's
runner and its checkpoints - with TLAPS for every size.

The rest of the repository (most of the older multi-agent pipeline, the web frontend, the workspace
daemon) is listed under *Inventory*, with what was left out and why.

## Inventory

| component | state it keeps | operations | talks to | what makes it correct |
|---|---|---|---|---|
| run table `codeagent/runs.py` | rows: state, device, mode, counters (Postgres) | create_run, get_run, transition, add_progress, set_mode, list_open_runs | run manager, handlers, loop | moves are edges of the table from the state the row is really in; an ended run is final; the device's cap |
| run manager `run_manager.py` | none of its own: row + buffer + run_guard flag | start_run, resume_run, pause_run, end_run, cancel_run, purge_run, expire_stale | runs, buffer, run_guard | an ended run keeps no content; an open run does not lose it; a run somebody just resumed is not expired |
| run buffer `buffer.py` | three Redis keys per run: conversation, replay, meta (counter, sizes, stamp) | create_buffer, append_conversation, append_replay, next_seq, replay_after, touch, delete_buffer, exists | run manager, emitter, loop | claimed once; the lists live and die together; sizes are exact; a read is whole, in order and without duplicates; nothing is immortal |
| event emitter `emitter.py` | bindings: run -> device, lock, last seq | bind, unbind, exclusive, emit, emit_state_changed, emit_final, redeliver | broker, loop, handlers; buffer; registry | the device sees the stored stream, in order, each event once |
| tool broker `broker.py` | calls: status, deadline, connection, waiters | propose, handle_tool_result / approval / stream, deadline, cancel_all, on_run_disconnect, on_connection_closed | loop; emitter; router | each call ends once, with one tool_finished, before anyone is told |
| run handlers `run_handlers.py` | turn queues and their workers; hooks; purges | on_run_start, on_user_message, on_cancel_request, on_run_resume, on_disconnect | everything above | accepted messages do not vanish, turns are in order, nobody works on a paused or ended run |
| agent loop `loop.py` | a lock per run, continuations, a turn's context | run_turn, resume, on_resume, on_cancel, on_run_disconnect; batches of calls; parking a run | broker, runs, run manager, emitter, buffer, model adapters | one turn at a time; calls and results pair up; a parked run does not go on |
| connections, socket, router `ws.py`, `connections.py`, `router.py` | registry: one connection per device; failed handshakes per address | handshake, receive loop, revalidation, supersede, dispatch | device; handlers | a superseded connection ends before the new one is served |
| metering `metering.py`, `routes/code_runs.py`, `eo/credits.py`, `eo/usage_ledger.py` | a record of each run on each server; raised ceiling and warned flag in Redis; a ledger row per call | before_call, after_call, the factory's records; the grant route and its undo | loop; Postgres, Redis | a run overspends by one call at most, whatever fails or restarts; it is warned once; a grant buys a call |
| context, prompts, adapters `context.py`, `prompts.py`, `model_adapter.py`, `adapters/` | none | assemble, stream, parse tool calls | loop; providers | pure transformations |
| device link `m2c/link/` | each run's cursor, pending starts, back-off | connect, resume, receive, send results, keepalive | server; store | the log is a prefix of the stream; reconnects end |
| device runner `m2c/runner.py` | a task per call, the queue of changes, the prompt; approvals table | on_tool_proposed, observe, interrupt, cancel_run, aclose; decide, ask, run | link, store, checkpoints, tools | no call runs twice (as far as decisions can be read back), changes run alone and in order, nothing starts that the server said is closed, an end ends everything |
| checkpoints `m2c/checkpoints.py` | blobs on disk, rows in SQLite | snapshot, rewind, gc_orphans | runner, session; file system | every change has a row, every row a blob; a rewind undoes all it covers |
| policy, device store `m2c/policy/`, `m2c/store/` | rules; sessions and events in SQLite | decide; append | runner, link | pure; one transaction each |
| wire protocol `protocol/` | schemas, fixtures | validate | both sides | messages validate |
| local workspace daemon `daemon/`, `eo/local_workspace.py` | its socket and pending calls | tool calls over a second socket | the older pipeline | answers match calls |
| concurrency gate and rate ledger `eo/concurrency_gate.py`, `utils/rate_ledger.py` | futures and reservations of a batch; a record per day and account | run_gated; reserve, release_reservation | executor, hardware_speccer; llm_client | the record ends at what the answers named and is never below it; every future is resolved |
| older agent pipeline `eo/`, `agents/`, `relay/`, `api/` | sessions, task jobs, run guard | execute_graph, macro loop | providers; frontend | a cancel reaches every step |
| frontend `frontend/` | editor and chat stores | React components | api | latest request wins |

**How they interact.**  A device's message comes in through `ws.py`'s receive loop, which awaits
one handler at a time.  `run.start` records a row, then creates the buffer, then launches.
`user_message` is put on the run's queue and a worker task hands the messages one by one to the
loop, under the loop's lock for the run.  The loop calls the model, proposes tool calls to the
broker and waits; the broker emits `tool_proposed`, starts a deadline and ends the call with the
device's result, a denial, the deadline, a cancel or a lost connection.  Every event goes through
the emitter: number (Redis INCR), store (replay), send, under a lock per binding.  A lost
connection pauses the device's runs; `run.resume` takes a run out of a pause, re-delivers what the
device has not seen and starts a continuation; `cancel` stops the calls, the continuation and the
worker, and then ends the run.  Blocking calls run in threads, which go on when the task that waits
for them is cancelled.

**What is hard here.**  Rows are judged in one transaction and written in another; the row and the
buffer are two stores without a common transaction; handlers look (is the device back? is the run
running?) and act many awaits later; stopping is asking, with a time limit; cancelled tasks leave
threads behind; the emitter's lock is released by a cancelled task whose thread still numbers and
stores; a device may be back before its old connection is cleaned up; timers, answers and
disconnects end the same call; a change on the device goes on in its thread when its run is over; a
budget is a number read in one place and written in another, or kept in three; and any of it may be
cut off by a crash or a store that is down.
`PROJECT.json` lists these hazards at their lines with the properties that watch them.

## Modules

```
RunStates            the states of a run and their legal moves (runs.py)
  RunTable           what runs.py promises: a table with atomic creates and moves
    Runs             its transactions, statement by statement    -- implements RunTable
      RunsProofs     proofs about Runs, for all constants
  RunManager         the row and the buffer of one run, and the sweep
    RunManagerProofs proofs about RunManager, for any number of threads
RunBuffer            the three Redis keys of one run's buffer, request by request
  RunBufferProofs    proofs about RunBuffer, for any threads, calls, sizes and pages
EventStream          what the emitter promises: a log that is a prefix of the stream
  Stream             emitter, buffer's counter and replay, resume, end, device link -- implements EventStream
    StreamProofs     proofs about Stream, for any emitters, numbers and rebuilds
ToolCalls            what the broker promises: one outcome and one tool_finished per call
  ToolBroker         broker, batch, handlers, connections        -- implements ToolCalls
    ToolBrokerProofs proofs about ToolBroker, for any calls and connections
Turns                queue, worker, loop lock, continuation, cancel, resume, connections
  TurnsProofs        proofs about Turns, for any tasks, connections and messages
Spending             metering's records, ledger, Redis, the loop's park and the grant route
Gate                 run_gated's batch over the rate ledger's record of a day
  AccountProofs      proofs about Gate and Spending, for any tasks, servers, grants and amounts
DeviceRunner         the calls of one run on the device: queue, decision, prompt, threads
Checkpoints          snapshots, the tools' changes, rewind and the blob collector
  DeviceProofs       proofs about DeviceRunner and Checkpoints, for any calls, files and contents
```

The `MC` modules add the symmetry sets for TLC and `MCGate` the bound on calls; `Stream` is run as it
is.  `AccountProofs` and `DeviceProofs` each extend two modules that share no state, which is why the
names of `Gate` and `Checkpoints` differ from their neighbours' (`GateInit`, `GateSpec`, `StoreInit`,
`StoreSpec`).  Operators named for a fault (`AcquireUnlocked`, `CleanUpLeaves`, ...; each says
"Fault:") are variants of the definition behind them with a plausible bug; `PROJECT.json` pairs each
with the property that finds it, and no specification uses them.

### Runs (and RunStates, RunTable)

One row per run, one advisory lock per device.  A caller is a thread in `create_run` or
`transition`: `Get` reads and judges the row (one transaction), then - if the call names the cap and
takes a slot - `Acquire` locks the device, `Count` counts its slots, and `Insert` or `Update` writes
and commits; `Update` is conditional on the state that was read, and `Miss` retries up to
MAX_TRANSITION_ATTEMPTS.  `Fail` is an error or the death of the process at any point, which rolls
back.  `CodeCalls` is the set of `transition()` shapes the backend issues, each with the states it
expects and whether it names the cap; the bare `transition(.., "running")` of the handlers begins only
when the row was seen `created`, but may write much later.  The history variable `unchecked` holds
the slots taken by such a bare move: the cap that is kept (`CheckedCap`) is about the others.

### RunManager

The row, the buffer (none, readable, sealed with a retired key), run_guard's flag, and a call of each
thread at one of the places between its steps.  `transition()` is one step here, which `RunsProofs`
and `ImplementsTable` justify.  Besides the calls there are `Fail` (a store is down at any step, and
the code's own error handling follows), `Crash` (the process dies; every call is gone), `Lapse` (TTL),
`Retire` (a key is dropped from the configuration) and `Idle` (updated_at grows old).  `lost`,
`unclean` and `unfenced` are histories: content went with a TTL, key or fault; a fault stopped a
cleanup; content was written that no end of the run looks at again (see *Known limits*).

Its calls include `Grant`, the HTTP route that takes a run out of `paused_budget`.

### RunBuffer

The three keys (`redis`: two lists of records, and the hash with the creation stamp, the counter and
the sizes), and what each calling thread is in the middle of.  An action is one request, with every
command of its MULTI group: `Claim`, `Fill` and the history's `Push` are `create_buffer`, `Check...`
is the read every use begins with, `Refresh`, `Push` and `Bump` are `touch`, `_push` and `next_seq`,
`ReadPage` is a page of `_read_stream`, and `Delete` is every DEL (the caller's, that of `_gone`, of a
passed cap, and the one that undoes a creation).  A request may be `lost`, carried out `unheard`, or
carried out `twice` (its reply was lost and the client retried).  `PassCap` and `Lapse` are time: the
hard cap, and the TTLs.  A record is its item's id with its index and their count; ciphers and
compression are left out; `Complete` is what `_read_stream` makes of a list, each item where a record
completes it.  `content`, `given`, `acked` and `longest` are histories of what was
promised about the content that is there.

### Stream (and EventStream)

One run's stream: Redis (`counter`, `base`, `stored`), the binding (`bound`, `last`, `lock`), tasks
that emit (`EmitBegin`, `Number`, `Store`, `Send`, each an await), a resume (`ResumeBegin` to
`ResumeSend`, with `ResumeRebuild` from the device's own state), an end by the handler or the loop
(`EndLock`, `EndBind`, `EndMove`, `EndFinal`), the connection and the device's log.  `Mishaps` says
which of three things a run allows: a task is cancelled in an emit (its lock is released, its thread
goes on), a resume is cut off with its connection, the store refuses an event.

### ToolBroker (and ToolCalls)

The broker's table, the loop's batch, the emits that wait for the run's lock (`line`, served in
order: `asyncio.Lock` is fair), the stream's events of each call, and the handlers.  Each answer,
denial, deadline, cancel and disconnect closes a call through `Close`, the first one wins, and
`ServeFinish` announces before it resolves the future.  A connection is `new`, `live`, `left` and then
walks through its disconnect listeners in the router's order; a device may come back in between.  A
call's task ends with its outcome (`Hear`), or with an error that fails the turn: the store refused
its proposal, or its outcome cannot be written.  `TurnFails` is then `_infrastructure_failure`: the
other tasks are cancelled, and the run is paused whatever calls of it are still open.  `loose` marks
that a turn failed over calls whose end was not told, or that a device was back early; `unheard` that
the store refused a `tool_finished`.

### Turns

Who works on one run.  A task is a worker (on a message) or the loop's continuation (message 0); it
looks at the row, waits for the loop's lock, takes its turn, and may park the run.  Stopping a task
marks it; it goes at its next await (`Unwind`), and a pause it was making is left to its thread
(`adrift`, `Land`), as are the moves of handlers that are aborted with their connection
(`LeftBehind`).  `Accept` and `NextMessage` are the two sides of the queue; there is no await between
"the queue is empty" and the removal of the entry.  Rows are `running`, `paused` (a pause run.resume
ends), `budget` (one it does not) or `over`.

### Spending

What one run may spend.  Each server keeps a record of the run (`mem`: what it thinks was spent, the
base ceiling, the raised one, and whether it warned); the ledger in Postgres, the run row's own
counter and two keys in Redis are the other places (`ledger`, `credits`, `raised`, `warned`).  A turn
is `before_call` (`Remember`, `Exhausted`, `Stops`, `Call`), the call and `after_call` (`Reply`,
`Commit`), a warning between them (`SendWarning`), and `loop._pause` (`Park`, `Release`).  `Look`,
`Claim`, `SetCeiling`, `Announce` and `Undo` are the numbered steps of the grant route; two requests
may be there at once.  Around them are the charge that a stopped turn leaves to a thread (`late`,
`LateCommit`), a reconnect to this or another server, restarts, the factory's eviction and Redis's
expiry.  `mishaps` names what has gone wrong, and each property names the mishaps it gives way to:
what is not named there, and can happen, does no harm.  Steps 2 to 7 of a grant are one step, as they
change nothing; `before_call`'s reads are two.  What the pool says is chosen by the environment.

### DeviceRunner

Each call the server proposes is a task of the device's event loop (`at`), and an action is the code
between two awaits: `Turn` waits for the change before (`queue`, the `predecessor` chain), `Decide`
asks the policy and records (`decided`), `Show`, `Answer` and `Dismiss` are the prompt under its lock
(`asking`), `SendAllow` sends the approval and starts a change or lets a read wait for a place,
`ToolEnds` is the thread.  The server closes calls (`ClosedByServer`; the link logs that first), the
person interrupts, the run ends (`End`), `aclose` gives up after its fifteen seconds and leaves
threads behind (`Abandon`), and `Restart` is a new process that gets the calls replayed: only the
approvals table and the link's log survive it.  Any access to the store may fail, and the next one
succeed: a write that fails denies the call (`Record`), a lookup that fails counts as "not decided"
(`Proposed`; `unread` marks the calls it was wrong about).  What the lookup in the link's log finds is
left to chance (`Decide`): it may fail, and the terminal looks under another id than the link writes to.

### Checkpoints

Files, rows and blobs.  `Capture`, `Commit`, `Touch` and `Insert` are `snapshot` of one path as the
runner's `_checkpoint` calls it, with its numbering (`NextStep`); `Land` is the tool's thread that
makes the change, whether or not anybody still waits for it; `BeginRewind`, `Apply` and `Finish` are
`rewind`; `CollectBegin`, `Aim`, `Unlink` and `CollectEnd` are `gc_orphans`, a process of its own that
holds the store's write lock.  The session's start, cancel and rewind of a run are `StartRun`, `EndRun`
and the guard of `BeginRewind`.  Files are also changed from outside, blobs age and rot, the terminal
dies.  `ran` is what each change that has been made, and not undone, found.

### Gate

One account in "neurons" mode and one batch of `run_gated`.  The day's record can only be read and
written, so an adjustment is `AdjustRead` and `AdjustWrite`, and the admission loop and every task's
thread make theirs at the same time.  The loop scans (`AdmitFree`, `Admit`, `Admitted`, `Scanned`),
clears its event and sleeps (`Clear`, `Wake`); a task starts or finds its future cancelled (`RunOne`),
asks the model as often as it likes, each call with a booking of its own (`Ask`, `Proceed`, `Answer`,
`Failed`, `Broken`, `Recorded`), and releases the gate's booking (`ReleaseOuter`, `Finish`).  `Rollback` and
`TrueUp` are the two ways of `release_reservation`.  `AdmittedOpen` and `ProceedOpen` are a `reserve`
that raises: it fails open.  A call may cost more or less than it booked, and one that ends in an
error may be charged all the same.  `Bill` keeps three sums of a day: `real`, what its calls cost;
`owed`, what the record should be left with for them (what an answer named, the estimate where it
named nothing, nothing for a call rolled back); and `unnamed`, what they cost beyond that.  A day is
named by its age, and `Midnight` makes today yesterday.  `astray` is the history of what may make the
record wrong: an adjustment or a booking was `lost`, a booking `expired` before its release, or was
released behind `midnight`.

## Runs of TLC

| run | states | asks | bounds |
|---|---|---|---|
| `runs` | 417 k | cap, locks, legality, `ImplementsTable` | 2 threads, 2 runs, 1 device, cap 1, 2 attempts |
| `manager` | 564 k | clean ends, live content | 2 clients + sweep, 1 run |
| `buffer` | 1.6 M | `ListsLiveTogether`, `SizesAreExact`, `ReadsAreFaithful`, `NumbersRise` | 2 threads, 4 calls, 1 mishap, 3 records at most, 2 in a page |
| `stream` | 330 k | `SeenIsStored`, `FinalIsFresh`, `CatchesUp`, `ImplementsEventStream` | 2 emitters, 2 numbers + the end, 1 rebuild, 2 drops, every mishap |
| `broker` | 3.9 M | stranded calls, pauses, connections, `ImplementsToolCalls` | 2 calls, 2 connections, 2 at a time, cap 1 |
| `turns` | 1.2 M | queue, order, nobody works on a paused or ended run | 3 tasks, 2 connections, 3 messages, 1 waiting |
| `spending` | 1.7 M | `NoCallOverCeiling`, `WarnedOnce`, `GrantBuysACall` | 2 servers, 2 grants, base 2, chunk 1, calls of 0 or 2, 1 kind of mishap |
| `device_runner` | 676 k | `RunsOnce`, `AloneInOrder`, `ClosedStaysClosed`, `EndStopsWork` | an edit, a command, a read; any number of restarts; the decision of one call ever not found (`MaxUnread`) |
| `checkpoints` | 1.1 M | `RowsNameBlobs`, `EditsAreSaved`, `RewindUndoes` | 2 files, 1 content, 2 steps |
| `checkpoints_rewind` | | nothing lands behind a rewind: violated | same |
| `gate` | 1.1 M | `RecordIsExact`, `NeverUndercounts`, `EveryTaskEnds` | a gated task with 1 call, a free one with 2, a budget of two bookings; calls book 2 and cost 3 (gated) or 1 (free), or nothing where they fail |
| `gate_midnight` | | the record covers the usage over midnight: violated | same, every call costs 1 |

**Why the bounds are enough to be interesting.**  Races in `runs.py` are between two calls on one
device's lock or one row, and with a cap of one, two runs already exceed it; two attempts are one
retry and the end of the retries.  A run's content can be disturbed by two calls and the sweep, and a
third call only repeats one of them.  Four
calls of two threads on a buffer are a creation, two uses and a deletion, or two creations with a
use of each; an item has one or two records and a list holds three, so an append is refused, a read
needs two pages and falls between two appends, and one mishap is a reply lost on any request of any
of them.  Only the conversation is appended to and read (`Used`): the replay's calls are the same
code, and both lists are there to be created, lost and deleted.  Two emitters and a resume are three holders of one lock; two
numbers and the last event show a hole, a duplicate and a swap; two drops are a reconnect that is
dropped again.  Two calls with a cap of one show a refusal, and a call of a cancelled worker that still
counts; because of that cap only one call is *open* at a time in `broker`, while the other may be
ended and waiting to be announced.  Two connections are the old one being cleaned up and the new one
at work.  One waiting message, one active and one more reach the queue's limit, and three tasks are a
worker, its unwinding predecessor and a continuation; when all three are there, a fourth cannot start
(the bound delays it).  In `Turns`, `Serve` waits for every other connection: exact for two.

In `Spending` a base of two and calls of two let a run reach its ceiling, overspend by one call and be
granted more; a free call is one whose usage was not reported.  Two servers are enough for a record
that is behind.  One kind of mishap at a time names what each property gives way to (it may happen any
number of times); a larger run with two kinds and one grant found nothing more.  Where a second grant
request is there, nothing else goes wrong.  In `DeviceRunner` two changes and a read meet every rule of the
queue; a call is proposed again after every restart.  One call whose decision was not found may run
again and again (`runs` counts to two), beside two for which `RunsOnce` is claimed; to the other
properties it is a call like any other.  In `Checkpoints` two steps are two changes of one file
or of two, one content makes every blob shared, and a number is used for one change at a time.  In
`Gate` the two bookings of a budget of four are what the gate's task and its own model call hold, so
the other task's call has no room, or the gate's task waits; the one task's call is corrected upwards
and the other's downwards.  `AdmittedOpen`, `ProceedOpen` and `Expire` happen where nothing else went
wrong; of a behaviour in which an adjustment or a booking was lost nothing more is counted.

**Symmetry** is used in runs without liveness; the constants permuted (threads, run ids, calls,
connections, tasks) occur only in equalities and quantifiers.  `CHECK_DEADLOCK FALSE` stands in the
runs of `RunBuffer`, `Stream`, `ToolBroker`, `Turns`, `Spending`, `Checkpoints` and `Gate`, where a run
with every bound used up, or a batch that is over, has nothing more to do.

**Fairness.**  `stream` assumes that threads and handlers that
began finish, messages on a live connection arrive and the link reconnects (`link/reconnect.py`
retries for ever); nothing has to be emitted, and the catch-up is claimed only for behaviours without
a mishap.  `device_runner` assumes that the event loop runs a task that can go on and that a tool ends
(each has a limit of time or size); nothing is asked of the person, the server or the fifteen seconds
of `aclose`.  `gate` assumes that threads run, that a model call ends one way or another, that the
loop's sleep has its limit (0.25 to 5 seconds in the code) and that midnight comes; cancels, errors
of `reserve` and expiries need not happen.  The other modules claim safety only.  In particular that
abandoned runs expire is not claimed: nothing in the repository calls `expire_stale` (its docs speak of
a scheduled job), so there is no schedule to assume.

## Properties

*Runs.* `CheckedCap`: slots taken by calls that name the cap never exceed it.  `LocksFollowCalls`: a
lock is held exactly by the call between its count and its commit.  `MovesAreJudged`: each change of
a row is legal from the state it really had, by a call that expected that state.  `ImplementsTable`.
`EndedIsFinal` and `CapRespected` are there to be proved.

*RunManager.* `EndedRunIsClean`: when all calls have returned, an ended run has neither buffer nor
flag - but for a fault in a cleanup, and for a resume that does not look again.  `LiveContentKept`: no cleanup takes the buffer of an open run.

*RunBuffer.* `ListsLiveTogether`: no late write brings half a buffer back.  `SizesAreExact`: what
`BufferFull` is judged by is what the lists hold.  `ReadsAreFaithful`: a read has every item that was
acknowledged before it, none twice, in the order every other read has them.  `NumbersRise`.

*Stream.* `SeenIsStored`: "an event it saw but the server lost cannot exist".  `FinalIsFresh`: the
last event's number is above what the device has - but for an end that finds the run unbound and its
rebuilt replay empty, and after a resume that was cut off.  `CatchesUp`.  `ImplementsEventStream`.

*ToolBroker.* `CallsEndWithConnection`, `NoCallIsStranded` (an open call has a deadline
running or coming; an ended one has told its waiters or will), `PauseFinishesCalls` (a pause is
numbered behind the end of each call - until a turn fails over calls whose end was not told, a device
is back before its old connection is cleaned up, or the store refuses a `tool_finished`),
`ImplementsToolCalls`.

*Turns.* `NoMessageVanishes`, `GivenInOrder`, `NobodyWorksOn` (when a cancel ends the run or a lost
connection pauses it, everyone who worked on it is gone or told to stop - unless the device came back
during that very pause).

*Spending.* `NoCallOverCeiling`: a call begins only while all the run was ever charged, by whichever
server, is below the highest ceiling it ever had.  `WarnedOnce`: across turns, dropped records and
restarts.  `GrantBuysACall`: a run that was granted more makes a call before it is stopped again.
Each exempts the mishaps it names: the first a record that could not read ledger or pool, a late
thread's charge, the return to a server that knew the run, a crash over a charge, and a refused charge
whose record was renewed; the second a Redis that failed or forgot, and that return; the third a grant
with numbers of an earlier pause or one that was undone, Redis, and a charge that is late, refused or
lost.

*DeviceRunner.* `RunsOnce`: however often a call is proposed, to whichever process - unless its
decision was once not found though it was there.  `AloneInOrder`: a
change runs when those before it are over, threads included, and those behind it not decided.
`ClosedStaysClosed`: no change starts that the server told this process is closed.  `EndStopsWork`.

*Checkpoints.* `RowsNameBlobs`, `EditsAreSaved`: what a rewind needs is there, whatever ended or crashed
in between.  `RewindUndoes`: a rewind that ends well has put every file back to what the first change
from its step on found.  `EditsAreSaved` and `RewindUndoes` end where a rewind begins, or a file is saved
again, while the thread of an ended run is still to change it (`hurried`); `RowsNameBlobs` where the
collector takes a blob that a snapshot was reusing (`raced`).

*Gate.* `RecordIsExact`: when nobody works and nothing went astray, the record is what the answers
named (the estimate where they named nothing) and nothing of the gate's bookings.  `NeverUndercounts`:
it is never below what the calls cost, but for what no answer named - a charge for a call that ended in
an error, and what a call without usage cost above its estimate - and while a correction upwards is
under way; not after a lost adjustment, a failed booking or a release behind midnight.  `EveryTaskEnds`.

`PROJECT.json` pairs each with a plausible bug that breaks it.

## Disagreements between the code and its words

Each is a run that TLC must find violated; the quotes are in `PROJECT.json`.

1. **`checkpoints_rewind`** - Esc, and at once a rewind: the session has no run any more and does not
   wait for the tool that still writes, or gives up waiting after fifteen seconds.  Its change lands
   behind the rewind and has no row, although "every change from that step on is undone"
   (`tui/session.py:854`).
2. **`gate_midnight`** - a neurons booking is taken back on the day of its release, not on its own: a
   task that the gate admitted before midnight and whose model call is booked after it leaves the new
   day's record below what was used (`rate_ledger.py:1279`).

### Known limits that the models show and no run claims

- A run that was seen `created`, and was started and paused by others meanwhile, is taken to `running`
  by a bare `transition` that names no cap (`run_handlers.py:603`, `:875`, `:950`): the documented cap
  can be exceeded, and `CapOfCheckedResumes` proves that nothing else exceeds it.
- The sweep looks at the buffer, a device resumes the run, the sweep moves the row: a run that was
  just resumed is expired (`run_manager.py:562`).
- The end of a run whose rebuilt buffer has an empty replay, and which is not bound, is numbered 1
  (`run_handlers.py:793`); the device drops it as a duplicate.
- A call proposed between the cancel's hooks and the worker's cancellation gets no `tool_finished`
  (`run_handlers.py:748`).
- The worker reads the row before it waits for the loop's lock; when the continuation that holds it
  parks the run for its budget, the message's turn still calls the model (`run_handlers.py:677`).
- An append that finds its keys gone adds to the size counter behind the EXPIREs that had nothing to
  refresh: if its next request is lost, a hash without a TTL stays (`buffer.py:946`).
- The loop announces its pause and unbinds the run after it moved the row (`loop.py:1345`): a grant in
  between has bound the run for its new turn, which then emits to nobody.  An `_undo` that comes late
  may likewise pause and unbind a run that a second grant revived.
- A grant whose numbers are from an earlier pause lowers a ceiling raised since
  (`code_runs.py:225-226`); a run whose device moves to another server and back is judged there by a
  record that knows nothing of what was spent meanwhile (`metering.py:452`).
- Two threads' adjustments of one day's record may overlap and lose one (`rate_ledger.py:437`); from
  then on nothing is claimed of the record.
- The record does not show what a provider charges for a call that ended in an error
  (`llm_client.py:3457-3461` says so), nor what a call that reported no usage cost above its estimate
  (`rate_ledger.py:377-389`); `unnamed` counts both, and nothing bounds them.
- A freed slot may wake nobody: the event is cleared after the scan, and a cancelled task sets none
  (`concurrency_gate.py:371`); only the sleep's limit bounds the wait.  The gate's own booking takes
  part of the budget that the task's model call then asks for, and may be what refuses it.
- The collector judges a blob by its age and unlinks it later; a snapshot may take it in between
  (`checkpoints.py:690`; `raced` marks it).  Nothing outside the tests calls `gc_orphans`.
- A proposal that is refused, or an outcome that cannot be written, fails the turn at once: the other
  calls' tasks are cancelled and the run is paused over calls that are open, whose `tool_finished` comes
  behind the pause or never (`loop.py:1108`, `:781`, `:1351`; `loose`, `unheard`).
- A lookup of an earlier decision that fails counts as none (`runner.py:869`, with the comment "the audit
  write will fail and deny the call"): when only that one access failed, the write succeeds, and a
  call that an earlier process carried out is carried out again.  `RunsOnce` exempts such calls
  (`unread`).
- In the terminal program the runner knows its session by the conversation's id while the link logs
  under the run's (`tui/session.py:731-733`), so the log of an earlier process is never found
  (`runner.py:582`): a change that only an earlier process was told is closed may start.
- Reads that wait for a free place are not asked again whether they were cancelled (`runner.py:728`);
  `ClosedStaysClosed` is about changes.

- A resume that finds its run outside a resumable pause does not look at the row again: it may rebuild
  the buffer of a run that ends meanwhile (`run_manager.py:373`; `unfenced` marks it).
- A resume that is cut off leaves the run bound with a tracker of 0 (`run_handlers.py:906`), and the
  row `running` with no event and no continuation; `FinalIsFresh` excludes such behaviours.
- `_gone` deletes what is there when it gets to it, which may be another thread's claim or a rebuilt
  buffer; an append of several groups that straddles such a rebuild is acknowledged although a read
  does not show it.  `ReadsAreFaithful` speaks of content that was there all along.
- `next_seq` that is retried skips a number, and `BufferFull` is judged by a size read before the
  push, so two threads may exceed it together.
- A cancelled emit releases the run's lock while its thread goes on (`emitter.py:428`): numbers may be
  stored out of order.  The device's cursor repairs it, which `ImplementsEventStream` checks.
- A refused append after the counter moved is a hole (`emitter.py:275`) that only the next event or
  connection makes the device ask about.
- A device that is back while its old connection's runs are paused gets its run paused, perhaps with a
  call open (`run_handlers.py:853` and `:876`); `loose` and `late` mark it.
- A task that is stopped while it parks its run leaves the pause to a thread, which may land after a
  resume (`loop.py:418`).

## Proofs

Each component has one inductive invariant (`IInv`; `GateInv` and `StoreInv` in the two modules that
are proved about beside another), a theorem that it holds of every behaviour (`Safety`, `GateSafety`,
`StoreSafety`) and the theorems that follow from it.  The constants are arbitrary, within the
assumptions that the modules name.

**`RunsProofs`** - any number of threads, devices and runs and any cap: `TypeCorrect`, `CapIsKept`,
`LocksComeBack`, `MovesAreLegal`, `EndedStaysEnded` and `RunsImplementTable`, and
`CapOfCheckedResumes`: if no shape can leave a pause without naming the cap, the documented cap
(`CapRespected`) holds without exception - which pins the first of the known limits on the bare start
alone.  Assumed: the set of runs is finite, the cap and the attempts are positive, `None` is neither a
device nor a caller, and the shapes are shapes.

    IInv == TypeOK /\ RowsFit /\ CallsFit /\ LocksHeld /\ LocksOwned /\ SlotsReserved /\ CheckedCap

`CheckedCap` is not inductive: it needs to know that a call past its count still finds room.
`LocksHeld` (a call past its count holds its device's lock) gives at most one such call per device;
`LocksOwned` is the converse; `SlotsReserved` says that it finds room among the checked slots, which
holds after the count because checked slots are slots, and is kept because nobody else takes a checked
slot of the device without the lock (`SlotsStep`).  `CallsFit` ties what a call remembers to rows and
shapes, `RowsFit` rows to their history.  `MovesAreLegal` and `EndedStaysEnded` follow from `CallsFit`
and the conditional update; the refinement from mapping `Insert` and `Update` to the table's `Create`
and `Move` and every other step to a stutter.

**`RunManagerProofs`** - any number of threads on one run: `TypeCorrect`, `EndedRunsAreClean`,
`LiveContentIsKept`.  Assumed: the sweep is none of the clients.

    IInv == TypeOK /\ OpsFit /\ DeletesEnded /\ ContentFits /\ CleanUpIsComing

"When every call has returned" says nothing of the steps before.  `CleanUpIsComing` does: what an
ended run has left is always in the hands of some call that will take it away (a deletion, a discard,
or a resume that rebuilt the buffer and has yet to look again; a clear of the flag, or a cancel that
has yet to find that it came too late).  `DeletesEnded` says that whoever deletes is behind a move to
an end, which nothing undoes, so no deletion meets an open run; `ContentFits` that an open run's
content is there, lost, or about to be built.  `Keeps` is what the step of one call has to establish,
and `KeepsIsEnough` that the other calls need nothing more: with that, the number of threads does not
matter, and every action is one short lemma.

**`RunBufferProofs`** - any number of threads, calls and mishaps, lists and pages of any size:
`BothOrNeither`, `CountersAreExact`, `ReadersAgree`, `NumbersOnlyRise`.  Assumed: a list and a page
have room for a record.

    IInv == Types /\ ListsLiveTogether /\ SizesAreExact /\ ContentFits /\ StampsFit /\ PushesFit
              /\ RecordsFit /\ ReadsFit /\ PromisesFit

The first two properties are inductive with little more than types: a group of commands is carried out
whole, both lists are made by one and deleted by one, a push adds to a list that is there or to none
(`RPUSHX`), and the counter of a list is reset with it.  Reads are the hard part, as a read, the
appends and a deletion with a new creation go on between its pages.  `StampsFit` says that a creation
fills in under a stamp that no content has had and nobody else holds, so what a call has seen of an
older content can never pass for the present one.  `PushesFit` ties what an append has still to push
to what of its item is in the list, piece by piece, and `RecordsFit` that an item's records agree on
their count, also when one landed twice: so the last push completes the item.  `ReadsFit` says that a
reader has read the beginning of the list and that what it is owed is complete there; `PromisesFit`
that all that was acknowledged is complete, and every answer that was given is the beginning of what a
reader would get now.  What a reader makes of a list is no fold: `Ends` is the set of places where
an item is completed, and the n-th item is at the place with n of them up to it.  A longer list has
the same first places, as its places are ranked without a gap (`Enumeration`, from the library's theorem on
injections between finite sets of one size), and an item is completed at one place only (`CompletesOnce`).

**`StreamProofs`** - any number of emitting tasks, events, rebuilds and lost connections, any mishaps:
`LogIsStored`, `FinalAhead` and `Refinement`.  Assumed: a number can be handed out, and the words for
"nobody", the resume, the end and the last event are no emitters.

    IInv == Types /\ LocksFit /\ OwnersFit /\ NumbersFit /\ TasksFit
              /\ EventsFit /\ WireFits /\ LogFits /\ GoneFits /\ TrackerFits

`LocksFit` and `OwnersFit` say who holds the lock, and that a task which was not told to stop works
with the binding that is there; one whose thread goes on alone may not, and its number then moves no
tracker that counts.  `NumbersFit` and `TasksFit` are why nothing is stored twice: the counter is ahead
of every stored event, the numbers that threads hold differ, and nothing is at them yet.  `EventsFit`,
`WireFits` and `LogFits` follow an event from the replay to the device; only the last event may be on
the wire without being what is stored, and then the device drops it.  `GoneFits` is the rebuild: while
the buffer is gone nothing is on its way, and a resume asks from the end of the device's log, so the
counter goes on where the device is.  `TrackerFits` is the tracker of a bound run, which is ahead of
the device except in the two cases that `FinalIsFresh` leaves out.  The device's log is then the
beginning of the stored stream, which only a rebuild and the end cut, and never below the log
(`BeginningIs`, `StreamSteps`).  That the replay has an n-th event is the library's theorem on injections
between finite sets of one size.

**`ToolBrokerProofs`** - any number of calls and connections, any limits: `NeverStranded`,
`EndsWithConnection`, `PausesFinishCalls` and `Refinement`.  Assumed: the set of calls is finite (what
ends together is announced one by one), the limits are positive, and `"none"` is no connection.

    IInv == TypeOK /\ CallsFit /\ LineFits /\ LinksFit /\ CallsEndWithConnection
              /\ OneConnection /\ TurnsFit /\ PausedFits /\ StreamFits /\ PauseFinishesCalls

The run's lock is a line of emits, and what a call is waiting for is its place there.  `CallsFit` says
where: a proposal stands in the line once, before the finish of its call, and nobody was told while
either stands there; an open call has its deadline or its proposal, an ended one its finish - so nobody
is stranded, and the event, the outcome and the waiters come in the order `ToolCalls` promises.
`LineFits` says that the emits of a binding that is gone stand in front of all others, and that one pause
waits at most.  With these five (`Base`) three of the four theorems follow.  The fourth is about the
stream: `StreamFits` says that whatever call is, or will be, on the stream is finished there, or will
be, or is open, and that in front of a pause each of them is.  It needs to know that a pause begins when
no call is open and that no turn opens one (`OneConnection`, `TurnsFit`, `PausedFits`), and gives way,
as the property does, once a turn failed over calls whose end was not told, a device is back early, or
the store refused a `tool_finished`.

**`TurnsProofs`** - any number of tasks, connections and messages, any limit of the queue and of a
turn: `Types`, `NothingVanishes`, `InOrder`, `WorkStops`.  Assumed: a turn has a step, and `None` is
neither a task nor a connection.

    IInv == TypeOK /\ TasksFit /\ HandlersFit /\ PausersFit /\ SentFits /\ AskedFits /\ Ordered /\ FatesFit

`TasksFit` is why a stop reaches everyone: a task that was not told to stop is the entry's worker or
the run's continuation, so taking both away leaves nobody (`HandlersFit` and `PausersFit` say which of
the two a handler has taken away, and that it is alone).  It is also why no message waits for nobody: a
queue has an entry, and an entry a live worker.  `Ordered` lines up what was given, what the worker
holds and what the queue holds; `SentFits` and `AskedFits` put the message that is being accepted behind
them all.  `FatesFit` says where a message that waits is.

**`AccountProofs`, of `Spending`** - any number of servers and grant requests, any ceiling, chunk, charges and
mishaps: `TypesHold`, `CeilingHolds`, `WarnsOnce`, `GrantsBuy`.  Assumed: the base ceiling and the chunk
are positive, charges are natural numbers, and `None` is no server.

    IInv == Types /\ TurnFits /\ Bounded /\ Booked /\ Kept /\ Known /\ NoCallOverCeiling
              /\ WarningsFit /\ GrantsFit

What was charged is in one of three places: `Booked` says that the ledger and what is on the way to it
hold all of it, `Kept` and `Known` that the record of the server the device is on does too, unless it is
new and has not read the ledger.  Each gives way to the mishaps that its property names, and to no
other; that these lists are long enough whatever goes wrong together is what TLC, with one kind of mishap at
a time, cannot show.  `Bounded` is the other direction: no copy is ahead of the truth.  `WarningsFit`
carries the warning that is decided but not sent; `GrantsFit` says that from a claim on no turn is at
work and that the numbers a grant has read are above all that was charged until it has set them.

**`AccountProofs`, of `Gate`** - any number of tasks and of model calls, any limit, ceiling, estimate
and costs, above the estimate or below it: `SettlesExactly`, `CountsWhatCost`.  Assumed: a batch is finite
(it is a list), the amounts are positive and a ceiling fits the limit; no task is gated and free at
once; no task is named as one of the places where a thread stands, and `Nothing` is no cost, no
reservation and no thread.

    GateInv == GateTypes /\ PlacesFit /\ Charged /\ Accounted

"When nobody works" says nothing of the steps before, and at each of them the record is off by what the
threads have in hand.  `ThreadClaim` is that amount: the bookings that a thread's place entitles it to,
less the adjustments it has still to make.  `Accounted` says that the record of each day is what it
owes to its calls (`owed`) and the claims of all threads together (more than that once a reservation
has expired).  `Charged` says that `owed` and `unnamed` together cover the cost.  `BookingsFit` ties a
thread's adjustments to its place: all that is under way lowers the record, but for the correction of a
call that cost more than it booked.  A claim is negative only by such a rise, so where none is under way
the record is at least what is owed, and with `unnamed` at least the cost; at rest the claims are nothing.
`Covered` says that the rises of all threads together are owed already.  A step moves one thread's claim by as much as it moves the record
(`MovesClaim`), except where it is written over a value that another thread has changed since it was
read: that is "lost", and nothing is claimed from then on.  The floor at zero in the code's write is never
reached otherwise: what would be left is what is owed, and other claims, which fall below zero by the rises
at most, and those are owed (`Covered`).
At midnight every claim moves to the day before with the record.  The sum has no induction here:
`IsSum` says that there are partial sums in an order of the threads that is fixed, from the first to
the last, and that it changes by what one of its members does is read off those (`Least`, from the well-founded
order of the natural numbers).

**`DeviceProofs`, of `DeviceRunner`** - any number of calls, whichever of them are changes: `TypeCorrect`,
`CallsRunOnce`, `ChangesRunAlone`, `ClosedChangesStay`.  Assumed: the changes are calls, edits are
changes, some read may run, and `Nobody` is no call.

    IInv == TypeOK /\ QueueFits /\ EndCancels /\ ThreadsFit /\ DecidedOnce /\ RunsOnce /\ ClosedIsKnown

`QueueFits` is the chain of predecessors: a change past its wait has none before it that is not over.
That alone does not make a change run alone, as an end may leave a thread behind (`Abandon`);
`EndCancels` closes the gap, since behind an end every task is cancelled and starts nothing, and
`ThreadsFit` counts the threads.  `DecidedOnce` is why the approvals table is enough across restarts: a
call whose decision was never missed has none while it is on its way to one, and has not run before it
has one.  `ClosedIsKnown` says that a change which waits for its answer or its approval is cancelled once
this process was told that the server closed it.

**`DeviceProofs`, of `Checkpoints`** - any number of steps, files and contents: `StoreTypeCorrect`,
`ChangesAreSaved`, `BlobsAreKept`, `RewindsUndo`.  Assumed: `MaxStep` is a natural number and the words for "absent",
"other" and the collector's places are no contents.

    StoreInv == StoreTypeOK /\ SnapshotFits /\ NumbersAreNew /\ EditsAreSaved /\ RowsAreChanges /\ ChangesFit
              /\ CaptureFits /\ RewindFits /\ BlobsFit

A rewind restores the row of the *first* change of a file from its step on, so it has to be known that
this row holds what a change found, and that no later row hides in front of it.  `SnapshotFits` and
`NumbersAreNew` say that a snapshot's number is above every row's; `CaptureFits`, `ChangesFit` and
`RowsAreChanges` carry what the snapshot read to the row, to the thread that writes the file, and into
the history; `RewindFits` says that the plan is still the plan and which part of it is done.
All but the blobs give way once `hurried` (a rewind or a save over the thread of an ended run).
`BlobsFit` is the order of `snapshot` against that of `gc_orphans`: a blob is fresh before its row is
there, and the collector aims at no named one.  That a file's first change exists is the minimum of a finite
set of steps, from the library's theorem on strict subsets.

*Model-checked only*: liveness (`CatchesUp`, `EndStopsWork`, `EveryTaskEnds`), which these provers
do not do.  Every invariant and action property of the passing runs, and the three refinements, are
theorems.

## Not modelled, and why

- **Ciphers and compression of the buffer's records**: a record is whole or absent.  A sealed buffer
  (a retired key) is in `RunManager`, which uses the buffer whole, as `Stream` does.
- **Grants** are in `Spending` up to the turn that they start, and in `Runs` and `RunManager` as a
  move; `Turns` does not have the continuation that the resume hooks launch.  The account's own
  warning, the pool's arithmetic and the ledger's rows are inputs.
- **Turn content**: the model's stream, plan mode, the budgeted context, metering's prices.  A turn is
  a bounded number of model calls that may end or park.
- **Handshake, credentials, revalidation, limiter, message validation**: a connection begins when it
  is registered.
- **On the device**: the policy's parser and rules (any verdict is possible), snapshots of several paths,
  size limits and pruned sessions, the runner's plan mode and edited inputs, the SQLite store beyond
  what a transaction keeps.  Commands (`bash`) take no checkpoint in the code.
- **Gate and ledger**: "tokens" and "requests" mode, whose windows and headroom are other arithmetic; the
  choice of a chain's next account and its back-off.
- **Older pipeline, daemon, frontend**: separate programs that share the backend's process.
- **Retention** of finished calls (256, 900 s) and statistics; `tool_stream` output, which is live only.

## Plan

Done in this order: run table (the foundation of the others), its proofs, run manager, stream,
broker, turns, buffer, checkpoints, device runner, spending, gate; proofs of run manager, device runner,
checkpoints, broker, turns, spending, stream, buffer and gate.  What is left is more of the system:

1. `AgentLoop`: batches with their flush and healing (calls and results pair up), plan mode
   (`set_mode`, `_settle_mode`), counters, the advisory approval state.
2. `DeviceSession`: the row against the last announced state when everything is quiet, composing
   handlers, emitter and run manager.
3. The link's back-off, outbox and pending starts; the rate ledger's other modes.

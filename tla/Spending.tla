------------------------------- MODULE Spending -------------------------------
(***************************************************************************)
(* What one run may spend: backend/codeagent/metering.py asks before each  *)
(* model call and charges after it, from a record each server keeps of the *)
(* run, the ledger in Postgres and two kinds of keys in Redis; the loop    *)
(* (loop.py) parks the run when it may not go on, and the grant route      *)
(* (backend/api/routes/code_runs.py) raises its ceiling and restarts it.   *)
(* The device's account spends elsewhere too: what the pool says is chosen *)
(* by the environment, and its own warning, which takes the way of the     *)
(* run's, is left out.  The run's other pauses, and cancels, are in Turns; *)
(* a connection that is lost and a resume are one step here.               *)
(***************************************************************************)
EXTENDS Naturals, FiniteSets, FiniteSetsExt

CONSTANTS Server,       \* processes of the backend
          Grant,        \* grant requests that are there at once
          Base,         \* RunCeilingPolicy.base, the pool being known
          Chunk,        \* RunCeilingPolicy.chunk
          Charge,       \* what a call may cost; 0 is a usage that was not reported
          MaxTotal,     \* bound: no call begins above it
          MaxCeiling,   \* bound: no grant asks for more
          MaxMishaps    \* bound: kinds of mishaps in one behaviour

None == "none"

ASSUME SpendingAssumption ==
  /\ None \notin Server
  /\ Base \in Nat \ {0} /\ Chunk \in Nat \ {0}
  /\ Charge \subseteq Nat /\ {MaxTotal, MaxCeiling} \subseteq Nat /\ MaxMishaps \in Nat

VARIABLES row,          \* the run's state: running, or paused_budget
          bound,        \* the emitter of the device's server holds the run
          place,        \* the server the device is connected to
          mem,          \* each server's _RunState of the run
          turn,         \* the turn at work: its server, its step, its charge, and a warning it is about to send
          late,         \* a charge whose turn was stopped while a thread writes it
          ledger,       \* the ledger's sum for the run
          credits,      \* the run row's own counter
          raised,       \* the raised ceiling in Redis, 0 for none
          warned,       \* the run was warned, in Redis
          grant,        \* the grant requests
          total,        \* history: all the run was charged
          highest,      \* history: the highest ceiling there was
          sent,         \* history: the warnings the run sent
          fresh,        \* history: a grant raised the ceiling with no turn at work, and no call began since
          mishaps       \* history: what went wrong

stores  == <<ledger, credits, raised, warned>>
history == <<total, highest, sent, fresh>>
vars    == <<row, bound, place, mem, turn, late, stores, grant, history, mishaps>>

Blank == [spent |-> 0, hydrated |-> FALSE, base |-> 0, raised |-> 0, warned |-> FALSE, loaded |-> FALSE]
NoTurn == [on |-> None, at |-> "idle", charge |-> 0, warn |-> FALSE]
NoLate == [on |-> None, charge |-> 0]
NoGrant == [at |-> "idle", on |-> None, previous |-> 0, to |-> 0, was |-> FALSE, stale |-> FALSE, quiet |-> FALSE]

Larger(a, b) == IF a < b THEN b ELSE a

Init ==
  /\ row = "running" /\ bound = TRUE /\ place \in Server
  /\ mem = [s \in Server |-> Blank]
  /\ turn = NoTurn /\ late = NoLate
  /\ ledger = 0 /\ credits = 0 /\ raised = 0 /\ warned = FALSE
  /\ grant = [g \in Grant |-> NoGrant]
  /\ total = 0 /\ highest = Base /\ sent = 0 /\ fresh = FALSE
  /\ mishaps = {}

At(g, at) == grant[g].at = at
Alone == Cardinality({g \in Grant : ~At(g, "idle")}) <= 1

\* Bound: where a second request is there, nothing else goes wrong.
Mishap(ms) == /\ mishaps' = mishaps \union ms
              /\ Cardinality(mishaps') <= MaxMishaps
              /\ Alone \/ ms \subseteq {"stale"}

Unless(ok, mishap) == IF ok THEN {} ELSE {mishap}

\* The ledger is read while a thread still writes a stopped turn's charge.
Behind == Unless(late = NoLate, "late")

------------------------------------------------------------------------------
(* A turn: before_call, the call, after_call.                              *)
Turn(at) == turn.at = at /\ ~turn.warn
Goes(at) == turn' = [turn EXCEPT !.at = at]
Memory == mem[turn.on]

Effective(m) == Larger(m.base, m.raised)
Reached(m) == Effective(m) # 0 /\ m.spent >= Effective(m)

StartTurn ==
  /\ row = "running" /\ turn = NoTurn
  /\ turn' = [NoTurn EXCEPT !.on = place, !.at = "before"]
  /\ grant' = [g \in Grant |-> [grant[g] EXCEPT !.quiet = FALSE]]
  /\ UNCHANGED <<row, bound, place, mem, late, stores, history, mishaps>>

\* Fault: a record does not ask Redis for the flags.
LoadNothing(m) == [m EXCEPT !.loaded = TRUE]

\* _load_warned and _hydrate, each once for a record: the flags in Redis, whether they could be
\* read or not, and the ledger's sum, asked for until it could be read.
Load(m) == [m EXCEPT !.loaded = TRUE, !.warned = @ \/ warned]
Hydrated(m) == [m EXCEPT !.hydrated = TRUE, !.spent = Larger(@, ledger)]

Remember ==
  /\ Turn("before") /\ Goes("judge")
  /\ \E flags, sum \in BOOLEAN :
       /\ (Memory.loaded => flags) /\ (Memory.hydrated => sum)
       /\ LET m == IF Memory.loaded THEN Memory
                   ELSE IF flags THEN Load(Memory) ELSE [Memory EXCEPT !.loaded = TRUE]
          IN mem' = [mem EXCEPT ![turn.on] = IF m.hydrated \/ ~sum THEN m ELSE Hydrated(m)]
       /\ Mishap(Unless(flags, "redis") \union Unless(sum, "unread")
                 \union (IF ~Memory.hydrated /\ sum THEN Behind ELSE {}))
  /\ UNCHANGED <<row, bound, place, late, stores, grant, history>>

\* The pool is used up.
Exhausted ==
  /\ Turn("judge") /\ Goes("park")
  /\ mem' = [mem EXCEPT ![turn.on].base = Base]
  /\ UNCHANGED <<row, bound, place, late, stores, grant, history, mishaps>>

Highest(m) == [m EXCEPT !.raised = Larger(@, raised)]

\* A pool that cannot be read lets the call pass; and _ceiling_now: Redis is asked when the run is
\* about to stop, or no ceiling is known.
Judged(pool, redis) ==
  LET m == IF pool THEN [Memory EXCEPT !.base = Base] ELSE Memory
  IN IF redis /\ (Effective(m) = 0 \/ Reached(m)) THEN Highest(m) ELSE m

\* WARNING_PERCENT
Nearly(m) == Effective(m) # 0 /\ 100 * m.spent >= 80 * Effective(m)

\* _maybe_warn: the record and Redis know of a warning before it is sent.
Record(written) == warned' = (warned \/ written)

\* _warn_run from the record m, on the way to `at`, after other things may have failed.
WarnRun(m, at, failed) ==
  \E written \in BOOLEAN :
    IF Nearly(m) /\ ~m.warned
      THEN /\ turn' = [turn EXCEPT !.at = at, !.warn = TRUE, !.charge = 0]
           /\ mem' = [mem EXCEPT ![turn.on] = [m EXCEPT !.warned = TRUE]]
           /\ Record(written) /\ Mishap(failed \union Unless(written, "redis"))
      ELSE /\ written /\ Mishap(failed)
           /\ turn' = [turn EXCEPT !.at = at, !.charge = 0]
           /\ mem' = [mem EXCEPT ![turn.on] = m] /\ UNCHANGED warned

SendWarning ==
  /\ turn.warn /\ sent' = sent + 1
  /\ turn' = [turn EXCEPT !.warn = FALSE]
  /\ UNCHANGED <<row, bound, place, mem, late, stores, grant, total, highest, fresh, mishaps>>

\* The end of before_call: the run stops at its ceiling, or a call begins.
Stops ==
  /\ Turn("judge")
  /\ \E pool, redis \in BOOLEAN :
       LET m == Judged(pool, redis)
       IN Reached(m) /\ WarnRun(m, "park", Unless(pool, "unjudged") \union Unless(redis, "redis"))
  /\ UNCHANGED <<row, bound, place, late, ledger, credits, raised, grant, history>>

Call ==
  /\ Turn("judge") /\ total < MaxTotal
  /\ \E pool, redis \in BOOLEAN :
       LET m == Judged(pool, redis)
       IN ~Reached(m) /\ WarnRun(m, "call", Unless(pool, "unjudged") \union Unless(redis, "redis"))
  /\ fresh' = FALSE
  /\ UNCHANGED <<row, bound, place, late, ledger, credits, raised, grant, total, highest, sent>>

\* Fault: the record's total moves once the ledger has the charge.
Uncounted(m, charge) == m

\* after_call: the record's total moves first, whatever the ledger does.
Counted(m, charge) == [m EXCEPT !.spent = @ + charge]

Reply ==
  /\ Turn("call")
  /\ \E c \in Charge :
       /\ total' = total + c
       /\ mem' = [mem EXCEPT ![turn.on] = Counted(@, c)]
       /\ turn' = [turn EXCEPT !.at = IF c = 0 THEN "before" ELSE "commit", !.charge = c]
  /\ UNCHANGED <<row, bound, place, late, stores, grant, highest, sent, fresh, mishaps>>

\* The ledger's row, which may fail, and with it or not the run's counter; then the warning.
\* The loop takes its next step, or the turn is over.
Commit ==
  /\ Turn("commit")
  /\ \E failed \in SUBSET {"uncommitted", "uncounted"} :
       /\ ledger' = ledger + (IF "uncommitted" \in failed THEN 0 ELSE turn.charge)
       /\ credits' = credits + (IF "uncounted" \in failed THEN 0 ELSE turn.charge)
       /\ WarnRun(Memory, "before", failed)
  /\ UNCHANGED <<row, bound, place, late, raised, grant, history>>

EndTurn ==
  /\ Turn("before") /\ turn' = NoTurn
  /\ UNCHANGED <<row, bound, place, mem, late, stores, grant, history, mishaps>>

\* loop._pause: the row, then the device's error and the stream, and last the emitter; a row that
\* was paused by another hand is left to it.
Park ==
  /\ Turn("park")
  /\ IF row = "paused" THEN turn' = NoTurn ELSE Goes("release")
  /\ row' = "paused"
  /\ UNCHANGED <<bound, place, mem, late, stores, grant, history, mishaps>>

Release ==
  /\ Turn("release") /\ turn' = NoTurn
  /\ bound' = (bound /\ turn.on # place)
  /\ UNCHANGED <<row, place, mem, late, stores, grant, history, mishaps>>

------------------------------------------------------------------------------
(* The grant route.                                                        *)
Moves(g, at) == grant' = [grant EXCEPT ![g].at = at]
Gone(g) == grant' = [grant EXCEPT ![g] = NoGrant]

\* Fault: the chunk is added to the base, whatever was spent.
NumbersOfBase(g) == [previous |-> raised, to |-> Larger(Base, raised) + Chunk]

\* Step 7: the larger of the ledger's figure and the run row's counter, and every ceiling there was.
Numbers(g) == [previous |-> raised, to |-> Max({Base, raised, credits, ledger}) + Chunk]

\* Steps 2 to 7, one behind the other: nothing is changed, and whoever comes late fails at the claim.
Look(g) ==
  /\ At(g, "idle") /\ row = "paused"
  /\ Numbers(g).to <= MaxCeiling /\ (mishaps # {} => \A h \in Grant : At(h, "idle"))
  /\ grant' = [grant EXCEPT ![g] =
                 [at |-> "claim", on |-> place, previous |-> Numbers(g).previous, to |-> Numbers(g).to,
                  was |-> FALSE, stale |-> FALSE, quiet |-> FALSE]]
  /\ Mishap(Behind)
  /\ UNCHANGED <<row, bound, place, mem, turn, late, stores, history>>

\* Step 8: one request moves the run; who read before that has numbers of an earlier pause.
Claim(g) ==
  /\ At(g, "claim") /\ row = "paused"
  /\ row' = "running"
  /\ grant' = [h \in Grant |-> IF h = g THEN [grant[g] EXCEPT !.at = "set", !.quiet = TRUE]
                               ELSE [grant[h] EXCEPT !.stale = ~At(h, "idle")]]
  /\ UNCHANGED <<bound, place, mem, turn, late, stores, history, mishaps>>

\* 409, or 429 at the cap.
Refuse(g) ==
  /\ At(g, "claim") /\ Gone(g)
  /\ UNCHANGED <<row, bound, place, mem, turn, late, stores, history, mishaps>>

\* Step 9: the raised ceiling, and run_guard's grant_more.
SetCeiling(g) ==
  /\ At(g, "set")
  /\ \/ /\ grant' = [grant EXCEPT ![g].at = "bind", ![g].was = bound]
        /\ raised' = grant[g].to /\ highest' = Larger(highest, raised')
        /\ fresh' = grant[g].quiet
        /\ Mishap(IF grant[g].stale THEN {"stale"} ELSE {})
     \/ /\ grant' = [grant EXCEPT ![g].at = "undo", ![g].was = bound]
        /\ UNCHANGED <<raised, highest, fresh, mishaps>>
  /\ UNCHANGED <<row, bound, place, mem, turn, late, ledger, credits, warned, total, sent>>

\* Steps 10 and 11: the emitter, the announcement, and the turn that may start.
Announce(g) ==
  /\ At(g, "bind") /\ bound' = TRUE
  /\ Gone(g) \/ Moves(g, "undo")
  /\ UNCHANGED <<row, place, mem, turn, late, stores, history, mishaps>>

\* _undo: the ceiling that was, the emitter, the row; each may fail and the rest is tried.
Undo(g) ==
  /\ At(g, "undo") /\ Gone(g)
  /\ raised' \in {raised, grant[g].previous}
  /\ bound' = (bound /\ grant[g].was)
  /\ row' \in {row, "paused"}
  /\ Mishap({"undone"})
  /\ UNCHANGED <<place, mem, turn, late, ledger, credits, warned, history>>

------------------------------------------------------------------------------
(* Around them: lost connections, restarts, eviction and expiry.           *)
\* A stopped turn: its charge is in a thread's hands, or never was reported.
Stopped ==
  /\ IF turn.at = "commit"
       THEN late = NoLate /\ late' = [on |-> turn.on, charge |-> turn.charge]
       ELSE UNCHANGED late
  /\ turn' = NoTurn

\* Fault: the charge stays to be written.
LateCommitAgain ==
  /\ late # NoLate /\ ledger + late.charge <= MaxTotal + 1
  /\ ledger' = ledger + late.charge
  /\ UNCHANGED <<row, bound, place, mem, turn, late, credits, raised, warned, grant, history, mishaps>>

LateCommit ==
  /\ late # NoLate /\ late' = NoLate
  /\ ledger' = ledger + late.charge
  /\ UNCHANGED <<row, bound, place, mem, turn, credits, raised, warned, grant, history, mishaps>>

\* The device is back, here or on another server, and resumes the run.
Reconnect ==
  /\ turn.at # "park" /\ Stopped
  /\ place' \in Server
  /\ bound' = (row = "running")
  /\ IF place' = place THEN UNCHANGED mishaps
     ELSE Mishap({IF mem[place'] = Blank THEN "moved" ELSE "returned"})
  /\ UNCHANGED <<row, mem, stores, grant, history>>

\* A server's process dies, with all it was doing, and the device resumes.
Restart(s) ==
  /\ turn.on = s => turn.at # "park"
  /\ Mishap({IF s = late.on \/ (s = turn.on /\ turn.at = "commit") THEN "crash" ELSE "restart"})
  /\ mem' = [mem EXCEPT ![s] = Blank]
  /\ IF turn.on = s THEN turn' = NoTurn ELSE UNCHANGED turn
  /\ grant' = [g \in Grant |-> IF grant[g].on = s THEN NoGrant ELSE grant[g]]
  /\ bound' = (IF s = place THEN row = "running" ELSE bound)
  /\ late' = (IF late.on = s THEN NoLate ELSE late)
  /\ UNCHANGED <<row, place, stores, history>>

\* The factory's LRU drops a run's record between two turns.
Evict(s) ==
  /\ turn.on # s /\ mem[s] # Blank
  /\ Mishap({"evicted"})
  /\ mem' = [mem EXCEPT ![s] = Blank]
  /\ UNCHANGED <<row, bound, place, turn, late, stores, grant, history>>

\* The keys in Redis are gone after six hours.
Lapse ==
  /\ raised # 0 \/ warned
  /\ Mishap({"lapsed"})
  /\ raised' = 0 /\ warned' = FALSE
  /\ UNCHANGED <<row, bound, place, mem, turn, late, ledger, credits, grant, history>>

Next ==
  \/ StartTurn \/ Remember \/ Exhausted \/ Stops \/ Call \/ Reply \/ Commit \/ EndTurn
  \/ SendWarning \/ Park \/ Release
  \/ \E g \in Grant : \/ Look(g) \/ Claim(g) \/ Refuse(g) \/ SetCeiling(g)
                      \/ Announce(g) \/ Undo(g)
  \/ LateCommit \/ Reconnect \/ Lapse
  \/ \E s \in Server : Restart(s) \/ Evict(s)

Spec == Init /\ [][Next]_vars

------------------------------------------------------------------------------
(* Types; no record, store or counter knows of more than was charged, and  *)
(* none of a ceiling there never was.                                      *)
TypeOK ==
  /\ row \in {"running", "paused"} /\ {bound, fresh, warned, turn.warn} \subseteq BOOLEAN /\ place \in Server
  /\ \A s \in Server : /\ mem[s].spent <= total /\ mem[s].raised <= highest
                       /\ mem[s].base \in {0, Base}
  /\ turn.on \in Server \union {None} /\ turn.charge \in Charge \union {0}
  /\ turn.at \in {"idle", "before", "judge", "call", "commit", "park", "release"}
  /\ ledger + late.charge <= total /\ credits <= total
  /\ \A g \in Grant : grant[g].at \in {"idle", "claim", "set", "bind", "undo"}

Met(ms) == mishaps \intersect ms # {}
Renewed == Met({"restart", "crash", "evicted", "moved"})

\* A call begins only while all the run was charged, by whichever server and turn, is below the
\* highest ceiling it ever had: a run overspends by one call.  The code gives way where it says
\* so (a ledger or a pool that could not be read), where a charge the ledger refused is known to
\* no record, and where a record is behind (metering.py:417, :452): a thread still writes the
\* charge of a stopped turn, or the device is back on a server that knew the run before.
NoCallOverCeiling ==
  turn.at = "call" /\ Memory.hydrated /\ Memory.base # 0 =>
    \/ total < highest
    \/ Met({"late", "returned", "crash"})
    \/ Met({"uncommitted"}) /\ Renewed

\* The device is warned once in the life of a run, across its turns, the records that are dropped
\* and the servers that restart (metering.py:553), unless Redis failed or forgot, or the device
\* returned to a server whose record is from before the warning.
WarnedOnce ==
  sent <= 1 \/ Met({"redis", "lapsed", "returned"})

\* A run that was granted more is not stopped at its ceiling again before it made a call
\* (code_runs.py:225): the grant counts all that was spent and every ceiling there was.  A grant
\* that read its numbers in an earlier pause does not keep this, nor one that was undone; nor when
\* Redis failed or forgot, or a charge was late, refused or lost with its server.
GrantBuysACall ==
  [][Stops => \/ ~fresh
              \/ Met({"stale", "undone", "redis", "lapsed", "late", "crash", "uncommitted"})']_vars
=============================================================================

--------------------------- MODULE ToolBrokerProofs ----------------------------
(***************************************************************************)
(* What holds of codeagent/broker.py and its callers for every set of      *)
(* calls and connections: the proofs of the properties of ToolBroker.      *)
(***************************************************************************)
EXTENDS ToolBroker, FiniteSetTheorems, SequenceTheorems, TLAPS

(* Types of the variables the line and the stream are made of.             *)
Entry == [t : {"proposed", "finished"}, of : Call, live : BOOLEAN]
           \union [t : {"paused"}, of : Conn \union {None}, live : BOOLEAN]
           \union [t : {"resumed", "over"}, of : {None}, live : BOOLEAN]
CallRecord == [at : {"no", "open", "over", "dropped"}, status : Status \union {None},
               conn : Conn \union {None}, timer : BOOLEAN, denying : BOOLEAN]

CallTypes ==
  \A c \in Call : /\ call[c].at = "over" => call[c].status \in Status
                  /\ call[c].at = "open" => call[c].conn \in Conn

TypeOK ==
  /\ call \in [Call -> CallRecord]
  /\ done \in [Call -> {"no", "told", "raised"}]
  /\ waiter \in [Call -> {"no", "waits", "back", "cut", "failed"}] /\ turn \in BOOLEAN
  /\ line \in Seq(Entry)
  /\ about \in [Call -> Seq(Status \union {"proposed"})]
  /\ latest \in {None, "call", "paused", "running", "over"}
  /\ bound \in BOOLEAN /\ row \in {"running", "paused", "over"}
  /\ conns \in [Conn -> {"new", "live", "left", "stopping", "hook", "pause", "pausing",
                         "paused", "done"}]
  /\ reg \in Conn \union {None}
  /\ cancel \in {"no", "hooked", "stopped", "ending", "done"}
  /\ loose \in BOOLEAN /\ unheard \in BOOLEAN
  /\ CallTypes

Waits(kind, c, i) == line[i].t = kind /\ line[i].of = c

(* A proposal waits before the finish of its call, each of them once, and  *)
(* nobody was told yet; a call the loop never asked for is nowhere.        *)
CallFits(c) ==
  /\ \A i \in 1 .. Len(line) :
       /\ Waits("proposed", c, i) => done[c] = "no" /\ about[c] = <<>>
            /\ call[c].at \in {"open", "over"}
       /\ Waits("finished", c, i) => done[c] = "no" /\ call[c].at = "over"
       /\ waiter[c] = "no" => ~Waits("proposed", c, i) /\ ~Waits("finished", c, i)
  /\ \A i, j \in 1 .. Len(line) :
       /\ Waits("proposed", c, i) /\ Waits("proposed", c, j) => i = j
       /\ Waits("finished", c, i) /\ Waits("finished", c, j) => i = j
       /\ Waits("proposed", c, i) /\ Waits("finished", c, j) => i < j
  /\ call[c].at = "open" => done[c] = "no"
  /\ waiter[c] = "no" => call[c].at = "no" /\ done[c] = "no" /\ about[c] = <<>>
HeardOf(c) ==
  /\ call[c].at = "open" => call[c].timer \/ \E i \in 1 .. Len(line) : Waits("proposed", c, i)
  /\ call[c].at = "over" => done[c] = "told"
       \/ \E i \in 1 .. Len(line) : Waits("finished", c, i)
CallsFit == \A c \in Call : CallFits(c) /\ HeardOf(c)

(* The registered connection is there, and one whose pause waits in the    *)
(* line is pausing the run, and has one pause there.                       *)
LinksFit ==
  /\ reg # None => conns[reg] = "live"
  /\ \A k \in Conn : \A i \in 1 .. Len(line) : Waits("paused", k, i) => conns[k] = "pausing"
  /\ \A k \in Conn : \A i, j \in 1 .. Len(line) :
       Waits("paused", k, i) /\ Waits("paused", k, j) => i = j

(* What waits for the lock of a binding that is gone is in front of the    *)
(* rest; a run that is running is bound, and no pause waits; one pause     *)
(* waits at most, and what ends it waits behind it.  A turn that fails with *)
(* calls that are not over may break all of it.                            *)
LineHolds ==
  /\ row = "running" => bound
  /\ row = "over" => latest # "paused"
  /\ \A i \in 1 .. Len(line) :
       /\ line[i].live => bound
       /\ line[i].t \in {"paused", "resumed"} => row # "running"
       /\ row = "over" /\ line[i].t = "paused" => ~line[i].live
  /\ \A i, j \in 1 .. Len(line) :
       /\ i < j /\ line[i].live => line[j].live
       /\ line[i].t = "paused" /\ line[j].t = "paused" => i = j
       /\ line[i].t = "resumed" /\ line[j].t = "resumed" => i = j
       /\ line[i].t = "paused" /\ line[j].t = "resumed" => i < j
LineFits == loose \/ LineHolds

(* As long as nothing came loose: one connection at a time.                *)
OneConnection ==
  loose \/
    /\ \A j, k \in Conn : conns[j] \notin {"new", "done"} /\ conns[k] \notin {"new", "done"}
         => j = k
    /\ \A k \in Conn : conns[k] \in {"hook", "pause"} => ~turn
    /\ \A k \in Conn : conns[k] = "pause" => Pending = {}

Unsettled(c) == call[c].at \in {"open", "over"} /\ done[c] = "no"

Resting ==
  ~turn /\ cancel = "no" /\ row = "running" /\ \A k \in Conn : conns[k] \notin {"hook", "pause"}

(* A turn waits for each of its calls, none is left to the next.           *)
TurnsFit ==
  loose \/
    /\ turn => \A c \in Call : Unsettled(c) => waiter[c] = "waits"
    /\ Resting => \A c \in Call : ~Unsettled(c)

(* A paused run has no turn and no open call, and what ended is finished   *)
(* before it is resumed.                                                   *)
PausedFits ==
  loose \/
    (row = "paused" =>
       /\ ~turn /\ Pending = {}
       /\ \A i, j \in 1 .. Len(line) : line[i].t = "finished" /\ line[j].t = "resumed" => i < j
       /\ \A k \in Conn : conns[k] \in {"stopping", "hook", "pause"} =>
            \A i \in 1 .. Len(line) : line[i].t # "finished")

WillBe(kind, c, i) == Waits(kind, c, i) /\ line[i].live
OnStream(c) == Proposed(c) \/ \E i \in 1 .. Len(line) : WillBe("proposed", c, i)

(* Every call that is or will be on the stream is finished, or will be, or *)
(* is open; in front of a pause that will be stored each is finished; and  *)
(* where the run was released all of them are.                             *)
CallsFinish ==
  \A c \in Call : OnStream(c) =>
    Finished(c) \/ call[c].at = "open" \/ \E i \in 1 .. Len(line) : WillBe("finished", c, i)
PausesFinish ==
  \A i \in 1 .. Len(line) : line[i].t = "paused" =>
    \A c \in Call : IF line[i].live
                      THEN OnStream(c) => Finished(c)
                        \/ \E j \in 1 .. i : WillBe("finished", c, j)
                      ELSE Proposed(c) => Finished(c)
AllFinished == \A c \in Call : Proposed(c) => Finished(c)

StreamHolds == CallsFinish /\ PausesFinish /\ (~bound => AllFinished)
StreamFits == loose \/ unheard \/ row = "over" \/ StreamHolds

------------------------------------------------------------------------------
(* How the line moves: whoever waited goes on waiting, from `first` on and *)
(* perhaps for a lock that is gone, or somebody comes behind.              *)
Moved(first) ==
  /\ Len(line') = Len(line) - first
  /\ \A i \in 1 .. Len(line') : line'[i].t = line[i + first].t
       /\ line'[i].of = line[i + first].of
  /\ \/ \A i \in 1 .. Len(line') : line'[i].live = line[i + first].live
     \/ \A i \in 1 .. Len(line') : ~line'[i].live

Newer == (Len(line) + 1) .. Len(line')
Grown == Len(line') >= Len(line) /\ \A i \in 1 .. Len(line) : line'[i] = line[i]

(* The calls that end together each get one finish behind the line.        *)
Announced(calls, binding) ==
  /\ Grown
  /\ \A i \in Newer : line'[i].t = "finished" /\ line'[i].of \in calls
       /\ line'[i].live = binding
  /\ \A i, j \in Newer : line'[i].of = line'[j].of => i = j
  /\ \A c \in calls : \E i \in Newer : line'[i].of = c

LEMMA EntryFacts ==
  ASSUME NEW e \in Entry
  PROVE  /\ e.t \in {"proposed", "finished", "paused", "resumed", "over"}
         /\ e.live \in BOOLEAN
         /\ e.t \in {"proposed", "finished"} => e.of \in Call
         /\ e.t = "paused" => e.of \in Conn \union {None}
         /\ [e EXCEPT !.live = FALSE] \in Entry
         /\ [e EXCEPT !.live = FALSE].t = e.t
         /\ [e EXCEPT !.live = FALSE].of = e.of
         /\ [e EXCEPT !.live = FALSE].live = FALSE
  BY DEF Entry

LEMMA LineFacts ==
  ASSUME TypeOK
  PROVE  /\ Len(line) \in Nat /\ DOMAIN line = 1 .. Len(line)
         /\ \A i \in 1 .. Len(line) : line[i] \in Entry
         /\ line # <<>> => /\ Len(line) >= 1 /\ Served = line[1]
                           /\ Tail(line) \in Seq(Entry) /\ Len(Tail(line)) = Len(line) - 1
                           /\ \A i \in 1 .. Len(line) - 1 : Tail(line)[i] = line[i + 1]
  <1>1. line \in Seq(Entry)
    BY DEF TypeOK
  <1>2. Len(line) \in Nat /\ DOMAIN line = 1 .. Len(line)
          /\ \A i \in 1 .. Len(line) : line[i] \in Entry
    BY <1>1, LenProperties
  <1>3. line # <<>> => Len(line) >= 1 /\ Served = line[1]
    BY <1>1, <1>2, EmptySeq DEF Served
  <1>4. line # <<>> => /\ Tail(line) \in Seq(Entry) /\ Len(Tail(line)) = Len(line) - 1
                       /\ \A i \in 1 .. Len(Tail(line)) : Tail(line)[i] = line[i + 1]
    BY <1>1, HeadTailProperties
  <1>5. QED
    BY <1>2, <1>3, <1>4

LEMMA DeadFacts ==
  ASSUME NEW queue \in Seq(Entry)
  PROVE  /\ Dead(queue) \in Seq(Entry) /\ Len(Dead(queue)) = Len(queue)
         /\ \A i \in 1 .. Len(queue) :
              /\ Dead(queue)[i].t = queue[i].t /\ Dead(queue)[i].of = queue[i].of
              /\ ~Dead(queue)[i].live
  <1>1. Len(queue) \in Nat /\ DOMAIN queue = 1 .. Len(queue)
          /\ \A i \in 1 .. Len(queue) : queue[i] \in Entry
    BY LenProperties
  <1>2. \A i \in 1 .. Len(queue) : /\ [queue[i] EXCEPT !.live = FALSE] \in Entry
                                   /\ [queue[i] EXCEPT !.live = FALSE].t = queue[i].t
                                   /\ [queue[i] EXCEPT !.live = FALSE].of = queue[i].of
                                   /\ [queue[i] EXCEPT !.live = FALSE].live = FALSE
    BY <1>1, EntryFacts
  <1>3. Dead(queue) = [i \in 1 .. Len(queue) |-> [queue[i] EXCEPT !.live = FALSE]]
    BY <1>1 DEF Dead
  <1>4. Dead(queue) \in Seq(Entry) /\ Len(Dead(queue)) = Len(queue)
    BY <1>1, <1>2, <1>3
  <1>5. QED
    BY <1>2, <1>3, <1>4

LEMMA StaysMoves ==
  ASSUME TypeOK, UNCHANGED line
  PROVE  line' \in Seq(Entry) /\ Moved(0) /\ \A i \in 1 .. Len(line') : line'[i] = line[i]
  BY LineFacts DEF TypeOK, Moved

LEMMA TailMoves ==
  ASSUME TypeOK, line # <<>>, line' = Tail(line)
  PROVE  line' \in Seq(Entry) /\ Moved(1) /\ \A i \in 1 .. Len(line') : line'[i] = line[i + 1]
  BY LineFacts DEF Moved

LEMMA DeadMoves ==
  ASSUME TypeOK, line' = Dead(line)
  PROVE  line' \in Seq(Entry) /\ Moved(0) /\ \A i \in 1 .. Len(line') : ~line'[i].live
  <1>1. line \in Seq(Entry)
    BY DEF TypeOK
  <1>2. QED
    BY <1>1, LineFacts, DeadFacts DEF Moved

LEMMA DeadTailMoves ==
  ASSUME TypeOK, line # <<>>, line' = Dead(Tail(line))
  PROVE  line' \in Seq(Entry) /\ Moved(1) /\ \A i \in 1 .. Len(line') : ~line'[i].live
  <1>1. /\ Tail(line) \in Seq(Entry) /\ Len(Tail(line)) = Len(line) - 1
        /\ \A i \in 1 .. Len(Tail(line)) : Tail(line)[i] = line[i + 1]
    BY LineFacts
  <1>2. /\ line' \in Seq(Entry) /\ Len(line') = Len(Tail(line))
        /\ \A i \in 1 .. Len(Tail(line)) : /\ line'[i].t = Tail(line)[i].t
                                                /\ line'[i].of = Tail(line)[i].of
                                           /\ ~line'[i].live
    BY <1>1, DeadFacts
  <1>3. QED
    BY <1>1, <1>2 DEF Moved

LEMMA AppendMoves ==
  ASSUME TypeOK, NEW e \in Entry, line' = Append(line, e)
  PROVE  /\ line' \in Seq(Entry) /\ Grown
         /\ Len(line') = Len(line) + 1 /\ line'[Len(line')] = e
  BY LineFacts, AppendProperties DEF TypeOK, Grown

LEMMA EmitFacts ==
  ASSUME TypeOK, NEW kind, NEW of
  PROVE  /\ Emit(kind, of).t = kind /\ Emit(kind, of).of = of /\ Emit(kind, of).live = bound
         /\ kind \in {"proposed", "finished"} /\ of \in Call => Emit(kind, of) \in Entry
         /\ kind = "paused" /\ of \in Conn \union {None} => Emit(kind, of) \in Entry
         /\ kind \in {"resumed", "over"} /\ of = None => Emit(kind, of) \in Entry
  BY DEF Emit, Entry, TypeOK

(* A sequence without repetition that is as long as a set has each of its  *)
(* elements.                                                               *)
LEMMA OrderIsOnto ==
  ASSUME NEW S, IsFiniteSet(S), NEW order \in SeqsOf(S)
  PROVE  /\ order \in Seq(S) /\ Len(order) = Cardinality(S)
         /\ \A i, j \in 1 .. Len(order) : order[i] = order[j] => i = j
         /\ \A c \in S : \E i \in 1 .. Len(order) : order[i] = c
  <1>1. Cardinality(S) \in Nat
    BY FS_CardinalityType
  <1>2. order \in [1 .. Cardinality(S) -> S] /\ DOMAIN order = 1 .. Cardinality(S)
    BY DEF SeqsOf
  <1>3. order \in Seq(S) /\ Len(order) = Cardinality(S)
    BY <1>1, <1>2
  <1>4. \A i, j \in 1 .. Cardinality(S) : order[i] = order[j] => i = j
    BY <1>2 DEF SeqsOf
  <1>5. order \in Injection(1 .. Cardinality(S), S)
    BY <1>2, <1>4 DEF Injection, IsInjective
  <1>6. IsFiniteSet(1 .. Cardinality(S)) /\ Cardinality(1 .. Cardinality(S)) = Cardinality(S)
    BY <1>1, FS_Interval
  <1>7. order \in Surjection(1 .. Cardinality(S), S)
    BY <1>5, <1>6, FS_Injection
  <1>8. QED
    BY <1>3, <1>4, <1>7 DEF Surjection

LEMMA FinishFacts ==
  ASSUME NEW c, NEW binding \in BOOLEAN
  PROVE  /\ Finish(c, binding).t = "finished" /\ Finish(c, binding).of = c
         /\ Finish(c, binding).live = binding
         /\ c \in Call => Finish(c, binding) \in Entry
  BY DEF Finish, Entry

EndedAs(r, status) == [r EXCEPT !.at = "over", !.status = status, !.timer = FALSE]

LEMMA CloseMoves ==
  ASSUME TypeOK, NEW calls, NEW status \in Status, NEW binding \in BOOLEAN,
         Close(calls, status, binding)
  PROVE  /\ line' \in Seq(Entry) /\ Announced(calls \intersect Pending, binding)
         /\ call' = [c \in Call |-> IF c \in calls /\ call[c].at = "open"
                                     THEN EndedAs(call[c], status) ELSE call[c]]
  <1> DEFINE closed == calls \intersect Pending
  <1>1. closed \subseteq Call /\ IsFiniteSet(closed)
    BY BrokerAssumption, FS_Subset DEF Pending
  <1>2. PICK order \in SeqsOf(closed) :
          line' = line \o [i \in DOMAIN order |-> Finish(order[i], binding)]
    BY DEF Close
  <1> DEFINE app == [i \in DOMAIN order |-> Finish(order[i], binding)]
  <1> HIDE DEF closed
  <1>3. /\ order \in Seq(closed)
        /\ \A i, j \in 1 .. Len(order) : order[i] = order[j] => i = j
        /\ \A c \in closed : \E i \in 1 .. Len(order) : order[i] = c
    BY <1>1, OrderIsOnto
  <1>4. Len(order) \in Nat /\ DOMAIN order = 1 .. Len(order)
          /\ \A i \in 1 .. Len(order) : order[i] \in closed
    BY <1>3, LenProperties
  <1>5. \A i \in 1 .. Len(order) : Finish(order[i], binding) \in Entry
    BY <1>1, <1>4, FinishFacts
  <1>6. app \in Seq(Entry) /\ Len(app) = Len(order)
        /\ \A i \in 1 .. Len(order) : app[i] = Finish(order[i], binding)
    BY <1>4, <1>5
  <1> HIDE DEF app
  <1>7. line \in Seq(Entry) /\ Len(line) \in Nat
    BY LineFacts DEF TypeOK
  <1>8. line' = line \o app
    BY <1>2 DEF app
  <1>9. /\ line' \in Seq(Entry) /\ Len(line') = Len(line) + Len(order)
        /\ \A i \in 1 .. Len(line) : line'[i] = line[i]
        /\ \A i \in 1 .. Len(order) : line'[Len(line) + i] = Finish(order[i], binding)
    <2>1. /\ line' \in Seq(Entry) /\ Len(line') = Len(line) + Len(app)
          /\ \A i \in 1 .. Len(line) + Len(app) :
               line'[i] = IF i <= Len(line) THEN line[i] ELSE app[i - Len(line)]
      <3>1. line \in Seq(Entry) /\ app \in Seq(Entry)
        BY <1>6, <1>7
      <3>2. /\ line \o app \in Seq(Entry) /\ Len(line \o app) = Len(line) + Len(app)
            /\ \A i \in 1 .. Len(line) + Len(app) :
                 (line \o app)[i] = IF i <= Len(line) THEN line[i] ELSE app[i - Len(line)]
        BY <3>1, ConcatProperties, Zenon
      <3>3. QED
        BY <1>8, <3>2, Zenon
    <2>2. ASSUME NEW i \in 1 .. Len(order) PROVE line'[Len(line) + i] = Finish(order[i],
                                                                               binding)
      <3>1. /\ Len(line) + i \in 1 .. Len(line) + Len(app) /\ ~(Len(line) + i <= Len(line))
            /\ (Len(line) + i) - Len(line) = i
        BY <1>4, <1>6, <1>7
      <3>2. line'[Len(line) + i] = app[i]
        BY <2>1, <3>1
      <3>3. QED
        BY <1>6, <3>2
    <2>3. QED
      BY <1>4, <1>6, <1>7, <2>1, <2>2
  <1>10. \A i \in Newer : i - Len(line) \in 1 .. Len(order)
           /\ line'[i] = Finish(order[i - Len(line)], binding)
    <2> SUFFICES ASSUME NEW i \in Newer
                 PROVE  i - Len(line) \in 1 .. Len(order)
                          /\ line'[i] = Finish(order[i - Len(line)], binding)
      OBVIOUS
    <2>1. i - Len(line) \in 1 .. Len(order) /\ i = Len(line) + (i - Len(line))
      BY <1>4, <1>7, <1>9 DEF Newer
    <2>2. QED
      BY <2>1, <1>9
  <1>11. \A i \in Newer : line'[i].t = "finished" /\ line'[i].of = order[i - Len(line)]
           /\ line'[i].live = binding
    BY <1>10, FinishFacts
  <1>12. Grown
    BY <1>4, <1>7, <1>9 DEF Grown
  <1>13. \A i \in Newer : line'[i].of \in closed
    BY <1>4, <1>10, <1>11
  <1>14. ASSUME NEW i \in Newer, NEW j \in Newer, line'[i].of = line'[j].of PROVE i = j
    <2>1. order[i - Len(line)] = order[j - Len(line)]
      BY <1>11, <1>14
    <2>2. i - Len(line) = j - Len(line)
      BY <1>3, <1>10, <2>1
    <2>3. QED
      BY <2>2, <1>7, <1>9, <1>4 DEF Newer
  <1>15. ASSUME NEW c \in closed PROVE \E i \in Newer : line'[i].of = c
    <2>1. PICK i \in 1 .. Len(order) : order[i] = c
      BY <1>3
    <2>2. Len(line) + i \in Newer /\ (Len(line) + i) - Len(line) = i
      BY <1>4, <1>7, <1>9 DEF Newer
    <2>3. QED
      BY <2>1, <2>2, <1>11
  <1>16. Announced(closed, binding)
    BY <1>11, <1>12, <1>13, <1>14, <1>15 DEF Announced
  <1>17. QED
    BY <1>9, <1>16 DEF closed, Close, Pending, EndedAs

------------------------------------------------------------------------------
(* What the steps do, seen from the invariant.                             *)
CallStays(c) ==
  /\ call'[c].at = call[c].at /\ call'[c].status = call[c].status
  /\ call'[c].conn = call[c].conn /\ call'[c].timer = call[c].timer
CallsStay == call' \in [Call -> CallRecord] /\ \A c \in Call : CallStays(c)

(* Open calls end together.                                                *)
Ends(calls, binding) ==
  /\ calls \subseteq Pending
  /\ call' \in [Call -> CallRecord]
  /\ \A c \in Call \ calls : CallStays(c)
  /\ \E status \in Status : \A c \in calls : call'[c].at = "over" /\ call'[c].status = status
  /\ line' \in Seq(Entry) /\ Announced(calls, binding)
  /\ UNCHANGED <<done, loop, stream, row, history>>

(* A stopped worker waits no more.                                         *)
WaitersStay ==
  /\ waiter' \in [Call -> {"no", "waits", "back", "cut", "failed"}]
  /\ \A c \in Call : waiter'[c] = "no" => waiter[c] = "no"

LEMMA SameCallsStay ==
  ASSUME TypeOK, UNCHANGED call
  PROVE  CallsStay
  BY DEF TypeOK, CallsStay, CallStays

LEMMA SameWaitersStay ==
  ASSUME TypeOK, UNCHANGED waiter
  PROVE  WaitersStay
  BY DEF TypeOK, WaitersStay

LEMMA StoppedFacts ==
  ASSUME TypeOK, Stopped
  PROVE  /\ WaitersStay /\ turn' = FALSE
         /\ \A c \in Call : waiter[c] = "no" => waiter'[c] = "no"
  BY DEF TypeOK, Stopped, WaitersStay

LEMMA QuietEntries ==
  ASSUME NEW c \in Call, NEW r \in CallRecord, NEW e, NEW b \in BOOLEAN,
         e = [r EXCEPT !.denying = b]
  PROVE  e \in CallRecord /\ e.at = r.at /\ e.status = r.status /\ e.conn = r.conn
           /\ e.timer = r.timer
  BY DEF CallRecord

LEMMA EndedEntries ==
  ASSUME NEW r \in CallRecord, NEW s \in Status, NEW e,
         e = EndedAs(r, s)
  PROVE  e \in CallRecord /\ e.at = "over" /\ e.status = s
  BY DEF CallRecord, EndedAs

LEMMA CloseEnds ==
  ASSUME TypeOK, NEW calls, NEW status \in Status, NEW binding \in BOOLEAN,
         Close(calls, status, binding), UNCHANGED <<done, loop, stream, row, history>>
  PROVE  Ends(calls \intersect Pending, binding)
  <1>1. /\ line' \in Seq(Entry) /\ Announced(calls \intersect Pending, binding)
        /\ call' = [c \in Call |-> IF c \in calls /\ call[c].at = "open"
                                    THEN EndedAs(call[c], status) ELSE call[c]]
    BY CloseMoves
  <1>2. \A c \in Call : call[c] \in CallRecord
    BY DEF TypeOK
  <1>3. ASSUME NEW c \in Call, c \in calls, call[c].at = "open"
        PROVE  call'[c] \in CallRecord /\ call'[c].at = "over" /\ call'[c].status = status
    <2>1. call'[c] = EndedAs(call[c], status)
      BY <1>1, <1>3
    <2>2. QED
      BY <2>1, <1>2, EndedEntries
  <1>4. ASSUME NEW c \in Call, ~(c \in calls /\ call[c].at = "open")
        PROVE  call'[c] = call[c]
    BY <1>1, <1>4
  <1>5. DOMAIN call' = Call /\ call' = [c \in Call |-> call'[c]]
    BY <1>1
  <1>6. call' \in [Call -> CallRecord]
    BY <1>2, <1>3, <1>4, <1>5
  <1>7. \A c \in Call : c \in calls \intersect Pending <=> c \in calls /\ call[c].at = "open"
    BY DEF Pending
  <1>8. QED
    BY <1>1, <1>3, <1>4, <1>6, <1>7 DEF Ends, CallStays, Pending

LEMMA ResultEnds ==
  ASSUME TypeOK, NEW k \in Conn, NEW c \in Call, Result(k, c)
  PROVE  Ends({c}, bound) /\ UNCHANGED <<bound, links, cancel>>
  <1>1. PICK s \in Status : Close({c}, s, bound)
    BY DEF Result, Answers, Status
  <1>2. UNCHANGED <<done, loop, stream, row, history, bound, links, cancel>> /\ c \in Pending
    BY DEF Result
  <1>3. Ends({c} \intersect Pending, bound)
    BY <1>1, <1>2, CloseEnds DEF TypeOK
  <1>4. {c} \intersect Pending = {c}
    BY <1>2
  <1>5. QED
    BY <1>2, <1>3, <1>4

LEMMA ExpireEnds ==
  ASSUME TypeOK, NEW c \in Call, Expire(c)
  PROVE  Ends({c} \intersect Pending, bound) /\ UNCHANGED <<bound, links, cancel>>
  <1>1. Close({c}, "timeout", bound) /\ "timeout" \in Status
    BY DEF Expire, Status
  <1>2. UNCHANGED <<done, loop, stream, row, history, bound, links, cancel>>
    BY DEF Expire
  <1>3. QED
    BY <1>1, <1>2, CloseEnds DEF TypeOK

LEMMA CloseForPauseEnds ==
  ASSUME TypeOK, NEW k \in Conn, CloseForPause(k)
  PROVE  /\ Ends(Pending, bound) /\ UNCHANGED <<bound, reg, cancel>>
         /\ conns[k] = "hook" /\ conns' = [conns EXCEPT ![k] = "pause"]
  <1>1. Close(Call, "disconnected", bound) /\ "disconnected" \in Status
    BY DEF CloseForPause, Status
  <1>2. /\ UNCHANGED <<done, loop, stream, row, history, bound, reg, cancel>>
        /\ conns[k] = "hook" /\ conns' = [conns EXCEPT ![k] = "pause"]
    BY DEF CloseForPause
  <1>3. Ends(Call \intersect Pending, bound)
    BY <1>1, <1>2, CloseEnds DEF TypeOK
  <1>4. Call \intersect Pending = Pending
    BY DEF Pending
  <1>5. QED
    BY <1>2, <1>3, <1>4

LEMMA CleanUpEnds ==
  ASSUME TypeOK, NEW k \in Conn, CleanUp(k)
  PROVE  /\ Ends({c \in Call : call[c].conn = k} \intersect Pending, bound)
         /\ UNCHANGED <<bound, reg, cancel>>
         /\ conns[k] = "paused" /\ conns' = [conns EXCEPT ![k] = "done"]
  <1>1. Close({c \in Call : call[c].conn = k}, "disconnected", bound)
          /\ "disconnected" \in Status
    BY DEF CleanUp, Status
  <1>2. /\ UNCHANGED <<done, loop, stream, row, history, bound, reg, cancel>>
        /\ conns[k] = "paused" /\ conns' = [conns EXCEPT ![k] = "done"]
    BY DEF CleanUp
  <1>3. QED
    BY <1>1, <1>2, CloseEnds DEF TypeOK

LEMMA CancelCallsEnds ==
  ASSUME TypeOK, CancelCalls
  PROVE  /\ Ends(Pending, TRUE) /\ UNCHANGED links /\ bound' = TRUE /\ cancel' = "hooked"
         /\ cancel = "no" /\ row # "over"
  <1>1. Close(Call, "cancelled", TRUE) /\ "cancelled" \in Status
    BY DEF CancelCalls, Status
  <1>2. /\ UNCHANGED <<done, loop, stream, row, history, links>> /\ bound' = TRUE
             /\ cancel' = "hooked"
        /\ cancel = "no" /\ row # "over"
    BY DEF CancelCalls
  <1>3. Ends(Call \intersect Pending, TRUE)
    BY <1>1, <1>2, CloseEnds
  <1>4. Call \intersect Pending = Pending
    BY DEF Pending
  <1>5. QED
    BY <1>2, <1>3, <1>4

LEMMA DeniedFacts ==
  ASSUME TypeOK, NEW c \in Call, Denied(c)
  PROVE  /\ \/ Ends({c}, bound)
            \/ CallsStay /\ UNCHANGED <<done, loop, stream, row, history, line>>
         /\ UNCHANGED <<bound, links, cancel>>
  <1>1. call[c] \in CallRecord
    BY DEF TypeOK
  <1> DEFINE r == [call[c] EXCEPT !.denying = FALSE]
             q == [call EXCEPT ![c].denying = FALSE]
  <1>2. q = [call EXCEPT ![c] = r] /\ q \in [Call -> CallRecord]
        /\ r \in CallRecord /\ r.at = call[c].at /\ r.status = call[c].status
        /\ r.conn = call[c].conn /\ r.timer = call[c].timer
    BY <1>1 DEF TypeOK, CallRecord
  <1> HIDE DEF r
  <1>3. CASE call[c].at = "open"
    <2> DEFINE e == EndedAs(r, "denied")
    <2>1. /\ call' = [q EXCEPT ![c].at = "over", ![c].status = "denied", ![c].timer = FALSE]
          /\ line' = Append(line, Emit("finished", c))
          /\ UNCHANGED <<done, loop, stream, bound, row, links, cancel, history>>
      BY <1>3 DEF Denied
    <2>2. e \in CallRecord /\ e.at = "over" /\ e.status = "denied"
      BY <1>2, EndedEntries DEF Status
    <2>3. call' = [call EXCEPT ![c] = e]
      BY <1>2, <2>1 DEF TypeOK, EndedAs
    <2> HIDE DEF e, q
    <2>4. /\ call' \in [Call -> CallRecord] /\ call'[c] = e
          /\ \A d \in Call \ {c} : call'[d] = call[d]
      BY <2>2, <2>3 DEF TypeOK
    <2>5. Emit("finished", c) \in Entry /\ Emit("finished", c).t = "finished"
          /\ Emit("finished", c).of = c /\ Emit("finished", c).live = bound
      BY EmitFacts
    <2>6. line' \in Seq(Entry) /\ Grown /\ Len(line') = Len(line) + 1
          /\ line'[Len(line')] = Emit("finished", c)
      BY <2>1, <2>5, AppendMoves
    <2>7. Announced({c}, bound)
      BY <2>5, <2>6, LineFacts DEF Announced, Newer
    <2>8. QED
      BY <1>3, <2>1, <2>2, <2>4, <2>6, <2>7 DEF Ends, CallStays, Pending, Status
  <1>4. CASE call[c].at # "open"
    <2>1. call' = q /\ UNCHANGED <<done, loop, stream, bound, row, links, cancel, history,
        line>>
      BY <1>4 DEF Denied
    <2> HIDE DEF q
    <2>2. CallsStay
      BY <1>2, <2>1 DEF CallsStay, CallStays, TypeOK
    <2>3. QED
      BY <2>1, <2>2
  <1>5. QED
    BY <1>3, <1>4

LEMMA DenyFacts ==
  ASSUME TypeOK, NEW k \in Conn, NEW c \in Call, Deny(k, c)
  PROVE  CallsStay /\ UNCHANGED <<done, loop, emitter, row, links, cancel, history>>
  <1>1. call' = [call EXCEPT ![c].denying = TRUE]
        /\ UNCHANGED <<done, loop, emitter, row, links, cancel, history>>
    BY DEF Deny
  <1>2. call[c] \in CallRecord
    BY DEF TypeOK
  <1>3. QED
    BY <1>1, <1>2 DEF CallsStay, CallStays, TypeOK, CallRecord

LEMMA LeaveFacts ==
  ASSUME TypeOK, NEW k \in Conn, Leave(k)
  PROVE  /\ CallsStay /\ UNCHANGED <<done, loop, emitter, row, cancel, history>>
         /\ conns[k] = "live" /\ conns' = [conns EXCEPT ![k] = "left"] /\ reg' = None
  <1>1. /\ call' = [c \in Call |-> IF call[c].conn = k THEN [call[c] EXCEPT !.denying = FALSE]
                                   ELSE call[c]]
        /\ UNCHANGED <<done, loop, emitter, row, cancel, history>>
        /\ conns[k] = "live" /\ conns' = [conns EXCEPT ![k] = "left"] /\ reg' = None
    BY DEF Leave
  <1>2. \A c \in Call : call[c] \in CallRecord
    BY DEF TypeOK
  <1>3. ASSUME NEW c \in Call PROVE call'[c] \in CallRecord /\ CallStays(c)
    <2>1. CASE call[c].conn = k
      <3>1. call'[c] = [call[c] EXCEPT !.denying = FALSE]
        BY <1>1, <2>1
      <3>2. QED
        BY <1>2, <3>1, QuietEntries DEF CallStays
    <2>2. CASE call[c].conn # k
      BY <1>1, <1>2, <2>2 DEF CallStays
    <2>3. QED
      BY <2>1, <2>2
  <1>4. call' \in [Call -> CallRecord]
    BY <1>1, <1>3
  <1>5. QED
    BY <1>1, <1>3, <1>4 DEF CallsStay

LEMMA HearFacts ==
  ASSUME TypeOK, NEW c \in Call, Hear(c)
  PROVE  /\ WaitersStay /\ done[c] # "no" /\ \A d \in Call \ {c} : waiter'[d] = waiter[d]
         /\ UNCHANGED <<table, turn, emitter, row, links, cancel, history>>
  <1>1. PICK w \in {"cut", "back", "failed"} : waiter' = [waiter EXCEPT ![c] = w]
    BY DEF Hear
  <1>2. waiter[c] = "waits"
    BY DEF Hear
  <1>3. WaitersStay /\ \A d \in Call \ {c} : waiter'[d] = waiter[d]
    BY <1>1, <1>2 DEF WaitersStay, TypeOK
  <1>4. QED
    BY <1>3 DEF Hear

LEMMA ProposeFacts ==
  ASSUME TypeOK, NEW c \in Call, Propose(c)
  PROVE  /\ turn /\ waiter[c] = "no"
         /\ UNCHANGED <<done, turn, stream, bound, row, links, cancel, history>>
         /\ call' \in [Call -> CallRecord] /\ \A d \in Call \ {c} : CallStays(d)
              /\ waiter'[d] = waiter[d]
         /\ \/ /\ call'[c].at = "open" /\ call'[c].conn = reg /\ reg \in Conn /\ ~call'[c].timer
               /\ waiter' = [waiter EXCEPT ![c] = "waits"]
               /\ line' \in Seq(Entry) /\ Grown /\ Len(line') = Len(line) + 1
               /\ line'[Len(line')].t = "proposed" /\ line'[Len(line')].of = c
               /\ line'[Len(line')].live = bound
            \/ /\ CallStays(c) /\ UNCHANGED line
               /\ \/ waiter' = [waiter EXCEPT ![c] = "back"]
                  \/ waiter' = [waiter EXCEPT ![c] = "cut"]
  <1>1. /\ turn /\ waiter[c] = "no"
        /\ UNCHANGED <<done, turn, stream, bound, row, links, cancel, history>>
        /\ \/ /\ reg # None
              /\ call' = [call EXCEPT ![c] = [Unknown EXCEPT !.at = "open", !.conn = reg]]
              /\ line' = Append(line, Emit("proposed", c))
              /\ waiter' = [waiter EXCEPT ![c] = "waits"]
           \/ /\ UNCHANGED <<call, line>>
              /\ \/ waiter' = [waiter EXCEPT ![c] = "back"]
                 \/ waiter' = [waiter EXCEPT ![c] = "cut"]
    BY DEF Propose
  <1>2. CASE /\ reg # None
             /\ call' = [call EXCEPT ![c] = [Unknown EXCEPT !.at = "open", !.conn = reg]]
             /\ line' = Append(line, Emit("proposed", c))
             /\ waiter' = [waiter EXCEPT ![c] = "waits"]
    <2> DEFINE r == [Unknown EXCEPT !.at = "open", !.conn = reg]
    <2>1. r \in CallRecord /\ r.at = "open" /\ r.conn = reg /\ ~r.timer /\ reg \in Conn
      BY <1>2 DEF TypeOK, Unknown, CallRecord
    <2>2. call' = [call EXCEPT ![c] = r]
      BY <1>2
    <2> HIDE DEF r
    <2>3. call' \in [Call -> CallRecord] /\ call'[c] = r
            /\ \A d \in Call \ {c} : call'[d] = call[d]
      BY <2>1, <2>2 DEF TypeOK
    <2>4. \A d \in Call \ {c} : waiter'[d] = waiter[d]
      BY <1>2 DEF TypeOK
    <2>5. Emit("proposed", c) \in Entry /\ Emit("proposed", c).t = "proposed"
          /\ Emit("proposed", c).of = c /\ Emit("proposed", c).live = bound
      BY EmitFacts
    <2>6. line' \in Seq(Entry) /\ Grown /\ Len(line') = Len(line) + 1
          /\ line'[Len(line')] = Emit("proposed", c)
      BY <1>2, <2>5, AppendMoves
    <2>7. QED
      BY <1>1, <1>2, <2>1, <2>3, <2>4, <2>5, <2>6 DEF CallStays
  <1>3. CASE /\ UNCHANGED <<call, line>>
             /\ \/ waiter' = [waiter EXCEPT ![c] = "back"]
                \/ waiter' = [waiter EXCEPT ![c] = "cut"]
    <2>1. \A d \in Call \ {c} : waiter'[d] = waiter[d]
      BY <1>3 DEF TypeOK
    <2>2. CallsStay
      BY <1>3, SameCallsStay
    <2>3. QED
      BY <1>1, <1>3, <2>1, <2>2 DEF CallsStay
  <1>4. QED
    BY <1>1, <1>2, <1>3

(* The front of the line is served.                                        *)
LEMMA ServedFacts ==
  ASSUME TypeOK, line # <<>>
  PROVE  /\ Len(line) >= 1 /\ Served = line[1] /\ line[1] \in Entry
         /\ line[1].live \in BOOLEAN
         /\ line[1].t \in {"proposed", "finished"} => line[1].of \in Call
         /\ line[1].t = "paused" => line[1].of \in Conn \union {None}
  <1>1. Len(line) \in Nat /\ Len(line) >= 1 /\ Served = line[1] /\ line[1] \in Entry
    BY LineFacts
  <1>2. QED
    BY <1>1, EntryFacts

LEMMA ServeProposalFacts ==
  ASSUME TypeOK, ServeProposal
  PROVE  LET c == line[1].of
         IN  /\ line # <<>> /\ line[1].t = "proposed" /\ c \in Call
             /\ line' = Tail(line)
             /\ UNCHANGED <<loop, bound, row, links, cancel, history>>
             /\ call' \in [Call -> CallRecord] /\ \A d \in Call \ {c} : CallStays(d)
             /\ \/ /\ line[1].live
                   /\ about' = [about EXCEPT ![c] = Append(@, "proposed")] /\ latest' = "call"
                   /\ call'[c].at = call[c].at /\ call'[c].status = call[c].status
                   /\ call'[c].conn = call[c].conn /\ (call[c].at = "open" => call'[c].timer)
                   /\ UNCHANGED done
                \/ /\ call[c].at = "open" /\ call'[c].at = "dropped"
                   /\ done' = [done EXCEPT ![c] = "raised"]
                   /\ UNCHANGED stream
                \/ call[c].at # "open" /\ CallStays(c) /\ UNCHANGED <<done, stream>>
  <1> DEFINE c == line[1].of
  <1>1. /\ line # <<>> /\ Served.t = "proposed" /\ line' = Tail(line)
        /\ UNCHANGED <<loop, bound, row, links, cancel, history>>
    BY DEF ServeProposal
  <1>2. Served = line[1] /\ c \in Call
    BY <1>1, ServedFacts
  <1>3. \/ /\ line[1].live /\ StoredOf(c, "proposed") /\ UNCHANGED done
           /\ call' = [call EXCEPT ![c].timer = call[c].at = "open"]
        \/ /\ call[c].at = "open" /\ done' = [done EXCEPT ![c] = "raised"] /\ UNCHANGED stream
           /\ call' = [call EXCEPT ![c] = [Unknown EXCEPT !.at = "dropped"]]
        \/ call[c].at # "open" /\ UNCHANGED <<call, done, stream>>
    BY <1>2, Zenon DEF ServeProposal
  <1>4. call[c] \in CallRecord /\ call \in [Call -> CallRecord]
    BY <1>2 DEF TypeOK
  <1> HIDE DEF c
  <1>5. CASE /\ line[1].live /\ StoredOf(c, "proposed") /\ UNCHANGED done
             /\ call' = [call EXCEPT ![c].timer = call[c].at = "open"]
    <2> DEFINE b == call[c].at = "open"
               r == [call[c] EXCEPT !.timer = b]
    <2>1. b \in BOOLEAN /\ call' = [call EXCEPT ![c] = [call[c] EXCEPT !.timer = b]]
      BY <1>5
    <2> HIDE DEF b
    <2>2. r \in CallRecord /\ r.at = call[c].at /\ r.status = call[c].status
          /\ r.conn = call[c].conn /\ r.timer = b
      BY <1>4, <2>1 DEF CallRecord
    <2>3. call' = [call EXCEPT ![c] = r]
      BY <2>1
    <2> HIDE DEF r
    <2>4. call' \in [Call -> CallRecord] /\ call'[c] = r
            /\ \A d \in Call \ {c} : call'[d] = call[d]
      BY <1>2, <1>4, <2>2, <2>3
    <2>5. call[c].at = "open" => b
      BY DEF b
    <2>6. about' = [about EXCEPT ![c] = Append(@, "proposed")] /\ latest' = "call"
      BY <1>5 DEF StoredOf
    <2>7. QED
      BY <1>1, <1>2, <1>5, <2>2, <2>4, <2>5, <2>6 DEF CallStays, c
  <1>6. CASE /\ call[c].at = "open" /\ done' = [done EXCEPT ![c] = "raised"] /\ UNCHANGED stream
             /\ call' = [call EXCEPT ![c] = [Unknown EXCEPT !.at = "dropped"]]
    <2> DEFINE r == [Unknown EXCEPT !.at = "dropped"]
    <2>1. r \in CallRecord /\ r.at = "dropped"
      BY DEF Unknown, CallRecord
    <2>2. call' = [call EXCEPT ![c] = r]
      BY <1>6
    <2> HIDE DEF r
    <2>3. call' \in [Call -> CallRecord] /\ call'[c] = r
            /\ \A d \in Call \ {c} : call'[d] = call[d]
      BY <1>2, <1>4, <2>1, <2>2
    <2>4. QED
      BY <1>1, <1>2, <1>6, <2>1, <2>3 DEF CallStays, c
  <1>7. CASE call[c].at # "open" /\ UNCHANGED <<call, done, stream>>
    <2>1. CallsStay
      BY <1>7, SameCallsStay
    <2>2. QED
      BY <1>1, <1>2, <1>7, <2>1 DEF CallsStay, c
  <1>8. QED
    BY <1>3, <1>5, <1>6, <1>7 DEF c

LEMMA ServeFinishFacts ==
  ASSUME TypeOK, ServeFinish
  PROVE  LET c == line[1].of
         IN  /\ line # <<>> /\ line[1].t = "finished" /\ c \in Call
             /\ line' = Tail(line) /\ done' = [done EXCEPT ![c] = "told"]
             /\ UNCHANGED <<call, loop, bound, row, links, cancel, loose>>
             /\ \/ /\ line[1].live /\ UNCHANGED unheard /\ latest' = "call"
                   /\ about' = [about EXCEPT ![c] = Append(@, call[c].status)]
                \/ UNCHANGED stream /\ unheard' = (unheard \/ line[1].live)
  <1>1. line # <<>> /\ Served = line[1]
    BY ServedFacts DEF ServeFinish
  <1>2. line[1].t = "finished"
    BY <1>1 DEF ServeFinish
  <1>3. line[1].of \in Call
    BY <1>1, <1>2, ServedFacts
  <1>4. QED
    BY <1>1, <1>2, <1>3, Zenon DEF ServeFinish, StoredOf

LEMMA ServePauseFacts ==
  ASSUME TypeOK, ServePause
  PROVE  LET k == line[1].of
         IN  /\ line # <<>> /\ line[1].t = "paused" /\ k \in Conn \union {None}
             /\ line' = Dead(Tail(line)) /\ bound' = FALSE
             /\ conns' = [j \in Conn |-> IF j = k THEN "paused" ELSE conns[j]]
             /\ UNCHANGED <<table, loop, row, reg, cancel, history>> /\ UNCHANGED about
             /\ latest' = latest \/ (line[1].live /\ latest' = "paused")
  <1>1. line # <<>> /\ Served = line[1]
    BY ServedFacts DEF ServePause
  <1>2. line[1].t = "paused"
    BY <1>1 DEF ServePause
  <1>3. line[1].of \in Conn \union {None}
    BY <1>1, <1>2, ServedFacts
  <1>4. QED
    BY <1>1, <1>2, <1>3, Zenon DEF ServePause, StoredState, stream

LEMMA ServeResumeFacts ==
  ASSUME TypeOK, ServeResume
  PROVE  /\ line # <<>> /\ line[1].t = "resumed" /\ line' = Tail(line)
         /\ UNCHANGED <<table, loop, bound, links, cancel, history>> /\ UNCHANGED about
         /\ \/ line[1].live /\ row = "paused" /\ row' = "running" /\ latest' = "running"
            \/ UNCHANGED <<row, latest>>
  <1>1. line # <<>> /\ Served = line[1]
    BY ServedFacts DEF ServeResume
  <1>2. QED
    BY <1>1, Zenon DEF ServeResume, StoredState, stream

LEMMA ServeEndFacts ==
  ASSUME TypeOK, ServeEnd
  PROVE  /\ line # <<>> /\ line[1].t = "over" /\ cancel' = "done"
         /\ UNCHANGED <<table, loop, links, history>> /\ UNCHANGED about
         /\ \/ row' = "over" /\ latest' = "over" /\ bound' = FALSE /\ line' = Dead(Tail(line))
            \/ line' = Tail(line) /\ UNCHANGED <<row, latest, bound>>
  <1>1. line # <<>> /\ Served = line[1]
    BY ServedFacts DEF ServeEnd
  <1>2. QED
    BY <1>1, Zenon DEF ServeEnd, StoredState, stream

LEMMA TurnPausesFacts ==
  ASSUME TypeOK, TurnPauses
  PROVE  /\ turn /\ Waiting = {} /\ WaitersStay /\ turn' = FALSE
         /\ UNCHANGED <<table, stream, bound, links, cancel, history>>
         /\ \/ /\ row = "running" /\ row' = "paused"
               /\ line' \in Seq(Entry) /\ Grown /\ Len(line') = Len(line) + 1
               /\ line'[Len(line')] = Emit("paused", None)
            \/ row # "running" /\ UNCHANGED <<row, line>>
  <1>1. /\ turn /\ Waiting = {} /\ Stopped
        /\ UNCHANGED <<table, stream, bound, links, cancel, history>>
        /\ \/ row = "running" /\ row' = "paused" /\ line' = Append(line, Emit("paused", None))
           \/ row # "running" /\ UNCHANGED <<row, line>>
    BY DEF TurnPauses
  <1>2. Emit("paused", None) \in Entry
    BY EmitFacts
  <1>3. line' = Append(line, Emit("paused", None)) =>
          /\ line' \in Seq(Entry) /\ Grown /\ Len(line') = Len(line) + 1
          /\ line'[Len(line')] = Emit("paused", None)
    BY <1>2, AppendMoves
  <1>4. QED
    BY <1>1, <1>3, StoppedFacts

LEMMA TurnFailsFacts ==
  ASSUME TypeOK, TurnFails
  PROVE  /\ turn /\ WaitersStay /\ turn' = FALSE
         /\ UNCHANGED <<table, stream, bound, links, cancel, unheard>>
         /\ loose' = (loose \/ Untold # {})
         /\ \/ row = "over" /\ UNCHANGED <<row, line>>
            \/ /\ row # "over" /\ row' = "paused"
               /\ line' \in Seq(Entry) /\ Grown /\ Len(line') = Len(line) + 1
               /\ line'[Len(line')] = Emit("paused", None)
  <1>1. /\ turn /\ Stopped /\ loose' = (loose \/ Untold # {})
        /\ UNCHANGED <<table, stream, bound, links, cancel, unheard>>
        /\ \/ row = "over" /\ UNCHANGED <<row, line>>
           \/ row # "over" /\ row' = "paused" /\ line' = Append(line, Emit("paused", None))
    BY DEF TurnFails, TypeOK
  <1>2. Emit("paused", None) \in Entry
    BY EmitFacts
  <1>3. line' = Append(line, Emit("paused", None)) =>
          /\ line' \in Seq(Entry) /\ Grown /\ Len(line') = Len(line) + 1
          /\ line'[Len(line')] = Emit("paused", None)
    BY <1>2, AppendMoves
  <1>4. QED
    BY <1>1, <1>3, StoppedFacts

LEMMA PauseFacts ==
  ASSUME TypeOK, NEW k \in Conn, Pause(k)
  PROVE  /\ conns[k] = "pause" /\ UNCHANGED <<table, loop, stream, reg, cancel, history>>
         /\ \/ /\ row = "running" /\ row' = "paused" /\ conns' = [conns EXCEPT ![k] = "pausing"]
               /\ UNCHANGED bound
               /\ line' \in Seq(Entry) /\ Grown /\ Len(line') = Len(line) + 1
               /\ line'[Len(line')] = Emit("paused", k)
            \/ /\ row # "running" /\ UNCHANGED row /\ conns' = [conns EXCEPT ![k] = "paused"]
               /\ bound' = FALSE /\ line' = Dead(line)
  <1>1. /\ conns[k] = "pause" /\ UNCHANGED <<table, loop, stream, reg, cancel, history>>
        /\ \/ /\ row = "running" /\ row' = "paused" /\ conns' = [conns EXCEPT ![k] = "pausing"]
              /\ UNCHANGED bound /\ line' = Append(line, Emit("paused", k))
           \/ /\ row # "running" /\ UNCHANGED row /\ conns' = [conns EXCEPT ![k] = "paused"]
              /\ bound' = FALSE /\ line' = Dead(line)
    BY DEF Pause
  <1>2. Emit("paused", k) \in Entry
    BY EmitFacts
  <1>3. line' = Append(line, Emit("paused", k)) =>
          /\ line' \in Seq(Entry) /\ Grown /\ Len(line') = Len(line) + 1
          /\ line'[Len(line')] = Emit("paused", k)
    BY <1>2, AppendMoves
  <1>4. QED
    BY <1>1, <1>3

LEMMA ResumeFacts ==
  ASSUME TypeOK, Resume
  PROVE  /\ row = "paused" /\ reg # None /\ cancel = "no" /\ bound' = TRUE
         /\ \A i \in 1 .. Len(line) : line[i].t # "resumed"
         /\ UNCHANGED <<table, loop, stream, row, links, cancel, history>>
         /\ line' \in Seq(Entry) /\ Grown /\ Len(line') = Len(line) + 1
         /\ line'[Len(line')] = [t |-> "resumed", of |-> None, live |-> TRUE]
  <1> DEFINE e == [t |-> "resumed", of |-> None, live |-> TRUE]
  <1>1. e \in Entry
    BY DEF Entry
  <1>2. /\ row = "paused" /\ reg # None /\ cancel = "no" /\ bound' = TRUE
        /\ \A i \in DOMAIN line : line[i].t # "resumed"
        /\ UNCHANGED <<table, loop, stream, row, links, cancel, history>>
        /\ line' = Append(line, e)
    BY DEF Resume
  <1> HIDE DEF e
  <1>3. /\ line' \in Seq(Entry) /\ Grown /\ Len(line') = Len(line) + 1
        /\ line'[Len(line')] = e
    BY <1>1, <1>2, AppendMoves
  <1>4. QED
    BY <1>2, <1>3, LineFacts DEF e

LEMMA CancelRunFacts ==
  ASSUME TypeOK, CancelRun
  PROVE  /\ cancel = "stopped" /\ cancel' = "ending"
         /\ UNCHANGED <<table, loop, stream, bound, row, links, history>>
         /\ line' \in Seq(Entry) /\ Grown /\ Len(line') = Len(line) + 1
         /\ line'[Len(line')] = Emit("over", None)
  <1>1. /\ cancel = "stopped" /\ cancel' = "ending" /\ line' = Append(line, Emit("over", None))
        /\ UNCHANGED <<table, loop, stream, bound, row, links, history>>
    BY DEF CancelRun
  <1>2. Emit("over", None) \in Entry
    BY EmitFacts
  <1>3. QED
    BY <1>1, <1>2, AppendMoves

LEMMA UnsettledStays ==
  ASSUME TypeOK, CallsStay, UNCHANGED done
  PROVE  \A c \in Call : Unsettled(c)' => Unsettled(c)
  BY DEF CallsStay, CallStays, Unsettled

LEMMA UnsettledEnds ==
  ASSUME TypeOK, NEW calls, NEW binding, Ends(calls, binding)
  PROVE  /\ UNCHANGED <<loose, turn, waiter, row>>
         /\ \A c \in Call : Unsettled(c)' => Unsettled(c)
  BY DEF Ends, CallStays, loop, history, Unsettled, Pending

(* What the store refused and what came loose are not forgotten, and a run *)
(* that is over stays so.                                                  *)
LEMMA HistoryStep ==
  ASSUME TypeOK, [Next]_vars
  PROVE  (loose => loose') /\ (unheard => unheard') /\ (row = "over" => row' = "over")
  <1>1. CASE StartTurn
    BY <1>1 DEF StartTurn, history
  <1>0. CASE TurnFails
    <2>1. UNCHANGED unheard /\ (row = "over" => UNCHANGED row)
      BY <1>0, TurnFailsFacts
    <2>2. loose => loose'
      <3>1. \E left : loose' = (loose \/ left)
        BY <1>0, TurnFailsFacts
      <3>2. QED
        BY <3>1, Zenon
    <2>3. QED
      BY <2>1, <2>2
  <1>2. CASE TurnPauses
    BY <1>2, TurnPausesFacts DEF history
  <1>3. CASE TurnEnds
    BY <1>3 DEF TurnEnds, history
  <1>4. CASE \E c \in Call : Propose(c)
    BY <1>4, ProposeFacts DEF history
  <1>5. CASE \E c \in Call : Hear(c)
    BY <1>5, HearFacts DEF history
  <1>6. CASE \E c \in Call : Denied(c)
    BY <1>6, DeniedFacts, UnsettledEnds DEF Ends, history
  <1>7. CASE \E c \in Call : Expire(c)
    BY <1>7, ExpireEnds DEF Ends, history
  <1>8. CASE ServeProposal
    BY <1>8, ServeProposalFacts DEF history
  <1>9. CASE ServeFinish
    <2>1. UNCHANGED <<row, loose>>
      BY <1>9, ServeFinishFacts
    <2>2. unheard => unheard'
      <3>1. unheard' = unheard \/ \E live : unheard' = (unheard \/ live)
        BY <1>9, ServeFinishFacts
      <3>2. QED
        BY <3>1, Zenon
    <2>3. QED
      BY <2>1, <2>2
  <1>10. CASE ServePause
    BY <1>10, ServePauseFacts DEF history
  <1>11. CASE ServeResume
    BY <1>11, ServeResumeFacts DEF history
  <1>12. CASE ServeEnd
    <2>1. UNCHANGED <<loose, unheard>> /\ (row' = "over" \/ UNCHANGED row)
      BY <1>12, ServeEndFacts DEF history
    <2>2. QED
      BY <2>1
  <1>13. CASE \E k \in Conn : Connect(k)
    <2>1. UNCHANGED <<row, unheard>> /\ \E was : loose' = (loose \/ was)
      BY <1>13 DEF Connect
    <2>2. QED
      BY <2>1, Zenon
  <1>14. CASE \E k \in Conn : Leave(k)
    BY <1>14, LeaveFacts DEF history
  <1>15. CASE \E k \in Conn : LookForRuns(k)
    BY <1>15 DEF LookForRuns, history
  <1>16. CASE \E k \in Conn : StopForPause(k)
    BY <1>16 DEF StopForPause, history
  <1>17. CASE \E k \in Conn : CloseForPause(k)
    BY <1>17, CloseForPauseEnds DEF Ends, history
  <1>18. CASE \E k \in Conn : Pause(k)
    BY <1>18, PauseFacts DEF history
  <1>19. CASE \E k \in Conn : CleanUp(k)
    BY <1>19, CleanUpEnds DEF Ends, history
  <1>20. CASE \E k \in Conn, c \in Call : Result(k, c)
    BY <1>20, ResultEnds DEF Ends, history
  <1>21. CASE \E k \in Conn, c \in Call : Deny(k, c)
    BY <1>21, DenyFacts DEF history
  <1>22. CASE Resume
    BY <1>22, ResumeFacts DEF history
  <1>23. CASE CancelCalls
    BY <1>23, CancelCallsEnds DEF Ends, history
  <1>24. CASE CancelTurn
    BY <1>24 DEF CancelTurn, history
  <1>25. CASE CancelRun
    BY <1>25, CancelRunFacts DEF history
  <1>26. CASE UNCHANGED vars
    BY <1>26 DEF vars, history
  <1>27. QED
    BY <1>0, <1>1, <1>2, <1>3, <1>4, <1>5, <1>6, <1>7, <1>8, <1>9, <1>10, <1>11, <1>12, <1>13,
       <1>14,
       <1>15, <1>16, <1>17, <1>18, <1>19, <1>20, <1>21, <1>22, <1>23, <1>24, <1>25, <1>26
       DEF Next, Serve, Handlers

------------------------------------------------------------------------------
(* Types.                                                                  *)
LEMMA CallTypesStay ==
  ASSUME TypeOK, CallsStay
  PROVE  call' \in [Call -> CallRecord] /\ CallTypes'
  BY DEF TypeOK, CallsStay, CallStays, CallTypes

LEMMA CallTypesEnd ==
  ASSUME TypeOK, NEW calls, NEW binding \in BOOLEAN, Ends(calls, binding)
  PROVE  call' \in [Call -> CallRecord] /\ CallTypes'
  BY DEF TypeOK, Ends, CallStays, CallTypes

LEMMA StartTurnTypes ==
  ASSUME TypeOK, StartTurn
  PROVE  TypeOK'
  <1>1. line' \in Seq(Entry)
    BY StaysMoves DEF StartTurn, emitter
  <1>2. call' \in [Call -> CallRecord] /\ CallTypes'
    BY SameCallsStay, CallTypesStay DEF StartTurn, table
  <1>3. QED
    BY <1>1, <1>2 DEF StartTurn, TypeOK, vars, table, loop, stream, emitter, links, history
LEMMA HearTypes ==
  ASSUME TypeOK, NEW c \in Call, Hear(c)
  PROVE  TypeOK'
  <1>1. line' \in Seq(Entry)
    BY StaysMoves DEF Hear, emitter
  <1>2. call' \in [Call -> CallRecord] /\ CallTypes'
    BY SameCallsStay, CallTypesStay DEF Hear, table
  <1>3. QED
    BY <1>1, <1>2 DEF Hear, TypeOK, vars, table, loop, stream, emitter, links, history
LEMMA ConnectTypes ==
  ASSUME TypeOK, NEW k \in Conn, Connect(k)
  PROVE  TypeOK'
  <1>1. line' \in Seq(Entry)
    BY StaysMoves DEF Connect, emitter
  <1>2. call' \in [Call -> CallRecord] /\ CallTypes'
    BY SameCallsStay, CallTypesStay DEF Connect, table
  <1>3. QED
    BY <1>1, <1>2 DEF Connect, TypeOK, vars, table, loop, stream, emitter, links, history
LEMMA LookForRunsTypes ==
  ASSUME TypeOK, NEW k \in Conn, LookForRuns(k)
  PROVE  TypeOK'
  <1>1. line' \in Seq(Entry)
    BY StaysMoves DEF LookForRuns, emitter
  <1>2. call' \in [Call -> CallRecord] /\ CallTypes'
    BY SameCallsStay, CallTypesStay DEF LookForRuns, table
  <1>3. QED
    BY <1>1, <1>2 DEF LookForRuns, TypeOK, vars, table, loop, stream, emitter, links, history
LEMMA TurnEndsTypes ==
  ASSUME TypeOK, TurnEnds
  PROVE  TypeOK'
  <1>1. line' \in Seq(Entry)
    BY StaysMoves DEF TurnEnds, emitter
  <1>2. call' \in [Call -> CallRecord] /\ CallTypes'
    BY SameCallsStay, CallTypesStay DEF TurnEnds, table
  <1>3. QED
    BY <1>1, <1>2 DEF TurnEnds, TypeOK, vars, table, loop, stream, emitter, links, history,
       Stopped
LEMMA CancelTurnTypes ==
  ASSUME TypeOK, CancelTurn
  PROVE  TypeOK'
  <1>1. line' \in Seq(Entry)
    BY StaysMoves DEF CancelTurn, emitter
  <1>2. call' \in [Call -> CallRecord] /\ CallTypes'
    BY SameCallsStay, CallTypesStay DEF CancelTurn, table
  <1>3. QED
    BY <1>1, <1>2 DEF CancelTurn, TypeOK, vars, table, loop, stream, emitter, links, history,
       Stopped
LEMMA StopForPauseTypes ==
  ASSUME TypeOK, NEW k \in Conn, StopForPause(k)
  PROVE  TypeOK'
  <1>1. line' \in Seq(Entry)
    BY StaysMoves DEF StopForPause
  <1>2. call' \in [Call -> CallRecord] /\ CallTypes'
    BY SameCallsStay, CallTypesStay DEF StopForPause, table
  <1>3. QED
    BY <1>1, <1>2 DEF StopForPause, Stopped, TypeOK, vars, table, loop, stream, emitter, links,
       history
LEMMA ResultTypes ==
  ASSUME TypeOK, NEW k \in Conn, NEW c \in Call, Result(k, c)
  PROVE  TypeOK'
  <1>1. PICK calls : Ends(calls, bound)
    BY ResultEnds
  <1>2. call' \in [Call -> CallRecord] /\ CallTypes'
    BY <1>1, CallTypesEnd DEF TypeOK
  <1>3. line' \in Seq(Entry) /\ UNCHANGED <<done, loop, stream, row, history>>
    BY ResultEnds DEF Ends
  <1>4. UNCHANGED <<done, waiter, turn, about, latest, bound, row, conns, reg, cancel, loose,
                    unheard>>
    BY <1>3, ResultEnds DEF loop, stream, links, history
  <1>5. QED
    BY <1>2, <1>3, <1>4 DEF TypeOK
LEMMA ExpireTypes ==
  ASSUME TypeOK, NEW c \in Call, Expire(c)
  PROVE  TypeOK'
  <1>1. PICK calls : Ends(calls, bound)
    BY ExpireEnds
  <1>2. call' \in [Call -> CallRecord] /\ CallTypes'
    BY <1>1, CallTypesEnd DEF TypeOK
  <1>3. /\ line' \in Seq(Entry)
        /\ UNCHANGED <<done, waiter, turn, about, latest, row, loose, unheard>>
    BY <1>1 DEF Ends, loop, stream, history
  <1>4. /\ UNCHANGED <<bound, reg, cancel>>
        /\ conns' \in [Conn -> {"new", "live", "left", "stopping", "hook", "pause", "pausing",
                               "paused", "done"}]
    BY ExpireEnds DEF TypeOK, links
  <1>5. QED
    BY <1>2, <1>3, <1>4 DEF TypeOK

LEMMA CloseForPauseTypes ==
  ASSUME TypeOK, NEW k \in Conn, CloseForPause(k)
  PROVE  TypeOK'
  <1>1. PICK calls : Ends(calls, bound)
    BY CloseForPauseEnds
  <1>2. call' \in [Call -> CallRecord] /\ CallTypes'
    BY <1>1, CallTypesEnd DEF TypeOK
  <1>3. /\ line' \in Seq(Entry)
        /\ UNCHANGED <<done, waiter, turn, about, latest, row, loose, unheard>>
    BY <1>1 DEF Ends, loop, stream, history
  <1>4. /\ UNCHANGED <<bound, reg, cancel>>
        /\ conns' \in [Conn -> {"new", "live", "left", "stopping", "hook", "pause", "pausing",
                               "paused", "done"}]
    BY CloseForPauseEnds DEF TypeOK, links
  <1>5. QED
    BY <1>2, <1>3, <1>4 DEF TypeOK

LEMMA CleanUpTypes ==
  ASSUME TypeOK, NEW k \in Conn, CleanUp(k)
  PROVE  TypeOK'
  <1>1. PICK calls : Ends(calls, bound)
    BY CleanUpEnds
  <1>2. call' \in [Call -> CallRecord] /\ CallTypes'
    BY <1>1, CallTypesEnd DEF TypeOK
  <1>3. /\ line' \in Seq(Entry)
        /\ UNCHANGED <<done, waiter, turn, about, latest, row, loose, unheard>>
    BY <1>1 DEF Ends, loop, stream, history
  <1>4. /\ UNCHANGED <<bound, reg, cancel>>
        /\ conns' \in [Conn -> {"new", "live", "left", "stopping", "hook", "pause", "pausing",
                               "paused", "done"}]
    BY CleanUpEnds DEF TypeOK, links
  <1>5. QED
    BY <1>2, <1>3, <1>4 DEF TypeOK

LEMMA CancelCallsTypes ==
  ASSUME TypeOK, CancelCalls
  PROVE  TypeOK'
  <1>1. PICK calls : Ends(calls, TRUE)
    BY CancelCallsEnds
  <1>2. call' \in [Call -> CallRecord] /\ CallTypes'
    BY <1>1, CallTypesEnd DEF TypeOK
  <1>3. QED
    BY <1>1, <1>2, CancelCallsEnds DEF Ends, TypeOK, vars, table, loop, stream, emitter, links,
       history
LEMMA DeniedTypes ==
  ASSUME TypeOK, NEW c \in Call, Denied(c)
  PROVE  TypeOK'
  <1>1. CASE Ends({c}, bound)
    <2>1. call' \in [Call -> CallRecord] /\ CallTypes'
      BY <1>1, CallTypesEnd DEF TypeOK
    <2>2. QED
      BY <1>1, <2>1, DeniedFacts DEF Ends, TypeOK, vars, table, loop, stream, emitter, links,
         history
  <1>2. CASE CallsStay /\ UNCHANGED <<done, loop, stream, row, history, line>>
    <2>1. line' \in Seq(Entry) /\ call' \in [Call -> CallRecord] /\ CallTypes'
      BY <1>2, StaysMoves, CallTypesStay
    <2>2. QED
      BY <1>2, <2>1, DeniedFacts DEF TypeOK, vars, table, loop, stream, emitter, links, history
  <1>3. QED
    BY <1>1, <1>2, DeniedFacts
LEMMA DenyTypes ==
  ASSUME TypeOK, NEW k \in Conn, NEW c \in Call, Deny(k, c)
  PROVE  TypeOK'
  <1>1. line' \in Seq(Entry) /\ call' \in [Call -> CallRecord] /\ CallTypes'
    BY DenyFacts, StaysMoves, CallTypesStay DEF emitter, table
  <1>2. QED
    BY <1>1, DenyFacts DEF WaitersStay, TypeOK, vars, table, loop, stream, emitter, links,
       history
LEMMA LeaveTypes ==
  ASSUME TypeOK, NEW k \in Conn, Leave(k)
  PROVE  TypeOK'
  <1>1. line' \in Seq(Entry) /\ call' \in [Call -> CallRecord] /\ CallTypes'
    BY LeaveFacts, StaysMoves, CallTypesStay DEF emitter, table
  <1>2. QED
    BY <1>1, LeaveFacts DEF WaitersStay, TypeOK, vars, table, loop, stream, emitter, links,
       history
LEMMA TurnPausesTypes ==
  ASSUME TypeOK, TurnPauses
  PROVE  TypeOK'
  <1>1. line' \in Seq(Entry) /\ call' \in [Call -> CallRecord] /\ CallTypes'
    BY TurnPausesFacts, StaysMoves, SameCallsStay, CallTypesStay DEF emitter, table
  <1>2. UNCHANGED <<done, about, latest, bound, conns, reg, cancel, loose, unheard>>
    BY TurnPausesFacts DEF table, stream, links, history
  <1>3. waiter' \in [Call -> {"no", "waits", "back", "cut", "failed"}] /\ turn' \in BOOLEAN
    BY TurnPausesFacts DEF WaitersStay
  <1>4. row' \in {"running", "paused", "over"}
    BY TurnPausesFacts DEF TypeOK
  <1>5. QED
    BY <1>1, <1>2, <1>3, <1>4 DEF TypeOK
LEMMA TurnFailsTypes ==
  ASSUME TypeOK, TurnFails
  PROVE  TypeOK'
  <1>1. line' \in Seq(Entry) /\ call' \in [Call -> CallRecord] /\ CallTypes'
    BY TurnFailsFacts, StaysMoves, SameCallsStay, CallTypesStay DEF emitter, table
  <1>2. UNCHANGED <<done, about, latest, bound, conns, reg, cancel, unheard>>
    BY TurnFailsFacts DEF table, stream, links
  <1>3. waiter' \in [Call -> {"no", "waits", "back", "cut", "failed"}] /\ turn' \in BOOLEAN
    BY TurnFailsFacts DEF WaitersStay
  <1>4. row' \in {"running", "paused", "over"} /\ loose' \in BOOLEAN
    BY TurnFailsFacts DEF TypeOK
  <1>5. QED
    BY <1>1, <1>2, <1>3, <1>4 DEF TypeOK
LEMMA PauseTypes ==
  ASSUME TypeOK, NEW k \in Conn, Pause(k)
  PROVE  TypeOK'
  <1>1. line' \in Seq(Entry) /\ call' \in [Call -> CallRecord] /\ CallTypes'
    BY PauseFacts, DeadMoves, SameCallsStay, CallTypesStay DEF emitter, table
  <1>2. UNCHANGED <<done, waiter, turn, about, latest, reg, cancel, loose, unheard>>
    BY PauseFacts DEF table, loop, stream, history
  <1>3. bound' \in BOOLEAN /\ row' \in {"running", "paused", "over"}
    BY PauseFacts DEF TypeOK
  <1>4. conns' \in [Conn -> {"new", "live", "left", "stopping", "hook", "pause", "pausing",
                             "paused", "done"}]
    BY PauseFacts DEF TypeOK
  <1>5. QED
    BY <1>1, <1>2, <1>3, <1>4 DEF TypeOK
LEMMA ResumeTypes ==
  ASSUME TypeOK, Resume
  PROVE  TypeOK'
  <1>1. line' \in Seq(Entry) /\ call' \in [Call -> CallRecord] /\ CallTypes'
    BY ResumeFacts, SameCallsStay, CallTypesStay DEF emitter, table
  <1>2. QED
    BY <1>1, ResumeFacts DEF WaitersStay, TypeOK, vars, table, loop, stream, emitter, links,
       history
LEMMA CancelRunTypes ==
  ASSUME TypeOK, CancelRun
  PROVE  TypeOK'
  <1>1. line' \in Seq(Entry) /\ call' \in [Call -> CallRecord] /\ CallTypes'
    BY CancelRunFacts, SameCallsStay, CallTypesStay DEF emitter, table
  <1>2. QED
    BY <1>1, CancelRunFacts DEF WaitersStay, TypeOK, vars, table, loop, stream, emitter, links,
       history
LEMMA ServePauseTypes ==
  ASSUME TypeOK, ServePause
  PROVE  TypeOK'
  <1>1. line' \in Seq(Entry) /\ call' \in [Call -> CallRecord] /\ CallTypes'
    BY ServePauseFacts, DeadTailMoves, SameCallsStay, CallTypesStay DEF emitter, table
  <1>2. PICK k : conns' = [j \in Conn |-> IF j = k THEN "paused" ELSE conns[j]]
    BY ServePauseFacts
  <1>3. conns' \in [Conn -> {"new", "live", "left", "stopping", "hook", "pause", "pausing",
                             "paused", "done"}]
    BY <1>2 DEF TypeOK
  <1>4. latest' \in {None, "call", "paused", "running", "over"}
    BY ServePauseFacts DEF TypeOK
  <1>5. QED
    BY <1>1, <1>3, <1>4, ServePauseFacts DEF WaitersStay, TypeOK, vars, table, loop, stream,
       emitter, links, history
LEMMA ServeResumeTypes ==
  ASSUME TypeOK, ServeResume
  PROVE  TypeOK'
  <1>1. line' \in Seq(Entry) /\ call' \in [Call -> CallRecord] /\ CallTypes'
    BY ServeResumeFacts, TailMoves, SameCallsStay, CallTypesStay DEF emitter, table
  <1>2. QED
    BY <1>1, ServeResumeFacts DEF WaitersStay, TypeOK, vars, table, loop, stream, emitter,
       links, history
LEMMA ServeEndTypes ==
  ASSUME TypeOK, ServeEnd
  PROVE  TypeOK'
  <1>1. line' \in Seq(Entry) /\ call' \in [Call -> CallRecord] /\ CallTypes'
    BY ServeEndFacts, TailMoves, DeadTailMoves, SameCallsStay, CallTypesStay DEF emitter, table
  <1>2. QED
    BY <1>1, ServeEndFacts DEF WaitersStay, TypeOK, vars, table, loop, stream, emitter, links,
       history
LEMMA ProposeTypes ==
  ASSUME TypeOK, NEW c \in Call, Propose(c)
  PROVE  TypeOK'
  <1>1. \A d \in Call : /\ call[d].at = "over" => call[d].status \in Status
                        /\ call[d].at = "open" => call[d].conn \in Conn
    BY DEF TypeOK, CallTypes
  <1>2. \A d \in Call \ {c} : CallStays(d)
    BY ProposeFacts
  <1>3. CallStays(c) \/ (call'[c].at = "open" /\ call'[c].conn \in Conn)
    BY ProposeFacts
  <1>4. call' \in [Call -> CallRecord]
    BY ProposeFacts
  <1>5. ASSUME NEW d \in Call PROVE /\ call'[d].at = "over" => call'[d].status \in Status
                                    /\ call'[d].at = "open" => call'[d].conn \in Conn
    <2>1. CallStays(d) \/ (call'[d].at = "open" /\ call'[d].conn \in Conn)
      BY <1>2, <1>3
    <2>2. QED
      BY <1>1, <2>1 DEF CallStays
  <1>6. line' \in Seq(Entry)
    BY ProposeFacts, StaysMoves
  <1>7. waiter' \in [Call -> {"no", "waits", "back", "cut", "failed"}]
    BY ProposeFacts DEF TypeOK
  <1>8. CallTypes'
    BY <1>5 DEF CallTypes
  <1>9. QED
    BY <1>4, <1>6, <1>7, <1>8, ProposeFacts DEF TypeOK, vars, table, loop, stream, emitter,
       links, history
LEMMA ServeProposalTypes ==
  ASSUME TypeOK, ServeProposal
  PROVE  TypeOK'
  <1> DEFINE c == line[1].of
  <1>1. call' \in [Call -> CallRecord] /\ CallTypes' /\ c \in Call
    <2>1. \A d \in Call : /\ call[d].at = "over" => call[d].status \in Status
                          /\ call[d].at = "open" => call[d].conn \in Conn
      BY DEF TypeOK, CallTypes
    <2>2. c \in Call /\ call' \in [Call -> CallRecord] /\ \A d \in Call \ {c} : CallStays(d)
      BY ServeProposalFacts
    <2>3. \/ call'[c].at = call[c].at /\ call'[c].status = call[c].status
               /\ call'[c].conn = call[c].conn
          \/ call'[c].at = "dropped"
      BY ServeProposalFacts DEF CallStays
    <2> HIDE DEF c
    <2>4. ASSUME NEW d \in Call PROVE /\ call'[d].at = "over" => call'[d].status \in Status
                                      /\ call'[d].at = "open" => call'[d].conn \in Conn
      <3>1. CASE d = c
        BY <2>1, <2>3, <3>1
      <3>2. CASE d # c
        BY <2>1, <2>2, <3>2 DEF CallStays
      <3>3. QED
        BY <3>1, <3>2
    <2>5. QED
      BY <2>2, <2>4 DEF CallTypes
  <1>2. line' \in Seq(Entry)
    BY ServeProposalFacts, TailMoves
  <1> HIDE DEF c
  <1>3. Append(about[c], "proposed") \in Seq(Status \union {"proposed"})
    BY <1>1, AppendProperties DEF TypeOK
  <1>4. about' \in [Call -> Seq(Status \union {"proposed"})]
          /\ done' \in [Call -> {"no", "told", "raised"}]
        /\ latest' \in {None, "call", "paused", "running", "over"}
    BY <1>1, <1>3, ServeProposalFacts DEF TypeOK, stream, c
  <1>5. QED
    BY <1>1, <1>2, <1>4, ServeProposalFacts DEF TypeOK, vars, table, loop, stream, emitter,
       links, history
LEMMA ServeFinishTypes ==
  ASSUME TypeOK, CallsFit, ServeFinish
  PROVE  TypeOK'
  <1> DEFINE c == line[1].of
  <1>1. call' \in [Call -> CallRecord] /\ CallTypes' /\ c \in Call
    BY ServeFinishFacts, SameCallsStay, CallTypesStay
  <1>2. line' \in Seq(Entry) /\ line[1].live \in BOOLEAN
    BY ServeFinishFacts, TailMoves, ServedFacts
  <1> HIDE DEF c
  <1>3. call[c].status \in Status
    <2>1. 1 \in 1 .. Len(line) /\ line[1].t = "finished" /\ line[1].of = c
      BY ServeFinishFacts, LineFacts DEF c
    <2>2. call[c].at = "over"
      BY <1>1, <2>1 DEF CallsFit, CallFits, Waits
    <2>3. QED
      BY <1>1, <2>2 DEF TypeOK, CallTypes
  <1>4. Append(about[c], call[c].status) \in Seq(Status \union {"proposed"})
    BY <1>1, <1>3, AppendProperties DEF TypeOK
  <1>5. about' \in [Call -> Seq(Status \union {"proposed"})]
          /\ done' \in [Call -> {"no", "told", "raised"}]
        /\ latest' \in {None, "call", "paused", "running", "over"}
    BY <1>1, <1>4, ServeFinishFacts DEF TypeOK, stream, c
  <1>6. unheard' \in BOOLEAN
    BY <1>2, ServeFinishFacts DEF TypeOK
  <1>7. QED
    BY <1>1, <1>2, <1>5, <1>6, ServeFinishFacts DEF TypeOK, vars, table, loop, stream, emitter,
       links, history

------------------------------------------------------------------------------
(* Each call, its events in the line, and who waits for it.                *)
LEMMA MovedWaits ==
  ASSUME TypeOK, line' \in Seq(Entry), NEW first \in {0, 1}, Moved(first), NEW c, NEW kind,
         first = 1 => Len(line) >= 1
  PROVE  /\ \A i \in 1 .. Len(line') : i + first \in 1 .. Len(line)
              /\ (Waits(kind, c, i)' <=> Waits(kind, c, i + first))
         /\ \A i \in 1 .. Len(line) : Waits(kind, c, i) =>
              (i = 1 /\ first = 1)
                \/ (i - first \in 1 .. Len(line') /\ Waits(kind, c, i - first)')
         /\ Len(line) \in Nat /\ Len(line') \in Nat
  <1>1. /\ Len(line) \in Nat /\ Len(line') \in Nat /\ Len(line') = Len(line) - first
        /\ \A i \in 1 .. Len(line') : line'[i].t = line[i + first].t
             /\ line'[i].of = line[i + first].of
    BY LineFacts, LenProperties DEF Moved
  <1>2. \A i \in 1 .. Len(line') : i + first \in 1 .. Len(line)
    BY <1>1
  <1>3. \A i \in 1 .. Len(line') : Waits(kind, c, i)' <=> Waits(kind, c, i + first)
    BY <1>1 DEF Waits
  <1>4. ASSUME NEW i \in 1 .. Len(line), ~(i = 1 /\ first = 1)
        PROVE  i - first \in 1 .. Len(line') /\ (i - first) + first = i
    BY <1>1, <1>4
  <1>5. QED
    BY <1>1, <1>2, <1>3, <1>4

LEMMA MovedCalls ==
  ASSUME TypeOK, CallsFit, line' \in Seq(Entry), NEW first \in {0, 1}, Moved(first),
         first = 1 => Len(line) >= 1 /\ line[1].t \notin {"proposed", "finished"},
         CallsStay, UNCHANGED <<done, about>>, WaitersStay
  PROVE  CallsFit'
  <1> SUFFICES ASSUME NEW c \in Call PROVE CallFits(c)' /\ HeardOf(c)'
    BY DEF CallsFit
  <1>1. CallFits(c) /\ HeardOf(c) /\ CallStays(c) /\ (waiter'[c] = "no" => waiter[c] = "no")
    BY DEF CallsFit, CallsStay, WaitersStay
  <1>2. \A kind \in {"proposed", "finished"} :
          /\ \A i \in 1 .. Len(line') : i + first \in 1 .. Len(line)
               /\ (Waits(kind, c, i)' <=> Waits(kind, c, i + first))
          /\ \A i \in 1 .. Len(line) : Waits(kind, c, i) =>
               (i = 1 /\ first = 1)
                 \/ (i - first \in 1 .. Len(line') /\ Waits(kind, c, i - first)')
          /\ Len(line) \in Nat /\ Len(line') \in Nat
    BY MovedWaits
  <1>3. first = 1 => ~Waits("proposed", c, 1) /\ ~Waits("finished", c, 1)
    BY DEF Waits
  <1>4. CallFits(c)'
    BY <1>1, <1>2 DEF CallFits, CallStays
  <1>5. HeardOf(c)'
    BY <1>1, <1>2, <1>3 DEF HeardOf, CallStays
  <1>6. QED
    BY <1>4, <1>5

LEMMA GrownWaits ==
  ASSUME TypeOK, line' \in Seq(Entry), Grown, NEW c, NEW kind
  PROVE  /\ \A i \in 1 .. Len(line) : i \in 1 .. Len(line')
              /\ (Waits(kind, c, i)' <=> Waits(kind, c, i))
         /\ Len(line) \in Nat /\ Len(line') \in Nat /\ Len(line') >= Len(line)
         /\ \A i \in 1 .. Len(line') : i \in 1 .. Len(line) \/ (i \in Newer /\ i > Len(line))
         /\ \A i \in Newer : i \in 1 .. Len(line') /\ i > Len(line)
  <1>1. /\ Len(line) \in Nat /\ Len(line') \in Nat /\ Len(line') >= Len(line)
        /\ \A i \in 1 .. Len(line) : line'[i] = line[i]
    BY LineFacts, LenProperties DEF Grown
  <1>2. QED
    BY <1>1 DEF Waits, Newer

LEMMA GrownCalls ==
  ASSUME TypeOK, CallsFit, line' \in Seq(Entry), Grown, Len(line') = Len(line) + 1,
         line'[Len(line')].t \notin {"proposed", "finished"},
         CallsStay, UNCHANGED <<done, about>>, WaitersStay
  PROVE  CallsFit'
  <1> SUFFICES ASSUME NEW c \in Call PROVE CallFits(c)' /\ HeardOf(c)'
    BY DEF CallsFit
  <1>1. CallFits(c) /\ HeardOf(c) /\ CallStays(c) /\ (waiter'[c] = "no" => waiter[c] = "no")
    BY DEF CallsFit, CallsStay, WaitersStay
  <1>2. \A kind \in {"proposed", "finished"} : \A i \in 1 .. Len(line) :
          i \in 1 .. Len(line') /\ (Waits(kind, c, i)' <=> Waits(kind, c, i))
    BY GrownWaits
  <1>3. \A i \in 1 .. Len(line') : i \in 1 .. Len(line) \/ i = Len(line')
    BY GrownWaits DEF Newer
  <1>4. \A i \in 1 .. Len(line') : Waits("proposed", c, i)' \/ Waits("finished", c, i)'
          => i \in 1 .. Len(line)
    BY <1>3 DEF Waits
  <1>5. CallFits(c)'
    BY <1>1, <1>2, <1>4 DEF CallFits, CallStays
  <1>6. HeardOf(c)'
    BY <1>1, <1>2 DEF HeardOf, CallStays
  <1>7. QED
    BY <1>5, <1>6

LEMMA EndedCalls ==
  ASSUME TypeOK, CallsFit, NEW calls, NEW binding \in BOOLEAN, Ends(calls, binding)
  PROVE  CallsFit'
  <1> SUFFICES ASSUME NEW c \in Call PROVE CallFits(c)' /\ HeardOf(c)'
    BY DEF CallsFit
  <1>1. CallFits(c) /\ HeardOf(c) /\ done' = done /\ about' = about /\ waiter' = waiter
    BY DEF CallsFit, Ends, loop, stream
  <1>2. /\ \A i \in Newer : line'[i].t = "finished" /\ line'[i].of \in calls
        /\ \A i, j \in Newer : line'[i].of = line'[j].of => i = j
        /\ \A d \in calls : \E i \in Newer : line'[i].of = d
        /\ line' \in Seq(Entry) /\ Grown
    BY DEF Ends, Announced
  <1>3. /\ \A kind \in {"proposed", "finished"} : \A i \in 1 .. Len(line) :
             i \in 1 .. Len(line') /\ (Waits(kind, c, i)' <=> Waits(kind, c, i))
        /\ Len(line) \in Nat /\ Len(line') \in Nat
        /\ \A i \in 1 .. Len(line') : i \in 1 .. Len(line) \/ (i \in Newer /\ i > Len(line))
        /\ \A i \in Newer : i \in 1 .. Len(line') /\ i > Len(line)
    BY <1>2, GrownWaits
  <1>4. /\ \A i \in Newer : ~Waits("proposed", c, i)'
             /\ (Waits("finished", c, i)' => c \in calls)
        /\ \A i, j \in Newer : Waits("finished", c, i)' /\ Waits("finished", c, j)' => i = j
        /\ c \in calls => \E i \in Newer : Waits("finished", c, i)'
    BY <1>2 DEF Waits
  <1>5. CASE c \in calls
    <2>1. call[c].at = "open" /\ call'[c].at = "over"
      BY <1>5 DEF Ends, Pending
    <2>2. \A i \in 1 .. Len(line) : ~Waits("finished", c, i)
      BY <1>1, <2>1 DEF CallFits
    <2>3. done[c] = "no" /\ waiter[c] # "no"
      BY <1>1, <2>1 DEF CallFits
    <2>4. CallFits(c)'
      BY <1>1, <1>3, <1>4, <2>1, <2>2, <2>3 DEF CallFits
    <2>5. HeardOf(c)'
      BY <1>3, <1>4, <1>5, <2>1 DEF HeardOf
    <2>6. QED
      BY <2>4, <2>5
  <1>6. CASE c \notin calls
    <2>1. CallStays(c)
      BY <1>6 DEF Ends
    <2>2. \A i \in 1 .. Len(line') : Waits("proposed", c, i)' \/ Waits("finished", c, i)'
            => i \in 1 .. Len(line)
      BY <1>3, <1>4, <1>6
    <2>3. CallFits(c)'
      BY <1>1, <1>3, <2>1, <2>2 DEF CallFits, CallStays
    <2>4. HeardOf(c)'
      BY <1>1, <1>3, <2>1 DEF HeardOf, CallStays
    <2>5. QED
      BY <2>3, <2>4
  <1>7. QED
    BY <1>5, <1>6

LEMMA ProposeCalls ==
  ASSUME TypeOK, CallsFit, NEW c \in Call, Propose(c)
  PROVE  CallsFit'
  <1> SUFFICES ASSUME NEW d \in Call PROVE CallFits(d)' /\ HeardOf(d)'
    BY DEF CallsFit
  <1>1. CallFits(d) /\ HeardOf(d) /\ done' = done /\ about' = about
    BY ProposeFacts DEF CallsFit, stream
  <1>2. CASE UNCHANGED line
    <2>1. Len(line') # Len(line) + 1
      <3>1. Len(line) \in Nat
        BY LineFacts
      <3>2. QED
        BY <1>2, <3>1
    <2>2. CallStays(d) /\ (waiter'[d] = "no" => waiter[d] = "no")
      BY <2>1, ProposeFacts DEF TypeOK
    <2>3. \A kind \in {"proposed", "finished"} : \A i \in 1 .. Len(line) :
            Waits(kind, d, i)' <=> Waits(kind, d, i)
      BY <1>2 DEF Waits
    <2>4. CallFits(d)'
      BY <1>1, <1>2, <2>2, <2>3 DEF CallFits, CallStays
    <2>5. HeardOf(d)'
      BY <1>1, <1>2, <2>2, <2>3 DEF HeardOf, CallStays
    <2>6. QED
      BY <2>4, <2>5
  <1>3. CASE ~UNCHANGED line
    <2>1. /\ call'[c].at = "open" /\ ~call'[c].timer /\ waiter' = [waiter EXCEPT ![c] = "waits"]
          /\ line' \in Seq(Entry) /\ Grown /\ Len(line') = Len(line) + 1
          /\ line'[Len(line')].t = "proposed" /\ line'[Len(line')].of = c
          /\ waiter[c] = "no"
      BY <1>3, ProposeFacts
    <2>2. /\ \A kind \in {"proposed", "finished"} : \A i \in 1 .. Len(line) :
               i \in 1 .. Len(line') /\ (Waits(kind, d, i)' <=> Waits(kind, d, i))
          /\ Len(line) \in Nat /\ Len(line') \in Nat
      BY <2>1, GrownWaits
    <2>3. PICK n \in Nat : n = Len(line')
      BY <2>2
    <2>4. \A i \in 1 .. Len(line') : i \in 1 .. Len(line) \/ i = n
      BY <2>1, <2>2, <2>3
    <2>5. line'[n].t = "proposed" /\ line'[n].of = c /\ n \in 1 .. Len(line') /\ n > Len(line)
      BY <2>1, <2>2, <2>3
    <2>6. ~Waits("finished", d, n)' /\ (Waits("proposed", d, n)' <=> d = c)
      BY <2>5 DEF Waits
    <2>7. CASE d = c
      <3>1. waiter'[c] = "waits"
        BY <2>1 DEF TypeOK
      <3>2. CallFits(d)'
        BY <1>1, <2>1, <2>2, <2>4, <2>5, <2>6, <2>7, <3>1 DEF CallFits
      <3>3. HeardOf(d)'
        BY <2>1, <2>5, <2>6, <2>7 DEF HeardOf
      <3>4. QED
        BY <3>2, <3>3
    <2>8. CASE d # c
      <3>1. CallStays(d) /\ waiter'[d] = waiter[d]
        BY <2>8, ProposeFacts
      <3>2. \A i \in 1 .. Len(line') : Waits("proposed", d, i)' \/ Waits("finished", d, i)'
              => i \in 1 .. Len(line)
        BY <2>4, <2>6, <2>8
      <3>3. CallFits(d)'
        BY <1>1, <2>2, <3>1, <3>2 DEF CallFits, CallStays
      <3>4. HeardOf(d)'
        BY <1>1, <2>2, <3>1 DEF HeardOf, CallStays
      <3>5. QED
        BY <3>3, <3>4
    <2>9. QED
      BY <2>7, <2>8
  <1>4. QED
    BY <1>2, <1>3

(* The front of the line goes, and is of one call.                         *)
LEMMA TailWaits ==
  ASSUME TypeOK, line # <<>>, line' = Tail(line), NEW d
  PROVE  /\ \A kind \in {"proposed", "finished", "paused"} :
              /\ \A i \in 1 .. Len(line') : i + 1 \in 1 .. Len(line)
                   /\ (Waits(kind, d, i)' <=> Waits(kind, d, i + 1))
              /\ \A i \in 1 .. Len(line) : Waits(kind, d, i) =>
                   i = 1 \/ (i - 1 \in 1 .. Len(line') /\ Waits(kind, d, i - 1)')
         /\ Len(line) \in Nat /\ Len(line') \in Nat /\ 1 \in 1 .. Len(line)
  <1>1. line' \in Seq(Entry) /\ Moved(1) /\ Len(line) >= 1 /\ Len(line) \in Nat
    BY TailMoves, LineFacts
  <1>2. 1 \in {0, 1} /\ 1 \in 1 .. Len(line)
    BY <1>1
  <1>3. \A kind \in {"proposed", "finished", "paused"} :
          /\ \A i \in 1 .. Len(line') : i + 1 \in 1 .. Len(line)
               /\ (Waits(kind, d, i)' <=> Waits(kind, d, i + 1))
          /\ \A i \in 1 .. Len(line) : Waits(kind, d, i) =>
               (i = 1 /\ 1 = 1) \/ (i - 1 \in 1 .. Len(line') /\ Waits(kind, d, i - 1)')
          /\ Len(line) \in Nat /\ Len(line') \in Nat
    BY <1>1, <1>2, MovedWaits
  <1>4. QED
    BY <1>1, <1>2, <1>3

LEMMA ServeProposalCalls ==
  ASSUME TypeOK, CallsFit, ServeProposal
  PROVE  CallsFit'
  <1> DEFINE c == line[1].of
  <1>1. line # <<>> /\ line' = Tail(line) /\ c \in Call /\ line[1].t = "proposed"
          /\ waiter' = waiter
    BY ServeProposalFacts DEF loop
  <1> SUFFICES ASSUME NEW d \in Call PROVE CallFits(d)' /\ HeardOf(d)'
    BY DEF CallsFit
  <1>2. CallFits(d) /\ HeardOf(d)
    BY DEF CallsFit
  <1>3. /\ \A kind \in {"proposed", "finished"} :
             /\ \A i \in 1 .. Len(line') : i + 1 \in 1 .. Len(line)
                  /\ (Waits(kind, d, i)' <=> Waits(kind, d, i + 1))
             /\ \A i \in 1 .. Len(line) : Waits(kind, d, i) =>
                  i = 1 \/ (i - 1 \in 1 .. Len(line') /\ Waits(kind, d, i - 1)')
        /\ Len(line) \in Nat /\ Len(line') \in Nat /\ 1 \in 1 .. Len(line)
    BY <1>1, TailWaits
  <1>4. ~Waits("finished", d, 1) /\ (Waits("proposed", d, 1) <=> d = c)
    BY <1>1 DEF Waits
  <1>5. CASE d = c
    <2>1. /\ done[d] = "no" /\ about[d] = <<>> /\ call[d].at \in {"open", "over"}
               /\ waiter[d] # "no"
          /\ \A i \in 1 .. Len(line) : Waits("proposed", d, i) => i = 1
      BY <1>2, <1>3, <1>4, <1>5 DEF CallFits
    <2>2. \A i \in 1 .. Len(line') : ~Waits("proposed", d, i)'
      BY <1>3, <2>1
    <2>3. \/ /\ call'[d].at = call[d].at /\ done'[d] = done[d]
             /\ call[d].at = "open" => call'[d].timer
          \/ call[d].at = "open" /\ call'[d].at = "dropped"
      BY <1>5, ServeProposalFacts DEF CallStays
    <2>4. \A i \in 1 .. Len(line') : Waits("finished", d, i)' => call[d].at = "over"
      BY <1>2, <1>3 DEF CallFits
    <2>5. CallFits(d)'
      <3>1. \A i \in 1 .. Len(line') : Waits("finished", d, i)' =>
              i + 1 \in 1 .. Len(line) /\ Waits("finished", d, i + 1)
        BY <1>3
      <3>2. \A i, j \in 1 .. Len(line') : Waits("finished", d, i)' /\ Waits("finished", d, j)'
              => i = j
        BY <1>2, <3>1 DEF CallFits
      <3>3. QED
        BY <1>1, <2>1, <2>2, <2>3, <2>4, <3>2 DEF CallFits
    <2>6. HeardOf(d)'
      BY <1>2, <1>3, <1>4, <2>1, <2>3 DEF HeardOf
    <2>7. QED
      BY <2>5, <2>6
  <1>6. CASE d # c
    <2>1. CallStays(d) /\ done'[d] = done[d] /\ about'[d] = about[d]
      BY <1>1, <1>6, ServeProposalFacts DEF TypeOK, stream
    <2>2. CallFits(d)'
      BY <1>1, <1>2, <1>3, <2>1 DEF CallFits, CallStays
    <2>3. HeardOf(d)'
      BY <1>2, <1>3, <1>4, <1>6, <2>1 DEF HeardOf, CallStays
    <2>4. QED
      BY <2>2, <2>3
  <1>7. QED
    BY <1>5, <1>6

LEMMA ServeFinishCalls ==
  ASSUME TypeOK, CallsFit, ServeFinish
  PROVE  CallsFit'
  <1> DEFINE c == line[1].of
  <1>1. /\ line # <<>> /\ line' = Tail(line) /\ c \in Call /\ line[1].t = "finished"
             /\ waiter' = waiter
        /\ call' = call /\ done' = [done EXCEPT ![c] = "told"]
    BY ServeFinishFacts DEF loop
  <1> SUFFICES ASSUME NEW d \in Call PROVE CallFits(d)' /\ HeardOf(d)'
    BY DEF CallsFit
  <1>2. CallFits(d) /\ HeardOf(d)
    BY DEF CallsFit
  <1>3. /\ \A kind \in {"proposed", "finished"} :
             /\ \A i \in 1 .. Len(line') : i + 1 \in 1 .. Len(line)
                  /\ (Waits(kind, d, i)' <=> Waits(kind, d, i + 1))
             /\ \A i \in 1 .. Len(line) : Waits(kind, d, i) =>
                  i = 1 \/ (i - 1 \in 1 .. Len(line') /\ Waits(kind, d, i - 1)')
        /\ Len(line) \in Nat /\ Len(line') \in Nat /\ 1 \in 1 .. Len(line)
    BY <1>1, TailWaits
  <1>4. ~Waits("proposed", d, 1) /\ (Waits("finished", d, 1) <=> d = c)
    BY <1>1 DEF Waits
  <1>5. CASE d = c
    <2>1. /\ done[d] = "no" /\ call[d].at = "over" /\ waiter[d] # "no"
          /\ \A i \in 1 .. Len(line) : Waits("finished", d, i) => i = 1
          /\ \A i \in 1 .. Len(line) : Waits("proposed", d, i) => i < 1
      BY <1>2, <1>3, <1>4, <1>5 DEF CallFits
    <2>2. \A i \in 1 .. Len(line') : ~Waits("proposed", d, i)' /\ ~Waits("finished", d, i)'
      BY <1>3, <2>1
    <2>3. done'[d] = "told"
      BY <1>1, <1>5 DEF TypeOK
    <2>4. QED
      BY <1>1, <2>1, <2>2, <2>3 DEF CallFits, HeardOf
  <1>6. CASE d # c
    <2>1. done'[d] = done[d] /\ about'[d] = about[d]
      BY <1>1, <1>6, ServeFinishFacts DEF TypeOK, stream
    <2>2. CallFits(d)'
      BY <1>1, <1>2, <1>3, <2>1 DEF CallFits
    <2>3. HeardOf(d)'
      BY <1>1, <1>2, <1>3, <1>4, <1>6, <2>1 DEF HeardOf
    <2>4. QED
      BY <2>2, <2>3
  <1>7. QED
    BY <1>5, <1>6

------------------------------------------------------------------------------
(* The line, the row and the binding.                                      *)
LEMMA GrownLine ==
  ASSUME TypeOK, LineFits, loose => loose',
         line' \in Seq(Entry), Grown,
         \A i \in Newer : line'[i].t \notin {"paused", "resumed"} /\ line'[i].live = bound',
         bound => bound', bound' \in BOOLEAN, UNCHANGED row, latest' = latest
  PROVE  LineFits'
  <1> SUFFICES ASSUME ~loose', LineHolds PROVE LineHolds'
    BY DEF LineFits
  <1>1. /\ Len(line) \in Nat /\ Len(line') \in Nat
        /\ \A i \in 1 .. Len(line) : line'[i] = line[i]
        /\ \A i \in 1 .. Len(line') : i \in 1 .. Len(line) \/ (i \in Newer /\ i > Len(line))
    BY GrownWaits DEF Grown
  <1>2. \A i \in Newer : line'[i].live => bound'
    OBVIOUS
  <1>3. \A i, j \in 1 .. Len(line') : i < j /\ line'[i].live => line'[j].live
    BY <1>1 DEF LineHolds
  <1>4. QED
    BY <1>1, <1>2, <1>3 DEF LineHolds

LEMMA StaysLine ==
  ASSUME TypeOK, LineFits, loose => loose',
         UNCHANGED line, UNCHANGED row, latest' = latest, bound => bound',
         bound' \in BOOLEAN
  PROVE  LineFits'
  <1> SUFFICES ASSUME ~loose', LineHolds PROVE LineHolds'
    BY DEF LineFits
  <1>1. QED
    BY DEF LineHolds

LEMMA PausedLine ==
  ASSUME TypeOK, LineFits, loose => loose',
         line' \in Seq(Entry), Grown, Len(line') = Len(line) + 1,
         line'[Len(line')].t = "paused", line'[Len(line')].live = bound,
         row = "running", row' = "paused", UNCHANGED <<latest, bound>>
  PROVE  LineFits'
  <1> SUFFICES ASSUME ~loose', LineHolds PROVE LineHolds'
    BY DEF LineFits
  <1>1. Len(line) \in Nat /\ \A i \in 1 .. Len(line) : line'[i] = line[i]
    BY LineFacts DEF Grown
  <1>2. PICK n \in Nat : n = Len(line') /\ n = Len(line) + 1
    BY <1>1
  <1>3. \A i \in 1 .. n : i = n \/ (i \in 1 .. Len(line) /\ i < n)
    BY <1>1, <1>2
  <1>4. /\ bound /\ line'[n].t = "paused" /\ line'[n].live
        /\ \A i \in 1 .. Len(line) : line[i].t \notin {"paused", "resumed"}
    BY <1>2 DEF LineHolds
  <1>5. \A i, j \in 1 .. n : i < j /\ line'[i].live => line'[j].live
    BY <1>1, <1>3, <1>4 DEF LineHolds
  <1>6. \A i \in 1 .. n : line'[i].t \in {"paused", "resumed"} => i = n
    BY <1>1, <1>3, <1>4
  <1>7. QED
    BY <1>2, <1>4, <1>5, <1>6 DEF LineHolds

LEMMA ResumedLine ==
  ASSUME TypeOK, LineFits, loose => loose',
         line' \in Seq(Entry), Grown, Len(line') = Len(line) + 1,
         line'[Len(line')].t = "resumed", line'[Len(line')].live, bound' = TRUE,
         \A i \in 1 .. Len(line) : line[i].t # "resumed",
         row = "paused", UNCHANGED <<row, latest>>
  PROVE  LineFits'
  <1> SUFFICES ASSUME ~loose', LineHolds PROVE LineHolds'
    BY DEF LineFits
  <1>1. Len(line) \in Nat /\ \A i \in 1 .. Len(line) : line'[i] = line[i]
    BY LineFacts DEF Grown
  <1>2. PICK n \in Nat : n = Len(line') /\ n = Len(line) + 1
    BY <1>1
  <1>3. \A i \in 1 .. n : i = n \/ (i \in 1 .. Len(line) /\ i < n)
    BY <1>1, <1>2
  <1>4. line'[n].t = "resumed" /\ line'[n].live
    BY <1>2
  <1>5. \A i, j \in 1 .. n : i < j /\ line'[i].live => line'[j].live
    BY <1>1, <1>3, <1>4 DEF LineHolds
  <1>6. \A i \in 1 .. n : /\ line'[i].t = "resumed" => i = n
                          /\ line'[i].t = "paused" => i \in 1 .. Len(line)
                               /\ line[i].t = "paused"
    BY <1>1, <1>3, <1>4
  <1>7. QED
    BY <1>2, <1>3, <1>5, <1>6 DEF LineHolds

LEMMA TailLine ==
  ASSUME TypeOK, LineFits, loose => loose',
         line # <<>>, line' = Tail(line), UNCHANGED bound,
         \/ UNCHANGED row /\ (latest' = latest \/ latest' # "paused")
         \/ line[1].t = "resumed" /\ line[1].live /\ row' = "running"
  PROVE  LineFits'
  <1> SUFFICES ASSUME ~loose', LineHolds PROVE LineHolds'
    BY DEF LineFits
  <1>1. /\ Len(line) \in Nat /\ Len(line) >= 1 /\ Len(line') = Len(line) - 1
        /\ \A i \in 1 .. Len(line') : line'[i] = line[i + 1]
    BY LineFacts
  <1>2. \A i \in 1 .. Len(line') : i + 1 \in 1 .. Len(line) /\ i + 1 # 1
    BY <1>1
  <1>3. 1 \in 1 .. Len(line) /\ \A i \in 1 .. Len(line) : ~(i < 1)
    BY <1>1
  <1>4. /\ \A i, j \in 1 .. Len(line') :
             /\ i < j /\ line'[i].live => line'[j].live
             /\ line'[i].t = "paused" /\ line'[j].t = "paused" => i = j
             /\ line'[i].t = "resumed" /\ line'[j].t = "resumed" => i = j
             /\ line'[i].t = "paused" /\ line'[j].t = "resumed" => i < j
    <2> SUFFICES ASSUME NEW i \in 1 .. Len(line'), NEW j \in 1 .. Len(line')
                 PROVE  /\ i < j /\ line'[i].live => line'[j].live
                        /\ line'[i].t = "paused" /\ line'[j].t = "paused" => i = j
                        /\ line'[i].t = "resumed" /\ line'[j].t = "resumed" => i = j
                        /\ line'[i].t = "paused" /\ line'[j].t = "resumed" => i < j
      OBVIOUS
    <2>1. /\ i + 1 \in 1 .. Len(line) /\ line'[i] = line[i + 1]
          /\ j + 1 \in 1 .. Len(line) /\ line'[j] = line[j + 1]
      BY <1>1, <1>2
    <2>2. PICK p \in 1 .. Len(line), q \in 1 .. Len(line) :
            /\ p = i + 1 /\ q = j + 1 /\ line'[i] = line[p] /\ line'[j] = line[q]
      BY <2>1
    <2>3. (i < j <=> p < q) /\ (i = j <=> p = q)
      BY <1>1, <2>2
    <2>4. QED
      BY <2>2, <2>3 DEF LineHolds
  <1>5. \A i \in 1 .. Len(line') : line'[i].live => bound
    BY <1>1, <1>2 DEF LineHolds
  <1>6. CASE UNCHANGED row /\ (latest' = latest \/ latest' # "paused")
    <2>1. \A i \in 1 .. Len(line') : /\ line'[i].t \in {"paused", "resumed"} => row # "running"
                                     /\ row = "over" /\ line'[i].t = "paused" => ~line'[i].live
      BY <1>1, <1>2 DEF LineHolds
    <2>2. QED
      BY <1>4, <1>5, <1>6, <2>1 DEF LineHolds
  <1>7. CASE line[1].t = "resumed" /\ line[1].live /\ row' = "running"
    <2>1. bound
      BY <1>3, <1>7 DEF LineHolds
    <2>2. \A i \in 1 .. Len(line') : line'[i].t \notin {"paused", "resumed"}
      BY <1>1, <1>2, <1>3, <1>7 DEF LineHolds
    <2>3. QED
      BY <1>4, <1>5, <1>7, <2>1, <2>2 DEF LineHolds
  <1>8. QED
    BY <1>6, <1>7

LEMMA DeadLine ==
  ASSUME TypeOK, LineFits, loose => loose',
         line' \in Seq(Entry), NEW first \in {0, 1}, Moved(first),
         first = 1 => Len(line) >= 1, \A i \in 1 .. Len(line') : ~line'[i].live,
         loose' \/ (row' # "running" /\ (row' = "over" => latest' # "paused"))
  PROVE  LineFits'
  <1> SUFFICES ASSUME ~loose', LineHolds PROVE LineHolds'
    BY DEF LineFits
  <1>1. /\ Len(line) \in Nat /\ Len(line') \in Nat /\ Len(line') = Len(line) - first
        /\ \A i \in 1 .. Len(line') : line'[i].t = line[i + first].t
    BY LineFacts, LenProperties DEF Moved
  <1>2. ASSUME NEW i \in 1 .. Len(line'), NEW j \in 1 .. Len(line')
        PROVE  /\ line'[i].t = "paused" /\ line'[j].t = "paused" => i = j
               /\ line'[i].t = "resumed" /\ line'[j].t = "resumed" => i = j
               /\ line'[i].t = "paused" /\ line'[j].t = "resumed" => i < j
    <2>1. PICK p \in 1 .. Len(line), q \in 1 .. Len(line) :
            /\ p = i + first /\ q = j + first /\ line'[i].t = line[p].t
                 /\ line'[j].t = line[q].t
      BY <1>1
    <2>2. (i < j <=> p < q) /\ (i = j <=> p = q)
      BY <1>1, <2>1
    <2>3. QED
      BY <2>1, <2>2 DEF LineHolds
  <1>3. QED
    BY <1>1, <1>2 DEF LineHolds

------------------------------------------------------------------------------
(* Connections, their calls and their pauses.                              *)
LEMMA GrownPauses ==
  ASSUME TypeOK, line' \in Seq(Entry), Grown, \A i \in Newer : line'[i].t # "paused"
  PROVE  \A k \in Conn : \A i \in 1 .. Len(line') : Waits("paused", k, i)' =>
           i \in 1 .. Len(line) /\ Waits("paused", k, i)
  BY GrownWaits DEF Waits

LEMMA GrownLinks ==
  ASSUME TypeOK, LinksFit, line' \in Seq(Entry), Grown, \A i \in Newer : line'[i].t # "paused",
         UNCHANGED links
  PROVE  LinksFit'
  <1>1. \A k \in Conn : \A i \in 1 .. Len(line') : Waits("paused", k, i)' =>
          i \in 1 .. Len(line) /\ Waits("paused", k, i)
    BY GrownPauses
  <1>2. QED
    BY <1>1 DEF LinksFit, links

LEMMA StaysLinks ==
  ASSUME TypeOK, LinksFit, UNCHANGED line,
         reg' = reg \/ reg' = None \/ (reg' \in Conn /\ conns'[reg'] = "live"),
         reg' = reg /\ reg' # None => conns'[reg] = "live",
         \A k \in Conn : conns[k] = "pausing" => conns'[k] = "pausing"
  PROVE  LinksFit'
  <1>1. \A k \in Conn : \A i \in 1 .. Len(line') : Waits("paused", k, i)'
          => Waits("paused", k, i)
    BY DEF Waits
  <1>2. QED
    BY <1>1 DEF LinksFit

LEMMA MovedLinks ==
  ASSUME TypeOK, LinksFit, line' \in Seq(Entry), NEW first \in {0, 1}, Moved(first),
         first = 1 => Len(line) >= 1, UNCHANGED links
  PROVE  LinksFit'
  <1>1. \A k \in Conn : \A i \in 1 .. Len(line') : Waits("paused", k, i)' =>
          i + first \in 1 .. Len(line) /\ Waits("paused", k, i + first)
    BY MovedWaits
  <1>2. ASSUME NEW k \in Conn, NEW i \in 1 .. Len(line'), NEW j \in 1 .. Len(line'),
               Waits("paused", k, i)', Waits("paused", k, j)'
        PROVE  i = j
    <2>1. i + first = j + first
      BY <1>1, <1>2 DEF LinksFit
    <2>2. QED
      BY <2>1
  <1>3. QED
    BY <1>1, <1>2 DEF LinksFit, links

LEMMA EmittedLinks ==
  ASSUME TypeOK, LinksFit, UNCHANGED links, line' \in Seq(Entry), Grown,
         Len(line') = Len(line) + 1, line'[Len(line')].of = None
  PROVE  LinksFit'
  <1>1. Len(line) \in Nat /\ \A i \in 1 .. Len(line') : i \in 1 .. Len(line) \/ i = Len(line')
    BY LineFacts
  <1>2. \A k \in Conn : k # None
    BY BrokerAssumption DEF None
  <1>3. ASSUME NEW k \in Conn, NEW i \in 1 .. Len(line'), Waits("paused", k, i)'
        PROVE  i \in 1 .. Len(line) /\ Waits("paused", k, i)
    <2>1. i # Len(line')
      BY <1>2, <1>3 DEF Waits
    <2>2. i \in 1 .. Len(line)
      BY <1>1, <2>1
    <2>3. QED
      BY <1>3, <2>2, GrownWaits
  <1>4. QED
    BY <1>3 DEF LinksFit, links

LEMMA TurnPausesLinks ==
  ASSUME TypeOK, LinksFit, TurnPauses
  PROVE  LinksFit'
  <1>1. CASE UNCHANGED line
    BY <1>1, TurnPausesFacts, StaysLinks DEF LinksFit, links, TypeOK
  <1>2. CASE ~UNCHANGED line
    BY <1>2, TurnPausesFacts, EmitFacts, EmittedLinks
  <1>3. QED
    BY <1>1, <1>2

LEMMA TurnFailsLinks ==
  ASSUME TypeOK, LinksFit, TurnFails
  PROVE  LinksFit'
  <1>1. CASE UNCHANGED line
    BY <1>1, TurnFailsFacts, StaysLinks DEF LinksFit, links, TypeOK
  <1>2. CASE ~UNCHANGED line
    BY <1>2, TurnFailsFacts, EmitFacts, EmittedLinks
  <1>3. QED
    BY <1>1, <1>2

LEMMA PauseLinks ==
  ASSUME TypeOK, LinksFit, NEW k \in Conn, Pause(k)
  PROVE  LinksFit'
  <1>1. /\ conns[k] = "pause" /\ UNCHANGED reg /\ \A j \in Conn \ {k} : conns'[j] = conns[j]
        /\ conns'[k] = (IF row = "running" THEN "pausing" ELSE "paused")
    BY PauseFacts DEF TypeOK
  <1>2. reg' # None => conns'[reg'] = "live"
    BY <1>1 DEF LinksFit, TypeOK
  <1>3. CASE row = "running"
    <2>1. /\ line' \in Seq(Entry) /\ Grown /\ Len(line') = Len(line) + 1
          /\ line'[Len(line')].of = k
      BY <1>3, PauseFacts, EmitFacts
    <2>2. Len(line) \in Nat /\ \A i \in 1 .. Len(line') : i \in 1 .. Len(line) \/ i = Len(line')
      BY <2>1, LineFacts
    <2>3. ASSUME NEW j \in Conn, NEW i \in 1 .. Len(line'), Waits("paused", j, i)'
          PROVE  conns'[j] = "pausing"
      <3>1. CASE j = k
        BY <1>1, <1>3, <3>1
      <3>2. CASE j # k
        <4>1. i # Len(line')
          BY <2>1, <2>3, <3>2 DEF Waits
        <4>2. i \in 1 .. Len(line)
          BY <2>2, <4>1
        <4>3. Waits("paused", j, i)
          BY <2>1, <2>3, <4>2, GrownWaits
        <4>4. QED
          BY <1>1, <3>2, <4>2, <4>3 DEF LinksFit
      <3>3. QED
        BY <3>1, <3>2
    <2>4. ASSUME NEW j \in Conn, NEW i \in 1 .. Len(line'), NEW h \in 1 .. Len(line'),
                 Waits("paused", j, i)', Waits("paused", j, h)'
          PROVE  i = h
      <3>1. \A g \in 1 .. Len(line) : Waits("paused", j, g)' <=> Waits("paused", j, g)
        BY <2>1, GrownWaits
      <3>2. CASE j = k
        <4>1. \A g \in 1 .. Len(line) : ~Waits("paused", j, g)
          BY <1>1, <3>2 DEF LinksFit
        <4>2. QED
          BY <2>2, <2>4, <3>1, <4>1
      <3>3. CASE j # k
        <4>1. i # Len(line') /\ h # Len(line')
          BY <2>1, <2>4, <3>3 DEF Waits
        <4>2. QED
          BY <2>2, <2>4, <3>1, <4>1 DEF LinksFit
      <3>4. QED
        BY <3>2, <3>3
    <2>5. QED
      BY <1>2, <2>3, <2>4 DEF LinksFit
  <1>4. CASE row # "running"
    <2>1. line' \in Seq(Entry) /\ Moved(0) /\ 0 \in {0, 1}
      BY <1>4, PauseFacts, DeadMoves
    <2>2. \A j \in Conn : \A i \in 1 .. Len(line') : Waits("paused", j, i)' =>
            i + 0 \in 1 .. Len(line) /\ Waits("paused", j, i + 0)
      BY <2>1, MovedWaits
    <2>3. \A j \in Conn : \A i \in 1 .. Len(line') : Waits("paused", j, i)'
            => conns[j] = "pausing"
      BY <2>2 DEF LinksFit
    <2>4. ASSUME NEW j \in Conn, NEW i \in 1 .. Len(line'), NEW h \in 1 .. Len(line'),
                 Waits("paused", j, i)', Waits("paused", j, h)'
          PROVE  i = h
      <3>1. i + 0 = h + 0
        BY <2>2, <2>4 DEF LinksFit
      <3>2. QED
        BY <3>1
    <2>5. QED
      BY <1>1, <1>2, <2>3, <2>4 DEF LinksFit
  <1>5. QED
    BY <1>3, <1>4

LEMMA ServePauseLinks ==
  ASSUME TypeOK, LinksFit, ServePause
  PROVE  LinksFit'
  <1> DEFINE k == line[1].of
  <1>1. /\ line # <<>> /\ line[1].t = "paused" /\ line' = Dead(Tail(line)) /\ UNCHANGED reg
        /\ conns' = [j \in Conn |-> IF j = k THEN "paused" ELSE conns[j]]
    BY ServePauseFacts
  <1> HIDE DEF k
  <1>2. line' \in Seq(Entry) /\ Moved(1) /\ 1 \in {0, 1} /\ Len(line) \in Nat /\ Len(line) >= 1
    BY <1>1, DeadTailMoves, LineFacts
  <1>3. 1 \in 1 .. Len(line)
    BY <1>2
  <1>4. reg' # None => conns'[reg'] = "live"
    <2>1. k \in Conn => conns[k] = "pausing"
      BY <1>1, <1>3 DEF LinksFit, Waits, k
    <2>2. QED
      BY <1>1, <2>1 DEF LinksFit, TypeOK
  <1>5. \A j \in Conn : \A i \in 1 .. Len(line') : Waits("paused", j, i)' =>
          i + 1 \in 1 .. Len(line) /\ Waits("paused", j, i + 1)
    BY <1>2, MovedWaits
  <1>6. ASSUME NEW j \in Conn, NEW i \in 1 .. Len(line'), Waits("paused", j, i)'
        PROVE  conns'[j] = "pausing"
    <2>1. i + 1 \in 1 .. Len(line) /\ Waits("paused", j, i + 1)
      BY <1>5, <1>6
    <2>2. i + 1 # 1
      BY <1>2
    <2>3. j # k
      BY <1>1, <1>3, <2>1, <2>2 DEF LinksFit, Waits, k
    <2>4. QED
      BY <1>1, <2>1, <2>3 DEF LinksFit
  <1>7. ASSUME NEW j \in Conn, NEW i \in 1 .. Len(line'), NEW h \in 1 .. Len(line'),
               Waits("paused", j, i)', Waits("paused", j, h)'
        PROVE  i = h
    <2>1. i + 1 = h + 1
      BY <1>5, <1>7 DEF LinksFit
    <2>2. QED
      BY <2>1
  <1>8. QED
    BY <1>4, <1>6, <1>7 DEF LinksFit

NoneOpens ==
  \A c \in Call : call'[c].at = "open" => call[c].at = "open" /\ call'[c].conn = call[c].conn
NoneCleans == \A k \in Conn : conns'[k] = "done" => conns[k] = "done"

LEMMA CallsStayEnded ==
  ASSUME TypeOK, CallsEndWithConnection,
         NoneOpens,
         NoneCleans
  PROVE  CallsEndWithConnection'
  <1>1. ASSUME NEW c \in Call, call'[c].at = "open" PROVE conns'[call'[c].conn] # "done"
    <2>1. call[c].at = "open" /\ call'[c].conn = call[c].conn
      BY <1>1 DEF NoneOpens, NoneCleans
    <2>2. call[c].conn \in Conn /\ conns[call[c].conn] # "done"
      BY <2>1 DEF CallsEndWithConnection, Pending, TypeOK, CallTypes
    <2>3. QED
      BY <2>1, <2>2 DEF NoneOpens, NoneCleans
  <1>2. QED
    BY <1>1 DEF CallsEndWithConnection, Pending

LEMMA ProposeEnded ==
  ASSUME TypeOK, LinksFit, CallsEndWithConnection, NEW c \in Call, Propose(c)
  PROVE  CallsEndWithConnection'
  <1>1. conns' = conns /\ \A d \in Call \ {c} : CallStays(d)
    BY ProposeFacts DEF links
  <1>2. CallStays(c) \/ (call'[c].conn = reg /\ reg \in Conn)
    BY ProposeFacts
  <1>3. reg \in Conn => conns[reg] = "live"
    BY BrokerAssumption DEF LinksFit, None
  <1>4. ASSUME NEW d \in Call, call'[d].at = "open" PROVE conns'[call'[d].conn] # "done"
    <2>1. CASE CallStays(d)
      <3>1. call[d].at = "open" /\ call'[d].conn = call[d].conn
        BY <1>4, <2>1 DEF CallStays
      <3>2. conns[call[d].conn] # "done"
        BY <3>1 DEF CallsEndWithConnection, Pending
      <3>3. QED
        BY <1>1, <3>1, <3>2
    <2>2. CASE ~CallStays(d)
      <3>1. call'[d].conn = reg /\ reg \in Conn
        BY <1>1, <1>2, <2>2
      <3>2. QED
        BY <1>1, <1>3, <3>1
    <2>3. QED
      BY <2>1, <2>2
  <1>5. QED
    BY <1>4 DEF CallsEndWithConnection, Pending

LEMMA CleanUpEnded ==
  ASSUME TypeOK, CallsEndWithConnection, NEW k \in Conn, CleanUp(k)
  PROVE  CallsEndWithConnection'
  <1> DEFINE calls == {c \in Call : call[c].conn = k} \intersect Pending
  <1>1. Ends(calls, bound) /\ conns' = [conns EXCEPT ![k] = "done"]
    BY CleanUpEnds
  <1>2. \A c \in Call : c \in calls <=> call[c].conn = k /\ call[c].at = "open"
    BY DEF Pending
  <1> HIDE DEF calls
  <1>3. ASSUME NEW c \in Call, call'[c].at = "open" PROVE conns'[call'[c].conn] # "done"
    <2>1. c \notin calls
      BY <1>1, <1>3 DEF Ends
    <2>2. call[c].at = "open" /\ call'[c].conn = call[c].conn
      BY <1>1, <1>3, <2>1 DEF Ends, CallStays
    <2>3. call[c].conn # k /\ call[c].conn \in Conn /\ conns[call[c].conn] # "done"
      BY <1>2, <2>1, <2>2 DEF CallsEndWithConnection, Pending, TypeOK, CallTypes
    <2>4. QED
      BY <1>1, <2>2, <2>3 DEF TypeOK
  <1>4. QED
    BY <1>3 DEF CallsEndWithConnection, Pending

------------------------------------------------------------------------------
(* Each step keeps this much of the invariant.                             *)
Base == TypeOK /\ CallsFit /\ LineFits /\ LinksFit /\ CallsEndWithConnection

LEMMA EndsBase ==
  ASSUME Base, loose => loose', NEW calls, NEW binding \in BOOLEAN, Ends(calls, binding), bound
         => binding,
         bound' = binding
  PROVE  CallsFit' /\ LineFits' /\ NoneOpens
         /\ line' \in Seq(Entry) /\ Grown /\ \A i \in Newer : line'[i].t # "paused"
  <1>1. CallsFit'
    BY EndedCalls DEF Base
  <1>2. /\ line' \in Seq(Entry) /\ Grown /\ UNCHANGED row /\ latest' = latest
        /\ \A i \in Newer : line'[i].t = "finished" /\ line'[i].live = binding
    BY DEF Ends, Announced, stream
  <1>3. LineFits'
    BY <1>2, GrownLine DEF Base
  <1>4. ASSUME NEW c \in Call, call'[c].at = "open"
        PROVE  call[c].at = "open" /\ call'[c].conn = call[c].conn
    BY <1>4 DEF Ends, CallStays
  <1>5. QED
    BY <1>1, <1>2, <1>3, <1>4 DEF NoneOpens, NoneCleans

LEMMA QuietBase ==
  ASSUME Base, loose => loose', TypeOK', LinksFit', UNCHANGED <<line, done, about, latest, row>>,
         CallsStay, WaitersStay, bound => bound', NoneCleans
  PROVE  Base'
  <1>1. CallsFit'
    BY StaysMoves, MovedCalls DEF Base
  <1>2. LineFits'
    BY StaysLine DEF Base, TypeOK
  <1>3. NoneOpens
    BY DEF CallsStay, CallStays, NoneOpens
  <1>4. CallsEndWithConnection'
    BY <1>3, CallsStayEnded DEF Base
  <1>5. QED
    BY <1>1, <1>2, <1>4 DEF Base

LEMMA StartTurnBase ==
  ASSUME Base, loose => loose', StartTurn
  PROVE  Base'
  <1>1. TypeOK'
    BY StartTurnTypes DEF Base
  <1>2. /\ UNCHANGED <<line, done, about, latest, row>> /\ CallsStay /\ WaitersStay
        /\ bound => bound'
    BY SameCallsStay, SameWaitersStay DEF StartTurn, Base, emitter, stream, table, loop, links
  <1>3. LinksFit'
    BY <1>2, StaysLinks DEF StartTurn, Base, emitter, stream, table, loop, links, LinksFit,
       TypeOK
  <1>4. NoneCleans
    BY DEF StartTurn, Base, emitter, stream, table, loop, links, TypeOK, NoneCleans
  <1>5. QED
    BY <1>1, <1>2, <1>3, <1>4, QuietBase

LEMMA HearBase ==
  ASSUME Base, loose => loose', NEW c \in Call, Hear(c)
  PROVE  Base'
  <1>1. TypeOK'
    BY HearTypes DEF Base
  <1>2. /\ UNCHANGED <<line, done, about, latest, row>> /\ CallsStay /\ WaitersStay
        /\ bound => bound'
    BY SameCallsStay, HearFacts DEF Hear, Base, emitter, stream, table, loop, links
  <1>3. LinksFit'
    BY <1>2, StaysLinks DEF Hear, Base, emitter, stream, table, loop, links, LinksFit, TypeOK
  <1>4. NoneCleans
    BY DEF Hear, Base, emitter, stream, table, loop, links, TypeOK, NoneCleans
  <1>5. QED
    BY <1>1, <1>2, <1>3, <1>4, QuietBase

LEMMA LookForRunsBase ==
  ASSUME Base, loose => loose', NEW k \in Conn, LookForRuns(k)
  PROVE  Base'
  <1>1. TypeOK'
    BY LookForRunsTypes DEF Base
  <1>2. /\ UNCHANGED <<line, done, about, latest, row>> /\ CallsStay /\ WaitersStay
        /\ bound => bound'
    BY SameCallsStay, SameWaitersStay DEF LookForRuns, Base, emitter, stream, table, loop, links
  <1>3. LinksFit'
    BY <1>2, StaysLinks DEF LookForRuns, Base, emitter, stream, table, loop, links, LinksFit,
       TypeOK
  <1>4. NoneCleans
    BY DEF LookForRuns, Base, emitter, stream, table, loop, links, TypeOK, NoneCleans
  <1>5. QED
    BY <1>1, <1>2, <1>3, <1>4, QuietBase

LEMMA TurnEndsBase ==
  ASSUME Base, loose => loose', TurnEnds
  PROVE  Base'
  <1>1. TypeOK'
    BY TurnEndsTypes DEF Base
  <1>2. /\ UNCHANGED <<line, done, about, latest, row>> /\ CallsStay /\ WaitersStay
        /\ bound => bound'
    BY SameCallsStay, StoppedFacts DEF TurnEnds, Base, emitter, stream, table, loop, links
  <1>3. LinksFit'
    BY <1>2, StaysLinks DEF TurnEnds, Base, emitter, stream, table, loop, links, LinksFit,
       TypeOK
  <1>4. NoneCleans
    BY DEF TurnEnds, Base, emitter, stream, table, loop, links, TypeOK, NoneCleans
  <1>5. QED
    BY <1>1, <1>2, <1>3, <1>4, QuietBase

LEMMA CancelTurnBase ==
  ASSUME Base, loose => loose', CancelTurn
  PROVE  Base'
  <1>1. TypeOK'
    BY CancelTurnTypes DEF Base
  <1>2. /\ UNCHANGED <<line, done, about, latest, row>> /\ CallsStay /\ WaitersStay
        /\ bound => bound'
    BY SameCallsStay, StoppedFacts DEF CancelTurn, Base, emitter, stream, table, loop, links
  <1>3. LinksFit'
    BY <1>2, StaysLinks DEF CancelTurn, Base, emitter, stream, table, loop, links, LinksFit,
       TypeOK
  <1>4. NoneCleans
    BY DEF CancelTurn, Base, emitter, stream, table, loop, links, TypeOK, NoneCleans
  <1>5. QED
    BY <1>1, <1>2, <1>3, <1>4, QuietBase

LEMMA StopForPauseBase ==
  ASSUME Base, loose => loose', NEW k \in Conn, StopForPause(k)
  PROVE  Base'
  <1>1. TypeOK'
    BY StopForPauseTypes DEF Base
  <1>2. /\ UNCHANGED <<line, done, about, latest, row>> /\ CallsStay /\ WaitersStay
        /\ bound => bound'
    BY SameCallsStay, StoppedFacts DEF StopForPause, Base, emitter, stream, table, loop, links
  <1>3. LinksFit'
    BY <1>2, StaysLinks DEF StopForPause, Base, emitter, stream, table, loop, links, LinksFit,
       TypeOK
  <1>4. NoneCleans
    BY DEF StopForPause, Base, emitter, stream, table, loop, links, TypeOK, NoneCleans
  <1>5. QED
    BY <1>1, <1>2, <1>3, <1>4, QuietBase

LEMMA ConnectBase ==
  ASSUME Base, loose => loose', NEW k \in Conn, Connect(k)
  PROVE  Base'
  <1>1. TypeOK' /\ UNCHANGED <<table, loop, emitter, row>>
        /\ conns[k] = "new" /\ reg' = k
        /\ conns' = [j \in Conn |-> IF j = k THEN "live" ELSE IF j = reg THEN "left" ELSE conns[j]]
    BY ConnectTypes DEF Base, Connect
  <1>2. UNCHANGED <<line, done, about, latest, row, bound>> /\ CallsStay /\ WaitersStay
    BY <1>1, SameCallsStay, SameWaitersStay DEF Base, emitter, stream, table, loop
  <1>3. LinksFit'
    <2>1. conns'[k] = "live" /\ \A j \in Conn : conns[j] = "pausing" => conns'[j] = "pausing"
      <3>1. \A j \in Conn : j = reg => conns[j] = "live"
        BY BrokerAssumption DEF Base, LinksFit, None
      <3>2. QED
        BY <1>1, <3>1
    <2>2. QED
      BY <1>1, <1>2, <2>1, StaysLinks DEF Base
  <1>4. NoneCleans
    BY <1>1 DEF NoneCleans
  <1>5. QED
    BY <1>1, <1>2, <1>3, <1>4, QuietBase

LEMMA DenyBase ==
  ASSUME Base, loose => loose', NEW k \in Conn, NEW c \in Call, Deny(k, c)
  PROVE  Base'
  <1>1. TypeOK'
    BY DenyTypes DEF Base
  <1>2. /\ UNCHANGED <<line, done, about, latest, row>> /\ CallsStay /\ WaitersStay
        /\ bound => bound'
    BY DenyFacts, SameWaitersStay DEF Base, emitter, stream, table, loop, links
  <1>3. LinksFit'
    BY DenyFacts, <1>2, StaysLinks DEF Base, emitter, stream, table, loop, links, LinksFit,
       TypeOK
  <1>4. NoneCleans
    BY DenyFacts DEF Base, emitter, stream, table, loop, links, TypeOK, NoneCleans
  <1>5. QED
    BY <1>1, <1>2, <1>3, <1>4, QuietBase

LEMMA LeaveBase ==
  ASSUME Base, loose => loose', NEW k \in Conn, Leave(k)
  PROVE  Base'
  <1>1. TypeOK'
    BY LeaveTypes DEF Base
  <1>2. /\ UNCHANGED <<line, done, about, latest, row>> /\ CallsStay /\ WaitersStay
        /\ bound => bound'
    BY LeaveFacts, SameWaitersStay DEF Base, emitter, stream, table, loop, links
  <1>3. LinksFit'
    BY LeaveFacts, <1>2, StaysLinks DEF Base, emitter, stream, table, loop, links, LinksFit,
       TypeOK
  <1>4. NoneCleans
    BY LeaveFacts DEF Base, emitter, stream, table, loop, links, TypeOK, NoneCleans
  <1>5. QED
    BY <1>1, <1>2, <1>3, <1>4, QuietBase

LEMMA ResultBase ==
  ASSUME Base, loose => loose', NEW k \in Conn, NEW c \in Call, Result(k, c)
  PROVE  Base'
  <1>1. TypeOK'
    BY ResultTypes DEF Base
  <1>2. PICK calls : Ends(calls, bound) /\ bound' = bound
    BY ResultEnds DEF Base
  <1>3. CallsFit' /\ LineFits' /\ NoneOpens
        /\ line' \in Seq(Entry) /\ Grown /\ \A i \in Newer : line'[i].t # "paused"
    BY <1>2, EndsBase DEF Base, TypeOK
  <1>4. LinksFit'
    BY <1>2, <1>3, ResultEnds, GrownLinks DEF Base
  <1>5. CallsEndWithConnection'
    <2>1. NoneCleans
      BY ResultEnds DEF links, Base, TypeOK, NoneOpens, NoneCleans
    <2>2. QED
      BY <1>3, <2>1, CallsStayEnded DEF Base
  <1>6. QED
    BY <1>1, <1>3, <1>4, <1>5 DEF Base

LEMMA ExpireBase ==
  ASSUME Base, loose => loose', NEW c \in Call, Expire(c)
  PROVE  Base'
  <1>1. TypeOK'
    BY ExpireTypes DEF Base
  <1>2. PICK calls : Ends(calls, bound) /\ bound' = bound
    BY ExpireEnds DEF Base
  <1>3. CallsFit' /\ LineFits' /\ NoneOpens
        /\ line' \in Seq(Entry) /\ Grown /\ \A i \in Newer : line'[i].t # "paused"
    BY <1>2, EndsBase DEF Base, TypeOK
  <1>4. LinksFit'
    BY <1>2, <1>3, ExpireEnds, GrownLinks DEF Base
  <1>5. CallsEndWithConnection'
    <2>1. NoneCleans
      BY ExpireEnds DEF links, Base, TypeOK, NoneOpens, NoneCleans
    <2>2. QED
      BY <1>3, <2>1, CallsStayEnded DEF Base
  <1>6. QED
    BY <1>1, <1>3, <1>4, <1>5 DEF Base

LEMMA CloseForPauseBase ==
  ASSUME Base, loose => loose', NEW k \in Conn, CloseForPause(k)
  PROVE  Base'
  <1>1. TypeOK'
    BY CloseForPauseTypes DEF Base
  <1>2. PICK calls : Ends(calls, bound) /\ bound' = bound
    BY CloseForPauseEnds DEF Base
  <1>3. CallsFit' /\ LineFits' /\ NoneOpens
        /\ line' \in Seq(Entry) /\ Grown /\ \A i \in Newer : line'[i].t # "paused"
    BY <1>2, EndsBase DEF Base, TypeOK
  <1>4. LinksFit'
    <2>1. \A j \in Conn : \A i \in 1 .. Len(line') : Waits("paused", j, i)' =>
            i \in 1 .. Len(line) /\ Waits("paused", j, i)
      BY <1>3, GrownPauses DEF Base
    <2>2. QED
      BY <2>1, CloseForPauseEnds DEF Base, LinksFit, TypeOK
  <1>5. CallsEndWithConnection'
    <2>1. NoneCleans
      BY CloseForPauseEnds DEF links, Base, TypeOK, NoneOpens, NoneCleans
    <2>2. QED
      BY <1>3, <2>1, CallsStayEnded DEF Base
  <1>6. QED
    BY <1>1, <1>3, <1>4, <1>5 DEF Base

LEMMA CleanUpBase ==
  ASSUME Base, loose => loose', NEW k \in Conn, CleanUp(k)
  PROVE  Base'
  <1>1. TypeOK'
    BY CleanUpTypes DEF Base
  <1>2. PICK calls : Ends(calls, bound) /\ bound' = bound
    BY CleanUpEnds DEF Base
  <1>3. CallsFit' /\ LineFits' /\ NoneOpens
        /\ line' \in Seq(Entry) /\ Grown /\ \A i \in Newer : line'[i].t # "paused"
    BY <1>2, EndsBase DEF Base, TypeOK
  <1>4. LinksFit'
    <2>1. \A j \in Conn : \A i \in 1 .. Len(line') : Waits("paused", j, i)' =>
            i \in 1 .. Len(line) /\ Waits("paused", j, i)
      BY <1>3, GrownPauses DEF Base
    <2>2. UNCHANGED reg
            /\ \A j \in Conn : conns[j] \in {"pausing", "live"} => conns'[j] = conns[j]
      BY CleanUpEnds DEF Base, TypeOK
    <2>3. reg # None => reg \in Conn
      BY DEF Base, TypeOK
    <2>4. QED
      BY <2>1, <2>2, <2>3 DEF Base, LinksFit
  <1>5. CallsEndWithConnection'
    BY CleanUpEnded DEF Base
  <1>6. QED
    BY <1>1, <1>3, <1>4, <1>5 DEF Base

LEMMA CancelCallsBase ==
  ASSUME Base, loose => loose', CancelCalls
  PROVE  Base'
  <1>1. TypeOK'
    BY CancelCallsTypes DEF Base
  <1>2. PICK calls : Ends(calls, TRUE) /\ bound' = TRUE
    BY CancelCallsEnds DEF Base
  <1>3. CallsFit' /\ LineFits' /\ NoneOpens
        /\ line' \in Seq(Entry) /\ Grown /\ \A i \in Newer : line'[i].t # "paused"
    BY <1>2, EndsBase DEF Base, TypeOK
  <1>4. LinksFit'
    BY <1>2, <1>3, CancelCallsEnds, GrownLinks DEF Base
  <1>5. CallsEndWithConnection'
    <2>1. NoneCleans
      BY CancelCallsEnds DEF links, Base, TypeOK, NoneOpens, NoneCleans
    <2>2. QED
      BY <1>3, <2>1, CallsStayEnded DEF Base
  <1>6. QED
    BY <1>1, <1>3, <1>4, <1>5 DEF Base

LEMMA DeniedBase ==
  ASSUME Base, loose => loose', NEW c \in Call, Denied(c)
  PROVE  Base'
  <1>1. TypeOK' /\ UNCHANGED <<bound, links>>
    BY DeniedTypes, DeniedFacts DEF Base
  <1>2. NoneCleans
    BY <1>1 DEF links, NoneOpens, NoneCleans
  <1>3. CASE Ends({c}, bound)
    <2>1. CallsFit' /\ LineFits' /\ NoneOpens
          /\ line' \in Seq(Entry) /\ Grown /\ \A i \in Newer : line'[i].t # "paused"
      BY <1>1, <1>3, EndsBase DEF Base, TypeOK
    <2>2. LinksFit' /\ CallsEndWithConnection'
      BY <1>1, <1>2, <2>1, GrownLinks, CallsStayEnded DEF Base
    <2>3. QED
      BY <1>1, <2>1, <2>2 DEF Base
  <1>4. CASE CallsStay /\ UNCHANGED <<done, loop, stream, row, history, line>>
    <2>1. CallsFit'
      BY <1>4, StaysMoves, SameWaitersStay, MovedCalls DEF Base, loop, stream
    <2>2. LineFits' /\ LinksFit'
      BY <1>1, <1>4, StaysLine, StaysLinks DEF Base, TypeOK, LinksFit, stream, links
    <2>3. CallsEndWithConnection'
      BY <1>2, <1>4, CallsStayEnded DEF Base, CallsStay, CallStays, NoneOpens, NoneCleans
    <2>4. QED
      BY <1>1, <2>1, <2>2, <2>3 DEF Base
  <1>5. QED
    BY <1>3, <1>4, DeniedFacts DEF Base

LEMMA ProposeBase ==
  ASSUME Base, loose => loose', NEW c \in Call, Propose(c)
  PROVE  Base'
  <1>1. TypeOK' /\ CallsFit' /\ CallsEndWithConnection'
    BY ProposeTypes, ProposeCalls, ProposeEnded DEF Base
  <1>2. UNCHANGED <<bound, row, links, stream>>
    BY ProposeFacts DEF Base
  <1>3. CASE UNCHANGED line
    BY <1>1, <1>2, <1>3, StaysLine, StaysLinks DEF Base, TypeOK, LinksFit, stream, links
  <1>4. CASE ~UNCHANGED line
    <2>1. /\ line' \in Seq(Entry) /\ Grown /\ Len(line') = Len(line) + 1
          /\ line'[Len(line')].t = "proposed" /\ line'[Len(line')].live = bound
      BY <1>4, ProposeFacts DEF Base
    <2>2. \A i \in Newer : line'[i].t = "proposed" /\ line'[i].live = bound
      BY <2>1, LineFacts DEF Newer, Base
    <2>3. QED
      BY <1>1, <1>2, <2>1, <2>2, GrownLine, GrownLinks DEF Base, stream, TypeOK
  <1>5. QED
    BY <1>3, <1>4 DEF Base

LEMMA CancelRunBase ==
  ASSUME Base, loose => loose', CancelRun
  PROVE  Base'
  <1>1. /\ TypeOK' /\ UNCHANGED <<table, loop, stream, bound, row, links>>
        /\ line' \in Seq(Entry) /\ Grown /\ Len(line') = Len(line) + 1
        /\ line'[Len(line')].t = "over" /\ line'[Len(line')].live = bound
    BY CancelRunTypes, CancelRunFacts, EmitFacts DEF Base
  <1>2. \A i \in Newer : line'[i].t = "over" /\ line'[i].live = bound
    BY <1>1, LineFacts DEF Newer, Base
  <1>3. CallsFit'
    BY <1>1, SameCallsStay, SameWaitersStay, GrownCalls DEF Base, table, loop, stream
  <1>4. LineFits' /\ LinksFit'
    BY <1>1, <1>2, GrownLine, GrownLinks DEF Base, stream, TypeOK
  <1>5. CallsEndWithConnection'
    BY <1>1, CallsStayEnded DEF Base, table, links, NoneOpens, NoneCleans
  <1>6. QED
    BY <1>1, <1>3, <1>4, <1>5 DEF Base

LEMMA ResumeBase ==
  ASSUME Base, loose => loose', Resume
  PROVE  Base'
  <1>1. /\ TypeOK' /\ UNCHANGED <<table, loop, stream, row, links>> /\ row = "paused"
             /\ bound' = TRUE
        /\ line' \in Seq(Entry) /\ Grown /\ Len(line') = Len(line) + 1
        /\ line'[Len(line')].t = "resumed" /\ line'[Len(line')].live
        /\ \A i \in 1 .. Len(line) : line[i].t # "resumed"
    BY ResumeTypes, ResumeFacts DEF Base
  <1>2. \A i \in Newer : line'[i].t = "resumed"
    BY <1>1, LineFacts DEF Newer, Base
  <1>3. CallsFit'
    BY <1>1, SameCallsStay, SameWaitersStay, GrownCalls DEF Base, table, loop, stream
  <1>4. LineFits' /\ LinksFit'
    BY <1>1, <1>2, ResumedLine, GrownLinks DEF Base, stream, TypeOK
  <1>5. CallsEndWithConnection'
    BY <1>1, CallsStayEnded DEF Base, table, links, NoneOpens, NoneCleans
  <1>6. QED
    BY <1>1, <1>3, <1>4, <1>5 DEF Base

LEMMA TurnPausesBase ==
  ASSUME Base, loose => loose', TurnPauses
  PROVE  Base'
  <1>1. TypeOK' /\ LinksFit' /\ UNCHANGED <<table, stream, bound, links>> /\ WaitersStay
    BY TurnPausesTypes, TurnPausesLinks, TurnPausesFacts DEF Base
  <1>2. CallsEndWithConnection'
    BY <1>1, CallsStayEnded DEF Base, table, links, NoneOpens, NoneCleans
  <1>3. CASE UNCHANGED line
    <2>1. CallsFit'
      BY <1>1, <1>3, StaysMoves, SameCallsStay, MovedCalls DEF Base, table, stream
    <2>2. Len(line') # Len(line) + 1
      <3>1. Len(line) \in Nat
        BY LineFacts DEF Base
      <3>2. QED
        BY <1>3, <3>1
    <2>3. UNCHANGED row
      BY <2>2, TurnPausesFacts DEF Base
    <2>4. LineFits'
      BY <1>1, <1>3, <2>3, StaysLine DEF Base, stream, TypeOK
    <2>5. QED
      BY <1>1, <1>2, <2>1, <2>4 DEF Base
  <1>4. CASE ~UNCHANGED line
    <2>1. /\ row = "running" /\ row' = "paused"
          /\ line' \in Seq(Entry) /\ Grown /\ Len(line') = Len(line) + 1
          /\ line'[Len(line')].t = "paused" /\ line'[Len(line')].live = bound
      BY <1>4, TurnPausesFacts, EmitFacts DEF Base
    <2>2. CallsFit'
      BY <1>1, <2>1, SameCallsStay, GrownCalls DEF Base, table, stream
    <2>3. LineFits'
      BY <1>1, <2>1, PausedLine DEF Base, stream
    <2>4. QED
      BY <1>1, <1>2, <2>2, <2>3 DEF Base
  <1>5. QED
    BY <1>3, <1>4

LEMMA TurnFailsBase ==
  ASSUME Base, PausedFits, loose => loose', TurnFails
  PROVE  Base'
  <1>1. TypeOK' /\ LinksFit' /\ UNCHANGED <<table, stream, bound, links>> /\ WaitersStay
    BY TurnFailsTypes, TurnFailsLinks, TurnFailsFacts DEF Base
  <1>2. CallsEndWithConnection'
    BY <1>1, CallsStayEnded DEF Base, table, links, NoneOpens, NoneCleans
  <1>3. CASE row = "over"
    <2>1. UNCHANGED <<row, line>>
      BY <1>3, TurnFailsFacts DEF Base
    <2>2. CallsFit'
      BY <1>1, <2>1, StaysMoves, SameCallsStay, MovedCalls DEF Base, table, stream
    <2>3. LineFits'
      BY <1>1, <2>1, StaysLine DEF Base, stream, TypeOK
    <2>4. QED
      BY <1>1, <1>2, <2>2, <2>3 DEF Base
  <1>4. CASE row # "over"
    <2>1. /\ row' = "paused"
          /\ line' \in Seq(Entry) /\ Grown /\ Len(line') = Len(line) + 1
          /\ line'[Len(line')].t = "paused" /\ line'[Len(line')].live = bound
      BY <1>4, TurnFailsFacts, EmitFacts DEF Base
    <2>2. CallsFit'
      BY <1>1, <2>1, SameCallsStay, GrownCalls DEF Base, table, stream
    <2>3. CASE row = "running"
      <3>1. LineFits'
        BY <1>1, <2>1, <2>3, PausedLine DEF Base, stream
      <3>2. QED
        BY <1>1, <1>2, <2>2, <3>1 DEF Base
    <2>4. CASE row = "paused"
      <3>1. turn
        BY TurnFailsFacts DEF Base
      <3>2. loose
        BY <2>4, <3>1 DEF PausedFits
      <3>3. LineFits'
        BY <3>2 DEF LineFits
      <3>4. QED
        BY <1>1, <1>2, <2>2, <3>3 DEF Base
    <2>5. QED
      BY <1>4, <2>3, <2>4 DEF Base, TypeOK
  <1>5. QED
    BY <1>3, <1>4

LEMMA PauseBase ==
  ASSUME Base, loose => loose', NEW k \in Conn, Pause(k)
  PROVE  Base'
  <1>1. TypeOK' /\ LinksFit' /\ UNCHANGED <<table, loop, stream>>
    BY PauseTypes, PauseLinks, PauseFacts DEF Base
  <1>2. NoneCleans
    BY PauseFacts DEF Base, TypeOK, NoneOpens, NoneCleans
  <1>3. CallsEndWithConnection'
    BY <1>1, <1>2, CallsStayEnded DEF Base, table, NoneOpens, NoneCleans
  <1>4. CASE row = "running"
    <2>1. /\ row' = "paused" /\ UNCHANGED bound
          /\ line' \in Seq(Entry) /\ Grown /\ Len(line') = Len(line) + 1
          /\ line'[Len(line')].t = "paused" /\ line'[Len(line')].live = bound
      BY <1>4, PauseFacts, EmitFacts DEF Base
    <2>2. CallsFit'
      BY <1>1, <2>1, SameCallsStay, SameWaitersStay, GrownCalls DEF Base, table, stream, loop
    <2>3. LineFits'
      BY <1>1, <1>4, <2>1, PausedLine DEF Base, stream
    <2>4. QED
      BY <1>1, <1>3, <2>2, <2>3 DEF Base
  <1>5. CASE row # "running"
    <2>1. UNCHANGED row /\ line' = Dead(line)
      BY <1>5, PauseFacts DEF Base
    <2>2. /\ line' \in Seq(Entry) /\ Moved(0) /\ 0 \in {0, 1}
          /\ \A i \in 1 .. Len(line') : ~line'[i].live
      BY <2>1, DeadMoves DEF Base
    <2>3. CallsFit'
      BY <1>1, <2>2, SameCallsStay, SameWaitersStay, MovedCalls DEF Base, table, stream, loop
    <2>4. LineFits'
      <3>1. loose \/ (row' = "over" => latest' # "paused")
        BY <1>1, <2>1 DEF Base, LineFits, LineHolds, stream
      <3>2. QED
        BY <1>5, <2>1, <2>2, <3>1, DeadLine DEF Base
    <2>5. QED
      BY <1>1, <1>3, <2>3, <2>4 DEF Base
  <1>6. QED
    BY <1>4, <1>5

LEMMA ServeProposalBase ==
  ASSUME Base, loose => loose', ServeProposal
  PROVE  Base'
  <1>1. /\ TypeOK' /\ CallsFit' /\ UNCHANGED <<bound, row, links>> /\ line # <<>>
             /\ line' = Tail(line)
        /\ latest' = latest \/ latest' = "call"
    BY ServeProposalTypes, ServeProposalCalls, ServeProposalFacts DEF Base, stream
  <1>2. LineFits'
    BY <1>1, TailLine DEF Base
  <1>3. LinksFit'
    BY <1>1, TailMoves, LineFacts, MovedLinks DEF Base
  <1>4. CallsEndWithConnection'
    <2>1. NoneOpens
      BY ServeProposalFacts DEF Base, CallStays, NoneOpens, NoneCleans
    <2>2. QED
      BY <1>1, <2>1, CallsStayEnded DEF Base, links, NoneOpens, NoneCleans
  <1>5. QED
    BY <1>1, <1>2, <1>3, <1>4 DEF Base

LEMMA ServeFinishBase ==
  ASSUME Base, loose => loose', ServeFinish
  PROVE  Base'
  <1>1. /\ TypeOK' /\ CallsFit' /\ UNCHANGED <<call, bound, row, links>> /\ line # <<>>
             /\ line' = Tail(line)
        /\ latest' = latest \/ latest' = "call"
    BY ServeFinishTypes, ServeFinishCalls, ServeFinishFacts DEF Base, stream
  <1>2. LineFits'
    BY <1>1, TailLine DEF Base
  <1>3. LinksFit'
    BY <1>1, TailMoves, LineFacts, MovedLinks DEF Base
  <1>4. CallsEndWithConnection'
    BY <1>1, CallsStayEnded DEF Base, links, NoneOpens, NoneCleans
  <1>5. QED
    BY <1>1, <1>2, <1>3, <1>4 DEF Base

LEMMA ServePauseBase ==
  ASSUME Base, loose => loose', ServePause
  PROVE  Base'
  <1>1. /\ TypeOK' /\ LinksFit' /\ UNCHANGED <<table, loop, row>> /\ UNCHANGED about
        /\ line # <<>> /\ line' = Dead(Tail(line)) /\ line[1].t = "paused"
        /\ latest' = latest \/ line[1].live
    BY ServePauseTypes, ServePauseLinks, ServePauseFacts DEF Base
  <1>2. /\ line' \in Seq(Entry) /\ Moved(1) /\ 1 \in {0, 1} /\ Len(line) >= 1
             /\ 1 \in 1 .. Len(line)
        /\ \A i \in 1 .. Len(line') : ~line'[i].live
    BY <1>1, DeadTailMoves, LineFacts DEF Base
  <1>3. CallsFit'
    BY <1>1, <1>2, SameCallsStay, SameWaitersStay, MovedCalls DEF Base, table, loop
  <1>4. LineFits'
    <2>1. loose \/ (row' # "running" /\ (row' = "over" => latest' # "paused"))
      BY <1>1, <1>2 DEF Base, LineFits, LineHolds
    <2>2. QED
      BY <1>2, <2>1, DeadLine DEF Base
  <1>5. CallsEndWithConnection'
    <2>1. PICK k : conns' = [j \in Conn |-> IF j = k THEN "paused" ELSE conns[j]]
      BY ServePauseFacts DEF Base
    <2>2. NoneCleans
      BY <2>1 DEF NoneOpens, NoneCleans
    <2>3. QED
      BY <1>1, <2>2, CallsStayEnded DEF Base, table, NoneOpens, NoneCleans
  <1>6. QED
    BY <1>1, <1>3, <1>4, <1>5 DEF Base

LEMMA ServeResumeBase ==
  ASSUME Base, loose => loose', ServeResume
  PROVE  Base'
  <1>1. /\ TypeOK' /\ UNCHANGED <<table, loop, bound, links>> /\ UNCHANGED about
        /\ line # <<>> /\ line' = Tail(line) /\ line[1].t = "resumed"
        /\ \/ line[1].live /\ row' = "running"
           \/ UNCHANGED row /\ latest' = latest
    BY ServeResumeTypes, ServeResumeFacts DEF Base
  <1>2. line' \in Seq(Entry) /\ Moved(1) /\ 1 \in {0, 1} /\ Len(line) >= 1
    BY <1>1, TailMoves, LineFacts DEF Base
  <1>3. CallsFit'
    BY <1>1, <1>2, SameCallsStay, SameWaitersStay, MovedCalls DEF Base, table, loop
  <1>4. LineFits'
    BY <1>1, TailLine DEF Base
  <1>5. LinksFit'
    BY <1>1, <1>2, MovedLinks DEF Base
  <1>6. CallsEndWithConnection'
    BY <1>1, CallsStayEnded DEF Base, table, links, NoneOpens, NoneCleans
  <1>7. QED
    BY <1>1, <1>3, <1>4, <1>5, <1>6 DEF Base

LEMMA ServeEndBase ==
  ASSUME Base, loose => loose', ServeEnd
  PROVE  Base'
  <1>1. /\ TypeOK' /\ UNCHANGED <<table, loop, links>> /\ UNCHANGED about
        /\ line # <<>> /\ line[1].t = "over"
        /\ \/ row' = "over" /\ latest' = "over" /\ line' = Dead(Tail(line))
           \/ line' = Tail(line) /\ UNCHANGED <<row, bound>> /\ latest' = latest
    BY ServeEndTypes, ServeEndFacts DEF Base
  <1>2. line' \in Seq(Entry) /\ Moved(1) /\ 1 \in {0, 1} /\ Len(line) >= 1
    BY <1>1, TailMoves, DeadTailMoves, LineFacts DEF Base
  <1>3. CallsFit'
    BY <1>1, <1>2, SameCallsStay, SameWaitersStay, MovedCalls DEF Base, table, loop
  <1>4. LineFits'
    <2>1. CASE row' = "over" /\ latest' = "over" /\ line' = Dead(Tail(line))
      BY <1>1, <1>2, <2>1, DeadTailMoves, DeadLine DEF Base
    <2>2. CASE line' = Tail(line) /\ UNCHANGED <<row, bound>> /\ latest' = latest
      BY <1>1, <2>2, TailLine DEF Base
    <2>3. QED
      BY <1>1, <2>1, <2>2
  <1>5. LinksFit'
    BY <1>1, <1>2, MovedLinks DEF Base
  <1>6. CallsEndWithConnection'
    BY <1>1, CallsStayEnded DEF Base, table, links, NoneOpens, NoneCleans
  <1>7. QED
    BY <1>1, <1>3, <1>4, <1>5, <1>6 DEF Base

LEMMA BaseStep ==
  ASSUME Base, PausedFits, [Next]_vars
  PROVE  Base'
  <1>0. loose => loose'
    BY HistoryStep DEF Base
  <1>1. CASE StartTurn
    BY <1>0, <1>1, StartTurnBase
  <1>27. CASE TurnFails
    BY <1>0, <1>27, TurnFailsBase
  <1>2. CASE TurnPauses
    BY <1>0, <1>2, TurnPausesBase
  <1>3. CASE TurnEnds
    BY <1>0, <1>3, TurnEndsBase
  <1>4. CASE \E c \in Call : Propose(c)
    BY <1>0, <1>4, ProposeBase
  <1>5. CASE \E c \in Call : Hear(c)
    BY <1>0, <1>5, HearBase
  <1>6. CASE \E c \in Call : Denied(c)
    BY <1>0, <1>6, DeniedBase
  <1>7. CASE \E c \in Call : Expire(c)
    BY <1>0, <1>7, ExpireBase
  <1>8. CASE ServeProposal
    BY <1>0, <1>8, ServeProposalBase
  <1>9. CASE ServeFinish
    BY <1>0, <1>9, ServeFinishBase
  <1>10. CASE ServePause
    BY <1>0, <1>10, ServePauseBase
  <1>11. CASE ServeResume
    BY <1>0, <1>11, ServeResumeBase
  <1>12. CASE ServeEnd
    BY <1>0, <1>12, ServeEndBase
  <1>13. CASE \E k \in Conn : Connect(k)
    BY <1>0, <1>13, ConnectBase
  <1>14. CASE \E k \in Conn : Leave(k)
    BY <1>0, <1>14, LeaveBase
  <1>15. CASE \E k \in Conn : LookForRuns(k)
    BY <1>0, <1>15, LookForRunsBase
  <1>16. CASE \E k \in Conn : StopForPause(k)
    BY <1>0, <1>16, StopForPauseBase
  <1>17. CASE \E k \in Conn : CloseForPause(k)
    BY <1>0, <1>17, CloseForPauseBase
  <1>18. CASE \E k \in Conn : Pause(k)
    BY <1>0, <1>18, PauseBase
  <1>19. CASE \E k \in Conn : CleanUp(k)
    BY <1>0, <1>19, CleanUpBase
  <1>20. CASE \E k \in Conn, c \in Call : Result(k, c)
    BY <1>0, <1>20, ResultBase
  <1>21. CASE \E k \in Conn, c \in Call : Deny(k, c)
    BY <1>0, <1>21, DenyBase
  <1>22. CASE Resume
    BY <1>0, <1>22, ResumeBase
  <1>23. CASE CancelCalls
    BY <1>0, <1>23, CancelCallsBase
  <1>24. CASE CancelTurn
    BY <1>0, <1>24, CancelTurnBase
  <1>25. CASE CancelRun
    BY <1>0, <1>25, CancelRunBase
  <1>26. CASE UNCHANGED vars
    <2>1. /\ UNCHANGED <<call, done, waiter, turn, line, about, latest, bound, row>>
          /\ UNCHANGED <<conns, reg, cancel, loose, unheard>>
      BY <1>26 DEF vars, table, loop, stream, emitter, links, history
    <2>2. TypeOK' /\ LineFits' /\ LinksFit' /\ CallsEndWithConnection'
      BY <2>1 DEF Base, TypeOK, CallTypes, LineFits, LineHolds, LinksFit, Waits,
         CallsEndWithConnection,
         Pending
    <2>3. CallsFit'
      BY <2>1, StaysMoves, SameCallsStay, SameWaitersStay, MovedCalls DEF Base
    <2>4. QED
      BY <2>2, <2>3 DEF Base
  <1>28. QED
    BY <1>1, <1>2, <1>3, <1>4, <1>5, <1>6, <1>7, <1>8, <1>9, <1>10, <1>11, <1>12, <1>13, <1>14,
       <1>15, <1>16, <1>17, <1>18, <1>19, <1>20, <1>21, <1>22, <1>23, <1>24, <1>25, <1>26,
       <1>27
       DEF Next, Serve, Handlers

LEMMA BaseInit ==
  ASSUME Init
  PROVE  Base
  <1>1. /\ line = <<>> /\ line \in Seq(Entry) /\ Len(line) = 0 /\ row = "running"
             /\ bound = TRUE /\ latest = None
        /\ \A c \in Call : call[c] = Unknown /\ done[c] = "no" /\ waiter[c] = "no"
             /\ about[c] = <<>>
    BY DEF Init
  <1>2. PICK k \in Conn : reg = k /\ conns = [j \in Conn |-> IF j = k THEN "live" ELSE "new"]
    BY DEF Init
  <1>3. Unknown \in CallRecord /\ Unknown.at = "no"
    BY DEF Unknown, CallRecord
  <1>4. TypeOK
    <2>1. /\ call \in [Call -> CallRecord] /\ done \in [Call -> {"no", "told", "raised"}]
          /\ waiter \in [Call -> {"no", "waits", "back", "cut", "failed"}]
          /\ about \in [Call -> Seq(Status \union {"proposed"})]
      BY <1>3, EmptySeq DEF Init
    <2>2. conns \in [Conn -> {"new", "live", "left", "stopping", "hook", "pause", "pausing",
                              "paused", "done"}]
      BY <1>2
    <2>3. QED
      BY <1>1, <1>2, <1>3, <2>1, <2>2 DEF Init, TypeOK, CallTypes
  <1>5. CallsFit /\ LineFits /\ LinksFit
    BY <1>1, <1>2, <1>3 DEF CallsFit, CallFits, HeardOf, LineFits, LineHolds, LinksFit, None
  <1>6. CallsEndWithConnection
    BY <1>1, <1>3 DEF CallsEndWithConnection, Pending
  <1>7. QED
    BY <1>4, <1>5, <1>6 DEF Base

------------------------------------------------------------------------------
(* The steps as those of ToolCalls.                                        *)
Outcome == [c \in Call |-> IF call[c].at = "over" THEN {call[c].status} ELSE {}]
Heard == [c \in Call |-> done[c] # "no"]

LEMMA QuietCalls ==
  ASSUME TypeOK, CallsStay, UNCHANGED <<done, about>>
  PROVE  UNCHANGED Calls!callVars
  <1>1. \A c \in Call : call'[c].at = call[c].at /\ call'[c].status = call[c].status
    BY DEF CallsStay, CallStays
  <1>2. Outcome' = Outcome
    BY <1>1 DEF Outcome
  <1>3. Heard' = Heard
    BY DEF Heard
  <1>4. QED
    BY <1>2, <1>3 DEF Calls!callVars, Outcome, Heard

LEMMA EndsCalls ==
  ASSUME TypeOK, CallsFit, NEW calls, NEW binding, Ends(calls, binding)
  PROVE  Calls!End
  <1>1. PICK status \in Status : \A c \in calls : call'[c].at = "over"
               /\ call'[c].status = status
    BY DEF Ends
  <1>2. \A c \in calls : c \in Call /\ call[c].at = "open" /\ done[c] = "no"
    BY DEF Ends, Pending, CallsFit, CallFits
  <1>3. calls \in SUBSET {c \in Call : Outcome[c] = {} /\ ~Heard[c]}
    BY <1>2 DEF Outcome, Heard
  <1>4. Outcome' = [c \in Call |-> IF c \in calls THEN {status} ELSE Outcome[c]]
    <2>1. \A c \in Call \ calls : call'[c].at = call[c].at /\ call'[c].status = call[c].status
      BY DEF Ends, CallStays
    <2>2. QED
      BY <1>1, <2>1 DEF Outcome
  <1>5. UNCHANGED <<about, Heard>>
    BY DEF Ends, stream, Heard
  <1>6. QED
    BY <1>3, <1>4, <1>5 DEF Calls!End, Outcome, Heard

LEMMA ProposeQuiet ==
  ASSUME TypeOK, CallsFit, NEW c \in Call, Propose(c)
  PROVE  UNCHANGED Calls!callVars
  <1>1. UNCHANGED <<done, about>> /\ waiter[c] = "no" /\ \A d \in Call \ {c} : CallStays(d)
    BY ProposeFacts DEF stream
  <1>2. call[c].at = "no"
    BY <1>1 DEF CallsFit, CallFits
  <1>3. call'[c].at \in {"no", "open"}
    BY <1>2, ProposeFacts DEF CallStays
  <1>4. Outcome' = Outcome
    BY <1>1, <1>2, <1>3 DEF Outcome, CallStays
  <1>5. Heard' = Heard
    BY <1>1 DEF Heard
  <1>6. QED
    BY <1>1, <1>4, <1>5 DEF Calls!callVars, Outcome, Heard

LEMMA ServeProposalImplements ==
  ASSUME TypeOK, CallsFit, ServeProposal
  PROVE  (\E c \in Call : Calls!Propose(c) \/ Calls!Refuse(c)) \/ UNCHANGED Calls!callVars
  <1>0. PICK c \in Call : c = line[1].of
    BY ServeProposalFacts
  <1>1. /\ c \in Call /\ line # <<>> /\ line[1].t = "proposed"
        /\ \A d \in Call \ {c} : CallStays(d)
    BY <1>0, ServeProposalFacts
  <1>2. done[c] = "no" /\ about[c] = <<>>
    <2>1. 1 \in 1 .. Len(line) /\ Waits("proposed", c, 1)
      BY <1>0, <1>1, LineFacts DEF Waits
    <2>2. QED
      BY <1>1, <2>1 DEF CallsFit, CallFits
  <1>3. ~Heard[c]
    BY <1>1, <1>2 DEF Heard
  <1>4. CASE /\ about' = [about EXCEPT ![c] = Append(@, "proposed")]
             /\ call'[c].at = call[c].at /\ call'[c].status = call[c].status /\ UNCHANGED done
    <2>1. Append(about[c], "proposed") = <<"proposed">>
      BY <1>2
    <2>2. about' = [about EXCEPT ![c] = <<"proposed">>]
      BY <1>4, <2>1
    <2>3. Outcome' = Outcome /\ Heard' = Heard
      BY <1>1, <1>4 DEF Outcome, Heard, CallStays
    <2>4. Calls!Propose(c)
      BY <1>2, <1>3, <2>2, <2>3 DEF Calls!Propose, Outcome, Heard
    <2>5. QED
      BY <1>1, <2>4
  <1>5. CASE /\ call[c].at = "open" /\ call'[c].at = "dropped"
             /\ done' = [done EXCEPT ![c] = "raised"] /\ UNCHANGED about
    <2>1. Outcome' = Outcome /\ Outcome[c] = {}
      BY <1>1, <1>5 DEF Outcome, CallStays
    <2>2. Heard' = [Heard EXCEPT ![c] = TRUE]
      BY <1>1, <1>5 DEF Heard, TypeOK
    <2>3. Calls!Refuse(c)
      BY <1>2, <1>3, <1>5, <2>1, <2>2 DEF Calls!Refuse, Outcome, Heard
    <2>4. QED
      BY <1>1, <2>3
  <1>6. CASE CallStays(c) /\ UNCHANGED <<done, about>>
    <2>1. Outcome' = Outcome /\ Heard' = Heard
      BY <1>1, <1>6 DEF Outcome, Heard, CallStays
    <2>2. QED
      BY <1>6, <2>1 DEF Calls!callVars, Outcome, Heard
  <1>7. QED
    BY <1>0, <1>4, <1>5, <1>6, ServeProposalFacts DEF stream

LEMMA ServeFinishImplements ==
  ASSUME TypeOK, CallsFit, ServeFinish
  PROVE  \E c \in Call : Calls!Finish(c)
  <1>0. PICK c \in Call : c = line[1].of
    BY ServeFinishFacts
  <1>1. /\ c \in Call /\ line # <<>> /\ line[1].t = "finished"
        /\ done' = [done EXCEPT ![c] = "told"] /\ UNCHANGED call
        /\ about' = about \/ about' = [about EXCEPT ![c] = Append(@, call[c].status)]
    BY <1>0, ServeFinishFacts DEF stream
  <1>2. done[c] = "no" /\ call[c].at = "over"
    <2>1. 1 \in 1 .. Len(line) /\ Waits("finished", c, 1)
      BY <1>0, <1>1, LineFacts DEF Waits
    <2>2. QED
      BY <1>1, <2>1 DEF CallsFit, CallFits
  <1>3. ~Heard[c] /\ Outcome[c] = {call[c].status}
    BY <1>1, <1>2 DEF Heard, Outcome
  <1>4. Outcome' = Outcome
    BY <1>1 DEF Outcome
  <1>5. Heard' = [Heard EXCEPT ![c] = TRUE]
    BY <1>1 DEF Heard, TypeOK
  <1>6. call[c].status \in Outcome[c]
          /\ about' \in {about, [about EXCEPT ![c] = Append(@, call[c].status)]}
    BY <1>1, <1>3
  <1>7. Calls!Finish(c)
    BY <1>3, <1>4, <1>5, <1>6 DEF Calls!Finish, Outcome, Heard
  <1>8. QED
    BY <1>1, <1>7

LEMMA ImplementsStep ==
  ASSUME TypeOK, CallsFit, [Next]_vars
  PROVE  [Calls!CallsNext]_(Calls!callVars)
  <1>1. CASE StartTurn
    <2>1. UNCHANGED <<call, done, about>>
      BY <1>1 DEF StartTurn, table, emitter, stream
    <2>2. QED
      BY <2>1, SameCallsStay, QuietCalls
  <1>0. CASE TurnFails
    <2>1. UNCHANGED <<call, done, about>>
      BY <1>0, TurnFailsFacts DEF table, stream
    <2>2. QED
      BY <2>1, SameCallsStay, QuietCalls
  <1>2. CASE TurnPauses
    <2>1. UNCHANGED <<call, done, about>>
      BY <1>2, TurnPausesFacts DEF table, emitter, stream
    <2>2. QED
      BY <2>1, SameCallsStay, QuietCalls
  <1>3. CASE TurnEnds
    <2>1. UNCHANGED <<call, done, about>>
      BY <1>3 DEF TurnEnds, table, emitter, stream
    <2>2. QED
      BY <2>1, SameCallsStay, QuietCalls
  <1>4. CASE \E c \in Call : Propose(c)
    BY <1>4, ProposeQuiet
  <1>5. CASE \E c \in Call : Hear(c)
    <2>1. UNCHANGED <<call, done, about>>
      BY <1>5, HearFacts DEF table, emitter, stream
    <2>2. QED
      BY <2>1, SameCallsStay, QuietCalls
  <1>6. CASE \E c \in Call : Denied(c)
    <2>1. CASE \E c \in Call : Ends({c}, bound)
      BY <2>1, EndsCalls DEF Calls!CallsNext
    <2>2. CASE CallsStay /\ UNCHANGED <<done, about>>
      BY <2>2, QuietCalls
    <2>3. QED
      BY <1>6, <2>1, <2>2, DeniedFacts DEF stream
  <1>7. CASE \E c \in Call : Expire(c)
    <2>1. PICK calls, binding : Ends(calls, binding)
      BY <1>7, ExpireEnds
    <2>2. QED
      BY <2>1, EndsCalls DEF Calls!CallsNext
  <1>8. CASE ServeProposal
    BY <1>8, ServeProposalImplements DEF Calls!CallsNext
  <1>9. CASE ServeFinish
    BY <1>9, ServeFinishImplements DEF Calls!CallsNext
  <1>10. CASE ServePause
    <2>1. UNCHANGED <<call, done, about>>
      BY <1>10, ServePauseFacts DEF table, emitter, stream
    <2>2. QED
      BY <2>1, SameCallsStay, QuietCalls
  <1>11. CASE ServeResume
    <2>1. UNCHANGED <<call, done, about>>
      BY <1>11, ServeResumeFacts DEF table, emitter, stream
    <2>2. QED
      BY <2>1, SameCallsStay, QuietCalls
  <1>12. CASE ServeEnd
    <2>1. UNCHANGED <<call, done, about>>
      BY <1>12, ServeEndFacts DEF table, emitter, stream
    <2>2. QED
      BY <2>1, SameCallsStay, QuietCalls
  <1>13. CASE \E k \in Conn : Connect(k)
    <2>1. UNCHANGED <<call, done, about>>
      BY <1>13 DEF Connect, table, emitter, stream
    <2>2. QED
      BY <2>1, SameCallsStay, QuietCalls
  <1>14. CASE \E k \in Conn : Leave(k)
    <2>1. CallsStay /\ UNCHANGED <<done, about>>
      BY <1>14, LeaveFacts DEF emitter, stream
    <2>2. QED
      BY <2>1, QuietCalls
  <1>15. CASE \E k \in Conn : LookForRuns(k)
    <2>1. UNCHANGED <<call, done, about>>
      BY <1>15 DEF LookForRuns, table, emitter, stream
    <2>2. QED
      BY <2>1, SameCallsStay, QuietCalls
  <1>16. CASE \E k \in Conn : StopForPause(k)
    <2>1. UNCHANGED <<call, done, about>>
      BY <1>16 DEF StopForPause, table, emitter, stream
    <2>2. QED
      BY <2>1, SameCallsStay, QuietCalls
  <1>17. CASE \E k \in Conn : CloseForPause(k)
    <2>1. PICK calls, binding : Ends(calls, binding)
      BY <1>17, CloseForPauseEnds
    <2>2. QED
      BY <2>1, EndsCalls DEF Calls!CallsNext
  <1>18. CASE \E k \in Conn : Pause(k)
    <2>1. UNCHANGED <<call, done, about>>
      BY <1>18, PauseFacts DEF table, emitter, stream
    <2>2. QED
      BY <2>1, SameCallsStay, QuietCalls
  <1>19. CASE \E k \in Conn : CleanUp(k)
    <2>1. PICK calls, binding : Ends(calls, binding)
      BY <1>19, CleanUpEnds
    <2>2. QED
      BY <2>1, EndsCalls DEF Calls!CallsNext
  <1>20. CASE \E k \in Conn, c \in Call : Result(k, c)
    <2>1. PICK calls, binding : Ends(calls, binding)
      BY <1>20, ResultEnds
    <2>2. QED
      BY <2>1, EndsCalls DEF Calls!CallsNext
  <1>21. CASE \E k \in Conn, c \in Call : Deny(k, c)
    <2>1. CallsStay /\ UNCHANGED <<done, about>>
      BY <1>21, DenyFacts DEF emitter, stream
    <2>2. QED
      BY <2>1, QuietCalls
  <1>22. CASE Resume
    <2>1. UNCHANGED <<call, done, about>>
      BY <1>22, ResumeFacts DEF table, emitter, stream
    <2>2. QED
      BY <2>1, SameCallsStay, QuietCalls
  <1>23. CASE CancelCalls
    <2>1. PICK calls, binding : Ends(calls, binding)
      BY <1>23, CancelCallsEnds
    <2>2. QED
      BY <2>1, EndsCalls DEF Calls!CallsNext
  <1>24. CASE CancelTurn
    <2>1. UNCHANGED <<call, done, about>>
      BY <1>24 DEF CancelTurn, table, emitter, stream
    <2>2. QED
      BY <2>1, SameCallsStay, QuietCalls
  <1>25. CASE CancelRun
    <2>1. UNCHANGED <<call, done, about>>
      BY <1>25, CancelRunFacts DEF table, emitter, stream
    <2>2. QED
      BY <2>1, SameCallsStay, QuietCalls
  <1>26. CASE UNCHANGED vars
    <2>1. UNCHANGED <<call, done, about>>
      BY <1>26 DEF vars, table, emitter, stream
    <2>2. QED
      BY <2>1, SameCallsStay, QuietCalls
  <1>27. QED
    BY <1>0, <1>1, <1>2, <1>3, <1>4, <1>5, <1>6, <1>7, <1>8, <1>9, <1>10, <1>11, <1>12, <1>13,
       <1>14,
       <1>15, <1>16, <1>17, <1>18, <1>19, <1>20, <1>21, <1>22, <1>23, <1>24, <1>25, <1>26
       DEF Next, Serve, Handlers

LEMMA ImplementsInit ==
  ASSUME Init
  PROVE  Calls!CallsInit
  <1>1. Unknown.at = "no"
    BY DEF Unknown
  <1>2. QED
    BY <1>1 DEF Init, Calls!CallsInit

------------------------------------------------------------------------------
(* One connection at a time.  Most steps open no call, start no turn and   *)
(* take no connection into a pause.                                        *)
Calm ==
  /\ (loose => loose') /\ (turn' => turn)
  /\ \A c \in Call : call'[c].at = "open" => call[c].at = "open"
  /\ \A k \in Conn : \/ conns'[k] = conns[k]
                     \/ conns[k] \notin {"new", "done"} /\ conns'[k] \notin {"hook", "pause"}

LEMMA CalmEnds ==
  ASSUME TypeOK, NEW calls, NEW binding, Ends(calls, binding)
  PROVE  /\ UNCHANGED <<loose, turn>>
         /\ \A c \in Call : call'[c].at = "open" => call[c].at = "open"
  BY DEF Ends, CallStays, loop, history

LEMMA CalmStep ==
  ASSUME Base, [Next]_vars
  PROVE  \/ Calm \/ StartTurn \/ \E c \in Call : Propose(c)
         \/ \E k \in Conn : Connect(k) \/ StopForPause(k) \/ CloseForPause(k)
  <1> USE DEF Base
  <1>0. CASE TurnFails
    <2>1. loose => loose'
      BY HistoryStep
    <2>2. QED
      BY <1>0, <2>1, TurnFailsFacts DEF Calm, table, loop, links, TypeOK
  <1>1. CASE TurnPauses
    BY <1>1, TurnPausesFacts DEF Calm, table, loop, links, history, TypeOK
  <1>2. CASE TurnEnds
    BY <1>2 DEF TurnEnds, Stopped, Calm, table, loop, links, history, TypeOK
  <1>3. CASE \E c \in Call : Hear(c)
    BY <1>3, HearFacts DEF Calm, table, loop, links, history, TypeOK
  <1>4. CASE \E c \in Call : Denied(c)
    <2>1. UNCHANGED conns
      BY <1>4, DeniedFacts DEF links
    <2>2. CASE \E c \in Call : Ends({c}, bound)
      BY <2>1, <2>2, CalmEnds DEF Calm
    <2>3. CASE CallsStay /\ UNCHANGED <<turn, loose>>
      BY <2>1, <2>3 DEF Calm, CallsStay, CallStays
    <2>4. QED
      BY <1>4, <2>2, <2>3, DeniedFacts DEF loop, history
  <1>5. CASE \E c \in Call : Expire(c)
    <2>1. PICK calls, binding : Ends(calls, binding)
      BY <1>5, ExpireEnds
    <2>2. \A k \in Conn : conns'[k] = conns[k] \/ (conns[k] = "paused" /\ conns'[k] = "done")
      BY <1>5, ExpireEnds DEF links, TypeOK
    <2>3. QED
      BY <2>1, <2>2, CalmEnds DEF Calm
  <1>6. CASE ServeProposal
    BY <1>6, ServeProposalFacts DEF Calm, table, loop, links, history, TypeOK, CallStays
  <1>7. CASE ServeFinish
    BY <1>7, ServeFinishFacts DEF Calm, table, loop, links, history, TypeOK
  <1>8. CASE ServePause
    <2>1. PICK k \in Conn \union {None} :
            /\ line # <<>> /\ line[1].t = "paused" /\ line[1].of = k
            /\ conns' = [j \in Conn |-> IF j = k THEN "paused" ELSE conns[j]]
            /\ UNCHANGED <<table, loop, history>>
      BY <1>8, ServePauseFacts
    <2>2. k \in Conn => conns[k] = "pausing"
      <3>1. 1 \in 1 .. Len(line)
        BY <2>1, LineFacts
      <3>2. QED
        BY <2>1, <3>1 DEF LinksFit, Waits
    <2>3. QED
      BY <2>1, <2>2 DEF Calm, table, loop, links, history, TypeOK
  <1>9. CASE ServeResume
    BY <1>9, ServeResumeFacts DEF Calm, table, loop, links, history, TypeOK
  <1>10. CASE ServeEnd
    BY <1>10, ServeEndFacts DEF Calm, table, loop, links, history, TypeOK
  <1>11. CASE \E k \in Conn : Leave(k)
    BY <1>11, LeaveFacts DEF Calm, table, loop, links, history, TypeOK, CallsStay, CallStays
  <1>12. CASE \E k \in Conn : LookForRuns(k)
    BY <1>12 DEF LookForRuns, Stopped, Calm, table, loop, links, history, TypeOK
  <1>13. CASE \E k \in Conn : Pause(k)
    BY <1>13, PauseFacts DEF Calm, table, loop, links, history, TypeOK
  <1>14. CASE \E k \in Conn : CleanUp(k)
    <2>1. PICK calls, binding : Ends(calls, binding)
      BY <1>14, CleanUpEnds
    <2>2. \A k \in Conn : conns'[k] = conns[k] \/ (conns[k] = "paused" /\ conns'[k] = "done")
      BY <1>14, CleanUpEnds DEF links, TypeOK
    <2>3. QED
      BY <2>1, <2>2, CalmEnds DEF Calm
  <1>15. CASE \E k \in Conn, c \in Call : Result(k, c)
    <2>1. PICK calls, binding : Ends(calls, binding)
      BY <1>15, ResultEnds
    <2>2. \A k \in Conn : conns'[k] = conns[k] \/ (conns[k] = "paused" /\ conns'[k] = "done")
      BY <1>15, ResultEnds DEF links, TypeOK
    <2>3. QED
      BY <2>1, <2>2, CalmEnds DEF Calm
  <1>16. CASE \E k \in Conn, c \in Call : Deny(k, c)
    BY <1>16, DenyFacts DEF Calm, table, loop, links, history, TypeOK, CallsStay, CallStays
  <1>17. CASE Resume
    BY <1>17, ResumeFacts DEF Calm, table, loop, links, history, TypeOK
  <1>18. CASE CancelCalls
    <2>1. PICK calls, binding : Ends(calls, binding)
      BY <1>18, CancelCallsEnds
    <2>2. \A k \in Conn : conns'[k] = conns[k] \/ (conns[k] = "paused" /\ conns'[k] = "done")
      BY <1>18, CancelCallsEnds DEF links, TypeOK
    <2>3. QED
      BY <2>1, <2>2, CalmEnds DEF Calm
  <1>19. CASE CancelTurn
    BY <1>19 DEF CancelTurn, Stopped, Calm, table, loop, links, history, TypeOK
  <1>20. CASE CancelRun
    BY <1>20, CancelRunFacts DEF Calm, table, loop, links, history, TypeOK
  <1>21. CASE UNCHANGED vars
    BY <1>21 DEF vars, Calm, table, loop, links, history
  <1>22. QED
    BY <1>0, <1>1, <1>2, <1>3, <1>4, <1>5, <1>6, <1>7, <1>8, <1>9, <1>10, <1>11, <1>12, <1>13,
       <1>14,
       <1>15, <1>16, <1>17, <1>18, <1>19, <1>20, <1>21 DEF Next, Serve, Handlers

LEMMA OneConnectionStep ==
  ASSUME Base, OneConnection, [Next]_vars
  PROVE  OneConnection'
  <1> USE DEF Base
  <1>1. CASE Calm
    BY <1>1 DEF Calm, OneConnection, Pending
  <1>2. CASE StartTurn
    <2>1. /\ UNCHANGED <<conns, loose, call>> /\ reg \in Conn /\ conns[reg] = "live"
      BY <1>2, BrokerAssumption DEF StartTurn, table, links, history, TypeOK, LinksFit, None
    <2>2. QED
      BY <2>1 DEF OneConnection, Pending
  <1>3. CASE \E c \in Call : Propose(c)
    <2>1. turn /\ UNCHANGED <<turn, conns, loose>>
      BY <1>3, ProposeFacts DEF links, history
    <2>2. QED
      BY <2>1 DEF OneConnection
  <1>4. CASE \E k \in Conn : Connect(k)
    <2>1. PICK k \in Conn : /\ loose' = (loose
                                         \/ \E j \in Conn : conns[j] \notin {"new", "done"})
                            /\ conns' = [j \in Conn |-> IF j = k THEN "live"
                                                        ELSE IF j = reg THEN "left" ELSE conns[j]]
      BY <1>4 DEF Connect
    <2>2. CASE loose'
      BY <2>2 DEF OneConnection
    <2>3. CASE ~loose'
      <3>1. \A j \in Conn : conns[j] \in {"new", "done"} /\ j # reg
        BY <2>1, <2>3, BrokerAssumption DEF LinksFit, None
      <3>2. \A j \in Conn : conns'[j] = (IF j = k THEN "live" ELSE conns[j])
        BY <2>1, <3>1
      <3>3. QED
        BY <3>1, <3>2 DEF OneConnection
    <2>4. QED
      BY <2>2, <2>3
  <1>5. CASE \E k \in Conn : StopForPause(k)
    <2>1. PICK k \in Conn : /\ conns[k] = "stopping" /\ conns' = [conns EXCEPT ![k] = "hook"]
                            /\ turn' = FALSE /\ UNCHANGED <<call, loose>>
      BY <1>5 DEF StopForPause, Stopped, table, history
    <2>2. QED
      BY <2>1 DEF OneConnection, Pending, TypeOK
  <1>6. CASE \E k \in Conn : CloseForPause(k)
    <2>1. PICK k \in Conn : /\ conns[k] = "hook" /\ conns' = [conns EXCEPT ![k] = "pause"]
                            /\ Ends(Pending, bound) /\ UNCHANGED <<turn, loose>>
      BY <1>6, CloseForPauseEnds DEF Ends, loop, history
    <2>2. Pending' = {}
      BY <2>1 DEF Ends, CallStays, Pending
    <2>3. QED
      BY <2>1, <2>2 DEF OneConnection, TypeOK
  <1>7. QED
    BY <1>1, <1>2, <1>3, <1>4, <1>5, <1>6, CalmStep

------------------------------------------------------------------------------
(* A turn and its calls.  Most steps leave no call to the loop, and a run  *)
(* that rests has rested.                                                  *)
CallsRest ==
  /\ loose => loose'
  /\ turn' => turn
  /\ \A c \in Call : Unsettled(c)' => Unsettled(c) /\ (turn' => waiter'[c] = waiter[c])
  /\ Resting' => Resting

LEMMA CallsRestStep ==
  ASSUME Base, [Next]_vars
  PROVE  \/ CallsRest \/ StartTurn \/ TurnEnds \/ ServeResume \/ \E c \in Call : Propose(c)
  <1> USE DEF Base
  <1>0. CASE TurnFails
    <2>1. loose => loose'
      BY HistoryStep
    <2>2. QED
      BY <1>0, <2>1, TurnFailsFacts DEF CallsRest, Resting, Unsettled, table, loop, links, TypeOK
  <1>1. CASE TurnPauses
    BY <1>1, TurnPausesFacts DEF CallsRest, Resting, Unsettled, table, loop, emitter, links,
       history, TypeOK
  <1>2. CASE \E c \in Call : Hear(c)
    BY <1>2, HearFacts DEF CallsRest, Resting, Unsettled, table, loop, emitter, links, history,
       TypeOK
  <1>3. CASE \E c \in Call : Denied(c)
    <2>1. UNCHANGED <<conns, cancel>>
      BY <1>3, DeniedFacts DEF links
    <2>2. CASE \E c \in Call : Ends({c}, bound)
      BY <2>1, <2>2, UnsettledEnds DEF CallsRest, Resting
    <2>3. CASE CallsStay /\ UNCHANGED <<turn, waiter, loose, row, done>>
      BY <2>1, <2>3, UnsettledStays DEF CallsRest, Resting
    <2>4. QED
      BY <1>3, <2>2, <2>3, DeniedFacts DEF loop, history
  <1>4. CASE \E c \in Call : Expire(c)
    <2>1. PICK calls, binding : Ends(calls, binding)
      BY <1>4, ExpireEnds
    <2>2. /\ \A k \in Conn : conns[k] \in {"hook", "pause"} => conns'[k] \in {"hook", "pause"}
          /\ cancel' = "no" => cancel = "no"
      BY <1>4, ExpireEnds DEF links, TypeOK
    <2>3. QED
      BY <2>1, <2>2, UnsettledEnds DEF CallsRest, Resting
  <1>5. CASE ServeProposal
    BY <1>5, ServeProposalFacts DEF CallsRest, Resting, Unsettled, table, loop, emitter, links,
       history, TypeOK, CallStays
  <1>6. CASE ServeFinish
    BY <1>6, ServeFinishFacts DEF CallsRest, Resting, Unsettled, table, loop, emitter, links,
       history, TypeOK
  <1>7. CASE ServePause
    <2>1. PICK k \in Conn \union {None} :
            /\ line # <<>> /\ line[1].t = "paused" /\ line[1].of = k
            /\ conns' = [j \in Conn |-> IF j = k THEN "paused" ELSE conns[j]]
            /\ UNCHANGED <<table, loop, row, cancel, history>>
      BY <1>7, ServePauseFacts
    <2>2. k \in Conn => conns[k] = "pausing"
      <3>1. 1 \in 1 .. Len(line)
        BY <2>1, LineFacts
      <3>2. QED
        BY <2>1, <3>1 DEF LinksFit, Waits
    <2>3. QED
      BY <2>1, <2>2 DEF CallsRest, Resting, Unsettled, table, loop, emitter, links, history, TypeOK
  <1>8. CASE ServeEnd
    BY <1>8, ServeEndFacts DEF CallsRest, Resting, Unsettled, table, loop, emitter, links,
       history, TypeOK
  <1>9. CASE \E k \in Conn : Connect(k)
    <2>1. PICK k \in Conn : /\ conns[k] = "new" /\ (loose => loose')
                            /\ UNCHANGED <<call, done, waiter, turn, row, cancel>>
                            /\ conns' = [j \in Conn |-> IF j = k THEN "live"
                                                        ELSE IF j = reg THEN "left" ELSE conns[j]]
      BY <1>9 DEF Connect, table, loop, emitter
    <2>2. \A j \in Conn : conns[j] \in {"hook", "pause"} => conns'[j] = conns[j]
      BY <2>1, BrokerAssumption DEF LinksFit, None
    <2>3. QED
      BY <2>1, <2>2 DEF CallsRest, Resting, Unsettled
  <1>10. CASE \E k \in Conn : Leave(k)
    BY <1>10, LeaveFacts, UnsettledStays DEF CallsRest, Resting, table, loop, emitter, links,
       history, TypeOK
  <1>11. CASE \E k \in Conn : LookForRuns(k)
    BY <1>11 DEF LookForRuns, Stopped, CallsRest, Resting, Unsettled, table, loop, emitter, links,
       history, TypeOK
  <1>12. CASE \E k \in Conn : StopForPause(k)
    BY <1>12 DEF StopForPause, Stopped, CallsRest, Resting, Unsettled, table, loop, emitter,
       links, history, TypeOK
  <1>13. CASE \E k \in Conn : CloseForPause(k)
    <2>1. PICK calls, binding : Ends(calls, binding)
      BY <1>13, CloseForPauseEnds
    <2>2. /\ \A k \in Conn : conns[k] \in {"hook", "pause"} => conns'[k] \in {"hook", "pause"}
          /\ cancel' = "no" => cancel = "no"
      BY <1>13, CloseForPauseEnds DEF links, TypeOK
    <2>3. QED
      BY <2>1, <2>2, UnsettledEnds DEF CallsRest, Resting
  <1>14. CASE \E k \in Conn : Pause(k)
    BY <1>14, PauseFacts DEF CallsRest, Resting, Unsettled, table, loop, emitter, links, history,
       TypeOK
  <1>15. CASE \E k \in Conn : CleanUp(k)
    <2>1. PICK calls, binding : Ends(calls, binding)
      BY <1>15, CleanUpEnds
    <2>2. /\ \A k \in Conn : conns[k] \in {"hook", "pause"} => conns'[k] \in {"hook", "pause"}
          /\ cancel' = "no" => cancel = "no"
      BY <1>15, CleanUpEnds DEF links, TypeOK
    <2>3. QED
      BY <2>1, <2>2, UnsettledEnds DEF CallsRest, Resting
  <1>16. CASE \E k \in Conn, c \in Call : Result(k, c)
    <2>1. PICK calls, binding : Ends(calls, binding)
      BY <1>16, ResultEnds
    <2>2. /\ \A k \in Conn : conns[k] \in {"hook", "pause"} => conns'[k] \in {"hook", "pause"}
          /\ cancel' = "no" => cancel = "no"
      BY <1>16, ResultEnds DEF links, TypeOK
    <2>3. QED
      BY <2>1, <2>2, UnsettledEnds DEF CallsRest, Resting
  <1>17. CASE \E k \in Conn, c \in Call : Deny(k, c)
    BY <1>17, DenyFacts, UnsettledStays DEF CallsRest, Resting, table, loop, emitter, links,
       history, TypeOK
  <1>18. CASE Resume
    BY <1>18, ResumeFacts DEF CallsRest, Resting, Unsettled, table, loop, emitter, links, history,
       TypeOK
  <1>19. CASE CancelCalls
    <2>1. PICK calls, binding : Ends(calls, binding)
      BY <1>19, CancelCallsEnds
    <2>2. /\ \A k \in Conn : conns[k] \in {"hook", "pause"} => conns'[k] \in {"hook", "pause"}
          /\ cancel' = "no" => cancel = "no"
      BY <1>19, CancelCallsEnds DEF links, TypeOK
    <2>3. QED
      BY <2>1, <2>2, UnsettledEnds DEF CallsRest, Resting
  <1>20. CASE CancelTurn
    BY <1>20 DEF CancelTurn, Stopped, CallsRest, Resting, Unsettled, table, loop, emitter, links,
       history, TypeOK
  <1>21. CASE CancelRun
    BY <1>21, CancelRunFacts DEF CallsRest, Resting, Unsettled, table, loop, emitter, links,
       history, TypeOK
  <1>22. CASE UNCHANGED vars
    BY <1>22 DEF vars, CallsRest, Resting, Unsettled, table, loop, emitter, links, history
  <1>23. QED
    BY <1>0, <1>1, <1>2, <1>3, <1>4, <1>5, <1>6, <1>7, <1>8, <1>9, <1>10, <1>11, <1>12, <1>13,
       <1>14,
       <1>15, <1>16, <1>17, <1>18, <1>19, <1>20, <1>21, <1>22 DEF Next, Serve, Handlers

LEMMA TurnsStep ==
  ASSUME Base, OneConnection, TurnsFit, PausedFits, [Next]_vars
  PROVE  TurnsFit'
  <1> USE DEF Base
  <1>1. CASE CallsRest
    BY <1>1 DEF CallsRest, TurnsFit
  <1>2. CASE StartTurn
    <2>1. /\ UNCHANGED <<call, done, waiter, loose>> /\ turn' = TRUE /\ ~turn
               /\ row = "running" /\ cancel = "no"
          /\ reg \in Conn /\ conns[reg] = "live"
      BY <1>2, BrokerAssumption DEF StartTurn, table, links, history, TypeOK, LinksFit, None
    <2>2. ~loose => Resting
      BY <2>1 DEF OneConnection, Resting
    <2>3. ~loose => \A c \in Call : ~Unsettled(c)
      BY <2>2 DEF TurnsFit
    <2>4. QED
      BY <2>1, <2>3 DEF TurnsFit, Unsettled, Resting
  <1>3. CASE TurnEnds
    <2>1. turn /\ Waiting = {} /\ turn' = FALSE /\ UNCHANGED <<call, done, loose>>
      BY <1>3 DEF TurnEnds, Stopped, table, history
    <2>2. ~loose => \A c \in Call : ~Unsettled(c)
      BY <2>1 DEF TurnsFit, Waiting
    <2>3. QED
      BY <2>1, <2>2 DEF TurnsFit, Unsettled
  <1>4. CASE ServeResume
    <2>1. UNCHANGED <<call, done, waiter, turn, loose, conns, cancel>> /\ line # <<>>
            /\ line[1].t = "resumed"
      BY <1>4, ServeResumeFacts DEF table, loop, links, history
    <2>2. CASE row = "paused"
      <3>1. 1 \in 1 .. Len(line)
        BY <2>1, LineFacts
      <3>2. ~loose => ~turn /\ Pending = {} /\ \A i \in 1 .. Len(line) : line[i].t # "finished"
        BY <2>1, <2>2, <3>1 DEF PausedFits
      <3>3. ~loose => \A c \in Call : ~Unsettled(c)
        BY <3>2 DEF Unsettled, Pending, CallsFit, HeardOf, Waits
      <3>4. QED
        BY <2>1, <3>2, <3>3 DEF TurnsFit, Unsettled
    <2>3. CASE row # "paused"
      <3>1. UNCHANGED row
        BY <1>4, <2>3, ServeResumeFacts
      <3>2. QED
        BY <2>1, <3>1 DEF TurnsFit, Unsettled, Resting
    <2>4. QED
      BY <2>2, <2>3
  <1>5. CASE \E c \in Call : Propose(c)
    <2>1. PICK c \in Call : Propose(c)
      BY <1>5
    <2>2. /\ turn /\ turn' = TRUE /\ UNCHANGED <<done, loose>> /\ waiter[c] = "no"
          /\ \A d \in Call \ {c} : CallStays(d) /\ waiter'[d] = waiter[d]
      BY <2>1, ProposeFacts DEF history, TypeOK
    <2>3. call[c].at = "no"
      BY <2>2 DEF CallsFit, CallFits
    <2>4. waiter'[c] = "waits" \/ CallStays(c)
      BY <2>1, ProposeFacts DEF TypeOK
    <2>5. QED
      BY <2>2, <2>3, <2>4 DEF TurnsFit, Unsettled, CallStays, Resting
  <1>6. QED
    BY <1>1, <1>2, <1>3, <1>4, <1>5, CallsRestStep

------------------------------------------------------------------------------
(* The line's steps: it moves, calls that end announce it, or one emit     *)
(* that is no finish comes behind.                                         *)
GrownByOne ==
  /\ line' \in Seq(Entry) /\ Grown /\ Len(line') = Len(line) + 1
  /\ \A i \in Newer : line'[i].t # "finished"

LEMMA OneMore ==
  ASSUME TypeOK, line' \in Seq(Entry), Grown, Len(line') = Len(line) + 1,
         line'[Len(line')].t # "finished"
  PROVE  GrownByOne
  BY LineFacts DEF GrownByOne, Newer

LEMMA LineStep ==
  ASSUME Base, [Next]_vars
  PROVE  \/ line' \in Seq(Entry) /\ \E first \in {0, 1} : Moved(first)
              /\ (first = 1 => Len(line) >= 1)
         \/ \E calls : \E binding \in BOOLEAN : Ends(calls, binding)
         \/ GrownByOne
  <1> USE DEF Base
  <1>1. CASE StartTurn
    <2>1. UNCHANGED line
      BY <1>1 DEF StartTurn, emitter
    <2>2. QED
      BY <2>1, StaysMoves
  <1>0. CASE TurnFails
    <2>1. CASE UNCHANGED line
      BY <2>1, StaysMoves
    <2>2. CASE ~UNCHANGED line
      BY <1>0, <2>2, TurnFailsFacts, EmitFacts, OneMore
    <2>3. QED
      BY <2>1, <2>2
  <1>2. CASE TurnPauses
    <2>1. CASE UNCHANGED line
      BY <2>1, StaysMoves
    <2>2. CASE ~UNCHANGED line
      BY <1>2, <2>2, TurnPausesFacts, EmitFacts, OneMore
    <2>3. QED
      BY <2>1, <2>2
  <1>3. CASE TurnEnds
    <2>1. UNCHANGED line
      BY <1>3 DEF TurnEnds, emitter
    <2>2. QED
      BY <2>1, StaysMoves
  <1>4. CASE \E c \in Call : Propose(c)
    <2>1. CASE UNCHANGED line
      BY <2>1, StaysMoves
    <2>2. CASE ~UNCHANGED line
      BY <1>4, <2>2, ProposeFacts, OneMore
    <2>3. QED
      BY <2>1, <2>2
  <1>5. CASE \E c \in Call : Hear(c)
    <2>1. UNCHANGED line
      BY <1>5 DEF Hear, emitter
    <2>2. QED
      BY <2>1, StaysMoves
  <1>6. CASE \E c \in Call : Denied(c)
    <2>1. CASE UNCHANGED line
      BY <2>1, StaysMoves
    <2>2. CASE ~UNCHANGED line
      BY <1>6, <2>2, DeniedFacts DEF TypeOK
    <2>3. QED
      BY <2>1, <2>2
  <1>7. CASE \E c \in Call : Expire(c)
    BY <1>7, ExpireEnds DEF TypeOK
  <1>8. CASE ServeProposal
    <2>1. line # <<>> /\ (line' = Tail(line) \/ line' = Dead(Tail(line)))
      BY <1>8, ServeProposalFacts
    <2>2. QED
      BY <2>1, TailMoves, DeadTailMoves, LineFacts
  <1>9. CASE ServeFinish
    <2>1. line # <<>> /\ (line' = Tail(line) \/ line' = Dead(Tail(line)))
      BY <1>9, ServeFinishFacts
    <2>2. QED
      BY <2>1, TailMoves, DeadTailMoves, LineFacts
  <1>10. CASE ServePause
    <2>1. line # <<>> /\ (line' = Tail(line) \/ line' = Dead(Tail(line)))
      BY <1>10, ServePauseFacts
    <2>2. QED
      BY <2>1, TailMoves, DeadTailMoves, LineFacts
  <1>11. CASE ServeResume
    <2>1. line # <<>> /\ (line' = Tail(line) \/ line' = Dead(Tail(line)))
      BY <1>11, ServeResumeFacts
    <2>2. QED
      BY <2>1, TailMoves, DeadTailMoves, LineFacts
  <1>12. CASE ServeEnd
    <2>1. line # <<>> /\ (line' = Tail(line) \/ line' = Dead(Tail(line)))
      BY <1>12, ServeEndFacts
    <2>2. QED
      BY <2>1, TailMoves, DeadTailMoves, LineFacts
  <1>13. CASE \E k \in Conn : Connect(k)
    <2>1. UNCHANGED line
      BY <1>13 DEF Connect, emitter
    <2>2. QED
      BY <2>1, StaysMoves
  <1>14. CASE \E k \in Conn : Leave(k)
    <2>1. UNCHANGED line
      BY <1>14 DEF Leave, emitter
    <2>2. QED
      BY <2>1, StaysMoves
  <1>15. CASE \E k \in Conn : LookForRuns(k)
    <2>1. UNCHANGED line
      BY <1>15 DEF LookForRuns, emitter
    <2>2. QED
      BY <2>1, StaysMoves
  <1>16. CASE \E k \in Conn : StopForPause(k)
    <2>1. UNCHANGED line
      BY <1>16 DEF StopForPause, emitter
    <2>2. QED
      BY <2>1, StaysMoves
  <1>17. CASE \E k \in Conn : CloseForPause(k)
    BY <1>17, CloseForPauseEnds DEF TypeOK
  <1>18. CASE \E k \in Conn : Pause(k)
    <2>1. CASE line' = Dead(line)
      BY <2>1, DeadMoves
    <2>2. CASE line' # Dead(line)
      <3>1. PICK k \in Conn : Pause(k)
        BY <1>18
      <3>2. /\ line' \in Seq(Entry) /\ Grown /\ Len(line') = Len(line) + 1
            /\ line'[Len(line')] = Emit("paused", k)
        BY <2>2, <3>1, PauseFacts
      <3>3. QED
        BY <3>2, EmitFacts, OneMore
    <2>3. QED
      BY <2>1, <2>2
  <1>19. CASE \E k \in Conn : CleanUp(k)
    BY <1>19, CleanUpEnds DEF TypeOK
  <1>20. CASE \E k \in Conn, c \in Call : Result(k, c)
    BY <1>20, ResultEnds DEF TypeOK
  <1>21. CASE \E k \in Conn, c \in Call : Deny(k, c)
    <2>1. UNCHANGED line
      BY <1>21 DEF Deny, emitter
    <2>2. QED
      BY <2>1, StaysMoves
  <1>22. CASE Resume
    BY <1>22, ResumeFacts, EmitFacts, OneMore
  <1>23. CASE CancelCalls
    BY <1>23, CancelCallsEnds DEF TypeOK
  <1>24. CASE CancelTurn
    <2>1. UNCHANGED line
      BY <1>24 DEF CancelTurn, emitter
    <2>2. QED
      BY <2>1, StaysMoves
  <1>25. CASE CancelRun
    BY <1>25, CancelRunFacts, EmitFacts, OneMore
  <1>26. CASE UNCHANGED vars
    <2>1. UNCHANGED line
      BY <1>26 DEF vars, emitter
    <2>2. QED
      BY <2>1, StaysMoves
  <1>27. QED
    BY <1>0, <1>1, <1>2, <1>3, <1>4, <1>5, <1>6, <1>7, <1>8, <1>9, <1>10, <1>11, <1>12, <1>13,
       <1>14,
       <1>15, <1>16, <1>17, <1>18, <1>19, <1>20, <1>21, <1>22, <1>23, <1>24, <1>25, <1>26
       DEF Next, Serve, Handlers

------------------------------------------------------------------------------
(* A paused run.  Most steps leave a paused run at rest.                   *)
PauseRests ==
  /\ loose => loose'
  /\ row' = "paused" =>
       /\ row = "paused" /\ (turn' => turn)
       /\ \A c \in Call : call'[c].at = "open" => call[c].at = "open"
       /\ \A k \in Conn : conns'[k] \in {"stopping", "hook", "pause"}
            => conns[k] \in {"stopping", "hook", "pause"}

LEMMA PauseRestsStep ==
  ASSUME Base, [Next]_vars
  PROVE  \/ PauseRests \/ \E c \in Call : Propose(c)
         \/ row = "running" /\ TurnPauses
         \/ TurnFails
         \/ row = "running" /\ \E k \in Conn : Pause(k)
  <1> USE DEF Base
  <1>1. CASE StartTurn
    BY <1>1 DEF StartTurn, Stopped, PauseRests, table, loop, emitter, links, history, TypeOK
  <1>2. CASE TurnPauses
    BY <1>2, TurnPausesFacts DEF PauseRests, table, loop, emitter, links, history, TypeOK
  <1>3. CASE TurnEnds
    BY <1>3 DEF TurnEnds, Stopped, PauseRests, table, loop, emitter, links, history, TypeOK
  <1>4. CASE \E c \in Call : Hear(c)
    BY <1>4, HearFacts DEF PauseRests, table, loop, emitter, links, history, TypeOK
  <1>5. CASE \E c \in Call : Denied(c)
    <2>1. UNCHANGED conns
      BY <1>5, DeniedFacts DEF links
    <2>2. CASE \E c \in Call : Ends({c}, bound)
      BY <2>1, <2>2, UnsettledEnds, CalmEnds DEF PauseRests
    <2>3. CASE CallsStay /\ UNCHANGED <<turn, loose, row>>
      BY <2>1, <2>3 DEF PauseRests, CallsStay, CallStays
    <2>4. QED
      BY <1>5, <2>2, <2>3, DeniedFacts DEF loop, history
  <1>6. CASE \E c \in Call : Expire(c)
    <2>1. PICK calls, binding : Ends(calls, binding)
      BY <1>6, ExpireEnds
    <2>2. \A k \in Conn : conns'[k] \in {"stopping", "hook", "pause"}
            => conns[k] \in {"stopping", "hook", "pause"}
      BY <1>6, ExpireEnds DEF links, TypeOK
    <2>3. QED
      BY <2>1, <2>2, UnsettledEnds, CalmEnds DEF PauseRests
  <1>7. CASE ServeProposal
    BY <1>7, ServeProposalFacts DEF PauseRests, table, loop, emitter, links, history, TypeOK,
       CallStays
  <1>8. CASE ServeFinish
    BY <1>8, ServeFinishFacts DEF PauseRests, table, loop, emitter, links, history, TypeOK
  <1>9. CASE ServePause
    <2>1. PICK k \in Conn \union {None} :
            /\ conns' = [j \in Conn |-> IF j = k THEN "paused" ELSE conns[j]]
            /\ UNCHANGED <<table, loop, row, history>>
      BY <1>9, ServePauseFacts
    <2>2. QED
      BY <2>1 DEF PauseRests, table, loop, emitter, links, history, TypeOK
  <1>10. CASE ServeResume
    BY <1>10, ServeResumeFacts DEF PauseRests, table, loop, emitter, links, history, TypeOK
  <1>11. CASE ServeEnd
    BY <1>11, ServeEndFacts DEF PauseRests, table, loop, emitter, links, history, TypeOK
  <1>12. CASE \E k \in Conn : Connect(k)
    <2>1. PICK k \in Conn : /\ (loose => loose') /\ UNCHANGED <<call, turn, row>>
                            /\ conns' = [j \in Conn |-> IF j = k THEN "live"
                                                        ELSE IF j = reg THEN "left" ELSE conns[j]]
      BY <1>12 DEF Connect, table, loop, emitter
    <2>2. QED
      BY <2>1 DEF PauseRests
  <1>13. CASE \E k \in Conn : Leave(k)
    BY <1>13, LeaveFacts DEF PauseRests, table, loop, emitter, links, history, TypeOK,
       CallsStay, CallStays
  <1>14. CASE \E k \in Conn : LookForRuns(k)
    BY <1>14 DEF LookForRuns, Stopped, PauseRests, table, loop, emitter, links, history, TypeOK
  <1>15. CASE \E k \in Conn : StopForPause(k)
    BY <1>15 DEF StopForPause, Stopped, PauseRests, table, loop, emitter, links, history, TypeOK
  <1>16. CASE \E k \in Conn : CloseForPause(k)
    <2>1. PICK calls, binding : Ends(calls, binding)
      BY <1>16, CloseForPauseEnds
    <2>2. \A k \in Conn : conns'[k] \in {"stopping", "hook", "pause"}
            => conns[k] \in {"stopping", "hook", "pause"}
      BY <1>16, CloseForPauseEnds DEF links, TypeOK
    <2>3. QED
      BY <2>1, <2>2, UnsettledEnds, CalmEnds DEF PauseRests
  <1>17. CASE \E k \in Conn : Pause(k)
    BY <1>17, PauseFacts DEF PauseRests, table, loop, emitter, links, history, TypeOK
  <1>18. CASE \E k \in Conn : CleanUp(k)
    <2>1. PICK calls, binding : Ends(calls, binding)
      BY <1>18, CleanUpEnds
    <2>2. \A k \in Conn : conns'[k] \in {"stopping", "hook", "pause"}
            => conns[k] \in {"stopping", "hook", "pause"}
      BY <1>18, CleanUpEnds DEF links, TypeOK
    <2>3. QED
      BY <2>1, <2>2, UnsettledEnds, CalmEnds DEF PauseRests
  <1>19. CASE \E k \in Conn, c \in Call : Result(k, c)
    <2>1. PICK calls, binding : Ends(calls, binding)
      BY <1>19, ResultEnds
    <2>2. \A k \in Conn : conns'[k] \in {"stopping", "hook", "pause"}
            => conns[k] \in {"stopping", "hook", "pause"}
      BY <1>19, ResultEnds DEF links, TypeOK
    <2>3. QED
      BY <2>1, <2>2, UnsettledEnds, CalmEnds DEF PauseRests
  <1>20. CASE \E k \in Conn, c \in Call : Deny(k, c)
    BY <1>20, DenyFacts DEF PauseRests, table, loop, emitter, links, history, TypeOK,
       CallsStay, CallStays
  <1>21. CASE Resume
    BY <1>21, ResumeFacts DEF PauseRests, table, loop, emitter, links, history, TypeOK
  <1>22. CASE CancelCalls
    <2>1. PICK calls, binding : Ends(calls, binding)
      BY <1>22, CancelCallsEnds
    <2>2. \A k \in Conn : conns'[k] \in {"stopping", "hook", "pause"}
            => conns[k] \in {"stopping", "hook", "pause"}
      BY <1>22, CancelCallsEnds DEF links, TypeOK
    <2>3. QED
      BY <2>1, <2>2, UnsettledEnds, CalmEnds DEF PauseRests
  <1>23. CASE CancelTurn
    BY <1>23 DEF CancelTurn, Stopped, PauseRests, table, loop, emitter, links, history, TypeOK
  <1>24. CASE CancelRun
    BY <1>24, CancelRunFacts DEF PauseRests, table, loop, emitter, links, history, TypeOK
  <1>25. CASE UNCHANGED vars
    BY <1>25 DEF vars, PauseRests, table, loop, emitter, links, history
  <1>26. QED
    BY <1>1, <1>2, <1>3, <1>4, <1>5, <1>6, <1>7, <1>8, <1>9, <1>10, <1>11, <1>12, <1>13, <1>14,
       <1>15, <1>16, <1>17, <1>18, <1>19, <1>20, <1>21, <1>22, <1>23, <1>24, <1>25 DEF Next,
       Serve, Handlers

LEMMA PausedMoves ==
  ASSUME TypeOK, PausedFits, PauseRests, line' \in Seq(Entry), NEW first \in {0, 1},
         Moved(first),
         first = 1 => Len(line) >= 1
  PROVE  PausedFits'
  <1> SUFFICES ASSUME ~loose', row' = "paused" PROVE PausedFits'
    BY DEF PausedFits
  <1>1. /\ Len(line) \in Nat /\ Len(line') \in Nat /\ Len(line') = Len(line) - first
        /\ \A i \in 1 .. Len(line') : line'[i].t = line[i + first].t
    BY LineFacts, LenProperties DEF Moved
  <1>2. \A i \in 1 .. Len(line') : i + first \in 1 .. Len(line)
    BY <1>1
  <1>3. ~loose /\ row = "paused" /\ ~turn' /\ Pending' = {}
    BY DEF PausedFits, PauseRests, Pending
  <1>4. ASSUME NEW i \in 1 .. Len(line'), NEW j \in 1 .. Len(line'),
               line'[i].t = "finished", line'[j].t = "resumed"
        PROVE  i < j
    <2>1. /\ i + first \in 1 .. Len(line) /\ j + first \in 1 .. Len(line)
          /\ line[i + first].t = "finished" /\ line[j + first].t = "resumed"
      BY <1>1, <1>2, <1>4
    <2>2. i + first < j + first
      BY <1>3, <2>1 DEF PausedFits
    <2>3. QED
      BY <2>2, <1>1
  <1>5. ASSUME NEW k \in Conn, conns'[k] \in {"stopping", "hook", "pause"}
        PROVE  \A i \in 1 .. Len(line') : line'[i].t # "finished"
    <2>1. conns[k] \in {"stopping", "hook", "pause"}
      BY <1>5 DEF PauseRests
    <2>2. \A i \in 1 .. Len(line) : line[i].t # "finished"
      BY <1>3, <2>1 DEF PausedFits
    <2>3. QED
      BY <1>1, <1>2, <2>2
  <1>6. QED
    BY <1>3, <1>4, <1>5 DEF PausedFits

LEMMA PausedGrows ==
  ASSUME TypeOK, PausedFits, PauseRests, GrownByOne
  PROVE  PausedFits'
  <1> SUFFICES ASSUME ~loose', row' = "paused" PROVE PausedFits'
    BY DEF PausedFits
  <1>1. /\ Len(line) \in Nat /\ \A i \in 1 .. Len(line) : line'[i] = line[i]
        /\ \A i \in 1 .. Len(line') : i \in 1 .. Len(line) \/ (i \in Newer /\ i > Len(line))
        /\ \A i \in Newer : line'[i].t # "finished"
        /\ \A i, j \in Newer : i = j
    BY LineFacts, GrownWaits DEF Grown, GrownByOne, Newer
  <1>2. ~loose /\ row = "paused" /\ ~turn' /\ Pending' = {}
    BY DEF PausedFits, PauseRests, Pending
  <1>3. \A i, j \in 1 .. Len(line') : line'[i].t = "finished" /\ line'[j].t = "resumed" => i < j
    BY <1>1, <1>2 DEF PausedFits
  <1>4. \A k \in Conn : conns'[k] \in {"stopping", "hook", "pause"}
          => \A i \in 1 .. Len(line') : line'[i].t # "finished"
    BY <1>1, <1>2 DEF PausedFits, PauseRests
  <1>5. QED
    BY <1>2, <1>3, <1>4 DEF PausedFits

(* No call of a paused run is left to end.                                 *)
LEMMA PausedEnds ==
  ASSUME TypeOK, PausedFits, PauseRests, NEW calls, NEW binding \in BOOLEAN,
         Ends(calls, binding)
  PROVE  PausedFits'
  <1> SUFFICES ASSUME ~loose', row' = "paused" PROVE PausedFits'
    BY DEF PausedFits
  <1>1. calls = {}
    BY DEF PausedFits, PauseRests, Ends
  <1>2. line' \in Seq(Entry) /\ Grown /\ Newer = {}
    BY <1>1 DEF Ends, Announced
  <1>3. Len(line') = Len(line) /\ Len(line) \in Nat
    <2>1. Len(line) \in Nat /\ Len(line') \in Nat /\ Len(line') >= Len(line)
      BY <1>2, LineFacts, LenProperties DEF Grown
    <2>2. Len(line') > Len(line) => Len(line') \in Newer
      BY <2>1 DEF Newer
    <2>3. QED
      BY <1>2, <2>1, <2>2
  <1>4. Moved(0)
    BY <1>2, <1>3 DEF Moved, Grown
  <1>5. QED
    BY <1>2, <1>4, PausedMoves

(* The run is paused where nothing is open, and nothing was in the line    *)
(* that a resume could overtake.                                           *)
LEMMA PausedNow ==
  ASSUME Base, GrownByOne, row = "running", line'[Len(line')].t = "paused",
         loose => loose', UNCHANGED call, ~turn', Pending = {} \/ loose',
         \/ \A k \in Conn : conns'[k] \notin {"stopping", "hook", "pause"}
         \/ \A i \in 1 .. Len(line) : line[i].t # "finished"
         \/ loose'
  PROVE  PausedFits'
  <1> USE DEF Base
  <1> SUFFICES ASSUME ~loose' PROVE PausedFits'
    BY DEF PausedFits
  <1>1. /\ Len(line) \in Nat /\ \A i \in 1 .. Len(line) : line'[i] = line[i]
        /\ \A i \in 1 .. Len(line') : i \in 1 .. Len(line) \/ (i \in Newer /\ i > Len(line))
        /\ \A i \in Newer : line'[i].t = "paused"
    BY LineFacts, GrownWaits DEF Grown, GrownByOne, Newer
  <1>2. \A i \in 1 .. Len(line) : line[i].t # "resumed"
    BY DEF LineFits, LineHolds
  <1>3. \A i \in 1 .. Len(line') : line'[i].t # "resumed"
    BY <1>1, <1>2
  <1>4. (\A k \in Conn : conns'[k] \notin {"stopping", "hook", "pause"})
          \/ \A i \in 1 .. Len(line') : line'[i].t # "finished"
    BY <1>1
  <1>5. Pending' = {}
    BY DEF Pending
  <1>6. QED
    BY <1>3, <1>4, <1>5 DEF PausedFits

(* A batch that is done leaves nothing behind.                             *)
LEMMA NothingLeft ==
  ASSUME Base, \A c \in Call : ~Unsettled(c)
  PROVE  Pending = {} /\ \A i \in 1 .. Len(line) : line[i].t # "finished"
  <1> USE DEF Base
  <1>1. \A c \in Call : ~Unsettled(c) => call[c].at # "open"
    BY DEF Unsettled, CallsFit, CallFits
  <1>2. ASSUME NEW i \in 1 .. Len(line), line[i].t = "finished" PROVE \E c \in Call : Unsettled(c)
    <2>1. line[i].of \in Call /\ Waits("finished", line[i].of, i)
      BY <1>2, LineFacts, EntryFacts DEF Waits
    <2>2. QED
      BY <2>1 DEF CallsFit, CallFits, Unsettled
  <1>3. QED
    BY <1>1, <1>2 DEF Pending

LEMMA NothingWaits ==
  ASSUME Base, TurnsFit, ~loose, turn, Waiting = {}
  PROVE  Pending = {} /\ \A i \in 1 .. Len(line) : line[i].t # "finished"
  <1>1. \A c \in Call : ~Unsettled(c)
    BY DEF TurnsFit, Waiting
  <1>2. QED
    BY <1>1, NothingLeft

LEMMA PausedStep ==
  ASSUME Base, OneConnection, TurnsFit, PausedFits, [Next]_vars
  PROVE  PausedFits'
  <1> USE DEF Base
  <1>1. CASE PauseRests
    BY <1>1, LineStep, PausedMoves, PausedGrows, PausedEnds
  <1>2. CASE \E c \in Call : Propose(c)
    <2>1. turn /\ UNCHANGED <<row, loose>>
      BY <1>2, ProposeFacts DEF history
    <2>2. QED
      BY <2>1 DEF PausedFits
  <1>3. CASE row = "running" /\ TurnPauses
    <2>1. /\ GrownByOne /\ line'[Len(line')].t = "paused" /\ UNCHANGED <<call, loose>> /\ ~turn'
          /\ turn /\ Waiting = {}
      BY <1>3, TurnPausesFacts, EmitFacts, OneMore DEF table, history
    <2>2. ~loose => Pending = {} /\ \A i \in 1 .. Len(line) : line[i].t # "finished"
      BY <2>1, NothingWaits
    <2>3. QED
      BY <1>3, <2>1, <2>2, PausedNow
  <1>4. CASE row = "running" /\ \E k \in Conn : Pause(k)
    <2>1. PICK k \in Conn : Pause(k)
      BY <1>4
    <2>2. /\ GrownByOne /\ line'[Len(line')].t = "paused" /\ UNCHANGED <<call, turn, loose>>
          /\ conns[k] = "pause" /\ conns' = [conns EXCEPT ![k] = "pausing"]
      BY <1>4, <2>1, PauseFacts, EmitFacts, OneMore DEF table, loop, history
    <2>3. CASE loose
      BY <2>2, <2>3 DEF PausedFits
    <2>4. CASE ~loose
      <3>1. ~turn /\ Pending = {} /\ \A j \in Conn : j # k => conns[j] \in {"new", "done"}
        BY <2>2, <2>4 DEF OneConnection
      <3>2. \A j \in Conn : conns'[j] \notin {"stopping", "hook", "pause"}
        BY <2>2, <3>1 DEF TypeOK
      <3>3. QED
        BY <1>4, <2>2, <3>1, <3>2, PausedNow
    <2>5. QED
      BY <2>3, <2>4
  <1>5. CASE TurnFails
    <2>1. /\ turn /\ ~turn' /\ UNCHANGED call /\ (row = "over" => row' = "over")
          /\ loose' = (loose \/ Untold # {})
      BY <1>5, TurnFailsFacts DEF table
    <2>2. SUFFICES ASSUME ~loose', row' = "paused" PROVE PausedFits'
      BY DEF PausedFits
    <2>3. ~loose /\ Untold = {}
      BY <2>1, <2>2
    <2>4. row = "running"
      BY <2>1, <2>2, <2>3 DEF PausedFits, TypeOK
    <2>5. GrownByOne /\ line'[Len(line')].t = "paused"
      BY <1>5, <2>4, TurnFailsFacts, EmitFacts, OneMore
    <2>6. Pending = {} /\ \A i \in 1 .. Len(line) : line[i].t # "finished"
      BY <2>3, NothingLeft DEF Untold, Unsettled
    <2>7. QED
      BY <2>1, <2>3, <2>4, <2>5, <2>6, PausedNow
  <1>6. QED
    BY <1>1, <1>2, <1>3, <1>4, <1>5, PauseRestsStep

------------------------------------------------------------------------------
(* The stream.                                                             *)
LEMMA WillMove ==
  ASSUME TypeOK, line' \in Seq(Entry), NEW first \in {0, 1}, Moved(first), NEW c, NEW kind,
         first = 1 => Len(line) >= 1,
           \A i \in 1 .. Len(line') : line'[i].live = line[i + first].live
  PROVE  /\ \A i \in 1 .. Len(line') : i + first \in 1 .. Len(line)
              /\ (WillBe(kind, c, i)' <=> WillBe(kind, c, i + first))
         /\ \A i \in 1 .. Len(line) : WillBe(kind, c, i) =>
              (i = 1 /\ first = 1)
                \/ (i - first \in 1 .. Len(line') /\ WillBe(kind, c, i - first)')
         /\ Len(line) \in Nat /\ Len(line') \in Nat
  <1>1. /\ Len(line) \in Nat /\ Len(line') \in Nat /\ Len(line') = Len(line) - first
        /\ \A i \in 1 .. Len(line') : line'[i].t = line[i + first].t
             /\ line'[i].of = line[i + first].of
    BY LineFacts, LenProperties DEF Moved
  <1>2. \A i \in 1 .. Len(line') : i + first \in 1 .. Len(line)
          /\ (WillBe(kind, c, i)' <=> WillBe(kind, c, i + first))
    BY <1>1 DEF WillBe, Waits
  <1>3. ASSUME NEW i \in 1 .. Len(line), WillBe(kind, c, i), ~(i = 1 /\ first = 1)
        PROVE  i - first \in 1 .. Len(line') /\ WillBe(kind, c, i - first)'
    <2>1. i - first \in 1 .. Len(line') /\ (i - first) + first = i
      BY <1>1, <1>3
    <2>2. QED
      BY <1>2, <1>3, <2>1
  <1>4. QED
    BY <1>1, <1>2, <1>3

LEMMA SameStream ==
  ASSUME UNCHANGED about, NEW c
  PROVE  (Proposed(c)' <=> Proposed(c)) /\ (Finished(c)' <=> Finished(c))
  BY DEF Proposed, Finished

LEMMA StreamMoves ==
  ASSUME TypeOK, StreamHolds, line' \in Seq(Entry), NEW first \in {0, 1}, Moved(first),
         \A i \in 1 .. Len(line') : line'[i].live = line[i + first].live,
         first = 1 => Len(line) >= 1 /\ ~(line[1].t = "finished" /\ line[1].live),
         UNCHANGED about, bound => bound',
         \A c \in Call : call[c].at = "open" => call'[c].at = "open" \/ ~OnStream(c)'
  PROVE  StreamHolds'
  <1>1. \A c \in Call : (Proposed(c)' <=> Proposed(c)) /\ (Finished(c)' <=> Finished(c))
    BY SameStream
  <1>2. /\ Len(line) \in Nat /\ Len(line') \in Nat /\ Len(line') = Len(line) - first
        /\ \A i \in 1 .. Len(line') : i + first \in 1 .. Len(line)
        /\ \A i \in 1 .. Len(line') : line'[i].t = line[i + first].t
    BY LineFacts, LenProperties DEF Moved
  <1>3. ASSUME NEW c \in Call
        PROVE  /\ \A i \in 1 .. Len(line') : WillBe("proposed", c, i)'
                    => WillBe("proposed", c, i + first)
               /\ \A i \in 1 .. Len(line) : WillBe("finished", c, i) =>
                    i - first \in 1 .. Len(line') /\ WillBe("finished", c, i - first)'
    <2>1. ~(first = 1 /\ WillBe("finished", c, 1))
      BY DEF WillBe, Waits
    <2>2. QED
      BY <2>1, WillMove
  <1>4. \A c \in Call : OnStream(c)' => OnStream(c)
    BY <1>1, <1>2, <1>3 DEF OnStream
  <1>5. CallsFinish'
    <2> SUFFICES ASSUME NEW c \in Call, OnStream(c)'
                 PROVE  Finished(c)' \/ call'[c].at = "open"
                          \/ \E i \in 1 .. Len(line') : WillBe("finished", c, i)'
      BY DEF CallsFinish
    <2>1. Finished(c) \/ call[c].at = "open"
            \/ \E i \in 1 .. Len(line) : WillBe("finished", c, i)
      BY <1>4 DEF StreamHolds, CallsFinish
    <2>2. QED
      BY <1>1, <1>3, <2>1
  <1>6. PausesFinish'
    <2> SUFFICES ASSUME NEW i \in 1 .. Len(line'), line'[i].t = "paused", NEW c \in Call
                 PROVE  IF line'[i].live
                          THEN OnStream(c)' => Finished(c)'
                            \/ \E j \in 1 .. i : WillBe("finished", c, j)'
                          ELSE Proposed(c)' => Finished(c)'
      BY DEF PausesFinish
    <2>1. /\ i + first \in 1 .. Len(line) /\ line[i + first].t = "paused"
          /\ line'[i].live = line[i + first].live
      BY <1>2
    <2>2. IF line[i + first].live
            THEN OnStream(c) => Finished(c)
              \/ \E j \in 1 .. i + first : WillBe("finished", c, j)
            ELSE Proposed(c) => Finished(c)
      BY <2>1 DEF StreamHolds, PausesFinish
    <2>3. CASE line'[i].live /\ OnStream(c)' /\ ~Finished(c)
      <3>1. PICK j \in 1 .. i + first : WillBe("finished", c, j)
        BY <1>4, <2>1, <2>2, <2>3
      <3>2. j \in 1 .. Len(line) /\ j - first <= i
        BY <1>2, <2>1
      <3>3. j - first \in 1 .. i /\ WillBe("finished", c, j - first)'
        BY <1>2, <1>3, <3>1, <3>2
      <3>4. QED
        BY <2>3, <3>3
    <2>4. QED
      BY <1>1, <2>1, <2>2, <2>3
  <1>7. ~bound' => AllFinished'
    BY <1>1 DEF StreamHolds, AllFinished
  <1>8. QED
    BY <1>5, <1>6, <1>7 DEF StreamHolds

LEMMA StreamStays ==
  ASSUME TypeOK, StreamHolds, UNCHANGED <<line, about>>, bound => bound',
         \A c \in Call : call[c].at = "open" => call'[c].at = "open"
  PROVE  StreamHolds'
  <1>1. line' \in Seq(Entry) /\ Moved(0) /\ 0 \in {0, 1}
          /\ \A i \in 1 .. Len(line') : line'[i].live = line[i + 0].live
    BY StaysMoves, LineFacts
  <1>2. QED
    BY <1>1, StreamMoves

(* The run is released, and what waits is told to give up.                 *)
LEMMA StreamReleased ==
  ASSUME TypeOK, AllFinished, UNCHANGED about, \A i \in 1 .. Len(line') : ~line'[i].live
  PROVE  StreamHolds'
  <1>1. AllFinished'
    BY SameStream DEF AllFinished
  <1>2. \A c \in Call, kind \in {"proposed",
                                 "finished"} : \A i \in 1 .. Len(line') : ~WillBe(kind, c, i)'
    BY DEF WillBe
  <1>3. \A c \in Call : OnStream(c)' => Proposed(c)'
    BY <1>2 DEF OnStream
  <1>4. QED
    BY <1>1, <1>3 DEF StreamHolds, CallsFinish, PausesFinish, AllFinished

LEMMA WillGrow ==
  ASSUME TypeOK, line' \in Seq(Entry), Grown, NEW c, NEW kind
  PROVE  /\ \A i \in 1 .. Len(line) : i \in 1 .. Len(line') /\ line'[i] = line[i]
                                     /\ (WillBe(kind, c, i)' <=> WillBe(kind, c, i))
         /\ \A i \in 1 .. Len(line') : i \in 1 .. Len(line) \/ (i \in Newer /\ i > Len(line))
         /\ \A i \in Newer : i \in 1 .. Len(line')
         /\ Len(line) \in Nat
  BY GrownWaits DEF Grown, WillBe, Waits

(* Somebody comes behind the line, or more; if a proposal comes, no pause  *)
(* waits.                                                                  *)
LEMMA StreamGrows ==
  ASSUME TypeOK, StreamHolds, line' \in Seq(Entry), Grown,
         \A i \in Newer : line'[i].t # "paused",
         UNCHANGED about, bound => bound',
         \A c \in Call : OnStream(c)' =>
           OnStream(c) \/ (call'[c].at = "open"
                           /\ \A i \in 1 .. Len(line) : line[i].t # "paused"),
         \A c \in Call : OnStream(c) /\ call[c].at = "open" =>
           call'[c].at = "open" \/ Finished(c) \/ \E i \in Newer : WillBe("finished", c, i)'
  PROVE  StreamHolds'
  <1>1. \A c \in Call : (Proposed(c)' <=> Proposed(c)) /\ (Finished(c)' <=> Finished(c))
    BY SameStream
  <1>2. /\ \A i \in 1 .. Len(line) : i \in 1 .. Len(line') /\ line'[i] = line[i]
        /\ \A c \in Call : \A i \in 1 .. Len(line) : WillBe("finished", c, i)
             => WillBe("finished", c, i)'
        /\ \A i \in 1 .. Len(line') : i \in 1 .. Len(line) \/ i \in Newer
        /\ \A i \in Newer : i \in 1 .. Len(line')
        /\ Len(line) \in Nat
    BY WillGrow
  <1>3. CallsFinish'
    <2> SUFFICES ASSUME NEW c \in Call, OnStream(c)', call'[c].at # "open", ~Finished(c)'
                 PROVE  \E i \in 1 .. Len(line') : WillBe("finished", c, i)'
      BY DEF CallsFinish
    <2>1. OnStream(c) /\ ~Finished(c)
      BY <1>1
    <2>2. CASE call[c].at = "open"
      BY <1>2, <2>1, <2>2
    <2>3. CASE call[c].at # "open"
      BY <1>2, <2>1, <2>3 DEF StreamHolds, CallsFinish
    <2>4. QED
      BY <2>2, <2>3
  <1>4. PausesFinish'
    <2> SUFFICES ASSUME NEW i \in 1 .. Len(line'), line'[i].t = "paused", NEW c \in Call
                 PROVE  IF line'[i].live
                          THEN OnStream(c)' => Finished(c)'
                            \/ \E j \in 1 .. i : WillBe("finished", c, j)'
                          ELSE Proposed(c)' => Finished(c)'
      BY DEF PausesFinish
    <2>1. i \in 1 .. Len(line) /\ line'[i] = line[i]
      BY <1>2
    <2>2. IF line[i].live
            THEN OnStream(c) => Finished(c) \/ \E j \in 1 .. i : WillBe("finished", c, j)
            ELSE Proposed(c) => Finished(c)
      BY <2>1 DEF StreamHolds, PausesFinish
    <2>3. OnStream(c)' => OnStream(c)
      BY <2>1
    <2>4. \A j \in 1 .. i : WillBe("finished", c, j) => WillBe("finished", c, j)'
      BY <1>2, <2>1
    <2>5. QED
      BY <1>1, <2>1, <2>2, <2>3, <2>4
  <1>5. ~bound' => AllFinished'
    BY <1>1 DEF StreamHolds, AllFinished
  <1>6. QED
    BY <1>3, <1>4, <1>5 DEF StreamHolds

LEMMA SameOnStream ==
  ASSUME TypeOK, line' \in Seq(Entry), Grown, \A i \in Newer : line'[i].t # "proposed",
         UNCHANGED about,
         NEW c, OnStream(c)'
  PROVE  OnStream(c)
  <1>1. \A i \in 1 .. Len(line') : WillBe("proposed", c, i)' => i \in 1 .. Len(line)
          /\ WillBe("proposed", c, i)
    <2>1. \A i \in Newer : ~WillBe("proposed", c, i)'
      BY DEF WillBe, Waits
    <2>2. QED
      BY <2>1, WillGrow
  <1>2. QED
    BY <1>1, SameStream DEF OnStream

LEMMA StreamEnds ==
  ASSUME Base, ~loose, StreamHolds, NEW calls, NEW binding \in BOOLEAN, Ends(calls, binding),
         bound => binding, bound' = binding
  PROVE  StreamHolds'
  <1> USE DEF Base
  <1>1. /\ line' \in Seq(Entry) /\ Grown /\ UNCHANGED about
        /\ \A i \in Newer : line'[i].t = "finished" /\ line'[i].live = binding
        /\ \A c \in calls : \E i \in Newer : line'[i].of = c
        /\ \A c \in Call \ calls : call'[c].at = call[c].at
    BY DEF Ends, Announced, CallStays, stream
  <1>2. \A c \in Call : OnStream(c)' => OnStream(c)
    BY <1>1, SameOnStream
  <1>3. ASSUME NEW c \in Call, OnStream(c), call[c].at = "open", call'[c].at # "open",
               ~Finished(c)
        PROVE  \E i \in Newer : WillBe("finished", c, i)'
    <2>1. c \in calls
      BY <1>1, <1>3
    <2>2. bound
      <3>1. ASSUME ~bound PROVE OnStream(c) => Proposed(c)
        BY <3>1 DEF OnStream, WillBe, LineFits, LineHolds
      <3>2. QED
        BY <1>3, <3>1 DEF StreamHolds, AllFinished
    <2>3. QED
      BY <1>1, <2>1, <2>2 DEF WillBe, Waits
  <1>4. QED
    BY <1>1, <1>2, <1>3, StreamGrows

LEMMA StreamPauses ==
  ASSUME Base, ~loose, StreamHolds, Pending = {}, row = "running",
         line' \in Seq(Entry), Grown, Len(line') = Len(line) + 1,
           line'[Len(line')].t = "paused",
         line'[Len(line')].live = bound,
         UNCHANGED <<about, call, bound>>
  PROVE  StreamHolds'
  <1> USE DEF Base
  <1>1. \A c \in Call : (Proposed(c)' <=> Proposed(c)) /\ (Finished(c)' <=> Finished(c))
    BY SameStream
  <1>2. PICK n \in Nat : n = Len(line') /\ n = Len(line) + 1
    BY LineFacts
  <1>3. /\ Len(line) \in Nat /\ line'[n].t = "paused" /\ line'[n].live /\ Newer = {n}
        /\ \A i \in 1 .. Len(line) : line[i].t # "paused" /\ line'[i] = line[i]
    <2>1. bound = TRUE /\ \A i \in 1 .. Len(line) : line[i].t # "paused" /\ line'[i] = line[i]
      BY DEF LineFits, LineHolds, Grown, TypeOK
    <2>2. line'[n].t = "paused" /\ line'[n].live
      BY <1>2, <2>1
    <2>3. Len(line) \in Nat /\ Newer = {n}
      BY <1>2, LineFacts DEF Newer
    <2>4. QED
      BY <2>1, <2>2, <2>3
  <1>4. \A c \in Call : \A i \in 1 .. Len(line) : WillBe("finished", c, i)
          => WillBe("finished", c, i)'
    BY WillGrow
  <1>5. \A c \in Call : OnStream(c)' => OnStream(c)
    BY <1>3, SameOnStream
  <1>6. \A c \in Call : OnStream(c)' => Finished(c)'
          \/ \E i \in 1 .. Len(line) : WillBe("finished", c, i)'
    BY <1>1, <1>4, <1>5 DEF StreamHolds, CallsFinish, Pending
  <1>7. CallsFinish'
    BY <1>2, <1>6 DEF CallsFinish
  <1>8. PausesFinish'
    <2> SUFFICES ASSUME NEW i \in 1 .. Len(line'), line'[i].t = "paused", NEW c \in Call
                 PROVE  line'[i].live
                          /\ (OnStream(c)' => Finished(c)'
                              \/ \E j \in 1 .. i : WillBe("finished", c, j)')
      BY DEF PausesFinish
    <2>1. i = n
      BY <1>2, <1>3
    <2>2. QED
      BY <1>2, <1>3, <1>6, <2>1
  <1>9. QED
    BY <1>1, <1>7, <1>8 DEF StreamHolds, AllFinished

LEMMA PausedBehindFinishes ==
  ASSUME TypeOK, PausesFinish, line # <<>>, line[1].t = "paused"
  PROVE  AllFinished
  <1>1. 1 \in 1 .. Len(line)
    BY LineFacts
  <1>2. \A c \in Call : \A j \in 1 .. 1 : ~WillBe("finished", c, j)
    BY DEF WillBe, Waits
  <1>3. QED
    BY <1>1, <1>2 DEF PausesFinish, AllFinished, OnStream

LEMMA ServePauseStream ==
  ASSUME TypeOK, StreamHolds, ServePause
  PROVE  StreamHolds'
  <1>1. line # <<>> /\ line[1].t = "paused" /\ line' = Dead(Tail(line)) /\ UNCHANGED about
    BY ServePauseFacts
  <1>2. \A i \in 1 .. Len(line') : ~line'[i].live
    BY <1>1, DeadTailMoves
  <1>3. QED
    BY <1>1, <1>2, PausedBehindFinishes, StreamReleased DEF StreamHolds

LEMMA PauseStream ==
  ASSUME Base, OneConnection, PausedFits, StreamHolds, ~loose, row # "over", NEW k \in Conn,
         Pause(k)
  PROVE  StreamHolds'
  <1> USE DEF Base
  <1>1. conns[k] = "pause" /\ UNCHANGED <<call, about>> /\ Pending = {}
    BY PauseFacts DEF OneConnection, table, stream
  <1>2. CASE row = "running"
    BY <1>1, <1>2, PauseFacts, EmitFacts, StreamPauses
  <1>3. CASE row # "running"
    <2>1. line' = Dead(line) /\ row = "paused"
      BY <1>3, PauseFacts DEF TypeOK
    <2>2. \A i \in 1 .. Len(line) : line[i].t # "finished"
      BY <1>1, <2>1 DEF PausedFits
    <2>3. AllFinished
      BY <1>1, <2>2 DEF StreamHolds, CallsFinish, AllFinished, OnStream, WillBe, Waits, Pending
    <2>4. \A i \in 1 .. Len(line') : ~line'[i].live
      BY <2>1, DeadMoves
    <2>5. QED
      BY <1>1, <2>3, <2>4, StreamReleased
  <1>4. QED
    BY <1>2, <1>3

LEMMA TurnPausesStream ==
  ASSUME Base, TurnsFit, StreamHolds, ~loose, TurnPauses
  PROVE  StreamHolds'
  <1> USE DEF Base
  <1>1. turn /\ Waiting = {} /\ UNCHANGED <<call, about, bound>>
    BY TurnPausesFacts DEF table, stream
  <1>2. CASE row = "running"
    <2>1. Pending = {}
      BY <1>1, NothingWaits
    <2>2. QED
      BY <1>1, <1>2, <2>1, TurnPausesFacts, EmitFacts, StreamPauses
  <1>3. CASE row # "running"
    BY <1>1, <1>3, TurnPausesFacts, StreamStays
  <1>4. QED
    BY <1>2, <1>3

LEMMA TurnFailsStream ==
  ASSUME Base, PausedFits, StreamHolds, ~loose', row # "over", TurnFails
  PROVE  StreamHolds'
  <1> USE DEF Base
  <1>1. turn /\ UNCHANGED <<call, about, bound>> /\ loose' = (loose \/ Untold # {})
    BY TurnFailsFacts DEF table, stream
  <1>2. ~loose /\ Untold = {}
    BY <1>1
  <1>3. row = "running"
    BY <1>1, <1>2 DEF PausedFits, TypeOK
  <1>4. Pending = {}
    BY <1>2, NothingLeft DEF Untold, Unsettled
  <1>5. QED
    BY <1>1, <1>2, <1>3, <1>4, TurnFailsFacts, EmitFacts, StreamPauses

LEMMA ProposeStream ==
  ASSUME Base, PausedFits, StreamHolds, ~loose, row # "over", NEW c \in Call, Propose(c)
  PROVE  StreamHolds'
  <1> USE DEF Base
  <1>1. /\ turn /\ UNCHANGED <<about, bound>> /\ \A d \in Call \ {c} : call'[d].at = call[d].at
        /\ CallStays(c) \/ call'[c].at = "open"
    BY ProposeFacts DEF stream, CallStays
  <1>2. CASE UNCHANGED line
    BY <1>1, <1>2, StreamStays DEF CallStays
  <1>3. CASE ~UNCHANGED line
    <2>1. /\ line' \in Seq(Entry) /\ Grown /\ Len(line') = Len(line) + 1 /\ call'[c].at = "open"
          /\ line'[Len(line')].t = "proposed" /\ line'[Len(line')].of = c
      BY <1>3, ProposeFacts
    <2>2. \A i \in Newer : line'[i].t = "proposed" /\ line'[i].of = c
      BY <2>1, LineFacts DEF Newer
    <2>3. \A i \in 1 .. Len(line) : line[i].t # "paused"
      BY <1>1 DEF LineFits, LineHolds, PausedFits, TypeOK
    <2>4. ASSUME NEW d \in Call, OnStream(d)' PROVE OnStream(d) \/ call'[d].at = "open"
      <3>1. CASE d = c
        BY <2>1, <3>1
      <3>2. CASE d # c
        <4>1. \A i \in Newer : ~WillBe("proposed", d, i)'
          BY <2>2, <3>2 DEF WillBe, Waits
        <4>2. \A i \in 1 .. Len(line') : WillBe("proposed", d, i)' => i \in 1 .. Len(line)
                /\ WillBe("proposed", d, i)
          BY <2>1, <4>1, WillGrow
        <4>3. QED
          BY <1>1, <2>4, <4>2, SameStream DEF OnStream
      <3>3. QED
        BY <3>1, <3>2
    <2>5. \A d \in Call : call[d].at = "open" => call'[d].at = "open"
      BY <1>1, <2>1
    <2>6. QED
      BY <1>1, <2>1, <2>2, <2>3, <2>4, <2>5, StreamGrows
  <1>4. QED
    BY <1>2, <1>3

LEMMA TailLives ==
  ASSUME TypeOK, line # <<>>, line' = Tail(line)
  PROVE  /\ line' \in Seq(Entry) /\ Moved(1) /\ 1 \in {0, 1} /\ Len(line) >= 1
         /\ \A i \in 1 .. Len(line') : line'[i].live = line[i + 1].live
  BY TailMoves, LineFacts

LEMMA ServeProposalStream ==
  ASSUME Base, ~loose, StreamHolds, ServeProposal
  PROVE  StreamHolds'
  <1> USE DEF Base
  <1>0. PICK c \in Call : c = line[1].of
    BY ServeProposalFacts
  <1>1. /\ line # <<>> /\ line[1].t = "proposed" /\ line' = Tail(line) /\ UNCHANGED bound
        /\ \A d \in Call \ {c} : call'[d].at = call[d].at
    BY <1>0, ServeProposalFacts DEF CallStays
  <1>2. /\ line' \in Seq(Entry) /\ Moved(1) /\ 1 \in {0, 1} /\ Len(line) >= 1
        /\ \A i \in 1 .. Len(line') : line'[i].live = line[i + 1].live
    BY <1>1, TailLives
  <1>3. Waits("proposed", c, 1) /\ 1 \in 1 .. Len(line) /\ about[c] = <<>>
    <2>1. Waits("proposed", c, 1) /\ 1 \in 1 .. Len(line)
      BY <1>0, <1>1, LineFacts DEF Waits
    <2>2. QED
      BY <2>1 DEF CallsFit, CallFits
  <1>4. CASE /\ call[c].at = "open" /\ call'[c].at = "dropped" /\ UNCHANGED about
    <2>1. \A i \in 1 .. Len(line') : ~Waits("proposed", c, i)'
      <3>1. \A i \in 1 .. Len(line') : Waits("proposed", c, i)' => i + 1 \in 1 .. Len(line)
              /\ Waits("proposed", c, i + 1)
        BY <1>2, MovedWaits
      <3>2. \A i \in 1 .. Len(line') : i \in Nat /\ i # 0
        OBVIOUS
      <3>3. \A i \in 1 .. Len(line') : Waits("proposed", c, i)' => i + 1 = 1
        BY <1>3, <3>1 DEF CallsFit, CallFits
      <3>4. QED
        BY <3>2, <3>3
    <2>2. ~OnStream(c)'
      BY <1>3, <1>4, <2>1 DEF OnStream, Proposed, WillBe
    <2>3. QED
      BY <1>1, <1>2, <1>4, <2>2, StreamMoves
  <1>5. CASE call'[c].at = call[c].at /\ UNCHANGED about
    BY <1>1, <1>2, <1>5, StreamMoves
  <1>6. CASE /\ line[1].live /\ about' = [about EXCEPT ![c] = Append(@, "proposed")]
             /\ call'[c].at = call[c].at
    <2>1. about' = [about EXCEPT ![c] = <<"proposed">>]
      <3>1. Append(about[c], "proposed") = <<"proposed">>
        BY <1>3
      <3>2. QED
        BY <1>6, <3>1
    <2>2. \A d \in Call \ {c} : (Proposed(d)' <=> Proposed(d)) /\ (Finished(d)' <=> Finished(d))
      BY <2>1 DEF Proposed, Finished, TypeOK
    <2>3. ~Finished(c) /\ OnStream(c)
      BY <1>3, <1>6 DEF Finished, OnStream, WillBe
    <2>4. \A d \in Call : OnStream(d)' => OnStream(d)
      BY <1>2, <2>2, <2>3, WillMove DEF OnStream
    <2>5. \A d \in Call : Finished(d) => Finished(d)'
      BY <2>2, <2>3
    <2>6. ASSUME NEW d \in Call, NEW i \in 1 .. Len(line), WillBe("finished", d, i)
          PROVE  i - 1 \in 1 .. Len(line') /\ WillBe("finished", d, i - 1)'
      <3>1. i # 1
        BY <1>1, <2>6 DEF WillBe, Waits
      <3>2. QED
        BY <1>2, <2>6, <3>1, WillMove
    <2>7. CallsFinish'
      <3> SUFFICES ASSUME NEW d \in Call, OnStream(d)'
                   PROVE  Finished(d)' \/ call'[d].at = "open"
                            \/ \E i \in 1 .. Len(line') : WillBe("finished", d, i)'
        BY DEF CallsFinish
      <3>1. Finished(d) \/ call[d].at = "open"
              \/ \E i \in 1 .. Len(line) : WillBe("finished", d, i)
        BY <2>4 DEF StreamHolds, CallsFinish
      <3>2. call'[d].at = call[d].at
        BY <1>1, <1>6
      <3>3. QED
        BY <2>5, <2>6, <3>1, <3>2
    <2>8. PausesFinish'
      <3> SUFFICES ASSUME NEW i \in 1 .. Len(line'), line'[i].t = "paused", NEW d \in Call
                   PROVE  line'[i].live
                            /\ (OnStream(d)' => Finished(d)'
                                \/ \E j \in 1 .. i : WillBe("finished", d, j)')
        BY DEF PausesFinish
      <3>1. /\ i + 1 \in 1 .. Len(line) /\ line[i + 1].t = "paused"
                 /\ line'[i].live = line[i + 1].live
            /\ i \in Nat /\ Len(line) \in Nat /\ Len(line') = Len(line) - 1
        BY <1>1, <1>2, LineFacts DEF Moved
      <3>2. line[i + 1].live /\ line'[i].live
        <4>1. 1 < i + 1
          BY <3>1
        <4>2. line[i + 1].live
          BY <1>3, <1>6, <3>1, <4>1 DEF LineFits, LineHolds
        <4>3. QED
          BY <3>1, <4>2
      <3>3. OnStream(d) => Finished(d) \/ \E j \in 1 .. i + 1 : WillBe("finished", d, j)
        BY <3>1, <3>2 DEF StreamHolds, PausesFinish
      <3>4. ASSUME NEW j \in 1 .. i + 1, WillBe("finished", d, j)
            PROVE  j - 1 \in 1 .. i /\ WillBe("finished", d, j - 1)'
        <4>1. j \in 1 .. Len(line)
          BY <3>1
        <4>2. j - 1 \in 1 .. Len(line') /\ WillBe("finished", d, j - 1)'
          BY <2>6, <3>4, <4>1
        <4>3. QED
          BY <3>1, <4>2
      <3>5. QED
        BY <2>4, <2>5, <3>2, <3>3, <3>4
    <2>9. bound'
      BY <1>1, <1>3, <1>6 DEF LineFits, LineHolds
    <2>10. QED
      BY <2>7, <2>8, <2>9 DEF StreamHolds
  <1>7. QED
    BY <1>0, <1>4, <1>5, <1>6, ServeProposalFacts DEF stream, CallStays

LEMMA ServeFinishStream ==
  ASSUME Base, StreamHolds, ServeFinish, ~unheard'
  PROVE  StreamHolds'
  <1> USE DEF Base
  <1>0. PICK c \in Call : c = line[1].of
    BY ServeFinishFacts
  <1>1. /\ line # <<>> /\ line[1].t = "finished" /\ line' = Tail(line)
             /\ UNCHANGED <<bound, call>>
    BY ServeFinishFacts
  <1>2. /\ line' \in Seq(Entry) /\ Moved(1) /\ 1 \in {0, 1} /\ Len(line) >= 1
        /\ \A i \in 1 .. Len(line') : line'[i].live = line[i + 1].live
    BY <1>1, TailLives
  <1>3. Waits("finished", c, 1) /\ 1 \in 1 .. Len(line) /\ call[c].at = "over"
    <2>1. Waits("finished", c, 1) /\ 1 \in 1 .. Len(line)
      BY <1>0, <1>1, LineFacts DEF Waits
    <2>2. QED
      BY <2>1 DEF CallsFit, CallFits
  <1>4. CASE ~line[1].live /\ UNCHANGED about
    BY <1>1, <1>2, <1>4, StreamMoves
  <1>5. CASE about' = [about EXCEPT ![c] = Append(@, call[c].status)]
    <2>1. \A d \in Call \ {c} : (Proposed(d)' <=> Proposed(d)) /\ (Finished(d)' <=> Finished(d))
      BY <1>5 DEF Proposed, Finished, TypeOK
    <2>2. Finished(c)'
      <3>1. about[c] \in Seq(Status \union {"proposed"}) /\ call[c].status \in Status
        BY <1>3 DEF TypeOK, CallTypes
      <3>2. about'[c] = Append(about[c], call[c].status)
        BY <1>5 DEF TypeOK
      <3>3. call[c].status # "proposed"
        BY <3>1 DEF Status
      <3>4. /\ Len(about[c]) + 1 \in DOMAIN Append(about[c], call[c].status)
            /\ Append(about[c], call[c].status)[Len(about[c]) + 1] = call[c].status
        BY <3>1, AppendProperties
      <3>5. QED
        BY <3>2, <3>3, <3>4 DEF Finished
    <2>3. \A d \in Call \ {c} : OnStream(d)' => OnStream(d)
      BY <1>2, <2>1, WillMove DEF OnStream
    <2>4. ASSUME NEW d \in Call \ {c}, NEW i \in 1 .. Len(line), WillBe("finished", d, i)
          PROVE  i - 1 \in 1 .. Len(line') /\ WillBe("finished", d, i - 1)'
      <3>1. i # 1
        BY <1>0, <2>4 DEF WillBe, Waits
      <3>2. QED
        BY <1>2, <2>4, <3>1, WillMove
    <2>5. CallsFinish'
      <3> SUFFICES ASSUME NEW d \in Call, OnStream(d)', d # c
                   PROVE  Finished(d)' \/ call'[d].at = "open"
                            \/ \E i \in 1 .. Len(line') : WillBe("finished", d, i)'
        BY <2>2 DEF CallsFinish
      <3>1. Finished(d) \/ call[d].at = "open"
              \/ \E i \in 1 .. Len(line) : WillBe("finished", d, i)
        BY <2>3 DEF StreamHolds, CallsFinish
      <3>2. QED
        BY <1>1, <2>1, <2>4, <3>1
    <2>6. PausesFinish'
      <3> SUFFICES ASSUME NEW i \in 1 .. Len(line'), line'[i].t = "paused", NEW d \in Call,
                          d # c
                   PROVE  IF line'[i].live
                            THEN OnStream(d)' => Finished(d)'
                              \/ \E j \in 1 .. i : WillBe("finished", d, j)'
                            ELSE Proposed(d)' => Finished(d)'
        BY <2>2 DEF PausesFinish
      <3>1. /\ i + 1 \in 1 .. Len(line) /\ line[i + 1].t = "paused"
                 /\ line'[i].live = line[i + 1].live
            /\ i \in Nat /\ Len(line) \in Nat /\ Len(line') = Len(line) - 1
        BY <1>1, <1>2, LineFacts DEF Moved
      <3>2. IF line[i + 1].live
              THEN OnStream(d) => Finished(d) \/ \E j \in 1 .. i + 1 : WillBe("finished", d, j)
              ELSE Proposed(d) => Finished(d)
        BY <3>1 DEF StreamHolds, PausesFinish
      <3>3. ASSUME NEW j \in 1 .. i + 1, WillBe("finished", d, j)
            PROVE  j - 1 \in 1 .. i /\ WillBe("finished", d, j - 1)'
        <4>1. j \in 1 .. Len(line)
          BY <3>1
        <4>2. j - 1 \in 1 .. Len(line') /\ WillBe("finished", d, j - 1)'
          BY <2>4, <3>3, <4>1
        <4>3. QED
          BY <3>1, <4>2
      <3>4. QED
        BY <2>1, <2>3, <3>1, <3>2, <3>3
    <2>7. ~bound' => AllFinished'
      BY <1>1, <2>1, <2>2 DEF StreamHolds, AllFinished
    <2>8. QED
      BY <2>5, <2>6, <2>7 DEF StreamHolds
  <1>6. QED
    BY <1>0, <1>4, <1>5, ServeFinishFacts DEF stream

LEMMA StreamStep ==
  ASSUME Base, OneConnection, TurnsFit, PausedFits, StreamFits, [Next]_vars
  PROVE  StreamFits'
  <1> USE DEF Base
  <1> SUFFICES ASSUME ~loose', ~unheard', row' # "over" PROVE StreamHolds'
    BY DEF StreamFits
  <1>0. ~loose /\ ~unheard /\ row # "over" /\ StreamHolds
    BY HistoryStep DEF StreamFits
  <1>1. CASE StartTurn
    <2>1. UNCHANGED <<call, line, about>> /\ (bound => bound')
      BY <1>1 DEF StartTurn, table, emitter, stream
    <2>2. QED
      BY <1>0, <2>1, StreamStays
  <1>27. CASE TurnFails
    BY <1>0, <1>27, TurnFailsStream
  <1>2. CASE TurnPauses
    BY <1>0, <1>2, TurnPausesStream
  <1>3. CASE TurnEnds
    <2>1. UNCHANGED <<call, line, about>> /\ (bound => bound')
      BY <1>3 DEF TurnEnds, table, emitter, stream
    <2>2. QED
      BY <1>0, <2>1, StreamStays
  <1>4. CASE \E c \in Call : Propose(c)
    BY <1>0, <1>4, ProposeStream
  <1>5. CASE \E c \in Call : Hear(c)
    <2>1. UNCHANGED <<call, line, about>> /\ (bound => bound')
      BY <1>5 DEF Hear, table, emitter, stream
    <2>2. QED
      BY <1>0, <2>1, StreamStays
  <1>6. CASE \E c \in Call : Denied(c)
    <2>1. CASE \E c \in Call : Ends({c}, bound)
      BY <1>0, <1>6, <2>1, DeniedFacts, StreamEnds DEF TypeOK
    <2>2. CASE CallsStay /\ UNCHANGED <<line, about>>
      BY <1>0, <1>6, <2>2, DeniedFacts, StreamStays DEF CallsStay, CallStays
    <2>3. QED
      BY <1>6, <2>1, <2>2, DeniedFacts DEF stream
  <1>7. CASE \E c \in Call : Expire(c)
    <2>1. PICK calls : Ends(calls, bound) /\ bound' = bound
      BY <1>7, ExpireEnds
    <2>2. QED
      BY <1>0, <2>1, StreamEnds DEF TypeOK
  <1>8. CASE ServeProposal
    BY <1>0, <1>8, ServeProposalStream
  <1>9. CASE ServeFinish
    BY <1>0, <1>9, ServeFinishStream
  <1>10. CASE ServePause
    BY <1>0, <1>10, ServePauseStream
  <1>11. CASE ServeResume
    <2>1. /\ line # <<>> /\ line[1].t # "finished" /\ line' = Tail(line)
          /\ UNCHANGED <<call, about, bound>>
      BY <1>11, ServeResumeFacts DEF table
    <2>2. QED
      BY <1>0, <2>1, TailLives, StreamMoves
  <1>12. CASE ServeEnd
    <2>1. /\ line # <<>> /\ line[1].t # "finished" /\ line' = Tail(line)
          /\ UNCHANGED <<call, about, bound>>
      BY <1>12, ServeEndFacts DEF table
    <2>2. QED
      BY <1>0, <2>1, TailLives, StreamMoves
  <1>13. CASE \E k \in Conn : Connect(k)
    <2>1. UNCHANGED <<call, line, about>> /\ (bound => bound')
      BY <1>13 DEF Connect, table, emitter, stream
    <2>2. QED
      BY <1>0, <2>1, StreamStays
  <1>14. CASE \E k \in Conn : Leave(k)
    <2>1. CallsStay /\ UNCHANGED <<line, about, bound>>
      BY <1>14, LeaveFacts DEF emitter, stream
    <2>2. QED
      BY <1>0, <2>1, StreamStays DEF CallsStay, CallStays
  <1>15. CASE \E k \in Conn : LookForRuns(k)
    <2>1. UNCHANGED <<call, line, about>> /\ (bound => bound')
      BY <1>15 DEF LookForRuns, table, emitter, stream
    <2>2. QED
      BY <1>0, <2>1, StreamStays
  <1>16. CASE \E k \in Conn : StopForPause(k)
    <2>1. UNCHANGED <<call, line, about>> /\ (bound => bound')
      BY <1>16 DEF StopForPause, table, emitter, stream
    <2>2. QED
      BY <1>0, <2>1, StreamStays
  <1>17. CASE \E k \in Conn : CloseForPause(k)
    <2>1. PICK calls : Ends(calls, bound) /\ bound' = bound
      BY <1>17, CloseForPauseEnds
    <2>2. QED
      BY <1>0, <2>1, StreamEnds DEF TypeOK
  <1>18. CASE \E k \in Conn : Pause(k)
    BY <1>0, <1>18, PauseStream
  <1>19. CASE \E k \in Conn : CleanUp(k)
    <2>1. PICK calls : Ends(calls, bound) /\ bound' = bound
      BY <1>19, CleanUpEnds
    <2>2. QED
      BY <1>0, <2>1, StreamEnds DEF TypeOK
  <1>20. CASE \E k \in Conn, c \in Call : Result(k, c)
    <2>1. PICK calls : Ends(calls, bound) /\ bound' = bound
      BY <1>20, ResultEnds
    <2>2. QED
      BY <1>0, <2>1, StreamEnds DEF TypeOK
  <1>21. CASE \E k \in Conn, c \in Call : Deny(k, c)
    <2>1. CallsStay /\ UNCHANGED <<line, about, bound>>
      BY <1>21, DenyFacts DEF emitter, stream
    <2>2. QED
      BY <1>0, <2>1, StreamStays DEF CallsStay, CallStays
  <1>22. CASE Resume
    <2>1. /\ line' \in Seq(Entry) /\ Grown /\ Len(line') = Len(line) + 1
               /\ line'[Len(line')].t = "resumed"
          /\ UNCHANGED <<call, about>> /\ (bound => bound')
      BY <1>22, ResumeFacts, EmitFacts DEF table, stream
    <2>2. \A i \in Newer : line'[i].t = "resumed"
      BY <2>1, LineFacts DEF Newer
    <2>3. \A c \in Call : OnStream(c)' => OnStream(c)
      BY <2>1, <2>2, SameOnStream
    <2>4. QED
      BY <1>0, <2>1, <2>2, <2>3, StreamGrows
  <1>23. CASE CancelCalls
    <2>1. PICK calls : Ends(calls, TRUE) /\ bound' = TRUE
      BY <1>23, CancelCallsEnds
    <2>2. QED
      BY <1>0, <2>1, StreamEnds DEF TypeOK
  <1>24. CASE CancelTurn
    <2>1. UNCHANGED <<call, line, about>> /\ (bound => bound')
      BY <1>24 DEF CancelTurn, table, emitter, stream
    <2>2. QED
      BY <1>0, <2>1, StreamStays
  <1>25. CASE CancelRun
    <2>1. /\ line' \in Seq(Entry) /\ Grown /\ Len(line') = Len(line) + 1
               /\ line'[Len(line')].t = "over"
          /\ UNCHANGED <<call, about>> /\ (bound => bound')
      BY <1>25, CancelRunFacts, EmitFacts DEF table, stream
    <2>2. \A i \in Newer : line'[i].t = "over"
      BY <2>1, LineFacts DEF Newer
    <2>3. \A c \in Call : OnStream(c)' => OnStream(c)
      BY <2>1, <2>2, SameOnStream
    <2>4. QED
      BY <1>0, <2>1, <2>2, <2>3, StreamGrows
  <1>26. CASE UNCHANGED vars
    <2>1. UNCHANGED <<call, line, about, bound>>
      BY <1>26 DEF vars, table, emitter, stream
    <2>2. QED
      BY <1>0, <2>1, StreamStays
  <1>28. QED
    BY <1>1, <1>2, <1>3, <1>4, <1>5, <1>6, <1>7, <1>8, <1>9, <1>10, <1>11, <1>12, <1>13, <1>14,
       <1>15, <1>16, <1>17, <1>18, <1>19, <1>20, <1>21, <1>22, <1>23, <1>24, <1>25, <1>26,
       <1>27
       DEF Next, Serve, Handlers

(* The last event is a pause only where one was stored.                    *)
LEMMA LatestStep ==
  ASSUME Base, [Next]_vars, latest' = "paused"
  PROVE  (latest = "paused" /\ UNCHANGED about) \/ (ServePause /\ latest # "paused")
  <1> USE DEF Base
  <1>1. CASE StartTurn
    BY <1>1 DEF StartTurn, emitter, stream
  <1>0. CASE TurnFails
    BY <1>0, TurnFailsFacts DEF stream
  <1>2. CASE TurnPauses
    BY <1>2, TurnPausesFacts DEF emitter, stream
  <1>3. CASE TurnEnds
    BY <1>3 DEF TurnEnds, emitter, stream
  <1>4. CASE \E c \in Call : Propose(c)
    BY <1>4, ProposeFacts DEF emitter, stream
  <1>5. CASE \E c \in Call : Hear(c)
    BY <1>5, HearFacts DEF emitter, stream
  <1>6. CASE \E c \in Call : Denied(c)
    BY <1>6, DeniedFacts DEF Ends, stream
  <1>7. CASE \E c \in Call : Expire(c)
    BY <1>7, ExpireEnds DEF Ends, stream
  <1>8. CASE ServeProposal
    BY <1>8, ServeProposalFacts DEF emitter, stream
  <1>9. CASE ServeFinish
    BY <1>9, ServeFinishFacts DEF emitter, stream
  <1>10. CASE ServePause
    BY <1>10, ServePauseFacts DEF emitter, stream
  <1>11. CASE ServeResume
    BY <1>11, ServeResumeFacts DEF emitter, stream
  <1>12. CASE ServeEnd
    BY <1>12, ServeEndFacts DEF emitter, stream
  <1>13. CASE \E k \in Conn : Connect(k)
    BY <1>13 DEF Connect, emitter, stream
  <1>14. CASE \E k \in Conn : Leave(k)
    BY <1>14, LeaveFacts DEF emitter, stream
  <1>15. CASE \E k \in Conn : LookForRuns(k)
    BY <1>15 DEF LookForRuns, emitter, stream
  <1>16. CASE \E k \in Conn : StopForPause(k)
    BY <1>16 DEF StopForPause, emitter, stream
  <1>17. CASE \E k \in Conn : CloseForPause(k)
    BY <1>17, CloseForPauseEnds DEF Ends, stream
  <1>18. CASE \E k \in Conn : Pause(k)
    BY <1>18, PauseFacts DEF emitter, stream
  <1>19. CASE \E k \in Conn : CleanUp(k)
    BY <1>19, CleanUpEnds DEF Ends, stream
  <1>20. CASE \E k \in Conn, c \in Call : Result(k, c)
    BY <1>20, ResultEnds DEF Ends, stream
  <1>21. CASE \E k \in Conn, c \in Call : Deny(k, c)
    BY <1>21, DenyFacts DEF emitter, stream
  <1>22. CASE Resume
    BY <1>22, ResumeFacts DEF emitter, stream
  <1>23. CASE CancelCalls
    BY <1>23, CancelCallsEnds DEF Ends, stream
  <1>24. CASE CancelTurn
    BY <1>24 DEF CancelTurn, emitter, stream
  <1>25. CASE CancelRun
    BY <1>25, CancelRunFacts DEF emitter, stream
  <1>26. CASE UNCHANGED vars
    BY <1>26 DEF vars, emitter, stream
  <1>27. QED
    BY <1>0, <1>1, <1>2, <1>3, <1>4, <1>5, <1>6, <1>7, <1>8, <1>9, <1>10, <1>11, <1>12, <1>13,
       <1>14,
       <1>15, <1>16, <1>17, <1>18, <1>19, <1>20, <1>21, <1>22, <1>23, <1>24, <1>25, <1>26
       DEF Next, Serve, Handlers

LEMMA PauseFinishesStep ==
  ASSUME Base, StreamFits, PauseFinishesCalls, [Next]_vars
  PROVE  PauseFinishesCalls'
  <1> USE DEF Base
  <1> SUFFICES ASSUME latest' = "paused", ~loose', ~unheard' PROVE AllFinished'
    BY DEF PauseFinishesCalls, AllFinished
  <1>1. ~loose /\ ~unheard
    BY HistoryStep
  <1>2. CASE latest = "paused" /\ UNCHANGED about
    BY <1>1, <1>2, SameStream DEF PauseFinishesCalls, AllFinished
  <1>3. CASE ServePause /\ latest # "paused"
    <2>1. line # <<>> /\ line[1].t = "paused" /\ line[1].live /\ UNCHANGED about
      BY <1>3, ServePauseFacts
    <2>2. row # "over"
      BY <1>1, <2>1, LineFacts DEF LineFits, LineHolds
    <2>3. AllFinished
      BY <1>1, <2>1, <2>2, PausedBehindFinishes DEF StreamFits, StreamHolds
    <2>4. QED
      BY <2>1, <2>3, SameStream DEF AllFinished
  <1>4. QED
    BY <1>2, <1>3, LatestStep

------------------------------------------------------------------------------
(* The inductive invariant.                                                *)
IInv ==
  /\ Base /\ OneConnection /\ TurnsFit /\ PausedFits /\ StreamFits /\ PauseFinishesCalls

LEMMA InitIInv ==
  ASSUME Init
  PROVE  IInv
  <1>1. Base
    BY BaseInit
  <1>2. /\ line = <<>> /\ Len(line) = 0 /\ row = "running" /\ bound = TRUE /\ latest = None
             /\ turn = FALSE
        /\ \A c \in Call : call[c] = Unknown /\ about[c] = <<>>
    BY DEF Init
  <1>3. PICK k \in Conn : conns = [j \in Conn |-> IF j = k THEN "live" ELSE "new"]
    BY DEF Init
  <1>4. \A c \in Call : call[c].at = "no" /\ ~Proposed(c)
    BY <1>2 DEF Unknown, Proposed
  <1>5. OneConnection
    BY <1>3 DEF OneConnection
  <1>6. TurnsFit /\ PausedFits
    BY <1>2, <1>4 DEF TurnsFit, PausedFits, Unsettled
  <1>7. StreamFits /\ PauseFinishesCalls
    BY <1>2, <1>4 DEF StreamFits, StreamHolds, CallsFinish, PausesFinish, OnStream,
       PauseFinishesCalls, None
  <1>8. QED
    BY <1>1, <1>5, <1>6, <1>7 DEF IInv

LEMMA StepIInv ==
  ASSUME IInv, [Next]_vars
  PROVE  IInv'
  BY BaseStep, OneConnectionStep, TurnsStep, PausedStep, StreamStep, PauseFinishesStep DEF IInv

(* The invariant holds of the broker, whatever the calls and connections   *)
(* are (broker.py, run_handlers.py).                                       *)
THEOREM Safety == Spec => []IInv
  <1>1. Init => IInv
    BY InitIInv
  <1>2. IInv /\ [Next]_vars => IInv'
    BY StepIInv
  <1>3. QED
    BY <1>1, <1>2, PTL DEF Spec

(* A call is never left to nobody: it has a deadline, or an event that     *)
(* gives it one or tells its waiters (broker.py: _open, _announce).        *)
THEOREM NeverStranded == Spec => []NoCallIsStranded
  <1>1. IInv => NoCallIsStranded
    <2> SUFFICES ASSUME IInv PROVE NoCallIsStranded
      OBVIOUS
    <2>1. DOMAIN line = 1 .. Len(line)
      BY LineFacts DEF IInv, Base
    <2>2. QED
      BY <2>1 DEF IInv, Base, CallsFit, HeardOf, NoCallIsStranded, InLine, Waits
  <1>2. QED
    BY <1>1, Safety, PTL

(* "A reconnect never silently revives an old call": no open call belongs  *)
(* to a connection that was cleaned up (broker.py: on_disconnect).         *)
THEOREM EndsWithConnection == Spec => []CallsEndWithConnection
  <1>1. IInv => CallsEndWithConnection
    BY DEF IInv, Base
  <1>2. QED
    BY <1>1, Safety, PTL

(* The calls a run put on the stream are finished there before its pause   *)
(* (broker.py: the pause hook; run_handlers.py: the disconnect handler),   *)
(* until a turn fails over open calls, a device is back before its old     *)
(* connection is cleaned up, or the store refuses a tool_finished.         *)
THEOREM PausesFinishCalls == Spec => []PauseFinishesCalls
  <1>1. IInv => PauseFinishesCalls
    BY DEF IInv
  <1>2. QED
    BY <1>1, Safety, PTL

(* The broker keeps its promise of ToolCalls: one outcome, one tool_finished *)
(* that says so, behind the proposal, and before the loop hears of it.     *)
THEOREM Refinement == Spec => ImplementsToolCalls
  <1>1. Init => Calls!CallsInit
    BY ImplementsInit
  <1>2. IInv /\ [Next]_vars => [Calls!CallsNext]_(Calls!callVars)
    BY ImplementsStep DEF IInv, Base
  <1>3. QED
    BY <1>1, <1>2, Safety, PTL DEF Spec, ImplementsToolCalls, Calls!CallsSpec
==============================================================================

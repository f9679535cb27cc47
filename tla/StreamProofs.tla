----------------------------- MODULE StreamProofs ------------------------------
(***************************************************************************)
(* What holds of a run's event stream for every number of emitters, events *)
(* and lost connections, and any mishaps: the proofs of the properties of  *)
(* Stream.                                                                 *)
(***************************************************************************)
EXTENDS Stream, FiniteSetTheorems, SequenceTheorems, TLAPS

(* Types of the variables.                                                 *)
Messages == [seq : Seqs, ev : Event]
TaskRecord == [at : {"idle", "number", "store", "send"}, seq : 0 .. MaxSeq, own : BOOLEAN,
               stopped : BOOLEAN]
ResumeRecord == [at : {"idle", "read", "send"}, from : Nat, wasBound : BOOLEAN, live : BOOLEAN,
                 events : Seq(Messages)]

RedisTypes ==
  /\ counter \in 0 .. MaxSeq /\ base \in 0 .. MaxSeq /\ alive \in BOOLEAN
  /\ stored \in [Seqs -> Event \union {NoEvent}] /\ epoch \in 0 .. MaxEpoch + 1
ServerTypes ==
  /\ bound \in BOOLEAN /\ last \in 0 .. MaxSeq
  /\ lock \in Emitter \union {None, "resume", "end"}
  /\ task \in [Emitter -> TaskRecord] /\ resumer \in ResumeRecord
  /\ ending \in {"no", "locked", "moved", "told"}
DeviceTypes ==
  /\ wire \in Seq(Messages) /\ inbox \in SUBSET Nat /\ log \in Seq(Event)
Types == RedisTypes /\ ServerTypes /\ DeviceTypes

Working(e) == task[e].at # "idle" /\ ~task[e].stopped

(* A resume that bound the run itself, and has yet to read: the tracker    *)
(* knows of no number.                                                     *)
Reading == resumer.at = "read" /\ ~resumer.wasBound

(* The lock is held by who works under it, and is a lock of the binding    *)
(* that is there.  A task that was not told to stop has that binding.      *)
LocksFit ==
  /\ \A e \in Emitter : Working(e) <=> lock = e
  /\ resumer.at # "idle" <=> lock = "resume"
  /\ lock = "end" => ending \in {"locked", "moved"}
  /\ lock # None => bound
OwnersFit ==
  /\ \A e \in Emitter : Working(e) => task[e].own
  /\ ~bound \/ Reading => \A e \in Emitter : ~task[e].own
  /\ Reading => last = 0
  /\ resumer.at = "read" => resumer.events = <<>>

(* The counter is not behind any event, a number goes to one task, and     *)
(* nothing is stored at it before.                                         *)
NumbersFit ==
  /\ alive => ending \in {"no", "locked"} /\ base <= counter
  /\ epoch = 0 => base = 0
  /\ ending # "told" => /\ epoch <= MaxEpoch
                        /\ \A n \in Seqs : n > counter => stored[n] = NoEvent
TasksFit ==
  /\ \A e \in Emitter : alive /\ task[e].at = "store" =>
       /\ base < task[e].seq /\ task[e].seq <= counter /\ stored[task[e].seq] = NoEvent
       /\ \A f \in Emitter : task[f].at = "store" /\ f # e => task[f].seq # task[e].seq
  /\ \A e \in Emitter : task[e].at = "send" =>
       /\ ~task[e].stopped /\ 0 < task[e].seq /\ stored[task[e].seq] # NoEvent
       /\ alive => base < task[e].seq
  /\ \A e \in Emitter : Working(e) /\ task[e].at \in {"store", "send"} => task[e].seq <= last

(* What is on its way is what is stored, except for a last event that the  *)
(* device drops; so is what the device has.                                *)
Stored(m) == stored[m.seq] = m.ev
EventsFit ==
  resumer.at = "send" =>
    \A i \in DOMAIN resumer.events :
      /\ Stored(resumer.events[i]) /\ resumer.events[i].seq <= last
      /\ alive => base < resumer.events[i].seq
OnItsWay(m) ==
  /\ Stored(m) \/ (ending = "told" /\ m.seq <= Cursor)
  /\ alive => base < m.seq
  /\ bound /\ ~Reading => m.seq <= last
WireFits ==
  /\ \A i \in DOMAIN wire : OnItsWay(wire[i])
  /\ resumer.at = "read" /\ ~resumer.live => wire = <<>>
LogFits == \A n \in DOMAIN log : n \in Seqs /\ stored[n] = log[n]

(* While the buffer is gone and the run is not over nothing is on its way, *)
(* and a resume asks for what comes behind the device's log.               *)
GoneFits ==
  ~alive /\ ending = "no" =>
    /\ wire = <<>> /\ inbox \subseteq {Cursor} /\ epoch < MaxEpoch
    /\ \A e \in Emitter : task[e].at \in {"idle", "number"}
    /\ resumer.at # "send" /\ (resumer.at = "read" => resumer.from = Cursor)

(* The tracker of a bound run is not behind the device, unless it was made *)
(* from an empty replay or a resume was cut off.                           *)
TrackerFits ==
  bound /\ ~Reading /\ (epoch = 0 \/ last > 0) /\ "abort" \notin happened => Cursor <= last

IInv == /\ Types /\ LocksFit /\ OwnersFit /\ NumbersFit /\ TasksFit
        /\ EventsFit /\ WireFits /\ LogFits /\ GoneFits /\ TrackerFits

------------------------------------------------------------------------------
(* In a finite set of numbers there is an i-th one.                        *)
LEMMA Enumeration ==
  ASSUME NEW S, S \subseteq Nat, IsFiniteSet(S), NEW i \in 1 .. Cardinality(S)
  PROVE  \E k \in S : Cardinality({j \in S : j <= k}) = i
<1> DEFINE upTo(k) == {j \in S : j <= k}
           T == 1 .. Cardinality(S)
           f == [k \in S |-> Cardinality(upTo(k))]
<1>1. Cardinality(S) \in Nat
  BY FS_CardinalityType
<1>2. ASSUME NEW k \in S
      PROVE  upTo(k) \in SUBSET S /\ IsFiniteSet(upTo(k)) /\ Cardinality(upTo(k)) \in T
  <2>0. k \in Nat
    OBVIOUS
  <2>1. upTo(k) \in SUBSET S /\ k \in upTo(k)
    BY <2>0
  <2>2. IsFiniteSet(upTo(k)) /\ Cardinality(upTo(k)) <= Cardinality(S)
    BY <2>1, FS_Subset
  <2>3. Cardinality(upTo(k)) \in Nat /\ Cardinality(upTo(k)) # 0
    BY <2>2, FS_CardinalityType, FS_EmptySet
  <2> HIDE DEF upTo
  <2> QED BY <1>1, <2>1, <2>2, <2>3
<1>3. ASSUME NEW a \in S, NEW b \in S, a < b PROVE Cardinality(upTo(a)) # Cardinality(upTo(b))
  <2>1. a \in Nat /\ b \in Nat /\ \A j \in S : j \in Nat
    OBVIOUS
  <2>2. upTo(a) \in SUBSET upTo(b) /\ b \in upTo(b) /\ b \notin upTo(a)
    <3>1. ASSUME NEW j \in upTo(a) PROVE j \in upTo(b)
      <4>1. j \in S /\ j <= a /\ j \in Nat
        BY <2>1
      <4>2. j <= b
        BY <1>3
      <4> QED BY <4>1, <4>2
    <3>2. b <= b /\ ~(b <= a)
      BY <1>3, <2>1
    <3> QED BY <3>1, <3>2
  <2>3. upTo(a) # upTo(b)
    BY <2>2
  <2> HIDE DEF upTo
  <2> QED BY <1>2, <2>2, <2>3, FS_Subset
<1> HIDE DEF upTo, T
<1>4. f \in [S -> T]
  BY <1>2
<1>5. \A a, b \in S : f[a] = f[b] => a = b
  <2> SUFFICES ASSUME NEW a \in S, NEW b \in S, a # b PROVE f[a] # f[b]
    OBVIOUS
  <2>1. a \in Nat /\ b \in Nat
    OBVIOUS
  <2>2. a < b \/ b < a
    BY <2>1
  <2> QED BY <1>3, <2>2
<1>6. IsFiniteSet(T) /\ Cardinality(T) = Cardinality(S)
  BY <1>1, FS_Interval DEF T
<1>7. f \in Injection(S, T)
  BY <1>4, <1>5 DEF Injection, IsInjective
<1> HIDE DEF f
<1>8. f \in Surjection(S, T)
  BY <1>6, <1>7, FS_Injection
<1>9. i \in T
  BY DEF T
<1>10. PICK k \in S : f[k] = i
  BY <1>8, <1>9 DEF Surjection
<1>11. f[k] = Cardinality({j \in S : j <= k})
  BY DEF f, upTo
<1> QED BY <1>10, <1>11

(* It has a largest and a smallest one.                                    *)
LEMMA Largest ==
  ASSUME NEW S, S \subseteq Nat, IsFiniteSet(S), S # {}
  PROVE  \E k \in S : \A j \in S : j <= k
<1>1. Cardinality(S) \in Nat /\ Cardinality(S) # 0
  BY FS_CardinalityType, FS_EmptySet
<1>2. PICK k \in S : Cardinality({j \in S : j <= k}) = Cardinality(S)
  <2>1. Cardinality(S) \in 1 .. Cardinality(S)
    BY <1>1
  <2> QED BY <2>1, Enumeration
<1>4. {j \in S : j <= k} = S
  BY <1>2, FS_Subset
<1> QED BY <1>4

LEMMA Smallest ==
  ASSUME NEW S, S \subseteq Nat, IsFiniteSet(S), S # {}
  PROVE  \E k \in S : \A j \in S : k <= j
<1>1. Cardinality(S) \in Nat /\ Cardinality(S) # 0
  BY FS_CardinalityType, FS_EmptySet
<1>2. PICK k \in S : Cardinality({j \in S : j <= k}) = 1
  <2>1. 1 \in 1 .. Cardinality(S)
    BY <1>1
  <2> QED BY <2>1, Enumeration
<1>3. {j \in S : j <= k} \in SUBSET S
  OBVIOUS
<1>4. IsFiniteSet({j \in S : j <= k})
  BY <1>3, FS_Subset
<1>5. PICK x : {j \in S : j <= k} = {x}
  BY <1>2, <1>4, FS_Singleton
<1>6. ASSUME NEW j \in S, j < k PROVE FALSE
  <2>1. k \in {n \in S : n <= k} /\ j \in {n \in S : n <= k}
    BY <1>6
  <2> QED BY <1>5, <1>6, <2>1
<1> QED BY <1>6

(* The stored events, their last one, and how far they go without a hole.  *)
LEMMA SeqsAre == Seqs \subseteq Nat /\ IsFiniteSet(Seqs)
                   /\ Seqs = 1 .. MaxSeq + 1 /\ MaxSeq \in Nat /\ MaxSeq >= 1
<1>1. MaxSeq \in Nat \ {0}
  BY StreamAssumption
<1>2. IsFiniteSet(1 .. MaxSeq + 1)
  BY <1>1, FS_Interval
<1> QED BY <1>1, <1>2 DEF Seqs

(* What the replay holds: what is stored above where the buffer began.     *)
LEMMA ReplayIs ==
  /\ Replay \subseteq Seqs /\ IsFiniteSet(Replay)
  /\ \A n \in Replay : alive /\ n > base /\ stored[n] # NoEvent
  /\ alive => \A n \in Seqs : n > base /\ stored[n] # NoEvent => n \in Replay
<1>1. Replay \in SUBSET Seqs
  BY DEF Replay
<1>2. IsFiniteSet(Replay)
  BY <1>1, SeqsAre, FS_Subset
<1> QED BY <1>1, <1>2 DEF Replay

(* The last number of the replay, or 0.                                    *)
LEMMA StoredLastIs ==
  /\ StoredLast \in Replay \union {0} /\ StoredLast \in Nat
  /\ \A k \in Replay : k <= StoredLast
<1> DEFINE S == Replay \union {0}
<1>1. S \subseteq Nat /\ IsFiniteSet(S) /\ S # {}
  BY ReplayIs, SeqsAre, FS_AddElement
<1>2. PICK k \in S : \A j \in S : j <= k
  BY <1>1, Largest
<1>3. StoredLast \in S /\ \A j \in Replay : j <= StoredLast
  BY <1>2 DEF StoredLast
<1> QED BY <1>1, <1>3

(* What a resume reads is what is stored.                                  *)
LEMMA ReplayAfterIs ==
  ASSUME Types, NEW n \in Nat
  PROVE  /\ ReplayAfter(n) \in Seq(Messages)
         /\ \A i \in DOMAIN ReplayAfter(n) : Stored(ReplayAfter(n)[i])
                                             /\ ReplayAfter(n)[i].seq \in Replay
<1> DEFINE above == {k \in Replay : k > n}
           nth(i) == CHOOSE k \in above : Cardinality({j \in above : j <= k}) = i
<1>1. above \in SUBSET Replay /\ above \subseteq Nat
  BY ReplayIs, SeqsAre
<1>2. IsFiniteSet(above) /\ Cardinality(above) \in Nat
  BY ReplayIs, FS_Subset, FS_CardinalityType
<1> HIDE DEF above
<1>3. ASSUME NEW i \in 1 .. Cardinality(above) PROVE nth(i) \in Replay
  <2>1. \E k \in above : Cardinality({j \in above : j <= k}) = i
    BY <1>1, <1>2, Enumeration
  <2> QED BY <1>1, <2>1
<1>4. ReplayAfter(n) = [i \in 1 .. Cardinality(above) |-> Message(nth(i), stored[nth(i)])]
  BY DEF ReplayAfter, above
<1> HIDE DEF nth
<1>5. ASSUME NEW k \in Replay
      PROVE  Message(k, stored[k]) \in Messages /\ Stored(Message(k, stored[k]))
             /\ Message(k, stored[k]).seq = k
  BY ReplayIs DEF Types, RedisTypes, Message, Messages, Stored
<1>6. ReplayAfter(n) \in [1 .. Cardinality(above) -> Messages]
  BY <1>3, <1>4, <1>5
<1>7. ReplayAfter(n) \in Seq(Messages) /\ DOMAIN ReplayAfter(n) = 1 .. Cardinality(above)
  BY <1>2, <1>6
<1> QED BY <1>3, <1>4, <1>5, <1>7

(* What is delivered comes behind what is on its way; what is received was *)
(* in front.                                                               *)
LEMMA DeliverIs ==
  ASSUME Types, NEW ms \in Seq(Messages), Deliver(ms)
  PROVE  /\ wire' \in Seq(Messages)
         /\ \A i \in DOMAIN wire' : (\E j \in DOMAIN wire : wire'[i] = wire[j])
                                      \/ (\E j \in DOMAIN ms : wire'[i] = ms[j])
<1>1. wire \in Seq(Messages)
  BY DEF Types, DeviceTypes
<1>2. CASE wire' = wire
  BY <1>1, <1>2
<1>3. CASE wire' = wire \o ms
  <2>1. /\ wire' \in Seq(Messages) /\ Len(wire') = Len(wire) + Len(ms)
        /\ \A i \in 1 .. Len(wire) + Len(ms) :
             wire'[i] = IF i <= Len(wire) THEN wire[i] ELSE ms[i - Len(wire)]
    BY <1>1, <1>3
  <2>2. /\ DOMAIN wire = 1 .. Len(wire) /\ Len(wire) \in Nat
        /\ DOMAIN ms = 1 .. Len(ms) /\ Len(ms) \in Nat /\ DOMAIN wire' = 1 .. Len(wire')
    OBVIOUS
  <2>3. ASSUME NEW i \in DOMAIN wire'
        PROVE  (\E j \in DOMAIN wire : wire'[i] = wire[j])
                 \/ (\E j \in DOMAIN ms : wire'[i] = ms[j])
    <3>1. CASE i <= Len(wire)
      BY <2>1, <3>1
    <3>2. CASE ~(i <= Len(wire))
      <4>1. i - Len(wire) \in 1 .. Len(ms) /\ wire'[i] = ms[i - Len(wire)]
        BY <2>1, <3>2
      <4> QED BY <2>2, <4>1
    <3> QED BY <3>1, <3>2
  <2> QED BY <2>1, <2>3
<1> QED BY <1>2, <1>3 DEF Deliver

(* The first message leaves the wire, and the log grows by it or stays.    *)
LEMMA ReceiveIs ==
  ASSUME Types, Receive
  PROVE  /\ 1 \in DOMAIN wire /\ Head(wire) = wire[1] /\ Head(wire) \in Messages
         /\ wire' \in Seq(Messages)
         /\ \A i \in DOMAIN wire' : \E j \in DOMAIN wire : wire'[i] = wire[j]
         /\ Cursor \in Nat /\ DOMAIN log = 1 .. Cursor
         /\ \/ log' = log /\ Cursor' = Cursor
            \/ /\ wire[1].seq = Cursor + 1 /\ log' \in Seq(Event) /\ Cursor' = Cursor + 1
               /\ DOMAIN log' = 1 .. Cursor + 1 /\ log'[Cursor + 1] = wire[1].ev
               /\ \A n \in 1 .. Cursor : log'[n] = log[n]
<1>1. wire \in Seq(Messages) /\ wire # <<>> /\ wire' = Tail(wire) /\ log \in Seq(Event)
  BY DEF Types, DeviceTypes, Receive
<1>2. /\ Len(wire) \in Nat /\ Len(wire) >= 1 /\ DOMAIN wire = 1 .. Len(wire)
      /\ Head(wire) = wire[1] /\ Head(wire) \in Messages
      /\ wire' \in Seq(Messages) /\ Len(wire') = Len(wire) - 1
      /\ \A i \in 1 .. Len(wire') : wire'[i] = wire[i + 1]
  BY <1>1
<1>3. ASSUME NEW i \in DOMAIN wire' PROVE \E j \in DOMAIN wire : wire'[i] = wire[j]
  <2>1. DOMAIN wire' = 1 .. Len(wire')
    BY <1>2, LenProperties
  <2>2. i + 1 \in DOMAIN wire /\ wire'[i] = wire[i + 1]
    BY <1>2, <2>1
  <2> QED BY <2>2
<1>4. Cursor \in Nat /\ DOMAIN log = 1 .. Cursor
  BY DEF Cursor
<1>5. CASE log' = log
  BY <1>2, <1>5 DEF Cursor
<1>6. CASE log' # log
  <2>1. wire[1].seq = Cursor + 1 /\ log' = Append(log, wire[1].ev) /\ wire[1].ev \in Event
    BY <1>2, <1>6 DEF Receive, Messages
  <2>2. /\ log' \in Seq(Event) /\ Len(log') = Len(log) + 1 /\ log'[Len(log) + 1] = wire[1].ev
        /\ \A n \in 1 .. Len(log) : log'[n] = log[n]
    BY <1>1, <2>1
  <2>4. /\ wire[1].seq = Cursor + 1 /\ log' \in Seq(Event) /\ Cursor' = Cursor + 1
        /\ DOMAIN log' = 1 .. Cursor + 1 /\ log'[Cursor + 1] = wire[1].ev
        /\ \A n \in 1 .. Cursor : log'[n] = log[n]
    BY <2>1, <2>2 DEF Cursor
  <2> QED BY <1>2, <1>3, <1>4, <2>4
<1> QED BY <1>5, <1>6

(* No event is NoEvent, and no emitter is one of the other lock holders.   *)
LEMMA NoEventIs == NoEvent \notin Event
  /\ (\A e \in Emitter : e \notin {None, "resume", "end", "final"})
BY StreamAssumption DEF NoEvent, Event, None

(* What the steps do to the tasks, the resume and the binding.             *)
LEMMA RecordsAre ==
  /\ Idle \in TaskRecord /\ Idle.at = "idle" /\ Idle.own = FALSE /\ Idle.stopped = FALSE
  /\ NoResume \in ResumeRecord /\ NoResume.at = "idle" /\ NoResume.live = FALSE
<1>1. 0 \in 0 .. MaxSeq /\ <<>> \in Seq(Messages)
  BY SeqsAre
<1> QED BY <1>1 DEF Idle, NoResume, TaskRecord, ResumeRecord

(* A step of one task: it begins, leaves or moves; all lose the binding.   *)
Only(e) == task' \in [Emitter -> TaskRecord] /\ \A f \in Emitter \ {e} : task'[f] = task[f]
Begins(e) ==
  /\ counter < MaxSeq /\ task[e].at = "idle" /\ lock' = e
  /\ Only(e) /\ task'[e].at = "number" /\ task'[e].own = TRUE /\ task'[e].stopped = FALSE
Leaves(e) ==
  /\ lock' = (IF lock = e THEN None ELSE lock)
  /\ Only(e) /\ task'[e].at = "idle" /\ task'[e].own = FALSE /\ task'[e].stopped = FALSE
Moves(e, at) ==
  /\ Only(e) /\ task'[e].at = at
  /\ task'[e].own = task[e].own /\ task'[e].stopped = task[e].stopped
Releases ==
  /\ bound' = FALSE /\ last' = 0 /\ lock' = None
  /\ task' \in [Emitter -> TaskRecord]
  /\ \A f \in Emitter : /\ task'[f].at = task[f].at /\ task'[f].seq = task[f].seq
                        /\ task'[f].stopped = task[f].stopped /\ task'[f].own = FALSE

LEMMA BeginIs == ASSUME Types, NEW e \in Emitter, Begin(e) PROVE Begins(e)
BY RecordsAre DEF Types, ServerTypes, Begin, Begins, Only, TaskRecord

LEMMA LeaveIs == ASSUME Types, NEW e \in Emitter, Leave(e) PROVE Leaves(e)
BY RecordsAre DEF Types, ServerTypes, Leave, Leaves, Only, Unlock

LEMMA ReleasedIs == ASSUME Types, Released PROVE Releases
BY DEF Types, ServerTypes, Released, Releases, TaskRecord

(* A resume that does not go through undoes its own binding only.          *)
LEMMA ResumeOverIs ==
  ASSUME Types, ResumeOver
  PROVE  /\ resumer' = NoResume
         /\ \/ /\ resumer.wasBound /\ lock' = (IF lock = "resume" THEN None ELSE lock)
               /\ UNCHANGED <<bound, last, task>>
            \/ ~resumer.wasBound /\ Releases
BY ReleasedIs DEF ResumeOver, Unlock

(* What the types say of each field.                                       *)
LEMMA TypeFacts ==
  ASSUME Types
  PROVE  /\ counter \in Nat /\ base \in Nat /\ last \in Nat /\ epoch \in Nat /\ alive \in BOOLEAN
         /\ DOMAIN stored = Seqs /\ \A n \in Seqs : stored[n] \in Event \union {NoEvent}
         /\ \A e \in Emitter : task[e].seq \in Nat /\ task[e].own \in BOOLEAN
              /\ task[e].stopped \in BOOLEAN
              /\ task[e].at \in {"idle", "number", "store", "send"}
         /\ resumer.from \in Nat /\ resumer.events \in Seq(Messages)
         /\ \A i \in DOMAIN resumer.events : /\ resumer.events[i].seq \in Seqs
                                             /\ resumer.events[i].seq \in Nat
                                             /\ resumer.events[i].ev \in Event
         /\ \A i \in DOMAIN wire : /\ wire[i].seq \in Seqs /\ wire[i].seq \in Nat
                                   /\ wire[i].ev \in Event
         /\ Cursor \in Nat /\ DOMAIN log = 1 .. Cursor /\ \A n \in DOMAIN log : log[n] \in Event
<1>1. \A n \in Seqs : n \in Nat
  BY SeqsAre
<1>3. ASSUME NEW ms \in Seq(Messages), NEW i \in DOMAIN ms
      PROVE  ms[i].seq \in Seqs /\ ms[i].ev \in Event
  <2>1. ms[i] \in Messages
    BY LenProperties
  <2> QED BY <2>1 DEF Messages
<1>4. wire \in Seq(Messages) /\ log \in Seq(Event) /\ resumer \in ResumeRecord
  BY DEF Types, DeviceTypes, ServerTypes
<1>5. Cursor \in Nat /\ DOMAIN log = 1 .. Cursor /\ \A n \in DOMAIN log : log[n] \in Event
  BY <1>4 DEF Cursor
<1>6. resumer.from \in Nat /\ resumer.events \in Seq(Messages)
  BY <1>4 DEF ResumeRecord
<1>7. \A e \in Emitter : task[e].seq \in Nat /\ task[e].own \in BOOLEAN
        /\ task[e].stopped \in BOOLEAN /\ task[e].at \in {"idle", "number", "store", "send"}
  BY DEF Types, ServerTypes, TaskRecord
<1>8. counter \in Nat /\ base \in Nat /\ last \in Nat /\ epoch \in Nat /\ alive \in BOOLEAN
  BY DEF Types, RedisTypes, ServerTypes
<1>9. DOMAIN stored = Seqs /\ \A n \in Seqs : stored[n] \in Event \union {NoEvent}
  BY DEF Types, RedisTypes
<1> QED BY <1>1, <1>3, <1>4, <1>5, <1>6, <1>7, <1>8, <1>9

(* The device has nothing that was not numbered.                           *)
LEMMA CursorIs ==
  ASSUME Types, NumbersFit, LogFits, ending # "told"
  PROVE  Cursor <= counter /\ Cursor \in 0 .. MaxSeq /\ counter <= MaxSeq
<1>1. counter \in 0 .. MaxSeq /\ Cursor \in Nat /\ counter \in Nat
  BY TypeFacts DEF Types, RedisTypes
<1>2. CASE Cursor = 0
  BY <1>1, <1>2, SeqsAre
<1>3. CASE Cursor # 0
  <2>1. Cursor \in DOMAIN log /\ log[Cursor] \in Event
    BY <1>3, TypeFacts
  <2>2. Cursor \in Seqs /\ stored[Cursor] # NoEvent
    BY <2>1, NoEventIs DEF LogFits
  <2>3. ~(Cursor > counter)
    BY <2>2 DEF NumbersFit
  <2> QED BY <1>1, <2>3, SeqsAre
<1> QED BY <1>2, <1>3

(* The last number of the replay is not behind what is on its way, nor     *)
(* behind the device, unless nothing is in the replay since a rebuild.     *)
LEMMA ReplayReaches ==
  ASSUME Types, NumbersFit, WireFits, LogFits, alive
  PROVE  /\ StoredLast \in 0 .. MaxSeq /\ \A n \in Replay : n <= StoredLast
         /\ \A i \in DOMAIN wire : wire[i].seq <= StoredLast
         /\ epoch = 0 \/ StoredLast > 0 => Cursor <= StoredLast
<1>1. ending # "told" /\ base <= counter /\ counter \in 0 .. MaxSeq /\ counter \in Nat
        /\ base \in Nat
  BY DEF NumbersFit, Types, RedisTypes
<1>2. ASSUME NEW n \in Replay PROVE n <= counter /\ n > base /\ n \in Nat
  <2>1. n \in Seqs /\ n \in Nat /\ stored[n] # NoEvent /\ n > base
    BY ReplayIs, SeqsAre
  <2> QED BY <1>1, <2>1 DEF NumbersFit
<1>3. StoredLast \in 0 .. MaxSeq /\ StoredLast \in Nat
  BY <1>1, <1>2, StoredLastIs, SeqsAre
<1>4. ASSUME NEW i \in DOMAIN wire PROVE wire[i].seq <= StoredLast
  <2>1. wire[i].seq \in Seqs /\ stored[wire[i].seq] # NoEvent /\ wire[i].seq > base
    BY <1>1, TypeFacts, NoEventIs DEF WireFits, OnItsWay, Stored
  <2> QED BY <2>1, ReplayIs, StoredLastIs
<1>5. ASSUME epoch = 0 \/ StoredLast > 0 PROVE Cursor <= StoredLast
  <2>1. Cursor \in Nat /\ Cursor <= counter
    BY <1>1, CursorIs
  <2>2. CASE Cursor > base
    <3>1. Cursor \in DOMAIN log /\ log[Cursor] \in Event
      BY <2>2, TypeFacts
    <3>2. Cursor \in Replay
      BY <2>2, <3>1, ReplayIs, NoEventIs DEF LogFits
    <3> QED BY <3>2, StoredLastIs
  <2>3. CASE Cursor = 0
    BY <1>3, <2>3
  <2>4. CASE Cursor <= base /\ Cursor # 0
    <3>1. base # 0 /\ StoredLast > 0
      BY <1>5, <2>1, <2>4 DEF NumbersFit
    <3>2. StoredLast > base
      BY <1>2, <3>1, StoredLastIs
    <3> QED BY <1>1, <1>3, <2>1, <2>4, <3>2
  <2> QED BY <1>1, <2>1, <2>2, <2>3, <2>4
<1> QED BY <1>3, <1>4, <1>5, StoredLastIs

(* A step that stores nothing and takes no number.                         *)
LEMMA TasksStay ==
  ASSUME Types, TasksFit, alive' => alive, UNCHANGED <<base, counter, stored>>, last' \in Nat,
         \A f \in Emitter : task'[f].at \in {"store", "send"} =>
           /\ task'[f].at = task[f].at /\ task'[f].seq = task[f].seq
           /\ task'[f].stopped = task[f].stopped \/ task[f].at = "store"
           /\ Working(f)' => Working(f) /\ last <= last'
  PROVE  TasksFit'
<1>1. ASSUME NEW e \in Emitter, alive', task'[e].at = "store"
      PROVE  /\ base < task'[e].seq /\ task'[e].seq <= counter /\ stored[task'[e].seq] = NoEvent
             /\ \A f \in Emitter : task'[f].at = "store" /\ f # e => task'[f].seq # task'[e].seq
  BY <1>1 DEF TasksFit
<1>2. ASSUME NEW e \in Emitter, task'[e].at = "send"
      PROVE  /\ ~task'[e].stopped /\ 0 < task'[e].seq /\ stored[task'[e].seq] # NoEvent
             /\ alive' => base < task'[e].seq
  BY <1>2 DEF TasksFit
<1>3. ASSUME NEW e \in Emitter, Working(e)', task'[e].at \in {"store", "send"}
      PROVE  task'[e].seq <= last'
  <2>1. task[e].seq <= last /\ last <= last' /\ task'[e].seq = task[e].seq
    BY <1>3 DEF TasksFit
  <2> QED BY <2>1, TypeFacts
<1> QED BY <1>1, <1>2, <1>3 DEF TasksFit, Working

(* No task works under a lock that no task holds.                          *)
LEMMA NobodyWorks ==
  ASSUME LocksFit, lock \in {None, "resume", "end"}
  PROVE  \A e \in Emitter : ~Working(e)
BY NoEventIs DEF LocksFit

(* What a message that is on its way has to be after a step.               *)
Travels(m) ==
  /\ stored'[m.seq] = m.ev \/ (ending' = "told" /\ m.seq <= Cursor')
  /\ alive' => base' < m.seq
  /\ bound' /\ ~Reading' => m.seq <= last'

LEMMA TravelsIs ==
  ASSUME \A i \in DOMAIN wire' : Travels(wire'[i]),
         resumer'.at = "read" /\ ~resumer'.live => wire' = <<>>
  PROVE  WireFits'
BY DEF Travels, WireFits, OnItsWay, Stored

------------------------------------------------------------------------------
(* One lemma for each kind of step: it keeps every part of the invariant.  *)
(* A task starts an emit under the lock.                                   *)
LEMMA BeginsKeep ==
  ASSUME IInv, NEW e \in Emitter, Begins(e), bound, ~Reading,
         lock \in {None, "resume"}, resumer'.at = "idle", resumer' \in ResumeRecord,
         (lock = "resume" \/ resumer' = resumer),
         UNCHANGED <<counter, base, alive, stored, epoch, bound, last, ending, wire, inbox, log,
                     happened>>
  PROVE  IInv'
<1>0. /\ Types /\ LocksFit /\ OwnersFit /\ NumbersFit /\ TasksFit
      /\ EventsFit /\ WireFits /\ LogFits /\ GoneFits /\ TrackerFits
  BY DEF IInv
<1>t. RedisTypes /\ ServerTypes /\ DeviceTypes
  BY <1>0 DEF Types
<1>1. RedisTypes'
  BY <1>t DEF RedisTypes
<1>2. ServerTypes'
  BY <1>t DEF ServerTypes, Begins, Only
<1>3. DeviceTypes'
  BY <1>t DEF DeviceTypes
<1>4. LocksFit'
  BY <1>0, NoEventIs DEF LocksFit, Working, Begins, Only
<1>5. OwnersFit'
  BY <1>0 DEF OwnersFit, Working, Reading, Begins, Only
<1>6. NumbersFit'
  BY <1>0 DEF NumbersFit
<1>7. TasksFit'
  BY <1>0 DEF TasksFit, Working, Begins, Only
<1>8. EventsFit'
  BY DEF EventsFit
<1>9. WireFits'
  BY <1>0 DEF WireFits, OnItsWay, Stored, Cursor
<1>10. LogFits'
  BY <1>0 DEF LogFits
<1>11. GoneFits'
  BY <1>0 DEF GoneFits, Cursor, Begins, Only
<1>12. TrackerFits'
  BY <1>0 DEF TrackerFits, Cursor
<1> QED BY <1>1, <1>2, <1>3, <1>4, <1>5, <1>6, <1>7, <1>8, <1>9, <1>10, <1>11, <1>12 DEF IInv, Types

(* A number is handed out: it is the largest, and the tracker of the       *)
(* binding the task works for knows it.                                    *)
LEMMA GivenKeep ==
  ASSUME IInv, NEW e \in Emitter, task[e].at = "number", alive, counter < MaxSeq,
         counter' = counter + 1, last' = (IF task[e].own THEN Above(last, counter + 1) ELSE last),
         Moves(e, "store"), task'[e].seq = counter + 1,
         UNCHANGED <<base, alive, stored, epoch, bound, lock, resumer, ending, wire, inbox, log,
                     happened>>
  PROVE  IInv'
<1>0. /\ Types /\ LocksFit /\ OwnersFit /\ NumbersFit /\ TasksFit
      /\ EventsFit /\ WireFits /\ LogFits /\ GoneFits /\ TrackerFits
  BY DEF IInv
<1>t. RedisTypes /\ ServerTypes /\ DeviceTypes
  BY <1>0 DEF Types
<1>g. /\ counter + 1 \in 0 .. MaxSeq /\ counter + 1 \in Nat /\ counter + 1 \in Seqs
      /\ last' \in 0 .. MaxSeq /\ last <= last' /\ (task[e].own => counter + 1 <= last')
      /\ (~task[e].own => last' = last) /\ last' \in Nat
  BY <1>0, TypeFacts, SeqsAre DEF Types, ServerTypes, Above
<1>1. RedisTypes'
  BY <1>t, <1>g DEF RedisTypes
<1>2. ServerTypes'
  BY <1>t, <1>g DEF ServerTypes, Moves, Only
<1>3. DeviceTypes'
  BY <1>t DEF DeviceTypes
<1>4. LocksFit'
  BY <1>0 DEF LocksFit, Working, Moves, Only, None
<1>5. OwnersFit'
  BY <1>0 DEF OwnersFit, Working, Reading, Moves, Only
<1>6. NumbersFit'
  <2>1. \A n \in Seqs : n \in Nat
    BY SeqsAre
  <2> QED BY <1>0, <1>g, <2>1, TypeFacts DEF NumbersFit
<1>7. TasksFit'
  <2>0. \A f \in Emitter \ {e} : task'[f] = task[f]
    BY DEF Moves, Only
  <2>1. ASSUME NEW f \in Emitter, alive', task'[f].at = "store"
        PROVE  base < task'[f].seq /\ task'[f].seq <= counter + 1 /\ stored[task'[f].seq] = NoEvent
    <3>1. CASE f = e
      BY <1>0, <1>g, <3>1, TypeFacts DEF NumbersFit
    <3>2. CASE f # e
      BY <1>0, <2>0, <2>1, <3>2, TypeFacts DEF TasksFit
    <3> QED BY <3>1, <3>2
  <2>2. ASSUME NEW f \in Emitter, NEW g \in Emitter, f # g, alive,
               task'[f].at = "store", task'[g].at = "store"
        PROVE  task'[f].seq # task'[g].seq
    <3>1. \A h \in Emitter : task[h].at = "store" => task[h].seq <= counter /\ task[h].seq \in Nat
      BY <1>0, TypeFacts DEF TasksFit
    <3>2. CASE f = e
      BY <2>0, <2>2, <3>1, <3>2, TypeFacts, <1>0
    <3>3. CASE g = e
      BY <2>0, <2>2, <3>1, <3>3, TypeFacts, <1>0
    <3>4. CASE f # e /\ g # e
      BY <1>0, <2>0, <2>2, <3>4 DEF TasksFit
    <3> QED BY <3>2, <3>3, <3>4
  <2>3. ASSUME NEW f \in Emitter, task'[f].at = "send"
        PROVE  ~task'[f].stopped /\ 0 < task'[f].seq /\ stored[task'[f].seq] # NoEvent
               /\ (alive' => base < task'[f].seq)
    BY <1>0, <2>0, <2>3 DEF TasksFit, Moves
  <2>4. ASSUME NEW f \in Emitter, Working(f)', task'[f].at \in {"store", "send"}
        PROVE  task'[f].seq <= last'
    <3>1. CASE f = e
      BY <1>0, <1>g, <2>4, <3>1 DEF Working, OwnersFit, Moves
    <3>2. CASE f # e
      <4>1. task[f].seq <= last
        BY <1>0, <2>0, <2>4, <3>2 DEF TasksFit, Working
      <4> QED BY <1>0, <1>g, <2>0, <3>2, <4>1, TypeFacts
    <3> QED BY <3>1, <3>2
  <2> QED BY <2>1, <2>2, <2>3, <2>4 DEF TasksFit
<1>8. EventsFit'
  BY <1>0, TypeFacts DEF EventsFit, Stored, Only, Above
<1>9. WireFits'
  BY <1>0, TypeFacts, <1>g DEF WireFits, OnItsWay, Stored, Reading, Cursor
<1>10. LogFits'
  BY <1>0 DEF LogFits
<1>11. GoneFits'
  BY DEF GoneFits
<1>12. TrackerFits'
  <2>1. Cursor <= counter
    BY <1>0, CursorIs DEF NumbersFit
  <2> QED BY <1>0, <1>g, <2>1, TypeFacts DEF TrackerFits, Reading, Cursor
<1> QED BY <1>1, <1>2, <1>3, <1>4, <1>5, <1>6, <1>7, <1>8, <1>9, <1>10, <1>11, <1>12 DEF IInv, Types

(* An event is stored at the number its task was given, where nothing was. *)
LEMMA StoredMovesKeep ==
  ASSUME IInv, NEW e \in Emitter, task[e].at = "store", alive, ~task[e].stopped,
         stored' = [stored EXCEPT ![task[e].seq] = [epoch |-> epoch, by |-> e]],
         Moves(e, "send"), task'[e].seq = task[e].seq,
         UNCHANGED <<counter, base, alive, epoch, bound, last, lock, resumer, ending, wire, inbox,
                     log, happened>>
  PROVE  IInv'
<1>0. /\ Types /\ LocksFit /\ OwnersFit /\ NumbersFit /\ TasksFit
      /\ EventsFit /\ WireFits /\ LogFits /\ GoneFits /\ TrackerFits
  BY DEF IInv
<1>t. RedisTypes /\ ServerTypes /\ DeviceTypes
  BY <1>0 DEF Types
<1>s. /\ task[e].seq \in Seqs /\ task[e].seq \in Nat /\ task[e].seq <= counter
      /\ stored[task[e].seq] = NoEvent
      /\ stored' \in [Seqs -> Event \union {NoEvent}]
      /\ stored'[task[e].seq] # NoEvent
      /\ \A n \in Seqs : n # task[e].seq => stored'[n] = stored[n]
  <2>1. task[e].seq \in Nat /\ base \in Nat /\ counter \in Nat /\ base < task[e].seq
    BY <1>0, TypeFacts DEF TasksFit
  <2>2. task[e].seq <= counter /\ counter <= MaxSeq /\ stored[task[e].seq] = NoEvent
    BY <1>0, <1>t DEF TasksFit, RedisTypes
  <2>3. task[e].seq \in Seqs
    BY <2>1, <2>2, SeqsAre
  <2>4. [epoch |-> epoch, by |-> e] \in Event
    BY <1>t DEF RedisTypes, Event
  <2> QED BY <1>t, <2>1, <2>2, <2>3, <2>4, NoEventIs DEF RedisTypes
<1>k. \A n \in Seqs : stored[n] # NoEvent => stored'[n] = stored[n]
  BY <1>s
<1>1. RedisTypes'
  BY <1>t, <1>s DEF RedisTypes
<1>2. ServerTypes'
  BY <1>t DEF ServerTypes, Moves, Only
<1>3. DeviceTypes'
  BY <1>t DEF DeviceTypes
<1>4. LocksFit'
  BY <1>0 DEF LocksFit, Working, Moves, Only
<1>5. OwnersFit'
  BY <1>0 DEF OwnersFit, Working, Reading, Moves, Only
<1>6. NumbersFit'
  <2>1. \A n \in Seqs : n \in Nat
    BY SeqsAre
  <2> QED BY <1>0, <1>s, <2>1, TypeFacts DEF NumbersFit
<1>7. TasksFit'
  <2>0. \A f \in Emitter \ {e} : task'[f] = task[f]
    BY DEF Leaves, Moves, Only
  <2>1. ASSUME NEW f \in Emitter, task'[f].at = "store"
        PROVE  f # e /\ task[f].seq # task[e].seq /\ task'[f] = task[f]
               /\ base < task[f].seq /\ task[f].seq <= counter /\ stored[task[f].seq] = NoEvent
    BY <1>0, <2>0, <2>1 DEF TasksFit, Moves
  <2>2. ASSUME NEW f \in Emitter, task'[f].at = "store" PROVE stored'[task[f].seq] = NoEvent
    <3>1. task[f].seq \in Seqs
      BY <2>1, <2>2, <1>t, TypeFacts, SeqsAre, <1>0 DEF RedisTypes
    <3> QED BY <1>s, <2>1, <2>2, <3>1
  <2>3. \A f, g \in Emitter : task'[f].at = "store" /\ task'[g].at = "store" /\ f # g
                                => task'[f].seq # task'[g].seq
    BY <1>0, <2>1 DEF TasksFit
  <2>4. ASSUME NEW f \in Emitter, task'[f].at = "send"
        PROVE  ~task'[f].stopped /\ 0 < task'[f].seq /\ stored'[task'[f].seq] # NoEvent
               /\ (alive' => base < task'[f].seq)
    <3>1. CASE f = e
      BY <1>0, <1>s, <3>1, TypeFacts DEF TasksFit, Moves
    <3>2. CASE f # e
      <4>1. task'[f] = task[f] /\ ~task[f].stopped /\ 0 < task[f].seq
            /\ stored[task[f].seq] # NoEvent /\ base < task[f].seq
        BY <1>0, <2>0, <2>4, <3>2 DEF TasksFit
      <4>2. task[f].seq \in Seqs
        BY <1>t, <4>1, SeqsAre DEF ServerTypes, TaskRecord
      <4> QED BY <1>k, <4>1, <4>2
    <3> QED BY <3>1, <3>2
  <2>5. ASSUME NEW f \in Emitter, Working(f)', task'[f].at \in {"store", "send"}
        PROVE  task'[f].seq <= last
    BY <1>0, <2>0, <2>5 DEF TasksFit, Working
  <2> QED BY <2>1, <2>2, <2>3, <2>4, <2>5 DEF TasksFit, Working
<1>8. EventsFit'
  <2>1. ASSUME NEW i \in DOMAIN resumer.events, resumer.at = "send"
        PROVE  Stored(resumer.events[i])'
    BY <1>0, <1>k, <2>1, TypeFacts, NoEventIs DEF EventsFit, Stored
  <2> QED BY <1>0, <2>1 DEF EventsFit
<1>9. WireFits'
  <2>1. ASSUME NEW i \in DOMAIN wire PROVE OnItsWay(wire[i])'
    <3>1. wire[i].seq \in Seqs /\ wire[i].ev \in Event /\ OnItsWay(wire[i]) /\ ending # "told"
      BY <1>0, TypeFacts DEF WireFits, NumbersFit
    <3> QED BY <1>k, <3>1, NoEventIs DEF OnItsWay, Stored, Reading
  <2> QED BY <1>0, <2>1 DEF WireFits
<1>10. LogFits'
  BY <1>0, <1>k, TypeFacts, NoEventIs DEF LogFits
<1>11. GoneFits'
  BY DEF GoneFits
<1>12. TrackerFits'
  BY <1>0 DEF TrackerFits, Reading, Cursor
<1> QED BY <1>1, <1>2, <1>3, <1>4, <1>5, <1>6, <1>7, <1>8, <1>9, <1>10, <1>11, <1>12 DEF IInv, Types

(* The same by the thread of a task that was stopped.                      *)
LEMMA StoredLeavesKeep ==
  ASSUME IInv, NEW e \in Emitter, task[e].at = "store", alive,
         stored' = [stored EXCEPT ![task[e].seq] = [epoch |-> epoch, by |-> e]],
         Leaves(e),
         UNCHANGED <<counter, base, alive, epoch, bound, last, resumer, ending, wire, inbox, log,
                     happened>>
  PROVE  IInv'
<1>0. /\ Types /\ LocksFit /\ OwnersFit /\ NumbersFit /\ TasksFit
      /\ EventsFit /\ WireFits /\ LogFits /\ GoneFits /\ TrackerFits
  BY DEF IInv
<1>t. RedisTypes /\ ServerTypes /\ DeviceTypes
  BY <1>0 DEF Types
<1>s. /\ task[e].seq \in Seqs /\ task[e].seq \in Nat /\ task[e].seq <= counter
      /\ stored[task[e].seq] = NoEvent
      /\ stored' \in [Seqs -> Event \union {NoEvent}]
      /\ stored'[task[e].seq] # NoEvent
      /\ \A n \in Seqs : n # task[e].seq => stored'[n] = stored[n]
  <2>1. task[e].seq \in Nat /\ base \in Nat /\ counter \in Nat /\ base < task[e].seq
    BY <1>0, TypeFacts DEF TasksFit
  <2>2. task[e].seq <= counter /\ counter <= MaxSeq /\ stored[task[e].seq] = NoEvent
    BY <1>0, <1>t DEF TasksFit, RedisTypes
  <2>3. task[e].seq \in Seqs
    BY <2>1, <2>2, SeqsAre
  <2>4. [epoch |-> epoch, by |-> e] \in Event
    BY <1>t DEF RedisTypes, Event
  <2> QED BY <1>t, <2>1, <2>2, <2>3, <2>4, NoEventIs DEF RedisTypes
<1>k. \A n \in Seqs : stored[n] # NoEvent => stored'[n] = stored[n]
  BY <1>s
<1>1. RedisTypes'
  BY <1>t, <1>s DEF RedisTypes
<1>2. ServerTypes'
  BY <1>t DEF ServerTypes, Leaves, Only
<1>3. DeviceTypes'
  BY <1>t DEF DeviceTypes
<1>4. LocksFit'
  BY <1>0, NoEventIs DEF LocksFit, Working, Leaves, Only, None
<1>5. OwnersFit'
  BY <1>0 DEF OwnersFit, Working, Reading, Leaves, Only
<1>6. NumbersFit'
  <2>1. \A n \in Seqs : n \in Nat
    BY SeqsAre
  <2> QED BY <1>0, <1>s, <2>1, TypeFacts DEF NumbersFit
<1>7. TasksFit'
  <2>0. \A f \in Emitter \ {e} : task'[f] = task[f]
    BY DEF Leaves, Only
  <2>1. ASSUME NEW f \in Emitter, task'[f].at = "store"
        PROVE  f # e /\ task[f].seq # task[e].seq /\ task'[f] = task[f]
               /\ base < task[f].seq /\ task[f].seq <= counter /\ stored[task[f].seq] = NoEvent
    BY <1>0, <2>0, <2>1 DEF TasksFit, Leaves
  <2>2. ASSUME NEW f \in Emitter, task'[f].at = "store" PROVE stored'[task[f].seq] = NoEvent
    <3>1. task[f].seq \in Seqs
      BY <2>1, <2>2, <1>t, TypeFacts, SeqsAre, <1>0 DEF RedisTypes
    <3> QED BY <1>s, <2>1, <2>2, <3>1
  <2>3. \A f, g \in Emitter : task'[f].at = "store" /\ task'[g].at = "store" /\ f # g
                                => task'[f].seq # task'[g].seq
    BY <1>0, <2>1 DEF TasksFit
  <2>4. ASSUME NEW f \in Emitter, task'[f].at = "send"
        PROVE  ~task'[f].stopped /\ 0 < task'[f].seq /\ stored'[task'[f].seq] # NoEvent
               /\ (alive' => base < task'[f].seq)
    <3>1. CASE f = e
      BY <2>4, <3>1 DEF Leaves
    <3>2. CASE f # e
      <4>1. task'[f] = task[f] /\ ~task[f].stopped /\ 0 < task[f].seq
            /\ stored[task[f].seq] # NoEvent /\ base < task[f].seq
        BY <1>0, <2>0, <2>4, <3>2 DEF TasksFit
      <4>2. task[f].seq \in Seqs
        BY <1>t, <4>1, SeqsAre DEF ServerTypes, TaskRecord
      <4> QED BY <1>k, <4>1, <4>2
    <3> QED BY <3>1, <3>2
  <2>5. ASSUME NEW f \in Emitter, Working(f)', task'[f].at \in {"store", "send"}
        PROVE  task'[f].seq <= last
    BY <1>0, <2>0, <2>5 DEF TasksFit, Working, Leaves
  <2> QED BY <2>1, <2>2, <2>3, <2>4, <2>5 DEF TasksFit, Working
<1>8. EventsFit'
  <2>1. ASSUME NEW i \in DOMAIN resumer.events, resumer.at = "send"
        PROVE  Stored(resumer.events[i])'
    BY <1>0, <1>k, <2>1, TypeFacts, NoEventIs DEF EventsFit, Stored
  <2> QED BY <1>0, <2>1 DEF EventsFit
<1>9. WireFits'
  <2>1. ASSUME NEW i \in DOMAIN wire PROVE OnItsWay(wire[i])'
    <3>1. wire[i].seq \in Seqs /\ wire[i].ev \in Event /\ OnItsWay(wire[i]) /\ ending # "told"
      BY <1>0, TypeFacts DEF WireFits, NumbersFit
    <3> QED BY <1>k, <3>1, NoEventIs DEF OnItsWay, Stored, Reading
  <2> QED BY <1>0, <2>1 DEF WireFits
<1>10. LogFits'
  BY <1>0, <1>k, TypeFacts, NoEventIs DEF LogFits
<1>11. GoneFits'
  BY DEF GoneFits
<1>12. TrackerFits'
  BY <1>0 DEF TrackerFits, Reading, Cursor
<1> QED BY <1>1, <1>2, <1>3, <1>4, <1>5, <1>6, <1>7, <1>8, <1>9, <1>10, <1>11, <1>12 DEF IInv, Types

(* A stored event is sent.                                                 *)
LEMMA SendsKeep ==
  ASSUME IInv, NEW e \in Emitter, task[e].at = "send",
         Deliver(<<Message(task[e].seq, stored[task[e].seq])>>), Leaves(e),
         UNCHANGED <<counter, base, alive, stored, epoch, bound, last, resumer, ending, inbox,
                     log, happened>>
  PROVE  IInv'
<1>0. /\ Types /\ LocksFit /\ OwnersFit /\ NumbersFit /\ TasksFit
      /\ EventsFit /\ WireFits /\ LogFits /\ GoneFits /\ TrackerFits
  BY DEF IInv
<1>t. RedisTypes /\ ServerTypes /\ DeviceTypes
  BY <1>0 DEF Types
<1> DEFINE m == Message(task[e].seq, stored[task[e].seq])
<1>m. /\ Working(e) /\ m \in Messages /\ m.seq = task[e].seq /\ m.ev = stored[task[e].seq]
      /\ <<m>> \in Seq(Messages) /\ \A i \in DOMAIN <<m>> : <<m>>[i] = m
  <2>1. Working(e) /\ stored[task[e].seq] # NoEvent /\ 0 < task[e].seq
    BY <1>0 DEF TasksFit, Working
  <2>2. task[e].seq \in Seqs
    BY <1>t, <2>1, SeqsAre DEF ServerTypes, TaskRecord
  <2>3. stored[task[e].seq] \in Event
    BY <1>0, <2>1, <2>2, TypeFacts
  <2>4. m \in Messages /\ m.seq = task[e].seq /\ m.ev = stored[task[e].seq]
    BY <2>2, <2>3 DEF Message, Messages
  <2> HIDE DEF m
  <2> QED BY <2>1, <2>4
<1>w. /\ wire' \in Seq(Messages)
      /\ \A i \in DOMAIN wire' : (\E j \in DOMAIN wire : wire'[i] = wire[j]) \/ wire'[i] = m
  <2> HIDE DEF m
  <2>1. Deliver(<<m>>)
    BY DEF m
  <2> QED BY <1>0, <1>m, <2>1, DeliverIs
<1> HIDE DEF m
<1>1. RedisTypes'
  BY <1>t DEF RedisTypes
<1>2. ServerTypes'
  BY <1>t DEF ServerTypes, Leaves, Only
<1>3. DeviceTypes'
  BY <1>t, <1>w DEF DeviceTypes
<1>4. LocksFit'
  BY <1>0, NoEventIs DEF LocksFit, Working, Leaves, Only, None
<1>5. OwnersFit'
  BY <1>0 DEF OwnersFit, Working, Reading, Leaves, Only
<1>6. NumbersFit'
  BY <1>0 DEF NumbersFit
<1>7. TasksFit'
  BY <1>0, TypeFacts, TasksStay DEF Working, Leaves, Only
<1>8. EventsFit'
  BY <1>0 DEF EventsFit, Stored
<1>9. WireFits'
  <2>1. \A i \in DOMAIN wire : Travels(wire[i])
    BY <1>0 DEF WireFits, OnItsWay, Stored, Reading, Cursor, Travels
  <2>2. Travels(m)
    BY <1>0, <1>m DEF TasksFit, Travels
  <2>3. \A i \in DOMAIN wire' : Travels(wire'[i])
    BY <1>w, <2>1, <2>2
  <2>4. ~(resumer'.at = "read" /\ ~resumer'.live)
    BY <1>0, <1>m, NoEventIs DEF LocksFit
  <2> QED BY <2>3, <2>4, TravelsIs
<1>10. LogFits'
  BY <1>0 DEF LogFits
<1>11. GoneFits'
  BY <1>0 DEF GoneFits
<1>12. TrackerFits'
  BY <1>0 DEF TrackerFits, Reading, Cursor
<1> QED BY <1>1, <1>2, <1>3, <1>4, <1>5, <1>6, <1>7, <1>8, <1>9, <1>10, <1>11, <1>12 DEF IInv, Types

(* A task is done, or its emit raises.                                     *)
LEMMA LeavesKeep ==
  ASSUME IInv, NEW e \in Emitter, Leaves(e),
         happened \subseteq happened',
         UNCHANGED <<counter, base, alive, stored, epoch, bound, last, resumer, ending, wire,
                     inbox, log>>
  PROVE  IInv'
<1>0. /\ Types /\ LocksFit /\ OwnersFit /\ NumbersFit /\ TasksFit
      /\ EventsFit /\ WireFits /\ LogFits /\ GoneFits /\ TrackerFits
  BY DEF IInv
<1>t. RedisTypes /\ ServerTypes /\ DeviceTypes
  BY <1>0 DEF Types
<1>1. RedisTypes'
  BY <1>t DEF RedisTypes
<1>2. ServerTypes'
  BY <1>t DEF ServerTypes, Leaves, Only
<1>3. DeviceTypes'
  BY <1>t DEF DeviceTypes
<1>4. LocksFit'
  BY <1>0, NoEventIs DEF LocksFit, Working, Leaves, Only, None
<1>5. OwnersFit'
  BY <1>0 DEF OwnersFit, Working, Reading, Leaves, Only
<1>6. NumbersFit'
  BY <1>0 DEF NumbersFit
<1>7. TasksFit'
  BY <1>0, TypeFacts, TasksStay DEF Working, Leaves, Only
<1>8. EventsFit'
  BY <1>0 DEF EventsFit, Stored
<1>9. WireFits'
  BY <1>0 DEF WireFits, OnItsWay, Stored, Reading, Cursor
<1>10. LogFits'
  BY <1>0 DEF LogFits
<1>11. GoneFits'
  BY <1>0 DEF GoneFits, Cursor, Leaves, Only
<1>12. TrackerFits'
  BY <1>0 DEF TrackerFits, Reading, Cursor
<1> QED BY <1>1, <1>2, <1>3, <1>4, <1>5, <1>6, <1>7, <1>8, <1>9, <1>10, <1>11, <1>12 DEF IInv, Types

(* A task is cancelled: its thread goes on without the lock.               *)
LEMMA StopsKeep ==
  ASSUME IInv, NEW e \in Emitter, Working(e), Only(e),
         lock' = (IF lock = e THEN None ELSE lock),
         task[e].at = "send" => task'[e].at = "idle" /\ ~task'[e].own,
         task[e].at # "send" => /\ task'[e].at = task[e].at /\ task'[e].seq = task[e].seq
                               /\ task'[e].own = task[e].own /\ task'[e].stopped,
         happened \subseteq happened',
         UNCHANGED <<counter, base, alive, stored, epoch, bound, last, resumer, ending, wire,
                     inbox, log>>
  PROVE  IInv'
<1>0. /\ Types /\ LocksFit /\ OwnersFit /\ NumbersFit /\ TasksFit
      /\ EventsFit /\ WireFits /\ LogFits /\ GoneFits /\ TrackerFits
  BY DEF IInv
<1>t. RedisTypes /\ ServerTypes /\ DeviceTypes
  BY <1>0 DEF Types
<1>1. RedisTypes'
  BY <1>t DEF RedisTypes
<1>2. ServerTypes'
  BY <1>t DEF ServerTypes, Only
<1>3. DeviceTypes'
  BY <1>t DEF DeviceTypes
<1>4. LocksFit'
  BY <1>0, NoEventIs DEF LocksFit, Working, Only, None
<1>5. OwnersFit'
  BY <1>0 DEF OwnersFit, Working, Reading, Only
<1>6. NumbersFit'
  BY <1>0 DEF NumbersFit
<1>7. TasksFit'
  BY <1>0, TypeFacts, TasksStay DEF Working, Only
<1>8. EventsFit'
  BY <1>0 DEF EventsFit, Stored
<1>9. WireFits'
  BY <1>0 DEF WireFits, OnItsWay, Stored, Reading, Cursor
<1>10. LogFits'
  BY <1>0 DEF LogFits
<1>11. GoneFits'
  BY <1>0 DEF GoneFits, Cursor, Only
<1>12. TrackerFits'
  BY <1>0 DEF TrackerFits, Reading, Cursor
<1> QED BY <1>1, <1>2, <1>3, <1>4, <1>5, <1>6, <1>7, <1>8, <1>9, <1>10, <1>11, <1>12 DEF IInv, Types

(* The binding goes. No task that works under its lock is left.            *)
LEMMA ReleasesKeep ==
  ASSUME IInv, Releases, lock \in {None, "resume"}, resumer'.at = "idle", resumer' \in ResumeRecord,
         happened \subseteq happened',
         UNCHANGED <<counter, base, alive, stored, epoch, ending, wire, inbox, log>>
  PROVE  IInv'
<1>0. /\ Types /\ LocksFit /\ OwnersFit /\ NumbersFit /\ TasksFit
      /\ EventsFit /\ WireFits /\ LogFits /\ GoneFits /\ TrackerFits
  BY DEF IInv
<1>t. RedisTypes /\ ServerTypes /\ DeviceTypes
  BY <1>0 DEF Types
<1>n. \A f \in Emitter : ~Working(f)
  BY <1>0, NobodyWorks
<1>1. RedisTypes'
  BY <1>t DEF RedisTypes
<1>2. ServerTypes'
  <2>1. 0 \in 0 .. MaxSeq
    BY SeqsAre
  <2> QED BY <1>t, <2>1 DEF ServerTypes, Releases
<1>3. DeviceTypes'
  BY <1>t DEF DeviceTypes
<1>4. LocksFit'
  BY NoEventIs, <1>n DEF LocksFit, Working, Releases, None
<1>5. OwnersFit'
  BY <1>n DEF OwnersFit, Working, Releases
<1>6. NumbersFit'
  BY <1>0 DEF NumbersFit
<1>7. TasksFit'
  BY <1>0, TasksStay, <1>n DEF Working, Releases
<1>8. EventsFit'
  BY DEF EventsFit
<1>9. WireFits'
  BY <1>0 DEF WireFits, OnItsWay, Stored, Cursor, Releases
<1>10. LogFits'
  BY <1>0 DEF LogFits
<1>11. GoneFits'
  BY <1>0 DEF GoneFits, Cursor, Releases
<1>12. TrackerFits'
  BY DEF TrackerFits, Releases
<1> QED BY <1>1, <1>2, <1>3, <1>4, <1>5, <1>6, <1>7, <1>8, <1>9, <1>10, <1>11, <1>12 DEF IInv, Types

(* A resume takes the lock of the binding there is, or of one it makes.    *)
LEMMA TakesKeep ==
  ASSUME IInv, inbox # {}, resumer.at = "idle", lock = None, inbox' = {},
         bound' = TRUE, last' = (IF bound THEN last ELSE 0), lock' = "resume",
         resumer' \in ResumeRecord, resumer'.at = "read", resumer'.from \in inbox, resumer'.live,
         resumer'.wasBound = bound, resumer'.events = <<>>,
         UNCHANGED <<counter, base, alive, stored, epoch, task, ending, wire, log, happened>>
  PROVE  IInv'
<1>0. /\ Types /\ LocksFit /\ OwnersFit /\ NumbersFit /\ TasksFit
      /\ EventsFit /\ WireFits /\ LogFits /\ GoneFits /\ TrackerFits
  BY DEF IInv
<1>t. RedisTypes /\ ServerTypes /\ DeviceTypes
  BY <1>0 DEF Types
<1>n. /\ \A f \in Emitter : ~Working(f)
      /\ last' \in 0 .. MaxSeq /\ last' \in Nat
  <2>1. \A f \in Emitter : ~Working(f)
    BY <1>0, NobodyWorks
  <2>2. last' \in 0 .. MaxSeq /\ last' \in Nat
    BY <1>t, SeqsAre DEF ServerTypes
  <2> QED BY <2>1, <2>2
<1>1. RedisTypes'
  BY <1>t DEF RedisTypes
<1>2. ServerTypes'
  BY <1>t, <1>n DEF ServerTypes
<1>3. DeviceTypes'
  BY <1>t DEF DeviceTypes
<1>4. LocksFit'
  BY NoEventIs, <1>n DEF LocksFit, Working
<1>5. OwnersFit'
  BY <1>0 DEF OwnersFit, Working, Reading
<1>6. NumbersFit'
  BY <1>0 DEF NumbersFit
<1>7. TasksFit'
  BY <1>0, TasksStay, <1>n DEF Working
<1>8. EventsFit'
  BY DEF EventsFit
<1>9. WireFits'
  BY <1>0 DEF WireFits, OnItsWay, Stored, Reading, Cursor
<1>10. LogFits'
  BY <1>0 DEF LogFits
<1>11. GoneFits'
  BY <1>0 DEF GoneFits, Cursor
<1>12. TrackerFits'
  BY <1>0 DEF TrackerFits, Reading, Cursor
<1> QED BY <1>1, <1>2, <1>3, <1>4, <1>5, <1>6, <1>7, <1>8, <1>9, <1>10, <1>11, <1>12 DEF IInv, Types

(* A resume reads the replay: the tracker is at least at its end.          *)
LEMMA ReadsKeep ==
  ASSUME IInv, resumer.at = "read", alive, resumer' \in ResumeRecord, resumer'.at = "send",
         resumer'.events = ReplayAfter(resumer.from), last' = Above(last, StoredLast),
         UNCHANGED <<counter, base, alive, stored, epoch, bound, lock, task, ending, wire, inbox,
                     log, happened>>
  PROVE  IInv'
<1>0. /\ Types /\ LocksFit /\ OwnersFit /\ NumbersFit /\ TasksFit
      /\ EventsFit /\ WireFits /\ LogFits /\ GoneFits /\ TrackerFits
  BY DEF IInv
<1>t. RedisTypes /\ ServerTypes /\ DeviceTypes
  BY <1>0 DEF Types
<1>r. /\ StoredLast \in 0 .. MaxSeq /\ StoredLast <= last' /\ last <= last'
      /\ last' \in 0 .. MaxSeq /\ last' \in Nat /\ last' \in {last, StoredLast}
  BY <1>0, <1>t, ReplayReaches DEF ServerTypes, Above
<1>e. \A n \in Replay : n <= last' /\ base < n
  <2>1. ASSUME NEW n \in Replay PROVE n <= last' /\ base < n
    <3>1. n \in Nat /\ n <= StoredLast /\ base < n
      BY ReplayIs, SeqsAre, StoredLastIs, <1>0, TypeFacts
    <3> QED BY <1>r, <3>1, SeqsAre
  <2> QED BY <2>1
<1>1. RedisTypes'
  BY <1>t DEF RedisTypes
<1>2. ServerTypes'
  BY <1>t, <1>r DEF ServerTypes
<1>3. DeviceTypes'
  BY <1>t DEF DeviceTypes
<1>4. LocksFit'
  BY <1>0 DEF LocksFit, Working
<1>5. OwnersFit'
  BY <1>0 DEF OwnersFit, Working, Reading
<1>6. NumbersFit'
  BY <1>0 DEF NumbersFit
<1>7. TasksFit'
  BY <1>0, TasksStay, <1>r DEF Working
<1>8. EventsFit'
  <2>1. \A i \in DOMAIN resumer'.events : Stored(resumer'.events[i])
                                           /\ resumer'.events[i].seq \in Replay
    BY <1>0, ReplayAfterIs, TypeFacts
  <2> QED BY <1>e, <2>1 DEF EventsFit, Stored
<1>9. WireFits'
  <2>1. ASSUME NEW i \in DOMAIN wire PROVE OnItsWay(wire[i])'
    <3>1. wire[i].seq <= last'
      BY <1>0, <1>r, ReplayReaches, TypeFacts
    <3> QED BY <1>0, <3>1 DEF WireFits, OnItsWay, Stored, Cursor
  <2> QED BY <2>1 DEF WireFits
<1>10. LogFits'
  BY <1>0 DEF LogFits
<1>11. GoneFits'
  BY DEF GoneFits
<1>12. TrackerFits'
  <2>1. bound /\ Cursor \in Nat
    BY <1>0, TypeFacts DEF LocksFit, None
  <2>2. ASSUME epoch = 0 \/ last' > 0, "abort" \notin happened PROVE Cursor <= last'
    <3>1. CASE epoch = 0 \/ StoredLast > 0
      BY <1>0, <1>r, <2>1, <3>1, ReplayReaches
    <3>2. CASE ~(epoch = 0 \/ StoredLast > 0)
      <4>1. last' = last /\ last > 0
        BY <1>r, <2>2, <3>2
      <4> QED BY <1>0, <2>1, <2>2, <4>1, TypeFacts DEF TrackerFits, OwnersFit, Reading
    <3> QED BY <3>1, <3>2
  <2> QED BY <2>2 DEF TrackerFits, Cursor
<1> QED BY <1>1, <1>2, <1>3, <1>4, <1>5, <1>6, <1>7, <1>8, <1>9, <1>10, <1>11, <1>12 DEF IInv, Types

(* A resume makes the buffer anew from the end of the device's log.        *)
LEMMA RebuildsKeep ==
  ASSUME IInv, resumer.at = "read", ~alive, ending = "no",
         alive' = TRUE, counter' = Cursor, base' = Cursor, epoch' = epoch + 1,
         stored' = [n \in Seqs |-> IF n <= Cursor THEN stored[n] ELSE NoEvent],
         resumer' \in ResumeRecord, resumer'.at = "send", resumer'.events = <<>>,
         last' = Above(last, Cursor),
         UNCHANGED <<bound, lock, task, ending, wire, inbox, log, happened>>
  PROVE  IInv'
<1>0. /\ Types /\ LocksFit /\ OwnersFit /\ NumbersFit /\ TasksFit
      /\ EventsFit /\ WireFits /\ LogFits /\ GoneFits /\ TrackerFits
  BY DEF IInv
<1>t. RedisTypes /\ ServerTypes /\ DeviceTypes
  BY <1>0 DEF Types
<1>r. /\ wire = <<>> /\ epoch < MaxEpoch /\ Cursor \in 0 .. MaxSeq /\ Cursor \in Nat
      /\ Cursor <= counter
      /\ \A f \in Emitter : task[f].at \in {"idle", "number"}
      /\ last' \in 0 .. MaxSeq /\ Cursor <= last' /\ last <= last'
  <2>1. /\ wire = <<>> /\ epoch < MaxEpoch /\ Cursor \in 0 .. MaxSeq /\ Cursor \in Nat
        /\ Cursor <= counter
        /\ \A f \in Emitter : task[f].at \in {"idle", "number"}
    BY <1>0, CursorIs DEF GoneFits
  <2> QED BY <1>t, <2>1, SeqsAre DEF ServerTypes, Above
<1>s. /\ stored' \in [Seqs -> Event \union {NoEvent}]
      /\ \A n \in Seqs : stored'[n] = IF n <= Cursor THEN stored[n] ELSE NoEvent
  BY <1>t DEF RedisTypes
<1>1. RedisTypes'
  BY <1>t, <1>r, StreamAssumption DEF RedisTypes
<1>2. ServerTypes'
  BY <1>t, <1>r DEF ServerTypes
<1>3. DeviceTypes'
  BY <1>t DEF DeviceTypes
<1>4. LocksFit'
  BY <1>0 DEF LocksFit, Working
<1>5. OwnersFit'
  BY <1>0 DEF OwnersFit, Working, Reading
<1>6. NumbersFit'
  <2>1. \A n \in Seqs : n > Cursor => stored'[n] = NoEvent
    BY <1>r, SeqsAre
  <2>2. epoch + 1 # 0 /\ epoch + 1 <= MaxEpoch
    BY <1>0, <1>r, TypeFacts, StreamAssumption
  <2>3. Cursor <= Cursor
    BY <1>r
  <2> QED BY <2>1, <2>2, <2>3 DEF NumbersFit
<1>7. TasksFit'
  <2>1. \A f \in Emitter : task'[f].at \notin {"store", "send"}
    BY <1>r
  <2> QED BY <2>1 DEF TasksFit
<1>8. EventsFit'
  BY DEF EventsFit
<1>9. WireFits'
  <2>1. wire' = <<>> /\ DOMAIN wire' = {}
    BY <1>r
  <2> QED BY <2>1 DEF WireFits
<1>10. LogFits'
  <2>1. \A n \in DOMAIN log : n <= Cursor /\ n \in Seqs /\ stored[n] = log[n]
    BY <1>0, TypeFacts DEF LogFits
  <2> QED BY <1>s, <2>1 DEF LogFits
<1>11. GoneFits'
  BY DEF GoneFits
<1>12. TrackerFits'
  BY <1>r DEF TrackerFits, Cursor
<1> QED BY <1>1, <1>2, <1>3, <1>4, <1>5, <1>6, <1>7, <1>8, <1>9, <1>10, <1>11, <1>12 DEF IInv, Types

(* A resume redelivers, and gives the lock back or starts an emit under    *)
(* it.                                                                     *)
LEMMA ResumeSendsKeep ==
  ASSUME IInv, resumer.at = "send", Deliver(resumer.events),
         resumer' \in ResumeRecord, resumer'.at = "idle",
         (lock' = None /\ task' = task) \/ \E e \in Emitter : Begins(e),
         UNCHANGED <<counter, base, alive, stored, epoch, bound, last, ending, inbox, log,
                     happened>>
  PROVE  IInv'
<1>0. /\ Types /\ LocksFit /\ OwnersFit /\ NumbersFit /\ TasksFit
      /\ EventsFit /\ WireFits /\ LogFits /\ GoneFits /\ TrackerFits
  BY DEF IInv
<1>t. RedisTypes /\ ServerTypes /\ DeviceTypes
  BY <1>0 DEF Types
<1>w. /\ wire' \in Seq(Messages)
      /\ \A i \in DOMAIN wire' : \/ \E j \in DOMAIN wire : wire'[i] = wire[j]
                                \/ \E j \in DOMAIN resumer.events : wire'[i] = resumer.events[j]
  BY <1>0, TypeFacts, DeliverIs
<1>1. RedisTypes'
  BY <1>t DEF RedisTypes
<1>2. ServerTypes'
  BY <1>t DEF ServerTypes, Begins, Only
<1>3. DeviceTypes'
  BY <1>t, <1>w DEF DeviceTypes
<1>4. LocksFit'
  BY <1>0, NoEventIs DEF LocksFit, Working, Begins, Only, None
<1>5. OwnersFit'
  <2>1. bound /\ ~Reading /\ ~Reading'
    BY <1>0 DEF LocksFit, Reading, None
  <2>2. CASE lock' = None /\ task' = task
    BY <1>0, <2>1, <2>2 DEF OwnersFit, Working
  <2>3. CASE \E e \in Emitter : Begins(e)
    BY <1>0, <2>1 DEF OwnersFit, Working, Begins, Only
  <2> QED BY <2>2, <2>3
<1>6. NumbersFit'
  BY <1>0 DEF NumbersFit
<1>7. TasksFit'
  BY <1>0, TypeFacts, TasksStay DEF Working, Begins, Only
<1>8. EventsFit'
  BY DEF EventsFit
<1>9. WireFits'
  <2>1. \A i \in DOMAIN wire : Travels(wire[i])
    BY <1>0 DEF WireFits, OnItsWay, Stored, Reading, Cursor, Travels
  <2>2. \A i \in DOMAIN resumer.events : Travels(resumer.events[i])
    BY <1>0 DEF EventsFit, Stored, Travels
  <2>3. \A i \in DOMAIN wire' : Travels(wire'[i])
    BY <1>w, <2>1, <2>2
  <2>4. ~(resumer'.at = "read" /\ ~resumer'.live)
    OBVIOUS
  <2> QED BY <2>3, <2>4, TravelsIs
<1>10. LogFits'
  BY <1>0 DEF LogFits
<1>11. GoneFits'
  BY <1>0 DEF GoneFits
<1>12. TrackerFits'
  BY <1>0 DEF TrackerFits, Reading, Cursor
<1> QED BY <1>1, <1>2, <1>3, <1>4, <1>5, <1>6, <1>7, <1>8, <1>9, <1>10, <1>11, <1>12 DEF IInv, Types

(* A resume ends and leaves the binding.                                   *)
LEMMA UnlocksKeep ==
  ASSUME IInv, resumer.at # "idle", resumer'.at = "idle", resumer' \in ResumeRecord, lock' = None,
         (~Reading \/ (~resumer.live /\ "abort" \in happened')),
         happened \subseteq happened',
         UNCHANGED <<counter, base, alive, stored, epoch, bound, last, task, ending, wire, inbox,
                     log>>
  PROVE  IInv'
<1>0. /\ Types /\ LocksFit /\ OwnersFit /\ NumbersFit /\ TasksFit
      /\ EventsFit /\ WireFits /\ LogFits /\ GoneFits /\ TrackerFits
  BY DEF IInv
<1>t. RedisTypes /\ ServerTypes /\ DeviceTypes
  BY <1>0 DEF Types
<1>n. lock = "resume" /\ bound /\ \A f \in Emitter : ~Working(f)
  <2>1. lock = "resume" /\ bound
    BY <1>0 DEF LocksFit, None
  <2> QED BY <1>0, <2>1, NobodyWorks
<1>1. RedisTypes'
  BY <1>t DEF RedisTypes
<1>2. ServerTypes'
  BY <1>t DEF ServerTypes
<1>3. DeviceTypes'
  BY <1>t DEF DeviceTypes
<1>4. LocksFit'
  BY <1>n, NoEventIs DEF LocksFit, Working, None
<1>5. OwnersFit'
  BY <1>n DEF OwnersFit, Working, Reading
<1>6. NumbersFit'
  BY <1>0 DEF NumbersFit
<1>7. TasksFit'
  BY <1>0 DEF TasksFit, Working
<1>8. EventsFit'
  BY DEF EventsFit
<1>9. WireFits'
  <2>1. Reading => wire = <<>>
    BY <1>0 DEF WireFits, Reading
  <2>2. Reading \/ \A i \in DOMAIN wire : Travels(wire[i])
    BY <1>0 DEF WireFits, OnItsWay, Stored, Reading, Cursor, Travels
  <2>3. \A i \in DOMAIN wire' : Travels(wire'[i])
    <3>1. DOMAIN <<>> = {}
      OBVIOUS
    <3> QED BY <2>1, <2>2, <3>1
  <2> QED BY <2>3, TravelsIs
<1>10. LogFits'
  BY <1>0 DEF LogFits
<1>11. GoneFits'
  BY <1>0 DEF GoneFits, Cursor
<1>12. TrackerFits'
  BY <1>0 DEF TrackerFits, Cursor
<1> QED BY <1>1, <1>2, <1>3, <1>4, <1>5, <1>6, <1>7, <1>8, <1>9, <1>10, <1>11, <1>12 DEF IInv, Types

(* The end binds a run, with a tracker from the replay.                    *)
LEMMA EndBindsKeep ==
  ASSUME IInv, ending = "no", ~bound, alive, bound' = TRUE, last' = StoredLast,
         UNCHANGED <<counter, base, alive, stored, epoch, lock, task, resumer, ending, wire,
                     inbox, log, happened>>
  PROVE  IInv'
<1>0. /\ Types /\ LocksFit /\ OwnersFit /\ NumbersFit /\ TasksFit
      /\ EventsFit /\ WireFits /\ LogFits /\ GoneFits /\ TrackerFits
  BY DEF IInv
<1>t. RedisTypes /\ ServerTypes /\ DeviceTypes
  BY <1>0 DEF Types
<1>n. lock = None /\ resumer.at = "idle" /\ \A f \in Emitter : ~Working(f) /\ ~task[f].own
  <2>1. lock = None /\ resumer.at = "idle"
    BY <1>0 DEF LocksFit, None
  <2> QED BY <1>0, <2>1, NobodyWorks DEF OwnersFit
<1>r. StoredLast \in 0 .. MaxSeq /\ StoredLast \in Nat
  BY <1>0, ReplayReaches
<1>1. RedisTypes'
  BY <1>t DEF RedisTypes
<1>2. ServerTypes'
  BY <1>t, <1>r DEF ServerTypes
<1>3. DeviceTypes'
  BY <1>t DEF DeviceTypes
<1>4. LocksFit'
  BY <1>0 DEF LocksFit, Working
<1>5. OwnersFit'
  BY <1>n DEF OwnersFit, Working, Reading
<1>6. NumbersFit'
  BY <1>0 DEF NumbersFit
<1>7. TasksFit'
  BY <1>0, TasksStay, <1>n, <1>r DEF Working
<1>8. EventsFit'
  BY <1>n DEF EventsFit
<1>9. WireFits'
  <2>1. ASSUME NEW i \in DOMAIN wire PROVE OnItsWay(wire[i])'
    <3>1. wire[i].seq <= StoredLast
      BY <1>0, ReplayReaches
    <3> QED BY <1>0, <3>1 DEF WireFits, OnItsWay, Stored, Cursor
  <2> QED BY <1>n, <2>1 DEF WireFits
<1>10. LogFits'
  BY <1>0 DEF LogFits
<1>11. GoneFits'
  BY DEF GoneFits
<1>12. TrackerFits'
  <2>1. epoch = 0 \/ StoredLast > 0 => Cursor <= StoredLast
    BY <1>0, ReplayReaches
  <2> QED BY <2>1 DEF TrackerFits, Cursor
<1> QED BY <1>1, <1>2, <1>3, <1>4, <1>5, <1>6, <1>7, <1>8, <1>9, <1>10, <1>11, <1>12 DEF IInv, Types

(* The end takes the lock.                                                 *)
LEMMA EndLocksKeep ==
  ASSUME IInv, EndLock
  PROVE  IInv'
<1>0. /\ Types /\ LocksFit /\ OwnersFit /\ NumbersFit /\ TasksFit
      /\ EventsFit /\ WireFits /\ LogFits /\ GoneFits /\ TrackerFits
  BY DEF IInv
<1>t. RedisTypes /\ ServerTypes /\ DeviceTypes
  BY <1>0 DEF Types
<1>1. RedisTypes'
  BY <1>t DEF RedisTypes, EndLock, redis
<1>2. ServerTypes'
  BY <1>t DEF ServerTypes, EndLock
<1>3. DeviceTypes'
  BY <1>t DEF DeviceTypes, EndLock, device, net
<1>4. LocksFit'
  BY <1>0, NoEventIs DEF LocksFit, Working, EndLock, None
<1>5. OwnersFit'
  BY <1>0 DEF OwnersFit, Working, Reading, EndLock
<1>6. NumbersFit'
  BY <1>0 DEF NumbersFit, EndLock, redis
<1>7. TasksFit'
  BY <1>0 DEF TasksFit, Working, EndLock, redis
<1>8. EventsFit'
  BY <1>0 DEF EventsFit, Stored, EndLock, redis
<1>9. WireFits'
  BY <1>0 DEF WireFits, OnItsWay, Stored, Reading, EndLock, redis, net
<1>10. LogFits'
  BY <1>0 DEF LogFits, EndLock, redis, device
<1>11. GoneFits'
  BY DEF GoneFits, EndLock
<1>12. TrackerFits'
  BY <1>0 DEF TrackerFits, Reading, Cursor, EndLock, redis, device
<1> QED BY <1>1, <1>2, <1>3, <1>4, <1>5, <1>6, <1>7, <1>8, <1>9, <1>10, <1>11, <1>12 DEF IInv, Types

(* The row is moved and the buffer deleted.                                *)
LEMMA EndMovesKeep ==
  ASSUME IInv, EndMove
  PROVE  IInv'
<1>0. /\ Types /\ LocksFit /\ OwnersFit /\ NumbersFit /\ TasksFit
      /\ EventsFit /\ WireFits /\ LogFits /\ GoneFits /\ TrackerFits
  BY DEF IInv
<1>t. RedisTypes /\ ServerTypes /\ DeviceTypes
  BY <1>0 DEF Types
<1>1. RedisTypes'
  BY <1>t DEF RedisTypes, EndMove
<1>2. ServerTypes'
  BY <1>t DEF ServerTypes, EndMove, binding
<1>3. DeviceTypes'
  BY <1>t DEF DeviceTypes, EndMove, device, net
<1>4. LocksFit'
  BY <1>0 DEF LocksFit, Working, EndMove, binding
<1>5. OwnersFit'
  BY <1>0 DEF OwnersFit, Working, Reading, EndMove, binding
<1>6. NumbersFit'
  BY <1>0 DEF NumbersFit, EndMove
<1>7. TasksFit'
  BY <1>0 DEF TasksFit, Working, EndMove, binding
<1>8. EventsFit'
  BY <1>0 DEF EventsFit, Stored, EndMove, binding
<1>9. WireFits'
  BY <1>0 DEF WireFits, OnItsWay, Stored, Reading, EndMove, binding, net
<1>10. LogFits'
  BY <1>0 DEF LogFits, EndMove, device
<1>11. GoneFits'
  BY DEF GoneFits, EndMove
<1>12. TrackerFits'
  BY <1>0 DEF TrackerFits, Reading, Cursor, EndMove, binding, device
<1> QED BY <1>1, <1>2, <1>3, <1>4, <1>5, <1>6, <1>7, <1>8, <1>9, <1>10, <1>11, <1>12 DEF IInv, Types

(* The last event is numbered by the tracker and sent; what is stored      *)
(* behind it is given up.                                                  *)
LEMMA FinalsKeep ==
  ASSUME IInv, ending = "moved", bound, lock \in {None, "end"},
         ending' = "told", epoch' = epoch + 1,
         \/ /\ Fresh(last + 1)
            /\ stored' = [n \in Seqs |-> IF n < last + 1 THEN stored[n]
                                        ELSE IF n = last + 1 THEN Final ELSE NoEvent]
         \/ ~Fresh(last + 1) /\ stored' = stored,
         Deliver(<<Message(last + 1, Final)>>), Releases,
         UNCHANGED <<counter, base, alive, resumer, inbox, log, happened>>
  PROVE  IInv'
<1>0. /\ Types /\ LocksFit /\ OwnersFit /\ NumbersFit /\ TasksFit
      /\ EventsFit /\ WireFits /\ LogFits /\ GoneFits /\ TrackerFits
  BY DEF IInv
<1>t. RedisTypes /\ ServerTypes /\ DeviceTypes
  BY <1>0 DEF Types
<1> DEFINE m == Message(last + 1, Final)
<1>f. /\ \A f \in Emitter : ~Working(f) /\ task[f].at # "send"
      /\ resumer.at = "idle" /\ ~alive /\ epoch + 1 \in 0 .. MaxEpoch + 1
      /\ last + 1 \in Seqs /\ last + 1 \in Nat
  <2>1. \A f \in Emitter : ~Working(f)
    BY <1>0, NobodyWorks
  <2>2. \A f \in Emitter : task[f].at # "send"
    BY <1>0, <2>1 DEF TasksFit, Working
  <2>3. resumer.at = "idle" /\ ~alive
    BY <1>0 DEF LocksFit, NumbersFit, None
  <2>4. epoch + 1 \in 0 .. MaxEpoch + 1
    BY <1>0, TypeFacts, StreamAssumption DEF NumbersFit
  <2>5. last + 1 \in Seqs /\ last + 1 \in Nat
    BY <1>t, SeqsAre DEF ServerTypes
  <2> QED BY <2>1, <2>2, <2>3, <2>4, <2>5
<1>m. /\ Final \in Event /\ m \in Messages /\ m.seq = last + 1 /\ m.ev = Final
      /\ <<m>> \in Seq(Messages) /\ \A i \in DOMAIN <<m>> : <<m>>[i] = m
  <2>1. Final \in Event
    BY <1>f DEF Final, Event
  <2>2. m \in Messages /\ m.seq = last + 1 /\ m.ev = Final
    BY <1>f, <2>1 DEF Message, Messages
  <2> HIDE DEF m
  <2> QED BY <2>1, <2>2
<1>w. /\ wire' \in Seq(Messages)
      /\ \A i \in DOMAIN wire' : (\E j \in DOMAIN wire : wire'[i] = wire[j]) \/ wire'[i] = m
  <2> HIDE DEF m
  <2>1. Deliver(<<m>>)
    BY DEF m
  <2> QED BY <1>0, <1>m, <2>1, DeliverIs
<1> HIDE DEF m
<1>s. /\ stored' \in [Seqs -> Event \union {NoEvent}]
      /\ \A n \in Seqs : n < last + 1 => stored'[n] = stored[n]
      /\ Fresh(last + 1) => stored'[last + 1] = Final
      /\ ~Fresh(last + 1) => stored' = stored
  <2>1. stored \in [Seqs -> Event \union {NoEvent}] /\ \A n \in Seqs : n \in Nat
    BY <1>t, SeqsAre DEF RedisTypes
  <2>2. CASE stored' = [n \in Seqs |-> IF n < last + 1 THEN stored[n]
                                      ELSE IF n = last + 1 THEN Final ELSE NoEvent]
               /\ Fresh(last + 1)
    BY <1>f, <1>m, <2>1
  <2> QED BY <2>1, <2>2
<1>1. RedisTypes'
  BY <1>t, <1>f, <1>s DEF RedisTypes
<1>2. ServerTypes'
  <2>1. 0 \in 0 .. MaxSeq
    BY SeqsAre
  <2> QED BY <1>t, <2>1 DEF ServerTypes, Releases
<1>3. DeviceTypes'
  BY <1>t, <1>w DEF DeviceTypes
<1>4. LocksFit'
  BY <1>f, NoEventIs DEF LocksFit, Working, Releases, None
<1>5. OwnersFit'
  BY <1>f DEF OwnersFit, Working, Releases
<1>6. NumbersFit'
  BY <1>0, TypeFacts DEF NumbersFit
<1>7. TasksFit'
  BY <1>f DEF TasksFit, Working, Releases
<1>8. EventsFit'
  BY <1>f DEF EventsFit
<1>9. WireFits'
  <2>1. ASSUME NEW i \in DOMAIN wire
        PROVE  wire[i].seq < last + 1 /\ Travels(wire[i])
    <3>1. Stored(wire[i]) /\ wire[i].seq <= last /\ wire[i].seq \in Seqs /\ wire[i].seq \in Nat
      BY <1>0, <1>f, TypeFacts DEF WireFits, OnItsWay, Reading
    <3>2. wire[i].seq < last + 1
      BY <1>0, <3>1, TypeFacts
    <3> QED BY <1>f, <1>s, <3>1, <3>2 DEF Travels, Stored, Releases
  <2>2. Fresh(last + 1) \/ last + 1 <= Cursor
    BY <1>0, <2>1, TypeFacts DEF Fresh
  <2>3. Travels(m)
    BY <1>f, <1>m, <2>2 DEF Travels, Cursor, Releases
  <2>4. \A i \in DOMAIN wire' : Travels(wire'[i])
    BY <1>w, <2>1, <2>3
  <2> QED BY <1>f, <2>4, TravelsIs
<1>10. LogFits'
  <2>1. Fresh(last + 1) => \A n \in DOMAIN log : n < last + 1
    BY <1>0, TypeFacts DEF Fresh
  <2> QED BY <1>0, <1>s, <2>1 DEF LogFits
<1>11. GoneFits'
  BY DEF GoneFits
<1>12. TrackerFits'
  BY DEF TrackerFits, Releases
<1> QED BY <1>1, <1>2, <1>3, <1>4, <1>5, <1>6, <1>7, <1>8, <1>9, <1>10, <1>11, <1>12 DEF IInv, Types

(* The end of a run without a binding is told to nobody.                   *)
LEMMA UntoldKeep ==
  ASSUME IInv, ~alive, ~bound, ending # "told", ending' = "told",
         UNCHANGED <<counter, base, alive, stored, epoch, bound, last, lock, task, resumer, wire,
                     inbox, log, happened>>
  PROVE  IInv'
<1>0. /\ Types /\ LocksFit /\ OwnersFit /\ NumbersFit /\ TasksFit
      /\ EventsFit /\ WireFits /\ LogFits /\ GoneFits /\ TrackerFits
  BY DEF IInv
<1>t. RedisTypes /\ ServerTypes /\ DeviceTypes
  BY <1>0 DEF Types
<1>1. RedisTypes'
  BY <1>t DEF RedisTypes
<1>2. ServerTypes'
  BY <1>t DEF ServerTypes
<1>3. DeviceTypes'
  BY <1>t DEF DeviceTypes
<1>4. LocksFit'
  BY <1>0 DEF LocksFit, Working, None
<1>5. OwnersFit'
  BY <1>0 DEF OwnersFit, Working, Reading
<1>6. NumbersFit'
  BY <1>0 DEF NumbersFit
<1>7. TasksFit'
  BY <1>0 DEF TasksFit, Working
<1>8. EventsFit'
  BY <1>0 DEF EventsFit, Stored
<1>9. WireFits'
  BY <1>0 DEF WireFits, OnItsWay, Stored
<1>10. LogFits'
  BY <1>0 DEF LogFits
<1>11. GoneFits'
  BY DEF GoneFits
<1>12. TrackerFits'
  BY DEF TrackerFits
<1> QED BY <1>1, <1>2, <1>3, <1>4, <1>5, <1>6, <1>7, <1>8, <1>9, <1>10, <1>11, <1>12 DEF IInv, Types

(* The device receives what is next, drops what it has, or asks again      *)
(* behind a gap.                                                           *)
LEMMA ReceivesKeep ==
  ASSUME IInv, Receive
  PROVE  IInv'
<1>0. /\ Types /\ LocksFit /\ OwnersFit /\ NumbersFit /\ TasksFit
      /\ EventsFit /\ WireFits /\ LogFits /\ GoneFits /\ TrackerFits
  BY DEF IInv
<1>t. RedisTypes /\ ServerTypes /\ DeviceTypes
  BY <1>0 DEF Types
<1>r. /\ 1 \in DOMAIN wire /\ wire' \in Seq(Messages)
      /\ \A i \in DOMAIN wire' : \E j \in DOMAIN wire : wire'[i] = wire[j]
      /\ Cursor \in Nat /\ Cursor <= Cursor' /\ DOMAIN log = 1 .. Cursor
      /\ \/ log' = log /\ Cursor' = Cursor
         \/ /\ wire[1].seq = Cursor + 1 /\ log' \in Seq(Event) /\ Cursor' = Cursor + 1
            /\ DOMAIN log' = 1 .. Cursor + 1 /\ log'[Cursor + 1] = wire[1].ev
            /\ \A n \in 1 .. Cursor : log'[n] = log[n]
      /\ UNCHANGED <<server, happened>> /\ inbox' \in SUBSET Nat
      /\ OnItsWay(wire[1]) /\ wire[1].seq \in Seqs
  <2>1. UNCHANGED <<server, happened>> /\ inbox' \in {inbox, {Cursor}} /\ inbox \in SUBSET Nat
    BY <1>t DEF Receive, DeviceTypes
  <2>2. OnItsWay(wire[1]) /\ wire[1].seq \in Seqs
    BY <1>0, ReceiveIs, TypeFacts DEF WireFits
  <2> QED BY <1>0, <2>1, <2>2, ReceiveIs
<1>1. RedisTypes'
  BY <1>t, <1>r DEF RedisTypes, server, redis
<1>2. ServerTypes'
  BY <1>t, <1>r DEF ServerTypes, server, binding
<1>3. DeviceTypes'
  BY <1>t, <1>r DEF DeviceTypes
<1>4. LocksFit'
  BY <1>0, <1>r DEF LocksFit, Working, server, binding
<1>5. OwnersFit'
  BY <1>0, <1>r DEF OwnersFit, Working, Reading, server, binding
<1>6. NumbersFit'
  BY <1>0, <1>r DEF NumbersFit, server, redis
<1>7. TasksFit'
  BY <1>0, <1>r DEF TasksFit, Working, server, redis, binding
<1>8. EventsFit'
  BY <1>0, <1>r DEF EventsFit, Stored, server, redis, binding
<1>9. WireFits'
  <2>1. \A i \in DOMAIN wire : Travels(wire[i])
    BY <1>0, <1>r, TypeFacts DEF WireFits, OnItsWay, Stored, Travels, Reading, server, redis,
       binding
  <2>2. \A i \in DOMAIN wire' : Travels(wire'[i])
    BY <1>r, <2>1
  <2>3. ~(resumer.at = "read" /\ ~resumer.live)
    <3>1. DOMAIN <<>> = {}
      OBVIOUS
    <3> QED BY <1>0, <1>r, <3>1 DEF WireFits
  <2> QED BY <1>r, <2>2, <2>3, TravelsIs DEF server
<1>10. LogFits'
  <2>1. CASE log' = log
    BY <1>0, <1>r, <2>1 DEF LogFits, server, redis
  <2>2. CASE log' # log
    <3>1. stored[Cursor + 1] = wire[1].ev
      BY <1>r, <2>2 DEF OnItsWay, Stored
    <3>2. ASSUME NEW n \in DOMAIN log' PROVE n \in Seqs /\ stored[n] = log'[n]
      <4>1. CASE n = Cursor + 1
        BY <1>r, <3>1, <4>1
      <4>2. CASE n \in DOMAIN log
        BY <1>0, <1>r, <4>2 DEF LogFits
      <4> QED BY <1>r, <2>2, <4>1, <4>2
    <3> QED BY <1>r, <3>2 DEF LogFits, server, redis
  <2> QED BY <2>1, <2>2
<1>11. GoneFits'
  <2>1. wire # <<>>
    BY DEF Receive
  <2> QED BY <1>0, <1>r, <2>1 DEF GoneFits, server, redis, binding
<1>12. TrackerFits'
  <2>1. bound /\ ~Reading /\ log' # log => Cursor + 1 <= last
    BY <1>r DEF OnItsWay
  <2>2. UNCHANGED <<bound, last, resumer, epoch, happened>>
    BY <1>r DEF server, redis, binding
  <2> QED BY <1>0, <1>r, <2>1, <2>2 DEF TrackerFits, Reading
<1> QED BY <1>1, <1>2, <1>3, <1>4, <1>5, <1>6, <1>7, <1>8, <1>9, <1>10, <1>11, <1>12 DEF IInv, Types

(* A connection is lost with all that is on its way.                       *)
LEMMA DisconnectsKeep ==
  ASSUME IInv, wire' = <<>>, inbox' = {}, resumer' \in ResumeRecord,
         resumer'.at = resumer.at, resumer'.wasBound = resumer.wasBound,
         resumer'.events = resumer.events, resumer'.from = resumer.from,
         UNCHANGED <<counter, base, alive, stored, epoch, bound, last, lock, task, ending, log,
                     happened>>
  PROVE  IInv'
<1>0. /\ Types /\ LocksFit /\ OwnersFit /\ NumbersFit /\ TasksFit
      /\ EventsFit /\ WireFits /\ LogFits /\ GoneFits /\ TrackerFits
  BY DEF IInv
<1>t. RedisTypes /\ ServerTypes /\ DeviceTypes
  BY <1>0 DEF Types
<1>1. RedisTypes'
  BY <1>t DEF RedisTypes
<1>2. ServerTypes'
  BY <1>t DEF ServerTypes
<1>3. DeviceTypes'
  BY <1>t DEF DeviceTypes
<1>4. LocksFit'
  BY <1>0 DEF LocksFit, Working
<1>5. OwnersFit'
  BY <1>0 DEF OwnersFit, Working, Reading
<1>6. NumbersFit'
  BY <1>0 DEF NumbersFit
<1>7. TasksFit'
  BY <1>0 DEF TasksFit, Working
<1>8. EventsFit'
  BY <1>0 DEF EventsFit, Stored
<1>9. WireFits'
  BY DEF WireFits
<1>10. LogFits'
  BY <1>0 DEF LogFits
<1>11. GoneFits'
  BY <1>0 DEF GoneFits, Cursor
<1>12. TrackerFits'
  BY <1>0 DEF TrackerFits, Reading, Cursor
<1> QED BY <1>1, <1>2, <1>3, <1>4, <1>5, <1>6, <1>7, <1>8, <1>9, <1>10, <1>11, <1>12 DEF IInv, Types

(* The buffer expires while nothing is under way.                          *)
LEMMA LapsesKeep ==
  ASSUME IInv, Lapse
  PROVE  IInv'
<1>0. /\ Types /\ LocksFit /\ OwnersFit /\ NumbersFit /\ TasksFit
      /\ EventsFit /\ WireFits /\ LogFits /\ GoneFits /\ TrackerFits
  BY DEF IInv
<1>t. RedisTypes /\ ServerTypes /\ DeviceTypes
  BY <1>0 DEF Types
<1>1. RedisTypes'
  BY <1>t DEF RedisTypes, Lapse
<1>2. ServerTypes'
  BY <1>t DEF ServerTypes, Lapse, binding
<1>3. DeviceTypes'
  BY <1>t DEF DeviceTypes, Lapse, device, net
<1>4. LocksFit'
  BY <1>0 DEF LocksFit, Working, Lapse, binding
<1>5. OwnersFit'
  BY DEF OwnersFit, Working, Reading, Lapse, Idle, NoResume
<1>6. NumbersFit'
  BY <1>0 DEF NumbersFit, Lapse
<1>7. TasksFit'
  BY DEF TasksFit, Lapse, Idle
<1>8. EventsFit'
  BY DEF EventsFit, Lapse, NoResume
<1>9. WireFits'
  BY DEF WireFits, Lapse, net
<1>10. LogFits'
  BY <1>0 DEF LogFits, Lapse, device
<1>11. GoneFits'
  BY DEF GoneFits, Lapse, Idle, NoResume, net
<1>12. TrackerFits'
  BY <1>0 DEF TrackerFits, Reading, Cursor, Lapse, binding, device
<1> QED BY <1>1, <1>2, <1>3, <1>4, <1>5, <1>6, <1>7, <1>8, <1>9, <1>10, <1>11, <1>12 DEF IInv, Types

(* A device asks for what comes behind its log, or nothing here changes.   *)
LEMMA QuietKeep ==
  ASSUME IInv, inbox' \subseteq inbox \union {Cursor},
         UNCHANGED <<counter, base, alive, stored, epoch, bound, last, lock, task, resumer,
                     ending, wire, log, happened>>
  PROVE  IInv'
<1>0. /\ Types /\ LocksFit /\ OwnersFit /\ NumbersFit /\ TasksFit
      /\ EventsFit /\ WireFits /\ LogFits /\ GoneFits /\ TrackerFits
  BY DEF IInv
<1>t. RedisTypes /\ ServerTypes /\ DeviceTypes
  BY <1>0 DEF Types
<1>1. RedisTypes'
  BY <1>t DEF RedisTypes
<1>2. ServerTypes'
  BY <1>t DEF ServerTypes
<1>3. DeviceTypes'
  BY <1>0, <1>t, TypeFacts DEF DeviceTypes
<1>4. LocksFit'
  BY <1>0 DEF LocksFit, Working
<1>5. OwnersFit'
  BY <1>0 DEF OwnersFit, Working, Reading
<1>6. NumbersFit'
  BY <1>0 DEF NumbersFit
<1>7. TasksFit'
  BY <1>0 DEF TasksFit, Working
<1>8. EventsFit'
  BY <1>0 DEF EventsFit, Stored
<1>9. WireFits'
  BY <1>0 DEF WireFits, OnItsWay, Stored, Reading, Cursor
<1>10. LogFits'
  BY <1>0 DEF LogFits
<1>11. GoneFits'
  BY <1>0 DEF GoneFits, Cursor
<1>12. TrackerFits'
  BY <1>0 DEF TrackerFits, Reading, Cursor
<1> QED BY <1>1, <1>2, <1>3, <1>4, <1>5, <1>6, <1>7, <1>8, <1>9, <1>10, <1>11, <1>12 DEF IInv, Types

------------------------------------------------------------------------------
(* The invariant holds at first and is kept by every action.               *)
LEMMA InitIInv == Init => IInv
<1> SUFFICES ASSUME Init PROVE IInv
  OBVIOUS
<1>1. /\ 0 \in 0 .. MaxSeq /\ 0 \in 0 .. MaxEpoch + 1 /\ 0 <= MaxEpoch
      /\ <<>> \in Seq(Messages) /\ <<>> \in Seq(Event) /\ DOMAIN <<>> = {} /\ Len(<<>>) = 0
  BY StreamAssumption
<1>2. Types
  BY <1>1, RecordsAre DEF Init, Types, RedisTypes, ServerTypes, DeviceTypes
<1>3. /\ \A e \in Emitter : task[e].at = "idle" /\ ~task[e].own
      /\ resumer.at = "idle"
  BY RecordsAre DEF Init
<1>4. LocksFit /\ OwnersFit
  BY <1>3, NoEventIs DEF Init, LocksFit, OwnersFit, Working, None
<1>5. NumbersFit /\ TasksFit
  BY <1>1, <1>3 DEF Init, NumbersFit, TasksFit
<1>6. EventsFit /\ WireFits /\ LogFits /\ GoneFits /\ TrackerFits
  BY <1>3 DEF Init, EventsFit, WireFits, LogFits, GoneFits, TrackerFits, Cursor
<1> QED BY <1>2, <1>4, <1>5, <1>6 DEF IInv

(* The emits.                                                              *)
LEMMA EmitStep ==
  ASSUME IInv, NEW e \in Emitter,
         EmitBegin(e) \/ Number(e) \/ Store(e) \/ StoreRefused(e) \/ Send(e) \/ Stop(e)
  PROVE  IInv'
<1>0. Types /\ task[e] \in TaskRecord /\ task \in [Emitter -> TaskRecord]
        /\ resumer \in ResumeRecord
  BY DEF IInv, Types, ServerTypes
<1>1. CASE EmitBegin(e)
  <2>1. Begins(e) /\ bound /\ lock = None
    BY <1>0, <1>1, BeginIs DEF EmitBegin
  <2>2. resumer.at = "idle" /\ ~Reading
    BY <2>1 DEF IInv, LocksFit, Reading, None
  <2> QED BY <1>0, <1>1, <2>1, <2>2, BeginsKeep DEF EmitBegin, redis, net, device
<1>2. CASE Number(e)
  <2>1. CASE /\ alive /\ counter < MaxSeq /\ counter' = counter + 1
             /\ task' = [task EXCEPT ![e].at = "store", ![e].seq = counter']
             /\ last' = (IF task[e].own THEN Above(last, counter') ELSE last) /\ UNCHANGED lock
    <3>1. counter + 1 \in 0 .. MaxSeq
      BY <1>0, <2>1, SeqsAre DEF Types, RedisTypes
    <3>2. Moves(e, "store") /\ task'[e].seq = counter + 1
      BY <1>0, <2>1, <3>1 DEF Moves, Only, TaskRecord
    <3> QED BY <1>2, <2>1, <3>2, GivenKeep DEF Number, net, device
  <2>2. CASE ~alive /\ Leave(e) /\ UNCHANGED <<counter, last>>
    BY <1>0, <1>2, <2>2, LeaveIs, LeavesKeep DEF Number, net, device
  <2> QED BY <1>2, <2>1, <2>2 DEF Number
<1>3. CASE Store(e)
  <2>1. CASE ~alive
    BY <1>0, <1>3, <2>1, LeaveIs, LeavesKeep DEF Store, net, device
  <2>2. CASE alive /\ task[e].stopped
    BY <1>0, <1>3, <2>2, LeaveIs, StoredLeavesKeep DEF Store, net, device
  <2>3. CASE alive /\ ~task[e].stopped
    <3>1. task' = [task EXCEPT ![e].at = "send"]
      BY <1>3, <2>3 DEF Store
    <3>2. Moves(e, "send") /\ task'[e].seq = task[e].seq
      BY <1>0, <3>1 DEF Moves, Only, TaskRecord
    <3> QED BY <1>3, <2>3, <3>2, StoredMovesKeep DEF Store, net, device
  <2> QED BY <1>0, <2>1, <2>2, <2>3, TypeFacts
<1>4. CASE StoreRefused(e)
  BY <1>0, <1>4, LeaveIs, LeavesKeep DEF StoreRefused, May, redis, net, device
<1>5. CASE Send(e)
  BY <1>0, <1>5, LeaveIs, SendsKeep DEF Send, redis, device
<1>6. CASE Stop(e)
  <2>1. /\ Working(e) /\ Only(e) /\ lock' = (IF lock = e THEN None ELSE lock)
        /\ task[e].at = "send" => task'[e].at = "idle" /\ ~task'[e].own
        /\ task[e].at # "send" => /\ task'[e].at = task[e].at /\ task'[e].seq = task[e].seq
                                  /\ task'[e].own = task[e].own /\ task'[e].stopped
    BY <1>0, <1>6, RecordsAre DEF Stop, Unlock, Only, TaskRecord, Working
  <2> QED BY <1>6, <2>1, StopsKeep DEF Stop, May, redis, net, device
<1> QED BY <1>1, <1>2, <1>3, <1>4, <1>5, <1>6

(* A resume that does not go through.                                      *)
LEMMA OverKeep ==
  ASSUME IInv, resumer.at # "idle", ResumeOver, happened \subseteq happened',
         UNCHANGED <<redis, ending, wire, inbox, log>>
  PROVE  IInv'
<1>0. Types /\ lock = "resume" /\ resumer' = NoResume
  BY DEF IInv, LocksFit, ResumeOver
<1>1. CASE resumer.wasBound
  BY <1>0, <1>1, ResumeOverIs, RecordsAre, UnlocksKeep DEF Reading, redis
<1>2. CASE ~resumer.wasBound
  BY <1>0, <1>2, ResumeOverIs, RecordsAre, ReleasesKeep DEF redis
<1> QED BY <1>1, <1>2

LEMMA ResumeStep ==
  ASSUME IInv,
         \/ ResumeBegin \/ ResumeRead \/ ResumeRebuild \/ ResumeSend
         \/ ResumeGone \/ ResumeRefused \/ ResumeAborted
  PROVE  IInv'
<1>0. Types /\ resumer \in ResumeRecord /\ inbox \subseteq Nat /\ bound \in BOOLEAN
  BY DEF IInv, Types, ServerTypes, DeviceTypes
<1>1. CASE ResumeBegin
  <2>1. CASE ending # "no" /\ ~bound
    BY <1>1, <2>1, QuietKeep DEF ResumeBegin, redis, binding
  <2>2. CASE ~(ending # "no" /\ ~bound)
    <3> DEFINE n == CHOOSE n \in inbox : TRUE
    <3>1. n \in inbox /\ n \in Nat
      BY <1>0, <1>1 DEF ResumeBegin
    <3> HIDE DEF n
    <3>2. resumer' = [at |-> "read", from |-> n, wasBound |-> bound, live |-> TRUE, events |-> <<>>]
      BY <1>1, <2>2 DEF ResumeBegin, n
    <3>3. resumer' \in ResumeRecord
      BY <1>0, <3>1, <3>2 DEF ResumeRecord
    <3>4. resumer.at = "idle" /\ lock = None
      BY <1>1, RecordsAre DEF ResumeBegin, IInv, LocksFit
    <3> QED BY <1>1, <2>2, <3>1, <3>2, <3>3, <3>4, TakesKeep DEF ResumeBegin, redis
  <2> QED BY <2>1, <2>2
<1>2. CASE ResumeRead
  <2>1. ReplayAfter(resumer.from) \in Seq(Messages)
    BY <1>0, ReplayAfterIs, TypeFacts
  <2>2. /\ resumer' \in ResumeRecord /\ resumer'.at = "send"
        /\ resumer'.events = ReplayAfter(resumer.from)
    BY <1>0, <1>2, <2>1 DEF ResumeRead, ResumeRecord
  <2> QED BY <1>2, <2>2, ReadsKeep DEF ResumeRead, redis, net, device
<1>3. CASE ResumeRebuild
  <2>1. resumer.from = Cursor /\ resumer.events = <<>>
    BY <1>3 DEF IInv, GoneFits, OwnersFit, ResumeRebuild
  <2>2. /\ resumer' \in ResumeRecord /\ resumer'.at = "send" /\ resumer'.events = <<>>
    BY <1>0, <1>3, <2>1 DEF ResumeRebuild, ResumeRecord
  <2> QED BY <1>3, <2>1, <2>2, RebuildsKeep DEF ResumeRebuild, net, device
<1>4. CASE ResumeSend
  <2>1. lock = "resume"
    BY <1>4 DEF ResumeSend, IInv, LocksFit
  <2>2. (lock' = None /\ task' = task) \/ \E e \in Emitter : Begins(e)
    BY <1>0, <1>4, <2>1, BeginIs DEF ResumeSend, Unlock
  <2> QED BY <1>4, <2>2, RecordsAre, ResumeSendsKeep DEF ResumeSend, redis, device
<1>5. CASE ResumeGone
  BY <1>5, OverKeep DEF ResumeGone, net
<1>6. CASE ResumeRefused
  BY <1>6, OverKeep DEF ResumeRefused, May, net, device
<1>7. CASE ResumeAborted
  <2>1. lock' = None
    BY <1>7 DEF ResumeAborted, Unlock, IInv, LocksFit
  <2> QED BY <1>7, <2>1, RecordsAre, UnlocksKeep DEF ResumeAborted, May, redis, net, device
<1> QED BY <1>1, <1>2, <1>3, <1>4, <1>5, <1>6, <1>7

(* The release of the run, and its end.                                    *)
LEMMA EndStep ==
  ASSUME IInv, Unbind \/ EndLock \/ EndBind \/ EndMove \/ EndFinal \/ EndUntold
  PROVE  IInv'
<1>0. Types
  BY DEF IInv
<1>1. CASE Unbind
  <2>1. resumer.at = "idle" /\ resumer \in ResumeRecord
    BY <1>1 DEF Unbind, IInv, LocksFit, Types, ServerTypes, None
  <2> QED BY <1>0, <1>1, <2>1, ReleasedIs, ReleasesKeep DEF Unbind, redis, net, device
<1>2. CASE EndLock
  BY <1>2, EndLocksKeep
<1>3. CASE EndBind
  <2>1. CASE alive
    BY <1>3, <2>1, EndBindsKeep DEF EndBind, redis, net, device
  <2>2. CASE ~alive
    BY <1>3, <2>2, UntoldKeep DEF EndBind, redis, net, device
  <2> QED BY <2>1, <2>2
<1>4. CASE EndMove
  BY <1>4, EndMovesKeep
<1>5. CASE EndFinal
  <2>1. \/ /\ Fresh(last + 1)
           /\ stored' = [n \in Seqs |-> IF n < last + 1 THEN stored[n]
                                       ELSE IF n = last + 1 THEN Final ELSE NoEvent]
        \/ ~Fresh(last + 1) /\ stored' = stored
    BY <1>5 DEF EndFinal, FinalSeq
  <2>2. /\ ending = "moved" /\ bound /\ lock \in {None, "end"} /\ ending' = "told"
        /\ epoch' = epoch + 1 /\ Deliver(<<Message(last + 1, Final)>>) /\ Releases
        /\ UNCHANGED <<counter, base, alive, resumer, inbox, log, happened>>
    BY <1>0, <1>5, ReleasedIs DEF EndFinal, FinalSeq, device
  <2> QED BY <2>1, <2>2, FinalsKeep
<1>6. CASE EndUntold
  <2>1. ~alive
    BY <1>6 DEF EndUntold, IInv, NumbersFit
  <2> QED BY <1>6, <2>1, UntoldKeep DEF EndUntold, redis, binding, net, device
<1> QED BY <1>1, <1>2, <1>3, <1>4, <1>5, <1>6

(* The connection, the device and the lapse of the buffer.                 *)
LEMMA LinkStep ==
  ASSUME IInv, Connect \/ Disconnect \/ Receive \/ Tick \/ Lapse \/ UNCHANGED vars
  PROVE  IInv'
<1>1. CASE Connect
  BY <1>1, QuietKeep DEF Connect, server, redis, binding
<1>2. CASE Disconnect
  <2>1. resumer \in ResumeRecord
    BY DEF IInv, Types, ServerTypes
  <2>2. /\ resumer' \in ResumeRecord /\ resumer'.at = resumer.at
        /\ resumer'.wasBound = resumer.wasBound /\ resumer'.events = resumer.events
        /\ resumer'.from = resumer.from
    BY <1>2, <2>1 DEF Disconnect, ResumeRecord
  <2> QED BY <1>2, <2>2, DisconnectsKeep DEF Disconnect, redis, binding, device
<1>3. CASE Receive
  BY <1>3, ReceivesKeep
<1>4. CASE Tick
  BY <1>4, QuietKeep DEF Tick, server, redis, binding, net
<1>5. CASE Lapse
  BY <1>5, LapsesKeep
<1>6. CASE UNCHANGED vars
  BY <1>6, QuietKeep DEF vars, server, redis, binding, net, device
<1> QED BY <1>1, <1>2, <1>3, <1>4, <1>5, <1>6

(* Every step keeps the invariant.                                         *)
LEMMA StepIInv == IInv /\ [Next]_vars => IInv'
BY EmitStep, ResumeStep, EndStep, LinkStep DEF Next

(* The invariant: the lock has one holder, no number is used twice, and    *)
(* what is on its way and in the log is what is stored.                    *)
THEOREM Safety == Spec => []IInv
<1> QED BY InitIInv, StepIInv, PTL DEF Spec

(* While the buffer is there, what the device has or is sent is what the   *)
(* replay has: a message is on its way only after it was stored, and what  *)
(* was stored at a number is not stored over.                              *)
THEOREM LogIsStored == Spec => []SeenIsStored
<1>1. IInv => SeenIsStored
  BY DEF IInv, NumbersFit, WireFits, OnItsWay, Stored, LogFits, SeenIsStored
<1> QED BY <1>1, Safety, PTL

(* The last event has a number the device has not seen, from the tracker   *)
(* of a binding or from the replay: it is ahead of the log and of what is  *)
(* on its way.  Exempt: an end that finds the run unbound and its rebuilt  *)
(* replay empty (run_handlers.py:793), and any after a resume that was cut *)
(* off (run_handlers.py:906).                                              *)
THEOREM FinalAhead == Spec => FinalIsFresh
<1>1. ASSUME IInv, EndFinal, epoch = 0 \/ last > 0, "abort" \notin happened
      PROVE  Fresh(FinalSeq)
  <2>1. Types /\ bound /\ ~Reading /\ last \in Nat /\ Cursor \in Nat
    BY <1>1, TypeFacts DEF IInv, EndFinal, LocksFit, Reading, None
  <2>2. Cursor <= last
    BY <1>1, <2>1 DEF IInv, TrackerFits
  <2>3. \A i \in DOMAIN wire : wire[i].seq <= last /\ wire[i].seq \in Nat
    BY <1>1, <2>1, TypeFacts DEF IInv, WireFits, OnItsWay
  <2> QED BY <2>1, <2>2, <2>3 DEF Fresh, FinalSeq
<1>2. IInv /\ [Next]_vars
        => [EndFinal /\ (epoch = 0 \/ last > 0) /\ "abort" \notin happened => Fresh(FinalSeq)]_vars
  BY <1>1
<1> QED BY <1>2, Safety, PTL DEF Spec, FinalIsFresh

------------------------------------------------------------------------------
(* How far the events stored in s go without a hole: the stream they are.  *)
ReachOf(s) == CHOOSE n \in 0 .. MaxSeq + 1 : /\ \A k \in 1 .. n : s[k] # NoEvent
                                             /\ n = MaxSeq + 1 \/ s[n + 1] = NoEvent
StreamOf(s) == [n \in 1 .. ReachOf(s) |-> s[n]]

LEMMA ReachIs ==
  ASSUME NEW s
  PROVE  /\ ReachOf(s) \in 0 .. MaxSeq + 1 /\ \A k \in 1 .. ReachOf(s) : s[k] # NoEvent
         /\ ReachOf(s) = MaxSeq + 1 \/ s[ReachOf(s) + 1] = NoEvent
<1> DEFINE S == {n \in 0 .. MaxSeq + 1 : n = MaxSeq + 1 \/ s[n + 1] = NoEvent}
<1>1. S \in SUBSET (0 .. MaxSeq + 1) /\ S \subseteq Nat /\ MaxSeq + 1 \in S
  BY SeqsAre
<1>2. IsFiniteSet(S)
  <2>1. IsFiniteSet(0 .. MaxSeq + 1)
    BY SeqsAre, FS_Interval
  <2> QED BY <1>1, <2>1, FS_Subset
<1>3. PICK k \in S : \A j \in S : k <= j
  BY <1>1, <1>2, Smallest
<1>4. ASSUME NEW j \in 1 .. k, s[j] = NoEvent PROVE FALSE
  <2>1. j - 1 \in S /\ ~(k <= j - 1)
    BY <1>1, <1>4
  <2> QED BY <1>3, <2>1
<1>5. /\ k \in 0 .. MaxSeq + 1 /\ \A j \in 1 .. k : s[j] # NoEvent
      /\ k = MaxSeq + 1 \/ s[k + 1] = NoEvent
  BY <1>4
<1> QED BY <1>5 DEF ReachOf

(* That stream is a sequence of events.                                    *)
LEMMA StreamOfIs ==
  ASSUME NEW s \in [Seqs -> Event \union {NoEvent}]
  PROVE  /\ StreamOf(s) \in Seq(Event) /\ Len(StreamOf(s)) = ReachOf(s)
         /\ \A n \in 1 .. ReachOf(s) : n \in Seqs /\ StreamOf(s)[n] = s[n]
<1>1. ReachOf(s) \in Nat /\ \A n \in 1 .. ReachOf(s) : n \in Seqs /\ s[n] \in Event
  BY ReachIs, SeqsAre
<1>2. StreamOf(s) \in [1 .. ReachOf(s) -> Event]
  BY <1>1 DEF StreamOf
<1>3. StreamOf(s) \in Seq(Event) /\ Len(StreamOf(s)) = ReachOf(s)
  BY <1>1, <1>2
<1> QED BY <1>1, <1>3 DEF StreamOf

(* What agrees with the stored events, from the first on, is a beginning   *)
(* of their stream.                                                        *)
LEMMA BeginningIs ==
  ASSUME NEW s \in [Seqs -> Event \union {NoEvent}], NEW short \in Seq(Event),
         \A n \in DOMAIN short : n \in Seqs /\ s[n] = short[n]
  PROVE  Len(short) <= ReachOf(s) /\ Abstract!Extends(StreamOf(s), short)
<1>1. Len(short) \in Nat /\ DOMAIN short = 1 .. Len(short)
        /\ \A n \in DOMAIN short : short[n] \in Event
  BY LenProperties
<1>2. Len(short) <= ReachOf(s)
  <2> SUFFICES ASSUME ~(Len(short) <= ReachOf(s)) PROVE FALSE
    OBVIOUS
  <2>1. ReachOf(s) + 1 \in DOMAIN short /\ ReachOf(s) + 1 \in Seqs
    BY ReachIs
  <2>2. s[ReachOf(s) + 1] # NoEvent /\ ReachOf(s) # MaxSeq + 1
    BY <2>1, NoEventIs, SeqsAre
  <2> QED BY <2>2, ReachIs
<1>3. SubSeq(StreamOf(s), 1, Len(short)) = short
  <2> DEFINE t == StreamOf(s)
             u == SubSeq(t, 1, Len(short))
  <2>1. t \in Seq(Event) /\ Len(t) = ReachOf(s) /\ \A n \in 1 .. ReachOf(s) : t[n] = s[n]
    BY StreamOfIs
  <2> HIDE DEF t
  <2>2. u = [i \in 1 .. Len(short) |-> t[i]]
    BY <1>1, <2>1
  <2>3. \A i \in 1 .. Len(short) : t[i] = short[i]
    BY <1>2, <2>1
  <2> HIDE DEF u
  <2>5. u = short
    BY <2>2, <2>3
  <2> QED BY <2>5 DEF u, t
<1>4. Len(StreamOf(s)) >= Len(short)
  BY <1>2, StreamOfIs
<1> QED BY <1>2, <1>3, <1>4 DEF Abstract!Extends

(* What a step does to the stream and to the log.                          *)
LEMMA StreamSteps ==
  ASSUME IInv, [Next]_vars
  PROVE  \/ UNCHANGED <<stored, log, epoch>>
         \/ /\ UNCHANGED <<log, epoch>>
            /\ \A n \in Seqs : stored[n] # NoEvent => stored'[n] = stored[n]
         \/ log' = log /\ epoch' = epoch + 1
         \/ Receive
<1>1. ASSUME NEW e \in Emitter, Store(e)
      PROVE  /\ UNCHANGED <<log, epoch>>
             /\ \A n \in Seqs : stored[n] # NoEvent => stored'[n] = stored[n]
  <2>1. Types /\ (alive => stored[task[e].seq] = NoEvent)
    BY <1>1 DEF IInv, TasksFit, Store
  <2> QED BY <1>1, <2>1, TypeFacts DEF Store, device
<1>2. ASSUME NEW e \in Emitter,
             EmitBegin(e) \/ Number(e) \/ StoreRefused(e) \/ Send(e) \/ Stop(e)
      PROVE  UNCHANGED <<stored, log, epoch>>
  BY <1>2 DEF EmitBegin, Number, StoreRefused, Send, Stop, redis, device
<1>3. ASSUME Unbind \/ ResumeBegin \/ ResumeRead \/ ResumeSend \/ ResumeGone \/ ResumeRefused
             \/ ResumeAborted \/ EndLock \/ EndBind \/ EndMove \/ EndUntold
      PROVE  UNCHANGED <<stored, log, epoch>>
  BY <1>3 DEF Unbind, ResumeBegin, ResumeRead, ResumeSend, ResumeGone, ResumeRefused,
     ResumeAborted, EndLock, EndBind, EndMove, EndUntold, redis, device
<1>4. ASSUME Connect \/ Disconnect \/ Tick \/ Lapse \/ UNCHANGED vars
      PROVE  UNCHANGED <<stored, log, epoch>>
  BY <1>4 DEF Connect, Disconnect, Tick, Lapse, vars, server, redis, device
<1>5. ASSUME ResumeRebuild \/ EndFinal PROVE log' = log /\ epoch' = epoch + 1
  BY <1>5 DEF ResumeRebuild, EndFinal, device
<1> QED BY <1>1, <1>2, <1>3, <1>4, <1>5 DEF Next

(* Each of these is a step of the abstract stream, or changes nothing there. *)
LEMMA StreamStep ==
  ASSUME IInv, IInv', [Next]_vars
  PROVE  [Abstract!StreamNext]_(Abstract!streamVars)
<1> DEFINE published == [n \in 1 .. Reach |-> stored[n]]
<1>1. published = StreamOf(stored) /\ published' = StreamOf(stored')
  BY DEF Reach, Whole, StreamOf, ReachOf
<1> HIDE DEF published
<1>2. /\ stored \in [Seqs -> Event \union {NoEvent}] /\ stored' \in [Seqs -> Event \union {NoEvent}]
      /\ log \in Seq(Event) /\ log' \in Seq(Event)
      /\ \A n \in DOMAIN log' : n \in Seqs /\ stored'[n] = log'[n]
  BY DEF IInv, LogFits, Types, RedisTypes, DeviceTypes
<1>3. published' \in Seq(Event)
  BY <1>1, <1>2, StreamOfIs
<1>4. CASE UNCHANGED <<stored, log, epoch>>
  <2>1. UNCHANGED <<published, log, epoch>>
    BY <1>1, <1>4
  <2> QED BY <2>1 DEF Abstract!streamVars, published
<1>5. CASE UNCHANGED <<log, epoch>> /\ \A n \in Seqs : stored[n] # NoEvent => stored'[n] = stored[n]
  <2>1. \A n \in DOMAIN StreamOf(stored) : n \in Seqs /\ stored'[n] = StreamOf(stored)[n]
    BY <1>2, <1>5, StreamOfIs, ReachIs
  <2>2. Abstract!Extends(published', published)
    BY <1>1, <1>2, <2>1, StreamOfIs, BeginningIs
  <2>3. Abstract!Publish
    BY <1>3, <1>5, <2>2 DEF Abstract!Publish, published
  <2> QED BY <2>3 DEF Abstract!StreamNext
<1>6. CASE log' = log /\ epoch' = epoch + 1
  <2>1. Abstract!Extends(published', log)
    BY <1>1, <1>2, <1>6, BeginningIs
  <2>2. Abstract!Cut
    BY <1>3, <1>6, <2>1 DEF Abstract!Cut, published
  <2> QED BY <2>2 DEF Abstract!StreamNext
<1>7. CASE Receive
  <2>1. UNCHANGED <<stored, epoch>> /\ Types /\ published' = published
    BY <1>1, <1>7 DEF Receive, server, redis, IInv
  <2>2. CASE log' = log
    BY <2>1, <2>2 DEF Abstract!streamVars, published
  <2>3. CASE log' # log
    <3>1. /\ wire[1].seq = Cursor + 1 /\ log' = Append(log, Head(wire).ev)
          /\ Cursor' = Cursor + 1 /\ log'[Cursor + 1] = Head(wire).ev
               /\ DOMAIN log' = 1 .. Cursor + 1
      BY <1>7, <2>1, <2>3, ReceiveIs
    <3>2. Cursor + 1 <= ReachOf(stored) /\ Cursor \in Nat
      BY <1>2, <2>1, <3>1, BeginningIs, TypeFacts DEF Cursor
    <3>3. stored[Cursor + 1] = Head(wire).ev
      BY <1>2, <2>1, <3>1
    <3>4. Len(published) = ReachOf(stored) /\ published[Cursor + 1] = stored[Cursor + 1]
      BY <1>1, <1>2, <3>2, StreamOfIs
    <3>5. Len(log) < Len(published) /\ log' = Append(log, published[Len(log) + 1])
      BY <3>1, <3>2, <3>3, <3>4
    <3>6. Abstract!Receive
      BY <2>1, <3>5 DEF Abstract!Receive, published
    <3> QED BY <3>6 DEF Abstract!StreamNext
  <2> QED BY <2>2, <2>3
<1> QED BY <1>4, <1>5, <1>6, <1>7, StreamSteps

(* The detailed stream implements the abstract one: what is numbered and   *)
(* stored is added behind, a rebuild and the end of the run give up only   *)
(* what the device does not have, and the device receives in order.        *)
THEOREM Refinement == Spec => ImplementsEventStream
<1>1. Init => Abstract!StreamInit
  <2> SUFFICES ASSUME Init PROVE Abstract!StreamInit
    OBVIOUS
  <2>1. Reach = ReachOf(stored) /\ 1 \in Seqs /\ stored[1] = NoEvent
    BY SeqsAre DEF Init, Reach, Whole, ReachOf
  <2>2. Reach = 0
    BY <2>1, ReachIs
  <2>3. [n \in 1 .. Reach |-> stored[n]] = <<>>
    BY <2>2
  <2> QED BY <2>3 DEF Init, Abstract!StreamInit
<1> QED BY <1>1, StreamStep, StepIInv, Safety, PTL DEF Spec, ImplementsEventStream,
      Abstract!StreamSpec
==============================================================================

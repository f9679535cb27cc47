------------------------------ MODULE RunBuffer -------------------------------
(***************************************************************************)
(* backend/codeagent/buffer.py: the three Redis keys of one run - the      *)
(* conversation, the replay, and a hash with the creation stamp, the       *)
(* stream counter and the sizes - and the calls of several threads on      *)
(* them.  A call is a series of requests.  A request is atomic; it may be  *)
(* lost, be carried out unheard, or be carried out twice when its reply is *)
(* lost and the client retries it.  A process that dies is a request that  *)
(* is lost or unheard, with nothing behind it.                             *)
(***************************************************************************)
EXTENDS Naturals, Sequences, FiniteSets, SequencesExt

CONSTANTS Caller,       \* threads that use the buffer
          MaxStream,    \* MAX_STREAM_BYTES, in records
          PageSize,     \* records in a page of a read
          Mishaps,      \* what may happen to a request
          Used,         \* bound: the streams that are appended to and read
          MaxCalls,     \* bound: calls
          MaxMishaps    \* bound: requests with a mishap

ASSUME BufferAssumption ==
  /\ MaxStream \in Nat \ {0} /\ PageSize \in Nat \ {0}
  /\ MaxCalls \in Nat /\ MaxMishaps \in Nat
  /\ Mishaps \subseteq {"lost", "unheard", "twice"} /\ Used \subseteq {"conv", "replay"}

Streams == {"conv", "replay"}
Keys == Streams \union {"meta"}

VARIABLES redis,        \* the run's keys
          capped,       \* the creation stamps whose hard cap has passed
          gens, items,  \* stamps and item ids used so far
          call,         \* what each thread is doing
          content,      \* history: the stamp of the content that is there, or 0
          given,        \* history: the last number handed out from it
          acked,        \* history: its items whose append returned
          longest,      \* history: the longest answer of its readers
          calls, mishaps  \* history: how many there were

promises == <<content, given, acked, longest>>
vars == <<redis, capped, gens, items, call, promises, calls, mishaps>>

(* A record carries its item's id, its index and their count; id 0 is the  *)
(* first record, the state or the header.                                  *)
Record(id, n, of) == [id |-> id, n |-> n, of |-> of]
First == Record(0, 1, 1)
ItemRecords(id, count) == [n \in 1 .. count |-> Record(id, n, count)]

------------------------------------------------------------------------------
(* Redis.  An empty list is no key, an absent field counts from 0, and     *)
(* `ttl` holds the keys that expire.                                       *)
Gone == [list |-> [s \in Streams |-> <<>>], hash |-> FALSE, stamp |-> 0, seq |-> 0,
         size |-> [s \in Streams |-> 0], ttl |-> {}]
Exists(r, key) == IF key = "meta" THEN r.hash ELSE r.list[key] # <<>>
Content(r) == \A s \in Streams : Exists(r, s)
Expire(r) == [r EXCEPT !.ttl = {key \in Keys : Exists(r, key)}]

\* create_buffer's claim: HSETNX, and EXPIRE .. LT.
ClaimIn(r, stamp) ==
  [r EXCEPT !.hash = TRUE, !.ttl = @ \union {"meta"},
            !.stamp = IF @ = 0 THEN stamp ELSE @]

\* Fault: the sizes are added to what is there.
FillInKeepingSize(r, lastSeq) ==
  [r EXCEPT !.list = [s \in Streams |-> <<First>>], !.hash = TRUE, !.seq = lastSeq,
            !.size["conv"] = @ + 1, !.ttl = Keys]
\* create_buffer's first group: DEL, two RPUSHes, HSET and the three EXPIREs.
FillIn(r, lastSeq) ==
  [r EXCEPT !.list = [s \in Streams |-> <<First>>], !.hash = TRUE, !.seq = lastSeq,
            !.size = [conv |-> 1, replay |-> 0], !.ttl = Keys]

\* Fault: RPUSH.
PushInAnyway(r, s, group) ==
  [Expire([r EXCEPT !.list[s] = @ \o group]) EXCEPT !.hash = TRUE, !.size[s] = @ + Len(group)]
\* _push: RPUSHX, the three EXPIREs, and HINCRBY behind them.
PushIn(r, s, group) ==
  LET pushed == IF Exists(r, s) THEN [r EXCEPT !.list[s] = @ \o group] ELSE r IN
  [Expire(pushed) EXCEPT !.hash = TRUE, !.size[s] = @ + Len(group)]

\* next_seq: HINCRBY and the three EXPIREs.
BumpIn(r) == Expire([r EXCEPT !.hash = TRUE, !.seq = @ + 1])

------------------------------------------------------------------------------
(* A call: where it stands, the stamp it read, what it has left to push    *)
(* and what it has read; and which content was there when it began, with   *)
(* what a read of it owes its caller.                                      *)
Ops == {"create", "delete", "exists", "touch", "read", "append", "next"}
Places == {"claim", "fill", "undo", "check", "refresh", "page", "push", "bump",
           "delete", "answered"}
Idle == [op |-> "idle", at |-> "idle", stream |-> "conv", saw |-> 0, todo |-> <<>>,
         got |-> <<>>, of |-> 0, owes |-> {}]

Init ==
  /\ redis = Gone /\ capped = {}
  /\ gens = 0 /\ items = 0
  /\ call = [c \in Caller |-> Idle]
  /\ content = 0 /\ given = 0
  /\ acked = [s \in Streams |-> {}] /\ longest = [s \in Streams |-> <<>>]
  /\ calls = 0 /\ mishaps = 0

At(c, place) == call[c].at = place
Return(c) == call' = [call EXCEPT ![c] = Idle]
Goto(c, place) == call' = [call EXCEPT ![c].at = place]
Discard(c) == call' = [call EXCEPT ![c] = [Idle EXCEPT !.op = call[c].op, !.at = "delete"]]
Begin(c, new) ==
  /\ call[c] = Idle /\ calls < MaxCalls
  /\ calls' = calls + 1
  /\ call' = [call EXCEPT ![c] = new]
  /\ UNCHANGED <<redis, capped, gens, promises, mishaps>>

(* What may come of a request: whether it is heard of, and the keys behind *)
(* it when it is carried out once, and again.                              *)
Outcomes == {"heard"} \union Mishaps
Heard(how) == how \in {"heard", "twice"}
Happens(how) ==
  /\ how # "heard" => mishaps < MaxMishaps
  /\ mishaps' = IF how = "heard" THEN mishaps ELSE mishaps + 1
  /\ UNCHANGED calls
Behind(how, once, again) ==
  CASE how = "lost" -> redis [] how = "twice" -> again [] OTHER -> once

\* What was promised of a content ends with it.
Forget == acked' = [s \in Streams |-> {}] /\ longest' = [s \in Streams |-> <<>>]
KeepPromises ==
  IF Content(redis') THEN UNCHANGED <<content, acked, longest>>
                     ELSE content' = 0 /\ Forget

\* BufferUnavailable; a creation deletes what it wrote, if its process is alive.
Raise(c) == Return(c) \/ (call[c].op = "create" /\ Goto(c, "undo"))

------------------------------------------------------------------------------
(* create_buffer and delete_buffer.                                        *)
BeginCreate(c) ==
  /\ Begin(c, [Idle EXCEPT !.op = "create", !.at = "claim"])
  /\ UNCHANGED items

Claim(c) == \E how \in Outcomes :
  /\ At(c, "claim") /\ Happens(how)
  /\ redis' = Behind(how, ClaimIn(redis, gens + 1), ClaimIn(redis, gens + 1))
  /\ gens' = IF redis'.stamp = redis.stamp THEN gens ELSE gens + 1
  /\ IF how = "heard" /\ redis.stamp = 0
     THEN call' = [call EXCEPT ![c].at = "fill", ![c].saw = gens']
     ELSE Return(c)                               \* BufferExists, BufferUnavailable
  /\ UNCHANGED <<capped, items, promises>>

\* The state, and the first group of the history; the other is pushed behind it.
Fill(c, lastSeq, withHistory) == \E how \in Outcomes :
  /\ At(c, "fill") /\ Happens(how)
  /\ redis' = Behind(how, FillIn(redis, lastSeq), FillIn(redis, lastSeq))
  /\ IF how = "lost" THEN UNCHANGED promises
     ELSE content' = call[c].saw /\ given' = lastSeq /\ Forget
  /\ \/ ~Heard(how) /\ Raise(c) /\ UNCHANGED items
     \/ Heard(how) /\ ~withHistory /\ Return(c) /\ UNCHANGED items
     \/ /\ Heard(how) /\ withHistory
        /\ items' = items + 1
        /\ call' = [call EXCEPT ![c].at = "push", ![c].of = content',
                                ![c].todo = ItemRecords(items', 1)]
  /\ UNCHANGED <<capped, gens>>

BeginDelete(c) ==
  /\ Begin(c, [Idle EXCEPT !.op = "delete", !.at = "delete"])
  /\ UNCHANGED items

\* DEL: delete_buffer, _gone, a hard cap, and the undoing of a creation.
Delete(c) == \E how \in Outcomes :
  /\ At(c, "delete") \/ At(c, "undo")
  /\ Happens(how)
  /\ redis' = Behind(how, Gone, Gone)
  /\ IF call[c].op = "create" /\ At(c, "delete") THEN Raise(c) ELSE Return(c)
  /\ KeepPromises
  /\ UNCHANGED <<capped, gens, items, given>>

------------------------------------------------------------------------------
(* _check, which only reads, and what each call makes of its answer.       *)
BeginUse(c, op, s) ==
  /\ Begin(c, [Idle EXCEPT !.op = op, !.at = "check", !.stream = s, !.of = content,
                 !.owes = IF op = "read" THEN acked[s] ELSE {}])
  /\ UNCHANGED items

CheckFails(c) ==
  /\ At(c, "check")
  /\ \/ redis.stamp = 0 /\ Return(c) /\ UNCHANGED <<calls, mishaps>>
     \/ redis.stamp \in capped /\ Discard(c) /\ UNCHANGED <<calls, mishaps>>
     \/ \E how \in Mishaps : ~Heard(how) /\ Happens(how) /\ Return(c)
  /\ UNCHANGED <<redis, capped, gens, items, promises>>

CheckUse(c) ==
  /\ At(c, "check") /\ redis.stamp \notin capped \union {0}
  /\ \/ call[c].op = "exists" /\ Return(c)
     \/ /\ call[c].op \in {"touch", "read", "next"}
        /\ call' = [call EXCEPT ![c].saw = redis.stamp,
                      ![c].at = IF call[c].op = "next" THEN "bump" ELSE "refresh"]
  /\ UNCHANGED <<redis, capped, gens, items, promises, calls, mishaps>>

\* _append; BufferFull is judged by the size that _check read.
CheckAppend(c, count) ==
  /\ At(c, "check") /\ redis.stamp \notin capped \union {0}
  /\ call[c].op = "append"
  /\ \/ /\ redis.size[call[c].stream] + count > MaxStream
        /\ Return(c)
        /\ UNCHANGED items
     \/ /\ redis.size[call[c].stream] + count <= MaxStream
        /\ items' = items + 1
        /\ call' = [call EXCEPT ![c].saw = redis.stamp, ![c].at = "push",
                                ![c].todo = ItemRecords(items', count)]
  /\ UNCHANGED <<redis, capped, gens, promises, calls, mishaps>>

\* _expire_commands refuses before the request is sent.
Over(c) == call[c].saw \in capped
CapSeen(c) ==
  /\ call[c].at \in {"refresh", "push", "bump"} /\ Over(c)
  /\ Discard(c)
  /\ UNCHANGED <<redis, capped, gens, items, promises, calls, mishaps>>

Refresh(c) == \E how \in Outcomes :
  /\ At(c, "refresh") /\ ~Over(c) /\ Happens(how)
  /\ redis' = Behind(how, Expire(redis), Expire(redis))
  /\ IF ~Heard(how) THEN Return(c)
     ELSE IF ~Content(redis) THEN Discard(c)                             \* _gone
     ELSE IF call[c].op = "touch" THEN Return(c) ELSE Goto(c, "page")
  /\ UNCHANGED <<capped, gens, items, promises>>

\* One group; the item is acknowledged behind the last of them.
Push(c) == \E how \in Outcomes :
  LET s == call[c].stream
      group == <<Head(call[c].todo)>>
      once == PushIn(redis, s, group)
      whole == Len(call[c].todo) = 1 IN
  /\ At(c, "push") /\ ~Over(c) /\ Happens(how)
  /\ redis' = Behind(how, once, PushIn(once, s, group))
  /\ IF ~Heard(how) THEN Raise(c)
     ELSE IF ~Content(redis') THEN Discard(c)                            \* _gone
     ELSE IF whole THEN Return(c)
     ELSE call' = [call EXCEPT ![c].todo = Tail(@)]
  /\ acked' = IF Heard(how) /\ Content(redis') /\ whole /\ call[c].of = content
              THEN [acked EXCEPT ![s] = @ \union {Head(group).id}] ELSE acked
  /\ UNCHANGED <<capped, gens, items, content, given, longest>>

\* Fault: the number is handed out without a look at the other replies.
BumpUnchecked(c) == \E how \in Outcomes :
  /\ At(c, "bump") /\ ~Over(c) /\ Happens(how)
  /\ redis' = Behind(how, BumpIn(redis), BumpIn(BumpIn(redis)))
  /\ Return(c) /\ given' = IF Heard(how) THEN redis'.seq ELSE given
  /\ UNCHANGED <<capped, gens, items, content, acked, longest>>

\* next_seq hands the number out, unless a list is missing.
Bump(c) == \E how \in Outcomes :
  /\ At(c, "bump") /\ ~Over(c) /\ Happens(how)
  /\ redis' = Behind(how, BumpIn(redis), BumpIn(BumpIn(redis)))
  /\ IF Heard(how) /\ ~Content(redis')
     THEN Discard(c) /\ UNCHANGED given                                  \* _gone
     ELSE Return(c) /\ given' = IF Heard(how) THEN redis'.seq ELSE given
  /\ UNCHANGED <<capped, gens, items, content, acked, longest>>

------------------------------------------------------------------------------
(* _read_stream: LRANGE page by page, and of the records every item that   *)
(* is complete, once, in the order in which they became complete.          *)
CompletesAgain(records, i) ==                   \* Fault: a record may count twice.
  {records[j].n : j \in {k \in 1 .. i : records[k].id = records[i].id}} = 1 .. records[i].of
Completes(records, i) ==
  LET here == records[i]
      before == {records[j].n : j \in {k \in 1 .. i - 1 : records[k].id = here.id}} IN
  here.n \notin before /\ before \union {here.n} = 1 .. here.of
Ends(records) == {i \in DOMAIN records : Completes(records, i)}
Complete(records) ==
  LET Nth(k) == CHOOSE i \in Ends(records) : Cardinality({j \in Ends(records) : j <= i}) = k
  IN  [k \in 1 .. Cardinality(Ends(records)) |-> records[Nth(k)].id]

ReadFails(c) ==
  /\ At(c, "page")
  /\ \/ \E how \in Mishaps : ~Heard(how) /\ Happens(how) /\ Return(c)
     \/ \* nothing in the first page: the stream is gone
        /\ call[c].got = <<>> /\ redis.list[call[c].stream] = <<>>
        /\ Discard(c)
        /\ UNCHANGED <<calls, mishaps>>
  /\ UNCHANGED <<redis, capped, gens, items, promises>>

ReadPage(c) ==
  LET s == call[c].stream
      list == redis.list[s]
      end == Len(call[c].got) + PageSize
      last == Len(list) < end
      got == call[c].got \o SubSeq(list, Len(call[c].got) + 1, IF last THEN Len(list) ELSE end)
  IN
  /\ At(c, "page") /\ got # <<>>
  /\ call' = [call EXCEPT ![c].got = got, ![c].at = IF last THEN "answered" ELSE "page"]
  /\ longest' = IF last /\ call[c].of = content /\ Len(Complete(got)) > Len(longest[s])
                THEN [longest EXCEPT ![s] = Complete(got)] ELSE longest
  /\ UNCHANGED <<redis, capped, gens, items, content, given, acked, calls, mishaps>>

Answered(c) ==
  /\ At(c, "answered")
  /\ Return(c)
  /\ UNCHANGED <<redis, capped, gens, items, promises, calls, mishaps>>

------------------------------------------------------------------------------
(* Time passes: the hard cap, and the TTLs, which run out together - but   *)
(* past the cap the hash outlives the lists (EXPIRED_MARKER_SECONDS).      *)
PassCap ==
  /\ redis.stamp \notin capped \union {0}
  /\ capped' = capped \union {redis.stamp}
  /\ UNCHANGED <<redis, gens, items, call, promises, calls, mishaps>>

Lapse ==
  /\ redis.ttl # {}
  /\ \/ redis' = IF "meta" \in redis.ttl THEN Gone
                 ELSE [redis EXCEPT !.list = Gone.list, !.ttl = {}]
     \/ /\ redis.stamp \in capped
        /\ redis' = [redis EXCEPT !.list = Gone.list, !.ttl = @ \ Streams]
  /\ KeepPromises
  /\ UNCHANGED <<capped, gens, items, call, given, calls, mishaps>>

Next ==
  \/ \E c \in Caller :
       \/ BeginCreate(c) \/ Claim(c)
       \/ \E lastSeq \in 0 .. given, withHistory \in BOOLEAN : Fill(c, lastSeq, withHistory)
       \/ BeginDelete(c) \/ Delete(c)
       \/ \E op \in {"exists", "touch", "next"} : BeginUse(c, op, "conv")
       \/ \E op \in {"read", "append"}, s \in Used : BeginUse(c, op, s)
       \/ CheckFails(c) \/ CheckUse(c) \/ (\E count \in 1 .. 2 : CheckAppend(c, count))
       \/ CapSeen(c) \/ Refresh(c) \/ Push(c) \/ Bump(c)
       \/ ReadFails(c) \/ ReadPage(c) \/ Answered(c)
  \/ PassCap \/ Lapse

Spec == Init /\ [][Next]_vars

------------------------------------------------------------------------------
(* "A write to an expired buffer can never bring a half-buffer back": the  *)
(* two lists live and die together, whatever call is late, and each begins *)
(* with its first record.                                                  *)
ListsLiveTogether ==
  \A s \in Streams : Exists(redis, s) => Head(redis.list[s]) = First /\ Content(redis)

(* BufferFull is judged by the size counters, so they are what the lists   *)
(* hold: after a creation over the remains of another buffer, after a      *)
(* write that landed twice, and after calls that raced a deletion.         *)
SizesAreExact ==
  Content(redis) =>
    /\ redis.size["conv"] = Len(redis.list["conv"])
    /\ redis.size["replay"] + 1 = Len(redis.list["replay"])

(* A read of a content that was there all along has every item that was    *)
(* acknowledged before it began, none twice, and agrees with every other   *)
(* read of that content on their order ("so prompt-cache prefixes stay     *)
(* stable"), however many pages, threads and retried requests it took.     *)
ReadsAreFaithful ==
  \A c \in Caller : At(c, "answered") /\ call[c].of = content /\ content # 0 =>
    LET answer == Complete(call[c].got) IN
    /\ IsInjective(answer)
    /\ call[c].owes \subseteq ToSet(answer)
    /\ IsPrefix(answer, longest[call[c].stream])

(* next_seq hands out ever larger numbers for a buffer, also when a call   *)
(* that came too late brought the hash back.                               *)
NumbersRise ==
  [][content' = content /\ given' # given => given' > given]_vars
==============================================================================

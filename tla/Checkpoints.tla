---------------------------- MODULE Checkpoints ------------------------------
(***************************************************************************)
(* m2c/checkpoints.py, with the calls the runner and the terminal make of  *)
(* it: before a tool changes a file its content is saved as a blob and     *)
(* named by a row of the index; a rewind puts every file with a row back   *)
(* and drops the rows; the collector deletes blobs no row names.           *)
(* Snapshot and rewind run on the event loop, one at a time.  The tools'   *)
(* worker threads, the collector (a process of its own), other programs    *)
(* and a crash come between their steps.                                   *)
(***************************************************************************)
EXTENDS Integers, FiniteSets

CONSTANTS Path,         \* files of the project
          Content,      \* what a file can hold; a blob's name is its content
          MaxStep       \* bound: steps numbered in one conversation

ASSUME CheckpointsAssumption ==
  MaxStep \in Nat /\ {"absent", "other", "idle", "look"} \cap Content = {}

Absent == "absent"      \* no such file
Other  == "other"       \* a link or a directory where the file was
Steps  == 1 .. MaxStep
None   == [path |-> "none"]
Free   == [kind |-> "free"]
Unread == -1

VARIABLES file,         \* the project's files
          row,          \* the index: what the file of each step was before it
          blob,         \* the store: missing, just written, an hour old, damaged
          loop,         \* the snapshot or rewind the event loop is in
          changing,     \* the tools' changes under way, by the step that covers them
          open,         \* a run is open in the terminal
          counter,      \* the runner's last step, Unread before its first checkpoint
          gc,           \* the collector: idle, holding the write lock, about to delete a blob
          ran,          \* history: the calls that ran, with the file each found
          hurried,      \* history: a rewind or a save of the file began over a late change
          raced,        \* history: the collector deleted a blob just put to use
          rotted        \* history: a blob was damaged on disk

storeVars == <<file, row, blob, loop, changing, open, counter, gc, ran, hurried, raced, rotted>>
store     == <<row, blob>>
history   == <<ran, hurried, raced, rotted>>

Saved == Content \union {Absent}
Row   == [path : Path, saved : Saved]
Job   == [kind : {"snapshot"}, at : {"verify", "touch", "insert"}, step : Steps, path : Path, saved : Saved]
         \union [kind : {"rewind"}, from : Steps, plan : [Path -> Saved \union {Other}],
                 todo : SUBSET Path, failed : BOOLEAN]

(* The models' types, and: the loop works for an open run or, without one, *)
(* rewinds; the changes under way have numbers the runner gave.            *)
StoreTypeOK ==
  /\ file \in [Path -> Saved \union {Other}]
  /\ row \in [Steps -> Row \union {None}]
  /\ blob \in [Content -> {"none", "young", "old", "bad"}]
  /\ loop \in Job \union {Free}
  /\ changing \in [Steps -> [path : Path, late : BOOLEAN] \union {None}]
  /\ open \in BOOLEAN /\ counter \in {Unread} \union 0 .. MaxStep
  /\ gc \in {"idle", "look"} \union Content
  /\ ran \in [Steps -> [path : Path, before : Saved \union {Other}] \union {None}]
  /\ {hurried, raced, rotted} \subseteq BOOLEAN
  /\ loop.kind = "rewind" => ~open
  /\ \A k \in Steps : changing[k] # None /\ ~changing[k].late => open /\ k = counter

Good(c) == blob[c] \in {"young", "old"}
Recorded == {k \in Steps : row[k] # None}
LastStep == IF Recorded = {} THEN 0 ELSE CHOOSE k \in Recorded : \A j \in Recorded : j <= k
Named(c) == \E k \in Recorded : row[k].saved = c
OnTheWay(p) == \E k \in Steps : changing[k] # None /\ changing[k].path = p

StoreInit ==
  /\ file \in [Path -> Saved]
  /\ row = [k \in Steps |-> None]
  /\ blob = [c \in Content |-> "none"]
  /\ loop = Free /\ changing = [k \in Steps |-> None]
  /\ open = FALSE /\ counter = Unread /\ gc = "idle"
  /\ ran = [k \in Steps |-> None]
  /\ hurried = FALSE /\ raced = FALSE /\ rotted = FALSE

------------------------------------------------------------------------------
(* The terminal: a message starts a run, with a runner of its own; Esc, a  *)
(* rewind or the run's end closes it, and what its thread is doing goes on.*)
StartRun ==
  /\ loop = Free /\ ~open
  /\ open' = TRUE /\ counter' = Unread
  /\ UNCHANGED <<file, store, loop, changing, gc, history>>

\* Fault: the runner is not told that the run is over.
EndRunSilently ==
  /\ loop = Free /\ open
  /\ open' = FALSE
  /\ UNCHANGED <<file, store, loop, changing, counter, gc, history>>

EndRun ==
  /\ loop = Free /\ open
  /\ open' = FALSE
  /\ changing' = [k \in Steps |->
                    IF changing[k] = None THEN None ELSE [changing[k] EXCEPT !.late = TRUE]]
  /\ UNCHANGED <<file, store, loop, counter, gc, history>>

------------------------------------------------------------------------------
(* The runner's _checkpoint, and snapshot() of one path.                   *)

\* The runner's calls that change something run one after the other.
NextStep == (IF counter = Unread THEN LastStep ELSE counter) + 1

(* The file is read into a temp file; whatever cannot be saved, a link, a  *)
(* directory, an unreadable or a changing file, refuses the call, and the  *)
(* number is used up.                                                      *)
Capture(p) ==
  /\ loop = Free /\ open
  /\ NextStep \in Steps /\ changing[NextStep] = None     \* bound: one change per number
  /\ \A k \in Steps : changing[k] # None => changing[k].late
  /\ counter' = NextStep
  /\ \/ /\ file[p] # Other
        /\ loop' = [kind |-> "snapshot", at |-> IF file[p] = Absent THEN "insert" ELSE "verify",
                    step |-> NextStep, path |-> p, saved |-> file[p]]
        /\ hurried' = (hurried \/ OnTheWay(p))
     \/ UNCHANGED <<loop, hurried>>
  /\ UNCHANGED <<file, store, changing, open, gc, ran, raced, rotted>>

(* A blob of that content that is whole is used again; any other is        *)
(* replaced by the bytes in hand.                                          *)
Commit ==
  /\ loop.kind = "snapshot" /\ loop.at = "verify"
  /\ IF Good(loop.saved)
     THEN loop' = [loop EXCEPT !.at = "touch"] /\ UNCHANGED blob
     ELSE /\ loop' = [loop EXCEPT !.at = "insert"]
          /\ blob' = [blob EXCEPT ![loop.saved] = "young"]
  /\ UNCHANGED <<file, row, changing, open, counter, gc, history>>

\* Fault: the age of a blob used again is left as it was.
TouchNothing ==
  /\ loop.kind = "snapshot" /\ loop.at = "touch"
  /\ loop' = [loop EXCEPT !.at = "insert"]
  /\ UNCHANGED <<file, store, changing, open, counter, gc, history>>

\* Its age is refreshed; that the blob went meanwhile is suppressed.
Touch ==
  /\ loop.kind = "snapshot" /\ loop.at = "touch"
  /\ loop' = [loop EXCEPT !.at = "insert"]
  /\ blob' = [blob EXCEPT ![loop.saved] = IF @ = "old" THEN "young" ELSE @]
  /\ UNCHANGED <<file, row, changing, open, counter, gc, history>>

\* Fault: the call goes on without its row.
InsertAnyway ==
  /\ loop.kind = "snapshot" /\ loop.at = "insert"
  /\ \/ /\ gc = "idle"
        /\ row' = [row EXCEPT ![loop.step] = [path |-> loop.path, saved |-> loop.saved]]
     \/ UNCHANGED row
  /\ changing' = [changing EXCEPT ![loop.step] = [path |-> loop.path, late |-> FALSE]]
  /\ loop' = Free
  /\ UNCHANGED <<file, blob, open, counter, gc, history>>

(* _insert_rows takes the write lock.  With the row the call goes to its   *)
(* thread; when it cannot be written the call is refused.                  *)
Insert ==
  /\ loop.kind = "snapshot" /\ loop.at = "insert"
  /\ \/ /\ gc = "idle"
        /\ row' = [row EXCEPT ![loop.step] = [path |-> loop.path, saved |-> loop.saved]]
        /\ changing' = [changing EXCEPT ![loop.step] = [path |-> loop.path, late |-> FALSE]]
     \/ UNCHANGED <<row, changing>>
  /\ loop' = Free
  /\ UNCHANGED <<file, blob, open, counter, gc, history>>

\* What the call of step k finds, when it changes its file or fails to.
Found(k) == [path |-> changing[k].path, before |-> file[changing[k].path]]

(* edit_file, write_file and delete_path in their thread: the change is    *)
(* one rename or unlink, a cancel does not reach it, and it may fail.      *)
Land(k) ==
  /\ changing[k] # None
  /\ LET p == changing[k].path
     IN /\ \/ /\ file[p] # Other
              /\ \E v \in Saved \ {file[p]} : file' = [file EXCEPT ![p] = v]
           \/ UNCHANGED file
        /\ ran' = [ran EXCEPT ![k] = Found(k)]
  /\ changing' = [changing EXCEPT ![k] = None]
  /\ UNCHANGED <<store, loop, open, counter, gc, hurried, raced, rotted>>

------------------------------------------------------------------------------
(* rewind(): the files go back to what they were before step n.            *)

Covering(n, p) == {k \in Recorded : k >= n /\ row[k].path = p}
Earliest(S) == CHOOSE k \in S : \A j \in S : k <= j
Latest(S)   == CHOOSE k \in S : \A j \in S : k >= j

\* Fault: the last row of a path is taken, not the first.
PlanLatest(n) ==
  [p \in Path |-> IF Covering(n, p) = {} THEN Other ELSE row[Latest(Covering(n, p))].saved]

\* _load_plan: the first row of each path from step n on; Other: no row.
Plan(n) ==
  [p \in Path |-> IF Covering(n, p) = {} THEN Other ELSE row[Earliest(Covering(n, p))].saved]

(* rewind_to has ended the run.  No file is touched before every blob of   *)
(* the plan has been read and found whole (_verify_blobs).                 *)
BeginRewind(n) ==
  /\ loop = Free /\ ~open /\ n \in Recorded
  /\ \A p \in Path : Plan(n)[p] \in Content => Good(Plan(n)[p])
  /\ loop' = [kind |-> "rewind", from |-> n, plan |-> Plan(n),
              todo |-> {p \in Path : Plan(n)[p] # Other}, failed |-> FALSE]
  /\ hurried' = (hurried \/ \E k \in Steps : changing[k] # None)
  /\ UNCHANGED <<file, store, changing, open, counter, gc, ran, raced, rotted>>

(* _apply_item: a link or a directory in the way is skipped, a file that   *)
(* is right left alone, an I/O error noted; a blob lost since the          *)
(* preflight ends the rewind here, with the rows kept.                     *)
Apply(p) ==
  /\ loop.kind = "rewind" /\ p \in loop.todo
  /\ LET done == [loop EXCEPT !.todo = @ \ {p}]
     IN \/ /\ file[p] \in {Other, loop.plan[p]}
           /\ loop' = done /\ UNCHANGED file
        \/ /\ file[p] \notin {Other, loop.plan[p]}
           /\ loop.plan[p] \in Content => Good(loop.plan[p])
           /\ file' = [file EXCEPT ![p] = loop.plan[p]]
           /\ loop' = done
        \/ /\ file[p] \notin {Other, loop.plan[p]}
           /\ loop.plan[p] \in Content /\ ~Good(loop.plan[p])
           /\ loop' = Free /\ UNCHANGED file
        \/ /\ loop' = [done EXCEPT !.failed = TRUE]
           /\ UNCHANGED file
  /\ UNCHANGED <<store, changing, open, counter, gc, history>>

(* _finish, in one transaction, unless a file could not be restored        *)
(* (RewindIncompleteError) or the store refuses: then the rows are kept.   *)
Finish ==
  /\ loop.kind = "rewind" /\ loop.todo = {}
  /\ \/ /\ ~loop.failed /\ gc = "idle"
        /\ row' = [k \in Steps |-> IF k >= loop.from THEN None ELSE row[k]]
        /\ ran' = [k \in Steps |-> IF k >= loop.from THEN None ELSE ran[k]]
     \/ UNCHANGED <<row, ran>>
  /\ loop' = Free
  /\ UNCHANGED <<file, blob, changing, open, counter, gc, hurried, raced, rotted>>

------------------------------------------------------------------------------
(* gc_orphans(): the write lock is held from the first look to the last    *)
(* deletion.                                                               *)
CollectBegin ==
  /\ gc = "idle" /\ gc' = "look"
  /\ UNCHANGED <<file, store, loop, changing, open, counter, history>>

\* lstat: an old blob no row names.
Aim(c) ==
  /\ gc = "look" /\ blob[c] \in {"old", "bad"} /\ ~Named(c)
  /\ gc' = c
  /\ UNCHANGED <<file, store, loop, changing, open, counter, history>>

(* unlink, which may hit another blob than the one that was judged: one a  *)
(* snapshot has verified, refreshed or replaced in between.                *)
Unlink(c) ==
  /\ gc = c
  /\ gc' = "look"
  /\ blob' = [blob EXCEPT ![c] = "none"]
  /\ raced' = (raced \/ blob[c] = "young"
               \/ (loop.kind = "snapshot" /\ loop.at = "touch" /\ loop.saved = c))
  /\ UNCHANGED <<file, row, loop, changing, open, counter, ran, hurried, rotted>>

CollectEnd ==
  /\ gc = "look" /\ gc' = "idle"
  /\ UNCHANGED <<file, store, loop, changing, open, counter, history>>

------------------------------------------------------------------------------
(* An hour passes, GC_MIN_AGE_S: longer than a snapshot takes.             *)
Age(c) ==
  /\ blob[c] = "young"
  /\ ~(loop.kind = "snapshot" /\ loop.saved = c)
  /\ blob' = [blob EXCEPT ![c] = "old"]
  /\ UNCHANGED <<file, row, loop, changing, open, counter, gc, history>>

\* A blob is damaged on disk; not the one a snapshot has just verified.
Rot(c) ==
  /\ Good(c) /\ ~rotted
  /\ ~(loop.kind = "snapshot" /\ loop.saved = c)
  /\ blob' = [blob EXCEPT ![c] = "bad"]
  /\ rotted' = TRUE
  /\ UNCHANGED <<file, row, loop, changing, open, counter, gc, ran, hurried, raced>>

(* The person, or a shell command of the model's, changes a file itself;   *)
(* no checkpoint covers that.  Not in the moments between a checkpoint of  *)
(* the file and the change it is for, nor while a rewind is at work: the   *)
(* module excludes neither, and says so.                                   *)
Outside(p) ==
  /\ loop.kind # "rewind" /\ ~OnTheWay(p)
  /\ loop.kind = "snapshot" => loop.path # p
  /\ \E v \in Saved \union {Other} : v # file[p] /\ file' = [file EXCEPT ![p] = v]
  /\ UNCHANGED <<store, loop, changing, open, counter, gc, history>>

\* The terminal's process dies; the store and the files stay.
Crash ==
  /\ loop # Free \/ open \/ \E k \in Steps : changing[k] # None
  /\ loop' = Free /\ changing' = [k \in Steps |-> None]
  /\ open' = FALSE /\ counter' = Unread
  /\ ran' = [k \in Steps |-> IF changing[k] = None THEN ran[k] ELSE Found(k)]
  /\ UNCHANGED <<file, store, gc, hurried, raced, rotted>>

StoreNext ==
  \/ StartRun \/ EndRun \/ Crash
  \/ \E p \in Path : Capture(p) \/ Apply(p) \/ Outside(p)
  \/ Commit \/ Touch \/ Insert \/ Finish
  \/ \E k \in Steps : Land(k) \/ BeginRewind(k)
  \/ CollectBegin \/ CollectEnd
  \/ \E c \in Content : Aim(c) \/ Unlink(c) \/ Age(c) \/ Rot(c)

StoreSpec == StoreInit /\ [][StoreNext]_storeVars

------------------------------------------------------------------------------
(* Every row's blob is in the store and whole, so that a rewind's          *)
(* preflight passes, whatever the collector, a crash and a damaged blob    *)
(* used again do in between: unless the disk damaged a blob after its row  *)
(* was there, or the collector deleted one that a snapshot had just taken. *)
RowsNameBlobs ==
  raced \/ \A k \in Recorded : row[k].saved \in Content =>
             \/ Good(row[k].saved)
             \/ blob[row[k].saved] = "bad" /\ rotted

(* Every change a tool has made, and no rewind has undone, has a row of    *)
(* its step that holds what the file was right before it: whatever runs    *)
(* were ended, crashed, or half rewound in between - until (hurried) a     *)
(* rewind begins, or the file is saved again, while the thread of an ended *)
(* run is still about to change it, as tui/session.py:854 allows.          *)
EditsAreSaved ==
  hurried \/ \A k \in Steps : ran[k] # None =>
               row[k] = [path |-> ran[k].path, saved |-> ran[k].before]

(* A rewind that ends well has undone every change from its step on: each  *)
(* file is what it was before the first of them, unless a link or a        *)
(* directory has taken its place; or, as above, a thread of an ended run   *)
(* was at work when a rewind began (NothingLandsUndone shows that case).   *)
Undone(n) ==
  \A k \in Steps : ran[k] # None /\ k >= n
    /\ (\A j \in Steps : ran[j] # None /\ j >= n /\ ran[j].path = ran[k].path => k <= j)
    => file[ran[k].path] \in {ran[k].before, Other}
Finished == loop.kind = "rewind" /\ row' # row
RewindUndoes == [][Finished => hurried \/ Undone(loop.from)]_storeVars

(* What rewind_to promises of the session: "End the run, restore the       *)
(* files", and its prompt, "Every change from that step on is undone."     *)
\* After a rewind no change of an ended run lands.
NothingLandsUndone ==
  [][\A k \in Steps : ran[k] = None /\ ran'[k] # None => row[k] # None]_storeVars
====

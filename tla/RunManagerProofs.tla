--------------------------- MODULE RunManagerProofs ----------------------------
(***************************************************************************)
(* What holds of run_manager.py for every number of threads that start,    *)
(* resume, end, cancel and purge one run: the proofs of the properties of  *)
(* RunManager.                                                             *)
(***************************************************************************)
EXTENDS RunManager, TLAPS

(* Which calls stand at which places, and what they carry.                 *)
Fits(x) ==
  /\ x.at \in {"row", "fill", "fail"} => x.op = "start"
  /\ x.at \in {"get", "attach", "drop", "rebuild", "leave", "discard", "undo"} => x.op = "resume"
  /\ x.at = "launch" => x.op \in {"start", "resume"}
  /\ x.at = "flag" => x.op = "cancel"
  /\ x.at = "exists" => x.op = "sweep"
  /\ x.at = "move" => x.op \in {"start", "resume", "end", "cancel", "sweep"}
  /\ x.at = "move" /\ x.op = "end" => x.to \in TerminalStates
  /\ x.op = "cancel" => x.to = "cancelled"
  /\ x.at = "undo" => x.saw \in ResumeFrom
OpsFit == \A c \in Caller : Fits(call[c])

(* Who deletes is a call of a run that is over.                            *)
Deletes(x) == x.at \in {"delete", "clear", "discard"}
DeletesEnded == \A c \in Caller : Deletes(call[c]) => Ended

(* The content of an open run is there, or was lost, or somebody is about  *)
(* to build it; what cannot be read is lost.                               *)
Builds(x) == x.at \in {"fill", "rebuild"}
ContentFits ==
  /\ buf = "unreadable" => lost
  /\ Open => buf = "readable" \/ lost \/ \E c \in Caller : Builds(call[c])

(* What an ended run has left is in the hands of a call that takes it away.*)
TakesBuffer(x) ==
  \/ x.at \in {"delete", "discard"}
  \/ x.at = "leave" /\ x.rebuilt /\ x.saw \in ResumeFrom
TakesFlag(x) ==
  \/ x.at \in {"delete", "clear"}
  \/ x.at = "move" /\ x.op = "cancel"
Sound == Ended /\ ~unclean /\ ~unfenced
CleanUpIsComing ==
  Sound =>
    /\ buf # "none" => \E c \in Caller : TakesBuffer(call[c])
    /\ flag => \E c \in Caller : TakesFlag(call[c])

(* The inductive invariant.                                                *)
IInv == TypeOK /\ OpsFit /\ DeletesEnded /\ ContentFits /\ CleanUpIsComing

------------------------------------------------------------------------------
(* The groups of states, and what the table of moves says of them.         *)
LEMMA StateGroups ==
  /\ OpenStates \subseteq States /\ TerminalStates \subseteq States
  /\ OpenStates \cap TerminalStates = {} /\ None \notin States
  /\ ResumeFrom \subseteq OpenStates /\ PausedStates \subseteq OpenStates
  /\ {"created", "running"} \subseteq OpenStates
  /\ {"failed", "expired", "cancelled"} \subseteq TerminalStates
  /\ "created" \notin ResumeFrom
  BY DEF OpenStates, States, SlotStates, PausedStates, TerminalStates, ResumeFrom, None

LEMMA InitIInv == Init => IInv
<1> SUFFICES ASSUME Init PROVE IInv
  OBVIOUS
<1>1. /\ call \in [Caller -> Calls \union {NoCall}]
      /\ \A c \in Caller : call[c].at = "idle" /\ call[c].op = "idle"
  BY DEF Init, NoCall
<1>2. ~Ended /\ ~Open
  BY StateGroups DEF Init, Ended, Open
<1> QED
  BY <1>1, <1>2 DEF Init, IInv, TypeOK, OpsFit, DeletesEnded, ContentFits,
       CleanUpIsComing, Fits, Deletes

(* What a move of the row does: it leaves an open state, for another.      *)
LEMMA Moves ==
  ASSUME TypeOK, NEW to, Move(to)
  PROVE  Open /\ state' = to /\ ~stale' /\ to \in States /\ stale' \in BOOLEAN
<1>1. Transitions[state] \subseteq States
  BY StateGroups DEF Move, Legal, Open, Transitions, States, SlotStates,
       TerminalStates, Endings
<1> QED
  BY <1>1 DEF Move, Legal, CanTransition

(***************************************************************************)
(* What the step of one call has to establish: of the other calls it is    *)
(* enough that the run does not come back from its end, and that content   *)
(* or a flag they answer for was theirs before the step.                   *)
(***************************************************************************)
Shown(c) ==
  /\ call' \in [Caller -> Calls \union {NoCall}]
  /\ \A d \in Caller \ {c} : call'[d] = call[d]
Keeps(c) ==
  /\ Shown(c)
  /\ state' \in States \union {None} /\ buf' \in {"none", "readable", "unreadable"}
  /\ {stale, flag, lost, unclean, unfenced}' \subseteq BOOLEAN
  /\ Fits(call'[c])
  /\ (Ended => Ended') /\ (Deletes(call'[c]) => Ended')
  /\ buf' = "unreadable" => lost'
  /\ Open' => \/ buf' = "readable" \/ lost' \/ Builds(call'[c])
              \/ Open /\ buf # "readable" /\ ~lost /\ ~Builds(call[c])
  /\ Sound' /\ buf' # "none" =>
       TakesBuffer(call'[c]) \/ (Sound /\ buf # "none" /\ ~TakesBuffer(call[c]))
  /\ Sound' /\ flag' =>
       TakesFlag(call'[c]) \/ (Sound /\ flag /\ ~TakesFlag(call[c]))

LEMMA KeepsIsEnough ==
  ASSUME IInv, NEW c \in Caller, Keeps(c)
  PROVE  IInv'
<1>1. TypeOK'
  BY DEF Keeps, Shown, TypeOK
<1>2. OpsFit'
  BY DEF IInv, Keeps, Shown, OpsFit
<1>3. DeletesEnded'
  BY DEF IInv, Keeps, Shown, DeletesEnded
<1>4. ContentFits'
  <2>1. CASE Open /\ buf # "readable" /\ ~lost /\ ~Builds(call[c])
    <3>1. PICK d \in Caller : Builds(call[d])
      BY <2>1 DEF IInv, ContentFits
    <3>2. call'[d] = call[d]
      BY <2>1, <3>1 DEF Keeps, Shown
    <3> QED
      BY <3>1, <3>2 DEF Keeps, ContentFits
  <2>2. CASE ~(Open /\ buf # "readable" /\ ~lost /\ ~Builds(call[c]))
    BY <2>2 DEF Keeps, ContentFits
  <2> QED
    BY <2>1, <2>2
<1>5. CleanUpIsComing'
  <2>1. ASSUME Sound', buf' # "none"
        PROVE  \E d \in Caller : TakesBuffer(call'[d])
    <3>1. CASE TakesBuffer(call'[c])
      BY <3>1
    <3>2. CASE ~TakesBuffer(call'[c])
      <4>1. PICK d \in Caller : TakesBuffer(call[d])
        BY <2>1, <3>2 DEF IInv, Keeps, CleanUpIsComing
      <4>2. call'[d] = call[d]
        BY <2>1, <3>2, <4>1 DEF Keeps, Shown
      <4> QED
        BY <4>1, <4>2
    <3> QED
      BY <3>1, <3>2
  <2>2. ASSUME Sound', flag'
        PROVE  \E d \in Caller : TakesFlag(call'[d])
    <3>1. CASE TakesFlag(call'[c])
      BY <3>1
    <3>2. CASE ~TakesFlag(call'[c])
      <4>1. PICK d \in Caller : TakesFlag(call[d])
        BY <2>2, <3>2 DEF IInv, Keeps, CleanUpIsComing
      <4>2. call'[d] = call[d]
        BY <2>2, <3>2, <4>1 DEF Keeps, Shown
      <4> QED
        BY <4>1, <4>2
    <3> QED
      BY <3>1, <3>2
  <2> QED
    BY <2>1, <2>2 DEF CleanUpIsComing
<1> QED
  BY <1>1, <1>2, <1>3, <1>4, <1>5 DEF IInv

(* A call that stands at a place, goes to the next, or returns.            *)
Called(c) == call'[c].op = call[c].op /\ call'[c].to = call[c].to
Kept(c) == Called(c) /\ call'[c].saw = call[c].saw /\ call'[c].rebuilt = call[c].rebuilt

LEMMA Stands ==
  ASSUME TypeOK, NEW c \in Caller, call[c].at # "idle"
  PROVE  call[c] \in Calls
  BY DEF TypeOK, NoCall

LEMMA Goes ==
  ASSUME TypeOK, NEW c \in Caller, call[c] \in Calls, NEW place \in Places, Goto(c, place)
  PROVE  Shown(c) /\ call'[c].at = place /\ Kept(c)
<1>1. [call[c] EXCEPT !.at = place] \in Calls
  BY DEF Calls
<1>2. call' = [call EXCEPT ![c] = [call[c] EXCEPT !.at = place]]
  BY DEF Goto
<1>3. Shown(c) /\ call'[c] = [call[c] EXCEPT !.at = place]
  BY <1>1, <1>2 DEF TypeOK, Shown
<1> QED
  BY <1>3 DEF Kept, Called

LEMMA Returns ==
  ASSUME TypeOK, NEW c \in Caller, Return(c)
  PROVE  Shown(c) /\ call'[c].at = "idle" /\ call'[c].op = "idle"
<1>1. Shown(c) /\ call'[c] = NoCall
  BY DEF TypeOK, Return, Shown
<1> QED
  BY <1>1 DEF NoCall

------------------------------------------------------------------------------
(* A call that begins is at its first place, and nothing else changes.     *)
LEMMA BeginKeeps ==
  ASSUME IInv, NEW c \in Caller, NEW new \in Calls, Begin(c, new), Fits(new),
         ~Deletes(new)
  PROVE  IInv'
<1>1. /\ UNCHANGED <<state, stale, flag, buf, lost, unclean, unfenced>> /\ call[c] = NoCall
      /\ Shown(c) /\ call'[c] = new
  BY DEF Begin, content, IInv, TypeOK, Shown
<1>2. call[c].at = "idle"
  BY <1>1 DEF NoCall
<1>3. Keeps(c)
  BY <1>1, <1>2 DEF IInv, TypeOK, Keeps, ContentFits, Ended, Open, Sound, Builds,
       TakesBuffer, TakesFlag
<1> QED
  BY <1>3, KeepsIsEnough

------------------------------------------------------------------------------
(* The steps of a call, one lemma each: where the call stands, where it    *)
(* goes, and what that keeps.                                              *)
LEMMA StartRowKeeps ==
  ASSUME IInv, NEW c \in Caller, StartRow(c)
  PROVE  IInv'
<1>1. call[c].at = "row" /\ call[c] \in Calls /\ Fits(call[c]) /\ (Deletes(call[c]) => Ended)
  BY Stands DEF StartRow, At, IInv, OpsFit, DeletesEnded
<1>2. /\ (Goto(c, "fill") => Shown(c) /\ call'[c].at = "fill" /\ Kept(c))
      /\ (Return(c) => Shown(c) /\ call'[c].at = "idle" /\ call'[c].op = "idle")
  BY <1>1, Goes, Returns DEF IInv, Places
<1>3. Keeps(c)
  BY <1>1, <1>2, StateGroups DEF StartRow, content, IInv, TypeOK, CleanUpIsComing,
       Kept, Called, Calls, Keeps, ContentFits, Fits, Deletes, Builds, TakesBuffer,
       TakesFlag, Sound, Ended, Open
<1> QED
  BY <1>3, KeepsIsEnough

LEMMA StartFillKeeps ==
  ASSUME IInv, NEW c \in Caller, StartFill(c)
  PROVE  IInv'
<1>1. call[c].at = "fill" /\ call[c] \in Calls /\ Fits(call[c]) /\ (Deletes(call[c]) => Ended)
  BY Stands DEF StartFill, At, IInv, OpsFit, DeletesEnded
<1>2. /\ (Goto(c, "fail") => Shown(c) /\ call'[c].at = "fail" /\ Kept(c))
      /\ (Goto(c, "launch") => Shown(c) /\ call'[c].at = "launch" /\ Kept(c))
  BY <1>1, Goes DEF IInv, Places
<1>3. UNCHANGED <<state, stale, flag, unclean>>
  BY DEF StartFill, Still
<1>4. lost' \in BOOLEAN /\ unfenced' \in BOOLEAN
  BY DEF StartFill, IInv, TypeOK
<1>5. \/ buf' = "readable" /\ lost' = FALSE /\ (Ended => unfenced') /\ (unfenced => unfenced')
         /\ Goto(c, "launch") /\ buf = "none"
      \/ buf # "none" /\ Goto(c, "fail") /\ UNCHANGED <<buf, lost, unfenced>>
  BY DEF StartFill
<1>6. Keeps(c)
  BY <1>1, <1>2, <1>3, <1>4, <1>5 DEF IInv, TypeOK, ContentFits, Kept, Called, Keeps,
       Fits, Deletes, TakesBuffer, TakesFlag, Sound, Ended
<1> QED
  BY <1>6, KeepsIsEnough

LEMMA StartFailKeeps ==
  ASSUME IInv, NEW c \in Caller, StartFail(c)
  PROVE  IInv'
<1>1. call[c].at = "fail" /\ call[c] \in Calls /\ Fits(call[c]) /\ (Deletes(call[c]) => Ended)
  BY Stands DEF StartFail, At, IInv, OpsFit, DeletesEnded
<1>2. Return(c) => Shown(c) /\ call'[c].at = "idle" /\ call'[c].op = "idle"
  BY Returns DEF IInv
<1>3. unfenced' \in BOOLEAN
  BY DEF StartFail, IInv, TypeOK
<1>4. Keeps(c)
  BY <1>1, <1>2, <1>3, StateGroups, Moves DEF StartFail, IInv, TypeOK, Keeps,
       ContentFits, Fits, Deletes, Builds, TakesBuffer, TakesFlag, Sound, Ended, Open
<1> QED
  BY <1>4, KeepsIsEnough

LEMMA LaunchKeeps ==
  ASSUME IInv, NEW c \in Caller, Launch(c)
  PROVE  IInv'
<1>1. call[c].at = "launch" /\ call[c] \in Calls /\ Fits(call[c]) /\ (Deletes(call[c]) => Ended)
  BY Stands DEF Launch, At, IInv, OpsFit, DeletesEnded
<1>2. /\ (Goto(c, "move") => Shown(c) /\ call'[c].at = "move" /\ Kept(c))
      /\ (Return(c) => Shown(c) /\ call'[c].at = "idle" /\ call'[c].op = "idle")
  BY <1>1, Goes, Returns DEF IInv, Places
<1>3. Keeps(c)
  BY <1>1, <1>2, StateGroups, Moves DEF Launch, content, IInv, TypeOK, Kept, Called,
       Keeps, ContentFits, Fits, Deletes, Builds, TakesBuffer, TakesFlag, Sound,
       Ended, Open
<1> QED
  BY <1>3, KeepsIsEnough

LEMMA ResumeGetKeeps ==
  ASSUME IInv, NEW c \in Caller, ResumeGet(c)
  PROVE  IInv'
<1>1. call[c].at = "get" /\ call[c] \in Calls /\ Fits(call[c]) /\ (Deletes(call[c]) => Ended)
  BY Stands DEF ResumeGet, At, IInv, OpsFit, DeletesEnded
<1>2. Return(c) => Shown(c) /\ call'[c].at = "idle" /\ call'[c].op = "idle"
  BY Returns DEF IInv
<1>3. (~Open => Return(c)) /\ (Open => /\ Shown(c) /\ call'[c].at = "attach" /\ Called(c))
  BY <1>1 DEF ResumeGet, Calls, Places, IInv, TypeOK, Shown, Called
<1>4. Keeps(c)
  BY <1>1, <1>2, <1>3 DEF ResumeGet, Still, content, IInv, TypeOK, Calls, Keeps,
       ContentFits, Fits, Deletes, Builds, TakesBuffer, TakesFlag, Sound, Ended, Open
<1> QED
  BY <1>4, KeepsIsEnough

LEMMA AttachKeeps ==
  ASSUME IInv, NEW c \in Caller, Attach(c)
  PROVE  IInv'
<1>1. call[c].at = "attach" /\ call[c] \in Calls /\ Fits(call[c]) /\ (Deletes(call[c]) => Ended)
  BY Stands DEF Attach, At, IInv, OpsFit, DeletesEnded
<1>2. /\ (Goto(c, "drop") => Shown(c) /\ call'[c].at = "drop" /\ Kept(c))
      /\ (Goto(c, "leave") => Shown(c) /\ call'[c].at = "leave" /\ Kept(c))
      /\ (Goto(c, "rebuild") => Shown(c) /\ call'[c].at = "rebuild" /\ Kept(c))
      /\ (Return(c) => Shown(c) /\ call'[c].at = "idle" /\ call'[c].op = "idle")
  BY <1>1, Goes, Returns DEF IInv, Places
<1>3. Keeps(c)
  BY <1>1, <1>2 DEF Attach, Still, content, IInv, TypeOK, Kept, Called, Keeps,
       ContentFits, Fits, Deletes, Builds, TakesBuffer, TakesFlag, Sound, Ended, Open
<1> QED
  BY <1>3, KeepsIsEnough

LEMMA DropUnreadableKeeps ==
  ASSUME IInv, NEW c \in Caller, DropUnreadable(c)
  PROVE  IInv'
<1>1. call[c].at = "drop" /\ call[c] \in Calls /\ Fits(call[c]) /\ (Deletes(call[c]) => Ended)
  BY Stands DEF DropUnreadable, At, IInv, OpsFit, DeletesEnded
<1>2. Goto(c, "rebuild") => Shown(c) /\ call'[c].at = "rebuild" /\ Kept(c)
  BY <1>1, Goes DEF IInv, Places
<1>3. Keeps(c)
  BY <1>1, <1>2 DEF DropUnreadable, Still, IInv, TypeOK, Kept, Called, Keeps, Fits,
       Deletes, Builds, TakesFlag, Sound, Ended
<1> QED
  BY <1>3, KeepsIsEnough

LEMMA RebuildKeeps ==
  ASSUME IInv, NEW c \in Caller, Rebuild(c)
  PROVE  IInv'
<1>1. call[c].at = "rebuild" /\ call[c] \in Calls /\ Fits(call[c]) /\ (Deletes(call[c]) => Ended)
  BY Stands DEF Rebuild, At, IInv, OpsFit, DeletesEnded
<1>2. Return(c) => Shown(c) /\ call'[c].at = "idle" /\ call'[c].op = "idle"
  BY Returns DEF IInv
<1>3. /\ buf = "unreadable" => Return(c)
      /\ buf # "unreadable" => Shown(c) /\ call'[c].at = "leave" /\ Called(c)
           /\ call'[c].saw = call[c].saw /\ call'[c].rebuilt
  BY <1>1 DEF Rebuild, Calls, Places, IInv, TypeOK, Shown, Called
<1>4. UNCHANGED <<state, stale, flag, unclean>>
  BY DEF Rebuild, Still
<1>5. lost' \in BOOLEAN /\ unfenced' \in BOOLEAN
  BY DEF Rebuild, IInv, TypeOK
<1>6. \/ buf' = "readable" /\ lost' = FALSE /\ (unfenced => unfenced') /\ buf = "none"
         /\ (Ended /\ call[c].saw \notin ResumeFrom => unfenced')
      \/ buf # "none" /\ UNCHANGED <<buf, lost, unfenced>>
  BY DEF Rebuild
<1>7. Keeps(c)
  BY <1>1, <1>2, <1>3, <1>4, <1>5, <1>6 DEF IInv, TypeOK, ContentFits, Called, Keeps,
       Fits, Deletes, TakesBuffer, TakesFlag, Sound, Ended
<1> QED
  BY <1>7, KeepsIsEnough

LEMMA LeaveKeeps ==
  ASSUME IInv, NEW c \in Caller, Leave(c)
  PROVE  IInv'
<1>1. call[c].at = "leave" /\ call[c] \in Calls /\ Fits(call[c]) /\ (Deletes(call[c]) => Ended)
  BY Stands DEF Leave, At, IInv, OpsFit, DeletesEnded
<1>2. /\ (Goto(c, "discard") => Shown(c) /\ call'[c].at = "discard" /\ Kept(c))
      /\ (Goto(c, "launch") => Shown(c) /\ call'[c].at = "launch" /\ Kept(c))
      /\ (Goto(c, "undo") => Shown(c) /\ call'[c].at = "undo" /\ Kept(c))
      /\ (Return(c) => Shown(c) /\ call'[c].at = "idle" /\ call'[c].op = "idle")
  BY <1>1, Goes, Returns DEF IInv, Places
<1>3. Keeps(c)
  BY <1>1, <1>2, StateGroups, Moves DEF Leave, content, IInv, TypeOK, Kept, Called,
       Keeps, ContentFits, Fits, Deletes, Builds, TakesBuffer, TakesFlag, Sound,
       Ended, Open
<1> QED
  BY <1>3, KeepsIsEnough

LEMMA DiscardKeeps ==
  ASSUME IInv, NEW c \in Caller, Discard(c)
  PROVE  IInv'
<1>1. call[c].at = "discard" /\ call[c] \in Calls /\ Fits(call[c]) /\ (Deletes(call[c]) => Ended)
  BY Stands DEF Discard, At, IInv, OpsFit, DeletesEnded
<1>2. Return(c) => Shown(c) /\ call'[c].at = "idle" /\ call'[c].op = "idle"
  BY Returns DEF IInv
<1>3. Keeps(c)
  BY <1>1, <1>2, StateGroups DEF Discard, Still, IInv, TypeOK, Keeps, Fits, Deletes,
       TakesFlag, Sound, Ended, Open
<1> QED
  BY <1>3, KeepsIsEnough

LEMMA UndoResumeKeeps ==
  ASSUME IInv, NEW c \in Caller, UndoResume(c)
  PROVE  IInv'
<1>1. call[c].at = "undo" /\ call[c] \in Calls /\ Fits(call[c]) /\ (Deletes(call[c]) => Ended)
  BY Stands DEF UndoResume, At, IInv, OpsFit, DeletesEnded
<1>2. Return(c) => Shown(c) /\ call'[c].at = "idle" /\ call'[c].op = "idle"
  BY Returns DEF IInv
<1>3. Keeps(c)
  BY <1>1, <1>2, StateGroups, Moves DEF UndoResume, content, IInv, TypeOK, Keeps,
       ContentFits, Fits, Deletes, Builds, TakesBuffer, TakesFlag, Sound, Ended, Open
<1> QED
  BY <1>3, KeepsIsEnough

LEMMA LookKeeps ==
  ASSUME IInv, NEW c \in Caller, Look(c)
  PROVE  IInv'
<1>1. call[c].at = "look" /\ call[c] \in Calls /\ Fits(call[c]) /\ (Deletes(call[c]) => Ended)
  BY Stands DEF Look, At, IInv, OpsFit, DeletesEnded
<1>2. /\ (Goto(c, "delete") => Shown(c) /\ call'[c].at = "delete" /\ Kept(c))
      /\ (Goto(c, "flag") => Shown(c) /\ call'[c].at = "flag" /\ Kept(c))
      /\ (Return(c) => Shown(c) /\ call'[c].at = "idle" /\ call'[c].op = "idle")
  BY <1>1, Goes, Returns DEF IInv, Places
<1>3. Keeps(c)
  BY <1>1, <1>2 DEF Look, Still, content, IInv, TypeOK, Kept, Called, Keeps,
       ContentFits, Fits, Deletes, Builds, TakesBuffer, TakesFlag, Sound, Ended, Open
<1> QED
  BY <1>3, KeepsIsEnough

LEMMA FlagKeeps ==
  ASSUME IInv, NEW c \in Caller, Flag(c)
  PROVE  IInv'
<1>1. call[c].at = "flag" /\ call[c] \in Calls /\ Fits(call[c]) /\ (Deletes(call[c]) => Ended)
  BY Stands DEF Flag, At, IInv, OpsFit, DeletesEnded
<1>2. Goto(c, "move") => Shown(c) /\ call'[c].at = "move" /\ Kept(c)
  BY <1>1, Goes DEF IInv, Places
<1>3. Keeps(c)
  BY <1>1, <1>2 DEF Flag, content, IInv, TypeOK, Kept, Called, Keeps, ContentFits,
       Fits, Deletes, Builds, TakesBuffer, TakesFlag, Sound, Ended, Open
<1> QED
  BY <1>3, KeepsIsEnough

LEMMA EndMoveKeeps ==
  ASSUME IInv, NEW c \in Caller, EndMove(c)
  PROVE  IInv'
<1>1. call[c].at = "move" /\ call[c] \in Calls /\ Fits(call[c]) /\ (Deletes(call[c]) => Ended)
  BY Stands DEF EndMove, At, IInv, OpsFit, DeletesEnded
<1>2. /\ (Goto(c, "delete") => Shown(c) /\ call'[c].at = "delete" /\ Kept(c))
      /\ (Return(c) => Shown(c) /\ call'[c].at = "idle" /\ call'[c].op = "idle")
  BY <1>1, Goes, Returns DEF IInv, Places
<1>3. flag' \in BOOLEAN
  BY DEF EndMove, IInv, TypeOK
<1>4. Keeps(c)
  BY <1>1, <1>2, <1>3, StateGroups, Moves DEF EndMove, content, IInv, TypeOK, Kept,
       Called, Keeps, ContentFits, Fits, Deletes, Builds, TakesBuffer, TakesFlag,
       Sound, Ended, Open, Target
<1> QED
  BY <1>4, KeepsIsEnough

LEMMA DeleteKeeps ==
  ASSUME IInv, NEW c \in Caller, Delete(c)
  PROVE  IInv'
<1>1. call[c].at = "delete" /\ call[c] \in Calls /\ Fits(call[c]) /\ (Deletes(call[c]) => Ended)
  BY Stands DEF Delete, At, IInv, OpsFit, DeletesEnded
<1>2. Goto(c, "clear") => Shown(c) /\ call'[c].at = "clear" /\ Kept(c)
  BY <1>1, Goes DEF IInv, Places
<1>3. Keeps(c)
  BY <1>1, <1>2, StateGroups DEF Delete, Still, IInv, TypeOK, Kept, Called, Keeps,
       Fits, Deletes, TakesFlag, Ended, Open
<1> QED
  BY <1>3, KeepsIsEnough

LEMMA ClearKeeps ==
  ASSUME IInv, NEW c \in Caller, Clear(c)
  PROVE  IInv'
<1>1. call[c].at = "clear" /\ call[c] \in Calls /\ Fits(call[c]) /\ (Deletes(call[c]) => Ended)
  BY Stands DEF Clear, At, IInv, OpsFit, DeletesEnded
<1>2. Return(c) => Shown(c) /\ call'[c].at = "idle" /\ call'[c].op = "idle"
  BY Returns DEF IInv
<1>3. Keeps(c)
  BY <1>1, <1>2, StateGroups DEF Clear, content, IInv, TypeOK, Keeps, ContentFits,
       Fits, Deletes, TakesBuffer, Sound, Ended, Open
<1> QED
  BY <1>3, KeepsIsEnough

LEMMA SweepExistsKeeps ==
  ASSUME IInv, NEW c \in Caller, SweepExists(c)
  PROVE  IInv'
<1>1. call[c].at = "exists" /\ call[c] \in Calls /\ Fits(call[c]) /\ (Deletes(call[c]) => Ended)
  BY Stands DEF SweepExists, At, IInv, OpsFit, DeletesEnded
<1>2. /\ (Goto(c, "move") => Shown(c) /\ call'[c].at = "move" /\ Kept(c))
      /\ (Return(c) => Shown(c) /\ call'[c].at = "idle" /\ call'[c].op = "idle")
  BY <1>1, Goes, Returns DEF IInv, Places
<1>3. Keeps(c)
  BY <1>1, <1>2 DEF SweepExists, Still, content, IInv, TypeOK, Kept, Called, Keeps,
       ContentFits, Fits, Deletes, Builds, TakesBuffer, TakesFlag, Sound, Ended, Open
<1> QED
  BY <1>3, KeepsIsEnough

LEMMA FailKeeps ==
  ASSUME IInv, NEW c \in Caller, Fail(c)
  PROVE  IInv'
<1>1. call[c] \in Calls /\ Fits(call[c]) /\ (Deletes(call[c]) => Ended)
  BY DEF Fail, IInv, TypeOK, OpsFit, DeletesEnded
<1>2. /\ (Goto(c, "clear") => Shown(c) /\ call'[c].at = "clear" /\ Kept(c))
      /\ (Goto(c, "fail") => Shown(c) /\ call'[c].at = "fail" /\ Kept(c))
      /\ (Goto(c, "move") => Shown(c) /\ call'[c].at = "move" /\ Kept(c))
      /\ (Return(c) => Shown(c) /\ call'[c].at = "idle" /\ call'[c].op = "idle")
  BY <1>1, Goes, Returns DEF IInv, Places
<1>3. lost' \in BOOLEAN /\ unclean' \in BOOLEAN
  BY DEF Fail
<1>4. Keeps(c)
  BY <1>1, <1>2, <1>3, StateGroups DEF Fail, Still, IInv, TypeOK, CleanUpIsComing,
       Kept, Called, Calls, Keeps, ContentFits, Fits, Deletes, Builds, TakesBuffer,
       TakesFlag, Sound, Ended, Open, At
<1> QED
  BY <1>4, KeepsIsEnough

LEMMA CrashKeeps ==
  ASSUME IInv, NEW c \in Caller, Crash(c)
  PROVE  IInv'
<1>1. call[c] \in Calls /\ Fits(call[c]) /\ (Deletes(call[c]) => Ended)
  BY DEF Crash, IInv, TypeOK, OpsFit, DeletesEnded
<1>2. Return(c) => Shown(c) /\ call'[c].at = "idle" /\ call'[c].op = "idle"
  BY Returns DEF IInv
<1>3. lost' \in BOOLEAN
  BY DEF Crash
<1>4. Keeps(c)
  BY <1>2 DEF Crash, Still, IInv, TypeOK, Keeps, ContentFits, Fits, Deletes, Builds,
       Sound, Ended, Open, At
<1> QED
  BY <1>4, KeepsIsEnough

------------------------------------------------------------------------------
(* The moves and mishaps that are nobody's call.                           *)
LEMMA PauseKeeps ==
  ASSUME IInv, NEW to \in PausedStates, Pause(to)
  PROVE  IInv'
<1>1. TypeOK'
  BY Moves DEF IInv, TypeOK, Pause, content
<1>2. OpsFit'
  BY DEF IInv, OpsFit, Pause
<1>3. DeletesEnded'
  BY StateGroups, Moves DEF IInv, DeletesEnded, Open, Ended, Pause
<1>4. ContentFits'
  BY Moves DEF IInv, ContentFits, Pause, content
<1>5. CleanUpIsComing'
  BY StateGroups, Moves DEF IInv, CleanUpIsComing, Sound, Ended, Pause
<1> QED
  BY <1>1, <1>2, <1>3, <1>4, <1>5 DEF IInv

LEMMA GrantKeeps ==
  ASSUME IInv, Grant
  PROVE  IInv'
<1>1. TypeOK'
  BY Moves DEF IInv, TypeOK, Grant, content
<1>2. OpsFit'
  BY DEF IInv, OpsFit, Grant
<1>3. DeletesEnded'
  BY StateGroups, Moves DEF IInv, DeletesEnded, Open, Ended, Grant
<1>4. ContentFits'
  BY Moves DEF IInv, ContentFits, Grant, content
<1>5. CleanUpIsComing'
  BY StateGroups, Moves DEF IInv, CleanUpIsComing, Sound, Ended, Grant
<1> QED
  BY <1>1, <1>2, <1>3, <1>4, <1>5 DEF IInv

LEMMA IdleKeeps ==
  ASSUME IInv, Idle
  PROVE  IInv'
<1>1. TypeOK'
  BY DEF IInv, TypeOK, Idle, content
<1>2. OpsFit'
  BY DEF IInv, OpsFit, Idle
<1>3. DeletesEnded'
  BY DEF IInv, DeletesEnded, Ended, Idle
<1>4. ContentFits'
  BY DEF IInv, ContentFits, Idle, content
<1>5. CleanUpIsComing'
  BY StateGroups DEF CleanUpIsComing, Sound, Ended, Idle, Open
<1> QED
  BY <1>1, <1>2, <1>3, <1>4, <1>5 DEF IInv

LEMMA LapseKeeps ==
  ASSUME IInv, Lapse
  PROVE  IInv'
<1>1. TypeOK'
  BY DEF IInv, TypeOK, Lapse, Still
<1>2. OpsFit'
  BY DEF IInv, OpsFit, Lapse
<1>3. DeletesEnded'
  BY DEF IInv, DeletesEnded, Ended, Lapse, Still
<1>4. ContentFits'
  BY DEF ContentFits, Lapse
<1>5. CleanUpIsComing'
  BY DEF IInv, CleanUpIsComing, Sound, Ended, Lapse, Still
<1> QED
  BY <1>1, <1>2, <1>3, <1>4, <1>5 DEF IInv

LEMMA RetireKeeps ==
  ASSUME IInv, Retire
  PROVE  IInv'
<1>1. TypeOK'
  BY DEF IInv, TypeOK, Retire, Still
<1>2. OpsFit'
  BY DEF IInv, OpsFit, Retire
<1>3. DeletesEnded'
  BY DEF IInv, DeletesEnded, Ended, Retire, Still
<1>4. ContentFits'
  BY DEF ContentFits, Retire
<1>5. CleanUpIsComing'
  BY DEF IInv, CleanUpIsComing, Sound, Ended, Retire, Still
<1> QED
  BY <1>1, <1>2, <1>3, <1>4, <1>5 DEF IInv

------------------------------------------------------------------------------
LEMMA StutterKeeps ==
  ASSUME IInv, UNCHANGED vars
  PROVE  IInv'
  BY DEF vars, IInv, TypeOK, OpsFit, DeletesEnded, ContentFits, CleanUpIsComing,
       Sound, Ended, Open

LEMMA NewCallKeeps ==
  ASSUME IInv, NEW c \in Caller,
         NEW op \in {"start", "resume", "end", "cancel", "purge", "sweep"},
         NEW at \in {"row", "get", "move", "look", "exists"},
         NEW to \in TerminalStates \union {None}, NEW withState \in BOOLEAN,
         at = "row" => op = "start", at = "get" => op = "resume", at = "exists" => op = "sweep",
         at = "move" => op = "end" /\ to \in TerminalStates,
         op = "cancel" => to = "cancelled",
         Begin(c, NewCall(op, at, to, withState))
  PROVE  IInv'
<1> DEFINE new == NewCall(op, at, to, withState)
<1>1. new \in Calls /\ new.op = op /\ new.at = at /\ new.to = to
  BY DEF NewCall, Calls, Places
<1>2. Fits(new) /\ ~Deletes(new)
  BY <1>1 DEF Fits, Deletes
<1> HIDE DEF new
<1>3. Begin(c, new)
  BY DEF new
<1> QED
  BY <1>1, <1>2, <1>3, BeginKeeps

LEMMA ClientsBegin ==
  ASSUME IInv, NEW c \in Client,
         \/ BeginStart(c)
         \/ \E withState \in BOOLEAN : BeginResume(c, withState)
         \/ \E to \in TerminalStates \ {"cancelled"} : BeginEnd(c, to)
         \/ BeginCancel(c) \/ BeginPurge(c)
  PROVE  IInv'
<1>0. c \in Caller
  BY DEF Caller
<1>1. CASE BeginStart(c)
  BY <1>0, <1>1, NewCallKeeps DEF BeginStart
<1>2. ASSUME NEW withState \in BOOLEAN, BeginResume(c, withState)
      PROVE  IInv'
  BY <1>0, <1>2, NewCallKeeps DEF BeginResume
<1>3. ASSUME NEW to \in TerminalStates \ {"cancelled"}, BeginEnd(c, to)
      PROVE  IInv'
  BY <1>0, <1>3, NewCallKeeps DEF BeginEnd
<1>4. CASE BeginCancel(c)
  BY <1>0, <1>4, NewCallKeeps, StateGroups DEF BeginCancel
<1>5. CASE BeginPurge(c)
  BY <1>0, <1>5, NewCallKeeps DEF BeginPurge
<1> QED
  BY <1>1, <1>2, <1>3, <1>4, <1>5

LEMMA StepKeeps ==
  ASSUME IInv, [Next]_vars
  PROVE  IInv'
<1>1. ASSUME NEW c \in Client,
             \/ BeginStart(c)
             \/ \E withState \in BOOLEAN : BeginResume(c, withState)
             \/ \E to \in TerminalStates \ {"cancelled"} : BeginEnd(c, to)
             \/ BeginCancel(c) \/ BeginPurge(c)
      PROVE  IInv'
  BY <1>1, ClientsBegin
<1>2. CASE BeginSweep
  BY <1>2, NewCallKeeps DEF BeginSweep, Caller
<1>3. ASSUME NEW c \in Caller, Step(c)
      PROVE  IInv'
  BY <1>3, StartRowKeeps, StartFillKeeps, StartFailKeeps, LaunchKeeps, ResumeGetKeeps,
     AttachKeeps, DropUnreadableKeeps, RebuildKeeps, LeaveKeeps, DiscardKeeps,
     UndoResumeKeeps, LookKeeps, FlagKeeps, EndMoveKeeps, DeleteKeeps, ClearKeeps,
     SweepExistsKeeps DEF Step
<1>4. ASSUME NEW c \in Caller, Fail(c) \/ Crash(c)
      PROVE  IInv'
  BY <1>4, FailKeeps, CrashKeeps
<1>5. ASSUME NEW to \in PausedStates, Pause(to)
      PROVE  IInv'
  BY <1>5, PauseKeeps
<1>6. CASE Grant \/ Idle \/ Lapse \/ Retire
  BY <1>6, GrantKeeps, IdleKeeps, LapseKeeps, RetireKeeps
<1>7. CASE UNCHANGED vars
  BY <1>7, StutterKeeps
<1> QED
  BY <1>1, <1>2, <1>3, <1>4, <1>5, <1>6, <1>7 DEF Next

(* The inductive invariant holds in every state that any number of threads *)
(* bring the run to.                                                       *)
THEOREM Safety == Spec => []IInv
<1> QED
  BY InitIInv, StepKeeps, PTL DEF Spec

(* Every variable keeps its type.                                          *)
THEOREM TypeCorrect == Spec => []TypeOK
<1>1. IInv => TypeOK
  BY DEF IInv
<1> QED
  BY <1>1, Safety, PTL

(* _cleanup and _undo_resume leave nothing behind: when every call has     *)
(* returned, a run that is over has neither buffer nor cancel flag, unless *)
(* a fault stopped the cleanup, or a resume from outside a resumable pause *)
(* rebuilt the buffer and did not look again (run_manager.py:373).         *)
THEOREM EndedRunsAreClean == Spec => []EndedRunIsClean
<1>1. ASSUME IInv PROVE EndedRunIsClean
  <2> SUFFICES ASSUME Quiet, Sound PROVE buf = "none" /\ ~flag
    BY DEF EndedRunIsClean, Sound
  <2>1. ASSUME NEW c \in Caller PROVE ~TakesBuffer(call[c]) /\ ~TakesFlag(call[c])
    BY DEF Quiet, NoCall, TakesBuffer, TakesFlag
  <2> QED
    BY <1>1, <2>1 DEF IInv, CleanUpIsComing
<1> QED
  BY <1>1, Safety, PTL

(* No cleanup of one call takes the content of a run that is open: when no *)
(* start or resume is at work the buffer is readable, or was lost.         *)
THEOREM LiveContentIsKept == Spec => []LiveContentKept
<1>1. ASSUME IInv PROVE LiveContentKept
  <2> SUFFICES ASSUME Open, ~Busy("start"), ~Busy("resume") PROVE buf = "readable" \/ lost
    BY DEF LiveContentKept
  <2>1. ASSUME NEW c \in Caller PROVE ~Builds(call[c])
    BY <1>1 DEF Busy, IInv, OpsFit, Fits, Builds
  <2> QED
    BY <1>1, <2>1 DEF IInv, ContentFits
<1> QED
  BY <1>1, Safety, PTL

================================================================================

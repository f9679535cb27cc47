------------------------------ MODULE ToolCalls ------------------------------
(***************************************************************************)
(* What the tool broker promises (backend/codeagent/broker.py, "The call   *)
(* lifecycle" and "Idempotency"): a proposed call has one outcome, one     *)
(* tool_finished event that says so, behind its tool_proposed, and only    *)
(* then does the loop hear of it.  ToolBroker.tla shows how it is kept.    *)
(***************************************************************************)
EXTENDS Sequences

CONSTANTS Call,     \* the calls of a run
          Status    \* the ways a call can end

VARIABLES outcome,  \* how each call ended: a status, or {}
          about,    \* what the run's stream says of each call
          told      \* whether the loop was told

callVars == <<outcome, about, told>>

CallsInit ==
  /\ outcome = [c \in Call |-> {}]
  /\ about = [c \in Call |-> <<>>]
  /\ told = [c \in Call |-> FALSE]

Propose(c) ==
  /\ about[c] = <<>> /\ ~told[c]
  /\ about' = [about EXCEPT ![c] = <<"proposed">>]
  /\ UNCHANGED <<outcome, told>>

\* The proposal never reached the stream: the loop is told of a failure.
Refuse(c) ==
  /\ outcome[c] = {} /\ about[c] = <<>> /\ ~told[c]
  /\ told' = [told EXCEPT ![c] = TRUE]
  /\ UNCHANGED <<outcome, about>>

\* Calls that end together: of a run, or of a connection.
End ==
  \E ended \in SUBSET {c \in Call : outcome[c] = {} /\ ~told[c]}, s \in Status :
    /\ outcome' = [c \in Call |-> IF c \in ended THEN {s} ELSE outcome[c]]
    /\ UNCHANGED <<about, told>>

\* The event of a run that is over is lost; the loop is told all the same.
Finish(c) ==
  \E s \in outcome[c] :
    /\ ~told[c]
    /\ told' = [told EXCEPT ![c] = TRUE]
    /\ about' \in {about, [about EXCEPT ![c] = Append(@, s)]}
    /\ UNCHANGED outcome

CallsNext == End \/ \E c \in Call : Propose(c) \/ Refuse(c) \/ Finish(c)
CallsSpec == CallsInit /\ [][CallsNext]_callVars
==============================================================================

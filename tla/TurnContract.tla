---------------------------- MODULE TurnContract ----------------------------
(***************************************************************************)
(* What one turn promises to Codex, whichever execution mode               *)
(* serves it.  A turn asks the upstream model once, then either corrects   *)
(* it (task protocol), follows up on tools the bridge executes itself, or  *)
(* concludes.  The modules ChatTurn and ProjectedTurn implement this one.  *)
(***************************************************************************)
EXTENDS Naturals

CONSTANTS
  MaxInternalToolRounds,    \* follow-up requests for internally run tools
  MaxTaskProtocolRetries    \* corrections of a protocol violation

VARIABLES
  phase,        \* what Codex has been told about the turn
  answer,       \* what the latest upstream answer amounts to
  followUps,    \* internal tool follow-ups so far
  corrections   \* protocol corrections so far

contractVars == <<phase, answer, followUps, corrections>>

Phases == {"running", "completed", "failed", "dropped"}

\* "violation": neither work nor a valid end of the task; "work": nothing in
\* the answer breaks the protocol; "ended": a valid call of the end tool.
Verdicts == {"violation", "work", "ended"}

ContractTypeOK ==
  /\ phase \in Phases
  /\ answer \in Verdicts \cup {"pending"}
  /\ followUps \in 0..MaxInternalToolRounds
  /\ corrections \in 0..MaxTaskProtocolRetries

ContractInit ==
  /\ phase = "running"
  /\ answer = "pending"
  /\ followUps = 0
  /\ corrections = 0

\* The upstream answer is complete.
Judge ==
  /\ phase = "running" /\ answer = "pending"
  /\ answer' \in Verdicts
  /\ UNCHANGED <<phase, followUps, corrections>>

\* The model broke the protocol and is asked again.
Correct ==
  /\ phase = "running" /\ answer = "violation"
  /\ corrections < MaxTaskProtocolRetries
  /\ answer' = "pending"
  /\ corrections' = corrections + 1
  /\ UNCHANGED <<phase, followUps>>

\* The model called tools the bridge runs itself; it gets their results.
FollowUp ==
  /\ phase = "running" /\ answer = "work"
  /\ followUps < MaxInternalToolRounds
  /\ answer' = "pending"
  /\ followUps' = followUps + 1
  /\ UNCHANGED <<phase, corrections>>

\* The turn succeeds: never on an answer that broke the protocol.
Complete ==
  /\ phase = "running" /\ answer \in {"work", "ended"}
  /\ phase' = "completed"
  /\ UNCHANGED <<answer, followUps, corrections>>

\* The turn fails with a terminal event, or ends without one.
Abandon ==
  /\ phase = "running"
  /\ phase' \in {"failed", "dropped"}
  /\ answer' = "pending"
  /\ UNCHANGED <<followUps, corrections>>

ContractNext == Judge \/ Correct \/ FollowUp \/ Complete \/ Abandon

ContractSpec == ContractInit /\ [][ContractNext]_contractVars
=============================================================================

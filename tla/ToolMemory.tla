----------------------------- MODULE ToolMemory -----------------------------
(***************************************************************************)
(* What the bridge remembers of tool calls between the requests of a Codex *)
(* session: internal/toollog/tool_calls.go (which outputs it has seen, and *)
(* which exec_command was a read_file, list_files or search_files call)    *)
(* and internal/toolruntime/runtime.go (which signatures have failed).     *)
(* Codex sends its whole history with every request; Transcript replays    *)
(* it, and the answer's calls are appended.                                *)
(*                                                                         *)
(* A session has one request at a time; requests of other sessions, which  *)
(* may use the same call ids, interleave.  A signature is a tool with its  *)
(* capability and arguments.  The history lacks the tool's description, so *)
(* an output's signature need not be its call's.  The calls remembered for *)
(* the log alone (modelToolCalls), calls the bridge executes itself, and   *)
(* requests without a session id are left out.                             *)
(***************************************************************************)
EXTENDS Naturals, FiniteSets, Sequences, SequencesExt

CONSTANTS
  Sessions, Calls, Signatures,
  SignatureOf,         \* the signature Decide gives a call, from its tool's entry
  ObservedAs,          \* the one ObserveOutput gives it, from the history alone
  Executed,            \* the one of an exec_command
  Proxies,             \* the calls of read_file, list_files, search_files
  CanReturnLocalText,  \* what responseItemFromToolCall passes to Decide
  MaxEntries,          \* maxToolStateEntries
  MaxSessions,         \* maxSessionStates
  MaxRequests          \* bound: requests of all sessions

ASSUME ToolMemoryConstants ==
  /\ SignatureOf \in [Calls -> Signatures]
  /\ ObservedAs \in [Calls -> Signatures] /\ Executed \in Signatures
  /\ Proxies \subseteq Calls
  /\ CanReturnLocalText \in BOOLEAN
  /\ MaxEntries \in Nat \ {0} /\ MaxSessions \in Nat \ {0} /\ MaxRequests \in Nat

VARIABLES
  history,    \* Codex: the calls of a session in their order, with outcomes
  phase,      \* the request of a session
  replayed,   \* how much of the history the request has replayed
  shown,      \* the calls the request shows upstream as logical calls
  seen,       \* seenToolOutputs, the least recently used key first
  logical,    \* logicalToolCalls, likewise
  sessions,   \* toolruntime's sessions, likewise
  old,        \* the sessions of them not used for sessionStateTTL
  failures,   \* NoProgressFailures
  planned,    \* requestPlanned
  requests,   \* requests so far
  observed,   \* history: observations of an output that its entry in seen made
  lost,       \* history: logical calls that were dropped
  forgotten   \* history: sessions of which something was dropped

codex == <<history, requests>>
request == <<phase, replayed, shown, planned>>
ledger == <<sessions, old, failures>>
ghosts == <<observed, lost, forgotten>>
vars == <<codex, request, seen, logical, ledger, ghosts>>

Outcomes == {"progress", "ack", "failure"}
Keys == Sessions \X Calls
HistoryItems == [call : Calls, outcome : Outcomes \cup {"pending"}]
NoFailures == [sig \in Signatures |-> 0]

\* Mutant: the keys are not scoped by session.
KeyUnscoped(s, c) == <<CHOOSE x \in Sessions : TRUE, c>>

\* scopedCallKey of the session's scope.
Key(s, c) == <<s, c>>

TypeOK ==
  /\ history \in [Sessions -> Seq(HistoryItems)]
  /\ phase \in [Sessions -> {"idle", "replay", "record", "answer"}]
  /\ replayed \in [Sessions -> Nat] /\ \A s \in Sessions : replayed[s] <= Len(history[s])
  /\ shown \in [Sessions -> SUBSET Calls]
  /\ seen \in Seq(Keys) /\ IsInjective(seen) /\ Len(seen) <= MaxEntries
  /\ logical \in Seq(Keys) /\ IsInjective(logical) /\ Len(logical) <= MaxEntries
  /\ sessions \in Seq(Sessions) /\ IsInjective(sessions)
  /\ old \subseteq ToSet(sessions)
  /\ failures \in [Sessions -> [Signatures -> Nat]]
  /\ planned \in [Sessions -> SUBSET Signatures]
  /\ requests \in 0..MaxRequests
  /\ observed \in [Keys -> Nat]
  /\ lost \subseteq Keys /\ forgotten \subseteq Sessions

Init ==
  /\ history = [s \in Sessions |-> <<>>]
  /\ phase = [s \in Sessions |-> "idle"]
  /\ replayed = [s \in Sessions |-> 0]
  /\ shown = [s \in Sessions |-> {}]
  /\ seen = <<>> /\ logical = <<>> /\ sessions = <<>> /\ old = {}
  /\ failures = [s \in Sessions |-> NoFailures]
  /\ planned = [s \in Sessions |-> {}]
  /\ requests = 0
  /\ observed = [k \in Keys |-> 0]
  /\ lost = {} /\ forgotten = {}

-----------------------------------------------------------------------------
(* Maps whose entries know when they were used last                        *)

\* The entries of S are deleted.
Without(q, S) ==
  LET kept[n \in 0..Len(q)] ==
        IF n = 0 THEN <<>>
        ELSE IF q[n] \in S THEN kept[n - 1] ELSE Append(kept[n - 1], q[n])
  IN kept[Len(q)]
\* Used now, whether it was there or not.
Touch(q, x) == Append(Without(q, {x}), x)
\* Mutant: nothing is pruned.
NewestAll(q, n) == q
\* Of too many entries the oldest go.
Newest(q, n) == IF Len(q) <= n THEN q ELSE SubSeq(q, Len(q) - n + 1, Len(q))
Dropped(q, r) == ToSet(q) \ ToSet(r)
SessionsOf(ks) == {k[1] : k \in ks}

\* Remember the seen keys q; what was dropped may be observed again.
SetSeen(q) ==
  /\ seen' = q
  /\ forgotten' = forgotten \cup SessionsOf(Dropped(seen, q))

-----------------------------------------------------------------------------
(* Codex                                                                   *)

RunTool(s, i, outcome) ==
  /\ phase[s] = "idle" /\ i \in DOMAIN history[s] /\ history[s][i].outcome = "pending"
  /\ \A j \in 1..(i - 1) : history[s][j].outcome # "pending"
  /\ history' = [history EXCEPT ![s][i].outcome = outcome]
  /\ UNCHANGED <<requests, request, seen, logical, ledger, ghosts>>

-----------------------------------------------------------------------------
(* A request                                                               *)

\* RememberRequestSession and RememberRequest: the session's own state is
\* refreshed before the old ones are pruned.
Remember(s) ==
  /\ phase[s] = "idle" /\ requests < MaxRequests
  /\ \A i \in DOMAIN history[s] : history[s][i].outcome # "pending"
  /\ requests' = requests + 1
  /\ phase' = [phase EXCEPT ![s] = "replay"]
  /\ replayed' = [replayed EXCEPT ![s] = 0]
  /\ shown' = [shown EXCEPT ![s] = {}]
  /\ planned' = [planned EXCEPT ![s] = {}]
  /\ LET kept == Newest(Without(Touch(sessions, s), old \ {s}), MaxSessions)
         gone == Dropped(sessions, kept)
     IN /\ sessions' = kept
        /\ old' = {}
        /\ failures' = [x \in Sessions |-> IF x \in gone THEN NoFailures ELSE failures[x]]
        /\ forgotten' = forgotten \cup gone
  /\ UNCHANGED <<history, seen, logical, observed, lost>>

\* seenToolOutput: the key is there from now on.
Mark(key) == SetSeen(Newest(Touch(seen, key), MaxEntries))

\* The next call of the history and its output are read: ToChatMessages asks
\* for the logical call, ToolOutput whether the output has been seen.
ReplayItem(s) ==
  /\ phase[s] = "replay" /\ replayed[s] < Len(history[s])
  /\ LET c == history[s][replayed[s] + 1].call
         key == Key(s, c)
         known == c \in Proxies /\ key \in ToSet(logical)
     IN /\ logical' = IF known THEN Touch(logical, key) ELSE logical
        /\ shown' = IF known THEN [shown EXCEPT ![s] = @ \cup {c}] ELSE shown
        /\ Mark(key)
        /\ observed' = [k \in Keys |-> IF k \in Dropped(seen, seen') THEN 0 ELSE observed[k]]
        /\ IF key \in ToSet(seen)
           THEN replayed' = [replayed EXCEPT ![s] = @ + 1] /\ UNCHANGED phase
           ELSE phase' = [phase EXCEPT ![s] = "record"] /\ UNCHANGED replayed
  /\ UNCHANGED <<codex, planned, ledger, lost>>

\* Mutant: an acknowledged status counts as progress.
AttemptStatusProgress(count, sig, outcome) ==
  CASE outcome \in {"progress", "ack"} -> NoFailures
    [] outcome = "failure" -> [count EXCEPT ![sig] = @ + 1]

\* recordAttempt: progress clears the failures of all signatures.
Attempt(count, sig, outcome) ==
  CASE outcome = "progress" -> NoFailures
    [] outcome = "ack" -> count
    [] outcome = "failure" -> [count EXCEPT ![sig] = @ + 1]

\* ObserveOutput of an output that is new; the request has no profile of an
\* earlier request's call.  Its key may have been dropped since it was marked.
Record(s) ==
  /\ phase[s] = "record"
  /\ LET item == history[s][replayed[s] + 1]
         sig == IF item.call \in Proxies \ shown[s] THEN Executed ELSE ObservedAs[item.call]
     IN /\ failures' = [failures EXCEPT ![s] = Attempt(@, sig, item.outcome)]
        /\ observed' = IF Key(s, item.call) \in ToSet(seen)
                       THEN [observed EXCEPT ![<<s, item.call>>] = @ + 1] ELSE observed
  /\ sessions' = Touch(sessions, s)
  /\ old' = old \ {s}
  /\ phase' = [phase EXCEPT ![s] = "replay"]
  /\ replayed' = [replayed EXCEPT ![s] = @ + 1]
  /\ UNCHANGED <<codex, shown, planned, seen, logical, lost, forgotten>>

\* The history is converted, the request goes upstream.
Ask(s) ==
  /\ phase[s] = "replay" /\ replayed[s] = Len(history[s])
  /\ phase' = [phase EXCEPT ![s] = "answer"]
  /\ UNCHANGED <<codex, replayed, shown, planned, seen, logical, ledger, ghosts>>

\* Decide: whether a call may go to Codex.
Stopped(s, sig) ==
  CanReturnLocalText /\ (failures[s][sig] > 0 \/ sig \in planned[s])

\* Mutant: the logical call is not remembered.
RemembersNothing(s, c) == logical

\* ToolCall: the logical calls after call c.
Remembers(s, c) ==
  IF c \in Proxies THEN Newest(Touch(logical, Key(s, c)), MaxEntries) ELSE logical

\* A call of the answer: ToolCall, then Decide.  A stopped call becomes a
\* message, any other is part of the history from now on.
Call(s, c) ==
  /\ phase[s] = "answer"
  /\ \A i \in DOMAIN history[s] : history[s][i].call # c
  /\ logical' = Remembers(s, c)
  /\ lost' = lost \cup Dropped(logical, logical')
  /\ IF Stopped(s, SignatureOf[c])
     THEN UNCHANGED <<history, planned>>
     ELSE /\ history' = [history EXCEPT ![s] = Append(@, [call |-> c, outcome |-> "pending"])]
          /\ planned' = IF CanReturnLocalText
                        THEN [planned EXCEPT ![s] = @ \cup {SignatureOf[c]}] ELSE planned
  /\ UNCHANGED <<requests, phase, replayed, shown, seen, ledger, observed, forgotten>>

\* ForgetRequestSession, deferred.
Forget(s) ==
  /\ phase[s] = "answer"
  /\ phase' = [phase EXCEPT ![s] = "idle"]
  /\ planned' = [planned EXCEPT ![s] = {}]
  /\ UNCHANGED <<codex, replayed, shown, seen, logical, ledger, ghosts>>

-----------------------------------------------------------------------------
(* Time and crashes                                                        *)

\* A session is not used for a day.  An expired entry of toollog is never
\* returned; a session of toolruntime is there until a prune finds it.
Expire(s) ==
  /\ phase[s] = "idle" /\ s \in ToSet(sessions) \ old
  /\ LET mine == {k \in Keys : k[1] = s}
     IN /\ seen' = Without(seen, mine)
        /\ logical' = Without(logical, mine)
        /\ observed' = [k \in Keys |-> IF k \in mine THEN 0 ELSE observed[k]]
        /\ lost' = lost \cup Dropped(logical, logical')
  /\ old' = old \cup {s}
  /\ forgotten' = forgotten \cup {s}
  /\ UNCHANGED <<codex, request, sessions, failures>>

\* The process starts anew.
Restart ==
  /\ requests > 0
  /\ phase' = [s \in Sessions |-> "idle"]
  /\ seen' = <<>> /\ logical' = <<>> /\ sessions' = <<>> /\ old' = {}
  /\ failures' = [s \in Sessions |-> NoFailures]
  /\ planned' = [s \in Sessions |-> {}]
  /\ observed' = [k \in Keys |-> 0]
  /\ lost' = lost \cup ToSet(logical)
  /\ forgotten' = Sessions
  /\ UNCHANGED <<codex, replayed, shown>>

Next ==
  \/ \E s \in Sessions :
       \/ Remember(s) \/ ReplayItem(s) \/ Record(s) \/ Ask(s) \/ Forget(s) \/ Expire(s)
       \/ \E c \in Calls : Call(s, c)
       \/ \E i \in DOMAIN history[s], outcome \in Outcomes : RunTool(s, i, outcome)
  \/ Restart

Spec == Init /\ [][Next]_vars

-----------------------------------------------------------------------------
(* Properties                                                              *)

\* An output that Codex sends again and again is observed once, whatever call
\* ids other sessions use; only what was dropped is observed again.
ObservedOnce ==
  \A s \in Sessions, c \in Calls :
    /\ observed[<<s, c>>] <= 1
    /\ Key(s, c) \in ToSet(seen) =>
         \/ observed[<<s, c>>] = 1
         \/ phase[s] = "record" /\ history[s][replayed[s] + 1].call = c

\* The i-th output of a session has been observed.
Observed(s, i) == observed[<<s, history[s][i].call>>] > 0

\* As long as nothing of a session is dropped, the failures of a signature are
\* its failing outputs since the last output that made progress.
FailuresCurrent ==
  \A s \in Sessions \ (forgotten \cup SessionsOf(lost)), sig \in Signatures :
    LET h == history[s]
    IN failures[s][sig] =
         Cardinality({i \in 1..Len(h) :
           /\ Observed(s, i) /\ ObservedAs[h[i].call] = sig /\ h[i].outcome = "failure"
           /\ \A j \in i..Len(h) : Observed(s, j) => h[j].outcome # "progress"})

\* Upstream sees a call of read_file, list_files or search_files as such and
\* not as the exec_command it was turned into, unless the call was dropped.
LogicalCallsShown ==
  \A s \in Sessions : phase[s] = "answer" =>
    \A i \in 1..replayed[s] :
      history[s][i].call \in Proxies =>
        history[s][i].call \in shown[s] \/ <<s, history[s][i].call>> \in lost

=============================================================================

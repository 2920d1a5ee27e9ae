----------------------------- MODULE RetriedCall -----------------------------
(***************************************************************************)
(* What ExecuteWithReconnect promises the step that calls it, with no word *)
(* about connections: the closure runs a bounded number of times, never    *)
(* again once it got a definite answer, and the outcome tells the truth    *)
(* about the last run.  ConnectionWrapper is shown to implement it.        *)
(***************************************************************************)
EXTENDS Naturals

VARIABLES
  maxSends,            \* how often a call may run its closure, settled in advance
  phase,               \* "idle", or "busy" while a call is in progress
  sends,               \* runs of the closure in this call
  effects,             \* runs the engine carried out, answered or not
  answer,              \* what the last run brought back
  outcome              \* what the call returned to the step

vars == <<maxSends, phase, sends, effects, answer, outcome>>

Init ==
  /\ maxSends \in Nat \ {0}
  /\ phase = "idle"
  /\ sends = 0
  /\ effects = 0
  /\ answer = "none"
  /\ outcome = "none"

Begin ==
  /\ phase = "idle"
  /\ phase' = "busy"
  /\ sends' = 0
  /\ effects' = 0
  /\ answer' = "none"
  /\ outcome' = "none"
  /\ UNCHANGED maxSends

\* A run whose answer is lost may or may not have been carried out; one that
\* was answered "ok" was; one that was refused was not.
Send ==
  /\ phase = "busy"
  /\ sends < maxSends
  /\ answer \in {"none", "lost"}
  /\ sends' = sends + 1
  /\ \/ answer' = "ok"      /\ effects' = effects + 1
     \/ answer' = "lost"    /\ effects' \in {effects, effects + 1}
     \/ answer' = "refused" /\ UNCHANGED effects
  /\ UNCHANGED <<maxSends, phase, outcome>>

\* The step sees the engine's own NotFound error only for a first run: later
\* ones come back wrapped, as plain failures.
Return ==
  /\ phase = "busy"
  /\ phase' = "idle"
  /\ \/ answer = "ok" /\ outcome' = "ok"
     \/ answer = "refused" /\ sends = 1 /\ outcome' = "notFound"
     \/ answer # "ok" /\ outcome' = "failed"
  /\ UNCHANGED <<maxSends, sends, effects, answer>>

Next == Begin \/ Send \/ Return

Spec == Init /\ [][Next]_vars
=============================================================================

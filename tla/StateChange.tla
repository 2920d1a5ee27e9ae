----------------------------- MODULE StateChange -----------------------------
(***************************************************************************)
(* builder/olvm/state.go: one turn of WaitForState, and the StateChangeConf *)
(* of every wait of the builder.  A status the engine does not know the    *)
(* object by (NotFoundError) is reported by the refresh functions as "".   *)
(***************************************************************************)

\* The waits, by the program point they are made at.
Waits ==
  [waitForVMReady |-> [Target |-> {"down"}, Pending |-> {"image_locked"}],
   waitUp         |-> [Target |-> {"up"},
                       Pending |-> {"wait_for_launch", "powering_up"}],
   waitDown       |-> [Target |-> {"down"}, Pending |-> {"up"}],
   waitTemplate   |-> [Target |-> {"ok"}, Pending |-> {"locked", "image_locked"}],
   waitExport     |-> [Target |-> {"ok"}, Pending |-> {"locked", "image_locked"}],
   cleanupWait    |-> [Target |-> {"down"}, Pending |-> {"up"}]]

TemplateWaits == {"waitTemplate", "waitExport"}

\* Mutants: the wait ignores the cancellation mark; it goes on in any state.
VerdictUninterrupted(currentState, conf, cancelled) ==
  IF currentState \in conf.Target THEN "reached"
  ELSE IF currentState \in conf.Pending THEN "again"
  ELSE "unexpected"

VerdictPatient(currentState, conf, cancelled) ==
  IF currentState \in conf.Target THEN "reached"
  ELSE IF cancelled THEN "interrupted"
  ELSE "again"

\* WaitForState looks at the target first, then at the cancellation mark of
\* the state bag, then at the states it may go on waiting in.
Verdict(currentState, conf, cancelled) ==
  IF currentState \in conf.Target THEN "reached"
  ELSE IF cancelled THEN "interrupted"
  ELSE IF currentState \in conf.Pending THEN "again"
  ELSE "unexpected"
=============================================================================

---------------------------- MODULE TraceOutput ----------------------------
(***************************************************************************)
(* What one run of the recorder promises to whoever opens the output       *)
(* directory: a trace is replaced by one that grows and is complete only   *)
(* when the command succeeds.  A run that succeeds leaves a complete trace *)
(* of its own or, with recording disabled, what was there; a run that      *)
(* fails never passes off what it leaves as complete; every run ends.      *)
(***************************************************************************)
VARIABLES
  trace,   \* in the output directory: none, an old one (what was there),
           \* a partial one, a new one
  status   \* of the command

out_vars == << trace, status >>

Init ==
  /\ trace \in {"none", "old"}
  /\ status = "running"

\* The events file is created over whatever was there.
Begin ==
  /\ status = "running"
  /\ trace' = "partial"
  /\ UNCHANGED status

Complete ==
  /\ status = "running"
  /\ trace = "partial"
  /\ trace' = "new"
  /\ status' = "ok"

Skip ==
  /\ status = "running"
  /\ trace # "partial"
  /\ status' = "ok"
  /\ UNCHANGED trace

Fail ==
  /\ status = "running"
  /\ status' = "error"
  /\ trace' \in {trace, "partial"}

Next == Begin \/ Complete \/ Skip \/ Fail

Spec == Init /\ [][Next]_out_vars /\ WF_out_vars(Next)
=============================================================================

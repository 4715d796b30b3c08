---------------------------- MODULE TraceEvents ----------------------------
(***************************************************************************)
(* The trace the recorders write, as its reader rebuilds it.  The writer   *)
(* is the `codetracer_trace_writer` crate.  `start` opens a root call,     *)
(* `<toplevel>`, which `close` closes last; between the two, a call opens  *)
(* below the innermost open one, a return closes the innermost, and a step *)
(* moves the position.  `close` also closes the calls left open.           *)
(*                                                                         *)
(*   open      the calls open below the root, outermost first              *)
(*   orphan    a return found only the root, or nothing, to close          *)
(*   drained   the calls `close` had to close                              *)
(*   position  the location of the last step                               *)
(***************************************************************************)
EXTENDS Naturals, Sequences

StartedTrace(nowhere) ==
  [open |-> << >>, orphan |-> FALSE, drained |-> 0, position |-> nowhere]

\* target: the program an invocation names in its "target_program" argument.
Called(t, fn, target) ==
  [t EXCEPT !.open = Append(@, [fn |-> fn, target |-> target])]

\* n returns in a row.
Returned(t, n) ==
  IF n <= Len(t.open)
    THEN [t EXCEPT !.open = SubSeq(@, 1, Len(@) - n)]
    ELSE [t EXCEPT !.open = << >>, !.orphan = TRUE]

Stepped(t, location) == [t EXCEPT !.position = location]

Closed(t) == [t EXCEPT !.open = << >>, !.drained = Len(t.open)]

\* The functions of the open calls.
OpenFns(t) == [i \in DOMAIN t.open |-> t.open[i].fn]

----------------------------------------------------------------------------
OpenCalls(names, none) == [fn : names, target : names \cup {none}]

\* The traces whose calls have given names and whose positions are given.
Traces(names, none, positions) ==
  [open : Seq(OpenCalls(names, none)), orphan : BOOLEAN,
   drained : Nat, position : positions \cup {none}]

(***************************************************************************)
(* The calls open in the trace are the recorder's frames, and no return    *)
(* has been one too many; or, once a return to no known function has       *)
(* closed the outer call, they are the frames above the outer one.         *)
(***************************************************************************)
Mirrors(t, frames) ==
  \/ OpenFns(t) = frames /\ ~ t.orphan
  \/ OpenFns(t) = Tail(frames)
=============================================================================

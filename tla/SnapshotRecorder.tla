------------------------- MODULE SnapshotRecorder -------------------------
(***************************************************************************)
(* record_from_snapshots_into_writer (src/src/recorder.rs): the recording  *)
(* of one program from its register snapshots and a table of source        *)
(* locations.  Snapshots without a location are skipped, those of          *)
(* third-party code are absorbed, and a frame that is unwound returns what *)
(* the line it was left on says: an `Err`, an `Ok`, or -- on a line with a *)
(* `?` -- the last `Err` returned.                                         *)
(*                                                                         *)
(* Registers, variables and synthesised events are left out.               *)
(***************************************************************************)
EXTENDS JumpFrames

CONSTANTS
  ThirdParty,  \* the files is_third_party_for_user holds for
  Errs,        \* the `Err` values the source text can return
  OkValue,     \* the `Ok` values
  Propagates,  \* what ReturnAt has for a line with a `?`
  NoneValue,   \* NONE_VALUE
  ReturnAt     \* ReturnAt[l]: the return shape of line l

ASSUME ReturnConstants ==
  \A l \in DOMAIN ReturnAt : ReturnAt[l] \in Errs \cup {OkValue, NoneValue, Propagates}

VARIABLES
  last_err_return,
  last_return,  \* the value of the last return written, for the properties
  finished

vars == << fn_stack, env_stack, prev_line, prev_column, prev_pc, outer_known, trace,
           last_err_return, last_return, finished >>

----------------------------------------------------------------------------
ReturnShape(line) == IF line \in DOMAIN ReturnAt THEN ReturnAt[line] ELSE NoneValue

\* synthesise_return_value_with_propagation of the line a frame is left on.
ReturnValue ==
  LET shape == IF prev_line = Nil THEN NoneValue ELSE ReturnShape(prev_line)
  IN  IF shape = Propagates THEN OrElse(last_err_return, NoneValue) ELSE shape

\* An untyped return leaves the slot as it is.
KeepErr(value) ==
  last_err_return' = CASE value \in Errs      -> value
                       [] value = NoneValue   -> last_err_return
                       [] OTHER               -> Nil

----------------------------------------------------------------------------
Init ==
  /\ FramesInit
  /\ last_err_return = Nil
  /\ last_return = Nil
  /\ finished = FALSE

Input(pc) ==
  /\ ~ finished
  /\ OuterNameFits(pc)
  /\ outer_known' = (outer_known \/ TargetFn(pc) # Nil)
  /\ UNCHANGED finished

\* `continue` before anything is updated.
SkipUnlocated(pc) ==
  /\ Input(pc)
  /\ Location[pc] = Nil
  /\ UNCHANGED << fn_stack, env_stack, prev_line, prev_column, prev_pc, trace,
                  last_err_return, last_return >>

\* Defect: the pc of an absorbed snapshot is forgotten, and so is every pc.
AbsorbThirdPartyForgetsPc(pc) ==
  /\ Input(pc)
  /\ Location[pc] # Nil
  /\ Location[pc].file \in ThirdParty
  /\ prev_pc' = Nil
  /\ UNCHANGED << fn_stack, env_stack, prev_line, prev_column, trace,
                  last_err_return, last_return >>

AbsorbThirdParty(pc) ==
  /\ Input(pc)
  /\ Location[pc] # Nil
  /\ Location[pc].file \in ThirdParty
  /\ prev_pc' = pc
  /\ UNCHANGED << fn_stack, env_stack, prev_line, prev_column, trace,
                  last_err_return, last_return >>

UserInput(pc) ==
  /\ Input(pc)
  /\ Location[pc] # Nil
  /\ Location[pc].file \notin ThirdParty

\* Defect: a step on a fresh line only.
StepOnLines(pc, t) ==
  LET at == Location[pc]
      fresh == prev_line # at.line
  IN  /\ trace' = IF fresh THEN Stepped(t, [at EXCEPT !.column = WrittenColumn(at)]) ELSE t
      /\ prev_line' = IF fresh THEN at.line ELSE prev_line
      /\ prev_column' = IF fresh THEN WrittenColumn(at) ELSE prev_column
      /\ prev_pc' = pc

\* The tail of the loop body.  The column is compared as it was looked up
\* and kept as it was written.
Step(pc, t) ==
  LET at == Location[pc]
      fresh == prev_line # at.line \/ (at.column # Nil /\ prev_column # at.column)
  IN  /\ trace' = IF fresh THEN Stepped(t, [at EXCEPT !.column = WrittenColumn(at)]) ELSE t
      /\ prev_line' = IF fresh THEN at.line ELSE prev_line
      /\ prev_column' = IF fresh THEN WrittenColumn(at) ELSE prev_column
      /\ prev_pc' = pc

StayInFunction(pc) ==
  /\ UserInput(pc)
  /\ ~ CrossesBoundary(pc)
  /\ Step(pc, trace)
  /\ UNCHANGED << fn_stack, env_stack, last_err_return, last_return >>

CallFunction(pc) ==
  /\ UserInput(pc)
  /\ CrossesBoundary(pc)
  /\ pc > prev_pc
  /\ LET callee == OrElse(TargetFn(pc), FnAtPc[pc])
     IN  /\ PushFrame(callee)
         /\ Step(pc, Called(trace, callee, Nil))
  /\ UNCHANGED << last_err_return, last_return >>

\* Defect: frames are popped together and returned from once.
UnwindOnce(pc, n) ==
  /\ KeepErr(ReturnValue)
  /\ last_return' = ReturnValue
  /\ Step(pc, Returned(trace, 1))

\* n returns of the value of the line the jump came from.  The slot for `?`
\* is updated even when n = 0.
Unwind(pc, n) ==
  /\ KeepErr(ReturnValue)
  /\ last_return' = IF n = 0 THEN last_return ELSE ReturnValue
  /\ Step(pc, Returned(trace, n))

ReturnToFunction(pc) ==
  /\ UserInput(pc)
  /\ CrossesBoundary(pc)
  /\ pc < prev_pc
  /\ TargetFn(pc) # Nil
  /\ KeepFrames(UnwindTarget(TargetFn(pc)))
  /\ Unwind(pc, Len(fn_stack) - UnwindTarget(TargetFn(pc)))

\* With a single frame the outer call is returned from and its frame stays.
ReturnToUnknown(pc) ==
  /\ UserInput(pc)
  /\ CrossesBoundary(pc)
  /\ pc < prev_pc
  /\ TargetFn(pc) = Nil
  /\ KeepFrames(Below(Len(fn_stack)))
  /\ Unwind(pc, 1)

\* One return; the frames still open are left to the writer's `close`.
Finish ==
  /\ ~ finished
  /\ outer_known \/ fn_stack[1] = "main"
  /\ trace' = Closed(Returned(trace, 1))
  /\ last_return' = ReturnValue
  /\ finished' = TRUE
  /\ UNCHANGED << fn_stack, env_stack, prev_line, prev_column, prev_pc, outer_known,
                  last_err_return >>

Record(pc) ==
  \/ SkipUnlocated(pc) \/ AbsorbThirdParty(pc)
  \/ StayInFunction(pc) \/ CallFunction(pc)
  \/ ReturnToFunction(pc) \/ ReturnToUnknown(pc)

Next == (\E pc \in DOMAIN Location : Record(pc)) \/ Finish

Spec == Init /\ [][Next]_vars

----------------------------------------------------------------------------
Returns == Errs \cup {OkValue, NoneValue}

TypeOK ==
  /\ FramesTypeOK(FrameNames({}))
  /\ last_err_return \in Errs \cup {Nil}
  /\ last_return \in Returns \cup {Nil}
  /\ finished \in BOOLEAN

(***************************************************************************)
(* While recording, the trace and the stacks move together.                *)
(***************************************************************************)
TraceMirrorsFrames == ~ finished => Mirrors(trace, fn_stack)

(***************************************************************************)
(* The environment on top is the one built for the function on top.        *)
(***************************************************************************)
EnvsAligned == env_stack = fn_stack

(***************************************************************************)
(* "the most recently synthesised `Err`-shaped return value ..., reset to  *)
(* `None` whenever a non-error return is emitted" (recorder.rs): what a    *)
(* `?` re-emits is the value of the return before it.                      *)
(***************************************************************************)
LastErrIsLastReturn ==
  ~ finished /\ last_err_return # Nil => last_err_return = last_return
=============================================================================

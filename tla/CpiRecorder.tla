---------------------------- MODULE CpiRecorder ----------------------------
(***************************************************************************)
(* record_with_cpi (src/src/recorder.rs): one pass over the register       *)
(* snapshots of a transaction, which turns the boundaries the CpiDetector  *)
(* reports, and jumps between functions inside one program, into nested    *)
(* calls and returns, and changes of source position into steps.           *)
(*                                                                         *)
(* The variable environments (VarEnv) are modelled by the function each    *)
(* was built for; registers, values and synthesised events are left out.   *)
(***************************************************************************)
EXTENDS CpiDetector, JumpFrames

CONSTANTS
  ProgramAt,   \* registry.program_name: the name of a pc's program, or Nil
  SbfFile      \* SbfFile[p]: the file `{p}.sbf` of a program name

ASSUME RecorderConstants ==
  /\ DOMAIN Location = PC
  /\ SbfFile[UnknownName] \in STRING
  /\ \A i \in DOMAIN KnownRanges : SbfFile[KnownRanges[i].name] \in STRING

VARIABLE status  \* "recording" or "finished"

vars == << context_stack, fn_stack, env_stack, prev_line, prev_column, prev_pc,
           outer_known, status, trace >>

----------------------------------------------------------------------------
\* The location a snapshot is shown at, once the detector has seen its pc.
StepLocation(pc, program) ==
  IF Location[pc] = Nil
    THEN [file |-> SbfFile[program], line |-> pc, column |-> Nil]
    ELSE [Location[pc] EXCEPT !.column = WrittenColumn(Location[pc])]

Init ==
  /\ DetectorInit
  /\ FramesInit
  /\ status = "recording"

\* The tail of the loop body: a step when the line or the column is fresh.
Step(pc, line, column, t) ==
  LET at == StepLocation(pc, context_stack'[Len(context_stack')].name)
      fresh == line # at.line \/ (at.column # Nil /\ column # at.column)
  IN  /\ trace' = IF fresh THEN Stepped(t, at) ELSE t
      /\ prev_line' = IF fresh THEN at.line ELSE line
      /\ prev_column' = IF fresh THEN at.column ELSE column
      /\ prev_pc' = pc
      /\ outer_known' = (outer_known \/ TargetFn(pc) # Nil)
      /\ UNCHANGED status

\* What a snapshot can be: the transaction starts in the primary program.
Input(pc) ==
  /\ status = "recording"
  /\ OuterNameFits(pc)
  /\ prev_pc = Nil => pc \in KnownRanges[1].range

\* Defect: line tracking goes on from the calling program.
EnterProgramKeepsLine(pc) ==
  /\ Input(pc)
  /\ CpiCall(pc)
  /\ LET program == OrElse(ProgramAt[pc], "unknown_program")
         callee == OrElse(TargetFn(pc), program)
     IN  /\ PushFrame(callee)
         /\ Step(pc, prev_line, prev_column, Called(trace, callee, program))

EnterProgram(pc) ==
  /\ Input(pc)
  /\ CpiCall(pc)
  /\ LET program == OrElse(ProgramAt[pc], "unknown_program")
         callee == OrElse(TargetFn(pc), program)
     IN  /\ PushFrame(callee)
         /\ Step(pc, Nil, Nil, Called(trace, callee, program))

\* One return, whichever number of contexts the detector dropped; the outer
\* frame stays on the stacks.
LeaveProgram(pc) ==
  /\ Input(pc)
  /\ CpiReturn(pc)
  /\ KeepFrames(Below(Len(fn_stack)))
  /\ Step(pc, Nil, Nil, Returned(trace, 1))

StayInFunction(pc) ==
  /\ Input(pc)
  /\ SameProgram(pc)
  /\ ~ CrossesBoundary(pc)
  /\ Step(pc, prev_line, prev_column, trace)
  /\ UNCHANGED << fn_stack, env_stack >>

\* A forward jump is a call.
CallFunction(pc) ==
  /\ Input(pc)
  /\ SameProgram(pc)
  /\ CrossesBoundary(pc)
  /\ pc > prev_pc
  /\ LET callee == OrElse(TargetFn(pc), FnAtPc[pc])
     IN  /\ PushFrame(callee)
         /\ Step(pc, prev_line, prev_column, Called(trace, callee, Nil))

\* Defect: one return for however many frames are popped.
ReturnToFunctionOnce(pc) ==
  /\ Input(pc)
  /\ SameProgram(pc)
  /\ CrossesBoundary(pc)
  /\ pc < prev_pc
  /\ TargetFn(pc) # Nil
  /\ KeepFrames(UnwindTarget(TargetFn(pc)))
  /\ Step(pc, prev_line, prev_column, Returned(trace, 1))

ReturnToFunction(pc) ==
  /\ Input(pc)
  /\ SameProgram(pc)
  /\ CrossesBoundary(pc)
  /\ pc < prev_pc
  /\ TargetFn(pc) # Nil
  /\ LET n == UnwindTarget(TargetFn(pc))
     IN  /\ KeepFrames(n)
         /\ Step(pc, prev_line, prev_column, Returned(trace, Len(fn_stack) - n))

\* A backward jump to no known function closes one call: with a single
\* frame, the outer call, whose frame stays.
ReturnToUnknown(pc) ==
  /\ Input(pc)
  /\ SameProgram(pc)
  /\ CrossesBoundary(pc)
  /\ pc < prev_pc
  /\ TargetFn(pc) = Nil
  /\ KeepFrames(Below(Len(fn_stack)))
  /\ Step(pc, prev_line, prev_column, Returned(trace, 1))

\* Defect: the outer function's return is left to the writer.
FinishWithoutOuter ==
  /\ status = "recording"
  /\ outer_known \/ fn_stack[1] = "main"
  /\ trace' = Closed(Returned(trace, call_depth + Len(fn_stack) - 1))
  /\ fn_stack' = SubSeq(fn_stack, 1, 1)
  /\ status' = "finished"
  /\ UNCHANGED << context_stack, env_stack, prev_line, prev_column, prev_pc, outer_known >>

\* Defect: the loop over the frames returns from the outer one too.
FinishOuterTwice ==
  /\ status = "recording"
  /\ outer_known \/ fn_stack[1] = "main"
  /\ trace' = Closed(Returned(trace, call_depth + Len(fn_stack) + 1))
  /\ fn_stack' = SubSeq(fn_stack, 1, 1)
  /\ status' = "finished"
  /\ UNCHANGED << context_stack, env_stack, prev_line, prev_column, prev_pc, outer_known >>

\* The returns after the loop: one for each context the detector still has,
\* one for each frame above the outer one, and one for the outer function.
Finish ==
  /\ status = "recording"
  /\ outer_known \/ fn_stack[1] = "main"
  /\ trace' = Closed(Returned(trace, call_depth + Len(fn_stack)))
  /\ fn_stack' = SubSeq(fn_stack, 1, 1)
  /\ status' = "finished"
  /\ UNCHANGED << context_stack, env_stack, prev_line, prev_column, prev_pc, outer_known >>

Snapshot(pc) ==
  \/ EnterProgram(pc) \/ LeaveProgram(pc)
  \/ StayInFunction(pc) \/ CallFunction(pc)
  \/ ReturnToFunction(pc) \/ ReturnToUnknown(pc)

Next == (\E pc \in PC : Snapshot(pc)) \/ Finish

Spec == Init /\ [][Next]_vars

----------------------------------------------------------------------------
Names == FrameNames({ProgramAt[pc] : pc \in PC} \cup {"unknown_program"})

TypeOK ==
  /\ DetectorTypeOK
  /\ FramesTypeOK(Names)
  /\ status \in {"recording", "finished"}

(***************************************************************************)
(* While recording, the trace and the stacks move together: whatever the   *)
(* invocations and the jumps, a frame and its call never come apart.       *)
(***************************************************************************)
TraceMirrorsFrames == status = "recording" => Mirrors(trace, fn_stack)

(***************************************************************************)
(* The environment on top is the one built for the function on top, so     *)
(* that interpolated arguments are read in the frame that is active.       *)
(***************************************************************************)
EnvsAligned == status = "recording" => env_stack = fn_stack

(***************************************************************************)
(* Every call record_with_cpi opened it has itself returned from by the    *)
(* end; the writer is left nothing but the root to close.                  *)
(***************************************************************************)
NothingDrained == trace.drained = 0

\* No two files of one program have a line number in common.
LinesTellFiles ==
  \A i \in DOMAIN KnownRanges : \A p, q \in KnownRanges[i].range :
    LET at == StepLocation(p, KnownRanges[i].name)
        to == StepLocation(q, KnownRanges[i].name)
    IN  at.line = to.line => at.file = to.file

(***************************************************************************)
(* The debugger's position is that of the last snapshot: its file and its  *)
(* line, and its column if one can be addressed; provided LinesTellFiles,  *)
(* since the code compares lines without their files.                      *)
(***************************************************************************)
PositionIsCurrent ==
  prev_pc # Nil =>
    LET at == StepLocation(prev_pc, Top.name)
    IN  /\ trace.position # Nil
        /\ trace.position.file = at.file
        /\ trace.position.line = at.line
        /\ at.column # Nil => trace.position.column = at.column

(***************************************************************************)
(* A transaction that ends in its own program, without having closed the   *)
(* outer call early, gets exactly one return for each call.                *)
(***************************************************************************)
EndOutsideCpiBalances ==
  [][ status' = "finished" /\ call_depth = 0 /\ Len(trace.open) = Len(fn_stack)
      => ~ trace'.orphan /\ trace'.drained = 0 ]_vars

(***************************************************************************)
(* The returns after the loop are said to handle "traces that end while    *)
(* still inside nested CPIs" (recorder.rs, 3181-3182): such a transaction, *)
(* too, gets exactly one return for each call.                             *)
(***************************************************************************)
EndInsideCpiBalances ==
  [][ status' = "finished" /\ call_depth > 0 /\ Len(trace.open) = Len(fn_stack)
      => ~ trace'.orphan /\ trace'.drained = 0 ]_vars
=============================================================================

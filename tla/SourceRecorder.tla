-------------------------- MODULE SourceRecorder --------------------------
(***************************************************************************)
(* The source-level recorder (SourceRecorder::run, source_recorder.rs): a  *)
(* pass over the snapshots of an execution that rebuilds the call stack    *)
(* from the opcodes and the DWARF, the inlined calls from the scopes       *)
(* around each address, and the guest memory from the stores and the       *)
(* syscalls' journal.                                                      *)
(*                                                                         *)
(* A function and an inlined scope stand for themselves in the trace (the  *)
(* writer's id of their name and declaration).  Of record_locals the model *)
(* keeps the call whose variables are shown.                               *)
(***************************************************************************)
EXTENDS SbfExecution, TraceEvents, FiniteSets, SequencesExt

CONSTANTS
  Nil,         \* None
  FunctionAt,  \* debug.function_at: the function of a pc's address, or Nil
  Scopes,      \* Scopes[f]: each scope with `inlined` of f, outermost first,
               \* with the pcs it contains
  PositionAt,  \* debug.position: a position of the line table, or Nil
  Addressable  \* the (file, line, column) a readable file has

Functions == {FunctionAt[pc] : pc \in PC} \ {Nil}

InlinedScopes == UNION {Range(Scopes[f]) : f \in Functions}

Calls == Functions \cup {s.call : s \in InlinedScopes}

Positions == [file : STRING, line : Nat, column : Nat \cup {Nil}]

\* A step is on a position, that many calls deep and shows one's variables.
Steps == [file : STRING, line : Nat, column : Nat \cup {Nil},
          depth : Nat, locals : Calls \cup {Nil}]

ASSUME DebugType ==
  /\ DOMAIN FunctionAt = PC
  /\ \A f \in Functions : Scopes[f] \in Seq([call : Calls, pcs : SUBSET PC])
  /\ PositionAt \in [PC -> Positions \cup {Nil}]
  /\ Nil \notin Steps

VARIABLES
  recorded,       \* how many snapshots the loop has taken
  stack,          \* ActiveFrames
  last_position,
  memory,         \* the ShadowMemory
  consumed,       \* how far the iterator over syscall_writes is
  trace,
  finished

recorder_vars == << recorded, stack, last_position, memory, consumed, trace, finished >>

vars == << snapshots, syscall_writes, executed, recorder_vars >>

----------------------------------------------------------------------------
\* scope_chain(pc), the inlined calls only.
InlinedChain(f, pc) ==
  LET chain[n \in 0 .. Len(Scopes[f])] ==
        IF n = 0 THEN << >>
        ELSE IF pc \in Scopes[f][n].pcs THEN Append(chain[n - 1], Scopes[f][n])
        ELSE chain[n - 1]
  IN  chain[Len(Scopes[f])]

\* How far s and t begin alike.
Common(s, t) == Max({n \in 0 .. Len(s) : n <= Len(t) /\ \A i \in 1 .. n : s[i] = t[i]})

\* The calls of inlined scopes.
ScopeCalls(scopes) == [k \in DOMAIN scopes |-> scopes[k].call]

CallAll(t, scopes) ==
  [t EXCEPT !.open = @ \o [k \in DOMAIN scopes |-> [fn |-> scopes[k].call, target |-> Nil]]]

\* Defect: the inlined calls of the frame are not unwound.
UnwoundFrameOnly(t, frame) == Returned(t, 1)

\* unwind_inlined and the frame's own return.
Unwound(t, frame) == Returned(t, Len(frame.inlined) + 1)

Pushed(f) == Append(stack, [function |-> f, inlined |-> << >>])

\* The call whose variables record_locals shows: the innermost inlined one
\* around pc, or the function.
LocalsOf(frame, pc) ==
  LET chain == InlinedChain(frame.function, pc)
  IN  IF chain = << >> THEN frame.function ELSE chain[Len(chain)].call

\* The step on a position, its column dropped where no text has it.
StepRecord(at, frames, t, pc) ==
  [file |-> at.file, line |-> at.line,
   column |-> IF << at.file, at.line, at.column >> \in Addressable THEN at.column ELSE Nil,
   depth |-> Len(t.open),
   locals |-> IF frames = << >> THEN Nil ELSE LocalsOf(frames[Len(frames)], pc)]

----------------------------------------------------------------------------
RecorderInit ==
  /\ recorded = 0
  /\ stack = << >>
  /\ last_position = Nil
  /\ memory = [c \in Cells |-> Zero]
  /\ consumed = 0
  /\ trace = StartedTrace(Nil)
  /\ finished = FALSE

Init == ExecutionInit /\ RecorderInit

Taken == snapshots[recorded + 1]

\* Defect: where execution went on is not looked at.
CallTakenForSyscall == Text[Taken.pc].op = "call_imm"

\* A call that was a syscall, as far as the recorder can tell: execution
\* went on at the next instruction, or ended.
TakenForSyscall ==
  /\ Text[Taken.pc].op = "call_imm"
  /\ \/ recorded + 2 > Len(snapshots)
     \/ snapshots[recorded + 2].pc = Taken.pc + 1

\* Defect: a cursor that moves on even when the journal is exhausted.
ApplyInstructionUnbounded ==
  IF TakenForSyscall
    THEN /\ consumed' = consumed + 1
         /\ memory' = IF consumed < Len(syscall_writes)
                         THEN Overwrite(memory, syscall_writes[consumed + 1]) ELSE memory
    ELSE /\ memory' = Overwrite(memory, Taken.operand)
         /\ UNCHANGED consumed

\* The end of the loop body: the instruction's effect on memory.
ApplyInstruction ==
  IF TakenForSyscall /\ consumed < Len(syscall_writes)
    THEN /\ consumed' = consumed + 1
         /\ memory' = Overwrite(memory, syscall_writes[consumed + 1])
    ELSE /\ memory' = Overwrite(memory, Taken.operand)
         /\ UNCHANGED consumed

\* The loop body after the frame transition has led to frames, t and last.
RecordIn(frames, t, last) ==
  LET pc == Taken.pc
      top == Len(frames)
      inlined == IF top = 0 THEN << >> ELSE frames[top].inlined
      chain == IF top = 0 THEN << >> ELSE InlinedChain(frames[top].function, pc)
      common == Common(inlined, chain)
      left == Returned(t, Len(inlined) - common)
      entered == CallAll(left, SubSeq(chain, common + 1, Len(chain)))
      shown == IF inlined = chain THEN last ELSE Nil
      at == PositionAt[pc]
      fresh == at # Nil /\ shown # at
  IN  /\ stack' = IF top = 0 THEN frames ELSE [frames EXCEPT ![top].inlined = chain]
      /\ last_position' = IF fresh THEN at ELSE shown
      /\ trace' = IF fresh THEN Stepped(entered, StepRecord(at, frames, entered, pc))
                           ELSE entered
      /\ ApplyInstruction
      /\ recorded' = recorded + 1
      /\ UNCHANGED << snapshots, syscall_writes, executed, finished >>

\* Defect: the loop stops one snapshot short.
CanRecordButLast == executed /\ ~ finished /\ recorded + 1 < Len(snapshots)

CanRecord == executed /\ ~ finished /\ recorded < Len(snapshots)

PrevOp == Text[snapshots[recorded].pc].op

\* Defect: a syscall is a call like any other.
TransferredAlways == PrevOp \in {"call_imm", "call_reg"}

\* The previous instruction was a call and control went elsewhere.
Transferred ==
  /\ PrevOp \in {"call_imm", "call_reg"}
  /\ Taken.pc # snapshots[recorded].pc + 1

RecordFirst ==
  /\ CanRecord
  /\ recorded = 0
  /\ LET f == FunctionAt[Taken.pc]
     IN  IF f = Nil THEN RecordIn(stack, trace, last_position)
                    ELSE RecordIn(Pushed(f), Called(trace, f, Nil), last_position)

RecordCall ==
  /\ CanRecord
  /\ recorded > 0
  /\ Transferred
  /\ FunctionAt[Taken.pc] # Nil
  /\ LET f == FunctionAt[Taken.pc] IN RecordIn(Pushed(f), Called(trace, f, Nil), Nil)

\* Defect: the position of the callee's last step is kept.
RecordReturnKeepsPosition ==
  /\ CanRecord
  /\ recorded > 0
  /\ PrevOp = "exit"
  /\ stack # << >>
  /\ LET top == Len(stack)
     IN  RecordIn(SubSeq(stack, 1, top - 1), Unwound(trace, stack[top]), last_position)

\* Whichever function exited: the innermost frame is popped.
RecordReturn ==
  /\ CanRecord
  /\ recorded > 0
  /\ PrevOp = "exit"
  /\ stack # << >>
  /\ LET top == Len(stack)
     IN  RecordIn(SubSeq(stack, 1, top - 1), Unwound(trace, stack[top]), Nil)

RecordNoTransition ==
  /\ CanRecord
  /\ recorded > 0
  /\ Transferred => FunctionAt[Taken.pc] = Nil
  /\ PrevOp = "exit" => stack = << >>
  /\ RecordIn(stack, trace, last_position)

\* Defect: the inlined calls of the frames still open are not unwound.
FinishFramesOnly ==
  /\ executed /\ ~ finished /\ recorded = Len(snapshots)
  /\ trace' = Closed(Returned(trace, Len(stack)))
  /\ stack' = << >>
  /\ finished' = TRUE
  /\ UNCHANGED << snapshots, syscall_writes, executed, recorded, last_position, memory,
                  consumed >>

\* The frames still open when execution stopped are closed.
Finish ==
  /\ executed /\ ~ finished /\ recorded = Len(snapshots)
  /\ LET top == Len(stack)
         \* the trace with n frames popped
         unwound[n \in 0 .. top] ==
           IF n = 0 THEN trace ELSE Unwound(unwound[n - 1], stack[top - n + 1])
     IN  trace' = Closed(unwound[top])
  /\ stack' = << >>
  /\ finished' = TRUE
  /\ UNCHANGED << snapshots, syscall_writes, executed, recorded, last_position, memory,
                  consumed >>

Next ==
  \/ Execute /\ UNCHANGED recorder_vars
  \/ RecordFirst \/ RecordCall \/ RecordReturn \/ RecordNoTransition \/ Finish

Spec == Init /\ [][Next]_vars /\ WF_vars(Next)

----------------------------------------------------------------------------
Frames == [function : Functions, inlined : Seq(InlinedScopes)]

TypeOK ==
  /\ ExecutionTypeOK
  /\ recorded \in 0 .. Len(snapshots)
  /\ stack \in Seq(Frames)
  /\ \A i \in DOMAIN stack : Range(stack[i].inlined) \subseteq Range(Scopes[stack[i].function])
  /\ last_position \in Positions \cup {Nil}
  /\ memory \in Memory
  /\ consumed \in 0 .. Len(syscall_writes)
  /\ trace \in Traces(Calls, Nil, Steps)
  /\ finished \in BOOLEAN

Recording == ~ finished /\ recorded > 0

Shown == snapshots[recorded]

\* The pcs at which the interpreter's calls stand, innermost last.
CallSites == Append(Shown.callers, Shown.pc)

(***************************************************************************)
(* For a program DWARF describes throughout, the recorder's frames are the *)
(* interpreter's calls, and each frame has the inlined calls around the    *)
(* pc it stands at -- also those below the top, around their call.         *)
(***************************************************************************)
StackMirrorsExecution ==
  Recording =>
    stack = [i \in DOMAIN CallSites |->
               LET f == FunctionAt[CallSites[i]]
               IN  [function |-> f, inlined |-> InlinedChain(f, CallSites[i])]]

\* A frame's function and the inlined calls active in it.
FrameCalls(frame) == << frame.function >> \o ScopeCalls(frame.inlined)

\* Those of all frames.
CallsOf(frames) ==
  LET calls[n \in 0 .. Len(frames)] ==
        IF n = 0 THEN << >> ELSE calls[n - 1] \o FrameCalls(frames[n])
  IN  calls[Len(frames)]

(***************************************************************************)
(* The calls open in the trace are the frames, each followed by the        *)
(* inlined calls active in it, whether or not DWARF describes them all.    *)
(***************************************************************************)
TraceMirrorsStack == ~ finished => OpenFns(trace) = CallsOf(stack)

(***************************************************************************)
(* At a pc with a position, the last step is on that position, was shown   *)
(* in the call that is now innermost, and with that call's variables:      *)
(* entering and leaving a call on an unchanged position steps again.       *)
(***************************************************************************)
StepIsOfInnermostCall ==
  Recording /\ PositionAt[Shown.pc] # Nil =>
    LET step == trace.position
        open == OpenFns(trace)
    IN  /\ step # Nil
        /\ step.file = PositionAt[Shown.pc].file
        /\ step.line = PositionAt[Shown.pc].line
        /\ step.depth = Len(open)
        /\ step.locals = IF open = << >> THEN Nil ELSE open[Len(open)]

(***************************************************************************)
(* "the memory contents *before* instruction `i` are available exactly     *)
(* when the registers before instruction `i` are" (sbf_memory.rs).         *)
(***************************************************************************)
MemoryReplayed ==
  executed /\ recorded < Len(snapshots) => memory = Taken.memory

(***************************************************************************)
(* Every call of the recording is returned from, wherever the execution    *)
(* was cut short, and no return is without its call.                       *)
(***************************************************************************)
CallsBalance == ~ trace.orphan /\ trace.drained = 0

(***************************************************************************)
(* "a call when an internal `call` transfers control to a function, and a  *)
(* return ... at its `exit`" (source_recorder.rs): in a described function *)
(* the innermost frame is that function's.                                 *)
(***************************************************************************)
RunningFunctionIsInnermost ==
  Recording /\ FunctionAt[Shown.pc] # Nil =>
    stack # << >> /\ stack[Len(stack)].function = FunctionAt[Shown.pc]

(***************************************************************************)
(* The recording ends once the execution has.                              *)
(***************************************************************************)
RecordingEnds == <> finished
=============================================================================

------------------------------ MODULE Tracers ------------------------------
(***************************************************************************)
(* The tracers the VM calls back before each instruction (tracer_trait.rs) *)
(* of an execution: CodeTracerTracer, which writes a trace and guesses     *)
(* calls and returns from jumps without keeping a stack, and               *)
(* RegisterTraceTracer, which writes one row of registers after another    *)
(* through a buffer and ignores the errors, until `finish`.                *)
(*                                                                         *)
(* A row is the number of its snapshot, in two halves: the file may take   *)
(* a part of what it is given.                                             *)
(***************************************************************************)
EXTENDS SbfExecution, TraceEvents, FiniteSets, SequencesExt

CONSTANTS
  Nil,        \* None
  Location,   \* source_locations: the file, line and column of a pc, or Nil
  Tabled,     \* the files registered with a table of line lengths
  FnAtPc,     \* FnAtPc[pc]: the name `fn_at_pc_{pc}`
  Capacity    \* the halves of a row the buffer holds

\* A position in a source file.
Locations == [file : STRING, line : Nat, column : Nat \cup {Nil}]

\* A BufWriter holds more than one row.
ASSUME TracerConstants ==
  /\ Nil \notin Nat /\ Nil \notin Locations /\ Nil \notin {"ok", "error", "killed"}
  /\ Location \in [PC -> Locations \cup {Nil}]
  /\ Capacity \in Nat /\ Capacity >= 2

VARIABLES
  tracer,        \* "codetracer" or "register"
  seen,          \* the snapshots the tracer was called for
  prev_line, prev_column, prev_pc,
  trace,
  buffer, file,  \* BufWriter: what is not in the file yet, and the file
  rows_written,
  result         \* of finish: Nil before it, or how it ended

trace_vars == << prev_line, prev_column, prev_pc, trace >>
rows_vars == << buffer, file, rows_written >>
vars == << snapshots, syscall_writes, executed, tracer, seen, trace_vars, rows_vars, result >>

----------------------------------------------------------------------------
Init ==
  /\ ExecutionInit
  /\ tracer \in {"codetracer", "register"}
  /\ seen = 0
  /\ prev_line = Nil /\ prev_column = Nil /\ prev_pc = Nil
  /\ trace = Called(StartedTrace(Nil), "main", Nil)
  /\ buffer = << >> /\ file = << >>
  /\ rows_written = 0
  /\ result = Nil

\* The VM goes on when the callback for the last instruction has returned.
Run ==
  /\ seen = Len(snapshots)
  /\ Execute
  /\ UNCHANGED << tracer, seen, trace_vars, rows_vars, result >>

OnStep(by) ==
  /\ tracer = by
  /\ result = Nil
  /\ seen < Len(snapshots)
  /\ seen' = seen + 1
  /\ UNCHANGED << snapshots, syscall_writes, executed, tracer, result >>

Pc == snapshots[seen + 1].pc

----------------------------------------------------------------------------
(***************************************************************************)
(* CodeTracerTracer.                                                       *)
(***************************************************************************)
SkipUnlocated ==
  /\ OnStep("codetracer")
  /\ Location[Pc] = Nil
  /\ UNCHANGED << trace_vars, rows_vars >>

\* Defect: a jump over one instruction is a call or a return.
JumpedAnyway(pc) ==
  IF prev_pc = Nil THEN trace
  ELSE IF pc > prev_pc + 1 THEN Called(trace, FnAtPc[pc], Nil)
  ELSE IF prev_pc > pc + 1 THEN Returned(trace, 1)
  ELSE trace

\* A jump of more than two instructions is a call or a return.
Jumped(pc) ==
  IF prev_pc = Nil THEN trace
  ELSE IF pc > prev_pc + 2 THEN Called(trace, FnAtPc[pc], Nil)
  ELSE IF prev_pc > pc + 2 THEN Returned(trace, 1)
  ELSE trace

Written(location) ==
  [location EXCEPT !.column = IF location.file \in Tabled THEN @ ELSE Nil]

\* Defect: the line is compared without the column.
StepOnLine(at) ==
  /\ trace' = IF prev_line # at.line THEN Stepped(Jumped(Pc), at) ELSE Jumped(Pc)
  /\ prev_line' = at.line
  /\ prev_column' = at.column

\* A step on a fresh line or column.
StepOnPosition(at) ==
  LET fresh == prev_line # at.line \/ (at.column # Nil /\ prev_column # at.column)
  IN  /\ trace' = IF fresh THEN Stepped(Jumped(Pc), at) ELSE Jumped(Pc)
      /\ prev_line' = IF fresh THEN at.line ELSE prev_line
      /\ prev_column' = IF fresh THEN at.column ELSE prev_column

StepLocated ==
  /\ OnStep("codetracer")
  /\ Location[Pc] # Nil
  /\ StepOnPosition(Written(Location[Pc]))
  /\ prev_pc' = Pc
  /\ UNCHANGED rows_vars

\* finish: the return from `main`, and the writer's close.
FinishTrace ==
  /\ tracer = "codetracer"
  /\ executed /\ seen = Len(snapshots)
  /\ result = Nil
  /\ trace' = Closed(Returned(trace, 1))
  /\ result' = "ok"
  /\ UNCHANGED << snapshots, syscall_writes, executed, tracer, seen,
                  prev_line, prev_column, prev_pc, rows_vars >>

----------------------------------------------------------------------------
(***************************************************************************)
(* RegisterTraceTracer.  The file (external) takes some of the buffer and  *)
(* may then fail; what it did not take stays in the buffer.                *)
(***************************************************************************)
Row(n) == << << n, "first" >>, << n, "second" >> >>

\* flush_buf, with n halves taken.
Flushed(n) ==
  /\ file' = file \o SubSeq(buffer, 1, n)
  /\ buffer' = SubSeq(buffer, n + 1, Len(buffer))

\* Defect: the row goes to the file without a buffer.
WriteUnbuffered(row) ==
  /\ UNCHANGED buffer
  /\ \E n \in 0 .. Len(row) : file' = file \o SubSeq(row, 1, n)

\* write_all: a row with no room for it is dropped when the flush fails.
WriteRow(row) ==
  IF Len(buffer) + Len(row) <= Capacity
    THEN buffer' = buffer \o row /\ UNCHANGED file
    ELSE \/ file' = file \o buffer /\ buffer' = row
         \/ \E n \in 0 .. Len(buffer) - 1 : Flushed(n)

\* Defect: the row is counted inside the loop over its registers.
StepRowCountsHalves ==
  /\ OnStep("register")
  /\ WriteRow(Row(seen + 1))
  /\ rows_written' = rows_written + Len(Row(seen + 1))
  /\ UNCHANGED trace_vars

StepRow ==
  /\ OnStep("register")
  /\ WriteRow(Row(seen + 1))
  /\ rows_written' = rows_written + 1
  /\ UNCHANGED trace_vars

\* finish: flush.
FinishRows ==
  /\ tracer = "register"
  /\ executed /\ seen = Len(snapshots)
  /\ result = Nil
  /\ \/ Flushed(Len(buffer)) /\ result' = "ok"
     \/ \E n \in 0 .. Len(buffer) - 1 : Flushed(n) /\ result' = "error"
  /\ UNCHANGED << snapshots, syscall_writes, executed, tracer, seen, trace_vars, rows_written >>

\* The process is killed and leaves the file as it is.
Killed ==
  /\ tracer = "register"
  /\ result = Nil
  /\ result' = "killed"
  /\ buffer' = << >>
  /\ UNCHANGED << snapshots, syscall_writes, executed, tracer, seen, trace_vars, file, rows_written >>

Next ==
  \/ Run /\ result = Nil
  \/ SkipUnlocated \/ StepLocated \/ FinishTrace
  \/ StepRow \/ FinishRows \/ Killed

Spec == Init /\ [][Next]_vars

----------------------------------------------------------------------------
(***************************************************************************)
(* parse_regs_file: the rows of a file, or Nil when it ends inside one.    *)
(***************************************************************************)
\* Defect: a row that is cut short is completed from nothing.
ParseWithoutLength(bytes) ==
  [i \in 1 .. (Len(bytes) + 1) \div 2 |->
     << bytes[2 * i - 1], IF 2 * i \in DOMAIN bytes THEN bytes[2 * i] ELSE Nil >>]

Parse(bytes) ==
  IF Len(bytes) % 2 # 0 THEN Nil
  ELSE [i \in 1 .. Len(bytes) \div 2 |-> << bytes[2 * i - 1], bytes[2 * i] >>]

----------------------------------------------------------------------------
Located(pc) == Location[pc] # Nil

\* The pcs an instruction that neither calls nor returns goes on to.
Continuations(pc) ==
  PC \cap IF Text[pc].op = "other" THEN Text[pc].to
           ELSE IF Text[pc].op = "store" \/ IsSyscall(pc) THEN {pc + 1} ELSE {}

\* The located pcs that come next, over at most one that is not.
LocatedNext(pc) ==
  UNION {IF Located(q) THEN {q} ELSE Continuations(q) : q \in Continuations(pc)}

\* The pcs the instruction at pc can call.
Targets(pc) == IF Text[pc].op \in {"call_imm", "call_reg"} THEN Text[pc].to ELSE {}

\* Sets of pcs that a function does not leave, calls not followed.
ClosedSets ==
  {S \in SUBSET PC :
     \A p \in S : Continuations(p) \subseteq S
                 /\ (Targets(p) # {} /\ p + 1 \in PC => p + 1 \in S)}

\* The pcs of the function that is entered at pc.
BodyFrom(pc) == {q \in PC : \A S \in ClosedSets : pc \in S => q \in S}

(***************************************************************************)
(* What a guess from jumps takes for granted: inside a function control    *)
(* moves by two instructions at most, callees lie above their callers, far *)
(* enough, and both ends of a call and of a return are located.            *)
(***************************************************************************)
JumpsTellCalls ==
  \A pc \in PC :
    /\ Located(pc) => \A q \in LocatedNext(pc) : Located(q) /\ q <= pc + 2 /\ pc <= q + 2
    /\ \A target \in Targets(pc) :
         /\ Located(pc) /\ (pc + 1 \in PC => Located(pc + 1))
         /\ \A q \in BodyFrom(target) :
              q > pc + 3 /\ (q = target \/ Text[q].op = "exit" => Located(q))

Follows(t, callers) ==
  /\ Len(t.open) = Len(callers) + 1
  /\ \A i \in DOMAIN callers :
       t.open[i + 1].fn \in {FnAtPc[target] : target \in Targets(callers[i])}

TypeOK ==
  /\ ExecutionTypeOK
  /\ seen \in 0 .. Len(snapshots)
  /\ prev_line \in Nat \cup {Nil} /\ prev_column \in Nat \cup {Nil}
  /\ prev_pc \in PC \cup {Nil}
  /\ Len(buffer) <= Capacity
  /\ rows_written = IF tracer = "register" THEN seen ELSE 0
  /\ result \in {Nil, "ok", "error", "killed"}

(***************************************************************************)
(* Where JumpsTellCalls, a tracer without a stack keeps up with the calls  *)
(* the program is in: at a located instruction the trace has one open call *)
(* for each, under the name of its entry, below `main`; and a program that *)
(* ran to its end leaves none for `close`.                                 *)
(***************************************************************************)
TracerFollowsCalls ==
  JumpsTellCalls /\ tracer = "codetracer" /\ seen > 0 =>
    /\ ~ trace.orphan
    /\ result = Nil /\ Located(snapshots[seen].pc) => Follows(trace, snapshots[seen].callers)
    /\ result = "ok" /\ Text[Current.pc].op = "exit" /\ Current.callers = << >>
         => trace.drained = 0

\* No two files have a line number in common.
LinesTellFiles ==
  \A p, q \in PC : Located(p) /\ Located(q) /\ Location[p].line = Location[q].line
                      => Location[p].file = Location[q].file

(***************************************************************************)
(* The debugger's position is that of the last located instruction, by     *)
(* file and line and by column where the file has a table, provided        *)
(* LinesTellFiles, since the tracer compares lines without their files.    *)
(***************************************************************************)
TracerShowsPosition ==
  LinesTellFiles /\ prev_pc # Nil =>
    LET at == Written(Location[prev_pc])
    IN  /\ trace.position # Nil
        /\ trace.position.file = at.file /\ trace.position.line = at.line
        /\ at.column # Nil => trace.position.column = at.column

(***************************************************************************)
(* Whatever errors the tracer ignored, and wherever it was killed, a file  *)
(* the recorder accepts holds rows as they were executed, in that order,   *)
(* and never the halves of two.                                            *)
(***************************************************************************)
AcceptedRowsWereExecuted ==
  LET rows == Parse(file)
  IN  rows # Nil =>
        /\ \A i \in DOMAIN rows : \E n \in 1 .. seen : rows[i] = Row(n)
        /\ \A i, j \in DOMAIN rows : i < j => rows[i][1][1] < rows[j][1][1]
=============================================================================

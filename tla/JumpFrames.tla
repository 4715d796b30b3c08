---------------------------- MODULE JumpFrames ----------------------------
(***************************************************************************)
(* What the two register-snapshot recorders of recorder.rs share: a stack  *)
(* of function frames kept by looking at nothing but jumps.  A jump across *)
(* a function boundary is a call when it goes forward, and unwinds when it *)
(* goes backward.  Functions are known by the lines of the primary source  *)
(* (SourceModel::function_at), whichever file a line is of.                *)
(***************************************************************************)
EXTENDS TraceEvents

CONSTANTS
  Nil,         \* None
  Location,    \* Location[pc]: the file, line and column of a pc, or Nil
  FnAt,        \* FnAt[l]: the function of the primary source on line l
  FnAtPc,      \* FnAtPc[pc]: the placeholder name `fn_at_pc_{pc}`
  Tabled,      \* the files registered with a table of line lengths
  MaxFrames    \* bound on the frames followed

\* A position in a source file.
Locations == [file : STRING, line : Nat, column : Nat \cup {Nil}]

ASSUME FramesConstants ==
  /\ Nil \notin Nat /\ Nil \notin Locations
  /\ DOMAIN Location \subseteq Nat
  /\ \A pc \in DOMAIN Location : Location[pc] # Nil => Location[pc] \in Locations
  /\ MaxFrames \in Nat \ {0}

VARIABLES
  fn_stack,    \* the recorder's frames, the outer function first
  env_stack,   \* the function each frame's VarEnv was built for
  prev_line,
  prev_column,
  prev_pc,
  outer_known, \* a snapshot so far resolved to a function
  trace

----------------------------------------------------------------------------
function_at(line) == IF line \in DOMAIN FnAt THEN FnAt[line] ELSE Nil

OrElse(x, default) == IF x = Nil THEN default ELSE x

\* The function a call or a jump to pc reaches.
TargetFn(pc) == IF Location[pc] = Nil THEN Nil ELSE function_at(Location[pc].line)

\* The column of a location that can be written: that of a tabled file.
WrittenColumn(location) == IF location.file \in Tabled THEN location.column ELSE Nil

\* The name of the outermost frame: the function of the first snapshot that
\* resolves to one, and "main" if none does.
OuterNames == ({TargetFn(pc) : pc \in DOMAIN Location} \ {Nil}) \cup {"main"}

\* An input on which the outer frame gets the name fn_stack[1].
OuterNameFits(pc) ==
  outer_known \/ TargetFn(pc) = Nil \/ TargetFn(pc) = fn_stack[1]

FramesInit ==
  /\ \E outer \in OuterNames :
       /\ fn_stack = << outer >>
       /\ env_stack = << outer >>
       /\ trace = Called(StartedTrace(Nil), outer, Nil)
  /\ prev_line = Nil
  /\ prev_column = Nil
  /\ prev_pc = Nil
  /\ outer_known = FALSE

----------------------------------------------------------------------------
\* Defect: the environment is that of the frame below.
PushFrameSameEnv(fn) ==
  /\ Len(fn_stack) < MaxFrames
  /\ fn_stack' = Append(fn_stack, fn)
  /\ env_stack' = Append(env_stack, env_stack[Len(env_stack)])

PushFrame(fn) ==
  /\ Len(fn_stack) < MaxFrames
  /\ fn_stack' = Append(fn_stack, fn)
  /\ env_stack' = Append(env_stack, fn)

\* Defect: a frame is popped and its environment kept.
KeepFramesNotEnvs(n) ==
  /\ fn_stack' = SubSeq(fn_stack, 1, n)
  /\ UNCHANGED env_stack

\* The frames from n + 1 on are popped from both stacks.
KeepFrames(n) ==
  /\ fn_stack' = SubSeq(fn_stack, 1, n)
  /\ env_stack' = SubSeq(env_stack, 1, n)

\* Defect: `len() > 1` is not tested before the pop.
BelowUnguarded(n) == n - 1

\* The frame below the top one, the outer frame being its own.
Below(n) == IF n > 1 THEN n - 1 ELSE 1

\* Defect: the frames are not searched beyond the top one.
UnwindTargetBelow(fn) == Below(Len(fn_stack))

\* The frame a backward jump to a function unwinds to: its innermost frame,
\* and the outer frame when it has none.
UnwindTarget(fn) ==
  LET candidates == {1} \cup {i \in DOMAIN fn_stack : fn_stack[i] = fn}
  IN  CHOOSE n \in candidates : \A m \in candidates : m <= n

\* Defect: any jump is a call or an unwinding.
CrossesBoundaryAlways(pc) ==
  /\ prev_pc # Nil
  /\ pc > prev_pc + 2 \/ prev_pc > pc + 2

\* A jump of more than two instructions whose ends are not known to be in
\* the same function.
CrossesBoundary(pc) ==
  /\ prev_pc # Nil
  /\ pc > prev_pc + 2 \/ prev_pc > pc + 2
  /\ LET prev_fn == IF prev_line = Nil THEN Nil ELSE function_at(prev_line)
     IN  prev_fn = Nil \/ TargetFn(pc) = Nil \/ prev_fn # TargetFn(pc)

----------------------------------------------------------------------------
\* The names of the frames when calls are given names of `more` as well.
FrameNames(more) == OuterNames \cup {FnAtPc[pc] : pc \in DOMAIN Location} \cup more

FramesTypeOK(names) ==
  /\ fn_stack \in Seq(names) /\ fn_stack # << >>
  /\ env_stack \in Seq(names) /\ env_stack # << >>
  /\ prev_line \in Nat \cup {Nil}
  /\ prev_column \in Nat \cup {Nil}
  /\ prev_pc \in DOMAIN Location \cup {Nil}
  /\ outer_known \in BOOLEAN
  /\ trace \in Traces(names, Nil, Locations)
=============================================================================

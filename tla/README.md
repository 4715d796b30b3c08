# Verification of codetracer-solana-recorder

The recorder turns the execution of a Solana (SBF) program into a CodeTracer
trace: nested calls, steps on source positions, and values. This directory
holds TLA+ models of its state machines, the TLC configurations that check
them, and proofs for TLAPS.

All paths are relative to the repository. Lines are those of `src/*.rs`.

## The system

| Part | Code | State | Operations |
|---|---|---|---|
| CPI detector | `cpi.rs` | `context_stack` | `process_snapshot`, `call_depth`, `current_program` |
| CPI recorder | `recorder.rs` `record_with_cpi` | `fn_stack`, `env_stack`, `prev_line`, `prev_column`, `prev_pc`, the detector's stack | one pass over the snapshots, then the returns |
| Snapshot recorder | `recorder.rs` `record_from_snapshots_into_writer` | the same stacks, `last_err_return` | one pass over the snapshots, one return |
| Source recorder | `source_recorder.rs` | `stack` of frames with their inlined calls, `last_position`, the shadow memory, the cursor into the syscalls' journal | one pass, then the unwinding |
| Shadow memory | `sbf_memory.rs` | the regions | `read`, `write`, `apply_instruction` |
| Executor | `executor.rs` | the VM's, in `solana_sbpf` | `execute_with_memory_trace` |
| Syscalls | `syscalls.rs` | `log`, `mem_writes`, `bump_pos` | one handler for each syscall |
| DWARF source model | `source_debug.rs` | files, rows, functions with their scopes while it loads, then none | `load`; `function_at`, `scope_chain`, `position`, locations |
| Source model, synthesiser | `recorder.rs` | `VarEnv`, `TypeIdCache` | parsing of source lines, synthesised events |
| Source paths | `recorder.rs` `SourcePaths` | `canonical`, `tabled` | `ensure`, `has_table` |
| Pluggable tracer | `tracer_trait.rs` | `prev_*`; a buffered file, rows written | the callbacks of `SbpfTracer`, `finish` |
| Program registry | `multi_program.rs` | the programs | lookups |
| Line table | `dwarf.rs` | none; rows are `addr2line`'s | `find_location` |
| Register trace | `register_trace.rs` | none | a parser |
| Account decoder | `account_decoder.rs` | none | decoding by an IDL |
| Replay | `replay.rs`, `rpc_client.rs` | none | RPC calls, a placeholder recording |
| Command line | `main.rs` | the output directory | checks its inputs, chooses a recorder |

How they interact. `main` runs the program in the executor, whose register
snapshots (one for each instruction, taken *before* it) are the only thing the
recorders see. When DWARF describes the code, the source recorder walks the
snapshots with the opcodes, the debug information and the journal the syscalls
left. When it does not, the snapshot recorder walks them with a table of lines
and guesses calls and returns from jumps. `record_with_cpi` does the same for
a transaction of several programs and asks the CPI detector, at each snapshot,
whether the program changed. `replay` fetches a transaction and records a
placeholder with one location for each instruction. A program that embeds the
VM can instead hang a tracer on it, which is called before each instruction
and writes a trace, or a file of register rows for a later recording. Each
recorder drives a trace writer, an external crate, over whatever trace was in
the output directory.

Nothing runs concurrently. What is hard is the **reconstruction**: three
recorders rebuild, from a stream of pcs, stacks that the interpreter or the
runtime had and did not tell. Each keeps several pieces of state that must
move together (contexts, frames, environments, calls open in the trace, the
position last shown, the journal's cursor), over streams that may be cut short
anywhere, may skip levels, or may come from a hand-written file. A wrong step
rarely shows at once; it shows as a call that never closes, variables of
another frame, or memory that is one write behind. `PROJECT.json` lists the
hazards by line.

### What makes each part correct

* Detector: its stack is the runtime's, whatever the sequence of invocations.
* CPI and snapshot recorders: frames, environments and the trace's open calls
  move together; every call is returned from once; the position shown is the
  last snapshot's.
* Source recorder: frames are the interpreter's calls and the inlined calls
  around each of them; each step is shown in the call it belongs to; the
  shadow memory is the program's memory; every call is returned from, also when
  the execution is cut short.
* Source paths: a file is registered before it is mentioned, so that its
  columns survive, and is stepped on by a path that can be opened.
* Command line and replay: an error in the inputs leaves the trace that was
  there; a run that succeeds has left a complete one.
* Tracers: jumps followed without a stack are the program's calls; a register
  trace that is accepted is one of rows that were executed.
* DWARF source model: a position, the variables in scope and their place in
  the frame are those the compiler meant.
* Syscalls: one journal entry for each invocation; memory handed out by the
  allocator is not handed out twice.

## Modules

| Module | Models | How it corresponds |
|---|---|---|
| `CpiDetector` | `cpi.rs` | `SameProgram`, `CpiReturn`, `CpiCall` are the three results of `process_snapshot`; a range is a set of pcs |
| `CpiTracking` | the runtime that drives it (external) | the abstract view: `invoke_stack` with invocations and returns, of which the detector sees pcs |
| `CpiTrackingProofs` | | the proofs about the two |
| `CpiRecorderProofs`, `SnapshotRecorderProofs`, `SourceRecorderProofs` | | the proofs about the recorders |
| `SharedLemmas` | | what several proofs use: extremal members of finite sets, induction and recursion up to n, frames that mirror the open calls |
| `TraceEvents` | the trace writer (external) | the call tree as its reader rebuilds it; a root call `<toplevel>` below everything, as the tests read it back |
| `JumpFrames` | what the two snapshot recorders have in common | the frame and environment stacks, the test for a jump across functions, the frame a backward jump unwinds to |
| `CpiRecorder` | `record_with_cpi` | extends the detector; one action for each branch of the loop body (with the step at its end) and `Finish` |
| `SnapshotRecorder` | `record_from_snapshots_into_writer` | one action for each branch, the two `continue`s included; the slot for `?` |
| `SnapshotCalls` | the program whose snapshots it sees (external) | really calls and returns; or, with `arbitrary`, any sequence of pcs |
| `SbfExecution` | `executor.rs`, the journal of `syscalls.rs`, the interpreter (external) | every execution of a small program, stopped anywhere, with the calls and the memory the recorder is not told |
| `SourceRecorder` | `source_recorder.rs` `run`, `sbf_memory.rs` | one action for each frame transition, with the rest of the loop body; `Finish` |
| `GuestMemory` | the VM's memory mapping (external), `ShadowMemory` | bytes in regions; what may be loaded and stored; the shadow's `write` |
| `Syscalls` | `syscalls.rs` | one operator for each handler, with `log`, `mem_writes`, `bump_pos` |
| `GuestReplay` | the loop of `source_recorder.rs` as far as memory goes, driven by any stores and syscalls | a program that runs to its end or to a fault, then `Replay`, one instruction at a time |
| `GuestReplayProofs` | | the proofs about the allocator, the journal and the replay |
| `SourcePaths` | `SourcePaths`, `canonical_step_path`, third-party classification, `PathResolver` (`recorder.rs`, `dwarf.rs`, `source_recorder.rs`) | operators on paths as sequences of components over a file system; a registration is `canonical`, `tabled` and what the writer (external) fixed |
| `Recording` | `main.rs`, `replay.rs`, the start and the end of each recorder and its walk over the files | `at` is the point a run has reached; one action for each stretch of code between two places where it may fail |
| `TraceOutput` | what a run promises of the output directory | the abstract specification `Recording` implements |
| `RecordingProofs` | | the proofs about the two |
| `Tracers` | `CodeTracerTracer`, `RegisterTraceTracer` (`tracer_trait.rs`), `parse_regs_file` | hung on `SbfExecution`: `Run` is an instruction of the VM, a `Step` the callback before it; a row is two halves, so that it can be torn |
| `TracersProofs` | | the proofs about the two tracers |
| `DebugInfo` | `source_debug.rs`: line rows, DIE walk, frame sizes; `record_locals` of `source_recorder.rs` | `ReadUnit` for each unit, `Finish` for the rest of `load`; the questions as operators |
| `MC*` | | the instances TLC checks |

Abstractions. A source line, a file, a function and a program are names. Of a
`VarEnv` the model keeps the function it was built for, of the locals recorded
at a step the call they are of. Register values and synthesised events are
left out. In `SourceRecorder` a scope stands for itself where the code compares
pointers. Operators under a comment `Defect:` are used by no specification:
each replaces the definition below it in a check that the named property
notices.

`StartedTrace` has `<toplevel>` open below the outer call, because
`tests/test_comprehensive.rs` (2280-2290) reads it back so. A return with only
the root to close sets `orphan`; calls that the writer's `close` must close are
counted in `drained`.

## Runs

| Run | Shows |
|---|---|
| `cpi_tracking` | the detector's stack is the runtime's: three registered programs of two pcs, an unregistered one of three, four deep. Every nesting, every return and re-invocation, and the growth of the stack under the unregistered program occur |
| `cpi_recorder` | all sequences of snapshots over three programs: two functions in the primary, lines of another file mistaken for one of its functions, pcs without a location, a file without a line table, a program the registry does not know; four frames |
| `source_recorder` | all executions of up to 20 instructions of a program with recursion, an indirect call, nested and adjacent inlined calls, a store, a syscall, stopped after any instruction; three calls deep |
| `snapshot_recorder` | a program of three functions and third-party code, laid out upwards, that calls and returns, also through several functions at once; and any sequence of pcs; four frames |
| `guest_replay` | every sequence of three stores and syscalls over three bytes of read-only data, eleven of stack and a heap of 32: stores of each width over each other, copies that overlap either way, operands that run past a region, requests of nothing, of odd sizes, of more than the heap |
| `recording` | `record`, `replay` and the library's entry points, with the ELF, the `--elf` override and the register trace each missing, torn, not an ELF, broken or undescribed; a crate with two files under several spellings, a dependency and files that are nowhere; a writer that fails at either end |
| `tracers` | all executions of up to 14 instructions of a program that calls three deep, loops, jumps and has code without a location; a buffer of two rows with a write that may fail after any part, a process killed anywhere |
| `debug_info` | three families: two sequences in either order over one or two units, rows at one address included; a function with a block and an inlined call nested or side by side, each without code, with a part or all of it; a function of up to three instructions that use the frame or copies of r10, before another one |
| `end_inside_cpi`, `undescribed_callee`, `stale_err`, `both_allocators` | disagreements between the code and a comment or a test, see `findings` in `PROJECT.json` |

Bounds. `MaxFrames = 4` bounds the frames *above which no push is followed*;
an unwinding over three frames to the outer one is the longest case the code
tells apart (stop at a match in the middle, run to the bottom, single pop).
`MaxInvokeDepth = 4` is one more than the registered programs, so that the
unregistered program occurs at every level. `MaxSnapshots = 20` lets the
program go three calls deep and back; shorter executions are the same
executions cut short, which `Stop` covers. `MaxCallDepth = 3` lets `helper`
recurse and call `main`. `MaxInstructions = 3` lets a store or a syscall act on
what two others left, and the heap run out after two blocks; the property
compares the memory after each, so a longer execution is a shorter one from
another image. `MaxLocations = 2` of `recording` has two files, or two
spellings of one, in a recording, which is what registration can confuse.
`MaxSnapshots = 14` of `tracers` is the shortest way to the program's own end,
three calls deep and back, where nothing may be left for `close`;
`Capacity = 4` holds two rows of two halves, so that a write is buffered,
flushed with room to spare, flushed in part or dropped. `Align = 2` of
`debug_info` has offsets inside an aligned unit and on its edge.

Undefined behaviour. `sol_memcpy_` copies with `copy_nonoverlapping` and does
not look whether its operands overlap, although its comment (365-369) says the
runtime's assertion is preserved. `Copied` leaves for an overlap what a copy
through a buffer leaves or what one byte by byte does, and the journal must
agree with whichever it was.

`CHECK_DEADLOCK FALSE` is set where a recording ends.

Fairness. `SourceRecorder` assumes `WF_vars(Next)`, for `RecordingEnds`: the
interpreter is given a compute budget and the recorder is a `for` loop over a
finished vector. `Recording` assumes the same, for the promise of `TraceOutput`
that every run ends: the program is sequential, its files are finite and its
requests time out (`rpc_client.rs`). Nothing else is scheduled, and the other
modules only have safety properties.

Refinement. `ImplementsTraceOutput` says that `Recording` implements
`TraceOutput` under the identity on `trace` and `status`: all that happens
before `Open` is invisible but for a failure or a `Skip` (recording disabled),
`Open` gives up the old trace, the walk stutters, and only a `Finish` in which
nothing failed makes the trace complete.

Assumptions on inputs, each named in the modules. `KnownRangesDisjoint`: two
programs do not share a pc. `LaidOutUpwards` and `InlinedInside` (for
`FramesMirrorCalls` only): a function calls upwards by more than two
instructions, the user's pcs are on their function's lines, and a function with
third-party code inlined is entered and returned to on the user's own pcs. This
is what the heuristic takes for granted (`recorder.rs` 2665, 2626), and without
it only `TraceMirrorsFrames` and `EnvsAligned` are claimed. The proof attempt
found the second: where a call returns to an inlined pc, the absorbed snapshot
moves `prev_pc`, the user's next pc is close to it, and the callee's frame stays
open. `LinesTellFiles`
(`CpiRecorder`) and `UserLinesTellFiles` (`SnapshotCalls`), for the two
`PositionIsCurrent` only: no two files of one program have a line number in
common, because the code compares lines without files (2728, 3140). They are
hypotheses of the theorems, and the instances check that they satisfy them
(`OneFilePerLine`). `JumpsTellCalls` and `LinesTellFiles` (`Tracers`): control moves
by at most two instructions inside a function, callees lie far enough above
their callers, and a line tells its file; the instance checks that it satisfies
both (`ProgramIsFollowable`). The function a call enters is the least set of
pcs with its target that control does not leave but by a call (`BodyFrom`).
`TracerConstants`: a `BufWriter` holds a row at least, and `None` is no number,
position or result. `DebugInfo`'s programs are those of a compiler:
sequences and functions are disjoint, a direct use of the frame is at its
object's offset. In `MCSourceRecorder`, no internal call
goes to the next instruction: the code takes such a call for a syscall
(`source_recorder.rs` 163, 251).

## Proofs

Each theorem holds for every choice of the constants that satisfies the named
assumptions of the modules, all of which TLC evaluates on the instances.

`CpiTrackingProofs` (any set of programs with disjoint code, any of them
registered, any depth): `TypeCorrect`, `ContextsStayDisjoint`,
`TopAlwaysCoversPc` and `DetectorMirrorsRuntime`. The inductive invariant is
`IInv` of `CpiTracking`. `MirrorsInvocations` alone is not inductive: a return
finds its program only because contexts are disjoint (so that the innermost
context with the pc is the only one), and contexts stay disjoint only because
each is a known range or one instruction that no known range has
(`ContextWellFormed`). `NoReentrance` is the runtime's rule, and is needed so
that a pc of an invoked program is not in a context below.

A snapshot cuts the stack back to the context with its pc or pushes one that
has it (`SnapshotCutsOrPushes`).

`SharedLemmas` has what the recorders' frames need. `Mirrors` says that two
sequences of names are equal, or equal but for the outer frame; the lemmas
restate it by index (`MirrorsByIndex`) and show that a call with its push, n returns with
their n pops, one return with a pop that spares the outer frame, and a step
each keep it. Its `Induction` and `Recursion` stand in for the library's
theorems that take an operator: induction over the *set* of numbers with a
property, and the existence of a function defined by iteration, which is what
`LET f[n \in 0 .. k] == ...` in a model needs before it can be unfolded.

`CpiRecorderProofs` (any ranges, functions, lines, files and any sequence of
snapshots): `TypeCorrect`, `TraceMirrorsFramesInvariant`,
`EnvsAlignedInvariant`, `NothingDrainedInvariant`, `EndOutsideCpiBalancesHolds`
and `PositionIsCurrentInvariant`. `IInv` joins the detector's invariant
(`DetectorInv`, kept by `DetectorStep`) with `Mirrors` and the alignment of the environments. `EnvsAligned` is needed for
the type of `env_stack` (a cut to n frames is a cut of both), `Mirrors` bounds
the open calls by the frames, so that the returns at the end are enough. The
position needs `PositionInv` besides: the line and column remembered are those
on display, and a snapshot is a line fresher or in the same program as the one
before it, which is where a line must tell its file.

`SnapshotRecorderProofs`: `TypeCorrect`, `TraceMirrorsFramesInvariant`,
`EnvsAlignedInvariant` of `Spec`, and `PositionIsCurrentInvariant` of
`ProgramSpec`, which implements `Spec` (`ProgramImplementsSpec`). There the
position is that of *some* snapshot of the user's code, the one the next is
compared with (`ShownInv`); that it is the last one follows step by step.
`FramesMirrorCallsInvariant` is of `ProgramSpec` too. The frames and the
program's calls differ between two snapshots of the user's code: returns that
leave no snapshot leave frames behind, and a call into a dependency has no
frame. `CallsInv` therefore has two parts. `Layered`: the frames are user
functions, each far above the one below, and the last pc is above them all but
its own. `RunsIn`: the program's calls are the first frames, one by one, and the
pc is in the function of the next frame, or in one that has no frame yet and is
above all that have. Every jump to the user's code is then judged by where it
comes from (`Reached`), and the unwinding stops at the frame the program is in.

`GuestReplayProofs` (any regions, heap, sizes and sequence of stores and
syscalls). `BlocksApartInvariant` and `BlocksInHeapInvariant`: neither is
inductive without the other and `BlocksInv`'s middle conjunct, that all blocks
are above the position: a new block fits below the position (`AllocatedFits`),
hence below all of them. `GuestReplayTypeOK`, `JournalIsAligned`, `ReplayExact`
and `RodataStays` follow from `ReplayInv`. Its heart is `ImagesFollow`: the
program's memory after each completed instruction is what the *replay* makes of
the memory before it, from the operands of a store or from the journal's entry
for a syscall; the shadow then follows the images one by one (`ReplayFollows`).
`JournalAligned` is needed in it, so that the replay's cursor finds that entry,
and `OneWriteEach`, a syscall's at most one write, so that applying an entry is
applying that write.

`RecordingProofs` (any files, spellings, responses and arguments):
`InputErrorsKeepTheTrace` and `RecordingRefines`, the safety part of
`ImplementsTraceOutput`. The invariant relates the point a run has reached to
the trace: up to `open` it is the one that was there, after it a partial one,
and an error without the writer's is only possible before. It needs nothing of
the paths, so that the two hold whatever `SourcePaths` does. `RecordingTypeOK`,
`ColumnsAreKept` and `SnapshotStepsAreOpenable` are about the paths:
`RegistrationInv` says that each spelling ensured has the path it resolves to,
that this path was registered with the table the writer has for it, and that
the writer knows no other path but the source's (`Agree`); that the files
ensured so far are those the walk will come to (`FilesRegistered`); and that a step's
path was registered (`StepNamed`).

`SourceRecorderProofs` (any program, any debug information, any execution and
any place where it is cut short). `SourceRecorderTypeOK`,
`OpenCallsAreTheStack`, `SourceCallsBalance` and `StepsFollowCalls` follow from
`RecorderInv`. Its core is that the open calls are the frames, each followed by
its inlined calls (`CallsOf`): leaving what the old and the new chain do not
share, and entering what the new one adds, exchanges a tail of that sequence
(`TailExchanged`), and popping a frame removes one more call than it has inlined
ones. A last position that is not `None` must besides have been shown at the
depth and with the variables of the *current* innermost call (`PositionFits`):
this is why every transition resets it. Two more theorems compare with what the
recorder is not told:

* `MemoryIsReplayed`: the shadow memory is the interpreter's before each
  instruction. `ExecutionInv` keeps the history, how each snapshot follows from
  the one before, with the journal's entry for a syscall; `MemoryInv` has the
  cursor at the number of syscalls passed. Hypothesis `CallsLeave`: no internal
  call has the next instruction as a target. It is needed: the code takes
  "execution went on at the next instruction" for "the call was a syscall"
  (`source_recorder.rs` 163, 251), so that a call into a function laid out right
  behind it would consume a journal entry that is another's.
* `FramesAreTheExecutions`: the frames are the interpreter's calls, each with
  the inlined calls around its pc. Besides `CallsLeave` it assumes of the
  execution that DWARF describes it throughout (`DescribedThroughout`): each pc
  it has been at is in a function, an instruction that neither calls nor returns
  stays in it, and a return leads to the function that called. This is assumed
  of the pcs executed, not of the program: a call that never returns may be its
  function's last instruction. `undescribed_callee` shows what happens without.

The instance of `source_recorder` satisfies both, in every state.

`TracersProofs` (any program, locations, size of the buffer and execution):
`TypeCorrect`; `AcceptedRowsWereExecutedInvariant`, where `RowsInv` says that
the file followed by the buffer is the halves of ascending snapshots, each whole
until the process is killed: a flush, whole or not, only moves the border
between the two (`FlushedStream`), a row comes last or is dropped
(`WriteRowStream`), and a prefix of whole rows is what the parser accepts
(`HoldsPrefix`, `ParseHolds`); `TracerShowsPositionInvariant`, from `PositionInv`
as for the recorders; and `TracerFollowsCallsInvariant`, whose invariant has
three parts. `Follows`: an open call for each of the program's, under a name it
can have. `InBodies`: each call's pc is in a function the call around it can have
entered, which places an exit above the call it returns to. `Reaches`: the
tracer is at the program's pc, or one instruction without a location behind it.
`ExecutionInv` has each snapshot one instruction after the one before
(`ExecuteMoves`), and `JudgedKeeps` takes the instruction and the tracer's guess
together.

Model-checked only: the three invariants of `DebugInfo`, whose operators on
trees are RECURSIVE and so out of the prover's reach; `RecordingEnds` and the
end of a run in `ImplementsTraceOutput`, which are liveness. Every other
invariant a passing run checks is a theorem.

## What the models show of the code

These hold of the code as it is and no run is about them; a reader of the
properties should know them.

* A return out of an invocation whose program has frames of its own open closes
  the helper's call: the invocation stays open in the trace over the caller's
  steps (`recorder.rs` 3039). `TraceMirrorsFrames` holds all the same.
* In a file without a line table the snapshot recorder compares a column with
  one it never kept (2732, 2770), so that every snapshot with a column is a
  step there. `record_with_cpi` drops the column first.
* `record_with_cpi` gives `util.rs` and `src/util.rs` a record each: nothing
  there filters the spelling that does not resolve, and `SourcePaths` (369-371)
  says two spellings of one file cannot become two records.
* With an absolute `--program-dir` inside a crate, `replay`'s placeholder files
  do not exist under the crate's root: all are third-party and the trace has no
  step.
* Only the source recorder asks that a column lie within its line; the snapshot
  recorders offer it to the writer as it is (2738). `ColumnsSurvive` says so.
* When the debug model cannot be loaded, `main` falls back on
  `record_from_traces`, which refuses broken DWARF as well.
* `create_dir_all` clears nothing: files of the old trace that the new one does
  not have stay beside it.
* The snapshot recorder advances `prev_pc` on a third-party snapshot (2626). A
  call that returns to code inlined from a dependency is therefore not seen to
  return: the jump back ends on an absorbed snapshot, and the caller's next line
  is near it. `InlinedInside` excludes this.
* `rows_written` counts rows that were dropped, and `finish` may be `Ok` after
  an earlier write has failed (`tracer_trait.rs` 388-392, 417).
  `AcceptedRowsWereExecuted` is what remains.
* A frame whose lowest object is only addressed inside is sized too small by
  multiples of 64; rows and ranges left at address 0 for code the linker
  dropped would cover live code if `.text` were near it.

## Not modelled, and the plan

1. (done) detector, CPI recorder, snapshot recorder, source recorder, syscalls
   with the shadow memory, source paths, command line and replay, tracers, the
   loading of debug info; the proofs about all but the last.
2. `DebugInfo` without RECURSIVE operators, its trees as functions from DIEs to
   parents, and the proof of `PositionIsAttributed`.
3. The first match of the registry over overlapping ranges, as an algorithm
   against a reference.

Not modelled: the account decoder, a conversion without state that no recorder
calls; what the synthesiser reads from the text of a line (`VarEnv`, format
strings, events), which is a guess about text and has no ground truth to be
compared with; the decoding of values by DWARF type; `NoOpTracer`, and of
`CodeTracerTracer` the handler `on_syscall`, which appends the name to a list
that only `recorded_syscalls` reads, and writes an event.

Left out for good: packaging, CI and examples (no state); the wire format of
the RPC client; the ELF loader, the interpreter and the trace
writer (external crates, modelled as far as the recorders depend on them); the
wording of log lines and errors.

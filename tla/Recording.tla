----------------------------- MODULE Recording -----------------------------
(***************************************************************************)
(* One run of the recorder, from its command line (main.rs) or a call of   *)
(* the library to the trace in the output directory: what is read and      *)
(* checked before the old trace is given up, which recorder runs, how it   *)
(* registers the source files, the steps' paths and columns, and the end.  *)
(*                                                                         *)
(* Each location the debug info gives stands for a step on a fresh         *)
(* position; calls, returns and values are the other modules'.             *)
(***************************************************************************)
EXTENDS SourcePaths

CONSTANTS
  Elf,             \* the program's canonical path
  Locations,       \* what debug info gives for a pc: a spelling of a file, and
                   \* where the column is in the text of its line, if any
  Anchors,         \* the source paths callers of the library give
  Programs,        \* the first .so of each --program-dir, or Nil: none there
  AccountFile,     \* `{program}.rs` of each account key of a transaction
  UnknownProgram,  \* "unknown_program.rs"
  Indices,         \* programIdIndex of an instruction, or Nil: absent
  MaxLocations     \* bound: the locations of one recording

\* Where a column is: inside the text of its line, or past it.
Columns == {Nil, "inside", "past"}

Location == [file : Path, column : Columns]

ASSUME InputsType ==
  /\ Elf \in Path /\ Locations \subseteq Location /\ Anchors \subseteq Path
  /\ \A program_so \in Programs \ {Nil} : program_so \in Path
  /\ AccountFile \in Seq(Path) /\ UnknownProgram \in Path
  /\ \A index \in Indices \ {Nil} : index \in Nat
  /\ MaxLocations \in Nat
  /\ Nil \notin {"snapshots", "cpi", "source", "tracer"}

VARIABLES
  at,             \* what the run does next
  options,        \* the environment and arguments looked at later
  elf,            \* what the file debug info is read from holds
  recorder,       \* "snapshots", "cpi", "source" or "tracer"
  anchor,         \* the source path the trace starts with
  located,        \* the locations of the executed instructions, in order
  reg,            \* the registration of source files (SourcePaths)
  registered,     \* how many files were registered before `start`
  walked,         \* how many of `located` are recorded
  step,           \* the last step, or Nil
  trace,          \* in the output directory: none, an old one,
                  \* a partial one or a new one
  status,         \* running, ok or error
  writer_failed   \* a file of the output could not be written

input_vars == << options, elf, recorder, anchor, located >>
record_vars == << reg, registered, walked, step >>
vars == << at, input_vars, record_vars, trace, status, writer_failed >>

----------------------------------------------------------------------------
Loadable == {"described", "undescribed", "broken_dwarf"}
Parsable == {"described", "undescribed"}
ElfKinds == Loadable \cup {"missing", "not_elf", "not_loadable"}

RegsKinds == {"missing", "torn", "whole"}

Sequences(S) == UNION {[1 .. n -> S] : n \in 0 .. MaxLocations}

Files(locations) == [i \in DOMAIN locations |-> locations[i].file]

Init ==
  /\ at \in {"elf", "fetch", "library"}
  /\ options \in [disabled : {FALSE} \cup {at # "library"},
                  regs : {Nil} \cup (IF at = "elf" THEN RegsKinds ELSE {})]
  /\ elf = Nil /\ recorder = Nil /\ anchor = Nil
  /\ located = << >>
  /\ reg = NoPaths
  /\ registered = 0
  /\ walked = 0
  /\ step = Nil
  /\ trace \in {"none", "old"}
  /\ status = "running"
  /\ writer_failed = FALSE

At(point) == status = "running" /\ at = point

Goto(point) == at' = point /\ UNCHANGED << status, trace, writer_failed, options >>

Keep == UNCHANGED << at, input_vars, record_vars, trace, writer_failed >>

\* An error returned before the output directory is touched.
Fail == status' = "error" /\ Keep

\* Recording is disabled.
PassThrough == status' = "ok" /\ Keep

Record(by, path, locations) ==
  /\ Goto("open")
  /\ recorder' = by
  /\ anchor' = path
  /\ located' = locations
  /\ UNCHANGED << elf, record_vars >>

----------------------------------------------------------------------------
(***************************************************************************)
(* The `record` command.                                                   *)
(***************************************************************************)
\* The ELF of the command line, which exists and has the magic number.
ReadElf(kind) ==
  /\ At("elf")
  /\ IF kind \in {"missing", "not_elf"} THEN Fail
     ELSE IF options.disabled THEN PassThrough
     ELSE /\ Goto(IF options.regs = Nil THEN "execute" ELSE "regs")
          /\ elf' = kind
          /\ UNCHANGED << recorder, anchor, located, record_vars >>

\* Defect: the ELF of --elf is taken without a look.
ReadRegsOnly(override) ==
  /\ At("regs")
  /\ IF options.regs = "missing" THEN Fail
     ELSE /\ Goto("traces")
          /\ elf' = IF override = Nil THEN elf ELSE override
          /\ UNCHANGED << recorder, anchor, located, record_vars >>

\* The files of --regs and --elf (override).
ReadRegs(override) ==
  /\ At("regs")
  /\ IF options.regs = "missing" \/ override = "missing" THEN Fail
     ELSE /\ Goto("traces")
          /\ elf' = IF override = Nil THEN elf ELSE override
          /\ UNCHANGED << recorder, anchor, located, record_vars >>

\* Without --regs the program is executed.  The source recorder takes over when
\* the debug info describes the first instruction; its files are resolved.
Execute(locations, comp_dir) ==
  /\ At("execute")
  /\ IF elf \notin Loadable THEN Fail
     ELSE IF elf = "described"
       THEN LET resolved == [i \in DOMAIN locations |->
                               [locations[i] EXCEPT !.file = Resolved(@, comp_dir, Elf)]]
            IN  Record("source", IF resolved = << >> THEN Elf ELSE resolved[1].file, resolved)
       ELSE /\ Goto("traces")
            /\ UNCHANGED << elf, recorder, anchor, located, record_vars >>

\* Defect: the events file is begun before the register trace is parsed.
BeginThenParse(locations) ==
  /\ At("traces")
  /\ IF options.regs = "torn" \/ elf \notin Parsable
       THEN /\ status' = "error"
            /\ trace' = "partial"
            /\ UNCHANGED << at, input_vars, record_vars, writer_failed >>
       ELSE Record("snapshots", TraceSourcePath(Files(locations), Elf), locations)

RecordFromTraces(locations) ==
  /\ At("traces")
  /\ IF options.regs = "torn" \/ elf \notin Parsable THEN Fail
     ELSE Record("snapshots", TraceSourcePath(Files(locations), Elf), locations)

----------------------------------------------------------------------------
(***************************************************************************)
(* The `replay` command.  A response is the instructions of a transaction, *)
(* each by its programIdIndex, or Nil: no transaction in it.  The accounts *)
(* fetched next are only shown, whether that succeeds or not.              *)
(***************************************************************************)
Instructions(response) ==
  LET parsed[i \in 0 .. Len(response)] ==
        IF i = 0 THEN << >>
        ELSE IF response[i] = Nil THEN parsed[i - 1]
        ELSE Append(parsed[i - 1], response[i] % 256)
  IN  parsed[Len(response)]

ProgramIds(instructions) ==
  {AccountFile[index + 1] : index \in Range(instructions) \cap {i - 1 : i \in DOMAIN AccountFile}}

Placeholder(index) ==
  [file |-> IF index + 1 \in DOMAIN AccountFile THEN AccountFile[index + 1] ELSE UnknownProgram,
   column |-> Nil]

ReplayTransaction(response, program_so) ==
  /\ At("fetch")
  /\ IF options.disabled THEN PassThrough
     ELSE IF response = Nil \/ program_so = Nil THEN Fail
     ELSE LET instructions == Instructions(response)
          IN  IF ProgramIds(instructions) = {} THEN Fail
              ELSE Record("snapshots", program_so,
                          [i \in DOMAIN instructions |-> Placeholder(instructions[i])])

----------------------------------------------------------------------------
(***************************************************************************)
(* The recorders.                                                          *)
(***************************************************************************)
\* record_from_snapshots, record_with_cpi and CodeTracerTracer, called directly.
CallLibrary(by, path, locations) == At("library") /\ Record(by, path, locations)

WriterFails ==
  /\ status' = "error"
  /\ writer_failed' = TRUE
  /\ UNCHANGED << at, input_vars, record_vars >>

\* The output directory and the events file in it.
Open ==
  /\ At("open")
  /\ \/ WriterFails /\ trace' \in {trace, "partial"}
     \/ /\ at' = "register"
        /\ trace' = "partial"
        /\ UNCHANGED << input_vars, record_vars, status, writer_failed >>

\* One file more of those registered before `start`.
Registering(by, files) ==
  /\ At("register")
  /\ recorder = by
  /\ registered < Len(files)
  /\ registered' = registered + 1
  /\ UNCHANGED << at, input_vars, walked, step, trace, status, writer_failed >>

\* `start`, which names the anchor.
Start(by, files) ==
  /\ At("register")
  /\ recorder = by
  /\ registered = Len(files)
  /\ Goto("walk")
  /\ reg' = Mentioned(reg, anchor)
  /\ UNCHANGED << elf, recorder, anchor, located, registered, walked, step >>

AllFiles == << anchor >> \o Files(located)

\* Defect: the anchor is named before it is registered.
StartThenRegister ==
  \/ /\ Registering("snapshots", AllFiles)
     /\ reg' = Ensured(Mentioned(reg, anchor), anchor, AllFiles[registered + 1])
  \/ Start("snapshots", AllFiles)

RegisterSnapshots ==
  \/ /\ Registering("snapshots", AllFiles)
     /\ reg' = Ensured(reg, anchor, AllFiles[registered + 1])
  \/ Start("snapshots", AllFiles)

\* The other files are registered when the walk meets them.
RegisterCpi ==
  \/ Registering("cpi", << anchor >>) /\ reg' = Ensured(reg, anchor, anchor)
  \/ Start("cpi", << anchor >>)

RegisterSource ==
  \/ Registering("source", located) /\ reg' = OwnSpelling(reg, located[registered + 1].file)
  \/ Start("source", located)

RegisterTracer ==
  \/ Registering("tracer", AllFiles) /\ reg' = OwnSpelling(reg, AllFiles[registered + 1])
  \/ Start("tracer", AllFiles)

\* The next location of the walk.
Take(by) ==
  /\ At("walk")
  /\ recorder = by
  /\ walked < Len(located)
  /\ walked' = walked + 1
  /\ UNCHANGED << at, input_vars, registered, trace, status, writer_failed >>

Taken == located[walked + 1]

\* A step on a path; its column only where the recorder knows a table.
StepOn(path, column) ==
  step' = [path |-> path, column |-> IF reg'.tabled[path] = Nil THEN Nil ELSE column]

StepUnderOnePath ==
  /\ reg' = Ensured(reg, anchor, Taken.file)
  /\ StepOn(reg'.canonical[Taken.file], Taken.column)

WalkSnapshots ==
  /\ Take("snapshots")
  /\ IF IsThirdPartyForUser(anchor, UserCrateRoot(anchor), Taken.file)
       THEN reg' = reg /\ step' = Nil
       ELSE StepUnderOnePath

WalkCpi == Take("cpi") /\ StepUnderOnePath

WalkSource ==
  /\ Take("source")
  /\ reg' = reg
  /\ StepOn(Taken.file, IF Taken.column = "inside" THEN Taken.column ELSE Nil)

WalkTracer ==
  /\ Take("tracer")
  /\ reg' = reg
  /\ StepOn(Taken.file, Taken.column)

\* Defect: the error of close() is dropped.
FinishQuietly ==
  /\ At("walk")
  /\ walked = Len(located)
  /\ status' = "ok"
  /\ trace' \in {"partial", "new"}
  /\ UNCHANGED << at, input_vars, record_vars, writer_failed >>

\* finish_writing_trace_events, write_meta_dat and close.
Finish ==
  /\ At("walk")
  /\ walked = Len(located)
  /\ \/ WriterFails /\ UNCHANGED trace
     \/ /\ status' = "ok"
        /\ trace' = "new"
        /\ UNCHANGED << at, input_vars, record_vars, writer_failed >>

Recorded ==
  \/ Open \/ Finish
  \/ RegisterSnapshots \/ RegisterCpi \/ RegisterSource \/ RegisterTracer
  \/ WalkSnapshots \/ WalkCpi \/ WalkSource \/ WalkTracer

Next ==
  \/ \E kind \in ElfKinds : ReadElf(kind)
  \/ \E override \in ElfKinds \cup {Nil} : ReadRegs(override)
  \/ \E locations \in Sequences(Locations), comp_dir \in {<< >>, Parent(Elf)} :
       Execute(locations, comp_dir)
  \/ \E locations \in Sequences(Locations) : RecordFromTraces(locations)
  \/ \E response \in Sequences(Indices) \cup {Nil}, program_so \in Programs :
       ReplayTransaction(response, program_so)
  \/ \E by \in {"snapshots", "cpi", "tracer"}, path \in Anchors, locations \in Sequences(Locations) :
       CallLibrary(by, path, locations)
  \/ Recorded

\* Every call returns: the program is sequential, its files are finite and its
\* requests time out.
Spec == Init /\ [][Next]_vars /\ WF_vars(Next)

----------------------------------------------------------------------------
\* Each variable has its type; what is read has been found, and the recorder's
\* account of its files covers those it has named.
TypeOK ==
  /\ at \in {"elf", "regs", "execute", "traces", "fetch", "library", "open", "register", "walk"}
  /\ options \in [disabled : BOOLEAN, regs : RegsKinds \cup {Nil}]
  /\ elf \in (ElfKinds \ {"missing"}) \cup {Nil}
  /\ recorder \in {Nil, "snapshots", "cpi", "source", "tracer"}
  /\ located \in Seq(Location)
  /\ recorder # Nil => anchor \in Path
  /\ registered \in 0 .. Len(located) + 1
  /\ Range(reg.canonical) \subseteq DOMAIN reg.tabled
  /\ DOMAIN reg.tabled \subseteq DOMAIN reg.tables
  /\ Range(reg.tables) \cup Range(reg.tabled) \subseteq Disk \cup {Nil}
  /\ walked \in 0 .. Len(located)
  /\ step = Nil \/ step.path \in DOMAIN reg.tables
  /\ trace \in {"none", "old", "partial", "new"}
  /\ status \in {"running", "ok", "error"}
  /\ writer_failed \in BOOLEAN

\* A step keeps its location's column exactly when the writer can encode one on
\* its path: the table the recorder thinks a path has is the one the writer
\* fixed at the first mention, whichever record that was.  Only the source
\* recorder also asks that the column be inside its line.
ColumnsSurvive ==
  step # Nil =>
    LET column == located[walked].column
        encodable == /\ reg.tables[step.path] # Nil
                     /\ recorder = "source" => column = "inside"
    IN  step.column = IF encodable THEN column ELSE Nil

\* With the user's crate known, the snapshot recorder steps only on the anchor
\* and on files that can be opened, by their absolute path: so it steps on one
\* file under one path, whatever the spelling.
StepsOpenable ==
  step # Nil /\ recorder = "snapshots" /\ UserCrateRoot(anchor) # Nil =>
    step.path \in Disk \cup {anchor}

\* An error in the inputs (a missing or torn file, an unusable ELF, no
\* transaction, no program) is met before the old trace is given up.
InputErrorsKeepTrace ==
  status = "error" /\ ~ writer_failed => trace \in {"none", "old"}

TO == INSTANCE TraceOutput WITH trace <- trace, status <- status

\* A run's effect on the output directory is TraceOutput's, and the run ends.
ImplementsTraceOutput == TO!Spec
=============================================================================

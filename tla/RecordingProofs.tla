-------------------------- MODULE RecordingProofs --------------------------
(***************************************************************************)
(* Whatever the files, the debug info and the commands: the output         *)
(* directory goes through TraceOutput's steps only, and an error in the    *)
(* inputs leaves the old trace (OutputInv); and whatever the spellings of  *)
(* the source files, the recorder's account of the writer's line tables    *)
(* is right, so that columns survive and steps can be opened               *)
(* (RegistrationInv).                                                      *)
(***************************************************************************)
EXTENDS Recording, SharedLemmas

Begun == {"register", "walk"}

\* What `at` tells of the output directory.
OutputFollows ==
  status = "running" =>
    /\ ~ writer_failed
    /\ IF at \in Begun THEN trace = "partial" ELSE trace \in {"none", "old"}

OutputInv == OutputFollows /\ InputErrorsKeepTrace

\* What an action does to the output directory.
Quiet ==
  /\ at' \notin Begun \/ at \in Begun
  /\ at \notin Begun \/ at' \in Begun
  /\ UNCHANGED << status, trace, writer_failed >>

Refuses == /\ status = "running" /\ at \notin Begun
           /\ status' \in {"ok", "error"}
           /\ UNCHANGED << trace, writer_failed >>

----------------------------------------------------------------------------
\* The commands, before a recorder runs, refuse or go on without a trace.
LEMMA CommandsKeepOutput ==
  ASSUME \/ \E kind \in ElfKinds : ReadElf(kind)
         \/ \E override \in ElfKinds \cup {Nil} : ReadRegs(override)
         \/ \E locations \in Sequences(Locations), comp_dir \in {<< >>, Parent(Elf)} :
              Execute(locations, comp_dir)
         \/ \E locations \in Sequences(Locations) : RecordFromTraces(locations)
         \/ \E response \in Sequences(Indices) \cup {Nil}, program_so \in Programs :
              ReplayTransaction(response, program_so)
         \/ \E by \in {"snapshots", "cpi", "tracer"}, path \in Anchors,
               locations \in Sequences(Locations) : CallLibrary(by, path, locations)
  PROVE  Refuses \/ Quiet
<1>1. CASE \E kind \in ElfKinds : ReadElf(kind)
  BY <1>1 DEF ReadElf, At, Fail, PassThrough, Keep, Goto, Refuses, Quiet, Begun
<1>2. CASE \E override \in ElfKinds \cup {Nil} : ReadRegs(override)
  BY <1>2 DEF ReadRegs, At, Fail, Keep, Goto, Refuses, Quiet, Begun
<1>3. CASE \E locations \in Sequences(Locations), comp_dir \in {<< >>, Parent(Elf)} :
             Execute(locations, comp_dir)
  BY <1>3 DEF Execute, At, Fail, Keep, Record, Goto, Refuses, Quiet, Begun
<1>4. CASE \E locations \in Sequences(Locations) : RecordFromTraces(locations)
  BY <1>4 DEF RecordFromTraces, At, Fail, Keep, Record, Goto, Refuses, Quiet, Begun
<1>5. CASE \E response \in Sequences(Indices) \cup {Nil}, program_so \in Programs :
             ReplayTransaction(response, program_so)
  BY <1>5 DEF ReplayTransaction, At, Fail, PassThrough, Keep, Record, Goto, Refuses, Quiet, Begun
<1>6. CASE \E by \in {"snapshots", "cpi", "tracer"}, path \in Anchors,
              locations \in Sequences(Locations) : CallLibrary(by, path, locations)
  BY <1>6 DEF CallLibrary, At, Record, Goto, Refuses, Quiet, Begun
<1>7. QED BY <1>1, <1>2, <1>3, <1>4, <1>5, <1>6

\* Once the trace is begun, registering and walking leave it so.
LEMMA RecordersKeepOutput ==
  ASSUME \/ RegisterSnapshots \/ RegisterCpi \/ RegisterSource \/ RegisterTracer
         \/ WalkSnapshots \/ WalkCpi \/ WalkSource \/ WalkTracer
  PROVE  Quiet
<1>1. CASE RegisterSnapshots
  BY <1>1 DEF RegisterSnapshots, Registering, Start, At, Goto, Quiet, Begun
<1>2. CASE RegisterCpi
  BY <1>2 DEF RegisterCpi, Registering, Start, At, Goto, Quiet, Begun
<1>3. CASE RegisterSource
  BY <1>3 DEF RegisterSource, Registering, Start, At, Goto, Quiet, Begun
<1>4. CASE RegisterTracer
  BY <1>4 DEF RegisterTracer, Registering, Start, At, Goto, Quiet, Begun
<1>5. CASE WalkSnapshots \/ WalkCpi \/ WalkSource \/ WalkTracer
  BY <1>5 DEF WalkSnapshots, WalkCpi, WalkSource, WalkTracer, Take, At, Quiet, Begun
<1>6. QED BY <1>1, <1>2, <1>3, <1>4, <1>5

\* The four things a step can do to the output directory.
LEMMA StepKinds ==
  ASSUME [Next]_vars
  PROVE  Refuses \/ Quiet \/ Open \/ Finish
<1>1. CASE UNCHANGED vars
  BY <1>1 DEF vars, Quiet
<1>2. CASE Next
  BY <1>2, CommandsKeepOutput, RecordersKeepOutput DEF Next, Recorded
<1>3. QED BY <1>1, <1>2

LEMMA OutputInvInit == ASSUME Init PROVE OutputInv
  BY DEF Init, OutputInv, OutputFollows, InputErrorsKeepTrace, Begun

LEMMA OutputInvStep == ASSUME OutputInv, [Next]_vars PROVE OutputInv'
<1>1. CASE Refuses
  BY <1>1 DEF Refuses, OutputInv, OutputFollows, InputErrorsKeepTrace, Begun
<1>2. CASE Quiet
  BY <1>2 DEF Quiet, OutputInv, OutputFollows, InputErrorsKeepTrace, Begun
<1>3. CASE Open
  BY <1>3 DEF Open, WriterFails, At, OutputInv, OutputFollows, InputErrorsKeepTrace, Begun
<1>4. CASE Finish
  BY <1>4 DEF Finish, WriterFails, At, OutputInv, OutputFollows, InputErrorsKeepTrace, Begun
<1>5. QED BY <1>1, <1>2, <1>3, <1>4, StepKinds

\* Every step of a run is one of TraceOutput's or leaves the output alone.
LEMMA StepsRefine ==
  ASSUME OutputInv, [Next]_vars
  PROVE  [TO!Next]_(TO!out_vars)
<1>1. CASE Refuses
  BY <1>1 DEF Refuses, OutputInv, OutputFollows, TO!Next, TO!Skip, TO!Fail
<1>2. CASE Quiet
  BY <1>2 DEF Quiet, TO!out_vars
<1>3. CASE Open
  BY <1>3 DEF Open, WriterFails, At, TO!Next, TO!Begin, TO!Fail
<1>4. CASE Finish
  BY <1>4 DEF Finish, WriterFails, At, OutputInv, OutputFollows, Begun, TO!Next, TO!Complete, TO!Fail
<1>5. QED BY <1>1, <1>2, <1>3, <1>4, StepKinds

----------------------------------------------------------------------------
\* An error in the inputs is met before the old trace is given up.
THEOREM InputErrorsKeepTheTrace == Spec => []InputErrorsKeepTrace
<1>1. Init => OutputInv
  BY OutputInvInit
<1>2. OutputInv /\ [Next]_vars => OutputInv'
  BY OutputInvStep
<1>3. OutputInv => InputErrorsKeepTrace
  BY DEF OutputInv
<1>4. QED BY <1>1, <1>2, <1>3, PTL DEF Spec

\* The safety part of the refinement: every run of the recorder, seen through
\* the output directory and the status, is a run of TraceOutput.
THEOREM RecordingRefines == Spec => TO!Init /\ [][TO!Next]_(TO!out_vars)
<1>1. Init => TO!Init
  BY DEF Init, TO!Init
<1>2. Init => OutputInv
  BY OutputInvInit
<1>3. OutputInv /\ [Next]_vars => OutputInv'
  BY OutputInvStep
<1>4. OutputInv /\ [Next]_vars => [TO!Next]_(TO!out_vars)
  BY StepsRefine
<1>5. QED BY <1>1, <1>2, <1>3, <1>4, PTL DEF Spec

----------------------------------------------------------------------------
(***************************************************************************)
(* Paths.                                                                  *)
(***************************************************************************)
LEMMA JoinIsPath ==
  ASSUME NEW dir \in Path, NEW path \in Path
  PROVE  Join(dir, path) \in Path
BY ConcatProperties DEF Join, Path

LEMMA ParentIsPath ==
  ASSUME NEW path \in Path PROVE Parent(path) \in Path
<1>1. CASE Len(path) = 0
  <2>1. Parent(path) = << >>
    BY <1>1, SubSeqEmpty DEF Parent, Path
  <2> QED BY <2>1 DEF Path
<1>2. CASE Len(path) # 0
  <2>1. Len(path) \in Nat /\ path \in Seq(STRING)
    BY LenProperties DEF Path
  <2>2. \A i \in 1 .. Len(path) - 1 : path[i] \in STRING
    BY <2>1, ElementOfSeq
  <2> QED BY <1>2, <2>1, <2>2, SubSeqProperties DEF Parent, Path
<1> QED BY <1>1, <1>2

\* The nearest directory is an ancestor, at least the root.
LEMMA NearestIsAncestor ==
  ASSUME NEW path \in Path, NEW dirs, Nearest(path, dirs) # Nil
  PROVE  \E n \in 1 .. Len(path) : Nearest(path, dirs) = SubSeq(path, 1, n)
<1> DEFINE found == {n \in 1 .. Len(path) : SubSeq(path, 1, n) \in dirs}
<1>1. found # {} /\ Nearest(path, dirs) = SubSeq(path, 1, Max(found))
  BY DEF Nearest
<1>2. Len(path) \in Nat /\ \A n \in found : n \in 1 .. Len(path)
  BY LenProperties DEF Path
<1>3. Max(found) \in found
  <2> HIDE DEF found
  <2>1. \E n \in found : \A k \in found : k <= n
    <3>1. 1 \in Int /\ Len(path) \in Int /\ \A k \in found : k \in 1 .. Len(path)
      BY <1>2
    <3> QED BY ONLY <1>1, <3>1, GreatestMember, Zenon
  <2>2. \E n \in found : \A k \in found : n >= k
    BY <1>2, <2>1
  <2> QED BY <2>2 DEF Max
<1> QED BY <1>1, <1>2, <1>3

LEMMA AncestorIsPath ==
  ASSUME NEW path \in Path, NEW n \in 1 .. Len(path)
  PROVE  /\ SubSeq(path, 1, n) \in Path
         /\ IsAbsolute(path) => IsAbsolute(SubSeq(path, 1, n))
<1>1. path \in Seq(STRING) /\ Len(path) \in Nat
  BY LenProperties DEF Path
<1>2. \A i \in 1 .. n : path[i] \in STRING
  BY <1>1, ElementOfSeq
<1>3. /\ SubSeq(path, 1, n) \in Seq(STRING)
      /\ Len(SubSeq(path, 1, n)) = n
      /\ SubSeq(path, 1, n)[1] = path[1]
  BY <1>1, <1>2, SubSeqProperties
<1>4. SubSeq(path, 1, n) # << >>
  BY <1>1, <1>3, EmptySeq
<1> QED BY <1>3, <1>4 DEF IsAbsolute, Path

LEMMA NearestIsPath ==
  ASSUME NEW path \in Path, NEW dirs, Nearest(path, dirs) # Nil
  PROVE  Nearest(path, dirs) \in Path
BY NearestIsAncestor, AncestorIsPath

LEMMA CrateRootIsAbsolute ==
  ASSUME NEW source \in Path, UserCrateRoot(source) # Nil
  PROVE  UserCrateRoot(source) \in Path /\ IsAbsolute(UserCrateRoot(source))
<1>1. IsAbsolute(source) /\ UserCrateRoot(source) = Nearest(source, CrateDirs)
  BY DEF UserCrateRoot
<1>2. PICK n \in 1 .. Len(source) : UserCrateRoot(source) = SubSeq(source, 1, n)
  BY <1>1, NearestIsAncestor
<1> QED BY <1>1, <1>2, AncestorIsPath

\* What is joined to an absolute path is absolute, wherever the recorder runs.
LEMMA JoinIsAbsolute ==
  ASSUME NEW dir \in Path, NEW path \in Path, IsAbsolute(dir)
  PROVE  IsAbsolute(Join(dir, path))
<1>1. CASE IsAbsolute(path)
  BY <1>1 DEF Join
<1>2. CASE ~ IsAbsolute(path)
  <2>1. dir \in Seq(STRING) /\ path \in Seq(STRING) /\ dir # << >> /\ dir[1] = "/"
    BY DEF IsAbsolute, Path
  <2>2. Len(dir) \in Nat \ {0} /\ Len(path) \in Nat
    BY <2>1, EmptySeq, LenProperties
  <2>3. (dir \o path)[1] = "/" /\ Len(dir \o path) # 0
    BY <2>1, <2>2, ConcatProperties
  <2>4. dir \o path # << >>
    BY <2>3
  <2> QED BY <1>2, <2>3, <2>4 DEF Join, IsAbsolute
<1> QED BY <1>1, <1>2

LEMMA SameAsItself ==
  ASSUME NEW path \in Path PROVE SameLogicalSource(path, path)
<1>1. Reverse(path) \in Seq(STRING) /\ Len(Reverse(path)) \in Nat
  <2>1. path \in Seq(STRING) /\ Len(path) \in Nat
    BY LenProperties DEF Path
  <2>2. \A i \in 1 .. Len(path) : path[(Len(path) - i) + 1] \in STRING
    BY <2>1, ElementOfSeq
  <2>3. Reverse(path) \in [1 .. Len(path) -> STRING]
    BY <2>1, <2>2 DEF Reverse
  <2> QED BY <2>1, <2>3
<1>2. Len(Reverse(path)) <= Len(Reverse(path))
  BY <1>1
<1> QED BY <1>2 DEF SameLogicalSource, IsSuffix, IsPrefix

LEMMA ReadableIsOnDisk ==
  ASSUME NEW path PROVE Readable(path) \in Disk \cup {Nil}
BY DEF Readable, Exists

----------------------------------------------------------------------------
\* The source of a trace is a path.
LEMMA TraceSourceIsPath ==
  ASSUME NEW files \in Seq(Path) PROVE TraceSourcePath(files, Elf) \in Path
<1> DEFINE own == {i \in DOMAIN files : ~ IsThirdPartySource(files[i])}
           sibling == SiblingRsSource(Elf)
           chosen == IF own # {} THEN files[Min(own)]
                     ELSE IF sibling # Nil THEN sibling
                     ELSE IF files # << >> THEN files[1] ELSE Elf
<1>1. Elf \in Path
  BY InputsType
<1>2. DOMAIN files = 1 .. Len(files) /\ Len(files) \in Nat
  BY LenProperties
<1>3. ASSUME own # {} PROVE files[Min(own)] \in Path
  <2>1. own \in SUBSET Nat /\ own \subseteq DOMAIN files
    BY <1>2
  <2>2. \E i \in own : \A j \in own : i <= j
    <3> HIDE DEF own
    <3> QED BY <1>3, <2>1, LeastMember
  <2>3. Min(own) \in own
    <3> HIDE DEF own
    <3> QED BY <2>2 DEF Min
  <2>4. Min(own) \in 1 .. Len(files)
    <3> HIDE DEF own
    <3> QED BY <1>2, <2>1, <2>3
  <2> HIDE DEF own
  <2> QED BY <2>4, ElementOfSeq
<1>4. ASSUME sibling # Nil PROVE sibling \in Path
  <2> DEFINE src == Append(Parent(Parent(Parent(Elf))), "src")
             entries == {path \in Disk : Parent(path) = src /\ Last(path) \in RustFiles}
  <2>1. Cardinality(entries) = 1 /\ sibling = CHOOSE path \in entries : TRUE
    BY <1>4 DEF SiblingRsSource
  <2>2. entries # {}
    <3> HIDE DEF entries
    <3> SUFFICES ASSUME entries = {} PROVE FALSE
      OBVIOUS
    <3>1. Cardinality(entries) = 0
      BY FS_EmptySet
    <3> QED BY <2>1, <3>1
  <2>3. sibling \in entries
    <3> HIDE DEF entries, sibling
    <3> QED BY <2>1, <2>2
  <2> QED BY <2>3, PathsType
<1>5. files # << >> => files[1] \in Path
  <2>1. files # << >> => 1 \in 1 .. Len(files)
    BY <1>2, EmptySeq
  <2> QED BY <2>1, ElementOfSeq
<1>6. chosen \in Path
  <2> HIDE DEF own, sibling
  <2> QED BY <1>1, <1>3, <1>4, <1>5
<1>7. TraceSourcePath(files, Elf) = ResolveAgainstElfCrate(chosen, Elf)
  BY DEF TraceSourcePath
<1> HIDE DEF chosen
<1>8. ResolveAgainstElfCrate(chosen, Elf) \in Path
  BY <1>1, <1>6, NearestIsPath, JoinIsPath DEF ResolveAgainstElfCrate
<1> QED BY <1>7, <1>8

LEMMA ResolvedIsPath ==
  ASSUME NEW path \in Path, NEW comp_dir \in Path PROVE Resolved(path, comp_dir, Elf) \in Path
<1> DEFINE listed == {src \in DepInfo : IsSuffix(path, src)}
           crate == Nearest(Parent(Elf), {dir \in CrateDirs : Exists(Join(dir, path))})
<1>1. Parent(Elf) \in Path
  BY InputsType, ParentIsPath
<1>2. Cardinality(listed) = 1 => (CHOOSE src \in listed : TRUE) \in Path
  <2>1. listed \subseteq Path
    BY PathsType
  <2> HIDE DEF listed
  <2>2. Cardinality(listed) = 1 => listed # {}
    BY FS_EmptySet
  <2> QED BY <2>1, <2>2
<1>3. crate # Nil => Join(crate, path) \in Path
  <2>1. crate # Nil => crate \in Path
    BY <1>1, NearestIsPath
  <2> HIDE DEF crate
  <2> QED BY <2>1, JoinIsPath
<1>4. Join(comp_dir, path) \in Path
  BY JoinIsPath
<1> QED BY <1>2, <1>3, <1>4 DEF Resolved

\* The instructions of a response are a sequence of account indices.
LEMMA InstructionsAreSeq ==
  ASSUME NEW response \in Sequences(Indices)
  PROVE  Instructions(response) \in Seq(0 .. 255)
<1>1. PICK n \in Nat : response \in [1 .. n -> Indices]
  BY InputsType DEF Sequences
<1>2. response \in Seq(Indices) /\ Len(response) = n
  BY <1>1
<1>3. \A i \in 1 .. n : response[i] = Nil \/ response[i] % 256 \in 0 .. 255
  <2>1. \A i \in 1 .. n : response[i] = Nil \/ response[i] \in Nat
    BY <1>1, InputsType
  <2>2. \A k \in Nat : k % 256 \in 0 .. 255
    OBVIOUS
  <2> QED BY <2>1, <2>2
<1> DEFINE Parse(i, s) == IF response[i] = Nil THEN s ELSE Append(s, response[i] % 256)
           Parses(f) == f = [i \in 0 .. n |-> IF i = 0 THEN << >> ELSE Parse(i, f[i - 1])]
<1>4. PICK S : S = Seq(0 .. 255)
  OBVIOUS
<1>5. \A i \in 1 .. n, s \in S : Parse(i, s) \in S
  BY <1>3, <1>4, AppendProperties
<1>6. << >> \in S
  BY <1>4, EmptySeq
<1> DEFINE parse == [p \in (1 .. n) \X S |-> Parse(p[1], p[2])]
<1>7. parse \in [(1 .. n) \X S -> S] /\ \A i \in 1 .. n, s \in S : parse[<< i, s >>] = Parse(i, s)
  <2> HIDE DEF Parse
  <2> QED BY <1>5
<1>8. \E f : Parses(f)
  <2> HIDE DEF parse, Parse
  <2>1. PICK f \in [0 .. n -> S] :
          f[0] = << >> /\ \A i \in 1 .. n : f[i] = parse[<< i, f[i - 1] >>]
    <3>1. PICK f \in [0 .. n -> S] : Iterates(f, n, << >>, parse)
      BY <1>6, <1>7, Recursion
    <3> QED BY <3>1 DEF Iterates
  <2>2. \A i \in 1 .. n : parse[<< i, f[i - 1] >>] = Parse(i, f[i - 1])
    <3>1. \A i \in 1 .. n : i - 1 \in 0 .. n
      OBVIOUS
    <3> QED BY <1>7, <3>1
  <2>3. f = [i \in 0 .. n |-> f[i]]
    BY <2>1
  <2>4. \A i \in 0 .. n : f[i] = IF i = 0 THEN << >> ELSE Parse(i, f[i - 1])
    <3>1. \A i \in 0 .. n : i = 0 \/ i \in 1 .. n
      OBVIOUS
    <3> QED BY <2>1, <2>2, <3>1
  <2>5. Parses(f)
    BY <2>3, <2>4
  <2> HIDE DEF Parses
  <2> QED BY <2>5
<1> DEFINE g == CHOOSE h : Parses(h)
<1>9. Parses(g)
  <2> HIDE DEF Parses
  <2> QED BY <1>8
<1>10. Instructions(response) = g[n]
  BY <1>2 DEF Instructions
<1>11. \A i \in 0 .. n : g[i] = IF i = 0 THEN << >> ELSE Parse(i, g[i - 1])
  <2> HIDE DEF g, Parse
  <2> QED BY <1>9
<1> DEFINE Typed == {i \in 0 .. n : g[i] \in S}
<1> HIDE DEF g, Parse
<1>12. 0 \in Typed /\ \A i \in 1 .. n : i - 1 \in Typed => i \in Typed
  BY <1>5, <1>6, <1>11
<1>13. n \in Typed
  <2> HIDE DEF Typed
  <2>1. \A i \in 0 .. n : i \in Typed
    BY <1>12, Induction
  <2> QED BY <2>1
<1> QED BY <1>4, <1>10, <1>13
----------------------------------------------------------------------------
(***************************************************************************)
(* The registration of source files.  Until `start` the recorder's account *)
(* and the writer's have the same paths; `start` can add the anchor to the *)
(* writer's only, which the two recorders that register files later have   *)
(* registered by then.                                                     *)
(***************************************************************************)
Fields(r) == r = [canonical |-> r.canonical, tabled |-> r.tabled, tables |-> r.tables]

\* Two accounts of one registration: the recorder's paths are among the
\* writer's, with the same table, and the writer has at most the source more.
Agree(r, source) ==
  /\ Fields(r)
  /\ \A file \in DOMAIN r.canonical :
       /\ r.canonical[file] = CanonicalStepPath(source, UserCrateRoot(source), file)
       /\ r.canonical[file] \in DOMAIN r.tabled
  /\ DOMAIN r.tabled \subseteq DOMAIN r.tables
  /\ \A path \in DOMAIN r.tabled : r.tables[path] = r.tabled[path]
  /\ DOMAIN r.tables \subseteq DOMAIN r.tabled \cup {source}
  /\ \A path \in DOMAIN r.tables : r.tables[path] \in Disk \cup {Nil}

SamePaths(r) == DOMAIN r.tables = DOMAIN r.tabled

LEMMA RegisteredFields ==
  ASSUME NEW r, Fields(r), NEW path, NEW lines
  PROVE  Registered(r, path, lines) =
           [canonical |-> r.canonical, tabled |-> r.tabled,
            tables |-> Extended(r.tables, path, lines)]
<1>1. PICK canonical, tabled, tables :
        r = [canonical |-> canonical, tabled |-> tabled, tables |-> tables]
  BY DEF Fields
<1> QED BY <1>1 DEF Registered

LEMMA MentionedAgrees ==
  ASSUME NEW r, NEW source, Agree(r, source) PROVE Agree(Mentioned(r, source), source)
<1> DEFINE m == Mentioned(r, source)
<1>1. m = [canonical |-> r.canonical, tabled |-> r.tabled,
           tables |-> Extended(r.tables, source, Nil)]
  BY RegisteredFields DEF Agree, Mentioned
<1>2. /\ m.canonical = r.canonical
      /\ m.tabled = r.tabled
      /\ m.tables = Extended(r.tables, source, Nil)
  BY <1>1
<1>3. Fields(m)
  BY <1>1, <1>2, Zenon DEF Fields
<1> HIDE DEF m
<1>4. DOMAIN m.tables = DOMAIN r.tables \cup {source}
  BY <1>2 DEF Extended
<1>5. \A path \in DOMAIN r.tables : m.tables[path] = r.tables[path]
  BY <1>2 DEF Extended
<1>6. source \notin DOMAIN r.tables => m.tables[source] = Nil
  BY <1>2 DEF Extended
<1>7. Agree(m, source)
  BY <1>2, <1>3, <1>4, <1>5, <1>6 DEF Agree
<1> QED BY <1>7 DEF m

LEMMA OwnSpellingAgrees ==
  ASSUME NEW r, NEW source, Agree(r, source), SamePaths(r), NEW file
  PROVE  /\ Agree(OwnSpelling(r, file), source)
         /\ SamePaths(OwnSpelling(r, file))
         /\ DOMAIN OwnSpelling(r, file).tabled = DOMAIN r.tabled \cup {file}
<1> DEFINE o == OwnSpelling(r, file)
           lines == Readable(file)
<1>1. o = [canonical |-> r.canonical, tabled |-> Extended(r.tabled, file, lines),
           tables |-> Extended(r.tables, file, lines)]
  <2> HIDE DEF lines
  <2>1. Registered(r, file, lines) =
          [canonical |-> r.canonical, tabled |-> r.tabled,
           tables |-> Extended(r.tables, file, lines)]
    BY RegisteredFields DEF Agree
  <2> QED BY <2>1 DEF OwnSpelling, lines
<1>2. /\ o.canonical = r.canonical
      /\ o.tabled = Extended(r.tabled, file, lines)
      /\ o.tables = Extended(r.tables, file, lines)
  BY <1>1
<1>3. Fields(o)
  BY <1>1, <1>2, Zenon DEF Fields
<1>4. lines \in Disk \cup {Nil}
  BY ReadableIsOnDisk
<1> HIDE DEF o, lines
<1>5. /\ DOMAIN o.tables = DOMAIN r.tables \cup {file}
      /\ DOMAIN o.tabled = DOMAIN r.tabled \cup {file}
  BY <1>2 DEF Extended
<1>6. \A path \in DOMAIN r.tables : /\ o.tables[path] = r.tables[path]
                                    /\ o.tabled[path] = r.tabled[path]
  BY <1>2 DEF Extended, SamePaths
<1>7. file \notin DOMAIN r.tables => o.tables[file] = lines /\ o.tabled[file] = lines
  BY <1>2 DEF Extended, SamePaths
<1>8. SamePaths(o)
  BY <1>5 DEF SamePaths
<1>9. Agree(o, source)
  BY <1>2, <1>3, <1>4, <1>5, <1>6, <1>7, <1>8 DEF Agree, SamePaths
<1> QED BY <1>5, <1>8, <1>9 DEF o

LEMMA EnsuredAgrees ==
  ASSUME NEW r, NEW source, Agree(r, source), SamePaths(r), NEW file
  PROVE  LET e == Ensured(r, source, file)
         IN  /\ Agree(e, source)
             /\ SamePaths(e)
             /\ DOMAIN r.tabled \subseteq DOMAIN e.tabled
             /\ file \in DOMAIN e.canonical
<1> DEFINE path == CanonicalStepPath(source, UserCrateRoot(source), file)
           lines == IF Exists(path) THEN Readable(path) ELSE Readable(Join(Parent(source), file))
           e == Ensured(r, source, file)
<1>1. CASE file \in DOMAIN r.canonical
  <2>1. e = r
    BY <1>1 DEF Ensured
  <2> HIDE DEF e
  <2>2. Agree(e, source) /\ SamePaths(e) /\ DOMAIN r.tabled \subseteq DOMAIN e.tabled
    BY <2>1
  <2> QED BY <1>1, <2>1, <2>2 DEF e
<1>2. CASE file \notin DOMAIN r.canonical
  <2>1. lines \in Disk \cup {Nil}
    BY ReadableIsOnDisk
  <2> DEFINE registered_ == IF path \in DOMAIN r.tabled THEN r ELSE Registered(r, path, lines)
  <2>2. e = [registered_ EXCEPT !.canonical = Extended(@, file, path),
                                !.tabled = Extended(@, path, lines)]
    BY <1>2 DEF Ensured
  <2>3. PICK tables : /\ registered_ = [canonical |-> r.canonical, tabled |-> r.tabled,
                                        tables |-> tables]
                      /\ tables = IF path \in DOMAIN r.tabled THEN r.tables
                                  ELSE Extended(r.tables, path, lines)
    <3> HIDE DEF path, lines
    <3>1. CASE path \in DOMAIN r.tabled
      BY <3>1 DEF Agree, Fields
    <3>2. CASE path \notin DOMAIN r.tabled
      BY <3>2, RegisteredFields DEF Agree
    <3> QED BY <3>1, <3>2
  <2> HIDE DEF path, lines, registered_, e
  <2>4. e = [canonical |-> Extended(r.canonical, file, path),
             tabled |-> Extended(r.tabled, path, lines), tables |-> tables]
    BY <2>2, <2>3
  <2>5. /\ e.canonical = Extended(r.canonical, file, path)
        /\ e.tabled = Extended(r.tabled, path, lines)
        /\ e.tables = tables
    BY <2>4
  <2>6. Fields(e)
    BY <2>4, <2>5, Zenon DEF Fields
  <2>7. /\ DOMAIN e.canonical = DOMAIN r.canonical \cup {file}
        /\ DOMAIN e.tabled = DOMAIN r.tabled \cup {path}
        /\ DOMAIN e.tables = DOMAIN r.tables \cup {path}
    BY <2>3, <2>5 DEF Extended, SamePaths
  <2>8. /\ e.canonical[file] = path
        /\ \A f \in DOMAIN r.canonical : e.canonical[f] = r.canonical[f]
    BY <1>2, <2>5 DEF Extended
  <2>9. \A p \in DOMAIN r.tabled : e.tabled[p] = r.tabled[p] /\ e.tables[p] = r.tables[p]
    BY <2>3, <2>5 DEF Extended, SamePaths
  <2>10. path \notin DOMAIN r.tabled => e.tabled[path] = lines /\ e.tables[path] = lines
    BY <2>3, <2>5 DEF Extended, SamePaths
  <2>11. SamePaths(e)
    BY <2>7 DEF SamePaths
  <2>12. Agree(e, source)
    <3>1. \A f \in DOMAIN e.canonical :
            /\ e.canonical[f] = CanonicalStepPath(source, UserCrateRoot(source), f)
            /\ e.canonical[f] \in DOMAIN e.tabled
      BY <2>7, <2>8 DEF Agree, path
    <3>2. \A p \in DOMAIN e.tabled : /\ e.tables[p] = e.tabled[p]
                                     /\ e.tables[p] \in Disk \cup {Nil}
      BY <2>1, <2>7, <2>9, <2>10 DEF Agree
    <3> QED BY <2>6, <2>11, <3>1, <3>2 DEF Agree, SamePaths
  <2> QED BY <2>7, <2>11, <2>12 DEF e
<1> QED BY <1>1, <1>2

\* A file the snapshot recorder steps on, with the user's crate known, is the
\* source or can be opened by the path it is recorded under.
LEMMA StepPathIsOpenable ==
  ASSUME NEW source \in Path, UserCrateRoot(source) # Nil, NEW file \in Path,
         ~ IsThirdPartyForUser(source, UserCrateRoot(source), file)
  PROVE  CanonicalStepPath(source, UserCrateRoot(source), file) \in Disk \cup {source}
<1> DEFINE root == UserCrateRoot(source)
<1>1. CASE SameLogicalSource(source, file)
  BY <1>1 DEF CanonicalStepPath
<1>2. CASE ~ SameLogicalSource(source, file)
  <2>1. root \in Path /\ IsAbsolute(root)
    BY CrateRootIsAbsolute
  <2>2. Exists(Join(root, file))
    BY <1>2 DEF IsThirdPartyForUser
  <2>3. CanonicalStepPath(source, root, file) = Join(root, file)
    BY <1>2, <2>2 DEF CanonicalStepPath
  <2> HIDE DEF root
  <2>4. IsAbsolute(Join(root, file))
    BY <2>1, JoinIsAbsolute
  <2>5. Join(Cwd, Join(root, file)) = Join(root, file)
    BY <2>4, Zenon DEF Join
  <2>6. Join(root, file) \in Disk
    BY <2>2, <2>5 DEF Exists
  <2> QED BY <2>3, <2>6 DEF root
<1> QED BY <1>1, <1>2

----------------------------------------------------------------------------
(***************************************************************************)
(* The invariant of a run: what `at` tells of the registration, and what   *)
(* has been registered by then.                                            *)
(***************************************************************************)
Commands == {"elf", "regs", "execute", "traces", "fetch", "library"}

Recorders == {"snapshots", "cpi", "source", "tracer"}

\* How many files are registered before `start`.
ToRegister ==
  IF recorder = "cpi" THEN 1 ELSE IF recorder = "source" THEN Len(located) ELSE Len(located) + 1

RunTypes ==
  /\ at \in Commands \cup {"open", "register", "walk"}
  /\ options \in [disabled : BOOLEAN, regs : RegsKinds \cup {Nil}]
  /\ elf \in (ElfKinds \ {"missing"}) \cup {Nil}
  /\ recorder \in Recorders \cup {Nil}
  /\ located \in Seq(Location)
  /\ recorder # Nil => anchor \in Path
  /\ registered \in 0 .. Len(located) + 1
  /\ walked \in 0 .. Len(located)
  /\ trace \in {"none", "old", "partial", "new"}
  /\ status \in {"running", "ok", "error"}
  /\ writer_failed \in BOOLEAN

FilesRegistered ==
  /\ recorder \in {"snapshots", "cpi"} /\ registered > 0 => anchor \in DOMAIN reg.tabled
  /\ recorder = "source" => \A i \in 1 .. registered : located[i].file \in DOMAIN reg.tabled
  /\ recorder = "tracer" => \A i \in 1 .. registered : AllFiles[i] \in DOMAIN reg.tabled

RegistrationFollows ==
  /\ at \notin Begun => reg = NoPaths /\ registered = 0
  /\ at # "walk" => SamePaths(reg) /\ walked = 0 /\ step = Nil
  /\ at \in Begun \cup {"open"} => recorder # Nil
  /\ at = "walk" => registered = ToRegister
  /\ FilesRegistered

StepNamed == step # Nil => step.path \in DOMAIN reg.tables

RegistrationInv ==
  /\ RunTypes
  /\ Agree(reg, anchor)
  /\ RegistrationFollows
  /\ StepNamed
  /\ ColumnsSurvive
  /\ StepsOpenable

LEMMA NoPathsAgree == ASSUME NEW source PROVE Agree(NoPaths, source) /\ SamePaths(NoPaths)
<1>1. Fields(NoPaths)
  BY Zenon DEF NoPaths, Fields
<1>2. NoPaths.canonical = << >> /\ NoPaths.tabled = << >> /\ NoPaths.tables = << >>
  BY DEF NoPaths
<1>3. DOMAIN NoPaths.canonical = {} /\ DOMAIN NoPaths.tabled = {} /\ DOMAIN NoPaths.tables = {}
  BY <1>2
<1> QED BY <1>1, <1>3 DEF Agree, SamePaths

LEMMA RegistrationTypes == ASSUME RegistrationInv PROVE TypeOK
<1>1. Range(reg.canonical) \subseteq DOMAIN reg.tabled
  BY DEF RegistrationInv, Agree, Range
<1>2. DOMAIN reg.tabled \subseteq DOMAIN reg.tables
  BY DEF RegistrationInv, Agree
<1>3. Range(reg.tables) \cup Range(reg.tabled) \subseteq Disk \cup {Nil}
  BY DEF RegistrationInv, Agree, Range
<1> QED BY <1>1, <1>2, <1>3 DEF RegistrationInv, RunTypes, StepNamed, TypeOK, Commands, Recorders

LEMMA RegistrationInit == ASSUME Init PROVE RegistrationInv
<1>1. at \in {"elf", "fetch", "library"} /\ status = "running" /\ writer_failed = FALSE
  BY DEF Init
<1>2. options \in [disabled : BOOLEAN, regs : RegsKinds \cup {Nil}]
  BY DEF Init
<1>3. located \in Seq(Location) /\ Len(located) = 0 /\ located = << >>
  BY DEF Init
<1>4. elf = Nil /\ recorder = Nil /\ reg = NoPaths /\ registered = 0 /\ walked = 0 /\ step = Nil
  BY DEF Init
<1>5. trace \in {"none", "old"}
  BY DEF Init
<1>6. RunTypes
  <2>1. at \in Commands \cup {"open", "register", "walk"}
    BY <1>1 DEF Commands
  <2>2. registered \in 0 .. Len(located) + 1 /\ walked \in 0 .. Len(located)
    BY <1>3, <1>4
  <2> QED BY <1>1, <1>2, <1>3, <1>4, <1>5, <2>1, <2>2, Zenon DEF RunTypes
<1>7. Agree(reg, anchor) /\ SamePaths(reg)
  BY <1>4, NoPathsAgree
<1>8. RegistrationFollows
  BY <1>1, <1>4, <1>7 DEF RegistrationFollows, FilesRegistered, Begun
<1> QED BY <1>4, <1>6, <1>7, <1>8 DEF RegistrationInv, StepNamed, ColumnsSurvive, StepsOpenable

----------------------------------------------------------------------------
\* What a command's step does: it goes on, ends the run, or starts a recorder.
Commanded ==
  /\ at \in Commands /\ status = "running"
  /\ status' \in {"running", "ok", "error"}
  /\ UNCHANGED << options, record_vars, trace, writer_failed >>
  /\ elf' \in (ElfKinds \ {"missing"}) \cup {Nil}
  /\ \/ at' \in Commands /\ UNCHANGED << recorder, anchor, located >>
     \/ /\ at' = "open"
        /\ recorder' \in Recorders
        /\ anchor' \in Path
        /\ located' \in Seq(Location)

LEMMA LocationsAreTyped ==
  ASSUME NEW locations \in Sequences(Locations)
  PROVE  locations \in Seq(Location) /\ Files(locations) \in Seq(Path)
<1>1. PICK n \in Nat : locations \in [1 .. n -> Locations]
  BY InputsType DEF Sequences
<1>2. locations \in [1 .. n -> Location]
  BY <1>1, InputsType
<1>3. locations \in Seq(Location)
  BY <1>2
<1>4. Files(locations) \in [1 .. n -> Path]
  <2>1. \A i \in 1 .. n : locations[i].file \in Path
    BY <1>2 DEF Location
  <2> HIDE DEF Path
  <2> QED BY <1>1, <2>1 DEF Files
<1>5. Files(locations) \in Seq(Path)
  <2> HIDE DEF Path
  <2> QED BY <1>4
<1> QED BY <1>3, <1>5

LEMMA RecordCommands ==
  ASSUME NEW by \in Recorders, NEW path \in Path, NEW locations \in Seq(Location),
         at \in Commands, status = "running", elf \in (ElfKinds \ {"missing"}) \cup {Nil},
         Record(by, path, locations)
  PROVE  Commanded
BY DEF Record, Goto, Commanded

LEMMA ReadElfCommands ==
  ASSUME RegistrationInv, NEW kind \in ElfKinds, ReadElf(kind) PROVE Commanded
BY DEF RegistrationInv, RunTypes, ReadElf, At, Fail, PassThrough, Keep, Goto, Commanded,
       Commands, input_vars, record_vars

LEMMA ReadRegsCommands ==
  ASSUME RegistrationInv, NEW override \in ElfKinds \cup {Nil}, ReadRegs(override)
  PROVE  Commanded
BY DEF RegistrationInv, RunTypes, ReadRegs, At, Fail, Keep, Goto, Commanded, Commands,
       input_vars, record_vars

LEMMA ExecuteCommands ==
  ASSUME RegistrationInv, NEW locations \in Sequences(Locations),
         NEW comp_dir \in {<< >>, Parent(Elf)}, Execute(locations, comp_dir)
  PROVE  Commanded
<1> DEFINE resolved == [i \in DOMAIN locations |->
                          [locations[i] EXCEPT !.file = Resolved(@, comp_dir, Elf)]]
<1>1. at \in Commands /\ at = "execute" /\ status = "running"
  BY DEF Execute, At, Commands
<1>2. elf \in (ElfKinds \ {"missing"}) \cup {Nil}
  BY DEF RegistrationInv, RunTypes
<1>3. Elf \in Path /\ comp_dir \in Path
  <2>1. << >> \in Path
    BY DEF Path
  <2> QED BY <2>1, InputsType, ParentIsPath
<1>4. resolved \in Seq(Location)
  <2>1. PICK n \in Nat : locations \in [1 .. n -> Location]
    BY InputsType DEF Sequences
  <2>2. \A i \in 1 .. n : [locations[i] EXCEPT !.file = Resolved(@, comp_dir, Elf)] \in Location
    <3>1. \A i \in 1 .. n : Resolved(locations[i].file, comp_dir, Elf) \in Path
      BY <1>3, <2>1, ResolvedIsPath DEF Location
    <3> QED BY <2>1, <3>1 DEF Location
  <2>3. resolved \in [1 .. n -> Location]
    BY <2>1, <2>2
  <2> HIDE DEF resolved
  <2> QED BY <2>3
<1>5. (IF resolved = << >> THEN Elf ELSE resolved[1].file) \in Path
  <2> HIDE DEF resolved
  <2>1. resolved # << >> => 1 \in 1 .. Len(resolved)
    BY <1>4, EmptySeq, LenProperties
  <2>2. resolved # << >> => resolved[1] \in Location
    BY <1>4, <2>1, ElementOfSeq
  <2> QED BY <1>3, <2>2 DEF Location
<1>6. "source" \in Recorders
  BY DEF Recorders
<1>7. \/ Fail
      \/ Record("source", IF resolved = << >> THEN Elf ELSE resolved[1].file, resolved)
      \/ Goto("traces") /\ UNCHANGED << elf, recorder, anchor, located, record_vars >>
  BY DEF Execute
<1> HIDE DEF resolved
<1>8. CASE Fail
  BY <1>1, <1>2, <1>8 DEF Fail, Keep, Commanded, input_vars, record_vars
<1>9. CASE Record("source", IF resolved = << >> THEN Elf ELSE resolved[1].file, resolved)
  BY <1>1, <1>2, <1>4, <1>5, <1>6, <1>9, RecordCommands
<1>10. CASE Goto("traces") /\ UNCHANGED << elf, recorder, anchor, located, record_vars >>
  BY <1>1, <1>2, <1>10 DEF Goto, Commanded, Commands
<1> QED BY <1>7, <1>8, <1>9, <1>10

LEMMA RecordFromTracesCommands ==
  ASSUME RegistrationInv, NEW locations \in Sequences(Locations), RecordFromTraces(locations)
  PROVE  Commanded
<1>1. at \in Commands /\ status = "running" /\ elf \in (ElfKinds \ {"missing"}) \cup {Nil}
  BY DEF RegistrationInv, RunTypes, RecordFromTraces, At, Commands
<1>2. locations \in Seq(Location) /\ TraceSourcePath(Files(locations), Elf) \in Path
  BY LocationsAreTyped, TraceSourceIsPath
<1>3. "snapshots" \in Recorders
  BY DEF Recorders
<1>4. CASE Fail
  BY <1>1, <1>4 DEF Fail, Keep, Commanded, input_vars, record_vars
<1>5. CASE Record("snapshots", TraceSourcePath(Files(locations), Elf), locations)
  BY <1>1, <1>2, <1>3, <1>5, RecordCommands
<1> QED BY <1>4, <1>5 DEF RecordFromTraces

LEMMA PlaceholdersAreTyped ==
  ASSUME NEW instructions \in Seq(0 .. 255)
  PROVE  [i \in DOMAIN instructions |-> Placeholder(instructions[i])] \in Seq(Location)
<1>1. PICK n \in Nat : instructions \in [1 .. n -> 0 .. 255]
  BY LenProperties
<1>2. \A index \in 0 .. 255 : Placeholder(index) \in Location
  <2>1. \A index \in 0 .. 255 : index + 1 \in DOMAIN AccountFile => AccountFile[index + 1] \in Path
    BY InputsType
  <2> QED BY <2>1, InputsType DEF Placeholder, Location, Columns
<1>3. [i \in DOMAIN instructions |-> Placeholder(instructions[i])] \in [1 .. n -> Location]
  BY <1>1, <1>2
<1> QED BY <1>3

LEMMA ReplayCommands ==
  ASSUME RegistrationInv, NEW response \in Sequences(Indices) \cup {Nil},
         NEW program_so \in Programs, ReplayTransaction(response, program_so)
  PROVE  Commanded
<1> DEFINE instructions == Instructions(response)
           placeholders == [i \in DOMAIN instructions |-> Placeholder(instructions[i])]
<1>1. at \in Commands /\ status = "running" /\ elf \in (ElfKinds \ {"missing"}) \cup {Nil}
  BY DEF RegistrationInv, RunTypes, ReplayTransaction, At, Commands
<1>2. \/ PassThrough
      \/ Fail
      \/ /\ response # Nil /\ program_so # Nil
         /\ Record("snapshots", program_so, placeholders)
  BY DEF ReplayTransaction
<1>3. CASE PassThrough \/ Fail
  BY <1>1, <1>3 DEF PassThrough, Fail, Keep, Commanded, input_vars, record_vars
<1>4. CASE /\ response # Nil /\ program_so # Nil
           /\ Record("snapshots", program_so, placeholders)
  <2>1. instructions \in Seq(0 .. 255)
    BY <1>4, InstructionsAreSeq
  <2>2. placeholders \in Seq(Location)
    <3> HIDE DEF instructions
    <3> QED BY <2>1, PlaceholdersAreTyped
  <2>3. program_so \in Path /\ "snapshots" \in Recorders
    BY <1>4, InputsType DEF Recorders
  <2> HIDE DEF placeholders
  <2> QED BY <1>1, <1>4, <2>2, <2>3, RecordCommands
<1> QED BY <1>2, <1>3, <1>4

LEMMA CallLibraryCommands ==
  ASSUME RegistrationInv, NEW by \in {"snapshots", "cpi", "tracer"}, NEW path \in Anchors,
         NEW locations \in Sequences(Locations), CallLibrary(by, path, locations)
  PROVE  Commanded
<1>1. at \in Commands /\ status = "running" /\ elf \in (ElfKinds \ {"missing"}) \cup {Nil}
  BY DEF RegistrationInv, RunTypes, CallLibrary, At, Commands
<1>2. path \in Path /\ by \in Recorders /\ locations \in Seq(Location)
  BY InputsType, LocationsAreTyped DEF Recorders
<1> QED BY <1>1, <1>2, RecordCommands DEF CallLibrary

\* No file is registered while the commands run.
LEMMA CommandedKeeps == ASSUME RegistrationInv, Commanded PROVE RegistrationInv'
<1>1. at \notin Begun /\ at # "walk" /\ at' \notin Begun /\ at' # "walk"
  BY DEF Commanded, Commands, Begun
<1>2. reg' = NoPaths /\ registered' = 0 /\ walked' = 0 /\ step' = Nil
  BY <1>1 DEF Commanded, record_vars, RegistrationInv, RegistrationFollows
<1>3. Agree(reg', anchor') /\ SamePaths(reg')
  BY <1>2, NoPathsAgree
<1>4. RunTypes'
  <2>1. located' \in Seq(Location) /\ Len(located') \in Nat
    BY LenProperties DEF Commanded, RegistrationInv, RunTypes
  <2> QED BY <1>2, <2>1 DEF Commanded, Commands, RegistrationInv, RunTypes, Recorders
<1>5. RegistrationFollows'
  <2>1. at' = "open" => recorder' # Nil
    <3>1. CASE at' \in Commands
      BY <3>1 DEF Commands
    <3>2. CASE recorder' \in Recorders
      BY <3>2, InputsType DEF Recorders
    <3> QED BY <3>1, <3>2 DEF Commanded
  <2> QED BY <1>1, <1>2, <1>3, <2>1 DEF RegistrationFollows, FilesRegistered, Begun
<1> QED BY <1>2, <1>3, <1>4, <1>5 DEF RegistrationInv, StepNamed, ColumnsSurvive, StepsOpenable

----------------------------------------------------------------------------
(***************************************************************************)
(* The recorders.                                                          *)
(***************************************************************************)
LEMMA AllFilesInOrder ==
  ASSUME anchor \in Path, located \in Seq(Location)
  PROVE  /\ Len(located) \in Nat
         /\ Len(AllFiles) = Len(located) + 1
         /\ AllFiles[1] = anchor
         /\ \A i \in 1 .. Len(located) : AllFiles[i + 1] = located[i].file
<1>1. Len(located) \in Nat /\ DOMAIN located = 1 .. Len(located)
  BY LenProperties
<1>2. \A i \in 1 .. Len(located) : located[i].file \in Path
  <2>1. \A i \in 1 .. Len(located) : located[i] \in Location
    BY <1>1, ElementOfSeq
  <2> QED BY <2>1 DEF Location
<1>3. Files(located) \in [1 .. Len(located) -> Path]
  <2> HIDE DEF Path
  <2> QED BY <1>1, <1>2 DEF Files
<1>4. Files(located) \in Seq(Path) /\ Len(Files(located)) = Len(located)
  <2> HIDE DEF Path
  <2> QED BY <1>1, <1>3
<1>5. << anchor >> \in Seq(Path) /\ Len(<< anchor >>) = 1 /\ << anchor >>[1] = anchor
  OBVIOUS
<1>6. /\ Len(AllFiles) = 1 + Len(located)
      /\ \A i \in 1 .. 1 + Len(located) :
           AllFiles[i] = IF i <= 1 THEN << anchor >>[i] ELSE Files(located)[i - 1]
  <2> HIDE DEF Path
  <2> QED BY <1>4, <1>5, ConcatProperties DEF AllFiles
<1>7. \A i \in 1 .. Len(located) : Files(located)[i] = located[i].file
  BY <1>1 DEF Files
<1> HIDE DEF Path
<1>8. AllFiles[1] = anchor
  BY <1>1, <1>5, <1>6
<1>9. ASSUME NEW i \in 1 .. Len(located) PROVE AllFiles[i + 1] = located[i].file
  <2>1. i + 1 \in 1 .. 1 + Len(located) /\ ~ (i + 1 <= 1) /\ (i + 1) - 1 = i
    BY <1>1
  <2>2. AllFiles[i + 1] = Files(located)[(i + 1) - 1]
    BY <1>6, <2>1
  <2> QED BY <1>7, <2>1, <2>2
<1> QED BY <1>1, <1>6, <1>8, <1>9

\* The facts a recorder can rely on.
LEMMA RecorderRuns ==
  ASSUME RegistrationInv, at \in Begun
  PROVE  /\ recorder \in Recorders
         /\ anchor \in Path
         /\ located \in Seq(Location)
         /\ Len(located) \in Nat
         /\ registered \in 0 .. Len(located) + 1
         /\ walked \in 0 .. Len(located)
BY LenProperties DEF RegistrationInv, RegistrationFollows, RunTypes, Begun

LEMMA OpenKeeps == ASSUME RegistrationInv, Open PROVE RegistrationInv'
<1>1. UNCHANGED << input_vars, record_vars >> /\ at = "open"
      /\ at' \in {"open", "register"} /\ trace' \in {trace, "partial"}
      /\ status' \in {"running", "error"} /\ writer_failed' \in BOOLEAN
  BY DEF Open, At, WriterFails, RegistrationInv, RunTypes
<1>2. RunTypes'
  BY <1>1 DEF RegistrationInv, RunTypes, input_vars, record_vars
<1>3. RegistrationFollows'
  BY <1>1 DEF RegistrationInv, RegistrationFollows, FilesRegistered, Begun, SamePaths,
              input_vars, record_vars, AllFiles
<1> QED BY <1>1, <1>2, <1>3 DEF RegistrationInv, StepNamed, ColumnsSurvive, StepsOpenable,
                                input_vars, record_vars

LEMMA FinishKeeps == ASSUME RegistrationInv, Finish PROVE RegistrationInv'
<1>1. UNCHANGED << at, input_vars, record_vars >> /\ trace' \in {trace, "new"}
      /\ status' \in {"ok", "error"} /\ writer_failed' \in BOOLEAN
  BY DEF Finish, At, WriterFails, RegistrationInv, RunTypes
<1>2. RunTypes'
  BY <1>1 DEF RegistrationInv, RunTypes, input_vars, record_vars
<1>3. RegistrationFollows'
  BY <1>1 DEF RegistrationInv, RegistrationFollows, FilesRegistered, Begun, SamePaths,
              input_vars, record_vars, AllFiles, ToRegister
<1> QED BY <1>1, <1>2, <1>3 DEF RegistrationInv, StepNamed, ColumnsSurvive, StepsOpenable,
                                input_vars, record_vars

LEMMA StutterKeeps == ASSUME RegistrationInv, UNCHANGED vars PROVE RegistrationInv'
<1>1. UNCHANGED << at, input_vars, record_vars, trace, status, writer_failed >>
  BY DEF vars
<1>2. RunTypes'
  BY <1>1 DEF RegistrationInv, RunTypes, input_vars, record_vars
<1>3. RegistrationFollows'
  BY <1>1 DEF RegistrationInv, RegistrationFollows, FilesRegistered, Begun, SamePaths,
              input_vars, record_vars, AllFiles, ToRegister
<1> QED BY <1>1, <1>2, <1>3 DEF RegistrationInv, StepNamed, ColumnsSurvive, StepsOpenable,
                                input_vars, record_vars

----------------------------------------------------------------------------
\* Registering one file more.
LEMMA RegisteringKeeps ==
  ASSUME RegistrationInv, NEW by, NEW files, Registering(by, files),
         registered + 1 <= Len(located) + 1, Agree(reg', anchor), SamePaths(reg'), FilesRegistered'
  PROVE  RegistrationInv'
<1>1. /\ at = "register" /\ at' = at /\ registered' = registered + 1
      /\ UNCHANGED << input_vars, walked, step, trace, status, writer_failed >>
  BY DEF Registering, At
<1>2. registered' \in 0 .. Len(located') + 1
  BY <1>1, RecorderRuns DEF Begun, input_vars
<1>3. RunTypes'
  BY <1>1, <1>2 DEF RegistrationInv, RunTypes, input_vars
<1>4. step' = Nil /\ walked' = 0 /\ recorder' # Nil
  BY <1>1 DEF RegistrationInv, RegistrationFollows, Begun, input_vars
<1>5. RegistrationFollows'
  BY <1>1, <1>4 DEF RegistrationFollows, Begun
<1>6. Agree(reg', anchor')
  BY <1>1 DEF input_vars
<1> QED BY <1>3, <1>4, <1>5, <1>6 DEF RegistrationInv, StepNamed, ColumnsSurvive, StepsOpenable

LEMMA StartKeeps ==
  ASSUME RegistrationInv, NEW by, NEW files, Start(by, files), Len(files) = ToRegister
  PROVE  RegistrationInv'
<1>1. /\ at = "register" /\ at' = "walk" /\ registered = ToRegister
      /\ reg' = Mentioned(reg, anchor)
      /\ UNCHANGED << options, elf, recorder, anchor, located, registered, walked, step,
                      trace, status, writer_failed >>
  BY DEF Start, At, Goto
<1>2. RunTypes'
  BY <1>1 DEF RegistrationInv, RunTypes
<1>3. step' = Nil /\ recorder' # Nil
  BY <1>1 DEF RegistrationInv, RegistrationFollows, Begun
<1>4. Agree(reg', anchor')
  BY <1>1, MentionedAgrees DEF RegistrationInv
<1>5. reg'.tabled = reg.tabled
  <2>1. Mentioned(reg, anchor).tabled = reg.tabled
    BY RegisteredFields DEF RegistrationInv, Agree, Mentioned
  <2> QED BY <1>1, <2>1
<1>6. registered' = ToRegister'
  BY <1>1 DEF ToRegister
<1>7. FilesRegistered'
  BY <1>1, <1>5 DEF RegistrationInv, RegistrationFollows, FilesRegistered, AllFiles
<1>8. RegistrationFollows'
  BY <1>1, <1>3, <1>6, <1>7 DEF RegistrationFollows, Begun
<1> QED BY <1>2, <1>3, <1>4, <1>8 DEF RegistrationInv, StepNamed, ColumnsSurvive, StepsOpenable

LEMMA RegisterKeeps ==
  ASSUME RegistrationInv,
         RegisterSnapshots \/ RegisterCpi \/ RegisterSource \/ RegisterTracer
  PROVE  RegistrationInv'
<1>1. at = "register"
  BY DEF RegisterSnapshots, RegisterCpi, RegisterSource, RegisterTracer, Registering, Start, At
<1>2. /\ anchor \in Path /\ located \in Seq(Location) /\ Len(located) \in Nat
      /\ registered \in 0 .. Len(located) + 1
  BY <1>1, RecorderRuns DEF Begun
<1>3. /\ Len(AllFiles) = Len(located) + 1
      /\ AllFiles[1] = anchor
  BY <1>2, AllFilesInOrder
<1>4. Agree(reg, anchor) /\ SamePaths(reg) /\ FilesRegistered
  BY <1>1 DEF RegistrationInv, RegistrationFollows
<1>5. ASSUME NEW file, reg' = Ensured(reg, anchor, file)
      PROVE  /\ Agree(reg', anchor) /\ SamePaths(reg')
             /\ DOMAIN reg.tabled \subseteq DOMAIN reg'.tabled
             /\ reg'.canonical[file] \in DOMAIN reg'.tabled
             /\ reg'.canonical[file] = CanonicalStepPath(anchor, UserCrateRoot(anchor), file)
  <2>1. /\ Agree(reg', anchor) /\ SamePaths(reg')
        /\ DOMAIN reg.tabled \subseteq DOMAIN reg'.tabled
        /\ file \in DOMAIN reg'.canonical
    BY <1>4, <1>5, EnsuredAgrees
  <2> QED BY <2>1 DEF Agree
<1>6. CanonicalStepPath(anchor, UserCrateRoot(anchor), anchor) = anchor
  BY <1>2, SameAsItself DEF CanonicalStepPath
<1>7. ASSUME NEW file, reg' = OwnSpelling(reg, file)
      PROVE  /\ Agree(reg', anchor) /\ SamePaths(reg')
             /\ DOMAIN reg'.tabled = DOMAIN reg.tabled \cup {file}
  BY <1>4, <1>7, OwnSpellingAgrees
<1>8. CASE RegisterSnapshots
  <2>1. CASE /\ Registering("snapshots", AllFiles)
             /\ reg' = Ensured(reg, anchor, AllFiles[registered + 1])
    <3>1. PICK file : file = AllFiles[registered + 1]
      OBVIOUS
    <3>2. registered < Len(AllFiles) /\ recorder = "snapshots" /\ recorder' = recorder
          /\ anchor' = anchor
      BY <2>1 DEF Registering, input_vars
    <3>3. reg' = Ensured(reg, anchor, file)
      BY <2>1, <3>1
    <3>4. anchor \in DOMAIN reg'.tabled
      <4>1. CASE registered = 0
        BY <1>3, <1>5, <1>6, <3>1, <3>3, <4>1
      <4>2. CASE registered # 0
        BY <1>2, <1>4, <1>5, <3>2, <3>3, <4>2 DEF FilesRegistered
      <4> QED BY <4>1, <4>2
    <3>5. FilesRegistered'
      BY <3>2, <3>4 DEF FilesRegistered
    <3>6. registered + 1 <= Len(located) + 1
      BY <1>2, <1>3, <3>2
    <3> QED BY <1>5, <2>1, <3>3, <3>5, <3>6, RegisteringKeeps
  <2>2. CASE Start("snapshots", AllFiles)
    BY <1>3, <2>2, StartKeeps DEF ToRegister, Start
  <2> QED BY <1>8, <2>1, <2>2 DEF RegisterSnapshots
<1>9. CASE RegisterCpi
  <2>1. CASE Registering("cpi", << anchor >>) /\ reg' = Ensured(reg, anchor, anchor)
    <3>1. registered < 1 /\ recorder = "cpi" /\ recorder' = recorder /\ anchor' = anchor
      BY <2>1 DEF Registering, input_vars
    <3>2. anchor \in DOMAIN reg'.tabled
      BY <1>5, <1>6, <2>1
    <3>3. FilesRegistered'
      BY <3>1, <3>2 DEF FilesRegistered
    <3>4. registered + 1 <= Len(located) + 1
      BY <1>2, <3>1
    <3> QED BY <1>5, <2>1, <3>3, <3>4, RegisteringKeeps
  <2>2. CASE Start("cpi", << anchor >>)
    BY <2>2, StartKeeps DEF ToRegister, Start
  <2> QED BY <1>9, <2>1, <2>2 DEF RegisterCpi
<1>10. CASE RegisterSource
  <2>1. CASE Registering("source", located) /\ reg' = OwnSpelling(reg, located[registered + 1].file)
    <3>1. PICK file : file = located[registered + 1].file
      OBVIOUS
    <3>2. registered < Len(located) /\ recorder' = "source" /\ recorder = "source"
          /\ located' = located /\ registered' = registered + 1
      BY <2>1 DEF Registering, input_vars
    <3>3. reg' = OwnSpelling(reg, file)
      BY <2>1, <3>1
    <3>4. \A i \in 1 .. registered' : located[i].file \in DOMAIN reg'.tabled
      <4>1. \A i \in 1 .. registered : located[i].file \in DOMAIN reg.tabled
        BY <1>4, <3>2 DEF FilesRegistered
      <4>2. \A i \in 1 .. registered' : i \in 1 .. registered \/ i = registered + 1
        BY <1>2, <3>2
      <4> QED BY <1>7, <3>1, <3>3, <4>1, <4>2
    <3>5. FilesRegistered'
      BY <3>2, <3>4 DEF FilesRegistered
    <3>6. registered + 1 <= Len(located) + 1
      BY <1>2, <3>2
    <3> QED BY <1>7, <2>1, <3>3, <3>5, <3>6, RegisteringKeeps
  <2>2. CASE Start("source", located)
    BY <2>2, StartKeeps DEF ToRegister, Start
  <2> QED BY <1>10, <2>1, <2>2 DEF RegisterSource
<1>11. CASE RegisterTracer
  <2>1. CASE Registering("tracer", AllFiles) /\ reg' = OwnSpelling(reg, AllFiles[registered + 1])
    <3>1. PICK file : file = AllFiles[registered + 1]
      OBVIOUS
    <3>2. registered < Len(AllFiles) /\ recorder' = "tracer" /\ recorder = "tracer"
          /\ AllFiles' = AllFiles /\ registered' = registered + 1
      BY <2>1 DEF Registering, input_vars, AllFiles
    <3>3. reg' = OwnSpelling(reg, file)
      BY <2>1, <3>1
    <3>4. \A i \in 1 .. registered' : AllFiles[i] \in DOMAIN reg'.tabled
      <4>1. \A i \in 1 .. registered : AllFiles[i] \in DOMAIN reg.tabled
        BY <1>4, <3>2 DEF FilesRegistered
      <4>2. \A i \in 1 .. registered' : i \in 1 .. registered \/ i = registered + 1
        BY <1>2, <3>2
      <4> QED BY <1>7, <3>1, <3>3, <4>1, <4>2
    <3>5. FilesRegistered'
      BY <3>2, <3>4 DEF FilesRegistered
    <3>6. registered + 1 <= Len(located) + 1
      BY <1>2, <1>3, <3>2
    <3> QED BY <1>7, <2>1, <3>3, <3>5, <3>6, RegisteringKeeps
  <2>2. CASE Start("tracer", AllFiles)
    BY <1>3, <2>2, StartKeeps DEF ToRegister, Start
  <2> QED BY <1>11, <2>1, <2>2 DEF RegisterTracer
<1> QED BY <1>8, <1>9, <1>10, <1>11

----------------------------------------------------------------------------
\* Walking one location more, which leaves the step as the invariant says.
LEMMA WalkKeeps ==
  ASSUME RegistrationInv, NEW by, Take(by), Agree(reg', anchor),
         DOMAIN reg.tabled \subseteq DOMAIN reg'.tabled,
         StepNamed', ColumnsSurvive', StepsOpenable'
  PROVE  RegistrationInv'
<1>1. /\ at = "walk" /\ at' = at /\ walked' = walked + 1 /\ walked < Len(located)
      /\ UNCHANGED << input_vars, registered, trace, status, writer_failed >>
  BY DEF Take, At
<1>2. walked' \in 0 .. Len(located')
  BY <1>1, RecorderRuns DEF Begun, input_vars
<1>3. RunTypes'
  BY <1>1, <1>2 DEF RegistrationInv, RunTypes, input_vars
<1>4. FilesRegistered'
  BY <1>1 DEF RegistrationInv, RegistrationFollows, FilesRegistered, input_vars, AllFiles
<1>5. RegistrationFollows'
  BY <1>1, <1>4 DEF RegistrationInv, RegistrationFollows, Begun, input_vars, ToRegister
<1>6. Agree(reg', anchor')
  BY <1>1 DEF input_vars
<1> QED BY <1>3, <1>5, <1>6 DEF RegistrationInv

\* The location a walk takes, and its file among those registered.
LEMMA TakenLocation ==
  ASSUME RegistrationInv, NEW by, Take(by)
  PROVE  /\ recorder = by /\ recorder' = by /\ anchor' = anchor /\ anchor \in Path
         /\ Taken = located[walked + 1] /\ located'[walked'] = Taken /\ Taken.file \in Path
         /\ by \in {"snapshots", "cpi"} => SamePaths(reg)
         /\ by \in {"source", "tracer"} => Taken.file \in DOMAIN reg.tabled
<1>1. /\ at = "walk" /\ recorder = by /\ recorder' = by /\ anchor' = anchor
      /\ walked' = walked + 1 /\ walked < Len(located) /\ located' = located
  BY DEF Take, At, input_vars
<1>2. /\ anchor \in Path /\ located \in Seq(Location) /\ Len(located) \in Nat
      /\ walked \in 0 .. Len(located)
  BY <1>1, RecorderRuns DEF Begun
<1>3. registered = ToRegister /\ FilesRegistered /\ Agree(reg, anchor)
  BY <1>1 DEF RegistrationInv, RegistrationFollows
<1>4. PICK n : n = walked + 1
  OBVIOUS
<1>5. n \in 1 .. Len(located) /\ located'[walked'] = located[n] /\ Taken = located[n]
  BY <1>1, <1>2, <1>4 DEF Taken
<1>6. Taken.file \in Path
  <2>1. located[n] \in Location
    BY <1>2, <1>5, ElementOfSeq
  <2> QED BY <1>5, <2>1 DEF Location
<1>7. ASSUME by \in {"snapshots", "cpi"} PROVE SamePaths(reg)
  <2>1. registered > 0
    BY <1>1, <1>2, <1>3, <1>7 DEF ToRegister
  <2>2. anchor \in DOMAIN reg.tabled
    BY <1>1, <1>3, <1>7, <2>1 DEF FilesRegistered
  <2> QED BY <1>3, <2>2 DEF Agree, SamePaths
<1>8. ASSUME by \in {"source", "tracer"} PROVE Taken.file \in DOMAIN reg.tabled
  <2>1. CASE by = "source"
    BY <1>1, <1>3, <1>5, <2>1 DEF ToRegister, FilesRegistered
  <2>2. CASE by = "tracer"
    <3>1. n + 1 \in 1 .. registered
      BY <1>1, <1>2, <1>3, <1>5, <2>2 DEF ToRegister
    <3>2. AllFiles[n + 1] = located[n].file
      BY <1>2, <1>5, AllFilesInOrder
    <3> QED BY <1>1, <1>3, <1>5, <2>2, <3>1, <3>2 DEF FilesRegistered
  <2> QED BY <1>8, <2>1, <2>2
<1> QED BY <1>1, <1>2, <1>4, <1>5, <1>6, <1>7, <1>8

\* A step on a path the recorder knows has the column the writer can encode.
LEMMA StepOnSurvives ==
  ASSUME NEW path, NEW column, StepOn(path, column), Agree(reg', anchor'),
         path \in DOMAIN reg'.tabled,
         column = IF recorder' = "source" /\ located'[walked'].column # "inside"
                  THEN Nil ELSE located'[walked'].column
  PROVE  StepNamed' /\ ColumnsSurvive' /\ step'.path = path
<1>1. step'.path = path /\ step'.column = IF reg'.tabled[path] = Nil THEN Nil ELSE column
  BY DEF StepOn
<1>2. reg'.tables[path] = reg'.tabled[path] /\ path \in DOMAIN reg'.tables
  BY DEF Agree
<1>3. StepNamed'
  BY <1>1, <1>2 DEF StepNamed
<1>4. ColumnsSurvive'
  BY <1>1, <1>2 DEF ColumnsSurvive
<1> QED BY <1>1, <1>3, <1>4

\* A step of the two recorders that record a file under one path.
LEMMA OnePathSurvives ==
  ASSUME RegistrationInv, NEW by \in {"snapshots", "cpi"}, Take(by), StepUnderOnePath
  PROVE  /\ Agree(reg', anchor) /\ DOMAIN reg.tabled \subseteq DOMAIN reg'.tabled
         /\ StepNamed' /\ ColumnsSurvive'
         /\ step'.path = CanonicalStepPath(anchor, UserCrateRoot(anchor), Taken.file)
<1>1. PICK file : file = Taken.file
  OBVIOUS
<1>2. PICK column : column = Taken.column
  OBVIOUS
<1>3. reg' = Ensured(reg, anchor, file) /\ Agree(reg, anchor) /\ SamePaths(reg)
  BY <1>1, TakenLocation DEF StepUnderOnePath, RegistrationInv
<1>4. /\ Agree(reg', anchor) /\ DOMAIN reg.tabled \subseteq DOMAIN reg'.tabled
      /\ file \in DOMAIN reg'.canonical
  BY <1>3, EnsuredAgrees
<1>5. PICK path : path = reg'.canonical[file]
  OBVIOUS
<1>6. /\ path = CanonicalStepPath(anchor, UserCrateRoot(anchor), file)
      /\ path \in DOMAIN reg'.tabled
  BY <1>4, <1>5 DEF Agree
<1>7. StepOn(path, column)
  BY <1>1, <1>2, <1>5 DEF StepUnderOnePath
<1>8. /\ recorder' = by /\ anchor' = anchor /\ located'[walked'] = Taken
  BY TakenLocation
<1>9. StepNamed' /\ ColumnsSurvive' /\ step'.path = path
  BY <1>2, <1>4, <1>6, <1>7, <1>8, StepOnSurvives
<1> QED BY <1>1, <1>4, <1>6, <1>9

LEMMA WalkSnapshotsKeeps == ASSUME RegistrationInv, WalkSnapshots PROVE RegistrationInv'
<1>1. Take("snapshots")
  BY DEF WalkSnapshots
<1>2. /\ recorder' = "snapshots" /\ anchor' = anchor /\ anchor \in Path /\ Taken.file \in Path
  BY <1>1, TakenLocation
<1>3. CASE IsThirdPartyForUser(anchor, UserCrateRoot(anchor), Taken.file)
  <2>1. reg' = reg /\ step' = Nil
    BY <1>3 DEF WalkSnapshots
  <2>2. Agree(reg', anchor) /\ DOMAIN reg.tabled \subseteq DOMAIN reg'.tabled
    BY <2>1 DEF RegistrationInv
  <2>3. StepNamed' /\ ColumnsSurvive' /\ StepsOpenable'
    BY <2>1 DEF StepNamed, ColumnsSurvive, StepsOpenable
  <2> QED BY <1>1, <2>2, <2>3, WalkKeeps
<1>4. CASE ~ IsThirdPartyForUser(anchor, UserCrateRoot(anchor), Taken.file)
  <2>1. StepUnderOnePath
    BY <1>4 DEF WalkSnapshots
  <2>2. /\ Agree(reg', anchor) /\ DOMAIN reg.tabled \subseteq DOMAIN reg'.tabled
        /\ StepNamed' /\ ColumnsSurvive'
        /\ step'.path = CanonicalStepPath(anchor, UserCrateRoot(anchor), Taken.file)
    BY <1>1, <2>1, OnePathSurvives
  <2>3. UserCrateRoot(anchor) # Nil => step'.path \in Disk \cup {anchor}
    BY <1>2, <1>4, <2>2, StepPathIsOpenable
  <2>4. StepsOpenable'
    BY <1>2, <2>3 DEF StepsOpenable
  <2> QED BY <1>1, <2>2, <2>4, WalkKeeps
<1> QED BY <1>3, <1>4

LEMMA WalkCpiKeeps == ASSUME RegistrationInv, WalkCpi PROVE RegistrationInv'
<1>1. Take("cpi") /\ StepUnderOnePath
  BY DEF WalkCpi
<1>2. /\ Agree(reg', anchor) /\ DOMAIN reg.tabled \subseteq DOMAIN reg'.tabled
      /\ StepNamed' /\ ColumnsSurvive'
  BY <1>1, OnePathSurvives
<1>3. StepsOpenable'
  BY <1>1, TakenLocation DEF StepsOpenable
<1> QED BY <1>1, <1>2, <1>3, WalkKeeps

LEMMA WalkSourceKeeps == ASSUME RegistrationInv, WalkSource PROVE RegistrationInv'
<1>1. Take("source") /\ reg' = reg
  BY DEF WalkSource
<1>2. PICK file, column :
        /\ file = Taken.file
        /\ column = IF Taken.column = "inside" THEN Taken.column ELSE Nil
  OBVIOUS
<1>3. StepOn(file, column)
  BY <1>2 DEF WalkSource
<1>4. /\ recorder' = "source" /\ anchor' = anchor /\ located'[walked'] = Taken
      /\ Taken.file \in DOMAIN reg.tabled
  BY <1>1, TakenLocation
<1>5. Agree(reg', anchor) /\ DOMAIN reg.tabled \subseteq DOMAIN reg'.tabled
  BY <1>1 DEF RegistrationInv
<1>6. StepNamed' /\ ColumnsSurvive'
  BY <1>1, <1>2, <1>3, <1>4, <1>5, StepOnSurvives
<1>7. StepsOpenable'
  BY <1>4 DEF StepsOpenable
<1> QED BY <1>1, <1>5, <1>6, <1>7, WalkKeeps

LEMMA WalkTracerKeeps == ASSUME RegistrationInv, WalkTracer PROVE RegistrationInv'
<1>1. Take("tracer") /\ reg' = reg
  BY DEF WalkTracer
<1>2. PICK file, column : file = Taken.file /\ column = Taken.column
  OBVIOUS
<1>3. StepOn(file, column)
  BY <1>2 DEF WalkTracer
<1>4. /\ recorder' = "tracer" /\ anchor' = anchor /\ located'[walked'] = Taken
      /\ Taken.file \in DOMAIN reg.tabled
  BY <1>1, TakenLocation
<1>5. Agree(reg', anchor) /\ DOMAIN reg.tabled \subseteq DOMAIN reg'.tabled
  BY <1>1 DEF RegistrationInv
<1>6. StepNamed' /\ ColumnsSurvive'
  BY <1>1, <1>2, <1>3, <1>4, <1>5, StepOnSurvives
<1>7. StepsOpenable'
  BY <1>4 DEF StepsOpenable
<1> QED BY <1>1, <1>5, <1>6, <1>7, WalkKeeps

LEMMA RegistrationStep == ASSUME RegistrationInv, [Next]_vars PROVE RegistrationInv'
<1>1. CASE \E kind \in ElfKinds : ReadElf(kind)
  BY <1>1, ReadElfCommands, CommandedKeeps
<1>2. CASE \E override \in ElfKinds \cup {Nil} : ReadRegs(override)
  BY <1>2, ReadRegsCommands, CommandedKeeps
<1>3. CASE \E locations \in Sequences(Locations), comp_dir \in {<< >>, Parent(Elf)} :
             Execute(locations, comp_dir)
  BY <1>3, ExecuteCommands, CommandedKeeps
<1>4. CASE \E locations \in Sequences(Locations) : RecordFromTraces(locations)
  BY <1>4, RecordFromTracesCommands, CommandedKeeps
<1>5. CASE \E response \in Sequences(Indices) \cup {Nil}, program_so \in Programs :
             ReplayTransaction(response, program_so)
  BY <1>5, ReplayCommands, CommandedKeeps
<1>6. CASE \E by \in {"snapshots", "cpi", "tracer"}, path \in Anchors,
              locations \in Sequences(Locations) : CallLibrary(by, path, locations)
  BY <1>6, CallLibraryCommands, CommandedKeeps
<1>7. CASE Recorded
  BY <1>7, OpenKeeps, FinishKeeps, RegisterKeeps, WalkSnapshotsKeeps, WalkCpiKeeps,
     WalkSourceKeeps, WalkTracerKeeps DEF Recorded
<1>8. CASE UNCHANGED vars
  BY <1>8, StutterKeeps
<1> QED BY <1>1, <1>2, <1>3, <1>4, <1>5, <1>6, <1>7, <1>8 DEF Next

----------------------------------------------------------------------------
\* Each variable of a run keeps its type, whatever the files are called.
THEOREM RecordingTypeOK == Spec => []TypeOK
<1>1. Init => RegistrationInv
  BY RegistrationInit
<1>2. RegistrationInv /\ [Next]_vars => RegistrationInv'
  BY RegistrationStep
<1>3. RegistrationInv => TypeOK
  BY RegistrationTypes
<1>4. QED BY <1>1, <1>2, <1>3, PTL DEF Spec

\* In all four recorders, a step's column is kept exactly when the writer can
\* encode it: the recorder's own account of a path's line table is the writer's.
THEOREM ColumnsAreKept == Spec => []ColumnsSurvive
<1>1. Init => RegistrationInv
  BY RegistrationInit
<1>2. RegistrationInv /\ [Next]_vars => RegistrationInv'
  BY RegistrationStep
<1>3. RegistrationInv => ColumnsSurvive
  BY DEF RegistrationInv
<1>4. QED BY <1>1, <1>2, <1>3, PTL DEF Spec

\* Whatever the spellings, the snapshot recorder steps on files that can be
\* opened, once the user's crate is known.
THEOREM SnapshotStepsAreOpenable == Spec => []StepsOpenable
<1>1. Init => RegistrationInv
  BY RegistrationInit
<1>2. RegistrationInv /\ [Next]_vars => RegistrationInv'
  BY RegistrationStep
<1>3. RegistrationInv => StepsOpenable
  BY DEF RegistrationInv
<1>4. QED BY <1>1, <1>2, <1>3, PTL DEF Spec
=============================================================================

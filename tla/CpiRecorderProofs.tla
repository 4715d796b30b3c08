------------------------ MODULE CpiRecorderProofs ------------------------
(***************************************************************************)
(* The invariants of record_with_cpi, for any programs, functions, source  *)
(* lines and any sequence of snapshots.                                    *)
(***************************************************************************)
EXTENDS CpiRecorder, SharedLemmas

WellFormedContexts == {c \in Context : ContextWellFormed(c)}

\* The detector's stack, as far as the recorder depends on it.
DetectorInv == context_stack \in Seq(WellFormedContexts) /\ context_stack # << >>

(***************************************************************************)
(* The last snapshot was of the program on top, and while recording a      *)
(* frame has its environment, and its call in the trace.                   *)
(***************************************************************************)
RecordingInv ==
  status = "recording" =>
    /\ env_stack = fn_stack
    /\ Mirrors(trace, fn_stack)

PrevInv ==
  /\ prev_pc = Nil => prev_line = Nil
  /\ prev_pc # Nil => prev_pc \in Top.range

IInv ==
  /\ DetectorInv
  /\ FramesTypeOK(Names)
  /\ status \in {"recording", "finished"}
  /\ PrevInv
  /\ RecordingInv
  /\ trace.drained = 0

----------------------------------------------------------------------------
(***************************************************************************)
(* A backward jump unwinds to a frame there is.                            *)
(***************************************************************************)
LEMMA UnwindTargetIsFrame ==
  ASSUME NEW names, fn_stack \in Seq(names), fn_stack # << >>, NEW fn
  PROVE  UnwindTarget(fn) \in 1 .. Len(fn_stack)
BY InnermostFrame DEF UnwindTarget

(***************************************************************************)
(* The one frame a recording starts with has its environment and call.     *)
(***************************************************************************)
LEMMA FramesStart ==
  ASSUME NEW names, OuterNames \subseteq names, FramesInit
  PROVE  /\ FramesTypeOK(names)
         /\ env_stack = fn_stack
         /\ Mirrors(trace, fn_stack)
         /\ trace.drained = 0
<1>1. PICK outer \in OuterNames :
        /\ fn_stack = << outer >>
        /\ env_stack = << outer >>
        /\ trace = Called(StartedTrace(Nil), outer, Nil)
  BY DEF FramesInit
<1>2. outer \in names /\ << outer >> \in Seq(names) /\ << outer >> # << >>
  BY <1>1
<1>3. /\ trace \in Traces(names, Nil, Locations) /\ trace.drained = 0
      /\ Mirrors(trace, << outer >>)
  BY <1>1, <1>2, StartedMirrors
<1>4. FramesTypeOK(names)
  BY <1>1, <1>2, <1>3 DEF FramesTypeOK, FramesInit
<1> QED BY <1>1, <1>3, <1>4

(***************************************************************************)
(* A snapshot is always shown at a file, a line and perhaps a column.      *)
(***************************************************************************)
LEMMA StepLocationType ==
  ASSUME NEW c, ContextWellFormed(c), NEW pc \in PC
  PROVE  StepLocation(pc, c.name) \in Locations
<1>1. pc \in Nat /\ pc \in DOMAIN Location
  BY KnownRangesType, RecorderConstants
<1>2. CASE Location[pc] = Nil
  <2>1. SbfFile[c.name] \in STRING
    BY RecorderConstants DEF ContextWellFormed
  <2>2. StepLocation(pc, c.name) = [file |-> SbfFile[c.name], line |-> pc, column |-> Nil]
    BY <1>2 DEF StepLocation
  <2> QED BY <1>1, <2>1, <2>2 DEF Locations
<1>3. CASE Location[pc] # Nil
  <2> DEFINE at == Location[pc]
  <2>1. at \in Locations
    BY <1>1, <1>3, FramesConstants
  <2>2. WrittenColumn(at) \in Nat \cup {Nil}
    BY <2>1 DEF WrittenColumn, Locations
  <2>3. StepLocation(pc, c.name) = [at EXCEPT !.column = WrittenColumn(at)]
    BY <1>3 DEF StepLocation
  <2> HIDE DEF at
  <2> QED BY <2>1, <2>2, <2>3 DEF Locations
<1> QED BY <1>2, <1>3

(***************************************************************************)
(* The names a snapshot can give a frame.                                  *)
(***************************************************************************)
LEMMA FrameNamesOf ==
  ASSUME NEW pc \in PC
  PROVE  /\ OrElse(TargetFn(pc), FnAtPc[pc]) \in Names
         /\ OrElse(TargetFn(pc), OrElse(ProgramAt[pc], "unknown_program")) \in Names
         /\ OrElse(ProgramAt[pc], "unknown_program") \in Names
<1>1. pc \in DOMAIN Location
  BY RecorderConstants
<1>2. FnAtPc[pc] \in Names
  BY <1>1 DEF Names, FrameNames
<1>3. TargetFn(pc) # Nil => TargetFn(pc) \in Names
  BY <1>1 DEF Names, FrameNames, OuterNames
<1>4. OrElse(ProgramAt[pc], "unknown_program") \in Names
  <2>1. OrElse(ProgramAt[pc], "unknown_program") \in
          {ProgramAt[p] : p \in PC} \cup {"unknown_program"}
    BY DEF OrElse
  <2> QED BY <2>1 DEF Names, FrameNames
<1> QED BY <1>2, <1>3, <1>4 DEF OrElse

(***************************************************************************)
(* The detector starts in the primary program.                             *)
(***************************************************************************)
LEMMA DetectorStart ==
  ASSUME DetectorInit
  PROVE  DetectorInv
<1>1. 1 \in DOMAIN KnownRanges /\ KnownRanges[1] \in Context
  <2>1. KnownRanges \in Seq(Context) /\ KnownRanges # << >>
    BY KnownRangesType, Zenon DEF Context
  <2> QED BY <2>1
<1>2. KnownRanges[1] \in WellFormedContexts
  BY <1>1 DEF WellFormedContexts, ContextWellFormed
<1>3. context_stack = << KnownRanges[1] >>
  BY DEF DetectorInit
<1> QED BY <1>2, <1>3 DEF DetectorInv

(***************************************************************************)
(* The context pushed for a pc contains it, and is a known range or that   *)
(* one instruction.                                                        *)
(***************************************************************************)
LEMMA ContextForPc ==
  ASSUME NEW pc \in PC
  PROVE  ContextFor(pc) \in WellFormedContexts /\ pc \in ContextFor(pc).range
<1>1. CASE Covering(pc) = {}
  <2>1. ContextFor(pc) = [name |-> UnknownName, range |-> {pc}]
    BY <1>1 DEF ContextFor
  <2>2. ContextWellFormed(ContextFor(pc)) /\ pc \in ContextFor(pc).range
    BY <1>1, <2>1 DEF ContextWellFormed
  <2>3. {pc} \in SUBSET PC /\ UnknownName \in STRING
    BY KnownRangesType
  <2>4. ContextFor(pc) \in Context
    BY <2>1, <2>3 DEF Context
  <2> QED BY <2>2, <2>4 DEF WellFormedContexts
<1>2. CASE Covering(pc) # {}
  <2> DEFINE first == CHOOSE m \in Covering(pc) : \A j \in Covering(pc) : m <= j
  <2>1. Covering(pc) \in SUBSET Nat
    BY KnownRangesType DEF Covering
  <2>2. first \in Covering(pc)
    BY <1>2, <2>1, LeastMember
  <2>3. ContextFor(pc) = KnownRanges[first]
    BY <1>2 DEF ContextFor
  <2> HIDE DEF first
  <2>4. first \in DOMAIN KnownRanges /\ pc \in KnownRanges[first].range
    BY <2>2 DEF Covering
  <2>5. KnownRanges \in Seq(Context)
    BY KnownRangesType, Zenon DEF Context
  <2>6. KnownRanges[first] \in Context
    BY <2>4, <2>5
  <2> QED BY <2>3, <2>4, <2>6 DEF WellFormedContexts, ContextWellFormed
<1> QED BY <1>1, <1>2

(***************************************************************************)
(* A snapshot leaves the detector in a context that contains its pc.       *)
(***************************************************************************)
LEMMA DetectorStep ==
  ASSUME DetectorInv, NEW pc \in PC, ProcessSnapshot(pc)
  PROVE  DetectorInv' /\ Top' \in WellFormedContexts /\ pc \in Top'.range
<1> DEFINE covering == {c \in WellFormedContexts : pc \in c.range}
<1>1. PICK n \in Nat \ {0} : n = Len(context_stack)
  BY EmptySeq DEF DetectorInv
<1>2. /\ context_stack \in Seq(WellFormedContexts) /\ n \in 1 .. n
      /\ \A i \in 1 .. n : context_stack[i] \in WellFormedContexts
  BY <1>1 DEF DetectorInv
<1>3. \/ \E i \in 1 .. n : context_stack[i] \in covering
                        /\ context_stack' = SubSeq(context_stack, 1, i)
      \/ \E c \in covering : context_stack' = Append(context_stack, c)
  <2>1. CASE SameProgram(pc)
    <3>1. context_stack' = SubSeq(context_stack, 1, n)
      BY <1>1, <1>2, <2>1 DEF SameProgram
    <3> QED BY <1>1, <1>2, <2>1, <3>1 DEF SameProgram, Top
  <2>2. CASE CpiReturn(pc)
    <3>1. 1 \in Int /\ n \in Int /\ (\A i \in Enclosing(pc) : i \in 1 .. n) /\ Enclosing(pc) # {}
      BY <1>1, <2>2 DEF CpiReturn, Enclosing
    <3>2. \E i \in Enclosing(pc) : \A j \in Enclosing(pc) : j <= i
      BY ONLY <3>1, GreatestMember, Zenon
    <3>3. Innermost(Enclosing(pc)) \in Enclosing(pc)
      BY <3>2 DEF Innermost
    <3>4. PICK i \in 1 .. n : i = Innermost(Enclosing(pc)) /\ pc \in context_stack[i].range
      BY <3>1, <3>3 DEF Enclosing
    <3>5. context_stack' = SubSeq(context_stack, 1, i)
      BY <2>2, <3>4 DEF CpiReturn
    <3> QED BY <1>2, <3>4, <3>5
  <2>3. CASE CpiCall(pc)
    BY <2>3, ContextForPc DEF CpiCall
  <2> QED BY <2>1, <2>2, <2>3 DEF ProcessSnapshot
<1>4. /\ context_stack' \in Seq(WellFormedContexts) /\ context_stack' # << >>
      /\ context_stack'[Len(context_stack')] \in covering
  <2>1. ASSUME NEW i \in 1 .. n, context_stack[i] \in covering,
               context_stack' = SubSeq(context_stack, 1, i)
        PROVE  /\ context_stack' \in Seq(WellFormedContexts) /\ context_stack' # << >>
               /\ context_stack'[Len(context_stack')] \in covering
    <3>1. /\ context_stack' \in Seq(WellFormedContexts) /\ Len(context_stack') = i
          /\ context_stack'[i] = context_stack[i]
      BY <1>1, <1>2, <2>1
    <3>2. context_stack' # << >>
      BY <1>1, <2>1, <3>1
    <3> QED BY <2>1, <3>1, <3>2
  <2>2. ASSUME NEW c \in covering, context_stack' = Append(context_stack, c)
        PROVE  /\ context_stack' \in Seq(WellFormedContexts) /\ context_stack' # << >>
               /\ context_stack'[Len(context_stack')] \in covering
    <3> HIDE DEF covering
    <3>1. c \in WellFormedContexts
      BY DEF covering
    <3>2. /\ context_stack' \in Seq(WellFormedContexts) /\ context_stack' # << >>
          /\ Len(context_stack') = n + 1 /\ context_stack'[n + 1] = c
      BY <1>1, <1>2, <2>2, <3>1
    <3> QED BY <3>2
  <2> QED BY <1>3, <2>1, <2>2
<1> QED BY <1>4 DEF DetectorInv, Top

(***************************************************************************)
(* The tail of the loop body.                                              *)
(***************************************************************************)
LEMMA StepKeeps ==
  ASSUME NEW pc \in PC, Top' \in WellFormedContexts, pc \in Top'.range, FramesTypeOK(Names),
         NEW line \in Nat \cup {Nil}, NEW column \in Nat \cup {Nil},
         NEW t \in Traces(Names, Nil, Locations), Step(pc, line, column, t)
  PROVE  /\ prev_line' \in Nat \cup {Nil}
         /\ prev_column' \in Nat \cup {Nil}
         /\ prev_pc' \in DOMAIN Location \cup {Nil}
         /\ outer_known' \in BOOLEAN
         /\ trace' \in Traces(Names, Nil, Locations)
         /\ trace'.drained = t.drained
         /\ \A s : Mirrors(t, s) => Mirrors(trace', s)
         /\ PrevInv'
         /\ status' = status
<1> DEFINE at == StepLocation(pc, Top'.name)
<1>1. at \in Locations
  <2>1. ContextWellFormed(Top')
    BY DEF WellFormedContexts
  <2> QED BY <2>1, StepLocationType
<1>2. at.line \in Nat /\ at.column \in Nat \cup {Nil}
  BY <1>1 DEF Locations
<1>3. Top'.name = context_stack'[Len(context_stack')].name
  BY DEF Top
<1>4. /\ trace' = Stepped(t, at) \/ trace' = t
      /\ prev_line' \in {at.line, line}
      /\ prev_column' \in {at.column, column}
      /\ prev_pc' = pc
      /\ outer_known' = (outer_known \/ TargetFn(pc) # Nil)
      /\ status' = status
  <2> HIDE DEF Top
  <2> QED BY <1>3 DEF Step
<1>5. pc \in DOMAIN Location /\ pc # Nil
  BY RecorderConstants, FramesConstants
<1> HIDE DEF at
<1>6. /\ trace' \in Traces(Names, Nil, Locations)
      /\ trace'.drained = t.drained
      /\ \A s : Mirrors(t, s) => Mirrors(trace', s)
  BY <1>1, <1>4, SteppedMirrors
<1>7. PrevInv'
  BY <1>4, <1>5 DEF PrevInv
<1>8. outer_known' \in BOOLEAN
  BY <1>4
<1>9. prev_line' \in Nat \cup {Nil} /\ prev_column' \in Nat \cup {Nil}
  BY <1>2, <1>4
<1>10. prev_pc' \in DOMAIN Location \cup {Nil}
  BY <1>4, <1>5
<1> QED BY <1>4, <1>6, <1>7, <1>8, <1>9, <1>10

(***************************************************************************)
(* A snapshot keeps the invariant when its frames have their environments  *)
(* and their calls.                                                        *)
(***************************************************************************)
LEMMA SnapshotKeeps ==
  ASSUME IInv, NEW pc \in PC, ProcessSnapshot(pc),
         fn_stack' \in Seq(Names), fn_stack' # << >>, env_stack' = fn_stack',
         NEW line \in Nat \cup {Nil}, NEW column \in Nat \cup {Nil},
         NEW t \in Traces(Names, Nil, Locations), t.drained = 0, Mirrors(t, fn_stack'),
         Step(pc, line, column, t)
  PROVE  IInv'
<1>1. DetectorInv' /\ Top' \in WellFormedContexts /\ pc \in Top'.range
  BY DetectorStep DEF IInv
<1>2. /\ prev_line' \in Nat \cup {Nil}
      /\ prev_column' \in Nat \cup {Nil}
      /\ prev_pc' \in DOMAIN Location \cup {Nil}
      /\ outer_known' \in BOOLEAN
      /\ trace' \in Traces(Names, Nil, Locations)
      /\ trace'.drained = t.drained
      /\ Mirrors(trace', fn_stack')
      /\ PrevInv'
      /\ status' = status
  BY <1>1, StepKeeps DEF IInv
<1>3. FramesTypeOK(Names)'
  BY <1>2 DEF FramesTypeOK, Names, FrameNames, OuterNames
<1>4. RecordingInv'
  BY <1>2 DEF RecordingInv
<1> QED BY <1>1, <1>2, <1>3, <1>4 DEF IInv

(***************************************************************************)
(* A frame pushed and called, whatever for.                                *)
(***************************************************************************)
LEMMA PushKeeps ==
  ASSUME IInv, status = "recording", NEW pc \in PC, ProcessSnapshot(pc),
         NEW fn \in Names, NEW target \in Names \cup {Nil}, PushFrame(fn),
         NEW line \in Nat \cup {Nil}, NEW column \in Nat \cup {Nil},
         Step(pc, line, column, Called(trace, fn, target))
  PROVE  IInv'
<1>1. /\ fn_stack \in Seq(Names) /\ fn_stack # << >> /\ env_stack = fn_stack
      /\ trace \in Traces(Names, Nil, Locations) /\ trace.drained = 0 /\ Mirrors(trace, fn_stack)
  BY DEF IInv, FramesTypeOK, RecordingInv
<1>2. fn_stack' = Append(fn_stack, fn) /\ env_stack' = fn_stack'
  BY <1>1 DEF PushFrame
<1>3. fn_stack' \in Seq(Names) /\ fn_stack' # << >>
  BY <1>1, <1>2, CalledMirrors
<1>4. /\ Called(trace, fn, target) \in Traces(Names, Nil, Locations)
      /\ Called(trace, fn, target).drained = 0
      /\ Mirrors(Called(trace, fn, target), fn_stack')
  BY <1>1, <1>2, CalledMirrors
<1> QED BY <1>2, <1>3, <1>4, SnapshotKeeps

(***************************************************************************)
(* One return, the outer frame staying.                                    *)
(***************************************************************************)
LEMMA PopKeeps ==
  ASSUME IInv, status = "recording", NEW pc \in PC, ProcessSnapshot(pc),
         KeepFrames(Below(Len(fn_stack))),
         NEW line \in Nat \cup {Nil}, NEW column \in Nat \cup {Nil},
         Step(pc, line, column, Returned(trace, 1))
  PROVE  IInv'
<1>1. /\ fn_stack \in Seq(Names) /\ fn_stack # << >> /\ env_stack = fn_stack
      /\ trace \in Traces(Names, Nil, Locations) /\ trace.drained = 0 /\ Mirrors(trace, fn_stack)
  BY DEF IInv, FramesTypeOK, RecordingInv
<1>2. fn_stack' = SubSeq(fn_stack, 1, Below(Len(fn_stack))) /\ env_stack' = fn_stack'
  BY <1>1 DEF KeepFrames
<1>3. /\ fn_stack' \in Seq(Names) /\ fn_stack' # << >>
      /\ Mirrors(Returned(trace, 1), fn_stack')
  BY <1>1, <1>2, ReturnedOnceMirrors DEF Below
<1>4. Returned(trace, 1) \in Traces(Names, Nil, Locations) /\ Returned(trace, 1).drained = 0
  BY <1>1, ReturnedOpen
<1> QED BY <1>2, <1>3, <1>4, SnapshotKeeps

----------------------------------------------------------------------------
LEMMA EnterProgramKeeps ==
  ASSUME IInv, NEW pc \in PC, EnterProgram(pc)
  PROVE  IInv'
<1> DEFINE program == OrElse(ProgramAt[pc], "unknown_program")
<1> DEFINE callee == OrElse(TargetFn(pc), program)
<1>1. callee \in Names /\ program \in Names
  BY FrameNamesOf
<1>2. /\ status = "recording" /\ ProcessSnapshot(pc)
      /\ PushFrame(callee) /\ Step(pc, Nil, Nil, Called(trace, callee, program))
  BY DEF EnterProgram, Input, ProcessSnapshot
<1> HIDE DEF callee, program
<1> QED BY <1>1, <1>2, PushKeeps

LEMMA LeaveProgramKeeps ==
  ASSUME IInv, NEW pc \in PC, LeaveProgram(pc)
  PROVE  IInv'
<1>1. /\ status = "recording" /\ ProcessSnapshot(pc)
      /\ KeepFrames(Below(Len(fn_stack))) /\ Step(pc, Nil, Nil, Returned(trace, 1))
  BY DEF LeaveProgram, Input, ProcessSnapshot
<1> QED BY <1>1, PopKeeps

LEMMA StayInFunctionKeeps ==
  ASSUME IInv, NEW pc \in PC, StayInFunction(pc)
  PROVE  IInv'
<1>1. /\ status = "recording" /\ ProcessSnapshot(pc)
      /\ Step(pc, prev_line, prev_column, trace)
      /\ fn_stack' = fn_stack /\ env_stack' = env_stack
  BY DEF StayInFunction, Input, ProcessSnapshot
<1>2. /\ fn_stack' \in Seq(Names) /\ fn_stack' # << >> /\ env_stack' = fn_stack'
      /\ trace \in Traces(Names, Nil, Locations) /\ trace.drained = 0 /\ Mirrors(trace, fn_stack')
      /\ prev_line \in Nat \cup {Nil} /\ prev_column \in Nat \cup {Nil}
  BY <1>1 DEF IInv, FramesTypeOK, RecordingInv
<1> QED BY <1>1, <1>2, SnapshotKeeps

LEMMA CallFunctionKeeps ==
  ASSUME IInv, NEW pc \in PC, CallFunction(pc)
  PROVE  IInv'
<1> DEFINE callee == OrElse(TargetFn(pc), FnAtPc[pc])
<1>1. callee \in Names
  BY FrameNamesOf
<1>2. /\ status = "recording" /\ ProcessSnapshot(pc)
      /\ PushFrame(callee) /\ Step(pc, prev_line, prev_column, Called(trace, callee, Nil))
  BY DEF CallFunction, Input, ProcessSnapshot
<1>3. prev_line \in Nat \cup {Nil} /\ prev_column \in Nat \cup {Nil}
  BY DEF IInv, FramesTypeOK
<1> HIDE DEF callee
<1> QED BY <1>1, <1>2, <1>3, PushKeeps

LEMMA ReturnToFunctionKeeps ==
  ASSUME IInv, NEW pc \in PC, ReturnToFunction(pc)
  PROVE  IInv'
<1> DEFINE n == UnwindTarget(TargetFn(pc))
<1> DEFINE t == Returned(trace, Len(fn_stack) - n)
<1>1. /\ status = "recording" /\ ProcessSnapshot(pc)
      /\ KeepFrames(n) /\ Step(pc, prev_line, prev_column, t)
  BY DEF ReturnToFunction, Input, ProcessSnapshot
<1>2. /\ fn_stack \in Seq(Names) /\ fn_stack # << >> /\ env_stack = fn_stack
      /\ trace \in Traces(Names, Nil, Locations) /\ trace.drained = 0 /\ Mirrors(trace, fn_stack)
      /\ prev_line \in Nat \cup {Nil} /\ prev_column \in Nat \cup {Nil}
  BY <1>1 DEF IInv, FramesTypeOK, RecordingInv
<1>3. n \in 1 .. Len(fn_stack)
  BY <1>2, UnwindTargetIsFrame
<1>4. Len(fn_stack) - n \in Nat
  BY <1>2, <1>3
<1>5. fn_stack' = SubSeq(fn_stack, 1, n) /\ env_stack' = fn_stack'
  BY <1>1, <1>2 DEF KeepFrames
<1> HIDE DEF n
<1>6. fn_stack' \in Seq(Names) /\ fn_stack' # << >> /\ Mirrors(t, fn_stack')
  BY <1>2, <1>3, <1>5, ReturnedMirrors
<1>7. t \in Traces(Names, Nil, Locations) /\ t.drained = 0
  BY <1>2, <1>4, ReturnedOpen
<1> HIDE DEF t
<1> QED BY <1>1, <1>2, <1>5, <1>6, <1>7, SnapshotKeeps

LEMMA ReturnToUnknownKeeps ==
  ASSUME IInv, NEW pc \in PC, ReturnToUnknown(pc)
  PROVE  IInv'
<1>1. /\ status = "recording" /\ ProcessSnapshot(pc)
      /\ KeepFrames(Below(Len(fn_stack)))
      /\ Step(pc, prev_line, prev_column, Returned(trace, 1))
  BY DEF ReturnToUnknown, Input, ProcessSnapshot
<1>2. prev_line \in Nat \cup {Nil} /\ prev_column \in Nat \cup {Nil}
  BY DEF IInv, FramesTypeOK
<1> QED BY <1>1, <1>2, PopKeeps

(***************************************************************************)
(* The returns at the end leave no call open: there is one for each frame, *)
(* whatever contexts the detector still has.                               *)
(***************************************************************************)
LEMMA FinishKeeps ==
  ASSUME IInv, Finish
  PROVE  /\ IInv'
         /\ trace'.position = trace.position
         /\ call_depth = 0 /\ Len(trace.open) = Len(fn_stack) => ~ trace'.orphan
<1> DEFINE n == call_depth + Len(fn_stack)
<1> DEFINE u == Returned(trace, n)
<1>1. /\ fn_stack \in Seq(Names) /\ fn_stack # << >>
      /\ trace \in Traces(Names, Nil, Locations) /\ trace.drained = 0 /\ Mirrors(trace, fn_stack)
  BY DEF IInv, FramesTypeOK, RecordingInv, Finish
<1>2. call_depth \in Nat
  BY DEF call_depth, IInv, DetectorInv
<1>3. Len(fn_stack) \in Nat
  BY <1>1
<1>4. Len(trace.open) \in Nat /\ Len(trace.open) <= n /\ n \in Nat
  <2>1. Len(trace.open) \in Nat /\ Len(trace.open) <= Len(fn_stack)
    BY <1>1, OpenCallsOfFrames
  <2>2. \A a, b, c \in Nat : a <= b => a <= c + b /\ c + b \in Nat
    OBVIOUS
  <2> QED BY <1>2, <1>3, <2>1, <2>2
<1>5. u \in Traces(Names, Nil, Locations) /\ u.open = << >> /\ u.position = trace.position
  <2> HIDE DEF n
  <2> QED BY <1>1, <1>4, ReturnedOpen
<1>6. /\ trace' = Closed(u)
      /\ fn_stack' = SubSeq(fn_stack, 1, 1)
      /\ status' = "finished"
      /\ UNCHANGED << context_stack, env_stack, prev_line, prev_column, prev_pc, outer_known >>
  BY DEF Finish
<1>7. ASSUME call_depth = 0, Len(trace.open) = Len(fn_stack) PROVE ~ u.orphan
  <2>1. n = Len(trace.open)
    BY <1>3, <1>7
  <2>2. u.orphan = trace.orphan
    BY <1>1, <1>4, <2>1, ReturnedAtMost
  <2> QED BY <1>1, <1>7, <2>2, OpenCallsOfFrames
<1> HIDE DEF n, u
<1>8. /\ trace' \in Traces(Names, Nil, Locations) /\ trace'.drained = 0
      /\ trace'.orphan = u.orphan /\ trace'.position = trace.position
  BY <1>5, <1>6, ClosedTrace
<1>9. fn_stack' \in Seq(Names) /\ fn_stack' # << >>
  BY <1>1, <1>6
<1>10. FramesTypeOK(Names)'
  BY <1>6, <1>8, <1>9 DEF IInv, FramesTypeOK, Names, FrameNames, OuterNames
<1>11. DetectorInv'
  BY <1>6 DEF IInv, DetectorInv
<1>12. PrevInv'
  BY <1>6 DEF IInv, PrevInv, Top
<1>13. RecordingInv'
  BY <1>6 DEF RecordingInv
<1> QED BY <1>6, <1>7, <1>8, <1>10, <1>11, <1>12, <1>13 DEF IInv

LEMMA InitIInv == Init => IInv
<1> SUFFICES ASSUME Init PROVE IInv
  OBVIOUS
<1>1. DetectorInv
  BY DetectorStart DEF Init
<1>2. OuterNames \subseteq Names
  BY DEF Names, FrameNames
<1>3. /\ FramesTypeOK(Names) /\ env_stack = fn_stack
      /\ Mirrors(trace, fn_stack) /\ trace.drained = 0
  BY <1>2, FramesStart DEF Init
<1>4. PrevInv
  BY DEF Init, FramesInit, PrevInv
<1> QED BY <1>1, <1>3, <1>4 DEF Init, IInv, RecordingInv

LEMMA NextIInv == IInv /\ [Next]_vars => IInv'
<1> SUFFICES ASSUME IInv, [Next]_vars PROVE IInv'
  OBVIOUS
<1>1. ASSUME NEW pc \in PC, Snapshot(pc) PROVE IInv'
  BY <1>1, EnterProgramKeeps, LeaveProgramKeeps, StayInFunctionKeeps,
     CallFunctionKeeps, ReturnToFunctionKeeps, ReturnToUnknownKeeps DEF Snapshot
<1>2. CASE Finish
  BY <1>2, FinishKeeps
<1>3. CASE UNCHANGED vars
  BY <1>3 DEF vars, IInv, DetectorInv, FramesTypeOK,
              Names, FrameNames, OuterNames, PrevInv, Top, RecordingInv
<1> QED BY <1>1, <1>2, <1>3 DEF Next

(***************************************************************************)
(* IInv holds in every reachable state.                                    *)
(***************************************************************************)
THEOREM Invariant == Spec => []IInv
<1> QED BY InitIInv, NextIInv, PTL DEF Spec

(***************************************************************************)
(* The state of record_with_cpi is well-typed.                             *)
(***************************************************************************)
THEOREM TypeCorrect == Spec => []TypeOK
<1>1. IInv => TypeOK
  <2>1. DetectorInv => DetectorTypeOK
    <3>1. \A c \in WellFormedContexts : c \in Context
      BY DEF WellFormedContexts
    <3> QED BY <3>1, ElementOfSeq, SeqDef DEF DetectorInv, DetectorTypeOK
  <2> QED BY <2>1 DEF IInv, TypeOK
<1> QED BY <1>1, Invariant, PTL

(***************************************************************************)
(* While recording, the calls open in the trace are the frames, or, after  *)
(* the outer call was closed early, the frames above the outer one.        *)
(***************************************************************************)
THEOREM TraceMirrorsFramesInvariant == Spec => []TraceMirrorsFrames
<1>1. IInv => TraceMirrorsFrames
  BY DEF IInv, RecordingInv, TraceMirrorsFrames
<1> QED BY <1>1, Invariant, PTL

(***************************************************************************)
(* While recording, each frame has the environment of its own function.    *)
(***************************************************************************)
THEOREM EnvsAlignedInvariant == Spec => []EnvsAligned
<1>1. IInv => EnvsAligned
  BY DEF IInv, RecordingInv, EnvsAligned
<1> QED BY <1>1, Invariant, PTL

(***************************************************************************)
(* The writer is left no call of the recorder to close.                    *)
(***************************************************************************)
THEOREM NothingDrainedInvariant == Spec => []NothingDrained
<1>1. IInv => NothingDrained
  BY DEF IInv, NothingDrained
<1> QED BY <1>1, Invariant, PTL

(***************************************************************************)
(* A transaction that ends in its own program, its outer call still open,  *)
(* gets exactly one return for each call.                                  *)
(***************************************************************************)
THEOREM EndOutsideCpiBalancesHolds == Spec => EndOutsideCpiBalances
<1> DEFINE Balances ==
      status' = "finished" /\ call_depth = 0 /\ Len(trace.open) = Len(fn_stack)
      => ~ trace'.orphan /\ trace'.drained = 0
<1>1. IInv /\ [Next]_vars => [Balances]_vars
  <2> SUFFICES ASSUME IInv, Next PROVE Balances
    OBVIOUS
  <2>1. ASSUME NEW pc \in PC, Snapshot(pc) PROVE status' = "recording"
    BY <2>1 DEF Snapshot, EnterProgram, LeaveProgram, StayInFunction, CallFunction,
                ReturnToFunction, ReturnToUnknown, Input, Step
  <2>2. CASE Finish
    BY <2>2, FinishKeeps DEF IInv
  <2> QED BY <2>1, <2>2 DEF Next
<1> QED BY <1>1, Invariant, PTL DEF Spec, EndOutsideCpiBalances

----------------------------------------------------------------------------
(***************************************************************************)
(* The position shown and the position remembered are those of the last    *)
(* snapshot.                                                               *)
(***************************************************************************)
PositionInv ==
  prev_pc # Nil =>
    LET at == StepLocation(prev_pc, Top.name)
    IN  /\ trace.position # Nil
        /\ trace.position.file = at.file
        /\ trace.position.line = prev_line /\ prev_line = at.line
        /\ trace.position.column = prev_column
        /\ at.column # Nil => prev_column = at.column

(***************************************************************************)
(* In one program, a line tells its file.                                  *)
(***************************************************************************)
LEMMA LineTellsFile ==
  ASSUME LinesTellFiles, NEW c, ContextWellFormed(c), NEW p \in c.range, NEW q \in c.range,
         StepLocation(p, c.name).line = StepLocation(q, c.name).line
  PROVE  StepLocation(p, c.name).file = StepLocation(q, c.name).file
<1>1. CASE \E k \in DOMAIN KnownRanges : c = KnownRanges[k]
  BY <1>1 DEF LinesTellFiles
<1>2. CASE \E x \in PC : c = [name |-> UnknownName, range |-> {x}] /\ Covering(x) = {}
  <2>1. p = q
    BY <1>2
  <2> QED BY <2>1
<1> QED BY <1>1, <1>2 DEF ContextWellFormed

(***************************************************************************)
(* The tail of the loop body brings the position to the snapshot, when it  *)
(* starts from no line, or from the line remembered in the same program.   *)
(***************************************************************************)
LEMMA StepIsShown ==
  ASSUME LinesTellFiles, IInv, PositionInv, NEW pc \in PC, ProcessSnapshot(pc),
         NEW line, NEW column, NEW t \in Traces(Names, Nil, Locations), t.position = trace.position,
         Step(pc, line, column, t),
         \/ line = Nil
         \/ line = prev_line /\ column = prev_column /\ SameProgram(pc)
  PROVE  PositionInv'
<1> DEFINE at == StepLocation(pc, Top'.name)
<1>1. DetectorInv' /\ Top' \in WellFormedContexts /\ pc \in Top'.range
  BY DetectorStep DEF IInv
<1>2. ContextWellFormed(Top')
  BY <1>1 DEF WellFormedContexts
<1>3. at \in Locations
  BY <1>2, StepLocationType
<1>4. at.line \in Nat /\ at.line # Nil /\ at # Nil
  <2>1. at.line \in Nat /\ Nil \notin Nat
    BY <1>3, FramesConstants DEF Locations
  <2>2. at # Nil
    BY <1>3, FramesConstants
  <2> QED BY <2>1, <2>2
<1> DEFINE fresh == line # at.line \/ (at.column # Nil /\ column # at.column)
<1>5. /\ trace' = IF fresh THEN Stepped(t, at) ELSE t
      /\ prev_line' = IF fresh THEN at.line ELSE line
      /\ prev_column' = IF fresh THEN at.column ELSE column
      /\ prev_pc' = pc
  BY DEF Step, Top
<1>6. PositionInv' = (pc # Nil =>
                        /\ trace'.position # Nil
                        /\ trace'.position.file = at.file
                        /\ trace'.position.line = prev_line' /\ prev_line' = at.line
                        /\ trace'.position.column = prev_column'
                        /\ at.column # Nil => prev_column' = at.column)
  BY <1>5 DEF PositionInv, Top
<1>7. CASE fresh
  <2>1. trace'.position = at /\ prev_line' = at.line /\ prev_column' = at.column
    <3>1. Stepped(t, at).position = at
      BY <1>3, SteppedMirrors
    <3> QED BY <1>5, <1>7, <3>1
  <2> HIDE DEF at, fresh
  <2> QED BY <1>4, <1>6, <2>1
<1>8. CASE ~ fresh
  <2>1. /\ line = at.line /\ (at.column # Nil => column = at.column)
        /\ trace'.position = trace.position
        /\ prev_line' = line /\ prev_column' = column
    BY <1>5, <1>8
  <2>2. line = prev_line /\ column = prev_column /\ SameProgram(pc)
    BY <1>4, <2>1
  <2>3. Top' = Top /\ prev_pc # Nil /\ prev_pc \in Top.range
    BY <1>4, <2>1, <2>2 DEF SameProgram, Top, IInv, PrevInv
  <2> DEFINE was == StepLocation(prev_pc, Top.name)
  <2>4. /\ trace.position # Nil
        /\ trace.position.file = was.file
        /\ trace.position.line = prev_line /\ prev_line = was.line
        /\ trace.position.column = prev_column
    BY <2>3 DEF PositionInv
  <2>5. was.file = at.file
    <3>1. was.line = at.line
      BY <2>1, <2>2, <2>4
    <3> QED BY <1>1, <1>2, <2>3, <3>1, LineTellsFile
  <2> HIDE DEF at, fresh, was
  <2> QED BY <1>6, <2>1, <2>2, <2>4, <2>5
<1> QED BY <1>7, <1>8

LEMMA NextPosition ==
  ASSUME LinesTellFiles
  PROVE  IInv /\ PositionInv /\ [Next]_vars => PositionInv'
<1> SUFFICES ASSUME IInv, PositionInv, [Next]_vars PROVE PositionInv'
  OBVIOUS
<1>0. trace \in Traces(Names, Nil, Locations) /\ 1 \in Nat
  BY DEF IInv, FramesTypeOK
<1>1. ASSUME NEW pc \in PC, EnterProgram(pc) PROVE PositionInv'
  <2> DEFINE program == OrElse(ProgramAt[pc], "unknown_program")
  <2> DEFINE callee == OrElse(TargetFn(pc), program)
  <2> DEFINE t == Called(trace, callee, program)
  <2>1. callee \in Names /\ program \in Names
    BY FrameNamesOf
  <2>2. ProcessSnapshot(pc) /\ Step(pc, Nil, Nil, t) /\ Mirrors(trace, fn_stack)
    BY <1>1 DEF EnterProgram, Input, ProcessSnapshot, IInv, RecordingInv
  <2>3. t \in Traces(Names, Nil, Locations) /\ t.position = trace.position
    <3> HIDE DEF callee, program
    <3> QED BY <1>0, <2>1, <2>2, CalledMirrors DEF IInv, FramesTypeOK
  <2> HIDE DEF t
  <2> QED BY <2>2, <2>3, StepIsShown
<1>2. ASSUME NEW pc \in PC, LeaveProgram(pc) PROVE PositionInv'
  <2>1. ProcessSnapshot(pc) /\ Step(pc, Nil, Nil, Returned(trace, 1))
    BY <1>2 DEF LeaveProgram, ProcessSnapshot
  <2>2. Returned(trace, 1) \in Traces(Names, Nil, Locations) /\ Returned(trace, 1).position = trace.position
    BY <1>0, ReturnedOpen
  <2> QED BY <2>1, <2>2, StepIsShown
<1>3. ASSUME NEW pc \in PC, SameProgram(pc), NEW t \in Traces(Names, Nil, Locations),
             t.position = trace.position, Step(pc, prev_line, prev_column, t)
      PROVE  PositionInv'
  BY <1>3, StepIsShown DEF ProcessSnapshot
<1>4. ASSUME NEW pc \in PC, StayInFunction(pc) PROVE PositionInv'
  BY <1>0, <1>3, <1>4 DEF StayInFunction
<1>5. ASSUME NEW pc \in PC, CallFunction(pc) PROVE PositionInv'
  <2> DEFINE callee == OrElse(TargetFn(pc), FnAtPc[pc])
  <2> DEFINE t == Called(trace, callee, Nil)
  <2>1. callee \in Names
    BY FrameNamesOf
  <2>2. SameProgram(pc) /\ Step(pc, prev_line, prev_column, t) /\ Mirrors(trace, fn_stack)
    BY <1>5 DEF CallFunction, Input, IInv, RecordingInv
  <2>3. t \in Traces(Names, Nil, Locations) /\ t.position = trace.position
    <3> HIDE DEF callee
    <3> QED BY <1>0, <2>1, <2>2, CalledMirrors DEF IInv, FramesTypeOK
  <2> HIDE DEF t
  <2> QED BY <1>3, <2>2, <2>3
<1>6. ASSUME NEW pc \in PC, ReturnToFunction(pc) PROVE PositionInv'
  <2> DEFINE m == Len(fn_stack) - UnwindTarget(TargetFn(pc))
  <2>1. SameProgram(pc) /\ Step(pc, prev_line, prev_column, Returned(trace, m))
    BY <1>6 DEF ReturnToFunction
  <2>2. m \in Nat
    <3>1. UnwindTarget(TargetFn(pc)) \in 1 .. Len(fn_stack)
      BY UnwindTargetIsFrame DEF IInv, FramesTypeOK
    <3>2. Len(fn_stack) \in Nat
      BY DEF IInv, FramesTypeOK
    <3> QED BY <3>1, <3>2
  <2> HIDE DEF m
  <2>3. Returned(trace, m) \in Traces(Names, Nil, Locations) /\ Returned(trace, m).position = trace.position
    BY <1>0, <2>2, ReturnedOpen
  <2> QED BY <1>3, <2>1, <2>3
<1>7. ASSUME NEW pc \in PC, ReturnToUnknown(pc) PROVE PositionInv'
  <2>1. Returned(trace, 1) \in Traces(Names, Nil, Locations) /\ Returned(trace, 1).position = trace.position
    BY <1>0, ReturnedOpen
  <2> QED BY <1>3, <1>7, <2>1 DEF ReturnToUnknown
<1>8. CASE Finish
  <2>1. /\ trace'.position = trace.position
        /\ UNCHANGED << context_stack, prev_line, prev_column, prev_pc >>
    BY <1>8, FinishKeeps DEF Finish
  <2> QED BY <2>1 DEF PositionInv, Top
<1>9. CASE UNCHANGED vars
  BY <1>9 DEF vars, PositionInv, Top
<1> QED BY <1>1, <1>2, <1>4, <1>5, <1>6, <1>7, <1>8, <1>9 DEF Next, Snapshot

(***************************************************************************)
(* The position a reader is shown is that of the last snapshot: the file,  *)
(* the line, and the column where one can be addressed, when a line tells  *)
(* its file.                                                               *)
(***************************************************************************)
THEOREM PositionIsCurrentInvariant ==
  ASSUME LinesTellFiles
  PROVE  Spec => []PositionIsCurrent
<1>1. Init => PositionInv
  BY DEF Init, FramesInit, PositionInv
<1>2. IInv /\ PositionInv /\ [Next]_vars => PositionInv'
  BY NextPosition
<1>3. PositionInv => PositionIsCurrent
  BY DEF PositionInv, PositionIsCurrent
<1> QED BY <1>1, <1>2, <1>3, Invariant, PTL DEF Spec
=============================================================================

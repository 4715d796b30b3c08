---------------------- MODULE SnapshotRecorderProofs ----------------------
(***************************************************************************)
(* The invariants of record_from_snapshots_into_writer, for any table of   *)
(* locations, functions and return shapes and any sequence of snapshots,   *)
(* among them those of a program that calls and returns (ProgramSpec).     *)
(***************************************************************************)
EXTENDS SnapshotCalls, SharedLemmas

N == FrameNames({})

(***************************************************************************)
(* The frames, their environments and, while recording, their calls.       *)
(***************************************************************************)
IInv ==
  /\ TypeOK
  /\ env_stack = fn_stack
  /\ ~ finished => Mirrors(trace, fn_stack)

(***************************************************************************)
(* A backward jump unwinds to a frame there is.                            *)
(***************************************************************************)
LEMMA UnwindTargetIsFrame ==
  ASSUME NEW names, fn_stack \in Seq(names), fn_stack # << >>, NEW fn
  PROVE  UnwindTarget(fn) \in 1 .. Len(fn_stack)
BY InnermostFrame DEF UnwindTarget

(***************************************************************************)
(* The one frame a recording starts with has its environment and call.     *)
(***************************************************************************)
LEMMA FramesStart ==
  ASSUME NEW names, OuterNames \subseteq names, FramesInit
  PROVE  /\ FramesTypeOK(names)
         /\ env_stack = fn_stack
         /\ Mirrors(trace, fn_stack)
         /\ trace.drained = 0
<1>1. PICK outer \in OuterNames :
        /\ fn_stack = << outer >>
        /\ env_stack = << outer >>
        /\ trace = Called(StartedTrace(Nil), outer, Nil)
  BY DEF FramesInit
<1>2. outer \in names /\ << outer >> \in Seq(names) /\ << outer >> # << >>
  BY <1>1
<1>3. /\ trace \in Traces(names, Nil, Locations) /\ trace.drained = 0
      /\ Mirrors(trace, << outer >>)
  BY <1>1, <1>2, StartedMirrors
<1>4. FramesTypeOK(names)
  BY <1>1, <1>2, <1>3 DEF FramesTypeOK, FramesInit
<1> QED BY <1>1, <1>3, <1>4

(***************************************************************************)
(* What a frame returns is one of the values of the source text.           *)
(***************************************************************************)
LEMMA ReturnValueType ==
  ASSUME TypeOK
  PROVE  ReturnValue \in Returns
<1>1. \A l : ReturnShape(l) \in Returns \cup {Propagates}
  BY ReturnConstants DEF ReturnShape, Returns
<1>2. OrElse(last_err_return, NoneValue) \in Returns
  BY DEF TypeOK, OrElse, Returns
<1>3. NoneValue \in Returns
  BY DEF Returns
<1> QED BY <1>1, <1>2, <1>3 DEF ReturnValue

(***************************************************************************)
(* The slot for `?` holds an `Err` or nothing.                             *)
(***************************************************************************)
LEMMA KeepErrType ==
  ASSUME TypeOK, NEW value \in Returns, KeepErr(value)
  PROVE  last_err_return' \in Errs \cup {Nil}
BY DEF TypeOK, KeepErr, Returns

(***************************************************************************)
(* A snapshot shown keeps the invariant when its frames have their         *)
(* environments and their calls.                                           *)
(***************************************************************************)
LEMMA StepKeeps ==
  ASSUME IInv, NEW pc \in DOMAIN Location, UserInput(pc),
         fn_stack' \in Seq(N), fn_stack' # << >>, env_stack' = fn_stack',
         NEW t \in Traces(N, Nil, Locations), Mirrors(t, fn_stack'), Step(pc, t),
         last_err_return' \in Errs \cup {Nil}, last_return' \in Returns \cup {Nil}
  PROVE  IInv'
<1> DEFINE here == Location[pc]
<1> DEFINE shown == [here EXCEPT !.column = WrittenColumn(here)]
<1>1. here \in Locations
  BY FramesConstants DEF UserInput
<1>2. here.line \in Nat /\ WrittenColumn(here) \in Nat \cup {Nil}
  BY <1>1 DEF Locations, WrittenColumn
<1>3. shown \in Locations
  <2> HIDE DEF here
  <2> QED BY <1>1, <1>2 DEF Locations
<1>4. /\ trace' = Stepped(t, shown) \/ trace' = t
      /\ prev_line' \in {here.line, prev_line}
      /\ prev_column' \in {WrittenColumn(here), prev_column}
      /\ prev_pc' = pc
  BY DEF Step
<1>5. outer_known' \in BOOLEAN /\ finished' = finished
  BY DEF UserInput, Input, IInv, TypeOK, FramesTypeOK
<1> HIDE DEF here, shown
<1>6. trace' \in Traces(N, Nil, Locations) /\ Mirrors(trace', fn_stack')
  BY <1>3, <1>4, SteppedMirrors
<1>7. /\ prev_line' \in Nat \cup {Nil}
      /\ prev_column' \in Nat \cup {Nil}
      /\ prev_pc' \in DOMAIN Location \cup {Nil}
  BY <1>2, <1>4 DEF IInv, TypeOK, FramesTypeOK
<1>8. FramesTypeOK(FrameNames({}))'
  BY <1>5, <1>6, <1>7 DEF FramesTypeOK, N, FrameNames, OuterNames
<1>9. finished' \in BOOLEAN
  BY <1>5 DEF IInv, TypeOK
<1>10. TypeOK'
  BY <1>4, <1>8, <1>9 DEF TypeOK, Returns
<1> QED BY <1>6, <1>10 DEF IInv

(***************************************************************************)
(* A snapshot that is not shown moves nothing but the pc.                  *)
(***************************************************************************)
LEMMA SkipKeeps ==
  ASSUME IInv, NEW pc \in DOMAIN Location, SkipUnlocated(pc) \/ AbsorbThirdParty(pc)
  PROVE  IInv'
<1>1. /\ UNCHANGED << fn_stack, env_stack, prev_line, prev_column, trace,
                      last_err_return, last_return >>
      /\ prev_pc' \in {prev_pc, pc} /\ finished' = finished
      /\ outer_known' = (outer_known \/ TargetFn(pc) # Nil)
  BY DEF SkipUnlocated, AbsorbThirdParty, Input
<1>2. FramesTypeOK(FrameNames({}))'
  BY <1>1 DEF IInv, TypeOK, FramesTypeOK, FrameNames, OuterNames
<1>3. TypeOK'
  BY <1>1, <1>2 DEF IInv, TypeOK, Returns
<1> QED BY <1>1, <1>3 DEF IInv, Mirrors, OpenFns

LEMMA StayInFunctionKeeps ==
  ASSUME IInv, NEW pc \in DOMAIN Location, StayInFunction(pc)
  PROVE  IInv'
<1>1. /\ UserInput(pc) /\ Step(pc, trace) /\ ~ finished
      /\ UNCHANGED << fn_stack, env_stack, last_err_return, last_return >>
  BY DEF StayInFunction, UserInput, Input
<1>2. /\ fn_stack' \in Seq(N) /\ fn_stack' # << >> /\ env_stack' = fn_stack'
      /\ trace \in Traces(N, Nil, Locations) /\ Mirrors(trace, fn_stack')
      /\ last_err_return' \in Errs \cup {Nil} /\ last_return' \in Returns \cup {Nil}
  BY <1>1 DEF IInv, TypeOK, FramesTypeOK, N
<1> QED BY <1>1, <1>2, StepKeeps

LEMMA CallFunctionKeeps ==
  ASSUME IInv, NEW pc \in DOMAIN Location, CallFunction(pc)
  PROVE  IInv'
<1> DEFINE callee == OrElse(TargetFn(pc), FnAtPc[pc])
<1> DEFINE t == Called(trace, callee, Nil)
<1>1. callee \in N
  BY DEF N, FrameNames, OuterNames, OrElse
<1>2. /\ UserInput(pc) /\ PushFrame(callee) /\ Step(pc, t) /\ ~ finished
      /\ UNCHANGED << last_err_return, last_return >>
  BY DEF CallFunction, UserInput, Input
<1>3. /\ fn_stack \in Seq(N) /\ fn_stack # << >> /\ env_stack = fn_stack
      /\ trace \in Traces(N, Nil, Locations) /\ Mirrors(trace, fn_stack)
      /\ last_err_return' \in Errs \cup {Nil} /\ last_return' \in Returns \cup {Nil}
  BY <1>2 DEF IInv, TypeOK, FramesTypeOK, N
<1> HIDE DEF callee
<1>4. fn_stack' = Append(fn_stack, callee) /\ env_stack' = fn_stack'
  BY <1>2, <1>3 DEF PushFrame
<1>5. /\ fn_stack' \in Seq(N) /\ fn_stack' # << >>
      /\ t \in Traces(N, Nil, Locations) /\ Mirrors(t, fn_stack')
  BY <1>1, <1>3, <1>4, CalledMirrors
<1> HIDE DEF t
<1> QED BY <1>2, <1>3, <1>4, <1>5, StepKeeps

(***************************************************************************)
(* What an unwinding writes to the slots is well-typed.                    *)
(***************************************************************************)
LEMMA UnwindTypes ==
  ASSUME IInv, NEW pc, NEW n, Unwind(pc, n)
  PROVE  /\ last_err_return' \in Errs \cup {Nil}
         /\ last_return' \in Returns \cup {Nil}
<1>1. TypeOK /\ ReturnValue \in Returns
  BY ReturnValueType DEF IInv
<1>2. KeepErr(ReturnValue) /\ last_return' \in {last_return, ReturnValue}
  BY DEF Unwind
<1>3. last_return \in Returns \cup {Nil}
  BY DEF IInv, TypeOK
<1> QED BY <1>1, <1>2, <1>3, KeepErrType

LEMMA ReturnToFunctionKeeps ==
  ASSUME IInv, NEW pc \in DOMAIN Location, ReturnToFunction(pc)
  PROVE  IInv'
<1> DEFINE n == UnwindTarget(TargetFn(pc))
<1> DEFINE t == Returned(trace, Len(fn_stack) - n)
<1>1. /\ UserInput(pc) /\ KeepFrames(n) /\ Unwind(pc, Len(fn_stack) - n) /\ ~ finished
  BY DEF ReturnToFunction, UserInput, Input
<1>2. /\ fn_stack \in Seq(N) /\ fn_stack # << >> /\ env_stack = fn_stack
      /\ trace \in Traces(N, Nil, Locations) /\ Mirrors(trace, fn_stack)
  BY <1>1 DEF IInv, TypeOK, FramesTypeOK, N
<1>3. n \in 1 .. Len(fn_stack)
  BY <1>2, UnwindTargetIsFrame
<1>4. Len(fn_stack) - n \in Nat
  BY <1>2, <1>3
<1>5. fn_stack' = SubSeq(fn_stack, 1, n) /\ env_stack' = fn_stack'
  BY <1>1, <1>2 DEF KeepFrames
<1>6. Step(pc, t)
  BY <1>1 DEF Unwind
<1> HIDE DEF n
<1>7. fn_stack' \in Seq(N) /\ fn_stack' # << >> /\ Mirrors(t, fn_stack')
  BY <1>2, <1>3, <1>5, ReturnedMirrors
<1>8. t \in Traces(N, Nil, Locations)
  BY <1>2, <1>4, ReturnedOpen
<1>9. last_err_return' \in Errs \cup {Nil} /\ last_return' \in Returns \cup {Nil}
  BY <1>1, UnwindTypes
<1> HIDE DEF t
<1> QED BY <1>1, <1>5, <1>6, <1>7, <1>8, <1>9, StepKeeps

LEMMA ReturnToUnknownKeeps ==
  ASSUME IInv, NEW pc \in DOMAIN Location, ReturnToUnknown(pc)
  PROVE  IInv'
<1> DEFINE t == Returned(trace, 1)
<1>1. /\ UserInput(pc) /\ KeepFrames(Below(Len(fn_stack))) /\ Unwind(pc, 1) /\ ~ finished
  BY DEF ReturnToUnknown, UserInput, Input
<1>2. /\ fn_stack \in Seq(N) /\ fn_stack # << >> /\ env_stack = fn_stack
      /\ trace \in Traces(N, Nil, Locations) /\ Mirrors(trace, fn_stack)
  BY <1>1 DEF IInv, TypeOK, FramesTypeOK, N
<1>3. fn_stack' = SubSeq(fn_stack, 1, Below(Len(fn_stack))) /\ env_stack' = fn_stack'
  BY <1>1, <1>2 DEF KeepFrames
<1>4. fn_stack' \in Seq(N) /\ fn_stack' # << >> /\ Mirrors(t, fn_stack')
  BY <1>2, <1>3, ReturnedOnceMirrors DEF Below
<1>5. t \in Traces(N, Nil, Locations)
  BY <1>2, ReturnedOpen
<1>6. Step(pc, t)
  BY <1>1 DEF Unwind
<1>7. last_err_return' \in Errs \cup {Nil} /\ last_return' \in Returns \cup {Nil}
  BY <1>1, UnwindTypes
<1> HIDE DEF t
<1> QED BY <1>1, <1>3, <1>4, <1>5, <1>6, <1>7, StepKeeps

LEMMA FinishKeeps ==
  ASSUME IInv, Finish
  PROVE  IInv'
<1>1. trace \in Traces(N, Nil, Locations)
  BY DEF IInv, TypeOK, FramesTypeOK, N
<1>2. Returned(trace, 1) \in Traces(N, Nil, Locations)
  BY <1>1, ReturnedOpen
<1>3. trace' \in Traces(N, Nil, Locations)
  BY <1>2, ClosedTrace DEF Finish
<1>4. FramesTypeOK(FrameNames({}))'
  BY <1>3 DEF IInv, TypeOK, FramesTypeOK, Finish, N, FrameNames, OuterNames
<1>5. ReturnValue \in Returns
  BY ReturnValueType DEF IInv
<1>6. TypeOK'
  BY <1>4, <1>5 DEF IInv, TypeOK, Finish, Returns
<1> QED BY <1>6 DEF IInv, Finish

LEMMA InitIInv == Init => IInv
<1> SUFFICES ASSUME Init PROVE IInv
  OBVIOUS
<1>1. OuterNames \subseteq N
  BY DEF N, FrameNames
<1>2. FramesTypeOK(N) /\ env_stack = fn_stack /\ Mirrors(trace, fn_stack)
  BY <1>1, FramesStart DEF Init
<1>3. TypeOK
  BY <1>2 DEF Init, TypeOK, N
<1> QED BY <1>2, <1>3 DEF IInv

LEMMA NextIInv == IInv /\ [Next]_vars => IInv'
<1> SUFFICES ASSUME IInv, [Next]_vars PROVE IInv'
  OBVIOUS
<1>1. ASSUME NEW pc \in DOMAIN Location, Record(pc) PROVE IInv'
  BY <1>1, SkipKeeps, StayInFunctionKeeps, CallFunctionKeeps, ReturnToFunctionKeeps,
     ReturnToUnknownKeeps DEF Record
<1>2. CASE Finish
  BY <1>2, FinishKeeps
<1>3. CASE UNCHANGED vars
  <2>1. FramesTypeOK(FrameNames({}))'
    BY <1>3 DEF vars, IInv, TypeOK, FramesTypeOK, FrameNames, OuterNames
  <2>2. TypeOK'
    BY <1>3, <2>1 DEF vars, IInv, TypeOK, Returns
  <2> QED BY <1>3, <2>2 DEF vars, IInv, Mirrors, OpenFns
<1> QED BY <1>1, <1>2, <1>3 DEF Next

(***************************************************************************)
(* IInv holds in every reachable state.                                    *)
(***************************************************************************)
THEOREM Invariant == Spec => []IInv
<1> QED BY InitIInv, NextIInv, PTL DEF Spec

(***************************************************************************)
(* The state of the snapshot recorder is well-typed: what a `?` re-emits   *)
(* is always an `Err` of the source text.                                  *)
(***************************************************************************)
THEOREM TypeCorrect == Spec => []TypeOK
<1>1. IInv => TypeOK
  BY DEF IInv
<1> QED BY <1>1, Invariant, PTL

(***************************************************************************)
(* While recording, the calls open in the trace are the frames, or, after  *)
(* the outer call was closed early, the frames above the outer one.        *)
(***************************************************************************)
THEOREM TraceMirrorsFramesInvariant == Spec => []TraceMirrorsFrames
<1>1. IInv => TraceMirrorsFrames
  BY DEF IInv, TraceMirrorsFrames
<1> QED BY <1>1, Invariant, PTL

(***************************************************************************)
(* Each frame has the environment of its own function.                     *)
(***************************************************************************)
THEOREM EnvsAlignedInvariant == Spec => []EnvsAligned
<1>1. IInv => EnvsAligned
  BY DEF IInv, EnvsAligned
<1> QED BY <1>1, Invariant, PTL

----------------------------------------------------------------------------
(***************************************************************************)
(* A program that calls and returns is one source of snapshots.            *)
(***************************************************************************)
LEMMA ProgramRecords ==
  ProgramNext => \/ Finish /\ at' = at
                 \/ \E pc \in DOMAIN Location : Record(pc) /\ at' = pc
BY DEF ProgramNext, Start, RunOn, Call, ReturnToCaller, Arbitrary, Execute, program_vars

(***************************************************************************)
(* Driven by a program, the recorder does nothing it does not otherwise.   *)
(***************************************************************************)
THEOREM ProgramImplementsSpec == ProgramSpec => Spec
<1>1. ProgramInit => Init
  BY DEF ProgramInit
<1>2. [ProgramNext]_<< vars, program_vars >> => [Next]_vars
  BY ProgramRecords DEF Next
<1> QED BY <1>1, <1>2, PTL DEF ProgramSpec, Spec

(***************************************************************************)
(* What is on display is some snapshot of the user's code, and it is what  *)
(* the next one will be compared with.                                     *)
(***************************************************************************)
Shown(pc) == [Location[pc] EXCEPT !.column = WrittenColumn(Location[pc])]

ShownInv ==
  prev_line # Nil =>
    \E p \in DOMAIN Location :
      /\ IsUser(p)
      /\ trace.position = Shown(p)
      /\ prev_line = Location[p].line
      /\ prev_column = WrittenColumn(Location[p])

PositionInv == ShownInv /\ PositionIsCurrent

(***************************************************************************)
(* The components of a location on display.                                *)
(***************************************************************************)
LEMMA ShownParts ==
  ASSUME NEW pc \in DOMAIN Location, Location[pc] # Nil
  PROVE  /\ Shown(pc) \in Locations /\ Shown(pc) # Nil
         /\ Shown(pc).file = Location[pc].file
         /\ Shown(pc).line = Location[pc].line
         /\ Shown(pc).column = WrittenColumn(Location[pc])
         /\ Location[pc].line \in Nat /\ Location[pc].line # Nil
<1> DEFINE here == Location[pc]
<1>1. here \in Locations
  BY FramesConstants
<1>2. here.line \in Nat /\ WrittenColumn(here) \in Nat \cup {Nil}
  BY <1>1 DEF Locations, WrittenColumn
<1>3. Shown(pc) = [here EXCEPT !.column = WrittenColumn(here)]
  BY DEF Shown
<1> HIDE DEF here
<1>4. /\ Shown(pc) \in Locations
      /\ Shown(pc).file = here.file
      /\ Shown(pc).line = here.line
      /\ Shown(pc).column = WrittenColumn(here)
  BY <1>1, <1>2, <1>3 DEF Locations
<1>5. Shown(pc) # Nil /\ here.line # Nil
  BY <1>2, <1>4, FramesConstants
<1> QED BY <1>2, <1>4, <1>5 DEF here

(***************************************************************************)
(* The tail of the loop body brings the position to a user's snapshot.     *)
(***************************************************************************)
LEMMA StepIsShown ==
  ASSUME UserLinesTellFiles, PositionInv, NEW pc \in DOMAIN Location, IsUser(pc),
         NEW t \in Traces(N, Nil, Locations), t.position = trace.position, Step(pc, t), at' = pc
  PROVE  PositionInv'
<1> DEFINE here == Location[pc]
<1> DEFINE fresh == prev_line # here.line \/ (here.column # Nil /\ prev_column # here.column)
<1>1. Location[pc] # Nil
  BY DEF IsUser
<1>2. /\ Shown(pc) \in Locations /\ Shown(pc) # Nil
      /\ Shown(pc).file = here.file
      /\ Shown(pc).line = here.line
      /\ Shown(pc).column = WrittenColumn(here)
      /\ here.line # Nil
  BY <1>1, ShownParts
<1>3. /\ trace' = IF fresh THEN Stepped(t, Shown(pc)) ELSE t
      /\ prev_line' = IF fresh THEN here.line ELSE prev_line
      /\ prev_column' = IF fresh THEN WrittenColumn(here) ELSE prev_column
  BY DEF Step, Shown
<1>4. CASE fresh
  <2>1. trace'.position = Shown(pc)
    <3>1. Stepped(t, Shown(pc)).position = Shown(pc)
      BY <1>2, SteppedMirrors
    <3> QED BY <1>3, <1>4, <3>1
  <2>2. prev_line' = here.line /\ prev_column' = WrittenColumn(here)
    BY <1>3, <1>4
  <2>3. ShownInv'
    BY <2>1, <2>2 DEF ShownInv, Shown, IsUser
  <2>4. PositionIsCurrent'
    BY <1>2, <2>1 DEF PositionIsCurrent
  <2> QED BY <2>3, <2>4 DEF PositionInv
<1>5. CASE ~ fresh
  <2>1. /\ trace'.position = trace.position
        /\ prev_line' = prev_line /\ prev_column' = prev_column
        /\ prev_line = here.line /\ (here.column # Nil => prev_column = here.column)
    BY <1>3, <1>5
  <2>2. PICK p \in DOMAIN Location :
          /\ IsUser(p)
          /\ trace.position = Shown(p)
          /\ prev_line = Location[p].line
          /\ prev_column = WrittenColumn(Location[p])
    BY <1>2, <2>1 DEF PositionInv, ShownInv
  <2>3. /\ Shown(p) # Nil
        /\ Shown(p).file = Location[p].file
        /\ Shown(p).line = Location[p].line
        /\ Shown(p).column = WrittenColumn(Location[p])
    BY <2>2, ShownParts DEF IsUser
  <2>4. Location[p].file = here.file
    BY <2>1, <2>2 DEF UserLinesTellFiles
  <2>5. ShownInv'
    BY <2>1, <2>2 DEF ShownInv, Shown, IsUser
  <2>6. WrittenColumn(here) # Nil => Shown(p).column = WrittenColumn(here)
    BY <2>1, <2>2, <2>3 DEF WrittenColumn
  <2>7. PositionIsCurrent'
    BY <2>1, <2>2, <2>3, <2>4, <2>6 DEF PositionIsCurrent
  <2> QED BY <2>5, <2>7 DEF PositionInv
<1> QED BY <1>4, <1>5

LEMMA NextPosition ==
  ASSUME UserLinesTellFiles
  PROVE  IInv /\ PositionInv /\ [ProgramNext]_<< vars, program_vars >> => PositionInv'
<1> SUFFICES ASSUME IInv, PositionInv, [ProgramNext]_<< vars, program_vars >>
             PROVE  PositionInv'
  OBVIOUS
<1>0. trace \in Traces(N, Nil, Locations)
  BY DEF IInv, TypeOK, FramesTypeOK, N
<1>1. ASSUME NEW pc \in DOMAIN Location, SkipUnlocated(pc) \/ AbsorbThirdParty(pc), at' = pc
      PROVE  PositionInv'
  <2>1. ~ IsUser(pc) /\ UNCHANGED << prev_line, prev_column, trace >>
    BY <1>1 DEF SkipUnlocated, AbsorbThirdParty, IsUser
  <2> QED BY <1>1, <2>1 DEF PositionInv, ShownInv, PositionIsCurrent, Shown, IsUser
<1>2. ASSUME NEW pc \in DOMAIN Location, StayInFunction(pc), at' = pc
      PROVE  PositionInv'
  <2>1. IsUser(pc) /\ Step(pc, trace)
    BY <1>2 DEF StayInFunction, UserInput, IsUser
  <2> QED BY <1>0, <1>2, <2>1, StepIsShown
<1>3. ASSUME NEW pc \in DOMAIN Location, CallFunction(pc), at' = pc
      PROVE  PositionInv'
  <2> DEFINE callee == OrElse(TargetFn(pc), FnAtPc[pc])
  <2> DEFINE t == Called(trace, callee, Nil)
  <2>1. callee \in N
    BY DEF N, FrameNames, OuterNames, OrElse
  <2>2. IsUser(pc) /\ Step(pc, t) /\ Mirrors(trace, fn_stack)
    BY <1>3 DEF CallFunction, UserInput, Input, IsUser, IInv
  <2>3. t \in Traces(N, Nil, Locations) /\ t.position = trace.position
    <3> HIDE DEF callee
    <3> QED BY <1>0, <2>1, <2>2, CalledMirrors DEF IInv, TypeOK, FramesTypeOK, N
  <2> HIDE DEF t
  <2> QED BY <1>3, <2>2, <2>3, StepIsShown
<1>4. ASSUME NEW pc \in DOMAIN Location, ReturnToFunction(pc), at' = pc
      PROVE  PositionInv'
  <2> DEFINE m == Len(fn_stack) - UnwindTarget(TargetFn(pc))
  <2>1. IsUser(pc) /\ Step(pc, Returned(trace, m))
    BY <1>4 DEF ReturnToFunction, UserInput, IsUser, Unwind
  <2>2. m \in Nat
    <3>1. UnwindTarget(TargetFn(pc)) \in 1 .. Len(fn_stack)
      BY UnwindTargetIsFrame DEF IInv, TypeOK, FramesTypeOK
    <3>2. Len(fn_stack) \in Nat
      BY DEF IInv, TypeOK, FramesTypeOK
    <3> QED BY <3>1, <3>2
  <2> HIDE DEF m
  <2>3. Returned(trace, m) \in Traces(N, Nil, Locations) /\ Returned(trace, m).position = trace.position
    BY <1>0, <2>2, ReturnedOpen
  <2> QED BY <1>4, <2>1, <2>3, StepIsShown
<1>5. ASSUME NEW pc \in DOMAIN Location, ReturnToUnknown(pc), at' = pc
      PROVE  PositionInv'
  <2>1. IsUser(pc) /\ Step(pc, Returned(trace, 1))
    BY <1>5 DEF ReturnToUnknown, UserInput, IsUser, Unwind
  <2>2. Returned(trace, 1) \in Traces(N, Nil, Locations) /\ Returned(trace, 1).position = trace.position
    BY <1>0, ReturnedOpen
  <2> QED BY <1>5, <2>1, <2>2, StepIsShown
<1>6. CASE Finish /\ at' = at
  <2>1. Returned(trace, 1) \in Traces(N, Nil, Locations) /\ Returned(trace, 1).position = trace.position
    BY <1>0, ReturnedOpen
  <2>2. trace'.position = trace.position
    BY <1>6, <2>1, ClosedTrace DEF Finish
  <2> QED BY <1>6, <2>2 DEF Finish, PositionInv, ShownInv, PositionIsCurrent
<1>7. CASE UNCHANGED << vars, program_vars >>
  BY <1>7 DEF vars, program_vars, PositionInv, ShownInv, PositionIsCurrent
<1> QED BY <1>1, <1>2, <1>3, <1>4, <1>5, <1>6, <1>7, ProgramRecords DEF Record

(***************************************************************************)
(* Whatever snapshots follow one another, the position a reader is shown   *)
(* is that of the last snapshot of the user's code: the file, the line,    *)
(* and the column where one can be written, when a line tells its file.    *)
(***************************************************************************)
THEOREM PositionIsCurrentInvariant ==
  ASSUME UserLinesTellFiles
  PROVE  ProgramSpec => []PositionIsCurrent
<1>1. ProgramInit => PositionInv
  BY DEF ProgramInit, Init, FramesInit, PositionInv, ShownInv, PositionIsCurrent
<1>2. IInv /\ PositionInv /\ [ProgramNext]_<< vars, program_vars >> => PositionInv'
  BY NextPosition
<1>3. PositionInv => PositionIsCurrent
  BY DEF PositionInv
<1>4. ProgramSpec => []IInv
  BY ProgramImplementsSpec, Invariant, PTL
<1> QED BY <1>1, <1>2, <1>3, <1>4, PTL DEF ProgramSpec

----------------------------------------------------------------------------
(***************************************************************************)
(* The calls of a program laid out upwards.  The invariant places the pc   *)
(* the recorder jumps from and every frame among the functions, which are  *)
(* what a jump is judged by.                                               *)
(***************************************************************************)
UserFunction(f) == \E pc \in Body[f] : IsUser(pc)

CallSites == {pc \in Compiled : CallsTo[pc] # {}}

\* The frames are the user's functions, each compiled above the one below;
\* the last line shown is of the top one, and the last pc above the others.
Layered(stack, line, last) ==
  /\ stack \in Seq(DOMAIN Body) /\ stack # << >>
  /\ line # Nil /\ last \in DOMAIN Location
  /\ function_at(line) = stack[Len(stack)]
  /\ \A i \in 1 .. Len(stack) : UserFunction(stack[i])
  /\ \A i, j \in 1 .. Len(stack) : i < j => FarAbove(stack[j], stack[i])
  /\ \A i \in 1 .. Len(stack) : i < Len(stack) => \A q \in Body[stack[i]] : last > q + 2

\* A program in the calls of sites runs in pc: in the function of the frame
\* above them, or in one that has no frame yet and is above all that have.
RunsIn(stack, last, sites, pc) ==
  /\ pc \in Compiled
  /\ sites \in Seq(CallSites)
  /\ Len(sites) <= Len(stack)
  /\ \A i \in 1 .. Len(sites) : FunctionOf(sites[i]) = stack[i]
  /\ Len(sites) < Len(stack) => FunctionOf(pc) = stack[Len(sites) + 1]
  /\ Len(sites) = Len(stack) =>
       /\ \A i \in 1 .. Len(stack) : FarAbove(FunctionOf(pc), stack[i])
       /\ UserFunction(FunctionOf(pc)) => \A q \in Body[FunctionOf(pc)] : q > last + 2

\* Before pc is recorded.
Reached(stack, line, last, sites, pc) ==
  /\ Layered(stack, line, last)
  /\ RunsIn(stack, last, sites, pc)
  /\ HasInlined(FunctionOf(pc)) /\ ~ IsUser(pc) => Len(stack) = Len(sites) + 1

\* After it.
Recorded(stack, line, last, sites, pc) ==
  /\ Layered(stack, line, last)
  /\ RunsIn(stack, last, sites, pc)
  /\ IsUser(pc) => last = pc
  /\ IsUser(pc) \/ HasInlined(FunctionOf(pc)) => Len(stack) = Len(sites) + 1

NotStarted ==
  /\ at = Nil /\ call_sites = << >>
  /\ Len(fn_stack) = 1
  /\ prev_line = Nil /\ prev_pc = Nil /\ ~ outer_known

CallsInv ==
  ~ arbitrary /\ ~ finished =>
    NotStarted \/ Recorded(fn_stack, prev_line, prev_pc, call_sites, at)

(***************************************************************************)
(* The functions partition the compiled pcs.                               *)
(***************************************************************************)
LEMMA PcOfFunction ==
  ASSUME NEW pc \in Compiled
  PROVE  /\ pc \in Nat /\ pc \in DOMAIN Location /\ pc # Nil
         /\ FunctionOf(pc) \in DOMAIN Body /\ pc \in Body[FunctionOf(pc)]
<1>1. \E f \in DOMAIN Body : pc \in Body[f]
  BY DEF Compiled
<1>2. FunctionOf(pc) \in DOMAIN Body /\ pc \in Body[FunctionOf(pc)]
  BY <1>1 DEF FunctionOf
<1> QED BY <1>2, BodyType, FramesConstants

LEMMA FunctionOfPc ==
  ASSUME NEW f \in DOMAIN Body, NEW pc \in Body[f]
  PROVE  pc \in Compiled /\ FunctionOf(pc) = f /\ pc \in Nat
<1>1. pc \in Compiled
  BY DEF Compiled
<1>2. pc \in Body[FunctionOf(pc)] /\ FunctionOf(pc) \in DOMAIN Body /\ pc \in Nat
  BY <1>1, PcOfFunction
<1>3. FunctionOf(pc) = f
  BY <1>2, BodyType
<1> QED BY <1>1, <1>2, <1>3

(***************************************************************************)
(* Far above is transitive through a function that has code, and no such   *)
(* function is far above itself.                                           *)
(***************************************************************************)
LEMMA FarAboveTransitive ==
  ASSUME NEW f \in DOMAIN Body, NEW g \in DOMAIN Body, NEW h \in DOMAIN Body,
         Body[g] # {}, FarAbove(g, f), FarAbove(h, g)
  PROVE  FarAbove(h, f)
<1> SUFFICES ASSUME NEW p \in Body[f], NEW r \in Body[h] PROVE r > p + 2
  BY DEF FarAbove
<1>1. PICK q \in Body[g] : TRUE
  OBVIOUS
<1>2. p \in Nat /\ q \in Nat /\ r \in Nat
  BY FunctionOfPc
<1>3. q > p + 2 /\ r > q + 2
  BY <1>1 DEF FarAbove
<1>4. \A a, b, c \in Nat : b > a + 2 /\ c > b + 2 => c > a + 2
  OBVIOUS
<1> QED BY ONLY <1>2, <1>3, <1>4, Zenon

LEMMA FarAboveDiffers ==
  ASSUME NEW f \in DOMAIN Body, NEW pc \in Body[f], FarAbove(f, f)
  PROVE  FALSE
<1>1. pc \in Nat /\ pc > pc + 2
  BY FunctionOfPc DEF FarAbove
<1> QED BY ONLY <1>1

(***************************************************************************)
(* A snapshot of the user's code is on a line of its function.             *)
(***************************************************************************)
LEMMA UserLine ==
  ASSUME NEW pc \in Compiled, IsUser(pc)
  PROVE  /\ TargetFn(pc) = FunctionOf(pc) /\ TargetFn(pc) # Nil
         /\ function_at(Location[pc].line) = FunctionOf(pc)
         /\ Location[pc].line # Nil
         /\ UserFunction(FunctionOf(pc))
<1>1. FunctionOf(pc) \in DOMAIN Body /\ pc \in Body[FunctionOf(pc)] /\ pc \in DOMAIN Location
  BY PcOfFunction
<1>2. TargetFn(pc) = FunctionOf(pc)
  BY LaidOutUpwards
<1>3. Location[pc] # Nil
  BY DEF IsUser
<1>4. Location[pc].line \in Nat
  BY <1>1, <1>3, FramesConstants DEF Locations
<1> QED BY <1>1, <1>2, <1>3, <1>4, BodyType, FramesConstants DEF TargetFn, UserFunction

(***************************************************************************)
(* A program runs on in its function.                                      *)
(***************************************************************************)
LEMMA RunOnReaches ==
  ASSUME NEW stack, NEW line, NEW last, NEW sites, NEW from,
         Recorded(stack, line, last, sites, from),
         NEW pc \in Body[FunctionOf(from)]
  PROVE  Reached(stack, line, last, sites, pc)
<1>1. from \in Compiled /\ FunctionOf(from) \in DOMAIN Body
  BY PcOfFunction DEF Recorded, RunsIn
<1>2. pc \in Compiled /\ FunctionOf(pc) = FunctionOf(from)
  BY <1>1, FunctionOfPc
<1>3. RunsIn(stack, last, sites, pc)
  BY <1>2 DEF Recorded, RunsIn
<1> QED BY <1>2, <1>3 DEF Recorded, Reached

(***************************************************************************)
(* It calls a function that is above its own, and so above all that have a *)
(* frame.                                                                  *)
(***************************************************************************)
LEMMA CallReaches ==
  ASSUME NEW stack, NEW line, NEW last, NEW sites, NEW from,
         Recorded(stack, line, last, sites, from),
         NEW pc \in CallsTo[from]
  PROVE  Reached(stack, line, last, Append(sites, from), pc)
<1> DEFINE f == FunctionOf(from)
           g == FunctionOf(pc)
           more == Append(sites, from)
<1>1. /\ from \in Compiled /\ pc \in Compiled /\ IsUser(from) /\ FarAbove(g, f)
      /\ HasInlined(g) => IsUser(pc)
  BY BodyType, LaidOutUpwards, InlinedInside DEF Recorded, RunsIn
<1>2. /\ f \in DOMAIN Body /\ from \in Body[f] /\ g \in DOMAIN Body /\ pc \in Body[g]
      /\ from \in Nat
  BY <1>1, PcOfFunction
<1>3. PICK n \in Nat : n = Len(stack)
  BY DEF Recorded, Layered
<1>4. sites \in Seq(CallSites) /\ from \in CallSites /\ last = from /\ n = Len(sites) + 1
  BY <1>1, <1>3 DEF Recorded, RunsIn, CallSites
<1>5. Layered(stack, line, last) /\ stack \in Seq(DOMAIN Body)
  BY DEF Recorded, Layered
<1>6. Len(more) = n /\ more \in Seq(CallSites) /\ more[n] = from
      /\ \A i \in 1 .. n : i < n => more[i] = sites[i] /\ i \in 1 .. Len(sites)
  BY <1>4
<1>7. f = stack[n]
  <2>1. Len(sites) < Len(stack)
    BY <1>3, <1>4
  <2> QED BY <1>3, <1>4, <2>1 DEF Recorded, RunsIn
<1>8. \A i \in 1 .. n : FunctionOf(more[i]) = stack[i]
  <2>1. ASSUME NEW i \in 1 .. n, i < n PROVE FunctionOf(more[i]) = stack[i]
    BY <1>6, <2>1 DEF Recorded, RunsIn
  <2>2. \A i \in 1 .. n : i < n \/ i = n
    BY <1>3
  <2> QED BY <1>6, <1>7, <2>1, <2>2
<1>9. ASSUME NEW i \in 1 .. n PROVE FarAbove(g, stack[i])
  <2>1. CASE i = n
    BY <1>1, <1>7, <2>1
  <2>2. CASE i < n
    <3>1. n \in 1 .. n
      BY <1>3, <2>2
    <3>2. FarAbove(f, stack[i])
      BY <1>3, <1>5, <1>7, <2>2, <3>1 DEF Layered
    <3>3. stack[i] \in DOMAIN Body
      BY <1>3, <1>5
    <3> QED BY ONLY <1>1, <1>2, <3>2, <3>3, FarAboveTransitive
  <2> QED BY <1>3, <2>1, <2>2
<1>10. \A q \in Body[g] : q > last + 2
  BY <1>1, <1>2, <1>4 DEF FarAbove
<1> HIDE DEF f, g, more
<1>11. RunsIn(stack, last, more, pc)
  BY <1>1, <1>3, <1>6, <1>8, <1>9, <1>10 DEF RunsIn, g
<1> QED BY <1>1, <1>5, <1>11 DEF Reached, g, more

(***************************************************************************)
(* It returns to the function of the innermost call.                       *)
(***************************************************************************)
LEMMA ReturnReaches ==
  ASSUME NEW stack, NEW line, NEW last, NEW sites, NEW from,
         Recorded(stack, line, last, sites, from), sites # << >>,
         NEW pc, pc = sites[Len(sites)] + 1, pc \in Body[FunctionOf(sites[Len(sites)])]
  PROVE  Reached(stack, line, last, SubSeq(sites, 1, Len(sites) - 1), pc)
<1> DEFINE fewer == SubSeq(sites, 1, Len(sites) - 1)
<1>1. PICK d \in Nat \ {0} : d = Len(sites)
  BY EmptySeq DEF Recorded, RunsIn
<1>2. /\ sites \in Seq(CallSites) /\ Len(stack) \in Nat /\ d <= Len(stack)
      /\ \A i \in 1 .. d : FunctionOf(sites[i]) = stack[i]
  BY <1>1 DEF Recorded, RunsIn, Layered
<1>3. sites[d] \in CallSites /\ sites[d] \in Compiled /\ CallsTo[sites[d]] # {}
  BY <1>1, <1>2 DEF CallSites
<1>4. FunctionOf(sites[d]) \in DOMAIN Body
  BY <1>3, PcOfFunction
<1>5. pc \in Compiled /\ FunctionOf(pc) = FunctionOf(sites[d])
  BY <1>1, <1>4, FunctionOfPc
<1>6. HasInlined(FunctionOf(pc)) => IsUser(pc)
  BY <1>1, <1>3, <1>5, InlinedInside
<1>7. /\ fewer \in Seq(CallSites) /\ Len(fewer) = d - 1
      /\ \A i \in 1 .. d - 1 : fewer[i] = sites[i]
  BY <1>1, <1>2
<1>8. RunsIn(stack, last, fewer, pc)
  <2>1. d - 1 < Len(stack) /\ d - 1 <= Len(stack) /\ d - 1 # Len(stack) /\ d - 1 + 1 = d
    BY <1>1, <1>2
  <2>2. \A i \in 1 .. d - 1 : i \in 1 .. d
    BY <1>1
  <2>3. FunctionOf(pc) = stack[d]
    BY <1>1, <1>2, <1>5
  <2>4. \A i \in 1 .. d - 1 : FunctionOf(fewer[i]) = stack[i]
    BY <1>2, <1>7, <2>2
  <2> HIDE DEF fewer
  <2> QED BY ONLY <1>5, <1>7, <2>1, <2>3, <2>4 DEF RunsIn
<1> QED BY <1>6, <1>8 DEF Reached, Recorded

(***************************************************************************)
(* A snapshot of the user's code in the function on top.                   *)
(***************************************************************************)
LEMMA RecordedOnTop ==
  ASSUME NEW stack, NEW line, NEW last, NEW sites, NEW pc,
         Reached(stack, line, last, sites, pc), IsUser(pc), Len(stack) = Len(sites) + 1
  PROVE  /\ function_at(line) = FunctionOf(pc)
         /\ Recorded(stack, Location[pc].line, pc, sites, pc)
<1> DEFINE f == FunctionOf(pc)
<1>1. PICK n \in Nat \ {0} : n = Len(stack)
  BY EmptySeq DEF Reached, Layered
<1>2. pc \in Compiled /\ Layered(stack, line, last) /\ RunsIn(stack, last, sites, pc)
  BY DEF Reached, RunsIn
<1>3. Len(sites) \in Nat /\ Len(sites) < n /\ Len(sites) # n /\ Len(sites) + 1 = n
  BY <1>1, <1>2 DEF RunsIn
<1>4. f = stack[n]
  BY <1>1, <1>2, <1>3 DEF RunsIn
<1>5. /\ f \in DOMAIN Body /\ pc \in Body[f] /\ pc \in DOMAIN Location
      /\ Location[pc].line # Nil /\ function_at(Location[pc].line) = f
  BY <1>2, PcOfFunction, UserLine
<1>6. ASSUME NEW i \in 1 .. n, i < n, NEW q \in Body[stack[i]] PROVE pc > q + 2
  <2>1. n \in 1 .. n
    BY <1>1
  <2>2. FarAbove(f, stack[i])
    BY <1>1, <1>2, <1>4, <1>6, <2>1 DEF Layered
  <2> QED BY <1>5, <1>6, <2>2 DEF FarAbove
<1> HIDE DEF f
<1>7. Layered(stack, Location[pc].line, pc)
  BY ONLY <1>1, <1>2, <1>4, <1>5, <1>6 DEF Layered
<1>8. RunsIn(stack, pc, sites, pc)
  BY ONLY <1>1, <1>2, <1>3 DEF RunsIn
<1>9. function_at(line) = f
  BY <1>1, <1>2, <1>4 DEF Layered
<1> QED BY <1>7, <1>8, <1>9 DEF Recorded, f

(***************************************************************************)
(* The first of a function just called.                                    *)
(***************************************************************************)
LEMMA RecordedOnCall ==
  ASSUME NEW stack, NEW line, NEW last, NEW sites, NEW pc,
         Reached(stack, line, last, sites, pc), IsUser(pc), Len(stack) = Len(sites)
  PROVE  /\ pc > last + 2
         /\ function_at(line) # FunctionOf(pc)
         /\ Recorded(Append(stack, FunctionOf(pc)), Location[pc].line, pc, sites, pc)
<1> DEFINE f == FunctionOf(pc)
           more == Append(stack, f)
<1>1. PICK n \in Nat \ {0} : n = Len(stack)
  BY EmptySeq DEF Reached, Layered
<1>2. pc \in Compiled /\ Layered(stack, line, last) /\ RunsIn(stack, last, sites, pc)
  BY DEF Reached, RunsIn
<1>3. /\ f \in DOMAIN Body /\ pc \in Body[f] /\ pc \in DOMAIN Location
      /\ Location[pc].line # Nil /\ function_at(Location[pc].line) = f
      /\ UserFunction(f)
  BY <1>2, PcOfFunction, UserLine
<1>4. /\ \A i \in 1 .. n : FarAbove(f, stack[i])
      /\ \A q \in Body[f] : q > last + 2
  BY <1>1, <1>2, <1>3 DEF RunsIn
<1>5. stack \in Seq(DOMAIN Body) /\ n \in 1 .. n
  BY <1>1, <1>2 DEF Layered
<1>6. stack[n] # f
  BY <1>3, <1>4, <1>5, FarAboveDiffers
<1>7. function_at(line) # f
  BY <1>1, <1>2, <1>6 DEF Layered
<1>8. /\ more \in Seq(DOMAIN Body) /\ more # << >> /\ Len(more) = n + 1
      /\ more[n + 1] = f
      /\ \A i \in 1 .. n : more[i] = stack[i]
  BY <1>1, <1>3, <1>5
<1>9. \A i \in 1 .. n + 1 : i \in 1 .. n \/ i = n + 1
  BY <1>1
<1> HIDE DEF more, f
<1>10. \A i \in 1 .. Len(more) : UserFunction(more[i])
  BY <1>1, <1>2, <1>3, <1>8, <1>9 DEF Layered
<1>11. ASSUME NEW i \in 1 .. n + 1, NEW j \in 1 .. n + 1, i < j
       PROVE  FarAbove(more[j], more[i])
  <2>1. i \in 1 .. n
    BY <1>1, <1>11
  <2>2. CASE j = n + 1
    BY <1>4, <1>8, <2>1, <2>2
  <2>3. CASE j \in 1 .. n
    <3>1. FarAbove(stack[j], stack[i])
      BY <1>1, <1>2, <1>11, <2>1, <2>3 DEF Layered
    <3> QED BY <1>8, <2>1, <2>3, <3>1
  <2> QED BY <1>9, <2>2, <2>3
<1>12. ASSUME NEW i \in 1 .. n + 1, i < n + 1, NEW q \in Body[more[i]]
       PROVE  pc > q + 2
  <2>1. i \in 1 .. n
    BY <1>1, <1>12
  <2> QED BY <1>3, <1>4, <1>8, <1>12, <2>1 DEF FarAbove
<1>13. Layered(more, Location[pc].line, pc)
  BY ONLY <1>3, <1>8, <1>10, <1>11, <1>12 DEF Layered
<1>14. /\ Len(sites) = n /\ n < n + 1 /\ n <= n + 1 /\ n # n + 1
       /\ sites \in Seq(CallSites)
       /\ \A i \in 1 .. n : FunctionOf(sites[i]) = stack[i]
  BY <1>1, <1>2 DEF RunsIn
<1>15. \A i \in 1 .. n : FunctionOf(sites[i]) = more[i]
  BY ONLY <1>8, <1>14
<1>16. RunsIn(more, pc, sites, pc)
  BY ONLY <1>2, <1>8, <1>14, <1>15 DEF RunsIn, f
<1>17. pc > last + 2
  BY <1>3, <1>4
<1>18. Recorded(more, Location[pc].line, pc, sites, pc)
  BY ONLY <1>8, <1>13, <1>14, <1>16 DEF Recorded
<1> QED BY <1>7, <1>17, <1>18 DEF f, more

(***************************************************************************)
(* The first after the return of the functions on top.                     *)
(***************************************************************************)
LEMMA RecordedOnReturn ==
  ASSUME NEW stack, NEW line, NEW last, NEW sites, NEW pc,
         Reached(stack, line, last, sites, pc), IsUser(pc), Len(stack) > Len(sites) + 1
  PROVE  /\ last > pc + 2
         /\ function_at(line) # FunctionOf(pc)
         /\ Len(sites) + 1 \in 1 .. Len(stack)
         /\ \A i \in 1 .. Len(stack) : stack[i] = FunctionOf(pc) <=> i = Len(sites) + 1
         /\ Recorded(SubSeq(stack, 1, Len(sites) + 1), Location[pc].line, pc, sites, pc)
<1> DEFINE f == FunctionOf(pc)
<1>1. PICK n \in Nat \ {0} : n = Len(stack)
  BY EmptySeq DEF Reached, Layered
<1>2. pc \in Compiled /\ Layered(stack, line, last) /\ RunsIn(stack, last, sites, pc)
  BY DEF Reached, RunsIn
<1>3. PICK m \in Nat \ {0} : m = Len(sites) + 1
  BY <1>2 DEF RunsIn
<1> DEFINE fewer == SubSeq(stack, 1, m)
<1>4. m < n /\ m \in 1 .. n /\ n \in 1 .. n /\ Len(sites) < n /\ Len(sites) < m
      /\ Len(sites) <= m /\ Len(sites) # m
  BY <1>1, <1>3
<1>5. f = stack[m]
  BY <1>1, <1>2, <1>3, <1>4 DEF RunsIn
<1>6. /\ f \in DOMAIN Body /\ pc \in Body[f] /\ pc \in DOMAIN Location
      /\ Location[pc].line # Nil /\ function_at(Location[pc].line) = f
      /\ UserFunction(f)
  BY <1>2, PcOfFunction, UserLine
<1>7. /\ \A i, j \in 1 .. n : i < j => FarAbove(stack[j], stack[i])
      /\ \A i \in 1 .. n : i < n => \A q \in Body[stack[i]] : last > q + 2
      /\ stack \in Seq(DOMAIN Body)
      /\ \A i \in 1 .. n : UserFunction(stack[i])
  BY <1>1, <1>2 DEF Layered
<1>8. last > pc + 2
  BY <1>4, <1>5, <1>6, <1>7
<1>9. ASSUME NEW i \in 1 .. n, stack[i] = f PROVE i = m
  <2>1. CASE i < m
    <3>1. FarAbove(f, f)
      BY <1>4, <1>5, <1>7, <1>9, <2>1
    <3> QED BY <1>6, <3>1, FarAboveDiffers
  <2>2. CASE m < i
    <3>1. FarAbove(f, f)
      BY <1>4, <1>5, <1>7, <1>9, <2>2
    <3> QED BY <1>6, <3>1, FarAboveDiffers
  <2> QED BY <1>3, <2>1, <2>2
<1>10. function_at(line) # f
  <2>1. stack[n] # f
    BY <1>4, <1>9
  <2> QED BY <1>1, <1>2, <2>1 DEF Layered
<1>11. /\ fewer \in Seq(DOMAIN Body) /\ fewer # << >> /\ Len(fewer) = m
       /\ \A i \in 1 .. m : fewer[i] = stack[i]
       /\ \A i \in 1 .. m : i \in 1 .. n
       /\ m \in 1 .. m
  BY <1>1, <1>3, <1>4, <1>7
<1> HIDE DEF fewer, f
<1>12. \A i, j \in 1 .. m : i < j => FarAbove(fewer[j], fewer[i])
  BY ONLY <1>7, <1>11
<1>13. ASSUME NEW i \in 1 .. m, i < m, NEW q \in Body[fewer[i]] PROVE pc > q + 2
  <2>1. FarAbove(f, stack[i])
    BY <1>4, <1>5, <1>7, <1>11, <1>13
  <2> QED BY <1>6, <1>11, <1>13, <2>1 DEF FarAbove
<1>14. fewer[Len(fewer)] = f /\ \A i \in 1 .. Len(fewer) : UserFunction(fewer[i])
  BY ONLY <1>5, <1>7, <1>11
<1>15. Layered(fewer, Location[pc].line, pc)
  BY ONLY <1>6, <1>11, <1>12, <1>13, <1>14 DEF Layered
<1>16. /\ sites \in Seq(CallSites)
       /\ \A i \in 1 .. Len(sites) : FunctionOf(sites[i]) = stack[i]
       /\ \A i \in 1 .. Len(sites) : i \in 1 .. m
  BY <1>2, <1>3 DEF RunsIn
<1>17. \A i \in 1 .. Len(sites) : FunctionOf(sites[i]) = fewer[i]
  BY ONLY <1>11, <1>16
<1>18. FunctionOf(pc) = fewer[Len(sites) + 1]
  BY ONLY <1>3, <1>11, <1>14 DEF f
<1>19. RunsIn(fewer, pc, sites, pc)
  BY ONLY <1>2, <1>4, <1>11, <1>16, <1>17, <1>18 DEF RunsIn
<1>20. Recorded(fewer, Location[pc].line, pc, sites, pc)
  BY ONLY <1>3, <1>11, <1>15, <1>19 DEF Recorded
<1>21. \A i \in 1 .. n : stack[i] = f <=> i = m
  BY ONLY <1>5, <1>9
<1> QED BY <1>1, <1>3, <1>4, <1>8, <1>10, <1>20, <1>21 DEF f, fewer

(***************************************************************************)
(* One of third-party code, in a function of its own or inlined.           *)
(***************************************************************************)
LEMMA RecordedAbsorbed ==
  ASSUME NEW stack, NEW line, NEW last, NEW sites, NEW pc,
         Reached(stack, line, last, sites, pc), IsThirdParty(pc)
  PROVE  Recorded(stack, line, pc, sites, pc)
<1> DEFINE f == FunctionOf(pc)
<1>1. PICK n \in Nat \ {0} : n = Len(stack)
  BY EmptySeq DEF Reached, Layered
<1>2. pc \in Compiled /\ Layered(stack, line, last) /\ RunsIn(stack, last, sites, pc)
  BY DEF Reached, RunsIn
<1>3. PICK d \in Nat : d = Len(sites) /\ d <= n
  BY <1>1, <1>2 DEF RunsIn
<1>4. f \in DOMAIN Body /\ pc \in Body[f] /\ pc \in DOMAIN Location /\ n \in 1 .. n
  BY <1>1, <1>2, PcOfFunction
<1>5. ~ IsUser(pc) /\ (UserFunction(f) => HasInlined(f))
  BY <1>4 DEF IsUser, IsThirdParty, UserFunction, HasInlined
<1>6. \/ UserFunction(f) /\ HasInlined(f) /\ n = d + 1 /\ n # d
      \/ ~ UserFunction(f) /\ n = d
  <2>1. CASE UserFunction(f)
    <3>1. HasInlined(f) /\ n = d + 1
      BY <1>1, <1>3, <1>5, <2>1 DEF Reached
    <3> QED BY <1>3, <2>1, <3>1
  <2>2. CASE ~ UserFunction(f)
    <3>1. ASSUME d < n PROVE FALSE
      <4>1. d + 1 \in 1 .. n
        BY <1>3, <3>1
      <4>2. f = stack[d + 1]
        BY <1>1, <1>2, <1>3, <3>1 DEF RunsIn
      <4> QED BY <1>1, <1>2, <2>2, <4>1, <4>2 DEF Layered
    <3> QED BY <1>3, <2>2, <3>1
  <2> QED BY <2>1, <2>2
<1>7. ASSUME NEW i \in 1 .. n, i < n PROVE FarAbove(f, stack[i])
  <2>1. CASE n = d + 1
    <3>1. f = stack[n]
      BY <1>1, <1>2, <1>3, <2>1 DEF RunsIn
    <3> QED BY <1>1, <1>2, <1>4, <1>7, <3>1 DEF Layered
  <2>2. CASE n = d
    BY <1>1, <1>2, <1>3, <1>7, <2>2 DEF RunsIn
  <2> QED BY <1>6, <2>1, <2>2
<1>8. Layered(stack, line, pc)
  <2>1. ASSUME NEW i \in 1 .. n, i < n, NEW q \in Body[stack[i]] PROVE pc > q + 2
    BY <1>4, <1>7, <2>1 DEF FarAbove
  <2> HIDE DEF f
  <2> QED BY ONLY <1>1, <1>2, <1>4, <2>1 DEF Layered
<1> HIDE DEF f
<1>9. RunsIn(stack, pc, sites, pc)
  BY ONLY <1>1, <1>2, <1>3, <1>6 DEF RunsIn, f
<1>10. HasInlined(f) => Len(stack) = Len(sites) + 1
  BY ONLY <1>1, <1>3, <1>5, <1>6 DEF HasInlined, UserFunction
<1> QED BY ONLY <1>5, <1>8, <1>9, <1>10 DEF Recorded, f

(***************************************************************************)
(* The innermost frame of a function that has one.                         *)
(***************************************************************************)
LEMMA OnlyFrame ==
  ASSUME NEW fn, NEW m \in 1 .. Len(fn_stack), Len(fn_stack) \in Nat,
         DOMAIN fn_stack = 1 .. Len(fn_stack),
         \A i \in 1 .. Len(fn_stack) : fn_stack[i] = fn <=> i = m
  PROVE  UnwindTarget(fn) = m
<1> DEFINE candidates == {1} \cup {i \in DOMAIN fn_stack : fn_stack[i] = fn}
<1>1. m \in candidates /\ \A k \in candidates : k = 1 \/ k = m
  OBVIOUS
<1>2. m \in Nat /\ 1 <= m
  OBVIOUS
<1> HIDE DEF candidates
<1>3. ASSUME NEW n \in candidates, \A k \in candidates : k <= n PROVE n = m
  BY ONLY <1>1, <1>2, <1>3
<1>4. m \in candidates /\ \A k \in candidates : k <= m
  BY ONLY <1>1, <1>2
<1>5. (CHOOSE n \in candidates : \A k \in candidates : k <= n) = m
  BY ONLY <1>3, <1>4
<1> QED BY <1>5 DEF UnwindTarget, candidates

(***************************************************************************)
(* Whatever the snapshot, the recorder's frames follow the program's calls *)
(* to it.                                                                  *)
(***************************************************************************)
LEMMA RecordFollows ==
  ASSUME NEW sites, NEW pc \in DOMAIN Location,
         Reached(fn_stack, prev_line, prev_pc, sites, pc), Record(pc)
  PROVE  Recorded(fn_stack', prev_line', prev_pc', sites, pc)
<1>1. /\ pc \in Compiled /\ Layered(fn_stack, prev_line, prev_pc)
      /\ RunsIn(fn_stack, prev_pc, sites, pc)
  BY DEF Reached, RunsIn
<1>2. /\ fn_stack \in Seq(DOMAIN Body) /\ Len(fn_stack) \in Nat /\ Len(sites) \in Nat
      /\ DOMAIN fn_stack = 1 .. Len(fn_stack)
      /\ prev_line # Nil /\ prev_pc # Nil /\ prev_pc \in Nat /\ pc \in Nat
  BY <1>1, FramesConstants DEF Layered, RunsIn
<1>3. CASE SkipUnlocated(pc)
  <2>1. UNCHANGED << fn_stack, prev_line, prev_pc >> /\ ~ IsUser(pc)
    BY <1>3 DEF SkipUnlocated, IsUser
  <2> QED BY <1>1, <2>1 DEF Reached, Recorded
<1>4. CASE AbsorbThirdParty(pc)
  <2>1. UNCHANGED << fn_stack, prev_line >> /\ prev_pc' = pc /\ IsThirdParty(pc)
    BY <1>4 DEF AbsorbThirdParty, IsThirdParty
  <2>2. Recorded(fn_stack, prev_line, pc, sites, pc)
    BY <2>1, RecordedAbsorbed
  <2> QED BY ONLY <2>1, <2>2, Zenon
<1>5. CASE IsUser(pc)
  <2>1. TargetFn(pc) = FunctionOf(pc) /\ TargetFn(pc) # Nil
    BY <1>1, <1>5, UserLine
  <2>2. ~ SkipUnlocated(pc) /\ ~ AbsorbThirdParty(pc)
    BY <1>5 DEF SkipUnlocated, AbsorbThirdParty, IsUser
  <2>3. CrossesBoundary(pc) <=>
          /\ pc > prev_pc + 2 \/ prev_pc > pc + 2
          /\ function_at(prev_line) = Nil \/ function_at(prev_line) # FunctionOf(pc)
    BY <1>2, <2>1 DEF CrossesBoundary
  <2>4. ASSUME NEW t, Step(pc, t) PROVE prev_line' = Location[pc].line /\ prev_pc' = pc
    BY <2>4 DEF Step
  <2>5. CASE Len(fn_stack) = Len(sites) + 1
    <3>1. /\ function_at(prev_line) = FunctionOf(pc)
          /\ Recorded(fn_stack, Location[pc].line, pc, sites, pc)
      BY <1>5, <2>5, RecordedOnTop
    <3>2. ~ CrossesBoundary(pc)
      BY <2>1, <2>3, <3>1
    <3>3. StayInFunction(pc)
      BY <2>2, <3>2 DEF Record, CallFunction, ReturnToFunction, ReturnToUnknown
    <3>4. fn_stack' = fn_stack /\ prev_line' = Location[pc].line /\ prev_pc' = pc
      BY <2>4, <3>3 DEF StayInFunction
    <3> QED BY ONLY <3>1, <3>4, Zenon
  <2>6. CASE Len(fn_stack) = Len(sites)
    <3>1. /\ pc > prev_pc + 2 /\ function_at(prev_line) # FunctionOf(pc)
          /\ Recorded(Append(fn_stack, FunctionOf(pc)), Location[pc].line, pc, sites, pc)
      BY <1>5, <2>6, RecordedOnCall
    <3>2. CrossesBoundary(pc) /\ ~ (pc < prev_pc)
      BY <1>2, <2>3, <3>1
    <3>3. CallFunction(pc)
      BY <2>2, <3>2 DEF Record, StayInFunction, ReturnToFunction, ReturnToUnknown
    <3>4. /\ fn_stack' = Append(fn_stack, FunctionOf(pc))
          /\ prev_line' = Location[pc].line /\ prev_pc' = pc
      BY <2>1, <2>4, <3>3 DEF CallFunction, PushFrame, OrElse
    <3> QED BY ONLY <3>1, <3>4, Zenon
  <2>7. CASE Len(fn_stack) > Len(sites) + 1
    <3>1. /\ prev_pc > pc + 2 /\ function_at(prev_line) # FunctionOf(pc)
          /\ Len(sites) + 1 \in 1 .. Len(fn_stack)
          /\ \A i \in 1 .. Len(fn_stack) : fn_stack[i] = FunctionOf(pc) <=> i = Len(sites) + 1
          /\ Recorded(SubSeq(fn_stack, 1, Len(sites) + 1), Location[pc].line, pc, sites, pc)
      BY <1>5, <2>7, RecordedOnReturn
    <3>2. CrossesBoundary(pc) /\ ~ (pc > prev_pc)
      BY <1>2, <2>3, <3>1
    <3>3. ReturnToFunction(pc)
      BY <2>1, <2>2, <3>2 DEF Record, StayInFunction, CallFunction, ReturnToUnknown
    <3>4. UnwindTarget(FunctionOf(pc)) = Len(sites) + 1
      BY ONLY <1>2, <3>1, OnlyFrame
    <3>5. /\ fn_stack' = SubSeq(fn_stack, 1, UnwindTarget(FunctionOf(pc)))
          /\ prev_line' = Location[pc].line /\ prev_pc' = pc
      BY <2>1, <2>4, <3>3 DEF ReturnToFunction, KeepFrames, Unwind
    <3> QED BY ONLY <3>1, <3>4, <3>5, Zenon
  <2>8. Len(sites) <= Len(fn_stack)
    BY <1>1 DEF RunsIn
  <2>9. \/ Len(fn_stack) = Len(sites) + 1 \/ Len(fn_stack) = Len(sites)
        \/ Len(fn_stack) > Len(sites) + 1
    <3>1. \A a, b \in Nat : b <= a => a = b + 1 \/ a = b \/ a > b + 1
      OBVIOUS
    <3> QED BY ONLY <1>2, <2>8, <3>1, Zenon
  <2> QED BY ONLY <2>5, <2>6, <2>7, <2>9, Zenon
<1>6. SkipUnlocated(pc) \/ AbsorbThirdParty(pc) \/ IsUser(pc)
  BY DEF Record, StayInFunction, CallFunction, ReturnToFunction, ReturnToUnknown,
         UserInput, IsUser
<1> QED BY <1>3, <1>4, <1>5, <1>6

(***************************************************************************)
(* The first snapshot names the outer frame.                               *)
(***************************************************************************)
LEMMA StartFollows ==
  ASSUME TypeOK, NotStarted, NEW pc \in DOMAIN Location, Start(pc)
  PROVE  Recorded(fn_stack', prev_line', prev_pc', << >>, pc)
<1>1. /\ pc \in Compiled /\ IsUser(pc) /\ Record(pc)
      /\ fn_stack \in Seq(N) /\ Len(fn_stack) = 1
      /\ prev_line = Nil /\ prev_pc = Nil /\ ~ outer_known
  BY DEF NotStarted, Start, Execute, TypeOK, FramesTypeOK, N
<1>2. /\ TargetFn(pc) = FunctionOf(pc) /\ TargetFn(pc) # Nil
      /\ function_at(Location[pc].line) = FunctionOf(pc)
      /\ Location[pc].line # Nil /\ UserFunction(FunctionOf(pc))
      /\ FunctionOf(pc) \in DOMAIN Body
  BY <1>1, UserLine, PcOfFunction
<1>3. StayInFunction(pc)
  BY <1>1 DEF Record, SkipUnlocated, AbsorbThirdParty, CallFunction, ReturnToFunction,
              ReturnToUnknown, CrossesBoundary, IsUser
<1>4. fn_stack' = fn_stack /\ prev_line' = Location[pc].line /\ prev_pc' = pc
  BY <1>1, <1>3 DEF StayInFunction, Step
<1>5. fn_stack[1] = FunctionOf(pc)
  BY <1>1, <1>2, <1>3 DEF StayInFunction, UserInput, Input, OuterNameFits
<1>6. fn_stack \in Seq(DOMAIN Body) /\ fn_stack # << >>
  <2>1. fn_stack = [i \in 1 .. 1 |-> fn_stack[i]] /\ \A i \in 1 .. 1 : i = 1
    BY <1>1
  <2>2. [i \in 1 .. 1 |-> fn_stack[i]] \in Seq(DOMAIN Body)
    BY <1>2, <1>5, <2>1, SeqDef
  <2>3. fn_stack # << >>
    BY DEF TypeOK, FramesTypeOK
  <2> QED BY ONLY <2>1, <2>2, <2>3
<1>7. \A i \in 1 .. Len(fn_stack) : i = 1
  BY <1>1
<1>8. Layered(fn_stack, Location[pc].line, pc)
  BY <1>1, <1>2, <1>5, <1>6, <1>7 DEF Layered
<1>9. << >> \in Seq(CallSites) /\ Len(<< >>) = 0 /\ 0 < 1 /\ 0 <= 1 /\ 0 # 1 /\ 0 + 1 = 1
      /\ \A i \in 1 .. 0 : FALSE
  OBVIOUS
<1>10. RunsIn(fn_stack, pc, << >>, pc)
  BY ONLY <1>1, <1>5, <1>9 DEF RunsIn
<1>11. Recorded(fn_stack, Location[pc].line, pc, << >>, pc)
  BY ONLY <1>1, <1>8, <1>9, <1>10 DEF Recorded
<1> QED BY ONLY <1>4, <1>11, Zenon

LEMMA NextCalls == IInv /\ CallsInv /\ [ProgramNext]_<< vars, program_vars >> => CallsInv'
<1> SUFFICES ASSUME IInv, CallsInv, [ProgramNext]_<< vars, program_vars >>,
                    ~ arbitrary', ~ finished'
             PROVE  (NotStarted \/ Recorded(fn_stack, prev_line, prev_pc, call_sites, at))'
  BY DEF CallsInv
<1>0. ASSUME NEW sites, NEW pc, sites = call_sites', pc = at',
             Recorded(fn_stack', prev_line', prev_pc', sites, pc)
      PROVE  Recorded(fn_stack, prev_line, prev_pc, call_sites, at)'
  BY <1>0 DEF Recorded, Layered, RunsIn
<1>1. ASSUME Running, ~ finished
      PROVE  Recorded(fn_stack, prev_line, prev_pc, call_sites, at)
  BY <1>1 DEF CallsInv, Running, NotStarted
<1>2. PICK sites : sites = call_sites'
  OBVIOUS
<1>3. ASSUME NEW pc \in DOMAIN Location, Record(pc), at' = pc,
             Reached(fn_stack, prev_line, prev_pc, sites, pc)
      PROVE  Recorded(fn_stack, prev_line, prev_pc, call_sites, at)'
  <2>1. Recorded(fn_stack', prev_line', prev_pc', sites, pc)
    BY <1>3, RecordFollows
  <2> QED BY <1>0, <1>2, <1>3, <2>1
<1>4. ASSUME NEW pc \in DOMAIN Location, Start(pc)
      PROVE  Recorded(fn_stack, prev_line, prev_pc, call_sites, at)'
  <2>1. NotStarted /\ call_sites' = << >> /\ at' = pc
    <3>1. at = Nil /\ ~ finished /\ ~ arbitrary /\ call_sites' = call_sites /\ at' = pc
      BY <1>4 DEF Start, Execute, Record, SkipUnlocated, AbsorbThirdParty, StayInFunction,
                  CallFunction, ReturnToFunction, ReturnToUnknown, UserInput, Input
    <3>2. ~ Recorded(fn_stack, prev_line, prev_pc, call_sites, at)
      BY <3>1, PcOfFunction DEF Recorded, RunsIn
    <3> QED BY <3>1, <3>2 DEF CallsInv, NotStarted
  <2>2. Recorded(fn_stack', prev_line', prev_pc', << >>, pc)
    BY <1>4, <2>1, StartFollows DEF IInv
  <2> QED BY <1>0, <2>1, <2>2
<1>5. ASSUME NEW pc \in DOMAIN Location, RunOn(pc)
      PROVE  Recorded(fn_stack, prev_line, prev_pc, call_sites, at)'
  <2>1. Running /\ ~ finished /\ Record(pc) /\ at' = pc /\ sites = call_sites
        /\ pc \in Body[FunctionOf(at)]
    BY <1>2, <1>5 DEF RunOn, Execute, Record, SkipUnlocated, AbsorbThirdParty, StayInFunction,
                CallFunction, ReturnToFunction, ReturnToUnknown, UserInput, Input
  <2>2. Reached(fn_stack, prev_line, prev_pc, sites, pc)
    BY <1>1, <2>1, RunOnReaches
  <2> QED BY <1>3, <2>1, <2>2
<1>6. ASSUME NEW pc \in DOMAIN Location, Call(pc)
      PROVE  Recorded(fn_stack, prev_line, prev_pc, call_sites, at)'
  <2>1. Running /\ ~ finished /\ Record(pc) /\ at' = pc /\ sites = Append(call_sites, at)
        /\ pc \in CallsTo[at]
    BY <1>2, <1>6 DEF Call, Execute, Record, SkipUnlocated, AbsorbThirdParty, StayInFunction,
                CallFunction, ReturnToFunction, ReturnToUnknown, UserInput, Input
  <2>2. Reached(fn_stack, prev_line, prev_pc, sites, pc)
    BY <1>1, <2>1, CallReaches
  <2> QED BY <1>3, <2>1, <2>2
<1>7. ASSUME NEW pc \in DOMAIN Location, ReturnToCaller(pc)
      PROVE  Recorded(fn_stack, prev_line, prev_pc, call_sites, at)'
  <2>1. /\ Running /\ ~ finished /\ Record(pc) /\ at' = pc
        /\ sites = SubSeq(call_sites, 1, Len(call_sites) - 1)
        /\ call_sites # << >> /\ pc = call_sites[Len(call_sites)] + 1
        /\ pc \in Body[FunctionOf(call_sites[Len(call_sites)])]
    BY <1>2, <1>7 DEF ReturnToCaller, Execute, Record, SkipUnlocated, AbsorbThirdParty,
                StayInFunction, CallFunction, ReturnToFunction, ReturnToUnknown, UserInput, Input
  <2>2. Reached(fn_stack, prev_line, prev_pc, sites, pc)
    BY <1>1, <2>1, ReturnReaches
  <2> QED BY <1>3, <2>1, <2>2
<1>8. CASE UNCHANGED << vars, program_vars >>
  BY <1>8 DEF vars, program_vars, CallsInv, NotStarted, Recorded, Layered, RunsIn
<1> QED BY <1>4, <1>5, <1>6, <1>7, <1>8 DEF ProgramNext, Arbitrary, Finish

(***************************************************************************)
(* At every snapshot of the user's code the recorder's frames are exactly  *)
(* the calls the program is in, for every program laid out upwards:        *)
(* through third-party code, returns that leave no snapshot, and a jump    *)
(* back over several functions.                                            *)
(***************************************************************************)
THEOREM FramesMirrorCallsInvariant == ProgramSpec => []FramesMirrorCalls
<1>1. ProgramInit => CallsInv
  BY DEF ProgramInit, Init, FramesInit, CallsInv, NotStarted
<1>2. CallsInv => FramesMirrorCalls
  <2> SUFFICES ASSUME CallsInv, ~ arbitrary, ~ finished, at # Nil, IsUser(at)
               PROVE  fn_stack = ActiveFunctions
    BY DEF FramesMirrorCalls
  <2>1. Recorded(fn_stack, prev_line, prev_pc, call_sites, at)
    BY DEF CallsInv, NotStarted
  <2>2. PICK d \in Nat : d = Len(call_sites)
    BY <2>1 DEF Recorded, RunsIn
  <2>3. /\ fn_stack \in Seq(DOMAIN Body) /\ Len(fn_stack) = d + 1
        /\ call_sites \in Seq(CallSites) /\ at \in Compiled
        /\ \A i \in 1 .. d : FunctionOf(call_sites[i]) = fn_stack[i]
        /\ FunctionOf(at) = fn_stack[d + 1]
    BY <2>1, <2>2 DEF Recorded, RunsIn, Layered
  <2>4. /\ Append(call_sites, at)[d + 1] = at
        /\ \A i \in 1 .. d : Append(call_sites, at)[i] = call_sites[i]
    BY <2>2, <2>3
  <2>5. \A i \in 1 .. d + 1 : i \in 1 .. d \/ i = d + 1
    OBVIOUS
  <2>6. \A i \in 1 .. d + 1 : FunctionOf(Append(call_sites, at)[i]) = fn_stack[i]
    BY ONLY <2>3, <2>4, <2>5
  <2>7. fn_stack = [i \in 1 .. d + 1 |-> fn_stack[i]]
    BY <2>3
  <2> QED BY ONLY <2>2, <2>6, <2>7 DEF ActiveFunctions
<1>3. IInv /\ CallsInv /\ [ProgramNext]_<< vars, program_vars >> => CallsInv'
  BY NextCalls
<1>4. ProgramSpec => []IInv
  BY ProgramImplementsSpec, Invariant, PTL
<1> QED BY <1>1, <1>2, <1>3, <1>4, PTL DEF ProgramSpec
=============================================================================

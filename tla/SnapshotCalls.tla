--------------------------- MODULE SnapshotCalls ---------------------------
(***************************************************************************)
(* SnapshotRecorder driven by a program that really calls and returns.     *)
(* The interpreter's calls are external to the recorder, which has only    *)
(* the order of the pcs to tell a call from a return.                      *)
(*                                                                         *)
(* Once `arbitrary` is set the snapshots need not be of any program: the   *)
(* repository's tests write such sequences by hand.                        *)
(***************************************************************************)
EXTENDS SnapshotRecorder

CONSTANTS
  Body,     \* Body[f]: the pcs of function f
  CallsTo   \* CallsTo[pc]: the pcs the instruction at pc can call

VARIABLES
  at,          \* the pc of the last snapshot, Nil before the first
  call_sites,  \* the pcs of the calls the program is in, outermost first
  arbitrary

program_vars == << at, call_sites, arbitrary >>

IsUser(pc) == Location[pc] # Nil /\ Location[pc].file \notin ThirdParty

IsThirdParty(pc) == Location[pc] # Nil /\ Location[pc].file \in ThirdParty

FunctionOf(pc) == CHOOSE f \in DOMAIN Body : pc \in Body[f]

Compiled == UNION {Body[f] : f \in DOMAIN Body}

ASSUME BodyType ==
  /\ Nil \notin DOMAIN Body
  /\ Compiled \subseteq DOMAIN Location
  /\ \A f, g \in DOMAIN Body : f # g => Body[f] \cap Body[g] = {}
  /\ \A pc \in Compiled : CallsTo[pc] \subseteq Compiled

\* g is compiled above f, far enough for a jump between them to be seen.
FarAbove(g, f) == \A p \in Body[f], q \in Body[g] : q > p + 2

\* What the heuristic takes for granted: a located pc of the user's code is
\* on a line of its function, the user's calls are located, and functions
\* only call upwards.
ASSUME LaidOutUpwards ==
  \A pc \in Compiled :
    /\ IsUser(pc) => TargetFn(pc) = FunctionOf(pc)
    /\ \A target \in CallsTo[pc] :
         IsUser(pc) /\ FarAbove(FunctionOf(target), FunctionOf(pc))

\* A function of the user's into which third-party code is inlined.
HasInlined(f) == (\E pc \in Body[f] : IsUser(pc)) /\ (\E pc \in Body[f] : IsThirdParty(pc))

\* It takes as well that such a function is entered and returned to on the
\* user's own code: an absorbed snapshot moves prev_pc, so behind it the jump
\* of the call or the return is no longer seen.
ASSUME InlinedInside ==
  \A pc \in Compiled, target \in Compiled :
    /\ target \in CallsTo[pc] /\ HasInlined(FunctionOf(target)) => IsUser(target)
    /\ CallsTo[pc] # {} /\ HasInlined(FunctionOf(pc)) /\ target = pc + 1 => IsUser(target)

----------------------------------------------------------------------------
ProgramInit ==
  /\ Init
  /\ at = Nil
  /\ call_sites = << >>
  /\ arbitrary = FALSE

Execute(pc) ==
  /\ at' = pc
  /\ Record(pc)
  /\ UNCHANGED arbitrary

Running == at # Nil /\ ~ arbitrary

Start(pc) ==
  /\ at = Nil
  /\ pc \in Compiled
  /\ IsUser(pc)
  /\ UNCHANGED call_sites
  /\ Execute(pc)

RunOn(pc) ==
  /\ Running
  /\ CallsTo[at] = {}
  /\ pc \in Body[FunctionOf(at)]
  /\ UNCHANGED call_sites
  /\ Execute(pc)

Call(pc) ==
  /\ Running
  /\ pc \in CallsTo[at]
  /\ call_sites' = Append(call_sites, at)
  /\ Execute(pc)

ReturnToCaller(pc) ==
  /\ Running
  /\ call_sites # << >>
  /\ CallsTo[at] = {}
  /\ pc = call_sites[Len(call_sites)] + 1
  /\ pc \in Body[FunctionOf(call_sites[Len(call_sites)])]
  /\ call_sites' = SubSeq(call_sites, 1, Len(call_sites) - 1)
  /\ Execute(pc)

\* A snapshot that follows the last one in no program.
Arbitrary(pc) ==
  /\ arbitrary' = TRUE
  /\ at' = pc
  /\ call_sites' = << >>
  /\ Record(pc)

ProgramNext ==
  \/ \E pc \in DOMAIN Location :
       Start(pc) \/ RunOn(pc) \/ Call(pc) \/ ReturnToCaller(pc) \/ Arbitrary(pc)
  \/ Finish /\ UNCHANGED program_vars

ProgramSpec == ProgramInit /\ [][ProgramNext]_<< vars, program_vars >>

\* The snapshots of a program only.
CompiledSpec ==
  ProgramInit /\ [][ProgramNext /\ ~ arbitrary']_<< vars, program_vars >>

----------------------------------------------------------------------------
\* The functions the program is in, outermost first.
ActiveFunctions ==
  [i \in 1 .. Len(call_sites) + 1 |-> FunctionOf(Append(call_sites, at)[i])]

(***************************************************************************)
(* At a snapshot of the user's code, the recorder's frames are the calls   *)
(* the program is in: each call, each return, and each return through      *)
(* several functions that leave no snapshot has been told from its jump,   *)
(* whatever third-party code ran in between.                               *)
(***************************************************************************)
FramesMirrorCalls ==
  ~ arbitrary /\ ~ finished /\ at # Nil /\ IsUser(at) => fn_stack = ActiveFunctions

\* No two of the user's files have a line number in common.
UserLinesTellFiles ==
  \A p, q \in DOMAIN Location :
    IsUser(p) /\ IsUser(q) /\ Location[p].line = Location[q].line
      => Location[p].file = Location[q].file

(***************************************************************************)
(* The debugger's position is that of the last snapshot of the user's      *)
(* code, by file and line, and by column where one can be written;         *)
(* provided UserLinesTellFiles, since lines are compared without files.    *)
(***************************************************************************)
PositionIsCurrent ==
  at # Nil /\ IsUser(at) =>
    /\ trace.position # Nil
    /\ trace.position.file = Location[at].file
    /\ trace.position.line = Location[at].line
    /\ WrittenColumn(Location[at]) # Nil
         => trace.position.column = WrittenColumn(Location[at])
=============================================================================

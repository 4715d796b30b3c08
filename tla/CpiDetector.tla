---------------------------- MODULE CpiDetector ----------------------------
(***************************************************************************)
(* The detector of cross-program invocations (src/src/cpi.rs).  It sees    *)
(* one register snapshot at a time and knows nothing but its pc: a pc      *)
(* outside the range of the current program is a call into another         *)
(* program, or the return to one that is already on the stack.             *)
(*                                                                         *)
(* A `Range<u64>` is modelled as the set of the pcs it contains.           *)
(***************************************************************************)
EXTENDS Naturals, Sequences

CONSTANTS
  PC,          \* the program counters snapshots can carry
  KnownRanges, \* the (name, range) list the detector is given, primary first
  UnknownName  \* what `unknown_at_{pc}` is for a pc of no known range

ASSUME KnownRangesType ==
  /\ PC \subseteq Nat
  /\ KnownRanges \in Seq([name : STRING, range : SUBSET PC])
  /\ KnownRanges # << >>
  /\ UnknownName \in STRING

\* Two programs never share an address (the .text sections are laid out
\* apart), so that a pc identifies its program.
ASSUME KnownRangesDisjoint ==
  \A i, j \in DOMAIN KnownRanges :
    i # j => KnownRanges[i].range \cap KnownRanges[j].range = {}

VARIABLE context_stack  \* CpiContext records, the primary program first

----------------------------------------------------------------------------
Top == context_stack[Len(context_stack)]

\* The known ranges a pc falls in.
Covering(pc) == {i \in DOMAIN KnownRanges : pc \in KnownRanges[i].range}

\* Defect: the known ranges are never consulted.
AnonymousContext(pc) == [name |-> UnknownName, range |-> {pc}]

\* The context pushed for a pc: the first known range that contains it, and
\* for a pc no range contains, a context of that one instruction.
ContextFor(pc) ==
  IF Covering(pc) = {}
    THEN [name |-> UnknownName, range |-> {pc}]
    ELSE KnownRanges[CHOOSE i \in Covering(pc) : \A j \in Covering(pc) : i <= j]

\* Defect: the walk starts one entry too low and misses the caller.
EnclosingSkipsCaller(pc) ==
  {i \in 1 .. Len(context_stack) - 2 : pc \in context_stack[i].range}

\* The contexts below the current one that contain a pc.
Enclosing(pc) == {i \in 1 .. Len(context_stack) - 1 : pc \in context_stack[i].range}

Innermost(S) == CHOOSE i \in S : \A j \in S : j <= i

----------------------------------------------------------------------------
DetectorInit == context_stack = << KnownRanges[1] >>

SameProgram(pc) ==
  /\ pc \in Top.range
  /\ UNCHANGED context_stack

\* Defect: truncate(i) for truncate(i + 1).
CpiReturnTruncatesTooFar(pc) ==
  /\ pc \notin Top.range
  /\ Enclosing(pc) # {}
  /\ context_stack' = SubSeq(context_stack, 1, Innermost(Enclosing(pc)) - 1)

\* Defect: a return pops one context, whichever level it returns to.
CpiReturnPopsOne(pc) ==
  /\ pc \notin Top.range
  /\ Enclosing(pc) # {}
  /\ context_stack' = SubSeq(context_stack, 1, Len(context_stack) - 1)

CpiReturn(pc) ==
  /\ pc \notin Top.range
  /\ Enclosing(pc) # {}
  /\ context_stack' = SubSeq(context_stack, 1, Innermost(Enclosing(pc)))

CpiCall(pc) ==
  /\ pc \notin Top.range
  /\ Enclosing(pc) = {}
  /\ context_stack' = Append(context_stack, ContextFor(pc))

ProcessSnapshot(pc) == SameProgram(pc) \/ CpiReturn(pc) \/ CpiCall(pc)

call_depth == Len(context_stack) - 1

----------------------------------------------------------------------------
Context == [name : STRING, range : SUBSET PC]

DetectorTypeOK ==
  /\ context_stack \in Seq(Context)
  /\ context_stack # << >>

(***************************************************************************)
(* No pc belongs to two contexts of the stack, so that the walk of         *)
(* process_snapshot from the innermost context outwards has one answer.    *)
(***************************************************************************)
ContextsDisjoint ==
  \A i, j \in DOMAIN context_stack :
    i # j => context_stack[i].range \cap context_stack[j].range = {}

\* A context is a known range, or one instruction no known range contains.
ContextWellFormed(c) ==
  \/ \E k \in DOMAIN KnownRanges : c = KnownRanges[k]
  \/ \E p \in PC : c = [name |-> UnknownName, range |-> {p}] /\ Covering(p) = {}
=============================================================================

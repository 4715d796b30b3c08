---------------------------- MODULE CpiTracking ----------------------------
(***************************************************************************)
(* The detector of CpiDetector driven by what it is meant to follow: the   *)
(* invocations of the Solana runtime.  The runtime keeps a stack of the    *)
(* programs that have been invoked and not returned; the recorder never    *)
(* sees it, only the pc of each executed instruction, from which the       *)
(* detector rebuilds the stack.                                            *)
(*                                                                         *)
(* A program the detector has no range for (`unknown_program` in           *)
(* record_with_cpi) is invoked like any other.                             *)
(***************************************************************************)
EXTENDS CpiDetector, FiniteSets

CONSTANTS
  Programs,        \* every program the transaction may invoke
  Code,            \* Code[p]: the pcs of program p
  MaxInvokeDepth   \* the runtime's limit on nested invocations

ASSUME ProgramsType ==
  /\ Programs \subseteq STRING \ {UnknownName}
  /\ Code \in [Programs -> SUBSET PC]
  /\ MaxInvokeDepth \in Nat \ {0}
  /\ \A p, q \in Programs : p # q => Code[p] \cap Code[q] = {}

\* The ranges handed to the detector are those of the programs they name.
ASSUME KnownRangesAreCode ==
  /\ \A i \in DOMAIN KnownRanges :
       /\ KnownRanges[i].name \in Programs
       /\ KnownRanges[i].range = Code[KnownRanges[i].name]
  /\ \A i, j \in DOMAIN KnownRanges :
       KnownRanges[i].name = KnownRanges[j].name => i = j

VARIABLES
  invoke_stack,  \* the runtime's stack of programs, the transaction's first
  last_pc        \* the pc of the last snapshot handed to the detector

vars == << context_stack, invoke_stack, last_pc >>

Registered == {KnownRanges[i].name : i \in DOMAIN KnownRanges}

Running == invoke_stack[Len(invoke_stack)]

----------------------------------------------------------------------------
Init ==
  /\ DetectorInit
  /\ invoke_stack = << KnownRanges[1].name >>
  /\ last_pc \in Code[KnownRanges[1].name]

\* The snapshot of the next instruction, which is one of the running program.
Snapshot ==
  \E pc \in Code[invoke_stack'[Len(invoke_stack')]] :
    /\ ProcessSnapshot(pc)
    /\ last_pc' = pc

Execute == UNCHANGED invoke_stack /\ Snapshot

\* The runtime refuses a program that already waits on the stack.  It lets
\* the running program invoke itself, but that executes the same range: to
\* the detector, and in this stack of program switches, it is an Execute.
Invoke(p) ==
  /\ Len(invoke_stack) < MaxInvokeDepth
  /\ p \notin {invoke_stack[i] : i \in DOMAIN invoke_stack}
  /\ invoke_stack' = Append(invoke_stack, p)
  /\ Snapshot

Return ==
  /\ Len(invoke_stack) > 1
  /\ invoke_stack' = SubSeq(invoke_stack, 1, Len(invoke_stack) - 1)
  /\ Snapshot

Next == Execute \/ (\E p \in Programs : Invoke(p)) \/ Return

Spec == Init /\ [][Next]_vars

----------------------------------------------------------------------------
TypeOK ==
  /\ DetectorTypeOK
  /\ invoke_stack \in Seq(Programs)
  /\ Len(invoke_stack) \in 1 .. MaxInvokeDepth
  /\ last_pc \in PC

(***************************************************************************)
(* The current context is the one that executed last: every name and path  *)
(* record_with_cpi derives from current_program() is about this pc.        *)
(***************************************************************************)
TopCoversPc == last_pc \in Top.range

\* The lowest programs of the runtime's stack the detector has ranges for.
RegisteredPrefix ==
  {n \in 1 .. Len(invoke_stack) : \A i \in 1 .. n : invoke_stack[i] \in Registered}

(***************************************************************************)
(* The detector's stack is the runtime's, up to the first program it has   *)
(* no range for; and when every invoked program is registered it is the    *)
(* whole stack, whatever unregistered programs did before they returned.   *)
(* One CpiCall per invocation, one CpiReturn per return.                   *)
(***************************************************************************)
MirrorsInvocations ==
  \A n \in RegisteredPrefix :
    /\ Len(context_stack) >= n
    /\ \A i \in 1 .. n : context_stack[i].name = invoke_stack[i]
    /\ n = Len(invoke_stack) => Len(context_stack) = n
----------------------------------------------------------------------------
\* The strengthening that makes the three invariants above inductive.

NoReentrance ==
  \A i, j \in DOMAIN invoke_stack : invoke_stack[i] = invoke_stack[j] => i = j

(***************************************************************************)
(* The inductive invariant of Spec.                                        *)
(***************************************************************************)
IInv ==
  /\ TypeOK
  /\ \A i \in DOMAIN context_stack : ContextWellFormed(context_stack[i])
  /\ ContextsDisjoint
  /\ NoReentrance
  /\ TopCoversPc
  /\ MirrorsInvocations
=============================================================================

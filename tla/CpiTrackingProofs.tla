------------------------- MODULE CpiTrackingProofs -------------------------
(***************************************************************************)
(* The detector follows the runtime, for every set of programs and every   *)
(* layout of their code.                                                   *)
(***************************************************************************)
EXTENDS CpiTracking, SharedLemmas

----------------------------------------------------------------------------
(***************************************************************************)
(* What process_snapshot does to the detector's stack, for any ranges and  *)
(* any sequence of pcs.                                                    *)
(***************************************************************************)

(***************************************************************************)
(* A non-empty set of stack positions has an innermost one.                *)
(***************************************************************************)
LEMMA InnermostIsMember ==
  ASSUME NEW n \in Nat, NEW S \in SUBSET (1 .. n), S # {}
  PROVE  /\ Innermost(S) \in S
         /\ \A j \in S : j <= Innermost(S)
<1>1. \E i \in S : \A j \in S : j <= i
  <2>1. 1 \in Int /\ n \in Int /\ \A i \in S : i \in 1 .. n
    OBVIOUS
  <2> QED BY ONLY <2>1, S # {}, GreatestMember, Zenon
<1> QED BY <1>1 DEF Innermost

(***************************************************************************)
(* The context pushed for a pc contains it, and is a known range whenever  *)
(* one contains it (the first that does).                                  *)
(***************************************************************************)
LEMMA ContextForPc ==
  ASSUME NEW pc \in PC
  PROVE  /\ pc \in ContextFor(pc).range
         /\ ContextWellFormed(ContextFor(pc))
         /\ ContextFor(pc) \in Context
         /\ \A k \in Covering(pc) : ContextFor(pc) = KnownRanges[k]
<1>1. CASE Covering(pc) = {}
  <2>1. ContextFor(pc) = [name |-> UnknownName, range |-> {pc}]
    BY <1>1 DEF ContextFor
  <2>2. pc \in ContextFor(pc).range
    BY <2>1
  <2>3. ContextWellFormed(ContextFor(pc))
    BY <1>1, <2>1 DEF ContextWellFormed
  <2>4. [name |-> UnknownName, range |-> {pc}] \in Context
    <3>1. {pc} \in SUBSET PC
      OBVIOUS
    <3>2. UnknownName \in STRING
      BY KnownRangesType
    <3> QED BY <3>1, <3>2 DEF Context
  <2> QED BY <1>1, <2>1, <2>2, <2>3, <2>4
<1>2. CASE Covering(pc) # {}
  <2>1. Covering(pc) \in SUBSET Nat
    BY KnownRangesType DEF Covering
  <2>2. \E i \in Covering(pc) : \A j \in Covering(pc) : i <= j
    BY <1>2, <2>1, LeastMember
  <2> DEFINE first == CHOOSE m \in Covering(pc) : \A j \in Covering(pc) : m <= j
  <2>3. first \in Covering(pc)
    BY <2>2
  <2>4. ContextFor(pc) = KnownRanges[first]
    BY <1>2 DEF ContextFor
  <2> HIDE DEF first
  <2>5. first \in DOMAIN KnownRanges /\ pc \in KnownRanges[first].range
    BY <2>3 DEF Covering
  <2>6. \A k \in Covering(pc) : k = first
    BY <2>5, KnownRangesDisjoint DEF Covering
  <2>7. KnownRanges[first] \in Context
    <3>1. KnownRanges \in Seq(Context)
      BY KnownRangesType, Zenon DEF Context
    <3> QED BY <2>5, <3>1
  <2>8. ContextWellFormed(KnownRanges[first])
    BY <2>5 DEF ContextWellFormed
  <2> QED BY <2>4, <2>5, <2>6, <2>7, <2>8
<1> QED BY <1>1, <1>2

(***************************************************************************)
(* Two well-formed contexts that do not share every pc share none.         *)
(***************************************************************************)
LEMMA FreshContextIsDisjoint ==
  ASSUME NEW pc \in PC, NEW c, ContextWellFormed(c), pc \notin c.range
  PROVE  c.range \cap ContextFor(pc).range = {}
<1>1. CASE Covering(pc) = {}
  BY <1>1 DEF ContextFor
<1>2. ASSUME NEW k \in Covering(pc) PROVE c.range \cap ContextFor(pc).range = {}
  <2>1. ContextFor(pc) = KnownRanges[k] /\ k \in DOMAIN KnownRanges
    BY ContextForPc DEF Covering
  <2>2. CASE \E m \in DOMAIN KnownRanges : c = KnownRanges[m]
    BY <2>1, <2>2, <1>2, KnownRangesDisjoint DEF Covering
  <2>3. CASE \E p \in PC : c = [name |-> UnknownName, range |-> {p}] /\ Covering(p) = {}
    BY <2>1, <2>3 DEF Covering
  <2> QED BY <2>2, <2>3 DEF ContextWellFormed
<1> QED BY <1>1, <1>2

(***************************************************************************)
(* What a snapshot does to the detector's stack: it cuts it back to the    *)
(* context that contains the pc, or pushes one when none does.             *)
(***************************************************************************)
LEMMA SnapshotCutsOrPushes ==
  ASSUME DetectorTypeOK, ContextsDisjoint, NEW pc \in PC, ProcessSnapshot(pc)
  PROVE  \/ \E i \in 1 .. Len(context_stack) :
              /\ pc \in context_stack[i].range
              /\ context_stack' = SubSeq(context_stack, 1, i)
         \/ /\ \A i \in 1 .. Len(context_stack) : pc \notin context_stack[i].range
            /\ context_stack' = Append(context_stack, ContextFor(pc))
<1> DEFINE n == Len(context_stack)
<1>0. n \in Nat \ {0} /\ context_stack \in Seq(Context)
  BY DEF DetectorTypeOK
<1>1. CASE SameProgram(pc)
  <2>1. context_stack' = SubSeq(context_stack, 1, n)
    BY <1>0, <1>1 DEF SameProgram
  <2> QED BY <1>0, <1>1, <2>1 DEF SameProgram, Top
<1>2. CASE CpiReturn(pc)
  <2>1. Enclosing(pc) \in SUBSET (1 .. n - 1) /\ Enclosing(pc) # {}
    BY <1>2 DEF CpiReturn, Enclosing
  <2>2. n - 1 \in Nat
    BY <1>0
  <2>3. PICK i \in Enclosing(pc) : i = Innermost(Enclosing(pc))
    BY <2>1, <2>2, InnermostIsMember
  <2>4. i \in 1 .. n /\ pc \in context_stack[i].range
    BY <1>0, <2>1, <2>3 DEF Enclosing
  <2>5. context_stack' = SubSeq(context_stack, 1, i)
    BY <1>2, <2>3 DEF CpiReturn
  <2> QED BY <2>4, <2>5
<1>3. CASE CpiCall(pc)
  <2>1. \A i \in 1 .. n : pc \notin context_stack[i].range
    BY <1>0, <1>3 DEF CpiCall, Enclosing, Top
  <2> QED BY <1>3, <2>1 DEF CpiCall
<1> QED BY <1>1, <1>2, <1>3 DEF ProcessSnapshot

(***************************************************************************)
(* A snapshot keeps the detector's own part of the invariant.              *)
(***************************************************************************)
LEMMA DetectorStep ==
  ASSUME DetectorTypeOK, ContextsDisjoint, NEW pc \in PC, ProcessSnapshot(pc),
         \A i \in DOMAIN context_stack : ContextWellFormed(context_stack[i])
  PROVE  /\ DetectorTypeOK'
         /\ ContextsDisjoint'
         /\ \A i \in DOMAIN context_stack' : ContextWellFormed(context_stack'[i])
         /\ pc \in Top'.range
<1>0. Len(context_stack) \in Nat \ {0} /\ context_stack \in Seq(Context)
  BY DEF DetectorTypeOK
<1>1. ASSUME NEW i \in 1 .. Len(context_stack),
             pc \in context_stack[i].range,
             context_stack' = SubSeq(context_stack, 1, i)
      PROVE  /\ DetectorTypeOK'
             /\ ContextsDisjoint'
             /\ \A j \in DOMAIN context_stack' : ContextWellFormed(context_stack'[j])
             /\ pc \in Top'.range
  <2>1. /\ context_stack' \in Seq(Context)
        /\ Len(context_stack') = i
        /\ \A j \in 1 .. i : context_stack'[j] = context_stack[j]
    BY <1>0, <1>1
  <2>2. DetectorTypeOK'
    BY <2>1 DEF DetectorTypeOK
  <2>3. ContextsDisjoint'
    BY <1>0, <2>1 DEF ContextsDisjoint
  <2>4. \A j \in DOMAIN context_stack' : ContextWellFormed(context_stack'[j])
    BY <1>0, <2>1
  <2>5. pc \in Top'.range
    BY <1>1, <2>1 DEF Top
  <2> QED BY <2>2, <2>3, <2>4, <2>5
<1>2. ASSUME \A i \in 1 .. Len(context_stack) : pc \notin context_stack[i].range,
             context_stack' = Append(context_stack, ContextFor(pc))
      PROVE  /\ DetectorTypeOK'
             /\ ContextsDisjoint'
             /\ \A j \in DOMAIN context_stack' : ContextWellFormed(context_stack'[j])
             /\ pc \in Top'.range
  <2> DEFINE n == Len(context_stack)
  <2> DEFINE c == ContextFor(pc)
  <2>1. c \in Context /\ ContextWellFormed(c) /\ pc \in c.range
    BY ContextForPc
  <2>2. \A i \in 1 .. n : context_stack[i].range \cap c.range = {}
    BY <1>0, <1>2, FreshContextIsDisjoint
  <2> HIDE DEF c
  <2>3. context_stack' = Append(context_stack, c)
    BY <1>2 DEF c
  <2>4. /\ context_stack' \in Seq(Context)
        /\ Len(context_stack') = n + 1
        /\ \A j \in 1 .. n : context_stack'[j] = context_stack[j]
        /\ context_stack'[n + 1] = c
    BY <1>0, <2>1, <2>3
  <2>5. DetectorTypeOK'
    BY <1>0, <2>4 DEF DetectorTypeOK
  <2>6. ContextsDisjoint'
    BY <1>0, <2>2, <2>4 DEF ContextsDisjoint
  <2>7. \A j \in DOMAIN context_stack' : ContextWellFormed(context_stack'[j])
    BY <1>0, <2>1, <2>4
  <2>8. pc \in Top'.range
    BY <2>1, <2>4 DEF Top
  <2> QED BY <2>5, <2>6, <2>7, <2>8
<1> QED BY <1>1, <1>2, SnapshotCutsOrPushes

----------------------------------------------------------------------------
(***************************************************************************)
(* A context named after a program covers exactly that program's code.     *)
(***************************************************************************)
LEMMA NamedContextIsCode ==
  ASSUME NEW c, ContextWellFormed(c), c.name \in Programs
  PROVE  c.range = Code[c.name]
<1>1. CASE \E k \in DOMAIN KnownRanges : c = KnownRanges[k]
  BY <1>1, KnownRangesAreCode
<1>2. CASE \E p \in PC : c = [name |-> UnknownName, range |-> {p}] /\ Covering(p) = {}
  <2>1. UnknownName \notin Programs
    BY ProgramsType
  <2>2. c.name = UnknownName
    BY <1>2
  <2> QED BY <2>1, <2>2
<1> QED BY <1>1, <1>2 DEF ContextWellFormed

(***************************************************************************)
(* A snapshot of program q leaves the contexts of the registered programs  *)
(* below q as they are; if q itself is one of them, its context becomes    *)
(* the current one, and otherwise some context is above them.              *)
(***************************************************************************)
LEMMA SnapshotOfProgram ==
  ASSUME IInv, NEW q \in Programs, NEW pc \in Code[q], ProcessSnapshot(pc),
         NEW n \in RegisteredPrefix
  PROVE  /\ \A k \in 1 .. n : invoke_stack[k] = q =>
              /\ Len(context_stack') = k
              /\ \A i \in 1 .. k : context_stack'[i] = context_stack[i]
         /\ (\A k \in 1 .. n : invoke_stack[k] # q) =>
              /\ Len(context_stack') > n
              /\ \A i \in 1 .. n : context_stack'[i] = context_stack[i]
              /\ \/ Len(context_stack) > n
                 \/ context_stack' = Append(context_stack, ContextFor(pc))
<1>0. /\ Len(context_stack) \in Nat \ {0}
      /\ context_stack \in Seq(Context)
      /\ DetectorTypeOK /\ ContextsDisjoint
      /\ invoke_stack \in Seq(Programs)
      /\ n \in 1 .. Len(invoke_stack)
      /\ n <= Len(context_stack)
  BY DEF IInv, TypeOK, DetectorTypeOK, MirrorsInvocations, RegisteredPrefix
<1>1. pc \in PC
  BY ProgramsType
<1>2. \A k \in 1 .. n : /\ invoke_stack[k] \in Programs
                        /\ context_stack[k].range = Code[invoke_stack[k]]
  <2> TAKE k \in 1 .. n
  <2>1. invoke_stack[k] \in Programs /\ context_stack[k].name = invoke_stack[k]
    BY <1>0 DEF IInv, MirrorsInvocations
  <2>2. ContextWellFormed(context_stack[k])
    BY <1>0 DEF IInv
  <2> QED BY <2>1, <2>2, NamedContextIsCode
<1>3. \A k \in 1 .. n : invoke_stack[k] # q => pc \notin context_stack[k].range
  BY <1>2, ProgramsType
<1>4. \A k \in 1 .. n : invoke_stack[k] = q => pc \in context_stack[k].range
  BY <1>2
<1>5. CASE \E i \in 1 .. Len(context_stack) :
             /\ pc \in context_stack[i].range
             /\ context_stack' = SubSeq(context_stack, 1, i)
  <2>1. PICK i \in 1 .. Len(context_stack) :
               /\ pc \in context_stack[i].range
               /\ context_stack' = SubSeq(context_stack, 1, i)
    BY <1>5
  <2>2. /\ Len(context_stack') = i
        /\ \A j \in 1 .. i : context_stack'[j] = context_stack[j]
    BY <1>0, <2>1
  <2>3. \A k \in 1 .. n : invoke_stack[k] = q => k = i
    BY <1>0, <1>4, <2>1 DEF ContextsDisjoint
  <2>4. (\A k \in 1 .. n : invoke_stack[k] # q) => i > n
    BY <1>0, <1>3, <2>1
  <2> QED BY <1>0, <2>2, <2>3, <2>4
<1>6. CASE /\ \A i \in 1 .. Len(context_stack) : pc \notin context_stack[i].range
           /\ context_stack' = Append(context_stack, ContextFor(pc))
  <2>1. \A k \in 1 .. n : invoke_stack[k] # q
    <3>1. \A k \in 1 .. n : k \in 1 .. Len(context_stack)
      BY <1>0
    <3> QED BY <1>4, <1>6, <3>1, Zenon
  <2> DEFINE c == ContextFor(pc)
  <2>2. c \in Context
    BY <1>1, ContextForPc
  <2> HIDE DEF c
  <2>3. context_stack' = Append(context_stack, c)
    BY <1>6 DEF c
  <2>4. /\ Len(context_stack') > n
        /\ \A i \in 1 .. n : context_stack'[i] = context_stack[i]
    BY <1>0, <2>2, <2>3
  <2> QED BY <1>6, <2>1, <2>4
<1> QED BY <1>0, <1>1, <1>5, <1>6, SnapshotCutsOrPushes

(***************************************************************************)
(* The runtime's part of a step: the stack it leaves, and what the parts   *)
(* of the invariant about the detector alone become.                       *)
(***************************************************************************)
LEMMA SnapshotStep ==
  ASSUME IInv, invoke_stack' \in Seq(Programs), Len(invoke_stack') \in 1 .. MaxInvokeDepth,
         NoReentrance',
         NEW pc \in Code[Running'], ProcessSnapshot(pc), last_pc' = pc,
         MirrorsInvocations'
  PROVE  IInv'
<1>1. Running' \in Programs
  BY DEF Running
<1>2. pc \in PC
  BY <1>1, ProgramsType
<1>3. /\ DetectorTypeOK'
      /\ ContextsDisjoint'
      /\ \A i \in DOMAIN context_stack' : ContextWellFormed(context_stack'[i])
      /\ pc \in Top'.range
  BY <1>2, DetectorStep DEF IInv, TypeOK
<1>4. TypeOK'
  BY <1>2, <1>3 DEF TypeOK
<1>5. TopCoversPc'
  BY <1>3 DEF TopCoversPc
<1> QED BY <1>3, <1>4, <1>5 DEF IInv

(***************************************************************************)
(* Executing an instruction of the running program keeps the mirror.       *)
(***************************************************************************)
LEMMA ExecuteMirrors ==
  ASSUME IInv, NEW pc \in Code[Running'], ProcessSnapshot(pc), UNCHANGED invoke_stack
  PROVE  MirrorsInvocations'
<1> SUFFICES ASSUME NEW n \in RegisteredPrefix'
             PROVE  /\ Len(context_stack') >= n
                    /\ \A i \in 1 .. n : context_stack'[i].name = invoke_stack'[i]
                    /\ n = Len(invoke_stack') => Len(context_stack') = n
  BY DEF MirrorsInvocations
<1> DEFINE m == Len(invoke_stack)
<1>1. /\ invoke_stack \in Seq(Programs) /\ m \in Nat \ {0}
      /\ n \in RegisteredPrefix /\ n \in 1 .. m
      /\ invoke_stack[m] \in Programs /\ Running' = invoke_stack[m]
  BY DEF IInv, TypeOK, RegisteredPrefix, Running
<1>2. \A i \in 1 .. n : context_stack[i].name = invoke_stack[i]
  BY <1>1 DEF IInv, MirrorsInvocations
<1>3. \A k \in 1 .. n : invoke_stack[k] = invoke_stack[m] => k = m
  BY <1>1 DEF IInv, NoReentrance
<1>4. CASE n = m
  <2>1. Len(context_stack') = n /\ \A i \in 1 .. n : context_stack'[i] = context_stack[i]
    BY <1>1, <1>4, SnapshotOfProgram
  <2> QED BY <1>1, <1>2, <2>1
<1>5. CASE n < m
  <2>1. Len(context_stack') > n /\ \A i \in 1 .. n : context_stack'[i] = context_stack[i]
    BY <1>1, <1>3, <1>5, SnapshotOfProgram
  <2> QED BY <1>1, <1>2, <1>5, <2>1
<1> QED BY <1>1, <1>4, <1>5

(***************************************************************************)
(* Invoking a program keeps the mirror.                                    *)
(***************************************************************************)
LEMMA InvokeMirrors ==
  ASSUME IInv, NEW q \in Programs,
         q \notin {invoke_stack[i] : i \in DOMAIN invoke_stack},
         invoke_stack' = Append(invoke_stack, q),
         NEW pc \in Code[q], ProcessSnapshot(pc)
  PROVE  MirrorsInvocations'
<1> SUFFICES ASSUME NEW n \in RegisteredPrefix'
             PROVE  /\ Len(context_stack') >= n
                    /\ \A i \in 1 .. n : context_stack'[i].name = invoke_stack'[i]
                    /\ n = Len(invoke_stack') => Len(context_stack') = n
  BY DEF MirrorsInvocations
<1> DEFINE m == Len(invoke_stack)
<1>1. /\ invoke_stack \in Seq(Programs) /\ m \in Nat \ {0}
      /\ Len(invoke_stack') = m + 1 /\ invoke_stack'[m + 1] = q
      /\ \A i \in 1 .. m : invoke_stack'[i] = invoke_stack[i]
      /\ \A i \in 1 .. m : invoke_stack[i] # q
  BY DEF IInv, TypeOK
<1>2. /\ n \in 1 .. m + 1
      /\ \A i \in 1 .. n : invoke_stack'[i] \in Registered
  BY <1>1 DEF RegisteredPrefix
<1>3. CASE n <= m
  <2>1. n \in RegisteredPrefix
    BY <1>1, <1>2, <1>3 DEF RegisteredPrefix
  <2>2. \A i \in 1 .. n : context_stack[i].name = invoke_stack[i]
    BY <2>1 DEF IInv, MirrorsInvocations
  <2>3. Len(context_stack') > n /\ \A i \in 1 .. n : context_stack'[i] = context_stack[i]
    BY <1>1, <1>3, <1>2, <2>1, SnapshotOfProgram
  <2> QED BY <1>1, <1>2, <1>3, <2>2, <2>3
<1>4. CASE n = m + 1
  <2>1. m \in RegisteredPrefix
    BY <1>1, <1>2, <1>4 DEF RegisteredPrefix
  <2>2. /\ Len(context_stack) = m
        /\ \A i \in 1 .. m : context_stack[i].name = invoke_stack[i]
    BY <2>1 DEF IInv, MirrorsInvocations
  <2>3. /\ context_stack' = Append(context_stack, ContextFor(pc))
        /\ \A i \in 1 .. m : context_stack'[i] = context_stack[i]
    BY <1>1, <2>1, <2>2, SnapshotOfProgram
  <2>4. q \in Registered
    BY <1>1, <1>2, <1>4
  <2>5. PICK k \in DOMAIN KnownRanges : KnownRanges[k].name = q
    BY <2>4 DEF Registered
  <2>6. k \in Covering(pc) /\ pc \in PC
    BY <2>5, KnownRangesAreCode, ProgramsType DEF Covering
  <2>7. ContextFor(pc).name = q
    BY <2>5, <2>6, ContextForPc
  <2>8. ContextFor(pc) \in Context /\ context_stack \in Seq(Context)
    BY <2>6, ContextForPc DEF IInv, TypeOK, DetectorTypeOK
  <2>9. Len(context_stack') = m + 1 /\ context_stack'[m + 1] = ContextFor(pc)
    BY <1>1, <2>2, <2>3, <2>8
  <2> QED BY <1>1, <1>4, <2>2, <2>3, <2>7, <2>9
<1> QED BY <1>1, <1>2, <1>3, <1>4

(***************************************************************************)
(* Returning to the invoking program keeps the mirror.                     *)
(***************************************************************************)
LEMMA ReturnMirrors ==
  ASSUME IInv, Len(invoke_stack) > 1,
         invoke_stack' = SubSeq(invoke_stack, 1, Len(invoke_stack) - 1),
         NEW pc \in Code[Running'], ProcessSnapshot(pc)
  PROVE  MirrorsInvocations'
<1> SUFFICES ASSUME NEW n \in RegisteredPrefix'
             PROVE  /\ Len(context_stack') >= n
                    /\ \A i \in 1 .. n : context_stack'[i].name = invoke_stack'[i]
                    /\ n = Len(invoke_stack') => Len(context_stack') = n
  BY DEF MirrorsInvocations
<1> DEFINE m == Len(invoke_stack) - 1
<1>1. /\ invoke_stack \in Seq(Programs) /\ m \in Nat \ {0} /\ Len(invoke_stack) = m + 1
      /\ Len(invoke_stack') = m
      /\ \A i \in 1 .. m : invoke_stack'[i] = invoke_stack[i]
      /\ invoke_stack[m] \in Programs /\ Running' = invoke_stack[m]
  BY DEF IInv, TypeOK, Running
<1> HIDE DEF m
<1>2. n \in 1 .. m /\ n \in RegisteredPrefix
  BY <1>1 DEF RegisteredPrefix
<1>3. \A i \in 1 .. n : context_stack[i].name = invoke_stack[i]
  BY <1>2 DEF IInv, MirrorsInvocations
<1>4. \A k \in 1 .. n : invoke_stack[k] = invoke_stack[m] => k = m
  BY <1>1, <1>2 DEF IInv, NoReentrance
<1>5. CASE n = m
  <2>1. Len(context_stack') = n /\ \A i \in 1 .. n : context_stack'[i] = context_stack[i]
    BY <1>1, <1>2, <1>5, SnapshotOfProgram
  <2> QED BY <1>1, <1>2, <1>3, <2>1
<1>6. CASE n < m
  <2>1. Len(context_stack') > n /\ \A i \in 1 .. n : context_stack'[i] = context_stack[i]
    BY <1>1, <1>2, <1>4, <1>6, SnapshotOfProgram
  <2> QED BY <1>1, <1>2, <1>3, <1>6, <2>1
<1> QED BY <1>1, <1>2, <1>5, <1>6

(***************************************************************************)
(* Initially the detector's only context is that of the transaction's      *)
(* program.                                                                *)
(***************************************************************************)
LEMMA InitEstablishes == Init => IInv
<1> SUFFICES ASSUME Init PROVE IInv
  OBVIOUS
<1> DEFINE primary == KnownRanges[1]
<1>1. 1 \in DOMAIN KnownRanges /\ primary \in Context
  <2>1. KnownRanges \in Seq(Context) /\ KnownRanges # << >>
    BY KnownRangesType, Zenon DEF Context
  <2> QED BY <2>1
<1>2. primary.name \in Programs /\ primary.range = Code[primary.name]
  BY <1>1, KnownRangesAreCode
<1> HIDE DEF primary
<1>3. /\ context_stack = << primary >> /\ invoke_stack = << primary.name >>
      /\ last_pc \in Code[primary.name]
  BY DEF Init, DetectorInit, primary
<1>4. TypeOK
  <2>1. last_pc \in PC
    BY <1>2, <1>3, ProgramsType
  <2> QED BY <1>1, <1>2, <1>3, <2>1, ProgramsType DEF TypeOK, DetectorTypeOK
<1>5. \A i \in DOMAIN context_stack : ContextWellFormed(context_stack[i])
  BY <1>1, <1>3 DEF ContextWellFormed, primary
<1>6. ContextsDisjoint /\ NoReentrance
  BY <1>3 DEF ContextsDisjoint, NoReentrance
<1>7. TopCoversPc
  BY <1>2, <1>3 DEF TopCoversPc, Top
<1>8. MirrorsInvocations
  BY <1>3 DEF MirrorsInvocations, RegisteredPrefix
<1> QED BY <1>4, <1>5, <1>6, <1>7, <1>8 DEF IInv

(***************************************************************************)
(* Every step of the runtime and the detector keeps the invariant.         *)
(***************************************************************************)
LEMMA NextPreserves == IInv /\ [Next]_vars => IInv'
<1> SUFFICES ASSUME IInv, [Next]_vars PROVE IInv'
  OBVIOUS
<1>0. /\ invoke_stack \in Seq(Programs)
      /\ Len(invoke_stack) \in 1 .. MaxInvokeDepth
      /\ MaxInvokeDepth \in Nat \ {0}
      /\ NoReentrance
  BY ProgramsType DEF IInv, TypeOK
<1>1. CASE Execute
  <2>1. UNCHANGED invoke_stack
    BY <1>1 DEF Execute
  <2>2. PICK pc \in Code[Running'] : ProcessSnapshot(pc) /\ last_pc' = pc
    BY <1>1 DEF Execute, Snapshot, Running
  <2>3. MirrorsInvocations'
    BY <2>1, <2>2, ExecuteMirrors
  <2>4. NoReentrance'
    BY <1>0, <2>1 DEF NoReentrance
  <2> QED BY <1>0, <2>1, <2>2, <2>3, <2>4, SnapshotStep
<1>2. ASSUME NEW p \in Programs, Invoke(p) PROVE IInv'
  <2>1. /\ Len(invoke_stack) < MaxInvokeDepth
        /\ p \notin {invoke_stack[i] : i \in DOMAIN invoke_stack}
        /\ invoke_stack' = Append(invoke_stack, p)
    BY <1>2 DEF Invoke
  <2>2. /\ invoke_stack' \in Seq(Programs)
        /\ Len(invoke_stack') \in 1 .. MaxInvokeDepth
        /\ Running' = p
    BY <1>0, <2>1 DEF Running
  <2>3. PICK pc \in Code[Running'] : ProcessSnapshot(pc) /\ last_pc' = pc
    BY <1>2 DEF Invoke, Snapshot, Running
  <2>4. MirrorsInvocations'
    BY <2>1, <2>2, <2>3, InvokeMirrors
  <2>5. NoReentrance'
    BY <1>0, <2>1 DEF NoReentrance
  <2> QED BY <2>2, <2>3, <2>4, <2>5, SnapshotStep
<1>3. CASE Return
  <2>1. /\ Len(invoke_stack) > 1
        /\ invoke_stack' = SubSeq(invoke_stack, 1, Len(invoke_stack) - 1)
    BY <1>3 DEF Return
  <2>2. /\ invoke_stack' \in Seq(Programs)
        /\ Len(invoke_stack') \in 1 .. MaxInvokeDepth
    BY <1>0, <2>1
  <2>3. PICK pc \in Code[Running'] : ProcessSnapshot(pc) /\ last_pc' = pc
    BY <1>3 DEF Return, Snapshot, Running
  <2>4. MirrorsInvocations'
    BY <2>1, <2>3, ReturnMirrors
  <2>5. NoReentrance'
    BY <1>0, <2>1 DEF NoReentrance
  <2> QED BY <2>2, <2>3, <2>4, <2>5, SnapshotStep
<1>4. CASE UNCHANGED vars
  BY <1>4 DEF vars, IInv, TypeOK, DetectorTypeOK, ContextsDisjoint, NoReentrance,
              TopCoversPc, Top, MirrorsInvocations, RegisteredPrefix
<1> QED BY <1>1, <1>2, <1>3, <1>4 DEF Next

(***************************************************************************)
(* Every execution keeps the inductive invariant.                          *)
(***************************************************************************)
LEMMA InvariantHolds == Spec => []IInv
  BY InitEstablishes, NextPreserves, PTL DEF Spec

(***************************************************************************)
(* The detector's stack and the runtime's keep their types.                *)
(***************************************************************************)
THEOREM TypeCorrect == Spec => []TypeOK
<1>1. IInv => TypeOK
  BY DEF IInv
<1> QED BY <1>1, InvariantHolds, PTL

(***************************************************************************)
(* No pc is ever in two contexts: where process_snapshot returns to is     *)
(* never a choice.                                                         *)
(***************************************************************************)
THEOREM ContextsStayDisjoint == Spec => []ContextsDisjoint
<1>1. IInv => ContextsDisjoint
  BY DEF IInv
<1> QED BY <1>1, InvariantHolds, PTL

(***************************************************************************)
(* current_program() is always the program of the last snapshot.           *)
(***************************************************************************)
THEOREM TopAlwaysCoversPc == Spec => []TopCoversPc
<1>1. IInv => TopCoversPc
  BY DEF IInv
<1> QED BY <1>1, InvariantHolds, PTL

(***************************************************************************)
(* The detector rebuilds the runtime's invocation stack from the pcs, for  *)
(* any programs with disjoint code and any subset of them registered: an   *)
(* unregistered program disturbs it only until it returns.                 *)
(***************************************************************************)
THEOREM DetectorMirrorsRuntime == Spec => []MirrorsInvocations
<1>1. IInv => MirrorsInvocations
  BY DEF IInv
<1> QED BY <1>1, InvariantHolds, PTL
=============================================================================

-------------------------- MODULE TracersProofs --------------------------
(***************************************************************************)
(* The invariants of the two tracers, for any program, source locations    *)
(* and size of the buffer: what CodeTracerTracer shows and which calls it  *)
(* has open, and the rows RegisterTraceTracer leaves in a file.            *)
(***************************************************************************)
EXTENDS Tracers, SharedLemmas

----------------------------------------------------------------------------
(***************************************************************************)
(* The execution, and how far the tracer is behind it: by the snapshot its *)
(* callback is at work on, or not at all.                                  *)
(***************************************************************************)
\* One instruction, from a snapshot to the next.
Moves(a, b) ==
  \/ b.pc \in Continuations(a.pc) /\ b.callers = a.callers
  \/ b.pc \in Targets(a.pc) /\ b.callers = Append(a.callers, a.pc)
  \/ /\ Text[a.pc].op = "exit" /\ a.callers # << >>
     /\ b.pc = a.callers[Len(a.callers)] + 1
     /\ b.callers = SubSeq(a.callers, 1, Len(a.callers) - 1)

ExecutionInv ==
  /\ ExecutionTypeOK
  /\ seen \in {Len(snapshots) - 1, Len(snapshots)}
  /\ seen = 0 => snapshots[1].callers = << >>
  /\ 0 < seen /\ seen < Len(snapshots) => Moves(snapshots[seen], snapshots[seen + 1])

LEMMA NoWriteIsWrites == << >> \in Writes
<1>1. {} \in SUBSET Cells
  OBVIOUS
<1>2. << >> \in [{} -> Values]
  OBVIOUS
<1> QED BY <1>1, <1>2 DEF Writes

LEMMA OverwriteIsMemory ==
  ASSUME NEW m \in Memory, NEW w \in Writes
  PROVE  Overwrite(m, w) \in Memory
<1>1. PICK C \in SUBSET Cells : w \in [C -> Values]
  BY DEF Writes
<1>2. \A c \in Cells : (IF c \in DOMAIN w THEN w[c] ELSE m[c]) \in Values
  BY <1>1 DEF Memory
<1> QED BY <1>2 DEF Overwrite, Memory

LEMMA CurrentIsSnapshot ==
  ASSUME ExecutionTypeOK
  PROVE  /\ Current \in SnapshotRecord
         /\ Current.pc \in PC /\ Current.callers \in Seq(PC)
         /\ Current.operand \in Writes /\ Current.memory \in Memory
<1>1. snapshots \in Seq(SnapshotRecord) /\ Len(snapshots) \in 1 .. Len(snapshots)
  BY DEF ExecutionTypeOK
<1>2. Current \in SnapshotRecord
  BY <1>1, ElementOfSeq DEF Current
<1> QED BY <1>2 DEF SnapshotRecord

(***************************************************************************)
(* The interpreter goes on at a pc.                                        *)
(***************************************************************************)
LEMMA ContinueAppends ==
  ASSUME NEW pc, NEW callers \in Seq(PC), NEW m \in Memory, Continue(pc, callers, m)
  PROVE  /\ executed' = executed /\ Len(snapshots) < MaxSnapshots /\ pc \in PC
         /\ \E s \in SnapshotRecord :
              snapshots' = Append(snapshots, s) /\ s.pc = pc /\ s.callers = callers
<1>1. /\ executed' = executed /\ Len(snapshots) < MaxSnapshots /\ pc \in PC
      /\ \E s \in SnapshotAt(pc, callers, m) : snapshots' = Append(snapshots, s)
  BY DEF Continue
<1>2. PICK s \in SnapshotAt(pc, callers, m) : snapshots' = Append(snapshots, s)
  BY <1>1
<1>3. PICK w \in Operands(pc) : s = [pc |-> pc, callers |-> callers, operand |-> w, memory |-> m]
  BY DEF SnapshotAt
<1>4. w \in Writes
  BY NoWriteIsWrites DEF Operands
<1>5. s \in SnapshotRecord /\ s.pc = pc /\ s.callers = callers
  BY <1>1, <1>3, <1>4 DEF SnapshotRecord
<1> QED BY <1>1, <1>2, <1>5

(***************************************************************************)
(* What one instruction appends to the snapshots.                          *)
(***************************************************************************)
LEMMA ExecuteMoves ==
  ASSUME ExecutionTypeOK, Execute
  PROVE  /\ executed' \in BOOLEAN
         /\ syscall_writes' \in Seq(Writes)
         /\ \/ snapshots' = snapshots
            \/ /\ Len(snapshots) < MaxSnapshots
               /\ \E s \in SnapshotRecord : snapshots' = Append(snapshots, s) /\ Moves(Current, s)
<1> PICK cur : cur = Current
  OBVIOUS
<1>1. /\ cur.pc \in PC /\ cur.callers \in Seq(PC)
      /\ cur.operand \in Writes /\ cur.memory \in Memory
  BY CurrentIsSnapshot
<1>2. executed \in BOOLEAN /\ syscall_writes \in Seq(Writes)
  BY DEF ExecutionTypeOK
<1>3. CASE ExecuteCall
  <2> PICK callers : callers = Append(cur.callers, cur.pc)
    OBVIOUS
  <2> PICK m : m = cur.memory
    OBVIOUS
  <2>1. PICK target \in Text[cur.pc].to : Continue(target, callers, m)
    BY <1>3 DEF ExecuteCall
  <2>2. callers \in Seq(PC) /\ m \in Memory
    BY <1>1
  <2>3. /\ executed' = executed /\ Len(snapshots) < MaxSnapshots
        /\ \E s \in SnapshotRecord :
             snapshots' = Append(snapshots, s) /\ s.pc = target /\ s.callers = callers
    BY ONLY <2>1, <2>2, ContinueAppends
  <2>4. target \in Targets(cur.pc) /\ syscall_writes' = syscall_writes
    BY <1>3, <2>1 DEF ExecuteCall, Targets
  <2> QED BY <1>2, <2>3, <2>4 DEF Moves
<1>4. CASE ExecuteSyscall
  <2>1. PICK w \in Writes :
          /\ syscall_writes' = Append(syscall_writes, w)
          /\ Continue(cur.pc + 1, cur.callers, Overwrite(cur.memory, w))
    BY <1>4 DEF ExecuteSyscall
  <2> PICK pc : pc = cur.pc + 1
    OBVIOUS
  <2> PICK callers : callers = cur.callers
    OBVIOUS
  <2> PICK m : m = Overwrite(cur.memory, w)
    OBVIOUS
  <2>2. callers \in Seq(PC) /\ m \in Memory /\ Continue(pc, callers, m)
    BY <1>1, <2>1, OverwriteIsMemory
  <2>3. /\ executed' = executed /\ Len(snapshots) < MaxSnapshots /\ pc \in PC
        /\ \E s \in SnapshotRecord :
             snapshots' = Append(snapshots, s) /\ s.pc = pc /\ s.callers = callers
    BY ONLY <2>2, ContinueAppends
  <2>4. pc \in Continuations(cur.pc)
    BY <1>4, <2>3 DEF ExecuteSyscall, Continuations, IsSyscall
  <2>5. syscall_writes' \in Seq(Writes)
    BY <1>2, <2>1, AppendProperties
  <2> QED BY <1>2, <2>3, <2>4, <2>5 DEF Moves
<1>5. CASE ExecuteExit
  <2> PICK in : in = cur.callers
    OBVIOUS
  <2> PICK outer : outer = SubSeq(in, 1, Len(in) - 1)
    OBVIOUS
  <2> PICK pc : pc = in[Len(in)] + 1
    OBVIOUS
  <2> PICK m : m = cur.memory
    OBVIOUS
  <2>1. /\ Text[cur.pc].op = "exit" /\ in # << >> /\ syscall_writes' = syscall_writes
        /\ Continue(pc, outer, m)
    BY <1>5 DEF ExecuteExit
  <2>2. outer \in Seq(PC)
    <3>1. Len(in) \in Nat \ {0} /\ \A i \in 1 .. Len(in) : in[i] \in PC
      BY <1>1, <2>1, EmptySeq, ElementOfSeq
    <3>2. 1 \in Int /\ Len(in) - 1 \in Int /\ \A i \in 1 .. Len(in) - 1 : in[i] \in PC
      BY <3>1
    <3> QED BY ONLY <3>2, outer = SubSeq(in, 1, Len(in) - 1), SubSeqProperties
  <2>3. m \in Memory
    BY <1>1
  <2>4. /\ executed' = executed /\ Len(snapshots) < MaxSnapshots
        /\ \E s \in SnapshotRecord :
             snapshots' = Append(snapshots, s) /\ s.pc = pc /\ s.callers = outer
    BY ONLY <2>1, <2>2, <2>3, ContinueAppends
  <2> QED BY <1>2, <2>1, <2>4 DEF Moves
<1>6. CASE ExecuteStore
  <2> PICK pc : pc = cur.pc + 1
    OBVIOUS
  <2> PICK callers : callers = cur.callers
    OBVIOUS
  <2> PICK m : m = Overwrite(cur.memory, cur.operand)
    OBVIOUS
  <2>1. Text[cur.pc].op = "store" /\ syscall_writes' = syscall_writes /\ Continue(pc, callers, m)
    BY <1>6 DEF ExecuteStore
  <2>2. callers \in Seq(PC) /\ m \in Memory
    BY <1>1, OverwriteIsMemory
  <2>3. /\ executed' = executed /\ Len(snapshots) < MaxSnapshots /\ pc \in PC
        /\ \E s \in SnapshotRecord :
             snapshots' = Append(snapshots, s) /\ s.pc = pc /\ s.callers = callers
    BY ONLY <2>1, <2>2, ContinueAppends
  <2>4. pc \in Continuations(cur.pc)
    BY <2>1, <2>3 DEF Continuations
  <2> QED BY <1>2, <2>1, <2>3, <2>4 DEF Moves
<1>7. CASE ExecuteOther
  <2> PICK callers : callers = cur.callers
    OBVIOUS
  <2> PICK m : m = cur.memory
    OBVIOUS
  <2>1. Text[cur.pc].op = "other" /\ syscall_writes' = syscall_writes
    BY <1>7 DEF ExecuteOther
  <2>2. PICK target \in Text[cur.pc].to : Continue(target, callers, m)
    BY <1>7 DEF ExecuteOther
  <2>3. callers \in Seq(PC) /\ m \in Memory
    BY <1>1
  <2>4. /\ executed' = executed /\ Len(snapshots) < MaxSnapshots /\ target \in PC
        /\ \E s \in SnapshotRecord :
             snapshots' = Append(snapshots, s) /\ s.pc = target /\ s.callers = callers
    BY ONLY <2>2, <2>3, ContinueAppends
  <2>5. target \in Continuations(cur.pc)
    BY <2>1, <2>2, <2>4 DEF Continuations
  <2> QED BY <1>2, <2>1, <2>4, <2>5 DEF Moves
<1>8. CASE Stop
  <2>1. /\ snapshots' = snapshots /\ executed' = TRUE
        /\ syscall_writes' \in {syscall_writes, Append(syscall_writes, << >>)}
    BY <1>8 DEF Stop
  <2>2. Append(syscall_writes, << >>) \in Seq(Writes)
    BY <1>2, NoWriteIsWrites, AppendProperties
  <2> QED BY <1>2, <2>1, <2>2
<1> QED BY <1>3, <1>4, <1>5, <1>6, <1>7, <1>8 DEF Execute

(***************************************************************************)
(* The state of a tracer is well-typed.                                    *)
(***************************************************************************)
Names == {"main"} \cup {FnAtPc[pc] : pc \in PC}

Halves == Nat \X {"first", "second"}

TypeInv ==
  /\ TypeOK
  /\ tracer \in {"codetracer", "register"}
  /\ trace \in Traces(Names, Nil, Locations)
  /\ buffer \in Seq(Halves) /\ file \in Seq(Halves)

(***************************************************************************)
(* A step of the execution, or a callback, leaves the tracer behind by one *)
(* snapshot at most.                                                       *)
(***************************************************************************)
LEMMA RunKeeps ==
  ASSUME ExecutionInv, seen = Len(snapshots), seen' = seen, Execute
  PROVE  ExecutionInv' /\ Len(snapshots) <= Len(snapshots')
<1>1. PICK n \in Nat \ {0} : n = Len(snapshots)
  BY DEF ExecutionInv, ExecutionTypeOK
<1>2. /\ snapshots \in Seq(SnapshotRecord) /\ n <= MaxSnapshots
      /\ MaxSnapshots \in Nat /\ ExecutionTypeOK
  BY <1>1, TextType DEF ExecutionInv, ExecutionTypeOK
<1>3. executed' \in BOOLEAN /\ syscall_writes' \in Seq(Writes)
  BY <1>2, ExecuteMoves
<1>4. CASE snapshots' = snapshots
  <2>1. ExecutionTypeOK'
    BY <1>1, <1>2, <1>3, <1>4 DEF ExecutionTypeOK
  <2> QED BY <1>1, <1>4, <2>1 DEF ExecutionInv
<1>5. ASSUME NEW s \in SnapshotRecord, n < MaxSnapshots,
             snapshots' = Append(snapshots, s), Moves(Current, s)
      PROVE  ExecutionInv' /\ Len(snapshots) <= Len(snapshots')
  <2>1. /\ snapshots' \in Seq(SnapshotRecord) /\ Len(snapshots') = n + 1
        /\ snapshots'[n] = snapshots[n] /\ snapshots'[n + 1] = s
    BY <1>1, <1>2, <1>5, AppendProperties
  <2>2. n + 1 \in 1 .. MaxSnapshots
    BY <1>1, <1>2, <1>5
  <2>3. ExecutionTypeOK'
    BY <1>3, <2>1, <2>2 DEF ExecutionTypeOK
  <2>4. Moves(snapshots'[n], snapshots'[n + 1])
    BY <1>1, <1>5, <2>1 DEF Current
  <2>5. seen' = n /\ n = n + 1 - 1 /\ n # 0 /\ n <= n + 1
    BY <1>1
  <2> QED BY ONLY <1>1, <2>1, <2>3, <2>4, <2>5 DEF ExecutionInv
<1> QED BY <1>1, <1>2, <1>4, <1>5, ExecuteMoves

LEMMA OnStepKeeps ==
  ASSUME ExecutionInv, seen < Len(snapshots), seen' = seen + 1,
         UNCHANGED << snapshots, syscall_writes, executed >>
  PROVE  /\ ExecutionInv' /\ seen' = Len(snapshots)
         /\ seen + 1 \in 1 .. Len(snapshots)
         /\ snapshots[seen + 1] \in SnapshotRecord
         /\ Pc = snapshots[seen + 1].pc /\ Pc \in PC
<1>1. PICK n \in Nat \ {0} : n = Len(snapshots)
  BY DEF ExecutionInv, ExecutionTypeOK
<1>2. seen = n - 1 /\ seen + 1 = n /\ n # 0 /\ ~ (n < n) /\ n \in 1 .. n
  BY <1>1 DEF ExecutionInv
<1>3. ExecutionTypeOK' /\ snapshots \in Seq(SnapshotRecord)
  BY DEF ExecutionInv, ExecutionTypeOK
<1>4. ExecutionInv'
  BY <1>1, <1>2, <1>3 DEF ExecutionInv
<1>5. snapshots[n] \in SnapshotRecord
  BY <1>1, <1>2, <1>3, ElementOfSeq
<1>6. snapshots[n].pc \in PC
  BY <1>5 DEF SnapshotRecord
<1> QED BY <1>1, <1>2, <1>4, <1>5, <1>6 DEF Pc

(***************************************************************************)
(* Between two snapshots, or after the end.                                *)
(***************************************************************************)
LEMMA ExecutionStays ==
  ASSUME ExecutionInv, UNCHANGED << snapshots, syscall_writes, executed, seen >>
  PROVE  ExecutionInv'
BY DEF ExecutionInv, ExecutionTypeOK

(***************************************************************************)
(* A jump, seen or not, leaves a trace.                                    *)
(***************************************************************************)
LEMMA JumpedTrace ==
  ASSUME trace \in Traces(Names, Nil, Locations), NEW pc \in PC
  PROVE  /\ Jumped(pc) \in Traces(Names, Nil, Locations)
         /\ Jumped(pc).position = trace.position
<1>1. FnAtPc[pc] \in Names
  BY DEF Names
<1>2. Returned(trace, 1) \in Traces(Names, Nil, Locations) /\ Returned(trace, 1).position = trace.position
  BY ReturnedOpen
<1>3. /\ Called(trace, FnAtPc[pc], Nil) \in Traces(Names, Nil, Locations)
      /\ Called(trace, FnAtPc[pc], Nil).position = trace.position
  <2>1. /\ trace.open \in Seq(OpenCalls(Names, Nil))
        /\ [fn |-> FnAtPc[pc], target |-> Nil] \in OpenCalls(Names, Nil)
    BY <1>1 DEF Traces, OpenCalls
  <2>2. Append(trace.open, [fn |-> FnAtPc[pc], target |-> Nil]) \in Seq(OpenCalls(Names, Nil))
    BY <2>1, AppendProperties
  <2> QED BY <2>2 DEF Called, Traces
<1> QED BY <1>2, <1>3 DEF Jumped

LEMMA WrittenLocation ==
  ASSUME NEW pc \in PC, Location[pc] # Nil
  PROVE  /\ Written(Location[pc]) \in Locations /\ Written(Location[pc]) # Nil
         /\ Written(Location[pc]).file = Location[pc].file
         /\ Written(Location[pc]).line = Location[pc].line
         /\ Written(Location[pc]).line \in Nat /\ Written(Location[pc]).line # Nil
         /\ Written(Location[pc]).column \in Nat \cup {Nil}
<1> PICK here : here = Location[pc]
  OBVIOUS
<1>1. here \in Locations
  BY TracerConstants
<1> DEFINE column == IF here.file \in Tabled THEN here.column ELSE Nil
<1>2. here.line \in Nat /\ column \in Nat \cup {Nil} /\ here.file \in STRING
  BY <1>1 DEF Locations
<1>3. Written(here) = [here EXCEPT !.column = column]
  BY DEF Written
<1> HIDE DEF column
<1>4. /\ Written(here) \in Locations
      /\ Written(here).file = here.file /\ Written(here).line = here.line
      /\ Written(here).column = column
  BY <1>1, <1>2, <1>3 DEF Locations
<1>5. here.line # Nil /\ Written(here) # Nil
  BY <1>2, <1>4, TracerConstants
<1> QED BY <1>2, <1>4, <1>5

(***************************************************************************)
(* What is in the file and the buffer, in this order, is what was written: *)
(* a flush, whole or not, moves the border between them.                   *)
(***************************************************************************)
LEMMA FlushedStream ==
  ASSUME buffer \in Seq(Halves), file \in Seq(Halves), NEW n \in 0 .. Len(buffer), Flushed(n)
  PROVE  /\ file' \in Seq(Halves) /\ buffer' \in Seq(Halves)
         /\ Len(buffer') <= Len(buffer)
         /\ file' \o buffer' = file \o buffer
<1> PICK b : b = buffer
  OBVIOUS
<1> PICK front : front = SubSeq(b, 1, n)
  OBVIOUS
<1> PICK back : back = SubSeq(b, n + 1, Len(b))
  OBVIOUS
<1>1. PICK l \in Nat : l = Len(b)
  OBVIOUS
<1>2. file' = file \o front /\ buffer' = back
  BY DEF Flushed
<1>3. front \in Seq(Halves)
  <2>1. 1 \in Int /\ n \in Int /\ \A i \in 1 .. n : b[i] \in Halves
    BY <1>1
  <2> QED BY ONLY <2>1, front = SubSeq(b, 1, n), SubSeqProperties
<1>4. back \in Seq(Halves) /\ Len(back) <= l
  <2>1. n + 1 \in Int /\ l \in Int /\ \A i \in n + 1 .. l : b[i] \in Halves
    BY <1>1
  <2>2. back \in Seq(Halves) /\ Len(back) = IF n + 1 <= l THEN l - (n + 1) + 1 ELSE 0
    BY ONLY <1>1, <2>1, back = SubSeq(b, n + 1, Len(b)), SubSeqProperties
  <2>3. (IF n + 1 <= l THEN l - (n + 1) + 1 ELSE 0) <= l
    BY <1>1
  <2> QED BY <2>2, <2>3
<1>5. front \o back = b
  <2>1. b \in Seq(Halves) /\ 1 \in 1 .. l + 1 /\ n \in 1 - 1 .. l /\ l \in n .. l
    BY <1>1
  <2>2. front \o back = SubSeq(b, 1, l)
    BY ONLY <1>1, <2>1, front = SubSeq(b, 1, n), back = SubSeq(b, n + 1, Len(b)),
            ConcatAdjacentSubSeq
  <2>3. SubSeq(b, 1, l) = b
    BY ONLY <1>1, <2>1, SubSeqFull
  <2> QED BY <2>2, <2>3
<1>6. file' \in Seq(Halves)
  BY <1>2, <1>3, ConcatProperties
<1>7. (file \o front) \o back = file \o (front \o back)
  <2>1. file \in Seq(Halves) /\ front \in Seq(Halves) /\ back \in Seq(Halves)
    BY <1>3, <1>4
  <2> QED BY ONLY <2>1, ConcatAssociative
<1>8. file' \o buffer' = file \o buffer
  BY ONLY <1>2, <1>5, <1>7, b = buffer
<1> QED BY <1>1, <1>2, <1>4, <1>6, <1>8

(***************************************************************************)
(* A row comes last, whole, or is dropped.                                 *)
(***************************************************************************)
LEMMA WriteRowStream ==
  ASSUME buffer \in Seq(Halves), file \in Seq(Halves), Len(buffer) <= Capacity,
         NEW row \in Seq(Halves), Len(row) = 2, WriteRow(row)
  PROVE  /\ file' \in Seq(Halves) /\ buffer' \in Seq(Halves)
         /\ Len(buffer') <= Capacity
         /\ file' \o buffer' \in {file \o buffer, (file \o buffer) \o row}
<1>0. Len(buffer) \in Nat /\ Capacity \in Nat /\ 2 <= Capacity
  BY TracerConstants
<1>1. CASE Len(buffer) + Len(row) <= Capacity
  <2>1. buffer' = buffer \o row /\ file' = file
    BY <1>1 DEF WriteRow
  <2>2. buffer' \in Seq(Halves) /\ Len(buffer') = Len(buffer) + Len(row)
    BY <2>1, ConcatProperties
  <2>3. (file \o buffer) \o row = file \o (buffer \o row)
    BY ConcatAssociative
  <2>4. file' \o buffer' = (file \o buffer) \o row
    BY ONLY <2>1, <2>3
  <2> QED BY <1>1, <2>1, <2>2, <2>4
<1>2. CASE ~ (Len(buffer) + Len(row) <= Capacity) /\ file' = file \o buffer /\ buffer' = row
  <2>1. file' \in Seq(Halves)
    BY <1>2, ConcatProperties
  <2> QED BY <1>0, <1>2, <2>1
<1>3. ASSUME NEW n \in 0 .. Len(buffer) - 1, Flushed(n)
      PROVE  /\ file' \in Seq(Halves) /\ buffer' \in Seq(Halves)
             /\ Len(buffer') <= Capacity
             /\ file' \o buffer' = file \o buffer
  <2>1. n \in 0 .. Len(buffer)
    BY <1>0, <1>3
  <2>2. /\ file' \in Seq(Halves) /\ buffer' \in Seq(Halves)
        /\ Len(buffer') <= Len(buffer)
        /\ file' \o buffer' = file \o buffer
    BY <1>3, <2>1, FlushedStream
  <2> QED BY <1>0, <2>2
<1> QED BY <1>1, <1>2, <1>3 DEF WriteRow

LEMMA RowHalves ==
  ASSUME NEW n \in Nat
  PROVE  /\ Row(n) \in Seq(Halves) /\ Len(Row(n)) = 2
         /\ Row(n)[1] = << n, "first" >> /\ Row(n)[2] = << n, "second" >>
<1>1. << n, "first" >> \in Halves /\ << n, "second" >> \in Halves
  BY DEF Halves
<1> PICK first : first = << n, "first" >>
  OBVIOUS
<1> PICK second : second = << n, "second" >>
  OBVIOUS
<1>2. Row(n) = << first, second >>
  BY DEF Row
<1>3. << first, second >> \in Seq(Halves)
  BY <1>1
<1> QED BY <1>2, <1>3

(***************************************************************************)
(* Every action keeps the types.                                           *)
(***************************************************************************)
LEMMA InitTypeInv == Init => TypeInv /\ ExecutionInv
<1> SUFFICES ASSUME Init PROVE TypeInv /\ ExecutionInv
  OBVIOUS
<1>1. PICK s \in SnapshotAt(Entry, << >>, [c \in Cells |-> Zero]) : snapshots = << s >>
  BY DEF Init, ExecutionInit
<1>2. PICK w \in Operands(Entry) :
        s = [pc |-> Entry, callers |-> << >>, operand |-> w, memory |-> [c \in Cells |-> Zero]]
  BY DEF SnapshotAt
<1>3. s \in SnapshotRecord /\ s.callers = << >>
  <2>1. w \in Writes
    BY NoWriteIsWrites DEF Operands
  <2>2. [c \in Cells |-> Zero] \in Memory /\ Entry \in PC /\ << >> \in Seq(PC)
    BY TextType DEF Memory
  <2> QED BY <1>2, <2>1, <2>2 DEF SnapshotRecord
<1>4. snapshots \in Seq(SnapshotRecord) /\ Len(snapshots) = 1 /\ snapshots[1] = s
  BY <1>1, <1>3
<1>5. ExecutionTypeOK
  <2>1. << >> \in Seq(Writes) /\ 1 \in 1 .. MaxSnapshots
    BY TextType
  <2> QED BY <1>4, <2>1 DEF Init, ExecutionInit, ExecutionTypeOK
<1>6. ExecutionInv
  BY <1>3, <1>4, <1>5 DEF Init, ExecutionInv
<1>7. trace \in Traces(Names, Nil, Locations)
  <2>1. "main" \in Names
    BY DEF Names
  <2> QED BY <2>1, StartedMirrors DEF Init
<1>8. /\ seen \in 0 .. Len(snapshots) /\ << >> \in Seq(Halves) /\ Len(<< >>) = 0
      /\ 0 <= Capacity
  BY <1>4, TracerConstants DEF Init
<1>9. TypeOK
  BY <1>5, <1>8 DEF Init, TypeOK
<1> QED BY <1>6, <1>7, <1>8, <1>9 DEF TypeInv, Init

LEMMA StepLocatedTypes ==
  ASSUME TypeInv, Pc \in PC, StepLocated
  PROVE  /\ trace' \in Traces(Names, Nil, Locations)
         /\ prev_line' \in Nat \cup {Nil} /\ prev_column' \in Nat \cup {Nil}
         /\ prev_pc' = Pc
<1> PICK at : at = Written(Location[Pc])
  OBVIOUS
<1>1. at \in Locations /\ at.line \in Nat /\ at.column \in Nat \cup {Nil}
  BY WrittenLocation DEF StepLocated
<1>2. Jumped(Pc) \in Traces(Names, Nil, Locations)
  BY JumpedTrace DEF TypeInv
<1>3. Stepped(Jumped(Pc), at) \in Traces(Names, Nil, Locations)
  BY <1>1, <1>2, SteppedMirrors
<1>4. prev_line \in Nat \cup {Nil} /\ prev_column \in Nat \cup {Nil}
  BY DEF TypeInv, TypeOK
<1>5. StepOnPosition(at) /\ prev_pc' = Pc
  BY DEF StepLocated
<1> QED BY <1>1, <1>2, <1>3, <1>4, <1>5 DEF StepOnPosition

LEMMA FinishRowsFlushes ==
  ASSUME TypeInv, FinishRows
  PROVE  /\ file' \in Seq(Halves) /\ buffer' \in Seq(Halves)
         /\ Len(buffer') <= Capacity
         /\ file' \o buffer' = file \o buffer
         /\ result' \in {"ok", "error"}
<1>1. buffer \in Seq(Halves) /\ file \in Seq(Halves) /\ Len(buffer) <= Capacity
  BY DEF TypeInv, TypeOK
<1>2. Len(buffer) \in Nat /\ Capacity \in Nat
  BY <1>1, TracerConstants
<1>3. PICK n \in 0 .. Len(buffer) : Flushed(n) /\ result' \in {"ok", "error"}
  BY <1>2 DEF FinishRows
<1>4. /\ file' \in Seq(Halves) /\ buffer' \in Seq(Halves)
      /\ Len(buffer') <= Len(buffer) /\ file' \o buffer' = file \o buffer
  BY <1>1, <1>3, FlushedStream
<1>5. Len(buffer') <= Capacity
  BY <1>1, <1>2, <1>4
<1> QED BY <1>3, <1>4, <1>5

LEMMA NextTypeInv ==
  TypeInv /\ ExecutionInv /\ [Next]_vars => TypeInv' /\ ExecutionInv'
<1> SUFFICES ASSUME TypeInv, ExecutionInv, [Next]_vars PROVE TypeInv' /\ ExecutionInv'
  OBVIOUS
<1>1. /\ tracer \in {"codetracer", "register"}
      /\ trace \in Traces(Names, Nil, Locations)
      /\ buffer \in Seq(Halves) /\ file \in Seq(Halves) /\ Len(buffer) <= Capacity
      /\ ExecutionTypeOK /\ seen \in 0 .. Len(snapshots)
      /\ prev_line \in Nat \cup {Nil} /\ prev_column \in Nat \cup {Nil}
      /\ prev_pc \in PC \cup {Nil}
      /\ rows_written = IF tracer = "register" THEN seen ELSE 0
      /\ result \in {Nil, "ok", "error", "killed"}
  BY DEF TypeInv, TypeOK
<1>2. Len(snapshots) \in Nat /\ seen \in Nat
  BY <1>1 DEF ExecutionTypeOK
<1>3. CASE Run
  <2>1. /\ seen = Len(snapshots) /\ Execute
        /\ UNCHANGED << tracer, seen, trace_vars, rows_vars, result >>
    BY <1>3 DEF Run
  <2>2. ExecutionInv' /\ Len(snapshots) <= Len(snapshots')
    BY ONLY <2>1, ExecutionInv, RunKeeps
  <2>3. ExecutionTypeOK' /\ Len(snapshots') \in Nat
    BY <2>2 DEF ExecutionInv, ExecutionTypeOK
  <2>4. seen' \in 0 .. Len(snapshots')
    BY <1>1, <1>2, <2>1, <2>2, <2>3
  <2> QED BY <1>1, <2>1, <2>2, <2>3, <2>4 DEF TypeInv, TypeOK, trace_vars, rows_vars
<1>4. ASSUME NEW by, OnStep(by)
      PROVE  /\ ExecutionInv' /\ Pc \in PC
             /\ seen' = seen + 1 /\ seen' \in 0 .. Len(snapshots')
             /\ ExecutionTypeOK' /\ tracer' = tracer /\ result' = result /\ tracer = by
  <2>1. /\ seen < Len(snapshots) /\ seen' = seen + 1 /\ tracer = by
        /\ UNCHANGED << snapshots, syscall_writes, executed, tracer, result >>
    BY <1>4 DEF OnStep
  <2>2. ExecutionInv' /\ Pc \in PC
    BY <2>1, OnStepKeeps
  <2>3. ExecutionTypeOK'
    BY <2>2 DEF ExecutionInv
  <2> QED BY <1>2, <2>1, <2>2, <2>3
<1>5. ASSUME UNCHANGED << snapshots, syscall_writes, executed, seen >>
      PROVE  ExecutionInv' /\ ExecutionTypeOK' /\ seen' \in 0 .. Len(snapshots')
  BY <1>1, <1>5, ExecutionStays DEF ExecutionInv
<1>6. CASE SkipUnlocated
  <2>1. OnStep("codetracer") /\ UNCHANGED << trace_vars, rows_vars >>
    BY <1>6 DEF SkipUnlocated
  <2> QED BY <1>1, <1>4, <2>1 DEF TypeInv, TypeOK, trace_vars, rows_vars
<1>7. CASE StepLocated
  <2>1. OnStep("codetracer") /\ UNCHANGED rows_vars
    BY <1>7 DEF StepLocated
  <2>2. Pc \in PC
    BY <1>4, <2>1
  <2>3. /\ trace' \in Traces(Names, Nil, Locations)
        /\ prev_line' \in Nat \cup {Nil} /\ prev_column' \in Nat \cup {Nil}
        /\ prev_pc' \in PC
    BY <1>7, <2>2, StepLocatedTypes
  <2> QED BY <1>1, <1>4, <2>1, <2>3 DEF TypeInv, TypeOK, rows_vars
<1>8. CASE FinishTrace
  <2>1. /\ trace' = Closed(Returned(trace, 1)) /\ result' = "ok"
        /\ UNCHANGED << snapshots, syscall_writes, executed, tracer, seen,
                        prev_line, prev_column, prev_pc, rows_vars >>
    BY <1>8 DEF FinishTrace
  <2>2. Returned(trace, 1) \in Traces(Names, Nil, Locations)
    BY <1>1, ReturnedOpen
  <2>3. trace' \in Traces(Names, Nil, Locations)
    BY <2>1, <2>2, ClosedTrace
  <2> QED BY <1>1, <1>5, <2>1, <2>3 DEF TypeInv, TypeOK, rows_vars
<1>9. CASE StepRow
  <2>1. /\ OnStep("register") /\ WriteRow(Row(seen + 1))
        /\ rows_written' = rows_written + 1 /\ UNCHANGED trace_vars
    BY <1>9 DEF StepRow
  <2>2. Row(seen + 1) \in Seq(Halves) /\ Len(Row(seen + 1)) = 2
    BY <1>2, RowHalves
  <2>3. file' \in Seq(Halves) /\ buffer' \in Seq(Halves) /\ Len(buffer') <= Capacity
    BY <1>1, <2>1, <2>2, WriteRowStream
  <2> QED BY <1>1, <1>4, <2>1, <2>3 DEF TypeInv, TypeOK, trace_vars
<1>10. CASE FinishRows
  <2>1. /\ file' \in Seq(Halves) /\ buffer' \in Seq(Halves) /\ Len(buffer') <= Capacity
        /\ result' \in {"ok", "error"}
    BY <1>10, FinishRowsFlushes
  <2>2. UNCHANGED << snapshots, syscall_writes, executed, tracer, seen, trace_vars, rows_written >>
    BY <1>10 DEF FinishRows
  <2> QED BY <1>1, <1>5, <2>1, <2>2 DEF TypeInv, TypeOK, trace_vars
<1>11. CASE Killed
  <2>1. /\ result' = "killed" /\ buffer' = << >>
        /\ UNCHANGED << snapshots, syscall_writes, executed, tracer, seen, trace_vars,
                        file, rows_written >>
    BY <1>11 DEF Killed
  <2>2. buffer' \in Seq(Halves) /\ Len(buffer') <= Capacity
    BY <2>1, TracerConstants
  <2> QED BY <1>1, <1>5, <2>1, <2>2 DEF TypeInv, TypeOK, trace_vars
<1>12. CASE UNCHANGED vars
  BY <1>1, <1>5, <1>12 DEF TypeInv, TypeOK, vars, trace_vars, rows_vars
<1> QED BY <1>3, <1>6, <1>7, <1>8, <1>9, <1>10, <1>11, <1>12 DEF Next

(***************************************************************************)
(* The state of the two tracers is well-typed: the buffer holds what it    *)
(* can hold, one row is counted for each callback, and the position is one *)
(* of the program's.                                                       *)
(***************************************************************************)
THEOREM TypeCorrect == Spec => []TypeOK
<1>1. Spec => [](TypeInv /\ ExecutionInv)
  BY InitTypeInv, NextTypeInv, PTL DEF Spec
<1>2. TypeInv => TypeOK
  BY DEF TypeInv
<1> QED BY <1>1, <1>2, PTL

----------------------------------------------------------------------------
(***************************************************************************)
(* The rows.  What was written is the halves of ascending snapshots, the   *)
(* last of them perhaps missing once the process is killed.                *)
(***************************************************************************)
Ascending(r, n) ==
  /\ r \in Seq(Nat)
  /\ \A k \in 1 .. Len(r) : r[k] \in 1 .. n
  /\ \A j, k \in 1 .. Len(r) : j < k => r[j] < r[k]

Holds(s, r) ==
  /\ Len(s) <= 2 * Len(r)
  /\ \A k \in 1 .. Len(r) :
       /\ 2 * k - 1 <= Len(s) => s[2 * k - 1] = << r[k], "first" >>
       /\ 2 * k <= Len(s) => s[2 * k] = << r[k], "second" >>

RowsOf(stream, r, n, ended) ==
  /\ Ascending(r, n)
  /\ Holds(stream, r)
  /\ ended # "killed" => Len(stream) = 2 * Len(r)

RowsInv == \E r : RowsOf(file \o buffer, r, seen, result)

LEMMA AscendingAppend ==
  ASSUME NEW n \in Nat, NEW r, Ascending(r, n)
  PROVE  Ascending(r, n + 1) /\ Ascending(Append(r, n + 1), n + 1)
<1>1. r \in Seq(Nat) /\ \A k \in 1 .. Len(r) : r[k] \in 1 .. n
  BY DEF Ascending
<1>2. PICK l \in Nat : l = Len(r)
  BY <1>1
<1>3. \A j, k \in 1 .. l : j < k => r[j] < r[k]
  BY <1>2 DEF Ascending
<1> PICK r2 : r2 = Append(r, n + 1)
  OBVIOUS
<1>4. /\ r2 \in Seq(Nat) /\ Len(r2) = l + 1 /\ r2[l + 1] = n + 1
      /\ \A k \in 1 .. l : r2[k] = r[k]
  BY <1>1, <1>2, AppendProperties
<1>5. \A k \in 1 .. l : r[k] \in 1 .. n + 1
  BY <1>1, <1>2
<1>6. Ascending(r, n + 1)
  BY <1>1, <1>2, <1>3, <1>5 DEF Ascending
<1>7. \A k \in 1 .. l + 1 : k \in 1 .. l \/ k = l + 1
  BY <1>2
<1>8. \A k \in 1 .. l + 1 : r2[k] \in 1 .. n + 1
  BY <1>4, <1>5, <1>7
<1>9. ASSUME NEW j \in 1 .. l + 1, NEW k \in 1 .. l + 1, j < k PROVE r2[j] < r2[k]
  <2>1. j \in 1 .. l
    BY <1>2, <1>9
  <2>2. CASE k \in 1 .. l
    BY <1>3, <1>4, <1>9, <2>1, <2>2
  <2>3. CASE k = l + 1
    BY <1>1, <1>2, <1>4, <2>1, <2>3
  <2> QED BY <1>7, <2>2, <2>3
<1>10. Ascending(r2, n + 1)
  BY ONLY <1>4, <1>8, <1>9 DEF Ascending
<1> QED BY <1>6, <1>10

LEMMA HoldsAppend ==
  ASSUME NEW s \in Seq(Halves), NEW r \in Seq(Nat), Holds(s, r), Len(s) = 2 * Len(r),
         NEW n \in Nat
  PROVE  /\ Holds(s \o Row(n), Append(r, n))
         /\ Len(s \o Row(n)) = 2 * Len(Append(r, n))
<1>1. PICK l \in Nat : l = Len(r)
  OBVIOUS
<1> PICK row : row = Row(n)
  OBVIOUS
<1>2. /\ row \in Seq(Halves) /\ Len(row) = 2
      /\ row[1] = << n, "first" >> /\ row[2] = << n, "second" >>
  BY RowHalves
<1> PICK r2 : r2 = Append(r, n)
  OBVIOUS
<1> PICK s2 : s2 = s \o row
  OBVIOUS
<1>3. Len(r2) = l + 1 /\ r2[l + 1] = n /\ \A k \in 1 .. l : r2[k] = r[k]
  BY <1>1, AppendProperties
<1>4. /\ Len(s2) = 2 * l + 2
      /\ \A i \in 1 .. 2 * l : s2[i] = s[i]
      /\ s2[2 * l + 1] = row[1] /\ s2[2 * l + 2] = row[2]
  <2>1. Len(s) = 2 * l
    BY <1>1
  <2>2. Len(s2) = Len(s) + Len(row) /\ \A i \in 1 .. Len(s) + Len(row) :
          s2[i] = IF i <= Len(s) THEN s[i] ELSE row[i - Len(s)]
    BY ONLY <1>2, s \in Seq(Halves), s2 = s \o row, ConcatProperties
  <2>3. Len(s2) = 2 * l + 2 /\ \A i \in 1 .. 2 * l + 2 :
          s2[i] = IF i <= 2 * l THEN s[i] ELSE row[i - 2 * l]
    BY ONLY <1>2, <2>1, <2>2
  <2> QED BY ONLY <1>1, <2>3
<1>5. \A k \in 1 .. l : s[2 * k - 1] = << r[k], "first" >> /\ s[2 * k] = << r[k], "second" >>
  <2>1. \A k \in 1 .. l : 2 * k - 1 <= 2 * l /\ 2 * k <= 2 * l
    BY ONLY <1>1
  <2>2. Holds(s, r) /\ Len(s) = 2 * l /\ Len(r) = l
    BY <1>1
  <2> QED BY ONLY <2>1, <2>2 DEF Holds
<1>6. ASSUME NEW k \in 1 .. l + 1
      PROVE  s2[2 * k - 1] = << r2[k], "first" >> /\ s2[2 * k] = << r2[k], "second" >>
  <2>1. CASE k \in 1 .. l
    <3>1. 2 * k - 1 \in 1 .. 2 * l /\ 2 * k \in 1 .. 2 * l
      BY ONLY <1>1, <2>1
    <3> QED BY ONLY <1>3, <1>4, <1>5, <2>1, <3>1
  <2>2. CASE k = l + 1
    <3>1. 2 * k - 1 = 2 * l + 1 /\ 2 * k = 2 * l + 2
      BY ONLY <1>1, <2>2
    <3> QED BY ONLY <1>2, <1>3, <1>4, <2>2, <3>1
  <2> QED BY ONLY <1>1, <1>6, <2>1, <2>2
<1>7. Len(s2) = 2 * Len(r2) /\ Len(s2) <= 2 * Len(r2)
  BY ONLY <1>1, <1>3, <1>4
<1> QED BY ONLY <1>3, <1>6, <1>7, row = Row(n), r2 = Append(r, n), s2 = s \o row DEF Holds

LEMMA HoldsPrefix ==
  ASSUME NEW f \in Seq(Halves), NEW b \in Seq(Halves), NEW r \in Seq(Nat), Holds(f \o b, r)
  PROVE  Holds(f, r)
<1> PICK s : s = f \o b
  OBVIOUS
<1>1. PICK l \in Nat : l = Len(r)
  OBVIOUS
<1>2. PICK m \in Nat : m = Len(f)
  OBVIOUS
<1>3. PICK n \in Nat : n = Len(b)
  OBVIOUS
<1>4. Len(s) = m + n /\ \A i \in 1 .. m : s[i] = f[i]
  BY <1>2, <1>3, ConcatProperties
<1>5. Holds(s, r)
  OBVIOUS
<1>6. m <= 2 * l
  BY ONLY <1>1, <1>2, <1>3, <1>4, <1>5 DEF Holds
<1>7. ASSUME NEW k \in 1 .. l
      PROVE  /\ 2 * k - 1 <= m => f[2 * k - 1] = << r[k], "first" >>
             /\ 2 * k <= m => f[2 * k] = << r[k], "second" >>
  <2>1. /\ 2 * k - 1 <= m => 2 * k - 1 <= m + n /\ 2 * k - 1 \in 1 .. m
        /\ 2 * k <= m => 2 * k <= m + n /\ 2 * k \in 1 .. m
    BY ONLY <1>1, <1>2, <1>3, <1>7
  <2> QED BY ONLY <1>1, <1>4, <1>5, <1>7, <2>1 DEF Holds
<1> QED BY ONLY <1>1, <1>2, <1>6, <1>7 DEF Holds

(***************************************************************************)
(* A row written at a callback, or dropped.                                *)
(***************************************************************************)
LEMMA RowsOfAppended ==
  ASSUME NEW s \in Seq(Halves), NEW n \in Nat, NEW r, RowsOf(s, r, n, Nil),
         NEW s2 \in {s, s \o Row(n + 1)}
  PROVE  \E r2 : RowsOf(s2, r2, n + 1, Nil)
<1>1. Ascending(r, n) /\ Holds(s, r) /\ Len(s) = 2 * Len(r) /\ r \in Seq(Nat)
  BY TracerConstants, Zenon DEF RowsOf, Ascending
<1>2. Ascending(r, n + 1) /\ Ascending(Append(r, n + 1), n + 1)
  BY <1>1, AscendingAppend
<1>3. CASE s2 = s
  BY <1>1, <1>2, <1>3 DEF RowsOf
<1>4. CASE s2 = s \o Row(n + 1)
  <2>1. Holds(s \o Row(n + 1), Append(r, n + 1))
        /\ Len(s \o Row(n + 1)) = 2 * Len(Append(r, n + 1))
    <3>1. n + 1 \in Nat
      OBVIOUS
    <3> QED BY ONLY <1>1, <3>1, s \in Seq(Halves), HoldsAppend
  <2> QED BY ONLY <1>2, <1>4, <2>1 DEF RowsOf
<1> QED BY <1>3, <1>4

LEMMA InitRows == Init => RowsInv
<1> SUFFICES ASSUME Init PROVE RowsInv
  OBVIOUS
<1>1. << >> \o << >> = << >>
  OBVIOUS
<1>2. << >> \in Seq(Nat) /\ Len(<< >>) = 0
  OBVIOUS
<1>3. RowsOf(<< >>, << >>, 0, Nil)
  BY <1>2 DEF RowsOf, Ascending, Holds
<1> QED BY <1>1, <1>3 DEF Init, RowsInv

LEMMA NextRows ==
  TypeInv /\ RowsInv /\ [Next]_vars => RowsInv'
<1> SUFFICES ASSUME TypeInv, RowsInv, [Next]_vars PROVE RowsInv'
  OBVIOUS
<1>1. /\ buffer \in Seq(Halves) /\ file \in Seq(Halves) /\ Len(buffer) <= Capacity
      /\ file \o buffer \in Seq(Halves) /\ seen \in Nat
  <2>1. buffer \in Seq(Halves) /\ file \in Seq(Halves) /\ Len(buffer) <= Capacity
    BY DEF TypeInv, TypeOK
  <2>2. file \o buffer \in Seq(Halves)
    BY <2>1, ConcatProperties
  <2>3. seen \in Nat
    BY DEF TypeInv, TypeOK, ExecutionTypeOK
  <2> QED BY <2>1, <2>2, <2>3
<1>2. PICK r : RowsOf(file \o buffer, r, seen, result)
  BY DEF RowsInv
<1>3. CASE UNCHANGED << buffer, file, seen >> /\ (result = "killed" => result' = "killed")
  <2>1. RowsOf(file \o buffer, r, seen, result')
    BY ONLY <1>2, <1>3 DEF RowsOf
  <2>2. file' \o buffer' = file \o buffer /\ seen' = seen
    BY <1>3
  <2> QED BY <2>1, <2>2 DEF RowsInv
<1>4. CASE SkipUnlocated \/ StepLocated
  <2>1. UNCHANGED << buffer, file, result >> /\ seen' = seen + 1
    BY <1>4 DEF SkipUnlocated, StepLocated, OnStep, rows_vars
  <2>2. Ascending(r, seen + 1)
    BY <1>1, <1>2, AscendingAppend DEF RowsOf
  <2> QED BY <1>2, <2>1, <2>2 DEF RowsInv, RowsOf
<1>5. CASE StepRow
  <2>1. result = Nil /\ result' = result /\ seen' = seen + 1 /\ WriteRow(Row(seen + 1))
    BY <1>5 DEF StepRow, OnStep
  <2>2. seen + 1 \in Nat
    BY <1>1
  <2>3. Row(seen + 1) \in Seq(Halves) /\ Len(Row(seen + 1)) = 2
    BY <2>2, RowHalves
  <2>4. file' \o buffer' \in {file \o buffer, (file \o buffer) \o Row(seen + 1)}
    BY <1>1, <2>1, <2>3, WriteRowStream
  <2>5. \E r2 : RowsOf(file' \o buffer', r2, seen + 1, Nil)
    BY ONLY <1>1, <1>2, <2>1, <2>4, RowsOfAppended
  <2> QED BY <2>1, <2>5 DEF RowsInv
<1>6. CASE FinishRows
  <2>1. file' \o buffer' = file \o buffer /\ result' \in {"ok", "error"}
    BY <1>6, FinishRowsFlushes
  <2>2. result = Nil /\ seen' = seen
    BY <1>6 DEF FinishRows
  <2>3. result # "killed" /\ result' # "killed"
    BY <2>1, <2>2, TracerConstants
  <2> QED BY <1>2, <2>1, <2>2, <2>3 DEF RowsInv, RowsOf
<1>7. CASE Killed
  <2>1. result' = "killed" /\ buffer' = << >> /\ file' = file /\ seen' = seen
    BY <1>7 DEF Killed
  <2>2. file' \o buffer' = file
    BY <1>1, <2>1, ConcatEmptySeq
  <2>3. Holds(file, r)
    BY <1>1, <1>2, HoldsPrefix DEF RowsOf, Ascending
  <2> QED BY <1>2, <2>1, <2>2, <2>3 DEF RowsInv, RowsOf
<1>8. Run \/ FinishTrace \/ UNCHANGED vars
        => UNCHANGED << buffer, file, seen >> /\ (result = "killed" => result' = "killed")
  BY TracerConstants DEF Run, FinishTrace, vars, rows_vars
<1> QED BY <1>3, <1>4, <1>5, <1>6, <1>7, <1>8 DEF Next

(***************************************************************************)
(* The rows of a file of whole rows.                                       *)
(***************************************************************************)
LEMMA ParseHolds ==
  ASSUME NEW f \in Seq(Halves), NEW r \in Seq(Nat), Holds(f, r), Parse(f) # Nil
  PROVE  /\ DOMAIN Parse(f) \subseteq 1 .. Len(r)
         /\ \A i \in DOMAIN Parse(f) : Parse(f)[i] = Row(r[i])
<1>1. PICK l \in Nat : l = Len(f)
  OBVIOUS
<1>2. PICK m \in Nat : m = Len(r)
  OBVIOUS
<1> PICK h : h = l \div 2
  OBVIOUS
<1>3. h \in Nat /\ \A i \in 1 .. h : i \in Nat /\ 1 <= i /\ 2 * i <= l /\ 2 * i - 1 <= l
  BY <1>1
<1>4. Parse(f) = [i \in 1 .. h |-> << f[2 * i - 1], f[2 * i] >>]
  BY <1>1 DEF Parse
<1>5. DOMAIN Parse(f) = 1 .. h /\ \A i \in 1 .. h : Parse(f)[i] = << f[2 * i - 1], f[2 * i] >>
  BY <1>4
<1>6. l <= 2 * m
  BY <1>1, <1>2 DEF Holds
<1>7. 1 .. h \subseteq 1 .. m
  <2>1. \A i \in 1 .. h : i <= m
    BY <1>1, <1>2, <1>3, <1>6
  <2> QED BY <1>2, <1>3, <2>1
<1>8. ASSUME NEW i \in 1 .. h
      PROVE  f[2 * i - 1] = << r[i], "first" >> /\ f[2 * i] = << r[i], "second" >>
  BY <1>1, <1>2, <1>3, <1>7 DEF Holds
<1> QED BY <1>2, <1>5, <1>7, <1>8 DEF Row

(***************************************************************************)
(* Whatever errors the tracer ignored, and wherever it was killed, a file  *)
(* the recorder accepts holds rows as they were executed, in that order,   *)
(* and never the halves of two: the flushes keep what was written, and a   *)
(* row is written whole.                                                   *)
(***************************************************************************)
THEOREM AcceptedRowsWereExecutedInvariant == Spec => []AcceptedRowsWereExecuted
<1>1. Spec => [](TypeInv /\ ExecutionInv /\ RowsInv)
  BY InitTypeInv, NextTypeInv, InitRows, NextRows, PTL DEF Spec
<1>2. TypeInv /\ RowsInv => AcceptedRowsWereExecuted
  <2> SUFFICES ASSUME TypeInv, RowsInv, Parse(file) # Nil
               PROVE  LET rows == Parse(file)
                      IN  /\ \A i \in DOMAIN rows : \E n \in 1 .. seen : rows[i] = Row(n)
                          /\ \A i, j \in DOMAIN rows : i < j => rows[i][1][1] < rows[j][1][1]
    BY DEF AcceptedRowsWereExecuted
  <2> PICK rows : rows = Parse(file)
    OBVIOUS
  <2>1. PICK r : RowsOf(file \o buffer, r, seen, result)
    BY DEF RowsInv
  <2>2. r \in Seq(Nat) /\ Holds(file, r)
    BY <2>1, HoldsPrefix DEF RowsOf, Ascending, TypeInv
  <2>3. DOMAIN rows \subseteq 1 .. Len(r) /\ \A i \in DOMAIN rows : rows[i] = Row(r[i])
    BY <2>2, ParseHolds DEF TypeInv
  <2>4. \A i \in DOMAIN rows : rows[i] = Row(r[i]) /\ r[i] \in 1 .. seen
    BY <2>1, <2>3 DEF RowsOf, Ascending
  <2>5. \A i, j \in DOMAIN rows : i < j => r[i] < r[j]
    BY <2>1, <2>3 DEF RowsOf, Ascending
  <2>6. \A i \in DOMAIN rows : rows[i][1][1] = r[i]
    BY <2>4 DEF Row
  <2>7. \A i, j \in DOMAIN rows : i < j => rows[i][1][1] < rows[j][1][1]
    BY <2>5, <2>6
  <2> QED BY <2>4, <2>7
<1> QED BY <1>1, <1>2, PTL

----------------------------------------------------------------------------
(***************************************************************************)
(* The position is that of a located pc, the one prev_line and prev_column *)
(* remember, and shows the last one the tracer was called at.              *)
(***************************************************************************)
Shows(position, at) ==
  /\ position # Nil
  /\ position.file = at.file /\ position.line = at.line
  /\ at.column # Nil => position.column = at.column

PositionInv ==
  /\ prev_pc = Nil => prev_line = Nil
  /\ prev_pc # Nil =>
       \E p \in PC :
         /\ Located(p)
         /\ trace.position = Written(Location[p])
         /\ prev_line = Written(Location[p]).line
         /\ prev_column = Written(Location[p]).column
         /\ Shows(trace.position, Written(Location[prev_pc]))

LEMMA StepLocatedShows ==
  ASSUME LinesTellFiles, TypeInv, PositionInv, Pc \in PC, StepLocated
  PROVE  PositionInv'
<1> PICK pc \in PC : pc = Pc
  OBVIOUS
<1> PICK at : at = Written(Location[pc])
  OBVIOUS
<1>1. Located(pc) /\ prev_pc' = pc /\ StepOnPosition(at)
  BY DEF StepLocated, Located
<1>2. /\ at \in Locations /\ at # Nil /\ at.line # Nil
      /\ at.file = Location[pc].file /\ at.line = Location[pc].line
  BY <1>1, WrittenLocation DEF Located
<1>3. pc # Nil
  BY TextType, TracerConstants
<1>4. Jumped(pc) \in Traces(Names, Nil, Locations) /\ Jumped(pc).position = trace.position
  BY JumpedTrace DEF TypeInv
<1>5. Stepped(Jumped(pc), at).position = at
  BY <1>2, <1>4, SteppedMirrors
<1>6. Shows(at, at)
  BY <1>2 DEF Shows
<1> DEFINE fresh == prev_line # at.line \/ (at.column # Nil /\ prev_column # at.column)
<1>7. /\ trace' = IF fresh THEN Stepped(Jumped(pc), at) ELSE Jumped(pc)
      /\ prev_line' = IF fresh THEN at.line ELSE prev_line
      /\ prev_column' = IF fresh THEN at.column ELSE prev_column
  BY <1>1 DEF StepOnPosition
<1>8. CASE fresh
  <2>1. trace'.position = at /\ prev_line' = at.line /\ prev_column' = at.column
    BY <1>5, <1>7, <1>8
  <2> QED BY ONLY <1>1, <1>3, <1>6, <2>1, at = Written(Location[pc]), pc \in PC DEF PositionInv, Located
<1>9. CASE ~ fresh
  <2>1. trace'.position = trace.position /\ prev_line' = prev_line /\ prev_column' = prev_column
    BY <1>4, <1>7, <1>9
  <2>2. prev_line = at.line /\ (at.column # Nil => prev_column = at.column)
    BY <1>9
  <2>3. prev_pc # Nil
    BY <1>2, <2>2 DEF PositionInv
  <2>4. PICK p \in PC :
          /\ Located(p)
          /\ trace.position = Written(Location[p])
          /\ prev_line = Written(Location[p]).line
          /\ prev_column = Written(Location[p]).column
    BY <2>3 DEF PositionInv
  <2>5. /\ Written(Location[p]) # Nil
        /\ Written(Location[p]).file = Location[p].file
        /\ Written(Location[p]).line = Location[p].line
    BY <2>4, WrittenLocation DEF Located
  <2>6. Location[p].line = Location[pc].line
    BY <1>2, <2>2, <2>4, <2>5
  <2>7. Location[p].file = Location[pc].file
    BY <1>1, <2>4, <2>6 DEF LinesTellFiles
  <2>8. Shows(trace.position, at)
    BY <1>2, <2>2, <2>4, <2>5, <2>7 DEF Shows
  <2> QED BY <1>1, <2>1, <2>4, <2>8, <1>3 DEF PositionInv
<1> QED BY <1>8, <1>9

LEMMA InitPosition == Init => PositionInv
BY DEF Init, PositionInv

LEMMA NextPosition ==
  LinesTellFiles /\ TypeInv /\ ExecutionInv /\ PositionInv /\ [Next]_vars => PositionInv'
<1> SUFFICES ASSUME LinesTellFiles, TypeInv, ExecutionInv, PositionInv, [Next]_vars
             PROVE  PositionInv'
  OBVIOUS
<1>1. CASE UNCHANGED << prev_pc, prev_line, prev_column >> /\ trace'.position = trace.position
  BY <1>1 DEF PositionInv
<1>2. CASE StepLocated
  <2>1. Pc \in PC
    BY <1>2, OnStepKeeps DEF StepLocated, OnStep
  <2> QED BY <1>2, <2>1, StepLocatedShows
<1>3. CASE FinishTrace
  <2>1. trace \in Traces(Names, Nil, Locations)
    BY DEF TypeInv
  <2>2. /\ Returned(trace, 1) \in Traces(Names, Nil, Locations)
        /\ Returned(trace, 1).position = trace.position
    BY <2>1, ReturnedOpen
  <2>3. Closed(Returned(trace, 1)).position = trace.position
    BY <2>2, ClosedTrace
  <2> QED BY <1>1, <1>3, <2>3 DEF FinishTrace
<1>4. Run \/ SkipUnlocated \/ StepRow \/ FinishRows \/ Killed \/ UNCHANGED vars
        => UNCHANGED << prev_pc, prev_line, prev_column, trace >>
  BY DEF Run, SkipUnlocated, StepRow, FinishRows, Killed, vars, trace_vars
<1> QED BY <1>1, <1>2, <1>3, <1>4 DEF Next

(***************************************************************************)
(* The debugger's position is that of the last located instruction, by     *)
(* file and line and by column where the file has a table, provided        *)
(* LinesTellFiles: a step that is not written is one to a position of the  *)
(* same file and line as the last written, and of the same column if it    *)
(* has one.                                                                *)
(***************************************************************************)
THEOREM TracerShowsPositionInvariant == Spec => []TracerShowsPosition
<1>1. CASE LinesTellFiles
  <2>1. TypeInv /\ ExecutionInv /\ PositionInv /\ [Next]_vars
          => (TypeInv /\ ExecutionInv /\ PositionInv)'
    BY <1>1, NextTypeInv, NextPosition
  <2>2. Spec => [](TypeInv /\ ExecutionInv /\ PositionInv)
    BY <2>1, InitTypeInv, InitPosition, PTL DEF Spec
  <2>3. PositionInv => TracerShowsPosition
    BY DEF PositionInv, TracerShowsPosition, Shows
  <2> QED BY <2>2, <2>3, PTL
<1>2. CASE ~ LinesTellFiles
  <2>1. TracerShowsPosition
    BY <1>2 DEF TracerShowsPosition
  <2> QED BY <2>1, PTL
<1> QED BY <1>1, <1>2

----------------------------------------------------------------------------
(***************************************************************************)
(* The calls of a program whose jumps tell them.  The callbacks the tracer *)
(* skips leave it at the last located pc, and the program at most one      *)
(* instruction further on; and a program in the calls of callers is in the *)
(* function each of them entered, which is what places an exit above the   *)
(* call it returns to.                                                     *)
(***************************************************************************)
InBodies(callers, pc) ==
  \A i \in 1 .. Len(callers) : \E target \in Targets(callers[i]) :
     (IF i = Len(callers) THEN pc ELSE callers[i + 1]) \in BodyFrom(target)

\* The tracer came to prev and the program to s, past nothing but the one
\* instruction that is not located, if that is where it is.
Reaches(prev, s) ==
  /\ prev = Nil => s.callers = << >> /\ ~ Located(s.pc)
  /\ prev # Nil => /\ prev \in PC /\ Located(prev)
                   /\ Located(s.pc) => prev = s.pc
                   /\ ~ Located(s.pc) => s.pc \in Continuations(prev)

Keeps(t, prev, s) ==
  /\ ~ t.orphan /\ Follows(t, s.callers)
  /\ InBodies(s.callers, s.pc)
  /\ Reaches(prev, s)

FollowInv ==
  /\ result \in {Nil, "ok"}
  /\ result = Nil /\ seen = 0 => ~ trace.orphan /\ Len(trace.open) = 1 /\ prev_pc = Nil
  /\ result = Nil /\ seen > 0 => Keeps(trace, prev_pc, snapshots[seen])
  /\ result = "ok" => /\ seen = Len(snapshots) /\ ~ trace.orphan
                      /\ Current.callers = << >> => trace.drained = 0

LEMMA CodeTargets ==
  ASSUME NEW pc \in PC
  PROVE  Targets(pc) \subseteq PC /\ Continuations(pc) \subseteq PC
<1>1. Text[pc].to \subseteq PC
  BY TextType
<1> QED BY <1>1 DEF Targets, Continuations

LEMMA BodyHasEntry ==
  ASSUME NEW pc \in PC
  PROVE  pc \in BodyFrom(pc)
BY DEF BodyFrom

LEMMA BodyCloses ==
  ASSUME NEW entry, NEW q \in BodyFrom(entry)
  PROVE  /\ q \in PC
         /\ Continuations(q) \subseteq BodyFrom(entry)
         /\ Targets(q) # {} /\ q + 1 \in PC => q + 1 \in BodyFrom(entry)
<1>1. q \in PC /\ \A S \in ClosedSets : entry \in S => q \in S
  BY DEF BodyFrom
<1>2. \A S \in ClosedSets : entry \in S =>
        Continuations(q) \subseteq S /\ (Targets(q) # {} /\ q + 1 \in PC => q + 1 \in S)
  BY <1>1 DEF ClosedSets
<1>3. Continuations(q) \subseteq PC
  BY <1>1, CodeTargets
<1> QED BY <1>1, <1>2, <1>3 DEF BodyFrom

(***************************************************************************)
(* An instruction does not leave the functions the calls entered.          *)
(***************************************************************************)
LEMMA MoveInBodies ==
  ASSUME NEW a \in SnapshotRecord, NEW b \in SnapshotRecord, Moves(a, b),
         InBodies(a.callers, a.pc)
  PROVE  InBodies(b.callers, b.pc)
<1> PICK in : in = a.callers
  OBVIOUS
<1> PICK to : to = b.pc
  OBVIOUS
<1> PICK from : from = a.pc
  OBVIOUS
<1>1. in \in Seq(PC) /\ to \in PC /\ from \in PC
  BY DEF SnapshotRecord
<1>2. PICK n \in Nat : n = Len(in)
  BY <1>1
<1>3. \A i \in 1 .. n : in[i] \in PC
  BY <1>1, <1>2, ElementOfSeq
<1>4. \A i \in 1 .. n : \E target \in Targets(in[i]) :
         (IF i = n THEN from ELSE in[i + 1]) \in BodyFrom(target)
  BY <1>2 DEF InBodies
<1>5. CASE to \in Continuations(from) /\ b.callers = in
  <2>1. ASSUME NEW i \in 1 .. n
        PROVE  \E target \in Targets(in[i]) : (IF i = n THEN to ELSE in[i + 1]) \in BodyFrom(target)
    <3>1. PICK target \in Targets(in[i]) : (IF i = n THEN from ELSE in[i + 1]) \in BodyFrom(target)
      BY <1>4, <2>1
    <3>2. i = n => to \in BodyFrom(target)
      BY <1>5, <3>1, BodyCloses
    <3> QED BY <3>1, <3>2
  <2> QED BY <1>2, <1>5, <2>1 DEF InBodies
<1>6. CASE to \in Targets(from) /\ b.callers = Append(in, from)
  <2> PICK out : out = b.callers
    OBVIOUS
  <2>1. Len(out) = n + 1 /\ out[n + 1] = from /\ \A i \in 1 .. n : out[i] = in[i]
    BY <1>1, <1>2, <1>6, AppendProperties
  <2>2. to \in BodyFrom(to)
    BY <1>1, BodyHasEntry
  <2>3. ASSUME NEW i \in 1 .. n + 1
        PROVE  \E target \in Targets(out[i]) :
                  (IF i = n + 1 THEN to ELSE out[i + 1]) \in BodyFrom(target)
    <3>1. CASE i = n + 1
      BY <1>6, <2>1, <2>2, <3>1
    <3>2. CASE i # n + 1
      <4>1. i \in 1 .. n /\ i + 1 \in 1 .. n + 1 /\ (i = n \/ i + 1 \in 1 .. n)
        BY <1>2, <2>3, <3>2
      <4>2. out[i] = in[i] /\ out[i + 1] = IF i = n THEN from ELSE in[i + 1]
        BY <2>1, <4>1
      <4> QED BY <1>4, <3>2, <4>1, <4>2
    <3> QED BY <3>1, <3>2
  <2> QED BY <2>1, <2>3 DEF InBodies
<1>7. CASE in # << >> /\ to = in[n] + 1 /\ b.callers = SubSeq(in, 1, n - 1)
  <2> PICK out : out = b.callers
    OBVIOUS
  <2>1. n \in Nat \ {0} /\ n - 1 \in Nat
    BY <1>1, <1>2, <1>7, EmptySeq
  <2>2. Len(out) = n - 1 /\ \A i \in 1 .. n - 1 : out[i] = in[i]
    <3>1. 1 \in Int /\ n - 1 \in Int /\ \A i \in 1 .. n - 1 : in[i] \in PC
      BY <1>3, <2>1
    <3>2. Len(out) = (IF 1 <= n - 1 THEN n - 1 - 1 + 1 ELSE 0)
          /\ \A i \in 1 .. n - 1 - 1 + 1 : out[i] = in[1 + i - 1]
      BY ONLY <3>1, <1>7, out = b.callers, SubSeqProperties
    <3> QED BY ONLY <2>1, <3>2
  <2>3. Targets(in[n]) # {}
    BY <1>4, <2>1
  <2>4. ASSUME NEW i \in 1 .. n - 1
        PROVE  \E target \in Targets(out[i]) :
                  (IF i = n - 1 THEN to ELSE out[i + 1]) \in BodyFrom(target)
    <3>1. i \in 1 .. n /\ i # n /\ (i = n - 1 => i + 1 = n) /\ (i # n - 1 => i + 1 \in 1 .. n - 1)
      BY <2>1, <2>4
    <3>2. PICK target \in Targets(in[i]) : in[i + 1] \in BodyFrom(target)
      BY <1>4, <3>1
    <3>3. i = n - 1 => to \in BodyFrom(target)
      BY <1>1, <1>7, <2>3, <3>1, <3>2, BodyCloses
    <3>4. i # n - 1 => out[i + 1] \in BodyFrom(target)
      BY <2>2, <3>1, <3>2
    <3> QED BY <2>2, <2>4, <3>2, <3>3, <3>4
  <2> QED BY <2>2, <2>4 DEF InBodies
<1> QED BY <1>2, <1>5, <1>6, <1>7 DEF Moves

(***************************************************************************)
(* A call and a return of the trace for one of the program.                *)
(***************************************************************************)
LEMMA FollowsByIndex ==
  ASSUME NEW t, NEW callers \in Seq(PC)
  PROVE  Follows(t, callers) <=>
           /\ Len(t.open) = Len(callers) + 1
           /\ \A i \in 1 .. Len(callers) : \E target \in Targets(callers[i]) :
                t.open[i + 1].fn = FnAtPc[target]
<1>1. DOMAIN callers = 1 .. Len(callers)
  OBVIOUS
<1>2. \A i : t.open[i + 1].fn \in {FnAtPc[target] : target \in Targets(callers[i])}
          <=> \E target \in Targets(callers[i]) : t.open[i + 1].fn = FnAtPc[target]
  OBVIOUS
<1> QED BY ONLY <1>1, <1>2, Zenon DEF Follows

LEMMA CalledFollows ==
  ASSUME NEW t \in Traces(Names, Nil, Locations), NEW in \in Seq(PC), Follows(t, in), ~ t.orphan,
         NEW from \in PC, NEW to \in Targets(from)
  PROVE  /\ Follows(Called(t, FnAtPc[to], Nil), Append(in, from))
         /\ ~ Called(t, FnAtPc[to], Nil).orphan
<1> PICK call : call = [fn |-> FnAtPc[to], target |-> Nil]
  OBVIOUS
<1> PICK out : out = Append(in, from)
  OBVIOUS
<1> PICK u : u = Called(t, FnAtPc[to], Nil)
  OBVIOUS
<1>1. PICK n \in Nat : n = Len(in)
  OBVIOUS
<1>2. t.open \in Seq(OpenCalls(Names, Nil)) /\ Len(t.open) = n + 1
  BY <1>1 DEF Traces, Follows
<1>3. \A i \in 1 .. n : \E target \in Targets(in[i]) : t.open[i + 1].fn = FnAtPc[target]
  BY <1>1, FollowsByIndex
<1>4. u.open = Append(t.open, call) /\ u.orphan = t.orphan
  BY DEF Called, Traces
<1>5. Len(u.open) = n + 2 /\ u.open[n + 2] = call /\ \A i \in 1 .. n + 1 : u.open[i] = t.open[i]
  <2>1. PICK open : open = t.open
    OBVIOUS
  <2>2. /\ Len(Append(open, call)) = Len(open) + 1
        /\ Append(open, call)[Len(open) + 1] = call
        /\ \A i \in 1 .. Len(open) : Append(open, call)[i] = open[i]
    BY <1>2, <2>1
  <2>3. Len(open) = n + 1 /\ n + 1 + 1 = n + 2
    BY <1>1, <1>2, <2>1
  <2> QED BY ONLY <1>4, <2>1, <2>2, <2>3
<1>6. out \in Seq(PC) /\ Len(out) = n + 1 /\ out[n + 1] = from /\ \A i \in 1 .. n : out[i] = in[i]
  BY <1>1, AppendProperties
<1>7. ASSUME NEW i \in 1 .. n + 1
      PROVE  \E target \in Targets(out[i]) : u.open[i + 1].fn = FnAtPc[target]
  <2>1. CASE i = n + 1
    <3>1. u.open[i + 1] = call /\ out[i] = from
      BY <1>1, <1>5, <1>6, <2>1
    <3> QED BY <3>1
  <2>2. CASE i # n + 1
    <3>1. i \in 1 .. n /\ i + 1 \in 1 .. n + 1
      BY <1>1, <1>7, <2>2
    <3>2. out[i] = in[i] /\ u.open[i + 1] = t.open[i + 1]
      BY ONLY <1>5, <1>6, <3>1
    <3>3. \E target \in Targets(in[i]) : t.open[i + 1].fn = FnAtPc[target]
      BY ONLY <1>3, <3>1
    <3> QED BY ONLY <3>2, <3>3, Zenon
  <2> QED BY <2>1, <2>2
<1>8. n + 2 = n + 1 + 1
  BY <1>1
<1>9. Follows(u, out)
  BY ONLY <1>5, <1>6, <1>7, <1>8, FollowsByIndex
<1> QED BY <1>4, <1>9

LEMMA ReturnedFollows ==
  ASSUME NEW t \in Traces(Names, Nil, Locations), NEW in \in Seq(PC), Follows(t, in), ~ t.orphan,
         in # << >>
  PROVE  /\ Follows(Returned(t, 1), SubSeq(in, 1, Len(in) - 1))
         /\ ~ Returned(t, 1).orphan
<1>1. PICK n \in Nat \ {0} : n = Len(in)
  BY EmptySeq
<1> PICK out : out = SubSeq(in, 1, n - 1)
  OBVIOUS
<1> PICK u : u = Returned(t, 1)
  OBVIOUS
<1>2. Len(t.open) = n + 1
  BY <1>1 DEF Follows
<1>3. \A i \in 1 .. n : \E target \in Targets(in[i]) : t.open[i + 1].fn = FnAtPc[target]
  BY <1>1, FollowsByIndex
<1>4. u.orphan = t.orphan /\ Len(u.open) = n /\ \A i \in 1 .. n : u.open[i] = t.open[i]
  <2>1. /\ Returned(t, 1).orphan = t.orphan
        /\ Len(Returned(t, 1).open) = Len(t.open) - 1
        /\ \A i \in 1 .. Len(t.open) - 1 : Returned(t, 1).open[i] = t.open[i]
    <3>1. 1 \in Nat /\ 1 <= Len(t.open)
      BY <1>1, <1>2
    <3>2. Returned(t, 1).orphan = t.orphan
      BY <3>1, ReturnedAtMost
    <3>3. Len(Returned(t, 1).open) = Len(t.open) - 1
      BY <3>1, ReturnedAtMost
    <3>4. \A i \in 1 .. Len(t.open) - 1 : Returned(t, 1).open[i] = t.open[i]
      BY <3>1, ReturnedAtMost
    <3> QED BY <3>2, <3>3, <3>4
  <2>2. Len(t.open) - 1 = n
    BY <1>1, <1>2
  <2> QED BY ONLY <2>1, <2>2, u = Returned(t, 1)
<1>5. out \in Seq(PC) /\ Len(out) = n - 1 /\ \A i \in 1 .. n - 1 : out[i] = in[i]
  <2>1. 1 \in Int /\ n - 1 \in Int /\ \A i \in 1 .. n - 1 : in[i] \in PC
    BY <1>1, ElementOfSeq
  <2>2. /\ out \in Seq(PC)
        /\ Len(out) = (IF 1 <= n - 1 THEN n - 1 - 1 + 1 ELSE 0)
        /\ \A i \in 1 .. n - 1 - 1 + 1 : out[i] = in[1 + i - 1]
    BY ONLY <2>1, out = SubSeq(in, 1, n - 1), SubSeqProperties
  <2> QED BY ONLY <1>1, <2>2
<1>6. ASSUME NEW i \in 1 .. n - 1
      PROVE  \E target \in Targets(out[i]) : u.open[i + 1].fn = FnAtPc[target]
  <2>1. i \in 1 .. n /\ i + 1 \in 1 .. n
    BY <1>1, <1>6
  <2>2. out[i] = in[i] /\ u.open[i + 1] = t.open[i + 1]
    BY ONLY <1>4, <1>5, <1>6, <2>1
  <2>3. \E target \in Targets(in[i]) : t.open[i + 1].fn = FnAtPc[target]
    BY ONLY <1>3, <2>1
  <2> QED BY ONLY <2>2, <2>3, Zenon
<1>7. Len(u.open) = Len(out) + 1
  BY <1>1, <1>4, <1>5
<1>8. Follows(u, out)
  BY ONLY <1>5, <1>6, <1>7, FollowsByIndex
<1> QED BY <1>1, <1>4, <1>8

(***************************************************************************)
(* Jumped, of any trace and pc before.                                     *)
(***************************************************************************)
Judged(t, prev, pc) ==
  IF prev = Nil THEN t
  ELSE IF pc > prev + 2 THEN Called(t, FnAtPc[pc], Nil)
  ELSE IF prev > pc + 2 THEN Returned(t, 1)
  ELSE t

LEMMA NextLocated ==
  ASSUME JumpsTellCalls, NEW prev \in PC, Located(prev), NEW q \in Continuations(prev)
  PROVE  /\ Located(q) => q <= prev + 2 /\ prev <= q + 2
         /\ ~ Located(q) => \A r \in Continuations(q) :
                              Located(r) /\ r <= prev + 2 /\ prev <= r + 2
<1>1. \A r \in LocatedNext(prev) : Located(r) /\ r <= prev + 2 /\ prev <= r + 2
  BY DEF JumpsTellCalls
<1>2. \A r : r \in (IF Located(q) THEN {q} ELSE Continuations(q)) => r \in LocatedNext(prev)
  BY DEF LocatedNext
<1> QED BY <1>1, <1>2

LEMMA JudgedKeeps ==
  ASSUME JumpsTellCalls, NEW t \in Traces(Names, Nil, Locations), NEW prev,
         NEW a \in SnapshotRecord, NEW b \in SnapshotRecord, Keeps(t, prev, a), Moves(a, b)
  PROVE  /\ ~ Located(b.pc) => Keeps(t, prev, b)
         /\ Located(b.pc) => Keeps(Judged(t, prev, b.pc), b.pc, b)
<1> PICK in : in = a.callers
  OBVIOUS
<1> PICK out : out = b.callers
  OBVIOUS
<1> PICK from : from = a.pc
  OBVIOUS
<1> PICK to : to = b.pc
  OBVIOUS
<1>1. /\ in \in Seq(PC) /\ from \in PC /\ to \in PC
      /\ from \in Nat /\ to \in Nat /\ to # Nil
  BY TextType, TracerConstants DEF SnapshotRecord
<1>2. InBodies(out, to) /\ InBodies(in, from)
  BY MoveInBodies DEF Keeps
<1>3. ~ t.orphan /\ Follows(t, in) /\ Reaches(prev, a)
  BY DEF Keeps
<1>4. /\ prev = Nil => in = << >> /\ ~ Located(from)
      /\ prev # Nil => /\ prev \in PC /\ prev \in Nat /\ Located(prev)
                       /\ Located(from) => prev = from
                       /\ ~ Located(from) => from \in Continuations(prev)
  BY <1>3, TextType DEF Reaches
<1>5. Located(to) => Reaches(to, b)
  BY <1>1 DEF Reaches
<1>6. CASE to \in Continuations(from) /\ out = in
  <2>1. prev # Nil /\ ~ Located(from) => Located(to) /\ to <= prev + 2 /\ prev <= to + 2
    BY <1>4, <1>6, NextLocated
  <2>2. prev # Nil /\ Located(from) => prev = from /\ to \in Continuations(prev)
          /\ (Located(to) => to <= prev + 2 /\ prev <= to + 2)
    BY <1>4, <1>6, NextLocated
  <2>3. ~ Located(to) => Reaches(prev, b)
    BY <1>4, <1>6, <2>1, <2>2 DEF Reaches
  <2>4. Located(to) => Judged(t, prev, to) = t
    BY <1>1, <1>4, <2>1, <2>2 DEF Judged
  <2> QED BY <1>2, <1>3, <1>5, <1>6, <2>3, <2>4 DEF Keeps
<1>7. CASE to \in Targets(from) /\ out = Append(in, from)
  <2>1. Located(from) /\ \A q \in BodyFrom(to) :
          q > from + 3 /\ (q = to \/ Text[q].op = "exit" => Located(q))
    BY <1>1, <1>7 DEF JumpsTellCalls
  <2>2. to \in BodyFrom(to)
    BY <1>1, BodyHasEntry
  <2>3. to > from + 3 /\ Located(to) /\ prev # Nil /\ prev = from
    BY <1>4, <2>1, <2>2
  <2>4. Judged(t, prev, to) = Called(t, FnAtPc[to], Nil)
    BY <1>1, <2>3 DEF Judged
  <2>5. /\ Follows(Called(t, FnAtPc[to], Nil), Append(in, from))
        /\ ~ Called(t, FnAtPc[to], Nil).orphan
    BY <1>1, <1>3, <1>7, CalledFollows
  <2> QED BY <1>2, <1>5, <1>7, <2>3, <2>4, <2>5 DEF Keeps
<1>8. CASE /\ Text[from].op = "exit" /\ in # << >>
           /\ to = in[Len(in)] + 1 /\ out = SubSeq(in, 1, Len(in) - 1)
  <2>1. PICK n \in Nat \ {0} : n = Len(in)
    BY <1>1, <1>8, EmptySeq
  <2>2. in[n] \in PC /\ in[n] \in Nat /\ to = in[n] + 1
    BY <1>1, <1>8, <2>1, ElementOfSeq, TextType
  <2>3. PICK target \in Targets(in[n]) : from \in BodyFrom(target)
    BY <1>2, <2>1 DEF InBodies
  <2>4. /\ (in[n] + 1 \in PC => Located(in[n] + 1))
        /\ from > in[n] + 3 /\ Located(from)
    BY <1>8, <2>2, <2>3 DEF JumpsTellCalls
  <2>5. Located(to) /\ prev # Nil /\ prev = from
    BY <1>1, <1>4, <2>2, <2>4
  <2>6. prev > to + 2 /\ ~ (to > prev + 2)
    BY <1>1, <2>2, <2>4, <2>5
  <2>7. Judged(t, prev, to) = Returned(t, 1)
    BY <2>5, <2>6 DEF Judged
  <2>8. Follows(Returned(t, 1), out) /\ ~ Returned(t, 1).orphan
    BY <1>1, <1>3, <1>8, ReturnedFollows
  <2> QED BY <1>2, <1>5, <2>5, <2>7, <2>8 DEF Keeps
<1> QED BY <1>6, <1>7, <1>8 DEF Moves

LEMMA SteppedKeeps ==
  ASSUME NEW t, NEW at, NEW prev, NEW s, t \in Traces(Names, Nil, Locations), Keeps(t, prev, s)
  PROVE  Keeps(Stepped(t, at), prev, s)
<1>1. Stepped(t, at).open = t.open /\ Stepped(t, at).orphan = t.orphan
  BY DEF Stepped, Traces
<1> QED BY <1>1 DEF Keeps, Follows

(***************************************************************************)
(* The callback for the first snapshot, and for any other.                 *)
(***************************************************************************)
LEMMA CallbackKeeps ==
  ASSUME JumpsTellCalls, TypeInv, ExecutionInv, FollowInv, result = Nil,
         seen < Len(snapshots), NEW b, b = snapshots[seen + 1]
  PROVE  /\ b \in SnapshotRecord
         /\ ~ Located(b.pc) => Keeps(trace, prev_pc, b)
         /\ Located(b.pc) => Keeps(Judged(trace, prev_pc, b.pc), b.pc, b)
<1>1. PICK n \in Nat \ {0} : n = Len(snapshots)
  BY DEF ExecutionInv, ExecutionTypeOK
<1>2. seen \in Nat /\ seen + 1 \in 1 .. n /\ snapshots \in Seq(SnapshotRecord)
  BY <1>1 DEF TypeInv, TypeOK, ExecutionTypeOK
<1>3. b \in SnapshotRecord
  BY <1>1, <1>2, ElementOfSeq
<1>4. trace \in Traces(Names, Nil, Locations)
  BY DEF TypeInv
<1>5. CASE seen = 0
  <2>1. ~ trace.orphan /\ Len(trace.open) = 1 /\ prev_pc = Nil
    BY <1>5 DEF FollowInv
  <2>2. b.callers = << >>
    BY <1>5 DEF ExecutionInv
  <2>3. Follows(trace, << >>) /\ InBodies(<< >>, b.pc)
    BY <2>1 DEF Follows, InBodies
  <2>4. Judged(trace, prev_pc, b.pc) = trace
    BY <2>1 DEF Judged
  <2>5. b.pc \in PC /\ b.pc # Nil
    BY <1>3, TextType, TracerConstants DEF SnapshotRecord
  <2>6. ~ Located(b.pc) => Reaches(prev_pc, b)
    BY <2>1, <2>2 DEF Reaches
  <2>7. Located(b.pc) => Reaches(b.pc, b)
    BY <2>5 DEF Reaches
  <2> QED BY <1>3, <2>1, <2>2, <2>3, <2>4, <2>6, <2>7 DEF Keeps
<1>6. CASE seen # 0
  <2> PICK a : a = snapshots[seen]
    OBVIOUS
  <2>1. 0 < seen /\ seen \in 1 .. n
    BY <1>1, <1>2, <1>6
  <2>2. a \in SnapshotRecord
    BY <1>1, <1>2, <2>1, ElementOfSeq
  <2>3. Moves(a, b)
    BY <2>1 DEF ExecutionInv
  <2>4. Keeps(trace, prev_pc, a)
    BY <2>1 DEF FollowInv
  <2> PICK prev : prev = prev_pc
    OBVIOUS
  <2> PICK t : t = trace
    OBVIOUS
  <2>5. t \in Traces(Names, Nil, Locations) /\ Keeps(t, prev, a)
    BY <1>4, <2>4
  <2>6. /\ ~ Located(b.pc) => Keeps(t, prev, b)
        /\ Located(b.pc) => Keeps(Judged(t, prev, b.pc), b.pc, b)
    BY ONLY JumpsTellCalls, <1>3, <2>2, <2>3, <2>5, JudgedKeeps
  <2> QED BY ONLY <1>3, <2>6, t = trace, prev = prev_pc, Zenon
<1> QED BY <1>5, <1>6

LEMMA RunExtends ==
  ASSUME ExecutionTypeOK, Execute
  PROVE  snapshots'[Len(snapshots)] = snapshots[Len(snapshots)]
<1>1. CASE snapshots' = snapshots
  BY <1>1
<1>2. ASSUME NEW s \in SnapshotRecord, snapshots' = Append(snapshots, s)
      PROVE  snapshots'[Len(snapshots)] = snapshots[Len(snapshots)]
  BY <1>2, AppendProperties DEF ExecutionTypeOK
<1> QED BY <1>1, <1>2, ExecuteMoves

LEMMA InitFollow == Init => FollowInv
<1> SUFFICES ASSUME Init PROVE FollowInv
  OBVIOUS
<1>1. result = Nil /\ seen = 0 /\ prev_pc = Nil /\ Nil # "ok"
  BY TracerConstants DEF Init
<1>2. ~ trace.orphan /\ Len(trace.open) = 1
  <2>1. trace = Called(StartedTrace(Nil), "main", Nil)
    BY DEF Init
  <2> QED BY <2>1 DEF Called, StartedTrace
<1> QED BY <1>1, <1>2 DEF FollowInv

LEMMA NextFollow ==
  ASSUME JumpsTellCalls, TypeInv, ExecutionInv, tracer = "codetracer", FollowInv, [Next]_vars
  PROVE  tracer' = "codetracer" /\ FollowInv'
<1>1. PICK n \in Nat \ {0} : n = Len(snapshots)
  BY DEF ExecutionInv, ExecutionTypeOK
<1>2. seen \in Nat /\ seen + 1 > 0 /\ Nil # "ok" /\ trace \in Traces(Names, Nil, Locations)
  BY TracerConstants DEF TypeInv, TypeOK, ExecutionTypeOK
<1>3. CASE Run /\ result = Nil
  <2>1. /\ seen = n /\ Execute
        /\ UNCHANGED << tracer, seen, prev_pc, trace, result >>
    BY <1>1, <1>3 DEF Run, trace_vars
  <2>2. snapshots'[seen] = snapshots[seen]
    BY <1>1, <2>1, RunExtends DEF ExecutionInv
  <2>3. Keeps(trace, prev_pc, snapshots[seen])
    BY <1>1, <1>3, <2>1 DEF FollowInv
  <2>4. result' = Nil /\ seen' > 0 /\ Keeps(trace', prev_pc', snapshots'[seen'])
    BY <1>1, <1>3, <2>1, <2>2, <2>3
  <2> QED BY <1>1, <1>2, <2>1, <2>4 DEF FollowInv
<1> PICK b : b = snapshots[seen + 1]
  OBVIOUS
<1>4. ASSUME OnStep("codetracer"), Keeps(trace', prev_pc', b)
      PROVE  tracer' = "codetracer" /\ FollowInv'
  <2>1. /\ result' = Nil /\ seen' = seen + 1 /\ snapshots' = snapshots /\ tracer' = tracer
    BY <1>4 DEF OnStep
  <2>2. Keeps(trace', prev_pc', snapshots'[seen'])
    BY <1>4, <2>1
  <2> QED BY <1>2, <2>1, <2>2 DEF FollowInv
<1>5. CASE SkipUnlocated
  <2>1. OnStep("codetracer") /\ Location[Pc] = Nil /\ UNCHANGED << trace, prev_pc >>
    BY <1>5 DEF SkipUnlocated, trace_vars
  <2>2. result = Nil /\ seen < Len(snapshots) /\ ~ Located(b.pc)
    BY <2>1 DEF OnStep, Pc, Located
  <2>3. Keeps(trace, prev_pc, b)
    BY <2>2, CallbackKeeps
  <2> QED BY <1>4, <2>1, <2>3
<1>6. CASE StepLocated
  <2>1. OnStep("codetracer") /\ Location[Pc] # Nil /\ StepOnPosition(Written(Location[Pc]))
        /\ prev_pc' = Pc
    BY <1>6 DEF StepLocated
  <2>2. result = Nil /\ seen < Len(snapshots) /\ Located(b.pc) /\ Pc = b.pc
    BY <2>1 DEF OnStep, Pc, Located
  <2>3. Keeps(Judged(trace, prev_pc, b.pc), b.pc, b) /\ b \in SnapshotRecord
    BY <2>2, CallbackKeeps
  <2>4. Judged(trace, prev_pc, b.pc) = Jumped(b.pc)
    BY DEF Judged, Jumped
  <2>5. b.pc \in PC
    BY <2>3 DEF SnapshotRecord
  <2>6. Jumped(b.pc) \in Traces(Names, Nil, Locations)
    BY <1>2, <2>5, JumpedTrace
  <2> PICK at : at = Written(Location[b.pc])
    OBVIOUS
  <2>7. trace' \in {Jumped(b.pc), Stepped(Jumped(b.pc), at)}
    BY <2>1, <2>2 DEF StepOnPosition
  <2>8. Keeps(Jumped(b.pc), b.pc, b)
    BY ONLY <2>3, <2>4, Zenon
  <2>9. Keeps(Stepped(Jumped(b.pc), at), b.pc, b)
    BY <2>6, <2>8, SteppedKeeps
  <2>10. Keeps(trace', b.pc, b)
    BY ONLY <2>7, <2>8, <2>9
  <2> QED BY <1>4, <2>1, <2>2, <2>10
<1>7. CASE FinishTrace
  <2>1. /\ seen = n /\ result = Nil /\ result' = "ok"
        /\ trace' = Closed(Returned(trace, 1))
        /\ UNCHANGED << snapshots, seen, tracer >>
    BY <1>1, <1>7 DEF FinishTrace
  <2>2. Keeps(trace, prev_pc, Current)
    BY <1>1, <2>1 DEF FollowInv, Current
  <2>3. ~ trace.orphan /\ Len(trace.open) = Len(Current.callers) + 1 /\ Len(Current.callers) \in Nat
    BY <2>2, CurrentIsSnapshot DEF Keeps, Follows, ExecutionInv
  <2>4. Returned(trace, 1).orphan = trace.orphan
        /\ Len(Returned(trace, 1).open) = Len(trace.open) - 1
    <3>1. 1 \in Nat /\ 1 <= Len(trace.open)
      BY <2>3
    <3>2. Returned(trace, 1).orphan = trace.orphan
      BY <1>2, <3>1, ReturnedAtMost
    <3>3. Len(Returned(trace, 1).open) = Len(trace.open) - 1
      BY <1>2, <3>1, ReturnedAtMost
    <3> QED BY <3>2, <3>3
  <2>5. Returned(trace, 1) \in Traces(Names, Nil, Locations)
    BY <1>2, ReturnedOpen
  <2>6. ~ trace'.orphan /\ trace'.drained = Len(Returned(trace, 1).open)
    BY <2>1, <2>3, <2>4, <2>5, ClosedTrace
  <2>7. Current' = Current
    BY <2>1 DEF Current
  <2>8. Current'.callers = << >> => trace'.drained = 0
    BY <2>3, <2>4, <2>6, <2>7
  <2> QED BY <1>1, <1>2, <2>1, <2>6, <2>8 DEF FollowInv
<1>8. CASE UNCHANGED vars
  <2>1. UNCHANGED << result, seen, trace, prev_pc, snapshots, tracer, Current >>
    BY <1>8 DEF vars, trace_vars, Current
  <2> QED BY <2>1 DEF FollowInv
<1>9. ~ StepRow /\ ~ FinishRows /\ ~ Killed
  BY DEF StepRow, OnStep, FinishRows, Killed
<1> QED BY <1>3, <1>5, <1>6, <1>7, <1>8, <1>9 DEF Next

(***************************************************************************)
(* Where JumpsTellCalls, a tracer without a stack keeps up with the calls  *)
(* the program is in: every instruction that moves control by more than    *)
(* two is a call or a return, the tracer sees both ends of it, and it sees *)
(* no such jump elsewhere.                                                 *)
(***************************************************************************)
THEOREM TracerFollowsCallsInvariant == Spec => []TracerFollowsCalls
<1> DEFINE Following == tracer = "codetracer" => FollowInv
<1>1. CASE JumpsTellCalls
  <2>1. Init => Following
    BY InitFollow
  <2>2. TypeInv /\ ExecutionInv /\ Following /\ [Next]_vars => Following'
    <3>1. [Next]_vars => tracer' = tracer
      BY DEF Next, Run, SkipUnlocated, StepLocated, FinishTrace, StepRow, OnStep, FinishRows,
             Killed, vars
    <3> QED BY <1>1, <3>1, NextFollow
  <2>3. TypeInv /\ Following => TracerFollowsCalls
    <3> SUFFICES ASSUME TypeInv, FollowInv, tracer = "codetracer", seen > 0
                 PROVE  TracerFollowsCalls
      BY DEF TracerFollowsCalls
    <3>1. seen \in Nat /\ (result = Nil \/ result = "ok")
      BY DEF FollowInv, TypeInv, TypeOK, ExecutionTypeOK
    <3> QED BY <3>1, TracerConstants DEF FollowInv, Keeps, TracerFollowsCalls
  <2> HIDE DEF Following
  <2>4. Spec => [](TypeInv /\ ExecutionInv /\ Following)
    BY <2>1, <2>2, InitTypeInv, NextTypeInv, PTL DEF Spec
  <2> QED BY <2>3, <2>4, PTL
<1>2. CASE ~ JumpsTellCalls
  <2>1. TracerFollowsCalls
    BY <1>2 DEF TracerFollowsCalls
  <2> QED BY <2>1, PTL
<1> QED BY <1>1, <1>2
=============================================================================

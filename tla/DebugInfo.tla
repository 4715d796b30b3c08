----------------------------- MODULE DebugInfo -----------------------------
(***************************************************************************)
(* The debug model of a program, loaded unit by unit from its DWARF        *)
(* (source_debug.rs), and what the source-level recorder asks of it: the   *)
(* position of an address, the variables in scope there and the addresses  *)
(* of those in the frame, whose size DWARF does not give and the loader    *)
(* takes from the function's code.                                         *)
(*                                                                         *)
(* An address is the number of an instruction.  Offsets into a frame are   *)
(* in the units of Align.                                                  *)
(***************************************************************************)
EXTENDS Integers, SequencesExt

CONSTANTS
  Programs,  \* the programs
  ELF(_),    \* a program's file: its units of line rows and DIEs, its text,
             \* the kind of its stack frames; and what the compiler knew of each
             \* function's frame: its size and the offsets from r10 code uses
  Nil,       \* None
  Align      \* SBF_STACK_ALIGN

ASSUME AlignType == Align \in Nat \ {0}

VARIABLES
  program,    \* the file that is loaded
  unit,       \* the unit that is read next
  files, rows, functions,
  loaded

vars == << program, unit, files, rows, functions, loaded >>

FP == 10

Covers(ranges, addr) == \E r \in Range(ranges) : r[1] <= addr /\ addr < r[2]

----------------------------------------------------------------------------
(***************************************************************************)
(* The line table of a unit.  A row holds from its address to the address  *)
(* of the next; several rows at an address leave the last.                 *)
(***************************************************************************)
FileId(paths, path) == IF Contains(paths, path) THEN paths ELSE Append(paths, path)

CloseRow(acc, row) ==
  IF acc.current # Nil /\ row.addr > acc.current.start
    THEN Append(acc.rows, [acc.current EXCEPT !.end = row.addr])
    ELSE acc.rows

\* Line 0 (Nil) is code of no line.
OpenRow(acc, row) ==
  LET paths == FileId(acc.files, row.file)
      position == [file |-> CHOOSE i \in DOMAIN paths : paths[i] = row.file, line |-> row.line]
  IN  [files |-> paths, rows |-> CloseRow(acc, row),
       current |-> [start |-> row.addr, end |-> row.addr,
                    position |-> IF row.line = Nil THEN Nil ELSE position]]

\* Defect: the end of a sequence does not end its last row.
ReadRowOn(acc, row) == IF row.end_sequence THEN acc ELSE OpenRow(acc, row)

ReadRow(acc, row) ==
  IF row.end_sequence THEN [acc EXCEPT !.rows = CloseRow(acc, row), !.current = Nil]
                      ELSE OpenRow(acc, row)

ReadLines(lines) ==
  FoldLeft(ReadRow, [files |-> files, rows |-> rows, current |-> Nil], lines)

----------------------------------------------------------------------------
(***************************************************************************)
(* The functions of a unit and their scopes.                               *)
(***************************************************************************)
RangesOf(die) == SelectSeq(die.ranges, LAMBDA r : r[1] < r[2])

\* Defect: a block without code keeps its variables to itself.
PutWhole(scope, inner) == [scope EXCEPT !.children = Append(@, inner)]

\* A block without code leaves its variables and scopes to the one around it.
Put(scope, inner) ==
  IF inner.ranges = << >>
    THEN [scope EXCEPT !.variables = @ \o inner.variables, !.children = @ \o inner.children]
    ELSE [scope EXCEPT !.children = Append(@, inner)]

RECURSIVE ScopeOf(_)

ScopeChild(scope, die) ==
  CASE die.tag = "variable" -> [scope EXCEPT !.variables = Append(@, die.variable)]
    [] die.tag \in {"lexical_block", "inlined_subroutine"} -> Put(scope, ScopeOf(die))
    [] OTHER -> scope

ScopeOf(die) ==
  FoldLeft(ScopeChild,
           [ranges |-> RangesOf(die), variables |-> << >>, children |-> << >>,
            inlined |-> die.tag = "inlined_subroutine"],
           die.children)

\* A declaration, a namespace and a unit are searched; a type is not.
RECURSIVE Walk(_)
Walk(die) ==
  IF die.tag = "subprogram" /\ RangesOf(die) # << >>
    THEN << [name |-> die.name, body |-> ScopeOf(die), stack_size |-> 0] >>
  ELSE IF die.tag = "type" THEN << >>
  ELSE FlattenSeq([i \in DOMAIN die.children |-> Walk(die.children[i])])

----------------------------------------------------------------------------
(***************************************************************************)
(* The size of a frame.                                                    *)
(***************************************************************************)
\* Defect: an adjusted copy of r10 still counts as one.
CopiesKept(copies, insn) ==
  CASE insn.op \in {"store", "jump", "add64_imm"} -> copies
    [] insn.op = "mov64_reg" /\ insn.src \in copies -> copies \cup {insn.dst}
    [] OTHER -> copies \ ({insn.dst} \ {FP})

\* The registers that hold a copy of r10 after insn.
Copies(copies, insn) ==
  CASE insn.op \in {"store", "jump"} -> copies
    [] insn.op = "mov64_reg" /\ insn.src \in copies -> copies \cup {insn.dst}
    [] insn.op = "mov64_reg" -> copies \ {insn.dst}
    [] OTHER -> copies \ ({insn.dst} \ {FP})

Below(offset) == IF offset < 0 THEN - offset ELSE 0

ScanInsn(acc, insn) ==
  [copies |-> Copies(acc.copies, insn),
   depth |->
     Max({acc.depth,
          IF \/ insn.op = "load" /\ insn.src = FP
             \/ insn.op = "store" /\ insn.dst = FP
            THEN Below(insn.off) ELSE 0,
          IF insn.op = "add64_imm" /\ insn.dst \in acc.copies THEN Below(insn.imm) ELSE 0})]

\* The copies are forgotten between ranges.
ScanRange(depth, range) ==
  FoldLeft(ScanInsn, [copies |-> {FP}, depth |-> depth],
           SubSeq(program.text, range[1] + 1, range[2])).depth

RECURSIVE VisitVariables(_)
VisitVariables(scope) ==
  Range(scope.variables)
    \cup UNION {VisitVariables(c) : c \in {d \in Range(scope.children) : ~ d.inlined}}

\* A variable's location is `fbreg` everywhere, or where a list says so.
Extent(scope) ==
  Max({0} \cup {v.fbreg + v.size :
                  v \in {w \in VisitVariables(scope) : w.live = Nil /\ w.fbreg >= 0}})

InferStackSize(f) ==
  LET size == Max({FoldLeft(ScanRange, 0, f.body.ranges), Extent(f.body)})
  IN  ((size + Align - 1) \div Align) * Align

----------------------------------------------------------------------------
Init ==
  /\ \E p \in Programs : program = ELF(p)
  /\ unit = 1
  /\ files = << >> /\ rows = << >> /\ functions = << >>
  /\ loaded = FALSE

ReadUnit ==
  /\ unit <= Len(program.units)
  /\ LET read == ReadLines(program.units[unit].lines)
     IN  files' = read.files /\ rows' = read.rows
  /\ functions' = functions \o Walk(program.units[unit].root)
  /\ unit' = unit + 1
  /\ UNCHANGED << program, loaded >>

\* The end of `load`.
Finish ==
  /\ unit > Len(program.units)
  /\ ~ loaded
  /\ rows' = SortSeq(rows, LAMBDA a, b : a.start < b.start)
  /\ functions' = [i \in DOMAIN functions |->
                     [functions[i] EXCEPT !.stack_size = InferStackSize(functions[i])]]
  /\ loaded' = TRUE
  /\ UNCHANGED << program, unit, files >>

Next == ReadUnit \/ Finish

Spec == Init /\ [][Next]_vars

----------------------------------------------------------------------------
(***************************************************************************)
(* The questions.                                                          *)
(***************************************************************************)
Position(addr) ==
  LET starts == {i \in DOMAIN rows : rows[i].start <= addr}
      row == rows[Max(starts)]
  IN  IF starts = {} \/ addr >= row.end THEN Nil ELSE row.position

RECURSIVE ScopeChain(_, _)
ScopeChain(scope, addr) ==
  LET inner == {i \in DOMAIN scope.children : Covers(scope.children[i].ranges, addr)}
  IN  IF inner = {} THEN << >>
      ELSE LET child == scope.children[Min(inner)] IN << child >> \o ScopeChain(child, addr)

\* The variables of the innermost frame, outermost scope first.
RecordLocals(f, addr) ==
  LET chain == << f.body >> \o ScopeChain(f.body, addr)
      start == Max({1} \cup {i \in DOMAIN chain : chain[i].inlined})
      scopes == SubSeq(chain, start, Len(chain))
  IN  SelectSeq(FlattenSeq([i \in DOMAIN scopes |-> scopes[i].variables]),
                LAMBDA v : v.live = Nil \/ Covers(v.live, addr))

\* The value of the frame base less that of r10.
FrameBase(f) == IF program.manual_stack_frames THEN 0 ELSE - f.stack_size

----------------------------------------------------------------------------
Addresses == 0 .. Len(program.text) - 1

\* The rows of a program with the unit and the place they are in.
LineRows == {<< u, i >> \in (1 .. Len(program.units)) \X (1 .. 20) :
               i \in DOMAIN program.units[u].lines}

LineAt(r) == program.units[r[1]].lines[r[2]]

\* The row that attributes addr: the next row of its sequence is beyond it.
Attributes(r, addr) ==
  /\ << r[1], r[2] + 1 >> \in LineRows
  /\ ~ LineAt(r).end_sequence
  /\ LineAt(r).addr <= addr /\ addr < LineAt(<< r[1], r[2] + 1 >>).addr

(***************************************************************************)
(* Whatever the order of the units and of the sequences in them, an        *)
(* address has the position of the row that attributes it, by its file's   *)
(* path, and between two sequences it has none.                            *)
(***************************************************************************)
PositionIsAttributed ==
  loaded =>
    \A addr \in Addresses :
      LET by == {r \in LineRows : Attributes(r, addr)}
          given == {<< LineAt(r).file, LineAt(r).line >> : r \in {q \in by : LineAt(q).line # Nil}}
          found == Position(addr)
      IN  given = IF found = Nil THEN {} ELSE {<< files[found.file], found.line >>}

\* The subprograms under a DIE.
RECURSIVE Subprograms(_)
Subprograms(die) ==
  {d \in {die} : d.tag = "subprogram"} \cup UNION {Subprograms(c) : c \in Range(die.children)}

\* The DIEs from a function to each scope and variable under it, in order.
RECURSIVE Paths(_)
Paths(path) ==
  << path >> \o FlattenSeq([i \in DOMAIN Last(path).children |->
    LET child == Last(path).children[i]
    IN  IF child.tag \in {"variable", "lexical_block", "inlined_subroutine"}
          THEN Paths(Append(path, child)) ELSE << >>])

IsVariable(path) == Last(path).tag = "variable"

WithCode(path) == SelectSeq(path, LAMBDA die : die.tag # "variable" /\ RangesOf(die) # << >>)

\* The scopes with code up to the innermost inlined call or function.
FrameOf(path) ==
  LET scopes == WithCode(path)
      calls == {i \in DOMAIN scopes : scopes[i].tag # "lexical_block"}
  IN  SubSeq(scopes, 1, Max(calls))

Holds(path, addr) == \A i \in DOMAIN path : Covers(path[i].ranges, addr)

\* The depth of the innermost frame at addr.
FrameDepth(paths, addr) ==
  Max({Len(f) : f \in {FrameOf(p) : p \in {q \in Range(paths) : Holds(FrameOf(q), addr)}}})

Visible(paths, addr) ==
  {i \in DOMAIN paths :
     /\ IsVariable(paths[i])
     /\ Holds(WithCode(paths[i]), addr)
     /\ Len(FrameOf(paths[i])) = FrameDepth(paths, addr)
     /\ LET v == Last(paths[i]).variable IN v.live = Nil \/ Covers(v.live, addr)}

\* What a name means: the variable of the innermost scope with code, and of
\* that the last.
Meant(paths, addr, name) ==
  LET named == {i \in Visible(paths, addr) : Last(paths[i]).variable.name = name}
      depth == Max({Len(WithCode(paths[i])) : i \in named})
  IN  Last(paths[Max({i \in named : Len(WithCode(paths[i])) = depth})]).variable

(***************************************************************************)
(* The variables recorded at an address are those of the innermost call    *)
(* there whose scopes hold it -- a scope without code holds what the one   *)
(* around it holds -- and the last recorded under a name is the innermost. *)
(***************************************************************************)
LocalsInScope ==
  loaded =>
    \A n \in DOMAIN functions : \A addr \in Addresses :
      Covers(functions[n].body.ranges, addr) =>
        LET die == CHOOSE d \in UNION {Subprograms(u.root) : u \in Range(program.units)} :
                     d.name = functions[n].name /\ RangesOf(d) # << >>
            paths == Paths(<< die >>)
            visible == Visible(paths, addr)
            locals == RecordLocals(functions[n], addr)
        IN  /\ Range(locals) = {Last(paths[i]).variable : i \in visible}
            /\ \A i \in DOMAIN locals :
                 (\A j \in i + 1 .. Len(locals) : locals[j].name # locals[i].name)
                   => locals[i] = Meant(paths, addr, locals[i].name)

\* The code or a variable reaches into the last Align of the frame.
FrameIsReached(f) ==
  LET frame == program.frames[f.name]
  IN  \/ \E o \in frame.used : - o > frame.size - Align
      \/ Extent(f.body) > frame.size - Align

(***************************************************************************)
(* The size found for a frame is never beyond the compiler's, and where    *)
(* the frame is used to its end the offsets of its variables are taken     *)
(* from the bottom of the frame, as the compiler took them.                *)
(***************************************************************************)
FrameVariablesResolve ==
  loaded =>
    \A n \in DOMAIN functions :
      LET f == functions[n]
          frame == program.frames[f.name]
          bottom == IF program.manual_stack_frames THEN 0 ELSE - frame.size
      IN  /\ f.stack_size <= frame.size
          /\ FrameIsReached(f) => FrameBase(f) = bottom
=============================================================================

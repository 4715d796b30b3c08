---------------------------- MODULE MCDebugInfo ----------------------------
(***************************************************************************)
(* Three families of programs: what varies is the line table, the scopes   *)
(* or the code.                                                            *)
(***************************************************************************)
EXTENDS DebugInfo

Row(addr, place) ==
  [addr |-> addr, end_sequence |-> FALSE, file |-> place[1], line |-> place[2]]

EndSequence(addr) == [addr |-> addr, end_sequence |-> TRUE, file |-> Nil, line |-> Nil]

Die(tag, name, ranges, children) ==
  [tag |-> tag, name |-> name, ranges |-> ranges, variable |-> Nil, children |-> children]

Var(id, name, fbreg, size, live) ==
  [tag |-> "variable", name |-> name, ranges |-> << >>, children |-> << >>,
   variable |-> [id |-> id, name |-> name, fbreg |-> fbreg, size |-> size, live |-> live]]

Insn(op, dst, src, off, imm) == [op |-> op, dst |-> dst, src |-> src, off |-> off, imm |-> imm]

Jump == Insn("jump", 0, 0, 0, 0)

Unit(lines, children) == [lines |-> lines, root |-> Die("unit", "", << >>, children)]

NoFrame == [size |-> 0, used |-> {}]

Program(units, text, manual, frames) ==
  [units |-> units, text |-> text, manual_stack_frames |-> manual, frames |-> frames]

----------------------------------------------------------------------------
(* Two sequences, on both sides of an instruction in none, in either order *)
(* and in one unit or two.                                                 *)
Places == {<< "lib.rs", 1 >>, << "util.rs", 1 >>, << "macro.rs", Nil >>}

Sequences(low, high) ==
  {<< Row(low, p), Row(middle, q), EndSequence(high) >> :
     p \in Places, q \in Places, middle \in low .. low + 2}

LinePrograms == [a : Sequences(0, 3), b : Sequences(4, 7), units : {1, 2}]

LineProgram(c) ==
  Program(IF c.units = 1 THEN << Unit(c.b \o c.a, << >>) >>
                         ELSE << Unit(c.a, << >>), Unit(c.b, << >>) >>,
          [i \in 1 .. 8 |-> Jump], FALSE, << >>)

----------------------------------------------------------------------------
(* A function with a scope in a scope and another beside them, each with a *)
(* variable of the same name, and one of them with a location list.        *)
ScopeRanges == {<< >>, << << 1, 1 >> >>, << << 0, 3 >> >>, << << 1, 2 >> >>,
                << << 0, 1 >>, << 4, 5 >> >>}

At(ranges) == {addr \in 0 .. 5 : Covers(ranges, addr)}

Tags == {"lexical_block", "inlined_subroutine"}

ScopePrograms ==
  {c \in [tag1 : Tags, tag2 : Tags,
          ranges1 : ScopeRanges, ranges2 : ScopeRanges, ranges3 : ScopeRanges,
          live : {Nil, << << 0, 2 >> >>},
          inside3 : {<< >>, << Var(5, "y", 0, 1, Nil) >>}] :
     /\ At(c.ranges1) # {} => At(c.ranges2) \subseteq At(c.ranges1)
     /\ (At(c.ranges1) \cup At(c.ranges2)) \cap At(c.ranges3) = {}}

ScopeProgram(c) ==
  Program(<< Unit(<< >>, << Die("namespace", "", << >>, <<
               Die("subprogram", "declared", << >>, << Var(0, "x", 0, 1, Nil) >>),
               Die("subprogram", "main", << << 0, 3 >>, << 4, 6 >> >>, <<
                 Var(1, "x", 0, 1, Nil),
                 Die(c.tag1, "", c.ranges1, <<
                   Var(2, "x", 0, 1, c.live),
                   Die(c.tag2, "", c.ranges2, << Var(3, "x", 0, 1, Nil) >>),
                   Die("type", "", << >>, << >>) >>),
                 Var(4, "y", 0, 1, Nil),
                 Die("lexical_block", "", c.ranges3, c.inside3) >>) >>) >>) >>,
          [i \in 1 .. 6 |-> Jump], FALSE,
          [f \in {"main"} |-> [size |-> Align, used |-> {}]])

----------------------------------------------------------------------------
(* A function of up to three uses of its frame and of its registers, before*)
(* a function with a frame of its own.  The compiler uses an object at r10 *)
(* directly, or adds its offset to a copy of r10 at once.                  *)
Direct(size, manual, o) ==
  LET off == IF manual THEN o + size ELSE o
  IN  {<< Insn("load", 1, FP, off, 0) >>, << Insn("store", FP, 1, off, 0) >>}

Formed(size, manual, o) ==
  LET off == IF manual THEN o + size ELSE o
  IN  {<< Insn("mov64_reg", 1, FP, 0, 0), Insn("add64_imm", 1, 0, 0, off) >>}

Others ==
  {<< Insn("mov64_reg", 2, 1, 0, 0) >>, << Jump >>, << Insn("alu", 1, 0, 0, 0) >>}
    \cup {<< Insn("add64_imm", r, 0, 0, - 9) >> : r \in {1, 2}}
    \cup {<< Insn("store", 1, 2, - 9, 0) >>}

Uses(size, manual) ==
  {[offset |-> 0, code |-> c] : c \in Others}
    \cup UNION {{[offset |-> o, code |-> c] :
                   c \in Direct(size, manual, o) \cup Formed(size, manual, o)} :
                 o \in {p \in {- 1, - size} : size > 0}}

Prologue(size, manual) ==
  IF manual /\ size > 0 THEN << Insn("add64_imm", FP, 0, 0, - size) >> ELSE << >>

Variables(size) ==
  {<< >>} \cup {v \in {<< Var(1, "x", size - 1, 1, Nil) >>,
                       << Die("inlined_subroutine", "", << << 0, 1 >> >>,
                              << Var(1, "x", 0, 1, Nil) >>) >>} : size > 0}

FramePrograms ==
  UNION {[size : {size}, manual : {manual}, variables : Variables(size),
          uses : UNION {[1 .. n -> Uses(size, manual)] : n \in 0 .. 3}] :
           size \in {0, Align, 2 * Align}, manual \in BOOLEAN}

FrameProgram(c) ==
  LET main == Prologue(c.size, c.manual) \o FlattenSeq([i \in DOMAIN c.uses |-> c.uses[i].code])
                \o << Jump >>
      next == Prologue(Align, c.manual) \o << Insn("add64_imm", 1, 0, 0, - 9) >>
                \o (CHOOSE code \in Direct(Align, c.manual, - Align) : TRUE)
      n == Len(main)
  IN  Program(<< Unit(<< >>, <<
                   Die("subprogram", "main", << << 0, n >> >>, c.variables),
                   Die("subprogram", "next", << << n, n + Len(next) >> >>, << >>) >>) >>,
              main \o next, c.manual,
              [f \in {"main", "next"} |->
                 IF f = "main" THEN [size |-> c.size, used |-> {c.uses[i].offset : i \in DOMAIN c.uses}]
                               ELSE [size |-> Align, used |-> {- Align}]])

----------------------------------------------------------------------------
MCPrograms ==
  ({"lines"} \X LinePrograms) \cup ({"scopes"} \X ScopePrograms) \cup ({"code"} \X FramePrograms)

MCELF(p) ==
  CASE p[1] = "lines" -> LineProgram(p[2])
    [] p[1] = "scopes" -> ScopeProgram(p[2])
    [] p[1] = "code" -> FrameProgram(p[2])
=============================================================================

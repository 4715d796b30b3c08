---------------------------- MODULE SourcePaths ----------------------------
(***************************************************************************)
(* How source files are named in a trace, and which have a line table.     *)
(*                                                                         *)
(* A path is the sequence of its components, "/" first when it is          *)
(* absolute.  Debug info spells one file in several ways: absolute,        *)
(* relative to a crate, a bare name.  The writer (external) fixes a path's *)
(* line table at the first record that names it, and a column can be       *)
(* written only in a file with a table.                                    *)
(***************************************************************************)
EXTENDS Naturals, FiniteSets, SequencesExt

CONSTANTS
  Nil,        \* None
  Disk,       \* the files that can be read here, by absolute path
  Cwd,        \* the working directory
  CrateDirs,  \* the directories that hold a Cargo.toml
  RustFiles,  \* the file names with extension rs
  DepInfo     \* the absolute paths in the dep-info file beside the ELF

Path == Seq(STRING)

ASSUME PathsType ==
  /\ Disk \subseteq Path /\ CrateDirs \subseteq Path /\ DepInfo \subseteq Path
  /\ Cwd \in Path

IsAbsolute(path) == path # << >> /\ path[1] = "/"

Join(dir, path) == IF IsAbsolute(path) THEN path ELSE dir \o path

Exists(path) == Join(Cwd, path) \in Disk

Parent(path) == SubSeq(path, 1, Len(path) - 1)

\* The one of dirs nearest to path among its ancestors and itself, or Nil.
Nearest(path, dirs) ==
  LET found == {n \in 1 .. Len(path) : SubSeq(path, 1, n) \in dirs}
  IN  IF found = {} THEN Nil ELSE SubSeq(path, 1, Max(found))

----------------------------------------------------------------------------
(***************************************************************************)
(* Whose source a path is.                                                 *)
(***************************************************************************)
SameLogicalSource(anchor, file) == IsSuffix(file, anchor) \/ IsSuffix(anchor, file)

\* "registry" and "library" stand for the directories of cargo's registry and
\* of Rust's own library.
IsThirdPartySource(file) ==
  \/ \E i \in DOMAIN file : file[i] \in {"registry", "library"}
  \/ Last(file) = "lib.rs"

UserCrateRoot(source) ==
  IF IsAbsolute(source) THEN Nearest(source, CrateDirs) ELSE Nil

\* Defect: with a crate root known, only the file's name is looked at.
IsThirdPartyByName(source, root, file) ==
  ~ SameLogicalSource(source, file) /\ IsThirdPartySource(file)

IsThirdPartyForUser(source, root, file) ==
  /\ ~ SameLogicalSource(source, file)
  /\ IF root = Nil THEN IsThirdPartySource(file) ELSE ~ Exists(Join(root, file))

\* The one path a file is recorded under.
CanonicalStepPath(source, root, file) ==
  IF SameLogicalSource(source, file) THEN source
  ELSE IF root # Nil /\ (IsAbsolute(file) \/ Exists(Join(root, file)))
       THEN Join(root, file)
       ELSE file

----------------------------------------------------------------------------
(***************************************************************************)
(* The source file of a trace (record_from_traces), and the files of the   *)
(* line table (PathResolver).                                              *)
(***************************************************************************)
SiblingRsSource(elf) ==
  LET src == Append(Parent(Parent(Parent(elf))), "src")
      entries == {path \in Disk : Parent(path) = src /\ Last(path) \in RustFiles}
  IN  IF Cardinality(entries) = 1 THEN CHOOSE path \in entries : TRUE ELSE Nil

ResolveAgainstElfCrate(path, elf) ==
  LET crate == Nearest(elf, {dir \in CrateDirs : Exists(Join(dir, path))})
  IN  IF IsAbsolute(path) \/ Exists(path) \/ crate = Nil THEN path ELSE Join(crate, path)

\* files: those of the executed locations, in order.
TraceSourcePath(files, elf) ==
  LET own == {i \in DOMAIN files : ~ IsThirdPartySource(files[i])}
      sibling == SiblingRsSource(elf)
      chosen == IF own # {} THEN files[Min(own)]
                ELSE IF sibling # Nil THEN sibling
                ELSE IF files # << >> THEN files[1] ELSE elf
  IN  ResolveAgainstElfCrate(chosen, elf)

\* comp_dir: << >> when the unit has none.
Resolved(path, comp_dir, elf) ==
  LET listed == {src \in DepInfo : IsSuffix(path, src)}
      crate == Nearest(Parent(elf), {dir \in CrateDirs : Exists(Join(dir, path))})
  IN  IF IsAbsolute(path) \/ comp_dir # << >> THEN Join(comp_dir, path)
      ELSE IF Cardinality(listed) = 1 THEN CHOOSE src \in listed : TRUE
      ELSE IF crate # Nil THEN Join(crate, path) ELSE path

----------------------------------------------------------------------------
(***************************************************************************)
(* The registration of one recording:                                      *)
(*   canonical  the path each spelling is recorded under                   *)
(*   tabled     the file whose lines the recorder gave a path, or Nil      *)
(*   tables     the same for each path the writer knows, by its own account *)
(***************************************************************************)
NoPaths == [canonical |-> << >>, tabled |-> << >>, tables |-> << >>]

Extended(f, key, value) ==
  [k \in DOMAIN f \cup {key} |-> IF k \in DOMAIN f THEN f[k] ELSE value]

\* The file whose lines read_line_lengths_for_path reads, or Nil.
Readable(path) == IF Exists(path) THEN Join(Cwd, path) ELSE Nil

\* Registering a path the writer knows changes nothing.
Registered(reg, path, lines) == [reg EXCEPT !.tables = Extended(@, path, lines)]

\* A record that names a path, as `start` does.
Mentioned(reg, path) == Registered(reg, path, Nil)

\* A file under its own spelling, as the tracer and the source recorder do.
OwnSpelling(reg, file) ==
  [Registered(reg, file, Readable(file)) EXCEPT !.tabled = Extended(@, file, Readable(file))]

Ensured(reg, source, file) ==
  LET path == CanonicalStepPath(source, UserCrateRoot(source), file)
      lines == IF Exists(path) THEN Readable(path) ELSE Readable(Join(Parent(source), file))
  IN  IF file \in DOMAIN reg.canonical THEN reg
      ELSE [(IF path \in DOMAIN reg.tabled THEN reg ELSE Registered(reg, path, lines)) EXCEPT
              !.canonical = Extended(@, file, path), !.tabled = Extended(@, path, lines)]
=============================================================================

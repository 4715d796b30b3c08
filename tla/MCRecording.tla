---------------------------- MODULE MCRecording ----------------------------
(***************************************************************************)
(* A crate in /w with its program in target/deploy, recorded from /home:   *)
(* two files of the crate under several spellings, a dependency's lib.rs,  *)
(* and files that are nowhere.                                             *)
(***************************************************************************)
EXTENDS Recording

MCElf == << "/", "w", "target", "deploy", "prog.so" >>
MCCwd == << "/", "home" >>
MCCrateDirs == {<< "/", "w" >>}

InCrate(name) == << "/", "w", "src", name >>

MCDisk == {MCElf, InCrate("prog.rs"), InCrate("util.rs"), << "/", "home", "here.rs" >>}

MCRustFiles == {"prog.rs", "util.rs", "here.rs", "lib.rs"}

MCDepInfo == {InCrate("prog.rs"), << "/", "registry", "dep", "src", "lib.rs" >>}

Loc(file, column) == [file |-> file, column |-> column]

MCLocations ==
  { Loc(<< "src", "prog.rs" >>, "inside"), Loc(<< "prog.rs" >>, Nil),
    Loc(<< "src", "util.rs" >>, "inside"), Loc(<< "util.rs" >>, "inside"),
    Loc(InCrate("util.rs"), "past"), Loc(InCrate("gone.rs"), "inside"),
    Loc(<< "src", "lib.rs" >>, "inside"),
    Loc(<< "/", "registry", "dep", "src", "lib.rs" >>, "past") }

MCAnchors == {InCrate("prog.rs"), << "src", "prog.rs" >>, << "here.rs" >>}

MCPrograms == {MCElf, << "target", "deploy", "prog.so" >>, Nil}

MCAccountFile == << << "payer.rs" >>, << "token.rs" >> >>

MCUnknownProgram == << "unknown_program.rs" >>

MCIndices == {Nil, 0, 1, 9, 257}
=============================================================================

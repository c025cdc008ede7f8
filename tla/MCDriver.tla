------------------------------ MODULE MCDriver ------------------------------
(* Two sources and at most one pre-built object, whose names an output may   *)
(* have as well: prog is the executable of stem prog, b.ll and b.o are the   *)
(* LLVM assembly and the object of stem b.  Three temporary names are the    *)
(* most a run holds at once: a nameless object, the bitcode of the second    *)
(* source and its optimised form or object; or two objects and a program.    *)
EXTENDS Driver

TwoSources == <<"prog", "b.ll">>
GivenObjects == {"b.o", "user.o"}
AllStems == {"", "prog", "b"}
OneStem == {"prog"}
AllEmits == {"exe", "obj", "asm", "llvm"}
NativeEmits == {"obj", "asm"}

MCArtifactPath(stem, extension) ==
  IF extension = "" THEN stem ELSE stem \o "." \o extension
=============================================================================

------------------------------- MODULE MCOptions -------------------------------
(* Command lines of inputs of every kind, in the directory, below it and      *)
(* elsewhere, with and without -o and --working-dir; names a shell may break  *)
(* or change, in every place that takes a path; and, on one input, every      *)
(* target on two hosts, every level and every output.                        *)
EXTENDS Options

Dir(root, names) == [root |-> root, names |-> names]
Sub == Dir(FALSE, <<"sub">>)
Out == Dir(TRUE, <<"my out">>)
File(dir, stem, ext) == [dir |-> dir, stem |-> stem, ext |-> ext]
Arg(flag, value) == [flag |-> flag, value |-> value]
Optional(flag, values) == {<<>>} \cup {<<Arg(flag, v)>> : v \in values}
Dump == <<Arg("--dump-config", TRUE)>>

Sources == {File(Here, "a", "bas"), File(Sub, "my prog", ""), File(Out, "b", "bas")}
Others == {File(Here, "a", "o"), File(Sub, "c", "s"), File(Out, "d", "lib")}
InputLists ==
  {<<x>> : x \in Sources \cup Others} \cup {<<x, y>> : x \in Sources \cup Others, y \in Sources \cup Others}
    \cup {<<y, x, z>> : x \in Sources, y \in Others, z \in Sources}

PathLines ==
  {[i \in DOMAIN files |-> Arg("file", files[i])] \o o \o w \o include \o t \o Dump :
     files \in InputLists, o \in Optional("-o", {File(Here, "p", ""), File(Sub, "my prog", "exe"), File(Out, "a", "")}),
     w \in Optional("--working-dir", {Sub, Out}), t \in Optional("--emit", {"llvm"}),
     include \in {<<>>, <<Arg("-I", File(Sub, "inc", "")), Arg("-I", File(Out, "inc", ""))>>}}

TargetLines ==
  {<<Arg("file", File(Here, "a", "bas"))>> \o a \o b \o p \o e \o l \o s :
     a \in Optional("--arch", {"x86", "arm", "wasm", "c"}), b \in Optional("--bits", {32, 64}),
     p \in Optional("--platform", {"linux", "windows", "macos"}),
     e \in Optional("--emit", {"obj", "asm", "llvm"}), l \in Optional("-O", {"O2", "Oz"}),
     s \in {<<>>, Dump, Dump \o <<Arg("-g", TRUE), Arg("--dump-ir", TRUE), Arg("--toolchain", Sub)>>,
            Dump \o <<Arg("--verbose", TRUE), Arg("--dump-ast", TRUE)>>}}

Name == {"c", "my prog", "a;b", "a$b"}
NameLines ==
  {<<Arg("file", File(Dir(FALSE, <<d>>), n, "bas"))>> \o o \o w \o t \o i \o Dump :
     n \in Name, d \in Name, o \in Optional("-o", {File(Dir(FALSE, <<n>>), n, "") : n \in Name}),
     w \in Optional("--working-dir", {Dir(FALSE, <<n>>) : n \in Name}),
     t \in Optional("--toolchain", {Dir(FALSE, <<n>>) : n \in Name}),
     i \in Optional("-I", {File(Dir(FALSE, <<n>>), "my out", "") : n \in Name})}

MCCommandLines == PathLines \cup TargetLines \cup NameLines
MCCwds == {Dir(TRUE, <<"home">>), Dir(TRUE, <<"my home">>)}
MCHosts == {[arch |-> "x86", width |-> 64, platform |-> "linux"],
            [arch |-> "arm", width |-> 64, platform |-> "macos"]}
MCSpaced == {"my prog", "my out", "my home"}
MCFragile == {"a;b"}
MCSpecial == {"a$b"}
=============================================================================

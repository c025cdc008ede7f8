-------------------------------- MODULE Options --------------------------------
(***************************************************************************)
(* From the command line to what the driver works with: the options main()  *)
(* builds, what finalize() derives of them, the target of the Context and   *)
(* the paths of the Driver - and back, as --dump-config prints the options  *)
(* as a command line, which may be run in turn.                             *)
(* A path is a directory, a stem and an extension ("" for none); a          *)
(* directory is a sequence of names, from the root or not.  An argument is  *)
(* a flag and its value, "file" for an input.                               *)
(* (An operator used nowhere is a mutant of the definition that follows.)  *)
(***************************************************************************)
EXTENDS Naturals, SequencesExt

CONSTANTS
  CommandLines,  \* the sequences of arguments explored
  Cwds,          \* the directories the compiler may be run in, from the root
  Hosts,         \* the targets it may run on: arch, width, platform
  Spaced,        \* the names with a space in them
  Fragile,       \* those with another character that needs quotes: a tab, a semicolon
  Special        \* those with one that quotes do not protect: a quotation mark, a $

ASSUME OptionsAssumption == Hosts \subseteq [arch : STRING, width : {32, 64}, platform : STRING]

VARIABLES
  cwd, host,
  arguments,     \* of the command line
  options,       \* CompileOptions, NoOptions before
  session,       \* what the Context and the Driver make of them, NoSession before
  first          \* options and session of the run that printed `arguments`, or none

vars == <<cwd, host, arguments, options, session, first>>

-----------------------------------------------------------------------------
(* Paths.                                                                   *)

Here == [root |-> FALSE, names |-> <<>>]    \* also the empty path
NoPath == [dir |-> Here, stem |-> "", ext |-> ""]

Absolute(dir, base) ==
  IF dir.root THEN dir ELSE [root |-> TRUE, names |-> base.names \o dir.names]

(* resolveDirectory: against the directory the process is in.               *)
ResolveDirectory(dir) == Absolute(dir, cwd)

Absolutize(path, base) == [path EXCEPT !.dir = Absolute(@, base)]

FileTypes == {"Source", "Assembly", "Object", "Library"}
DetectFileType(path) ==
  CASE path.ext \in {"s", "asm"} -> "Assembly"
    [] path.ext \in {"o", "obj"} -> "Object"
    [] path.ext \in {"a", "lib", "so", "dylib", "dll"} -> "Library"
    [] OTHER -> "Source"

-----------------------------------------------------------------------------
(* buildOptions(), from the flags LLVM parsed.  An unset flag has its default. *)

Values(args, flag, default) ==
  LET of == SelectSeq(args, LAMBDA a : a.flag = flag)
  IN IF of = <<>> THEN default ELSE of[1].value

All(args, flag) ==
  LET of == SelectSeq(args, LAMBDA a : a.flag = flag)
  IN [i \in DOMAIN of |-> of[i].value]

OfType(args, type) == SelectSeq(All(args, "file"), LAMBDA f : DetectFileType(f) = type)

Switches == {"-g", "--dump-ast", "--dump-ir", "--dump-config", "--verbose"}

NoOptions == [files |-> <<>>]
BuildOptions ==
  /\ options = NoOptions
  /\ options' =
       [files |-> [t \in FileTypes |-> OfType(arguments, t)],
        includePaths |-> All(arguments, "-I"),
        outputPath |-> Values(arguments, "-o", NoPath),
        workingDirectory |-> Values(arguments, "--working-dir", Here),
        buildPath |-> Here, outputStem |-> "", final |-> FALSE,
        toolchainPath |-> Values(arguments, "--toolchain", Here),
        outputType |-> Values(arguments, "--emit", "exe"),
        optimizationLevel |-> Values(arguments, "-O", "O0"),
        arch |-> Values(arguments, "--arch", "default"),
        bitness |-> Values(arguments, "--bits", 0),
        platform |-> Values(arguments, "--platform", "default"),
        switches |-> {s \in Switches : Values(arguments, s, FALSE)}]
  /\ UNCHANGED <<cwd, host, arguments, session, first>>

(* The stem of the first source, or of the first object without sources.    *)
DeriveOutputStem(files) ==
  CASE files["Source"] # <<>> -> files["Source"][1].stem
    [] files["Source"] = <<>> /\ files["Object"] # <<>> -> files["Object"][1].stem
    [] OTHER -> ""

FinalizeFromCwd ==
  /\ options # NoOptions /\ ~options.final
  /\ LET working == ResolveDirectory(options.workingDirectory)
         explicit == options.outputPath # NoPath
     IN options' = [options EXCEPT
          !.workingDirectory = working,
          !.buildPath = ResolveDirectory(IF explicit THEN options.outputPath.dir ELSE @),
          !.outputStem = IF explicit THEN options.outputPath.stem ELSE DeriveOutputStem(options.files),
          !.final = TRUE]
  /\ UNCHANGED <<cwd, host, arguments, session, first>>

(* -o has the build directory and the stem; else the first input has.       *)
Finalize ==
  /\ options # NoOptions /\ ~options.final
  /\ LET working == ResolveDirectory(options.workingDirectory)
         explicit == options.outputPath # NoPath
     IN options' = [options EXCEPT
          !.workingDirectory = working,
          !.buildPath = IF explicit THEN ResolveDirectory(options.outputPath.dir)
                        ELSE IF @ = Here THEN working ELSE ResolveDirectory(@),
          !.outputStem = IF explicit THEN options.outputPath.stem ELSE DeriveOutputStem(options.files),
          !.final = TRUE]
  /\ UNCHANGED <<cwd, host, arguments, session, first>>

ArtifactPath(extension) == [dir |-> options.buildPath, stem |-> options.outputStem, ext |-> extension]

-----------------------------------------------------------------------------
(* The target.  A triple is a family, its width - 0 if it is unknown - and a *)
(* platform; pinned is its deployment target on macOS.                      *)

ArchType(arch) ==
  [arch |-> IF arch = "c" THEN "unknown" ELSE arch,
   width |-> CASE arch = "wasm" -> 32 [] arch = "c" -> 0 [] OTHER -> 64]

WithArch(triple) ==
  IF options.arch = "default" THEN triple
  ELSE [triple EXCEPT !.arch = ArchType(options.arch).arch, !.width = ArchType(options.arch).width]

(* get32BitArchVariant(), get64BitArchVariant().                            *)
WithBits(triple) ==
  IF options.bitness = 0 \/ triple.width = 0 THEN triple
  ELSE [triple EXCEPT !.width = options.bitness]

WithPlatform(triple) ==
  IF options.platform = "default" THEN triple ELSE [triple EXCEPT !.platform = options.platform]

Pinned(triple) ==
  [arch |-> triple.arch, width |-> triple.width, platform |-> triple.platform,
   pinned |-> triple.platform = "macos"]

BuildTripleBitsFirst == Pinned(WithPlatform(WithArch(WithBits(host))))

BuildTriple == Pinned(WithPlatform(WithBits(WithArch(host))))

-----------------------------------------------------------------------------
(* The Context, and the Driver's resolvePaths().  The objects go to the      *)
(* linker, and the toolchain's directory into a tool's path, as they were    *)
(* written: they are relative to where the compiler runs.                   *)

NoSession == [triple |-> "none"]

AllAbsolute(paths) == [i \in DOMAIN paths |-> Absolutize(paths[i], options.workingDirectory)]

Extension == CASE options.outputType = "exe" -> "" [] options.outputType = "obj" -> "o"
               [] options.outputType = "asm" -> "s" [] options.outputType = "llvm" -> "ll"

StartDriver ==
  /\ options # NoOptions /\ options.final /\ session = NoSession
  /\ session' = [triple |-> BuildTriple,
                 inputs |-> AllAbsolute(options.files["Source"]),
                 includeDirs |-> AllAbsolute(options.includePaths),
                 objects |-> options.files["Object"],
                 toolchain |-> options.toolchainPath,
                 output |-> ArtifactPath(Extension)]
  /\ UNCHANGED <<cwd, host, arguments, options, first>>

-----------------------------------------------------------------------------
(* toCommandLine(): settings that are not the default, then the files of     *)
(* each bucket in turn.  An argument is written with quotes or without.     *)

DirectoryFlags == {"--working-dir", "--toolchain"}
PathFlags == DirectoryFlags \cup {"file", "-o", "-I"}

(* The names a value is made of.                                            *)
NamesIn(flag, value) ==
  CASE flag \in DirectoryFlags -> ToSet(value.names)
    [] flag \in PathFlags \ DirectoryFlags -> ToSet(value.dir.names) \cup {value.stem}
    [] OTHER -> {}

Has(flag, value, names) == NamesIn(flag, value) \cap names # {}

Plain(flag, value) == [flag |-> flag, value |-> value, quoted |-> FALSE]

(* quote() looks for spaces, and for nothing else that a shell would see.    *)
Quote(flag, value) == [flag |-> flag, value |-> value, quoted |-> Has(flag, value, Spaced)]

Unless(default, argument) == IF argument.value = default THEN <<>> ELSE <<argument>>

SwitchesOn(names) ==
  LET on == SelectSeq(names, LAMBDA name : name \in options.switches)
  IN [i \in DOMAIN on |-> Plain(on[i], TRUE)]

Files(type) == [i \in DOMAIN options.files[type] |-> Quote("file", options.files[type][i])]

Settings ==
  Unless("O0", Plain("-O", options.optimizationLevel))
    \o SwitchesOn(<<"-g">>)
    \o Unless("exe", Plain("--emit", options.outputType))
    \o Unless("default", Plain("--arch", options.arch))
    \o Unless(0, Plain("--bits", options.bitness))
    \o Unless("default", Plain("--platform", options.platform))

Directories ==
  Unless(Here, Quote("--working-dir", options.workingDirectory))
    \o Unless(Here, Quote("--toolchain", options.toolchainPath))
    \o [i \in DOMAIN options.includePaths |-> Quote("-I", options.includePaths[i])]

Inputs == Files("Source") \o Files("Assembly") \o Files("Object") \o Files("Library")

ToCommandLineBare ==
  Settings \o Directories
    \o SwitchesOn(<<"--dump-ast", "--dump-ir", "--dump-config", "--verbose">>)
    \o Unless(NoPath, [Quote("-o", options.outputPath) EXCEPT !.quoted = FALSE]) \o Inputs

ToCommandLine ==
  Settings \o Directories
    \o SwitchesOn(<<"--dump-ast", "--dump-ir", "--dump-config", "--verbose">>)
    \o Unless(NoPath, Quote("-o", options.outputPath)) \o Inputs

(* The shell: outside quotes a word breaks at a space and at other characters, *)
(* and what is behind is a word of its own; some characters are not taken as  *)
(* they are within quotes either.  What is not read as it was written is some *)
(* other value, here the empty one.                                         *)
Breaks(argument) ==
  ~argument.quoted /\ Has(argument.flag, argument.value, Spaced \cup Fragile)

Words(argument) ==
  LET empty == IF argument.flag \in DirectoryFlags THEN Here ELSE NoPath
      Word(value) == [flag |-> argument.flag, value |-> value]
  IN CASE Breaks(argument) -> <<Word(empty), [flag |-> "file", value |-> NoPath]>>
       [] ~Breaks(argument) /\ Has(argument.flag, argument.value, Special) -> <<Word(empty)>>
       [] OTHER -> <<Word(argument.value)>>

RunAgain ==
  /\ session # NoSession /\ "--dump-config" \in options.switches /\ first = <<>>
  /\ first' = <<options, session>>
  /\ arguments' = FlattenSeq([i \in DOMAIN ToCommandLine |-> Words(ToCommandLine[i])])
  /\ options' = NoOptions /\ session' = NoSession
  /\ UNCHANGED <<cwd, host>>

Init ==
  /\ arguments \in CommandLines /\ cwd \in Cwds /\ host \in Hosts
  /\ options = NoOptions /\ session = NoSession /\ first = <<>>

Over ==
  /\ session # NoSession
  /\ "--dump-config" \notin options.switches \/ first # <<>>
  /\ UNCHANGED vars

Next == BuildOptions \/ Finalize \/ StartDriver \/ RunAgain \/ Over

Spec == Init /\ [][Next]_vars

-----------------------------------------------------------------------------
(* Properties.                                                              *)

Started == session # NoSession

(* An argument a shell does not read as it is printed: quote(), "when it       *)
(* contains whitespace", looks for spaces only, and escapes nothing.         *)
Garbled(argument) ==
  \/ Has(argument.flag, argument.value, Special)
  \/ Has(argument.flag, argument.value, Fragile) /\ ~Has(argument.flag, argument.value, Spaced)

(* "Render the options as an equivalent command-line string": what is printed *)
(* makes, run in the same place, the same options, reads the same files and  *)
(* writes the same one for the same target, if and only if no argument, nor   *)
(* the working directory, has such a name (CompileOptions::toCommandLine).   *)
EquivalentLine ==
  Started /\ first # <<>> =>
    LET before == first[1]
        paths == UNION {ToSet(before.files[t]) : t \in FileTypes}
                   \cup ToSet(before.includePaths) \cup {before.outputPath}
        garbled == \/ \E path \in paths : Garbled(Plain("file", path))
                   \/ \E dir \in {before.workingDirectory, before.toolchainPath} :
                        Garbled(Plain("--working-dir", dir))
    IN <<options, session>> = first <=> ~garbled

(* The family, the width and the platform asked for are those compiled for,  *)
(* in every combination; what is not asked for is the host's, but for the    *)
(* width, which is the family's (Context.cpp buildTriple).                  *)
TargetIsAsked ==
  Started =>
    LET triple == session.triple
        known == options.arch # "c"
    IN /\ options.arch = "default" => triple.arch = host.arch
       /\ options.arch # "default" /\ known => triple.arch = options.arch
       /\ options.bitness # 0 /\ known => triple.width = options.bitness
       /\ options.bitness = 0 /\ options.arch = "default" => triple.width = host.width
       /\ triple.platform = IF options.platform = "default" THEN host.platform ELSE options.platform
       /\ triple.pinned <=> triple.platform = "macos"

(* Which directory a relative path is relative to: for sources and include    *)
(* directories the one of --working-dir, "Resolve relative paths against      *)
(* <dir>"; but for the output only without -o, and for -o, the objects and    *)
(* the toolchain the one the compiler runs in, whatever --working-dir says    *)
(* (CompileOptions::finalize, Driver::resolvePaths, Toolchain::resolve).     *)
PathBases ==
  Started =>
    LET there == Absolute(Values(arguments, "--working-dir", Here), cwd)
        output == Values(arguments, "-o", NoPath)
        FromThere(path) == Absolutize(path, there)
        InOrder(paths, resolved) ==
          DOMAIN paths = DOMAIN resolved /\ \A i \in DOMAIN paths : resolved[i] = FromThere(paths[i])
    IN /\ InOrder(OfType(arguments, "Source"), session.inputs)
       /\ InOrder(All(arguments, "-I"), session.includeDirs)
       /\ session.output.dir = IF output = NoPath THEN there ELSE Absolute(output.dir, cwd)
       /\ session.objects = OfType(arguments, "Object")
       /\ session.toolchain = Values(arguments, "--toolchain", Here)
=============================================================================

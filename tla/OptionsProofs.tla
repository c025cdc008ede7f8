---------------------------- MODULE OptionsProofs ----------------------------
(***************************************************************************)
(* Proofs about the options, for any command lines and any host: the target *)
(* is the one asked for, and every path is relative to the directory it is   *)
(* said to be.                                                             *)
(***************************************************************************)
EXTENDS Options, TLAPS

-----------------------------------------------------------------------------
(* The invariant.                                                           *)

(* The options have all their fields.                                       *)
Complete ==
  options \in [files : {options.files}, includePaths : {options.includePaths},
               outputPath : {options.outputPath}, workingDirectory : {options.workingDirectory},
               buildPath : {options.buildPath}, outputStem : {options.outputStem},
               final : {options.final}, toolchainPath : {options.toolchainPath},
               outputType : {options.outputType}, optimizationLevel : {options.optimizationLevel},
               arch : {options.arch}, bitness : {options.bitness}, platform : {options.platform},
               switches : {options.switches}]

WorkingDir == Values(arguments, "--working-dir", Here)
There == Absolute(WorkingDir, cwd)
OutputPath == Values(arguments, "-o", NoPath)
BuildDir == IF OutputPath = NoPath THEN There ELSE Absolute(OutputPath.dir, cwd)

(* What is kept of the command line, before and after finalize().           *)
Kept ==
  options # NoOptions =>
    /\ Complete /\ options.final \in BOOLEAN
    /\ options.files["Source"] = OfType(arguments, "Source") /\ options.includePaths = All(arguments, "-I")
    /\ options.files["Object"] = OfType(arguments, "Object")
    /\ options.toolchainPath = Values(arguments, "--toolchain", Here)
    /\ ~options.final => /\ options.workingDirectory = WorkingDir /\ options.buildPath = Here
                         /\ options.outputPath = OutputPath
    /\ options.final => options.workingDirectory = There /\ options.buildPath = BuildDir

(* The session is made of final options, which stay while it lasts.         *)
SessionIs ==
  Started =>
    /\ options # NoOptions /\ options.final
    /\ session.triple = BuildTriple
    /\ session.inputs = AllAbsolute(options.files["Source"])
    /\ session.includeDirs = AllAbsolute(options.includePaths)
    /\ session.output.dir = options.buildPath
    /\ session.objects = options.files["Object"] /\ session.toolchain = options.toolchainPath

OptionsInv == host \in Hosts /\ Kept /\ SessionIs

-----------------------------------------------------------------------------
(* The target.                                                              *)

(* Whatever is combined, the triple is what was asked for.                  *)
LEMMA TripleIsAsked ==
  ASSUME host \in Hosts
  PROVE  LET known == options.arch # "c"
         IN /\ options.arch = "default" => BuildTriple.arch = host.arch
            /\ options.arch # "default" /\ known => BuildTriple.arch = options.arch
            /\ options.bitness # 0 /\ known => BuildTriple.width = options.bitness
            /\ options.bitness = 0 /\ options.arch = "default" => BuildTriple.width = host.width
            /\ BuildTriple.platform = IF options.platform = "default" THEN host.platform ELSE options.platform
            /\ BuildTriple.pinned <=> BuildTriple.platform = "macos"
<1> DEFINE a == WithArch(host)
           b == WithBits(a)
           p == WithPlatform(b)
<1>1. host \in [arch : STRING, width : {32, 64}, platform : STRING]
  BY OptionsAssumption
<1>2. /\ a \in [arch : {a.arch}, width : {a.width}, platform : {a.platform}]
      /\ a.platform = host.platform
      /\ options.arch = "default" => a.arch = host.arch /\ a.width = host.width
      /\ options.arch # "default" =>
           a.arch = ArchType(options.arch).arch /\ a.width = ArchType(options.arch).width
  BY <1>1 DEF WithArch
<1>3. /\ options.arch # "default" /\ options.arch # "c" => a.arch = options.arch
      /\ options.arch # "c" => a.width # 0
  BY <1>1, <1>2 DEF ArchType
<1> HIDE DEF a
<1>4. /\ b \in [arch : {b.arch}, width : {b.width}, platform : {b.platform}]
      /\ b.platform = a.platform /\ b.arch = a.arch
      /\ options.bitness = 0 => b.width = a.width
      /\ options.bitness # 0 /\ a.width # 0 => b.width = options.bitness
  BY <1>2 DEF WithBits
<1> HIDE DEF b
<1>5. /\ p.platform = IF options.platform = "default" THEN b.platform ELSE options.platform
      /\ p.arch = b.arch /\ p.width = b.width
  BY <1>4 DEF WithPlatform
<1>6. BuildTriple = Pinned(p)
  BY DEF BuildTriple, a, b
<1> HIDE DEF p
<1>7. /\ BuildTriple.arch = p.arch /\ BuildTriple.width = p.width /\ BuildTriple.platform = p.platform
      /\ BuildTriple.pinned <=> p.platform = "macos"
  BY <1>6 DEF Pinned
<1>8. QED
  BY <1>2, <1>3, <1>4, <1>5, <1>7

-----------------------------------------------------------------------------
(* The steps.                                                               *)

(* The options, once built, have all their fields.                          *)
LEMMA BuildOptionsKeeps == OptionsInv /\ BuildOptions => OptionsInv'
<1> SUFFICES ASSUME OptionsInv, BuildOptions PROVE OptionsInv'
  OBVIOUS
<1>1. options = NoOptions /\ UNCHANGED <<cwd, host, arguments, session, first>>
  BY DEF BuildOptions
<1>2. /\ Complete' /\ options'.final = FALSE
      /\ options'.files["Source"] = OfType(arguments, "Source")
      /\ options'.files["Object"] = OfType(arguments, "Object")
      /\ options'.toolchainPath = Values(arguments, "--toolchain", Here)
      /\ options'.includePaths = All(arguments, "-I")
      /\ options'.workingDirectory = WorkingDir /\ options'.buildPath = Here
      /\ options'.outputPath = OutputPath
  BY DEF BuildOptions, Complete, WorkingDir, OutputPath, FileTypes
<1>3. Kept'
  BY <1>1, <1>2 DEF Kept, WorkingDir, OutputPath
<1>4. SessionIs'
  BY <1>1 DEF OptionsInv, SessionIs, Started
<1>5. QED
  BY <1>1, <1>3, <1>4 DEF OptionsInv

(* finalize() settles the directories.                                      *)
LEMMA FinalizeKeeps == OptionsInv /\ Finalize => OptionsInv'
<1> SUFFICES ASSUME OptionsInv, Finalize PROVE OptionsInv'
  OBVIOUS
<1> DEFINE explicit == options.outputPath # NoPath
           stem == IF explicit THEN options.outputPath.stem ELSE DeriveOutputStem(options.files)
           build == IF explicit THEN ResolveDirectory(options.outputPath.dir)
                    ELSE IF options.buildPath = Here THEN There ELSE ResolveDirectory(options.buildPath)
<1>1. /\ options # NoOptions /\ options.final = FALSE
      /\ UNCHANGED <<cwd, host, arguments, session, first>>
  BY DEF Finalize, OptionsInv, Kept
<1>2. /\ Complete /\ options.files["Source"] = OfType(arguments, "Source")
      /\ options.files["Object"] = OfType(arguments, "Object")
      /\ options.toolchainPath = Values(arguments, "--toolchain", Here)
      /\ options.includePaths = All(arguments, "-I")
      /\ options.workingDirectory = WorkingDir /\ options.buildPath = Here
      /\ options.outputPath = OutputPath
  BY <1>1 DEF OptionsInv, Kept
<1>3. ResolveDirectory(options.workingDirectory) = There
  BY <1>2 DEF ResolveDirectory, There
<1>4. options' = [options EXCEPT !.workingDirectory = There, !.buildPath = build,
                                 !.outputStem = stem, !.final = TRUE]
  BY <1>3 DEF Finalize
<1>5. build = BuildDir
  BY <1>2 DEF BuildDir, ResolveDirectory
<1> HIDE DEF build, stem
<1>6. /\ Complete' /\ options'.final = TRUE
      /\ options'.files = options.files /\ options'.includePaths = options.includePaths
      /\ options'.toolchainPath = options.toolchainPath
      /\ options'.workingDirectory = There /\ options'.buildPath = build
  BY <1>2, <1>4 DEF Complete
<1>7. There' = There /\ BuildDir' = BuildDir
  BY <1>1 DEF There, WorkingDir, BuildDir, OutputPath
<1>8. Kept'
  BY <1>1, <1>2, <1>5, <1>6, <1>7 DEF Kept
<1>9. SessionIs'
  BY <1>1 DEF OptionsInv, SessionIs, Started
<1>10. QED
  BY <1>1, <1>8, <1>9 DEF OptionsInv

(* The session is made.                                                     *)
LEMMA StartDriverKeeps == OptionsInv /\ StartDriver => OptionsInv'
<1> SUFFICES ASSUME OptionsInv, StartDriver PROVE OptionsInv'
  OBVIOUS
<1>1. options # NoOptions /\ options.final /\ UNCHANGED <<cwd, host, arguments, options, first>>
  BY DEF StartDriver
<1>2. Kept'
  BY <1>1 DEF OptionsInv, Kept, Complete, There, WorkingDir, BuildDir, OutputPath
<1>3. /\ session'.triple = BuildTriple /\ session'.inputs = AllAbsolute(options.files["Source"])
      /\ session'.includeDirs = AllAbsolute(options.includePaths)
      /\ session'.output.dir = options.buildPath
      /\ session'.objects = options.files["Object"] /\ session'.toolchain = options.toolchainPath
  BY DEF StartDriver, ArtifactPath
<1>4. SessionIs'
  BY <1>1, <1>3 DEF SessionIs, BuildTriple, Pinned, WithPlatform, WithArch, WithBits, AllAbsolute
<1>5. QED
  BY <1>1, <1>2, <1>4 DEF OptionsInv

(* Every step.                                                              *)
LEMMA OptionsStep == OptionsInv /\ [Next]_vars => OptionsInv'
<1> SUFFICES ASSUME OptionsInv, [Next]_vars PROVE OptionsInv'
  OBVIOUS
<1>1. CASE RunAgain
  <2>1. options' = NoOptions /\ session' = NoSession /\ host' = host
    BY <1>1 DEF RunAgain
  <2>2. QED
    BY <2>1 DEF OptionsInv, Kept, SessionIs, Started
<1>2. CASE UNCHANGED vars
  <2>1. UNCHANGED <<cwd, host, arguments, options, session>>
    BY <1>2 DEF vars
  <2>2. Kept'
    BY <2>1 DEF OptionsInv, Kept, Complete, There, WorkingDir, BuildDir, OutputPath
  <2>3. SessionIs'
    BY <2>1 DEF OptionsInv, SessionIs, Started, BuildTriple, Pinned, WithPlatform, WithArch, WithBits, AllAbsolute
  <2>4. QED
    BY <2>1, <2>2, <2>3 DEF OptionsInv
<1>3. QED
  BY <1>1, <1>2, BuildOptionsKeeps, FinalizeKeeps, StartDriverKeeps DEF Next, Over

(* From the start.                                                          *)
THEOREM OptionsInvHolds == Spec => []OptionsInv
<1>1. Init => OptionsInv
  BY DEF Init, OptionsInv, Kept, SessionIs, Started
<1>2. QED
  BY <1>1, OptionsStep, PTL DEF Spec

(* For every combination of settings and every host, the family, the width    *)
(* and the platform asked for are those compiled for (buildTriple).         *)
THEOREM TargetIsAskedHolds == Spec => []TargetIsAsked
<1>1. OptionsInv => TargetIsAsked
  <2> SUFFICES ASSUME OptionsInv, Started PROVE TargetIsAsked
    BY DEF TargetIsAsked
  <2>1. session.triple = BuildTriple /\ host \in Hosts
    BY DEF OptionsInv, SessionIs
  <2>2. QED
    BY <2>1, TripleIsAsked DEF TargetIsAsked
<1>2. QED
  BY <1>1, OptionsInvHolds, PTL

(* For every command line and directory: sources and include directories are  *)
(* resolved, in order, against --working-dir; the output goes there only     *)
(* without -o; -o, the objects and the toolchain are relative to where the   *)
(* compiler runs.                                                           *)
THEOREM PathBasesHolds == Spec => []PathBases
<1>1. OptionsInv => PathBases
  <2> SUFFICES ASSUME OptionsInv, Started PROVE PathBases
    BY DEF PathBases
  <2>1. /\ options # NoOptions /\ options.final
        /\ session.inputs = AllAbsolute(options.files["Source"])
        /\ session.includeDirs = AllAbsolute(options.includePaths)
        /\ session.output.dir = options.buildPath
        /\ session.objects = options.files["Object"] /\ session.toolchain = options.toolchainPath
    BY DEF OptionsInv, SessionIs
  <2>2. /\ options.files["Source"] = OfType(arguments, "Source")
        /\ options.files["Object"] = OfType(arguments, "Object")
        /\ options.includePaths = All(arguments, "-I")
        /\ options.toolchainPath = Values(arguments, "--toolchain", Here)
        /\ options.workingDirectory = There /\ options.buildPath = BuildDir
    BY <2>1 DEF OptionsInv, Kept
  <2>3. There = Absolute(Values(arguments, "--working-dir", Here), cwd)
    BY DEF There, WorkingDir
  <2>4. QED
    BY <2>1, <2>2, <2>3 DEF PathBases, AllAbsolute, BuildDir, OutputPath
<1>2. QED
  BY <1>1, OptionsInvHolds, PTL
=============================================================================

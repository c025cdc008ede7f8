----------------------------- MODULE DriverProofs -----------------------------
(***************************************************************************)
(* Proofs about a whole run of the driver, for any sources, pre-built       *)
(* objects and names.  What is inductive is where the run's Artefact values  *)
(* are at each point of it (Placed) and that each temporary on disk has one *)
(* of them for its owner (Kept).                                            *)
(***************************************************************************)
EXTENDS Driver, FiniteSetTheorems, WellFoundedInduction, TLAPS

-----------------------------------------------------------------------------
(* The inductive invariant.                                                 *)

Pipeline == {"llvm", "bitcode", "optimise", "native", "link"}
Steps == {"start", "open", "write", "drop", "return"}
Sections == {"validate", "compile", "collect", "gather", "unwind", "done", "aborted"}
PerSource == {"compile", "llvm", "bitcode", "optimise", "native", "collect"}

Options == [emit : Emits, optimise : BOOLEAN, count : 0 .. MaxSources,
            objects : {<<>>} \cup {<<o>> : o \in Objects}, stem : Stems]

Typed ==
  /\ opts \in Options
  /\ disk \in [Files -> Contents]
  /\ art \in [Handles -> Values]
  /\ collected \in 0 .. MaxSources + Cardinality(Objects)
  /\ llvm \in 0 .. Len(SourceFile)
  /\ cur \in 1 .. MaxSources
  /\ errors \in Nat /\ outcome \in {"running", "ok", "failed", "aborted"}

(* Where the run can be: the stages of its pipeline, and how many sources    *)
(* have been collected there.                                               *)
Controlled ==
  /\ \/ stage \in Sections /\ step = "run"
     \/ stage \in Pipeline /\ step \in Steps
  /\ stage = "llvm" => opts.emit = "llvm"
  /\ stage \in {"bitcode", "optimise", "native"} => opts.emit # "llvm"
  /\ stage \in {"gather", "link"} => opts.emit = "exe"
  /\ stage \in PerSource \cup {"validate"} => collected = cur - 1
  /\ stage = "gather" => collected = cur
  /\ stage = "validate" => cur = 1
  /\ stage \notin {"validate", "unwind", "done", "aborted"} =>
       cur <= opts.count /\ (opts.emit # "exe" => opts.count = 1)
  /\ stage \in {"gather", "link"} => cur = opts.count

(* Which storage holds a value: the objects vector up to its size, the input *)
(* of a stage that has one, the output from when it is opened.              *)
Placed ==
  /\ \A h \in Handles : h > Slot(collected) => art[h] = Empty
  /\ (step # "run" /\ stage \notin {"optimise", "native"}) \/ step = "return"
       \/ stage \in Sections \ {"unwind", "aborted"} => art[In] = Empty
  /\ step \in {"start", "open"} \/ stage \in Sections \ {"collect", "unwind", "aborted"} =>
       art[Out] = Empty
  /\ step \in {"write", "drop", "return"} =>
       IF StageIsTemporary(stage)
       THEN /\ art[Out].temporary
            /\ art[Out].path = NoPath => stage = "link" /\ step = "write"
       ELSE art[Out] = [path |-> NamedOutput(stage), temporary |-> FALSE]
  /\ stage = "done" => art = [h \in Handles |-> Empty]

(* Whether h owns f, said of the value alone.                               *)
Owning(h, f) == art[h].temporary /\ art[h].path = f

(* The temporaries on disk are those that one Artefact owns, and only a tool  *)
(* that failed has removed one.                                             *)
Kept ==
  /\ \A h \in Handles :
       IF art[h].temporary THEN art[h].path \in TempFiles \cup {NoPath}
       ELSE art[h].path \in Objects \cup Outputs \cup {NoPath}
  /\ \A g, h \in Handles : \A f \in TempFiles : Owning(g, f) /\ Owning(h, f) => g = h
  /\ \A f \in TempFiles : Exists(f) => \E h \in Handles : Owning(h, f)
  /\ stage \notin {"unwind", "done", "aborted"} =>
       \A h \in Handles : \A f \in TempFiles : Owning(h, f) => Exists(f)

(* A run that has failed has said so.                                       *)
Counted == /\ outcome = "failed" <=> errors > 0
           /\ outcome # "running" <=> stage \in {"unwind", "done", "aborted"}

(* What the driver has told a stage to work on is a file.                   *)
Filled ==
  /\ stage \in {"optimise", "native"} /\ step \in {"start", "open", "write"} =>
       art[In].temporary /\ art[In].path \in TempFiles
  /\ stage = "collect" => art[Out].path \in Files
  /\ stage \notin {"unwind", "done", "aborted"} /\ (stage = "link" => step \notin {"drop", "return"}) =>
       \A i \in 1 .. collected : art[Slot(i)].path \in Files

Inv == Typed /\ Controlled /\ Placed /\ Filled /\ Kept /\ Counted

(* What is on disk at each point of a run with one source that makes an      *)
(* executable or LLVM assembly.                                             *)
Single == opts.count = 1 /\ opts.emit \in {"exe", "llvm"}
Holds(f, form, of) == disk[f].form = form /\ disk[f].of = of
Objecting == \/ stage = "native" /\ step \in {"drop", "return"}
             \/ stage \in {"collect", "gather"}
             \/ stage = "link" /\ step \in {"start", "open", "write"}
Unlinked == /\ stage \notin {"unwind", "done", "aborted"}
            /\ stage = "link" => step \notin {"drop", "return"}

(* The value whose file is the object made of the source.                    *)
OwnObject == art[IF stage \in {"gather", "link"} THEN Slot(1) ELSE Out]

Traced ==
  /\ cur = 1
  /\ opts.emit = "exe" /\ Unlinked =>
       \A o \in Objects : Nameless \/ o # ObjectOut =>
         disk[o] \in {Absent, Holding("prebuilt", {0}, FALSE)}
  /\ stage \in {"llvm", "bitcode"} /\ step \in {"start", "open", "write"} => llvm = 1
  /\ stage \in {"optimise", "native"} /\ step \in {"start", "open", "write"} =>
       Holds(art[In].path, "bitcode", {1})
  /\ stage \in {"bitcode", "optimise"} /\ step \in {"drop", "return"} =>
       Holds(art[Out].path, "bitcode", {1})
  /\ opts.emit = "exe" /\ Objecting =>
       /\ Holds(OwnObject.path, "object", {1})
       /\ IF Nameless THEN OwnObject.path \in TempFiles ELSE OwnObject.path = ObjectOut
  /\ stage = "link" /\ step \in {"start", "open", "write"} =>
       /\ collected = 1 + Len(opts.objects)
       /\ \A i \in DOMAIN opts.objects : art[Slot(i + 1)].path = opts.objects[i]
  /\ stage = "link" /\ step = "write" /\ art[Out].path = NoPath => cause
  /\ opts.emit = "llvm" /\ (stage = "llvm" => step \in {"drop", "return"})
       /\ stage \in {"llvm", "collect"} /\ ~Nameless => Holds(LlvmOut, "ir", {1})
  /\ (outcome = "ok" \/ (stage = "link" /\ step \in {"drop", "return"})) /\ ~Nameless =>
       Holds(Requested.file, Requested.form, Requested.of)

-----------------------------------------------------------------------------
(* The model's operators.                                                   *)

(* The storage of a run: the two ends of a stage and the objects vector.     *)
LEMMA HandleFacts ==
  /\ Cardinality(Objects) \in Nat /\ MaxSources \in Nat /\ MaxSources > 0
  /\ Len(SourceFile) \in Nat /\ MaxSources <= Len(SourceFile)
  /\ \A h : h \in Handles <=> h \in Nat /\ h <= MaxSources + Cardinality(Objects) + 1
  /\ In \in Handles /\ Out \in Handles /\ In # Out
  /\ \A i \in 1 .. MaxSources + Cardinality(Objects) :
       Slot(i) \in Handles /\ Slot(i) # In /\ Slot(i) # Out
<1>1. Cardinality(Objects) \in Nat
  BY FS_CardinalityType, DriverAssumption
<1>2. QED
  BY <1>1, DriverAssumption DEF Handles, In, Out, Slot

(* What lies beyond the vector's elements is neither end of a stage.         *)
LEMMA BeyondSlots ==
  ASSUME Typed, NEW h \in Handles, h > Slot(collected)
  PROVE  h # In /\ h # Out
BY HandleFacts DEF Typed, In, Out, Slot

(* What is destroyed first is well defined: there is a least handle.          *)
LEMMA LeastHandle ==
  ASSUME NEW T, T \subseteq Handles, T # {}
  PROVE  /\ (CHOOSE h \in T : \A g \in T : h <= g) \in T
         /\ \A g \in T : (CHOOSE h \in T : \A e \in T : h <= e) <= g
<1> DEFINE Less == {ss \in Nat \X Nat : ss[1] < ss[2]}
<1>1. IsWellFoundedOn(Less, Nat)
  BY NatLessThanWellFounded DEF OpToRel
<1>2. T \subseteq Nat
  BY HandleFacts
<1>3. PICK h \in T : \A g \in T : <<g, h>> \notin Less
  <2> HIDE DEF Less
  <2>1. QED
    BY <1>1, <1>2, WFMin
<1>4. ASSUME NEW g \in T PROVE h <= g
  <2>1. CASE g < h
    <3>1. <<g, h>> \in Less
      BY <2>1, <1>2
    <3>2. QED
      BY <3>1, <1>3
  <2>2. QED
    BY <2>1, <1>2
<1>5. \E e \in T : \A g \in T : e <= g
  BY <1>4
<1>6. QED
  BY <1>5

(* Every name a run can work on is a file, and no requested output or input  *)
(* has the name of a temporary.                                             *)
LEMMA FileFacts ==
  /\ \A i \in 1 .. MaxSources : SourceFile[i] \in Files \ TempFiles
  /\ TempFiles \subseteq Files /\ Objects \subseteq Files /\ Outputs \subseteq Files
  /\ (Objects \cup Outputs) \cap TempFiles = {} /\ NoPath \notin TempFiles \cup Outputs
BY HandleFacts, DriverAssumption DEF Files, Sources, Outputs

(* The names of what a run may be asked for are different outputs, none of   *)
(* them a temporary, and those of native code are no sources.                *)
LEMMA OutputFacts ==
  ASSUME Typed, ~Nameless
  PROVE  /\ {ObjectOut, AssemblyOut, LlvmOut, ExecutableOut} \subseteq Outputs
         /\ ObjectOut # ExecutableOut
         /\ ObjectOut \notin Sources /\ AssemblyOut \notin Sources
<1>1. opts.stem \in Named
  BY DEF Typed, Options, Nameless, Named
<1>2. {"", "o", "s", "ll"} = Extensions
  BY DEF Extensions
<1>3. {ObjectOut, AssemblyOut, LlvmOut, ExecutableOut} \subseteq Outputs
  <2>1. \A e \in Extensions : ArtifactPath(opts.stem, e) \in Outputs
    BY <1>1 DEF Outputs
  <2>2. QED
    BY <1>2, <2>1 DEF ObjectOut, AssemblyOut, LlvmOut, ExecutableOut
<1>4. ObjectOut # ExecutableOut
  BY <1>1, <1>2, DriverAssumption DEF ObjectOut, ExecutableOut
<1>5. ObjectOut \notin Sources /\ AssemblyOut \notin Sources
  <2>1. \A i \in DOMAIN SourceFile :
          ArtifactPath(opts.stem, "o") # SourceFile[i] /\ ArtifactPath(opts.stem, "s") # SourceFile[i]
    BY <1>1, DriverAssumption
  <2>2. QED
    BY <2>1 DEF ObjectOut, AssemblyOut, Sources
<1>6. QED
  BY <1>3, <1>4, <1>5

(* The order of the stages in each pipeline.                                *)
LEMMA StageOrder ==
  ASSUME opts.emit \in {"exe", "obj", "asm", "llvm"}
  PROVE  /\ opts.emit = "llvm" => StageAfter("compile") = "llvm" /\ StageAfter("llvm") = "collect"
         /\ opts.emit # "llvm" => /\ StageAfter("compile") = "bitcode"
                                  /\ StageAfter("bitcode") = "optimise"
                                  /\ StageAfter("optimise") = "native"
                                  /\ StageAfter("native") = "collect"
<1>1. CASE opts.emit = "llvm"
  <2>1. Stages = <<"compile", "llvm">>
    BY <1>1 DEF Stages
  <2>2. /\ (CHOOSE k \in DOMAIN Stages : Stages[k] = "compile") = 1
        /\ (CHOOSE k \in DOMAIN Stages : Stages[k] = "llvm") = 2
    BY <2>1
  <2>3. QED
    BY <1>1, <2>1, <2>2 DEF StageAfter
<1>2. CASE opts.emit # "llvm"
  <2>1. Stages = <<"compile", "bitcode", "optimise", "native">>
    BY <1>2 DEF Stages
  <2>2. /\ (CHOOSE k \in DOMAIN Stages : Stages[k] = "compile") = 1
        /\ (CHOOSE k \in DOMAIN Stages : Stages[k] = "bitcode") = 2
        /\ (CHOOSE k \in DOMAIN Stages : Stages[k] = "optimise") = 3
        /\ (CHOOSE k \in DOMAIN Stages : Stages[k] = "native") = 4
    BY <2>1
  <2>3. QED
    BY <1>2, <2>1, <2>2 DEF StageAfter
<1>3. QED
  BY <1>1, <1>2

(* Which stages write a temporary, and the name the others write to.         *)
LEMMA StageOutputs ==
  ASSUME Typed
  PROVE  /\ StageIsTemporary("bitcode") = TRUE /\ StageIsTemporary("optimise") = TRUE
         /\ StageIsTemporary("llvm") = Nameless /\ StageIsTemporary("link") = Nameless
         /\ StageIsTemporary("native") = (opts.emit # "exe" \/ Nameless)
         /\ \A s \in {"llvm", "native", "link"} : ~Nameless => NamedOutput(s) \in Outputs
         /\ NamedOutput("llvm") = LlvmOut /\ NamedOutput("link") = ExecutableOut
         /\ NamedOutput("native") \in {ObjectOut, AssemblyOut}
         /\ opts.emit = "exe" => NamedOutput("native") = ObjectOut
BY OutputFacts DEF StageIsTemporary, NativeIsTemporary, ToExecutable, NamedOutput, EmitsAssembly

(* They depend on the stage and the options only.                           *)
LEMMA OutputsStay ==
  ASSUME UNCHANGED <<opts, stage>>
  PROVE  /\ NamedOutput(stage)' = NamedOutput(stage)
         /\ StageIsTemporary(stage)' = StageIsTemporary(stage)
BY DEF NamedOutput, StageIsTemporary, NativeIsTemporary, ToExecutable, EmitsAssembly, Nameless,
   ObjectOut, AssemblyOut, LlvmOut, ExecutableOut

(* A diagnostic is counted, so the number of them is one; options it finds    *)
(* nothing wrong with name a source, and only one unless they are linked.    *)
LEMMA ReportsCounted ==
  ASSUME Typed
  PROVE  /\ Reports \in Nat
         /\ Reports = 0 => opts.count >= 1 /\ (opts.emit # "exe" => opts.count = 1)
<1> DEFINE missing == {i \in 1 .. opts.count : ~Exists(SourceFile[i])}
<1>1. opts.count \in Nat
  BY HandleFacts DEF Typed, Options
<1>2. IsFiniteSet(1 .. opts.count)
  BY <1>1, FS_Interval
<1>3. missing \in SUBSET (1 .. opts.count)
  OBVIOUS
<1>4. Cardinality(missing) \in Nat
  BY <1>2, <1>3, FS_Subset, FS_CardinalityType
<1>5. Reports = (IF opts.count = 0 THEN 1 ELSE 0) + Cardinality(missing)
                  + (IF ~ToExecutable /\ opts.count > 1 THEN 1 ELSE 0)
  BY DEF Reports
<1> HIDE DEF missing
<1>6. QED
  BY <1>1, <1>4, <1>5 DEF ToExecutable

(* A destructor deletes the file its value owns, and no other.               *)
LEMMA DestroyFacts ==
  ASSUME Typed, Kept, NEW h \in Handles, Destroy(h)
  PROVE  /\ disk' \in [Files -> Contents] /\ art' \in [Handles -> Values]
         /\ art' = [art EXCEPT ![h] = Empty]
         /\ \A f \in TempFiles : Exists(f)' <=> Exists(f) /\ ~Owning(h, f)
         /\ \A f \in Files \ TempFiles : disk'[f] = disk[f]
         /\ \A f \in Files : ~Owning(h, f) => disk'[f] = disk[f]
<1>1. Absent \in Contents /\ Empty \in Values
  BY DEF Absent, Nothing, Holding, Contents, Forms, Empty, Values
<1>2. art' = [art EXCEPT ![h] = Empty] /\ art' \in [Handles -> Values]
  BY <1>1 DEF Destroy, Typed
<1>3. \A f \in Files : f \in Owned(h) <=> f \in TempFiles /\ Owning(h, f)
  BY FileFacts DEF Owned, Owning, Kept
<1>4. /\ disk' \in [Files -> Contents]
      /\ \A f \in Files : disk'[f] = IF f \in Owned(h) THEN Absent ELSE disk[f]
  BY <1>1 DEF Destroy, Typed
<1>5. QED
  BY <1>2, <1>3, <1>4, FileFacts DEF Exists

(* The contents that the driver itself gives to files.                       *)
LEMMA ContentFacts ==
  /\ Absent \in Contents /\ Empty \in Values
  /\ \A form \in Forms : Nothing(form) \in Contents
  /\ \A form \in Forms \ {"absent"} : Nothing(form) # Absent
  /\ \A form \in Forms : \A of \in SUBSET (0 .. Len(SourceFile)) : Holding(form, of, FALSE) \in Contents
  /\ \A form \in Forms \ {"absent"} : \A of : Holding(form, of, FALSE) # Absent
BY DEF Absent, Nothing, Holding, Contents, Forms, Empty, Values

-----------------------------------------------------------------------------
(* The steps of a run keep the invariant.                                   *)

(* A step that leaves files and values alone keeps Kept, except for one out  *)
(* of unwinding.                                                            *)
LEMMA KeptCarries ==
  ASSUME Kept, UNCHANGED <<disk, art>>,
         stage \in {"unwind", "done", "aborted"} => stage' \in {"unwind", "done", "aborted"}
  PROVE  Kept'
BY DEF Kept, Owning, Exists

(* A run starts with nothing but its inputs.                                *)
LEMMA InitiallyNone == Init => \A f \in TempFiles : ~Exists(f)
<1> SUFFICES ASSUME Init, NEW f \in TempFiles PROVE ~Exists(f)
  OBVIOUS
<1>1. f \in Files /\ f \notin Sources \cup Objects
  BY FileFacts, DriverAssumption DEF Sources
<1>2. disk[f] = Absent
  BY <1>1 DEF Init
<1>3. QED
  BY <1>2 DEF Exists

LEMMA InitInv == Init => Inv
<1> SUFFICES ASSUME Init PROVE Inv
  OBVIOUS
<1>1. Typed
  <2>1. {Absent, Nothing("text"), Holding("prebuilt", {0}, FALSE)} \subseteq Contents
    BY HandleFacts DEF Absent, Nothing, Holding, Contents, Forms
  <2>2. disk \in [Files -> Contents]
    BY <2>1 DEF Init
  <2>0. /\ collected = 0 /\ llvm = 0 /\ cur = 1 /\ errors = 0 /\ outcome = "running"
    BY DEF Init
  <2>3. opts \in Options /\ art \in [Handles -> Values]
    BY ContentFacts DEF Init, Options
  <2>4. QED
    BY <2>0, <2>2, <2>3, HandleFacts DEF Typed
<1>2. Controlled /\ Counted
  BY DEF Init, Controlled, Counted, Sections, PerSource, Pipeline
<1>3. Placed /\ Filled
  BY HandleFacts DEF Init, Placed, Filled, Sections, Slot
<1>4. Kept
  <2>1. \A h \in Handles : art[h] = Empty /\ ~art[h].temporary /\ art[h].path = NoPath
    BY DEF Init, Empty
  <2>2. \A f \in TempFiles : ~Exists(f)
    BY InitiallyNone
  <2>3. QED
    BY <2>1, <2>2 DEF Kept, Owning
<1>5. QED
  BY <1>1, <1>2, <1>3, <1>4 DEF Inv

(* The options found wanting, or the first source taken up.                 *)
LEMMA ValidateInv == Inv /\ Validate => Inv'
<1> SUFFICES ASSUME Inv, Validate PROVE Inv'
  OBVIOUS
<1> USE DEF Validate, Inv, At, Goto
<1>1. Reports \in Nat /\ (Reports = 0 => opts.count >= 1 /\ (opts.emit # "exe" => opts.count = 1))
  BY ReportsCounted
<1>2. Typed'
  BY <1>1 DEF Typed
<1>3. Controlled' /\ Counted'
  BY <1>1, HandleFacts DEF Options, Typed, Controlled, Counted, Sections, Pipeline, PerSource
<1>4. Placed' /\ Filled'
  BY DEF Placed, Filled, Sections
<1>5. Kept'
  BY KeptCarries
<1>6. QED
  BY <1>2, <1>3, <1>4, <1>5

(* A source compiled into memory.                                           *)
LEMMA CompileInv == Inv /\ Compile => Inv'
<1> SUFFICES ASSUME Inv, Compile PROVE Inv'
  OBVIOUS
<1> USE DEF Compile, Inv, At, Goto, Fail, Proceed
<1>1. Typed'
  BY HandleFacts DEF Typed
<1>2. StageAfter("compile") = IF opts.emit = "llvm" THEN "llvm" ELSE "bitcode"
  BY StageOrder, DriverAssumption DEF Typed, Options
<1>3. Controlled' /\ Counted'
  BY <1>2 DEF Typed, Controlled, Counted, Sections, Pipeline, Steps, PerSource
<1>4. Placed' /\ Filled'
  BY <1>2 DEF Placed, Filled, Sections
<1>5. Kept'
  BY <1>2, KeptCarries
<1>6. QED
  BY <1>1, <1>3, <1>4, <1>5

(* A stage started, or skipped.                                             *)
LEMMA StartStageInv == Inv /\ StartStage => Inv'
<1> SUFFICES ASSUME Inv, StartStage PROVE Inv'
  OBVIOUS
<1> USE DEF StartStage, Inv, Goto, Fail, Proceed
<1>1. Typed'
  BY DEF Typed
<1>2. stage \in Pipeline
  BY DEF Controlled
<1>3. stage = "optimise" => StageAfter(stage) = "native"
  BY StageOrder, DriverAssumption DEF Controlled, Typed, Options
<1>4. Controlled' /\ Counted'
  BY <1>2, <1>3 DEF Typed, Controlled, Counted, Sections, Pipeline, Steps, PerSource, Skips
<1>5. Placed' /\ Filled'
  BY <1>2, <1>3 DEF Placed, Filled, Sections, Pipeline, Skips
<1>6. Kept'
  BY <1>2, KeptCarries DEF Pipeline
<1>7. QED
  BY <1>1, <1>4, <1>5, <1>6

(* A stage's output opened: a new temporary, or a requested file.           *)
LEMMA OpenOutputInv == Inv /\ OpenOutput => Inv'
<1> SUFFICES ASSUME Inv, OpenOutput PROVE Inv'
  OBVIOUS
<1> USE DEF OpenOutput, Inv, Goto, Fail, Proceed
<1>0. stage \in Pipeline /\ stage \notin Sections
  BY DEF Controlled, Pipeline, Sections
<1>01. /\ stage' = stage => NamedOutput(stage)' = NamedOutput(stage)
       /\ stage' = stage => (StageIsTemporary(stage)' <=> StageIsTemporary(stage))
  BY OutputsStay
<1>1. CASE StageIsTemporary(stage) /\ UNCHANGED <<disk, art>> /\ Fail /\ cause' = TRUE
  <2>1. Typed'
    BY <1>1 DEF Typed
  <2>2. Controlled' /\ Counted'
    BY <1>0, <1>1 DEF Typed, Controlled, Counted, Sections, Pipeline, PerSource
  <2>3. Placed' /\ Filled'
    BY <1>1 DEF Placed, Filled, Sections
  <2>4. Kept'
    BY <1>1, KeptCarries
  <2>5. QED
    BY <2>1, <2>2, <2>3, <2>4
<1>2. ASSUME NEW f \in TempFiles, ~Exists(f), StageIsTemporary(stage),
             disk' = [disk EXCEPT ![f] = Nothing("empty")],
             art' = [art EXCEPT ![Out] = [path |-> f, temporary |-> TRUE]],
             Goto(stage, "write"), Proceed
      PROVE  Inv'
  <2>1. f \in Files /\ [path |-> f, temporary |-> TRUE] \in Values /\ Nothing("empty") \in Contents
        /\ Nothing("empty") # Absent
    BY FileFacts, ContentFacts DEF Values, Forms
  <2>2. Typed'
    BY <1>2, <2>1, HandleFacts DEF Typed
  <2>3. Controlled' /\ Counted'
    BY <1>0, <1>2 DEF Typed, Controlled, Counted, Sections, Pipeline, Steps, PerSource
  <2>4. art[Out] = Empty
    BY DEF Placed
  <2>5. art'[Out] = [path |-> f, temporary |-> TRUE] /\ \A h \in Handles \ {Out} : art'[h] = art[h]
    BY <1>2, HandleFacts DEF Typed
  <2>6. Placed'
    BY <1>0, <1>2, <1>01, <2>5, BeyondSlots, HandleFacts, FileFacts DEF Placed, Sections
  <2>7. Filled'
    BY <1>0, <1>2, <2>5, HandleFacts DEF Filled, Typed, Sections
  <2>8. Kept'
    <3>1. \A h \in Handles : ~Owning(h, f)
      BY <1>0, <1>2 DEF Kept, Sections
    <3>2. \A h \in Handles, e \in TempFiles : Owning(h, e)' <=> Owning(h, e) \/ (h = Out /\ e = f)
      BY <2>4, <2>5 DEF Owning, Empty
    <3>3. \A e \in TempFiles : Exists(e)' <=> Exists(e) \/ e = f
      BY <1>2, <2>1, FileFacts DEF Exists, Typed
    <3>4. \A h \in Handles :
            IF art'[h].temporary THEN art'[h].path \in TempFiles \cup {NoPath}
            ELSE art'[h].path \in Objects \cup Outputs \cup {NoPath}
      BY <2>5 DEF Kept
    <3>5. QED
      BY <1>0, <3>1, <3>2, <3>3, <3>4, HandleFacts DEF Kept, Sections
  <2>9. QED
    BY <2>2, <2>3, <2>6, <2>7, <2>8
<1>3. ASSUME ~StageIsTemporary(stage), UNCHANGED disk,
             art' = [art EXCEPT ![Out] = [path |-> NamedOutput(stage), temporary |-> FALSE]],
             Goto(stage, "write"), Proceed
      PROVE  Inv'
  <2>1. NamedOutput(stage) \in Outputs
    BY <1>0, <1>3, StageOutputs DEF Pipeline
  <2>2. Typed'
    BY <1>3, <2>1, FileFacts, HandleFacts DEF Typed, Values
  <2>3. Controlled' /\ Counted'
    BY <1>0, <1>3 DEF Typed, Controlled, Counted, Sections, Pipeline, Steps, PerSource
  <2>4. art[Out] = Empty
    BY DEF Placed
  <2>5. /\ art'[Out] = [path |-> NamedOutput(stage), temporary |-> FALSE]
        /\ \A h \in Handles \ {Out} : art'[h] = art[h]
    BY <1>3, HandleFacts DEF Typed
  <2>6. Placed'
    BY <1>0, <1>3, <1>01, <2>5, BeyondSlots, HandleFacts DEF Placed, Sections
  <2>7. Filled'
    BY <1>0, <1>3, <2>5, HandleFacts DEF Filled, Typed, Sections
  <2>8. Kept'
    <3>1. \A h \in Handles, e \in TempFiles : Owning(h, e)' <=> Owning(h, e)
      BY <2>4, <2>5 DEF Owning, Empty
    <3>2. \A e \in TempFiles : Exists(e)' <=> Exists(e)
      BY <1>3 DEF Exists
    <3>3. \A h \in Handles :
            IF art'[h].temporary THEN art'[h].path \in TempFiles \cup {NoPath}
            ELSE art'[h].path \in Objects \cup Outputs \cup {NoPath}
      BY <2>1, <2>5 DEF Kept
    <3>4. QED
      BY <1>0, <3>1, <3>2, <3>3 DEF Kept, Sections
  <2>9. QED
    BY <2>2, <2>3, <2>6, <2>7, <2>8
<1>4. ASSUME StageIsTemporary(stage), stage = "link", UNCHANGED <<disk, errors, outcome>>,
             art' = [art EXCEPT ![Out] = [path |-> NoPath, temporary |-> TRUE]],
             Goto(stage, "write")
      PROVE  Inv'
  <2>1. [path |-> NoPath, temporary |-> TRUE] \in Values
    BY DEF Values
  <2>2. Typed'
    BY <1>4, <2>1, HandleFacts DEF Typed
  <2>3. Controlled' /\ Counted'
    BY <1>0, <1>4 DEF Typed, Controlled, Counted, Sections, Pipeline, Steps, PerSource
  <2>4. art[Out] = Empty
    BY DEF Placed
  <2>5. /\ art'[Out] = [path |-> NoPath, temporary |-> TRUE]
        /\ \A h \in Handles \ {Out} : art'[h] = art[h]
    BY <1>4, HandleFacts DEF Typed
  <2>6. Placed'
    BY <1>0, <1>4, <1>01, <2>5, BeyondSlots, HandleFacts DEF Placed, Sections
  <2>7. Filled'
    BY <1>0, <1>4, <2>5, HandleFacts DEF Filled, Typed, Sections
  <2>8. Kept'
    <3>1. \A h \in Handles, e \in TempFiles : Owning(h, e)' <=> Owning(h, e)
      BY <2>4, <2>5, FileFacts DEF Owning, Empty
    <3>2. \A e \in TempFiles : Exists(e)' <=> Exists(e)
      BY <1>4 DEF Exists
    <3>3. \A h \in Handles :
            IF art'[h].temporary THEN art'[h].path \in TempFiles \cup {NoPath}
            ELSE art'[h].path \in Objects \cup Outputs \cup {NoPath}
      BY <2>5 DEF Kept
    <3>4. QED
      BY <1>0, <3>1, <3>2, <3>3 DEF Kept, Sections
  <2>9. QED
    BY <2>2, <2>3, <2>6, <2>7, <2>8
<1>5. QED
  BY <1>1, <1>2, <1>3, <1>4

(* A stage that succeeds leaves a file with contents in its output.          *)
LEMMA ProductFacts ==
  ASSUME Inv, step = "write", stage \in Pipeline,
         stage \in {"optimise", "native", "link"} => Linkable(stage)
  PROVE  Product(stage) \in Contents /\ Product(stage) # Absent
<1> USE DEF Inv
<1>1. CASE stage \in {"llvm", "bitcode"}
  <2>1. {llvm} \in SUBSET (0 .. Len(SourceFile))
    BY DEF Typed
  <2>2. \E form \in {"ir", "bitcode"} : Product(stage) = Holding(form, {llvm}, FALSE)
    BY <1>1 DEF Product
  <2>3. QED
    BY <2>1, <2>2, ContentFacts DEF Forms
<1>2. CASE stage \in {"optimise", "native"}
  <2> DEFINE input == disk[art[In].path]
  <2>1. art[In].path \in Files
    BY <1>2, HandleFacts, FileFacts DEF Filled, Kept
  <2>2. input \in Contents
    BY <2>1 DEF Typed
  <2>3. Usable(stage, art[In].path)
    BY <1>2 DEF Linkable, ToolInputs
  <2>4. input.form = "bitcode"
    BY <1>2, <2>3 DEF Usable
  <2>5. \/ Product(stage) = [input EXCEPT !.optimised = TRUE]
        \/ Product(stage) = [input EXCEPT !.form = "assembly"]
        \/ Product(stage) = [input EXCEPT !.form = "object"]
    BY <1>2 DEF Product
  <2> HIDE DEF input
  <2>6. Absent.form = "absent" /\ Product(stage).form \in {"bitcode", "assembly", "object"}
    BY <2>2, <2>4, <2>5 DEF Contents, Absent, Nothing, Holding
  <2>7. /\ [input EXCEPT !.optimised = TRUE] \in Contents
        /\ \A form \in Forms : [input EXCEPT !.form = form] \in Contents
    BY <2>2 DEF Contents
  <2>8. QED
    BY <2>5, <2>6, <2>7 DEF Forms
<1>3. CASE stage = "link"
  <2> DEFINE code == UNION {disk[f].of : f \in ToolInputs("link")}
  <2>1. ToolInputs("link") \subseteq Files
    BY <1>3 DEF ToolInputs, ObjectPaths, Filled
  <2>2. code \in SUBSET (0 .. Len(SourceFile))
    <3>1. \A f \in Files : disk[f].of \subseteq 0 .. Len(SourceFile)
      BY DEF Typed, Contents
    <3>2. QED
      BY <2>1, <3>1
  <2>3. Product(stage) = Holding("program", code, FALSE)
    BY <1>3 DEF Product
  <2> HIDE DEF code
  <2>4. QED
    BY <2>2, <2>3, ContentFacts DEF Forms
<1>4. QED
  BY <1>1, <1>2, <1>3 DEF Pipeline

(* The file a stage writes is its output's: a temporary if and only if the    *)
(* output owns it, or else a requested file.                                *)
LEMMA OutputPath ==
  ASSUME Inv, stage \in Pipeline, step \in {"write", "drop", "return"}
  PROVE  /\ art[Out].path # NoPath => art[Out].path \in TempFiles \cup Outputs
         /\ art[Out].path = NoPath => stage = "link" /\ step = "write"
         /\ art[Out].path \in TempFiles => Owning(Out, art[Out].path)
         /\ art[Out].path \in Outputs =>
              ~StageIsTemporary(stage) /\ art[Out] = [path |-> NamedOutput(stage), temporary |-> FALSE]
<1> USE DEF Inv
<1>1. CASE StageIsTemporary(stage)
  BY <1>1, HandleFacts, FileFacts DEF Placed, Kept, Owning
<1>2. CASE ~StageIsTemporary(stage)
  <2>1. NamedOutput(stage) \in Outputs
    BY <1>2, StageOutputs DEF Pipeline
  <2>2. QED
    BY <1>2, <2>1, FileFacts DEF Placed
<1>3. QED
  BY <1>1, <1>2

(* What is in the output file matters to Kept only as long as it exists.     *)
LEMMA WriteKeeps ==
  ASSUME Inv, stage \in Pipeline, step = "write", art[Out].path # NoPath, UNCHANGED art,
         NEW c \in Contents, disk' = [disk EXCEPT ![art[Out].path] = c],
         c = Absent => stage' \in {"unwind", "done", "aborted"}
  PROVE  disk' \in [Files -> Contents] /\ Kept'
<1>1. art[Out].path \in Files
  BY OutputPath, FileFacts
<1>2. disk' \in [Files -> Contents]
  BY <1>1 DEF Inv, Typed
<1>3. /\ \A f \in Files \ {art[Out].path} : disk'[f] = disk[f]
      /\ disk'[art[Out].path] = c
  BY <1>1 DEF Inv, Typed
<1>4. \A f \in TempFiles \ {art[Out].path} : Exists(f)' <=> Exists(f)
  BY <1>3, FileFacts DEF Exists
<1>5. c # Absent => Exists(art[Out].path)'
  BY <1>3 DEF Exists
<1>6. \A h \in Handles, f \in TempFiles : Owning(h, f)' <=> Owning(h, f)
  BY DEF Owning
<1>7. stage \notin {"unwind", "done", "aborted"}
  BY DEF Pipeline
<1>8. Kept'
  BY <1>4, <1>5, <1>6, <1>7, OutputPath, HandleFacts DEF Kept, Inv
<1>9. QED
  BY <1>2, <1>8

(* The module written into the output.                                      *)
LEMMA WriteModuleInv == Inv /\ WriteModule => Inv'
<1> SUFFICES ASSUME Inv, WriteModule PROVE Inv'
  OBVIOUS
<1> USE DEF WriteModule, Inv, Goto, Fail, Proceed
<1>0. /\ stage \in {"llvm", "bitcode"} /\ stage \in Pipeline /\ stage \notin Sections /\ step = "write"
      /\ art[Out].path # NoPath
  BY OutputPath DEF Pipeline, Sections
<1>1. CASE disk' = [disk EXCEPT ![art[Out].path] = Product(stage)]
           /\ Goto(stage, "drop") /\ Proceed
  <2>1. disk' \in [Files -> Contents] /\ Kept'
    BY <1>0, <1>1, ProductFacts, WriteKeeps
  <2>2. Typed'
    BY <1>1, <2>1 DEF Typed
  <2>3. Controlled' /\ Counted'
    BY <1>0, <1>1 DEF Typed, Controlled, Counted, Sections, Pipeline, Steps, PerSource
  <2>4. Placed' /\ Filled'
    BY <1>0, <1>1, OutputsStay DEF Placed, Filled, Sections
  <2>5. QED
    BY <2>1, <2>2, <2>3, <2>4
<1>2. CASE Fail /\ cause' = TRUE /\ UNCHANGED disk
  <2>1. Typed'
    BY <1>2 DEF Typed
  <2>2. Controlled' /\ Counted'
    BY <1>0, <1>2 DEF Typed, Controlled, Counted, Sections, Pipeline, PerSource
  <2>3. Placed' /\ Filled'
    BY <1>2 DEF Placed, Filled, Sections
  <2>4. Kept'
    BY <1>2, KeptCarries
  <2>5. QED
    BY <2>1, <2>2, <2>3, <2>4
<1>3. CASE /\ disk' = [disk EXCEPT ![art[Out].path] = Nothing("junk")]
           /\ Goto("aborted", "run") /\ outcome' = "aborted" /\ UNCHANGED errors
  <2>1. Nothing("junk") \in Contents
    BY ContentFacts DEF Forms
  <2>2. disk' \in [Files -> Contents] /\ Kept'
    BY <1>0, <1>3, <2>1, WriteKeeps
  <2>3. Typed'
    BY <1>3, <2>2 DEF Typed
  <2>4. Controlled' /\ Counted'
    BY <1>0, <1>3 DEF Typed, Controlled, Counted, Sections, Pipeline, PerSource
  <2>5. Placed' /\ Filled'
    BY <1>3 DEF Placed, Filled, Sections
  <2>6. QED
    BY <2>2, <2>3, <2>4, <2>5
<1>4. QED
  BY <1>1, <1>2, <1>3

(* A tool run, and its output left as it leaves it.                         *)
LEMMA RunToolInv == Inv /\ RunTool => Inv'
<1> SUFFICES ASSUME Inv, RunTool PROVE Inv'
  OBVIOUS
<1> USE DEF RunTool, Inv, Goto, Proceed
<1>0. /\ stage \in {"optimise", "native", "link"} /\ stage \in Pipeline
      /\ stage \notin Sections /\ step = "write"
  BY DEF Pipeline, Sections
<1>1. CASE Linkable(stage) /\ disk' = [disk EXCEPT ![art[Out].path] = Product(stage)]
           /\ Goto(stage, "drop") /\ Proceed
  <2>0. art[Out].path # NoPath
    BY <1>1 DEF Linkable
  <2>1. disk' \in [Files -> Contents] /\ Kept'
    BY <1>0, <1>1, <2>0, ProductFacts, WriteKeeps
  <2>2. Typed'
    BY <1>1, <2>1 DEF Typed
  <2>3. Controlled' /\ Counted'
    BY <1>0, <1>1 DEF Typed, Controlled, Counted, Sections, Pipeline, Steps, PerSource
  <2>4. Placed' /\ Filled'
    BY <1>0, <1>1, <2>0, OutputsStay DEF Placed, Filled, Sections
  <2>5. QED
    BY <2>1, <2>2, <2>3, <2>4
<1>2. CASE /\ disk' \in {disk} \cup {[disk EXCEPT ![f] = c] :
                          f \in {art[Out].path} \ {NoPath}, c \in {Nothing("junk"), Absent}}
           /\ Fail
  <2>0. stage' = "unwind" /\ step' = "run" /\ outcome' = "failed" /\ errors' = errors + 1
    BY <1>2 DEF Fail
  <2>1. disk' \in [Files -> Contents] /\ Kept'
    <3>1. CASE disk' = disk
      BY <3>1, <1>0, <2>0, KeptCarries DEF Typed
    <3>2. ASSUME NEW c \in {Nothing("junk"), Absent}, disk' = [disk EXCEPT ![art[Out].path] = c],
                 art[Out].path # NoPath
          PROVE  disk' \in [Files -> Contents] /\ Kept'
      <4>1. c \in Contents
        BY ContentFacts DEF Forms
      <4>2. QED
        BY <3>2, <4>1, <1>0, <2>0, WriteKeeps
    <3>3. QED
      BY <1>2, <3>1, <3>2
  <2>2. Typed'
    BY <2>0, <2>1 DEF Typed
  <2>3. Controlled' /\ Counted'
    BY <1>0, <2>0 DEF Typed, Controlled, Counted, Sections, Pipeline, PerSource
  <2>4. Placed' /\ Filled'
    BY <2>0 DEF Placed, Filled, Sections
  <2>5. QED
    BY <2>1, <2>2, <2>3, <2>4
<1>3. QED
  BY <1>1, <1>2

(* A value that is destroyed leaves what is left as Kept says it is.         *)
LEMMA DestroyKeeps ==
  ASSUME Inv, NEW h \in Handles, Destroy(h),
         stage \in {"unwind", "done", "aborted"} => stage' \in {"unwind", "done", "aborted"}
  PROVE  Kept'
<1> USE DEF Inv
<1>1. art'[h] = Empty /\ \A g \in Handles \ {h} : art'[g] = art[g]
  BY DestroyFacts DEF Typed
<1>2. \A g \in Handles, f \in TempFiles : Owning(g, f)' <=> Owning(g, f) /\ g # h
  BY <1>1 DEF Owning, Empty
<1>3. \A f \in TempFiles : Exists(f)' <=> Exists(f) /\ ~Owning(h, f)
  BY DestroyFacts
<1>4. \A g \in Handles :
        IF art'[g].temporary THEN art'[g].path \in TempFiles \cup {NoPath}
        ELSE art'[g].path \in Objects \cup Outputs \cup {NoPath}
  BY <1>1 DEF Kept, Empty
<1>5. QED
  BY <1>2, <1>3, <1>4 DEF Kept

(* A stage's input consumed.                                                *)
LEMMA DropInputInv == Inv /\ DropInput => Inv'
<1> SUFFICES ASSUME Inv, DropInput PROVE Inv'
  OBVIOUS
<1> USE DEF DropInput, Inv, Goto, Proceed
<1>0. stage \in Pipeline /\ stage \notin Sections /\ step = "drop"
  BY DEF Controlled, Pipeline, Sections
<1>1. CASE Consumed = {}
  <2>1. Typed'
    BY <1>1, HandleFacts DEF Typed
  <2>2. Controlled' /\ Counted'
    BY <1>0, <1>1 DEF Typed, Controlled, Counted, Sections, Pipeline, Steps, PerSource
  <2>3. art[In] = Empty
    BY <1>0, <1>1, HandleFacts DEF Placed, Consumed, Pipeline
  <2>4. Placed' /\ Filled'
    BY <1>0, <1>1, <2>3, OutputsStay DEF Placed, Filled, Sections, Pipeline
  <2>5. Kept'
    BY <1>0, <1>1, KeptCarries DEF Pipeline
  <2>6. QED
    BY <2>1, <2>2, <2>4, <2>5
<1>2. CASE Consumed # {}
  <2> DEFINE h == CHOOSE k \in Consumed : \A g \in Consumed : k <= g
  <2>1. Consumed \subseteq Handles \ {Out} /\ (In \in Consumed => stage # "link")
    BY HandleFacts DEF Consumed, In, Out, Slot
  <2>2. h \in Consumed /\ h \in Handles
    BY <1>2, <2>1, LeastHandle
  <2>3. Destroy(h) /\ UNCHANGED <<stage, step>>
    BY <1>2
  <2> HIDE DEF h
  <2>4. /\ art'[h] = Empty /\ \A g \in Handles \ {h} : art'[g] = art[g]
        /\ disk' \in [Files -> Contents] /\ art' \in [Handles -> Values]
    BY <2>2, <2>3, DestroyFacts DEF Typed
  <2>5. Typed'
    BY <2>4, HandleFacts DEF Typed
  <2>6. Controlled' /\ Counted'
    BY <1>0, <2>3 DEF Controlled, Counted
  <2>7. Placed'
    BY <1>0, <2>1, <2>2, <2>3, <2>4, OutputsStay, HandleFacts DEF Placed, Sections, Pipeline
  <2>8. Filled'
    <3>1. stage # "link" => h = In
      BY <2>2 DEF Consumed
    <3>2. QED
      BY <1>0, <2>2, <2>3, <2>4, <3>1, HandleFacts DEF Filled, Typed, Pipeline
  <2>9. Kept'
    BY <2>2, <2>3, DestroyKeeps
  <2>10. QED
    BY <2>5, <2>6, <2>7, <2>8, <2>9
<1>3. QED
  BY <1>1, <1>2

(* A value handed on into storage without one leaves what Kept says.         *)
LEMMA MoveKeeps ==
  ASSUME Inv, NEW from \in Handles, NEW to \in Handles, from # to, art[to] = Empty,
         Move(from, to), UNCHANGED disk,
         stage \in {"unwind", "done", "aborted"} => stage' \in {"unwind", "done", "aborted"}
  PROVE  /\ art'[from] = Empty /\ art'[to] = art[from]
         /\ \A g \in Handles \ {from, to} : art'[g] = art[g]
         /\ art' \in [Handles -> Values] /\ Kept'
<1>1. /\ art'[from] = Empty /\ art'[to] = art[from]
      /\ \A g \in Handles \ {from, to} : art'[g] = art[g]
      /\ art' \in [Handles -> Values]
  BY ContentFacts DEF Inv, Typed, Move
<1>2. \A f \in TempFiles :
        /\ Owning(to, f)' <=> Owning(from, f)
        /\ ~Owning(from, f)' /\ ~Owning(to, f)
        /\ \A g \in Handles \ {from, to} : Owning(g, f)' <=> Owning(g, f)
  BY <1>1 DEF Owning, Empty
<1>3. \A f \in TempFiles : Exists(f)' <=> Exists(f)
  BY DEF Exists
<1>4. \A g \in Handles :
        IF art'[g].temporary THEN art'[g].path \in TempFiles \cup {NoPath}
        ELSE art'[g].path \in Objects \cup Outputs \cup {NoPath}
  BY <1>1 DEF Inv, Kept, Empty
<1>5. QED
  BY <1>1, <1>2, <1>3, <1>4 DEF Inv, Kept

(* A stage's output handed on.                                              *)
LEMMA ReturnInv == Inv /\ Return => Inv'
<1> SUFFICES ASSUME Inv, Return PROVE Inv'
  OBVIOUS
<1> USE DEF Return, Inv, Goto
<1>0. stage \in Pipeline /\ stage \notin Sections /\ step = "return" /\ outcome = "running"
  BY DEF Controlled, Pipeline, Sections, Counted, Typed
<1>1. CASE stage = "link"
  <2>1. Destroy(Out) /\ stage' = "unwind" /\ step' = "run" /\ outcome' = "ok"
    BY <1>1
  <2>2. /\ art'[Out] = Empty /\ \A g \in Handles \ {Out} : art'[g] = art[g]
        /\ disk' \in [Files -> Contents] /\ art' \in [Handles -> Values]
    BY <2>1, HandleFacts, DestroyFacts DEF Typed
  <2>3. Typed'
    BY <2>1, <2>2 DEF Typed
  <2>4. Controlled' /\ Counted'
    BY <1>0, <2>1 DEF Controlled, Counted, Sections, Pipeline, PerSource
  <2>5. Placed'
    BY <1>0, <2>1, <2>2, BeyondSlots DEF Placed, Sections
  <2>6. Filled'
    BY <2>1 DEF Filled
  <2>7. Kept'
    BY <2>1, HandleFacts, DestroyKeeps
  <2>8. QED
    BY <2>3, <2>4, <2>5, <2>6, <2>7
<1>2. CASE stage # "link" /\ StageAfter(stage) = "collect"
  <2>1. UNCHANGED <<disk, art, outcome>> /\ stage' = "collect" /\ step' = "run"
    BY <1>2
  <2>2. Typed'
    BY <2>1 DEF Typed
  <2>3. Controlled' /\ Counted'
    BY <1>0, <1>2, <2>1 DEF Controlled, Counted, Sections, Pipeline, PerSource
  <2>4. Placed'
    BY <1>0, <2>1 DEF Placed, Sections
  <2>5. art[Out].path \in Files
    BY <1>0, OutputPath, FileFacts
  <2>6. Filled'
    BY <1>0, <1>2, <2>1, <2>5 DEF Filled, Sections
  <2>7. Kept'
    BY <1>0, <2>1, KeptCarries DEF Sections
  <2>8. QED
    BY <2>2, <2>3, <2>4, <2>6, <2>7
<1>3. CASE stage # "link" /\ StageAfter(stage) # "collect"
  <2>1. Move(Out, In) /\ stage' = StageAfter(stage) /\ step' = "start" /\ UNCHANGED <<disk, outcome>>
    BY <1>3
  <2>2. stage \in {"bitcode", "optimise"} /\ stage' \in {"optimise", "native"}
    BY <1>0, <1>3, <2>1, StageOrder, DriverAssumption DEF Pipeline, Controlled, Typed, Options
  <2>3. art[In] = Empty /\ art[Out].temporary /\ art[Out].path \in TempFiles
    BY <1>0, <2>2, StageOutputs, HandleFacts DEF Placed, Kept
  <2>4. /\ art'[Out] = Empty /\ art'[In] = art[Out]
        /\ \A g \in Handles \ {In, Out} : art'[g] = art[g]
        /\ art' \in [Handles -> Values] /\ Kept'
    BY <2>1, <2>2, <2>3, HandleFacts, MoveKeeps
  <2>5. Typed'
    BY <2>1, <2>4 DEF Typed
  <2>6. Controlled' /\ Counted'
    BY <1>0, <2>1, <2>2 DEF Controlled, Counted, Sections, Pipeline, Steps, PerSource
  <2>7. Placed'
    BY <2>1, <2>2, <2>4, BeyondSlots DEF Placed, Sections
  <2>8. Filled'
    BY <2>1, <2>2, <2>3, <2>4, HandleFacts DEF Filled, Typed
  <2>9. QED
    BY <2>4, <2>5, <2>6, <2>7, <2>8
<1>4. QED
  BY <1>1, <1>2, <1>3

(* A source's artefact kept.                                                *)
LEMMA CollectInv == Inv /\ Collect => Inv'
<1> SUFFICES ASSUME Inv, Collect PROVE Inv'
  OBVIOUS
<1> USE DEF Collect, Inv, At, Goto
<1> DEFINE slot == Slot(collected + 1)
<1>1. /\ collected \in Nat /\ collected = cur - 1 /\ collected + 1 \in 1 .. MaxSources
      /\ slot \in Handles /\ slot # In /\ slot # Out /\ slot > Slot(collected)
      /\ outcome = "running"
  BY HandleFacts DEF Controlled, PerSource, Typed, Slot, Counted
<1>2. /\ collected' = collected + 1 /\ collected' \in 0 .. MaxSources + Cardinality(Objects)
      /\ cur' \in 1 .. MaxSources
  BY <1>1, HandleFacts DEF Typed, MoreSources, Options
<1>3. art[slot] = Empty /\ art[In] = Empty
  BY <1>1 DEF Placed, Sections
<1>4. /\ art'[Out] = Empty /\ art'[slot] = art[Out]
      /\ \A g \in Handles \ {Out, slot} : art'[g] = art[g]
      /\ art' \in [Handles -> Values] /\ Kept'
  BY <1>1, <1>3, HandleFacts, MoveKeeps
<1>5. stage' \in {"compile", "gather", "unwind"} /\ step' = "run"
  OBVIOUS
<1>6. Typed'
  BY <1>2, <1>4 DEF Typed
<1>7. Controlled' /\ Counted'
  <2>0. /\ stage = "collect" /\ opts' = opts /\ cur \in Int /\ opts.count \in Int
        /\ cur <= opts.count /\ (opts.emit # "exe" => opts.count = 1)
    BY HandleFacts DEF Controlled, Typed, Options
  <2>1. \/ /\ stage' = "compile" /\ cur' = cur + 1 /\ cur + 1 <= opts.count
           /\ outcome' = "running"
        \/ /\ stage' = "gather" /\ cur' = cur /\ cur = opts.count
           /\ opts.emit = "exe" /\ outcome' = "running"
        \/ stage' = "unwind" /\ cur' = cur /\ outcome' = "ok"
    BY <1>1, <2>0 DEF ToExecutable, MoreSources
  <2>2. collected' = collected + 1 /\ collected = cur - 1 /\ cur \in Int
    BY <1>1, <1>2, HandleFacts DEF Typed
  <2>3. Controlled'
    BY <1>5, <2>0, <2>1, <2>2 DEF Controlled, Sections, Pipeline, PerSource
  <2>4. errors' = errors /\ ~(errors > 0)
    BY <1>1 DEF Counted, Typed
  <2>5. Counted'
    BY <2>1, <2>4 DEF Counted
  <2>6. QED
    BY <2>3, <2>5
<1>8. Placed'
  <2>1. \A h \in Handles : h > Slot(collected') => h > Slot(collected) /\ h # slot /\ h # Out
    <3>1. ASSUME NEW h \in Handles, h > Slot(collected')
          PROVE  h > Slot(collected) /\ h # slot /\ h # Out
      <4>1. h \in Nat
        BY HandleFacts
      <4>2. QED
        BY <1>1, <1>2, <3>1, <4>1 DEF Slot, Out
    <3>2. QED
      BY <3>1
  <2>2. \A h \in Handles : h > Slot(collected') => art'[h] = Empty
    BY <2>1, <1>4 DEF Placed
  <2>3. art'[In] = Empty /\ art'[Out] = Empty
    BY <1>1, <1>3, <1>4, HandleFacts
  <2>4. QED
    BY <1>5, <2>2, <2>3 DEF Placed
<1>9. Filled'
  <2>1. \A i \in 1 .. collected : Slot(i) \in Handles \ {Out, slot} /\ art[Slot(i)].path \in Files
    BY <1>1, HandleFacts DEF Filled, Slot
  <2>2. \A i \in 1 .. collected + 1 : i \in 1 .. collected \/ Slot(i) = slot
    BY <1>1
  <2>3. art[Out].path \in Files
    BY DEF Filled
  <2>4. \A i \in 1 .. collected' : art'[Slot(i)].path \in Files
    BY <1>2, <1>4, <2>1, <2>2, <2>3
  <2>5. QED
    BY <1>5, <2>4 DEF Filled
<1>10. QED
  BY <1>4, <1>6, <1>7, <1>8, <1>9

(* The pre-built objects of a run: none, or one.                             *)
LEMMA ObjectFacts ==
  ASSUME Typed
  PROVE  /\ Len(opts.objects) \in 0 .. 1 /\ DOMAIN opts.objects = 1 .. Len(opts.objects)
         /\ Len(opts.objects) <= Cardinality(Objects)
         /\ \A i \in DOMAIN opts.objects : opts.objects[i] \in Objects
         /\ opts.objects = <<>> <=> Len(opts.objects) = 0
<1>1. CASE opts.objects = <<>>
  BY <1>1, HandleFacts
<1>2. ASSUME NEW o \in Objects, opts.objects = <<o>>
      PROVE  /\ Len(opts.objects) = 1 /\ DOMAIN opts.objects = 1 .. 1
             /\ opts.objects[1] \in Objects /\ opts.objects # <<>>
             /\ 1 <= Cardinality(Objects)
  <2>1. Cardinality(Objects) # 0
    BY FS_EmptySet, DriverAssumption
  <2>2. QED
    BY <1>2, <2>1, HandleFacts
<1>3. CASE \E o \in Objects : opts.objects = <<o>>
  <2>1. Len(opts.objects) = 1 /\ DOMAIN opts.objects = 1 .. 1 /\ opts.objects[1] \in Objects
        /\ opts.objects # <<>> /\ 1 <= Cardinality(Objects)
    BY <1>2, <1>3
  <2>2. QED
    BY <2>1
<1>4. opts.objects = <<>> \/ \E o \in Objects : opts.objects = <<o>>
  BY DEF Typed, Options
<1>5. QED
  BY <1>1, <1>3, <1>4

(* The pre-built objects lined up behind the others.                        *)
LEMMA GatherObjectsInv == Inv /\ GatherObjects => Inv'
<1> SUFFICES ASSUME Inv, GatherObjects PROVE Inv'
  OBVIOUS
<1> USE DEF GatherObjects, Inv, At, Goto, Proceed
<1>1. /\ collected \in 1 .. MaxSources /\ collected' = collected + Len(opts.objects)
      /\ collected' \in 0 .. MaxSources + Cardinality(Objects)
  BY HandleFacts, ObjectFacts DEF Controlled, Typed
<1> DEFINE added == {h \in Handles : h - Slot(collected) \in DOMAIN opts.objects}
<1>2. /\ \A h \in added : /\ h > Slot(collected) /\ h # In /\ h # Out /\ h <= Slot(collected')
                          /\ art[h] = Empty
                          /\ art'[h] = [path |-> opts.objects[h - Slot(collected)], temporary |-> FALSE]
      /\ \A h \in Handles \ added : art'[h] = art[h]
  <2>1. \A h \in added : h > Slot(collected) /\ h <= Slot(collected')
    <3>1. ASSUME NEW h \in added PROVE h > Slot(collected) /\ h <= Slot(collected')
      <4>1. h \in Nat /\ h - Slot(collected) \in 1 .. Len(opts.objects) /\ Len(opts.objects) \in Nat
        BY HandleFacts, ObjectFacts
      <4>2. QED
        BY <4>1, <1>1 DEF Slot
    <3>2. QED
      BY <3>1
  <2>2. \A h \in added : art[h] = Empty /\ h # In /\ h # Out
    BY <2>1, BeyondSlots DEF Placed
  <2>3. QED
    BY <2>1, <2>2
<1>3. \A h \in added : opts.objects[h - Slot(collected)] \in Objects
  BY ObjectFacts
<1>4. \A h \in added : /\ art'[h].path \in Objects /\ ~art'[h].temporary /\ art'[h] \in Values
  BY <1>2, <1>3, FileFacts DEF Values
<1>5. art' \in [Handles -> Values]
  <2>1. art' = [h \in Handles |-> art'[h]]
    OBVIOUS
  <2>2. \A h \in Handles : art'[h] \in Values
    BY <1>2, <1>4 DEF Typed
  <2>3. QED
    BY <2>1, <2>2
<1> HIDE DEF added
<1>6. Typed'
  BY <1>1, <1>5 DEF Typed
<1>7. Controlled' /\ Counted'
  BY DEF Controlled, Counted, Sections, Pipeline, Steps, PerSource
<1>8. Placed'
  <2>1. \A h \in Handles : h > Slot(collected') => h > Slot(collected) /\ h \notin added
    <3>1. Slot(collected') >= Slot(collected) /\ Slot(collected') \in Int /\ Slot(collected) \in Int
      BY <1>1, ObjectFacts DEF Slot
    <3>2. ASSUME NEW h \in Handles, h > Slot(collected')
          PROVE  h > Slot(collected) /\ h \notin added
      <4>1. h \in Nat
        BY HandleFacts
      <4>2. ~(h <= Slot(collected'))
        BY <3>1, <3>2, <4>1
      <4>3. h > Slot(collected)
        BY <3>1, <3>2, <4>1
      <4>4. h \notin added
        BY <1>2, <4>2
      <4>5. QED
        BY <4>3, <4>4
    <3>3. QED
      BY <3>2
  <2>2. In \notin added /\ Out \notin added
    BY <1>2
  <2>3. art'[In] = Empty /\ art'[Out] = Empty
    BY <1>2, <2>2, HandleFacts DEF Placed, Sections
  <2>4. QED
    BY <1>2, <2>1, <2>3 DEF Placed
<1>9. Filled'
  <2>1. ASSUME NEW i \in 1 .. collected' PROVE art'[Slot(i)].path \in Files
    <3>1. Slot(i) \in Handles
      BY <1>1, HandleFacts
    <3>2. CASE Slot(i) \in added
      BY <3>2, <1>4, FileFacts
    <3>3. CASE Slot(i) \notin added
      <4>1. i \in 1 .. collected
        BY <3>1, <3>3, <1>1, ObjectFacts DEF added, Slot
      <4>2. QED
        BY <3>1, <3>3, <4>1, <1>2 DEF Filled
    <3>4. QED
      BY <3>2, <3>3
  <2>2. QED
    BY <2>1 DEF Filled
<1>10. Kept'
  <2>1. \A h \in Handles, f \in TempFiles : Owning(h, f)' <=> Owning(h, f)
    BY <1>2, <1>4 DEF Owning, Empty
  <2>2. \A f \in TempFiles : Exists(f)' <=> Exists(f)
    BY DEF Exists
  <2>3. \A h \in Handles :
          IF art'[h].temporary THEN art'[h].path \in TempFiles \cup {NoPath}
          ELSE art'[h].path \in Objects \cup Outputs \cup {NoPath}
    BY <1>2, <1>4 DEF Kept
  <2>4. QED
    BY <2>1, <2>2, <2>3 DEF Kept
<1>11. QED
  BY <1>6, <1>7, <1>8, <1>9, <1>10

(* Unwinding destroys one value, as long as there is one.                    *)
LEMMA UnwindDestroys ==
  ASSUME Unwind
  PROVE  \/ (\A h \in Handles : art[h] = Empty) /\ UNCHANGED <<disk, art>>
            /\ stage' = "done" /\ step' = "run"
         \/ (\E h \in Handles : Destroy(h)) /\ UNCHANGED <<stage, step>>
<1> DEFINE alive == {h \in Handles : art[h] # Empty}
<1>1. CASE alive = {}
  BY <1>1 DEF Unwind, Goto
<1>2. CASE alive # {}
  <2>1. alive \subseteq Handles
    OBVIOUS
  <2>2. (CHOOSE h \in alive : \A g \in alive : h <= g) \in Handles
    <3> HIDE DEF alive
    <3>1. QED
      BY <1>2, <2>1, LeastHandle
  <2>3. QED
    BY <1>2, <2>2, HandleFacts DEF Unwind
<1>3. QED
  BY <1>1, <1>2

(* One more value destroyed on the way out, or none left.                   *)
LEMMA UnwindInv == Inv /\ Unwind => Inv'
<1> SUFFICES ASSUME Inv, Unwind PROVE Inv'
  OBVIOUS
<1> USE DEF Inv
<1>0. UNCHANGED <<opts, collected, cur, errors, outcome, cause>> /\ llvm' = 0
      /\ stage = "unwind" /\ step = "run"
  BY DEF Unwind, Proceed, At
<1>1. CASE /\ \A h \in Handles : art[h] = Empty
           /\ UNCHANGED <<disk, art>> /\ stage' = "done" /\ step' = "run"
  <2>1. Typed'
    BY <1>0, <1>1, HandleFacts DEF Typed
  <2>2. Controlled' /\ Counted'
    BY <1>0, <1>1 DEF Controlled, Counted, Sections, Pipeline, PerSource
  <2>3. art' = [h \in Handles |-> Empty]
    BY <1>1 DEF Typed
  <2>4. Placed' /\ Filled'
    BY <1>0, <1>1, <2>3, HandleFacts DEF Placed, Filled
  <2>5. Kept'
    BY <1>1, KeptCarries
  <2>6. QED
    BY <2>1, <2>2, <2>4, <2>5
<1>2. ASSUME NEW h \in Handles, Destroy(h), UNCHANGED <<stage, step>> PROVE Inv'
  <2>1. /\ art'[h] = Empty /\ \A g \in Handles \ {h} : art'[g] = art[g]
        /\ disk' \in [Files -> Contents] /\ art' \in [Handles -> Values]
    BY <1>2, DestroyFacts DEF Typed
  <2>2. Typed'
    BY <1>0, <2>1, HandleFacts DEF Typed
  <2>3. Controlled' /\ Counted'
    BY <1>0, <1>2 DEF Controlled, Counted
  <2>4. Placed' /\ Filled'
    BY <1>0, <1>2, <2>1 DEF Placed, Filled
  <2>5. Kept'
    BY <1>2, DestroyKeeps
  <2>6. QED
    BY <2>2, <2>3, <2>4, <2>5
<1>3. QED
  BY <1>1, <1>2, UnwindDestroys

(* Every step keeps the invariant.                                          *)
LEMMA NextInv == Inv /\ [Next]_vars => Inv'
<1> SUFFICES ASSUME Inv, [Next]_vars PROVE Inv'
  OBVIOUS
<1>1. CASE UNCHANGED vars
  BY <1>1, KeptCarries, OutputsStay
     DEF vars, Inv, Typed, Controlled, Placed, Filled, Counted
<1>2. CASE Exited
  BY <1>2, <1>1 DEF Exited
<1>3. QED
  BY <1>1, <1>2, ValidateInv, CompileInv, StartStageInv, OpenOutputInv, WriteModuleInv,
     RunToolInv, DropInputInv, ReturnInv, CollectInv, GatherObjectsInv, UnwindInv DEF Next

(* At every point of a run the Artefact values are where Placed and Kept say. *)
THEOREM InvHolds == Spec => []Inv
BY InitInv, NextInv, PTL DEF Spec

(* No intermediate outlives its use.                                        *)
THEOREM NoIntermediatesLeftHolds == Spec => []NoIntermediatesLeft
<1>1. Inv => NoIntermediatesLeft
  <2> SUFFICES ASSUME Inv PROVE NoIntermediatesLeft
    OBVIOUS
  <2> USE DEF Inv
  <2>1. ASSUME stage = "compile", NEW f \in TempFiles, Exists(f)
        PROVE  \E i \in 1 .. collected : art[Slot(i)].path = f
    <3>1. PICK h \in Handles : Owning(h, f)
      BY <2>1 DEF Kept
    <3>2. h # In /\ h # Out /\ h <= Slot(collected)
      BY <2>1, <3>1, HandleFacts DEF Placed, Sections, Owning, Empty, Typed, Slot
    <3>3. h - 1 \in 1 .. collected /\ Slot(h - 1) = h
      BY <3>2, HandleFacts DEF In, Out, Slot, Typed
    <3>4. QED
      BY <3>1, <3>3 DEF Owning
  <2>2. ASSUME stage = "done", NEW f \in TempFiles PROVE ~Exists(f)
    BY <2>2 DEF Kept, Placed, Owning, Empty
  <2>3. QED
    BY <2>1, <2>2 DEF NoIntermediatesLeft
<1>2. QED
  BY <1>1, InvHolds, PTL

-----------------------------------------------------------------------------
(* The refinement of TempOwnership: what each kind of step does to the       *)
(* owners, as the mapping sees them.                                        *)

OwnerOf(f) == IF Owners(f) = {} THEN -1 ELSE CHOOSE h \in Handles : h \in Owners(f)
OwnerBar == [f \in TempFiles |-> OwnerOf(f)]
PresentBar == {f \in TempFiles : Exists(f)}
Mapped == [Ownership!Next]_<<OwnerBar, PresentBar>>

(* The mapping picks the handle that owns f, and -1 where there is none.     *)
OwnersAreChosen ==
  \A f \in TempFiles :
    /\ OwnerOf(f) \in Handles \cup {-1}
    /\ \A h \in Handles : OwnerOf(f) = h <=> Owning(h, f)
    /\ OwnerOf(f) = -1 <=> \A h \in Handles : ~Owning(h, f)

(* The mapped owner is the owning handle, as no file has two.                *)
LEMMA OwnerIsOwning == Inv => OwnersAreChosen
<1> SUFFICES ASSUME Inv, NEW f \in TempFiles
             PROVE  /\ OwnerOf(f) \in Handles \cup {-1}
                    /\ \A h \in Handles : OwnerOf(f) = h <=> Owning(h, f)
                    /\ OwnerOf(f) = -1 <=> \A h \in Handles : ~Owning(h, f)
  BY DEF OwnersAreChosen
<1>1. \A h \in Handles : h \in Owners(f) <=> Owning(h, f)
  BY FileFacts DEF Owners, Owned, Owning
<1>2. Owners(f) \subseteq Handles /\ -1 \notin Handles
  BY HandleFacts DEF Owners
<1>3. \A g, h \in Handles : Owning(g, f) /\ Owning(h, f) => g = h
  BY DEF Inv, Kept
<1>4. CASE Owners(f) = {}
  <2>1. OwnerOf(f) = -1
    BY <1>4 DEF OwnerOf
  <2>2. QED
    BY <2>1, <1>1, <1>2, <1>4
<1>5. CASE Owners(f) # {}
  <2>1. PICK h \in Handles : h \in Owners(f)
    BY <1>2, <1>5
  <2>2. OwnerOf(f) = CHOOSE g \in Handles : g \in Owners(f)
    BY <1>5 DEF OwnerOf
  <2>3. OwnerOf(f) \in Handles /\ OwnerOf(f) \in Owners(f)
    BY <2>1, <2>2
  <2>4. QED
    BY <2>3, <1>1, <1>2, <1>3
<1>6. QED
  BY <1>4, <1>5

(* The mapped state before and after a step.                                *)
LEMMA BarFacts ==
  ASSUME OwnersAreChosen, OwnersAreChosen'
  PROVE  /\ \A h \in Handles, f \in TempFiles :
              /\ OwnerBar[f] = h <=> Owning(h, f)
              /\ OwnerBar'[f] = h <=> Owning(h, f)'
         /\ \A f \in TempFiles : /\ OwnerBar[f] \in Handles \cup {-1}
                                 /\ OwnerBar'[f] \in Handles \cup {-1}
         /\ OwnerBar = [f \in TempFiles |-> OwnerBar[f]]
         /\ OwnerBar' = [f \in TempFiles |-> OwnerBar'[f]]
         /\ -1 \notin Handles
<1>1. /\ OwnerBar = [f \in TempFiles |-> OwnerOf(f)]
      /\ OwnerBar' = [f \in TempFiles |-> OwnerOf(f)']
  BY DEF OwnerBar
<1>2. QED
  BY <1>1, HandleFacts DEF OwnersAreChosen

(* A step that changes neither owners nor temporaries maps to none.          *)
LEMMA QuietMaps ==
  ASSUME OwnersAreChosen, OwnersAreChosen',
         \A h \in Handles, f \in TempFiles : Owning(h, f)' <=> Owning(h, f),
         \A f \in TempFiles : Exists(f)' <=> Exists(f)
  PROVE  Mapped
<1>1. \A f \in TempFiles : OwnerBar'[f] = OwnerBar[f]
  BY BarFacts
<1>2. OwnerBar' = OwnerBar
  BY <1>1, BarFacts
<1>3. PresentBar' = PresentBar
  BY DEF PresentBar
<1>4. QED
  BY <1>2, <1>3 DEF Mapped

(* A temporary created for a stage's output.                                *)
LEMMA AcquireMaps ==
  ASSUME OwnersAreChosen, OwnersAreChosen', NEW h \in Handles, NEW f \in TempFiles,
         \A g \in Handles : ~Owning(g, f), ~Exists(f),
         \A e \in TempFiles : ~Owning(h, e),
         \A g \in Handles, e \in TempFiles : Owning(g, e)' <=> Owning(g, e) \/ (g = h /\ e = f),
         \A e \in TempFiles : Exists(e)' <=> Exists(e) \/ e = f
  PROVE  Mapped
<1>1. OwnerBar[f] = -1 /\ \A e \in TempFiles : OwnerBar[e] # h
  BY BarFacts
<1>2. \A e \in TempFiles : OwnerBar'[e] = IF e = f THEN h ELSE OwnerBar[e]
  BY BarFacts
<1>3. OwnerBar' = [OwnerBar EXCEPT ![f] = h]
  BY <1>2, BarFacts
<1>4. f \notin PresentBar /\ PresentBar' = PresentBar \cup {f}
  BY DEF PresentBar
<1>5. Ownership!Acquire(h, f)
  BY <1>1, <1>3, <1>4 DEF Ownership!Acquire, Ownership!OwnsNothing, OwnerBar, OwnerOf, PresentBar
<1>6. QED
  BY <1>5 DEF Mapped, Ownership!Next

(* A value handed on.                                                       *)
LEMMA MoveMaps ==
  ASSUME Inv, OwnersAreChosen, OwnersAreChosen',
         NEW from \in Handles, NEW to \in Handles, from # to, art[to] = Empty,
         Move(from, to), UNCHANGED disk
  PROVE  Mapped
<1>1. /\ art'[from] = Empty /\ art'[to] = art[from]
      /\ \A g \in Handles \ {from, to} : art'[g] = art[g]
  BY ContentFacts DEF Inv, Typed, Move
<1>2. \A e \in TempFiles :
        /\ Owning(to, e)' <=> Owning(from, e)
        /\ ~Owning(from, e)' /\ ~Owning(to, e)
        /\ \A g \in Handles \ {from, to} : Owning(g, e)' <=> Owning(g, e)
  BY <1>1 DEF Owning, Empty
<1>3. \A e \in TempFiles : Exists(e)' <=> Exists(e)
  BY DEF Exists
<1>4. ASSUME NEW f \in TempFiles, Owning(from, f) PROVE Mapped
  <2>1. OwnerBar[f] = from /\ from # -1 /\ \A e \in TempFiles : OwnerBar[e] # to
    BY <1>2, <1>4, BarFacts
  <2>2. \A e \in TempFiles \ {f} : ~Owning(from, e)
    BY <1>4 DEF Owning
  <2>3. \A e \in TempFiles : OwnerBar'[e] = IF e = f THEN to ELSE OwnerBar[e]
    BY <1>2, <1>4, <2>2, BarFacts
  <2>4. OwnerBar' = [OwnerBar EXCEPT ![f] = to]
    BY <2>3, BarFacts
  <2>5. PresentBar' = PresentBar
    BY <1>3 DEF PresentBar
  <2>6. Ownership!Pass(f, to)
    BY <2>1, <2>4, <2>5 DEF Ownership!Pass, Ownership!OwnsNothing, OwnerBar, OwnerOf, PresentBar
  <2>7. QED
    BY <2>6 DEF Mapped, Ownership!Next
<1>5. CASE \A f \in TempFiles : ~Owning(from, f)
  BY <1>2, <1>3, <1>5, QuietMaps
<1>6. QED
  BY <1>4, <1>5

(* What a stage's writing does to the disk: its output file, or nothing.     *)
LEMMA WriteTouches ==
  ASSUME Inv, WriteModule \/ RunTool
  PROVE  /\ stage \in Pipeline /\ step = "write" /\ UNCHANGED art
         /\ \/ UNCHANGED disk
            \/ art[Out].path # NoPath /\ \E c : disk' = [disk EXCEPT ![art[Out].path] = c]
<1>1. stage \in Pipeline /\ step = "write" /\ UNCHANGED art
  BY DEF WriteModule, RunTool, Pipeline
<1>2. CASE WriteModule
  <2>1. art[Out].path # NoPath
    BY <1>1, <1>2, OutputPath DEF WriteModule
  <2>2. QED
    BY <1>1, <1>2, <2>1 DEF WriteModule
<1>3. CASE RunTool
  BY <1>1, <1>3 DEF RunTool, Linkable
<1>4. QED
  BY <1>2, <1>3

(* A value destroyed.                                                       *)
LEMMA DestroyMaps ==
  ASSUME Inv, OwnersAreChosen, OwnersAreChosen', NEW h \in Handles, Destroy(h)
  PROVE  Mapped
<1>1. art'[h] = Empty /\ \A g \in Handles \ {h} : art'[g] = art[g]
  BY DestroyFacts DEF Inv, Typed
<1>2. \A g \in Handles, f \in TempFiles : Owning(g, f)' <=> Owning(g, f) /\ g # h
  BY <1>1 DEF Owning, Empty
<1>3. \A f \in TempFiles : Exists(f)' <=> Exists(f) /\ ~Owning(h, f)
  BY DestroyFacts DEF Inv
<1>4. ASSUME NEW f \in TempFiles, Owning(h, f) PROVE Mapped
  <2>1. OwnerBar[f] = h /\ h # -1
    BY <1>4, BarFacts
  <2>2. \A e \in TempFiles \ {f} : ~Owning(h, e)
    BY <1>4 DEF Owning
  <2>3. \A e \in TempFiles : OwnerBar'[e] = IF e = f THEN -1 ELSE OwnerBar[e]
    BY <1>2, <2>1, <2>2, BarFacts
  <2>4. OwnerBar' = [OwnerBar EXCEPT ![f] = -1]
    BY <2>3, BarFacts
  <2>5. PresentBar' = PresentBar \ {f}
    BY <1>3, <1>4, <2>2 DEF PresentBar
  <2>6. Ownership!Release(f)
    BY <2>1, <2>4, <2>5 DEF Ownership!Release, OwnerBar, OwnerOf, PresentBar
  <2>7. QED
    BY <2>6 DEF Mapped, Ownership!Next
<1>5. CASE \A f \in TempFiles : ~Owning(h, f)
  BY <1>2, <1>3, <1>5, QuietMaps
<1>6. QED
  BY <1>4, <1>5

(* A stage's output written, or spoilt.                                     *)
LEMMA WriteMaps ==
  ASSUME Inv, OwnersAreChosen, OwnersAreChosen', stage \in Pipeline, step = "write",
         art[Out].path # NoPath, UNCHANGED art,
         NEW c, disk' = [disk EXCEPT ![art[Out].path] = c]
  PROVE  Mapped
<1> DEFINE f == art[Out].path
<1>1. \A h \in Handles, e \in TempFiles : Owning(h, e)' <=> Owning(h, e)
  BY DEF Owning
<1>2. \A e \in TempFiles \ {f} : Exists(e)' <=> Exists(e)
  BY FileFacts DEF Exists, Inv, Typed
<1>3. CASE f \in TempFiles
  <2>1. \A e \in TempFiles : OwnerBar'[e] = OwnerBar[e]
    BY <1>1, BarFacts
  <2>2. OwnerBar' = OwnerBar
    BY <2>1, BarFacts
  <2>3. OwnerBar[f] # -1
    BY <1>3, OutputPath, BarFacts, HandleFacts
  <2>4. PresentBar' \in {PresentBar \cup {f}, PresentBar \ {f}}
    BY <1>2, <1>3 DEF PresentBar
  <2>5. Ownership!ToolTouches(f)
    BY <2>2, <2>3, <2>4 DEF Ownership!ToolTouches, OwnerBar, OwnerOf, PresentBar
  <2>6. QED
    BY <1>3, <2>5 DEF Mapped, Ownership!Next
<1>4. CASE f \notin TempFiles
  BY <1>1, <1>2, <1>4, QuietMaps
<1>5. QED
  BY <1>3, <1>4

(* The pre-built objects join the vector without being owned.                *)
LEMMA GatherOwnsNothing ==
  ASSUME Inv, GatherObjects
  PROVE  \A h \in Handles, f \in TempFiles : Owning(h, f)' <=> Owning(h, f)
<1>1. ASSUME NEW h \in Handles, h - Slot(collected) \in DOMAIN opts.objects
      PROVE  art[h] = Empty /\ ~art'[h].temporary
  <2>0. Typed /\ collected \in Int
    BY HandleFacts DEF Inv, Typed
  <2>1. h \in Nat /\ h - Slot(collected) \in 1 .. Len(opts.objects) /\ Len(opts.objects) \in Nat
        /\ Slot(collected) \in Int
    BY <1>1, <2>0, HandleFacts, ObjectFacts DEF Slot
  <2>2. art[h] = Empty
    BY <2>1 DEF Inv, Placed
  <2>3. QED
    BY <1>1, <2>2 DEF GatherObjects
<1>2. \A h \in Handles : h - Slot(collected) \notin DOMAIN opts.objects => art'[h] = art[h]
  BY DEF GatherObjects
<1>3. QED
  BY <1>1, <1>2 DEF Owning, Empty

(* Every step of a run is a step of the promise, or none.                    *)
LEMMA StepImplements ==
  ASSUME Inv, OwnersAreChosen, OwnersAreChosen', [Next]_vars
  PROVE  Mapped
<1>1. ASSUME UNCHANGED <<disk, art>> PROVE Mapped
  <2>1. \A h \in Handles, f \in TempFiles : Owning(h, f)' <=> Owning(h, f)
    BY <1>1 DEF Owning
  <2>2. \A f \in TempFiles : Exists(f)' <=> Exists(f)
    BY <1>1 DEF Exists
  <2>3. QED
    BY <2>1, <2>2, QuietMaps
<1>2. CASE Validate \/ Compile \/ StartStage \/ Exited \/ UNCHANGED vars
  BY <1>1, <1>2 DEF Validate, Compile, StartStage, Exited, vars
<1>3. CASE OpenOutput
  <2>0. art[Out] = Empty /\ stage \notin {"unwind", "done", "aborted"}
    BY <1>3 DEF OpenOutput, Inv, Placed, Controlled, Sections, Pipeline
  <2>1. CASE UNCHANGED <<disk, art>>
    BY <2>1, <1>1
  <2>2. ASSUME NEW f \in TempFiles, ~Exists(f), disk' = [disk EXCEPT ![f] = Nothing("empty")],
               art' = [art EXCEPT ![Out] = [path |-> f, temporary |-> TRUE]]
        PROVE  Mapped
    <3>1. \A h \in Handles : ~Owning(h, f)
      BY <2>0, <2>2 DEF Inv, Kept
    <3>2. \A h \in Handles, e \in TempFiles : Owning(h, e)' <=> Owning(h, e) \/ (h = Out /\ e = f)
      BY <2>0, <2>2, HandleFacts DEF Owning, Empty, Inv, Typed
    <3>3. \A e \in TempFiles : Exists(e)' <=> Exists(e) \/ e = f
      BY <2>2, FileFacts, ContentFacts DEF Exists, Inv, Typed, Forms
    <3>4. \A e \in TempFiles : ~Owning(Out, e)
      BY <2>0 DEF Owning, Empty
    <3>5. QED
      BY <2>2, <3>1, <3>2, <3>3, <3>4, HandleFacts, AcquireMaps
  <2>3. CASE UNCHANGED disk /\ art' = [art EXCEPT ![Out] = [path |-> NamedOutput(stage), temporary |-> FALSE]]
    <3>1. \A h \in Handles, e \in TempFiles : Owning(h, e)' <=> Owning(h, e)
      BY <2>0, <2>3, HandleFacts DEF Owning, Empty, Inv, Typed
    <3>2. \A e \in TempFiles : Exists(e)' <=> Exists(e)
      BY <2>3 DEF Exists
    <3>3. QED
      BY <3>1, <3>2, QuietMaps
  <2>4. CASE UNCHANGED disk /\ art' = [art EXCEPT ![Out] = [path |-> NoPath, temporary |-> TRUE]]
    <3>1. \A h \in Handles, e \in TempFiles : Owning(h, e)' <=> Owning(h, e)
      BY <2>0, <2>4, HandleFacts, FileFacts DEF Owning, Empty, Inv, Typed
    <3>2. \A e \in TempFiles : Exists(e)' <=> Exists(e)
      BY <2>4 DEF Exists
    <3>3. QED
      BY <3>1, <3>2, QuietMaps
  <2>5. QED
    BY <1>3, <2>1, <2>2, <2>3, <2>4 DEF OpenOutput
<1>4. CASE WriteModule \/ RunTool
  BY <1>1, <1>4, WriteTouches, WriteMaps
<1>5. CASE DropInput
  <2>1. CASE Consumed = {}
    BY <1>1, <1>5, <2>1 DEF DropInput
  <2>2. CASE Consumed # {}
    <3>1. Consumed \subseteq Handles
      BY HandleFacts DEF Consumed
    <3>2. (CHOOSE h \in Consumed : \A g \in Consumed : h <= g) \in Handles
      BY <2>2, <3>1, LeastHandle
    <3>3. QED
      BY <1>5, <2>2, <3>2, DestroyMaps DEF DropInput
  <2>3. QED
    BY <2>1, <2>2
<1>6. CASE Return
  <2>1. CASE stage = "link"
    BY <1>6, <2>1, HandleFacts, DestroyMaps DEF Return
  <2>2. CASE stage # "link" /\ StageAfter(stage) = "collect"
    BY <1>1, <1>6, <2>2 DEF Return
  <2>3. CASE stage # "link" /\ StageAfter(stage) # "collect"
    <3>1. art[In] = Empty
      BY <1>6 DEF Return, Inv, Placed
    <3>2. Move(Out, In) /\ UNCHANGED disk
      BY <1>6, <2>3 DEF Return
    <3>3. QED
      BY <3>1, <3>2, HandleFacts, MoveMaps
  <2>4. QED
    BY <2>1, <2>2, <2>3
<1>7. CASE Collect
  <2> DEFINE slot == Slot(collected + 1)
  <2>1. collected \in Nat /\ collected + 1 \in 1 .. MaxSources
    BY <1>7, HandleFacts DEF Collect, At, Inv, Controlled, PerSource, Typed
  <2>2. slot \in Handles /\ slot # Out /\ slot > Slot(collected)
    <3>1. collected + 1 \in 1 .. MaxSources + Cardinality(Objects)
      BY <2>1, HandleFacts
    <3>2. slot > Slot(collected)
      BY <2>1 DEF Slot
    <3>3. QED
      BY <3>1, <3>2, HandleFacts
  <2>3. art[slot] = Empty
    BY <2>2 DEF Inv, Placed
  <2>4. Move(Out, slot) /\ UNCHANGED disk
    BY <1>7 DEF Collect
  <2> HIDE DEF slot
  <2>5. QED
    BY <2>2, <2>3, <2>4, HandleFacts, MoveMaps
<1>8. CASE GatherObjects
  <2>1. \A h \in Handles, f \in TempFiles : Owning(h, f)' <=> Owning(h, f)
    BY <1>8, GatherOwnsNothing
  <2>2. \A f \in TempFiles : Exists(f)' <=> Exists(f)
    BY <1>8 DEF GatherObjects, Exists
  <2>3. QED
    BY <2>1, <2>2, QuietMaps
<1>9. CASE Unwind
  BY <1>9, <1>1, UnwindDestroys, DestroyMaps
<1>10. QED
  BY <1>2, <1>3, <1>4, <1>5, <1>6, <1>7, <1>8, <1>9 DEF Next

(* A whole run keeps the ownership promise for its temporaries.              *)
THEOREM ImplementsOwnershipHolds == Spec => ImplementsOwnership
<1>1. Init => Ownership!Init
  <2> SUFFICES ASSUME Init PROVE Ownership!Init
    OBVIOUS
  <2>1. \A f \in TempFiles : Owners(f) = {}
    BY DEF Init, Owners, Owned, Empty
  <2>2. \A f \in TempFiles : ~Exists(f)
    BY InitiallyNone
  <2>3. QED
    BY <2>1, <2>2 DEF Ownership!Init
<1>2. Inv => OwnersAreChosen
  BY OwnerIsOwning
<1>3. Inv /\ OwnersAreChosen /\ OwnersAreChosen' /\ [Next]_vars => Mapped
  BY StepImplements
<1>4. Mapped <=> [Ownership!Next]_(Ownership!vars)
  BY DEF Mapped, OwnerBar, OwnerOf, PresentBar, Ownership!vars
<1>5. QED
  BY <1>1, <1>2, <1>3, <1>4, InvHolds, PTL DEF Spec, ImplementsOwnership, Ownership!Spec

-----------------------------------------------------------------------------
(* What a run does to its inputs.  The driver does not compare the names of   *)
(* its outputs with them, so nothing is assumed about those here.            *)

(* What deletes a file deletes a temporary, and what writes one writes a     *)
(* temporary or the output requested.                                       *)
LEMMA StepTouches ==
  ASSUME Inv, [Next]_vars, NEW f \in Sources \cup Objects, disk'[f] # disk[f]
  PROVE  (WriteModule \/ RunTool) /\ art[Out].path = f
<1>0. f \in Files \ TempFiles
  BY DriverAssumption DEF Sources, Files
<1>1. ASSUME NEW h \in Handles, Destroy(h) PROVE FALSE
  BY <1>0, <1>1, DestroyFacts DEF Inv
<1>2. CASE OpenOutput
  BY <1>0, <1>2 DEF OpenOutput, Inv, Typed
<1>3. CASE WriteModule \/ RunTool
  BY <1>0, <1>3, WriteTouches DEF Inv, Typed
<1>4. CASE DropInput
  <2>1. Consumed \subseteq Handles
    BY HandleFacts DEF Consumed
  <2>2. Consumed # {} => (CHOOSE h \in Consumed : \A g \in Consumed : h <= g) \in Handles
    BY <2>1, LeastHandle
  <2>3. UNCHANGED disk \/ \E h \in Handles : Destroy(h)
    BY <1>4, <2>2 DEF DropInput
  <2>4. QED
    BY <2>3, <1>1
<1>5. CASE Unwind
  <2>1. UNCHANGED disk \/ \E h \in Handles : Destroy(h)
    BY <1>5, UnwindDestroys
  <2>2. QED
    BY <2>1, <1>1
<1>6. CASE Return
  <2>1. UNCHANGED disk \/ Destroy(Out)
    BY <1>6 DEF Return
  <2>2. QED
    BY <2>1, <1>1, HandleFacts
<1>7. CASE Validate \/ Compile \/ StartStage \/ Collect \/ GatherObjects \/ Exited \/ UNCHANGED vars
  BY <1>7 DEF Validate, Compile, StartStage, Collect, GatherObjects, Exited, vars
<1>8. QED
  BY <1>2, <1>3, <1>4, <1>5, <1>6, <1>7 DEF Next

(* An input is written only as the output the run was asked for, and a source *)
(* only when every source has been compiled.                                *)
THEOREM InputsKeptHolds == Spec => InputsKept
<1>1. ASSUME Inv, [Next]_vars, NEW f \in Sources \cup Objects, disk'[f] # disk[f]
      PROVE  /\ step = "write" /\ art[Out] = [path |-> f, temporary |-> FALSE]
             /\ f \in Sources => cur = opts.count
  <2>0. Typed /\ Controlled
    BY <1>1 DEF Inv
  <2>1. stage \in Pipeline /\ step = "write" /\ art[Out].path = f
    BY <1>1, StepTouches, WriteTouches
  <2>2. f \notin TempFiles
    BY <1>1, DriverAssumption DEF Sources
  <2>3. art[Out].path # NoPath
    BY <1>1, StepTouches, WriteTouches
  <2>4. ~StageIsTemporary(stage) /\ art[Out] = [path |-> NamedOutput(stage), temporary |-> FALSE]
    BY <1>1, <2>1, <2>2, <2>3, OutputPath
  <2>5. ASSUME f \in Sources PROVE cur = opts.count
    <3>1. stage \in {"llvm", "native", "link"} /\ ~Nameless
      BY <2>0, <2>1, <2>4, StageOutputs DEF Pipeline
    <3>2. stage # "native"
      BY <2>0, <2>1, <2>4, <2>5, <3>1, StageOutputs, OutputFacts
    <3>3. opts.count \in Int /\ cur \in Int /\ cur >= 1
      BY <2>0, HandleFacts DEF Typed, Options
    <3>4. QED
      BY <2>0, <3>1, <3>2, <3>3 DEF Controlled
  <2>6. QED
    BY <2>1, <2>4, <2>5
<1>2. Inv /\ [Next]_vars =>
        [\A f \in Sources \cup Objects :
           disk'[f] # disk[f] =>
             /\ step = "write" /\ art[Out] = [path |-> f, temporary |-> FALSE]
             /\ f \in Sources => cur = opts.count]_vars
  BY <1>1
<1>3. QED
  BY <1>2, InvHolds, PTL DEF Spec, InputsKept

-----------------------------------------------------------------------------
(* The outcome of a run with one source for an executable or LLVM assembly:   *)
(* Traced follows the code from the source into the requested file.          *)

(* What such a run is asked for.                                            *)
LEMMA RequestedFacts ==
  ASSUME Typed, Single
  PROVE  /\ opts.emit = "llvm" => /\ Requested.file = LlvmOut
                                  /\ Requested.form = "ir" /\ Requested.of = {1}
         /\ opts.emit = "exe" =>
              /\ Requested.file = ExecutableOut /\ Requested.form = "program"
              /\ Requested.of = {1} \cup (IF Len(opts.objects) = 0 THEN {} ELSE {0})
         /\ ~Nameless => Requested.file \in Outputs
<1>1. 1 .. opts.count = {1}
  BY DEF Single
<1>2. CASE opts.emit = "llvm"
  BY <1>1, <1>2, OutputFacts DEF Requested
<1>3. CASE opts.emit = "exe"
  <2>1. Requested = [file |-> ExecutableOut, form |-> "program",
                     of |-> {1} \cup (IF opts.objects = <<>> THEN {} ELSE {0})]
    BY <1>1, <1>3 DEF Requested
  <2>2. QED
    BY <1>3, <2>1, ObjectFacts, OutputFacts
<1>4. QED
  BY <1>2, <1>3 DEF Single

(* A run starts with no code anywhere but in its inputs.                     *)
LEMMA InitTraced == Init /\ Single => Traced
<1> SUFFICES ASSUME Init, Single PROVE Traced
  OBVIOUS
<1>1. \A o \in Objects : o \in Files /\ o \notin Sources
  BY FileFacts, DriverAssumption DEF Sources
<1>2. \A o \in Objects : disk[o] \in {Absent, Holding("prebuilt", {0}, FALSE)}
  BY <1>1 DEF Init
<1>3. QED
  BY <1>2 DEF Init, Traced, Objecting

(* What a run's names and requests are made of does not change.              *)
LEMMA NamesStay ==
  ASSUME UNCHANGED opts
  PROVE  /\ Requested' = Requested /\ Nameless' = Nameless /\ Clash' = Clash
         /\ ObjectOut' = ObjectOut /\ LlvmOut' = LlvmOut /\ ExecutableOut' = ExecutableOut
BY DEF Requested, Nameless, Clash, ToExecutable, ObjectOut, LlvmOut, AssemblyOut, ExecutableOut

(* Nothing is lost while nothing changes.                                   *)
LEMMA TracedStays ==
  ASSUME Traced, UNCHANGED <<opts, disk, art, collected, cur>>,
         UNCHANGED <<llvm, stage, step, outcome, cause>>
  PROVE  Traced'
<1>1. /\ Requested' = Requested /\ Nameless' = Nameless
      /\ ObjectOut' = ObjectOut /\ LlvmOut' = LlvmOut
  BY NamesStay
<1>2. (Objecting <=> Objecting') /\ (Unlinked <=> Unlinked') /\ OwnObject' = OwnObject
  BY DEF Objecting, Unlinked, OwnObject
<1>3. \A f, form, of : disk'[f].form = disk[f].form /\ disk'[f].of = disk[f].of
  OBVIOUS
<1>4. (cur = 1)'
  BY <1>1, <1>2, <1>3 DEF Traced, Holds
<1>5. (opts.emit = "exe" /\ Unlinked =>
        \A o \in Objects : Nameless \/ o # ObjectOut =>
          disk[o] \in {Absent, Holding("prebuilt", {0}, FALSE)})'
  BY <1>1, <1>2, <1>3 DEF Traced, Holds
<1>6. (stage \in {"llvm", "bitcode"} /\ step \in {"start", "open", "write"} => llvm = 1)'
  BY <1>1, <1>2, <1>3 DEF Traced, Holds
<1>7. (stage \in {"optimise", "native"} /\ step \in {"start", "open", "write"} =>
        Holds(art[In].path, "bitcode", {1}))'
  BY <1>1, <1>2, <1>3 DEF Traced, Holds
<1>8. (stage \in {"bitcode", "optimise"} /\ step \in {"drop", "return"} =>
        Holds(art[Out].path, "bitcode", {1}))'
  BY <1>1, <1>2, <1>3 DEF Traced, Holds
<1>9. (opts.emit = "exe" /\ Objecting =>
        /\ Holds(OwnObject.path, "object", {1})
        /\ IF Nameless THEN OwnObject.path \in TempFiles ELSE OwnObject.path = ObjectOut)'
  BY <1>1, <1>2, <1>3 DEF Traced, Holds
<1>10. (stage = "link" /\ step \in {"start", "open", "write"} =>
        /\ collected = 1 + Len(opts.objects)
        /\ \A i \in DOMAIN opts.objects : art[Slot(i + 1)].path = opts.objects[i])'
  BY <1>1, <1>2, <1>3 DEF Traced, Holds
<1>11. (stage = "link" /\ step = "write" /\ art[Out].path = NoPath => cause)'
  BY <1>1, <1>2, <1>3 DEF Traced, Holds
<1>12. (opts.emit = "llvm" /\ (stage = "llvm" => step \in {"drop", "return"})
        /\ stage \in {"llvm", "collect"} /\ ~Nameless => Holds(LlvmOut, "ir", {1}))'
  BY <1>1, <1>2, <1>3 DEF Traced, Holds
<1>13. ((outcome = "ok" \/ (stage = "link" /\ step \in {"drop", "return"})) /\ ~Nameless =>
        Holds(Requested.file, Requested.form, Requested.of))'
  BY <1>1, <1>2, <1>3 DEF Traced, Holds
<1>14. QED
  BY <1>4, <1>5, <1>6, <1>7, <1>8, <1>9, <1>10, <1>11, <1>12, <1>13 DEF Traced

(* The steps that touch neither files nor values.                           *)
LEMMA QuietTraced ==
  ASSUME Inv, Single, Traced, Validate \/ Compile \/ StartStage \/ Exited \/ UNCHANGED vars
  PROVE  Traced'
<1>0. opts.emit \in {"exe", "llvm"} /\ UNCHANGED <<opts, disk, art, collected, cur>>
  BY DEF Single, Validate, Compile, StartStage, Exited, vars
<1>1. /\ Requested' = Requested /\ Nameless' = Nameless
      /\ ObjectOut' = ObjectOut /\ LlvmOut' = LlvmOut
  BY <1>0, NamesStay
<1> USE DEF Inv, At, Goto, Fail, Proceed
<1>2. CASE Validate
  BY <1>0, <1>1, <1>2 DEF Traced, Objecting, Unlinked, OwnObject, Holds, Validate, Counted
<1>3. CASE Compile
  <2>1. StageAfter("compile") = IF opts.emit = "llvm" THEN "llvm" ELSE "bitcode"
    BY <1>0, StageOrder
  <2>2. QED
    BY <1>0, <1>1, <1>3, <2>1 DEF Traced, Objecting, Unlinked, OwnObject, Holds, Compile, Counted
<1>4. CASE StartStage
  <2>1. stage = "optimise" => StageAfter(stage) = "native"
    BY <1>0, StageOrder DEF Controlled
  <2>2. stage \in Pipeline
    BY <1>4 DEF StartStage, Controlled
  <2>3. QED
    BY <1>0, <1>1, <1>4, <2>1, <2>2 DEF Traced, Objecting, Unlinked, OwnObject, Holds, StartStage, Skips, Counted, Pipeline
<1>5. CASE Exited \/ UNCHANGED vars
  <2>1. UNCHANGED <<llvm, stage, step, outcome, cause>>
    BY <1>5 DEF Exited, vars
  <2>2. QED
    BY <1>0, <2>1, TracedStays
<1>6. QED
  BY <1>2, <1>3, <1>4, <1>5

(* A stage's output opened.  Its file is a new one, or a requested output    *)
(* that holds no code yet.                                                  *)
LEMMA OpenTraced == ASSUME Inv, Single, Traced, OpenOutput PROVE Traced'
<1> USE DEF Inv, Goto, Fail, Proceed
<1>01. UNCHANGED <<opts, collected, llvm, cur>> /\ step = "open"
  BY DEF OpenOutput
<1>02. stage \in Pipeline /\ outcome = "running" /\ opts.emit \in {"exe", "llvm"}
  BY <1>01 DEF Controlled, Sections, Counted, Single, Typed, Pipeline
<1>0. /\ UNCHANGED <<opts, collected, llvm, cur>> /\ step = "open" /\ stage \in Pipeline
      /\ outcome = "running" /\ opts.emit \in {"exe", "llvm"}
  BY <1>01, <1>02
<1>1. /\ Requested' = Requested /\ Nameless' = Nameless
      /\ ObjectOut' = ObjectOut /\ LlvmOut' = LlvmOut
  BY <1>0, NamesStay
<1>2. CASE UNCHANGED <<disk, art>> /\ Fail /\ cause' = TRUE
  BY <1>0, <1>1, <1>2 DEF Traced, Objecting, Unlinked, Holds
<1>3. ASSUME UNCHANGED <<stage, errors, outcome>>, step' = "write",
             \A h \in Handles \ {Out} : art'[h] = art[h],
             art'[Out].path = NoPath => cause',
             \A f \in Files \ TempFiles : disk'[f] = disk[f],
             \A f \in Files : Exists(f) => disk'[f] = disk[f]
      PROVE  Traced'
  <2>1. art'[In] = art[In] /\ Slot(1) \in Handles \ {Out} /\ art'[Slot(1)] = art[Slot(1)]
    BY <1>3, HandleFacts
  <2>2. stage = "link" =>
          \A i \in DOMAIN opts.objects : Slot(i + 1) \in Handles \ {Out}
    <3>1. stage = "link" => collected = 1 + Len(opts.objects)
      BY <1>0 DEF Traced
    <3>2. collected <= MaxSources + Cardinality(Objects)
      BY HandleFacts DEF Typed
    <3>3. QED
      BY <3>1, <3>2, HandleFacts, ObjectFacts
  <2>3. \A f \in Files : disk[f].form \in {"bitcode", "object"} => disk'[f] = disk[f]
    BY <1>3 DEF Exists, Absent, Nothing, Holding
  <2>4. \A o \in Objects : disk'[o] = disk[o]
    BY <1>3, FileFacts
  <2>5. stage \in {"optimise", "native"} => disk'[art[In].path] = disk[art[In].path]
    BY <1>0, <2>3, FileFacts DEF Traced, Holds, Filled
  <2>6. stage = "link" => disk'[art[Slot(1)].path] = disk[art[Slot(1)].path]
    <3>1. CASE stage = "link"
      <4>1. opts.emit = "exe" /\ Objecting
        BY <1>0, <3>1 DEF Controlled, Objecting
      <4>2. Holds(OwnObject.path, "object", {1}) /\ OwnObject = art[Slot(1)]
        BY <3>1, <4>1 DEF Traced, OwnObject
      <4>3. OwnObject.path \in Files
        BY <4>1, FileFacts, OutputFacts DEF Traced
      <4>4. QED
        BY <2>3, <4>2, <4>3 DEF Holds
    <3>2. QED
      BY <3>1
  <2>7. CASE stage = "link"
    <3>1. stage' = "link" /\ Objecting /\ OwnObject = art[Slot(1)] /\ OwnObject' = art[Slot(1)]
      BY <1>0, <1>3, <2>1, <2>7 DEF Objecting, OwnObject
    <3>2. Unlinked /\ opts.emit = "exe"
      BY <1>0, <2>7 DEF Unlinked, Controlled
    <3>3. \A i \in DOMAIN opts.objects : art'[Slot(i + 1)].path = art[Slot(i + 1)].path
      BY <1>3, <2>2, <2>7
    <3>4. QED
      BY <1>0, <1>1, <1>3, <2>4, <2>6, <2>7, <3>1, <3>2, <3>3 DEF Traced, Holds
  <2>8. CASE stage # "link"
    BY <1>0, <1>1, <1>3, <2>1, <2>4, <2>5, <2>8
       DEF Traced, Objecting, Unlinked, OwnObject, Holds, Pipeline
  <2>9. QED
    BY <2>7, <2>8
<1>4. ASSUME NEW f \in TempFiles, ~Exists(f), Goto(stage, "write"), Proceed,
             disk' = [disk EXCEPT ![f] = Nothing("empty")],
             art' = [art EXCEPT ![Out] = [path |-> f, temporary |-> TRUE]]
      PROVE  Traced'
  BY <1>3, <1>4, HandleFacts, FileFacts DEF Typed
<1>5. CASE /\ ~StageIsTemporary(stage) /\ Goto(stage, "write") /\ Proceed /\ UNCHANGED disk
           /\ art' = [art EXCEPT ![Out] = [path |-> NamedOutput(stage), temporary |-> FALSE]]
  <2>1. NamedOutput(stage) # NoPath
    BY <1>0, <1>5, StageOutputs, FileFacts DEF Pipeline
  <2>2. QED
    BY <1>3, <1>5, <2>1, HandleFacts DEF Typed
<1>6. CASE /\ art' = [art EXCEPT ![Out] = [path |-> NoPath, temporary |-> TRUE]]
           /\ Goto(stage, "write") /\ cause' = TRUE /\ UNCHANGED <<disk, errors, outcome>>
  BY <1>3, <1>6, HandleFacts DEF Typed
<1>7. QED
  BY <1>2, <1>4, <1>5, <1>6 DEF OpenOutput

(* In such a run every tool can use what it is given, or an input of the     *)
(* user's is missing or replaced, or there was no name for its output.       *)
LEMMA InputsUsable ==
  ASSUME Inv, Single, Traced, stage \in {"optimise", "native", "link"}, step = "write"
  PROVE  /\ ~Clash => \/ Linkable(stage) \/ art[Out].path = NoPath
                      \/ \E f \in ToolInputs(stage) : ~Exists(f)
         /\ stage \in {"optimise", "native"} => disk[art[In].path].of = {1}
         /\ stage = "link" /\ Linkable(stage) =>
              UNION {disk[f].of : f \in ToolInputs(stage)} = Requested.of
<1> USE DEF Inv
<1>1. CASE stage \in {"optimise", "native"}
  <2>1. disk[art[In].path].form = "bitcode" /\ disk[art[In].path].of = {1}
    BY <1>1 DEF Traced, Holds
  <2>2. ToolInputs(stage) = {art[In].path} /\ stage # "link"
    BY <1>1 DEF ToolInputs
  <2>3. Usable(stage, art[In].path)
    BY <1>1, <2>1 DEF Usable
  <2>4. Linkable(stage) \/ art[Out].path = NoPath
    BY <2>2, <2>3 DEF Linkable
  <2>5. QED
    BY <1>1, <2>1, <2>4
<1>2. CASE stage = "link"
  <2> DEFINE p == art[Slot(1)].path
             linked == Linkable(stage) \/ art[Out].path = NoPath
  <2>1. opts.emit = "exe" /\ Objecting /\ Unlinked /\ OwnObject = art[Slot(1)]
    BY <1>2 DEF Controlled, Objecting, Unlinked, OwnObject
  <2>2. /\ collected = 1 + Len(opts.objects)
        /\ \A i \in DOMAIN opts.objects : art[Slot(i + 1)].path = opts.objects[i]
        /\ disk[p].form = "object" /\ disk[p].of = {1}
        /\ IF Nameless THEN p \in TempFiles ELSE p = ObjectOut
    BY <1>2, <2>1 DEF Traced, Holds
  <2> HIDE DEF p
  <2>3. /\ ObjectPaths[1] = p /\ DOMAIN ObjectPaths = 1 .. 1 + Len(opts.objects)
        /\ \A i \in 1 .. Len(opts.objects) :
             ObjectPaths[i + 1] = opts.objects[i] /\ opts.objects[i] \in Objects
    BY <2>2, ObjectFacts DEF ObjectPaths, p
  <2>4. CASE Len(opts.objects) = 0
    <3>1. ToolInputs(stage) = {p} /\ DOMAIN ObjectPaths = {1}
      BY <1>2, <2>3, <2>4 DEF ToolInputs
    <3>2. linked
      BY <1>2, <2>2, <3>1 DEF Linkable, Usable, DuplicateMain
    <3>3. Requested.of = {1}
      BY <2>1, <2>4, RequestedFacts
    <3>4. QED
      BY <1>2, <2>2, <3>1, <3>2, <3>3
  <2>5. CASE Len(opts.objects) = 1
    <3> DEFINE o == opts.objects[1]
    <3>1. /\ ToolInputs(stage) = {p, o} /\ DOMAIN ObjectPaths = {1, 2}
          /\ ObjectPaths[2] = o /\ o \in Objects /\ 1 \in DOMAIN opts.objects
      BY <1>2, <2>3, <2>5, ObjectFacts DEF ToolInputs
    <3>2. Requested.of = {0, 1}
      BY <2>1, <2>5, RequestedFacts
    <3> HIDE DEF o
    <3>3. CASE ~Nameless /\ o = ObjectOut
      <4>1. Clash
        BY <2>1, <3>1, <3>3 DEF Clash, ToExecutable, o
      <4>2. DuplicateMain
        <5>1. ObjectPaths[1] = p /\ ObjectPaths[2] = p
          BY <2>2, <2>3, <3>1, <3>3
        <5>2. QED
          BY <2>2, <3>1, <5>1 DEF DuplicateMain
      <4>3. QED
        BY <1>2, <4>1, <4>2 DEF Linkable
    <3>4. CASE disk[o] = Absent
      <4>1. ~Exists(o)
        BY <3>4 DEF Exists
      <4>2. ~Linkable(stage)
        BY <1>2, <3>1, <3>4 DEF Linkable, Usable, Absent, Nothing, Holding
      <4>3. QED
        BY <1>2, <3>1, <4>1, <4>2
    <3>5. CASE disk[o] = Holding("prebuilt", {0}, FALSE)
      <4>1. disk[o].form = "prebuilt" /\ disk[o].of = {0}
        BY <3>5 DEF Holding
      <4>2. linked
        BY <1>2, <2>2, <2>3, <3>1, <4>1 DEF Linkable, Usable, DuplicateMain
      <4>3. UNION {disk[f].of : f \in ToolInputs(stage)} = {0, 1}
        BY <2>2, <3>1, <4>1
      <4>4. QED
        BY <1>2, <3>2, <4>2, <4>3
    <3>6. QED
      BY <2>1, <3>1, <3>3, <3>4, <3>5 DEF Traced
  <2>6. QED
    BY <2>4, <2>5, ObjectFacts
<1>3. QED
  BY <1>1, <1>2

(* What a stage that succeeds makes of the code it was given.                *)
LEMMA ProductTraced ==
  ASSUME Inv, Single, Traced, stage \in Pipeline, step = "write",
         stage \in {"optimise", "native", "link"} => Linkable(stage)
  PROVE  /\ stage \in {"bitcode", "optimise"} =>
              Product(stage).form = "bitcode" /\ Product(stage).of = {1}
         /\ stage = "native" => Product(stage).form = "object" /\ Product(stage).of = {1}
         /\ stage = "llvm" => Product(stage).form = "ir" /\ Product(stage).of = {1}
         /\ stage = "link" => Product(stage).form = "program" /\ Product(stage).of = Requested.of
<1> USE DEF Inv
<1>1. CASE stage \in {"llvm", "bitcode"}
  <2>1. llvm = 1
    BY <1>1 DEF Traced
  <2>2. QED
    BY <1>1, <2>1 DEF Product, Holding
<1>2. CASE stage \in {"optimise", "native"}
  <2> DEFINE input == disk[art[In].path]
  <2>1. input.form = "bitcode" /\ input.of = {1}
    BY <1>2 DEF Traced, Holds
  <2>2. input \in Contents
    BY <1>2, FileFacts DEF Filled, Typed
  <2>3. stage = "optimise" => Product(stage) = [input EXCEPT !.optimised = TRUE]
    BY DEF Product
  <2>4. stage = "native" => Product(stage) = [input EXCEPT !.form = "object"]
    <3>1. stage = "native" => opts.emit = "exe"
      BY DEF Controlled, Single
    <3>2. QED
      BY <3>1 DEF Product, EmitsAssembly
  <2> HIDE DEF input
  <2>5. QED
    BY <1>2, <2>1, <2>2, <2>3, <2>4 DEF Contents
<1>3. CASE stage = "link"
  <2> DEFINE code == UNION {disk[f].of : f \in ToolInputs(stage)}
  <2>1. Product(stage) = Holding("program", code, FALSE)
    BY <1>3 DEF Product
  <2>2. code = Requested.of
    BY <1>3, InputsUsable
  <2> HIDE DEF code
  <2>3. QED
    BY <1>3, <2>1, <2>2 DEF Holding
<1>4. QED
  BY <1>1, <1>2, <1>3 DEF Pipeline

(* A stage's output written.                                                *)
LEMMA WriteTraced ==
  ASSUME Inv, Single, Traced, WriteModule \/ RunTool
  PROVE  Traced'
<1> USE DEF Inv
<1> DEFINE p == art[Out].path
<1>1. /\ UNCHANGED <<opts, art, collected, cur, llvm>> /\ step = "write" /\ stage \in Pipeline
  BY DEF WriteModule, RunTool, Pipeline
<1>2. outcome = "running" /\ opts.emit \in {"exe", "llvm"}
  BY <1>1 DEF Controlled, Counted, Single, Typed, Pipeline
<1>3. /\ Requested' = Requested /\ Nameless' = Nameless
      /\ ObjectOut' = ObjectOut /\ LlvmOut' = LlvmOut
  BY <1>1, NamesStay
<1>4. CASE stage' \in {"unwind", "aborted"} /\ outcome' \in {"failed", "aborted"}
  BY <1>1, <1>2, <1>3, <1>4 DEF Traced, Objecting, Unlinked, Holds
<1>5. CASE /\ disk' = [disk EXCEPT ![p] = Product(stage)] /\ Goto(stage, "drop") /\ outcome' = outcome
           /\ stage \in {"optimise", "native", "link"} => Linkable(stage)
  <2>0. p # NoPath /\ p \in TempFiles \cup Outputs
    BY <1>1, <1>5, OutputPath DEF Linkable, Pipeline
  <2>1. /\ disk'[p] = Product(stage)
        /\ \A f \in Files \ {p} : disk'[f] = disk[f]
    BY <1>5, <2>0, FileFacts DEF Typed
  <2>2. stage' = stage /\ step' = "drop" /\ outcome' = "running"
    BY <1>2, <1>5 DEF Goto
  <2>3. /\ stage \in {"native", "llvm", "link"} =>
             IF Nameless THEN art[Out].temporary ELSE p = NamedOutput(stage)
        /\ stage \in {"bitcode", "optimise"} => art[Out].temporary
    <3>1. IF StageIsTemporary(stage) THEN art[Out].temporary ELSE p = NamedOutput(stage)
      BY <1>1 DEF Placed
    <3>2. stage \in {"native", "llvm", "link"} => (StageIsTemporary(stage) <=> Nameless)
      <4>1. stage = "native" => opts.emit = "exe"
        BY <1>2 DEF Controlled
      <4>2. QED
        BY <4>1, StageOutputs
    <3>3. stage \in {"bitcode", "optimise"} => StageIsTemporary(stage)
      BY StageOutputs
    <3>4. QED
      BY <3>1, <3>2, <3>3
  <2>4. /\ stage = "native" => opts.emit = "exe" /\ (~Nameless => p = ObjectOut)
        /\ stage = "llvm" => opts.emit = "llvm" /\ (~Nameless => p = LlvmOut)
        /\ stage = "link" => opts.emit = "exe" /\ (~Nameless => p = ExecutableOut)
    BY <1>2, <2>3, StageOutputs DEF Controlled
  <2>5. art[Out].temporary => p \in TempFiles
    BY <2>0, HandleFacts DEF Kept
  <2>6. stage = "link" /\ ~Nameless => Requested.file = p /\ Requested.form = "program"
    BY <2>4, RequestedFacts
  <2>7. p' = p /\ art' = art /\ collected' = collected /\ cur' = cur /\ opts' = opts
    BY <1>1
  <2>8. stage # "link" /\ opts.emit = "exe" =>
          \A o \in Objects : Nameless \/ o # ObjectOut => disk'[o] = disk[o]
    <3>1. stage # "link" /\ opts.emit = "exe" => p \in TempFiles \/ (p = ObjectOut /\ ~Nameless)
      BY <1>1, <2>3, <2>4, <2>5 DEF Pipeline, Controlled
    <3>2. QED
      BY <2>1, <3>1, FileFacts
  <2>9. CASE stage \in {"bitcode", "optimise"}
    <3>1. disk'[p].form = "bitcode" /\ disk'[p].of = {1}
      BY <2>1, <2>9, <1>1, <1>5, ProductTraced
    <3>2. QED
      BY <1>3, <2>2, <2>7, <2>8, <2>9, <3>1 DEF Traced, Objecting, Unlinked, Holds
  <2>10. CASE stage = "native"
    <3>1. disk'[p].form = "object" /\ disk'[p].of = {1}
      BY <2>1, <2>10, <1>1, <1>5, ProductTraced
    <3>2. IF Nameless THEN p \in TempFiles ELSE p = ObjectOut
      BY <2>3, <2>4, <2>5, <2>10
    <3>3. OwnObject' = art[Out]
      BY <2>2, <2>7, <2>10 DEF OwnObject
    <3>4. QED
      BY <1>3, <2>2, <2>7, <2>8, <2>10, <3>1, <3>2, <3>3 DEF Traced, Objecting, Unlinked, Holds
  <2>11. CASE stage = "llvm"
    <3>1. disk'[p].form = "ir" /\ disk'[p].of = {1}
      BY <2>1, <2>11, <1>1, <1>5, ProductTraced
    <3>2. QED
      BY <1>3, <2>2, <2>4, <2>7, <2>11, <3>1 DEF Traced, Objecting, Unlinked, Holds
  <2>12. CASE stage = "link"
    <3>1. ~Nameless => /\ disk'[Requested.file].form = Requested.form
                       /\ disk'[Requested.file].of = Requested.of
      BY <2>1, <2>6, <2>12, <1>1, <1>5, ProductTraced
    <3>2. QED
      BY <1>3, <2>2, <2>4, <2>7, <2>12, <3>1 DEF Traced, Objecting, Unlinked, Holds
  <2>13. QED
    BY <1>1, <2>9, <2>10, <2>11, <2>12 DEF Pipeline
<1>6. QED
  BY <1>4, <1>5 DEF WriteModule, RunTool, Fail, Proceed, Goto

(* A value destroyed.  It owned a temporary at most, and not the one that    *)
(* another value owns.                                                      *)
LEMMA DestroyTraced ==
  ASSUME Inv, NEW h \in Handles, Destroy(h)
  PROVE  /\ art'[h] = Empty /\ \A g \in Handles \ {h} : art'[g] = art[g]
         /\ \A f \in Objects \cup Outputs : disk'[f] = disk[f]
         /\ \A g \in Handles \ {h} :
              art[g].temporary /\ art[g].path # NoPath => disk'[art[g].path] = disk[art[g].path]
<1> USE DEF Inv
<1>1. art'[h] = Empty /\ \A g \in Handles \ {h} : art'[g] = art[g]
  BY DestroyFacts DEF Typed
<1>2. \A f \in Objects \cup Outputs : disk'[f] = disk[f]
  BY DestroyFacts, FileFacts
<1>3. ASSUME NEW g \in Handles \ {h}, art[g].temporary, art[g].path # NoPath
      PROVE  disk'[art[g].path] = disk[art[g].path]
  <2>1. art[g].path \in TempFiles /\ Owning(g, art[g].path)
    BY <1>3 DEF Kept, Owning
  <2>2. ~Owning(h, art[g].path)
    BY <2>1 DEF Kept
  <2>3. QED
    BY <2>1, <2>2, DestroyFacts, FileFacts
<1>4. QED
  BY <1>1, <1>2, <1>3

(* A stage's input dropped: its output is another file.                      *)
LEMMA DropTraced == ASSUME Inv, Single, Traced, DropInput PROVE Traced'
<1> USE DEF Inv
<1>1. /\ UNCHANGED <<opts, collected, cur, errors, outcome>> /\ step = "drop" /\ stage \in Pipeline
      /\ outcome = "running" /\ opts.emit \in {"exe", "llvm"}
  <2>1. step = "drop" /\ UNCHANGED <<opts, collected, cur, errors, outcome>>
    BY DEF DropInput, Proceed
  <2>2. stage \in Pipeline /\ opts.emit \in {"exe", "llvm"}
    BY <2>1 DEF Controlled, Single
  <2>3. QED
    BY <2>1, <2>2 DEF Counted, Pipeline, Typed
<1>2. /\ Requested' = Requested /\ Nameless' = Nameless
      /\ ObjectOut' = ObjectOut /\ LlvmOut' = LlvmOut
  BY <1>1, NamesStay
<1>3. CASE Consumed = {}
  <2>1. UNCHANGED <<disk, art, stage>> /\ step' = "return"
    BY <1>3 DEF DropInput, Goto
  <2>2. QED
    BY <1>1, <1>2, <2>1 DEF Traced, Objecting, Unlinked, OwnObject, Holds, Pipeline
<1>4. CASE Consumed # {}
  <2> DEFINE h == CHOOSE k \in Consumed : \A g \in Consumed : k <= g
  <2>1. Consumed \subseteq Handles \ {Out}
    BY HandleFacts DEF Consumed, In, Out, Slot
  <2>2. h \in Handles \ {Out}
    BY <1>4, <2>1, LeastHandle
  <2>3. Destroy(h) /\ UNCHANGED <<stage, step>>
    BY <1>4 DEF DropInput
  <2> HIDE DEF h
  <2>4. /\ \A f \in Objects \cup Outputs : disk'[f] = disk[f]
        /\ art'[Out] = art[Out]
        /\ art[Out].temporary /\ art[Out].path # NoPath => disk'[art[Out].path] = disk[art[Out].path]
    BY <2>2, <2>3, HandleFacts, DestroyTraced
  <2>5. art[Out].path # NoPath /\ disk'[art'[Out].path] = disk[art[Out].path]
    <3>1. art[Out].path # NoPath
      BY <1>1, OutputPath
    <3>2. CASE art[Out].path \in TempFiles
      BY <1>1, <2>4, <3>1, <3>2, OutputPath DEF Owning
    <3>3. CASE art[Out].path \in Outputs
      BY <2>4, <3>1, <3>3
    <3>4. QED
      BY <1>1, <3>1, <3>2, <3>3, OutputPath
  <2>6. ~Nameless => disk'[LlvmOut] = disk[LlvmOut] /\ disk'[Requested.file] = disk[Requested.file]
    BY <2>4, RequestedFacts, OutputFacts
  <2>7. stage' = stage /\ step' = "drop" /\ outcome' = "running"
    BY <1>1, <2>3
  <2>8. Objecting' => OwnObject' = art[Out]
    BY <1>1, <2>4, <2>7 DEF Objecting, OwnObject, Pipeline
  <2>9. Objecting' => Objecting /\ OwnObject = art[Out]
    BY <1>1, <2>7 DEF Objecting, OwnObject, Pipeline
  <2>10. \A o \in Objects : disk'[o] = disk[o]
    BY <2>4
  <2>11. Unlinked' = Unlinked
    BY <1>1, <2>7 DEF Unlinked
  <2>12. stage \in {"bitcode", "optimise"} /\ step' \in {"drop", "return"} =>
           Holds(art[Out].path, "bitcode", {1})'
    BY <1>1, <2>4, <2>5 DEF Traced, Holds
  <2>13. opts.emit = "exe" /\ Objecting' =>
           /\ Holds(OwnObject.path, "object", {1})'
           /\ IF Nameless THEN OwnObject'.path \in TempFiles ELSE OwnObject'.path = ObjectOut
    BY <2>4, <2>5, <2>8, <2>9 DEF Traced, Holds
  <2>14. QED
    BY <1>1, <1>2, <2>6, <2>7, <2>10, <2>11, <2>12, <2>13 DEF Traced, Holds, Pipeline
<1>5. QED
  BY <1>3, <1>4

(* A stage's output handed on.                                              *)
LEMMA ReturnTraced == ASSUME Inv, Single, Traced, Return PROVE Traced'
<1> USE DEF Inv
<1>1. /\ UNCHANGED <<opts, collected, llvm, cur>> /\ step = "return" /\ stage \in Pipeline
      /\ outcome = "running" /\ opts.emit \in {"exe", "llvm"}
  <2>1. step = "return" /\ UNCHANGED <<opts, collected, llvm, cur>>
    BY DEF Return
  <2>2. stage \in Pipeline /\ opts.emit \in {"exe", "llvm"}
    BY <2>1 DEF Controlled, Single
  <2>3. QED
    BY <2>1, <2>2 DEF Counted, Pipeline, Typed
<1>2. /\ Requested' = Requested /\ Nameless' = Nameless
      /\ ObjectOut' = ObjectOut /\ LlvmOut' = LlvmOut
  BY <1>1, NamesStay
<1>3. CASE stage = "link"
  <2>1. Destroy(Out) /\ stage' = "unwind" /\ step' = "run" /\ outcome' = "ok"
    BY <1>3 DEF Return, Goto
  <2>2. \A f \in Objects \cup Outputs : disk'[f] = disk[f]
    BY <2>1, HandleFacts, DestroyTraced
  <2>3. ~Nameless => disk'[Requested.file] = disk[Requested.file]
    BY <2>2, RequestedFacts
  <2>4. QED
    BY <1>1, <1>2, <1>3, <2>1, <2>3 DEF Traced, Objecting, Unlinked, Holds
<1>4. CASE stage # "link" /\ StageAfter(stage) = "collect"
  <2>1. UNCHANGED <<disk, art, outcome>> /\ stage' = "collect" /\ step' = "run"
    BY <1>4 DEF Return, Goto
  <2>2. opts.emit = "exe" => stage = "native"
    BY <1>1, <1>4, StageOrder DEF Pipeline, Controlled
  <2>3. opts.emit = "llvm" => stage = "llvm"
    BY <1>1, <1>4 DEF Pipeline, Controlled
  <2>4. OwnObject = art[Out] /\ OwnObject' = art[Out]
    BY <1>4, <2>1, <2>2, <2>3, <1>1 DEF OwnObject
  <2>5. QED
    BY <1>1, <1>2, <2>1, <2>2, <2>3, <2>4 DEF Traced, Objecting, Unlinked, Holds
<1>5. CASE stage # "link" /\ StageAfter(stage) # "collect"
  <2>1. Move(Out, In) /\ stage' = StageAfter(stage) /\ step' = "start" /\ UNCHANGED <<disk, outcome>>
    BY <1>5 DEF Return, Goto
  <2>2. stage \in {"bitcode", "optimise"} /\ stage' \in {"optimise", "native"}
    BY <1>1, <1>5, <2>1, StageOrder DEF Pipeline, Controlled
  <2>3. art'[In] = art[Out]
    BY <2>1, HandleFacts DEF Move, Typed
  <2>4. QED
    BY <1>1, <1>2, <2>1, <2>2, <2>3 DEF Traced, Objecting, Unlinked, Holds
<1>6. QED
  BY <1>3, <1>4, <1>5

(* The source's artefact kept, and the run finished or ready to link.        *)
LEMMA CollectTraced == ASSUME Inv, Single, Traced, Collect PROVE Traced'
<1> USE DEF Inv
<1>1. stage = "collect" /\ UNCHANGED <<opts, disk, llvm>> /\ opts.emit \in {"exe", "llvm"}
  BY DEF Collect, At, Single
<1>2. collected = 0 /\ cur = 1 /\ ~MoreSources /\ collected' = 1 /\ cur' = 1
  BY <1>1 DEF Controlled, PerSource, Traced, Single, MoreSources, Collect
<1>3. /\ Requested' = Requested /\ Nameless' = Nameless
      /\ ObjectOut' = ObjectOut /\ LlvmOut' = LlvmOut
  BY <1>1, NamesStay
<1>4. art'[Slot(1)] = art[Out]
  BY <1>2, HandleFacts DEF Collect, Move, Typed
<1>5. CASE opts.emit = "exe"
  <2>1. stage' = "gather" /\ outcome' = "running"
    BY <1>1, <1>2, <1>5 DEF Collect, ToExecutable, Goto, Counted, Typed
  <2>2. QED
    BY <1>1, <1>2, <1>3, <1>4, <1>5, <2>1 DEF Traced, Objecting, Unlinked, OwnObject, Holds
<1>6. CASE opts.emit = "llvm"
  <2>1. stage' = "unwind" /\ step' = "run" /\ outcome' = "ok"
    BY <1>1, <1>2, <1>6 DEF Collect, ToExecutable, Goto
  <2>2. ~Nameless => Holds(LlvmOut, "ir", {1})
    BY <1>1, <1>6 DEF Traced
  <2>3. ~Nameless => Holds(Requested.file, Requested.form, Requested.of)
    BY <1>6, <2>2, RequestedFacts
  <2>4. QED
    BY <1>1, <1>2, <1>3, <1>6, <2>1, <2>3 DEF Traced, Objecting, Unlinked, Holds
<1>7. QED
  BY <1>1, <1>5, <1>6

(* The pre-built objects lined up behind it.                                 *)
LEMMA GatherTraced == ASSUME Inv, Single, Traced, GatherObjects PROVE Traced'
<1> USE DEF Inv
<1>1. /\ stage = "gather" /\ step = "run" /\ UNCHANGED <<opts, disk, llvm, cur, outcome>>
      /\ stage' = "link" /\ step' = "start" /\ opts.emit = "exe"
  BY DEF GatherObjects, At, Goto, Proceed, Controlled
<1>2. collected = 1 /\ collected' = 1 + Len(opts.objects) /\ outcome = "running"
  BY <1>1 DEF Controlled, Traced, GatherObjects, Counted, Typed
<1>3. /\ Slot(1) \in Handles /\ Slot(collected) = Slot(1)
      /\ \A i \in DOMAIN opts.objects :
           Slot(i + 1) \in Handles /\ Slot(i + 1) - Slot(1) = i
      /\ Slot(1) - Slot(1) \notin DOMAIN opts.objects
  BY <1>2, HandleFacts, ObjectFacts DEF Slot
<1>4. art'[Slot(1)] = art[Slot(1)]
  BY <1>3 DEF GatherObjects
<1>5. \A i \in DOMAIN opts.objects : art'[Slot(i + 1)].path = opts.objects[i]
  BY <1>3 DEF GatherObjects
<1>6. /\ Requested' = Requested /\ Nameless' = Nameless
      /\ ObjectOut' = ObjectOut /\ LlvmOut' = LlvmOut
  BY <1>1, NamesStay
<1>7. QED
  BY <1>1, <1>2, <1>4, <1>5, <1>6 DEF Traced, Objecting, Unlinked, OwnObject, Holds

(* Unwinding leaves the requested output.                                    *)
LEMMA UnwindTraced == ASSUME Inv, Single, Traced, Unwind PROVE Traced'
<1>1. /\ UNCHANGED <<opts, collected, cur, outcome>> /\ stage = "unwind"
      /\ stage' \in {"unwind", "done", "aborted"}
  BY DEF Unwind, At, Goto, Proceed
<1>2. Requested' = Requested /\ Nameless' = Nameless
  BY <1>1, NamesStay
<1>3. \A f \in Objects \cup Outputs : disk'[f] = disk[f]
  BY UnwindDestroys, DestroyTraced
<1>4. ~Nameless => disk'[Requested.file] = disk[Requested.file]
  BY <1>3, RequestedFacts DEF Inv
<1>5. QED
  BY <1>1, <1>2, <1>4 DEF Traced, Objecting, Unlinked, Holds

(* The options of a run are frozen.                                         *)
LEMMA OptionsStay == [Next]_vars => opts' = opts
BY DEF Next, vars, Validate, Compile, StartStage, OpenOutput, WriteModule, RunTool,
   DropInput, Return, Collect, GatherObjects, Unwind, Exited

(* A failure has a cause, as the driver gives its tools what they can use.   *)
Blamed == outcome = "failed" /\ ~Clash => cause

(* Only a tool that could not use what it was given could break this.        *)
LEMMA StepBlamed ==
  ASSUME Inv, Single, Traced, Blamed, [Next]_vars
  PROVE  Blamed'
<1>0. opts' = opts
  BY OptionsStay
<1>1. Clash' = Clash
  BY <1>0, NamesStay
<1>2. CASE RunTool
  <2>1. stage \in {"optimise", "native", "link"} /\ step = "write" /\ stage \in Pipeline
    BY <1>2 DEF RunTool, Pipeline
  <2>2. art[Out].path = NoPath => cause
    BY <2>1, OutputPath DEF Traced
  <2>3. ~Clash => Linkable(stage) \/ cause \/ \E f \in ToolInputs(stage) : ~Exists(f)
    BY <2>1, <2>2, InputsUsable
  <2>4. CASE outcome' = outcome /\ cause' = cause
    BY <1>1, <2>4 DEF Blamed
  <2>5. CASE cause' = (cause \/ Linkable(stage) \/ \E f \in ToolInputs(stage) : ~Exists(f))
    BY <1>1, <2>3, <2>5 DEF Blamed
  <2>6. QED
    BY <1>2, <2>4, <2>5 DEF RunTool, Proceed
<1>3. CASE Validate \/ Compile \/ StartStage \/ OpenOutput \/ WriteModule
  BY <1>1, <1>3 DEF Validate, Compile, StartStage, OpenOutput, WriteModule, Proceed, Blamed
<1>4. CASE DropInput \/ GatherObjects \/ Unwind \/ Exited \/ UNCHANGED vars
  BY <1>1, <1>4 DEF DropInput, GatherObjects, Unwind, Proceed, Exited, vars, Blamed
<1>5. CASE Return \/ Collect
  <2>1. outcome' \in {outcome, "ok"} /\ cause' = cause
    BY <1>5 DEF Return, Collect
  <2>2. QED
    BY <1>1, <2>1 DEF Blamed
<1>6. QED
  BY <1>2, <1>3, <1>4, <1>5 DEF Next

(* The exit code tells the truth; a run with one source that is not           *)
(* --emit=obj or asm delivers what was asked for, if that has a name, or has *)
(* a cause to fail, if its object does not replace one it was given.         *)
THEOREM OutcomeIsTrueHolds == Spec => []OutcomeIsTrue
<1> DEFINE SInv == Single => Traced /\ Blamed
<1>1. Init => SInv
  BY InitTraced DEF Init, Blamed
<1>2. Inv /\ SInv /\ [Next]_vars => SInv'
  <2> SUFFICES ASSUME Inv, SInv, [Next]_vars, Single' PROVE Traced' /\ Blamed'
    OBVIOUS
  <2>1. Single
    BY OptionsStay DEF Single
  <2>2. Traced'
    BY <2>1, QuietTraced, OpenTraced, WriteTraced, DropTraced, ReturnTraced, CollectTraced,
       GatherTraced, UnwindTraced DEF Next
  <2>3. Blamed'
    BY <2>1, StepBlamed
  <2>4. QED
    BY <2>2, <2>3
<1>3. Inv /\ SInv => OutcomeIsTrue
  <2> SUFFICES ASSUME Inv, SInv PROVE OutcomeIsTrue
    OBVIOUS
  <2>1. outcome = "failed" <=> errors > 0
    BY DEF Inv, Counted
  <2>2. ASSUME Single, ~Nameless PROVE DeliversOutput
    BY <2>2 DEF DeliversOutput, Traced, Holds
  <2>3. ASSUME Single, ~Clash PROVE FailureHasCause
    BY <2>3 DEF FailureHasCause, Blamed
  <2>4. QED
    BY <2>1, <2>2, <2>3 DEF OutcomeIsTrue, Single
<1> HIDE DEF SInv
<1>4. QED
  BY <1>1, <1>2, <1>3, InvHolds, PTL DEF Spec

=============================================================================

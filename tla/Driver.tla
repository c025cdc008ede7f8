------------------------------- MODULE Driver -------------------------------
(***************************************************************************)
(* One run of the compiler: Driver::run() validates the options, drives    *)
(* every source through the stages of compileSource() and links an         *)
(* executable.  The state is the disk (what each file holds), the Artefact *)
(* values alive in the call stack, the in-memory LLVM module and the       *)
(* program counter <<stage, step>>.                                        *)
(*                                                                         *)
(* A failing stage logs a diagnostic and the C++ stack unwinds: every      *)
(* Artefact still alive is destroyed, which deletes the temporaries among  *)
(* them.  A successful run ends the same way, with run()'s own locals.     *)
(* A write error is another matter: LLVM's raw_fd_ostream ends the process  *)
(* in its destructor, and nothing is unwound.                              *)
(*                                                                         *)
(* External: the tools opt, llc and cc, the file system.  A tool may fail  *)
(* whenever it likes and leave its output in any state, it must fail when  *)
(* its inputs are not usable, and otherwise produces its output.           *)
(* (As in Artefact.tla, an operator used nowhere is the next one's mutant.) *)
(***************************************************************************)
EXTENDS Integers, Sequences, FiniteSets

CONSTANTS
  SourceFile,     \* the source files, in command-line order
  Objects,        \* pre-built object files a run may be given
  TempFiles,      \* names createTemporaryFile() may return
  Stems,          \* the output stems explored; "" is one of -o .hidden and of .bas
  ArtifactPath(_, _), \* <build path>/<stem>.<extension>, of a stem and an extension
  Emits,          \* the --emit values explored
  MaxSources      \* at most this many sources in one run

NoPath == "(none)"   \* the empty path

Named == Stems \ {""}
Extensions == {"", "o", "s", "ll"}

(* An extension says what an input is (detectFileType): no object and no     *)
(* name ending in .o or .s is a source.  Nothing keeps an output from being  *)
(* named like an input in other ways: prog compiled to prog, b.ll to b.ll,  *)
(* or an object to the name of a pre-built one.                             *)
ASSUME DriverAssumption ==
  /\ SourceFile \in Seq(STRING) /\ MaxSources \in 1 .. Len(SourceFile)
  /\ Emits \subseteq {"exe", "obj", "asm", "llvm"}
  /\ \A i \in DOMAIN SourceFile : SourceFile[i] \notin TempFiles \cup Objects
  /\ Objects \cap TempFiles = {} /\ IsFiniteSet(Objects)
  /\ NoPath \notin TempFiles \cup Objects
  /\ \A s \in Named :
       /\ \A e \in Extensions : ArtifactPath(s, e) \notin TempFiles \cup {NoPath}
       /\ \A d1, d2 \in Extensions : ArtifactPath(s, d1) = ArtifactPath(s, d2) => d1 = d2
       /\ \A e \in {"o", "s"} : \A i \in DOMAIN SourceFile : ArtifactPath(s, e) # SourceFile[i]

VARIABLES
  opts,     \* [emit, optimise, count, objects, stem]: the frozen CompileOptions
  disk,     \* what every file holds
  art,      \* the Artefact values: in and out of a stage, and the objects vector
  collected,\* how many elements the objects vector has
  llvm,     \* the in-memory module: the index of its source, or 0
  cur,      \* index of the source being compiled
  stage, step,
  errors,   \* diagnostics of severity error logged so far
  outcome,  \* what run() returns, "ok" or "failed"; "running", or "aborted" by LLVM
  cause     \* history: a failure not of the driver's making has happened

vars == <<opts, disk, art, collected, llvm, cur, stage, step, errors, outcome, cause>>

-----------------------------------------------------------------------------
(* Paths, file contents, artefacts.                                         *)

ObjectOut == ArtifactPath(opts.stem, "o")
AssemblyOut == ArtifactPath(opts.stem, "s")
LlvmOut == ArtifactPath(opts.stem, "ll")
ExecutableOut == ArtifactPath(opts.stem, "")

Outputs == {ArtifactPath(s, e) : s \in Named, e \in Extensions}
Sources == {SourceFile[i] : i \in DOMAIN SourceFile}
Files == Sources \cup Objects \cup TempFiles \cup Outputs

(* What a file holds: its form, the inputs whose code is in it (source      *)
(* indices; 0 for a pre-built object) and whether opt has been over it.     *)
Forms == {"absent", "empty", "junk", "text", "prebuilt", "bitcode", "object",
          "assembly", "ir", "program"}
Contents == [form : Forms, of : SUBSET (0 .. Len(SourceFile)), optimised : BOOLEAN]
Holding(form, of, optimised) == [form |-> form, of |-> of, optimised |-> optimised]
Nothing(form) == Holding(form, {}, FALSE)
Absent == Nothing("absent")
Exists(f) == disk[f] # Absent

(* Handles: 0 and 1 are a stage's input and output, 2, 3, ... the elements   *)
(* of run()'s objects vector.                                               *)
In == 0
Out == 1
Slot(i) == i + 1
Handles == 0 .. Slot(MaxSources + Cardinality(Objects))
Values == [path : Files \cup {NoPath}, temporary : BOOLEAN]
Empty == [path |-> NoPath, temporary |-> FALSE]

Owned(h) == IF art[h].temporary /\ art[h].path # NoPath THEN {art[h].path} ELSE {}

(* Artefact::destroy, and the state of the storage afterwards.              *)
Destroy(h) ==
  /\ disk' = [f \in Files |-> IF f \in Owned(h) THEN Absent ELSE disk[f]]
  /\ art' = [art EXCEPT ![h] = Empty]

(* A move into storage that owns nothing; the source is left empty.         *)
Move(from, to) == art' = [art EXCEPT ![from] = Empty, ![to] = art[from]]

-----------------------------------------------------------------------------
(* The pipelines of compileSource(), and each stage's TaskOption.           *)

ToExecutable == opts.emit = "exe"

Stages == IF opts.emit = "llvm" THEN <<"compile", "llvm">>
          ELSE <<"compile", "bitcode", "optimise", "native">>

StageAfter(s) ==
  LET i == CHOOSE k \in DOMAIN Stages : Stages[k] = s
  IN IF i = Len(Stages) THEN "collect" ELSE Stages[i + 1]

(* A stage without a base name writes a temporary, and the base name is the  *)
(* output stem, which may be empty.  The object gets it exactly when the    *)
(* output is an executable - the reverse of what the comment above          *)
(* compileSource's pipeline says.                                           *)
Nameless == opts.stem = ""
NativeIsTemporary == ~ToExecutable \/ Nameless

StageIsTemporary(s) ==
  CASE s \in {"bitcode", "optimise"} -> TRUE
    [] s = "native" -> NativeIsTemporary
    [] s \in {"llvm", "link"} -> Nameless

EmitsAssembly == opts.emit = "asm"

NamedOutput(s) ==
  CASE s = "llvm" -> LlvmOut
    [] s = "native" -> IF EmitsAssembly THEN AssemblyOut ELSE ObjectOut
    [] s = "link" -> ExecutableOut

(* What an input must hold for the tool to be able to use it.               *)
Usable(s, f) ==
  CASE s \in {"optimise", "native"} -> disk[f].form = "bitcode"
    [] s = "link" -> disk[f].form \in {"object", "prebuilt"}

ObjectPathsButLast == [i \in 1 .. collected - 1 |-> art[Slot(i)].path]

(* The file arguments of the link, in order.                                *)
ObjectPaths == [i \in 1 .. collected |-> art[Slot(i)].path]

(* Gen's lowerGlobalInit gives every module an external `main`, so two lbc   *)
(* objects in one link define it twice.                                     *)
DuplicateMain ==
  \E i, j \in DOMAIN ObjectPaths :
    i # j /\ disk[ObjectPaths[i]].form = "object" /\ disk[ObjectPaths[j]].form = "object"

ToolInputs(s) ==
  IF s = "link" THEN {ObjectPaths[i] : i \in DOMAIN ObjectPaths} ELSE {art[In].path}

Linkable(s) ==
  /\ \A f \in ToolInputs(s) : Usable(s, f)
  /\ s = "link" => ~DuplicateMain
  /\ art[Out].path # NoPath

(* What the stage's success leaves in its output file.                      *)
Product(s) ==
  CASE s = "llvm" -> Holding("ir", {llvm}, FALSE)
    [] s = "bitcode" -> Holding("bitcode", {llvm}, FALSE)
    [] s = "optimise" -> [disk[art[In].path] EXCEPT !.optimised = TRUE]
    [] s = "native" -> [disk[art[In].path] EXCEPT
                          !.form = IF EmitsAssembly THEN "assembly" ELSE "object"]
    [] s = "link" -> Holding("program", UNION {disk[f].of : f \in ToolInputs(s)}, FALSE)

-----------------------------------------------------------------------------
(* Control.                                                                 *)

At(s, p) == stage = s /\ step = p

Goto(s, p) == stage' = s /\ step' = p

(* The stage has logged an error and returned it; TRY passes it up to run(). *)
Fail ==
  /\ errors' = errors + 1
  /\ outcome' = "failed"
  /\ Goto("unwind", "run")

Proceed == UNCHANGED <<errors, outcome, cause>>

Init ==
  /\ opts \in [emit : Emits, optimise : BOOLEAN, count : 0 .. MaxSources,
               objects : {<<>>} \cup {<<o>> : o \in Objects}, stem : Stems]
  /\ \E there \in SUBSET (Sources \cup Objects) :
       disk = [f \in Files |-> IF f \notin there THEN Absent
                              ELSE IF f \in Sources THEN Nothing("text")
                              ELSE Holding("prebuilt", {0}, FALSE)]
  /\ art = [h \in Handles |-> Empty]
  /\ collected = 0 /\ llvm = 0 /\ cur = 1
  /\ stage = "validate" /\ step = "run"
  /\ errors = 0 /\ outcome = "running" /\ cause = FALSE

(* Driver::validate: every problem is reported, the first is returned.  Only *)
(* sources are looked for; pre-built objects are not.                       *)
ReportsUnambiguous ==
  (IF opts.count = 0 THEN 1 ELSE 0)
  + Cardinality({i \in 1 .. opts.count : ~Exists(SourceFile[i])})

Reports ==
  (IF opts.count = 0 THEN 1 ELSE 0)
  + Cardinality({i \in 1 .. opts.count : ~Exists(SourceFile[i])})
  + (IF ~ToExecutable /\ opts.count > 1 THEN 1 ELSE 0)

Validate ==
  /\ At("validate", "run")
  /\ errors' = Reports
  /\ IF Reports = 0 THEN Goto("compile", "run") /\ UNCHANGED <<outcome, cause>>
     ELSE Goto("unwind", "run") /\ outcome' = "failed" /\ cause' = TRUE
  /\ UNCHANGED <<opts, disk, art, collected, llvm, cur>>

(* CompileTask: read, parse, analyse and lower one source; any of it may     *)
(* report an error in the program.                                          *)
Compile ==
  /\ At("compile", "run")
  /\ \/ /\ disk[SourceFile[cur]].form = "text"
        /\ llvm' = cur
        /\ Goto(StageAfter("compile"), "start")
        /\ Proceed
     \/ Fail /\ cause' = TRUE /\ UNCHANGED llvm
  /\ UNCHANGED <<opts, disk, art, collected, cur>>

(* Before a stage has an output: EmitLlvmTask verifies the module, the tool  *)
(* stages look their tool up, and OptimizeTask at -O0 hands its input on.   *)
Skips == stage = "optimise" /\ ~opts.optimise

StartStage ==
  /\ step = "start"
  /\ IF Skips THEN Goto(StageAfter(stage), "start") /\ Proceed
     ELSE \/ Goto(stage, "open") /\ Proceed
          \/ stage # "bitcode" /\ Fail /\ cause' = TRUE
  /\ UNCHANGED <<opts, disk, art, collected, llvm, cur>>

(* "Own the output up front": the output Artefact exists before anything     *)
(* can fail.  A temporary is created on disk, empty, unless that fails; the  *)
(* stages stop at the empty path they get then, all but the link, which     *)
(* hands it to the linker.                                                  *)
OpenOutput ==
  /\ step = "open"
  /\ \/ /\ ~StageIsTemporary(stage)
        /\ art' = [art EXCEPT ![Out] = [path |-> NamedOutput(stage), temporary |-> FALSE]]
        /\ Goto(stage, "write") /\ Proceed /\ UNCHANGED disk
     \/ /\ StageIsTemporary(stage)
        /\ \E f \in {t \in TempFiles : ~Exists(t)} :
             /\ disk' = [disk EXCEPT ![f] = Nothing("empty")]
             /\ art' = [art EXCEPT ![Out] = [path |-> f, temporary |-> TRUE]]
        /\ Goto(stage, "write") /\ Proceed
     \/ /\ StageIsTemporary(stage) /\ stage # "link"
        /\ Fail /\ cause' = TRUE /\ UNCHANGED <<disk, art>>
     \/ /\ StageIsTemporary(stage) /\ stage = "link"
        /\ art' = [art EXCEPT ![Out] = [path |-> NoPath, temporary |-> TRUE]]
        /\ cause' = TRUE /\ Goto(stage, "write") /\ UNCHANGED <<disk, errors, outcome>>
  /\ UNCHANGED <<opts, collected, llvm, cur>>

(* The in-process writers open the output file and print the module into it, *)
(* or cannot open it; or a write fails, which the open stream reports when   *)
(* it is destroyed, by report_fatal_error: the process exits there, no       *)
(* destructor runs and no diagnostic is logged.                             *)
WriteModule ==
  /\ step = "write" /\ stage \in {"llvm", "bitcode"}
  /\ \/ /\ disk' = [disk EXCEPT ![art[Out].path] = Product(stage)]
        /\ Goto(stage, "drop") /\ Proceed
     \/ Fail /\ cause' = TRUE /\ UNCHANGED disk
     \/ /\ disk' = [disk EXCEPT ![art[Out].path] = Nothing("junk")]
        /\ Goto("aborted", "run") /\ outcome' = "aborted" /\ cause' = TRUE /\ UNCHANGED errors
  /\ UNCHANGED <<opts, art, collected, llvm, cur>>

(* A tool runs on the stage's input; when it fails it leaves its output as   *)
(* it was, half written or removed.  It is to blame for the failure unless  *)
(* the driver gave it inputs no tool could have used.                       *)
RunTool ==
  /\ step = "write" /\ stage \in {"optimise", "native", "link"}
  /\ \/ /\ Linkable(stage)
        /\ disk' = [disk EXCEPT ![art[Out].path] = Product(stage)]
        /\ Goto(stage, "drop") /\ Proceed
     \/ /\ disk' \in {disk} \cup {[disk EXCEPT ![f] = c] :
                    f \in {art[Out].path} \ {NoPath}, c \in {Nothing("junk"), Absent}}
        /\ Fail
        /\ cause' = (cause \/ Linkable(stage) \/ \E f \in ToolInputs(stage) : ~Exists(f))
  /\ UNCHANGED <<opts, art, collected, llvm, cur>>

ConsumedNothing == {}

(* The stage returns: the input it consumed is destroyed.  For the link that *)
(* is the whole objects vector, element by element.                         *)
Consumed ==
  IF stage = "link" THEN {h \in Handles : h >= Slot(1) /\ art[h] # Empty}
  ELSE {h \in {In} : art[h] # Empty}

DropInput ==
  /\ step = "drop"
  /\ llvm' = 0
  /\ IF Consumed # {}
     THEN /\ Destroy(CHOOSE h \in Consumed : \A g \in Consumed : h <= g)
          /\ UNCHANGED <<stage, step>>
     ELSE Goto(stage, "return") /\ UNCHANGED <<disk, art>>
  /\ Proceed
  /\ UNCHANGED <<opts, collected, cur>>

(* Its output becomes the next stage's input, the pipeline's result, or (the *)
(* link's, which run() discards) is destroyed, and run() has succeeded.     *)
Return ==
  /\ step = "return"
  /\ UNCHANGED <<errors, cause>>
  /\ IF stage = "link"
     THEN Destroy(Out) /\ Goto("unwind", "run") /\ outcome' = "ok"
     ELSE IF StageAfter(stage) = "collect"
     THEN Goto("collect", "run") /\ UNCHANGED <<disk, art, outcome>>
     ELSE Move(Out, In) /\ Goto(StageAfter(stage), "start") /\ UNCHANGED <<disk, outcome>>
  /\ UNCHANGED <<opts, collected, llvm, cur>>

MoreSources == cur < opts.count

(* run() keeps the source's artefact and turns to the next source; after the *)
(* last one it links, or is finished.                                       *)
Collect ==
  /\ At("collect", "run")
  /\ Move(Out, Slot(collected + 1))
  /\ collected' = collected + 1
  /\ IF MoreSources
     THEN cur' = cur + 1 /\ Goto("compile", "run") /\ UNCHANGED outcome
     ELSE /\ UNCHANGED cur
          /\ IF ToExecutable THEN Goto("gather", "run") /\ UNCHANGED outcome
             ELSE Goto("unwind", "run") /\ outcome' = "ok"
  /\ UNCHANGED <<opts, disk, llvm, errors, cause>>

(* The pre-built objects join the vector, not owned.                        *)
GatherObjects ==
  /\ At("gather", "run")
  /\ art' = [h \in Handles |->
              IF h - Slot(collected) \in DOMAIN opts.objects
              THEN [path |-> opts.objects[h - Slot(collected)], temporary |-> FALSE]
              ELSE art[h]]
  /\ collected' = collected + Len(opts.objects)
  /\ Goto("link", "start") /\ Proceed
  /\ UNCHANGED <<opts, disk, llvm, cur>>

(* Every Artefact still on the stack is destroyed, innermost first.         *)
Unwind ==
  /\ At("unwind", "run")
  /\ llvm' = 0
  /\ LET alive == {h \in Handles : art[h] # Empty}
     IN IF alive = {} THEN Goto("done", "run") /\ UNCHANGED <<disk, art>>
        ELSE /\ Destroy(IF Out \in alive THEN Out
                        ELSE CHOOSE h \in alive : \A g \in alive : h <= g)
             /\ UNCHANGED <<stage, step>>
  /\ Proceed
  /\ UNCHANGED <<opts, collected, cur>>

(* main() turns the outcome into the exit code; the process has ended.      *)
Exited == stage \in {"done", "aborted"} /\ UNCHANGED vars

Next ==
  \/ Validate \/ Compile \/ StartStage \/ OpenOutput \/ WriteModule \/ RunTool \/ DropInput
  \/ Return \/ Collect \/ GatherObjects \/ Unwind \/ Exited

Spec == Init /\ [][Next]_vars

-----------------------------------------------------------------------------
(* Properties.                                                              *)

Owners(f) == {h \in Handles : f \in Owned(h)}

(* No intermediate outlives its use: when run() returns, and already when    *)
(* the next source's compilation starts, the only temporaries on disk are   *)
(* those the objects vector holds - and at the end none at all.  (A process  *)
(* that LLVM ends on a write error does not return, and leaves them.)       *)
NoIntermediatesLeft ==
  /\ stage = "compile" =>
       \A f \in TempFiles : Exists(f) => \E i \in 1 .. collected : art[Slot(i)].path = f
  /\ stage = "done" => \A f \in TempFiles : ~Exists(f)

(* A successful run has produced what --emit asked for, from every source   *)
(* and every pre-built object it was given.                                 *)
Requested ==
  LET code == 1 .. opts.count
  IN CASE opts.emit = "exe" -> [file |-> ExecutableOut, form |-> "program",
                                of |-> code \cup (IF opts.objects = <<>> THEN {} ELSE {0})]
       [] opts.emit = "obj" -> [file |-> ObjectOut, form |-> "object", of |-> code]
       [] opts.emit = "asm" -> [file |-> AssemblyOut, form |-> "assembly", of |-> code]
       [] opts.emit = "llvm" -> [file |-> LlvmOut, form |-> "ir", of |-> code]

DeliversOutput ==
  (stage = "done" /\ outcome = "ok") =>
    /\ disk[Requested.file].form = Requested.form
    /\ disk[Requested.file].of = Requested.of

(* A run fails only when something other than the driver did: an error in    *)
(* the input or the options, or a tool, a temporary file or the disk.       *)
FailureHasCause == outcome = "failed" => cause

(* `lbc a.bas a.o`: the object made of the source has the name of one that   *)
(* was given, replaces it, and is linked twice.                             *)
Clash == ToExecutable /\ ~Nameless /\ \E i \in DOMAIN opts.objects : opts.objects[i] = ObjectOut

(* The exit code tells the truth: a run that returns has failed iff it said   *)
(* why; with one source that is not --emit=obj or asm a run that succeeds has *)
(* delivered what was asked for, if its output has a name, and one that fails *)
(* has a cause, unless its object replaces one it was given.                 *)
OutcomeIsTrue ==
  /\ stage = "done" => (outcome = "failed" <=> errors > 0)
  /\ opts.count = 1 /\ opts.emit \in {"exe", "llvm"} =>
       /\ ~Nameless => DeliversOutput
       /\ ~Clash => FailureHasCause

(* No input is deleted, and one is written only as the named output of a     *)
(* stage that has the same name - a source then only when none is left to   *)
(* be compiled.                                                             *)
InputsKept ==
  [][\A f \in Sources \cup Objects :
       disk'[f] # disk[f] =>
         /\ step = "write" /\ art[Out] = [path |-> f, temporary |-> FALSE]
         /\ f \in Sources => cur = opts.count]_vars

(* The driver keeps the ownership promise for its temporaries.              *)
Ownership ==
  INSTANCE TempOwnership
    WITH NoOwner <- -1,
         owner <- [f \in TempFiles |->
                     IF Owners(f) = {} THEN -1 ELSE CHOOSE h \in Handles : h \in Owners(f)],
         present <- {f \in TempFiles : Exists(f)}

ImplementsOwnership == Ownership!Spec
=============================================================================

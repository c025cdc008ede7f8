------------------------------ MODULE Artefact ------------------------------
(***************************************************************************)
(* The move-only Artefact value of Driver/Artefact.{hpp,cpp}: a path plus  *)
(* the flag that says whether the value owns (and on destruction deletes)  *)
(* the file.  A handle is storage for one value.  Storage that holds no    *)
(* value, a default constructed value and a moved-from value all behave    *)
(* alike - the destructor does nothing - except that only live storage can *)
(* be assigned to or destroyed; `live` keeps that apart.                   *)
(*                                                                         *)
(* An operator that stands right before the definition it resembles and is *)
(* used nowhere is a mutant: that definition with a plausible bug, which   *)
(* the project's checks swap in to see a property fail.                    *)
(***************************************************************************)
CONSTANTS
  Handles,     \* storage locations: locals, parameters, vector elements
  TempFiles,   \* names createTemporaryFile() may return
  NamedFiles,  \* build-path outputs and user-supplied inputs
  NoPath       \* the empty path

ASSUME PathsAssumption ==
  /\ TempFiles \cap NamedFiles = {}
  /\ NoPath \notin TempFiles \cup NamedFiles
  /\ NoPath \notin Handles

VARIABLES
  live,        \* handles that hold a constructed value
  art,         \* the value in each handle
  files        \* the files that exist on disk

vars == <<live, art, files>>

Paths == TempFiles \cup NamedFiles \cup {NoPath}

Values == [path : Paths, temporary : BOOLEAN]

(* A default constructed Artefact, and what a move leaves behind. *)
Empty == [path |-> NoPath, temporary |-> FALSE]

TypeOK ==
  /\ live \subseteq Handles
  /\ art \in [Handles -> Values]
  /\ files \subseteq TempFiles \cup NamedFiles

Init ==
  /\ live = {}
  /\ art = [h \in Handles |-> Empty]
  /\ files \in SUBSET NamedFiles

DeletesAlways(value) == IF value.path # NoPath THEN {value.path} ELSE {}

(* destroy(): the file an owning value deletes. *)
Deletes(value) == IF value.temporary /\ value.path # NoPath THEN {value.path} ELSE {}

MovedFromKeepsFlag(value) == value

(* What is left in the source of a move. *)
MovedFrom(value) == Empty

(* The storage whose value would delete f on destruction. *)
Owners(f) == {h \in Handles : f \in Deletes(art[h])}

(* createTemporaryFile() draws random names until one does not exist.  That *)
(* it does not draw the name of a file that a tool removed while an Artefact*)
(* still owns it is an assumption about the drawing (Driver.tla needs none: *)
(* a tool that removed its output has failed, and nothing is created then). *)
FreshName(f) == f \notin files /\ Owners(f) = {}

(* Context::createTempFile + the constructor: the file is created empty     *)
(* under a fresh name, or creation fails and the path is empty.             *)
ConstructTemporary(h) ==
  /\ h \notin live
  /\ live' = live \cup {h}
  /\ \/ \E f \in TempFiles :
          /\ FreshName(f)
          /\ art' = [art EXCEPT ![h] = [path |-> f, temporary |-> TRUE]]
          /\ files' = files \cup {f}
     \/ /\ art' = [art EXCEPT ![h] = [path |-> NoPath, temporary |-> TRUE]]
        /\ UNCHANGED files

(* The constructor on a build-path output or a pre-built input: no file is  *)
(* created, none is owned.                                                  *)
ConstructNamed(h, f) ==
  /\ h \notin live
  /\ live' = live \cup {h}
  /\ art' = [art EXCEPT ![h] = [path |-> f, temporary |-> FALSE]]
  /\ UNCHANGED files

ConstructDefault(h) ==
  /\ h \notin live
  /\ live' = live \cup {h}
  /\ art' = [art EXCEPT ![h] = Empty]
  /\ UNCHANGED files

MoveConstruct(h, g) ==
  /\ h \notin live /\ g \in live
  /\ live' = live \cup {h}
  /\ art' = [art EXCEPT ![h] = art[g], ![g] = MovedFrom(art[g])]
  /\ UNCHANGED files

MoveAssignLeaks(h, g) ==
  /\ h \in live /\ g \in live /\ h # g
  /\ art' = [art EXCEPT ![h] = art[g], ![g] = MovedFrom(art[g])]
  /\ UNCHANGED <<live, files>>

(* operator=(Artefact&&): self-assignment is ignored; otherwise the target's*)
(* own file goes first.                                                     *)
MoveAssign(h, g) ==
  /\ h \in live /\ g \in live
  /\ h # g
  /\ files' = files \ Deletes(art[h])
  /\ art' = [art EXCEPT ![h] = art[g], ![g] = MovedFrom(art[g])]
  /\ UNCHANGED live

Destroy(h) ==
  /\ h \in live
  /\ live' = live \ {h}
  /\ files' = files \ Deletes(art[h])
  /\ art' = [art EXCEPT ![h] = Empty]

(* A tool is handed the path of a live value and creates, rewrites or       *)
(* removes that file.                                                       *)
ToolWrites(h) ==
  /\ h \in live
  /\ art[h].path # NoPath
  /\ files' \in {files \cup {art[h].path}, files \ {art[h].path}}
  /\ UNCHANGED <<live, art>>

Next ==
  \/ \E h \in Handles : ConstructTemporary(h) \/ ConstructDefault(h)
                         \/ Destroy(h) \/ ToolWrites(h)
  \/ \E h \in Handles, f \in NamedFiles : ConstructNamed(h, f)
  \/ \E h, g \in Handles : MoveConstruct(h, g) \/ MoveAssign(h, g)

Spec == Init /\ [][Next]_vars

-----------------------------------------------------------------------------
(* A temporary file on disk is owned by exactly one value - one that still  *)
(* exists: it will be deleted, and it will be deleted once, so never after  *)
(* its name has been given to a different file.  (Artefact's two moves and  *)
(* its destructor keep this between them; none does alone.)                 *)
ExclusiveOwnership ==
  \A f \in TempFiles :
    /\ \A g, h \in Owners(f) : g = h
    /\ f \in files => \E h \in live : h \in Owners(f)

(* Only storage with a live value owns anything, and a value owns its file   *)
(* exactly when that file is a temporary.                                   *)
OwnersAreLive ==
  \A h \in Handles :
    /\ h \notin live => art[h] = Empty
    /\ art[h].temporary => art[h].path \in TempFiles \cup {NoPath}
    /\ art[h].path \in TempFiles => art[h].temporary

(* Destroying or overwriting a value never removes a requested output or a  *)
(* user-supplied input: "a non-temporary one ... is left in place".         *)
NamedFilesStay ==
  [][(live' # live \/ art' # art) =>
       (files \cap NamedFiles) \subseteq files']_vars

(* What is inductive: the parts hold each other up.                          *)
Inv == TypeOK /\ OwnersAreLive /\ ExclusiveOwnership

-----------------------------------------------------------------------------
(* The value type implements the ownership promise: a file's owner is the   *)
(* handle whose value would delete it.                                      *)
OwnerOf(f) == IF Owners(f) = {} THEN NoPath ELSE CHOOSE h \in Handles : h \in Owners(f)

Ownership ==
  INSTANCE TempOwnership
    WITH NoOwner <- NoPath,
         owner <- [f \in TempFiles |-> OwnerOf(f)],
         present <- files \cap TempFiles

ImplementsOwnership == Ownership!Spec
=============================================================================

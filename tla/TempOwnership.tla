--------------------------- MODULE TempOwnership ---------------------------
(***************************************************************************)
(* What the compiler promises about the temporary files it creates: the    *)
(* file is made together with its one owner, ownership is handed on and    *)
(* never shared, and the file goes away when its owner does.  Nothing is   *)
(* said of who the owners are; Artefact.tla (the C++ value type) and       *)
(* Driver.tla (a whole compilation) are both shown to implement this.      *)
(***************************************************************************)
CONSTANTS
  TempFiles,  \* the names createTemporaryFile() may return
  Handles,    \* the places an owner can be kept in
  NoOwner     \* not a handle

VARIABLES
  owner,      \* the handle owning each temporary file, or NoOwner
  present     \* the temporary files that exist on disk

vars == <<owner, present>>

TypeOK ==
  /\ owner \in [TempFiles -> Handles \cup {NoOwner}]
  /\ present \subseteq TempFiles

Init ==
  /\ owner = [f \in TempFiles |-> NoOwner]
  /\ present = {}

OwnsNothing(h) == \A f \in TempFiles : owner[f] # h

(* A fresh file appears, owned from its first instant. *)
Acquire(h, f) ==
  /\ owner[f] = NoOwner
  /\ f \notin present
  /\ OwnsNothing(h)
  /\ owner' = [owner EXCEPT ![f] = h]
  /\ present' = present \cup {f}

(* Ownership travels; the file is untouched. *)
Pass(f, h) ==
  /\ owner[f] # NoOwner
  /\ OwnsNothing(h)
  /\ owner' = [owner EXCEPT ![f] = h]
  /\ UNCHANGED present

(* The owner ends and takes its file along. *)
Release(f) ==
  /\ owner[f] # NoOwner
  /\ owner' = [owner EXCEPT ![f] = NoOwner]
  /\ present' = present \ {f}

(* A new value arrives in a handle that owned g: g goes, f is owned by h. *)
Replace(g, f) ==
  /\ g # f /\ owner[g] # NoOwner /\ owner[f] # NoOwner
  /\ owner' = [owner EXCEPT ![f] = owner[g], ![g] = NoOwner]
  /\ present' = present \ {g}

(* An external tool removes or rewrites the file under its owner's feet. *)
ToolTouches(f) ==
  /\ owner[f] # NoOwner
  /\ present' \in {present \cup {f}, present \ {f}}
  /\ UNCHANGED owner

Next ==
  \/ \E h \in Handles, f \in TempFiles : Acquire(h, f) \/ Pass(f, h)
  \/ \E f \in TempFiles : Release(f) \/ ToolTouches(f)
  \/ \E f, g \in TempFiles : Replace(g, f)

Spec == Init /\ [][Next]_vars

(* No file outlives its owner: what exists is owned by somebody. *)
NoOrphan == \A f \in present : owner[f] # NoOwner
============================================================================

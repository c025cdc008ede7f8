--------------------------- MODULE ArtefactProofs ---------------------------
(***************************************************************************)
(* Proofs about Artefact for any number of handles and files.  The three   *)
(* parts of Inv are inductive only together: a move keeps ExclusiveOwner-  *)
(* ship because dead storage owns nothing (OwnersAreLive).                 *)
(***************************************************************************)
EXTENDS Artefact, TLAPS

(* Whether h owns f, said of the value alone.                               *)
Owning(h, f) == art[h].temporary /\ art[h].path = f

(* A value owns a file when it is among its owners.                          *)
LEMMA OwningIsOwners ==
  ASSUME TypeOK, NEW h \in Handles, NEW f \in TempFiles
  PROVE  h \in Owners(f) <=> Owning(h, f)
BY PathsAssumption DEF Owners, Deletes, Owning, TypeOK, Values, Paths

(* ExclusiveOwnership in terms of Owning.                                   *)
Exclusive ==
  \A f \in TempFiles :
    /\ \A g, h \in Handles : Owning(g, f) /\ Owning(h, f) => g = h
    /\ f \in files => \E h \in live : Owning(h, f)

(* The invariant's form of exclusive ownership is the property's.           *)
LEMMA ExclusiveIsExclusiveOwnership == TypeOK => (Exclusive <=> ExclusiveOwnership)
<1> SUFFICES ASSUME TypeOK PROVE Exclusive <=> ExclusiveOwnership
  OBVIOUS
<1>1. \A f : Owners(f) \subseteq Handles
  BY DEF Owners
<1>2. \A f \in TempFiles : \A h \in Handles : h \in Owners(f) <=> Owning(h, f)
  BY OwningIsOwners
<1>3. live \subseteq Handles
  BY DEF TypeOK
<1>4. QED
  BY <1>1, <1>2, <1>3 DEF Exclusive, ExclusiveOwnership

(* A stage starts with no value constructed.                                *)
LEMMA InitInv == Init => Inv
<1> SUFFICES ASSUME Init PROVE Inv
  OBVIOUS
<1>1. TypeOK
  BY DEF Init, TypeOK, Empty, Values, Paths
<1>2. OwnersAreLive
  BY PathsAssumption DEF Init, OwnersAreLive, Empty
<1>3. Exclusive
  BY PathsAssumption DEF Init, Exclusive, Owning, Empty
<1>4. QED
  BY <1>1, <1>2, <1>3, ExclusiveIsExclusiveOwnership DEF Inv

(* Every constructor, move and destructor keeps the invariant.              *)
LEMMA NextInv ==
  TypeOK /\ OwnersAreLive /\ Exclusive /\ [Next]_vars
    => (TypeOK /\ OwnersAreLive /\ Exclusive)'
<1> SUFFICES ASSUME TypeOK, OwnersAreLive, Exclusive, [Next]_vars
             PROVE  (TypeOK /\ OwnersAreLive /\ Exclusive)'
  OBVIOUS
<1> USE PathsAssumption DEF TypeOK, Values, Paths, Empty
<1>1. ASSUME NEW h \in Handles, ConstructTemporary(h)
      PROVE  (TypeOK /\ OwnersAreLive /\ Exclusive)'
  <2>1. CASE \E f \in TempFiles :
               /\ FreshName(f)
               /\ art' = [art EXCEPT ![h] = [path |-> f, temporary |-> TRUE]]
               /\ files' = files \cup {f}
    <3>1. PICK f \in TempFiles :
             /\ FreshName(f)
             /\ art' = [art EXCEPT ![h] = [path |-> f, temporary |-> TRUE]]
             /\ files' = files \cup {f}
      BY <2>1
    <3>2. live' = live \cup {h} /\ h \notin live
      BY <1>1 DEF ConstructTemporary
    <3>3. \A g \in Handles : ~Owning(g, f)
      BY <3>1, OwningIsOwners DEF FreshName
    <3>4. [path |-> f, temporary |-> TRUE] \in Values
      OBVIOUS
    <3>5. TypeOK'
      BY <3>1, <3>2, <3>4
    <3>6. OwnersAreLive'
      BY <3>1, <3>2 DEF OwnersAreLive
    <3>7. Exclusive'
      BY <3>1, <3>2, <3>3 DEF Exclusive, OwnersAreLive, Owning
    <3>8. QED
      BY <3>5, <3>6, <3>7
  <2>2. CASE /\ art' = [art EXCEPT ![h] = [path |-> NoPath, temporary |-> TRUE]]
             /\ UNCHANGED files
    <3>1. live' = live \cup {h} /\ h \notin live
      BY <1>1 DEF ConstructTemporary
    <3>2. TypeOK'
      BY <2>2, <3>1
    <3>3. OwnersAreLive'
      BY <2>2, <3>1 DEF OwnersAreLive
    <3>4. Exclusive'
      BY <2>2, <3>1 DEF Exclusive, OwnersAreLive, Owning
    <3>5. QED
      BY <3>2, <3>3, <3>4
  <2>3. QED
    BY <1>1, <2>1, <2>2 DEF ConstructTemporary
<1>2. ASSUME NEW h \in Handles, ConstructDefault(h)
      PROVE  (TypeOK /\ OwnersAreLive /\ Exclusive)'
  <2>1. TypeOK'
    BY <1>2 DEF ConstructDefault
  <2>2. OwnersAreLive'
    BY <1>2 DEF ConstructDefault, OwnersAreLive
  <2>3. Exclusive'
    BY <1>2 DEF ConstructDefault, OwnersAreLive, Exclusive, Owning
  <2>4. QED
    BY <2>1, <2>2, <2>3
<1>3. ASSUME NEW h \in Handles, Destroy(h)
      PROVE  (TypeOK /\ OwnersAreLive /\ Exclusive)'
  <2>1. TypeOK'
    BY <1>3 DEF Destroy, Deletes
  <2>2. OwnersAreLive'
    BY <1>3 DEF Destroy, OwnersAreLive
  <2>3. Exclusive'
    BY <1>3 DEF Destroy, OwnersAreLive, Exclusive, Owning, Deletes
  <2>4. QED
    BY <2>1, <2>2, <2>3
<1>4. ASSUME NEW h \in Handles, ToolWrites(h)
      PROVE  (TypeOK /\ OwnersAreLive /\ Exclusive)'
  <2>1. TypeOK'
    BY <1>4 DEF ToolWrites
  <2>2. OwnersAreLive'
    BY <1>4 DEF ToolWrites, OwnersAreLive
  <2>3. Exclusive'
    BY <1>4 DEF ToolWrites, OwnersAreLive, Exclusive, Owning
  <2>4. QED
    BY <2>1, <2>2, <2>3
<1>5. ASSUME NEW h \in Handles, NEW f \in NamedFiles, ConstructNamed(h, f)
      PROVE  (TypeOK /\ OwnersAreLive /\ Exclusive)'
  <2>1. TypeOK'
    BY <1>5 DEF ConstructNamed
  <2>2. OwnersAreLive'
    BY <1>5 DEF ConstructNamed, OwnersAreLive
  <2>3. Exclusive'
    BY <1>5 DEF ConstructNamed, OwnersAreLive, Exclusive, Owning
  <2>4. QED
    BY <2>1, <2>2, <2>3
<1>6. ASSUME NEW h \in Handles, NEW g \in Handles, MoveConstruct(h, g)
      PROVE  (TypeOK /\ OwnersAreLive /\ Exclusive)'
  <2>1. TypeOK'
    BY <1>6 DEF MoveConstruct, MovedFrom
  <2>2. OwnersAreLive'
    BY <1>6 DEF MoveConstruct, MovedFrom, OwnersAreLive
  <2>3. Exclusive'
    BY <1>6 DEF MoveConstruct, MovedFrom, OwnersAreLive, Exclusive, Owning
  <2>4. QED
    BY <2>1, <2>2, <2>3
<1>7. ASSUME NEW h \in Handles, NEW g \in Handles, MoveAssign(h, g)
      PROVE  (TypeOK /\ OwnersAreLive /\ Exclusive)'
  <2>1. TypeOK'
    BY <1>7 DEF MoveAssign, MovedFrom, Deletes
  <2>2. OwnersAreLive'
    BY <1>7 DEF MoveAssign, MovedFrom, OwnersAreLive
  <2>3. Exclusive'
    BY <1>7 DEF MoveAssign, MovedFrom, OwnersAreLive, Exclusive, Owning, Deletes
  <2>4. QED
    BY <2>1, <2>2, <2>3
<1>8. CASE UNCHANGED vars
  BY <1>8 DEF vars, OwnersAreLive, Exclusive, Owning
<1>9. QED
  BY <1>1, <1>2, <1>3, <1>4, <1>5, <1>6, <1>7, <1>8 DEF Next

(* The inductive invariant holds throughout.                                *)
THEOREM InvHolds == Spec => []Inv
<1>1. TypeOK /\ OwnersAreLive /\ Exclusive <=> Inv
  BY ExclusiveIsExclusiveOwnership DEF Inv
<1>2. QED
  BY <1>1, InitInv, NextInv, PTL DEF Spec

(* At most one value, and one that is still alive, will ever delete a given *)
(* temporary file: nothing leaks and nothing is deleted twice.              *)
THEOREM ExclusiveOwnershipHolds == Spec => []ExclusiveOwnership
<1>1. Inv => ExclusiveOwnership
  BY DEF Inv
<1>2. QED
  BY <1>1, InvHolds, PTL

(* Ending or overwriting a value never deletes a requested output or a       *)
(* user-supplied input.                                                     *)
THEOREM NamedFilesStayHolds == Spec => NamedFilesStay
<1> DEFINE Keeps == (live' # live \/ art' # art) => (files \cap NamedFiles) \subseteq files'
<1>1. Inv /\ [Next]_vars => [Keeps]_vars
  <2> SUFFICES ASSUME Inv, [Next]_vars PROVE [Keeps]_vars
    OBVIOUS
  <2>1. \A h \in Handles : Deletes(art[h]) \cap NamedFiles = {}
    BY PathsAssumption DEF Inv, OwnersAreLive, Deletes
  <2>2. CASE UNCHANGED vars
    BY <2>2
  <2>3. ASSUME NEW h \in Handles, ConstructTemporary(h) \/ ConstructDefault(h)
        PROVE  Keeps
    BY <2>3 DEF ConstructTemporary, ConstructDefault
  <2>4. ASSUME NEW h \in Handles, Destroy(h) PROVE Keeps
    BY <2>4, <2>1 DEF Destroy
  <2>5. ASSUME NEW h \in Handles, ToolWrites(h) PROVE Keeps
    BY <2>5 DEF ToolWrites
  <2>6. ASSUME NEW h \in Handles, NEW f \in NamedFiles, ConstructNamed(h, f) PROVE Keeps
    BY <2>6 DEF ConstructNamed
  <2>7. ASSUME NEW h \in Handles, NEW g \in Handles, MoveConstruct(h, g) PROVE Keeps
    BY <2>7 DEF MoveConstruct
  <2>8. ASSUME NEW h \in Handles, NEW g \in Handles, MoveAssign(h, g) PROVE Keeps
    BY <2>8, <2>1 DEF MoveAssign
  <2>9. QED
    BY <2>2, <2>3, <2>4, <2>5, <2>6, <2>7, <2>8 DEF Next
<1>2. QED
  BY <1>1, InvHolds, PTL DEF Spec, NamedFilesStay

-----------------------------------------------------------------------------
(* The refinement of TempOwnership.  The owner that the mapping chooses is   *)
(* the one handle that owns the file, so that every step can be mapped by   *)
(* looking at what the handles own before and after it.                     *)

(* OwnerOf picks the handle that owns f, and NoPath where there is none.     *)
OwnersAreChosen ==
  \A f \in TempFiles :
    /\ OwnerOf(f) \in Handles \cup {NoPath}
    /\ \A h \in Handles : OwnerOf(f) = h <=> Owning(h, f)
    /\ OwnerOf(f) = NoPath <=> \A h \in Handles : ~Owning(h, f)

(* The mapped owner is the owning handle, given exclusive ownership.         *)
LEMMA OwnerIsOwning == TypeOK /\ Exclusive => OwnersAreChosen
<1> SUFFICES ASSUME TypeOK, Exclusive, NEW f \in TempFiles
             PROVE  /\ OwnerOf(f) \in Handles \cup {NoPath}
                    /\ \A h \in Handles : OwnerOf(f) = h <=> Owning(h, f)
                    /\ OwnerOf(f) = NoPath <=> \A h \in Handles : ~Owning(h, f)
  BY DEF OwnersAreChosen
<1>1. \A h \in Handles : h \in Owners(f) <=> Owning(h, f)
  BY OwningIsOwners
<1>2. Owners(f) \subseteq Handles
  BY DEF Owners
<1>3. \A g, h \in Handles : Owning(g, f) /\ Owning(h, f) => g = h
  BY DEF Exclusive
<1>4. CASE Owners(f) = {}
  BY <1>1, <1>4, PathsAssumption DEF OwnerOf
<1>5. CASE Owners(f) # {}
  <2>1. PICK h \in Handles : h \in Owners(f)
    BY <1>2, <1>5
  <2>2. OwnerOf(f) = CHOOSE g \in Handles : g \in Owners(f)
    BY <1>5 DEF OwnerOf
  <2>3. OwnerOf(f) \in Handles /\ OwnerOf(f) \in Owners(f)
    BY <2>1, <2>2
  <2>4. QED
    BY <2>3, <1>1, <1>3, PathsAssumption
<1>6. QED
  BY <1>4, <1>5

(* The mapped variables.                                                    *)
OwnerBar == [f \in TempFiles |-> OwnerOf(f)]
PresentBar == files \cap TempFiles

(* Every constructor, move and destructor is a step of the promise, or none   *)
(* of its steps: no file changes hands.                                     *)
LEMMA StepImplements ==
  ASSUME TypeOK, OwnersAreLive, OwnersAreChosen, OwnersAreChosen', [Next]_vars
  PROVE  [Ownership!Next]_<<OwnerBar, PresentBar>>
<1> USE PathsAssumption DEF TypeOK, Values, Paths, Empty
<1> DEFINE Mapped == [Ownership!Next]_<<OwnerBar, PresentBar>>
<1>0. /\ \A f \in TempFiles : OwnerBar[f] = OwnerOf(f) /\ OwnerBar'[f] = OwnerOf(f)'
      /\ OwnerBar = [f \in TempFiles |-> OwnerOf(f)]
      /\ OwnerBar' = [f \in TempFiles |-> OwnerOf(f)']
  BY DEF OwnerBar
<1>1. \A h \in Handles, f \in TempFiles :
        /\ OwnerBar[f] = h <=> Owning(h, f)
        /\ OwnerBar'[f] = h <=> Owning(h, f)'
  BY <1>0 DEF OwnersAreChosen
<1>2. \A f \in TempFiles : /\ OwnerBar[f] \in Handles \cup {NoPath}
                          /\ OwnerBar'[f] \in Handles \cup {NoPath}
  BY <1>0 DEF OwnersAreChosen
<1>3. ASSUME NEW o, \A f \in TempFiles : OwnerBar'[f] = o[f],
             DOMAIN o = TempFiles, o = [f \in DOMAIN o |-> o[f]]
      PROVE  OwnerBar' = o
  BY <1>0, <1>3
<1>4. ASSUME \A h \in Handles, f \in TempFiles : Owning(h, f)' <=> Owning(h, f)
      PROVE  OwnerBar' = OwnerBar
  BY <1>0, <1>1, <1>2, <1>4
<1> HIDE DEF Mapped
<1>5. ASSUME NEW h \in Handles, ConstructTemporary(h) PROVE Mapped
  <2>1. \A f \in TempFiles : ~Owning(h, f)
    BY <1>5 DEF ConstructTemporary, OwnersAreLive, Owning
  <2>2. ASSUME NEW f \in TempFiles, FreshName(f),
               art' = [art EXCEPT ![h] = [path |-> f, temporary |-> TRUE]],
               files' = files \cup {f}
        PROVE  Mapped
    <3>1. \A g \in Handles : ~Owning(g, f)
      BY <2>2, OwningIsOwners DEF FreshName
    <3>2. OwnerBar[f] = NoPath /\ f \notin PresentBar
      BY <1>1, <1>2, <3>1, <2>2 DEF FreshName, PresentBar
    <3>3. \A g \in Handles, e \in TempFiles : Owning(g, e)' <=> Owning(g, e) \/ (g = h /\ e = f)
      BY <2>1, <2>2 DEF Owning
    <3>4. \A e \in TempFiles : OwnerBar'[e] = [OwnerBar EXCEPT ![f] = h][e]
      BY <1>0, <1>1, <1>2, <3>1, <3>3
    <3>5. OwnerBar' = [OwnerBar EXCEPT ![f] = h]
      BY <1>0, <1>3, <3>4
    <3>6. PresentBar' = PresentBar \cup {f}
      BY <2>2 DEF PresentBar
    <3>7. \A e \in TempFiles : OwnerBar[e] # h
      BY <1>1, <2>1
    <3>8. Ownership!Acquire(h, f)
      BY <3>2, <3>5, <3>6, <3>7 DEF Ownership!Acquire, Ownership!OwnsNothing, OwnerBar, PresentBar
    <3>9. QED
      BY <3>8 DEF Mapped, Ownership!Next
  <2>3. CASE /\ art' = [art EXCEPT ![h] = [path |-> NoPath, temporary |-> TRUE]]
             /\ UNCHANGED files
    <3>1. \A g \in Handles, f \in TempFiles : Owning(g, f)' <=> Owning(g, f)
      BY <2>1, <2>3 DEF Owning
    <3>2. QED
      BY <3>1, <2>3, <1>4 DEF Mapped, PresentBar
  <2>4. QED
    BY <1>5, <2>2, <2>3 DEF ConstructTemporary
<1>6. ASSUME NEW h \in Handles,
             ConstructDefault(h) \/ \E f \in NamedFiles : ConstructNamed(h, f)
      PROVE  Mapped
  <2>1. h \notin live /\ UNCHANGED files
    BY <1>6 DEF ConstructDefault, ConstructNamed
  <2>2. art' = [art EXCEPT ![h] = art'[h]] /\ ~art'[h].temporary
    BY <1>6 DEF ConstructDefault, ConstructNamed
  <2>3. \A g \in Handles, f \in TempFiles : Owning(g, f)' <=> Owning(g, f)
    BY <2>1, <2>2 DEF Owning, OwnersAreLive
  <2>4. QED
    BY <2>1, <2>3, <1>4 DEF Mapped, PresentBar
<1>7. ASSUME NEW h \in Handles, NEW g \in Handles, MoveConstruct(h, g) PROVE Mapped
  <2>1. h # g /\ PresentBar' = PresentBar
    BY <1>7 DEF MoveConstruct, PresentBar
  <2>2. \A f \in TempFiles : ~Owning(h, f)
    BY <1>7 DEF MoveConstruct, OwnersAreLive, Owning
  <2>3. /\ \A f \in TempFiles : Owning(h, f)' <=> Owning(g, f)
        /\ \A f \in TempFiles : ~Owning(g, f)'
        /\ \A k \in Handles \ {g, h}, f \in TempFiles : Owning(k, f)' <=> Owning(k, f)
    BY <1>7, <2>1 DEF MoveConstruct, MovedFrom, Owning
  <2>4. ASSUME NEW f \in TempFiles, Owning(g, f) PROVE Mapped
    <3>1. OwnerBar[f] = g /\ g # NoPath
      BY <1>1, <2>4
    <3>2. \A e \in TempFiles \ {f} : ~Owning(g, e)
      BY <2>4 DEF Owning
    <3>3. \A e \in TempFiles : OwnerBar'[e] = [OwnerBar EXCEPT ![f] = h][e]
      BY <1>0, <1>1, <1>2, <2>1, <2>2, <2>3, <2>4, <3>2
    <3>4. OwnerBar' = [OwnerBar EXCEPT ![f] = h]
      BY <1>0, <1>3, <3>3
    <3>5. \A e \in TempFiles : OwnerBar[e] # h
      BY <1>1, <2>2
    <3>6. Ownership!Pass(f, h)
      BY <2>1, <3>1, <3>4, <3>5 DEF Ownership!Pass, Ownership!OwnsNothing, OwnerBar, PresentBar
    <3>7. QED
      BY <3>6 DEF Mapped, Ownership!Next
  <2>5. CASE \A f \in TempFiles : ~Owning(g, f)
    BY <2>1, <2>2, <2>3, <2>5, <1>4 DEF Mapped
  <2>6. QED
    BY <2>4, <2>5
<1>8. ASSUME NEW h \in Handles, NEW g \in Handles, MoveAssign(h, g) PROVE Mapped
  <2>1. h # g /\ PresentBar' = PresentBar \ Deletes(art[h])
    BY <1>8 DEF MoveAssign, PresentBar
  <2>2. /\ \A f \in TempFiles : Owning(h, f)' <=> Owning(g, f)
        /\ \A f \in TempFiles : ~Owning(g, f)'
        /\ \A k \in Handles \ {g, h}, f \in TempFiles : Owning(k, f)' <=> Owning(k, f)
    BY <1>8, <2>1 DEF MoveAssign, MovedFrom, Owning
  <2>3. \A k \in Handles, f \in TempFiles : Owning(k, f) => Deletes(art[k]) = {f}
    BY DEF Owning, Deletes
  <2>4. \A k \in Handles : (\A f \in TempFiles : ~Owning(k, f)) => Deletes(art[k]) = {}
    BY DEF Owning, Deletes, OwnersAreLive
  <2>5. \A k \in Handles, e, f \in TempFiles : Owning(k, e) /\ Owning(k, f) => e = f
    BY DEF Owning
  <2>6. ASSUME NEW e \in TempFiles, Owning(h, e), NEW f \in TempFiles, Owning(g, f)
        PROVE  Mapped
    <3>1. OwnerBar[e] = h /\ OwnerBar[f] = g /\ e # f
      BY <1>1, <2>1, <2>6
    <3>2. \A d \in TempFiles :
            OwnerBar'[d] = [OwnerBar EXCEPT ![f] = OwnerBar[e], ![e] = NoPath][d]
      BY <1>0, <1>1, <1>2, <2>1, <2>2, <2>5, <2>6, <3>1
    <3>3. OwnerBar' = [OwnerBar EXCEPT ![f] = OwnerBar[e], ![e] = NoPath]
      BY <1>0, <1>3, <3>2
    <3>4. PresentBar' = PresentBar \ {e}
      BY <2>1, <2>3, <2>6
    <3>5. Ownership!Replace(e, f)
      BY <3>1, <3>3, <3>4 DEF Ownership!Replace, OwnerBar, PresentBar
    <3>6. QED
      BY <3>5 DEF Mapped, Ownership!Next
  <2>7. ASSUME NEW e \in TempFiles, Owning(h, e), \A f \in TempFiles : ~Owning(g, f)
        PROVE  Mapped
    <3>1. OwnerBar[e] = h
      BY <1>1, <2>7
    <3>2. \A d \in TempFiles : OwnerBar'[d] = [OwnerBar EXCEPT ![e] = NoPath][d]
      BY <1>0, <1>1, <1>2, <2>1, <2>2, <2>5, <2>7, <3>1
    <3>3. OwnerBar' = [OwnerBar EXCEPT ![e] = NoPath]
      BY <1>0, <1>3, <3>2
    <3>4. PresentBar' = PresentBar \ {e}
      BY <2>1, <2>3, <2>7
    <3>5. Ownership!Release(e)
      BY <3>1, <3>3, <3>4 DEF Ownership!Release, OwnerBar, PresentBar
    <3>6. QED
      BY <3>5 DEF Mapped, Ownership!Next
  <2>8. ASSUME \A e \in TempFiles : ~Owning(h, e), NEW f \in TempFiles, Owning(g, f)
        PROVE  Mapped
    <3>1. OwnerBar[f] = g /\ \A e \in TempFiles : OwnerBar[e] # h
      BY <1>1, <2>8
    <3>2. \A d \in TempFiles : OwnerBar'[d] = [OwnerBar EXCEPT ![f] = h][d]
      BY <1>0, <1>1, <1>2, <2>1, <2>2, <2>5, <2>8, <3>1
    <3>3. OwnerBar' = [OwnerBar EXCEPT ![f] = h]
      BY <1>0, <1>3, <3>2
    <3>4. PresentBar' = PresentBar
      BY <2>1, <2>4, <2>8
    <3>5. Ownership!Pass(f, h)
      BY <3>1, <3>3, <3>4 DEF Ownership!Pass, Ownership!OwnsNothing, OwnerBar, PresentBar
    <3>6. QED
      BY <3>5 DEF Mapped, Ownership!Next
  <2>9. CASE \A f \in TempFiles : ~Owning(h, f) /\ ~Owning(g, f)
    <3>1. PresentBar' = PresentBar
      BY <2>1, <2>4, <2>9
    <3>2. QED
      BY <3>1, <2>2, <2>9, <1>4 DEF Mapped
  <2>10. QED
    BY <2>6, <2>7, <2>8, <2>9
<1>9. ASSUME NEW h \in Handles, Destroy(h) PROVE Mapped
  <2>1. PresentBar' = PresentBar \ Deletes(art[h])
    BY <1>9 DEF Destroy, PresentBar
  <2>2. \A k \in Handles, f \in TempFiles : Owning(k, f)' <=> Owning(k, f) /\ k # h
    BY <1>9 DEF Destroy, Owning
  <2>3. ASSUME NEW f \in TempFiles, Owning(h, f) PROVE Mapped
    <3>1. OwnerBar[f] = h
      BY <1>1, <2>3
    <3>2. \A e \in TempFiles \ {f} : ~Owning(h, e)
      BY <2>3 DEF Owning
    <3>3. \A e \in TempFiles : OwnerBar'[e] = [OwnerBar EXCEPT ![f] = NoPath][e]
      BY <1>0, <1>1, <1>2, <2>2, <2>3, <3>1, <3>2
    <3>4. OwnerBar' = [OwnerBar EXCEPT ![f] = NoPath]
      BY <1>0, <1>3, <3>3
    <3>5. Deletes(art[h]) = {f}
      BY <2>3 DEF Owning, Deletes
    <3>6. Ownership!Release(f)
      BY <2>1, <3>1, <3>4, <3>5 DEF Ownership!Release, OwnerBar, PresentBar
    <3>7. QED
      BY <3>6 DEF Mapped, Ownership!Next
  <2>4. CASE \A f \in TempFiles : ~Owning(h, f)
    <3>1. Deletes(art[h]) = {}
      BY <2>4 DEF Owning, Deletes, OwnersAreLive
    <3>2. QED
      BY <3>1, <2>1, <2>2, <2>4, <1>4 DEF Mapped
  <2>5. QED
    BY <2>3, <2>4
<1>10. ASSUME NEW h \in Handles, ToolWrites(h) PROVE Mapped
  <2>1. OwnerBar' = OwnerBar
    BY <1>4, <1>10 DEF ToolWrites, Owning
  <2>2. CASE art[h].path \in TempFiles
    <3>1. Owning(h, art[h].path)
      BY <2>2 DEF Owning, OwnersAreLive
    <3>2. OwnerBar[art[h].path] # NoPath
      BY <1>1, <2>2, <3>1
    <3>3. PresentBar' \in {PresentBar \cup {art[h].path}, PresentBar \ {art[h].path}}
      BY <1>10, <2>2 DEF ToolWrites, PresentBar
    <3>4. Ownership!ToolTouches(art[h].path)
      BY <2>1, <3>2, <3>3 DEF Ownership!ToolTouches, OwnerBar, PresentBar
    <3>5. QED
      BY <2>2, <3>4 DEF Mapped, Ownership!Next
  <2>3. CASE art[h].path \notin TempFiles
    BY <1>10, <2>1, <2>3 DEF ToolWrites, PresentBar, Mapped
  <2>4. QED
    BY <2>2, <2>3
<1>11. CASE UNCHANGED vars
  BY <1>4, <1>11 DEF vars, Owning, Mapped, PresentBar
<1>12. QED
  BY <1>5, <1>6, <1>7, <1>8, <1>9, <1>10, <1>11 DEF Next, Mapped

(* The C++ value type keeps the ownership promise: a temporary file appears   *)
(* with its one owner, is handed on and never shared, and goes with it.      *)
THEOREM ImplementsOwnershipHolds == Spec => ImplementsOwnership
<1>1. Init => Ownership!Init
  <2> SUFFICES ASSUME Init PROVE Ownership!Init
    OBVIOUS
  <2>1. \A f \in TempFiles : Owners(f) = {}
    BY PathsAssumption DEF Init, Owners, Deletes, Empty
  <2>2. files \cap TempFiles = {}
    BY PathsAssumption DEF Init
  <2>3. QED
    BY <2>1, <2>2 DEF Ownership!Init, OwnerOf
<1>2. Inv => TypeOK /\ OwnersAreLive /\ OwnersAreChosen
  BY OwnerIsOwning, ExclusiveIsExclusiveOwnership DEF Inv
<1>3. TypeOK /\ OwnersAreLive /\ OwnersAreChosen /\ OwnersAreChosen' /\ [Next]_vars
        => [Ownership!Next]_<<OwnerBar, PresentBar>>
  BY StepImplements
<1>4. [Ownership!Next]_<<OwnerBar, PresentBar>> <=> [Ownership!Next]_(Ownership!vars)
  BY DEF OwnerBar, PresentBar, Ownership!vars
<1>5. QED
  BY <1>1, <1>2, <1>3, <1>4, InvHolds, PTL DEF Spec, ImplementsOwnership, Ownership!Spec
=============================================================================

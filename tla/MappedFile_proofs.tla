------------------------- MODULE MappedFile_proofs -------------------------
(***************************************************************************)
(* Proofs about MappedFile, for any processes, pages and contents.  While  *)
(* no process is suspect, a clear flag vouches for the file (ClearExact)   *)
(* and whoever holds the lock works on a file that began as the saved one  *)
(* (HolderExact).  The way back from a file that has grown is the other    *)
(* half: the only suspect, if its look at the flag is still good, is the   *)
(* only one to have written (GrowerExact).                                 *)
(***************************************************************************)
EXTENDS MappedFile, TLAPS

Holding == Using \union {"loading", "saving"}

(* The pages done of a copy or an update.                                  *)
Done(p, c, d) == \A g \in Page \ todo[p] : c[g] = d[g]

(* A file is created by one process at a time, before it has a header.     *)
OneCreator ==
  \A p \in Proc : st[p] = "creating" =>
    kind = "blank" /\ \A q \in Proc : st[q] = "creating" => p = q

GrowersSuspect == \A p \in Proc : st[p] = "growing" => p \in suspect

(* The file is closed, complete and the one that was saved.                *)
Closed == kind = "formatted" /\ ~dirty /\ lock = NoProc

ClearExact ==
  suspect = {} =>
    /\ lock # NoProc => kind = "formatted" /\ dirty
    /\ Closed => cache = saved /\ disk = saved /\ image = saved /\ saved \in Image

(* What a process has seen of the flag is still so, unless it is stale.    *)
LooksGood ==
  suspect = {} => \A p \in Proc \ stale :
    /\ st[p] = "checked" => kind = "absent" \/ Closed
    /\ st[p] = "sized" => Closed

HolderExact ==
  suspect = {} => \A p \in Proc :
    /\ st[p] \in Holding => image \in Image
    /\ st[p] = "loading" => cache = saved /\ image = saved /\ Done(p, heap[p], cache)
    /\ st[p] = "mapped" => cache = image
    /\ st[p] = "updating_mapped" => Done(p, cache, image)
    /\ st[p] = "heap" => heap[p] = image
    /\ st[p] = "updating_heap" => Done(p, heap[p], image)
    /\ st[p] = "saving" => heap[p] = image /\ Done(p, cache, image)

GrowerExact ==
  \A p \in Proc \ stale : suspect = {p} =>
    /\ st[p] \in {"idle", "growing", "sized"}
    /\ st[p] # "idle" => Closed /\ image \in Image
    /\ st[p] = "growing" => Done(p, cache, image)
    /\ st[p] = "sized" => cache = saved /\ image = saved

(* The inductive invariant.                                                *)
FileInv ==
  /\ TypeOK /\ OneCreator /\ GrowersSuspect
  /\ ClearExact /\ LooksGood /\ HolderExact /\ GrowerExact
-----------------------------------------------------------------------------
(* Each action preserves the invariant, part by part.                      *)

(* A process that begins to use the file and leaves nobody suspect had     *)
(* looked at the flag in time, and nobody but itself had grown the file.   *)
LEMMA BeginClean ==
  ASSUME NEW p, Begin(p), suspect' = {}
  PROVE  p \notin stale /\ (suspect = {} \/ suspect = {p})
<1>1. p \notin suspect'
  OBVIOUS
<1>2. ~(p \in stale \/ suspect \ {p} # {})
  BY <1>1 DEF Begin
<1>3. \A q \in suspect : q = p
  BY <1>2
<1>4. QED
  BY <1>2, <1>3

LEMMA CheckHeaderStep ==
  ASSUME FileInv, NEW p \in Proc, CheckHeader(p)
  PROVE  FileInv'
<1> USE FileAssumption DEF FileInv, TypeOK, CheckHeader, Goto, Look, history,
      Using, Holding, Image, Content, Zeros, Zero, Closed
<1>1. TypeOK'
  OBVIOUS
<1>2. OneCreator'
  BY DEF OneCreator
<1>3. GrowersSuspect'
  BY DEF GrowersSuspect
<1>4. ClearExact'
  BY DEF ClearExact
<1>5. LooksGood'
  BY DEF LooksGood, ClearExact
<1>6. HolderExact'
  BY DEF HolderExact, Done
<1>7. GrowerExact'
  BY DEF GrowerExact, Done
<1>8. QED
  BY <1>1, <1>2, <1>3, <1>4, <1>5, <1>6, <1>7 DEF FileInv

LEMMA CreateStep ==
  ASSUME FileInv, NEW p \in Proc, Create(p)
  PROVE  FileInv'
<1> USE FileAssumption DEF FileInv, TypeOK, Create, Goto, Touch, history,
      Using, Holding, Image, Content, Zeros, Zero, Closed
<1>1. TypeOK'
  OBVIOUS
<1>2. OneCreator'
  BY DEF OneCreator
<1>3. GrowersSuspect'
  BY DEF GrowersSuspect
<1>4. ClearExact'
  BY DEF ClearExact
<1>5. LooksGood'
  BY DEF LooksGood
<1>6. HolderExact'
  BY DEF HolderExact, Done, ClearExact, LooksGood
<1>7. GrowerExact'
  BY DEF GrowerExact, Done
<1>8. QED
  BY <1>1, <1>2, <1>3, <1>4, <1>5, <1>6, <1>7 DEF FileInv

LEMMA FormatStep ==
  ASSUME FileInv, NEW p \in Proc, Format(p)
  PROVE  FileInv'
<1> USE FileAssumption DEF FileInv, TypeOK, Format, Goto, Touch, history,
      Using, Holding, Image, Content, Zeros, Zero, Closed
<1>1. TypeOK'
  <2>1. PICK i \in Image : cache' = i /\ disk' = i /\ image' = i /\ saved' = i
    OBVIOUS
  <2>2. i \in Content
    OBVIOUS
  <2>3. lock' \in Proc \union {NoProc} /\ \A q \in Proc : lock' = q <=> st'[q] \in Holding
    OBVIOUS
  <2>4. QED
    BY <2>1, <2>2, <2>3
<1>2. OneCreator'
  BY DEF OneCreator
<1>3. GrowersSuspect'
  BY DEF GrowersSuspect
<1>4. ClearExact'
  BY DEF ClearExact, LooksGood, OneCreator, GrowersSuspect, HolderExact, GrowerExact, Done
<1>5. LooksGood'
  BY DEF LooksGood, ClearExact, OneCreator, GrowersSuspect, HolderExact, GrowerExact, Done
<1>6. HolderExact'
  BY DEF HolderExact, Done, ClearExact, LooksGood, OneCreator, GrowersSuspect, GrowerExact
<1>7. GrowerExact'
  BY DEF GrowerExact, Done
<1>8. QED
  BY <1>1, <1>2, <1>3, <1>4, <1>5, <1>6, <1>7 DEF FileInv

LEMMA MapFileStep ==
  ASSUME FileInv, NEW p \in Proc, MapFile(p)
  PROVE  FileInv'
<1> USE FileAssumption DEF FileInv, TypeOK, MapFile, Goto, Touch, history,
      Using, Holding, Image, Content, Zeros, Zero, Closed
<1>1. TypeOK'
  OBVIOUS
<1>2. OneCreator'
  BY DEF OneCreator
<1>3. GrowersSuspect'
  BY DEF GrowersSuspect
<1>4. ClearExact'
  BY DEF ClearExact
<1>5. LooksGood'
  BY DEF LooksGood
<1>6. HolderExact'
  BY DEF HolderExact, Done
<1>7. GrowerExact'
  BY DEF GrowerExact, Done, ClearExact, LooksGood
<1>8. QED
  BY <1>1, <1>2, <1>3, <1>4, <1>5, <1>6, <1>7 DEF FileInv

LEMMA TryLockStep ==
  ASSUME FileInv, NEW p \in Proc, TryLock(p)
  PROVE  FileInv'
<1> USE FileAssumption DEF FileInv, TypeOK, TryLock, Goto, Touch, Begin, history,
      Using, Holding, Image, Content, Zeros, Zero, Closed
<1>1. TypeOK'
  BY DEF ClearExact, LooksGood, OneCreator, GrowersSuspect, HolderExact, GrowerExact, Done
<1>2. OneCreator'
  BY DEF OneCreator
<1>3. GrowersSuspect'
  BY DEF GrowersSuspect
<1>4. ClearExact'
  <2>1. suspect' = {} => Closed
    BY BeginClean DEF LooksGood, GrowerExact
  <2>2. lock' # NoProc
    OBVIOUS
  <2>3. QED
    BY <2>1, <2>2 DEF ClearExact
<1>5. LooksGood'
  BY DEF LooksGood
<1>6. HolderExact'
  <2>1. SUFFICES ASSUME suspect' = {}
                 PROVE  HolderExact'
    BY DEF HolderExact
  <2>2. p \notin stale /\ (suspect = {} \/ suspect = {p})
    BY <2>1, BeginClean
  <2>3. Closed /\ cache = saved /\ image = saved /\ image \in Image
    BY <2>2 DEF LooksGood, GrowerExact, ClearExact
  <2>4. \A q \in Proc : st'[q] \in Holding => q = p
    BY <2>3
  <2>5. st'[p] \in {"mapped", "loading"} /\ (st'[p] = "loading" => todo'[p] = Page)
    OBVIOUS
  <2>6. QED
    BY <2>3, <2>4, <2>5 DEF HolderExact, Done
<1>7. GrowerExact'
  BY DEF GrowerExact, Done
<1>8. QED
  BY <1>1, <1>2, <1>3, <1>4, <1>5, <1>6, <1>7 DEF FileInv

LEMMA LockFailsStep ==
  ASSUME FileInv, NEW p \in Proc, LockFails(p)
  PROVE  FileInv'
<1> USE FileAssumption DEF FileInv, TypeOK, LockFails, Goto, history,
      Using, Holding, Image, Content, Zeros, Zero, Closed
<1>1. TypeOK'
  OBVIOUS
<1>2. OneCreator'
  BY DEF OneCreator
<1>3. GrowersSuspect'
  BY DEF GrowersSuspect
<1>4. ClearExact'
  BY DEF ClearExact
<1>5. LooksGood'
  BY DEF LooksGood
<1>6. HolderExact'
  BY DEF HolderExact, Done
<1>7. GrowerExact'
  BY DEF GrowerExact, Done
<1>8. QED
  BY <1>1, <1>2, <1>3, <1>4, <1>5, <1>6, <1>7 DEF FileInv

LEMMA AbortLoadStep ==
  ASSUME FileInv, NEW p \in Proc, AbortLoad(p)
  PROVE  FileInv'
<1> USE FileAssumption DEF FileInv, TypeOK, AbortLoad, Goto, Vouch, history,
      Using, Holding, Image, Content, Zeros, Zero, Closed
<1>1. TypeOK'
  OBVIOUS
<1>2. OneCreator'
  BY DEF OneCreator
<1>3. GrowersSuspect'
  BY DEF GrowersSuspect
<1>4. ClearExact'
  BY DEF ClearExact, LooksGood, OneCreator, GrowersSuspect, HolderExact, GrowerExact, Done
<1>5. LooksGood'
  BY DEF LooksGood, ClearExact
<1>6. HolderExact'
  BY DEF HolderExact, Done
<1>7. GrowerExact'
  BY DEF GrowerExact, Done
<1>8. QED
  BY <1>1, <1>2, <1>3, <1>4, <1>5, <1>6, <1>7 DEF FileInv

LEMMA BeginUpdateStep ==
  ASSUME FileInv, NEW p \in Proc, BeginUpdate(p)
  PROVE  FileInv'
<1> USE FileAssumption DEF FileInv, TypeOK, BeginUpdate, Goto, history,
      Using, Holding, Image, Content, Zeros, Zero, Closed
<1>1. TypeOK'
  OBVIOUS
<1>2. OneCreator'
  BY DEF OneCreator
<1>3. GrowersSuspect'
  BY DEF GrowersSuspect
<1>4. ClearExact'
  BY DEF ClearExact
<1>5. LooksGood'
  BY DEF LooksGood
<1>6. HolderExact'
  BY DEF HolderExact, Done
<1>7. GrowerExact'
  BY DEF GrowerExact, Done
<1>8. QED
  BY <1>1, <1>2, <1>3, <1>4, <1>5, <1>6, <1>7 DEF FileInv

LEMMA CloseMappedStep ==
  ASSUME FileInv, NEW p \in Proc, CloseMapped(p)
  PROVE  FileInv'
<1> USE FileAssumption DEF FileInv, TypeOK, CloseMapped, Goto, Vouch, Flush, history,
      Using, Holding, Image, Content, Zeros, Zero, Closed
<1>1. TypeOK'
  OBVIOUS
<1>2. OneCreator'
  BY DEF OneCreator
<1>3. GrowersSuspect'
  BY DEF GrowersSuspect
<1>4. ClearExact'
  BY DEF ClearExact, LooksGood, OneCreator, GrowersSuspect, HolderExact, GrowerExact, Done
<1>5. LooksGood'
  BY DEF LooksGood, ClearExact
<1>6. HolderExact'
  BY DEF HolderExact, Done
<1>7. GrowerExact'
  BY DEF GrowerExact, Done
<1>8. QED
  BY <1>1, <1>2, <1>3, <1>4, <1>5, <1>6, <1>7 DEF FileInv

LEMMA BeginSaveStep ==
  ASSUME FileInv, NEW p \in Proc, BeginSave(p)
  PROVE  FileInv'
<1> USE FileAssumption DEF FileInv, TypeOK, BeginSave, Goto, history,
      Using, Holding, Image, Content, Zeros, Zero, Closed
<1>1. TypeOK'
  OBVIOUS
<1>2. OneCreator'
  BY DEF OneCreator
<1>3. GrowersSuspect'
  BY DEF GrowersSuspect
<1>4. ClearExact'
  BY DEF ClearExact
<1>5. LooksGood'
  BY DEF LooksGood
<1>6. HolderExact'
  BY DEF HolderExact, Done
<1>7. GrowerExact'
  BY DEF GrowerExact, Done
<1>8. QED
  BY <1>1, <1>2, <1>3, <1>4, <1>5, <1>6, <1>7 DEF FileInv

LEMMA EndSaveStep ==
  ASSUME FileInv, NEW p \in Proc, EndSave(p)
  PROVE  FileInv'
<1> USE FileAssumption DEF FileInv, TypeOK, EndSave, Goto, Vouch, Flush, history,
      Using, Holding, Image, Content, Zeros, Zero, Closed
<1>1. TypeOK'
  OBVIOUS
<1>2. OneCreator'
  BY DEF OneCreator
<1>3. GrowersSuspect'
  BY DEF GrowersSuspect
<1>4. ClearExact'
  BY DEF ClearExact, LooksGood, OneCreator, GrowersSuspect, HolderExact, GrowerExact, Done
<1>5. LooksGood'
  BY DEF LooksGood, ClearExact
<1>6. HolderExact'
  BY DEF HolderExact, Done
<1>7. GrowerExact'
  BY DEF GrowerExact, Done
<1>8. QED
  BY <1>1, <1>2, <1>3, <1>4, <1>5, <1>6, <1>7 DEF FileInv

LEMMA CrashStep ==
  ASSUME FileInv, NEW p \in Proc, Crash(p)
  PROVE  FileInv'
<1> USE FileAssumption DEF FileInv, TypeOK, Crash, Goto, history,
      Using, Holding, Image, Content, Zeros, Zero, Closed
<1>1. TypeOK'
  OBVIOUS
<1>2. OneCreator'
  BY DEF OneCreator
<1>3. GrowersSuspect'
  BY DEF GrowersSuspect
<1>4. ClearExact'
  BY DEF ClearExact
<1>5. LooksGood'
  BY DEF LooksGood
<1>6. HolderExact'
  BY DEF HolderExact, Done
<1>7. GrowerExact'
  BY DEF GrowerExact, Done
<1>8. QED
  BY <1>1, <1>2, <1>3, <1>4, <1>5, <1>6, <1>7 DEF FileInv

LEMMA GrowPageStep ==
  ASSUME FileInv, NEW p \in Proc, NEW g \in Page, GrowPage(p, g)
  PROVE  FileInv'
<1> USE FileAssumption DEF FileInv, TypeOK, GrowPage, Goto, history,
      Using, Holding, Image, Content, Zeros, Zero, Closed
<1>1. TypeOK'
  OBVIOUS
<1>2. OneCreator'
  BY DEF OneCreator
<1>3. GrowersSuspect'
  BY DEF GrowersSuspect, ClearExact, LooksGood, OneCreator, HolderExact, GrowerExact, Done
<1>4. ClearExact'
  BY DEF ClearExact
<1>5. LooksGood'
  BY DEF LooksGood, ClearExact, OneCreator, GrowersSuspect, HolderExact, GrowerExact, Done
<1>6. HolderExact'
  BY DEF HolderExact, Done
<1>7. GrowerExact'
  BY DEF GrowerExact, Done
<1>8. QED
  BY <1>1, <1>2, <1>3, <1>4, <1>5, <1>6, <1>7 DEF FileInv

LEMMA LoadPageStep ==
  ASSUME FileInv, NEW p \in Proc, NEW g \in Page, LoadPage(p, g)
  PROVE  FileInv'
<1> USE FileAssumption DEF FileInv, TypeOK, LoadPage, Goto, history,
      Using, Holding, Image, Content, Zeros, Zero, Closed
<1>1. TypeOK'
  OBVIOUS
<1>2. OneCreator'
  BY DEF OneCreator
<1>3. GrowersSuspect'
  BY DEF GrowersSuspect
<1>4. ClearExact'
  BY DEF ClearExact
<1>5. LooksGood'
  BY DEF LooksGood
<1>6. HolderExact'
  BY DEF HolderExact, Done
<1>7. GrowerExact'
  BY DEF GrowerExact, Done
<1>8. QED
  BY <1>1, <1>2, <1>3, <1>4, <1>5, <1>6, <1>7 DEF FileInv

LEMMA UpdatePageStep ==
  ASSUME FileInv, NEW p \in Proc, NEW g \in Page, UpdatePage(p, g)
  PROVE  FileInv'
<1> USE FileAssumption DEF FileInv, TypeOK, UpdatePage, Goto, history,
      Using, Holding, Image, Content, Zeros, Zero, Closed
<1>1. TypeOK'
  <2>1. st' \in [Proc -> Using \union {"idle", "checked", "creating", "growing", "sized", "loading", "saving"}]
    OBVIOUS
  <2>2. \A q \in Proc : lock' = q <=> st'[q] \in Holding
    OBVIOUS
  <2>3. cache' \in Content /\ heap' \in [Proc -> Content] /\ todo' \in [Proc -> SUBSET Page]
    <3>1. image[g] \in Value \union {Zero} /\ heap[p] \in Content
      OBVIOUS
    <3>2. CASE st[p] = "updating_heap"
      <4>1. [heap[p] EXCEPT ![g] = image[g]] \in Content
        BY <3>1
      <4>2. heap' = [heap EXCEPT ![p] = [heap[p] EXCEPT ![g] = image[g]]]
        BY <3>2
      <4>3. QED
        BY <3>2, <4>1, <4>2
    <3>3. CASE st[p] # "updating_heap"
      BY <3>1, <3>3
    <3>4. QED
      BY <3>2, <3>3
  <2>4. QED
    BY <2>1, <2>2, <2>3
<1>2. OneCreator'
  BY DEF OneCreator
<1>3. GrowersSuspect'
  BY DEF GrowersSuspect
<1>4. ClearExact'
  BY DEF ClearExact
<1>5. LooksGood'
  BY DEF LooksGood
<1>6. HolderExact'
  BY DEF HolderExact, Done
<1>7. GrowerExact'
  BY DEF GrowerExact, Done
<1>8. QED
  BY <1>1, <1>2, <1>3, <1>4, <1>5, <1>6, <1>7 DEF FileInv

LEMMA SavePageStep ==
  ASSUME FileInv, NEW p \in Proc, NEW g \in Page, SavePage(p, g)
  PROVE  FileInv'
<1> USE FileAssumption DEF FileInv, TypeOK, SavePage, history,
      Using, Holding, Image, Content, Zeros, Zero, Closed
<1>1. TypeOK'
  OBVIOUS
<1>2. OneCreator'
  BY DEF OneCreator
<1>3. GrowersSuspect'
  BY DEF GrowersSuspect
<1>4. ClearExact'
  BY DEF ClearExact
<1>5. LooksGood'
  BY DEF LooksGood
<1>6. HolderExact'
  BY DEF HolderExact, Done
<1>7. GrowerExact'
  BY DEF GrowerExact, Done
<1>8. QED
  BY <1>1, <1>2, <1>3, <1>4, <1>5, <1>6, <1>7 DEF FileInv

LEMMA WriteBackStep ==
  ASSUME FileInv, NEW g \in Page, WriteBack(g)
  PROVE  FileInv'
<1> USE FileAssumption DEF FileInv, TypeOK, WriteBack, history,
      Using, Holding, Image, Content, Zeros, Zero, Closed
<1>1. TypeOK'
  OBVIOUS
<1>2. OneCreator'
  BY DEF OneCreator
<1>3. GrowersSuspect'
  BY DEF GrowersSuspect
<1>4. ClearExact'
  BY DEF ClearExact
<1>5. LooksGood'
  BY DEF LooksGood
<1>6. HolderExact'
  BY DEF HolderExact, Done
<1>7. GrowerExact'
  BY DEF GrowerExact, Done
<1>8. QED
  BY <1>1, <1>2, <1>3, <1>4, <1>5, <1>6, <1>7 DEF FileInv

LEMMA LosePowerStep ==
  ASSUME FileInv, LosePower
  PROVE  FileInv'
<1> USE FileAssumption DEF FileInv, TypeOK, LosePower, history,
      Using, Holding, Image, Content, Zeros, Zero, Closed
<1>1. TypeOK'
  OBVIOUS
<1>2. OneCreator'
  BY DEF OneCreator
<1>3. GrowersSuspect'
  BY DEF GrowersSuspect
<1>4. ClearExact'
  BY DEF ClearExact
<1>5. LooksGood'
  BY DEF LooksGood
<1>6. HolderExact'
  BY DEF HolderExact, Done
<1>7. GrowerExact'
  BY DEF GrowerExact, Done
<1>8. QED
  BY <1>1, <1>2, <1>3, <1>4, <1>5, <1>6, <1>7 DEF FileInv

LEMMA DeleteStep ==
  ASSUME FileInv, Delete
  PROVE  FileInv'
<1> USE FileAssumption DEF FileInv, TypeOK, Delete, history,
      Using, Holding, Image, Content, Zeros, Zero, Closed
<1>1. TypeOK'
  OBVIOUS
<1>2. OneCreator'
  BY DEF OneCreator
<1>3. GrowersSuspect'
  BY DEF GrowersSuspect
<1>4. ClearExact'
  BY DEF ClearExact
<1>5. LooksGood'
  BY DEF LooksGood
<1>6. HolderExact'
  BY DEF HolderExact, Done
<1>7. GrowerExact'
  BY DEF GrowerExact, Done
<1>8. QED
  BY <1>1, <1>2, <1>3, <1>4, <1>5, <1>6, <1>7 DEF FileInv
-----------------------------------------------------------------------------
(* The invariant holds in every reachable state.                           *)
LEMMA InitInv == Init => FileInv
<1> SUFFICES ASSUME Init PROVE FileInv
  OBVIOUS
<1>1. TypeOK
  BY FileAssumption DEF Init, TypeOK, Using, Content, Zeros
<1>2. \A p \in Proc : st[p] = "idle"
  BY DEF Init
<1>3. ~Closed /\ lock = NoProc /\ suspect = {}
  BY DEF Init, Closed
<1>4. QED
  BY <1>1, <1>2, <1>3 DEF FileInv, OneCreator, GrowersSuspect, ClearExact, LooksGood, HolderExact,
     GrowerExact, Using, Holding

LEMMA StutterInv == ASSUME FileInv, UNCHANGED vars PROVE FileInv'
  BY DEF vars, FileInv, TypeOK, OneCreator, GrowersSuspect, ClearExact, LooksGood, HolderExact,
     GrowerExact, Closed, Done

LEMMA NextInv == FileInv /\ [Next]_vars => FileInv'
<1> SUFFICES ASSUME FileInv, [Next]_vars PROVE FileInv'
  OBVIOUS
<1>1. ASSUME NEW p \in Proc, \/ CheckHeader(p) \/ Create(p) \/ Format(p) \/ MapFile(p)
                             \/ TryLock(p) \/ LockFails(p) \/ AbortLoad(p)
      PROVE  FileInv'
  BY <1>1, CheckHeaderStep, CreateStep, FormatStep, MapFileStep, TryLockStep, LockFailsStep,
     AbortLoadStep
<1>2. ASSUME NEW p \in Proc, \/ BeginUpdate(p) \/ CloseMapped(p) \/ BeginSave(p) \/ EndSave(p)
                             \/ Crash(p)
      PROVE  FileInv'
  BY <1>2, BeginUpdateStep, CloseMappedStep, BeginSaveStep, EndSaveStep, CrashStep
<1>3. ASSUME NEW p \in Proc, NEW g \in Page,
             GrowPage(p, g) \/ LoadPage(p, g) \/ UpdatePage(p, g) \/ SavePage(p, g)
      PROVE  FileInv'
  BY <1>3, GrowPageStep, LoadPageStep, UpdatePageStep, SavePageStep
<1>4. ASSUME NEW g \in Page, WriteBack(g) PROVE FileInv'
  BY <1>4, WriteBackStep
<1>5. CASE LosePower \/ Delete
  BY <1>5, LosePowerStep, DeleteStep
<1>6. CASE UNCHANGED vars
  BY <1>6, StutterInv
<1>7. QED
  BY <1>1, <1>2, <1>3, <1>4, <1>5, <1>6 DEF Next

(* The invariant of the file and its users holds in every reachable state. *)
THEOREM FileInvariant == Spec => []FileInv
  BY InitInv, NextInv, PTL DEF Spec

(* The lock is held by exactly the process between try_lock and the end of *)
(* its destructor, and the members keep their types.                       *)
THEOREM TypeCorrect == Spec => []TypeOK
<1>1. FileInv => TypeOK
  BY DEF FileInv
<1>2. QED
  BY <1>1, FileInvariant, PTL

(* However many processes open, grow, use and lose the file, a clear flag  *)
(* on a file nobody uses means the database of the last clean shutdown, in *)
(* the page cache and on the disk.                                         *)
THEOREM ClearFlagVouches == Spec => []CleanFileExact
<1>1. FileInv => CleanFileExact
  BY DEF FileInv, ClearExact, Closed, CleanFileExact
<1>2. QED
  BY <1>1, FileInvariant, PTL

(* At most one process updates, loads or saves the database.               *)
THEOREM SingleUser == Spec => []OneUser
<1>1. FileInv => OneUser
  BY DEF FileInv, TypeOK, OneUser
<1>2. QED
  BY <1>1, FileInvariant, PTL

(* A process that gets to use the database finds the one last saved.       *)
THEOREM StartsFromSaved == Spec => OpensSaved
<1> DEFINE Opens == \A p \in Proc : (st[p] \notin Using /\ st'[p] \in Using /\ suspect' = {}) =>
                       saved = (IF st'[p] = "heap" THEN heap'[p] ELSE cache')
<1>1. FileInv /\ [Next]_vars => [Opens]_vars
  <2> SUFFICES ASSUME FileInv, Next,
                      NEW p \in Proc, st[p] \notin Using, st'[p] \in Using, suspect' = {}
               PROVE  saved = (IF st'[p] = "heap" THEN heap'[p] ELSE cache')
    OBVIOUS
  <2>1. CASE TryLock(p)
    <3>1. p \notin stale /\ (suspect = {} \/ suspect = {p})
      BY <2>1, BeginClean DEF TryLock
    <3>2. cache = saved
      BY <2>1, <3>1 DEF TryLock, FileInv, TypeOK, LooksGood, ClearExact, GrowerExact, Closed
    <3>3. st'[p] # "heap" /\ cache' = cache
      BY <2>1 DEF TryLock, Goto, FileInv, TypeOK
    <3>4. QED
      BY <3>2, <3>3
  <2>2. ASSUME NEW g \in Page, LoadPage(p, g)
        PROVE  saved = (IF st'[p] = "heap" THEN heap'[p] ELSE cache')
    <3>1. st[p] = "loading" /\ todo[p] = {g} /\ st'[p] = "heap"
      BY <2>2 DEF LoadPage, Goto, FileInv, TypeOK, Using
    <3>2. cache = saved /\ Done(p, heap[p], cache)
      BY <2>2, <3>1 DEF LoadPage, history, FileInv, HolderExact
    <3>3. heap'[p] = [heap[p] EXCEPT ![g] = cache[g]] /\ heap[p] \in Content /\ cache \in Content
      BY <2>2 DEF LoadPage, FileInv, TypeOK
    <3>4. \A h \in Page : heap'[p][h] = cache[h]
      BY <3>1, <3>2, <3>3 DEF Done, Content
    <3>5. heap'[p] \in Content
      BY <3>3 DEF Content
    <3>6. heap'[p] = cache
      BY <3>3, <3>4, <3>5 DEF Content
    <3>7. QED
      BY <3>1, <3>2, <3>6
  <2>3. TryLock(p) \/ \E g \in Page : LoadPage(p, g)
    BY DEF FileInv, TypeOK, Using, Goto, Next, CheckHeader, Create, Format, MapFile, TryLock,
       LockFails, AbortLoad, BeginUpdate, CloseMapped, BeginSave, EndSave, Crash, GrowPage,
       LoadPage, UpdatePage, SavePage, WriteBack, LosePower, Delete
  <2>4. QED
    BY <2>1, <2>2, <2>3
<1>2. QED
  BY <1>1, FileInvariant, PTL DEF Spec, OpensSaved
=============================================================================

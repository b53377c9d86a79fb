----------------------------- MODULE MappedFile -----------------------------
(***************************************************************************)
(* chainbase::pinnable_mapped_file: shared_memory.bin, which holds the     *)
(* chain state, its dirty flag and its lock.  A process maps the file, or  *)
(* in heap mode copies it to memory and back.  It dies at any step, and    *)
(* with the machine everything that was not flushed may die too.  The      *)
(* dirty flag has to tell the next process whether the file holds what the *)
(* last clean shutdown left in it.                                         *)
(*                                                                         *)
(* Objects are abstracted to pages with values; an update of the database  *)
(* changes several pages, one after the other.  Writable processes only:   *)
(* every writable open in the node has allow_dirty = false, and a          *)
(* read-only one changes nothing.                                          *)
(***************************************************************************)
EXTENDS Naturals, FiniteSets

CONSTANTS Proc,     \* processes that open the file
          Page,     \* pages of the file (of 1 MB in the code)
          Value,    \* contents of a page that is in use
          NoProc    \* the lock is free

Zero == 0           \* a page of zeros, also one never written

ASSUME FileAssumption ==
  /\ Value # {} /\ Zero \notin Value
  /\ NoProc \notin Proc

VARIABLES
  kind,    \* "absent", "blank" (created, no header yet) or "formatted"
  cache,   \* contents as every process of the machine sees them
  disk,    \* contents that survive the machine
  dirty,   \* the flag in the header, always flushed when it is set
  lock,    \* holder of the file lock
  st,      \* where each process is in constructor, use or destructor
  heap,    \* the copy in memory of a process in heap mode
  todo,    \* pages a process still has to copy or to update
  image,   \* history: the database after the last complete update
  saved,   \* history: the database at the last clean shutdown
  stale,   \* history: processes whose look at the flag another has outdated
  suspect  \* history: processes that grew the file and have not flushed it,
           \* or got to use it although they were stale or another was suspect

history == <<stale, suspect>>
vars == <<kind, cache, disk, dirty, lock, st, heap, todo, image, saved, stale, suspect>>

Image == [Page -> Value]
Content == [Page -> Value \union {Zero}]
Zeros == [g \in Page |-> Zero]

Init ==
  /\ kind = "absent" /\ cache = Zeros /\ disk = Zeros
  /\ dirty = FALSE /\ lock = NoProc
  /\ st = [p \in Proc |-> "idle"]
  /\ heap = [p \in Proc |-> Zeros]
  /\ todo = [p \in Proc |-> {}]
  /\ image = Zeros /\ saved = Zeros
  /\ stale = {} /\ suspect = {}

Goto(p, s) == st' = [st EXCEPT ![p] = s]

(* st of a process that holds the file, in mapped and in heap mode.        *)
Using == {"mapped", "updating_mapped", "heap", "updating_heap"}

(* The history: p looks at the flag; p changes the file or the flag, which *)
(* outdates what the others have seen; p begins to use the file; the flag  *)
(* is cleared by a process that nothing was wrong with.                    *)
Look(p) == stale' = IF suspect = {} THEN stale \ {p} ELSE stale \union {p}
Touch(p) == stale' = stale \union {q \in Proc \ {p} : st[q] # "idle"}
Begin(p) == suspect' = IF p \in stale \/ suspect \ {p} # {} THEN suspect \union {p} ELSE {}
Vouch == stale' = IF suspect = {} THEN {} ELSE stale
-----------------------------------------------------------------------------
(* Faulty variant of CheckHeader: the flag is not looked at.               *)
CheckHeader_any(p) ==
  /\ st[p] = "idle"
  /\ kind # "blank"
  /\ Goto(p, "checked")
  /\ Look(p) /\ UNCHANGED suspect
  /\ UNCHANGED <<kind, cache, disk, dirty, lock, heap, todo, image, saved>>

(* Constructor: the header is read, a dirty one or an incomplete one       *)
(* throws.  A file that does not exist is not checked.                     *)
CheckHeader(p) ==
  /\ st[p] = "idle"
  /\ kind = "absent" \/ (kind = "formatted" /\ ~dirty)
  /\ Goto(p, "checked")
  /\ Look(p) /\ UNCHANGED suspect
  /\ UNCHANGED <<kind, cache, disk, dirty, lock, heap, todo, image, saved>>

(* A file that does not exist is created: zeros, then the segment manager, *)
(* then the header, whose flag is clear.  (Taken as flushed: a machine     *)
(* lost before the first flush of a new file is not considered.)           *)
Create(p) ==
  /\ st[p] = "checked" /\ kind = "absent"
  /\ kind' = "blank" /\ cache' = Zeros /\ disk' = Zeros
  /\ Goto(p, "creating")
  /\ Touch(p) /\ UNCHANGED suspect
  /\ UNCHANGED <<dirty, lock, heap, todo, image, saved>>

Format(p) ==
  /\ st[p] = "creating"
  /\ \E i \in Image : cache' = i /\ disk' = i /\ image' = i /\ saved' = i
  /\ kind' = "formatted" /\ dirty' = FALSE
  /\ Goto(p, "sized")
  /\ Touch(p) /\ UNCHANGED suspect
  /\ UNCHANGED <<lock, heap, todo>>

(* An existing file is mapped.  With a larger configured size it is        *)
(* resized and the segment manager grows, in several writes.               *)
MapFile(p) ==
  /\ st[p] = "checked" /\ kind # "absent"
  /\ \/ Goto(p, "sized") /\ UNCHANGED <<todo, image, history>>
     \/ /\ Goto(p, "growing")
        /\ Touch(p) /\ suspect' = suspect \union {p}
        /\ todo' = [todo EXCEPT ![p] = Page]
        /\ image' \in Image
  /\ UNCHANGED <<kind, cache, disk, dirty, lock, heap, saved>>

GrowPage(p, g) ==
  /\ st[p] = "growing" /\ g \in todo[p]
  /\ cache' = [cache EXCEPT ![g] = image[g]]
  /\ todo' = [todo EXCEPT ![p] = @ \ {g}]
  /\ IF todo[p] = {g} THEN Goto(p, "sized") /\ saved' = image ELSE UNCHANGED <<st, saved>>
  /\ UNCHANGED <<kind, disk, dirty, lock, heap, image, history>>

(* Faulty variant of TryLock: the result of try_lock is not looked at.     *)
TryLock_ignored(p) ==
  /\ st[p] = "sized"
  /\ lock' = p /\ dirty' = TRUE
  /\ disk' = cache
  /\ \/ Goto(p, "mapped") /\ UNCHANGED todo
     \/ Goto(p, "loading") /\ todo' = [todo EXCEPT ![p] = Page]
  /\ Touch(p) /\ Begin(p)
  /\ UNCHANGED <<kind, cache, heap, image, saved>>

(* The lock is tried once; the holder sets the flag and flushes.           *)
TryLock(p) ==
  /\ st[p] = "sized" /\ lock = NoProc
  /\ lock' = p /\ dirty' = TRUE
  /\ disk' = cache
  /\ \/ Goto(p, "mapped") /\ UNCHANGED todo
     \/ Goto(p, "loading") /\ todo' = [todo EXCEPT ![p] = Page]
  /\ Touch(p) /\ Begin(p)
  /\ UNCHANGED <<kind, cache, heap, image, saved>>

LockFails(p) ==
  /\ st[p] = "sized" /\ lock # NoProc
  /\ Goto(p, "idle")
  /\ UNCHANGED <<kind, cache, disk, dirty, lock, heap, todo, image, saved, history>>

(* Heap mode: load_database_file copies page by page.                      *)
LoadPage(p, g) ==
  /\ st[p] = "loading" /\ g \in todo[p]
  /\ heap' = [heap EXCEPT ![p][g] = cache[g]]
  /\ todo' = [todo EXCEPT ![p] = @ \ {g}]
  /\ IF todo[p] = {g} THEN Goto(p, "heap") ELSE UNCHANGED st
  /\ UNCHANGED <<kind, cache, disk, dirty, lock, image, saved, history>>

(* A signal, or memory that cannot be locked, ends the load: the flag is   *)
(* cleared again, since nothing was changed.                               *)
AbortLoad(p) ==
  /\ st[p] = "loading"
  /\ dirty' = FALSE /\ disk' = cache /\ lock' = NoProc
  /\ Goto(p, "idle")
  /\ todo' = [todo EXCEPT ![p] = {}]
  /\ heap' = [heap EXCEPT ![p] = Zeros]
  /\ Vouch /\ UNCHANGED suspect
  /\ UNCHANGED <<kind, cache, image, saved>>
-----------------------------------------------------------------------------
(* Use: an update of the database goes from one image to another, page by  *)
(* page.                                                                   *)
BeginUpdate(p) ==
  /\ st[p] \in {"mapped", "heap"}
  /\ Goto(p, IF st[p] = "heap" THEN "updating_heap" ELSE "updating_mapped")
  /\ image' \in Image
  /\ todo' = [todo EXCEPT ![p] = Page]
  /\ UNCHANGED <<kind, cache, disk, dirty, lock, heap, saved, history>>

UpdatePage(p, g) ==
  /\ st[p] \in {"updating_mapped", "updating_heap"} /\ g \in todo[p]
  /\ IF st[p] = "updating_heap"
     THEN heap' = [heap EXCEPT ![p][g] = image[g]] /\ UNCHANGED cache
     ELSE cache' = [cache EXCEPT ![g] = image[g]] /\ UNCHANGED heap
  /\ todo' = [todo EXCEPT ![p] = @ \ {g}]
  /\ IF todo[p] = {g}
     THEN Goto(p, IF st[p] = "updating_heap" THEN "heap" ELSE "mapped")
     ELSE UNCHANGED st
  /\ UNCHANGED <<kind, disk, dirty, lock, image, saved, history>>

(* The kernel writes a page back when it likes.                            *)
WriteBack(g) ==
  /\ disk[g] # cache[g]
  /\ disk' = [disk EXCEPT ![g] = cache[g]]
  /\ UNCHANGED <<kind, cache, dirty, lock, st, heap, todo, image, saved, history>>
-----------------------------------------------------------------------------
(* Faulty variant of Flush: the flag is cleared, the pages follow later.   *)
Flush_flag_only == dirty' = FALSE /\ UNCHANGED disk

(* The pages are flushed, and then the cleared flag.                       *)
Flush == disk' = cache /\ dirty' = FALSE

(* Destructor in mapped mode.                                              *)
CloseMapped(p) ==
  /\ st[p] = "mapped"
  /\ Flush
  /\ saved' = image /\ lock' = NoProc
  /\ Goto(p, "idle")
  /\ Vouch /\ UNCHANGED suspect
  /\ UNCHANGED <<kind, cache, heap, todo, image>>

(* Destructor in heap mode: save_database_file skips pages of zeros.       *)
BeginSave(p) ==
  /\ st[p] = "heap"
  /\ Goto(p, "saving")
  /\ todo' = [todo EXCEPT ![p] = Page]
  /\ UNCHANGED <<kind, cache, disk, dirty, lock, heap, image, saved, history>>

SavePage(p, g) ==
  /\ st[p] = "saving" /\ g \in todo[p]
  /\ cache' = [cache EXCEPT ![g] = IF heap[p][g] = Zero THEN @ ELSE heap[p][g]]
  /\ todo' = [todo EXCEPT ![p] = @ \ {g}]
  /\ UNCHANGED <<kind, disk, dirty, lock, st, heap, image, saved, history>>

EndSave(p) ==
  /\ st[p] = "saving" /\ todo[p] = {}
  /\ Flush
  /\ saved' = image /\ lock' = NoProc
  /\ Goto(p, "idle")
  /\ heap' = [heap EXCEPT ![p] = Zeros]
  /\ Vouch /\ UNCHANGED suspect
  /\ UNCHANGED <<kind, cache, todo, image>>
-----------------------------------------------------------------------------
(* A process dies; the kernel keeps its pages and frees its lock.          *)
Crash(p) ==
  /\ st[p] # "idle"
  /\ Goto(p, "idle")
  /\ lock' = IF lock = p THEN NoProc ELSE lock
  /\ heap' = [heap EXCEPT ![p] = Zeros]
  /\ todo' = [todo EXCEPT ![p] = {}]
  /\ UNCHANGED <<kind, cache, disk, dirty, image, saved, history>>

(* The machine dies.  (A file without its header is as good as absent to   *)
(* the operator, who deletes it.)                                          *)
LosePower ==
  /\ cache' = disk
  /\ lock' = NoProc
  /\ st' = [p \in Proc |-> "idle"]
  /\ heap' = [p \in Proc |-> Zeros]
  /\ todo' = [p \in Proc |-> {}]
  /\ UNCHANGED <<kind, disk, dirty, image, saved, history>>

(* The operator deletes a file that cannot be opened, to replay.           *)
Delete ==
  /\ \A p \in Proc : st[p] = "idle"
  /\ kind # "absent"
  /\ kind' = "absent" /\ cache' = Zeros /\ disk' = Zeros /\ dirty' = FALSE
  /\ image' = Zeros /\ saved' = Zeros
  /\ stale' = {} /\ suspect' = {}
  /\ UNCHANGED <<lock, st, heap, todo>>

Next ==
  \/ \E p \in Proc :
       \/ CheckHeader(p) \/ Create(p) \/ Format(p) \/ MapFile(p)
       \/ TryLock(p) \/ LockFails(p) \/ AbortLoad(p)
       \/ BeginUpdate(p) \/ CloseMapped(p) \/ BeginSave(p) \/ EndSave(p)
       \/ Crash(p)
       \/ \E g \in Page : GrowPage(p, g) \/ LoadPage(p, g) \/ UpdatePage(p, g) \/ SavePage(p, g)
  \/ \E g \in Page : WriteBack(g)
  \/ LosePower \/ Delete

Spec == Init /\ [][Next]_vars
-----------------------------------------------------------------------------
(* Types; the lock is held from try_lock to the end of the destructor, and *)
(* by nobody who died or gave up.                                          *)
TypeOK ==
  /\ kind \in {"absent", "blank", "formatted"}
  /\ cache \in Content /\ disk \in Content /\ heap \in [Proc -> Content]
  /\ dirty \in BOOLEAN /\ lock \in Proc \union {NoProc}
  /\ st \in [Proc -> Using \union {"idle", "checked", "creating", "growing", "sized", "loading", "saving"}]
  /\ todo \in [Proc -> SUBSET Page]
  /\ image \in Content /\ saved \in Content
  /\ stale \subseteq Proc /\ suspect \subseteq Proc
  /\ \A p \in Proc : lock = p <=> st[p] \in Using \union {"loading", "saving"}

(* A file with a clear flag that nobody uses holds the database of the     *)
(* last clean shutdown, on the disk too, whatever crashes, aborted loads   *)
(* and interrupted saves came before: unless a process died while the file *)
(* grew, or used it on an outdated look at the flag.                       *)
CleanFileExact ==
  kind = "formatted" /\ ~dirty /\ lock = NoProc /\ suspect = {} => cache = saved /\ disk = saved

(* A process that gets to use the database starts from that database: an   *)
(* unclean shutdown never goes unnoticed, with the same two exceptions.    *)
OpensSaved ==
  [][\A p \in Proc : (st[p] \notin Using /\ st'[p] \in Using /\ suspect' = {}) =>
        saved = (IF st'[p] = "heap" THEN heap'[p] ELSE cache')]_vars

(* At most one process uses the file: updates of two processes never mix,  *)
(* whoever created, grew or loaded the file and whoever died before.       *)
OneUser ==
  \A p, q \in Proc : (st[p] \in Using \union {"saving"} /\ st[q] \in Using \union {"loading", "saving"}) => p = q
=============================================================================

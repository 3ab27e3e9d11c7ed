----------------------------- MODULE NoteVault -----------------------------
(***************************************************************************)
(* The notes of a collection as one window of the app creates, copies,     *)
(* edits, saves, opens, renames, deletes and restores them:                *)
(* packages/core/src/api/notes.ts and trash.ts, the debounced save of the editor components, the dirty flag   *)
(* of state/editor.svelte.ts and the version history that                  *)
(* packages/storage/src/versioned.ts keeps below them.                     *)
(*                                                                         *)
(* JavaScript runs to the next await that waits for storage: a task is one *)
(* async call, and its steps are what lies between two such awaits.  All   *)
(* notes have one file name, in folders of their own, so that names in the *)
(* trash collide.                                                          *)
(***************************************************************************)
EXTENDS Integers, FiniteSets, Sequences

CONSTANTS
  Path,         \* paths of notes
  Initial,      \* the ones that exist at first
  None,
  Task,         \* async calls that may be under way at a time
  Overwrites,   \* whether the backend's rename replaces a file (tauri.ts) or fails (idbfs.ts)
  MaxVersions,  \* maxVersionsPerFile
  MaxEdits,     \* bound: edits
  MaxOps,       \* bound: calls
  MaxCrashes    \* bound: the app is closed

\* The notes: the first ones, and one for each call that makes one.
NoteId == Initial \cup 1..MaxOps

\* What a note was made from, and the number of the edit that made it.
Text == [of : NoteId, rev : 0..MaxEdits]

ASSUME VaultAssumption ==
  /\ Initial \subseteq Path /\ Initial \cap Int = {}
  /\ None \notin Path \cup NoteId \cup Text
  /\ Overwrites \in BOOLEAN
  /\ MaxVersions \in Nat \ {0}
  /\ MaxEdits \in Nat /\ MaxOps \in Nat /\ MaxCrashes \in Nat

VARIABLES
  disk,      \* the notes
  versions,  \* the snapshots of a path, oldest first
  recent,    \* paths with a lastSnapshotAt within the minimal interval
  trash,     \* the files of .tactile/trash: 0 has the plain name, n a time stamp
  manifest,  \* trash.json
  active,    \* appState.activeFile
  text,      \* what the editor shows
  dirty,     \* appState.editor.dirtyPath
  timer,     \* the path that the debounce timer is to save
  task,
  ops, crashes,
  \* History, which no action looks at:
  edits,     \* edits so far, the number of the next one
  typed,     \* the last edit of a note
  lineage,   \* the note that a path is to have
  excused,   \* notes with edits that the user or a race has put at risk, see EditsKept
  crossed,   \* a race that may put a note at another's path, see Contends
  rushed     \* calls on the trash overlapped, or one was cut off

files == <<disk, versions, recent>>
bin == <<trash, manifest>>
editor == <<active, text, dirty, timer>>
history == <<edits, typed, lineage, excused, crossed, rushed>>
vars == <<files, bin, editor, task, ops, crashes, history>>

Maybe == Text \cup {None}
Item == [name : 0..MaxOps, from : Path]

Kind == {"none", "save", "open", "create", "copy", "move", "rename", "restore", "trash",
         "remove", "system", "unbin", "purge", "empty"}
Stage == {"done", "names", "probe", "read", "keep", "write", "load", "swap", "rename", "renamed",
          "bin", "list", "note", "remove", "drop", "unbin", "unlist", "clear"}
NoTask == [kind |-> "none", at |-> "done", path |-> None, to |-> None, body |-> None,
           held |-> None, name |-> 0, items |-> {}, fresh |-> FALSE]
Call == [kind : Kind, at : Stage, path : Path \cup {None}, to : Path \cup {None}, body : Maybe,
         held : Maybe, name : 0..MaxOps, items : SUBSET Item, fresh : BOOLEAN]

Init ==
  /\ disk = [p \in Path |-> IF p \in Initial THEN [of |-> p, rev |-> 0] ELSE None]
  /\ versions = [p \in Path |-> <<>>] /\ recent = {}
  /\ trash = [n \in 0..MaxOps |-> None] /\ manifest = {}
  /\ active = None /\ text = None /\ dirty = None /\ timer = None
  /\ task = [t \in Task |-> NoTask]
  /\ ops = 0 /\ crashes = 0
  /\ edits = 0 /\ typed = [p \in Initial |-> 0]
  /\ lineage = [p \in Path |-> IF p \in Initial THEN p ELSE None]
  /\ excused = {} /\ crossed = FALSE /\ rushed = FALSE

-----------------------------------------------------------------------------
Busy(kinds) == {t \in Task : task[t].kind \in kinds}
OnTrash == {"trash", "unbin", "purge", "empty"}
Opening == {"open", "move", "restore"}
Moving == {"rename", "move"}
Making == {"create", "copy"}
Taking == Moving \cup {"trash", "remove", "system", "unbin"}

\* The user starts the call r.
Start(t, r) ==
  /\ task[t] = NoTask /\ ops < MaxOps
  /\ ops' = ops + 1
  /\ task' = [task EXCEPT ![t] = r]

Go(t, stage) == task' = [task EXCEPT ![t].at = stage]
Done(t) == task' = [task EXCEPT ![t] = NoTask]

\* markDirty: no save that is under way holds the newest contents any more.
Stale(ts) == [t \in Task |-> [ts[t] EXCEPT !.fresh = FALSE]]

\* Edits that are nowhere but in the editor.
Unsaved == IF dirty = None THEN {} ELSE {text.of}

\* onUpdate: an edit of the note that is shown.
Edit ==
  /\ active # None /\ edits < MaxEdits
  /\ edits' = edits + 1
  /\ text' = [text EXCEPT !.rev = edits + 1]
  /\ typed' = [typed EXCEPT ![text.of] = edits + 1]
  /\ dirty' = active /\ timer' = active
  /\ task' = Stale(task)
  /\ excused' = IF Busy({"open"}) = {} THEN excused ELSE excused \cup {text.of}
  /\ UNCHANGED <<files, bin, active, ops, crashes, lineage, crossed, rushed>>

-----------------------------------------------------------------------------
\* saveNote, with the contents of the editor as they are when it is called.
Saving(kind, p, fresh) ==
  [NoTask EXCEPT !.kind = kind, !.at = "probe", !.path = p, !.body = text, !.fresh = fresh]

\* The calls under way, t apart, that save, open, move or delete what is at the paths ps.
Others(t, ps) == {u \in Task \ {t} : {task[u].path, task[u].to} \cap ps # {}}

\* History of a step of t that begins to change the notes at ps, or gives the ones of
\* lost away.  If others are at them, whatever is done may come first, another save
\* included; and a note that is moved or deleted may come back when a save of it is late, or when
\* the editor still shows it under its old path.
Contends(t, ps, lost) ==
  LET others == Others(t, ps)
      p == task'[t].path
      at == ps \cup ({task[u].path : u \in others} \ {None})
      held == ({task[u].body : u \in others} \cup {task'[t].body}) \ {None}
      kinds(u) == {task[u].kind, task'[t].kind} IN
  /\ excused' = excused \cup lost \cup
       (IF others = {} THEN {} ELSE ({lineage[q] : q \in at} \ {None}) \cup {b.of : b \in held})
  /\ crossed' =
       \/ crossed
       \/ active # None /\ lineage[active] = None /\ (task[t].at = "renamed" => active \in ps \ {task[t].path})
       \/ \E u \in others : kinds(u) \cap (Taking \cup Making) # {}
       \/ \E u \in others : task[u].kind = "restore" /\ lineage[task[u].path] # task[u].body.of
       \/ others # {} /\ p # None /\ \E b \in held : lineage[p] \notin {None, b.of}
       \/ task[t].kind = "restore" /\ dirty # None /\ task[t].body.of # text.of
       \/ \E u \in Task \ {t} : kinds(u) \subseteq Opening \cup Moving /\ kinds(u) \cap Moving # {}

\* Mutation of TimerFires: the active note is not compared.
TimerFires_AnyNote(t) ==
  /\ timer # None /\ active # None
  /\ timer' = None
  /\ Start(t, Saving("save", timer, TRUE))
  /\ Contends(t, {timer}, {})
  /\ UNCHANGED <<files, bin, active, text, dirty, crashes, edits, typed, lineage, rushed>>

\* The debounce timer saves the note, if it is still open and dirty ...
TimerFires(t) ==
  /\ timer # None /\ dirty = timer /\ active = timer
  /\ timer' = None
  /\ Start(t, Saving("save", timer, TRUE))
  /\ Contends(t, {timer}, {})
  /\ UNCHANGED <<files, bin, active, text, dirty, crashes, edits, typed, lineage, rushed>>

\* ... otherwise, or without auto_save, it does nothing.
TimerIdle ==
  /\ timer # None
  /\ timer' = None
  /\ UNCHANGED <<files, bin, active, text, dirty, task, ops, crashes, history>>

\* The shortcut and the command save the active note; the note stays dirty.
SaveNow(t) ==
  /\ active # None
  /\ Start(t, Saving("save", active, FALSE))
  /\ Contends(t, {active}, {})
  /\ UNCHANGED <<files, bin, editor, crashes, edits, typed, lineage, rushed>>

-----------------------------------------------------------------------------
\* openNote up to its first await for storage: edits that are not saved are saved
\* first - nothing is saved while no note is active.
OpenFrom(kind, p) ==
  IF dirty # None /\ active # None
  THEN [Saving(kind, dirty, FALSE) EXCEPT !.to = p]
  ELSE [NoTask EXCEPT !.kind = kind, !.at = "load", !.to = p]

\* Edits that openNote does not save.
Unflushed == IF active = None THEN Unsaved ELSE {}

\* What the task t goes on as when it opens p, and what that does to the rest.
GoOpen(t, p) ==
  /\ task' = [task EXCEPT ![t] = OpenFrom("open", p)]
  /\ dirty' = None
  /\ Contends(t, {p, dirty} \ {None}, Unflushed)

\* Mutation of OpenNote: the edits are not saved first.
OpenNote_NoFlush(t, p) ==
  /\ disk[p] # None
  /\ Start(t, [NoTask EXCEPT !.kind = "open", !.at = "load", !.to = p])
  /\ dirty' = None
  /\ Contends(t, {p, dirty} \ {None}, Unflushed)
  /\ UNCHANGED <<files, bin, active, text, timer, crashes, edits, typed, lineage, rushed>>

OpenNote(t, p) ==
  /\ disk[p] # None
  /\ Start(t, OpenFrom("open", p))
  /\ dirty' = None
  /\ Contends(t, {p, dirty} \ {None}, Unflushed)
  /\ UNCHANGED <<files, bin, active, text, timer, crashes, edits, typed, lineage, rushed>>

\* Mutation of Load: a file that is gone is not an error.
Load_Gone(t) ==
  /\ task[t].at = "load"
  /\ task' = [task EXCEPT ![t].at = "swap", ![t].held = disk[task[t].to]]
  /\ UNCHANGED <<files, bin, editor, ops, crashes, history>>

\* The file is read; one that is gone is an error.
Load(t) ==
  /\ task[t].at = "load"
  /\ LET p == task[t].to IN
       IF disk[p] = None THEN Done(t)
       ELSE task' = [task EXCEPT ![t].at = "swap", ![t].held = disk[p]]
  /\ UNCHANGED <<files, bin, editor, ops, crashes, history>>

\* The editor shows it.  setContent counts as an update of the note, which restarts
\* the timer; the dirty flag that it sets is cleared.
Swap(t) ==
  /\ task[t].at = "swap"
  /\ active' = task[t].to /\ text' = task[t].held
  /\ dirty' = None /\ timer' = task[t].to
  /\ task' = Stale([task EXCEPT ![t] = NoTask])
  /\ UNCHANGED <<files, bin, ops, crashes, history>>

-----------------------------------------------------------------------------
\* A new note has no edit yet.
Born(n) == typed' = [l \in DOMAIN typed \cup {n} |-> IF l = n THEN 0 ELSE typed[l]]
Blank == [of |-> ops + 1, rev |-> 0]

\* getNextUntitledName: a name that no file of the directory has.
Untaken(q) == disk[q] = None

\* createNote, with a name of its own or a given one that is not in the directory that
\* it has just read.  The file is written, then opened.
CreateNote(t, q) ==
  /\ Untaken(q)
  /\ Start(t, [NoTask EXCEPT !.kind = "create", !.at = "probe", !.path = q, !.body = Blank])
  /\ Born(ops + 1)
  /\ Contends(t, {q}, {})
  /\ UNCHANGED <<files, bin, editor, crashes, edits, lineage, rushed>>

\* duplicateNote: what is on disk is read ...
DuplicateNote(t, p) ==
  /\ disk[p] # None
  /\ Start(t, [NoTask EXCEPT !.kind = "copy", !.at = "names", !.body = Blank])
  /\ Born(ops + 1)
  /\ UNCHANGED <<files, bin, editor, crashes, edits, lineage, excused, crossed, rushed>>

\* ... and the lowest index that no copy in the directory has makes the new name.
FreeName(t, q) ==
  /\ task[t].at = "names" /\ disk[q] = None
  /\ task' = [task EXCEPT ![t].at = "probe", ![t].path = q]
  /\ Contends(t, {q}, {})
  /\ UNCHANGED <<files, bin, editor, ops, crashes, edits, typed, lineage, rushed>>

\* closeNote.
CloseNote ==
  /\ active # None
  /\ active' = None
  /\ excused' = excused \cup Unsaved
  /\ UNCHANGED <<files, bin, text, dirty, timer, task, ops, crashes, edits, typed, lineage, crossed, rushed>>

-----------------------------------------------------------------------------
\* VersionedBackend.writeTextFile: a file that is there is read and kept as a
\* version, unless that was done within the interval.
Probe(t) ==
  /\ task[t].at = "probe"
  /\ LET p == task[t].path IN
       IF disk[p] = None \/ p \in recent
       THEN Go(t, "write") /\ UNCHANGED recent
       ELSE Go(t, "read") /\ recent' = recent \cup {p}
  /\ excused' = IF task[t].kind = "restore" /\ task[t].path \in recent
                THEN excused \cup ({lineage[task[t].path]} \ {None}) ELSE excused
  /\ UNCHANGED <<disk, versions, bin, editor, ops, crashes, edits, typed, lineage, crossed, rushed>>

\* A file that is gone by now fails the write.  openNote goes on all the same.
ReadOld(t) ==
  /\ task[t].at = "read"
  /\ LET r == task[t] IN
       \/ /\ disk[r.path] # None
          /\ task' = [task EXCEPT ![t].at = "keep", ![t].held = disk[r.path]]
       \/ /\ disk[r.path] = None
          /\ IF r.kind = "open" THEN task' = [task EXCEPT ![t].at = "load"] ELSE Done(t)
  /\ UNCHANGED <<files, bin, editor, ops, crashes, history>>

KeepOld(t) ==
  /\ task[t].at = "keep"
  /\ LET p == task[t].path
         kept == Append(versions[p], task[t].held)
         full == Len(kept) > MaxVersions IN
       /\ versions' = [versions EXCEPT ![p] = IF full THEN Tail(kept) ELSE kept]
       /\ excused' = IF full /\ Head(kept).rev = typed[Head(kept).of]
                     THEN excused \cup {Head(kept).of} ELSE excused
  /\ Go(t, "write")
  /\ UNCHANGED <<disk, recent, bin, editor, ops, crashes, edits, typed, lineage, crossed, rushed>>

\* The file is written.  A save of the newest contents clears the dirty flag; a new
\* note, and a restored one that is open, is opened.
Write(t) ==
  /\ task[t].at = "write"
  /\ disk' = [disk EXCEPT ![task[t].path] = task[t].body]
  /\ lineage' = IF task[t].kind \in {"restore"} \cup Making
                THEN [lineage EXCEPT ![task[t].path] = task[t].body.of] ELSE lineage
  /\ \/ /\ task[t].kind = "save"
        /\ Done(t)
        /\ dirty' = IF task[t].fresh THEN None ELSE dirty
        /\ UNCHANGED <<excused, crossed>>
     \/ /\ task[t].kind = "open"
        /\ task' = [task EXCEPT ![t] = [NoTask EXCEPT !.kind = "open", !.at = "load", !.to = task[t].to]]
        /\ UNCHANGED <<dirty, excused, crossed>>
     \/ /\ task[t].kind = "restore" /\ active = task[t].path
        /\ GoOpen(t, active)
     \/ /\ task[t].kind \in Making
        /\ GoOpen(t, task[t].path)
     \/ /\ task[t].kind = "restore" /\ active # task[t].path
        /\ Done(t)
        /\ UNCHANGED <<dirty, excused, crossed>>
  /\ UNCHANGED <<versions, recent, bin, active, text, timer, ops, crashes, edits, typed, rushed>>

\* restoreNoteVersion, of the note that is shown (history-panel.svelte) or of any other
\* (note-context-menu.svelte), reads the version: one that a note before it left at this
\* path may be restored, too.
RestoreVersion(t, p) ==
  /\ p = active \/ disk[p] # None
  /\ \E i \in 1..Len(versions[p]) :
       Start(t, [NoTask EXCEPT !.kind = "restore", !.at = "probe", !.path = p, !.body = versions[p][i]])
  /\ Contends(t, {p}, {})
  /\ UNCHANGED <<files, bin, editor, crashes, edits, typed, lineage, rushed>>

\* The snapshot interval of a path is over.
Elapse(p) ==
  /\ p \in recent
  /\ recent' = recent \ {p}
  /\ UNCHANGED <<disk, versions, bin, editor, task, ops, crashes, history>>

-----------------------------------------------------------------------------
\* renameNote of the note that is shown, and moveNote of any (drag.ts, move-to-menu.svelte):
\* the new path is free ...
Rename(t, kind, p, q) ==
  /\ p = active \/ (kind = "move" /\ disk[p] # None)
  /\ disk[q] = None
  /\ Start(t, [NoTask EXCEPT !.kind = kind, !.at = "rename", !.path = p, !.to = q])
  /\ Contends(t, {p, q}, {})
  /\ UNCHANGED <<files, bin, editor, crashes, edits, typed, lineage, rushed>>

\* ... the backend renames ...
DoRename(t) ==
  /\ task[t].at = "rename"
  /\ LET p == task[t].path
         q == task[t].to IN
       IF disk[p] = None \/ (disk[q] # None /\ ~Overwrites)
       THEN Done(t) /\ UNCHANGED <<disk, lineage>>
       ELSE /\ disk' = [disk EXCEPT ![q] = disk[p], ![p] = None]
            /\ lineage' = [lineage EXCEPT ![q] = lineage[p], ![p] = None]
            /\ Go(t, "renamed")
  /\ UNCHANGED <<versions, recent, bin, editor, ops, crashes, edits, typed, excused, crossed, rushed>>

\* ... and unsaved edits are to go to the new path, which becomes the active one, or
\* is opened.
Renamed(t) ==
  /\ task[t].at = "renamed"
  /\ LET q == task[t].to
         moved == IF dirty = task[t].path THEN q ELSE dirty IN
       \/ /\ task[t].kind = "rename"
          /\ dirty' = moved /\ active' = q
          /\ Done(t)
          /\ UNCHANGED <<excused, crossed>>
       \/ /\ task[t].kind = "move"
          /\ task' = [task EXCEPT ![t] =
               IF moved # None /\ active # None THEN [Saving("open", moved, FALSE) EXCEPT !.to = q]
               ELSE [NoTask EXCEPT !.kind = "open", !.at = "load", !.to = q]]
          /\ dirty' = None
          /\ Contends(t, {moved, q} \ {None}, Unflushed)
          /\ UNCHANGED active
  /\ UNCHANGED <<files, bin, text, timer, ops, crashes, edits, typed, lineage, rushed>>

-----------------------------------------------------------------------------
\* moveToTrash: a plain name that is taken makes it a stamped one ...
Rushing == rushed \/ Busy(OnTrash) # {}

\* Mutation of Trash: the plain name is always used.
Trash_PlainName(t, p) ==
  /\ disk[p] # None
  /\ Start(t, [NoTask EXCEPT !.kind = "trash", !.at = "bin", !.path = p])
  /\ rushed' = Rushing
  /\ Contends(t, {p}, IF Busy({"trash"}) = {} THEN {} ELSE NoteId)
  /\ UNCHANGED <<files, bin, editor, crashes, edits, typed, lineage>>

Trash(t, p) ==
  /\ disk[p] # None
  /\ Start(t, [NoTask EXCEPT !.kind = "trash", !.at = "bin", !.path = p,
                             !.name = IF trash[0] = None THEN 0 ELSE ops + 1])
  /\ rushed' = Rushing
  /\ Contends(t, {p}, IF Busy({"trash"}) = {} THEN {} ELSE NoteId)
  /\ UNCHANGED <<files, bin, editor, crashes, edits, typed, lineage>>

\* ... the file is renamed ...
Bin(t) ==
  /\ task[t].at = "bin"
  /\ LET p == task[t].path
         n == task[t].name IN
       IF disk[p] = None \/ (trash[n] # None /\ ~Overwrites)
       THEN Done(t) /\ UNCHANGED <<disk, trash, lineage>>
       ELSE /\ disk' = [disk EXCEPT ![p] = None]
            /\ lineage' = [lineage EXCEPT ![p] = None]
            /\ trash' = [trash EXCEPT ![n] = disk[p]]
            /\ Go(t, "list")
  /\ UNCHANGED <<versions, recent, manifest, editor, ops, crashes, edits, typed, excused, crossed, rushed>>

\* ... the manifest is read ...
List(t) ==
  /\ task[t].at = "list"
  /\ task' = [task EXCEPT ![t].items = manifest,
                          ![t].at = IF task[t].kind = "trash" THEN "note" ELSE "unlist"]
  /\ UNCHANGED <<files, bin, editor, ops, crashes, history>>

\* deleteNote, when the file is gone: no note is active any more.
Deleted(p) ==
  /\ dirty' = IF dirty = p THEN None ELSE dirty
  /\ active' = None
  /\ excused' = excused \cup Unsaved

\* ... and written with one more item.
Note(t) ==
  /\ task[t].at = "note"
  /\ manifest' = task[t].items \cup {[name |-> task[t].name, from |-> task[t].path]}
  /\ Deleted(task[t].path)
  /\ Done(t)
  /\ UNCHANGED <<files, trash, text, timer, ops, crashes, edits, typed, lineage, crossed, rushed>>

\* The notes of which a path holds a contents or a version.
Below(p) == {x.of : x \in ({disk[p]} \ {None}) \cup {versions[p][i] : i \in 1..Len(versions[p])}}

\* trash_dir = 'delete': the note is removed, then the history of the path.  'system',
\* where there is a hook for it: the system takes the file, and the history stays.
Remove(t, kind, p) ==
  /\ disk[p] # None
  /\ Start(t, [NoTask EXCEPT !.kind = kind, !.at = "remove", !.path = p])
  /\ recent' = IF kind = "remove" THEN recent \ {p} ELSE recent
  /\ Contends(t, {p}, Below(p))
  /\ UNCHANGED <<disk, versions, bin, editor, crashes, edits, typed, lineage, rushed>>

DoRemove(t) ==
  /\ task[t].at = "remove"
  /\ LET p == task[t].path IN
       IF disk[p] = None THEN Done(t) /\ UNCHANGED <<disk, lineage>>
       ELSE /\ disk' = [disk EXCEPT ![p] = None]
            /\ lineage' = [lineage EXCEPT ![p] = None]
            /\ Go(t, "drop")
  /\ UNCHANGED <<versions, recent, bin, editor, ops, crashes, edits, typed, excused, crossed, rushed>>

DropVersions(t) ==
  /\ task[t].at = "drop"
  /\ versions' = IF task[t].kind = "system" THEN versions ELSE [versions EXCEPT ![task[t].path] = <<>>]
  /\ Deleted(task[t].path)
  /\ Done(t)
  /\ UNCHANGED <<disk, recent, bin, text, timer, ops, crashes, edits, typed, lineage, crossed, rushed>>

\* restoreFromTrash: the manifest is read, and the original path is free ...
Restore(t, m) ==
  /\ disk[m.from] = None
  /\ Start(t, [NoTask EXCEPT !.kind = "unbin", !.at = "unbin", !.path = m.from, !.name = m.name,
                             !.items = manifest])
  /\ rushed' = Rushing
  /\ Contends(t, {m.from}, {})
  /\ UNCHANGED <<files, bin, editor, crashes, edits, typed, lineage>>

\* ... the file is renamed ...
Unbin(t) ==
  /\ task[t].at = "unbin"
  /\ LET p == task[t].path
         n == task[t].name IN
       IF trash[n] = None \/ (disk[p] # None /\ ~Overwrites)
       THEN Done(t) /\ UNCHANGED <<disk, trash, lineage>>
       ELSE /\ disk' = [disk EXCEPT ![p] = trash[n]]
            /\ lineage' = [lineage EXCEPT ![p] = trash[n].of]
            /\ trash' = [trash EXCEPT ![n] = None]
            /\ Go(t, "unlist")
  /\ UNCHANGED <<versions, recent, manifest, editor, ops, crashes, edits, typed, excused, crossed, rushed>>

\* ... and the manifest is written without the item.
Unlist(t) ==
  /\ task[t].at = "unlist"
  /\ manifest' = {m \in task[t].items : m.name # task[t].name}
  /\ Done(t)
  /\ UNCHANGED <<files, trash, editor, ops, crashes, history>>

\* deleteTrashItem: first the file, then the item.
Purge(t, m) ==
  /\ Start(t, [NoTask EXCEPT !.kind = "purge", !.at = "list", !.name = m.name])
  /\ trash' = [trash EXCEPT ![m.name] = None]
  /\ rushed' = Rushing
  /\ excused' = IF trash[m.name] = None THEN excused ELSE excused \cup {trash[m.name].of}
  /\ UNCHANGED <<files, manifest, editor, crashes, edits, typed, lineage, crossed>>

\* emptyTrash: the directory, then the manifest.
Empty(t) ==
  /\ Start(t, [NoTask EXCEPT !.kind = "empty", !.at = "clear"])
  /\ trash' = [n \in 0..MaxOps |-> None]
  /\ rushed' = Rushing
  /\ excused' = excused \cup {trash[n].of : n \in {n \in 0..MaxOps : trash[n] # None}}
  /\ UNCHANGED <<files, manifest, editor, crashes, edits, typed, lineage, crossed>>

Clear(t) ==
  /\ task[t].at = "clear"
  /\ manifest' = {}
  /\ Done(t)
  /\ UNCHANGED <<files, trash, editor, ops, crashes, history>>

-----------------------------------------------------------------------------
\* The app is closed, and started again.
Crash ==
  /\ crashes < MaxCrashes
  /\ crashes' = crashes + 1
  /\ recent' = {}
  /\ active' = None /\ text' = None /\ dirty' = None /\ timer' = None
  /\ task' = [t \in Task |-> NoTask]
  /\ excused' = excused \cup Unsaved \cup {task[t].body.of : t \in {u \in Task : task[u].body # None}}
  /\ rushed' = Rushing
  /\ UNCHANGED <<disk, versions, bin, ops, edits, typed, lineage, crossed>>

Next ==
  \/ Edit \/ TimerIdle \/ CloseNote \/ Crash
  \/ \E p \in Path : Elapse(p)
  \/ \E t \in Task :
       \/ TimerFires(t) \/ SaveNow(t) \/ Load(t) \/ Swap(t)
       \/ Probe(t) \/ ReadOld(t) \/ KeepOld(t) \/ Write(t)
       \/ DoRename(t) \/ Renamed(t)
       \/ Bin(t) \/ List(t) \/ Note(t) \/ DoRemove(t) \/ DropVersions(t)
       \/ Unbin(t) \/ Unlist(t) \/ Empty(t) \/ Clear(t)
       \/ \E p \in Path : CreateNote(t, p) \/ DuplicateNote(t, p) \/ FreeName(t, p)
       \/ \E p \in Path : OpenNote(t, p) \/ RestoreVersion(t, p) \/ Trash(t, p)
       \/ \E p \in Path, kind \in {"remove", "system"} : Remove(t, kind, p)
       \/ \E p, q \in Path, kind \in {"rename", "move"} : Rename(t, kind, p, q)
       \/ \E m \in manifest : Restore(t, m) \/ Purge(t, m)

Spec == Init /\ [][Next]_vars

-----------------------------------------------------------------------------
\* The notes, the editor and the calls under way.
TypeOK ==
  /\ disk \in [Path -> Maybe] /\ trash \in [0..MaxOps -> Maybe]
  /\ versions \in [Path -> Seq(Text)] /\ \A p \in Path : Len(versions[p]) <= MaxVersions
  /\ recent \subseteq Path
  /\ manifest \subseteq Item
  /\ active \in Path \cup {None} /\ dirty \in Path \cup {None} /\ timer \in Path \cup {None}
  /\ text \in Maybe /\ (active # None => text # None)
  /\ task \in [Task -> Call]
  /\ ops \in 0..MaxOps /\ crashes \in 0..MaxCrashes /\ edits \in 0..MaxEdits
  /\ DOMAIN typed \subseteq NoteId /\ typed \in [DOMAIN typed -> 0..MaxEdits]
  /\ lineage \in [Path -> NoteId \cup {None}]
  /\ excused \subseteq NoteId /\ crossed \in BOOLEAN /\ rushed \in BOOLEAN

\* "a pending debounced save can never write stale content into this note" (notes.ts):
\* no path holds what was loaded from another note, and none holds a note again that was
\* moved, renamed or deleted.  It says no more from the first of these races on, which
\* Contends marks as crossed: a call that moves, deletes, takes from the trash or makes
\* a note overlaps another at its path; a move overlaps an opening, a restore or a move;
\* two calls at one path have texts of different notes; a version that another note left
\* is restored while a call is at its path or what the editor shows is not saved; a call
\* begins while the editor shows a path that its note has just left.
NoForeignText ==
  ~crossed => \A p \in Path : disk[p] # None => disk[p].of = lineage[p]

\* The newest edit of a note is on disk, in the trash, among the versions, in the hands
\* of a save, or in the editor and marked for one.  It says no more once the races of
\* NoForeignText crossed two notes, nor of the notes of excused:
\*  - with unsaved edits when the note was closed, when the app was closed, or when any note was
\*    deleted, as deleteNote leaves no note active whichever it deletes (notes.ts:118);
\*  - typed into while a note was being opened, or shown and unsaved when one was opened
\*    with none active;
\*  - removed, purged or emptied from the trash by the user, or left with versions at a
\*    path whose note was removed;
\*  - replaced by a restored version within the snapshot interval, when the contents are not kept
\*    (versioned.ts:95, against "restoring never loses data" at :160);
\*  - whose newest edit was the oldest version of a history that was full;
\*  - at a path, or in the hands, of two calls at one path that overlapped, or any
\*    note, when two moves to the trash did;
\*  - in the hands of a call when the app was closed.
EditsKept ==
  ~crossed => \A l \in DOMAIN typed \ excused :
    LET newest == [of |-> l, rev |-> typed[l]] IN
      \/ \E p \in Path : disk[p] = newest
      \/ \E n \in 0..MaxOps : trash[n] = newest
      \/ \E p \in Path : \E i \in 1..Len(versions[p]) : versions[p][i] = newest
      \/ \E t \in Task : task[t].body = newest
      \/ text = newest /\ dirty # None

\* Between calls on the trash, trash.json has one item for every file of .tactile/trash
\* and no other - unless two such calls overlapped, or one was cut off by a crash.
TrashListed ==
  ~rushed /\ Busy(OnTrash) = {} =>
    /\ {n \in 0..MaxOps : trash[n] # None} = {m.name : m \in manifest}
    /\ \A m1, m2 \in manifest : m1.name = m2.name => m1 = m2
=============================================================================

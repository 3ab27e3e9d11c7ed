-------------------------- MODULE NoteVaultProofs --------------------------
(***************************************************************************)
(* Proofs about NoteVault, for any paths, first notes, calls under way,    *)
(* backend, retention and bounds.                                          *)
(***************************************************************************)
EXTENDS NoteVault, SequenceTheorems, TLAPS

-----------------------------------------------------------------------------
\* What a call carries at each of its stages.
Writing == {"probe", "read", "keep", "write"}
Shape(k) ==
  \/ /\ k.kind = "none" /\ k.at = "done"
     /\ k.path = None /\ k.to = None /\ k.body = None
  \/ /\ k.kind = "save" /\ k.at \in Writing
     /\ k.path \in Path /\ k.to = None /\ k.body \in Text
  \/ /\ k.kind = "open" /\ k.at \in Writing
     /\ k.path \in Path /\ k.to \in Path /\ k.body \in Text
  \/ /\ k.kind = "open" /\ k.at \in {"load", "swap"} /\ k.to \in Path
  \/ /\ k.kind \in Making /\ k.at \in Writing
     /\ k.path \in Path /\ k.to = None /\ k.body \in Text
  \/ /\ k.kind = "copy" /\ k.at = "names"
     /\ k.path = None /\ k.to = None /\ k.body \in Text
  \/ /\ k.kind = "restore" /\ k.at \in Writing
     /\ k.path \in Path /\ k.to = None /\ k.body \in Text
  \/ /\ k.kind \in Moving /\ k.at \in {"rename", "renamed"}
     /\ k.path \in Path /\ k.to \in Path /\ k.body = None
  \/ /\ k.kind = "trash" /\ k.at \in {"bin", "list", "note"}
     /\ k.path \in Path /\ k.to = None /\ k.body = None
  \/ /\ k.kind \in {"remove", "system"} /\ k.at \in {"remove", "drop"}
     /\ k.path \in Path /\ k.to = None /\ k.body = None
  \/ /\ k.kind = "unbin" /\ k.at \in {"unbin", "unlist"}
     /\ k.path \in Path /\ k.to = None /\ k.body = None
  \/ /\ k.kind = "purge" /\ k.at \in {"list", "unlist"}
     /\ k.path = None /\ k.to = None /\ k.body = None
  \/ /\ k.kind = "empty" /\ k.at = "clear"
     /\ k.path = None /\ k.to = None /\ k.body = None

\* A call that keeps or shows what it read has read a text.
WellFormed(k) == Shape(k) /\ (k.at \in {"keep", "swap"} => k.held \in Text)
Staged == \A t \in Task : WellFormed(task[t])
Typed == TypeOK /\ Staged /\ (dirty # None => text # None)

\* What Typed says of the call of a task.
LEMMA CallTyped ==
  ASSUME Typed, NEW t \in Task
  PROVE  task[t] \in Call /\ WellFormed(task[t])
BY DEF Typed, TypeOK, Staged

\* A task whose call moves on is typed if the new call is.
LEMMA CallMoves ==
  ASSUME Typed, NEW t \in Task, NEW r \in Call, WellFormed(r), task' = [task EXCEPT ![t] = r]
  PROVE  /\ task' \in [Task -> Call] /\ Staged'
         /\ task'[t] = r /\ \A u \in Task \ {t} : task'[u] = task[u]
<1>1. task \in [Task -> Call] /\ \A u \in Task : WellFormed(task[u])
  BY DEF Typed, TypeOK, Staged
<1>2. /\ task' \in [Task -> Call]
      /\ task'[t] = r /\ \A u \in Task \ {t} : task'[u] = task[u]
  BY <1>1
<1>3. \A u \in Task : WellFormed(task'[u])
  BY <1>1, <1>2
<1>4. QED
  BY <1>2, <1>3 DEF Staged

\* Texts, calls and the empty call are apart from None.
LEMMA NoneApart == None \notin Path /\ None \notin NoteId /\ None \notin Text
BY VaultAssumption

\* The empty call.
LEMMA NoTaskTyped == NoTask \in Call /\ WellFormed(NoTask)
<1>1. MaxOps \in Nat
  BY VaultAssumption
<1>2. NoTask \in Call
  BY <1>1 DEF NoTask, Call, Kind, Stage, Maybe
<1>3. QED
  BY <1>2 DEF WellFormed, Shape, NoTask

\* A call that ends.
LEMMA DoneTyped ==
  ASSUME Typed, NEW t \in Task, Done(t)
  PROVE  /\ task' \in [Task -> Call] /\ Staged'
         /\ task'[t] = NoTask /\ \A u \in Task \ {t} : task'[u] = task[u]
BY NoTaskTyped, CallMoves DEF Done

\* A call of which only the stage changes.
LEMMA GoTyped ==
  ASSUME Typed, NEW t \in Task, NEW s \in Stage, Go(t, s), WellFormed([task[t] EXCEPT !.at = s])
  PROVE  /\ task' \in [Task -> Call] /\ Staged'
         /\ task'[t] = [task[t] EXCEPT !.at = s] /\ \A u \in Task \ {t} : task'[u] = task[u]
<1> DEFINE r == [task[t] EXCEPT !.at = s]
<1>1. task[t] \in Call
  BY CallTyped
<1>2. r \in Call
  BY <1>1 DEF Call
<1>3. task' = [task EXCEPT ![t] = r]
  BY DEF Go
<1>4. QED
  BY <1>2, <1>3, CallMoves

\* A call that writes what the editor shows.
LEMMA SavingTyped ==
  ASSUME Typed, text \in Text, NEW p \in Path, NEW kind \in {"save", "open", "restore"}, NEW b \in BOOLEAN
  PROVE  /\ Saving(kind, p, b) \in Call
         /\ Saving(kind, p, b).kind = kind /\ Saving(kind, p, b).at = "probe" /\ Saving(kind, p, b).path = p
         /\ Saving(kind, p, b).to = None /\ Saving(kind, p, b).body = text /\ Saving(kind, p, b).fresh = b
         /\ kind # "open" => WellFormed(Saving(kind, p, b))
<1> DEFINE s == Saving(kind, p, b)
<1>1. /\ s \in Call
      /\ s.kind = kind /\ s.at = "probe" /\ s.path = p /\ s.to = None /\ s.body = text /\ s.fresh = b
  BY NoTaskTyped DEF Saving, Call, Kind, Stage, Maybe, NoTask
<1> HIDE DEF s
<1>2. kind # "open" => WellFormed(s)
  BY <1>1 DEF WellFormed, Shape, Writing
<1>3. QED
  BY <1>1, <1>2 DEF s

\* What openNote starts as: a call that saves what is at d first, or reads at once.
OpenCall(p) == OpenFrom("open", p)
SavesFirst(r, d, p) ==
  /\ r \in Call /\ WellFormed(r)
  /\ r.kind = "open" /\ r.to = p /\ r.fresh = FALSE /\ r.name = 0
  /\ r.at = "probe" /\ r.path = d /\ r.body = text
ReadsAtOnce(r, p) ==
  /\ r \in Call /\ WellFormed(r)
  /\ r.kind = "open" /\ r.to = p /\ r.fresh = FALSE /\ r.name = 0
  /\ r.at = "load" /\ r.path = None /\ r.body = None

\* A call that saves what the editor shows before it opens p.
LEMMA OpenSaving ==
  ASSUME Typed, text \in Text, NEW d \in Path, NEW p \in Path, NEW r,
         r = [Saving("open", d, FALSE) EXCEPT !.to = p]
  PROVE  SavesFirst(r, d, p)
<1> DEFINE s == Saving("open", d, FALSE)
<1> HIDE DEF s
<1>1. s \in Call /\ s.kind = "open" /\ s.at = "probe" /\ s.path = d /\ s.body = text /\ s.fresh = FALSE
  BY NoTaskTyped DEF s, Saving, Call, Kind, Stage, Maybe, NoTask
<1>2. s.name = 0
  BY DEF s, Saving, NoTask
<1>3. r = [s EXCEPT !.to = p]
  BY DEF s
<1>4. /\ r \in Call /\ r.kind = "open" /\ r.at = "probe" /\ r.path = d /\ r.to = p /\ r.body = text
      /\ r.fresh = FALSE /\ r.name = 0
  BY <1>1, <1>2, <1>3 DEF Call
<1>5. WellFormed(r)
  BY <1>4 DEF WellFormed, Shape, Writing
<1>6. QED
  BY <1>4, <1>5 DEF SavesFirst

\* A call that reads the note that it opens.
LEMMA OpenLoading ==
  ASSUME NEW p \in Path, NEW r, r = [NoTask EXCEPT !.kind = "open", !.at = "load", !.to = p]
  PROVE  ReadsAtOnce(r, p)
<1>1. /\ r \in Call /\ r.kind = "open" /\ r.at = "load" /\ r.path = None /\ r.to = p /\ r.body = None
      /\ r.fresh = FALSE /\ r.name = 0
  BY NoTaskTyped DEF Call, Kind, Stage, NoTask
<1>2. WellFormed(r)
  BY <1>1 DEF WellFormed, Shape
<1>3. QED
  BY <1>1, <1>2 DEF ReadsAtOnce

\* Which of the two openNote is.
OpensAs(r, p) ==
  \/ /\ dirty \in Path /\ active # None /\ text \in Text
     /\ SavesFirst(r, dirty, p)
  \/ /\ dirty = None \/ active = None
     /\ ReadsAtOnce(r, p)

\* openNote starts as one of the two.
LEMMA OpenFromTyped ==
  ASSUME Typed, NEW p \in Path
  PROVE  OpensAs(OpenCall(p), p) /\ OpenCall(p) \in Call /\ WellFormed(OpenCall(p))
<1>1. CASE dirty # None /\ active # None
  <2>1. OpenCall(p) = [Saving("open", dirty, FALSE) EXCEPT !.to = p]
    BY <1>1 DEF OpenCall, OpenFrom
  <2>2. dirty \in Path /\ text \in Text
    BY <1>1 DEF Typed, TypeOK, Maybe
  <2>3. SavesFirst(OpenCall(p), dirty, p)
    BY <2>1, <2>2, OpenSaving
  <2>4. QED
    BY <1>1, <2>2, <2>3 DEF OpensAs, SavesFirst
<1>2. CASE dirty = None \/ active = None
  <2>1. OpenCall(p) = [NoTask EXCEPT !.kind = "open", !.at = "load", !.to = p]
    BY <1>2 DEF OpenCall, OpenFrom
  <2>2. ReadsAtOnce(OpenCall(p), p)
    BY <2>1, OpenLoading
  <2>3. QED
    BY <1>2, <2>2 DEF OpensAs, ReadsAtOnce
<1>3. QED
  BY <1>1, <1>2

\* What a contending step adds to the history.
LEMMA ContendsTyped ==
  ASSUME Typed, task' \in [Task -> Call], NEW t \in Task, NEW ps \in SUBSET Path, NEW lost \in SUBSET NoteId,
         Contends(t, ps, lost)
  PROVE  excused' \subseteq NoteId /\ crossed' \in BOOLEAN
<1> DEFINE others == Others(t, ps)
           at == ps \cup ({task[u].path : u \in others} \ {None})
           held == ({task[u].body : u \in others} \cup {task'[t].body}) \ {None}
<1>1. others \subseteq Task
  BY DEF Others
<1>2. held \subseteq Text
  BY <1>1 DEF Typed, TypeOK, Call, Maybe
<1>3. \A b \in held : b.of \in NoteId
  BY <1>2 DEF Text
<1>4. at \subseteq Path
  BY <1>1 DEF Typed, TypeOK, Call
<1>5. \A q \in at : lineage[q] \in NoteId \cup {None}
  BY <1>4 DEF Typed, TypeOK
<1>6. excused' = excused \cup lost \cup
         (IF others = {} THEN {} ELSE ({lineage[q] : q \in at} \ {None}) \cup {b.of : b \in held})
  BY DEF Contends
<1> HIDE DEF others, at, held
<1>7. excused' \subseteq NoteId
  BY <1>3, <1>5, <1>6 DEF Typed, TypeOK
<1>8. crossed' \in BOOLEAN
  BY Zenon DEF Contends
<1>9. QED
  BY <1>7, <1>8

\* A call that starts.
LEMMA StartTyped ==
  ASSUME Typed, NEW t \in Task, NEW r \in Call, WellFormed(r), Start(t, r)
  PROVE  /\ task' \in [Task -> Call] /\ Staged' /\ ops' \in 0..MaxOps
         /\ task[t] = NoTask /\ task'[t] = r /\ \A u \in Task \ {t} : task'[u] = task[u]
<1>1. ops' \in 0..MaxOps
  BY VaultAssumption DEF Start, Typed, TypeOK
<1>2. QED
  BY <1>1, CallMoves DEF Start

\* markDirty changes no call but for its freshness.
LEMMA StaleTyped ==
  ASSUME NEW ts \in [Task -> Call], \A t \in Task : WellFormed(ts[t]), task' = Stale(ts)
  PROVE  /\ task' \in [Task -> Call] /\ Staged'
         /\ \A t \in Task :
              /\ task'[t].kind = ts[t].kind /\ task'[t].at = ts[t].at /\ task'[t].path = ts[t].path
              /\ task'[t].to = ts[t].to /\ task'[t].body = ts[t].body /\ task'[t].held = ts[t].held
              /\ task'[t].name = ts[t].name /\ task'[t].items = ts[t].items /\ task'[t].fresh = FALSE
<1>1. ASSUME NEW t \in Task
      PROVE  /\ task'[t] \in Call /\ WellFormed(task'[t])
             /\ task'[t].kind = ts[t].kind /\ task'[t].at = ts[t].at /\ task'[t].path = ts[t].path
             /\ task'[t].to = ts[t].to /\ task'[t].body = ts[t].body /\ task'[t].held = ts[t].held
             /\ task'[t].name = ts[t].name /\ task'[t].items = ts[t].items /\ task'[t].fresh = FALSE
  <2> DEFINE r == [ts[t] EXCEPT !.fresh = FALSE]
  <2>1. task'[t] = r /\ ts[t] \in Call /\ WellFormed(ts[t])
    BY DEF Stale
  <2>2. /\ r \in Call
        /\ r.kind = ts[t].kind /\ r.at = ts[t].at /\ r.path = ts[t].path /\ r.to = ts[t].to
        /\ r.body = ts[t].body /\ r.held = ts[t].held
        /\ r.name = ts[t].name /\ r.items = ts[t].items /\ r.fresh = FALSE
    BY <2>1 DEF Call
  <2> HIDE DEF r
  <2>4. WellFormed(r)
    BY <2>1, <2>2 DEF WellFormed, Shape
  <2>5. QED
    BY <2>1, <2>2, <2>4
<1>2. task' \in [Task -> Call]
  BY <1>1 DEF Stale
<1>3. QED
  BY <1>1, <1>2 DEF Staged

\* The texts that a store of versions gives up or takes.
LEMMA VersionsKept ==
  ASSUME NEW s \in Seq(Text), Len(s) <= MaxVersions, NEW x \in Text
  PROVE  /\ Append(s, x) \in Seq(Text) /\ Head(Append(s, x)) \in Text
         /\ Tail(Append(s, x)) \in Seq(Text) /\ Len(Tail(Append(s, x))) <= MaxVersions
         /\ Len(Append(s, x)) = Len(s) + 1
<1>1. MaxVersions \in Nat /\ Len(s) \in Nat
  BY VaultAssumption
<1>2. Append(s, x) \in Seq(Text) /\ Append(s, x) # <<>> /\ Len(Append(s, x)) = Len(s) + 1
  BY AppendProperties
<1>3. /\ Head(Append(s, x)) \in Text /\ Tail(Append(s, x)) \in Seq(Text)
      /\ Len(Tail(Append(s, x))) = Len(Append(s, x)) - 1
  BY <1>2, HeadTailProperties
<1>4. QED
  BY <1>1, <1>2, <1>3

\* Edits that are not saved are of a note.
LEMMA UnsavedTyped == Typed => Unsaved \subseteq NoteId /\ Unflushed \subseteq NoteId
BY DEF Typed, TypeOK, Unsaved, Unflushed, Maybe, Text

\* A note that is made.
LEMMA BornTyped ==
  ASSUME Typed, ops < MaxOps, Born(ops + 1)
  PROVE  /\ DOMAIN typed' \subseteq NoteId /\ typed' \in [DOMAIN typed' -> 0..MaxEdits]
         /\ Blank \in Text
<1>1. ops + 1 \in NoteId /\ 0 \in 0..MaxEdits
  BY VaultAssumption DEF Typed, TypeOK, NoteId
<1>2. Blank \in Text
  BY <1>1 DEF Blank, Text
<1>3. DOMAIN typed' = DOMAIN typed \cup {ops + 1}
  BY DEF Born
<1>4. QED
  BY <1>1, <1>2, <1>3 DEF Born, Typed, TypeOK

\* What the steps of saves, openings and edits do is typed.
LEMMA EditorTyped ==
  ASSUME Typed, Edit \/ TimerIdle \/ CloseNote \/ Crash \/ \E p \in Path : Elapse(p)
  PROVE  Typed'
<1>1. CASE Edit
  <2>1. task' \in [Task -> Call] /\ Staged'
    BY <1>1, StaleTyped DEF Edit, Typed, TypeOK, Staged
  <2>2. text \in Text /\ text.of \in NoteId
    BY <1>1 DEF Edit, Typed, TypeOK, Maybe, Text
  <2>3. edits' \in 0..MaxEdits /\ edits' = edits + 1
    BY <1>1, VaultAssumption DEF Edit, Typed, TypeOK
  <2>4. text' \in Text
    BY <1>1, <2>2, <2>3 DEF Edit, Text
  <2>5. DOMAIN typed' = DOMAIN typed /\ typed' \in [DOMAIN typed' -> 0..MaxEdits]
    BY <1>1, <2>3 DEF Edit, Typed, TypeOK
  <2>6. excused' \subseteq NoteId
    BY <1>1, <2>2 DEF Edit, Typed, TypeOK
  <2>7. active' \in Path /\ dirty' \in Path /\ timer' \in Path
    BY <1>1 DEF Edit, Typed, TypeOK
  <2>8. text' # None
    BY <2>4, NoneApart
  <2>9. /\ UNCHANGED <<disk, versions, recent, trash, manifest>>
        /\ UNCHANGED <<ops, crashes, lineage, crossed, rushed>>
    BY <1>1 DEF Edit, files, bin
  <2>10. QED
    BY <2>1, <2>3, <2>4, <2>5, <2>6, <2>7, <2>8, <2>9 DEF Typed, TypeOK, Maybe
<1>2. CASE TimerIdle
  BY <1>2 DEF TimerIdle, Typed, TypeOK, Staged, files, bin, history
<1>3. CASE CloseNote
  BY <1>3, UnsavedTyped DEF CloseNote, Typed, TypeOK, Staged, files, bin
<1>4. CASE Crash
  <2>1. task' \in [Task -> Call] /\ Staged'
    BY <1>4, NoTaskTyped DEF Crash, Staged
  <2>2. excused' \subseteq NoteId
    BY <1>4, UnsavedTyped DEF Crash, Typed, TypeOK, Call, Maybe, Text
  <2>3. crashes' \in 0..MaxCrashes
    BY <1>4, VaultAssumption DEF Crash, Typed, TypeOK
  <2>4. rushed' \in BOOLEAN
    BY <1>4 DEF Crash, Rushing, Typed, TypeOK
  <2>5. QED
    BY <1>4, <2>1, <2>2, <2>3, <2>4 DEF Crash, Typed, TypeOK, bin, Maybe
<1>5. CASE \E p \in Path : Elapse(p)
  BY <1>5 DEF Elapse, Typed, TypeOK, Staged, bin, editor, history
<1>6. QED
  BY <1>1, <1>2, <1>3, <1>4, <1>5

\* What the steps of saves and openings do is typed.
LEMMA SavesTyped ==
  ASSUME Typed, NEW t \in Task,
         \/ TimerFires(t) \/ SaveNow(t) \/ Load(t) \/ Swap(t)
         \/ Probe(t) \/ ReadOld(t) \/ KeepOld(t) \/ (\E p \in Path : RestoreVersion(t, p))
         \/ \E p \in Path : OpenNote(t, p)
  PROVE  Typed'
<1>1. CASE TimerFires(t)
  <2> DEFINE r == Saving("save", timer, TRUE)
  <2>1. timer \in Path /\ text \in Text
    BY <1>1 DEF TimerFires, Typed, TypeOK, Maybe
  <2>2. r \in Call /\ WellFormed(r)
    BY <2>1, SavingTyped
  <2>3. task' \in [Task -> Call] /\ Staged' /\ ops' \in 0..MaxOps
    BY <1>1, <2>2, StartTyped DEF TimerFires
  <2>4. excused' \subseteq NoteId /\ crossed' \in BOOLEAN
    BY <1>1, <2>1, <2>3, ContendsTyped DEF TimerFires
  <2>5. QED
    BY <1>1, <2>3, <2>4 DEF TimerFires, Typed, TypeOK, files, bin
<1>2. CASE SaveNow(t)
  <2> DEFINE r == Saving("save", active, FALSE)
  <2>1. active \in Path /\ text \in Text
    BY <1>2 DEF SaveNow, Typed, TypeOK, Maybe
  <2>2. r \in Call /\ WellFormed(r)
    BY <2>1, SavingTyped
  <2>3. task' \in [Task -> Call] /\ Staged' /\ ops' \in 0..MaxOps
    BY <1>2, <2>2, StartTyped DEF SaveNow
  <2>4. excused' \subseteq NoteId /\ crossed' \in BOOLEAN
    BY <1>2, <2>1, <2>3, ContendsTyped DEF SaveNow
  <2>5. QED
    BY <1>2, <2>3, <2>4 DEF SaveNow, Typed, TypeOK, files, bin, editor
<1>3. CASE Load(t)
  <2>1. task[t] \in Call /\ WellFormed(task[t]) /\ task[t].at = "load"
    BY <1>3, CallTyped DEF Load
  <2>2. task[t].kind = "open" /\ task[t].to \in Path
    BY <2>1 DEF WellFormed, Shape, Writing, Making, Moving
  <2>3. CASE disk[task[t].to] = None
    <3>1. task' \in [Task -> Call] /\ Staged'
      BY <1>3, <2>3, DoneTyped DEF Load
    <3>2. QED
      BY <1>3, <3>1 DEF Load, Typed, TypeOK, files, bin, editor, history
  <2>4. CASE disk[task[t].to] # None
    <3> DEFINE r == [task[t] EXCEPT !.at = "swap", !.held = disk[task[t].to]]
    <3>1. disk[task[t].to] \in Text
      BY <2>2, <2>4 DEF Typed, TypeOK, Maybe
    <3>2. r \in Call
      BY <2>1, <3>1 DEF Call, Stage, Maybe
    <3>3. r.kind = "open" /\ r.at = "swap" /\ r.to = task[t].to /\ r.held = disk[task[t].to]
      BY <2>1, <2>2 DEF Call
    <3>4. task' = [task EXCEPT ![t] = r]
      BY <1>3, <2>4 DEF Load
    <3> HIDE DEF r
    <3>5. WellFormed(r)
      BY <2>2, <3>1, <3>3 DEF WellFormed, Shape
    <3>6. task' \in [Task -> Call] /\ Staged'
      BY <3>2, <3>4, <3>5, CallMoves
    <3>7. QED
      BY <1>3, <3>6 DEF Load, Typed, TypeOK, files, bin, editor, history
  <2>5. QED
    BY <2>3, <2>4
<1>4. CASE Swap(t)
  <2> DEFINE ts == [task EXCEPT ![t] = NoTask]
  <2>1. task[t] \in Call /\ WellFormed(task[t]) /\ task[t].at = "swap"
    BY <1>4, CallTyped DEF Swap
  <2>2. task[t].to \in Path /\ task[t].held \in Text
    BY <2>1 DEF WellFormed, Shape, Writing, Making, Moving
  <2>3. ts \in [Task -> Call] /\ \A u \in Task : WellFormed(ts[u])
    BY NoTaskTyped DEF Typed, TypeOK, Staged
  <2>4. task' = Stale(ts)
    BY <1>4 DEF Swap
  <2> HIDE DEF ts
  <2>5. task' \in [Task -> Call] /\ Staged'
    BY <2>3, <2>4, StaleTyped
  <2>6. active' \in Path /\ text' \in Text /\ dirty' = None /\ timer' \in Path
    BY <1>4, <2>2 DEF Swap
  <2>7. QED
    BY <1>4, <2>5, <2>6, NoneApart DEF Swap, Typed, TypeOK, files, bin, history, Maybe
<1>5. CASE Probe(t)
  <2>1. task[t] \in Call /\ WellFormed(task[t]) /\ task[t].at = "probe"
    BY <1>5, CallTyped DEF Probe
  <2>2. task[t].path \in Path
    BY <2>1 DEF WellFormed, Shape, Writing, Making, Moving
  <2>3. \A s \in {"read", "write"} :
          /\ s \in Stage
          /\ WellFormed([task[t] EXCEPT !.at = s])
    BY <2>1 DEF WellFormed, Shape, Writing, Making, Moving, Call, Stage
  <2>4. task' \in [Task -> Call] /\ Staged'
    BY <1>5, <2>3, GoTyped DEF Probe
  <2>5. excused' \subseteq NoteId /\ recent' \subseteq Path
    BY <1>5, <2>2 DEF Probe, Typed, TypeOK
  <2>6. QED
    BY <1>5, <2>4, <2>5 DEF Probe, Typed, TypeOK, bin, editor
<1>6. CASE ReadOld(t)
  <2>1. task[t] \in Call /\ WellFormed(task[t]) /\ task[t].at = "read"
    BY <1>6, CallTyped DEF ReadOld
  <2>2. task[t].path \in Path
    BY <2>1 DEF WellFormed, Shape, Writing, Making, Moving
  <2>3. CASE disk[task[t].path] # None
    <3> DEFINE r == [task[t] EXCEPT !.at = "keep", !.held = disk[task[t].path]]
    <3>1. disk[task[t].path] \in Text
      BY <2>2, <2>3 DEF Typed, TypeOK, Maybe
    <3>2. r \in Call
      BY <2>1, <3>1 DEF Call, Stage, Maybe
    <3>3. /\ r.kind = task[t].kind /\ r.at = "keep" /\ r.path = task[t].path /\ r.to = task[t].to
          /\ r.body = task[t].body /\ r.held = disk[task[t].path]
      BY <2>1 DEF Call
    <3>4. task' = [task EXCEPT ![t] = r]
      BY <1>6, <2>3 DEF ReadOld
    <3> HIDE DEF r
    <3>5. WellFormed(r)
      BY <2>1, <3>1, <3>3 DEF WellFormed, Shape, Writing, Making, Moving
    <3>6. task' \in [Task -> Call] /\ Staged'
      BY <3>2, <3>4, <3>5, CallMoves
    <3>7. QED
      BY <1>6, <3>6 DEF ReadOld, Typed, TypeOK, files, bin, editor, history
  <2>4. CASE disk[task[t].path] = None /\ task[t].kind = "open"
    <3> DEFINE r == [task[t] EXCEPT !.at = "load"]
    <3>1. task' = [task EXCEPT ![t] = r] /\ r \in Call
      BY <1>6, <2>1, <2>4 DEF ReadOld, Call, Stage
    <3>2. WellFormed(r)
      BY <2>1, <2>4 DEF WellFormed, Shape, Writing, Making, Moving, Call
    <3>3. task' \in [Task -> Call] /\ Staged'
      BY <3>1, <3>2, CallMoves
    <3>4. QED
      BY <1>6, <3>3 DEF ReadOld, Typed, TypeOK, files, bin, editor, history
  <2>5. CASE disk[task[t].path] = None /\ task[t].kind # "open"
    <3>1. task' \in [Task -> Call] /\ Staged'
      BY <1>6, <2>5, DoneTyped DEF ReadOld
    <3>2. QED
      BY <1>6, <3>1 DEF ReadOld, Typed, TypeOK, files, bin, editor, history
  <2>6. QED
    BY <2>3, <2>4, <2>5
<1>7. CASE KeepOld(t)
  <2> DEFINE p == task[t].path
             kept == Append(versions[p], task[t].held)
  <2>1. task[t] \in Call /\ WellFormed(task[t]) /\ task[t].at = "keep"
    BY <1>7, CallTyped DEF KeepOld
  <2>2. p \in Path /\ task[t].held \in Text
    BY <2>1 DEF WellFormed, Shape, Writing, Making, Moving
  <2>3. "write" \in Stage /\ WellFormed([task[t] EXCEPT !.at = "write"])
    BY <2>1 DEF WellFormed, Shape, Writing, Making, Moving, Call, Stage
  <2>4. task' \in [Task -> Call] /\ Staged'
    BY <1>7, <2>3, GoTyped DEF KeepOld
  <2>5. versions[p] \in Seq(Text) /\ Len(versions[p]) <= MaxVersions
    BY <2>2 DEF Typed, TypeOK
  <2>6. /\ kept \in Seq(Text) /\ Tail(kept) \in Seq(Text) /\ Len(Tail(kept)) <= MaxVersions
        /\ Head(kept) \in Text /\ Len(kept) \in Nat
    BY <2>2, <2>5, VersionsKept
  <2>7. /\ versions' = [versions EXCEPT ![p] = IF Len(kept) > MaxVersions THEN Tail(kept) ELSE kept]
        /\ excused' \in {excused, excused \cup {Head(kept).of}}
    BY <1>7 DEF KeepOld
  <2> HIDE DEF kept
  <2>8. versions' \in [Path -> Seq(Text)] /\ \A q \in Path : Len(versions'[q]) <= MaxVersions
    BY <2>2, <2>6, <2>7, VaultAssumption DEF Typed, TypeOK
  <2>9. excused' \subseteq NoteId
    BY <2>6, <2>7 DEF Typed, TypeOK, Text
  <2>10. QED
    BY <1>7, <2>4, <2>8, <2>9 DEF KeepOld, Typed, TypeOK, bin, editor
<1>8. CASE \E p \in Path : RestoreVersion(t, p)
  <2>1. PICK p \in Path : RestoreVersion(t, p)
    BY <1>8
  <2>2. PICK i \in 1..Len(versions[p]) :
          Start(t, [NoTask EXCEPT !.kind = "restore", !.at = "probe", !.path = p, !.body = versions[p][i]])
    BY <2>1 DEF RestoreVersion
  <2> DEFINE b == versions[p][i]
             r == [NoTask EXCEPT !.kind = "restore", !.at = "probe", !.path = p, !.body = b]
  <2>3. b \in Text
    BY <2>2, ElementOfSeq DEF Typed, TypeOK
  <2>4. Start(t, r)
    BY <2>2
  <2> HIDE DEF b
  <2>5. r \in Call /\ r.kind = "restore" /\ r.at = "probe" /\ r.path = p /\ r.to = None /\ r.body = b
    BY <2>3, NoTaskTyped DEF Call, Kind, Stage, NoTask, Maybe
  <2> HIDE DEF r
  <2>6. WellFormed(r)
    BY <2>3, <2>5 DEF WellFormed, Shape, Writing
  <2>7. task' \in [Task -> Call] /\ Staged' /\ ops' \in 0..MaxOps
    BY <2>4, <2>5, <2>6, StartTyped
  <2>8. excused' \subseteq NoteId /\ crossed' \in BOOLEAN
    <3>1. {p} \in SUBSET Path /\ {} \in SUBSET NoteId
      OBVIOUS
    <3>2. QED
      BY <2>1, <2>7, <3>1, ContendsTyped DEF RestoreVersion
  <2>9. QED
    BY <2>1, <2>7, <2>8 DEF RestoreVersion, Typed, TypeOK, files, bin, editor
<1>9. CASE \E p \in Path : OpenNote(t, p)
  <2>1. PICK p \in Path : OpenNote(t, p)
    BY <1>9
  <2>2. task' \in [Task -> Call] /\ Staged' /\ ops' \in 0..MaxOps
    BY <2>1, OpenFromTyped, StartTyped DEF OpenNote, OpenCall
  <2>3. {p, dirty} \ {None} \in SUBSET Path
    BY DEF Typed, TypeOK
  <2>4. excused' \subseteq NoteId /\ crossed' \in BOOLEAN
    BY <2>1, <2>2, <2>3, ContendsTyped, UnsavedTyped DEF OpenNote
  <2>5. QED
    BY <2>1, <2>2, <2>4 DEF OpenNote, Typed, TypeOK, files, bin
<1>10. QED
  BY <1>1, <1>2, <1>3, <1>4, <1>5, <1>6, <1>7, <1>8, <1>9

\* A call that goes on by opening a note is typed.
LEMMA GoOpenTyped ==
  ASSUME Typed, NEW t \in Task, NEW p \in Path, GoOpen(t, p)
  PROVE  /\ task' \in [Task -> Call] /\ Staged'
         /\ excused' \subseteq NoteId /\ crossed' \in BOOLEAN /\ dirty' = None
         /\ task'[t] = OpenCall(p) /\ \A u \in Task \ {t} : task'[u] = task[u]
<1>1. /\ task' \in [Task -> Call] /\ Staged'
      /\ task'[t] = OpenCall(p) /\ \A u \in Task \ {t} : task'[u] = task[u]
  BY OpenFromTyped, CallMoves DEF GoOpen, OpenCall
<1>2. {p, dirty} \ {None} \in SUBSET Path
  BY DEF Typed, TypeOK
<1>3. excused' \subseteq NoteId /\ crossed' \in BOOLEAN
  BY <1>1, <1>2, ContendsTyped, UnsavedTyped DEF GoOpen
<1>4. QED
  BY <1>1, <1>3 DEF GoOpen

\* What the file writes and the steps that make a note do is typed.
LEMMA WritesTyped ==
  ASSUME Typed, NEW t \in Task,
         \/ Write(t)
         \/ \E p \in Path : CreateNote(t, p) \/ DuplicateNote(t, p) \/ FreeName(t, p)
  PROVE  Typed'
<1>1. CASE Write(t)
  <2> DEFINE k == task[t]
  <2>1. k \in Call /\ WellFormed(k) /\ k.at = "write"
    BY <1>1, CallTyped DEF Write
  <2>2. k.path \in Path /\ k.body \in Text /\ (k.kind = "open" => k.to \in Path)
    BY <2>1 DEF WellFormed, Shape, Writing, Making, Moving
  <2>3. k.body.of \in NoteId
    BY <2>2 DEF Text
  <2> HIDE DEF k
  <2>4. disk' \in [Path -> Maybe] /\ lineage' \in [Path -> NoteId \cup {None}]
    BY <1>1, <2>2, <2>3 DEF Write, Typed, TypeOK, Maybe, k
  <2>5. /\ task' \in [Task -> Call] /\ Staged'
        /\ excused' \subseteq NoteId /\ crossed' \in BOOLEAN /\ dirty' \in {dirty, None}
    <3>1. CASE k.kind = "save" /\ Done(t) /\ dirty' \in {dirty, None} /\ UNCHANGED <<excused, crossed>>
      BY <3>1, DoneTyped DEF Typed, TypeOK
    <3>2. CASE /\ k.kind = "open"
               /\ task' = [task EXCEPT ![t] = [NoTask EXCEPT !.kind = "open", !.at = "load", !.to = k.to]]
               /\ UNCHANGED <<dirty, excused, crossed>>
      <4> DEFINE r == [NoTask EXCEPT !.kind = "open", !.at = "load", !.to = k.to]
      <4>1. ReadsAtOnce(r, k.to)
        BY <3>2, <2>2, OpenLoading
      <4>2. task' = [task EXCEPT ![t] = r]
        BY <3>2
      <4> HIDE DEF r
      <4>3. task' \in [Task -> Call] /\ Staged'
        BY <4>1, <4>2, CallMoves DEF ReadsAtOnce
      <4>4. QED
        BY <3>2, <4>3 DEF Typed, TypeOK
    <3>3. CASE k.kind = "restore" /\ active = k.path /\ GoOpen(t, active)
      BY <2>2, <3>3, GoOpenTyped
    <3>4. CASE k.kind \in Making /\ GoOpen(t, k.path)
      BY <2>2, <3>4, GoOpenTyped
    <3>5. CASE Done(t) /\ UNCHANGED <<dirty, excused, crossed>>
      BY <3>5, DoneTyped DEF Typed, TypeOK
    <3>6. QED
      BY <1>1, <3>1, <3>2, <3>3, <3>4, <3>5 DEF Write, k
  <2>6. QED
    BY <1>1, <2>4, <2>5 DEF Write, Typed, TypeOK, bin
<1>2. CASE \E p \in Path : CreateNote(t, p)
  <2>1. PICK p \in Path : CreateNote(t, p)
    BY <1>2
  <2> DEFINE r == [NoTask EXCEPT !.kind = "create", !.at = "probe", !.path = p, !.body = Blank]
  <2>2. /\ DOMAIN typed' \subseteq NoteId /\ typed' \in [DOMAIN typed' -> 0..MaxEdits]
        /\ Blank \in Text
    BY <2>1, BornTyped DEF CreateNote, Start
  <2>3. r \in Call /\ r.kind = "create" /\ r.at = "probe" /\ r.path = p /\ r.to = None /\ r.body = Blank
    BY <2>2, NoTaskTyped DEF Call, Kind, Stage, Maybe, NoTask
  <2>4. Start(t, r)
    BY <2>1 DEF CreateNote
  <2> HIDE DEF r
  <2>5. WellFormed(r)
    BY <2>2, <2>3 DEF WellFormed, Shape, Writing, Making
  <2>6. task' \in [Task -> Call] /\ Staged' /\ ops' \in 0..MaxOps
    BY <2>3, <2>4, <2>5, StartTyped
  <2>7. excused' \subseteq NoteId /\ crossed' \in BOOLEAN
    <3>1. {p} \in SUBSET Path /\ {} \in SUBSET NoteId
      OBVIOUS
    <3>2. QED
      BY <2>1, <2>6, <3>1, ContendsTyped DEF CreateNote
  <2>8. QED
    BY <2>1, <2>2, <2>6, <2>7 DEF CreateNote, Typed, TypeOK, files, bin, editor
<1>3. CASE \E p \in Path : DuplicateNote(t, p)
  <2>1. PICK p \in Path : DuplicateNote(t, p)
    BY <1>3
  <2> DEFINE r == [NoTask EXCEPT !.kind = "copy", !.at = "names", !.body = Blank]
  <2>2. /\ DOMAIN typed' \subseteq NoteId /\ typed' \in [DOMAIN typed' -> 0..MaxEdits]
        /\ Blank \in Text
    BY <2>1, BornTyped DEF DuplicateNote, Start
  <2>3. r \in Call /\ r.kind = "copy" /\ r.at = "names" /\ r.path = None /\ r.to = None /\ r.body = Blank
    BY <2>2, NoTaskTyped DEF Call, Kind, Stage, Maybe, NoTask
  <2>4. Start(t, r)
    BY <2>1 DEF DuplicateNote
  <2> HIDE DEF r
  <2>5. WellFormed(r)
    BY <2>2, <2>3 DEF WellFormed, Shape, Writing, Making
  <2>6. task' \in [Task -> Call] /\ Staged' /\ ops' \in 0..MaxOps
    BY <2>3, <2>4, <2>5, StartTyped
  <2>7. QED
    BY <2>1, <2>2, <2>6 DEF DuplicateNote, Typed, TypeOK, files, bin, editor
<1>4. CASE \E p \in Path : FreeName(t, p)
  <2>1. PICK p \in Path : FreeName(t, p)
    BY <1>4
  <2> DEFINE r == [task[t] EXCEPT !.at = "probe", !.path = p]
  <2>2. task[t] \in Call /\ WellFormed(task[t]) /\ task[t].at = "names"
    BY <2>1, CallTyped DEF FreeName
  <2>3. task[t].kind = "copy" /\ task[t].to = None /\ task[t].body \in Text
    BY <2>2 DEF WellFormed, Shape, Writing, Making, Moving
  <2>4. /\ r \in Call /\ r.kind = "copy" /\ r.at = "probe" /\ r.path = p /\ r.to = None
        /\ r.body = task[t].body
    BY <2>2, <2>3 DEF Call, Stage
  <2>5. task' = [task EXCEPT ![t] = r]
    BY <2>1 DEF FreeName
  <2> HIDE DEF r
  <2>6. WellFormed(r)
    BY <2>3, <2>4 DEF WellFormed, Shape, Writing, Making
  <2>7. task' \in [Task -> Call] /\ Staged'
    BY <2>4, <2>5, <2>6, CallMoves
  <2>8. excused' \subseteq NoteId /\ crossed' \in BOOLEAN
    <3>1. {p} \in SUBSET Path /\ {} \in SUBSET NoteId
      OBVIOUS
    <3>2. QED
      BY <2>1, <2>7, <3>1, ContendsTyped DEF FreeName
  <2>9. QED
    BY <2>1, <2>7, <2>8 DEF FreeName, Typed, TypeOK, files, bin, editor
<1>5. QED
  BY <1>1, <1>2, <1>3, <1>4

\* The editor shows something as long as a note is renamed.
Showing == \A t \in Task : task[t].kind = "rename" => text # None

\* What the steps of a rename or a move do is typed.
LEMMA MovesTyped ==
  ASSUME Typed, Showing, NEW t \in Task,
         \/ DoRename(t) \/ Renamed(t)
         \/ \E p, q \in Path, kind \in {"rename", "move"} : Rename(t, kind, p, q)
  PROVE  Typed'
<1>1. CASE \E p, q \in Path, kind \in {"rename", "move"} : Rename(t, kind, p, q)
  <2>1. PICK p \in Path, q \in Path, kind \in {"rename", "move"} : Rename(t, kind, p, q)
    BY <1>1
  <2> DEFINE r == [NoTask EXCEPT !.kind = kind, !.at = "rename", !.path = p, !.to = q]
  <2>3. r \in Call /\ r.kind = kind /\ r.at = "rename" /\ r.path = p /\ r.to = q /\ r.body = None
    BY NoTaskTyped DEF Call, Kind, Stage, NoTask
  <2>4. Start(t, r)
    BY <2>1 DEF Rename
  <2> HIDE DEF r
  <2>5. WellFormed(r)
    BY <2>3 DEF WellFormed, Shape, Moving
  <2>6. task' \in [Task -> Call] /\ Staged' /\ ops' \in 0..MaxOps
    BY <2>3, <2>4, <2>5, StartTyped
  <2>7. excused' \subseteq NoteId /\ crossed' \in BOOLEAN
    <3>1. {p, q} \in SUBSET Path /\ {} \in SUBSET NoteId
      OBVIOUS
    <3>2. QED
      BY <2>1, <2>6, <3>1, ContendsTyped DEF Rename
  <2>8. QED
    BY <2>1, <2>6, <2>7 DEF Rename, Typed, TypeOK, files, bin, editor
<1>2. CASE DoRename(t)
  <2>1. task[t] \in Call /\ WellFormed(task[t]) /\ task[t].at = "rename"
    BY <1>2, CallTyped DEF DoRename
  <2>2. task[t].path \in Path /\ task[t].to \in Path
    BY <2>1 DEF WellFormed, Shape, Writing, Making, Moving
  <2>3. "renamed" \in Stage /\ WellFormed([task[t] EXCEPT !.at = "renamed"])
    BY <2>1 DEF WellFormed, Shape, Writing, Making, Moving, Call, Stage
  <2>4. task' \in [Task -> Call] /\ Staged'
    BY <1>2, <2>3, GoTyped, DoneTyped DEF DoRename
  <2>5. disk' \in [Path -> Maybe] /\ lineage' \in [Path -> NoteId \cup {None}]
    BY <1>2, <2>2 DEF DoRename, Typed, TypeOK, Maybe
  <2>6. QED
    BY <1>2, <2>4, <2>5 DEF DoRename, Typed, TypeOK, bin, editor
<1>3. CASE Renamed(t)
  <2> DEFINE q == task[t].to
             moved == IF dirty = task[t].path THEN q ELSE dirty
  <2>1. task[t] \in Call /\ WellFormed(task[t]) /\ task[t].at = "renamed"
    BY <1>3, CallTyped DEF Renamed
  <2>2. task[t].path \in Path /\ task[t].to \in Path
    BY <2>1 DEF WellFormed, Shape, Writing, Making, Moving
  <2>3. moved \in Path \cup {None} /\ (moved # None => dirty # None)
    BY <2>2, NoneApart DEF Typed, TypeOK
  <2>4. CASE task[t].kind = "rename" /\ dirty' = moved /\ active' = q /\ Done(t) /\ UNCHANGED <<excused, crossed>>
    <3>1. task' \in [Task -> Call] /\ Staged'
      BY <2>4, DoneTyped
    <3>2. text # None
      BY <2>4 DEF Showing
    <3> HIDE DEF moved
    <3>3. QED
      BY <1>3, <2>2, <2>3, <2>4, <3>1, <3>2 DEF Renamed, Typed, TypeOK, files, bin
  <2>5. CASE /\ task' = [task EXCEPT ![t] =
                  IF moved # None /\ active # None THEN [Saving("open", moved, FALSE) EXCEPT !.to = q]
                  ELSE [NoTask EXCEPT !.kind = "open", !.at = "load", !.to = q]]
             /\ dirty' = None
             /\ Contends(t, {moved, q} \ {None}, Unflushed)
             /\ UNCHANGED active
    <3>1. ASSUME moved # None /\ active # None
          PROVE  task' \in [Task -> Call] /\ Staged'
      <4>1. moved \in Path /\ text \in Text
        BY <2>3, <3>1 DEF Typed, TypeOK, Maybe
      <4> DEFINE r == [Saving("open", moved, FALSE) EXCEPT !.to = q]
      <4>2. task' = [task EXCEPT ![t] = r]
        BY <2>5, <3>1
      <4> HIDE DEF moved
      <4>3. SavesFirst(r, moved, q)
        BY <2>2, <4>1, OpenSaving
      <4> HIDE DEF r
      <4>4. QED
        BY <4>2, <4>3, CallMoves DEF SavesFirst
    <3>2. ASSUME ~(moved # None /\ active # None)
          PROVE  task' \in [Task -> Call] /\ Staged'
      <4> DEFINE r == [NoTask EXCEPT !.kind = "open", !.at = "load", !.to = q]
      <4>1. task' = [task EXCEPT ![t] = r]
        BY <2>5, <3>2
      <4>2. ReadsAtOnce(r, q)
        BY <2>2, OpenLoading
      <4> HIDE DEF r
      <4>3. QED
        BY <4>1, <4>2, CallMoves DEF ReadsAtOnce
    <3>3. task' \in [Task -> Call] /\ Staged'
      BY <3>1, <3>2
    <3> HIDE DEF moved
    <3>4. {moved, q} \ {None} \in SUBSET Path
      BY <2>2, <2>3
    <3>5. excused' \subseteq NoteId /\ crossed' \in BOOLEAN
      BY <2>5, <3>3, <3>4, ContendsTyped, UnsavedTyped
    <3>6. QED
      BY <1>3, <2>5, <3>3, <3>5 DEF Renamed, Typed, TypeOK, files, bin
  <2>6. QED
    BY <1>3, <2>4, <2>5 DEF Renamed
<1>4. QED
  BY <1>1, <1>2, <1>3

\* What the steps of calls on the trash and of removals do is typed.
LEMMA RemovalsTyped ==
  ASSUME Typed, NEW t \in Task,
         \/ DoRemove(t) \/ DropVersions(t)
         \/ \E p \in Path, kind \in {"remove", "system"} : Remove(t, kind, p)
  PROVE  Typed'
<1>1. CASE \E p \in Path, kind \in {"remove", "system"} : Remove(t, kind, p)
  <2>1. PICK p \in Path, kind \in {"remove", "system"} : Remove(t, kind, p)
    BY <1>1
  <2> DEFINE r == [NoTask EXCEPT !.kind = kind, !.at = "remove", !.path = p]
  <2>2. r \in Call /\ r.kind = kind /\ r.at = "remove" /\ r.path = p /\ r.to = None /\ r.body = None
    BY NoTaskTyped DEF Call, Kind, Stage, NoTask
  <2>3. Start(t, r)
    BY <2>1 DEF Remove
  <2> HIDE DEF r
  <2>4. WellFormed(r)
    BY <2>2 DEF WellFormed, Shape
  <2>5. task' \in [Task -> Call] /\ Staged' /\ ops' \in 0..MaxOps
    BY <2>2, <2>3, <2>4, StartTyped
  <2>6. {p} \in SUBSET Path /\ Below(p) \in SUBSET NoteId
    <3>1. \A i \in 1..Len(versions[p]) : versions[p][i] \in Text
      BY ElementOfSeq DEF Typed, TypeOK
    <3>2. QED
      BY <3>1 DEF Below, Typed, TypeOK, Maybe, Text
  <2>7. excused' \subseteq NoteId /\ crossed' \in BOOLEAN
    BY <2>1, <2>5, <2>6, ContendsTyped DEF Remove
  <2>8. QED
    BY <2>1, <2>5, <2>7 DEF Remove, Typed, TypeOK, bin, editor
<1>2. CASE DoRemove(t)
  <2>1. task[t] \in Call /\ WellFormed(task[t]) /\ task[t].at = "remove"
    BY <1>2, CallTyped DEF DoRemove
  <2>2. "drop" \in Stage /\ WellFormed([task[t] EXCEPT !.at = "drop"]) /\ task[t].path \in Path
    BY <2>1 DEF WellFormed, Shape, Writing, Making, Moving, Call, Stage
  <2>3. task' \in [Task -> Call] /\ Staged'
    BY <1>2, <2>2, GoTyped, DoneTyped DEF DoRemove
  <2>4. disk' \in [Path -> Maybe] /\ lineage' \in [Path -> NoteId \cup {None}]
    BY <1>2, <2>2 DEF DoRemove, Typed, TypeOK, Maybe
  <2>5. QED
    BY <1>2, <2>3, <2>4 DEF DoRemove, Typed, TypeOK, bin, editor
<1>3. CASE DropVersions(t)
  <2>1. task[t] \in Call /\ WellFormed(task[t]) /\ task[t].at = "drop"
    BY <1>3, CallTyped DEF DropVersions
  <2>2. task[t].path \in Path
    BY <2>1 DEF WellFormed, Shape, Writing, Making, Moving
  <2>3. task' \in [Task -> Call] /\ Staged'
    BY <1>3, DoneTyped DEF DropVersions
  <2>4. versions' \in [Path -> Seq(Text)] /\ \A p \in Path : Len(versions'[p]) <= MaxVersions
    <3>1. <<>> \in Seq(Text) /\ Len(<<>>) = 0 /\ 0 <= MaxVersions
      BY VaultAssumption, EmptySeq
    <3>2. QED
      BY <1>3, <2>2, <3>1 DEF DropVersions, Typed, TypeOK
  <2>5. excused' \subseteq NoteId
    BY <1>3, UnsavedTyped DEF DropVersions, Deleted, Typed, TypeOK
  <2>6. QED
    BY <1>3, <2>3, <2>4, <2>5 DEF DropVersions, Deleted, Typed, TypeOK, bin
<1>4. QED
  BY <1>1, <1>2, <1>3

\* What moveToTrash does is typed.
LEMMA TrashTyped ==
  ASSUME Typed, NEW t \in Task,
         \/ Bin(t) \/ List(t) \/ Note(t) \/ \E p \in Path : Trash(t, p)
  PROVE  Typed'
<1>1. CASE \E p \in Path : Trash(t, p)
  <2>1. PICK p \in Path : Trash(t, p)
    BY <1>1
  <2> DEFINE n == IF trash[0] = None THEN 0 ELSE ops + 1
             r == [NoTask EXCEPT !.kind = "trash", !.at = "bin", !.path = p, !.name = n]
  <2>2. n \in 0..MaxOps
    <3>1. ops < MaxOps
      BY <2>1 DEF Trash, Start
    <3>2. QED
      BY <3>1, VaultAssumption DEF Typed, TypeOK
  <2>3. Start(t, r)
    BY <2>1 DEF Trash
  <2> HIDE DEF n
  <2>4. r \in Call /\ r.kind = "trash" /\ r.at = "bin" /\ r.path = p /\ r.to = None /\ r.body = None
    BY <2>2, NoTaskTyped DEF Call, Kind, Stage, NoTask
  <2> HIDE DEF r
  <2>5. WellFormed(r)
    BY <2>4 DEF WellFormed, Shape
  <2>6. task' \in [Task -> Call] /\ Staged' /\ ops' \in 0..MaxOps
    BY <2>3, <2>4, <2>5, StartTyped
  <2>7. {p} \in SUBSET Path /\ (IF Busy({"trash"}) = {} THEN {} ELSE NoteId) \in SUBSET NoteId
    OBVIOUS
  <2>8. excused' \subseteq NoteId /\ crossed' \in BOOLEAN
    BY <2>1, <2>6, <2>7, ContendsTyped DEF Trash
  <2>9. rushed' \in BOOLEAN
    BY <2>1 DEF Trash, Rushing, Typed, TypeOK
  <2>10. QED
    BY <2>1, <2>6, <2>8, <2>9 DEF Trash, Typed, TypeOK, files, bin, editor
<1>2. CASE Bin(t)
  <2>1. task[t] \in Call /\ WellFormed(task[t]) /\ task[t].at = "bin"
    BY <1>2, CallTyped DEF Bin
  <2>2. /\ "list" \in Stage /\ WellFormed([task[t] EXCEPT !.at = "list"])
        /\ task[t].path \in Path /\ task[t].name \in 0..MaxOps
    BY <2>1 DEF WellFormed, Shape, Writing, Making, Moving, Call, Stage
  <2>3. task' \in [Task -> Call] /\ Staged'
    BY <1>2, <2>2, GoTyped, DoneTyped DEF Bin
  <2>4. /\ disk' \in [Path -> Maybe] /\ lineage' \in [Path -> NoteId \cup {None}]
        /\ trash' \in [0..MaxOps -> Maybe]
    BY <1>2, <2>2 DEF Bin, Typed, TypeOK, Maybe
  <2>5. QED
    BY <1>2, <2>3, <2>4 DEF Bin, Typed, TypeOK, editor
<1>3. CASE List(t)
  <2> DEFINE s == IF task[t].kind = "trash" THEN "note" ELSE "unlist"
             r == [task[t] EXCEPT !.items = manifest, !.at = s]
  <2>1. task[t] \in Call /\ WellFormed(task[t]) /\ task[t].at = "list"
    BY <1>3, CallTyped DEF List
  <2>2. /\ task[t].kind \in {"trash", "purge"}
        /\ task[t].kind = "trash" => task[t].path \in Path
        /\ task[t].kind = "purge" => task[t].path = None
        /\ task[t].to = None /\ task[t].body = None
    BY <2>1 DEF WellFormed, Shape, Writing, Making, Moving
  <2>3. task' = [task EXCEPT ![t] = r]
    BY <1>3 DEF List
  <2>4. manifest \in SUBSET Item
    BY DEF Typed, TypeOK
  <2>5. /\ r \in Call /\ r.kind = task[t].kind /\ r.at = s /\ r.path = task[t].path
        /\ r.to = None /\ r.body = None
    BY <2>1, <2>2, <2>4 DEF Call, Stage
  <2> HIDE DEF r
  <2>6. WellFormed(r)
    BY <2>2, <2>5 DEF WellFormed, Shape
  <2>7. task' \in [Task -> Call] /\ Staged'
    BY <2>3, <2>5, <2>6, CallMoves
  <2>8. QED
    BY <1>3, <2>7 DEF List, Typed, TypeOK, files, bin, editor, history
<1>4. CASE Note(t)
  <2>1. task[t] \in Call /\ WellFormed(task[t]) /\ task[t].at = "note"
    BY <1>4, CallTyped DEF Note
  <2>2. task[t].path \in Path /\ task[t].name \in 0..MaxOps /\ task[t].items \subseteq Item
    BY <2>1 DEF WellFormed, Shape, Writing, Making, Moving, Call
  <2>3. [name |-> task[t].name, from |-> task[t].path] \in Item
    BY <2>2 DEF Item
  <2>4. task' \in [Task -> Call] /\ Staged'
    BY <1>4, DoneTyped DEF Note
  <2>5. manifest' \subseteq Item
    BY <1>4, <2>2, <2>3 DEF Note
  <2>6. excused' \subseteq NoteId
    BY <1>4, UnsavedTyped DEF Note, Deleted, Typed, TypeOK
  <2>7. QED
    BY <1>4, <2>4, <2>5, <2>6 DEF Note, Deleted, Typed, TypeOK, files
<1>5. QED
  BY <1>1, <1>2, <1>3, <1>4

\* What restoreFromTrash, deleteTrashItem and emptyTrash do is typed.
LEMMA BinTyped ==
  ASSUME Typed, NEW t \in Task,
         \/ Unbin(t) \/ Unlist(t) \/ Empty(t) \/ Clear(t)
         \/ \E m \in manifest : Restore(t, m) \/ Purge(t, m)
  PROVE  Typed'
<1>1. CASE \E m \in manifest : Restore(t, m)
  <2>1. PICK m \in manifest : Restore(t, m)
    BY <1>1
  <2> DEFINE r == [NoTask EXCEPT !.kind = "unbin", !.at = "unbin", !.path = m.from, !.name = m.name,
                                 !.items = manifest]
  <2>2. m.from \in Path /\ m.name \in 0..MaxOps /\ manifest \in SUBSET Item
    BY DEF Typed, TypeOK, Item
  <2>3. r \in Call /\ r.kind = "unbin" /\ r.at = "unbin" /\ r.path = m.from /\ r.to = None /\ r.body = None
    BY <2>2, NoTaskTyped DEF Call, Kind, Stage, NoTask
  <2>4. Start(t, r)
    BY <2>1 DEF Restore
  <2> HIDE DEF r
  <2>5. WellFormed(r)
    BY <2>2, <2>3 DEF WellFormed, Shape
  <2>6. task' \in [Task -> Call] /\ Staged' /\ ops' \in 0..MaxOps
    BY <2>3, <2>4, <2>5, StartTyped
  <2>7. {m.from} \in SUBSET Path /\ {} \in SUBSET NoteId
    BY <2>2
  <2>8. excused' \subseteq NoteId /\ crossed' \in BOOLEAN
    BY <2>1, <2>6, <2>7, ContendsTyped DEF Restore
  <2>9. rushed' \in BOOLEAN
    BY <2>1 DEF Restore, Rushing, Typed, TypeOK
  <2>10. QED
    BY <2>1, <2>6, <2>8, <2>9 DEF Restore, Typed, TypeOK, files, bin, editor
<1>2. CASE \E m \in manifest : Purge(t, m)
  <2>1. PICK m \in manifest : Purge(t, m)
    BY <1>2
  <2> DEFINE r == [NoTask EXCEPT !.kind = "purge", !.at = "list", !.name = m.name]
  <2>2. m.name \in 0..MaxOps
    BY DEF Typed, TypeOK, Item
  <2>3. r \in Call /\ r.kind = "purge" /\ r.at = "list" /\ r.path = None /\ r.to = None /\ r.body = None
    BY <2>2, NoTaskTyped DEF Call, Kind, Stage, NoTask
  <2>4. Start(t, r)
    BY <2>1 DEF Purge
  <2> HIDE DEF r
  <2>5. WellFormed(r)
    BY <2>3 DEF WellFormed, Shape
  <2>6. task' \in [Task -> Call] /\ Staged' /\ ops' \in 0..MaxOps
    BY <2>3, <2>4, <2>5, StartTyped
  <2>7. excused' \subseteq NoteId /\ trash' \in [0..MaxOps -> Maybe]
    BY <2>1, <2>2 DEF Purge, Typed, TypeOK, Maybe, Text
  <2>8. rushed' \in BOOLEAN
    BY <2>1 DEF Purge, Rushing, Typed, TypeOK
  <2>9. QED
    BY <2>1, <2>6, <2>7, <2>8 DEF Purge, Typed, TypeOK, files, editor
<1>3. CASE Empty(t)
  <2> DEFINE r == [NoTask EXCEPT !.kind = "empty", !.at = "clear"]
  <2>1. r \in Call /\ r.kind = "empty" /\ r.at = "clear" /\ r.path = None /\ r.to = None /\ r.body = None
    BY NoTaskTyped DEF Call, Kind, Stage, NoTask
  <2>2. Start(t, r)
    BY <1>3 DEF Empty
  <2> HIDE DEF r
  <2>3. WellFormed(r)
    BY <2>1 DEF WellFormed, Shape
  <2>4. task' \in [Task -> Call] /\ Staged' /\ ops' \in 0..MaxOps
    BY <2>1, <2>2, <2>3, StartTyped
  <2>5. excused' \subseteq NoteId /\ trash' \in [0..MaxOps -> Maybe]
    BY <1>3 DEF Empty, Typed, TypeOK, Maybe, Text
  <2>6. rushed' \in BOOLEAN
    BY <1>3 DEF Empty, Rushing, Typed, TypeOK
  <2>7. QED
    BY <1>3, <2>4, <2>5, <2>6 DEF Empty, Typed, TypeOK, files, editor
<1>4. CASE Unbin(t)
  <2>1. task[t] \in Call /\ WellFormed(task[t]) /\ task[t].at = "unbin"
    BY <1>4, CallTyped DEF Unbin
  <2>2. /\ "unlist" \in Stage /\ WellFormed([task[t] EXCEPT !.at = "unlist"])
        /\ task[t].path \in Path /\ task[t].name \in 0..MaxOps
    BY <2>1 DEF WellFormed, Shape, Writing, Making, Moving, Call, Stage
  <2>3. task' \in [Task -> Call] /\ Staged'
    BY <1>4, <2>2, GoTyped, DoneTyped DEF Unbin
  <2>4. /\ disk' \in [Path -> Maybe] /\ lineage' \in [Path -> NoteId \cup {None}]
        /\ trash' \in [0..MaxOps -> Maybe]
    BY <1>4, <2>2 DEF Unbin, Typed, TypeOK, Maybe, Text
  <2>5. QED
    BY <1>4, <2>3, <2>4 DEF Unbin, Typed, TypeOK, editor
<1>5. CASE Unlist(t)
  <2>1. task[t].items \subseteq Item
    BY CallTyped DEF Call
  <2>2. task' \in [Task -> Call] /\ Staged'
    BY <1>5, DoneTyped DEF Unlist
  <2>3. QED
    BY <1>5, <2>1, <2>2 DEF Unlist, Typed, TypeOK, files, editor, history
<1>6. CASE Clear(t)
  <2>1. task' \in [Task -> Call] /\ Staged'
    BY <1>6, DoneTyped DEF Clear
  <2>2. QED
    BY <1>6, <2>1 DEF Clear, Typed, TypeOK, files, editor, history
<1>7. QED
  BY <1>1, <1>2, <1>3, <1>4, <1>5, <1>6

-----------------------------------------------------------------------------
\* What a step makes of the call of t, and that it leaves the others but for their
\* freshness.
Same(u) ==
  /\ task'[u].kind = task[u].kind /\ task'[u].at = task[u].at /\ task'[u].path = task[u].path
  /\ task'[u].to = task[u].to /\ task'[u].body = task[u].body /\ task'[u].held = task[u].held
  /\ task'[u].name = task[u].name /\ task'[u].items = task[u].items
Becomes(t, kind, at, p, q, b) ==
  /\ task'[t].kind = kind /\ task'[t].at = at /\ task'[t].path = p /\ task'[t].to = q /\ task'[t].body = b
  /\ \A u \in Task \ {t} : Same(u)
Finishes(t) == Becomes(t, "none", "done", None, None, None)
Reaches(t, stage) ==
  /\ Becomes(t, task[t].kind, stage, task[t].path, task[t].to, task[t].body)
  /\ task'[t].name = task[t].name

\* A call that starts was none.
LEMMA StartIs ==
  ASSUME Typed, NEW t \in Task, NEW r, Start(t, r)
  PROVE  /\ task[t].kind = "none" /\ task[t].at = "done" /\ task[t].path = None /\ task[t].to = None
         /\ task[t].body = None /\ task[t].name = 0
         /\ task'[t] = r /\ \A u \in Task \ {t} : task'[u] = task[u] /\ Same(u)
BY DEF Typed, TypeOK, Start, NoTask, Same

\* A call that ends is none.
LEMMA DoneIs ==
  ASSUME Typed, NEW t \in Task, Done(t)
  PROVE  Finishes(t) /\ task'[t].fresh = FALSE /\ \A u \in Task \ {t} : task'[u] = task[u]
BY DEF Typed, TypeOK, Done, NoTask, Same, Becomes, Finishes

\* A call of which the stage changes is otherwise the same.
LEMMA GoIs ==
  ASSUME Typed, NEW t \in Task, NEW s, Go(t, s)
  PROVE  /\ Reaches(t, s) /\ \A u \in Task \ {t} : task'[u] = task[u]
         /\ task'[t].held = task[t].held /\ task'[t].items = task[t].items /\ task'[t].fresh = task[t].fresh
<1>1. task \in [Task -> Call]
  BY DEF Typed, TypeOK
<1>2. task[t] \in Call
  BY <1>1
<1>3. task'[t] = [task[t] EXCEPT !.at = s] /\ \A u \in Task \ {t} : task'[u] = task[u]
  BY <1>1 DEF Go
<1>4. QED
  BY <1>2, <1>3 DEF Call, Same, Becomes, Reaches

\* What the stage of a call says of the rest of it.
LEMMA StageIs ==
  ASSUME Typed, NEW t \in Task
  PROVE  LET k == task[t] IN
         /\ k.at \in Writing => /\ k.kind \in {"save", "open", "create", "copy", "restore"}
                                /\ k.path \in Path /\ k.body \in Text
                                /\ k.kind # "open" => k.to = None
         /\ k.at \in {"load", "swap"} => k.kind = "open"
         /\ k.kind = "open" => k.to \in Path /\ (k.at \in Writing \/ k.at \in {"load", "swap"})
         /\ k.at = "swap" => k.held \in Text
         /\ k.at = "keep" => k.held \in Text
         /\ k.at = "names" => k.kind = "copy" /\ k.path = None /\ k.to = None /\ k.body \in Text
         /\ k.at \in {"rename", "renamed"} => k.kind \in Moving
         /\ k.kind \in Moving => k.at \in {"rename", "renamed"} /\ k.path \in Path /\ k.to \in Path /\ k.body = None
         /\ k.at \in {"bin", "note"} => k.kind = "trash"
         /\ k.kind = "trash" => k.at \in {"bin", "list", "note"} /\ k.path \in Path /\ k.to = None /\ k.body = None
         /\ k.at \in {"remove", "drop"} => k.kind \in {"remove", "system"}
         /\ k.kind \in {"remove", "system"} =>
              k.at \in {"remove", "drop"} /\ k.path \in Path /\ k.to = None /\ k.body = None
         /\ k.at = "unbin" => k.kind = "unbin"
         /\ k.kind = "unbin" => k.at \in {"unbin", "unlist"} /\ k.path \in Path /\ k.to = None /\ k.body = None
         /\ k.at = "list" => k.kind \in {"trash", "purge"}
         /\ k.at = "unlist" => k.kind \in {"purge", "unbin"}
         /\ k.kind = "purge" => k.at \in {"list", "unlist"} /\ k.path = None /\ k.to = None /\ k.body = None
         /\ k.at = "clear" => k.kind = "empty"
         /\ k.kind = "empty" => k.at = "clear" /\ k.path = None /\ k.to = None /\ k.body = None
         /\ k.kind = "none" => k.at = "done" /\ k.path = None /\ k.to = None /\ k.body = None
         /\ k.kind \in {"save", "restore"} => k.at \in Writing
         /\ k.kind \in Making => k.at \in Writing \/ k.at = "names"
         /\ k.kind = "create" => k.at \in Writing
<1>1. WellFormed(task[t])
  BY CallTyped
<1>2. QED
  BY <1>1 DEF WellFormed, Shape, Writing, Making, Moving

\* What a call starts as: a save, ...
LEMMA SaveStarts ==
  ASSUME Typed, NEW t \in Task, NEW b \in BOOLEAN, active # None, Start(t, Saving("save", active, b))
  PROVE  /\ task[t].kind = "none" /\ active \in Path /\ text \in Text
         /\ Becomes(t, "save", "probe", active, None, text) /\ task'[t].fresh = b
         /\ \A u \in Task \ {t} : task'[u] = task[u]
<1> DEFINE r == Saving("save", active, b)
<1>1. active \in Path /\ text \in Text
  BY DEF Typed, TypeOK, Maybe
<1>2. r.kind = "save" /\ r.at = "probe" /\ r.path = active /\ r.to = None /\ r.body = text /\ r.fresh = b
  BY <1>1, SavingTyped
<1> HIDE DEF r
<1>3. task'[t] = r /\ task[t].kind = "none" /\ \A u \in Task \ {t} : task'[u] = task[u] /\ Same(u)
  BY StartIs DEF r
<1>4. QED
  BY <1>1, <1>2, <1>3 DEF Becomes

\* ... the restoring of a version, ...
LEMMA RestoreStarts ==
  ASSUME Typed, NEW t \in Task, NEW p \in Path, RestoreVersion(t, p)
  PROVE  /\ task[t].kind = "none"
         /\ \E i \in 1..Len(versions[p]) :
               versions[p][i] \in Text /\ Becomes(t, "restore", "probe", p, None, versions[p][i])
         /\ task'[t].fresh = FALSE /\ task'[t].name = 0
         /\ \A u \in Task \ {t} : task'[u] = task[u]
<1>1. PICK i \in 1..Len(versions[p]) :
        Start(t, [NoTask EXCEPT !.kind = "restore", !.at = "probe", !.path = p, !.body = versions[p][i]])
  BY DEF RestoreVersion
<1> DEFINE b == versions[p][i]
           r == [NoTask EXCEPT !.kind = "restore", !.at = "probe", !.path = p, !.body = b]
<1>2. b \in Text
  BY <1>1, ElementOfSeq DEF Typed, TypeOK
<1>3. Start(t, r)
  BY <1>1
<1> HIDE DEF b
<1>4. /\ r.kind = "restore" /\ r.at = "probe" /\ r.path = p /\ r.to = None
      /\ r.body = b /\ r.fresh = FALSE /\ r.name = 0
  BY DEF NoTask
<1> HIDE DEF r
<1>5. task'[t] = r /\ task[t].kind = "none" /\ \A u \in Task \ {t} : task'[u] = task[u] /\ Same(u)
  BY <1>3, StartIs
<1>6. Becomes(t, "restore", "probe", p, None, b) /\ task'[t].fresh = FALSE /\ task'[t].name = 0
  BY <1>4, <1>5 DEF Becomes
<1>7. QED
  BY <1>1, <1>2, <1>5, <1>6 DEF b

\* ... the opening of a note, ...
Opens(t, d, p) ==
  /\ \/ /\ d \in Path /\ active # None /\ text \in Text
        /\ Becomes(t, "open", "probe", d, p, text)
     \/ /\ d = None \/ active = None
        /\ Becomes(t, "open", "load", None, p, None)
  /\ task'[t].fresh = FALSE /\ task'[t].name = 0
  /\ \A u \in Task \ {t} : task'[u] = task[u]

\* A call that goes on by opening p does so as openNote starts.
LEMMA OpenGoes ==
  ASSUME Typed, NEW t \in Task, NEW p \in Path, task' = [task EXCEPT ![t] = OpenCall(p)]
  PROVE  Opens(t, dirty, p)
<1> DEFINE r == OpenCall(p)
<1>1. task \in [Task -> Call]
  BY DEF Typed, TypeOK
<1> HIDE DEF r
<1>2. task' = [task EXCEPT ![t] = r]
  BY DEF r
<1>3. task'[t] = r /\ \A u \in Task \ {t} : task'[u] = task[u] /\ Same(u)
  BY <1>1, <1>2 DEF Same
<1>4. OpensAs(r, p)
  BY OpenFromTyped DEF r
<1>5. QED
  BY <1>3, <1>4 DEF OpensAs, SavesFirst, ReadsAtOnce, Opens, Becomes

\* openNote is started with no call before it in its task.
LEMMA OpenStarts ==
  ASSUME Typed, NEW t \in Task, NEW p \in Path, OpenNote(t, p)
  PROVE  task[t].kind = "none" /\ Opens(t, dirty, p)
<1>1. Start(t, OpenCall(p))
  BY DEF OpenNote, OpenCall
<1>2. task[t].kind = "none"
  BY <1>1 DEF Start, NoTask
<1>3. QED
  BY <1>1, <1>2, OpenGoes DEF Start

\* ... the making of a note, ...
LEMMA MakeStarts ==
  ASSUME Typed, NEW t \in Task, NEW p \in Path
  PROVE  /\ CreateNote(t, p) =>
              /\ task[t].kind = "none" /\ Becomes(t, "create", "probe", p, None, Blank)
              /\ task'[t].fresh = FALSE /\ task'[t].name = 0 /\ \A u \in Task \ {t} : task'[u] = task[u]
         /\ DuplicateNote(t, p) =>
              /\ task[t].kind = "none" /\ Becomes(t, "copy", "names", None, None, Blank)
              /\ task'[t].fresh = FALSE /\ task'[t].name = 0 /\ \A u \in Task \ {t} : task'[u] = task[u]
<1>1. ASSUME CreateNote(t, p)
      PROVE  /\ task[t].kind = "none" /\ Becomes(t, "create", "probe", p, None, Blank)
             /\ task'[t].fresh = FALSE /\ task'[t].name = 0 /\ \A u \in Task \ {t} : task'[u] = task[u]
  <2> DEFINE r == [NoTask EXCEPT !.kind = "create", !.at = "probe", !.path = p, !.body = Blank]
  <2>1. /\ r.kind = "create" /\ r.at = "probe" /\ r.path = p /\ r.to = None /\ r.body = Blank
        /\ r.fresh = FALSE /\ r.name = 0
    BY NoTaskTyped DEF Call, NoTask
  <2>2. Start(t, r)
    BY <1>1 DEF CreateNote
  <2> HIDE DEF r
  <2>3. QED
    BY <2>1, <2>2, StartIs DEF Becomes
<1>2. ASSUME DuplicateNote(t, p)
      PROVE  /\ task[t].kind = "none" /\ Becomes(t, "copy", "names", None, None, Blank)
             /\ task'[t].fresh = FALSE /\ task'[t].name = 0 /\ \A u \in Task \ {t} : task'[u] = task[u]
  <2> DEFINE r == [NoTask EXCEPT !.kind = "copy", !.at = "names", !.body = Blank]
  <2>1. /\ r.kind = "copy" /\ r.at = "names" /\ r.path = None /\ r.to = None /\ r.body = Blank
        /\ r.fresh = FALSE /\ r.name = 0
    BY NoTaskTyped DEF Call, NoTask
  <2>2. Start(t, r)
    BY <1>2 DEF DuplicateNote
  <2> HIDE DEF r
  <2>3. QED
    BY <2>1, <2>2, StartIs DEF Becomes
<1>3. QED
  BY <1>1, <1>2

\* ... its move, ...
LEMMA MoveStarts ==
  ASSUME Typed, NEW t \in Task, NEW p \in Path, NEW q \in Path, NEW kind \in {"rename", "move"},
         Rename(t, kind, p, q)
  PROVE  /\ task[t].kind = "none" /\ Becomes(t, kind, "rename", p, q, None)
         /\ kind = "rename" => p = active
         /\ task'[t].fresh = FALSE /\ task'[t].name = 0 /\ \A u \in Task \ {t} : task'[u] = task[u]
<1> DEFINE r == [NoTask EXCEPT !.kind = kind, !.at = "rename", !.path = p, !.to = q]
<1>1. /\ r.kind = kind /\ r.at = "rename" /\ r.path = p /\ r.to = q /\ r.body = None
      /\ r.fresh = FALSE /\ r.name = 0
  BY NoTaskTyped DEF Call, NoTask
<1>2. Start(t, r) /\ (kind = "rename" => p = active)
  BY DEF Rename
<1> HIDE DEF r
<1>3. task[t].kind = "none" /\ task'[t] = r /\ \A u \in Task \ {t} : task'[u] = task[u] /\ Same(u)
  BY <1>2, StartIs
<1>4. QED
  BY <1>1, <1>2, <1>3 DEF Becomes

\* ... its removal, ...
LEMMA RemoveStarts ==
  ASSUME Typed, NEW t \in Task, NEW p \in Path, NEW kind \in {"remove", "system"}, Remove(t, kind, p)
  PROVE  /\ task[t].kind = "none" /\ Becomes(t, kind, "remove", p, None, None)
         /\ task'[t].fresh = FALSE /\ task'[t].name = 0 /\ \A u \in Task \ {t} : task'[u] = task[u]
<1> DEFINE r == [NoTask EXCEPT !.kind = kind, !.at = "remove", !.path = p]
<1>1. /\ r.kind = kind /\ r.at = "remove" /\ r.path = p /\ r.to = None /\ r.body = None
      /\ r.fresh = FALSE /\ r.name = 0
  BY NoTaskTyped DEF Call, NoTask
<1>2. Start(t, r)
  BY DEF Remove
<1> HIDE DEF r
<1>3. QED
  BY <1>1, <1>2, StartIs DEF Becomes

\* ... and the calls on the trash.
LEMMA TrashStarts ==
  ASSUME Typed, NEW t \in Task, NEW p \in Path, Trash(t, p)
  PROVE  /\ task[t].kind = "none" /\ Becomes(t, "trash", "bin", p, None, None)
         /\ task'[t].name = IF trash[0] = None THEN 0 ELSE ops + 1
         /\ task'[t].fresh = FALSE /\ \A u \in Task \ {t} : task'[u] = task[u]
<1> DEFINE n == IF trash[0] = None THEN 0 ELSE ops + 1
           r == [NoTask EXCEPT !.kind = "trash", !.at = "bin", !.path = p, !.name = n]
<1>1. Start(t, r)
  BY DEF Trash
<1> HIDE DEF n
<1>2. /\ r.kind = "trash" /\ r.at = "bin" /\ r.path = p /\ r.to = None /\ r.body = None
      /\ r.fresh = FALSE /\ r.name = n
  BY NoTaskTyped DEF Call, NoTask
<1> HIDE DEF r
<1>3. QED
  BY <1>1, <1>2, StartIs DEF Becomes, n

\* A note that is put back, or an item that is deleted, is taken from the manifest as it is.
LEMMA UnbinStarts ==
  ASSUME Typed, NEW t \in Task, NEW m \in manifest
  PROVE  /\ Restore(t, m) =>
              /\ task[t].kind = "none" /\ Becomes(t, "unbin", "unbin", m.from, None, None)
              /\ task'[t].name = m.name /\ task'[t].items = manifest
              /\ task'[t].fresh = FALSE /\ \A u \in Task \ {t} : task'[u] = task[u]
         /\ Purge(t, m) =>
              /\ task[t].kind = "none" /\ Becomes(t, "purge", "list", None, None, None)
              /\ task'[t].name = m.name
              /\ task'[t].fresh = FALSE /\ \A u \in Task \ {t} : task'[u] = task[u]
<1>1. ASSUME Restore(t, m)
      PROVE  /\ task[t].kind = "none" /\ Becomes(t, "unbin", "unbin", m.from, None, None)
             /\ task'[t].name = m.name /\ task'[t].items = manifest
             /\ task'[t].fresh = FALSE /\ \A u \in Task \ {t} : task'[u] = task[u]
  <2> DEFINE r == [NoTask EXCEPT !.kind = "unbin", !.at = "unbin", !.path = m.from, !.name = m.name,
                                 !.items = manifest]
  <2>1. /\ r.kind = "unbin" /\ r.at = "unbin" /\ r.path = m.from /\ r.to = None /\ r.body = None
        /\ r.name = m.name /\ r.items = manifest /\ r.fresh = FALSE
    BY NoTaskTyped DEF Call, NoTask
  <2>2. Start(t, r)
    BY <1>1 DEF Restore
  <2> HIDE DEF r
  <2>3. QED
    BY <2>1, <2>2, StartIs DEF Becomes
<1>2. ASSUME Purge(t, m)
      PROVE  /\ task[t].kind = "none" /\ Becomes(t, "purge", "list", None, None, None)
             /\ task'[t].name = m.name
             /\ task'[t].fresh = FALSE /\ \A u \in Task \ {t} : task'[u] = task[u]
  <2> DEFINE r == [NoTask EXCEPT !.kind = "purge", !.at = "list", !.name = m.name]
  <2>1. /\ r.kind = "purge" /\ r.at = "list" /\ r.path = None /\ r.to = None /\ r.body = None
        /\ r.name = m.name /\ r.fresh = FALSE
    BY NoTaskTyped DEF Call, NoTask
  <2>2. Start(t, r)
    BY <1>2 DEF Purge
  <2> HIDE DEF r
  <2>3. QED
    BY <2>1, <2>2, StartIs DEF Becomes
<1>3. QED
  BY <1>1, <1>2

\* emptyTrash starts without a path or a name.
LEMMA EmptyStarts ==
  ASSUME Typed, NEW t \in Task, Empty(t)
  PROVE  /\ task[t].kind = "none" /\ Becomes(t, "empty", "clear", None, None, None)
         /\ task'[t].name = 0
         /\ task'[t].fresh = FALSE /\ \A u \in Task \ {t} : task'[u] = task[u]
<1> DEFINE r == [NoTask EXCEPT !.kind = "empty", !.at = "clear"]
<1>1. /\ r.kind = "empty" /\ r.at = "clear" /\ r.path = None /\ r.to = None /\ r.body = None
      /\ r.name = 0 /\ r.fresh = FALSE
  BY NoTaskTyped DEF Call, NoTask
<1>2. Start(t, r)
  BY DEF Empty
<1> HIDE DEF r
<1>3. QED
  BY <1>1, <1>2, StartIs DEF Becomes

\* What the other steps make of a call: one that reads, ...
LEMMA LoadIs ==
  ASSUME Typed, NEW t \in Task, Load(t)
  PROVE  /\ task[t].at = "load" /\ task[t].kind = "open" /\ task[t].to \in Path
         /\ \/ disk[task[t].to] = None /\ Finishes(t) /\ task'[t].fresh = FALSE
            \/ /\ disk[task[t].to] \in Text
               /\ Becomes(t, "open", "swap", task[t].path, task[t].to, task[t].body)
               /\ task'[t].held = disk[task[t].to] /\ task'[t].fresh = task[t].fresh
               /\ task'[t].name = task[t].name
         /\ \A u \in Task \ {t} : task'[u] = task[u]
<1>1. task \in [Task -> Call] /\ task[t] \in Call /\ task[t].at = "load"
  BY DEF Typed, TypeOK, Load
<1>2. task[t].kind = "open" /\ task[t].to \in Path
  BY <1>1, StageIs
<1>3. CASE disk[task[t].to] = None
  <2>1. Done(t)
    BY <1>3 DEF Load
  <2>2. QED
    BY <1>1, <1>2, <1>3, <2>1, DoneIs
<1>4. CASE disk[task[t].to] # None
  <2> DEFINE r == [task[t] EXCEPT !.at = "swap", !.held = disk[task[t].to]]
  <2>1. disk[task[t].to] \in Text
    BY <1>2, <1>4 DEF Typed, TypeOK, Maybe
  <2>2. /\ r.kind = task[t].kind /\ r.at = "swap" /\ r.path = task[t].path /\ r.to = task[t].to
        /\ r.body = task[t].body /\ r.held = disk[task[t].to] /\ r.fresh = task[t].fresh
        /\ r.name = task[t].name
    BY <1>1 DEF Call
  <2>3. task' = [task EXCEPT ![t] = r]
    BY <1>4 DEF Load
  <2> HIDE DEF r
  <2>4. task'[t] = r /\ \A u \in Task \ {t} : task'[u] = task[u] /\ Same(u)
    BY <1>1, <2>3 DEF Same
  <2>5. QED
    BY <1>1, <1>2, <2>1, <2>2, <2>4 DEF Becomes
<1>5. QED
  BY <1>3, <1>4

\* A write that reads the old file finds it, or ends, or goes on to open the note.
LEMMA ReadOldIs ==
  ASSUME Typed, NEW t \in Task, ReadOld(t)
  PROVE  LET p == task[t].path IN
         /\ task[t].at = "read" /\ p \in Path
         /\ \/ /\ disk[p] \in Text
               /\ Becomes(t, task[t].kind, "keep", p, task[t].to, task[t].body)
               /\ task'[t].held = disk[p] /\ task'[t].fresh = task[t].fresh
               /\ task'[t].name = task[t].name
            \/ /\ disk[p] = None /\ task[t].kind = "open"
               /\ Becomes(t, "open", "load", p, task[t].to, task[t].body)
               /\ task'[t].fresh = task[t].fresh /\ task'[t].name = task[t].name
            \/ disk[p] = None /\ Finishes(t) /\ task'[t].fresh = FALSE
         /\ \A u \in Task \ {t} : task'[u] = task[u]
<1>1. task \in [Task -> Call] /\ task[t] \in Call /\ task[t].at = "read"
  BY DEF Typed, TypeOK, ReadOld
<1>2. task[t].path \in Path
  BY <1>1, StageIs DEF Writing
<1>3. CASE disk[task[t].path] # None
  <2> DEFINE r == [task[t] EXCEPT !.at = "keep", !.held = disk[task[t].path]]
  <2>1. disk[task[t].path] \in Text
    BY <1>2, <1>3 DEF Typed, TypeOK, Maybe
  <2>2. /\ r.kind = task[t].kind /\ r.at = "keep" /\ r.path = task[t].path /\ r.to = task[t].to
        /\ r.body = task[t].body /\ r.held = disk[task[t].path] /\ r.fresh = task[t].fresh
        /\ r.name = task[t].name
    BY <1>1 DEF Call
  <2>3. task' = [task EXCEPT ![t] = r]
    BY <1>3 DEF ReadOld
  <2> HIDE DEF r
  <2>4. task'[t] = r /\ \A u \in Task \ {t} : task'[u] = task[u] /\ Same(u)
    BY <1>1, <2>3 DEF Same
  <2>5. QED
    BY <1>1, <1>2, <2>1, <2>2, <2>4 DEF Becomes
<1>4. CASE disk[task[t].path] = None /\ task[t].kind = "open"
  <2>1. Go(t, "load")
    BY <1>4 DEF ReadOld, Go
  <2>2. QED
    BY <1>1, <1>2, <1>4, <2>1, GoIs DEF Reaches
<1>5. CASE disk[task[t].path] = None /\ task[t].kind # "open"
  <2>1. Done(t)
    BY <1>5 DEF ReadOld
  <2>2. QED
    BY <1>1, <1>2, <1>5, <2>1, DoneIs
<1>6. QED
  BY <1>3, <1>4, <1>5

\* ... one that names its copy, ...
LEMMA FreeNameIs ==
  ASSUME Typed, NEW t \in Task, NEW q \in Path, FreeName(t, q)
  PROVE  /\ task[t].at = "names" /\ task[t].kind = "copy" /\ task[t].path = None /\ task[t].to = None
         /\ Becomes(t, "copy", "probe", q, None, task[t].body)
         /\ task'[t].fresh = task[t].fresh /\ task'[t].name = task[t].name
         /\ \A u \in Task \ {t} : task'[u] = task[u]
<1> DEFINE r == [task[t] EXCEPT !.at = "probe", !.path = q]
<1>1. task \in [Task -> Call] /\ task[t] \in Call /\ task[t].at = "names" /\ task' = [task EXCEPT ![t] = r]
  BY DEF Typed, TypeOK, FreeName
<1>2. task[t].kind = "copy" /\ task[t].path = None /\ task[t].to = None
  BY <1>1, StageIs
<1>3. /\ r.kind = task[t].kind /\ r.at = "probe" /\ r.path = q /\ r.to = task[t].to
      /\ r.body = task[t].body /\ r.fresh = task[t].fresh /\ r.name = task[t].name
  BY <1>1 DEF Call
<1> HIDE DEF r
<1>4. task'[t] = r /\ \A u \in Task \ {t} : task'[u] = task[u] /\ Same(u)
  BY <1>1 DEF Same
<1>5. QED
  BY <1>1, <1>2, <1>3, <1>4 DEF Becomes

\* ... one that reads the manifest, ...
LEMMA ListIs ==
  ASSUME Typed, NEW t \in Task, List(t)
  PROVE  /\ task[t].at = "list" /\ task[t].kind \in {"trash", "purge"}
         /\ \/ /\ task[t].kind = "trash"
               /\ Becomes(t, "trash", "note", task[t].path, task[t].to, task[t].body)
            \/ /\ task[t].kind = "purge"
               /\ Becomes(t, "purge", "unlist", task[t].path, task[t].to, task[t].body)
         /\ task'[t].items = manifest
         /\ task'[t].fresh = task[t].fresh /\ task'[t].name = task[t].name
         /\ \A u \in Task \ {t} : task'[u] = task[u]
<1> DEFINE s == IF task[t].kind = "trash" THEN "note" ELSE "unlist"
           r == [task[t] EXCEPT !.items = manifest, !.at = s]
<1>1. task \in [Task -> Call] /\ task[t] \in Call /\ task[t].at = "list" /\ task' = [task EXCEPT ![t] = r]
  BY DEF Typed, TypeOK, List
<1>2. task[t].kind \in {"trash", "purge"}
  BY <1>1, StageIs
<1>3. /\ r.kind = task[t].kind /\ r.at = s /\ r.path = task[t].path /\ r.to = task[t].to
      /\ r.body = task[t].body /\ r.items = manifest /\ r.fresh = task[t].fresh /\ r.name = task[t].name
  BY <1>1 DEF Call
<1> HIDE DEF r
<1>4. task'[t] = r /\ \A u \in Task \ {t} : task'[u] = task[u] /\ Same(u)
  BY <1>1 DEF Same
<1>5. QED
  BY <1>1, <1>2, <1>3, <1>4 DEF Becomes

\* ... one that writes, ...
LEMMA WriteIs ==
  ASSUME Typed, NEW t \in Task, Write(t)
  PROVE  LET k == task[t] IN
         /\ k.at = "write" /\ k.path \in Path /\ k.body \in Text
         /\ disk' = [disk EXCEPT ![k.path] = k.body]
         /\ \/ /\ k.kind = "save" /\ Finishes(t) /\ task'[t].fresh = FALSE /\ UNCHANGED <<lineage, excused, crossed>>
               /\ dirty' = IF k.fresh THEN None ELSE dirty
            \/ /\ k.kind = "open" /\ k.to \in Path /\ Becomes(t, "open", "load", None, k.to, None)
               /\ task'[t].fresh = FALSE /\ UNCHANGED <<dirty, lineage, excused, crossed>>
            \/ /\ k.kind = "restore" /\ active = k.path /\ Opens(t, dirty, k.path)
               /\ dirty' = None /\ lineage' = [lineage EXCEPT ![k.path] = k.body.of]
               /\ Contends(t, {k.path, dirty} \ {None}, Unflushed)
            \/ /\ k.kind \in Making /\ Opens(t, dirty, k.path)
               /\ dirty' = None /\ lineage' = [lineage EXCEPT ![k.path] = k.body.of]
               /\ Contends(t, {k.path, dirty} \ {None}, Unflushed)
            \/ /\ k.kind = "restore" /\ active # k.path /\ Finishes(t) /\ task'[t].fresh = FALSE
               /\ lineage' = [lineage EXCEPT ![k.path] = k.body.of] /\ UNCHANGED <<dirty, excused, crossed>>
         /\ \A u \in Task \ {t} : task'[u] = task[u]
<1> DEFINE k == task[t]
<1>1. k.at = "write" /\ k.path \in Path /\ k.body \in Text /\ (k.kind = "open" => k.to \in Path)
  BY StageIs DEF Write, Writing
<1>2. /\ disk' = [disk EXCEPT ![k.path] = k.body]
      /\ lineage' = IF k.kind \in {"restore"} \cup Making THEN [lineage EXCEPT ![k.path] = k.body.of] ELSE lineage
  BY DEF Write
<1>3. CASE k.kind = "save" /\ Done(t) /\ dirty' = (IF k.fresh THEN None ELSE dirty) /\ UNCHANGED <<excused, crossed>>
  <2>1. lineage' = lineage
    BY <1>2, <1>3 DEF Making
  <2>2. Finishes(t) /\ task'[t].fresh = FALSE /\ \A u \in Task \ {t} : task'[u] = task[u]
    BY <1>3, DoneIs
  <2>3. QED
    BY <1>1, <1>2, <1>3, <2>1, <2>2
<1>4. CASE /\ k.kind = "open"
           /\ task' = [task EXCEPT ![t] = [NoTask EXCEPT !.kind = "open", !.at = "load", !.to = k.to]]
           /\ UNCHANGED <<dirty, excused, crossed>>
  <2> DEFINE r == [NoTask EXCEPT !.kind = "open", !.at = "load", !.to = k.to]
  <2>1. lineage' = lineage
    BY <1>2, <1>4 DEF Making
  <2>2. ReadsAtOnce(r, k.to)
    BY <1>1, <1>4, OpenLoading
  <2>3. task' = [task EXCEPT ![t] = r] /\ task \in [Task -> Call]
    BY <1>4 DEF Typed, TypeOK
  <2> HIDE DEF r
  <2>4. task'[t] = r /\ \A u \in Task \ {t} : task'[u] = task[u] /\ Same(u)
    BY <2>3 DEF Same
  <2>5. Becomes(t, "open", "load", None, k.to, None) /\ task'[t].fresh = FALSE
    BY <2>2, <2>4 DEF ReadsAtOnce, Becomes
  <2>6. QED
    BY <1>1, <1>2, <1>4, <2>1, <2>4, <2>5
<1>5. CASE k.kind = "restore" /\ active = k.path /\ GoOpen(t, active)
  <2>1. Opens(t, dirty, k.path) /\ \A u \in Task \ {t} : task'[u] = task[u]
    BY <1>1, <1>5, OpenGoes DEF GoOpen, OpenCall, Opens
  <2>2. dirty' = None /\ Contends(t, {k.path, dirty} \ {None}, Unflushed)
    BY <1>5 DEF GoOpen
  <2>3. QED
    BY <1>1, <1>2, <1>5, <2>1, <2>2
<1>6. CASE k.kind \in Making /\ GoOpen(t, k.path)
  <2>1. Opens(t, dirty, k.path) /\ \A u \in Task \ {t} : task'[u] = task[u]
    BY <1>1, <1>6, OpenGoes DEF GoOpen, OpenCall, Opens
  <2>2. dirty' = None /\ Contends(t, {k.path, dirty} \ {None}, Unflushed)
    BY <1>6 DEF GoOpen
  <2>3. QED
    BY <1>1, <1>2, <1>6, <2>1, <2>2
<1>7. CASE k.kind = "restore" /\ active # k.path /\ Done(t) /\ UNCHANGED <<dirty, excused, crossed>>
  <2>1. Finishes(t) /\ task'[t].fresh = FALSE /\ \A u \in Task \ {t} : task'[u] = task[u]
    BY <1>7, DoneIs
  <2>2. QED
    BY <1>1, <1>2, <1>7, <2>1
<1>8. QED
  BY <1>3, <1>4, <1>5, <1>6, <1>7 DEF Write

\* ... and one that has renamed.
Moved(t) == IF dirty = task[t].path THEN task[t].to ELSE dirty

\* A rename ends with its path shown; a move opens the note at its new path.
LEMMA RenamedIs ==
  ASSUME Typed, NEW t \in Task, Renamed(t)
  PROVE  LET q == task[t].to IN
         /\ task[t].at = "renamed" /\ task[t].kind \in Moving /\ task[t].path \in Path /\ q \in Path
         /\ \/ /\ task[t].kind = "rename" /\ Finishes(t) /\ task'[t].fresh = FALSE
               /\ dirty' = Moved(t) /\ active' = q /\ UNCHANGED <<excused, crossed>>
            \/ /\ task[t].kind = "move" /\ Opens(t, Moved(t), q)
               /\ dirty' = None /\ active' = active
               /\ Contends(t, {Moved(t), q} \ {None}, Unflushed)
         /\ \A u \in Task \ {t} : task'[u] = task[u]
<1> DEFINE q == task[t].to
<1>1. task[t].at = "renamed" /\ task[t].kind \in Moving /\ task[t].path \in Path /\ q \in Path
  BY StageIs DEF Renamed
<1>2. CASE task[t].kind = "rename" /\ dirty' = Moved(t) /\ active' = q /\ Done(t) /\ UNCHANGED <<excused, crossed>>
  <2>1. Finishes(t) /\ task'[t].fresh = FALSE /\ \A u \in Task \ {t} : task'[u] = task[u]
    BY <1>2, DoneIs
  <2>2. QED
    BY <1>1, <1>2, <2>1
<1>3. CASE /\ task[t].kind = "move"
           /\ task' = [task EXCEPT ![t] =
                IF Moved(t) # None /\ active # None THEN [Saving("open", Moved(t), FALSE) EXCEPT !.to = q]
                ELSE [NoTask EXCEPT !.kind = "open", !.at = "load", !.to = q]]
           /\ dirty' = None
           /\ Contends(t, {Moved(t), q} \ {None}, Unflushed)
           /\ UNCHANGED active
  <2> DEFINE r == IF Moved(t) # None /\ active # None THEN [Saving("open", Moved(t), FALSE) EXCEPT !.to = q]
                  ELSE [NoTask EXCEPT !.kind = "open", !.at = "load", !.to = q]
  <2>1. \/ Moved(t) \in Path /\ active # None /\ text \in Text /\ SavesFirst(r, Moved(t), q)
        \/ (Moved(t) = None \/ active = None) /\ ReadsAtOnce(r, q)
    <3>1. CASE Moved(t) # None /\ active # None
      <4>1. Moved(t) \in Path /\ text \in Text
        BY <1>1, <3>1 DEF Moved, Typed, TypeOK, Maybe
      <4>2. r = [Saving("open", Moved(t), FALSE) EXCEPT !.to = q]
        BY <3>1
      <4> HIDE DEF r
      <4>3. SavesFirst(r, Moved(t), q)
        BY <1>1, <4>1, <4>2, OpenSaving
      <4>4. QED
        BY <3>1, <4>1, <4>3
    <3>2. CASE Moved(t) = None \/ active = None
      <4>1. r = [NoTask EXCEPT !.kind = "open", !.at = "load", !.to = q]
        BY <3>2
      <4> HIDE DEF r
      <4>2. ReadsAtOnce(r, q)
        BY <1>1, <4>1, OpenLoading
      <4>3. QED
        BY <3>2, <4>2
    <3>3. QED
      BY <3>1, <3>2
  <2>2. task' = [task EXCEPT ![t] = r] /\ task \in [Task -> Call]
    BY <1>3 DEF Typed, TypeOK
  <2> HIDE DEF r
  <2>3. task'[t] = r /\ \A u \in Task \ {t} : task'[u] = task[u] /\ Same(u)
    BY <2>2 DEF Same
  <2>4. Opens(t, Moved(t), q)
    BY <2>1, <2>3 DEF SavesFirst, ReadsAtOnce, Opens, Becomes
  <2>5. QED
    BY <1>1, <1>3, <2>3, <2>4
<1>4. QED
  BY <1>2, <1>3 DEF Renamed, Moved

\* A step after which no call is fresh changes no other call.
LEMMA SwapIs ==
  ASSUME Typed, NEW t \in Task, Swap(t)
  PROVE  /\ task[t].at = "swap" /\ task[t].kind = "open" /\ task[t].to \in Path /\ task[t].held \in Text
         /\ Finishes(t) /\ \A u \in Task : task'[u].fresh = FALSE
<1> DEFINE ts == [task EXCEPT ![t] = NoTask]
<1>1. task[t].at = "swap" /\ task[t].kind = "open" /\ task[t].to \in Path /\ task[t].held \in Text
  BY StageIs DEF Swap
<1>2. ts \in [Task -> Call] /\ \A u \in Task : WellFormed(ts[u])
  BY NoTaskTyped DEF Typed, TypeOK, Staged
<1>3. /\ ts[t] = NoTask /\ \A u \in Task \ {t} : ts[u] = task[u]
      /\ task' = Stale(ts)
  BY DEF Swap, Typed, TypeOK
<1> HIDE DEF ts
<1>4. \A u \in Task :
        /\ task'[u].kind = ts[u].kind /\ task'[u].at = ts[u].at /\ task'[u].path = ts[u].path
        /\ task'[u].to = ts[u].to /\ task'[u].body = ts[u].body /\ task'[u].held = ts[u].held
        /\ task'[u].name = ts[u].name /\ task'[u].items = ts[u].items /\ task'[u].fresh = FALSE
  BY <1>2, <1>3, StaleTyped
<1>5. \A u \in Task \ {t} : Same(u)
  BY <1>3, <1>4 DEF Same
<1>6. Finishes(t)
  BY <1>3, <1>4, <1>5 DEF Finishes, Becomes, NoTask
<1>7. QED
  BY <1>1, <1>4, <1>6

\* An edit leaves the calls but for their freshness.
LEMMA EditIs ==
  ASSUME Typed, Edit
  PROVE  \A u \in Task : Same(u) /\ task'[u].fresh = FALSE
BY StaleTyped DEF Edit, Same, Typed, TypeOK, Staged

-----------------------------------------------------------------------------
\* What a step does to the calls is one of these: it starts, goes on with or ends one.
Steps(t) ==
  \/ TimerFires(t) \/ SaveNow(t) \/ Load(t) \/ Swap(t)
  \/ Probe(t) \/ ReadOld(t) \/ KeepOld(t) \/ Write(t)
  \/ (\E p \in Path : RestoreVersion(t, p)) \/ DoRename(t) \/ Renamed(t)
  \/ Bin(t) \/ List(t) \/ Note(t) \/ DoRemove(t) \/ DropVersions(t)
  \/ Unbin(t) \/ Unlist(t) \/ Empty(t) \/ Clear(t)
  \/ \E p \in Path : CreateNote(t, p) \/ DuplicateNote(t, p) \/ FreeName(t, p)
  \/ \E p \in Path : OpenNote(t, p) \/ Trash(t, p)
  \/ \E p \in Path, kind \in {"remove", "system"} : Remove(t, kind, p)
  \/ \E p, q \in Path, kind \in {"rename", "move"} : Rename(t, kind, p, q)
  \/ \E m \in manifest : Restore(t, m) \/ Purge(t, m)

\* Every step is one of a task, an edit, or one without a call.
LEMMA NextIs ==
  Next => Edit \/ TimerIdle \/ CloseNote \/ Crash \/ (\E p \in Path : Elapse(p)) \/ \E t \in Task : Steps(t)
BY DEF Next, Steps

\* A call that is to rename a note is one that did so before, or that the user starts while
\* the note is shown.
LEMMA MovingStarts ==
  ASSUME Typed, NEW t \in Task, Steps(t), NEW u \in Task, task'[u].kind = "rename"
  PROVE  /\ task[u].kind = "rename" \/ active # None
         /\ text' = text \/ Swap(t)
<1> USE DEF Moving
<1>1. CASE TimerFires(t)
  BY <1>1, SaveStarts DEF TimerFires, Becomes, Same
<1>2. CASE SaveNow(t)
  BY <1>2, SaveStarts DEF SaveNow, editor, Becomes, Same
<1>3. CASE Load(t)
  BY <1>3, LoadIs DEF Load, editor, Becomes, Finishes
<1>4. CASE Swap(t)
  BY <1>4, SwapIs DEF Finishes, Becomes, Same
<1>5. CASE Probe(t)
  BY <1>5, GoIs DEF Probe, editor, Reaches, Becomes
<1>6. CASE ReadOld(t)
  BY <1>6, ReadOldIs DEF ReadOld, editor, Becomes, Finishes
<1>7. CASE KeepOld(t)
  BY <1>7, GoIs DEF KeepOld, editor, Reaches, Becomes
<1>8. CASE Write(t)
  BY <1>8, WriteIs DEF Write, Opens, Becomes, Finishes
<1>9. CASE \E p \in Path : RestoreVersion(t, p)
  BY <1>9, RestoreStarts DEF RestoreVersion, editor, Becomes
<1>10. CASE DoRename(t)
  BY <1>10, GoIs, DoneIs DEF DoRename, editor, Reaches, Becomes, Finishes
<1>11. CASE Renamed(t)
  BY <1>11, RenamedIs DEF Renamed, Opens, Becomes, Finishes
<1>12. CASE Bin(t)
  BY <1>12, GoIs, DoneIs DEF Bin, editor, Reaches, Becomes, Finishes
<1>13. CASE List(t)
  BY <1>13, ListIs, ZenonT(60) DEF List, editor, Becomes
<1>14. CASE Note(t)
  BY <1>14, DoneIs DEF Note, Becomes, Finishes
<1>15. CASE DoRemove(t)
  BY <1>15, GoIs, DoneIs DEF DoRemove, editor, Reaches, Becomes, Finishes
<1>16. CASE DropVersions(t)
  BY <1>16, DoneIs DEF DropVersions, Becomes, Finishes
<1>17. CASE Unbin(t)
  BY <1>17, GoIs, DoneIs DEF Unbin, editor, Reaches, Becomes, Finishes
<1>18. CASE Unlist(t)
  BY <1>18, DoneIs DEF Unlist, editor, Becomes, Finishes
<1>19. CASE Empty(t)
  BY <1>19, EmptyStarts DEF Empty, editor, Becomes
<1>20. CASE Clear(t)
  BY <1>20, DoneIs DEF Clear, editor, Becomes, Finishes
<1>21. CASE \E p \in Path : CreateNote(t, p)
  BY <1>21, MakeStarts DEF CreateNote, editor, Becomes
<1>22. CASE \E p \in Path : DuplicateNote(t, p)
  BY <1>22, MakeStarts DEF DuplicateNote, editor, Becomes
<1>23. CASE \E p \in Path : FreeName(t, p)
  BY <1>23, FreeNameIs DEF FreeName, editor, Becomes
<1>24. CASE \E p \in Path : OpenNote(t, p)
  BY <1>24, OpenStarts DEF OpenNote, Opens, Becomes
<1>25. CASE \E p \in Path : Trash(t, p)
  BY <1>25, TrashStarts DEF Trash, editor, Becomes
<1>26. CASE \E p \in Path, kind \in {"remove", "system"} : Remove(t, kind, p)
  BY <1>26, RemoveStarts DEF Remove, editor, Becomes
<1>27. CASE \E p, q \in Path, kind \in {"rename", "move"} : Rename(t, kind, p, q)
  <2>1. PICK p \in Path, q \in Path, kind \in {"rename", "move"} : Rename(t, kind, p, q)
    BY <1>27
  <2>2. Becomes(t, kind, "rename", p, q, None) /\ (kind = "rename" => p = active) /\ text' = text
    BY <2>1, MoveStarts DEF Rename, editor
  <2>3. u = t => active # None
    BY <2>2, NoneApart DEF Becomes
  <2>4. u # t => task[u].kind = "rename"
    BY <2>2 DEF Becomes, Same
  <2>5. QED
    BY <2>2, <2>3, <2>4
<1>28. CASE \E m \in manifest : Restore(t, m)
  BY <1>28, UnbinStarts DEF Restore, editor, Becomes
<1>29. CASE \E m \in manifest : Purge(t, m)
  BY <1>29, UnbinStarts DEF Purge, editor, Becomes
<1>30. QED
  BY <1>1, <1>2, <1>3, <1>4, <1>5, <1>6, <1>7, <1>8, <1>9, <1>10, <1>11, <1>12, <1>13, <1>14, <1>15, <1>16,
     <1>17, <1>18, <1>19, <1>20, <1>21, <1>22, <1>23, <1>24, <1>25, <1>26, <1>27, <1>28, <1>29 DEF Steps

\* Every step is typed, and leaves something in the editor that a note is moved from.
LEMMA TypedStep == Typed /\ Showing /\ [Next]_vars => Typed' /\ Showing'
<1> SUFFICES ASSUME Typed, Showing, [Next]_vars
             PROVE  Typed' /\ Showing'
  OBVIOUS
<1>1. CASE \E t \in Task : Steps(t)
  <2>1. PICK t \in Task : Steps(t)
    BY <1>1
  <2>2. Typed'
    BY <2>1, SavesTyped, WritesTyped, MovesTyped, RemovalsTyped, TrashTyped, BinTyped DEF Steps
  <2>3. ASSUME NEW u \in Task, task'[u].kind = "rename"
        PROVE  text' # None
    <3>1. (task[u].kind = "rename" \/ active # None) /\ (text' = text \/ Swap(t))
      BY <2>1, <2>3, MovingStarts
    <3>2. CASE Swap(t)
      BY <3>2, <2>2, SwapIs, NoneApart DEF Swap, Typed, TypeOK
    <3>3. CASE text' = text
      BY <3>1, <3>3 DEF Showing, Typed, TypeOK
    <3>4. QED
      BY <3>1, <3>2, <3>3
  <2>4. QED
    BY <2>2, <2>3 DEF Showing
<1>2. CASE Edit
  <2>1. Typed'
    BY <1>2, EditorTyped
  <2>2. text' # None
    BY <1>2, <2>1, NoneApart DEF Edit, Typed, TypeOK
  <2>3. QED
    BY <2>1, <2>2 DEF Showing
<1>3. CASE TimerIdle \/ CloseNote \/ \E p \in Path : Elapse(p)
  <2>1. Typed'
    BY <1>3, EditorTyped
  <2>2. UNCHANGED <<task, text>>
    BY <1>3 DEF TimerIdle, CloseNote, Elapse, editor
  <2>3. QED
    BY <2>1, <2>2 DEF Showing
<1>4. CASE Crash
  <2>1. Typed'
    BY <1>4, EditorTyped
  <2>2. \A u \in Task : task'[u].kind = "none"
    BY <1>4 DEF Crash, NoTask
  <2>3. QED
    BY <2>1, <2>2 DEF Showing, Moving
<1>5. CASE UNCHANGED vars
  BY <1>5 DEF vars, files, bin, editor, history, Typed, TypeOK, Staged, Showing
<1>6. QED
  BY <1>1, <1>2, <1>3, <1>4, <1>5, NextIs

\* The vault is typed at first.
LEMMA InitTyped == Init => Typed /\ Showing
<1> SUFFICES ASSUME Init
             PROVE  Typed /\ Showing
  OBVIOUS
<1>1. 0 \in 0..MaxOps /\ 0 \in 0..MaxCrashes /\ 0 \in 0..MaxEdits /\ 0 <= MaxVersions
  BY VaultAssumption
<1>2. \A p \in Initial : [of |-> p, rev |-> 0] \in Text /\ p \in Path /\ p \in NoteId
  BY <1>1, VaultAssumption DEF Text, NoteId
<1>3. disk \in [Path -> Maybe] /\ lineage \in [Path -> NoteId \cup {None}] /\ trash \in [0..MaxOps -> Maybe]
  BY <1>2 DEF Init, Maybe
<1>4. versions \in [Path -> Seq(Text)] /\ \A p \in Path : Len(versions[p]) <= MaxVersions
  <2>1. <<>> \in Seq(Text) /\ Len(<<>>) = 0
    BY EmptySeq
  <2>2. QED
    BY <1>1, <2>1 DEF Init
<1>5. task \in [Task -> Call] /\ Staged /\ Showing
  <2>1. task = [t \in Task |-> NoTask]
    BY DEF Init
  <2>2. NoTask.kind = "none"
    BY DEF NoTask
  <2>3. QED
    BY <2>1, <2>2, NoTaskTyped DEF Staged, Showing, Moving
<1>6. DOMAIN typed \subseteq NoteId /\ typed \in [DOMAIN typed -> 0..MaxEdits]
  BY <1>1, <1>2 DEF Init
<1>7. QED
  BY <1>1, <1>3, <1>4, <1>5, <1>6 DEF Init, Typed, TypeOK, Maybe

\* The calls, the notes and the editor are always typed (saveNote, openNote, createNote,
\* moveNote, deleteNote and their like never leave a call with a path or a text missing).
LEMMA TypedAlways == Spec => [](Typed /\ Showing)
BY InitTyped, TypedStep, PTL DEF Spec

\* The notes, the editor and the calls under way have the types that TypeOK says: a call
\* of api/notes.ts or api/trash.ts goes on with the paths and texts it needs, and no path
\* keeps more than maxVersionsPerFile snapshots.
THEOREM TypeCorrect == Spec => []TypeOK
<1>1. Typed /\ Showing => TypeOK
  BY DEF Typed
<1>2. QED
  BY <1>1, TypedAlways, PTL

-----------------------------------------------------------------------------
\* The names of the files in the trash, and of the items of the manifest.
Names == {n \in 0..MaxOps : trash[n] # None}
Listed == {m.name : m \in manifest}

\* A name that a file, an item or a call on the trash has was given out already.
Reading == {"note", "unbin", "unlist"}
Given(k) ==
  /\ k.kind \in OnTrash => k.name <= ops
  /\ k.kind \in OnTrash /\ k.at \in Reading => \A m \in k.items : m.name <= ops
Numbered ==
  /\ \A n \in Names \cup Listed : n <= ops
  /\ \A t \in Task : Given(task[t])

\* What the stage of a call on the trash says of the two, if it is the only one.
BinStep(k) ==
  \/ k.at = "bin" /\ Names = Listed /\ trash[k.name] = None
  \/ k.kind = "trash" /\ k.at \in {"list", "note"} /\ k.name \notin Listed /\ Names = Listed \cup {k.name}
  \/ k.at = "unbin" /\ Names = Listed /\ k.name \in Listed
  \/ k.kind \in {"purge", "unbin"} /\ k.at \in {"list", "unlist"} /\ k.name \in Listed /\ Names = Listed \ {k.name}
  \/ k.at = "clear" /\ Names = {}
ReadsItems(k) == k.at \in Reading => k.items = manifest

\* If none overlapped, there is one item for a file, and no other; and one call at most
\* is between its two steps.
Once == \A m1, m2 \in manifest : m1.name = m2.name => m1 = m2
Tidy ==
  ~rushed =>
    /\ Once
    /\ Busy(OnTrash) = {} => Names = Listed
    /\ \A t \in Busy(OnTrash) : Busy(OnTrash) = {t} /\ BinStep(task[t]) /\ ReadsItems(task[t])
Counted == Typed /\ Numbered /\ Tidy

\* A step that is not one of a call on the trash.
LEMMA Calm ==
  ASSUME Counted, UNCHANGED <<trash, manifest, rushed>>, ops' \in {ops, ops + 1},
         \A u \in Task : task'[u].kind \in OnTrash \/ task[u].kind \in OnTrash => Same(u)
  PROVE  Numbered' /\ Tidy'
<1>1. Names' = Names /\ Listed' = Listed
  BY DEF Names, Listed
<1>2. Busy(OnTrash)' = Busy(OnTrash)
  BY DEF Busy, Same, OnTrash
<1>3. /\ ops \in Nat /\ Names \subseteq Nat /\ Listed \subseteq Nat
      /\ \A u \in Task : task[u].name \in Nat /\ \A m \in task[u].items : m.name \in Nat
  BY VaultAssumption DEF Names, Listed, Counted, Typed, TypeOK, Call, Item
<1>4. ASSUME NEW u \in Task
      PROVE  Given(task[u])'
  BY <1>3 DEF Counted, Numbered, Given, Same
<1>5. \A n \in Names' \cup Listed' : n <= ops'
  <2>1. \A n \in Names \cup Listed : n \in Nat /\ n <= ops
    BY <1>3 DEF Counted, Numbered
  <2>2. QED
    BY <1>1, <1>3, <2>1
<1>6. Numbered'
  BY <1>4, <1>5 DEF Numbered
<1>7. ASSUME NEW t \in Busy(OnTrash), BinStep(task[t]), ReadsItems(task[t])
      PROVE  BinStep(task[t])' /\ ReadsItems(task[t])'
  <2>1. Same(t)
    BY DEF Busy
  <2>2. QED
    BY <1>1, <1>7, <2>1 DEF BinStep, ReadsItems, Same
<1>8. Tidy'
  BY <1>1, <1>2, <1>7 DEF Counted, Tidy, Once
<1>9. QED
  BY <1>6, <1>8

\* What the numbers of a step on the trash are.
LEMMA NumbersTyped ==
  ASSUME Counted
  PROVE  /\ ops \in Nat /\ MaxOps \in Nat /\ ops <= MaxOps /\ Names \subseteq 0..MaxOps /\ Listed \subseteq 0..MaxOps
         /\ \A u \in Task : task[u].name \in 0..MaxOps /\ \A m \in task[u].items : m.name \in 0..MaxOps
         /\ \A m \in manifest : m.name \in 0..MaxOps /\ m.name \in Listed
         /\ \A n \in 0..MaxOps : n \in Names <=> trash[n] # None
BY VaultAssumption DEF Counted, Names, Listed, Typed, TypeOK, Item, Call

\* A call on the trash that starts overlaps with none, or is a rush.
LEMMA Rushes ==
  ASSUME Counted, NEW t \in Task, NEW kind \in OnTrash, NEW s, NEW p, NEW q, NEW b, Becomes(t, kind, s, p, q, b),
         rushed' = Rushing
  PROVE  ~rushed' => /\ Once /\ Names = Listed
                     /\ Busy(OnTrash)' = {t}
<1> SUFFICES ASSUME ~rushed'
             PROVE  Once /\ Names = Listed /\ Busy(OnTrash)' = {t}
  OBVIOUS
<1>1. ~rushed /\ Busy(OnTrash) = {}
  BY DEF Rushing
<1>2. Busy(OnTrash)' = {t}
  BY <1>1 DEF Busy, Becomes, Same
<1>3. QED
  BY <1>1, <1>2 DEF Counted, Tidy

\* A step of a call on the trash that is the only one.
LEMMA OnlyBinCall ==
  ASSUME Counted, NEW t \in Task, task[t].kind \in OnTrash, NEW kind, NEW s, NEW p, NEW q, NEW b,
         Becomes(t, kind, s, p, q, b), rushed' = rushed
  PROVE  ~rushed' => /\ Once /\ BinStep(task[t]) /\ ReadsItems(task[t])
                     /\ Busy(OnTrash)' = IF kind \in OnTrash THEN {t} ELSE {}
<1> SUFFICES ASSUME ~rushed
             PROVE  /\ Once /\ BinStep(task[t]) /\ ReadsItems(task[t])
                    /\ Busy(OnTrash)' = IF kind \in OnTrash THEN {t} ELSE {}
  OBVIOUS
<1>1. t \in Busy(OnTrash)
  BY DEF Busy
<1>2. Busy(OnTrash) = {t} /\ Once /\ BinStep(task[t]) /\ ReadsItems(task[t])
  BY <1>1 DEF Counted, Tidy
<1>3. Busy(OnTrash)' = IF kind \in OnTrash THEN {t} ELSE {}
  BY <1>2 DEF Busy, Becomes, Same
<1>4. QED
  BY <1>2, <1>3

\* The last step of a call on the trash that is the only one.
LEMMA AloneDone ==
  ASSUME Counted, NEW t \in Task, task[t].kind \in OnTrash, Finishes(t), rushed' = rushed
  PROVE  ~rushed' => Once /\ BinStep(task[t]) /\ ReadsItems(task[t]) /\ Busy(OnTrash)' = {}
<1>1. Becomes(t, "none", "done", None, None, None) /\ "none" \notin OnTrash
  BY DEF Finishes, OnTrash
<1> DEFINE s == "none"
<1> HIDE DEF s
<1>2. Becomes(t, s, "done", None, None, None) /\ s \notin OnTrash
  BY <1>1 DEF s
<1>3. QED
  BY <1>2, OnlyBinCall

\* What is to be shown after a step of the call of t on the trash.
LEMMA TidyIf ==
  ASSUME NEW t \in Task,
         ~rushed' => /\ Once'
                     /\ \/ Busy(OnTrash)' = {} /\ Names' = Listed'
                        \/ Busy(OnTrash)' = {t} /\ BinStep(task[t])' /\ ReadsItems(task[t])'
  PROVE  Tidy'
BY DEF Tidy

-----------------------------------------------------------------------------
\* What is to be shown of the numbers after a step of the call of t.
LEMMA NumberedIf ==
  ASSUME Counted, NEW t \in Task, ops' \in {ops, ops + 1},
         \A u \in Task \ {t} : task'[u] = task[u],
         Names' \cup Listed' \subseteq 0..ops, Given(task[t])'
  PROVE  Numbered'
<1>1. \A n \in Names' \cup Listed' : n <= ops'
  BY NumbersTyped
<1>2. ASSUME NEW u \in Task \ {t}
      PROVE  Given(task[u])'
  <2>1. Given(task[u]) /\ task'[u] = task[u]
    BY DEF Counted, Numbered
  <2>2. QED
    BY <2>1, NumbersTyped DEF Given
<1>3. QED
  BY <1>1, <1>2 DEF Numbered

\* The numbers that were given out.
LEMMA NumbersGiven ==
  ASSUME Counted
  PROVE  /\ Names \cup Listed \subseteq 0..ops
         /\ \A u \in Task : /\ task[u].kind \in OnTrash => task[u].name \in 0..ops
                            /\ task[u].kind \in OnTrash /\ task[u].at \in Reading =>
                                 \A m \in task[u].items : m.name \in 0..ops
<1>1. ASSUME NEW u \in Task
      PROVE  /\ task[u].kind \in OnTrash => task[u].name \in 0..ops
             /\ task[u].kind \in OnTrash /\ task[u].at \in Reading =>
                  \A m \in task[u].items : m.name \in 0..ops
  BY NumbersTyped DEF Counted, Numbered, Given
<1>2. QED
  BY <1>1, NumbersTyped DEF Counted, Numbered

\* A note goes to the trash under a name that no file has.
LEMMA TrashTidy ==
  ASSUME Counted, NEW t \in Task, NEW p \in Path, Trash(t, p)
  PROVE  Numbered' /\ Tidy'
<1>1. /\ Becomes(t, "trash", "bin", p, None, None) /\ task'[t].name = IF trash[0] = None THEN 0 ELSE ops + 1
      /\ \A u \in Task \ {t} : task'[u] = task[u]
  BY TrashStarts DEF Counted
<1>2. ops < MaxOps /\ ops' = ops + 1 /\ rushed' = Rushing /\ UNCHANGED <<trash, manifest>>
  BY DEF Trash, Start, bin
<1>3. Names' = Names /\ Listed' = Listed
  BY <1>2 DEF Names, Listed
<1>4. Numbered'
  <2>1. Given(task[t])'
    BY <1>1, <1>2, NumbersTyped DEF Given, Becomes, Reading
  <2>2. QED
    BY <1>1, <1>2, <1>3, <2>1, NumbersGiven, NumberedIf
<1>5. trash[task'[t].name] = None
  BY <1>1, <1>2, NumbersTyped DEF Counted, Numbered
<1>6. ASSUME ~rushed'
      PROVE  Once' /\ Busy(OnTrash)' = {t} /\ BinStep(task[t])' /\ ReadsItems(task[t])'
  <2>1. Once /\ Names = Listed /\ Busy(OnTrash)' = {t}
    BY <1>1, <1>2, <1>6, Rushes DEF OnTrash
  <2>2. BinStep(task[t])' /\ ReadsItems(task[t])'
    BY <1>1, <1>2, <1>3, <1>5, <2>1 DEF BinStep, ReadsItems, Reading, Becomes
  <2>3. QED
    BY <1>2, <2>1, <2>2 DEF Once
<1>7. QED
  BY <1>4, <1>6, TidyIf

\* The file is in the trash under that name, and not listed yet, or the call is over.
LEMMA BinTidy ==
  ASSUME Counted, NEW t \in Task, Bin(t)
  PROVE  Numbered' /\ Tidy'
<1> DEFINE n == task[t].name
           p == task[t].path
<1>1. task[t].at = "bin" /\ task[t].kind = "trash" /\ p \in Path /\ ops' = ops /\ UNCHANGED <<manifest, rushed>>
  BY StageIs DEF Bin, Counted
<1>2. Listed' = Listed /\ (Once => Once')
  BY <1>1 DEF Listed, Once
<1>3. CASE Done(t) /\ UNCHANGED trash
  <2>1. Finishes(t) /\ \A u \in Task \ {t} : task'[u] = task[u]
    BY <1>3, DoneIs DEF Counted
  <2>2. Names' = Names
    BY <1>3 DEF Names
  <2>3. Given(task[t])'
    BY <2>1 DEF Given, Finishes, Becomes, OnTrash
  <2>4. Numbered'
    BY <1>1, <1>2, <2>1, <2>2, <2>3, NumbersGiven, NumberedIf
  <2>5. ASSUME ~rushed'
        PROVE  Once' /\ Busy(OnTrash)' = {} /\ Names' = Listed'
    <3>1. Once /\ BinStep(task[t]) /\ Busy(OnTrash)' = {}
      BY <1>1, <2>1, <2>5, AloneDone DEF OnTrash
    <3>2. QED
      BY <1>1, <1>2, <2>2, <3>1 DEF BinStep
  <2>6. QED
    BY <2>4, <2>5, TidyIf
<1>4. CASE disk[p] # None /\ Go(t, "list") /\ trash' = [trash EXCEPT ![n] = disk[p]]
  <2>1. Reaches(t, "list") /\ \A u \in Task \ {t} : task'[u] = task[u]
    BY <1>4, GoIs DEF Counted
  <2>2. n \in 0..MaxOps /\ trash \in [0..MaxOps -> Maybe]
    BY NumbersTyped DEF Counted, Typed, TypeOK
  <2>3. Names' = Names \cup {n}
    BY <1>4, <2>2 DEF Names
  <2>4. Given(task[t])'
    BY <1>1, <2>1, NumbersGiven, NumbersTyped DEF Given, Reaches, Becomes, Reading, OnTrash
  <2>5. n \in 0..ops
    BY <1>1, NumbersGiven DEF OnTrash
  <2>6. Numbered'
    BY <1>1, <1>2, <2>1, <2>3, <2>4, <2>5, NumbersGiven, NumberedIf
  <2>7. ASSUME ~rushed'
        PROVE  Once' /\ Busy(OnTrash)' = {t} /\ BinStep(task[t])' /\ ReadsItems(task[t])'
    <3>1. Once /\ BinStep(task[t]) /\ Busy(OnTrash)' = {t}
      BY <1>1, <2>1, <2>7, OnlyBinCall DEF Reaches, OnTrash
    <3>2. Names = Listed /\ n \notin Listed
      BY <1>1, <2>2, <3>1, NumbersTyped DEF BinStep
    <3>3. BinStep(task[t])' /\ ReadsItems(task[t])'
      BY <1>1, <1>2, <2>1, <2>3, <3>2 DEF BinStep, ReadsItems, Reading, Reaches, Becomes
    <3>4. QED
      BY <1>2, <3>1, <3>3
  <2>8. QED
    BY <2>6, <2>7, TidyIf
<1>5. QED
  BY <1>3, <1>4 DEF Bin

\* The manifest is read before it is written.
LEMMA ListTidy ==
  ASSUME Counted, NEW t \in Task, List(t)
  PROVE  Numbered' /\ Tidy'
<1>1. UNCHANGED <<trash, manifest, rushed, ops>>
  BY DEF List, bin, history
<1>2. Names' = Names /\ Listed' = Listed /\ (Once => Once')
  BY <1>1 DEF Names, Listed, Once
<1>3. /\ task[t].at = "list" /\ task[t].kind \in {"trash", "purge"}
      /\ task'[t].items = manifest /\ task'[t].name = task[t].name /\ \A u \in Task \ {t} : task'[u] = task[u]
      /\ \/ task[t].kind = "trash" /\ Becomes(t, "trash", "note", task[t].path, task[t].to, task[t].body)
         \/ task[t].kind = "purge" /\ Becomes(t, "purge", "unlist", task[t].path, task[t].to, task[t].body)
  BY ListIs DEF Counted
<1>4. Given(task[t])'
  <2>1. task[t].name \in 0..ops /\ \A m \in manifest : m.name \in 0..ops
    BY <1>3, NumbersGiven, NumbersTyped DEF OnTrash
  <2>2. QED
    BY <1>1, <1>3, <2>1, NumbersTyped DEF Given
<1>5. Numbered'
  BY <1>1, <1>2, <1>3, <1>4, NumbersGiven, NumberedIf
<1>6. ASSUME ~rushed'
      PROVE  Once' /\ Busy(OnTrash)' = {t} /\ BinStep(task[t])' /\ ReadsItems(task[t])'
  <2>1. Once /\ BinStep(task[t]) /\ Busy(OnTrash)' = {t}
    BY <1>1, <1>3, <1>6, OnlyBinCall DEF OnTrash
  <2>2. BinStep(task[t])' /\ ReadsItems(task[t])'
    BY <1>1, <1>2, <1>3, <2>1 DEF BinStep, ReadsItems, Becomes
  <2>3. QED
    BY <1>2, <2>1, <2>2
<1>7. QED
  BY <1>5, <1>6, TidyIf

\* The item of the file is noted.
LEMMA NoteTidy ==
  ASSUME Counted, NEW t \in Task, Note(t)
  PROVE  Numbered' /\ Tidy'
<1> DEFINE n == task[t].name
           m == [name |-> n, from |-> task[t].path]
<1>1. task[t].at = "note" /\ task[t].kind = "trash" /\ UNCHANGED <<trash, rushed, ops>>
  BY StageIs DEF Note, Counted
<1>2. Finishes(t) /\ \A u \in Task \ {t} : task'[u] = task[u]
  BY DoneIs DEF Note, Counted
<1>3. manifest' = task[t].items \cup {m} /\ m.name = n
  BY DEF Note
<1> HIDE DEF m
<1>4. Names' = Names /\ Listed' = {i.name : i \in task[t].items} \cup {n}
  BY <1>1, <1>3 DEF Names, Listed
<1>5. Listed' \subseteq 0..ops
  <2>1. task[t].kind \in OnTrash /\ task[t].at \in Reading
    BY <1>1 DEF Reading, OnTrash
  <2>2. QED
    BY <1>4, <2>1, NumbersGiven
<1>6. Given(task[t])'
  BY <1>2 DEF Given, Finishes, Becomes, OnTrash
<1>7. Numbered'
  BY <1>1, <1>2, <1>4, <1>5, <1>6, NumbersGiven, NumberedIf
<1>8. ASSUME ~rushed'
      PROVE  Once' /\ Busy(OnTrash)' = {} /\ Names' = Listed'
  <2>1. Once /\ BinStep(task[t]) /\ task[t].items = manifest /\ Busy(OnTrash)' = {}
    BY <1>1, <1>2, <1>8, AloneDone DEF OnTrash, ReadsItems, Reading
  <2>2. n \notin Listed /\ Names = Listed \cup {n}
    BY <1>1, <2>1 DEF BinStep
  <2>3. Once'
    BY <1>3, <2>1, <2>2 DEF Once, Listed
  <2>4. QED
    BY <1>4, <2>1, <2>2, <2>3 DEF Listed
<1>9. QED
  BY <1>7, <1>8, TidyIf

\* A file and its item are there when the note is put back.
LEMMA RestoreTidy ==
  ASSUME Counted, NEW t \in Task, NEW m \in manifest, Restore(t, m)
  PROVE  Numbered' /\ Tidy'
<1>1. /\ Becomes(t, "unbin", "unbin", m.from, None, None) /\ task'[t].name = m.name /\ task'[t].items = manifest
      /\ \A u \in Task \ {t} : task'[u] = task[u]
  BY UnbinStarts DEF Counted
<1>2. ops' = ops + 1 /\ rushed' = Rushing /\ UNCHANGED <<trash, manifest>>
  BY DEF Restore, Start, bin
<1>3. Names' = Names /\ Listed' = Listed /\ (Once => Once')
  BY <1>2 DEF Names, Listed, Once
<1>4. \A i \in manifest : i.name \in 0..ops /\ i.name \in Listed
  BY NumbersGiven, NumbersTyped
<1>5. Numbered'
  <2>1. Given(task[t])'
    BY <1>1, <1>2, <1>4, NumbersTyped DEF Given
  <2>2. QED
    BY <1>1, <1>2, <1>3, <2>1, NumbersGiven, NumberedIf
<1>6. ASSUME ~rushed'
      PROVE  Once' /\ Busy(OnTrash)' = {t} /\ BinStep(task[t])' /\ ReadsItems(task[t])'
  <2>1. Once /\ Names = Listed /\ Busy(OnTrash)' = {t}
    BY <1>1, <1>2, <1>6, Rushes DEF OnTrash
  <2>2. BinStep(task[t])' /\ ReadsItems(task[t])'
    BY <1>1, <1>2, <1>3, <1>4, <2>1 DEF BinStep, ReadsItems, Becomes
  <2>3. QED
    BY <1>3, <2>1, <2>2
<1>7. QED
  BY <1>5, <1>6, TidyIf

\* The file is gone then, and the item still there, or the call is over.
LEMMA UnbinTidy ==
  ASSUME Counted, NEW t \in Task, Unbin(t)
  PROVE  Numbered' /\ Tidy'
<1> DEFINE n == task[t].name
<1>1. task[t].at = "unbin" /\ task[t].kind = "unbin" /\ ops' = ops /\ UNCHANGED <<manifest, rushed>>
  BY StageIs DEF Unbin, Counted
<1>2. Listed' = Listed /\ (Once => Once')
  BY <1>1 DEF Listed, Once
<1>3. CASE Done(t) /\ UNCHANGED trash
  <2>1. Finishes(t) /\ \A u \in Task \ {t} : task'[u] = task[u]
    BY <1>3, DoneIs DEF Counted
  <2>2. Names' = Names
    BY <1>3 DEF Names
  <2>3. Given(task[t])'
    BY <2>1 DEF Given, Finishes, Becomes, OnTrash
  <2>4. Numbered'
    BY <1>1, <1>2, <2>1, <2>2, <2>3, NumbersGiven, NumberedIf
  <2>5. ASSUME ~rushed'
        PROVE  Once' /\ Busy(OnTrash)' = {} /\ Names' = Listed'
    <3>1. Once /\ BinStep(task[t]) /\ Busy(OnTrash)' = {}
      BY <1>1, <2>1, <2>5, AloneDone DEF OnTrash
    <3>2. QED
      BY <1>1, <1>2, <2>2, <3>1 DEF BinStep
  <2>6. QED
    BY <2>4, <2>5, TidyIf
<1>4. CASE Go(t, "unlist") /\ trash' = [trash EXCEPT ![n] = None]
  <2>1. Reaches(t, "unlist") /\ task'[t].items = task[t].items /\ \A u \in Task \ {t} : task'[u] = task[u]
    BY <1>4, GoIs DEF Counted
  <2>2. n \in 0..MaxOps /\ trash \in [0..MaxOps -> Maybe]
    BY NumbersTyped DEF Counted, Typed, TypeOK
  <2>3. Names' = Names \ {n}
    BY <1>4, <2>2 DEF Names
  <2>4. Given(task[t])'
    BY <1>1, <2>1, NumbersGiven, NumbersTyped DEF Given, Reaches, Becomes, Reading, OnTrash
  <2>5. Numbered'
    BY <1>1, <1>2, <2>1, <2>3, <2>4, NumbersGiven, NumberedIf
  <2>6. ASSUME ~rushed'
        PROVE  Once' /\ Busy(OnTrash)' = {t} /\ BinStep(task[t])' /\ ReadsItems(task[t])'
    <3>1. Once /\ BinStep(task[t]) /\ ReadsItems(task[t]) /\ Busy(OnTrash)' = {t}
      BY <1>1, <2>1, <2>6, OnlyBinCall DEF Reaches, OnTrash
    <3>2. Names = Listed /\ n \in Listed
      BY <1>1, <3>1 DEF BinStep
    <3>3. BinStep(task[t])' /\ ReadsItems(task[t])'
      BY <1>1, <1>2, <2>1, <2>3, <3>1, <3>2 DEF BinStep, ReadsItems, Reading, Reaches, Becomes
    <3>4. QED
      BY <1>2, <3>1, <3>3
  <2>7. QED
    BY <2>5, <2>6, TidyIf
<1>5. QED
  BY <1>3, <1>4 DEF Unbin

\* Its item is taken off the list.
LEMMA UnlistTidy ==
  ASSUME Counted, NEW t \in Task, Unlist(t)
  PROVE  Numbered' /\ Tidy'
<1> DEFINE n == task[t].name
<1>1. task[t].at = "unlist" /\ task[t].kind \in {"purge", "unbin"} /\ UNCHANGED <<trash, rushed, ops>>
  BY StageIs DEF Unlist, Counted, history
<1>2. Finishes(t) /\ \A u \in Task \ {t} : task'[u] = task[u]
  BY DoneIs DEF Unlist, Counted
<1>3. manifest' = {m \in task[t].items : m.name # n} /\ Names' = Names
  BY <1>1 DEF Unlist, Names
<1>4. task[t].kind \in OnTrash /\ task[t].at \in Reading
  BY <1>1 DEF OnTrash, Reading
<1>5. Listed' \subseteq 0..ops
  BY <1>3, <1>4, NumbersGiven DEF Listed
<1>6. Given(task[t])'
  BY <1>2 DEF Given, Finishes, Becomes, OnTrash
<1>7. Numbered'
  BY <1>1, <1>2, <1>3, <1>5, <1>6, NumbersGiven, NumberedIf
<1>8. ASSUME ~rushed'
      PROVE  Once' /\ Busy(OnTrash)' = {} /\ Names' = Listed'
  <2>1. Once /\ BinStep(task[t]) /\ task[t].items = manifest /\ Busy(OnTrash)' = {}
    BY <1>1, <1>2, <1>4, <1>8, AloneDone DEF ReadsItems
  <2>2. n \in Listed /\ Names = Listed \ {n}
    BY <1>1, <2>1 DEF BinStep
  <2>3. Once' /\ Listed' = Listed \ {n}
    BY <1>3, <2>1 DEF Once, Listed
  <2>4. QED
    BY <1>3, <2>1, <2>2, <2>3
<1>9. QED
  BY <1>7, <1>8, TidyIf

\* The file is purged before its item.
LEMMA PurgeTidy ==
  ASSUME Counted, NEW t \in Task, NEW m \in manifest, Purge(t, m)
  PROVE  Numbered' /\ Tidy'
<1>1. /\ Becomes(t, "purge", "list", None, None, None) /\ task'[t].name = m.name
      /\ \A u \in Task \ {t} : task'[u] = task[u]
  BY UnbinStarts DEF Counted
<1>2. ops' = ops + 1 /\ rushed' = Rushing /\ manifest' = manifest /\ trash' = [trash EXCEPT ![m.name] = None]
  BY DEF Purge, Start
<1>3. m.name \in 0..ops /\ m.name \in Listed /\ m.name \in 0..MaxOps
  BY NumbersGiven, NumbersTyped
<1>4. Names' = Names \ {m.name} /\ Listed' = Listed /\ (Once => Once')
  BY <1>2, <1>3 DEF Names, Listed, Once, Counted, Typed, TypeOK
<1>5. Numbered'
  <2>1. Given(task[t])'
    BY <1>1, <1>2, <1>3, NumbersTyped DEF Given, Becomes, Reading
  <2>2. QED
    BY <1>1, <1>2, <1>4, <2>1, NumbersGiven, NumberedIf
<1>6. ASSUME ~rushed'
      PROVE  Once' /\ Busy(OnTrash)' = {t} /\ BinStep(task[t])' /\ ReadsItems(task[t])'
  <2>1. Once /\ Names = Listed /\ Busy(OnTrash)' = {t}
    BY <1>1, <1>2, <1>6, Rushes DEF OnTrash
  <2>2. BinStep(task[t])' /\ ReadsItems(task[t])'
    BY <1>1, <1>3, <1>4, <2>1 DEF BinStep, ReadsItems, Reading, Becomes
  <2>3. QED
    BY <1>4, <2>1, <2>2
<1>7. QED
  BY <1>5, <1>6, TidyIf

\* All files are deleted before the manifest is cleared, ...
LEMMA EmptyTidy ==
  ASSUME Counted, NEW t \in Task, Empty(t)
  PROVE  Numbered' /\ Tidy'
<1>1. /\ Becomes(t, "empty", "clear", None, None, None) /\ task'[t].name = 0
      /\ \A u \in Task \ {t} : task'[u] = task[u]
  BY EmptyStarts DEF Counted
<1>2. ops' = ops + 1 /\ rushed' = Rushing /\ manifest' = manifest /\ trash' = [n \in 0..MaxOps |-> None]
  BY DEF Empty, Start
<1>3. Names' = {} /\ Listed' = Listed /\ (Once => Once')
  BY <1>2 DEF Names, Listed, Once
<1>4. Numbered'
  <2>1. Given(task[t])'
    BY <1>1, <1>2, NumbersTyped DEF Given, Becomes, Reading
  <2>2. QED
    BY <1>1, <1>2, <1>3, <2>1, NumbersGiven, NumberedIf
<1>5. ASSUME ~rushed'
      PROVE  Once' /\ Busy(OnTrash)' = {t} /\ BinStep(task[t])' /\ ReadsItems(task[t])'
  <2>1. Once /\ Busy(OnTrash)' = {t}
    BY <1>1, <1>2, <1>5, Rushes DEF OnTrash
  <2>2. BinStep(task[t])' /\ ReadsItems(task[t])'
    BY <1>1, <1>3, <2>1 DEF BinStep, ReadsItems, Reading, Becomes
  <2>3. QED
    BY <1>3, <2>1, <2>2
<1>6. QED
  BY <1>4, <1>5, TidyIf

\* ... and then neither is left.
LEMMA ClearTidy ==
  ASSUME Counted, NEW t \in Task, Clear(t)
  PROVE  Numbered' /\ Tidy'
<1>1. task[t].at = "clear" /\ task[t].kind = "empty" /\ UNCHANGED <<trash, rushed, ops>> /\ manifest' = {}
  BY StageIs DEF Clear, Counted, history
<1>2. Finishes(t) /\ \A u \in Task \ {t} : task'[u] = task[u]
  BY DoneIs DEF Clear, Counted
<1>3. Names' = Names /\ Listed' = {} /\ Once'
  BY <1>1 DEF Names, Listed, Once
<1>4. Given(task[t])'
  BY <1>2 DEF Given, Finishes, Becomes, OnTrash
<1>5. Numbered'
  BY <1>1, <1>2, <1>3, <1>4, NumbersGiven, NumberedIf
<1>6. ASSUME ~rushed'
      PROVE  Once' /\ Busy(OnTrash)' = {} /\ Names' = Listed'
  <2>1. BinStep(task[t]) /\ Busy(OnTrash)' = {}
    BY <1>1, <1>2, <1>6, AloneDone DEF OnTrash
  <2>2. QED
    BY <1>1, <1>3, <2>1 DEF BinStep
<1>7. QED
  BY <1>5, <1>6, TidyIf

\* A step of a call that is not on the trash.
LEMMA QuietTidy ==
  ASSUME Counted, NEW t \in Task, UNCHANGED <<trash, manifest, rushed>>, ops' \in {ops, ops + 1},
         task[t].kind \notin OnTrash, task'[t].kind \notin OnTrash, \A u \in Task \ {t} : Same(u)
  PROVE  Numbered' /\ Tidy'
BY Calm

\* Every step keeps the trash and its manifest in order.
LEMMA TidySteps ==
  ASSUME Counted, NEW t \in Task, Steps(t)
  PROVE  Numbered' /\ Tidy'
<1> USE DEF Counted, OnTrash, Start
<1>1. CASE TimerFires(t)
  BY <1>1, SaveStarts, QuietTidy DEF TimerFires, bin, Becomes
<1>2. CASE SaveNow(t)
  BY <1>2, SaveStarts, QuietTidy DEF SaveNow, bin, Becomes
<1>3. CASE Load(t)
  BY <1>3, LoadIs, QuietTidy DEF Load, bin, history, Becomes, Finishes
<1>4. CASE Swap(t)
  BY <1>4, SwapIs, QuietTidy DEF Swap, bin, history, Finishes, Becomes
<1>5. CASE Probe(t)
  BY <1>5, GoIs, StageIs, QuietTidy DEF Probe, bin, Reaches, Becomes, Writing
<1>6. CASE ReadOld(t)
  BY <1>6, ReadOldIs, StageIs, QuietTidy DEF ReadOld, bin, history, Becomes, Finishes, Writing
<1>7. CASE KeepOld(t)
  BY <1>7, GoIs, StageIs, QuietTidy DEF KeepOld, bin, Reaches, Becomes, Writing
<1>8. CASE Write(t)
  BY <1>8, WriteIs, QuietTidy DEF Write, bin, Opens, Becomes, Finishes, Making
<1>9. CASE \E p \in Path : RestoreVersion(t, p)
  BY <1>9, RestoreStarts, QuietTidy DEF RestoreVersion, bin, Becomes
<1>10. CASE DoRename(t)
  BY <1>10, GoIs, DoneIs, StageIs, QuietTidy DEF DoRename, bin, Reaches, Becomes, Finishes, Moving
<1>11. CASE Renamed(t)
  BY <1>11, RenamedIs, QuietTidy DEF Renamed, bin, Opens, Becomes, Finishes, Moving
<1>12. CASE Bin(t) \/ List(t) \/ Note(t)
  BY <1>12, BinTidy, ListTidy, NoteTidy
<1>13. CASE Unbin(t) \/ Unlist(t) \/ Empty(t) \/ Clear(t)
  BY <1>13, UnbinTidy, UnlistTidy, EmptyTidy, ClearTidy
<1>14. CASE DoRemove(t)
  BY <1>14, GoIs, DoneIs, StageIs, QuietTidy DEF DoRemove, bin, Reaches, Becomes, Finishes
<1>15. CASE DropVersions(t)
  BY <1>15, DoneIs, StageIs, QuietTidy DEF DropVersions, bin, Becomes, Finishes
<1>16. CASE \E p \in Path : CreateNote(t, p)
  BY <1>16, MakeStarts, QuietTidy DEF CreateNote, bin, Becomes
<1>17. CASE \E p \in Path : DuplicateNote(t, p)
  BY <1>17, MakeStarts, QuietTidy DEF DuplicateNote, bin, Becomes
<1>18. CASE \E p \in Path : FreeName(t, p)
  BY <1>18, FreeNameIs, QuietTidy DEF FreeName, bin, Becomes
<1>19. CASE \E p \in Path : OpenNote(t, p)
  BY <1>19, OpenStarts, QuietTidy DEF OpenNote, bin, Opens, Becomes
<1>20. CASE \E p \in Path : Trash(t, p)
  BY <1>20, TrashTidy
<1>21. CASE \E p \in Path, kind \in {"remove", "system"} : Remove(t, kind, p)
  BY <1>21, RemoveStarts, QuietTidy DEF Remove, bin, Becomes
<1>22. CASE \E p, q \in Path, kind \in {"rename", "move"} : Rename(t, kind, p, q)
  <2>1. PICK p \in Path, q \in Path, kind \in {"rename", "move"} : Rename(t, kind, p, q)
    BY <1>22
  <2>2. /\ task[t].kind = "none" /\ task'[t].kind \in {"rename", "move"}
        /\ \A u \in Task \ {t} : Same(u)
    BY <2>1, MoveStarts DEF Rename, Becomes
  <2>3. UNCHANGED <<trash, manifest, rushed>> /\ ops' = ops + 1
    BY <2>1 DEF Rename, Start, bin
  <2>4. QED
    BY <2>2, <2>3, QuietTidy
<1>23. CASE \E m \in manifest : Restore(t, m) \/ Purge(t, m)
  BY <1>23, RestoreTidy, PurgeTidy
<1>24. QED
  BY <1>1, <1>2, <1>3, <1>4, <1>5, <1>6, <1>7, <1>8, <1>9, <1>10, <1>11, <1>12, <1>13, <1>14, <1>15, <1>16,
     <1>17, <1>18, <1>19, <1>20, <1>21, <1>22, <1>23 DEF Steps

\* A crash that cuts a call on the trash off is a rush.
LEMMA CrashTidy ==
  ASSUME Counted, Crash
  PROVE  Numbered' /\ Tidy'
<1>1. UNCHANGED <<trash, manifest, ops>> /\ rushed' = Rushing /\ \A u \in Task : task'[u].kind = "none"
  BY DEF Crash, bin, NoTask
<1>2. Names' = Names /\ Listed' = Listed /\ (Once => Once')
  BY <1>1 DEF Names, Listed, Once
<1>3. Numbered'
  BY <1>1, <1>2 DEF Counted, Numbered, Given, OnTrash
<1>4. Busy(OnTrash)' = {}
  BY <1>1 DEF Busy, OnTrash
<1>5. ~rushed' => ~rushed /\ Busy(OnTrash) = {}
  BY <1>1 DEF Rushing
<1>6. QED
  BY <1>2, <1>3, <1>4, <1>5 DEF Counted, Tidy

\* Every step keeps the trash and its manifest in order.
LEMMA TidyStep == Counted /\ [Next]_vars => Numbered' /\ Tidy'
<1> SUFFICES ASSUME Counted, [Next]_vars
             PROVE  Numbered' /\ Tidy'
  OBVIOUS
<1>1. CASE \E t \in Task : Steps(t)
  BY <1>1, TidySteps
<1>2. CASE Edit
  <2>1. UNCHANGED <<trash, manifest, rushed, ops>> /\ \A u \in Task : Same(u)
    BY <1>2, EditIs DEF Edit, bin, Counted
  <2>2. QED
    BY <2>1, Calm
<1>3. CASE TimerIdle \/ CloseNote \/ (\E p \in Path : Elapse(p)) \/ UNCHANGED vars
  <2>1. UNCHANGED <<trash, manifest, rushed, ops, task>>
    BY <1>3 DEF TimerIdle, CloseNote, Elapse, vars, bin, history
  <2>2. \A u \in Task : Same(u)
    BY <2>1 DEF Same
  <2>3. QED
    BY <2>1, <2>2, Calm
<1>4. CASE Crash
  BY <1>4, CrashTidy
<1>5. QED
  BY <1>1, <1>2, <1>3, <1>4, NextIs

\* The trash is empty at first, and no call is under way.
LEMMA InitTidy == Init => Numbered /\ Tidy
<1> SUFFICES ASSUME Init
             PROVE  Numbered /\ Tidy
  OBVIOUS
<1>1. Names = {} /\ Listed = {} /\ manifest = {}
  BY DEF Init, Names, Listed
<1>2. \A u \in Task : task[u].kind = "none"
  BY DEF Init, NoTask
<1>3. QED
  BY <1>1, <1>2 DEF Numbered, Given, Tidy, Once, Busy, OnTrash

\* Between calls on the trash that did not overlap and were not cut off, trash.json has
\* one item for every file of .tactile/trash and no other (moveToTrash, restoreFromTrash,
\* deleteTrashItem and emptyTrash each take two steps to change the two).
THEOREM TrashAccounted == Spec => []TrashListed
<1>1. Tidy => TrashListed
  BY DEF Tidy, TrashListed, Once, Names, Listed
<1>2. Typed /\ Numbered /\ Tidy /\ [Next]_vars => Numbered' /\ Tidy'
  BY TidyStep DEF Counted
<1>3. QED
  BY <1>1, <1>2, InitTidy, TypedAlways, PTL DEF Spec

-----------------------------------------------------------------------------
\* The paths of a call, and what a call does at them.
Touches(t) == {task[t].path, task[t].to} \ {None}
Saver(t) == task[t].kind \in {"save", "open"} /\ task[t].at \in Writing
Opener(t) == task[t].kind = "open" /\ task[t].at \in {"load", "swap"}
Target(t) == IF task[t].kind \in Moving THEN task[t].to ELSE task[t].path
Claims(t) == (task[t].kind \in Making /\ task[t].path # None) \/ task[t].at \in {"rename", "unbin"}
Foreign(t) == task[t].kind = "restore" /\ lineage[task[t].path] # task[t].body.of
OpensActive == \E t \in Task : Opener(t) /\ task[t].to = active

\* Two calls: one that takes a note away or makes one is alone at its paths, and so is one that
\* restores a version of an earlier note; while a note moves, none is opened.
Pair(t, u) ==
  /\ task[u].kind \in Taking \cup Making => Touches(t) \cap Touches(u) = {}
  /\ Foreign(u) => task[u].path \notin Touches(t)
  /\ task[t].kind \in Moving => task[u].kind \notin Opening \cup Moving

\* One call: the path that it is to fill is free; it saves, and shows, what belongs to its path;
\* and a note that it moves, if it is the one that is shown, is all that the editor has.
Shows(t) == task[t].kind = "rename" \/ active = task[t].path
OwnClaim(t) == Claims(t) => active # Target(t) /\ disk[Target(t)] = None
OwnSaves(t) ==
  /\ Saver(t) => lineage[task[t].path] = task[t].body.of
  /\ task[t].kind = "restore" => lineage[task[t].path] # None
  /\ Opener(t) => task[t].body = None
  /\ task[t].at = "swap" => task[t].held.of = lineage[task[t].to]
  /\ task[t].kind \in Making => task[t].at \in {"names", "probe", "write"}
OwnMove(t) == task[t].kind \in Moving /\ Shows(t) =>
  /\ active \in {None, task[t].path} /\ dirty \in {None, task[t].path}
  /\ task[t].at = "rename" => lineage[task[t].path] = text.of
  /\ task[t].at = "renamed" => lineage[task[t].to] = text.of
Own(t) == OwnClaim(t) /\ OwnSaves(t) /\ OwnMove(t)

\* The paths hold what they are to hold, and the editor shows what its path is to hold, if that
\* is not gone and not about to be read again.
Agree == \A p \in Path : /\ disk[p] = None <=> lineage[p] = None
                         /\ disk[p] # None => disk[p].of = lineage[p]
Shown == active # None => lineage[active] \in {None, text.of} \/ OpensActive
DirtyActive == active # None /\ dirty # None => dirty = active
Noted ==
  /\ Agree /\ Shown /\ DirtyActive
  /\ \A t \in Task : Own(t) /\ \A u \in Task \ {t} : Pair(t, u)

\* What a contending step finds, if no race crosses the notes.
LEMMA ContendsFacts ==
  ASSUME NEW t \in Task, NEW ps, NEW lost, Contends(t, ps, lost), ~crossed'
  PROVE  /\ ~crossed
         /\ active # None => \/ lineage[active] # None
                             \/ task[t].at = "renamed" /\ active \notin ps \ {task[t].path}
         /\ \A u \in Task \ {t} : \A p \in ps : p \in Touches(u) =>
              /\ task[u].kind \notin Taking \cup Making /\ task'[t].kind \notin Taking \cup Making
              /\ ~Foreign(u)
              /\ task'[t].path # None /\ task'[t].body # None =>
                   lineage[task'[t].path] \in {None, task'[t].body.of}
         /\ task[t].kind = "restore" /\ dirty # None => task[t].body.of = text.of
         /\ \A u \in Task \ {t} :
              /\ task[u].kind \in Moving => task'[t].kind \notin Opening \cup Moving
              /\ task'[t].kind \in Moving => task[u].kind \notin Opening \cup Moving
<1> DEFINE others == Others(t, ps)
           p == task'[t].path
           held == ({task[u].body : u \in others} \cup {task'[t].body}) \ {None}
           kinds(u) == {task[u].kind, task'[t].kind}
<1>1. ~( \/ crossed
         \/ active # None /\ lineage[active] = None /\ (task[t].at = "renamed" => active \in ps \ {task[t].path})
         \/ \E u \in others : kinds(u) \cap (Taking \cup Making) # {}
         \/ \E u \in others : task[u].kind = "restore" /\ lineage[task[u].path] # task[u].body.of
         \/ others # {} /\ p # None /\ \E b \in held : lineage[p] \notin {None, b.of}
         \/ task[t].kind = "restore" /\ dirty # None /\ task[t].body.of # text.of
         \/ \E u \in Task \ {t} : kinds(u) \subseteq Opening \cup Moving /\ kinds(u) \cap Moving # {})
  BY Zenon DEF Contends
<1>2. ASSUME NEW u \in Task \ {t}, NEW q \in ps, q \in Touches(u)
      PROVE  u \in others
  BY <1>2 DEF Others, Touches
<1>3. ASSUME NEW u \in Task \ {t}, NEW q \in ps, q \in Touches(u)
      PROVE  /\ task[u].kind \notin Taking \cup Making /\ task'[t].kind \notin Taking \cup Making
             /\ ~Foreign(u)
             /\ task'[t].path # None /\ task'[t].body # None =>
                  lineage[task'[t].path] \in {None, task'[t].body.of}
  <2>1. u \in others
    BY <1>2, <1>3
  <2> HIDE DEF others
  <2>2. kinds(u) \cap (Taking \cup Making) = {} /\ ~(task[u].kind = "restore" /\ lineage[task[u].path] # task[u].body.of)
    BY <1>1, <2>1
  <2>3. task'[t].body # None => task'[t].body \in held
    OBVIOUS
  <2>4. p # None => \A b \in held : lineage[p] \in {None, b.of}
    BY <1>1, <2>1
  <2>5. QED
    BY <2>2, <2>3, <2>4 DEF Foreign
<1>4. ASSUME NEW u \in Task \ {t}
      PROVE  /\ task[u].kind \in Moving => task'[t].kind \notin Opening \cup Moving
             /\ task'[t].kind \in Moving => task[u].kind \notin Opening \cup Moving
  <2>1. ~(kinds(u) \subseteq Opening \cup Moving /\ kinds(u) \cap Moving # {})
    BY <1>1
  <2>2. QED
    BY <2>1
<1>5. QED
  BY <1>1, <1>3, <1>4

\* What a step of the call of t changes but for the call.
Within(t) ==
  /\ \A p \in Path : disk'[p] # disk[p] => p \in Touches(t)
  /\ \A p \in Path : lineage'[p] # lineage[p] =>
       /\ p \in Touches(t)
       /\ task[t].kind \in Taking \cup Making \/ Foreign(t)
  /\ active' \in {active, None} \/ (active' \in Touches(t) /\ task[t].kind \in Opening \cup Moving)
  /\ dirty' \in {dirty, None} \/ task[t].kind \in Moving
  /\ text' = text \/ task[t].kind \in Opening
  /\ \A u \in Task \ {t} : Same(u)

\* The calls of the other tasks stay right, ...
LEMMA Bystanders ==
  ASSUME Typed, Noted, NEW t \in Task, Within(t), NEW u \in Task \ {t}
  PROVE  /\ Touches(u)' = Touches(u) /\ Foreign(u)' = Foreign(u)
         /\ \A p \in Touches(u) : lineage'[p] = lineage[p]
         /\ Own(u)'
<1>1. Same(u) /\ task[u] \in Call /\ Pair(t, u) /\ Pair(u, t) /\ Own(u)
  BY CallTyped DEF Within, Noted
<1>2. Touches(u)' = Touches(u) /\ Touches(u) \subseteq Path
  BY <1>1 DEF Same, Touches, Call
<1>3. ASSUME NEW p \in Touches(u), lineage'[p] # lineage[p]
      PROVE  FALSE
  <2>1. p \in Path /\ p \in Touches(t) /\ (task[t].kind \in Taking \cup Making \/ Foreign(t))
    BY <1>2, <1>3 DEF Within
  <2>2. Foreign(t)
    BY <1>1, <2>1 DEF Pair
  <2>3. task[t].to = None
    BY <2>2, StageIs DEF Foreign, Writing
  <2>4. QED
    BY <1>1, <2>1, <2>2, <2>3 DEF Pair, Touches
<1>4. task[u].kind = "restore" \/ Saver(u) => task[u].path \in Touches(u)
  BY StageIs, NoneApart DEF Touches, Saver
<1>5. Foreign(u)' = Foreign(u)
  BY <1>1, <1>3, <1>4 DEF Same, Foreign
<1>6. OwnClaim(u)'
  <2> SUFFICES ASSUME Claims(u)
               PROVE  active' # Target(u) /\ disk'[Target(u)] = None
    BY <1>1 DEF OwnClaim, Claims, Target, Same
  <2>1. task[u].kind \in Taking \cup Making /\ Target(u) \in Touches(u)
    BY StageIs, NoneApart DEF Claims, Target, Touches, Taking, Making, Moving
  <2>2. Target(u) \notin Touches(t) /\ Target(u) \in Path
    BY <1>1, <1>2, <2>1 DEF Pair
  <2>3. active # Target(u) /\ disk[Target(u)] = None
    BY <1>1 DEF Own, OwnClaim
  <2>4. QED
    BY <2>2, <2>3, NoneApart DEF Within
<1>7. OwnSaves(u)'
  <2>1. OwnSaves(u) /\ (task[u].at = "swap" => task[u].to \in Touches(u))
    BY <1>1, StageIs, NoneApart DEF Own, Touches
  <2>2. QED
    BY <1>1, <1>3, <1>4, <2>1 DEF OwnSaves, Same, Saver, Opener
<1>8. OwnMove(u)'
  <2> SUFFICES ASSUME task[u].kind \in Moving, Shows(u)'
               PROVE  OwnMove(u)'
    BY <1>1 DEF OwnMove, Same
  <2>1. /\ task[t].kind \notin Opening \cup Moving /\ OwnMove(u)
        /\ task[u].path \in Touches(u) /\ task[u].to \in Touches(u) /\ task[u].path # None
    BY <1>1, StageIs, NoneApart DEF Pair, Own, Touches
  <2>2. active' \in {active, None} /\ dirty' \in {dirty, None} /\ text' = text
    BY <2>1 DEF Within
  <2>3. Shows(u)
    BY <1>1, <2>1, <2>2 DEF Shows, Same
  <2>4. QED
    BY <1>1, <1>3, <2>1, <2>2, <2>3 DEF OwnMove, Same
<1>9. QED
  BY <1>2, <1>3, <1>5, <1>6, <1>7, <1>8 DEF Own

\* ... and they stay right beside each other.
LEMMA BystanderPairs ==
  ASSUME Typed, Noted, NEW t \in Task, Within(t), NEW u \in Task \ {t}, NEW a \in Task \ {t, u}
  PROVE  Pair(a, u)'
<1>1. Same(u) /\ Same(a) /\ Pair(a, u)
  BY DEF Within, Noted
<1>2. Touches(u)' = Touches(u) /\ Foreign(u)' = Foreign(u) /\ Touches(a)' = Touches(a)
  BY Bystanders
<1>3. QED
  BY <1>1, <1>2 DEF Pair, Same

\* The call of t and another: one that goes on at its paths, ...
LEMMA PairsGoOn ==
  ASSUME Typed, Noted, NEW t \in Task, Within(t), Touches(t)' \subseteq Touches(t),
         task'[t].kind = task[t].kind,
         task[t].kind = "restore" => task'[t].path = task[t].path /\ task'[t].body = task[t].body /\ lineage' = lineage,
         NEW u \in Task \ {t}
  PROVE  Pair(t, u)' /\ Pair(u, t)'
<1>1. Same(u) /\ Pair(t, u) /\ Pair(u, t)
  BY DEF Within, Noted
<1>2. Touches(u)' = Touches(u) /\ Foreign(u)' = Foreign(u)
  BY Bystanders
<1>3. Foreign(t)' => Foreign(t)
  BY DEF Foreign
<1>4. QED
  BY <1>1, <1>2, <1>3 DEF Pair, Same, Foreign

\* ... one that contends for its paths, ...
LEMMA PairsContend ==
  ASSUME Typed, Noted, NEW t \in Task, Within(t), NEW ps, NEW lost, Contends(t, ps, lost), ~crossed',
         Touches(t)' \subseteq ps,
         task'[t].kind = "restore" =>
           /\ task'[t].path \in Path /\ task'[t].body \in Text
           /\ lineage' = lineage /\ lineage[task'[t].path] # None,
         NEW u \in Task \ {t}
  PROVE  Pair(t, u)' /\ Pair(u, t)'
<1>1. Same(u)
  BY DEF Within
<1>2. Touches(u)' = Touches(u) /\ Foreign(u)' = Foreign(u)
  BY Bystanders
<1>3. \A p \in Touches(t)' : p \in Touches(u) =>
        /\ task[u].kind \notin Taking \cup Making /\ task'[t].kind \notin Taking \cup Making
        /\ ~Foreign(u)
        /\ task'[t].path # None /\ task'[t].body # None => lineage[task'[t].path] \in {None, task'[t].body.of}
  BY ContendsFacts
<1>4. /\ task[u].kind \in Moving => task'[t].kind \notin Opening \cup Moving
      /\ task'[t].kind \in Moving => task[u].kind \notin Opening \cup Moving
  BY ContendsFacts
<1>5. Foreign(t)' => task'[t].path \in Touches(t)' /\ task'[t].path \notin Touches(u)
  BY <1>3, NoneApart DEF Foreign, Touches
<1>6. Foreign(u) => task[u].path \in Touches(u)
  BY StageIs, NoneApart DEF Foreign, Touches
<1>7. QED
  BY <1>1, <1>2, <1>3, <1>4, <1>5, <1>6 DEF Pair, Same

\* ... or one that has none.
LEMMA PairsNowhere ==
  ASSUME Typed, Noted, NEW t \in Task, Within(t), Touches(t)' = {},
         task'[t].kind \notin Opening \cup Moving, NEW u \in Task \ {t}
  PROVE  Pair(t, u)' /\ Pair(u, t)'
<1>1. Same(u) /\ Touches(u)' = Touches(u)
  BY Bystanders DEF Within
<1>2. ~Foreign(t)'
  BY DEF Foreign, Opening
<1>3. QED
  BY <1>1, <1>2 DEF Pair, Same

-----------------------------------------------------------------------------
\* A step that leaves the files and the editor alone but for the dirty flag.
LEMMA WithinQuiet ==
  ASSUME NEW t \in Task, UNCHANGED <<disk, lineage, active, text>>, dirty' \in {dirty, None},
         \A u \in Task \ {t} : Same(u)
  PROVE  Within(t)
BY DEF Within

\* A step that leaves the other calls alone.
LEMMA SameIf ==
  ASSUME NEW t \in Task, \A u \in Task \ {t} : task'[u] = task[u]
  PROVE  \A u \in Task \ {t} : Same(u)
BY DEF Same

\* A step that takes the note of the call's path away.
LEMMA WithinTakes ==
  ASSUME Typed, NEW t \in Task, task[t].kind \in Taking, task[t].path \in Path,
         \/ UNCHANGED <<disk, lineage>>
         \/ /\ disk' = [disk EXCEPT ![task[t].path] = None]
            /\ lineage' = [lineage EXCEPT ![task[t].path] = None],
         UNCHANGED <<active, text, dirty>>, \A u \in Task \ {t} : Same(u)
  PROVE  Within(t)
BY NoneApart DEF Within, Touches, Typed, TypeOK

\* A step of a call changes the files at its paths only, and the editor as its kind says.
LEMMA WithinSteps ==
  ASSUME Typed, NEW t \in Task, Steps(t)
  PROVE  Within(t)
<1>1. CASE TimerFires(t)
  BY <1>1, SaveStarts, SameIf, WithinQuiet DEF TimerFires, files
<1>2. CASE SaveNow(t)
  BY <1>2, SaveStarts, SameIf, WithinQuiet DEF SaveNow, files, editor
<1>3. CASE Load(t)
  BY <1>3, LoadIs, SameIf, WithinQuiet DEF Load, files, editor, history
<1>4. CASE Swap(t)
  <2>1. task[t].kind = "open" /\ task[t].to \in Path /\ \A u \in Task \ {t} : Same(u)
    BY <1>4, SwapIs DEF Finishes, Becomes
  <2>2. active' = task[t].to /\ dirty' = None /\ UNCHANGED <<disk, lineage>>
    BY <1>4 DEF Swap, files, history
  <2>3. QED
    BY <2>1, <2>2, NoneApart DEF Within, Touches, Opening
<1>5. CASE Probe(t)
  BY <1>5, GoIs, SameIf, WithinQuiet DEF Probe, editor
<1>6. CASE ReadOld(t)
  BY <1>6, ReadOldIs, SameIf, WithinQuiet DEF ReadOld, files, editor, history
<1>7. CASE KeepOld(t)
  BY <1>7, GoIs, SameIf, WithinQuiet DEF KeepOld, editor
<1>8. CASE Write(t)
  <2> DEFINE p == task[t].path
  <2>1. /\ p \in Path /\ disk' = [disk EXCEPT ![p] = task[t].body] /\ dirty' \in {dirty, None}
        /\ \A u \in Task \ {t} : Same(u)
        /\ lineage' = lineage \/ /\ task[t].kind \in {"restore"} \cup Making
                                 /\ lineage' = [lineage EXCEPT ![p] = task[t].body.of]
    BY <1>8, WriteIs, SameIf
  <2>2. UNCHANGED <<active, text>> /\ p \in Touches(t)
    BY <1>8, <2>1, NoneApart DEF Write, Touches
  <2>3. QED
    BY <2>1, <2>2 DEF Within, Foreign, Typed, TypeOK
<1>9. CASE \E p \in Path : RestoreVersion(t, p)
  BY <1>9, RestoreStarts, SameIf, WithinQuiet DEF RestoreVersion, files, editor
<1>10. CASE DoRename(t)
  <2>1. task[t].kind \in Moving /\ task[t].path \in Path /\ task[t].to \in Path
    BY <1>10, StageIs DEF DoRename
  <2>2. \A u \in Task \ {t} : Same(u)
    BY <1>10, GoIs, DoneIs, SameIf DEF DoRename
  <2>3. UNCHANGED <<active, text, dirty>>
    BY <1>10 DEF DoRename, editor
  <2>4. \A p \in Path \ Touches(t) : disk'[p] = disk[p] /\ lineage'[p] = lineage[p]
    BY <1>10, <2>1, NoneApart DEF DoRename, Touches, Typed, TypeOK
  <2>5. QED
    BY <2>1, <2>2, <2>3, <2>4 DEF Within, Taking
<1>11. CASE Renamed(t)
  <2>1. task[t].kind \in Moving /\ task[t].to \in Touches(t) /\ (\A u \in Task \ {t} : Same(u))
        /\ active' \in {active, task[t].to}
    BY <1>11, RenamedIs, SameIf, NoneApart DEF Touches
  <2>2. UNCHANGED <<disk, lineage, text>>
    BY <1>11 DEF Renamed, files
  <2>3. QED
    BY <2>1, <2>2 DEF Within
<1>12. CASE Bin(t)
  <2>1. task[t].kind \in Taking /\ task[t].path \in Path
    BY <1>12, StageIs DEF Bin, Taking
  <2>2. \A u \in Task \ {t} : Same(u)
    BY <1>12, GoIs, DoneIs, SameIf DEF Bin
  <2>3. QED
    BY <1>12, <2>1, <2>2, WithinTakes DEF Bin, editor
<1>13. CASE List(t)
  BY <1>13, ListIs, SameIf, WithinQuiet DEF List, files, editor, history
<1>14. CASE Note(t)
  BY <1>14, DoneIs, SameIf DEF Note, Deleted, Within, files
<1>15. CASE DoRemove(t)
  <2>1. task[t].kind \in Taking /\ task[t].path \in Path
    BY <1>15, StageIs DEF DoRemove, Taking
  <2>2. \A u \in Task \ {t} : Same(u)
    BY <1>15, GoIs, DoneIs, SameIf DEF DoRemove
  <2>3. QED
    BY <1>15, <2>1, <2>2, WithinTakes DEF DoRemove, editor
<1>16. CASE DropVersions(t)
  BY <1>16, DoneIs, SameIf DEF DropVersions, Deleted, Within
<1>17. CASE Unbin(t)
  <2>1. task[t].kind \in Taking /\ task[t].path \in Touches(t)
    BY <1>17, StageIs, NoneApart DEF Unbin, Taking, Touches
  <2>2. \A u \in Task \ {t} : Same(u)
    BY <1>17, GoIs, DoneIs, SameIf DEF Unbin
  <2>3. QED
    BY <1>17, <2>1, <2>2 DEF Unbin, editor, Within, Typed, TypeOK
<1>18. CASE Unlist(t)
  BY <1>18, DoneIs, SameIf, WithinQuiet DEF Unlist, files, editor, history
<1>19. CASE Empty(t)
  BY <1>19, EmptyStarts, SameIf, WithinQuiet DEF Empty, files, editor
<1>20. CASE Clear(t)
  BY <1>20, DoneIs, SameIf, WithinQuiet DEF Clear, files, editor, history
<1>21. CASE \E p \in Path : CreateNote(t, p)
  BY <1>21, MakeStarts, SameIf, WithinQuiet DEF CreateNote, files, editor
<1>22. CASE \E p \in Path : DuplicateNote(t, p)
  BY <1>22, MakeStarts, SameIf, WithinQuiet DEF DuplicateNote, files, editor
<1>23. CASE \E p \in Path : FreeName(t, p)
  BY <1>23, FreeNameIs, SameIf, WithinQuiet DEF FreeName, files, editor
<1>24. CASE \E p \in Path : OpenNote(t, p)
  BY <1>24, OpenStarts, SameIf, WithinQuiet DEF OpenNote, Opens, files
<1>25. CASE \E p \in Path : Trash(t, p)
  BY <1>25, TrashStarts, SameIf, WithinQuiet DEF Trash, files, editor
<1>26. CASE \E p \in Path, kind \in {"remove", "system"} : Remove(t, kind, p)
  BY <1>26, RemoveStarts, SameIf, WithinQuiet DEF Remove, editor
<1>27. CASE \E p, q \in Path, kind \in {"rename", "move"} : Rename(t, kind, p, q)
  BY <1>27, MoveStarts, SameIf, WithinQuiet DEF Rename, files, editor
<1>28. CASE \E m \in manifest : Restore(t, m)
  BY <1>28, UnbinStarts, SameIf, WithinQuiet DEF Restore, files, editor
<1>29. CASE \E m \in manifest : Purge(t, m)
  BY <1>29, UnbinStarts, SameIf, WithinQuiet DEF Purge, files, editor
<1>30. QED
  BY <1>1, <1>2, <1>3, <1>4, <1>5, <1>6, <1>7, <1>8, <1>9, <1>10, <1>11, <1>12, <1>13, <1>14, <1>15, <1>16,
     <1>17, <1>18, <1>19, <1>20, <1>21, <1>22, <1>23, <1>24, <1>25, <1>26, <1>27, <1>28, <1>29 DEF Steps

-----------------------------------------------------------------------------
\* What is to be shown of a step of the call of t.
LEMMA NotedIf ==
  ASSUME Typed, Noted, NEW t \in Task, Within(t), Agree', Shown', DirtyActive', Own(t)',
         \A u \in Task \ {t} : Pair(t, u)' /\ Pair(u, t)'
  PROVE  Noted'
<1>1. ASSUME NEW u \in Task
      PROVE  Own(u)' /\ \A a \in Task \ {u} : Pair(u, a)'
  <2>1. CASE u = t
    BY <2>1
  <2>2. CASE u # t
    <3>1. Own(u)'
      BY <2>2, Bystanders
    <3>2. ASSUME NEW a \in Task \ {u}
          PROVE  Pair(u, a)'
      BY <2>2, BystanderPairs
    <3>3. QED
      BY <3>1, <3>2
  <2>3. QED
    BY <2>1, <2>2
<1>2. QED
  BY <1>1 DEF Noted

\* A step that leaves the files and what is shown alone, or closes the note.
LEMMA QuietParts ==
  ASSUME Noted, NEW t \in Task, UNCHANGED <<disk, lineage, text>>, active' \in {active, None},
         dirty' \in {dirty, None} \/ active' = None,
         \A u \in Task \ {t} : Same(u), Opener(t) => Opener(t)' /\ task'[t].to = task[t].to
  PROVE  Agree' /\ Shown' /\ DirtyActive'
<1>1. Agree'
  BY DEF Noted, Agree
<1>2. OpensActive /\ active' = active => OpensActive'
  <2> SUFFICES ASSUME OpensActive, active' = active
               PROVE  OpensActive'
    OBVIOUS
  <2>1. PICK u \in Task : Opener(u) /\ task[u].to = active
    BY DEF OpensActive
  <2>2. Opener(u)' /\ task'[u].to = active'
    BY <2>1 DEF Opener, Same
  <2>3. QED
    BY <2>2 DEF OpensActive
<1>3. Shown'
  BY <1>2 DEF Noted, Shown
<1>4. DirtyActive'
  BY DEF Noted, DirtyActive
<1>5. QED
  BY <1>1, <1>3, <1>4

\* A call that only reads or counts.
LEMMA OwnIdle ==
  ASSUME NEW t \in Task, task'[t].kind \notin {"save", "open", "restore"} \cup Making \cup Moving,
         task'[t].at \notin {"rename", "unbin", "swap"}
  PROVE  Own(t)'
BY DEF Own, OwnClaim, OwnSaves, OwnMove, Claims, Saver, Opener

\* A call that is over touches nothing.
LEMMA OverIs ==
  ASSUME Typed, NEW t \in Task, Finishes(t)
  PROVE  Touches(t)' = {} /\ Own(t)' /\ task'[t].kind = "none"
<1>1. task'[t].kind = "none" /\ task'[t].at = "done" /\ task'[t].path = None /\ task'[t].to = None
  BY DEF Finishes, Becomes
<1>2. Own(t)'
  BY <1>1, OwnIdle DEF Making, Moving
<1>3. QED
  BY <1>1, <1>2 DEF Touches

\* A step with which the call of t ends, if it leaves the rest right.
LEMMA OverNoted ==
  ASSUME Typed, Noted, NEW t \in Task, Within(t), Finishes(t), Agree', Shown', DirtyActive'
  PROVE  Noted'
<1>1. Touches(t)' = {} /\ Own(t)' /\ task'[t].kind \notin Opening \cup Moving
  BY OverIs DEF Opening, Moving
<1>2. \A u \in Task \ {t} : Pair(t, u)' /\ Pair(u, t)'
  BY <1>1, PairsNowhere
<1>3. QED
  BY <1>1, <1>2, NotedIf

\* A step of a call that has no other paths than before, and leaves the notes alone.
LEMMA GoOnNoted ==
  ASSUME Typed, Noted, NEW t \in Task, Within(t), UNCHANGED <<disk, lineage, active, text, dirty>>,
         Becomes(t, task[t].kind, task'[t].at, task[t].path, task[t].to, task[t].body),
         Opener(t) => Opener(t)', Own(t)'
  PROVE  Noted'
<1>1. Touches(t)' = Touches(t) /\ task'[t].to = task[t].to
  BY DEF Touches, Becomes
<1>2. Agree' /\ Shown' /\ DirtyActive'
  BY <1>1, QuietParts DEF Within
<1>3. \A u \in Task \ {t} : Pair(t, u)' /\ Pair(u, t)'
  <2>1. task'[t].kind = task[t].kind /\ task'[t].path = task[t].path /\ task'[t].body = task[t].body
    BY DEF Becomes
  <2>2. QED
    BY <1>1, <2>1, PairsGoOn
<1>4. QED
  BY <1>2, <1>3, NotedIf

\* The editor shows what the active path is to hold, when a call that contends for the path
\* takes the note, or what the editor shows.
LEMMA ShownIs ==
  ASSUME Typed, Noted, NEW t \in Task, NEW ps, NEW lost, Contends(t, ps, lost), ~crossed',
         active # None, active \in ps, ~Opener(t), task[t].at # "renamed", text \in Text,
         task'[t].kind \in Taking \cup Making \/ (task'[t].path = active /\ task'[t].body = text)
  PROVE  lineage[active] = text.of
<1>1. lineage[active] # None
  BY ContendsFacts
<1>2. CASE OpensActive
  <2>1. PICK u \in Task : Opener(u) /\ task[u].to = active
    BY <1>2 DEF OpensActive
  <2>2. u # t /\ active \in Touches(u)
    BY <2>1 DEF Touches
  <2>3. task'[t].kind \notin Taking \cup Making
    BY <2>2, ContendsFacts
  <2>4. task'[t].path # None /\ task'[t].body # None
    BY <2>3, NoneApart
  <2>5. lineage[task'[t].path] \in {None, task'[t].body.of}
    BY <2>2, <2>4, ContendsFacts
  <2>6. QED
    BY <1>1, <2>3, <2>5
<1>3. CASE ~OpensActive
  BY <1>1, <1>3 DEF Noted, Shown
<1>4. QED
  BY <1>2, <1>3

\* No note that is shown is at a path that is free.
LEMMA FreeIs ==
  ASSUME Typed, Noted, NEW t \in Task, NEW ps, NEW lost, Contends(t, ps, lost), ~crossed',
         task[t].at # "renamed", NEW q \in Path, disk[q] = None
  PROVE  active # q
<1>1. active # None => lineage[active] # None
  BY ContendsFacts
<1>2. active # None => active \in Path
  BY DEF Typed, TypeOK
<1>3. QED
  BY <1>1, <1>2, NoneApart DEF Noted, Agree

\* A call that contends for its paths, if it is right and leaves the notes alone.
LEMMA ContendNoted ==
  ASSUME Typed, Noted, NEW t \in Task, Within(t), UNCHANGED <<disk, lineage, active, text>>, dirty' \in {dirty, None},
         ~Opener(t), NEW ps, NEW lost, Contends(t, ps, lost), ~crossed', Touches(t)' \subseteq ps,
         task'[t].kind = "restore" =>
           task'[t].path \in Path /\ task'[t].body \in Text /\ lineage[task'[t].path] # None,
         Own(t)'
  PROVE  Noted'
<1>1. Agree' /\ Shown' /\ DirtyActive'
  BY QuietParts DEF Within
<1>2. \A u \in Task \ {t} : Pair(t, u)' /\ Pair(u, t)'
  BY PairsContend
<1>3. QED
  BY <1>1, <1>2, NotedIf

\* The contents of the editor are saved to the path that they belong to.
LEMMA SaveNoted ==
  ASSUME Typed, Noted, NEW t \in Task, NEW b \in BOOLEAN, active # None, Start(t, Saving("save", active, b)),
         Within(t), Contends(t, {active}, {}), UNCHANGED <<disk, lineage, active, text, dirty>>, ~crossed'
  PROVE  Noted'
<1>1. /\ task[t].kind = "none" /\ active \in Path /\ text \in Text
      /\ Becomes(t, "save", "probe", active, None, text)
  BY SaveStarts
<1>2. ~Opener(t) /\ task[t].at # "renamed"
  BY <1>1, StageIs DEF Opener
<1>3. lineage[active] = text.of
  BY <1>1, <1>2, ShownIs DEF Becomes
<1>4. Own(t)'
  BY <1>1, <1>3 DEF Own, OwnClaim, OwnSaves, OwnMove, Claims, Saver, Opener, Becomes, Making, Moving, Writing
<1>5. Touches(t)' \subseteq {active} /\ task'[t].kind # "restore"
  BY <1>1 DEF Touches, Becomes
<1>6. QED
  BY <1>2, <1>4, <1>5, ContendNoted

\* A note that is opened, ...
LEMMA OpenedOwn ==
  ASSUME Typed, NEW t \in Task, NEW d, NEW p \in Path, Opens(t, d, p),
         d \in Path /\ active # None => lineage'[d] = text.of
  PROVE  Own(t)' /\ Touches(t)' \subseteq {p, d} \ {None} /\ task'[t].kind = "open"
<1>1. CASE d \in Path /\ active # None /\ Becomes(t, "open", "probe", d, p, text)
  BY <1>1, NoneApart DEF Own, OwnClaim, OwnSaves, OwnMove, Claims, Saver, Opener, Becomes, Making, Moving, Writing, Touches
<1>2. CASE Becomes(t, "open", "load", None, p, None)
  BY <1>2, NoneApart DEF Own, OwnClaim, OwnSaves, OwnMove, Claims, Saver, Opener, Becomes, Making, Moving, Writing, Touches
<1>3. QED
  BY <1>1, <1>2 DEF Opens

\* ... with what the editor shows saved first.
LEMMA OpenNoted ==
  ASSUME Typed, Noted, NEW t \in Task, NEW p \in Path, OpenNote(t, p), ~crossed'
  PROVE  Noted'
<1>1. task[t].kind = "none" /\ Opens(t, dirty, p)
  BY OpenStarts
<1>2. /\ UNCHANGED <<disk, lineage, active, text>> /\ dirty' = None
      /\ Contends(t, {p, dirty} \ {None}, Unflushed)
  BY DEF OpenNote, files
<1>3. ~Opener(t) /\ task[t].at # "renamed"
  BY <1>1, StageIs DEF Opener
<1>4. dirty \in Path /\ active # None => lineage[dirty] = text.of
  <2> SUFFICES ASSUME dirty \in Path, active # None
               PROVE  lineage[dirty] = text.of
    OBVIOUS
  <2>1. dirty = active /\ dirty # None
    BY NoneApart DEF Noted, DirtyActive
  <2>2. text \in Text /\ task'[t].path = active /\ task'[t].body = text
    BY <1>1, <2>1 DEF Opens, Becomes
  <2>3. active \in {p, dirty} \ {None}
    BY <2>1
  <2>4. QED
    BY <1>2, <1>3, <2>1, <2>2, <2>3, ShownIs
<1>5. Own(t)' /\ Touches(t)' \subseteq {p, dirty} \ {None} /\ task'[t].kind = "open"
  BY <1>1, <1>2, <1>4, OpenedOwn
<1>6. Within(t)
  BY WithinSteps DEF Steps
<1>7. QED
  BY <1>2, <1>3, <1>5, <1>6, ContendNoted

-----------------------------------------------------------------------------
\* A version is restored of a note that is shown, or in its file.
LEMMA RestoreVersionNoted ==
  ASSUME Typed, Noted, NEW t \in Task, NEW p \in Path, RestoreVersion(t, p), ~crossed'
  PROVE  Noted'
<1>1. PICK i \in 1..Len(versions[p]) :
        versions[p][i] \in Text /\ Becomes(t, "restore", "probe", p, None, versions[p][i])
  BY RestoreStarts
<1>2. task[t].kind = "none"
  BY RestoreStarts
<1>3. /\ Contends(t, {p}, {}) /\ UNCHANGED <<disk, lineage, active, text, dirty>>
      /\ p = active \/ disk[p] # None
  BY DEF RestoreVersion, files, editor
<1>4. ~Opener(t) /\ task[t].at # "renamed"
  BY <1>2, StageIs DEF Opener
<1>5. lineage[p] # None
  <2>1. CASE p = active
    BY <1>3, <1>4, <2>1, ContendsFacts, NoneApart
  <2>2. CASE disk[p] # None
    BY <2>2 DEF Noted, Agree
  <2>3. QED
    BY <1>3, <2>1, <2>2
<1>6. Own(t)' /\ Touches(t)' \subseteq {p}
  BY <1>1, <1>3, <1>5 DEF Own, OwnClaim, OwnSaves, OwnMove, Claims, Saver, Opener, Becomes, Making, Moving, Touches
<1>7. Within(t)
  BY WithinSteps DEF Steps
<1>8. task'[t].path = p /\ task'[t].body = versions[p][i]
  BY <1>1 DEF Becomes
<1>9. QED
  BY <1>1, <1>3, <1>4, <1>5, <1>6, <1>7, <1>8, ContendNoted

\* A note is made at a path that is free.
LEMMA MakeNoted ==
  ASSUME Typed, Noted, NEW t \in Task, NEW q \in Path, CreateNote(t, q) \/ FreeName(t, q), ~crossed'
  PROVE  Noted'
<1>1. /\ \/ task[t].kind = "none" /\ Becomes(t, "create", "probe", q, None, Blank)
         \/ task[t].kind = "copy" /\ task[t].at = "names" /\ Becomes(t, "copy", "probe", q, None, task[t].body)
      /\ \A u \in Task \ {t} : Same(u)
  BY MakeStarts, FreeNameIs, SameIf
<1>2. /\ Contends(t, {q}, {}) /\ UNCHANGED <<disk, lineage, active, text, dirty>> /\ disk[q] = None
  BY DEF CreateNote, FreeName, Untaken, files, editor
<1>3. ~Opener(t) /\ task[t].at # "renamed"
  BY <1>1, StageIs DEF Opener
<1>4. active # q
  BY <1>2, <1>3, FreeIs
<1>5. Own(t)' /\ Touches(t)' \subseteq {q} /\ task'[t].kind # "restore"
  BY <1>1, <1>2, <1>4 DEF Own, OwnClaim, OwnSaves, OwnMove, Claims, Target, Saver, Opener, Becomes, Making, Moving, Touches
<1>6. Within(t)
  BY <1>1, <1>2, WithinQuiet
<1>7. QED
  BY <1>2, <1>3, <1>5, <1>6, ContendNoted

\* A call that starts without a path.
LEMMA PathlessNoted ==
  ASSUME Typed, Noted, NEW t \in Task,
         \/ (\E p \in Path : DuplicateNote(t, p))
         \/ Empty(t)
         \/ (\E m \in manifest : Purge(t, m))
  PROVE  Noted'
<1>1. /\ task[t].kind = "none"
      /\ \/ Becomes(t, "copy", "names", None, None, Blank)
         \/ Becomes(t, "empty", "clear", None, None, None)
         \/ Becomes(t, "purge", "list", None, None, None)
  BY MakeStarts, EmptyStarts, UnbinStarts
<1>2. UNCHANGED <<disk, lineage, active, text, dirty>>
  BY DEF DuplicateNote, Empty, Purge, files, editor
<1>3. Within(t)
  BY <1>1, <1>2, WithinQuiet DEF Becomes
<1>4. Touches(t)' = {} /\ task'[t].kind \notin Opening \cup Moving
  BY <1>1 DEF Touches, Becomes, Opening, Moving
<1>5. Own(t)'
  BY <1>1 DEF Own, OwnClaim, OwnSaves, OwnMove, Claims, Saver, Opener, Becomes, Making, Moving
<1>6. ~Opener(t)
  BY <1>1 DEF Opener
<1>7. Agree' /\ Shown' /\ DirtyActive'
  BY <1>2, <1>3, <1>6, QuietParts DEF Within
<1>8. \A u \in Task \ {t} : Pair(t, u)' /\ Pair(u, t)'
  BY <1>3, <1>4, PairsNowhere
<1>9. QED
  BY <1>3, <1>5, <1>7, <1>8, NotedIf

\* A note is moved to a path that is free; one that is shown is all that the editor has.
LEMMA RenameNoted ==
  ASSUME Typed, Noted, NEW t \in Task, NEW p \in Path, NEW q \in Path, NEW kind \in {"rename", "move"},
         Rename(t, kind, p, q), ~crossed'
  PROVE  Noted'
<1>1. task[t].kind = "none" /\ Becomes(t, kind, "rename", p, q, None) /\ (kind = "rename" => p = active)
  BY MoveStarts
<1>2. /\ Contends(t, {p, q}, {}) /\ UNCHANGED <<disk, lineage, active, text, dirty>> /\ disk[q] = None
  BY DEF Rename, files, editor
<1>3. ~Opener(t) /\ task[t].at # "renamed" /\ task'[t].kind \in Moving
  BY <1>1, StageIs DEF Opener, Becomes, Moving
<1>4. active # q
  BY <1>2, <1>3, FreeIs
<1>5. p # None
  BY NoneApart
<1>6. p = active => lineage[p] = text.of
  <2> SUFFICES ASSUME p = active
               PROVE  lineage[p] = text.of
    OBVIOUS
  <2>1. active # None /\ active \in {p, q} /\ task'[t].kind \in Taking \cup Making /\ text \in Text
    BY <1>3, <1>5 DEF Taking, Typed, TypeOK, Maybe
  <2>2. QED
    BY <1>2, <1>3, <2>1, ShownIs
<1>7. p = active => dirty \in {None, p}
  BY <1>5 DEF Noted, DirtyActive
<1>8. Own(t)'
  <2>1. OwnClaim(t)' /\ OwnSaves(t)'
    BY <1>1, <1>2, <1>4 DEF OwnClaim, OwnSaves, Claims, Target, Saver, Opener, Becomes, Making, Moving
  <2>2. OwnMove(t)'
    BY <1>1, <1>2, <1>6, <1>7 DEF OwnMove, Shows, Becomes, Moving
  <2>3. QED
    BY <2>1, <2>2 DEF Own
<1>9. Touches(t)' \subseteq {p, q} /\ task'[t].kind # "restore"
  BY <1>1 DEF Touches, Becomes
<1>10. Within(t)
  BY WithinSteps DEF Steps
<1>11. QED
  BY <1>2, <1>3, <1>8, <1>9, <1>10, ContendNoted

\* A note is to be deleted.
LEMMA DeleteNoted ==
  ASSUME Typed, Noted, NEW t \in Task, NEW p \in Path,
         Trash(t, p) \/ (\E kind \in {"remove", "system"} : Remove(t, kind, p)), ~crossed'
  PROVE  Noted'
<1>1. /\ task[t].kind = "none"
      /\ \/ Becomes(t, "trash", "bin", p, None, None)
         \/ \E kind \in {"remove", "system"} : Becomes(t, kind, "remove", p, None, None)
  BY TrashStarts, RemoveStarts
<1>2. (\E lost : Contends(t, {p}, lost)) /\ UNCHANGED <<disk, lineage, active, text, dirty>>
  BY DEF Trash, Remove, files, editor
<1>3. ~Opener(t)
  BY <1>1 DEF Opener
<1>4. task'[t].kind \in {"trash", "remove", "system"} /\ task'[t].at \in {"bin", "remove"} /\ Touches(t)' \subseteq {p}
  BY <1>1 DEF Touches, Becomes
<1>5. Own(t)'
  BY <1>4, OwnIdle DEF Making, Moving
<1>6. Within(t)
  BY WithinSteps DEF Steps
<1>7. QED
  BY <1>2, <1>3, <1>4, <1>5, <1>6, ContendNoted

\* A note is put back to a path that is free.
LEMMA RestoreNoted ==
  ASSUME Typed, Noted, NEW t \in Task, NEW m \in manifest, Restore(t, m), ~crossed'
  PROVE  Noted'
<1>1. task[t].kind = "none" /\ Becomes(t, "unbin", "unbin", m.from, None, None) /\ m.from \in Path
  BY UnbinStarts DEF Typed, TypeOK, Item
<1>2. /\ Contends(t, {m.from}, {}) /\ UNCHANGED <<disk, lineage, active, text, dirty>> /\ disk[m.from] = None
  BY DEF Restore, files, editor
<1>3. ~Opener(t) /\ task[t].at # "renamed"
  BY <1>1, StageIs DEF Opener
<1>4. active # m.from
  BY <1>1, <1>2, <1>3, FreeIs
<1>5. Own(t)' /\ Touches(t)' \subseteq {m.from} /\ task'[t].kind # "restore"
  BY <1>1, <1>2, <1>4 DEF Own, OwnClaim, OwnSaves, OwnMove, Claims, Target, Saver, Opener, Becomes, Making, Moving, Touches
<1>6. Within(t)
  BY WithinSteps DEF Steps
<1>7. QED
  BY <1>2, <1>3, <1>5, <1>6, ContendNoted

\* The file is read that is to be shown; one that is gone was the path's no more.
LEMMA LoadNoted ==
  ASSUME Typed, Noted, NEW t \in Task, Load(t)
  PROVE  Noted'
<1> DEFINE p == task[t].to
<1>1. task[t].at = "load" /\ task[t].kind = "open" /\ p \in Path /\ Opener(t)
  BY LoadIs DEF Opener
<1>2. UNCHANGED <<disk, lineage, active, text, dirty>>
  BY DEF Load, files, editor, history
<1>3. Within(t)
  BY WithinSteps DEF Steps
<1>4. CASE disk[p] = None /\ Finishes(t)
  <2>1. lineage[p] = None
    BY <1>1, <1>4 DEF Noted, Agree
  <2>2. OpensActive => lineage[active] = None \/ OpensActive'
    <3> SUFFICES ASSUME OpensActive, lineage[active] # None
                 PROVE  OpensActive'
      OBVIOUS
    <3>1. PICK u \in Task : Opener(u) /\ task[u].to = active
      BY DEF OpensActive
    <3>2. Same(u)
      BY <1>3, <2>1, <3>1 DEF Within
    <3>3. Opener(u)' /\ task'[u].to = active'
      BY <1>2, <3>1, <3>2 DEF Opener, Same
    <3>4. QED
      BY <3>3 DEF OpensActive
  <2>3. Agree' /\ Shown' /\ DirtyActive'
    BY <1>2, <2>2 DEF Noted, Agree, Shown, DirtyActive
  <2>4. QED
    BY <1>3, <1>4, <2>3, OverNoted
<1>5. CASE /\ disk[p] \in Text /\ Becomes(t, "open", "swap", task[t].path, p, task[t].body)
           /\ task'[t].held = disk[p]
  <2>1. disk[p].of = lineage[p]
    BY <1>1, <1>5, NoneApart DEF Noted, Agree
  <2>2. task[t].body = None
    BY <1>1 DEF Noted, Own, OwnSaves
  <2>3. Own(t)' /\ Opener(t)'
    BY <1>2, <1>5, <2>1, <2>2
    DEF Own, OwnClaim, OwnSaves, OwnMove, Claims, Saver, Opener, Becomes, Making, Moving, Writing
  <2>4. Becomes(t, task[t].kind, task'[t].at, task[t].path, task[t].to, task[t].body)
    BY <1>1, <1>5 DEF Becomes
  <2>5. QED
    BY <1>2, <1>3, <2>3, <2>4, GoOnNoted
<1>6. QED
  BY <1>4, <1>5, LoadIs

\* What was read is shown.
LEMMA SwapNoted ==
  ASSUME Typed, Noted, NEW t \in Task, Swap(t)
  PROVE  Noted'
<1>1. /\ task[t].at = "swap" /\ task[t].to \in Path /\ task[t].held \in Text /\ Finishes(t)
  BY SwapIs
<1>2. active' = task[t].to /\ text' = task[t].held /\ dirty' = None /\ UNCHANGED <<disk, lineage>>
  BY DEF Swap, files, history
<1>3. lineage[task[t].to] = task[t].held.of
  BY <1>1 DEF Noted, Own, OwnSaves
<1>4. Agree' /\ Shown' /\ DirtyActive'
  BY <1>2, <1>3 DEF Noted, Agree, Shown, DirtyActive
<1>5. QED
  BY <1>1, <1>4, OverNoted, WithinSteps DEF Steps

-----------------------------------------------------------------------------
\* A write looks for the file first, which a new note must not have; ...
LEMMA ProbeNoted ==
  ASSUME Typed, Noted, NEW t \in Task, Probe(t)
  PROVE  Noted'
<1>1. task[t].at = "probe" /\ task[t].path \in Path /\ task[t].kind \in {"save", "open", "create", "copy", "restore"}
  BY StageIs DEF Probe, Writing
<1>2. UNCHANGED <<disk, lineage, active, text, dirty>>
  BY DEF Probe, editor
<1>3. Own(t)
  BY DEF Noted
<1>4. task[t].kind \in Making => disk[task[t].path] = None
  BY <1>1, <1>3, NoneApart DEF Own, OwnClaim, Claims, Target, Making, Moving
<1>5. \/ Go(t, "write")
      \/ Go(t, "read") /\ task[t].kind \notin Making
  BY <1>4 DEF Probe
<1>6. PICK s \in {"read", "write"} : Reaches(t, s) /\ (s = "read" => task[t].kind \notin Making)
  BY <1>5, GoIs
<1>7. Own(t)'
  BY <1>1, <1>2, <1>3, <1>6
  DEF Own, OwnClaim, OwnSaves, OwnMove, Claims, Target, Saver, Opener, Reaches, Becomes, Making, Moving, Writing
<1>8. ~Opener(t) /\ Becomes(t, task[t].kind, task'[t].at, task[t].path, task[t].to, task[t].body)
  BY <1>1, <1>6 DEF Opener, Reaches, Becomes
<1>9. QED
  BY <1>2, <1>7, <1>8, GoOnNoted, WithinSteps DEF Steps

\* ... reads it, which is there for all who come this far, ...
LEMMA ReadOldNoted ==
  ASSUME Typed, Noted, NEW t \in Task, ReadOld(t)
  PROVE  Noted'
<1> DEFINE p == task[t].path
<1>1. task[t].at = "read" /\ p \in Path /\ task[t].body \in Text
      /\ task[t].kind \in {"save", "open", "create", "copy", "restore"}
  BY StageIs DEF ReadOld, Writing
<1>2. UNCHANGED <<disk, lineage, active, text, dirty>>
  BY DEF ReadOld, files, editor, history
<1>3. Own(t) /\ task[t].body.of # None
  BY <1>1, NoneApart DEF Noted, Text
<1>4. lineage[p] # None
  BY <1>1, <1>3 DEF Own, OwnSaves, Saver, Writing, Making
<1>5. disk[p] # None
  BY <1>1, <1>4 DEF Noted, Agree
<1>6. Becomes(t, task[t].kind, "keep", p, task[t].to, task[t].body)
  BY <1>5, ReadOldIs
<1>7. Own(t)'
  BY <1>1, <1>2, <1>3, <1>6
  DEF Own, OwnClaim, OwnSaves, OwnMove, Claims, Target, Saver, Opener, Becomes, Making, Moving, Writing
<1>8. ~Opener(t) /\ Becomes(t, task[t].kind, task'[t].at, task[t].path, task[t].to, task[t].body)
  BY <1>1, <1>6 DEF Opener, Becomes
<1>9. QED
  BY <1>2, <1>7, <1>8, GoOnNoted, WithinSteps DEF Steps

\* ... and keeps it.
LEMMA KeepOldNoted ==
  ASSUME Typed, Noted, NEW t \in Task, KeepOld(t)
  PROVE  Noted'
<1>1. task[t].at = "keep" /\ task[t].kind \in {"save", "open", "create", "copy", "restore"}
  BY StageIs DEF KeepOld, Writing
<1>2. UNCHANGED <<disk, lineage, active, text, dirty>> /\ Reaches(t, "write")
  BY GoIs DEF KeepOld, editor
<1>3. Own(t)
  BY DEF Noted
<1>4. Own(t)'
  BY <1>1, <1>2, <1>3
  DEF Own, OwnClaim, OwnSaves, OwnMove, Claims, Target, Saver, Opener, Reaches, Becomes, Making, Moving, Writing
<1>5. ~Opener(t) /\ Becomes(t, task[t].kind, task'[t].at, task[t].path, task[t].to, task[t].body)
  BY <1>1, <1>2 DEF Opener, Reaches, Becomes
<1>6. QED
  BY <1>2, <1>4, <1>5, GoOnNoted, WithinSteps DEF Steps

\* What is opened stays so.
LEMMA OpensStays ==
  ASSUME NEW t \in Task, ~Opener(t), OpensActive, active' = active, \A u \in Task \ {t} : Same(u)
  PROVE  OpensActive'
<1>1. PICK u \in Task : Opener(u) /\ task[u].to = active
  BY DEF OpensActive
<1>2. Opener(u)' /\ task'[u].to = active'
  BY <1>1 DEF Opener, Same
<1>3. QED
  BY <1>2 DEF OpensActive

\* What is written is what the path is to hold, or what it is to hold from now on.
LEMMA WriteAgrees ==
  ASSUME Typed, Noted, NEW t \in Task, Write(t)
  PROVE  LET p == task[t].path IN
         /\ Agree' /\ task[t].body.of # None
         /\ lineage' = lineage \/ (/\ task[t].kind \in {"restore"} \cup Making
                                   /\ lineage' = [lineage EXCEPT ![p] = task[t].body.of])
<1> DEFINE p == task[t].path
<1>1. /\ task[t].at = "write" /\ p \in Path /\ task[t].body \in Text /\ disk' = [disk EXCEPT ![p] = task[t].body]
      /\ \/ task[t].kind \in {"save", "open"} /\ lineage' = lineage
         \/ /\ task[t].kind \in {"restore"} \cup Making
            /\ lineage' = [lineage EXCEPT ![p] = task[t].body.of]
  BY WriteIs
<1>2. task[t].body.of \in NoteId /\ task[t].body.of # None /\ task[t].body # None
  BY <1>1, NoneApart DEF Text
<1>3. task[t].kind \in {"save", "open"} => lineage[p] = task[t].body.of
  BY <1>1 DEF Noted, Own, OwnSaves, Saver, Writing
<1>4. lineage'[p] = task[t].body.of /\ disk'[p] = task[t].body
  BY <1>1, <1>3 DEF Typed, TypeOK
<1>5. \A q \in Path \ {p} : lineage'[q] = lineage[q] /\ disk'[q] = disk[q]
  BY <1>1 DEF Typed, TypeOK
<1>6. Agree'
  BY <1>2, <1>4, <1>5 DEF Noted, Agree
<1>7. QED
  BY <1>1, <1>2, <1>6

\* A write that opens the note: a restored one, or a new one.
LEMMA WriteOpensNoted ==
  ASSUME Typed, Noted, NEW t \in Task, Write(t), ~crossed',
         Opens(t, dirty, task[t].path), dirty' = None,
         Contends(t, {task[t].path, dirty} \ {None}, Unflushed),
         \/ task[t].kind = "restore" /\ active = task[t].path
         \/ task[t].kind \in Making,
         lineage' = [lineage EXCEPT ![task[t].path] = task[t].body.of]
  PROVE  Noted'
<1> DEFINE p == task[t].path
<1>1. task[t].at = "write" /\ p \in Path /\ task[t].body \in Text /\ ~Opener(t)
  BY WriteIs DEF Opener
<1>2. Within(t) /\ Agree' /\ UNCHANGED <<active, text>>
  BY WithinSteps, WriteAgrees DEF Write, Steps
<1>3. task[t].kind \in Making => active # p
  BY <1>1, NoneApart DEF Noted, Own, OwnClaim, Claims, Target, Making, Moving
<1>4. lineage'[p] = task[t].body.of /\ \A q \in Path \ {p} : lineage'[q] = lineage[q]
  BY <1>1 DEF Typed, TypeOK
<1>5. dirty \in Path /\ active # None => lineage'[dirty] = text.of
  <2> SUFFICES ASSUME dirty \in Path, active # None
               PROVE  lineage'[dirty] = text.of
    OBVIOUS
  <2>1. dirty = active /\ dirty # None
    BY NoneApart DEF Noted, DirtyActive
  <2>2. CASE task[t].kind = "restore" /\ active = p
    <3>1. task[t].body.of = text.of
      BY <2>1, <2>2, ContendsFacts
    <3>2. QED
      BY <1>4, <2>1, <2>2, <3>1
  <2>3. CASE task[t].kind \in Making
    <3>1. text \in Text /\ task'[t].path = active /\ task'[t].body = text
      BY <2>1 DEF Opens, Becomes
    <3>2. active \in {p, dirty} \ {None}
      BY <2>1
    <3>3. lineage[active] = text.of
      BY <1>1, <2>1, <3>1, <3>2, ShownIs
    <3>4. QED
      BY <1>3, <1>4, <2>1, <2>3, <3>3
  <2>4. QED
    BY <2>2, <2>3
<1>6. Own(t)' /\ Touches(t)' \subseteq {p, dirty} \ {None} /\ task'[t].kind = "open"
  BY <1>1, <1>5, OpenedOwn
<1>7. \A u \in Task \ {t} : Pair(t, u)' /\ Pair(u, t)'
  BY <1>2, <1>6, PairsContend
<1>8. Shown'
  <2> SUFFICES ASSUME active # None
               PROVE  lineage'[active] \in {None, text.of} \/ OpensActive'
    BY <1>2 DEF Shown
  <2>1. active \in Path
    BY DEF Typed, TypeOK
  <2>2. CASE task[t].kind \in Making
    <3>1. lineage'[active] = lineage[active]
      BY <1>3, <1>4, <2>1, <2>2
    <3>2. OpensActive => OpensActive'
      BY <1>1, <1>2, OpensStays DEF Within
    <3>3. QED
      BY <3>1, <3>2 DEF Noted, Shown
  <2>3. CASE active = p /\ dirty \in Path
    <3>1. dirty = active
      BY <2>3, NoneApart DEF Noted, DirtyActive
    <3>2. QED
      BY <1>5, <2>3, <3>1
  <2>4. CASE active = p /\ dirty = None
    <3>1. Becomes(t, "open", "load", None, p, None)
      BY <2>4, NoneApart DEF Opens
    <3>2. Opener(t)' /\ task'[t].to = active'
      BY <1>2, <2>4, <3>1 DEF Becomes, Opener
    <3>3. QED
      BY <3>2 DEF OpensActive
  <2>5. dirty \in Path \cup {None}
    BY DEF Typed, TypeOK
  <2>6. QED
    BY <2>2, <2>3, <2>4, <2>5
<1>9. DirtyActive'
  BY DEF DirtyActive
<1>10. QED
  BY <1>2, <1>6, <1>7, <1>8, <1>9, NotedIf

\* The other writes end the call, or have the note read that is to be opened.
LEMMA WriteNoted ==
  ASSUME Typed, Noted, NEW t \in Task, Write(t), ~crossed'
  PROVE  Noted'
<1> DEFINE p == task[t].path
<1>1. task[t].at = "write" /\ p \in Path /\ ~Opener(t)
  BY WriteIs DEF Opener
<1>2. Within(t) /\ Agree' /\ UNCHANGED <<active, text>>
  BY WithinSteps, WriteAgrees DEF Write, Steps
<1>3. OpensActive => OpensActive'
  BY <1>1, <1>2, OpensStays DEF Within
<1>4. CASE task[t].kind = "save" /\ Finishes(t) /\ lineage' = lineage /\ dirty' \in {dirty, None}
  <2>1. Shown' /\ DirtyActive'
    BY <1>2, <1>3, <1>4 DEF Noted, Shown, DirtyActive
  <2>2. QED
    BY <1>2, <1>4, <2>1, OverNoted
<1>5. CASE /\ task[t].kind = "restore" /\ active # p /\ Finishes(t) /\ dirty' = dirty
           /\ lineage' = [lineage EXCEPT ![p] = task[t].body.of]
  <2>1. active # None => lineage'[active] = lineage[active]
    BY <1>1, <1>5 DEF Typed, TypeOK
  <2>2. Shown' /\ DirtyActive'
    BY <1>2, <1>3, <1>5, <2>1 DEF Noted, Shown, DirtyActive
  <2>3. QED
    BY <1>2, <1>5, <2>2, OverNoted
<1>6. CASE /\ task[t].kind = "open" /\ task[t].to \in Path /\ Becomes(t, "open", "load", None, task[t].to, None)
           /\ UNCHANGED <<dirty, lineage>>
  <2>1. Shown' /\ DirtyActive'
    BY <1>2, <1>3, <1>6 DEF Noted, Shown, DirtyActive
  <2>2. Own(t)'
    BY <1>6 DEF Own, OwnClaim, OwnSaves, OwnMove, Claims, Saver, Opener, Becomes, Making, Moving, Writing
  <2>3. Touches(t)' \subseteq Touches(t) /\ task'[t].kind = task[t].kind
    BY <1>6 DEF Becomes, Touches
  <2>4. \A u \in Task \ {t} : Pair(t, u)' /\ Pair(u, t)'
    BY <1>2, <1>6, <2>3, PairsGoOn
  <2>5. QED
    BY <1>2, <2>1, <2>2, <2>4, NotedIf
<1>7. CASE /\ Opens(t, dirty, p) /\ dirty' = None /\ Contends(t, {p, dirty} \ {None}, Unflushed)
           /\ lineage' = [lineage EXCEPT ![p] = task[t].body.of]
           /\ \/ task[t].kind = "restore" /\ active = p
              \/ task[t].kind \in Making
  BY <1>7, WriteOpensNoted
<1>8. QED
  BY <1>4, <1>5, <1>6, <1>7, WriteIs

-----------------------------------------------------------------------------
\* A step that ends a call and leaves the notes alone, or closes the one that is shown.
LEMMA EndNoted ==
  ASSUME Typed, Noted, NEW t \in Task, Finishes(t), UNCHANGED <<disk, lineage, text>>, ~Opener(t),
         \/ active' = active /\ dirty' = dirty
         \/ active' = None /\ dirty' \in {dirty, None}
  PROVE  Noted'
<1>1. Within(t)
  BY DEF Within, Finishes, Becomes
<1>2. Agree' /\ Shown' /\ DirtyActive'
  BY <1>1, QuietParts DEF Within
<1>3. QED
  BY <1>1, <1>2, OverNoted

\* A note moves.
LEMMA DoRenameNoted ==
  ASSUME Typed, Noted, NEW t \in Task, DoRename(t)
  PROVE  Noted'
<1> DEFINE p == task[t].path
           q == task[t].to
<1>1. task[t].at = "rename" /\ task[t].kind \in Moving /\ p \in Path /\ q \in Path /\ ~Opener(t)
  BY StageIs DEF DoRename, Opener
<1>2. UNCHANGED <<active, text, dirty>>
  BY DEF DoRename, editor
<1>3. active # q /\ disk[q] = None
  BY <1>1 DEF Noted, Own, OwnClaim, Claims, Target
<1>4. CASE disk[p] = None
  <2>1. Finishes(t) /\ UNCHANGED <<disk, lineage>>
    BY <1>4, DoneIs DEF DoRename
  <2>2. QED
    BY <1>1, <1>2, <2>1, EndNoted
<1>5. CASE disk[p] # None
  <2>1. /\ disk' = [disk EXCEPT ![q] = disk[p], ![p] = None]
        /\ lineage' = [lineage EXCEPT ![q] = lineage[p], ![p] = None]
        /\ Reaches(t, "renamed") /\ p # q
    BY <1>3, <1>5, GoIs DEF DoRename
  <2>2. /\ disk'[q] = disk[p] /\ lineage'[q] = lineage[p] /\ disk'[p] = None /\ lineage'[p] = None
        /\ \A r \in Path \ {p, q} : disk'[r] = disk[r] /\ lineage'[r] = lineage[r]
    BY <1>1, <2>1 DEF Typed, TypeOK
  <2>3. Agree'
    BY <1>1, <2>2 DEF Noted, Agree
  <2>7. Within(t)
    BY WithinSteps DEF Steps
  <2>4. Shown' /\ DirtyActive'
    <3>1. OpensActive => OpensActive'
      BY <1>1, <1>2, <2>7, OpensStays DEF Within
    <3>2. active # None => lineage'[active] \in {lineage[active], None}
      BY <1>3, <2>2 DEF Typed, TypeOK
    <3>3. QED
      BY <1>2, <3>1, <3>2 DEF Noted, Shown, DirtyActive
  <2>5. Own(t)'
    <3>1. OwnClaim(t)' /\ OwnSaves(t)'
      BY <1>1, <2>1 DEF OwnClaim, OwnSaves, Claims, Saver, Opener, Reaches, Becomes, Making, Moving
    <3>2. Shows(t)' => Shows(t)
      BY <1>2, <2>1 DEF Shows, Reaches, Becomes
    <3>3. OwnMove(t)
      BY DEF Noted, Own
    <3>4. OwnMove(t)'
      BY <1>1, <1>2, <2>1, <2>2, <3>2, <3>3 DEF OwnMove, Reaches, Becomes
    <3>5. QED
      BY <3>1, <3>4 DEF Own
  <2>6. Touches(t)' = Touches(t) /\ task'[t].kind = task[t].kind /\ task[t].kind # "restore"
    BY <1>1, <2>1 DEF Reaches, Becomes, Touches, Moving
  <2>8. \A u \in Task \ {t} : Pair(t, u)' /\ Pair(u, t)'
    BY <2>6, <2>7, PairsGoOn
  <2>9. QED
    BY <2>3, <2>4, <2>5, <2>7, <2>8, NotedIf
<1>6. QED
  BY <1>4, <1>5

\* While another note moves, unsaved edits are of the active one, which is there.
LEMMA SavedMoved ==
  ASSUME Typed, Noted, NEW t \in Task, task[t].at = "renamed", NEW ps, NEW lost, Contends(t, ps, lost), ~crossed',
         ~Shows(t), active # None, Moved(t) \in ps, Moved(t) # None
  PROVE  Moved(t) = active /\ active # task[t].path /\ lineage[active] = text.of /\ ~OpensActive
<1>1. task[t].kind \in Moving /\ active # task[t].path
  BY StageIs DEF Shows
<1>2. dirty # task[t].path /\ dirty = active /\ Moved(t) = active
  <2>1. dirty # None
    BY StageIs, NoneApart DEF Moved
  <2>2. dirty = active
    BY <2>1 DEF Noted, DirtyActive
  <2>3. QED
    BY <1>1, <2>2 DEF Moved
<1>3. lineage[active] # None
  BY <1>1, <1>2, ContendsFacts
<1>4. ~OpensActive
  <2> SUFFICES ASSUME NEW u \in Task, Opener(u)
               PROVE  FALSE
    BY DEF OpensActive
  <2>1. task[u].kind = "open" /\ u # t
    BY <1>1 DEF Opener, Moving
  <2>2. QED
    BY <1>1, <2>1 DEF Noted, Pair, Opening
<1>5. QED
  BY <1>1, <1>2, <1>3, <1>4 DEF Noted, Shown

\* The editor follows it, or opens it.
LEMMA RenamedNoted ==
  ASSUME Typed, Noted, NEW t \in Task, Renamed(t), ~crossed'
  PROVE  Noted'
<1> DEFINE p == task[t].path
           q == task[t].to
<1>1. task[t].at = "renamed" /\ task[t].kind \in Moving /\ p \in Path /\ q \in Path /\ ~Opener(t)
  BY RenamedIs DEF Opener
<1>2. Within(t) /\ UNCHANGED <<disk, lineage, text>>
  BY WithinSteps DEF Renamed, Steps, files
<1>3. Shows(t) => /\ active \in {None, p} /\ dirty \in {None, p} /\ lineage[q] = text.of
                  /\ Moved(t) \in {None, q}
  <2>1. OwnMove(t)
    BY DEF Noted, Own
  <2>2. QED
    BY <1>1, <2>1 DEF OwnMove, Moved
<1>4. Agree'
  BY <1>2 DEF Noted, Agree
<1>5. CASE task[t].kind = "rename" /\ Finishes(t) /\ dirty' = Moved(t) /\ active' = q
  <2>1. Shows(t)
    BY <1>5 DEF Shows
  <2>2. Shown' /\ DirtyActive'
    BY <1>2, <1>3, <1>5, <2>1 DEF Shown, DirtyActive
  <2>3. QED
    BY <1>2, <1>4, <1>5, <2>2, OverNoted
<1>6. CASE /\ Opens(t, Moved(t), q) /\ dirty' = None /\ active' = active
           /\ Contends(t, {Moved(t), q} \ {None}, Unflushed)
  <2>6. Moved(t) \in Path /\ active # None => lineage[Moved(t)] = text.of
    BY <1>1, <1>3, <1>6, SavedMoved, NoneApart
  <2>1. Own(t)' /\ Touches(t)' \subseteq {q, Moved(t)} \ {None} /\ task'[t].kind = "open"
    BY <1>1, <1>2, <1>6, <2>6, OpenedOwn
  <2>2. \A u \in Task \ {t} : Pair(t, u)' /\ Pair(u, t)'
    BY <1>2, <1>6, <2>1, PairsContend
  <2>3. Shown'
    <3>1. OpensActive => OpensActive'
      BY <1>1, <1>2, <1>6, OpensStays DEF Within
    <3>2. QED
      BY <1>2, <1>6, <3>1 DEF Noted, Shown
  <2>4. DirtyActive'
    BY <1>6 DEF DirtyActive
  <2>5. QED
    BY <1>2, <1>4, <2>1, <2>2, <2>3, <2>4, NotedIf
<1>7. QED
  BY <1>5, <1>6, RenamedIs

\* A note leaves its path, for the trash or for good.
LEMMA TakenNoted ==
  ASSUME Typed, Noted, NEW t \in Task, Bin(t) \/ DoRemove(t)
  PROVE  Noted'
<1> DEFINE p == task[t].path
<1>1. task[t].kind \in {"trash", "remove", "system"} /\ p \in Path /\ ~Opener(t)
  BY StageIs DEF Bin, DoRemove, Opener
<1>2. UNCHANGED <<active, text, dirty>>
  BY DEF Bin, DoRemove, editor
<1>3. CASE Done(t) /\ UNCHANGED <<disk, lineage>>
  BY <1>1, <1>2, <1>3, DoneIs, EndNoted
<1>4. CASE /\ Go(t, "list") \/ Go(t, "drop")
           /\ disk' = [disk EXCEPT ![p] = None] /\ lineage' = [lineage EXCEPT ![p] = None]
  <2>1. PICK s \in {"list", "drop"} : Reaches(t, s)
    BY <1>4, GoIs
  <2>2. /\ disk'[p] = None /\ lineage'[p] = None
        /\ \A r \in Path \ {p} : disk'[r] = disk[r] /\ lineage'[r] = lineage[r]
    BY <1>1, <1>4 DEF Typed, TypeOK
  <2>3. Agree'
    BY <1>1, <2>2 DEF Noted, Agree
  <2>4. Within(t)
    BY WithinSteps DEF Steps
  <2>5. Shown' /\ DirtyActive'
    <3>1. OpensActive => OpensActive'
      BY <1>1, <1>2, <2>4, OpensStays DEF Within
    <3>2. active \in Path \cup {None}
      BY DEF Typed, TypeOK
    <3>3. QED
      BY <1>2, <2>2, <3>1, <3>2 DEF Noted, Shown, DirtyActive
  <2>6. Own(t)'
    BY <1>1, <2>1, OwnIdle DEF Reaches, Becomes, Making, Moving
  <2>7. Touches(t)' = Touches(t) /\ task'[t].kind = task[t].kind /\ task[t].kind # "restore"
    BY <1>1, <2>1 DEF Reaches, Becomes, Touches
  <2>8. \A u \in Task \ {t} : Pair(t, u)' /\ Pair(u, t)'
    BY <2>4, <2>7, PairsGoOn
  <2>9. QED
    BY <2>3, <2>4, <2>5, <2>6, <2>8, NotedIf
<1>5. QED
  BY <1>3, <1>4 DEF Bin, DoRemove

\* A note comes back to its path, which is still free and not shown.
LEMMA UnbinNoted ==
  ASSUME Typed, Noted, NEW t \in Task, Unbin(t)
  PROVE  Noted'
<1> DEFINE p == task[t].path
           n == task[t].name
<1>1. task[t].at = "unbin" /\ task[t].kind = "unbin" /\ p \in Path /\ ~Opener(t) /\ n \in 0..MaxOps
  BY StageIs, CallTyped DEF Unbin, Opener, Call
<1>2. UNCHANGED <<active, text, dirty>>
  BY DEF Unbin, editor
<1>3. active # p /\ disk[p] = None
  BY <1>1 DEF Noted, Own, OwnClaim, Claims, Target, Moving
<1>4. CASE Done(t) /\ UNCHANGED <<disk, lineage>>
  BY <1>1, <1>2, <1>4, DoneIs, EndNoted
<1>5. CASE /\ trash[n] # None /\ Go(t, "unlist")
           /\ disk' = [disk EXCEPT ![p] = trash[n]] /\ lineage' = [lineage EXCEPT ![p] = trash[n].of]
  <2>1. Reaches(t, "unlist")
    BY <1>5, GoIs
  <2>2. trash[n] \in Text /\ trash[n].of # None
    BY <1>1, <1>5, NoneApart DEF Typed, TypeOK, Maybe, Text
  <2>3. /\ disk'[p] = trash[n] /\ lineage'[p] = trash[n].of
        /\ \A r \in Path \ {p} : disk'[r] = disk[r] /\ lineage'[r] = lineage[r]
    BY <1>1, <1>5 DEF Typed, TypeOK
  <2>4. Agree'
    BY <1>1, <1>5, <2>2, <2>3 DEF Noted, Agree
  <2>5. Within(t)
    BY WithinSteps DEF Steps
  <2>6. Shown' /\ DirtyActive'
    <3>1. OpensActive => OpensActive'
      BY <1>1, <1>2, <2>5, OpensStays DEF Within
    <3>2. active # None => lineage'[active] = lineage[active]
      BY <1>3, <2>3 DEF Typed, TypeOK
    <3>3. QED
      BY <1>2, <3>1, <3>2 DEF Noted, Shown, DirtyActive
  <2>7. Own(t)'
    BY <1>1, <2>1, OwnIdle DEF Reaches, Becomes, Making, Moving
  <2>8. Touches(t)' = Touches(t) /\ task'[t].kind = task[t].kind /\ task[t].kind # "restore"
    BY <1>1, <2>1 DEF Reaches, Becomes, Touches
  <2>9. \A u \in Task \ {t} : Pair(t, u)' /\ Pair(u, t)'
    BY <2>5, <2>8, PairsGoOn
  <2>10. QED
    BY <2>4, <2>5, <2>6, <2>7, <2>9, NotedIf
<1>6. QED
  BY <1>4, <1>5 DEF Unbin

\* The manifest is read, or changed, or the editor closes what was deleted.
LEMMA ListsNoted ==
  ASSUME Typed, Noted, NEW t \in Task,
         List(t) \/ Note(t) \/ DropVersions(t) \/ Unlist(t) \/ Clear(t)
  PROVE  Noted'
<1>1. ~Opener(t) /\ task[t].kind \in {"trash", "purge", "remove", "system", "unbin", "empty"}
  BY StageIs DEF List, Note, DropVersions, Unlist, Clear, Opener
<1>2. CASE List(t)
  <2>1. UNCHANGED <<disk, lineage, active, text, dirty>>
    BY <1>2 DEF List, files, editor, history
  <2>2. /\ Becomes(t, task[t].kind, task'[t].at, task[t].path, task[t].to, task[t].body)
        /\ task'[t].at \in {"note", "unlist"}
    BY <1>2, ListIs DEF Becomes
  <2>3. Own(t)'
    BY <1>1, <2>2, OwnIdle DEF Becomes, Making, Moving
  <2>4. QED
    BY <1>1, <1>2, <2>1, <2>2, <2>3, GoOnNoted, WithinSteps DEF Steps
<1>3. CASE Note(t) \/ DropVersions(t)
  <2>1. Finishes(t) /\ UNCHANGED <<disk, lineage, text>> /\ active' = None /\ dirty' \in {dirty, None}
    BY <1>3, DoneIs DEF Note, DropVersions, Deleted, files
  <2>2. QED
    BY <1>1, <2>1, EndNoted
<1>4. CASE Unlist(t) \/ Clear(t)
  <2>1. Finishes(t) /\ UNCHANGED <<disk, lineage, text, active, dirty>>
    BY <1>4, DoneIs DEF Unlist, Clear, files, editor, history
  <2>2. QED
    BY <1>1, <2>1, EndNoted
<1>5. QED
  BY <1>2, <1>3, <1>4

\* The note that is shown is edited.
LEMMA EditNoted ==
  ASSUME Typed, Noted, Edit
  PROVE  Noted'
<1>1. active # None /\ active \in Path /\ text \in Text /\ text' = [text EXCEPT !.rev = edits + 1]
  BY DEF Edit, Typed, TypeOK, Maybe
<1>2. text'.of = text.of
  BY <1>1 DEF Text
<1>3. UNCHANGED <<disk, lineage, active>> /\ dirty' = active /\ \A u \in Task : Same(u)
  BY EditIs DEF Edit, files
<1>4. OpensActive' = OpensActive
  BY <1>3 DEF OpensActive, Opener, Same
<1>5. Agree' /\ Shown' /\ DirtyActive'
  BY <1>2, <1>3, <1>4 DEF Noted, Agree, Shown, DirtyActive
<1>6. ASSUME NEW t \in Task
      PROVE  Own(t)' /\ \A u \in Task \ {t} : Pair(t, u)'
  <2>1. Same(t) /\ Own(t) /\ \A u \in Task \ {t} : Same(u) /\ Pair(t, u)
    BY <1>3 DEF Noted
  <2>2. Own(t)'
    BY <1>1, <1>2, <1>3, <2>1
    DEF Same, Own, OwnClaim, OwnSaves, OwnMove, Shows, Claims, Target, Saver, Opener
  <2>3. \A u \in Task \ {t} : Pair(t, u)'
    BY <1>3, <2>1 DEF Same, Pair, Touches, Foreign
  <2>4. QED
    BY <2>2, <2>3
<1>7. QED
  BY <1>5, <1>6 DEF Noted

\* The note that is shown is closed, or a timer is over.
LEMMA IdleNoted ==
  ASSUME Typed, Noted, TimerIdle \/ CloseNote \/ (\E p \in Path : Elapse(p)) \/ UNCHANGED vars
  PROVE  Noted'
<1>1. UNCHANGED <<disk, lineage, text, dirty, task>> /\ active' \in {active, None}
  BY DEF TimerIdle, CloseNote, Elapse, vars, files, editor, history
<1>2. OpensActive /\ active' = active => OpensActive'
  BY <1>1 DEF OpensActive, Opener
<1>3. Agree' /\ Shown' /\ DirtyActive'
  BY <1>1, <1>2 DEF Noted, Agree, Shown, DirtyActive
<1>4. ASSUME NEW t \in Task
      PROVE  Own(t)' /\ \A u \in Task \ {t} : Pair(t, u)'
  <2>1. Own(t) /\ \A u \in Task \ {t} : Pair(t, u)
    BY DEF Noted
  <2>2. /\ Claims(t) => Target(t) # None
        /\ task[t].kind \in Moving => task[t].path # None
    BY StageIs, NoneApart DEF Claims, Target, Making, Moving
  <2>3. Own(t)'
    BY <1>1, <2>1, <2>2
    DEF Own, OwnClaim, OwnSaves, OwnMove, Shows, Claims, Target, Saver, Opener
  <2>4. \A u \in Task \ {t} : Pair(t, u)'
    BY <1>1, <2>1 DEF Pair, Touches, Foreign
  <2>5. QED
    BY <2>3, <2>4
<1>5. QED
  BY <1>3, <1>4 DEF Noted

\* With no call under way, and no note shown, only the files are to agree.
NoCalls == Agree /\ active = None /\ \A t \in Task : task[t] = NoTask

\* Then the notes are right.
LEMMA NoCallsNoted == NoCalls => Noted
<1> SUFFICES ASSUME NoCalls
             PROVE  Noted
  OBVIOUS
<1>1. ASSUME NEW t \in Task
      PROVE  Own(t) /\ Touches(t) = {} /\ task[t].kind = "none"
  <2>1. task[t].kind = "none" /\ task[t].at = "done" /\ task[t].path = None /\ task[t].to = None
    BY DEF NoCalls, NoTask
  <2>2. QED
    BY <2>1 DEF Own, OwnClaim, OwnSaves, OwnMove, Claims, Saver, Opener, Touches, Making, Moving
<1>2. \A t \in Task : \A u \in Task \ {t} : Pair(t, u)
  BY <1>1 DEF Pair, Foreign, Moving
<1>3. QED
  BY <1>1, <1>2 DEF Noted, NoCalls, Shown, DirtyActive

\* The app is started again.
LEMMA CrashNoted ==
  ASSUME Typed, Noted, Crash
  PROVE  Noted'
<1>1. UNCHANGED <<disk, lineage>> /\ active' = None /\ \A t \in Task : task'[t] = NoTask
  BY DEF Crash
<1>2. NoCalls'
  BY <1>1 DEF Noted, Agree, NoCalls
<1>3. QED
  BY <1>2, NoCallsNoted, PTL

\* A race that a step finds, or found before, is not forgotten.
LEMMA CrossedStays ==
  ASSUME Typed, [Next]_vars, ~crossed'
  PROVE  ~crossed
<1>1. ASSUME NEW t \in Task, Steps(t)
      PROVE  ~crossed
  <2>1. crossed' = crossed \/ \E ps, lost : Contends(t, ps, lost)
    <3>1. Write(t) => crossed' = crossed \/ \E ps, lost : Contends(t, ps, lost)
      BY WriteIs
    <3>2. Renamed(t) => crossed' = crossed \/ \E ps, lost : Contends(t, ps, lost)
      BY RenamedIs
    <3>3. QED
      BY <1>1, <3>1, <3>2 DEF Steps, history, TimerFires, SaveNow, Load, Swap, Probe, ReadOld, KeepOld, RestoreVersion,
         DoRename, Bin, List, Note, DoRemove, DropVersions, Unbin, Unlist, Empty, Clear, CreateNote, DuplicateNote,
         FreeName, OpenNote, Trash, Remove, Rename, Restore, Purge
  <2>2. QED
    BY <2>1, ContendsFacts
<1>2. QED
  BY <1>1, NextIs DEF Edit, TimerIdle, CloseNote, Crash, Elapse, vars, history

-----------------------------------------------------------------------------
\* A step of a call keeps the notes right, if no race crosses them.
LEMMA NotedSteps ==
  ASSUME Typed, Noted, NEW t \in Task, Steps(t), ~crossed'
  PROVE  Noted'
<1>1. CASE TimerFires(t)
  <2>1. /\ active # None /\ Start(t, Saving("save", active, TRUE)) /\ Contends(t, {active}, {})
        /\ UNCHANGED <<disk, lineage, active, text, dirty>>
    BY <1>1 DEF TimerFires, files
  <2>2. QED
    BY <2>1, SaveNoted, WithinSteps
<1>2. CASE SaveNow(t)
  <2>1. /\ active # None /\ Start(t, Saving("save", active, FALSE)) /\ Contends(t, {active}, {})
        /\ UNCHANGED <<disk, lineage, active, text, dirty>>
    BY <1>2 DEF SaveNow, files, editor
  <2>2. QED
    BY <2>1, SaveNoted, WithinSteps
<1>3. CASE Load(t) \/ Swap(t) \/ Probe(t) \/ ReadOld(t) \/ KeepOld(t) \/ Write(t)
  BY <1>3, LoadNoted, SwapNoted, ProbeNoted, ReadOldNoted, KeepOldNoted, WriteNoted
<1>4. CASE (\E p \in Path : RestoreVersion(t, p)) \/ DoRename(t) \/ Renamed(t)
  BY <1>4, RestoreVersionNoted, DoRenameNoted, RenamedNoted
<1>5. CASE Bin(t) \/ DoRemove(t) \/ Unbin(t)
  BY <1>5, TakenNoted, UnbinNoted
<1>6. CASE List(t) \/ Note(t) \/ DropVersions(t) \/ Unlist(t) \/ Clear(t)
  BY <1>6, ListsNoted
<1>7. CASE Empty(t) \/ (\E p \in Path : DuplicateNote(t, p)) \/ (\E m \in manifest : Purge(t, m))
  BY <1>7, PathlessNoted
<1>8. CASE \E p \in Path : CreateNote(t, p) \/ FreeName(t, p)
  BY <1>8, MakeNoted
<1>9. CASE \E p \in Path : OpenNote(t, p)
  BY <1>9, OpenNoted
<1>10. CASE \/ \E p \in Path : Trash(t, p)
            \/ \E p \in Path, kind \in {"remove", "system"} : Remove(t, kind, p)
  BY <1>10, DeleteNoted
<1>11. CASE \E p, q \in Path, kind \in {"rename", "move"} : Rename(t, kind, p, q)
  BY <1>11, RenameNoted
<1>12. CASE \E m \in manifest : Restore(t, m)
  BY <1>12, RestoreNoted
<1>13. QED
  BY <1>1, <1>2, <1>3, <1>4, <1>5, <1>6, <1>7, <1>8, <1>9, <1>10, <1>11, <1>12 DEF Steps

\* Every step keeps the notes right, if no race has crossed them.
NoteInv == ~crossed => Noted

\* No step of the window, with a call or without, spoils that.
LEMMA NotedStep == Typed /\ NoteInv /\ [Next]_vars => NoteInv'
<1> SUFFICES ASSUME Typed, NoteInv, [Next]_vars, ~crossed'
             PROVE  Noted'
  BY DEF NoteInv
<1>1. Noted
  BY CrossedStays DEF NoteInv
<1>2. CASE \E t \in Task : Steps(t)
  BY <1>1, <1>2, NotedSteps
<1>3. CASE Edit
  BY <1>1, <1>3, EditNoted
<1>4. CASE TimerIdle \/ CloseNote \/ (\E p \in Path : Elapse(p)) \/ UNCHANGED vars
  BY <1>1, <1>4, IdleNoted
<1>5. CASE Crash
  BY <1>1, <1>5, CrashNoted
<1>6. QED
  BY <1>2, <1>3, <1>4, <1>5, NextIs

\* The first notes are at their paths.
LEMMA InitNoted == Init => NoteInv
<1> SUFFICES ASSUME Init
             PROVE  NoteInv
  OBVIOUS
<1>1. \A p \in Initial : p \in Path /\ p # None /\ [of |-> p, rev |-> 0] # None
  <2>1. \A p \in Initial : p \in Path /\ p \in NoteId /\ [of |-> p, rev |-> 0] \in Text
    BY VaultAssumption DEF NoteId, Text
  <2>2. QED
    BY <2>1, NoneApart
<1>2. Agree
  <2>1. \A p \in Path : /\ disk[p] = IF p \in Initial THEN [of |-> p, rev |-> 0] ELSE None
                        /\ lineage[p] = IF p \in Initial THEN p ELSE None
    BY DEF Init
  <2>2. ASSUME NEW p \in Path
        PROVE  (disk[p] = None <=> lineage[p] = None) /\ (disk[p] # None => disk[p].of = lineage[p])
    <3>1. CASE p \in Initial
      <4>1. disk[p] = [of |-> p, rev |-> 0] /\ lineage[p] = p
        BY <2>1, <3>1
      <4>2. disk[p] # None /\ lineage[p] # None
        BY <1>1, <3>1, <4>1
      <4>3. disk[p].of = p
        BY <4>1
      <4>4. QED
        BY <4>1, <4>2, <4>3
    <3>2. CASE p \notin Initial
      BY <2>1, <3>2
    <3>3. QED
      BY <3>1, <3>2
  <2>3. QED
    BY <2>2 DEF Agree
<1>3. NoCalls
  BY <1>2 DEF Init, NoCalls
<1>4. QED
  BY <1>3, NoCallsNoted DEF NoteInv

\* No path holds what was loaded from another note, and none holds a note again that was
\* moved, renamed or deleted, whichever notes are moved and restored (renameNote and moveNote
\* reset what a pending save of notes.ts goes to, deleteNote closes the note, and openNote saves
\* what the editor holds before it shows another) - up to the first of the races that
\* NoForeignText lists and Contends marks as crossed.
THEOREM NoForeign == Spec => []NoForeignText
<1>1. NoteInv => NoForeignText
  BY DEF NoteInv, Noted, Agree, NoForeignText
<1>2. Typed /\ Showing => Typed
  OBVIOUS
<1>3. QED
  BY <1>1, <1>2, InitNoted, NotedStep, TypedAlways, PTL DEF Spec

-----------------------------------------------------------------------------
\* The notes that were made, and the texts that there can be.
Known == Initial \cup 1..ops
Old(x) == x = None \/ (x.of \in DOMAIN typed /\ x.rev <= edits)
OldCall(k) == Old(k.body) /\ (k.at \in {"keep", "swap"} => Old(k.held))

\* Every text is of a note that was made, and has the number of an edit that was made.
BornInv ==
  /\ DOMAIN typed \subseteq Known
  /\ \A l \in DOMAIN typed : typed[l] <= edits
  /\ Old(text)
  /\ \A p \in Path : /\ Old(disk[p])
                     /\ lineage[p] = None \/ lineage[p] \in DOMAIN typed
                     /\ \A i \in 1..Len(versions[p]) : Old(versions[p][i])
  /\ \A n \in 0..MaxOps : Old(trash[n])
  /\ \A t \in Task : OldCall(task[t])

\* A step may make a note, the next one.
Makes == ops' = ops + 1 /\ ops < MaxOps /\ Born(ops + 1)

\* The note is new, and all others have the last edit that they had.
LEMMA MakesNew ==
  ASSUME Typed, BornInv, typed' = typed \/ Makes, ops' \in {ops, ops + 1}
  PROVE  /\ DOMAIN typed \subseteq DOMAIN typed' /\ \A l \in DOMAIN typed : typed'[l] = typed[l]
         /\ Makes => /\ ops + 1 \notin DOMAIN typed /\ DOMAIN typed' = DOMAIN typed \cup {ops + 1}
                     /\ typed'[ops + 1] = 0
         /\ DOMAIN typed' \subseteq Known'
<1>1. ops \in Nat /\ Initial \cap Int = {}
  BY VaultAssumption DEF Typed, TypeOK
<1>2. ops + 1 \notin Known /\ Known \subseteq Known' /\ (ops' = ops + 1 => ops + 1 \in Known')
  BY <1>1 DEF Known
<1>3. Makes => /\ ops + 1 \notin DOMAIN typed /\ DOMAIN typed' = DOMAIN typed \cup {ops + 1}
               /\ typed'[ops + 1] = 0 /\ \A l \in DOMAIN typed : typed'[l] = typed[l]
  <2> SUFFICES ASSUME Makes
               PROVE  /\ ops + 1 \notin DOMAIN typed /\ DOMAIN typed' = DOMAIN typed \cup {ops + 1}
                      /\ typed'[ops + 1] = 0 /\ \A l \in DOMAIN typed : typed'[l] = typed[l]
    OBVIOUS
  <2>1. ops + 1 \notin DOMAIN typed
    BY <1>2 DEF BornInv
  <2>2. typed' = [l \in DOMAIN typed \cup {ops + 1} |-> IF l = ops + 1 THEN 0 ELSE typed[l]]
    BY DEF Makes, Born
  <2>3. QED
    BY <2>1, <2>2
<1>4. DOMAIN typed \subseteq Known
  BY DEF BornInv
<1>5. QED
  BY <1>2, <1>3, <1>4 DEF Makes

\* What is to be shown of the texts after a step of the call of t.
LEMMA BornIf ==
  ASSUME Typed, BornInv, NEW t \in Task, edits' = edits, ops' \in {ops, ops + 1}, typed' = typed \/ Makes,
         Old(text'),
         \A p \in Path : /\ Old(disk'[p])
                         /\ lineage'[p] = None \/ lineage'[p] \in DOMAIN typed
                         /\ \A i \in 1..Len(versions'[p]) : Old(versions'[p][i]),
         \A n \in 0..MaxOps : Old(trash'[n]),
         OldCall(task'[t]) \/ (Makes /\ task'[t].body = Blank /\ task'[t].at \notin {"keep", "swap"}),
         \A u \in Task \ {t} : Same(u)
  PROVE  BornInv'
<1>1. /\ DOMAIN typed \subseteq DOMAIN typed' /\ \A l \in DOMAIN typed : typed'[l] = typed[l]
      /\ Makes => /\ DOMAIN typed' = DOMAIN typed \cup {ops + 1} /\ typed'[ops + 1] = 0
      /\ DOMAIN typed' \subseteq Known'
  BY MakesNew
<1>2. edits \in Nat
  BY VaultAssumption DEF Typed, TypeOK
<1>3. \A l \in DOMAIN typed' : typed'[l] <= edits'
  BY <1>1, <1>2 DEF BornInv
<1>4. ASSUME NEW u \in Task
      PROVE  OldCall(task[u])'
  <2>1. CASE u = t /\ Makes /\ task'[t].body = Blank /\ task'[t].at \notin {"keep", "swap"}
    BY <1>1, <1>2, <2>1 DEF OldCall, Old, Blank
  <2>2. CASE u = t /\ OldCall(task'[t])
    BY <1>1, <2>2 DEF OldCall, Old
  <2>3. CASE u # t
    BY <1>1, <2>3 DEF BornInv, OldCall, Old, Same
  <2>4. QED
    BY <2>1, <2>2, <2>3
<1>5. /\ Old(text)' /\ (\A n \in 0..MaxOps : Old(trash[n])')
      /\ \A p \in Path : /\ Old(disk[p])'
                         /\ lineage'[p] = None \/ lineage'[p] \in DOMAIN typed'
                         /\ \A i \in 1..Len(versions'[p]) : Old(versions[p][i])'
  BY <1>1 DEF Old
<1>6. QED
  BY <1>1, <1>3, <1>4, <1>5 DEF BornInv

\* A step of the call that adds no text.
LEMMA BornQuiet ==
  ASSUME Typed, BornInv, NEW t \in Task, UNCHANGED <<edits, text, disk, lineage, versions, trash>>,
         ops' \in {ops, ops + 1}, typed' = typed \/ Makes,
         \/ task'[t].body \in {None, text, task[t].body} /\ task'[t].at \notin {"keep", "swap"}
         \/ Makes /\ task'[t].body = Blank /\ task'[t].at \notin {"keep", "swap"},
         \A u \in Task \ {t} : Same(u)
  PROVE  BornInv'
<1>1. OldCall(task'[t]) \/ (Makes /\ task'[t].body = Blank /\ task'[t].at \notin {"keep", "swap"})
  BY DEF BornInv, OldCall, Old
<1>2. QED
  BY <1>1, BornIf DEF BornInv

\* The notes as the edit leaves them.
LEMMA EditBorn ==
  ASSUME Typed, BornInv, Edit
  PROVE  BornInv'
<1>1. edits \in Nat /\ active # None /\ text \in Text
  BY VaultAssumption DEF Edit, Typed, TypeOK, Maybe
<1>2. text.of \in DOMAIN typed
  BY <1>1, NoneApart DEF BornInv, Old
<1>3. /\ edits' = edits + 1 /\ typed' = [typed EXCEPT ![text.of] = edits + 1]
      /\ text' = [text EXCEPT !.rev = edits + 1] /\ UNCHANGED <<disk, lineage, versions, trash, ops>>
  BY DEF Edit, files, bin
<1>4. typed \in [DOMAIN typed -> 0..MaxEdits]
  BY DEF Typed, TypeOK
<1>5. DOMAIN typed' = DOMAIN typed /\ \A l \in DOMAIN typed' : typed'[l] <= edits'
  BY <1>1, <1>2, <1>3, <1>4, VaultAssumption DEF BornInv
<1>6. text'.of = text.of /\ text'.rev = edits + 1
  BY <1>1, <1>3 DEF Text
<1>7. Old(text)'
  BY <1>1, <1>2, <1>3, <1>5, <1>6 DEF Old
<1>8. ASSUME NEW x \in Maybe, Old(x)
      PROVE  x = None \/ (x.of \in DOMAIN typed' /\ x.rev <= edits')
  <2>1. x # None => x.rev \in Nat
    BY <1>8, VaultAssumption DEF Maybe, Text
  <2>2. QED
    BY <1>1, <1>3, <1>5, <1>8, <2>1 DEF Old
<1>9. ASSUME NEW p \in Path
      PROVE  /\ Old(disk[p])'
             /\ lineage'[p] = None \/ lineage'[p] \in DOMAIN typed'
             /\ \A i \in 1..Len(versions'[p]) : Old(versions[p][i])'
  <2>1. Old(disk[p])'
    BY <1>3, <1>8 DEF BornInv, Typed, TypeOK, Old
  <2>2. lineage'[p] = None \/ lineage'[p] \in DOMAIN typed'
    BY <1>3, <1>5 DEF BornInv
  <2>3. ASSUME NEW i \in 1..Len(versions'[p])
        PROVE  Old(versions[p][i])'
    <3>1. versions[p] \in Seq(Text)
      BY DEF Typed, TypeOK
    <3>2. versions[p][i] \in Maybe
      BY <1>3, <3>1, ElementOfSeq DEF Maybe
    <3>3. QED
      BY <1>3, <1>8, <3>2 DEF BornInv, Old
  <2>4. QED
    BY <2>1, <2>2, <2>3
<1>10. \A n \in 0..MaxOps : Old(trash[n])'
  BY <1>3, <1>8 DEF BornInv, Typed, TypeOK, Old
<1>11. ASSUME NEW u \in Task
       PROVE  OldCall(task[u])'
  <2>1. task[u].body \in Maybe /\ task[u].held \in Maybe /\ OldCall(task[u]) /\ Same(u)
    BY EditIs, CallTyped DEF BornInv, Call
  <2>2. QED
    BY <1>8, <2>1 DEF OldCall, Old, Same
<1>12. DOMAIN typed' \subseteq Known'
  BY <1>3, <1>5 DEF BornInv, Known
<1>13. QED
  BY <1>5, <1>7, <1>9, <1>10, <1>11, <1>12 DEF BornInv

-----------------------------------------------------------------------------
\* A version of the path.
Has(s, x) == \E i \in 1..Len(s) : s[i] = x

\* What is kept: what was read, and what was kept before but for the oldest, which is excused if
\* it is the newest of its note.
LEMMA KeptIs ==
  ASSUME Typed, NEW t \in Task, KeepOld(t)
  PROVE  LET p == task[t].path
             h == task[t].held IN
         /\ p \in Path /\ h \in Text /\ \A q \in Path \ {p} : versions'[q] = versions[q]
         /\ \A i \in 1..Len(versions'[p]) : versions'[p][i] = h \/ Has(versions[p], versions'[p][i])
         /\ Has(versions'[p], h)
         /\ \A x : Has(versions[p], x) /\ x.rev = typed[x.of] => Has(versions'[p], x) \/ x.of \in excused'
<1> DEFINE p == task[t].path
           h == task[t].held
           s == versions[p]
           k == Append(s, h)
<1>1. task[t].at = "keep" /\ p \in Path /\ h \in Text
  BY StageIs DEF KeepOld, Writing
<1>2. versions \in [Path -> Seq(Text)] /\ s \in Seq(Text)
  BY <1>1 DEF Typed, TypeOK
<1>3. /\ versions' = [versions EXCEPT ![p] = IF Len(k) > MaxVersions THEN Tail(k) ELSE k]
      /\ excused' = IF Len(k) > MaxVersions /\ Head(k).rev = typed[Head(k).of]
                    THEN excused \cup {Head(k).of} ELSE excused
  BY DEF KeepOld
<1> HIDE DEF p, h, s
<1>4. /\ k \in Seq(Text) /\ k # <<>> /\ Len(k) = Len(s) + 1 /\ k[Len(s) + 1] = h
      /\ \A i \in 1..Len(s) : k[i] = s[i]
  BY <1>1, <1>2, AppendProperties
<1>5. Len(s) \in Nat
  BY <1>2, LenProperties
<1>6. /\ Len(Tail(k)) = Len(s) /\ \A i \in 1..Len(s) : Tail(k)[i] = k[i + 1]
  BY <1>4, <1>5, HeadTailProperties
<1> HIDE DEF k
<1>7. Head(k) = k[1]
  BY <1>4
<1>8. versions'[p] = IF Len(k) > MaxVersions THEN Tail(k) ELSE k
  BY <1>1, <1>2, <1>3
<1>9. CASE Len(k) > MaxVersions
  <2>1. Len(s) >= 1
    BY <1>4, <1>5, <1>9, VaultAssumption
  <2>2. versions'[p] = Tail(k)
    BY <1>8, <1>9
  <2>3. \A i \in 1..Len(s) : Tail(k)[i] = h \/ Has(s, Tail(k)[i])
    <3>1. ASSUME NEW i \in 1..Len(s)
          PROVE  Tail(k)[i] = h \/ Has(s, Tail(k)[i])
      <4>1. CASE i = Len(s)
        BY <1>4, <1>6, <4>1
      <4>2. CASE i # Len(s)
        <5>1. i + 1 \in 1..Len(s)
          BY <1>5, <4>2
        <5>2. Tail(k)[i] = s[i + 1]
          BY <1>4, <1>6, <5>1
        <5>3. QED
          BY <5>1, <5>2 DEF Has
      <4>3. QED
        BY <4>1, <4>2
    <3>2. QED
      BY <3>1
  <2>4. Tail(k)[Len(s)] = h /\ Len(s) \in 1..Len(Tail(k))
    BY <1>4, <1>5, <1>6, <2>1
  <2>5. Has(Tail(k), h)
    BY <2>4 DEF Has
  <2>6. ASSUME NEW x, Has(s, x), x.rev = typed[x.of]
        PROVE  Has(Tail(k), x) \/ x.of \in excused'
    <3>1. PICK i \in 1..Len(s) : s[i] = x
      BY <2>6 DEF Has
    <3>2. CASE i = 1
      <4>1. Head(k) = x
        BY <1>4, <1>7, <2>1, <3>1, <3>2
      <4>2. QED
        BY <1>3, <1>9, <2>6, <4>1
    <3>3. CASE i # 1
      <4>1. i - 1 \in 1..Len(s) /\ (i - 1) + 1 = i
        BY <1>5, <3>3
      <4>2. Tail(k)[i - 1] = k[i] /\ k[i] = x
        BY <1>4, <1>6, <3>1, <4>1
      <4>3. QED
        BY <1>6, <4>1, <4>2 DEF Has
    <3>4. QED
      BY <3>2, <3>3
  <2>7. \A q \in Path \ {p} : versions'[q] = versions[q]
    BY <1>1, <1>2, <1>3
  <2>8. QED
    BY <1>1, <1>6, <2>2, <2>3, <2>5, <2>6, <2>7 DEF p, h, s
<1>10. CASE ~(Len(k) > MaxVersions)
  <2>1. versions'[p] = k
    BY <1>8, <1>10
  <2>2. \A i \in 1..Len(k) : k[i] = h \/ Has(s, k[i])
    <3>1. ASSUME NEW i \in 1..Len(k)
          PROVE  k[i] = h \/ Has(s, k[i])
      <4>1. i = Len(s) + 1 \/ i \in 1..Len(s)
        BY <1>4, <1>5
      <4>2. QED
        BY <1>4, <4>1 DEF Has
    <3>2. QED
      BY <3>1
  <2>3. Has(k, h)
    <3>1. Len(s) + 1 \in 1..Len(k)
      BY <1>4, <1>5
    <3>2. QED
      BY <1>4, <3>1 DEF Has
  <2>4. ASSUME NEW x, Has(s, x)
        PROVE  Has(k, x)
    <3>1. PICK i \in 1..Len(s) : s[i] = x
      BY <2>4 DEF Has
    <3>2. i \in 1..Len(k) /\ k[i] = x
      BY <1>4, <1>5, <3>1
    <3>3. QED
      BY <3>2 DEF Has
  <2>5. \A q \in Path \ {p} : versions'[q] = versions[q]
    BY <1>1, <1>2, <1>3
  <2>6. QED
    BY <1>1, <2>1, <2>2, <2>3, <2>4, <2>5 DEF p, h, s
<1>11. QED
  BY <1>9, <1>10

-----------------------------------------------------------------------------
\* What the files are known to be, when a step changes them.
LEMMA BornFiles ==
  ASSUME Typed, BornInv, NEW t \in Task, UNCHANGED <<edits, text, ops, typed>>,
         \A p \in Path : /\ Old(disk'[p])
                         /\ lineage'[p] = None \/ lineage'[p] \in DOMAIN typed
                         /\ \A i \in 1..Len(versions'[p]) : Old(versions'[p][i]),
         \A n \in 0..MaxOps : Old(trash'[n]),
         task'[t].body \in {None, text, task[t].body}, task'[t].at \notin {"keep", "swap"},
         \A u \in Task \ {t} : Same(u)
  PROVE  BornInv'
<1>1. OldCall(task'[t])
  BY DEF BornInv, OldCall, Old
<1>2. Old(text')
  BY DEF BornInv
<1>3. QED
  BY <1>1, <1>2, BornIf

\* A call of the user starts with no text, what is shown, or what it makes.
LEMMA StartsBorn ==
  ASSUME Typed, BornInv, NEW t \in Task,
         \/ TimerFires(t) \/ SaveNow(t)
         \/ \E p \in Path : CreateNote(t, p) \/ DuplicateNote(t, p)
         \/ \E p \in Path : OpenNote(t, p) \/ Trash(t, p)
         \/ \E p \in Path, kind \in {"remove", "system"} : Remove(t, kind, p)
         \/ \E p, q \in Path, kind \in {"rename", "move"} : Rename(t, kind, p, q)
         \/ \E m \in manifest : Restore(t, m)
  PROVE  BornInv'
<1> USE DEF Start, files, bin, editor, Becomes, Makes
<1>1. CASE TimerFires(t)
  BY <1>1, SaveStarts, SameIf, BornQuiet DEF TimerFires
<1>2. CASE SaveNow(t)
  BY <1>2, SaveStarts, SameIf, BornQuiet DEF SaveNow
<1>3. CASE \E p \in Path : CreateNote(t, p)
  BY <1>3, MakeStarts, SameIf, BornQuiet DEF CreateNote
<1>4. CASE \E p \in Path : DuplicateNote(t, p)
  BY <1>4, MakeStarts, SameIf, BornQuiet DEF DuplicateNote
<1>5. CASE \E p \in Path : OpenNote(t, p)
  BY <1>5, OpenStarts, SameIf, BornQuiet DEF OpenNote, Opens
<1>6. CASE \E p \in Path : Trash(t, p)
  BY <1>6, TrashStarts, SameIf, BornQuiet DEF Trash
<1>7. CASE \E p \in Path, kind \in {"remove", "system"} : Remove(t, kind, p)
  BY <1>7, RemoveStarts, SameIf, BornQuiet DEF Remove
<1>8. CASE \E p, q \in Path, kind \in {"rename", "move"} : Rename(t, kind, p, q)
  <2>1. PICK p \in Path, q \in Path, kind \in {"rename", "move"} : Rename(t, kind, p, q)
    BY <1>8
  <2>2. Becomes(t, kind, "rename", p, q, None)
    BY <2>1, MoveStarts DEF Rename
  <2>3. QED
    BY <2>1, <2>2, BornQuiet DEF Rename
<1>9. CASE \E m \in manifest : Restore(t, m)
  BY <1>9, UnbinStarts, SameIf, BornQuiet DEF Restore
<1>10. QED
  BY <1>1, <1>2, <1>3, <1>4, <1>5, <1>6, <1>7, <1>8, <1>9

\* A call goes on or ends, and the files stay as they are.
LEMMA GoesOnBorn ==
  ASSUME Typed, BornInv, NEW t \in Task,
         \/ Probe(t) \/ Renamed(t) \/ List(t) \/ Note(t) \/ Unlist(t) \/ Clear(t)
         \/ \E p \in Path : FreeName(t, p)
  PROVE  BornInv'
<1> USE DEF files, bin, editor, history, Becomes, Reaches, Finishes
<1>1. CASE Probe(t)
  BY <1>1, GoIs, SameIf, BornQuiet DEF Probe
<1>2. CASE Renamed(t)
  BY <1>2, RenamedIs, SameIf, BornQuiet DEF Renamed, Opens
<1>3. CASE List(t)
  BY <1>3, ListIs, SameIf, BornQuiet DEF List
<1>4. CASE Note(t)
  BY <1>4, DoneIs, SameIf, BornQuiet DEF Note
<1>5. CASE Unlist(t)
  BY <1>5, DoneIs, SameIf, BornQuiet DEF Unlist
<1>6. CASE Clear(t)
  BY <1>6, DoneIs, SameIf, BornQuiet DEF Clear
<1>7. CASE \E p \in Path : FreeName(t, p)
  BY <1>7, FreeNameIs, SameIf, BornQuiet DEF FreeName
<1>8. QED
  BY <1>1, <1>2, <1>3, <1>4, <1>5, <1>6, <1>7

\* A text is read, from the files, the versions or the call.
LEMMA ReadsBorn ==
  ASSUME Typed, BornInv, NEW t \in Task, Load(t) \/ Swap(t) \/ ReadOld(t) \/ KeepOld(t) \/ (\E p \in Path : RestoreVersion(t, p))
  PROVE  BornInv'
<1>1. CASE Load(t)
  <2>1. UNCHANGED <<edits, text, ops, typed, disk, lineage, versions, trash>>
    BY <1>1 DEF Load, files, bin, editor, history
  <2>2. OldCall(task'[t])
    BY <1>1, LoadIs, ZenonT(60) DEF Becomes, Finishes, BornInv, OldCall, Old
  <2>3. QED
    BY <1>1, <2>1, <2>2, LoadIs, SameIf, BornIf DEF BornInv
<1>2. CASE Swap(t)
  <2>1. UNCHANGED <<edits, ops, typed, disk, lineage, versions, trash>> /\ text' = task[t].held
    BY <1>2 DEF Swap, files, bin, history
  <2>2. OldCall(task'[t]) /\ Old(text') /\ \A u \in Task \ {t} : Same(u)
    BY <1>2, <2>1, SwapIs DEF Becomes, Finishes, BornInv, OldCall, Old
  <2>3. QED
    BY <2>1, <2>2, BornIf DEF BornInv
<1>3. CASE ReadOld(t)
  <2>1. UNCHANGED <<edits, text, ops, typed, disk, lineage, versions, trash>>
    BY <1>3 DEF ReadOld, files, bin, editor, history
  <2>2. OldCall(task'[t])
    BY <1>3, ReadOldIs, ZenonT(60) DEF Becomes, Finishes, BornInv, OldCall, Old
  <2>3. QED
    BY <1>3, <2>1, <2>2, ReadOldIs, SameIf, BornIf DEF BornInv
<1>4. CASE KeepOld(t)
  <2>1. UNCHANGED <<edits, text, ops, typed, disk, lineage, trash>>
    BY <1>4 DEF KeepOld, bin, editor
  <2>2. Reaches(t, "write") /\ (\A u \in Task \ {t} : Same(u)) /\ task[t].at = "keep"
    BY <1>4, GoIs, SameIf DEF KeepOld
  <2>3. Old(task[t].held)
    BY <2>2 DEF BornInv, OldCall
  <2>4. \A p \in Path : \A i \in 1..Len(versions'[p]) : Old(versions'[p][i])
    <3>1. ASSUME NEW p \in Path, NEW i \in 1..Len(versions'[p])
          PROVE  Old(versions'[p][i])
      <4>1. CASE p = task[t].path
        <5>1. versions'[p][i] = task[t].held \/ Has(versions[p], versions'[p][i])
          BY <1>4, <4>1, KeptIs
        <5>2. QED
          BY <2>3, <5>1 DEF Has, BornInv
      <4>2. CASE p # task[t].path
        <5>1. versions'[p] = versions[p]
          BY <1>4, <4>2, KeptIs
        <5>2. QED
          BY <5>1 DEF BornInv
      <4>3. QED
        BY <4>1, <4>2
    <3>2. QED
      BY <3>1
  <2>5. QED
    BY <2>1, <2>2, <2>4, BornFiles DEF BornInv, Reaches, Becomes
<1>5. CASE \E p \in Path : RestoreVersion(t, p)
  <2> PICK p \in Path : RestoreVersion(t, p)
    BY <1>5
  <2>1. UNCHANGED <<edits, text, typed, disk, lineage, versions, trash>> /\ ops' = ops + 1
    BY DEF RestoreVersion, Start, files, bin, editor
  <2>2. PICK i \in 1..Len(versions[p]) : Becomes(t, "restore", "probe", p, None, versions[p][i])
    BY RestoreStarts
  <2>3. OldCall(task'[t])
    BY <2>2 DEF Becomes, BornInv, OldCall
  <2>4. QED
    BY <2>1, <2>2, <2>3, BornIf DEF BornInv, Becomes
<1>6. QED
  BY <1>1, <1>2, <1>3, <1>4, <1>5

\* A call that goes on or ends reads nothing with it.
LEMMA GoOrDone ==
  ASSUME Typed, NEW t \in Task, Done(t) \/ (\E s : s \notin {"keep", "swap"} /\ Go(t, s))
  PROVE  /\ task'[t].body \in {None, text, task[t].body} /\ task'[t].at \notin {"keep", "swap"}
         /\ \A u \in Task \ {t} : Same(u)
<1>1. CASE Done(t)
  BY <1>1, DoneIs, SameIf DEF Finishes, Becomes
<1>2. CASE \E s : s \notin {"keep", "swap"} /\ Go(t, s)
  BY <1>2, GoIs, SameIf DEF Reaches, Becomes
<1>3. QED
  BY <1>1, <1>2

\* A text is written, moved or removed.
LEMMA MovesBorn ==
  ASSUME Typed, BornInv, NEW t \in Task,
         \/ Write(t) \/ DoRename(t) \/ Bin(t) \/ DoRemove(t) \/ DropVersions(t) \/ Unbin(t)
         \/ Empty(t)
         \/ \E m \in manifest : Purge(t, m)
  PROVE  BornInv'
<1> DEFINE p == task[t].path
<1>0. /\ disk \in [Path -> Maybe] /\ lineage \in [Path -> NoteId \cup {None}] /\ versions \in [Path -> Seq(Text)]
      /\ trash \in [0..MaxOps -> Maybe]
  BY DEF Typed, TypeOK
<1>1. CASE Write(t)
  <2>1. p \in Path /\ task[t].body \in Text /\ disk' = [disk EXCEPT ![p] = task[t].body]
        /\ (lineage' = lineage \/ lineage' = [lineage EXCEPT ![p] = task[t].body.of])
    BY <1>1, WriteIs
  <2>2. Old(task[t].body) /\ task[t].body.of \in DOMAIN typed
    BY <2>1, NoneApart DEF BornInv, OldCall, Old
  <2>3. \A q \in Path : Old(disk'[q]) /\ (lineage'[q] = None \/ lineage'[q] \in DOMAIN typed)
    BY <1>0, <2>1, <2>2 DEF BornInv
  <2>4. UNCHANGED <<edits, text, ops, typed, versions, trash>>
    BY <1>1 DEF Write, bin
  <2>5. task'[t].body \in {None, text, task[t].body} /\ task'[t].at \notin {"keep", "swap"}
        /\ \A u \in Task \ {t} : Same(u)
    BY <1>1, WriteIs, SameIf DEF Opens, Becomes, Finishes
  <2>6. QED
    BY <2>3, <2>4, <2>5, BornFiles DEF BornInv
<1>2. CASE DoRename(t)
  <2>1. p \in Path /\ task[t].to \in Path
    BY <1>2, StageIs DEF DoRename
  <2>2. UNCHANGED <<edits, text, ops, typed, versions, trash>>
    BY <1>2 DEF DoRename, bin, editor
  <2>3. \A q \in Path : Old(disk'[q]) /\ (lineage'[q] = None \/ lineage'[q] \in DOMAIN typed)
    BY <1>0, <1>2, <2>1 DEF DoRename, BornInv, Old
  <2>4. task'[t].body \in {None, text, task[t].body} /\ task'[t].at \notin {"keep", "swap"}
        /\ \A u \in Task \ {t} : Same(u)
    <3>1. Done(t) \/ (\E s : s \notin {"keep", "swap"} /\ Go(t, s))
      BY <1>2 DEF DoRename
    <3>2. QED
      BY <3>1, GoOrDone
  <2>5. QED
    BY <2>2, <2>3, <2>4, BornFiles DEF BornInv
<1>3. CASE Bin(t) \/ DoRemove(t)
  <2>1. p \in Path
    BY <1>3, StageIs DEF Bin, DoRemove
  <2>2. UNCHANGED <<edits, text, ops, typed, versions>>
    BY <1>3 DEF Bin, DoRemove, bin, editor
  <2>3. \A q \in Path : Old(disk'[q]) /\ (lineage'[q] = None \/ lineage'[q] \in DOMAIN typed)
    BY <1>0, <1>3, <2>1 DEF Bin, DoRemove, BornInv, Old
  <2>4. \A n \in 0..MaxOps : Old(trash'[n])
    <3>1. trash' = trash \/ trash' = [trash EXCEPT ![task[t].name] = disk[p]]
      BY <1>3 DEF Bin, DoRemove, bin
    <3>2. QED
      BY <1>0, <2>1, <3>1 DEF BornInv
  <2>5. task'[t].body \in {None, text, task[t].body} /\ task'[t].at \notin {"keep", "swap"}
        /\ \A u \in Task \ {t} : Same(u)
    <3>1. Done(t) \/ (\E s : s \notin {"keep", "swap"} /\ Go(t, s))
      BY <1>3 DEF Bin, DoRemove
    <3>2. QED
      BY <3>1, GoOrDone
  <2>6. QED
    BY <2>2, <2>3, <2>4, <2>5, BornFiles DEF BornInv
<1>4. CASE DropVersions(t)
  <2>1. UNCHANGED <<edits, text, ops, typed, disk, lineage, trash>>
    BY <1>4 DEF DropVersions, bin
  <2>2. \A q \in Path : \A i \in 1..Len(versions'[q]) : Old(versions'[q][i])
    <3>1. Len(<<>>) = 0
      BY EmptySeq
    <3>2. QED
      BY <1>0, <1>4, <3>1 DEF DropVersions, BornInv
  <2>3. QED
    BY <1>4, <2>1, <2>2, DoneIs, SameIf, BornFiles DEF DropVersions, BornInv, Becomes, Finishes
<1>5. CASE Unbin(t)
  <2>1. p \in Path /\ task[t].name \in 0..MaxOps
    BY <1>5, StageIs, CallTyped DEF Unbin, Call
  <2>2. UNCHANGED <<edits, text, ops, typed, versions>>
    BY <1>5 DEF Unbin, editor
  <2>3. \A q \in Path : Old(disk'[q]) /\ (lineage'[q] = None \/ lineage'[q] \in DOMAIN typed)
    BY <1>0, <1>5, <2>1 DEF Unbin, BornInv, Old
  <2>4. \A n \in 0..MaxOps : Old(trash'[n])
    BY <1>0, <1>5 DEF Unbin, BornInv, Old
  <2>5. task'[t].body \in {None, text, task[t].body} /\ task'[t].at \notin {"keep", "swap"}
        /\ \A u \in Task \ {t} : Same(u)
    <3>1. Done(t) \/ (\E s : s \notin {"keep", "swap"} /\ Go(t, s))
      BY <1>5 DEF Unbin
    <3>2. QED
      BY <3>1, GoOrDone
  <2>6. QED
    BY <2>2, <2>3, <2>4, <2>5, BornFiles DEF BornInv
<1>6. CASE Empty(t) \/ (\E m \in manifest : Purge(t, m))
  <2>1. UNCHANGED <<edits, text, typed, disk, lineage, versions>> /\ ops' = ops + 1
    BY <1>6 DEF Empty, Purge, Start, files, editor
  <2>2. \A n \in 0..MaxOps : Old(trash'[n])
    BY <1>0, <1>6 DEF Empty, Purge, BornInv, Old
  <2>3. task'[t].body = None /\ task'[t].at \notin {"keep", "swap"} /\ \A u \in Task \ {t} : Same(u)
    BY <1>6, EmptyStarts, UnbinStarts, SameIf DEF Becomes
  <2>4. OldCall(task'[t])
    BY <2>3 DEF OldCall, Old
  <2>5. QED
    BY <2>1, <2>2, <2>3, <2>4, BornIf DEF BornInv
<1>7. QED
  BY <1>1, <1>2, <1>3, <1>4, <1>5, <1>6

\* Every step keeps the texts what they are to be.
LEMMA BornStep == Typed /\ BornInv /\ [Next]_vars => BornInv'
<1> SUFFICES ASSUME Typed, BornInv, [Next]_vars
             PROVE  BornInv'
  OBVIOUS
<1>1. ASSUME NEW t \in Task, Steps(t)
      PROVE  BornInv'
  BY <1>1, StartsBorn, GoesOnBorn, ReadsBorn, MovesBorn DEF Steps
<1>2. CASE Edit
  BY <1>2, EditBorn
<1>3. CASE TimerIdle \/ CloseNote \/ (\E p \in Path : Elapse(p)) \/ UNCHANGED vars
  <2>1. UNCHANGED <<edits, text, ops, typed, disk, lineage, versions, trash, task>>
    BY <1>3 DEF TimerIdle, CloseNote, Elapse, vars, files, bin, editor, history
  <2>2. QED
    BY <2>1 DEF BornInv, Known, Old, OldCall
<1>4. CASE Crash
  <2>1. UNCHANGED <<edits, ops, typed, disk, lineage, versions, trash>> /\ text' = None
        /\ \A u \in Task : task'[u] = NoTask
    BY <1>4 DEF Crash, bin
  <2>2. \A u \in Task : task'[u].body = None /\ task'[u].at = "done"
    BY <2>1 DEF NoTask
  <2>3. QED
    BY <2>1, <2>2 DEF BornInv, Known, Old, OldCall
<1>5. QED
  BY <1>1, <1>2, <1>3, <1>4, NextIs

\* The first notes have the first texts.
LEMMA InitBorn == Init => BornInv
<1> SUFFICES ASSUME Init
             PROVE  BornInv
  OBVIOUS
<1>1. DOMAIN typed = Initial /\ \A l \in Initial : typed[l] = 0
  BY DEF Init
<1>2. edits = 0 /\ text = None /\ \A n \in 0..MaxOps : trash[n] = None
  BY DEF Init
<1>3. \A u \in Task : task[u].body = None /\ task[u].at = "done"
  BY DEF Init, NoTask
<1>4. ASSUME NEW p \in Path
      PROVE  Old(disk[p]) /\ (lineage[p] = None \/ lineage[p] \in DOMAIN typed) /\ Len(versions[p]) = 0
  <2>1. versions[p] = <<>>
    BY DEF Init
  <2>2. Len(versions[p]) = 0
    BY <2>1, EmptySeq
  <2>3. CASE p \in Initial
    <3>1. disk[p] = [of |-> p, rev |-> 0] /\ lineage[p] = p
      BY <2>3 DEF Init
    <3>2. disk[p].of = p /\ disk[p].rev = 0
      BY <3>1
    <3>3. QED
      BY <1>1, <1>2, <2>2, <2>3, <3>1, <3>2 DEF Old
  <2>4. CASE p \notin Initial
    <3>1. disk[p] = None /\ lineage[p] = None
      BY <2>4 DEF Init
    <3>2. QED
      BY <2>2, <3>1 DEF Old
  <2>5. QED
    BY <2>3, <2>4
<1>5. QED
  BY <1>1, <1>2, <1>3, <1>4 DEF BornInv, Known, Old, OldCall

-----------------------------------------------------------------------------
\* What a contending step excuses.
LEMMA ContendsExcuses ==
  ASSUME NEW t \in Task, NEW ps, NEW lost, Contends(t, ps, lost)
  PROVE  /\ excused \subseteq excused' /\ lost \subseteq excused'
         /\ \A u \in Task \ {t} : \A p \in ps : p \in Touches(u) =>
              /\ \A q \in ps : lineage[q] \in excused' \cup {None}
              /\ task'[t].body # None => task'[t].body.of \in excused'
<1> DEFINE others == Others(t, ps)
           at == ps \cup ({task[u].path : u \in others} \ {None})
           held == ({task[u].body : u \in others} \cup {task'[t].body}) \ {None}
<1>1. excused' = excused \cup lost \cup
         (IF others = {} THEN {} ELSE ({lineage[q] : q \in at} \ {None}) \cup {b.of : b \in held})
  BY DEF Contends
<1>2. ASSUME NEW u \in Task \ {t}, NEW p \in ps, p \in Touches(u)
      PROVE  u \in others
  BY <1>2 DEF Others, Touches
<1>3. ps \subseteq at /\ (task'[t].body # None => task'[t].body \in held)
  OBVIOUS
<1> HIDE DEF others, at, held
<1>4. QED
  BY <1>1, <1>2, <1>3

\* What a step of the call of t does to what is counted, and to the marks of unsaved edits.
Beside(t) ==
  /\ excused \subseteq excused' /\ edits' = edits
  /\ \A p \in Path : versions'[p] # versions[p] => p \in Touches(t)
  /\ DOMAIN typed \subseteq DOMAIN typed' /\ \A l \in DOMAIN typed : typed'[l] = typed[l]
  /\ dirty' # None => dirty # None
  /\ text' # text => dirty' = None /\ \A u \in Task : ~task'[u].fresh
  /\ \A u \in Task \ {t} : task'[u].fresh => task[u].fresh
  /\ task'[t].fresh => \/ task'[t].kind = "save" /\ task'[t].body = text
                       \/ task[t].fresh /\ task'[t].kind = task[t].kind /\ task'[t].body = task[t].body
  /\ task'[t].kind = "open" => task[t].kind = "open" \/ dirty' = None

\* A step of a call that leaves the versions and the editor alone but for the dirty flag.
LEMMA BesideQuiet ==
  ASSUME Typed, BornInv, NEW t \in Task, excused \subseteq excused', UNCHANGED <<edits, versions, text>>,
         ops' \in {ops, ops + 1}, typed' = typed \/ Makes, dirty' \in {dirty, None},
         \A u \in Task \ {t} : task'[u] = task[u],
         \/ ~task'[t].fresh
         \/ task'[t].kind = "save" /\ task'[t].body = text
         \/ task'[t].fresh = task[t].fresh /\ task'[t].kind = task[t].kind /\ task'[t].body = task[t].body,
         task'[t].kind = "open" => task[t].kind = "open" \/ dirty' = None
  PROVE  Beside(t)
<1>1. DOMAIN typed \subseteq DOMAIN typed' /\ \A l \in DOMAIN typed : typed'[l] = typed[l]
  BY MakesNew
<1>2. QED
  BY <1>1 DEF Beside

\* A call that starts.
LEMMA StartsBeside ==
  ASSUME Typed, BornInv, NEW t \in Task,
         \/ TimerFires(t) \/ SaveNow(t) \/ (\E p \in Path : RestoreVersion(t, p))
         \/ \E p \in Path : CreateNote(t, p) \/ DuplicateNote(t, p)
         \/ \E p \in Path : OpenNote(t, p) \/ Trash(t, p)
         \/ \E p \in Path, kind \in {"remove", "system"} : Remove(t, kind, p)
         \/ \E p, q \in Path, kind \in {"rename", "move"} : Rename(t, kind, p, q)
         \/ \E m \in manifest : Restore(t, m) \/ Purge(t, m)
         \/ Empty(t)
  PROVE  Beside(t)
<1> USE DEF Start, files, editor, Becomes, Makes
<1>1. CASE TimerFires(t)
  BY <1>1, SaveStarts, ContendsExcuses, BesideQuiet DEF TimerFires
<1>2. CASE SaveNow(t)
  BY <1>2, SaveStarts, ContendsExcuses, BesideQuiet DEF SaveNow
<1>3. CASE \E p \in Path : RestoreVersion(t, p)
  <2> PICK p \in Path : RestoreVersion(t, p)
    BY <1>3
  <2>1. excused \subseteq excused'
    BY ContendsExcuses DEF RestoreVersion
  <2>2. UNCHANGED <<edits, versions, text, typed, dirty>> /\ ops' = ops + 1
    BY DEF RestoreVersion
  <2>3. task'[t].kind = "restore" /\ task'[t].fresh = FALSE /\ \A u \in Task \ {t} : task'[u] = task[u]
    BY RestoreStarts
  <2>4. QED
    BY <2>1, <2>2, <2>3, BesideQuiet
<1>4. CASE \E p \in Path : CreateNote(t, p)
  BY <1>4, MakeStarts, ContendsExcuses, BesideQuiet DEF CreateNote
<1>5. CASE \E p \in Path : DuplicateNote(t, p)
  BY <1>5, MakeStarts, BesideQuiet DEF DuplicateNote
<1>6. CASE \E p \in Path : OpenNote(t, p)
  BY <1>6, OpenStarts, ContendsExcuses, BesideQuiet DEF OpenNote, Opens
<1>7. CASE \E p \in Path : Trash(t, p)
  BY <1>7, TrashStarts, ContendsExcuses, BesideQuiet, ZenonT(60) DEF Trash
<1>8. CASE \E p \in Path, kind \in {"remove", "system"} : Remove(t, kind, p)
  BY <1>8, RemoveStarts, ContendsExcuses, BesideQuiet, ZenonT(60) DEF Remove
<1>9. CASE \E p, q \in Path, kind \in {"rename", "move"} : Rename(t, kind, p, q)
  <2> PICK p \in Path, q \in Path, kind \in {"rename", "move"} : Rename(t, kind, p, q)
    BY <1>9
  <2>1. excused \subseteq excused'
    BY ContendsExcuses DEF Rename
  <2>2. UNCHANGED <<edits, versions, text, typed, dirty>> /\ ops' = ops + 1
    BY DEF Rename
  <2>3. task'[t].kind = kind /\ task'[t].fresh = FALSE /\ \A u \in Task \ {t} : task'[u] = task[u]
    BY MoveStarts DEF Rename
  <2>4. QED
    BY <2>1, <2>2, <2>3, BesideQuiet
<1>10. CASE \E m \in manifest : Restore(t, m)
  BY <1>10, UnbinStarts, ContendsExcuses, BesideQuiet DEF Restore
<1>11. CASE \E m \in manifest : Purge(t, m)
  BY <1>11, UnbinStarts, BesideQuiet DEF Purge
<1>12. CASE Empty(t)
  BY <1>12, EmptyStarts, BesideQuiet DEF Empty
<1>13. QED
  BY <1>1, <1>2, <1>3, <1>4, <1>5, <1>6, <1>7, <1>8, <1>9, <1>10, <1>11, <1>12

\* A call that goes on or ends.
LEMMA GoesOnBeside ==
  ASSUME Typed, BornInv, NEW t \in Task,
         \/ Load(t) \/ Swap(t) \/ Probe(t) \/ ReadOld(t) \/ KeepOld(t) \/ Write(t)
         \/ DoRename(t) \/ Renamed(t) \/ Bin(t) \/ List(t) \/ Note(t) \/ DoRemove(t) \/ DropVersions(t)
         \/ Unbin(t) \/ Unlist(t) \/ Clear(t)
         \/ \E p \in Path : FreeName(t, p)
  PROVE  Beside(t)
<1> USE DEF files, editor, history, Becomes, Reaches, Finishes
<1>1. CASE Load(t)
  BY <1>1, LoadIs, BesideQuiet DEF Load
<1>2. CASE Swap(t)
  <2>1. UNCHANGED <<edits, versions, typed, excused>> /\ dirty' = None
    BY <1>2 DEF Swap
  <2>2. Finishes(t) /\ \A u \in Task : task'[u].fresh = FALSE
    BY <1>2, SwapIs
  <2>3. QED
    BY <2>1, <2>2 DEF Beside
<1>3. CASE Probe(t)
  BY <1>3, GoIs, BesideQuiet DEF Probe
<1>4. CASE ReadOld(t)
  BY <1>4, ReadOldIs, BesideQuiet DEF ReadOld
<1>5. CASE KeepOld(t)
  <2>1. /\ UNCHANGED <<edits, text, typed, dirty>> /\ excused \subseteq excused'
        /\ \A q \in Path \ {task[t].path} : versions'[q] = versions[q]
    BY <1>5, KeptIs DEF KeepOld
  <2>2. task[t].path \in Touches(t)
    BY <1>5, KeptIs, NoneApart DEF Touches
  <2>3. Reaches(t, "write") /\ task'[t].fresh = task[t].fresh /\ \A u \in Task \ {t} : task'[u] = task[u]
    BY <1>5, GoIs DEF KeepOld
  <2>4. QED
    BY <2>1, <2>2, <2>3 DEF Beside
<1>6. CASE Write(t)
  <2>1. UNCHANGED <<edits, versions, text, typed, ops>>
    BY <1>6 DEF Write
  <2>2. /\ excused \subseteq excused' /\ dirty' \in {dirty, None} /\ task'[t].fresh = FALSE
        /\ \A u \in Task \ {t} : task'[u] = task[u]
        /\ task'[t].kind = "open" => task[t].kind = "open" \/ dirty' = None
    BY <1>6, WriteIs, ContendsExcuses DEF Opens
  <2>3. QED
    BY <2>1, <2>2, BesideQuiet
<1>7. CASE DoRename(t)
  BY <1>7, GoIs, DoneIs, BesideQuiet DEF DoRename
<1>8. CASE Renamed(t)
  <2>1. UNCHANGED <<edits, versions, text, typed>>
    BY <1>8 DEF Renamed
  <2>2. dirty' # None => dirty # None
    BY <1>8, RenamedIs, NoneApart DEF Moved
  <2>3. /\ excused \subseteq excused' /\ task'[t].fresh = FALSE /\ \A u \in Task \ {t} : task'[u] = task[u]
        /\ task'[t].kind = "open" => dirty' = None
    BY <1>8, RenamedIs, ContendsExcuses DEF Opens
  <2>4. QED
    BY <2>1, <2>2, <2>3 DEF Beside
<1>9. CASE Bin(t)
  BY <1>9, GoIs, DoneIs, BesideQuiet DEF Bin
<1>10. CASE List(t)
  <2>1. UNCHANGED <<edits, versions, text, typed, ops, excused, dirty>>
    BY <1>10 DEF List
  <2>2. /\ task'[t].kind \in {"trash", "purge"} /\ task'[t].body = task[t].body /\ task'[t].kind = task[t].kind
        /\ task'[t].fresh = task[t].fresh /\ \A u \in Task \ {t} : task'[u] = task[u]
    BY <1>10, ListIs
  <2>3. QED
    BY <2>1, <2>2, BesideQuiet
<1>11. CASE Note(t)
  BY <1>11, DoneIs, BesideQuiet DEF Note, Deleted
<1>12. CASE DoRemove(t)
  BY <1>12, GoIs, DoneIs, BesideQuiet DEF DoRemove
<1>13. CASE DropVersions(t)
  <2>1. task[t].path \in Touches(t)
    BY <1>13, StageIs, NoneApart DEF DropVersions, Touches
  <2>2. UNCHANGED <<edits, text, typed>> /\ excused \subseteq excused' /\ dirty' \in {dirty, None}
    BY <1>13 DEF DropVersions, Deleted
  <2>3. \A q \in Path : versions'[q] # versions[q] => q = task[t].path
    BY <1>13 DEF DropVersions, Typed, TypeOK
  <2>4. Finishes(t) /\ task'[t].fresh = FALSE /\ \A u \in Task \ {t} : task'[u] = task[u]
    BY <1>13, DoneIs DEF DropVersions
  <2>5. QED
    BY <2>1, <2>2, <2>3, <2>4 DEF Beside
<1>14. CASE Unbin(t)
  BY <1>14, GoIs, DoneIs, BesideQuiet DEF Unbin
<1>15. CASE Unlist(t) \/ Clear(t)
  BY <1>15, DoneIs, BesideQuiet DEF Unlist, Clear
<1>16. CASE \E p \in Path : FreeName(t, p)
  BY <1>16, FreeNameIs, ContendsExcuses, BesideQuiet DEF FreeName
<1>17. QED
  BY <1>1, <1>2, <1>3, <1>4, <1>5, <1>6, <1>7, <1>8, <1>9, <1>10, <1>11, <1>12, <1>13, <1>14, <1>15, <1>16

\* A step of a call excuses more, and changes the versions at its paths only.
LEMMA BesideSteps ==
  ASSUME Typed, BornInv, NEW t \in Task, Steps(t)
  PROVE  Beside(t)
BY StartsBeside, GoesOnBeside DEF Steps

-----------------------------------------------------------------------------
\* A text with the last edit of its note.
Last(x) == x # None /\ x.of \in DOMAIN typed /\ x.rev = typed[x.of]

\* What calls hold, whether or not calls crossed: a fresh save has what the editor shows;
\* while a note is opened nothing is unsaved that counts; and a note that is to be moved
\* to the trash takes no name of another there.  Unsaved edits are the last of their note.
HandsOn(t) ==
  /\ task[t].fresh => task[t].kind = "save" /\ task[t].body = text
  /\ task[t].kind = "open" => dirty = None \/ text.of \in excused
  /\ task[t].at = "bin" => trash[task[t].name] = None \/ NoteId \subseteq excused
TwoBins == \A t \in Task : \A u \in Task \ {t} :
  task[t].kind = "trash" /\ task[u].kind = "trash" => NoteId \subseteq excused
Newest == dirty # None => Last(text)
HandInv == TwoBins /\ Newest /\ \A t \in Task : HandsOn(t)

\* What a step of the call of t does to the trash.
Binned(t) ==
  /\ \A n \in 0..MaxOps : trash'[n] \in {trash[n], None} \/ task[t].at = "bin"
  /\ task'[t].kind = "trash" =>
       task[t].kind = "trash" \/ \A u \in Task \ {t} : task[u].kind = "trash" => NoteId \subseteq excused'
  /\ task'[t].at = "bin" => trash'[task'[t].name] = None

\* A step that is no start of moveToTrash, and leaves the files of the trash alone.
LEMMA BinnedQuiet ==
  ASSUME NEW t \in Task, trash' = trash, task'[t].at # "bin",
         task'[t].kind = "trash" => task[t].kind = "trash"
  PROVE  Binned(t)
BY DEF Binned

\* A call that starts moves a note to a name that is free in the trash.
LEMMA StartsBinned ==
  ASSUME Typed, Numbered, NEW t \in Task,
         \/ TimerFires(t) \/ SaveNow(t) \/ (\E p \in Path : RestoreVersion(t, p))
         \/ \E p \in Path : CreateNote(t, p) \/ DuplicateNote(t, p)
         \/ \E p \in Path : OpenNote(t, p) \/ Trash(t, p)
         \/ \E p \in Path, kind \in {"remove", "system"} : Remove(t, kind, p)
         \/ \E p, q \in Path, kind \in {"rename", "move"} : Rename(t, kind, p, q)
         \/ \E m \in manifest : Restore(t, m) \/ Purge(t, m)
         \/ Empty(t)
  PROVE  Binned(t)
<1> USE DEF bin, Becomes
<1>1. CASE TimerFires(t)
  BY <1>1, SaveStarts, BinnedQuiet DEF TimerFires
<1>2. CASE SaveNow(t)
  BY <1>2, SaveStarts, BinnedQuiet DEF SaveNow
<1>3. CASE \E p \in Path : RestoreVersion(t, p)
  BY <1>3, RestoreStarts, BinnedQuiet DEF RestoreVersion
<1>4. CASE \E p \in Path : CreateNote(t, p)
  BY <1>4, MakeStarts, BinnedQuiet DEF CreateNote
<1>5. CASE \E p \in Path : DuplicateNote(t, p)
  BY <1>5, MakeStarts, BinnedQuiet DEF DuplicateNote
<1>6. CASE \E p \in Path : OpenNote(t, p)
  BY <1>6, OpenStarts, BinnedQuiet DEF OpenNote, Opens
<1>7. CASE \E p \in Path : Trash(t, p)
  <2>1. PICK p \in Path : Trash(t, p)
    BY <1>7
  <2>2. /\ trash' = trash /\ ops < MaxOps
        /\ Contends(t, {p}, IF Busy({"trash"}) = {} THEN {} ELSE NoteId)
    BY <2>1 DEF Trash, Start
  <2>3. task'[t].name = IF trash[0] = None THEN 0 ELSE ops + 1
    BY <2>1, TrashStarts
  <2>4. trash[task'[t].name] = None
    <3>1. ops \in Nat /\ MaxOps \in Nat /\ ops + 1 \in 0..MaxOps
      BY <2>2, VaultAssumption DEF Typed, TypeOK
    <3>2. ops + 1 \notin Names
      BY <3>1 DEF Numbered
    <3>3. QED
      BY <2>3, <3>1, <3>2 DEF Names
  <2>5. ASSUME NEW u \in Task \ {t}, task[u].kind = "trash"
        PROVE  NoteId \subseteq excused'
    <3>1. Busy({"trash"}) # {}
      BY <2>5 DEF Busy
    <3>2. QED
      BY <2>2, <3>1, ContendsExcuses
  <2>6. QED
    BY <2>2, <2>4, <2>5 DEF Binned
<1>8. CASE \E p \in Path, kind \in {"remove", "system"} : Remove(t, kind, p)
  BY <1>8, RemoveStarts, BinnedQuiet DEF Remove
<1>9. CASE \E p, q \in Path, kind \in {"rename", "move"} : Rename(t, kind, p, q)
  <2>1. PICK p \in Path, q \in Path, kind \in {"rename", "move"} : Rename(t, kind, p, q)
    BY <1>9
  <2>2. Becomes(t, kind, "rename", p, q, None)
    BY <2>1, MoveStarts DEF Rename
  <2>3. QED
    BY <2>1, <2>2, BinnedQuiet DEF Rename
<1>10. CASE \E m \in manifest : Restore(t, m)
  BY <1>10, UnbinStarts, BinnedQuiet DEF Restore
<1>11. CASE \E m \in manifest : Purge(t, m)
  <2>1. PICK m \in manifest : Purge(t, m)
    BY <1>11
  <2>2. trash' = [trash EXCEPT ![m.name] = None] /\ trash \in [0..MaxOps -> Maybe]
    BY <2>1 DEF Purge, Typed, TypeOK
  <2>3. QED
    BY <2>1, <2>2, UnbinStarts DEF Binned
<1>12. CASE Empty(t)
  BY <1>12, EmptyStarts DEF Empty, Binned
<1>13. QED
  BY <1>1, <1>2, <1>3, <1>4, <1>5, <1>6, <1>7, <1>8, <1>9, <1>10, <1>11, <1>12

\* A call that goes on or ends is at the trash already.
LEMMA GoesOnBinned ==
  ASSUME Typed, NEW t \in Task,
         \/ Load(t) \/ Swap(t) \/ Probe(t) \/ ReadOld(t) \/ KeepOld(t) \/ Write(t)
         \/ DoRename(t) \/ Renamed(t) \/ Bin(t) \/ List(t) \/ Note(t) \/ DoRemove(t) \/ DropVersions(t)
         \/ Unbin(t) \/ Unlist(t) \/ Clear(t)
         \/ \E p \in Path : FreeName(t, p)
  PROVE  Binned(t)
<1> USE DEF bin, Becomes, Reaches, Finishes
<1>1. CASE Load(t)
  BY <1>1, LoadIs, BinnedQuiet DEF Load
<1>2. CASE Swap(t)
  BY <1>2, SwapIs, BinnedQuiet DEF Swap
<1>3. CASE Probe(t)
  <2>1. Reaches(t, "write") \/ Reaches(t, "read")
    BY <1>3, GoIs DEF Probe
  <2>2. QED
    BY <1>3, <2>1, BinnedQuiet DEF Probe
<1>4. CASE ReadOld(t)
  BY <1>4, ReadOldIs, StageIs, BinnedQuiet DEF ReadOld
<1>5. CASE KeepOld(t)
  BY <1>5, GoIs, BinnedQuiet DEF KeepOld
<1>6. CASE Write(t)
  <2>1. task'[t].at # "bin" /\ task'[t].kind # "trash"
    BY <1>6, WriteIs DEF Opens
  <2>2. QED
    BY <1>6, <2>1, BinnedQuiet DEF Write
<1>7. CASE DoRename(t)
  <2>1. Finishes(t) \/ Reaches(t, "renamed")
    BY <1>7, GoIs, DoneIs DEF DoRename
  <2>2. QED
    BY <1>7, <2>1, BinnedQuiet DEF DoRename
<1>8. CASE Renamed(t)
  <2>1. task'[t].at # "bin" /\ task'[t].kind # "trash"
    BY <1>8, RenamedIs DEF Opens
  <2>2. QED
    BY <1>8, <2>1, BinnedQuiet DEF Renamed
<1>9. CASE Bin(t)
  <2>1. task[t].at = "bin" /\ task[t].kind = "trash"
    BY <1>9, StageIs DEF Bin
  <2>2. Finishes(t) \/ Reaches(t, "list")
    BY <1>9, GoIs, DoneIs DEF Bin
  <2>3. QED
    BY <2>1, <2>2 DEF Binned
<1>10. CASE List(t)
  <2>1. trash' = trash
    BY <1>10 DEF List
  <2>2. QED
    BY <1>10, <2>1, ListIs, BinnedQuiet
<1>11. CASE Note(t)
  BY <1>11, DoneIs, BinnedQuiet DEF Note
<1>12. CASE DoRemove(t)
  <2>1. Finishes(t) \/ Reaches(t, "drop")
    BY <1>12, GoIs, DoneIs DEF DoRemove
  <2>2. QED
    BY <1>12, <2>1, BinnedQuiet DEF DoRemove
<1>13. CASE DropVersions(t)
  BY <1>13, DoneIs, BinnedQuiet DEF DropVersions
<1>14. CASE Unbin(t)
  <2>1. task[t].kind = "unbin"
    BY <1>14, StageIs DEF Unbin
  <2>2. Finishes(t) \/ Reaches(t, "unlist")
    BY <1>14, GoIs, DoneIs DEF Unbin
  <2>3. trash' = trash \/ trash' = [trash EXCEPT ![task[t].name] = None]
    BY <1>14 DEF Unbin
  <2>4. \A n \in 0..MaxOps : trash'[n] \in {trash[n], None}
    BY <2>3 DEF Typed, TypeOK
  <2>5. QED
    BY <2>1, <2>2, <2>4 DEF Binned
<1>15. CASE Unlist(t) \/ Clear(t)
  BY <1>15, DoneIs, BinnedQuiet DEF Unlist, Clear
<1>16. CASE \E p \in Path : FreeName(t, p)
  BY <1>16, FreeNameIs, BinnedQuiet DEF FreeName
<1>17. QED
  BY <1>1, <1>2, <1>3, <1>4, <1>5, <1>6, <1>7, <1>8, <1>9, <1>10, <1>11, <1>12, <1>13, <1>14, <1>15, <1>16

\* A step of a call takes a name in the trash that is free.
LEMMA BinnedSteps ==
  ASSUME Typed, Numbered, NEW t \in Task, Steps(t)
  PROVE  Binned(t)
BY StartsBinned, GoesOnBinned DEF Steps

\* A step of a call keeps what the calls hold.
LEMMA HandSteps ==
  ASSUME Typed, Numbered, BornInv, HandInv, NEW t \in Task, Steps(t)
  PROVE  HandInv'
<1>1. Beside(t) /\ Binned(t) /\ \A u \in Task \ {t} : Same(u)
  BY BesideSteps, BinnedSteps, WithinSteps DEF Within
<1>2. excused \subseteq excused'
  BY <1>1 DEF Beside
<1>3. dirty' # None => dirty # None /\ text' = text
  BY <1>1 DEF Beside
<1>4. ASSUME NEW u \in Task
      PROVE  task'[u].fresh => task'[u].kind = "save" /\ task'[u].body = text'
  BY <1>1 DEF HandInv, HandsOn, Beside, Same
<1>5. ASSUME NEW u \in Task
      PROVE  task'[u].kind = "open" => dirty' = None \/ text'.of \in excused'
  <2>1. CASE u = t
    BY <1>1, <1>2, <1>3, <2>1 DEF HandInv, HandsOn, Beside
  <2>2. CASE u # t
    BY <1>1, <1>2, <1>3, <2>2 DEF HandInv, HandsOn, Same
  <2>3. QED
    BY <2>1, <2>2
<1>6. ASSUME NEW u \in Task
      PROVE  task'[u].at = "bin" => trash'[task'[u].name] = None \/ NoteId \subseteq excused'
  <2>1. CASE u = t
    BY <1>1, <2>1 DEF Binned
  <2>2. CASE u # t /\ task[u].at = "bin"
    <3>1. task[u].kind = "trash" /\ task[u].name \in 0..MaxOps
      BY <2>2, StageIs DEF Typed, TypeOK, Call
    <3>2. trash[task[u].name] = None \/ NoteId \subseteq excused
      BY <2>2 DEF HandInv, HandsOn
    <3>3. CASE task[t].at = "bin"
      <4>1. task[t].kind = "trash"
        BY <3>3, StageIs
      <4>2. NoteId \subseteq excused
        BY <2>2, <3>1, <4>1 DEF HandInv, TwoBins
      <4>3. QED
        BY <1>2, <4>2
    <3>4. CASE task[t].at # "bin"
      BY <1>1, <1>2, <2>2, <3>1, <3>2, <3>4 DEF Binned, Same
    <3>5. QED
      BY <3>3, <3>4
  <2>3. CASE u # t /\ task[u].at # "bin"
    BY <1>1, <2>3 DEF Same
  <2>4. QED
    BY <2>1, <2>2, <2>3
<1>7. TwoBins'
  <2>1. SUFFICES ASSUME NEW a \in Task, NEW u \in Task \ {a}, task'[a].kind = "trash", task'[u].kind = "trash"
                 PROVE  NoteId \subseteq excused'
    BY DEF TwoBins
  <2>2. CASE task[a].kind = "trash" /\ task[u].kind = "trash"
    BY <1>2, <2>2 DEF HandInv, TwoBins
  <2>3. CASE a = t /\ task[a].kind # "trash"
    BY <1>1, <2>1, <2>3 DEF Binned, Same
  <2>4. CASE u = t /\ task[u].kind # "trash"
    BY <1>1, <2>1, <2>4 DEF Binned, Same
  <2>5. QED
    BY <1>1, <2>1, <2>2, <2>3, <2>4 DEF Same
<1>8. Newest'
  BY <1>1, <1>3 DEF HandInv, Newest, Last, Beside
<1>9. QED
  BY <1>4, <1>5, <1>6, <1>7, <1>8 DEF HandInv, HandsOn

\* Every step does.
LEMMA HandStep == Typed /\ Numbered /\ BornInv /\ HandInv /\ [Next]_vars => HandInv'
<1> SUFFICES ASSUME Typed, Numbered, BornInv, HandInv, [Next]_vars
             PROVE  HandInv'
  OBVIOUS
<1>1. CASE \E t \in Task : Steps(t)
  BY <1>1, HandSteps
<1>2. CASE Edit
  <2>1. \A u \in Task : Same(u) /\ task'[u].fresh = FALSE
    BY <1>2, EditIs
  <2>2. trash' = trash /\ excused' = IF Busy({"open"}) = {} THEN excused ELSE excused \cup {text.of}
    BY <1>2 DEF Edit, bin
  <2>3. text'.of = text.of
    BY <1>2 DEF Edit, Typed, TypeOK, Maybe, Text
  <2>4. ASSUME NEW u \in Task, task[u].kind = "open"
        PROVE  text.of \in excused'
    <3>1. u \in Busy({"open"})
      BY <2>4 DEF Busy
    <3>2. QED
      BY <2>2, <3>1
  <2>5. Newest'
    <3>1. text # None /\ text' # None /\ text \in Text
      BY <1>2, EditorTyped, NoneApart DEF Edit, Typed, TypeOK, Maybe
    <3>2. text.of \in DOMAIN typed
      BY <3>1 DEF BornInv, Old
    <3>3. text'.rev = edits + 1 /\ typed'[text.of] = edits + 1 /\ DOMAIN typed' = DOMAIN typed
      BY <1>2, <3>1, <3>2 DEF Edit, Text
    <3>4. QED
      BY <2>3, <3>1, <3>2, <3>3 DEF Newest, Last
  <2>6. QED
    BY <2>1, <2>2, <2>3, <2>4, <2>5 DEF HandInv, HandsOn, TwoBins, Same
<1>3. CASE TimerIdle \/ CloseNote \/ (\E p \in Path : Elapse(p)) \/ UNCHANGED vars
  <2>1. task' = task /\ UNCHANGED <<text, dirty, trash, typed>> /\ excused \subseteq excused'
    BY <1>3 DEF TimerIdle, CloseNote, Elapse, vars, files, bin, editor, history
  <2>2. QED
    BY <2>1 DEF HandInv, HandsOn, TwoBins, Newest, Last
<1>4. CASE Crash
  <2>1. dirty' = None /\ \A u \in Task : task'[u].kind = "none" /\ task'[u].at = "done" /\ task'[u].fresh = FALSE
    BY <1>4 DEF Crash, NoTask
  <2>2. QED
    BY <2>1 DEF HandInv, HandsOn, TwoBins, Newest
<1>5. QED
  BY <1>1, <1>2, <1>3, <1>4, NextIs

\* No call is under way at first.
LEMMA InitHand == Init => HandInv
<1> SUFFICES ASSUME Init
             PROVE  HandInv
  OBVIOUS
<1>1. dirty = None /\ \A u \in Task : task[u].kind = "none" /\ task[u].at = "done" /\ task[u].fresh = FALSE
  BY DEF Init, NoTask
<1>2. QED
  BY <1>1 DEF HandInv, HandsOn, TwoBins, Newest

-----------------------------------------------------------------------------
\* Where a text can be.
InFiles(x) == \E p \in Path : disk[p] = x
InVersions(x) == \E p \in Path : Has(versions[p], x)
InTrash(x) == \E n \in 0..MaxOps : trash[n] = x
InCalls(x) == \E t \in Task : task[t].body = x
InEditor(x) == text = x /\ dirty # None
Held(x) == InFiles(x) \/ InVersions(x) \/ InTrash(x) \/ InCalls(x) \/ InEditor(x)
Counts(p) == lineage[p] \notin excused \cup {None}

\* Two calls on one path put what is there at risk.
Alone(t, u) == \A p \in Touches(t) \cap Touches(u) : ~Counts(p)

\* One call: what it is to remove is given up; if a file has the last edit, then so has the save that
\* is to replace it, what was read of it, and the editor, if it shows the file and the file moves; and
\* the file that a restored version replaces was kept.
Removing(t) == task[t].kind \in {"remove", "system"} => Below(task[t].path) \subseteq excused
Backed(t) ==
  LET p == task[t].path IN
  Saver(t) /\ Counts(p) =>
    /\ Last(disk[p]) => task[t].body = disk[p]
    /\ p = active /\ Last(task[t].body) => text = task[t].body
Swaps(t) == task[t].at = "swap" /\ Counts(task[t].to) => task[t].held = disk[task[t].to]
Carries(t) ==
  LET p == IF task[t].at = "rename" THEN task[t].path ELSE task[t].to IN
  task[t].kind \in Moving /\ Shows(t) /\ Counts(p) /\ Last(disk[p]) => text = disk[p]
Stores(t) ==
  LET p == task[t].path IN
  task[t].kind = "restore" /\ Counts(p) =>
    /\ task[t].at = "keep" => task[t].held = disk[p]
    /\ task[t].at = "write" /\ Last(disk[p]) => Has(versions[p], disk[p])
Careful(t) == Removing(t) /\ Backed(t) /\ Swaps(t) /\ Carries(t) /\ Stores(t)

\* The editor shows the last edit of its note, if the file has it and is not about to be read again.
Current ==
  active # None /\ Counts(active) /\ lineage[active] = text.of /\ ~OpensActive
    => (Last(disk[active]) => text = disk[active])
Safe == \A l \in DOMAIN typed \ excused : \E x \in Text : x.of = l /\ Last(x) /\ Held(x)
Guarded ==
  /\ Current /\ Safe
  /\ \A t \in Task : Careful(t) /\ \A u \in Task \ {t} : Alone(t, u)

\* The last edits stay the last with a step of a call.
LEMMA LastStays ==
  ASSUME BornInv, NEW t \in Task, Beside(t)
  PROVE  \A x : Old(x) => (Last(x)' <=> Last(x))
BY DEF Beside, Old, Last

\* What counts after a step of a call did so before, if its path is the same note's.
LEMMA CountsBefore ==
  ASSUME NEW t \in Task, Beside(t), NEW p, lineage'[p] = lineage[p], Counts(p)'
  PROVE  Counts(p)
BY DEF Beside, Counts

\* Unsaved edits are the last text of their note.
LEMMA LastShown ==
  ASSUME Typed, HandInv, dirty \in Path, NEW x \in Text, x.of = text.of, Last(x)
  PROVE  text = x
<1>1. text \in Text
  BY NoneApart DEF Typed, TypeOK, Maybe
<1>2. Last(text)
  BY NoneApart DEF HandInv, Newest
<1>3. text.of = x.of /\ text.rev = x.rev
  BY <1>2 DEF Last
<1>4. QED
  BY <1>1, <1>3 DEF Text

\* The editor shows another text only when it shows what a call has read.
LEMMA TextStays ==
  ASSUME NEW t \in Task, Steps(t)
  PROVE  text' = text \/ Swap(t)
BY DEF Steps, TimerFires, SaveNow, Load, Probe, ReadOld, KeepOld, Write, RestoreVersion, DoRename, Renamed,
       Bin, List, Note, DoRemove, DropVersions, Unbin, Unlist, Empty, Clear, CreateNote, DuplicateNote,
       FreeName, OpenNote, Trash, Remove, Rename, Restore, Purge, editor

\* At the path of another call that counts, a step changes nothing.
LEMMA Untouched ==
  ASSUME Typed, BornInv, Noted, Guarded, NEW t \in Task, Within(t), Beside(t), NEW u \in Task \ {t},
         NEW p \in Path, p \in Touches(u), Counts(p)'
  PROVE  /\ Counts(p) /\ lineage'[p] = lineage[p] /\ p \notin Touches(t)
         /\ disk'[p] = disk[p] /\ versions'[p] = versions[p]
<1>1. lineage'[p] = lineage[p]
  BY Bystanders
<1>2. Counts(p)
  BY <1>1, CountsBefore
<1>3. p \notin Touches(t)
  BY <1>2 DEF Guarded, Alone
<1>4. QED
  BY <1>1, <1>2, <1>3 DEF Within, Beside

\* The other calls stay careful, ...
LEMMA CarefulBystanders ==
  ASSUME Typed, BornInv, Noted, Guarded, NEW t \in Task, Steps(t), NEW u \in Task \ {t}
  PROVE  Careful(u)'
<1>k. PICK k : k = task[u]
  OBVIOUS
<1>1. /\ Within(t) /\ Beside(t) /\ Same(u) /\ excused \subseteq excused'
      /\ task'[u].path = k.path /\ task'[u].to = k.to /\ task'[u].body = k.body /\ task'[u].held = k.held
      /\ task'[u].kind = k.kind /\ task'[u].at = k.at
  BY <1>k, WithinSteps, BesideSteps DEF Within, Beside, Same
<1>2. Careful(u)
  BY DEF Guarded
<1>3. \A x : Old(x) => (Last(x)' <=> Last(x))
  BY <1>1, LastStays
<1>4. \A p \in Path : Old(disk[p])
  BY DEF BornInv
<1>5. Old(k.body)
  BY <1>k DEF BornInv, OldCall
<1>6. Removing(u)'
  <2>1. SUFFICES ASSUME k.kind \in {"remove", "system"}
                 PROVE  Below(task[u].path)' \subseteq excused'
    BY <1>1 DEF Removing
  <2>2. k.path \in Path /\ k.path \notin Touches(t)
    BY <1>k, <2>1, StageIs, NoneApart DEF Noted, Pair, Taking, Touches
  <2>3. disk'[k.path] = disk[k.path] /\ versions'[k.path] = versions[k.path]
    BY <1>1, <2>2 DEF Within, Beside
  <2>4. Below(task[u].path)' = Below(k.path)
    BY <1>1, <2>3 DEF Below
  <2>5. QED
    BY <1>k, <1>1, <1>2, <2>1, <2>4 DEF Careful, Removing
<1>7. Backed(u)'
  <2>1. SUFFICES ASSUME Saver(u)', Counts(k.path)'
                 PROVE  /\ Last(disk[k.path])' => k.body = disk'[k.path]
                        /\ k.path = active' /\ Last(k.body)' => text' = k.body
    BY <1>1 DEF Backed
  <2>2. Saver(u) /\ k.path \in Path /\ k.path \in Touches(u)
    BY <1>k, <1>1, <2>1, StageIs, NoneApart DEF Saver, Touches
  <2>3. Counts(k.path) /\ k.path \notin Touches(t) /\ disk'[k.path] = disk[k.path]
    BY <1>1, <2>1, <2>2, Untouched
  <2>4. /\ Last(disk[k.path]) => k.body = disk[k.path]
        /\ k.path = active /\ Last(k.body) => text = k.body
    BY <1>k, <1>2, <2>2, <2>3 DEF Careful, Backed
  <2>5. /\ Last(disk[k.path])' <=> Last(disk[k.path])
        /\ Last(k.body)' <=> Last(k.body)
    BY <1>3, <1>4, <1>5, <2>2, <2>3 DEF Last
  <2>6. k.path = active' => active' = active /\ text' = text
    <3>1. active' \in {active, None} \/ active' \in Touches(t)
      BY <1>1 DEF Within
    <3>2. text' = text \/ active' \in Touches(t)
      BY TextStays, SwapIs, NoneApart DEF Swap, Touches
    <3>3. QED
      BY <2>2, <2>3, <3>1, <3>2, NoneApart
  <2>7. QED
    BY <2>3, <2>4, <2>5, <2>6
<1>8. Swaps(u)'
  <2>1. SUFFICES ASSUME k.at = "swap", Counts(k.to)'
                 PROVE  k.held = disk'[k.to]
    BY <1>1 DEF Swaps
  <2>2. k.to \in Path /\ k.to \in Touches(u)
    BY <1>k, <2>1, StageIs, NoneApart DEF Touches
  <2>3. QED
    BY <1>k, <1>1, <1>2, <2>1, <2>2, Untouched DEF Careful, Swaps
<1>9. Carries(u)'
  <2> DEFINE p == IF k.at = "rename" THEN k.path ELSE k.to
  <2>1. SUFFICES ASSUME k.kind \in Moving, Shows(u)', Counts(p)', Last(disk[p])'
                 PROVE  text' = disk'[p]
    BY <1>1 DEF Carries
  <2>2. p \in Path /\ p \in Touches(u) /\ k.path \in Path
    BY <1>k, <2>1, StageIs, NoneApart DEF Touches
  <2>3. text' = text /\ active' \in {active, None}
    BY <1>k, <1>1, <2>1 DEF Within, Noted, Pair
  <2>7. Shows(u)
    BY <1>k, <1>1, <2>1, <2>2, <2>3, NoneApart DEF Shows
  <2> HIDE DEF p
  <2>4. Counts(p) /\ disk'[p] = disk[p]
    BY <1>1, <2>1, <2>2, Untouched
  <2>5. Last(disk[p])
    BY <1>3, <1>4, <2>1, <2>2, <2>4 DEF Last
  <2>6. QED
    BY <1>k, <1>2, <2>1, <2>3, <2>4, <2>5, <2>7 DEF Careful, Carries, p
<1>10. Stores(u)'
  <2>1. SUFFICES ASSUME k.kind = "restore", Counts(k.path)'
                 PROVE  /\ k.at = "keep" => k.held = disk'[k.path]
                        /\ k.at = "write" /\ Last(disk[k.path])' => Has(versions'[k.path], disk'[k.path])
    BY <1>1 DEF Stores, Has
  <2>2. k.path \in Path /\ k.path \in Touches(u)
    BY <1>k, <2>1, StageIs, NoneApart DEF Touches
  <2>3. Counts(k.path) /\ disk'[k.path] = disk[k.path] /\ versions'[k.path] = versions[k.path]
    BY <1>1, <2>1, <2>2, Untouched
  <2>4. Last(disk[k.path])' <=> Last(disk[k.path])
    BY <1>3, <1>4, <2>2, <2>3 DEF Last
  <2>5. QED
    BY <1>k, <1>2, <2>1, <2>3, <2>4 DEF Careful, Stores
<1>11. QED
  BY <1>6, <1>7, <1>8, <1>9, <1>10 DEF Careful

-----------------------------------------------------------------------------
\* A step of the call of t goes to no path that it was not at, or contends for all its paths.
Nears(t) ==
  \/ Touches(t)' \subseteq Touches(t)
  \/ \E ps, lost : Contends(t, ps, lost) /\ Touches(t)' \subseteq ps

\* To contend for all paths of the call is enough.
LEMMA NearsFor ==
  ASSUME NEW t \in Task, NEW ps, NEW lost, Contends(t, ps, lost), Touches(t)' \subseteq ps
  PROVE  Nears(t)
BY DEF Nears

\* The call that a note is opened with is at that note and at the one that is saved first.
LEMMA OpensTouches ==
  ASSUME NEW t \in Task, NEW d, NEW p, Opens(t, d, p)
  PROVE  Touches(t)' \subseteq {p, d} \ {None}
BY DEF Opens, Becomes, Touches

\* A call that starts, ...
LEMMA StartsNear ==
  ASSUME Typed, NEW t \in Task,
         \/ TimerFires(t) \/ SaveNow(t) \/ (\E p \in Path : RestoreVersion(t, p))
         \/ \E p \in Path : CreateNote(t, p) \/ DuplicateNote(t, p)
         \/ \E p \in Path : OpenNote(t, p) \/ Trash(t, p)
         \/ \E p \in Path, kind \in {"remove", "system"} : Remove(t, kind, p)
         \/ \E p, q \in Path, kind \in {"rename", "move"} : Rename(t, kind, p, q)
         \/ \E m \in manifest : Restore(t, m) \/ Purge(t, m)
         \/ Empty(t)
  PROVE  Nears(t)
<1> USE DEF Becomes, Touches
<1>1. CASE TimerFires(t)
  BY <1>1, SaveStarts, NearsFor DEF TimerFires
<1>2. CASE SaveNow(t)
  BY <1>2, SaveStarts, NearsFor DEF SaveNow
<1>3. CASE \E p \in Path : RestoreVersion(t, p)
  <2>1. PICK p \in Path : RestoreVersion(t, p)
    BY <1>3
  <2>2. Touches(t)' \subseteq {p}
    BY <2>1, RestoreStarts
  <2>3. QED
    BY <2>1, <2>2, NearsFor DEF RestoreVersion
<1>4. CASE \E p \in Path : CreateNote(t, p)
  BY <1>4, MakeStarts, NearsFor DEF CreateNote
<1>5. CASE \E p \in Path : DuplicateNote(t, p)
  BY <1>5, MakeStarts DEF Nears
<1>6. CASE \E p \in Path : OpenNote(t, p)
  <2>1. PICK p \in Path : OpenNote(t, p)
    BY <1>6
  <2>2. Touches(t)' \subseteq {p, dirty} \ {None}
    BY <2>1, OpenStarts, OpensTouches
  <2>3. QED
    BY <2>1, <2>2, NearsFor DEF OpenNote
<1>7. CASE \E p \in Path : Trash(t, p)
  BY <1>7, TrashStarts, NearsFor DEF Trash
<1>8. CASE \E p \in Path, kind \in {"remove", "system"} : Remove(t, kind, p)
  BY <1>8, RemoveStarts, NearsFor DEF Remove
<1>9. CASE \E p, q \in Path, kind \in {"rename", "move"} : Rename(t, kind, p, q)
  <2>1. PICK p \in Path, q \in Path, kind \in {"rename", "move"} : Rename(t, kind, p, q)
    BY <1>9
  <2>2. task'[t].path = p /\ task'[t].to = q
    BY <2>1, MoveStarts DEF Rename
  <2>3. Contends(t, {p, q}, {}) /\ Touches(t)' \subseteq {p, q}
    BY <2>1, <2>2 DEF Rename
  <2>4. QED
    BY <2>3, NearsFor
<1>10. CASE \E m \in manifest : Restore(t, m)
  BY <1>10, UnbinStarts, NearsFor DEF Restore
<1>11. CASE \E m \in manifest : Purge(t, m)
  BY <1>11, UnbinStarts DEF Nears
<1>12. CASE Empty(t)
  BY <1>12, EmptyStarts DEF Nears
<1>13. QED
  BY <1>1, <1>2, <1>3, <1>4, <1>5, <1>6, <1>7, <1>8, <1>9, <1>10, <1>11, <1>12

\* ... and one that goes on or ends.
LEMMA GoesOnNear ==
  ASSUME Typed, NEW t \in Task,
         \/ Load(t) \/ Swap(t) \/ Probe(t) \/ ReadOld(t) \/ KeepOld(t) \/ Write(t)
         \/ DoRename(t) \/ Renamed(t) \/ Bin(t) \/ List(t) \/ Note(t) \/ DoRemove(t) \/ DropVersions(t)
         \/ Unbin(t) \/ Unlist(t) \/ Clear(t)
         \/ \E p \in Path : FreeName(t, p)
  PROVE  Nears(t)
<1> USE DEF Becomes, Reaches, Finishes, Touches
<1>1. ASSUME Finishes(t) \/ \E s : Reaches(t, s)
      PROVE  Nears(t)
  BY <1>1 DEF Nears
<1>2. CASE Load(t)
  BY <1>2, LoadIs DEF Nears
<1>3. CASE Swap(t)
  BY <1>1, <1>3, SwapIs
<1>4. CASE Probe(t)
  BY <1>1, <1>4, GoIs DEF Probe
<1>5. CASE ReadOld(t)
  BY <1>5, ReadOldIs DEF Nears
<1>6. CASE KeepOld(t)
  BY <1>1, <1>6, GoIs DEF KeepOld
<1>7. CASE Write(t)
  <2>1. CASE Finishes(t)
    BY <1>1, <2>1
  <2>2. CASE Becomes(t, "open", "load", None, task[t].to, None)
    BY <2>2 DEF Nears
  <2>3. CASE Opens(t, dirty, task[t].path) /\ Contends(t, {task[t].path, dirty} \ {None}, Unflushed)
    <3>1. Touches(t)' \subseteq {task[t].path, dirty} \ {None}
      BY <2>3, OpensTouches
    <3>2. QED
      BY <2>3, <3>1, NearsFor
  <2>4. QED
    BY <1>7, <2>1, <2>2, <2>3, WriteIs
<1>8. CASE DoRename(t)
  BY <1>1, <1>8, GoIs, DoneIs DEF DoRename
<1>9. CASE Renamed(t)
  <2>1. CASE Finishes(t)
    BY <1>1, <2>1
  <2>2. CASE Opens(t, Moved(t), task[t].to) /\ Contends(t, {Moved(t), task[t].to} \ {None}, Unflushed)
    <3>1. Touches(t)' \subseteq {Moved(t), task[t].to} \ {None}
      BY <2>2, OpensTouches
    <3>2. QED
      BY <2>2, <3>1, NearsFor
  <2>3. QED
    BY <1>9, <2>1, <2>2, RenamedIs
<1>10. CASE Bin(t)
  BY <1>1, <1>10, GoIs, DoneIs DEF Bin
<1>11. CASE List(t)
  BY <1>11, ListIs DEF Nears
<1>12. CASE Note(t) \/ DropVersions(t) \/ Unlist(t) \/ Clear(t)
  BY <1>1, <1>12, DoneIs DEF Note, DropVersions, Unlist, Clear
<1>13. CASE DoRemove(t)
  BY <1>1, <1>13, GoIs, DoneIs DEF DoRemove
<1>14. CASE Unbin(t)
  BY <1>1, <1>14, GoIs, DoneIs DEF Unbin
<1>15. CASE \E p \in Path : FreeName(t, p)
  <2>1. PICK p \in Path : FreeName(t, p)
    BY <1>15
  <2>2. Touches(t)' \subseteq {p}
    BY <2>1, FreeNameIs
  <2>3. Contends(t, {p}, {})
    BY <2>1 DEF FreeName
  <2>4. QED
    BY <2>2, <2>3 DEF Nears
<1>16. QED
  BY <1>2, <1>3, <1>4, <1>5, <1>6, <1>7, <1>8, <1>9, <1>10, <1>11, <1>12, <1>13, <1>14, <1>15

\* Where another call is, nothing counts that the call of t is at.
LEMMA AloneSteps ==
  ASSUME Typed, BornInv, Noted, Guarded, NEW t \in Task, Steps(t), NEW u \in Task \ {t}
  PROVE  Alone(t, u)' /\ Alone(u, t)'
<1>1. Within(t) /\ Beside(t) /\ Nears(t) /\ excused \subseteq excused'
  BY WithinSteps, BesideSteps, StartsNear, GoesOnNear DEF Steps, Beside
<1>2. Touches(u)' = Touches(u) /\ Touches(u) \subseteq Path
  <2>1. Touches(u) \subseteq Path
    BY DEF Touches, Typed, TypeOK, Call
  <2>2. QED
    BY <1>1, <2>1, Bystanders
<1>3. ASSUME NEW p \in Touches(t)', p \in Touches(u)
      PROVE  ~Counts(p)'
  <2>1. lineage'[p] = lineage[p]
    BY <1>1, <1>3, Bystanders
  <2>2. CASE Touches(t)' \subseteq Touches(t)
    <3>1. ~Counts(p)
      BY <1>3, <2>2 DEF Guarded, Alone
    <3>2. QED
      BY <1>1, <2>1, <3>1, CountsBefore
  <2>3. CASE \E ps, lost : Contends(t, ps, lost) /\ Touches(t)' \subseteq ps
    <3>1. PICK ps, lost : Contends(t, ps, lost) /\ Touches(t)' \subseteq ps
      BY <2>3
    <3>2. p \in ps
      BY <1>3, <3>1
    <3>3. lineage[p] \in excused' \cup {None}
      BY <1>3, <3>1, <3>2, ContendsExcuses
    <3>4. QED
      BY <2>1, <3>3 DEF Counts
  <2>4. QED
    BY <1>1, <2>2, <2>3 DEF Nears
<1>4. QED
  BY <1>2, <1>3 DEF Alone

\* Two other calls stay as they are.
LEMMA AloneBystanders ==
  ASSUME Typed, BornInv, Noted, Guarded, NEW t \in Task, Steps(t), NEW u \in Task \ {t}, NEW a \in Task \ {t, u}
  PROVE  Alone(a, u)'
<1>1. Within(t) /\ Beside(t)
  BY WithinSteps, BesideSteps
<1>2. Touches(u)' = Touches(u) /\ Touches(a)' = Touches(a) /\ \A p \in Touches(u) : lineage'[p] = lineage[p]
  BY <1>1, Bystanders
<1>3. ASSUME NEW p \in Touches(a), p \in Touches(u)
      PROVE  ~Counts(p)'
  <2>1. ~Counts(p)
    BY <1>3 DEF Guarded, Alone
  <2>2. QED
    BY <1>1, <1>2, <1>3, <2>1, CountsBefore
<1>4. QED
  BY <1>2, <1>3 DEF Alone

-----------------------------------------------------------------------------
\* A step that leaves the editor and what it shows alone, or takes the file away.
LEMMA CurrentStays ==
  ASSUME Typed, BornInv, Guarded, NEW t \in Task, Beside(t), active' = active, text' = text,
         active # None =>
           /\ lineage'[active] \in {lineage[active], None} /\ disk'[active] \in {disk[active], None}
           /\ OpensActive => OpensActive' \/ disk'[active] = None
  PROVE  Current'
<1>1. SUFFICES ASSUME active # None, Counts(active)', lineage'[active] = text.of, ~OpensActive', Last(disk[active])'
               PROVE  text = disk'[active]
  BY DEF Current
<1>2. lineage'[active] = lineage[active]
  BY <1>1 DEF Counts
<1>3. Counts(active)
  BY <1>1, <1>2 DEF Counts, Beside
<1>4. disk'[active] = disk[active] /\ ~OpensActive
  BY <1>1 DEF Last
<1>5. active \in Path
  BY <1>1 DEF Typed, TypeOK
<1>6. Last(disk[active])
  <2>1. Old(disk[active])
    BY <1>5 DEF BornInv
  <2>2. QED
    BY <1>1, <1>4, <2>1, LastStays DEF Last
<1>7. QED
  BY <1>1, <1>2, <1>3, <1>4, <1>6 DEF Guarded, Current

\* The same for a call that is not opening a note.
LEMMA CurrentBeside ==
  ASSUME Typed, BornInv, Guarded, NEW t \in Task, Beside(t), active' = active, text' = text, ~Opener(t),
         \A u \in Task \ {t} : Same(u),
         active # None =>
           lineage'[active] \in {lineage[active], None} /\ disk'[active] \in {disk[active], None}
  PROVE  Current'
BY OpensStays, CurrentStays

\* The steps that leave the files alone, and the editor but for its marks.
LEMMA CurrentQuiet ==
  ASSUME Typed, BornInv, Guarded, NEW t \in Task, Beside(t), \A u \in Task \ {t} : Same(u),
         \/ TimerFires(t) \/ SaveNow(t) \/ Probe(t) \/ ReadOld(t) \/ KeepOld(t) \/ (\E p \in Path : RestoreVersion(t, p))
         \/ List(t) \/ Unlist(t) \/ Empty(t) \/ Clear(t)
         \/ (\E p \in Path : CreateNote(t, p) \/ DuplicateNote(t, p) \/ FreeName(t, p))
         \/ (\E p \in Path : OpenNote(t, p) \/ Trash(t, p))
         \/ (\E p \in Path, kind \in {"remove", "system"} : Remove(t, kind, p))
         \/ (\E p, q \in Path, kind \in {"rename", "move"} : Rename(t, kind, p, q))
         \/ (\E m \in manifest : Restore(t, m) \/ Purge(t, m))
  PROVE  Current'
<1>1. UNCHANGED <<disk, lineage, active, text>>
  BY DEF TimerFires, SaveNow, Probe, ReadOld, KeepOld, RestoreVersion, List, Unlist, Empty, Clear, CreateNote,
         DuplicateNote, FreeName, OpenNote, Trash, Remove, Rename, Restore, Purge, editor, files, history
<1>2. task[t] = NoTask \/ task[t].at \in {"probe", "read", "keep", "list", "unlist", "clear", "names"}
  BY DEF TimerFires, SaveNow, Probe, ReadOld, KeepOld, RestoreVersion, List, Unlist, Empty, Clear, CreateNote,
         DuplicateNote, FreeName, OpenNote, Trash, Remove, Rename, Restore, Purge, Start
<1>3. ~Opener(t)
  BY <1>2 DEF Opener, NoTask
<1>4. QED
  BY <1>1, <1>3, CurrentBeside

\* What a note is read from is what is then shown.
LEMMA CurrentReads ==
  ASSUME Typed, BornInv, Noted, Guarded, NEW t \in Task, Beside(t), \A u \in Task \ {t} : Same(u),
         Load(t) \/ Swap(t)
  PROVE  Current'
<1>1. CASE Load(t)
  <2>1. UNCHANGED <<disk, lineage, active, text>>
    BY <1>1 DEF Load, files, editor, history
  <2>2. task[t].to \in Path /\ (disk[task[t].to] = None \/ Becomes(t, "open", "swap", task[t].path, task[t].to, task[t].body))
    BY <1>1, LoadIs
  <2>3. ASSUME active # None, OpensActive
        PROVE  OpensActive' \/ disk'[active] = None
    <3>1. PICK u \in Task : Opener(u) /\ task[u].to = active
      BY <2>3 DEF OpensActive
    <3>2. CASE u = t
      BY <2>1, <2>2, <3>1, <3>2 DEF OpensActive, Opener, Becomes
    <3>3. CASE u # t
      BY <2>1, <3>1, <3>3 DEF OpensActive, Opener, Same
    <3>4. QED
      BY <3>2, <3>3
  <2>4. QED
    BY <2>1, <2>3, CurrentStays
<1>2. CASE Swap(t)
  <2>1. /\ task[t].at = "swap" /\ active' = task[t].to /\ text' = task[t].held
        /\ UNCHANGED <<disk, lineage, excused>>
    BY <1>2 DEF Swap, files, history
  <2>2. Swaps(t)
    BY DEF Guarded, Careful
  <2>3. QED
    BY <2>1, <2>2 DEF Current, Swaps, Counts
<1>3. QED
  BY <1>1, <1>2

\* What is written where the editor shows a note is what it shows.
LEMMA CurrentWrite ==
  ASSUME Typed, BornInv, HandInv, Noted, Guarded, NEW t \in Task, Beside(t), \A u \in Task \ {t} : Same(u),
         Write(t)
  PROVE  Current'
<1>1. PICK p : p = task[t].path
  OBVIOUS
<1>2. /\ task[t].at = "write" /\ p \in Path /\ active' = active /\ text' = text
      /\ disk' = [disk EXCEPT ![p] = task[t].body]
  BY <1>1, WriteIs DEF Write
<1>3. \A q \in Path : q # p => disk'[q] = disk[q]
  BY <1>2 DEF Typed, TypeOK
<1>4. lineage' = lineage \/ lineage' = [lineage EXCEPT ![p] = task[t].body.of]
  BY <1>1, WriteIs
<1>5. \A q \in Path : q # p => lineage'[q] = lineage[q]
  BY <1>4 DEF Typed, TypeOK
<1>6. ~Opener(t)
  BY <1>2 DEF Opener
<1>7. CASE active # p
  <2>1. active \in Path \cup {None}
    BY DEF Typed, TypeOK
  <2>2. QED
    BY <1>2, <1>3, <1>5, <1>6, <1>7, <2>1, CurrentBeside
<1>8. CASE active = p /\ task[t].kind \in {"save", "open"}
  <2>1. Saver(t) /\ lineage' = lineage /\ disk'[p] = task[t].body
    BY <1>1, <1>2, <1>8, WriteIs DEF Saver, Writing, Typed, TypeOK, Making
  <2>2. SUFFICES ASSUME Counts(p)', Last(disk[p])'
                 PROVE  text = task[t].body
    BY <1>2, <1>8, <2>1 DEF Current
  <2>3. Counts(p)
    BY <2>1, <2>2, CountsBefore
  <2>4. Old(task[t].body)
    BY DEF BornInv, OldCall
  <2>5. Last(task[t].body)
    BY <2>1, <2>2, <2>4, LastStays DEF Last
  <2>6. QED
    BY <1>1, <1>8, <2>1, <2>3, <2>5 DEF Guarded, Careful, Backed
<1>9. CASE active = p /\ task[t].kind = "restore"
  <2>1. /\ Opens(t, dirty, p) /\ lineage' = [lineage EXCEPT ![p] = task[t].body.of] /\ task[t].body \in Text
        /\ lineage'[p] = task[t].body.of /\ disk'[p] = task[t].body
    BY <1>1, <1>2, <1>9, WriteIs DEF Making, Typed, TypeOK
  <2>2. CASE Becomes(t, "open", "load", None, p, None)
    <3>1. OpensActive'
      BY <1>2, <1>9, <2>2 DEF OpensActive, Opener, Becomes
    <3>2. QED
      BY <3>1 DEF Current
  <2>3. CASE dirty \in Path
    <3>1. SUFFICES ASSUME task[t].body.of = text.of, Last(disk[p])'
                   PROVE  text = task[t].body
      BY <1>2, <1>9, <2>1 DEF Current
    <3>2. Old(task[t].body)
      BY DEF BornInv, OldCall
    <3>3. Last(task[t].body)
      BY <2>1, <3>1, <3>2, LastStays DEF Last
    <3>4. QED
      BY <2>1, <2>3, <3>1, <3>3, LastShown
  <2>4. QED
    BY <2>1, <2>2, <2>3 DEF Opens
<1>10. CASE active = p /\ task[t].kind \in Making
  <2>1. Claims(t) /\ Target(t) = p
    BY <1>1, <1>2, <1>10, NoneApart DEF Claims, Target, Making, Moving
  <2>2. QED
    BY <1>10, <2>1 DEF Noted, Own, OwnClaim
<1>11. QED
  BY <1>1, <1>2, <1>7, <1>8, <1>9, <1>10, StageIs DEF Writing, Making

\* A note that is moved is shown with the path that it moves to, ...
LEMMA CurrentMoves ==
  ASSUME Typed, BornInv, Noted, Guarded, NEW t \in Task, Beside(t), \A u \in Task \ {t} : Same(u),
         DoRename(t) \/ Renamed(t)
  PROVE  Current'
<1>1. ~Opener(t)
  BY DEF DoRename, Renamed, Opener
<1>2. PICK p, q : p = task[t].path /\ q = task[t].to
  OBVIOUS
<1>3. CASE DoRename(t)
  <2>1. task[t].at = "rename" /\ task[t].kind \in Moving /\ p \in Path /\ q \in Path /\ UNCHANGED <<active, text>>
    BY <1>2, <1>3, StageIs DEF DoRename, editor
  <2>2. CASE UNCHANGED <<disk, lineage>>
    BY <1>1, <2>1, <2>2, CurrentBeside
  <2>3. CASE /\ disk' = [disk EXCEPT ![q] = disk[p], ![p] = None]
             /\ lineage' = [lineage EXCEPT ![q] = lineage[p], ![p] = None]
    <3>1. active # q
      BY <1>2, <2>1 DEF Noted, Own, OwnClaim, Claims, Target
    <3>2. \A a \in Path : a # q => lineage'[a] \in {lineage[a], None} /\ disk'[a] \in {disk[a], None}
      BY <2>1, <2>3 DEF Typed, TypeOK
    <3>4. active \in Path \cup {None}
      BY DEF Typed, TypeOK
    <3>3. QED
      BY <1>1, <2>1, <3>1, <3>2, <3>4, CurrentBeside
  <2>4. QED
    BY <1>2, <1>3, <2>2, <2>3 DEF DoRename
<1>4. CASE Renamed(t)
  <2>1. UNCHANGED <<disk, lineage, text>> /\ task[t].at = "renamed" /\ task[t].kind \in Moving /\ q \in Path
    BY <1>2, <1>4, RenamedIs DEF Renamed, files
  <2>2. CASE active' = active
    BY <1>1, <2>1, <2>2, CurrentBeside
  <2>3. CASE active' = q /\ task[t].kind = "rename"
    <3>1. SUFFICES ASSUME Counts(q)', Last(disk[q])'
                   PROVE  text = disk[q]
      BY <2>1, <2>3 DEF Current
    <3>2. Counts(q)
      BY <2>1, <3>1, CountsBefore
    <3>3. Last(disk[q])
      <4>1. Old(disk[q])
        BY <2>1 DEF BornInv
      <4>2. QED
        BY <2>1, <3>1, <4>1, LastStays DEF Last
    <3>4. QED
      BY <1>2, <2>1, <2>3, <3>2, <3>3 DEF Guarded, Careful, Carries, Shows
  <2>4. QED
    BY <1>2, <1>4, <2>2, <2>3, RenamedIs
<1>5. QED
  BY <1>3, <1>4

\* ... one that is taken away is at its path no more, and one that is put back is not shown yet.
LEMMA CurrentTakes ==
  ASSUME Typed, BornInv, Noted, Guarded, NEW t \in Task, Beside(t), \A u \in Task \ {t} : Same(u),
         Bin(t) \/ DoRemove(t) \/ Unbin(t) \/ Note(t) \/ DropVersions(t)
  PROVE  Current'
<1>1. ~Opener(t)
  BY DEF Bin, DoRemove, Unbin, Note, DropVersions, Opener
<1>2. PICK p : p = task[t].path
  OBVIOUS
<1>3. active \in Path \cup {None}
  BY DEF Typed, TypeOK
<1>4. CASE Note(t) \/ DropVersions(t)
  BY <1>4 DEF Note, DropVersions, Deleted, Current
<1>5. CASE Bin(t) \/ DoRemove(t)
  <2>1. UNCHANGED <<active, text>> /\ p \in Path
    BY <1>2, <1>5, StageIs DEF Bin, DoRemove, editor
  <2>2. CASE UNCHANGED <<disk, lineage>>
    BY <1>1, <2>1, <2>2, CurrentBeside
  <2>3. CASE /\ disk' = [disk EXCEPT ![p] = None]
             /\ lineage' = [lineage EXCEPT ![p] = None]
    <3>1. \A a \in Path : lineage'[a] \in {lineage[a], None} /\ disk'[a] \in {disk[a], None}
      BY <2>1, <2>3 DEF Typed, TypeOK
    <3>2. QED
      BY <1>1, <1>3, <2>1, <3>1, CurrentBeside
  <2>4. QED
    BY <1>2, <1>5, <2>2, <2>3 DEF Bin, DoRemove
<1>6. CASE Unbin(t)
  <2>1. UNCHANGED <<active, text>> /\ p \in Path /\ task[t].at = "unbin" /\ task[t].kind = "unbin"
    BY <1>2, <1>6, StageIs DEF Unbin, editor
  <2>2. active # p
    BY <1>2, <2>1 DEF Noted, Own, OwnClaim, Claims, Target, Moving
  <2>3. \A a \in Path : a # p => lineage'[a] = lineage[a] /\ disk'[a] = disk[a]
    BY <1>2, <1>6, <2>1 DEF Unbin, Typed, TypeOK
  <2>4. QED
    BY <1>1, <1>3, <2>1, <2>2, <2>3, CurrentBeside
<1>7. QED
  BY <1>4, <1>5, <1>6

\* Every step of a call keeps what is shown current.
LEMMA CurrentSteps ==
  ASSUME Typed, BornInv, HandInv, Noted, Guarded, NEW t \in Task, Steps(t)
  PROVE  Current'
<1>1. Beside(t) /\ \A u \in Task \ {t} : Same(u)
  BY BesideSteps, WithinSteps DEF Within
<1>2. QED
  BY <1>1, CurrentQuiet, CurrentReads, CurrentWrite, CurrentMoves, CurrentTakes DEF Steps

-----------------------------------------------------------------------------
\* A call that reads or counts has nothing to be careful of, ...
LEMMA CarefulIdle ==
  ASSUME NEW t \in Task, task'[t].at # "swap",
         task'[t].kind \notin {"save", "open", "restore", "remove", "system"} \cup Moving
  PROVE  Careful(t)'
BY DEF Careful, Removing, Backed, Swaps, Carries, Stores, Saver

\* ... and one that saves or opens, only of what it saves.
LEMMA CarefulSaves ==
  ASSUME NEW t \in Task, task'[t].kind \in {"save", "open"}, task'[t].at # "swap", Backed(t)'
  PROVE  Careful(t)'
BY DEF Careful, Removing, Swaps, Carries, Stores, Moving

\* What the editor shows is what its file has, if that is the last edit, for a call that contends for
\* its path.
LEMMA ShowsLast ==
  ASSUME Typed, BornInv, Noted, Guarded, NEW t \in Task, Beside(t), NEW ps, NEW lost, Contends(t, ps, lost),
         active' = active, active # None, active \in ps, ~Opener(t), lineage[active] = text.of, lineage'[active] = lineage[active],
         disk'[active] = disk[active], Counts(active)', Last(disk[active])'
  PROVE  text = disk[active]
<1>1. Counts(active)
  BY CountsBefore
<1>2. ~OpensActive
  <2>1. SUFFICES ASSUME NEW u \in Task, Opener(u), task[u].to = active
                 PROVE  FALSE
    BY DEF OpensActive
  <2>2. u \in Task \ {t} /\ active \in Touches(u)
    BY <2>1 DEF Touches
  <2>3. lineage[active] \in excused' \cup {None}
    BY <2>2, ContendsExcuses
  <2>4. QED
    BY <2>3 DEF Counts
<1>3. Last(disk[active])
  <2>1. active \in Path
    BY DEF Typed, TypeOK
  <2>2. Old(disk[active])
    BY <2>1 DEF BornInv
  <2>3. QED
    BY <2>2, LastStays DEF Last
<1>4. QED
  BY <1>1, <1>2, <1>3 DEF Guarded, Current

\* So a save of what the editor shows is backed.
LEMMA ShownBacked ==
  ASSUME Typed, BornInv, Noted, Noted', Guarded, NEW t \in Task, Beside(t), NEW ps, NEW lost, Contends(t, ps, lost),
         active' = active, active # None, active \in ps, ~Opener(t), lineage'[active] = lineage[active],
         disk'[active] = disk[active], task'[t].path = active, task'[t].body = text, text' = text
  PROVE  Backed(t)'
<1>1. SUFFICES ASSUME Saver(t)', Counts(active)', Last(disk[active])'
               PROVE  text = disk[active]
  BY DEF Backed
<1>2. lineage'[active] = text.of
  BY <1>1 DEF Noted, Own, OwnSaves
<1>3. QED
  BY <1>1, <1>2, ShowsLast

\* A save that goes on stays so.
LEMMA BackedGoesOn ==
  ASSUME Typed, BornInv, Guarded, NEW t \in Task, Beside(t), UNCHANGED <<disk, lineage, active, text>>,
         Saver(t)' => Saver(t), task'[t].path = task[t].path, task'[t].body = task[t].body
  PROVE  Backed(t)'
<1>1. PICK p, b : p = task[t].path /\ b = task[t].body
  OBVIOUS
<1>2. SUFFICES ASSUME Saver(t), Counts(p)'
               PROVE  /\ Last(disk[p])' => b = disk[p]
                      /\ p = active /\ Last(b)' => text = b
  BY <1>1 DEF Backed
<1>3. Counts(p) /\ p \in Path
  BY <1>1, <1>2, CountsBefore, StageIs DEF Saver
<1>4. Old(b) /\ Old(disk[p])
  BY <1>1, <1>3 DEF BornInv, OldCall
<1>5. Last(disk[p])' => Last(disk[p])
  BY <1>4, LastStays DEF Last
<1>6. Last(b)' => Last(b)
  BY <1>4, LastStays
<1>7. QED
  BY <1>1, <1>2, <1>3, <1>5, <1>6 DEF Guarded, Careful, Backed

\* A call that saves, restores or makes a note and goes on to write what it had to.
LEMMA WritingCareful ==
  ASSUME Typed, BornInv, Noted, Guarded, NEW t \in Task, Beside(t),
         Probe(t) \/ ReadOld(t) \/ KeepOld(t)
  PROVE  Careful(t)'
<1>1. PICK p, k : p = task[t].path /\ k = task[t].kind
  OBVIOUS
<1>2. /\ UNCHANGED <<disk, lineage, active, text>>
      /\ task[t].at \in Writing /\ p \in Path /\ k \in {"save", "open", "create", "copy", "restore"}
  BY <1>1, StageIs DEF Probe, ReadOld, KeepOld, editor, files, history, Writing
<1>3. /\ task'[t].at \notin {"swap", "remove", "drop", "rename", "renamed"}
      /\ \/ Finishes(t)
         \/ task'[t].path = p /\ task'[t].body = task[t].body /\ task'[t].kind = k
  <2>1. CASE Probe(t)
    BY <1>1, <2>1, GoIs DEF Probe, Reaches, Becomes
  <2>2. CASE ReadOld(t)
    BY <1>1, <2>2, ReadOldIs DEF Finishes, Becomes
  <2>3. CASE KeepOld(t)
    BY <1>1, <2>3, GoIs DEF KeepOld, Reaches, Becomes
  <2>4. QED
    BY <2>1, <2>2, <2>3
<1>4. CASE Finishes(t)
  BY <1>4, CarefulIdle DEF Finishes, Becomes, Moving
<1>5. CASE task'[t].path = p /\ task'[t].body = task[t].body /\ task'[t].kind = k
  <2>1. CASE k \in {"save", "open"}
    <3>1. Saver(t)
      BY <1>1, <1>2, <2>1 DEF Saver
    <3>2. Backed(t)'
      BY <1>1, <1>2, <1>5, <3>1, BackedGoesOn
    <3>3. QED
      BY <1>3, <1>5, <2>1, <3>2, CarefulSaves
  <2>2. CASE k \in Making
    BY <1>3, <1>5, <2>2, CarefulIdle DEF Making, Moving
  <2>3. CASE k = "restore"
    <3>1. Stores(t)'
      <4>1. SUFFICES ASSUME Counts(p)'
                     PROVE  /\ task'[t].at = "keep" => task'[t].held = disk[p]
                            /\ task'[t].at = "write" /\ Last(disk[p])' => Has(versions'[p], disk[p])
        BY <1>2, <1>5 DEF Stores, Has
      <4>2. Counts(p)
        BY <1>2, <4>1, CountsBefore
      <4>3. CASE Probe(t)
        <5>1. lineage[p] # None => p \notin recent
          BY <1>1, <2>3, <4>1, <4>3 DEF Probe, Counts
        <5>2. p \notin recent
          BY <4>2, <5>1 DEF Counts
        <5>3. (disk[p] = None /\ Reaches(t, "write")) \/ Reaches(t, "read")
          BY <1>1, <4>3, <5>2, GoIs DEF Probe
        <5>4. QED
          BY <1>2, <5>3 DEF Reaches, Becomes, Last
      <4>4. CASE ReadOld(t)
        BY <1>1, <4>4, ReadOldIs DEF Becomes, Finishes
      <4>5. CASE KeepOld(t)
        <5>1. task[t].held = disk[p] /\ task[t].at = "keep"
          BY <1>1, <2>3, <4>2, <4>5 DEF Guarded, Careful, Stores, KeepOld
        <5>2. Has(versions'[p], disk[p]) /\ Reaches(t, "write")
          BY <1>1, <4>5, <5>1, KeptIs, GoIs DEF KeepOld
        <5>3. QED
          BY <5>2 DEF Reaches, Becomes
      <4>6. QED
        BY <4>3, <4>4, <4>5
    <3>2. QED
      BY <1>3, <1>5, <2>3, <3>1 DEF Careful, Removing, Backed, Swaps, Carries, Saver, Moving
  <2>4. QED
    BY <1>2, <2>1, <2>2, <2>3 DEF Making
<1>6. QED
  BY <1>3, <1>4, <1>5

\* The contents of the editor are saved.
LEMMA SaveCareful ==
  ASSUME Typed, BornInv, Noted, Noted', Guarded, NEW t \in Task, Beside(t), TimerFires(t) \/ SaveNow(t)
  PROVE  Careful(t)'
<1>1. /\ active # None /\ Contends(t, {active}, {}) /\ UNCHANGED <<disk, lineage, active, text>>
      /\ \E b \in BOOLEAN : Start(t, Saving("save", active, b))
  BY DEF TimerFires, SaveNow, files, editor
<1>2. task[t].kind = "none" /\ Becomes(t, "save", "probe", active, None, text)
  BY <1>1, SaveStarts
<1>3. ~Opener(t)
  BY <1>2 DEF Opener
<1>4. Backed(t)'
  BY <1>1, <1>2, <1>3, ShownBacked DEF Becomes
<1>5. QED
  BY <1>2, <1>4, CarefulSaves DEF Becomes

\* A note is opened, with what the editor shows saved first.
LEMMA OpensCareful ==
  ASSUME NEW t \in Task, NEW d, NEW p, Opens(t, d, p), d \in Path /\ active # None => Backed(t)'
  PROVE  Careful(t)'
<1>1. task'[t].kind = "open" /\ task'[t].at # "swap" /\ (task'[t].at = "load" \/ (d \in Path /\ active # None))
  BY DEF Opens, Becomes
<1>2. CASE task'[t].at = "load"
  <2>1. Backed(t)'
    BY <1>2 DEF Backed, Saver, Writing
  <2>2. QED
    BY <1>1, <2>1, CarefulSaves
<1>3. QED
  BY <1>1, <1>2, CarefulSaves

\* openNote is such a call.
LEMMA OpenCareful ==
  ASSUME Typed, BornInv, Noted, Noted', Guarded, NEW t \in Task, Beside(t), NEW p \in Path, OpenNote(t, p)
  PROVE  Careful(t)'
<1>1. /\ Contends(t, {p, dirty} \ {None}, Unflushed) /\ UNCHANGED <<disk, lineage, active, text>>
  BY DEF OpenNote, files
<1>2. task[t].kind = "none" /\ Opens(t, dirty, p)
  BY OpenStarts
<1>3. ASSUME dirty \in Path, active # None
      PROVE  Backed(t)'
  <2>1. dirty = active /\ active \in {p, dirty} \ {None}
    BY <1>3, NoneApart DEF Noted, DirtyActive
  <2>2. task'[t].path = active /\ task'[t].body = text
    BY <1>2, <1>3, <2>1 DEF Opens, Becomes
  <2>3. ~Opener(t)
    BY <1>2 DEF Opener
  <2>4. QED
    BY <1>1, <1>3, <2>1, <2>2, <2>3, ShownBacked
<1>4. QED
  BY <1>2, <1>3, OpensCareful

\* A restored version is written, or a new note, and then opened.
LEMMA WriteCareful ==
  ASSUME Typed, BornInv, HandInv, Noted, Noted', Guarded, NEW t \in Task, Beside(t), Write(t)
  PROVE  Careful(t)'
<1>1. PICK p : p = task[t].path
  OBVIOUS
<1>2. /\ task[t].at = "write" /\ p \in Path /\ task[t].body \in Text /\ UNCHANGED <<active, text>>
      /\ disk' = [disk EXCEPT ![p] = task[t].body] /\ ~Opener(t)
  BY <1>1, WriteIs DEF Write, Opener
<1>3. CASE Finishes(t)
  BY <1>3, CarefulIdle DEF Finishes, Becomes, Moving
<1>4. CASE Becomes(t, "open", "load", None, task[t].to, None)
  <2>1. Backed(t)'
    BY <1>4 DEF Becomes, Backed, Saver, Writing
  <2>2. QED
    BY <1>4, <2>1, CarefulSaves DEF Becomes
<1>5. CASE /\ Opens(t, dirty, p) /\ lineage' = [lineage EXCEPT ![p] = task[t].body.of]
           /\ Contends(t, {p, dirty} \ {None}, Unflushed)
           /\ (task[t].kind = "restore" /\ active = p) \/ task[t].kind \in Making
  <2>1. SUFFICES ASSUME dirty \in Path, active # None
                 PROVE  Backed(t)'
    BY <1>5, OpensCareful
  <2>2. dirty = active /\ active \in {p, dirty} \ {None}
    BY <2>1, NoneApart DEF Noted, DirtyActive
  <2>3. task'[t].path = active /\ task'[t].body = text /\ task'[t].kind = "open"
    BY <1>5, <2>1, <2>2 DEF Opens, Becomes
  <2>4. CASE task[t].kind = "restore"
    <3>1. active = p /\ disk'[p] = task[t].body /\ lineage'[p] = task[t].body.of
      BY <1>2, <1>5, <2>4 DEF Typed, TypeOK, Making
    <3>2. SUFFICES ASSUME Saver(t)', Last(disk[p])'
                   PROVE  text = task[t].body
      BY <1>2, <2>3, <3>1 DEF Backed
    <3>3. task[t].body.of = text.of
      BY <2>3, <3>1, <3>2 DEF Noted, Own, OwnSaves
    <3>4. Old(task[t].body)
      BY DEF BornInv, OldCall
    <3>5. Last(task[t].body)
      BY <3>1, <3>2, <3>4, LastStays DEF Last
    <3>6. QED
      BY <1>2, <2>1, <3>3, <3>5, LastShown
  <2>5. CASE task[t].kind \in Making
    <3>1. active # p
      <4>1. Claims(t) /\ Target(t) = p
        BY <1>1, <1>2, <2>5, NoneApart DEF Claims, Target, Making, Moving
      <4>2. QED
        BY <4>1 DEF Noted, Own, OwnClaim
    <3>2. disk'[active] = disk[active] /\ lineage'[active] = lineage[active]
      BY <1>2, <1>5, <2>1, <2>2, <3>1 DEF Typed, TypeOK
    <3>3. QED
      BY <1>2, <1>5, <2>1, <2>2, <2>3, <3>2, ShownBacked
  <2>6. QED
    BY <1>5, <2>4, <2>5
<1>6. QED
  BY <1>1, <1>3, <1>4, <1>5, WriteIs

\* The version to restore was read, and the file is looked for.
LEMMA RestoreVersionCareful ==
  ASSUME Typed, NEW t \in Task, (\E p \in Path : RestoreVersion(t, p))
  PROVE  Careful(t)'
<1>1. PICK p \in Path : RestoreVersion(t, p)
  OBVIOUS
<1>2. task'[t].kind = "restore" /\ task'[t].at = "probe"
  BY <1>1, RestoreStarts DEF Becomes
<1>3. QED
  BY <1>2 DEF Careful, Removing, Backed, Swaps, Carries, Stores, Saver, Moving

\* What is read is what the file has.
LEMMA LoadCareful ==
  ASSUME Typed, NEW t \in Task, Load(t)
  PROVE  Careful(t)'
<1>1. disk' = disk
  BY DEF Load, files
<1>2. CASE Finishes(t)
  BY <1>2, CarefulIdle DEF Finishes, Becomes, Moving
<1>3. CASE /\ Becomes(t, "open", "swap", task[t].path, task[t].to, task[t].body)
           /\ task'[t].held = disk[task[t].to]
  <2>1. Swaps(t)'
    BY <1>1, <1>3 DEF Swaps, Becomes
  <2>2. QED
    BY <1>3, <2>1 DEF Becomes, Careful, Removing, Backed, Carries, Stores, Saver, Moving, Writing
<1>4. QED
  BY <1>2, <1>3, LoadIs

\* If a note that is shown is moved, it is with what the editor shows of it.
LEMMA RenameCareful ==
  ASSUME Typed, BornInv, Noted, Noted', Guarded, NEW t \in Task, Beside(t),
         NEW p \in Path, NEW q \in Path, NEW kind \in {"rename", "move"}, Rename(t, kind, p, q)
  PROVE  Careful(t)'
<1>1. Contends(t, {p, q}, {}) /\ UNCHANGED <<disk, lineage, active, text>>
  BY DEF Rename, files, editor
<1>2. /\ task[t].kind = "none" /\ Becomes(t, kind, "rename", p, q, None) /\ kind \in Moving
      /\ kind = "rename" => p = active
  BY MoveStarts DEF Moving
<1>3. ~Opener(t)
  BY <1>2 DEF Opener
<1>4. Carries(t)'
  <2>1. SUFFICES ASSUME Shows(t)', Counts(p)', Last(disk[p])'
                 PROVE  text = disk[p]
    BY <1>1, <1>2 DEF Carries, Becomes
  <2>2. active = p
    BY <1>1, <1>2, <2>1 DEF Shows, Becomes
  <2>3. lineage[p] = text.of
    BY <1>1, <1>2, <2>1 DEF Becomes, Noted, Own, OwnMove
  <2>4. QED
    BY <1>1, <1>3, <2>1, <2>2, <2>3, NoneApart, ShowsLast
<1>5. QED
  BY <1>2, <1>4 DEF Careful, Removing, Backed, Swaps, Stores, Saver, Moving, Becomes

\* The file is moved, ...
LEMMA DoRenameCareful ==
  ASSUME Typed, BornInv, Noted, Guarded, NEW t \in Task, Beside(t), DoRename(t)
  PROVE  Careful(t)'
<1>1. PICK p, q : p = task[t].path /\ q = task[t].to
  OBVIOUS
<1>2. task[t].at = "rename" /\ task[t].kind \in Moving /\ p \in Path /\ q \in Path /\ UNCHANGED <<active, text>>
  BY <1>1, StageIs DEF DoRename, editor
<1>3. CASE Done(t)
  <2>1. Finishes(t)
    BY <1>3, DoneIs
  <2>2. QED
    BY <2>1, CarefulIdle DEF Finishes, Becomes, Moving
<1>4. CASE /\ disk' = [disk EXCEPT ![q] = disk[p], ![p] = None]
           /\ lineage' = [lineage EXCEPT ![q] = lineage[p], ![p] = None]
           /\ Go(t, "renamed") /\ disk[p] # None
  <2>1. Reaches(t, "renamed")
    BY <1>4, GoIs
  <2>2. p # q
    BY <1>1, <1>2, <1>4 DEF Noted, Own, OwnClaim, Claims, Target
  <2>3. disk'[q] = disk[p] /\ lineage'[q] = lineage[p]
    BY <1>2, <1>4, <2>2 DEF Typed, TypeOK
  <2>4. Carries(t)'
    <3>1. SUFFICES ASSUME Shows(t)', Counts(q)', Last(disk[q])'
                   PROVE  text = disk[p]
      BY <1>1, <1>2, <2>1, <2>3 DEF Carries, Reaches, Becomes
    <3>5. Shows(t)
      BY <1>2, <2>1, <3>1 DEF Shows, Reaches, Becomes
    <3>2. Counts(p)
      BY <2>3, <3>1 DEF Counts, Beside
    <3>3. Last(disk[p])
      <4>1. Old(disk[p])
        BY <1>2 DEF BornInv
      <4>2. QED
        BY <2>3, <3>1, <4>1, LastStays DEF Last
    <3>4. QED
      BY <1>1, <1>2, <3>2, <3>3, <3>5 DEF Guarded, Careful, Carries
  <2>5. QED
    BY <1>2, <2>1, <2>4 DEF Careful, Removing, Backed, Swaps, Stores, Saver, Moving, Reaches, Becomes
<1>5. QED
  BY <1>1, <1>3, <1>4 DEF DoRename

\* ... and the call goes on to open the note, with what is unsaved saved to its new path.
LEMMA RenamedCareful ==
  ASSUME Typed, BornInv, Noted, Noted', Guarded, NEW t \in Task, Beside(t), Renamed(t)
  PROVE  Careful(t)'
<1>1. PICK q : q = task[t].to
  OBVIOUS
<1>2. /\ task[t].at = "renamed" /\ task[t].kind \in Moving /\ q \in Path /\ UNCHANGED <<disk, lineage, text>>
  BY <1>1, RenamedIs DEF Renamed, files
<1>3. CASE Finishes(t)
  BY <1>3, CarefulIdle DEF Finishes, Becomes, Moving
<1>4. CASE /\ Opens(t, Moved(t), q) /\ active' = active
           /\ Contends(t, {Moved(t), q} \ {None}, Unflushed)
  <2>1. SUFFICES ASSUME Moved(t) \in Path, active # None
                 PROVE  Backed(t)'
    BY <1>4, OpensCareful
  <2>8. CASE ~Shows(t)
    <3>4. task[t].path \in Path
      BY <1>2, StageIs
    <3>1. Moved(t) = active
      BY <1>2, <2>1, <2>8, <3>4, NoneApart DEF Moved, Shows, Noted, DirtyActive
    <3>2. task'[t].path = active /\ task'[t].body = text /\ active \in {Moved(t), q} \ {None} /\ ~Opener(t)
      BY <1>2, <1>4, <2>1, <3>1, NoneApart DEF Opens, Becomes, Opener
    <3>3. QED
      BY <1>2, <1>4, <2>1, <3>2, ShownBacked
  <2> SUFFICES ASSUME Shows(t)
               PROVE  Backed(t)'
    BY <2>8
  <2>2. Moved(t) = q
    BY <1>1, <1>2, <2>1, NoneApart DEF Moved, Noted, Own, OwnMove
  <2>3. Becomes(t, "open", "probe", q, q, text) \/ Becomes(t, "open", "load", None, q, None)
    BY <1>4, <2>2 DEF Opens
  <2>4. SUFFICES ASSUME Becomes(t, "open", "probe", q, q, text), Counts(q)', Last(disk[q])'
                 PROVE  text = disk[q]
    BY <1>2, <2>3 DEF Backed, Becomes, Saver, Writing
  <2>5. Counts(q)
    BY <1>2, <2>4, CountsBefore
  <2>6. Last(disk[q])
    <3>1. Old(disk[q])
      BY <1>2 DEF BornInv
    <3>2. QED
      BY <1>2, <2>4, <3>1, LastStays DEF Last
  <2>7. QED
    BY <1>1, <1>2, <2>5, <2>6 DEF Guarded, Careful, Carries
<1>5. QED
  BY <1>1, <1>3, <1>4, RenamedIs

\* What a path has of notes that are removed is given up.
LEMMA RemoveCareful ==
  ASSUME Typed, Guarded, NEW t \in Task, Beside(t),
         DoRemove(t) \/ \E p \in Path, kind \in {"remove", "system"} : Remove(t, kind, p)
  PROVE  Careful(t)'
<1>1. ASSUME NEW p \in Path, task'[t].kind \in {"remove", "system"}, task'[t].path = p, task'[t].at # "swap",
             Below(p)' \subseteq excused'
      PROVE  Careful(t)'
  <2>1. Removing(t)'
    <3>1. Below(task[t].path)' = Below(p)'
      BY <1>1 DEF Below
    <3>2. QED
      BY <1>1, <3>1 DEF Removing
  <2>2. QED
    BY <1>1, <2>1 DEF Careful, Backed, Swaps, Carries, Stores, Saver, Moving
<1>2. ASSUME NEW p \in Path, NEW kind \in {"remove", "system"}, Remove(t, kind, p)
      PROVE  Careful(t)'
  <2>1. UNCHANGED <<disk, versions>> /\ Contends(t, {p}, Below(p))
    BY <1>2 DEF Remove
  <2>2. Below(p)' = Below(p) /\ Below(p) \subseteq excused'
    BY <2>1, ContendsExcuses DEF Below
  <2>3. task'[t].kind \in {"remove", "system"} /\ task'[t].path = p /\ task'[t].at # "swap"
    BY <1>2, RemoveStarts, ZenonT(60) DEF Becomes
  <2>4. Below(p)' \subseteq excused'
    BY <2>2
  <2>5. QED
    BY <1>1, <2>3, <2>4
<1>3. CASE DoRemove(t)
  <2>1. PICK p : p = task[t].path
    OBVIOUS
  <2>2. task[t].at = "remove" /\ task[t].kind \in {"remove", "system"} /\ p \in Path /\ versions' = versions
    BY <1>3, <2>1, StageIs DEF DoRemove
  <2>3. CASE Done(t)
    <3>1. Finishes(t)
      BY <2>3, DoneIs
    <3>2. QED
      BY <3>1, CarefulIdle DEF Finishes, Becomes, Moving
  <2>4. CASE disk' = [disk EXCEPT ![p] = None] /\ Go(t, "drop")
    <3>1. disk'[p] = None
      BY <2>2, <2>4 DEF Typed, TypeOK
    <3>2. Below(p)' \subseteq Below(p)
      BY <2>2, <3>1 DEF Below
    <3>3. Below(p) \subseteq excused /\ excused \subseteq excused'
      BY <2>1, <2>2 DEF Guarded, Careful, Removing, Beside
    <3>4. Reaches(t, "drop")
      BY <2>4, GoIs
    <3>5. QED
      BY <1>1, <2>1, <2>2, <3>2, <3>3, <3>4 DEF Reaches, Becomes
  <2>5. QED
    BY <1>3, <2>1, <2>3, <2>4 DEF DoRemove
<1>4. QED
  BY <1>2, <1>3

\* Any other step ends its call, or goes on with one that has nothing to be careful of.
LEMMA IdleSteps ==
  ASSUME Typed, NEW t \in Task,
         \/ Swap(t) \/ Bin(t) \/ List(t) \/ Note(t) \/ DropVersions(t)
         \/ Unbin(t) \/ Unlist(t) \/ Empty(t) \/ Clear(t)
         \/ \E p \in Path : CreateNote(t, p) \/ DuplicateNote(t, p) \/ FreeName(t, p) \/ Trash(t, p)
         \/ \E m \in manifest : Restore(t, m) \/ Purge(t, m)
  PROVE  Careful(t)'
<1> USE DEF Becomes, Reaches, Finishes, Moving
<1>1. CASE Finishes(t)
  BY <1>1, CarefulIdle
<1>2. CASE Swap(t) \/ Note(t) \/ DropVersions(t) \/ Unlist(t) \/ Clear(t)
  <2>1. Finishes(t)
    BY <1>2, SwapIs, DoneIs DEF Note, DropVersions, Unlist, Clear
  <2>2. QED
    BY <1>1, <2>1
<1>3. CASE Bin(t) \/ Unbin(t)
  <2>1. Finishes(t) \/ Reaches(t, "list") \/ Reaches(t, "unlist")
    BY <1>3, DoneIs, GoIs, ZenonT(60) DEF Bin, Unbin
  <2>2. task[t].kind \in {"trash", "unbin"}
    BY <1>3, StageIs DEF Bin, Unbin
  <2>3. QED
    BY <1>1, <2>1, <2>2, CarefulIdle
<1>4. CASE List(t)
  BY <1>4, ListIs, CarefulIdle
<1>5. CASE Empty(t)
  BY <1>5, EmptyStarts, CarefulIdle
<1>6. CASE \E p \in Path : CreateNote(t, p) \/ DuplicateNote(t, p)
  BY <1>6, MakeStarts, CarefulIdle
<1>7. CASE \E p \in Path : FreeName(t, p)
  BY <1>7, FreeNameIs, CarefulIdle
<1>8. CASE \E p \in Path : Trash(t, p)
  BY <1>8, TrashStarts, CarefulIdle
<1>9. CASE \E m \in manifest : Restore(t, m) \/ Purge(t, m)
  BY <1>9, UnbinStarts, CarefulIdle
<1>10. QED
  BY <1>2, <1>3, <1>4, <1>5, <1>6, <1>7, <1>8, <1>9

\* Every step of a call leaves it careful.
LEMMA CarefulSteps ==
  ASSUME Typed, BornInv, HandInv, Noted, Noted', Guarded, NEW t \in Task, Steps(t)
  PROVE  Careful(t)'
<1>1. Beside(t)
  BY BesideSteps
<1>2. QED
  BY <1>1, WritingCareful, SaveCareful, OpenCareful, WriteCareful, RestoreVersionCareful, LoadCareful,
     RenameCareful, DoRenameCareful, RenamedCareful, RemoveCareful, IdleSteps DEF Steps

-----------------------------------------------------------------------------
\* What a step has to show of a text that is the last of its note and not given up.
LEMMA HeldIf ==
  ASSUME NEW t \in Task, NEW x \in Text, \A u \in Task \ {t} : Same(u),
         disk' = disk \/ (InFiles(x) => Held(x)'),
         versions' = versions \/ (InVersions(x) => Held(x)'),
         trash' = trash \/ (InTrash(x) => Held(x)'),
         task[t].body = None \/ task'[t].body = task[t].body \/ (task[t].body = x => Held(x)'),
         (dirty' = dirty /\ text' = text) \/ (InEditor(x) => Held(x)')
  PROVE  Held(x) => Held(x)'
<1>1. InFiles(x) => Held(x)'
  BY DEF InFiles, Held
<1>2. InVersions(x) => Held(x)'
  BY DEF InVersions, Held
<1>3. InTrash(x) => Held(x)'
  BY DEF InTrash, Held
<1>4. InCalls(x) => Held(x)'
  <2>1. ASSUME NEW u \in Task, task[u].body = x
        PROVE  Held(x)'
    <3>1. x # None
      BY NoneApart
    <3>2. task'[u].body = x \/ Held(x)'
      BY <2>1, <3>1 DEF Same
    <3>3. QED
      BY <3>2 DEF Held, InCalls
  <2>2. QED
    BY <2>1 DEF InCalls
<1>5. InEditor(x) => Held(x)'
  BY DEF InEditor, Held
<1>6. QED
  BY <1>1, <1>2, <1>3, <1>4, <1>5 DEF Held

\* A step of the call of t loses no last edit that is not given up.
Spares(t) == \A x \in Text : Last(x) /\ x.of \notin excused' => (Held(x) => Held(x)')

\* A step that changes none of the places, and starts a call or leaves it what it is to write.
LEMMA SparesQuiet ==
  ASSUME NEW t \in Task, \A u \in Task \ {t} : Same(u), UNCHANGED <<disk, versions, trash, dirty, text>>,
         task[t].body = None \/ task'[t].body = task[t].body
  PROVE  Spares(t)
BY HeldIf DEF Spares

\* The steps that are such.
LEMMA QuietSpares ==
  ASSUME Typed, NEW t \in Task, \A u \in Task \ {t} : Same(u),
         \/ TimerFires(t) \/ SaveNow(t) \/ (\E p \in Path : RestoreVersion(t, p)) \/ Probe(t) \/ List(t) \/ Unlist(t) \/ Clear(t)
         \/ \E p \in Path : CreateNote(t, p) \/ DuplicateNote(t, p) \/ FreeName(t, p) \/ Trash(t, p)
         \/ \E p \in Path, kind \in {"remove", "system"} : Remove(t, kind, p)
         \/ \E p, q \in Path, kind \in {"rename", "move"} : Rename(t, kind, p, q)
         \/ \E m \in manifest : Restore(t, m)
  PROVE  Spares(t)
<1>1. UNCHANGED <<disk, versions, trash, dirty, text>>
  BY DEF TimerFires, SaveNow, RestoreVersion, Probe, List, Unlist, Clear, CreateNote, DuplicateNote, FreeName,
         Trash, Remove, Rename, Restore, files, bin, editor
<1>2. CASE task[t] = NoTask
  BY <1>1, <1>2, SparesQuiet DEF NoTask
<1>3. CASE Probe(t)
  BY <1>1, <1>3, GoIs, SparesQuiet DEF Probe, Reaches, Becomes
<1>4. CASE List(t)
  BY <1>1, <1>4, ListIs, SparesQuiet DEF Becomes
<1>5. CASE Unlist(t) \/ Clear(t)
  <2>1. task[t].body = None
    BY <1>5, StageIs DEF Unlist, Clear
  <2>2. QED
    BY <1>1, <2>1, SparesQuiet
<1>6. CASE \E p \in Path : FreeName(t, p)
  BY <1>1, <1>6, FreeNameIs, SparesQuiet DEF Becomes
<1>7. task[t] = NoTask \/ Probe(t) \/ List(t) \/ Unlist(t) \/ Clear(t) \/ \E p \in Path : FreeName(t, p)
  BY DEF TimerFires, SaveNow, RestoreVersion, CreateNote, DuplicateNote, Trash, Remove, Rename, Restore, Start
<1>8. QED
  BY <1>2, <1>3, <1>4, <1>5, <1>6, <1>7

\* What the editor shows and is not saved yet is saved first, when another note is opened.
LEMMA OpensHolds ==
  ASSUME Typed, NEW t \in Task, NEW d, NEW p, Opens(t, d, p), dirty # None => d \in Path, Unflushed \subseteq excused',
         NEW x \in Text, x.of \notin excused'
  PROVE  InEditor(x) => Held(x)'
<1>1. SUFFICES ASSUME text = x, dirty # None
               PROVE  Held(x)'
  BY DEF InEditor
<1>2. active # None
  BY <1>1 DEF Unflushed, Unsaved
<1>3. task'[t].body = x
  BY <1>1, <1>2, NoneApart DEF Opens, Becomes
<1>4. QED
  BY <1>3 DEF Held, InCalls

\* openNote loses no last edit.
LEMMA OpenSpares ==
  ASSUME Typed, NEW t \in Task, NEW p \in Path, OpenNote(t, p), \A u \in Task \ {t} : Same(u)
  PROVE  Spares(t)
<1>1. UNCHANGED <<disk, versions, trash>> /\ Contends(t, {p, dirty} \ {None}, Unflushed)
  BY DEF OpenNote, files, bin
<1>2. Opens(t, dirty, p) /\ task[t].body = None
  BY OpenStarts, StartIs DEF OpenNote
<1>3. Unflushed \subseteq excused' /\ (dirty # None => dirty \in Path)
  BY <1>1, ContendsExcuses DEF Typed, TypeOK
<1>4. ASSUME NEW x \in Text, x.of \notin excused'
      PROVE  Held(x) => Held(x)'
  <2>1. InEditor(x) => Held(x)'
    BY <1>2, <1>3, <1>4, OpensHolds
  <2>2. QED
    BY <1>1, <1>2, <2>1, HeldIf
<1>5. QED
  BY <1>4 DEF Spares

\* What is read is in its file, and what is shown then replaces nothing that is unsaved.
LEMMA ReadsSpare ==
  ASSUME Typed, HandInv, Noted, NEW t \in Task, Beside(t), \A u \in Task \ {t} : Same(u),
         Load(t) \/ Swap(t) \/ ReadOld(t)
  PROVE  Spares(t)
<1>1. UNCHANGED <<disk, versions, trash>> /\ excused' = excused
  BY DEF Load, Swap, ReadOld, files, bin, history
<1>2. CASE Load(t)
  <2>1. UNCHANGED <<dirty, text>>
    BY <1>2 DEF Load, editor
  <2>2. task[t].body = None
    BY <1>2, LoadIs DEF Noted, Own, OwnSaves, Opener
  <2>3. QED
    BY <1>1, <2>1, <2>2, SparesQuiet
<1>3. CASE Swap(t)
  <2>1. task[t].body = None /\ task[t].kind = "open"
    BY <1>3, SwapIs DEF Noted, Own, OwnSaves, Opener
  <2>2. dirty = None \/ text.of \in excused
    BY <2>1 DEF HandInv, HandsOn
  <2>3. ASSUME NEW x \in Text, x.of \notin excused'
        PROVE  Held(x) => Held(x)'
    <3>1. ~InEditor(x)
      BY <1>1, <2>2, <2>3 DEF InEditor
    <3>2. QED
      BY <1>1, <2>1, <3>1, HeldIf
  <2>4. QED
    BY <2>3 DEF Spares
<1>4. CASE ReadOld(t)
  <2>1. UNCHANGED <<dirty, text>>
    BY <1>4 DEF ReadOld, editor
  <2>2. CASE Finishes(t)
    <3>1. task[t].at = "read" /\ disk[task[t].path] = None /\ task[t].path \in Path
      BY <1>4, <2>2, ReadOldIs, StageIs DEF Finishes, Becomes, Writing
    <3>2. lineage[task[t].path] = None
      BY <3>1 DEF Noted, Agree
    <3>3. task[t].kind \notin Making /\ task[t].kind # "restore"
      BY <3>1, <3>2 DEF Noted, Own, OwnSaves
    <3>4. Saver(t) /\ task[t].body \in Text
      BY <3>1, <3>3, StageIs DEF Saver, Writing, Making
    <3>5. lineage[task[t].path] = task[t].body.of
      BY <3>4 DEF Noted, Own, OwnSaves
    <3>6. QED
      BY <3>2, <3>4, <3>5, NoneApart DEF Text
  <2>3. CASE task'[t].body = task[t].body
    BY <1>1, <2>1, <2>3, SparesQuiet
  <2>4. QED
    BY <1>4, <2>2, <2>3, ReadOldIs DEF Becomes
<1>5. QED
  BY <1>2, <1>3, <1>4

\* What is kept of a file takes the place of a version that is given up, if it was the last edit.
LEMMA KeepSpares ==
  ASSUME Typed, NEW t \in Task, KeepOld(t), \A u \in Task \ {t} : Same(u)
  PROVE  Spares(t)
<1>1. UNCHANGED <<disk, trash, dirty, text>> /\ task'[t].body = task[t].body
  BY GoIs DEF KeepOld, bin, editor, Reaches, Becomes
<1>2. ASSUME NEW x \in Text, Last(x), x.of \notin excused'
      PROVE  Held(x) => Held(x)'
  <2>1. ASSUME NEW p \in Path, Has(versions[p], x)
        PROVE  Has(versions'[p], x)
    <3>1. x.rev = typed[x.of]
      BY <1>2 DEF Last
    <3>2. CASE p = task[t].path
      BY <1>2, <2>1, <3>1, <3>2, KeptIs
    <3>3. CASE p # task[t].path
      <4>1. versions'[p] = versions[p]
        BY <3>3, KeptIs
      <4>2. QED
        BY <2>1, <4>1
    <3>4. QED
      BY <3>2, <3>3
  <2>2. InVersions(x) => Held(x)'
    <3>1. InVersions(x) => \E p \in Path : Has(versions'[p], x)
      BY <2>1 DEF InVersions
    <3>2. QED
      BY <3>1 DEF Held, InVersions, Has
  <2>3. QED
    BY <1>1, <2>2, HeldIf
<1>3. QED
  BY <1>2 DEF Spares

\* A file with the last edit is of a note that counts.
LEMMA FileCounts ==
  ASSUME Noted, NEW t \in Task, Beside(t), NEW p \in Path, NEW x \in Text, disk[p] = x, x.of \notin excused'
  PROVE  Counts(p) /\ lineage[p] = x.of
BY NoneApart DEF Noted, Agree, Counts, Beside

\* A write replaces a file that has the last edit by the same, or keeps it as a version.
LEMMA WriteSpares ==
  ASSUME Typed, HandInv, Noted, Guarded, NEW t \in Task, Beside(t), \A u \in Task \ {t} : Same(u), Write(t)
  PROVE  Spares(t)
<1>1. PICK p, b : p = task[t].path /\ b = task[t].body
  OBVIOUS
<1>2. /\ task[t].at = "write" /\ p \in Path /\ b \in Text /\ UNCHANGED <<versions, trash, text>>
      /\ disk' = [disk EXCEPT ![p] = b]
  BY <1>1, WriteIs DEF Write, bin
<1>3. disk'[p] = b /\ \A q \in Path \ {p} : disk'[q] = disk[q]
  BY <1>2 DEF Typed, TypeOK
<1>4. Held(b)'
  BY <1>2, <1>3 DEF Held, InFiles
<1>5. ASSUME NEW x \in Text, Last(x), x.of \notin excused'
      PROVE  Held(x) => Held(x)'
  <2>1. ASSUME NEW q \in Path, disk[q] = x
        PROVE  Held(x)'
    <3>1. CASE q # p
      BY <1>3, <2>1, <3>1 DEF Held, InFiles
    <3>2. CASE q = p
      <4>1. Counts(p) /\ Last(disk[p]) /\ disk[p] # None
        BY <1>5, <2>1, <3>2, FileCounts DEF Last
      <4>2. CASE task[t].kind \in {"save", "open"}
        <5>1. Saver(t)
          BY <1>2, <4>2 DEF Saver, Writing
        <5>2. b = x
          BY <1>1, <2>1, <3>2, <4>1, <5>1 DEF Guarded, Careful, Backed
        <5>3. QED
          BY <1>4, <5>2
      <4>3. CASE task[t].kind = "restore"
        <5>1. Has(versions[p], x)
          BY <1>1, <1>2, <2>1, <3>2, <4>1, <4>3 DEF Guarded, Careful, Stores
        <5>2. Has(versions'[p], x)
          BY <1>2, <5>1
        <5>3. QED
          BY <1>2, <5>2 DEF Held, InVersions, Has
      <4>4. CASE task[t].kind \in Making
        <5>1. Claims(t) /\ Target(t) = p
          BY <1>1, <1>2, <4>4, NoneApart DEF Claims, Target, Making, Moving
        <5>2. QED
          BY <4>1, <5>1 DEF Noted, Own, OwnClaim
      <4>5. QED
        BY <1>2, <4>2, <4>3, <4>4, StageIs DEF Writing, Making
    <3>3. QED
      BY <3>1, <3>2
  <2>2. InFiles(x) => Held(x)'
    BY <2>1 DEF InFiles
  <2>3. b = x => Held(x)'
    BY <1>4
  <2>4. InEditor(x) => Held(x)' \/ dirty' = dirty
    <3>1. SUFFICES ASSUME InEditor(x), dirty' # dirty
                   PROVE  Held(x)'
      OBVIOUS
    <3>2. CASE task[t].fresh
      <4>1. b = text
        BY <1>1, <3>2 DEF HandInv, HandsOn
      <4>2. QED
        BY <2>3, <3>1, <4>1 DEF InEditor
    <3>4. CASE Opens(t, dirty, p) /\ Contends(t, {p, dirty} \ {None}, Unflushed)
      <4>1. Unflushed \subseteq excused' /\ (dirty # None => dirty \in Path)
        BY <3>4, ContendsExcuses DEF Typed, TypeOK
      <4>2. QED
        BY <1>5, <3>1, <3>4, <4>1, OpensHolds
    <3>5. QED
      BY <1>1, <3>1, <3>2, <3>4, WriteIs
  <2>5. QED
    BY <1>1, <1>2, <2>2, <2>3, <2>4, HeldIf
<1>6. QED
  BY <1>5 DEF Spares

\* A note that moves takes its file along, and then what is unsaved.
LEMMA MovesSpare ==
  ASSUME Typed, Noted, Guarded, NEW t \in Task, Beside(t), \A u \in Task \ {t} : Same(u), DoRename(t) \/ Renamed(t)
  PROVE  Spares(t)
<1>1. PICK p, q : p = task[t].path /\ q = task[t].to
  OBVIOUS
<1>2. task[t].body = None /\ task[t].kind \in Moving /\ p \in Path /\ q \in Path
  BY <1>1, StageIs DEF DoRename, Renamed
<1>3. UNCHANGED <<versions, trash, text>>
  BY DEF DoRename, Renamed, files, bin, editor
<1>4. CASE DoRename(t)
  <2>1. task[t].at = "rename" /\ dirty' = dirty
    BY <1>4 DEF DoRename, editor
  <2>2. CASE disk' = disk
    BY <1>2, <1>3, <2>1, <2>2, SparesQuiet
  <2>3. CASE disk' = [disk EXCEPT ![q] = disk[p], ![p] = None] /\ disk[p] # None
    <3>1. disk[q] = None
      BY <1>1, <1>2, <2>1 DEF Noted, Own, OwnClaim, Claims, Target
    <3>2. disk'[q] = disk[p] /\ \A a \in Path \ {p, q} : disk'[a] = disk[a]
      BY <1>2, <2>3, <3>1 DEF Typed, TypeOK
    <3>3. ASSUME NEW x \in Text
          PROVE  InFiles(x) => InFiles(x)'
      BY <1>2, <3>1, <3>2, NoneApart DEF InFiles
    <3>4. \A x \in Text : InFiles(x) => Held(x)'
      BY <3>3 DEF Held
    <3>5. QED
      BY <1>2, <1>3, <2>1, <3>4, HeldIf DEF Spares
  <2>4. QED
    BY <1>1, <1>4, <2>2, <2>3 DEF DoRename
<1>5. CASE Renamed(t)
  <2>1. disk' = disk
    BY <1>5 DEF Renamed, files
  <2>2. dirty # None => Moved(t) \in Path
    BY <1>1, <1>2 DEF Moved, Typed, TypeOK
  <2>3. ASSUME NEW x \in Text, x.of \notin excused'
        PROVE  InEditor(x) => Held(x)'
    <3>1. CASE dirty' = Moved(t)
      BY <1>3, <2>2, <3>1, NoneApart DEF InEditor, Held
    <3>2. CASE Opens(t, Moved(t), q) /\ Contends(t, {Moved(t), q} \ {None}, Unflushed)
      <4>1. Unflushed \subseteq excused'
        BY <3>2, ContendsExcuses
      <4>2. QED
        BY <2>2, <2>3, <3>2, <4>1, OpensHolds
    <3>3. QED
      BY <1>1, <1>5, <3>1, <3>2, RenamedIs
  <2>4. QED
    BY <1>2, <1>3, <2>1, <2>3, HeldIf DEF Spares
<1>6. QED
  BY <1>4, <1>5

\* A note that is put into the trash is there, and one that is taken out of it is at its path; what is
\* deleted is given up.
LEMMA BinSpares ==
  ASSUME Typed, HandInv, Noted, NEW t \in Task, Beside(t), \A u \in Task \ {t} : Same(u), Bin(t) \/ Unbin(t)
  PROVE  Spares(t)
<1>1. PICK p, n : p = task[t].path /\ n = task[t].name
  OBVIOUS
<1>2. task[t].body = None /\ p \in Path /\ n \in 0..MaxOps
  BY <1>1, StageIs DEF Bin, Unbin, Typed, TypeOK, Call
<1>3. UNCHANGED <<versions, text, dirty, excused>>
  BY DEF Bin, Unbin, editor
<1>4. CASE UNCHANGED <<disk, trash>>
  BY <1>2, <1>3, <1>4, SparesQuiet
<1>5. CASE Bin(t) /\ disk' = [disk EXCEPT ![p] = None] /\ trash' = [trash EXCEPT ![n] = disk[p]]
  <2>1. trash[n] = None \/ NoteId \subseteq excused
    BY <1>1, <1>5 DEF Bin, HandInv, HandsOn
  <2>2. /\ trash'[n] = disk[p] /\ \A a \in Path \ {p} : disk'[a] = disk[a]
        /\ \A m \in 0..MaxOps : m # n => trash'[m] = trash[m]
    BY <1>2, <1>5 DEF Typed, TypeOK
  <2>3. ASSUME NEW x \in Text, x.of \notin excused'
        PROVE  /\ InFiles(x) => InFiles(x)' \/ InTrash(x)'
               /\ InTrash(x) => InTrash(x)'
    <3>1. trash[n] # x
      BY <1>3, <2>1, <2>3, NoneApart DEF Text
    <3>2. QED
      BY <1>2, <2>2, <3>1 DEF InFiles, InTrash
  <2>4. ASSUME NEW x \in Text, x.of \notin excused'
        PROVE  (InFiles(x) => Held(x)') /\ (InTrash(x) => Held(x)')
    BY <2>3, <2>4 DEF Held
  <2>5. QED
    BY <1>2, <1>3, <2>4, HeldIf DEF Spares
<1>6. CASE Unbin(t) /\ disk' = [disk EXCEPT ![p] = trash[n]] /\ trash' = [trash EXCEPT ![n] = None]
  <2>1. disk[p] = None
    BY <1>1, <1>6, StageIs DEF Unbin, Noted, Own, OwnClaim, Claims, Target, Moving
  <2>2. /\ disk'[p] = trash[n] /\ \A a \in Path \ {p} : disk'[a] = disk[a]
        /\ \A m \in 0..MaxOps : m # n => trash'[m] = trash[m]
    BY <1>2, <1>6 DEF Typed, TypeOK
  <2>3. ASSUME NEW x \in Text
        PROVE  /\ InFiles(x) => InFiles(x)'
               /\ InTrash(x) => InTrash(x)' \/ InFiles(x)'
    BY <1>2, <2>1, <2>2, NoneApart DEF InFiles, InTrash
  <2>4. ASSUME NEW x \in Text
        PROVE  (InFiles(x) => Held(x)') /\ (InTrash(x) => Held(x)')
    BY <2>3 DEF Held
  <2>5. QED
    BY <1>2, <1>3, <2>4, HeldIf DEF Spares
<1>7. QED
  BY <1>1, <1>4, <1>5, <1>6 DEF Bin, Unbin

\* What deleteTrashItem and emptyTrash delete is given up.
LEMMA PurgeSpares ==
  ASSUME Typed, NEW t \in Task, \A u \in Task \ {t} : Same(u), Empty(t) \/ \E m \in manifest : Purge(t, m)
  PROVE  Spares(t)
<1>1. UNCHANGED <<disk, versions, text, dirty>> /\ task[t].body = None
  <2>1. UNCHANGED <<disk, versions, text, dirty>> /\ task[t] = NoTask
    BY DEF Empty, Purge, files, editor, Start
  <2>2. QED
    BY <2>1 DEF NoTask
<1>2. ASSUME NEW x \in Text, x.of \notin excused', NEW n \in 0..MaxOps, trash[n] = x
      PROVE  trash'[n] = x
  <2>1. x # None
    BY NoneApart
  <2>2. CASE Empty(t)
    <3>1. x.of \in excused'
      BY <1>2, <2>1, <2>2 DEF Empty
    <3>2. QED
      BY <1>2, <3>1
  <2>3. CASE \E m \in manifest : Purge(t, m)
    <3>1. PICK m \in manifest : Purge(t, m)
      BY <2>3
    <3>2. m.name # n
      BY <1>2, <2>1, <3>1 DEF Purge
    <3>3. QED
      BY <1>2, <3>1, <3>2 DEF Purge, Typed, TypeOK
  <2>4. QED
    BY <2>2, <2>3
<1>3. ASSUME NEW x \in Text, x.of \notin excused'
      PROVE  InTrash(x) => Held(x)'
  BY <1>2, <1>3 DEF InTrash, Held
<1>4. QED
  BY <1>1, <1>3, HeldIf DEF Spares

\* What is removed with its versions was given up, and so is what the editor did not save of it.
LEMMA RemoveSpares ==
  ASSUME Typed, Noted, Guarded, NEW t \in Task, Beside(t), \A u \in Task \ {t} : Same(u),
         DoRemove(t) \/ DropVersions(t) \/ Note(t)
  PROVE  Spares(t)
<1>1. PICK p : p = task[t].path
  OBVIOUS
<1>2. task[t].body = None /\ p \in Path
  BY <1>1, StageIs DEF DoRemove, DropVersions, Note
<1>3. CASE DoRemove(t) \/ DropVersions(t)
  <2>1. task[t].kind \in {"remove", "system"} /\ excused \subseteq excused'
    BY <1>3, StageIs DEF DoRemove, DropVersions, Beside
  <2>2. Below(p) \subseteq excused
    BY <1>1, <2>1 DEF Guarded, Careful, Removing
  <2>3. ASSUME NEW x \in Text, x.of \notin excused'
        PROVE  disk[p] # x /\ ~Has(versions[p], x)
    <3>1. x # None /\ x.of \notin Below(p)
      BY <2>1, <2>2, <2>3, NoneApart
    <3>2. QED
      BY <3>1 DEF Below, Has
  <2>4. CASE DoRemove(t)
    <3>1. UNCHANGED <<versions, trash, text, dirty>> /\ (disk' = disk \/ disk' = [disk EXCEPT ![p] = None])
      BY <1>1, <2>4 DEF DoRemove, bin, editor
    <3>2. \A a \in Path \ {p} : disk'[a] = disk[a]
      BY <3>1 DEF Typed, TypeOK
    <3>3. ASSUME NEW x \in Text, x.of \notin excused'
          PROVE  InFiles(x) => Held(x)'
      BY <2>3, <3>2, <3>3 DEF InFiles, Held
    <3>4. QED
      BY <1>2, <3>1, <3>3, HeldIf DEF Spares
  <2>5. CASE DropVersions(t)
    <3>1. /\ UNCHANGED <<disk, trash, text>> /\ Unsaved \subseteq excused'
          /\ versions' = versions \/ versions' = [versions EXCEPT ![p] = <<>>]
      BY <1>1, <2>5 DEF DropVersions, Deleted, bin
    <3>2. \A a \in Path \ {p} : versions'[a] = versions[a]
      BY <3>1 DEF Typed, TypeOK
    <3>3. ASSUME NEW x \in Text, x.of \notin excused'
          PROVE  (InVersions(x) => Held(x)') /\ ~InEditor(x)
      <4>1. ~InEditor(x)
        BY <3>1, <3>3 DEF InEditor, Unsaved
      <4>2. ASSUME NEW a \in Path, Has(versions[a], x)
            PROVE  Has(versions'[a], x)
        BY <2>3, <3>2, <3>3, <4>2
      <4>3. InVersions(x) => \E a \in Path : Has(versions'[a], x)
        BY <4>2 DEF InVersions
      <4>4. QED
        BY <4>1, <4>3 DEF Held, InVersions, Has
    <3>4. QED
      BY <1>2, <3>1, <3>3, HeldIf DEF Spares
  <2>6. QED
    BY <1>3, <2>4, <2>5
<1>4. CASE Note(t)
  <2>1. UNCHANGED <<disk, versions, trash, text>> /\ Unsaved \subseteq excused'
    BY <1>4 DEF Note, Deleted, files
  <2>2. ASSUME NEW x \in Text, x.of \notin excused'
        PROVE  ~InEditor(x)
    BY <2>1, <2>2 DEF InEditor, Unsaved
  <2>3. QED
    BY <1>2, <2>1, <2>2, HeldIf DEF Spares
<1>5. QED
  BY <1>3, <1>4

\* Every step of a call spares the last edits.
LEMMA SparesSteps ==
  ASSUME Typed, BornInv, HandInv, Noted, Guarded, NEW t \in Task, Steps(t)
  PROVE  Spares(t)
<1>1. Beside(t) /\ \A u \in Task \ {t} : Same(u)
  BY BesideSteps, WithinSteps DEF Within
<1>2. QED
  BY <1>1, QuietSpares, OpenSpares, ReadsSpare, KeepSpares, WriteSpares, MovesSpare, BinSpares, PurgeSpares,
     RemoveSpares DEF Steps

\* The notes that there are have the last edits they had, and a new one starts empty.
LEMMA TypedSteps ==
  ASSUME Typed, NEW t \in Task, Steps(t)
  PROVE  typed' = typed \/ (Makes /\ task'[t].body = Blank)
<1>1. CASE \E p \in Path : CreateNote(t, p) \/ DuplicateNote(t, p)
  BY <1>1, MakeStarts DEF CreateNote, DuplicateNote, Start, Makes, Becomes
<1>2. CASE ~\E p \in Path : CreateNote(t, p) \/ DuplicateNote(t, p)
  BY <1>2 DEF Steps, TimerFires, SaveNow, Load, Swap, Probe, ReadOld, KeepOld, Write, RestoreVersion, DoRename,
     Renamed, Bin, List, Note, DoRemove, DropVersions, Unbin, Unlist, Empty, Clear, FreeName, OpenNote, Trash,
     Remove, Rename, Restore, Purge, history
<1>3. QED
  BY <1>1, <1>2

\* So they are safe after it.
LEMMA SafeSteps ==
  ASSUME Typed, BornInv, HandInv, Noted, Guarded, NEW t \in Task, Steps(t)
  PROVE  Safe'
<1>1. Beside(t) /\ Spares(t)
  BY BesideSteps, SparesSteps
<1>2. SUFFICES ASSUME NEW l \in DOMAIN typed', l \notin excused'
               PROVE  \E x \in Text : x.of = l /\ Last(x)' /\ Held(x)'
  BY DEF Safe
<1>3. CASE l \in DOMAIN typed
  <2>1. PICK x \in Text : x.of = l /\ Last(x) /\ Held(x)
    BY <1>1, <1>2, <1>3 DEF Guarded, Safe, Beside
  <2>2. Held(x)'
    BY <1>1, <1>2, <2>1 DEF Spares
  <2>3. Last(x)'
    BY <1>1, <1>3, <2>1 DEF Last, Beside
  <2>4. QED
    BY <2>1, <2>2, <2>3
<1>4. CASE l \notin DOMAIN typed
  <2>1. Makes /\ task'[t].body = Blank /\ ops' = ops + 1
    BY <1>4, TypedSteps DEF Makes
  <2>2. l = ops + 1 /\ typed'[ops + 1] = 0
    BY <1>4, <2>1, MakesNew
  <2>3. PICK x : x = Blank
    OBVIOUS
  <2>4. x \in Text /\ x.of = l /\ x.rev = 0 /\ x # None
    BY <2>1, <2>2, <2>3, BornTyped, NoneApart DEF Makes, Blank
  <2>5. Last(x)'
    BY <2>2, <2>4 DEF Last
  <2>6. Held(x)'
    BY <2>1, <2>3 DEF Held, InCalls
  <2>7. QED
    BY <2>4, <2>5, <2>6
<1>5. QED
  BY <1>3, <1>4

\* Every step of a call guards the last edits.
LEMMA GuardedSteps ==
  ASSUME Typed, BornInv, HandInv, Noted, Noted', Guarded, NEW t \in Task, Steps(t)
  PROVE  Guarded'
<1>1. Current' /\ Safe' /\ Careful(t)'
  BY CurrentSteps, SafeSteps, CarefulSteps
<1>2. \A u \in Task \ {t} : Careful(u)' /\ Alone(t, u)' /\ Alone(u, t)'
  BY CarefulBystanders, AloneSteps
<1>3. ASSUME NEW a \in Task, NEW u \in Task \ {a}
      PROVE  Alone(a, u)'
  <2>1. CASE a = t \/ u = t
    BY <1>2, <2>1
  <2>2. CASE a # t /\ u # t
    BY <2>2, AloneBystanders
  <2>3. QED
    BY <2>1, <2>2
<1>4. QED
  BY <1>1, <1>2, <1>3 DEF Guarded

\* An edit is the last one of its note; the editor shows it, and it is to be saved.
LEMMA EditGuarded ==
  ASSUME Typed, BornInv, Noted, Guarded, Edit
  PROVE  Guarded'
<1>1. /\ UNCHANGED <<disk, versions, trash, lineage, active>> /\ excused \subseteq excused'
      /\ active \in Path /\ dirty' = active /\ edits \in Nat
  BY DEF Edit, files, bin, Typed, TypeOK
<1>2. /\ text' \in Text /\ text'.of = text.of /\ text'.rev = edits + 1
      /\ DOMAIN typed' = DOMAIN typed /\ text.of \in DOMAIN typed
      /\ typed'[text.of] = edits + 1 /\ \A l \in DOMAIN typed : l # text.of => typed'[l] = typed[l]
  <2>1. text \in Text
    BY <1>1, NoneApart DEF Typed, TypeOK, Maybe
  <2>2. text.of \in DOMAIN typed
    BY <2>1, NoneApart DEF BornInv, Old
  <2>3. edits + 1 \in 0..MaxEdits /\ text' = [text EXCEPT !.rev = edits + 1]
    BY <1>1, VaultAssumption DEF Edit, Typed, TypeOK
  <2>4. typed' = [typed EXCEPT ![text.of] = edits + 1]
    BY DEF Edit
  <2>5. text' \in Text /\ text'.of = text.of /\ text'.rev = edits + 1
    BY <2>1, <2>3 DEF Text
  <2>6. QED
    BY <2>2, <2>4, <2>5
<1>3. \A x : x = None \/ (Old(x) /\ x.rev \in Nat) => (Last(x)' => Last(x) /\ x.of # text.of)
  BY <1>1, <1>2 DEF Last, Old
<1>4. \A u \in Task : Same(u)
  BY EditIs
<1>5. \A p \in Path : disk[p] = None \/ (Old(disk[p]) /\ disk[p].rev \in Nat)
  BY VaultAssumption DEF BornInv, Typed, TypeOK, Maybe, Text
<1>6. ASSUME NEW p \in Path
      PROVE  Last(disk[p])' => Last(disk[p]) /\ disk[p].of # text.of
  <2>1. PICK x : x = disk[p]
    OBVIOUS
  <2>2. Last(disk[p])' => Last(x)'
    BY <1>1, <2>1 DEF Last
  <2>3. QED
    BY <1>3, <1>5, <2>1, <2>2
<1>7. \A p : Counts(p)' => Counts(p)
  BY <1>1 DEF Counts
<1>8. Current'
  BY <1>1, <1>2, <1>6 DEF Current, Noted, Agree, Last
<1>9. Safe'
  <2>1. SUFFICES ASSUME NEW l \in DOMAIN typed, l \notin excused'
                 PROVE  \E x \in Text : x.of = l /\ Last(x)' /\ Held(x)'
    BY <1>2 DEF Safe
  <2>2. CASE l = text.of
    <3>1. PICK x : x = text'
      OBVIOUS
    <3>2. x \in Text /\ x.of = l /\ Last(x)'
      BY <1>2, <2>2, <3>1, NoneApart DEF Last
    <3>3. Held(x)'
      BY <1>1, <3>1, NoneApart DEF Held, InEditor
    <3>4. QED
      BY <3>2, <3>3
  <2>3. CASE l # text.of
    <3>1. PICK x \in Text : x.of = l /\ Last(x) /\ Held(x)
      BY <1>1, <2>1 DEF Guarded, Safe
    <3>2. Last(x)'
      BY <1>2, <2>3, <3>1 DEF Last
    <3>3. InFiles(x) \/ InVersions(x) \/ InTrash(x) \/ InCalls(x)
      BY <2>3, <3>1 DEF Held, InEditor
    <3>4. Held(x)'
      BY <1>1, <1>4, <3>3 DEF Held, InFiles, InVersions, InTrash, InCalls, Same
    <3>5. QED
      BY <3>1, <3>2, <3>4
  <2>4. QED
    BY <2>2, <2>3
<1>10. ASSUME NEW u \in Task
       PROVE  Careful(u)'
  <2>1. PICK k : k = task[u]
    OBVIOUS
  <2>2. /\ task'[u].kind = k.kind /\ task'[u].at = k.at /\ task'[u].path = k.path
        /\ task'[u].to = k.to /\ task'[u].body = k.body /\ task'[u].held = k.held
    BY <1>4, <2>1 DEF Same
  <2>3. Careful(u)
    BY DEF Guarded
  <2>4. Removing(u)'
    <3>1. Below(task[u].path)' = Below(task[u].path)
      BY <1>1, <2>1, <2>2 DEF Below
    <3>2. QED
      BY <1>1, <2>1, <2>2, <2>3, <3>1 DEF Careful, Removing
  <2>5. Backed(u)'
    <3>1. SUFFICES ASSUME Saver(u), Counts(k.path)'
                   PROVE  /\ Last(disk[k.path])' => k.body = disk[k.path]
                          /\ k.path = active /\ Last(k.body)' => text' = k.body
      BY <1>1, <2>1, <2>2 DEF Backed, Saver
    <3>2. Counts(k.path) /\ k.path \in Path /\ k.body \in Text
      BY <1>7, <2>1, <3>1, StageIs DEF Saver
    <3>3. /\ Last(disk[k.path]) => k.body = disk[k.path]
          /\ k.path = active /\ Last(k.body) => text = k.body
      BY <2>1, <2>3, <3>1, <3>2 DEF Careful, Backed
    <3>4. Last(k.body)' => Last(k.body) /\ k.body.of # text.of
      <4>1. Old(k.body) /\ k.body.rev \in Nat
        BY <2>1, <3>2, VaultAssumption DEF BornInv, OldCall, Text
      <4>2. QED
        BY <1>3, <4>1
    <3>5. QED
      BY <1>6, <3>2, <3>3, <3>4
  <2>6. Swaps(u)'
    BY <1>1, <1>7, <2>1, <2>2, <2>3 DEF Careful, Swaps
  <2>7. Carries(u)'
    <3>1. PICK p : p = IF k.at = "rename" THEN k.path ELSE k.to
      OBVIOUS
    <3>2. SUFFICES ASSUME k.kind \in Moving, Shows(u), Counts(p)', Last(disk[p])'
                   PROVE  FALSE
      BY <1>1, <2>1, <2>2, <3>1 DEF Carries, Shows
    <3>3. p \in Path /\ Counts(p)
      BY <1>7, <2>1, <3>1, <3>2, StageIs
    <3>4. Last(disk[p]) /\ disk[p].of # text.of
      BY <1>6, <3>2, <3>3
    <3>5. text = disk[p]
      BY <2>1, <2>3, <3>1, <3>2, <3>3, <3>4 DEF Careful, Carries
    <3>6. QED
      BY <3>4, <3>5
  <2>8. Stores(u)'
    <3>1. SUFFICES ASSUME k.kind = "restore", Counts(k.path)'
                   PROVE  /\ k.at = "keep" => k.held = disk[k.path]
                          /\ k.at = "write" /\ Last(disk[k.path])' => Has(versions[k.path], disk[k.path])
      BY <1>1, <2>1, <2>2 DEF Stores, Has
    <3>2. Counts(k.path) /\ k.path \in Path
      BY <1>7, <2>1, <3>1, StageIs
    <3>3. QED
      BY <1>6, <2>1, <2>3, <3>1, <3>2 DEF Careful, Stores
  <2>9. QED
    BY <2>4, <2>5, <2>6, <2>7, <2>8 DEF Careful
<1>11. ASSUME NEW a \in Task, NEW u \in Task \ {a}
       PROVE  Alone(a, u)'
  BY <1>4, <1>7 DEF Guarded, Alone, Touches, Same
<1>12. QED
  BY <1>8, <1>9, <1>10, <1>11 DEF Guarded

\* A step without a call that leaves the notes alone, and may close the one that is shown.
LEMMA IdleGuarded ==
  ASSUME Typed, Guarded, TimerIdle \/ CloseNote \/ (\E p \in Path : Elapse(p)) \/ UNCHANGED vars
  PROVE  Guarded'
<1>1. /\ UNCHANGED <<disk, versions, trash, lineage, text, dirty, task, typed>> /\ active' \in {active, None}
      /\ excused \subseteq excused'
  BY DEF TimerIdle, CloseNote, Elapse, vars, files, bin, editor, history
<1>2. \A x : Last(x)' <=> Last(x)
  BY <1>1 DEF Last
<1>3. \A p : Counts(p)' => Counts(p)
  BY <1>1 DEF Counts
<1>4. Current'
  <2>1. CASE active' = None
    BY <2>1 DEF Current
  <2>2. CASE active' = active
    BY <1>1, <1>3, <2>2 DEF Guarded, Current, Counts, Last, OpensActive, Opener
  <2>3. QED
    BY <1>1, <2>1, <2>2
<1>5. Safe'
  <2>1. \A x : Held(x) => Held(x)'
    BY <1>1 DEF Held, InFiles, InVersions, InTrash, InCalls, InEditor
  <2>2. QED
    BY <1>1, <1>2, <2>1 DEF Guarded, Safe
<1>6. ASSUME NEW u \in Task
      PROVE  Careful(u)'
  <2>1. PICK k : k = task[u]
    OBVIOUS
  <2>2. task'[u] = k /\ Careful(u)
    BY <1>1, <2>1 DEF Guarded
  <2>3. Removing(u)'
    BY <1>1, <2>1, <2>2 DEF Careful, Removing, Below
  <2>4. Backed(u)'
    <3>1. SUFFICES ASSUME Saver(u), Counts(k.path)'
                   PROVE  /\ Last(disk[k.path])' => k.body = disk[k.path]
                          /\ k.path = active' /\ Last(k.body)' => text = k.body
      BY <1>1, <2>1, <2>2 DEF Backed, Saver
    <3>2. Counts(k.path) /\ k.path \in Path
      BY <1>3, <2>1, <3>1, StageIs DEF Saver
    <3>3. Last(disk[k.path])' <=> Last(disk[k.path])
      BY <1>1 DEF Last
    <3>4. k.path = active' => active' = active
      BY <1>1, <3>2, NoneApart
    <3>5. QED
      BY <1>2, <2>1, <2>2, <3>1, <3>2, <3>3, <3>4 DEF Careful, Backed
  <2>5. Swaps(u)'
    BY <1>1, <1>3, <2>1, <2>2 DEF Careful, Swaps
  <2>6. Carries(u)'
    <3>1. k.kind \in Moving /\ Shows(u)' => Shows(u)
      BY <1>1, <2>1, <2>2, StageIs, NoneApart DEF Shows
    <3>2. QED
      BY <1>1, <2>1, <2>2, <3>1 DEF Careful, Carries, Counts, Last
  <2>7. Stores(u)'
    BY <1>1, <2>2 DEF Careful, Stores, Counts, Last, Has
  <2>8. QED
    BY <2>3, <2>4, <2>5, <2>6, <2>7 DEF Careful
<1>7. ASSUME NEW a \in Task, NEW u \in Task \ {a}
      PROVE  Alone(a, u)'
  BY <1>1, <1>3 DEF Guarded, Alone, Touches
<1>8. QED
  BY <1>4, <1>5, <1>6, <1>7 DEF Guarded

\* With no call under way and no note shown, all that counts is that the last edits are somewhere.
LEMMA NoCallsGuarded ==
  ASSUME active = None, \A t \in Task : task[t] = NoTask, Safe
  PROVE  Guarded
<1>1. Current
  BY DEF Current
<1>2. ASSUME NEW t \in Task
      PROVE  task[t].kind = "none" /\ task[t].at = "done" /\ task[t].path = None /\ task[t].to = None
  BY DEF NoTask
<1>3. ASSUME NEW t \in Task
      PROVE  Careful(t)
  BY <1>2 DEF Careful, Removing, Backed, Swaps, Carries, Stores, Saver, Moving
<1>4. ASSUME NEW t \in Task, NEW u \in Task \ {t}
      PROVE  Alone(t, u)
  BY <1>2 DEF Alone, Touches
<1>5. QED
  BY <1>1, <1>3, <1>4 DEF Guarded

\* The same of the next state.
Restarted == active = None /\ (\A t \in Task : task[t] = NoTask) /\ Safe

\* With no call under way, the last edits are guarded if they are safe.
LEMMA RestartedGuarded == Restarted => Guarded
BY NoCallsGuarded DEF Restarted

\* What the app had not saved when it was closed is given up.
LEMMA CrashGuarded ==
  ASSUME Typed, Guarded, Crash
  PROVE  Guarded'
<1>1. /\ UNCHANGED <<disk, versions, trash, typed>>
      /\ excused' = excused \cup Unsaved \cup {task[t].body.of : t \in {u \in Task : task[u].body # None}}
      /\ active' = None /\ \A t \in Task : task'[t] = NoTask
  BY DEF Crash, bin
<1>2. ASSUME NEW l \in DOMAIN typed, l \notin excused'
      PROVE  \E x \in Text : x.of = l /\ Last(x)' /\ Held(x)'
  <2>1. PICK x \in Text : x.of = l /\ Last(x) /\ Held(x)
    BY <1>1, <1>2 DEF Guarded, Safe
  <2>2. ~InEditor(x)
    BY <1>1, <1>2, <2>1 DEF InEditor, Unsaved
  <2>3. ~InCalls(x)
    <3>1. SUFFICES ASSUME NEW u \in Task, task[u].body = x
                   PROVE  FALSE
      BY DEF InCalls
    <3>2. x # None
      BY NoneApart
    <3>3. x.of \in {task[t].body.of : t \in {v \in Task : task[v].body # None}}
      BY <3>1, <3>2
    <3>4. QED
      BY <1>1, <1>2, <2>1, <3>3
  <2>4. Held(x)'
    BY <1>1, <2>1, <2>2, <2>3 DEF Held, InFiles, InVersions, InTrash
  <2>5. Last(x)'
    BY <1>1, <2>1 DEF Last
  <2>6. QED
    BY <2>1, <2>4, <2>5
<1>3. Safe'
  BY <1>1, <1>2 DEF Safe
<1>4. Restarted'
  BY <1>1, <1>3 DEF Restarted
<1>5. QED
  BY <1>4, RestartedGuarded, PTL

\* Every step guards the last edits, if no race has crossed the notes.
GuardInv == ~crossed => Guarded
VaultInv == Typed /\ Showing /\ Numbered /\ Tidy /\ BornInv /\ HandInv /\ NoteInv /\ GuardInv

\* The last edits stay guarded with every step of the window.
LEMMA GuardStep == Typed /\ BornInv /\ HandInv /\ NoteInv /\ GuardInv /\ [Next]_vars => GuardInv'
<1> SUFFICES ASSUME Typed, BornInv, HandInv, NoteInv, GuardInv, [Next]_vars, ~crossed'
             PROVE  Guarded'
  BY DEF GuardInv
<1>1. Noted /\ Guarded
  BY CrossedStays DEF NoteInv, GuardInv
<1>2. Noted'
  BY NotedStep DEF NoteInv
<1>3. CASE \E t \in Task : Steps(t)
  BY <1>1, <1>2, <1>3, GuardedSteps
<1>4. CASE Edit
  BY <1>1, <1>4, EditGuarded
<1>5. CASE Crash
  BY <1>1, <1>5, CrashGuarded
<1>6. CASE TimerIdle \/ CloseNote \/ (\E p \in Path : Elapse(p)) \/ UNCHANGED vars
  BY <1>1, <1>6, IdleGuarded
<1>7. QED
  BY <1>3, <1>4, <1>5, <1>6, NextIs

\* The first notes have no edit, and are in their files.
LEMMA InitGuard == Init => GuardInv
<1> SUFFICES ASSUME Init
             PROVE  Guarded
  BY DEF GuardInv
<1>1. ASSUME NEW l \in DOMAIN typed
      PROVE  \E x \in Text : x.of = l /\ Last(x) /\ Held(x)
  <2>1. DOMAIN typed = Initial /\ typed[l] = 0 /\ l \in Initial
    BY DEF Init
  <2>2. l \in Path /\ l \in NoteId /\ 0 \in 0..MaxEdits
    BY <2>1, VaultAssumption DEF NoteId
  <2>3. PICK x : x = [of |-> l, rev |-> 0]
    OBVIOUS
  <2>4. x \in Text /\ x.of = l /\ x.rev = 0 /\ disk[l] = x
    BY <2>1, <2>2, <2>3 DEF Init, Text
  <2>5. Last(x) /\ Held(x)
    BY <2>1, <2>2, <2>4, NoneApart DEF Last, Held, InFiles
  <2>6. QED
    BY <2>4, <2>5
<1>2. Restarted
  BY <1>1 DEF Restarted, Safe, Init
<1>3. QED
  BY <1>2, RestartedGuarded

\* The invariants hold together.
LEMMA VaultAlways == Spec => []VaultInv
<1>1. Init => VaultInv
  BY InitTyped, InitTidy, InitBorn, InitHand, InitNoted, InitGuard DEF VaultInv
<1>2. VaultInv /\ [Next]_vars => VaultInv'
  BY TypedStep, TidyStep, BornStep, HandStep, NotedStep, GuardStep DEF VaultInv, Counted
<1>3. QED
  BY <1>1, <1>2, PTL DEF Spec

\* The newest edit of a note is on disk, in the trash, among the versions, in the hands of a
\* save, or in the editor and marked for one (the debounced save and the flush of openNote in
\* notes.ts, the flag of state/editor.svelte.ts that only a save of the newest contents clears,
\* and the version that VersionedBackend keeps before it overwrites) - but for the notes that
\* EditsKept lists as excused, real losses among them (a note deleted while another has unsaved
\* edits, a restore within the snapshot interval), and up to the first crossing of notes.
THEOREM EditsSurvive == Spec => []EditsKept
<1>1. VaultInv => EditsKept
  <2>1. SUFFICES ASSUME VaultInv, ~crossed, NEW l \in DOMAIN typed \ excused, NEW n,
                        n = [of |-> l, rev |-> typed[l]]
                 PROVE  \/ \E p \in Path : disk[p] = n
                        \/ \E i \in 0..MaxOps : trash[i] = n
                        \/ \E p \in Path : \E i \in 1..Len(versions[p]) : versions[p][i] = n
                        \/ \E t \in Task : task[t].body = n
                        \/ text = n /\ dirty # None
    BY DEF EditsKept
  <2>2. PICK x \in Text : x.of = l /\ Last(x) /\ Held(x)
    BY <2>1 DEF VaultInv, GuardInv, Guarded, Safe
  <2>3. x = n
    BY <2>1, <2>2 DEF Last, Text
  <2>4. QED
    BY <2>2, <2>3 DEF Held, InFiles, InVersions, InTrash, InCalls, InEditor, Has
<1>2. QED
  BY <1>1, VaultAlways, PTL
=============================================================================

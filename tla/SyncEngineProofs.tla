-------------------------- MODULE SyncEngineProofs --------------------------
(***************************************************************************)
(* Proofs about SyncEngine, for any devices, files, contents, retention of *)
(* tombstones and number of edits, faults and conflict copies: the types;  *)
(* what the manifest lists; what a sync replaces; and, while nothing       *)
(* fails, deletions, conflict copies and the last write of a file.         *)
(***************************************************************************)
EXTENDS SyncEngine, TLAPS

-----------------------------------------------------------------------------
\* Types.

\* The blank files, entries and hashes have the types they stand for.
LEMMA Blanks ==
  /\ NoFiles \in [Path -> File] /\ NoEntries \in [Path -> Entry] /\ NoHashes \in [Path -> Hash]
  /\ NoFile \in File /\ NoEntry \in Entry
  BY DEF NoFiles, NoEntries, NoHashes, NoFile, NoEntry, File, Entry, Hash

\* Writing one file keeps the type of the files.
LEMMA FileWritten ==
  ASSUME files \in [Device -> [Path -> File]], NEW d \in Device, NEW p \in Path, NEW f \in File
  PROVE  [files EXCEPT ![d][p] = f] \in [Device -> [Path -> File]]
  OBVIOUS

\* Ending the comparison of a path keeps the types.
LEMMA DoneTypes ==
  ASSUME TypeOK, NEW d \in Device, NEW p \in Path, NEW entry \in Entry, NEW hash \in Hash,
         Done(d, p, entry, hash)
  PROVE  /\ job' \in [Device -> Job] /\ pc' \in [Device -> Stage]
         /\ UNCHANGED <<state, manifest, now, expired, landed, newest>>
         /\ dirty' \subseteq Device \X Path
<1>1. job[d] \in Job
  BY DEF TypeOK
<1> DEFINE j == [job[d] EXCEPT !.todo = job[d].todo \ {p}, !.nextFiles[p] = entry, !.nextState[p] = hash]
<1>2. [job[d].nextFiles EXCEPT ![p] = entry] \in [Path -> Entry]
  BY <1>1 DEF Job
<1>3. [job[d].nextState EXCEPT ![p] = hash] \in [Path -> Hash]
  BY <1>1 DEF Job
<1>4. j \in Job
  BY <1>1, <1>2, <1>3 DEF Job
<1>5. job' = [job EXCEPT ![d] = j]
  BY DEF Done
<1>6. job' \in [Device -> Job]
  BY <1>4, <1>5 DEF TypeOK
<1>7. QED
  BY <1>6 DEF Done, TypeOK, Stage

\* What a comparison has in hand.
LEMMA InHand ==
  ASSUME TypeOK, NEW d \in Device, NEW p \in Path
  PROVE  /\ l(d, p) \in File /\ r(d, p) \in Entry /\ s(d, p) \in Hash
         /\ r(d, p).h \in Hash /\ l(d, p).h \in Hash /\ r(d, p).m \in Nat
         /\ l(d, p).m \in Nat /\ job[d].at \in Nat
<1>1. job[d] \in Job
  BY DEF TypeOK
<1>2. l(d, p) \in File /\ r(d, p) \in Entry /\ s(d, p) \in Hash /\ job[d].at \in Nat
  BY <1>1 DEF l, r, s, Job
<1>3. QED
  BY <1>2 DEF File, Entry

\* Every step keeps the types.
LEMMA TypeNext ==
  ASSUME TypeOK, [Next]_vars
  PROVE  TypeOK'
<1>1. ASSUME NEW d \in Device, NEW n \in Name, Delete(d, n)
      PROVE  TypeOK'
  <2>1. files' \in [Device -> [Path -> File]]
    <3>1. <<n, 0>> \in Path
      BY SyncAssumption DEF Path
    <3>2. QED
      BY <1>1, <3>1, FileWritten, Blanks DEF Delete, Write, TypeOK
  <2>2. newest' \in [Name -> Hash]
    BY <1>1 DEF Delete, Write, TypeOK, NoFile, Hash
  <2>3. QED
    BY <1>1, <2>1, <2>2, SyncAssumption DEF TypeOK, Delete, Write, relay
<1>2. ASSUME NEW d \in Device, NEW n \in Name, NEW c \in Content, Edit(d, n, c)
      PROVE  TypeOK'
  <2>1. <<n, 0>> \in Path /\ [h |-> c, m |-> now + 1] \in File
    BY SyncAssumption DEF Path, File, Hash, TypeOK
  <2>2. files' \in [Device -> [Path -> File]]
    BY <1>2, <2>1, FileWritten DEF Edit, Write, TypeOK
  <2>3. newest' \in [Name -> Hash]
    BY <1>2 DEF Edit, Write, TypeOK, Hash
  <2>4. dirty' \subseteq Device \X Path
    <3>1. dirty' = dirty \cup {<<d, <<n, 0>>>>} /\ dirty \subseteq Device \X Path
      BY <1>2 DEF Edit, TypeOK
    <3>2. <<d, <<n, 0>>>> \in Device \X Path
      BY <2>1
    <3>3. QED
      BY <3>1, <3>2
  <2>5. now' \in 0..MaxEdits
    BY <1>2, SyncAssumption DEF Edit, Write, TypeOK
  <2>6. QED
    BY <1>2, <2>2, <2>3, <2>4, <2>5 DEF TypeOK, Edit, Write, relay
<1>3. ASSUME NEW d \in Device, NEW unread, NEW st \in loadLocalState(d),
             Begin(d, unread, st)
      PROVE  TypeOK'
  BY <1>3, Blanks, SyncAssumption
  DEF TypeOK, relay, history, Stage, Begin, fetchManifest, walkCollection, loadLocalState,
      Ids, NoFile, NoEntry, Job
<1>4. ASSUME NEW d \in Device, NEW p \in Path, Same(d, p)
      PROVE  TypeOK'
  <2>1. r(d, p) \in Entry /\ r(d, p).h \in Hash
    BY InHand, Blanks DEF Entry, Hash, File
  <2>2. Done(d, p, r(d, p), r(d, p).h)
    BY <1>4 DEF Same
  <2>3. /\ job' \in [Device -> Job] /\ pc' \in [Device -> Stage]
        /\ UNCHANGED <<state, manifest, now, expired, landed, newest>>
        /\ dirty' \subseteq Device \X Path
    BY <2>1, <2>2, DoneTypes
  <2>4. files' \in [Device -> [Path -> File]] /\ blobs' \subseteq Blob
        /\ copies' \in 0..MaxCopies /\ faults' \in 0..MaxFaults
    BY <1>4 DEF TypeOK, Same
  <2>5. QED
    BY <2>3, <2>4 DEF TypeOK
<1>5. ASSUME NEW d \in Device, NEW p \in Path, Upload(d, p)
      PROVE  TypeOK'
  <2>1. [h |-> l(d, p).h, m |-> l(d, p).m, d |-> FALSE] \in Entry /\ l(d, p).h \in Hash
    BY InHand, Blanks DEF Entry, Hash, File
  <2>2. Done(d, p, [h |-> l(d, p).h, m |-> l(d, p).m, d |-> FALSE], l(d, p).h)
    BY <1>5 DEF Upload
  <2>3. /\ job' \in [Device -> Job] /\ pc' \in [Device -> Stage]
        /\ UNCHANGED <<state, manifest, now, expired, landed, newest>>
        /\ dirty' \subseteq Device \X Path
    BY <2>1, <2>2, DoneTypes
  <2>4. files' \in [Device -> [Path -> File]] /\ blobs' \subseteq Blob
        /\ copies' \in 0..MaxCopies /\ faults' \in 0..MaxFaults
    BY <1>5, InHand DEF TypeOK, Upload, MustUpload, Here, Differ, Blob, Hash
  <2>5. QED
    BY <2>3, <2>4 DEF TypeOK
<1>6. ASSUME NEW d \in Device, NEW p \in Path, Download(d, p)
      PROVE  TypeOK'
  <2>1. r(d, p) \in Entry /\ r(d, p).h \in Hash
    BY InHand, Blanks DEF Entry, Hash, File
  <2>2. Done(d, p, r(d, p), r(d, p).h)
    BY <1>6 DEF Download, Fetch
  <2>3. /\ job' \in [Device -> Job] /\ pc' \in [Device -> Stage]
        /\ UNCHANGED <<state, manifest, now, expired, landed, newest>>
        /\ dirty' \subseteq Device \X Path
    BY <2>1, <2>2, DoneTypes
  <2>4. files' \in [Device -> [Path -> File]] /\ blobs' \subseteq Blob
        /\ copies' \in 0..MaxCopies /\ faults' \in 0..MaxFaults
    BY <1>6, FileWritten, InHand, Blanks DEF TypeOK, File, Hash, Download, Fetch
  <2>5. QED
    BY <2>3, <2>4 DEF TypeOK
<1>7. ASSUME NEW d \in Device, NEW p \in Path, CopyAside(d, p)
      PROVE  TypeOK'
  <2>1. copies' \in 0..MaxCopies /\ <<p[1], copies'>> \in Path
    BY <1>7, SyncAssumption DEF CopyAside, TypeOK, Path
  <2>2. [h |-> l(d, p).h, m |-> now] \in File
    BY InHand DEF File, TypeOK
  <2>3. files' \in [Device -> [Path -> File]]
    BY <1>7, <2>1, <2>2, FileWritten DEF CopyAside, TypeOK
  <2>4. [job[d] EXCEPT !.cur = p] \in Job /\ job' = [job EXCEPT ![d] = [job[d] EXCEPT !.cur = p]]
    <3>1. job' = [job EXCEPT ![d] = [job[d] EXCEPT !.cur = p]]
      BY <1>7 DEF CopyAside
    <3>2. job[d] \in Job
      BY DEF TypeOK
    <3>3. [job[d] EXCEPT !.cur = p] \in Job
      BY <3>2 DEF Job
    <3>4. QED
      BY <3>1, <3>3
  <2>5. job' \in [Device -> Job]
    BY <2>4 DEF TypeOK
  <2>6. QED
    BY <1>7, <2>1, <2>3, <2>5 DEF CopyAside, TypeOK, relay, history, Stage
<1>8. ASSUME NEW d \in Device, NEW p \in Path, DownloadWinner(d, p)
      PROVE  TypeOK'
  <2>1. r(d, p) \in Entry /\ r(d, p).h \in Hash
    BY InHand, Blanks DEF Entry, Hash, File
  <2>2. Done(d, p, r(d, p), r(d, p).h)
    BY <1>8 DEF DownloadWinner, Fetch
  <2>3. /\ job' \in [Device -> Job] /\ pc' \in [Device -> Stage]
        /\ UNCHANGED <<state, manifest, now, expired, landed, newest>>
        /\ dirty' \subseteq Device \X Path
    BY <2>1, <2>2, DoneTypes
  <2>4. files' \in [Device -> [Path -> File]] /\ blobs' \subseteq Blob
        /\ copies' \in 0..MaxCopies /\ faults' \in 0..MaxFaults
    BY <1>8, FileWritten, InHand, Blanks DEF TypeOK, File, Hash, DownloadWinner, Fetch
  <2>5. QED
    BY <2>3, <2>4 DEF TypeOK
<1>9. ASSUME NEW d \in Device, NEW p \in Path, RemoveLocal(d, p)
      PROVE  TypeOK'
  <2>1. r(d, p) \in Entry /\ None \in Hash
    BY InHand, Blanks DEF Entry, Hash, File
  <2>2. Done(d, p, r(d, p), None)
    BY <1>9 DEF RemoveLocal
  <2>3. /\ job' \in [Device -> Job] /\ pc' \in [Device -> Stage]
        /\ UNCHANGED <<state, manifest, now, expired, landed, newest>>
        /\ dirty' \subseteq Device \X Path
    BY <2>1, <2>2, DoneTypes
  <2>4. files' \in [Device -> [Path -> File]] /\ blobs' \subseteq Blob
        /\ copies' \in 0..MaxCopies /\ faults' \in 0..MaxFaults
    BY <1>9, FileWritten, InHand, Blanks DEF TypeOK, File, Hash, RemoveLocal
  <2>5. QED
    BY <2>3, <2>4 DEF TypeOK
<1>10. ASSUME NEW d \in Device, NEW p \in Path, Tombstone(d, p)
      PROVE  TypeOK'
  <2>1. [r(d, p) EXCEPT !.d = TRUE, !.m = job[d].at] \in Entry /\ None \in Hash
    BY InHand, Blanks DEF Entry, Hash, File
  <2>2. Done(d, p, [r(d, p) EXCEPT !.d = TRUE, !.m = job[d].at], None)
    BY <1>10 DEF Tombstone
  <2>3. /\ job' \in [Device -> Job] /\ pc' \in [Device -> Stage]
        /\ UNCHANGED <<state, manifest, now, expired, landed, newest>>
        /\ dirty' \subseteq Device \X Path
    BY <2>1, <2>2, DoneTypes
  <2>4. files' \in [Device -> [Path -> File]] /\ blobs' \subseteq Blob
        /\ copies' \in 0..MaxCopies /\ faults' \in 0..MaxFaults
    BY <1>10 DEF TypeOK, Tombstone
  <2>5. QED
    BY <2>3, <2>4 DEF TypeOK
<1>11. ASSUME NEW d \in Device, NEW p \in Path, KeepTombstone(d, p)
      PROVE  TypeOK'
  <2>1. (IF job[d].at - r(d, p).m > PruneAge THEN NoEntry ELSE r(d, p)) \in Entry /\ None \in Hash
    BY InHand, Blanks DEF Entry, Hash, File
  <2>2. Done(d, p, (IF job[d].at - r(d, p).m > PruneAge THEN NoEntry ELSE r(d, p)), None)
    BY <1>11 DEF KeepTombstone
  <2>3. /\ job' \in [Device -> Job] /\ pc' \in [Device -> Stage]
        /\ UNCHANGED <<state, manifest, now, expired, landed, newest>>
        /\ dirty' \subseteq Device \X Path
    BY <2>1, <2>2, DoneTypes
  <2>4. files' \in [Device -> [Path -> File]] /\ blobs' \subseteq Blob
        /\ copies' \in 0..MaxCopies /\ faults' \in 0..MaxFaults
    BY <1>11 DEF TypeOK, KeepTombstone
  <2>5. QED
    BY <2>3, <2>4 DEF TypeOK
<1>12. ASSUME NEW d \in Device, NEW p \in Path, BlobMissing(d, p)
      PROVE  TypeOK'
  <2>1. r(d, p) \in Entry /\ None \in Hash
    BY InHand, Blanks DEF Entry, Hash, File
  <2>2. Done(d, p, r(d, p), None)
    BY <1>12 DEF BlobMissing
  <2>3. /\ job' \in [Device -> Job] /\ pc' \in [Device -> Stage]
        /\ UNCHANGED <<state, manifest, now, expired, landed, newest>>
        /\ dirty' \subseteq Device \X Path
    BY <2>1, <2>2, DoneTypes
  <2>4. files' \in [Device -> [Path -> File]] /\ blobs' \subseteq Blob
        /\ copies' \in 0..MaxCopies /\ faults' \in 0..MaxFaults
    BY <1>12 DEF TypeOK, BlobMissing
  <2>5. QED
    BY <2>3, <2>4 DEF TypeOK
<1>13. ASSUME NEW d \in Device, RemoveManifest(d)
      PROVE  TypeOK'
  BY <1>13 DEF RemoveManifest, TypeOK, history, Stage
<1>14. ASSUME NEW d \in Device, PutManifest(d)
      PROVE  TypeOK'
  <2>1. job[d] \in Job
    BY DEF TypeOK
  <2>2. job' = [job EXCEPT ![d] = [job[d] EXCEPT !.stale = Orphans(d)]]
    BY <1>14 DEF PutManifest, TypeOK
  <2>3. job' \in [Device -> Job]
    BY <2>1, <2>2 DEF TypeOK, Job, Orphans
  <2>4. manifest' \in [Path -> Entry] \cup {NoManifest} /\ landed' \subseteq Blob
    BY <1>14, <2>1 DEF PutManifest, TypeOK, Job
  <2>5. QED
    BY <1>14, <2>3, <2>4 DEF PutManifest, TypeOK, Stage
<1>15. ASSUME NEW d \in Device, NEW b \in Blob, DropBlob(d, b)
      PROVE  TypeOK'
  <2>1. job[d] \in Job /\ job' = [job EXCEPT ![d] = [job[d] EXCEPT !.stale = job[d].stale \ {b}]]
    BY <1>15 DEF DropBlob, TypeOK
  <2>2. job' \in [Device -> Job]
    BY <2>1 DEF TypeOK, Job
  <2>3. QED
    BY <1>15, <2>2, SyncAssumption DEF DropBlob, TypeOK, history
<1>16. ASSUME NEW d \in Device, Save(d)
      PROVE  TypeOK'
  <2>1. state' \in [Device -> [Path -> Hash]] /\ job' \in [Device -> Job]
    BY <1>16, Blanks DEF Save, TypeOK, Job, NoJob
  <2>2. QED
    BY <1>16, <2>1 DEF Save, TypeOK, relay, history, Stage
<1>17. ASSUME NEW d \in Device, NEW p \in Path, PathFails(d, p)
      PROVE  TypeOK'
  <2>1. r(d, p) \in Entry /\ None \in Hash
    BY InHand, Blanks DEF Entry, Hash, File
  <2>2. Done(d, p, r(d, p), None)
    BY <1>17 DEF PathFails
  <2>3. /\ job' \in [Device -> Job] /\ pc' \in [Device -> Stage]
        /\ UNCHANGED <<state, manifest, now, expired, landed, newest>>
        /\ dirty' \subseteq Device \X Path
    BY <2>1, <2>2, DoneTypes
  <2>4. files' \in [Device -> [Path -> File]] /\ blobs' \subseteq Blob
        /\ copies' \in 0..MaxCopies /\ faults' \in 0..MaxFaults
    BY <1>17, InHand, SyncAssumption DEF TypeOK, PathFails, MustUpload, Here, Differ, Blob, Hash
  <2>5. QED
    BY <2>3, <2>4 DEF TypeOK
<1>18. ASSUME NEW d \in Device, Abort(d)
      PROVE  TypeOK'
  BY <1>18, Blanks, SyncAssumption DEF TypeOK, relay, history, Stage, Abort, NoJob, Job
<1>19. ASSUME NEW b \in Blob, Expire(b)
      PROVE  TypeOK'
  BY <1>19 DEF Expire, TypeOK, history
<1>20. ASSUME ExpireManifest
      PROVE  TypeOK'
  BY <1>20, SyncAssumption DEF ExpireManifest, TypeOK, history
<1>21. CASE UNCHANGED vars
  BY <1>21 DEF TypeOK, vars, relay, history
<1>22. QED
  BY <1>1, <1>2, <1>3, <1>4, <1>5, <1>6, <1>7, <1>8, <1>9, <1>10,
     <1>11, <1>12, <1>13, <1>14, <1>15, <1>16, <1>17, <1>18, <1>19, <1>20, <1>21
  DEF Next, User, Step, Compare

-----------------------------------------------------------------------------
\* The inductive invariant of syncs that follow each other.

\* At most one device syncs.
Alone == \A d, e \in Device : pc[d] # "idle" /\ pc[e] # "idle" => d = e

\* What the entries list can be downloaded, unless its retention is over.
Backed(es) == \A p \in Path : Live(es[p]) => <<p, es[p].h>> \in blobs \cup expired

\* The manifest is backed, and so is what a sync takes from it and what it builds;
\* the manifest is away while it is replaced; what is to be dropped afterwards is
\* not in the new one.
AllBacked ==
  /\ ManifestBacked
  /\ \A d \in Device :
       /\ pc[d] \in {"paths", "copied"} => Backed(job[d].remote) /\ Backed(job[d].nextFiles)
       /\ pc[d] = "publishing" => manifest = NoManifest /\ Backed(job[d].nextFiles)
       /\ pc[d] = "dropping" => /\ manifest \in {NoManifest, job[d].nextFiles}
                                /\ job[d].stale \cap Ids(job[d].nextFiles) = {}

SInv == TypeOK /\ Alone /\ AllBacked

\* Without overlap a sync starts only when no other one is under way.
LEMMA AloneNext ==
  ASSUME Overlap = FALSE, TypeOK, Alone, [Next]_vars
  PROVE  Alone'
<1> USE DEF TypeOK, Alone, Stage
<1>1. ASSUME NEW d \in Device, NEW n \in Name, Delete(d, n)
      PROVE  Alone'
  BY <1>1 DEF Delete, Write
<1>2. ASSUME NEW d \in Device, NEW n \in Name, NEW c \in Content, Edit(d, n, c)
      PROVE  Alone'
  BY <1>2 DEF Edit, Write
<1>3. ASSUME NEW d \in Device, NEW unread, NEW st \in loadLocalState(d),
             Begin(d, unread, st)
      PROVE  Alone'
  BY <1>3 DEF Begin
<1>4. ASSUME NEW d \in Device, NEW p \in Path, Same(d, p)
      PROVE  Alone'
  BY <1>4 DEF Same, At, Done
<1>5. ASSUME NEW d \in Device, NEW p \in Path, Upload(d, p)
      PROVE  Alone'
  BY <1>5 DEF Upload, At, Done
<1>6. ASSUME NEW d \in Device, NEW p \in Path, Download(d, p)
      PROVE  Alone'
  BY <1>6 DEF Download, At, Fetch, Done
<1>7. ASSUME NEW d \in Device, NEW p \in Path, CopyAside(d, p)
      PROVE  Alone'
  BY <1>7 DEF CopyAside, At
<1>8. ASSUME NEW d \in Device, NEW p \in Path, DownloadWinner(d, p)
      PROVE  Alone'
  BY <1>8 DEF DownloadWinner, Copied, Fetch, Done
<1>9. ASSUME NEW d \in Device, NEW p \in Path, RemoveLocal(d, p)
      PROVE  Alone'
  BY <1>9 DEF RemoveLocal, At, Done
<1>10. ASSUME NEW d \in Device, NEW p \in Path, Tombstone(d, p)
      PROVE  Alone'
  BY <1>10 DEF Tombstone, At, Done
<1>11. ASSUME NEW d \in Device, NEW p \in Path, KeepTombstone(d, p)
      PROVE  Alone'
  BY <1>11 DEF KeepTombstone, At, Done
<1>12. ASSUME NEW d \in Device, NEW p \in Path, BlobMissing(d, p)
      PROVE  Alone'
  BY <1>12 DEF BlobMissing, At, Copied, Done
<1>13. ASSUME NEW d \in Device, RemoveManifest(d)
      PROVE  Alone'
  BY <1>13 DEF RemoveManifest
<1>14. ASSUME NEW d \in Device, PutManifest(d)
      PROVE  Alone'
  BY <1>14 DEF PutManifest
<1>15. ASSUME NEW d \in Device, NEW b \in Blob, DropBlob(d, b)
      PROVE  Alone'
  BY <1>15 DEF DropBlob
<1>16. ASSUME NEW d \in Device, Save(d)
      PROVE  Alone'
  BY <1>16 DEF Save
<1>17. ASSUME NEW d \in Device, NEW p \in Path, PathFails(d, p)
      PROVE  Alone'
  BY <1>17 DEF PathFails, At, Copied, Done
<1>18. ASSUME NEW d \in Device, Abort(d)
      PROVE  Alone'
  BY <1>18 DEF Abort
<1>19. ASSUME NEW b \in Blob, Expire(b)
      PROVE  Alone'
  BY <1>19 DEF Expire
<1>20. ASSUME ExpireManifest
      PROVE  Alone'
  BY <1>20 DEF ExpireManifest
<1>21. CASE UNCHANGED vars
  BY <1>21 DEF vars
<1>22. QED
  BY <1>1, <1>2, <1>3, <1>4, <1>5, <1>6, <1>7, <1>8, <1>9, <1>10,
     <1>11, <1>12, <1>13, <1>14, <1>15, <1>16, <1>17, <1>18, <1>19, <1>20, <1>21
  DEF Next, User, Step, Compare

\* Ending the comparison of a path with an entry whose blob is there.
LEMMA DoneBacked ==
  ASSUME TypeOK, Alone, AllBacked, NEW d \in Device, NEW p \in Path,
         NEW entry \in Entry, NEW hash,
         pc[d] \in {"paths", "copied"}, Done(d, p, entry, hash), blobs \subseteq blobs',
         Live(entry) => <<p, entry.h>> \in blobs' \cup expired
  PROVE  AllBacked'
<1>1. /\ pc' = [pc EXCEPT ![d] = "paths"] /\ UNCHANGED <<manifest, expired>>
      /\ \A e \in Device \ {d} : pc'[e] = "idle"
      /\ pc'[d] = "paths"
  BY DEF TypeOK, Alone, Done
<1>2. job[d] \in Job
  BY DEF TypeOK
<1>3. job'[d].remote = job[d].remote /\ job'[d].nextFiles = [job[d].nextFiles EXCEPT ![p] = entry]
  BY <1>2 DEF Done, TypeOK, Job
<1>4. Backed(job[d].remote) /\ Backed(job[d].nextFiles)
  BY DEF AllBacked
<1>5. Backed(job[d].remote)'
  BY <1>1, <1>3, <1>4 DEF Backed
<1>6. Backed(job[d].nextFiles)'
  <2>1. job[d].nextFiles \in [Path -> Entry]
    BY <1>2 DEF Job
  <2>2. SUFFICES ASSUME NEW q \in Path, Live(job'[d].nextFiles[q])
                 PROVE  <<q, job'[d].nextFiles[q].h>> \in blobs' \cup expired
    BY <1>1 DEF Backed
  <2>3. CASE q = p
    BY <1>3, <2>1, <2>2, <2>3
  <2>4. CASE q # p
    BY <1>3, <1>4, <2>1, <2>2, <2>4 DEF Backed
  <2>5. QED
    BY <2>3, <2>4
<1>7. ManifestBacked'
  BY <1>1 DEF AllBacked, ManifestBacked
<1>8. QED
  BY <1>1, <1>5, <1>6, <1>7 DEF AllBacked, Backed

\* What a sync drops is not listed by the manifest.
LEMMA DroppedIsOrphan ==
  ASSUME TypeOK, AllBacked, manifest # NoManifest,
         NEW d \in Device, NEW b \in Blob, DropBlob(d, b)
  PROVE  manifest[b[1]].h # b[2]
<1>1. pc[d] = "dropping" /\ b \in job[d].stale
  BY DEF DropBlob
<1>2. b \notin Ids(job[d].nextFiles) /\ manifest = job[d].nextFiles
  BY <1>1 DEF AllBacked
<1>3. QED
  BY <1>2 DEF Ids

\* Every step keeps the entries of the manifest and of the one in the making backed.
LEMMA AllBackedNext ==
  ASSUME Overlap = FALSE, TypeOK, Alone, AllBacked, [Next]_vars
  PROVE  AllBacked'
<1>1. ASSUME NEW d \in Device, NEW n \in Name, Delete(d, n)
      PROVE  AllBacked'
  BY <1>1 DEF Delete, Write, relay, AllBacked, ManifestBacked, Backed
<1>2. ASSUME NEW d \in Device, NEW n \in Name, NEW c \in Content, Edit(d, n, c)
      PROVE  AllBacked'
  BY <1>2 DEF Edit, Write, relay, AllBacked, ManifestBacked, Backed
<1>3. ASSUME NEW d \in Device, NEW unread, NEW st \in loadLocalState(d),
             Begin(d, unread, st)
      PROVE  AllBacked'
  <2> DEFINE remote == IF manifest = NoManifest THEN NoEntries ELSE manifest
  <2>1. /\ \A e \in Device \ {d} : pc'[e] = "idle"
        /\ pc'[d] = "paths" /\ UNCHANGED <<manifest, blobs, expired>>
    BY <1>3 DEF Begin, TypeOK, Stage, relay
  <2>2. job'[d].remote = remote /\ job'[d].nextFiles = remote
    BY <1>3 DEF Begin, fetchManifest, walkCollection, loadLocalState, TypeOK
  <2>3. Backed(remote)'
    BY <2>1 DEF AllBacked, ManifestBacked, Backed, NoEntries, NoEntry, Live
  <2>4. QED
    BY <2>1, <2>2, <2>3 DEF AllBacked, ManifestBacked, Backed
<1>4. ASSUME NEW d \in Device, NEW p \in Path, Same(d, p)
      PROVE  AllBacked'
  <2>1. pc[d] \in {"paths", "copied"}
    BY <1>4 DEF Same, At
  <2>2. Backed(job[d].remote)
    BY <2>1 DEF AllBacked
  <2>3. Live(r(d, p)) => <<p, r(d, p).h>> \in blobs \cup expired
    BY <2>2 DEF Backed, r
  <2>4. QED
    BY <1>4, <2>1, <2>3, InHand, DoneBacked DEF Same
<1>5. ASSUME NEW d \in Device, NEW p \in Path, Upload(d, p)
      PROVE  AllBacked'
  <2>1. pc[d] \in {"paths", "copied"}
    BY <1>5 DEF Upload, At
  <2> DEFINE entry == [h |-> l(d, p).h, m |-> l(d, p).m, d |-> FALSE]
  <2>2. entry \in Entry
    BY InHand DEF Entry
  <2>3. Done(d, p, entry, l(d, p).h) /\ blobs' = blobs \cup {<<p, l(d, p).h>>}
    BY <1>5 DEF Upload
  <2> HIDE DEF entry
  <2>4. <<p, entry.h>> \in blobs'
    BY <2>3 DEF entry
  <2>5. QED
    BY <2>1, <2>2, <2>3, <2>4, DoneBacked
<1>6. ASSUME NEW d \in Device, NEW p \in Path, Download(d, p)
      PROVE  AllBacked'
  <2>1. pc[d] \in {"paths", "copied"}
    BY <1>6 DEF Download, At
  <2>2. Backed(job[d].remote)
    BY <2>1 DEF AllBacked
  <2>3. Live(r(d, p)) => <<p, r(d, p).h>> \in blobs \cup expired
    BY <2>2 DEF Backed, r
  <2>4. QED
    BY <1>6, <2>1, <2>3, InHand, DoneBacked DEF Download, Fetch
<1>7. ASSUME NEW d \in Device, NEW p \in Path, CopyAside(d, p)
      PROVE  AllBacked'
  <2>1. /\ \A e \in Device \ {d} : pc'[e] = "idle"
        /\ pc[d] = "paths" /\ pc'[d] = "copied" /\ UNCHANGED <<manifest, blobs, expired>>
    BY <1>7 DEF CopyAside, At, TypeOK, Alone, relay
  <2>2. job'[d].remote = job[d].remote /\ job'[d].nextFiles = job[d].nextFiles
    BY <1>7 DEF CopyAside, TypeOK, Job
  <2>3. QED
    BY <2>1, <2>2 DEF AllBacked, ManifestBacked, Backed
<1>8. ASSUME NEW d \in Device, NEW p \in Path, DownloadWinner(d, p)
      PROVE  AllBacked'
  <2>1. pc[d] \in {"paths", "copied"}
    BY <1>8 DEF DownloadWinner, At, Copied
  <2>2. Backed(job[d].remote)
    BY <2>1 DEF AllBacked
  <2>3. Live(r(d, p)) => <<p, r(d, p).h>> \in blobs \cup expired
    BY <2>2 DEF Backed, r
  <2>4. QED
    BY <1>8, <2>1, <2>3, InHand, DoneBacked DEF DownloadWinner, Fetch
<1>9. ASSUME NEW d \in Device, NEW p \in Path, RemoveLocal(d, p)
      PROVE  AllBacked'
  <2>1. pc[d] \in {"paths", "copied"}
    BY <1>9 DEF RemoveLocal, At
  <2>2. Backed(job[d].remote)
    BY <2>1 DEF AllBacked
  <2>3. Live(r(d, p)) => <<p, r(d, p).h>> \in blobs \cup expired
    BY <2>2 DEF Backed, r
  <2>4. QED
    BY <1>9, <2>1, <2>3, InHand, DoneBacked DEF RemoveLocal
<1>10. ASSUME NEW d \in Device, NEW p \in Path, Tombstone(d, p)
      PROVE  AllBacked'
  <2>1. pc[d] \in {"paths", "copied"}
    BY <1>10 DEF Tombstone, At
  <2> DEFINE entry == [r(d, p) EXCEPT !.d = TRUE, !.m = job[d].at]
  <2>2. entry \in Entry /\ entry.d
    BY InHand DEF Entry
  <2>3. Done(d, p, entry, None) /\ blobs' = blobs
    BY <1>10 DEF Tombstone
  <2>4. Live(entry) => <<p, entry.h>> \in blobs' \cup expired
    BY <2>2 DEF Live
  <2> HIDE DEF entry
  <2>5. QED
    BY <2>1, <2>2, <2>3, <2>4, DoneBacked
<1>11. ASSUME NEW d \in Device, NEW p \in Path, KeepTombstone(d, p)
      PROVE  AllBacked'
  <2>1. pc[d] \in {"paths", "copied"} /\ r(d, p).d /\ UNCHANGED blobs
    BY <1>11 DEF KeepTombstone, At
  <2>2. /\ Live(NoEntry) => <<p, NoEntry.h>> \in blobs' \cup expired
        /\ Live(r(d, p)) => <<p, r(d, p).h>> \in blobs' \cup expired
    BY <2>1 DEF Live, NoEntry
  <2>3. CASE Done(d, p, NoEntry, None)
    BY <2>1, <2>2, <2>3, Blanks, DoneBacked
  <2>4. CASE Done(d, p, r(d, p), None)
    BY <2>1, <2>2, <2>4, InHand, DoneBacked
  <2>5. QED
    BY <1>11, <2>3, <2>4 DEF KeepTombstone
<1>12. ASSUME NEW d \in Device, NEW p \in Path, BlobMissing(d, p)
      PROVE  AllBacked'
  <2>1. pc[d] \in {"paths", "copied"}
    BY <1>12 DEF BlobMissing, At, Copied
  <2>2. Backed(job[d].remote)
    BY <2>1 DEF AllBacked
  <2>3. Live(r(d, p)) => <<p, r(d, p).h>> \in blobs \cup expired
    BY <2>2 DEF Backed, r
  <2>4. QED
    BY <1>12, <2>1, <2>3, InHand, DoneBacked DEF BlobMissing
<1>13. ASSUME NEW d \in Device, RemoveManifest(d)
      PROVE  AllBacked'
  <2>1. /\ \A e \in Device \ {d} : pc'[e] = "idle"
        /\ pc[d] = "paths" /\ pc'[d] = "publishing" /\ manifest' = NoManifest
        /\ UNCHANGED <<job, blobs, expired>>
    BY <1>13 DEF RemoveManifest, TypeOK, Alone
  <2>2. QED
    BY <2>1 DEF AllBacked, ManifestBacked, Backed
<1>14. ASSUME NEW d \in Device, PutManifest(d)
      PROVE  AllBacked'
  <2>1. /\ \A e \in Device \ {d} : pc'[e] = "idle"
        /\ pc[d] = "publishing" /\ pc'[d] = "dropping" /\ UNCHANGED <<blobs, expired>>
    BY <1>14 DEF PutManifest, TypeOK, Alone
  <2>2. manifest' = job[d].nextFiles /\ Backed(job[d].nextFiles)
    BY <1>14, <2>1 DEF PutManifest, AllBacked
  <2>3. job'[d].nextFiles = job[d].nextFiles /\ job'[d].stale = Orphans(d)
    BY <1>14 DEF PutManifest, TypeOK, Job
  <2>4. job'[d].stale \cap Ids(job'[d].nextFiles) = {}
    BY <2>3 DEF Orphans
  <2>5. ManifestBacked'
    BY <2>1, <2>2 DEF ManifestBacked, Backed
  <2>6. QED
    BY <2>1, <2>2, <2>3, <2>4, <2>5 DEF AllBacked
<1>15. ASSUME NEW d \in Device, NEW b \in Blob, DropBlob(d, b)
      PROVE  AllBacked'
  <2>1. /\ \A e \in Device : pc'[e] = pc[e]
        /\ \A e \in Device \ {d} : pc[e] = "idle"
        /\ pc[d] = "dropping" /\ UNCHANGED <<manifest, expired>>
        /\ blobs \ {b} \subseteq blobs'
    BY <1>15 DEF DropBlob, Alone
  <2>2. job'[d].nextFiles = job[d].nextFiles /\ job'[d].stale \subseteq job[d].stale
    BY <1>15 DEF DropBlob, TypeOK, Job
  <2>3. ManifestBacked'
    BY <1>15, <2>1, DroppedIsOrphan DEF AllBacked, ManifestBacked
  <2>4. QED
    BY <2>1, <2>2, <2>3 DEF AllBacked
<1>16. ASSUME NEW d \in Device, Save(d)
      PROVE  AllBacked'
  <2>1. /\ \A e \in Device : pc'[e] = "idle"
        /\ UNCHANGED <<manifest, blobs, expired>>
    BY <1>16 DEF Save, TypeOK, Alone, relay
  <2>2. QED
    BY <2>1 DEF AllBacked, ManifestBacked
<1>17. ASSUME NEW d \in Device, NEW p \in Path, PathFails(d, p)
      PROVE  AllBacked'
  <2>1. pc[d] \in {"paths", "copied"}
    BY <1>17 DEF PathFails, At, Copied
  <2>2. Backed(job[d].remote)
    BY <2>1 DEF AllBacked
  <2>3. Live(r(d, p)) => <<p, r(d, p).h>> \in blobs \cup expired
    BY <2>2 DEF Backed, r
  <2>4. QED
    BY <1>17, <2>1, <2>3, InHand, DoneBacked DEF PathFails
<1>18. ASSUME NEW d \in Device, Abort(d)
      PROVE  AllBacked'
  <2>1. /\ \A e \in Device : pc'[e] = "idle"
        /\ UNCHANGED <<manifest, blobs, expired>>
    BY <1>18 DEF Abort, TypeOK, Alone, relay
  <2>2. QED
    BY <2>1 DEF AllBacked, ManifestBacked
<1>19. ASSUME NEW b \in Blob, Expire(b)
      PROVE  AllBacked'
  <2>1. UNCHANGED <<manifest, pc, job>> /\ blobs \cup expired \subseteq blobs' \cup expired'
    BY <1>19 DEF Expire
  <2>2. QED
    BY <2>1 DEF AllBacked, ManifestBacked, Backed
<1>20. ASSUME ExpireManifest
      PROVE  AllBacked'
  <2>1. UNCHANGED <<pc, job, blobs, expired>> /\ manifest' = NoManifest
    BY <1>20 DEF ExpireManifest
  <2>2. QED
    BY <2>1 DEF AllBacked, ManifestBacked, Backed
<1>21. CASE UNCHANGED vars
  BY <1>21 DEF vars, relay, AllBacked, ManifestBacked, Backed
<1>22. QED
  BY <1>1, <1>2, <1>3, <1>4, <1>5, <1>6, <1>7, <1>8, <1>9, <1>10,
     <1>11, <1>12, <1>13, <1>14, <1>15, <1>16, <1>17, <1>18, <1>19, <1>20, <1>21
  DEF Next, User, Step, Compare

\* The initial state has the types.
LEMMA InitTypes ==
  ASSUME Init
  PROVE  TypeOK
<1>1. NoJob \in Job
  BY Blanks DEF NoJob, Job
<1>2. QED
  BY <1>1, Blanks, SyncAssumption DEF Init, TypeOK, Stage, Hash

\* The file blobs that leave the relay before their retention ends are dropped by a sync.
OnlyDrops == \A c \in blobs : c \in blobs' \cup expired' \/ \E d \in Device : DropBlob(d, c)

\* Nothing but a sync that drops stale blobs, or the end of a retention, removes a blob.
LEMMA OnlyDropRemoves ==
  ASSUME TypeOK, [Next]_vars
  PROVE  OnlyDrops
<1>1. ASSUME NEW d \in Device, NEW n \in Name, Delete(d, n)
      PROVE  OnlyDrops
  BY <1>1 DEF Delete, Write, relay, OnlyDrops
<1>2. ASSUME NEW d \in Device, NEW n \in Name, NEW c \in Content, Edit(d, n, c)
      PROVE  OnlyDrops
  BY <1>2 DEF Edit, Write, relay, OnlyDrops
<1>3. ASSUME NEW d \in Device, NEW unread, NEW st \in loadLocalState(d),
             Begin(d, unread, st)
      PROVE  OnlyDrops
  BY <1>3 DEF Begin, relay, OnlyDrops
<1>4. ASSUME NEW d \in Device, NEW p \in Path, Same(d, p)
      PROVE  OnlyDrops
  BY <1>4 DEF Same, OnlyDrops
<1>5. ASSUME NEW d \in Device, NEW p \in Path, Upload(d, p)
      PROVE  OnlyDrops
  BY <1>5 DEF Upload, OnlyDrops
<1>6. ASSUME NEW d \in Device, NEW p \in Path, Download(d, p)
      PROVE  OnlyDrops
  BY <1>6 DEF Download, Fetch, OnlyDrops
<1>7. ASSUME NEW d \in Device, NEW p \in Path, CopyAside(d, p)
      PROVE  OnlyDrops
  BY <1>7 DEF CopyAside, relay, OnlyDrops
<1>8. ASSUME NEW d \in Device, NEW p \in Path, DownloadWinner(d, p)
      PROVE  OnlyDrops
  BY <1>8 DEF DownloadWinner, Fetch, OnlyDrops
<1>9. ASSUME NEW d \in Device, NEW p \in Path, RemoveLocal(d, p)
      PROVE  OnlyDrops
  BY <1>9 DEF RemoveLocal, OnlyDrops
<1>10. ASSUME NEW d \in Device, NEW p \in Path, Tombstone(d, p)
      PROVE  OnlyDrops
  BY <1>10 DEF Tombstone, OnlyDrops
<1>11. ASSUME NEW d \in Device, NEW p \in Path, KeepTombstone(d, p)
      PROVE  OnlyDrops
  BY <1>11 DEF KeepTombstone, OnlyDrops
<1>12. ASSUME NEW d \in Device, NEW p \in Path, BlobMissing(d, p)
      PROVE  OnlyDrops
  BY <1>12 DEF BlobMissing, OnlyDrops
<1>13. ASSUME NEW d \in Device, RemoveManifest(d)
      PROVE  OnlyDrops
  BY <1>13 DEF RemoveManifest, OnlyDrops
<1>14. ASSUME NEW d \in Device, PutManifest(d)
      PROVE  OnlyDrops
  BY <1>14 DEF PutManifest, OnlyDrops
<1>15. ASSUME NEW d \in Device, NEW b \in Blob, DropBlob(d, b)
      PROVE  OnlyDrops
  <2>1. blobs \ {b} \subseteq blobs'
    BY <1>15 DEF DropBlob
  <2>2. QED
    BY <1>15, <2>1 DEF OnlyDrops
<1>16. ASSUME NEW d \in Device, Save(d)
      PROVE  OnlyDrops
  BY <1>16 DEF Save, relay, OnlyDrops
<1>17. ASSUME NEW d \in Device, NEW p \in Path, PathFails(d, p)
      PROVE  OnlyDrops
  BY <1>17 DEF PathFails, OnlyDrops
<1>18. ASSUME NEW d \in Device, Abort(d)
      PROVE  OnlyDrops
  BY <1>18 DEF Abort, relay, OnlyDrops
<1>19. ASSUME NEW b \in Blob, Expire(b)
      PROVE  OnlyDrops
  BY <1>19 DEF Expire, OnlyDrops
<1>20. ASSUME ExpireManifest
      PROVE  OnlyDrops
  BY <1>20 DEF ExpireManifest, OnlyDrops
<1>21. CASE UNCHANGED vars
  BY <1>21 DEF vars, relay, OnlyDrops
<1>22. QED
  BY <1>1, <1>2, <1>3, <1>4, <1>5, <1>6, <1>7, <1>8, <1>9, <1>10,
     <1>11, <1>12, <1>13, <1>14, <1>15, <1>16, <1>17, <1>18, <1>19, <1>20, <1>21
  DEF Next, User, Step, Compare

\* The initial state satisfies the inductive invariant.
LEMMA InitSInv ==
  ASSUME Init
  PROVE  SInv
<1>1. TypeOK
  BY InitTypes
<1>2. Alone
  BY DEF Init, Alone
<1>3. AllBacked
  BY DEF Init, AllBacked, ManifestBacked
<1>4. QED
  BY <1>1, <1>2, <1>3 DEF SInv

\* Without overlap the inductive invariant holds in every reachable state.
LEMMA SInvHolds ==
  ASSUME Overlap = FALSE
  PROVE  Spec => []SInv
<1>1. Init => SInv
  BY InitSInv
<1>2. SInv /\ [Next]_vars => SInv'
  BY TypeNext, AloneNext, AllBackedNext DEF SInv
<1>3. QED
  BY <1>1, <1>2, PTL DEF Spec

-----------------------------------------------------------------------------
\* What the manifest lists.

\* Every variable keeps its type, whatever overlaps and whatever fails.
THEOREM TypeCorrect == Spec => []TypeOK
<1>1. Init => TypeOK
  BY InitTypes
<1>2. TypeOK /\ [Next]_vars => TypeOK'
  BY TypeNext
<1>3. QED
  BY <1>1, <1>2, PTL DEF Spec

\* As long as the syncs of two devices do not overlap, every file that the manifest
\* lists can be downloaded, whatever calls fail and wherever a sync is cut off
\* (writeManifest, then the loop over staleBlobIds).
THEOREM Downloadable ==
  ASSUME Overlap = FALSE
  PROVE  Spec => []ManifestBacked
<1>1. SInv => ManifestBacked
  BY DEF SInv, AllBacked
<1>2. QED
  BY <1>1, SInvHolds, PTL

\* As long as the syncs of two devices do not overlap, the loop over staleBlobIds
\* removes no blob that the manifest on the relay lists.
THEOREM OrphansOnly ==
  ASSUME Overlap = FALSE
  PROVE  Spec => DropsOnlyOrphans
<1> DEFINE Spared == \A b \in blobs \ (blobs' \cup expired') :
             manifest # NoManifest => ~(Live(manifest[b[1]]) /\ manifest[b[1]].h = b[2])
<1>1. SInv /\ [Next]_vars => [Spared]_vars
  <2> SUFFICES ASSUME SInv, [Next]_vars, NEW b \in blobs \ (blobs' \cup expired'),
                      manifest # NoManifest
               PROVE  manifest[b[1]].h # b[2]
    OBVIOUS
  <2>1. PICK d \in Device : DropBlob(d, b)
    BY OnlyDropRemoves DEF SInv, OnlyDrops
  <2>2. b \in Blob
    BY DEF SInv, TypeOK
  <2>3. QED
    BY <2>1, <2>2, DroppedIsOrphan DEF SInv
<1>2. QED
  BY <1>1, SInvHolds, PTL DEF Spec, DropsOnlyOrphans

-----------------------------------------------------------------------------
\* What the comparison of a path decides, in terms of the file f of the device, the entry
\* t of the path and the hash b of the last sync: the entry, the hash and the file after it.

Agrees(d, p, f, t, b, entry, hash, file) ==
  /\ f.h # None /\ Live(t) /\ f.h = t.h
  /\ entry = t /\ hash = t.h /\ file = files[d][p]

Uploads(d, p, f, t, b, entry, hash, file) ==
  /\ f.h # None
  /\ \/ Live(t) /\ f.h # t.h /\ f.h # b /\ (b # t.h => ~(t.m > f.m))
     \/ ~Live(t) /\ ~(t.d /\ f.h = b)
  /\ entry = [h |-> f.h, m |-> f.m, d |-> FALSE] /\ hash = f.h /\ file = files[d][p]

\* A conflict copy of p on d has the contents of the file f.
Aside(d, p, f) == \E i \in 1..copies : i # p[2] /\ files[d][<<p[1], i>>].h = f.h

Downloads(d, p, f, t, b, entry, hash, file) ==
  /\ Live(t) /\ f.h # t.h /\ b # t.h
  /\ f.h # None => \/ f.h = b
                   \/ t.m > f.m /\ Aside(d, p, f)
  /\ entry = t /\ hash = t.h /\ file = [h |-> t.h, m |-> now]

Removes(d, p, f, t, b, entry, hash, file) ==
  /\ f.h # None /\ t.d /\ f.h = b
  /\ entry = t /\ hash = None /\ file = NoFile

Tombstones(d, p, f, t, b, entry, hash, file) ==
  /\ f.h = None /\ Live(t) /\ b = t.h
  /\ entry = [t EXCEPT !.d = TRUE, !.m = job[d].at] /\ hash = None /\ file = files[d][p]

KeepsDeleted(d, p, f, t, b, entry, hash, file) ==
  /\ f.h = None /\ t.d
  /\ entry = IF job[d].at - t.m > PruneAge THEN NoEntry ELSE t
  /\ hash = None /\ file = files[d][p]

\* A call failed, or the blob of the entry is gone.
GivesUp(d, p, f, t, b, entry, hash, file) ==
  /\ faults' # 0 \/ (Live(t) /\ <<p, t.h>> \notin blobs)
  /\ entry = t /\ hash = None /\ file = files[d][p]

Decides(d, p, f, t, b, entry, hash, file) ==
  \/ Agrees(d, p, f, t, b, entry, hash, file)
  \/ Uploads(d, p, f, t, b, entry, hash, file)
  \/ Downloads(d, p, f, t, b, entry, hash, file)
  \/ Removes(d, p, f, t, b, entry, hash, file)
  \/ Tombstones(d, p, f, t, b, entry, hash, file)
  \/ KeepsDeleted(d, p, f, t, b, entry, hash, file)
  \/ GivesUp(d, p, f, t, b, entry, hash, file)

\* The comparison of p on d ends.
Compared(d, p, entry, hash, file) ==
  /\ pc[d] \in {"paths", "copied"} /\ p \in job[d].todo
  /\ Done(d, p, entry, hash)
  /\ files' = [files EXCEPT ![d][p] = file] /\ copies' = copies
  /\ Decides(d, p, l(d, p), r(d, p), s(d, p), entry, hash, file)

\* Ending the comparison of a path, in detail.
LEMMA DoneIs ==
  ASSUME TypeOK, NEW d \in Device, NEW p \in Path, NEW entry, NEW hash, Done(d, p, entry, hash)
  PROVE  /\ pc'[d] = "paths"
         /\ \A e \in Device \ {d} : pc'[e] = pc[e] /\ job'[e] = job[e]
         /\ job'[d].todo = job[d].todo \ {p}
         /\ \A q \in Path : /\ job'[d].nextFiles[q] = IF q = p THEN entry ELSE job[d].nextFiles[q]
                            /\ job'[d].nextState[q] = IF q = p THEN hash ELSE job[d].nextState[q]
         /\ job'[d].remote = job[d].remote /\ job'[d].locals = job[d].locals
         /\ job'[d].st = job[d].st /\ job'[d].at = job[d].at
         /\ dirty' = dirty \ {<<d, p>>}
         /\ UNCHANGED <<state, manifest, now, expired, landed, newest>>
<1>1. job[d] \in Job
  BY DEF TypeOK
<1> DEFINE j == [job[d] EXCEPT !.todo = job[d].todo \ {p}, !.nextFiles[p] = entry, !.nextState[p] = hash]
<1>2. job'[d] = j /\ \A e \in Device \ {d} : job'[e] = job[e]
  BY DEF Done, TypeOK
<1>3. /\ j.todo = job[d].todo \ {p}
      /\ j.nextFiles = [job[d].nextFiles EXCEPT ![p] = entry]
      /\ j.nextState = [job[d].nextState EXCEPT ![p] = hash]
      /\ j.remote = job[d].remote /\ j.locals = job[d].locals /\ j.st = job[d].st /\ j.at = job[d].at
  BY <1>1 DEF Job
<1>4. job[d].nextFiles \in [Path -> Entry] /\ job[d].nextState \in [Path -> Hash]
  BY <1>1 DEF Job
<1> HIDE DEF j
<1>5. pc'[d] = "paths" /\ \A e \in Device \ {d} : pc'[e] = pc[e]
  BY DEF Done, TypeOK
<1>6. QED
  BY <1>2, <1>3, <1>4, <1>5 DEF Done

\* A device that has made a conflict copy goes on with the file the copy is of.
CopiesAside ==
  \A d \in Device : pc[d] = "copied" =>
    LET q == job[d].cur IN
    /\ q \in Path /\ q \in job[d].todo
    /\ Conflict(d, q) /\ RemoteWins(d, q) /\ Aside(d, q, l(d, q))

\* A device that goes on with its conflict is left alone by what happens on others.
LEMMA StaysAside ==
  ASSUME CopiesAside, copies' = copies,
         \A d \in Device : pc'[d] = "copied" => pc[d] = "copied" /\ job'[d] = job[d] /\ files'[d] = files[d]
  PROVE  CopiesAside'
<1> SUFFICES ASSUME NEW d \in Device, pc'[d] = "copied"
             PROVE  /\ job[d].cur \in Path /\ job[d].cur \in job[d].todo
                    /\ Conflict(d, job[d].cur)' /\ RemoteWins(d, job[d].cur)'
                    /\ Aside(d, job[d].cur, l(d, job[d].cur))'
  BY DEF CopiesAside
<1> DEFINE q == job[d].cur
<1>1. /\ q \in Path /\ q \in job[d].todo
      /\ Conflict(d, q) /\ RemoteWins(d, q) /\ Aside(d, q, l(d, q))
  BY DEF CopiesAside
<1>2. job'[d] = job[d] /\ files'[d] = files[d]
  OBVIOUS
<1>3. Conflict(d, q)' /\ RemoteWins(d, q)'
  BY <1>1, <1>2 DEF Conflict, RemoteWins, Differ, Here, There, localChanged, remoteChanged, l, r, s
<1>4. Aside(d, q, l(d, q))'
  BY <1>1, <1>2 DEF Aside, l
<1>5. QED
  BY <1>1, <1>2, <1>3, <1>4

\* Every comparison that ends, be it by a failure, is one of these.
LEMMA CompareIs ==
  ASSUME TypeOK, CopiesAside, NEW d \in Device, NEW p \in Path,
         \/ Same(d, p) \/ Upload(d, p) \/ Download(d, p) \/ DownloadWinner(d, p) \/ RemoveLocal(d, p)
         \/ Tombstone(d, p) \/ KeepTombstone(d, p) \/ BlobMissing(d, p) \/ PathFails(d, p)
  PROVE  \E entry \in Entry, hash \in Hash, file \in File : Compared(d, p, entry, hash, file)
<1> DEFINE f == l(d, p)  t == r(d, p)  b == s(d, p)
<1> USE DEF At
<1>1. /\ f \in File /\ t \in Entry /\ b \in Hash /\ t.h \in Hash /\ f.h \in Hash /\ t.m \in Nat /\ f.m \in Nat
      /\ files[d][p] \in File /\ now \in Nat /\ t.d \in BOOLEAN
  BY InHand DEF TypeOK, Entry
<1>2. files = [files EXCEPT ![d][p] = files[d][p]]
  BY DEF TypeOK
<1>3. f.h # None => f.h \in Content
  BY <1>1 DEF Hash
<1>4. CASE Same(d, p)
  <2>1. Agrees(d, p, f, t, b, t, t.h, files[d][p])
    BY <1>4 DEF Same, Here, There, Differ, Agrees
  <2>2. Compared(d, p, t, t.h, files[d][p])
    BY <1>2, <1>4, <2>1 DEF Same, Compared, Decides
  <2>3. QED
    BY <1>1, <2>2
<1>5. CASE Upload(d, p)
  <2> DEFINE entry == [h |-> f.h, m |-> f.m, d |-> FALSE]
  <2>1. Uploads(d, p, f, t, b, entry, f.h, files[d][p])
    BY <1>5 DEF Upload, MustUpload, Here, There, Differ, localChanged, remoteChanged, RemoteWins, Uploads
  <2>2. Compared(d, p, entry, f.h, files[d][p])
    BY <1>2, <1>5, <2>1 DEF Upload, Compared, Decides
  <2>3. entry \in Entry
    BY <1>1 DEF Entry
  <2>4. QED
    BY <1>1, <2>2, <2>3
<1>6. ASSUME Fetch(d, p), pc[d] \in {"paths", "copied"}, p \in job[d].todo, Live(t), f.h # t.h, b # t.h,
             f.h # None => f.h = b \/ (t.m > f.m /\ Aside(d, p, f))
      PROVE  \E entry \in Entry, hash \in Hash, file \in File : Compared(d, p, entry, hash, file)
  <2> DEFINE file == [h |-> t.h, m |-> now]
  <2>1. Downloads(d, p, f, t, b, t, t.h, file)
    BY <1>6 DEF Downloads
  <2>2. Compared(d, p, t, t.h, file)
    BY <1>6, <2>1 DEF Fetch, Compared, Decides
  <2>3. file \in File
    BY <1>1 DEF File
  <2>4. QED
    BY <1>1, <2>2, <2>3
<1>7. CASE Download(d, p)
  BY <1>6, <1>7 DEF Download, MustDownload, Here, There, Differ, localChanged, remoteChanged, Live
<1>8. CASE DownloadWinner(d, p)
  <2>1. /\ p = job[d].cur /\ pc[d] = "copied" /\ Fetch(d, p)
        /\ p \in job[d].todo /\ Conflict(d, p) /\ RemoteWins(d, p) /\ Aside(d, p, f)
    BY <1>8 DEF DownloadWinner, Copied, CopiesAside
  <2>2. QED
    BY <1>6, <2>1 DEF Conflict, RemoteWins, There, Differ, remoteChanged
<1>9. CASE RemoveLocal(d, p)
  <2>1. Removes(d, p, f, t, b, t, None, NoFile)
    BY <1>9 DEF RemoveLocal, Here, localChanged, Removes
  <2>2. Compared(d, p, t, None, NoFile)
    BY <1>9, <2>1 DEF RemoveLocal, Compared, Decides
  <2>3. QED
    BY <1>1, <2>2, Blanks DEF Hash
<1>10. CASE Tombstone(d, p)
  <2> DEFINE entry == [t EXCEPT !.d = TRUE, !.m = job[d].at]
  <2>1. Tombstones(d, p, f, t, b, entry, None, files[d][p])
    BY <1>10 DEF Tombstone, Here, There, remoteChanged, Tombstones
  <2>2. Compared(d, p, entry, None, files[d][p])
    BY <1>2, <1>10, <2>1 DEF Tombstone, Compared, Decides
  <2>3. entry \in Entry
    BY <1>1, InHand DEF Entry
  <2>4. QED
    BY <1>1, <2>2, <2>3 DEF Hash
<1>11. CASE KeepTombstone(d, p)
  <2> DEFINE entry == IF job[d].at - t.m > PruneAge THEN NoEntry ELSE t
  <2>1. KeepsDeleted(d, p, f, t, b, entry, None, files[d][p])
    BY <1>11 DEF KeepTombstone, Here, KeepsDeleted
  <2>2. Compared(d, p, entry, None, files[d][p])
    BY <1>2, <1>11, <2>1 DEF KeepTombstone, Compared, Decides
  <2>3. entry \in Entry
    BY <1>1, Blanks
  <2>4. QED
    BY <1>1, <2>2, <2>3 DEF Hash
<1>12. CASE BlobMissing(d, p)
  <2>1. /\ pc[d] \in {"paths", "copied"} /\ p \in job[d].todo /\ Live(t)
    BY <1>12 DEF BlobMissing, Copied, CopiesAside, MustDownload, Conflict, Differ, There
  <2>2. GivesUp(d, p, f, t, b, t, None, files[d][p])
    BY <1>12, <2>1 DEF BlobMissing, GivesUp
  <2>3. Compared(d, p, t, None, files[d][p])
    BY <1>2, <1>12, <2>1, <2>2 DEF BlobMissing, Compared, Decides
  <2>4. QED
    BY <1>1, <2>3 DEF Hash
<1>13. CASE PathFails(d, p)
  <2>1. /\ pc[d] \in {"paths", "copied"} /\ p \in job[d].todo
    BY <1>13 DEF PathFails, Copied, CopiesAside
  <2>2. faults' # 0
    BY <1>13 DEF PathFails, TypeOK
  <2>3. GivesUp(d, p, f, t, b, t, None, files[d][p])
    BY <2>2 DEF GivesUp
  <2>4. Compared(d, p, t, None, files[d][p])
    BY <1>2, <1>13, <2>1, <2>3 DEF PathFails, Compared, Decides
  <2>5. QED
    BY <1>1, <2>4 DEF Hash
<1>14. QED
  BY <1>4, <1>5, <1>7, <1>8, <1>9, <1>10, <1>11, <1>12, <1>13

-----------------------------------------------------------------------------
\* What was shared, and what a sync is about to share.

\* The steps that are not comparisons which end, and these.
LEMMA StepIs ==
  ASSUME TypeOK, CopiesAside, [Next]_vars
  PROVE  \/ \E d \in Device, n \in Name : Delete(d, n) \/ \E c \in Content : Edit(d, n, c)
         \/ \E d \in Device : \E unread \in SUBSET {p \in Path : files[d][p].h # None},
                                 st \in loadLocalState(d) : Begin(d, unread, st)
         \/ \E d \in Device, p \in Path, entry \in Entry, hash \in Hash, file \in File :
              Compared(d, p, entry, hash, file)
         \/ \E d \in Device, p \in Path : CopyAside(d, p)
         \/ \E d \in Device : RemoveManifest(d) \/ PutManifest(d) \/ Save(d) \/ Abort(d)
         \/ \E d \in Device, b \in Blob : DropBlob(d, b)
         \/ (\E b \in Blob : Expire(b)) \/ ExpireManifest \/ UNCHANGED vars
<1>1. ASSUME NEW d \in Device, NEW p \in Path, Compare(d, p) \/ PathFails(d, p), ~CopyAside(d, p)
      PROVE  \E entry \in Entry, hash \in Hash, file \in File : Compared(d, p, entry, hash, file)
  BY <1>1, CompareIs DEF Compare
<1>2. QED
  BY <1>1 DEF Next, User, Step

Making == {"paths", "copied", "publishing"}

\* A version of a file that some manifest listed.
Published(p, h) == h # None => <<p, h>> \in landed

\* No stamp of a conflict copy is in use before its turn.
Spare ==
  \A p \in Path : p[2] > copies =>
    /\ fetchManifest[p].h = None
    /\ \A d \in Device :
         /\ files[d][p].h = None /\ state[d][p] = None
         /\ pc[d] # "idle" => /\ p \notin job[d].todo
                              /\ job[d].nextFiles[p].h = None /\ job[d].nextState[p] = None

\* The manifest, every sync-state.json and what a sync read of it list what was published.
Known ==
  \A p \in Path :
    /\ Published(p, fetchManifest[p].h)
    /\ \A d \in Device : Published(p, state[d][p]) /\ (pc[d] # "idle" => Published(p, s(d, p)))

\* What d is to publish at p was published before, or is its file; what it is to remember
\* is what it is to publish; a path that was not compared yet is as it was read.
DraftAt(d, p) ==
  /\ Published(p, r(d, p).h)
  /\ job[d].nextState[p] # None => /\ Live(job[d].nextFiles[p])
                                   /\ job[d].nextFiles[p].h = job[d].nextState[p]
  /\ \/ Published(p, job[d].nextFiles[p].h)
     \/ /\ p \notin job[d].todo
        /\ Live(job[d].nextFiles[p]) /\ files[d][p].h = job[d].nextFiles[p].h
  /\ p \in job[d].todo => /\ job[d].nextFiles[p] = r(d, p)
                          /\ l(d, p).h # None => files[d][p] = l(d, p)
Drafts == \A d \in Device, p \in Path : pc[d] \in Making => DraftAt(d, p)

\* At the end of a sync no path is left, and what it remembers was published.
Ends ==
  \A d \in Device :
    /\ pc[d] \in {"publishing", "dropping"} => job[d].todo = {}
    /\ pc[d] = "dropping" => \A p \in Path : Published(p, job[d].nextState[p])

KInv == Spare /\ Known /\ Drafts /\ Ends /\ CopiesAside

\* Every conflict gets a copy of its own, as its time stamp does: the bound on copies is not reached.
NewStamp == \A d \in Device, p \in Path : CopyAside(d, p) => copies < MaxCopies

\* What a device starts a sync from.
LEMMA BeginIs ==
  ASSUME TypeOK, NEW d \in Device, NEW unread, NEW st \in loadLocalState(d), Begin(d, unread, st)
  PROVE  /\ pc[d] = "idle" /\ pc'[d] = "paths"
         /\ \A e \in Device \ {d} : pc'[e] = pc[e] /\ job'[e] = job[e]
         /\ job'[d].remote = fetchManifest /\ job'[d].nextFiles = fetchManifest
         /\ job'[d].nextState = NoHashes /\ job'[d].st = st /\ st \in {state[d], NoHashes}
         /\ job'[d].at = now
         /\ job'[d].locals = walkCollection(d, unread)
         /\ \A p \in Path : job'[d].locals[p] = files[d][p] \/ job'[d].locals[p] = NoFile
         /\ job'[d].todo = {p \in Path : job'[d].locals[p].h # None \/ fetchManifest[p].h # None}
         /\ faults' = faults => unread = {} /\ st = state[d]
         /\ UNCHANGED <<files, state, relay, now, copies, expired, history>>
<1>1. \A p \in Path : walkCollection(d, unread)[p] = files[d][p] \/ walkCollection(d, unread)[p] = NoFile
  BY DEF walkCollection
<1>2. /\ job'[d].remote = fetchManifest /\ job'[d].nextFiles = fetchManifest
      /\ job'[d].nextState = NoHashes /\ job'[d].st = st /\ job'[d].at = now
      /\ job'[d].locals = walkCollection(d, unread)
      /\ job'[d].todo = {p \in Path : walkCollection(d, unread)[p].h # None \/ fetchManifest[p].h # None}
  BY DEF Begin, TypeOK
<1>3. /\ pc[d] = "idle" /\ pc'[d] = "paths"
      /\ \A e \in Device \ {d} : pc'[e] = pc[e] /\ job'[e] = job[e]
      /\ UNCHANGED <<files, state, relay, now, copies, expired, history>>
      /\ faults' = faults => unread = {} /\ st = state[d]
  BY DEF Begin, TypeOK
<1>4. QED
  BY <1>1, <1>2, <1>3 DEF loadLocalState

\* What a conflict copy changes.
LEMMA AsideIs ==
  ASSUME TypeOK, NewStamp, NEW d \in Device, NEW p \in Path, CopyAside(d, p)
  PROVE  /\ pc[d] = "paths" /\ pc'[d] = "copied" /\ p \in job[d].todo
         /\ Conflict(d, p) /\ RemoteWins(d, p)
         /\ \A e \in Device \ {d} : pc'[e] = pc[e] /\ job'[e] = job[e]
         /\ job'[d].cur = p
         /\ job'[d].remote = job[d].remote /\ job'[d].nextFiles = job[d].nextFiles
         /\ job'[d].nextState = job[d].nextState /\ job'[d].st = job[d].st /\ job'[d].at = job[d].at
         /\ job'[d].locals = job[d].locals /\ job'[d].todo = job[d].todo
         /\ copies' = copies + 1 /\ copies' \in 1..MaxCopies /\ <<p[1], copies'>> \in Path
         /\ files' = [files EXCEPT ![d][<<p[1], copies'>>] = [h |-> l(d, p).h, m |-> now]]
         /\ UNCHANGED <<state, relay, now, faults, expired, history>>
<1>1. job[d] \in Job
  BY DEF TypeOK
<1>2. job'[d] = [job[d] EXCEPT !.cur = p] /\ \A e \in Device \ {d} : job'[e] = job[e]
  BY DEF CopyAside, TypeOK
<1>3. copies < MaxCopies /\ copies \in Nat
  BY DEF NewStamp, TypeOK
<1>4. copies' = copies + 1 /\ copies' \in 1..MaxCopies
  BY <1>3, SyncAssumption DEF CopyAside
<1>5. <<p[1], copies'>> \in Path
  BY <1>4, SyncAssumption DEF Path
<1>6. files' = [files EXCEPT ![d][<<p[1], copies'>>] = [h |-> l(d, p).h, m |-> now]]
  BY <1>3, <1>4 DEF CopyAside
<1>7. /\ job'[d].cur = p
      /\ job'[d].remote = job[d].remote /\ job'[d].nextFiles = job[d].nextFiles
      /\ job'[d].nextState = job[d].nextState /\ job'[d].st = job[d].st /\ job'[d].at = job[d].at
      /\ job'[d].locals = job[d].locals /\ job'[d].todo = job[d].todo
  BY <1>1, <1>2 DEF Job
<1>8. pc[d] = "paths" /\ pc'[d] = "copied" /\ \A e \in Device \ {d} : pc'[e] = pc[e]
  BY DEF CopyAside, At, TypeOK
<1>9. QED
  BY <1>2, <1>4, <1>5, <1>6, <1>7, <1>8 DEF CopyAside, At

\* What putting the manifest changes, when no other device put one in between.
LEMMA PutIs ==
  ASSUME TypeOK, AllBacked, NEW d \in Device, PutManifest(d)
  PROVE  /\ pc[d] = "publishing" /\ pc'[d] = "dropping" /\ manifest = NoManifest
         /\ \A e \in Device \ {d} : pc'[e] = pc[e] /\ job'[e] = job[e]
         /\ job'[d].remote = job[d].remote /\ job'[d].nextFiles = job[d].nextFiles
         /\ job'[d].nextState = job[d].nextState /\ job'[d].st = job[d].st /\ job'[d].at = job[d].at
         /\ job'[d].locals = job[d].locals /\ job'[d].todo = job[d].todo
         /\ manifest' = job[d].nextFiles
         /\ \A p \in Path : fetchManifest'[p] = job[d].nextFiles[p]
         /\ landed \subseteq landed'
         /\ \A p \in Path : Live(job[d].nextFiles[p]) => <<p, job[d].nextFiles[p].h>> \in landed'
         /\ UNCHANGED <<files, state, blobs, now, copies, faults, expired, dirty, newest>>
<1>1. job[d] \in Job
  BY DEF TypeOK
<1>2. job'[d] = [job[d] EXCEPT !.stale = Orphans(d)] /\ \A e \in Device \ {d} : job'[e] = job[e]
  BY DEF PutManifest, TypeOK
<1>3. /\ job'[d].remote = job[d].remote /\ job'[d].nextFiles = job[d].nextFiles
      /\ job'[d].nextState = job[d].nextState /\ job'[d].st = job[d].st /\ job'[d].at = job[d].at
      /\ job'[d].locals = job[d].locals /\ job'[d].todo = job[d].todo
  BY <1>1, <1>2 DEF Job
<1>4. pc[d] = "publishing" /\ manifest = NoManifest
  BY DEF PutManifest, AllBacked
<1>5. /\ manifest' = job[d].nextFiles
      /\ landed' = landed \cup {b \in Blob : /\ Live(job[d].nextFiles[b[1]])
                                             /\ job[d].nextFiles[b[1]].h = b[2]}
  BY <1>4 DEF PutManifest
<1>6. job[d].nextFiles \in [Path -> Entry]
  BY <1>1 DEF Job
<1>7. ASSUME NEW p \in Path
      PROVE  fetchManifest'[p] = job[d].nextFiles[p]
  <2>1. DOMAIN job[d].nextFiles = Path /\ DOMAIN NoManifest = {}
    BY <1>6 DEF NoManifest
  <2>2. job[d].nextFiles # NoManifest
    BY <2>1
  <2>3. QED
    BY <1>5, <2>2 DEF fetchManifest
<1>8. ASSUME NEW p \in Path, Live(job[d].nextFiles[p])
      PROVE  <<p, job[d].nextFiles[p].h>> \in landed'
  <2>1. job[d].nextFiles[p].h \in Content
    BY <1>6, <1>8 DEF Live, Entry, Hash
  <2>2. <<p, job[d].nextFiles[p].h>> \in Blob
    BY <2>1 DEF Blob
  <2>3. QED
    BY <1>5, <1>8, <2>2
<1>9. QED
  BY <1>2, <1>3, <1>4, <1>5, <1>7, <1>8 DEF PutManifest, TypeOK

\* A user leaves f under the name n on d, on which no sync runs.
UserWrites(d, n, f) ==
  /\ pc[d] = "idle" /\ <<n, 0>> \in Path
  /\ files' = [files EXCEPT ![d][<<n, 0>>] = f]
  /\ newest' = [newest EXCEPT ![n] = IF New(n, f.h) THEN f.h ELSE None]
  /\ f.m = IF f.h = None THEN 0 ELSE now + 1
  /\ now' = now + 1
  /\ dirty' = IF f.h = None THEN dirty \ {<<d, <<n, 0>>>>} ELSE dirty \cup {<<d, <<n, 0>>>>}
  /\ UNCHANGED <<state, relay, pc, job, copies, faults, expired, landed>>

\* A user's step changes a file of the name itself on a device that does not sync.
LEMMA UserIs ==
  ASSUME EditsWhileSyncing = FALSE, TypeOK, NEW d \in Device, NEW n \in Name,
         Delete(d, n) \/ \E c \in Content : Edit(d, n, c)
  PROVE  \E f \in File : UserWrites(d, n, f)
<1>1. <<n, 0>> \in Path /\ now \in Nat
  BY SyncAssumption DEF Path, TypeOK
<1>2. CASE Delete(d, n)
  <2>1. NoFile.h = None /\ NoFile.m = 0 /\ NoFile \in File
    BY Blanks DEF NoFile
  <2>2. Write(d, n, NoFile) /\ dirty' = dirty \ {<<d, <<n, 0>>>>}
    BY <1>2 DEF Delete
  <2>3. UserWrites(d, n, NoFile)
    BY <1>1, <2>1, <2>2 DEF Write, UserWrites
  <2>4. QED
    BY <2>1, <2>3
<1>3. ASSUME NEW c \in Content, Edit(d, n, c)
      PROVE  \E f \in File : UserWrites(d, n, f)
  <2> DEFINE f == [h |-> c, m |-> now + 1]
  <2>1. f \in File /\ f.h # None /\ f.m = now + 1
    BY <1>1, SyncAssumption DEF File, Hash
  <2>2. Write(d, n, f) /\ dirty' = dirty \cup {<<d, <<n, 0>>>>}
    BY <1>3 DEF Edit
  <2> HIDE DEF f
  <2>3. UserWrites(d, n, f)
    BY <1>1, <2>1, <2>2 DEF Write, UserWrites
  <2>4. QED
    BY <2>1, <2>3
<1>4. QED
  BY <1>2, <1>3

\* A user's step leaves what was shared, and what is about to be, as it is.
LEMMA KUser ==
  ASSUME EditsWhileSyncing = FALSE, TypeOK, KInv, NEW d \in Device, NEW n \in Name,
         Delete(d, n) \/ \E c \in Content : Edit(d, n, c)
  PROVE  KInv'
<1>0. PICK f \in File : UserWrites(d, n, f)
  BY UserIs
<1>1. /\ pc[d] = "idle" /\ <<n, 0>> \in Path
      /\ files' = [files EXCEPT ![d][<<n, 0>>] = f]
      /\ UNCHANGED <<state, relay, pc, job, copies, faults, expired, landed>>
  BY <1>0 DEF UserWrites
<1>2. \A e \in Device, p \in Path : (e # d \/ p[2] # 0) => files'[e][p] = files[e][p]
  BY <1>1 DEF TypeOK
<1>3. fetchManifest' = fetchManifest /\ copies \in Nat
  BY <1>1 DEF fetchManifest, relay, TypeOK
<1>4. Spare'
  BY <1>1, <1>2, <1>3 DEF KInv, Spare
<1>5. Known'
  BY <1>1, <1>3 DEF KInv, Known, Published, s
<1>6. Drafts'
  <2> SUFFICES ASSUME NEW e \in Device, NEW p \in Path, pc[e] \in Making
               PROVE  DraftAt(e, p)'
    BY <1>1 DEF Drafts
  <2>1. e # d
    BY <1>1 DEF Making
  <2>2. DraftAt(e, p)
    BY DEF KInv, Drafts
  <2>3. QED
    BY <1>1, <1>2, <2>1, <2>2 DEF DraftAt, Published, r, l
<1>7. Ends'
  BY <1>1 DEF KInv, Ends, Published
<1>8. CopiesAside'
  <2> SUFFICES ASSUME NEW e \in Device, pc[e] = "copied"
               PROVE  /\ job[e].cur \in Path /\ job[e].cur \in job[e].todo
                      /\ Conflict(e, job[e].cur)' /\ RemoteWins(e, job[e].cur)'
                      /\ Aside(e, job[e].cur, l(e, job[e].cur))'
    BY <1>1 DEF CopiesAside
  <2>1. e # d
    BY <1>1
  <2>2. /\ job[e].cur \in Path /\ job[e].cur \in job[e].todo
        /\ Conflict(e, job[e].cur) /\ RemoteWins(e, job[e].cur)
        /\ Aside(e, job[e].cur, l(e, job[e].cur))
    BY DEF KInv, CopiesAside
  <2>3. files'[e] = files[e]
    BY <1>1, <2>1 DEF TypeOK
  <2>4. QED
    BY <1>1, <2>2, <2>3
    DEF Conflict, RemoteWins, Differ, Here, There, localChanged, remoteChanged, Live, l, r, s, Aside
<1>9. QED
  BY <1>4, <1>5, <1>6, <1>7, <1>8 DEF KInv

\* A sync that starts reads what was shared.
LEMMA KBegin ==
  ASSUME TypeOK, KInv, NEW d \in Device, NEW unread, NEW st \in loadLocalState(d), Begin(d, unread, st)
  PROVE  KInv'
<1>1. /\ pc[d] = "idle" /\ pc'[d] = "paths"
      /\ \A e \in Device \ {d} : pc'[e] = pc[e] /\ job'[e] = job[e]
      /\ job'[d].remote = fetchManifest /\ job'[d].nextFiles = fetchManifest
      /\ job'[d].nextState = NoHashes /\ job'[d].st = st /\ st \in {state[d], NoHashes}
      /\ \A p \in Path : job'[d].locals[p] = files[d][p] \/ job'[d].locals[p] = NoFile
      /\ job'[d].todo = {p \in Path : job'[d].locals[p].h # None \/ fetchManifest[p].h # None}
      /\ UNCHANGED <<files, state, relay, now, copies, expired, history>>
  BY BeginIs
<1>2. fetchManifest' = fetchManifest /\ landed' = landed
  BY <1>1 DEF fetchManifest, relay, history
<1>3. NoFile.h = None /\ \A p \in Path : NoHashes[p] = None
  BY DEF NoFile, NoHashes
<1>4. Spare'
  BY <1>1, <1>2, <1>3 DEF KInv, Spare
<1>5. Known'
  <2> SUFFICES ASSUME NEW p \in Path
               PROVE  /\ Published(p, fetchManifest[p].h)'
                      /\ \A e \in Device : Published(p, state[e][p])' /\ (pc'[e] # "idle" => Published(p, s(e, p))')
    BY DEF Known
  <2>1. Published(p, fetchManifest[p].h)' /\ \A e \in Device : Published(p, state[e][p])'
    BY <1>1, <1>2 DEF KInv, Known, Published
  <2>2. job'[d].st[p] \in {state[d][p], None}
    BY <1>1, <1>3
  <2>3. Published(p, s(d, p))'
    BY <1>2, <2>2 DEF KInv, Known, Published, s
  <2>4. ASSUME NEW e \in Device \ {d}, pc'[e] # "idle"
        PROVE  Published(p, s(e, p))'
    BY <1>1, <1>2, <2>4 DEF KInv, Known, Published, s
  <2>5. QED
    BY <2>1, <2>3, <2>4
<1>6. Drafts'
  <2>1. ASSUME NEW p \in Path
        PROVE  DraftAt(d, p)'
    BY <1>1, <1>2, <1>3 DEF KInv, Known, DraftAt, Published, r, l
  <2>2. ASSUME NEW e \in Device \ {d}, NEW p \in Path, pc[e] \in Making
        PROVE  DraftAt(e, p)'
    BY <1>1, <1>2, <2>2 DEF KInv, Drafts, DraftAt, Published, r, l
  <2>3. QED
    BY <1>1, <2>1, <2>2 DEF Drafts
<1>7. Ends'
  BY <1>1, <1>2 DEF KInv, Ends, Published
<1>8. CopiesAside'
  <2>1. \A e \in Device : pc'[e] = "copied" => pc[e] = "copied" /\ job'[e] = job[e] /\ files'[e] = files[e]
    BY <1>1
  <2>2. copies' = copies
    BY <1>1
  <2>3. QED
    BY <2>1, <2>2, StaysAside DEF KInv
<1>9. QED
  BY <1>4, <1>5, <1>6, <1>7, <1>8 DEF KInv

\* A conflict copy goes to a path that nothing has used.
LEMMA KAside ==
  ASSUME TypeOK, KInv, NewStamp, NEW d \in Device, NEW p \in Path, CopyAside(d, p)
  PROVE  KInv'
<1>1. /\ pc[d] = "paths" /\ pc'[d] = "copied" /\ p \in job[d].todo
      /\ Conflict(d, p) /\ RemoteWins(d, p)
      /\ \A e \in Device \ {d} : pc'[e] = pc[e] /\ job'[e] = job[e]
      /\ job'[d].cur = p
      /\ job'[d].remote = job[d].remote /\ job'[d].nextFiles = job[d].nextFiles
      /\ job'[d].nextState = job[d].nextState /\ job'[d].st = job[d].st
      /\ job'[d].locals = job[d].locals /\ job'[d].todo = job[d].todo
      /\ copies' = copies + 1 /\ copies' \in 1..MaxCopies /\ <<p[1], copies'>> \in Path
      /\ files' = [files EXCEPT ![d][<<p[1], copies'>>] = [h |-> l(d, p).h, m |-> now]]
      /\ UNCHANGED <<state, relay, now, faults, expired, history>>
  BY AsideIs
<1>2. fetchManifest' = fetchManifest /\ landed' = landed /\ copies \in Nat
  BY <1>1 DEF fetchManifest, relay, history, TypeOK
<1>3. \A e \in Device, q \in Path : (e # d \/ q # <<p[1], copies'>>) => files'[e][q] = files[e][q]
  BY <1>1 DEF TypeOK
<1>4. \A q \in Path : q[2] \in Nat /\ (q[2] <= copies => q # <<p[1], copies'>>)
  BY <1>1, <1>2 DEF Path
<1>5. \A e \in Device, q \in Path : pc[e] # "idle" /\ q \in job[e].todo => q[2] <= copies
  BY <1>2, <1>4 DEF KInv, Spare
<1>6. files'[d][<<p[1], copies'>>].h = l(d, p).h
  BY <1>1 DEF TypeOK
<1>7. Spare'
  <2> SUFFICES ASSUME NEW q \in Path, q[2] > copies'
               PROVE  /\ fetchManifest'[q].h = None
                      /\ \A e \in Device :
                           /\ files'[e][q].h = None /\ state'[e][q] = None
                           /\ pc'[e] # "idle" => /\ q \notin job'[e].todo
                                                 /\ job'[e].nextFiles[q].h = None
                                                 /\ job'[e].nextState[q] = None
    BY DEF Spare
  <2>1. q[2] > copies /\ q # <<p[1], copies'>>
    BY <1>1, <1>2, <1>4
  <2>2. QED
    BY <1>1, <1>2, <1>3, <2>1 DEF KInv, Spare
<1>8. Known'
  BY <1>1, <1>2 DEF KInv, Known, Published, s
<1>9. Drafts'
  <2> SUFFICES ASSUME NEW e \in Device, NEW q \in Path, pc'[e] \in Making
               PROVE  DraftAt(e, q)'
    BY DEF Drafts
  <2>1. pc[e] \in Making /\ pc[e] # "idle" /\ DraftAt(e, q)
    BY <1>1 DEF KInv, Drafts, Making
  <2>2. /\ job'[e].remote = job[e].remote /\ job'[e].nextFiles = job[e].nextFiles
        /\ job'[e].nextState = job[e].nextState
        /\ job'[e].locals = job[e].locals /\ job'[e].todo = job[e].todo
    BY <1>1
  <2>3. CASE q[2] > copies
    <3>1. job[e].nextFiles[q].h = None /\ q \notin job[e].todo
      BY <2>1, <2>3 DEF KInv, Spare
    <3>2. QED
      BY <1>2, <2>1, <2>2, <3>1 DEF DraftAt, Published, r, l
  <2>4. CASE ~(q[2] > copies)
    <3>1. files'[e][q] = files[e][q]
      BY <1>2, <1>3, <1>4, <2>4
    <3>2. QED
      BY <1>2, <2>1, <2>2, <3>1 DEF DraftAt, Published, r, l
  <2>5. QED
    BY <2>3, <2>4
<1>10. Ends'
  BY <1>1, <1>2 DEF KInv, Ends, Published
<1>11. CopiesAside'
  <2>1. ASSUME NEW e \in Device \ {d}, pc[e] = "copied"
        PROVE  /\ job[e].cur \in Path /\ job[e].cur \in job[e].todo
               /\ Conflict(e, job[e].cur)' /\ RemoteWins(e, job[e].cur)'
               /\ Aside(e, job[e].cur, l(e, job[e].cur))'
    <3>1. job'[e] = job[e] /\ files'[e] = files[e] /\ copies' = copies + 1
      BY <1>1 DEF TypeOK
    <3>2. /\ job[e].cur \in Path /\ job[e].cur \in job[e].todo
          /\ Conflict(e, job[e].cur) /\ RemoteWins(e, job[e].cur)
          /\ Aside(e, job[e].cur, l(e, job[e].cur))
      BY <2>1 DEF KInv, CopiesAside
    <3>3. Conflict(e, job[e].cur)' /\ RemoteWins(e, job[e].cur)'
      BY <3>1, <3>2 DEF Conflict, RemoteWins, Differ, Here, There, localChanged, remoteChanged, l, r, s
    <3>4. 1..copies \subseteq 1..copies'
      BY <1>2, <3>1 DEF TypeOK
    <3>5. Aside(e, job[e].cur, l(e, job[e].cur))'
      BY <3>1, <3>2, <3>4 DEF Aside, l
    <3>6. QED
      BY <3>1, <3>2, <3>3, <3>5
  <2>2. Conflict(d, p)' /\ RemoteWins(d, p)' /\ l(d, p)' = l(d, p)
    BY <1>1 DEF Conflict, RemoteWins, Differ, Here, There, localChanged, remoteChanged, l, r, s
  <2>3. Aside(d, p, l(d, p))'
    <3>1. copies' \in 1..copies' /\ copies' # p[2]
      BY <1>1, <1>2, <1>5
    <3>2. QED
      BY <1>6, <2>2, <3>1 DEF Aside
  <2>4. QED
    BY <1>1, <2>1, <2>2, <2>3 DEF CopiesAside
<1>12. QED
  BY <1>7, <1>8, <1>9, <1>10, <1>11 DEF KInv

\* A comparison that ends leaves in the draft what was published or what the device has.
LEMMA KCompare ==
  ASSUME TypeOK, KInv, NEW d \in Device, NEW p \in Path, NEW entry \in Entry, NEW hash \in Hash,
         NEW file \in File, Compared(d, p, entry, hash, file)
  PROVE  KInv'
<1>1. /\ pc[d] \in {"paths", "copied"} /\ p \in job[d].todo
      /\ Done(d, p, entry, hash)
      /\ files' = [files EXCEPT ![d][p] = file] /\ copies' = copies
      /\ Decides(d, p, l(d, p), r(d, p), s(d, p), entry, hash, file)
  BY DEF Compared
<1>2. /\ pc'[d] = "paths"
      /\ \A e \in Device \ {d} : pc'[e] = pc[e] /\ job'[e] = job[e]
      /\ job'[d].todo = job[d].todo \ {p}
      /\ \A q \in Path : /\ job'[d].nextFiles[q] = IF q = p THEN entry ELSE job[d].nextFiles[q]
                         /\ job'[d].nextState[q] = IF q = p THEN hash ELSE job[d].nextState[q]
      /\ job'[d].remote = job[d].remote /\ job'[d].locals = job[d].locals
      /\ job'[d].st = job[d].st
      /\ UNCHANGED <<state, manifest, now, expired, landed, newest>>
  BY <1>1, DoneIs
<1>3. \A e \in Device, q \in Path : (e # d \/ q # p) => files'[e][q] = files[e][q]
  BY <1>1 DEF TypeOK
<1>4. files'[d][p] = file
  BY <1>1 DEF TypeOK
<1>5. fetchManifest' = fetchManifest
  BY <1>2 DEF fetchManifest
<1>6. Spare'
  <2>1. ~(p[2] > copies)
    BY <1>1 DEF KInv, Spare
  <2>2. QED
    BY <1>1, <1>2, <1>3, <1>5, <2>1 DEF KInv, Spare
<1>7. Known'
  BY <1>1, <1>2, <1>5 DEF KInv, Known, Published, s
<1>8. Drafts'
  <2>1. DraftAt(d, p)
    BY <1>1 DEF KInv, Drafts, Making
  <2>2. Published(p, r(d, p).h) /\ (l(d, p).h # None => files[d][p] = l(d, p))
    BY <1>1, <2>1 DEF DraftAt
  <2>3. /\ hash # None => Live(entry) /\ entry.h = hash
        /\ Published(p, entry.h) \/ (Live(entry) /\ file.h = entry.h)
    <3> DEFINE f == l(d, p)  t == r(d, p)  b == s(d, p)
    <3>1. t \in Entry /\ t.h \in Hash /\ f.h \in Hash
      BY InHand
    <3>2. CASE Agrees(d, p, f, t, b, entry, hash, file)
      BY <2>2, <3>2 DEF Agrees
    <3>3. CASE Uploads(d, p, f, t, b, entry, hash, file)
      BY <2>2, <3>3 DEF Uploads, Live
    <3>4. CASE Downloads(d, p, f, t, b, entry, hash, file)
      BY <2>2, <3>4 DEF Downloads
    <3>5. CASE Removes(d, p, f, t, b, entry, hash, file)
      BY <2>2, <3>5 DEF Removes
    <3>6. CASE Tombstones(d, p, f, t, b, entry, hash, file)
      <4>1. entry.h = t.h
        BY <3>1, <3>6 DEF Tombstones, Entry
      <4>2. QED
        BY <2>2, <3>6, <4>1 DEF Tombstones
    <3>7. CASE KeepsDeleted(d, p, f, t, b, entry, hash, file)
      BY <2>2, <3>7 DEF KeepsDeleted, Published, NoEntry
    <3>8. CASE GivesUp(d, p, f, t, b, entry, hash, file)
      BY <2>2, <3>8 DEF GivesUp
    <3>9. QED
      BY <1>1, <3>2, <3>3, <3>4, <3>5, <3>6, <3>7, <3>8 DEF Decides
  <2>4. DraftAt(d, p)'
    <3>1. /\ p \notin job'[d].todo
          /\ job'[d].nextFiles[p] = entry /\ job'[d].nextState[p] = hash
          /\ job'[d].remote[p] = job[d].remote[p]
      BY <1>2
    <3>2. QED
      BY <1>2, <1>4, <2>2, <2>3, <3>1 DEF DraftAt, Published, r
  <2>5. ASSUME NEW q \in Path \ {p}
        PROVE  DraftAt(d, q)'
    <3>1. DraftAt(d, q)
      BY <1>1 DEF KInv, Drafts, Making
    <3>2. /\ q \in job'[d].todo <=> q \in job[d].todo
          /\ job'[d].nextFiles[q] = job[d].nextFiles[q] /\ job'[d].nextState[q] = job[d].nextState[q]
          /\ files'[d][q] = files[d][q] /\ r(d, q)' = r(d, q) /\ l(d, q)' = l(d, q)
      BY <1>2, <1>3 DEF r, l
    <3>3. QED
      BY <1>2, <3>1, <3>2 DEF DraftAt, Published
  <2>6. ASSUME NEW e \in Device \ {d}, NEW q \in Path, pc'[e] \in Making
        PROVE  DraftAt(e, q)'
    <3>1. DraftAt(e, q)
      BY <1>2, <2>6 DEF KInv, Drafts
    <3>2. job'[e] = job[e] /\ files'[e][q] = files[e][q]
      BY <1>2, <1>3
    <3>3. QED
      BY <1>2, <3>1, <3>2 DEF DraftAt, Published, r, l
  <2>7. QED
    BY <2>4, <2>5, <2>6 DEF Drafts
<1>9. Ends'
  BY <1>2 DEF KInv, Ends, Published
<1>10. CopiesAside'
  <2> SUFFICES ASSUME NEW e \in Device \ {d}, pc[e] = "copied"
               PROVE  /\ job[e].cur \in Path /\ job[e].cur \in job[e].todo
                      /\ Conflict(e, job[e].cur)' /\ RemoteWins(e, job[e].cur)'
                      /\ Aside(e, job[e].cur, l(e, job[e].cur))'
    BY <1>2 DEF CopiesAside
  <2>1. job'[e] = job[e] /\ files'[e] = files[e]
    BY <1>1, <1>2 DEF TypeOK
  <2>2. /\ job[e].cur \in Path /\ job[e].cur \in job[e].todo
        /\ Conflict(e, job[e].cur) /\ RemoteWins(e, job[e].cur)
        /\ Aside(e, job[e].cur, l(e, job[e].cur))
    BY DEF KInv, CopiesAside
  <2>3. QED
    BY <1>1, <2>1, <2>2
    DEF Conflict, RemoteWins, Differ, Here, There, localChanged, remoteChanged, l, r, s, Aside
<1>11. QED
  BY <1>6, <1>7, <1>8, <1>9, <1>10 DEF KInv

\* The end of a sync publishes the draft before it is remembered.
LEMMA KEnds ==
  ASSUME TypeOK, AllBacked, KInv, NEW d \in Device,
         RemoveManifest(d) \/ PutManifest(d) \/ Save(d) \/ Abort(d) \/ \E b \in Blob : DropBlob(d, b)
  PROVE  KInv'
<1> USE DEF TypeOK
<1>1. UNCHANGED <<files, copies>> /\ \A e \in Device \ {d} : pc'[e] = pc[e] /\ job'[e] = job[e]
  BY DEF RemoveManifest, PutManifest, Save, Abort, DropBlob
<1>2. pc[d] # "idle" /\ pc'[d] \in {"idle", "publishing", "dropping"}
  BY DEF RemoveManifest, PutManifest, Save, Abort, DropBlob
<1>3. \A p \in Path : NoEntries[p].h = None
  BY DEF NoEntries, NoEntry
<1>4. landed \subseteq landed'
  BY PutIs DEF RemoveManifest, Save, Abort, DropBlob, history, PutManifest
<1>5. /\ pc'[d] # "idle" =>
           /\ job'[d].todo = job[d].todo /\ job'[d].nextFiles = job[d].nextFiles
           /\ job'[d].nextState = job[d].nextState /\ job'[d].st = job[d].st
           /\ job'[d].remote = job[d].remote /\ job'[d].locals = job[d].locals
  <2>1. job[d] \in Job
    OBVIOUS
  <2>2. \A x : LET j == [job[d] EXCEPT !.stale = x]
               IN /\ j.todo = job[d].todo /\ j.nextFiles = job[d].nextFiles
                  /\ j.nextState = job[d].nextState /\ j.st = job[d].st
                  /\ j.remote = job[d].remote /\ j.locals = job[d].locals
    BY <2>1 DEF Job
  <2>3. job'[d] = job[d] \/ pc'[d] = "idle" \/ \E x : job'[d] = [job[d] EXCEPT !.stale = x]
    BY DEF RemoveManifest, PutManifest, Save, Abort, DropBlob
  <2>4. QED
    BY <2>2, <2>3
<1>6. \A p \in Path : \/ fetchManifest'[p] = fetchManifest[p] \/ fetchManifest'[p] = NoEntries[p]
                      \/ /\ pc[d] = "publishing"
                         /\ fetchManifest'[p] = job[d].nextFiles[p]
                         /\ Live(job[d].nextFiles[p]) => <<p, job[d].nextFiles[p].h>> \in landed'
  <2>1. CASE PutManifest(d)
    BY <2>1, PutIs
  <2>2. CASE ~PutManifest(d)
    BY <2>2 DEF RemoveManifest, Save, Abort, DropBlob, fetchManifest, relay
  <2>3. QED
    BY <2>1, <2>2
<1>7. \A p \in Path : state'[d][p] = state[d][p] \/ (pc[d] = "dropping" /\ state'[d][p] = job[d].nextState[p])
  BY DEF RemoveManifest, PutManifest, Save, Abort, DropBlob, relay
<1>8. \A e \in Device \ {d} : state'[e] = state[e]
  BY DEF RemoveManifest, PutManifest, Save, Abort, DropBlob, relay
<1>9. Spare'
  <2> SUFFICES ASSUME NEW p \in Path, p[2] > copies
               PROVE  /\ fetchManifest'[p].h = None
                      /\ \A e \in Device :
                           /\ files[e][p].h = None /\ state'[e][p] = None
                           /\ pc'[e] # "idle" => /\ p \notin job'[e].todo
                                                 /\ job'[e].nextFiles[p].h = None
                                                 /\ job'[e].nextState[p] = None
    BY <1>1 DEF Spare
  <2>1. /\ fetchManifest[p].h = None
        /\ \A e \in Device :
             /\ files[e][p].h = None /\ state[e][p] = None
             /\ pc[e] # "idle" => /\ p \notin job[e].todo
                                  /\ job[e].nextFiles[p].h = None /\ job[e].nextState[p] = None
    BY DEF KInv, Spare
  <2>2. fetchManifest'[p].h = None
    BY <1>2, <1>3, <1>6, <2>1
  <2>3. \A e \in Device : state'[e][p] = None
    BY <1>2, <1>7, <1>8, <2>1
  <2>4. QED
    BY <1>1, <1>2, <1>5, <2>1, <2>2, <2>3
<1>10. Known'
  <2> SUFFICES ASSUME NEW p \in Path
               PROVE  /\ Published(p, fetchManifest[p].h)'
                      /\ \A e \in Device :
                           Published(p, state[e][p])' /\ (pc'[e] # "idle" => Published(p, s(e, p))')
    BY DEF Known
  <2>1. /\ Published(p, fetchManifest[p].h)
        /\ \A e \in Device : Published(p, state[e][p]) /\ (pc[e] # "idle" => Published(p, s(e, p)))
    BY DEF KInv, Known
  <2>2. Published(p, fetchManifest[p].h)'
    <3>1. CASE fetchManifest'[p] = fetchManifest[p] \/ fetchManifest'[p] = NoEntries[p]
      BY <1>3, <1>4, <2>1, <3>1 DEF Published
    <3>2. CASE /\ pc[d] = "publishing"
               /\ fetchManifest'[p] = job[d].nextFiles[p]
               /\ Live(job[d].nextFiles[p]) => <<p, job[d].nextFiles[p].h>> \in landed'
      <4>1. Published(p, job[d].nextFiles[p].h) \/ Live(job[d].nextFiles[p])
        BY <3>2 DEF KInv, Drafts, DraftAt, Making
      <4>2. QED
        BY <1>4, <3>2, <4>1 DEF Published
    <3>3. QED
      BY <1>6, <3>1, <3>2
  <2>3. \A e \in Device : Published(p, state[e][p])'
    BY <1>4, <1>7, <1>8, <2>1 DEF KInv, Ends, Published
  <2>4. \A e \in Device : pc'[e] # "idle" => Published(p, s(e, p))'
    BY <1>1, <1>2, <1>4, <1>5, <2>1 DEF Published, s
  <2>5. QED
    BY <2>2, <2>3, <2>4
<1>11. Drafts'
  <2> SUFFICES ASSUME NEW e \in Device, NEW p \in Path, pc'[e] \in Making
               PROVE  DraftAt(e, p)'
    BY DEF Drafts
  <2>1. pc[e] \in Making
    BY <1>1 DEF Making, RemoveManifest, PutManifest, Save, Abort, DropBlob
  <2>2. DraftAt(e, p)
    BY <2>1 DEF KInv, Drafts
  <2>3. /\ job'[e].todo = job[e].todo /\ job'[e].nextFiles = job[e].nextFiles
        /\ job'[e].nextState = job[e].nextState
        /\ job'[e].remote = job[e].remote /\ job'[e].locals = job[e].locals
    BY <1>1, <1>5 DEF Making
  <2>4. QED
    BY <1>1, <1>4, <2>2, <2>3 DEF DraftAt, Published, r, l
<1>12. Ends'
  <2>1. \A e \in Device \ {d} : /\ pc'[e] \in {"publishing", "dropping"} => job'[e].todo = {}
                                /\ pc'[e] = "dropping" => \A p \in Path : Published(p, job[e].nextState[p])'
    BY <1>1, <1>4 DEF KInv, Ends, Published
  <2>2. pc'[d] \in {"publishing", "dropping"} => job'[d].todo = {}
    BY <1>5 DEF KInv, Ends, RemoveManifest, PutManifest, Save, Abort, DropBlob
  <2>3. ASSUME pc'[d] = "dropping", NEW p \in Path
        PROVE  Published(p, job[d].nextState[p])'
    <3>1. CASE PutManifest(d)
      <4>1. job[d].nextState[p] # None => <<p, job[d].nextState[p]>> \in landed'
        <5>1. DraftAt(d, p)
          BY <3>1 DEF KInv, Drafts, Making, PutManifest
        <5>2. job[d].nextState[p] # None => /\ Live(job[d].nextFiles[p])
                                            /\ job[d].nextFiles[p].h = job[d].nextState[p]
          BY <5>1 DEF DraftAt
        <5>3. QED
          BY <3>1, <5>1, <5>2, PutIs DEF DraftAt
      <4>2. QED
        BY <1>5, <2>3, <4>1 DEF Published
    <3>2. CASE ~PutManifest(d)
      <4>1. pc[d] = "dropping"
        BY <2>3, <3>2 DEF RemoveManifest, Save, Abort, DropBlob
      <4>2. QED
        BY <1>4, <1>5, <2>3, <4>1 DEF KInv, Ends, Published
    <3>3. QED
      BY <3>1, <3>2
  <2>4. QED
    BY <2>1, <2>2, <2>3 DEF Ends
<1>13. CopiesAside'
  <2>1. \A e \in Device : pc'[e] = "copied" => pc[e] = "copied" /\ job'[e] = job[e] /\ files'[e] = files[e]
    BY <1>1, <1>2
  <2>2. copies' = copies
    BY <1>1
  <2>3. QED
    BY <2>1, <2>2, StaysAside DEF KInv
<1>14. QED
  BY <1>9, <1>10, <1>11, <1>12, <1>13 DEF KInv

\* Every step keeps track of what was shared, as long as conflict copies get stamps of their own.
LEMMA KNext ==
  ASSUME EditsWhileSyncing = FALSE, SInv, KInv, [Next]_vars, [NewStamp]_vars
  PROVE  KInv'
<1>1. TypeOK /\ AllBacked /\ CopiesAside
  BY DEF SInv, KInv
<1>2. CASE \E b \in Blob : Expire(b)
  BY <1>2 DEF Expire, history, KInv, Spare, Known, Drafts, Ends, CopiesAside, DraftAt, Published, fetchManifest,
              Conflict, RemoteWins, Differ, Here, There, localChanged, remoteChanged, l, r, s, Aside
<1>3. CASE ExpireManifest
  <2>1. /\ UNCHANGED <<files, state, pc, job, copies, landed>>
        /\ \A p \in Path : fetchManifest'[p].h = None
    BY <1>3 DEF ExpireManifest, history, fetchManifest, NoEntries, NoEntry
  <2>2. Spare'
    BY <2>1 DEF KInv, Spare
  <2>3. Known'
    BY <2>1 DEF KInv, Known, Published, s
  <2>4. Drafts' /\ Ends'
    BY <2>1 DEF KInv, Drafts, Ends, DraftAt, Published, r, l
  <2>5. CopiesAside'
    BY <2>1 DEF KInv, CopiesAside, Conflict, RemoteWins, Differ, Here, There, localChanged, remoteChanged,
                l, r, s, Aside
  <2>6. QED
    BY <2>2, <2>3, <2>4, <2>5 DEF KInv
<1>4. CASE UNCHANGED vars
  BY <1>4 DEF vars, relay, history, KInv, Spare, Known, Drafts, Ends, CopiesAside, DraftAt, Published, fetchManifest,
              Conflict, RemoteWins, Differ, Here, There, localChanged, remoteChanged, l, r, s, Aside
<1>5. CASE NewStamp /\ \E d \in Device, p \in Path : CopyAside(d, p)
  BY <1>1, <1>5, KAside
<1>6. CASE \E d \in Device, p \in Path, entry \in Entry, hash \in Hash, file \in File :
             Compared(d, p, entry, hash, file)
  BY <1>1, <1>6, KCompare
<1>7. CASE \E d \in Device, n \in Name : Delete(d, n) \/ \E c \in Content : Edit(d, n, c)
  BY <1>1, <1>7, KUser
<1>8. CASE \E d \in Device : \E unread \in SUBSET {p \in Path : files[d][p].h # None},
                                st \in loadLocalState(d) : Begin(d, unread, st)
  BY <1>1, <1>8, KBegin
<1>9. CASE \/ \E d \in Device : RemoveManifest(d) \/ PutManifest(d) \/ Save(d) \/ Abort(d)
           \/ \E d \in Device, b \in Blob : DropBlob(d, b)
  BY <1>1, <1>9, KEnds
<1>10. QED
  BY <1>1, <1>2, <1>3, <1>4, <1>5, <1>6, <1>7, <1>8, <1>9, StepIs

\* At the start nothing is on a device or on the relay.
LEMMA KInit ==
  ASSUME Init
  PROVE  KInv
<1>1. /\ \A p \in Path : NoFiles[p].h = None /\ NoHashes[p] = None /\ NoEntries[p].h = None
  BY DEF NoFiles, NoFile, NoHashes, NoEntries, NoEntry
<1>2. /\ \A d \in Device : pc[d] = "idle" /\ files[d] = NoFiles /\ state[d] = NoHashes
      /\ fetchManifest = NoEntries
  BY DEF Init, fetchManifest
<1>3. QED
  BY <1>1, <1>2 DEF KInv, Spare, Known, Drafts, Ends, CopiesAside, Published, Making

\* Without overlap, and without edits during a sync, it holds in every reachable state.
LEMMA KInvHolds ==
  ASSUME Overlap = FALSE, EditsWhileSyncing = FALSE
  PROVE  Spec /\ [][NewStamp]_vars => []KInv
<1>1. Init => KInv
  BY KInit
<1>2. SInv /\ KInv /\ [Next]_vars /\ [NewStamp]_vars => KInv'
  BY KNext
<1>3. Spec => []SInv
  BY SInvHolds
<1>4. QED
  BY <1>1, <1>2, <1>3, PTL DEF Spec

\* "no silent data loss" (syncNow): as long as the syncs of two devices do not overlap, nobody
\* writes on a device while it syncs, and conflict copies get names of their own, a sync that
\* replaces or removes a file as it had read it leaves that version in a conflict copy, unless
\* it had been published before - whatever fails.
THEOREM NoSilentLoss ==
  ASSUME Overlap = FALSE, EditsWhileSyncing = FALSE
  PROVE  Spec /\ [][NewStamp]_vars => KeepsEdits
<1> DEFINE Lost(d, p) == /\ pc[d] # "idle" /\ files[d][p].h # None /\ files'[d][p].h # files[d][p].h
                         /\ job[d].locals[p] = files[d][p]
           Kept(d, p) == \/ <<p, files[d][p].h>> \in landed
                         \/ \E i \in 1..MaxCopies : files'[d][<<p[1], i>>].h = files[d][p].h
           AllKept == \A d \in Device, p \in Path : Lost(d, p) => Kept(d, p)
<1>1. SInv /\ KInv /\ [Next]_vars /\ [NewStamp]_vars => [AllKept]_vars
  <2> SUFFICES ASSUME SInv, KInv, [Next]_vars, NewStamp, NEW d \in Device, NEW p \in Path, Lost(d, p)
               PROVE  Kept(d, p)
    BY DEF vars
  <2>1. TypeOK /\ CopiesAside
    BY DEF SInv, KInv
  <2>2. files'[d] # files[d]
    OBVIOUS
  <2>3. CASE \E e \in Device, n \in Name : Delete(e, n) \/ \E c \in Content : Edit(e, n, c)
    <3>1. PICK e \in Device, n \in Name : Delete(e, n) \/ \E c \in Content : Edit(e, n, c)
      BY <2>3
    <3>2. PICK f \in File : UserWrites(e, n, f)
      BY <2>1, <3>1, UserIs
    <3>3. pc[e] = "idle" /\ (files'[d] # files[d] => d = e)
      BY <2>1, <3>2 DEF UserWrites, TypeOK
    <3>4. QED
      BY <2>2, <3>3
  <2>4. CASE \E e \in Device, q \in Path : CopyAside(e, q)
    <3>1. PICK e \in Device, q \in Path : CopyAside(e, q)
      BY <2>4
    <3>2. /\ copies' = copies + 1 /\ <<q[1], copies'>> \in Path
          /\ files' = [files EXCEPT ![e][<<q[1], copies'>>] = [h |-> l(e, q).h, m |-> now]]
      BY <2>1, <3>1, AsideIs
    <3>3. d = e /\ p = <<q[1], copies'>>
      BY <2>1, <3>2 DEF TypeOK
    <3>4. p[2] > copies
      BY <2>1, <3>2, <3>3 DEF TypeOK
    <3>5. QED
      BY <3>4 DEF KInv, Spare
  <2>5. CASE \E e \in Device, q \in Path, entry \in Entry, hash \in Hash, file \in File :
               Compared(e, q, entry, hash, file)
    <3>1. PICK e \in Device, q \in Path, entry \in Entry, hash \in Hash, file \in File :
                 Compared(e, q, entry, hash, file)
      BY <2>5
    <3>2. files' = [files EXCEPT ![e][q] = file] /\ Decides(e, q, l(e, q), r(e, q), s(e, q), entry, hash, file)
      BY <3>1 DEF Compared
    <3>3. d = e /\ p = q /\ files'[d][p] = file
      BY <2>1, <3>2 DEF TypeOK
    <3>4. Decides(d, p, l(d, p), r(d, p), s(d, p), entry, hash, file) /\ l(d, p) = files[d][p]
      BY <3>2, <3>3 DEF l
    <3>5. files[d][p].h = s(d, p) \/ Aside(d, p, files[d][p])
      BY <3>3, <3>4 DEF Decides, Agrees, Uploads, Downloads, Removes, Tombstones, KeepsDeleted, GivesUp
    <3>6. CASE files[d][p].h = s(d, p)
      BY <3>6 DEF KInv, Known, Published
    <3>7. CASE Aside(d, p, files[d][p])
      <4>1. PICK i \in 1..copies : i # p[2] /\ files[d][<<p[1], i>>].h = files[d][p].h
        BY <3>7 DEF Aside
      <4>2. i \in 1..MaxCopies /\ <<p[1], i>> \in Path /\ <<p[1], i>> # p
        BY <2>1, <4>1, SyncAssumption DEF TypeOK, Path
      <4>3. files'[d][<<p[1], i>>] = files[d][<<p[1], i>>]
        BY <2>1, <3>2, <3>3, <4>2 DEF TypeOK
      <4>4. QED
        BY <4>1, <4>2, <4>3
    <3>8. QED
      BY <3>5, <3>6, <3>7
  <2>6. CASE \/ \E e \in Device : \E unread \in SUBSET {q \in Path : files[e][q].h # None},
                                     st \in loadLocalState(e) : Begin(e, unread, st)
             \/ \E e \in Device : RemoveManifest(e) \/ PutManifest(e) \/ Save(e) \/ Abort(e)
             \/ \E e \in Device, b \in Blob : DropBlob(e, b)
             \/ (\E b \in Blob : Expire(b)) \/ ExpireManifest \/ UNCHANGED vars
    BY <2>2, <2>6 DEF Begin, RemoveManifest, PutManifest, Save, Abort, DropBlob, Expire, ExpireManifest, vars
  <2>7. QED
    BY <2>1, <2>3, <2>4, <2>5, <2>6, StepIs
<1>2. QED
  BY <1>1, SInvHolds, KInvHolds, PTL DEF Spec, KeepsEdits

-----------------------------------------------------------------------------
\* While nothing fails, a sync is as good as a series of comparisons each of which is at once
\* done: with the file of the device, the entry to be published and the hash to be remembered.

Calm == faults = 0 /\ expired = {}

\* The entry of p that the next sync finds, or that the one under way is to publish.
Busy == {d \in Device : pc[d] \in Making}
Top(p) == IF Busy = {} THEN fetchManifest[p] ELSE job[CHOOSE d \in Busy : TRUE].nextFiles[p]

\* The hash that the next comparison of p on d finds.
Base(d, p) == IF pc[d] = "idle" \/ p \in job[d].todo THEN state[d][p] ELSE job[d].nextState[p]

\* A sync compares the files that the device has with what it remembers.
UpToDate(d) ==
  /\ job[d].at <= now /\ job[d].st = state[d]
  /\ \A p \in job[d].todo : job[d].locals[p] = files[d][p]
CalmInv == Calm => \A d \in Device : pc[d] # "idle" => UpToDate(d)

\* Nobody sees a difference, but that what is neither here nor there is forgotten.
Unseen ==
  /\ UNCHANGED <<files, now, newest, dirty, copies>>
  /\ \A p \in Path : Top(p)' = Top(p)
  /\ \A d \in Device, p \in Path : \/ Base(d, p)' = Base(d, p)
                                   \/ Base(d, p)' = None /\ files[d][p].h = None

\* Files change, and nothing that is published or remembered.
OnlyFiles ==
  /\ \A p \in Path : Top(p)' = Top(p)
  /\ \A d \in Device, p \in Path : Base(d, p)' = Base(d, p)

\* A comparison without a failure.
Settles(d, p, f, t, b, entry, hash, file) ==
  \/ Agrees(d, p, f, t, b, entry, hash, file)
  \/ Uploads(d, p, f, t, b, entry, hash, file)
  \/ Downloads(d, p, f, t, b, entry, hash, file)
  \/ Removes(d, p, f, t, b, entry, hash, file)
  \/ Tombstones(d, p, f, t, b, entry, hash, file)
  \/ KeepsDeleted(d, p, f, t, b, entry, hash, file)

Settled(d, p, entry, hash, file) ==
  /\ Settles(d, p, files[d][p], Top(p), Base(d, p), entry, hash, file)
  /\ job[d].at <= now
  /\ files' = [files EXCEPT ![d][p] = file]
  /\ \A q \in Path : Top(q)' = IF q = p THEN entry ELSE Top(q)
  /\ \A e \in Device, q \in Path : Base(e, q)' = IF e = d /\ q = p THEN hash ELSE Base(e, q)
  /\ dirty' = dirty \ {<<d, p>>}
  /\ UNCHANGED <<now, newest, copies>>

\* A conflict copy of a file that is on the device goes to a path of its own.
SetsAside(d, p) ==
  /\ <<p[1], copies + 1>> \in Path
  /\ files' = [files EXCEPT ![d][<<p[1], copies + 1>>] = [h |-> files[d][p].h, m |-> now]]
  /\ OnlyFiles
  /\ copies' = copies + 1
  /\ UNCHANGED <<now, newest, dirty>>

\* The one element of a set.
LEMMA OnlyOne ==
  ASSUME NEW S, NEW x \in S, \A y \in S : y = x
  PROVE  (CHOOSE y \in S : TRUE) = x
<1>1. \E y : y \in S
  OBVIOUS
<1>2. (CHOOSE y \in S : TRUE) \in S
  BY <1>1
<1>3. QED
  BY <1>2

\* Without overlap, what a sync is to publish is what the next one finds.
LEMMA TopIs ==
  ASSUME Alone
  PROVE  /\ \A d \in Busy, p \in Path : Top(p) = job[d].nextFiles[p]
         /\ Busy = {} => \A p \in Path : Top(p) = fetchManifest[p]
<1>1. ASSUME NEW d \in Busy
      PROVE  (CHOOSE e \in Busy : TRUE) = d
  <2>1. \A e \in Busy : e = d
    BY DEF Alone, Busy, Making
  <2>2. QED
    BY <2>1, OnlyOne
<1>2. QED
  BY <1>1 DEF Top

\* The same after the step.
LEMMA TopIsNext ==
  ASSUME Alone'
  PROVE  /\ \A d \in Busy', p \in Path : Top(p)' = job'[d].nextFiles[p]
         /\ Busy' = {} => \A p \in Path : Top(p)' = fetchManifest'[p]
<1>1. ASSUME NEW d \in Busy'
      PROVE  (CHOOSE e \in Busy' : TRUE) = d
  <2>1. \A e \in Busy' : e = d
    BY DEF Alone, Busy, Making
  <2>2. QED
    BY <2>1, OnlyOne
<1>2. QED
  BY <1>1 DEF Top

\* What was published or is remembered was shared before, or is on a device.
LEMMA Seen ==
  ASSUME SInv, KInv, NEW p \in Path, NEW h, h # None, Top(p).h = h \/ \E d \in Device : Base(d, p) = h
  PROVE  <<p, h>> \in landed \/ \E d \in Device : files[d][p].h = h
<1>1. CASE Top(p).h = h /\ Busy = {}
  BY <1>1, TopIs DEF SInv, KInv, Known, Published
<1>2. CASE Top(p).h = h /\ Busy # {}
  <2>1. PICK d \in Device : d \in Busy
    BY <1>2 DEF Busy
  <2>2. DraftAt(d, p) /\ job[d].nextFiles[p].h = h
    BY <1>2, <2>1, TopIs DEF SInv, KInv, Drafts, Busy
  <2>3. QED
    BY <2>2 DEF DraftAt, Published
<1>3. ASSUME NEW d \in Device, Base(d, p) = h
      PROVE  <<p, h>> \in landed \/ \E e \in Device : files[e][p].h = h
  <2>1. CASE state[d][p] = h
    BY <2>1 DEF KInv, Known, Published
  <2>2. CASE pc[d] # "idle" /\ job[d].nextState[p] = h
    <3>1. pc[d] = "dropping" \/ pc[d] \in Making
      BY <2>2 DEF SInv, TypeOK, Stage, Making
    <3>2. CASE pc[d] = "dropping"
      BY <2>2, <3>2 DEF KInv, Ends, Published
    <3>3. CASE pc[d] \in Making
      <4>1. DraftAt(d, p)
        BY <3>3 DEF KInv, Drafts
      <4>2. QED
        BY <2>2, <4>1 DEF DraftAt, Published
    <3>4. QED
      BY <3>1, <3>2, <3>3
  <2>3. QED
    BY <1>3, <2>1, <2>2 DEF Base
<1>4. QED
  BY <1>1, <1>2, <1>3

\* Failures and expiries are not undone.
LEMMA CalmBefore ==
  ASSUME TypeOK, [Next]_vars, Calm'
  PROVE  Calm /\ ~ExpireManifest /\ (\A d \in Device : ~Abort(d)) /\ (\A b \in Blob : ~Expire(b))
<1>1. faults \in Nat
  BY DEF TypeOK
<1>2. (\A b \in Blob : ~Expire(b)) /\ ~ExpireManifest /\ \A d \in Device : ~Abort(d)
  BY <1>1 DEF Calm, Expire, ExpireManifest, Abort
<1>3. faults' \in {faults, faults + 1}
  <2>1. ASSUME NEW d \in Device, User(d)
        PROVE  faults' = faults
    BY <2>1 DEF User, Delete, Edit, Write
  <2>2. ASSUME NEW d \in Device, NEW unread, NEW st, Begin(d, unread, st)
        PROVE  faults' \in {faults, faults + 1}
    BY <2>2 DEF Begin
  <2>3. ASSUME NEW d \in Device, NEW p \in Path, Compare(d, p)
        PROVE  faults' = faults
    BY <2>3 DEF Compare, Same, Upload, Download, CopyAside, DownloadWinner, Fetch, RemoveLocal, Tombstone,
                KeepTombstone, BlobMissing
  <2>4. ASSUME NEW d \in Device, RemoveManifest(d) \/ PutManifest(d) \/ Save(d) \/ \E b \in Blob : DropBlob(d, b)
        PROVE  faults' \in {faults, faults + 1}
    BY <2>4 DEF RemoveManifest, PutManifest, Save, DropBlob
  <2>5. ASSUME NEW d \in Device, NEW p \in Path, PathFails(d, p)
        PROVE  faults' = faults + 1
    BY <2>5 DEF PathFails
  <2>6. CASE UNCHANGED vars
    BY <2>6 DEF vars
  <2>7. QED
    BY <1>2, <2>1, <2>2, <2>3, <2>4, <2>5, <2>6 DEF Next, Step
<1>4. expired' = expired
  <2>1. ASSUME NEW d \in Device, User(d)
        PROVE  expired' = expired
    BY <2>1 DEF User, Delete, Edit, Write
  <2>2. ASSUME NEW d \in Device, NEW unread, NEW st, Begin(d, unread, st)
        PROVE  expired' = expired
    BY <2>2 DEF Begin
  <2>3. ASSUME NEW d \in Device, NEW p \in Path, Compare(d, p) \/ PathFails(d, p)
        PROVE  expired' = expired
    BY <2>3 DEF Compare, Same, Upload, Download, CopyAside, DownloadWinner, Fetch, RemoveLocal, Tombstone,
                KeepTombstone, BlobMissing, PathFails, Done
  <2>4. ASSUME NEW d \in Device, RemoveManifest(d) \/ PutManifest(d) \/ Save(d) \/ \E b \in Blob : DropBlob(d, b)
        PROVE  expired' = expired
    BY <2>4 DEF RemoveManifest, PutManifest, Save, DropBlob
  <2>5. CASE UNCHANGED vars
    BY <2>5 DEF vars
  <2>6. QED
    BY <1>2, <2>1, <2>2, <2>3, <2>4, <2>5 DEF Next, Step
<1>5. QED
  BY <1>1, <1>2, <1>3, <1>4 DEF Calm

\* A step that leaves where syncs are, what they hold and what is on the relay and in
\* sync-state.json alone is one on files only.
LEMMA SameView ==
  ASSUME UNCHANGED <<pc, job, state, manifest>>
  PROVE  OnlyFiles
<1>1. Busy' = Busy /\ fetchManifest' = fetchManifest
  BY DEF Busy, Making, fetchManifest
<1>2. QED
  BY <1>1 DEF OnlyFiles, Top, Base

\* A user writes between two syncs of the device.
LEMMA ViewUser ==
  ASSUME TypeOK, CalmInv, Calm, NEW d \in Device, NEW n \in Name, NEW f \in File, UserWrites(d, n, f)
  PROVE  OnlyFiles /\ CalmInv'
<1>1. OnlyFiles
  BY SameView DEF UserWrites, relay
<1>2. CalmInv'
  <2> SUFFICES ASSUME NEW e \in Device, pc[e] # "idle"
               PROVE  UpToDate(e)'
    BY DEF CalmInv, UserWrites
  <2>1. files'[e] = files[e] /\ now' = now + 1 /\ now \in Nat /\ job[e].at \in Nat
    BY DEF UserWrites, TypeOK, Job
  <2>2. QED
    BY <2>1 DEF CalmInv, UpToDate, UserWrites
<1>3. QED
  BY <1>1, <1>2

\* A sync starts: it finds what the last one left.
LEMMA ViewBegin ==
  ASSUME Overlap = FALSE, SInv, SInv', KInv, CalmInv, Calm, Calm',
         NEW d \in Device, NEW unread, NEW st \in loadLocalState(d), Begin(d, unread, st)
  PROVE  Unseen /\ CalmInv'
<1>1. /\ pc[d] = "idle" /\ pc'[d] = "paths"
      /\ \A e \in Device \ {d} : pc'[e] = pc[e] /\ job'[e] = job[e]
      /\ job'[d].nextFiles = fetchManifest /\ job'[d].nextState = NoHashes
      /\ job'[d].at = now /\ job'[d].locals = walkCollection(d, unread)
      /\ job'[d].todo = {p \in Path : job'[d].locals[p].h # None \/ fetchManifest[p].h # None}
      /\ faults' = faults => unread = {} /\ st = state[d]
      /\ job'[d].st = st
      /\ UNCHANGED <<files, state, relay, now, copies, expired, history>>
  BY BeginIs DEF SInv
<1>2. unread = {} /\ job'[d].st = state[d]
  BY <1>1 DEF Calm
<1>3. \A p \in Path : job'[d].locals[p] = files[d][p]
  BY <1>1, <1>2 DEF walkCollection
<1>4. \A e \in Device : pc[e] = "idle"
  BY DEF Begin
<1>5. Busy = {} /\ Busy' = {d}
  BY <1>1, <1>4 DEF Busy, Making
<1>6. \A p \in Path : Top(p)' = Top(p)
  <2>1. \A p \in Path : Top(p) = fetchManifest[p]
    BY <1>5, TopIs DEF SInv
  <2>2. \A p \in Path : Top(p)' = job'[d].nextFiles[p]
    BY <1>5, TopIsNext DEF SInv
  <2>3. QED
    BY <1>1, <2>1, <2>2
<1>7. \A e \in Device, p \in Path : \/ Base(e, p)' = Base(e, p)
                                    \/ Base(e, p)' = None /\ files[e][p].h = None
  <2>1. ASSUME NEW e \in Device \ {d}, NEW p \in Path
        PROVE  Base(e, p)' = Base(e, p)
    BY <1>1 DEF Base
  <2>2. ASSUME NEW p \in Path
        PROVE  \/ Base(d, p)' = Base(d, p)
               \/ Base(d, p)' = None /\ files[d][p].h = None
    BY <1>1, <1>3 DEF Base, NoHashes
  <2>3. QED
    BY <2>1, <2>2
<1>8. CalmInv'
  <2> SUFFICES ASSUME NEW e \in Device, pc'[e] # "idle"
               PROVE  UpToDate(e)'
    BY DEF CalmInv
  <2>1. e = d
    BY <1>1, <1>4
  <2>2. \A p \in job'[d].todo : p \in Path
    BY <1>1
  <2>3. job'[d].at <= now' /\ job'[d].st = state'[d] /\ \A p \in job'[d].todo : job'[d].locals[p] = files'[d][p]
    BY <1>1, <1>2, <1>3, <2>2 DEF SInv, TypeOK
  <2>4. QED
    BY <2>1, <2>3 DEF UpToDate
<1>9. QED
  BY <1>1, <1>6, <1>7, <1>8 DEF Unseen, history

\* A comparison that ends.
LEMMA ViewCompare ==
  ASSUME SInv, SInv', KInv, CalmInv, Calm, Calm', NEW d \in Device, NEW p \in Path,
         NEW entry \in Entry, NEW hash \in Hash, NEW file \in File, Compared(d, p, entry, hash, file)
  PROVE  Settled(d, p, entry, hash, file) /\ CalmInv'
<1>1. /\ pc[d] \in {"paths", "copied"} /\ p \in job[d].todo
      /\ Done(d, p, entry, hash)
      /\ files' = [files EXCEPT ![d][p] = file] /\ copies' = copies
      /\ Decides(d, p, l(d, p), r(d, p), s(d, p), entry, hash, file)
  BY DEF Compared
<1>2. /\ pc'[d] = "paths"
      /\ \A e \in Device \ {d} : pc'[e] = pc[e] /\ job'[e] = job[e]
      /\ job'[d].todo = job[d].todo \ {p}
      /\ \A q \in Path : /\ job'[d].nextFiles[q] = IF q = p THEN entry ELSE job[d].nextFiles[q]
                         /\ job'[d].nextState[q] = IF q = p THEN hash ELSE job[d].nextState[q]
      /\ job'[d].locals = job[d].locals
      /\ job'[d].st = job[d].st /\ job'[d].at = job[d].at
      /\ dirty' = dirty \ {<<d, p>>}
      /\ UNCHANGED <<state, manifest, now, expired, landed, newest>>
  BY <1>1, DoneIs DEF SInv
<1>3. UpToDate(d)
  BY <1>1 DEF CalmInv
<1>4. Busy = {d} /\ Busy' = {d}
  BY <1>1, <1>2 DEF SInv, Alone, Busy, Making
<1>5. \A q \in Path : Top(q) = job[d].nextFiles[q] /\ Top(q)' = job'[d].nextFiles[q]
  BY <1>4, TopIs, TopIsNext DEF SInv
<1>6. l(d, p) = files[d][p] /\ r(d, p) = Top(p) /\ s(d, p) = Base(d, p)
  <2>1. DraftAt(d, p)
    BY <1>1 DEF KInv, Drafts, Making
  <2>2. r(d, p) = Top(p)
    BY <1>1, <1>5, <2>1 DEF DraftAt
  <2>3. QED
    BY <1>1, <1>3, <2>2 DEF UpToDate, l, s, Base
<1>7. ~GivesUp(d, p, l(d, p), r(d, p), s(d, p), entry, hash, file)
  <2>1. Live(r(d, p)) => <<p, r(d, p).h>> \in blobs
    BY <1>1 DEF SInv, AllBacked, Backed, Calm, r
  <2>2. QED
    BY <2>1 DEF GivesUp, Calm
<1>8. Settles(d, p, files[d][p], Top(p), Base(d, p), entry, hash, file)
  BY <1>1, <1>6, <1>7 DEF Decides, Settles
<1>9. \A e \in Device, q \in Path : Base(e, q)' = IF e = d /\ q = p THEN hash ELSE Base(e, q)
  <2>1. ASSUME NEW e \in Device \ {d}, NEW q \in Path
        PROVE  Base(e, q)' = Base(e, q)
    BY <1>2 DEF Base
  <2>2. ASSUME NEW q \in Path \ {p}
        PROVE  Base(d, q)' = Base(d, q)
    BY <1>1, <1>2 DEF Base
  <2>3. Base(d, p)' = hash
    BY <1>2 DEF Base
  <2>4. QED
    BY <2>1, <2>2, <2>3
<1>10. CalmInv'
  <2> SUFFICES ASSUME NEW e \in Device, pc'[e] # "idle"
               PROVE  UpToDate(e)'
    BY DEF CalmInv
  <2>1. e = d
    BY <1>1, <1>2 DEF SInv, Alone
  <2>2. \A q \in job[d].todo \ {p} : files'[d][q] = files[d][q]
    BY <1>1 DEF SInv, TypeOK, Job
  <2>3. QED
    BY <1>2, <1>3, <2>1, <2>2 DEF UpToDate
<1>11. QED
  BY <1>1, <1>2, <1>3, <1>5, <1>8, <1>9, <1>10 DEF Settled, UpToDate

\* A conflict copy is made.
LEMMA ViewAside ==
  ASSUME SInv, KInv, CalmInv, Calm, NewStamp, NEW d \in Device, NEW p \in Path, CopyAside(d, p)
  PROVE  SetsAside(d, p) /\ CalmInv'
<1>1. /\ pc[d] = "paths" /\ pc'[d] = "copied" /\ p \in job[d].todo
      /\ \A e \in Device \ {d} : pc'[e] = pc[e] /\ job'[e] = job[e]
      /\ job'[d].nextFiles = job[d].nextFiles
      /\ job'[d].nextState = job[d].nextState /\ job'[d].st = job[d].st /\ job'[d].at = job[d].at
      /\ job'[d].locals = job[d].locals /\ job'[d].todo = job[d].todo
      /\ copies' = copies + 1 /\ <<p[1], copies'>> \in Path
      /\ files' = [files EXCEPT ![d][<<p[1], copies'>>] = [h |-> l(d, p).h, m |-> now]]
      /\ UNCHANGED <<state, relay, now, faults, expired, history>>
  BY AsideIs DEF SInv
<1>2. UpToDate(d) /\ l(d, p) = files[d][p]
  BY <1>1 DEF CalmInv, UpToDate, l
<1>3. Busy = {d} /\ Busy' = {d}
  BY <1>1 DEF SInv, Alone, Busy, Making
<1>4. Alone'
  BY <1>1 DEF SInv, Alone
<1>5. \A q \in Path : Top(q)' = Top(q)
  <2>1. \A q \in Path : Top(q) = job[d].nextFiles[q] /\ Top(q)' = job'[d].nextFiles[q]
    BY <1>3, <1>4, TopIs, TopIsNext DEF SInv
  <2>2. QED
    BY <1>1, <2>1
<1>6. \A e \in Device, q \in Path : Base(e, q)' = Base(e, q)
  BY <1>1 DEF Base
<1>7. CalmInv'
  <2> SUFFICES ASSUME NEW e \in Device, pc'[e] # "idle"
               PROVE  UpToDate(e)'
    BY DEF CalmInv
  <2>1. e = d
    BY <1>1 DEF SInv, Alone
  <2>2. ASSUME NEW q \in job[d].todo
        PROVE  files'[d][q] = files[d][q]
    <3>1. q \in Path /\ ~(q[2] > copies) /\ copies \in Nat
      BY <1>1 DEF SInv, TypeOK, Job, KInv, Spare
    <3>2. q # <<p[1], copies'>>
      BY <1>1, <3>1
    <3>3. QED
      BY <1>1, <3>1, <3>2 DEF SInv, TypeOK
  <2>3. QED
    BY <1>1, <1>2, <2>1, <2>2 DEF UpToDate
<1>8. QED
  BY <1>1, <1>2, <1>5, <1>6, <1>7 DEF SetsAside, OnlyFiles, history

\* The manifest is replaced, blobs are dropped, and the device remembers what it published.
LEMMA ViewEnds ==
  ASSUME SInv, SInv', KInv, CalmInv, Calm, NEW d \in Device,
         RemoveManifest(d) \/ PutManifest(d) \/ Save(d) \/ \E b \in Blob : DropBlob(d, b)
  PROVE  Unseen /\ CalmInv'
<1> USE DEF SInv
<1>1. /\ UNCHANGED <<files, now, newest, dirty, copies>>
      /\ \A e \in Device \ {d} : pc[e] = "idle" /\ pc'[e] = "idle" /\ state'[e] = state[e]
      /\ pc[d] \in {"paths", "publishing", "dropping"}
      /\ UpToDate(d)
  BY DEF RemoveManifest, PutManifest, Save, DropBlob, TypeOK, Alone, history, relay, CalmInv
<1>2. CASE RemoveManifest(d)
  <2>1. pc[d] = "paths" /\ pc'[d] = "publishing" /\ UNCHANGED <<job, state>>
    BY <1>2 DEF RemoveManifest, TypeOK
  <2>2. Busy = {d} /\ Busy' = {d}
    BY <1>1, <2>1 DEF Busy, Making
  <2>3. \A p \in Path : Top(p)' = Top(p)
    BY <2>1, <2>2, TopIs, TopIsNext
  <2>4. \A e \in Device, p \in Path : Base(e, p)' = Base(e, p)
    BY <1>1, <2>1 DEF Base
  <2>5. CalmInv'
    BY <1>1, <2>1 DEF CalmInv, UpToDate
  <2>6. QED
    BY <1>1, <2>3, <2>4, <2>5 DEF Unseen
<1>3. CASE PutManifest(d)
  <2>1. /\ pc[d] = "publishing" /\ pc'[d] = "dropping"
        /\ job'[d].nextState = job[d].nextState /\ job'[d].st = job[d].st /\ job'[d].at = job[d].at
        /\ job'[d].locals = job[d].locals /\ job'[d].todo = job[d].todo
        /\ \A p \in Path : fetchManifest'[p] = job[d].nextFiles[p]
        /\ UNCHANGED state
    BY <1>3, PutIs
  <2>2. Busy = {d} /\ Busy' = {}
    BY <1>1, <2>1 DEF Busy, Making
  <2>3. \A p \in Path : Top(p)' = Top(p)
    BY <2>1, <2>2, TopIs, TopIsNext
  <2>4. \A e \in Device, p \in Path : Base(e, p)' = Base(e, p)
    BY <1>1, <2>1 DEF Base
  <2>5. CalmInv'
    BY <1>1, <2>1 DEF CalmInv, UpToDate
  <2>6. QED
    BY <1>1, <2>3, <2>4, <2>5 DEF Unseen
<1>4. CASE \E b \in Blob : DropBlob(d, b)
  <2>1. PICK b \in Blob : DropBlob(d, b)
    BY <1>4
  <2>2. job[d] \in Job /\ job'[d] = [job[d] EXCEPT !.stale = job[d].stale \ {b}]
    BY <2>1 DEF DropBlob, TypeOK
  <2>3. /\ job'[d].nextState = job[d].nextState /\ job'[d].st = job[d].st /\ job'[d].at = job[d].at
        /\ job'[d].locals = job[d].locals /\ job'[d].todo = job[d].todo
    BY <2>2 DEF Job
  <2>4. pc[d] = "dropping" /\ UNCHANGED <<pc, state, manifest>>
    BY <2>1 DEF DropBlob
  <2>5. Busy = {} /\ Busy' = {} /\ fetchManifest' = fetchManifest
    BY <1>1, <2>4 DEF Busy, Making, fetchManifest
  <2>6. \A p \in Path : Top(p)' = Top(p)
    BY <2>5, TopIs, TopIsNext
  <2>7. \A e \in Device, p \in Path : Base(e, p)' = Base(e, p)
    BY <1>1, <2>3, <2>4 DEF Base
  <2>8. CalmInv'
    BY <1>1, <2>3, <2>4 DEF CalmInv, UpToDate
  <2>9. QED
    BY <1>1, <2>6, <2>7, <2>8 DEF Unseen
<1>5. CASE Save(d)
  <2>1. pc[d] = "dropping" /\ pc'[d] = "idle" /\ state'[d] = job[d].nextState /\ UNCHANGED manifest
    BY <1>5 DEF Save, TypeOK, relay
  <2>2. job[d].todo = {}
    BY <2>1 DEF KInv, Ends
  <2>3. Busy = {} /\ Busy' = {} /\ fetchManifest' = fetchManifest
    BY <1>1, <2>1 DEF Busy, Making, fetchManifest
  <2>4. \A p \in Path : Top(p)' = Top(p)
    BY <2>3, TopIs, TopIsNext
  <2>5. \A e \in Device, p \in Path : Base(e, p)' = Base(e, p)
    BY <1>1, <2>1, <2>2 DEF Base
  <2>6. CalmInv'
    BY <1>1, <2>1 DEF CalmInv
  <2>7. QED
    BY <1>1, <2>4, <2>5, <2>6 DEF Unseen
<1>6. QED
  BY <1>2, <1>3, <1>4, <1>5

\* While nothing fails every step is one of these five.
LEMMA View ==
  ASSUME Overlap = FALSE, EditsWhileSyncing = FALSE, SInv, SInv', KInv, CalmInv, Calm',
         [Next]_vars, [NewStamp]_vars
  PROVE  /\ CalmInv'
         /\ \/ Unseen
            \/ \E d \in Device, n \in Name, f \in File : UserWrites(d, n, f) /\ OnlyFiles
            \/ \E d \in Device, p \in Path, entry \in Entry, hash \in Hash, file \in File :
                 Settled(d, p, entry, hash, file)
            \/ \E d \in Device, p \in Path : SetsAside(d, p)
<1>1. TypeOK /\ CopiesAside /\ AllBacked
  BY DEF SInv, KInv
<1>2. Calm /\ ~ExpireManifest /\ (\A d \in Device : ~Abort(d)) /\ (\A b \in Blob : ~Expire(b))
  BY <1>1, CalmBefore
<1>3. CASE \E d \in Device, n \in Name : Delete(d, n) \/ \E c \in Content : Edit(d, n, c)
  BY <1>1, <1>2, <1>3, UserIs, ViewUser
<1>4. CASE \E d \in Device : \E unread \in SUBSET {p \in Path : files[d][p].h # None},
                                st \in loadLocalState(d) : Begin(d, unread, st)
  BY <1>1, <1>2, <1>4, ViewBegin
<1>5. CASE \E d \in Device, p \in Path, entry \in Entry, hash \in Hash, file \in File :
             Compared(d, p, entry, hash, file)
  BY <1>1, <1>2, <1>5, ViewCompare
<1>6. CASE NewStamp /\ \E d \in Device, p \in Path : CopyAside(d, p)
  BY <1>1, <1>2, <1>6, ViewAside
<1>7. CASE \/ \E d \in Device : RemoveManifest(d) \/ PutManifest(d) \/ Save(d)
           \/ \E d \in Device, b \in Blob : DropBlob(d, b)
  BY <1>1, <1>2, <1>7, ViewEnds
<1>8. CASE UNCHANGED vars
  <2>1. OnlyFiles /\ UNCHANGED <<files, now, newest, dirty, copies>>
    BY <1>8, SameView DEF vars, relay, history
  <2>2. CalmInv'
    BY <1>8 DEF vars, relay, history, CalmInv, Calm, UpToDate
  <2>3. QED
    BY <2>1, <2>2 DEF Unseen, OnlyFiles
<1>9. QED
  BY <1>1, <1>2, <1>3, <1>4, <1>5, <1>6, <1>7, <1>8, StepIs

-----------------------------------------------------------------------------
\* Deletions.

\* What a device remembers has an entry, be it a tombstone, and a file that no user wrote
\* since the last comparison is what the device remembers.
DeletedInv ==
  Calm => \A d \in Device, p \in Path :
    /\ Base(d, p) # None => Top(p).h # None
    /\ (p[2] = 0 /\ <<d, p>> \notin dirty /\ files[d][p].h # None) => Base(d, p) = files[d][p].h

\* The entry that a sync is to publish has its type.
LEMMA TopType ==
  ASSUME SInv, NEW p \in Path
  PROVE  Top(p) \in Entry
<1>1. manifest \in [Path -> Entry] \cup {NoManifest} /\ NoEntries \in [Path -> Entry]
  BY Blanks DEF SInv, TypeOK
<1>2. fetchManifest[p] \in Entry
  BY <1>1 DEF fetchManifest
<1>3. \A d \in Device : job[d].nextFiles[p] \in Entry
  BY DEF SInv, TypeOK, Job
<1>4. CASE Busy = {}
  BY <1>2, <1>4, TopIs DEF SInv
<1>5. CASE Busy # {}
  <2>1. PICK d \in Device : d \in Busy
    BY <1>5 DEF Busy
  <2>2. QED
    BY <1>3, <2>1, TopIs DEF SInv
<1>6. QED
  BY <1>4, <1>5

\* A comparison keeps what is neither pruned nor forgotten.
LEMMA DeletedSettled ==
  ASSUME MaxEdits <= PruneAge, SInv, DeletedInv, Calm, NEW d \in Device, NEW p \in Path,
         NEW entry \in Entry, NEW hash \in Hash, NEW file \in File, Settled(d, p, entry, hash, file)
  PROVE  DeletedInv'
<1> DEFINE f == files[d][p]  t == Top(p)  b == Base(d, p)
<1>1. t \in Entry /\ t.m \in Nat /\ job[d].at \in Nat /\ now \in 0..MaxEdits /\ f \in File
  BY TopType DEF Entry, SInv, TypeOK, Job
<1>2. /\ Settles(d, p, f, t, b, entry, hash, file) /\ job[d].at <= now
      /\ files' = [files EXCEPT ![d][p] = file]
      /\ \A q \in Path : Top(q)' = IF q = p THEN entry ELSE Top(q)
      /\ \A e \in Device, q \in Path : Base(e, q)' = IF e = d /\ q = p THEN hash ELSE Base(e, q)
      /\ dirty' = dirty \ {<<d, p>>}
  BY DEF Settled
<1>3. ~(job[d].at - t.m > PruneAge)
  BY <1>1, <1>2, SyncAssumption
<1>4. /\ t.h # None => entry.h # None
      /\ hash # None => entry.h # None
      /\ file.h # None => hash = file.h
  <2>1. CASE Agrees(d, p, f, t, b, entry, hash, file)
    BY <2>1 DEF Agrees
  <2>2. CASE Uploads(d, p, f, t, b, entry, hash, file)
    BY <2>2 DEF Uploads
  <2>3. CASE Downloads(d, p, f, t, b, entry, hash, file)
    BY <2>3 DEF Downloads, Live
  <2>4. CASE Removes(d, p, f, t, b, entry, hash, file)
    BY <2>4 DEF Removes, NoFile
  <2>5. CASE Tombstones(d, p, f, t, b, entry, hash, file)
    <3>1. entry.h = t.h
      BY <1>1, <2>5 DEF Tombstones, Entry
    <3>2. QED
      BY <2>5, <3>1 DEF Tombstones
  <2>6. CASE KeepsDeleted(d, p, f, t, b, entry, hash, file)
    BY <1>3, <2>6 DEF KeepsDeleted
  <2>7. QED
    BY <1>2, <2>1, <2>2, <2>3, <2>4, <2>5, <2>6 DEF Settles
<1>5. files'[d][p] = file /\ \A e \in Device, q \in Path : (e # d \/ q # p) => files'[e][q] = files[e][q]
  BY <1>2 DEF SInv, TypeOK
<1> SUFFICES ASSUME NEW e \in Device, NEW q \in Path
             PROVE  /\ Base(e, q)' # None => Top(q)'.h # None
                    /\ (q[2] = 0 /\ <<e, q>> \notin dirty' /\ files'[e][q].h # None)
                         => Base(e, q)' = files'[e][q].h
  BY DEF DeletedInv
<1>6. /\ Base(e, q) # None => Top(q).h # None
      /\ (q[2] = 0 /\ <<e, q>> \notin dirty /\ files[e][q].h # None) => Base(e, q) = files[e][q].h
  BY DEF DeletedInv
<1>7. CASE e = d /\ q = p
  BY <1>2, <1>4, <1>5, <1>7
<1>8. CASE ~(e = d /\ q = p)
  <2>1. Base(e, q)' = Base(e, q) /\ files'[e][q] = files[e][q] /\ (<<e, q>> \notin dirty' => <<e, q>> \notin dirty)
    BY <1>2, <1>5, <1>8
  <2>2. Top(q).h # None => Top(q)'.h # None
    BY <1>2, <1>4
  <2>3. QED
    BY <1>6, <2>1, <2>2
<1>9. QED
  BY <1>7, <1>8

\* Every step does.
LEMMA DeletedNext ==
  ASSUME Overlap = FALSE, EditsWhileSyncing = FALSE, MaxEdits <= PruneAge, SInv, SInv', KInv, CalmInv,
         DeletedInv, [Next]_vars, [NewStamp]_vars
  PROVE  CalmInv' /\ DeletedInv'
<1> SUFFICES ASSUME Calm'
             PROVE  CalmInv' /\ DeletedInv'
  BY DEF CalmInv, DeletedInv
<1>1. Calm
  BY CalmBefore DEF SInv
<1>2. CalmInv'
  BY View
<1>3. CASE Unseen
  <2> SUFFICES ASSUME NEW d \in Device, NEW p \in Path
               PROVE  /\ Base(d, p)' # None => Top(p)'.h # None
                      /\ (p[2] = 0 /\ <<d, p>> \notin dirty /\ files[d][p].h # None)
                           => Base(d, p)' = files[d][p].h
    BY <1>2, <1>3 DEF DeletedInv, Unseen
  <2>1. Top(p)' = Top(p) /\ (Base(d, p)' = Base(d, p) \/ (Base(d, p)' = None /\ files[d][p].h = None))
    BY <1>3 DEF Unseen
  <2>2. QED
    BY <1>1, <2>1 DEF DeletedInv
<1>4. CASE \E d \in Device, n \in Name, f \in File : UserWrites(d, n, f) /\ OnlyFiles
  <2>1. PICK d \in Device, n \in Name, f \in File : UserWrites(d, n, f) /\ OnlyFiles
    BY <1>4
  <2>2. /\ files' = [files EXCEPT ![d][<<n, 0>>] = f] /\ <<n, 0>> \in Path
        /\ dirty' = IF f.h = None THEN dirty \ {<<d, <<n, 0>>>>} ELSE dirty \cup {<<d, <<n, 0>>>>}
    BY <2>1 DEF UserWrites
  <2> SUFFICES ASSUME NEW e \in Device, NEW p \in Path
               PROVE  /\ Base(e, p)' # None => Top(p)'.h # None
                      /\ (p[2] = 0 /\ <<e, p>> \notin dirty' /\ files'[e][p].h # None)
                           => Base(e, p)' = files'[e][p].h
    BY <1>2 DEF DeletedInv
  <2>3. Top(p)' = Top(p) /\ Base(e, p)' = Base(e, p)
    BY <2>1 DEF OnlyFiles
  <2>4. CASE e = d /\ p = <<n, 0>>
    <3>1. files'[e][p] = f
      BY <2>2, <2>4 DEF SInv, TypeOK
    <3>2. QED
      BY <1>1, <2>2, <2>3, <2>4, <3>1 DEF DeletedInv
  <2>5. CASE ~(e = d /\ p = <<n, 0>>)
    <3>1. files'[e][p] = files[e][p] /\ (<<e, p>> \notin dirty' => <<e, p>> \notin dirty)
      BY <2>2, <2>5 DEF SInv, TypeOK
    <3>2. QED
      BY <1>1, <2>3, <3>1 DEF DeletedInv
  <2>6. QED
    BY <2>4, <2>5
<1>5. CASE \E d \in Device, p \in Path, entry \in Entry, hash \in Hash, file \in File :
             Settled(d, p, entry, hash, file)
  BY <1>1, <1>2, <1>5, DeletedSettled
<1>6. CASE \E d \in Device, p \in Path : SetsAside(d, p)
  <2>1. PICK d \in Device, p \in Path : SetsAside(d, p)
    BY <1>6
  <2>2. /\ files' = [files EXCEPT ![d][<<p[1], copies + 1>>] = [h |-> files[d][p].h, m |-> now]]
        /\ dirty' = dirty /\ OnlyFiles /\ copies \in Nat
    BY <2>1 DEF SetsAside, SInv, TypeOK
  <2>3. \A e \in Device, q \in Path : q[2] = 0 => files'[e][q] = files[e][q]
    BY <2>2 DEF SInv, TypeOK
  <2>4. QED
    BY <1>1, <1>2, <2>2, <2>3 DEF DeletedInv, OnlyFiles
<1>7. QED
  BY <1>3, <1>4, <1>5, <1>6, View

\* At the start no sync is under way.
LEMMA CalmInit ==
  ASSUME Init
  PROVE  CalmInv /\ DeletedInv
<1>1. \A p \in Path : NoFiles[p].h = None /\ NoHashes[p] = None
  BY DEF NoFiles, NoFile, NoHashes
<1>2. \A d \in Device : pc[d] = "idle" /\ files[d] = NoFiles /\ state[d] = NoHashes
  BY DEF Init
<1>3. \A d \in Device, p \in Path : Base(d, p) = None /\ files[d][p].h = None
  BY <1>1, <1>2 DEF Base
<1>4. QED
  BY <1>2, <1>3 DEF CalmInv, DeletedInv

\* A comparison looks at what is there.
LEMMA InView ==
  ASSUME SInv, KInv, CalmInv, Calm, NEW d \in Device, NEW p \in Path,
         pc[d] \in {"paths", "copied"}, p \in job[d].todo
  PROVE  l(d, p) = files[d][p] /\ r(d, p) = Top(p) /\ s(d, p) = Base(d, p)
<1>1. UpToDate(d) /\ DraftAt(d, p) /\ d \in Busy
  BY DEF CalmInv, KInv, Drafts, Making, Busy
<1>2. QED
  BY <1>1, TopIs DEF SInv, UpToDate, DraftAt, Base, l, r, s

\* "Deletions propagate through tombstone entries" (sync.ts): as long as syncs do not overlap,
\* nobody writes on a device while it syncs, conflict copies get names of their own, and no
\* tombstone gets old enough to be pruned, a file is uploaded where there is no entry, or a
\* tombstone, only if a user wrote it there since the device last looked at it - while nothing
\* fails or expires.
THEOREM DeletedStaysDeleted ==
  ASSUME Overlap = FALSE, EditsWhileSyncing = FALSE, MaxEdits <= PruneAge
  PROVE  Spec /\ [][NewStamp]_vars => DeletionsPropagate
<1> DEFINE Written == \A d \in Device, p \in Path :
             (faults' = 0 /\ expired = {} /\ Upload(d, p) /\ ~There(d, p) /\ p[2] = 0) => <<d, p>> \in dirty
           Inv == SInv /\ KInv /\ CalmInv /\ DeletedInv
<1>1. Init => Inv
  BY InitSInv, KInit, CalmInit
<1>2. Inv /\ [Next]_vars /\ [NewStamp]_vars => Inv'
  <2> SUFFICES ASSUME Inv, [Next]_vars, [NewStamp]_vars
               PROVE  Inv'
    OBVIOUS
  <2>1. SInv'
    BY TypeNext, AloneNext, AllBackedNext DEF SInv
  <2>2. KInv'
    BY KNext
  <2>3. CalmInv' /\ DeletedInv'
    BY <2>1, DeletedNext
  <2>4. QED
    BY <2>1, <2>2, <2>3
<1>3. Inv /\ [Next]_vars => [Written]_vars
  <2> SUFFICES ASSUME Inv, [Next]_vars, NEW d \in Device, NEW p \in Path,
                      faults' = 0, expired = {}, Upload(d, p), ~There(d, p), p[2] = 0, <<d, p>> \notin dirty
               PROVE  FALSE
    OBVIOUS
  <2>1. pc[d] = "paths" /\ p \in job[d].todo /\ faults = 0
    BY DEF Upload, At
  <2>2. Here(d, p) /\ ~(r(d, p).d /\ ~localChanged(d, p))
    BY DEF Upload, MustUpload, Differ
  <2>3. l(d, p) = files[d][p] /\ r(d, p) = Top(p) /\ s(d, p) = Base(d, p)
    BY <2>1, InView DEF Calm
  <2>4. Base(d, p) = files[d][p].h /\ Top(p).h # None
    BY <2>1, <2>2, <2>3 DEF DeletedInv, Calm, Here
  <2>5. r(d, p).d
    BY <2>3, <2>4 DEF There, Live
  <2>6. QED
    BY <2>2, <2>3, <2>4, <2>5 DEF localChanged
<1>4. QED
  BY <1>1, <1>2, <1>3, PTL DEF Spec, DeletionsPropagate

-----------------------------------------------------------------------------
\* Conflict copies.

\* A conflict copy is the same wherever there is one, it has no tombstone, and what a device
\* remembers of it is there.
CopyAt(p) ==
  /\ ~Top(p).d
  /\ \A d \in Device :
       /\ Base(d, p) # None => files[d][p].h = Base(d, p)
       /\ files[d][p].h # None => Top(p).h \in {None, files[d][p].h}
       /\ \A e \in Device : files[d][p].h # None /\ files[e][p].h # None => files[d][p].h = files[e][p].h
CopiesInv == Calm => \A p \in Path : p[2] # 0 => CopyAt(p)

\* A path that no conflict copy has used is empty.
LEMMA SpareView ==
  ASSUME SInv, KInv, NEW p \in Path, p[2] > copies
  PROVE  Top(p).h = None /\ \A d \in Device : files[d][p].h = None /\ Base(d, p) = None
<1>1. /\ fetchManifest[p].h = None
      /\ \A d \in Device :
           /\ files[d][p].h = None /\ state[d][p] = None
           /\ pc[d] # "idle" => job[d].nextFiles[p].h = None /\ job[d].nextState[p] = None
  BY DEF KInv, Spare
<1>2. Top(p).h = None
  <2>1. CASE Busy = {}
    BY <1>1, <2>1, TopIs DEF SInv
  <2>2. CASE Busy # {}
    <3>1. PICK d \in Device : d \in Busy /\ pc[d] # "idle"
      BY <2>2 DEF Busy, Making
    <3>2. QED
      BY <1>1, <3>1, TopIs DEF SInv
  <2>3. QED
    BY <2>1, <2>2
<1>3. QED
  BY <1>1, <1>2 DEF Base

\* A comparison of a conflict copy shares it or downloads it, and loses none.
LEMMA CopyCompared ==
  ASSUME SInv, NEW d \in Device, NEW p \in Path, CopyAt(p),
         NEW entry \in Entry, NEW hash \in Hash, NEW file \in File, Settled(d, p, entry, hash, file)
  PROVE  CopyAt(p)' /\ \A e \in Device : files[e][p].h # None => files'[e][p].h = files[e][p].h
<1> DEFINE f == files[d][p]  t == Top(p)  b == Base(d, p)
<1>1. /\ Settles(d, p, f, t, b, entry, hash, file)
      /\ files' = [files EXCEPT ![d][p] = file]
      /\ Top(p)' = entry /\ Base(d, p)' = hash
      /\ \A e \in Device \ {d} : Base(e, p)' = Base(e, p)
  BY DEF Settled
<1>2. files'[d][p] = file /\ \A e \in Device \ {d} : files'[e][p] = files[e][p]
  BY <1>1 DEF SInv, TypeOK
<1>3. /\ ~t.d /\ (b # None => f.h = b) /\ (f.h # None => t.h \in {None, f.h})
      /\ \A e \in Device : /\ Base(e, p) # None => files[e][p].h = Base(e, p)
                           /\ files[e][p].h # None => t.h \in {None, files[e][p].h}
                           /\ f.h # None /\ files[e][p].h # None => f.h = files[e][p].h
  BY DEF CopyAt
<1>4. \A e, c \in Device : files[e][p].h # None /\ files[c][p].h # None => files[e][p].h = files[c][p].h
  BY DEF CopyAt
<1>5. /\ ~entry.d /\ (hash # None => file.h = hash) /\ (f.h # None => file.h = f.h)
      /\ file.h # None => entry.h = file.h
      /\ \A e \in Device : files[e][p].h # None => /\ entry.h \in {None, files[e][p].h}
                                                   /\ file.h \in {None, files[e][p].h}
  <2>1. CASE Agrees(d, p, f, t, b, entry, hash, file)
    BY <1>3, <2>1 DEF Agrees
  <2>2. CASE Uploads(d, p, f, t, b, entry, hash, file)
    BY <1>3, <2>2 DEF Uploads, Live
  <2>3. CASE Downloads(d, p, f, t, b, entry, hash, file)
    BY <1>3, <2>3 DEF Downloads, Live
  <2>4. CASE Removes(d, p, f, t, b, entry, hash, file)
    BY <1>3, <2>4 DEF Removes
  <2>5. CASE Tombstones(d, p, f, t, b, entry, hash, file)
    BY <1>3, <2>5 DEF Tombstones, Live
  <2>6. CASE KeepsDeleted(d, p, f, t, b, entry, hash, file)
    BY <1>3, <2>6 DEF KeepsDeleted
  <2>7. QED
    BY <1>1, <2>1, <2>2, <2>3, <2>4, <2>5, <2>6 DEF Settles
<1>6. CopyAt(p)'
  <2> SUFFICES ASSUME NEW e \in Device
               PROVE  /\ Base(e, p)' # None => files'[e][p].h = Base(e, p)'
                      /\ files'[e][p].h # None => entry.h \in {None, files'[e][p].h}
                      /\ \A c \in Device :
                           files'[e][p].h # None /\ files'[c][p].h # None => files'[e][p].h = files'[c][p].h
    BY <1>1, <1>5 DEF CopyAt
  <2>1. CASE e = d
    BY <1>1, <1>2, <1>5, <2>1
  <2>2. CASE e # d
    BY <1>1, <1>2, <1>3, <1>4, <1>5, <2>2
  <2>3. QED
    BY <2>1, <2>2
<1>7. QED
  BY <1>2, <1>5, <1>6

\* Every step keeps every conflict copy.
LEMMA CopiesNext ==
  ASSUME Overlap = FALSE, EditsWhileSyncing = FALSE, SInv, SInv', KInv, CalmInv, CopiesInv,
         [Next]_vars, [NewStamp]_vars, Calm'
  PROVE  /\ CopiesInv'
         /\ \A d \in Device, p \in Path : (p[2] # 0 /\ files[d][p].h # None) => files'[d][p].h = files[d][p].h
<1>1. Calm
  BY CalmBefore DEF SInv
<1>2. \A p \in Path : p[2] # 0 => CopyAt(p)
  BY <1>1 DEF CopiesInv
<1> SUFFICES ASSUME NEW p \in Path, p[2] # 0
             PROVE  CopyAt(p)' /\ \A d \in Device : files[d][p].h # None => files'[d][p].h = files[d][p].h
  BY DEF CopiesInv
<1>3. ASSUME \A d \in Device : files'[d][p] = files[d][p], Top(p)' = Top(p),
             \A d \in Device : Base(d, p)' = Base(d, p) \/ Base(d, p)' = None
      PROVE  CopyAt(p)'
  BY <1>2, <1>3 DEF CopyAt
<1>4. CASE Unseen
  BY <1>3, <1>4 DEF Unseen
<1>5. CASE \E d \in Device, n \in Name, f \in File : UserWrites(d, n, f) /\ OnlyFiles
  <2>1. PICK d \in Device, n \in Name, f \in File : UserWrites(d, n, f) /\ OnlyFiles
    BY <1>5
  <2>2. \A e \in Device : files'[e][p] = files[e][p]
    BY <2>1 DEF UserWrites, SInv, TypeOK
  <2>3. QED
    BY <1>3, <2>1, <2>2 DEF OnlyFiles
<1>6. CASE \E d \in Device, q \in Path, entry \in Entry, hash \in Hash, file \in File :
             Settled(d, q, entry, hash, file)
  <2>1. PICK d \in Device, q \in Path, entry \in Entry, hash \in Hash, file \in File :
               Settled(d, q, entry, hash, file)
    BY <1>6
  <2>2. CASE q = p
    BY <1>2, <2>1, <2>2, CopyCompared
  <2>3. CASE q # p
    <3>1. \A e \in Device : files'[e][p] = files[e][p]
      BY <2>1, <2>3 DEF Settled, SInv, TypeOK
    <3>2. Top(p)' = Top(p) /\ \A e \in Device : Base(e, p)' = Base(e, p)
      BY <2>1, <2>3 DEF Settled
    <3>3. QED
      BY <1>3, <3>1, <3>2
  <2>4. QED
    BY <2>2, <2>3
<1>7. CASE \E d \in Device, q \in Path : SetsAside(d, q)
  <2>1. PICK d \in Device, q \in Path : SetsAside(d, q)
    BY <1>7
  <2> DEFINE c == <<q[1], copies + 1>>
  <2>2. /\ c \in Path /\ files' = [files EXCEPT ![d][c] = [h |-> files[d][q].h, m |-> now]]
        /\ OnlyFiles
    BY <2>1 DEF SetsAside
  <2>3. CASE p = c
    <3>1. p[2] > copies
      BY <2>3 DEF SInv, TypeOK
    <3>2. Top(p).h = None /\ \A e \in Device : files[e][p].h = None /\ Base(e, p) = None
      BY <3>1, SpareView
    <3>3. \A e \in Device \ {d} : files'[e][p] = files[e][p]
      BY <2>2 DEF SInv, TypeOK
    <3>4. Top(p)' = Top(p) /\ \A e \in Device : Base(e, p)' = Base(e, p)
      BY <2>2 DEF OnlyFiles
    <3>5. QED
      BY <1>2, <3>2, <3>3, <3>4 DEF CopyAt
  <2>4. CASE p # c
    <3>1. \A e \in Device : files'[e][p] = files[e][p]
      BY <2>2, <2>4 DEF SInv, TypeOK
    <3>2. QED
      BY <1>3, <2>2, <3>1 DEF OnlyFiles
  <2>5. QED
    BY <2>3, <2>4
<1>8. QED
  BY <1>4, <1>5, <1>6, <1>7, View

-----------------------------------------------------------------------------
\* The last write.

\* The next comparison takes the file for one that was written here.
Changed(d, p) == files[d][p].h # None /\ files[d][p].h # Base(d, p)

\* v is at p on d only, which has not shared it; what others have to share there is older.
OnlyOn(d, p, v) ==
  /\ files[d][p].h = v /\ Top(p).h # v /\ Base(d, p) # v
  /\ \A e \in Device \ {d} : /\ Base(e, p) # v /\ files[e][p].h # v
                             /\ Changed(e, p) => files[e][p].m < files[d][p].m

\* v is shared at p and some device has it there; what others have to share there is older.
Shared(p, v) ==
  /\ Live(Top(p)) /\ Top(p).h = v /\ \E d \in Device : files[d][p].h = v
  /\ \A e \in Device : /\ Changed(e, p) => files[e][p].m < Top(p).m
                       /\ Base(e, p) = v => files[e][p].h = v

\* v is in a conflict copy of n.
InCopy(n, v) == \E d \in Device, i \in 1..MaxCopies : files[d][<<n, i>>].h = v

Kept(n, v) == (\E d \in Device : OnlyOn(d, <<n, 0>>, v)) \/ Shared(<<n, 0>>, v) \/ InCopy(n, v)

\* No file is from the future, and what was written last is kept.
NewestInv ==
  Calm => /\ \A d \in Device, p \in Path : files[d][p].m <= now
          /\ \A n \in Name : newest[n] # None => Kept(n, newest[n])

\* A comparison remembers the file that it leaves.
LEMMA SettlesFile ==
  ASSUME NEW d \in Device, NEW p \in Path, NEW f, NEW t, NEW b, NEW entry, NEW hash, NEW file,
         f = files[d][p], Settles(d, p, f, t, b, entry, hash, file)
  PROVE  (file.h # None => hash = file.h) /\ file.m \in {f.m, now, 0}
  BY DEF Settles, Agrees, Uploads, Downloads, Removes, Tombstones, KeepsDeleted, NoFile

\* What only one device has is shared by its comparison, or set aside; that of another device
\* does not touch it.
LEMMA OnlyOnSettled ==
  ASSUME SInv, NEW c \in Device, NEW n \in Name, NEW p \in Path, p = <<n, 0>>, NEW v, v # None,
         NEW d \in Device, OnlyOn(d, p, v),
         NEW entry \in Entry, NEW hash \in Hash, NEW file \in File, Settled(c, p, entry, hash, file)
  PROVE  \/ OnlyOn(d, p, v)' \/ Shared(p, v)'
         \/ \E i \in 1..MaxCopies : files[d][<<n, i>>].h = v
<1> DEFINE f == files[c][p]  t == Top(p)  b == Base(c, p)
<1>1. /\ Settles(c, p, f, t, b, entry, hash, file)
      /\ files' = [files EXCEPT ![c][p] = file]
      /\ Top(p)' = entry /\ Base(c, p)' = hash
      /\ \A e \in Device \ {c} : Base(e, p)' = Base(e, p)
  BY DEF Settled
<1>2. files'[c][p] = file /\ \A e \in Device \ {c} : files'[e][p] = files[e][p]
  BY <1>1 DEF SInv, TypeOK
<1>3. file.h # None => hash = file.h
  BY <1>1, SettlesFile
<1>4. t \in Entry
  BY TopType
<1>5. /\ files[d][p].h = v /\ t.h # v /\ Base(d, p) # v
      /\ \A e \in Device \ {d} : /\ Base(e, p) # v /\ files[e][p].h # v
                                 /\ Changed(e, p) => files[e][p].m < files[d][p].m
  BY DEF OnlyOn
<1>6. CASE c = d
  <2>1. CASE Uploads(c, p, f, t, b, entry, hash, file)
    <3>1. entry = [h |-> v, m |-> f.m, d |-> FALSE] /\ hash = v /\ file = f
      BY <1>5, <1>6, <2>1 DEF Uploads
    <3>2. Live(entry) /\ entry.h = v /\ entry.m = files[d][p].m
      BY <1>6, <3>1 DEF Live
    <3>3. \A e \in Device \ {d} : Changed(e, p)' = Changed(e, p)
      BY <1>1, <1>2, <1>6 DEF Changed
    <3>4. ~Changed(d, p)'
      BY <1>1, <1>2, <1>3, <1>6 DEF Changed
    <3>5. files'[d][p].h = v
      BY <1>2, <1>5, <1>6, <3>1
    <3>6. \A e \in Device : /\ Changed(e, p)' => files'[e][p].m < entry.m
                            /\ Base(e, p)' = v => files'[e][p].h = v
      BY <1>1, <1>2, <1>5, <1>6, <3>1, <3>2, <3>3, <3>4, <3>5
    <3>7. Shared(p, v)'
      BY <1>1, <3>2, <3>5, <3>6 DEF Shared
    <3>8. QED
      BY <3>7
  <2>2. CASE Downloads(c, p, f, t, b, entry, hash, file)
    <3>1. Aside(d, p, f)
      BY <1>5, <1>6, <2>2 DEF Downloads
    <3>2. copies \in Nat /\ copies <= MaxCopies /\ MaxCopies \in Nat
      BY SyncAssumption DEF SInv, TypeOK
    <3>3. PICK i \in 1..copies : files[d][<<p[1], i>>].h = f.h
      BY <3>1 DEF Aside
    <3>4. i \in 1..MaxCopies /\ p[1] = n
      BY <3>2
    <3>5. QED
      BY <1>5, <1>6, <3>3, <3>4
  <2>3. ~Agrees(c, p, f, t, b, entry, hash, file) /\ ~Removes(c, p, f, t, b, entry, hash, file)
    BY <1>5, <1>6 DEF Agrees, Removes
  <2>4. ~Tombstones(c, p, f, t, b, entry, hash, file) /\ ~KeepsDeleted(c, p, f, t, b, entry, hash, file)
    BY <1>5, <1>6 DEF Tombstones, KeepsDeleted
  <2>5. QED
    BY <1>1, <2>1, <2>2, <2>3, <2>4 DEF Settles
<1>7. CASE c # d
  <2>1. f.h # v /\ b # v /\ t.h # v
    BY <1>5, <1>7
  <2>2. entry.h # v /\ hash # v /\ file.h # v
    <3>1. CASE Agrees(c, p, f, t, b, entry, hash, file)
      BY <2>1, <3>1 DEF Agrees
    <3>2. CASE Uploads(c, p, f, t, b, entry, hash, file)
      BY <2>1, <3>2 DEF Uploads
    <3>3. CASE Downloads(c, p, f, t, b, entry, hash, file)
      BY <2>1, <3>3 DEF Downloads
    <3>4. CASE Removes(c, p, f, t, b, entry, hash, file)
      BY <2>1, <3>4 DEF Removes, NoFile
    <3>5. CASE Tombstones(c, p, f, t, b, entry, hash, file)
      BY <1>4, <2>1, <3>5 DEF Tombstones, Entry
    <3>6. CASE KeepsDeleted(c, p, f, t, b, entry, hash, file)
      BY <2>1, <3>6 DEF KeepsDeleted, NoEntry
    <3>7. QED
      BY <1>1, <3>1, <3>2, <3>3, <3>4, <3>5, <3>6 DEF Settles
  <2>3. \A e \in Device \ {c} : Changed(e, p)' = Changed(e, p)
    BY <1>1, <1>2 DEF Changed
  <2>4. ~Changed(c, p)'
    BY <1>1, <1>2, <1>3 DEF Changed
  <2>5. files'[d][p] = files[d][p] /\ Base(d, p)' = Base(d, p)
    BY <1>1, <1>2, <1>7
  <2>6. \A e \in Device \ {d} : /\ Base(e, p)' # v /\ files'[e][p].h # v
                                /\ Changed(e, p)' => files'[e][p].m < files'[d][p].m
    BY <1>1, <1>2, <1>5, <2>2, <2>3, <2>4, <2>5
  <2>7. OnlyOn(d, p, v)'
    BY <1>1, <1>5, <2>2, <2>5, <2>6 DEF OnlyOn
  <2>8. QED
    BY <2>7
<1>8. QED
  BY <1>6, <1>7

\* What is shared stays so: nothing that loses to it is uploaded, and it is not taken for deleted.
LEMMA SharedSettled ==
  ASSUME SInv, NEW c \in Device, NEW p \in Path, NEW v, v # None, Shared(p, v),
         NEW entry \in Entry, NEW hash \in Hash, NEW file \in File, Settled(c, p, entry, hash, file)
  PROVE  Shared(p, v)'
<1> DEFINE f == files[c][p]  t == Top(p)  b == Base(c, p)
<1>1. /\ Settles(c, p, f, t, b, entry, hash, file)
      /\ files' = [files EXCEPT ![c][p] = file]
      /\ Top(p)' = entry /\ Base(c, p)' = hash
      /\ \A e \in Device \ {c} : Base(e, p)' = Base(e, p)
  BY DEF Settled
<1>2. files'[c][p] = file /\ \A e \in Device \ {c} : files'[e][p] = files[e][p]
  BY <1>1 DEF SInv, TypeOK
<1>3. t \in Entry /\ f \in File /\ t.m \in Nat /\ f.m \in Nat
  BY TopType DEF Entry, File, SInv, TypeOK
<1>4. /\ Live(t) /\ t.h = v
      /\ \A e \in Device : /\ Changed(e, p) => files[e][p].m < t.m
                           /\ Base(e, p) = v => files[e][p].h = v
  BY DEF Shared
<1>5. entry = t /\ hash = v /\ file.h = v
  <2>1. CASE Agrees(c, p, f, t, b, entry, hash, file)
    BY <1>4, <2>1 DEF Agrees
  <2>2. ~Uploads(c, p, f, t, b, entry, hash, file)
    <3> SUFFICES ASSUME Uploads(c, p, f, t, b, entry, hash, file)
                 PROVE  FALSE
      OBVIOUS
    <3>1. f.h # None /\ f.h # v /\ f.h # b /\ (b # v => ~(t.m > f.m))
      BY <1>4 DEF Uploads
    <3>2. f.m < t.m
      BY <1>4, <3>1 DEF Changed
    <3>3. b = v
      BY <1>3, <3>1, <3>2
    <3>4. QED
      BY <1>4, <3>1, <3>3
  <2>3. CASE Downloads(c, p, f, t, b, entry, hash, file)
    BY <1>4, <2>3 DEF Downloads
  <2>4. ~Removes(c, p, f, t, b, entry, hash, file) /\ ~KeepsDeleted(c, p, f, t, b, entry, hash, file)
    BY <1>4 DEF Removes, KeepsDeleted, Live
  <2>5. ~Tombstones(c, p, f, t, b, entry, hash, file)
    BY <1>4 DEF Tombstones
  <2>6. QED
    BY <1>1, <2>1, <2>2, <2>3, <2>4, <2>5 DEF Settles
<1>6. \A e \in Device \ {c} : Changed(e, p)' = Changed(e, p)
  BY <1>1, <1>2 DEF Changed
<1>7. ~Changed(c, p)'
  BY <1>1, <1>2, <1>5 DEF Changed
<1>8. \A e \in Device : /\ Changed(e, p)' => files'[e][p].m < t.m
                        /\ Base(e, p)' = v => files'[e][p].h = v
  BY <1>1, <1>2, <1>4, <1>5, <1>6, <1>7
<1>9. QED
  BY <1>1, <1>2, <1>4, <1>5, <1>8 DEF Shared

\* What happens elsewhere leaves it kept.
LEMMA KeptElsewhere ==
  ASSUME NEW n \in Name, NEW v, v # None, Kept(n, v),
         \A d \in Device : files'[d][<<n, 0>>] = files[d][<<n, 0>>],
         Top(<<n, 0>>)' = Top(<<n, 0>>),
         \A d \in Device : \/ Base(d, <<n, 0>>)' = Base(d, <<n, 0>>)
                           \/ Base(d, <<n, 0>>)' = None /\ files[d][<<n, 0>>].h = None,
         InCopy(n, v) => InCopy(n, v)'
  PROVE  Kept(n, v)'
<1> DEFINE p == <<n, 0>>
<1> HIDE DEF p
<1>1. /\ \A d \in Device : files'[d][p] = files[d][p]
      /\ Top(p)' = Top(p)
      /\ \A d \in Device : Base(d, p)' = Base(d, p) \/ (Base(d, p)' = None /\ files[d][p].h = None)
  BY DEF p
<1>2. \A d \in Device : Changed(d, p)' => Changed(d, p)
  BY <1>1 DEF Changed
<1>3. ASSUME NEW d \in Device, OnlyOn(d, p, v)
      PROVE  OnlyOn(d, p, v)'
  BY <1>1, <1>2, <1>3 DEF OnlyOn
<1>4. ASSUME Shared(p, v)
      PROVE  Shared(p, v)'
  BY <1>1, <1>2, <1>4 DEF Shared
<1>5. QED
  BY <1>3, <1>4 DEF Kept, p

\* A write of content that is new is on one device only, and later than all that is there.
LEMMA NewestWritten ==
  ASSUME SInv, KInv, Calm, NewestInv, NEW d \in Device, NEW n \in Name, NEW f \in File,
         UserWrites(d, n, f), OnlyFiles, New(n, f.h), f.h # None
  PROVE  OnlyOn(d, <<n, 0>>, f.h)'
<1> DEFINE p == <<n, 0>>
<1>1. /\ p \in Path /\ files' = [files EXCEPT ![d][p] = f] /\ f.m = now + 1
      /\ Top(p)' = Top(p) /\ \A e \in Device : Base(e, p)' = Base(e, p)
  BY DEF UserWrites, OnlyFiles
<1>2. <<p, f.h>> \notin landed /\ \A e \in Device : files[e][p].h # f.h
  BY DEF New
<1> HIDE DEF p
<1>3. Top(p).h # f.h /\ \A e \in Device : Base(e, p) # f.h
  BY <1>1, <1>2, Seen
<1>4. files'[d][p] = f /\ \A e \in Device \ {d} : files'[e][p] = files[e][p]
  BY <1>1 DEF SInv, TypeOK
<1>5. \A e \in Device : files[e][p].m <= now /\ files[e][p].m \in Nat
  BY <1>1 DEF NewestInv, SInv, TypeOK, File
<1>6. now \in Nat
  BY DEF SInv, TypeOK
<1>7. \A e \in Device \ {d} : files'[e][p].m < f.m
  BY <1>1, <1>4, <1>5, <1>6
<1>8. OnlyOn(d, p, f.h)'
  BY <1>1, <1>2, <1>3, <1>4, <1>7 DEF OnlyOn
<1>9. QED
  BY <1>8 DEF p

\* Every step keeps what was written last.
LEMMA NewestNext ==
  ASSUME Overlap = FALSE, EditsWhileSyncing = FALSE, SInv, SInv', KInv, CalmInv, CopiesInv, NewestInv,
         [Next]_vars, [NewStamp]_vars
  PROVE  NewestInv'
<1> SUFFICES ASSUME Calm'
             PROVE  NewestInv'
  BY DEF NewestInv
<1>1. Calm
  BY CalmBefore DEF SInv
<1>2. /\ \A d \in Device, p \in Path : files[d][p].m <= now /\ files[d][p] \in File
      /\ \A n \in Name : newest[n] # None => Kept(n, newest[n])
      /\ now \in Nat
  BY <1>1 DEF NewestInv, SInv, TypeOK
<1>3. \A n \in Name : \A v : v # None /\ InCopy(n, v) => InCopy(n, v)'
  <2> SUFFICES ASSUME NEW n \in Name, NEW v, v # None, InCopy(n, v)
               PROVE  InCopy(n, v)'
    OBVIOUS
  <2>1. PICK d \in Device, i \in 1..MaxCopies : files[d][<<n, i>>].h = v
    BY DEF InCopy
  <2>2. <<n, i>> \in Path /\ <<n, i>>[2] # 0
    BY <2>1, SyncAssumption DEF Path
  <2>3. files'[d][<<n, i>>].h = v
    BY <2>1, <2>2, CopiesNext
  <2>4. QED
    BY <2>3 DEF InCopy
<1>4. \A n \in Name : <<n, 0>> \in Path
  BY SyncAssumption DEF Path
<1> SUFFICES /\ \A d \in Device, p \in Path : files'[d][p].m <= now'
             /\ \A n \in Name : \A v : v # None /\ newest'[n] = v => Kept(n, v)'
  BY DEF NewestInv
<1>5. CASE Unseen
  <2>1. UNCHANGED <<files, now, newest>>
    BY <1>5 DEF Unseen
  <2>2. ASSUME NEW n \in Name, NEW v, v # None, newest'[n] = v
        PROVE  Kept(n, v)'
    <3>1. Kept(n, v)
      BY <1>2, <2>1, <2>2
    <3>2. QED
      BY <1>3, <1>4, <1>5, <2>2, <3>1, KeptElsewhere DEF Unseen
  <2>3. QED
    BY <1>2, <2>1, <2>2
<1>6. CASE \E d \in Device, n \in Name, f \in File : UserWrites(d, n, f) /\ OnlyFiles
  <2>1. PICK d \in Device, m \in Name, f \in File : UserWrites(d, m, f) /\ OnlyFiles
    BY <1>6
  <2>2. /\ files' = [files EXCEPT ![d][<<m, 0>>] = f] /\ <<m, 0>> \in Path
        /\ newest' = [newest EXCEPT ![m] = IF New(m, f.h) THEN f.h ELSE None]
        /\ f.m \in {0, now + 1} /\ now' = now + 1
    BY <2>1 DEF UserWrites
  <2>3. \A e \in Device, p \in Path : files'[e][p] = files[e][p] \/ files'[e][p] = f
    BY <2>2 DEF SInv, TypeOK
  <2>4. \A e \in Device, p \in Path : files[e][p].m \in Nat
    BY <1>2 DEF File
  <2>5. \A e \in Device, p \in Path : files'[e][p].m <= now'
    BY <1>2, <2>2, <2>3, <2>4
  <2>6. ASSUME NEW n \in Name, NEW v, v # None, newest'[n] = v
        PROVE  Kept(n, v)'
    <3>1. CASE n = m
      <4>1. v = f.h /\ New(n, f.h)
        BY <2>2, <2>6, <3>1 DEF SInv, TypeOK
      <4>2. OnlyOn(d, <<n, 0>>, v)'
        BY <1>1, <2>1, <2>6, <3>1, <4>1, NewestWritten
      <4>3. QED
        BY <4>2 DEF Kept
    <3>2. CASE n # m
      <4>1. Kept(n, v)
        BY <1>2, <2>2, <2>6, <3>2 DEF SInv, TypeOK
      <4>2. \A e \in Device : files'[e][<<n, 0>>] = files[e][<<n, 0>>]
        BY <1>4, <2>2, <3>2 DEF SInv, TypeOK
      <4>3. QED
        BY <1>3, <1>4, <2>1, <2>6, <4>1, <4>2, KeptElsewhere DEF OnlyFiles
    <3>3. QED
      BY <3>1, <3>2
  <2>7. QED
    BY <2>5, <2>6
<1>7. CASE \E d \in Device, p \in Path, entry \in Entry, hash \in Hash, file \in File :
             Settled(d, p, entry, hash, file)
  <2>1. PICK d \in Device, p \in Path, entry \in Entry, hash \in Hash, file \in File :
               Settled(d, p, entry, hash, file)
    BY <1>7
  <2>2. /\ Settles(d, p, files[d][p], Top(p), Base(d, p), entry, hash, file)
        /\ files' = [files EXCEPT ![d][p] = file] /\ UNCHANGED <<now, newest>>
        /\ \A q \in Path : q # p => Top(q)' = Top(q)
        /\ \A e \in Device, q \in Path : q # p => Base(e, q)' = Base(e, q)
    BY <2>1 DEF Settled
  <2>3. file.m <= now
    BY <1>2, <2>2, SettlesFile
  <2>4. \A e \in Device, q \in Path : files'[e][q] = IF e = d /\ q = p THEN file ELSE files[e][q]
    BY <2>2 DEF SInv, TypeOK
  <2>5. ASSUME NEW n \in Name, NEW v, v # None, newest'[n] = v
        PROVE  Kept(n, v)'
    <3>1. Kept(n, v)
      BY <1>2, <2>2, <2>5
    <3>2. CASE <<n, 0>> # p
      <4>1. /\ \A e \in Device : files'[e][<<n, 0>>] = files[e][<<n, 0>>]
            /\ Top(<<n, 0>>)' = Top(<<n, 0>>)
            /\ \A e \in Device : Base(e, <<n, 0>>)' = Base(e, <<n, 0>>)
        BY <1>4, <2>2, <2>4, <3>2
      <4>2. QED
        BY <1>3, <2>5, <3>1, <4>1, KeptElsewhere
    <3>3. CASE <<n, 0>> = p /\ \E e \in Device : OnlyOn(e, p, v)
      <4>1. PICK e \in Device : OnlyOn(e, p, v)
        BY <3>3
      <4>2. OnlyOn(e, p, v)' \/ Shared(p, v)' \/ \E i \in 1..MaxCopies : files[e][<<n, i>>].h = v
        BY <2>1, <2>5, <3>3, <4>1, OnlyOnSettled
      <4>3. (\E i \in 1..MaxCopies : files[e][<<n, i>>].h = v) => InCopy(n, v)
        BY DEF InCopy
      <4>4. QED
        BY <1>3, <2>5, <3>3, <4>2, <4>3 DEF Kept
    <3>4. CASE <<n, 0>> = p /\ Shared(p, v)
      <4>1. Shared(p, v)'
        BY <2>1, <2>5, <3>4, SharedSettled
      <4>2. QED
        BY <3>4, <4>1 DEF Kept
    <3>5. CASE InCopy(n, v)
      BY <1>3, <2>5, <3>5 DEF Kept
    <3>6. QED
      BY <3>1, <3>2, <3>3, <3>4, <3>5 DEF Kept
  <2>6. QED
    BY <1>2, <2>2, <2>3, <2>4, <2>5
<1>8. CASE \E d \in Device, p \in Path : SetsAside(d, p)
  <2>1. PICK d \in Device, p \in Path : SetsAside(d, p)
    BY <1>8
  <2> DEFINE c == <<p[1], copies + 1>>
  <2>2. /\ files' = [files EXCEPT ![d][c] = [h |-> files[d][p].h, m |-> now]] /\ c \in Path
        /\ UNCHANGED <<now, newest>> /\ OnlyFiles
    BY <2>1 DEF SetsAside
  <2>3. c[2] # 0
    BY DEF SInv, TypeOK
  <2> HIDE DEF c
  <2>4. \A e \in Device, q \in Path : files'[e][q] = files[e][q] \/ (q = c /\ files'[e][q].m = now)
    BY <2>2 DEF SInv, TypeOK
  <2>5. ASSUME NEW n \in Name, NEW v, v # None, newest'[n] = v
        PROVE  Kept(n, v)'
    <3>1. Kept(n, v)
      BY <1>2, <2>2, <2>5
    <3>2. \A e \in Device : files'[e][<<n, 0>>] = files[e][<<n, 0>>]
      BY <1>4, <2>3, <2>4
    <3>3. QED
      BY <1>3, <1>4, <2>2, <2>5, <3>1, <3>2, KeptElsewhere DEF OnlyFiles
  <2>6. QED
    BY <1>2, <2>2, <2>4, <2>5
<1>9. QED
  BY <1>5, <1>6, <1>7, <1>8, View

\* At the start nothing is remembered, published or written.
LEMMA NewestInit ==
  ASSUME Init
  PROVE  CopiesInv /\ NewestInv
<1>1. \A p \in Path : NoFiles[p] = NoFile /\ NoHashes[p] = None /\ NoEntries[p] = NoEntry
  BY DEF NoFiles, NoHashes, NoEntries
<1>2. /\ \A d \in Device : pc[d] = "idle" /\ files[d] = NoFiles /\ state[d] = NoHashes
      /\ fetchManifest = NoEntries /\ now = 0 /\ \A n \in Name : newest[n] = None
  BY DEF Init, fetchManifest
<1>3. Busy = {}
  BY <1>2 DEF Busy, Making
<1>4. \A p \in Path : Top(p) = NoEntry /\ \A d \in Device : Base(d, p) = None /\ files[d][p] = NoFile
  BY <1>1, <1>2, <1>3 DEF Top, Base
<1>5. \A p \in Path : CopyAt(p)
  BY <1>4 DEF CopyAt, NoEntry, NoFile
<1>6. QED
  BY <1>2, <1>4, <1>5 DEF CopiesInv, NewestInv, NoFile

\* "Remote wins; keep the local edits as a conflict copy" (syncNow), and else the local edits are
\* uploaded: as long as syncs do not overlap, nobody writes on a device while it syncs, and
\* conflict copies get names of their own, the last of several edits made apart stays on some
\* device, be it as a copy, until it is written or deleted again - while nothing fails or expires.
THEOREM NewestKept ==
  ASSUME Overlap = FALSE, EditsWhileSyncing = FALSE
  PROVE  Spec /\ [][NewStamp]_vars => []NewestSurvives
<1> DEFINE Inv == SInv /\ KInv /\ CalmInv /\ CopiesInv /\ NewestInv
<1>1. Init => Inv
  BY InitSInv, KInit, CalmInit, NewestInit
<1>2. Inv /\ [Next]_vars /\ [NewStamp]_vars => Inv'
  <2> SUFFICES ASSUME Inv, [Next]_vars, [NewStamp]_vars
               PROVE  Inv'
    OBVIOUS
  <2>1. SInv'
    BY TypeNext, AloneNext, AllBackedNext DEF SInv
  <2>2. KInv'
    BY KNext
  <2>3. CalmInv'
    BY <2>1, View DEF CalmInv
  <2>4. CopiesInv'
    BY <2>1, CopiesNext DEF CopiesInv
  <2>5. NewestInv'
    BY <2>1, NewestNext
  <2>6. QED
    BY <2>1, <2>2, <2>3, <2>4, <2>5
<1>3. Inv => NewestSurvives
  <2> SUFFICES ASSUME Inv, faults = 0, expired = {}, NEW n \in Name, newest[n] # None
               PROVE  \E d \in Device, i \in 0..MaxCopies : files[d][<<n, i>>].h = newest[n]
    BY DEF NewestSurvives
  <2>1. Kept(n, newest[n])
    BY DEF NewestInv, Calm
  <2>2. 0 \in 0..MaxCopies /\ 1..MaxCopies \subseteq 0..MaxCopies
    BY SyncAssumption
  <2>3. QED
    BY <2>1, <2>2 DEF Kept, OnlyOn, Shared, InCopy
<1>4. QED
  BY <1>1, <1>2, <1>3, PTL DEF Spec
=============================================================================

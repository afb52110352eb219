------------------------------ MODULE KeptFiles ------------------------------
(* What the core keeps in files of its own: the JSON history of document     *)
(* versions, the images stored under their hash, and the manifest of a       *)
(* snapshot (storage/document-versions.ts, images.ts, snapshots.ts).  Every  *)
(* call sleeps at each file operation, and the process may end at any.       *)
EXTENDS Integers, Sequences, SequencesExt, FiniteSets, FiniteSetsExt

CONSTANTS
  VersionedDocs,   \* documents
  Appends,         \* calls of appendVersion()
  Hashes,          \* hashes of image bytes
  Extensions,      \* extensions they are saved with
  ImageCalls,      \* calls of save(), get(), delete()
  MaxImageCalls,   \* bound on images begun, over the calls that are reused
  MaxProcesses     \* bound on restarts

ASSUME KeptFilesAssumption == Appends \cup {MaxImageCalls, MaxProcesses} \subseteq Nat

VARIABLES
  records,     \* DocumentVersionRegistry.records
  isArray,     \* unless a JSON that is none was read into it
  loaded,      \* its flag
  appends,     \* [at, doc, text, warm, nr]: what each call waits for
  versionFile, \* document-versions.json: [text, rows]
  imageFiles,  \* the files under the images' root: [whole, by], by the call that writes it
  imageCalls,  \* [at, op, file]
  begun,       \* image calls begun
  saved,       \* the images whose save() was answered, and no delete() removed since
  walkAt,      \* the walk of writeMetadata(): [at, dirs, due, manifest, first]
  processes    \* processes that have ended

versionVars == <<records, isArray, loaded, appends, versionFile>>
imageVars == <<imageFiles, imageCalls, begun, saved, walkAt>>
keptVars == <<versionVars, imageVars, processes>>

VersionRow == [doc : VersionedDocs, version : Nat, status : {"current", "superseded"}, by : Appends]
File == Hashes \X Extensions
NoFiles == [f \in {} |-> {}]

IdleAppend == [at |-> "new", doc |-> CHOOSE d \in VersionedDocs : TRUE, text |-> <<>>,
               warm |-> FALSE]
IdleImage == [at |-> "idle", op |-> "get", file |-> CHOOSE f \in File : TRUE]

\* A call that has ended keeps its outcome.
EndedImage(at) == [IdleImage EXCEPT !.at = at]
IdleWalk == [at |-> "idle", dirs |-> {}, due |-> {}, manifest |-> {}, first |-> {}]

KeptTypeOK ==
  /\ records \in Seq(VersionRow) /\ isArray \in BOOLEAN /\ loaded \in BOOLEAN
  /\ saved \in SUBSET File /\ processes \in Nat /\ begun \in Nat
  /\ appends \in [Appends -> [at : {"new", "reading", "saving", "opening", "writing", "done",
                                    "thrown", "gone"},
                              doc : VersionedDocs, text : Seq(VersionRow), warm : BOOLEAN]]
  /\ versionFile \in [text : {"absent", "torn", "whole"}, rows : Seq(VersionRow)]
  /\ DOMAIN imageFiles \subseteq File
  /\ \A f \in DOMAIN imageFiles : imageFiles[f] \in [whole : BOOLEAN, by : ImageCalls \cup {"none"}]
  /\ imageCalls \in [ImageCalls -> [at : {"idle", "found", "writing", "done", "thrown"},
                                    op : {"save", "get", "delete"}, file : File]]
  /\ walkAt \in [at : {"idle", "walking", "done"}, dirs : SUBSET Hashes, due : SUBSET File,
                manifest : SUBSET File, first : SUBSET File]

KeptInit ==
  /\ records = <<>> /\ isArray = TRUE /\ loaded = FALSE /\ appends = [q \in Appends |-> IdleAppend]
  /\ versionFile = [text |-> "absent", rows |-> <<>>] /\ imageFiles = NoFiles
  /\ imageCalls = [c \in ImageCalls |-> IdleImage] /\ begun = 0
  /\ walkAt = IdleWalk /\ saved = {} /\ processes = 0

-----------------------------------------------------------------------------
(* DocumentVersionRegistry.                                                *)

\* The records of a document.
OfDoc(rs, d) == {rs[i] : i \in {k \in DOMAIN rs : rs[k].doc = d}}

\* Mutant: the number is counted over all documents, and nothing is superseded.
Appended_Flat(rs, d, q) ==
  Append(rs, [doc |-> d, version |-> Len(rs) + 1, status |-> "current", by |-> q])

\* Every record has the id 'v', so superseding the current one of a document
\* supersedes the records of all the others as well.
Appended(rs, d, q) ==
  LET isCurrent == \E r \in OfDoc(rs, d) : r.status = "current"
      latest == Max({r.version : r \in OfDoc(rs, d)} \cup {0})
      older == IF isCurrent THEN [i \in DOMAIN rs |-> [rs[i] EXCEPT !.status = "superseded"]] ELSE rs
  IN  Append(older, [doc |-> d, version |-> latest + 1, status |-> "current", by |-> q])

\* Mutant: the flag is not asked, so every append reads the file again.
Warm_Never == FALSE
Warm == loaded

\* appendVersion() up to its first file operation: nothing that is no array can
\* be filtered.
PushVersion(q, d, rs, array) ==
  /\ isArray' = array
  /\ records' = IF array THEN Appended(rs, d, q) ELSE rs
  /\ appends' = [appends EXCEPT ![q] =
       [@ EXCEPT !.at = IF array THEN "saving" ELSE "thrown", !.doc = d,
                 !.warm = \A p \in Appends \ {q} : appends[p].at # "reading"]]

\* Calls are numbered in the order in which they begin.
BeginAppend(q) ==
  /\ appends[q].at = "new" /\ \A p \in Appends : p < q => appends[p].at # "new"
  /\ \E d \in VersionedDocs :
       IF Warm THEN PushVersion(q, d, records, isArray) /\ UNCHANGED loaded
       ELSE /\ appends' = [appends EXCEPT ![q] = [@ EXCEPT !.at = "reading", !.doc = d]]
            /\ UNCHANGED <<records, isArray, loaded>>
  /\ UNCHANGED <<versionFile, imageVars, processes>>

\* The file has been read: save() writes an object, load() takes what it reads
\* for the array.  A second call that found the flag unset replaces the records
\* of the first.
Loaded(q) ==
  /\ appends[q].at = "reading"
  /\ PushVersion(q, appends[q].doc, <<>>, versionFile.text # "whole")
  /\ loaded' = TRUE
  /\ UNCHANGED <<versionFile, imageVars, processes>>

\* save(): the directory exists and the text is made (of an object in an object
\* the records are left out) ...
FormatVersions(q) ==
  /\ appends[q].at = "saving"
  /\ appends' = [appends EXCEPT ![q] = [@ EXCEPT !.at = "opening",
                                          !.text = IF isArray THEN records ELSE <<>>]]
  /\ UNCHANGED <<records, isArray, loaded, versionFile, imageVars, processes>>

\* ... the file is opened, which truncates it ...
TruncateVersions(q) ==
  /\ appends[q].at = "opening"
  /\ appends' = [appends EXCEPT ![q].at = "writing"]
  /\ versionFile' = [text |-> "torn", rows |-> <<>>]
  /\ UNCHANGED <<records, isArray, loaded, imageVars, processes>>

\* ... and written from its start, over the text another call may have written in
\* between: the end of a longer one stays.
WriteVersions(q) ==
  /\ appends[q].at = "writing"
  /\ LET rows == appends[q].text
         other == versionFile.text = "whole"
     IN  \/ /\ ~(other /\ Len(versionFile.rows) > Len(rows))
            /\ versionFile' = [text |-> "whole", rows |-> rows]
         \/ /\ other /\ Len(versionFile.rows) >= Len(rows)
            /\ versionFile' = [text |-> "torn", rows |-> <<>>]
  /\ appends' = [appends EXCEPT ![q].at = "done"]
  /\ UNCHANGED <<records, isArray, loaded, imageVars, processes>>

-----------------------------------------------------------------------------
(* FsImageStore.                                                           *)

Found(h) == {f \in DOMAIN imageFiles : f[1] = h}

Created(f, c) ==
  [g \in DOMAIN imageFiles \cup {f} |-> IF g = f THEN [whole |-> FALSE, by |-> c] ELSE imageFiles[g]]
Without(f) == [g \in DOMAIN imageFiles \ {f} |-> imageFiles[g]]

\* Mutant: the file is opened without the 'x' flag.
MayCreate_Over(f) == TRUE

\* Flag 'wx': the bytes of a saved image are never opened for writing again.
MayCreate(f) == f \notin DOMAIN imageFiles

\* save() creates the file; get() and delete() find one name that begins with the
\* hash, whatever its extension.
BeginImage(c) ==
  /\ imageCalls[c].at \in {"idle", "done", "thrown"} /\ begun < MaxImageCalls /\ begun' = begun + 1
  /\ \/ \E f \in File :
          IF MayCreate(f)
          THEN /\ imageFiles' = Created(f, c)
               /\ imageCalls' = [imageCalls EXCEPT ![c] = [at |-> "writing", op |-> "save", file |-> f]]
          ELSE /\ imageCalls' = [imageCalls EXCEPT ![c] = EndedImage("thrown")]
               /\ UNCHANGED imageFiles
     \/ /\ \E h \in Hashes :
             \/ /\ Found(h) = {}
                /\ imageCalls' = [imageCalls EXCEPT ![c] = EndedImage("done")]
             \/ \E f \in Found(h), op \in {"get", "delete"} :
                  imageCalls' = [imageCalls EXCEPT ![c] = [at |-> "found", op |-> op, file |-> f]]
        /\ UNCHANGED imageFiles
  /\ UNCHANGED <<saved, walkAt, versionVars, processes>>

\* The file that was opened, if it has not been removed, and made anew, meanwhile.
WriteImage(c) ==
  /\ imageCalls[c].at = "writing"
  /\ LET mine == {f \in DOMAIN imageFiles : imageFiles[f].by = c}
     IN  /\ imageFiles' = [f \in DOMAIN imageFiles |->
                             IF f \in mine THEN [whole |-> TRUE, by |-> "none"] ELSE imageFiles[f]]
         /\ saved' = saved \cup mine
  /\ imageCalls' = [imageCalls EXCEPT ![c] = EndedImage("done")]
  /\ UNCHANGED <<begun, walkAt, versionVars, processes>>

\* readFile() or unlink() of the name that was found, which may be gone.
UseImage(c) ==
  /\ imageCalls[c].at = "found"
  /\ LET f == imageCalls[c].file
         gone == f \notin DOMAIN imageFiles
         deletes == imageCalls[c].op = "delete" /\ ~gone
     IN  /\ imageCalls' = [imageCalls EXCEPT ![c] = EndedImage(IF gone THEN "thrown" ELSE "done")]
         /\ imageFiles' = IF deletes THEN Without(f) ELSE imageFiles
         /\ saved' = IF deletes THEN saved \ {f} ELSE saved
         /\ walkAt' = IF deletes THEN [walkAt EXCEPT !.first = @ \ {f}] ELSE walkAt
  /\ UNCHANGED <<begun, versionVars, processes>>

-----------------------------------------------------------------------------
(* SnapshotWriter, over the directory of the images: one directory per hash. *)

BeginWalk ==
  /\ walkAt.at = "idle"
  /\ \E dirs \in SUBSET Hashes :
       /\ {f[1] : f \in DOMAIN imageFiles} \subseteq dirs
       /\ walkAt' = [at |-> "walking", dirs |-> dirs, due |-> {}, manifest |-> {},
                     first |-> DOMAIN imageFiles]
  /\ UNCHANGED <<imageFiles, imageCalls, begun, saved, versionVars, processes>>

VisitDirectory ==
  /\ walkAt.at = "walking" /\ walkAt.due = {}
  /\ \E h \in walkAt.dirs :
       walkAt' = [walkAt EXCEPT !.dirs = @ \ {h}, !.due = Found(h)]
  /\ UNCHANGED <<imageFiles, imageCalls, begun, saved, versionVars, processes>>

\* Mutant: one file of a directory is read.
Left_None(f) == {}

\* What is still to be read of the directory.
Left(f) == walkAt.due \ {f}

\* The next file; one that is gone by then ends the whole walk, and what was
\* listed so far is the snapshot ("missing dir -- empty snapshot").
VisitFile ==
  /\ walkAt.at = "walking"
  /\ \E f \in walkAt.due :
       walkAt' = IF f \in DOMAIN imageFiles
                 THEN [walkAt EXCEPT !.due = Left(f), !.manifest = @ \cup {f}]
                 ELSE [walkAt EXCEPT !.at = "done"]
  /\ UNCHANGED <<imageFiles, imageCalls, begun, saved, versionVars, processes>>

EndWalk ==
  /\ walkAt.at = "walking" /\ walkAt.due = {} /\ walkAt.dirs = {}
  /\ walkAt' = [walkAt EXCEPT !.at = "done"]
  /\ UNCHANGED <<imageFiles, imageCalls, begun, saved, versionVars, processes>>

\* The process ends; the next one starts with nothing but the files.
EndProcess ==
  /\ processes < MaxProcesses /\ processes' = processes + 1
  /\ records' = <<>> /\ isArray' = TRUE /\ loaded' = FALSE
  /\ appends' = [q \in Appends |-> IF appends[q].at = "new" THEN appends[q]
                                   ELSE [appends[q] EXCEPT !.at = "gone"]]
  /\ imageCalls' = [c \in ImageCalls |-> IdleImage] /\ walkAt' = IdleWalk
  /\ imageFiles' = [f \in DOMAIN imageFiles |-> [imageFiles[f] EXCEPT !.by = "none"]]
  /\ UNCHANGED <<versionFile, begun, saved>>

VersionNext ==
  \/ \E q \in Appends : BeginAppend(q) \/ Loaded(q) \/ FormatVersions(q) \/ TruncateVersions(q)
       \/ WriteVersions(q)
  \/ EndProcess

ImageNext ==
  \/ \E c \in ImageCalls : BeginImage(c) \/ WriteImage(c) \/ UseImage(c)
  \/ BeginWalk \/ VisitDirectory \/ VisitFile \/ EndWalk \/ EndProcess

KeptNext == VersionNext \/ ImageNext

KeptSpec == KeptInit /\ [][KeptNext]_keptVars

-----------------------------------------------------------------------------
(* Properties.                                                             *)

\* A list of records is a history: the versions of a document are numbered from
\* one without a gap, and only the last of them can be current.
IsHistory(rs) ==
  \A i \in DOMAIN rs :
    /\ rs[i].version = 1 + Cardinality({k \in 1 .. i - 1 : rs[k].doc = rs[i].doc})
    /\ rs[i].status = "current" => \A k \in DOMAIN rs : k > i => rs[k].doc # rs[i].doc

\* "an append-only list of versions": in memory, and in the file when it is whole,
\* however appends, first reads and restarts overlap.
VersionsAreHistory == IsHistory(records) /\ IsHistory(versionFile.rows)

\* Once the history is loaded and no call still reads the file, no append of the
\* process is lost from its memory, and none fails.
AppendsAreRemembered ==
  \A q \in Appends : appends[q].warm /\ appends[q].at \notin {"gone", "thrown"} =>
    isArray /\ \E i \in DOMAIN records : records[i].by = q

\* An image that was saved stays whole until it is deleted: saving the same bytes
\* again, deleting and saving them at once, or a restart never tears it.
SavedStaysWhole == \A f \in saved : f \in DOMAIN imageFiles /\ imageFiles[f].whole

\* A manifest lists every file that was there when its walk began, unless one was
\* removed under it.
ManifestIsWhole ==
  walkAt.at = "done" /\ walkAt.due = {} /\ walkAt.dirs = {} => walkAt.first \subseteq walkAt.manifest

FilesAreKept == VersionsAreHistory /\ AppendsAreRemembered /\ SavedStaysWhole /\ ManifestIsWhole
=============================================================================

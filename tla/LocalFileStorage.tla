-------------------------- MODULE LocalFileStorage --------------------------
(***************************************************************************)
(* One key of FsLocalFileStorage (core/src/storage/local-file-storage.ts): *)
(* put() writes a temporary file and renames it, get() reads the file,     *)
(* delete() removes it.  The file system is external: a path names an      *)
(* inode, an open descriptor keeps its inode, a rename is atomic.          *)
(*                                                                         *)
(* A value is written and read in blocks, with an await between any two.   *)
(***************************************************************************)
EXTENDS Integers, Sequences

CONSTANTS
  Puts,         \* the put() calls
  ValueOf,      \* what a put writes
  Gets,         \* the get() calls
  ProcessOf,    \* the process of a put: its pid names the temporary file
  Blocks,       \* the number of blocks of a value
  MaxCrashes    \* bound on processes that die

ASSUME BlockAssumption ==
  Blocks \in Nat \ {0} /\ MaxCrashes \in Nat

NoInode == "none"          \* a path that names nothing
Hole == "hole"             \* a block nobody has written

\* A put also stands for the inode its file gets.
ASSUME InodeAssumption == NoInode \notin Puts

Processes == {ProcessOf[w] : w \in Puts}

VARIABLES
  target,   \* the inode of the key's path
  tmp,      \* the inode of each process's temporary path
  disk,     \* what each block of an inode holds; a put creates the inode it is named by
  putAt,    \* "idle", "open" (descriptor held), "done", "thrown", "dead"
  fd,       \* the inode a put has open
  offset,   \* the blocks a put has written
  getAt,    \* "idle", "exists", "open", "done", "null", "thrown"
  from,     \* the inode a get has open
  got,      \* the blocks a get has read
  shared,   \* history: a process has had two puts of the key in flight
  crashes

puts == <<putAt, fd, offset>>
gets == <<getAt, from, got>>
fileVars == <<target, tmp, disk, puts, gets, shared, crashes>>

Values == {ValueOf[w] : w \in Puts}
Inodes == Puts \cup {NoInode}
Empty == [b \in 1 .. Blocks |-> Hole]

FileTypeOK ==
  /\ target \in Inodes
  /\ tmp \in [Processes -> Inodes]
  /\ disk \in [Puts -> [1 .. Blocks -> Values \cup {Hole}]]
  /\ putAt \in [Puts -> {"idle", "open", "done", "thrown", "dead"}]
  /\ fd \in [Puts -> Inodes]
  /\ offset \in [Puts -> 0 .. Blocks]
  /\ getAt \in [Gets -> {"idle", "exists", "open", "done", "null", "thrown"}]
  /\ from \in [Gets -> Inodes]
  /\ got \in [Gets -> Seq(Values \cup {Hole})]
  /\ shared \in BOOLEAN
  /\ crashes \in 0 .. MaxCrashes

FileInit ==
  /\ target = NoInode
  /\ tmp = [p \in Processes |-> NoInode]
  /\ disk = [w \in Puts |-> Empty]
  /\ putAt = [w \in Puts |-> "idle"]
  /\ fd = [w \in Puts |-> NoInode]
  /\ offset = [w \in Puts |-> 0]
  /\ getAt = [g \in Gets |-> "idle"]
  /\ from = [g \in Gets |-> NoInode]
  /\ got = [g \in Gets |-> <<>>]
  /\ shared = FALSE
  /\ crashes = 0

-----------------------------------------------------------------------------
(* put                                                                     *)

\* Mutant: the temporary path does not name the process.
TmpOf_Shared(w) == CHOOSE p \in Processes : TRUE

\* The owner of `${target}.tmp.${process.pid}`.
TmpOf(w) == ProcessOf[w]

Busy(p) == \E w \in Puts : ProcessOf[w] = p /\ putAt[w] = "open"

\* Mutant: the value is written to the key's own path.
PutOpen_InPlace(w) ==
  LET i == IF target = NoInode THEN w ELSE target IN
  /\ putAt[w] = "idle"
  /\ shared' = (shared \/ Busy(ProcessOf[w]))
  /\ target' = i
  /\ tmp' = [tmp EXCEPT ![TmpOf(w)] = i]
  /\ disk' = [disk EXCEPT ![i] = Empty]
  /\ fd' = [fd EXCEPT ![w] = i]
  /\ putAt' = [putAt EXCEPT ![w] = "open"]
  /\ UNCHANGED <<offset, gets, crashes>>

\* Mutant: a stale temporary file is renamed into place instead of being rewritten.
PutOpen_Resumes(w) ==
  LET i == IF tmp[TmpOf(w)] = NoInode THEN w ELSE tmp[TmpOf(w)] IN
  /\ putAt[w] = "idle"
  /\ shared' = (shared \/ Busy(ProcessOf[w]))
  /\ target' = IF i = w THEN target ELSE i
  /\ tmp' = [tmp EXCEPT ![TmpOf(w)] = IF i = w THEN i ELSE NoInode]
  /\ fd' = [fd EXCEPT ![w] = i]
  /\ putAt' = [putAt EXCEPT ![w] = IF i = w THEN "open" ELSE "done"]
  /\ UNCHANGED <<disk, offset, gets, crashes>>

\* fs.writeFile opens with O_CREAT and O_TRUNC.
PutOpen(w) ==
  LET i == IF tmp[TmpOf(w)] = NoInode THEN w ELSE tmp[TmpOf(w)] IN
  /\ putAt[w] = "idle"
  /\ shared' = (shared \/ Busy(ProcessOf[w]))
  /\ tmp' = [tmp EXCEPT ![TmpOf(w)] = i]
  /\ disk' = [disk EXCEPT ![i] = Empty]
  /\ fd' = [fd EXCEPT ![w] = i]
  /\ putAt' = [putAt EXCEPT ![w] = "open"]
  /\ UNCHANGED <<target, offset, gets, crashes>>

PutWrite(w) ==
  /\ putAt[w] = "open" /\ offset[w] < Blocks
  /\ disk' = [disk EXCEPT ![fd[w]][offset[w] + 1] = ValueOf[w]]
  /\ offset' = [offset EXCEPT ![w] = @ + 1]
  /\ UNCHANGED <<target, tmp, putAt, fd, gets, shared, crashes>>

\* renameSync, which throws when the temporary path is gone.
PutRename(w) ==
  /\ putAt[w] = "open" /\ offset[w] = Blocks
  /\ \/ /\ tmp[TmpOf(w)] # NoInode
        /\ target' = tmp[TmpOf(w)]
        /\ tmp' = [tmp EXCEPT ![TmpOf(w)] = NoInode]
        /\ putAt' = [putAt EXCEPT ![w] = "done"]
     \/ /\ tmp[TmpOf(w)] = NoInode
        /\ putAt' = [putAt EXCEPT ![w] = "thrown"]
        /\ UNCHANGED <<target, tmp>>
  /\ UNCHANGED <<disk, fd, offset, gets, shared, crashes>>

-----------------------------------------------------------------------------
(* get and delete                                                          *)

GetExists(g) ==
  /\ getAt[g] = "idle"
  /\ getAt' = [getAt EXCEPT ![g] = IF target = NoInode THEN "null" ELSE "exists"]
  /\ UNCHANGED <<target, tmp, disk, puts, from, got, shared, crashes>>

\* The open of fs.readFile, an await after existsSync: the file may be gone.
GetOpen(g) ==
  /\ getAt[g] = "exists"
  /\ from' = [from EXCEPT ![g] = target]
  /\ getAt' = [getAt EXCEPT ![g] = IF target = NoInode THEN "thrown" ELSE "open"]
  /\ UNCHANGED <<target, tmp, disk, puts, got, shared, crashes>>

GetRead(g) ==
  LET n == Len(got[g]) + 1 IN
  /\ getAt[g] = "open"
  /\ got' = [got EXCEPT ![g] = Append(@, disk[from[g]][n])]
  /\ getAt' = [getAt EXCEPT ![g] = IF n = Blocks THEN "done" ELSE @]
  /\ UNCHANGED <<target, tmp, disk, puts, from, shared, crashes>>

Delete ==
  /\ target # NoInode
  /\ target' = NoInode
  /\ UNCHANGED <<tmp, disk, puts, gets, shared, crashes>>

\* The process dies and its temporary file stays; a restarted process (with
\* the same pid, as in a container) finds it.
Crash(p) ==
  /\ crashes < MaxCrashes
  /\ crashes' = crashes + 1
  /\ putAt' = [w \in Puts |-> IF ProcessOf[w] = p /\ putAt[w] = "open" THEN "dead" ELSE putAt[w]]
  /\ UNCHANGED <<target, tmp, disk, fd, offset, gets, shared>>

FileNext ==
  \/ \E w \in Puts : PutOpen(w) \/ PutWrite(w) \/ PutRename(w)
  \/ \E g \in Gets : GetExists(g) \/ GetOpen(g) \/ GetRead(g)
  \/ Delete
  \/ \E p \in Processes : Crash(p)

FileSpec == FileInit /\ [][FileNext]_fileVars

-----------------------------------------------------------------------------
(* Properties                                                              *)

IsWhole(content) == \E v \in Values : \A b \in 1 .. Blocks : content[b] = v

\* A get returns the whole value of one put, whatever is written, renamed or
\* deleted while it reads and whichever process dies, as long as no process
\* had two puts of the key in flight (they would share a temporary file).
ReadersSeeWhole ==
  ~shared => \A g \in Gets : getAt[g] = "done" => IsWhole(got[g])

\* Then the key names a complete value at any time, and no put has failed
\* because of another: a crash leaves no torn file.
TargetIsWhole ==
  ~shared => /\ target # NoInode => IsWhole(disk[target])
             /\ \A w \in Puts : putAt[w] # "thrown"

=============================================================================

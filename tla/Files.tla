-------------------------------- MODULE Files --------------------------------
(***************************************************************************)
(* The file system (FS/vfs_api.cpp, FS/FS.cpp): File variables of the      *)
(* program refer to shared VFSFileImpl objects, each with a FILE or a DIR  *)
(* and a cached result of stat, over a directory that other processes      *)
(* change too.                                                             *)
(*                                                                         *)
(* One thread makes the calls.  Those of a File are one step.  Those that  *)
(* take a path make several system calls, and another process may act      *)
(* between two of them: stat, fopen or opendir, and then the act itself.   *)
(*                                                                         *)
(* A file is its length, for that is what size and available ask for.      *)
(* Directories other than the mount point are empty.                       *)
(***************************************************************************)
EXTENDS Naturals

CONSTANTS
    Handles,  \* the File variables of the program
    Impls,    \* the VFSFileImpl objects that exist at a time
    NoImpl,   \* what an empty File refers to
    Root,     \* the path of the mount point
    Paths,    \* the paths of its entries
    Inodes,   \* regular files
    MaxLen    \* bound on the length that a write is made to

NoFile == "NULL"
Names  == Paths \cup {Root}
Kinds  == {"none", "dir", "other"}  \* "other": a device, a socket
Modes  == {"r", "w", "a"}

ASSUME FilesAssumption ==
    /\ NoImpl \notin Impls
    /\ Root \notin Paths
    /\ NoFile \notin Names \cup Inodes
    /\ Kinds \cap Inodes = {}
    /\ MaxLen \in Nat \ {0}

VARIABLES
    tree,    \* per path: the regular file there, or what else is
    len,     \* per regular file: its length
    owed,    \* history: the length that its writers were told it has
    handle,  \* per File variable: the object it refers to, _p
    impl,    \* per VFSFileImpl object: its members
    call     \* the call under way

vars == <<tree, len, owed, handle, impl, call>>

\* _path, _isDirectory, _f, _d, _stat.st_size and _written; of the stream its
\* mode, the position it writes at and the bytes it holds back.
Members ==
    [path : Names \cup {NoFile}, isDirectory : BOOLEAN, f : Inodes \cup {NoFile},
     d : BOOLEAN, size : Nat, written : BOOLEAN,
     mode : Modes, pos : Nat, buf : Nat]

\* A call that opens, or one that probes a path and then acts on it.  Which of
\* those it is shows when its probe is done.
Ops   == {"open", "probe", "unlink", "mkdir", "rename"}
Steps == {"opendir1", "stat", "fopen", "built", "act"}
Calls == [op : Ops, step : Steps, path : Names, mode : Modes,
          seen : {"none", "dir", "other", "file"}, temp : Impls \cup {NoImpl}]
Idle  == [op |-> "idle"]

TypeOK ==
    /\ tree \in [Names -> Inodes \cup Kinds]
    /\ len \in [Inodes -> Nat]
    /\ owed \in [Inodes -> Nat]
    /\ handle \in [Handles -> Impls \cup {NoImpl}]
    /\ impl \in [Impls -> Members]
    /\ call \in Calls \cup {Idle}
    \* An object is a file or a directory, but not both.
    /\ \A i \in Impls : /\ impl[i].d => impl[i].isDirectory
                        /\ impl[i].isDirectory => impl[i].f = NoFile

\* The constructor's initial members.  What _stat holds is not initialised.
Fresh(p, m, garbage) ==
    [path |-> p, isDirectory |-> FALSE, f |-> NoFile, d |-> FALSE,
     size |-> garbage, written |-> FALSE, mode |-> m, pos |-> 0, buf |-> 0]

Init ==
    /\ tree = [p \in Names |-> IF p = Root THEN "dir" ELSE "none"]
    /\ len = [x \in Inodes |-> 0]
    /\ owed = [x \in Inodes |-> 0]
    /\ handle = [h \in Handles |-> NoImpl]
    /\ impl = [i \in Impls |-> Fresh(NoFile, "r", 0)]
    /\ call = Idle

Larger(a, b) == IF a < b THEN b ELSE a

-----------------------------------------------------------------------------
(* Objects.  An object lives while a File or the call under way refers to  *)
(* it.                                                                     *)

IsFile(n) == n \in Inodes

IsOpen(i) == (impl[i].isDirectory /\ impl[i].d) \/ impl[i].f # NoFile

InCall(i) == call # Idle /\ call.temp = i

Unused(i) == ~InCall(i) /\ \A h \in Handles : handle[h] # i

UnusedInode(x) == /\ \A p \in Names : tree[p] # x
                  /\ \A i \in Impls : impl[i].f # x

\* Mutant: what the stream holds back is dropped.
StoredNever(r) == len

\* What a stream writes when it is flushed, and how it is left.
Stored(r) ==
    IF r.f = NoFile \/ r.buf = 0
    THEN len
    ELSE [len EXCEPT ![r.f] =
              IF r.mode = "a" THEN @ + r.buf ELSE Larger(@, r.pos + r.buf)]

Flushed(r) == [r EXCEPT !.pos = IF r.mode = "w" THEN @ + r.buf ELSE @,
                        !.buf = 0]

\* VFSFileImpl::close closes one of the two: a DIR that is marked as one, or else
\* the FILE.
ClosesDir(r) == r.isDirectory /\ r.d

\* Mutant: only a FILE is closed.
ClosedFileOnly(r) ==
    [Fresh(NoFile, "r", 0) EXCEPT !.d = r.d, !.isDirectory = r.isDirectory]

\* Members that nothing reads afterwards are forgotten.
Closed(r) ==
    IF ClosesDir(r)
    THEN [Fresh(NoFile, "r", 0) EXCEPT !.f = r.f]
    ELSE [Fresh(NoFile, "r", 0) EXCEPT !.d = r.d, !.isDirectory = r.isDirectory]

Close(i) ==
    /\ len' = IF ClosesDir(impl[i]) THEN len ELSE Stored(impl[i])
    /\ impl' = [impl EXCEPT ![i] = Closed(@)]

\* File variable h refers to j from now on.  The last reference that goes
\* destroys the object, which closes it.
Assign(h, j) ==
    /\ handle' = [handle EXCEPT ![h] = j]
    /\ LET o == handle[h] IN
         IF o = NoImpl \/ o = j \/ \E g \in Handles \ {h} : handle[g] = o
         THEN UNCHANGED <<len, impl>>
         ELSE Close(o)

-----------------------------------------------------------------------------
(* Calls that take a path.  All build a VFSFileImpl first.                 *)

At(step) == call # Idle /\ call.step = step

Goes(step) == call' = [call EXCEPT !.step = step]

Calling(op, p, m, step) ==
    [op |-> op, step |-> step, path |-> p, mode |-> m, seen |-> "none",
     temp |-> NoImpl]

\* The constructor asks what the path is.  What _stat holds without an answer
\* can matter for a stream that writes.
ConstructStat(i, c) ==
    LET n == tree[c.path] IN
        /\ Unused(i)
        /\ \E s \in (IF IsFile(n) THEN {len[n]}
                    ELSE IF n = "none" /\ c.mode # "r" THEN 0 .. MaxLen
                    ELSE {0}) :
               impl' = [impl EXCEPT ![i] = Fresh(c.path, c.mode, s)]
        /\ call' = [c EXCEPT !.step = "fopen", !.temp = i,
                            !.seen = IF IsFile(n) THEN "file" ELSE n]
        /\ UNCHANGED <<tree, len, owed, handle>>

\* VFSImpl::open looks first whether it is worth while; h is the File that takes
\* the result.
Open(h, p, m) ==
    /\ call = Idle
    /\ \E i \in Impls : Unused(i)
    /\ IF tree[p] = "other"
       THEN Assign(h, NoImpl) /\ UNCHANGED call
       ELSE /\ call' = Calling("open", p, m,
                        IF tree[p] = "none" /\ m = "r" THEN "opendir1" ELSE "stat")
            /\ UNCHANGED <<len, handle, impl>>
    /\ UNCHANGED <<tree, owed>>

OpenTryDir(h) ==
    /\ At("opendir1")
    /\ \/ /\ call' = Idle
          /\ Assign(h, NoImpl)
       \/ /\ tree[call.path] = "dir"
          /\ Goes("stat")
          /\ UNCHANGED <<len, handle, impl>>
    /\ UNCHANGED <<tree, owed>>

Construct(i) == At("stat") /\ ConstructStat(i, call)

Probe(p) ==
    /\ call = Idle
    /\ \E i \in Impls : ConstructStat(i, Calling("probe", p, "r", "stat"))

Takes(x) == impl' = [impl EXCEPT ![call.temp].f = x]

\* Then it calls fopen, on what the path is by now.
ConstructFile ==
    /\ At("fopen")
    /\ call.seen = "file" \/ (call.seen = "none" /\ call.mode # "r")
    /\ LET n == tree[call.path] IN
         \/ Takes(NoFile) /\ UNCHANGED <<tree, len, owed>>
         \/ /\ IsFile(n)
            /\ Takes(n)
            /\ IF call.mode = "w"
               THEN len' = [len EXCEPT ![n] = 0] /\ owed' = [owed EXCEPT ![n] = 0]
               ELSE UNCHANGED <<len, owed>>
            /\ UNCHANGED tree
         \/ /\ n = "none" /\ call.mode # "r"
            /\ \E x \in Inodes :
                  /\ UnusedInode(x)
                  /\ Takes(x)
                  /\ tree' = [tree EXCEPT ![call.path] = x]
                  /\ len' = [len EXCEPT ![x] = 0]
                  /\ owed' = [owed EXCEPT ![x] = 0]
    /\ Goes("built")
    /\ UNCHANGED handle

\* Mutant: what opendir finds after a failed stat is not marked a directory.
ConstructDirUnmarked ==
    /\ At("fopen")
    /\ call.seen = "dir" \/ (call.seen = "none" /\ call.mode = "r")
    /\ \E found \in BOOLEAN :
          /\ found => tree[call.path] = "dir"
          /\ impl' = [impl EXCEPT ![call.temp].d = found,
                                  ![call.temp].isDirectory = (call.seen = "dir")]
    /\ Goes("built")
    /\ UNCHANGED <<tree, len, owed, handle>>

\* ... or opendir, also when a path to be read from was not found.
ConstructDir ==
    /\ At("fopen")
    /\ call.seen = "dir" \/ (call.seen = "none" /\ call.mode = "r")
    /\ \E found \in BOOLEAN :
          /\ found => tree[call.path] = "dir"
          /\ impl' = [impl EXCEPT
                        ![call.temp].d = found,
                        ![call.temp].isDirectory = (found \/ call.seen = "dir")]
    /\ Goes("built")
    /\ UNCHANGED <<tree, len, owed, handle>>

ConstructOther ==
    /\ At("fopen")
    /\ call.seen = "other"
    /\ Goes("built")
    /\ UNCHANGED <<tree, len, owed, handle, impl>>

\* open and openNextFile give the object away, open or not.
Given(h) ==
    /\ At("built")
    /\ call.op = "open"
    /\ Assign(h, call.temp)
    /\ call' = Idle
    /\ UNCHANGED <<tree, owed>>

\* The others close and destroy it, and go on or return.
Probed(next) ==
    /\ At("built")
    /\ call.op = "probe"
    /\ Close(call.temp)
    /\ call' = next
    /\ UNCHANGED <<tree, owed, handle>>

Acting(op) == Calling(op, call.path, "r", "act")

\* Also what the other calls do when the object is not what they need.
Exists == Probed(Idle)

Remove == /\ Probed(Acting("unlink"))
          /\ IsOpen(call.temp) /\ ~impl[call.temp].isDirectory

\* rmdir calls unlink as well, which does not remove directories.
RmDir == /\ Probed(Acting("unlink"))
         /\ IsOpen(call.temp) /\ impl[call.temp].isDirectory

MkDir == /\ Probed(Acting("mkdir"))
         /\ ~IsOpen(call.temp)

Rename == /\ Probed(Acting("rename"))
          /\ IsOpen(call.temp)

\* The system call, which may fail.
Act(op) ==
    /\ At("act")
    /\ call.op = op
    /\ call' = Idle
    /\ UNCHANGED <<len, owed, handle, impl>>

Fails == /\ \E op \in Ops : Act(op)
         /\ UNCHANGED tree

Unlink ==
    /\ Act("unlink")
    /\ tree[call.path] # "dir"
    /\ tree' = [tree EXCEPT ![call.path] = "none"]

Make ==
    /\ Act("mkdir")
    /\ tree[call.path] = "none"
    /\ tree' = [tree EXCEPT ![call.path] = "dir"]

Move(q) ==
    /\ Act("rename")
    /\ Root \notin {call.path, q} /\ call.path # q
    /\ tree[call.path] # "none"
    /\ tree[call.path] = "dir" => tree[q] \in {"none", "dir"}
    /\ tree[q] = "dir" => tree[call.path] = "dir"
    /\ tree' = [tree EXCEPT ![q] = tree[call.path], ![call.path] = "none"]

-----------------------------------------------------------------------------
(* Calls of a File that is not empty.                                      *)

Uses(h) == call = Idle /\ handle[h] # NoImpl

File(h) == impl[handle[h]]

HasFile(h) == Uses(h) /\ ~File(h).isDirectory /\ File(h).f # NoFile

\* The end of what was written, once the stream is flushed.
End(r) == (IF r.mode = "a" THEN len[r.f] ELSE r.pos) + r.buf

\* write of n bytes.  stdio keeps them or stores all it has; a stream opened
\* for reading takes none, and _written is set all the same.
Write(h, n) ==
    /\ HasFile(h)
    /\ LET i == handle[h]
           r == [File(h) EXCEPT !.written = TRUE, !.buf = @ + n]
       IN  \/ /\ File(h).mode = "r"
              /\ impl' = [impl EXCEPT ![i].written = TRUE]
              /\ UNCHANGED <<len, owed>>
           \/ /\ File(h).mode # "r"
              /\ End(r) <= MaxLen
              /\ owed' = [owed EXCEPT ![r.f] = Larger(@, End(r))]
              /\ \/ impl' = [impl EXCEPT ![i] = r] /\ UNCHANGED len
                 \/ impl' = [impl EXCEPT ![i] = Flushed(r)] /\ len' = Stored(r)
    /\ UNCHANGED <<tree, handle, call>>

Flush(h) ==
    /\ HasFile(h)
    /\ len' = Stored(File(h))
    /\ impl' = [impl EXCEPT ![handle[h]] = Flushed(@)]
    /\ UNCHANGED <<tree, owed, handle, call>>

\* seek stores what the stream holds back.  A stream that appends, or reads, has
\* no position that matters for the length of its file: read, and peek, which is
\* a read and a seek back, change nothing here.
Seek(h, p) ==
    /\ HasFile(h)
    /\ File(h).mode # "w" => p = 0
    /\ len' = Stored(File(h))
    /\ impl' = [impl EXCEPT ![handle[h]] = [Flushed(@) EXCEPT !.pos = p]]
    /\ UNCHANGED <<tree, owed, handle, call>>

\* _getStat: by the path, whatever is there now.
GetStat(h) ==
    LET n == tree[File(h).path] IN
        \/ n = "none" /\ UNCHANGED impl
        \/ /\ n # "none"
           /\ \E s \in (IF IsFile(n) THEN {len[n]}
                      ELSE IF File(h).f # NoFile THEN 0 .. MaxLen
                      ELSE {0}) :
                 impl' = [impl EXCEPT ![handle[h]].size = s,
                                      ![handle[h]].written = FALSE]

\* size, and available, which is size less position.
Size(h) ==
    /\ HasFile(h)
    /\ File(h).written
    /\ GetStat(h)
    /\ UNCHANGED <<tree, len, owed, handle, call>>

GetLastWrite(h) ==
    /\ Uses(h)
    /\ File(h).path # NoFile
    /\ GetStat(h)
    /\ UNCHANGED <<tree, len, owed, handle, call>>

\* File::close closes the object for all its copies.
FileClose(h) ==
    /\ Uses(h)
    /\ Close(handle[h])
    /\ handle' = [handle EXCEPT ![h] = NoImpl]
    /\ UNCHANGED <<tree, owed, call>>

\* A File is copied to another, or goes out of scope.
Copy(h, g) ==
    /\ call = Idle
    /\ Assign(h, handle[g])
    /\ UNCHANGED <<tree, owed, call>>

Drop(h) ==
    /\ Uses(h)
    /\ Assign(h, NoImpl)
    /\ UNCHANGED <<tree, owed, call>>

-----------------------------------------------------------------------------
(* Directories.                                                            *)

HasDir(h) == Uses(h) /\ File(h).isDirectory /\ File(h).d

Entries(h) == {File(h).path} \cup (IF File(h).path = Root THEN Paths ELSE {})

\* openNextFile gives the entries in any order, and may give one that is gone by
\* now.  "." is the directory itself.
OpenNextFile(h, e, m) ==
    /\ HasDir(h)
    /\ \E i \in Impls : Unused(i)
    /\ e \in Entries(h)
    /\ tree[e] # "other"
    /\ call' = Calling("open", e, m, "stat")
    /\ UNCHANGED <<tree, len, owed, handle, impl>>

DirectoryEnds(h, g) ==
    /\ HasDir(h)
    /\ Assign(g, NoImpl)
    /\ UNCHANGED <<tree, owed, call>>

-----------------------------------------------------------------------------
(* Another process creates, replaces or removes an entry.  Between the     *)
(* constructor's stat and its fopen it puts neither a device there nor,    *)
(* for a file, a directory: fopen would open those as well.                *)

OthersChange(p) ==
    /\ \E n \in Kinds \ {tree[p]} :
          /\ At("fopen") /\ call.path = p =>
                 n = "none" \/ (n = "dir" /\ call.seen # "file")
          /\ tree' = [tree EXCEPT ![p] = n]
    /\ UNCHANGED <<len, owed, handle, impl, call>>

OthersReplace(p) ==
    /\ \E x \in Inodes, n \in 0 .. MaxLen :
          /\ UnusedInode(x)
          /\ tree' = [tree EXCEPT ![p] = x]
          /\ len' = [len EXCEPT ![x] = n]
          /\ owed' = [owed EXCEPT ![x] = 0]
    /\ UNCHANGED <<handle, impl, call>>

-----------------------------------------------------------------------------
PathCalls ==
    \/ \E h \in Handles, p \in Names, m \in Modes : Open(h, p, m)
    \/ \E h \in Handles : OpenTryDir(h)
    \/ \E p \in Names : Probe(p)
    \/ \E i \in Impls : Construct(i)
    \/ ConstructFile
    \/ ConstructDir
    \/ ConstructOther
    \/ \E h \in Handles : Given(h)
    \/ Exists
    \/ Remove
    \/ RmDir
    \/ MkDir
    \/ Rename
    \/ Fails
    \/ Unlink
    \/ Make
    \/ \E q \in Names : Move(q)

FileCalls ==
    \E h \in Handles :
        \/ \E n \in 1 .. MaxLen : Write(h, n)
        \/ Flush(h)
        \/ \E p \in 0 .. MaxLen : Seek(h, p)
        \/ Size(h)
        \/ GetLastWrite(h)
        \/ FileClose(h)
        \/ \E g \in Handles : Copy(h, g)
        \/ Drop(h)

DirectoryCalls ==
    \E h \in Handles :
        \/ \E e \in Names, m \in Modes : OpenNextFile(h, e, m)
        \/ \E g \in Handles : DirectoryEnds(h, g)

Others == \E p \in Paths : OthersChange(p) \/ OthersReplace(p)

Next == PathCalls \/ FileCalls \/ DirectoryCalls \/ Others

Spec == Init /\ [][Next]_vars

-----------------------------------------------------------------------------
(* Safety.                                                                 *)

\* An object that nothing refers to any more has neither a FILE nor a DIR left
\* open: however its path changed while it was built, whichever call of several
\* on a shared object closed it, and wherever the last reference went.
NothingLeaks ==
    \A i \in Impls : Unused(i) => impl[i].f = NoFile /\ ~impl[i].d

\* A file that no stream holds bytes back for is as long as its writers were
\* told: flush, seek, close and the end of the last copy of a File all store
\* what write has accepted, also when several Files write the same file.
WrittenStored ==
    \A x \in Inodes :
        (\A i \in Impls : impl[i].f = x => impl[i].buf = 0) => owed[x] <= len[x]

-----------------------------------------------------------------------------
(* What comments of the code say, and the code does not keep.              *)

\* FSImpl.h: size returns "the total file size in bytes".  Stated here for a
\* file that is still at its path, open once and with nothing held back, when
\* size would not ask again.
SizeTrue ==
    \A h \in Handles :
        LET r == File(h) IN
            /\ HasFile(h) /\ r.mode # "r" /\ r.buf = 0 /\ ~r.written
            /\ tree[r.path] = r.f
            /\ \A j \in Impls \ {handle[h]} : impl[j].f # r.f
            => r.size = len[r.f]
=============================================================================

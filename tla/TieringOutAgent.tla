-------------------------- MODULE TieringOutAgent --------------------------
(***************************************************************************)
(* The tiering-out agent (src/tiering/tiering_out_agent.cc), the snapshot  *)
(* persister, segment and index it drives, and the web requests that start *)
(* and stop it, beside the FUSE thread of FsChangeLog.  Nothing is locked: *)
(* the steps of the three threads interleave freely.                       *)
(*                                                                         *)
(* The contents of a file are a version number, one more for every change. *)
(* The index is what GetSegment answers for XID_MAX, the only xid it is    *)
(* ever asked for: the version of an inode in the newest segment that      *)
(* holds it.                                                               *)
(***************************************************************************)
EXTENDS FsChangeLog

CONSTANTS
    Dirs,               \* the inodes that are directories
    Path,               \* inode -> the path its metadata records
    Above,              \* inode -> the directories of that path, but for the root
    Existing,           \* inodes that the store holds when it is mounted
    WebEvents,          \* the requests that clients send to the web server
    MaxXidPerSegment,   \* MAX_XID_PER_SEGMENT, 1000 in the code
    Forgets,            \* inodes that may be removed from the KVS meanwhile
    IOErrors,           \* TRUE when copying a file or running tar can fail
    AtomicRead          \* TRUE when FsChangeLog::Read is not torn by Append

ASSUME ToaConstants ==
    /\ Root \in Dirs
    /\ Dirs \subseteq Inode
    /\ Existing \subseteq Inode
    /\ DOMAIN Path = Inode
    /\ Above \in [Inode -> SUBSET (Dirs \ {Root})]
    /\ Above[Root] = {}
    /\ \A i \in Existing : Above[i] \subseteq Existing
    /\ WebEvents \subseteq {"/SNAP", "/STOP", "/EVICT"}
    /\ MaxXidPerSegment \in Nat
    /\ Forgets \subseteq Inode \ {Root}
    /\ IOErrors \in BOOLEAN
    /\ AtomicRead \in BOOLEAN

Absent  == 0    \* no such file, or no copy of it
Wrong   == 1    \* contents that the file never had: zeros where its chunks
                \* are gone, an unfilled buffer, another file's bytes
Created == 2    \* an empty file; later versions have contents

VARIABLES
    data,               \* inode -> version of its contents in the KVS
    kvs,                \* inodes whose metadata the KVS holds
    named,              \* inodes that a directory lists under their path
    index,              \* inode -> version in its newest segment
    tiered_out_xid,     \* "tiered out changes up to this xid"
    handed,             \* history: xids handed to the persister
    snapshot_requested, \* set by /SNAP, cleared by the agent
    stop_requested,     \* set by /STOP and at unmount
    aborted,            \* why the process died, "no" while it runs
    toa,                \* the agent's thread
    web                 \* the web thread: [pc, snap_end], snap_end being the
                        \* log_last_xid the last /SNAP reported

storeVars == <<data, kvs, named>>
toaVars   == <<index, tiered_out_xid, handed, aborted, toa>>
webVars   == <<web>>
flagVars  == <<snapshot_requested, stop_requested>>
vars == <<logVars, storeVars, toaVars, webVars, flagVars>>

Alive == aborted = "no"

NoFiles == [i \in Inode |-> Absent]

\* What the files hold when the store is mounted.
Mounted == [i \in Inode |-> IF i \in {Root} \cup Existing
                            THEN Created + 1 ELSE Absent]

\* main() mounts the store and reads the index of earlier mounts, which has
\* copies of some of the files that exist, current or older ones.  The log
\* starts empty every time.
MountInit ==
    /\ LogInit
    /\ kvs = {Root} \cup Existing
    /\ named = kvs
    /\ index \in {x \in [Inode -> {Absent, Created, Created + 1}] :
                    \A i \in Inode : x[i] <= Mounted[i]}
    /\ tiered_out_xid = 0
    /\ handed = {}
    /\ snapshot_requested = FALSE
    /\ stop_requested = FALSE
    /\ aborted = "no"
    /\ toa = [pc |-> "sleep", end |-> 0, next |-> 0, last |-> 0,
              inodes |-> {}, found |-> {}, inode |-> Root,
              seen |-> Absent, staged |-> NoFiles]
    /\ web = [pc |-> "idle", snap_end |-> 0]

Init == MountInit /\ data = Mounted

---------------------------------------------------------------------------
(* The FUSE thread *)

ChangesData == {"SETATTR", "COMMIT"}

\* Only files are written, linked and unlinked, and the root is not removed.
Suits(op, i) ==
    /\ op \in {"COMMIT", "LINK", "UNLINK"} => i \notin Dirs
    /\ op = "RMDIR" => i \in Dirs \ {Root}

\* Create and Mkdir record the path in the new inode; it is free, and every
\* directory on it exists.
Creates(i) ==
    /\ Above[i] \subseteq kvs
    /\ \A j \in named : Path[j] # Path[i]
    /\ kvs' = kvs \cup {i}
    /\ named' = named \cup {i}

\* Rmdir and Unlink take a name away, which may be another than the recorded
\* one when the file has been linked.  The inode keeps its path.
Names(op, i) ==
    /\ i \in kvs
    /\ \/ op \in {"RMDIR", "UNLINK"} /\ i \in named /\ named' = named \ {i}
       \/ op # "RMDIR" /\ UNCHANGED named
    /\ UNCHANGED kvs

\* One handler of kvfs_mount.cc up to its Append.
Handler(op, i) ==
    /\ Alive
    /\ Suits(op, i)
    /\ Begin(op, i)
    /\ IF op = "CREAT"
       THEN /\ data[i] = Absent     \* GetNextIno never repeats
            /\ data' = [data EXCEPT ![i] = Created]
            /\ Creates(i)
       ELSE /\ Names(op, i)
            /\ data' = IF op \in ChangesData
                       THEN [data EXCEPT ![i] = @ + 1] ELSE data
    /\ UNCHANGED <<toaVars, webVars, flagVars>>

HandlerFails(op) ==
    /\ Alive
    /\ Burn(op)
    /\ UNCHANGED <<storeVars, toaVars, webVars, flagVars>>

HandlerAppends ==
    /\ Alive
    /\ Stamp \/ Push
    /\ UNCHANGED <<storeVars, toaVars, webVars, flagVars>>

\* The last hold on an inode without links goes: Release closes the file and
\* its metadata leaves the KVS.  Which inode qualifies is left open.
Forget(i) ==
    /\ Alive
    /\ i \in kvs
    /\ kvs' = kvs \ {i}
    /\ UNCHANGED <<logVars, data, named, toaVars, webVars, flagVars>>

---------------------------------------------------------------------------
(* The web thread *)

\* /SNAP raises the flag first and reads the log's xids for its reply after.
RequestSnapshot ==
    /\ Alive
    /\ "/SNAP" \in WebEvents
    /\ web.pc = "idle"
    /\ snapshot_requested' = TRUE
    /\ web' = [web EXCEPT !.pc = "reply"]
    /\ UNCHANGED <<logVars, storeVars, toaVars, stop_requested>>

SnapshotReply ==
    /\ Alive
    /\ web.pc = "reply"
    /\ web' = [pc |-> "idle", snap_end |-> get_last_xid]
    /\ UNCHANGED <<logVars, storeVars, toaVars, flagVars>>

RequestStop ==
    /\ Alive
    /\ "/STOP" \in WebEvents
    /\ ~stop_requested
    /\ stop_requested' = TRUE
    /\ UNCHANGED <<logVars, storeVars, toaVars, webVars, snapshot_requested>>

---------------------------------------------------------------------------
(* The agent's thread *)

toaFrame == Alive /\ UNCHANGED <<logVars, storeVars, webVars, stop_requested>>

\* Snapshot() that takes get_next_xid for the end.
SnapshotBeginNext ==
    /\ toa.pc = "sleep"
    /\ snapshot_requested
    /\ toa' = [toa EXCEPT !.pc = "sample", !.end = next_xid]
    /\ toaFrame
    /\ UNCHANGED <<index, tiered_out_xid, handed, aborted, snapshot_requested>>

\* The agent wakes up to a request: Snapshot() starts.
SnapshotBegin ==
    /\ toa.pc = "sleep"
    /\ snapshot_requested
    /\ toa' = [toa EXCEPT !.pc = "sample", !.end = get_last_xid]
    /\ toaFrame
    /\ UNCHANGED <<index, tiered_out_xid, handed, aborted, snapshot_requested>>

\* Read loads next_xid.
SnapshotSample ==
    /\ toa.pc = "sample"
    /\ toa' = [toa EXCEPT !.pc = "read", !.next = next_xid]
    /\ toaFrame
    /\ UNCHANGED <<index, tiered_out_xid, handed, aborted, snapshot_requested>>

Batch ==
    LET first == tiered_out_xid + 1
    IN  ReadAt(IF AtomicRead THEN next_xid ELSE toa.next,
               first, Min2(first + MaxXidPerSegment, toa.end))

\* GetInodes with an off-by-one.
InodesOfButLast(entries) == {entries[k].inode : k \in 1 .. Len(entries) - 1}

\* GetInodes
InodesOf(entries) == {entries[k].inode : k \in 1 .. Len(entries)}

\* Read copies the batch and GetInodes its inodes; back() of an empty batch
\* takes the process down.
SnapshotRead ==
    /\ toa.pc = "read"
    /\ IF Batch = <<>>
       THEN /\ aborted' = "batch"
            /\ UNCHANGED toa
       ELSE /\ toa' = [toa EXCEPT !.pc = "paths",
                                  !.last = Batch[Len(Batch)].xid,
                                  !.inodes = InodesOf(Batch),
                                  !.staged = NoFiles]
            /\ UNCHANGED aborted
    /\ handed' = handed \cup {Batch[k].xid : k \in 1 .. Len(Batch)}
    /\ toaFrame
    /\ UNCHANGED <<index, tiered_out_xid, snapshot_requested>>

\* GetPath follows the recorded parents up to the root; one that is gone
\* leaves the inode without a path.
HasPath(i) == {i} \cup Above[i] \subseteq kvs

\* GetPaths; without any path no segment is made.  Otherwise the comparator of
\* the sort puts the inodes without one back, with an empty path.
GetPaths ==
    /\ toa.pc = "paths"
    /\ LET found == {i \in toa.inodes : HasPath(i)}
       IN  toa' = [toa EXCEPT !.pc = IF found = {} THEN "advance" ELSE "copy",
                              !.inodes = IF found = {} THEN {} ELSE @,
                              !.found = found]
    /\ toaFrame
    /\ UNCHANGED <<index, tiered_out_xid, handed, aborted, snapshot_requested>>

\* Segment::Add begins with a stat, which fails when the inode is gone, and
\* otherwise tells the size, here that of version v.
StatAs(i, v) ==
    /\ toa.pc = "copy"
    /\ i \in toa.inodes
    /\ toa' = IF i \in kvs
              THEN [toa EXCEPT !.inodes = @ \ {i}, !.pc = "add", !.inode = i, !.seen = v]
              ELSE [toa EXCEPT !.inodes = @ \ {i}]
    /\ toaFrame
    /\ UNCHANGED <<index, tiered_out_xid, handed, aborted, snapshot_requested>>

SegmentStat(i) == StatAs(i, data[i])

\* Where the segment keeps an inode below its staging directory; an empty path
\* is that directory, which stands for the root.
StagedAt(i) == IF i \in toa.found THEN Path[i] ELSE Path[Root]

\* A file cannot be created where there is a directory, nor the other way round.
Blocked(i) ==
    \/ i \notin Dirs /\ StagedAt(i) = Path[Root]
    \/ \E j \in Inode : /\ toa.staged[j] # Absent
                        /\ StagedAt(j) = StagedAt(i)
                        /\ (j \in Dirs) # (i \in Dirs)

\* readFile opens the file, of the size of version v now, and reads as many bytes
\* as the stat said.  What it copies may be torn if the file has changed since,
\* and is whatever the buffer holds if the file has gone, because its status is
\* ignored.  A directory is only made.
Copied(i, v) ==
    {data[i] : x \in {i} \cap (kvs \cup Dirs)}
        \cup {Wrong : x \in {y \in {i} \ Dirs :
                               \/ y \notin kvs
                               \/ toa.seen # data[y] \/ v # data[y]
                               \/ IOErrors}}

\* CopyFile truncates what an earlier inode with the same path left there.
Overwritten(j, i, v) ==
    IF j = i THEN v
    ELSE IF toa.staged[j] # Absent /\ i \notin Dirs /\ StagedAt(j) = StagedAt(i)
    THEN IF v = Created THEN Created ELSE Wrong
    ELSE toa.staged[j]

\* The rest of Add: the copy is made and listed, or something on the way fails.
AddAs(size) ==
    /\ toa.pc = "add"
    /\ LET i == toa.inode
           back == [toa EXCEPT !.pc = "copy", !.inode = Root, !.seen = Absent]
       IN  \/ /\ ~Blocked(i)
              /\ \E v \in Copied(i, size) :
                    toa' = [back EXCEPT !.staged =
                               [j \in Inode |-> Overwritten(j, i, v)]]
           \/ (Blocked(i) \/ IOErrors) /\ toa' = back
    /\ toaFrame
    /\ UNCHANGED <<index, tiered_out_xid, handed, aborted, snapshot_requested>>

SegmentAdd == AddAs(data[toa.inode])

\* An index that answers with the oldest segment, and one that forgets all but
\* the last.
SegmentCommitOldest ==
    /\ toa.pc = "copy"
    /\ toa.inodes = {}
    /\ index' = [i \in Inode |-> IF index[i] = Absent
                                 THEN toa.staged[i] ELSE index[i]]
    /\ toa' = [toa EXCEPT !.pc = "advance"]
    /\ toaFrame
    /\ UNCHANGED <<tiered_out_xid, handed, aborted, snapshot_requested>>

SegmentCommitOnlyLast ==
    /\ toa.pc = "copy"
    /\ toa.inodes = {}
    /\ index' = toa.staged
    /\ toa' = [toa EXCEPT !.pc = "advance"]
    /\ toaFrame
    /\ UNCHANGED <<tiered_out_xid, handed, aborted, snapshot_requested>>

\* Segment::Commit runs tar; only when it succeeds is the index updated.
SegmentCommit ==
    /\ toa.pc = "copy"
    /\ toa.inodes = {}
    /\ \/ index' = [i \in Inode |-> IF toa.staged[i] # Absent
                                    THEN toa.staged[i] ELSE index[i]]
       \/ IOErrors /\ UNCHANGED index
    /\ toa' = [toa EXCEPT !.pc = "advance"]
    /\ toaFrame
    /\ UNCHANGED <<tiered_out_xid, handed, aborted, snapshot_requested>>

\* set_tiered_out_xid(snapshot_end_xid), and no set_tiered_out_xid at all.
SnapshotAdvanceToEnd ==
    /\ toa.pc = "advance"
    /\ tiered_out_xid' = toa.end
    /\ toa' = [toa EXCEPT !.pc = "clear"]
    /\ toaFrame
    /\ UNCHANGED <<index, handed, aborted, snapshot_requested>>

SnapshotAdvanceNot ==
    /\ toa.pc = "advance"
    /\ toa' = [toa EXCEPT !.pc = IF tiered_out_xid < toa.end THEN "sample" ELSE "clear"]
    /\ toaFrame
    /\ UNCHANGED <<index, tiered_out_xid, handed, aborted, snapshot_requested>>

\* set_tiered_out_xid, whatever the persister returned, and the loop's test.
SnapshotAdvance ==
    /\ toa.pc = "advance"
    /\ tiered_out_xid' = toa.last
    /\ toa' = [toa EXCEPT !.pc = IF toa.last < toa.end THEN "sample" ELSE "clear"]
    /\ toaFrame
    /\ UNCHANGED <<index, handed, aborted, snapshot_requested>>

\* Back in RunInternal: the flag is cleared and the stop flag looked at.
SnapshotClear ==
    /\ toa.pc = "clear"
    /\ snapshot_requested' = FALSE
    /\ toa' = [toa EXCEPT !.pc = IF stop_requested THEN "done" ELSE "sleep"]
    /\ toaFrame
    /\ UNCHANGED <<index, tiered_out_xid, handed, aborted>>

\* while (stop_requested)
StopInverted ==
    /\ toa.pc = "sleep"
    /\ ~snapshot_requested
    /\ ~stop_requested
    /\ toa' = [toa EXCEPT !.pc = "done"]
    /\ toaFrame
    /\ UNCHANGED <<index, tiered_out_xid, handed, aborted, snapshot_requested>>

\* The agent wakes up to no request, with the stop flag set.
Stop ==
    /\ toa.pc = "sleep"
    /\ ~snapshot_requested
    /\ stop_requested
    /\ toa' = [toa EXCEPT !.pc = "done"]
    /\ toaFrame
    /\ UNCHANGED <<index, tiered_out_xid, handed, aborted, snapshot_requested>>

AgentStep ==
    \/ SnapshotBegin \/ SnapshotSample \/ SnapshotRead \/ GetPaths
    \/ \E i \in Inode : SegmentStat(i)
    \/ SegmentAdd \/ SegmentCommit \/ SnapshotAdvance \/ SnapshotClear \/ Stop

FuseStep ==
    \/ \E op \in Ops, i \in Inode : Handler(op, i)
    \/ \E op \in FailOps : HandlerFails(op)
    \/ HandlerAppends
    \/ \E i \in Forgets : Forget(i)

WebStep == RequestSnapshot \/ SnapshotReply \/ RequestStop

Next == AgentStep \/ FuseStep \/ WebStep

Spec == Init /\ [][Next]_vars

\* The agent's thread is scheduled again and again, a handler that has begun
\* finishes, and a web request is answered.
Fairness ==
    /\ WF_vars(AgentStep)
    /\ WF_vars(HandlerAppends)
    /\ WF_vars(SnapshotReply)

FairSpec == Spec /\ Fairness
---------------------------------------------------------------------------
(* Properties *)

TypeOK ==
    /\ LogTypeOK
    /\ data \in [Inode -> Nat]
    /\ kvs \subseteq Inode
    /\ named \subseteq Inode
    /\ index \in [Inode -> Nat]
    /\ tiered_out_xid \in 0 .. MaxXid
    /\ handed \subseteq 1 .. MaxXid
    /\ snapshot_requested \in BOOLEAN
    /\ stop_requested \in BOOLEAN
    /\ aborted \in {"no", "batch", "size", "state"}
    /\ toa \in [pc : {"sleep", "sample", "read", "paths", "copy", "add",
                      "advance", "clear", "done"},
                end : 0 .. MaxXid, next : 0 .. MaxXid + 1, last : 0 .. MaxXid,
                inodes : SUBSET Inode, found : SUBSET Inode, inode : Inode,
                seen : Nat, staged : [Inode -> Nat]]
    /\ web \in [pc : {"idle", "reply"}, snap_end : 0 .. MaxXid]

\* Every entry up to tiered_out_xid has been handed to the persister, whatever
\* gaps the xids have: Snapshot never moves the pointer past an entry that
\* Read did not give it.
TieredWasHanded ==
    \A k \in 1 .. Len(log_deque) :
        log_deque[k].xid <= tiered_out_xid => log_deque[k].xid \in handed

\* A change to the inode was made after xid x: its handler has still to append
\* it, or its entry is past x.  A change is pending when tiered_out_xid has not
\* reached it.
ChangedAfter(x, i) ==
    \/ fuse.pc # "idle" /\ fuse.inode = i
    \/ \E k \in 1 .. Len(log_deque) : log_deque[k].inode = i /\ log_deque[k].xid > x

Pending(i) == ChangedAfter(tiered_out_xid, i)

\* "tiered out changes up to this xid" (fs_change_log.h:101): a file changed
\* since the mount, all of whose changes are at or before tiered_out_xid, can
\* be restored from the index with its present contents, although it is copied
\* live, while FUSE goes on writing.  A file below a directory that is gone has
\* no path to restore it to.
TieredIsCurrent ==
    \A k \in 1 .. Len(log_deque) :
        LET i == log_deque[k].inode
        IN  HasPath(i) => Pending(i) \/ index[i] = data[i]

\* The same of the files that a directory lists under their path, which is where
\* a client would look for them: also when a file of that name was unlinked
\* before and is still open.
ListedIsCurrent ==
    \A k \in 1 .. Len(log_deque) :
        LET i == log_deque[k].inode
        IN  HasPath(i) /\ i \in named => Pending(i) \/ index[i] = data[i]

\* The rest of the inductive invariant.  The agent's pointers are xids of
\* entries, so that a new entry is past both.
Logged(x) == x = 0 \/ \E k \in 1 .. Len(log_deque) : log_deque[k].xid = x

InBatch == toa.pc \in {"paths", "copy", "add", "advance"}

\* While a batch is being persisted, everything up to its end is handed over.
BatchWasHanded ==
    InBatch => \A k \in 1 .. Len(log_deque) :
                    log_deque[k].xid <= toa.last => log_deque[k].xid \in handed

HandedInv ==
    /\ LogInv
    /\ TypeOK
    /\ Logged(tiered_out_xid) /\ Logged(toa.last)
    /\ TieredWasHanded
    /\ BatchWasHanded

\* The version of a file that the index has once the batch is committed.
Upcoming(i) == IF toa.pc \in {"copy", "add"} /\ toa.staged[i] # Absent
               THEN toa.staged[i] ELSE index[i]

ToCopy == toa.inodes \cup IF toa.pc = "add" THEN {toa.inode} ELSE {}

\* No two inodes ever have the same path.
OwnPaths == \A i, j \in Inode : Path[i] = Path[j] => i = j

\* What the batch has still to copy, FUSE has changed again, or else its newest
\* copy, staged or committed, is current.
BatchIsCurrent ==
    InBatch => \A k \in 1 .. Len(log_deque) :
        LET i == log_deque[k].inode
        IN  HasPath(i) => \/ ChangedAfter(toa.last, i)
                          \/ i \in ToCopy
                          \/ Upcoming(i) = data[i]

\* What the batch has still to copy, and can be found by its path, has been, and
\* so have the files that it has copied.
BatchIsFound ==
    toa.pc \in {"copy", "add"} =>
        /\ \A i \in ToCopy :
                HasPath(i) => ChangedAfter(toa.last, i) \/ i \in toa.found
        /\ \A i \in Inode \ Dirs : toa.staged[i] # Absent => i \in toa.found

\* No copy is newer than its file, until that is gone, and only one that FUSE has
\* overtaken is replaced by an older one.
CopiesInOrder ==
    \A i \in Inode :
        /\ data[i] = Absent => index[i] = Absent
        /\ i \in kvs \/ data[i] = Absent => Upcoming(i) <= data[i]
        /\ i \in kvs => Pending(i) \/ index[i] <= Upcoming(i)

\* A file that has changed since its stat is one that FUSE has overtaken.
SeenIsCurrent ==
    toa.pc = "add" =>
        LET i == toa.inode
        IN  /\ data[i] # Absent
            /\ \/ toa.seen = data[i]
               \/ ChangedAfter(toa.last, i) /\ Pending(i)

CurrentInv ==
    /\ HandedInv
    /\ \A i \in kvs : \A j \in {i} \cup Above[i] : data[j] # Absent
    /\ toa.pc = "paths" => toa.staged = NoFiles
    /\ toa.pc = "advance" => toa.inodes = {}
    /\ CopiesInOrder
    /\ TieredIsCurrent
    /\ BatchIsCurrent
    /\ BatchIsFound
    /\ SeenIsCurrent

\* The files for which tiered_out_xid promises nothing: gone, without a path,
\* not changed since the mount, or pending.
Unsettled ==
    {i \in Inode : \/ ~HasPath(i)
                   \/ Pending(i)
                   \/ \A k \in 1 .. Len(log_deque) : log_deque[k].inode # i}

\* A file that is gone needs no copy.
Copies == [i \in Inode |-> IF i \in kvs THEN index[i] ELSE Absent]

Store == INSTANCE TieredStore
            WITH File <- Inode, contents <- data, copy <- Copies,
                 unsettled <- Unsettled

\* The agents and the FUSE thread together implement the abstract store: the
\* pointer settles a file only when its newest copy is current, whatever FUSE
\* wrote meanwhile, and the copy of a settled file stays current while it is
\* copied again.
ImplementsStore == Store!StoreSpec

\* A snapshot that has found something to copy comes to its end; main() waits
\* for that in Join.
SnapshotEnds == toa.pc = "paths" ~> Alive /\ toa.pc \in {"sleep", "done"}

\* "If we have an error and don't end up adding a log entry, no harm"
\* (kvfs_mount.cc:452): a snapshot comes to an end all the same, or at least
\* the process does.
GapsDoNoHarm == toa.pc = "paths" ~> ~Alive \/ toa.pc \in {"sleep", "done"}

\* A requested stop is obeyed: Join returns.
StopHonoured == stop_requested ~> ~Alive \/ toa.pc = "done"

\* A client that was told a log_last_xid by /SNAP sees tiered_out_xid reach it
\* (02_snapshot_0.sh:21), unless the agent stops or the client asks anew.
SnapshotHonoured ==
    \A x \in 1 .. MaxXid :
        web = [pc |-> "idle", snap_end |-> x]
            ~> \/ tiered_out_xid >= x
               \/ web.snap_end # x
               \/ ~Alive
               \/ toa.pc = "done"

\* assert(log_entries.back().has_xid()) holds whenever it is reached: the agent
\* never reads an empty batch.
BatchNeverEmpty == aborted # "batch"
=============================================================================

--------------------------- MODULE EvictionAgent ---------------------------
(***************************************************************************)
(* The eviction agent (src/tiering/eviction_agent.cc) added to the FUSE,   *)
(* web and tiering-out threads of TieringOutAgent, with the eviction state *)
(* of a file and its un-eviction by whoever reads it (KVFSFile.cc).        *)
(*                                                                         *)
(* "data" is now what the chunks in the KVS hold, Wrong when they are      *)
(* gone, and "want" what the last change through FUSE left in the file.    *)
(* Of an inode's metadata there are the eviction state and the size, given *)
(* as a version that has it.  It is held in the KVS, in the FuseKvfsInode  *)
(* that the FUSE thread and this agent share, and in the LogFSFile that    *)
(* the tiering-out agent opens, and always saved and loaded as a whole.    *)
(***************************************************************************)
EXTENDS TieringOutAgent

CONSTANTS
    NoInode,    \* stands for no inode
    WriteOnce,  \* TRUE when a file is not changed once a snapshot took it
    Overlap     \* what may run while the agent evicts: snapshots, reads, and
                \* the handlers that load the inode anew, Setattr and Link

ASSUME EvictionConstants ==
    /\ NoInode \notin Inode
    /\ WriteOnce \in BOOLEAN
    /\ Overlap \subseteq {"snapshot", "read", "reload"}

VARIABLES
    want,
    meta,                \* inode -> [evicted, size] in the KVS
    mem,                 \* the same in the FuseKvfsInode,
    state,               \* and whether that is to be loaded before its next use
    sizes,               \* the sizes of the copies, staged and in the index
    eviction_next_xid,   \* "next to consider for eviction"
    eviction_requested,  \* set by /EVICT, cleared by the agent
    ea,                  \* the eviction thread
    rd,                  \* the read handler of the FUSE thread
    hold                 \* the file the tiering-out agent has open for reading

fileVars == <<want, meta, mem, state>>
copyVars == <<hold, sizes>>
evictVars == <<eviction_next_xid, eviction_requested, ea>>
allVars == <<vars, fileVars, copyVars, evictVars, rd>>

NotReading == [pc |-> "idle", inode |-> NoInode, size |-> Absent, copy |-> Absent]
NotOpen    == [pc |-> "closed", meta |-> [evicted |-> FALSE, size |-> Absent]]

\* Files may have been evicted in earlier mounts, with a current copy.  No inode
\* is in memory yet.  Copies of directories are never looked for and left out.
EvictInit ==
    /\ MountInit
    /\ \A i \in Dirs : index[i] = Absent
    /\ WriteOnce => \A i \in Inode : index[i] \in {Absent, Mounted[i]}
    /\ want = Mounted
    /\ \E E \in SUBSET {i \in Existing \ Dirs : index[i] = Mounted[i]} :
            /\ meta = [i \in Inode |-> [evicted |-> i \in E, size |-> Mounted[i]]]
            /\ data = [i \in Inode |-> IF i \in E THEN Wrong ELSE Mounted[i]]
    /\ mem = meta
    /\ state = [i \in Inode |-> "none"]
    /\ sizes = [staged |-> NoFiles, index |-> index]
    /\ eviction_next_xid = 0
    /\ eviction_requested = FALSE
    /\ ea = [pc |-> "sleep", next |-> 0, last |-> 0, inodes |-> {}, inode |-> NoInode]
    /\ rd = NotReading
    /\ hold = NotOpen

---------------------------------------------------------------------------
(* Loading an inode, and bringing evicted data back *)

\* Refresh: the inode in memory is loaded from the KVS if it is not valid.
Fresh(i) == IF state[i] = "CLEAN" THEN mem[i] ELSE meta[i]

\* What a handler leaves in memory.
Holds(i, m) ==
    /\ mem' = [mem EXCEPT ![i] = m]
    /\ state' = [state EXCEPT ![i] = "CLEAN"]

Saves(i, m) == meta' = [meta EXCEPT ![i] = m]

\* UnEvict opens the newest copy, if there is one.  An assertion does not survive
\* a copy of another size than the inode's; versions may be of one size.
HasCopy(i)          == index[i] # Absent
SizeMayDiffer(i, m) == HasCopy(i) /\ sizes.index[i] # m.size

AbortsOnSize ==
    /\ aborted' = "size"
    /\ UNCHANGED <<logVars, storeVars, index, tiered_out_xid, handed, toa,
                   webVars, flagVars, fileVars, copyVars, evictVars, rd>>

---------------------------------------------------------------------------
(* The FUSE thread *)

fuseFrame == UNCHANGED <<toaVars, webVars, flagVars, evictVars, copyVars, rd>>

\* The workload assumed when WriteOnce holds.
MayChange(i) ==
    WriteOnce => /\ index[i] = Absent /\ toa.staged[i] = Absent
                 /\ i \notin toa.inodes /\ ~(toa.pc = "add" /\ toa.inode = i)

\* Create and Mkdir
FileCreate(i) ==
    /\ want[i] = Absent
    /\ Creates(i)
    /\ want' = [want EXCEPT ![i] = Created]
    /\ data' = [data EXCEPT ![i] = Created]
    /\ LET m == [evicted |-> FALSE, size |-> Created] IN Holds(i, m) /\ Saves(i, m)

\* A change of contents on top of metadata m, which is saved with the new size:
\* it may or may not replace what is left of a file whose data is not all there,
\* and a size that was wrong may stay so.  Nothing asks whether the data is
\* resident.
FileChange(i, m) ==
    /\ i \in kvs
    /\ MayChange(i)
    /\ want' = [want EXCEPT ![i] = @ + 1]
    /\ \E d \in {want[i] + 1} \cup ({data[i]} \ {want[i]}) :
            data' = [data EXCEPT ![i] = d]
    /\ \E s \in {want[i] + 1} \cup ({m.size} \ {want[i]}) :
            LET n == [m EXCEPT !.size = s] IN Holds(i, n) /\ Saves(i, n)
    /\ UNCHANGED <<kvs, named>>

\* Setattr without a size: the inode is loaded, and nothing is saved.
FileSetAttr(i) ==
    /\ i \in kvs
    /\ Holds(i, meta[i])
    /\ UNCHANGED <<want, data, kvs, named, meta>>

\* Link saves the inode and leaves it to be loaded again; Unlink and Rmdir touch
\* only the directory.
FileNames(op, i) ==
    /\ Names(op, i)
    /\ IF op = "LINK"
       THEN /\ mem' = [mem EXCEPT ![i] = Fresh(i)]
            /\ Saves(i, Fresh(i))
            /\ state' = [state EXCEPT ![i] = "INVALID"]
       ELSE UNCHANGED <<mem, meta, state>>
    /\ UNCHANGED <<want, data>>

\* SetSize always loads the inode, Write when it is not valid.
FileHandler(op, i) ==
    /\ Alive
    /\ rd.pc = "idle"
    /\ Suits(op, i)
    /\ op \in {"SETATTR", "LINK"} => ea.pc = "sleep" \/ "reload" \in Overlap
    /\ Begin(op, i)
    /\ \/ op = "CREAT" /\ FileCreate(i)
       \/ op = "SETATTR" /\ (FileChange(i, meta[i]) \/ FileSetAttr(i))
       \/ op = "COMMIT" /\ FileChange(i, Fresh(i))
       \/ op \in {"LINK", "UNLINK", "RMDIR"} /\ FileNames(op, i)
    /\ fuseFrame

unlogged == Alive /\ fuse.pc = "idle" /\ rd.pc = "idle" /\ UNCHANGED logVars

\* Flush, at every close of a file: the inode in memory is saved as it is, and
\* the process aborts when that is not valid.
FileFlush(i) ==
    /\ unlogged
    /\ i \in kvs \ Dirs
    /\ \/ state[i] = "CLEAN" /\ Saves(i, mem[i]) /\ UNCHANGED aborted
       \/ state[i] = "INVALID" /\ aborted' = "state" /\ UNCHANGED meta
    /\ UNCHANGED <<storeVars, index, tiered_out_xid, handed, toa, webVars, flagVars,
                   want, mem, state, copyVars, evictVars, rd>>

\* Lookup and Getattr
FileStat(i) ==
    /\ unlogged
    /\ i \in kvs \ Dirs
    /\ Holds(i, Fresh(i))
    /\ UNCHANGED <<storeVars, want, meta>>
    /\ fuseFrame

\* The rest of a handler, as without eviction.
FuseRest ==
    /\ rd.pc = "idle"
    /\ \/ \E op \in FailOps : HandlerFails(op)
       \/ HandlerAppends
       \/ \E i \in Forgets : Forget(i)
    /\ UNCHANGED <<fileVars, copyVars, evictVars, rd>>

readFrame == Alive /\ UNCHANGED <<logVars, kvs, named, webVars, flagVars, want,
                                 evictVars, copyVars>>

\* Read limits its length to the size and, in HoldData, asks whether the data is
\* resident.
ReadBegins(i) ==
    /\ fuse.pc = "idle"
    /\ rd.pc = "idle"
    /\ ea.pc = "sleep" \/ "read" \in Overlap
    /\ i \in kvs \ Dirs

\* A read without HoldData.
ReadUnheld(i) ==
    /\ ReadBegins(i)
    /\ Holds(i, Fresh(i))
    /\ rd' = [rd EXCEPT !.pc = "copy", !.inode = i, !.size = Fresh(i).size]
    /\ readFrame
    /\ UNCHANGED <<toaVars, data, meta>>

\* Data that is not resident is written back from the newest copy; without a
\* copy UnEvict gives up and the read goes on.
ReadHold(i) ==
    /\ Alive
    /\ ReadBegins(i)
    /\ LET m == Fresh(i)
       IN  \/ m.evicted /\ SizeMayDiffer(i, m) /\ AbortsOnSize
          \/ /\ Holds(i, m)
             /\ rd' = [rd EXCEPT !.pc = IF m.evicted /\ HasCopy(i) THEN "flush" ELSE "copy",
                                 !.inode = i, !.size = m.size]
             /\ data' = [data EXCEPT ![i] = IF m.evicted /\ HasCopy(i) THEN index[i] ELSE @]
             /\ readFrame
             /\ UNCHANGED <<toaVars, meta>>

\* ... then the inode is marked resident and saved.
ReadFlush ==
    /\ rd.pc = "flush"
    /\ LET m == [mem[rd.inode] EXCEPT !.evicted = FALSE]
       IN  /\ mem' = [mem EXCEPT ![rd.inode] = m]
           /\ Saves(rd.inode, m)
    /\ rd' = [rd EXCEPT !.pc = "copy"]
    /\ readFrame
    /\ UNCHANGED <<toaVars, data, state>>

\* The chunks are copied out, as far as the size went: this is what the client
\* gets.
ReadCopy ==
    /\ rd.pc = "copy"
    /\ \E v \in {data[rd.inode]} \cup {Wrong : s \in {rd.size} \ {data[rd.inode]}} :
            rd' = [rd EXCEPT !.pc = "reply", !.copy = v]
    /\ readFrame
    /\ UNCHANGED <<toaVars, data, meta, mem, state>>

ReadReply ==
    /\ rd.pc = "reply"
    /\ rd' = NotReading
    /\ readFrame
    /\ UNCHANGED <<toaVars, data, meta, mem, state>>

---------------------------------------------------------------------------
(* The tiering-out agent: reading an evicted file for a segment brings its  *)
(* data back too, through a LogFSFile of its own.                           *)

\* Segment::Add knows the size from the metadata.
SegmentStats(i) ==
    /\ StatAs(i, meta[i].size)
    /\ UNCHANGED <<fileVars, copyVars, evictVars, rd>>

\* readFile loads the file's metadata, if it is still there.
Opening ==
    /\ Alive
    /\ toa.pc = "add"
    /\ toa.inode \in kvs \ Dirs
    /\ hold.pc = "closed"
    /\ UNCHANGED <<logVars, kvs, named, webVars, flagVars, fileVars, sizes,
                   evictVars, rd>>

\* CopyFile on a file that it does not bring back first.
SegmentUnheld ==
    /\ Opening
    /\ hold' = [pc |-> "open", meta |-> meta[toa.inode]]
    /\ UNCHANGED <<toaVars, data>>

\* Data that is not resident is written back from the newest copy ...
SegmentHold ==
    LET i == toa.inode
        m == meta[i]
        restores == m.evicted /\ HasCopy(i)
    IN  /\ Opening
        /\ \/ /\ hold' = [pc |-> IF restores THEN "flush" ELSE "open", meta |-> m]
              /\ data' = [data EXCEPT ![i] = IF restores THEN index[i] ELSE @]
              /\ UNCHANGED toaVars
           \/ /\ m.evicted /\ SizeMayDiffer(i, m)
              /\ AbortsOnSize

\* ... and the metadata saved as it was loaded, but resident, over whatever the
\* other threads have saved since, even if the inode is gone by now.
SegmentFlush ==
    /\ Alive
    /\ hold.pc = "flush"
    /\ LET m == [hold.meta EXCEPT !.evicted = FALSE]
       IN  Saves(toa.inode, m) /\ hold' = [pc |-> "open", meta |-> m]
    /\ kvs' = kvs \cup {toa.inode}
    /\ UNCHANGED <<logVars, data, named, toaVars, webVars, flagVars, want, mem,
                   state, sizes, evictVars, rd>>

\* Whatever the chunks hold by now goes into the segment, as many bytes as the
\* stat told.
SegmentCopy ==
    /\ hold.pc = "open" \/ toa.inode \notin kvs \ Dirs
    /\ hold.pc # "flush"
    /\ AddAs(IF hold.pc = "open" THEN hold.meta.size ELSE toa.seen)
    /\ hold' = NotOpen
    /\ sizes' = [sizes EXCEPT !.staged =
                    [j \in Inode |-> IF toa'.staged[j] = toa.staged[j]
                                     THEN @[j] ELSE toa.seen]]
    /\ UNCHANGED <<fileVars, evictVars, rd>>

SegmentCommits ==
    /\ SegmentCommit
    /\ sizes' = [staged |-> NoFiles,
                 index |-> [i \in Inode |-> IF toa.staged[i] \in {index'[i]} \ {Absent}
                                            THEN sizes.staged[i] ELSE sizes.index[i]]]
    /\ UNCHANGED <<hold, fileVars, evictVars, rd>>

SegmentSteps ==
    /\ \/ SnapshotBegin /\ (ea.pc = "sleep" \/ "snapshot" \in Overlap)
       \/ SnapshotSample \/ SnapshotRead \/ GetPaths
       \/ SnapshotAdvance \/ SnapshotClear \/ Stop
    /\ UNCHANGED <<fileVars, copyVars, evictVars, rd>>

WebRest ==
    /\ WebStep
    /\ UNCHANGED <<fileVars, copyVars, evictVars, rd>>

RequestEviction ==
    /\ Alive
    /\ "/EVICT" \in WebEvents
    /\ ~eviction_requested
    /\ eviction_requested' = TRUE
    /\ UNCHANGED <<vars, fileVars, copyVars, eviction_next_xid, ea, rd>>

---------------------------------------------------------------------------
(* The eviction agent *)

eaFrame == Alive /\ UNCHANGED <<logVars, named, toaVars, webVars, flagVars, want,
                               copyVars, rd>>

\* ProcessEvictions starts on the entries up to some xid, and Read loads
\* next_xid.
EvictBeginUpTo(last) ==
    /\ ea.pc = "sleep"
    /\ eviction_requested
    /\ toa.pc \in {"sleep", "done"} \/ "snapshot" \in Overlap
    /\ rd.pc = "idle" \/ "read" \in Overlap
    /\ ea' = [ea EXCEPT !.pc = "read", !.last = last, !.next = next_xid]
    /\ eaFrame
    /\ UNCHANGED <<kvs, data, meta, mem, state, eviction_next_xid,
                   eviction_requested>>

EvictBeginShort == EvictBeginUpTo(tiered_out_xid - 1)

\* It loads tiered_out_xid once: snapshots may move it on meanwhile.
EvictBegin == EvictBeginUpTo(tiered_out_xid)

EvictBatch ==
    ReadAt(IF AtomicRead THEN next_xid ELSE ea.next, eviction_next_xid, ea.last)

EvictRead ==
    /\ ea.pc = "read"
    /\ ea' = [ea EXCEPT !.pc = "consider",
                        !.inodes = InodesOf(EvictBatch),
                        !.last = IF EvictBatch = <<>> THEN @
                                 ELSE EvictBatch[Len(EvictBatch)].xid]
    /\ eaFrame
    /\ UNCHANGED <<kvs, data, meta, mem, state, eviction_next_xid,
                   eviction_requested>>

\* Every inode of the batch is looked at, which loads it.  It is passed over when
\* it is gone, a directory, or changed too recently (which the clock decides).
EvictSkip(i) ==
    /\ ea.pc = "consider"
    /\ i \in ea.inodes
    /\ IF i \in kvs THEN Holds(i, Fresh(i)) ELSE UNCHANGED <<mem, state>>
    /\ ea' = [ea EXCEPT !.inodes = @ \ {i}]
    /\ eaFrame
    /\ UNCHANGED <<kvs, data, meta, eviction_next_xid, eviction_requested>>

\* Evict: stat loads the inode from the KVS once more ...
EvictStat(i) ==
    /\ ea.pc = "consider"
    /\ i \in (ea.inodes \cap kvs) \ Dirs
    /\ Holds(i, meta[i])
    /\ ea' = [ea EXCEPT !.pc = "drop", !.inode = i, !.inodes = @ \ {i}]
    /\ eaFrame
    /\ UNCHANGED <<kvs, data, meta, eviction_next_xid, eviction_requested>>

\* ... ResizeData removes every chunk (an empty file has none) ...
EvictDrop ==
    /\ ea.pc = "drop"
    /\ data' = [data EXCEPT ![ea.inode] =
                   IF Created \in {@, mem[ea.inode].size} THEN @ ELSE Wrong]
    /\ ea' = [ea EXCEPT !.pc = "mark"]
    /\ eaFrame
    /\ UNCHANGED <<kvs, meta, mem, state, eviction_next_xid, eviction_requested>>

\* ... the inode in memory is marked evicted ...
EvictMark ==
    /\ ea.pc = "mark"
    /\ mem' = [mem EXCEPT ![ea.inode].evicted = TRUE]
    /\ ea' = [ea EXCEPT !.pc = "save"]
    /\ eaFrame
    /\ UNCHANGED <<kvs, data, meta, state, eviction_next_xid, eviction_requested>>

\* ... and what memory holds by now is saved, even if the inode is gone.
EvictSave ==
    /\ ea.pc = "save"
    /\ Saves(ea.inode, mem[ea.inode])
    /\ kvs' = kvs \cup {ea.inode}
    /\ ea' = [ea EXCEPT !.pc = "consider", !.inode = NoInode]
    /\ eaFrame
    /\ UNCHANGED <<data, mem, state, eviction_next_xid, eviction_requested>>

\* set_eviction_next_xid; RunInternal clears the request.
EvictDone ==
    /\ ea.pc = "consider"
    /\ ea.inodes = {}
    /\ eviction_next_xid' = ea.last + 1
    /\ eviction_requested' = FALSE
    /\ ea' = [ea EXCEPT !.pc = "sleep"]
    /\ eaFrame
    /\ UNCHANGED <<kvs, data, meta, mem, state>>

EvictStep ==
    \/ EvictBegin \/ EvictRead \/ EvictDrop \/ EvictMark \/ EvictSave \/ EvictDone
    \/ \E i \in Inode : EvictSkip(i) \/ EvictStat(i)

EvictNext ==
    \/ \E op \in Ops, i \in Inode : FileHandler(op, i)
    \/ FuseRest
    \/ \E i \in Inode : FileFlush(i) \/ FileStat(i) \/ ReadHold(i)
    \/ ReadFlush \/ ReadCopy \/ ReadReply
    \/ \E i \in Inode : SegmentStats(i)
    \/ SegmentHold \/ SegmentFlush \/ SegmentCopy \/ SegmentCommits
    \/ SegmentSteps
    \/ WebRest \/ RequestEviction
    \/ EvictStep

EvictSpec == EvictInit /\ [][EvictNext]_allVars
---------------------------------------------------------------------------
(* Properties *)

Metadata == [evicted : BOOLEAN, size : Nat]

EvictTypeOK ==
    /\ TypeOK
    /\ want \in [Inode -> Nat]
    /\ meta \in [Inode -> Metadata]
    /\ mem \in [Inode -> Metadata]
    /\ state \in [Inode -> {"none", "INVALID", "CLEAN"}]
    /\ sizes \in [staged : [Inode -> Nat], index : [Inode -> Nat]]
    /\ eviction_next_xid \in 0 .. MaxXid + 1
    /\ eviction_requested \in BOOLEAN
    /\ ea \in [pc : {"sleep", "read", "consider", "drop", "mark", "save"},
               next : 0 .. MaxXid + 1, last : 0 .. MaxXid,
               inodes : SUBSET Inode, inode : Inode \cup {NoInode}]
    /\ rd \in [pc : {"idle", "flush", "copy", "reply"},
               inode : Inode \cup {NoInode}, size : Nat, copy : Nat]
    /\ hold \in [pc : {"closed", "flush", "open"}, meta : Metadata]


\* The last contents written to a file exist somewhere: in the KVS or in the
\* newest copy.
NothingLost ==
    \A i \in kvs : data[i] = want[i] \/ index[i] = want[i]

\* What a client reads is what was last written (03_eviction_0.sh:160 compares).
ReadsLastWrite == rd.pc = "reply" => rd.copy = want[rd.inode]
=============================================================================

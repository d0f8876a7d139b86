----------------------- MODULE TieringOutAgentProofs -----------------------
(***************************************************************************)
(* Tiering out, for any files, workload, batch size and number of xids.    *)
(***************************************************************************)
EXTENDS TieringOutAgent, FsChangeLogProofs

\* Every step of the three threads is a step of the log's writer, or leaves
\* the log alone.
LEMMA NextIsLogNext == [Next]_vars => [LogNext]_logVars
  <1> SUFFICES ASSUME [Next]_vars PROVE [LogNext]_logVars
    OBVIOUS
  <1>1. CASE AgentStep
    BY <1>1 DEF AgentStep, toaFrame, SnapshotBegin, SnapshotSample, SnapshotRead,
       GetPaths, SegmentStat, StatAs, SegmentAdd, AddAs, SegmentCommit, SnapshotAdvance,
       SnapshotClear, Stop
  <1>2. CASE FuseStep
    BY <1>2 DEF FuseStep, Handler, HandlerFails, HandlerAppends, Forget, LogNext
  <1>3. CASE WebStep
    BY <1>3 DEF WebStep, RequestSnapshot, SnapshotReply, RequestStop
  <1>4. CASE UNCHANGED vars
    BY <1>4 DEF vars
  <1> QED
    BY <1>1, <1>2, <1>3, <1>4 DEF Next

\* get_last_xid is 0 or the xid of an entry.
LEMMA LastXidLogged ==
    ASSUME LogInv
    PROVE  /\ get_last_xid \in 0 .. MaxXid
           /\ Logged(get_last_xid)
           /\ \A k \in 1 .. Len(log_deque) : log_deque[k].xid <= get_last_xid
  <1>1. /\ log_deque \in Seq(Entry) /\ Len(log_deque) \in Nat
        /\ \A k \in 1 .. Len(log_deque) : log_deque[k].xid \in 1 .. MaxXid
    <2>1. log_deque \in Seq(Entry)
      BY DEF LogInv, LogTypeOK
    <2>2. \A e \in Entry : e.xid \in 1 .. MaxXid
      BY DEF Entry
    <2> QED
      BY <2>1, <2>2
  <1>2. CASE log_deque = <<>>
    BY <1>1, <1>2, LogConstants DEF get_last_xid, Logged
  <1>3. CASE log_deque # <<>>
    <2>1. Len(log_deque) \in 1 .. Len(log_deque)
      BY <1>1, <1>3
    <2>2. get_last_xid = log_deque[Len(log_deque)].xid
      BY <1>3 DEF get_last_xid
    <2>3. \A k \in 1 .. Len(log_deque) : log_deque[k].xid <= get_last_xid
      <3> SUFFICES ASSUME NEW k \in 1 .. Len(log_deque)
                   PROVE  log_deque[k].xid <= log_deque[Len(log_deque)].xid
        BY <2>2
      <3>1. CASE k = Len(log_deque)
        BY <3>1, <1>1, <2>1, LogConstants
      <3>2. CASE k < Len(log_deque)
        <4>1. log_deque[k].xid < log_deque[Len(log_deque)].xid
          BY <3>2, <2>1 DEF LogInv, StrictlyIncreasing
        <4>2. log_deque[k].xid \in Int /\ log_deque[Len(log_deque)].xid \in Int
          BY <2>1, Numbers DEF LogInv
        <4> QED
          BY <4>1, <4>2
      <3> QED
        BY <1>1, <3>1, <3>2
    <2> QED
      BY <1>1, <2>1, <2>2, <2>3, LogConstants DEF Logged
  <1> QED
    BY <1>2, <1>3

\* A batch is a sequence of entries of the log, torn or not.
LEMMA BatchElements ==
    ASSUME TypeOK
    PROVE  /\ Batch \in Seq(Entry)
           /\ \A m \in 1 .. Len(Batch) :
                 \E k \in 1 .. Len(log_deque) : Batch[m] = log_deque[k]
  <1> DEFINE n     == IF AtomicRead THEN next_xid ELSE toa.next
             first == tiered_out_xid + 1
             last  == Min2(first + MaxXidPerSegment, toa.end)
             lo    == FirstIndex(n, first)
             hi    == LastIndex(n, last)
  <1>1. log_deque \in Seq(Entry) /\ Len(log_deque) \in Nat
    BY DEF TypeOK, LogTypeOK
  <1>2. n \in Int
    <2>1. next_xid \in Int /\ toa.next \in Int
      BY LogConstants DEF TypeOK, LogTypeOK
    <2> QED
      BY <2>1
  <1>3. first \in Int /\ last \in Int
    BY LogConstants, ToaConstants DEF TypeOK, Min2
  <1> HIDE DEF n, first, last
  <1>4. lo \in Nat /\ hi \in Int /\ hi < Len(log_deque)
    BY <1>1, <1>2, <1>3 DEF FirstIndex, LastIndex, ZerothXid, Max2, Min2
  <1>5. Batch = SubSeq(log_deque, lo + 1, hi + 1)
    BY DEF Batch, ReadAt, n, first, last
  <1> HIDE DEF lo, hi
  <1>6. /\ SubSeq(log_deque, lo + 1, hi + 1) \in Seq(Entry)
        /\ Len(SubSeq(log_deque, lo + 1, hi + 1)) = IF lo <= hi THEN hi - lo + 1 ELSE 0
        /\ \A m \in 1 .. Len(SubSeq(log_deque, lo + 1, hi + 1)) :
              SubSeq(log_deque, lo + 1, hi + 1)[m] = log_deque[lo + m]
    BY <1>1, <1>4
  <1>7. ASSUME NEW m \in 1 .. Len(Batch)
        PROVE  lo + m \in 1 .. Len(log_deque)
    <2>1. Len(Batch) # 0 /\ m \in Nat /\ m <= Len(Batch) /\ m # 0
      BY <1>5, <1>6
    <2>2. lo <= hi /\ m <= hi - lo + 1
      BY <2>1, <1>4, <1>5, <1>6
    <2> QED
      BY <1>1, <1>4, <2>1, <2>2
  <1> QED
    BY <1>5, <1>6, <1>7
---------------------------------------------------------------------------
(* Types *)

\* The mounted store and the idle threads have the types stated.
LEMMA InitTypeOK == Init => LogInv /\ TypeOK
  <1> SUFFICES ASSUME Init PROVE LogInv /\ TypeOK
    OBVIOUS
  <1>1. LogInv
    BY LogInitInv DEF Init, MountInit
  <1>2. /\ data \in [Inode -> Nat] /\ index \in [Inode -> Nat]
        /\ kvs \subseteq Inode /\ named \subseteq Inode
    BY LogConstants, ToaConstants DEF Init, MountInit, Mounted, Absent, Created
  <1>3. NoFiles \in [Inode -> Nat]
    BY DEF NoFiles, Absent
  <1>4. toa \in [pc : {"sleep", "sample", "read", "paths", "copy", "add",
                       "advance", "clear", "done"},
                 end : 0 .. MaxXid, next : 0 .. MaxXid + 1, last : 0 .. MaxXid,
                 inodes : SUBSET Inode, found : SUBSET Inode, inode : Inode,
                 seen : Nat, staged : [Inode -> Nat]]
    <2>1. toa = [pc |-> "sleep", end |-> 0, next |-> 0, last |-> 0,
                 inodes |-> {}, found |-> {}, inode |-> Root, seen |-> 0,
                 staged |-> NoFiles]
      BY DEF Init, MountInit, Absent
    <2>2. 0 \in Nat /\ 0 \in 0 .. MaxXid /\ 0 \in 0 .. MaxXid + 1 /\ Root \in Inode
      BY LogConstants
    <2> QED
      BY <1>3, <2>1, <2>2
  <1>5. /\ tiered_out_xid \in 0 .. MaxXid
        /\ web \in [pc : {"idle", "reply"}, snap_end : 0 .. MaxXid]
    BY LogConstants DEF Init, MountInit
  <1>6. /\ handed \subseteq 1 .. MaxXid
        /\ snapshot_requested \in BOOLEAN /\ stop_requested \in BOOLEAN
        /\ aborted \in {"no", "batch", "size", "state"}
    BY DEF Init, MountInit
  <1> QED
    BY <1>1, <1>2, <1>4, <1>5, <1>6 DEF TypeOK, LogInv

\* A step of the FUSE thread keeps the types.
LEMMA FuseTypeOK ==
    ASSUME LogInv, TypeOK, FuseStep, LogTypeOK'
    PROVE  TypeOK'
  <1>1. ASSUME NEW op \in Ops, NEW i \in Inode, Handler(op, i) PROVE TypeOK'
    <2>1. UNCHANGED <<index, tiered_out_xid, handed, aborted, toa, web,
                      snapshot_requested, stop_requested>>
      BY <1>1 DEF Handler, toaVars, webVars, flagVars
    <2>2. data' \in [Inode -> Nat] /\ kvs' \subseteq Inode /\ named' \subseteq Inode
      <3>1. CASE op = "CREAT"
        BY <1>1, <3>1 DEF Handler, Creates, TypeOK, Created
      <3>2. CASE op # "CREAT"
        BY <1>1, <3>2 DEF Handler, Names, TypeOK
      <3> QED
        BY <3>1, <3>2
    <2> QED
      BY <2>1, <2>2 DEF TypeOK
  <1>2. ASSUME NEW op \in FailOps, HandlerFails(op) PROVE TypeOK'
    BY <1>2 DEF TypeOK, HandlerFails, storeVars, toaVars, webVars, flagVars
  <1>3. CASE HandlerAppends
    BY <1>3 DEF TypeOK, HandlerAppends, storeVars, toaVars, webVars, flagVars
  <1>4. ASSUME NEW i \in Forgets, Forget(i) PROVE TypeOK'
    BY <1>4 DEF TypeOK, Forget, toaVars, webVars, flagVars
  <1> QED
    BY <1>1, <1>2, <1>3, <1>4 DEF FuseStep

\* A step of the web thread keeps the types.
LEMMA WebTypeOK ==
    ASSUME LogInv, TypeOK, WebStep, LogTypeOK'
    PROVE  TypeOK'
  <1>1. CASE RequestSnapshot
    BY <1>1 DEF TypeOK, RequestSnapshot, storeVars, toaVars
  <1>2. CASE SnapshotReply
    <2>1. web' \in [pc : {"idle", "reply"}, snap_end : 0 .. MaxXid]
      BY <1>2, LastXidLogged DEF SnapshotReply
    <2> QED
      BY <1>2, <2>1 DEF TypeOK, SnapshotReply, storeVars, toaVars, flagVars
  <1>3. CASE RequestStop
    BY <1>3 DEF TypeOK, RequestStop, storeVars, toaVars, webVars
  <1> QED
    BY <1>1, <1>2, <1>3 DEF WebStep

\* A step of the agent keeps the types: the batch it reads, and the pointers it
\* takes from it, come from the log.
LEMMA AgentTypeOK ==
    ASSUME LogInv, TypeOK, AgentStep, LogTypeOK'
    PROVE  TypeOK'
  <1> DEFINE PC  == {"sleep", "sample", "read", "paths", "copy", "add",
                     "advance", "clear", "done"}
             Toa == [pc : PC, end : 0 .. MaxXid, next : 0 .. MaxXid + 1,
                     last : 0 .. MaxXid, inodes : SUBSET Inode,
                     found : SUBSET Inode, inode : Inode, seen : Nat,
                     staged : [Inode -> Nat]]
             Kept == /\ toa' \in Toa
                     /\ index' \in [Inode -> Nat]
                     /\ tiered_out_xid' \in 0 .. MaxXid
                     /\ handed' \subseteq 1 .. MaxXid
                     /\ snapshot_requested' \in BOOLEAN
                     /\ aborted' \in {"no", "batch", "size", "state"}
  <1>1. toa \in Toa
    BY DEF TypeOK
  <1>2. SUFFICES Kept
    <2>1. UNCHANGED <<data, kvs, named, web, stop_requested>>
      BY DEF AgentStep, toaFrame, SnapshotBegin, SnapshotSample, SnapshotRead,
         GetPaths, SegmentStat, StatAs, SegmentAdd, AddAs, SegmentCommit, SnapshotAdvance,
         SnapshotClear, Stop, storeVars, webVars
    <2> QED
      BY <1>2, <2>1 DEF TypeOK
  <1>3. CASE SnapshotBegin
    <2>1. toa' \in Toa
      BY <1>1, <1>3, LastXidLogged DEF SnapshotBegin
    <2> QED
      BY <1>3, <2>1 DEF SnapshotBegin, TypeOK
  <1>4. CASE SnapshotSample
    <2>1. next_xid \in 0 .. MaxXid + 1
      BY LogConstants DEF TypeOK, LogTypeOK
    <2>2. toa' \in Toa
      BY <1>1, <1>4, <2>1 DEF SnapshotSample
    <2> QED
      BY <1>4, <2>2 DEF SnapshotSample, TypeOK
  <1>5. CASE SnapshotRead
    <2>1. Batch \in Seq(Entry)
      BY BatchElements
    <2>2. \A k \in 1 .. Len(Batch) :
             Batch[k].xid \in 1 .. MaxXid /\ Batch[k].inode \in Inode
      <3>1. \A e \in Entry : e.xid \in 1 .. MaxXid /\ e.inode \in Inode
        BY DEF Entry
      <3> QED
        BY <2>1, <3>1
    <2>3. handed' \subseteq 1 .. MaxXid
      BY <1>5, <2>2 DEF SnapshotRead, TypeOK
    <2>4. aborted' \in {"no", "batch", "size", "state"}
      BY <1>5 DEF SnapshotRead, TypeOK
    <2>5. toa' \in Toa
      <3>1. CASE Batch = <<>>
        BY <1>1, <1>5, <3>1 DEF SnapshotRead
      <3>2. CASE Batch # <<>>
        <4>1. Len(Batch) \in 1 .. Len(Batch)
          BY <2>1, <3>2
        <4>2. Batch[Len(Batch)].xid \in 0 .. MaxXid
          BY <4>1, <2>2, LogConstants
        <4>3. InodesOf(Batch) \in SUBSET Inode
          BY <2>2 DEF InodesOf
        <4>4. NoFiles \in [Inode -> Nat]
          BY DEF NoFiles, Absent
        <4>5. toa' = [toa EXCEPT !.pc = "paths", !.last = Batch[Len(Batch)].xid,
                                 !.inodes = InodesOf(Batch), !.staged = NoFiles]
          BY <1>5, <3>2 DEF SnapshotRead
        <4>6. toa' = [pc |-> "paths", end |-> toa.end, next |-> toa.next,
                      last |-> Batch[Len(Batch)].xid,
                      inodes |-> InodesOf(Batch), found |-> toa.found,
                      inode |-> toa.inode, seen |-> toa.seen, staged |-> NoFiles]
          BY <1>1, <4>5
        <4> QED
          BY <1>1, <4>2, <4>3, <4>4, <4>6
      <3> QED
        BY <3>1, <3>2
    <2> QED
      BY <1>5, <2>3, <2>4, <2>5 DEF SnapshotRead, TypeOK
  <1>6. CASE GetPaths
    <2>1. toa' \in Toa
      BY <1>1, <1>6 DEF GetPaths
    <2> QED
      BY <1>6, <2>1 DEF GetPaths, TypeOK
  <1>7. ASSUME NEW i \in Inode, SegmentStat(i) PROVE Kept
    <2>2. data[i] \in Nat
      BY DEF TypeOK
    <2>1. toa' \in Toa
      BY <1>1, <1>7, <2>2 DEF SegmentStat, StatAs
    <2> QED
      BY <1>7, <2>1 DEF SegmentStat, StatAs, TypeOK
  <1>12. CASE SegmentAdd
    <2> DEFINE back == [toa EXCEPT !.pc = "copy", !.inode = Root, !.seen = Absent]
    <2>1. Root \in Inode
      BY LogConstants
    <2>2. ASSUME NEW f \in [Inode -> Nat],
                 toa' = back \/ toa' = [back EXCEPT !.staged = f]
          PROVE  toa' \in Toa
      <3>1. Absent \in Nat
        BY DEF Absent
      <3>2. back \in Toa
        <4> HIDE DEF PC
        <4>1. "copy" \in PC
          BY DEF PC
        <4> QED
          BY <1>1, <2>1, <3>1, <4>1
      <3> HIDE DEF back
      <3> QED
        BY <2>2, <3>2
    <2>3. ASSUME NEW v \in Copied(toa.inode, data[toa.inode])
          PROVE  [j \in Inode |-> Overwritten(j, toa.inode, v)] \in [Inode -> Nat]
      <3>1. v \in Nat
        BY <1>1, <2>3 DEF Copied, TypeOK, Wrong
      <3> QED
        BY <1>1, <3>1 DEF Overwritten, Created, Wrong
    <2>4. toa.staged \in [Inode -> Nat]
      BY <1>1
    <2>5. toa' \in Toa
      <3> HIDE DEF Toa
      <3> QED
        BY <1>12, <2>2, <2>3, <2>4 DEF SegmentAdd, AddAs
    <2> QED
      BY <1>12, <2>5 DEF SegmentAdd, AddAs, TypeOK
  <1>8. CASE SegmentCommit
    <2>1. toa' \in Toa
      BY <1>1, <1>8 DEF SegmentCommit
    <2>2. index' \in [Inode -> Nat]
      BY <1>1, <1>8 DEF SegmentCommit, TypeOK
    <2> QED
      BY <1>8, <2>1, <2>2 DEF SegmentCommit, TypeOK
  <1>9. CASE SnapshotAdvance
    <2>1. toa' \in Toa
      BY <1>1, <1>9 DEF SnapshotAdvance
    <2> QED
      BY <1>1, <1>9, <2>1 DEF SnapshotAdvance, TypeOK
  <1>10. CASE SnapshotClear
    <2>1. toa' \in Toa
      BY <1>1, <1>10 DEF SnapshotClear
    <2> QED
      BY <1>10, <2>1 DEF SnapshotClear, TypeOK
  <1>11. CASE Stop
    <2>1. toa' \in Toa
      BY <1>1, <1>11 DEF Stop
    <2> QED
      BY <1>11, <2>1 DEF Stop, TypeOK
  <1> QED
    BY <1>3, <1>4, <1>5, <1>6, <1>7, <1>8, <1>9, <1>10, <1>11, <1>12 DEF AgentStep

\* Every step keeps the log's invariant and the types.
LEMMA NextTypeOK == LogInv /\ TypeOK /\ [Next]_vars => LogInv' /\ TypeOK'
  <1> SUFFICES ASSUME LogInv, TypeOK, [Next]_vars PROVE LogInv' /\ TypeOK'
    OBVIOUS
  <1>1. LogInv' /\ LogTypeOK'
    BY NextIsLogNext, LogNextInv DEF LogInv
  <1>2. CASE UNCHANGED vars
    BY <1>1, <1>2 DEF TypeOK, vars, storeVars, toaVars, webVars, flagVars
  <1> QED
    BY <1>1, <1>2, AgentTypeOK, FuseTypeOK, WebTypeOK DEF Next

\* The log, the store, the agent and the web thread keep to their types, and
\* the log to its invariant.
THEOREM SpecTypeOK == Spec => [](LogInv /\ TypeOK)
  BY InitTypeOK, NextTypeOK, PTL DEF Spec
---------------------------------------------------------------------------
(* The pointer never passes an entry that was not handed over *)

\* What a batch that Read copied in one piece leaves out is newer than its end.
LEMMA BatchHasNoHole ==
    ASSUME AtomicRead, LogInv, TypeOK, Batch # <<>>,
           NEW k \in 1 .. Len(log_deque),
           log_deque[k].xid > tiered_out_xid,
           log_deque[k].xid <= Batch[Len(Batch)].xid
    PROVE  \E m \in 1 .. Len(Batch) : Batch[m] = log_deque[k]
  <1> DEFINE first == tiered_out_xid + 1
             last  == Min2(first + MaxXidPerSegment, toa.end)
  <1>1. first \in Int /\ last \in Int
    <2>1. MaxXidPerSegment \in Nat /\ MaxXid \in Nat
      BY LogConstants, ToaConstants
    <2>2. tiered_out_xid \in Int /\ toa.end \in Int
      BY <2>1 DEF TypeOK
    <2> QED
      BY <2>1, <2>2 DEF Min2
  <1>2. Batch = Read(first, last)
    BY DEF Batch, Read
  <1>3. first <= log_deque[k].xid
    <2>1. log_deque[k].xid \in Int
      BY Numbers DEF LogInv
    <2>2. tiered_out_xid \in Int
      BY LogConstants DEF TypeOK
    <2> QED
      BY <2>1, <2>2
  <1> HIDE DEF first, last
  <1> QED
    BY <1>1, <1>2, <1>3, ReadNoHole

\* push_back leaves the entries alone and adds one past every logged xid.
LEMMA PushIsPast ==
    ASSUME LogInv, Push
    PROVE  /\ Len(log_deque) \in Nat /\ Len(log_deque') = Len(log_deque) + 1
           /\ \A k \in 1 .. Len(log_deque) : log_deque'[k] = log_deque[k]
           /\ log_deque'[Len(log_deque')].inode = fuse.inode
           /\ log_deque'[Len(log_deque')].xid \in Int
           /\ \A x : Logged(x) => x < log_deque'[Len(log_deque')].xid
  <1> DEFINE e == [xid |-> fuse.xid, inode |-> fuse.inode, op |-> fuse.op]
  <1>1. e \in Entry /\ log_deque \in Seq(Entry) /\ Holding
    BY LogConstants DEF LogInv, Push, LogTypeOK, Entry, Holding, NoXid
  <1>2. /\ Len(log_deque) \in Nat /\ Len(log_deque') = Len(log_deque) + 1
        /\ \A k \in 1 .. Len(log_deque) : log_deque'[k] = log_deque[k]
        /\ log_deque'[Len(log_deque) + 1] = e
    <2> HIDE DEF e
    <2>1. log_deque' = Append(log_deque, e)
      BY DEF Push, e
    <2> QED
      BY <1>1, <2>1
  <1>3. e.xid = fuse.xid /\ e.inode = fuse.inode
    OBVIOUS
  <1>4. fuse.xid \in Int /\ 0 < fuse.xid
    BY <1>1, LogConstants DEF LogInv, LogTypeOK, NoXid
  <1>5. \A k \in 1 .. Len(log_deque) : log_deque[k].xid < fuse.xid
    BY <1>1, Numbers DEF LogInv, IndexBound
  <1> QED
    BY <1>2, <1>3, <1>4, <1>5 DEF Logged

\* A logged xid stays logged, and entries up to it are old ones.
LEMMA PushKeepsPast ==
    ASSUME LogInv, Push, NEW x \in Int, Logged(x)
    PROVE  /\ x = 0 \/ \E k \in 1 .. Len(log_deque') : log_deque'[k].xid = x
           /\ \A k \in 1 .. Len(log_deque') : log_deque'[k].xid <= x =>
                 k \in 1 .. Len(log_deque) /\ log_deque'[k] = log_deque[k]
  <1>1. x = 0 \/ \E k \in 1 .. Len(log_deque') : log_deque'[k].xid = x
    BY PushIsPast DEF Logged
  <1>2. ASSUME NEW k \in 1 .. Len(log_deque'), log_deque'[k].xid <= x
        PROVE  k \in 1 .. Len(log_deque) /\ log_deque'[k] = log_deque[k]
    <2>1. CASE k = Len(log_deque')
      BY <1>2, <2>1, PushIsPast
    <2>2. CASE k # Len(log_deque')
      BY <2>2, PushIsPast
    <2> QED
      BY <2>1, <2>2
  <1> QED
    BY <1>1, <1>2

\* The persister has been handed nothing, and the pointer is at 0.
LEMMA InitHanded == Init => HandedInv
  <1> SUFFICES ASSUME Init PROVE HandedInv
    OBVIOUS
  <1>1. log_deque = <<>> /\ tiered_out_xid = 0 /\ toa.last = 0 /\ toa.pc = "sleep"
    BY DEF Init, MountInit, LogInit
  <1>2. LogInv /\ TypeOK
    BY InitTypeOK
  <1> QED
    BY <1>1, <1>2 DEF HandedInv, Logged, TieredWasHanded, BatchWasHanded, InBatch

\* Steps that leave the log and the agent alone.
LEMMA QuietHanded ==
    ASSUME HandedInv, UNCHANGED <<log_deque, toaVars>>, LogInv', TypeOK'
    PROVE  HandedInv'
  BY DEF HandedInv, Logged, TieredWasHanded, BatchWasHanded, InBatch, toaVars

\* A new entry is past both pointers.
LEMMA PushHanded ==
    ASSUME HandedInv, Push, UNCHANGED toaVars, LogInv', TypeOK'
    PROVE  HandedInv'
  <1>1. /\ tiered_out_xid' = tiered_out_xid /\ toa' = toa /\ handed' = handed
        /\ tiered_out_xid \in Int /\ toa.last \in Int
        /\ LogInv /\ Logged(tiered_out_xid) /\ Logged(toa.last)
    BY LogConstants DEF toaVars, HandedInv, TypeOK
  <1>2. Logged(tiered_out_xid)' /\ Logged(toa.last)'
    BY <1>1, PushKeepsPast DEF Logged
  <1>3. TieredWasHanded'
    BY <1>1, PushKeepsPast DEF HandedInv, TieredWasHanded
  <1>4. BatchWasHanded'
    BY <1>1, PushKeepsPast DEF HandedInv, BatchWasHanded, InBatch
  <1> QED
    BY <1>2, <1>3, <1>4 DEF HandedInv

\* Steps of the agent that neither read a batch nor move the pointer.
LEMMA PersistHanded ==
    ASSUME HandedInv, LogInv', TypeOK',
           UNCHANGED <<log_deque, tiered_out_xid, handed>>,
           toa'.last = toa.last, InBatch' => InBatch
    PROVE  HandedInv'
  BY DEF HandedInv, Logged, TieredWasHanded, BatchWasHanded

\* Reading a batch: what it leaves out below its end had been handed over.
LEMMA ReadHanded ==
    ASSUME AtomicRead, HandedInv, LogInv', TypeOK', SnapshotRead
    PROVE  HandedInv'
  <1>1. LogInv /\ TypeOK
    BY DEF HandedInv
  <1>2. UNCHANGED <<log_deque, tiered_out_xid>>
    BY DEF SnapshotRead, toaFrame, logVars
  <1>3. handed' = handed \cup {Batch[k].xid : k \in 1 .. Len(Batch)}
    BY DEF SnapshotRead
  <1>4. Logged(tiered_out_xid)' /\ TieredWasHanded'
    BY <1>2, <1>3 DEF HandedInv, Logged, TieredWasHanded
  <1>5. CASE Batch = <<>>
    <2>1. toa' = toa
      BY <1>5 DEF SnapshotRead
    <2> QED
      BY <1>2, <1>3, <1>4, <2>1 DEF HandedInv, Logged, BatchWasHanded, InBatch
  <1>6. CASE Batch # <<>>
    <2>1. toa'.last = Batch[Len(Batch)].xid
      BY <1>1, <1>6 DEF SnapshotRead, TypeOK
    <2>2. Len(Batch) \in 1 .. Len(Batch)
      BY <1>1, <1>6, BatchElements
    <2>3. Logged(toa.last)'
      BY <1>1, <1>2, <2>1, <2>2, BatchElements DEF Logged
    <2>4. BatchWasHanded'
      <3> SUFFICES ASSUME NEW k \in 1 .. Len(log_deque),
                          log_deque[k].xid <= Batch[Len(Batch)].xid
                   PROVE  log_deque[k].xid \in handed'
        BY <1>2, <2>1 DEF BatchWasHanded
      <3>1. CASE log_deque[k].xid <= tiered_out_xid
        BY <1>3, <3>1 DEF HandedInv, TieredWasHanded
      <3>2. CASE log_deque[k].xid > tiered_out_xid
        <4>1. \E m \in 1 .. Len(Batch) : Batch[m] = log_deque[k]
          BY <1>1, <1>6, <3>2, BatchHasNoHole
        <4> QED
          BY <1>3, <4>1
      <3>3. log_deque[k].xid \in Int /\ tiered_out_xid \in Int
        BY <1>1, Numbers, LogConstants DEF LogInv, TypeOK
      <3> QED
        BY <3>1, <3>2, <3>3
    <2> QED
      BY <1>4, <2>3, <2>4 DEF HandedInv
  <1> QED
    BY <1>5, <1>6

\* The pointer moves to the end of a batch that was handed over.
LEMMA AdvanceHanded ==
    ASSUME HandedInv, LogInv', TypeOK', SnapshotAdvance
    PROVE  HandedInv'
  <1>1. UNCHANGED <<log_deque, handed>> /\ tiered_out_xid' = toa.last
    BY DEF SnapshotAdvance, toaFrame, logVars
  <1>2. toa'.last = toa.last /\ ~InBatch' /\ InBatch
    BY DEF HandedInv, TypeOK, SnapshotAdvance, InBatch
  <1> QED
    BY <1>1, <1>2 DEF HandedInv, Logged, TieredWasHanded, BatchWasHanded

\* One case per action.
LEMMA NextHanded ==
    ASSUME AtomicRead, HandedInv, [Next]_vars
    PROVE  HandedInv'
  <1>1. LogInv' /\ TypeOK' /\ TypeOK
    BY NextTypeOK DEF HandedInv
  <1>2. CASE AgentStep
    <2>1. CASE SnapshotBegin
      <3>1. toa'.last = toa.last /\ toa'.pc = "sample"
        BY <1>1, <2>1 DEF SnapshotBegin, TypeOK
      <3> QED
        BY <1>1, <2>1, <3>1, PersistHanded DEF SnapshotBegin, toaFrame, logVars, InBatch
    <2>2. CASE SnapshotSample
      <3>1. toa'.last = toa.last /\ toa'.pc = "read"
        BY <1>1, <2>2 DEF SnapshotSample, TypeOK
      <3> QED
        BY <1>1, <2>2, <3>1, PersistHanded DEF SnapshotSample, toaFrame, logVars, InBatch
    <2>3. CASE SnapshotRead
      BY <1>1, <2>3, ReadHanded
    <2>4. CASE GetPaths
      <3>1. toa'.last = toa.last /\ InBatch
        BY <1>1, <2>4 DEF GetPaths, TypeOK, InBatch
      <3> QED
        BY <1>1, <2>4, <3>1, PersistHanded DEF GetPaths, toaFrame, logVars
    <2>5. ASSUME NEW i \in Inode, SegmentStat(i) PROVE HandedInv'
      <3>1. toa'.last = toa.last /\ InBatch
        BY <1>1, <2>5 DEF SegmentStat, StatAs, TypeOK, InBatch
      <3> QED
        BY <1>1, <2>5, <3>1, PersistHanded DEF SegmentStat, StatAs, toaFrame, logVars
    <2>10. CASE SegmentAdd
      <3>1. toa'.last = toa.last /\ InBatch
        BY <1>1, <2>10 DEF SegmentAdd, AddAs, TypeOK, InBatch
      <3> QED
        BY <1>1, <2>10, <3>1, PersistHanded DEF SegmentAdd, AddAs, toaFrame, logVars
    <2>6. CASE SegmentCommit
      <3>1. toa'.last = toa.last /\ InBatch
        BY <1>1, <2>6 DEF SegmentCommit, TypeOK, InBatch
      <3> QED
        BY <1>1, <2>6, <3>1, PersistHanded DEF SegmentCommit, toaFrame, logVars
    <2>7. CASE SnapshotAdvance
      BY <1>1, <2>7, AdvanceHanded
    <2>8. CASE SnapshotClear
      <3>1. toa'.last = toa.last /\ ~InBatch'
        BY <1>1, <2>8 DEF SnapshotClear, TypeOK, InBatch
      <3> QED
        BY <1>1, <2>8, <3>1, PersistHanded DEF SnapshotClear, toaFrame, logVars
    <2>9. CASE Stop
      <3>1. toa'.last = toa.last /\ ~InBatch'
        BY <1>1, <2>9 DEF Stop, TypeOK, InBatch
      <3> QED
        BY <1>1, <2>9, <3>1, PersistHanded DEF Stop, toaFrame, logVars
    <2> QED
      BY <1>2, <2>1, <2>2, <2>3, <2>4, <2>5, <2>6, <2>7, <2>8, <2>9, <2>10
         DEF AgentStep
  <1>3. CASE FuseStep
    <2>1. CASE Push /\ UNCHANGED toaVars
      BY <1>1, <2>1, PushHanded
    <2>2. CASE UNCHANGED <<log_deque, toaVars>>
      BY <1>1, <2>2, QuietHanded
    <2> QED
      BY <1>3, <2>1, <2>2 DEF FuseStep, Handler, HandlerFails, HandlerAppends,
         Forget, Begin, Burn, Stamp, logVars
  <1>4. CASE WebStep
    BY <1>1, <1>4, QuietHanded DEF WebStep, RequestSnapshot, SnapshotReply,
       RequestStop, logVars
  <1>5. CASE UNCHANGED vars
    BY <1>1, <1>5, QuietHanded DEF vars, logVars
  <1> QED
    BY <1>2, <1>3, <1>4, <1>5 DEF Next

\* As long as Read is not torn by an Append, Snapshot never moves
\* tiered_out_xid past an entry that it has not handed to the persister:
\* whatever gaps failing handlers leave, and whatever I/O fails.
THEOREM SpecTieredWasHanded ==
    ASSUME AtomicRead
    PROVE  Spec => []TieredWasHanded
  <1>1. Init => HandedInv
    BY InitHanded
  <1>2. HandedInv /\ [Next]_vars => HandedInv'
    BY NextHanded
  <1>3. HandedInv => TieredWasHanded
    BY DEF HandedInv
  <1> QED
    BY <1>1, <1>2, <1>3, PTL DEF Spec
---------------------------------------------------------------------------
(* What is tiered out is current *)

\* The conjuncts of CurrentInv besides HandedInv.
LEMMA InitCurrent == Init => CurrentInv
  <1> SUFFICES ASSUME Init PROVE CurrentInv
    OBVIOUS
  <1>1. HandedInv
    BY InitHanded
  <1>2. log_deque = <<>> /\ toa.pc = "sleep"
    BY DEF Init, MountInit, LogInit
  <1>3. TypeOK /\ kvs \subseteq Inode /\ kvs = {Root} \cup Existing
    BY InitTypeOK DEF TypeOK, Init, MountInit
  <1>4. \A i \in kvs : data[i] # Absent
    <2>1. \A i \in Inode : i \in {Root} \cup Existing => data[i] = Created + 1
      BY DEF Init, Mounted
    <2>2. \A i \in kvs : data[i] = Created + 1
      BY <1>3, <2>1
    <2> QED
      BY <2>2 DEF Absent, Created
  <1>5. \A i \in kvs : {i} \cup Above[i] \subseteq kvs
    <2>1. Above[Root] = {} /\ \A i \in Existing : Above[i] \subseteq Existing
      BY ToaConstants
    <2> QED
      BY <1>3, <2>1
  <1>6. \A i \in Inode : index[i] <= index[i] /\ index[i] <= data[i]
    <2> SUFFICES ASSUME NEW i \in Inode
                 PROVE  index[i] <= index[i] /\ index[i] <= data[i]
      OBVIOUS
    <2>1. index[i] <= data[i]
      BY DEF Init, MountInit
    <2>2. index[i] \in Nat
      BY <1>3 DEF TypeOK
    <2> QED
      BY <2>1, <2>2
  <1>7. CopiesInOrder
    <2> SUFFICES ASSUME NEW i \in Inode
                 PROVE  /\ data[i] = Absent => index[i] = Absent
                        /\ Upcoming(i) <= data[i] /\ index[i] <= Upcoming(i)
      BY DEF CopiesInOrder
    <2>1. index[i] \in Nat
      BY <1>3 DEF TypeOK
    <2> QED
      BY <1>2, <1>6, <2>1 DEF Upcoming, Absent
  <1> QED
    BY <1>1, <1>2, <1>4, <1>5, <1>7
       DEF CurrentInv, TieredIsCurrent, BatchIsCurrent, BatchIsFound, SeenIsCurrent,
           InBatch

\* The types that the steps below use.
LEMMA CurrentTypes ==
    ASSUME TypeOK
    PROVE  /\ \A i \in Inode : data[i] \in Nat /\ index[i] \in Nat
                               /\ toa.staged[i] \in Nat /\ Upcoming(i) \in Nat
           /\ kvs \subseteq Inode
           /\ \A k \in 1 .. Len(log_deque) : log_deque[k].inode \in Inode
  <1>1. \A e \in Entry : e.inode \in Inode
    BY DEF Entry
  <1>2. \A k \in 1 .. Len(log_deque) : log_deque[k] \in Entry
    BY DEF TypeOK, LogTypeOK
  <1>3. \A i \in Inode : data[i] \in Nat /\ index[i] \in Nat /\ toa.staged[i] \in Nat
    BY DEF TypeOK
  <1> QED
    BY <1>1, <1>2, <1>3 DEF TypeOK, Upcoming

\* A handler gives a path to no inode but its own, and works on one that exists
\* or never has.
LEMMA HandlerPaths ==
    ASSUME CurrentInv, NEW op \in Ops, NEW i \in Inode, Handler(op, i)
    PROVE  /\ \A j \in Inode : j # i => (HasPath(j)' <=> HasPath(j))
           /\ i \in kvs \/ data[i] = Absent
           /\ \A j \in kvs' : \A a \in {j} \cup Above[j] : a = i \/ data[a] # Absent
  <1>1. CASE op = "CREAT"
    <2>1. data[i] = Absent /\ kvs' = kvs \cup {i} /\ Above[i] \subseteq kvs
      BY <1>1 DEF Handler, Creates
    <2>2. \A j \in kvs : i \notin {j} \cup Above[j]
      BY <2>1 DEF CurrentInv
    <2>3. \A j \in Inode : j # i => (HasPath(j)' <=> HasPath(j))
      BY <2>1, <2>2 DEF HasPath
    <2>4. \A j \in kvs : \A a \in {j} \cup Above[j] : data[a] # Absent
      BY DEF CurrentInv
    <2> QED
      BY <2>1, <2>3, <2>4
  <1>2. CASE op # "CREAT"
    <2>1. i \in kvs /\ kvs' = kvs
      BY <1>2 DEF Handler, Names
    <2> QED
      BY <2>1 DEF HasPath, CurrentInv
  <1> QED
    BY <1>1, <1>2

\* A handler leaves its inode changed after every xid, and others alone.
LEMMA HandlerCurrent ==
    ASSUME CurrentInv, HandedInv', NEW op \in Ops, NEW i \in Inode, Handler(op, i)
    PROVE  CurrentInv'
  <1>1. /\ UNCHANGED <<log_deque, index, toa, tiered_out_xid>>
        /\ fuse.pc = "idle" /\ fuse'.pc = "body" /\ fuse'.inode = i
        /\ kvs' \subseteq kvs \cup {i}
    BY DEF Handler, Creates, Names, Begin, toaVars
  <1>2. TypeOK /\ TypeOK' /\ data \in [Inode -> Nat]
    BY DEF CurrentInv, HandedInv, TypeOK
  <1>3. /\ data[i] <= data'[i] /\ data'[i] # Absent
        /\ \A j \in Inode : j # i => data'[j] = data[j]
    <2>1. CASE op = "CREAT"
      BY <1>2, <2>1 DEF Handler, Absent, Created
    <2>2. CASE op # "CREAT"
      <3>1. i \in kvs /\ data[i] # Absent
        BY <2>2 DEF Handler, Names, CurrentInv
      <3>2. data' = data \/ data' = [data EXCEPT ![i] = @ + 1]
        BY <2>2 DEF Handler
      <3> QED
        BY <1>2, <3>1, <3>2 DEF Absent
    <2> QED
      BY <2>1, <2>2
  <1>4. \A j \in kvs' : \A a \in {j} \cup Above[j] : data'[a] # Absent
    <2>1. \A j \in kvs' : {j} \cup Above[j] \subseteq Inode
      <3>1. kvs' \subseteq Inode
        BY <1>2 DEF TypeOK
      <3>2. \A j \in Inode : Above[j] \subseteq Inode
        BY ToaConstants
      <3> QED
        BY <3>1, <3>2
    <2> QED
      BY <1>3, <2>1, HandlerPaths
  <1>5. \A x : ChangedAfter(x, i)'
    BY <1>1 DEF ChangedAfter
  <1>6. \A x, j : ChangedAfter(x, j) => ChangedAfter(x, j)'
    BY <1>1 DEF ChangedAfter
  <1>7. CopiesInOrder'
    <2> SUFFICES ASSUME NEW j \in Inode
                 PROVE  /\ data'[j] = Absent => index[j] = Absent
                        /\ j \in kvs' \/ data'[j] = Absent => Upcoming(j)' <= data'[j]
                        /\ j \in kvs' => Pending(j)' \/ index[j] <= Upcoming(j)'
      BY <1>1 DEF CopiesInOrder
    <2>1. Upcoming(j)' = Upcoming(j)
      BY <1>1 DEF Upcoming
    <2>2. data[j] \in Nat /\ data'[j] \in Nat
      BY <1>2 DEF TypeOK
    <2>3. j \in kvs' \/ data'[j] = Absent => j \in kvs \/ data[j] = Absent
      BY <1>1, <1>3, HandlerPaths
    <2>4. /\ data[j] = Absent => index[j] = Absent
          /\ j \in kvs \/ data[j] = Absent => Upcoming(j) <= data[j]
          /\ j \in kvs => Pending(j) \/ index[j] <= Upcoming(j)
          /\ Upcoming(j) \in Nat
      BY <1>2, CurrentTypes DEF CurrentInv, CopiesInOrder
    <2>5. Pending(j) => Pending(j)'
      BY <1>1, <1>6 DEF Pending
    <2>6. CASE j = i
      <3>1. Pending(j)'
        BY <1>5, <2>6 DEF Pending
      <3> QED
        BY <1>3, <2>1, <2>2, <2>3, <2>4, <2>6, <3>1
    <2>7. CASE j # i
      BY <1>1, <1>3, <2>1, <2>3, <2>4, <2>5, <2>7
    <2> QED
      BY <2>6, <2>7
  <1>8. \A j \in Inode : j # i /\ HasPath(j)' => HasPath(j)
    BY HandlerPaths
  <1>9. \A k \in 1 .. Len(log_deque) : log_deque[k].inode \in Inode
    BY <1>2, CurrentTypes
  <1>10. TieredIsCurrent'
    <2> SUFFICES ASSUME NEW k \in 1 .. Len(log_deque), NEW j \in Inode,
                        j = log_deque[k].inode, HasPath(j)', j # i
                 PROVE  ChangedAfter(tiered_out_xid, j)' \/ index[j] = data'[j]
      BY <1>1, <1>5, <1>9 DEF TieredIsCurrent, Pending
    <2> QED
      BY <1>1, <1>3, <1>6, <1>8 DEF CurrentInv, TieredIsCurrent, Pending
  <1>11. BatchIsCurrent'
    <2> SUFFICES ASSUME InBatch, NEW k \in 1 .. Len(log_deque), NEW j \in Inode,
                        j = log_deque[k].inode, HasPath(j)', j # i
                 PROVE  \/ ChangedAfter(toa.last, j)' \/ j \in ToCopy
                        \/ Upcoming(j) = data'[j]
      BY <1>1, <1>5, <1>9 DEF BatchIsCurrent, InBatch, ToCopy, Upcoming
    <2> QED
      BY <1>1, <1>3, <1>6, <1>8 DEF CurrentInv, BatchIsCurrent
  <1>12. BatchIsFound'
    <2>1. ToCopy' = ToCopy /\ ToCopy \subseteq Inode
      BY <1>1, <1>2 DEF ToCopy, TypeOK
    <2> QED
      BY <1>1, <1>5, <1>6, <1>8, <2>1 DEF CurrentInv, BatchIsFound
  <1>13. SeenIsCurrent'
    <2> SUFFICES ASSUME toa.pc = "add"
                 PROVE  /\ data'[toa.inode] # Absent
                        /\ \/ toa.seen = data'[toa.inode]
                           \/ /\ ChangedAfter(toa.last, toa.inode)'
                              /\ Pending(toa.inode)'
      BY <1>1 DEF SeenIsCurrent
    <2>1. toa.inode \in Inode
      BY <1>2 DEF TypeOK
    <2>2. CASE toa.inode = i
      BY <1>1, <1>3, <1>5, <2>2 DEF Pending
    <2>3. CASE toa.inode # i
      BY <1>1, <1>3, <1>6, <2>1, <2>3 DEF CurrentInv, SeenIsCurrent, Pending
    <2> QED
      BY <2>2, <2>3
  <1> QED
    BY <1>1, <1>4, <1>7, <1>10, <1>11, <1>12, <1>13 DEF CurrentInv

\* Steps that leave the agent alone and take no change back.
LEMMA QuietCurrent ==
    ASSUME CurrentInv, HandedInv',
           UNCHANGED <<log_deque, data, toaVars>>, kvs' \subseteq kvs,
           fuse.pc # "idle" => fuse'.pc # "idle" /\ fuse'.inode = fuse.inode
    PROVE  CurrentInv'
  <1>1. UNCHANGED <<log_deque, data, index, tiered_out_xid, toa>>
    BY DEF toaVars
  <1>2. \A x, j : ChangedAfter(x, j) => ChangedAfter(x, j)'
    BY <1>1 DEF ChangedAfter
  <1>3. \A j : Upcoming(j)' = Upcoming(j)
    BY <1>1 DEF Upcoming
  <1>4. CopiesInOrder'
    BY <1>1, <1>2, <1>3 DEF CurrentInv, CopiesInOrder, Pending
  <1>5. \A j : HasPath(j)' => HasPath(j)
    BY DEF HasPath
  <1>6. TieredIsCurrent'
    BY <1>1, <1>2, <1>5 DEF CurrentInv, TieredIsCurrent, Pending
  <1>7. ToCopy' = ToCopy
    BY <1>1 DEF ToCopy
  <1>8. BatchIsCurrent'
    BY <1>1, <1>2, <1>3, <1>5, <1>7 DEF CurrentInv, BatchIsCurrent, InBatch
  <1>9. BatchIsFound'
    BY <1>1, <1>2, <1>5, <1>7 DEF CurrentInv, BatchIsFound
  <1>10. SeenIsCurrent'
    BY <1>1, <1>2 DEF CurrentInv, SeenIsCurrent, Pending
  <1> QED
    BY <1>1, <1>4, <1>6, <1>8, <1>9, <1>10 DEF CurrentInv

\* A change is after a logged xid before and after its entry is pushed.
LEMMA PushCurrent ==
    ASSUME CurrentInv, HandedInv', Push, UNCHANGED <<storeVars, toaVars>>
    PROVE  CurrentInv'
  <1> DEFINE After(x, j) == \E k \in 1 .. Len(log_deque') :
                               log_deque'[k].inode = j /\ log_deque'[k].xid > x
  <1>1. UNCHANGED <<data, kvs, index, tiered_out_xid, toa>>
    BY DEF storeVars, toaVars
  <1>2. LogInv /\ Logged(tiered_out_xid) /\ Logged(toa.last)
    BY DEF CurrentInv, HandedInv
  <1>3. ASSUME NEW x, Logged(x), NEW j, ChangedAfter(x, j) \/ j = fuse.inode
        PROVE  After(x, j)
    <2>1. CASE j = fuse.inode
      <3>1. Len(log_deque') \in 1 .. Len(log_deque')
        BY <1>2, PushIsPast
      <3>2. /\ log_deque'[Len(log_deque')].inode = j
            /\ log_deque'[Len(log_deque')].xid > x
        BY <1>2, <1>3, <2>1, PushIsPast
      <3> QED
        BY <3>1, <3>2
    <2>2. CASE j # fuse.inode
      <3>1. PICK k \in 1 .. Len(log_deque) : log_deque[k].inode = j /\ log_deque[k].xid > x
        BY <1>3, <2>2 DEF ChangedAfter
      <3>2. k \in 1 .. Len(log_deque') /\ log_deque'[k] = log_deque[k]
        BY <1>2, PushIsPast
      <3> QED
        BY <3>1, <3>2
    <2> QED
      BY <2>1, <2>2
  <1>4. \A k \in 1 .. Len(log_deque') :
           \/ log_deque'[k].inode = fuse.inode
           \/ k \in 1 .. Len(log_deque) /\ log_deque'[k] = log_deque[k]
    BY <1>2, PushIsPast
  <1>5. TieredIsCurrent'
    <2> SUFFICES ASSUME NEW k \in 1 .. Len(log_deque'), NEW i, HasPath(i),
                        i = log_deque'[k].inode
                 PROVE  After(tiered_out_xid, i) \/ index[i] = data[i]
      BY <1>1 DEF TieredIsCurrent, Pending, ChangedAfter, HasPath
    <2>1. CASE i = fuse.inode
      BY <1>2, <1>3, <2>1
    <2>2. CASE i # fuse.inode
      <3>1. k \in 1 .. Len(log_deque) /\ log_deque[k].inode = i
        BY <1>4, <2>2
      <3>2. ChangedAfter(tiered_out_xid, i) \/ index[i] = data[i]
        BY <3>1 DEF CurrentInv, TieredIsCurrent, Pending
      <3> QED
        BY <1>2, <1>3, <3>2
    <2> QED
      BY <2>1, <2>2
  <1>6. /\ \A j : Upcoming(j)' = Upcoming(j) /\ HasPath(j)' = HasPath(j)
        /\ ToCopy' = ToCopy
    BY <1>1 DEF Upcoming, HasPath, ToCopy
  <1>7. BatchIsCurrent'
    <2> SUFFICES ASSUME InBatch, NEW k \in 1 .. Len(log_deque'), NEW i, HasPath(i),
                        i = log_deque'[k].inode
                 PROVE  After(toa.last, i) \/ i \in ToCopy \/ Upcoming(i) = data[i]
      BY <1>1, <1>6 DEF BatchIsCurrent, InBatch, ChangedAfter
    <2>1. CASE i = fuse.inode
      BY <1>2, <1>3, <2>1
    <2>2. CASE i # fuse.inode
      <3>1. k \in 1 .. Len(log_deque) /\ log_deque[k].inode = i
        BY <1>4, <2>2
      <3>2. ChangedAfter(toa.last, i) \/ i \in ToCopy \/ Upcoming(i) = data[i]
        BY <3>1 DEF CurrentInv, BatchIsCurrent
      <3> QED
        BY <1>2, <1>3, <3>2
    <2> QED
      BY <2>1, <2>2
  <1>8. \A j : ChangedAfter(toa.last, j) => ChangedAfter(toa.last, j)'
    <2>1. \A j : ChangedAfter(toa.last, j) => After(toa.last, j)
      BY <1>2, <1>3
    <2>2. \A j : After(toa.last, j) => ChangedAfter(toa.last, j)'
      BY <1>1 DEF ChangedAfter
    <2> QED
      BY <2>1, <2>2
  <1>12. \A j : Pending(j) => Pending(j)'
    <2>1. \A j : Pending(j) => After(tiered_out_xid, j)
      BY <1>2, <1>3 DEF Pending
    <2>2. \A j : After(tiered_out_xid, j) => Pending(j)'
      BY <1>1 DEF Pending, ChangedAfter
    <2> QED
      BY <2>1, <2>2
  <1>9. BatchIsFound'
    BY <1>1, <1>6, <1>8 DEF CurrentInv, BatchIsFound
  <1>10. CopiesInOrder'
    BY <1>1, <1>6, <1>12 DEF CurrentInv, CopiesInOrder
  <1>11. SeenIsCurrent'
    BY <1>1, <1>8, <1>12 DEF CurrentInv, SeenIsCurrent
  <1> QED
    BY <1>1, <1>5, <1>7, <1>9, <1>10, <1>11 DEF CurrentInv

\* Steps of the agent outside a batch.
LEMMA OutsideCurrent ==
    ASSUME CurrentInv, HandedInv', ~InBatch, ~InBatch',
           UNCHANGED <<logVars, storeVars, index, tiered_out_xid>>
    PROVE  CurrentInv'
  <1>1. UNCHANGED <<log_deque, fuse, data, kvs>>
    BY DEF logVars, storeVars
  <1>2. \A i : Upcoming(i) = index[i] /\ Upcoming(i)' = index[i]
    BY DEF Upcoming, InBatch
  <1>3. TieredIsCurrent'
    BY <1>1 DEF CurrentInv, TieredIsCurrent, Pending, ChangedAfter, HasPath
  <1>4. CopiesInOrder'
    BY <1>1, <1>2 DEF CurrentInv, CopiesInOrder, Pending, ChangedAfter
  <1> QED
    BY <1>1, <1>3, <1>4
       DEF CurrentInv, BatchIsCurrent, BatchIsFound, SeenIsCurrent, InBatch

\* Reading a batch: a file whose pending changes all end with the batch is in it.
LEMMA ReadCurrent ==
    ASSUME AtomicRead, CurrentInv, HandedInv', SnapshotRead
    PROVE  CurrentInv'
  <1>1. LogInv /\ TypeOK /\ toa.pc = "read"
    BY DEF CurrentInv, HandedInv, SnapshotRead
  <1>2. UNCHANGED <<log_deque, fuse, data, kvs, index, tiered_out_xid>>
    BY DEF SnapshotRead, toaFrame, logVars, storeVars
  <1>3. TieredIsCurrent'
    BY <1>2 DEF CurrentInv, TieredIsCurrent, Pending, ChangedAfter, HasPath
  <1>4. CASE Batch = <<>>
    <2>1. toa' = toa
      BY <1>4 DEF SnapshotRead
    <2> QED
      BY <1>1, <1>2, <1>3, <2>1 DEF CurrentInv, CopiesInOrder, Upcoming, Pending,
         ChangedAfter, BatchIsCurrent, BatchIsFound, SeenIsCurrent, InBatch
  <1>5. CASE Batch # <<>>
    <2>1. /\ toa'.pc = "paths" /\ toa'.last = Batch[Len(Batch)].xid
          /\ toa'.inodes = InodesOf(Batch) /\ toa'.staged = NoFiles
      BY <1>1, <1>5 DEF SnapshotRead, TypeOK
    <2>2. \A i : Upcoming(i) = index[i] /\ Upcoming(i)' = index[i]
      BY <1>1, <1>2, <2>1 DEF Upcoming
    <2>3. CopiesInOrder'
      BY <1>2, <2>2 DEF CurrentInv, CopiesInOrder, Pending, ChangedAfter
    <2>4. BatchIsCurrent'
      <3> SUFFICES ASSUME NEW k \in 1 .. Len(log_deque), NEW i, HasPath(i),
                          i = log_deque[k].inode,
                          ~ChangedAfter(Batch[Len(Batch)].xid, i), i \notin InodesOf(Batch)
                   PROVE  index[i] = data[i]
        BY <1>2, <2>1, <2>2 DEF BatchIsCurrent, ChangedAfter, HasPath, ToCopy
      <3>1. ~Pending(i)
        <4>1. ASSUME NEW m \in 1 .. Len(log_deque), log_deque[m].inode = i,
                     log_deque[m].xid > tiered_out_xid
              PROVE  FALSE
          <5>1. log_deque[m].xid <= Batch[Len(Batch)].xid
            <6>1. Len(Batch) \in 1 .. Len(Batch)
              BY <1>1, <1>5, BatchElements
            <6>2. log_deque[m].xid \in Int /\ Batch[Len(Batch)].xid \in Int
              BY <1>1, <6>1, BatchElements, Numbers DEF LogInv
            <6> QED
              BY <4>1, <6>2 DEF ChangedAfter
          <5>2. \E n \in 1 .. Len(Batch) : Batch[n] = log_deque[m]
            BY <1>1, <1>5, <4>1, <5>1, BatchHasNoHole
          <5> QED
            BY <4>1, <5>2 DEF InodesOf
        <4> QED
          BY <4>1 DEF Pending, ChangedAfter
      <3> QED
        BY <3>1 DEF CurrentInv, TieredIsCurrent
    <2> QED
      BY <1>2, <1>3, <2>1, <2>3, <2>4 DEF CurrentInv, BatchIsFound, SeenIsCurrent
  <1> QED
    BY <1>4, <1>5

\* GetPaths finds every inode of the batch that has a path.
LEMMA PathsCurrent ==
    ASSUME CurrentInv, HandedInv', GetPaths
    PROVE  CurrentInv'
  <1>1. UNCHANGED <<log_deque, fuse, data, kvs, index, tiered_out_xid>>
    BY DEF GetPaths, toaFrame, logVars, storeVars
  <1> DEFINE found == {i \in toa.inodes : HasPath(i)}
  <1>2. /\ toa.pc = "paths" /\ toa'.last = toa.last /\ toa'.staged = NoFiles
        /\ toa'.found = found
        /\ \/ toa'.pc = "copy" /\ toa'.inodes = toa.inodes
           \/ toa'.pc = "advance" /\ toa'.inodes = {} /\ found = {}
    BY DEF CurrentInv, HandedInv, TypeOK, GetPaths
  <1>3. \A i \in Inode : Upcoming(i) = index[i] /\ Upcoming(i)' = index[i]
    BY <1>1, <1>2 DEF Upcoming, NoFiles
  <1>4. TieredIsCurrent'
    BY <1>1 DEF CurrentInv, TieredIsCurrent, Pending, ChangedAfter, HasPath
  <1>5. CopiesInOrder'
    BY <1>1, <1>3 DEF CurrentInv, CopiesInOrder, Pending, ChangedAfter
  <1>6. \A i : (i \in ToCopy /\ HasPath(i)) => i \in found
    BY <1>2 DEF ToCopy
  <1>7. ToCopy' \subseteq ToCopy /\ \A i \in found : i \in ToCopy'
    BY <1>2 DEF ToCopy
  <1>8. \A i : HasPath(i)' = HasPath(i)
    BY <1>1 DEF HasPath
  <1>9. BatchIsCurrent'
    <2> SUFFICES ASSUME NEW k \in 1 .. Len(log_deque), NEW i, HasPath(i),
                        i = log_deque[k].inode
                 PROVE  ChangedAfter(toa.last, i) \/ i \in ToCopy' \/ Upcoming(i)' = data[i]
      BY <1>1, <1>2, <1>8 DEF BatchIsCurrent, ChangedAfter
    <2>1. i \in Inode
      BY DEF CurrentInv, HandedInv, TypeOK, HasPath
    <2>2. ChangedAfter(toa.last, i) \/ i \in ToCopy \/ Upcoming(i) = data[i]
      BY <1>2 DEF CurrentInv, BatchIsCurrent, InBatch
    <2> QED
      BY <1>3, <1>6, <1>7, <2>1, <2>2
  <1>10. BatchIsFound'
    <2>1. \A i \in ToCopy' : HasPath(i) => i \in toa'.found
      BY <1>2, <1>6, <1>7
    <2>2. \A i \in Inode : toa'.staged[i] = Absent
      BY <1>2 DEF NoFiles
    <2> QED
      BY <1>8, <2>1, <2>2 DEF BatchIsFound
  <1> QED
    BY <1>1, <1>2, <1>4, <1>5, <1>9, <1>10 DEF CurrentInv, SeenIsCurrent

\* Segment::Add passes over an inode that is gone, and goes on with others.
LEMMA StatCurrent ==
    ASSUME CurrentInv, HandedInv', NEW i \in Inode, SegmentStat(i)
    PROVE  CurrentInv'
  <1>1. UNCHANGED <<log_deque, fuse, data, kvs, index, tiered_out_xid>>
    BY DEF SegmentStat, StatAs, toaFrame, logVars, storeVars
  <1>2. /\ toa.pc = "copy" /\ toa'.last = toa.last /\ toa'.staged = toa.staged
        /\ toa'.found = toa.found /\ toa'.inodes = toa.inodes \ {i}
        /\ \/ i \in kvs /\ toa'.pc = "add" /\ toa'.inode = i /\ toa'.seen = data[i]
           \/ i \notin kvs /\ toa'.pc = "copy"
    BY DEF CurrentInv, HandedInv, TypeOK, SegmentStat, StatAs
  <1>3. \A j : Upcoming(j)' = Upcoming(j) /\ HasPath(j)' = HasPath(j)
    BY <1>1, <1>2 DEF Upcoming, HasPath
  <1>4. /\ \A j : HasPath(j) /\ j \in ToCopy => j \in ToCopy'
        /\ ToCopy' \subseteq ToCopy
    BY <1>2 DEF ToCopy, HasPath, SegmentStat, StatAs
  <1>5. TieredIsCurrent'
    BY <1>1, <1>3 DEF CurrentInv, TieredIsCurrent, Pending, ChangedAfter
  <1>6. CopiesInOrder'
    BY <1>1, <1>3 DEF CurrentInv, CopiesInOrder, Pending, ChangedAfter
  <1>7. \A x, j : ChangedAfter(x, j)' = ChangedAfter(x, j)
    BY <1>1 DEF ChangedAfter
  <1>8. BatchIsCurrent'
    BY <1>1, <1>2, <1>3, <1>4, <1>7 DEF CurrentInv, BatchIsCurrent, InBatch
  <1>9. BatchIsFound'
    BY <1>1, <1>2, <1>3, <1>4, <1>7 DEF CurrentInv, BatchIsFound
  <1>10. SeenIsCurrent'
    <2>1. i \in kvs => data[i] # Absent
      BY DEF CurrentInv
    <2> QED
      BY <1>1, <1>2, <2>1 DEF SeenIsCurrent
  <1> QED
    BY <1>1, <1>2, <1>5, <1>6, <1>8, <1>9, <1>10 DEF CurrentInv

\* A file that is staged has been found, and inodes with paths of their own do
\* not get in each other's way in the staging directory.
LEMMA StagedApart ==
    ASSUME OwnPaths, NEW i \in Inode, ~Blocked(i)
    PROVE  /\ i \in toa.found \/ i \in Dirs
           /\ \A v : \A j \in Inode \ {i} : Overwritten(j, i, v) = toa.staged[j]
  <1>1. i \notin Dirs => StagedAt(i) # Path[Root]
    BY DEF Blocked
  <1>2. i \notin Dirs => i \in toa.found
    BY <1>1 DEF StagedAt
  <1>3. ASSUME NEW j \in Inode \ {i}, i \notin Dirs PROVE StagedAt(j) # StagedAt(i)
    <2>1. CASE j \in toa.found
      BY <1>2, <1>3, <2>1 DEF StagedAt, OwnPaths
    <2>2. CASE j \notin toa.found
      BY <1>1, <1>3, <2>2 DEF StagedAt
    <2> QED
      BY <2>1, <2>2
  <1> QED
    BY <1>2, <1>3 DEF Overwritten

\* An inode that has been found can be staged.
LEMMA FoundIsFree ==
    ASSUME OwnPaths, CurrentInv, toa.pc = "add", NEW i \in Inode, i \in toa.found
    PROVE  ~Blocked(i)
  <1>1. Root \in Inode /\ Root \in Dirs
    BY LogConstants, ToaConstants
  <1>2. StagedAt(i) = Path[i]
    BY DEF StagedAt
  <1>3. Path[i] = Path[Root] => i = Root
    BY <1>1 DEF OwnPaths
  <1>4. ASSUME NEW j \in Inode, toa.staged[j] # Absent, StagedAt(j) = Path[i]
        PROVE  (j \in Dirs) = (i \in Dirs)
    <2>1. CASE j \in toa.found
      BY <1>4, <2>1 DEF StagedAt, OwnPaths
    <2>2. CASE j \notin toa.found
      <3>1. j \in Dirs
        BY <1>4, <2>2 DEF CurrentInv, BatchIsFound
      <3>2. i \in Dirs
        BY <1>1, <1>3, <1>4, <2>2 DEF StagedAt
      <3> QED
        BY <3>1, <3>2
    <2> QED
      BY <2>1, <2>2
  <1> QED
    BY <1>1, <1>2, <1>3, <1>4 DEF Blocked

\* A copy is made of the file as it is; FUSE may change it right after.
LEMMA AddCurrent ==
    ASSUME OwnPaths, ~IOErrors, CurrentInv, HandedInv', SegmentAdd
    PROVE  CurrentInv'
  <1>0. PICK i : i = toa.inode
    OBVIOUS
  <1>1. UNCHANGED <<log_deque, fuse, data, kvs, index, tiered_out_xid>>
    BY DEF SegmentAdd, AddAs, toaFrame, logVars, storeVars
  <1>2. /\ toa.pc = "add" /\ toa'.pc = "copy" /\ toa'.last = toa.last
        /\ toa'.found = toa.found /\ toa'.inodes = toa.inodes /\ i \in Inode
        /\ data[i] # Absent
        /\ toa.seen = data[i] \/ (ChangedAfter(toa.last, i) /\ Pending(i))
    <2>1. toa.pc = "add"
      BY DEF SegmentAdd, AddAs
    <2>2. /\ data[i] # Absent
          /\ toa.seen = data[i] \/ (ChangedAfter(toa.last, i) /\ Pending(i))
      BY <1>0, <2>1 DEF CurrentInv, SeenIsCurrent
    <2>3. /\ toa'.pc = "copy" /\ toa'.last = toa.last
          /\ toa'.found = toa.found /\ toa'.inodes = toa.inodes /\ i \in Inode
      BY <1>0 DEF CurrentInv, HandedInv, TypeOK, SegmentAdd, AddAs
    <2> QED
      BY <2>1, <2>2, <2>3
  <1>3. \/ Blocked(i) /\ toa'.staged = toa.staged
        \/ /\ ~Blocked(i)
           /\ \E v \in Copied(i, data[i]) :
                 toa'.staged = [j \in Inode |-> Overwritten(j, i, v)]
    <2> DEFINE back == [toa EXCEPT !.pc = "copy", !.inode = Root, !.seen = Absent]
    <2>1. ASSUME toa' = back PROVE toa'.staged = toa.staged
      BY <2>1 DEF CurrentInv, HandedInv, TypeOK
    <2>2. ASSUME NEW f, toa' = [back EXCEPT !.staged = f] PROVE toa'.staged = f
      BY <2>2 DEF CurrentInv, HandedInv, TypeOK
    <2>3. \/ Blocked(i) /\ toa' = back
          \/ /\ ~Blocked(i)
             /\ \E v \in Copied(i, data[i]) :
                   toa' = [back EXCEPT !.staged = [j \in Inode |-> Overwritten(j, i, v)]]
      BY <1>0, Zenon DEF SegmentAdd, AddAs
    <2> HIDE DEF back
    <2> QED
      BY <2>1, <2>2, <2>3
  <1>4. \A v \in Copied(i, data[i]) :
           /\ i \in kvs => v = data[i] \/ (v = Wrong /\ toa.seen # data[i])
           /\ v # Absent
    BY <1>2 DEF Copied, Wrong, Absent
  <1>5. \/ Blocked(i) /\ toa'.staged = toa.staged
        \/ /\ ~Blocked(i)
           /\ \A j \in Inode \ {i} : toa'.staged[j] = toa.staged[j]
           /\ toa'.staged[i] # Absent
           /\ i \in kvs => \/ toa'.staged[i] = data[i]
                           \/ toa'.staged[i] = Wrong /\ toa.seen # data[i]
    <2>1. ASSUME ~Blocked(i), NEW v \in Copied(i, data[i]),
                 toa'.staged = [j \in Inode |-> Overwritten(j, i, v)]
          PROVE  /\ \A j \in Inode \ {i} : toa'.staged[j] = toa.staged[j]
                 /\ toa'.staged[i] # Absent
                 /\ i \in kvs => \/ toa'.staged[i] = data[i]
                                 \/ toa'.staged[i] = Wrong /\ toa.seen # data[i]
      <3>1. \A j \in Inode \ {i} : Overwritten(j, i, v) = toa.staged[j]
        BY <1>2, <2>1, StagedApart
      <3>2. Overwritten(i, i, v) = v
        BY DEF Overwritten
      <3> QED
        BY <1>2, <1>4, <2>1, <3>1, <3>2, Zenon
    <2> QED
      BY <1>3, <2>1
  <1>6. /\ \A j \in Inode \ {i} : Upcoming(j)' = Upcoming(j)
        /\ \/ Upcoming(i)' = Upcoming(i) /\ Blocked(i)
           \/ i \in kvs => \/ Upcoming(i)' = data[i]
                           \/ Upcoming(i)' = Wrong /\ toa.seen # data[i]
    BY <1>1, <1>2, <1>5 DEF Upcoming
  <1>7. \A j : HasPath(j)' = HasPath(j) /\ \A x : ChangedAfter(x, j)' = ChangedAfter(x, j)
    BY <1>1 DEF HasPath, ChangedAfter
  <1>8. ToCopy = toa.inodes \cup {i} /\ ToCopy' = toa.inodes
    BY <1>0, <1>2 DEF ToCopy
  <1>9. TieredIsCurrent'
    BY <1>1, <1>7 DEF CurrentInv, TieredIsCurrent, Pending
  <1>10. CopiesInOrder'
    <2> SUFFICES ASSUME NEW j \in Inode
                 PROVE  /\ data[j] = Absent => index[j] = Absent
                        /\ j \in kvs \/ data[j] = Absent => Upcoming(j)' <= data[j]
                        /\ j \in kvs => Pending(j) \/ index[j] <= Upcoming(j)'
      BY <1>1, <1>7 DEF CopiesInOrder, Pending
    <2>1. /\ data[j] = Absent => index[j] = Absent
          /\ j \in kvs \/ data[j] = Absent => Upcoming(j) <= data[j]
          /\ j \in kvs => Pending(j) \/ index[j] <= Upcoming(j)
          /\ index[j] \in Nat /\ Upcoming(j) \in Nat /\ data[j] \in Nat
      BY CurrentTypes DEF CurrentInv, HandedInv, CopiesInOrder
    <2>2. CASE j # i
      BY <1>6, <2>1, <2>2
    <2>3. CASE j = i
      <3>1. data[j] # 0
        BY <1>2, <2>3 DEF Absent
      <3>2. CASE j \notin kvs
        BY <3>1, <3>2 DEF Absent
      <3>3. CASE j \in kvs
        <4>1. \/ Upcoming(j)' = Upcoming(j)
              \/ Upcoming(j)' = data[j]
              \/ Upcoming(j)' = 1 /\ Pending(j)
          BY <1>2, <1>6, <2>3, <3>3 DEF Wrong
        <4> QED
          BY <2>1, <3>1, <3>3, <4>1 DEF Absent
      <3> QED
        BY <3>2, <3>3
    <2> QED
      BY <2>2, <2>3
  <1>11. BatchIsCurrent'
    <2> SUFFICES ASSUME NEW k \in 1 .. Len(log_deque), NEW j, HasPath(j),
                        j = log_deque[k].inode
                 PROVE  ChangedAfter(toa.last, j) \/ j \in toa.inodes \/ Upcoming(j)' = data[j]
      BY <1>1, <1>2, <1>7, <1>8 DEF BatchIsCurrent
    <2>1. j \in Inode /\ j \in kvs
      BY DEF CurrentInv, HandedInv, TypeOK, HasPath
    <2>2. ChangedAfter(toa.last, j) \/ j \in toa.inodes \cup {i} \/ Upcoming(j) = data[j]
      BY <1>2, <1>8 DEF CurrentInv, BatchIsCurrent, InBatch
    <2>3. CASE j # i
      BY <1>6, <2>1, <2>2, <2>3
    <2>4. CASE j = i
      <3>1. ChangedAfter(toa.last, i) \/ i \in toa.found
        BY <1>2, <1>8, <2>4 DEF CurrentInv, BatchIsFound
      <3>2. i \in toa.found => ~Blocked(i)
        BY <1>2, FoundIsFree
      <3> QED
        BY <1>2, <1>6, <2>1, <2>4, <3>1, <3>2
    <2> QED
      BY <2>3, <2>4
  <1>12. BatchIsFound'
    <2>1. \A j \in ToCopy : HasPath(j) => ChangedAfter(toa.last, j) \/ j \in toa.found
      BY <1>2 DEF CurrentInv, BatchIsFound
    <2>2. \A j \in Inode \ Dirs : toa.staged[j] # Absent => j \in toa.found
      BY <1>2 DEF CurrentInv, BatchIsFound
    <2>3. ~Blocked(i) => i \in toa.found \/ i \in Dirs
      BY <1>2, StagedApart
    <2>4. \A j \in Inode \ Dirs : toa'.staged[j] # Absent => j \in toa.found
      BY <1>2, <1>5, <2>2, <2>3
    <2> QED
      BY <1>2, <1>7, <1>8, <2>1, <2>4 DEF BatchIsFound
  <1> QED
    BY <1>1, <1>2, <1>9, <1>10, <1>11, <1>12 DEF CurrentInv, SeenIsCurrent

\* Commit makes what was upcoming the newest copy.
LEMMA CommitCurrent ==
    ASSUME ~IOErrors, CurrentInv, HandedInv', SegmentCommit
    PROVE  CurrentInv'
  <1>1. UNCHANGED <<log_deque, fuse, data, kvs, tiered_out_xid>>
    BY DEF SegmentCommit, toaFrame, logVars, storeVars
  <1>2. /\ toa.pc = "copy" /\ toa'.pc = "advance" /\ toa'.last = toa.last
        /\ toa.inodes = {} /\ toa'.inodes = {}
    BY DEF CurrentInv, HandedInv, TypeOK, SegmentCommit
  <1>3. \A i \in Inode : index'[i] = Upcoming(i) /\ Upcoming(i)' = Upcoming(i)
    BY <1>2 DEF SegmentCommit, Upcoming
  <1>4. \A i \in Inode : /\ i \in kvs \/ data[i] = Absent => Upcoming(i) <= data[i]
                         /\ i \in kvs => Pending(i) \/ index[i] <= Upcoming(i)
                         /\ index[i] \in Nat /\ Upcoming(i) \in Nat /\ data[i] \in Nat
    BY CurrentTypes DEF CurrentInv, HandedInv, CopiesInOrder
  <1>5. CopiesInOrder'
    BY <1>1, <1>3, <1>4 DEF CopiesInOrder, Absent
  <1>6. \A j : HasPath(j)' = HasPath(j) /\ \A x : ChangedAfter(x, j)' = ChangedAfter(x, j)
    BY <1>1 DEF HasPath, ChangedAfter
  <1>7. \A i : HasPath(i) => i \in Inode /\ i \in kvs
    BY DEF CurrentInv, HandedInv, TypeOK, HasPath
  <1>8. TieredIsCurrent'
    <2> SUFFICES ASSUME NEW k \in 1 .. Len(log_deque), NEW i, HasPath(i),
                        i = log_deque[k].inode
                 PROVE  Pending(i) \/ index'[i] = data[i]
      BY <1>1, <1>6 DEF TieredIsCurrent, Pending
    <2>1. index[i] = data[i] => Pending(i) \/ index'[i] = data[i]
      BY <1>3, <1>4, <1>7
    <2> QED
      BY <2>1 DEF CurrentInv, TieredIsCurrent
  <1>9. BatchIsCurrent'
    <2> SUFFICES ASSUME NEW k \in 1 .. Len(log_deque), NEW i, HasPath(i),
                        i = log_deque[k].inode
                 PROVE  ChangedAfter(toa.last, i) \/ Upcoming(i)' = data[i]
      BY <1>1, <1>2, <1>6 DEF BatchIsCurrent
    <2>1. i \notin ToCopy
      BY <1>2 DEF ToCopy
    <2>2. ChangedAfter(toa.last, i) \/ Upcoming(i) = data[i]
      BY <1>2, <2>1 DEF CurrentInv, BatchIsCurrent, InBatch
    <2> QED
      BY <1>3, <1>7, <2>2
  <1> QED
    BY <1>1, <1>2, <1>5, <1>8, <1>9 DEF CurrentInv, BatchIsFound, SeenIsCurrent

\* The pointer moves to the end of a batch whose copies are in the index.
LEMMA AdvanceCurrent ==
    ASSUME CurrentInv, HandedInv', SnapshotAdvance
    PROVE  CurrentInv'
  <1>1. UNCHANGED <<log_deque, fuse, data, kvs, index>> /\ tiered_out_xid' = toa.last
    BY DEF SnapshotAdvance, toaFrame, logVars, storeVars
  <1>2. toa.pc = "advance" /\ toa.inodes = {} /\ toa'.pc \in {"sample", "clear"}
    BY DEF CurrentInv, HandedInv, TypeOK, SnapshotAdvance
  <1>3. \A i : Upcoming(i) = index[i] /\ Upcoming(i)' = index[i]
    BY <1>1, <1>2 DEF Upcoming
  <1>4. ToCopy = {}
    BY <1>2 DEF ToCopy
  <1>5. TieredIsCurrent'
    BY <1>1, <1>2, <1>3, <1>4 DEF CurrentInv, BatchIsCurrent, InBatch, TieredIsCurrent,
       Pending, ChangedAfter, HasPath
  <1>6. CopiesInOrder'
    <2>1. \A i \in Inode : index[i] \in Nat
      BY CurrentTypes DEF CurrentInv, HandedInv
    <2>2. \A i \in Inode : index[i] <= index[i]
      BY <2>1
    <2> QED
      BY <1>1, <1>3, <2>2 DEF CurrentInv, CopiesInOrder
  <1> QED
    BY <1>1, <1>2, <1>5, <1>6
       DEF CurrentInv, BatchIsCurrent, InBatch, BatchIsFound, SeenIsCurrent

\* One case per action.
LEMMA NextCurrent ==
    ASSUME OwnPaths, AtomicRead, ~IOErrors, CurrentInv, [Next]_vars
    PROVE  CurrentInv'
  <1>1. HandedInv' /\ TypeOK
    BY NextHanded DEF CurrentInv, HandedInv
  <1>2. CASE AgentStep
    <2>1. CASE SnapshotBegin \/ SnapshotSample \/ SnapshotClear \/ Stop
      <3>1. /\ ~InBatch /\ ~InBatch'
            /\ UNCHANGED <<logVars, storeVars, index, tiered_out_xid>>
        BY <1>1, <2>1 DEF SnapshotBegin, SnapshotSample, SnapshotClear, Stop,
           toaFrame, TypeOK, InBatch
      <3> QED
        BY <1>1, <3>1, OutsideCurrent
    <2>2. CASE SnapshotRead
      BY <1>1, <2>2, ReadCurrent
    <2>3. CASE GetPaths
      BY <1>1, <2>3, PathsCurrent
    <2>4. ASSUME NEW i \in Inode, SegmentStat(i) PROVE CurrentInv'
      BY <1>1, <2>4, StatCurrent
    <2>7. CASE SegmentAdd
      BY <1>1, <2>7, AddCurrent
    <2>5. CASE SegmentCommit
      BY <1>1, <2>5, CommitCurrent
    <2>6. CASE SnapshotAdvance
      BY <1>1, <2>6, AdvanceCurrent
    <2> QED
      BY <1>2, <2>1, <2>2, <2>3, <2>4, <2>5, <2>6, <2>7 DEF AgentStep
  <1>3. CASE FuseStep
    <2>1. ASSUME NEW op \in Ops, NEW i \in Inode, Handler(op, i) PROVE CurrentInv'
      BY <1>1, <2>1, HandlerCurrent
    <2>2. ASSUME NEW op \in FailOps, HandlerFails(op) PROVE CurrentInv'
      BY <1>1, <2>2, QuietCurrent DEF HandlerFails, Burn, storeVars
    <2>3. CASE HandlerAppends /\ Stamp
      <3>1. fuse'.pc # "idle" /\ fuse'.inode = fuse.inode
        BY <1>1, <2>3 DEF Stamp, TypeOK, LogTypeOK
      <3> QED
        BY <1>1, <2>3, <3>1, QuietCurrent DEF HandlerAppends, Stamp, storeVars
    <2>4. CASE HandlerAppends /\ Push
      BY <1>1, <2>4, PushCurrent DEF HandlerAppends
    <2>5. ASSUME NEW i \in Forgets, Forget(i) PROVE CurrentInv'
      BY <1>1, <2>5, QuietCurrent DEF Forget, logVars
    <2> QED
      BY <1>3, <2>1, <2>2, <2>3, <2>4, <2>5 DEF FuseStep, HandlerAppends
  <1>4. CASE WebStep
    BY <1>1, <1>4, QuietCurrent DEF WebStep, RequestSnapshot, SnapshotReply,
       RequestStop, logVars, storeVars
  <1>5. CASE UNCHANGED vars
    BY <1>1, <1>5, QuietCurrent DEF vars, logVars, storeVars
  <1> QED
    BY <1>2, <1>3, <1>4, <1>5 DEF Next

\* Without torn reads, I/O errors and namesakes, the inductive invariant always holds.
LEMMA SpecCurrentInv ==
    ASSUME OwnPaths, AtomicRead, ~IOErrors
    PROVE  Spec => []CurrentInv
  <1>1. Init => CurrentInv
    BY InitCurrent
  <1>2. CurrentInv /\ [Next]_vars => CurrentInv'
    BY NextCurrent
  <1> QED
    BY <1>1, <1>2, PTL DEF Spec

\* Without torn reads, I/O errors and two inodes that record one path, a file
\* that has a path and all of whose changes are at or before tiered_out_xid can be restored as it is, although the agent copies
\* files while FUSE changes them and gaps send it back over old entries.
THEOREM SpecTieredIsCurrent ==
    ASSUME OwnPaths, AtomicRead, ~IOErrors
    PROVE  Spec => []TieredIsCurrent
  <1>1. CurrentInv => TieredIsCurrent
    BY DEF CurrentInv
  <1> QED
    BY <1>1, SpecCurrentInv, PTL
---------------------------------------------------------------------------
(* Refinement *)

\* At mount nothing is settled.
LEMMA InitRefines == Init => Store!StoreInit
  <1> SUFFICES ASSUME Init PROVE Store!StoreInit
    OBVIOUS
  <1>1. TypeOK /\ log_deque = <<>> /\ toa.pc = "sleep" /\ CopiesInOrder
    BY InitTypeOK, InitCurrent DEF Init, MountInit, LogInit, CurrentInv
  <1>2. Unsettled = Inode
    BY <1>1 DEF Unsettled
  <1>3. \A i \in Inode : Copies[i] \in Nat /\ Copies[i] <= data[i]
    <2>1. \A i \in Inode : index[i] \in Nat /\ data[i] \in Nat
      BY <1>1 DEF TypeOK
    <2>2. \A i \in Inode : i \in kvs => index[i] <= data[i]
      BY <1>1 DEF CopiesInOrder, Upcoming
    <2>3. \A i \in Inode : Copies[i] = IF i \in kvs THEN index[i] ELSE 0
      BY DEF Copies, Absent
    <2> SUFFICES ASSUME NEW i \in Inode PROVE Copies[i] \in Nat /\ Copies[i] <= data[i]
      OBVIOUS
    <2>4. CASE i \in kvs
      BY <2>1, <2>2, <2>3, <2>4
    <2>5. CASE i \notin kvs
      BY <2>1, <2>3, <2>5
    <2> QED
      BY <2>4, <2>5
  <1>4. Copies \in [Inode -> Nat] /\ data \in [Inode -> Nat]
    BY <1>1, <1>3 DEF Copies, TypeOK
  <1> QED
    BY <1>2, <1>3, <1>4 DEF Store!StoreInit

\* A handler's work is a Change.
LEMMA HandlerRefines ==
    ASSUME CurrentInv, CurrentInv', NEW op \in Ops, NEW i \in Inode, Handler(op, i)
    PROVE  Store!Change(i)
  <1>1. /\ UNCHANGED <<log_deque, index, tiered_out_xid>>
        /\ fuse.pc = "idle" /\ fuse'.pc = "body" /\ fuse'.inode = i
        /\ kvs' \subseteq kvs \cup {i} /\ kvs \subseteq kvs'
    BY DEF Handler, Begin, Creates, Names, toaVars
  <1>2. data \in [Inode -> Nat] /\ data' \in [Inode -> Nat]
    BY DEF CurrentInv, HandedInv, TypeOK
  <1>3. data'[i] >= data[i] /\ \A j \in Inode \ {i} : data'[j] = data[j]
    <2>1. CASE op = "CREAT"
      BY <1>2, <2>1 DEF Handler, Absent, Created
    <2>2. CASE op # "CREAT"
      <3>1. data' = data \/ data' = [data EXCEPT ![i] = @ + 1]
        BY <2>2 DEF Handler
      <3> QED
        BY <1>2, <3>1
    <2> QED
      BY <2>1, <2>2
  <1>4. Unsettled' = Unsettled \cup {i}
    <2>1. \A j \in Inode : j # i => (HasPath(j)' <=> HasPath(j))
      BY HandlerPaths
    <2>2. \A j \in Inode : j # i => (Pending(j)' <=> Pending(j))
      BY <1>1 DEF Pending, ChangedAfter
    <2>3. Pending(i)'
      BY <1>1 DEF Pending, ChangedAfter
    <2> QED
      BY <1>1, <2>1, <2>2, <2>3 DEF Unsettled
  <1>5. Copies' = Copies
    <2>1. i \notin kvs => index[i] = Absent
      <3>1. i \notin kvs => data[i] = Absent
        BY HandlerPaths
      <3> QED
        BY <3>1 DEF CurrentInv, CopiesInOrder
    <2> QED
      BY <1>1, <2>1 DEF Copies
  <1> QED
    BY <1>2, <1>3, <1>4, <1>5 DEF Store!Change

\* Commit is a Save.
LEMMA CommitRefines ==
    ASSUME ~IOErrors, CurrentInv, CurrentInv', SegmentCommit
    PROVE  Store!Save
  <1>1. UNCHANGED <<log_deque, fuse, data, kvs, tiered_out_xid>>
    BY DEF SegmentCommit, toaFrame, logVars, storeVars
  <1>2. \A i \in Inode : index'[i] = Upcoming(i)
    BY DEF SegmentCommit, Upcoming
  <1>3. \A i \in Inode : index[i] \in Nat /\ index'[i] \in Nat /\ data[i] \in Nat
    BY DEF CurrentInv, HandedInv, TypeOK
  <1>4. \A i \in kvs : index'[i] <= data[i] /\ (Pending(i) \/ index[i] <= index'[i])
    <2>1. kvs \subseteq Inode
      BY DEF CurrentInv, HandedInv, TypeOK
    <2> QED
      BY <1>2, <2>1 DEF CurrentInv, CopiesInOrder
  <1>5. \A i \in Inode : Copies'[i] <= data[i] /\ Copies'[i] \in Nat
    BY <1>1, <1>3, <1>4 DEF Copies, Absent
  <1>6. Unsettled' = Unsettled
    BY <1>1 DEF Unsettled, Pending, ChangedAfter, HasPath
  <1>7. \A i \in Inode \ Unsettled : Copies[i] <= Copies'[i]
    <2>1. \A i \in Inode \ Unsettled : i \in kvs /\ ~Pending(i)
      BY DEF Unsettled, HasPath
    <2> QED
      BY <1>1, <1>4, <2>1 DEF Copies
  <1>8. Copies' \in [Inode -> Nat]
    BY <1>5 DEF Copies
  <1> QED
    BY <1>1, <1>5, <1>6, <1>7, <1>8 DEF Store!Save

\* Forget is a Remove: files below a directory that goes lose their paths.
LEMMA ForgetRefines ==
    ASSUME NEW i \in Inode, Forget(i)
    PROVE  Store!Remove(i)
  <1>1. kvs' = kvs \ {i} /\ UNCHANGED <<log_deque, fuse, data, index, tiered_out_xid>>
    BY DEF Forget, logVars, toaVars
  <1>2. Copies' = [Copies EXCEPT ![i] = 0]
    BY <1>1 DEF Copies, Absent
  <1>3. \A j : HasPath(j)' => HasPath(j)
    BY <1>1 DEF HasPath
  <1>4. ~HasPath(i)'
    BY <1>1 DEF HasPath
  <1>5. Unsettled \cup {i} \subseteq Unsettled' /\ Unsettled' \subseteq Inode
    BY <1>1, <1>3, <1>4 DEF Unsettled, Pending, ChangedAfter
  <1> QED
    BY <1>1, <1>2, <1>5 DEF Store!Remove

\* Every other step settles files at most, and those whose copies are current.
LEMMA OthersRefine ==
    ASSUME CurrentInv', UNCHANGED <<data, index, kvs>>
    PROVE  Store!Settle
  <1>1. \A i \in Unsettled \ Unsettled' : i \in kvs' /\ index'[i] = data'[i]
    BY DEF Unsettled, CurrentInv, TieredIsCurrent, HasPath
  <1>2. Unsettled \subseteq Inode /\ Unsettled' \subseteq Inode
    BY DEF Unsettled
  <1>3. Copies' = Copies
    BY DEF Copies
  <1>4. \A i \in Unsettled \ Unsettled' : Copies[i] = data[i]
    BY <1>1, <1>2 DEF Copies
  <1> QED
    BY <1>2, <1>3, <1>4 DEF Store!Settle

\* Without torn reads, I/O errors and namesakes, log, agent, web and FUSE threads together
\* implement the store that TieredStore describes.
THEOREM SpecImplementsStore ==
    ASSUME OwnPaths, AtomicRead, ~IOErrors
    PROVE  Spec => ImplementsStore
  <1>1. CurrentInv /\ CurrentInv' /\ [Next]_vars => [Store!StoreNext]_Store!storeState
    <2> SUFFICES ASSUME CurrentInv, CurrentInv', [Next]_vars PROVE Store!StoreNext
      OBVIOUS
    <2>1. ASSUME NEW op \in Ops, NEW i \in Inode, Handler(op, i) PROVE Store!StoreNext
      BY <2>1, HandlerRefines DEF Store!StoreNext
    <2>2. CASE SegmentCommit
      BY <2>2, CommitRefines DEF Store!StoreNext
    <2>3. CASE UNCHANGED <<data, index, kvs>>
      BY <2>3, OthersRefine DEF Store!StoreNext
    <2>4. AgentStep => SegmentCommit \/ UNCHANGED <<data, index, kvs>>
      BY DEF AgentStep, toaFrame, SnapshotBegin, SnapshotSample, SnapshotRead,
         GetPaths, SegmentStat, StatAs, SegmentAdd, AddAs, SnapshotAdvance, SnapshotClear, Stop,
         storeVars
    <2>7. ASSUME NEW i \in Forgets, Forget(i) PROVE Store!StoreNext
      <3>1. i \in Inode
        BY ToaConstants
      <3> QED
        BY <2>7, <3>1, ForgetRefines DEF Store!StoreNext
    <2>5. ASSUME FuseStep PROVE Store!StoreNext
      BY <2>1, <2>3, <2>5, <2>7 DEF FuseStep, HandlerFails, HandlerAppends,
         storeVars, toaVars
    <2>6. WebStep \/ UNCHANGED vars => UNCHANGED <<data, index, kvs>>
      BY DEF WebStep, RequestSnapshot, SnapshotReply, RequestStop, vars,
         storeVars, toaVars
    <2> QED
      BY <2>2, <2>3, <2>4, <2>5, <2>6 DEF Next
  <1> QED
    BY <1>1, InitRefines, SpecCurrentInv, PTL DEF ImplementsStore, Spec, Store!StoreSpec
=============================================================================

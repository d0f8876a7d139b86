------------------------- MODULE FsChangeLogProofs -------------------------
(***************************************************************************)
(* The log's invariant, for any inodes, workload and number of xids, and   *)
(* what it says about Read.                                                *)
(***************************************************************************)
EXTENDS FsChangeLog, TLAPS

\* The numbers that the rest of the invariant compares.
LEMMA Numbers ==
    ASSUME LogTypeOK
    PROVE  /\ next_xid \in Int /\ fuse.xid \in Int /\ Len(log_deque) \in Nat
           /\ ZerothXid(next_xid) \in Int
           /\ \A k \in 1 .. Len(log_deque) : log_deque[k].xid \in Int
  <1>1. next_xid \in Int /\ fuse.xid \in Int /\ Len(log_deque) \in Nat
    BY LogConstants DEF LogTypeOK
  <1>2. \A k \in 1 .. Len(log_deque) : log_deque[k] \in Entry
    BY DEF LogTypeOK
  <1>3. \A e \in Entry : e.xid \in Int
    BY LogConstants DEF Entry
  <1> QED
    BY <1>1, <1>2, <1>3 DEF ZerothXid

\* The log starts out empty, in createRoot, with every part of LogInv true.
LEMMA LogInitInv == LogInit => LogInv
  <1> SUFFICES ASSUME LogInit PROVE LogInv
    OBVIOUS
  <1> USE LogConstants DEF LogInit, Idle, NoXid, Holding, LogsEarlyXid
  <1>1. LogTypeOK
    BY DEF LogTypeOK, Op, Entry
  <1>2. StrictlyIncreasing /\ IndexBound
    BY DEF StrictlyIncreasing, IndexBound
  <1> QED
    BY <1>1, <1>2 DEF LogInv

\* Begin keeps the invariant: the early xid it takes is the newest one.
LEMMA BeginKeepsInv ==
    ASSUME LogInv, NEW op \in Ops, NEW i \in Inode, Begin(op, i)
    PROVE  LogInv'
  <1> USE LogConstants DEF LogInv, Begin, NoXid
  <1>1. LogTypeOK'
    BY DEF LogTypeOK, Holding, LogsEarlyXid, TakesXidEarly
  <1>2. StrictlyIncreasing'
    BY DEF StrictlyIncreasing
  <1>3. IndexBound'
    BY Numbers DEF IndexBound, Holding, LogsEarlyXid, TakesXidEarly
  <1> QED
    BY <1>1, <1>2, <1>3

\* A failing handler only leaves a gap.
LEMMA BurnKeepsInv ==
    ASSUME LogInv, NEW op \in FailOps, Burn(op)
    PROVE  LogInv'
  <1> USE LogConstants DEF LogInv, Burn, NoXid
  <1>1. LogTypeOK'
    BY DEF LogTypeOK, Holding
  <1>2. StrictlyIncreasing'
    BY DEF StrictlyIncreasing
  <1>3. IndexBound'
    BY Numbers DEF IndexBound, Holding
  <1> QED
    BY <1>1, <1>2, <1>3

\* Stamping turns a handler without an xid into one that holds the newest.
LEMMA StampKeepsInv ==
    ASSUME LogInv, Stamp
    PROVE  LogInv'
  <1>1. StrictlyIncreasing'
    BY DEF LogInv, Stamp, StrictlyIncreasing
  <1>2. CASE fuse.op \in LogsEarlyXid
    <2>1. /\ fuse' = [fuse EXCEPT !.pc = "push"] /\ Holding /\ Holding'
          /\ UNCHANGED <<next_xid, log_deque>>
      BY <1>2 DEF LogInv, LogTypeOK, Stamp, Holding
    <2>2. LogTypeOK'
      BY <2>1 DEF LogInv, LogTypeOK
    <2>3. IndexBound'
      BY <2>1 DEF LogInv, LogTypeOK, IndexBound
    <2> QED
      BY <1>1, <2>2, <2>3 DEF LogInv
  <1>3. CASE fuse.op \notin LogsEarlyXid
    <2>1. /\ fuse' = [fuse EXCEPT !.pc = "push", !.xid = next_xid]
          /\ ~Holding /\ Holding' /\ next_xid <= MaxXid
          /\ next_xid' = next_xid + 1 /\ UNCHANGED log_deque
      BY <1>3 DEF LogInv, LogTypeOK, Stamp, Holding
    <2>2. fuse'.xid = next_xid /\ fuse'.pc = "push"
      BY <2>1 DEF LogInv, LogTypeOK
    <2>3. next_xid \in 1 .. MaxXid
      BY <2>1, LogConstants DEF LogInv, LogTypeOK
    <2>4. fuse' \in [pc : {"idle", "body", "push"}, op : Op, inode : Inode,
                     xid : 0 .. MaxXid]
      <3>1. fuse' = [pc |-> "push", op |-> fuse.op, inode |-> fuse.inode,
                     xid |-> next_xid]
        BY <2>1 DEF LogInv, LogTypeOK
      <3>2. next_xid \in 0 .. MaxXid /\ fuse.op \in Op /\ fuse.inode \in Inode
        BY <2>3, LogConstants DEF LogInv, LogTypeOK
      <3> QED
        BY <3>1, <3>2
    <2>5. LogTypeOK'
      BY <2>1, <2>2, <2>3, <2>4, LogConstants DEF LogInv, LogTypeOK, NoXid
    <2>6. IndexBound'
      BY <2>1, <2>2, Numbers DEF LogInv, IndexBound
    <2> QED
      BY <1>1, <2>5, <2>6 DEF LogInv
  <1> QED
    BY <1>2, <1>3

\* push_back puts the held xid, newer than all others, at the end.
LEMMA PushKeepsInv ==
    ASSUME LogInv, Push
    PROVE  LogInv'
  <1> DEFINE e == [xid |-> fuse.xid, inode |-> fuse.inode, op |-> fuse.op]
  <1>1. e \in Entry /\ log_deque \in Seq(Entry) /\ Holding
    BY LogConstants DEF LogInv, Push, LogTypeOK, Entry, Holding, NoXid
  <1>2. /\ log_deque' \in Seq(Entry)
        /\ Len(log_deque') = Len(log_deque) + 1
        /\ \A k \in 1 .. Len(log_deque) : log_deque'[k] = log_deque[k]
        /\ log_deque'[Len(log_deque) + 1] = e
    <2> HIDE DEF e
    <2>1. log_deque' = Append(log_deque, e)
      BY DEF Push, e
    <2> QED
      BY <1>1, <2>1
  <1>3. LogTypeOK'
    BY <1>2, LogConstants DEF LogInv, Push, LogTypeOK, Idle, Holding, NoXid, Op
  <1>4. /\ e.xid = fuse.xid /\ next_xid' = next_xid /\ fuse.xid < next_xid
        /\ ~Holding'
    BY <1>1 DEF LogInv, LogTypeOK, Push, Idle, Holding
  <1>5. \A k \in 1 .. Len(log_deque) : log_deque[k].xid + (Len(log_deque) - k) < e.xid
    BY <1>1, <1>4 DEF LogInv, IndexBound
  <1>6. /\ e.xid \in Int /\ next_xid \in Int /\ Len(log_deque) \in Nat
        /\ \A k \in 1 .. Len(log_deque) : log_deque[k].xid \in Int
    BY <1>4, Numbers DEF LogInv
  <1> HIDE DEF e
  <1>7. StrictlyIncreasing'
    <2> SUFFICES ASSUME NEW i \in 1 .. Len(log_deque'), NEW j \in 1 .. Len(log_deque'), i < j
                 PROVE  log_deque'[i].xid < log_deque'[j].xid
      BY DEF StrictlyIncreasing
    <2>1. i \in 1 .. Len(log_deque)
      BY <1>2, <1>6
    <2>2. CASE j \in 1 .. Len(log_deque)
      BY <1>2, <2>1, <2>2 DEF LogInv, StrictlyIncreasing
    <2>3. CASE j = Len(log_deque) + 1
      BY <1>2, <1>5, <1>6, <2>1, <2>3
    <2> QED
      BY <1>2, <1>6, <2>2, <2>3
  <1>8. IndexBound'
    <2> SUFFICES ASSUME NEW k \in 1 .. Len(log_deque')
                 PROVE  log_deque'[k].xid + (Len(log_deque') - k) < next_xid'
      BY <1>4 DEF IndexBound
    <2>1. CASE k \in 1 .. Len(log_deque)
      BY <1>2, <1>4, <1>5, <1>6, <2>1
    <2>2. CASE k = Len(log_deque) + 1
      BY <1>2, <1>4, <1>6, <2>2
    <2> QED
      BY <1>2, <1>6, <2>1, <2>2
  <1> QED
    BY <1>3, <1>7, <1>8 DEF LogInv

\* Every step of the writer keeps the invariant; the agents' modules build on it.
LEMMA LogNextInv == LogInv /\ [LogNext]_logVars => LogInv'
  <1> SUFFICES ASSUME LogInv, [LogNext]_logVars PROVE LogInv'
    OBVIOUS
  <1>1. ASSUME NEW op \in Ops, NEW i \in Inode, Begin(op, i) PROVE LogInv'
    BY <1>1, BeginKeepsInv
  <1>2. ASSUME NEW op \in FailOps, Burn(op) PROVE LogInv'
    BY <1>2, BurnKeepsInv
  <1>3. CASE Stamp
    BY <1>3, StampKeepsInv
  <1>4. CASE Push
    BY <1>4, PushKeepsInv
  <1>5. CASE UNCHANGED logVars
    BY <1>5 DEF logVars, LogInv, LogTypeOK, StrictlyIncreasing,
       IndexBound, Holding
  <1> QED
    BY <1>1, <1>2, <1>3, <1>4, <1>5 DEF LogNext

\* The change log and its writer always satisfy LogInv, StrictlyIncreasing
\* among its parts.
THEOREM LogSpecInv == LogSpec => []LogInv
  BY LogInitInv, LogNextInv, PTL DEF LogSpec
---------------------------------------------------------------------------
(* Read *)

\* Where the entries that Read copies come from.
LEMMA ReadElements ==
    ASSUME LogInv, NEW first \in Int, NEW last \in Int
    PROVE  LET lo  == FirstIndex(next_xid, first)
               hi  == LastIndex(next_xid, last)
               got == Read(first, last)
           IN  /\ lo \in Nat /\ hi \in Int /\ hi < Len(log_deque)
               /\ got \in Seq(Entry)
               /\ Len(got) = IF lo <= hi THEN hi - lo + 1 ELSE 0
               /\ \A m \in 1 .. Len(got) : got[m] = log_deque[lo + m]
  <1> DEFINE lo == FirstIndex(next_xid, first)
             hi == LastIndex(next_xid, last)
  <1>1. log_deque \in Seq(Entry)
    BY DEF LogInv, LogTypeOK
  <1>2. lo \in Nat /\ hi \in Int /\ hi < Len(log_deque)
    BY Numbers DEF LogInv, FirstIndex, LastIndex, Max2, Min2
  <1>3. Read(first, last) = SubSeq(log_deque, lo + 1, hi + 1)
    BY DEF Read, ReadAt
  <1> HIDE DEF lo, hi
  <1>4. /\ SubSeq(log_deque, lo + 1, hi + 1) \in Seq(Entry)
        /\ Len(SubSeq(log_deque, lo + 1, hi + 1)) = IF lo <= hi THEN hi - lo + 1 ELSE 0
        /\ \A m \in 1 .. Len(SubSeq(log_deque, lo + 1, hi + 1)) :
              SubSeq(log_deque, lo + 1, hi + 1)[m] = log_deque[lo + m]
    BY <1>1, <1>2
  <1> QED
    BY <1>2, <1>3, <1>4 DEF lo, hi

\* No entry has a larger xid than the one Read computes for its place.
LEMMA PlaceBound ==
    ASSUME LogInv
    PROVE  \A k \in 1 .. Len(log_deque) : log_deque[k].xid <= ZerothXid(next_xid) + k - 1
  BY Numbers DEF LogInv, IndexBound, ZerothXid

\* Read never copies an entry newer than it was asked for.
LEMMA ReadStops ==
    ASSUME LogInv, NEW first \in Int, NEW last \in Int,
           NEW m \in 1 .. Len(Read(first, last))
    PROVE  Read(first, last)[m].xid <= last
  <1> DEFINE lo == FirstIndex(next_xid, first)
             hi == LastIndex(next_xid, last)
             got == Read(first, last)
  <1>1. /\ lo \in Nat /\ hi \in Int /\ hi < Len(log_deque)
        /\ got \in Seq(Entry)
        /\ Len(got) = IF lo <= hi THEN hi - lo + 1 ELSE 0
        /\ got[m] = log_deque[lo + m]
    BY ReadElements
  <1>2. hi <= last - ZerothXid(next_xid)
    BY Numbers DEF LogInv, LastIndex, Min2
  <1> HIDE DEF lo, hi
  <1>3. lo + m \in 1 .. hi + 1 /\ lo + m \in 1 .. Len(log_deque)
    <2> HIDE DEF got
    <2>1. m \in 1 .. Len(got)
      BY DEF got
    <2>2. Len(log_deque) \in Nat
      BY Numbers DEF LogInv
    <2>3. Len(got) # 0 /\ m \in Nat /\ m <= Len(got) /\ m # 0
      BY <2>1, <1>1
    <2>4. lo <= hi /\ m <= hi - lo + 1
      BY <2>3, <1>1
    <2> QED
      BY <1>1, <2>2, <2>3, <2>4
  <1>4. PICK k \in 1 .. Len(log_deque) : k = lo + m
    BY <1>3
  <1>5. log_deque[k].xid <= ZerothXid(next_xid) + k - 1
    BY PlaceBound
  <1>6. log_deque[k].xid \in Int /\ ZerothXid(next_xid) \in Int /\ k <= hi + 1
    BY <1>3, <1>4, Numbers DEF LogInv
  <1>7. log_deque[k].xid <= last
    BY <1>1, <1>2, <1>5, <1>6
  <1> QED
    BY <1>1, <1>4, <1>7

\* Read leaves no hole between first and the newest entry it copied.
LEMMA ReadNoHole ==
    ASSUME LogInv, NEW first \in Int, NEW last \in Int,
           Read(first, last) # <<>>,
           NEW k \in 1 .. Len(log_deque),
           first <= log_deque[k].xid,
           log_deque[k].xid <= Read(first, last)[Len(Read(first, last))].xid
    PROVE  \E m \in 1 .. Len(Read(first, last)) : Read(first, last)[m] = log_deque[k]
  <1> DEFINE lo  == FirstIndex(next_xid, first)
             hi  == LastIndex(next_xid, last)
             got == Read(first, last)
  <1>1. /\ lo \in Nat /\ hi \in Int /\ hi < Len(log_deque)
        /\ got \in Seq(Entry)
        /\ Len(got) = IF lo <= hi THEN hi - lo + 1 ELSE 0
        /\ \A m \in 1 .. Len(got) : got[m] = log_deque[lo + m]
    BY ReadElements
  <1>2. lo = 0 \/ lo = first - ZerothXid(next_xid)
    BY DEF FirstIndex, Max2
  <1>3. log_deque[k].xid <= ZerothXid(next_xid) + k - 1
    BY PlaceBound
  <1>4. /\ log_deque \in Seq(Entry)
        /\ log_deque[k].xid \in Int /\ ZerothXid(next_xid) \in Int
    BY Numbers DEF LogInv, LogTypeOK
  <1> HIDE DEF lo, hi, got
  <1>5. Len(got) # 0
    BY <1>1 DEF got
  <1>6. lo <= hi /\ Len(got) = hi - lo + 1 /\ got[Len(got)] = log_deque[hi + 1]
    BY <1>1, <1>5
  <1>7. k <= hi + 1
    <2>1. hi + 1 \in 1 .. Len(log_deque)
      BY <1>1, <1>6
    <2>2. log_deque[k].xid <= log_deque[hi + 1].xid
      BY <1>6 DEF got
    <2>3. hi + 1 < k => log_deque[hi + 1].xid < log_deque[k].xid
      BY <2>1 DEF LogInv, StrictlyIncreasing
    <2>4. log_deque[hi + 1].xid \in Int
      BY <2>1, Numbers DEF LogInv
    <2> QED
      BY <2>1, <2>2, <2>3, <2>4, <1>4
  <1>8. lo + 1 <= k
    BY <1>1, <1>2, <1>3, <1>4
  <1>9. k - lo \in 1 .. Len(got) /\ got[k - lo] = log_deque[k]
    BY <1>1, <1>6, <1>7, <1>8
  <1> QED
    BY <1>9 DEF got

\* Read never copies past the xid it was asked to stop at, gaps or not.
THEOREM LogSpecReadStops == LogSpec => []ReadStopsAtLast
  <1>1. LogInv => ReadStopsAtLast
    BY ReadStops, LogConstants DEF ReadStopsAtLast
  <1> QED
    BY <1>1, LogSpecInv, PTL

\* Read never leaves out an entry older than one that it copies, gaps or not:
\* an agent that moves its pointer past what it read skips no entry.
THEOREM LogSpecReadNoHole == LogSpec => []ReadHasNoHole
  <1>1. LogInv => ReadHasNoHole
    BY ReadNoHole, LogConstants DEF ReadHasNoHole
  <1> QED
    BY <1>1, LogSpecInv, PTL
=============================================================================

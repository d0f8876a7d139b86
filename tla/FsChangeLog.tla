---------------------------- MODULE FsChangeLog ----------------------------
(***************************************************************************)
(* The change log (src/tiering/fs_change_log.cc) and its only writer, the  *)
(* thread that runs main() and then the FUSE session loop.  A handler of   *)
(* kvfs_mount.cc that changes the file system takes a transaction id (xid) *)
(* from the log, does its work, and appends one entry; the two agents read *)
(* the log from their own threads at any moment in between.                *)
(***************************************************************************)
EXTENDS Integers, Sequences

CONSTANTS
    Inode,      \* inode numbers that entries can name
    Root,       \* ROOT_HANDLE, logged once by createRoot
    Ops,        \* which operations of ChangeLogEntry the workload performs
    FailOps,    \* which of these the workload also has fail
    MaxXid      \* bound: no xid above this one is handed out

Op == {"MKDIR", "CREAT", "SETATTR", "RMDIR", "UNLINK", "LINK", "COMMIT"}

\* Handlers that call NextXid before their work, and the one of these that
\* forgets to put the xid it took into its entry.
TakesXidEarly == {"CREAT", "SETATTR", "RMDIR"}
LogsEarlyXid  == {"CREAT", "SETATTR"}

ASSUME LogConstants ==
    /\ Root \in Inode
    /\ Ops \subseteq Op
    /\ FailOps \subseteq Ops
    /\ MaxXid \in Nat \ {0}

NoXid == 0      \* an entry whose has_xid() is false; real xids start at 1

Entry == [xid : 1 .. MaxXid, inode : Inode, op : Op]

VARIABLES
    next_xid,   \* the xid NextXid() returns next
    log_deque,  \* the entries, oldest first; never trimmed
    fuse        \* the handler in progress: [pc, op, inode, xid]

logVars == <<next_xid, log_deque, fuse>>

Min2(a, b) == IF a < b THEN a ELSE b
Max2(a, b) == IF a > b THEN a ELSE b

---------------------------------------------------------------------------
(* What the agents read. *)

get_last_xid == IF log_deque = <<>> THEN 0 ELSE log_deque[Len(log_deque)].xid

\* The xid that the entry at deque index 0 would have if xids were contiguous.
\* The reader's thread loads next_xid (here n) before it looks at the deque.
ZerothXid(n) == n - Len(log_deque)

\* Off by one: the first entry asked for is left out, or one more is copied.
FirstIndexLate(n, first) == Max2(first - ZerothXid(n) + 1, 0)
LastIndexLate(n, last)   == Min2(last - ZerothXid(n) + 1, Len(log_deque) - 1)

\* Deque indices (from 0) of the first and the last entry that Read copies.
FirstIndex(n, first) == Max2(first - ZerothXid(n), 0)
LastIndex(n, last)   == Min2(last - ZerothXid(n), Len(log_deque) - 1)

\* Read: the entries copied, and the value left in *first_xidp.
ReadAt(n, first, last) ==
    SubSeq(log_deque, FirstIndex(n, first) + 1, LastIndex(n, last) + 1)
ReadFirstXid(n, first) == ZerothXid(n) + FirstIndex(n, first)

\* Read when no handler moves the log meanwhile.
Read(first, last) == ReadAt(next_xid, first, last)

---------------------------------------------------------------------------
(* The writer. *)

Idle == [pc |-> "idle", op |-> "MKDIR", inode |-> Root, xid |-> NoXid]

\* The change log is empty at mount; main() is inside createRoot.
LogInit ==
    /\ next_xid = 1
    /\ log_deque = <<>>
    /\ fuse = [Idle EXCEPT !.pc = "body"]

\* A handler takes its xid, if it takes one early, and does its work.
Begin(op, i) ==
    /\ fuse.pc = "idle"
    /\ next_xid < MaxXid
    /\ fuse' = [pc |-> "body", op |-> op, inode |-> i,
                xid |-> IF op \in TakesXidEarly THEN next_xid ELSE NoXid]
    /\ next_xid' = IF op \in TakesXidEarly THEN next_xid + 1 ELSE next_xid
    /\ UNCHANGED log_deque

\* A handler that took its xid early replies with an error: no entry follows.
Burn(op) ==
    /\ fuse.pc = "idle"
    /\ op \in TakesXidEarly
    /\ next_xid <= MaxXid
    /\ next_xid' = next_xid + 1
    /\ UNCHANGED <<log_deque, fuse>>

\* Append without NextXid: it stamps the entry with next_xid as it stands.
StampUncounted ==
    /\ fuse.pc = "body"
    /\ fuse' = [fuse EXCEPT !.pc = "push",
                            !.xid = IF fuse.op \in LogsEarlyXid THEN @ ELSE next_xid]
    /\ UNCHANGED <<next_xid, log_deque>>

\* First half of Append: an entry without an xid gets a new one.
Stamp ==
    /\ fuse.pc = "body"
    /\ IF fuse.op \in LogsEarlyXid
       THEN /\ fuse' = [fuse EXCEPT !.pc = "push"]
            /\ UNCHANGED next_xid
       ELSE /\ fuse' = [fuse EXCEPT !.pc = "push", !.xid = next_xid]
            /\ next_xid' = next_xid + 1
    /\ UNCHANGED log_deque

\* Second half of Append: push_back.
Push ==
    /\ fuse.pc = "push"
    /\ log_deque' = Append(log_deque,
                       [xid |-> fuse.xid, inode |-> fuse.inode, op |-> fuse.op])
    /\ fuse' = Idle
    /\ UNCHANGED next_xid

LogNext ==
    \/ \E op \in Ops, i \in Inode : Begin(op, i)
    \/ \E op \in FailOps : Burn(op)
    \/ Stamp
    \/ Push

LogSpec == LogInit /\ [][LogNext]_logVars
---------------------------------------------------------------------------
(* Properties *)

\* The handler in progress has taken the xid that its entry will carry.
Holding == fuse.pc = "push" \/ (fuse.pc = "body" /\ fuse.op \in LogsEarlyXid)

LogTypeOK ==
    /\ next_xid \in 1 .. MaxXid + 1
    /\ log_deque \in Seq(Entry)
    /\ fuse \in [pc : {"idle", "body", "push"}, op : Op, inode : Inode,
                 xid : 0 .. MaxXid]
    /\ Holding => fuse.xid # NoXid /\ fuse.xid < next_xid
    /\ fuse.pc = "body" /\ ~Holding => next_xid <= MaxXid

\* Xids in the log are strictly increasing (tiering_out_agent.cc:120), although
\* a handler takes its xid long before it appends.
StrictlyIncreasing ==
    \A i, j \in 1 .. Len(log_deque) : i < j => log_deque[i].xid < log_deque[j].xid

\* The entries after an entry, and the held xid, each took an xid of their own
\* since: the place that Read's arithmetic gives an entry is never too early.
IndexBound ==
    \A k \in 1 .. Len(log_deque) :
        /\ log_deque[k].xid + (Len(log_deque) - k) < next_xid
        /\ Holding => log_deque[k].xid + (Len(log_deque) - k) < fuse.xid

\* The inductive invariant of the log and its writer.
LogInv == LogTypeOK /\ StrictlyIncreasing /\ IndexBound

\* Read never copies an entry newer than the last xid it was asked for.
ReadStopsAtLast ==
    \A first, last \in 0 .. MaxXid + 1 :
        \A k \in 1 .. Len(Read(first, last)) : Read(first, last)[k].xid <= last

\* Read leaves no hole: every entry from first up to the newest one it copied
\* is among those it copied.  The agents rely on it to move their pointers.
ReadHasNoHole ==
    \A first, last \in 0 .. MaxXid + 1 :
        LET got == Read(first, last) IN
        \A k \in 1 .. Len(log_deque) :
            /\ got # <<>>
            /\ first <= log_deque[k].xid
            /\ log_deque[k].xid <= got[Len(got)].xid
            => \E m \in 1 .. Len(got) : got[m] = log_deque[k]
=============================================================================

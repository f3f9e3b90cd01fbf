------------------------------ MODULE StorageLog ------------------------------
(***************************************************************************)
(* Cloud Storage's metadata (LogMetaStore): a map in memory, a snapshot of *)
(* it, and a log of the transactions since, each a line with a checksum.   *)
(* Update runs under one mutex, so its steps meet only failing calls and   *)
(* the end of the process.  The transactions are those that write and      *)
(* remove versions of one object of a versioned bucket; a value is the     *)
(* sequence of generations under a key, empty when the key is absent.      *)
(*                                                                         *)
(* A line that is not whole ends the replay, whatever follows it: the next *)
(* line starts where the torn one stopped.  What was written and not       *)
(* synced may be gone, torn or whole after the process has ended; renames  *)
(* and truncations are taken to last in their order (a truncation that     *)
(* does not is the end of the process one step earlier).                   *)
(***************************************************************************)
EXTENDS Integers, Sequences, SequencesExt, FiniteSetsExt

CONSTANTS MaxTx,         \* bound on transactions
          MaxDiskFaults, \* bound on calls that fail
          CompactAt      \* records a log must have before it is compacted

ASSUME StorageLogAssumption == {MaxTx, MaxDiskFaults, CompactAt} \subseteq Nat

VARIABLES meta,       \* LogMetaStore.data
          snapshot,   \* snapshot.json
          journal,    \* log.jsonl
          logged,     \* logBytes, in records
          update,     \* where Update is, and the operations of its transaction
          promised,   \* what a caller may find: the acknowledged transactions,
                      \* with or without those that ended in an error
          txs,        \* transactions begun
          diskFaults  \* calls that failed

storageLogVars == <<meta, snapshot, journal, logged, update, promised, txs, diskFaults>>

MetaKeys == {"object", "noncurrent"}
Empty == [k \in MetaKeys |-> <<>>]
At0(pc) == [at |-> pc, ops |-> <<>>]

PutOp(k, v) == [key |-> k, kind |-> "put", val |-> v]
AppendOp(k, v) == [key |-> k, kind |-> "append", val |-> v]
DelOp(k) == [key |-> k, kind |-> "del", val |-> <<>>]

\* retireLive: the live version, if any, becomes noncurrent.
RetireLive(m) == IF m["object"] = <<>> THEN <<>>
                 ELSE <<DelOp("object"), AppendOp("noncurrent", m["object"])>>
\* deleteVersion and putNoncurrent: what is kept is written whole, in order:
\* the n-th is the one with fewer than n before it and n up to it.
InOrder(s, gen) ==
    LET kept == {i \in DOMAIN s : s[i] # gen} IN
    [n \in 1..Cardinality(kept) |-> CHOOSE g \in ToSet(s) :
        /\ Cardinality({i \in kept : s[i] < g}) < n
        /\ Cardinality({i \in kept : s[i] <= g}) >= n]
DeleteVersion(m, gen) ==
    LET rest == InOrder(m["noncurrent"], gen) IN
    IF rest = <<>> THEN <<DelOp("noncurrent")>> ELSE <<PutOp("noncurrent", rest)>>
\* finalizeObject; objectsDelete without and with a generation.
Transactions(m) ==
    {RetireLive(m) \o <<PutOp("object", <<txs + 1>>)>>}
    \cup {RetireLive(m) : g \in ToSet(m["object"])}
    \cup {DeleteVersion(m, g) : g \in ToSet(m["noncurrent"])}

\* apply, and commit, which leaves what apply would.
ApplyOp(m, o) == [m EXCEPT ![o.key] = IF o.kind = "append" THEN @ \o o.val ELSE o.val]
ApplyOps(m, ops) ==
    LET applied[n \in 0..Len(ops)] == IF n = 0 THEN m ELSE ApplyOp(applied[n - 1], ops[n])
    IN applied[Len(ops)]

\* replay applies the records before the first torn one.
WholePart(j) == LET torn == {i \in DOMAIN j : ~j[i].whole} IN
    SubSeq(j, 1, IF torn = {} THEN Len(j) ELSE Min(torn) - 1)
Loads(m, j) ==
    LET loaded[n \in 0..Len(j)] == IF n = 0 THEN m ELSE ApplyOps(loaded[n - 1], j[n].ops)
    IN loaded[Len(j)]
Replay(m, j) == Loads(m, WholePart(j))

DiskFails == diskFaults < MaxDiskFaults /\ diskFaults' = diskFaults + 1
\* What callers may find: a transaction under way is there or is not.
Findable == promised \cup (IF update.at # "written" THEN {}
                           ELSE {ApplyOps(p, update.ops) : p \in promised})
Line(ops, whole) == [ops |-> ops, whole |-> whole]
------------------------------------------------------------------------------
\* Update: fn has run and s.log.Write takes the line.
WriteRecord ==
    /\ update.at = "idle" /\ txs < MaxTx /\ txs' = txs + 1
    /\ \E ops \in Transactions(meta) :
          /\ journal' = Append(journal, Line(ops, TRUE))
          /\ update' = [at |-> "written", ops |-> ops]
    /\ UNCHANGED <<meta, snapshot, logged, promised, diskFaults>>

\* s.log.Write fails, with some of the line written or none.
WriteFails ==
    /\ update.at = "idle" /\ txs < MaxTx /\ txs' = txs + 1
    /\ DiskFails
    /\ \E ops \in Transactions(meta) :
          journal' \in {journal, Append(journal, Line(ops, FALSE))}
    /\ UNCHANGED <<meta, snapshot, logged, update, promised>>

\* s.log.Sync succeeds and the writes are committed; then, by the sizes of the
\* log and the data, compact or return.
SyncRecord ==
    /\ update.at = "written"
    /\ logged' = logged + 1
    /\ meta' = ApplyOps(meta, update.ops)
    /\ promised' = {ApplyOps(p, update.ops) : p \in promised}
    /\ \/ update' = At0("idle")
       \/ logged' > CompactAt /\ update' = At0("compact")
    /\ UNCHANGED <<snapshot, journal, txs, diskFaults>>

\* s.log.Sync fails: the caller gets the error, the line stays in the log.
SyncFails ==
    /\ update.at = "written" /\ DiskFails
    /\ \E whole \in BOOLEAN : journal' = [journal EXCEPT ![Len(journal)].whole = whole]
    /\ update' = At0("idle") /\ promised' = Findable
    /\ UNCHANGED <<meta, snapshot, logged, txs>>

\* Mutant: the log is restarted before the snapshot is in place.
WriteSnapshotRestarts ==
    /\ update.at = "compact"
    /\ update' = At0("rename") /\ journal' = <<>>
    /\ UNCHANGED <<meta, snapshot, logged, promised, txs, diskFaults>>
\* compact: the temporary file is written and synced ...
WriteSnapshot ==
    /\ update.at = "compact"
    /\ update' = At0("rename")
    /\ UNCHANGED <<meta, snapshot, journal, logged, promised, txs, diskFaults>>

\* ... renamed to snapshot.json ...
RenameSnapshot ==
    /\ update.at = "rename"
    /\ snapshot' = meta /\ update' = At0("truncate")
    /\ UNCHANGED <<meta, journal, logged, promised, txs, diskFaults>>

\* ... and the log restarts.  The Seek does not fail, and the Sync of an empty
\* log changes nothing that is read.
TruncateLog ==
    /\ update.at = "truncate"
    /\ journal' = <<>> /\ logged' = 0 /\ update' = At0("idle")
    /\ UNCHANGED <<meta, snapshot, promised, txs, diskFaults>>

\* Any call of compact fails: Update returns its error, though it committed.
CompactFails ==
    /\ update.at \in {"compact", "rename", "truncate"} /\ DiskFails
    /\ update' = At0("idle")
    /\ UNCHANGED <<meta, snapshot, journal, logged, promised, txs>>

\* The process ends, at any point.  A line not yet synced is whole, torn or gone.
ProcessEnds ==
    /\ update.at # "down"
    /\ update' = At0("down") /\ promised' = Findable
    /\ IF update.at = "written"
       THEN journal' \in {journal, Front(journal),
                          [journal EXCEPT ![Len(journal)].whole = FALSE]}
       ELSE UNCHANGED journal
    /\ UNCHANGED <<meta, snapshot, logged, txs, diskFaults>>

\* OpenLogMetaStore: replay, and cut the log after what was good.
OpenLog ==
    /\ update.at = "down"
    /\ meta' = Replay(snapshot, journal) /\ promised' = {meta'}
    /\ journal' = WholePart(journal) /\ logged' = Len(journal')
    /\ update' = At0("idle")
    /\ UNCHANGED <<snapshot, txs, diskFaults>>

StorageLogInit ==
    /\ meta = Empty /\ snapshot = Empty /\ promised = {Empty}
    /\ journal = <<>> /\ logged = 0 /\ update = At0("idle") /\ txs = 0 /\ diskFaults = 0

StorageLogNext ==
    \/ WriteRecord \/ WriteFails \/ SyncRecord \/ SyncFails
    \/ WriteSnapshot \/ RenameSnapshot \/ TruncateLog \/ CompactFails
    \/ ProcessEnds \/ OpenLog

StorageLogSpec == StorageLogInit /\ [][StorageLogNext]_storageLogVars
------------------------------------------------------------------------------
SameVersions(m, n) == \A k \in MetaKeys : ToSet(m[k]) = ToSet(n[k])

\* What a restart would load now holds every acknowledged transaction, whole,
\* and nothing else ("a transaction is all or nothing").
AcknowledgedSurvive == \E p \in Findable : SameVersions(Replay(snapshot, journal), p)

\* The same, as long as no line was written after one that is torn: at every
\* point of a write and of a compaction, for every way the process may end.
NothingLost ==
    (\A i \in 1..Len(journal) - 1 : journal[i].whole) => AcknowledgedSurvive

\* A restart loads the same state ("a log that replays onto it harmlessly
\* (every operation is idempotent)").
ReplayHarmless ==
    (\A i \in 1..Len(journal) - 1 : journal[i].whole) =>
        Replay(snapshot, journal) \in Findable
==============================================================================

---------------------------- MODULE StorageEngine ----------------------------
(***************************************************************************)
(* One LSM storage engine of dtdb_storage: the active memtable and its     *)
(* write-ahead-log segment, the queue of sealed memtables, their           *)
(* concurrent flushes to level 0, oldest-first retirement of WAL segments, *)
(* leveled compaction, the manifest, point reads, crashes and recovery.    *)
(*                                                                         *)
(* The value a write stores is the write's number, so a table (a memtable, *)
(* a WAL frame's effect or an SSTable) maps each key to 0 (no entry), n    *)
(* (put by write n) or -n (tombstone of write n).                          *)
(***************************************************************************)
EXTENDS Integers, Sequences, FiniteSets, SequencesExt, FiniteSetsExt

CONSTANTS Keys,          \* finite set of integers: DbKey is totally ordered
          Batches,       \* batches clients submit, [Keys -> {"put","del","none"}]
          ReadSets,      \* the key sets readers ask for in one call
          Cap,           \* max_write_buffer_number - 1
          L0Threshold,   \* l0_compaction_threshold
          L0Stop,        \* l0_stop_writes_trigger
          LevelLimit,    \* size limit of levels 1.., in entries
          TargetSize,    \* sstable_target_size, in entries
          MaxLevel,      \* max_level
          SyncEachWrite, \* TRUE: no wal_sync_interval_ms, every append is fsynced
          TornAppends,   \* TRUE: a failing append may leave part of a frame behind
          LateErrors,    \* TRUE: a manifest append may fail after its edit is durable
          MaxWrites,     \* bound on the number of writes
          MaxFaults,     \* bound on the number of I/O errors
          MaxCrashes,    \* bound on the number of crashes
          MaxManual      \* bound on the flush_memtable / compact calls

ASSUME ConstantsAssumption ==
    /\ Keys \subseteq Int /\ IsFiniteSet(Keys)
    /\ Batches \subseteq [Keys -> {"put", "del", "none"}]
    /\ ReadSets \subseteq SUBSET Keys
    /\ Cap \in Nat \ {0} /\ L0Threshold \in Nat \ {0} /\ L0Stop \in Nat
    /\ LevelLimit \in Nat /\ TargetSize \in Nat \ {0} /\ MaxLevel \in Nat \ {0}
    /\ SyncEachWrite \in BOOLEAN /\ TornAppends \in BOOLEAN /\ LateErrors \in BOOLEAN
    /\ {MaxWrites, MaxFaults, MaxCrashes, MaxManual} \subseteq Nat

VARIABLES
    \* Volatile state of the process.
    mode,        \* "up", "down" (crashed) or "opening" (inside EngineInner::open)
    active,      \* the active memtable
    immutable,   \* Seq of sealed memtables, newest first (MemSet.immutable)
    levels,      \* level |-> set of SSTables readers see (EngineInner.sstables)
    cursor,      \* level |-> last_compacted_keys
    activeWal,   \* active_wal_id
    nextWal,     \* next_wal_id
    nextSst,     \* next_sst_id
    writer,      \* the holder of write_mutex inside commit_coalesced
    tails,       \* flush_immutable callers between Completed and their return
    triggered,   \* a background compaction task is queued or running
    comp,        \* the compaction in progress, under compaction_mutex
    manual,      \* the client thread inside flush_memtable or compact
    reader,      \* a client thread inside get / multi_get / a scan
    \* Durable state.
    wal,         \* segment id |-> [frames, synced]
    files,       \* SSTable files in the directory
    manifest,    \* set of <<level, id>> the manifest names
    \* History and bounds.
    ver,         \* key |-> last committed write that touched it
    failed,      \* writes answered with an error whose frame reached the log
    count        \* writes, faults, crashes and manual calls so far

vars == <<mode, active, immutable, levels, cursor, activeWal, nextWal, nextSst,
          writer, tails, triggered, comp, manual, reader, wal, files, manifest,
          ver, failed, count>>
-----------------------------------------------------------------------------
(* Tables. *)

Levels == 0 .. MaxLevel
Entry  == -MaxWrites .. MaxWrites
Table  == [Keys -> Entry]
Empty  == [k \in Keys |-> 0]

\* The first source with an entry decides, a tombstone like a value: the rule of
\* every read path and of the merge, over the sources' entries for one key, newest
\* source first.
FirstHit(entries) == Head(SelectSeq(entries, LAMBDA e : e # 0) \o <<0>>)

\* What frame [n, batch, whole] does to k, and to a memtable (apply_drain).
Effect(f, k) ==
    CASE f.batch[k] = "put" -> f.n [] f.batch[k] = "del" -> -f.n [] OTHER -> 0
Apply(f, t) == [k \in Keys |-> IF Effect(f, k) # 0 THEN Effect(f, k) ELSE t[k]]

KeysIn(t)  == {k \in Keys : t[k] # 0}
First(t)   == Min(KeysIn(t))
LastKey(t) == Max(KeysIn(t))
InRange(t, k) == First(t) <= k /\ k <= LastKey(t)
Value(e) == IF e > 0 THEN e ELSE 0
-----------------------------------------------------------------------------
(* Reads. *)

ActiveOnly(k) == <<active[k]>>
MemEntries(k) == <<active[k]>> \o [i \in 1 .. Len(immutable) |-> immutable[i].tab[k]]

\* Level 0 is searched newest id first; in a deeper level a binary search over
\* key ranges finds the one file that can hold the key.
OldestL0Hit(S, k) ==
    LET hits == {f \in S : f.tab[k] # 0}
    IN  IF hits = {} THEN 0 ELSE (CHOOSE f \in hits : \A g \in hits : g.id >= f.id).tab[k]
L0Hit(S, k) ==
    LET hits == {f \in S : f.tab[k] # 0}
    IN  IF hits = {} THEN 0 ELSE (CHOOSE f \in hits : \A g \in hits : g.id <= f.id).tab[k]
LevelHit(S, k) ==
    LET hits == {f \in S : InRange(f.tab, k)}
    IN  IF hits = {} THEN 0 ELSE (CHOOSE f \in hits : TRUE).tab[k]
SstEntries(lists, k) ==
    <<L0Hit(lists[0], k)>> \o [l \in 1 .. MaxLevel |-> LevelHit(lists[l], k)]

\* What get(k) returns when nothing else runs.
Get(k) == Value(FirstHit(MemEntries(k) \o SstEntries(levels, k)))
View == [k \in Keys |-> Get(k)]
-----------------------------------------------------------------------------
(* What recovery reads back from the directory. *)

\* FramedLog::recover stops at the first torn frame of a segment.
Readable(frames) ==
    {i \in DOMAIN frames : \A j \in 1 .. i : frames[j].whole}

\* Segments are replayed in id order, so the last readable frame that touches k
\* in the highest such segment decides.
LogHit(w, k) ==
    LET in(id) == {i \in Readable(w[id].frames) : w[id].frames[i].batch[k] # "none"}
        segs   == {id \in DOMAIN w : in(id) # {}}
    IN  IF segs = {} THEN 0 ELSE Effect(w[Max(segs)].frames[Max(in(Max(segs)))], k)

NamedFiles == {f \in files : <<f.level, f.id>> \in manifest}
OnDisk == [l \in Levels |-> {f \in NamedFiles : f.level = l}]
EntryFrom(w, k) == FirstHit(<<LogHit(w, k)>> \o SstEntries(OnDisk, k))
RecoveredFrom(w, k) == Value(EntryFrom(w, k))
Recovered == [k \in Keys |-> RecoveredFrom(wal, k)]
-----------------------------------------------------------------------------
(* Initial state: a fresh directory just opened. *)

Init ==
    /\ mode = "up"
    /\ active = Empty
    /\ immutable = <<>>
    /\ levels = [l \in Levels |-> {}]
    /\ cursor = [l \in Levels |-> Min(Keys) - 1]
    /\ activeWal = 0
    /\ nextWal = 1
    /\ nextSst = 1
    /\ writer = "idle"
    /\ tails = 0
    /\ triggered = FALSE
    /\ comp = [pc |-> "none"]
    /\ manual = "idle"
    /\ reader = [pc |-> "idle"]
    /\ wal = [id \in {0} |-> [frames |-> <<>>, synced |-> 0]]
    /\ files = {}
    /\ manifest = {}
    /\ ver = [k \in Keys |-> 0]
    /\ failed = {}
    /\ count = [writes |-> 0, faults |-> 0, crashes |-> 0, manual |-> 0]
-----------------------------------------------------------------------------
(* Writes: execute_write's leader inside commit_coalesced, under write_mutex. *)

\* await_l0_limit, then the frame is appended to the active segment.
WriteAppend(b) ==
    /\ mode = "up" /\ writer = "idle"
    /\ Cardinality(levels[0]) < L0Stop
    /\ count.writes < MaxWrites
    /\ count' = [count EXCEPT !.writes = @ + 1]
    /\ wal' = [wal EXCEPT ![activeWal].frames =
                  Append(@, [n |-> count.writes + 1, batch |-> b, whole |-> TRUE])]
    /\ writer' = "logged"
    /\ UNCHANGED <<mode, active, immutable, levels, cursor, activeWal, nextWal, nextSst,
                   tails, triggered, comp, manual, reader, files, manifest, ver, failed>>

LoggedFrame == Last(wal[activeWal].frames)

\* The append (its write or its fsync) fails: nothing is applied and every
\* coalesced writer gets the error.  The log keeps nothing of the frame, all of
\* it, or a torn part of it; append_prebuilt_bytes never truncates.
WriteFail ==
    /\ writer = "logged"
    /\ count.faults < MaxFaults
    /\ count' = [count EXCEPT !.faults = @ + 1]
    /\ \/ /\ wal' = [wal EXCEPT ![activeWal].frames = Front(@)]
          /\ UNCHANGED failed
       \/ /\ failed' = failed \cup {LoggedFrame.n}
          /\ UNCHANGED wal
       \/ /\ TornAppends
          /\ wal' = [wal EXCEPT ![activeWal].frames[Len(wal[activeWal].frames)].whole = FALSE]
          /\ UNCHANGED failed
    /\ writer' = "idle"
    /\ UNCHANGED <<mode, active, immutable, levels, cursor, activeWal, nextWal, nextSst,
                   tails, triggered, comp, manual, reader, files, manifest, ver>>

\* Ghost: the answers a read in progress may give, one per state it overlaps.
Overlapping(r, view) ==
    IF r.pc = "sst" THEN [r EXCEPT !.allowed = @ \cup {[k \in r.keys |-> view[k]]}] ELSE r

\* append_prebuilt_bytes fsyncs the file it wrote to unless syncing is periodic.
NeverSynced(seg) == seg.synced
SyncedAfterAppend(seg) == IF SyncEachWrite THEN Len(seg.frames) ELSE seg.synced

\* The append succeeded (and was fsynced, unless syncing is periodic): apply it to
\* the active memtable, and go on to seal it if the memtable or the log is full.
WriteApply ==
    /\ writer = "logged"
    /\ wal' = [wal EXCEPT ![activeWal].synced = SyncedAfterAppend(wal[activeWal])]
    /\ active' = Apply(LoggedFrame, active)
    /\ ver' = [k \in Keys |-> IF LoggedFrame.batch[k] = "none" THEN ver[k] ELSE LoggedFrame.n]
    /\ reader' = Overlapping(reader,
                     [k \in Keys |-> IF Effect(LoggedFrame, k) = 0 THEN Get(k)
                                     ELSE Value(Effect(LoggedFrame, k))])
    /\ \E full \in BOOLEAN : writer' = IF full THEN "seal" ELSE "idle"
    /\ UNCHANGED <<mode, immutable, levels, cursor, activeWal, nextWal, nextSst, tails,
                   triggered, comp, manual, files, manifest, failed, count>>

\* A new, empty segment.
WithSegment(new) == [id \in DOMAIN wal \cup {new} |->
                        IF id = new THEN [frames |-> <<>>, synced |-> 0] ELSE wal[id]]

\* seal_active: new segment, new memtable, the old one queued in front with its
\* level-0 id already fixed.
SealActive(sched) ==
    /\ immutable' = <<[tab |-> active, wal |-> activeWal, sst |-> nextSst,
                       slot |-> "Pending", by |-> "none", sched |-> sched]>> \o immutable
    /\ active' = Empty
    /\ activeWal' = nextWal
    /\ nextWal' = nextWal + 1
    /\ nextSst' = nextSst + 1
    /\ wal' = WithSegment(nextWal)

\* flush_active_in_background: wait for a slot of the immutable queue, seal,
\* schedule a flush task; then the write returns.
WriteSeal ==
    /\ writer = "seal"
    /\ Len(immutable) < Cap
    /\ SealActive(TRUE)
    /\ writer' = "idle"
    /\ UNCHANGED <<mode, levels, cursor, tails, triggered, comp, manual, reader,
                   files, manifest, ver, failed, count>>

\* Making the new segment fails: the ids are spent and an empty segment stays
\* behind.  A write is logged and applied all the same, but its caller gets the
\* error; flush_memtable and compact return it.
SealFail ==
    /\ \/ writer = "seal" /\ Len(immutable) < Cap
       \/ /\ mode = "up" /\ writer = "idle" /\ manual = "idle" /\ active # Empty
          /\ count.manual < MaxManual
    /\ count.faults < MaxFaults
    /\ count' = [count EXCEPT !.faults = @ + 1, !.manual = @ + (IF writer = "seal" THEN 0 ELSE 1)]
    /\ nextWal' = nextWal + 1
    /\ nextSst' = nextSst + 1
    /\ wal' = WithSegment(nextWal)
    /\ writer' = "idle"
    /\ UNCHANGED <<mode, active, immutable, levels, cursor, activeWal, tails, triggered,
                   comp, manual, reader, files, manifest, ver, failed>>

\* sync_wal, the periodic task's and the relational layer's barrier, holds only the
\* active segment.
FirstSegment == Min(DOMAIN wal)
SyncTarget == activeWal
SyncWal ==
    /\ mode = "up" /\ ~SyncEachWrite
    /\ wal[SyncTarget].synced < Len(wal[SyncTarget].frames)
    /\ wal' = [wal EXCEPT ![SyncTarget].synced = Len(wal[SyncTarget].frames)]
    /\ UNCHANGED <<mode, active, immutable, levels, cursor, activeWal, nextWal, nextSst,
                   writer, tails, triggered, comp, manual, reader, files, manifest,
                   ver, failed, count>>
-----------------------------------------------------------------------------
(* Flushing sealed memtables: flush_immutable, claimed through the FlushSlot. *)

Oldest == immutable[Len(immutable)]

\* A background flush task, or a draining client thread at the oldest memtable,
\* finds the slot Pending and claims it.
FlushClaim(i, who) ==
    /\ immutable[i].slot = "Pending"
    /\ \/ who = "bg" /\ immutable[i].sched
       \/ who = "manual" /\ manual \in {"flush", "compact"} /\ i = Len(immutable)
    /\ immutable' = [immutable EXCEPT ![i].slot = "InFlight", ![i].by = who,
                                      ![i].sched = @ /\ who = "manual"]
    /\ UNCHANGED <<mode, active, levels, cursor, activeWal, nextWal, nextSst, writer, tails,
                   triggered, comp, manual, reader, wal, files, manifest, ver, failed, count>>

SstOf(m) == [level |-> 0, id |-> m.sst, tab |-> m.tab]

\* write_immutable_sstable in its three durable stages: the file, the manifest
\* edit, then the level list together with the slot's Completed.
FlushWrite(i) ==
    /\ immutable[i].slot = "InFlight"
    /\ files' = files \cup {SstOf(immutable[i])}
    /\ immutable' = [immutable EXCEPT ![i].slot = "Written"]
    /\ UNCHANGED <<mode, active, levels, cursor, activeWal, nextWal, nextSst, writer, tails,
                   triggered, comp, manual, reader, wal, manifest, ver, failed, count>>

FlushLog(i) ==
    /\ immutable[i].slot = "Written"
    /\ manifest' = manifest \cup {<<0, immutable[i].sst>>}
    /\ immutable' = [immutable EXCEPT ![i].slot = "Logged"]
    /\ UNCHANGED <<mode, active, levels, cursor, activeWal, nextWal, nextSst, writer, tails,
                   triggered, comp, manual, reader, wal, files, ver, failed, count>>

FlushPublish(i) ==
    /\ immutable[i].slot = "Logged"
    /\ levels' = [levels EXCEPT ![0] = @ \cup {SstOf(immutable[i])}]
    /\ immutable' = [immutable EXCEPT ![i].slot = "Completed"]
    /\ tails' = tails + (IF immutable[i].by = "bg" THEN 1 ELSE 0)
    /\ UNCHANGED <<mode, active, cursor, activeWal, nextWal, nextSst, writer, triggered,
                   comp, manual, reader, wal, files, manifest, ver, failed, count>>

\* An I/O error in any stage resets the slot to Pending.  The background task
\* only logs it and still kicks compaction; a client thread returns it.
FlushFail(i) ==
    /\ immutable[i].slot \in {"InFlight", "Written", "Logged"}
    /\ count.faults < MaxFaults
    /\ count' = [count EXCEPT !.faults = @ + 1]
    /\ immutable' = [immutable EXCEPT ![i].slot = "Pending"]
    /\ triggered' = (triggered \/ immutable[i].by = "bg")
    /\ manual' = IF immutable[i].by = "manual" THEN "idle" ELSE manual
    /\ UNCHANGED <<mode, active, levels, cursor, activeWal, nextWal, nextSst, writer, tails,
                   comp, reader, wal, files, manifest, ver, failed>>

\* The background task of a memtable that somebody else already flushed.
FlushSkip(i) ==
    /\ immutable[i].slot = "Completed" /\ immutable[i].sched
    /\ immutable' = [immutable EXCEPT ![i].sched = FALSE]
    /\ tails' = tails + 1
    /\ UNCHANGED <<mode, active, levels, cursor, activeWal, nextWal, nextSst, writer,
                   triggered, comp, manual, reader, wal, files, manifest, ver, failed, count>>

\* One turn of retire_durable_prefix, by a task behind its flush or by a draining
\* client: delete the oldest memtable's segment, then dequeue it.
KeepSegment(id) == wal
WithoutSegment(id) == [i \in DOMAIN wal \ {id} |-> wal[i]]
Retiring == tails > 0 \/ manual \in {"flush", "compact"}
CanRetireLogged == immutable # <<>> /\ Oldest.slot \in {"Logged", "Completed"}
CanRetire == immutable # <<>> /\ Oldest.slot = "Completed"
RetireOne ==
    /\ Retiring /\ CanRetire
    /\ Oldest.wal \in DOMAIN wal
    /\ wal' = WithoutSegment(Oldest.wal)
    /\ immutable' = Front(immutable)
    /\ tails' = tails + (IF Oldest.sched THEN 1 ELSE 0)  \* its task is still queued
    /\ UNCHANGED <<mode, active, levels, cursor, activeWal, nextWal, nextSst, writer,
                   triggered, comp, manual, reader, files, manifest, ver, failed, count>>

\* remove_file or the fsync behind it fails; in the second case the segment is
\* gone, and every later attempt on this memtable fails in remove_file.
RetireFail ==
    /\ CanRetire
    /\ \/ Oldest.wal \notin DOMAIN wal /\ UNCHANGED <<wal, count>>
       \/ /\ Oldest.wal \in DOMAIN wal
          /\ count.faults < MaxFaults
          /\ count' = [count EXCEPT !.faults = @ + 1]
          /\ \/ UNCHANGED wal
             \/ wal' = WithoutSegment(Oldest.wal)
    /\ \/ /\ tails > 0
          /\ tails' = tails - 1 /\ triggered' = TRUE /\ UNCHANGED manual
       \/ /\ manual \in {"flush", "compact"}
          /\ manual' = "idle" /\ UNCHANGED <<tails, triggered>>
    /\ UNCHANGED <<mode, active, immutable, levels, cursor, activeWal, nextWal, nextSst,
                   writer, comp, reader, files, manifest, ver, failed>>

\* Nothing left to retire: the background task kicks compaction and ends.
TailDone ==
    /\ tails > 0 /\ ~CanRetire
    /\ tails' = tails - 1
    /\ triggered' = TRUE
    /\ UNCHANGED <<mode, active, immutable, levels, cursor, activeWal, nextWal, nextSst,
                   writer, comp, manual, reader, wal, files, manifest, ver, failed, count>>
-----------------------------------------------------------------------------
(* Leveled compaction.  compaction_mutex is held over a whole loop of levels: comp
   is "none" when it is free, "next" when its holder looks for the next level. *)

Holds(who) == comp.pc = "none" \/ (comp.pc = "next" /\ comp.by = who)

NoLevel == MaxLevel + 1
SizeOf(S) == FoldSet(LAMBDA f, n : n + Cardinality(KeysIn(f.tab)), 0, S)

\* find_level_to_compact
LevelToCompact ==
    IF Cardinality(levels[0]) >= L0Threshold THEN 0
    ELSE Min({l \in 1 .. MaxLevel - 1 : SizeOf(levels[l]) > LevelLimit} \cup {NoLevel})

\* Every level-0 file; of a deeper level the first file past the cursor, else the
\* first file.
LargestIdOnly(l) ==
    {CHOOSE f \in levels[l] : \A g \in levels[l] : g.id <= f.id}
Source(l) ==
    IF l = 0 THEN levels[0]
    ELSE LET first(S) == CHOOSE f \in S : \A g \in S : First(f.tab) <= First(g.tab)
             past == {f \in levels[l] : First(f.tab) > cursor[l]}
         IN  {first(IF past # {} THEN past ELSE levels[l])}

\* The files of the next level whose range meets the range spanned by src.
Overlaps(l, src) ==
    LET lo == Min({First(f.tab) : f \in src})
        hi == Max({LastKey(f.tab) : f \in src})
    IN  {f \in levels[l + 1] : First(f.tab) <= hi /\ LastKey(f.tab) >= lo}

\* The merge: level-0 files newest id first, then the deeper files, whose ranges
\* are disjoint; a tombstone goes when no file below the target level has a range
\* holding its key.
Merged(l, src, tgt) ==
    LET entry(k) ==
            LET l0   == L0Hit({f \in src : f.level = 0}, k)
                deep == {f \in src : f.level > 0 /\ f.tab[k] # 0}
                low  == {f \in tgt : f.tab[k] # 0}
            IN  IF l0 # 0 THEN l0
                ELSE IF deep \cup low = {} THEN 0
                ELSE (CHOOSE f \in IF deep # {} THEN deep ELSE low : TRUE).tab[k]
        below(k) == \E m \in l + 2 .. MaxLevel : \E f \in levels[m] : InRange(f.tab, k)
    IN  [k \in Keys |-> IF entry(k) < 0 /\ ~below(k) THEN 0 ELSE entry(k)]

\* Cut t into runs of TargetSize entries, one output file each, ids from `id` on.
Outputs(l, t, id) ==
    LET ks == SetToSortSeq(KeysIn(t), <)
        n  == (Len(ks) + TargetSize - 1) \div TargetSize
        run(j) == {ks[i] : i \in ((j - 1) * TargetSize + 1) .. Min({j * TargetSize, Len(ks)})}
    IN  {[level |-> l, id |-> id + j - 1,
          tab |-> [k \in Keys |-> IF k \in run(j) THEN t[k] ELSE 0]] : j \in 1 .. n}

\* compact_level(l) up to its outputs.  The inputs are immutable files, levels
\* below the target change only here, and until the manifest edit the outputs
\* are orphans, so selecting, merging and writing are one step.
CompactBegin(l, who) ==
    LET src == Source(l)
        tgt == Overlaps(l, src)
        out == Outputs(l + 1, Merged(l, src, tgt), nextSst)
    IN  /\ comp' = [pc |-> "merged", level |-> l, old |-> src \cup tgt, out |-> out,
                    last |-> Max({LastKey(f.tab) : f \in src}), by |-> who]
        /\ files' = files \cup out
        /\ nextSst' = nextSst + Cardinality(out)

\* compact_if_needed_locked finds a level over its limit.
CompactLevel(who) ==
    /\ Holds(who)
    /\ IF who = "bg" THEN triggered ELSE manual = "loop"
    /\ LevelToCompact # NoLevel
    /\ CompactBegin(LevelToCompact, who)
    /\ UNCHANGED <<mode, active, immutable, levels, cursor, activeWal, nextWal, writer, tails,
                   triggered, manual, reader, wal, manifest, ver, failed, count>>

\* compact() merges level 0 whatever its size, then goes on like the above.
CompactManual ==
    /\ comp.pc = "none" /\ manual = "merge"
    /\ manual' = "loop"
    /\ IF levels[0] # {} THEN CompactBegin(0, "manual")
       ELSE comp' = [pc |-> "next", by |-> "manual"] /\ UNCHANGED <<files, nextSst>>
    /\ UNCHANGED <<mode, active, immutable, levels, cursor, activeWal, nextWal, writer, tails,
                   triggered, reader, wal, manifest, ver, failed, count>>

Names(S) == {<<f.level, f.id>> : f \in S}

\* One manifest batch removes the inputs and adds the outputs.
Swapped == (manifest \ Names(comp.old)) \cup Names(comp.out)
CompactCommit ==
    /\ comp.pc = "merged"
    /\ manifest' = Swapped
    /\ comp' = [comp EXCEPT !.pc = "committed"]
    /\ UNCHANGED <<mode, active, immutable, levels, cursor, activeWal, nextWal, nextSst,
                   writer, tails, triggered, manual, reader, wal, files, ver, failed, count>>

\* The level lists are swapped, the inputs deleted, the cursor moved.
CompactSwap ==
    /\ comp.pc = "committed"
    /\ levels' = [levels EXCEPT ![comp.level] = @ \ comp.old,
                                ![comp.level + 1] = (@ \ comp.old) \cup comp.out]
    /\ files' = files \ comp.old
    /\ cursor' = IF comp.level > 0 THEN [cursor EXCEPT ![comp.level] = comp.last] ELSE cursor
    /\ comp' = [pc |-> "next", by |-> comp.by]
    /\ UNCHANGED <<mode, active, immutable, activeWal, nextWal, nextSst, writer, tails,
                   triggered, manual, reader, wal, manifest, ver, failed, count>>

\* An I/O error: the task ends (the client call returns it), outputs stay behind
\* as orphans.  A late error leaves the manifest edit durable but unused.  A kick
\* that arrived while the background task ran has queued one more run of it.
CompactFail ==
    /\ comp.pc = "merged"
    /\ count.faults < MaxFaults
    /\ count' = [count EXCEPT !.faults = @ + 1]
    /\ \/ UNCHANGED manifest
       \/ LateErrors /\ manifest' = Swapped
    /\ \E again \in BOOLEAN : triggered' = IF comp.by = "manual" THEN triggered ELSE again
    /\ manual' = IF comp.by = "manual" THEN "idle" ELSE manual
    /\ comp' = [pc |-> "none"]
    /\ UNCHANGED <<mode, active, immutable, levels, cursor, activeWal, nextWal, nextSst,
                   writer, tails, reader, wal, files, ver, failed>>

\* No level is over its limit: the background task ends.
CompactIdle ==
    /\ triggered /\ Holds("bg") /\ LevelToCompact = NoLevel
    /\ triggered' = FALSE
    /\ comp' = [pc |-> "none"]
    /\ UNCHANGED <<mode, active, immutable, levels, cursor, activeWal, nextWal, nextSst,
                   writer, tails, manual, reader, wal, files, manifest, ver, failed, count>>
-----------------------------------------------------------------------------
(* A client thread in flush_memtable ("flush") or compact ("compact"). *)

\* Seal under write_mutex, without waiting for a slot of the queue.
ManualStart(kind) ==
    /\ mode = "up" /\ manual = "idle" /\ writer = "idle"
    /\ count.manual < MaxManual
    /\ count' = [count EXCEPT !.manual = @ + 1]
    /\ manual' = kind
    /\ IF active = Empty THEN UNCHANGED <<active, immutable, activeWal, nextWal, nextSst, wal>>
       ELSE SealActive(FALSE)
    /\ UNCHANGED <<mode, levels, cursor, writer, tails, triggered, comp, reader, files,
                   manifest, ver, failed>>

\* flush_pending found the queue empty.
ManualDrained ==
    /\ manual \in {"flush", "compact"} /\ immutable = <<>>
    /\ manual' = IF manual = "flush" THEN "idle" ELSE "merge"
    /\ triggered' = (triggered \/ manual = "flush")
    /\ UNCHANGED <<mode, active, immutable, levels, cursor, activeWal, nextWal, nextSst,
                   writer, tails, comp, reader, wal, files, manifest, ver, failed, count>>

ManualDone ==
    /\ manual = "loop" /\ Holds("manual") /\ LevelToCompact = NoLevel
    /\ manual' = "idle"
    /\ comp' = [pc |-> "none"]
    /\ UNCHANGED <<mode, active, immutable, levels, cursor, activeWal, nextWal, nextSst,
                   writer, tails, triggered, reader, wal, files, manifest, ver, failed,
                   count>>
-----------------------------------------------------------------------------
(* Reads: get, multi_get and scans look at the memtables under one lock, and at
   the level lists under another. *)

ReadStart(R) ==
    /\ mode = "up" /\ reader.pc = "idle"
    /\ reader' = [pc |-> "sst", keys |-> R, mem |-> [k \in R |-> FirstHit(MemEntries(k))],
                  allowed |-> {[k \in R |-> View[k]]}]
    /\ UNCHANGED <<mode, active, immutable, levels, cursor, activeWal, nextWal, nextSst,
                   writer, tails, triggered, comp, manual, wal, files, manifest, ver,
                   failed, count>>

\* The answer: a memory hit shadows the tables below.
Answer == [k \in reader.keys |->
              Value(FirstHit(<<reader.mem[k]>> \o SstEntries(levels, k)))]

ReadSst ==
    /\ reader.pc = "sst"
    /\ reader' = [pc |-> "idle"]
    /\ UNCHANGED <<mode, active, immutable, levels, cursor, activeWal, nextWal, nextSst,
                   writer, tails, triggered, comp, manual, wal, files, manifest, ver,
                   failed, count>>
-----------------------------------------------------------------------------
(* Crash and recovery. *)

\* The frames each segment may be cut to: what was fsynced always survives.
Cuts == {c \in [DOMAIN wal -> 0 .. MaxWrites] :
             \A id \in DOMAIN wal : c[id] \in wal[id].synced .. Len(wal[id].frames)}

CutTo(c) == [id \in DOMAIN wal |->
                [frames |-> SubSeq(wal[id].frames, 1, c[id]), synced |-> c[id]]]

\* Ghost: the writes touching k that recovery finds in the log.
Touched(w, k) ==
    UNION {{w[id].frames[i].n : i \in {j \in Readable(w[id].frames) :
                                          w[id].frames[j].batch[k] # "none"}} : id \in DOMAIN w}

\* The process dies; all volatile state goes back to what open starts from.
Crash ==
    /\ mode # "down"
    /\ count.crashes < MaxCrashes
    /\ count' = [count EXCEPT !.crashes = @ + 1]
    /\ \E c \in Cuts :
          /\ wal' = CutTo(c)
          /\ ver' = [k \in Keys |-> Max({ver[k]} \cup Touched(wal', k))]
    /\ mode' = "down"
    /\ active' = Empty /\ immutable' = <<>> /\ levels' = [l \in Levels |-> {}]
    /\ cursor' = [l \in Levels |-> Min(Keys) - 1]
    /\ activeWal' = 0 /\ nextWal' = 0 /\ nextSst' = 0
    /\ writer' = "idle" /\ tails' = 0 /\ triggered' = FALSE /\ comp' = [pc |-> "none"]
    /\ manual' = "idle" /\ reader' = [pc |-> "idle"] /\ failed' = {}
    /\ UNCHANGED <<files, manifest>>

\* EngineInner::open: drop orphans, load the levels the manifest names, replay all
\* segments in id order into one new level-0 table above every id in use, and
\* record it.  The segments are deleted only after that.
OpenReplay ==
    LET t    == [k \in Keys |-> LogHit(wal, k)]
        top  == Max({0} \cup {f.id : f \in NamedFiles})
        new  == IF t = Empty THEN {} ELSE {[level |-> 0, id |-> top + 1, tab |-> t]}
    IN  /\ mode = "down"
        /\ mode' = "opening"
        /\ files' = NamedFiles \cup new
        /\ manifest' = manifest \cup Names(new)
        /\ levels' = [l \in Levels |-> OnDisk[l] \cup {f \in new : f.level = l}]
        /\ nextSst' = top + Cardinality(new) + 1
        /\ activeWal' = Max({-1} \cup DOMAIN wal) + 1
        /\ UNCHANGED <<active, immutable, cursor, nextWal, writer, tails, triggered, comp,
                       manual, reader, wal, ver, failed, count>>

\* The replayed segments go one by one, oldest first.
OpenRemove ==
    /\ mode = "opening" /\ DOMAIN wal # {}
    /\ wal' = WithoutSegment(Min(DOMAIN wal))
    /\ UNCHANGED <<mode, active, immutable, levels, cursor, activeWal, nextWal, nextSst,
                   writer, tails, triggered, comp, manual, reader, files, manifest, ver,
                   failed, count>>

OpenDone ==
    /\ mode = "opening" /\ DOMAIN wal = {}
    /\ mode' = "up"
    /\ wal' = [id \in {activeWal} |-> [frames |-> <<>>, synced |-> 0]]
    /\ nextWal' = activeWal + 1
    /\ UNCHANGED <<active, immutable, levels, cursor, activeWal, nextSst, writer, tails,
                   triggered, comp, manual, reader, files, manifest, ver, failed, count>>
-----------------------------------------------------------------------------
Write   == (\E b \in Batches : WriteAppend(b)) \/ WriteFail \/ WriteApply \/ WriteSeal
           \/ SealFail \/ SyncWal
FlushOf(i) == FlushClaim(i, "bg") \/ FlushClaim(i, "manual") \/ FlushWrite(i) \/ FlushLog(i)
              \/ FlushPublish(i) \/ FlushFail(i) \/ FlushSkip(i)
Flush   == (\E i \in 1 .. Len(immutable) : FlushOf(i)) \/ RetireOne \/ RetireFail \/ TailDone
Compact == CompactLevel("bg") \/ CompactLevel("manual") \/ CompactManual \/ CompactCommit
           \/ CompactSwap \/ CompactFail \/ CompactIdle
Manual  == (\E kind \in {"flush", "compact"} : ManualStart(kind)) \/ ManualDrained \/ ManualDone
Read    == (\E R \in ReadSets : ReadStart(R)) \/ ReadSst
Restart == Crash \/ OpenReplay \/ OpenRemove \/ OpenDone

Next == Write \/ Flush \/ Compact \/ Manual \/ Read \/ Restart

Spec == Init /\ [][Next]_vars
-----------------------------------------------------------------------------
(* Properties. *)

Frame   == [n : 1 .. MaxWrites, batch : Batches, whole : BOOLEAN]
Sstable == [level : Levels, id : Nat, tab : Table]
Sealed  == [tab : Table, wal : Nat, sst : Nat, sched : BOOLEAN,
            slot : {"Pending", "InFlight", "Written", "Logged", "Completed"},
            by : {"none", "bg", "manual"}]

\* Every variable keeps the shape the actions rely on; each table a level lists
\* is recorded under that level.
TypeOK ==
    /\ mode \in {"up", "down", "opening"}
    /\ active \in Table
    /\ \A i \in DOMAIN immutable : immutable[i] \in Sealed
    /\ DOMAIN levels = Levels
    /\ \A l \in Levels : \A f \in levels[l] : f \in Sstable /\ f.level = l
    /\ cursor \in [Levels -> Keys \cup {Min(Keys) - 1}]
    /\ {activeWal, nextWal, nextSst, tails} \subseteq Nat
    /\ writer \in {"idle", "logged", "seal"}
    /\ triggered \in BOOLEAN
    /\ comp.pc \in {"none", "next", "merged", "committed"}
    /\ manual \in {"idle", "flush", "compact", "merge", "loop"}
    /\ reader.pc \in {"idle", "sst"}
    /\ DOMAIN wal \subseteq Nat
    /\ \A id \in DOMAIN wal :
          /\ \A i \in DOMAIN wal[id].frames : wal[id].frames[i] \in Frame
          /\ wal[id].synced \in 0 .. Len(wal[id].frames)
    /\ \A f \in files : f \in Sstable
    /\ manifest \subseteq Levels \X Nat
    /\ ver \in [Keys -> 0 .. MaxWrites]
    /\ failed \subseteq 1 .. MaxWrites

\* The engine implements KVStore: flushes, retirement, compaction, failed I/O and
\* recovery are invisible, every acknowledged batch survives a crash, and an
\* unacknowledged one takes effect as a whole or not at all.
KV == INSTANCE KVStore WITH
    kv <- IF mode = "up" THEN View ELSE Recovered,
    unacked <- UNION {{[n |-> f.n, batch |-> f.batch] : f \in
                         {g \in ToSet(wal[id].frames) :
                             g.whole /\ (g.n \in failed
                                         \/ (writer = "logged" /\ g = LoggedFrame))}}
                      : id \in DOMAIN wal}
RefinesKV == KV!Spec

\* A read finds what the last committed write of its key stored: L0 precedence and
\* level order never surface an overwritten value (seal_active's id comment,
\* engine.rs 1952-1954), and a key that no client deletes is never missed.
NeverStale ==
    mode = "up" => \A k \in Keys :
        View[k] = ver[k] \/ (View[k] = 0 /\ \E b \in Batches : b[k] = "del")

\* Searching memtables, then L0 by id, then deeper levels visits each key's
\* entries from newest to oldest.
Num(e) == IF e < 0 THEN -e ELSE e
Newer(t, u) == \A k \in Keys : t[k] # 0 /\ u[k] # 0 => Num(t[k]) >= Num(u[k])
LsmOrder ==
    LET lv   == IF mode = "up" THEN levels ELSE OnDisk
        mem  == <<active>> \o [i \in 1 .. Len(immutable) |-> immutable[i].tab]
    IN  /\ \A i, j \in DOMAIN mem : i < j => Newer(mem[i], mem[j])
        /\ \A l \in Levels : \A f \in lv[l] :
              /\ \A i \in DOMAIN mem : Newer(mem[i], f.tab)
              /\ \A g \in lv[0] : l = 0 /\ g.id < f.id => Newer(f.tab, g.tab)
              /\ \A m \in l + 1 .. MaxLevel : \A g \in lv[m] : Newer(f.tab, g.tab)

\* The binary search of get and multi_get needs disjoint ranges in every level
\* below 0, in memory and in the directory a crash leaves behind.
LevelsDisjoint ==
    \A lv \in {levels, OnDisk} : \A l \in 1 .. MaxLevel : \A f, g \in lv[l] :
        f # g => LastKey(f.tab) < First(g.tab) \/ LastKey(g.tab) < First(f.tab)

\* Recovery skips a name without a file silently, so the manifest never names a
\* table that is not there.
ManifestNamesFiles == manifest \subseteq Names(files)

\* What reads and recovery take for granted of the files, at every step of a flush, a
\* compaction and a recovery, and in the directory a crash leaves: a well-typed state
\* with levels that are searched newest first, disjoint below 0, and named completely.
FilesSound == TypeOK /\ LsmOrder /\ LevelsDisjoint /\ ManifestNamesFiles

\* "the segments left on disk are always a contiguous newest-suffix of the seal
\* order" (retire_durable_prefix): no sealed segment outlives a newer one, and a
\* segment holding frames belongs to a memtable still in memory.
WalSuffix ==
    mode = "up" =>
        /\ activeWal \in DOMAIN wal
        /\ \A i, j \in DOMAIN immutable :
              i < j /\ immutable[j].wal \in DOMAIN wal => immutable[i].wal \in DOMAIN wal
        /\ \A id \in DOMAIN wal : wal[id].frames # <<>> =>
              id = activeWal \/ \E i \in DOMAIN immutable : immutable[i].wal = id

\* "A crash before this completes leaves the segment on disk; recovery replays it
\* idempotently into a new SSTable" (retire_durable_prefix): once a memtable's
\* table is in the manifest, no crash brings back something older than it.
FlushedSurvives ==
    mode = "up" =>
        \A i \in DOMAIN immutable : <<0, immutable[i].sst>> \in manifest =>
            \A c \in Cuts : \A k \in KeysIn(immutable[i].tab) :
                Num(EntryFrom(CutTo(c), k)) >= Num(immutable[i].tab[k])

\* In periodic-sync mode a sync_wal leaves only the sealed, not yet retired
\* memtables exposed: every other key would survive a crash right after it.
Synced == [id \in DOMAIN wal |-> [wal[id] EXCEPT !.frames = SubSeq(@, 1, wal[id].synced)]]
SurvivesCrash(k) == RecoveredFrom(Synced, k) = Get(k)
Exposed(k) == active[k] = 0 /\ \E i \in DOMAIN immutable : immutable[i].tab[k] # 0
SyncCovers ==
    [][SyncWal /\ writer # "logged" => (\A k \in Keys : Exposed(k) \/ SurvivesCrash(k))']_vars

\* A read overlapping writes, flushes, retirement and compaction answers with the
\* state of some moment between its start and its end.
ReadsAtomic ==
    [][reader.pc = "sst" /\ reader'.pc = "idle" /\ mode' = "up"
           => Answer \in reader.allowed]_vars

\* "up to `interval_ms` of work can be lost on crash" (configuration.md): what
\* was applied before a sync tick survives a crash after it.
SyncIsBarrier ==
    [][SyncWal /\ writer # "logged" => (\A k \in Keys : SurvivesCrash(k))']_vars
=============================================================================

------------------------------ MODULE LogStore ------------------------------
(***************************************************************************)
(* inmem_log_store (src/examples/in_memory_log_store.cxx), the log store   *)
(* of the examples and tests: a map from indices to entries and a start    *)
(* index; the next slot is computed from the number of entries.  An entry  *)
(* is its term; a missing one reads as the dummy entry of term 0.  Each    *)
(* operation runs under logs_lock_.                                        *)
(***************************************************************************)
EXTENDS Naturals, Sequences, FiniteSets

CONSTANTS LogTerm,      \* the terms
          MaxLogIdx     \* bound on the indices

ASSUME LogStoreAssumption == LogTerm \subseteq Nat \ {0} /\ MaxLogIdx \in Nat

VARIABLE store          \* logs_ without the dummy entry, and start_idx_

EmptyMap == [i \in {} |-> 0]

StoreInit == store = [logs |-> EmptyMap, start |-> 1]

-----------------------------------------------------------------------------
\* next_slot(): from the size of the map.
NextSlot(s) == s.start + Cardinality(DOMAIN s.logs)

\* term_at, entry_at: a missing entry has term 0.
TermAt(s, i) == IF i \in DOMAIN s.logs THEN s.logs[i] ELSE 0

\* log_entries, log_entries_ext without a size limit, and pack.
LogEntries(s, i, n) == [k \in 1..n |-> TermAt(s, i + k - 1)]

\* The entries of a map with indices in D, and those of a sequence from i on.
With(logs, D, i, seq) ==
    [j \in D \cup i..(i + Len(seq) - 1) |->
        IF j \in i..(i + Len(seq) - 1) THEN seq[j - i + 1] ELSE logs[j]]

AppendLog(t) ==
    /\ NextSlot(store) <= MaxLogIdx
    /\ store' = [store EXCEPT !.logs = With(@, DOMAIN @, NextSlot(store), <<t>>)]

\* write_at, for an index of the log: all entries from there on go first.
WriteAt(i, t) ==
    /\ i \in DOMAIN store.logs
    /\ store' = [store EXCEPT !.logs = With(@, {j \in DOMAIN @ : j < i}, i, <<t>>)]

\* Slip: the start index moves no further than there are entries to erase.
CompactStored(upto) ==
    store' = [logs |-> [j \in {j \in DOMAIN store.logs : j > upto} |-> store.logs[j]],
              start |-> IF upto \in DOMAIN store.logs THEN upto + 1 ELSE store.start]

\* compact: the start index moves even if nothing was erased.
Compact(upto) ==
    store' = [logs |-> [j \in {j \in DOMAIN store.logs : j > upto} |-> store.logs[j]],
              start |-> IF store.start <= upto THEN upto + 1 ELSE store.start]

\* apply_pack on a server that joins: the pack starts at its next slot, or the
\* log is empty.  The start index is that of the first entry.
ApplyPack(i, pack) ==
    /\ pack # <<>> /\ (i = NextSlot(store) \/ DOMAIN store.logs = {})
    /\ i + Len(pack) <= MaxLogIdx + 1
    /\ store' = [logs |-> With(store.logs, DOMAIN store.logs, i, pack),
                 start |-> IF DOMAIN store.logs = {} THEN i ELSE store.start]

Packs == {<<t>> : t \in LogTerm} \cup {<<t, u>> : t, u \in LogTerm}

StoreNext ==
    \/ \E t \in LogTerm : AppendLog(t)
    \/ \E i \in 1..MaxLogIdx, t \in LogTerm : WriteAt(i, t)
    \/ \E i \in 1..MaxLogIdx : Compact(i)
    \/ \E i \in 1..MaxLogIdx, pack \in Packs : ApplyPack(i, pack)

StoreSpec == StoreInit /\ [][StoreNext]_store

-----------------------------------------------------------------------------
(* The indices have no gap, so that next_slot(), which counts entries, is the*)
(* index after the last one, after any sequence of appends, overwrites,      *)
(* compactions beyond the end and packs.                                     *)
NoGap == DOMAIN store.logs = store.start..(NextSlot(store) - 1)

(* The store is the log that the Raft core relies on: an append adds one     *)
(* entry at the end, an overwrite truncates what follows, a compaction takes *)
(* away entries at the front only, and a pack extends the log.               *)
Log == INSTANCE AbstractLog WITH
    Entry <- LogTerm,
    base <- store.start - 1,
    entries <- LogEntries(store, store.start, Cardinality(DOMAIN store.logs))

StoreIsALog == Log!LogSpec
=============================================================================

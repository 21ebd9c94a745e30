---------------------------- MODULE AbstractLog ----------------------------
(***************************************************************************)
(* What log_store (src/include/libnuraft/log_store.hxx) promises the Raft  *)
(* core: a sequence of entries after a base index, of which the first may  *)
(* be compacted away and the last replaced, and nothing else changes.      *)
(***************************************************************************)
EXTENDS Naturals, Sequences

CONSTANT Entry      \* the entries (their terms)

VARIABLES base,     \* the index of the last compacted entry
          entries   \* the entries after it

LogInit == base = 0 /\ entries = <<>>

AppendOne == /\ \E e \in Entry : entries' = Append(entries, e)
             /\ UNCHANGED base

\* The entry at k is replaced and what follows it is truncated.
Overwrite == \E k \in 1..Len(entries), e \in Entry :
                /\ entries' = Append(SubSeq(entries, 1, k - 1), e)
                /\ UNCHANGED base

\* Everything up to an index goes, whether the log reaches it or not.
Purge == /\ base' \in Nat /\ base' > base
         /\ entries' = SubSeq(entries, base' - base + 1, Len(entries))

\* Entries from the leader of the cluster that is joined: at the end, or the
\* first ones of an empty log at any index.
Extend == /\ entries' \in Seq(Entry) /\ Len(entries') > Len(entries)
          /\ SubSeq(entries', 1, Len(entries)) = entries
          /\ base' = base \/ (entries = <<>> /\ base' \in Nat)

LogNext == AppendOne \/ Overwrite \/ Purge \/ Extend

LogSpec == LogInit /\ [][LogNext]_<<base, entries>>
=============================================================================

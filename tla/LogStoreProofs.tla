--------------------------- MODULE LogStoreProofs ---------------------------
(***************************************************************************)
(* Proofs about LogStore, for every set of terms and every bound on the    *)
(* indices: the indices of the map have no gap, so that next_slot() may    *)
(* count entries, and the store implements AbstractLog.                    *)
(***************************************************************************)
EXTENDS LogStore, FiniteSetTheorems, SequenceTheorems, TLAPS

\* A store whose entries are exactly those from its start index to last.
Holds(s, last) ==
    /\ s = [logs |-> s.logs, start |-> s.start]
    /\ s.start \in Nat \ {0}
    /\ last \in Nat /\ s.start <= last + 1
    /\ s.logs \in [s.start..last -> LogTerm]

StoreInv == \E last \in Nat : Holds(store, last)

\* The sequence of the entries of a store, as the refinement maps it.
Entries(s) == LogEntries(s, s.start, Cardinality(DOMAIN s.logs))

-----------------------------------------------------------------------------
(* What next_slot() and log_entries() return for such a store.               *)
LEMMA Shape ==
    ASSUME NEW s, NEW last, Holds(s, last)
    PROVE  /\ NextSlot(s) = last + 1
           /\ Entries(s) \in Seq(LogTerm)
           /\ Len(Entries(s)) = last + 1 - s.start
           /\ \A k \in 1..(last + 1 - s.start) :
                 Entries(s)[k] = s.logs[s.start + k - 1]
<1> DEFINE n == last + 1 - s.start
           f == [k \in 1..n |-> TermAt(s, s.start + k - 1)]
<1>1. s.start \in Nat \ {0} /\ last \in Nat /\ n \in Nat
  BY DEF Holds
<1>2. DOMAIN s.logs = s.start..last
  BY DEF Holds
<1>3. Cardinality(DOMAIN s.logs) = n
  <2>1. CASE s.start <= last
    BY <1>1, <1>2, <2>1, FS_Interval
  <2>2. CASE s.start = last + 1
    <3>1. DOMAIN s.logs = {}
      BY <1>1, <1>2, <2>2
    <3> QED BY <3>1, <1>1, <2>2, FS_EmptySet
  <2> QED BY <2>1, <2>2, <1>1 DEF Holds
<1>4. Entries(s) = f
  BY <1>3 DEF Entries, LogEntries
<1>5. \A k \in 1..n : f[k] = s.logs[s.start + k - 1] /\ f[k] \in LogTerm
  <2> TAKE k \in 1..n
  <2>1. s.start + k - 1 \in s.start..last
    BY <1>1
  <2> QED BY <2>1, <1>2 DEF TermAt, Holds
<1>6. f \in [1..n -> LogTerm]
  BY <1>5
<1> HIDE DEF f
<1>7. f \in Seq(LogTerm)
  BY <1>1, <1>6, SeqDef
<1>8. Len(f) = n
  BY <1>1, <1>6, <1>7, LenProperties
<1> QED BY <1>1, <1>3, <1>4, <1>5, <1>7, <1>8 DEF NextSlot

(* t is the store s with the entries of start..i-1 kept, and those of seq    *)
(* from i on.                                                                *)
Writes(s, last, start, i, seq, t) ==
    /\ Holds(s, last)
    /\ i \in Nat \ {0} /\ start \in Nat \ {0} /\ start <= i
    /\ seq \in Seq(LogTerm) /\ Len(seq) > 0
    /\ start..(i - 1) \subseteq DOMAIN s.logs
    /\ t = [logs |-> With(s.logs, start..(i - 1), i, seq), start |-> start]

(* What is then in the store.                                                *)
Written(s, start, i, seq, t) ==
    /\ Holds(t, i + Len(seq) - 1)
    /\ t.start = start
    /\ \A j \in start..(i - 1) : t.logs[j] = s.logs[j]
    /\ \A j \in i..(i + Len(seq) - 1) : t.logs[j] = seq[j - i + 1]

(* A map with a new part is a store again.                                   *)
LEMMA WithHolds ==
    ASSUME NEW s, NEW last, NEW start, NEW i, NEW seq, NEW t,
           Writes(s, last, start, i, seq, t)
    PROVE  Written(s, start, i, seq, t)
<1> DEFINE D == start..(i - 1)
<1> USE DEF Writes
<1> DEFINE new == i..(i + Len(seq) - 1)
<1>1. Len(seq) \in Nat /\ \A k \in 1..Len(seq) : seq[k] \in LogTerm
  BY LenProperties, ElementOfSeq
<1>2. t.logs = [j \in D \cup new |-> IF j \in new THEN seq[j - i + 1] ELSE s.logs[j]]
  BY DEF With
<1>3. D \cup new = start..(i + Len(seq) - 1)
  BY <1>1
<1>4. \A j \in new : j - i + 1 \in 1..Len(seq) /\ j \notin D
  BY <1>1
<1>5. \A j \in D : j \notin new /\ s.logs[j] \in LogTerm
  BY <1>1 DEF Holds
<1>6. t.logs \in [start..(i + Len(seq) - 1) -> LogTerm]
  BY <1>1, <1>2, <1>3, <1>4, <1>5
<1>7. t.start = start /\ t = [logs |-> t.logs, start |-> t.start]
  OBVIOUS
<1>8. Holds(t, i + Len(seq) - 1)
  BY <1>1, <1>6, <1>7 DEF Holds
<1> QED BY <1>2, <1>4, <1>5, <1>7, <1>8 DEF Written

\* The entries of u are the first m of those of s, then those of seq.
Continues(s, m, seq, u) ==
    /\ m \in Nat /\ m <= Len(Entries(s))
    /\ Entries(s) \in Seq(LogTerm) /\ Entries(u) \in Seq(LogTerm)
    /\ Len(Entries(u)) = m + Len(seq)
    /\ \A k \in 1..m : Entries(u)[k] = Entries(s)[k]
    /\ \A k \in 1..Len(seq) : Entries(u)[m + k] = seq[k]

(* The entries of that store, when it starts where the old one did: those of *)
(* the old one before i, then the new ones.                                  *)
LEMMA WrittenEntries ==
    ASSUME NEW s, NEW last, NEW i, NEW seq, NEW u, NEW m,
           Writes(s, last, s.start, i, seq, u), m = i - s.start
    PROVE  Continues(s, m, seq, u)
<1> DEFINE e == i + Len(seq) - 1
<1>1. Holds(s, last) /\ seq \in Seq(LogTerm) /\ Len(seq) \in Nat /\ Len(seq) > 0
  BY LenProperties DEF Writes
<1>2. /\ s.start \in Nat \ {0} /\ last \in Nat /\ s.start <= last + 1
      /\ i \in Nat /\ s.start <= i /\ m \in Nat
  BY <1>1 DEF Writes, Holds
<1>3. i <= last + 1
  <2>1. CASE i = s.start
    BY <1>2, <2>1
  <2>2. CASE i > s.start
    <3>1. i - 1 \in s.start..(i - 1)
      BY <1>2, <2>2
    <3>2. i - 1 \in s.start..last
      BY <1>1, <3>1 DEF Writes, Holds
    <3> QED BY <1>2, <3>2
  <2> QED BY <1>2, <2>1, <2>2
<1>4. Written(s, s.start, i, seq, u)
  BY WithHolds
<1>5. /\ Entries(s) \in Seq(LogTerm) /\ Len(Entries(s)) = last + 1 - s.start
      /\ \A k \in 1..(last + 1 - s.start) : Entries(s)[k] = s.logs[s.start + k - 1]
  BY <1>1, Shape
<1>6. Holds(u, e) /\ u.start = s.start
  BY <1>4 DEF Written
<1>7. e + 1 - s.start = m + Len(seq)
  BY <1>1, <1>2
<1>8. /\ Entries(u) \in Seq(LogTerm) /\ Len(Entries(u)) = m + Len(seq)
      /\ \A k \in 1..(m + Len(seq)) : Entries(u)[k] = u.logs[s.start + k - 1]
  <2> HIDE DEF e
  <2> QED BY <1>6, <1>7, Shape
<1>9. ASSUME NEW k \in 1..m PROVE Entries(u)[k] = Entries(s)[k]
  <2>1. /\ s.start + k - 1 \in s.start..(i - 1)
        /\ k \in 1..(last + 1 - s.start) /\ k \in 1..(m + Len(seq))
    BY SMTT(60), <1>1, <1>2, <1>3
  <2>2. u.logs[s.start + k - 1] = s.logs[s.start + k - 1]
    BY <1>4, <2>1 DEF Written
  <2> QED BY <1>5, <1>8, <2>1, <2>2
<1>10. ASSUME NEW k \in 1..Len(seq) PROVE Entries(u)[m + k] = seq[k]
  <2> DEFINE j == s.start + (m + k) - 1
  <2>1. k \in Nat /\ 1 <= k /\ k <= Len(seq)
    BY <1>1
  <2>2. j = i + k - 1
    BY SMTT(60), <1>2, <2>1
  <2>3. j \in i..(i + Len(seq) - 1) /\ j - i + 1 = k
    <3> HIDE DEF j
    <3>1. j \in Nat /\ i <= j /\ j <= i + Len(seq) - 1
      BY <1>1, <1>2, <2>1, <2>2
    <3> QED BY <1>1, <1>2, <2>1, <2>2, <3>1
  <2>4. m + k \in 1..(m + Len(seq))
    BY SMTT(60), <1>1, <1>2, <2>1
  <2>5. Entries(u)[m + k] = u.logs[j]
    BY <1>8, <2>4
  <2> HIDE DEF j
  <2>6. u.logs[j] = seq[j - i + 1]
    BY <1>4, <2>3 DEF Written
  <2> QED BY <2>3, <2>5, <2>6
<1>11. m <= Len(Entries(s))
  BY <1>2, <1>3, <1>5
<1> QED BY <1>2, <1>5, <1>8, <1>9, <1>10, <1>11 DEF Continues

-----------------------------------------------------------------------------
(* append and write_at are alike: the entries before i stay, one follows.    *)
WritesOne(s, last, i, t, u) ==
    t \in LogTerm /\ Writes(s, last, s.start, i, <<t>>, u)

HasOneMore(s, i, t, u) ==
    /\ \E l \in Nat : Holds(u, l)
    /\ Entries(u) = Append(SubSeq(Entries(s), 1, i - s.start), t)

LEMMA OneWritten ==
    ASSUME NEW s, NEW last, NEW i, NEW t, NEW u, WritesOne(s, last, i, t, u)
    PROVE  HasOneMore(s, i, t, u)
<1>0. t \in LogTerm /\ Writes(s, last, s.start, i, <<t>>, u)
  BY DEF WritesOne
<1> DEFINE m == i - s.start
<1>1. <<t>> \in Seq(LogTerm) /\ Len(<<t>>) = 1 /\ <<t>>[1] = t
  BY <1>0
<1>2. /\ m \in Nat /\ m <= Len(Entries(s))
      /\ Entries(s) \in Seq(LogTerm) /\ Entries(u) \in Seq(LogTerm)
      /\ Len(Entries(u)) = m + Len(<<t>>)
      /\ \A k \in 1..m : Entries(u)[k] = Entries(s)[k]
      /\ \A k \in 1..Len(<<t>>) : Entries(u)[m + k] = <<t>>[k]
  <2>1. Continues(s, m, <<t>>, u)
    BY <1>0, WrittenEntries
  <2> QED BY <2>1 DEF Continues
<1> DEFINE b == SubSeq(Entries(s), 1, m)
           a == Append(b, t)
<1>3. \A k \in 1..m : Entries(s)[k] \in LogTerm
  BY <1>2, LenProperties
<1>4. /\ b \in Seq(LogTerm) /\ Len(b) = m
      /\ \A k \in 1..m : b[k] = Entries(s)[k]
  BY <1>2, <1>3, SubSeqProperties
<1> HIDE DEF b, m
<1>5. /\ a \in Seq(LogTerm) /\ Len(a) = m + 1 /\ a[m + 1] = t
      /\ \A k \in 1..m : a[k] = b[k]
  BY <1>0, <1>2, <1>4, AppendProperties
<1> HIDE DEF a
<1>6. Len(Entries(u)) = m + 1 /\ Entries(u)[m + 1] = t
  BY <1>1, <1>2
<1>7. \A k \in 1..Len(a) : Entries(u)[k] = a[k]
  <2> TAKE k \in 1..Len(a)
  <2>1. k = m + 1 \/ k \in 1..m
    BY <1>2, <1>5
  <2>2. CASE k = m + 1
    BY <1>5, <1>6, <2>2
  <2>3. CASE k \in 1..m
    BY <1>2, <1>4, <1>5, <2>3
  <2> QED BY <2>1, <2>2, <2>3
<1>8. Entries(u) = a
  BY <1>2, <1>5, <1>6, <1>7, SeqEqual
<1>9. \E l \in Nat : Holds(u, l)
  BY <1>0, WithHolds DEF Written, Holds
<1> QED BY <1>8, <1>9 DEF a, b, m, HasOneMore

-----------------------------------------------------------------------------
(* Every operation keeps the store without a gap and is one of AbstractLog.  *)

LEMMA AppendStep ==
    ASSUME StoreInv, NEW t \in LogTerm, AppendLog(t)
    PROVE  StoreInv' /\ Log!AppendOne
<1>1. PICK last \in Nat : Holds(store, last)
  BY DEF StoreInv
<1>2. NextSlot(store) = last + 1 /\ DOMAIN store.logs = store.start..last
  BY <1>1, Shape DEF Holds
<1>3. <<t>> \in Seq(LogTerm) /\ Len(<<t>>) = 1
  OBVIOUS
<1>4. store' = [logs |-> With(store.logs, store.start..last, last + 1, <<t>>),
                start |-> store.start]
  BY <1>1, <1>2 DEF AppendLog, Holds
<1>5. store.start..((last + 1) - 1) = store.start..last /\ last + 1 \in Nat \ {0}
  OBVIOUS
<1>6. WritesOne(store, last, last + 1, t, store')
  BY <1>1, <1>2, <1>3, <1>4, <1>5 DEF Writes, Holds, WritesOne
<1> DEFINE m == (last + 1) - store.start
<1>7. /\ \E l \in Nat : Holds(store', l)
      /\ Entries(store') = Append(SubSeq(Entries(store), 1, m), t)
  <2>1. HasOneMore(store, last + 1, t, store')
    BY <1>6, OneWritten
  <2> QED BY <2>1 DEF HasOneMore
<1>8. SubSeq(Entries(store), 1, m) = Entries(store)
  <2>1. Entries(store) \in Seq(LogTerm)
    BY <1>1, Shape
  <2>2. Len(Entries(store)) = last + 1 - store.start
    BY <1>1, Shape
  <2>3. SubSeq(Entries(store), 1, Len(Entries(store))) = Entries(store)
    BY <2>1, SubSeqFull
  <2>4. m = Len(Entries(store))
    <3>1. store.start \in Nat
      BY <1>1 DEF Holds
    <3> QED BY <2>2, <3>1
  <2> HIDE DEF m
  <2> QED BY <2>3, <2>4
<1>9. StoreInv'
  BY <1>7 DEF StoreInv
<1>10. Log!AppendOne
  BY <1>4, <1>7, <1>8 DEF Log!AppendOne, Entries
<1> QED BY <1>9, <1>10

LEMMA WriteAtStep ==
    ASSUME StoreInv, NEW i, NEW t \in LogTerm, WriteAt(i, t)
    PROVE  StoreInv' /\ Log!Overwrite
<1>1. PICK last \in Nat : Holds(store, last)
  BY DEF StoreInv
<1>2. /\ DOMAIN store.logs = store.start..last /\ i \in store.start..last
      /\ store.start \in Nat \ {0}
  BY <1>1 DEF Holds, WriteAt
<1>3. <<t>> \in Seq(LogTerm) /\ Len(<<t>>) = 1
  OBVIOUS
<1>4. {j \in DOMAIN store.logs : j < i} = store.start..(i - 1)
  BY <1>2
<1>5. store' = [logs |-> With(store.logs, store.start..(i - 1), i, <<t>>),
                start |-> store.start]
  BY <1>1, <1>4 DEF WriteAt, Holds
<1>6. WritesOne(store, last, i, t, store')
  <2>1. i \in Nat \ {0} /\ store.start <= i
    BY <1>2
  <2> QED BY <1>1, <1>2, <1>3, <1>4, <1>5, <2>1 DEF Writes, WritesOne
<1> DEFINE m == i - store.start
<1>7. /\ \E l \in Nat : Holds(store', l)
      /\ Entries(store') = Append(SubSeq(Entries(store), 1, m), t)
  <2>1. HasOneMore(store, i, t, store')
    BY <1>6, OneWritten
  <2> QED BY <2>1 DEF HasOneMore
<1>8. m + 1 \in 1..Len(Entries(store)) /\ (m + 1) - 1 = m
  <2>1. Len(Entries(store)) = last + 1 - store.start
    BY <1>1, Shape
  <2> QED BY <1>2, <2>1
<1>9. StoreInv'
  BY <1>7 DEF StoreInv
<1>10. Log!Overwrite
  <2> HIDE DEF m
  <2>1. Entries(store)' = Append(SubSeq(Entries(store), 1, (m + 1) - 1), t)
    BY <1>7, <1>8 DEF Entries
  <2>2. UNCHANGED (store.start - 1)
    BY <1>5
  <2> QED BY <1>8, <2>1, <2>2 DEF Log!Overwrite, Entries
<1> QED BY <1>9, <1>10

LEMMA CompactStep ==
    ASSUME StoreInv, NEW upto \in Nat, Compact(upto)
    PROVE  /\ StoreInv'
           /\ Log!Purge \/ UNCHANGED <<store.start - 1, Entries(store)>>
<1>1. PICK last \in Nat : Holds(store, last)
  BY DEF StoreInv
<1>2. /\ DOMAIN store.logs = store.start..last /\ store.start \in Nat \ {0}
      /\ store.start <= last + 1
      /\ store = [logs |-> store.logs, start |-> store.start]
      /\ \A j \in store.start..last : store.logs[j] \in LogTerm
  BY <1>1 DEF Holds
<1>3. CASE upto < store.start
  <2>1. {j \in DOMAIN store.logs : j > upto} = DOMAIN store.logs
    BY <1>2, <1>3
  <2>2. store.logs = [j \in DOMAIN store.logs |-> store.logs[j]]
    BY <1>1 DEF Holds
  <2>3. store' = store
    BY SMTT(60), <1>2, <1>3, <2>1, <2>2 DEF Compact
  <2> QED BY <2>3, <1>1 DEF StoreInv, Entries
<1>4. CASE upto >= store.start
  <2> DEFINE end == IF upto <= last THEN last ELSE upto
             n == last + 1 - store.start
             m == upto - (store.start - 1) + 1
             e == SubSeq(Entries(store), m, Len(Entries(store)))
  <2>1. {j \in DOMAIN store.logs : j > upto} = (upto + 1)..end
    BY <1>2, <1>4
  <2>2. (upto + 1)..end \subseteq store.start..last
    BY <1>2, <1>4
  <2>3. store' = [logs |-> [j \in (upto + 1)..end |-> store.logs[j]],
                  start |-> upto + 1]
    BY <1>4, <2>1 DEF Compact
  <2>4. end \in Nat /\ upto + 1 <= end + 1
    OBVIOUS
  <2> HIDE DEF end
  <2>5. Holds(store', end)
    <3>1. store'.logs \in [(upto + 1)..end -> LogTerm]
      BY <1>2, <2>2, <2>3
    <3> QED BY <2>3, <2>4, <3>1 DEF Holds
  <2>6. /\ Entries(store') \in Seq(LogTerm)
        /\ Len(Entries(store')) = end + 1 - (upto + 1)
        /\ \A k \in 1..(end + 1 - (upto + 1)) :
              Entries(store')[k] = store'.logs[(upto + 1) + k - 1]
    <3>1. /\ Entries(store') \in Seq(LogTerm)
          /\ Len(Entries(store')) = end + 1 - store'.start
          /\ \A k \in 1..(end + 1 - store'.start) :
                Entries(store')[k] = store'.logs[store'.start + k - 1]
      BY <2>5, Shape
    <3>2. store'.start = upto + 1
      BY <2>3
    <3> QED BY <3>1, <3>2
  <2>7. /\ Entries(store) \in Seq(LogTerm) /\ Len(Entries(store)) = n
        /\ \A k \in 1..n : Entries(store)[k] = store.logs[store.start + k - 1]
    BY <1>1, Shape
  <2>8. m \in Nat /\ n \in Nat /\ m >= 2
    BY SMTT(60), <1>2, <1>4
  <2>9. Entries(store') = e
    <3>1. CASE upto > last
      <4>1. end + 1 - (upto + 1) = 0 /\ n < m
        BY <1>2, <3>1 DEF end
      <4>2. Entries(store') = <<>>
        BY <2>6, <4>1, EmptySeq
      <4>3. e = <<>>
        BY SMTT(60), <2>7, <2>8, <4>1, SubSeqEmpty
      <4> QED BY <4>2, <4>3
    <3>2. CASE upto <= last
      <4>1. end = last /\ n - m + 1 = last - upto /\ end + 1 - (upto + 1) = last - upto
        BY SMTT(60), <1>2, <3>2 DEF end
      <4>2. last - upto \in Nat /\ (last - upto = 0 <=> n < m)
        BY <1>2, <3>2
      <4> HIDE DEF n, m
      <4>3. \A k \in m..n : Entries(store)[k] \in LogTerm
        BY <2>7, <2>8, ElementOfSeq
      <4>4. /\ e \in Seq(LogTerm) /\ Len(e) = IF m <= n THEN n - m + 1 ELSE 0
            /\ \A k \in 1..(n - m + 1) : e[k] = Entries(store)[m + k - 1]
        BY <2>7, <2>8, <4>3, SubSeqProperties
      <4>5. Len(e) = last - upto
        BY <2>8, <4>1, <4>2, <4>4
      <4> HIDE DEF e
      <4>6. \A k \in 1..(last - upto) : Entries(store')[k] = e[k]
        <5> TAKE k \in 1..(last - upto)
        <5>1. k \in Nat /\ 1 <= k /\ k <= last - upto
          BY <4>2
        <5>2. m + k - 1 \in 1..n
          BY SMTT(60), <1>2, <2>8, <4>1, <5>1
        <5>3. store.start + (m + k - 1) - 1 = (upto + 1) + k - 1
          BY SMTT(60), <1>2, <5>1 DEF m
        <5>4. (upto + 1) + k - 1 \in (upto + 1)..end
          BY <4>1, <5>1
        <5>5. e[k] = store.logs[(upto + 1) + k - 1]
          BY <2>7, <4>1, <4>4, <5>2, <5>3
        <5>6. Entries(store')[k] = store'.logs[(upto + 1) + k - 1]
          BY <2>6, <4>1
        <5>7. store'.logs[(upto + 1) + k - 1] = store.logs[(upto + 1) + k - 1]
          BY <2>3, <5>4
        <5> QED BY <5>5, <5>6, <5>7
      <4>7. Len(Entries(store')) = last - upto
        BY <2>6, <4>1
      <4> QED BY <2>6, <4>4, <4>5, <4>6, <4>7, SeqEqual
    <3> QED BY <3>1, <3>2
  <2>10. store'.start - 1 = upto /\ upto > store.start - 1
    BY <1>2, <1>4, <2>3
  <2>11. Log!Purge
    BY <2>9, <2>10 DEF Log!Purge, Entries
  <2> QED BY <2>4, <2>5, <2>11 DEF StoreInv
<1> QED BY <1>2, <1>3, <1>4

LEMMA ApplyPackStep ==
    ASSUME StoreInv, NEW i \in Nat \ {0}, NEW pack \in Seq(LogTerm),
           ApplyPack(i, pack)
    PROVE  StoreInv' /\ Log!Extend
<1>1. PICK last \in Nat : Holds(store, last)
  BY DEF StoreInv
<1>2. /\ DOMAIN store.logs = store.start..last /\ store.start \in Nat \ {0}
      /\ NextSlot(store) = last + 1 /\ store.start <= last + 1
  BY <1>1, Shape DEF Holds
<1>3. Len(pack) \in Nat /\ Len(pack) > 0
  BY EmptySeq DEF ApplyPack
<1>4. /\ Entries(store) \in Seq(LogTerm)
      /\ Len(Entries(store)) = last + 1 - store.start
  BY <1>1, Shape
<1>5. CASE DOMAIN store.logs = {}
  <2>1. i..(i - 1) = {}
    OBVIOUS
  <2>2. store' = [logs |-> With(store.logs, i..(i - 1), i, pack), start |-> i]
    BY <1>5, <2>1 DEF ApplyPack
  <2>3. Writes(store, last, i, i, pack, store')
    BY <1>1, <1>3, <2>1, <2>2 DEF Writes
  <2>4. Written(store, i, i, pack, store')
    BY <2>3, WithHolds
  <2> DEFINE e == i + Len(pack) - 1
  <2>5. Holds(store', e) /\ store'.start = i /\ e \in Nat
    BY <1>3, <2>4 DEF Written
  <2>6. e + 1 - i = Len(pack)
    BY <1>3
  <2> HIDE DEF e
  <2>7. Entries(store') \in Seq(LogTerm) /\ Len(Entries(store')) = e + 1 - i
    BY <2>5, Shape
  <2>8. last + 1 - store.start = 0
    <3>1. ASSUME store.start <= last PROVE FALSE
      <4>1. last \in store.start..last
        BY <1>2, <3>1
      <4> QED BY <1>2, <1>5, <4>1
    <3> QED BY <1>2, <3>1
  <2>9. Entries(store) = <<>>
    BY <1>4, <2>8, EmptySeq
  <2>10. SubSeq(Entries(store'), 1, 0) = <<>>
    BY SubSeqEmpty
  <2>11. /\ Entries(store') \in Seq(LogTerm)
         /\ Len(Entries(store')) > Len(Entries(store))
    BY <1>3, <1>4, <2>6, <2>7, <2>8
  <2>12. SubSeq(Entries(store'), 1, Len(Entries(store))) = Entries(store)
    BY <1>4, <2>8, <2>9, <2>10
  <2>13. store'.start - 1 \in Nat
    BY <2>5
  <2> QED BY <2>5, <2>9, <2>11, <2>12, <2>13 DEF StoreInv, Log!Extend, Entries
<1>6. CASE DOMAIN store.logs # {}
  <2>1. i = last + 1 /\ store.start..(i - 1) = store.start..last
    BY SMTT(60), <1>2, <1>6 DEF ApplyPack
  <2>2. store' = [logs |-> With(store.logs, store.start..(i - 1), i, pack),
                  start |-> store.start]
    BY <1>2, <1>6, <2>1 DEF ApplyPack
  <2>3. Writes(store, last, store.start, i, pack, store')
    BY <1>1, <1>2, <1>3, <2>1, <2>2 DEF Writes
  <2>4. Written(store, store.start, i, pack, store')
    BY <2>3, WithHolds
  <2>5. StoreInv'
    BY <1>3, <2>4 DEF Written, StoreInv
  <2> DEFINE m == i - store.start
             b == SubSeq(Entries(store'), 1, m)
  <2>6. Continues(store, m, pack, store')
    BY <2>3, WrittenEntries
  <2>7. m = Len(Entries(store))
    BY SMTT(60), <1>2, <1>4, <2>1
  <2> HIDE DEF m
  <2>8. /\ m \in Nat /\ Entries(store') \in Seq(LogTerm)
        /\ Len(Entries(store')) = m + Len(pack)
        /\ \A k \in 1..m : Entries(store')[k] = Entries(store)[k]
    BY <2>6 DEF Continues
  <2>9. \A k \in 1..m : Entries(store')[k] \in LogTerm
    BY <1>3, <2>8, ElementOfSeq
  <2>10. /\ b \in Seq(LogTerm) /\ Len(b) = m
         /\ \A k \in 1..m : b[k] = Entries(store')[k]
    BY <2>8, <2>9, SubSeqProperties
  <2> HIDE DEF b
  <2>11. b = Entries(store)
    BY <1>4, <2>7, <2>8, <2>10, SeqEqual
  <2>12. Len(Entries(store')) > Len(Entries(store))
    BY <1>3, <2>7, <2>8
  <2>13. SubSeq(Entries(store'), 1, Len(Entries(store))) = Entries(store)
    BY <2>7, <2>11 DEF b
  <2>14. store'.start - 1 = store.start - 1
    BY <2>2
  <2> QED BY <2>5, <2>8, <2>12, <2>13, <2>14 DEF Log!Extend, Entries
<1> QED BY <1>5, <1>6

-----------------------------------------------------------------------------
LEMMA Initially ==
    ASSUME StoreInit
    PROVE  StoreInv /\ Log!LogInit
<1>1. store.logs = EmptyMap /\ store.start = 1 /\ DOMAIN store.logs = {} /\ 1..0 = {}
  BY DEF StoreInit, EmptyMap
<1>2. Holds(store, 0)
  <2>1. store.logs \in [1..0 -> LogTerm]
    BY <1>1 DEF EmptyMap
  <2> QED BY <1>1, <2>1 DEF Holds, StoreInit
<1>3. Entries(store) \in Seq(LogTerm) /\ Len(Entries(store)) = 0
  BY <1>1, <1>2, Shape
<1>4. Entries(store) = <<>>
  BY <1>3, EmptySeq
<1> QED BY <1>1, <1>2, <1>4 DEF StoreInv, Log!LogInit, Entries

LEMMA Stepwise ==
    ASSUME StoreInv, [StoreNext]_store
    PROVE  /\ StoreInv'
           /\ [Log!LogNext]_<<store.start - 1, Entries(store)>>
<1>1. CASE UNCHANGED store
  BY <1>1 DEF StoreInv, Entries
<1>2. CASE \E t \in LogTerm : AppendLog(t)
  BY <1>2, AppendStep DEF Log!LogNext
<1>3. CASE \E i \in 1..MaxLogIdx, t \in LogTerm : WriteAt(i, t)
  BY <1>3, WriteAtStep DEF Log!LogNext
<1>4. CASE \E i \in 1..MaxLogIdx : Compact(i)
  <2>1. PICK i \in 1..MaxLogIdx : Compact(i)
    BY <1>4
  <2>2. i \in Nat
    BY LogStoreAssumption
  <2> QED BY <2>1, <2>2, CompactStep DEF Log!LogNext
<1>5. CASE \E i \in 1..MaxLogIdx, pack \in Packs : ApplyPack(i, pack)
  <2>1. PICK i \in 1..MaxLogIdx, pack \in Packs : ApplyPack(i, pack)
    BY <1>5
  <2>2. i \in Nat \ {0} /\ pack \in Seq(LogTerm)
    <3>1. i \in Nat \ {0}
      BY LogStoreAssumption
    <3>2. \A t \in LogTerm : <<t>> \in Seq(LogTerm)
      OBVIOUS
    <3>3. \A t, u \in LogTerm : <<t, u>> \in Seq(LogTerm)
      OBVIOUS
    <3>4. \/ \E t \in LogTerm : pack = <<t>>
          \/ \E t, u \in LogTerm : pack = <<t, u>>
      BY DEF Packs
    <3> QED BY <3>1, <3>2, <3>3, <3>4
  <2> QED BY <2>1, <2>2, ApplyPackStep DEF Log!LogNext
<1> QED BY <1>1, <1>2, <1>3, <1>4, <1>5 DEF StoreNext

(* The indices of inmem_log_store never have a gap, so that next_slot(),     *)
(* which counts the entries of the map, is the index after the last one.     *)
THEOREM StoreHasNoGap == StoreSpec => []NoGap
<1>1. StoreInit => StoreInv
  BY Initially
<1>2. StoreInv /\ [StoreNext]_store => StoreInv'
  BY Stepwise
<1>3. StoreInv => NoGap
  <2> SUFFICES ASSUME NEW last \in Nat, Holds(store, last) PROVE NoGap
    BY DEF StoreInv
  <2>1. NextSlot(store) = last + 1
    BY Shape
  <2>2. DOMAIN store.logs = store.start..last
    BY DEF Holds
  <2> QED BY <2>1, <2>2 DEF NoGap
<1> QED BY <1>1, <1>2, <1>3, PTL DEF StoreSpec

(* Whatever is appended, overwritten, compacted or packed, inmem_log_store   *)
(* is the log of AbstractLog: the specification of the one implements that   *)
(* of the other, with the start index and the entries as the mapping.        *)
THEOREM StoreImplementsLog == StoreSpec => StoreIsALog
<1>1. StoreInit => StoreInv /\ Log!LogInit
  BY Initially
<1>2. StoreInv /\ [StoreNext]_store => StoreInv'
  BY Stepwise
<1>3. StoreInv /\ [StoreNext]_store =>
        [Log!LogNext]_<<store.start - 1,
                        LogEntries(store, store.start, Cardinality(DOMAIN store.logs))>>
  BY Stepwise DEF Entries
<1> QED BY <1>1, <1>2, <1>3, PTL DEF StoreSpec, StoreIsALog, Log!LogSpec
=============================================================================

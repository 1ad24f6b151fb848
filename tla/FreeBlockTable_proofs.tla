------------------------ MODULE FreeBlockTable_proofs ------------------------
(***************************************************************************)
(* The free block table for every number of slots, dies and blocks.         *)
(***************************************************************************)
EXTENDS FreeBlockTable, FbtOps_proofs

\* The table t with the held blocks h and the discarded blocks d is in order:
\* what the operations of core/ubi/ubi_index.c keep.
InOrder(t) == \A i, j \in Slots : i < j => t[i].ec <= t[j].ec
GoodIn(t) == {i \in Slots : t[i].ec # INVALID_EC}

Balanced(t, h, d) ==
  /\ h \subseteq Block /\ d \subseteq Block /\ h \cap d = {}
  /\ \A i \in GoodIn(t) : t[i].block \in Block /\ t[i].block \notin h /\ t[i].block \notin d
  /\ \A i, j \in GoodIn(t) : t[i].block = t[j].block => i = j
  /\ \A b \in Block : b \in d \/ b \in h \/ \E i \in GoodIn(t) : t[i].block = b

\* An entry with INVALID_EC is unused or a discarded block's.
DeadEntries(t, d) ==
  \A i \in Slots : t[i].ec = INVALID_EC => t[i].block = INVALID_BLOCK \/ t[i].block \in d

TableInv(t, h, d) ==
  t \in [Slots -> Entries] /\ InOrder(t) /\ Balanced(t, h, d) /\ DeadEntries(t, d)

\* What is proved to be inductive.
IInv == TableInv(fbt, held, bad)

\* An entry's parts.
LEMMA EntryTypes ==
  ASSUME NEW t \in [Slots -> Entries], NEW i \in Slots
  PROVE  /\ t[i] \in Entries
         /\ t[i].block \in Block \cup {INVALID_BLOCK}
         /\ t[i].ec \in Ecs \cup {INVALID_EC}
         /\ t[i].ec \in Nat
         /\ t[i].ec <= INVALID_EC
BY FbtAssumption, TableAssumption DEF Entries, Ecs

\* INDEX_FreeBlock_Put drops the entry of the last slot.  There are fewer
\* blocks than slots, so that entry is never a good block's.
LEMMA LastSlotUnused ==
  ASSUME NEW t, NEW h, NEW d, TableInv(t, h, d)
  PROVE  t[FREE_BLOCK_COUNT - 1].ec = INVALID_EC
<1> USE FbtAssumption, TableAssumption
<1>1. t \in [Slots -> Entries]
  BY DEF TableInv
<1>2. SUFFICES ASSUME t[FREE_BLOCK_COUNT - 1].ec # INVALID_EC
               PROVE  FALSE
  OBVIOUS
<1>3. FREE_BLOCK_COUNT - 1 \in Slots
  BY DEF Slots
<1>4. t[FREE_BLOCK_COUNT - 1].ec < INVALID_EC
  BY <1>1, <1>2, <1>3, EntryTypes
<1>5. \A i \in Slots : t[i].ec # INVALID_EC
  <2> TAKE i \in Slots
  <2>1. t[i].ec \in Nat /\ t[FREE_BLOCK_COUNT - 1].ec \in Nat
    BY <1>1, <1>3, EntryTypes
  <2>2. i < FREE_BLOCK_COUNT - 1 \/ i = FREE_BLOCK_COUNT - 1
    BY DEF Slots
  <2>3. t[i].ec <= t[FREE_BLOCK_COUNT - 1].ec
    BY <2>1, <2>2, <1>3 DEF TableInv, InOrder
  <2> QED BY <2>1, <2>3, <1>4
<1> DEFINE f == [i \in Slots |-> t[i].block]
<1>6. f \in [Slots -> Block]
  BY <1>5 DEF TableInv, Balanced, GoodIn
<1>7. IsFiniteSet(Slots) /\ Cardinality(Slots) = FREE_BLOCK_COUNT
  BY FS_Interval DEF Slots
<1>8. \E i, j \in Slots : i # j /\ f[i] = f[j]
  <2> HIDE DEF f
  <2> QED BY <1>6, <1>7, FS_PigeonHole
<1> QED BY <1>5, <1>8 DEF TableInv, Balanced, GoodIn

\* The slot the two insertions look for below slot last, and the table after
\* the entries from there to slot last have moved up by one.
SlotBelow(t, e, last) ==
  LET notLarger == {i \in 1 .. last - 1 : ~(t[i].ec > e)}
  IN  IF notLarger # {}
        THEN 1 + (CHOOSE i \in notLarger : IsLargest(i, notLarger))
        ELSE IF t[0].ec > e THEN 0 ELSE 1

ShiftIn(t, k, last, x) ==
  [j \in Slots |-> IF j < k THEN t[j]
                   ELSE IF j = k THEN x
                   ELSE IF j <= last THEN t[j - 1]
                   ELSE t[j]]

\* INDEX_FreeBlock_Put is the insertion that drops the last slot.
LEMMA PutIsShift ==
  ASSUME NEW t, NEW b, NEW e \in Nat, t \in [Slots -> Entries], InOrder(t)
  PROVE  FbtPut(t, b, e)
           = ShiftIn(t, SlotBelow(t, e, FREE_BLOCK_COUNT - 1), FREE_BLOCK_COUNT - 1, Entry(b, e))
<1> USE FbtAssumption
<1>1. (FREE_BLOCK_COUNT - 1) - 1 = FREE_BLOCK_COUNT - 2
  OBVIOUS
<1>2. PutSlot(t, e) = SlotBelow(t, e, FREE_BLOCK_COUNT - 1)
  BY <1>1 DEF PutSlot, SlotBelow
<1> DEFINE k == SlotBelow(t, e, FREE_BLOCK_COUNT - 1)
<1> HIDE DEF k
<1>3. InsertAt(t, k, Entry(b, e)) = ShiftIn(t, k, FREE_BLOCK_COUNT - 1, Entry(b, e))
  BY DEF InsertAt, ShiftIn, Slots
<1> QED BY <1>2, <1>3 DEF FbtPut, k

\* INDEX_FreeBlock_SwapMaxECBlock is the one that drops the most worn entry.
LEMMA SwapIsShift ==
  ASSUME NEW t, NEW b, NEW e, NEW th,
         MaxEcSlot(t) > 0, t[MaxEcSlot(t)].ec > e, t[MaxEcSlot(t)].ec - e > th
  PROVE  FbtSwap(t, b, e, th)
           = ShiftIn(t, SlotBelow(t, e, MaxEcSlot(t)), MaxEcSlot(t), Entry(b, e))
BY DEF FbtSwap, ShiftIn, SlotBelow

\* An insertion goes before every larger count that is kept and after every
\* other one.
LEMMA SlotBelowSplits ==
  ASSUME NEW t \in [Slots -> Entries], InOrder(t), NEW e \in Nat,
         NEW last \in Slots \ {0}
  PROVE  /\ SlotBelow(t, e, last) \in 0 .. last
         /\ \A j \in Slots : j < SlotBelow(t, e, last) => t[j].ec <= e
         /\ \A j \in Slots : SlotBelow(t, e, last) <= j /\ j < last => e < t[j].ec
<1> USE FbtAssumption
<1> DEFINE notLarger == {i \in 1 .. last - 1 : ~(t[i].ec > e)}
<1>1. \A i \in Slots : t[i].ec \in Nat
  BY EntryTypes
<1>2. CASE notLarger # {}
  <2>1. \E i \in notLarger : IsLargest(i, notLarger)
    <3>1. last - 1 \in Nat /\ notLarger \in SUBSET (0 .. last - 1)
      BY DEF Slots
    <3> HIDE DEF notLarger
    <3> QED BY <3>1, <1>2, HasLargest
  <2> DEFINE m == CHOOSE i \in notLarger : IsLargest(i, notLarger)
  <2>2. m \in notLarger /\ IsLargest(m, notLarger)
    BY <2>1
  <2>3. SlotBelow(t, e, last) = 1 + m
    BY <1>2 DEF SlotBelow
  <2> HIDE DEF m
  <2>4. m \in Slots /\ m \in 1 .. last - 1 /\ t[m].ec <= e
    BY <2>2, <1>1 DEF Slots
  <2>5. ASSUME NEW j \in Slots, j < 1 + m PROVE t[j].ec <= e
    BY <2>4, <2>5, <1>1 DEF InOrder, Slots
  <2>6. ASSUME NEW j \in Slots, 1 + m <= j, j < last PROVE e < t[j].ec
    BY <2>2, <2>4, <2>6, <1>1 DEF IsLargest, Slots
  <2> QED BY <2>3, <2>4, <2>5, <2>6 DEF Slots
<1>3. CASE notLarger = {}
  <2>1. \A j \in 1 .. last - 1 : e < t[j].ec
    BY <1>3, <1>1 DEF Slots
  <2>2. SlotBelow(t, e, last) = IF t[0].ec > e THEN 0 ELSE 1
    BY <1>3 DEF SlotBelow
  <2> QED BY <2>1, <2>2, <1>1 DEF Slots
<1> QED BY <1>2, <1>3

\* An insertion gives a table of entries, still in order when the count put
\* in is not larger than those after the dropped slot.
LEMMA ShiftInOrdered ==
  ASSUME NEW t \in [Slots -> Entries], InOrder(t),
         NEW b \in Block, NEW e \in Ecs \cup {INVALID_EC},
         NEW last \in Slots \ {0},
         \A j \in Slots : last < j => e <= t[j].ec
  PROVE  LET u == ShiftIn(t, SlotBelow(t, e, last), last, Entry(b, e))
         IN  u \in [Slots -> Entries] /\ InOrder(u)
<1> USE FbtAssumption, TableAssumption
<1> DEFINE k == SlotBelow(t, e, last)
           u == ShiftIn(t, k, last, Entry(b, e))
<1>1. e \in Nat
  BY DEF Ecs
<1>2. /\ k \in 0 .. last
      /\ \A j \in Slots : j < k => t[j].ec <= e
      /\ \A j \in Slots : k <= j /\ j < last => e < t[j].ec
  BY <1>1, SlotBelowSplits
<1> HIDE DEF k
<1>3. last \in Nat /\ last \in Slots /\ k \in Nat
  BY <1>2 DEF Slots
<1>4. \A j \in Slots : t[j] \in Entries /\ t[j].ec \in Nat
  BY EntryTypes
<1>5. \A j \in Slots : u[j] = IF j < k THEN t[j]
                              ELSE IF j = k THEN Entry(b, e)
                              ELSE IF j <= last THEN t[j - 1]
                              ELSE t[j]
  BY DEF ShiftIn
<1>6. Entry(b, e) \in Entries /\ Entry(b, e).ec = e
  BY DEF Entry, Entries
<1>7. \A j \in Slots : k < j => j - 1 \in Slots
  BY <1>3 DEF Slots
<1>8. u \in [Slots -> Entries]
  <2>1. \A j \in Slots : u[j] \in Entries
    BY <1>4, <1>5, <1>6, <1>7, <1>3 DEF Slots
  <2> QED BY <2>1 DEF ShiftIn
<1>9. ASSUME NEW i \in Slots, NEW j \in Slots, i < j PROVE u[i].ec <= u[j].ec
  <2> USE DEF Slots
  <2>1. CASE j < k
    BY <1>3, <1>5, <1>9, <2>1 DEF InOrder
  <2>2. CASE j = k
    BY <1>2, <1>3, <1>5, <1>6, <1>9, <2>2
  <2>3. CASE k < j /\ j <= last
    <3>1. u[j] = t[j - 1] /\ j - 1 \in Slots /\ k <= j - 1 /\ j - 1 < last
      BY <2>3, <1>3, <1>5, <1>7
    <3>2. e < t[j - 1].ec
      BY <3>1, <1>2
    <3>3. CASE i < k
      <4>1. u[i] = t[i] /\ i < j - 1
        BY <3>3, <3>1, <1>3, <1>5
      <4> QED BY <4>1, <3>1 DEF InOrder
    <3>4. CASE i = k
      BY <3>4, <3>1, <3>2, <1>1, <1>4, <1>5, <1>6
    <3>5. CASE k < i
      <4>1. u[i] = t[i - 1] /\ i - 1 \in Slots /\ i - 1 < j - 1
        BY <3>5, <2>3, <1>9, <1>3, <1>5, <1>7
      <4> QED BY <4>1, <3>1 DEF InOrder
    <3> QED BY <3>3, <3>4, <3>5, <1>3
  <2>4. CASE last < j
    <3>1. u[j] = t[j]
      BY <2>4, <1>2, <1>3, <1>5
    <3>2. CASE i = k
      BY <3>1, <3>2, <2>4, <1>5, <1>6
    <3>3. CASE k < i /\ i <= last
      <4>1. u[i] = t[i - 1] /\ i - 1 \in Slots /\ i - 1 < j
        BY <3>3, <1>9, <1>3, <1>5, <1>7
      <4> QED BY <4>1, <3>1 DEF InOrder
    <3>4. CASE i < k \/ last < i
      <4>1. u[i] = t[i]
        BY <3>4, <1>2, <1>3, <1>5
      <4> QED BY <4>1, <3>1, <1>9 DEF InOrder
    <3> QED BY <3>2, <3>3, <3>4, <1>3
  <2> QED BY <2>1, <2>2, <2>3, <2>4, <1>3
<1> QED BY <1>8, <1>9 DEF InOrder, k

\* INDEX_FreeBlock_Put of a held block keeps the table in order.
LEMMA PutKeeps ==
  ASSUME NEW t, NEW h, NEW d, TableInv(t, h, d),
         NEW b \in h, NEW e \in Ecs
  PROVE  TableInv(FbtPut(t, b, e), h \ {b}, d)
<1> USE FbtAssumption, TableAssumption
<1> DEFINE last == FREE_BLOCK_COUNT - 1
           k == SlotBelow(t, e, last)
           u == ShiftIn(t, k, last, Entry(b, e))
<1>1. t \in [Slots -> Entries] /\ InOrder(t) /\ e \in Nat /\ e # INVALID_EC
  BY DEF TableInv, Ecs
<1>2. b \in Block /\ b \notin d
  BY DEF TableInv, Balanced
<1>3. last \in Slots \ {0} /\ \A j \in Slots : ~(last < j)
  BY DEF Slots
<1>4. FbtPut(t, b, e) = u
  BY <1>1, PutIsShift
<1>5. u \in [Slots -> Entries] /\ InOrder(u)
  BY <1>1, <1>2, <1>3, ShiftInOrdered
<1>6. k \in Slots
  BY <1>1, <1>3, SlotBelowSplits DEF Slots
<1>7. t[last].ec = INVALID_EC
  BY LastSlotUnused
<1> HIDE DEF k
<1>8. \A j \in Slots : u[j] = IF j < k THEN t[j]
                              ELSE IF j = k THEN Entry(b, e)
                              ELSE t[j - 1]
  BY <1>3 DEF ShiftIn, Slots
<1>9. Entry(b, e).block = b /\ Entry(b, e).ec = e
  BY DEF Entry
<1>10. \A j \in Slots : k < j => j - 1 \in Slots
  BY <1>6 DEF Slots
<1> HIDE DEF u
<1>11. \A i \in GoodIn(u) : \/ i = k /\ u[i].block = b
                            \/ i < k /\ i \in GoodIn(t) /\ u[i] = t[i]
                            \/ k < i /\ i - 1 \in GoodIn(t) /\ u[i] = t[i - 1]
  BY <1>6, <1>8, <1>9, <1>10 DEF GoodIn, Slots
<1>12. \A i \in GoodIn(t) : \/ i \in GoodIn(u) /\ u[i] = t[i]
                            \/ i + 1 \in GoodIn(u) /\ u[i + 1] = t[i]
  <2> SUFFICES ASSUME NEW i \in GoodIn(t)
               PROVE  \/ i \in GoodIn(u) /\ u[i] = t[i]
                      \/ i + 1 \in GoodIn(u) /\ u[i + 1] = t[i]
    OBVIOUS
  <2>1. i \in Slots /\ i + 1 \in Slots
    BY <1>7 DEF GoodIn, Slots
  <2> QED BY <2>1, <1>6, <1>8 DEF GoodIn, Slots
<1>13. k \in GoodIn(u) /\ u[k].block = b
  BY <1>1, <1>6, <1>8, <1>9 DEF GoodIn, Slots
<1>14. \A i \in GoodIn(t) : t[i].block \in Block /\ t[i].block \notin h /\ t[i].block \notin d
  BY DEF TableInv, Balanced
<1>15. \A i \in GoodIn(u) : u[i].block \in Block /\ u[i].block \notin h \ {b} /\ u[i].block \notin d
  BY <1>2, <1>11, <1>14
<1>16. ASSUME NEW i \in GoodIn(u), NEW j \in GoodIn(u), u[i].block = u[j].block PROVE i = j
  <2>1. \A m, n \in GoodIn(t) : t[m].block = t[n].block => m = n
    BY DEF TableInv, Balanced
  <2>2. i \in Int /\ j \in Int /\ k \in Int
    BY <1>6 DEF GoodIn, Slots
  <2>3. i = k <=> j = k
    BY <1>11, <1>13, <1>14, <1>16
  <2>4. CASE i # k /\ j # k
    <3>1. PICK m \in GoodIn(t) : u[i] = t[m] /\ ((i < k /\ m = i) \/ (k < i /\ m = i - 1))
      BY <1>11, <2>4
    <3>2. PICK n \in GoodIn(t) : u[j] = t[n] /\ ((j < k /\ n = j) \/ (k < j /\ n = j - 1))
      BY <1>11, <2>4
    <3>3. m = n
      BY <3>1, <3>2, <2>1, <1>16
    <3> QED BY <3>1, <3>2, <3>3, <2>2
  <2> QED BY <2>3, <2>4
<1>17. \A x \in Block : x \in d \/ x \in h \ {b} \/ \E i \in GoodIn(u) : u[i].block = x
  <2> SUFFICES ASSUME NEW x \in Block, x \notin d, x \notin h \ {b}
               PROVE  \E i \in GoodIn(u) : u[i].block = x
    OBVIOUS
  <2>1. CASE x = b
    BY <2>1, <1>13
  <2>2. CASE x # b
    <3>1. PICK i \in GoodIn(t) : t[i].block = x
      BY <2>2 DEF TableInv, Balanced
    <3> QED BY <3>1, <1>12
  <2> QED BY <2>1, <2>2
<1>18. h \ {b} \subseteq Block /\ d \subseteq Block /\ (h \ {b}) \cap d = {}
  BY DEF TableInv, Balanced
<1>19. Balanced(u, h \ {b}, d)
  BY <1>15, <1>16, <1>17, <1>18 DEF Balanced
<1>20. DeadEntries(u, d)
  BY <1>1, <1>6, <1>8, <1>9, <1>10 DEF TableInv, DeadEntries, Slots
<1> QED BY <1>4, <1>5, <1>19, <1>20 DEF TableInv

\* INDEX_FreeBlock_Put of a block whose program failed takes the last slot.
LEMMA PutBadKeeps ==
  ASSUME NEW t, NEW h, NEW d, TableInv(t, h, d), NEW b \in h
  PROVE  TableInv(FbtPut(t, b, INVALID_EC), h \ {b}, d \cup {b})
<1> USE FbtAssumption, TableAssumption
<1> DEFINE last == FREE_BLOCK_COUNT - 1
           k == SlotBelow(t, INVALID_EC, last)
           u == ShiftIn(t, k, last, Entry(b, INVALID_EC))
<1>1. t \in [Slots -> Entries] /\ InOrder(t)
  BY DEF TableInv
<1>2. b \in Block
  BY DEF TableInv, Balanced
<1>3. last \in Slots \ {0} /\ \A j \in Slots : ~(last < j)
  BY DEF Slots
<1>4. FbtPut(t, b, INVALID_EC) = u
  BY <1>1, PutIsShift
<1>5. u \in [Slots -> Entries] /\ InOrder(u)
  BY <1>1, <1>2, <1>3, ShiftInOrdered
<1>6. k \in 0 .. last /\ \A j \in Slots : k <= j /\ j < last => INVALID_EC < t[j].ec
  BY <1>1, <1>3, SlotBelowSplits
<1>7. k = last
  <2>1. ASSUME k < last PROVE FALSE
    <3>1. k \in Slots /\ INVALID_EC < t[k].ec
      BY <1>6, <2>1, <1>3 DEF Slots
    <3> QED BY <3>1, <1>1, EntryTypes
  <2> QED BY <1>6, <2>1, <1>3 DEF Slots
<1>8. \A j \in Slots : u[j] = IF j = last THEN Entry(b, INVALID_EC) ELSE t[j]
  <2> HIDE DEF k
  <2> QED BY <1>3, <1>7 DEF ShiftIn, Slots
<1>9. Entry(b, INVALID_EC).ec = INVALID_EC /\ Entry(b, INVALID_EC).block = b
  BY DEF Entry
<1>10. t[last].ec = INVALID_EC
  BY LastSlotUnused
<1> HIDE DEF u
<1>11. GoodIn(u) = GoodIn(t) /\ \A i \in GoodIn(t) : u[i] = t[i]
  BY <1>8, <1>9, <1>10, <1>3 DEF GoodIn
<1>12. Balanced(u, h \ {b}, d \cup {b})
  BY <1>11, <1>2 DEF TableInv, Balanced
<1>13. DeadEntries(u, d \cup {b})
  BY <1>8, <1>9 DEF TableInv, DeadEntries
<1> QED BY <1>4, <1>5, <1>12, <1>13 DEF TableInv

\* The entries after slot s move down by one when INDEX_FreeBlock_Get takes
\* the entry of slot s: the table stays in order, and it loses the block of
\* that entry if it was a good one.
LEMMA RemoveShifts ==
  ASSUME NEW t, NEW h, NEW d, TableInv(t, h, d), NEW s \in Slots
  PROVE  LET u == FbtRemove(t, s)
         IN  /\ u \in [Slots -> Entries] /\ InOrder(u) /\ DeadEntries(u, d)
             /\ \A i \in GoodIn(u) : \/ i < s /\ i \in GoodIn(t) /\ u[i] = t[i]
                                     \/ s <= i /\ i + 1 \in GoodIn(t) /\ u[i] = t[i + 1]
             /\ \A i \in GoodIn(t) : \/ i = s
                                     \/ i < s /\ i \in GoodIn(u) /\ u[i] = t[i]
                                     \/ s < i /\ i - 1 \in GoodIn(u) /\ u[i - 1] = t[i]
<1> USE FbtAssumption, TableAssumption
<1> DEFINE u == FbtRemove(t, s)
           last == FREE_BLOCK_COUNT - 1
<1>1. t \in [Slots -> Entries] /\ InOrder(t)
  BY DEF TableInv
<1>2. \A j \in Slots : u[j] = IF j < s THEN t[j] ELSE IF j < last THEN t[j + 1] ELSE NoEntry
  BY DEF FbtRemove
<1>3. NoEntry \in Entries /\ NoEntry.ec = INVALID_EC
  BY DEF NoEntry, Entry, Entries
<1>4. \A j \in Slots : j < last => j + 1 \in Slots
  BY DEF Slots
<1>5. \A j \in Slots : t[j].ec \in Nat /\ t[j].ec <= INVALID_EC
  BY <1>1, EntryTypes
<1>6. u \in [Slots -> Entries]
  <2>1. \A j \in Slots : u[j] \in Entries
    BY <1>1, <1>2, <1>3, <1>4
  <2> QED BY <2>1 DEF FbtRemove
<1>7. s \in Int /\ \A j \in Slots : j \in Int /\ j <= last
  BY DEF Slots
<1> HIDE DEF u
<1>8. InOrder(u)
  <2> SUFFICES ASSUME NEW i \in Slots, NEW j \in Slots, i < j PROVE u[i].ec <= u[j].ec
    BY DEF InOrder
  <2>1. CASE j < s
    BY <2>1, <1>2, <1>1, <1>7 DEF InOrder
  <2>2. CASE ~(j < s) /\ j < last
    <3>1. u[j] = t[j + 1] /\ j + 1 \in Slots
      BY <2>2, <1>2, <1>4
    <3>2. u[i] = t[i] \/ (u[i] = t[i + 1] /\ i + 1 \in Slots)
      BY <2>2, <1>2, <1>4, <1>7
    <3> QED BY <3>1, <3>2, <1>1, <1>7 DEF InOrder
  <2>3. CASE ~(j < s) /\ ~(j < last)
    BY <2>3, <1>2, <1>3, <1>4, <1>5, <1>7
  <2> QED BY <2>1, <2>2, <2>3
<1>9. ASSUME NEW i \in GoodIn(u)
      PROVE  \/ i < s /\ i \in GoodIn(t) /\ u[i] = t[i]
             \/ s <= i /\ i + 1 \in GoodIn(t) /\ u[i] = t[i + 1]
  BY <1>2, <1>3, <1>4, <1>7 DEF GoodIn
<1>10. ASSUME NEW i \in GoodIn(t)
       PROVE  \/ i = s
              \/ i < s /\ i \in GoodIn(u) /\ u[i] = t[i]
              \/ s < i /\ i - 1 \in GoodIn(u) /\ u[i - 1] = t[i]
  <2>1. i \in Slots /\ i \in Int /\ i <= last /\ t[i].ec # INVALID_EC
    BY <1>7 DEF GoodIn
  <2>2. CASE s < i
    <3>1. i - 1 \in Slots /\ ~(i - 1 < s) /\ i - 1 < last /\ (i - 1) + 1 = i
      BY <2>1, <2>2, <1>7 DEF Slots
    <3> QED BY <2>1, <2>2, <3>1, <1>2 DEF GoodIn
  <2> QED BY <2>1, <2>2, <1>2, <1>7 DEF GoodIn
<1>11. DeadEntries(u, d)
  <2>1. NoEntry.block = INVALID_BLOCK
    BY DEF NoEntry, Entry
  <2> QED BY <2>1, <1>2, <1>4 DEF TableInv, DeadEntries
<1> QED BY <1>6, <1>8, <1>9, <1>10, <1>11 DEF u

\* What INDEX_FreeBlock_Get takes out goes to the caller when its erase
\* succeeds, and is discarded when it fails.
LEMMA RemoveKeeps ==
  ASSUME NEW t, NEW h, NEW d, TableInv(t, h, d),
         NEW s \in Slots, t[s].block # INVALID_BLOCK
  PROVE  /\ s \in GoodIn(t) => TableInv(FbtRemove(t, s), h \cup {t[s].block}, d)
         /\ TableInv(FbtRemove(t, s), h, d \cup {t[s].block})
<1> USE FbtAssumption, TableAssumption
<1> DEFINE u == FbtRemove(t, s)
           b == t[s].block
<1>1. /\ u \in [Slots -> Entries] /\ InOrder(u) /\ DeadEntries(u, d)
      /\ \A i \in GoodIn(u) : \/ i < s /\ i \in GoodIn(t) /\ u[i] = t[i]
                              \/ s <= i /\ i + 1 \in GoodIn(t) /\ u[i] = t[i + 1]
      /\ \A i \in GoodIn(t) : \/ i = s
                              \/ i < s /\ i \in GoodIn(u) /\ u[i] = t[i]
                              \/ s < i /\ i - 1 \in GoodIn(u) /\ u[i - 1] = t[i]
  BY RemoveShifts
<1> HIDE DEF u
<1>2. s \in Int /\ GoodIn(t) \subseteq Int /\ GoodIn(u) \subseteq Int
  BY DEF GoodIn, Slots
<1>3. /\ h \subseteq Block /\ d \subseteq Block /\ h \cap d = {}
      /\ \A i \in GoodIn(t) : t[i].block \in Block /\ t[i].block \notin h /\ t[i].block \notin d
      /\ \A i, j \in GoodIn(t) : t[i].block = t[j].block => i = j
      /\ \A x \in Block : x \in d \/ x \in h \/ \E i \in GoodIn(t) : t[i].block = x
  BY DEF TableInv, Balanced
<1>4. b \in Block
  BY EntryTypes DEF TableInv
<1>5. b \notin h
  <2>1. CASE s \in GoodIn(t)
    BY <2>1, <1>3
  <2>2. CASE s \notin GoodIn(t)
    BY <2>2, <1>3 DEF TableInv, DeadEntries, GoodIn
  <2> QED BY <2>1, <2>2
<1>6. \A i \in GoodIn(u) : \E m \in GoodIn(t) : m # s /\ u[i] = t[m] /\ m = IF i < s THEN i ELSE i + 1
  BY <1>1, <1>2
<1>7. ASSUME NEW i \in GoodIn(u), NEW j \in GoodIn(u), u[i].block = u[j].block PROVE i = j
  <2>1. PICK m \in GoodIn(t) : u[i] = t[m] /\ m = IF i < s THEN i ELSE i + 1
    BY <1>6
  <2>2. PICK n \in GoodIn(t) : u[j] = t[n] /\ n = IF j < s THEN j ELSE j + 1
    BY <1>6
  <2>3. m = n
    BY <2>1, <2>2, <1>3, <1>7
  <2> QED BY <2>1, <2>2, <2>3, <1>2
<1>8. \A x \in Block : x # b => x \in d \/ x \in h \/ \E i \in GoodIn(u) : u[i].block = x
  BY <1>1, <1>3
<1>9. \A i \in GoodIn(u) : u[i].block \in Block /\ u[i].block \notin h /\ u[i].block \notin d
  BY <1>3, <1>6
<1>10. \A i \in GoodIn(u) : u[i].block # b
  <2> SUFFICES ASSUME NEW i \in GoodIn(u), u[i].block = b PROVE FALSE
    OBVIOUS
  <2>1. PICK m \in GoodIn(t) : m # s /\ u[i] = t[m]
    BY <1>6
  <2>2. CASE s \in GoodIn(t)
    BY <2>1, <2>2, <1>3
  <2>3. CASE s \notin GoodIn(t)
    BY <2>1, <2>3, <1>3 DEF TableInv, DeadEntries, GoodIn
  <2> QED BY <2>2, <2>3
<1>11. ASSUME s \in GoodIn(t) PROVE TableInv(u, h \cup {b}, d)
  <2>1. Balanced(u, h \cup {b}, d)
    <3>1. b \notin d
      BY <1>3, <1>11
    <3> HIDE DEF b
    <3>2. h \cup {b} \subseteq Block /\ d \subseteq Block /\ (h \cup {b}) \cap d = {}
      BY <1>3, <1>4, <3>1
    <3> QED BY <3>2, <1>7, <1>8, <1>9, <1>10 DEF Balanced
  <2> QED BY <2>1, <1>1 DEF TableInv
<1>12. TableInv(u, h, d \cup {b})
  <2>1. Balanced(u, h, d \cup {b})
    <3> HIDE DEF b
    <3>1. h \subseteq Block /\ d \cup {b} \subseteq Block /\ h \cap (d \cup {b}) = {}
      BY <1>3, <1>4, <1>5
    <3>2. \A i \in GoodIn(u) :
             u[i].block \in Block /\ u[i].block \notin h /\ u[i].block \notin d \cup {b}
      BY <1>9, <1>10
    <3>3. \A x \in Block : x \in d \cup {b} \/ x \in h \/ \E i \in GoodIn(u) : u[i].block = x
      BY <1>8
    <3> QED BY <3>1, <3>2, <3>3, <1>7 DEF Balanced
  <2>2. DeadEntries(u, d \cup {b})
    BY <1>1 DEF DeadEntries
  <2> QED BY <2>1, <2>2, <1>1 DEF TableInv
<1> QED BY <1>11, <1>12 DEF u

\* INDEX_FreeBlock_SwapMaxECBlock gives the most worn entry to the caller in
\* exchange for the caller's block.
LEMMA SwapKeeps ==
  ASSUME NEW t, NEW h, NEW d, TableInv(t, h, d),
         NEW b \in h, NEW e \in Ecs, NEW top, top = MaxEcSlot(t),
         top > 0, t[top].ec > e, t[top].ec - e > Threshold
  PROVE  TableInv(FbtSwap(t, b, e, Threshold), (h \ {b}) \cup {t[top].block}, d)
<1> USE FbtAssumption, TableAssumption
<1> DEFINE k == SlotBelow(t, e, top)
           u == ShiftIn(t, k, top, Entry(b, e))
           c == t[top].block
<1>1. t \in [Slots -> Entries] /\ InOrder(t) /\ e \in Nat /\ e < INVALID_EC
  BY DEF TableInv, Ecs
<1>2. b \in Block /\ b \notin d
  BY DEF TableInv, Balanced
<1>3. /\ top \in Slots \ {0} /\ t[top].ec # INVALID_EC
      /\ \A j \in Slots : top < j => t[j].ec = INVALID_EC
  BY MaxEcSlotLast
<1>4. FbtSwap(t, b, e, Threshold) = u
  BY SwapIsShift
<1>5. u \in [Slots -> Entries] /\ InOrder(u)
  <2>1. \A j \in Slots : top < j => e <= t[j].ec
    BY <1>1, <1>3
  <2> QED BY <2>1, <1>1, <1>2, <1>3, ShiftInOrdered
<1>6. k \in 0 .. top
  BY <1>1, <1>3, SlotBelowSplits
<1> HIDE DEF k
<1>7. k \in Slots /\ k \in Int /\ top \in Int /\ k <= top
  BY <1>3, <1>6 DEF Slots
<1>8. \A j \in Slots : u[j] = IF j < k THEN t[j]
                              ELSE IF j = k THEN Entry(b, e)
                              ELSE IF j <= top THEN t[j - 1]
                              ELSE t[j]
  BY DEF ShiftIn
<1>9. Entry(b, e).block = b /\ Entry(b, e).ec = e
  BY DEF Entry
<1>10. \A j \in Slots : k < j => j - 1 \in Slots
  BY <1>7 DEF Slots
<1> HIDE DEF u
<1>11. \A i \in GoodIn(u) : \/ i = k /\ u[i].block = b
                            \/ i < k /\ i \in GoodIn(t) /\ u[i] = t[i]
                            \/ k < i /\ i <= top /\ i - 1 \in GoodIn(t) /\ u[i] = t[i - 1]
  BY <1>3, <1>7, <1>8, <1>9, <1>10 DEF GoodIn, Slots
<1>12. \A i \in GoodIn(t) : \/ i = top
                            \/ i \in GoodIn(u) /\ u[i] = t[i]
                            \/ i + 1 \in GoodIn(u) /\ u[i + 1] = t[i]
  <2> SUFFICES ASSUME NEW i \in GoodIn(t), i # top
               PROVE  \/ i \in GoodIn(u) /\ u[i] = t[i]
                      \/ i + 1 \in GoodIn(u) /\ u[i + 1] = t[i]
    OBVIOUS
  <2>1. i \in Slots /\ i + 1 \in Slots /\ i < top
    BY <1>3, <1>7 DEF GoodIn, Slots
  <2> QED BY <2>1, <1>7, <1>8 DEF GoodIn, Slots
<1>13. k \in GoodIn(u) /\ u[k].block = b
  BY <1>1, <1>7, <1>8, <1>9 DEF GoodIn
<1>14. /\ h \subseteq Block /\ d \subseteq Block /\ h \cap d = {}
       /\ \A i \in GoodIn(t) : t[i].block \in Block /\ t[i].block \notin h /\ t[i].block \notin d
       /\ \A i, j \in GoodIn(t) : t[i].block = t[j].block => i = j
       /\ \A x \in Block : x \in d \/ x \in h \/ \E i \in GoodIn(t) : t[i].block = x
  BY DEF TableInv, Balanced
<1>15. top \in GoodIn(t) /\ c \in Block /\ c \notin h /\ c \notin d /\ c # b
  BY <1>3, <1>14 DEF GoodIn
<1>16. \A i \in GoodIn(u) : i # k =>
         \E m \in GoodIn(t) : /\ u[i] = t[m] /\ m # top
                              /\ m = IF i < k THEN i ELSE i - 1
  BY <1>7, <1>11 DEF GoodIn, Slots
<1>17. \A i \in GoodIn(u) : i # k => u[i].block \in Block /\ u[i].block \notin h
                                     /\ u[i].block \notin d /\ u[i].block # c
  BY <1>14, <1>15, <1>16
<1> HIDE DEF c
<1>18. \A i \in GoodIn(u) : /\ u[i].block \in Block
                            /\ u[i].block \notin (h \ {b}) \cup {c}
                            /\ u[i].block \notin d
  BY <1>2, <1>13, <1>15, <1>17
<1>19. ASSUME NEW i \in GoodIn(u), NEW j \in GoodIn(u), u[i].block = u[j].block PROVE i = j
  <2>1. i \in Int /\ j \in Int
    BY DEF GoodIn, Slots
  <2>2. i = k <=> j = k
    BY <1>13, <1>17, <1>19
  <2>3. CASE i # k /\ j # k
    <3>1. PICK m \in GoodIn(t) : u[i] = t[m] /\ m = IF i < k THEN i ELSE i - 1
      BY <1>16, <2>3
    <3>2. PICK n \in GoodIn(t) : u[j] = t[n] /\ n = IF j < k THEN j ELSE j - 1
      BY <1>16, <2>3
    <3>3. m = n
      BY <3>1, <3>2, <1>14, <1>19
    <3> QED BY <3>1, <3>2, <3>3, <2>1, <2>3, <1>7
  <2> QED BY <2>2, <2>3
<1>20. \A x \in Block : x \in d \/ x \in (h \ {b}) \cup {c} \/ \E i \in GoodIn(u) : u[i].block = x
  <2> SUFFICES ASSUME NEW x \in Block, x \notin d, x \notin (h \ {b}) \cup {c}
               PROVE  \E i \in GoodIn(u) : u[i].block = x
    OBVIOUS
  <2>1. CASE x = b
    BY <2>1, <1>13
  <2>2. CASE x # b
    <3>1. PICK i \in GoodIn(t) : t[i].block = x
      BY <2>2, <1>14
    <3>2. i # top
      BY <3>1 DEF c
    <3> QED BY <3>1, <3>2, <1>12
  <2> QED BY <2>1, <2>2
<1>21. Balanced(u, (h \ {b}) \cup {c}, d)
  <2>1. (h \ {b}) \cup {c} \subseteq Block /\ ((h \ {b}) \cup {c}) \cap d = {}
    BY <1>14, <1>15
  <2> QED BY <2>1, <1>14, <1>18, <1>19, <1>20 DEF Balanced
<1>22. DeadEntries(u, d)
  BY <1>1, <1>7, <1>8, <1>9, <1>10 DEF TableInv, DeadEntries
<1> QED BY <1>4, <1>5, <1>21, <1>22 DEF TableInv, c
-----------------------------------------------------------------------------
\* INDEX_Format numbers the blocks it puts into the table from 0 without gaps.
LEMMA RankNumbers ==
  /\ Cardinality(InitFree) \in Nat /\ Cardinality(InitFree) < FREE_BLOCK_COUNT
  /\ \A b \in InitFree : Rank(b) \in 0 .. Cardinality(InitFree) - 1
  /\ \A b, c \in InitFree : Rank(b) = Rank(c) => b = c
  /\ \A i \in 0 .. Cardinality(InitFree) - 1 : \E b \in InitFree : Rank(b) = i
<1> USE FbtAssumption, TableAssumption
<1> DEFINE Below(b) == {c \in InitFree : c < b}
           n == Cardinality(InitFree)
<1>1. IsFiniteSet(InitFree) /\ n <= Cardinality(Block)
  BY FS_Subset
<1>2. n \in Nat /\ Cardinality(Block) \in Nat
  BY <1>1, FS_CardinalityType
<1>3. InitFree \subseteq Nat
  OBVIOUS
<1>4. \A b : IsFiniteSet(Below(b)) /\ Cardinality(Below(b)) \in Nat
  <2> TAKE b
  <2>1. Below(b) \in SUBSET InitFree
    OBVIOUS
  <2>2. IsFiniteSet(Below(b))
    <3> HIDE DEF Below
    <3> QED BY <2>1, <1>1, FS_Subset
  <2> QED BY <2>2, FS_CardinalityType
<1>5. \A b : Rank(b) = Cardinality(Below(b))
  BY DEF Rank
<1>6. ASSUME NEW b \in InitFree PROVE Rank(b) \in 0 .. n - 1
  <2>1. Below(b) \in SUBSET InitFree /\ Below(b) # InitFree
    <3>1. b \notin Below(b)
      BY <1>3
    <3> QED BY <3>1
  <2>2. Cardinality(Below(b)) <= n /\ Cardinality(Below(b)) # n
    <3> HIDE DEF Below
    <3> QED BY <2>1, <1>1, FS_Subset
  <2> QED BY <2>2, <1>2, <1>4, <1>5
<1>7. ASSUME NEW b \in InitFree, NEW c \in InitFree, b < c PROVE Rank(b) # Rank(c)
  <2>1. Below(b) \in SUBSET Below(c)
    <3>1. \A x \in InitFree : x < b => x < c
      BY <1>3, <1>7
    <3> QED BY <3>1
  <2>2. Below(b) # Below(c)
    <3>1. b \in Below(c) /\ b \notin Below(b)
      BY <1>3, <1>7
    <3> QED BY <3>1
  <2>3. Cardinality(Below(b)) # Cardinality(Below(c))
    <3> HIDE DEF Below
    <3> QED BY <2>1, <2>2, <1>4, FS_Subset
  <2> QED BY <2>3, <1>5
<1>8. \A b, c \in InitFree : Rank(b) = Rank(c) => b = c
  BY <1>3, <1>7
<1> DEFINE f == [b \in InitFree |-> Rank(b)]
           R == 0 .. n - 1
<1>9. f \in Injection(InitFree, R)
  BY <1>6, <1>8 DEF Injection, IsInjective
<1>10. IsFiniteSet(R) /\ Cardinality(R) = n
  <2>1. 0 \in Int /\ n - 1 \in Int /\ (0 > n - 1 => n = 0) /\ (n - 1) - 0 + 1 = n
    BY <1>2
  <2> HIDE DEF n
  <2> QED BY <2>1, FS_Interval
<1>11. f \in Surjection(InitFree, R)
  <2> HIDE DEF f, R
  <2> QED BY <1>9, <1>10, FS_Injection
<1>12. \A i \in R : \E b \in InitFree : Rank(b) = i
  BY <1>11 DEF Surjection
<1> QED BY <1>1, <1>2, <1>6, <1>8, <1>12

\* The table INDEX_Format makes is in order.
LEMMA FormatInOrder == Init => IInv
<1> USE FbtAssumption, TableAssumption
<1> SUFFICES ASSUME Init PROVE IInv
  OBVIOUS
<1> DEFINE n == Cardinality(InitFree)
           at(i) == CHOOSE b \in InitFree : Rank(b) = i
<1>1. /\ n \in Nat /\ n < FREE_BLOCK_COUNT
      /\ \A b \in InitFree : Rank(b) \in 0 .. n - 1
      /\ \A b, c \in InitFree : Rank(b) = Rank(c) => b = c
      /\ \A i \in 0 .. n - 1 : \E b \in InitFree : Rank(b) = i
  BY RankNumbers
<1>2. \A i \in 0 .. n - 1 : at(i) \in InitFree /\ Rank(at(i)) = i
  BY <1>1
<1>3. \A i \in Slots : fbt[i] = IF i < n THEN Entry(at(i), 0) ELSE NoEntry
  <2> TAKE i \in Slots
  <2>1. i < n <=> \E b \in InitFree : Rank(b) = i
    BY <1>1 DEF Slots
  <2>2. fbt[i] = IF \E b \in InitFree : Rank(b) = i THEN Entry(at(i), 0) ELSE NoEntry
    BY DEF Init
  <2> QED BY <2>1, <2>2
<1> HIDE DEF at, n
<1>4. /\ \A b, e : Entry(b, e).block = b /\ Entry(b, e).ec = e
      /\ NoEntry.block = INVALID_BLOCK /\ NoEntry.ec = INVALID_EC
  BY DEF Entry, NoEntry
<1>5. \A i \in Slots : fbt[i].ec = IF i < n THEN 0 ELSE INVALID_EC
  BY <1>3, <1>4
<1>6. GoodIn(fbt) = 0 .. n - 1
  BY <1>1, <1>5 DEF GoodIn, Slots
<1>7. \A i \in GoodIn(fbt) : fbt[i].block \in InitFree /\ Rank(fbt[i].block) = i
  <2> SUFFICES ASSUME NEW i \in 0 .. n - 1
               PROVE  fbt[i].block \in InitFree /\ Rank(fbt[i].block) = i
    BY <1>6
  <2>1. i \in Slots /\ i < n
    BY <1>1 DEF Slots
  <2>2. fbt[i].block = at(i)
    BY <2>1, <1>3, <1>4
  <2> QED BY <2>2, <1>2
<1>8. fbt \in [Slots -> Entries]
  <2>1. NoEntry \in Entries /\ \A i \in 0 .. n - 1 : Entry(at(i), 0) \in Entries
    <3>1. NoEntry \in Entries
      BY DEF Entry, NoEntry, Entries
    <3>2. \A b \in Block : Entry(b, 0) \in Entries
      BY DEF Entry, Entries, Ecs
    <3> QED BY <3>1, <3>2, <1>2
  <2>2. \A i \in Slots : fbt[i] \in Entries
    BY <2>1, <1>1, <1>3 DEF Slots
  <2> QED BY <2>2 DEF Init
<1>9. InOrder(fbt)
  BY <1>1, <1>5 DEF InOrder, Slots
<1>10. DeadEntries(fbt, bad)
  BY <1>3, <1>4, <1>5 DEF DeadEntries
<1>11. \A b \in InitFree : \E i \in GoodIn(fbt) : fbt[i].block = b
  <2> TAKE b \in InitFree
  <2>1. Rank(b) \in GoodIn(fbt)
    BY <1>1, <1>6
  <2> QED BY <2>1, <1>1, <1>7
<1>12. Balanced(fbt, held, bad)
  <2>1. held = Block \ InitFree /\ bad = {}
    BY DEF Init
  <2> QED BY <2>1, <1>7, <1>11 DEF Balanced
<1> QED BY <1>8, <1>9, <1>10, <1>12 DEF IInv, TableInv

\* Every call of the table's users keeps it in order.
LEMMA CallsKeepOrder == IInv /\ [Next]_vars => IInv'
<1> USE FbtAssumption, TableAssumption
<1> SUFFICES ASSUME IInv, [Next]_vars PROVE IInv'
  OBVIOUS
<1>1. TableInv(fbt, held, bad)
  BY DEF IInv
<1>2. ASSUME NEW die \in 0 .. TOTAL_DIE_COUNT - 1, Get(die) PROVE IInv'
  <2> DEFINE i == PickSlot(fbt, die)
             b == fbt[i].block
  <2>1. i \in Slots
    BY PickSlotInTable
  <2>2. /\ b # INVALID_BLOCK /\ fbt' = FbtRemove(fbt, i)
        /\ \/ fbt[i].ec < MaxEc /\ held' = held \cup {b} /\ bad' = bad
           \/ held' = held /\ bad' = bad \cup {b}
    BY <1>2 DEF Get
  <2>3. fbt[i].ec < MaxEc => i \in GoodIn(fbt)
    BY <2>1 DEF GoodIn
  <2> HIDE DEF i
  <2>4. i \in GoodIn(fbt) => TableInv(FbtRemove(fbt, i), held \cup {b}, bad)
    BY <1>1, <2>1, <2>2, RemoveKeeps
  <2>5. TableInv(FbtRemove(fbt, i), held, bad \cup {b})
    BY <1>1, <2>1, <2>2, RemoveKeeps
  <2> HIDE DEF b
  <2> QED BY <2>2, <2>3, <2>4, <2>5 DEF IInv
<1>3. ASSUME NEW b \in held, NEW e \in Ecs, Put(b, e) PROVE IInv'
  BY <1>1, <1>3, PutKeeps DEF Put, IInv
<1>4. ASSUME NEW b \in held, NEW e \in Ecs, Swap(b, e) PROVE IInv'
  BY <1>1, <1>4, SwapKeeps DEF Swap, IInv
<1>5. ASSUME NEW b \in held, PutBad(b) PROVE IInv'
  BY <1>1, <1>5, PutBadKeeps DEF PutBad, IInv
<1>6. CASE UNCHANGED vars
  BY <1>1, <1>6 DEF vars, IInv
<1> QED BY <1>2, <1>3, <1>4, <1>5, <1>6 DEF Next

\* The table is in order under any sequence of calls.
THEOREM TableInvariant == Spec => []IInv
BY FormatInOrder, CallsKeepOrder, PTL DEF Spec

\* The entries and the sets of blocks keep their types.
THEOREM TableTypes == Spec => []TypeOK
<1>1. IInv => TypeOK
  BY DEF IInv, TableInv, Balanced, TypeOK
<1> QED BY <1>1, TableInvariant, PTL

\* The table stays sorted by erase count, whatever counts are put in.
THEOREM TableSorted == Spec => []Sorted
<1>1. IInv => Sorted
  BY DEF IInv, TableInv, InOrder, Sorted
<1> QED BY <1>1, TableInvariant, PTL

\* No block is lost or doubled by the shifting, for every number of slots
\* larger than the number of blocks.
THEOREM TableConserved == Spec => []Conserved
<1>1. IInv => Conserved
  <2> SUFFICES ASSUME IInv PROVE Conserved
    OBVIOUS
  <2>1. GoodSlots = GoodIn(fbt)
    BY DEF GoodSlots, GoodIn
  <2>2. /\ held \subseteq Block /\ held \cap bad = {}
        /\ \A i \in GoodSlots : /\ fbt[i].block \in Block
                                /\ fbt[i].block \notin held /\ fbt[i].block \notin bad
        /\ \A i, j \in GoodSlots : fbt[i].block = fbt[j].block => i = j
        /\ \A b \in Block : b \in bad \/ b \in held \/ \E i \in GoodSlots : fbt[i].block = b
    BY <2>1 DEF IInv, TableInv, Balanced
  <2>3. Block \ bad = held \cup {fbt[i].block : i \in GoodSlots}
    BY <2>2
  <2> QED BY <2>2, <2>3 DEF Conserved
<1> QED BY <1>1, TableInvariant, PTL

\* A discarded block is never handed out again.
THEOREM TableDiscards == Spec => []BadNeverHandedOut
<1>1. IInv => BadNeverHandedOut
  BY DEF IInv, TableInv, Balanced, BadNeverHandedOut
<1> QED BY <1>1, TableInvariant, PTL

\* INDEX_FreeBlock_Get finds the least worn good block of the wanted die.
THEOREM TableGetFinds == Spec => []GetFinds
<1> USE FbtAssumption, TableAssumption
<1>1. ASSUME IInv PROVE GetFinds
  <2>1. TableInv(fbt, held, bad) /\ fbt \in [Slots -> Entries] /\ GoodSlots = GoodIn(fbt)
    BY <1>1 DEF IInv, TableInv, GoodSlots, GoodIn
  <2>2. \A i, j \in Slots : i < j => fbt[i].ec <= fbt[j].ec
    BY <2>1 DEF TableInv, InOrder
  <2>3. \A i \in Slots : i \in Nat /\ fbt[i].ec \in Nat /\ fbt[i].ec <= INVALID_EC
    BY <2>1, EntryTypes DEF Slots
  <2>4. \A i \in GoodSlots : i \in Slots /\ fbt[i].block # INVALID_BLOCK
    BY <2>1 DEF TableInv, Balanced, GoodIn
  <2>5. \A i \in Slots : \A j \in GoodSlots : i <= j => i \in GoodSlots /\ fbt[i].ec <= fbt[j].ec
    BY <2>2, <2>3, <2>4 DEF GoodSlots
  <2>6. GoodSlots # {} => fbt[0].block # INVALID_BLOCK
    <3>1. 0 \in Slots /\ \A j \in Slots : 0 <= j
      BY DEF Slots
    <3> QED BY <3>1, <2>4, <2>5
  <2>7. ASSUME NEW die \in 0 .. TOTAL_DIE_COUNT - 1,
               NEW x \in GoodSlots, fbt[x].block % TOTAL_DIE_COUNT = die
        PROVE  /\ PickSlot(fbt, die) \in GoodSlots
               /\ fbt[PickSlot(fbt, die)].block % TOTAL_DIE_COUNT = die
               /\ \A i \in GoodSlots : fbt[i].block % TOTAL_DIE_COUNT = die
                                         => fbt[PickSlot(fbt, die)].ec <= fbt[i].ec
    <3> DEFINE stops == {i \in Slots : \/ fbt[i].block = INVALID_BLOCK
                                       \/ fbt[i].block % TOTAL_DIE_COUNT = die}
               first == CHOOSE i \in stops : IsSmallest(i, stops)
    <3>1. \A i \in GoodSlots : fbt[i].block % TOTAL_DIE_COUNT = die => i \in stops
      BY <2>4
    <3>2. PickSlot(fbt, die)
            = IF stops # {} /\ fbt[first].block # INVALID_BLOCK THEN first ELSE 0
      BY DEF PickSlot
    <3>3. stops \in SUBSET Nat /\ stops # {}
      BY <3>1, <2>3, <2>7
    <3>4. \E i \in stops : IsSmallest(i, stops)
      <4> HIDE DEF stops
      <4> QED BY <3>3, HasSmallest
    <3>5. first \in stops /\ \A j \in stops : first <= j
      BY <3>4 DEF IsSmallest
    <3> HIDE DEF first
    <3>6. first \in Slots
      BY <3>5
    <3>7. first \in GoodSlots /\ fbt[first].block # INVALID_BLOCK
      BY <3>1, <3>5, <3>6, <2>4, <2>5, <2>7
    <3>8. fbt[first].block % TOTAL_DIE_COUNT = die
      BY <3>5, <3>7
    <3>9. PickSlot(fbt, die) = first
      BY <3>2, <3>3, <3>7
    <3>10. \A i \in GoodSlots : fbt[i].block % TOTAL_DIE_COUNT = die => fbt[first].ec <= fbt[i].ec
      BY <3>1, <3>5, <3>6, <2>5
    <3> QED BY <3>7, <3>8, <3>9, <3>10
  <2> QED BY <2>6, <2>7 DEF GetFinds
<1> QED BY <1>1, TableInvariant, PTL
=============================================================================

-------------------------- MODULE AnchorRing_proofs --------------------------
(***************************************************************************)
(* The anchor table for every ring of blocks, every number of pages and any *)
(* contents.  Two inductive invariants: one for power losses at any moment  *)
(* while the ring does not wrap around, one for failing NAND operations of  *)
(* every kind without a power loss.                                         *)
(***************************************************************************)
EXTENDS AnchorRing, FiniteSetTheorems, SequenceTheorems, TLAPS

AnchorTables == [body : Body, previous_anchor_block : Blocks \cup {INVALID_BLOCK},
                 bad : SUBSET Blocks]

CampaignSet == [updates : Nat, losses : Nat, bad : Nat,
                kinds : SUBSET {"find", "program", "previous"}]

\* The good blocks after block b.  Fits: u updates and d blocks that may still
\* fail need no more pages than the n left in block b and those of these blocks.
Room(b, bad) == Cardinality((b + 1 .. Last) \ bad)
Fits(u, d, n, b, bad) == u + P * d <= n + P * Room(b, bad)

\* A campaign that does not take the anchor past the last block of the ring.
NoWrap(c) == c.updates + P * c.bad <= P - 1 + P * (Last - First)

Flashes == [Blocks -> Seq(AnchorTables)]

\* In flash f only block h has tables, n of them.
Single(f, h, n) ==
  /\ h \in Blocks /\ n \in 1 .. P /\ Len(f[h]) = n
  /\ \A b \in Blocks \ {h} : f[b] = <<>>
  /\ f[h][n].previous_anchor_block < h

\* Block m has its first table, which names block o, not erased yet.
Pair(f, o, m) ==
  /\ o \in Blocks /\ m \in Blocks /\ o < m
  /\ Len(f[o]) \in 1 .. P /\ Len(f[m]) = 1
  /\ \A b \in Blocks \ {o, m} : f[b] = <<>>
  /\ f[o][Len(f[o])].previous_anchor_block < o
  /\ f[m][1].previous_anchor_block = o

\* Block h, with n tables, holds the table acknowledged last.
HoldsAcked(f, h, n) ==
  /\ Single(f, h, n)
  /\ f[h][n].body = acked
  /\ f[h][n].bad \subseteq anchor_table.bad

RingTyped ==
  /\ flash \in Flashes
  /\ anchor_table \in AnchorTables
  /\ anchor_block \in Blocks /\ next_block \in Blocks
  /\ anchor_next_page \in 0 .. P
  /\ anchor_reclaimed \in BOOLEAN
  /\ campaign \in CampaignSet

IdleInv ==
  /\ HoldsAcked(flash, anchor_block, anchor_next_page)
  /\ flash[anchor_block][anchor_next_page] = anchor_table
  /\ Fits(campaign.updates, campaign.bad, P - anchor_next_page, anchor_block,
          anchor_table.bad)

LoopInv ==
  /\ HoldsAcked(flash, anchor_block, anchor_next_page)
  /\ anchor_table.previous_anchor_block < anchor_block
  /\ Fits(campaign.updates + 1, campaign.bad, P - anchor_next_page, anchor_block,
          anchor_table.bad)

FindInv ==
  /\ HoldsAcked(flash, anchor_block, P) /\ anchor_next_page = P
  /\ anchor_table.previous_anchor_block = anchor_block
  /\ anchor_block <= next_block
  /\ (anchor_block + 1 .. next_block) \subseteq anchor_table.bad
  /\ Fits(campaign.updates + 1, campaign.bad, 0, anchor_block, anchor_table.bad)

ReclaimedInv ==
  /\ HoldsAcked(flash, anchor_table.previous_anchor_block, P)
  /\ anchor_table.previous_anchor_block < anchor_block
  /\ anchor_block \notin anchor_table.bad
  /\ anchor_next_page = 0
  /\ Fits(campaign.updates + 1, campaign.bad, P, anchor_block, anchor_table.bad)

PreviousInv ==
  /\ Pair(flash, anchor_table.previous_anchor_block, anchor_block)
  /\ flash[anchor_block][1] = anchor_table
  /\ anchor_next_page = 0
  /\ Fits(campaign.updates, campaign.bad, P - 1, anchor_block, anchor_table.bad)

OffSingle(h, n) ==
  Single(flash, h, n) /\ Fits(campaign.updates, campaign.bad, P - n, h, flash[h][n].bad)

OffPair(o, m) ==
  Pair(flash, o, m) /\ Fits(campaign.updates, campaign.bad, P - 1, m, flash[m][1].bad)

OffInv ==
  \/ \E h \in Blocks, n \in 1 .. P : OffSingle(h, n)
  \/ \E o, m \in Blocks : OffPair(o, m)

\* The inductive invariant while no program and no erase of an old block fails.
SoundInv ==
  /\ RingTyped
  /\ pc \in {"idle", "loop", "find", "erasePrevious", "off"}
  /\ pc = "idle" => IdleInv
  /\ pc = "loop" /\ ~anchor_reclaimed => LoopInv
  /\ pc = "loop" /\ anchor_reclaimed => ReclaimedInv
  /\ pc = "find" => FindInv
  /\ pc = "erasePrevious" => PreviousInv
  /\ pc = "off" => OffInv

RingInv == unsound \in BOOLEAN /\ (~unsound => SoundInv)
-----------------------------------------------------------------------------
(* How many good blocks are left *)

LEMMA RoomNat ==
  ASSUME NEW b \in Int, NEW bad
  PROVE  IsFiniteSet((b + 1 .. Last) \ bad) /\ Room(b, bad) \in Nat
<1> DEFINE S == b + 1 .. Last
<1>1. IsFiniteSet(S)
  BY FS_Interval, AnchorAssumption
<1>2. S \ bad \in SUBSET S
  OBVIOUS
<1>3. IsFiniteSet(S \ bad)
  BY <1>1, <1>2, FS_Subset
<1> QED BY <1>3, FS_CardinalityType DEF Room

\* Logging blocks leaves less room, one block at a time.
LEMMA RoomShrinks ==
  ASSUME NEW b \in Int, NEW bad1, NEW bad2, bad1 \subseteq bad2
  PROVE  Room(b, bad2) <= Room(b, bad1)
<1>1. (b + 1 .. Last) \ bad2 \in SUBSET ((b + 1 .. Last) \ bad1)
  OBVIOUS
<1> QED BY <1>1, RoomNat, FS_Subset DEF Room

LEMMA RoomLogged ==
  ASSUME NEW b \in Int, NEW bad, NEW n
  PROVE  Room(b, bad) <= Room(b, bad \cup {n}) + 1
<1> DEFINE S == (b + 1 .. Last) \ bad
           T == (b + 1 .. Last) \ (bad \cup {n})
<1>1. IsFiniteSet(S) /\ IsFiniteSet(T) /\ Room(b, bad) \in Nat /\ Room(b, bad \cup {n}) \in Nat
  BY RoomNat
<1>2. S \in SUBSET (T \cup {n})
  OBVIOUS
<1>3. IsFiniteSet(T \cup {n}) /\ Cardinality(T \cup {n}) \in {Cardinality(T), Cardinality(T) + 1}
  BY <1>1, FS_AddElement
<1>4. Cardinality(S) <= Cardinality(T \cup {n})
  BY <1>2, <1>3, FS_Subset
<1> QED BY <1>1, <1>3, <1>4, FS_CardinalityType DEF Room

\* A good block after block o leaves room for one block less.
LEMMA RoomOlder ==
  ASSUME NEW o \in Int, NEW m \in Int, o < m, m <= Last,
         NEW bad, NEW bad1, m \notin bad, bad1 \subseteq bad
  PROVE  Room(m, bad) + 1 <= Room(o, bad1)
<1> DEFINE S == (o + 1 .. Last) \ bad1
           T == (m + 1 .. Last) \ bad
<1> USE AnchorAssumption
<1>1. IsFiniteSet(S) /\ IsFiniteSet(T)
  BY RoomNat
<1>2. m \notin T
  OBVIOUS
<1>3. T \cup {m} \in SUBSET S
  OBVIOUS
<1>4. Cardinality(T \cup {m}) = Cardinality(T) + 1
  BY <1>1, <1>2, FS_AddElement
<1>5. Cardinality(T \cup {m}) <= Cardinality(S)
  BY <1>1, <1>3, FS_Subset
<1> QED BY <1>4, <1>5 DEF Room

\* The next good block is the first one with room.
LEMMA RoomNext ==
  ASSUME NEW b \in Int, NEW n \in Int, b < n, n <= Last,
         NEW bad, n \notin bad, (b + 1 .. n - 1) \subseteq bad
  PROVE  Room(b, bad) = Room(n, bad) + 1
<1> DEFINE T == (n + 1 .. Last) \ bad
<1> USE AnchorAssumption
<1>1. IsFiniteSet(T)
  BY RoomNat
<1>2. n \notin T
  OBVIOUS
<1>3. (b + 1 .. Last) \ bad = T \cup {n}
  <2>1. ASSUME NEW x \in (b + 1 .. Last) \ bad PROVE x \in T \cup {n}
    <3>1. CASE x <= n - 1
      BY <2>1, <3>1
    <3>2. CASE x >= n
      BY <2>1, <3>2
    <3> QED BY <2>1, <3>1, <3>2
  <2>2. T \cup {n} \subseteq (b + 1 .. Last) \ bad
    OBVIOUS
  <2> QED BY <2>1, <2>2
<1> QED BY <1>1, <1>2, <1>3, FS_AddElement DEF Room

\* While there is room the search has not come to the last block.
LEMMA RoomLeft ==
  ASSUME NEW b \in Int, NEW x \in Int, NEW bad, Room(b, bad) > 0,
         (b + 1 .. x) \subseteq bad
  PROVE  x < Last
<1> USE AnchorAssumption
<1>1. SUFFICES ASSUME x >= Last PROVE FALSE
  OBVIOUS
<1>2. (b + 1 .. Last) \subseteq (b + 1 .. x)
  BY <1>1
<1>3. (b + 1 .. Last) \ bad = {}
  BY <1>2
<1>4. Room(b, bad) = Cardinality({})
  BY <1>3 DEF Room
<1>5. Cardinality({}) = 0
  BY FS_EmptySet
<1> QED BY <1>4, <1>5

LEMMA RoomAll ==
  Room(First, {}) = Last - First
<1> USE AnchorAssumption
<1>1. (First + 1 .. Last) \ {} = First + 1 .. Last
  OBVIOUS
<1>2. Cardinality(First + 1 .. Last) = Last - (First + 1) + 1
  BY FS_Interval
<1> QED BY <1>1, <1>2 DEF Room

LEMMA TimesP ==
  ASSUME NEW a \in Nat, NEW b \in Nat
  PROVE  /\ P * a \in Nat
         /\ P * (a + 1) = P * a + P
         /\ a <= b => P * a <= P * b
<1> USE AnchorAssumption
<1>1. P * a \in Nat
  OBVIOUS
<1>2. P * (a + 1) = P * a + P
  OBVIOUS
<1>3. ASSUME a <= b PROVE P * a <= P * b
  <2>1. PICK k \in Nat : b = a + k
    BY <1>3
  <2>2. P * b = P * a + P * k
    BY <2>1
  <2>3. P * k \in Nat
    OBVIOUS
  <2> QED BY <2>2, <2>3, <1>1
<1> QED BY <1>1, <1>2, <1>3

\* What fits still fits: with fewer logged blocks; when the next good block is
\* taken; when a block is logged; in the block before.
LEMMA FitsSooner ==
  ASSUME NEW u \in Nat, NEW d \in Nat, NEW n \in Nat, NEW b \in Int, NEW bad, NEW bad1,
         bad1 \subseteq bad, Fits(u + 1, d, n, b, bad)
  PROVE  Fits(u, d, n, b, bad1)
<1>1. Room(b, bad) \in Nat /\ Room(b, bad1) \in Nat /\ Room(b, bad) <= Room(b, bad1)
  BY RoomNat, RoomShrinks
<1>2. P * Room(b, bad) \in Nat /\ P * Room(b, bad1) \in Nat /\ P * d \in Nat
  BY <1>1, TimesP
<1>3. P * Room(b, bad) <= P * Room(b, bad1)
  BY <1>1, TimesP
<1> QED BY <1>2, <1>3 DEF Fits

LEMMA FitsNext ==
  ASSUME NEW u \in Nat, NEW d \in Nat, NEW b \in Int, NEW n \in Int, b < n, n <= Last,
         NEW bad, n \notin bad, (b + 1 .. n - 1) \subseteq bad, Fits(u, d, 0, b, bad)
  PROVE  Fits(u, d, P, n, bad)
<1>1. Room(b, bad) = Room(n, bad) + 1 /\ Room(n, bad) \in Nat
  <2>1. Room(n, bad) \in Nat
    BY RoomNat
  <2> QED BY <2>1, RoomNext
<1>2. P * Room(b, bad) = P * Room(n, bad) + P /\ P * Room(n, bad) \in Nat /\ P * d \in Nat
  BY <1>1, TimesP
<1> QED BY <1>2, AnchorAssumption DEF Fits

LEMMA FitsLogged ==
  ASSUME NEW u \in Nat, NEW d \in Nat, d > 0, NEW b \in Int, NEW n, NEW bad,
         Fits(u, d, 0, b, bad)
  PROVE  Fits(u, d - 1, 0, b, bad \cup {n})
<1> DEFINE r == Room(b, bad) s == Room(b, bad \cup {n})
<1>1. r \in Nat /\ s \in Nat /\ r <= s + 1
  BY RoomNat, RoomLogged
<1>2. P * r <= P * (s + 1) /\ P * (s + 1) = P * s + P /\ P * r \in Nat /\ P * s \in Nat
  BY <1>1, TimesP
<1>3. P * d = P * (d - 1) + P /\ P * (d - 1) \in Nat
  <2>1. d - 1 \in Nat /\ (d - 1) + 1 = d
    OBVIOUS
  <2> QED BY <2>1, TimesP
<1> QED BY <1>2, <1>3, AnchorAssumption DEF Fits

LEMMA FitsOlder ==
  ASSUME NEW u \in Nat, NEW d \in Nat, NEW o \in Int, NEW m \in Int, o < m, m <= Last,
         NEW bad, NEW bad1, m \notin bad, bad1 \subseteq bad, Fits(u + 1, d, P, m, bad)
  PROVE  Fits(u, d, 0, o, bad1)
<1> DEFINE r == Room(m, bad) s == Room(o, bad1)
<1>1. r \in Nat /\ s \in Nat /\ r + 1 <= s
  BY RoomNat, RoomOlder
<1>2. P * (r + 1) <= P * s /\ P * (r + 1) = P * r + P /\ P * r \in Nat /\ P * s \in Nat /\ P * d \in Nat
  BY <1>1, TimesP
<1> QED BY <1>2, AnchorAssumption DEF Fits

LEMMA FitsLeft ==
  ASSUME NEW u \in Nat, NEW d \in Nat, NEW b \in Int, NEW x \in Int, NEW bad,
         (b + 1 .. x) \subseteq bad, Fits(u + 1, d, 0, b, bad)
  PROVE  x < Last
<1>1. Room(b, bad) \in Nat
  BY RoomNat
<1>2. P * d \in Nat
  BY TimesP
<1>3. Room(b, bad) # 0
  <2> SUFFICES ASSUME Room(b, bad) = 0 PROVE FALSE
    OBVIOUS
  <2>1. P * Room(b, bad) = 0
    BY AnchorAssumption
  <2> QED BY <2>1, <1>2 DEF Fits
<1> QED BY <1>1, <1>3, RoomLeft
-----------------------------------------------------------------------------
(* What ANCHOR_Init makes of a flash *)

LEMMA TableReadable ==
  ASSUME NEW t \in AnchorTables
  PROVE  IsTable(t)
<1>1. "body" \in DOMAIN t
  BY DEF AnchorTables
<1>2. "body" \notin DOMAIN BadPage
  BY DEF BadPage
<1> QED BY <1>1, <1>2 DEF IsTable

LEMMA PagesReadable ==
  ASSUME flash \in Flashes, NEW b \in Blocks
  PROVE  LastPage(b) = Len(flash[b]) /\ Len(flash[b]) \in Nat
<1>1. flash[b] \in Seq(AnchorTables) /\ Len(flash[b]) \in Nat
  BY DEF Flashes
<1>2. ASSUME Len(flash[b]) > 0 PROVE IsTable(flash[b][Len(flash[b])])
  BY <1>1, <1>2, TableReadable
<1> QED BY <1>1, <1>2 DEF LastPage

LEMMA LowestOfOne ==
  ASSUME NEW h \in Int
  PROVE  LowestOf({h}) = h
BY DEF LowestOf

LEMMA LowestOfTwo ==
  ASSUME NEW o \in Int, NEW m \in Int, o < m
  PROVE  LowestOf({o, m}) = o
<1>1. o \in {o, m} /\ \A c \in {o, m} : o <= c
  OBVIOUS
<1>2. \A b \in {o, m} : (\A c \in {o, m} : b <= c) => b = o
  OBVIOUS
<1> QED BY <1>1, <1>2 DEF LowestOf

LEMMA BlocksAreInts ==
  /\ Blocks \subseteq Int
  /\ \A b \in Blocks : b # INVALID_BLOCK /\ b <= Last
  /\ \A t \in AnchorTables : t.previous_anchor_block \in Int
BY AnchorAssumption DEF Blocks, AnchorTables, INVALID_BLOCK

LEMMA SingleIsLoaded ==
  ASSUME flash \in Flashes, NEW h, NEW n, Single(flash, h, n)
  PROVE  /\ Written = {h} /\ ~IsPair /\ CurrentBlock = h /\ NextPage = n
         /\ Loaded = flash[h][n] /\ Loaded \in AnchorTables
<1>1. h \in Blocks /\ h \in Int
  BY BlocksAreInts DEF Single
<1>2. LastPage(h) = n /\ n \in 1 .. P /\ n = Len(flash[h])
  BY PagesReadable, <1>1 DEF Single
<1>3. \A b \in Blocks \ {h} : LastPage(b) = 0
  BY PagesReadable DEF Single
<1>4. Written = {h}
  <2>1. n > 0
    BY <1>2, AnchorAssumption
  <2>2. h \in Written
    BY <1>1, <1>2, <2>1 DEF Written
  <2>3. \A b \in Written : b = h
    BY <1>3 DEF Written
  <2> QED BY <2>2, <2>3
<1>5. ~IsPair
  <2>1. Cardinality({h}) = 1
    BY FS_Singleton
  <2> QED BY <1>4, <2>1 DEF IsPair
<1>6. Found1 = h
  BY <1>1, <1>4, LowestOfOne DEF Found1
<1>7. CurrentBlock = h /\ Loaded = flash[h][n]
  BY <1>2, <1>5, <1>6 DEF CurrentBlock, Loaded, LastTable
<1>8. flash[h][n] \in AnchorTables
  <2>1. flash[h] \in Seq(AnchorTables) /\ n \in 1 .. Len(flash[h])
    BY <1>1, <1>2, AnchorAssumption DEF Flashes
  <2> QED BY <2>1
<1> QED BY <1>2, <1>4, <1>5, <1>7, <1>8 DEF NextPage

LEMMA PairIsLoaded ==
  ASSUME flash \in Flashes, NEW o, NEW m, Pair(flash, o, m)
  PROVE  /\ Written = {o, m} /\ IsPair /\ ~FirstIsNewer
         /\ Found1 = o /\ LastTable(Found2).previous_anchor_block = o
         /\ CurrentBlock = m /\ NextPage = 1 /\ OldBlock = o
         /\ Loaded = flash[m][1] /\ Loaded \in AnchorTables
<1>1. o \in Blocks /\ m \in Blocks /\ o \in Int /\ m \in Int /\ o < m
  BY BlocksAreInts DEF Pair
<1>2. LastPage(o) = Len(flash[o]) /\ LastPage(m) = 1 /\ Len(flash[o]) \in 1 .. P /\ Len(flash[m]) = 1
  BY PagesReadable, <1>1 DEF Pair
<1>3. \A b \in Blocks \ {o, m} : LastPage(b) = 0
  BY PagesReadable DEF Pair
<1>4. Written = {o, m}
  <2>1. LastPage(o) > 0 /\ LastPage(m) > 0
    BY <1>2, AnchorAssumption
  <2>2. o \in Written /\ m \in Written
    BY <1>1, <2>1 DEF Written
  <2>3. \A b \in Written : b \in {o, m}
    BY <1>3 DEF Written
  <2> QED BY <2>2, <2>3
<1>5. IsPair
  <2>1. IsFiniteSet({o}) /\ Cardinality({o}) = 1
    BY FS_Singleton
  <2>2. Cardinality({o} \cup {m}) = 2
    <3>1. m \notin {o}
      BY <1>1
    <3>2. Cardinality({o} \cup {m}) = Cardinality({o}) + 1
      BY <2>1, <3>1, FS_AddElement
    <3> QED BY <2>1, <3>2
  <2>3. {o, m} = {o} \cup {m}
    OBVIOUS
  <2> QED BY <1>4, <2>2, <2>3 DEF IsPair
<1>6. Found1 = o
  BY <1>1, <1>4, LowestOfTwo DEF Found1
<1>7. Found2 = m
  <2>1. Written \ {Found1} = {m}
    BY <1>1, <1>4, <1>6
  <2> QED BY <1>1, <2>1, LowestOfOne DEF Found2
<1>8. flash[o][Len(flash[o])] \in AnchorTables /\ flash[m][1] \in AnchorTables
  <2>1. flash[o] \in Seq(AnchorTables) /\ Len(flash[o]) \in 1 .. Len(flash[o])
    BY <1>1, <1>2, AnchorAssumption DEF Flashes
  <2>2. flash[m] \in Seq(AnchorTables) /\ 1 \in 1 .. Len(flash[m])
    BY <1>1, <1>2 DEF Flashes
  <2> QED BY <2>1, <2>2
<1>9. ~FirstIsNewer
  <2>1. flash[o][Len(flash[o])].previous_anchor_block < o
    BY DEF Pair
  <2>2. flash[o][Len(flash[o])].previous_anchor_block # m
    BY <2>1, <1>1, <1>8, BlocksAreInts
  <2> QED BY <2>2, <1>2, <1>6, <1>7 DEF FirstIsNewer, LastTable
<1>10. LastTable(m) = flash[m][1] /\ flash[m][1].previous_anchor_block = o
  BY <1>2 DEF LastTable, Pair
<1> QED BY <1>2, <1>4, <1>5, <1>6, <1>7, <1>8, <1>9, <1>10
        DEF CurrentBlock, OldBlock, Loaded, NextPage
-----------------------------------------------------------------------------
(* The steps, while no program and no erase of an old block has failed *)

\* MTD_Program of the page after those of a block appends the table to them.
LEMMA AppendsTable ==
  ASSUME NEW f \in Flashes, NEW b \in Blocks, NEW t \in AnchorTables,
         Len(f[b]) = anchor_next_page
  PROVE  /\ Programmed(f[b], t) = Append(f[b], t)
         /\ [f EXCEPT ![b] = Append(f[b], t)] \in Flashes
         /\ Len(Append(f[b], t)) = Len(f[b]) + 1
         /\ Append(f[b], t)[Len(f[b]) + 1] = t
<1>1. f[b] \in Seq(AnchorTables)
  BY DEF Flashes
<1>2. SubSeq(f[b], 1, Len(f[b])) = f[b]
  BY <1>1
<1>3. Append(f[b], t) \in Seq(AnchorTables)
  BY <1>1
<1> QED BY <1>1, <1>2, <1>3 DEF Flashes, Programmed

LEMMA ErasesBlock ==
  ASSUME NEW f \in Flashes, NEW b \in Blocks
  PROVE  [f EXCEPT ![b] = <<>>] \in Flashes
<1>1. <<>> \in Seq(AnchorTables)
  OBVIOUS
<1> QED BY <1>1 DEF Flashes

LEMMA InitSound ==
  ASSUME Init, NoWrap(campaign)
  PROVE  SoundInv
<1> USE AnchorAssumption DEF Init
<1>1. campaign \in CampaignSet
  BY DEF CampaignSet
<1>2. First \in Blocks
  BY DEF Blocks
<1>3. anchor_table \in AnchorTables
  BY DEF Table, AnchorTables
<1>4. flash \in Flashes
  <2>1. <<anchor_table>> \in Seq(AnchorTables) /\ <<>> \in Seq(AnchorTables)
    BY <1>3
  <2> QED BY <2>1 DEF Flashes
<1>5. RingTyped
  <2>1. 1 \in 0 .. P
    OBVIOUS
  <2>2. anchor_reclaimed \in BOOLEAN
    OBVIOUS
  <2> QED BY <1>1, <1>2, <1>3, <1>4, <2>1, <2>2 DEF RingTyped
<1>6. Single(flash, First, 1)
  BY <1>2 DEF Single, Table, INVALID_BLOCK
<1>7. HoldsAcked(flash, anchor_block, anchor_next_page)
  BY <1>2, <1>6 DEF HoldsAcked, Table
<1>8. Fits(campaign.updates, campaign.bad, P - 1, First, {})
  BY <1>1, RoomAll DEF Fits, NoWrap
<1>9. IdleInv
  BY <1>2, <1>7, <1>8 DEF IdleInv, Table
<1> QED BY <1>5, <1>9 DEF SoundInv

LEMMA CampaignParts ==
  ASSUME NEW c \in CampaignSet
  PROVE  /\ c.updates \in Nat /\ c.losses \in Nat /\ c.bad \in Nat
         /\ c.updates > 0 => [c EXCEPT !.updates = @ - 1] \in CampaignSet
         /\ c.losses > 0 => [c EXCEPT !.losses = @ - 1] \in CampaignSet
         /\ c.bad > 0 => [c EXCEPT !.bad = @ - 1] \in CampaignSet
BY DEF CampaignSet

LEMMA UpdateSound ==
  ASSUME SoundInv, NEW v \in Body, Update(v)
  PROVE  SoundInv'
<1> USE AnchorAssumption DEF Update
<1>1. RingTyped /\ IdleInv
  BY DEF SoundInv
<1>2. campaign' \in CampaignSet /\ campaign.updates \in Nat /\ campaign'.updates + 1 = campaign.updates /\ campaign'.bad = campaign.bad
  <2>1. campaign \in CampaignSet
    BY <1>1 DEF RingTyped
  <2>2. campaign' \in CampaignSet /\ campaign.updates \in Nat
    BY <2>1, CampaignParts
  <2>3. campaign' = [campaign EXCEPT !.updates = campaign.updates - 1]
    OBVIOUS
  <2>4. campaign'.updates = campaign.updates - 1 /\ campaign'.bad = campaign.bad
    BY <2>1, <2>3 DEF CampaignSet
  <2> QED BY <2>2, <2>4
<1>3. /\ anchor_table' \in AnchorTables
      /\ anchor_table'.bad = anchor_table.bad
      /\ anchor_table'.previous_anchor_block = anchor_table.previous_anchor_block
  BY <1>1 DEF RingTyped, AnchorTables
<1>4. RingTyped'
  BY <1>1, <1>2, <1>3 DEF RingTyped
<1>5. LoopInv'
  <2>1. HoldsAcked(flash, anchor_block, anchor_next_page)'
    BY <1>1, <1>3 DEF IdleInv, HoldsAcked
  <2>2. (anchor_table.previous_anchor_block < anchor_block)'
    BY <1>1, <1>3 DEF IdleInv, HoldsAcked, Single
  <2> QED BY <1>1, <1>2, <1>3, <2>1, <2>2 DEF LoopInv, IdleInv
<1> QED BY <1>4, <1>5 DEF SoundInv

LEMMA ReclaimSound ==
  ASSUME SoundInv, Reclaim
  PROVE  SoundInv'
<1> USE AnchorAssumption DEF Reclaim
<1>1. RingTyped /\ ~anchor_reclaimed /\ LoopInv
  BY DEF SoundInv, ReclaimedInv, RingTyped
<1>2. /\ anchor_table' \in AnchorTables
      /\ anchor_table'.bad = anchor_table.bad
      /\ anchor_table'.previous_anchor_block = anchor_block
  BY <1>1 DEF RingTyped, AnchorTables
<1>3. RingTyped'
  BY <1>1, <1>2 DEF RingTyped, history
<1>4. FindInv'
  <2>1. HoldsAcked(flash, anchor_block, P)'
    BY <1>1, <1>2 DEF LoopInv, HoldsAcked
  <2>2. anchor_block \in Int /\ anchor_block + 1 .. anchor_block = {}
    BY <1>1, BlocksAreInts DEF RingTyped
  <2>3. P - anchor_next_page = 0
    OBVIOUS
  <2> QED BY <1>1, <1>2, <2>1, <2>2, <2>3 DEF FindInv, LoopInv, history
<1> QED BY <1>3, <1>4 DEF SoundInv

\* The search for the next block has not left the ring, so the blocks it meets
\* are after the current one and none of them has tables.
LEMMA FindNextSound ==
  ASSUME SoundInv, FindNext
  PROVE  SoundInv'
<1> USE AnchorAssumption
<1> DEFINE n == next_block + 1
           ab == anchor_block
           bad == anchor_table.bad
<1>1. RingTyped /\ FindInv /\ pc = "find"
  BY DEF SoundInv, FindNext
<1>2. /\ ab \in Int /\ next_block \in Int /\ ab \in Blocks /\ next_block \in Blocks
      /\ campaign \in CampaignSet /\ campaign.updates \in Nat /\ campaign.bad \in Nat
  BY <1>1, BlocksAreInts, CampaignParts DEF RingTyped
<1>3. /\ ab <= next_block /\ (ab + 1 .. next_block) \subseteq bad
      /\ Fits(campaign.updates + 1, campaign.bad, 0, ab, bad)
  BY <1>1 DEF FindInv
<1>4. next_block < Last
  BY <1>2, <1>3, FitsLeft
<1>5. Following(next_block) = n /\ n \in Blocks /\ n \in Int /\ ab < n /\ n <= Last
  BY <1>2, <1>3, <1>4 DEF Following, Blocks
<1>6. next_block' = n /\ acked' = acked
  BY <1>5 DEF FindNext
<1>7. CASE IsBadBlock(n) /\ NotFound(n) /\ UNCHANGED <<anchor_table, history>>
  <2>1. pc' = "find" /\ UNCHANGED <<flash, anchor_block, anchor_next_page, anchor_reclaimed, anchor_table, campaign>>
    BY <1>5, <1>7 DEF NotFound, history
  <2>2. n \in bad
    BY <1>7 DEF IsBadBlock
  <2>3. (ab + 1 .. n) \subseteq bad
    BY <1>2, <1>3, <2>2
  <2>4. RingTyped'
    BY <1>1, <1>5, <1>6, <2>1 DEF RingTyped
  <2>5. FindInv'
    BY <1>1, <1>2, <1>5, <1>6, <2>1, <2>3 DEF FindInv, HoldsAcked
  <2> QED BY <2>1, <2>4, <2>5 DEF SoundInv
<1>8. CASE /\ ~IsBadBlock(n) /\ flash' = [flash EXCEPT ![n] = <<>>]
           /\ Found(n) /\ UNCHANGED <<anchor_table, history>>
  <2>1. /\ pc' = "loop" /\ anchor_reclaimed' = TRUE /\ anchor_block' = n /\ anchor_next_page' = 0
        /\ anchor_table' = anchor_table /\ campaign' = campaign
    BY <1>2, <1>5, <1>8 DEF Found, history
  <2>2. flash' \in Flashes
    BY <1>1, <1>5, <1>8, ErasesBlock DEF RingTyped
  <2>3. RingTyped'
    <3>1. 0 \in 0 .. P
      OBVIOUS
    <3>2. anchor_reclaimed' \in BOOLEAN
      BY <2>1
    <3> QED BY <1>1, <1>5, <1>6, <2>1, <2>2, <3>1, <3>2 DEF RingTyped
  <2>4. n \notin bad /\ (ab + 1 .. n - 1) \subseteq bad
    BY <1>2, <1>3, <1>8 DEF IsBadBlock
  <2>5. Fits(campaign.updates + 1, campaign.bad, P, n, bad)
    <3>1. campaign.updates + 1 \in Nat /\ campaign.bad \in Nat /\ ab \in Int /\ n \in Int
      BY <1>2, <1>5
    <3> HIDE DEF n, ab, bad
    <3> QED BY <1>3, <1>5, <2>4, <3>1, FitsNext
  <2>6. flash'[ab] = flash[ab] /\ \A b \in Blocks : b # ab => flash'[b] = <<>>
    BY <1>1, <1>2, <1>5, <1>8 DEF FindInv, HoldsAcked, Single, RingTyped, Flashes
  <2>7. Single(flash', ab, P)
    BY <1>1, <2>6 DEF FindInv, HoldsAcked, Single
  <2>8. anchor_table'.previous_anchor_block = ab
    BY <1>1, <2>1 DEF FindInv
  <2>9. HoldsAcked(flash, anchor_table.previous_anchor_block, P)'
    BY <1>1, <1>6, <2>1, <2>6, <2>7, <2>8 DEF FindInv, HoldsAcked
  <2>10. ReclaimedInv'
    BY <1>5, <2>1, <2>4, <2>5, <2>8, <2>9 DEF ReclaimedInv
  <2> QED BY <2>1, <2>3, <2>10 DEF SoundInv
<1>9. CASE /\ ~IsBadBlock(n) /\ Failing("find")
           /\ anchor_table' = LogBadBlock(anchor_table, n) /\ NotFound(n)
  <2>1. pc' = "find" /\ UNCHANGED <<flash, anchor_block, anchor_next_page, anchor_reclaimed>>
    BY <1>2, <1>5, <1>9 DEF NotFound
  <2>2. /\ anchor_table' \in AnchorTables /\ anchor_table'.bad = bad \cup {n}
        /\ anchor_table'.previous_anchor_block = anchor_table.previous_anchor_block
    BY <1>1, <1>5, <1>9 DEF LogBadBlock, RingTyped, AnchorTables
  <2>3. campaign.bad > 0 /\ campaign' = [campaign EXCEPT !.bad = campaign.bad - 1]
    BY <1>9 DEF Failing
  <2>4. campaign' \in CampaignSet
    BY <1>2, <2>3, CampaignParts
  <2>5. campaign'.updates = campaign.updates /\ campaign'.bad = campaign.bad - 1
    BY <1>2, <2>3 DEF CampaignSet
  <2>6. RingTyped'
    BY <1>1, <1>5, <1>6, <2>1, <2>2, <2>4 DEF RingTyped
  <2>7. (ab + 1 .. n) \subseteq bad \cup {n}
    BY <1>2, <1>3
  <2>8. Fits(campaign.updates + 1, campaign.bad - 1, 0, ab, bad \cup {n})
    <3>1. campaign.updates + 1 \in Nat
      BY <1>2
    <3> HIDE DEF n, bad, ab
    <3> QED BY <1>2, <1>3, <2>3, <3>1, FitsLogged
  <2>9. HoldsAcked(flash, anchor_block, P)'
    BY <1>1, <1>6, <2>1, <2>2 DEF FindInv, HoldsAcked
  <2>10. FindInv'
    <3>1. ab <= n
      BY <1>2, <1>5
    <3>2. anchor_next_page' = P /\ anchor_table'.previous_anchor_block = ab
      BY <1>1, <2>1, <2>2 DEF FindInv
    <3>3. Fits(campaign.updates + 1, campaign.bad, 0, anchor_block, anchor_table.bad)'
      BY <2>1, <2>2, <2>5, <2>8
    <3> QED BY <1>6, <2>1, <2>2, <2>7, <2>9, <3>1, <3>2, <3>3 DEF FindInv
  <2> QED BY <2>1, <2>6, <2>10 DEF SoundInv
<1> QED BY <1>5, <1>7, <1>8, <1>9 DEF FindNext

LEMMA WriteSound ==
  ASSUME SoundInv, Write
  PROVE  SoundInv'
<1> USE AnchorAssumption
<1> DEFINE ab == anchor_block
           pg == anchor_next_page
<1>1. /\ RingTyped /\ pc = "loop" /\ pg \in Nat /\ pg < P
      /\ flash' = [flash EXCEPT ![ab] = Programmed(flash[ab], anchor_table)]
      /\ UNCHANGED <<anchor_table, anchor_block, anchor_reclaimed, next_block, campaign>>
  BY DEF SoundInv, Write, history, RingTyped
<1>2. ab \in Blocks /\ ab \in Int /\ flash \in Flashes /\ anchor_table \in AnchorTables
  BY <1>1, BlocksAreInts DEF RingTyped
<1>3. campaign.updates \in Nat /\ campaign.bad \in Nat
  BY <1>1, CampaignParts DEF RingTyped
<1>4. CASE ~anchor_reclaimed
  <2>1. LoopInv
    BY <1>1, <1>4 DEF SoundInv
  <2>2. pc' = "idle" /\ anchor_next_page' = pg + 1 /\ acked' = anchor_table.body
    BY <1>4 DEF Write
  <2>3. Len(flash[ab]) = pg
    BY <2>1 DEF LoopInv, HoldsAcked, Single
  <2>4. /\ flash' = [flash EXCEPT ![ab] = Append(flash[ab], anchor_table)]
        /\ flash' \in Flashes
    BY <1>1, <1>2, <2>3, AppendsTable
  <2>5. /\ Len(flash'[ab]) = pg + 1 /\ flash'[ab][pg + 1] = anchor_table
        /\ \A b \in Blocks \ {ab} : flash'[b] = <<>>
    <3>1. flash'[ab] = Append(flash[ab], anchor_table)
      BY <1>2, <2>4 DEF Flashes
    <3>2. \A b \in Blocks \ {ab} : flash'[b] = flash[b]
      BY <1>2, <2>4 DEF Flashes
    <3>3. \A b \in Blocks \ {ab} : flash[b] = <<>>
      BY <2>1 DEF LoopInv, HoldsAcked, Single
    <3>4. Len(Append(flash[ab], anchor_table)) = pg + 1 /\ Append(flash[ab], anchor_table)[pg + 1] = anchor_table
      BY <1>2, <2>3, AppendsTable
    <3> QED BY <3>1, <3>2, <3>3, <3>4
  <2>6. RingTyped'
    <3>1. pg + 1 \in 0 .. P
      BY <1>1
    <3> QED BY <1>1, <2>2, <2>4, <3>1 DEF RingTyped
  <2>7. HoldsAcked(flash, anchor_block, anchor_next_page)'
    BY <1>1, <1>2, <2>1, <2>2, <2>5 DEF LoopInv, HoldsAcked, Single
  <2>8. Fits(campaign.updates, campaign.bad, P - (pg + 1), ab, anchor_table.bad)
    <3>1. Fits(campaign.updates + 1, campaign.bad, P - pg, ab, anchor_table.bad)
      BY <2>1 DEF LoopInv
    <3>2. P * Room(ab, anchor_table.bad) \in Nat /\ P * campaign.bad \in Nat
      BY <1>2, <1>3, RoomNat, TimesP
    <3> QED BY <1>1, <1>3, <3>1, <3>2 DEF Fits
  <2>9. IdleInv'
    BY <1>1, <2>2, <2>5, <2>7, <2>8 DEF IdleInv
  <2> QED BY <2>2, <2>6, <2>9 DEF SoundInv
<1>5. CASE anchor_reclaimed
  <2> DEFINE o == anchor_table.previous_anchor_block
  <2>1. ReclaimedInv
    BY <1>1, <1>5 DEF SoundInv
  <2>2. pc' = "erasePrevious" /\ anchor_next_page' = 0 /\ acked' = acked
    BY <1>5, <2>1 DEF Write, ReclaimedInv
  <2>3. o \in Blocks /\ o \in Int /\ o < ab /\ pg = 0 /\ flash[ab] = <<>>
    BY <1>2, <2>1, BlocksAreInts DEF ReclaimedInv, HoldsAcked, Single
  <2>4. Len(flash[ab]) = pg
    BY <2>3
  <2>5. /\ flash' = [flash EXCEPT ![ab] = Append(flash[ab], anchor_table)]
        /\ flash' \in Flashes
    BY <1>1, <1>2, <2>4, AppendsTable
  <2>6. /\ Len(flash'[ab]) = 1 /\ flash'[ab][1] = anchor_table /\ flash'[o] = flash[o]
        /\ \A b \in Blocks \ {o, ab} : flash'[b] = <<>>
    <3>1. flash'[ab] = Append(flash[ab], anchor_table)
      BY <1>2, <2>5 DEF Flashes
    <3>2. \A b \in Blocks \ {ab} : flash'[b] = flash[b]
      BY <1>2, <2>5 DEF Flashes
    <3>3. \A b \in Blocks \ {o} : flash[b] = <<>>
      BY <2>1 DEF ReclaimedInv, HoldsAcked, Single
    <3>4. Len(Append(flash[ab], anchor_table)) = 0 + 1 /\ Append(flash[ab], anchor_table)[0 + 1] = anchor_table
      BY <1>2, <2>3, <2>4, AppendsTable
    <3> QED BY <2>3, <3>1, <3>2, <3>3, <3>4
  <2>7. RingTyped'
    BY <1>1, <2>2, <2>5 DEF RingTyped
  <2>8. Pair(flash', o, ab)
    BY <1>2, <2>1, <2>3, <2>6 DEF ReclaimedInv, HoldsAcked, Single, Pair
  <2>9. Fits(campaign.updates, campaign.bad, P - 1, ab, anchor_table.bad)
    <3>1. Fits(campaign.updates + 1, campaign.bad, P, ab, anchor_table.bad)
      BY <2>1 DEF ReclaimedInv
    <3>2. P * Room(ab, anchor_table.bad) \in Nat /\ P * campaign.bad \in Nat
      BY <1>2, <1>3, RoomNat, TimesP
    <3> QED BY <1>1, <1>3, <3>1, <3>2 DEF Fits
  <2>10. PreviousInv'
    BY <1>1, <2>2, <2>6, <2>8, <2>9 DEF PreviousInv
  <2> QED BY <2>2, <2>7, <2>10 DEF SoundInv
<1> QED BY <1>4, <1>5

LEMMA SingleAfterErase ==
  ASSUME NEW f \in Flashes, NEW o, NEW m, Pair(f, o, m)
  PROVE  /\ [f EXCEPT ![o] = <<>>] \in Flashes
         /\ Single([f EXCEPT ![o] = <<>>], m, 1)
         /\ [f EXCEPT ![o] = <<>>][m] = f[m]
<1> DEFINE g == [f EXCEPT ![o] = <<>>]
<1>1. o \in Blocks /\ m \in Blocks /\ o \in Int /\ m \in Int /\ o < m
  BY BlocksAreInts DEF Pair
<1>2. g \in Flashes
  BY <1>1, ErasesBlock
<1>3. g[m] = f[m] /\ \A b \in Blocks \ {m} : g[b] = <<>>
  BY <1>1 DEF Pair, Flashes
<1>4. 1 \in 1 .. P
  BY AnchorAssumption
<1> QED BY <1>1, <1>2, <1>3, <1>4 DEF Pair, Single

LEMMA ErasePreviousSound ==
  ASSUME SoundInv, ErasePrevious, ~unsound'
  PROVE  SoundInv'
<1> USE AnchorAssumption
<1> DEFINE o == anchor_table.previous_anchor_block
           ab == anchor_block
<1>1. RingTyped /\ PreviousInv /\ pc = "erasePrevious"
  BY DEF SoundInv, ErasePrevious
<1>2. ~Failing("previous")
  BY DEF Failing
<1>3. /\ flash' = [flash EXCEPT ![o] = <<>>]
      /\ UNCHANGED <<anchor_table, anchor_block, anchor_reclaimed, next_block, campaign>>
      /\ pc' = "idle" /\ acked' = anchor_table.body /\ anchor_next_page' = 1
  BY <1>1, <1>2 DEF ErasePrevious, history, PreviousInv
<1>4. flash \in Flashes /\ Pair(flash, o, ab) /\ flash[ab][1] = anchor_table
  BY <1>1 DEF RingTyped, PreviousInv
<1>5. flash' \in Flashes /\ Single(flash', ab, 1) /\ flash'[ab] = flash[ab]
  <2> HIDE DEF o, ab
  <2>1. [flash EXCEPT ![o] = <<>>] \in Flashes /\ Single([flash EXCEPT ![o] = <<>>], ab, 1)
    BY <1>4, SingleAfterErase
  <2>2. [flash EXCEPT ![o] = <<>>][ab] = flash[ab]
    BY <1>4, SingleAfterErase
  <2> QED BY <1>3, <2>1, <2>2
<1>6. RingTyped'
  <2>1. 1 \in 0 .. P
    OBVIOUS
  <2> QED BY <1>1, <1>3, <1>5, <2>1 DEF RingTyped
<1>7. IdleInv'
  BY <1>1, <1>3, <1>4, <1>5 DEF IdleInv, HoldsAcked, PreviousInv
<1> QED BY <1>3, <1>6, <1>7 DEF SoundInv

\* Whatever step is cut short, ANCHOR_Init finds the block acknowledged last
\* alone or with its successor.
LEMMA CutShort ==
  ASSUME SoundInv
  PROVE  OffInv
<1> USE AnchorAssumption
<1> DEFINE ab == anchor_block
           pg == anchor_next_page
           u == campaign.updates
           d == campaign.bad
<1>1. RingTyped
  BY DEF SoundInv
<1>2. u \in Nat /\ d \in Nat /\ ab \in Blocks /\ ab \in Int /\ ab <= Last /\ pg \in Nat /\ P - pg \in Nat
  <2>1. u \in Nat /\ d \in Nat
    BY <1>1, CampaignParts DEF RingTyped
  <2>2. ab \in Blocks /\ ab \in Int /\ ab <= Last
    BY <1>1, BlocksAreInts DEF RingTyped
  <2>3. pg \in Nat /\ P - pg \in Nat
    BY <1>1 DEF RingTyped
  <2> QED BY <2>1, <2>2, <2>3
<1>3. CASE pc = "idle"
  <2>1. IdleInv
    BY <1>3 DEF SoundInv
  <2>2. Single(flash, ab, pg) /\ pg \in 1 .. P
    BY <2>1 DEF IdleInv, HoldsAcked, Single
  <2>3. OffSingle(ab, pg)
    BY <2>1, <2>2 DEF IdleInv, OffSingle
  <2> QED BY <1>2, <2>2, <2>3 DEF OffInv
<1>4. CASE pc = "loop" /\ ~anchor_reclaimed
  <2>1. LoopInv
    BY <1>4 DEF SoundInv
  <2>2. Single(flash, ab, pg) /\ pg \in 1 .. P /\ flash[ab][pg].bad \subseteq anchor_table.bad
    BY <2>1 DEF LoopInv, HoldsAcked, Single
  <2>3. Fits(u + 1, d, P - pg, ab, anchor_table.bad)
    BY <2>1 DEF LoopInv
  <2>4. Fits(u, d, P - pg, ab, flash[ab][pg].bad)
    <3> HIDE DEF u, d, ab, pg
    <3> QED BY <1>2, <2>2, <2>3, FitsSooner
  <2>5. OffSingle(ab, pg)
    BY <2>2, <2>4 DEF OffSingle
  <2> QED BY <1>2, <2>2, <2>5 DEF OffInv
<1>5. CASE pc = "find"
  <2>1. FindInv
    BY <1>5 DEF SoundInv
  <2>2. Single(flash, ab, P) /\ P \in 1 .. P /\ flash[ab][P].bad \subseteq anchor_table.bad
    BY <2>1 DEF FindInv, HoldsAcked, Single
  <2>3. Fits(u + 1, d, 0, ab, anchor_table.bad)
    BY <2>1 DEF FindInv
  <2>4. Fits(u, d, 0, ab, flash[ab][P].bad)
    <3> HIDE DEF u, d, ab, pg
    <3> QED BY <1>2, <2>2, <2>3, FitsSooner
  <2>5. OffSingle(ab, P)
    BY <2>2, <2>4 DEF OffSingle
  <2> QED BY <1>2, <2>2, <2>5 DEF OffInv
<1>6. CASE pc = "loop" /\ anchor_reclaimed
  <2> DEFINE o == anchor_table.previous_anchor_block
  <2>1. ReclaimedInv
    BY <1>6 DEF SoundInv
  <2>2. /\ Single(flash, o, P) /\ P \in 1 .. P /\ flash[o][P].bad \subseteq anchor_table.bad
        /\ o \in Blocks /\ o \in Int /\ o < ab /\ ab \notin anchor_table.bad
    BY <2>1, BlocksAreInts DEF ReclaimedInv, HoldsAcked, Single
  <2>3. Fits(u + 1, d, P, ab, anchor_table.bad)
    BY <2>1 DEF ReclaimedInv
  <2>4. Fits(u, d, 0, o, flash[o][P].bad)
    <3> HIDE DEF u, d, ab, pg, o
    <3> QED BY <1>2, <2>2, <2>3, FitsOlder
  <2>5. OffSingle(o, P)
    BY <2>2, <2>4 DEF OffSingle
  <2> QED BY <2>2, <2>5 DEF OffInv
<1>7. CASE pc = "erasePrevious"
  <2> DEFINE o == anchor_table.previous_anchor_block
  <2>1. PreviousInv
    BY <1>7 DEF SoundInv
  <2>2. OffPair(o, ab) /\ o \in Blocks
    BY <2>1 DEF PreviousInv, OffPair, Pair
  <2> QED BY <1>2, <2>2 DEF OffInv
<1>8. CASE pc = "off"
  BY <1>8 DEF SoundInv
<1> QED BY <1>3, <1>4, <1>5, <1>6, <1>7, <1>8 DEF SoundInv

LEMMA PowerLossSound ==
  ASSUME SoundInv, PowerLoss
  PROVE  SoundInv'
<1> USE AnchorAssumption DEF PowerLoss
<1>1. RingTyped /\ OffInv
  BY CutShort DEF SoundInv
<1>2. campaign \in CampaignSet /\ campaign' = [campaign EXCEPT !.losses = campaign.losses - 1]
  BY <1>1 DEF RingTyped
<1>3. campaign' \in CampaignSet
  BY <1>2, CampaignParts
<1>4. campaign'.updates = campaign.updates /\ campaign'.bad = campaign.bad
  BY <1>2 DEF CampaignSet
<1>5. OffInv'
  <2>1. \A h, n : OffSingle(h, n) => OffSingle(h, n)'
    BY <1>4 DEF OffSingle
  <2>2. \A o, m : OffPair(o, m) => OffPair(o, m)'
    BY <1>4 DEF OffPair
  <2> QED BY <1>1, <2>1, <2>2 DEF OffInv
<1>6. RingTyped'
  <2>1. First \in Blocks /\ 0 \in 0 .. P
    BY DEF Blocks
  <2>2. Table(Body0, INVALID_BLOCK, {}) \in AnchorTables
    BY DEF Table, AnchorTables
  <2>3. anchor_reclaimed' \in BOOLEAN
    OBVIOUS
  <2> QED BY <1>1, <1>3, <2>1, <2>2, <2>3 DEF RingTyped
<1> QED BY <1>5, <1>6 DEF SoundInv

LEMMA AnchorInitSound ==
  ASSUME SoundInv, AnchorInit, ~unsound'
  PROVE  SoundInv'
<1> USE AnchorAssumption
<1>1. RingTyped /\ OffInv /\ pc = "off" /\ flash \in Flashes
  BY DEF SoundInv, AnchorInit, RingTyped
<1>2. ~Failing("previous")
  BY DEF Failing
<1>3. /\ anchor_block' = CurrentBlock /\ anchor_next_page' = NextPage /\ anchor_table' = Loaded
      /\ acked' = Loaded.body /\ pc' = "idle"
      /\ UNCHANGED <<anchor_reclaimed, next_block, campaign>>
      /\ flash' = IF IsPair /\ OldBlock # INVALID_BLOCK
                    THEN [flash EXCEPT ![OldBlock] = <<>>] ELSE flash
  BY <1>2 DEF AnchorInit, history
<1>4. ASSUME NEW h \in Blocks, NEW n \in 1 .. P, OffSingle(h, n)
      PROVE  SoundInv'
  <2>1. Single(flash, h, n)
    BY <1>4 DEF OffSingle
  <2>2. /\ ~IsPair /\ CurrentBlock = h /\ NextPage = n /\ Loaded = flash[h][n]
        /\ Loaded \in AnchorTables
    BY <1>1, <2>1, SingleIsLoaded
  <2>3. /\ anchor_block' = h /\ anchor_next_page' = n /\ anchor_table' = flash[h][n]
        /\ acked' = flash[h][n].body /\ flash' = flash
    BY <1>3, <2>2
  <2>4. RingTyped'
    BY <1>1, <1>3, <2>2, <2>3 DEF RingTyped
  <2>5. IdleInv'
    BY <1>3, <1>4, <2>1, <2>3 DEF IdleInv, HoldsAcked, OffSingle
  <2> QED BY <1>3, <2>4, <2>5 DEF SoundInv
<1>5. ASSUME NEW o \in Blocks, NEW m \in Blocks, OffPair(o, m)
      PROVE  SoundInv'
  <2>1. Pair(flash, o, m)
    BY <1>5 DEF OffPair
  <2>2. /\ IsPair /\ CurrentBlock = m /\ NextPage = 1 /\ OldBlock = o
        /\ Loaded = flash[m][1] /\ Loaded \in AnchorTables
    BY <1>1, <2>1, PairIsLoaded
  <2>3. /\ anchor_block' = m /\ anchor_next_page' = 1 /\ anchor_table' = flash[m][1]
        /\ acked' = flash[m][1].body /\ flash' = [flash EXCEPT ![o] = <<>>]
    BY <1>3, <2>2, BlocksAreInts
  <2>4. /\ [flash EXCEPT ![o] = <<>>] \in Flashes
        /\ Single([flash EXCEPT ![o] = <<>>], m, 1)
        /\ [flash EXCEPT ![o] = <<>>][m] = flash[m]
    BY <1>1, <2>1, SingleAfterErase
  <2>5. flash' \in Flashes /\ Single(flash', m, 1) /\ flash'[m] = flash[m]
    BY <2>3, <2>4
  <2>6. RingTyped'
    <3>1. 1 \in 0 .. P
      OBVIOUS
    <3> QED BY <1>1, <1>3, <2>2, <2>3, <2>5, <3>1 DEF RingTyped
  <2>7. IdleInv'
    BY <1>3, <1>5, <2>3, <2>5 DEF IdleInv, HoldsAcked, OffPair
  <2> QED BY <1>3, <2>6, <2>7 DEF SoundInv
<1> QED BY <1>1, <1>4, <1>5 DEF OffInv

LEMMA RingStep ==
  ASSUME RingInv, [Next]_vars
  PROVE  RingInv'
<1>1. CASE UNCHANGED vars
  <2>1. SoundInv => SoundInv'
    BY <1>1 DEF vars, SoundInv, RingTyped, IdleInv, LoopInv, FindInv, ReclaimedInv,
                PreviousInv, OffInv, OffSingle, OffPair, HoldsAcked
  <2> QED BY <1>1, <2>1 DEF vars, RingInv
<1>2. ASSUME NEW v \in Body, Update(v) PROVE RingInv'
  <2>1. unsound' = unsound
    BY <1>2 DEF Update
  <2> QED BY <1>2, <2>1, UpdateSound DEF RingInv
<1>3. CASE Reclaim
  <2>1. unsound' = unsound
    BY <1>3 DEF Reclaim, history
  <2> QED BY <1>3, <2>1, ReclaimSound DEF RingInv
<1>4. CASE FindNext
  <2>1. unsound' \in {unsound, unsound \/ FALSE}
    BY <1>4 DEF FindNext, history, Failing
  <2> QED BY <1>4, <2>1, FindNextSound DEF RingInv
<1>5. CASE Write
  <2>1. unsound' = unsound
    BY <1>5 DEF Write, history
  <2> QED BY <1>5, <2>1, WriteSound DEF RingInv
<1>6. CASE WriteBad
  <2>1. unsound' = TRUE
    BY <1>6 DEF WriteBad, Failing
  <2> QED BY <2>1 DEF RingInv
<1>7. CASE ErasePrevious
  <2>1. unsound' = unsound \/ unsound' = TRUE
    BY <1>7 DEF ErasePrevious, history, Failing
  <2> QED BY <1>7, <2>1, ErasePreviousSound DEF RingInv
<1>8. CASE PowerLoss
  <2>1. unsound' = unsound
    BY <1>8 DEF PowerLoss
  <2> QED BY <1>8, <2>1, PowerLossSound DEF RingInv
<1>9. CASE AnchorInit
  <2>1. unsound' = unsound \/ unsound' = TRUE
    BY <1>9 DEF AnchorInit, history, Failing
  <2> QED BY <1>9, <2>1, AnchorInitSound DEF RingInv
<1> QED BY <1>1, <1>2, <1>3, <1>4, <1>5, <1>6, <1>7, <1>8, <1>9 DEF Next

\* For every ring and every campaign that stays inside it, with power losses
\* at any moment and any number of blocks whose erase fails: the invariant of
\* core/ubi/ubi_anchor.c is inductive.
THEOREM RingInvariant ==
  ASSUME \A c \in Campaigns : NoWrap(c)
  PROVE  Spec => []RingInv
<1>1. Init => RingInv
  BY InitSound DEF RingInv, Init
<1>2. RingInv /\ [Next]_vars => RingInv'
  BY RingStep
<1> QED BY <1>1, <1>2, PTL DEF Spec

LEMMA RingDurable ==
  ASSUME RingInv
  PROVE  AnchorDurable
<1> SUFFICES ASSUME ~unsound, SoundInv
             PROVE  /\ Written # {}
                    /\ pc \in {"loop", "find", "erasePrevious"} =>
                         Loaded.body \in {acked, anchor_table.body}
                    /\ pc = "idle" => Loaded.body = acked
  BY DEF RingInv, AnchorDurable
<1>1. flash \in Flashes
  BY DEF SoundInv, RingTyped
<1>2. \A h, n : HoldsAcked(flash, h, n) => Loaded.body = acked
  BY <1>1, SingleIsLoaded DEF HoldsAcked
<1>3. Written # {}
  <2>1. OffInv
    BY CutShort
  <2>2. \A h, n : OffSingle(h, n) => Written # {}
    BY <1>1, SingleIsLoaded DEF OffSingle
  <2>3. \A o, m : OffPair(o, m) => Written # {}
    BY <1>1, PairIsLoaded DEF OffPair
  <2> QED BY <2>1, <2>2, <2>3 DEF OffInv
<1>4. pc = "idle" \/ pc = "loop" \/ pc = "find" => Loaded.body = acked
  BY <1>2 DEF SoundInv, IdleInv, LoopInv, FindInv, ReclaimedInv
<1>5. pc = "erasePrevious" => Loaded.body = anchor_table.body
  BY <1>1, PairIsLoaded DEF SoundInv, PreviousInv
<1> QED BY <1>3, <1>4, <1>5

LEMMA RingLinked ==
  ASSUME RingInv
  PROVE  PairLinked
<1> SUFFICES ASSUME ~unsound, SoundInv, IsPair, ~FirstIsNewer
             PROVE  LastTable(Found2).previous_anchor_block = Found1
  BY DEF RingInv, PairLinked
<1>1. flash \in Flashes /\ OffInv
  BY CutShort DEF SoundInv, RingTyped
<1>2. \A h, n : ~OffSingle(h, n)
  BY <1>1, SingleIsLoaded DEF OffSingle
<1>3. \A o, m : OffPair(o, m) => LastTable(Found2).previous_anchor_block = Found1
  BY <1>1, PairIsLoaded DEF OffPair
<1> QED BY <1>1, <1>2, <1>3 DEF OffInv

\* AnchorDurable for every instance: whatever the moment of a power loss,
\* ANCHOR_Init finds the table acknowledged last or the one being written.
THEOREM AnchorIsDurable ==
  ASSUME \A c \in Campaigns : NoWrap(c)
  PROVE  Spec => []AnchorDurable
<1>1. RingInv => AnchorDurable
  BY RingDurable
<1> QED BY <1>1, RingInvariant, PTL

\* PairLinked for every instance: the assertion of ANCHOR_Init about two blocks
\* with tables holds.
THEOREM AnchorPairLinked ==
  ASSUME \A c \in Campaigns : NoWrap(c)
  PROVE  Spec => []PairLinked
<1>1. RingInv => PairLinked
  BY RingLinked
<1> QED BY <1>1, RingInvariant, PTL
-----------------------------------------------------------------------------
(* Failing NAND operations of every kind, without a power loss *)

\* Campaigns without a power loss, with fewer failures than other blocks.
Quiet(c) == c.losses = 0 /\ c.bad < Last - First

\* The blocks after h, around the ring, up to x.
Arc(h, x) == IF h <= x THEN h + 1 .. x ELSE (h + 1 .. Last) \cup (First .. x)

\* The blocks Z, of no use, and the d failures that may still come are fewer
\* than the other blocks of the ring.
Spare(Z, d) == Cardinality(Z) + d < Last - First

\* Of the pages s the last one that can be read is a table with body v.
PagesHold(s, v) ==
  \/ Len(s) > 0 /\ IsTable(s[Len(s)]) /\ s[Len(s)].body = v
  \/ Len(s) > 1 /\ ~IsTable(s[Len(s)]) /\ s[Len(s) - 1].body = v

\* The pages s are n and the last one is a table.
EndsInTable(s, n) == n \in 1 .. P /\ Len(s) = n /\ IsTable(s[n])

WornFlashes == [Blocks -> Seq(AnchorTables \cup {BadPage})]

QuietTyped ==
  /\ flash \in WornFlashes
  /\ anchor_table \in AnchorTables
  /\ anchor_block \in Blocks /\ next_block \in Blocks
  /\ anchor_next_page \in 0 .. P
  /\ anchor_reclaimed \in BOOLEAN
  /\ campaign \in CampaignSet /\ campaign.losses = 0
  /\ pc \in {"idle", "loop", "find", "erasePrevious"}

QuietIdle ==
  /\ PagesHold(flash[anchor_block], acked)
  /\ EndsInTable(flash[anchor_block], anchor_next_page)
  /\ Spare(anchor_table.bad, campaign.bad)

QuietLoop ==
  /\ PagesHold(flash[anchor_block], acked)
  /\ anchor_next_page < P => EndsInTable(flash[anchor_block], anchor_next_page)
  /\ Spare(anchor_table.bad, campaign.bad)

\* The block h with the table acknowledged last is not the new block; those
\* tried in between are of no use, and so is the new one once a program of it
\* has failed.
QuietKept(h) ==
  /\ h # anchor_block
  /\ PagesHold(flash[h], acked)
  /\ Spare((Arc(h, anchor_block) \ (IF anchor_next_page = 0 THEN {anchor_block} ELSE {}))
             \cup anchor_table.bad, campaign.bad)

QuietReclaimed ==
  /\ anchor_table.previous_anchor_block # anchor_block
  /\ anchor_next_page \in {0, P}
  /\ anchor_next_page = 0 => flash[anchor_block] = <<>>
  /\ \E h \in Blocks : QuietKept(h)

QuietSearch(h) ==
  /\ PagesHold(flash[h], acked)
  /\ anchor_block \in {h} \cup Arc(h, next_block)
  /\ Spare(Arc(h, next_block) \cup anchor_table.bad, campaign.bad)

QuietFind ==
  /\ anchor_table.previous_anchor_block = anchor_block
  /\ \E h \in Blocks : QuietSearch(h)

QuietPrevious ==
  /\ anchor_table.previous_anchor_block # anchor_block
  /\ anchor_next_page = 0
  /\ flash[anchor_block] = <<anchor_table>>
  /\ Spare(anchor_table.bad, campaign.bad)

QuietInv ==
  /\ QuietTyped
  /\ pc = "idle" => QuietIdle
  /\ pc = "loop" /\ ~anchor_reclaimed => QuietLoop
  /\ pc = "loop" /\ anchor_reclaimed => QuietReclaimed
  /\ pc = "find" => QuietFind
  /\ pc = "erasePrevious" => QuietPrevious

LEMMA BlocksFinite ==
  IsFiniteSet(Blocks) /\ Cardinality(Blocks) = Last - First + 1
BY FS_Interval, AnchorAssumption DEF Blocks

LEMMA SpareFewer ==
  ASSUME NEW Z \in SUBSET Blocks, NEW Y \in SUBSET Z, NEW d \in Nat, Spare(Z, d)
  PROVE  Spare(Y, d)
<1>1. IsFiniteSet(Z)
  BY BlocksFinite, FS_Subset
<1>2. IsFiniteSet(Y) /\ Cardinality(Y) <= Cardinality(Z)
  BY <1>1, FS_Subset
<1>3. Cardinality(Y) \in Nat /\ Cardinality(Z) \in Nat
  BY <1>1, <1>2, FS_CardinalityType
<1> QED BY <1>2, <1>3, AnchorAssumption DEF Spare

\* A failure makes one block useless and is one failure less to come.
LEMMA SpareOne ==
  ASSUME NEW Z \in SUBSET Blocks, NEW n, NEW Y \in SUBSET (Z \cup {n}),
         NEW d \in Nat, d > 0, Spare(Z, d)
  PROVE  Spare(Y, d - 1)
<1>1. IsFiniteSet(Z)
  BY BlocksFinite, FS_Subset
<1>2. IsFiniteSet(Z \cup {n}) /\ Cardinality(Z \cup {n}) \in {Cardinality(Z), Cardinality(Z) + 1}
  BY <1>1, FS_AddElement
<1>3. IsFiniteSet(Y) /\ Cardinality(Y) <= Cardinality(Z \cup {n})
  BY <1>2, FS_Subset
<1>4. Cardinality(Y) \in Nat /\ Cardinality(Z) \in Nat
  BY <1>1, <1>3, FS_CardinalityType
<1> QED BY <1>2, <1>3, <1>4, AnchorAssumption DEF Spare

LEMMA FollowingIsBlock ==
  ASSUME NEW x \in Blocks
  PROVE  Following(x) \in Blocks
BY AnchorAssumption DEF Following, Blocks

LEMMA ArcBlocks ==
  ASSUME NEW h \in Blocks, NEW x \in Blocks
  PROVE  /\ Arc(h, x) \in SUBSET Blocks
         /\ x # h => x \in Arc(h, x)
         /\ Arc(h, h) = {}
BY AnchorAssumption DEF Arc, Blocks

LEMMA ArcNext ==
  ASSUME NEW h \in Blocks, NEW x \in Blocks, Following(x) # h
  PROVE  /\ Arc(h, Following(x)) = Arc(h, x) \cup {Following(x)}
         /\ Following(x) \notin Arc(h, x)
<1> USE AnchorAssumption DEF Arc, Blocks, Following
<1>1. CASE x = Last
  BY <1>1
<1>2. CASE x # Last /\ h <= x
  BY <1>2
<1>3. CASE x # Last /\ h > x
  BY <1>3
<1> QED BY <1>1, <1>2, <1>3

\* A search that has come back to block h has tried all the others.
LEMMA ArcNotFull ==
  ASSUME NEW h \in Blocks, NEW x \in Blocks, NEW bad \in SUBSET Blocks, NEW d \in Nat,
         Spare(Arc(h, x) \cup bad, d)
  PROVE  Following(x) # h
<1> USE AnchorAssumption
<1> SUFFICES ASSUME Following(x) = h PROVE FALSE
  OBVIOUS
<1>1. Blocks \ {h} \in SUBSET (Arc(h, x) \cup bad)
  <2>1. CASE x = Last
    BY <2>1 DEF Arc, Blocks, Following
  <2>2. CASE x # Last
    BY <2>2 DEF Arc, Blocks, Following
  <2> QED BY <2>1, <2>2
<1>2. Spare(Blocks \ {h}, d)
  <2>1. Arc(h, x) \cup bad \in SUBSET Blocks
    BY ArcBlocks
  <2> QED BY <1>1, <2>1, SpareFewer
<1>3. Cardinality(Blocks \ {h}) = Cardinality(Blocks) - 1
  BY BlocksFinite, FS_RemoveElement
<1> QED BY <1>2, <1>3, BlocksFinite DEF Spare
-----------------------------------------------------------------------------
LEMMA BadPageIsNoTable == ~IsTable(BadPage)
BY DEF IsTable

\* A program that succeeds is the last page that can be read; one that fails
\* leaves the last table in place.
LEMMA AppendsPage ==
  ASSUME NEW s \in Seq(AnchorTables \cup {BadPage}), NEW n, Len(s) = n, n = anchor_next_page,
         NEW t \in AnchorTables, n < P
  PROVE  /\ Programmed(s, t) \in Seq(AnchorTables \cup {BadPage})
         /\ PagesHold(Programmed(s, t), t.body)
         /\ EndsInTable(Programmed(s, t), n + 1)
         /\ Programmed(s, BadPage) \in Seq(AnchorTables \cup {BadPage})
         /\ \A v : PagesHold(s, v) /\ EndsInTable(s, n) => PagesHold(Programmed(s, BadPage), v)
<1> USE AnchorAssumption
<1>1. n \in Nat
  OBVIOUS
<1>2. SubSeq(s, 1, n) = s
  OBVIOUS
<1>3. Programmed(s, t) = Append(s, t) /\ Programmed(s, BadPage) = Append(s, BadPage)
  BY <1>2 DEF Programmed
<1>4. Append(s, t) \in Seq(AnchorTables \cup {BadPage})
  OBVIOUS
<1>5. Append(s, BadPage) \in Seq(AnchorTables \cup {BadPage})
  OBVIOUS
<1>6. Len(Append(s, t)) = n + 1 /\ Append(s, t)[n + 1] = t
  OBVIOUS
<1>7. IsTable(t)
  BY TableReadable
<1>8. PagesHold(Append(s, t), t.body)
  BY <1>1, <1>6, <1>7 DEF PagesHold
<1>9. EndsInTable(Append(s, t), n + 1)
  BY <1>1, <1>6, <1>7 DEF EndsInTable
<1>10. ASSUME NEW v, PagesHold(s, v), EndsInTable(s, n)
       PROVE  PagesHold(Append(s, BadPage), v)
  <2>1. n \in 1 .. P /\ IsTable(s[n]) /\ s[n].body = v
    BY <1>10 DEF PagesHold, EndsInTable
  <2>2. Len(Append(s, BadPage)) = n + 1 /\ Append(s, BadPage)[n + 1] = BadPage
    OBVIOUS
  <2>3. Append(s, BadPage)[n] = s[n]
    BY <2>1
  <2>4. Len(Append(s, BadPage)) > 1 /\ Len(Append(s, BadPage)) - 1 = n
    BY <2>1, <2>2
  <2> QED BY <2>1, <2>2, <2>3, <2>4, BadPageIsNoTable DEF PagesHold
<1> QED BY <1>3, <1>4, <1>5, <1>8, <1>9, <1>10

LEMMA QuietParts ==
  ASSUME QuietTyped
  PROVE  /\ anchor_table.bad \in SUBSET Blocks
         /\ campaign.updates \in Nat /\ campaign.bad \in Nat
         /\ anchor_next_page \in Int
         /\ \A b \in Blocks : flash[b] \in Seq(AnchorTables \cup {BadPage})
<1>1. anchor_table.bad \in SUBSET Blocks
  BY DEF QuietTyped, AnchorTables
<1>2. campaign.updates \in Nat /\ campaign.bad \in Nat
  BY CampaignParts DEF QuietTyped
<1> QED BY <1>1, <1>2 DEF QuietTyped, WornFlashes

\* The failure of one operation leaves the rest of the campaign.
LEMMA FailingLeaves ==
  ASSUME QuietTyped, NEW k, Failing(k)
  PROVE  /\ campaign' \in CampaignSet /\ campaign'.losses = 0
         /\ campaign.bad > 0 /\ campaign'.bad = campaign.bad - 1
<1>1. campaign \in CampaignSet /\ campaign.losses = 0 /\ campaign.bad > 0
  BY DEF QuietTyped, Failing
<1>2. campaign' = [campaign EXCEPT !.bad = campaign.bad - 1]
  BY DEF Failing
<1>3. campaign' \in CampaignSet
  BY <1>1, <1>2, CampaignParts
<1> QED BY <1>1, <1>2, <1>3 DEF CampaignSet

LEMMA InitQuiet ==
  ASSUME Init, Quiet(campaign)
  PROVE  QuietInv
<1> USE AnchorAssumption DEF Init
<1>1. campaign \in CampaignSet /\ campaign.bad \in Nat
  BY CampaignParts DEF CampaignSet
<1>2. First \in Blocks
  BY DEF Blocks
<1>3. anchor_table \in AnchorTables /\ anchor_table.body = Body0 /\ anchor_table.bad = {}
  BY DEF Table, AnchorTables
<1>4. flash \in WornFlashes
  <2>1. <<anchor_table>> \in Seq(AnchorTables \cup {BadPage}) /\ <<>> \in Seq(AnchorTables \cup {BadPage})
    BY <1>3
  <2> QED BY <2>1 DEF WornFlashes
<1>5. QuietTyped
  <2>1. 1 \in 0 .. P
    OBVIOUS
  <2>2. anchor_reclaimed \in BOOLEAN
    OBVIOUS
  <2> QED BY <1>1, <1>2, <1>3, <1>4, <2>1, <2>2 DEF QuietTyped, Quiet
<1>6. flash[First] = <<anchor_table>> /\ IsTable(anchor_table)
  BY <1>2, <1>3, TableReadable
<1>7. PagesHold(flash[First], Body0) /\ EndsInTable(flash[First], 1)
  <2>1. Len(flash[First]) = 1 /\ flash[First][1] = anchor_table
    BY <1>6
  <2> HIDE DEF Init
  <2> QED BY <1>3, <1>6, <2>1 DEF PagesHold, EndsInTable
<1>8. Spare({}, campaign.bad)
  BY <1>1, FS_EmptySet DEF Spare, Quiet
<1> QED BY <1>3, <1>5, <1>7, <1>8 DEF QuietInv, QuietIdle

LEMMA UpdateQuiet ==
  ASSUME QuietInv, NEW v \in Body, Update(v)
  PROVE  QuietInv'
<1> USE DEF Update
<1>1. QuietTyped /\ QuietIdle
  BY DEF QuietInv
<1>2. campaign' \in CampaignSet /\ campaign'.losses = 0 /\ campaign'.bad = campaign.bad
  <2>1. campaign \in CampaignSet /\ campaign.losses = 0
    BY <1>1 DEF QuietTyped
  <2>2. campaign' = [campaign EXCEPT !.updates = campaign.updates - 1]
    OBVIOUS
  <2>3. campaign' \in CampaignSet
    BY <2>1, CampaignParts
  <2> QED BY <2>1, <2>2, <2>3 DEF CampaignSet
<1>3. anchor_table' \in AnchorTables /\ anchor_table'.bad = anchor_table.bad
  BY <1>1 DEF QuietTyped, AnchorTables
<1>4. QuietTyped'
  BY <1>1, <1>2, <1>3 DEF QuietTyped
<1>5. QuietLoop'
  BY <1>1, <1>2, <1>3 DEF QuietIdle, QuietLoop
<1> QED BY <1>4, <1>5 DEF QuietInv

LEMMA ReclaimQuiet ==
  ASSUME QuietInv, Reclaim
  PROVE  QuietInv'
<1> USE AnchorAssumption DEF Reclaim, history
<1>1. QuietTyped /\ anchor_block \in Blocks
  BY DEF QuietInv, QuietTyped
<1>2. /\ anchor_table' \in AnchorTables
      /\ anchor_table'.bad = anchor_table.bad
      /\ anchor_table'.previous_anchor_block = anchor_block
  BY <1>1 DEF QuietTyped, AnchorTables
<1>3. QuietTyped'
  BY <1>1, <1>2 DEF QuietTyped
<1>4. \E h \in Blocks : QuietSearch(h)'
  <2>1. CASE ~anchor_reclaimed
    <3>1. QuietLoop
      BY <2>1 DEF QuietInv
    <3>2. Arc(anchor_block, anchor_block) \cup anchor_table.bad = anchor_table.bad
      BY <1>1, ArcBlocks
    <3>3. PICK h \in Blocks : h = anchor_block
      BY <1>1
    <3>4. QuietSearch(h)'
      BY <1>2, <3>1, <3>2, <3>3 DEF QuietLoop, QuietSearch
    <3> QED BY <3>4
  <2>2. CASE anchor_reclaimed
    <3>1. QuietReclaimed
      BY <2>2 DEF QuietInv
    <3>2. PICK h \in Blocks : QuietKept(h)
      BY <3>1 DEF QuietReclaimed
    <3>3. anchor_next_page # 0
      OBVIOUS
    <3>4. anchor_block \in Arc(h, anchor_block)
      BY <1>1, <3>2, ArcBlocks DEF QuietKept
    <3>5. Arc(h, anchor_block) \ {} = Arc(h, anchor_block)
      OBVIOUS
    <3>6. QuietSearch(h)'
      BY <1>2, <3>2, <3>3, <3>4, <3>5 DEF QuietKept, QuietSearch
    <3> QED BY <3>6
  <2> QED BY <2>1, <2>2
<1>5. QuietFind'
  BY <1>2, <1>4 DEF QuietFind
<1> QED BY <1>3, <1>5 DEF QuietInv

\* The search meets neither the block with the table acknowledged last nor the
\* block it started from.
LEMMA FindNextQuiet ==
  ASSUME QuietInv, FindNext
  PROVE  QuietInv'
<1> USE AnchorAssumption
<1> DEFINE d == campaign.bad
<1>1. QuietTyped /\ QuietFind /\ pc = "find" /\ next_block \in Blocks /\ anchor_block \in Blocks
  BY DEF QuietInv, FindNext, QuietTyped
<1>2. PICK h \in Blocks : QuietSearch(h)
  BY <1>1 DEF QuietFind
<1>3. PICK n \in Blocks : n = Following(next_block)
  BY <1>1, FollowingIsBlock
<1>4. PICK bad \in SUBSET Blocks : bad = anchor_table.bad
  BY <1>1, QuietParts
<1>5. PICK A \in SUBSET Blocks : A = Arc(h, next_block)
  BY <1>1, ArcBlocks
<1>6. d \in Nat /\ Spare(A \cup bad, d)
  BY <1>1, <1>2, <1>4, <1>5, QuietParts DEF QuietSearch
<1>7. n # h /\ Arc(h, n) = A \cup {n} /\ n \notin A
  BY <1>1, <1>3, <1>5, <1>6, ArcNext, ArcNotFull
<1>8. n # anchor_block
  BY <1>2, <1>5, <1>7 DEF QuietSearch
<1>9. next_block' = n /\ acked' = acked
  BY <1>3 DEF FindNext
<1>10. CASE IsBadBlock(n) /\ NotFound(n) /\ UNCHANGED <<anchor_table, history>>
  <2>1. /\ pc' = "find"
        /\ UNCHANGED <<flash, anchor_block, anchor_next_page, anchor_reclaimed, anchor_table, campaign>>
    BY <1>8, <1>10 DEF NotFound, history
  <2>2. QuietTyped'
    BY <1>1, <1>9, <2>1 DEF QuietTyped
  <2>3. Arc(h, n) \cup bad = A \cup bad
    BY <1>4, <1>7, <1>10 DEF IsBadBlock
  <2>4. QuietSearch(h)'
    BY <1>2, <1>4, <1>5, <1>6, <1>7, <1>9, <2>1, <2>3 DEF QuietSearch
  <2>5. QuietFind'
    BY <1>1, <2>1, <2>4 DEF QuietFind
  <2> QED BY <2>1, <2>2, <2>5 DEF QuietInv
<1>11. CASE /\ ~IsBadBlock(n) /\ flash' = [flash EXCEPT ![n] = <<>>]
            /\ Found(n) /\ UNCHANGED <<anchor_table, history>>
  <2>1. /\ pc' = "loop" /\ anchor_reclaimed' = TRUE /\ anchor_block' = n /\ anchor_next_page' = 0
        /\ anchor_table' = anchor_table /\ campaign' = campaign
    BY <1>8, <1>11 DEF Found, history
  <2>2. flash \in WornFlashes
    BY <1>1 DEF QuietTyped
  <2>3. flash' \in WornFlashes /\ flash'[n] = <<>> /\ flash'[h] = flash[h]
    <3>1. <<>> \in Seq(AnchorTables \cup {BadPage})
      OBVIOUS
    <3> QED BY <1>7, <1>11, <2>2, <3>1 DEF WornFlashes
  <2>4. QuietTyped'
    <3>1. 0 \in 0 .. P
      OBVIOUS
    <3>2. anchor_reclaimed' \in BOOLEAN
      BY <2>1
    <3> QED BY <1>1, <1>9, <2>1, <2>3, <3>1, <3>2 DEF QuietTyped
  <2>5. (Arc(h, n) \ {n}) \cup bad = A \cup bad
    BY <1>7
  <2>6. QuietKept(h)'
    BY <1>2, <1>4, <1>6, <1>7, <1>9, <2>1, <2>3, <2>5 DEF QuietKept, QuietSearch
  <2>7. QuietReclaimed'
    BY <1>1, <1>8, <2>1, <2>3, <2>6 DEF QuietReclaimed, QuietFind
  <2> QED BY <2>1, <2>4, <2>7 DEF QuietInv
<1>12. CASE /\ ~IsBadBlock(n) /\ Failing("find")
            /\ anchor_table' = LogBadBlock(anchor_table, n) /\ NotFound(n)
  <2>1. pc' = "find" /\ UNCHANGED <<flash, anchor_block, anchor_next_page, anchor_reclaimed>>
    BY <1>8, <1>12 DEF NotFound
  <2>2. /\ anchor_table' \in AnchorTables /\ anchor_table'.bad = bad \cup {n}
        /\ anchor_table'.previous_anchor_block = anchor_table.previous_anchor_block
    BY <1>1, <1>4, <1>12 DEF LogBadBlock, QuietTyped, AnchorTables
  <2>3. /\ campaign' \in CampaignSet /\ campaign'.losses = 0 /\ d > 0 /\ campaign'.bad = d - 1
    BY <1>1, <1>12, FailingLeaves
  <2>4. QuietTyped'
    BY <1>1, <1>9, <2>1, <2>2, <2>3 DEF QuietTyped
  <2>5. Spare((A \cup {n}) \cup (bad \cup {n}), d - 1)
    <3>1. (A \cup {n}) \cup (bad \cup {n}) \in SUBSET ((A \cup bad) \cup {n})
      OBVIOUS
    <3>2. A \cup bad \in SUBSET Blocks
      OBVIOUS
    <3> HIDE DEF d
    <3> QED BY <1>6, <2>3, <3>1, <3>2, SpareOne
  <2>6. QuietSearch(h)'
    BY <1>2, <1>5, <1>7, <1>9, <2>1, <2>2, <2>3, <2>5 DEF QuietSearch
  <2>7. QuietFind'
    BY <1>1, <2>1, <2>2, <2>6 DEF QuietFind
  <2> QED BY <2>1, <2>4, <2>7 DEF QuietInv
<1> QED BY <1>3, <1>10, <1>11, <1>12 DEF FindNext

LEMMA WriteQuiet ==
  ASSUME QuietInv, Write
  PROVE  QuietInv'
<1> USE AnchorAssumption
<1>1. /\ QuietTyped /\ pc = "loop" /\ anchor_block \in Blocks /\ flash \in WornFlashes
      /\ anchor_table \in AnchorTables
      /\ anchor_next_page \in Nat /\ anchor_next_page < P
      /\ UNCHANGED <<anchor_table, anchor_block, anchor_reclaimed, next_block, campaign>>
  BY DEF QuietInv, Write, history, QuietTyped
<1>2. PICK s \in Seq(AnchorTables \cup {BadPage}) : s = flash[anchor_block]
  BY <1>1 DEF WornFlashes
<1>3. flash' = [flash EXCEPT ![anchor_block] = Programmed(s, anchor_table)]
  BY <1>2 DEF Write
<1>4. CASE ~anchor_reclaimed
  <2>1. QuietLoop
    BY <1>1, <1>4 DEF QuietInv
  <2>2. pc' = "idle" /\ anchor_next_page' = anchor_next_page + 1 /\ acked' = anchor_table.body
    BY <1>4 DEF Write
  <2>3. Len(s) = anchor_next_page
    BY <1>1, <1>2, <2>1 DEF QuietLoop, EndsInTable
  <2>4. /\ Programmed(s, anchor_table) \in Seq(AnchorTables \cup {BadPage})
        /\ PagesHold(Programmed(s, anchor_table), anchor_table.body)
        /\ EndsInTable(Programmed(s, anchor_table), anchor_next_page + 1)
    BY <1>1, <2>3, AppendsPage
  <2>5. flash' \in WornFlashes /\ flash'[anchor_block] = Programmed(s, anchor_table)
    BY <1>1, <1>3, <2>4 DEF WornFlashes
  <2>6. QuietTyped'
    <3>1. anchor_next_page + 1 \in 0 .. P
      BY <1>1
    <3> QED BY <1>1, <2>2, <2>5, <3>1 DEF QuietTyped
  <2>7. QuietIdle'
    BY <1>1, <2>1, <2>2, <2>4, <2>5 DEF QuietLoop, QuietIdle
  <2> QED BY <2>2, <2>6, <2>7 DEF QuietInv
<1>5. CASE anchor_reclaimed
  <2>1. QuietReclaimed
    BY <1>1, <1>5 DEF QuietInv
  <2>2. pc' = "erasePrevious" /\ anchor_next_page' = anchor_next_page /\ acked' = acked
    BY <1>5 DEF Write
  <2>3. anchor_next_page = 0 /\ s = <<>>
    BY <1>1, <1>2, <2>1 DEF QuietReclaimed
  <2>4. Programmed(s, anchor_table) = <<anchor_table>>
    <3>1. SubSeq(<<>>, 1, 0) = <<>>
      OBVIOUS
    <3>2. Append(<<>>, anchor_table) = <<anchor_table>>
      OBVIOUS
    <3>3. Programmed(s, anchor_table) = Append(SubSeq(<<>>, 1, 0), anchor_table)
      BY <2>3 DEF Programmed
    <3> QED BY <3>1, <3>2, <3>3
  <2>5. flash' \in WornFlashes /\ flash'[anchor_block] = <<anchor_table>>
    <3>1. <<anchor_table>> \in Seq(AnchorTables \cup {BadPage})
      BY <1>1
    <3> QED BY <1>1, <1>3, <2>4, <3>1 DEF WornFlashes
  <2>6. QuietTyped'
    BY <1>1, <2>2, <2>5 DEF QuietTyped
  <2>7. Spare(anchor_table.bad, campaign.bad)
    <3>1. PICK h \in Blocks : QuietKept(h)
      BY <2>1 DEF QuietReclaimed
    <3>2. PICK Z : Z = (Arc(h, anchor_block) \ {anchor_block}) \cup anchor_table.bad
      OBVIOUS
    <3>3. Spare(Z, campaign.bad) /\ Z \in SUBSET Blocks /\ anchor_table.bad \in SUBSET Z
      BY <1>1, <2>3, <3>1, <3>2, QuietParts, ArcBlocks DEF QuietKept
    <3> QED BY <1>1, <3>3, SpareFewer, QuietParts
  <2>8. QuietPrevious'
    BY <1>1, <2>1, <2>2, <2>3, <2>5, <2>7 DEF QuietReclaimed, QuietPrevious
  <2> QED BY <2>2, <2>6, <2>8 DEF QuietInv
<1> QED BY <1>4, <1>5

LEMMA WriteBadQuiet ==
  ASSUME QuietInv, WriteBad
  PROVE  QuietInv'
<1> USE AnchorAssumption
<1>1. /\ QuietTyped /\ pc = "loop" /\ anchor_block \in Blocks /\ flash \in WornFlashes
      /\ anchor_table \in AnchorTables
      /\ anchor_next_page \in Nat /\ anchor_next_page < P
      /\ UNCHANGED <<anchor_table, anchor_block, anchor_reclaimed, next_block, pc, acked>>
      /\ anchor_next_page' = P
  BY DEF QuietInv, WriteBad, QuietTyped
<1>2. PICK s \in Seq(AnchorTables \cup {BadPage}) : s = flash[anchor_block]
  BY <1>1 DEF WornFlashes
<1>3. flash' = [flash EXCEPT ![anchor_block] = Programmed(s, BadPage)]
  BY <1>2 DEF WriteBad
<1>4. PICK d \in Nat : d = campaign.bad
  BY <1>1, QuietParts
<1>5. campaign' \in CampaignSet /\ campaign'.losses = 0 /\ d > 0 /\ campaign'.bad = d - 1
  <2>1. Failing("program")
    BY DEF WriteBad
  <2> QED BY <1>1, <1>4, <2>1, FailingLeaves
<1>6. PICK bad \in SUBSET Blocks : bad = anchor_table.bad
  BY <1>1, QuietParts
<1>7. Len(s) = anchor_next_page
  <2>1. CASE ~anchor_reclaimed
    BY <1>1, <1>2, <2>1 DEF QuietInv, QuietLoop, EndsInTable
  <2>2. CASE anchor_reclaimed
    BY <1>1, <1>2, <2>2 DEF QuietInv, QuietReclaimed
  <2> QED BY <2>1, <2>2
<1>8. Programmed(s, BadPage) \in Seq(AnchorTables \cup {BadPage})
  BY <1>1, <1>7, AppendsPage
<1>9. /\ flash' \in WornFlashes /\ flash'[anchor_block] = Programmed(s, BadPage)
      /\ \A b \in Blocks : b # anchor_block => flash'[b] = flash[b]
  BY <1>1, <1>3, <1>8 DEF WornFlashes
<1>10. QuietTyped'
  <2>1. P \in 0 .. P
    OBVIOUS
  <2> QED BY <1>1, <1>5, <1>9, <2>1 DEF QuietTyped
<1>11. CASE ~anchor_reclaimed
  <2>1. QuietLoop
    BY <1>1, <1>11 DEF QuietInv
  <2>2. PagesHold(Programmed(s, BadPage), acked)
    <3>1. PagesHold(s, acked) /\ EndsInTable(s, anchor_next_page)
      BY <1>1, <1>2, <2>1 DEF QuietLoop
    <3> QED BY <1>1, <1>7, <3>1, AppendsPage
  <2>3. Spare(bad, d - 1)
    <3>1. Spare(bad, d)
      BY <1>4, <1>6, <2>1 DEF QuietLoop
    <3>2. bad \in SUBSET (bad \cup {anchor_block})
      OBVIOUS
    <3> QED BY <1>5, <3>1, <3>2, SpareOne
  <2>4. QuietLoop'
    BY <1>1, <1>5, <1>6, <1>9, <2>2, <2>3 DEF QuietLoop
  <2> QED BY <1>1, <1>10, <1>11, <2>4 DEF QuietInv
<1>12. CASE anchor_reclaimed
  <2>1. QuietReclaimed /\ anchor_next_page = 0
    BY <1>1, <1>12 DEF QuietInv, QuietReclaimed
  <2>2. PICK h \in Blocks : QuietKept(h)
    BY <2>1 DEF QuietReclaimed
  <2>3. PICK A \in SUBSET Blocks : A = Arc(h, anchor_block)
    BY <1>1, ArcBlocks
  <2>4. Spare(A \cup bad, d - 1)
    <3>1. PICK Z : Z = (A \ {anchor_block}) \cup bad
      OBVIOUS
    <3>2. Spare(Z, d) /\ Z \in SUBSET Blocks
      BY <1>4, <1>6, <2>1, <2>2, <2>3, <3>1 DEF QuietKept
    <3>3. A \cup bad \in SUBSET (Z \cup {anchor_block})
      BY <3>1
    <3> QED BY <1>5, <3>2, <3>3, SpareOne
  <2>5. P # 0 /\ A \ {} = A
    OBVIOUS
  <2>6. QuietKept(h)'
    BY <1>1, <1>5, <1>6, <1>9, <2>2, <2>3, <2>4, <2>5 DEF QuietKept
  <2>7. QuietReclaimed'
    BY <1>1, <2>1, <2>5, <2>6 DEF QuietReclaimed
  <2> QED BY <1>1, <1>10, <1>12, <2>7 DEF QuietInv
<1> QED BY <1>11, <1>12

LEMMA ErasePreviousQuiet ==
  ASSUME QuietInv, ErasePrevious
  PROVE  QuietInv'
<1> USE AnchorAssumption
<1>1. /\ QuietTyped /\ QuietPrevious /\ pc' = "idle" /\ anchor_block \in Blocks
      /\ flash \in WornFlashes /\ anchor_table \in AnchorTables /\ anchor_next_page = 0
      /\ UNCHANGED <<anchor_table, anchor_block, anchor_reclaimed, next_block>>
      /\ anchor_next_page' = 1 /\ acked' = anchor_table.body
  BY DEF QuietInv, ErasePrevious, QuietTyped, QuietPrevious
<1>2. flash' \in WornFlashes /\ flash'[anchor_block] = <<anchor_table>>
  <2>1. CASE UNCHANGED flash
    BY <1>1, <2>1 DEF QuietPrevious
  <2>2. CASE flash' = [flash EXCEPT ![anchor_table.previous_anchor_block] = <<>>]
    <3>1. <<>> \in Seq(AnchorTables \cup {BadPage})
      OBVIOUS
    <3>2. PICK o : o = anchor_table.previous_anchor_block /\ o # anchor_block
      BY <1>1 DEF QuietPrevious
    <3>3. flash' = [flash EXCEPT ![o] = <<>>]
      BY <2>2, <3>2
    <3>4. flash[anchor_block] = <<anchor_table>>
      BY <1>1 DEF QuietPrevious
    <3> QED BY <1>1, <3>1, <3>2, <3>3, <3>4 DEF WornFlashes
  <2> QED BY <2>1, <2>2 DEF ErasePrevious
<1>3. /\ campaign' \in CampaignSet /\ campaign'.losses = 0
      /\ Spare(anchor_table.bad, campaign'.bad)
  <2>1. CASE UNCHANGED history
    BY <1>1, <2>1 DEF history, QuietTyped, QuietPrevious
  <2>2. CASE Failing("previous")
    <3>1. PICK d \in Nat : d = campaign.bad
      BY <1>1, QuietParts
    <3>2. campaign' \in CampaignSet /\ campaign'.losses = 0 /\ d > 0 /\ campaign'.bad = d - 1
      BY <1>1, <2>2, <3>1, FailingLeaves
    <3>3. PICK bad \in SUBSET Blocks : bad = anchor_table.bad
      BY <1>1, QuietParts
    <3>4. Spare(bad, d) /\ bad \in SUBSET (bad \cup {anchor_block})
      BY <1>1, <3>1, <3>3 DEF QuietPrevious
    <3>5. Spare(bad, d - 1)
      BY <3>2, <3>4, SpareOne
    <3> QED BY <3>2, <3>3, <3>5
  <2> QED BY <2>1, <2>2 DEF ErasePrevious
<1>4. QuietTyped'
  <2>1. 1 \in 0 .. P
    OBVIOUS
  <2> QED BY <1>1, <1>2, <1>3, <2>1 DEF QuietTyped
<1>5. PagesHold(<<anchor_table>>, anchor_table.body) /\ EndsInTable(<<anchor_table>>, 1)
  <2>1. Len(<<anchor_table>>) = 1 /\ <<anchor_table>>[1] = anchor_table
    OBVIOUS
  <2>2. IsTable(anchor_table)
    BY <1>1, TableReadable
  <2> QED BY <2>1, <2>2 DEF PagesHold, EndsInTable
<1>6. QuietIdle'
  BY <1>1, <1>2, <1>3, <1>5 DEF QuietIdle
<1> QED BY <1>1, <1>4, <1>6 DEF QuietInv

LEMMA QuietStep ==
  ASSUME QuietInv, [Next]_vars
  PROVE  QuietInv'
<1>1. CASE UNCHANGED vars
  BY <1>1 DEF vars, QuietInv, QuietTyped, QuietIdle, QuietLoop, QuietReclaimed, QuietKept,
              QuietFind, QuietSearch, QuietPrevious
<1>2. ASSUME NEW v \in Body, Update(v) PROVE QuietInv'
  BY <1>2, UpdateQuiet
<1>3. CASE Reclaim
  BY <1>3, ReclaimQuiet
<1>4. CASE FindNext
  BY <1>4, FindNextQuiet
<1>5. CASE Write
  BY <1>5, WriteQuiet
<1>6. CASE WriteBad
  BY <1>6, WriteBadQuiet
<1>7. CASE ErasePrevious
  BY <1>7, ErasePreviousQuiet
<1>8. ~PowerLoss
  BY DEF PowerLoss, QuietInv, QuietTyped
<1>9. ~AnchorInit
  BY DEF AnchorInit, QuietInv, QuietTyped
<1> QED BY <1>1, <1>2, <1>3, <1>4, <1>5, <1>6, <1>7, <1>8, <1>9 DEF Next
-----------------------------------------------------------------------------
(* Both kinds of campaign *)

\* Power losses, and no failure but that of a block looked at for reuse.
Steady(c) == NoWrap(c) /\ c.kinds \subseteq {"find"}

SteadyInv == SoundInv /\ unsound = FALSE /\ campaign.kinds \subseteq {"find"}

LEMMA SteadyStep ==
  ASSUME SteadyInv, [Next]_vars
  PROVE  SteadyInv'
<1>1. RingInv'
  BY RingStep DEF RingInv, SteadyInv
<1>2. \A k : Failing(k) => k = "find"
  BY DEF Failing, SteadyInv
<1>3. campaign \in CampaignSet
  BY DEF SteadyInv, SoundInv, RingTyped
<1>4. campaign'.kinds = campaign.kinds
  BY <1>3 DEF Next, vars, Update, Reclaim, FindNext, Write, WriteBad, ErasePrevious, PowerLoss,
              AnchorInit, history, Failing, CampaignSet
<1>5. unsound' = FALSE
  <2>1. ~Failing("program") /\ ~Failing("previous")
    BY <1>2
  <2>2. Failing("find") => unsound' = FALSE
    BY DEF Failing, SteadyInv
  <2>3. UNCHANGED history \/ UNCHANGED unsound => unsound' = FALSE
    BY DEF history, SteadyInv
  <2> HIDE DEF Failing, history
  <2> QED BY <2>1, <2>2, <2>3 DEF Next, vars, Update, Reclaim, FindNext, Write, WriteBad,
             ErasePrevious, PowerLoss, AnchorInit
<1> QED BY <1>1, <1>4, <1>5 DEF RingInv, SteadyInv

KeptInv == QuietInv \/ SteadyInv

\* For every ring, and campaigns of either kind: with fewer failures of any
\* kind than the ring has other blocks and no power loss, or with power losses
\* and blocks whose erase fails, one of the two invariants is kept.
THEOREM KeptInvariant ==
  ASSUME \A c \in Campaigns : Quiet(c) \/ Steady(c)
  PROVE  Spec => []KeptInv
<1>1. Init => KeptInv
  <2> SUFFICES ASSUME Init PROVE KeptInv
    OBVIOUS
  <2>1. campaign \in Campaigns /\ unsound = FALSE
    BY DEF Init
  <2>2. CASE Quiet(campaign)
    BY <2>2, InitQuiet DEF KeptInv
  <2>3. CASE Steady(campaign)
    BY <2>1, <2>3, InitSound DEF KeptInv, SteadyInv, Steady
  <2> QED BY <2>1, <2>2, <2>3
<1>2. KeptInv /\ [Next]_vars => KeptInv'
  BY QuietStep, SteadyStep DEF KeptInv
<1> QED BY <1>1, <1>2, PTL DEF Spec

LEMMA KeptIsKept ==
  ASSUME KeptInv
  PROVE  AnchorKept
<1> SUFFICES ASSUME pc = "idle"
             PROVE  LastPage(anchor_block) > 0 /\ LastTable(anchor_block).body = acked
  BY DEF AnchorKept
<1>1. CASE QuietInv
  <2>1. flash[anchor_block] \in Seq(AnchorTables \cup {BadPage}) /\ PagesHold(flash[anchor_block], acked)
    BY <1>1, QuietParts DEF QuietInv, QuietIdle, QuietTyped
  <2>2. Len(flash[anchor_block]) \in Nat
    BY <2>1
  <2> QED BY <2>1, <2>2 DEF PagesHold, LastPage, LastTable
<1>2. CASE SoundInv
  <2>1. IdleInv /\ flash \in Flashes /\ anchor_block \in Blocks
    BY <1>2 DEF SoundInv, RingTyped
  <2>2. LastPage(anchor_block) = anchor_next_page /\ anchor_next_page \in 1 .. P
    BY <2>1, PagesReadable DEF IdleInv, HoldsAcked, Single
  <2> QED BY <2>1, <2>2, AnchorAssumption DEF IdleInv, HoldsAcked, LastTable
<1> QED BY <1>1, <1>2 DEF KeptInv, SteadyInv

LEMMA KeptProgramsErased ==
  ASSUME KeptInv
  PROVE  AnchorProgramsErased
<1> SUFFICES ASSUME pc = "loop", anchor_next_page < P
             PROVE  anchor_next_page = Len(flash[anchor_block])
  BY DEF AnchorProgramsErased
<1>1. CASE QuietInv
  <2>1. CASE anchor_reclaimed
    BY <1>1, <2>1, AnchorAssumption DEF QuietInv, QuietReclaimed
  <2>2. CASE ~anchor_reclaimed
    BY <1>1, <2>2 DEF QuietInv, QuietLoop, EndsInTable
  <2> QED BY <2>1, <2>2
<1>2. CASE SoundInv
  <2>1. CASE anchor_reclaimed
    <3>1. ReclaimedInv /\ RingTyped
      BY <1>2, <2>1 DEF SoundInv
    <3>2. anchor_block \in Blocks /\ anchor_table.previous_anchor_block # anchor_block
      BY <3>1, BlocksAreInts DEF ReclaimedInv, RingTyped
    <3>3. flash[anchor_block] = <<>> /\ anchor_next_page = 0
      BY <3>1, <3>2 DEF ReclaimedInv, HoldsAcked, Single
    <3> QED BY <3>3
  <2>2. CASE ~anchor_reclaimed
    BY <1>2, <2>2 DEF SoundInv, LoopInv, HoldsAcked, Single
  <2> QED BY <2>1, <2>2
<1> QED BY <1>1, <1>2 DEF KeptInv, SteadyInv

\* AnchorKept for every instance: between two calls of ANCHOR_Update the
\* current block holds the table acknowledged last, if fewer operations fail than
\* the ring has other blocks.
THEOREM AnchorIsKept ==
  ASSUME \A c \in Campaigns : Quiet(c) \/ Steady(c)
  PROVE  Spec => []AnchorKept
<1>1. KeptInv => AnchorKept
  BY KeptIsKept
<1> QED BY <1>1, KeptInvariant, PTL

\* AnchorProgramsErased for every instance: ANCHOR_Update programs the page
\* after the programmed ones.
THEOREM AnchorErasedPage ==
  ASSUME \A c \in Campaigns : Quiet(c) \/ Steady(c)
  PROVE  Spec => []AnchorProgramsErased
<1>1. KeptInv => AnchorProgramsErased
  BY KeptProgramsErased
<1> QED BY <1>1, KeptInvariant, PTL
=============================================================================

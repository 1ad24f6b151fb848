---------------------------- MODULE UbiInvariant ----------------------------
(***************************************************************************)
(* The UBI tables for every geometry: every number of areas, pages, dies    *)
(* and free blocks, any number of calls and of power losses at any moment.  *)
(*                                                                          *)
(* The invariant has three parts.  The tables in RAM and the blocks they    *)
(* name (Ram): who owns a block, which pages it holds, what the running     *)
(* call is about to do.  The tables on flash and the blocks they name       *)
(* (FlashTables, FlashData), which is all that survives a power loss.  And  *)
(* how the two are related at each step of a commit (Refs): outside a       *)
(* commit they name the same blocks; inside, the blocks that are written    *)
(* are not needed by the tables on flash.                                   *)
(***************************************************************************)
EXTENDS UbiTables, FbtOps_proofs, SequenceTheorems
-----------------------------------------------------------------------------
(* Types *)

Entries == [block : Phy, ec : Nat]
AreaTables(a) == [OfArea(a) -> Entries]
Plrs == [log : LogBlock, block : Phy, ec : Nat] \cup {NoPlr}
IndexTables ==
  [fbt : [Slots -> Entries \cup {NoEntry}], area : [Area -> Entries], plr : Plrs]
Anchors ==
  [new : Entries, old : Entries \cup {NoEntry}, swl_current_area : Area, bad : SUBSET Phy]

Pages ==
  {IndexPage(t) : t \in IndexTables} \cup {AreaPage(t) : t \in UNION {AreaTables(a) : a \in Area}}
    \cup {DataPage(n) : n \in Nat} \cup {BlankPage, StalePage, BadPage}

Ops == {"none", "erase", "write", "swl", "mountNew", "mountOld"}
LocalVars ==
  [op : Ops, log : LogBlock \cup {NONE}, got : Entries \cup {NoEntry},
   from : Entries \cup {NoEntry}, new : Entries \cup {NoEntry}, page : Nat,
   area_reclaim : BOOLEAN]
FaultPlans ==
  [calls : SUBSET {"erase", "write", "swl"}, bad : Nat,
   kinds : SUBSET {"erase", "area", "index", "data"}, doubled : BOOLEAN]

\* The failures the code recovers from whatever else happens: those of erases,
\* and of one program of data (a second one may free a block twice).
Benign(c) == c.kinds \subseteq {"erase", "data"} /\ ("data" \in c.kinds => c.bad <= 1)
Faults == campaign \in FaultPlans /\ Benign(campaign) /\ ~campaign.doubled
-----------------------------------------------------------------------------
(* Where a call is: the step it makes next, from which the rest follows.    *)

AtOf(t) == IF t = <<>> THEN "idle" ELSE Head(t)
at == AtOf(todo)
mounting == cached_area_number = NONE    \* the area tables are not loaded yet
full == local.area_reclaim               \* the running commit replaces an area block
plr == index_table.plr
updated == AREA_INDEX(plr.log)           \* the area that the running commit updates

CallSteps == {"idle", "getErase", "eraseUse", "getReclaim", "copy", "swlErase",
              "swlCopy", "reprogram", "mountRest"}
IndexSteps == {"indexUpdate", "getIndex", "anchorWrite", "indexWrite"}
CommitSteps == {"commit", "getArea", "areaUse", "areaWrite", "commitDone"}
Steps == CallSteps \cup IndexSteps \cup CommitSteps \cup {"mountAreas"}

Committing == at \in CommitSteps \/ (at \in IndexSteps /\ ~mounting)

\* The area table is written and holds the last update.
IsApplied == at \in CallSteps \/ at = "commitDone" \/ (at \in IndexSteps /\ full)

\* A new area block is entered in the index table and not written yet.
NewArea == at = "areaWrite" /\ full

\* The call has taken a free block and has not put it into a table.
Holding == at \in {"eraseUse", "copy", "areaUse", "anchorWrite"}
InFlight == IF Holding THEN {local.got.block} ELSE {}

\* The index table on flash has the references of the one in RAM.
IsSettled ==
  \/ at \in CallSteps \cup {"commitDone", "mountAreas"}
  \/ at = "areaWrite" /\ ~full
  \/ at \in {"indexUpdate", "getIndex", "anchorWrite"} /\ mounting

\* What is left of the call after the commit and after index_update; the whole
\* rest when s is next.  op is the call, f is `full', c the
\* area in the cache.
EndOf(op) ==
  IF op = "write" THEN <<"reprogram">> ELSE IF op = "mountOld" THEN <<"mountRest">> ELSE <<>>
AfterIndex(op, f, c) ==
  IF c = NONE THEN <<"mountAreas">>
  ELSE IF f THEN <<"commitDone">> \o EndOf(op)
  ELSE <<"areaWrite">> \o (<<"commitDone">> \o EndOf(op))

Plan(s, op, f, c) ==
  CASE s = "idle" -> <<>>
    [] s = "getErase" -> <<"getErase", "eraseUse">>
    [] s = "getReclaim" -> <<"getReclaim", "copy">>
    [] s = "commit" -> <<"commit">> \o EndOf(op)
    [] s = "getArea" ->
         <<"getArea">> \o (<<"areaUse">> \o (<<"areaWrite">> \o
           (<<"indexUpdate">> \o AfterIndex(op, f, c))))
    [] s = "areaUse" ->
         <<"areaUse">> \o (<<"areaWrite">> \o (<<"indexUpdate">> \o AfterIndex(op, f, c)))
    [] s = "areaWrite" ->
         IF f THEN <<"areaWrite">> \o (<<"indexUpdate">> \o AfterIndex(op, f, c))
              ELSE AfterIndex(op, f, c)
    [] s = "indexUpdate" -> <<"indexUpdate">> \o AfterIndex(op, f, c)
    [] s = "getIndex" ->
         <<"getIndex">> \o (<<"anchorWrite">> \o (<<"indexWrite">> \o AfterIndex(op, f, c)))
    [] s = "anchorWrite" -> <<"anchorWrite">> \o (<<"indexWrite">> \o AfterIndex(op, f, c))
    [] s = "indexWrite" -> <<"indexWrite">> \o AfterIndex(op, f, c)
    [] s = "commitDone" -> <<"commitDone">> \o EndOf(op)
    [] OTHER -> <<s>>

Stage ==
  /\ at \in Steps
  /\ todo = Plan(at, local.op, full, cached_area_number)
  /\ mounting => at \in IndexSteps \cup {"mountAreas"}
  /\ at = "mountAreas" => mounting
  /\ full => ~mounting /\ at \in {"getArea", "areaUse", "areaWrite", "commitDone"} \cup IndexSteps
  /\ at \in {"getArea", "areaUse"} => full

Typed ==
  /\ nand \in [Phy -> Seq(Pages)]
  /\ content \in [LogBlock -> Seq(Pages)]
  /\ ops \in 0 .. MaxOps
  /\ anchorFlash \in Anchors
  /\ local \in LocalVars
  /\ powered \in BOOLEAN /\ clobbered \in BOOLEAN
-----------------------------------------------------------------------------
(* What the tables say *)

LastIs(s, k) == s # <<>> /\ Len(s) <= P /\ s[Len(s)].kind = k
TableOn(n, b) == n[b][Len(n[b])].table
HasArea(n, b, a) == LastIs(n[b], "area") /\ TableOn(n, b) \in AreaTables(a)

\* The block of each logical block by index table t, with the area tables in
\* nand n; and when the table of area c is ct.
TableMap(n, t) ==
  [l \in LogBlock |->
     IF t.plr.log = l THEN t.plr.block
     ELSE TableOn(n, t.area[AREA_INDEX(l)].block)[l].block]
CacheMap(n, t, c, ct) ==
  [l \in LogBlock |->
     IF t.plr.log = l THEN t.plr.block
     ELSE IF AREA_INDEX(l) = c THEN ct[l].block
     ELSE TableOn(n, t.area[AREA_INDEX(l)].block)[l].block]

\* The last update of index table t is in its area table.
Entered(n, t) ==
  t.plr.log # NONE =>
    TableOn(n, t.area[AREA_INDEX(t.plr.log)].block)[t.plr.log] = Entry(t.plr.block, t.plr.ec)

\* No block has two owners: F are the free blocks, ar the area blocks, ib is
\* the index block and m the mapping.
Layout(F, ar, ib, m) ==
  /\ \A a, b \in Area : ar[a].block = ar[b].block => a = b
  /\ \A k, l \in LogBlock : m[k] = m[l] => k = l
  /\ \A a \in Area, l \in LogBlock : ar[a].block # m[l]
  /\ \A a \in Area : ar[a].block # ib /\ ar[a].block \notin F
  /\ \A l \in LogBlock : m[l] # ib /\ m[l] \notin F
  /\ ib \notin F

\* The pages s of a block give a reader the pages c.
HoldsPages(s, c) ==
  /\ Len(c) <= Len(s) /\ Len(s) <= P
  /\ \A i \in 1 .. Len(c) : s[i] = c[i] /\ s[i].kind = "data"
  /\ \A i \in Len(c) + 1 .. Len(s) : s[i].kind # "data"

\* On flash: n is the nand, an the anchor.
FIB(n, an) == IF n[an.new.block] = <<>> THEN an.old.block ELSE an.new.block
FI(n, an) == TableOn(n, FIB(n, an))
FMap(n, an) == TableMap(n, FI(n, an))
Needs(n, an) ==
  {FIB(n, an)} \cup {FI(n, an).area[a].block : a \in Area} \cup {FMap(n, an)[l] : l \in LogBlock}

FlashTables(n, an) ==
  /\ n[an.new.block] = <<>> => an.old \in Entries
  /\ LastIs(n[FIB(n, an)], "index")
  /\ FI(n, an) \in IndexTables
  /\ TableOf(Phy, FI(n, an).fbt)
  /\ \A a \in Area : HasArea(n, FI(n, an).area[a].block, a)
  /\ Layout(FbtBlocks(FI(n, an).fbt), FI(n, an).area, FIB(n, an), FMap(n, an))

\* The blocks hold what was stored; once the index of a running UBI_Erase is
\* written, its block is empty already.
Erased == local.op = "erase" /\ (at = "commitDone" \/ (at = "areaWrite" /\ ~full))
FlashTarget(l) == IF Erased /\ local.log = l THEN <<>> ELSE content[l]
FlashData ==
  \A l \in LogBlock : HoldsPages(nand[FMap(nand, anchorFlash)[l]], FlashTarget(l))
-----------------------------------------------------------------------------
(* RAM *)

RamMap ==
  IF NewArea THEN CacheMap(nand, index_table, updated, cached_area_table)
             ELSE TableMap(nand, index_table)

Owners ==
  /\ index_table \in IndexTables
  /\ index_block \in Entries
  /\ anchor_table \in Anchors
  /\ TableOf(Phy, index_table.fbt)
  /\ Holding => local.got \in Entries /\ nand[local.got.block] = <<>>
                  /\ local.got.block \notin FbtBlocks(index_table.fbt)
  /\ Layout(FbtBlocks(index_table.fbt) \cup InFlight, index_table.area, index_block.block, RamMap)

AreaBlocks ==
  /\ \A a \in Area : NewArea /\ a = updated => nand[index_table.area[a].block] = <<>>
  /\ \A a \in Area : ~(NewArea /\ a = updated) => HasArea(nand, index_table.area[a].block, a)
  /\ ~mounting =>
       /\ area_offset_table \in [Area -> 0 .. P - 1]
       /\ \A a \in Area : ~(NewArea /\ a = updated) =>
            area_offset_table[a] + 1 = Len(nand[index_table.area[a].block])
  /\ Committing => plr.log \in LogBlock
  /\ Committing /\ full => (at = "areaWrite" \/ at \in {"getArea", "areaUse"} =>
                              area_offset_table[updated] = P - 1)
  /\ Committing /\ ~full /\ (at \in IndexSteps \/ at = "areaWrite") =>
        area_offset_table[updated] < P - 1

Cache ==
  /\ IsApplied =>
       /\ cached_area_number \in Area
       /\ cached_area_table = TableOn(nand, index_table.area[cached_area_number].block)
       /\ Entered(nand, index_table)
  /\ Committing =>
       /\ cached_area_number = updated
       /\ cached_area_table \in AreaTables(updated)
       /\ ~NewArea => \A l \in OfArea(updated) : l # plr.log =>
            cached_area_table[l] = TableOn(nand, index_table.area[updated].block)[l]

IndexBlock ==
  /\ index_next_page \in 0 .. P
  /\ index_next_page < P => index_next_page = Len(nand[index_block.block])
  /\ at = "indexWrite" => index_next_page < P
  /\ at \in {"getIndex", "anchorWrite"} => index_next_page = P
  /\ \/ LastIs(nand[index_block.block], "index")
     \/ at = "indexWrite" /\ nand[index_block.block] = <<>>

Target(l) == IF Committing /\ local.op = "erase" /\ local.log = l THEN <<>> ELSE content[l]
RamData == \A l \in LogBlock : HoldsPages(nand[RamMap[l]], Target(l))

Locals ==
  /\ at = "idle" => local = NoLocal
  /\ at \in {"getErase", "eraseUse"} => local.op = "erase" /\ local.log \in LogBlock
  /\ at \in {"getReclaim", "copy", "reprogram"} => local.op = "write"
  /\ at \in {"swlErase", "swlCopy"} => local.op = "swl"
  /\ at \in {"getReclaim", "copy", "swlErase", "swlCopy"} =>
       /\ local.log \in LogBlock
       /\ local.from \in Entries /\ local.from.block = RamMap[local.log]
       /\ cached_area_number = AREA_INDEX(local.log)
  /\ at \in {"swlErase", "swlCopy"} =>
       /\ MaxEcSlot(index_table.fbt) > 0
       /\ local.got = index_table.fbt[MaxEcSlot(index_table.fbt)]
       /\ local.got.ec > local.from.ec /\ local.got.ec - local.from.ec > Threshold
  /\ at = "swlCopy" => nand[local.got.block] = <<>>
  /\ Committing =>
       /\ local.op \in {"erase", "swl", "write", "mountOld"}
       /\ IF local.op = "mountOld" THEN local.log = NONE ELSE local.log = plr.log
  /\ local.op = "write" =>
       /\ local.log \in LogBlock
       /\ campaign.bad = 0 /\ local.page = Len(content[local.log]) /\ local.page < P
       /\ Committing \/ at = "reprogram" => local.new.block = RamMap[local.log]
  /\ at \in IndexSteps /\ mounting => local.op \in {"mountNew", "mountOld"} /\ local.log = NONE
  /\ at \in {"mountAreas", "mountRest"} => local.op \in {"mountNew", "mountOld", "none"} /\ local.log = NONE
  /\ at = "mountRest" => local.op = "mountOld"

Ram == Stage /\ Owners /\ AreaBlocks /\ Cache /\ IndexBlock /\ RamData /\ Locals
-----------------------------------------------------------------------------
(* RAM and flash *)

SameRefs ==
  /\ FIB(nand, anchorFlash) = index_block.block
  /\ FI(nand, anchorFlash).area = index_table.area
  /\ FI(nand, anchorFlash).plr = index_table.plr

Refs ==
  /\ IsSettled => SameRefs
  /\ anchorFlash.new.block = index_block.block
       \/ (mounting /\ local.op = "mountOld" /\ at \in {"indexUpdate", "getIndex", "anchorWrite"}
            /\ index_next_page = P)
  /\ at \in CallSteps \/ mounting => ~clobbered
  /\ ~clobbered => InFlight \cap Needs(nand, anchorFlash) = {}
  /\ ~clobbered /\ NewArea =>
       index_table.area[updated].block \notin Needs(nand, anchorFlash)
  /\ at = "indexWrite" /\ nand[index_block.block] # <<>> => FIB(nand, anchorFlash) = index_block.block

UbiInv ==
  /\ Typed /\ Faults
  /\ ~clobbered \/ (powered /\ IsSettled) => FlashTables(nand, anchorFlash) /\ FlashData
  /\ ~powered => todo = <<>> /\ local = NoLocal /\ ~clobbered /\ mounting
  /\ powered => todo = <<"worn">> \/ (Ram /\ Refs)
-----------------------------------------------------------------------------
(* Numbers and types *)

\* The numbers of pages and blocks, and the marks INVALID_BLOCK and NONE outside
\* of them.
LEMMA Geometry ==
  /\ P \in Nat /\ P >= 2 /\ P - 1 \in Nat /\ LogCount \in Nat \ {0} /\ PhyCount \in Nat
  /\ PER_AREA \in Nat \ {0} /\ Threshold \in Nat /\ MaxOps \in Nat
  /\ LogBlock \subseteq Nat /\ Phy \subseteq Nat
  /\ NONE \notin LogBlock /\ INVALID_BLOCK \notin Phy
  /\ LogCount - 1 \in LogBlock
BY UbiAssumption, FbtAssumption DEF LogBlock, Phy, NONE

\* AREA_INDEX gives every logical block an area.
LEMMA AreaOf ==
  ASSUME NEW l \in LogBlock
  PROVE  AREA_INDEX(l) \in Area /\ AREA_INDEX(l) \in Nat /\ l \in OfArea(AREA_INDEX(l))
<1>1. l \in Nat /\ PER_AREA \in Nat \ {0}
  BY Geometry
<1>2. l \div PER_AREA \in Nat
  BY <1>1
<1> QED BY <1>2 DEF AREA_INDEX, Area, OfArea

LEMMA AreasNat ==
  /\ Area \subseteq Nat /\ NONE \notin Area /\ LastArea \in Area
  /\ \A a \in Area : \A l \in OfArea(a) : l \in LogBlock /\ AREA_INDEX(l) = a
<1>1. \A a \in Area : a \in Nat
  BY AreaOf DEF Area
<1>2. NONE \notin Nat
  BY DEF NONE
<1>3. LastArea \in Area
  BY Geometry, AreaOf DEF LastArea
<1> QED BY <1>1, <1>2, <1>3 DEF OfArea

\* The areas are numbered from 0.
LEMMA AreaRange == Area = 0 .. LastArea /\ Cardinality(Area) = LastArea + 1
<1> DEFINE p == PER_AREA
           n == LogCount - 1
<1>1. p \in Nat \ {0} /\ n \in Nat /\ LogBlock = 0 .. n
  BY Geometry DEF LogBlock
<1>2. n \div p \in Nat /\ p * (n \div p) <= n
  BY <1>1
<1>3. ASSUME NEW l \in 0 .. n PROVE l \div p \in 0 .. (n \div p)
  <2>1. l \in Nat /\ l <= n
    BY <1>1
  <2>2. l \div p <= n \div p /\ l \div p \in Nat
    BY <1>1, <2>1
  <2> QED BY <2>2, <1>2
<1>4. ASSUME NEW a \in 0 .. (n \div p) PROVE \E l \in 0 .. n : l \div p = a
  <2>1. a \in Nat /\ a <= n \div p
    BY <1>2
  <2>2. (p * a) \div p = a /\ p * a \in Nat
    BY <1>1, <2>1
  <2>3. p * a <= p * (n \div p)
    BY <1>1, <1>2, <2>1
  <2>4. p * a \in 0 .. n
    BY <2>2, <2>3, <1>2, <1>1
  <2> QED BY <2>2, <2>4
<1>5. Area = 0 .. (n \div p)
  BY <1>1, <1>3, <1>4 DEF Area, AREA_INDEX
<1>6. Cardinality(0 .. (n \div p)) = (n \div p) - 0 + 1
  BY <1>2, FS_Interval
<1> QED BY <1>2, <1>5, <1>6 DEF LastArea, AREA_INDEX

\* UBI_SWL goes to the next area, and round.
LEMMA NextArea ==
  ASSUME NEW a \in Area
  PROVE  (a + 1) % Cardinality(Area) \in Area
<1>1. LastArea \in Nat /\ a \in Nat
  BY AreasNat
<1>2. (a + 1) % (LastArea + 1) \in 0 .. LastArea
  BY <1>1
<1> QED BY <1>2, AreaRange

\* Entries of the tables, and the unused one.
LEMMA Entries2 ==
  /\ NoEntry \notin Entries /\ NoEntry.block = INVALID_BLOCK /\ NoEntry.block \notin Phy
  /\ \A b \in Phy, e \in Nat : Entry(b, e) \in Entries
  /\ \A b, e : Entry(b, e).block = b /\ Entry(b, e).ec = e
  /\ \A e \in Entries : e.block \in Phy /\ e.ec \in Nat /\ e = Entry(e.block, e.ec)
BY Geometry DEF NoEntry, Entry, Entries

\* area_update_plr names a logical block and its block, or nothing.
LEMMA PlrLog ==
  ASSUME NEW p \in Plrs
  PROVE  /\ p.log # NONE => p.log \in LogBlock /\ p.block \in Phy /\ p.ec \in Nat
                            /\ Entry(p.block, p.ec) \in Entries
         /\ p.log = NONE => p = NoPlr
         /\ p.log \in LogBlock \cup {NONE}
<1>1. CASE p = NoPlr
  BY <1>1 DEF NoPlr
<1>2. CASE p \in [log : LogBlock, block : Phy, ec : Nat]
  <2>1. p.log \in LogBlock /\ p.block \in Phy /\ p.ec \in Nat
    BY <1>2
  <2> QED BY <2>1, Geometry, Entries2
<1> QED BY <1>1, <1>2 DEF Plrs

LEMMA IndexTable ==
  ASSUME NEW t \in IndexTables
  PROVE  /\ t.area \in [Area -> Entries] /\ t.plr \in Plrs
         /\ \A a \in Area : t.area[a] \in Entries /\ t.area[a].block \in Phy
         /\ t.fbt \in [Slots -> Entries \cup {NoEntry}]
BY Entries2 DEF IndexTables

\* What the updates of the index table leave alone.
LEMMA WithFbt ==
  ASSUME NEW t \in IndexTables, NEW f, TableOf(Phy, f), NEW u, u = [t EXCEPT !.fbt = f]
  PROVE  u \in IndexTables /\ u.fbt = f /\ u.area = t.area /\ u.plr = t.plr
BY DEF IndexTables, TableOf, Entries

LEMMA WithPlrTable ==
  ASSUME NEW t \in IndexTables, NEW l \in LogBlock, NEW e \in Entries
  PROVE  /\ WithPlr(t, l, e) \in IndexTables
         /\ WithPlr(t, l, e).fbt = t.fbt /\ WithPlr(t, l, e).area = t.area
         /\ WithPlr(t, l, e).plr.log = l /\ WithPlr(t, l, e).plr.block = e.block
         /\ WithPlr(t, l, e).plr.ec = e.ec
BY DEF IndexTables, WithPlr, Plrs, Entries

\* The block of a candidate of INDEX_FreeBlock_Get.
LEMMA EcNat == ASSUME NEW e \in Nat, NEW n \in Nat PROVE EcPlus(e, n) \in Nat
<1>1. INVALID_EC + 1 \in Nat \ {0} /\ e + n \in Nat
  BY FbtAssumption
<1>2. \A q \in Nat \ {0}, x \in Nat : x % q \in Nat
  OBVIOUS
<1> QED BY <1>1, <1>2 DEF EcPlus

\* Tables that are read from flash have their type.
LEMMA PageTables ==
  ASSUME NEW pg \in Pages
  PROVE  /\ pg.kind = "index" => pg.table \in IndexTables
         /\ pg.kind = "area" => \E a \in Area : pg.table \in AreaTables(a)
BY DEF Pages, IndexPage, AreaPage, DataPage, BlankPage, StalePage, BadPage

LEMMA NoLocalType == NoLocal \in LocalVars /\ NoLocal.op = "none" /\ NoLocal.log = NONE
/\ ~NoLocal.area_reclaim
BY DEF NoLocal, LocalVars, Ops
-----------------------------------------------------------------------------
(* The rest of a call *)

AllSteps == Steps \cup {"worn"}

\* Sequences of steps: the first and the rest.
LEMMA ConsParts ==
  ASSUME NEW S, NEW x \in S, NEW s \in Seq(S)
  PROVE  /\ <<x>> \o s \in Seq(S) /\ <<x>> \o s # <<>>
         /\ Head(<<x>> \o s) = x /\ Tail(<<x>> \o s) = s
<1>1. <<x>> \in Seq(S) /\ Len(<<x>>) = 1 /\ <<x>>[1] = x
  OBVIOUS
<1>2. <<x>> \o s \in Seq(S) /\ Len(<<x>> \o s) = Len(s) + 1
  BY <1>1, ConcatProperties
<1>3. <<x>> \o s # <<>>
  BY <1>2
<1>4. \A i \in 1 .. Len(s) + 1 : (<<x>> \o s)[i] = IF i = 1 THEN x ELSE s[i - 1]
  BY <1>1, ConcatProperties
<1>5. Head(<<x>> \o s) = x
  BY <1>2, <1>3, <1>4
<1>6. Tail(<<x>> \o s) = s
  <2> DEFINE t == Tail(<<x>> \o s)
  <2>1. t \in Seq(S) /\ Len(t) = Len(s) /\ \A i \in 1 .. Len(t) : t[i] = (<<x>> \o s)[i + 1]
    BY <1>2, <1>3, HeadTailProperties
  <2>2. \A i \in 1 .. Len(t) : t[i] = s[i]
    BY <2>1, <1>4
  <2> QED BY <2>1, <2>2, SeqEqual
<1> QED BY <1>2, <1>3, <1>5, <1>6

LEMMA PairCat ==
  ASSUME NEW S, NEW x \in S, NEW y \in S, NEW s \in Seq(S)
  PROVE  <<x, y>> \o s = <<x>> \o (<<y>> \o s)
<1>1. <<x>> \in Seq(S) /\ <<y>> \in Seq(S) /\ <<x, y>> \in Seq(S)
  OBVIOUS
<1>2. <<x, y>> = <<x>> \o <<y>>
  <2>1. <<x>> \o <<y>> \in Seq(S) /\ Len(<<x>> \o <<y>>) = 2
    BY <1>1, ConcatProperties
  <2>2. (<<x>> \o <<y>>)[1] = x /\ (<<x>> \o <<y>>)[2] = y
    BY <1>1, ConcatProperties
  <2>3. Len(<<x, y>>) = 2 /\ <<x, y>>[1] = x /\ <<x, y>>[2] = y
    OBVIOUS
  <2>4. \A i \in 1 .. 2 : <<x, y>>[i] = (<<x>> \o <<y>>)[i]
    <3> SUFFICES ASSUME NEW i \in 1 .. 2 PROVE <<x, y>>[i] = (<<x>> \o <<y>>)[i]
      OBVIOUS
    <3>1. i = 1 \/ i = 2
      OBVIOUS
    <3> QED BY <2>2, <2>3, <3>1
  <2> QED BY <2>1, <2>3, <2>4, <1>1, SeqEqual
<1> QED BY <1>1, <1>2, ConcatAssociative

LEMMA EmptyCat ==
  ASSUME NEW S, NEW s \in Seq(S)
  PROVE  <<>> \o s = s /\ s \o <<>> = s
BY ConcatEmptySeq

\* The ends of a call, after the commit and after index_update.
LEMMA Ends ==
  ASSUME NEW op, NEW f, NEW c
  PROVE  /\ EndOf(op) \in Seq(AllSteps)
         /\ <<"commitDone">> \o EndOf(op) \in Seq(AllSteps)
         /\ AfterIndex(op, f, c) \in Seq(AllSteps)
         /\ <<"indexUpdate">> \o AfterIndex(op, f, c) \in Seq(AllSteps)
         /\ <<"indexWrite">> \o AfterIndex(op, f, c) \in Seq(AllSteps)
         /\ <<"anchorWrite">> \o (<<"indexWrite">> \o AfterIndex(op, f, c)) \in Seq(AllSteps)
         /\ <<"areaWrite">> \o (<<"indexUpdate">> \o AfterIndex(op, f, c)) \in Seq(AllSteps)
         /\ <<"areaUse">> \o (<<"areaWrite">> \o (<<"indexUpdate">> \o AfterIndex(op, f, c)))
              \in Seq(AllSteps)
<1>1. {"reprogram", "mountRest", "mountAreas", "areaWrite", "commitDone", "indexUpdate",
       "indexWrite", "anchorWrite", "areaUse"} \subseteq AllSteps
  BY DEF AllSteps, Steps, CallSteps, IndexSteps, CommitSteps
<1>2. EndOf(op) \in Seq(AllSteps)
  BY <1>1 DEF EndOf
<1>3. <<"commitDone">> \o EndOf(op) \in Seq(AllSteps)
  BY <1>1, <1>2, ConsParts
<1>4. <<"areaWrite">> \o (<<"commitDone">> \o EndOf(op)) \in Seq(AllSteps)
  BY <1>1, <1>3, ConsParts
<1>5. AfterIndex(op, f, c) \in Seq(AllSteps)
  BY <1>1, <1>3, <1>4 DEF AfterIndex
<1> HIDE DEF AllSteps
<1>6. <<"indexUpdate">> \o AfterIndex(op, f, c) \in Seq(AllSteps)
  BY <1>1, <1>5, ConsParts
<1>7. <<"indexWrite">> \o AfterIndex(op, f, c) \in Seq(AllSteps)
  BY <1>1, <1>5, ConsParts
<1>8. <<"anchorWrite">> \o (<<"indexWrite">> \o AfterIndex(op, f, c)) \in Seq(AllSteps)
  BY <1>1, <1>7, ConsParts
<1>9. <<"areaWrite">> \o (<<"indexUpdate">> \o AfterIndex(op, f, c)) \in Seq(AllSteps)
  BY <1>1, <1>6, ConsParts
<1>10. <<"areaUse">> \o (<<"areaWrite">> \o (<<"indexUpdate">> \o AfterIndex(op, f, c)))
         \in Seq(AllSteps)
  BY <1>1, <1>9, ConsParts
<1> QED BY <1>2, <1>3, <1>5, <1>6, <1>7, <1>8, <1>9, <1>10

\* What follows INDEX_Update_AreaReclaim.
LEMMA AreaUseTail ==
  ASSUME full
  PROVE  Tail(Plan("areaUse", local.op, full, cached_area_number))
           = Plan("areaWrite", local.op, full, cached_area_number)
<1> DEFINE rest == <<"indexUpdate">> \o AfterIndex(local.op, full, cached_area_number)
<1>1. /\ Plan("areaUse", local.op, full, cached_area_number)
           = <<"areaUse">> \o (<<"areaWrite">> \o rest)
      /\ Plan("areaWrite", local.op, full, cached_area_number) = <<"areaWrite">> \o rest
  BY DEF Plan
<1>2. <<"areaWrite">> \o rest \in Seq(AllSteps) /\ "areaUse" \in AllSteps
  BY Ends DEF AllSteps, Steps, CommitSteps
<1> HIDE DEF rest
<1>3. Tail(<<"areaUse">> \o (<<"areaWrite">> \o rest)) = <<"areaWrite">> \o rest
  BY <1>2, ConsParts
<1> QED BY <1>1, <1>3

\* What is left after the first step of a plan is the plan of the next step.
LEMMA PlanTails ==
  ASSUME NEW op, NEW f, NEW c
  PROVE  /\ Tail(Plan("getErase", op, f, c)) = Plan("eraseUse", op, f, c)
         /\ Tail(Plan("getReclaim", op, f, c)) = Plan("copy", op, f, c)
         /\ Tail(Plan("getArea", op, f, c)) = Plan("areaUse", op, f, c)
         /\ f => Tail(Plan("areaUse", op, f, c)) = Plan("areaWrite", op, f, c)
         /\ f => Tail(Plan("areaWrite", op, f, c)) = Plan("indexUpdate", op, f, c)
         /\ ~f /\ c # NONE => Tail(Plan("areaWrite", op, f, c)) = Plan("commitDone", op, f, c)
         /\ Tail(Plan("indexUpdate", op, f, c)) = AfterIndex(op, f, c)
         /\ Tail(Plan("getIndex", op, f, c)) = Plan("anchorWrite", op, f, c)
         /\ Tail(Plan("anchorWrite", op, f, c)) = Plan("indexWrite", op, f, c)
         /\ Tail(Plan("indexWrite", op, f, c)) = AfterIndex(op, f, c)
         /\ Tail(Plan("commitDone", op, f, c)) = EndOf(op)
         /\ Tail(Plan("commit", op, f, c)) = EndOf(op)
<1>1. {"getErase", "getReclaim", "getArea", "commit", "getIndex", "areaWrite", "commitDone",
       "indexUpdate", "indexWrite", "anchorWrite", "areaUse", "eraseUse", "copy"} \subseteq AllSteps
  BY DEF AllSteps, Steps, CallSteps, IndexSteps, CommitSteps
<1>2. Tail(<<"getErase", "eraseUse">>) = <<"eraseUse">> /\ Tail(<<"getReclaim", "copy">>) = <<"copy">>
  OBVIOUS
<1>3. ~f /\ c # NONE => AfterIndex(op, f, c) = <<"areaWrite">> \o (<<"commitDone">> \o EndOf(op))
  BY DEF AfterIndex
<1>4. \A x \in AllSteps, s \in Seq(AllSteps) : Tail(<<x>> \o s) = s
  BY ConsParts
<1>5. Tail(Plan("getErase", op, f, c)) = Plan("eraseUse", op, f, c)
  BY <1>2 DEF Plan
<1>6. Tail(Plan("getReclaim", op, f, c)) = Plan("copy", op, f, c)
  BY <1>2 DEF Plan
<1>7. Tail(Plan("getArea", op, f, c)) = Plan("areaUse", op, f, c)
  BY <1>1, <1>4, Ends DEF Plan
<1> DEFINE rest == <<"indexUpdate">> \o AfterIndex(op, f, c)
<1>a. /\ Plan("areaUse", op, f, c) = <<"areaUse">> \o (<<"areaWrite">> \o rest)
      /\ f => Plan("areaWrite", op, f, c) = <<"areaWrite">> \o rest
      /\ Plan("indexUpdate", op, f, c) = rest
  BY DEF Plan
<1>b. rest \in Seq(AllSteps) /\ <<"areaWrite">> \o rest \in Seq(AllSteps)
  BY Ends
<1>8. f => Tail(Plan("areaUse", op, f, c)) = Plan("areaWrite", op, f, c)
  <2> HIDE DEF rest
  <2>1. Tail(<<"areaUse">> \o (<<"areaWrite">> \o rest)) = <<"areaWrite">> \o rest
    BY <1>1, <1>4, <1>b
  <2> QED BY <2>1, <1>a, Zenon
<1>9. f => Tail(Plan("areaWrite", op, f, c)) = Plan("indexUpdate", op, f, c)
  <2> HIDE DEF rest
  <2>1. Tail(<<"areaWrite">> \o rest) = rest
    BY <1>1, <1>4, <1>b
  <2> QED BY <2>1, <1>a, Zenon
<1>10. ~f /\ c # NONE => Tail(Plan("areaWrite", op, f, c)) = Plan("commitDone", op, f, c)
  BY <1>1, <1>3, <1>4, Ends DEF Plan
<1>11. Tail(Plan("indexUpdate", op, f, c)) = AfterIndex(op, f, c)
  BY <1>1, <1>4, Ends DEF Plan
<1>12. Tail(Plan("getIndex", op, f, c)) = Plan("anchorWrite", op, f, c)
  BY <1>1, <1>4, Ends DEF Plan
<1>13. Tail(Plan("anchorWrite", op, f, c)) = Plan("indexWrite", op, f, c)
  BY <1>1, <1>4, Ends DEF Plan
<1>14. Tail(Plan("indexWrite", op, f, c)) = AfterIndex(op, f, c)
  BY <1>1, <1>4, Ends DEF Plan
<1>15. Tail(Plan("commitDone", op, f, c)) = EndOf(op)
  BY <1>1, <1>4, Ends DEF Plan
<1>16. Tail(Plan("commit", op, f, c)) = EndOf(op)
  BY <1>1, <1>4, Ends DEF Plan
<1> QED BY <1>5, <1>6, <1>7, <1>8, <1>9, <1>10, <1>11, <1>12, <1>13, <1>14, <1>15, <1>16

\* A plan begins with its step.
LEMMA PlanHeads ==
  ASSUME NEW s \in Steps, NEW op, NEW f, NEW c,
         s = "areaWrite" => f \/ c # NONE
  PROVE  AtOf(Plan(s, op, f, c)) = s
<1>1. {"getErase", "getReclaim", "getArea", "commit", "getIndex", "areaWrite", "commitDone",
       "indexUpdate", "indexWrite", "anchorWrite", "areaUse"} \subseteq AllSteps
  BY DEF AllSteps, Steps, CallSteps, IndexSteps, CommitSteps
<1>2. \A x \in AllSteps, r \in Seq(AllSteps) : AtOf(<<x>> \o r) = x
  BY ConsParts, Zenon DEF AtOf
<1>3. AtOf(<<>>) = "idle" /\ \A x, y : AtOf(<<x>>) = x /\ AtOf(<<x, y>>) = x
  BY DEF AtOf
<1>4. CASE s \in {"idle", "getErase", "getReclaim"}
  BY <1>3, <1>4 DEF Plan
<1>5. CASE s \in {"commit", "commitDone"}
  BY <1>1, <1>2, <1>5, Ends DEF Plan
<1>6. CASE s \in {"getArea", "areaUse"}
  BY <1>1, <1>2, <1>6, Ends DEF Plan
<1>7. CASE s = "areaWrite" /\ f
  BY <1>1, <1>2, <1>7, Ends DEF Plan
<1>8. CASE s = "areaWrite" /\ ~f
  BY <1>1, <1>2, <1>8, Ends DEF Plan, AfterIndex
<1>9. CASE s \in {"indexUpdate", "getIndex", "anchorWrite", "indexWrite"}
  BY <1>1, <1>2, <1>9, Ends DEF Plan
<1>10. CASE s \in {"eraseUse", "copy", "swlErase", "swlCopy", "reprogram", "mountRest", "mountAreas"}
  BY <1>3, <1>10 DEF Plan
<1> QED BY <1>4, <1>5, <1>6, <1>7, <1>8, <1>9, <1>10
        DEF Steps, CallSteps, IndexSteps, CommitSteps

\* The plans that INDEX_Update_Commit and index_update make, and what follows
\* them.
EndStep(op) ==
  IF op = "write" THEN "reprogram" ELSE IF op = "mountOld" THEN "mountRest" ELSE "idle"

\* What a call does after INDEX_Update_Commit is a plan too.
LEMMA EndPlan ==
  ASSUME NEW op, NEW op2, NEW f, NEW c
  PROVE  EndOf(op) = Plan(EndStep(op), op2, f, c) /\ EndStep(op) \in Steps
BY DEF EndOf, EndStep, Plan, Steps, CallSteps

LEMMA AfterIndexPlan ==
  ASSUME NEW op, NEW f, NEW c
  PROVE  /\ c = NONE => AfterIndex(op, f, c) = Plan("mountAreas", op, f, c)
         /\ c # NONE /\ f => AfterIndex(op, f, c) = Plan("commitDone", op, f, c)
         /\ c # NONE /\ ~f => AfterIndex(op, f, c) = Plan("areaWrite", op, f, c)
BY DEF AfterIndex, Plan

\* The list that index_update makes, with and without a new index block.
LEMMA IndexPlan ==
  ASSUME NEW op, NEW f, NEW c, NEW r, r = AfterIndex(op, f, c)
  PROVE  /\ <<"getIndex", "anchorWrite">> \o <<"indexWrite">> \o r = Plan("getIndex", op, f, c)
         /\ <<>> \o <<"indexWrite">> \o r = Plan("indexWrite", op, f, c)
<1>1. {"getIndex", "anchorWrite", "indexWrite"} \subseteq AllSteps
  BY DEF AllSteps, Steps, IndexSteps
<1>2. /\ <<"indexWrite">> \in Seq(AllSteps) /\ <<"getIndex", "anchorWrite">> \in Seq(AllSteps)
      /\ r \in Seq(AllSteps)
  BY <1>1, Ends
<1>3. <<>> \o <<"indexWrite">> = <<"indexWrite">>
  BY <1>2, EmptyCat
<1>4. <<"getIndex", "anchorWrite">> \o <<"indexWrite">> \o r
        = <<"getIndex", "anchorWrite">> \o (<<"indexWrite">> \o r)
  BY <1>2, ConcatAssociative
<1>5. <<"indexWrite">> \o r \in Seq(AllSteps)
  BY <1>2, ConcatProperties
<1>6. <<"getIndex", "anchorWrite">> \o (<<"indexWrite">> \o r)
        = <<"getIndex">> \o (<<"anchorWrite">> \o (<<"indexWrite">> \o r))
  BY <1>1, <1>5, PairCat
<1> QED BY <1>3, <1>4, <1>6 DEF Plan

\* The list that INDEX_Update_Commit makes, for a full area block and for one
\* with room.
LEMMA CommitPlan ==
  ASSUME NEW op, NEW f, NEW c, c # NONE
  PROVE  /\ f => <<"getArea", "areaUse">> \o <<"areaWrite">> \o <<"indexUpdate">>
                   \o <<"commitDone">> \o EndOf(op) = Plan("getArea", op, f, c)
         /\ ~f => <<"indexUpdate">> \o <<"areaWrite">> \o <<>> \o <<"commitDone">> \o EndOf(op)
                   = Plan("indexUpdate", op, f, c)
<1> DEFINE E == EndOf(op)
           D == <<"commitDone">> \o E
           A == <<"getArea", "areaUse">> \o <<"areaWrite">>
<1>1. {"getArea", "areaUse", "areaWrite", "indexUpdate", "commitDone"} \subseteq AllSteps
  BY DEF AllSteps, Steps, IndexSteps, CommitSteps
<1>2. /\ <<"getArea", "areaUse">> \in Seq(AllSteps) /\ <<"areaWrite">> \in Seq(AllSteps)
      /\ <<"indexUpdate">> \in Seq(AllSteps) /\ <<"commitDone">> \in Seq(AllSteps)
      /\ E \in Seq(AllSteps)
  BY <1>1, Ends
<1>3. D \in Seq(AllSteps) /\ A \in Seq(AllSteps)
  BY <1>2, ConcatProperties
<1>4. ASSUME f
      PROVE  ((A \o <<"indexUpdate">>) \o <<"commitDone">>) \o E = Plan("getArea", op, f, c)
  <2> DEFINE G == A \o <<"indexUpdate">>
  <2>1. G \in Seq(AllSteps)
    BY <1>2, <1>3, ConcatProperties
  <2>2. (G \o <<"commitDone">>) \o E = G \o D
    BY <1>2, <2>1, ConcatAssociative
  <2>3. G \o D = A \o (<<"indexUpdate">> \o D)
    BY <1>2, <1>3, ConcatAssociative
  <2>4. <<"indexUpdate">> \o D \in Seq(AllSteps)
    BY <1>2, <1>3, ConcatProperties
  <2>5. A \o (<<"indexUpdate">> \o D)
          = <<"getArea", "areaUse">> \o (<<"areaWrite">> \o (<<"indexUpdate">> \o D))
    BY <1>2, <2>4, ConcatAssociative
  <2>6. <<"areaWrite">> \o (<<"indexUpdate">> \o D) \in Seq(AllSteps)
    BY <1>2, <2>4, ConcatProperties
  <2>7. <<"getArea", "areaUse">> \o (<<"areaWrite">> \o (<<"indexUpdate">> \o D))
          = <<"getArea">> \o (<<"areaUse">> \o (<<"areaWrite">> \o (<<"indexUpdate">> \o D)))
    BY <1>1, <2>6, PairCat
  <2>8. AfterIndex(op, f, c) = D
    BY <1>4 DEF AfterIndex
  <2> HIDE DEF A, D, E
  <2> QED BY <2>2, <2>3, <2>5, <2>7, <2>8 DEF Plan
<1>5. ASSUME ~f
      PROVE  <<"indexUpdate">> \o <<"areaWrite">> \o <<>> \o <<"commitDone">> \o E
               = Plan("indexUpdate", op, f, c)
  <2> DEFINE G == <<"indexUpdate">> \o <<"areaWrite">>
  <2>1. G \in Seq(AllSteps) /\ G \o <<>> = G
    BY <1>2, ConcatProperties, EmptyCat
  <2>2. (G \o <<"commitDone">>) \o E = G \o D
    BY <1>2, <2>1, ConcatAssociative
  <2>3. G \o D = <<"indexUpdate">> \o (<<"areaWrite">> \o D)
    BY <1>2, <1>3, ConcatAssociative
  <2>4. AfterIndex(op, f, c) = <<"areaWrite">> \o D
    BY <1>5 DEF AfterIndex
  <2> HIDE DEF D, E
  <2> QED BY <2>1, <2>2, <2>3, <2>4 DEF Plan
<1> QED BY <1>4, <1>5
-----------------------------------------------------------------------------
(* Maps, blocks and pages *)

Nands == [Phy -> Seq(Pages)]

\* A NAND operation changes one block.
LEMMA SetBlock ==
  ASSUME NEW n \in Nands, NEW b \in Phy, NEW s \in Seq(Pages), NEW n2, n2 = [n EXCEPT ![b] = s]
  PROVE  n2 \in Nands /\ n2[b] = s /\ \A x \in Phy : x # b => n2[x] = n[x]
BY DEF Nands

\* The mapping depends on the area blocks only.
LEMMA MapFrame ==
  ASSUME NEW n, NEW n2, NEW t \in IndexTables,
         \A a \in Area : n2[t.area[a].block] = n[t.area[a].block]
  PROVE  TableMap(n2, t) = TableMap(n, t) /\ (Entered(n2, t) <=> Entered(n, t))
<1>1. \A l \in LogBlock : AREA_INDEX(l) \in Area
  BY AreaOf
<1>2. TableMap(n2, t) = TableMap(n, t)
  BY <1>1 DEF TableMap, TableOn
<1>3. t.plr.log # NONE => t.plr.log \in LogBlock
  BY IndexTable, PlrLog
<1>4. Entered(n2, t) <=> Entered(n, t)
  BY <1>1, <1>3 DEF Entered, TableOn
<1> QED BY <1>2, <1>4

LEMMA MapRefs ==
  ASSUME NEW n, NEW t, NEW t2, t2.area = t.area, t2.plr = t.plr
  PROVE  /\ TableMap(n, t2) = TableMap(n, t) /\ Entered(n, t2) = Entered(n, t)
         /\ \A c, ct : CacheMap(n, t2, c, ct) = CacheMap(n, t, c, ct)
BY DEF TableMap, Entered, CacheMap

\* Once the last update is in its table, the tables alone give the map.
LEMMA MapEntered ==
  ASSUME NEW n, NEW t \in IndexTables, Entered(n, t), NEW l \in LogBlock
  PROVE  TableMap(n, t)[l] = TableOn(n, t.area[AREA_INDEX(l)].block)[l].block
<1>1. t.plr.log # l \/ TableOn(n, t.area[AREA_INDEX(l)].block)[l] = Entry(t.plr.block, t.plr.ec)
  BY Geometry DEF Entered
<1> QED BY <1>1, Entries2 DEF TableMap

\* A map gives physical blocks.
LEMMA MapType ==
  ASSUME NEW n, NEW t \in IndexTables,
         \A a \in Area : TableOn(n, t.area[a].block) \in AreaTables(a)
  PROVE  TableMap(n, t) \in [LogBlock -> Phy]
<1> SUFFICES ASSUME NEW l \in LogBlock PROVE TableMap(n, t)[l] \in Phy
  BY DEF TableMap
<1>1. TableOn(n, t.area[AREA_INDEX(l)].block)[l] \in Entries
  BY AreaOf DEF AreaTables
<1>2. t.plr.log = l => t.plr.block \in Phy
  BY IndexTable, PlrLog, Geometry
<1> QED BY <1>1, <1>2, Entries2 DEF TableMap

\* The pages of a block and what a reader gets of them.
LEMMA HoldsNone == HoldsPages(<<>>, <<>>)
BY Geometry DEF HoldsPages

Programmed(s, p, pg) == IF p < Len(s) THEN [s EXCEPT ![p + 1] = pg] ELSE Append(s, pg)

\* A block after a program: one page more if the page was the next one.
LEMMA ProgrammedType ==
  ASSUME NEW s \in Seq(Pages), NEW p \in Nat, NEW pg \in Pages
  PROVE  /\ Programmed(s, p, pg) \in Seq(Pages) /\ Programmed(s, p, pg) # <<>>
         /\ p = Len(s) => /\ Len(Programmed(s, p, pg)) = Len(s) + 1
                          /\ Programmed(s, p, pg)[Len(s) + 1] = pg
<1> DEFINE u == Programmed(s, p, pg)
<1>1. CASE p < Len(s)
  <2>1. u = [s EXCEPT ![p + 1] = pg]
    BY <1>1 DEF Programmed
  <2>2. u \in Seq(Pages) /\ Len(u) = Len(s)
    BY <1>1, <2>1, ExceptSeq
  <2> QED BY <1>1, <2>2
<1>2. CASE ~(p < Len(s))
  <2>1. u = Append(s, pg)
    BY <1>2 DEF Programmed
  <2>2. u \in Seq(Pages) /\ Len(u) = Len(s) + 1 /\ u[Len(s) + 1] = pg
    BY <2>1
  <2> QED BY <2>2
<1> QED BY <1>1, <1>2

\* A program of data, a failed program and a copy, and what a reader then gets.
LEMMA HoldsAppend ==
  ASSUME NEW s \in Seq(Pages), NEW c \in Seq(Pages), HoldsPages(s, c), Len(c) < P,
         NEW pg \in Pages, pg.kind = "data"
  PROVE  HoldsPages(Programmed(s, Len(c), pg), Append(c, pg)) /\ Append(c, pg) \in Seq(Pages)
<1> DEFINE s2 == Programmed(s, Len(c), pg)
           c2 == Append(c, pg)
<1>1. Len(c) \in Nat /\ Len(s) \in Nat /\ Len(c) <= Len(s) /\ Len(s) <= P /\ P \in Nat
  BY Geometry DEF HoldsPages
<1>2. Len(c2) = Len(c) + 1 /\ c2 \in Seq(Pages) /\ c2[Len(c) + 1] = pg
      /\ \A i \in 1 .. Len(c) : c2[i] = c[i]
  OBVIOUS
<1>3. Len(s2) >= Len(c) + 1 /\ Len(s2) >= Len(s) /\ Len(s2) <= P /\ Len(s2) \in Nat
  BY <1>1 DEF Programmed
<1>4. s2[Len(c) + 1] = pg /\ \A i \in 1 .. Len(s) : i # Len(c) + 1 => s2[i] = s[i]
  BY <1>1 DEF Programmed
<1>5. Len(s2) = Len(s) \/ Len(s2) = Len(c) + 1
  BY <1>1 DEF Programmed
<1> HIDE DEF s2, c2
<1>6. \A i \in 1 .. Len(c2) : s2[i] = c2[i] /\ s2[i].kind = "data"
  BY <1>1, <1>2, <1>4 DEF HoldsPages
<1>7. \A i \in Len(c2) + 1 .. Len(s2) : s2[i].kind # "data"
  BY <1>1, <1>2, <1>3, <1>4, <1>5 DEF HoldsPages
<1> QED BY <1>2, <1>3, <1>6, <1>7 DEF HoldsPages, s2, c2

LEMMA HoldsOther ==
  ASSUME NEW s \in Seq(Pages), NEW c \in Seq(Pages), HoldsPages(s, c), Len(c) < P,
         NEW pg \in Pages, pg.kind # "data"
  PROVE  HoldsPages(Programmed(s, Len(c), pg), c)
<1> DEFINE s2 == Programmed(s, Len(c), pg)
<1>1. Len(c) \in Nat /\ Len(s) \in Nat /\ Len(c) <= Len(s) /\ Len(s) <= P /\ P \in Nat
  BY Geometry DEF HoldsPages
<1>2. Len(s2) >= Len(c) + 1 /\ Len(s2) >= Len(s) /\ Len(s2) <= P /\ Len(s2) \in Nat
  BY <1>1 DEF Programmed
<1>3. s2[Len(c) + 1] = pg /\ \A i \in 1 .. Len(s) : i # Len(c) + 1 => s2[i] = s[i]
  BY <1>1 DEF Programmed
<1>4. Len(s2) = Len(s) \/ Len(s2) = Len(c) + 1
  BY <1>1 DEF Programmed
<1> HIDE DEF s2
<1>5. \A i \in 1 .. Len(c) : s2[i] = c[i] /\ s2[i].kind = "data"
  BY <1>1, <1>3 DEF HoldsPages
<1>6. \A i \in Len(c) + 1 .. Len(s2) : s2[i].kind # "data"
  BY <1>1, <1>2, <1>3, <1>4 DEF HoldsPages
<1> QED BY <1>1, <1>2, <1>5, <1>6 DEF HoldsPages, s2

CopyOf(s, n) ==
  [i \in 1 .. n |-> IF i > Len(s) THEN BlankPage
                    ELSE IF s[i].kind = "bad" THEN StalePage ELSE s[i]]

LEMMA HoldsCopy ==
  ASSUME NEW s \in Seq(Pages), NEW c \in Seq(Pages), HoldsPages(s, c), NEW n \in {Len(c), P}
  PROVE  HoldsPages(CopyOf(s, n), c) /\ CopyOf(s, n) \in Seq(Pages)
<1> DEFINE u == CopyOf(s, n)
<1>1. Len(c) \in Nat /\ Len(s) \in Nat /\ Len(c) <= Len(s) /\ Len(s) <= P /\ P \in Nat /\ n \in Nat
      /\ Len(c) <= n /\ n <= P
  BY Geometry DEF HoldsPages
<1>2. BlankPage \in Pages /\ StalePage \in Pages /\ BlankPage.kind # "data" /\ StalePage.kind # "data"
  BY DEF Pages, BlankPage, StalePage
<1>3. u \in Seq(Pages) /\ Len(u) = n
  BY <1>1, <1>2 DEF CopyOf
<1>4. \A i \in 1 .. n : u[i] = IF i > Len(s) THEN BlankPage
                               ELSE IF s[i].kind = "bad" THEN StalePage ELSE s[i]
  BY DEF CopyOf
<1> HIDE DEF u
<1>5. \A i \in 1 .. Len(c) : u[i] = c[i] /\ u[i].kind = "data"
  BY <1>1, <1>4 DEF HoldsPages
<1>6. \A i \in Len(c) + 1 .. Len(u) : u[i].kind # "data"
  BY <1>1, <1>2, <1>3, <1>4 DEF HoldsPages
<1> QED BY <1>1, <1>3, <1>5, <1>6 DEF HoldsPages, u

\* A reader of the block gets exactly the pages it holds.
LEMMA HoldsStored ==
  ASSUME NEW b, NEW c \in Seq(Pages), nand[b] \in Seq(Pages), HoldsPages(nand[b], c)
  PROVE  Stored(b) = c
<1> DEFINE s == nand[b]
           n == CHOOSE i \in 0 .. Len(s) : IsStored(b, i)
<1>1. Len(c) \in Nat /\ Len(s) \in Nat /\ Len(c) <= Len(s)
  BY DEF HoldsPages
<1>2. IsStored(b, Len(c)) /\ Len(c) \in 0 .. Len(s)
  BY <1>1 DEF HoldsPages, IsStored
<1>3. n \in 0 .. Len(s) /\ IsStored(b, n)
  BY <1>2
<1>4. Stored(b) = SubSeq(s, 1, n)
  BY DEF Stored
<1> HIDE DEF n
<1>5. n = Len(c)
  <2>1. CASE n < Len(c)
    <3>1. n + 1 \in 1 .. Len(c) /\ n < Len(s)
      BY <1>1, <1>3, <2>1
    <3> QED BY <1>3, <3>1 DEF HoldsPages, IsStored
  <2>2. CASE n > Len(c)
    <3>1. Len(c) + 1 \in 1 .. n /\ Len(c) + 1 \in Len(c) + 1 .. Len(s)
      BY <1>1, <1>3, <2>2
    <3> QED BY <1>3, <3>1 DEF HoldsPages, IsStored
  <2> QED BY <1>1, <1>3, <2>1, <2>2
<1>6. SubSeq(s, 1, n) \in Seq(Pages) /\ Len(SubSeq(s, 1, n)) = n
      /\ \A i \in 1 .. n : SubSeq(s, 1, n)[i] = s[i]
  BY <1>1, <1>3
<1>7. \A i \in 1 .. n : SubSeq(s, 1, n)[i] = c[i]
  BY <1>5, <1>6 DEF HoldsPages
<1> QED BY <1>4, <1>5, <1>6, <1>7, SeqEqual

\* Handing a block over keeps the owners apart: g leaves the free blocks, the
\* block it takes the place of goes there.
LEMMA LayoutShrinks ==
  ASSUME NEW F, NEW F2, F2 \subseteq F, NEW ar, NEW ib, NEW m, Layout(F, ar, ib, m)
  PROVE  Layout(F2, ar, ib, m)
BY DEF Layout

LEMMA LayoutData ==
  ASSUME NEW F, NEW F2, NEW ar, NEW ib, NEW m, Layout(F, ar, ib, m), NEW l \in LogBlock, NEW g \in F,
         F2 \subseteq (F \ {g}) \cup {m[l]}, NEW m2, m2[l]
           = g, \A k \in LogBlock : k # l => m2[k] = m[k]
  PROVE  Layout(F2, ar, ib, m2)
BY DEF Layout

LEMMA LayoutArea ==
  ASSUME NEW F, NEW F2, NEW ar, NEW ib, NEW m, Layout(F, ar, ib, m), NEW a \in Area, NEW g \in F,
         F2 \subseteq (F \ {g}) \cup {ar[a].block}, NEW ar2, ar2[a].block = g,
         \A b \in Area : b # a => ar2[b] = ar[b]
  PROVE  Layout(F2, ar2, ib, m)
BY DEF Layout

LEMMA LayoutIndex ==
  ASSUME NEW F, NEW F2, NEW ar, NEW ib, NEW m, Layout(F, ar, ib, m), NEW g \in F,
         F2 \subseteq (F \ {g}) \cup {ib}
  PROVE  Layout(F2, ar, g, m)
BY DEF Layout
-----------------------------------------------------------------------------
(* The tables on flash *)

\* What the flash tables say when they are in order.
LEMMA FlashParts ==
  ASSUME NEW n \in Nands, NEW an \in Anchors, FlashTables(n, an)
  PROVE  /\ FI(n, an) \in IndexTables /\ FIB(n, an) \in Phy
         /\ FMap(n, an) \in [LogBlock -> Phy]
         /\ Needs(n, an) \subseteq Phy
         /\ FIB(n, an) \in Needs(n, an)
         /\ \A a \in Area : FI(n, an).area[a].block \in Needs(n, an)
         /\ \A l \in LogBlock : FMap(n, an)[l] \in Needs(n, an)
<1>1. an.new.block \in Phy /\ (an.old \in Entries => an.old.block \in Phy)
  BY Entries2 DEF Anchors
<1>2. FIB(n, an) \in Phy
  BY <1>1 DEF FIB, FlashTables
<1>3. FI(n, an) \in IndexTables
  BY DEF FlashTables
<1>4. \A a \in Area : FI(n, an).area[a].block \in Phy
  BY <1>3, IndexTable
<1>5. FMap(n, an) \in [LogBlock -> Phy]
  BY <1>3, MapType DEF FlashTables, HasArea, FMap
<1> QED BY <1>2, <1>3, <1>4, <1>5 DEF Needs

\* A change of blocks that flash does not need changes none of it.
LEMMA FlashFrame ==
  ASSUME FlashTables(nand, anchorFlash),
         \A x \in Needs(nand, anchorFlash) : nand'[x] = nand[x],
         nand'[anchorFlash.new.block] = <<>> <=> nand[anchorFlash.new.block] = <<>>
  PROVE  /\ FIB(nand', anchorFlash) = FIB(nand, anchorFlash)
            /\ FI(nand', anchorFlash) = FI(nand, anchorFlash)
               /\ FMap(nand', anchorFlash) = FMap(nand, anchorFlash)
         /\ Needs(nand', anchorFlash) = Needs(nand, anchorFlash) /\ FlashTables(nand', anchorFlash)
<1>1. FIB(nand, anchorFlash) \in Needs(nand, anchorFlash)
      /\ \A a \in Area : FI(nand, anchorFlash).area[a].block \in Needs(nand, anchorFlash)
  BY DEF Needs
<1>2. FIB(nand', anchorFlash) = FIB(nand, anchorFlash)
  BY DEF FIB
<1>3. FI(nand', anchorFlash) = FI(nand, anchorFlash)
      /\ nand'[FIB(nand', anchorFlash)] = nand[FIB(nand, anchorFlash)]
  BY <1>1, <1>2 DEF FI, TableOn
<1>4. FI(nand, anchorFlash) \in IndexTables
  BY DEF FlashTables
<1>5. FMap(nand', anchorFlash) = FMap(nand, anchorFlash)
  BY <1>1, <1>3, <1>4, MapFrame DEF FMap
<1>6. Needs(nand', anchorFlash) = Needs(nand, anchorFlash)
  BY <1>2, <1>3, <1>5 DEF Needs
<1>7. \A a \in Area : HasArea(nand', FI(nand', anchorFlash).area[a].block, a)
  BY <1>1, <1>3 DEF FlashTables, HasArea, TableOn
<1>8. FlashTables(nand', anchorFlash)
  BY <1>2, <1>3, <1>5, <1>7 DEF FlashTables
<1> QED BY <1>2, <1>3, <1>5, <1>6, <1>8

\* UBI_Init would find exactly these tables.
LEMMA FlashFound ==
  ASSUME Typed, FlashTables(nand, anchorFlash)
  PROVE  /\ FlashIndexBlock = FIB(nand, anchorFlash) /\ FlashIndex = FI(nand, anchorFlash)
         /\ \A l \in LogBlock : FlashMap(l) = FMap(nand, anchorFlash)[l]
         /\ FlashMountable /\ NeededByFlash = Needs(nand, anchorFlash) /\ IndexFound
         /\ TablePages(FIB(nand, anchorFlash)) = Len(nand[FIB(nand, anchorFlash)])
         /\ TablePages(anchorFlash.new.block) > 0 <=> nand[anchorFlash.new.block] # <<>>
<1> DEFINE n == nand
           an == anchorFlash
           ib == FIB(n, an)
           t == FI(n, an)
<1>1. n \in Nands /\ an \in Anchors
  BY DEF Typed, Nands
<1>2. an.new.block \in Phy
  BY <1>1, Entries2 DEF Anchors
<1>3. t \in IndexTables /\ ib \in Phy /\ \A a \in Area : t.area[a].block \in Phy
  BY <1>1, FlashParts, IndexTable
<1>4. ASSUME NEW b \in Phy, NEW k, k # "bad", LastIs(n[b], k)
      PROVE  TablePages(b) = Len(n[b]) /\ TablePages(b) > 0 /\ LastTable(b) = n[b][Len(n[b])]
             /\ LastTable(b).kind = k /\ LastTable(b).table = TableOn(n, b)
  <2>1. n[b] \in Seq(Pages)
    BY <1>1 DEF Nands
  <2>2. TablePages(b) = Len(n[b])
    BY <1>4, <2>1 DEF LastIs, TablePages
  <2> QED BY <1>4, <2>1, <2>2 DEF LastIs, TablePages, LastTable, TableOn
<1>5. TablePages(ib) = Len(n[ib]) /\ TablePages(ib) > 0 /\ LastTable(ib).kind = "index"
      /\ LastTable(ib).table = t
  BY <1>3, <1>4 DEF FlashTables, FI
<1>6. \A a \in Area : /\ TablePages(t.area[a].block) > 0
                      /\ LastTable(t.area[a].block).kind = "area"
                      /\ LastTable(t.area[a].block).table = TableOn(n, t.area[a].block)
  BY <1>3, <1>4 DEF FlashTables, HasArea
<1>7. TablePages(an.new.block) > 0 <=> n[an.new.block] # <<>>
  <2>1. CASE n[an.new.block] = <<>>
    BY <2>1 DEF TablePages
  <2>2. CASE n[an.new.block] # <<>>
    BY <2>2, <1>5 DEF FIB
  <2> QED BY <2>1, <2>2
<1>8. FlashIndexBlock = ib
  BY <1>7 DEF FlashIndexBlock, FIB
<1>9. FlashIndex = t
  BY <1>5, <1>8 DEF FlashIndex
<1>10. FlashMountable /\ IndexFound
  BY <1>3, <1>5, <1>6, <1>8, Geometry DEF FlashMountable, IndexFound
<1>11. \A l \in LogBlock : FlashMap(l) = FMap(n, an)[l]
  BY <1>6, <1>9, AreaOf DEF FlashMap, FMap, TableMap
<1>12. NeededByFlash = Needs(n, an)
  BY <1>8, <1>9, <1>10, <1>11 DEF NeededByFlash, Needs
<1> QED BY <1>5, <1>7, <1>8, <1>9, <1>10, <1>11, <1>12
=============================================================================

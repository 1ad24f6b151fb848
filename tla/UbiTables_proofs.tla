-------------------------- MODULE UbiTables_proofs --------------------------
(***************************************************************************)
(* Every step of UbiTables keeps UbiInv, one lemma per step, and what       *)
(* follows from it.                                                         *)
(***************************************************************************)
EXTENDS UbiInvariant
-----------------------------------------------------------------------------
(* What holds when a step is made *)

\* In the middle of a call: the step that is made is the one the plan says.
LEMMA AtStep ==
  ASSUME UbiInv, NEW s \in Steps, Step(s)
  PROVE  /\ powered /\ at = s /\ Ram /\ Refs /\ Typed /\ Faults
         /\ todo = Plan(s, local.op, full, cached_area_number)
<1>1. Head(<<"worn">>) = "worn"
  OBVIOUS
<1>2. "worn" \notin Steps
  BY DEF Steps, CallSteps, IndexSteps, CommitSteps
<1>3. powered /\ at = s /\ todo # <<"worn">>
  BY <1>1, <1>2 DEF Step, at, AtOf
<1> QED BY <1>3 DEF UbiInv, Ram, Stage

\* Between two calls.
LEMMA AtIdle ==
  ASSUME UbiInv, Idle
  PROVE  powered /\ at = "idle" /\ Ram /\ Refs /\ Typed /\ Faults /\ todo = <<>>
BY DEF UbiInv, Idle, at, AtOf

\* A call is counted.
LEMMA Counted == ASSUME Typed, ops < MaxOps, ops' = ops + 1 PROVE ops' \in 0 .. MaxOps
BY Geometry DEF Typed

\* The types of what the tables in RAM say.
LEMMA RamTypes ==
  ASSUME Ram, Typed
  PROVE  /\ nand \in Nands /\ index_table \in IndexTables /\ plr \in Plrs
         /\ index_block \in Entries /\ index_block.block \in Phy
         /\ index_table.area \in [Area -> Entries]
         /\ \A a \in Area : index_table.area[a] \in Entries /\ index_table.area[a].block \in Phy
         /\ TableOf(Phy, index_table.fbt) /\ FbtBlocks(index_table.fbt) \subseteq Phy
         /\ RamMap \in [LogBlock -> Phy]
         /\ local \in LocalVars /\ content \in [LogBlock -> Seq(Pages)]
         /\ \A b \in Phy : nand[b] \in Seq(Pages) /\ Len(nand[b]) \in Nat
<1>1. nand \in Nands /\ index_table \in IndexTables /\ index_block \in Entries
      /\ TableOf(Phy, index_table.fbt)
  BY DEF Ram, Owners, Typed, Nands
<1>2. /\ index_table.area \in [Area -> Entries] /\ plr \in Plrs
      /\ \A a \in Area : index_table.area[a] \in Entries /\ index_table.area[a].block \in Phy
  BY <1>1, IndexTable DEF plr
<1>3. FbtBlocks(index_table.fbt) \subseteq Phy /\ index_block.block \in Phy
  BY <1>1, BlocksOfTable, Geometry, Entries2
<1>4. RamMap \in [LogBlock -> Phy]
  <2>1. CASE ~NewArea
    BY <1>1, <2>1, MapType DEF Ram, AreaBlocks, RamMap, HasArea
  <2>2. CASE NewArea
    <3>1. Committing
      BY <2>2 DEF NewArea, Committing, CommitSteps
    <3>2. cached_area_table \in AreaTables(updated)
      BY <3>1 DEF Ram, Cache
    <3> SUFFICES ASSUME NEW l \in LogBlock
                 PROVE  CacheMap(nand, index_table, updated, cached_area_table)[l] \in Phy
      BY <2>2 DEF RamMap, CacheMap
    <3>3. AREA_INDEX(l) \in Area /\ l \in OfArea(AREA_INDEX(l))
      BY AreaOf
    <3>4. AREA_INDEX(l) = updated => cached_area_table[l] \in Entries
      BY <3>2, <3>3 DEF AreaTables
    <3>5. AREA_INDEX(l) # updated => TableOn(nand, index_table.area[AREA_INDEX(l)].block)[l] \in Entries
      BY <3>3 DEF Ram, AreaBlocks, HasArea, AreaTables
    <3>6. plr.log = l => plr.block \in Phy
      BY <1>2, PlrLog, Geometry
    <3> QED BY <3>4, <3>5, <3>6, Entries2 DEF CacheMap, plr
  <2> QED BY <2>1, <2>2
<1>5. /\ local \in LocalVars /\ content \in [LogBlock -> Seq(Pages)]
      /\ \A b \in Phy : nand[b] \in Seq(Pages) /\ Len(nand[b]) \in Nat
  BY DEF Typed
<1> QED BY <1>1, <1>2, <1>3, <1>4, <1>5

\* Between commits the area tables can be read through the cache.
LEMMA CacheRead ==
  ASSUME Ram, Typed, at \in CallSteps
  PROVE  /\ \A a \in Area : /\ AreaTable(a) = TableOn(nand, index_table.area[a].block)
                            /\ AreaTable(a) \in AreaTables(a)
         /\ \A l \in LogBlock : Mapped(l) \in Entries /\ Mapped(l).block = RamMap[l]
         /\ RamMap = TableMap(nand, index_table) /\ Entered(nand, index_table)
         /\ cached_area_number \in Area /\ ~mounting /\ ~Committing /\ ~NewArea /\ ~full
<1>1. IsApplied /\ ~Committing /\ ~NewArea /\ ~full
  BY DEF IsApplied, Committing, NewArea, CallSteps, CommitSteps, IndexSteps, Ram, Stage
<1>2. cached_area_number \in Area /\ ~mounting
      /\ cached_area_table = TableOn(nand, index_table.area[cached_area_number].block)
      /\ Entered(nand, index_table)
  BY <1>1, AreasNat DEF Ram, Cache, mounting
<1>3. \A a \in Area : HasArea(nand, index_table.area[a].block, a)
                      /\ area_offset_table[a] + 1 = Len(nand[index_table.area[a].block])
  BY <1>1, <1>2 DEF Ram, AreaBlocks
<1>4. \A a \in Area : /\ AreaTable(a) = TableOn(nand, index_table.area[a].block)
                      /\ AreaTable(a) \in AreaTables(a)
  BY <1>2, <1>3 DEF AreaTable, TableOn, HasArea
<1>5. RamMap = TableMap(nand, index_table)
  BY <1>1 DEF RamMap
<1>6. ASSUME NEW l \in LogBlock PROVE Mapped(l) \in Entries /\ Mapped(l).block = RamMap[l]
  <2>1. AREA_INDEX(l) \in Area /\ l \in OfArea(AREA_INDEX(l))
    BY AreaOf
  <2>2. Mapped(l) \in Entries
    BY <1>4, <2>1 DEF Mapped, AreaTables
  <2> QED BY <1>2, <1>4, <1>5, <2>1, <2>2, MapEntered, RamTypes DEF Mapped
<1> QED BY <1>1, <1>2, <1>4, <1>5, <1>6

\* The plans of a commit begin with their step.
LEMMA PlanFirst ==
  ASSUME NEW op, NEW f, NEW c
  PROVE  /\ AtOf(Plan("getArea", op, f, c)) = "getArea"
         /\ AtOf(Plan("areaUse", op, f, c)) = "areaUse"
         /\ f \/ c # NONE => AtOf(Plan("areaWrite", op, f, c)) = "areaWrite"
         /\ AtOf(Plan("indexUpdate", op, f, c)) = "indexUpdate"
         /\ AtOf(Plan("getIndex", op, f, c)) = "getIndex"
         /\ AtOf(Plan("anchorWrite", op, f, c)) = "anchorWrite"
         /\ AtOf(Plan("indexWrite", op, f, c)) = "indexWrite"
         /\ AtOf(Plan("commitDone", op, f, c)) = "commitDone"
         /\ AtOf(Plan("mountAreas", op, f, c)) = "mountAreas"
<1>1. {"getArea", "areaUse", "areaWrite", "indexUpdate", "getIndex", "anchorWrite", "indexWrite",
       "commitDone", "mountAreas"} \subseteq Steps
  BY DEF Steps, CommitSteps, IndexSteps
<1>2. ASSUME NEW s \in Steps, s # "areaWrite" PROVE AtOf(Plan(s, op, f, c)) = s
  BY <1>2, PlanHeads
<1>3. ASSUME f \/ c # NONE PROVE AtOf(Plan("areaWrite", op, f, c)) = "areaWrite"
  <2>1. "areaWrite" \in Steps
    BY <1>1
  <2> QED BY <1>3, <2>1, PlanHeads
<1> QED BY <1>1, <1>2, <1>3

LEMMA PairIs == ASSUME NEW x, NEW y PROVE <<x, y>> = <<x>> \o <<y>>
<1> DEFINE S == {x, y}
<1>1. <<>> \in Seq(S) /\ <<x, y>> \in Seq(S) /\ <<y>> \in Seq(S) /\ x \in S /\ y \in S
  OBVIOUS
<1> HIDE DEF S
<1>2. <<x, y>> \o <<>> = <<x, y>> /\ <<y>> \o <<>> = <<y>>
  BY <1>1, EmptyCat
<1>3. <<x, y>> \o <<>> = <<x>> \o (<<y>> \o <<>>)
  BY <1>1, PairCat
<1> QED BY <1>2, <1>3

\* Entering a new block for a logical block: the map changes there only.
LEMMA MapRedirected ==
  ASSUME NEW n, NEW t \in IndexTables, Entered(n, t), NEW l \in LogBlock, NEW u, u.area = t.area,
         u.plr.log = l
  PROVE  /\ TableMap(n, u)[l] = u.plr.block
         /\ \A k \in LogBlock : k # l => TableMap(n, u)[k] = TableMap(n, t)[k]
<1>1. \A k \in LogBlock : k # l =>
        TableMap(n, u)[k] = TableOn(n, t.area[AREA_INDEX(k)].block)[k].block
  BY DEF TableMap
<1>2. TableMap(n, u)[l] = u.plr.block
  BY DEF TableMap
<1> QED BY <1>1, <1>2, MapEntered

-----------------------------------------------------------------------------
(* What a step leaves alone *)

\* Flash says where every block is: it was not clobbered, or a commit has just
\* written the index.
Intact == ~clobbered \/ (powered /\ IsSettled)

\* The blocks that the tables in RAM refer to, besides the free ones.
Referred == TableBlocks \cup {RamMap[l] : l \in LogBlock}

RefsKept == Referred' = Referred /\ InFlight' = InFlight
FlashKept ==
  Intact' => /\ Intact
             /\ FIB(nand', anchorFlash') = FIB(nand, anchorFlash)
             /\ FI(nand', anchorFlash') = FI(nand, anchorFlash)
             /\ FMap(nand', anchorFlash') = FMap(nand, anchorFlash)

\* The block in flight is referred to in place of x, which is put back.
TakesOver(x) ==
  /\ InFlight = {local.got.block} /\ InFlight' = {}
  /\ x.block \in Phy /\ x.ec \in Nat /\ x.block \notin FbtBlocks(index_table.fbt)
  /\ index_table'.fbt = FbtPut(index_table.fbt, x.block, x.ec)
  /\ Referred \subseteq Referred' \cup {x.block} /\ local.got.block \in Referred'

\* UBI_SWL: the worn block is referred to in place of the other, which takes its
\* place in the table.
Swaps ==
  /\ InFlight = {} /\ InFlight' = {}
  /\ local.from.block \in Phy /\ local.from.ec \in Nat
  /\ local.from.block \notin FbtBlocks(index_table.fbt)
  /\ MaxEcSlot(index_table.fbt) > 0
  /\ local.got = index_table.fbt[MaxEcSlot(index_table.fbt)]
  /\ local.got.ec > local.from.ec /\ local.got.ec - local.from.ec > Threshold
  /\ index_table'.fbt = FbtSwap(index_table.fbt, local.from.block, local.from.ec, Threshold)
  /\ Referred \subseteq Referred' \cup {local.from.block} /\ local.got.block \in Referred'

\* UBI_Erase puts the old block back and logs the new one.
LEMMA EraseUseKeeps ==
  ASSUME UbiInv, EraseUse
  PROVE  UbiInv' /\ FlashKept /\ TakesOver(Mapped(local.log))
<1> DEFINE l == local.log
           g == local.got
           e == Mapped(l)
           F == FbtBlocks(index_table.fbt)
           f2 == FbtPut(index_table.fbt, e.block, e.ec)
<1>1. /\ powered /\ at = "eraseUse" /\ Ram /\ Refs /\ Typed /\ Faults
      /\ todo = Plan("eraseUse", local.op, full, cached_area_number)
  BY AtStep DEF EraseUse, Steps, CallSteps
<1>2. at \in CallSteps /\ Holding /\ InFlight = {g.block} /\ IsSettled
  BY <1>1 DEF CallSteps, Holding, InFlight, IsSettled
<1>3. local.op = "erase" /\ l \in LogBlock /\ g \in Entries /\ g.block \in Phy
  BY <1>1, <1>2, Entries2 DEF Ram, Locals, Owners
<1>4. g.block \notin F /\ Layout(F \cup {g.block}, index_table.area, index_block.block, RamMap)
  BY <1>1, <1>2 DEF Ram, Owners
<1>5. /\ e \in Entries /\ e.block = RamMap[l] /\ e.block \in Phy /\ e.ec \in Nat
      /\ RamMap = TableMap(nand, index_table) /\ Entered(nand, index_table)
      /\ cached_area_number \in Area /\ ~full /\ ~NewArea
      /\ \A a \in Area : /\ AreaTable(a) = TableOn(nand, index_table.area[a].block)
                         /\ AreaTable(a) \in AreaTables(a)
  BY <1>1, <1>2, <1>3, CacheRead, Entries2
<1>6. TableOf(Phy, f2) /\ FbtBlocks(f2) \subseteq F \cup {e.block}
  <2>1. e.block \notin F
    BY <1>3, <1>4, <1>5 DEF Layout
  <2> QED BY <1>1, <1>5, <2>1, PutAdds, Geometry, RamTypes
<1>7. /\ index_table' \in IndexTables /\ index_table'.fbt = f2
      /\ index_table'.area = index_table.area /\ plr'.log = l /\ plr'.block = g.block
  <2> DEFINE t == PutBack(index_table, e)
  <2>1. t \in IndexTables /\ t.fbt = f2 /\ t.area = index_table.area
    BY <1>1, <1>6, WithFbt, RamTypes DEF PutBack
  <2>2. index_table' = WithPlr(t, l, g)
    BY DEF EraseUse
  <2> HIDE DEF t, f2
  <2> QED BY <1>3, <2>1, <2>2, WithPlrTable DEF plr
<1>8. /\ UNCHANGED <<flashVars, anchor_table, index_block, index_next_page, area_offset_table,
                     local, powered, content, clobbered, ops, campaign>>
      /\ todo' = <<"commit">>
      /\ cached_area_number' = AREA_INDEX(l) /\ cached_area_table' = AreaTable(AREA_INDEX(l))
  BY DEF EraseUse, ReadArea, history, faults
<1>9. /\ at' = "commit" /\ ~mounting' /\ ~full' /\ updated' = AREA_INDEX(l) /\ AREA_INDEX(l) \in Area
  BY <1>3, <1>5, <1>7, <1>8, AreaOf, AreasNat DEF at, AtOf, mounting, full, updated
<1>10. /\ Committing' /\ ~IsApplied' /\ ~NewArea' /\ ~Holding' /\ ~IsSettled' /\ InFlight' = {}
  BY <1>9 DEF Committing, IsApplied, NewArea, Holding, IsSettled, InFlight, CallSteps, IndexSteps,
              CommitSteps
<1>11. /\ RamMap' = TableMap(nand, index_table') /\ RamMap'[l] = g.block
       /\ \A k \in LogBlock : k # l => RamMap'[k] = RamMap[k]
  <2>1. RamMap' = TableMap(nand, index_table')
    BY <1>8, <1>10 DEF RamMap, flashVars
  <2> QED BY <1>1, <1>3, <1>5, <1>7, <2>1, MapRedirected, RamTypes DEF plr
<1>12. Stage'
  <2>1. todo' = Plan("commit", local'.op, full', cached_area_number')
    <3>1. <<"commit">> \o <<>> = <<"commit">>
      BY EmptyCat
    <3> QED BY <1>3, <1>8, <3>1 DEF Plan, EndOf
  <2> QED BY <1>9, <2>1 DEF Stage, Steps, CommitSteps
<1>13. Owners'
  <2>1. Layout(FbtBlocks(f2), index_table.area, index_block.block, RamMap')
    <3> DEFINE F2 == FbtBlocks(f2)
               F1 == F \cup {g.block}
               ar == index_table.area
               m2 == RamMap'
               m == RamMap
               ib == index_block.block
               x == g.block
    <3>1. /\ F2 \subseteq (F1 \ {x}) \cup {m[l]} /\ m2[l] = x /\ x \in F1
          /\ \A k \in LogBlock : k # l => m2[k] = m[k]
          /\ Layout(F1, ar, ib, m) /\ l \in LogBlock
      BY <1>3, <1>4, <1>5, <1>6, <1>11
    <3> HIDE DEF F2, F1, ar, m2, m, ib, l, x
    <3>2. Layout(F2, ar, ib, m2)
      BY ONLY <3>1 DEF Layout
    <3> QED BY <3>2 DEF F2, ar, m2, ib
  <2> QED BY <1>1, <1>6, <1>7, <1>8, <1>10, <2>1 DEF Ram, Owners
<1>14. AreaBlocks'
  BY <1>1, <1>3, <1>5, <1>7, <1>8, <1>9, <1>10, AreasNat
     DEF Ram, AreaBlocks, mounting, flashVars, HasArea, IndexSteps
<1>15. Cache'
  BY <1>5, <1>7, <1>8, <1>9, <1>10 DEF Cache, flashVars
<1>16. IndexBlock'
  BY <1>1, <1>8, <1>9 DEF Ram, IndexBlock, flashVars
<1>17. RamData'
  <2>1. HoldsPages(nand[g.block], <<>>)
    BY <1>1, <1>2, HoldsNone DEF Ram, Owners
  <2>2. ~Committing
    BY <1>1 DEF Committing, CommitSteps, IndexSteps
  <2>3. \A k \in LogBlock : k # l => HoldsPages(nand[RamMap[k]], content[k])
    BY <1>1, <2>2 DEF Ram, RamData, Target
  <2> QED BY <1>3, <1>8, <1>10, <1>11, <2>1, <2>3 DEF RamData, Target, flashVars
<1>18. Locals'
  BY <1>3, <1>7, <1>8, <1>9, <1>10 DEF Locals, IndexSteps
<1>19. Refs'
  <2>1. anchorFlash.new.block = index_block.block
    BY <1>1 DEF Refs
  <2> QED BY <1>8, <1>9, <1>10, <2>1 DEF Refs, CallSteps, flashVars
<1>20. Typed' /\ Faults'
  BY <1>1, <1>8 DEF Typed, Faults, flashVars
<1>21. FlashTables(nand, anchorFlash) /\ FlashData
  BY <1>1, <1>2 DEF UbiInv
<1>22. FlashTables(nand', anchorFlash') /\ FlashData'
  BY <1>1, <1>8, <1>9, <1>21 DEF FlashData, FlashTarget, Erased, flashVars
<1>23. UbiInv'
  BY <1>1, <1>8, <1>12, <1>13, <1>14, <1>15, <1>16, <1>17, <1>18, <1>19, <1>20, <1>22
     DEF UbiInv, Ram
<1>24. FlashKept
  BY <1>8, <1>10 DEF FlashKept, Intact, flashVars
<1>25. TakesOver(e)
  <2>1. Referred \subseteq Referred' \cup {e.block} /\ g.block \in Referred'
    BY <1>3, <1>5, <1>7, <1>8, <1>11 DEF Referred, TableBlocks
  <2>2. e.block \notin F
    BY <1>3, <1>4, <1>5 DEF Layout
  <2> QED BY <1>2, <1>5, <1>7, <1>10, <2>1, <2>2 DEF TakesOver
<1> QED BY <1>23, <1>24, <1>25
-----------------------------------------------------------------------------
(* Steps between commits that change no table *)

\* A step that changes only the cache and the local variables.
LEMMA QuietKeeps ==
  ASSUME UbiInv, powered, Ram, Refs, at \in CallSteps, at' \in CallSteps, ~Holding, ~Holding',
         UNCHANGED <<flashVars, index_table, index_block, index_next_page, area_offset_table,
                     powered, content, clobbered>>,
         cached_area_number' \in Area, cached_area_table' = AreaTable(cached_area_number'),
         anchor_table' \in Anchors, Stage', Locals', Typed', Faults'
  PROVE  UbiInv' /\ RefsKept /\ FlashKept
<1>1. Typed
  BY DEF UbiInv
<1>2. /\ RamMap = TableMap(nand, index_table) /\ Entered(nand, index_table) /\ ~NewArea /\ ~Committing
      /\ ~mounting
      /\ \A a \in Area : AreaTable(a) = TableOn(nand, index_table.area[a].block)
  BY <1>1, CacheRead
<1>3. ~Committing' /\ ~NewArea' /\ IsSettled' /\ InFlight' = {} /\ InFlight = {} /\ ~mounting'
      /\ IsSettled
  BY AreasNat DEF Committing, NewArea, IsSettled, InFlight, CallSteps, CommitSteps, IndexSteps,
     mounting
<1>4. RamMap' = RamMap
  BY <1>2, <1>3 DEF RamMap, flashVars
<1>5. Owners'
  BY <1>3, <1>4 DEF Ram, Owners
<1>6. AreaBlocks'
  BY <1>2, <1>3 DEF Ram, AreaBlocks, flashVars, HasArea
<1>7. Cache'
  BY <1>2, <1>3 DEF Cache, flashVars
<1>8. IndexBlock'
  BY DEF Ram, IndexBlock, flashVars, CallSteps
<1>9. RamData'
  BY <1>2, <1>3, <1>4 DEF Ram, RamData, Target, flashVars
<1>10. ~clobbered /\ SameRefs /\ anchorFlash.new.block = index_block.block
  BY <1>2, <1>3 DEF Refs
<1>11. Refs'
  BY <1>3, <1>10 DEF Refs, SameRefs, flashVars, CallSteps
<1>12. FlashTables(nand, anchorFlash)
  BY <1>10 DEF UbiInv
<1>13. FMap(nand, anchorFlash) = RamMap
  BY <1>2, <1>10, MapRefs DEF FMap, SameRefs
<1>14. FlashData'
  BY <1>2, <1>3, <1>13 DEF FlashData, FlashTarget, Erased, Ram, RamData, Target, Committing,
     CommitSteps,
     flashVars
<1>15. UbiInv'
  BY <1>5, <1>6, <1>7, <1>8, <1>9, <1>11, <1>12, <1>14 DEF UbiInv, Ram, flashVars
<1>16. Referred' = Referred /\ InFlight' = InFlight
  BY <1>3, <1>4 DEF Referred, TableBlocks
<1>17. RefsKept /\ FlashKept
  BY <1>10, <1>16 DEF RefsKept, FlashKept, Intact, flashVars
<1> QED BY <1>15, <1>16, <1>17

\* The end of a call.
LEMMA CallEnded ==
  ASSUME todo' = <<>>, local' = NoLocal, cached_area_number' \in Area
  PROVE  /\ at' = "idle" /\ at' \in CallSteps /\ ~Holding' /\ Stage' /\ Locals'
         /\ ~mounting' /\ ~full' /\ ~NewArea' /\ ~Committing' /\ IsApplied' /\ IsSettled'
         /\ InFlight' = {}
<1>1. at' = "idle" /\ ~mounting' /\ ~full'
  BY AreasNat DEF at, AtOf, mounting, full, NoLocal
<1>2. /\ ~Holding' /\ ~NewArea' /\ ~Committing' /\ IsApplied' /\ IsSettled' /\ InFlight' = {}
      /\ at' \in CallSteps
  BY <1>1 DEF Holding, NewArea, Committing, IsApplied, IsSettled, InFlight, CallSteps, CommitSteps,
     IndexSteps
<1>3. Stage'
  BY <1>1, <1>2 DEF Stage, Plan, Steps
<1>4. Locals'
  BY <1>1, <1>2 DEF Locals, NoLocal, IndexSteps
<1> QED BY <1>1, <1>2, <1>3, <1>4

\* UBI_Read changes the cached area table only.
LEMMA UbiReadKeeps ==
  ASSUME UbiInv, NEW l \in LogBlock, UbiRead(l)
  PROVE  UbiInv' /\ RefsKept /\ FlashKept
<1>1. powered /\ at = "idle" /\ Ram /\ Refs /\ Typed /\ Faults /\ todo = <<>>
  BY AtIdle DEF UbiRead
<1>2. /\ UNCHANGED <<flashVars, index_table, index_block, index_next_page, area_offset_table,
                     powered, content, clobbered, anchor_table, todo, local, ops, campaign>>
      /\ cached_area_number' = AREA_INDEX(l) /\ cached_area_table' = AreaTable(AREA_INDEX(l))
  BY DEF UbiRead, ReadArea, indexVars, history, faults
<1>3. at \in CallSteps /\ ~Holding /\ cached_area_number' \in Area /\ local' = NoLocal
      /\ anchor_table' \in Anchors
  BY <1>1, <1>2, AreaOf DEF CallSteps, Holding, Ram, Locals, Owners
<1>4. Typed' /\ Faults'
  BY <1>1, <1>2 DEF Typed, Faults, flashVars
<1> QED BY <1>1, <1>2, <1>3, <1>4, CallEnded, QuietKeeps

\* AREA_Init of the areas after the one redone.
LEMMA MountRestKeeps ==
  ASSUME UbiInv, MountRest
  PROVE  UbiInv' /\ RefsKept /\ FlashKept
<1>1. powered /\ at = "mountRest" /\ Ram /\ Refs /\ Typed /\ Faults
  BY AtStep DEF MountRest, Steps, CallSteps
<1>2. /\ UNCHANGED <<flashVars, index_table, index_block, index_next_page, area_offset_table,
                     powered, content, clobbered, anchor_table, ops, campaign>>
      /\ cached_area_number' = LastArea /\ cached_area_table' = AreaTable(LastArea)
      /\ todo' = <<>> /\ local' = NoLocal
  BY DEF MountRest, ReadArea, indexVars, history, faults
<1>3. at \in CallSteps /\ ~Holding /\ cached_area_number' \in Area /\ anchor_table' \in Anchors
  BY <1>1, <1>2, AreasNat DEF CallSteps, Holding, Ram, Owners
<1>4. Typed' /\ Faults'
  BY <1>1, <1>2, NoLocalType DEF Typed, Faults, flashVars
<1> QED BY <1>1, <1>2, <1>3, <1>4, CallEnded, QuietKeeps

\* UBI_Erase begins; nothing is changed yet.
LEMMA UbiEraseKeeps ==
  ASSUME UbiInv, NEW l \in LogBlock, UbiErase(l)
  PROVE  UbiInv' /\ RefsKept /\ FlashKept
<1>1. powered /\ at = "idle" /\ Ram /\ Refs /\ Typed /\ Faults /\ todo = <<>>
  BY AtIdle DEF UbiErase, Calling
<1>2. /\ UNCHANGED <<flashVars, index_table, index_block, index_next_page, area_offset_table,
                     powered, content, clobbered, anchor_table, campaign, cached_area_number,
                     cached_area_table>>
      /\ todo' = <<"getErase", "eraseUse">> /\ local' = [NoLocal EXCEPT !.op = "erase", !.log = l]
      /\ ops' = ops + 1 /\ ops < MaxOps
  BY DEF UbiErase, Calling, ramVars, indexVars, areaVars, history, faults
<1>3. local' \in LocalVars /\ local'.op = "erase" /\ local'.log = l /\ ~full'
  BY <1>2, NoLocalType DEF LocalVars, NoLocal, full, Ops
<1>4. at' = "getErase" /\ at \in CallSteps /\ at' \in CallSteps /\ ~Holding /\ ~Holding'
  BY <1>1, <1>2 DEF at, AtOf, CallSteps, Holding
<1>5. cached_area_number \in Area /\ ~mounting' /\ anchor_table' \in Anchors
      /\ cached_area_table' = AreaTable(cached_area_number')
  BY <1>1, <1>2, <1>4, CacheRead DEF mounting, Ram, Owners, AreaTable
<1>6. Stage'
  BY <1>2, <1>3, <1>4, <1>5 DEF Stage, Plan, Steps
<1>7. Locals'
  BY <1>3, <1>4 DEF Locals, Committing, CommitSteps, IndexSteps
<1>8. Typed' /\ Faults'
  BY <1>1, <1>2, <1>3, Counted DEF Typed, Faults, flashVars
<1> QED BY <1>1, <1>2, <1>4, <1>5, <1>6, <1>7, <1>8, QuietKeeps

\* AREA_FindMinECBlock finds a block.
LEMMA MinEcFound ==
  ASSUME NEW a \in Area, AreaTable(a) \in AreaTables(a)
  PROVE  MinEcOf(a) \in OfArea(a)
<1> DEFINE t == AreaTable(a)
           E == {t[l].ec : l \in OfArea(a)}
<1>1. \A l \in OfArea(a) : t[l].ec \in Nat /\ l \in Nat
  BY AreasNat, Geometry, Entries2 DEF AreaTables
<1>2. E \in SUBSET Nat /\ E # {}
  <2>1. OfArea(a) # {}
    BY AreaOf DEF Area
  <2> QED BY <1>1, <2>1
<1> HIDE DEF t
<1>3. PICK e \in E : IsSmallest(e, E)
  BY <1>2, HasSmallest
<1> DEFINE L == {l \in OfArea(a) : t[l].ec = e}
<1>4. L \in SUBSET Nat /\ L # {}
  BY <1>1
<1>5. PICK l \in L : IsSmallest(l, L)
  BY <1>4, HasSmallest
<1>6. l \in OfArea(a) /\ \A k \in OfArea(a) : t[l].ec < t[k].ec \/ (t[l].ec = t[k].ec /\ l <= k)
  BY <1>1, <1>3, <1>5 DEF IsSmallest
<1> QED BY <1>6 DEF MinEcOf, t

\* INDEX_FreeBlock_GetMaxECBlock names a free block.
LEMMA MaxEcFound ==
  ASSUME NEW t, TableOf(Phy, t), UsedSlots(t) # {}
  PROVE  /\ MaxEcSlot(t) > 0 /\ MaxEcSlot(t) \in Slots /\ t[MaxEcSlot(t)] \in Entries
         /\ t[MaxEcSlot(t)].block \in FbtBlocks(t)
<1> DEFINE U == UsedSlots(t)
<1>1. U # {} /\ U \subseteq Slots \ {0} /\ FREE_BLOCK_COUNT - 1 \in Nat
      /\ U \in SUBSET (0 .. FREE_BLOCK_COUNT - 1)
  BY FbtAssumption DEF UsedSlots, Slots
<1>2. \E i \in U : IsLargest(i, U)
  <2> HIDE DEF U
  <2> QED BY <1>1, HasLargest
<1>3. MaxEcSlot(t) \in U
  BY <1>1, <1>2 DEF MaxEcSlot
<1>4. MaxEcSlot(t) > 0 /\ MaxEcSlot(t) \in Slots /\ t[MaxEcSlot(t)].ec # INVALID_EC
  BY <1>3, FbtAssumption DEF UsedSlots, Slots
<1> QED BY <1>4, TableEntry, Geometry DEF Entries

\* UBI_SWL picks the two blocks to swap, or goes on to the next area.
LEMMA UbiSwlKeeps ==
  ASSUME UbiInv, UbiSwl
  PROVE  UbiInv' /\ RefsKept /\ FlashKept
<1> DEFINE a == anchor_table.swl_current_area
           l == MinEcOf(a)
           min == AreaTable(a)[l]
           max == index_table.fbt[MaxEcSlot(index_table.fbt)]
<1>1. powered /\ at = "idle" /\ Ram /\ Refs /\ Typed /\ Faults /\ todo = <<>>
  BY AtIdle DEF UbiSwl, Calling
<1>2. /\ UNCHANGED <<flashVars, index_table, index_block, index_next_page, area_offset_table,
                     powered, content, clobbered, campaign>>
      /\ cached_area_number' = a /\ cached_area_table' = AreaTable(a) /\ ops' = ops + 1 /\ ops < MaxOps
      /\ UsedSlots(index_table.fbt) # {}
  BY DEF UbiSwl, Calling, ReadArea, indexVars, history, faults
<1>3. at \in CallSteps /\ ~Holding /\ anchor_table \in Anchors /\ a \in Area /\ local = NoLocal
  BY <1>1 DEF CallSteps, Holding, Ram, Owners, Anchors, Locals
<1>4. \/ /\ max.ec > min.ec /\ max.ec - min.ec > Threshold /\ todo' = <<"swlErase">>
         /\ local' = [NoLocal EXCEPT !.op = "swl", !.log = l, !.from = min, !.got = max]
         /\ anchor_table' = anchor_table
      \/ /\ anchor_table' = [anchor_table EXCEPT !.swl_current_area = (a + 1) % Cardinality(Area)]
         /\ todo' = <<>> /\ local' = NoLocal
  BY <1>1, <1>3 DEF UbiSwl
<1>5. CASE todo' = <<>> /\ local' = NoLocal
           /\ anchor_table' = [anchor_table EXCEPT !.swl_current_area = (a + 1) % Cardinality(Area)]
  <2>1. anchor_table' \in Anchors
    BY <1>3, <1>5, NextArea DEF Anchors
  <2>2. Typed' /\ Faults'
    BY <1>1, <1>2, <1>5, Counted, NoLocalType DEF Typed, Faults, flashVars
  <2> QED BY <1>1, <1>2, <1>3, <1>5, <2>1, <2>2, CallEnded, QuietKeeps
<1>6. CASE /\ max.ec > min.ec /\ max.ec - min.ec > Threshold /\ todo' = <<"swlErase">>
           /\ local' = [NoLocal EXCEPT !.op = "swl", !.log = l, !.from = min, !.got = max]
           /\ anchor_table' = anchor_table
  <2>1. /\ \A b \in Area : AreaTable(b) = TableOn(nand, index_table.area[b].block)
                            /\ AreaTable(b) \in AreaTables(b)
        /\ \A k \in LogBlock : Mapped(k) \in Entries /\ Mapped(k).block = RamMap[k]
        /\ RamMap = TableMap(nand, index_table)
    BY <1>1, <1>3, CacheRead
  <2>2. l \in OfArea(a) /\ l \in LogBlock /\ AREA_INDEX(l) = a
    BY <1>3, <2>1, MinEcFound, AreasNat
  <2>3. min \in Entries /\ min.block = RamMap[l]
    BY <2>1, <2>2 DEF Mapped
  <2>4. max \in Entries /\ MaxEcSlot(index_table.fbt) > 0
    BY <1>1, <1>2, MaxEcFound DEF Ram, Owners
  <2> HIDE DEF l, min, max
  <2>5. /\ local' \in LocalVars /\ local'.op = "swl" /\ local'.log = l /\ local'.from = min
        /\ local'.got = max /\ ~full'
    BY <1>6, <2>2, <2>3, <2>4, NoLocalType DEF LocalVars, NoLocal, full, Ops
  <2>6. at' = "swlErase" /\ at' \in CallSteps /\ ~Holding' /\ ~mounting'
    BY <1>2, <1>3, <1>6, AreasNat DEF at, AtOf, CallSteps, Holding, mounting
  <2>7. ~Committing' /\ ~NewArea' /\ RamMap' = RamMap
    BY <1>2, <2>1, <2>6 DEF Committing, NewArea, CommitSteps, IndexSteps, RamMap, flashVars
  <2>8. Stage'
    BY <1>6, <2>5, <2>6 DEF Stage, Plan, Steps, CallSteps
  <2>9. Locals'
    BY <1>2, <1>6, <2>2, <2>3, <2>4, <2>5, <2>6, <2>7 DEF Locals, IndexSteps, max
  <2>10. Typed' /\ Faults'
    BY <1>1, <1>2, <2>5, Counted DEF Typed, Faults, flashVars
  <2> QED BY <1>1, <1>2, <1>3, <1>6, <2>6, <2>8, <2>9, <2>10, QuietKeeps
<1> QED BY <1>4, <1>5, <1>6
-----------------------------------------------------------------------------
(* INDEX_FreeBlock_Get *)

\* When flash has the references of RAM, it needs none of the free blocks.
LEMMA SettledNeeds ==
  ASSUME Ram, Refs, IsSettled
  PROVE  /\ SameRefs /\ ~NewArea /\ FMap(nand, anchorFlash) = RamMap
         /\ FbtBlocks(index_table.fbt) \cap Needs(nand, anchorFlash) = {}
<1>1. SameRefs /\ ~NewArea
  BY DEF Refs, IsSettled, NewArea, CallSteps
<1>2. FMap(nand, anchorFlash) = RamMap
  BY <1>1, MapRefs DEF FMap, SameRefs, RamMap
<1> QED BY <1>1, <1>2 DEF Needs, SameRefs, Ram, Owners, Layout

\* The block that INDEX_FreeBlock_Get would hand out is a free one.
LEMMA CandidateFound ==
  ASSUME Ram, Typed, Candidate.block # INVALID_BLOCK
  PROVE  /\ Candidate \in Entries /\ Candidate.block \in FbtBlocks(index_table.fbt)
         /\ Candidate.block \in Phy
         /\ Taken \in IndexTables /\ Taken.area = index_table.area /\ Taken.plr = index_table.plr
         /\ TableOf(Phy, Taken.fbt)
         /\ FbtBlocks(Taken.fbt) \subseteq FbtBlocks(index_table.fbt) \ {Candidate.block}
<1> DEFINE t == index_table.fbt
           s == PickSlot(t, WantedDie)
<1>1. TableOf(Phy, t) /\ index_table \in IndexTables
  BY RamTypes
<1>2. s \in Slots
  BY PickSlotInTable
<1>3. Candidate = t[s] /\ Taken = [index_table EXCEPT !.fbt = FbtRemove(t, s)]
  BY DEF Candidate, Taken
<1> HIDE DEF s, t
<1>4. Candidate \in Entries /\ Candidate.block \in FbtBlocks(t) /\ Candidate.block \in Phy
  BY <1>1, <1>2, <1>3, TableEntry, Geometry DEF Entries
<1>5. TableOf(Phy, FbtRemove(t, s))
      /\ FbtBlocks(FbtRemove(t, s)) \subseteq FbtBlocks(t) \ {Candidate.block}
  BY <1>1, <1>2, <1>3, RemoveTakes, Geometry
<1>6. /\ Taken \in IndexTables /\ Taken.area = index_table.area /\ Taken.plr = index_table.plr
      /\ Taken.fbt = FbtRemove(t, s)
  BY <1>1, <1>3, <1>5, WithFbt
<1> QED BY <1>4, <1>5, <1>6 DEF t

GetSteps == {"getErase", "getArea", "getIndex", "getReclaim"}
AfterGet(s) ==
  CASE s = "getErase" -> "eraseUse" [] s = "getReclaim" -> "copy"
    [] s = "getArea" -> "areaUse" [] s = "getIndex" -> "anchorWrite"

\* The four calls of INDEX_FreeBlock_Get and what they have in common.
LEMMA AtGet ==
  ASSUME UbiInv, Getting
  PROVE  /\ powered /\ at \in GetSteps /\ Ram /\ Refs /\ Typed /\ Faults
         /\ todo = Plan(at, local.op, full, cached_area_number)
<1>1. \E s \in Steps : Step(s) /\ s \in GetSteps
  BY DEF Getting, Step, GetSteps, Steps, CallSteps, IndexSteps, CommitSteps
<1> QED BY <1>1, AtStep

\* The block that is taken is needed by nobody in RAM; when flash agrees with
\* RAM, flash does not need it either.
LEMMA CandidateUnused ==
  ASSUME UbiInv, powered, at \in GetSteps, Ram, Refs, Typed, Candidate.block # INVALID_BLOCK,
         Erasing(Candidate.block)
  PROVE  /\ ~clobbered' => ~clobbered /\ FlashTables(nand, anchorFlash) /\ FlashData
                           /\ Candidate.block \notin Needs(nand, anchorFlash)
         /\ IsSettled => ~clobbered'
         /\ clobbered' \in BOOLEAN
         /\ Candidate.block # index_block.block
         /\ \A a \in Area : Candidate.block # index_table.area[a].block
         /\ \A l \in LogBlock : Candidate.block # RamMap[l]
         /\ Candidate.block = anchorFlash.new.block => nand[anchorFlash.new.block] = <<>>
<1> DEFINE b == Candidate.block
<1>1. b \in FbtBlocks(index_table.fbt) /\ b \in Phy
  BY CandidateFound
<1>2. /\ b # index_block.block /\ \A a \in Area : b # index_table.area[a].block
      /\ \A l \in LogBlock : b # RamMap[l]
  BY <1>1 DEF Ram, Owners, Layout
<1>3. ASSUME ~clobbered
      PROVE  FlashTables(nand, anchorFlash) /\ FlashData /\ NeededByFlash = Needs(nand, anchorFlash)
  BY <1>3, FlashFound DEF UbiInv
<1>4. clobbered' = (clobbered \/ b \in NeededByFlash)
  BY DEF Erasing
<1>5. IsSettled => ~clobbered /\ b \notin Needs(nand, anchorFlash)
  BY <1>1, SettledNeeds DEF Refs, IsSettled, GetSteps, mounting, CallSteps
<1>6. b = anchorFlash.new.block => nand[anchorFlash.new.block] = <<>>
  <2>1. b = anchorFlash.new.block => mounting /\ at \in {"indexUpdate", "getIndex", "anchorWrite"}
    BY <1>2 DEF Refs
  <2>2. b = anchorFlash.new.block => FIB(nand, anchorFlash) # anchorFlash.new.block
    BY <1>2, <2>1, SettledNeeds DEF IsSettled, SameRefs
  <2> QED BY <2>2 DEF FIB
<1> QED BY <1>2, <1>3, <1>4, <1>5, <1>6

\* INDEX_FreeBlock_Get: if flash needs the block that is erased, the step has set
\* `clobbered'; otherwise nothing on flash that matters has changed.
LEMMA GetKeeps ==
  ASSUME UbiInv, Get
  PROVE  UbiInv' /\ FlashKept /\ Referred' = Referred
         /\ InFlight = {} /\ InFlight' = {Candidate.block}
<1> DEFINE b == Candidate.block
           F == FbtBlocks(index_table.fbt)
           F2 == FbtBlocks(index_table'.fbt)
           g == Entry(b, EcAfterErase(Candidate.ec))
<1>1. /\ powered /\ at \in GetSteps /\ Ram /\ Refs /\ Typed /\ Faults
      /\ todo = Plan(at, local.op, full, cached_area_number)
  BY AtGet DEF Get
<1>2. b # INVALID_BLOCK /\ Erasing(b)
  BY DEF Get
<1>3. /\ Candidate \in Entries /\ b \in F /\ b \in Phy /\ index_table' \in IndexTables
      /\ index_table'.area = index_table.area /\ index_table'.plr = index_table.plr
      /\ TableOf(Phy, index_table'.fbt) /\ F2 \subseteq F \ {b}
  BY <1>1, <1>2, CandidateFound DEF Get
<1>4. /\ ~clobbered' => ~clobbered /\ FlashTables(nand, anchorFlash) /\ FlashData
                        /\ b \notin Needs(nand, anchorFlash)
      /\ IsSettled => ~clobbered' /\ clobbered' \in BOOLEAN
      /\ b # index_block.block
      /\ \A a \in Area : b # index_table.area[a].block
      /\ \A l \in LogBlock : b # RamMap[l]
      /\ b = anchorFlash.new.block => nand[anchorFlash.new.block] = <<>>
  BY <1>1, <1>2, CandidateUnused
<1>5. /\ UNCHANGED <<anchorFlash, anchor_table, index_block, index_next_page, area_offset_table,
                     cached_area_number, cached_area_table, powered, content, ops, campaign>>
      /\ nand' = [nand EXCEPT ![b] = <<>>] /\ local' = [local EXCEPT !.got = g] /\ todo' = Tail(todo)
  BY DEF Get, areaVars, faults, Rest
<1>6. /\ nand \in Nands /\ index_table \in IndexTables /\ RamMap \in [LogBlock -> Phy]
      /\ \A a \in Area : index_table.area[a].block \in Phy
      /\ index_block.block \in Phy /\ local \in LocalVars
  BY <1>1, RamTypes
<1>7. nand' \in Nands /\ nand'[b] = <<>> /\ \A x \in Phy : x # b => nand'[x] = nand[x]
  <2>1. <<>> \in Seq(Pages)
    OBVIOUS
  <2> HIDE DEF b
  <2>2. nand' = [nand EXCEPT ![b] = <<>>] /\ b \in Phy /\ nand \in Nands
    BY <1>3, <1>5, <1>6
  <2> QED BY <2>1, <2>2 DEF Nands
<1>8. g \in Entries /\ g.block = b
  BY <1>3, Entries2, EcNat DEF EcAfterErase
<1>9. /\ local' \in LocalVars /\ local'.got = g /\ local'.op = local.op /\ local'.log = local.log
      /\ local'.from = local.from /\ local'.new = local.new /\ local'.page = local.page
      /\ full' = full
  BY <1>5, <1>6, <1>8 DEF LocalVars, full
<1>10. todo' = Plan(AfterGet(at), local.op, full, cached_area_number) /\ AfterGet(at) \in Steps
       /\ AfterGet(at) # "areaWrite"
  BY <1>1, <1>5, PlanTails DEF AfterGet, GetSteps, Steps, CallSteps, CommitSteps, IndexSteps
<1>11. at' = AfterGet(at) /\ (mounting' <=> mounting)
  <2>1. AtOf(Plan(AfterGet(at), local.op, full, cached_area_number)) = AfterGet(at)
    BY <1>10, PlanHeads
  <2>2. at' = AtOf(todo')
    BY DEF at
  <2> QED BY <1>5, <1>10, <2>1, <2>2 DEF mounting
<1>12. /\ (Committing' <=> Committing) /\ (IsApplied' <=> IsApplied) /\ ~NewArea' /\ ~NewArea
       /\ Holding' /\ InFlight' = {b} /\ (IsSettled' <=> IsSettled)
       /\ at' \in {"eraseUse", "copy", "areaUse", "anchorWrite"}
       /\ (at' = "eraseUse" <=> at = "getErase") /\ (at' = "copy" <=> at = "getReclaim")
       /\ (at' = "areaUse" <=> at = "getArea") /\ (at' = "anchorWrite" <=> at = "getIndex")
  <2>1. at' \in {"eraseUse", "copy", "areaUse", "anchorWrite"}
       /\ (at' = "eraseUse" <=> at = "getErase") /\ (at' = "copy" <=> at = "getReclaim")
       /\ (at' = "areaUse" <=> at = "getArea") /\ (at' = "anchorWrite" <=> at = "getIndex")
    BY <1>1, <1>11 DEF AfterGet, GetSteps
  <2>2. Holding' /\ InFlight' = {b} /\ ~NewArea' /\ ~NewArea
    BY <1>1, <1>8, <1>9, <2>1 DEF Holding, InFlight, NewArea, GetSteps
  <2>3. (Committing' <=> Committing) /\ (IsApplied' <=> IsApplied) /\ (IsSettled' <=> IsSettled)
    BY <1>1, <1>9, <1>11, <2>1 DEF GetSteps, Committing, IsApplied, IsSettled, CallSteps, CommitSteps,
       IndexSteps
  <2> QED BY <2>1, <2>2, <2>3
<1>13. RamMap' = RamMap /\ (Entered(nand', index_table') <=> Entered(nand, index_table))
  <2>1. \A a \in Area : nand'[index_table.area[a].block] = nand[index_table.area[a].block]
    BY <1>4, <1>6, <1>7
  <2>2. TableMap(nand', index_table) = TableMap(nand, index_table)
        /\ (Entered(nand', index_table) <=> Entered(nand, index_table))
    BY <1>6, <2>1, MapFrame
  <2> QED BY <1>3, <1>12, <2>2, MapRefs DEF RamMap
<1>14. \A a \in Area : nand'[index_table'.area[a].block] = nand[index_table.area[a].block]
  BY <1>3, <1>4, <1>6, <1>7
<1>15. updated' = updated /\ plr' = plr
  BY <1>3 DEF updated, plr
<1>16. Stage'
  BY <1>1, <1>5, <1>9, <1>10, <1>11, <1>12 DEF Ram, Stage, mounting, GetSteps, IndexSteps
<1>17. Owners'
  <2>1. Layout(F2 \cup {b}, index_table.area, index_block.block, RamMap)
    BY <1>1, <1>3, LayoutShrinks DEF Ram, Owners
  <2> QED BY <1>1, <1>3, <1>5, <1>7, <1>8, <1>9, <1>12, <1>13, <2>1 DEF Ram, Owners
<1>18. AreaBlocks'
  <2>1. \A a \in Area : HasArea(nand', index_table'.area[a].block, a)
    BY <1>1, <1>12, <1>14 DEF Ram, AreaBlocks, HasArea, TableOn
  <2> QED BY <1>1, <1>5, <1>9, <1>11, <1>12, <1>14, <1>15, <2>1 DEF Ram, AreaBlocks, IndexSteps
<1>19. Cache'
  <2>1. \A a \in Area : TableOn(nand', index_table'.area[a].block)
          = TableOn(nand, index_table.area[a].block)
    BY <1>14 DEF TableOn
  <2>2. Committing => updated \in Area
    BY <1>1, AreaOf DEF Ram, AreaBlocks, updated
  <2> QED BY <1>1, <1>5, <1>12, <1>13, <1>15, <2>1, <2>2 DEF Ram, Cache
<1>20. IndexBlock'
  BY <1>1, <1>4, <1>5, <1>6, <1>7, <1>12 DEF Ram, IndexBlock, GetSteps
<1>21. RamData'
  BY <1>1, <1>4, <1>5, <1>6, <1>7, <1>9, <1>12, <1>13 DEF Ram, RamData, Target
<1>22. Locals'
  BY <1>1, <1>5, <1>9, <1>11, <1>12, <1>13, <1>15 DEF Ram, Locals, IndexSteps, GetSteps
<1>23. ~clobbered' =>
         /\ FIB(nand', anchorFlash) = FIB(nand, anchorFlash)
            /\ FI(nand', anchorFlash) = FI(nand, anchorFlash)
         /\ FMap(nand', anchorFlash) = FMap(nand, anchorFlash)
         /\ Needs(nand', anchorFlash) = Needs(nand, anchorFlash) /\ FlashTables(nand', anchorFlash)
         /\ FlashData'
  <2> SUFFICES ASSUME ~clobbered'
               PROVE  /\ FIB(nand', anchorFlash) = FIB(nand, anchorFlash)
                      /\ FI(nand', anchorFlash) = FI(nand, anchorFlash)
                      /\ FMap(nand', anchorFlash) = FMap(nand, anchorFlash)
                      /\ Needs(nand', anchorFlash) = Needs(nand, anchorFlash)
                      /\ FlashTables(nand', anchorFlash) /\ FlashData'
    OBVIOUS
  <2>1. FlashTables(nand, anchorFlash) /\ FlashData /\ b \notin Needs(nand, anchorFlash)
    BY <1>4
  <2>2. anchorFlash \in Anchors /\ anchorFlash.new.block \in Phy
    BY <1>1, Entries2 DEF Typed, Anchors
  <2>3. Needs(nand, anchorFlash) \subseteq Phy
        /\ \A l \in LogBlock : FMap(nand, anchorFlash)[l] \in Needs(nand, anchorFlash)
    BY <1>6, <2>1, <2>2, FlashParts
  <2>4. \A x \in Needs(nand, anchorFlash) : nand'[x] = nand[x]
    BY <1>7, <2>1, <2>3
  <2>5. nand'[anchorFlash.new.block] = <<>> <=> nand[anchorFlash.new.block] = <<>>
    BY <1>4, <1>7, <2>2
  <2>6. /\ FIB(nand', anchorFlash) = FIB(nand, anchorFlash)
           /\ FI(nand', anchorFlash) = FI(nand, anchorFlash)
        /\ FMap(nand', anchorFlash) = FMap(nand, anchorFlash)
        /\ Needs(nand', anchorFlash) = Needs(nand, anchorFlash) /\ FlashTables(nand', anchorFlash)
    BY <2>1, <2>4, <2>5, FlashFrame
  <2>7. FlashData'
    BY <1>1, <1>5, <1>9, <1>12, <2>1, <2>3, <2>4, <2>6 DEF FlashData, FlashTarget, Erased, GetSteps
  <2> QED BY <2>6, <2>7
<1>24. Refs'
  <2>1. IsSettled' => SameRefs'
    BY <1>1, <1>3, <1>4, <1>5, <1>12, <1>23 DEF Refs, SameRefs
  <2>2. at' \in CallSteps \/ mounting' => ~clobbered'
    <3>1. at' \in CallSteps => at \in {"getErase", "getReclaim"}
      BY <1>12 DEF CallSteps
    <3>2. mounting => at = "getIndex"
      BY <1>1 DEF Ram, Stage, GetSteps, IndexSteps
    <3> QED BY <1>4, <1>11, <3>1, <3>2 DEF IsSettled, CallSteps
  <2>3. ~clobbered' => InFlight' \cap Needs(nand', anchorFlash') = {}
    BY <1>4, <1>5, <1>12, <1>23
  <2> QED BY <1>1, <1>5, <1>9, <1>11, <1>12, <2>1, <2>2, <2>3 DEF Refs, GetSteps
<1>25. Typed' /\ Faults'
  BY <1>1, <1>2, <1>4, <1>5, <1>7, <1>9 DEF Typed, Faults, Nands, Erasing
<1>26. UbiInv'
  BY <1>1, <1>4, <1>5, <1>12, <1>16, <1>17, <1>18, <1>19, <1>20, <1>21, <1>22, <1>23, <1>24, <1>25
     DEF UbiInv, Ram
<1>27. FlashKept
  BY <1>1, <1>4, <1>5, <1>12, <1>23 DEF FlashKept, Intact
<1>28. Referred' = Referred /\ InFlight = {} /\ InFlight' = {b}
  BY <1>1, <1>3, <1>5, <1>12, <1>13 DEF Referred, TableBlocks, InFlight, Holding, GetSteps
<1> QED BY <1>26, <1>27, <1>28

\* The erase fails: the block is dropped from the table and another one is tried.
LEMMA GetBadBlockKeeps ==
  ASSUME UbiInv, GetBadBlock
  PROVE  UbiInv' /\ RefsKept /\ FlashKept
<1> DEFINE b == Candidate.block
           F == FbtBlocks(index_table.fbt)
           F2 == FbtBlocks(index_table'.fbt)
<1>1. powered /\ at \in GetSteps /\ Ram /\ Refs /\ Typed /\ Faults
  BY AtGet DEF GetBadBlock
<1>2. b # INVALID_BLOCK /\ Erasing(b)
  BY DEF GetBadBlock
<1>3. /\ b \in F /\ b \in Phy /\ index_table' \in IndexTables
      /\ index_table'.area = index_table.area /\ index_table'.plr = index_table.plr
      /\ TableOf(Phy, index_table'.fbt) /\ F2 \subseteq F
  BY <1>1, <1>2, CandidateFound DEF GetBadBlock
<1>4. /\ ~clobbered' => ~clobbered /\ FlashTables(nand, anchorFlash) /\ FlashData
      /\ IsSettled => ~clobbered'
      /\ clobbered' \in BOOLEAN
  BY <1>1, <1>2, CandidateUnused
<1>5. /\ UNCHANGED <<nand, anchorFlash, index_block, index_next_page, area_offset_table,
                     cached_area_number, cached_area_table, powered, content, ops, todo, local>>
      /\ anchor_table' = [anchor_table EXCEPT !.bad = @ \cup {b}]
      /\ campaign' = [campaign EXCEPT !.bad = @ - 1] /\ campaign.bad > 0
  BY DEF GetBadBlock, areaVars, flashVars, LogBadBlock, Failing, MayFail
<1>6. /\ campaign' \in FaultPlans /\ Benign(campaign') /\ ~campaign'.doubled
  BY <1>1, <1>5 DEF Faults, FaultPlans, Benign
<1>7. local.op # "write"
  BY <1>1, <1>5 DEF Ram, Locals
<1>8. anchor_table' \in Anchors
  BY <1>1, <1>3, <1>5 DEF Ram, Owners, Anchors
<1>9. /\ at' = at /\ (mounting' <=> mounting) /\ full' = full /\ updated' = updated /\ plr' = plr
  BY <1>3, <1>5 DEF at, mounting, full, updated, plr
<1>10. /\ (Committing' <=> Committing) /\ (IsApplied' <=> IsApplied) /\ ~NewArea' /\ ~NewArea
       /\ ~Holding' /\ ~Holding /\ InFlight' = {} /\ InFlight = {} /\ (IsSettled' <=> IsSettled)
  BY <1>1, <1>9 DEF GetSteps, Committing, IsApplied, NewArea, Holding, InFlight, IsSettled
<1>11. RamMap' = RamMap /\ (Entered(nand', index_table') <=> Entered(nand, index_table))
  BY <1>3, <1>5, <1>10, MapRefs DEF RamMap
<1>12. Stage'
  BY <1>1, <1>5, <1>9 DEF Ram, Stage
<1>13. Owners'
  <2>1. Layout(F2, index_table.area, index_block.block, RamMap)
    BY <1>1, <1>3, LayoutShrinks DEF Ram, Owners
  <2> QED BY <1>1, <1>3, <1>5, <1>8, <1>10, <1>11, <2>1 DEF Ram, Owners
<1>14. AreaBlocks'
  BY <1>1, <1>3, <1>5, <1>9, <1>10 DEF Ram, AreaBlocks, HasArea
<1>15. Cache'
  BY <1>1, <1>3, <1>5, <1>9, <1>10, <1>11 DEF Ram, Cache
<1>16. IndexBlock'
  BY <1>1, <1>5, <1>9 DEF Ram, IndexBlock
<1>17. RamData'
  BY <1>1, <1>5, <1>10, <1>11 DEF Ram, RamData, Target
<1>18. Locals'
  BY <1>1, <1>5, <1>7, <1>9, <1>10, <1>11 DEF Ram, Locals, GetSteps
<1>19. FlashData <=> FlashData'
  BY <1>5, <1>9 DEF FlashData, FlashTarget, Erased
<1>20. Refs'
  <2>1. IsSettled' => SameRefs'
    BY <1>1, <1>3, <1>5, <1>10 DEF Refs, SameRefs
  <2>2. at' \in CallSteps \/ mounting' => ~clobbered'
    <3>1. mounting => at = "getIndex"
      BY <1>1 DEF Ram, Stage, GetSteps, IndexSteps
    <3> QED BY <1>1, <1>4, <1>9, <3>1 DEF IsSettled, CallSteps
  <2> QED BY <1>1, <1>5, <1>9, <1>10, <2>1, <2>2 DEF Refs, GetSteps
<1>21. Typed' /\ Faults'
  BY <1>1, <1>4, <1>5, <1>6 DEF Typed, Faults
<1>22. UbiInv'
  BY <1>1, <1>4, <1>5, <1>10, <1>12, <1>13, <1>14, <1>15, <1>16, <1>17, <1>18, <1>19, <1>20, <1>21
     DEF UbiInv, Ram
<1>23. RefsKept
  BY <1>3, <1>5, <1>10, <1>11 DEF RefsKept, Referred, TableBlocks
<1>24. FlashKept
  BY <1>1, <1>4, <1>5, <1>10 DEF FlashKept, Intact
<1> QED BY <1>22, <1>23, <1>24

\* No free block is left: the call gives up, or the mount goes on without.
LEMMA GetTooManyKeeps ==
  ASSUME UbiInv, GetTooMany
  PROVE  UbiInv' /\ FlashKept /\ (todo' # <<"worn">> => RefsKept)
<1>1. powered /\ at \in GetSteps /\ Ram /\ Refs /\ Typed /\ Faults
  BY AtGet DEF GetTooMany
<1>2. UNCHANGED <<flashVars, ramVars, powered, content, clobbered, ops, campaign>>
  BY DEF GetTooMany, history, faults
<1>3. UNCHANGED <<nand, anchorFlash, anchor_table, index_table, index_block, index_next_page,
                  area_offset_table, cached_area_number, cached_area_table>>
  BY <1>2 DEF flashVars, ramVars, indexVars, areaVars
<1>4. CASE local.op # "mountNew" /\ todo' = <<"worn">> /\ UNCHANGED local
  <2>1. at' = "worn"
    BY <1>4 DEF at, AtOf
  <2>2. ~IsSettled'
    BY <2>1 DEF IsSettled, CallSteps
  <2>3. FlashData <=> FlashData'
    BY <1>1, <1>2, <1>3, <1>4, <2>1 DEF FlashData, FlashTarget, Erased, GetSteps
  <2>4. Typed' /\ Faults'
    BY <1>1, <1>2, <1>3, <1>4 DEF Typed, Faults
  <2>5. FlashKept
    BY <1>2, <1>3, <2>2 DEF FlashKept, Intact
  <2>6. UbiInv'
    BY <1>1, <1>2, <1>3, <1>4, <2>2, <2>3, <2>4 DEF UbiInv
  <2> QED BY <1>4, <2>5, <2>6
<1>5. CASE local.op = "mountNew" /\ todo' = <<"mountAreas">> /\ local' = NoLocal
  <2>1. at = "getIndex" /\ mounting
    BY <1>1, <1>5 DEF Ram, Locals, GetSteps, Committing, IndexSteps, CommitSteps
  <2>2. at' = "mountAreas" /\ mounting' /\ ~full' /\ ~full /\ updated' = updated /\ plr' = plr
    BY <1>1, <1>3, <1>5, <2>1, NoLocalType DEF at, AtOf, mounting, full, updated, plr, Ram, Stage
  <2>3. /\ ~Committing /\ ~Committing' /\ ~IsApplied /\ ~IsApplied' /\ ~NewArea /\ ~NewArea'
        /\ ~Holding /\ ~Holding' /\ InFlight = {} /\ InFlight' = {} /\ IsSettled /\ IsSettled'
    BY <2>1, <2>2 DEF Committing, IsApplied, NewArea, Holding, InFlight, IsSettled, CallSteps,
       CommitSteps, IndexSteps
  <2>4. RamMap' = RamMap
    BY <1>3, <2>3 DEF RamMap
  <2>5. Stage'
    BY <1>5, <2>2 DEF Stage, Steps, Plan
  <2>6. Owners'
    BY <1>1, <1>3, <2>3, <2>4 DEF Ram, Owners
  <2>7. AreaBlocks'
    BY <1>1, <1>3, <2>2, <2>3 DEF Ram, AreaBlocks, HasArea
  <2>8. Cache'
    BY <2>3 DEF Cache
  <2>9. IndexBlock'
    BY <1>1, <1>3, <2>1, <2>2 DEF Ram, IndexBlock
  <2>10. RamData'
    BY <1>1, <1>2, <1>3, <2>3, <2>4 DEF Ram, RamData, Target
  <2>11. Locals'
    BY <1>5, <2>2, <2>3, NoLocalType DEF Locals, IndexSteps
  <2>12. Refs'
    BY <1>1, <1>2, <1>3, <1>5, <2>1, <2>2, <2>3 DEF Refs, SameRefs, CallSteps
  <2>13. ~clobbered /\ FlashTables(nand, anchorFlash) /\ FlashData
    BY <1>1, <2>1 DEF UbiInv, Refs
  <2>14. FlashData'
    BY <1>2, <1>3, <1>5, <2>13, NoLocalType DEF FlashData, FlashTarget, Erased
  <2>15. Typed' /\ Faults'
    BY <1>1, <1>2, <1>3, <1>5, NoLocalType DEF Typed, Faults
  <2>16. UbiInv'
    BY <1>1, <1>2, <1>3, <2>5, <2>6, <2>7, <2>8, <2>9, <2>10, <2>11, <2>12, <2>13, <2>14, <2>15
       DEF UbiInv, Ram
  <2>17. RefsKept
    BY <1>3, <2>3, <2>4 DEF RefsKept, Referred, TableBlocks
  <2>18. FlashKept
    BY <1>3, <2>13 DEF FlashKept, Intact
  <2> QED BY <2>16, <2>17, <2>18
<1> QED BY <1>4, <1>5 DEF GetTooMany
-----------------------------------------------------------------------------
(* INDEX_Update_Commit *)

\* What a commit has in RAM.
LEMMA InCommitFacts ==
  ASSUME Ram, Typed, at \in CommitSteps
  PROVE  /\ ~mounting /\ Committing /\ plr.log \in LogBlock /\ updated \in Area
         /\ cached_area_number = updated /\ cached_area_table \in AreaTables(updated)
         /\ AreaTable(updated) = cached_area_table
         /\ area_offset_table \in [Area -> 0 .. P - 1]
         /\ Entry(plr.block, plr.ec) \in Entries
<1>1. ~mounting /\ Committing
  BY DEF Ram, Stage, Committing, CommitSteps, IndexSteps
<1>2. plr.log \in LogBlock /\ cached_area_number = updated /\ cached_area_table \in AreaTables(updated)
      /\ area_offset_table \in [Area -> 0 .. P - 1]
  BY <1>1 DEF Ram, AreaBlocks, Cache
<1>3. updated \in Area
  BY <1>2, AreaOf DEF updated
<1>4. Entry(plr.block, plr.ec) \in Entries
  BY <1>2, RamTypes, PlrLog, Geometry
<1> QED BY <1>1, <1>2, <1>3, <1>4 DEF AreaTable

\* The head of INDEX_Update_Commit chooses the order of area and index.
LEMMA CommitKeeps ==
  ASSUME UbiInv, Commit
  PROVE  UbiInv' /\ RefsKept /\ FlashKept
<1>1. /\ powered /\ at = "commit" /\ Ram /\ Refs /\ Typed /\ Faults
      /\ todo = Plan("commit", local.op, full, cached_area_number)
  BY AtStep DEF Commit, Steps, CommitSteps
<1>2. /\ ~mounting /\ Committing /\ plr.log \in LogBlock /\ updated \in Area
      /\ cached_area_number = updated /\ AreaTable(updated) = cached_area_table
      /\ area_offset_table \in [Area -> 0 .. P - 1]
  BY <1>1, InCommitFacts DEF CommitSteps
<1>3. ~full
  BY <1>1 DEF Ram, Stage, IndexSteps
<1>4. UNCHANGED <<nand, anchorFlash, anchor_table, index_table, index_block, index_next_page,
                  area_offset_table, powered, content, clobbered, ops, campaign>>
  BY DEF Commit, flashVars, indexVars, history, faults
<1>5. UNCHANGED <<cached_area_number, cached_area_table>>
  BY <1>2 DEF Commit, ReadArea, updated, plr
<1>6. local' = [local EXCEPT !.area_reclaim = local.area_reclaim \/ AreaFull(updated)]
  BY DEF Commit, updated, plr
<1>7. /\ local' \in LocalVars /\ local'.op = local.op /\ local'.log = local.log
         /\ local'.new = local.new
      /\ local'.page = local.page /\ (full' <=> AreaFull(updated))
  BY <1>1, <1>3, <1>6 DEF Typed, LocalVars, full
<1>8. todo' = CommitCalls(AreaFull(updated), local.area_reclaim \/ AreaFull(updated))
                \o <<"commitDone">> \o EndOf(local.op)
  BY <1>1, PlanTails DEF Commit, Rest, updated, plr
<1>9. /\ full' => at' = "getArea" /\ todo' = Plan("getArea", local'.op, full', cached_area_number')
      /\ ~full' => at' = "indexUpdate"
         /\ todo' = Plan("indexUpdate", local'.op, full', cached_area_number')
  <2>1. cached_area_number' # NONE
    BY <1>2, <1>5, AreasNat
  <2>2. CASE full'
    <3>1. todo' = <<"getArea", "areaUse">> \o <<"areaWrite">> \o <<"indexUpdate">>
                   \o <<"commitDone">> \o EndOf(local'.op)
      BY <1>7, <1>8, <2>2 DEF CommitCalls
    <3>2. todo' = Plan("getArea", local'.op, full', cached_area_number')
      BY <2>1, <2>2, <3>1, CommitPlan
    <3>3. AtOf(todo') = "getArea"
      BY <3>2, PlanFirst
    <3> QED BY <2>2, <3>2, <3>3 DEF at
  <2>3. CASE ~full'
    <3>1. todo' = <<"indexUpdate">> \o <<"areaWrite">> \o <<>>
                   \o <<"commitDone">> \o EndOf(local'.op)
      BY <1>3, <1>7, <1>8, <2>3 DEF CommitCalls, full
    <3>2. todo' = Plan("indexUpdate", local'.op, full', cached_area_number')
      BY <2>1, <2>3, <3>1, CommitPlan
    <3>3. AtOf(todo') = "indexUpdate"
      BY <3>2, PlanFirst
    <3> QED BY <2>3, <3>2, <3>3 DEF at
  <2> QED BY <2>2, <2>3
<1>10. at' \in {"getArea", "indexUpdate"} /\ (at' = "getArea" <=> full') /\ ~mounting'
       /\ updated' = updated /\ plr' = plr
  BY <1>2, <1>4, <1>5, <1>9 DEF mounting, updated, plr
<1>11. /\ Committing' /\ ~IsApplied' /\ ~NewArea' /\ ~NewArea /\ ~Holding' /\ ~Holding /\ ~IsSettled'
       /\ InFlight' = {} /\ InFlight = {} /\ ~IsSettled
  BY <1>1, <1>10 DEF Committing, IsApplied, NewArea, Holding, IsSettled, InFlight, CallSteps,
     CommitSteps, IndexSteps
<1>12. RamMap' = RamMap
  BY <1>4, <1>11 DEF RamMap
<1>13. Stage'
  BY <1>9, <1>10 DEF Stage, Steps, CommitSteps, IndexSteps
<1>14. Owners'
  BY <1>1, <1>4, <1>11, <1>12 DEF Ram, Owners
<1>15. AreaBlocks'
  <2>1. ~AreaFull(updated) => area_offset_table[updated] < P - 1
    BY <1>2, Geometry DEF AreaFull
  <2> QED BY <1>1, <1>2, <1>4, <1>7, <1>10, <1>11, <2>1 DEF Ram, AreaBlocks, HasArea, AreaFull
<1>16. Cache'
  BY <1>1, <1>2, <1>4, <1>5, <1>10, <1>11 DEF Ram, Cache
<1>17. IndexBlock'
  BY <1>1, <1>4, <1>10 DEF Ram, IndexBlock
<1>18. RamData'
  BY <1>1, <1>2, <1>4, <1>7, <1>11, <1>12 DEF Ram, RamData, Target
<1>19. Locals'
  BY <1>1, <1>2, <1>4, <1>7, <1>10, <1>11, <1>12 DEF Ram, Locals, IndexSteps
<1>20. Refs'
  BY <1>1, <1>2, <1>4, <1>10, <1>11 DEF Refs, CallSteps
<1>21. FlashData <=> FlashData'
  BY <1>1, <1>4, <1>7, <1>9 DEF FlashData, FlashTarget, Erased
<1>22. Typed' /\ Faults'
  BY <1>1, <1>4, <1>7 DEF Typed, Faults
<1>23. UbiInv'
  BY <1>1, <1>4, <1>11, <1>13, <1>14, <1>15, <1>16, <1>17, <1>18, <1>19, <1>20, <1>21, <1>22
     DEF UbiInv, Ram
<1>24. RefsKept
  BY <1>4, <1>11, <1>12 DEF RefsKept, Referred, TableBlocks
<1>25. FlashKept
  BY <1>4, <1>11 DEF FlashKept, Intact
<1> QED BY <1>23, <1>24, <1>25

\* index_update: write on, or take a new block first.
LEMMA IndexUpdateKeeps ==
  ASSUME UbiInv, IndexUpdate
  PROVE  UbiInv' /\ RefsKept /\ FlashKept
<1>1. /\ powered /\ at = "indexUpdate" /\ Ram /\ Refs /\ Typed /\ Faults
      /\ todo = Plan("indexUpdate", local.op, full, cached_area_number)
  BY AtStep DEF IndexUpdate, Steps, IndexSteps
<1>2. UNCHANGED <<flashVars, ramVars, local, powered, content, clobbered, ops, campaign>>
  BY DEF IndexUpdate, history, faults
<1>3. UNCHANGED <<nand, anchorFlash, anchor_table, index_table, index_block, index_next_page,
                  area_offset_table, cached_area_number, cached_area_table>>
  BY <1>2 DEF flashVars, ramVars, indexVars, areaVars
<1>4. /\ index_next_page = P => at' = "getIndex"
                                /\ todo' = Plan("getIndex", local.op, full, cached_area_number)
      /\ index_next_page # P => at' = "indexWrite"
                                /\ todo' = Plan("indexWrite", local.op, full, cached_area_number)
  <2>1. Rest = AfterIndex(local.op, full, cached_area_number)
    BY <1>1, PlanTails DEF Rest
  <2>2. /\ index_next_page = P => todo' = Plan("getIndex", local.op, full, cached_area_number)
        /\ index_next_page # P => todo' = Plan("indexWrite", local.op, full, cached_area_number)
    BY <2>1, IndexPlan DEF IndexUpdate
  <2>3. /\ AtOf(Plan("getIndex", local.op, full, cached_area_number)) = "getIndex"
        /\ AtOf(Plan("indexWrite", local.op, full, cached_area_number)) = "indexWrite"
    BY PlanFirst
  <2> QED BY <2>2, <2>3 DEF at
<1>5. /\ at' \in {"getIndex", "indexWrite"} /\ (at' = "getIndex" <=> index_next_page = P)
      /\ (mounting' <=> mounting) /\ full' = full /\ updated' = updated /\ plr' = plr
  BY <1>2, <1>3, <1>4 DEF mounting, full, updated, plr
<1>6. /\ (Committing' <=> Committing) /\ (IsApplied' <=> IsApplied) /\ ~NewArea' /\ ~NewArea
      /\ ~Holding' /\ ~Holding /\ InFlight' = {} /\ InFlight = {} /\ (IsSettled' => IsSettled)
  BY <1>1, <1>5 DEF Committing, IsApplied, NewArea, Holding, IsSettled, InFlight, CallSteps,
     CommitSteps, IndexSteps
<1>7. RamMap' = RamMap
  BY <1>3, <1>6 DEF RamMap
<1>8. Stage'
  BY <1>1, <1>2, <1>3, <1>4, <1>5 DEF Ram, Stage, Steps, IndexSteps, full
<1>9. Owners'
  BY <1>1, <1>2, <1>3, <1>6, <1>7 DEF Ram, Owners
<1>10. AreaBlocks'
  BY <1>1, <1>3, <1>5, <1>6 DEF Ram, AreaBlocks, HasArea, IndexSteps
<1>11. Cache'
  BY <1>1, <1>3, <1>5, <1>6 DEF Ram, Cache
<1>12. IndexBlock'
  BY <1>1, <1>3, <1>5, Geometry DEF Ram, IndexBlock
<1>13. RamData'
  BY <1>1, <1>2, <1>3, <1>6, <1>7 DEF Ram, RamData, Target
<1>14. Locals'
  BY <1>1, <1>2, <1>3, <1>5, <1>6, <1>7 DEF Ram, Locals, IndexSteps
<1>15. Refs'
  <2>1. at' = "indexWrite" => anchorFlash.new.block = index_block.block
    BY <1>1, <1>5 DEF Refs
  <2>2. nand[index_block.block] # <<>>
    BY <1>1 DEF Ram, IndexBlock, LastIs
  <2>3. at' = "indexWrite" => FIB(nand, anchorFlash) = index_block.block
    BY <2>1, <2>2 DEF FIB
  <2>4. IsSettled' => SameRefs'
    BY <1>1, <1>2, <1>3, <1>6 DEF Refs, SameRefs
  <2> QED BY <1>1, <1>2, <1>3, <1>5, <1>6, <2>1, <2>3, <2>4 DEF Refs, CallSteps
<1>16. FlashData <=> FlashData'
  BY <1>1, <1>2, <1>3, <1>5 DEF FlashData, FlashTarget, Erased
<1>17. Typed' /\ Faults'
  BY <1>1, <1>2, <1>3 DEF Typed, Faults
<1>18. UbiInv'
  BY <1>1, <1>2, <1>3, <1>6, <1>8, <1>9, <1>10, <1>11, <1>12, <1>13, <1>14, <1>15, <1>16, <1>17
     DEF UbiInv, Ram
<1>19. RefsKept
  BY <1>3, <1>6, <1>7 DEF RefsKept, Referred, TableBlocks
<1>20. FlashKept
  BY <1>1, <1>2, <1>3, <1>6 DEF FlashKept, Intact
<1> QED BY <1>18, <1>19, <1>20

\* INDEX_Update_AreaReclaim enters the new area block, and frees the old one.
LEMMA AreaUseKeeps ==
  ASSUME UbiInv, AreaUse
  PROVE  UbiInv' /\ FlashKept /\ TakesOver(index_table.area[updated])
<1> DEFINE g == local.got
           e == index_table.area[updated]
           F == FbtBlocks(index_table.fbt)
           f2 == FbtPut(index_table.fbt, e.block, e.ec)
<1>1. /\ powered /\ at = "areaUse" /\ Ram /\ Refs /\ Typed /\ Faults
      /\ todo = Plan("areaUse", local.op, full, cached_area_number)
  BY AtStep DEF AreaUse, Steps, CommitSteps
<1>2. /\ ~mounting /\ Committing /\ plr.log \in LogBlock /\ updated \in Area
      /\ cached_area_number = updated /\ cached_area_table \in AreaTables(updated)
      /\ area_offset_table \in [Area -> 0 .. P - 1]
  BY <1>1, InCommitFacts DEF CommitSteps
<1>3. full /\ Holding /\ InFlight = {g.block} /\ ~NewArea /\ ~IsApplied /\ ~IsSettled
  BY <1>1 DEF Ram, Stage, Holding, InFlight, NewArea, IsApplied, IsSettled, CallSteps, IndexSteps
<1>4. /\ g \in Entries /\ nand[g.block] = <<>> /\ g.block \notin F
      /\ Layout(F \cup {g.block}, index_table.area, index_block.block, RamMap)
  BY <1>1, <1>3 DEF Ram, Owners
<1>5. e \in Entries /\ e.block \in Phy /\ e.ec \in Nat /\ index_table \in IndexTables
      /\ TableOf(Phy, index_table.fbt) /\ RamMap \in [LogBlock -> Phy]
      /\ index_table.area \in [Area -> Entries]
  BY <1>1, <1>2, RamTypes, Entries2
<1>6. TableOf(Phy, f2) /\ FbtBlocks(f2) \subseteq F \cup {e.block}
  <2>1. e.block \notin F
    BY <1>2, <1>4 DEF Layout
  <2> QED BY <1>5, <2>1, PutAdds, Geometry
<1>7. /\ index_table' \in IndexTables /\ index_table'.fbt = f2 /\ index_table'.plr = index_table.plr
      /\ index_table'.area[updated] = g
      /\ \A b \in Area : b # updated => index_table'.area[b] = index_table.area[b]
  <2> DEFINE t == PutBack(index_table, e)
  <2>1. t \in IndexTables /\ t.fbt = f2 /\ t.area = index_table.area /\ t.plr = index_table.plr
    BY <1>5, <1>6, WithFbt DEF PutBack
  <2>2. index_table' = [t EXCEPT !.area[updated] = g]
    BY DEF AreaUse, updated, plr
  <2> HIDE DEF t, f2
  <2> QED BY <1>2, <1>4, <1>5, <2>1, <2>2 DEF IndexTables
<1>8. /\ UNCHANGED <<nand, anchorFlash, anchor_table, index_block, index_next_page, area_offset_table,
                     cached_area_number, cached_area_table, local, powered, content, clobbered,
                     ops, campaign>>
      /\ todo' = Tail(todo)
  BY DEF AreaUse, flashVars, areaVars, history, faults, Rest
<1>9. /\ at' = "areaWrite" /\ todo' = Plan("areaWrite", local.op, full, cached_area_number)
      /\ ~mounting' /\ full' = full /\ updated' = updated /\ plr' = plr
  <2>1. todo' = Plan("areaWrite", local.op, full, cached_area_number)
    BY <1>1, <1>3, <1>8, AreaUseTail
  <2>2. AtOf(todo') = "areaWrite"
    BY <1>3, <2>1, PlanFirst
  <2> QED BY <1>2, <1>7, <1>8, <2>1, <2>2 DEF at, mounting, full, updated, plr
<1>10. /\ Committing' /\ ~IsApplied' /\ NewArea' /\ ~Holding' /\ InFlight' = {} /\ ~IsSettled'
  BY <1>3, <1>9 DEF Committing, IsApplied, NewArea, Holding, IsSettled, InFlight, CallSteps,
     CommitSteps, IndexSteps
<1>11. RamMap' = RamMap
  <2>1. RamMap' = CacheMap(nand, index_table', updated, cached_area_table)
    BY <1>8, <1>9, <1>10 DEF RamMap
  <2>2. RamMap = TableMap(nand, index_table)
    BY <1>3 DEF RamMap
  <2>3. \A l \in OfArea(updated) : l # plr.log =>
            cached_area_table[l] = TableOn(nand, index_table.area[updated].block)[l]
    BY <1>1, <1>2, <1>3 DEF Ram, Cache
  <2>4. ASSUME NEW l \in LogBlock
        PROVE  CacheMap(nand, index_table', updated, cached_area_table)[l]
                 = TableMap(nand, index_table)[l]
    <3>1. AREA_INDEX(l) \in Area /\ l \in OfArea(AREA_INDEX(l))
      BY AreaOf
    <3> QED BY <1>7, <2>3, <3>1 DEF CacheMap, TableMap, plr
  <2> QED BY <2>1, <2>2, <2>4 DEF CacheMap, TableMap
<1>12. Stage'
  BY <1>3, <1>8, <1>9 DEF Stage, Steps, CommitSteps, full
<1>13. Owners'
  <2>1. FbtBlocks(f2) \subseteq ((F \cup {g.block}) \ {g.block}) \cup {e.block}
    BY <1>4, <1>6
  <2>2. Layout(FbtBlocks(f2), index_table'.area, index_block.block, RamMap)
    <3> DEFINE H == F \cup {g.block}
               F2 == FbtBlocks(f2)
               ar == index_table.area
               ar2 == index_table'.area
               x == g.block
               a == updated
    <3>1. /\ Layout(H, ar, index_block.block, RamMap) /\ a \in Area /\ x \in H
          /\ F2 \subseteq (H \ {x}) \cup {ar[a].block} /\ ar2[a].block = x
          /\ \A b \in Area : b # a => ar2[b] = ar[b]
      BY <1>2, <1>4, <1>7, <2>1
    <3> HIDE DEF H, F2, ar, ar2, x, a
    <3>2. Layout(F2, ar2, index_block.block, RamMap)
      BY <3>1, LayoutArea
    <3> QED BY <3>2 DEF F2, ar2
  <2> QED BY <1>1, <1>6, <1>7, <1>8, <1>10, <1>11, <2>2 DEF Ram, Owners
<1>14. AreaBlocks'
  BY <1>1, <1>2, <1>3, <1>4, <1>7, <1>8, <1>9, <1>10 DEF Ram, AreaBlocks, HasArea
<1>15. Cache'
  BY <1>2, <1>8, <1>9, <1>10 DEF Cache
<1>16. IndexBlock'
  BY <1>1, <1>8, <1>9 DEF Ram, IndexBlock
<1>17. RamData'
  BY <1>1, <1>2, <1>8, <1>10, <1>11 DEF Ram, RamData, Target
<1>18. Locals'
  BY <1>1, <1>2, <1>8, <1>9, <1>10, <1>11 DEF Ram, Locals, IndexSteps
<1>19. Refs'
  BY <1>1, <1>2, <1>3, <1>7, <1>8, <1>9, <1>10 DEF Refs, CallSteps
<1>20. Typed' /\ Faults' /\ (FlashData <=> FlashData')
  BY <1>1, <1>3, <1>8, <1>9 DEF Typed, Faults, FlashData, FlashTarget, Erased
<1>21. UbiInv'
  BY <1>1, <1>8, <1>10, <1>12, <1>13, <1>14, <1>15, <1>16, <1>17, <1>18, <1>19, <1>20
     DEF UbiInv, Ram
<1>22. FlashKept
  BY <1>8, <1>10 DEF FlashKept, Intact
<1>23. TakesOver(e)
  <2>1. Referred \subseteq Referred' \cup {e.block} /\ g.block \in Referred'
    BY <1>2, <1>7, <1>8, <1>11 DEF Referred, TableBlocks
  <2>2. e.block \notin F
    BY <1>2, <1>4 DEF Layout
  <2> QED BY <1>3, <1>5, <1>7, <1>10, <2>1, <2>2 DEF TakesOver
<1> QED BY <1>21, <1>22, <1>23

\* The page that AREA_Update computes is the first one not programmed: page 0 of
\* a new area block, the page after the current table otherwise.
LEMMA AreaPageFree ==
  ASSUME Ram, Typed, at = "areaWrite", ~mounting, Committing, updated \in Area,
         area_offset_table \in [Area -> 0 .. P - 1]
  PROVE  /\ (area_offset_table[updated] + 1) % P = Len(nand[index_table.area[updated].block])
         /\ (area_offset_table[updated] + 1) % P \in 0 .. P - 1
<1> DEFINE s == nand[index_table.area[updated].block]
           page == (area_offset_table[updated] + 1) % P
<1>1. CASE full
  <2>1. NewArea /\ s = <<>>
    BY <1>1 DEF NewArea, Ram, AreaBlocks
  <2>2. area_offset_table[updated] = P - 1
    BY <1>1 DEF Ram, AreaBlocks
  <2>3. (P - 1 + 1) % P = 0
    BY Geometry
  <2> QED BY <2>1, <2>2, <2>3, Geometry
<1>2. CASE ~full
  <2>1. ~NewArea /\ area_offset_table[updated] + 1 = Len(s)
    BY <1>2 DEF NewArea, Ram, AreaBlocks
  <2>2. area_offset_table[updated] < P - 1 /\ area_offset_table[updated] \in 0 .. P - 1
    BY <1>2 DEF Ram, AreaBlocks
  <2>3. \A n \in 0 .. P - 1 : n % P = n
    BY Geometry
  <2>4. area_offset_table[updated] + 1 \in 0 .. P - 1
    BY <2>2, Geometry
  <2> QED BY <2>1, <2>3, <2>4
<1> QED BY <1>1, <1>2

\* AREA_Update: the page that is written is the next one of the area block, in
\* the old block as in a new one, and afterwards the table on flash has the
\* update.
LEMMA AreaWritten ==
  ASSUME UbiInv, AreaWrite
  PROVE  /\ powered /\ at = "areaWrite" /\ Ram /\ Refs /\ Typed /\ Faults
         /\ todo = Plan("areaWrite", local.op, full, cached_area_number) /\ todo' = Tail(todo)
         /\ UNCHANGED <<anchorFlash, anchor_table, index_table, index_block, index_next_page, local,
                        powered, content, clobbered, ops, campaign, cached_area_number>>
         /\ nand' \in Nands
         /\ \A x \in Phy : x # index_table.area[updated].block => nand'[x] = nand[x]
         /\ \A a \in Area : HasArea(nand', index_table.area[a].block, a)
         /\ area_offset_table' \in [Area -> 0 .. P - 1]
         /\ \A a \in Area : area_offset_table'[a] + 1 = Len(nand'[index_table.area[a].block])
         /\ cached_area_table' = TableOn(nand', index_table.area[updated].block)
         /\ cached_area_table' = UpdatedTable(plr)
         /\ \A a \in Area : a # updated => index_table.area[a].block # index_table.area[updated].block
<1> DEFINE block == index_table.area[updated].block
           page == (area_offset_table[updated] + 1) % P
           table == UpdatedTable(plr)
           s == nand[block]
           s2 == Programmed(s, page, AreaPage(table))
<1>1. /\ powered /\ at = "areaWrite" /\ Ram /\ Refs /\ Typed /\ Faults
      /\ todo = Plan("areaWrite", local.op, full, cached_area_number)
  BY AtStep DEF AreaWrite, Steps, CommitSteps
<1>2. /\ ~mounting /\ Committing /\ plr.log \in LogBlock /\ updated \in Area
      /\ cached_area_number = updated /\ cached_area_table \in AreaTables(updated)
      /\ AreaTable(updated) = cached_area_table
      /\ area_offset_table \in [Area -> 0 .. P - 1] /\ Entry(plr.block, plr.ec) \in Entries
  BY <1>1, InCommitFacts DEF CommitSteps
<1>3. ~MayFail("area")
  BY <1>1 DEF MayFail, Faults, Benign
<1>4. /\ nand' = ProgramAt(block, page, AreaPage(table))
      /\ area_offset_table' = [area_offset_table EXCEPT ![updated] = page]
      /\ todo' = Tail(todo) /\ cached_area_number' = updated /\ cached_area_table' = table
      /\ UNCHANGED <<anchorFlash, anchor_table, index_table, index_block, index_next_page, local,
                     powered, content, clobbered, ops, campaign>>
  BY <1>3 DEF AreaWrite, Failing, Rest, updated, plr
<1>5. table \in AreaTables(updated)
  BY <1>2, AreaOf DEF UpdatedTable, updated, AreaTables
<1>6. /\ nand \in Nands /\ block \in Phy /\ s \in Seq(Pages) /\ Len(s) \in Nat
      /\ \A a \in Area : index_table.area[a].block \in Phy
  BY <1>1, <1>2, RamTypes
<1>7. page = Len(s) /\ page \in 0 .. P - 1
  BY <1>1, <1>2, AreaPageFree
<1>8. AreaPage(table) \in Pages /\ AreaPage(table).kind = "area" /\ AreaPage(table).table = table
  BY <1>2, <1>5 DEF Pages, AreaPage
<1>9. s2 \in Seq(Pages) /\ s2 # <<>> /\ Len(s2) = Len(s) + 1 /\ s2[Len(s) + 1] = AreaPage(table)
  <2> DEFINE pg == AreaPage(table)
  <2>1. pg \in Pages /\ page \in Nat
    BY <1>7, <1>8, Geometry
  <2> HIDE DEF pg, s, page
  <2> QED BY <1>6, <1>7, <2>1, ProgrammedType DEF pg
<1>10. nand' = [nand EXCEPT ![block] = s2]
  BY <1>4 DEF ProgramAt, Programmed
<1>11. nand' \in Nands /\ nand'[block] = s2 /\ \A x \in Phy : x # block => nand'[x] = nand[x]
  <2> HIDE DEF block, s2
  <2> QED BY <1>6, <1>9, <1>10 DEF Nands
<1>12. \A a \in Area : a # updated => index_table.area[a].block # block
  BY <1>1, <1>2 DEF Ram, Owners, Layout
<1>13. HasArea(nand', block, updated) /\ TableOn(nand', block) = table
  <2>1. Len(s2) <= P
    BY <1>6, <1>7, <1>9, Geometry
  <2>2. s2[Len(s2)] = AreaPage(table)
    BY <1>9
  <2> HIDE DEF s2, table, block, s
  <2> QED BY <1>5, <1>8, <1>9, <1>11, <2>1, <2>2 DEF HasArea, LastIs, TableOn
<1>14. \A a \in Area : HasArea(nand', index_table.area[a].block, a)
  BY <1>1, <1>6, <1>11, <1>12, <1>13 DEF Ram, AreaBlocks, HasArea, TableOn
<1>15. area_offset_table' \in [Area -> 0 .. P - 1]
       /\ \A a \in Area : area_offset_table'[a] + 1 = Len(nand'[index_table.area[a].block])
  <2>1. area_offset_table'[updated] = page /\ area_offset_table' \in [Area -> 0 .. P - 1]
        /\ \A a \in Area : a # updated => area_offset_table'[a] = area_offset_table[a]
    <3> HIDE DEF page
    <3> QED BY <1>2, <1>4, <1>7
  <2>2. \A a \in Area : a # updated => area_offset_table[a] + 1 = Len(nand[index_table.area[a].block])
    BY <1>1, <1>2 DEF Ram, AreaBlocks
  <2>3. page + 1 = Len(nand'[block])
    BY <1>7, <1>9, <1>11
  <2> HIDE DEF page, block
  <2> QED BY <1>6, <1>11, <1>12, <2>1, <2>2, <2>3 DEF block
<1> QED BY <1>1, <1>2, <1>4, <1>11, <1>12, <1>13, <1>14, <1>15

\* AREA_Update: the area table gets the update that the index has logged, or goes
\* to a new block that flash does not name yet.
LEMMA AreaWriteKeeps ==
  ASSUME UbiInv, AreaWrite
  PROVE  UbiInv' /\ RefsKept /\ FlashKept
<1> DEFINE block == index_table.area[updated].block
<1>1. /\ powered /\ at = "areaWrite" /\ Ram /\ Refs /\ Typed /\ Faults
      /\ todo = Plan("areaWrite", local.op, full, cached_area_number) /\ todo' = Tail(todo)
  BY AreaWritten
<1>2. UNCHANGED <<anchorFlash, anchor_table, index_table, index_block, index_next_page, local,
                  powered, content, clobbered, ops, campaign, cached_area_number>>
  BY AreaWritten
<1>3. /\ nand' \in Nands
      /\ \A x \in Phy : x # block => nand'[x] = nand[x]
      /\ \A a \in Area : HasArea(nand', index_table.area[a].block, a)
      /\ area_offset_table' \in [Area -> 0 .. P - 1]
      /\ \A a \in Area : area_offset_table'[a] + 1 = Len(nand'[index_table.area[a].block])
      /\ \A a \in Area : a # updated => index_table.area[a].block # block
  BY AreaWritten
<1>4. cached_area_table' = TableOn(nand', block) /\ cached_area_table' = UpdatedTable(plr)
  BY AreaWritten
<1>5. /\ ~mounting /\ Committing /\ plr.log \in LogBlock /\ updated \in Area
      /\ cached_area_number = updated /\ cached_area_table \in AreaTables(updated)
      /\ AreaTable(updated) = cached_area_table /\ Entry(plr.block, plr.ec) \in Entries
  BY <1>1, InCommitFacts DEF CommitSteps
<1>6. /\ nand \in Nands /\ block \in Phy /\ index_table \in IndexTables
      /\ \A a \in Area : index_table.area[a].block \in Phy
      /\ RamMap \in [LogBlock -> Phy] /\ index_block.block \in Phy
  BY <1>1, <1>5, RamTypes
<1>7. /\ index_block.block # block /\ \A l \in LogBlock : RamMap[l] # block
  BY <1>1, <1>5 DEF Ram, Owners, Layout
<1>8. /\ full => at' = "indexUpdate" /\ todo' = Plan("indexUpdate", local.op, full, cached_area_number)
      /\ ~full => at' = "commitDone" /\ todo' = Plan("commitDone", local.op, full, cached_area_number)
  <2>1. cached_area_number # NONE
    BY <1>5, AreasNat
  <2>2. /\ full => todo' = Plan("indexUpdate", local.op, full, cached_area_number)
        /\ ~full => todo' = Plan("commitDone", local.op, full, cached_area_number)
    BY <1>1, <2>1, PlanTails
  <2> QED BY <2>2, PlanFirst DEF at
<1>9. /\ at' \in {"indexUpdate", "commitDone"} /\ (at' = "indexUpdate" <=> full)
      /\ ~mounting' /\ full' = full /\ updated' = updated /\ plr' = plr
  BY <1>2, <1>5, <1>8 DEF mounting, full, updated, plr
<1>10. /\ Committing' /\ IsApplied' /\ ~NewArea' /\ ~Holding' /\ InFlight' = {}
       /\ (IsSettled' <=> ~full) /\ (NewArea <=> full) /\ (IsSettled <=> ~full)
  BY <1>1, <1>9 DEF Committing, IsApplied, NewArea, Holding, IsSettled, InFlight, CallSteps,
     CommitSteps, IndexSteps
<1>11. /\ cached_area_table'[plr.log] = Entry(plr.block, plr.ec)
       /\ \A l \in OfArea(updated) : l # plr.log => cached_area_table'[l] = cached_area_table[l]
       /\ cached_area_table' \in AreaTables(updated)
  BY <1>4, <1>5, AreaOf DEF UpdatedTable, updated, AreaTables
<1>12. Entered(nand', index_table)
  BY <1>4, <1>11 DEF Entered, updated, plr
<1>13. RamMap' = RamMap
  <2>1. RamMap' = TableMap(nand', index_table)
    BY <1>2, <1>10 DEF RamMap
  <2>2. ASSUME NEW l \in LogBlock PROVE TableMap(nand', index_table)[l] = RamMap[l]
    <3>1. AREA_INDEX(l) \in Area /\ l \in OfArea(AREA_INDEX(l))
      BY AreaOf
    <3>2. AREA_INDEX(l) # updated =>
            TableOn(nand', index_table.area[AREA_INDEX(l)].block)
              = TableOn(nand, index_table.area[AREA_INDEX(l)].block)
      BY <1>3, <1>6, <3>1 DEF TableOn
    <3>3. CASE full
      <4>1. RamMap = CacheMap(nand, index_table, updated, cached_area_table)
        BY <1>10, <3>3 DEF RamMap
      <4> QED BY <1>4, <1>11, <3>1, <3>2, <4>1 DEF TableMap, CacheMap, plr
    <3>4. CASE ~full
      <4>1. RamMap = TableMap(nand, index_table)
        BY <1>10, <3>4 DEF RamMap
      <4>2. \A k \in OfArea(updated) : k # plr.log =>
              cached_area_table[k] = TableOn(nand, index_table.area[updated].block)[k]
        BY <1>1, <1>5, <1>10, <3>4 DEF Ram, Cache
      <4> QED BY <1>4, <1>11, <3>1, <3>2, <4>1, <4>2 DEF TableMap, plr
    <3> QED BY <3>3, <3>4
  <2> QED BY <1>6, <2>1, <2>2 DEF TableMap
<1>14. Stage'
  BY <1>2, <1>8, <1>9 DEF Stage, Steps, CommitSteps, IndexSteps, full
<1>15. Owners'
  <2>1. Layout(FbtBlocks(index_table.fbt), index_table.area, index_block.block, RamMap)
    BY <1>1, LayoutShrinks DEF Ram, Owners
  <2> QED BY <1>1, <1>2, <1>10, <1>13, <2>1 DEF Ram, Owners
<1>16. AreaBlocks'
  BY <1>1, <1>2, <1>3, <1>5, <1>9, <1>10 DEF Ram, AreaBlocks, IndexSteps
<1>17. Cache'
  BY <1>2, <1>4, <1>5, <1>9, <1>10, <1>11, <1>12 DEF Cache
<1>18. IndexBlock'
  BY <1>1, <1>2, <1>3, <1>6, <1>7, <1>9 DEF Ram, IndexBlock
<1>19. RamData'
  BY <1>1, <1>2, <1>3, <1>5, <1>6, <1>7, <1>10, <1>13 DEF Ram, RamData, Target
<1>20. Locals'
  BY <1>1, <1>2, <1>5, <1>9, <1>10, <1>13 DEF Ram, Locals, IndexSteps
<1>21. anchorFlash.new.block = index_block.block /\ nand'[index_block.block] = nand[index_block.block]
       /\ nand[index_block.block] # <<>>
  BY <1>1, <1>3, <1>5, <1>6, <1>7 DEF Refs, Ram, IndexBlock, LastIs
<1>22. RefsKept
  <2>1. InFlight = {}
    BY <1>1 DEF InFlight, Holding
  <2> QED BY <1>2, <1>10, <1>13, <2>1 DEF RefsKept, Referred, TableBlocks
<1>23. CASE full
  <2>1. Refs'
    BY <1>2, <1>9, <1>10, <1>21, <1>23 DEF Refs, CallSteps
  <2>2. ASSUME ~clobbered
        PROVE  /\ FlashTables(nand', anchorFlash) /\ FlashData'
               /\ FIB(nand', anchorFlash) = FIB(nand, anchorFlash)
               /\ FI(nand', anchorFlash) = FI(nand, anchorFlash)
               /\ FMap(nand', anchorFlash) = FMap(nand, anchorFlash)
    <3>1. FlashTables(nand, anchorFlash) /\ FlashData /\ block \notin Needs(nand, anchorFlash)
      BY <1>1, <1>10, <1>23, <2>2 DEF UbiInv, Refs
    <3>2. Needs(nand, anchorFlash) \subseteq Phy
          /\ \A l \in LogBlock : FMap(nand, anchorFlash)[l] \in Needs(nand, anchorFlash)
      BY <1>1, <1>6, <3>1, FlashParts DEF Typed
    <3>3. \A x \in Needs(nand, anchorFlash) : nand'[x] = nand[x]
      BY <1>3, <3>1, <3>2
    <3>4. /\ FIB(nand', anchorFlash) = FIB(nand, anchorFlash)
          /\ FI(nand', anchorFlash) = FI(nand, anchorFlash)
          /\ FMap(nand', anchorFlash) = FMap(nand, anchorFlash) /\ FlashTables(nand', anchorFlash)
      BY <1>21, <3>1, <3>3, FlashFrame
    <3> QED BY <1>1, <1>2, <1>9, <1>23, <3>1, <3>2, <3>3, <3>4 DEF FlashData, FlashTarget, Erased
  <2>3. FlashKept
    BY <1>2, <1>10, <1>23, <2>2 DEF FlashKept, Intact
  <2>4. UbiInv'
    BY <1>1, <1>2, <1>3, <1>10, <1>14, <1>15, <1>16, <1>17, <1>18, <1>19, <1>20, <1>23, <2>1, <2>2
       DEF UbiInv, Ram, Typed, Faults, Nands
  <2> QED BY <1>22, <2>3, <2>4
<1>24. CASE ~full
  <2>1. SameRefs /\ FMap(nand, anchorFlash) = RamMap /\ FlashTables(nand, anchorFlash) /\ FlashData
    BY <1>1, <1>10, <1>24, SettledNeeds DEF UbiInv
  <2>2. FIB(nand', anchorFlash) = index_block.block /\ FI(nand', anchorFlash) = FI(nand, anchorFlash)
        /\ FIB(nand, anchorFlash) = index_block.block
    BY <1>21 DEF FIB, FI, TableOn
  <2>3. SameRefs'
    BY <1>2, <2>1, <2>2 DEF SameRefs
  <2>4. FMap(nand', anchorFlash) = RamMap
    <3>1. FMap(nand', anchorFlash) = TableMap(nand', index_table)
      BY <2>1, <2>2, MapRefs DEF FMap, SameRefs
    <3> QED BY <1>2, <1>10, <1>13, <3>1 DEF RamMap
  <2>5. FlashTables(nand', anchorFlash)
    BY <1>3, <1>21, <2>1, <2>2, <2>4 DEF FlashTables, SameRefs
  <2>6. FlashData'
    BY <1>1, <1>2, <1>3, <1>6, <1>7, <1>9, <1>24, <2>1, <2>4 DEF FlashData, FlashTarget, Erased
  <2>7. Refs'
    BY <1>2, <1>9, <1>10, <1>21, <1>24, <2>3 DEF Refs, CallSteps
  <2>8. FlashKept
    BY <1>1, <1>2, <1>10, <1>24, <2>1, <2>2, <2>4 DEF FlashKept, Intact
  <2>9. UbiInv'
    BY <1>1, <1>2, <1>3, <1>10, <1>14, <1>15, <1>16, <1>17, <1>18, <1>19, <1>20, <2>5, <2>6, <2>7
       DEF UbiInv, Ram, Typed, Faults, Nands
  <2> QED BY <1>22, <2>8, <2>9
<1> QED BY <1>23, <1>24

\* ANCHOR_IndexReclaim: the anchor names the new, still empty index block and
\* the old one, so that flash says what it said before.
LEMMA AnchorWriteKeeps ==
  ASSUME UbiInv, AnchorWrite
  PROVE  UbiInv' /\ FlashKept /\ TakesOver(index_block)
<1> DEFINE g == local.got
           F == FbtBlocks(index_table.fbt)
           f2 == FbtPut(index_table.fbt, index_block.block, index_block.ec)
<1>1. /\ powered /\ at = "anchorWrite" /\ Ram /\ Refs /\ Typed /\ Faults
      /\ todo = Plan("anchorWrite", local.op, full, cached_area_number)
  BY AtStep DEF AnchorWrite, Steps, IndexSteps
<1>2. Holding /\ InFlight = {g.block} /\ ~NewArea
  BY <1>1 DEF Holding, InFlight, NewArea
<1>3. /\ g \in Entries /\ nand[g.block] = <<>> /\ g.block \notin F
      /\ Layout(F \cup {g.block}, index_table.area, index_block.block, RamMap)
  BY <1>1, <1>2 DEF Ram, Owners
<1>4. index_block \in Entries /\ index_block.block \in Phy /\ index_block.ec \in Nat
      /\ index_table \in IndexTables /\ TableOf(Phy, index_table.fbt) /\ anchor_table \in Anchors
  BY <1>1, RamTypes, Entries2 DEF Ram, Owners
<1>5. TableOf(Phy, f2) /\ FbtBlocks(f2) \subseteq F \cup {index_block.block}
  <2>1. index_block.block \notin F
    BY <1>3 DEF Layout
  <2> QED BY <1>4, <2>1, PutAdds, Geometry
<1>6. /\ index_table' \in IndexTables /\ index_table'.fbt = f2 /\ index_table'.plr = index_table.plr
      /\ index_table'.area = index_table.area
  <2>1. index_table' = [index_table EXCEPT !.fbt = f2]
    BY DEF AnchorWrite, PutBack
  <2> HIDE DEF f2
  <2> QED BY <1>4, <1>5, <2>1, WithFbt
<1>7. /\ UNCHANGED <<nand, area_offset_table, cached_area_number, cached_area_table, local, powered,
                     content, clobbered, ops, campaign>>
      /\ index_block' = g /\ index_next_page' = 0 /\ anchorFlash' = anchor_table'
      /\ todo' = Tail(todo)
  BY DEF AnchorWrite, areaVars, history, faults, Rest
<1>8. anchor_table' \in Anchors /\ anchor_table'.new = g /\ anchor_table'.old = index_block
  BY <1>3, <1>4 DEF AnchorWrite, Anchors
<1>9. /\ at' = "indexWrite" /\ todo' = Plan("indexWrite", local.op, full, cached_area_number)
      /\ (mounting' <=> mounting) /\ full' = full /\ updated' = updated /\ plr' = plr
  <2>1. todo' = Plan("indexWrite", local.op, full, cached_area_number)
    BY <1>1, <1>7, PlanTails
  <2>2. AtOf(todo') = "indexWrite"
    BY <2>1, PlanFirst
  <2> QED BY <1>6, <1>7, <2>1, <2>2 DEF at, mounting, full, updated, plr
<1>10. /\ (Committing' <=> Committing) /\ (IsApplied' <=> IsApplied) /\ ~NewArea' /\ ~Holding'
       /\ InFlight' = {} /\ ~IsSettled'
  BY <1>1, <1>9 DEF Committing, IsApplied, NewArea, Holding, IsSettled, InFlight, CallSteps,
     CommitSteps, IndexSteps
<1>11. RamMap' = RamMap /\ (Entered(nand', index_table') <=> Entered(nand, index_table))
  BY <1>2, <1>6, <1>7, <1>10, MapRefs DEF RamMap
<1>12. Stage'
  BY <1>1, <1>7, <1>9 DEF Ram, Stage, Steps, IndexSteps, full
<1>13. Owners'
  <2>1. FbtBlocks(f2) \subseteq ((F \cup {g.block}) \ {g.block}) \cup {index_block.block}
    BY <1>3, <1>5
  <2>2. Layout(FbtBlocks(f2), index_table.area, g.block, RamMap)
    <3> DEFINE H == F \cup {g.block}
               F2 == FbtBlocks(f2)
               x == g.block
               ib == index_block.block
    <3>1. Layout(H, index_table.area, ib, RamMap) /\ x \in H /\ F2 \subseteq (H \ {x}) \cup {ib}
      BY <1>3, <2>1
    <3> HIDE DEF H, F2, x, ib
    <3>2. Layout(F2, index_table.area, x, RamMap)
      BY <3>1, LayoutIndex
    <3> QED BY <3>2 DEF F2, x
  <2> QED BY <1>3, <1>5, <1>6, <1>7, <1>8, <1>10, <1>11, <2>2 DEF Owners
<1>14. AreaBlocks'
  BY <1>1, <1>2, <1>6, <1>7, <1>9, <1>10 DEF Ram, AreaBlocks, HasArea, IndexSteps
<1>15. Cache'
  BY <1>1, <1>2, <1>6, <1>7, <1>9, <1>10, <1>11 DEF Ram, Cache
<1>16. IndexBlock'
  BY <1>3, <1>7, <1>9, Geometry DEF IndexBlock
<1>17. RamData'
  BY <1>1, <1>7, <1>10, <1>11 DEF Ram, RamData, Target
<1>18. Locals'
  BY <1>1, <1>7, <1>9, <1>10, <1>11 DEF Ram, Locals, IndexSteps
<1>19. Refs'
  <2>1. anchorFlash'.new.block = index_block'.block
    BY <1>7, <1>8
  <2>2. nand'[index_block'.block] = <<>>
    BY <1>3, <1>7
  <2> QED BY <1>1, <1>7, <1>9, <1>10, <2>1, <2>2 DEF Refs, CallSteps
<1>20. FIB(nand, anchorFlash) = index_block.block
  <2>1. CASE mounting
    BY <1>1, <2>1 DEF Refs, IsSettled, SameRefs
  <2>2. CASE ~mounting
    BY <1>1, <2>2 DEF Refs, FIB, Ram, IndexBlock, LastIs
  <2> QED BY <2>1, <2>2
<1>21. /\ FIB(nand, anchorFlash') = FIB(nand, anchorFlash)
       /\ FI(nand, anchorFlash') = FI(nand, anchorFlash)
          /\ FMap(nand, anchorFlash') = FMap(nand, anchorFlash)
  BY <1>3, <1>7, <1>8, <1>20 DEF FIB, FI, FMap
<1>22. ~clobbered => FlashTables(nand, anchorFlash') /\ FlashData'
  <2>1. ~clobbered => FlashTables(nand, anchorFlash) /\ FlashData
    BY DEF UbiInv
  <2>2. anchorFlash'.old \in Entries
    BY <1>4, <1>7, <1>8
  <2> QED BY <1>1, <1>7, <1>9, <1>21, <2>1, <2>2 DEF FlashTables, FlashData, FlashTarget, Erased
<1>23. Typed' /\ Faults'
  BY <1>1, <1>7, <1>8 DEF Typed, Faults
<1>24. UbiInv'
  BY <1>1, <1>7, <1>10, <1>12, <1>13, <1>14, <1>15, <1>16, <1>17, <1>18, <1>19, <1>22, <1>23
     DEF UbiInv, Ram
<1>25. FlashKept
  BY <1>7, <1>10, <1>21 DEF FlashKept, Intact
<1>26. TakesOver(index_block)
  <2>1. Referred \subseteq Referred' \cup {index_block.block} /\ g.block \in Referred'
    BY <1>6, <1>7, <1>11 DEF Referred, TableBlocks
  <2>2. index_block.block \notin F
    BY <1>3 DEF Layout
  <2> QED BY <1>2, <1>4, <1>6, <1>10, <2>1, <2>2 DEF TakesOver
<1> QED BY <1>24, <1>25, <1>26

\* TABLE_Write of the index table: the moment at which flash takes over the
\* references of RAM.
LEMMA IndexWriteKeeps ==
  ASSUME UbiInv, IndexWrite
  PROVE  UbiInv' /\ RefsKept /\ IsSettled' /\ FI(nand', anchorFlash') = index_table'
<1> DEFINE ib == index_block.block
           s == nand[ib]
           s2 == Programmed(s, index_next_page, IndexPage(index_table))
<1>1. /\ powered /\ at = "indexWrite" /\ Ram /\ Refs /\ Typed /\ Faults
      /\ todo = Plan("indexWrite", local.op, full, cached_area_number)
  BY AtStep DEF IndexWrite, Steps, IndexSteps
<1>2. /\ UNCHANGED <<anchorFlash, anchor_table, index_table, index_block, area_offset_table,
                     cached_area_number, cached_area_table, local, powered, content, clobbered, ops,
                     campaign>>
      /\ nand' = ProgramAt(ib, index_next_page, IndexPage(index_table))
      /\ index_next_page' = index_next_page + 1 /\ todo' = Tail(todo)
  BY DEF IndexWrite, areaVars, history, faults, Rest
<1>3. /\ nand \in Nands /\ ib \in Phy /\ s \in Seq(Pages) /\ Len(s) \in Nat
         /\ index_table \in IndexTables
      /\ \A a \in Area : index_table.area[a].block \in Phy
      /\ RamMap \in [LogBlock -> Phy]
  BY <1>1, RamTypes
<1>4. index_next_page \in Nat /\ index_next_page < P /\ index_next_page = Len(s)
  BY <1>1, Geometry DEF Ram, IndexBlock
<1>5. IndexPage(index_table) \in Pages /\ IndexPage(index_table).kind = "index"
      /\ IndexPage(index_table).table = index_table
  BY <1>3 DEF Pages, IndexPage
<1>6. s2 \in Seq(Pages) /\ s2 # <<>> /\ Len(s2) = Len(s) + 1 /\ s2[Len(s) + 1] = IndexPage(index_table)
  <2> DEFINE pg == IndexPage(index_table)
  <2>1. pg \in Pages
    BY <1>5
  <2> HIDE DEF pg, s
  <2> QED BY <1>3, <1>4, <2>1, ProgrammedType DEF pg
<1>7. nand' \in Nands /\ nand'[ib] = s2 /\ \A x \in Phy : x # ib => nand'[x] = nand[x]
  <2>1. nand' = [nand EXCEPT ![ib] = s2]
    BY <1>2 DEF ProgramAt, Programmed
  <2> HIDE DEF ib, s2
  <2> QED BY <1>3, <1>6, <2>1 DEF Nands
<1>8. LastIs(nand'[ib], "index") /\ TableOn(nand', ib) = index_table
  <2>1. Len(s2) <= P
    BY <1>3, <1>4, <1>6, Geometry
  <2>2. s2[Len(s2)] = IndexPage(index_table)
    BY <1>6
  <2> HIDE DEF s2, s, ib
  <2> QED BY <1>5, <1>6, <1>7, <2>1, <2>2 DEF LastIs, TableOn
<1>9. /\ mounting => at' = "mountAreas"
         /\ todo' = Plan("mountAreas", local.op, full, cached_area_number)
      /\ ~mounting /\ full => at' = "commitDone"
         /\ todo' = Plan("commitDone", local.op, full, cached_area_number)
      /\ ~mounting /\ ~full => at' = "areaWrite"
         /\ todo' = Plan("areaWrite", local.op, full, cached_area_number)
  <2>1. todo' = AfterIndex(local.op, full, cached_area_number)
    BY <1>1, <1>2, PlanTails
  <2>2. /\ mounting => todo' = Plan("mountAreas", local.op, full, cached_area_number)
        /\ ~mounting /\ full => todo' = Plan("commitDone", local.op, full, cached_area_number)
        /\ ~mounting /\ ~full => todo' = Plan("areaWrite", local.op, full, cached_area_number)
    BY <2>1, AfterIndexPlan DEF mounting
  <2>3. ~mounting => AtOf(Plan("areaWrite", local.op, full, cached_area_number)) = "areaWrite"
    BY PlanFirst DEF mounting
  <2> QED BY <2>2, <2>3, PlanFirst DEF at
<1>10. /\ at' \in {"mountAreas", "commitDone", "areaWrite"} /\ (at' = "mountAreas" <=> mounting)
       /\ (at' = "commitDone" <=> full) /\ (full => ~mounting)
       /\ (mounting' <=> mounting) /\ full' = full /\ updated' = updated /\ plr' = plr
  BY <1>1, <1>2, <1>9 DEF mounting, full, updated, plr, Ram, Stage
<1>11. /\ (Committing' <=> Committing) /\ (IsApplied' <=> IsApplied) /\ ~NewArea' /\ ~NewArea
          /\ ~Holding'
       /\ InFlight' = {} /\ IsSettled' /\ (Committing <=> ~mounting)
  BY <1>1, <1>10 DEF Committing, IsApplied, NewArea, Holding, IsSettled, InFlight, CallSteps,
     CommitSteps, IndexSteps
<1>12. /\ \A a \in Area : index_table.area[a].block # ib
       /\ \A l \in LogBlock : RamMap[l] # ib
  BY <1>1 DEF Ram, Owners, Layout
<1>13. \A a \in Area : nand'[index_table.area[a].block] = nand[index_table.area[a].block]
  BY <1>3, <1>7, <1>12
<1>14. RamMap' = RamMap /\ RamMap = TableMap(nand', index_table)
       /\ (Entered(nand', index_table) <=> Entered(nand, index_table))
  <2>1. TableMap(nand', index_table) = TableMap(nand, index_table)
        /\ (Entered(nand', index_table) <=> Entered(nand, index_table))
    BY <1>3, <1>13, MapFrame
  <2> QED BY <1>2, <1>11, <2>1 DEF RamMap
<1>15. Stage'
  BY <1>2, <1>9, <1>10 DEF Stage, Steps, CommitSteps, IndexSteps, full
<1>16. Owners'
  <2>1. Layout(FbtBlocks(index_table.fbt), index_table.area, ib, RamMap)
    BY <1>1, LayoutShrinks DEF Ram, Owners
  <2> QED BY <1>1, <1>2, <1>11, <1>14, <2>1 DEF Ram, Owners
<1>17. \A a \in Area : HasArea(nand', index_table.area[a].block, a)
  BY <1>1, <1>11, <1>13 DEF Ram, AreaBlocks, HasArea, TableOn
<1>18. AreaBlocks'
  BY <1>1, <1>2, <1>10, <1>11, <1>13, <1>17 DEF Ram, AreaBlocks, IndexSteps
<1>19. Cache'
  <2>1. \A a \in Area : TableOn(nand', index_table.area[a].block)
          = TableOn(nand, index_table.area[a].block)
    BY <1>13 DEF TableOn
  <2>2. Committing => updated \in Area
    BY <1>1, AreaOf DEF Ram, AreaBlocks, updated
  <2> QED BY <1>1, <1>2, <1>10, <1>11, <1>14, <2>1, <2>2 DEF Ram, Cache
<1>20. IndexBlock'
  <2>1. index_next_page + 1 \in 0 .. P /\ index_next_page + 1 = Len(nand'[ib])
    BY <1>3, <1>4, <1>6, <1>7, Geometry
  <2> QED BY <1>2, <1>8, <1>10, <2>1 DEF IndexBlock
<1>21. RamData'
  BY <1>1, <1>2, <1>3, <1>7, <1>11, <1>12, <1>14 DEF Ram, RamData, Target
<1>22. Locals'
  BY <1>1, <1>2, <1>10, <1>11, <1>14 DEF Ram, Locals, IndexSteps
<1>23. /\ FIB(nand', anchorFlash) = ib /\ FI(nand', anchorFlash) = index_table
       /\ FMap(nand', anchorFlash) = RamMap /\ anchorFlash.new.block = ib /\ nand'[ib] # <<>>
  <2>1. anchorFlash.new.block = ib /\ nand'[ib] # <<>>
    BY <1>1, <1>6, <1>7 DEF Refs
  <2>2. FIB(nand', anchorFlash) = ib
    BY <2>1 DEF FIB
  <2>3. FI(nand', anchorFlash) = index_table
    BY <1>8, <2>2 DEF FI
  <2> QED BY <1>14, <2>1, <2>2, <2>3 DEF FMap
<1>24. FlashTables(nand', anchorFlash)
  <2>1. Layout(FbtBlocks(index_table.fbt), index_table.area, ib, RamMap)
    BY <1>1, LayoutShrinks DEF Ram, Owners
  <2> QED BY <1>1, <1>3, <1>8, <1>17, <1>23, <2>1 DEF FlashTables, Ram, Owners
<1>25. FlashData'
  <2>1. \A l \in LogBlock : HoldsPages(nand'[RamMap[l]], Target(l)')
    BY <1>14, <1>21 DEF RamData
  <2>2. \A l \in LogBlock : FlashTarget(l)' = Target(l)'
    <3>1. local.op = "erase" => ~mounting
      BY <1>1 DEF Ram, Locals, IndexSteps
    <3>2. local.op = "erase" => Erased' /\ Committing'
      BY <1>2, <1>9, <3>1 DEF Erased, Committing, CommitSteps, full
    <3> QED BY <1>2, <3>2 DEF FlashTarget, Erased, Target
  <2> QED BY <1>2, <1>23, <2>1, <2>2 DEF FlashData
<1>26. Refs'
  <2>1. SameRefs'
    BY <1>2, <1>23 DEF SameRefs
  <2> QED BY <1>1, <1>2, <1>10, <1>11, <1>23, <2>1 DEF Refs, CallSteps
<1>27. Typed' /\ Faults'
  BY <1>1, <1>2, <1>7 DEF Typed, Faults, Nands
<1>28. UbiInv'
  BY <1>1, <1>2, <1>15, <1>16, <1>18, <1>19, <1>20, <1>21, <1>22, <1>24, <1>25, <1>26, <1>27
     DEF UbiInv, Ram
<1>29. RefsKept
  <2>1. InFlight = {}
    BY <1>1 DEF InFlight, Holding
  <2> QED BY <1>2, <1>11, <1>14, <2>1 DEF RefsKept, Referred, TableBlocks
<1>30. IsSettled' /\ FI(nand', anchorFlash') = index_table'
  BY <1>2, <1>11, <1>23
<1> QED BY <1>28, <1>29, <1>30

\* The end of INDEX_Update_Commit.
LEMMA CommitDoneKeeps ==
  ASSUME UbiInv, CommitDone
  PROVE  UbiInv' /\ RefsKept /\ FlashKept
<1> DEFINE s == EndStep(local.op)
<1>1. /\ powered /\ at = "commitDone" /\ Ram /\ Refs /\ Typed /\ Faults
      /\ todo = Plan("commitDone", local.op, full, cached_area_number)
  BY AtStep DEF CommitDone, Steps, CommitSteps
<1>2. /\ ~mounting /\ Committing /\ plr.log \in LogBlock /\ updated \in Area
      /\ cached_area_number = updated
  BY <1>1, InCommitFacts DEF CommitSteps
<1>3. IsApplied /\ IsSettled /\ ~NewArea /\ ~Holding /\ InFlight = {}
  BY <1>1 DEF IsApplied, IsSettled, NewArea, Holding, InFlight
<1>4. /\ UNCHANGED <<nand, anchorFlash, anchor_table, index_table, index_block, index_next_page,
                     area_offset_table, cached_area_number, cached_area_table, powered, ops, campaign>>
      /\ todo' = Tail(todo) /\ clobbered' = FALSE
      /\ content' = IF local.op = "erase" THEN [content EXCEPT ![local.log] = <<>>] ELSE content
      /\ local' = IF todo' = <<>> THEN NoLocal ELSE [local EXCEPT !.area_reclaim = FALSE]
  BY DEF CommitDone, flashVars, areaVars, faults, Rest
<1>5. todo' = EndOf(local.op)
  BY <1>1, <1>4, PlanTails
<1>6. /\ local.op \in {"erase", "swl", "write", "mountOld"}
      /\ IF local.op = "mountOld" THEN local.log = NONE ELSE local.log = plr.log
  BY <1>1, <1>2 DEF Ram, Locals
<1>7. /\ local.op \in {"erase", "swl"} <=> todo' = <<>>
      /\ at' = s /\ s \in {"idle", "reprogram", "mountRest"}
      /\ (s = "reprogram" <=> local.op = "write") /\ (s = "mountRest" <=> local.op = "mountOld")
      /\ (s = "idle" <=> local.op \in {"erase", "swl"})
  BY <1>5, <1>6 DEF EndOf, EndStep, at, AtOf
<1>8. local \in LocalVars /\ content \in [LogBlock -> Seq(Pages)]
  BY <1>1, RamTypes
<1>9. /\ local' \in LocalVars /\ ~full' /\ (s = "idle" => local' = NoLocal)
      /\ s # "idle" => local'.op = local.op /\ local'.log = local.log /\ local'.new = local.new
                       /\ local'.page = local.page
  <2>1. CASE s = "idle"
    BY <1>4, <1>7, <2>1, NoLocalType DEF full
  <2>2. CASE s # "idle"
    <3>1. local' = [local EXCEPT !.area_reclaim = FALSE]
      BY <1>4, <1>7, <2>2
    <3> QED BY <1>8, <2>2, <3>1 DEF LocalVars, full
  <2> QED BY <2>1, <2>2
<1>10. at' \in CallSteps /\ ~mounting' /\ ~Committing' /\ IsApplied' /\ IsSettled' /\ ~NewArea'
       /\ ~Holding' /\ InFlight' = {} /\ plr' = plr
  <2>1. at' \in CallSteps /\ ~mounting' /\ plr' = plr
    BY <1>2, <1>4, <1>7 DEF CallSteps, mounting, plr
  <2> QED BY <1>7, <2>1 DEF Committing, IsApplied, IsSettled, NewArea, Holding, InFlight,
             CommitSteps, IndexSteps
<1>11. RamMap' = RamMap
  BY <1>3, <1>4, <1>10 DEF RamMap
<1>12. Stage'
  <2>1. todo' = Plan(s, local'.op, full', cached_area_number') /\ s \in Steps
    BY <1>5, EndPlan
  <2> QED BY <1>7, <1>9, <1>10, <2>1 DEF Stage
<1>13. Owners'
  BY <1>1, <1>3, <1>4, <1>10, <1>11 DEF Ram, Owners
<1>14. AreaBlocks'
  BY <1>1, <1>2, <1>3, <1>4, <1>10 DEF Ram, AreaBlocks, HasArea
<1>15. Cache'
  BY <1>1, <1>3, <1>4, <1>10 DEF Ram, Cache
<1>16. IndexBlock'
  BY <1>1, <1>4, <1>7 DEF Ram, IndexBlock
<1>17. /\ content' \in [LogBlock -> Seq(Pages)] /\ \A l \in LogBlock : content'[l] = Target(l)
       /\ local.op # "erase" => content' = content
  <2>1. <<>> \in Seq(Pages)
    OBVIOUS
  <2> QED BY <1>2, <1>4, <1>6, <1>8, <2>1 DEF Target
<1>18. RamData'
  BY <1>1, <1>4, <1>10, <1>11, <1>17 DEF Ram, RamData, Target
<1>19. Locals'
  <2>1. local.op = "write" =>
          /\ local.log \in LogBlock
          /\ campaign.bad = 0 /\ local.page = Len(content[local.log]) /\ local.page < P
          /\ local.new.block = RamMap[local.log]
    BY <1>1, <1>2 DEF Ram, Locals
  <2> QED BY <1>4, <1>6, <1>7, <1>9, <1>10, <1>11, <1>17, <2>1, NoLocalType DEF Locals, IndexSteps
<1>20. SameRefs /\ FMap(nand, anchorFlash) = RamMap /\ FlashTables(nand, anchorFlash)
  BY <1>1, <1>3, SettledNeeds DEF UbiInv
<1>21. FlashData'
  BY <1>4, <1>7, <1>10, <1>11, <1>18, <1>20 DEF FlashData, FlashTarget, Erased, RamData, Target
<1>22. Refs'
  <2>1. anchorFlash.new.block = index_block.block
    BY <1>1, <1>2 DEF Refs
  <2> QED BY <1>4, <1>7, <1>10, <1>20, <2>1 DEF Refs, SameRefs
<1>23. Typed' /\ Faults'
  BY <1>1, <1>4, <1>9, <1>17 DEF Typed, Faults
<1>24. UbiInv'
  BY <1>1, <1>4, <1>12, <1>13, <1>14, <1>15, <1>16, <1>18, <1>19, <1>20, <1>21, <1>22, <1>23
     DEF UbiInv, Ram
<1>25. RefsKept
  BY <1>3, <1>4, <1>10, <1>11 DEF RefsKept, Referred, TableBlocks
<1>26. FlashKept
  BY <1>1, <1>3, <1>4 DEF FlashKept, Intact
<1> QED BY <1>24, <1>25, <1>26
-----------------------------------------------------------------------------
(* Steps between commits that program or erase blocks that are not tables *)

LEMMA StoreMap ==
  ASSUME Ram, Typed, at \in CallSteps, at' \in CallSteps, index_table' = index_table,
         \A a \in Area : nand'[index_table.area[a].block] = nand[index_table.area[a].block]
  PROVE  /\ RamMap' = RamMap /\ RamMap = TableMap(nand, index_table)
         /\ RamMap = TableMap(nand', index_table) /\ Entered(nand', index_table)
         /\ ~NewArea' /\ ~Committing' /\ IsApplied' /\ IsSettled'
<1>1. RamMap = TableMap(nand, index_table) /\ Entered(nand, index_table) /\ index_table \in IndexTables
  BY CacheRead, RamTypes
<1>2. ~NewArea' /\ ~Committing' /\ IsApplied' /\ IsSettled'
  BY DEF NewArea, Committing, IsApplied, IsSettled, CallSteps, CommitSteps, IndexSteps
<1>3. TableMap(nand', index_table) = TableMap(nand, index_table)
      /\ (Entered(nand', index_table) <=> Entered(nand, index_table))
  BY <1>1, MapFrame
<1>4. RamMap' = TableMap(nand', index_table)
  BY <1>2 DEF RamMap
<1> QED BY <1>1, <1>2, <1>3, <1>4

LEMMA StoreKeeps ==
  ASSUME UbiInv, powered, Ram, Refs, at \in CallSteps, at' \in CallSteps, ~Holding, ~Holding',
         UNCHANGED <<anchorFlash, index_table, index_block, index_next_page, area_offset_table,
                     powered>>,
         ~clobbered', nand' \in Nands,
         \A a \in Area : nand'[index_table.area[a].block] = nand[index_table.area[a].block],
         nand'[index_block.block] = nand[index_block.block],
         \A l \in LogBlock : HoldsPages(nand'[RamMap[l]], content'[l]),
         cached_area_number' \in Area, cached_area_table' = AreaTable(cached_area_number'),
         anchor_table' \in Anchors, Stage', Locals', Typed', Faults'
  PROVE  UbiInv' /\ RefsKept /\ FlashKept
<1>1. Typed
  BY DEF UbiInv
<1>2. /\ RamMap = TableMap(nand, index_table) /\ Entered(nand, index_table) /\ ~NewArea /\ ~Committing
      /\ ~mounting
      /\ \A a \in Area : AreaTable(a) = TableOn(nand, index_table.area[a].block)
  BY <1>1, CacheRead
<1>3. /\ RamMap' = RamMap /\ RamMap = TableMap(nand', index_table) /\ Entered(nand', index_table)
      /\ ~NewArea' /\ ~Committing' /\ IsApplied' /\ IsSettled'
  BY <1>1, StoreMap
<1>4. InFlight' = {} /\ ~mounting' /\ IsSettled
  BY AreasNat DEF InFlight, mounting, IsSettled
<1>5. Owners'
  <2>1. Layout(FbtBlocks(index_table.fbt), index_table.area, index_block.block, RamMap)
    BY LayoutShrinks DEF Ram, Owners
  <2> QED BY <1>3, <1>4, <2>1 DEF Ram, Owners
<1>6. \A a \in Area : HasArea(nand', index_table.area[a].block, a)
  BY <1>2 DEF Ram, AreaBlocks, HasArea, TableOn
<1>7. AreaBlocks'
  BY <1>2, <1>3, <1>6 DEF Ram, AreaBlocks
<1>8. Cache'
  BY <1>2, <1>3 DEF Cache, TableOn
<1>9. IndexBlock'
  BY DEF Ram, IndexBlock, CallSteps
<1>10. RamData'
  BY <1>3 DEF RamData, Target
<1>11. SameRefs /\ anchorFlash.new.block = index_block.block /\ nand[index_block.block] # <<>>
  BY <1>2, <1>4 DEF Refs, Ram, IndexBlock, LastIs, CallSteps
<1>12. FIB(nand', anchorFlash) = index_block.block /\ FIB(nand, anchorFlash) = index_block.block
       /\ FI(nand', anchorFlash) = FI(nand, anchorFlash)
  BY <1>11 DEF FIB, FI, TableOn
<1>13. FMap(nand', anchorFlash) = RamMap /\ FMap(nand, anchorFlash) = RamMap
  <2> DEFINE t == FI(nand, anchorFlash)
  <2>1. t.area = index_table.area /\ t.plr = index_table.plr
    BY <1>11 DEF SameRefs
  <2> HIDE DEF t
  <2>2. TableMap(nand', t) = TableMap(nand', index_table)
        /\ TableMap(nand, t) = TableMap(nand, index_table)
    BY <2>1, MapRefs
  <2> QED BY <1>2, <1>3, <1>12, <2>2 DEF FMap, t
<1>14. Refs'
  BY <1>3, <1>4, <1>11, <1>12 DEF Refs, SameRefs, CallSteps
<1>15. FlashTables(nand, anchorFlash)
  BY <1>4 DEF UbiInv
<1>16. FlashTables(nand', anchorFlash)
  BY <1>6, <1>11, <1>12, <1>13, <1>15 DEF FlashTables, SameRefs
<1>17. FlashData'
  BY <1>13 DEF FlashData, FlashTarget, Erased, CallSteps
<1>18. UbiInv'
  BY <1>5, <1>7, <1>8, <1>9, <1>10, <1>14, <1>16, <1>17 DEF UbiInv, Ram
<1>19. RefsKept
  <2>1. InFlight = {}
    BY DEF InFlight
  <2> QED BY <1>3, <1>4, <2>1 DEF RefsKept, Referred, TableBlocks
<1>20. FlashKept
  BY <1>4, <1>12, <1>13 DEF FlashKept, Intact
<1> QED BY <1>18, <1>19, <1>20

\* The program of a page of a logical block: what the other blocks hold stays.
LEMMA ProgramsOne ==
  ASSUME Ram, Typed, at \in CallSteps, NEW l \in LogBlock, NEW p \in Nat, NEW pg \in Pages,
         NEW b, b = RamMap[l], nand' = ProgramAt(b, p, pg)
  PROVE  /\ nand' \in Nands /\ nand'[b] = Programmed(nand[b], p, pg)
         /\ \A a \in Area : nand'[index_table.area[a].block] = nand[index_table.area[a].block]
         /\ nand'[index_block.block] = nand[index_block.block]
         /\ \A k \in LogBlock : k # l => nand'[RamMap[k]] = nand[RamMap[k]]
         /\ \A k \in LogBlock : HoldsPages(nand[RamMap[k]], content[k])
<1>1. /\ nand \in Nands /\ b \in Phy /\ nand[b] \in Seq(Pages) /\ index_block.block \in Phy
      /\ \A a \in Area : index_table.area[a].block \in Phy
      /\ RamMap \in [LogBlock -> Phy]
  BY RamTypes
<1>2. nand' = [nand EXCEPT ![b] = Programmed(nand[b], p, pg)]
  BY DEF ProgramAt, Programmed
<1>3. Programmed(nand[b], p, pg) \in Seq(Pages)
  BY <1>1, ProgrammedType
<1>4. nand' \in Nands /\ nand'[b] = Programmed(nand[b], p, pg)
      /\ \A x \in Phy : x # b => nand'[x] = nand[x]
  BY <1>1, <1>2, <1>3 DEF Nands
<1>5. /\ \A a \in Area : index_table.area[a].block # b
      /\ index_block.block # b /\ \A k \in LogBlock : k # l => RamMap[k] # b
  BY DEF Ram, Owners, Layout
<1>6. \A k \in LogBlock : HoldsPages(nand[RamMap[k]], content[k])
  BY CacheRead DEF Ram, RamData, Target
<1> QED BY <1>1, <1>4, <1>5, <1>6

LEMMA PageTypes ==
  /\ \A n \in Nat : DataPage(n) \in Pages /\ DataPage(n).kind = "data"
  /\ BadPage \in Pages /\ BadPage.kind # "data"
BY DEF Pages, DataPage, BadPage

\* The program of UBI_Write.
LEMMA UbiWriteStores ==
  ASSUME UbiInv, NEW l \in LogBlock, UbiWrite(l),
         nand' = ProgramAt(Mapped(l).block, Len(content[l]), DataPage(ops')),
         content' = [content EXCEPT ![l] = Append(@, DataPage(ops'))],
         UNCHANGED <<todo, local, campaign, failed>>
  PROVE  UbiInv' /\ RefsKept /\ FlashKept
<1> DEFINE b == Mapped(l).block
           pg == DataPage(ops')
<1>1. powered /\ at = "idle" /\ Ram /\ Refs /\ Typed /\ Faults /\ todo = <<>>
  BY AtIdle DEF UbiWrite, Calling
<1>2. at \in CallSteps /\ ~Holding
  BY <1>1 DEF CallSteps, Holding
<1>3. /\ UNCHANGED <<anchorFlash, anchor_table, index_table, index_block, index_next_page,
                     area_offset_table, powered, clobbered>>
      /\ cached_area_number' = AREA_INDEX(l) /\ cached_area_table' = AreaTable(AREA_INDEX(l))
      /\ ops' = ops + 1 /\ ops < MaxOps /\ Len(content[l]) < P
  BY DEF UbiWrite, Calling, ReadArea, indexVars
<1>4. b = RamMap[l] /\ content[l] \in Seq(Pages) /\ Len(content[l]) \in Nat /\ b \in Phy
      /\ nand[b] \in Seq(Pages) /\ local = NoLocal /\ anchor_table \in Anchors
      /\ content \in [LogBlock -> Seq(Pages)]
  BY <1>1, <1>2, CacheRead, RamTypes DEF Ram, Locals, Owners
<1>5. pg \in Pages /\ pg.kind = "data" /\ ops' \in Nat
  BY <1>1, <1>3, PageTypes DEF Typed
<1> HIDE DEF b, pg
<1>6. /\ nand' \in Nands /\ nand'[b] = Programmed(nand[b], Len(content[l]), pg)
      /\ \A a \in Area : nand'[index_table.area[a].block] = nand[index_table.area[a].block]
      /\ nand'[index_block.block] = nand[index_block.block]
      /\ \A k \in LogBlock : k # l => nand'[RamMap[k]] = nand[RamMap[k]]
      /\ \A k \in LogBlock : HoldsPages(nand[RamMap[k]], content[k])
  <2>1. nand' = ProgramAt(b, Len(content[l]), pg)
    BY DEF b, pg
  <2> QED BY <1>1, <1>2, <1>4, <1>5, <2>1, ProgramsOne
<1>7. /\ content'[l] = Append(content[l], pg) /\ \A k \in LogBlock : k # l => content'[k] = content[k]
      /\ HoldsPages(nand'[b], content'[l]) /\ content' \in [LogBlock -> Seq(Pages)]
  <2>1. HoldsPages(Programmed(nand[b], Len(content[l]), pg), Append(content[l], pg))
        /\ Append(content[l], pg) \in Seq(Pages)
    BY <1>3, <1>4, <1>5, <1>6, HoldsAppend
  <2>2. content' = [content EXCEPT ![l] = Append(content[l], pg)]
    BY DEF pg
  <2> QED BY <1>4, <1>6, <2>1, <2>2
<1>8. \A k \in LogBlock : HoldsPages(nand'[RamMap[k]], content'[k])
  BY <1>4, <1>6, <1>7
<1>9. cached_area_number' \in Area /\ cached_area_table' = AreaTable(cached_area_number') /\ ~clobbered'
  BY <1>1, <1>2, <1>3, AreaOf DEF Refs
<1>10. at' \in CallSteps /\ ~Holding' /\ Stage' /\ Locals'
  BY <1>1, <1>4, <1>9, CallEnded
<1>11. Typed' /\ Faults'
  BY <1>1, <1>3, <1>4, <1>5, <1>6, <1>7, Counted DEF Typed, Faults, Nands
<1> QED BY <1>1, <1>2, <1>3, <1>4, <1>6, <1>8, <1>9, <1>10, <1>11, StoreKeeps

\* It fails: the block keeps what was stored before.
LEMMA UbiWriteFails ==
  ASSUME UbiInv, NEW l \in LogBlock, UbiWrite(l), Failing("data", Mapped(l).block),
         nand' = ProgramAt(Mapped(l).block, Len(content[l]), BadPage),
         todo' = <<"getReclaim", "copy">>,
         local' = [NoLocal EXCEPT !.op = "write", !.log = l, !.from = Mapped(l),
                                   !.page = Len(content[l])],
         UNCHANGED content
  PROVE  UbiInv' /\ RefsKept /\ FlashKept
<1> DEFINE e == Mapped(l)
           b == Mapped(l).block
<1>1. powered /\ at = "idle" /\ Ram /\ Refs /\ Typed /\ Faults /\ todo = <<>>
  BY AtIdle DEF UbiWrite, Calling
<1>2. at \in CallSteps /\ ~Holding
  BY <1>1 DEF CallSteps, Holding
<1>3. /\ UNCHANGED <<anchorFlash, anchor_table, index_table, index_block, index_next_page,
                     area_offset_table, powered, clobbered>>
      /\ cached_area_number' = AREA_INDEX(l) /\ cached_area_table' = AreaTable(AREA_INDEX(l))
      /\ ops' = ops + 1 /\ ops < MaxOps /\ Len(content[l]) < P
  BY DEF UbiWrite, Calling, ReadArea, indexVars
<1>4. e \in Entries /\ b = RamMap[l] /\ content[l] \in Seq(Pages) /\ Len(content[l]) \in Nat
      /\ b \in Phy
      /\ nand[b] \in Seq(Pages) /\ anchor_table \in Anchors
      /\ content \in [LogBlock -> Seq(Pages)]
  BY <1>1, <1>2, CacheRead, RamTypes DEF Ram, Owners
<1>5. campaign'.bad = 0 /\ Faults'
  BY <1>1 DEF Faults, FaultPlans, Benign, Failing, MayFail
<1>6. /\ nand' \in Nands /\ nand'[b] = Programmed(nand[b], Len(content[l]), BadPage)
      /\ \A a \in Area : nand'[index_table.area[a].block] = nand[index_table.area[a].block]
      /\ nand'[index_block.block] = nand[index_block.block]
      /\ \A k \in LogBlock : k # l => nand'[RamMap[k]] = nand[RamMap[k]]
      /\ \A k \in LogBlock : HoldsPages(nand[RamMap[k]], content[k])
  <2>1. nand' = ProgramAt(b, Len(content[l]), BadPage)
    OBVIOUS
  <2> HIDE DEF b
  <2> QED BY <1>1, <1>2, <1>4, <2>1, PageTypes, ProgramsOne
<1>7. HoldsPages(nand'[b], content[l])
  BY <1>3, <1>4, <1>6, PageTypes, HoldsOther
<1>8. \A k \in LogBlock : HoldsPages(nand'[RamMap[k]], content'[k])
  BY <1>4, <1>6, <1>7
<1>9. cached_area_number' \in Area /\ cached_area_table' = AreaTable(cached_area_number') /\ ~clobbered'
  BY <1>1, <1>2, <1>3, AreaOf DEF Refs
<1>10. local' \in LocalVars /\ local'.op = "write" /\ local'.log = l /\ local'.from = e
       /\ local'.page = Len(content[l]) /\ ~full'
  <2> HIDE DEF e
  <2>1. local' = [NoLocal EXCEPT !.op = "write", !.log = l, !.from = e, !.page = Len(content[l])]
    BY DEF e
  <2> QED BY <1>4, <2>1, NoLocalType DEF LocalVars, NoLocal, full, Ops
<1>11. at' = "getReclaim" /\ at' \in CallSteps /\ ~Holding' /\ ~mounting'
  BY <1>9, AreasNat DEF at, AtOf, CallSteps, Holding, mounting
<1>12. Stage'
  BY <1>10, <1>11 DEF Stage, Plan, Steps
<1>13. RamMap' = RamMap /\ ~Committing'
  BY <1>1, <1>2, <1>3, <1>6, <1>11, StoreMap
<1>14. Locals'
  BY <1>3, <1>4, <1>5, <1>10, <1>11, <1>13 DEF Locals, IndexSteps
<1>15. Typed'
  BY <1>1, <1>3, <1>6, <1>10, Counted DEF Typed, Nands
<1> QED BY <1>1, <1>2, <1>3, <1>4, <1>5, <1>6, <1>8, <1>9, <1>11, <1>12, <1>14, <1>15, StoreKeeps

\* UBI_Write of the next page; a failed program begins a reclaim.
LEMMA UbiWriteKeeps ==
  ASSUME UbiInv, NEW l \in LogBlock, UbiWrite(l)
  PROVE  UbiInv' /\ RefsKept /\ FlashKept
BY UbiWriteStores, UbiWriteFails DEF UbiWrite

\* UBI_Write programs the page in the block that was given to it.
LEMMA ReprogramKeeps ==
  ASSUME UbiInv, Reprogram
  PROVE  UbiInv' /\ RefsKept /\ FlashKept
<1> DEFINE l == local.log
           b == local.new.block
           pg == DataPage(ops)
<1>1. /\ powered /\ at = "reprogram" /\ Ram /\ Refs /\ Typed /\ Faults
      /\ todo = Plan("reprogram", local.op, full, cached_area_number)
  BY AtStep DEF Reprogram, Steps, CallSteps
<1>2. at \in CallSteps /\ ~Holding
  BY <1>1 DEF CallSteps, Holding
<1>3. local.op = "write" /\ l \in LogBlock /\ campaign.bad = 0 /\ local.page = Len(content[l])
      /\ local.page < P /\ b = RamMap[l]
  BY <1>1 DEF Ram, Locals
<1>4. ~MayFail("data")
  BY <1>3 DEF MayFail
<1>5. /\ UNCHANGED <<anchorFlash, anchor_table, index_table, index_block, index_next_page,
                     area_offset_table, cached_area_number, cached_area_table, powered, clobbered, ops,
                     campaign>>
      /\ nand' = ProgramAt(b, Len(content[l]), pg)
      /\ content' = [content EXCEPT ![l] = Append(@, pg)]
      /\ todo' = <<>> /\ local' = NoLocal
  BY <1>3, <1>4 DEF Reprogram, ramVars, indexVars, areaVars
<1>6. content[l] \in Seq(Pages) /\ Len(content[l]) \in Nat /\ b \in Phy /\ nand[b] \in Seq(Pages)
      /\ anchor_table \in Anchors /\ content \in [LogBlock -> Seq(Pages)]
  BY <1>1, <1>3, RamTypes DEF Ram, Owners
<1>7. pg \in Pages /\ pg.kind = "data"
  BY <1>1, PageTypes DEF Typed
<1> HIDE DEF b, pg, l
<1>8. /\ nand' \in Nands /\ nand'[b] = Programmed(nand[b], Len(content[l]), pg)
      /\ \A a \in Area : nand'[index_table.area[a].block] = nand[index_table.area[a].block]
      /\ nand'[index_block.block] = nand[index_block.block]
      /\ \A k \in LogBlock : k # l => nand'[RamMap[k]] = nand[RamMap[k]]
      /\ \A k \in LogBlock : HoldsPages(nand[RamMap[k]], content[k])
  BY <1>1, <1>2, <1>3, <1>5, <1>6, <1>7, ProgramsOne
<1>9. /\ content'[l] = Append(content[l], pg) /\ \A k \in LogBlock : k # l => content'[k] = content[k]
      /\ HoldsPages(nand'[b], content'[l]) /\ content' \in [LogBlock -> Seq(Pages)]
  <2>1. HoldsPages(Programmed(nand[b], Len(content[l]), pg), Append(content[l], pg))
        /\ Append(content[l], pg) \in Seq(Pages)
    BY <1>3, <1>6, <1>7, <1>8, HoldsAppend
  <2> QED BY <1>3, <1>5, <1>6, <1>8, <2>1
<1>10. \A k \in LogBlock : HoldsPages(nand'[RamMap[k]], content'[k])
  BY <1>3, <1>8, <1>9
<1>11. cached_area_number' \in Area /\ cached_area_table' = AreaTable(cached_area_number')
       /\ ~clobbered'
  BY <1>1, <1>2, <1>5, CacheRead DEF Refs, AreaTable
<1>12. at' \in CallSteps /\ ~Holding' /\ Stage' /\ Locals'
  BY <1>5, <1>11, CallEnded
<1>13. Typed' /\ Faults'
  BY <1>1, <1>5, <1>8, <1>9, NoLocalType DEF Typed, Faults, Nands
<1> QED BY <1>1, <1>2, <1>5, <1>6, <1>8, <1>10, <1>11, <1>12, <1>13, StoreKeeps
-----------------------------------------------------------------------------
(* Steps that move a logical block to another physical block *)

\* The block that UBI_SWL has chosen.
LEMMA SwlChosen ==
  ASSUME Ram, Refs, Typed, at \in {"swlErase", "swlCopy"}
  PROVE  /\ local.got \in Entries /\ local.got.block \in FbtBlocks(index_table.fbt)
         /\ local.got.block \in Phy
         /\ local.got.block \notin Needs(nand, anchorFlash)
         /\ local.got.block # index_block.block
         /\ \A a \in Area : local.got.block # index_table.area[a].block
         /\ \A l \in LogBlock : local.got.block # RamMap[l]
<1> DEFINE t == index_table.fbt
<1>1. MaxEcSlot(t) > 0 /\ local.got = t[MaxEcSlot(t)]
  BY DEF Ram, Locals
<1>2. TableOf(Phy, t) /\ UsedSlots(t) # {}
  BY <1>1, RamTypes DEF MaxEcSlot
<1>3. local.got \in Entries /\ local.got.block \in FbtBlocks(t)
  <2> HIDE DEF t
  <2> QED BY <1>1, <1>2, MaxEcFound
<1>4. IsSettled
  BY DEF IsSettled, CallSteps
<1>5. local.got.block \notin Needs(nand, anchorFlash)
  BY <1>3, <1>4, SettledNeeds
<1>6. /\ local.got.block # index_block.block
      /\ \A a \in Area : local.got.block # index_table.area[a].block
      /\ \A l \in LogBlock : local.got.block # RamMap[l]
  BY <1>3 DEF Ram, Owners, Layout
<1> QED BY <1>3, <1>5, <1>6, Entries2

\* UBI_SWL erases the worn free block, which no table needs.
LEMMA SwlEraseKeeps ==
  ASSUME UbiInv, SwlErase
  PROVE  UbiInv' /\ RefsKept /\ FlashKept
<1> DEFINE b == local.got.block
<1>1. /\ powered /\ at = "swlErase" /\ Ram /\ Refs /\ Typed /\ Faults
  BY AtStep DEF SwlErase, Steps, CallSteps
<1>2. at \in CallSteps /\ IsSettled /\ ~Holding /\ local.op = "swl"
  BY <1>1 DEF CallSteps, IsSettled, Holding, Ram, Locals
<1>3. /\ b \in Phy /\ b \notin Needs(nand, anchorFlash)
      /\ b # index_block.block /\ \A a \in Area : b # index_table.area[a].block
      /\ \A l \in LogBlock : b # RamMap[l]
  BY <1>1, SwlChosen
<1>4. UNCHANGED <<anchorFlash, anchor_table, index_table, index_block, index_next_page,
                  area_offset_table, cached_area_number, cached_area_table, powered, content, ops>>
  BY DEF SwlErase, ramVars, indexVars, areaVars
<1>5. ~clobbered' /\ clobbered' \in BOOLEAN
  <2>1. FlashTables(nand, anchorFlash) /\ ~clobbered
    BY <1>1, <1>2 DEF UbiInv, Refs
  <2>2. NeededByFlash = Needs(nand, anchorFlash)
    BY <1>1, <2>1, FlashFound
  <2> QED BY <1>3, <2>1, <2>2 DEF SwlErase, Erasing
<1>6. cached_area_number' \in Area /\ cached_area_table' = AreaTable(cached_area_number')
      /\ ~mounting' /\ anchor_table' \in Anchors /\ ~full
  BY <1>1, <1>2, <1>4, CacheRead DEF AreaTable, mounting, Ram, Owners
<1>7. /\ nand \in Nands /\ index_block.block \in Phy
      /\ \A a \in Area : index_table.area[a].block \in Phy
      /\ RamMap \in [LogBlock -> Phy]
  BY <1>1, RamTypes
<1>8. \A l \in LogBlock : HoldsPages(nand[RamMap[l]], content[l])
  BY <1>1, <1>2, CacheRead DEF Ram, RamData, Target
<1>9. CASE nand' = [nand EXCEPT ![b] = <<>>] /\ todo' = <<"swlCopy">>
           /\ UNCHANGED <<local, campaign, failed>>
  <2>1. nand' \in Nands /\ nand'[b] = <<>> /\ \A x \in Phy : x # b => nand'[x] = nand[x]
    <3>1. <<>> \in Seq(Pages)
      OBVIOUS
    <3> HIDE DEF b
    <3>2. nand' = [nand EXCEPT ![b] = <<>>] /\ b \in Phy /\ nand \in Nands
      BY <1>3, <1>7, <1>9
    <3> QED BY <3>1, <3>2 DEF Nands
  <2>2. /\ \A a \in Area : nand'[index_table.area[a].block] = nand[index_table.area[a].block]
        /\ nand'[index_block.block] = nand[index_block.block]
        /\ \A l \in LogBlock : HoldsPages(nand'[RamMap[l]], content'[l])
    BY <1>3, <1>4, <1>7, <1>8, <2>1
  <2>3. at' = "swlCopy" /\ at' \in CallSteps /\ ~Holding' /\ full' = full
    BY <1>9 DEF at, AtOf, CallSteps, Holding, full
  <2>4. Stage'
    BY <1>6, <1>9, <2>3 DEF Stage, Plan, Steps
  <2>5. RamMap' = RamMap /\ ~Committing'
    BY <1>1, <1>2, <1>4, <2>2, <2>3, StoreMap
  <2>6. Locals'
    BY <1>1, <1>2, <1>4, <1>9, <2>1, <2>3, <2>5 DEF Ram, Locals, IndexSteps
  <2>7. Typed' /\ Faults'
    BY <1>1, <1>4, <1>5, <1>9, <2>1 DEF Typed, Faults, Nands
  <2> QED BY <1>1, <1>2, <1>4, <1>5, <1>6, <2>1, <2>2, <2>3, <2>4, <2>6, <2>7, StoreKeeps
<1>10. CASE Failing("erase", b) /\ todo' = <<>> /\ local' = NoLocal /\ UNCHANGED nand
  <2>1. at' \in CallSteps /\ ~Holding' /\ Stage' /\ Locals'
    BY <1>6, <1>10, CallEnded
  <2>2. Faults'
    BY <1>1, <1>10 DEF Faults, FaultPlans, Benign, Failing, MayFail
  <2>3. Typed'
    BY <1>1, <1>4, <1>5, <1>10, NoLocalType DEF Typed
  <2> QED BY <1>1, <1>2, <1>4, <1>5, <1>6, <1>7, <1>8, <1>10, <2>1, <2>2, <2>3, StoreKeeps
<1> QED BY <1>9, <1>10 DEF SwlErase

\* A logical block is given the block g, which holds a copy of its pages s, and
\* the commit of that begins; flash does not need g.
LEMMA MoveKeeps ==
  ASSUME UbiInv, powered, Ram, Refs, Typed, Faults', at \in {"copy", "swlCopy"}, at' = "commit",
         UNCHANGED <<anchorFlash, anchor_table, index_block, index_next_page, area_offset_table,
                     cached_area_number, cached_area_table, powered, content, clobbered, ops,
                     campaign>>,
         NEW g \in Phy, NEW l \in LogBlock, NEW s \in Seq(Pages), HoldsPages(s, content[l]),
         nand' = [nand EXCEPT ![g] = s],
         g \notin Needs(nand, anchorFlash), g # index_block.block,
         \A a \in Area : g # index_table.area[a].block,
         \A k \in LogBlock : g # RamMap[k],
         index_table' \in IndexTables, index_table'.area = index_table.area,
         plr'.log = l, plr'.block = g,
         TableOf(Phy, index_table'.fbt),
         NEW F, FbtBlocks(index_table'.fbt) \subseteq (F \ {g}) \cup {RamMap[l]}, g \in F,
         Layout(F, index_table.area, index_block.block, RamMap),
         cached_area_number = AREA_INDEX(l), Stage', local' \in LocalVars, local.log = l,
         local'.op = local.op, local'.log = l, local'.page = local.page,
         local.op \in {"swl", "write"}, local.op = "write" => local'.new.block = g
  PROVE  UbiInv' /\ FlashKept /\ InFlight' = {}
         /\ Referred \subseteq Referred' \cup {RamMap[l]} /\ g \in Referred'
<1>1. at \in CallSteps /\ IsSettled
  BY DEF CallSteps, IsSettled
<1>2. /\ RamMap = TableMap(nand, index_table) /\ Entered(nand, index_table) /\ ~mounting
      /\ \A a \in Area : AreaTable(a) = TableOn(nand, index_table.area[a].block)
                         /\ AreaTable(a) \in AreaTables(a)
      /\ \A k \in LogBlock : HoldsPages(nand[RamMap[k]], content[k])
  BY <1>1, CacheRead DEF Ram, RamData, Target
<1>3. /\ nand \in Nands /\ index_table \in IndexTables /\ index_block.block \in Phy
      /\ \A a \in Area : index_table.area[a].block \in Phy
      /\ RamMap \in [LogBlock -> Phy]
  BY RamTypes
<1>4. nand' \in Nands /\ nand'[g] = s /\ \A x \in Phy : x # g => nand'[x] = nand[x]
  BY <1>3 DEF Nands
<1>5. \A a \in Area : nand'[index_table.area[a].block] = nand[index_table.area[a].block]
  BY <1>3, <1>4
<1>6. TableMap(nand', index_table) = RamMap /\ Entered(nand', index_table)
  BY <1>2, <1>3, <1>5, MapFrame
<1>7. ~mounting' /\ updated' = AREA_INDEX(l) /\ AREA_INDEX(l) \in Area
  BY <1>2, AreaOf DEF mounting, updated
<1>8. Committing' /\ ~IsApplied' /\ ~NewArea' /\ ~Holding' /\ ~IsSettled' /\ InFlight' = {}
  BY <1>7 DEF Committing, IsApplied, NewArea, Holding, IsSettled, InFlight, CallSteps, IndexSteps,
              CommitSteps
<1>9. RamMap' = TableMap(nand', index_table')
  BY <1>8 DEF RamMap
<1>10. RamMap'[l] = g /\ \A k \in LogBlock : k # l => RamMap'[k] = RamMap[k]
  <2> DEFINE n == nand'
             t == index_table
             u == index_table'
  <2>1. t \in IndexTables /\ Entered(n, t) /\ u.area = t.area /\ u.plr.log = l /\ u.plr.block = g
    BY <1>3, <1>6 DEF plr
  <2> HIDE DEF n, t, u
  <2>2. TableMap(n, u)[l] = g /\ \A k \in LogBlock : k # l => TableMap(n, u)[k] = TableMap(n, t)[k]
    BY <2>1, MapRedirected
  <2> QED BY <1>6, <1>9, <2>2 DEF n, t, u
<1>11. Owners'
  <2> DEFINE F2 == FbtBlocks(index_table'.fbt)
             ar == index_table.area
             m2 == RamMap'
             m == RamMap
             ib == index_block.block
  <2>1. /\ F2 \subseteq (F \ {g}) \cup {m[l]} /\ m2[l] = g /\ \A k \in LogBlock : k # l => m2[k] = m[k]
        /\ Layout(F, ar, ib, m) /\ g \in F
    BY <1>10
  <2> HIDE DEF F2, ar, m2, m, ib
  <2>2. Layout(F2, ar, ib, m2)
    BY ONLY <2>1, l \in LogBlock DEF Layout
  <2> QED BY <1>8, <2>2 DEF Ram, Owners, F2, m2, ar, ib
<1>12. \A a \in Area : HasArea(nand', index_table.area[a].block, a)
  BY <1>1, <1>5, CacheRead DEF Ram, AreaBlocks, HasArea, TableOn
<1>13. AreaBlocks'
  <2>1. /\ area_offset_table \in [Area -> 0 .. P - 1]
        /\ \A a \in Area : area_offset_table[a] + 1 = Len(nand[index_table.area[a].block])
    BY <1>1, <1>2, CacheRead DEF Ram, AreaBlocks
  <2>2. \A a \in Area : area_offset_table[a] + 1 = Len(nand'[index_table.area[a].block])
    BY <1>5, <2>1
  <2> QED BY <1>8, <1>12, <2>1, <2>2 DEF AreaBlocks, IndexSteps
<1>14. Cache'
  <2>1. cached_area_table = TableOn(nand, index_table.area[AREA_INDEX(l)].block)
    BY <1>2, <1>7 DEF AreaTable
  <2>2. cached_area_table \in AreaTables(AREA_INDEX(l))
    BY <1>2, <1>7 DEF AreaTable
  <2>3. TableOn(nand', index_table.area[AREA_INDEX(l)].block) = cached_area_table
    BY <1>5, <1>7, <2>1 DEF TableOn
  <2> QED BY <1>7, <1>8, <2>2, <2>3 DEF Cache
<1>15. IndexBlock'
  BY <1>3, <1>4 DEF Ram, IndexBlock
<1>16. RamData'
  <2>1. \A k \in LogBlock : HoldsPages(nand'[RamMap'[k]], content[k])
    BY <1>2, <1>3, <1>4, <1>10
  <2> QED BY <2>1 DEF RamData, Target
<1>17. Locals'
  BY <1>7, <1>8, <1>10 DEF Ram, Locals, IndexSteps
<1>18. /\ ~clobbered /\ FlashTables(nand, anchorFlash) /\ FlashData
       /\ anchorFlash.new.block = index_block.block
  BY <1>1, <1>2 DEF Refs, UbiInv
<1>19. Refs'
  BY <1>7, <1>8, <1>18 DEF Refs
<1>20. FlashTables(nand', anchorFlash) /\ FlashData' /\ FlashKept
  <2>1. Needs(nand, anchorFlash) \subseteq Phy
        /\ \A k \in LogBlock : FMap(nand, anchorFlash)[k] \in Needs(nand, anchorFlash)
    BY <1>3, <1>18, FlashParts DEF Typed
  <2>2. \A x \in Needs(nand, anchorFlash) : nand'[x] = nand[x]
    BY <1>4, <2>1
  <2>3. nand'[anchorFlash.new.block] = nand[anchorFlash.new.block]
    BY <1>3, <1>4, <1>18
  <2>4. /\ FIB(nand', anchorFlash) = FIB(nand, anchorFlash)
        /\ FI(nand', anchorFlash) = FI(nand, anchorFlash)
        /\ FMap(nand', anchorFlash) = FMap(nand, anchorFlash) /\ FlashTables(nand', anchorFlash)
    BY <1>18, <2>2, <2>3, FlashFrame
  <2>5. ~Erased /\ ~Erased'
    BY DEF Erased
  <2>6. \A k \in LogBlock : HoldsPages(nand[FMap(nand, anchorFlash)[k]], content[k])
    BY <1>18, <2>5 DEF FlashData, FlashTarget
  <2>7. \A k \in LogBlock : HoldsPages(nand'[FMap(nand', anchorFlash)[k]], content[k])
    BY <2>1, <2>2, <2>4, <2>6
  <2>8. FlashKept
    BY <1>18, <2>4 DEF FlashKept, Intact
  <2> QED BY <2>4, <2>5, <2>7, <2>8 DEF FlashData, FlashTarget
<1>21. Typed'
  BY <1>4 DEF Typed, Nands
<1>22. UbiInv'
  BY <1>11, <1>13, <1>14, <1>15, <1>16, <1>17, <1>19, <1>20, <1>21 DEF UbiInv, Ram
<1>23. Referred \subseteq Referred' \cup {RamMap[l]} /\ g \in Referred'
  BY <1>10 DEF Referred, TableBlocks
<1> QED BY <1>8, <1>20, <1>22, <1>23

\* MTD_Read of the pages that are copied.
LEMMA CopyPagesAre ==
  ASSUME NEW b, NEW n \in Nat, nand[b] \in Seq(Pages)
  PROVE  CopyPages(b, n) = CopyOf(nand[b], n)
<1> SUFFICES ASSUME NEW i \in 1 .. n
             PROVE  ReadBack(b, i - 1) = IF i > Len(nand[b]) THEN BlankPage
                                         ELSE IF nand[b][i].kind = "bad" THEN StalePage ELSE nand[b][i]
  BY DEF CopyPages, CopyOf
<1>1. Len(nand[b]) \in Nat /\ i - 1 + 1 = i /\ (i - 1 >= Len(nand[b]) <=> i > Len(nand[b]))
  OBVIOUS
<1> QED BY <1>1 DEF ReadBack

\* ubi_reclaim_badblock moves the pages before the bad one to another block.
LEMMA CopyKeeps ==
  ASSUME UbiInv, Copy
  PROVE  UbiInv' /\ FlashKept
         /\ TakesOver(Entry(local.from.block, EcPlus(local.from.ec, Threshold)))
<1> DEFINE l == local.log
           g == local.got.block
           e == Entry(local.from.block, EcPlus(local.from.ec, Threshold))
           s == CopyPages(local.from.block, local.page)
           F == FbtBlocks(index_table.fbt)
           f2 == FbtPut(index_table.fbt, e.block, e.ec)
<1>1. /\ powered /\ at = "copy" /\ Ram /\ Refs /\ Typed /\ Faults
  BY AtStep DEF Copy, Steps, CallSteps
<1>2. at \in CallSteps /\ Holding /\ InFlight = {g} /\ IsSettled
  BY <1>1 DEF CallSteps, Holding, InFlight, IsSettled
<1>3. /\ local.op = "write" /\ l \in LogBlock /\ local.from \in Entries
      /\ local.from.block = RamMap[l] /\ cached_area_number = AREA_INDEX(l)
      /\ local.page = Len(content[l])
  BY <1>1 DEF Ram, Locals
<1>4. /\ local.got \in Entries /\ g \in Phy /\ g \notin F
      /\ Layout(F \cup {g}, index_table.area, index_block.block, RamMap)
  BY <1>1, <1>2, Entries2 DEF Ram, Owners
<1>5. ~clobbered /\ g \notin Needs(nand, anchorFlash)
  BY <1>1, <1>2 DEF Refs
<1>6. /\ g # index_block.block /\ \A a \in Area : g # index_table.area[a].block
      /\ \A k \in LogBlock : g # RamMap[k]
  BY <1>4 DEF Layout
<1>7. e \in Entries /\ e.block = RamMap[l] /\ e.block \in Phy /\ e.ec \in Nat
  BY <1>3, Entries2, EcNat, Geometry
<1>8. TableOf(Phy, f2) /\ FbtBlocks(f2) \subseteq F \cup {e.block} /\ index_table \in IndexTables
  <2>1. e.block \notin F
    BY <1>3, <1>4, <1>7 DEF Layout
  <2> HIDE DEF e
  <2> QED BY <1>1, <1>7, <2>1, PutAdds, Geometry, RamTypes
<1>9. /\ index_table' \in IndexTables /\ index_table'.fbt = f2
      /\ index_table'.area = index_table.area /\ plr'.log = l /\ plr'.block = g
  <2> DEFINE t == PutBack(index_table, e)
  <2>1. t \in IndexTables /\ t.fbt = f2 /\ t.area = index_table.area
    BY <1>8, WithFbt DEF PutBack
  <2>2. index_table' = WithPlr(t, l, local.got)
    BY DEF Copy
  <2> HIDE DEF t, f2
  <2> QED BY <1>3, <1>4, <2>1, <2>2, WithPlrTable DEF plr
<1>10. /\ UNCHANGED <<anchorFlash, anchor_table, index_block, index_next_page, area_offset_table,
                      cached_area_number, cached_area_table, powered, content, clobbered, ops,
                      campaign>>
       /\ nand' = [nand EXCEPT ![g] = s] /\ local' = [local EXCEPT !.new = local.got]
       /\ todo' = <<"commit", "reprogram">>
  BY DEF Copy, areaVars, history, faults
<1>11. local' \in LocalVars /\ local'.op = local.op /\ local'.log = l /\ local'.page = local.page
       /\ local'.new = local.got /\ full' = full
  BY <1>1, <1>4, <1>10 DEF Typed, LocalVars, full
<1>12. s \in Seq(Pages) /\ HoldsPages(s, content[l])
  <2> DEFINE b == local.from.block
             c == content[l]
  <2>1. nand[b] \in Seq(Pages) /\ c \in Seq(Pages) /\ Len(c) \in Nat
    BY <1>1, <1>3, RamTypes
  <2>2. HoldsPages(nand[b], c)
    BY <1>1, <1>2, <1>3, CacheRead DEF Ram, RamData, Target
  <2>3. s = CopyOf(nand[b], Len(c))
    BY <1>3, <2>1, CopyPagesAre
  <2> HIDE DEF s, b, c
  <2>4. s \in Seq(Pages) /\ HoldsPages(s, c)
    BY <2>1, <2>2, <2>3, HoldsCopy
  <2> QED BY <2>4 DEF c
<1>13. at' = "commit" /\ ~mounting' /\ ~full
  BY <1>1, <1>2, <1>10, CacheRead DEF at, AtOf, mounting
<1>14. Stage'
  <2>1. todo' = Plan("commit", local'.op, full', cached_area_number')
    <3>1. <<"commit">> \o <<"reprogram">> = <<"commit", "reprogram">>
      BY PairIs
    <3> QED BY <1>3, <1>10, <1>11, <3>1 DEF Plan, EndOf
  <2> QED BY <1>11, <1>13, <2>1 DEF Stage, Steps, CommitSteps
<1>15. Faults'
  BY <1>1, <1>10 DEF Faults
<1>16. FbtBlocks(index_table'.fbt) \subseteq ((F \cup {g}) \ {g}) \cup {RamMap[l]}
       /\ TableOf(Phy, index_table'.fbt)
       /\ g \in F \cup {g}
  BY <1>4, <1>7, <1>8, <1>9
<1>17. local.op = "write" => local'.new.block = g
  BY <1>11
<1>18. at \in {"copy", "swlCopy"} /\ local.op \in {"swl", "write"}
  BY <1>1, <1>3
<1>19. e.block \notin F
  BY <1>3, <1>4, <1>7 DEF Layout
<1> DEFINE H == F \cup {g}
<1> HIDE DEF H, F, g, l, s
<1>20. FbtBlocks(index_table'.fbt) \subseteq (H \ {g}) \cup {RamMap[l]} /\ g \in H
       /\ Layout(H, index_table.area, index_block.block, RamMap) /\ local.log = l
  BY <1>4, <1>16 DEF H, l
<1>21. /\ UbiInv' /\ FlashKept /\ InFlight' = {}
       /\ Referred \subseteq Referred' \cup {RamMap[l]} /\ g \in Referred'
  BY <1>1, <1>3, <1>4, <1>5, <1>6, <1>9, <1>10, <1>11, <1>12, <1>13, <1>14, <1>15, <1>16, <1>17,
     <1>18, <1>20, MoveKeeps
<1>22. TakesOver(e)
  BY <1>2, <1>7, <1>9, <1>19, <1>21 DEF TakesOver, F, g
<1> QED BY <1>21, <1>22

\* A second failing program of data is beyond a benign campaign.
LEMMA CopyBadNever == ASSUME UbiInv, CopyBad PROVE FALSE
<1>1. at = "copy" /\ Ram
  BY AtStep DEF CopyBad, Steps, CallSteps
<1>2. ~MayFail("data")
  BY <1>1 DEF Ram, Locals, MayFail
<1> QED BY <1>2 DEF CopyBad, Failing

\* UBI_SWL swaps the blocks, or gives up.
LEMMA SwlCopyKeeps ==
  ASSUME UbiInv, SwlCopy
  PROVE  UbiInv' /\ FlashKept
         /\ (Swaps \/ (RefsKept /\ index_table' = index_table))
<1> DEFINE l == local.log
           g == local.got.block
           s == CopyPages(local.from.block, P)
           F == FbtBlocks(index_table.fbt)
           f2 == FbtSwap(index_table.fbt, local.from.block, local.from.ec, Threshold)
<1>1. /\ powered /\ at = "swlCopy" /\ Ram /\ Refs /\ Typed /\ Faults
  BY AtStep DEF SwlCopy, Steps, CallSteps
<1>2. at \in CallSteps /\ IsSettled /\ ~Holding
  BY <1>1 DEF CallSteps, IsSettled, Holding
<1>3. /\ local.op = "swl" /\ l \in LogBlock /\ local.from \in Entries
      /\ local.from.block = RamMap[l] /\ cached_area_number = AREA_INDEX(l)
      /\ MaxEcSlot(index_table.fbt) > 0
      /\ local.got = index_table.fbt[MaxEcSlot(index_table.fbt)]
      /\ local.got.ec > local.from.ec /\ local.got.ec - local.from.ec > Threshold
  BY <1>1 DEF Ram, Locals
<1>4. /\ local.got \in Entries /\ g \in Phy /\ g \in F /\ g \notin Needs(nand, anchorFlash)
      /\ g # index_block.block /\ \A a \in Area : g # index_table.area[a].block
      /\ \A k \in LogBlock : g # RamMap[k]
  BY <1>1, SwlChosen
<1>5. ~clobbered
  BY <1>1, <1>2 DEF Refs
<1>6. /\ UNCHANGED <<anchorFlash, anchor_table, index_block, index_next_page, area_offset_table,
                     cached_area_number, cached_area_table, powered, content, clobbered, ops>>
  BY DEF SwlCopy, areaVars
<1>7. CASE /\ nand' = [nand EXCEPT ![g] = s]
           /\ index_table' = [WithPlr(index_table, l, local.got) EXCEPT !.fbt =
                FbtSwap(@, local.from.block, local.from.ec, Threshold)]
           /\ todo' = <<"commit">> /\ UNCHANGED <<local, campaign, failed>>
  <2>1. /\ TableOf(Phy, f2) /\ FbtBlocks(f2) \subseteq (F \ {g}) \cup {RamMap[l]}
        /\ index_table \in IndexTables
        /\ Layout(F, index_table.area, index_block.block, RamMap) /\ RamMap[l] \notin F
    <3>1. Layout(F, index_table.area, index_block.block, RamMap)
      BY <1>1, LayoutShrinks DEF Ram, Owners
    <3>2. RamMap[l] \notin F
      BY <1>3, <3>1 DEF Layout
    <3>3. TableOf(Phy, index_table.fbt) /\ index_table \in IndexTables
      BY <1>1, RamTypes
    <3>4. local.from.block \in Phy /\ local.from.ec \in Nat
      BY <1>3, Entries2
    <3>5. TableOf(Phy, f2)
          /\ FbtBlocks(f2) \subseteq (F \ {local.got.block}) \cup {local.from.block}
      <4> DEFINE t == index_table.fbt
                 top == MaxEcSlot(t)
                 b == local.from.block
                 c == local.from.ec
      <4>1. /\ TableOf(Phy, t) /\ b \in Phy /\ b \notin FbtBlocks(t) /\ c \in Nat
            /\ top > 0 /\ t[top].ec > c /\ t[top].ec - c > Threshold /\ INVALID_BLOCK \notin Phy
        BY <1>3, <3>2, <3>3, <3>4, Geometry
      <4> HIDE DEF b, c, t
      <4>2. TableOf(Phy, FbtSwap(t, b, c, Threshold))
            /\ FbtBlocks(FbtSwap(t, b, c, Threshold)) \subseteq (FbtBlocks(t) \ {t[top].block}) \cup {b}
        BY <4>1, SwapReplaces
      <4> QED BY <1>3, <4>2 DEF b, c, t
    <3> QED BY <1>3, <3>1, <3>2, <3>3, <3>5
  <2>2. /\ index_table' \in IndexTables /\ index_table'.fbt = f2
        /\ index_table'.area = index_table.area /\ plr'.log = l /\ plr'.block = g
    <3> DEFINE t == WithPlr(index_table, l, local.got)
    <3>1. t \in IndexTables /\ t.fbt = index_table.fbt /\ t.area = index_table.area
          /\ t.plr.log = l /\ t.plr.block = g
      BY <1>3, <1>4, <2>1, WithPlrTable
    <3>2. index_table' = [t EXCEPT !.fbt = FbtSwap(t.fbt, local.from.block, local.from.ec, Threshold)]
      BY <1>7
    <3> HIDE DEF t
    <3>3. index_table' = [t EXCEPT !.fbt = f2]
      BY <3>1, <3>2
    <3> HIDE DEF f2
    <3>4. index_table' \in IndexTables /\ index_table'.fbt = f2 /\ index_table'.area = t.area
          /\ index_table'.plr = t.plr
      BY <2>1, <3>1, <3>3, WithFbt
    <3> QED BY <3>1, <3>4 DEF plr
  <2>3. s \in Seq(Pages) /\ HoldsPages(s, content[l])
    <3> DEFINE b == local.from.block
               c == content[l]
    <3>1. nand[b] \in Seq(Pages) /\ c \in Seq(Pages)
      BY <1>1, <1>3, RamTypes
    <3>2. HoldsPages(nand[b], c)
      BY <1>1, <1>2, <1>3, CacheRead DEF Ram, RamData, Target
    <3>3. s = CopyOf(nand[b], P)
      BY <3>1, Geometry, CopyPagesAre
    <3> HIDE DEF s, b, c
    <3>4. s \in Seq(Pages) /\ HoldsPages(s, c)
      BY <3>1, <3>2, <3>3, HoldsCopy
    <3> QED BY <3>4 DEF c
  <2>4. at' = "commit" /\ ~mounting' /\ ~full /\ full' = full
    BY <1>1, <1>2, <1>6, <1>7, CacheRead DEF at, AtOf, mounting, full
  <2>5. Stage'
    <3>1. todo' = Plan("commit", local'.op, full', cached_area_number')
      <4>1. <<"commit">> \o <<>> = <<"commit">>
        BY EmptyCat
      <4> QED BY <1>3, <1>7, <4>1 DEF Plan, EndOf
    <3> QED BY <2>4, <3>1 DEF Stage, Steps, CommitSteps
  <2>6. Faults' /\ local' \in LocalVars
    BY <1>1, <1>7 DEF Faults, Typed
  <2>7. at \in {"copy", "swlCopy"} /\ local.op \in {"swl", "write"} /\ local.op # "write"
        /\ campaign' = campaign /\ local'.op = local.op /\ local'.log = l /\ local'.page = local.page
    BY <1>1, <1>3, <1>7
  <2> HIDE DEF F, g, l, s
  <2>8. FbtBlocks(index_table'.fbt) \subseteq (F \ {g}) \cup {RamMap[l]}
        /\ TableOf(Phy, index_table'.fbt)
        /\ local.log = l
    BY <2>1, <2>2 DEF l
  <2>9. /\ UbiInv' /\ FlashKept /\ InFlight' = {}
        /\ Referred \subseteq Referred' \cup {RamMap[l]} /\ g \in Referred'
    BY <1>1, <1>3, <1>4, <1>6, <1>7, <2>1, <2>2, <2>3, <2>4, <2>5, <2>6, <2>7, <2>8, MoveKeeps
  <2>10. InFlight = {} /\ local.from.block \in Phy /\ local.from.ec \in Nat
    BY <1>2, <1>3, Entries2 DEF InFlight
  <2>11. Swaps
    BY <1>3, <2>1, <2>2, <2>9, <2>10 DEF Swaps, F, g
  <2> QED BY <2>9, <2>11
<1>8. CASE /\ Failing("data", g) /\ todo' = <<>> /\ local' = NoLocal
           /\ UNCHANGED <<nand, index_table, is_updating_area>>
  <2>1. cached_area_number' \in Area /\ cached_area_table' = AreaTable(cached_area_number')
        /\ anchor_table' \in Anchors
    BY <1>1, <1>2, <1>6, CacheRead DEF AreaTable, Ram, Owners
  <2>2. at' \in CallSteps /\ ~Holding' /\ Stage' /\ Locals'
    BY <1>8, <2>1, CallEnded
  <2>3. Faults'
    BY <1>1, <1>8 DEF Faults, FaultPlans, Benign, Failing, MayFail
  <2>4. Typed'
    BY <1>1, <1>6, <1>8, NoLocalType DEF Typed
  <2> QED BY <1>1, <1>2, <1>6, <1>8, <2>1, <2>2, <2>3, <2>4, QuietKeeps DEF flashVars
<1> QED BY <1>7, <1>8 DEF SwlCopy
-----------------------------------------------------------------------------
(* Power losses and UBI_Init *)

\* RAM is lost; what the flash says is taken over by the history.
LEMMA PowerLossKeeps ==
  ASSUME UbiInv, PowerLoss
  PROVE  UbiInv' /\ FlashKept /\ ~powered'
<1>1. /\ ~clobbered /\ todo' = <<>> /\ local' = NoLocal /\ ~powered' /\ cached_area_number' = NONE
      /\ content' = IF FlashMountable THEN [l \in LogBlock |-> Stored(FlashMap(l))] ELSE content
      /\ UNCHANGED <<nand, anchorFlash, clobbered, ops, campaign>> /\ powered' = FALSE
  BY DEF PowerLoss, flashVars
<1>2. Typed /\ Faults /\ FlashTables(nand, anchorFlash) /\ FlashData
  BY <1>1 DEF UbiInv
<1>3. FlashMountable /\ \A l \in LogBlock : FlashMap(l) = FMap(nand, anchorFlash)[l]
  BY <1>2, FlashFound
<1>4. ASSUME NEW l \in LogBlock
      PROVE  content'[l] \in Seq(Pages) /\ HoldsPages(nand[FMap(nand, anchorFlash)[l]], content'[l])
  <2> DEFINE b == FMap(nand, anchorFlash)[l]
  <2>1. content'[l] = Stored(b)
    BY <1>1, <1>3
  <2>2. nand \in Nands /\ anchorFlash \in Anchors
    BY <1>2 DEF Typed, Nands
  <2>3. b \in Phy
    BY <1>2, <2>2, FlashParts
  <2>4. nand[b] \in Seq(Pages)
    BY <2>2, <2>3 DEF Nands
  <2>5. \E c \in Seq(Pages) : HoldsPages(nand[b], c)
    <3>1. content[l] \in Seq(Pages) /\ <<>> \in Seq(Pages)
      BY <1>2 DEF Typed
    <3> QED BY <1>2, <3>1 DEF FlashData, FlashTarget, Erased
  <2> HIDE DEF b
  <2>6. PICK c \in Seq(Pages) : HoldsPages(nand[b], c)
    BY <2>5
  <2>7. Stored(b) = c
    BY <2>4, <2>6, HoldsStored
  <2> QED BY <2>1, <2>6, <2>7 DEF b
<1>5. content' \in [LogBlock -> Seq(Pages)]
  <2>1. content' = [l \in LogBlock |-> Stored(FlashMap(l))]
    BY <1>1, <1>3
  <2> QED BY <1>4, <2>1
<1>6. Typed' /\ Faults'
  BY <1>1, <1>2, <1>5, NoLocalType DEF Typed, Faults
<1>7. FlashTables(nand', anchorFlash') /\ FlashData'
  BY <1>1, <1>2, <1>4, NoLocalType DEF FlashData, FlashTarget, Erased
<1>8. UbiInv'
  BY <1>1, <1>6, <1>7 DEF UbiInv, mounting
<1>9. FlashKept
  BY <1>1 DEF FlashKept, Intact
<1> QED BY <1>1, <1>8, <1>9

\* INDEX_Init takes the tables from flash.
LEMMA MountKeeps ==
  ASSUME UbiInv, Mount
  PROVE  UbiInv' /\ FlashKept /\ Intact /\ IsSettled'
         /\ FI(nand, anchorFlash) = index_table'
<1> DEFINE isNew == TablePages(anchorFlash.new.block) > 0
           t == FI(nand, anchorFlash)
           ib == FIB(nand, anchorFlash)
<1>1. ~powered /\ ~clobbered /\ mounting /\ local = NoLocal
  BY DEF UbiInv, Mount
<1>2. Typed /\ Faults /\ FlashTables(nand, anchorFlash) /\ FlashData
  BY <1>1 DEF UbiInv
<1>3. /\ FlashIndexBlock = ib /\ FlashIndex = t
      /\ TablePages(ib) = Len(nand[ib])
      /\ (isNew <=> nand[anchorFlash.new.block] # <<>>)
  BY <1>2, FlashFound
<1>4. nand \in Nands /\ anchorFlash \in Anchors
  BY <1>2 DEF Typed, Nands
<1>5. t \in IndexTables /\ ib \in Phy /\ FMap(nand, anchorFlash) \in [LogBlock -> Phy]
      /\ nand[ib] \in Seq(Pages) /\ Len(nand[ib]) \in Nat
  BY <1>2, <1>4, FlashParts DEF Nands
<1>6. /\ powered' = TRUE /\ anchor_table' = anchorFlash /\ index_table' = t
      /\ index_block' = (IF isNew THEN anchorFlash.new ELSE anchorFlash.old)
      /\ index_next_page' = (IF isNew THEN Len(nand[ib]) ELSE P)
      /\ todo' = <<"indexUpdate", "mountAreas">>
      /\ local' = [NoLocal EXCEPT !.op = IF isNew THEN "mountNew" ELSE "mountOld"]
      /\ UNCHANGED <<nand, anchorFlash, area_offset_table, cached_area_number, cached_area_table,
                     content, clobbered, ops, campaign>>
  BY <1>3 DEF Mount, MountPage, flashVars, areaVars, history, faults
<1>7. index_block' \in Entries /\ index_block'.block = ib
      /\ (isNew => anchorFlash.new.block = index_block'.block)
  BY <1>2, <1>3, <1>4, <1>6 DEF FlashTables, FIB, Anchors
<1>8. local' \in LocalVars /\ local'.op = (IF isNew THEN "mountNew" ELSE "mountOld")
      /\ local'.log = NONE
      /\ ~full'
  BY <1>6, NoLocalType DEF LocalVars, NoLocal, full, Ops
<1>9. at' = "indexUpdate" /\ mounting' /\ plr' = t.plr
  BY <1>1, <1>6 DEF at, AtOf, mounting, plr
<1>10. /\ ~Committing' /\ ~IsApplied' /\ ~NewArea' /\ ~Holding' /\ IsSettled' /\ InFlight' = {}
  BY <1>8, <1>9 DEF Committing, IsApplied, NewArea, Holding, IsSettled, InFlight, CallSteps, IndexSteps,
              CommitSteps
<1>11. RamMap' = FMap(nand, anchorFlash)
  BY <1>6, <1>10 DEF RamMap, FMap
<1>12. Stage'
  <2>1. todo' = Plan("indexUpdate", local'.op, full', cached_area_number')
    <3>1. <<"indexUpdate">> \o <<"mountAreas">> = <<"indexUpdate", "mountAreas">>
      BY PairIs
    <3>2. cached_area_number' = NONE
      BY <1>9 DEF mounting
    <3> QED BY <1>6, <3>1, <3>2 DEF Plan, AfterIndex
  <2> QED BY <1>8, <1>9, <2>1 DEF Stage, Steps, IndexSteps
<1>13. Owners'
  BY <1>2, <1>4, <1>5, <1>6, <1>7, <1>10, <1>11 DEF Owners, FlashTables
<1>14. AreaBlocks'
  BY <1>2, <1>6, <1>9, <1>10 DEF AreaBlocks, FlashTables
<1>15. Cache'
  BY <1>10 DEF Cache
<1>16. IndexBlock'
  <2>1. LastIs(nand[ib], "index") /\ Len(nand[ib]) <= P
    BY <1>2 DEF FlashTables, LastIs
  <2>2. /\ index_next_page' \in 0 .. P
        /\ index_next_page' < P => index_next_page' = Len(nand[ib])
    BY <1>5, <1>6, <1>7, <2>1, Geometry
  <2>3. at' \notin {"indexWrite", "getIndex", "anchorWrite"}
    BY <1>9
  <2> QED BY <1>6, <1>7, <2>1, <2>2, <2>3 DEF IndexBlock
<1>17. \A l \in LogBlock : HoldsPages(nand[FMap(nand, anchorFlash)[l]], content[l])
  BY <1>1, <1>2, NoLocalType DEF FlashData, FlashTarget, Erased
<1>18. RamData'
  BY <1>6, <1>10, <1>11, <1>17 DEF RamData, Target
<1>19. Locals'
  BY <1>8, <1>9, <1>10 DEF Locals, IndexSteps
<1>20. Refs'
  <2>1. SameRefs'
    BY <1>6, <1>7 DEF SameRefs
  <2>2. ~isNew => local'.op = "mountOld" /\ index_next_page' = P
    BY <1>6, <1>8
  <2> HIDE DEF isNew
  <2> QED BY <1>1, <1>6, <1>7, <1>9, <1>10, <2>1, <2>2 DEF Refs
<1>21. FlashTables(nand', anchorFlash') /\ FlashData'
  BY <1>2, <1>6, <1>17 DEF FlashData, FlashTarget, Erased
<1>22. Typed' /\ Faults'
  BY <1>2, <1>6, <1>8 DEF Typed, Faults
<1>23. UbiInv'
  BY <1>6, <1>12, <1>13, <1>14, <1>15, <1>16, <1>18, <1>19, <1>20, <1>21, <1>22 DEF UbiInv, Ram
<1>24. FlashKept /\ Intact /\ IsSettled' /\ t = index_table'
  BY <1>1, <1>6, <1>10 DEF FlashKept, Intact
<1> QED BY <1>23, <1>24

\* A program of the index table does not fail.
LEMMA IndexWriteBadNever == ASSUME UbiInv, IndexWriteBad PROVE FALSE
BY DEF UbiInv, Faults, Benign, IndexWriteBad, Failing, MayFail

\* AREA_Init and AREA_CheckUpdatePLR: what is common to the two cases.
LEMMA MountedAreas ==
  ASSUME UbiInv, MountAreas
  PROVE  /\ powered /\ at = "mountAreas" /\ Ram /\ Refs /\ Typed /\ Faults /\ ~clobbered
         /\ UNCHANGED <<nand, anchorFlash, anchor_table, index_table, index_block, index_next_page,
                        powered, content, clobbered, ops, campaign>>
         /\ area_offset_table' \in [Area -> 0 .. P - 1]
         /\ \A a \in Area : /\ area_offset_table'[a] + 1 = Len(nand[index_table.area[a].block])
                            /\ LastTable(index_table.area[a].block).table
                                 = TableOn(nand, index_table.area[a].block)
                            /\ HasArea(nand, index_table.area[a].block, a)
         /\ ~NewArea /\ ~Committing /\ InFlight = {} /\ SameRefs /\ FMap(nand, anchorFlash) = RamMap
         /\ anchorFlash.new.block = index_block.block
         /\ \A l \in LogBlock : HoldsPages(nand[RamMap[l]], content[l])
         /\ FlashTables(nand, anchorFlash)
<1>1. powered /\ at = "mountAreas" /\ Ram /\ Refs /\ Typed /\ Faults
  BY AtStep DEF MountAreas, Steps
<1>2. mounting /\ ~NewArea /\ ~Committing /\ InFlight = {} /\ IsSettled
  BY <1>1 DEF Ram, Stage, NewArea, Committing, InFlight, Holding, IsSettled, CommitSteps, IndexSteps
<1>3. /\ UNCHANGED <<nand, anchorFlash, anchor_table, index_table, index_block, index_next_page,
                     powered, content, clobbered, ops, campaign>>
      /\ area_offset_table' = [k \in Area |-> TablePages(index_table.area[k].block) - 1]
  BY DEF MountAreas, flashVars, history, faults
<1>4. ~clobbered /\ SameRefs /\ FMap(nand, anchorFlash) = RamMap
      /\ anchorFlash.new.block = index_block.block /\ FlashTables(nand, anchorFlash)
  BY <1>1, <1>2, SettledNeeds DEF Refs, UbiInv
<1>5. \A l \in LogBlock : HoldsPages(nand[RamMap[l]], content[l])
  BY <1>1, <1>2 DEF Ram, RamData, Target
<1>6. ASSUME NEW a \in Area
      PROVE  /\ TablePages(index_table.area[a].block) = Len(nand[index_table.area[a].block])
             /\ LastTable(index_table.area[a].block).table = TableOn(nand, index_table.area[a].block)
             /\ HasArea(nand, index_table.area[a].block, a)
             /\ Len(nand[index_table.area[a].block]) \in 1 .. P
  <2> DEFINE b == index_table.area[a].block
  <2>1. HasArea(nand, b, a)
    BY <1>1, <1>2 DEF Ram, AreaBlocks
  <2>2. nand[b] \in Seq(Pages) /\ Len(nand[b]) \in Nat
    BY <1>1, RamTypes
  <2>3. nand[b] # <<>> /\ Len(nand[b]) <= P /\ nand[b][Len(nand[b])].kind = "area"
    BY <2>1 DEF HasArea, LastIs
  <2> HIDE DEF b
  <2>4. TablePages(b) = Len(nand[b]) /\ Len(nand[b]) \in 1 .. P
    BY <2>2, <2>3, Geometry DEF TablePages
  <2> QED BY <2>1, <2>4 DEF LastTable, TableOn, b
<1>7. /\ area_offset_table' \in [Area -> 0 .. P - 1]
      /\ \A a \in Area : area_offset_table'[a] + 1 = Len(nand[index_table.area[a].block])
  BY <1>3, <1>6, Geometry
<1> QED BY <1>1, <1>2, <1>3, <1>4, <1>5, <1>6, <1>7

\* The last area update is in its table: UBI_Init is done.
LEMMA MountDone ==
  ASSUME UbiInv, MountAreas, todo' = <<>>, local' = NoLocal, cached_area_number' = LastArea,
         cached_area_table' = LastTable(index_table.area[LastArea].block).table,
         plr.log # NONE =>
           LastTable(index_table.area[AREA_INDEX(plr.log)].block).table[plr.log]
             = Entry(plr.block, plr.ec)
  PROVE  UbiInv' /\ RefsKept /\ FlashKept
<1>1. /\ powered /\ Ram /\ Refs /\ Typed /\ Faults /\ ~clobbered
      /\ UNCHANGED <<nand, anchorFlash, anchor_table, index_table, index_block, index_next_page,
                     powered, content, clobbered, ops, campaign>>
      /\ area_offset_table' \in [Area -> 0 .. P - 1]
      /\ ~NewArea /\ ~Committing /\ InFlight = {} /\ SameRefs /\ FMap(nand, anchorFlash) = RamMap
      /\ anchorFlash.new.block = index_block.block
      /\ FlashTables(nand, anchorFlash) /\ at = "mountAreas"
  BY MountedAreas
<1>2. \A a \in Area : /\ area_offset_table'[a] + 1 = Len(nand[index_table.area[a].block])
                      /\ LastTable(index_table.area[a].block).table
                           = TableOn(nand, index_table.area[a].block)
                      /\ HasArea(nand, index_table.area[a].block, a)
  BY MountedAreas
<1>3. \A l \in LogBlock : HoldsPages(nand[RamMap[l]], content[l])
  BY MountedAreas
<1>4. /\ at' = "idle" /\ at' \in CallSteps /\ ~Holding' /\ Stage' /\ Locals'
      /\ ~mounting' /\ ~full' /\ ~NewArea' /\ ~Committing' /\ IsApplied' /\ IsSettled' /\ InFlight' = {}
  BY AreasNat, CallEnded
<1>5. RamMap' = RamMap
  BY <1>1, <1>4 DEF RamMap
<1>6. Entered(nand, index_table)
  <2>1. plr.log # NONE => AREA_INDEX(plr.log) \in Area
    BY <1>1, RamTypes, PlrLog, AreaOf
  <2> QED BY <1>2, <2>1 DEF Entered, plr
<1>7. Owners'
  BY <1>1, <1>4, <1>5 DEF Ram, Owners
<1>8. AreaBlocks'
  BY <1>1, <1>2, <1>4 DEF AreaBlocks, HasArea
<1>9. Cache'
  BY <1>1, <1>2, <1>4, <1>6, AreasNat DEF Cache
<1>10. IndexBlock'
  BY <1>1, <1>4 DEF Ram, IndexBlock
<1>11. RamData'
  BY <1>1, <1>3, <1>4, <1>5 DEF RamData, Target
<1>12. Refs'
  BY <1>1, <1>4 DEF Refs, SameRefs
<1>13. FlashTables(nand', anchorFlash') /\ FlashData'
  BY <1>1, <1>3, <1>4 DEF FlashData, FlashTarget, Erased
<1>14. Typed' /\ Faults'
  BY <1>1, NoLocalType DEF Typed, Faults
<1>15. UbiInv'
  BY <1>1, <1>4, <1>7, <1>8, <1>9, <1>10, <1>11, <1>12, <1>13, <1>14 DEF UbiInv, Ram
<1>16. RefsKept
  BY <1>1, <1>4, <1>5 DEF RefsKept, Referred, TableBlocks
<1>17. FlashKept
  BY <1>1 DEF FlashKept, Intact
<1> QED BY <1>15, <1>16, <1>17

\* It is not: UBI_Init does it again.
LEMMA MountRedo ==
  ASSUME UbiInv, MountAreas, plr.log # NONE, cached_area_number' = updated,
         cached_area_table' =
           [LastTable(index_table.area[updated].block).table EXCEPT
              ![plr.log] = Entry(plr.block, plr.ec)],
         todo' = <<"commit", "mountRest">>, local' = [NoLocal EXCEPT !.op = "mountOld"]
  PROVE  UbiInv' /\ RefsKept /\ FlashKept
<1>1. /\ powered /\ Ram /\ Refs /\ Typed /\ Faults /\ ~clobbered
      /\ UNCHANGED <<nand, anchorFlash, anchor_table, index_table, index_block, index_next_page,
                     powered, content, clobbered, ops, campaign>>
      /\ area_offset_table' \in [Area -> 0 .. P - 1]
      /\ ~NewArea /\ ~Committing /\ InFlight = {} /\ SameRefs /\ FMap(nand, anchorFlash) = RamMap
      /\ anchorFlash.new.block = index_block.block
      /\ FlashTables(nand, anchorFlash) /\ at = "mountAreas"
  BY MountedAreas
<1>2. \A a \in Area : /\ area_offset_table'[a] + 1 = Len(nand[index_table.area[a].block])
                      /\ LastTable(index_table.area[a].block).table
                           = TableOn(nand, index_table.area[a].block)
                      /\ HasArea(nand, index_table.area[a].block, a)
  BY MountedAreas
<1>3. \A l \in LogBlock : HoldsPages(nand[RamMap[l]], content[l])
  BY MountedAreas
<1>4. plr.log \in LogBlock /\ updated \in Area /\ Entry(plr.block, plr.ec) \in Entries
      /\ plr.log \in OfArea(updated)
  BY <1>1, RamTypes, PlrLog, AreaOf DEF updated
<1>5. /\ local' \in LocalVars /\ local'.op = "mountOld" /\ local'.log = NONE /\ ~full'
  BY NoLocalType DEF LocalVars, NoLocal, full, Ops
<1>6. at' = "commit" /\ ~mounting' /\ plr' = plr /\ updated' = updated
  <2>1. at' = "commit"
    BY DEF at, AtOf
  <2>2. plr' = plr /\ updated' = updated
    BY <1>1 DEF plr, updated
  <2> QED BY <1>4, <2>1, <2>2, AreasNat DEF mounting
<1>7. /\ Committing' /\ ~IsApplied' /\ ~NewArea' /\ ~Holding' /\ ~IsSettled' /\ InFlight' = {}
  BY <1>6 DEF Committing, IsApplied, NewArea, Holding, IsSettled, InFlight, CallSteps, IndexSteps,
              CommitSteps
<1>8. RamMap' = RamMap
  BY <1>1, <1>7 DEF RamMap
<1>9. Stage'
  <2>1. todo' = Plan("commit", local'.op, full', cached_area_number')
    <3>1. <<"commit">> \o <<"mountRest">> = <<"commit", "mountRest">>
      BY PairIs
    <3> QED BY <1>5, <3>1 DEF Plan, EndOf
  <2> QED BY <1>5, <1>6, <2>1 DEF Stage, Steps, CommitSteps
<1>10. Owners'
  BY <1>1, <1>7, <1>8 DEF Ram, Owners
<1>11. AreaBlocks'
  BY <1>1, <1>2, <1>4, <1>5, <1>6, <1>7 DEF AreaBlocks, HasArea, IndexSteps
<1>12. Cache'
  <2> DEFINE tt == TableOn(nand, index_table.area[updated].block)
             e == Entry(plr.block, plr.ec)
  <2>1. tt \in AreaTables(updated) /\ cached_area_table' = [tt EXCEPT ![plr.log] = e]
    BY <1>2, <1>4 DEF HasArea
  <2> HIDE DEF tt, e
  <2>2. e \in Entries
    BY <1>4 DEF e
  <2>3. cached_area_table' \in AreaTables(updated)
        /\ \A l \in OfArea(updated) : l # plr.log => cached_area_table'[l] = tt[l]
    BY <1>4, <2>1, <2>2 DEF AreaTables
  <2> QED BY <1>1, <1>6, <1>7, <2>3 DEF Cache, tt
<1>13. IndexBlock'
  BY <1>1, <1>6 DEF Ram, IndexBlock
<1>14. RamData'
  BY <1>1, <1>3, <1>5, <1>8 DEF RamData, Target
<1>15. Locals'
  BY <1>5, <1>6, <1>7 DEF Locals, IndexSteps
<1>16. Refs'
  BY <1>1, <1>6, <1>7 DEF Refs, SameRefs
<1>17. FlashTables(nand', anchorFlash') /\ FlashData'
  BY <1>1, <1>3, <1>4 DEF FlashData, FlashTarget, Erased
<1>18. Typed' /\ Faults'
  BY <1>1, <1>5 DEF Typed, Faults
<1>19. UbiInv'
  BY <1>1, <1>9, <1>10, <1>11, <1>12, <1>13, <1>14, <1>15, <1>16, <1>17, <1>18 DEF UbiInv, Ram
<1>20. RefsKept
  BY <1>1, <1>7, <1>8 DEF RefsKept, Referred, TableBlocks
<1>21. FlashKept
  BY <1>1 DEF FlashKept, Intact
<1> QED BY <1>19, <1>20, <1>21

\* AREA_Init: the update logged in the index is in its area table, or is redone.
LEMMA MountAreasKeeps ==
  ASSUME UbiInv, MountAreas
  PROVE  UbiInv' /\ RefsKept /\ FlashKept
<1> DEFINE a == IF plr.log = NONE THEN LastArea ELSE AREA_INDEX(plr.log)
           redo == UpdateMissing(plr, LastTable(index_table.area[a].block).table)
<1>1. CASE redo
  <2>1. plr.log # NONE /\ a = updated
    BY <1>1 DEF UpdateMissing, updated
  <2> QED BY <1>1, <2>1, MountRedo DEF MountAreas, plr
<1>2. CASE ~redo
  BY <1>2, MountDone DEF MountAreas, plr, UpdateMissing
<1> QED BY <1>1, <1>2
-----------------------------------------------------------------------------
(* UBI_Format *)

\* The logical blocks of the areas up to a.
LEMMA BlocksUpTo ==
  ASSUME NEW a \in Area
  PROVE  \E n \in Nat :
           /\ n = Cardinality({l \in LogBlock : AREA_INDEX(l) <= a}) /\ n <= LogCount
           /\ \A l \in LogBlock : AREA_INDEX(l) <= a <=> l < n
           /\ FormatAreaBlock(a) = n + a
<1> DEFINE p == PER_AREA
           S == {l \in LogBlock : AREA_INDEX(l) <= a}
           n == IF (a + 1) * p < LogCount THEN (a + 1) * p ELSE LogCount
<1>1. p \in Nat \ {0} /\ LogCount \in Nat \ {0} /\ a \in Nat /\ LogBlock = 0 .. LogCount - 1
  BY Geometry, AreasNat DEF LogBlock
<1>2. (a + 1) * p \in Nat
  BY <1>1
<1>3. n \in Nat /\ n <= LogCount
  BY <1>1, <1>2
<1>4. ASSUME NEW l \in Nat PROVE l \div p <= a <=> l < (a + 1) * p
  <2> DEFINE q == l \div p
             r == l % p
  <2>1. q \in Nat /\ r \in 0 .. p - 1 /\ l = p * q + r
    BY <1>1
  <2> HIDE DEF q, r
  <2>2. ASSUME q <= a PROVE l < (a + 1) * p
    <3>1. p * q <= p * a
      BY <1>1, <2>1, <2>2
    <3>2. (a + 1) * p = p * a + p
      BY <1>1
    <3> QED BY <1>1, <1>2, <2>1, <3>1, <3>2
  <2>3. ASSUME ~(q <= a) PROVE ~(l < (a + 1) * p)
    <3>1. p * (a + 1) <= p * q
      BY <1>1, <2>1, <2>3
    <3>2. (a + 1) * p = p * (a + 1)
      BY <1>1
    <3> QED BY <1>1, <1>2, <2>1, <3>1, <3>2
  <2> QED BY <2>2, <2>3 DEF q
<1>5. \A l \in LogBlock : AREA_INDEX(l) <= a <=> l < n
  <2> SUFFICES ASSUME NEW l \in LogBlock PROVE AREA_INDEX(l) <= a <=> l < n
    OBVIOUS
  <2>1. l \in Nat /\ l < LogCount
    BY <1>1
  <2>2. l \div p <= a <=> l < (a + 1) * p
    BY <1>4, <2>1
  <2> DEFINE x == (a + 1) * p
  <2>3. x \in Nat /\ n = IF x < LogCount THEN x ELSE LogCount
    BY <1>2
  <2> HIDE DEF x, n
  <2>4. l < n <=> l < x
    BY <1>1, <2>1, <2>3
  <2> QED BY <2>2, <2>4 DEF AREA_INDEX, x
<1> HIDE DEF n
<1>6. S = 0 .. n - 1
  BY <1>1, <1>3, <1>5
<1>7. Cardinality(S) = n
  <2>1. Cardinality(0 .. n - 1) = IF 0 > n - 1 THEN 0 ELSE n - 1 - 0 + 1
    BY <1>3, FS_Interval
  <2> HIDE DEF S
  <2> QED BY <1>3, <1>6, <2>1
<1> QED BY <1>3, <1>5, <1>7 DEF FormatAreaBlock

\* UBI_Format gives every logical block, area table and the index a block of
\* its own.
LEMMA FormatOrder ==
  /\ \A a \in Area : FormatAreaBlock(a) \in Nat /\ FormatAreaBlock(a) < FormatIndexBlock
  /\ \A l \in LogBlock : FormatBlock(l) \in Nat /\ FormatBlock(l) < FormatIndexBlock
  /\ FormatIndexBlock \in Nat /\ FormatIndexBlock < PhyCount
  /\ \A a, b \in Area : FormatAreaBlock(a) = FormatAreaBlock(b) => a = b
  /\ \A k, l \in LogBlock : FormatBlock(k) = FormatBlock(l) => k = l
  /\ \A a \in Area, l \in LogBlock : FormatAreaBlock(a) # FormatBlock(l)
<1>1. /\ Area = 0 .. LastArea /\ LastArea \in Nat /\ FormatIndexBlock = LogCount + LastArea + 1
      /\ LogCount \in Nat \ {0} /\ LogBlock = 0 .. LogCount - 1
         /\ PhyCount > LogCount + Cardinality(Area) + 1
      /\ Cardinality(Area) = LastArea + 1 /\ PhyCount \in Nat
  BY AreaRange, AreasNat, Geometry, UbiAssumption DEF FormatIndexBlock, LogBlock
<1>2. FormatIndexBlock \in Nat /\ FormatIndexBlock < PhyCount
  BY <1>1
<1>3. ASSUME NEW a \in Area PROVE FormatAreaBlock(a) \in Nat /\ FormatAreaBlock(a) < FormatIndexBlock
  <2>1. PICK n \in Nat : n <= LogCount /\ FormatAreaBlock(a) = n + a
    BY BlocksUpTo
  <2>2. a \in Nat /\ a <= LastArea
    BY <1>1
  <2> QED BY <1>1, <2>1, <2>2
<1>4. ASSUME NEW l \in LogBlock
      PROVE  FormatBlock(l) \in Nat /\ FormatBlock(l) < FormatIndexBlock /\ AREA_INDEX(l) \in Nat
  <2>1. AREA_INDEX(l) \in Nat /\ AREA_INDEX(l) <= LastArea /\ l \in Nat /\ l < LogCount
    BY <1>1, AreaOf
  <2> QED BY <1>1, <2>1 DEF FormatBlock
<1>5. ASSUME NEW k \in LogBlock, NEW l \in LogBlock, k < l PROVE FormatBlock(k) < FormatBlock(l)
  <2>1. PICK n \in Nat : \A i \in LogBlock : AREA_INDEX(i) <= AREA_INDEX(l) <=> i < n
    BY AreaOf, BlocksUpTo
  <2>2. AREA_INDEX(k) \in Nat /\ AREA_INDEX(l) \in Nat /\ k \in Nat /\ l \in Nat
    BY <1>1, AreaOf
  <2>3. AREA_INDEX(k) <= AREA_INDEX(l)
    BY <1>5, <2>1, <2>2
  <2> QED BY <1>5, <2>2, <2>3 DEF FormatBlock
<1>6. ASSUME NEW a \in Area, NEW b \in Area, a < b PROVE FormatAreaBlock(a) < FormatAreaBlock(b)
  <2>1. PICK n \in Nat : /\ n <= LogCount /\ \A i \in LogBlock : AREA_INDEX(i) <= a <=> i < n
                         /\ FormatAreaBlock(a) = n + a
    BY BlocksUpTo
  <2>2. PICK m \in Nat : /\ m <= LogCount /\ \A i \in LogBlock : AREA_INDEX(i) <= b <=> i < m
                         /\ FormatAreaBlock(b) = m + b
    BY BlocksUpTo
  <2>3. n <= m
    <3>1. SUFFICES ASSUME m < n PROVE FALSE
      BY <2>1, <2>2
    <3>2. m \in LogBlock /\ m < n
      BY <1>1, <2>1, <2>2, <3>1
    <3>3. AREA_INDEX(m) <= a /\ ~(AREA_INDEX(m) <= b) /\ AREA_INDEX(m) \in Nat
      BY <2>1, <2>2, <3>2, <1>4
    <3> QED BY <1>1, <1>6, <3>3
  <2>4. a \in Nat /\ b \in Nat
    BY <1>1
  <2> QED BY <1>6, <2>1, <2>2, <2>3, <2>4
<1>7. ASSUME NEW a \in Area, NEW l \in LogBlock PROVE FormatAreaBlock(a) # FormatBlock(l)
  <2>1. PICK n \in Nat : /\ \A i \in LogBlock : AREA_INDEX(i) <= a <=> i < n
                         /\ FormatAreaBlock(a) = n + a
    BY BlocksUpTo
  <2>2. a \in Nat /\ l \in Nat /\ AREA_INDEX(l) \in Nat
    BY <1>1, <1>4
  <2>3. AREA_INDEX(l) <= a <=> l < n
    BY <2>1
  <2> QED BY <2>1, <2>2, <2>3 DEF FormatBlock
<1>8. \A a, b \in Area : FormatAreaBlock(a) = FormatAreaBlock(b) => a = b
  <2> SUFFICES ASSUME NEW a \in Area, NEW b \in Area,
                      FormatAreaBlock(a) = FormatAreaBlock(b)
               PROVE  a = b
    OBVIOUS
  <2>1. ~(a < b) /\ ~(b < a)
    BY <1>3, <1>6
  <2> QED BY <1>1, <2>1
<1>9. \A k, l \in LogBlock : FormatBlock(k) = FormatBlock(l) => k = l
  <2> SUFFICES ASSUME NEW k \in LogBlock, NEW l \in LogBlock,
                      FormatBlock(k) = FormatBlock(l)
               PROVE  k = l
    OBVIOUS
  <2>1. ~(k < l) /\ ~(l < k)
    BY <1>4, <1>5
  <2> QED BY <1>1, <2>1
<1> QED BY <1>2, <1>3, <1>4, <1>7, <1>8, <1>9

\* What UBI_Format writes.
LEMMA FormatTables ==
  /\ FormatIndex \in IndexTables /\ TableOf(Phy, FormatIndex.fbt)
  /\ \A b \in FbtBlocks(FormatIndex.fbt) : b > FormatIndexBlock
  /\ \A a \in Area : FormatAreaTable(a) \in AreaTables(a)
     /\ FormatIndex.area[a].block = FormatAreaBlock(a)
  /\ FormatIndex.plr = NoPlr /\ FormatAnchor \in Anchors
  /\ FormatAnchor.new = Entry(FormatIndexBlock, 0) /\ Entry(FormatIndexBlock, 0) \in Entries
  /\ FormatIndexBlock \in Phy /\ \A a \in Area : FormatAreaBlock(a) \in Phy
  /\ \A l \in LogBlock : FormatBlock(l) \in Phy
<1>1. /\ FormatIndexBlock \in Phy /\ \A a \in Area : FormatAreaBlock(a) \in Phy
      /\ \A l \in LogBlock : FormatBlock(l) \in Phy
  BY FormatOrder, Geometry DEF Phy
<1>2. /\ Entry(FormatIndexBlock, 0) \in Entries
         /\ \A a \in Area : Entry(FormatAreaBlock(a), 0) \in Entries
      /\ \A l \in LogBlock : Entry(FormatBlock(l), 0) \in Entries
  BY <1>1, Entries2
<1>3. FormatAnchor \in Anchors /\ FormatAnchor.new = Entry(FormatIndexBlock, 0)
  BY <1>2, AreaRange, AreasNat DEF Anchors, FormatAnchor
<1>4. \A a \in Area : FormatAreaTable(a) \in AreaTables(a)
      /\ FormatIndex.area[a].block = FormatAreaBlock(a)
  BY <1>2, AreasNat, Entries2 DEF FormatAreaTable, AreaTables, FormatIndex
<1> DEFINE f == FormatIndex.fbt
<1>5. ASSUME NEW i \in Slots
      PROVE  /\ FormatIndexBlock + 1 + i < PhyCount => f[i] = Entry(FormatIndexBlock + 1 + i, 0)
                   /\ f[i].block = FormatIndexBlock + 1 + i /\ f[i] \in Entries
             /\ ~(FormatIndexBlock + 1 + i < PhyCount) => f[i] = NoEntry /\ f[i].block = INVALID_BLOCK
  <2>1. i \in Nat /\ FormatIndexBlock \in Nat
    BY FormatOrder, FbtAssumption DEF Slots
  <2>2. FormatIndexBlock + 1 + i < PhyCount => FormatIndexBlock + 1 + i \in Phy
    BY <2>1, Geometry DEF Phy
  <2>3. f[i]
          = IF FormatIndexBlock + 1 + i < PhyCount THEN Entry(FormatIndexBlock + 1 + i, 0) ELSE NoEntry
    BY DEF FormatIndex
  <2> HIDE DEF f
  <2> QED BY <2>2, <2>3, Entries2
<1>6. f \in [Slots -> Entries \cup {NoEntry}]
  <2>1. f = [i \in Slots |-> IF FormatIndexBlock + 1 + i < PhyCount
                               THEN Entry(FormatIndexBlock + 1 + i, 0) ELSE NoEntry]
    BY DEF FormatIndex
  <2> HIDE DEF f
  <2> QED BY <1>5, <2>1
<1>7. FormatIndex \in IndexTables /\ FormatIndex.plr = NoPlr
  BY <1>2, <1>6 DEF IndexTables, FormatIndex, Plrs
<1> HIDE DEF f
<1>8. TableOf(Phy, f)
  <2>1. \A i, j \in Slots : f[i].block = f[j].block /\ f[i].block # INVALID_BLOCK => i = j
    <3> SUFFICES ASSUME NEW i \in Slots, NEW j \in Slots,
                        f[i].block = f[j].block, f[i].block # INVALID_BLOCK
                 PROVE  i = j
      OBVIOUS
    <3>1. f[i].block = FormatIndexBlock + 1 + i /\ f[j].block = FormatIndexBlock + 1 + j
      BY <1>5
    <3>2. i \in Nat /\ j \in Nat /\ FormatIndexBlock \in Nat
      BY FormatOrder, FbtAssumption DEF Slots
    <3>3. FormatIndexBlock + 1 + i = FormatIndexBlock + 1 + j
      BY <3>1
    <3> QED BY <3>2, <3>3
  <2> QED BY <1>6, <2>1 DEF TableOf, Entries
<1>9. ASSUME NEW b \in FbtBlocks(f) PROVE b > FormatIndexBlock
  <2>1. PICK i \in Slots : b = f[i].block /\ b # INVALID_BLOCK
    BY DEF FbtBlocks
  <2>2. b = FormatIndexBlock + 1 + i
    BY <1>5, <2>1
  <2>3. i \in Nat /\ FormatIndexBlock \in Nat
    BY FormatOrder, FbtAssumption DEF Slots
  <2> QED BY <2>2, <2>3
<1> QED BY <1>1, <1>2, <1>3, <1>4, <1>7, <1>8, <1>9 DEF f

\* A formatted chip is in order.
LEMMA FormatKeeps ==
  ASSUME Init, \A c \in Campaigns : Benign(c)
  PROVE  /\ UbiInv /\ at = "idle"
         /\ RamMap = [l \in LogBlock |-> FormatBlock(l)] /\ FI(nand, anchorFlash) = FormatIndex
<1> DEFINE t == FormatIndex
           ib == FormatIndexBlock
<1>1. /\ nand = [b \in Phy |->
              IF b = FormatIndexBlock THEN <<IndexPage(FormatIndex)>>
              ELSE IF \E a \in Area : b = FormatAreaBlock(a)
                THEN <<AreaPage(FormatAreaTable(CHOOSE a \in Area : b = FormatAreaBlock(a)))>>
              ELSE <<>>]
      /\ anchorFlash = FormatAnchor /\ anchor_table = FormatAnchor /\ index_table = t
      /\ index_block = Entry(ib, 0) /\ index_next_page = 1
      /\ area_offset_table = [a \in Area |-> 0]
      /\ cached_area_number = LastArea /\ cached_area_table = FormatAreaTable(LastArea)
      /\ todo = <<>> /\ local = NoLocal /\ powered = TRUE
      /\ content = [l \in LogBlock |-> <<>>] /\ clobbered = FALSE /\ ops = 0
  BY DEF Init
<1>2. Faults
  BY UbiAssumption DEF Init, Faults, FaultPlans, Benign
<1>3. /\ t \in IndexTables /\ TableOf(Phy, t.fbt)
      /\ \A b \in FbtBlocks(t.fbt) : b > ib
      /\ t.plr = NoPlr /\ FormatAnchor \in Anchors
      /\ FormatAnchor.new = Entry(ib, 0) /\ Entry(ib, 0) \in Entries /\ ib \in Phy
  BY FormatTables
<1>4. /\ \A a \in Area : FormatAreaTable(a) \in AreaTables(a) /\ t.area[a].block = FormatAreaBlock(a)
                         /\ FormatAreaBlock(a) \in Phy
      /\ \A l \in LogBlock : FormatBlock(l) \in Phy
  BY FormatTables
<1>5. nand[ib] = <<IndexPage(t)>> /\ LastIs(nand[ib], "index") /\ TableOn(nand, ib) = t
      /\ Len(nand[ib]) = 1
  <2>1. nand[ib] = <<IndexPage(t)>>
    BY <1>1, <1>3
  <2> QED BY <2>1, Geometry DEF LastIs, TableOn, IndexPage
<1>6. ASSUME NEW a \in Area
      PROVE  /\ HasArea(nand, t.area[a].block, a) /\ TableOn(nand, t.area[a].block) = FormatAreaTable(a)
             /\ Len(nand[t.area[a].block]) = 1
                /\ nand[t.area[a].block] = <<AreaPage(FormatAreaTable(a))>>
  <2> DEFINE b == FormatAreaBlock(a)
  <2>1. b # ib /\ b \in Phy /\ t.area[a].block = b
    BY <1>4, FormatOrder
  <2>2. (CHOOSE x \in Area : b = FormatAreaBlock(x)) = a
    BY FormatOrder
  <2>3. nand[b] = <<AreaPage(FormatAreaTable(a))>>
    BY <1>1, <2>1, <2>2
  <2> HIDE DEF b
  <2> QED BY <1>4, <2>1, <2>3, Geometry DEF HasArea, LastIs, TableOn, AreaPage
<1>7. ASSUME NEW l \in LogBlock PROVE nand[FormatBlock(l)] = <<>>
  <2>1. FormatBlock(l) # ib /\ ~\E a \in Area : FormatBlock(l) = FormatAreaBlock(a)
    BY FormatOrder
  <2> QED BY <1>1, <1>4, <2>1
<1>8. nand \in Nands
  <2>1. IndexPage(t) \in Pages /\ \A a \in Area : AreaPage(FormatAreaTable(a)) \in Pages
    BY <1>3, <1>4 DEF Pages
  <2> SUFFICES ASSUME NEW b \in Phy PROVE nand[b] \in Seq(Pages)
    BY <1>1 DEF Nands
  <2>2. CASE b = ib
    BY <1>5, <2>1, <2>2
  <2>3. CASE b # ib /\ \E a \in Area : b = FormatAreaBlock(a)
    <3>1. PICK a \in Area : b = FormatAreaBlock(a)
      BY <2>3
    <3> DEFINE pg == AreaPage(FormatAreaTable(a))
    <3>2. nand[b] = <<pg>> /\ pg \in Pages
      BY <1>4, <1>6, <2>1, <3>1
    <3> HIDE DEF pg
    <3> QED BY <3>2
  <2>4. CASE b # ib /\ ~\E a \in Area : b = FormatAreaBlock(a)
    <3>1. nand[b] = <<>>
      BY <1>1, <2>4
    <3> QED BY <3>1
  <2> QED BY <2>2, <2>3, <2>4
<1>9. TableMap(nand, t) = [l \in LogBlock |-> FormatBlock(l)]
  <2>1. \A l \in LogBlock : t.plr.log # l
    BY <1>3, Geometry DEF NoPlr
  <2>2. \A l \in LogBlock : TableOn(nand, t.area[AREA_INDEX(l)].block)[l].block = FormatBlock(l)
    <3> SUFFICES ASSUME NEW l \in LogBlock
                 PROVE  FormatAreaTable(AREA_INDEX(l))[l].block = FormatBlock(l)
      BY <1>6, AreaOf
    <3> QED BY AreaOf, Entries2 DEF FormatAreaTable
  <2> QED BY <2>1, <2>2 DEF TableMap
<1>10. at = "idle" /\ ~mounting /\ ~full /\ at \in CallSteps
  BY <1>1, AreasNat DEF at, AtOf, mounting, full, NoLocal, CallSteps
<1>11. ~Holding /\ ~NewArea /\ ~Committing /\ IsApplied /\ IsSettled /\ InFlight = {}
  BY <1>10 DEF Holding, NewArea, Committing, IsApplied, IsSettled, InFlight, CallSteps, CommitSteps,
     IndexSteps
<1>12. RamMap = TableMap(nand, t)
  BY <1>1, <1>11 DEF RamMap
<1> HIDE DEF t, ib
<1>13. Layout(FbtBlocks(t.fbt), t.area, ib, RamMap)
  <2>1. \A l \in LogBlock : RamMap[l] = FormatBlock(l)
    BY <1>9, <1>12
  <2>2. \A a \in Area : t.area[a].block = FormatAreaBlock(a)
    BY <1>4
  <2>3. \A b \in FbtBlocks(t.fbt) : b \in Nat /\ b > ib
    BY <1>3, BlocksOfTable, Geometry
  <2>4. /\ \A a \in Area : FormatAreaBlock(a) \in Nat /\ FormatAreaBlock(a) < ib
        /\ \A l \in LogBlock : FormatBlock(l) \in Nat /\ FormatBlock(l) < ib
        /\ ib \in Nat
    BY FormatOrder DEF ib
  <2>5. /\ \A a \in Area : FormatAreaBlock(a) # ib /\ FormatAreaBlock(a) \notin FbtBlocks(t.fbt)
        /\ \A l \in LogBlock : FormatBlock(l) # ib /\ FormatBlock(l) \notin FbtBlocks(t.fbt)
        /\ ib \notin FbtBlocks(t.fbt)
    BY <2>3, <2>4
  <2> QED BY <2>1, <2>2, <2>5, FormatOrder DEF Layout
<1>14. Stage
  BY <1>1, <1>10 DEF Stage, Plan, Steps
<1>15. Owners
  BY <1>1, <1>3, <1>11, <1>13, Entries2 DEF Owners
<1>16. AreaBlocks
  <2>1. area_offset_table \in [Area -> 0 .. P - 1] /\ \A a \in Area : area_offset_table[a] + 1 = 1
    <3>1. 0 \in 0 .. P - 1 /\ 0 + 1 = 1
      BY Geometry
    <3> QED BY <1>1, <3>1
  <2> QED BY <1>1, <1>6, <1>11, <2>1 DEF AreaBlocks
<1>17. Entered(nand, t)
  BY <1>3 DEF Entered, NoPlr
<1>18. Cache
  BY <1>1, <1>6, <1>11, <1>17, AreasNat DEF Cache
<1>19. IndexBlock
  <2>1. index_block.block = ib /\ 1 \in 0 .. P
    BY <1>1, Entries2, Geometry
  <2> QED BY <1>1, <1>5, <1>10, <2>1 DEF IndexBlock
<1>20. \A l \in LogBlock : HoldsPages(nand[RamMap[l]], content[l])
  BY <1>1, <1>7, <1>9, <1>12, HoldsNone
<1>21. RamData
  BY <1>11, <1>20 DEF RamData, Target
<1>22. Locals
  BY <1>1, <1>10, <1>11, NoLocalType DEF Locals, IndexSteps
<1>23. FIB(nand, anchorFlash) = ib /\ FI(nand, anchorFlash) = t /\ FMap(nand, anchorFlash) = RamMap
       /\ anchorFlash.new.block = ib /\ nand[ib] # <<>>
  <2>1. anchorFlash.new.block = ib /\ nand[ib] # <<>>
    BY <1>1, <1>3, <1>5, Entries2 DEF LastIs
  <2>2. FIB(nand, anchorFlash) = ib
    BY <2>1 DEF FIB
  <2> QED BY <1>5, <1>12, <2>1, <2>2 DEF FI, FMap
<1>24. Refs
  BY <1>1, <1>10, <1>11, <1>23, Entries2 DEF Refs, SameRefs
<1>25. FlashTables(nand, anchorFlash)
  BY <1>3, <1>5, <1>6, <1>13, <1>23 DEF FlashTables
<1>26. FlashData
  BY <1>1, <1>20, <1>23, NoLocalType DEF FlashData, FlashTarget, Erased
<1>27. Typed
  <2>1. content \in [LogBlock -> Seq(Pages)]
    <3>1. <<>> \in Seq(Pages)
      OBVIOUS
    <3> QED BY <1>1, <3>1
  <2>2. ops \in 0 .. MaxOps
    BY <1>1, Geometry
  <2> QED BY <1>1, <1>3, <1>8, <2>1, <2>2, NoLocalType DEF Typed, Nands
<1>28. UbiInv
  BY <1>1, <1>2, <1>14, <1>15, <1>16, <1>18, <1>19, <1>21, <1>22, <1>24, <1>25, <1>26, <1>27
     DEF UbiInv, Ram
<1> QED BY <1>9, <1>10, <1>12, <1>23, <1>28 DEF t
-----------------------------------------------------------------------------
(* All steps together *)

\* A step that changes nothing.
LEMMA StutterKeeps ==
  ASSUME UbiInv, UNCHANGED vars
  PROVE  UbiInv' /\ RefsKept /\ FlashKept
<1>1. UNCHANGED <<nand, anchorFlash, anchor_table, index_table, index_block, index_next_page,
                  area_offset_table, cached_area_number, cached_area_table, todo, local, powered,
                  content, clobbered, ops, campaign>>
  BY DEF vars, flashVars, ramVars, indexVars, areaVars, history, faults
<1>2. at' = at /\ (mounting' <=> mounting) /\ full' = full /\ plr' = plr /\ updated' = updated
  BY <1>1 DEF at, mounting, full, plr, updated
<1>3. /\ (Committing' <=> Committing) /\ (IsApplied' <=> IsApplied) /\ (NewArea' <=> NewArea)
      /\ (Holding' <=> Holding) /\ (IsSettled' <=> IsSettled) /\ InFlight' = InFlight
  BY <1>1, <1>2 DEF Committing, IsApplied, NewArea, Holding, IsSettled, InFlight
<1>4. RamMap' = RamMap
  BY <1>1, <1>2, <1>3 DEF RamMap
<1>5. (Typed => Typed') /\ (Faults => Faults')
  BY <1>1 DEF Typed, Faults
<1>6. (Stage => Stage') /\ (IndexBlock => IndexBlock')
  BY <1>1, <1>2, <1>3 DEF Stage, IndexBlock
<1>7. (Owners => Owners') /\ (RamData => RamData')
  <2>1. \A l \in LogBlock : Target(l)' = Target(l)
    BY <1>1, <1>3 DEF Target
  <2> QED BY <1>1, <1>2, <1>3, <1>4, <2>1 DEF Owners, RamData
<1>8. (AreaBlocks => AreaBlocks') /\ (Cache => Cache')
  BY <1>1, <1>2, <1>3 DEF AreaBlocks, Cache
<1>9. Locals => Locals'
  BY <1>1, <1>2, <1>3, <1>4 DEF Locals
<1>10. Refs => Refs'
  BY <1>1, <1>2, <1>3 DEF Refs, SameRefs
<1>11. (FlashTables(nand, anchorFlash) => FlashTables(nand', anchorFlash')) /\ (FlashData => FlashData')
  BY <1>1, <1>2 DEF FlashData, FlashTarget, Erased
<1>12. UbiInv'
  BY <1>1, <1>2, <1>3, <1>5, <1>6, <1>7, <1>8, <1>9, <1>10, <1>11 DEF UbiInv, Ram
<1>13. RefsKept
  BY <1>1, <1>3, <1>4 DEF RefsKept, Referred, TableBlocks
<1>14. FlashKept
  BY <1>1, <1>3 DEF FlashKept, Intact
<1> QED BY <1>12, <1>13, <1>14

\* Every step of the code, every power loss and every mount keeps the invariant.
LEMMA NextKeeps == ASSUME UbiInv, [Next]_vars PROVE UbiInv'
<1>1. CASE Get \/ GetBadBlock \/ GetTooMany
  BY <1>1, GetKeeps, GetBadBlockKeeps, GetTooManyKeeps
<1>2. CASE Commit \/ AreaUse \/ AreaWrite \/ IndexUpdate \/ AnchorWrite
  BY <1>2, CommitKeeps, AreaUseKeeps, AreaWriteKeeps, IndexUpdateKeeps, AnchorWriteKeeps
<1>3. CASE IndexWrite \/ IndexWriteBad \/ CommitDone \/ EraseUse
  BY <1>3, IndexWriteKeeps, IndexWriteBadNever, CommitDoneKeeps, EraseUseKeeps
<1>4. CASE Copy \/ CopyBad \/ Reprogram \/ SwlErase \/ SwlCopy
  BY <1>4, CopyKeeps, CopyBadNever, ReprogramKeeps, SwlEraseKeeps, SwlCopyKeeps
<1>5. CASE Mount \/ MountAreas \/ MountRest \/ PowerLoss \/ UbiSwl
  BY <1>5, MountKeeps, MountAreasKeeps, MountRestKeeps, PowerLossKeeps, UbiSwlKeeps
<1>6. CASE \E l \in LogBlock : UbiRead(l) \/ UbiErase(l) \/ UbiWrite(l)
  BY <1>6, UbiReadKeeps, UbiEraseKeeps, UbiWriteKeeps
<1>7. CASE UNCHANGED vars
  BY <1>7, StutterKeeps
<1> QED BY <1>1, <1>2, <1>3, <1>4, <1>5, <1>6, <1>7 DEF Next, Running

\* The tables in RAM, those on flash and the relation between them (UbiInv) are
\* kept by every call of ubi_api.c, every step of INDEX_Update_Commit, every
\* power loss and every UBI_Init, as long as no program of a table fails.
THEOREM UbiInvariantHolds ==
  ASSUME \A c \in Campaigns : Benign(c)
  PROVE  Spec => []UbiInv
<1>1. Init => UbiInv
  BY FormatKeeps
<1>2. UbiInv /\ [Next]_vars => UbiInv'
  BY NextKeeps
<1> QED BY <1>1, <1>2, PTL DEF Spec
-----------------------------------------------------------------------------
(* Owners of blocks *)

\* A function with distinct values has as many values as arguments.
LEMMA DistinctValues ==
  ASSUME NEW S, IsFiniteSet(S), NEW f, f = [x \in S |-> f[x]], \A x, y \in S : f[x] = f[y] => x = y
  PROVE  /\ IsFiniteSet({f[x] : x \in S})
         /\ Cardinality({f[x] : x \in S}) = Cardinality(S)
<1> DEFINE T == {f[x] : x \in S}
<1>1. f \in [S -> T]
  OBVIOUS
<1>2. f \in Bijection(S, T)
  BY <1>1 DEF Bijection, Injection, Surjection, IsInjective
<1>3. ExistsBijection(S, T)
  BY <1>2 DEF ExistsBijection
<1> HIDE DEF T
<1>4. IsFiniteSet(T) /\ Cardinality(T) = Cardinality(S)
  BY <1>3, FS_Bijection
<1> QED BY <1>4 DEF T

\* The number of logical blocks and of areas.
LEMMA LogAndAreaCount ==
  /\ IsFiniteSet(LogBlock) /\ Cardinality(LogBlock) = LogCount
  /\ IsFiniteSet(Area) /\ Cardinality(Area) \in Nat
<1>1. IsFiniteSet(LogBlock) /\ Cardinality(LogBlock) = LogCount
  <2>1. 0 \in Int /\ LogCount - 1 \in Int /\ ~(0 > LogCount - 1) /\ LogCount - 1 - 0 + 1 = LogCount
    BY Geometry
  <2> QED BY <2>1, FS_Interval DEF LogBlock
<1>2. IsFiniteSet(Area)
  <2>1. LastArea \in Int
    BY AreasNat
  <2> QED BY <2>1, AreaRange, FS_Interval
<1> QED BY <1>1, <1>2, FS_CardinalityType

\* The index block, the area blocks and the blocks of the logical blocks.
UsedBlocks(ar, ib, m) == {ib} \cup {ar[a].block : a \in Area} \cup {m[l] : l \in LogBlock}

\* They are LogCount + areas + 1 different blocks, none of them free.
LEMMA LayoutCount ==
  ASSUME NEW F, NEW ar, NEW ib, NEW m, Layout(F, ar, ib, m)
  PROVE  /\ IsFiniteSet(UsedBlocks(ar, ib, m)) /\ UsedBlocks(ar, ib, m) \cap F = {}
         /\ Cardinality(UsedBlocks(ar, ib, m)) = LogCount + Cardinality(Area) + 1
<1> DEFINE D == {m[l] : l \in LogBlock}
           A == {ar[a].block : a \in Area}
           I == {ib}
<1>1. IsFiniteSet(D) /\ Cardinality(D) = LogCount
  <2> DEFINE f == [l \in LogBlock |-> m[l]]
  <2>1. \A k, l \in LogBlock : f[k] = f[l] => k = l
    BY DEF Layout
  <2>2. f = [l \in LogBlock |-> f[l]] /\ D = {f[l] : l \in LogBlock}
    OBVIOUS
  <2> HIDE DEF f, D
  <2> QED BY <2>1, <2>2, LogAndAreaCount, DistinctValues
<1>2. IsFiniteSet(A) /\ Cardinality(A) = Cardinality(Area) /\ Cardinality(Area) \in Nat
  <2> DEFINE f == [a \in Area |-> ar[a].block]
  <2>1. \A a, b \in Area : f[a] = f[b] => a = b
    BY DEF Layout
  <2>2. f = [a \in Area |-> f[a]] /\ A = {f[a] : a \in Area}
    OBVIOUS
  <2> HIDE DEF f, A
  <2> QED BY <2>1, <2>2, LogAndAreaCount, DistinctValues
<1>3. IsFiniteSet(I) /\ Cardinality(I) = 1
  BY FS_Singleton
<1>4. I \cap A = {} /\ (I \cup A) \cap D = {} /\ (I \cup A \cup D) \cap F = {}
  BY DEF Layout
<1> HIDE DEF D, A, I
<1>5. IsFiniteSet(I \cup A) /\ Cardinality(I \cup A) = Cardinality(Area) + 1
  <2>1. IsFiniteSet(I \cup A) /\ Cardinality(I \cup A) = Cardinality(I) + Cardinality(A) - 0
    BY <1>2, <1>3, <1>4, LogAndAreaCount, FS_Union, FS_EmptySet
  <2> QED BY <1>2, <1>3, <2>1, LogAndAreaCount
<1>6. /\ IsFiniteSet(I \cup A \cup D)
      /\ Cardinality(I \cup A \cup D) = LogCount + Cardinality(Area) + 1
  <2>1. IsFiniteSet(I \cup A \cup D)
        /\ Cardinality(I \cup A \cup D) = Cardinality(I \cup A) + Cardinality(D) - 0
    BY <1>1, <1>4, <1>5, FS_Union, FS_EmptySet
  <2> QED BY <1>1, <1>5, <2>1, LogAndAreaCount, Geometry
<1> QED BY <1>4, <1>6 DEF I, A, D, UsedBlocks

LEMMA UbiInvOwners == ASSUME UbiInv PROVE OwnersDisjoint
<1> SUFFICES ASSUME Idle PROVE
      /\ \A i, j \in GoodSlots : index_table.fbt[i].block = index_table.fbt[j].block => i = j
      /\ FreeBlocks \cap (DataBlocks \cup TableBlocks) = {}
      /\ Cardinality(DataBlocks \cup TableBlocks) = LogCount + Cardinality(Area) + 1
  BY DEF OwnersDisjoint
<1>1. at \in CallSteps /\ Ram /\ Typed
  BY AtIdle DEF CallSteps
<1>2. TableOf(Phy, index_table.fbt) /\ INVALID_BLOCK \notin Phy
  BY <1>1, RamTypes, Geometry
<1>3. ASSUME NEW i \in GoodSlots
      PROVE  i \in Slots /\ index_table.fbt[i].block # INVALID_BLOCK
             /\ index_table.fbt[i].block \in FbtBlocks(index_table.fbt)
  BY <1>2, TableEntry DEF GoodSlots
<1>4. \A i, j \in GoodSlots : index_table.fbt[i].block = index_table.fbt[j].block => i = j
  BY <1>2, <1>3 DEF TableOf
<1>5. \A l \in LogBlock : Mapped(l).block = RamMap[l]
  BY <1>1, CacheRead
<1>6. Layout(FbtBlocks(index_table.fbt), index_table.area, index_block.block, RamMap)
  <2>1. FbtBlocks(index_table.fbt) \subseteq FbtBlocks(index_table.fbt) \cup InFlight
    OBVIOUS
  <2>2. Layout(FbtBlocks(index_table.fbt) \cup InFlight, index_table.area, index_block.block, RamMap)
    BY <1>1 DEF Ram, Owners
  <2> QED BY ONLY <2>1, <2>2, LayoutShrinks
<1>7. FreeBlocks \subseteq FbtBlocks(index_table.fbt)
  BY <1>3 DEF FreeBlocks
<1>8. FreeBlocks \cap (DataBlocks \cup TableBlocks) = {}
  BY <1>5, <1>6, <1>7 DEF DataBlocks, TableBlocks, Layout
<1>9. Cardinality(DataBlocks \cup TableBlocks) = LogCount + Cardinality(Area) + 1
  <2>1. DataBlocks \cup TableBlocks = UsedBlocks(index_table.area, index_block.block, RamMap)
    BY <1>5 DEF DataBlocks, TableBlocks, UsedBlocks
  <2> QED BY <1>6, <2>1, LayoutCount
<1> QED BY <1>4, <1>8, <1>9

\* Between two calls no block has two owners, whatever the geometry: the free
\* block table lists a block once, and the logical blocks, the area tables and
\* the index block use LogCount + areas + 1 different blocks that are not free,
\* however often INDEX_FreeBlock_Get and _Put, UBI_SWL, ubi_reclaim_badblock and
\* the recovery of UBI_Init have handed blocks over.
THEOREM UbiOwnersDisjoint ==
  ASSUME \A c \in Campaigns : Benign(c)
  PROVE  Spec => []OwnersDisjoint
BY UbiInvariantHolds, UbiInvOwners, PTL
-----------------------------------------------------------------------------
(* What is read, and what survives a power loss *)

LEMMA UbiInvReads == ASSUME UbiInv PROVE ReadsCurrent
<1> SUFFICES ASSUME Idle, NEW l \in LogBlock PROVE Stored(Mapped(l).block) = content[l]
  BY DEF ReadsCurrent
<1>1. at \in CallSteps /\ Ram /\ Typed
  BY AtIdle DEF CallSteps
<1>2. Mapped(l).block = RamMap[l] /\ ~Committing
  BY <1>1, CacheRead
<1>3. HoldsPages(nand[RamMap[l]], content[l])
  BY <1>1, <1>2 DEF Ram, RamData, Target
<1>4. nand[RamMap[l]] \in Seq(Pages) /\ content[l] \in Seq(Pages)
  BY <1>1, RamTypes
<1> DEFINE b == RamMap[l]
<1> HIDE DEF b
<1>5. Stored(b) = content[l]
  BY <1>3, <1>4, HoldsStored DEF b
<1> QED BY <1>2, <1>5 DEF b

\* Between two calls UBI_Read of any logical block returns what its callers
\* stored in it, whichever area table is in the cache and however often the
\* block has been moved by UBI_Erase, UBI_SWL or ubi_reclaim_badblock, and after
\* every recovery.
THEOREM UbiReadsCurrent ==
  ASSUME \A c \in Campaigns : Benign(c)
  PROVE  Spec => []ReadsCurrent
BY UbiInvariantHolds, UbiInvReads, PTL

LEMMA UbiInvRecovers == ASSUME UbiInv PROVE RecoverDurable
<1> SUFFICES ASSUME ~clobbered
             PROVE  FlashMountable /\ \A l \in LogBlock : Stored(FlashMap(l)) \in Acceptable(l)
  BY DEF RecoverDurable
<1>1. Typed /\ FlashTables(nand, anchorFlash) /\ FlashData
  BY DEF UbiInv
<1>2. FlashMountable /\ \A l \in LogBlock : FlashMap(l) = FMap(nand, anchorFlash)[l]
  BY <1>1, FlashFound
<1>3. ASSUME NEW l \in LogBlock PROVE Stored(FlashMap(l)) \in Acceptable(l)
  <2> DEFINE b == FMap(nand, anchorFlash)[l]
  <2>1. nand \in Nands /\ anchorFlash \in Anchors /\ content[l] \in Seq(Pages)
    BY <1>1 DEF Typed, Nands
  <2>2. b \in Phy
    BY <1>1, <2>1, FlashParts
  <2>3. nand[b] \in Seq(Pages)
    BY <2>1, <2>2 DEF Nands
  <2>4. \/ HoldsPages(nand[b], content[l])
        \/ local.op = "erase" /\ local.log = l /\ HoldsPages(nand[b], <<>>)
    BY <1>1 DEF FlashData, FlashTarget, Erased
  <2>5. FlashMap(l) = b
    BY <1>2
  <2> HIDE DEF b
  <2>6. CASE HoldsPages(nand[b], content[l])
    BY <2>1, <2>3, <2>5, <2>6, HoldsStored DEF Acceptable
  <2>7. CASE local.op = "erase" /\ local.log = l /\ HoldsPages(nand[b], <<>>)
    <3>1. <<>> \in Seq(Pages)
      OBVIOUS
    <3>2. Stored(b) = <<>>
      BY <2>3, <2>7, <3>1, HoldsStored
    <3> QED BY <2>5, <2>7, <3>2 DEF Acceptable
  <2> QED BY <2>4, <2>6, <2>7
<1> QED BY <1>2, <1>3

\* Whatever the moment of a power loss and however many there were before, the
\* anchor leads UBI_Init to an index table and every area table, and a logical
\* block holds what was stored before the interrupted call or what that call
\* was storing; except while an update has erased a block that the tables on
\* flash still name (`clobbered').
THEOREM UbiRecoverDurable ==
  ASSUME \A c \in Campaigns : Benign(c)
  PROVE  Spec => []RecoverDurable
BY UbiInvariantHolds, UbiInvRecovers, PTL
-----------------------------------------------------------------------------
(* Where tables are written *)

LEMMA UbiInvPrograms == ASSUME UbiInv PROVE TablesProgramErased
<1>1. ASSUME Step("indexWrite") PROVE index_next_page = Len(nand[index_block.block])
  <2>1. at = "indexWrite" /\ Ram
    BY <1>1, AtStep DEF Steps, IndexSteps
  <2> QED BY <2>1 DEF Ram, IndexBlock
<1>2. ASSUME Step("areaWrite")
      PROVE  (area_offset_table[updated] + 1) % P = Len(nand[index_table.area[updated].block])
  <2>1. /\ powered /\ at = "areaWrite" /\ Ram /\ Refs /\ Typed /\ Faults
        /\ todo = Plan("areaWrite", local.op, full, cached_area_number)
    BY <1>2, AtStep DEF Steps, CommitSteps
  <2>2. /\ ~mounting /\ Committing /\ updated \in Area
        /\ area_offset_table \in [Area -> 0 .. P - 1]
    BY <2>1, InCommitFacts DEF CommitSteps
  <2> QED BY <2>1, <2>2, AreaPageFree
<1> QED BY <1>1, <1>2 DEF TablesProgramErased, updated, plr

\* TABLE_Write and AREA_Update never program a page twice: an index table goes
\* to the first unprogrammed page of its block and so does an area table, across
\* replacements of full blocks, power losses and the page that UBI_Init finds.
THEOREM UbiTablesProgramErased ==
  ASSUME \A c \in Campaigns : Benign(c)
  PROVE  Spec => []TablesProgramErased
BY UbiInvariantHolds, UbiInvPrograms, PTL
-----------------------------------------------------------------------------
(* No block is lost *)

\* The blocks with an owner in RAM, and those UBI_Init would find an owner for.
Owned == FbtBlocks(index_table.fbt) \cup InFlight \cup Referred
FlashOwned == FbtBlocks(FI(nand, anchorFlash).fbt) \cup Needs(nand, anchorFlash)

\* Every block that never failed has an owner, at each step of a call; and what is
\* on flash, which is older, knows an owner for each too.
OwnedByRam ==
  powered /\ todo # <<"worn">> => Phy \ failed \subseteq Owned /\ Packed(index_table.fbt)
OwnedByFlash ==
  Intact => Phy \ failed \subseteq FlashOwned /\ Packed(FI(nand, anchorFlash).fbt)

\* The ASSERT of INDEX_Format: the free blocks of a new chip fit in the table.
EnoughSlots == FREE_BLOCK_COUNT >= PhyCount - FormatIndexBlock - 1

\* No free block has been erased so often that its erase count is INVALID_EC, the
\* mark of an unused slot (INDEX_Update_AreaUpdate asserts the same of a block that
\* is mapped).
Unworn == UnwornTable(index_table.fbt)

\* While the running call holds a block, the free block table has room for the
\* one it will put back.
LEMMA RoomForOne ==
  ASSUME EnoughSlots, NEW t, TableOf(Phy, t), Packed(t),
         NEW g \in Phy, g \notin FbtBlocks(t), NEW ar, NEW ib, NEW m,
         Layout(FbtBlocks(t) \cup {g}, ar, ib, m),
         ib \in Phy, \A a \in Area : ar[a].block \in Phy, \A l \in LogBlock : m[l] \in Phy
  PROVE  t[FREE_BLOCK_COUNT - 1].block = INVALID_BLOCK
<1> DEFINE last == FREE_BLOCK_COUNT - 1
           F == FbtBlocks(t)
           R == UsedBlocks(ar, ib, m)
<1> SUFFICES ASSUME t[last].block # INVALID_BLOCK PROVE FALSE
  OBVIOUS
<1>1. last \in Nat /\ Slots = 0 .. last /\ FREE_BLOCK_COUNT = last + 1
  BY FbtAssumption DEF Slots
<1> HIDE DEF last
<1>2. \A i \in Slots : t[i].block # INVALID_BLOCK
  <2> SUFFICES ASSUME NEW i \in Slots PROVE t[i].block # INVALID_BLOCK
    OBVIOUS
  <2>1. last \in Slots /\ (i = last \/ i < last)
    BY <1>1
  <2> QED BY <2>1 DEF Packed
<1>3. IsFiniteSet(F) /\ Cardinality(F) = FREE_BLOCK_COUNT
  <2> DEFINE f == [i \in Slots |-> t[i].block]
  <2>1. \A i, j \in Slots : f[i] = f[j] => i = j
    BY <1>2 DEF TableOf
  <2>2. f = [i \in Slots |-> f[i]] /\ F = {f[i] : i \in Slots}
    BY <1>2 DEF FbtBlocks
  <2>3. IsFiniteSet(Slots) /\ Cardinality(Slots) = FREE_BLOCK_COUNT
    BY <1>1, FS_Interval
  <2> HIDE DEF f, F
  <2> QED BY <2>1, <2>2, <2>3, DistinctValues
<1>4. IsFiniteSet(R) /\ R \cap (F \cup {g}) = {} /\ Cardinality(R) = FormatIndexBlock + 1
  BY LayoutCount DEF FormatIndexBlock
<1>5. F \cup {g} \cup R \subseteq Phy
  <2>1. F \subseteq Phy
    BY BlocksOfTable, Geometry
  <2>2. R \subseteq Phy
    BY DEF UsedBlocks
  <2> HIDE DEF F, R
  <2> QED BY <2>1, <2>2
<1> HIDE DEF F, R
<1>6. IsFiniteSet(F \cup {g}) /\ Cardinality(F \cup {g}) = FREE_BLOCK_COUNT + 1
  BY <1>3, FS_AddElement DEF F
<1>7. IsFiniteSet(Phy) /\ Cardinality(Phy) = PhyCount
  <2>1. PhyCount \in Nat /\ ~(0 > PhyCount - 1) /\ 0 \in Int /\ PhyCount - 1 \in Int
        /\ PhyCount - 1 - 0 + 1 = PhyCount
    BY Geometry, FormatOrder
  <2> QED BY <2>1, FS_Interval DEF Phy
<1>8. Cardinality(F \cup {g} \cup R) = FREE_BLOCK_COUNT + 1 + FormatIndexBlock + 1
  <2>1. Cardinality((F \cup {g}) \cup R) = Cardinality(F \cup {g}) + Cardinality(R) - 0
    BY <1>4, <1>6, FS_Union, FS_EmptySet
  <2> QED BY <1>1, <1>4, <1>6, <2>1, FormatOrder
<1>9. Cardinality(F \cup {g} \cup R) <= PhyCount
  BY <1>5, <1>7, FS_Subset
<1> QED BY <1>1, <1>8, <1>9, FormatOrder, Geometry DEF EnoughSlots

\* UBI_Format gives every block an owner.
LEMMA FormatOwns ==
  ASSUME EnoughSlots
  PROVE  /\ Phy \subseteq FbtBlocks(FormatIndex.fbt) \cup {FormatIndexBlock}
                             \cup {FormatAreaBlock(a) : a \in Area}
                             \cup {FormatBlock(l) : l \in LogBlock}
         /\ Packed(FormatIndex.fbt)
<1> DEFINE n == FormatIndexBlock
           f == FormatIndex.fbt
           ar == [a \in Area |-> Entry(FormatAreaBlock(a), 0)]
           m == [l \in LogBlock |-> FormatBlock(l)]
           R == UsedBlocks(ar, n, m)
<1>1. n \in Nat /\ n < PhyCount /\ PhyCount \in Nat /\ Slots = 0 .. FREE_BLOCK_COUNT - 1
  BY FormatOrder, Geometry DEF Slots
<1>2. \A a \in Area : ar[a].block = FormatAreaBlock(a)
  BY DEF Entry
<1>3. R = 0 .. n
  <2>1. R \subseteq 0 .. n
    <3>1. /\ \A a \in Area : FormatAreaBlock(a) \in 0 .. n
          /\ \A l \in LogBlock : FormatBlock(l) \in 0 .. n /\ n \in 0 .. n
      BY FormatOrder
    <3>2. n \in 0 .. n
      BY <1>1
    <3> QED BY <1>2, <3>1, <3>2 DEF UsedBlocks
  <2>2. Layout({}, ar, n, m)
    <3>1. /\ \A a \in Area : FormatAreaBlock(a) # n
          /\ \A l \in LogBlock : FormatBlock(l) # n
      BY FormatOrder
    <3> QED BY <1>2, <3>1, FormatOrder DEF Layout
  <2>3. IsFiniteSet(R) /\ Cardinality(R) = n + 1
    <3> HIDE DEF ar, m, n
    <3> QED BY <2>2, LayoutCount DEF n, FormatIndexBlock
  <2>4. IsFiniteSet(0 .. n) /\ Cardinality(0 .. n) = n + 1
    BY <1>1, FS_Interval
  <2> HIDE DEF R, n
  <2> QED BY <2>1, <2>3, <2>4, FS_Subset
<1>4. \A i \in Slots : f[i].block = IF n + 1 + i < PhyCount THEN n + 1 + i ELSE INVALID_BLOCK
  <2> SUFFICES ASSUME NEW i \in Slots
               PROVE  f[i].block = IF n + 1 + i < PhyCount THEN n + 1 + i ELSE INVALID_BLOCK
    OBVIOUS
  <2>1. f[i] = IF n + 1 + i < PhyCount THEN Entry(n + 1 + i, 0) ELSE NoEntry
    BY DEF FormatIndex
  <2>2. Entry(n + 1 + i, 0).block = n + 1 + i /\ NoEntry.block = INVALID_BLOCK
    BY DEF Entry, NoEntry
  <2> HIDE DEF f, n
  <2> QED BY <2>1, <2>2
<1> HIDE DEF f, n
<1>5. ASSUME NEW b \in Phy, b > n PROVE b \in FbtBlocks(f)
  <2>1. b \in Nat /\ b < PhyCount /\ b # INVALID_BLOCK
    BY Geometry DEF Phy
  <2>2. PICK i \in Slots : b = n + 1 + i
    <3>1. b - n - 1 \in 0 .. FREE_BLOCK_COUNT - 1 /\ b = n + 1 + (b - n - 1)
      BY <1>1, <1>5, <2>1, FbtAssumption DEF EnoughSlots, n
    <3> QED BY <1>1, <3>1
  <2>3. f[i].block = b
    BY <1>4, <2>1, <2>2
  <2> QED BY <2>1, <2>3 DEF FbtBlocks
<1>6. Phy \subseteq FbtBlocks(f) \cup R
  <2> SUFFICES ASSUME NEW b \in Phy, ~(b > n) PROVE b \in R
    BY <1>5
  <2>1. b \in 0 .. n
    BY <1>1, Geometry DEF Phy
  <2> QED BY <1>3, <2>1
<1>7. Packed(f)
  <2> SUFFICES ASSUME NEW i \in Slots, NEW j \in Slots, i < j, f[j].block # INVALID_BLOCK
               PROVE  f[i].block # INVALID_BLOCK
    BY DEF Packed
  <2>1. n + 1 + j < PhyCount /\ i \in Nat /\ j \in Nat
    BY <1>1, <1>4, FbtAssumption
  <2>2. n + 1 + i < PhyCount /\ n + 1 + i \in Phy
    BY <1>1, <2>1 DEF Phy
  <2>3. f[i].block = n + 1 + i
    BY <1>4, <2>2
  <2> QED BY <2>2, <2>3, Geometry
<1> QED BY <1>2, <1>6, <1>7 DEF f, n, UsedBlocks

\* So a new chip has no block without an owner.
LEMMA FormatNoLeak ==
  ASSUME EnoughSlots, Init, \A c \in Campaigns : Benign(c)
  PROVE  OwnedByRam /\ OwnedByFlash
<1>1. /\ UbiInv /\ at = "idle" /\ FI(nand, anchorFlash) = FormatIndex
      /\ RamMap = [l \in LogBlock |-> FormatBlock(l)]
  BY FormatKeeps
<1>2. /\ powered /\ todo = <<>> /\ index_table = FormatIndex
      /\ index_block.block = FormatIndexBlock
      /\ \A a \in Area : index_table.area[a].block = FormatAreaBlock(a)
  BY FormatTables, Entries2 DEF Init, Entry
<1>3. Ram /\ Refs /\ IsSettled
  BY <1>1, <1>2 DEF UbiInv, IsSettled, CallSteps
<1>4. Referred = {FormatIndexBlock} \cup {FormatAreaBlock(a) : a \in Area}
                   \cup {FormatBlock(l) : l \in LogBlock}
  BY <1>1, <1>2 DEF Referred, TableBlocks
<1>5. Needs(nand, anchorFlash) = Referred
  BY <1>3, SettledNeeds DEF Needs, SameRefs, Referred, TableBlocks
<1> QED BY <1>1, <1>2, <1>4, <1>5, FormatOwns DEF OwnedByRam, OwnedByFlash, Owned, FlashOwned

\* A block that has failed stays on the list.
LEMMA FailedGrows == ASSUME [Next]_vars PROVE failed \subseteq failed'
<1>1. CASE Get \/ GetBadBlock \/ GetTooMany
  BY <1>1 DEF Get, GetBadBlock, GetTooMany, Failing, history
<1>2. CASE Commit \/ AreaUse \/ AreaWrite \/ IndexUpdate \/ AnchorWrite
  BY <1>2 DEF Commit, AreaUse, AreaWrite, IndexUpdate, AnchorWrite, Failing, history
<1>3. CASE IndexWrite \/ IndexWriteBad \/ CommitDone \/ EraseUse
  BY <1>3 DEF IndexWrite, IndexWriteBad, CommitDone, EraseUse, Failing, history
<1>4. CASE Copy \/ CopyBad \/ Reprogram \/ SwlErase \/ SwlCopy
  BY <1>4 DEF Copy, CopyBad, Reprogram, SwlErase, SwlCopy, Failing, history
<1>5. CASE Mount \/ MountAreas \/ MountRest \/ PowerLoss \/ UbiSwl
  BY <1>5 DEF Mount, MountAreas, MountRest, PowerLoss, UbiSwl, history
<1>6. CASE \E l \in LogBlock : UbiRead(l) \/ UbiErase(l) \/ UbiWrite(l)
  BY <1>6 DEF UbiRead, UbiErase, UbiWrite, Failing, history
<1>7. CASE UNCHANGED vars
  BY <1>7 DEF vars, history
<1> QED BY <1>1, <1>2, <1>3, <1>4, <1>5, <1>6, <1>7 DEF Next, Running

\* The steps that leave alone what flash says.
LEMMA FlashNoLeak ==
  ASSUME OwnedByFlash, FlashKept, failed \subseteq failed'
  PROVE  OwnedByFlash'
<1> SUFFICES ASSUME Intact'
             PROVE  /\ Phy \ failed' \subseteq FlashOwned'
                    /\ Packed(FI(nand', anchorFlash').fbt)
  BY DEF OwnedByFlash
<1>1. FlashOwned' = FlashOwned
  BY DEF FlashKept, FlashOwned, Needs
<1> QED BY <1>1 DEF FlashKept, OwnedByFlash

\* The steps that leave alone the free block table and the references too.
LEMMA RefsNoLeak ==
  ASSUME OwnedByRam, powered, todo # <<"worn">>, failed \subseteq failed',
         RefsKept, index_table'.fbt = index_table.fbt
  PROVE  OwnedByRam'
BY DEF OwnedByRam, Owned, RefsKept

\* INDEX_FreeBlock_Get: the block is held by the call, or it has failed.
LEMMA GetNoLeak ==
  ASSUME UbiInv, OwnedByRam, OwnedByFlash, failed \subseteq failed', Get \/ GetBadBlock
  PROVE  OwnedByRam' /\ OwnedByFlash'
<1> DEFINE t == index_table.fbt
           s == PickSlot(t, WantedDie)
           b == Candidate.block
<1>1. powered /\ todo # <<"worn">> /\ Ram /\ Typed
  <2>1. Getting
    BY DEF Get, GetBadBlock
  <2> QED BY <2>1, AtGet DEF Getting
<1>2. Phy \ failed \subseteq Owned /\ Packed(t)
  BY <1>1 DEF OwnedByRam
<1>3. index_table' = Taken /\ Taken.fbt = FbtRemove(t, s) /\ b = t[s].block /\ s \in Slots
  <2>1. index_table \in IndexTables
    BY <1>1, RamTypes
  <2>2. Taken.fbt = FbtRemove(t, s)
    BY <2>1 DEF Taken, IndexTables
  <2> QED BY <2>2, PickSlotInTable DEF Get, GetBadBlock, Candidate
<1>4. Packed(index_table'.fbt) /\ FbtBlocks(t) \ {b} \subseteq FbtBlocks(index_table'.fbt)
  <2> HIDE DEF s, t, b
  <2> QED BY <1>2, <1>3, RemoveDropsOne
<1>5. FlashKept /\ Referred' = Referred /\ InFlight \subseteq InFlight'
      /\ b \in InFlight' \cup failed'
  BY GetKeeps, GetBadBlockKeeps DEF GetBadBlock, Failing, RefsKept
<1>6. Phy \ failed' \subseteq Owned'
  BY <1>2, <1>4, <1>5 DEF Owned
<1> QED BY <1>4, <1>5, <1>6, FlashNoLeak DEF OwnedByRam

\* INDEX_FreeBlock_Put: the table has room for the block that is replaced.
LEMMA TakesOverNoLeak ==
  ASSUME EnoughSlots, UbiInv, powered, todo # <<"worn">>, OwnedByRam, failed \subseteq failed',
         NEW x, TakesOver(x), Unworn'
  PROVE  OwnedByRam'
<1> DEFINE t == index_table.fbt
           u == index_table'.fbt
           g == local.got.block
<1>1. Ram /\ Typed
  BY DEF UbiInv
<1>2. Phy \ failed \subseteq Owned /\ Packed(t)
  BY DEF OwnedByRam
<1>3. Holding /\ InFlight = {g} /\ u = FbtPut(t, x.block, x.ec)
      /\ x.block \in Phy /\ x.ec \in Nat
  BY DEF TakesOver, InFlight
<1>4. /\ TableOf(Phy, t) /\ g \in Phy /\ g \notin FbtBlocks(t)
      /\ Layout(FbtBlocks(t) \cup {g}, index_table.area, index_block.block, RamMap)
  BY <1>1, <1>3, Entries2 DEF Ram, Owners
<1>5. /\ index_block.block \in Phy /\ \A a \in Area : index_table.area[a].block \in Phy
      /\ \A l \in LogBlock : RamMap[l] \in Phy
  BY <1>1, RamTypes
<1>6. t[FREE_BLOCK_COUNT - 1].block = INVALID_BLOCK
  <2> DEFINE ar == index_table.area
             ib == index_block.block
             m == RamMap
  <2>1. /\ Layout(FbtBlocks(t) \cup {g}, ar, ib, m) /\ ib \in Phy
        /\ \A a \in Area : ar[a].block \in Phy /\ \A l \in LogBlock : m[l] \in Phy
    BY <1>4, <1>5, AreasNat
  <2> HIDE DEF ar, ib, m, t, g
  <2> QED BY <1>2, <1>4, <2>1, AreasNat, RoomForOne
<1>7. Packed(u) /\ FbtBlocks(t) \cup {x.block} \subseteq FbtBlocks(u)
  <2>1. UnwornTable(u)
    BY DEF Unworn
  <2> HIDE DEF t, u
  <2> QED BY <1>2, <1>3, <1>4, <1>6, <2>1, Geometry, PutDropsNone
<1>8. Phy \ failed' \subseteq Owned'
  BY <1>2, <1>3, <1>7 DEF Owned, TakesOver
<1> QED BY <1>7, <1>8 DEF OwnedByRam

\* UBI_SWL: the two blocks change places.
LEMMA SwapsNoLeak ==
  ASSUME UbiInv, powered, todo # <<"worn">>, OwnedByRam, failed \subseteq failed', Swaps
  PROVE  OwnedByRam'
<1> DEFINE t == index_table.fbt
           u == index_table'.fbt
           b == local.from.block
           e == local.from.ec
           top == MaxEcSlot(t)
<1>1. TableOf(Phy, t)
  BY DEF UbiInv, Ram, Owners
<1>2. Phy \ failed \subseteq Owned /\ Packed(t)
  BY DEF OwnedByRam
<1>3. /\ u = FbtSwap(t, b, e, Threshold) /\ b \in Phy /\ e \in Nat
      /\ top > 0 /\ t[top].ec > e /\ t[top].ec - e > Threshold /\ local.got = t[top]
  BY DEF Swaps
<1>4. Packed(u) /\ (FbtBlocks(t) \ {t[top].block}) \cup {b} \subseteq FbtBlocks(u)
  <2>1. top = MaxEcSlot(t)
    OBVIOUS
  <2> HIDE DEF t, u, b, e, top
  <2> QED BY <1>1, <1>2, <1>3, <2>1, Geometry, SwapDropsOne
<1>5. Phy \ failed' \subseteq Owned'
  BY <1>2, <1>3, <1>4 DEF Owned, Swaps
<1> QED BY <1>4, <1>5 DEF OwnedByRam

\* When flash has the references of RAM, it refers to the same blocks.
LEMMA SettledReferred ==
  ASSUME UbiInv', powered', IsSettled'
  PROVE  Needs(nand', anchorFlash') = Referred' /\ todo' # <<"worn">>
<1>1. todo' # <<"worn">>
  <2>1. "worn" \notin CallSteps \cup {"commitDone", "mountAreas", "areaWrite", "indexUpdate",
                                      "getIndex", "anchorWrite"}
    BY DEF CallSteps
  <2> QED BY <2>1 DEF IsSettled, at, AtOf
<1>2. SameRefs' /\ ~NewArea'
  BY <1>1 DEF UbiInv, Refs, IsSettled, NewArea, CallSteps
<1>3. FMap(nand', anchorFlash') = RamMap'
  BY <1>2, MapRefs DEF FMap, SameRefs, RamMap
<1> QED BY <1>1, <1>2, <1>3 DEF Needs, SameRefs, Referred, TableBlocks

\* The index table is written: flash knows the owners that RAM knows.
LEMMA IndexWriteNoLeak ==
  ASSUME UbiInv, OwnedByRam, failed \subseteq failed', IndexWrite
  PROVE  OwnedByRam' /\ OwnedByFlash'
<1>1. /\ powered /\ todo # <<"worn">> /\ at = "indexWrite" /\ powered'
      /\ index_table' = index_table
  BY DEF IndexWrite, Step, at, AtOf
<1>2. UbiInv' /\ RefsKept /\ IsSettled' /\ FI(nand', anchorFlash') = index_table'
  BY IndexWriteKeeps
<1>3. OwnedByRam'
  BY <1>1, <1>2, RefsNoLeak
<1>4. InFlight' = {}
  BY <1>1, <1>2 DEF RefsKept, InFlight, Holding
<1>5. Needs(nand', anchorFlash') = Referred' /\ todo' # <<"worn">>
  BY <1>1, <1>2, SettledReferred
<1>6. FlashOwned' = Owned'
  BY <1>2, <1>4, <1>5 DEF FlashOwned, Owned
<1> QED BY <1>1, <1>2, <1>3, <1>5, <1>6 DEF OwnedByRam, OwnedByFlash

\* UBI_Init: RAM knows the owners that flash knows.
LEMMA MountNoLeak ==
  ASSUME UbiInv, OwnedByFlash, failed \subseteq failed', Mount
  PROVE  OwnedByRam' /\ OwnedByFlash'
<1>1. UbiInv' /\ FlashKept /\ Intact /\ IsSettled' /\ FI(nand, anchorFlash) = index_table'
  BY MountKeeps
<1>2. powered' /\ UNCHANGED <<nand, anchorFlash>>
  BY DEF Mount, flashVars
<1>3. Needs(nand, anchorFlash) = Referred'
  BY <1>1, <1>2, SettledReferred
<1>4. OwnedByRam'
  BY <1>1, <1>3 DEF OwnedByRam, OwnedByFlash, Owned, FlashOwned
<1> QED BY <1>1, <1>4, FlashNoLeak

\* Every step keeps an owner for every block.
LEMMA NextNoLeak ==
  ASSUME EnoughSlots, UbiInv, OwnedByRam, OwnedByFlash, Unworn', [Next]_vars
  PROVE  OwnedByRam' /\ OwnedByFlash'
<1>1. failed \subseteq failed'
  BY FailedGrows
<1>2. CASE Get \/ GetBadBlock
  BY <1>1, <1>2, GetNoLeak
<1>3. CASE GetTooMany
  <2>1. /\ powered /\ todo # <<"worn">> /\ index_table' = index_table
        /\ FlashKept /\ (todo' # <<"worn">> => RefsKept)
    BY <1>3, GetTooManyKeeps DEF GetTooMany, Getting, ramVars, indexVars
  <2> QED BY <1>1, <2>1, FlashNoLeak, RefsNoLeak DEF OwnedByRam
<1>4. CASE Commit \/ AreaWrite \/ IndexUpdate \/ CommitDone \/ Reprogram \/ SwlErase
  <2>1. powered /\ todo # <<"worn">>
    BY <1>4 DEF Commit, AreaWrite, IndexUpdate, CommitDone, Reprogram, SwlErase, Step
  <2>2. index_table'.fbt = index_table.fbt
    <3>1. CASE AreaWrite
      <4>1. index_table \in IndexTables
        BY <2>1 DEF UbiInv, Ram, Owners
      <4> QED BY <3>1, <4>1 DEF AreaWrite, IndexTables
    <3> QED BY <1>4, <3>1 DEF Commit, IndexUpdate, CommitDone, Reprogram, SwlErase, ramVars, indexVars
  <2>3. RefsKept /\ FlashKept
    BY <1>4, CommitKeeps, AreaWriteKeeps, IndexUpdateKeeps, CommitDoneKeeps, ReprogramKeeps,
       SwlEraseKeeps
  <2> QED BY <1>1, <2>1, <2>2, <2>3, FlashNoLeak, RefsNoLeak
<1>5. CASE MountAreas \/ MountRest \/ UbiSwl \/ \E l \in LogBlock : UbiRead(l) \/ UbiErase(l) \/ UbiWrite(l)
  <2>1. powered /\ todo # <<"worn">> /\ index_table' = index_table
    <3>1. CASE MountAreas
      BY <3>1 DEF MountAreas, Step
    <3>2. CASE MountRest
      BY <3>2 DEF MountRest, Step, indexVars
    <3>3. CASE UbiSwl
      BY <3>3 DEF UbiSwl, Calling, Idle, indexVars
    <3>4. CASE \E l \in LogBlock : UbiRead(l) \/ UbiErase(l) \/ UbiWrite(l)
      BY <3>4 DEF UbiRead, UbiErase, UbiWrite, Calling, Idle, ramVars, indexVars
    <3> QED BY <1>5, <3>1, <3>2, <3>3, <3>4
  <2>2. RefsKept /\ FlashKept
    BY <1>5, MountAreasKeeps, MountRestKeeps, UbiSwlKeeps, UbiReadKeeps, UbiEraseKeeps, UbiWriteKeeps
  <2> QED BY <1>1, <2>1, <2>2, FlashNoLeak, RefsNoLeak
<1>6. CASE EraseUse \/ AreaUse \/ AnchorWrite \/ Copy
  <2>1. powered /\ todo # <<"worn">>
    BY <1>6 DEF EraseUse, AreaUse, AnchorWrite, Copy, Step
  <2>2. FlashKept /\ \E x : TakesOver(x)
    BY <1>6, EraseUseKeeps, AreaUseKeeps, AnchorWriteKeeps, CopyKeeps
  <2> QED BY <1>1, <2>1, <2>2, FlashNoLeak, TakesOverNoLeak
<1>7. CASE SwlCopy
  <2>1. powered /\ todo # <<"worn">>
    BY <1>7 DEF SwlCopy, Step
  <2>2. FlashKept /\ (Swaps \/ (RefsKept /\ index_table' = index_table))
    BY <1>7, SwlCopyKeeps
  <2> QED BY <1>1, <2>1, <2>2, FlashNoLeak, RefsNoLeak, SwapsNoLeak
<1>8. CASE PowerLoss
  <2>1. FlashKept /\ ~powered'
    BY <1>8, PowerLossKeeps
  <2> QED BY <1>1, <2>1, FlashNoLeak DEF OwnedByRam
<1>9. CASE UNCHANGED vars
  <2>1. FlashKept /\ RefsKept /\ index_table' = index_table /\ todo' = todo /\ powered' = powered
    BY <1>9, StutterKeeps DEF vars, ramVars, indexVars
  <2> QED BY <1>1, <2>1, FlashNoLeak, RefsNoLeak DEF OwnedByRam
<1> QED BY <1>1, <1>2, <1>3, <1>4, <1>5, <1>6, <1>7, <1>8, <1>9, IndexWriteNoLeak, MountNoLeak,
        IndexWriteBadNever, CopyBadNever DEF Next, Running

\* Between two calls the owners are those of the property.
LEMMA UbiInvNoLeak == ASSUME UbiInv, OwnedByRam, Unworn PROVE NoLeak
<1> SUFFICES ASSUME Idle PROVE Phy \ failed \subseteq FreeBlocks \cup DataBlocks \cup TableBlocks
  BY DEF NoLeak
<1>1. powered /\ todo # <<"worn">> /\ at = "idle" /\ Ram /\ Typed
  BY AtIdle DEF Idle
<1>2. at \in CallSteps /\ InFlight = {}
  BY <1>1 DEF CallSteps, InFlight, Holding
<1>3. \A l \in LogBlock : Mapped(l).block = RamMap[l]
  BY <1>1, <1>2, CacheRead
<1>4. Referred = DataBlocks \cup TableBlocks
  BY <1>3 DEF Referred, DataBlocks
<1>5. FbtBlocks(index_table.fbt) \subseteq FreeBlocks
  <2> SUFFICES ASSUME NEW i \in Slots, index_table.fbt[i].block # INVALID_BLOCK
               PROVE  i \in GoodSlots
    BY DEF FbtBlocks, FreeBlocks
  <2>1. TableOf(Phy, index_table.fbt)
    BY <1>1, RamTypes
  <2>2. index_table.fbt[i].ec \in Nat /\ index_table.fbt[i].ec < INVALID_EC
    BY <2>1, TableEntry, Geometry DEF Unworn, UnwornTable
  <2> QED BY <2>2, FbtAssumption DEF GoodSlots
<1> QED BY <1>1, <1>2, <1>4, <1>5 DEF OwnedByRam, Owned

\* Between two calls every block that never failed has an owner ("neither used,
\* nor lost"), for every geometry in which the free blocks of a new chip fit in
\* the free block table (the ASSERT of INDEX_Format) and as long as no free block
\* is worn out: calls, discarded blocks, power losses at any step and the recovery
\* of UBI_Init lose none.
THEOREM UbiNoLeak ==
  ASSUME \A c \in Campaigns : Benign(c), EnoughSlots
  PROVE  Spec /\ []Unworn => []NoLeak
<1>1. Init => OwnedByRam /\ OwnedByFlash
  BY FormatNoLeak
<1>2. UbiInv /\ OwnedByRam /\ OwnedByFlash /\ Unworn' /\ [Next]_vars => OwnedByRam' /\ OwnedByFlash'
  BY NextNoLeak
<1>3. UbiInv /\ OwnedByRam /\ Unworn => NoLeak
  BY UbiInvNoLeak
<1> QED BY <1>1, <1>2, <1>3, UbiInvariantHolds, PTL DEF Spec
-----------------------------------------------------------------------------
(* The calls as BlockStore sees them *)

\* The index that maps the block of the running UBI_Erase to an empty one is on
\* flash.
Shown == Erased /\ ~clobbered
Seen(l) == IF Shown /\ local.log = l THEN <<>> ELSE content[l]
Viewed == StoreView = [l \in LogBlock |-> Seen(l)]

LEMMA UbiInvViewed == ASSUME UbiInv PROVE Viewed
<1> SUFFICES ASSUME NEW l \in LogBlock, ~clobbered PROVE Stored(FlashMap(l)) = FlashTarget(l)
  BY DEF Viewed, StoreView, Seen, Shown, FlashTarget
<1>1. Typed /\ FlashTables(nand, anchorFlash) /\ FlashData
  BY DEF UbiInv
<1> DEFINE b == FMap(nand, anchorFlash)[l]
<1>2. FlashMap(l) = b
  BY <1>1, FlashFound
<1>3. nand \in Nands /\ anchorFlash \in Anchors /\ FlashTarget(l) \in Seq(Pages)
  BY <1>1 DEF Typed, Nands, FlashTarget
<1>4. b \in Phy
  BY <1>1, <1>3, FlashParts
<1>5. nand[b] \in Seq(Pages) /\ HoldsPages(nand[b], FlashTarget(l))
  BY <1>1, <1>3, <1>4 DEF Nands, FlashData
<1> HIDE DEF b
<1>6. Stored(b) = FlashTarget(l)
  BY <1>3, <1>5, HoldsStored
<1> QED BY <1>2, <1>6

\* INDEX_FreeBlock_Get and the steps of a commit before its index is written.
LEMMA CommitHidden ==
  ASSUME UbiInv, Get \/ GetBadBlock \/ GetTooMany \/ Commit \/ AreaUse \/ IndexUpdate \/ AnchorWrite
  PROVE  ~Shown /\ ~Shown' /\ content' = content
<1>1. CASE Get
  <2>1. at \in GetSteps /\ todo = Plan(at, local.op, full, cached_area_number)
    BY <1>1, AtGet DEF Get
  <2>2. content' = content /\ todo' = Tail(todo)
    BY <1>1 DEF Get, Rest
  <2>3. todo' = Plan(AfterGet(at), local.op, full, cached_area_number) /\ AfterGet(at) \in Steps
        /\ AfterGet(at) \notin {"areaWrite", "commitDone"}
    BY <2>1, <2>2, PlanTails DEF AfterGet, GetSteps, Steps, CallSteps, CommitSteps, IndexSteps
  <2>4. at' = AfterGet(at)
    <3>1. at' = AtOf(todo')
      BY DEF at
    <3> QED BY <2>3, <3>1, PlanHeads
  <2> QED BY <2>1, <2>2, <2>3, <2>4 DEF Shown, Erased, GetSteps
<1>2. CASE GetBadBlock
  <2>1. at \in GetSteps /\ UNCHANGED <<todo, local, content>>
    BY <1>2, AtGet DEF GetBadBlock
  <2>2. at' = at
    BY <2>1 DEF at
  <2> QED BY <2>1, <2>2 DEF Shown, Erased, GetSteps
<1>3. CASE GetTooMany
  <2>1. at \in GetSteps /\ UNCHANGED content /\ todo' \in {<<"mountAreas">>, <<"worn">>}
    BY <1>3, AtGet DEF GetTooMany, history
  <2>2. at' \in {"mountAreas", "worn"}
    BY <2>1 DEF at, AtOf
  <2> QED BY <2>1, <2>2 DEF Shown, Erased, GetSteps
<1>4. CASE Commit
  <2>1. at = "commit" /\ UNCHANGED content
    BY <1>4, AtStep DEF Commit, Steps, CommitSteps, history
  <2>2. at' \in {"getArea", "indexUpdate"}
    BY <1>4 DEF Commit, CommitCalls, at, AtOf
  <2> QED BY <2>1, <2>2 DEF Shown, Erased
<1>5. CASE AreaUse
  <2>1. /\ at = "areaUse" /\ Ram /\ todo = Plan("areaUse", local.op, full, cached_area_number)
    BY <1>5, AtStep DEF AreaUse, Steps, CommitSteps
  <2>2. UNCHANGED <<content, local>> /\ todo' = Tail(todo)
    BY <1>5 DEF AreaUse, history, Rest
  <2>3. full /\ full'
    BY <2>1, <2>2 DEF Ram, Stage, full
  <2>4. at' = "areaWrite"
    <3>1. todo' = Plan("areaWrite", local.op, full, cached_area_number)
      <4>1. todo' = Tail(Plan("areaUse", local.op, full, cached_area_number))
        BY <2>1, <2>2
      <4> QED BY ONLY <2>3, <4>1, AreaUseTail
    <3>2. AtOf(todo') = "areaWrite"
      BY ONLY <2>3, <3>1, PlanFirst
    <3> QED BY <3>2 DEF at
  <2> QED BY <2>1, <2>2, <2>3, <2>4 DEF Shown, Erased
<1>6. CASE IndexUpdate
  <2>1. at = "indexUpdate" /\ UNCHANGED content
    BY <1>6, AtStep DEF IndexUpdate, Steps, IndexSteps, history
  <2>2. at' \in {"getIndex", "indexWrite"}
    BY <1>6 DEF IndexUpdate, at, AtOf
  <2> QED BY <2>1, <2>2 DEF Shown, Erased
<1>7. CASE AnchorWrite
  <2>1. /\ at = "anchorWrite" /\ todo = Plan("anchorWrite", local.op, full, cached_area_number)
    BY <1>7, AtStep DEF AnchorWrite, Steps, IndexSteps
  <2>2. UNCHANGED content /\ todo' = Tail(todo)
    BY <1>7 DEF AnchorWrite, history, Rest
  <2>3. at' = "indexWrite"
    <3>1. todo' = Plan("indexWrite", local.op, full, cached_area_number)
      BY <2>1, <2>2, PlanTails
    <3> QED BY <3>1, PlanFirst DEF at
  <2> QED BY <2>1, <2>2, <2>3 DEF Shown, Erased
<1> QED BY <1>1, <1>2, <1>3, <1>4, <1>5, <1>6, <1>7

\* The steps of a call outside its commit that store nothing.
LEMMA CallHidden ==
  ASSUME UbiInv, EraseUse \/ Copy \/ CopyBad \/ SwlErase \/ SwlCopy \/ MountAreas \/ MountRest
  PROVE  ~Shown /\ ~Shown' /\ content' = content
<1>1. at \in {"eraseUse", "copy", "swlErase", "swlCopy", "mountAreas", "mountRest"}
  BY AtStep DEF EraseUse, Copy, CopyBad, SwlErase, SwlCopy, MountAreas, MountRest, Steps, CallSteps
<1>2. todo' \in {<<>>, <<"commit">>, <<"commit", "reprogram">>, <<"getReclaim", "copy">>, <<"swlCopy">>,
                 <<"commit", "mountRest">>}
  BY DEF EraseUse, Copy, CopyBad, SwlErase, SwlCopy, MountAreas, MountRest
<1>3. at' \in {"idle", "commit", "getReclaim", "swlCopy"}
  BY <1>2 DEF at, AtOf
<1>4. content' = content
  BY DEF EraseUse, Copy, CopyBad, SwlErase, SwlCopy, MountAreas, MountRest, history
<1> QED BY <1>1, <1>3, <1>4 DEF Shown, Erased

\* The beginning of a call, unless it is a write that succeeds, and UBI_Init.
LEMMA StartHidden ==
  ASSUME UbiInv, content' = content,
         Mount \/ UbiSwl \/ \E l \in LogBlock : UbiRead(l) \/ UbiErase(l) \/ UbiWrite(l)
  PROVE  ~Shown /\ ~Shown'
<1>1. at = "idle"
  <2>1. CASE Idle
    BY <2>1, AtIdle
  <2>2. CASE ~powered
    BY <2>2 DEF UbiInv, at, AtOf
  <2> QED BY <2>1, <2>2 DEF Mount, UbiSwl, UbiRead, UbiErase, UbiWrite, Calling
<1>2. todo' \in {todo, <<"getErase", "eraseUse">>, <<"getReclaim", "copy">>, <<"swlErase">>,
                 <<"indexUpdate", "mountAreas">>}
  BY DEF Mount, UbiSwl, UbiRead, UbiErase, UbiWrite
<1>3. at' \in {"idle", "getErase", "getReclaim", "swlErase", "indexUpdate"}
  BY <1>1, <1>2 DEF at, AtOf
<1> QED BY <1>1, <1>3 DEF Shown, Erased

\* AREA_Update shows no more and no less than the index did.
LEMMA AreaWriteHidden ==
  ASSUME UbiInv, AreaWrite
  PROVE  (Shown' <=> Shown) /\ UNCHANGED <<content, local>>
<1>1. /\ at = "areaWrite" /\ todo = Plan("areaWrite", local.op, full, cached_area_number)
      /\ todo' = Tail(todo) /\ Ram /\ Typed /\ UNCHANGED <<content, local, clobbered>>
  BY AreaWritten
<1>2. cached_area_number # NONE /\ full' = full
  BY <1>1, AreasNat, InCommitFacts DEF CommitSteps, full
<1>3. /\ full => at' = "indexUpdate"
      /\ ~full => at' = "commitDone"
  <2>1. /\ full => todo' = Plan("indexUpdate", local.op, full, cached_area_number)
        /\ ~full => todo' = Plan("commitDone", local.op, full, cached_area_number)
    BY <1>1, <1>2, PlanTails
  <2> QED BY <2>1, PlanFirst DEF at
<1> QED BY <1>1, <1>2, <1>3 DEF Shown, Erased

\* The write of the index is the moment at which UBI_Erase takes effect.
LEMMA IndexWriteShows ==
  ASSUME UbiInv, IndexWrite, Viewed, Viewed'
  PROVE  UNCHANGED StoreView \/ \E l \in LogBlock : Store!Erase(l)
<1>1. /\ at = "indexWrite" /\ Ram /\ todo = Plan("indexWrite", local.op, full, cached_area_number)
  BY AtStep DEF IndexWrite, Steps, IndexSteps
<1>2. UNCHANGED <<content, local, clobbered, cached_area_number>> /\ todo' = Tail(todo)
  BY DEF IndexWrite, areaVars, history, Rest
<1>3. ~Shown
  BY <1>1 DEF Shown, Erased
<1>4. CASE Shown'
  <2>1. local.op = "erase" /\ local' = local
    BY <1>2, <1>4 DEF Shown, Erased
  <2>2. Committing /\ local.log \in LogBlock
    BY <1>1, <2>1 DEF Ram, Locals, Committing, IndexSteps, AreaBlocks
  <2>3. StoreView' = [StoreView EXCEPT ![local.log] = <<>>]
    BY <1>2, <1>3, <1>4, <2>1, <2>2 DEF Viewed, Seen
  <2> QED BY <2>2, <2>3 DEF Store!Erase
<1>5. CASE ~Shown'
  BY <1>2, <1>3, <1>5 DEF Viewed, Seen
<1> QED BY <1>4, <1>5

\* The end of a commit; of one that has clobbered a block, the moment at which the
\* erase takes effect.
LEMMA CommitDoneShows ==
  ASSUME UbiInv, CommitDone, Viewed, Viewed'
  PROVE  UNCHANGED StoreView \/ \E l \in LogBlock : Store!Erase(l)
<1>1. at = "commitDone" /\ Ram /\ Typed /\ todo = Plan("commitDone", local.op, full, cached_area_number)
  BY AtStep DEF CommitDone, Steps, CommitSteps
<1>2. /\ content' = IF local.op = "erase" THEN [content EXCEPT ![local.log] = <<>>] ELSE content
      /\ todo' = Tail(todo)
  BY DEF CommitDone, Rest
<1>3. ~Shown'
  <2>1. todo' = EndOf(local.op)
    BY <1>1, <1>2, PlanTails
  <2>2. at' \in {"idle", "reprogram", "mountRest"}
    BY <2>1 DEF EndOf, at, AtOf
  <2> QED BY <2>2 DEF Shown, Erased
<1>4. StoreView' = [l \in LogBlock |-> content'[l]]
  BY <1>3 DEF Viewed, Seen
<1>5. CASE local.op # "erase"
  BY <1>2, <1>4, <1>5 DEF Viewed, Seen, Shown, Erased
<1>6. CASE local.op = "erase"
  <2>1. local.log \in LogBlock
    BY <1>1, <1>6, InCommitFacts DEF Ram, Locals, CommitSteps
  <2>2. content \in [LogBlock -> Seq(Pages)]
    BY <1>1 DEF Typed
  <2>3. StoreView' = [StoreView EXCEPT ![local.log] = <<>>]
    BY <1>2, <1>4, <1>6, <2>1, <2>2 DEF Viewed, Seen
  <2> QED BY <2>1, <2>3 DEF Store!Erase
<1> QED BY <1>5, <1>6

\* The program of a page is the moment at which UBI_Write takes effect, in the
\* block it is mapped to or in the one it was moved to.
LEMMA WriteShows ==
  ASSUME UbiInv, Viewed, Viewed', ~Shown, ~Shown', NEW l \in LogBlock, Len(content[l]) < P,
         NEW n \in 0 .. MaxOps, content' = [content EXCEPT ![l] = Append(@, DataPage(n))]
  PROVE  Store!Write(l)
<1>1. content \in [LogBlock -> Seq(Pages)]
  BY DEF UbiInv, Typed
<1>2. StoreView = content
  BY <1>1 DEF Viewed, Seen
<1>3. StoreView' = content'
  BY <1>1 DEF Viewed, Seen
<1>4. DataPage(n) \in {DataPage(k) : k \in 0 .. MaxOps}
  OBVIOUS
<1> HIDE DEF Shown
<1> QED BY <1>2, <1>3, <1>4 DEF Store!Write

\* UBI_Write, the first program.
LEMMA UbiWriteShows ==
  ASSUME UbiInv, Viewed, Viewed', NEW l \in LogBlock, UbiWrite(l)
  PROVE  UNCHANGED StoreView \/ Store!Write(l)
<1>1. powered /\ at = "idle" /\ todo = <<>> /\ Typed
  BY AtIdle DEF UbiWrite, Calling
<1>2. CASE content' = content
  BY <1>2, StartHidden DEF Viewed, Seen
<1>3. CASE content' # content
  <2>1. /\ content' = [content EXCEPT ![l] = Append(@, DataPage(ops'))] /\ UNCHANGED todo
        /\ Len(content[l]) < P /\ ops < MaxOps /\ ops' = ops + 1
    BY <1>3 DEF UbiWrite, Calling
  <2>2. ~Shown /\ ~Shown'
    BY <1>1, <2>1 DEF Shown, Erased, at
  <2>3. ops' \in 0 .. MaxOps
    BY <1>1, <2>1, Counted
  <2> DEFINE n == ops'
  <2>4. n \in 0 .. MaxOps /\ content' = [content EXCEPT ![l] = Append(@, DataPage(n))]
    BY <2>1, <2>3
  <2> HIDE DEF n
  <2> QED BY <2>1, <2>2, <2>4, WriteShows
<1> QED BY <1>2, <1>3

\* UBI_Write, the program after ubi_reclaim_badblock.
LEMMA ReprogramShows ==
  ASSUME UbiInv, Viewed, Viewed', Reprogram
  PROVE  UNCHANGED StoreView \/ \E l \in LogBlock : Store!Write(l)
<1>1. at = "reprogram" /\ Ram /\ Typed
  BY AtStep DEF Reprogram, Steps, CallSteps
<1>2. local.log \in LogBlock /\ Len(content[local.log]) < P
  BY <1>1 DEF Ram, Locals
<1>3. ~Shown /\ ~Shown'
  <2>1. at' \in {"idle", "getReclaim"}
    BY DEF Reprogram, at, AtOf
  <2> QED BY <1>1, <2>1 DEF Shown, Erased
<1>4. CASE content' = content
  BY <1>3, <1>4 DEF Viewed, Seen
<1>5. CASE content' # content
  <2>1. content' = [content EXCEPT ![local.log] = Append(@, DataPage(ops))] /\ ops \in 0 .. MaxOps
    BY <1>1, <1>5 DEF Reprogram, Typed
  <2> QED BY <1>2, <1>3, <2>1, WriteShows
<1> QED BY <1>4, <1>5

\* A power loss changes nothing that a restart would find.
LEMMA PowerLossShows ==
  ASSUME UbiInv, Viewed', PowerLoss
  PROVE  UNCHANGED StoreView
<1>1. /\ ~clobbered /\ ~clobbered' /\ todo' = <<>>
      /\ content' = IF FlashMountable THEN [l \in LogBlock |-> Stored(FlashMap(l))] ELSE content
  BY DEF PowerLoss
<1>2. FlashMountable
  BY <1>1, FlashFound DEF UbiInv
<1>3. ~Shown'
  BY <1>1 DEF Shown, Erased, at, AtOf
<1> QED BY <1>1, <1>2, <1>3 DEF Viewed, Seen, StoreView

\* Every step of the UBI layer is one of BlockStore or is not seen.
LEMMA NextShows ==
  ASSUME UbiInv, Viewed, Viewed', [Next]_vars
  PROVE  [Store!Next]_StoreView
<1>1. ASSUME ~Shown, ~Shown', content' = content PROVE UNCHANGED StoreView
  BY <1>1 DEF Viewed, Seen
<1>2. CASE Get \/ GetBadBlock \/ GetTooMany \/ Commit \/ AreaUse \/ IndexUpdate \/ AnchorWrite
  BY <1>1, <1>2, CommitHidden
<1>3. CASE EraseUse \/ Copy \/ CopyBad \/ SwlErase \/ SwlCopy \/ MountAreas \/ MountRest
  BY <1>1, <1>3, CallHidden
<1>4. CASE Mount \/ UbiSwl \/ \E l \in LogBlock : UbiRead(l) \/ UbiErase(l)
  <2>1. content' = content
    BY <1>4 DEF Mount, UbiSwl, UbiRead, UbiErase, history
  <2> QED BY <1>1, <1>4, <2>1, StartHidden
<1>5. CASE AreaWrite
  BY <1>5, AreaWriteHidden DEF Viewed, Seen
<1>6. CASE IndexWrite \/ CommitDone
  BY <1>6, IndexWriteShows, CommitDoneShows DEF Store!Next
<1>7. CASE IndexWriteBad
  BY <1>7 DEF UbiInv, Faults, Benign, IndexWriteBad, Failing, MayFail
<1>8. CASE Reprogram \/ \E l \in LogBlock : UbiWrite(l)
  BY <1>8, ReprogramShows, UbiWriteShows DEF Store!Next
<1>9. CASE PowerLoss
  BY <1>9, PowerLossShows
<1>10. CASE UNCHANGED vars
  <2>1. UNCHANGED <<todo, local, content, clobbered>>
    BY <1>10 DEF vars, history
  <2>2. (Shown' <=> Shown) /\ local' = local /\ content' = content
    BY <2>1 DEF Shown, Erased, at, full
  <2> QED BY <2>2 DEF Viewed, Seen
<1> QED BY <1>2, <1>3, <1>4, <1>5, <1>6, <1>7, <1>8, <1>9, <1>10 DEF Next, Running

\* The UBI layer implements BlockStore: however many NAND operations a UBI_Erase,
\* a UBI_Write that moves its block, or a UBI_SWL consists of, and wherever the
\* power fails in them, the logical blocks that UBI_Init would find change only
\* when one of them is erased or gets its next page, as a whole and in one step.
\* (Outside the window in which INDEX_FreeBlock_Get has erased a block that the
\* tables on flash need.)
THEOREM UbiImplementsStore ==
  ASSUME \A c \in Campaigns : Benign(c)
  PROVE  Spec => Store!Spec
<1>1. Init => Store!Init
  <2> SUFFICES ASSUME Init PROVE StoreView = [l \in LogBlock |-> <<>>]
    BY DEF Store!Init
  <2>1. Viewed
    BY FormatKeeps, UbiInvViewed
  <2>2. local = NoLocal /\ content = [l \in LogBlock |-> <<>>]
    BY DEF Init
  <2> QED BY <2>1, <2>2, NoLocalType DEF Viewed, Seen, Shown, Erased
<1>2. UbiInv => Viewed
  BY UbiInvViewed
<1>3. UbiInv /\ Viewed /\ Viewed' /\ [Next]_vars => [Store!Next]_StoreView
  BY NextShows
<1> QED BY <1>1, <1>2, <1>3, UbiInvariantHolds, PTL DEF Spec, Store!Spec
=============================================================================

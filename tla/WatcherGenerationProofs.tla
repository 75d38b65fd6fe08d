---------------------- MODULE WatcherGenerationProofs ----------------------
(***************************************************************************)
(* Proofs about what the tables of SnapshotWatcher hold, without operator  *)
(* faults (Faults = {}): for every catalogue of archives, and whatever     *)
(* crashes, failed imports, retries, restarts and cutovers come between,   *)
(* what the journal says of the two table groups and of the mint files is  *)
(* true of them.                                                           *)
(***************************************************************************)
EXTENDS WatcherStagesProofs

-----------------------------------------------------------------------------
(* Parts of the invariant. *)

(* What a running watcher knows. *)
LEMMA GenUp ==
    ASSUME GenerationInv, pc # "down"
    PROVE  /\ StageInv /\ Inv /\ ws = journal
           /\ ws \in States /\ ws # None /\ ws.active \in Lanes /\ ws.staging \in Lanes
           /\ StateOK(ws) /\ LanesOK(ws)
           /\ ActiveTables(ws.active, ActiveGroup(ws))
           /\ StagingTables(ws.staging, StagingGroup(ws))
           /\ ActiveMemory /\ StagingMemory /\ FreshMemory
           /\ BootWork /\ SharedWork /\ ActiveWork /\ BuildWork /\ IncrWork
<1>1. StageInv /\ Inv /\ ws = journal
  BY DEF GenerationInv, StageInv, JournalOK
<1>2. /\ ws \in States /\ ws # None /\ ws.active \in Lanes /\ ws.staging \in Lanes
      /\ StateOK(ws)
  BY <1>1, StageUp
<1>3. LanesOK(ws) /\ TablesOK(ws)
  BY <1>2 DEF GenerationInv, Claims
<1>. QED
  BY <1>1, <1>2, <1>3 DEF GenerationInv, TablesOK, MemoryOK, WorkOK

(* What is left to show of a step that leaves the watcher running. *)
LEMMA GenFrom ==
    ASSUME StageInv', pc' # "down", journal' = ws', LanesOK(ws)',
           ActiveTables(ws.active, ActiveGroup(ws))',
           StagingTables(ws.staging, StagingGroup(ws))',
           MemoryOK', BootWork', SharedWork', ActiveWork', BuildWork', IncrWork'
    PROVE  GenerationInv'
<1>1. ws' # None
  BY DEF StageInv, Inv, ControlOK
<1>2. JournalOK'
  BY <1>1 DEF JournalOK
<1>3. (\A w \in Claims : LanesOK(w) /\ TablesOK(w))'
  <2>1. Claims' = {ws'}
    BY <1>1 DEF Claims
  <2>2. TablesOK(ws)'
    BY DEF TablesOK
  <2>. QED
    BY <2>1, <2>2, SMTT(60)
    DEF LanesOK, SharedResumable, LanesResumable, TablesOK, ActiveTables, StagingTables,
        ActiveGroup, StagingGroup
<1>. QED
  BY <1>2, <1>3 DEF GenerationInv, WorkOK

(* Lanes that a step leaves alone. *)
LEMMA LanesSame ==
    ASSUME LanesOK(ws), ws' = ws
    PROVE  LanesOK(ws)'
BY DEF LanesOK, SharedResumable, LanesResumable

-----------------------------------------------------------------------------
(* Files and tables that steps write or leave alone. *)

(* A new file disturbs none that a working lane names. *)
LEMMA WriteStable ==
    ASSUME Inv, pc # "down", NEW m \in MintSets, WriteMints(m)
    PROVE  /\ fresh' \in FileIds /\ files'[fresh'] = m
           /\ ws.active.path # None => files'[ws.active.path] = files[ws.active.path]
           /\ ws.staging.phase # "disabled" /\ ws.staging.path # None
                 => files'[ws.staging.path] = files[ws.staging.path]
<1>1. /\ ws.active.path \in FileIds \cup {None} /\ ws.staging.path \in FileIds \cup {None}
      /\ LaneKept(ws.active) /\ LaneKept(ws.staging) /\ ws.active.phase # "disabled"
  BY UpFields, LaneFields DEF Inv, MintFilesKept, Claims
<1>2. files \in [FileIds -> MintSets \cup {None}]
  BY DEF Inv, TypeOK
<1>3. PICK f \in FileIds : files[f] = None /\ files' = [files EXCEPT ![f] = m] /\ fresh' = f
  BY DEF WriteMints
<1>. QED
  BY <1>1, <1>2, <1>3 DEF LaneKept

(* A cleanup removes none that a working lane of the checkpoint names. *)
LEMMA CleanStable ==
    ASSUME Inv, ws' \in States, ws'.active.phase # "disabled", Cleanup(ws')
    PROVE  /\ ws'.active.path # None => files'[ws'.active.path] = files[ws'.active.path]
           /\ ws'.staging.phase # "disabled" /\ ws'.staging.path # None
                 => files'[ws'.staging.path] = files[ws'.staging.path]
<1>1. ws'.active.path \in FileIds \cup {None} /\ ws'.staging.path \in FileIds \cup {None}
  BY StateFields, LaneFields
<1>2. files \in [FileIds -> MintSets \cup {None}]
  BY DEF Inv, TypeOK
<1>3. \A lane \in {ws'.active, ws'.staging} :
         lane.phase # "disabled" /\ lane.path \in FileIds => files'[lane.path] = files[lane.path]
  BY <1>2, CleanupKeeps
<1>. QED
  BY <1>1, <1>3

(* The tables of one group are replaced. *)
LEMMA BakWrite ==
    ASSUME Inv, NEW c, tables' = [tables EXCEPT ![Bak] = c]
    PROVE  tables'[Bak] = c /\ tables'[serving] = tables[serving]
BY BakFacts DEF Inv, TypeOK

(* The tables of the active group are replaced, ... *)
LEMMA ServingWrite ==
    ASSUME Inv, NEW c, tables' = [tables EXCEPT ![serving] = c]
    PROVE  tables'[serving] = c /\ tables'[Bak] = tables[Bak]
BY BakFacts DEF Inv, TypeOK

(* ... or those of both groups. *)
LEMMA BothWrite ==
    ASSUME Inv, NEW c, NEW d, tables' = [tables EXCEPT ![Bak] = c, ![serving] = d]
    PROVE  tables'[Bak] = c /\ tables'[serving] = d
<1>1. serving \in Groups /\ Bak \in Groups /\ Bak # serving
  BY BakFacts DEF Inv, TypeOK
<1>2. tables \in [Groups -> Contents]
  BY DEF Inv, TypeOK
<1>. QED
  BY <1>1, <1>2

(* A group and the slots in it. *)
LEMMA GroupTypes ==
    ASSUME Inv
    PROVE  /\ serving \in Groups /\ Bak \in Groups /\ Bak # serving
           /\ tables[Bak] \in Contents /\ tables[serving] \in Contents
           /\ tables[Bak].upto \in Nat /\ tables[serving].upto \in Nat
BY BakFacts DEF Inv, TypeOK, Contents

(* TRUNCATE that may fail leaves the other group and its merges alone, and *)
(* promises nothing that the group it resets did not hold.                 *)
LEMMA TryResetGroup ==
    ASSUME Inv, NEW g \in Groups, TryReset(g)
    PROVE  /\ \A h \in Groups :
                h # g => tables'[h] = tables[h] /\ (h \in merges' <=> h \in merges)
           /\ tables'[g] \in Contents /\ tables'[g].gen \in {None, tables[g].gen}
<1>1. tables \in [Groups -> Contents] /\ tables[g] \in Contents
  BY DEF Inv, TypeOK
<1>2. PICK t \in {tables[g], PartlyReset(tables[g]), Reset(tables[g])} :
         tables' = [tables EXCEPT ![g] = t]
  BY DEF TryReset
<1>3. t \in Contents
  BY <1>1, <1>2, ContentsEdits
<1>4. PartlyReset(tables[g]).gen \in {None, tables[g].gen} /\ Reset(tables[g]).gen = None
  BY <1>1 DEF PartlyReset, Reset, Truncated
<1>5. t.gen \in {None, tables[g].gen}
  BY <1>2, <1>4
<1>. QED
  BY <1>1, <1>2, <1>3, <1>5 DEF TryReset

(* A reset that is done leaves its group empty and the other as it was. *)
LEMMA ResetGroupEffect ==
    ASSUME Inv, NEW g \in Groups, ResetGroup(g)
    PROVE  /\ \A h \in Groups :
                h # g => tables'[h] = tables[h] /\ (h \in merges' <=> h \in merges)
           /\ tables'[g] = Truncated /\ Truncated.upto = 0 /\ Truncated.gen = None
<1>1. Truncated.upto = 0 /\ Truncated.gen = None
  BY DEF Truncated
<1>. QED
  BY <1>1 DEF ResetGroup, Reset, Inv, TypeOK

(* A full import of empty tables. *)
LEMMA BeginFullEdit ==
    ASSUME NEW slot, NEW mints
    PROVE  /\ FullUnderway(BeginFull(Truncated, slot, mints), slot, mints)
           /\ BeginFull(Truncated, slot, mints).upto = 0
BY DEF FullUnderway, BeginFull, Truncated

(* It is committed. *)
LEMMA EndFullEdit ==
    ASSUME NEW t \in Contents, NEW slot, NEW mints, FullUnderway(t, slot, mints)
    PROVE  FullThere(EndFull(t, slot), slot, mints)
BY DEF FullUnderway, FullThere, EndFull, Contents

(* The tail of an archive begins and ends. *)
LEMMA BeginTailEdit ==
    ASSUME NEW t \in Contents, NEW a, NEW mints
    PROVE  LET b == BeginTail(t, a, mints)
           IN  /\ b.upto = t.upto /\ b.gen = t.gen /\ b.base = t.base
               /\ b.mints = t.mints \cup {mints}
BY DEF BeginTail, Contents

(* The end reaches the slot of the archive if that continues what is there. *)
LEMMA EndTailEdit ==
    ASSUME NEW t \in Contents, NEW a \in Archives, NEW resume
    PROVE  LET b == EndTail(t, a, resume)
           IN  /\ b.gen = t.gen /\ b.base = t.base /\ b.mints = t.mints
               /\ b.upto \in Nat /\ b.upto >= t.upto
               /\ resume <= t.upto /\ (a.kind = "full" \/ a.base <= resume) => b.upto >= a.slot
<1>. DEFINE b == EndTail(t, a, resume)
<1>1. t.upto \in Nat /\ a.slot \in Nat
  BY SlotTypes DEF Contents
<1>2. b.gen = t.gen /\ b.base = t.base /\ b.mints = t.mints
  BY DEF EndTail, Contents
<1>3. b.upto = IF resume <= t.upto /\ (a.kind = "full" \/ a.base <= resume)
               THEN MaxOf(t.upto, a.slot) ELSE t.upto
  BY DEF EndTail, Contents
<1>4. /\ MaxOf(t.upto, a.slot) \in Nat /\ MaxOf(t.upto, a.slot) >= t.upto
      /\ MaxOf(t.upto, a.slot) >= a.slot
  BY <1>1 DEF MaxOf
<1>. HIDE DEF b
<1>5. b.upto \in Nat /\ b.upto >= t.upto
  BY <1>1, <1>3, <1>4
<1>6. resume <= t.upto /\ (a.kind = "full" \/ a.base <= resume) => b.upto >= a.slot
  BY <1>3, <1>4
<1>. QED
  BY <1>2, <1>5, <1>6 DEF b

-----------------------------------------------------------------------------
(* Every step keeps GenerationInv. *)

(* STOP MERGES and TRUNCATE of _bak: a lane in full_loading claims nothing. *)
LEMMA GenBuildReset ==
    ASSUME GenerationInv, StageInv', BuildReset
    PROVE  GenerationInv'
<1>. USE DEF memory, disk
<1>0. pc # "down" /\ pc' # "down"
  BY DEF BuildReset, GenerationInv, StageInv, StageOK, Starting
<1>b. serving' = serving /\ Bak' = Bak
  BY DEF BuildReset, Bak
<1>w. ws' = ws /\ journal' = ws'
  BY <1>0, GenUp DEF BuildReset
<1>a. /\ ws.staging.phase = "full_loading" /\ ws.cutover = None /\ ws.shared = None
      /\ incr = None
      /\ pc \notin {"fanout", "fanned"} /\ ws.staging.max = None
  BY <1>0, GenUp DEF BuildReset, StageInv, StageOK, StateOK, LanesOK
<1>t. /\ tables'[Bak].upto = 0 /\ tables'[serving] = tables[serving]
      /\ serving \in merges => serving \in merges'
  BY <1>0, GenUp, ResetGroupEffect, GroupTypes DEF BuildReset
<1>1. LanesOK(ws)'
  BY <1>0, <1>w, GenUp, LanesSame
<1>2. ActiveTables(ws.active, ActiveGroup(ws))'
  BY <1>0, GenUp, <1>b, <1>w, <1>a, <1>t
  DEF BuildReset, ActiveTables, StagingTables, ActiveGroup, StagingGroup, Loaded, SlotOrZero
<1>3. StagingTables(ws.staging, StagingGroup(ws))'
  BY <1>0, GenUp, <1>b, <1>w, <1>a, <1>t
  DEF BuildReset, ActiveTables, StagingTables, ActiveGroup, StagingGroup, Loaded, SlotOrZero
<1>4. MemoryOK'
  BY <1>0, GenUp, <1>b, <1>w, <1>a, <1>t
  DEF BuildReset, MemoryOK, ActiveMemory, StagingMemory, FreshMemory, StagingFile,
      BootstrapPending, Starting, SlotOrZero
<1>5. BootWork' /\ SharedWork' /\ ActiveWork'
  BY <1>0, GenUp, <1>b, <1>w, <1>a, <1>t
  DEF BuildReset, BootWork, SharedWork, ActiveWork, Booting
<1>6. BuildWork' /\ IncrWork'
  BY <1>0, GenUp, <1>b, <1>w, <1>a, <1>t
  DEF BuildReset, BuildWork, IncrWork, NoBuild, NewBuild
<1>. QED
  BY <1>0, <1>w, <1>1, <1>2, <1>3, <1>4, <1>5, <1>6, GenFrom

(* Its full import begins on the empty tables. *)
LEMMA GenBuildImport ==
    ASSUME GenerationInv, StageInv', BuildImport
    PROVE  GenerationInv'
<1>. USE DEF memory, disk
<1>0. pc # "down" /\ pc' # "down"
  BY DEF BuildImport, GenerationInv, StageInv, StageOK, Starting
<1>b. serving' = serving /\ Bak' = Bak
  BY DEF BuildImport, Bak
<1>w. ws' = ws /\ journal' = ws'
  BY <1>0, GenUp DEF BuildImport
<1>a. /\ ws.staging.phase = "full_loading" /\ ws.cutover = None /\ ws.shared = None
      /\ incr = None
      /\ pc \notin {"fanout", "fanned"} /\ ws.staging.max = None /\ pc # "handshake"
  BY <1>0, GenUp DEF BuildImport, StageInv, StageOK, StateOK, LanesOK, Inv, ControlOK
<1>c. PICK mints \in MintSets :
         /\ build' = [build EXCEPT !.pc = "import", !.mints = mints]
         /\ tables' = [tables EXCEPT ![Bak] = BeginFull(Truncated, build.full, mints)]
  BY <1>0, GenUp DEF BuildImport, StageInv, EmptyOK
<1>d. build'.pc = "import" /\ build'.mints = mints /\ build'.full = build.full
  BY <1>0, <1>c, GenUp DEF Inv, TypeOK, Builds
<1>t. /\ tables'[serving] = tables[serving]
      /\ FullUnderway(tables'[Bak], build.full, mints) /\ tables'[Bak].upto = 0
  BY <1>0, <1>c, GenUp, BakWrite, BeginFullEdit
<1>1. LanesOK(ws)'
  BY <1>0, <1>w, GenUp, LanesSame
<1>2. ActiveTables(ws.active, ActiveGroup(ws))'
  BY <1>0, GenUp, <1>b, <1>w, <1>a, <1>c, <1>d, <1>t
  DEF BuildImport, ActiveTables, StagingTables, ActiveGroup, StagingGroup, Loaded,
      SlotOrZero
<1>3. StagingTables(ws.staging, StagingGroup(ws))'
  BY <1>0, GenUp, <1>b, <1>w, <1>a, <1>c, <1>d, <1>t
  DEF BuildImport, ActiveTables, StagingTables, ActiveGroup, StagingGroup, Loaded,
      SlotOrZero
<1>4. MemoryOK'
  BY <1>0, GenUp, <1>b, <1>w, <1>a, <1>c, <1>d, <1>t
  DEF BuildImport, MemoryOK, ActiveMemory, StagingMemory, FreshMemory, StagingFile,
      BootstrapPending, Starting, SlotOrZero
<1>5. BootWork' /\ SharedWork' /\ ActiveWork'
  BY <1>0, GenUp, <1>b, <1>w, <1>a, <1>c, <1>d, <1>t
  DEF BuildImport, BootWork, SharedWork, ActiveWork, Booting
<1>6. BuildWork' /\ IncrWork'
  BY <1>0, GenUp, <1>b, <1>w, <1>a, <1>c, <1>d, <1>t
  DEF BuildImport, BuildWork, IncrWork, NoBuild, NewBuild
<1>. QED
  BY <1>0, <1>w, <1>1, <1>2, <1>3, <1>4, <1>5, <1>6, GenFrom

(* And ends: the whole baseline is there. *)
LEMMA GenBuildImported ==
    ASSUME GenerationInv, StageInv', BuildImported
    PROVE  GenerationInv'
<1>. USE DEF memory, disk
<1>0. pc # "down" /\ pc' # "down"
  BY DEF BuildImported, GenerationInv, StageInv, StageOK, Starting
<1>b. serving' = serving /\ Bak' = Bak
  BY DEF BuildImported, Bak
<1>w. ws' = ws /\ journal' = ws'
  BY <1>0, GenUp DEF BuildImported
<1>a. /\ ws.staging.phase = "full_loading" /\ ws.cutover = None /\ ws.shared = None
      /\ incr = None
      /\ pc \notin {"fanout", "fanned"} /\ ws.staging.max = None /\ build.full \in Nat
  BY <1>0, GenUp, SlotTypes
  DEF BuildImported, StageInv, StageOK, StateOK, LanesOK, Inv, TypeOK, ControlOK, Builds
<1>d. build'.pc = "sent" /\ build'.mints = build.mints /\ build'.full = build.full
  BY <1>0, GenUp DEF BuildImported, Inv, TypeOK, Builds
<1>t. /\ tables'[serving] = tables[serving]
      /\ FullThere(tables'[Bak], build.full, build.mints) /\ tables'[Bak].upto = build.full
  <2>1. tables'[Bak] = EndFull(tables[Bak], build.full) /\ tables'[serving] = tables[serving]
    BY <1>0, GenUp, BakWrite DEF BuildImported
  <2>2. FullUnderway(tables[Bak], build.full, build.mints) /\ tables[Bak] \in Contents
    BY <1>0, GenUp, GroupTypes DEF BuildImported, BuildWork
  <2>. QED
    BY <2>1, <2>2, EndFullEdit DEF FullThere
<1>1. LanesOK(ws)'
  BY <1>0, <1>w, GenUp, LanesSame
<1>2. ActiveTables(ws.active, ActiveGroup(ws))'
  BY <1>0, GenUp, <1>b, <1>w, <1>a, <1>d, <1>t
  DEF BuildImported, ActiveTables, StagingTables, ActiveGroup, StagingGroup, Loaded,
      SlotOrZero
<1>3. StagingTables(ws.staging, StagingGroup(ws))'
  BY <1>0, GenUp, <1>b, <1>w, <1>a, <1>d, <1>t
  DEF BuildImported, ActiveTables, StagingTables, ActiveGroup, StagingGroup, Loaded,
      SlotOrZero
<1>4. MemoryOK'
  BY <1>0, GenUp, <1>b, <1>w, <1>a, <1>d, <1>t
  DEF BuildImported, MemoryOK, ActiveMemory, StagingMemory, FreshMemory, StagingFile,
      BootstrapPending, Starting, SlotOrZero
<1>5. BootWork' /\ SharedWork' /\ ActiveWork'
  BY <1>0, GenUp, <1>b, <1>w, <1>a, <1>d, <1>t
  DEF BuildImported, BootWork, SharedWork, ActiveWork, Booting
<1>6. BuildWork' /\ IncrWork'
  BY <1>0, GenUp, <1>b, <1>w, <1>a, <1>d, <1>t
  DEF BuildImported, BuildWork, IncrWork, NoBuild, NewBuild
<1>. QED
  BY <1>0, <1>w, <1>1, <1>2, <1>3, <1>4, <1>5, <1>6, GenFrom

(* START MERGES. *)
LEMMA GenBuildStartMerges ==
    ASSUME GenerationInv, StageInv', BuildStartMerges
    PROVE  GenerationInv'
<1>. USE DEF memory, disk
<1>0. pc # "down" /\ pc' # "down"
  BY DEF BuildStartMerges, MergesStarted, GenerationInv, StageInv, StageOK, Starting
<1>b. serving' = serving /\ Bak' = Bak
  BY DEF BuildStartMerges, MergesStarted, Bak
<1>w. ws' = ws /\ journal' = ws'
  BY <1>0, GenUp DEF BuildStartMerges, MergesStarted
<1>d. build'.pc = "settle" /\ build.pc = "acked" /\ ws.staging.phase = "full_merging"
  BY <1>0, GenUp DEF BuildStartMerges, Inv, TypeOK, Builds, StageInv, StageOK
<1>1. LanesOK(ws)'
  BY <1>0, <1>w, GenUp, LanesSame
<1>2. ActiveTables(ws.active, ActiveGroup(ws))'
  BY <1>0, GenUp, <1>b, <1>w, <1>d
  DEF BuildStartMerges, MergesStarted, ActiveTables, StagingTables, ActiveGroup,
      StagingGroup, Loaded, SlotOrZero
<1>3. StagingTables(ws.staging, StagingGroup(ws))'
  BY <1>0, GenUp, <1>b, <1>w, <1>d
  DEF BuildStartMerges, MergesStarted, ActiveTables, StagingTables, ActiveGroup,
      StagingGroup, Loaded, SlotOrZero
<1>4. MemoryOK'
  BY <1>0, GenUp, <1>b, <1>w, <1>d
  DEF BuildStartMerges, MergesStarted, MemoryOK, ActiveMemory, StagingMemory, FreshMemory,
      StagingFile, BootstrapPending, Starting, SlotOrZero
<1>5. BootWork' /\ SharedWork' /\ ActiveWork'
  BY <1>0, GenUp, <1>b, <1>w, <1>d
  DEF BuildStartMerges, MergesStarted, BootWork, SharedWork, ActiveWork, Booting
<1>6. BuildWork' /\ IncrWork'
  BY <1>0, GenUp, <1>b, <1>w, <1>d
  DEF BuildStartMerges, MergesStarted, BuildWork, IncrWork, NoBuild, NewBuild
<1>. QED
  BY <1>0, <1>w, <1>1, <1>2, <1>3, <1>4, <1>5, <1>6, GenFrom

(* The parts have settled. *)
LEMMA GenBuildSettled ==
    ASSUME GenerationInv, StageInv', BuildSettled
    PROVE  GenerationInv'
<1>. USE DEF memory, disk
<1>0. pc # "down" /\ pc' # "down"
  BY DEF BuildSettled, GenerationInv, StageInv, StageOK, Starting
<1>b. serving' = serving /\ Bak' = Bak
  BY DEF BuildSettled, Bak
<1>w. ws' = ws /\ journal' = ws'
  BY <1>0, GenUp DEF BuildSettled
<1>d. build'.pc = "ok" /\ build.pc = "settle" /\ ws.staging.phase = "full_merging"
  BY <1>0, GenUp DEF BuildSettled, Inv, TypeOK, Builds, StageInv, StageOK
<1>1. LanesOK(ws)'
  BY <1>0, <1>w, GenUp, LanesSame
<1>2. ActiveTables(ws.active, ActiveGroup(ws))'
  BY <1>0, GenUp, <1>b, <1>w, <1>d
  DEF BuildSettled, ActiveTables, StagingTables, ActiveGroup, StagingGroup, Loaded,
      SlotOrZero
<1>3. StagingTables(ws.staging, StagingGroup(ws))'
  BY <1>0, GenUp, <1>b, <1>w, <1>d
  DEF BuildSettled, ActiveTables, StagingTables, ActiveGroup, StagingGroup, Loaded,
      SlotOrZero
<1>4. MemoryOK'
  BY <1>0, GenUp, <1>b, <1>w, <1>d
  DEF BuildSettled, MemoryOK, ActiveMemory, StagingMemory, FreshMemory, StagingFile,
      BootstrapPending, Starting, SlotOrZero
<1>5. BootWork' /\ SharedWork' /\ ActiveWork'
  BY <1>0, GenUp, <1>b, <1>w, <1>d DEF BuildSettled, BootWork, SharedWork, ActiveWork, Booting
<1>6. BuildWork' /\ IncrWork'
  BY <1>0, GenUp, <1>b, <1>w, <1>d DEF BuildSettled, BuildWork, IncrWork, NoBuild, NewBuild
<1>. QED
  BY <1>0, <1>w, <1>1, <1>2, <1>3, <1>4, <1>5, <1>6, GenFrom

(* A failed build has not been promised to anyone. *)
LEMMA GenBuildFails ==
    ASSUME GenerationInv, StageInv', BuildFails
    PROVE  GenerationInv'
<1>. USE DEF memory, disk
<1>0. pc # "down" /\ pc' # "down"
  BY DEF BuildFails, GenerationInv, StageInv, StageOK, Starting
<1>b. serving' = serving /\ Bak' = Bak
  BY DEF BuildFails, Bak
<1>w. ws' = ws /\ journal' = ws'
  BY <1>0, GenUp DEF BuildFails
<1>d. build'.pc = "err" /\ ws.staging.phase = "full_loading"
  BY <1>0, GenUp DEF BuildFails, Inv, TypeOK, Builds, StageInv, StageOK
<1>1. LanesOK(ws)'
  BY <1>0, <1>w, GenUp, LanesSame
<1>2. ActiveTables(ws.active, ActiveGroup(ws))'
  BY <1>0, GenUp, <1>b, <1>w, <1>d
  DEF BuildFails, ActiveTables, StagingTables, ActiveGroup, StagingGroup, Loaded, SlotOrZero
<1>3. StagingTables(ws.staging, StagingGroup(ws))'
  BY <1>0, GenUp, <1>b, <1>w, <1>d
  DEF BuildFails, ActiveTables, StagingTables, ActiveGroup, StagingGroup, Loaded, SlotOrZero
<1>4. MemoryOK'
  BY <1>0, GenUp, <1>b, <1>w, <1>d
  DEF BuildFails, MemoryOK, ActiveMemory, StagingMemory, FreshMemory, StagingFile,
      BootstrapPending, Starting, SlotOrZero
<1>5. BootWork' /\ SharedWork' /\ ActiveWork'
  BY <1>0, GenUp, <1>b, <1>w, <1>d DEF BuildFails, BootWork, SharedWork, ActiveWork, Booting
<1>6. BuildWork' /\ IncrWork'
  BY <1>0, GenUp, <1>b, <1>w, <1>d DEF BuildFails, BuildWork, IncrWork, NoBuild, NewBuild
<1>. QED
  BY <1>0, <1>w, <1>1, <1>2, <1>3, <1>4, <1>5, <1>6, GenFrom

(* A straggler inserts: nothing a lane promises speaks of its rows. *)
LEMMA GenStragglerInserts ==
    ASSUME GenerationInv, StageInv', StragglerInserts
    PROVE  GenerationInv'
<1>. USE DEF memory, disk
<1>0. pc # "down" /\ pc' # "down"
  BY DEF StragglerInserts, GenerationInv, StageInv, Inv, ControlOK
<1>b. serving' = serving /\ Bak' = Bak
  BY DEF StragglerInserts, Bak
<1>w. ws' = ws /\ journal' = ws'
  BY <1>0, GenUp DEF StragglerInserts
<1>1. LanesOK(ws)'
  BY <1>0, <1>w, GenUp, LanesSame
<1>2. ActiveTables(ws.active, ActiveGroup(ws))'
  BY <1>0, GenUp, <1>b, <1>w
  DEF StragglerInserts, ActiveTables, ActiveGroup, StagingGroup, Loaded, SlotOrZero
<1>3. StagingTables(ws.staging, StagingGroup(ws))'
  BY <1>0, GenUp, <1>b, <1>w
  DEF StragglerInserts, StagingTables, ActiveGroup, StagingGroup, Loaded, SlotOrZero
<1>4. MemoryOK'
  BY <1>0, GenUp, <1>b, <1>w
  DEF StragglerInserts, MemoryOK, ActiveMemory, StagingMemory, FreshMemory, StagingFile,
      BootstrapPending, Starting, SlotOrZero
<1>5. BootWork' /\ SharedWork' /\ ActiveWork'
  BY <1>0, GenUp, <1>b, <1>w
  DEF StragglerInserts, BootWork, SharedWork, ActiveWork, Booting
<1>6. BuildWork' /\ IncrWork'
  BY <1>0, GenUp, <1>b, <1>w DEF StragglerInserts, BuildWork, IncrWork, NoBuild, NewBuild
<1>. QED
  BY <1>0, <1>w, <1>1, <1>2, <1>3, <1>4, <1>5, <1>6, GenFrom

(* The incremental of staging begins: its mint set is that of the group. *)
LEMMA GenIncrImport ==
    ASSUME GenerationInv, StageInv', IncrImport
    PROVE  GenerationInv'
<1>. USE DEF memory, disk
<1>0. pc # "down" /\ pc' # "down"
  BY DEF IncrImport, GenerationInv, StageInv, StageOK, Starting
<1>b. serving' = serving /\ Bak' = Bak
  BY DEF IncrImport, Bak
<1>w. ws' = ws /\ journal' = ws'
  BY <1>0, GenUp DEF IncrImport
<1>a. /\ ws.staging.phase = "incremental_loading" /\ ws.cutover = None /\ ws.shared = None
      /\ build.pc \notin {"start", "reset", "import", "sent", "settle", "ok"}
      /\ pc \notin {"fanout", "fanned"}
  BY <1>0, GenUp DEF IncrImport, StageInv, StageOK, StateOK
<1>d. /\ incr' # None /\ incr'.pc = "import" /\ incr'.archive = incr.archive
      /\ incr'.resume = incr.resume /\ incr'.mints = incr.mints
  BY <1>0, GenUp, RecordsAssumption DEF IncrImport, Inv, TypeOK, Imports
<1>t. /\ tables'[serving] = tables[serving]
      /\ tables'[Bak].upto = tables[Bak].upto /\ tables'[Bak].gen = tables[Bak].gen
      /\ tables'[Bak].base = tables[Bak].base
      /\ tables'[Bak].mints = tables[Bak].mints
  <2>1. /\ tables'[Bak] = BeginTail(tables[Bak], incr.archive, incr.mints)
        /\ tables'[serving] = tables[serving]
    BY <1>0, GenUp, BakWrite DEF IncrImport
  <2>2. tables[Bak] \in Contents
    BY <1>0, GenUp, GroupTypes
  <2>3. tables[Bak].mints = {incr.mints}
    BY <1>0, <1>a, GenUp DEF IncrImport, IncrWork, StagingTables, StagingGroup, Loaded
  <2>. QED
    BY <2>1, <2>2, <2>3, BeginTailEdit
<1>1. LanesOK(ws)'
  BY <1>0, <1>w, GenUp, LanesSame
<1>2. ActiveTables(ws.active, ActiveGroup(ws))'
  BY <1>0, GenUp, <1>b, <1>w, <1>a, <1>d, <1>t
  DEF IncrImport, ActiveTables, StagingTables, ActiveGroup, StagingGroup, Loaded, SlotOrZero
<1>3. StagingTables(ws.staging, StagingGroup(ws))'
  BY <1>0, GenUp, <1>b, <1>w, <1>a, <1>d, <1>t
  DEF IncrImport, ActiveTables, StagingTables, ActiveGroup, StagingGroup, Loaded, SlotOrZero
<1>4. MemoryOK'
  BY <1>0, GenUp, <1>b, <1>w, <1>a, <1>d, <1>t
  DEF IncrImport, MemoryOK, ActiveMemory, StagingMemory, FreshMemory, StagingFile,
      BootstrapPending, Starting, SlotOrZero
<1>5. BootWork' /\ SharedWork' /\ ActiveWork'
  BY <1>0, GenUp, <1>b, <1>w, <1>a, <1>d, <1>t
  DEF IncrImport, BootWork, SharedWork, ActiveWork, Booting
<1>6. BuildWork' /\ IncrWork'
  BY <1>0, GenUp, <1>b, <1>w, <1>a, <1>d, <1>t
  DEF IncrImport, BuildWork, IncrWork, NoBuild, NewBuild
<1>. QED
  BY <1>0, <1>w, <1>1, <1>2, <1>3, <1>4, <1>5, <1>6, GenFrom

(* And ends: it continues what the group holds. *)
LEMMA GenIncrImported ==
    ASSUME GenerationInv, StageInv', IncrImported
    PROVE  GenerationInv'
<1>. USE DEF memory, disk
<1>0. pc # "down" /\ pc' # "down"
  BY DEF IncrImported, GenerationInv, StageInv, StageOK, Starting
<1>b. serving' = serving /\ Bak' = Bak
  BY DEF IncrImported, Bak
<1>w. ws' = ws /\ journal' = ws'
  BY <1>0, GenUp DEF IncrImported
<1>a. /\ ws.staging.phase = "incremental_loading" /\ ws.cutover = None /\ ws.shared = None
      /\ build.pc \notin {"start", "reset", "import", "sent", "settle", "ok"}
      /\ pc \notin {"fanout", "fanned"}
  BY <1>0, GenUp DEF IncrImported, StageInv, StageOK, StateOK
<1>d. /\ incr' # None /\ incr'.pc = "ok" /\ incr'.archive = incr.archive
      /\ incr'.resume = incr.resume /\ incr'.mints = incr.mints
      /\ incr.archive \in Archives /\ ws.staging.max \in Nat
  BY <1>0, GenUp, RecordsAssumption DEF IncrImported, Inv, TypeOK, Imports, IncrWork
<1>e. /\ incr.resume <= tables[Bak].upto
      /\ (incr.archive.kind = "full" \/ incr.archive.base <= incr.resume)
  BY <1>0, <1>a, <1>d, GenUp, NoneAssumption
  DEF IncrImported, IncrWork, StagingTables, StagingGroup, SlotOrZero
<1>t. /\ tables'[serving] = tables[serving]
      /\ tables'[Bak].upto >= tables[Bak].upto /\ tables'[Bak].gen = tables[Bak].gen
      /\ tables'[Bak].base = tables[Bak].base /\ tables'[Bak].mints = tables[Bak].mints
      /\ tables'[Bak].upto >= incr.archive.slot /\ tables'[Bak].upto \in Nat
      /\ tables[Bak].upto \in Nat
  <2>1. /\ tables'[Bak] = EndTail(tables[Bak], incr.archive, incr.resume)
        /\ tables'[serving] = tables[serving]
    BY <1>0, GenUp, BakWrite DEF IncrImported
  <2>2. tables[Bak] \in Contents /\ tables[Bak].upto \in Nat
    BY <1>0, GenUp, GroupTypes
  <2>. QED
    BY <1>d, <1>e, <2>1, <2>2, EndTailEdit
<1>1. LanesOK(ws)'
  BY <1>0, <1>w, GenUp, LanesSame
<1>2. ActiveTables(ws.active, ActiveGroup(ws))'
  BY <1>0, GenUp, <1>b, <1>w, <1>a, <1>d, <1>e, <1>t
  DEF IncrImported, ActiveTables, StagingTables, ActiveGroup, StagingGroup, Loaded,
      SlotOrZero
<1>3. StagingTables(ws.staging, StagingGroup(ws))'
  BY <1>0, GenUp, <1>b, <1>w, <1>a, <1>d, <1>e, <1>t
  DEF IncrImported, ActiveTables, StagingTables, ActiveGroup, StagingGroup, Loaded,
      SlotOrZero
<1>4. MemoryOK'
  BY <1>0, GenUp, <1>b, <1>w, <1>a, <1>d, <1>e, <1>t
  DEF IncrImported, MemoryOK, ActiveMemory, StagingMemory, FreshMemory, StagingFile,
      BootstrapPending, Starting, SlotOrZero
<1>5. BootWork' /\ SharedWork' /\ ActiveWork'
  BY <1>0, GenUp, <1>b, <1>w, <1>a, <1>d, <1>e, <1>t
  DEF IncrImported, BootWork, SharedWork, ActiveWork, Booting
<1>6. BuildWork' /\ IncrWork'
  BY <1>0, GenUp, <1>b, <1>w, <1>a, <1>d, <1>e, <1>t
  DEF IncrImported, BuildWork, IncrWork, NoBuild, NewBuild
<1>. QED
  BY <1>0, <1>w, <1>1, <1>2, <1>3, <1>4, <1>5, <1>6, GenFrom

(* Startup clears the path of a disabled lane; the others keep their files. *)
LEMMA GenStartupCleanup ==
    ASSUME GenerationInv, StageInv', StartupCleanup
    PROVE  GenerationInv'
<1>. USE DEF memory, disk
<1>0. pc # "down" /\ pc' # "down"
  BY DEF StartupCleanup
<1>b. serving' = serving /\ Bak' = Bak
  BY DEF StartupCleanup, Bak
<1>w. /\ ws' \in States /\ journal' = ws'
      /\ ws'.active = ws.active
      /\ ws'.staging.phase = ws.staging.phase /\ ws'.staging.full = ws.staging.full
      /\ ws'.staging.max = ws.staging.max /\ ws'.staging.inflight = ws.staging.inflight
      /\ ws'.staging.phase # "disabled" => ws'.staging.path = ws.staging.path
      /\ ws'.cutover = ws.cutover /\ ws'.shared = ws.shared
  BY <1>0, GenUp, StartupCleanupFields
<1>a. ws.active.phase # "disabled" /\ build.pc = "none" /\ incr = None
  BY <1>0, GenUp, ActiveWorks DEF StartupCleanup, StageInv, StageOK, Starting
<1>f. /\ ws'.active.path # None => files'[ws'.active.path] = files[ws'.active.path]
      /\ ws'.staging.phase # "disabled" /\ ws'.staging.path # None
            => files'[ws'.staging.path] = files[ws'.staging.path]
  BY <1>0, <1>w, <1>a, GenUp, CleanStable DEF StartupCleanup
<1>1. LanesOK(ws)'
  BY <1>0, GenUp, <1>b, <1>w, <1>a, <1>f
  DEF StartupCleanup, LanesOK, SharedResumable, LanesResumable, Loaded
<1>2. ActiveTables(ws.active, ActiveGroup(ws))'
  BY <1>0, GenUp, <1>b, <1>w, <1>a, <1>f
  DEF StartupCleanup, ActiveTables, StagingTables, ActiveGroup, StagingGroup, Loaded,
      SlotOrZero
<1>3. StagingTables(ws.staging, StagingGroup(ws))'
  BY <1>0, GenUp, <1>b, <1>w, <1>a, <1>f
  DEF StartupCleanup, ActiveTables, StagingTables, ActiveGroup, StagingGroup, Loaded,
      SlotOrZero, LanesOK, LanesResumable
<1>4. MemoryOK'
  BY <1>0, GenUp, <1>b, <1>w, <1>a, <1>f
  DEF StartupCleanup, MemoryOK, ActiveMemory, StagingMemory, FreshMemory, StagingFile,
      BootstrapPending, Starting, SlotOrZero
<1>5. BootWork' /\ SharedWork' /\ ActiveWork'
  BY <1>0, GenUp, <1>b, <1>w, <1>a, <1>f
  DEF StartupCleanup, BootWork, SharedWork, ActiveWork, Booting
<1>6. BuildWork' /\ IncrWork'
  BY <1>0, GenUp, <1>b, <1>w, <1>a, <1>f
  DEF StartupCleanup, BuildWork, IncrWork, NoBuild, NewBuild
<1>. QED
  BY <1>0, <1>w, <1>1, <1>2, <1>3, <1>4, <1>5, <1>6, GenFrom

(* The loop's variables are read from the journal and the files. *)
LEMMA GenLoadMints ==
    ASSUME GenerationInv, StageInv', LoadMints
    PROVE  GenerationInv'
<1>. USE DEF memory, disk
<1>0. pc # "down" /\ pc' # "down"
  BY DEF LoadMints, Load
<1>b. serving' = serving /\ Bak' = Bak
  BY DEF LoadMints, Load, Bak
<1>w. ws' = ws /\ journal' = ws'
  BY <1>0, GenUp DEF LoadMints, Load
<1>1. LanesOK(ws)'
  BY <1>0, <1>w, GenUp, LanesSame
<1>2. ActiveTables(ws.active, ActiveGroup(ws))'
  BY <1>0, GenUp, <1>b, <1>w
  DEF LoadMints, Load, ActiveTables, StagingTables, ActiveGroup, StagingGroup, Loaded,
      SlotOrZero
<1>3. StagingTables(ws.staging, StagingGroup(ws))'
  BY <1>0, GenUp, <1>b, <1>w
  DEF LoadMints, Load, ActiveTables, StagingTables, ActiveGroup, StagingGroup, Loaded,
      SlotOrZero
<1>4. MemoryOK'
  BY <1>0, GenUp, <1>b, <1>w
  DEF LoadMints, Load, MemoryOK, ActiveMemory, StagingMemory, FreshMemory, StagingFile,
      BootstrapPending, Starting, SlotOrZero
<1>5. BootWork' /\ SharedWork' /\ ActiveWork'
  BY <1>0, GenUp, <1>b, <1>w DEF LoadMints, Load, BootWork, SharedWork, ActiveWork, Booting
<1>6. BuildWork' /\ IncrWork'
  BY <1>0, GenUp, <1>b, <1>w DEF LoadMints, Load, BuildWork, IncrWork, NoBuild, NewBuild
<1>. QED
  BY <1>0, <1>w, <1>1, <1>2, <1>3, <1>4, <1>5, <1>6, GenFrom

(* A set for active that no import has used. *)
LEMMA GenFreezeActiveMints ==
    ASSUME GenerationInv, StageInv', FreezeActiveMints
    PROVE  GenerationInv'
<1>. USE DEF memory, disk
<1>0. pc # "down" /\ pc' # "down"
  BY DEF FreezeActiveMints
<1>b. serving' = serving /\ Bak' = Bak
  BY DEF FreezeActiveMints, Bak
<1>w. ws' = ws /\ journal' = ws'
  BY <1>0, GenUp DEF FreezeActiveMints
<1>f. /\ ws.active.path # None => files'[ws.active.path] = files[ws.active.path]
      /\ ws.staging.phase # "disabled" /\ ws.staging.path # None
            => files'[ws.staging.path] = files[ws.staging.path]
  BY <1>0, GenUp, WriteStable DEF FreezeActiveMints
<1>a. build.pc = "none" /\ incr = None
  BY <1>0, GenUp DEF FreezeActiveMints, StageInv, StageOK, Starting
<1>1. LanesOK(ws)'
  BY <1>0, <1>w, GenUp, LanesSame
<1>2. ActiveTables(ws.active, ActiveGroup(ws))'
  BY <1>0, GenUp, <1>b, <1>w, <1>f, <1>a
  DEF FreezeActiveMints, ActiveTables, StagingTables, ActiveGroup, StagingGroup, Loaded,
      SlotOrZero
<1>3. StagingTables(ws.staging, StagingGroup(ws))'
  BY <1>0, GenUp, <1>b, <1>w, <1>f, <1>a
  DEF FreezeActiveMints, ActiveTables, StagingTables, ActiveGroup, StagingGroup, Loaded,
      SlotOrZero, LanesOK, LanesResumable
<1>4. MemoryOK'
  BY <1>0, GenUp, <1>b, <1>w, <1>f, <1>a
  DEF FreezeActiveMints, MemoryOK, ActiveMemory, StagingMemory, FreshMemory, StagingFile,
      BootstrapPending, Starting, SlotOrZero
<1>5. BootWork' /\ SharedWork' /\ ActiveWork'
  BY <1>0, GenUp, <1>b, <1>w, <1>f, <1>a
  DEF FreezeActiveMints, BootWork, SharedWork, ActiveWork, Booting
<1>6. BuildWork' /\ IncrWork'
  BY <1>0, GenUp, <1>b, <1>w, <1>f, <1>a
  DEF FreezeActiveMints, BuildWork, IncrWork, NoBuild, NewBuild
<1>. QED
  BY <1>0, <1>w, <1>1, <1>2, <1>3, <1>4, <1>5, <1>6, GenFrom

(* Active names the set; no rows were filtered before. *)
LEMMA GenAdoptActiveMints ==
    ASSUME GenerationInv, StageInv', AdoptActiveMints
    PROVE  GenerationInv'
<1>. USE DEF memory, disk
<1>0. pc # "down" /\ pc' # "down"
  BY DEF AdoptActiveMints
<1>b. serving' = serving /\ Bak' = Bak
  BY DEF AdoptActiveMints, Bak
<1>w. /\ ws' \in States /\ journal' = ws'
      /\ ws'.active.phase = ws.active.phase /\ ws'.active.full = ws.active.full
      /\ ws'.active.max = ws.active.max /\ ws'.active.inflight = ws.active.inflight
      /\ ws'.active.path = fresh /\ ws'.staging = ws.staging
      /\ ws'.cutover = ws.cutover /\ ws'.shared = ws.shared
  BY <1>0, GenUp, AdoptFields
<1>a. build.pc = "none" /\ incr = None /\ ws.active.path = None /\ fresh \in FileIds
  BY <1>0, GenUp
  DEF AdoptActiveMints, StageInv, StageOK, Starting, FreshMemory, Inv, TypeOK, MintFilesKept
<1>1. LanesOK(ws)'
  BY <1>0, GenUp, <1>b, <1>w, <1>a
  DEF AdoptActiveMints, LanesOK, SharedResumable, LanesResumable, Loaded
<1>2. ActiveTables(ws.active, ActiveGroup(ws))'
  BY <1>0, GenUp, <1>b, <1>w, <1>a
  DEF AdoptActiveMints, ActiveTables, StagingTables, ActiveGroup, StagingGroup, Loaded,
      SlotOrZero
<1>3. StagingTables(ws.staging, StagingGroup(ws))'
  BY <1>0, GenUp, <1>b, <1>w, <1>a
  DEF AdoptActiveMints, ActiveTables, StagingTables, ActiveGroup, StagingGroup, Loaded,
      SlotOrZero
<1>4. MemoryOK'
  BY <1>0, GenUp, <1>b, <1>w, <1>a
  DEF AdoptActiveMints, MemoryOK, ActiveMemory, StagingMemory, FreshMemory, StagingFile,
      BootstrapPending, Starting, SlotOrZero
<1>5. BootWork' /\ SharedWork' /\ ActiveWork'
  BY <1>0, GenUp, <1>b, <1>w, <1>a
  DEF AdoptActiveMints, BootWork, SharedWork, ActiveWork, Booting
<1>6. BuildWork' /\ IncrWork'
  BY <1>0, GenUp, <1>b, <1>w, <1>a
  DEF AdoptActiveMints, BuildWork, IncrWork, NoBuild, NewBuild
<1>. QED
  BY <1>0, <1>w, <1>1, <1>2, <1>3, <1>4, <1>5, <1>6, GenFrom

(* The set of the build goes into a file. *)
LEMMA GenFreezeBuildMints ==
    ASSUME GenerationInv, StageInv', FreezeBuildMints
    PROVE  GenerationInv'
<1>. USE DEF memory, disk
<1>0. pc # "down" /\ pc' # "down"
  BY DEF FreezeBuildMints
<1>b. serving' = serving /\ Bak' = Bak
  BY DEF FreezeBuildMints, Bak
<1>w. ws' = ws /\ journal' = ws'
  BY <1>0, GenUp DEF FreezeBuildMints
<1>a. build.mints \in MintSets /\ incr = None
  BY <1>0, GenUp DEF FreezeBuildMints, Inv, TypeOK, ControlOK, Builds, StageInv, StageOK
<1>f. /\ fresh' \in FileIds /\ files'[fresh'] = build.mints
      /\ ws.active.path # None => files'[ws.active.path] = files[ws.active.path]
      /\ ws.staging.phase # "disabled" /\ ws.staging.path # None
            => files'[ws.staging.path] = files[ws.staging.path]
  BY <1>0, <1>a, GenUp, WriteStable DEF FreezeBuildMints
<1>1. LanesOK(ws)'
  BY <1>0, <1>w, GenUp, LanesSame
<1>2. ActiveTables(ws.active, ActiveGroup(ws))'
  BY <1>0, GenUp, <1>b, <1>w, <1>a, <1>f
  DEF FreezeBuildMints, ActiveTables, StagingTables, ActiveGroup, StagingGroup, Loaded,
      SlotOrZero
<1>3. StagingTables(ws.staging, StagingGroup(ws))'
  BY <1>0, GenUp, <1>b, <1>w, <1>a, <1>f
  DEF FreezeBuildMints, ActiveTables, StagingTables, ActiveGroup, StagingGroup, Loaded,
      SlotOrZero
<1>4. MemoryOK'
  BY <1>0, GenUp, <1>b, <1>w, <1>a, <1>f
  DEF FreezeBuildMints, MemoryOK, ActiveMemory, StagingMemory, FreshMemory, StagingFile,
      BootstrapPending, Starting, SlotOrZero
<1>5. BootWork' /\ SharedWork' /\ ActiveWork'
  BY <1>0, GenUp, <1>b, <1>w, <1>a, <1>f
  DEF FreezeBuildMints, BootWork, SharedWork, ActiveWork, Booting
<1>6. BuildWork' /\ IncrWork'
  BY <1>0, GenUp, <1>b, <1>w, <1>a, <1>f
  DEF FreezeBuildMints, BuildWork, IncrWork, NoBuild, NewBuild
<1>. QED
  BY <1>0, <1>w, <1>1, <1>2, <1>3, <1>4, <1>5, <1>6, GenFrom

(* The handshake: staging claims the baseline that its thread committed. *)
LEMMA GenAckBuild ==
    ASSUME GenerationInv, StageInv', AckBuild
    PROVE  GenerationInv'
<1>. USE DEF memory, disk
<1>0. pc # "down" /\ pc' # "down"
  BY DEF AckBuild
<1>b. serving' = serving /\ Bak' = Bak
  BY DEF AckBuild, Bak
<1>w. /\ ws' \in States /\ journal' = ws'
      /\ ws'.active = ws.active
      /\ ws'.staging.phase = "full_merging" /\ ws'.staging.full = ws.staging.full
      /\ ws'.staging.max = build.full /\ ws'.staging.path = fresh
      /\ ws'.cutover = ws.cutover /\ ws'.shared = ws.shared
      /\ build.full \in FullSlots /\ fresh \in FileIds
  BY <1>0, GenUp, AckBuildFields
<1>a. /\ ws.active.phase # "disabled" /\ ws.staging.phase = "full_loading" /\ incr = None
      /\ ws.cutover = None /\ ws.shared = None /\ build.pc = "sent" /\ build'.pc = "acked"
      /\ build.full \in Nat /\ build.full # None /\ fresh # None
  BY <1>0, <1>w, GenUp, ActiveWorks, SlotTypes, NoneAssumption, WatcherAssumption
  DEF AckBuild, StageInv, StageOK, StateOK, Inv, ControlOK, TypeOK, Builds
<1>c. /\ files[fresh] = build.mints /\ build.full = ws.staging.full
      /\ FullThere(tables[Bak], build.full, build.mints)
  BY <1>0, <1>a, GenUp DEF AckBuild, FreshMemory, BuildWork
<1>f. /\ ws'.active.path # None => files'[ws'.active.path] = files[ws'.active.path]
      /\ ws'.staging.phase # "disabled" /\ ws'.staging.path # None
            => files'[ws'.staging.path] = files[ws'.staging.path]
  BY <1>0, <1>w, <1>a, GenUp, CleanStable DEF AckBuild
<1>1. LanesOK(ws)'
  BY <1>0, GenUp, <1>b, <1>w, <1>a, <1>c, <1>f
  DEF AckBuild, LanesOK, SharedResumable, LanesResumable, Loaded
<1>2. ActiveTables(ws.active, ActiveGroup(ws))'
  BY <1>0, GenUp, <1>b, <1>w, <1>a, <1>c, <1>f
  DEF AckBuild, ActiveTables, StagingTables, ActiveGroup, StagingGroup, Loaded, SlotOrZero
<1>3. StagingTables(ws.staging, StagingGroup(ws))'
  BY <1>0, GenUp, <1>b, <1>w, <1>a, <1>c, <1>f
  DEF AckBuild, ActiveTables, StagingTables, ActiveGroup, StagingGroup, Loaded, SlotOrZero,
      FullThere
<1>4. MemoryOK'
  BY <1>0, GenUp, <1>b, <1>w, <1>a, <1>c, <1>f
  DEF AckBuild, MemoryOK, ActiveMemory, StagingMemory, FreshMemory, StagingFile,
      BootstrapPending, Starting, SlotOrZero
<1>5. BootWork' /\ SharedWork' /\ ActiveWork'
  BY <1>0, GenUp, <1>b, <1>w, <1>a, <1>c, <1>f
  DEF AckBuild, BootWork, SharedWork, ActiveWork, Booting
<1>6. BuildWork' /\ IncrWork'
  BY <1>0, GenUp, <1>b, <1>w, <1>a, <1>c, <1>f
  DEF AckBuild, BuildWork, IncrWork, NoBuild, NewBuild
<1>. QED
  BY <1>0, <1>w, <1>1, <1>2, <1>3, <1>4, <1>5, <1>6, GenFrom

(* Staging is ready once its merges run. *)
LEMMA GenBuildDone ==
    ASSUME GenerationInv, StageInv', BuildDone
    PROVE  GenerationInv'
<1>. USE DEF memory, disk
<1>0. pc # "down" /\ pc' # "down"
  BY DEF BuildDone
<1>b. serving' = serving /\ Bak' = Bak
  BY DEF BuildDone, Bak
<1>w. /\ ws' \in States /\ journal' = ws'
      /\ ws'.active = ws.active
      /\ ws'.staging.phase = "ready" /\ ws'.staging.full = ws.staging.full
      /\ ws'.staging.max = ws.staging.max /\ ws'.staging.path = ws.staging.path
      /\ ws'.cutover = ws.cutover /\ ws'.shared = ws.shared
  BY <1>0, GenUp, BuildDoneFields
<1>a. /\ ws.staging.phase = "full_merging" /\ incr = None /\ ws.cutover = None
      /\ ws.shared = None
      /\ Bak \in merges
  BY <1>0, GenUp DEF BuildDone, StageInv, StageOK, StateOK, BuildWork
<1>1. LanesOK(ws)'
  BY <1>0, GenUp, <1>b, <1>w, <1>a
  DEF BuildDone, LanesOK, SharedResumable, LanesResumable, Loaded
<1>2. ActiveTables(ws.active, ActiveGroup(ws))'
  BY <1>0, GenUp, <1>b, <1>w, <1>a
  DEF BuildDone, ActiveTables, StagingTables, ActiveGroup, StagingGroup, Loaded, SlotOrZero
<1>3. StagingTables(ws.staging, StagingGroup(ws))'
  BY <1>0, GenUp, <1>b, <1>w, <1>a
  DEF BuildDone, ActiveTables, StagingTables, ActiveGroup, StagingGroup, Loaded, SlotOrZero
<1>4. MemoryOK'
  BY <1>0, GenUp, <1>b, <1>w, <1>a
  DEF BuildDone, MemoryOK, ActiveMemory, StagingMemory, FreshMemory, StagingFile,
      BootstrapPending, Starting, SlotOrZero
<1>5. BootWork' /\ SharedWork' /\ ActiveWork'
  BY <1>0, GenUp, <1>b, <1>w, <1>a DEF BuildDone, BootWork, SharedWork, ActiveWork, Booting
<1>6. BuildWork' /\ IncrWork'
  BY <1>0, GenUp, <1>b, <1>w, <1>a DEF BuildDone, BuildWork, IncrWork, NoBuild, NewBuild
<1>. QED
  BY <1>0, <1>w, <1>1, <1>2, <1>3, <1>4, <1>5, <1>6, GenFrom

(* The group of a failed build is reset as far as possible. *)
LEMMA GenBuildFailed ==
    ASSUME GenerationInv, StageInv', BuildFailed
    PROVE  GenerationInv'
<1>. USE DEF memory, disk
<1>0. pc # "down" /\ pc' # "down"
  BY DEF BuildFailed
<1>b. serving' = serving /\ Bak' = Bak
  BY DEF BuildFailed, Bak
<1>w. ws' = ws /\ journal' = ws'
  BY <1>0, GenUp DEF BuildFailed
<1>a. /\ ws.staging.phase = "full_loading" /\ ws.cutover = None /\ ws.shared = None
      /\ incr = None
      /\ ws.staging.max = None
  BY <1>0, GenUp DEF BuildFailed, StageInv, StageOK, StateOK, LanesOK
<1>t. /\ tables'[Bak].upto \in Nat /\ tables'[serving] = tables[serving]
      /\ serving \in merges => serving \in merges'
  BY <1>0, GenUp, TryResetGroup, GroupTypes DEF BuildFailed, ResetFailedStaging, Contents
<1>1. LanesOK(ws)'
  BY <1>0, <1>w, GenUp, LanesSame
<1>2. ActiveTables(ws.active, ActiveGroup(ws))'
  BY <1>0, GenUp, <1>b, <1>w, <1>a, <1>t
  DEF BuildFailed, ActiveTables, StagingTables, ActiveGroup, StagingGroup, Loaded,
      SlotOrZero
<1>3. StagingTables(ws.staging, StagingGroup(ws))'
  BY <1>0, GenUp, <1>b, <1>w, <1>a, <1>t
  DEF BuildFailed, ActiveTables, StagingTables, ActiveGroup, StagingGroup, Loaded,
      SlotOrZero
<1>4. MemoryOK'
  BY <1>0, GenUp, <1>b, <1>w, <1>a, <1>t
  DEF BuildFailed, MemoryOK, ActiveMemory, StagingMemory, FreshMemory, StagingFile,
      BootstrapPending, Starting, SlotOrZero
<1>5. BootWork' /\ SharedWork' /\ ActiveWork'
  BY <1>0, GenUp, <1>b, <1>w, <1>a, <1>t
  DEF BuildFailed, BootWork, SharedWork, ActiveWork, Booting
<1>6. BuildWork' /\ IncrWork'
  BY <1>0, GenUp, <1>b, <1>w, <1>a, <1>t
  DEF BuildFailed, BuildWork, IncrWork, NoBuild, NewBuild
<1>. QED
  BY <1>0, <1>w, <1>1, <1>2, <1>3, <1>4, <1>5, <1>6, GenFrom

(* Staging has its first incremental: both lanes wait for the cutover. *)
LEMMA GenIncrDone ==
    ASSUME GenerationInv, StageInv', IncrDone
    PROVE  GenerationInv'
<1>. USE DEF memory, disk
<1>0. pc # "down" /\ pc' # "down"
  BY DEF IncrDone
<1>b. serving' = serving /\ Bak' = Bak
  BY DEF IncrDone, Bak
<1>w. /\ ws' \in States /\ journal' = ws'
      /\ ws'.active.phase = "cutover_pending" /\ ws'.active.full = ws.active.full
      /\ ws'.active.max = ws.active.max /\ ws'.active.path = ws.active.path
      /\ ws'.staging.phase = "cutover_pending" /\ ws'.staging.full = ws.staging.full
      /\ ws'.staging.max = incr.archive.slot /\ ws'.staging.path = ws.staging.path
      /\ ws'.cutover = ws.cutover /\ ws'.shared = ws.shared
  BY <1>0, GenUp, IncrDoneFields
<1>a. /\ ws.staging.phase = "incremental_loading" /\ ws.cutover = None /\ ws.shared = None
      /\ ws.active.phase \in {"ready", "incremental_loading"}
      /\ incr.archive.slot \in Nat /\ incr.archive.slot # None
      /\ build.pc \notin {"start", "reset", "import", "sent", "settle", "ok"}
  BY <1>0, GenUp, ActiveWorks, LaneFields, SlotTypes, NoneAssumption
  DEF IncrDone, StageInv, StageOK, StateOK, LanesOK, Phases, Inv, TypeOK, Imports
<1>c. tables[Bak].upto >= incr.archive.slot /\ tables[Bak].upto \in Nat
  BY <1>0, GenUp, GroupTypes DEF IncrDone, IncrWork
<1>1. LanesOK(ws)'
  BY <1>0, GenUp, <1>b, <1>w, <1>a, <1>c
  DEF IncrDone, LanesOK, SharedResumable, LanesResumable, Loaded
<1>2. ActiveTables(ws.active, ActiveGroup(ws))'
  BY <1>0, GenUp, <1>b, <1>w, <1>a, <1>c
  DEF IncrDone, ActiveTables, StagingTables, ActiveGroup, StagingGroup, Loaded, SlotOrZero
<1>3. StagingTables(ws.staging, StagingGroup(ws))'
  BY <1>0, GenUp, <1>b, <1>w, <1>a, <1>c
  DEF IncrDone, ActiveTables, StagingTables, ActiveGroup, StagingGroup, Loaded, SlotOrZero
<1>4. MemoryOK'
  BY <1>0, GenUp, <1>b, <1>w, <1>a, <1>c
  DEF IncrDone, MemoryOK, ActiveMemory, StagingMemory, FreshMemory, StagingFile,
      BootstrapPending, Starting, SlotOrZero
<1>5. BootWork' /\ SharedWork' /\ ActiveWork'
  BY <1>0, GenUp, <1>b, <1>w, <1>a, <1>c
  DEF IncrDone, BootWork, SharedWork, ActiveWork, Booting
<1>6. BuildWork' /\ IncrWork'
  BY <1>0, GenUp, <1>b, <1>w, <1>a, <1>c DEF IncrDone, BuildWork, IncrWork, NoBuild, NewBuild
<1>. QED
  BY <1>0, <1>w, <1>1, <1>2, <1>3, <1>4, <1>5, <1>6, GenFrom

(* The checkpoint names the group each lane means. *)
LEMMA GenBeginCutover ==
    ASSUME GenerationInv, StageInv', BeginCutover
    PROVE  GenerationInv'
<1>. USE DEF memory, disk
<1>0. pc # "down" /\ pc' # "down"
  BY DEF BeginCutover
<1>b. serving' = serving /\ Bak' = Bak
  BY DEF BeginCutover, Bak
<1>w. /\ ws' \in States /\ journal' = ws'
      /\ ws'.active = ws.active /\ ws'.staging = ws.staging
      /\ ws'.cutover \in Cutovers /\ ws'.cutover.active = serving
      /\ ws'.cutover.staging = Bak /\ ws'.shared = ws.shared
  BY <1>0, GenUp, BeginCutoverFields
<1>a. /\ ws.staging.phase = "cutover_pending" /\ ws.cutover = None /\ ws.shared = None
      /\ ws'.cutover # None /\ Bak = Other(serving)
  BY <1>0, <1>w, GenUp, RecordsAssumption DEF BeginCutover, CutoverDue, StateOK, Bak
<1>1. LanesOK(ws)'
  BY <1>0, GenUp, <1>b, <1>w, <1>a
  DEF BeginCutover, LanesOK, SharedResumable, LanesResumable, Loaded
<1>2. ActiveTables(ws.active, ActiveGroup(ws))'
  BY <1>0, GenUp, <1>b, <1>w, <1>a
  DEF BeginCutover, ActiveTables, StagingTables, ActiveGroup, StagingGroup, Loaded,
      SlotOrZero
<1>3. StagingTables(ws.staging, StagingGroup(ws))'
  BY <1>0, GenUp, <1>b, <1>w, <1>a
  DEF BeginCutover, ActiveTables, StagingTables, ActiveGroup, StagingGroup, Loaded,
      SlotOrZero
<1>4. MemoryOK'
  BY <1>0, GenUp, <1>b, <1>w, <1>a
  DEF BeginCutover, MemoryOK, ActiveMemory, StagingMemory, FreshMemory, StagingFile,
      BootstrapPending, Starting, SlotOrZero
<1>5. BootWork' /\ SharedWork' /\ ActiveWork'
  BY <1>0, GenUp, <1>b, <1>w, <1>a DEF BeginCutover, BootWork, SharedWork, ActiveWork, Booting
<1>6. BuildWork' /\ IncrWork'
  BY <1>0, GenUp, <1>b, <1>w, <1>a DEF BeginCutover, BuildWork, IncrWork, NoBuild, NewBuild
<1>. QED
  BY <1>0, <1>w, <1>1, <1>2, <1>3, <1>4, <1>5, <1>6, GenFrom

(* The groups change places; the lanes still mean those the checkpoint names. *)
LEMMA GenExchange ==
    ASSUME GenerationInv, StageInv', Exchange
    PROVE  GenerationInv'
<1>. USE DEF memory, disk
<1>0. pc # "down" /\ pc' # "down"
  BY DEF Exchange
<1>w. ws' = ws /\ journal' = ws'
  BY <1>0, GenUp DEF Exchange
<1>a. /\ ws.staging.phase = "cutover_pending" /\ ws.active.phase = "cutover_pending"
      /\ ws.cutover # None /\ incr = None
      /\ build.pc \notin {"start", "reset", "import", "sent", "settle", "ok"}
      /\ ws.staging.path # None
  BY <1>0, GenUp DEF Exchange, CutoverDue, StageInv, StageOK, LanesOK, LanesResumable, Loaded
<1>c. serving' = ws.cutover.staging
  BY DEF Exchange, Exchanged
<1>1. LanesOK(ws)'
  BY <1>0, <1>w, GenUp, LanesSame
<1>2. ActiveTables(ws.active, ActiveGroup(ws))'
  BY <1>0, GenUp, <1>w, <1>a, <1>c
  DEF Exchange, ActiveTables, StagingTables, ActiveGroup, StagingGroup, Loaded, SlotOrZero
<1>3. StagingTables(ws.staging, StagingGroup(ws))'
  BY <1>0, GenUp, <1>w, <1>a, <1>c
  DEF Exchange, ActiveTables, StagingTables, ActiveGroup, StagingGroup, Loaded, SlotOrZero
<1>4. MemoryOK'
  BY <1>0, GenUp, <1>w, <1>a, <1>c
  DEF Exchange, MemoryOK, ActiveMemory, StagingMemory, FreshMemory, StagingFile,
      BootstrapPending, Starting, SlotOrZero
<1>5. BootWork' /\ SharedWork' /\ ActiveWork'
  BY <1>0, GenUp, <1>w, <1>a, <1>c DEF Exchange, BootWork, SharedWork, ActiveWork, Booting
<1>6. BuildWork' /\ IncrWork'
  BY <1>0, GenUp, <1>w, <1>a, <1>c DEF Exchange, BuildWork, IncrWork, NoBuild, NewBuild
<1>. QED
  BY <1>0, <1>w, <1>1, <1>2, <1>3, <1>4, <1>5, <1>6, GenFrom

(* The lanes follow: active is the generation that was built. *)
LEMMA GenFinishCutover ==
    ASSUME GenerationInv, StageInv', FinishCutover
    PROVE  GenerationInv'
<1>. USE DEF memory, disk
<1>0. pc # "down" /\ pc' # "down"
  BY DEF FinishCutover
<1>b. serving' = serving /\ Bak' = Bak
  BY DEF FinishCutover, Bak
<1>w. /\ ws' \in States /\ journal' = ws'
      /\ ws'.active.phase = "ready" /\ ws'.active.full = ws.staging.full
      /\ ws'.active.max = ws.staging.max /\ ws'.active.path = ws.staging.path
      /\ ws'.staging.phase = "disabled" /\ ws'.staging.full = ws.active.full
      /\ ws'.staging.max = ws.active.max /\ ws'.staging.path = None
      /\ ws'.cutover = None /\ ws'.shared = None
  BY <1>0, GenUp, FinishCutoverFields
<1>a. /\ ws.staging.phase = "cutover_pending" /\ ws.active.phase = "cutover_pending"
      /\ ws.cutover # None /\ incr = None
      /\ build.pc \notin {"start", "reset", "import", "sent", "settle", "ok"}
      /\ ws.staging.path # None /\ ws.staging.max # None
  BY <1>0, GenUp
  DEF FinishCutover, StageInv, StageOK, StateOK, LanesOK, LanesResumable, Loaded
<1>c. ws.cutover.staging = serving /\ ws.cutover.active = Bak
  <2>1. /\ ws.cutover \in Cutovers /\ ws.cutover.staging = Other(ws.cutover.active)
        /\ serving = ws.cutover.staging
    BY <1>0, <1>a, GenUp, StateFields DEF FinishCutover, LanesOK, ActiveMemory, Starting
  <2>. QED
    BY <2>1 DEF Cutovers, Groups, Other, Bak
<1>f. /\ ws'.active.path # None => files'[ws'.active.path] = files[ws'.active.path]
      /\ ws'.staging.phase # "disabled" /\ ws'.staging.path # None
            => files'[ws'.staging.path] = files[ws'.staging.path]
  BY <1>0, <1>w, <1>a, GenUp, CleanStable DEF FinishCutover
<1>1. LanesOK(ws)'
  BY <1>0, GenUp, <1>b, <1>w, <1>a, <1>c, <1>f
  DEF FinishCutover, LanesOK, SharedResumable, LanesResumable, Loaded
<1>2. ActiveTables(ws.active, ActiveGroup(ws))'
  BY <1>0, GenUp, <1>b, <1>w, <1>a, <1>c, <1>f
  DEF FinishCutover, ActiveTables, StagingTables, ActiveGroup, StagingGroup, Loaded,
      SlotOrZero
<1>3. StagingTables(ws.staging, StagingGroup(ws))'
  BY <1>0, GenUp, <1>b, <1>w, <1>a, <1>c, <1>f
  DEF FinishCutover, ActiveTables, StagingTables, ActiveGroup, StagingGroup, Loaded,
      SlotOrZero
<1>4. MemoryOK'
  BY <1>0, GenUp, <1>b, <1>w, <1>a, <1>c, <1>f
  DEF FinishCutover, MemoryOK, ActiveMemory, StagingMemory, FreshMemory, StagingFile,
      BootstrapPending, Starting, SlotOrZero
<1>5. BootWork' /\ SharedWork' /\ ActiveWork'
  BY <1>0, GenUp, <1>b, <1>w, <1>a, <1>c, <1>f
  DEF FinishCutover, BootWork, SharedWork, ActiveWork, Booting
<1>6. BuildWork' /\ IncrWork'
  BY <1>0, GenUp, <1>b, <1>w, <1>a, <1>c, <1>f
  DEF FinishCutover, BuildWork, IncrWork, NoBuild, NewBuild
<1>. QED
  BY <1>0, <1>w, <1>1, <1>2, <1>3, <1>4, <1>5, <1>6, GenFrom

(* _bak is truncated before every attempt of a shared import. *)
LEMMA GenSharedReset ==
    ASSUME GenerationInv, StageInv', SharedReset
    PROVE  GenerationInv'
<1>. USE DEF memory, disk
<1>0. pc # "down" /\ pc' # "down"
  BY DEF SharedReset, SharedDue
<1>b. serving' = serving /\ Bak' = Bak
  BY DEF SharedReset, SharedDue, Bak
<1>w. ws' = ws /\ journal' = ws'
  BY <1>0, GenUp DEF SharedReset, SharedDue
<1>a. /\ ws.staging.phase = "full_loading" /\ ws.active.phase = "incremental_loading"
      /\ ws.cutover = None /\ ws.shared # None /\ incr = None
      /\ build.pc \notin {"start", "reset", "import", "sent", "acked", "settle", "ok"}
      /\ ws.staging.max = None /\ ws.active.max = ws.shared.resume
      /\ ws.staging.full = ws.shared.full /\ ws.staging.path # None
  BY <1>0, GenUp
  DEF SharedReset, SharedDue, StageInv, StageOK, StateOK, LanesOK, SharedResumable
<1>t. /\ tables'[Bak].upto = 0 /\ tables'[serving] = tables[serving]
      /\ serving \in merges => serving \in merges'
  BY <1>0, GenUp, ResetGroupEffect, GroupTypes DEF SharedReset
<1>1. LanesOK(ws)'
  BY <1>0, <1>w, GenUp, LanesSame
<1>2. ActiveTables(ws.active, ActiveGroup(ws))'
  BY <1>0, GenUp, <1>b, <1>w, <1>a, <1>t
  DEF SharedReset, SharedDue, ActiveTables, StagingTables, ActiveGroup, StagingGroup,
      Loaded, SlotOrZero
<1>3. StagingTables(ws.staging, StagingGroup(ws))'
  BY <1>0, GenUp, <1>b, <1>w, <1>a, <1>t
  DEF SharedReset, SharedDue, ActiveTables, StagingTables, ActiveGroup, StagingGroup,
      Loaded, SlotOrZero
<1>4. MemoryOK'
  BY <1>0, GenUp, <1>b, <1>w, <1>a, <1>t
  DEF SharedReset, SharedDue, MemoryOK, ActiveMemory, StagingMemory, FreshMemory,
      StagingFile, BootstrapPending, Starting, SlotOrZero
<1>5. BootWork' /\ SharedWork' /\ ActiveWork'
  BY <1>0, GenUp, <1>b, <1>w, <1>a, <1>t
  DEF SharedReset, SharedDue, BootWork, SharedWork, ActiveWork, Booting
<1>6. BuildWork' /\ IncrWork'
  BY <1>0, GenUp, <1>b, <1>w, <1>a, <1>t
  DEF SharedReset, SharedDue, BuildWork, IncrWork, NoBuild, NewBuild
<1>. QED
  BY <1>0, <1>w, <1>1, <1>2, <1>3, <1>4, <1>5, <1>6, GenFrom

(* Or only in part. *)
LEMMA GenSharedResetFails ==
    ASSUME GenerationInv, StageInv', SharedResetFails
    PROVE  GenerationInv'
<1>. USE DEF memory, disk
<1>0. pc # "down" /\ pc' # "down"
  BY DEF SharedResetFails, SharedDue
<1>b. serving' = serving /\ Bak' = Bak
  BY DEF SharedResetFails, SharedDue, Bak
<1>w. ws' = ws /\ journal' = ws'
  BY <1>0, GenUp DEF SharedResetFails, SharedDue
<1>a. /\ ws.staging.phase = "full_loading" /\ ws.active.phase = "incremental_loading"
      /\ ws.cutover = None /\ ws.shared # None /\ incr = None
      /\ build.pc \notin {"start", "reset", "import", "sent", "acked", "settle", "ok"}
      /\ ws.staging.max = None /\ ws.active.max = ws.shared.resume
      /\ ws.staging.full = ws.shared.full /\ ws.staging.path # None
  BY <1>0, GenUp
  DEF SharedResetFails, SharedDue, StageInv, StageOK, StateOK, LanesOK, SharedResumable
<1>t. /\ tables'[Bak].upto \in Nat /\ tables'[serving] = tables[serving]
      /\ serving \in merges => serving \in merges'
  BY <1>0, GenUp, TryResetGroup, GroupTypes DEF SharedResetFails, ResetFailedStaging, Contents
<1>1. LanesOK(ws)'
  BY <1>0, <1>w, GenUp, LanesSame
<1>2. ActiveTables(ws.active, ActiveGroup(ws))'
  BY <1>0, GenUp, <1>b, <1>w, <1>a, <1>t
  DEF SharedResetFails, SharedDue, ActiveTables, StagingTables, ActiveGroup, StagingGroup,
      Loaded, SlotOrZero
<1>3. StagingTables(ws.staging, StagingGroup(ws))'
  BY <1>0, GenUp, <1>b, <1>w, <1>a, <1>t
  DEF SharedResetFails, SharedDue, ActiveTables, StagingTables, ActiveGroup, StagingGroup,
      Loaded, SlotOrZero
<1>4. MemoryOK'
  BY <1>0, GenUp, <1>b, <1>w, <1>a, <1>t
  DEF SharedResetFails, SharedDue, MemoryOK, ActiveMemory, StagingMemory, FreshMemory,
      StagingFile, BootstrapPending, Starting, SlotOrZero
<1>5. BootWork' /\ SharedWork' /\ ActiveWork'
  BY <1>0, GenUp, <1>b, <1>w, <1>a, <1>t
  DEF SharedResetFails, SharedDue, BootWork, SharedWork, ActiveWork, Booting
<1>6. BuildWork' /\ IncrWork'
  BY <1>0, GenUp, <1>b, <1>w, <1>a, <1>t
  DEF SharedResetFails, SharedDue, BuildWork, IncrWork, NoBuild, NewBuild
<1>. QED
  BY <1>0, <1>w, <1>1, <1>2, <1>3, <1>4, <1>5, <1>6, GenFrom

(* One archive feeds both groups, each with its own mint set. *)
LEMMA GenFanoutBegin ==
    ASSUME GenerationInv, StageInv', NEW dir \in SUBSET Archives, FanoutBegin(dir)
    PROVE  GenerationInv'
<1>. USE DEF memory, disk
<1>0. pc # "down" /\ pc' # "down"
  BY DEF FanoutBegin
<1>b. serving' = serving /\ Bak' = Bak
  BY DEF FanoutBegin, Bak
<1>w. ws' = ws /\ journal' = ws'
  BY <1>0, GenUp DEF FanoutBegin
<1>a. /\ ws.staging.phase = "full_loading" /\ ws.active.phase = "incremental_loading"
      /\ ws.cutover = None /\ ws.shared # None /\ incr = None
      /\ build.pc \notin {"start", "reset", "import", "sent", "acked", "settle", "ok"}
      /\ ws.staging.max = None /\ ws.active.max = ws.shared.resume
      /\ ws.staging.full = ws.shared.full /\ ws.staging.path # None
  BY <1>0, GenUp DEF FanoutBegin, StageInv, StageOK, StateOK, LanesOK, SharedResumable
<1>c. PICK a \in Archives :
         /\ a.kind = "full" /\ a.slot = ws.shared.full /\ job' = a
         /\ tables' = [tables EXCEPT ![Bak] = BeginFull(@, a.slot, stagingMints),
                                     ![serving] = BeginTail(@, a, activeMints)]
  BY DEF FanoutBegin, Recorded
<1>d. tables[Bak] = Truncated /\ tables[serving] \in Contents
  BY <1>0, GenUp, GroupTypes DEF FanoutBegin, StageInv, EmptyOK
<1>e. /\ tables[serving].mints \subseteq {activeMints}
      /\ activeMints = files[ws.active.path] /\ ws.active.path # None
  BY <1>0, <1>a, GenUp
  DEF FanoutBegin, ActiveMemory, Starting, BootstrapPending, ActiveTables, ActiveGroup,
      Loaded
<1>t. /\ FullUnderway(tables'[Bak], a.slot, stagingMints) /\ tables'[Bak].upto = 0
      /\ tables'[serving].upto = tables[serving].upto
      /\ tables'[serving].gen = tables[serving].gen
      /\ tables'[serving].base = tables[serving].base
      /\ tables'[serving].mints = tables[serving].mints \cup {activeMints}
  <2>1. /\ tables'[Bak] = BeginFull(Truncated, a.slot, stagingMints)
        /\ tables'[serving] = BeginTail(tables[serving], a, activeMints)
    <3>. DEFINE c == BeginFull(Truncated, a.slot, stagingMints)
                e == BeginTail(tables[serving], a, activeMints)
    <3>1. tables' = [tables EXCEPT ![Bak] = c, ![serving] = e]
      BY <1>c, <1>d
    <3>. HIDE DEF c, e
    <3>2. tables'[Bak] = c /\ tables'[serving] = e
      BY <1>0, <3>1, GenUp, BothWrite
    <3>. QED
      BY <3>2 DEF c, e
  <2>. QED
    BY <1>d, <2>1, BeginFullEdit, BeginTailEdit
<1>1. LanesOK(ws)'
  BY <1>0, <1>w, GenUp, LanesSame
<1>2. ActiveTables(ws.active, ActiveGroup(ws))'
  <2>1. ActiveTables(ws.active, serving) /\ merges' = merges /\ files' = files
    BY <1>0, <1>a, GenUp DEF FanoutBegin, ActiveGroup
  <2>2. ActiveTables(ws.active, serving)'
    BY <1>b, <1>w, <1>a, <1>e, <1>t, <2>1 DEF ActiveTables, Loaded, SlotOrZero
  <2>. QED
    BY <1>w, <1>a, <2>2 DEF ActiveGroup, ActiveTables
<1>3. StagingTables(ws.staging, StagingGroup(ws))'
  BY <1>0, GenUp, <1>b, <1>w, <1>a, <1>c, <1>d, <1>e, <1>t
  DEF FanoutBegin, ActiveTables, StagingTables, ActiveGroup, StagingGroup, Loaded,
      SlotOrZero
<1>4. MemoryOK'
  BY <1>0, GenUp, <1>b, <1>w, <1>a, <1>c, <1>d, <1>e, <1>t
  DEF FanoutBegin, MemoryOK, ActiveMemory, StagingMemory, FreshMemory, StagingFile,
      BootstrapPending, Starting, SlotOrZero
<1>5. BootWork' /\ SharedWork' /\ ActiveWork'
  BY <1>0, GenUp, <1>b, <1>w, <1>a, <1>c, <1>d, <1>e, <1>t
  DEF FanoutBegin, BootWork, SharedWork, ActiveWork, Booting
<1>6. BuildWork' /\ IncrWork'
  BY <1>0, GenUp, <1>b, <1>w, <1>a, <1>c, <1>d, <1>e, <1>t
  DEF FanoutBegin, BuildWork, IncrWork, NoBuild, NewBuild
<1>. QED
  BY <1>0, <1>w, <1>1, <1>2, <1>3, <1>4, <1>5, <1>6, GenFrom

(* A failed shared import has changed no claim. *)
LEMMA GenFanoutFails ==
    ASSUME GenerationInv, StageInv', FanoutFails
    PROVE  GenerationInv'
<1>. USE DEF memory, disk
<1>0. pc # "down" /\ pc' # "down"
  BY DEF FanoutFails
<1>b. serving' = serving /\ Bak' = Bak
  BY DEF FanoutFails, Bak
<1>w. ws' = ws /\ journal' = ws'
  BY <1>0, GenUp DEF FanoutFails
<1>a. /\ ws.staging.phase = "full_loading" /\ ws.active.phase = "incremental_loading"
      /\ ws.cutover = None /\ ws.shared # None /\ incr = None
      /\ build.pc \notin {"start", "reset", "import", "sent", "acked", "settle", "ok"}
      /\ ws.staging.max = None /\ ws.active.max = ws.shared.resume
      /\ ws.staging.full = ws.shared.full /\ ws.staging.path # None
  BY <1>0, GenUp DEF FanoutFails, StageInv, StageOK, StateOK, LanesOK, SharedResumable
<1>t. /\ tables'[Bak].upto \in Nat /\ tables'[serving] = tables[serving]
      /\ serving \in merges => serving \in merges'
  BY <1>0, GenUp, TryResetGroup, GroupTypes DEF FanoutFails, ResetFailedStaging, Contents
<1>1. LanesOK(ws)'
  BY <1>0, <1>w, GenUp, LanesSame
<1>2. ActiveTables(ws.active, ActiveGroup(ws))'
  BY <1>0, GenUp, <1>b, <1>w, <1>a, <1>t
  DEF FanoutFails, ActiveTables, StagingTables, ActiveGroup, StagingGroup, Loaded,
      SlotOrZero
<1>3. StagingTables(ws.staging, StagingGroup(ws))'
  BY <1>0, GenUp, <1>b, <1>w, <1>a, <1>t
  DEF FanoutFails, ActiveTables, StagingTables, ActiveGroup, StagingGroup, Loaded,
      SlotOrZero
<1>4. MemoryOK'
  BY <1>0, GenUp, <1>b, <1>w, <1>a, <1>t
  DEF FanoutFails, MemoryOK, ActiveMemory, StagingMemory, FreshMemory, StagingFile,
      BootstrapPending, Starting, SlotOrZero
<1>5. BootWork' /\ SharedWork' /\ ActiveWork'
  BY <1>0, GenUp, <1>b, <1>w, <1>a, <1>t
  DEF FanoutFails, BootWork, SharedWork, ActiveWork, Booting
<1>6. BuildWork' /\ IncrWork'
  BY <1>0, GenUp, <1>b, <1>w, <1>a, <1>t
  DEF FanoutFails, BuildWork, IncrWork, NoBuild, NewBuild
<1>. QED
  BY <1>0, <1>w, <1>1, <1>2, <1>3, <1>4, <1>5, <1>6, GenFrom

(* Both groups are committed. *)
LEMMA GenFanoutImported ==
    ASSUME GenerationInv, StageInv', FanoutImported
    PROVE  GenerationInv'
<1>. USE DEF memory, disk
<1>0. pc # "down" /\ pc' # "down"
  BY DEF FanoutImported
<1>b. serving' = serving /\ Bak' = Bak
  BY DEF FanoutImported, Bak
<1>w. ws' = ws /\ journal' = ws'
  BY <1>0, GenUp DEF FanoutImported
<1>a. /\ ws.staging.phase = "full_loading" /\ ws.active.phase = "incremental_loading"
      /\ ws.cutover = None /\ ws.shared # None /\ incr = None
      /\ build.pc \notin {"start", "reset", "import", "sent", "acked", "settle", "ok"}
      /\ ws.staging.max = None /\ ws.active.max = ws.shared.resume
      /\ ws.staging.full = ws.shared.full /\ ws.staging.path # None
  BY <1>0, GenUp DEF FanoutImported, StageInv, StageOK, StateOK, LanesOK, SharedResumable
<1>c. /\ job \in Archives /\ job.kind = "full" /\ job.slot = ws.shared.full
      /\ job.slot \in Nat
      /\ FullUnderway(tables[Bak], job.slot, stagingMints)
      /\ tables[serving] \in Contents /\ tables[Bak] \in Contents
      /\ tables[serving].upto \in Nat
  BY <1>0, GenUp, GroupTypes, SlotTypes DEF FanoutImported, SharedWork, Inv, TypeOK, ControlOK
<1>d. ws.shared.resume \in Nat /\ ws.shared.resume <= tables[serving].upto
  BY <1>0, <1>a, GenUp, StateFields, NoneAssumption
  DEF SharedLoads, ActiveTables, ActiveGroup, SlotOrZero
<1>t. /\ FullThere(tables'[Bak], job.slot, stagingMints) /\ tables'[Bak].upto = job.slot
      /\ tables'[serving].upto >= tables[serving].upto /\ tables'[serving].upto \in Nat
      /\ tables'[serving].upto >= job.slot
      /\ tables'[serving].gen = tables[serving].gen
      /\ tables'[serving].base = tables[serving].base
      /\ tables'[serving].mints = tables[serving].mints
  <2>1. /\ tables'[Bak] = EndFull(tables[Bak], job.slot)
        /\ tables'[serving] = EndTail(tables[serving], job, ws.shared.resume)
    <3>. DEFINE c == EndFull(tables[Bak], job.slot)
                e == EndTail(tables[serving], job, ws.shared.resume)
    <3>1. tables' = [tables EXCEPT ![Bak] = c, ![serving] = e]
      BY DEF FanoutImported
    <3>. HIDE DEF c, e
    <3>2. tables'[Bak] = c /\ tables'[serving] = e
      BY <1>0, <3>1, GenUp, BothWrite
    <3>. QED
      BY <3>2 DEF c, e
  <2>2. FullThere(tables'[Bak], job.slot, stagingMints)
    BY <1>c, <2>1, EndFullEdit
  <2>. QED
    BY <1>c, <1>d, <2>1, <2>2, EndTailEdit DEF FullThere
<1>1. LanesOK(ws)'
  BY <1>0, <1>w, GenUp, LanesSame
<1>2. ActiveTables(ws.active, ActiveGroup(ws))'
  <2>1. ActiveGroup(ws) = serving /\ (ActiveGroup(ws))' = serving
    BY <1>a, <1>b, <1>w DEF ActiveGroup
  <2>2. SlotOrZero(ws.active.max) <= tables'[serving].upto
    BY <1>a, <1>c, <1>d, <1>t, NoneAssumption DEF SlotOrZero
  <2>3. /\ (SlotOrZero(ws.active.max))' = SlotOrZero(ws.active.max) /\ files' = files
        /\ merges' = merges
    BY <1>w DEF SlotOrZero, FanoutImported
  <2>. QED
    BY <1>0, <1>w, <1>t, <2>1, <2>2, <2>3, GenUp DEF ActiveTables
<1>3. StagingTables(ws.staging, StagingGroup(ws))'
  BY <1>0, GenUp, <1>b, <1>w, <1>a, <1>c, <1>d, <1>t
  DEF FanoutImported, ActiveTables, StagingTables, ActiveGroup, StagingGroup, Loaded,
      SlotOrZero
<1>4. MemoryOK'
  BY <1>0, GenUp, <1>b, <1>w, <1>a, <1>c, <1>d, <1>t
  DEF FanoutImported, MemoryOK, ActiveMemory, StagingMemory, FreshMemory, StagingFile,
      BootstrapPending, Starting, SlotOrZero
<1>5. BootWork' /\ SharedWork' /\ ActiveWork'
  BY <1>0, GenUp, <1>b, <1>w, <1>a, <1>c, <1>d, <1>t
  DEF FanoutImported, BootWork, SharedWork, ActiveWork, Booting
<1>6. BuildWork' /\ IncrWork'
  BY <1>0, GenUp, <1>b, <1>w, <1>a, <1>c, <1>d, <1>t
  DEF FanoutImported, BuildWork, IncrWork, NoBuild, NewBuild
<1>. QED
  BY <1>0, <1>w, <1>1, <1>2, <1>3, <1>4, <1>5, <1>6, GenFrom

(* Both lanes claim the shared archive. *)
LEMMA GenSharedCommit ==
    ASSUME GenerationInv, StageInv', SharedCommit
    PROVE  GenerationInv'
<1>. USE DEF memory, disk
<1>0. pc # "down" /\ pc' # "down"
  BY DEF SharedCommit
<1>b. serving' = serving /\ Bak' = Bak
  BY DEF SharedCommit, Bak
<1>w. /\ ws' \in States /\ journal' = ws'
      /\ ws'.active.phase = "ready" /\ ws'.active.full = ws.active.full
      /\ ws'.active.max = job.slot /\ ws'.active.path = ws.active.path
      /\ ws'.staging.phase = "full_merging" /\ ws'.staging.full = ws.staging.full
      /\ ws'.staging.max = job.slot /\ ws'.staging.path = ws.staging.path
      /\ ws'.cutover = ws.cutover /\ ws'.shared = None
  BY <1>0, GenUp, SharedCommitFields
<1>a. /\ ws.staging.phase = "full_loading" /\ ws.active.phase = "incremental_loading"
      /\ ws.cutover = None /\ ws.shared # None /\ incr = None
      /\ build.pc \notin {"start", "reset", "import", "sent", "acked", "settle", "ok"}
      /\ ws.staging.max = None /\ ws.active.max = ws.shared.resume
      /\ ws.staging.full = ws.shared.full /\ ws.staging.path # None
  BY <1>0, GenUp DEF SharedCommit, StageInv, StageOK, StateOK, LanesOK, SharedResumable
<1>c. /\ job \in Archives /\ job.slot = ws.shared.full /\ job.slot \in Nat /\ job.slot # None
      /\ FullThere(tables[Bak], job.slot, stagingMints)
      /\ tables[serving].upto >= job.slot /\ tables[serving].upto \in Nat
      /\ stagingMints = files[ws.staging.path]
  BY <1>0, <1>a, GenUp, GroupTypes, SlotTypes, NoneAssumption
  DEF SharedCommit, SharedWork, Inv, TypeOK, ControlOK, StagingMemory, StagingFile, Starting
<1>1. LanesOK(ws)'
  BY <1>0, GenUp, <1>b, <1>w, <1>a, <1>c
  DEF SharedCommit, LanesOK, SharedResumable, LanesResumable, Loaded
<1>2. ActiveTables(ws.active, ActiveGroup(ws))'
  BY <1>0, GenUp, <1>b, <1>w, <1>a, <1>c
  DEF SharedCommit, ActiveTables, StagingTables, ActiveGroup, StagingGroup, Loaded,
      SlotOrZero
<1>3. StagingTables(ws.staging, StagingGroup(ws))'
  BY <1>0, GenUp, <1>b, <1>w, <1>a, <1>c
  DEF SharedCommit, ActiveTables, StagingTables, ActiveGroup, StagingGroup, Loaded,
      SlotOrZero, FullThere
<1>4. MemoryOK'
  BY <1>0, GenUp, <1>b, <1>w, <1>a, <1>c
  DEF SharedCommit, MemoryOK, ActiveMemory, StagingMemory, FreshMemory, StagingFile,
      BootstrapPending, Starting, SlotOrZero
<1>5. BootWork' /\ SharedWork' /\ ActiveWork'
  BY <1>0, GenUp, <1>b, <1>w, <1>a, <1>c
  DEF SharedCommit, BootWork, SharedWork, ActiveWork, Booting
<1>6. BuildWork' /\ IncrWork'
  BY <1>0, GenUp, <1>b, <1>w, <1>a, <1>c
  DEF SharedCommit, BuildWork, IncrWork, NoBuild, NewBuild
<1>. QED
  BY <1>0, <1>w, <1>1, <1>2, <1>3, <1>4, <1>5, <1>6, GenFrom

(* Active is ready once its merges run. *)
LEMMA GenActiveMergeWait ==
    ASSUME GenerationInv, StageInv', ActiveMergeWait
    PROVE  GenerationInv'
<1>. USE DEF memory, disk
<1>0. pc # "down" /\ pc' # "down"
  BY DEF ActiveMergeWait, Round, MergesStarted
<1>b. serving' = serving /\ Bak' = Bak
  BY DEF ActiveMergeWait, Round, MergesStarted, Bak
<1>w. /\ ws' \in States /\ journal' = ws'
      /\ ws'.active.phase = "ready" /\ ws'.active.full = ws.active.full
      /\ ws'.active.max = ws.active.max /\ ws'.active.path = ws.active.path
      /\ ws'.staging = ws.staging
      /\ ws'.cutover = ws.cutover /\ ws'.shared = ws.shared
  BY <1>0, GenUp, ActiveMergeWaitFields
<1>a. ws.active.phase = "full_merging" /\ ws.staging.phase = "disabled" /\ ws.cutover = None
  BY <1>0, GenUp DEF ActiveMergeWait, StateOK, LanesOK
<1>1. LanesOK(ws)'
  BY <1>0, GenUp, <1>b, <1>w, <1>a
  DEF ActiveMergeWait, Round, MergesStarted, LanesOK, SharedResumable, LanesResumable,
      Loaded
<1>2. ActiveTables(ws.active, ActiveGroup(ws))'
  BY <1>0, GenUp, <1>b, <1>w, <1>a
  DEF ActiveMergeWait, Round, MergesStarted, ActiveTables, StagingTables, ActiveGroup,
      StagingGroup, Loaded, SlotOrZero
<1>3. StagingTables(ws.staging, StagingGroup(ws))'
  BY <1>0, GenUp, <1>b, <1>w, <1>a
  DEF ActiveMergeWait, Round, MergesStarted, ActiveTables, StagingTables, ActiveGroup,
      StagingGroup, Loaded, SlotOrZero
<1>4. MemoryOK'
  BY <1>0, GenUp, <1>b, <1>w, <1>a
  DEF ActiveMergeWait, Round, MergesStarted, MemoryOK, ActiveMemory, StagingMemory,
      FreshMemory, StagingFile, BootstrapPending, Starting, SlotOrZero
<1>5. BootWork' /\ SharedWork' /\ ActiveWork'
  BY <1>0, GenUp, <1>b, <1>w, <1>a
  DEF ActiveMergeWait, Round, MergesStarted, BootWork, SharedWork, ActiveWork, Booting
<1>6. BuildWork' /\ IncrWork'
  BY <1>0, GenUp, <1>b, <1>w, <1>a
  DEF ActiveMergeWait, Round, MergesStarted, BuildWork, IncrWork, NoBuild, NewBuild
<1>. QED
  BY <1>0, <1>w, <1>1, <1>2, <1>3, <1>4, <1>5, <1>6, GenFrom

(* process_bootstrap_full: active's claims are taken back before its tables are. *)
LEMMA BootstrapFullGen ==
    ASSUME GenerationInv, StageInv', pc # "down", ws.shared = None,
           NEW a \in Archives, a.kind = "full", BootstrapFull(a),
           tables[serving].gen \in {None, a.slot}, ws.active.max = None, pc = "loop"
    PROVE  GenerationInv'
<1>. USE DEF memory, disk
<1>0. pc' # "down" /\ serving' = serving /\ Bak' = Bak
  BY DEF BootstrapFull, Bak
<1>w. /\ ws' \in States /\ journal' = ws'
      /\ ws'.active.phase = "full_loading" /\ ws'.active.full = a.slot
      /\ ws'.active.max = None /\ ws'.active.path = None
      /\ ws'.staging.phase = "disabled" /\ ws'.staging.full = None
      /\ ws'.staging.max = None /\ ws'.staging.path = None
      /\ ws'.cutover = None /\ ws'.shared = None
      /\ job' = a /\ a \in Archives /\ pc' = "boot_start"
      /\ UNCHANGED <<memory, fresh, build, incr, disk>>
  BY GenUp, BootstrapFullFields DEF BootstrapFull
<1>a. /\ build'.pc = "none" \/ build'.pc = "err" \/ build'.pc = "acked"
      /\ incr' = None /\ a.slot # None /\ tables[serving].upto \in Nat
      /\ tables[Bak].upto \in Nat
  BY <1>0, <1>w, GenUp, GroupTypes, SlotTypes, NoneAssumption
  DEF StageInv, StageOK, Inv, TypeOK, Builds, BuildSteps
<1>1. LanesOK(ws)'
  BY <1>w, <1>a DEF LanesOK, SharedResumable, LanesResumable, Loaded
<1>2. ActiveTables(ws.active, ActiveGroup(ws))'
  BY <1>0, <1>w, <1>a DEF ActiveTables, ActiveGroup, SlotOrZero, Loaded
<1>3. StagingTables(ws.staging, StagingGroup(ws))'
  BY <1>0, <1>w, <1>a DEF StagingTables, StagingGroup, SlotOrZero, Loaded
<1>4. MemoryOK'
  BY <1>0, <1>w, GenUp
  DEF MemoryOK, ActiveMemory, StagingMemory, FreshMemory, StagingFile, BootstrapPending,
      Starting, SlotOrZero
<1>5. BootWork' /\ SharedWork' /\ ActiveWork'
  BY <1>w DEF BootWork, SharedWork, ActiveWork, Booting
<1>6. BuildWork' /\ IncrWork'
  BY <1>a DEF BuildWork, IncrWork
<1>. QED
  BY <1>0, <1>w, <1>1, <1>2, <1>3, <1>4, <1>5, <1>6, GenFrom

(* An interrupted bootstrap starts over with the archive it recorded. *)
LEMMA GenResumeBootstrap ==
    ASSUME GenerationInv, StageInv', NEW dir \in SUBSET Archives, ResumeBootstrap(dir)
    PROVE  GenerationInv'
<1>1. pc = "loop" /\ ws.shared = None /\ ws.active.phase = "full_loading"
  BY DEF ResumeBootstrap, Round
<1>2. PICK a \in Archives : a.kind = "full" /\ BootstrapFull(a) /\ a.slot = ws.active.full
  BY <1>1 DEF ResumeBootstrap, Round, Furthest, NewerFulls, Recorded
<1>3. /\ ws.active.max = None /\ ws.cutover = None
      /\ ws.active.phase = "waiting_for_full" => ws.active.full = None
  BY <1>1, GenUp DEF LanesOK, StateOK
<1>4. tables[serving].gen \in {None, a.slot}
  BY <1>1, <1>2, <1>3, GenUp DEF ActiveTables, ActiveGroup
<1>. QED
  BY <1>1, <1>2, <1>3, <1>4, BootstrapFullGen

(* A first bootstrap has no generation to lose. *)
LEMMA GenFirstBootstrap ==
    ASSUME GenerationInv, StageInv', NEW dir \in SUBSET Archives, FirstBootstrap(dir)
    PROVE  GenerationInv'
<1>1. pc = "loop" /\ ws.shared = None /\ ws.active.phase = "waiting_for_full"
  BY DEF FirstBootstrap, DispatchRound, StagingRound, Round
<1>2. PICK a \in Archives : a.kind = "full" /\ BootstrapFull(a)
  BY <1>1
  DEF FirstBootstrap, DispatchRound, StagingRound, Round, Furthest, NewerFulls, Recorded
<1>3. /\ ws.active.max = None /\ ws.cutover = None
      /\ ws.active.phase = "waiting_for_full" => ws.active.full = None
  BY <1>1, GenUp DEF LanesOK, StateOK
<1>4. tables[serving].gen \in {None, a.slot}
  BY <1>1, <1>2, <1>3, GenUp DEF ActiveTables, ActiveGroup
<1>. QED
  BY <1>1, <1>2, <1>3, <1>4, BootstrapFullGen

(* The served group is truncated. *)
LEMMA GenBootstrapReset ==
    ASSUME GenerationInv, StageInv', BootstrapReset
    PROVE  GenerationInv'
<1>. USE DEF memory, disk
<1>0. pc # "down" /\ pc' # "down"
  BY DEF BootstrapReset
<1>b. serving' = serving /\ Bak' = Bak
  BY DEF BootstrapReset, Bak
<1>w. ws' = ws /\ journal' = ws'
  BY <1>0, GenUp DEF BootstrapReset
<1>a. /\ ws.active.phase = "full_loading" /\ ws.staging.phase = "disabled"
      /\ ws.cutover = None /\ ws.shared = None
      /\ incr = None
      /\ build.pc \notin {"start", "reset", "import", "sent", "acked", "settle", "ok"}
      /\ ws.active.max = None /\ job.slot = ws.active.full /\ job.slot \in Nat
      /\ job.slot # None
  BY <1>0, GenUp, SlotTypes, NoneAssumption
  DEF BootstrapReset, StageInv, StageOK, StateOK, LanesOK, BootWork, Booting, Inv, TypeOK,
      ControlOK
<1>t. tables'[serving].upto = 0 /\ tables'[serving].gen = None /\ tables'[Bak] = tables[Bak]
  BY <1>0, GenUp, ResetGroupEffect, GroupTypes DEF BootstrapReset
<1>1. LanesOK(ws)'
  BY <1>0, <1>w, GenUp, LanesSame
<1>2. ActiveTables(ws.active, ActiveGroup(ws))'
  BY <1>0, GenUp, <1>b, <1>w, <1>a, <1>t
  DEF BootstrapReset, ActiveTables, StagingTables, ActiveGroup, StagingGroup, Loaded,
      SlotOrZero
<1>3. StagingTables(ws.staging, StagingGroup(ws))'
  BY <1>0, GenUp, <1>b, <1>w, <1>a, <1>t
  DEF BootstrapReset, ActiveTables, StagingTables, ActiveGroup, StagingGroup, Loaded,
      SlotOrZero
<1>4. MemoryOK'
  BY <1>0, GenUp, <1>b, <1>w, <1>a, <1>t
  DEF BootstrapReset, MemoryOK, ActiveMemory, StagingMemory, FreshMemory, StagingFile,
      BootstrapPending, Starting, SlotOrZero
<1>5. BootWork' /\ SharedWork' /\ ActiveWork'
  BY <1>0, GenUp, <1>b, <1>w, <1>a, <1>t
  DEF BootstrapReset, BootWork, SharedWork, ActiveWork, Booting
<1>6. BuildWork' /\ IncrWork'
  BY <1>0, GenUp, <1>b, <1>w, <1>a, <1>t
  DEF BootstrapReset, BuildWork, IncrWork, NoBuild, NewBuild
<1>. QED
  BY <1>0, <1>w, <1>1, <1>2, <1>3, <1>4, <1>5, <1>6, GenFrom

(* Its full import begins on the empty tables. *)
LEMMA GenBootstrapImport ==
    ASSUME GenerationInv, StageInv', BootstrapImport
    PROVE  GenerationInv'
<1>. USE DEF memory, disk
<1>0. pc # "down" /\ pc' # "down"
  BY DEF BootstrapImport
<1>b. serving' = serving /\ Bak' = Bak
  BY DEF BootstrapImport, Bak
<1>w. ws' = ws /\ journal' = ws'
  BY <1>0, GenUp DEF BootstrapImport
<1>a. /\ ws.active.phase = "full_loading" /\ ws.staging.phase = "disabled"
      /\ ws.cutover = None /\ ws.shared = None
      /\ incr = None
      /\ build.pc \notin {"start", "reset", "import", "sent", "acked", "settle", "ok"}
      /\ ws.active.max = None /\ job.slot = ws.active.full /\ job.slot \in Nat
      /\ job.slot # None
  BY <1>0, GenUp, SlotTypes, NoneAssumption
  DEF BootstrapImport, StageInv, StageOK, StateOK, LanesOK, BootWork, Booting, Inv, TypeOK,
      ControlOK
<1>c. PICK mints \in MintSets :
         /\ activeMints' = mints
         /\ tables' = [tables EXCEPT ![serving] = BeginFull(Truncated, job.slot, mints)]
  BY <1>0, GenUp DEF BootstrapImport, StageInv, EmptyOK
<1>t. /\ tables'[Bak] = tables[Bak]
      /\ FullUnderway(tables'[serving], job.slot, mints) /\ tables'[serving].upto = 0
      /\ tables'[serving].gen = job.slot
  <2>1. tables'[serving] = BeginFull(Truncated, job.slot, mints) /\ tables'[Bak] = tables[Bak]
    BY <1>0, <1>c, GenUp, ServingWrite
  <2>. QED
    BY <2>1, BeginFullEdit DEF FullUnderway
<1>1. LanesOK(ws)'
  BY <1>0, <1>w, GenUp, LanesSame
<1>2. ActiveTables(ws.active, ActiveGroup(ws))'
  BY <1>0, GenUp, <1>b, <1>w, <1>a, <1>c, <1>t
  DEF BootstrapImport, ActiveTables, StagingTables, ActiveGroup, StagingGroup, Loaded,
      SlotOrZero
<1>3. StagingTables(ws.staging, StagingGroup(ws))'
  BY <1>0, GenUp, <1>b, <1>w, <1>a, <1>c, <1>t
  DEF BootstrapImport, ActiveTables, StagingTables, ActiveGroup, StagingGroup, Loaded,
      SlotOrZero
<1>4. MemoryOK'
  BY <1>0, GenUp, <1>b, <1>w, <1>a, <1>c, <1>t
  DEF BootstrapImport, MemoryOK, ActiveMemory, StagingMemory, FreshMemory, StagingFile,
      BootstrapPending, Starting, SlotOrZero
<1>5. BootWork' /\ SharedWork' /\ ActiveWork'
  BY <1>0, GenUp, <1>b, <1>w, <1>a, <1>c, <1>t
  DEF BootstrapImport, BootWork, SharedWork, ActiveWork, Booting
<1>6. BuildWork' /\ IncrWork'
  BY <1>0, GenUp, <1>b, <1>w, <1>a, <1>c, <1>t
  DEF BootstrapImport, BuildWork, IncrWork, NoBuild, NewBuild
<1>. QED
  BY <1>0, <1>w, <1>1, <1>2, <1>3, <1>4, <1>5, <1>6, GenFrom

(* And ends; its set goes into a file. *)
LEMMA GenBootstrapImported ==
    ASSUME GenerationInv, StageInv', BootstrapImported
    PROVE  GenerationInv'
<1>. USE DEF memory, disk
<1>0. pc # "down" /\ pc' # "down"
  BY DEF BootstrapImported
<1>b. serving' = serving /\ Bak' = Bak
  BY DEF BootstrapImported, Bak
<1>w. ws' = ws /\ journal' = ws'
  BY <1>0, GenUp DEF BootstrapImported
<1>a. /\ ws.active.phase = "full_loading" /\ ws.staging.phase = "disabled"
      /\ ws.cutover = None /\ ws.shared = None
      /\ incr = None
      /\ build.pc \notin {"start", "reset", "import", "sent", "acked", "settle", "ok"}
      /\ ws.active.max = None /\ job.slot = ws.active.full /\ job.slot \in Nat
      /\ job.slot # None
  BY <1>0, GenUp, SlotTypes, NoneAssumption
  DEF BootstrapImported, StageInv, StageOK, StateOK, LanesOK, BootWork, Booting, Inv,
      TypeOK, ControlOK
<1>c. activeMints \in MintSets
  BY <1>0, GenUp DEF BootstrapImported, Inv, TypeOK, ControlOK
<1>f. fresh' \in FileIds /\ files'[fresh'] = activeMints
  BY <1>0, <1>c, GenUp, WriteStable DEF BootstrapImported
<1>t. /\ tables'[Bak] = tables[Bak]
      /\ FullThere(tables'[serving], job.slot, activeMints)
      /\ tables'[serving].upto = job.slot
      /\ tables'[serving].gen = job.slot
  <2>1. tables'[serving] = EndFull(tables[serving], job.slot) /\ tables'[Bak] = tables[Bak]
    BY <1>0, GenUp, ServingWrite DEF BootstrapImported
  <2>2. FullUnderway(tables[serving], job.slot, activeMints) /\ tables[serving] \in Contents
    BY <1>0, GenUp, GroupTypes DEF BootstrapImported, BootWork
  <2>3. FullThere(tables'[serving], job.slot, activeMints)
    BY <2>1, <2>2, EndFullEdit
  <2>. QED
    BY <2>1, <2>3 DEF FullThere
<1>1. LanesOK(ws)'
  BY <1>0, <1>w, GenUp, LanesSame
<1>2. ActiveTables(ws.active, ActiveGroup(ws))'
  BY <1>0, GenUp, <1>b, <1>w, <1>a, <1>c, <1>f, <1>t
  DEF BootstrapImported, ActiveTables, StagingTables, ActiveGroup, StagingGroup, Loaded,
      SlotOrZero
<1>3. StagingTables(ws.staging, StagingGroup(ws))'
  BY <1>0, GenUp, <1>b, <1>w, <1>a, <1>c, <1>f, <1>t
  DEF BootstrapImported, ActiveTables, StagingTables, ActiveGroup, StagingGroup, Loaded,
      SlotOrZero
<1>4. MemoryOK'
  BY <1>0, GenUp, <1>b, <1>w, <1>a, <1>c, <1>f, <1>t
  DEF BootstrapImported, MemoryOK, ActiveMemory, StagingMemory, FreshMemory, StagingFile,
      BootstrapPending, Starting, SlotOrZero
<1>5. BootWork' /\ SharedWork' /\ ActiveWork'
  BY <1>0, GenUp, <1>b, <1>w, <1>a, <1>c, <1>f, <1>t
  DEF BootstrapImported, BootWork, SharedWork, ActiveWork, Booting
<1>6. BuildWork' /\ IncrWork'
  BY <1>0, GenUp, <1>b, <1>w, <1>a, <1>c, <1>f, <1>t
  DEF BootstrapImported, BuildWork, IncrWork, NoBuild, NewBuild
<1>. QED
  BY <1>0, <1>w, <1>1, <1>2, <1>3, <1>4, <1>5, <1>6, GenFrom

(* Active claims the bootstrap's archive. *)
LEMMA GenBootstrapCommit ==
    ASSUME GenerationInv, StageInv', BootstrapCommit
    PROVE  GenerationInv'
<1>. USE DEF memory, disk
<1>0. pc # "down" /\ pc' # "down"
  BY DEF BootstrapCommit
<1>b. serving' = serving /\ Bak' = Bak
  BY DEF BootstrapCommit, Bak
<1>w. /\ ws' \in States /\ journal' = ws'
      /\ ws'.active.phase = "full_merging" /\ ws'.active.full = ws.active.full
      /\ ws'.active.max = job.slot /\ ws'.active.path = fresh
      /\ ws'.staging = ws.staging
      /\ ws'.cutover = ws.cutover /\ ws'.shared = ws.shared
      /\ fresh \in FileIds
  BY <1>0, GenUp, BootstrapCommitFields
<1>a. /\ ws.active.phase = "full_loading" /\ ws.staging.phase = "disabled"
      /\ ws.cutover = None /\ ws.shared = None
      /\ incr = None
      /\ build.pc \notin {"start", "reset", "import", "sent", "acked", "settle", "ok"}
      /\ ws.active.max = None /\ job.slot = ws.active.full /\ job.slot \in Nat
      /\ job.slot # None
  BY <1>0, GenUp, SlotTypes, NoneAssumption
  DEF BootstrapCommit, StageInv, StageOK, StateOK, LanesOK, BootWork, Booting, Inv, TypeOK,
      ControlOK
<1>c. /\ FullThere(tables[serving], job.slot, activeMints) /\ files[fresh] = activeMints
      /\ fresh # None
  BY <1>0, <1>w, GenUp, WatcherAssumption DEF BootstrapCommit, BootWork, FreshMemory
<1>1. LanesOK(ws)'
  BY <1>0, GenUp, <1>b, <1>w, <1>a, <1>c
  DEF BootstrapCommit, LanesOK, SharedResumable, LanesResumable, Loaded
<1>2. ActiveTables(ws.active, ActiveGroup(ws))'
  BY <1>0, GenUp, <1>b, <1>w, <1>a, <1>c
  DEF BootstrapCommit, ActiveTables, StagingTables, ActiveGroup, StagingGroup, Loaded,
      SlotOrZero, FullThere
<1>3. StagingTables(ws.staging, StagingGroup(ws))'
  BY <1>0, GenUp, <1>b, <1>w, <1>a, <1>c
  DEF BootstrapCommit, ActiveTables, StagingTables, ActiveGroup, StagingGroup, Loaded,
      SlotOrZero
<1>4. MemoryOK'
  BY <1>0, GenUp, <1>b, <1>w, <1>a, <1>c
  DEF BootstrapCommit, MemoryOK, ActiveMemory, StagingMemory, FreshMemory, StagingFile,
      BootstrapPending, Starting, SlotOrZero
<1>5. BootWork' /\ SharedWork' /\ ActiveWork'
  BY <1>0, GenUp, <1>b, <1>w, <1>a, <1>c
  DEF BootstrapCommit, BootWork, SharedWork, ActiveWork, Booting
<1>6. BuildWork' /\ IncrWork'
  BY <1>0, GenUp, <1>b, <1>w, <1>a, <1>c
  DEF BootstrapCommit, BuildWork, IncrWork, NoBuild, NewBuild
<1>. QED
  BY <1>0, <1>w, <1>1, <1>2, <1>3, <1>4, <1>5, <1>6, GenFrom

(* apply_active_incremental: an archive that continues active's watermark. *)
LEMMA BeginActiveGen ==
    ASSUME GenerationInv, StageInv', pc \in {"loop", "dispatch"},
           NEW a \in Archives, BeginActive(a),
           UNCHANGED incr, ws.shared = None, ws.active.phase \in {"ready", "incremental_loading"},
           a.kind = "full" \/ a.base <= activeSlot
    PROVE  GenerationInv'
<1>. USE DEF memory, disk
<1>0. pc # "down" /\ pc' = "active_start" /\ serving' = serving /\ Bak' = Bak /\ job' = a
  BY DEF BeginActive, Bak
<1>u. UNCHANGED <<memory, fresh, build, incr, disk>>
  BY DEF BeginActive
<1>w. /\ ws' \in States /\ journal' = ws'
      /\ ws'.active.phase = "incremental_loading" /\ ws'.active.full = ws.active.full
      /\ ws'.active.max = ws.active.max /\ ws'.active.path = ws.active.path
      /\ ws'.active.inflight = a.kind
      /\ ws'.staging = ws.staging
      /\ ws'.cutover = ws.cutover /\ ws'.shared = None
  BY <1>0, GenUp, BeginActiveFields
<1>a. ws.active.max # None /\ a.kind # None /\ ws.cutover = None
  BY <1>0, GenUp, SlotTypes, RecordsAssumption DEF LanesOK, LanesResumable, Loaded, StateOK
<1>1. LanesOK(ws)'
  BY <1>0, <1>w, <1>a, GenUp DEF LanesOK, SharedResumable, LanesResumable, Loaded
<1>2. ActiveTables(ws.active, ActiveGroup(ws))'
  BY <1>0, <1>u, <1>w, <1>a, GenUp DEF ActiveTables, ActiveGroup, SlotOrZero, Loaded
<1>3. StagingTables(ws.staging, StagingGroup(ws))'
  BY <1>0, <1>u, <1>w, <1>a, GenUp DEF StagingTables, StagingGroup, SlotOrZero, Loaded
<1>4. MemoryOK'
  BY <1>0, <1>u, <1>w, GenUp
  DEF MemoryOK, ActiveMemory, StagingMemory, FreshMemory, StagingFile, BootstrapPending,
      Starting, SlotOrZero
<1>5. BootWork' /\ SharedWork' /\ ActiveWork'
  BY <1>0, <1>u DEF BootWork, SharedWork, ActiveWork, Booting
<1>6. BuildWork' /\ IncrWork'
  BY <1>0, <1>u, <1>w, GenUp DEF BuildWork, IncrWork
<1>. QED
  BY <1>0, <1>w, <1>1, <1>2, <1>3, <1>4, <1>5, <1>6, GenFrom

(* An interrupted archive is chosen anew, above the watermark. *)
LEMMA GenResumeActive ==
    ASSUME GenerationInv, StageInv', NEW dir \in SUBSET Archives, ResumeActive(dir)
    PROVE  GenerationInv'
<1>1. /\ pc = "loop" /\ ws.shared = None /\ ws.active.phase = "incremental_loading"
      /\ UNCHANGED incr
  BY DEF ResumeActive, ActiveInterrupted, Round
<1>2. PICK a \in Archives : BeginActive(a) /\ (a.kind = "full" \/ a.base <= activeSlot)
  BY DEF ResumeActive, ResumeCandidates, Furthest, EligibleFulls, EligibleIncrementals
<1>. QED
  BY <1>1, <1>2, BeginActiveGen

(* The archive that staging took is active's too. *)
LEMMA GenDispatchBoth ==
    ASSUME GenerationInv, StageInv', DispatchBoth
    PROVE  GenerationInv'
<1>1. /\ pc = "dispatch" /\ ws.active.phase = "ready" /\ UNCHANGED incr /\ BeginActive(job)
      /\ job.base <= activeSlot
  BY DEF DispatchBoth
<1>2. job \in Archives
  BY <1>1, GenUp DEF Inv, TypeOK, ControlOK
<1>3. ws.shared = None
  BY <1>1, GenUp DEF StageInv, StageOK, StateOK
<1>. QED
  BY <1>1, <1>2, <1>3, BeginActiveGen

(* An archive for active alone. *)
LEMMA GenDispatchActive ==
    ASSUME GenerationInv, StageInv', NEW dir \in SUBSET Archives, DispatchActive(dir)
    PROVE  GenerationInv'
<1>1. pc = "loop" /\ ws.shared = None /\ ws.active.phase = "ready" /\ UNCHANGED incr
  BY DEF DispatchActive, DispatchRound, StagingRound, Round
<1>2. PICK a \in Archives : BeginActive(a) /\ a.base <= activeSlot
  BY DEF DispatchActive, Furthest, EligibleIncrementals
<1>. QED
  BY <1>1, <1>2, BeginActiveGen

(* Active's import begins, with the set of its group. *)
LEMMA GenActiveImport ==
    ASSUME GenerationInv, StageInv', ActiveImport
    PROVE  GenerationInv'
<1>. USE DEF memory, disk
<1>0. pc # "down" /\ pc' # "down"
  BY DEF ActiveImport
<1>b. serving' = serving /\ Bak' = Bak
  BY DEF ActiveImport, Bak
<1>w. ws' = ws /\ journal' = ws'
  BY <1>0, GenUp DEF ActiveImport
<1>a. /\ ws.active.phase = "incremental_loading" /\ ws.shared = None /\ ws.cutover = None
      /\ job \in Archives /\ job.slot \in Nat /\ job.slot # None /\ ws.active.path # None
      /\ activeMints = files[ws.active.path] /\ activeSlot = SlotOrZero(ws.active.max)
      /\ tables[serving] \in Contents /\ tables[serving].upto \in Nat
  BY <1>0, GenUp, GroupTypes, SlotTypes, NoneAssumption
  DEF ActiveImport, StageInv, StageOK, StateOK, Inv, TypeOK, ControlOK, ActiveMemory,
      Starting, BootstrapPending
<1>c. tables[serving].mints \subseteq {activeMints}
  BY <1>0, <1>a, GenUp DEF ActiveTables, ActiveGroup, Loaded
<1>t. /\ tables'[Bak] = tables[Bak]
      /\ tables'[serving].upto = tables[serving].upto
      /\ tables'[serving].gen = tables[serving].gen
      /\ tables'[serving].base = tables[serving].base
      /\ tables'[serving].mints = tables[serving].mints \cup {activeMints}
  <2>1. /\ tables'[serving] = BeginTail(tables[serving], job, activeMints)
        /\ tables'[Bak] = tables[Bak]
    BY <1>0, GenUp, ServingWrite DEF ActiveImport
  <2>. QED
    BY <1>a, <2>1, BeginTailEdit
<1>1. LanesOK(ws)'
  BY <1>0, <1>w, GenUp, LanesSame
<1>2. ActiveTables(ws.active, ActiveGroup(ws))'
  BY <1>0, GenUp, <1>b, <1>w, <1>a, <1>c, <1>t
  DEF ActiveImport, ActiveTables, StagingTables, ActiveGroup, StagingGroup, Loaded,
      SlotOrZero
<1>3. StagingTables(ws.staging, StagingGroup(ws))'
  BY <1>0, GenUp, <1>b, <1>w, <1>a, <1>c, <1>t
  DEF ActiveImport, ActiveTables, StagingTables, ActiveGroup, StagingGroup, Loaded,
      SlotOrZero
<1>4. MemoryOK'
  BY <1>0, GenUp, <1>b, <1>w, <1>a, <1>c, <1>t
  DEF ActiveImport, MemoryOK, ActiveMemory, StagingMemory, FreshMemory, StagingFile,
      BootstrapPending, Starting, SlotOrZero
<1>5. BootWork' /\ SharedWork' /\ ActiveWork'
  BY <1>0, GenUp, <1>b, <1>w, <1>a, <1>c, <1>t
  DEF ActiveImport, BootWork, SharedWork, ActiveWork, Booting
<1>6. BuildWork' /\ IncrWork'
  BY <1>0, GenUp, <1>b, <1>w, <1>a, <1>c, <1>t
  DEF ActiveImport, BuildWork, IncrWork, NoBuild, NewBuild
<1>. QED
  BY <1>0, <1>w, <1>1, <1>2, <1>3, <1>4, <1>5, <1>6, GenFrom

(* And ends: it continues what the group holds. *)
LEMMA GenActiveImported ==
    ASSUME GenerationInv, StageInv', ActiveImported
    PROVE  GenerationInv'
<1>. USE DEF memory, disk
<1>0. pc # "down" /\ pc' # "down"
  BY DEF ActiveImported
<1>b. serving' = serving /\ Bak' = Bak
  BY DEF ActiveImported, Bak
<1>w. ws' = ws /\ journal' = ws'
  BY <1>0, GenUp DEF ActiveImported
<1>a. /\ ws.active.phase = "incremental_loading" /\ ws.shared = None /\ ws.cutover = None
      /\ job \in Archives /\ job.slot \in Nat /\ job.slot # None /\ ws.active.path # None
      /\ activeMints = files[ws.active.path] /\ activeSlot = SlotOrZero(ws.active.max)
      /\ tables[serving] \in Contents /\ tables[serving].upto \in Nat
  BY <1>0, GenUp, GroupTypes, SlotTypes, NoneAssumption
  DEF ActiveImported, StageInv, StageOK, StateOK, Inv, TypeOK, ControlOK, ActiveMemory,
      Starting, BootstrapPending
<1>c. activeSlot <= tables[serving].upto /\ (job.kind = "full" \/ job.base <= activeSlot)
  BY <1>0, <1>a, GenUp DEF ActiveImported, ActiveTables, ActiveGroup, ActiveWork
<1>t. /\ tables'[Bak] = tables[Bak]
      /\ tables'[serving].upto >= tables[serving].upto /\ tables'[serving].upto \in Nat
      /\ tables'[serving].upto >= job.slot /\ tables'[serving].gen = tables[serving].gen
      /\ tables'[serving].base = tables[serving].base
      /\ tables'[serving].mints = tables[serving].mints
  <2>1. /\ tables'[serving] = EndTail(tables[serving], job, activeSlot)
        /\ tables'[Bak] = tables[Bak]
    BY <1>0, GenUp, ServingWrite DEF ActiveImported
  <2>. QED
    BY <1>a, <1>c, <2>1, EndTailEdit
<1>1. LanesOK(ws)'
  BY <1>0, <1>w, GenUp, LanesSame
<1>2. ActiveTables(ws.active, ActiveGroup(ws))'
  <2>1. ActiveGroup(ws) = serving /\ (ActiveGroup(ws))' = serving
    BY <1>a, <1>b, <1>w DEF ActiveGroup
  <2>2. activeSlot <= tables'[serving].upto
    BY <1>a, <1>c, <1>t, GenUp, <1>0 DEF Inv, TypeOK
  <2>3. (SlotOrZero(ws.active.max))' = activeSlot /\ files' = files /\ merges' = merges
    BY <1>a, <1>w DEF SlotOrZero, ActiveImported
  <2>. QED
    BY <1>0, <1>w, <1>t, <2>1, <2>2, <2>3, GenUp DEF ActiveTables
<1>3. StagingTables(ws.staging, StagingGroup(ws))'
  BY <1>0, GenUp, <1>b, <1>w, <1>a, <1>c, <1>t
  DEF ActiveImported, ActiveTables, StagingTables, ActiveGroup, StagingGroup, Loaded,
      SlotOrZero
<1>4. MemoryOK'
  BY <1>0, GenUp, <1>b, <1>w, <1>a, <1>c, <1>t
  DEF ActiveImported, MemoryOK, ActiveMemory, StagingMemory, FreshMemory, StagingFile,
      BootstrapPending, Starting, SlotOrZero
<1>5. BootWork' /\ SharedWork' /\ ActiveWork'
  BY <1>0, GenUp, <1>b, <1>w, <1>a, <1>c, <1>t
  DEF ActiveImported, BootWork, SharedWork, ActiveWork, Booting
<1>6. BuildWork' /\ IncrWork'
  BY <1>0, GenUp, <1>b, <1>w, <1>a, <1>c, <1>t
  DEF ActiveImported, BuildWork, IncrWork, NoBuild, NewBuild
<1>. QED
  BY <1>0, <1>w, <1>1, <1>2, <1>3, <1>4, <1>5, <1>6, GenFrom

(* Active claims it. *)
LEMMA GenActiveCommit ==
    ASSUME GenerationInv, StageInv', ActiveCommit
    PROVE  GenerationInv'
<1>. USE DEF memory, disk
<1>0. pc # "down" /\ pc' # "down"
  BY DEF ActiveCommit
<1>b. serving' = serving /\ Bak' = Bak
  BY DEF ActiveCommit, Bak
<1>w. /\ ws' \in States /\ journal' = ws'
      /\ ws'.active.phase = "ready" /\ ws'.active.full = ws.active.full
      /\ ws'.active.max = job.slot /\ ws'.active.path = ws.active.path
      /\ ws'.staging = ws.staging
      /\ ws'.cutover = ws.cutover /\ ws'.shared = ws.shared
  BY <1>0, GenUp, ActiveCommitFields
<1>a. /\ ws.active.phase = "incremental_loading" /\ ws.shared = None /\ ws.cutover = None
      /\ job \in Archives /\ job.slot \in Nat /\ job.slot # None /\ ws.active.path # None
      /\ activeMints = files[ws.active.path] /\ activeSlot = SlotOrZero(ws.active.max)
      /\ tables[serving] \in Contents /\ tables[serving].upto \in Nat
  BY <1>0, GenUp, GroupTypes, SlotTypes, NoneAssumption
  DEF ActiveCommit, StageInv, StageOK, StateOK, Inv, TypeOK, ControlOK, ActiveMemory,
      Starting, BootstrapPending
<1>c. tables[serving].upto >= job.slot
  BY <1>0, GenUp DEF ActiveCommit, ActiveWork
<1>1. LanesOK(ws)'
  BY <1>0, GenUp, <1>b, <1>w, <1>a, <1>c
  DEF ActiveCommit, LanesOK, SharedResumable, LanesResumable, Loaded
<1>2. ActiveTables(ws.active, ActiveGroup(ws))'
  BY <1>0, GenUp, <1>b, <1>w, <1>a, <1>c
  DEF ActiveCommit, ActiveTables, StagingTables, ActiveGroup, StagingGroup, Loaded,
      SlotOrZero
<1>3. StagingTables(ws.staging, StagingGroup(ws))'
  BY <1>0, GenUp, <1>b, <1>w, <1>a, <1>c
  DEF ActiveCommit, ActiveTables, StagingTables, ActiveGroup, StagingGroup, Loaded,
      SlotOrZero
<1>4. MemoryOK'
  BY <1>0, GenUp, <1>b, <1>w, <1>a, <1>c
  DEF ActiveCommit, MemoryOK, ActiveMemory, StagingMemory, FreshMemory, StagingFile,
      BootstrapPending, Starting, SlotOrZero
<1>5. BootWork' /\ SharedWork' /\ ActiveWork'
  BY <1>0, GenUp, <1>b, <1>w, <1>a, <1>c
  DEF ActiveCommit, BootWork, SharedWork, ActiveWork, Booting
<1>6. BuildWork' /\ IncrWork'
  BY <1>0, GenUp, <1>b, <1>w, <1>a, <1>c
  DEF ActiveCommit, BuildWork, IncrWork, NoBuild, NewBuild
<1>. QED
  BY <1>0, <1>w, <1>1, <1>2, <1>3, <1>4, <1>5, <1>6, GenFrom

(* The archive is gone: the watermark stays. *)
LEMMA GenAbandonActive ==
    ASSUME GenerationInv, StageInv', NEW dir \in SUBSET Archives, AbandonActive(dir)
    PROVE  GenerationInv'
<1>. USE DEF memory, disk
<1>0. pc # "down" /\ pc' # "down"
  BY DEF AbandonActive, ActiveInterrupted, Round
<1>b. serving' = serving /\ Bak' = Bak
  BY DEF AbandonActive, ActiveInterrupted, Round, Bak
<1>w. /\ ws' \in States /\ journal' = ws'
      /\ ws'.active.phase = "ready" /\ ws'.active.full = ws.active.full
      /\ ws'.active.max = ws.active.max /\ ws'.active.path = ws.active.path
      /\ ws'.staging = ws.staging
      /\ ws'.cutover = ws.cutover /\ ws'.shared = ws.shared
  BY <1>0, GenUp, AbandonActiveFields
<1>a. ws.active.phase = "incremental_loading" /\ ws.shared = None /\ ws.cutover = None
  BY <1>0, GenUp DEF AbandonActive, ActiveInterrupted, Round, StateOK
<1>1. LanesOK(ws)'
  BY <1>0, GenUp, <1>b, <1>w, <1>a
  DEF AbandonActive, ActiveInterrupted, Round, LanesOK, SharedResumable, LanesResumable,
      Loaded
<1>2. ActiveTables(ws.active, ActiveGroup(ws))'
  BY <1>0, GenUp, <1>b, <1>w, <1>a
  DEF AbandonActive, ActiveInterrupted, Round, ActiveTables, StagingTables, ActiveGroup,
      StagingGroup, Loaded, SlotOrZero
<1>3. StagingTables(ws.staging, StagingGroup(ws))'
  BY <1>0, GenUp, <1>b, <1>w, <1>a
  DEF AbandonActive, ActiveInterrupted, Round, ActiveTables, StagingTables, ActiveGroup,
      StagingGroup, Loaded, SlotOrZero
<1>4. MemoryOK'
  BY <1>0, GenUp, <1>b, <1>w, <1>a
  DEF AbandonActive, ActiveInterrupted, Round, MemoryOK, ActiveMemory, StagingMemory,
      FreshMemory, StagingFile, BootstrapPending, Starting, SlotOrZero
<1>5. BootWork' /\ SharedWork' /\ ActiveWork'
  BY <1>0, GenUp, <1>b, <1>w, <1>a
  DEF AbandonActive, ActiveInterrupted, Round, BootWork, SharedWork, ActiveWork, Booting
<1>6. BuildWork' /\ IncrWork'
  BY <1>0, GenUp, <1>b, <1>w, <1>a
  DEF AbandonActive, ActiveInterrupted, Round, BuildWork, IncrWork, NoBuild, NewBuild
<1>. QED
  BY <1>0, <1>w, <1>1, <1>2, <1>3, <1>4, <1>5, <1>6, GenFrom

(* A build of the generation that staging records. *)
LEMMA GenSpawnStagingFull ==
    ASSUME GenerationInv, StageInv', NEW dir \in SUBSET Archives, SpawnStagingFull(dir)
    PROVE  GenerationInv'
<1>. USE DEF memory, disk
<1>0. pc # "down" /\ pc' # "down"
  BY DEF SpawnStagingFull, StagingRound, Round
<1>b. serving' = serving /\ Bak' = Bak
  BY DEF SpawnStagingFull, StagingRound, Round, Bak
<1>w. ws' = ws /\ journal' = ws'
  BY <1>0, GenUp DEF SpawnStagingFull, StagingRound, Round
<1>d. build'.pc = "start" /\ build'.full = ws.staging.full
  BY DEF SpawnStagingFull, NewBuild
<1>1. LanesOK(ws)'
  BY <1>0, <1>w, GenUp, LanesSame
<1>2. ActiveTables(ws.active, ActiveGroup(ws))'
  BY <1>0, GenUp, <1>b, <1>w, <1>d
  DEF SpawnStagingFull, StagingRound, Round, ActiveTables, StagingTables, ActiveGroup,
      StagingGroup, Loaded, SlotOrZero
<1>3. StagingTables(ws.staging, StagingGroup(ws))'
  BY <1>0, GenUp, <1>b, <1>w, <1>d
  DEF SpawnStagingFull, StagingRound, Round, ActiveTables, StagingTables, ActiveGroup,
      StagingGroup, Loaded, SlotOrZero
<1>4. MemoryOK'
  BY <1>0, GenUp, <1>b, <1>w, <1>d
  DEF SpawnStagingFull, StagingRound, Round, MemoryOK, ActiveMemory, StagingMemory,
      FreshMemory, StagingFile, BootstrapPending, Starting, SlotOrZero
<1>5. BootWork' /\ SharedWork' /\ ActiveWork'
  BY <1>0, GenUp, <1>b, <1>w, <1>d
  DEF SpawnStagingFull, StagingRound, Round, BootWork, SharedWork, ActiveWork, Booting
<1>6. BuildWork' /\ IncrWork'
  BY <1>0, GenUp, <1>b, <1>w, <1>d
  DEF SpawnStagingFull, StagingRound, Round, BuildWork, IncrWork, NoBuild, NewBuild
<1>. QED
  BY <1>0, <1>w, <1>1, <1>2, <1>3, <1>4, <1>5, <1>6, GenFrom

(* A wait for its merges. *)
LEMMA GenSpawnMergeWait ==
    ASSUME GenerationInv, StageInv', SpawnMergeWait
    PROVE  GenerationInv'
<1>. USE DEF memory, disk
<1>0. pc # "down" /\ pc' # "down"
  BY DEF SpawnMergeWait, StagingRound, Round
<1>b. serving' = serving /\ Bak' = Bak
  BY DEF SpawnMergeWait, StagingRound, Round, Bak
<1>w. ws' = ws /\ journal' = ws'
  BY <1>0, GenUp DEF SpawnMergeWait, StagingRound, Round
<1>d. build'.pc = "acked"
  BY DEF SpawnMergeWait, NewBuild
<1>1. LanesOK(ws)'
  BY <1>0, <1>w, GenUp, LanesSame
<1>2. ActiveTables(ws.active, ActiveGroup(ws))'
  BY <1>0, GenUp, <1>b, <1>w, <1>d
  DEF SpawnMergeWait, StagingRound, Round, ActiveTables, StagingTables, ActiveGroup,
      StagingGroup, Loaded, SlotOrZero
<1>3. StagingTables(ws.staging, StagingGroup(ws))'
  BY <1>0, GenUp, <1>b, <1>w, <1>d
  DEF SpawnMergeWait, StagingRound, Round, ActiveTables, StagingTables, ActiveGroup,
      StagingGroup, Loaded, SlotOrZero
<1>4. MemoryOK'
  BY <1>0, GenUp, <1>b, <1>w, <1>d
  DEF SpawnMergeWait, StagingRound, Round, MemoryOK, ActiveMemory, StagingMemory,
      FreshMemory, StagingFile, BootstrapPending, Starting, SlotOrZero
<1>5. BootWork' /\ SharedWork' /\ ActiveWork'
  BY <1>0, GenUp, <1>b, <1>w, <1>d
  DEF SpawnMergeWait, StagingRound, Round, BootWork, SharedWork, ActiveWork, Booting
<1>6. BuildWork' /\ IncrWork'
  BY <1>0, GenUp, <1>b, <1>w, <1>d
  DEF SpawnMergeWait, StagingRound, Round, BuildWork, IncrWork, NoBuild, NewBuild
<1>. QED
  BY <1>0, <1>w, <1>1, <1>2, <1>3, <1>4, <1>5, <1>6, GenFrom

(* An interrupted incremental of staging is chosen anew. *)
LEMMA GenResumeStaging ==
    ASSUME GenerationInv, StageInv', NEW dir \in SUBSET Archives, ResumeStaging(dir)
    PROVE  GenerationInv'
<1>. USE DEF memory, disk
<1>0. pc # "down" /\ pc' # "down"
  BY DEF ResumeStaging, StagingInterrupted, StagingRound, Round
<1>b. serving' = serving /\ Bak' = Bak
  BY DEF ResumeStaging, StagingInterrupted, StagingRound, Round, Bak
<1>w. ws' = ws /\ journal' = ws'
  BY <1>0, GenUp DEF ResumeStaging, StagingInterrupted, StagingRound, Round
<1>a. /\ ws.staging.path # None /\ stagingMints = files[ws.staging.path]
  BY <1>0, GenUp
  DEF ResumeStaging, StagingInterrupted, StagingRound, Round, LanesOK, LanesResumable,
      Loaded, StagingMemory, StagingFile, Starting
<1>d. PICK a \in Archives : a.base <= ws.staging.max /\ SpawnIncremental(a)
  BY DEF ResumeStaging, StagingEligible, Furthest, EligibleIncrementals
<1>e. incr' = [pc |-> "start", archive |-> a, resume |-> ws.staging.max,
               mints |-> stagingMints]
  BY <1>d DEF SpawnIncremental
<1>1. LanesOK(ws)'
  BY <1>0, <1>w, GenUp, LanesSame
<1>2. ActiveTables(ws.active, ActiveGroup(ws))'
  BY <1>0, GenUp, <1>b, <1>w, <1>a, <1>d, <1>e
  DEF ResumeStaging, StagingInterrupted, StagingRound, Round, ActiveTables, StagingTables,
      ActiveGroup, StagingGroup, Loaded, SlotOrZero
<1>3. StagingTables(ws.staging, StagingGroup(ws))'
  BY <1>0, GenUp, <1>b, <1>w, <1>a, <1>d, <1>e
  DEF ResumeStaging, StagingInterrupted, StagingRound, Round, ActiveTables, StagingTables,
      ActiveGroup, StagingGroup, Loaded, SlotOrZero
<1>4. MemoryOK'
  BY <1>0, GenUp, <1>b, <1>w, <1>a, <1>d, <1>e
  DEF ResumeStaging, StagingInterrupted, StagingRound, Round, MemoryOK, ActiveMemory,
      StagingMemory, FreshMemory, StagingFile, BootstrapPending, Starting, SlotOrZero
<1>5. BootWork' /\ SharedWork' /\ ActiveWork'
  BY <1>0, GenUp, <1>b, <1>w, <1>a, <1>d, <1>e
  DEF ResumeStaging, StagingInterrupted, StagingRound, Round, BootWork, SharedWork,
      ActiveWork, Booting
<1>6. BuildWork' /\ IncrWork'
  BY <1>0, GenUp, <1>b, <1>w, <1>a, <1>d, <1>e
  DEF ResumeStaging, StagingInterrupted, StagingRound, Round, BuildWork, IncrWork, NoBuild,
      NewBuild
<1>. QED
  BY <1>0, <1>w, <1>1, <1>2, <1>3, <1>4, <1>5, <1>6, GenFrom

(* The archive is gone: staging waits for another. *)
LEMMA GenAbandonStaging ==
    ASSUME GenerationInv, StageInv', NEW dir \in SUBSET Archives, AbandonStaging(dir)
    PROVE  GenerationInv'
<1>. USE DEF memory, disk
<1>0. pc # "down" /\ pc' # "down"
  BY DEF AbandonStaging, StagingInterrupted, StagingRound, Round
<1>b. serving' = serving /\ Bak' = Bak
  BY DEF AbandonStaging, StagingInterrupted, StagingRound, Round, Bak
<1>w. /\ ws' \in States /\ journal' = ws'
      /\ ws'.staging.phase = "ready" /\ ws'.staging.full = ws.staging.full
      /\ ws'.staging.max = ws.staging.max /\ ws'.staging.path = ws.staging.path
      /\ ws'.active = ws.active
      /\ ws'.cutover = ws.cutover /\ ws'.shared = ws.shared
  BY <1>0, GenUp, AbandonStagingFields
<1>a. /\ ws.staging.phase = "incremental_loading" /\ ws.shared = None /\ ws.cutover = None
      /\ incr = None
      /\ build.pc \notin {"start", "reset", "import", "sent", "acked", "settle", "ok"}
  BY <1>0, GenUp
  DEF AbandonStaging, StagingInterrupted, StagingRound, Round, StateOK, StageInv, StageOK
<1>1. LanesOK(ws)'
  BY <1>0, GenUp, <1>b, <1>w, <1>a
  DEF AbandonStaging, StagingInterrupted, StagingRound, Round, LanesOK, SharedResumable,
      LanesResumable, Loaded
<1>2. ActiveTables(ws.active, ActiveGroup(ws))'
  BY <1>0, GenUp, <1>b, <1>w, <1>a
  DEF AbandonStaging, StagingInterrupted, StagingRound, Round, ActiveTables, StagingTables,
      ActiveGroup, StagingGroup, Loaded, SlotOrZero
<1>3. StagingTables(ws.staging, StagingGroup(ws))'
  BY <1>0, GenUp, <1>b, <1>w, <1>a
  DEF AbandonStaging, StagingInterrupted, StagingRound, Round, ActiveTables, StagingTables,
      ActiveGroup, StagingGroup, Loaded, SlotOrZero
<1>4. MemoryOK'
  BY <1>0, GenUp, <1>b, <1>w, <1>a
  DEF AbandonStaging, StagingInterrupted, StagingRound, Round, MemoryOK, ActiveMemory,
      StagingMemory, FreshMemory, StagingFile, BootstrapPending, Starting, SlotOrZero
<1>5. BootWork' /\ SharedWork' /\ ActiveWork'
  BY <1>0, GenUp, <1>b, <1>w, <1>a
  DEF AbandonStaging, StagingInterrupted, StagingRound, Round, BootWork, SharedWork,
      ActiveWork, Booting
<1>6. BuildWork' /\ IncrWork'
  BY <1>0, GenUp, <1>b, <1>w, <1>a
  DEF AbandonStaging, StagingInterrupted, StagingRound, Round, BuildWork, IncrWork, NoBuild,
      NewBuild
<1>. QED
  BY <1>0, <1>w, <1>1, <1>2, <1>3, <1>4, <1>5, <1>6, GenFrom

(* A set for the next generation. *)
LEMMA GenFreezeStagingMints ==
    ASSUME GenerationInv, StageInv', NEW dir \in SUBSET Archives, FreezeStagingMints(dir)
    PROVE  GenerationInv'
<1>. USE DEF memory, disk
<1>0. pc # "down" /\ pc' # "down"
  BY DEF FreezeStagingMints, DispatchRound, StagingRound, Round
<1>b. serving' = serving /\ Bak' = Bak
  BY DEF FreezeStagingMints, DispatchRound, StagingRound, Round, Bak
<1>w. ws' = ws /\ journal' = ws'
  BY <1>0, GenUp DEF FreezeStagingMints, DispatchRound, StagingRound, Round
<1>a. PICK mints \in MintSets : WriteMints(mints)
  BY DEF FreezeStagingMints
<1>f. /\ fresh' \in FileIds /\ files'[fresh'] = mints
      /\ ws.active.path # None => files'[ws.active.path] = files[ws.active.path]
      /\ ws.staging.phase # "disabled" /\ ws.staging.path # None
            => files'[ws.staging.path] = files[ws.staging.path]
  BY <1>0, <1>a, GenUp, WriteStable DEF FreezeStagingMints
<1>c. /\ job' \in NewerFulls(dir, ws.active.full) /\ pc' = "begin"
      /\ ws.staging.phase = "disabled"
  BY DEF FreezeStagingMints, NewGenerations, Furthest
<1>d. ws.active.full = None \/ job'.slot > ws.active.full
  BY <1>c DEF NewerFulls
<1>e. incr = None
  BY <1>0, <1>c, GenUp DEF StageInv, StageOK
<1>1. LanesOK(ws)'
  BY <1>0, <1>w, GenUp, LanesSame
<1>2. ActiveTables(ws.active, ActiveGroup(ws))'
  BY <1>0, GenUp, <1>b, <1>w, <1>a, <1>f, <1>c, <1>d, <1>e
  DEF FreezeStagingMints, DispatchRound, StagingRound, Round, ActiveTables, StagingTables,
      ActiveGroup, StagingGroup, Loaded, SlotOrZero
<1>3. StagingTables(ws.staging, StagingGroup(ws))'
  BY <1>0, GenUp, <1>b, <1>w, <1>a, <1>f, <1>c, <1>d, <1>e
  DEF FreezeStagingMints, DispatchRound, StagingRound, Round, ActiveTables, StagingTables,
      ActiveGroup, StagingGroup, Loaded, SlotOrZero
<1>4. MemoryOK'
  BY <1>0, GenUp, <1>b, <1>w, <1>a, <1>f, <1>c, <1>d, <1>e
  DEF FreezeStagingMints, DispatchRound, StagingRound, Round, MemoryOK, ActiveMemory,
      StagingMemory, FreshMemory, StagingFile, BootstrapPending, Starting, SlotOrZero
<1>5. BootWork' /\ SharedWork' /\ ActiveWork'
  BY <1>0, GenUp, <1>b, <1>w, <1>a, <1>f, <1>c, <1>d, <1>e
  DEF FreezeStagingMints, DispatchRound, StagingRound, Round, BootWork, SharedWork,
      ActiveWork, Booting
<1>6. BuildWork' /\ IncrWork'
  BY <1>0, GenUp, <1>b, <1>w, <1>a, <1>f, <1>c, <1>d, <1>e
  DEF FreezeStagingMints, DispatchRound, StagingRound, Round, BuildWork, IncrWork, NoBuild,
      NewBuild
<1>. QED
  BY <1>0, <1>w, <1>1, <1>2, <1>3, <1>4, <1>5, <1>6, GenFrom

(* A newer generation begins in staging. *)
LEMMA GenBeginSharedLoad ==
    ASSUME GenerationInv, StageInv', BeginSharedLoad
    PROVE  GenerationInv'
<1>. USE DEF memory, disk
<1>0. pc # "down" /\ pc' # "down"
  BY DEF BeginSharedLoad
<1>b. serving' = serving /\ Bak' = Bak
  BY DEF BeginSharedLoad, Bak
<1>w. /\ ws' \in States /\ journal' = ws'
      /\ ws'.active.phase = "incremental_loading" /\ ws'.active.full = ws.active.full
      /\ ws'.active.max = ws.active.max /\ ws'.active.path = ws.active.path
      /\ ws'.active.inflight = "full"
      /\ ws'.staging.phase = "full_loading" /\ ws'.staging.full = job.slot
      /\ ws'.staging.max = None /\ ws'.staging.path = fresh
      /\ ws'.cutover = None /\ ws'.shared \in SharedLoads
      /\ ws'.shared.full = job.slot /\ ws'.shared.resume = ws.active.max
      /\ fresh \in FileIds
  BY <1>0, GenUp, BeginSharedLoadFields
<1>a. /\ ws.active.phase = "ready" /\ ws.staging.phase = "disabled" /\ ws.cutover = None
      /\ ws.active.max # None /\ fresh # None /\ ws'.shared # None
      /\ job.slot \in Nat /\ job.slot # None /\ incr = None
      /\ build.pc \notin {"start", "reset", "import", "sent", "acked", "settle", "ok"}
      /\ tables[Bak].upto \in Nat
  BY <1>0, <1>w, GenUp, GroupTypes, SlotTypes, NoneAssumption, RecordsAssumption,
     WatcherAssumption, SMTT(60)
  DEF BeginSharedLoad, StageInv, StageOK, StateOK, Inv, TypeOK, ControlOK
<1>f. /\ ws'.active.path # None => files'[ws'.active.path] = files[ws'.active.path]
      /\ ws'.staging.phase # "disabled" /\ ws'.staging.path # None
            => files'[ws'.staging.path] = files[ws'.staging.path]
  BY <1>0, <1>w, <1>a, GenUp, CleanStable DEF BeginSharedLoad
<1>1. LanesOK(ws)'
  <2>1. ws.active.full = None \/ job.slot > ws.active.full
    BY <1>0, GenUp DEF BeginSharedLoad, SharedWork
  <2>2. SharedResumable(ws)'
    BY <1>w, <1>a DEF SharedResumable
  <2>3. LanesResumable(ws)'
    BY <1>w, <1>a, RecordsAssumption DEF LanesResumable, Loaded
  <2>. QED
    BY <1>w, <1>a, <2>1, <2>2, <2>3 DEF LanesOK
<1>2. ActiveTables(ws.active, ActiveGroup(ws))'
  BY <1>0, GenUp, <1>b, <1>w, <1>a, <1>f
  DEF BeginSharedLoad, ActiveTables, StagingTables, ActiveGroup, StagingGroup, Loaded,
      SlotOrZero
<1>3. StagingTables(ws.staging, StagingGroup(ws))'
  BY <1>0, GenUp, <1>b, <1>w, <1>a, <1>f
  DEF BeginSharedLoad, ActiveTables, StagingTables, ActiveGroup, StagingGroup, Loaded,
      SlotOrZero
<1>4. MemoryOK'
  BY <1>0, GenUp, <1>b, <1>w, <1>a, <1>f
  DEF BeginSharedLoad, MemoryOK, ActiveMemory, StagingMemory, FreshMemory, StagingFile,
      BootstrapPending, Starting, SlotOrZero
<1>5. BootWork' /\ SharedWork' /\ ActiveWork'
  BY <1>0, GenUp, <1>b, <1>w, <1>a, <1>f
  DEF BeginSharedLoad, BootWork, SharedWork, ActiveWork, Booting
<1>6. BuildWork' /\ IncrWork'
  BY <1>0, GenUp, <1>b, <1>w, <1>a, <1>f
  DEF BeginSharedLoad, BuildWork, IncrWork, NoBuild, NewBuild
<1>. QED
  BY <1>0, <1>w, <1>1, <1>2, <1>3, <1>4, <1>5, <1>6, GenFrom

(* Staging takes an incremental that continues its watermark. *)
LEMMA GenDispatchStaging ==
    ASSUME GenerationInv, StageInv', NEW dir \in SUBSET Archives, DispatchStaging(dir)
    PROVE  GenerationInv'
<1>. USE DEF memory, disk
<1>0. pc # "down" /\ pc' # "down"
  BY DEF DispatchStaging, DispatchRound, StagingRound, Round, StagingCandidates
<1>b. serving' = serving /\ Bak' = Bak
  BY DEF DispatchStaging, DispatchRound, StagingRound, Round, StagingCandidates, Bak
<1>w. /\ ws' \in States /\ journal' = ws'
      /\ ws'.active = ws.active
      /\ ws'.staging.phase = "incremental_loading" /\ ws'.staging.full = ws.staging.full
      /\ ws'.staging.max = ws.staging.max /\ ws'.staging.path = ws.staging.path
      /\ ws'.staging.inflight = "incremental"
      /\ ws'.cutover = ws.cutover /\ ws'.shared = ws.shared
  BY <1>0, GenUp, DispatchStagingFields
<1>a. /\ ws.staging.phase = "ready" /\ ws.cutover = None /\ ws.shared = None
      /\ ws.staging.path # None /\ stagingMints = files[ws.staging.path]
  BY <1>0, GenUp
  DEF DispatchStaging, DispatchRound, StagingRound, Round, StagingCandidates, LanesOK,
      LanesResumable, Loaded, StagingMemory, StagingFile, Starting, StateOK
<1>d. PICK a \in Archives : a.base <= ws.staging.max /\ SpawnIncremental(a)
  BY DEF DispatchStaging, StagingCandidates, StagingEligible, Furthest, EligibleIncrementals
<1>e. incr' = [pc |-> "start", archive |-> a, resume |-> ws.staging.max,
               mints |-> stagingMints]
  BY <1>d DEF SpawnIncremental
<1>1. LanesOK(ws)'
  BY <1>0, GenUp, <1>b, <1>w, <1>a, <1>d, <1>e
  DEF DispatchStaging, DispatchRound, StagingRound, Round, StagingCandidates, LanesOK,
      SharedResumable, LanesResumable, Loaded
<1>2. ActiveTables(ws.active, ActiveGroup(ws))'
  BY <1>0, GenUp, <1>b, <1>w, <1>a, <1>d, <1>e
  DEF DispatchStaging, DispatchRound, StagingRound, Round, StagingCandidates, ActiveTables,
      StagingTables, ActiveGroup, StagingGroup, Loaded, SlotOrZero
<1>3. StagingTables(ws.staging, StagingGroup(ws))'
  BY <1>0, GenUp, <1>b, <1>w, <1>a, <1>d, <1>e
  DEF DispatchStaging, DispatchRound, StagingRound, Round, StagingCandidates, ActiveTables,
      StagingTables, ActiveGroup, StagingGroup, Loaded, SlotOrZero
<1>4. MemoryOK'
  BY <1>0, GenUp, <1>b, <1>w, <1>a, <1>d, <1>e
  DEF DispatchStaging, DispatchRound, StagingRound, Round, StagingCandidates, MemoryOK,
      ActiveMemory, StagingMemory, FreshMemory, StagingFile, BootstrapPending, Starting,
      SlotOrZero
<1>5. BootWork' /\ SharedWork' /\ ActiveWork'
  BY <1>0, GenUp, <1>b, <1>w, <1>a, <1>d, <1>e
  DEF DispatchStaging, DispatchRound, StagingRound, Round, StagingCandidates, BootWork,
      SharedWork, ActiveWork, Booting
<1>6. BuildWork' /\ IncrWork'
  BY <1>0, GenUp, <1>b, <1>w, <1>a, <1>d, <1>e
  DEF DispatchStaging, DispatchRound, StagingRound, Round, StagingCandidates, BuildWork,
      IncrWork, NoBuild, NewBuild
<1>. QED
  BY <1>0, <1>w, <1>1, <1>2, <1>3, <1>4, <1>5, <1>6, GenFrom

(* Active has no use for it. *)
LEMMA GenDispatchStagingOnly ==
    ASSUME GenerationInv, StageInv', DispatchStagingOnly
    PROVE  GenerationInv'
<1>. USE DEF memory, disk
<1>0. pc # "down" /\ pc' # "down"
  BY DEF DispatchStagingOnly
<1>b. serving' = serving /\ Bak' = Bak
  BY DEF DispatchStagingOnly, Bak
<1>w. ws' = ws /\ journal' = ws'
  BY <1>0, GenUp DEF DispatchStagingOnly
<1>1. LanesOK(ws)'
  BY <1>0, <1>w, GenUp, LanesSame
<1>2. ActiveTables(ws.active, ActiveGroup(ws))'
  BY <1>0, GenUp, <1>b, <1>w
  DEF DispatchStagingOnly, ActiveTables, StagingTables, ActiveGroup, StagingGroup, Loaded,
      SlotOrZero
<1>3. StagingTables(ws.staging, StagingGroup(ws))'
  BY <1>0, GenUp, <1>b, <1>w
  DEF DispatchStagingOnly, ActiveTables, StagingTables, ActiveGroup, StagingGroup, Loaded,
      SlotOrZero
<1>4. MemoryOK'
  BY <1>0, GenUp, <1>b, <1>w
  DEF DispatchStagingOnly, MemoryOK, ActiveMemory, StagingMemory, FreshMemory, StagingFile,
      BootstrapPending, Starting, SlotOrZero
<1>5. BootWork' /\ SharedWork' /\ ActiveWork'
  BY <1>0, GenUp, <1>b, <1>w
  DEF DispatchStagingOnly, BootWork, SharedWork, ActiveWork, Booting
<1>6. BuildWork' /\ IncrWork'
  BY <1>0, GenUp, <1>b, <1>w DEF DispatchStagingOnly, BuildWork, IncrWork, NoBuild, NewBuild
<1>. QED
  BY <1>0, <1>w, <1>1, <1>2, <1>3, <1>4, <1>5, <1>6, GenFrom

-----------------------------------------------------------------------------
(* Crashes and restarts. *)

(* What the journal alone says. *)
LEMMA GenJournal ==
    ASSUME GenerationInv, journal # None
    PROVE  /\ StageInv /\ Inv /\ journal \in States /\ StateOK(journal) /\ LanesOK(journal)
           /\ ActiveTables(journal.active, ActiveGroup(journal))
           /\ StagingTables(journal.staging, StagingGroup(journal))
BY DEF GenerationInv, StageInv, Inv, TypeOK, Claims, TablesOK

(* A crash loses the threads and what they had begun, none of what is claimed; *)
(* the TRUNCATE of a bootstrap may be half done.                               *)
LEMMA GenCrash ==
    ASSUME GenerationInv, StageInv', Crash
    PROVE  GenerationInv'
<1>0. /\ pc # "down" /\ pc' = "down" /\ ws' = None /\ journal' = journal
      /\ serving' = serving /\ Bak' = Bak /\ files' = files
      /\ build'.pc = "none" /\ incr' = None
  BY DEF Crash, Bak, NoBuild
<1>1. journal = ws /\ journal # None
  BY <1>0, GenUp
<1>2. /\ ActiveTables(ws.active, ActiveGroup(ws))
      /\ StagingTables(ws.staging, StagingGroup(ws)) /\ LanesOK(ws)
  BY <1>0, GenUp
<1>3. /\ ActiveTables(journal.active, ActiveGroup(journal))'
      /\ StagingTables(journal.staging, StagingGroup(journal))'
  <2>1. CASE pc = "boot_start"
    <3>1. /\ ws.active.phase = "full_loading" /\ ws.staging.phase = "disabled"
          /\ ws.cutover = None /\ ws.active.max = None
      BY <1>0, <2>1, GenUp DEF StageInv, StageOK, StateOK, LanesOK, Booting
    <3>2. /\ tables'[Bak] = tables[Bak] /\ tables'[serving].upto \in Nat
          /\ tables'[serving].gen \in {None, tables[serving].gen}
      BY <1>0, <2>1, GenUp, TryResetGroup, GroupTypes DEF Crash, Contents
    <3>. QED
      BY <1>0, <1>1, <1>2, <3>1, <3>2
      DEF ActiveTables, StagingTables, ActiveGroup, StagingGroup, SlotOrZero, Loaded
  <2>2. CASE pc # "boot_start"
    <3>1. tables' = tables /\ merges' = merges
      BY <2>2 DEF Crash
    <3>. QED
      BY <1>0, <1>1, <1>2, <3>1
      DEF ActiveTables, StagingTables, ActiveGroup, StagingGroup, SlotOrZero
  <2>. QED
    BY <2>1, <2>2
<1>4. (\A w \in Claims : LanesOK(w) /\ TablesOK(w))'
  <2>1. Claims' = {journal'}
    BY <1>0, <1>1 DEF Claims
  <2>2. TablesOK(journal)' /\ LanesOK(journal)'
    BY <1>0, <1>1, <1>2, <1>3 DEF TablesOK, LanesOK, SharedResumable, LanesResumable
  <2>. QED
    BY <2>1, <2>2, SMTT(60) DEF LanesOK, SharedResumable, LanesResumable, TablesOK, ActiveTables,
       StagingTables, ActiveGroup, StagingGroup
<1>5. JournalOK' /\ MemoryOK'
  BY <1>0, <1>1 DEF JournalOK, MemoryOK, ActiveMemory, StagingMemory, FreshMemory, Starting
<1>6. WorkOK'
  BY <1>0 DEF WorkOK, BootWork, SharedWork, ActiveWork, BuildWork, IncrWork, Booting
<1>. QED
  BY <1>4, <1>5, <1>6 DEF GenerationInv

(* A restart reads the journal back. *)
LEMMA GenStartFromJournal ==
    ASSUME GenerationInv, StageInv', StartFromJournal
    PROVE  GenerationInv'
<1>. USE DEF memory, disk
<1>0. /\ journal # None /\ ws' = journal /\ journal' = journal /\ pc' = "starting"
      /\ serving' = serving /\ Bak' = Bak
  BY DEF StartFromJournal, Bak
<1>1. LanesOK(ws)'
  BY <1>0, GenJournal DEF LanesOK, SharedResumable, LanesResumable
<1>2. /\ ActiveTables(ws.active, ActiveGroup(ws))'
      /\ StagingTables(ws.staging, StagingGroup(ws))'
  BY <1>0, GenJournal
  DEF StartFromJournal, ActiveTables, StagingTables, ActiveGroup, StagingGroup, SlotOrZero
<1>3. MemoryOK'
  BY <1>0 DEF MemoryOK, ActiveMemory, StagingMemory, FreshMemory, Starting
<1>4. build'.pc = "none" /\ incr' = None
  BY DEF StartFromJournal, GenerationInv, StageInv, StageOK, Starting
<1>5. BootWork' /\ SharedWork' /\ ActiveWork' /\ BuildWork' /\ IncrWork'
  BY <1>0, <1>4 DEF BootWork, SharedWork, ActiveWork, BuildWork, IncrWork, Booting
<1>. QED
  BY <1>0, <1>1, <1>2, <1>3, <1>5, GenFrom

(* The first start of all: the estimate is at most what the rows say. *)
LEMMA GenStartRecovered ==
    ASSUME GenerationInv, StageInv', StartRecovered
    PROVE  GenerationInv'
<1>. USE DEF memory, disk
<1>0. journal = None /\ pc' = "starting" /\ serving' = serving /\ Bak' = Bak /\ Inv
  BY DEF StartRecovered, Bak, GenerationInv, StageInv
<1>w. /\ ws' \in States /\ journal' = ws'
      /\ ws'.active.phase = "ready" /\ ws'.active.path = None
      /\ ws'.active.full = None
      /\ ws'.active.max \in Nat
      /\ ws'.staging.phase = "disabled" /\ ws'.staging.max = None
      /\ ws'.cutover = None /\ ws'.shared = None
  BY <1>0, StartRecoveredFields
<1>a. /\ tables[serving].gen = None /\ tables[serving].mints = {} /\ serving \in merges
      /\ tables[serving].raw <= tables[serving].upto /\ serving \notin stray
  BY <1>0 DEF GenerationInv, JournalOK
<1>t. tables[serving].raw \in Nat /\ tables[serving].upto \in Nat /\ tables[Bak].upto \in Nat
  BY <1>0, GroupTypes DEF Contents
<1>m. ws'.active.max = ResumeSlotFromMax(tables[serving].raw)
  <2>1. PICK max \in RawMaxima(serving) : Checkpoint(RecoveredActiveOnly(ResumeSlotFromMax(max)))
    BY DEF StartRecovered
  <2>2. max = tables[serving].raw
    BY <1>a, <2>1 DEF RawMaxima
  <2>. QED
    BY <2>1, <2>2, <1>t, WatcherAssumption, RecoveredEdit DEF Checkpoint, ResumeSlotFromMax
<1>c. ws'.active.max <= tables[serving].upto
  BY <1>m, <1>a, <1>t, WatcherAssumption DEF ResumeSlotFromMax
<1>1. LanesOK(ws)'
  BY <1>w, NoneAssumption DEF LanesOK, SharedResumable, LanesResumable, Loaded
<1>2. ActiveTables(ws.active, ActiveGroup(ws))'
  BY <1>0, <1>w, <1>a, <1>c, NoneAssumption
  DEF StartRecovered, ActiveTables, ActiveGroup, SlotOrZero, Loaded
<1>3. StagingTables(ws.staging, StagingGroup(ws))'
  BY <1>0, <1>w, <1>t DEF StartRecovered, StagingTables, StagingGroup, SlotOrZero, Loaded
<1>4. MemoryOK'
  BY <1>0 DEF MemoryOK, ActiveMemory, StagingMemory, FreshMemory, Starting
<1>5. build'.pc = "none" /\ incr' = None
  BY DEF StartRecovered, GenerationInv, StageInv, StageOK, Starting
<1>6. BootWork' /\ SharedWork' /\ ActiveWork' /\ BuildWork' /\ IncrWork'
  BY <1>0, <1>5 DEF BootWork, SharedWork, ActiveWork, BuildWork, IncrWork, Booting
<1>. QED
  BY <1>0, <1>w, <1>1, <1>2, <1>3, <1>4, <1>6, GenFrom

-----------------------------------------------------------------------------
(* The invariant and what it shows. *)

(* GenerationInv holds of everything the watcher may find when it first starts. *)
LEMMA GenInit == Init => GenerationInv
<1>. SUFFICES ASSUME Init PROVE GenerationInv
  OBVIOUS
<1>0. /\ pc = "down" /\ ws = None /\ build.pc = "none" /\ incr = None
      /\ serving = "g1" /\ Bak = "g2" /\ merges = Groups
  BY DEF Init, NoBuild, Bak, Other
<1>1. MemoryOK /\ WorkOK
  BY <1>0 DEF MemoryOK, ActiveMemory, StagingMemory, FreshMemory, Starting,
     WorkOK, BootWork, SharedWork, ActiveWork, BuildWork, IncrWork, Booting
<1>t. /\ \A s, m : LET t == Historical(s, m) IN
            t.gen = None /\ t.mints = m /\ t.raw = s /\ t.upto = s
      /\ Truncated.gen = None /\ Truncated.mints = {} /\ Truncated.raw = 0
      /\ Truncated.upto = 0
  BY DEF Historical, Truncated
<1>2. CASE InitNoJournal
  <2>1. tables["g1"] \in Filled({}) /\ journal = None
    BY <1>2 DEF InitNoJournal, Groups
  <2>2. /\ tables["g1"].gen = None /\ tables["g1"].mints = {}
        /\ tables["g1"].raw <= tables["g1"].upto
    <3>1. tables["g1"] = Truncated \/ \E s \in FullSlots : tables["g1"] = Historical(s, {})
      BY <2>1 DEF Filled
    <3>2. CASE tables["g1"] = Truncated
      BY <3>2, <1>t
    <3>3. CASE \E s \in FullSlots : tables["g1"] = Historical(s, {})
      <4>1. PICK s \in FullSlots : tables["g1"] = Historical(s, {})
        BY <3>3
      <4>2. tables["g1"].raw = s /\ tables["g1"].upto = s /\ s \in Nat
        BY <4>1, <1>t, SlotTypes
      <4>. QED
        BY <4>1, <4>2, <1>t
    <3>. QED
      BY <3>1, <3>2, <3>3
  <2>3. JournalOK
    BY <1>0, <2>2 DEF Init, JournalOK, Groups
  <2>4. Claims = {}
    BY <1>0, <2>1 DEF Claims
  <2>. QED
    BY <1>1, <2>3, <2>4, StageInit DEF GenerationInv
<1>3. CASE InitBootstrapJournal
  <2>1. /\ journal.active.phase = "waiting_for_full" /\ journal.staging.phase = "disabled"
        /\ journal.active.max = None /\ journal.active.full = None
        /\ journal.staging.max = None /\ journal.cutover = None /\ journal.shared = None
    BY <1>3 DEF InitBootstrapJournal, RecoveredActiveOnly, WaitingForFull, Disabled
  <2>2. tables["g1"] \in Filled({}) /\ tables["g2"] \in Filled({})
    BY <1>3 DEF InitBootstrapJournal, Groups
  <2>3. tables["g1"].gen = None /\ tables["g1"].upto \in Nat /\ tables["g2"].upto \in Nat
    BY <2>2, <1>t, SlotTypes DEF Filled
  <2>4. journal \in States
    BY <1>3, NewLanes DEF InitBootstrapJournal, RecoveredActiveOnly, States
  <2>5. LanesOK(journal)
    BY <2>1 DEF LanesOK, SharedResumable, LanesResumable, Loaded
  <2>6. TablesOK(journal)
    BY <1>0, <2>1, <2>3 DEF TablesOK, ActiveTables, StagingTables, ActiveGroup, StagingGroup,
       SlotOrZero, Loaded
  <2>7. journal # None /\ Claims = {journal}
    BY <1>0, <2>4, RecordsAssumption DEF Claims
  <2>8. JournalOK
    BY <1>0, <2>7 DEF JournalOK
  <2>. QED
    BY <1>1, <2>5, <2>6, <2>7, <2>8, StageInit DEF GenerationInv
<1>4. CASE InitMigratedJournal
  <2>1. PICK s \in FullSlots, f \in FileIds, mints \in MintSets :
           /\ journal \in MigratedJournals(s, f)
           /\ files = [NoFiles EXCEPT ![f] = mints]
           /\ tables = [g \in Groups |->
                          IF g = "g1" THEN Historical(s, {mints}) ELSE Truncated]
    BY <1>4 DEF InitMigratedJournal
  <2>2. /\ journal \in States
        /\ journal.active.phase \in {"ready", "incremental_loading"}
        /\ journal.active.path = f
        /\ journal.active.phase = "incremental_loading" => journal.active.inflight = "full"
        /\ journal.active.max = s /\ journal.active.full = None
        /\ journal.staging.phase \in {"disabled", "full_loading"}
        /\ journal.staging.max = None
        /\ journal.staging.phase = "full_loading" => journal.staging.full \in FullSlots
        /\ journal.cutover = None /\ journal.shared = None
    BY <2>1, MigratedFields
  <2>3. /\ tables["g1"].gen = None /\ tables["g1"].upto = s /\ tables["g1"].mints = {mints}
        /\ tables["g2"].upto = 0
    BY <2>1, <1>t DEF Groups
  <2>4. files[f] = mints /\ f # None /\ s \in Nat /\ s # None
    BY <2>1, SlotTypes, WatcherAssumption, NoneAssumption DEF NoFiles
  <2>5. LanesOK(journal)
    BY <2>2, <2>4, SlotTypes, NoneAssumption, RecordsAssumption
    DEF LanesOK, SharedResumable, LanesResumable, Loaded
  <2>6. TablesOK(journal)
    BY <1>0, <2>2, <2>3, <2>4 DEF TablesOK, ActiveTables, StagingTables, ActiveGroup,
       StagingGroup, SlotOrZero, Loaded, Groups
  <2>7. journal # None /\ Claims = {journal}
    BY <1>0, <2>2, RecordsAssumption DEF Claims
  <2>8. JournalOK
    BY <1>0, <2>7 DEF JournalOK
  <2>. QED
    BY <1>1, <2>5, <2>6, <2>7, <2>8, StageInit DEF GenerationInv
<1>. QED
  BY <1>2, <1>3, <1>4 DEF Init

(* GenerationInv only looks at the variables. *)
LEMMA GenStutter == GenerationInv /\ StageInv' /\ UNCHANGED vars => GenerationInv'
<1>. SUFFICES ASSUME GenerationInv, StageInv', UNCHANGED vars PROVE GenerationInv'
  OBVIOUS
<1>0. Bak' = Bak
  BY DEF vars, Bak
<1>1. JournalOK' /\ MemoryOK'
  BY DEF vars, GenerationInv, JournalOK, MemoryOK, ActiveMemory, StagingMemory, FreshMemory,
     StagingFile, BootstrapPending
<1>2. WorkOK'
  BY <1>0
  DEF vars, GenerationInv, WorkOK, BootWork, SharedWork, ActiveWork, BuildWork, IncrWork
<1>3. (\A w \in Claims : LanesOK(w) /\ TablesOK(w))'
  BY <1>0, SMTT(60) DEF vars, GenerationInv, Claims, LanesOK, SharedResumable, LanesResumable,
     TablesOK, ActiveTables, StagingTables, ActiveGroup, StagingGroup
<1>. QED
  BY <1>1, <1>2, <1>3 DEF GenerationInv

(* GenerationInv is inductive while there is no operator fault. *)
LEMMA GenStep ==
    ASSUME Faults = {}, GenerationInv, [Next]_vars
    PROVE  GenerationInv'
<1>0. StageInv'
  BY StageStep DEF GenerationInv
<1>1. CASE Crash \/ StateFileLost
  BY <1>0, <1>1, GenCrash DEF StateFileLost
<1>2. CASE Startup
  BY <1>0, <1>2, GenStartFromJournal, GenStartRecovered, GenStartupCleanup,
     GenLoadMints, GenFreezeActiveMints, GenAdoptActiveMints DEF Startup, StartBootstrap
<1>3. CASE Threads \/ BuildFails \/ StragglerInserts
  BY <1>0, <1>3, GenBuildReset, GenBuildImport, GenBuildImported, GenBuildStartMerges,
     GenBuildSettled, GenBuildFails, GenStragglerInserts, GenIncrImport, GenIncrImported DEF Threads
<1>4. CASE Watcher
  BY <1>0, <1>4, GenFreezeBuildMints, GenAckBuild, GenBuildDone, GenBuildFailed,
     GenIncrDone, GenBeginCutover, GenExchange, GenFinishCutover, GenSharedReset,
     GenSharedResetFails, GenFanoutFails, GenFanoutImported, GenSharedCommit,
     GenActiveMergeWait, GenBootstrapReset, GenBootstrapImport, GenBootstrapImported,
     GenBootstrapCommit, GenActiveImport, GenActiveImported, GenActiveCommit,
     GenSpawnMergeWait, GenBeginSharedLoad, GenDispatchBoth, GenDispatchStagingOnly
  DEF Watcher, SharedCommitFails
<1>5. CASE \E dir \in SUBSET Archives : Scan(dir)
  <2>1. PICK dir \in SUBSET Archives : Scan(dir)
    BY <1>5
  <2>. QED
    BY <1>0, <2>1, GenFanoutBegin, GenResumeBootstrap, GenFirstBootstrap,
       GenResumeActive, GenAbandonActive, GenSpawnStagingFull, GenResumeStaging,
       GenAbandonStaging, GenFreezeStagingMints, GenDispatchStaging, GenDispatchActive
    DEF Scan
<1>6. CASE UNCHANGED vars
  BY <1>0, <1>6, GenStutter
<1>. QED
  BY <1>1, <1>2, <1>3, <1>4, <1>5, <1>6 DEF Next

(* The invariant behind the theorems below.  It needs Faults = {}: --bootstrap *)
(* and a lost state file take the watermark from rows an unfinished import may *)
(* have written, and a failed persist leaves memory ahead of the journal.      *)
THEOREM GenerationInvHolds ==
    ASSUME Faults = {}
    PROVE  Spec => []GenerationInv
<1>1. GenerationInv /\ [Next]_vars => GenerationInv'
  BY GenStep
<1>. QED
  BY <1>1, GenInit, PTL DEF Spec

(* No crash, failed import, retry or cutover makes a checkpoint claim a slot    *)
(* whose changes are not in the lane's tables.                                  *)
THEOREM WatermarksAreBacked ==
    ASSUME Faults = {}
    PROVE  Spec => []WatermarkBacked
<1>1. GenerationInv => WatermarkBacked
  BY DEF GenerationInv, WatermarkBacked, TablesOK, ActiveTables, StagingTables
<1>. QED
  BY <1>1, GenerationInvHolds, PTL

(* A lane beyond full_loading stands on the whole baseline of its full archive. *)
THEOREM GenerationsAreComplete ==
    ASSUME Faults = {}
    PROVE  Spec => []GenerationComplete
<1>1. GenerationInv => GenerationComplete
  BY DEF GenerationInv, GenerationComplete, TablesOK, ActiveTables, StagingTables
<1>. QED
  BY <1>1, GenerationInvHolds, PTL

(* The mint file a lane names holds the set that filtered all of its imports.   *)
THEOREM FrozenMintsAreThose ==
    ASSUME Faults = {}
    PROVE  Spec => []FrozenMintsHold
<1>1. GenerationInv => FrozenMintsHold
  BY DEF GenerationInv, FrozenMintsHold, TablesOK, ActiveTables, StagingTables
<1>. QED
  BY <1>1, GenerationInvHolds, PTL

(* No lane that takes incrementals has its merges stopped, wherever a crash     *)
(* came between STOP MERGES, START MERGES and the checkpoints around them.      *)
THEOREM MergesKeepRunning ==
    ASSUME Faults = {}
    PROVE  Spec => []MergesRun
<1>1. GenerationInv => MergesRun
  BY DEF GenerationInv, MergesRun, TablesOK, ActiveTables, StagingTables
<1>. QED
  BY <1>1, GenerationInvHolds, PTL

(* What a restart reads satisfies every ok_or and phase check on its way, and   *)
(* validate_staging_group: no journal makes the watcher exit for ever.          *)
THEOREM JournalsAreResumable ==
    ASSUME Faults = {}
    PROVE  Spec => []JournalResumable
<1>1. GenerationInv => JournalResumable
  <2>. SUFFICES ASSUME GenerationInv, NEW w \in Claims
                PROVE  SharedResumable(w) /\ LanesResumable(w) /\ CutoverResumable(w)
    BY DEF JournalResumable
  <2>1. StateOK(w) /\ LanesOK(w) /\ StagingTables(w.staging, StagingGroup(w)) /\ w \in States
    BY DEF GenerationInv, StageInv, TablesOK, Inv, TypeOK, Claims
  <2>2. w.cutover # None => serving \in {w.cutover.active, w.cutover.staging}
    BY <2>1, StateFields
    DEF LanesOK, GenerationInv, StageInv, Inv, TypeOK, Cutovers, Groups, Other
  <2>. QED
    BY <2>1, <2>2 DEF LanesOK, CutoverResumable, StateOK, StagingTables, Loaded
<1>. QED
  BY <1>1, GenerationInvHolds, PTL

(* What an exchange puts in service, first tried or repeated after a crash, is  *)
(* a whole, merging generation of a newer full archive.                         *)
THEOREM CutoversPromoteNewer ==
    ASSUME Faults = {}
    PROVE  Spec => CutoverPromotesNewer
<1>1. GenerationInv /\ [Next]_vars =>
        [serving' # serving =>
           /\ tables[serving'].base = "complete" /\ serving' \in merges
           /\ tables[serving'].gen # None
           /\ tables[serving].gen # None => tables[serving'].gen > tables[serving].gen]_vars
  <2>. SUFFICES ASSUME GenerationInv, [Next]_vars, serving' # serving
                PROVE  /\ tables[serving'].base = "complete" /\ serving' \in merges
                       /\ tables[serving'].gen # None
                       /\ tables[serving].gen # None => tables[serving'].gen > tables[serving].gen
    OBVIOUS
  <2>1. Exchange
    <3>1. ~Startup /\ ~Threads /\ ~BuildFails /\ ~StragglerInserts /\ ~Crash /\ ~StateFileLost
      BY DEF disk, Startup, StartFromJournal, StartRecovered, StartBootstrap, StartupCleanup,
         LoadMints, FreezeActiveMints, AdoptActiveMints, Threads, BuildReset, BuildImport,
         BuildImported, BuildStartMerges, BuildSettled, BuildFails, StragglerInserts, IncrImport,
         IncrImported, Crash, StateFileLost
    <3>2. Watcher => Exchange
      BY DEF disk, Watcher, FreezeBuildMints, AckBuild, BuildDone, BuildFailed, IncrDone,
         BeginCutover, FinishCutover, SharedReset, SharedResetFails, FanoutFails,
         FanoutImported, SharedCommit, SharedCommitFails, ActiveMergeWait, BootstrapReset,
         BootstrapImport, BootstrapImported, BootstrapCommit, ActiveImport, ActiveImported,
         ActiveCommit, SpawnMergeWait, BeginSharedLoad, DispatchBoth, BeginActive,
         DispatchStagingOnly
    <3>3. \A dir \in SUBSET Archives : ~Scan(dir)
      BY DEF disk, Scan, FanoutBegin, ResumeBootstrap, FirstBootstrap, BootstrapFull,
         ResumeActive, BeginActive, AbandonActive, SpawnStagingFull, ResumeStaging,
         AbandonStaging, FreezeStagingMints, DispatchStaging, DispatchActive
    <3>. QED
      BY <3>1, <3>2, <3>3 DEF Next, vars
  <2>2. /\ ws.cutover # None /\ ws.staging.phase = "cutover_pending" /\ pc # "down"
        /\ serving = ws.cutover.active /\ serving' = ws.cutover.staging
    BY <2>1 DEF Exchange, Exchanged, CutoverDue
  <2>3. /\ LanesOK(ws) /\ ActiveTables(ws.active, serving)
        /\ StagingTables(ws.staging, serving')
    BY <2>2, GenUp DEF ActiveGroup, StagingGroup
  <2>. QED
    BY <2>2, <2>3 DEF LanesOK, ActiveTables, StagingTables, Loaded
<1>. QED
  BY <1>1, GenerationInvHolds, PTL DEF Spec, CutoverPromotesNewer

=============================================================================

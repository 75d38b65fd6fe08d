----------------------- MODULE SnapshotWatcherProofs -----------------------
(***************************************************************************)
(* Proofs about SnapshotWatcher for every catalogue of archives, every     *)
(* set of mint sets and file names, every rewind and every choice of       *)
(* Faults: its type invariant, and that the frozen hot-mint file a working *)
(* lane names is always on disk.                                           *)
(***************************************************************************)
EXTENDS SnapshotWatcher, TLAPS

-----------------------------------------------------------------------------
(* The edits of a lane and of a WatcherState: what they return, field by    *)
(* field.                                                                   *)

(* What the names of archives give: natural slots, and fulls end at full slots. *)
LEMMA SlotTypes ==
    /\ FullSlots \subseteq Nat
    /\ \A a \in Archives : a.slot \in Nat /\ a.base \in Nat
    /\ \A a \in Archives : a.kind \in {"full", "incremental"}
    /\ \A a \in Archives : a.kind = "full" => a.slot \in FullSlots
BY ArchivesAssumption DEF FullSlots

(* The fields of a lane (LaneWatcherState) have their types. *)
LEMMA LaneFields ==
    ASSUME NEW lane \in Lanes
    PROVE  /\ lane.phase \in Phases /\ lane.path \in FileIds \cup {None}
           /\ lane.max \in Slots /\ lane.full \in FullSlots \cup {None}
           /\ lane.inflight \in {"full", "incremental", None}
BY DEF Lanes

(* The lanes that WatcherState's constructors make are lanes, and name no file. *)
LEMMA NewLanes ==
    /\ Disabled \in Lanes /\ Disabled.phase = "disabled" /\ Disabled.path = None
    /\ Disabled.max = None /\ Disabled.full = None
    /\ WaitingForFull \in Lanes /\ WaitingForFull.phase = "waiting_for_full"
    /\ WaitingForFull.path = None /\ WaitingForFull.max = None /\ WaitingForFull.full = None
    /\ \A full \in FullSlots :
          /\ FullLoading(full) \in Lanes /\ FullLoading(full).phase = "full_loading"
          /\ FullLoading(full).path = None
          /\ FullLoading(full).max = None /\ FullLoading(full).full = full
BY DEF Disabled, WaitingForFull, FullLoading, Lanes, Phases, Slots

(* Moving a lane to a phase, with work in flight, keeps its mint file. *)
LEMMA LaneAtEdit ==
    ASSUME NEW lane \in Lanes, NEW phase \in Phases,
           NEW kind \in {"full", "incremental", None}
    PROVE  /\ LaneAt(lane, phase, kind) \in Lanes
           /\ LaneAt(lane, phase, kind).phase = phase
           /\ LaneAt(lane, phase, kind).path = lane.path
           /\ LaneAt(lane, phase, kind).full = lane.full
           /\ LaneAt(lane, phase, kind).max = lane.max
           /\ LaneAt(lane, phase, kind).inflight = kind
BY DEF LaneAt, Lanes

(* Recording an imported slot (max_slot) in a lane keeps its mint file. *)
LEMMA LaneImportedEdit ==
    ASSUME NEW lane \in Lanes, NEW phase \in Phases, NEW slot \in Nat
    PROVE  /\ LaneImported(lane, phase, slot) \in Lanes
           /\ LaneImported(lane, phase, slot).phase = phase
           /\ LaneImported(lane, phase, slot).path = lane.path
           /\ LaneImported(lane, phase, slot).full = lane.full
           /\ LaneImported(lane, phase, slot).max = slot
BY DEF LaneImported, Lanes, Slots

(* Naming another mint file in a lane (hot_mints_path) keeps its phase. *)
LEMMA WithPathEdit ==
    ASSUME NEW lane \in Lanes, NEW path \in FileIds \cup {None}
    PROVE  /\ WithPath(lane, path) \in Lanes
           /\ WithPath(lane, path).phase = lane.phase
           /\ WithPath(lane, path).path = path
           /\ WithPath(lane, path).full = lane.full /\ WithPath(lane, path).max = lane.max
           /\ WithPath(lane, path).inflight = lane.inflight
BY DEF WithPath, Lanes

(* A lane whose merges settled is ready and keeps its mint file. *)
LEMMA SettledEdit ==
    ASSUME NEW lane \in Lanes
    PROVE  /\ Settled(lane) \in Lanes
           /\ Settled(lane).phase = "ready" /\ Settled(lane).path = lane.path
           /\ Settled(lane).full = lane.full /\ Settled(lane).max = lane.max
           /\ Settled(lane).inflight = lane.inflight
BY DEF Settled, Lanes, Phases

(* clear_disabled_hot_mints_paths on one lane: only a disabled lane loses its file. *)
LEMMA ClearPathEdit ==
    ASSUME NEW lane \in Lanes
    PROVE  /\ ClearPath(lane) \in Lanes /\ ClearPath(lane).phase = lane.phase
           /\ ClearPath(lane).path = IF lane.phase = "disabled" THEN None ELSE lane.path
           /\ ClearPath(lane).full = lane.full /\ ClearPath(lane).max = lane.max
           /\ ClearPath(lane).inflight = lane.inflight
BY WithPathEdit DEF ClearPath

(* The fields of a WatcherState have their types. *)
LEMMA StateFields ==
    ASSUME NEW w \in States
    PROVE  /\ w.active \in Lanes /\ w.staging \in Lanes
           /\ w.cutover \in Cutovers \cup {None} /\ w.shared \in SharedLoads \cup {None}
BY DEF States

(* An edit of the active lane of a WatcherState leaves staging alone. *)
LEMMA ActiveEdit ==
    ASSUME NEW w \in States, NEW lane \in Lanes
    PROVE  LET v == [w EXCEPT !.active = lane]
           IN  /\ v \in States /\ v.active = lane /\ v.staging = w.staging
               /\ v.cutover = w.cutover /\ v.shared = w.shared
BY DEF States

(* An edit of the staging lane of a WatcherState leaves active alone. *)
LEMMA StagingEdit ==
    ASSUME NEW w \in States, NEW lane \in Lanes
    PROVE  LET v == [w EXCEPT !.staging = lane]
           IN  /\ v \in States /\ v.active = w.active /\ v.staging = lane
               /\ v.cutover = w.cutover /\ v.shared = w.shared
BY DEF States

(* recovered_active_only: active is ready, staging disabled, no file is named. *)
LEMMA RecoveredEdit ==
    ASSUME NEW max \in Nat
    PROVE  LET v == RecoveredActiveOnly(max) IN
           /\ v \in States
           /\ v.active.phase = "ready" /\ v.active.path = None
           /\ v.staging.phase = "disabled" /\ v.staging.path = None
           /\ v.active.max = max /\ v.active.full = None
           /\ v.staging.max = None /\ v.staging.full = None
           /\ v.cutover = None /\ v.shared = None
BY DEF RecoveredActiveOnly, Disabled, States, Lanes, Phases, Slots

(* clear_disabled_hot_mints_paths edits each lane by itself. *)
LEMMA ClearedEdit ==
    ASSUME NEW w \in States
    PROVE  LET v == ClearDisabledPaths(w) IN
           /\ v \in States
           /\ v.active = ClearPath(w.active) /\ v.staging = ClearPath(w.staging)
           /\ v.cutover = w.cutover /\ v.shared = w.shared
<1>1. ClearPath(w.active) \in Lanes /\ ClearPath(w.staging) \in Lanes
  BY StateFields, ClearPathEdit
<1>. QED
  BY <1>1 DEF ClearDisabledPaths, States

(* begin_shared_full_load: active keeps its file, staging names the new one. *)
LEMMA BeginSharedEdit ==
    ASSUME NEW w \in States, NEW full \in FullSlots, NEW path \in FileIds,
           w.active.max \in Nat
    PROVE  LET v == BeginShared(w, full, path) IN
           /\ v \in States
           /\ v.active.phase = "incremental_loading" /\ v.active.path = w.active.path
           /\ v.active.full = w.active.full /\ v.active.max = w.active.max
           /\ v.active.inflight = "full"
           /\ v.staging.phase = "full_loading" /\ v.staging.path = path
           /\ v.staging.full = full /\ v.staging.max = None
           /\ v.cutover = None /\ v.shared \in SharedLoads
           /\ v.shared.full = full /\ v.shared.resume = w.active.max
<1>1. LET l == LaneLoading(w.active, "full")
      IN  /\ l \in Lanes /\ l.phase = "incremental_loading" /\ l.path = w.active.path
          /\ l.full = w.active.full /\ l.max = w.active.max /\ l.inflight = "full"
  BY StateFields, LaneAtEdit DEF LaneLoading, Phases
<1>2. LET l == WithPath(FullLoading(full), path)
      IN  /\ l \in Lanes /\ l.phase = "full_loading" /\ l.path = path
          /\ l.full = full /\ l.max = None
  BY NewLanes, WithPathEdit
<1>3. [full |-> full, resume |-> w.active.max] \in SharedLoads
  BY DEF SharedLoads
<1>. QED
  BY <1>1, <1>2, <1>3 DEF BeginShared, States

(* complete_shared_full_load's last edit: both lanes keep their files. *)
LEMMA CommitSharedEdit ==
    ASSUME NEW w \in States, NEW full \in FullSlots
    PROVE  LET v == CommitShared(w, full) IN
           /\ v \in States
           /\ v.active.phase = "ready" /\ v.active.path = w.active.path
           /\ v.active.full = w.active.full /\ v.active.max = full
           /\ v.staging.phase = "full_merging" /\ v.staging.path = w.staging.path
           /\ v.staging.full = w.staging.full /\ v.staging.max = full
           /\ v.cutover = w.cutover /\ v.shared = None
<1>0. /\ w.active \in Lanes /\ w.staging \in Lanes /\ full \in Nat
      /\ "ready" \in Phases /\ "full_merging" \in Phases
  BY StateFields, SlotTypes DEF Phases
<1>1. LET l == LaneImported(w.active, "ready", full)
      IN  /\ l \in Lanes /\ l.phase = "ready" /\ l.path = w.active.path
          /\ l.full = w.active.full /\ l.max = full
  BY <1>0, LaneImportedEdit
<1>2. LET l == LaneImported(w.staging, "full_merging", full)
      IN  /\ l \in Lanes /\ l.phase = "full_merging" /\ l.path = w.staging.path
          /\ l.full = w.staging.full /\ l.max = full
  BY <1>0, LaneImportedEdit
<1>. QED
  BY <1>1, <1>2 DEF CommitShared, States

(* The full-import handshake: staging is full_merging and names the new file. *)
LEMMA StagingImportedEdit ==
    ASSUME NEW w \in States, NEW full \in FullSlots, NEW path \in FileIds
    PROVE  LET v == StagingImported(w, full, path) IN
           /\ v \in States /\ v.active = w.active
           /\ v.staging.phase = "full_merging" /\ v.staging.path = path
           /\ v.staging.full = w.staging.full /\ v.staging.max = full
           /\ v.cutover = w.cutover /\ v.shared = w.shared
<1>. DEFINE l == LaneImported(w.staging, "full_merging", full)
<1>1. l \in Lanes /\ l.phase = "full_merging" /\ l.full = w.staging.full /\ l.max = full
  <2>1. w.staging \in Lanes /\ full \in Nat /\ "full_merging" \in Phases
    BY StateFields, SlotTypes DEF Phases
  <2>. QED
    BY <2>1, LaneImportedEdit
<1>2. WithPath(l, path) \in Lanes /\ WithPath(l, path).phase = "full_merging"
      /\ WithPath(l, path).path = path
      /\ WithPath(l, path).full = l.full /\ WithPath(l, path).max = l.max
  BY <1>1, WithPathEdit
<1>3. StagingImported(w, full, path) = [w EXCEPT !.staging = WithPath(l, path)]
  BY DEF StagingImported
<1>. HIDE DEF l
<1>. QED
  BY <1>1, <1>2, <1>3, StagingEdit

(* process_bootstrap_full's last edit: active is full_merging, with the new file. *)
LEMMA CommitBootstrapEdit ==
    ASSUME NEW w \in States, NEW full \in FullSlots, NEW path \in FileIds
    PROVE  LET v == CommitBootstrap(w, full, path) IN
           /\ v \in States /\ v.staging = w.staging
           /\ v.active.phase = "full_merging" /\ v.active.path = path
           /\ v.active.full = w.active.full /\ v.active.max = full
           /\ v.cutover = w.cutover /\ v.shared = w.shared
<1>. DEFINE l == LaneImported(w.active, "full_merging", full)
<1>1. l \in Lanes /\ l.phase = "full_merging" /\ l.full = w.active.full /\ l.max = full
  <2>1. w.active \in Lanes /\ full \in Nat /\ "full_merging" \in Phases
    BY StateFields, SlotTypes DEF Phases
  <2>. QED
    BY <2>1, LaneImportedEdit
<1>2. WithPath(l, path) \in Lanes /\ WithPath(l, path).phase = "full_merging"
      /\ WithPath(l, path).path = path
      /\ WithPath(l, path).full = l.full /\ WithPath(l, path).max = l.max
  BY <1>1, WithPathEdit
<1>3. CommitBootstrap(w, full, path) = [w EXCEPT !.active = WithPath(l, path)]
  BY DEF CommitBootstrap
<1>. HIDE DEF l
<1>. QED
  BY <1>1, <1>2, <1>3, ActiveEdit

(* process_bootstrap_full's first edit: no lane names a file. *)
LEMMA BeginBootstrapEdit ==
    ASSUME NEW w \in States, NEW full \in FullSlots
    PROVE  LET v == BeginBootstrap(w, full) IN
           /\ v \in States
           /\ v.active.phase = "full_loading" /\ v.active.path = None
           /\ v.active.full = full /\ v.active.max = None
           /\ v.staging.phase = "disabled" /\ v.staging.path = None
           /\ v.staging.full = None /\ v.staging.max = None
           /\ v.cutover = None /\ v.shared = w.shared
BY NewLanes DEF BeginBootstrap, States

(* Staging's first incremental is done: both lanes wait for the cutover, files kept. *)
LEMMA BothPendingEdit ==
    ASSUME NEW w \in States, NEW slot \in Nat
    PROVE  LET v == BothPending(w, slot) IN
           /\ v \in States
           /\ v.active.phase = "cutover_pending" /\ v.active.path = w.active.path
           /\ v.active.full = w.active.full /\ v.active.max = w.active.max
           /\ v.staging.phase = "cutover_pending" /\ v.staging.path = w.staging.path
           /\ v.staging.full = w.staging.full /\ v.staging.max = slot
           /\ v.cutover = w.cutover /\ v.shared = w.shared
<1>0. /\ w.active \in Lanes /\ w.staging \in Lanes /\ "cutover_pending" \in Phases
  BY StateFields DEF Phases
<1>1. LET l == LaneAt(w.active, "cutover_pending", None)
      IN  /\ l \in Lanes /\ l.phase = "cutover_pending" /\ l.path = w.active.path
          /\ l.full = w.active.full /\ l.max = w.active.max
  BY <1>0, LaneAtEdit
<1>2. LET l == LaneImported(w.staging, "cutover_pending", slot)
      IN  /\ l \in Lanes /\ l.phase = "cutover_pending" /\ l.path = w.staging.path
          /\ l.full = w.staging.full /\ l.max = slot
  BY <1>0, LaneImportedEdit
<1>. QED
  BY <1>1, <1>2 DEF BothPending, States

(* finish_cutover: active takes over staging's file, the disabled lane names none. *)
LEMMA PromotedEdit ==
    ASSUME NEW w \in States
    PROVE  LET v == Promoted(w) IN
           /\ v \in States
           /\ v.active.phase = "ready" /\ v.active.path = w.staging.path
           /\ v.active.full = w.staging.full /\ v.active.max = w.staging.max
           /\ v.staging.phase = "disabled" /\ v.staging.path = None
           /\ v.staging.full = w.active.full /\ v.staging.max = w.active.max
           /\ v.cutover = None /\ v.shared = None
<1>1. LET l == LaneReady(w.staging)
      IN  /\ l \in Lanes /\ l.phase = "ready" /\ l.path = w.staging.path
          /\ l.full = w.staging.full /\ l.max = w.staging.max
  BY StateFields, LaneAtEdit DEF LaneReady, Phases
<1>. DEFINE d == LaneAt(w.active, "disabled", None)
<1>2. d \in Lanes /\ d.phase = "disabled" /\ d.full = w.active.full /\ d.max = w.active.max
  BY StateFields, LaneAtEdit DEF Phases
<1>3. WithPath(d, None) \in Lanes /\ WithPath(d, None).phase = "disabled"
      /\ WithPath(d, None).path = None
      /\ WithPath(d, None).full = d.full /\ WithPath(d, None).max = d.max
  BY <1>2, WithPathEdit
<1>4. Promoted(w) = [active |-> LaneReady(w.staging), staging |-> WithPath(d, None),
                     cutover |-> None, shared |-> None]
  BY DEF Promoted
<1>5. /\ Promoted(w).active = LaneReady(w.staging) /\ Promoted(w).staging = WithPath(d, None)
      /\ Promoted(w).cutover = None /\ Promoted(w).shared = None
  BY <1>4
<1>. HIDE DEF d
<1>6. Promoted(w) \in States
  BY <1>1, <1>3, <1>4 DEF States
<1>. QED
  BY <1>1, <1>2, <1>3, <1>5, <1>6

-----------------------------------------------------------------------------
(* The steps that several handlers share. *)

(* TRUNCATE and every stage of an import leave a table group well-formed. *)
LEMMA ContentsEdits ==
    ASSUME NEW t \in Contents
    PROVE  /\ Reset(t) \in Contents /\ PartlyReset(t) \in Contents
           /\ \A slot \in FullSlots : EndFull(t, slot) \in Contents
           /\ \A slot \in FullSlots, mints \in MintSets :
                 BeginFull(t, slot, mints) \in Contents
           /\ \A a \in Archives, mints \in MintSets : BeginTail(t, a, mints) \in Contents
           /\ \A a \in Archives : \A resume : EndTail(t, a, resume) \in Contents
<1>1. Reset(t) \in Contents /\ PartlyReset(t) \in Contents
  BY DEF Reset, PartlyReset, Truncated, Contents, Bases
<1>2. \A slot \in FullSlots : EndFull(t, slot) \in Contents
  BY SlotTypes DEF EndFull, Contents, Bases
<1>3. \A slot \in FullSlots, mints \in MintSets : BeginFull(t, slot, mints) \in Contents
  BY SlotTypes DEF BeginFull, Contents, Bases, MaxOf
<1>4. \A a \in Archives, mints \in MintSets : BeginTail(t, a, mints) \in Contents
  BY SlotTypes DEF BeginTail, Contents, MaxOf
<1>5. \A a \in Archives : \A resume : EndTail(t, a, resume) \in Contents
  BY SlotTypes DEF EndTail, Contents, MaxOf
<1>. QED
  BY <1>1, <1>2, <1>3, <1>4, <1>5

(* The other table group is a table group. *)
LEMMA GroupsFact == \A g \in Groups : Other(g) \in Groups
BY DEF Groups, Other

(* A group's contents are replaced by contents. *)
LEMMA TablesEdit ==
    ASSUME NEW ts \in [Groups -> Contents], NEW g \in Groups, NEW t \in Contents
    PROVE  [ts EXCEPT ![g] = t] \in [Groups -> Contents]
OBVIOUS

(* reset_table_group keeps the types of the tables and of the merge switches. *)
LEMMA ResetGroupTypes ==
    ASSUME tables \in [Groups -> Contents], merges \in SUBSET Groups, serving \in Groups,
           stray \in SUBSET Groups, NEW g \in Groups, ResetGroup(g)
    PROVE  /\ tables' \in [Groups -> Contents] /\ merges' \in SUBSET Groups
           /\ stray' \in SUBSET Groups
BY ContentsEdits DEF ResetGroup

(* A reset that may fail half done keeps these types. *)
LEMMA TryResetTypes ==
    ASSUME tables \in [Groups -> Contents], merges \in SUBSET Groups,
           stray \in SUBSET Groups, NEW g \in Groups, TryReset(g)
    PROVE  /\ tables' \in [Groups -> Contents] /\ merges' \in SUBSET Groups
           /\ stray' \in SUBSET Groups
<1>1. PICK t \in {tables[g], PartlyReset(tables[g]), Reset(tables[g])} :
         tables' = [tables EXCEPT ![g] = t]
  BY DEF TryReset
<1>2. t \in Contents
  BY <1>1, ContentsEdits
<1>3. merges' \in SUBSET Groups /\ stray' \in SUBSET Groups
  BY DEF TryReset
<1>. QED
  BY <1>1, <1>2, <1>3, TablesEdit

(* reset_failed_staging, whether it works or not, keeps these types. *)
LEMMA ResetFailedStagingTypes ==
    ASSUME tables \in [Groups -> Contents], merges \in SUBSET Groups, serving \in Groups,
           stray \in SUBSET Groups, ResetFailedStaging
    PROVE  /\ tables' \in [Groups -> Contents] /\ merges' \in SUBSET Groups
           /\ stray' \in SUBSET Groups
<1>1. Bak \in Groups
  BY GroupsFact DEF Bak
<1>. QED
  BY <1>1, TryResetTypes DEF ResetFailedStaging

(* cleanup_unused_frozen_hot_mints leaves the file of every working lane alone. *)
LEMMA CleanupKeeps ==
    ASSUME files \in [FileIds -> MintSets \cup {None}], NEW w \in States, Cleanup(w)
    PROVE  /\ files' \in [FileIds -> MintSets \cup {None}]
           /\ \A lane \in {w.active, w.staging} :
                 lane.phase # "disabled" /\ lane.path \in FileIds
                     => files'[lane.path] = files[lane.path]
BY DEF Cleanup, Referenced

(* persist_frozen_hot_mints adds a file and removes none. *)
LEMMA WriteMintsKeeps ==
    ASSUME files \in [FileIds -> MintSets \cup {None}], NEW mints \in MintSets,
           WriteMints(mints)
    PROVE  /\ files' \in [FileIds -> MintSets \cup {None}]
           /\ fresh' \in FileIds /\ files'[fresh'] # None
           /\ \A f \in FileIds : files[f] # None => files'[f] # None
BY WatcherAssumption DEF WriteMints

-----------------------------------------------------------------------------
(* The inductive invariant: every step keeps Inv. *)

(* MintFilesKept after a checkpoint asks only about the state just persisted. *)
LEMMA CheckpointKeeps ==
    ASSUME NEW v \in States, Checkpoint(v),
           v.active.phase # "disabled",
           v.active.path # None => files'[v.active.path] # None,
           v.staging.phase # "disabled" /\ v.staging.path # None
               => files'[v.staging.path] # None,
           v.staging.phase = "disabled" => v.staging.path = None,
           fresh' # None <=> pc' \in {"adopt", "handshake", "begin", "boot_frozen"},
           fresh' # None => files'[fresh'] # None
    PROVE  MintFilesKept'
BY DEF Checkpoint, MintFilesKept, LaneKept, Claims

(* A crash keeps Inv: the journal and the files stay, memory is gone. *)
LEMMA KeepCrash ==
    ASSUME Inv, Crash
    PROVE  Inv'
<1>1. /\ tables' \in [Groups -> Contents] /\ merges' \in SUBSET Groups
      /\ stray' \in SUBSET Groups
  <2>1. CASE pc = "boot_start"
    BY <2>1, TryResetTypes DEF Inv, TypeOK, Crash
  <2>2. CASE pc # "boot_start"
    BY <2>2 DEF Inv, TypeOK, Crash
  <2>. QED
    BY <2>1, <2>2
<1>2. TypeOK'
  BY <1>1 DEF Inv, TypeOK, Crash, Builds, BuildSteps, NoBuild, late
<1>3. MintFilesKept' /\ ControlOK'
  BY RecordsAssumption
     DEF Inv, TypeOK, MintFilesKept, LaneKept, Claims, ControlOK, Crash, NoBuild
<1>. QED
  BY <1>2, <1>3 DEF Inv

(* Losing the state file keeps Inv: no journal claims nothing. *)
LEMMA KeepStateFileLost ==
    ASSUME Inv, StateFileLost
    PROVE  Inv'
BY DEF Inv, TypeOK, MintFilesKept, LaneKept, Claims, ControlOK, memory, disk, StateFileLost

(* Reading the journal back keeps Inv: memory claims what the journal claims. *)
LEMMA KeepStartFromJournal ==
    ASSUME Inv, StartFromJournal
    PROVE  Inv'
BY DEF Inv, TypeOK, MintFilesKept, LaneKept, Claims, ControlOK, memory, disk,
   StartFromJournal

(* The maximum of updated_slot, with rows of stragglers or without, is a slot. *)
LEMMA RawMaximaTypes ==
    ASSUME Inv
    PROVE  \A max \in RawMaxima(serving) : max \in Nat
BY SlotTypes DEF RawMaxima, MaxOf, Inv, TypeOK, Contents

(* Starting without a state file keeps Inv: the recovered state names no file. *)
LEMMA KeepStartRecovered ==
    ASSUME Inv, StartRecovered
    PROVE  Inv'
<1>0. PICK max \in RawMaxima(serving) : Checkpoint(RecoveredActiveOnly(ResumeSlotFromMax(max)))
  BY DEF StartRecovered
<1>a. ResumeSlotFromMax(max) \in Nat
  BY <1>0, RawMaximaTypes, WatcherAssumption DEF ResumeSlotFromMax
<1>. DEFINE v == RecoveredActiveOnly(ResumeSlotFromMax(max))
<1>1. /\ v \in States
      /\ v.active.phase = "ready" /\ v.active.path = None
      /\ v.staging.phase = "disabled" /\ v.staging.path = None
  BY RecoveredEdit, <1>a
<1>2. TypeOK'
  BY <1>0, <1>1 DEF Inv, TypeOK, StartRecovered, Checkpoint, memory, disk, late
<1>3. MintFilesKept'
  <2>1. /\ v.active.phase # "disabled"
        /\ v.active.path # None => files'[v.active.path] # None
    BY <1>0, <1>1 DEF LaneKept, StartRecovered, Checkpoint, memory, disk
  <2>2. /\ v.staging.phase # "disabled" /\ v.staging.path # None => files'[v.staging.path] # None
        /\ v.staging.phase = "disabled" => v.staging.path = None
    BY <1>0, <1>1 DEF LaneKept, StartRecovered, Checkpoint, memory, disk
  <2>3. /\ fresh' # None <=> pc' \in {"adopt", "handshake", "begin", "boot_frozen"}
        /\ fresh' # None => files'[fresh'] # None
    BY <1>0 DEF Inv, MintFilesKept, StartRecovered, Checkpoint, memory, disk
  <2>. QED
    BY <1>0, <1>1, <2>1, <2>2, <2>3, CheckpointKeeps DEF StartRecovered
<1>4. ControlOK'
  BY <1>0, <1>1, RecordsAssumption DEF Inv, TypeOK, ControlOK, StartRecovered, Checkpoint,
     memory, disk, late
<1>. QED
  BY <1>2, <1>3, <1>4 DEF Inv

(* Starting with --bootstrap keeps Inv: the recovered state names no file. *)
LEMMA KeepStartBootstrap ==
    ASSUME Inv, StartBootstrap
    PROVE  Inv'
<1>0. PICK max \in RawMaxima(serving) : Checkpoint(RecoveredActiveOnly(max))
  BY DEF StartBootstrap
<1>a. max \in Nat
  BY <1>0, RawMaximaTypes
<1>. DEFINE v == RecoveredActiveOnly(max)
<1>1. /\ v \in States
      /\ v.active.phase = "ready" /\ v.active.path = None
      /\ v.staging.phase = "disabled" /\ v.staging.path = None
  BY RecoveredEdit, <1>a
<1>2. TypeOK'
  BY <1>0, <1>1 DEF Inv, TypeOK, StartBootstrap, Checkpoint, memory, disk, late
<1>3. MintFilesKept'
  <2>1. /\ v.active.phase # "disabled"
        /\ v.active.path # None => files'[v.active.path] # None
    BY <1>0, <1>1 DEF LaneKept, StartBootstrap, Checkpoint, memory, disk
  <2>2. /\ v.staging.phase # "disabled" /\ v.staging.path # None => files'[v.staging.path] # None
        /\ v.staging.phase = "disabled" => v.staging.path = None
    BY <1>0, <1>1 DEF LaneKept, StartBootstrap, Checkpoint, memory, disk
  <2>3. /\ fresh' # None <=> pc' \in {"adopt", "handshake", "begin", "boot_frozen"}
        /\ fresh' # None => files'[fresh'] # None
    BY <1>0 DEF Inv, MintFilesKept, StartBootstrap, Checkpoint, memory, disk
  <2>. QED
    BY <1>0, <1>1, <2>1, <2>2, <2>3, CheckpointKeeps DEF StartBootstrap
<1>4. ControlOK'
  BY <1>0, <1>1, RecordsAssumption DEF Inv, TypeOK, ControlOK, StartBootstrap, Checkpoint,
     memory, disk, late
<1>. QED
  BY <1>2, <1>3, <1>4 DEF Inv

(* The cleanup at startup keeps Inv, and ends the time a disabled lane may name a file. *)
LEMMA KeepStartupCleanup ==
    ASSUME Inv, StartupCleanup
    PROVE  Inv'
<1>0. ws \in States /\ ws # None /\ pc # "down"
  BY DEF StartupCleanup, Inv, TypeOK, ControlOK
<1>a. /\ ws.active.phase # "disabled" /\ LaneKept(ws.active) /\ LaneKept(ws.staging)
  BY <1>0 DEF Inv, MintFilesKept, Claims
<1>. DEFINE v == ClearDisabledPaths(ws)
<1>1. /\ v \in States
      /\ v.active.phase = ws.active.phase /\ v.active.path = ws.active.path
      /\ v.staging.phase = ws.staging.phase
      /\ v.staging.path = IF ws.staging.phase = "disabled" THEN None ELSE ws.staging.path
      /\ v.active \in Lanes /\ v.staging \in Lanes
  BY <1>0, <1>a, ClearedEdit, ClearPathEdit, StateFields
<1>c. Cleanup(v) /\ files' \in [FileIds -> MintSets \cup {None}]
  BY <1>1, CleanupKeeps DEF StartupCleanup, Checkpoint, Inv, TypeOK
<1>d. \A lane \in {v.active, v.staging} :
         lane.phase # "disabled" /\ lane.path # None => files'[lane.path] # None
  BY <1>1, <1>a, <1>c, CleanupKeeps, LaneFields DEF LaneKept, Inv, TypeOK
<1>2. TypeOK'
  BY <1>1, <1>c DEF Inv, TypeOK, StartupCleanup, Checkpoint, memory, disk, late
<1>3. MintFilesKept'
  <2>1. /\ v.active.phase # "disabled"
        /\ v.active.path # None => files'[v.active.path] # None
    BY <1>1, <1>c, <1>a, <1>d, LaneFields DEF LaneKept, StartupCleanup, Checkpoint, memory,
       disk
  <2>2. /\ v.staging.phase # "disabled" /\ v.staging.path # None => files'[v.staging.path] # None
        /\ v.staging.phase = "disabled" => v.staging.path = None
    BY <1>1, <1>c, <1>a, <1>d, LaneFields DEF LaneKept, StartupCleanup, Checkpoint, memory,
       disk
  <2>3. /\ fresh' # None <=> pc' \in {"adopt", "handshake", "begin", "boot_frozen"}
        /\ fresh' # None => files'[fresh'] # None
    BY DEF Inv, MintFilesKept, StartupCleanup, Checkpoint, memory, disk
  <2>. QED
    BY <1>1, <2>1, <2>2, <2>3, CheckpointKeeps DEF StartupCleanup
<1>4. ControlOK'
  BY <1>1, <1>c, RecordsAssumption DEF Inv, TypeOK, ControlOK, StartupCleanup, Checkpoint,
     memory, disk
<1>. QED
  BY <1>2, <1>3, <1>4 DEF Inv

(* Reading the frozen sets back keeps Inv. *)
LEMMA KeepLoadMints ==
    ASSUME Inv, LoadMints
    PROVE  Inv'
BY StateFields, LaneFields
   DEF Inv, TypeOK, MintFilesKept, LaneKept, Claims, ControlOK, memory, disk, LoadMints,
       BootstrapPending, StagingFile, Load, SlotOrZero, Slots

(* A step that only writes a new mint file keeps MintFilesKept and the files named. *)
LEMMA WrittenKeeps ==
    ASSUME Inv, NEW mints \in MintSets, WriteMints(mints), UNCHANGED <<ws, journal>>,
           pc \notin {"down", "starting"},
           pc' \in {"adopt", "handshake", "begin", "boot_frozen"}
    PROVE  MintFilesKept' /\ files' \in [FileIds -> MintSets \cup {None}] /\ fresh' \in FileIds
<1>1. /\ files' \in [FileIds -> MintSets \cup {None}]
      /\ fresh' \in FileIds /\ files'[fresh'] # None
      /\ \A f \in FileIds : files[f] # None => files'[f] # None
  BY WriteMintsKeeps DEF Inv, TypeOK
<1>2. \A w \in Claims : w \in States
  BY DEF Inv, TypeOK, Claims
<1>3. Claims' = Claims
  BY DEF Claims
<1>4. ASSUME NEW w \in Claims
      PROVE  w.active.phase # "disabled" /\ LaneKept(w.active)' /\ LaneKept(w.staging)'
  <2>1. w.active.path \in FileIds \cup {None} /\ w.staging.path \in FileIds \cup {None}
    BY <1>2, StateFields, LaneFields
  <2>2. w.active.phase # "disabled" /\ LaneKept(w.active) /\ LaneKept(w.staging)
    BY DEF Inv, MintFilesKept
  <2>. QED
    BY <1>1, <2>1, <2>2 DEF LaneKept
<1>5. \A w \in Claims' : w.active.phase # "disabled" /\ LaneKept(w.active)' /\ LaneKept(w.staging)'
  BY <1>3, <1>4
<1>. QED
  BY <1>1, <1>5, WatcherAssumption DEF MintFilesKept

(* Freezing active's set at startup keeps Inv: the new file waits for its checkpoint. *)
LEMMA KeepFreezeActiveMints ==
    ASSUME Inv, FreezeActiveMints
    PROVE  Inv'
<1>1. MintFilesKept' /\ files' \in [FileIds -> MintSets \cup {None}] /\ fresh' \in FileIds
  BY WrittenKeeps DEF Inv, TypeOK, ControlOK, FreezeActiveMints, memory
<1>2. TypeOK'
  BY <1>1 DEF Inv, TypeOK, ControlOK, FreezeActiveMints, memory, late
<1>3. ControlOK'
  BY <1>1 DEF Inv, TypeOK, ControlOK, FreezeActiveMints, memory
<1>. QED
  BY <1>1, <1>2, <1>3 DEF Inv

(* The checkpoint that names active's new file keeps Inv. *)
LEMMA KeepAdoptActiveMints ==
    ASSUME Inv, AdoptActiveMints
    PROVE  Inv'
<1>0. ws \in States /\ ws # None /\ pc # "down"
  BY DEF AdoptActiveMints, Inv, TypeOK, ControlOK
<1>a. /\ ws.active.phase # "disabled" /\ LaneKept(ws.active) /\ LaneKept(ws.staging)
  BY <1>0 DEF Inv, MintFilesKept, Claims
<1>b. fresh \in FileIds /\ files[fresh] # None
  BY DEF AdoptActiveMints, Inv, TypeOK, MintFilesKept
<1>l. LET l == WithPath(ws.active, fresh)
      IN  l \in Lanes /\ l.phase = ws.active.phase /\ l.path = fresh
  BY <1>0, <1>b, StateFields, WithPathEdit
<1>. DEFINE v == [ws EXCEPT !.active = WithPath(@, fresh)]
<1>1. /\ v \in States /\ v.staging = ws.staging
      /\ v.active.phase = ws.active.phase /\ v.active.path = fresh
  BY <1>0, <1>l, ActiveEdit
<1>2. TypeOK'
  BY <1>1, <1>0, <1>a, <1>b DEF Inv, TypeOK, AdoptActiveMints, Checkpoint, memory, disk
<1>3. MintFilesKept'
  <2>1. /\ v.active.phase # "disabled"
        /\ v.active.path # None => files'[v.active.path] # None
    BY <1>1, <1>0, <1>a, <1>b DEF LaneKept, AdoptActiveMints, Checkpoint, memory, disk
  <2>2. /\ v.staging.phase # "disabled" /\ v.staging.path # None => files'[v.staging.path] # None
        /\ v.staging.phase = "disabled" => v.staging.path = None
    BY <1>1, <1>0, <1>a, <1>b DEF LaneKept, AdoptActiveMints, Checkpoint, memory, disk
  <2>3. /\ fresh' # None <=> pc' \in {"adopt", "handshake", "begin", "boot_frozen"}
        /\ fresh' # None => files'[fresh'] # None
    BY DEF Inv, MintFilesKept, AdoptActiveMints, Checkpoint, memory, disk
  <2>. QED
    BY <1>1, <2>1, <2>2, <2>3, CheckpointKeeps DEF AdoptActiveMints
<1>4. ControlOK'
  BY <1>1, <1>0, <1>a, <1>b, RecordsAssumption
  DEF Inv, TypeOK, ControlOK, AdoptActiveMints, Checkpoint, memory, disk
<1>. QED
  BY <1>2, <1>3, <1>4 DEF Inv

(* The staging thread's TRUNCATE keeps Inv: no file is touched. *)
LEMMA KeepBuildReset ==
    ASSUME Inv, BuildReset
    PROVE  Inv'
BY ResetGroupTypes, GroupsFact
   DEF Inv, TypeOK, MintFilesKept, LaneKept, Claims, ControlOK, memory, disk, BuildReset,
       Bak, Builds, BuildSteps, late

(* The staging thread's import starting keeps Inv; it now holds a mint set. *)
LEMMA KeepBuildImport ==
    ASSUME Inv, BuildImport
    PROVE  Inv'
<1>1. PICK mints \in MintSets :
         /\ build' = [build EXCEPT !.pc = "import", !.mints = mints]
         /\ tables' = [tables EXCEPT ![Bak] = BeginFull(@, build.full, mints)]
  BY DEF BuildImport
<1>2. build \in Builds /\ build.pc = "reset" /\ build.full \in FullSlots
  BY DEF BuildImport, Inv, TypeOK, ControlOK, Builds
<1>3. build' \in Builds /\ build'.pc = "import" /\ build'.full # None /\ build'.mints # None
  BY <1>1, <1>2, WatcherAssumption DEF Builds, BuildSteps, Inv, ControlOK
<1>4. tables' \in [Groups -> Contents]
  BY <1>1, <1>2, ContentsEdits, GroupsFact DEF Bak, Inv, TypeOK
<1>. QED
  BY <1>2, <1>3, <1>4 DEF BuildImport, Inv, TypeOK, MintFilesKept, LaneKept, Claims,
     ControlOK, memory, disk, late

(* The staging thread's import ending keeps Inv; it waits with its mint set. *)
LEMMA KeepBuildImported ==
    ASSUME Inv, BuildImported
    PROVE  Inv'
<1>1. build \in Builds /\ build.pc = "import" /\ build.full \in FullSlots /\ build.mints # None
  BY DEF BuildImported, Inv, TypeOK, ControlOK, Builds
<1>2. build' \in Builds /\ build'.pc = "sent" /\ build'.full # None /\ build'.mints # None
  BY <1>1, WatcherAssumption DEF BuildImported, Builds, BuildSteps, Inv, ControlOK
<1>3. tables' \in [Groups -> Contents]
  BY <1>1, ContentsEdits, GroupsFact DEF BuildImported, Bak, Inv, TypeOK
<1>. QED
  BY <1>1, <1>2, <1>3 DEF BuildImported, Inv, TypeOK, MintFilesKept, LaneKept, Claims,
     ControlOK, memory, disk, late

(* Starting the merges of _bak keeps Inv. *)
LEMMA KeepBuildStartMerges ==
    ASSUME Inv, BuildStartMerges
    PROVE  Inv'
BY GroupsFact
   DEF Inv, TypeOK, MintFilesKept, LaneKept, Claims, ControlOK, memory, disk,
       BuildStartMerges, Bak, MergesStarted, Builds, BuildSteps, late

(* The end of the merge wait keeps Inv. *)
LEMMA KeepBuildSettled ==
    ASSUME Inv, BuildSettled
    PROVE  Inv'
BY DEF Inv, TypeOK, MintFilesKept, LaneKept, Claims, ControlOK, memory, disk, BuildSettled,
   Builds, BuildSteps

(* A failing staging thread keeps Inv. *)
LEMMA KeepBuildFails ==
    ASSUME Inv, BuildFails
    PROVE  Inv'
<1>1. stragglers' \in SUBSET Groups
  <2>1. stragglers' = stragglers \/ stragglers' = stragglers \cup {Bak}
    BY DEF BuildFails
  <2>2. Bak \in Groups /\ stragglers \in SUBSET Groups
    BY GroupsFact DEF Bak, Inv, TypeOK
  <2>. QED
    BY <2>1, <2>2
<1>2. /\ build' = [build EXCEPT !.pc = "err"] /\ build \in Builds
      /\ build.pc \in {"start", "reset", "import"} /\ pc # "down"
  BY DEF BuildFails, Inv, TypeOK, ControlOK
<1>3. UNCHANGED <<pc, ws, journal, activeSlot, activeMints, stagingMints, fresh, job, incr, files,
                  serving, tables, merges, stray>>
  BY DEF BuildFails, memory
<1>4. build' \in Builds /\ build'.pc = "err"
  BY <1>2 DEF Builds, BuildSteps
<1>5. TypeOK'
  BY <1>1, <1>3, <1>4 DEF Inv, TypeOK
<1>6. MintFilesKept'
  BY <1>3 DEF Inv, MintFilesKept, LaneKept, Claims
<1>7. ControlOK'
  BY <1>2, <1>3, <1>4 DEF Inv, ControlOK
<1>. QED
  BY <1>5, <1>6, <1>7 DEF Inv

(* What a straggler inserts keeps Inv: it is no part of what the watcher tracks. *)
LEMMA KeepStragglerInserts ==
    ASSUME Inv, StragglerInserts
    PROVE  Inv'
BY DEF Inv, TypeOK, MintFilesKept, LaneKept, Claims, ControlOK, memory, StragglerInserts

(* The staging incremental starting keeps Inv. *)
LEMMA KeepIncrImport ==
    ASSUME Inv, IncrImport
    PROVE  Inv'
<1>1. incr \in Imports
  BY DEF IncrImport, Inv, TypeOK
<1>2. incr' \in Imports
  BY <1>1 DEF IncrImport, Imports
<1>3. incr.archive \in Archives /\ incr.mints \in MintSets
  BY <1>1 DEF Imports
<1>4. tables' \in [Groups -> Contents]
  BY <1>3, ContentsEdits, GroupsFact DEF IncrImport, Bak, Inv, TypeOK
<1>. QED
  BY <1>2, <1>4 DEF IncrImport, Inv, TypeOK, MintFilesKept, LaneKept, Claims, ControlOK,
     memory, disk, late

(* The staging incremental ending keeps Inv. *)
LEMMA KeepIncrImported ==
    ASSUME Inv, IncrImported
    PROVE  Inv'
<1>1. incr \in Imports
  BY DEF IncrImported, Inv, TypeOK
<1>2. incr' \in Imports
  BY <1>1 DEF IncrImported, Imports
<1>3. incr.archive \in Archives /\ incr.mints \in MintSets
  BY <1>1 DEF Imports
<1>4. tables' \in [Groups -> Contents]
  BY <1>3, ContentsEdits, GroupsFact DEF IncrImported, Bak, Inv, TypeOK
<1>. QED
  BY <1>2, <1>4 DEF IncrImported, Inv, TypeOK, MintFilesKept, LaneKept, Claims, ControlOK,
     memory, disk, late

(* The handshake's new mint file keeps Inv: it waits for its checkpoint. *)
LEMMA KeepFreezeBuildMints ==
    ASSUME Inv, FreezeBuildMints
    PROVE  Inv'
<1>1. MintFilesKept' /\ files' \in [FileIds -> MintSets \cup {None}] /\ fresh' \in FileIds
  BY WrittenKeeps DEF Inv, TypeOK, ControlOK, FreezeBuildMints, memory, Builds
<1>2. TypeOK'
  BY <1>1 DEF Inv, TypeOK, ControlOK, FreezeBuildMints, memory, Builds, late
<1>3. ControlOK'
  BY <1>1 DEF Inv, TypeOK, ControlOK, FreezeBuildMints, memory, Builds
<1>. QED
  BY <1>1, <1>2, <1>3 DEF Inv

(* The handshake's checkpoint and cleanup keep Inv: the new file is named, then kept. *)
LEMMA KeepAckBuild ==
    ASSUME Inv, AckBuild
    PROVE  Inv'
<1>0. ws \in States /\ ws # None /\ pc # "down"
  BY DEF AckBuild, Inv, TypeOK, ControlOK
<1>a. /\ ws.active.phase # "disabled" /\ LaneKept(ws.active) /\ LaneKept(ws.staging)
  BY <1>0 DEF Inv, MintFilesKept, Claims
<1>b. /\ pc = "handshake" /\ fresh \in FileIds /\ files[fresh] # None
      /\ build.pc = "sent" /\ build.full \in FullSlots /\ build.mints \in MintSets
      /\ ws.active.path \in FileIds \cup {None}
  BY <1>0, StateFields, LaneFields DEF AckBuild, Inv, TypeOK, MintFilesKept, ControlOK,
     Builds
<1>. DEFINE v == StagingImported(ws, build.full, fresh)
<1>1. /\ v \in States
      /\ v.active.phase = ws.active.phase /\ v.active.path = ws.active.path
      /\ v.staging.phase = "full_merging" /\ v.staging.path = fresh
  BY <1>0, <1>b, StagingImportedEdit
<1>c. Cleanup(v) /\ files' \in [FileIds -> MintSets \cup {None}]
  BY <1>1, CleanupKeeps DEF AckBuild, Checkpoint, Inv, TypeOK
<1>d. \A lane \in {v.active, v.staging} :
         lane.phase # "disabled" /\ lane.path \in FileIds => files'[lane.path] = files[lane.path]
  BY <1>1, <1>c, CleanupKeeps DEF Inv, TypeOK
<1>2. TypeOK'
  BY <1>1, <1>0, <1>a, <1>b, <1>c DEF Inv, TypeOK, AckBuild, Checkpoint, memory, disk,
     Builds, BuildSteps, late
<1>3. MintFilesKept'
  <2>1. /\ v.active.phase # "disabled"
        /\ v.active.path # None => files'[v.active.path] # None
    BY <1>1, <1>0, <1>a, <1>b, <1>c, <1>d DEF LaneKept, AckBuild, Checkpoint, memory, disk
  <2>2. /\ v.staging.phase # "disabled" /\ v.staging.path # None => files'[v.staging.path] # None
        /\ v.staging.phase = "disabled" => v.staging.path = None
    BY <1>1, <1>0, <1>a, <1>b, <1>c, <1>d DEF LaneKept, AckBuild, Checkpoint, memory, disk
  <2>3. /\ fresh' # None <=> pc' \in {"adopt", "handshake", "begin", "boot_frozen"}
        /\ fresh' # None => files'[fresh'] # None
    BY DEF Inv, MintFilesKept, AckBuild, Checkpoint, memory, disk
  <2>. QED
    BY <1>1, <2>1, <2>2, <2>3, CheckpointKeeps DEF AckBuild
<1>4. ControlOK'
  BY <1>1, <1>0, <1>a, <1>b, <1>c, RecordsAssumption
  DEF Inv, TypeOK, ControlOK, AckBuild, Checkpoint, memory, disk, Builds
<1>. QED
  BY <1>2, <1>3, <1>4 DEF Inv

(* The checkpoint after the merge wait keeps Inv: staging keeps its file. *)
LEMMA KeepBuildDone ==
    ASSUME Inv, BuildDone
    PROVE  Inv'
<1>0. ws \in States /\ ws # None /\ pc # "down"
  BY DEF BuildDone, Inv, TypeOK, ControlOK
<1>a. /\ ws.active.phase # "disabled" /\ LaneKept(ws.active) /\ LaneKept(ws.staging)
  BY <1>0 DEF Inv, MintFilesKept, Claims
<1>l. LET l == Settled(ws.staging)
      IN  l \in Lanes /\ l.phase = "ready" /\ l.path = ws.staging.path
  BY <1>0, StateFields, SettledEdit
<1>. DEFINE v == [ws EXCEPT !.staging = Settled(@)]
<1>1. /\ v \in States /\ v.active = ws.active
      /\ v.staging.phase = "ready" /\ v.staging.path = ws.staging.path
  BY <1>0, <1>l, StagingEdit
<1>2. TypeOK'
  BY <1>1, <1>0, <1>a DEF Inv, TypeOK, BuildDone, Checkpoint, memory, disk, NoBuild,
     Builds, BuildSteps
<1>3. MintFilesKept'
  <2>1. /\ v.active.phase # "disabled"
        /\ v.active.path # None => files'[v.active.path] # None
    BY <1>1, <1>0, <1>a DEF LaneKept, BuildDone, Checkpoint, memory, disk
  <2>2. /\ v.staging.phase # "disabled" /\ v.staging.path # None => files'[v.staging.path] # None
        /\ v.staging.phase = "disabled" => v.staging.path = None
    BY <1>1, <1>0, <1>a DEF LaneKept, BuildDone, Checkpoint, memory, disk
  <2>3. /\ fresh' # None <=> pc' \in {"adopt", "handshake", "begin", "boot_frozen"}
        /\ fresh' # None => files'[fresh'] # None
    BY DEF Inv, MintFilesKept, BuildDone, Checkpoint, memory, disk
  <2>. QED
    BY <1>1, <2>1, <2>2, <2>3, CheckpointKeeps DEF BuildDone
<1>4. ControlOK'
  BY <1>1, <1>0, <1>a, RecordsAssumption DEF Inv, TypeOK, ControlOK, BuildDone, Checkpoint,
     memory, disk, NoBuild
<1>. QED
  BY <1>2, <1>3, <1>4 DEF Inv

(* Resetting a failed staging build keeps Inv. *)
LEMMA KeepBuildFailed ==
    ASSUME Inv, BuildFailed
    PROVE  Inv'
BY ResetFailedStagingTypes
   DEF Inv, TypeOK, MintFilesKept, LaneKept, Claims, ControlOK, memory, disk, BuildFailed,
       Builds, BuildSteps, NoBuild, late

(* The checkpoint that makes both lanes wait for the cutover keeps Inv. *)
LEMMA KeepIncrDone ==
    ASSUME Inv, IncrDone
    PROVE  Inv'
<1>0. ws \in States /\ ws # None /\ pc # "down"
  BY DEF IncrDone, Inv, TypeOK, ControlOK
<1>a. /\ ws.active.phase # "disabled" /\ LaneKept(ws.active) /\ LaneKept(ws.staging)
  BY <1>0 DEF Inv, MintFilesKept, Claims
<1>b. pc = "loop" /\ incr.archive.slot \in Nat
  BY SlotTypes DEF IncrDone, Inv, TypeOK, Imports
<1>. DEFINE v == BothPending(ws, incr.archive.slot)
<1>1. /\ v \in States
      /\ v.active.phase = "cutover_pending" /\ v.active.path = ws.active.path
      /\ v.staging.phase = "cutover_pending" /\ v.staging.path = ws.staging.path
  BY <1>0, <1>b, BothPendingEdit
<1>2. TypeOK'
  BY <1>1, <1>0, <1>a, <1>b DEF Inv, TypeOK, IncrDone, Checkpoint, memory, disk
<1>3. MintFilesKept'
  <2>1. /\ v.active.phase # "disabled"
        /\ v.active.path # None => files'[v.active.path] # None
    BY <1>1, <1>0, <1>a, <1>b DEF LaneKept, IncrDone, Checkpoint, memory, disk
  <2>2. /\ v.staging.phase # "disabled" /\ v.staging.path # None => files'[v.staging.path] # None
        /\ v.staging.phase = "disabled" => v.staging.path = None
    BY <1>1, <1>0, <1>a, <1>b DEF LaneKept, IncrDone, Checkpoint, memory, disk
  <2>3. /\ fresh' # None <=> pc' \in {"adopt", "handshake", "begin", "boot_frozen"}
        /\ fresh' # None => files'[fresh'] # None
    BY DEF Inv, MintFilesKept, IncrDone, Checkpoint, memory, disk
  <2>. QED
    BY <1>1, <2>1, <2>2, <2>3, CheckpointKeeps DEF IncrDone
<1>4. ControlOK'
  BY <1>1, <1>0, <1>a, <1>b, RecordsAssumption
  DEF Inv, TypeOK, ControlOK, IncrDone, Checkpoint, memory, disk
<1>. QED
  BY <1>2, <1>3, <1>4 DEF Inv

(* The cutover checkpoint keeps Inv: the lanes are not edited. *)
LEMMA KeepBeginCutover ==
    ASSUME Inv, BeginCutover
    PROVE  Inv'
<1>0. ws \in States /\ ws # None /\ pc # "down"
  BY DEF BeginCutover, Inv, TypeOK, ControlOK
<1>a. /\ ws.active.phase # "disabled" /\ LaneKept(ws.active) /\ LaneKept(ws.staging)
  BY <1>0 DEF Inv, MintFilesKept, Claims
<1>b. pc = "loop" /\ serving \in Groups /\ Bak \in Groups
  BY GroupsFact DEF BeginCutover, Inv, TypeOK, Bak
<1>. DEFINE v == [ws EXCEPT !.cutover = [active |-> serving, staging |-> Bak]]
<1>1. /\ v \in States /\ v.active = ws.active /\ v.staging = ws.staging
  BY <1>0, <1>b DEF States, Cutovers
<1>2. TypeOK'
  BY <1>1, <1>0, <1>a, <1>b DEF Inv, TypeOK, BeginCutover, Checkpoint, memory, disk
<1>3. MintFilesKept'
  <2>1. /\ v.active.phase # "disabled"
        /\ v.active.path # None => files'[v.active.path] # None
    BY <1>1, <1>0, <1>a, <1>b DEF LaneKept, BeginCutover, Checkpoint, memory, disk
  <2>2. /\ v.staging.phase # "disabled" /\ v.staging.path # None => files'[v.staging.path] # None
        /\ v.staging.phase = "disabled" => v.staging.path = None
    BY <1>1, <1>0, <1>a, <1>b DEF LaneKept, BeginCutover, Checkpoint, memory, disk
  <2>3. /\ fresh' # None <=> pc' \in {"adopt", "handshake", "begin", "boot_frozen"}
        /\ fresh' # None => files'[fresh'] # None
    BY DEF Inv, MintFilesKept, BeginCutover, Checkpoint, memory, disk
  <2>. QED
    BY <1>1, <2>1, <2>2, <2>3, CheckpointKeeps DEF BeginCutover
<1>4. ControlOK'
  BY <1>1, <1>0, <1>a, <1>b, RecordsAssumption DEF Inv, TypeOK, ControlOK, BeginCutover,
     Checkpoint, memory, disk
<1>. QED
  BY <1>2, <1>3, <1>4 DEF Inv

(* The exchange of the tables keeps Inv: no file is touched. *)
LEMMA KeepExchange ==
    ASSUME Inv, Exchange
    PROVE  Inv'
BY StateFields
   DEF Inv, TypeOK, MintFilesKept, LaneKept, Claims, ControlOK, memory, disk, Exchange,
       Exchanged, Cutovers

(* The promotion and its cleanup keep Inv: active names staging's file, which stays. *)
LEMMA KeepFinishCutover ==
    ASSUME Inv, FinishCutover
    PROVE  Inv'
<1>0. ws \in States /\ ws # None /\ pc # "down"
  BY DEF FinishCutover, Inv, TypeOK, ControlOK
<1>a. /\ ws.active.phase # "disabled" /\ LaneKept(ws.active) /\ LaneKept(ws.staging)
  BY <1>0 DEF Inv, MintFilesKept, Claims
<1>b. pc = "exchanged" /\ ws.staging.path \in FileIds \cup {None}
  BY <1>0, StateFields, LaneFields DEF FinishCutover
<1>. DEFINE v == Promoted(ws)
<1>1. /\ v \in States
      /\ v.active.phase = "ready" /\ v.active.path = ws.staging.path
      /\ v.staging.phase = "disabled" /\ v.staging.path = None
  BY <1>0, PromotedEdit
<1>c. Cleanup(v) /\ files' \in [FileIds -> MintSets \cup {None}]
  BY <1>1, CleanupKeeps DEF FinishCutover, Checkpoint, Inv, TypeOK
<1>d. \A lane \in {v.active, v.staging} :
         lane.phase # "disabled" /\ lane.path \in FileIds => files'[lane.path] = files[lane.path]
  BY <1>1, <1>c, CleanupKeeps DEF Inv, TypeOK
<1>e. v.active.max \in Nat \cup {None}
  BY <1>1, StateFields, LaneFields DEF Slots
<1>2. TypeOK'
  BY <1>1, <1>0, <1>a, <1>b, <1>c, <1>e DEF Inv, TypeOK, FinishCutover, Checkpoint, memory,
     disk, SlotOrZero, Slots, late
<1>3. MintFilesKept'
  <2>1. /\ v.active.phase # "disabled"
        /\ v.active.path # None => files'[v.active.path] # None
    BY <1>1, <1>0, <1>a, <1>b, <1>c, <1>e, <1>d, <1>b
    DEF LaneKept, FinishCutover, Checkpoint, memory, disk
  <2>2. /\ v.staging.phase # "disabled" /\ v.staging.path # None => files'[v.staging.path] # None
        /\ v.staging.phase = "disabled" => v.staging.path = None
    BY <1>1, <1>0, <1>a, <1>b, <1>c, <1>e, <1>d, <1>b
    DEF LaneKept, FinishCutover, Checkpoint, memory, disk
  <2>3. /\ fresh' # None <=> pc' \in {"adopt", "handshake", "begin", "boot_frozen"}
        /\ fresh' # None => files'[fresh'] # None
    BY DEF Inv, MintFilesKept, FinishCutover, Checkpoint, memory, disk
  <2>. QED
    BY <1>1, <2>1, <2>2, <2>3, CheckpointKeeps DEF FinishCutover
<1>4. ControlOK'
  BY <1>1, <1>0, <1>a, <1>b, <1>c, <1>e, RecordsAssumption
  DEF Inv, TypeOK, ControlOK, FinishCutover, Checkpoint, memory, disk
<1>. QED
  BY <1>2, <1>3, <1>4 DEF Inv

(* Resetting _bak before a shared import keeps Inv. *)
LEMMA KeepSharedReset ==
    ASSUME Inv, SharedReset
    PROVE  Inv'
BY ResetGroupTypes, GroupsFact
   DEF Inv, TypeOK, MintFilesKept, LaneKept, Claims, ControlOK, memory, disk, SharedReset,
       SharedDue, Bak, late

(* A failing reset before a shared import keeps Inv. *)
LEMMA KeepSharedResetFails ==
    ASSUME Inv, SharedResetFails
    PROVE  Inv'
BY ResetFailedStagingTypes
   DEF Inv, TypeOK, MintFilesKept, LaneKept, Claims, ControlOK, memory, disk,
       SharedResetFails, SharedDue, late

(* The shared import starting keeps Inv; the archive is a full one. *)
LEMMA KeepFanoutBegin ==
    ASSUME Inv, NEW dir \in SUBSET Archives, FanoutBegin(dir)
    PROVE  Inv'
<1>1. PICK a \in Recorded(dir, ws.shared.full) :
         /\ tables' = [tables EXCEPT ![Bak] = BeginFull(@, a.slot, stagingMints),
                                     ![serving] = BeginTail(@, a, activeMints)]
         /\ job' = a
  BY DEF FanoutBegin
<1>2. /\ a \in Archives /\ a.kind = "full" /\ a.slot \in FullSlots
      /\ stagingMints \in MintSets /\ activeMints \in MintSets /\ Bak \in Groups
  BY SlotTypes, GroupsFact DEF FanoutBegin, Recorded, Inv, TypeOK, Bak
<1>3. [tables EXCEPT ![Bak] = BeginFull(@, a.slot, stagingMints)] \in [Groups -> Contents]
  BY <1>2, ContentsEdits DEF Inv, TypeOK
<1>4. tables' \in [Groups -> Contents]
  BY <1>1, <1>2, <1>3, ContentsEdits DEF Inv, TypeOK
<1>5. /\ pc = "shared_ready" /\ pc' = "fanout"
      /\ UNCHANGED <<ws, journal, memory, fresh, build, incr, files, serving, merges, late>>
  BY DEF FanoutBegin
<1>. QED
  BY <1>1, <1>2, <1>4, <1>5, NoneAssumption DEF Inv, TypeOK, MintFilesKept, LaneKept,
     Claims, ControlOK, memory, late

(* The shared import failing keeps Inv. *)
LEMMA KeepFanoutFails ==
    ASSUME Inv, FanoutFails
    PROVE  Inv'
BY ResetFailedStagingTypes
   DEF Inv, TypeOK, MintFilesKept, LaneKept, Claims, ControlOK, memory, disk, FanoutFails, late

(* The shared import ending keeps Inv. *)
LEMMA KeepFanoutImported ==
    ASSUME Inv, FanoutImported
    PROVE  Inv'
BY ContentsEdits, GroupsFact, SlotTypes
   DEF Inv, TypeOK, MintFilesKept, LaneKept, Claims, ControlOK, memory, disk,
       FanoutImported, Bak, late

(* The checkpoint after a shared import keeps Inv: both lanes keep their files. *)
LEMMA KeepSharedCommit ==
    ASSUME Inv, SharedCommit
    PROVE  Inv'
<1>0. ws \in States /\ ws # None /\ pc # "down"
  BY DEF SharedCommit, Inv, TypeOK, ControlOK
<1>a. /\ ws.active.phase # "disabled" /\ LaneKept(ws.active) /\ LaneKept(ws.staging)
  BY <1>0 DEF Inv, MintFilesKept, Claims
<1>b. pc = "fanned" /\ job.slot \in FullSlots /\ job.slot \in Nat
  BY SlotTypes DEF SharedCommit, Inv, TypeOK, ControlOK
<1>n. ws.staging.full \in FullSlots \cup {None}
  BY <1>0, StateFields, LaneFields
<1>. DEFINE v == CommitShared(ws, job.slot)
<1>1. /\ v \in States
      /\ v.active.phase = "ready" /\ v.active.path = ws.active.path
      /\ v.staging.phase = "full_merging" /\ v.staging.path = ws.staging.path
  BY <1>0, <1>b, CommitSharedEdit
<1>2. TypeOK'
  BY <1>1, <1>0, <1>a, <1>b, <1>n DEF Inv, TypeOK, SharedCommit, Checkpoint, memory, disk,
     NewBuild, NoBuild, Builds, BuildSteps
<1>3. MintFilesKept'
  <2>1. /\ v.active.phase # "disabled"
        /\ v.active.path # None => files'[v.active.path] # None
    BY <1>1, <1>0, <1>a, <1>b, <1>n DEF LaneKept, SharedCommit, Checkpoint, memory, disk
  <2>2. /\ v.staging.phase # "disabled" /\ v.staging.path # None => files'[v.staging.path] # None
        /\ v.staging.phase = "disabled" => v.staging.path = None
    BY <1>1, <1>0, <1>a, <1>b, <1>n DEF LaneKept, SharedCommit, Checkpoint, memory, disk
  <2>3. /\ fresh' # None <=> pc' \in {"adopt", "handshake", "begin", "boot_frozen"}
        /\ fresh' # None => files'[fresh'] # None
    BY DEF Inv, MintFilesKept, SharedCommit, Checkpoint, memory, disk
  <2>. QED
    BY <1>1, <2>1, <2>2, <2>3, CheckpointKeeps DEF SharedCommit
<1>4. ControlOK'
  BY <1>1, <1>0, <1>a, <1>b, <1>n, RecordsAssumption
  DEF Inv, TypeOK, ControlOK, SharedCommit, Checkpoint, memory, disk, NewBuild, NoBuild
<1>. QED
  BY <1>2, <1>3, <1>4 DEF Inv

(* A failing checkpoint after a shared import keeps Inv, whichever journal is left. *)
LEMMA KeepSharedCommitFails ==
    ASSUME Inv, SharedCommitFails
    PROVE  Inv'
<1>0. ws \in States /\ ws # None /\ pc # "down"
  BY DEF SharedCommitFails, Inv, TypeOK, ControlOK
<1>a. /\ ws.active.phase # "disabled" /\ LaneKept(ws.active) /\ LaneKept(ws.staging)
  BY <1>0 DEF Inv, MintFilesKept, Claims
<1>. DEFINE v == CommitShared(ws, job.slot)
<1>b. pc = "fanned" /\ job.slot \in FullSlots
  BY SlotTypes DEF SharedCommitFails, Inv, TypeOK, ControlOK
<1>1. /\ v \in States
      /\ v.active.phase = "ready" /\ v.active.path = ws.active.path
      /\ v.staging.phase = "full_merging" /\ v.staging.path = ws.staging.path
  BY <1>0, <1>b, CommitSharedEdit
<1>2. TypeOK'
  BY <1>1, ResetFailedStagingTypes DEF Inv, TypeOK, SharedCommitFails, memory, late
<1>3. MintFilesKept'
  <2>1. /\ ws' = v /\ journal' \in {journal, v}
        /\ files' = files /\ fresh' = fresh /\ pc' = "loop"
    BY DEF SharedCommitFails
  <2>2. \A w \in Claims' : w = v \/ w \in Claims
    BY <2>1 DEF Claims
  <2>3. \A w \in Claims : w.active.phase # "disabled" /\ LaneKept(w.active)' /\ LaneKept(w.staging)'
    BY <1>b, <2>1 DEF Inv, MintFilesKept, LaneKept
  <2>4. /\ v.active.path # None => files'[v.active.path] # None
        /\ v.staging.path # None => files'[v.staging.path] # None
    BY <1>a, <1>b, <1>1, <2>1 DEF LaneKept
  <2>. QED
    BY <1>1, <1>b, <2>1, <2>2, <2>3, <2>4 DEF Inv, MintFilesKept, LaneKept
<1>4. ControlOK'
  BY <1>1, <1>b, RecordsAssumption DEF Inv, TypeOK, ControlOK, SharedCommitFails, memory
<1>. QED
  BY <1>2, <1>3, <1>4 DEF Inv

(* The checkpoint after active's merge wait keeps Inv: active keeps its file. *)
LEMMA KeepActiveMergeWait ==
    ASSUME Inv, ActiveMergeWait
    PROVE  Inv'
<1>0. ws \in States /\ ws # None /\ pc # "down"
  BY DEF ActiveMergeWait, Round, Inv, TypeOK, ControlOK
<1>a. /\ ws.active.phase # "disabled" /\ LaneKept(ws.active) /\ LaneKept(ws.staging)
  BY <1>0 DEF Inv, MintFilesKept, Claims
<1>m. pc = "loop" /\ ws.active.max \in Nat \cup {None}
  BY <1>0, StateFields, LaneFields DEF ActiveMergeWait, Round, Slots
<1>l. LET l == Settled(ws.active)
      IN  l \in Lanes /\ l.phase = "ready" /\ l.path = ws.active.path
  BY <1>0, StateFields, SettledEdit
<1>. DEFINE v == [ws EXCEPT !.active = Settled(@)]
<1>1. /\ v \in States /\ v.staging = ws.staging
      /\ v.active.phase = "ready" /\ v.active.path = ws.active.path
  BY <1>0, <1>l, ActiveEdit
<1>2. TypeOK'
  BY <1>1, <1>0, <1>a, <1>m DEF Inv, TypeOK, ActiveMergeWait, Checkpoint, memory, disk,
     Round, MergesStarted, SlotOrZero, Slots, late
<1>3. MintFilesKept'
  <2>1. /\ v.active.phase # "disabled"
        /\ v.active.path # None => files'[v.active.path] # None
    BY <1>1, <1>0, <1>a, <1>m DEF LaneKept, ActiveMergeWait, Checkpoint, memory, disk
  <2>2. /\ v.staging.phase # "disabled" /\ v.staging.path # None => files'[v.staging.path] # None
        /\ v.staging.phase = "disabled" => v.staging.path = None
    BY <1>1, <1>0, <1>a, <1>m DEF LaneKept, ActiveMergeWait, Checkpoint, memory, disk
  <2>3. /\ fresh' # None <=> pc' \in {"adopt", "handshake", "begin", "boot_frozen"}
        /\ fresh' # None => files'[fresh'] # None
    BY DEF Inv, MintFilesKept, ActiveMergeWait, Checkpoint, memory, disk
  <2>. QED
    BY <1>1, <2>1, <2>2, <2>3, CheckpointKeeps DEF ActiveMergeWait
<1>4. ControlOK'
  BY <1>1, <1>0, <1>a, <1>m, RecordsAssumption DEF Inv, TypeOK, ControlOK, ActiveMergeWait,
     Checkpoint, memory, disk, Round
<1>. QED
  BY <1>2, <1>3, <1>4 DEF Inv

(* process_bootstrap_full's first checkpoint keeps Inv, for both of its callers. *)
LEMMA BootstrapFullKeeps ==
    ASSUME Inv, NEW a \in Archives, a.kind = "full", BootstrapFull(a), pc = "loop"
    PROVE  Inv'
<1>. DEFINE v == BeginBootstrap(ws, a.slot)
<1>1. /\ v \in States
      /\ v.active.phase = "full_loading" /\ v.active.path = None
      /\ v.staging.phase = "disabled" /\ v.staging.path = None
  BY BeginBootstrapEdit, SlotTypes DEF Inv, TypeOK, ControlOK
<1>2. TypeOK'
  BY <1>1 DEF Inv, TypeOK, BootstrapFull, Checkpoint, memory, disk
<1>3. MintFilesKept'
  <2>1. /\ fresh' # None <=> pc' \in {"adopt", "handshake", "begin", "boot_frozen"}
        /\ fresh' # None => files'[fresh'] # None
    BY DEF Inv, MintFilesKept, BootstrapFull, disk
  <2>. QED
    BY <1>1, <2>1, CheckpointKeeps DEF BootstrapFull
<1>4. ControlOK'
  BY <1>1, RecordsAssumption, NoneAssumption
  DEF Inv, TypeOK, ControlOK, BootstrapFull, Checkpoint, memory, disk
<1>. QED
  BY <1>2, <1>3, <1>4 DEF Inv

(* Resuming an interrupted bootstrap import keeps Inv. *)
LEMMA KeepResumeBootstrap ==
    ASSUME Inv, NEW dir \in SUBSET Archives, ResumeBootstrap(dir)
    PROVE  Inv'
<1>1. PICK a \in Recorded(dir, ws.active.full) : BootstrapFull(a)
  BY DEF ResumeBootstrap
<1>. QED
  BY <1>1, BootstrapFullKeeps DEF ResumeBootstrap, Round, Recorded

(* The first bootstrap import keeps Inv. *)
LEMMA KeepFirstBootstrap ==
    ASSUME Inv, NEW dir \in SUBSET Archives, FirstBootstrap(dir)
    PROVE  Inv'
<1>1. PICK a \in Furthest(NewerFulls(dir, None)) : BootstrapFull(a)
  BY DEF FirstBootstrap
<1>. QED
  BY <1>1, BootstrapFullKeeps
  DEF FirstBootstrap, DispatchRound, StagingRound, Round, Furthest, NewerFulls

(* The bootstrap's TRUNCATE keeps Inv. *)
LEMMA KeepBootstrapReset ==
    ASSUME Inv, BootstrapReset
    PROVE  Inv'
BY ResetGroupTypes
   DEF Inv, TypeOK, MintFilesKept, LaneKept, Claims, ControlOK, memory, disk, BootstrapReset, late

(* The bootstrap import starting keeps Inv; the watcher holds its mint set. *)
LEMMA KeepBootstrapImport ==
    ASSUME Inv, BootstrapImport
    PROVE  Inv'
BY ContentsEdits, SlotTypes, WatcherAssumption
   DEF Inv, TypeOK, MintFilesKept, LaneKept, Claims, ControlOK, memory, disk,
       BootstrapImport, late

(* The bootstrap import ending keeps Inv: its mint file waits for its checkpoint. *)
LEMMA KeepBootstrapImported ==
    ASSUME Inv, BootstrapImported
    PROVE  Inv'
<1>t. tables' \in [Groups -> Contents]
  BY ContentsEdits, SlotTypes DEF Inv, TypeOK, ControlOK, BootstrapImported
<1>1. MintFilesKept' /\ files' \in [FileIds -> MintSets \cup {None}] /\ fresh' \in FileIds
  BY WrittenKeeps DEF Inv, TypeOK, ControlOK, BootstrapImported, memory
<1>2. TypeOK'
  BY <1>1, <1>t DEF Inv, TypeOK, ControlOK, BootstrapImported, memory, late
<1>3. ControlOK'
  BY <1>1, <1>t DEF Inv, TypeOK, ControlOK, BootstrapImported, memory
<1>. QED
  BY <1>1, <1>2, <1>3 DEF Inv

(* The bootstrap's checkpoint keeps Inv: active names the new file. *)
LEMMA KeepBootstrapCommit ==
    ASSUME Inv, BootstrapCommit
    PROVE  Inv'
<1>0. ws \in States /\ ws # None /\ pc # "down"
  BY DEF BootstrapCommit, Inv, TypeOK, ControlOK
<1>a. /\ ws.active.phase # "disabled" /\ LaneKept(ws.active) /\ LaneKept(ws.staging)
  BY <1>0 DEF Inv, MintFilesKept, Claims
<1>b. /\ pc = "boot_frozen" /\ job.slot \in FullSlots /\ job.slot \in Nat
      /\ fresh \in FileIds /\ files[fresh] # None
  BY SlotTypes DEF BootstrapCommit, Inv, TypeOK, ControlOK, MintFilesKept
<1>. DEFINE v == CommitBootstrap(ws, job.slot, fresh)
<1>1. /\ v \in States /\ v.staging = ws.staging
      /\ v.active.phase = "full_merging" /\ v.active.path = fresh
  BY <1>0, <1>b, CommitBootstrapEdit
<1>2. TypeOK'
  BY <1>1, <1>0, <1>a, <1>b DEF Inv, TypeOK, BootstrapCommit, Checkpoint, memory, disk
<1>3. MintFilesKept'
  <2>1. /\ v.active.phase # "disabled"
        /\ v.active.path # None => files'[v.active.path] # None
    BY <1>1, <1>0, <1>a, <1>b DEF LaneKept, BootstrapCommit, Checkpoint, memory, disk
  <2>2. /\ v.staging.phase # "disabled" /\ v.staging.path # None => files'[v.staging.path] # None
        /\ v.staging.phase = "disabled" => v.staging.path = None
    BY <1>1, <1>0, <1>a, <1>b DEF LaneKept, BootstrapCommit, Checkpoint, memory, disk
  <2>3. /\ fresh' # None <=> pc' \in {"adopt", "handshake", "begin", "boot_frozen"}
        /\ fresh' # None => files'[fresh'] # None
    BY DEF Inv, MintFilesKept, BootstrapCommit, Checkpoint, memory, disk
  <2>. QED
    BY <1>1, <2>1, <2>2, <2>3, CheckpointKeeps DEF BootstrapCommit
<1>4. ControlOK'
  BY <1>1, <1>0, <1>a, <1>b, RecordsAssumption DEF Inv, TypeOK, ControlOK, BootstrapCommit,
     Checkpoint, memory, disk
<1>. QED
  BY <1>2, <1>3, <1>4 DEF Inv

(* apply_active_incremental's first checkpoint keeps Inv, for all its callers. *)
LEMMA BeginActiveKeeps ==
    ASSUME Inv, NEW a \in Archives, BeginActive(a), UNCHANGED incr, pc \in {"loop",
    "dispatch"}
    PROVE  Inv'
<1>0. ws \in States /\ ws # None
  BY DEF Inv, TypeOK, ControlOK
<1>a. /\ ws.active.phase # "disabled" /\ LaneKept(ws.active) /\ LaneKept(ws.staging)
  BY <1>0 DEF Inv, MintFilesKept, Claims
<1>l. LET l == LaneLoading(ws.active, a.kind)
      IN  l \in Lanes /\ l.phase = "incremental_loading" /\ l.path = ws.active.path
  BY <1>0, StateFields, SlotTypes, LaneAtEdit DEF LaneLoading, Phases
<1>. DEFINE v == [ws EXCEPT !.active = LaneLoading(@, a.kind)]
<1>1. /\ v \in States /\ v.staging = ws.staging
      /\ v.active.phase = "incremental_loading" /\ v.active.path = ws.active.path
  BY <1>0, <1>l, ActiveEdit
<1>2. TypeOK'
  BY <1>1 DEF Inv, TypeOK, BeginActive, Checkpoint, memory, disk
<1>3. MintFilesKept'
  <2>1. /\ v.active.path # None => files'[v.active.path] # None
        /\ v.staging.phase # "disabled" /\ v.staging.path # None => files'[v.staging.path] # None
        /\ v.staging.phase = "disabled" => v.staging.path = None
    BY <1>1, <1>a DEF LaneKept, BeginActive, disk
  <2>2. /\ fresh' # None <=> pc' \in {"adopt", "handshake", "begin", "boot_frozen"}
        /\ fresh' # None => files'[fresh'] # None
    BY DEF Inv, MintFilesKept, BeginActive, disk
  <2>. QED
    BY <1>1, <2>1, <2>2, CheckpointKeeps DEF BeginActive
<1>4. ControlOK'
  BY <1>1, RecordsAssumption, NoneAssumption
  DEF Inv, TypeOK, ControlOK, BeginActive, Checkpoint, memory, disk
<1>. QED
  BY <1>2, <1>3, <1>4 DEF Inv

(* An archive fed to active beside staging keeps Inv. *)
LEMMA KeepDispatchBoth ==
    ASSUME Inv, DispatchBoth
    PROVE  Inv'
<1>1. job \in Archives
  BY DEF DispatchBoth, Inv, TypeOK, ControlOK
<1>. QED
  BY <1>1, BeginActiveKeeps DEF DispatchBoth

(* An interrupted import of active taken up again keeps Inv. *)
LEMMA KeepResumeActive ==
    ASSUME Inv, NEW dir \in SUBSET Archives, ResumeActive(dir)
    PROVE  Inv'
<1>1. PICK a \in ResumeCandidates(dir) : BeginActive(a)
  BY DEF ResumeActive
<1>2. a \in Archives
  BY DEF ResumeCandidates, Furthest, EligibleFulls, EligibleIncrementals
<1>. QED
  BY <1>1, <1>2, BeginActiveKeeps DEF ResumeActive, ActiveInterrupted, Round

(* A new incremental of active keeps Inv. *)
LEMMA KeepDispatchActive ==
    ASSUME Inv, NEW dir \in SUBSET Archives, DispatchActive(dir)
    PROVE  Inv'
<1>1. PICK a \in Furthest(EligibleIncrementals(dir, activeSlot)) : BeginActive(a)
  BY DEF DispatchActive
<1>2. a \in Archives
  BY DEF Furthest, EligibleIncrementals
<1>. QED
  BY <1>1, <1>2, BeginActiveKeeps DEF DispatchActive, DispatchRound, StagingRound, Round

(* Active's import starting keeps Inv. *)
LEMMA KeepActiveImport ==
    ASSUME Inv, ActiveImport
    PROVE  Inv'
BY ContentsEdits
   DEF Inv, TypeOK, MintFilesKept, LaneKept, Claims, ControlOK, memory, disk, ActiveImport, late

(* Active's import ending keeps Inv. *)
LEMMA KeepActiveImported ==
    ASSUME Inv, ActiveImported
    PROVE  Inv'
BY ContentsEdits
   DEF Inv, TypeOK, MintFilesKept, LaneKept, Claims, ControlOK, memory, disk, ActiveImported, late

(* The checkpoint after active's import keeps Inv: active keeps its file. *)
LEMMA KeepActiveCommit ==
    ASSUME Inv, ActiveCommit
    PROVE  Inv'
<1>0. ws \in States /\ ws # None /\ pc # "down"
  BY DEF ActiveCommit, Inv, TypeOK, ControlOK
<1>a. /\ ws.active.phase # "disabled" /\ LaneKept(ws.active) /\ LaneKept(ws.staging)
  BY <1>0 DEF Inv, MintFilesKept, Claims
<1>b. job.slot \in Nat /\ "ready" \in Phases
  BY SlotTypes DEF ActiveCommit, Inv, TypeOK, ControlOK, Phases
<1>l. LET l == LaneImported(ws.active, "ready", job.slot)
      IN  l \in Lanes /\ l.phase = "ready" /\ l.path = ws.active.path
  BY <1>0, <1>b, StateFields, LaneImportedEdit
<1>. DEFINE v == [ws EXCEPT !.active = LaneImported(@, "ready", job.slot)]
<1>1. /\ v \in States /\ v.staging = ws.staging
      /\ v.active.phase = "ready" /\ v.active.path = ws.active.path
  BY <1>0, <1>l, ActiveEdit
<1>2. TypeOK'
  BY <1>1, <1>0, <1>a, <1>b DEF Inv, TypeOK, ActiveCommit, Checkpoint, memory, disk
<1>3. MintFilesKept'
  <2>1. /\ v.active.phase # "disabled"
        /\ v.active.path # None => files'[v.active.path] # None
    BY <1>1, <1>0, <1>a, <1>b DEF LaneKept, ActiveCommit, Checkpoint, memory, disk
  <2>2. /\ v.staging.phase # "disabled" /\ v.staging.path # None => files'[v.staging.path] # None
        /\ v.staging.phase = "disabled" => v.staging.path = None
    BY <1>1, <1>0, <1>a, <1>b DEF LaneKept, ActiveCommit, Checkpoint, memory, disk
  <2>3. /\ fresh' # None <=> pc' \in {"adopt", "handshake", "begin", "boot_frozen"}
        /\ fresh' # None => files'[fresh'] # None
    BY DEF Inv, MintFilesKept, ActiveCommit, Checkpoint, memory, disk
  <2>. QED
    BY <1>1, <2>1, <2>2, <2>3, CheckpointKeeps DEF ActiveCommit
<1>4. ControlOK'
  BY <1>1, <1>0, <1>a, <1>b, RecordsAssumption DEF Inv, TypeOK, ControlOK, ActiveCommit,
     Checkpoint, memory, disk
<1>. QED
  BY <1>2, <1>3, <1>4 DEF Inv

(* Giving up an interrupted import of active keeps Inv. *)
LEMMA KeepAbandonActive ==
    ASSUME Inv, NEW dir \in SUBSET Archives, AbandonActive(dir)
    PROVE  Inv'
<1>0. ws \in States /\ ws # None /\ pc # "down"
  BY DEF AbandonActive, ActiveInterrupted, Round, Inv, TypeOK, ControlOK
<1>a. /\ ws.active.phase # "disabled" /\ LaneKept(ws.active) /\ LaneKept(ws.staging)
  BY <1>0 DEF Inv, MintFilesKept, Claims
<1>b. pc = "loop" /\ pc' = "loop"
  BY DEF AbandonActive, ActiveInterrupted, Round
<1>l. LET l == LaneReady(ws.active)
      IN  l \in Lanes /\ l.phase = "ready" /\ l.path = ws.active.path
  BY <1>0, StateFields, LaneAtEdit DEF LaneReady, Phases
<1>. DEFINE v == [ws EXCEPT !.active = LaneReady(@)]
<1>1. /\ v \in States /\ v.staging = ws.staging
      /\ v.active.phase = "ready" /\ v.active.path = ws.active.path
  BY <1>0, <1>l, ActiveEdit
<1>2. TypeOK'
  BY <1>1, <1>0, <1>a, <1>b DEF Inv, TypeOK, AbandonActive, Checkpoint, memory, disk
<1>3. MintFilesKept'
  <2>1. /\ v.active.phase # "disabled"
        /\ v.active.path # None => files'[v.active.path] # None
    BY <1>1, <1>0, <1>a, <1>b DEF LaneKept, AbandonActive, Checkpoint, memory, disk
  <2>2. /\ v.staging.phase # "disabled" /\ v.staging.path # None => files'[v.staging.path] # None
        /\ v.staging.phase = "disabled" => v.staging.path = None
    BY <1>1, <1>0, <1>a, <1>b DEF LaneKept, AbandonActive, Checkpoint, memory, disk
  <2>3. /\ fresh' # None <=> pc' \in {"adopt", "handshake", "begin", "boot_frozen"}
        /\ fresh' # None => files'[fresh'] # None
    BY DEF Inv, MintFilesKept, AbandonActive, Checkpoint, memory, disk
  <2>. QED
    BY <1>1, <2>1, <2>2, <2>3, CheckpointKeeps DEF AbandonActive
<1>4. ControlOK'
  BY <1>1, <1>0, <1>a, <1>b, RecordsAssumption DEF Inv, TypeOK, ControlOK, AbandonActive,
     Checkpoint, memory, disk
<1>. QED
  BY <1>2, <1>3, <1>4 DEF Inv

(* Starting the staging build again keeps Inv; it knows its full archive. *)
LEMMA KeepSpawnStagingFull ==
    ASSUME Inv, NEW dir \in SUBSET Archives, SpawnStagingFull(dir)
    PROVE  Inv'
<1>0. ws \in States /\ ws # None /\ pc # "down"
  BY DEF SpawnStagingFull, StagingRound, Round, Inv, TypeOK, ControlOK
<1>1. ws.staging.full \in FullSlots
  BY <1>0, SlotTypes, StateFields, LaneFields DEF SpawnStagingFull, Recorded, FullSlots
<1>2. build' \in Builds /\ build'.full # None /\ build'.pc \in {"start", "acked"}
  BY <1>1, SlotTypes, NoneAssumption DEF SpawnStagingFull, NewBuild, Builds, BuildSteps
<1>3. pc = "loop"
  BY DEF SpawnStagingFull, StagingRound, Round
<1>4. TypeOK'
  BY <1>2 DEF Inv, TypeOK, SpawnStagingFull, memory, disk
<1>5. MintFilesKept'
  BY DEF Inv, MintFilesKept, LaneKept, Claims, SpawnStagingFull, disk
<1>6. ControlOK'
  BY <1>2, <1>3 DEF Inv, TypeOK, ControlOK, SpawnStagingFull, memory
<1>. QED
  BY <1>4, <1>5, <1>6 DEF Inv

(* Starting the merge wait again keeps Inv. *)
LEMMA KeepSpawnMergeWait ==
    ASSUME Inv, SpawnMergeWait
    PROVE  Inv'
<1>0. ws \in States /\ ws # None /\ pc # "down"
  BY DEF SpawnMergeWait, StagingRound, Round, Inv, TypeOK, ControlOK
<1>1. ws.staging.full \in FullSlots
  BY <1>0, StateFields, LaneFields DEF SpawnMergeWait
<1>2. build' \in Builds /\ build'.full # None /\ build'.pc \in {"start", "acked"}
  BY <1>1, SlotTypes, NoneAssumption DEF SpawnMergeWait, NewBuild, Builds, BuildSteps
<1>3. pc = "loop"
  BY DEF SpawnMergeWait, StagingRound, Round
<1>4. TypeOK'
  BY <1>2 DEF Inv, TypeOK, SpawnMergeWait, memory, disk
<1>5. MintFilesKept'
  BY DEF Inv, MintFilesKept, LaneKept, Claims, SpawnMergeWait, disk
<1>6. ControlOK'
  BY <1>2, <1>3 DEF Inv, TypeOK, ControlOK, SpawnMergeWait, memory
<1>. QED
  BY <1>4, <1>5, <1>6 DEF Inv

(* Starting the staging incremental again keeps Inv. *)
LEMMA KeepResumeStaging ==
    ASSUME Inv, NEW dir \in SUBSET Archives, ResumeStaging(dir)
    PROVE  Inv'
BY StateFields, LaneFields
   DEF Inv, TypeOK, MintFilesKept, LaneKept, Claims, ControlOK, memory, disk,
       ResumeStaging, StagingInterrupted, StagingRound, Round, StagingEligible, Furthest,
       EligibleIncrementals, SpawnIncremental, Imports, Slots

(* Giving up an interrupted staging incremental keeps Inv: staging keeps its file. *)
LEMMA KeepAbandonStaging ==
    ASSUME Inv, NEW dir \in SUBSET Archives, AbandonStaging(dir)
    PROVE  Inv'
<1>0. ws \in States /\ ws # None /\ pc # "down"
  BY DEF AbandonStaging, StagingInterrupted, StagingRound, Round, Inv, TypeOK, ControlOK
<1>a. /\ ws.active.phase # "disabled" /\ LaneKept(ws.active) /\ LaneKept(ws.staging)
  BY <1>0 DEF Inv, MintFilesKept, Claims
<1>b. /\ pc = "loop" /\ pc' = "loop" /\ ws.staging.phase = "incremental_loading"
  BY DEF AbandonStaging, StagingInterrupted, StagingRound, Round
<1>l. LET l == LaneReady(ws.staging)
      IN  l \in Lanes /\ l.phase = "ready" /\ l.path = ws.staging.path
  BY <1>0, StateFields, LaneAtEdit DEF LaneReady, Phases
<1>. DEFINE v == [ws EXCEPT !.staging = LaneReady(@)]
<1>1. /\ v \in States /\ v.active = ws.active
      /\ v.staging.phase = "ready" /\ v.staging.path = ws.staging.path
  BY <1>0, <1>l, StagingEdit
<1>2. TypeOK'
  BY <1>1, <1>0, <1>a, <1>b DEF Inv, TypeOK, AbandonStaging, Checkpoint, memory, disk
<1>3. MintFilesKept'
  <2>1. /\ v.active.phase # "disabled"
        /\ v.active.path # None => files'[v.active.path] # None
    BY <1>1, <1>0, <1>a, <1>b DEF LaneKept, AbandonStaging, Checkpoint, memory, disk
  <2>2. /\ v.staging.phase # "disabled" /\ v.staging.path # None => files'[v.staging.path] # None
        /\ v.staging.phase = "disabled" => v.staging.path = None
    BY <1>1, <1>0, <1>a, <1>b DEF LaneKept, AbandonStaging, Checkpoint, memory, disk
  <2>3. /\ fresh' # None <=> pc' \in {"adopt", "handshake", "begin", "boot_frozen"}
        /\ fresh' # None => files'[fresh'] # None
    BY DEF Inv, MintFilesKept, AbandonStaging, Checkpoint, memory, disk
  <2>. QED
    BY <1>1, <2>1, <2>2, <2>3, CheckpointKeeps DEF AbandonStaging
<1>4. ControlOK'
  BY <1>1, <1>0, <1>a, <1>b, RecordsAssumption DEF Inv, TypeOK, ControlOK, AbandonStaging,
     Checkpoint, memory, disk
<1>. QED
  BY <1>2, <1>3, <1>4 DEF Inv

(* Freezing the set of a new generation keeps Inv: its file waits for its checkpoint. *)
LEMMA KeepFreezeStagingMints ==
    ASSUME Inv, NEW dir \in SUBSET Archives, FreezeStagingMints(dir)
    PROVE  Inv'
<1>b. job' \in Archives /\ job'.kind = "full"
  BY DEF FreezeStagingMints, NewGenerations, Furthest, NewerFulls
<1>1. MintFilesKept' /\ files' \in [FileIds -> MintSets \cup {None}] /\ fresh' \in FileIds
  BY <1>b, WrittenKeeps DEF Inv, TypeOK, ControlOK, FreezeStagingMints, memory,
     DispatchRound, StagingRound, Round
<1>2. TypeOK'
  BY <1>1, <1>b, NoneAssumption DEF Inv, TypeOK, ControlOK, FreezeStagingMints, memory,
     DispatchRound, StagingRound, Round, late
<1>3. ControlOK'
  BY <1>1, <1>b, NoneAssumption DEF Inv, TypeOK, ControlOK, FreezeStagingMints, memory,
     DispatchRound, StagingRound, Round
<1>. QED
  BY <1>1, <1>2, <1>3 DEF Inv

(* The checkpoint that begins a generation, and its cleanup, keep Inv. *)
LEMMA KeepBeginSharedLoad ==
    ASSUME Inv, BeginSharedLoad
    PROVE  Inv'
<1>0. ws \in States /\ ws # None /\ pc # "down"
  BY DEF BeginSharedLoad, Inv, TypeOK, ControlOK
<1>a. /\ ws.active.phase # "disabled" /\ LaneKept(ws.active) /\ LaneKept(ws.staging)
  BY <1>0 DEF Inv, MintFilesKept, Claims
<1>b. /\ pc = "begin" /\ fresh \in FileIds /\ files[fresh] # None
      /\ job.slot \in FullSlots /\ ws.active.max \in Nat
      /\ ws.active.path \in FileIds \cup {None}
  BY <1>0, SlotTypes, StateFields, LaneFields
  DEF BeginSharedLoad, Inv, TypeOK, MintFilesKept, ControlOK, Slots
<1>. DEFINE v == BeginShared(ws, job.slot, fresh)
<1>1. /\ v \in States
      /\ v.active.phase = "incremental_loading" /\ v.active.path = ws.active.path
      /\ v.staging.phase = "full_loading" /\ v.staging.path = fresh
  BY <1>0, <1>b, BeginSharedEdit
<1>c. Cleanup(v) /\ files' \in [FileIds -> MintSets \cup {None}]
  BY <1>1, CleanupKeeps DEF BeginSharedLoad, Checkpoint, Inv, TypeOK
<1>d. \A lane \in {v.active, v.staging} :
         lane.phase # "disabled" /\ lane.path \in FileIds => files'[lane.path] = files[lane.path]
  BY <1>1, <1>c, CleanupKeeps DEF Inv, TypeOK
<1>2. TypeOK'
  BY <1>1, <1>0, <1>a, <1>b, <1>c DEF Inv, TypeOK, BeginSharedLoad, Checkpoint, memory, disk, late
<1>3. MintFilesKept'
  <2>1. /\ v.active.phase # "disabled"
        /\ v.active.path # None => files'[v.active.path] # None
    BY <1>1, <1>0, <1>a, <1>b, <1>c, <1>d DEF LaneKept, BeginSharedLoad, Checkpoint,
       memory, disk
  <2>2. /\ v.staging.phase # "disabled" /\ v.staging.path # None => files'[v.staging.path] # None
        /\ v.staging.phase = "disabled" => v.staging.path = None
    BY <1>1, <1>0, <1>a, <1>b, <1>c, <1>d DEF LaneKept, BeginSharedLoad, Checkpoint,
       memory, disk
  <2>3. /\ fresh' # None <=> pc' \in {"adopt", "handshake", "begin", "boot_frozen"}
        /\ fresh' # None => files'[fresh'] # None
    BY DEF Inv, MintFilesKept, BeginSharedLoad, Checkpoint, memory, disk
  <2>. QED
    BY <1>1, <2>1, <2>2, <2>3, CheckpointKeeps DEF BeginSharedLoad
<1>4. ControlOK'
  BY <1>1, <1>0, <1>a, <1>b, <1>c, RecordsAssumption
  DEF Inv, TypeOK, ControlOK, BeginSharedLoad, Checkpoint, memory, disk
<1>. QED
  BY <1>2, <1>3, <1>4 DEF Inv

(* The checkpoint that hands staging an incremental keeps Inv: staging keeps its file. *)
LEMMA KeepDispatchStaging ==
    ASSUME Inv, NEW dir \in SUBSET Archives, DispatchStaging(dir)
    PROVE  Inv'
<1>0. ws \in States /\ ws # None /\ pc # "down"
  BY DEF DispatchStaging, DispatchRound, StagingRound, Round, Inv, TypeOK, ControlOK
<1>a. /\ ws.active.phase # "disabled" /\ LaneKept(ws.active) /\ LaneKept(ws.staging)
  BY <1>0 DEF Inv, MintFilesKept, Claims
<1>b. PICK a \in StagingCandidates(dir) : SpawnIncremental(a) /\ job' = a
  BY DEF DispatchStaging
<1>c. /\ pc = "loop" /\ a \in Archives /\ ws.staging.phase = "ready" /\ ws.staging.max \in Nat
      /\ incr' \in Imports
  <2>1. /\ pc = "loop" /\ a \in Archives /\ ws.staging.phase = "ready" /\ ws.staging.max # None
    BY <1>b DEF DispatchStaging, DispatchRound, StagingRound, Round, StagingCandidates,
                StagingEligible, Furthest, EligibleIncrementals
  <2>2. ws.staging.max \in Nat
    BY <1>0, <2>1, StateFields, LaneFields DEF Slots
  <2>. QED
    BY <1>b, <2>1, <2>2 DEF SpawnIncremental, Imports, Inv, TypeOK
<1>l. LET l == LaneLoading(ws.staging, "incremental")
      IN  l \in Lanes /\ l.phase = "incremental_loading" /\ l.path = ws.staging.path
  BY <1>0, StateFields, LaneAtEdit DEF LaneLoading, Phases
<1>. DEFINE v == [ws EXCEPT !.staging = LaneLoading(@, "incremental")]
<1>1. /\ v \in States /\ v.active = ws.active
      /\ v.staging.phase = "incremental_loading" /\ v.staging.path = ws.staging.path
  BY <1>0, <1>l, StagingEdit
<1>2. TypeOK'
  BY <1>1, <1>0, <1>a, <1>b, <1>c DEF Inv, TypeOK, DispatchStaging, Checkpoint, memory, disk
<1>3. MintFilesKept'
  <2>1. /\ v.active.phase # "disabled"
        /\ v.active.path # None => files'[v.active.path] # None
    BY <1>1, <1>0, <1>a, <1>b, <1>c DEF LaneKept, DispatchStaging, Checkpoint, memory, disk
  <2>2. /\ v.staging.phase # "disabled" /\ v.staging.path # None => files'[v.staging.path] # None
        /\ v.staging.phase = "disabled" => v.staging.path = None
    BY <1>1, <1>0, <1>a, <1>b, <1>c DEF LaneKept, DispatchStaging, Checkpoint, memory, disk
  <2>3. /\ fresh' # None <=> pc' \in {"adopt", "handshake", "begin", "boot_frozen"}
        /\ fresh' # None => files'[fresh'] # None
    BY <1>c DEF Inv, MintFilesKept, DispatchStaging, Checkpoint, memory, disk
  <2>. QED
    BY <1>1, <2>1, <2>2, <2>3, CheckpointKeeps DEF DispatchStaging
<1>4. ControlOK'
  BY <1>1, <1>0, <1>a, <1>b, <1>c, RecordsAssumption, NoneAssumption
  DEF Inv, TypeOK, ControlOK, DispatchStaging, Checkpoint, memory, disk
<1>. QED
  BY <1>2, <1>3, <1>4 DEF Inv

(* An archive that active cannot use keeps Inv. *)
LEMMA KeepDispatchStagingOnly ==
    ASSUME Inv, DispatchStagingOnly
    PROVE  Inv'
BY DEF Inv, TypeOK, MintFilesKept, LaneKept, Claims, ControlOK, memory, disk,
   DispatchStagingOnly

-----------------------------------------------------------------------------
(* The theorems. *)

(* The tables an earlier program run may have left are well-formed. *)
LEMMA HistoricalTypes ==
    /\ \A slot \in FullSlots, mints \in SUBSET MintSets :
          Historical(slot, mints) \in Contents
    /\ Truncated \in Contents
BY SlotTypes DEF Historical, Truncated, Contents, Bases

(* A migrated journal: nothing to keep but active's file. *)
LEMMA MigratedFields ==
    ASSUME NEW max \in FullSlots, NEW path \in FileIds,
           NEW w \in MigratedJournals(max, path)
    PROVE  /\ w \in States
           /\ w.active.phase \in {"ready", "incremental_loading"} /\ w.active.path = path
           /\ w.active.phase = "incremental_loading" => w.active.inflight = "full"
           /\ w.active.max = max /\ w.active.full = None
           /\ w.staging.phase \in {"disabled", "full_loading"} /\ w.staging.max = None
           /\ w.staging.phase = "full_loading" => w.staging.path = None /\ w.staging.full \in FullSlots
           /\ w.cutover = None /\ w.shared = None
<1>. DEFINE lane == [Disabled EXCEPT !.phase = "ready", !.max = max, !.path = path]
            base == [active |-> lane, staging |-> Disabled, cutover |-> None,
                     shared |-> None]
<1>1. /\ lane \in Lanes /\ lane.phase = "ready" /\ lane.path = path
      /\ lane.max = max /\ lane.full = None
  BY SlotTypes DEF Disabled, Lanes, Phases, Slots
<1>2. LET l == LaneLoading(lane, "full")
      IN  /\ l \in Lanes /\ l.phase = "incremental_loading" /\ l.path = path
          /\ l.inflight = "full" /\ l.max = max /\ l.full = None
  <2>1. "incremental_loading" \in Phases
    BY DEF Phases
  <2>. HIDE DEF lane
  <2>. QED
    BY <1>1, <2>1, LaneAtEdit DEF LaneLoading
<1>3. /\ base \in States /\ base.active = lane /\ base.staging = Disabled
      /\ base.cutover = None /\ base.shared = None
  BY <1>1, NewLanes DEF States
<1>a. /\ Disabled.phase = "disabled" /\ Disabled.max = None
      /\ \A s : /\ FullLoading(s).phase = "full_loading" /\ FullLoading(s).max = None
                /\ FullLoading(s).path = None /\ FullLoading(s).full = s
  BY DEF Disabled, FullLoading
<1>4. CASE w = base
  BY <1>1, <1>3, <1>4, <1>a
<1>5. CASE \E f \in FileIds : w = [base EXCEPT !.staging.path = f]
  <2>1. PICK f \in FileIds : w = [base EXCEPT !.staging.path = f]
    BY <1>5
  <2>2. /\ WithPath(Disabled, f) \in Lanes /\ WithPath(Disabled, f).phase = "disabled"
        /\ WithPath(Disabled, f).max = None
    BY NewLanes, <1>a, WithPathEdit
  <2>3. w = [base EXCEPT !.staging = WithPath(Disabled, f)]
    BY <2>1, <1>3 DEF WithPath
  <2>4. /\ w \in States /\ w.active = lane /\ w.staging = WithPath(Disabled, f)
        /\ w.cutover = None /\ w.shared = None
    BY <1>3, <2>2, <2>3, StagingEdit
  <2>. QED
    BY <1>1, <2>2, <2>4
<1>6. CASE \E s \in FullSlots : w = [base EXCEPT !.staging = FullLoading(s)]
  <2>1. PICK s \in FullSlots : w = [base EXCEPT !.staging = FullLoading(s)]
    BY <1>6
  <2>2. /\ w \in States /\ w.active = lane /\ w.staging = FullLoading(s)
        /\ w.cutover = None /\ w.shared = None
    BY <1>3, <2>1, NewLanes, StagingEdit
  <2>. QED
    BY <1>1, <2>2, <1>a
<1>7. CASE \E s \in FullSlots :
             w = [base EXCEPT !.staging = FullLoading(s),
                              !.active = LaneLoading(lane, "full")]
  <2>1. PICK s \in FullSlots :
           w = [base EXCEPT !.staging = FullLoading(s),
                            !.active = LaneLoading(lane, "full")]
    BY <1>7
  <2>2. /\ w \in States /\ w.staging = FullLoading(s)
        /\ w.active = LaneLoading(lane, "full")
        /\ w.cutover = None /\ w.shared = None
    BY <1>2, <1>3, <2>1, NewLanes DEF States
  <2>. QED
    BY <1>2, <2>2, <1>a
<1>. QED
  BY <1>4, <1>5, <1>6, <1>7 DEF MigratedJournals

(* Inv holds of everything the watcher may find when it first starts. *)
LEMMA InitInv == Init => Inv
<1>. SUFFICES ASSUME Init PROVE Inv
  OBVIOUS
<1>1. /\ files \in [FileIds -> MintSets \cup {None}]
      /\ tables \in [Groups -> Contents]
      /\ journal \in States \cup {None}
      /\ journal # None => /\ journal.active.phase # "disabled"
                           /\ LaneKept(journal.active) /\ LaneKept(journal.staging)
  <2>1. CASE InitNoJournal
    BY <2>1, HistoricalTypes DEF InitNoJournal, NoFiles, Filled
  <2>2. CASE InitBootstrapJournal
    <3>1. /\ journal \in States /\ journal.active = WaitingForFull /\ journal.staging = Disabled
      BY <2>2, NewLanes DEF InitBootstrapJournal, RecoveredActiveOnly, States
    <3>2. LaneKept(journal.active) /\ LaneKept(journal.staging)
      BY <3>1, NewLanes DEF LaneKept
    <3>. QED
      BY <2>2, <3>1, <3>2, NewLanes, HistoricalTypes
      DEF InitBootstrapJournal, NoFiles, Filled
  <2>3. CASE InitMigratedJournal
    <3>1. PICK s \in FullSlots, f \in FileIds, mints \in MintSets :
             /\ journal \in MigratedJournals(s, f)
             /\ files = [NoFiles EXCEPT ![f] = mints]
             /\ tables = [g \in Groups |->
                            IF g = "g1" THEN Historical(s, {mints}) ELSE Truncated]
      BY <2>3 DEF InitMigratedJournal
    <3>2. files \in [FileIds -> MintSets \cup {None}] /\ files[f] # None
      BY <3>1, WatcherAssumption DEF NoFiles
    <3>3. tables \in [Groups -> Contents]
      BY <3>1, HistoricalTypes
    <3>4. /\ journal \in States
          /\ journal.active.phase # "disabled" /\ journal.active.path = f
          /\ journal.staging.phase # "disabled" => journal.staging.path = None
      BY <3>1, MigratedFields
    <3>5. LaneKept(journal.active) /\ LaneKept(journal.staging)
      BY <3>2, <3>4 DEF LaneKept, Init
    <3>. QED
      BY <3>2, <3>3, <3>4, <3>5
  <2>. QED
    BY <2>1, <2>2, <2>3 DEF Init
<1>2. TypeOK
  BY <1>1 DEF Init, TypeOK, NoBuild, Builds, BuildSteps, Groups
<1>3. MintFilesKept
  BY <1>1 DEF Init, MintFilesKept, Claims
<1>4. ControlOK
  BY DEF Init, ControlOK, NoBuild
<1>. QED
  BY <1>2, <1>3, <1>4 DEF Inv

(* Inv only looks at the variables. *)
LEMMA StutterInv == Inv /\ UNCHANGED vars => Inv'
BY DEF vars, Inv, TypeOK, MintFilesKept, LaneKept, Claims, ControlOK

(* Inv is inductive: every step of the watcher, its threads and its faults keeps it. *)
LEMMA StepInv == Inv /\ [Next]_vars => Inv'
<1>. SUFFICES ASSUME Inv, [Next]_vars PROVE Inv'
  OBVIOUS
<1>1. CASE Crash \/ StateFileLost
  BY <1>1, KeepCrash, KeepStateFileLost
<1>2. CASE Startup
  BY <1>2, KeepStartFromJournal, KeepStartRecovered, KeepStartBootstrap, KeepStartupCleanup,
     KeepLoadMints, KeepFreezeActiveMints, KeepAdoptActiveMints DEF Startup
<1>3. CASE Threads \/ BuildFails \/ StragglerInserts
  BY <1>3, KeepBuildReset, KeepBuildImport, KeepBuildImported, KeepBuildStartMerges,
     KeepBuildSettled, KeepBuildFails, KeepStragglerInserts, KeepIncrImport, KeepIncrImported DEF Threads
<1>4. CASE Watcher
  BY <1>4, KeepFreezeBuildMints, KeepAckBuild, KeepBuildDone, KeepBuildFailed, KeepIncrDone,
     KeepBeginCutover, KeepExchange, KeepFinishCutover, KeepSharedReset,
     KeepSharedResetFails, KeepFanoutFails, KeepFanoutImported, KeepSharedCommit,
     KeepSharedCommitFails,
     KeepActiveMergeWait, KeepBootstrapReset, KeepBootstrapImport, KeepBootstrapImported,
     KeepBootstrapCommit, KeepActiveImport, KeepActiveImported, KeepActiveCommit,
     KeepSpawnMergeWait, KeepBeginSharedLoad, KeepDispatchBoth, KeepDispatchStagingOnly
  DEF Watcher
<1>5. CASE \E dir \in SUBSET Archives : Scan(dir)
  <2>1. PICK dir \in SUBSET Archives : Scan(dir)
    BY <1>5
  <2>. QED
    BY <2>1, KeepFanoutBegin, KeepResumeBootstrap, KeepFirstBootstrap, KeepResumeActive,
       KeepAbandonActive, KeepSpawnStagingFull, KeepResumeStaging, KeepAbandonStaging,
       KeepFreezeStagingMints, KeepDispatchStaging, KeepDispatchActive DEF Scan
<1>6. CASE UNCHANGED vars
  BY <1>6, StutterInv
<1>. QED
  BY <1>1, <1>2, <1>3, <1>4, <1>5, <1>6 DEF Next

(* The invariant behind the two theorems below: types, what the threads hold  *)
(* at each point, and the files and paths of the lanes.                       *)
THEOREM InvHolds == Spec => []Inv
BY InitInv, StepInv, PTL DEF Spec

(* Every variable keeps its type, through crashes, migrated journals and the  *)
(* operator's faults alike.                                                   *)
THEOREM TypeCorrect == Spec => []TypeOK
<1>1. Inv => TypeOK
  BY DEF Inv
<1>. QED
  BY <1>1, InvHolds, PTL

(* A restart can always read the frozen hot-mint set of every working lane:   *)
(* no interleaving of new files, checkpoints, cleanups, cutovers, crashes,    *)
(* --bootstrap or a lost state file removes a file the journal still names.   *)
THEOREM MintFilesNeverLost == Spec => []MintFilesExist
<1>1. Inv => MintFilesExist
  <2>. SUFFICES ASSUME Inv, NEW w \in Claims, NEW f \in Referenced(w) \ {None}
                PROVE  files[f] # None
    BY DEF MintFilesExist
  <2>1. LaneKept(w.active) /\ LaneKept(w.staging)
    BY DEF Inv, MintFilesKept
  <2>. QED
    BY <2>1 DEF LaneKept, Referenced
<1>. QED
  BY <1>1, InvHolds, PTL

=============================================================================

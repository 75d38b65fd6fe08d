------------------------ MODULE WatcherStagesProofs ------------------------
(***************************************************************************)
(* Proofs about the threads of SnapshotWatcher, for every catalogue of     *)
(* archives and every choice of Faults: of the imports into _bak that the  *)
(* watcher counts on at most one runs, and none while the groups are       *)
(* exchanged; a full import finds in its tables at most rows of stragglers *)
(* of this process; and the served tables lose nothing.                    *)
(***************************************************************************)
EXTENDS SnapshotWatcherProofs

-----------------------------------------------------------------------------
(* What each checkpoint leaves in ws and in the journal, field by field. *)

(* A running watcher has a state. *)
LEMMA UpFields ==
    ASSUME Inv, pc # "down"
    PROVE  ws \in States /\ ws # None /\ ws.active \in Lanes /\ ws.staging \in Lanes
BY StateFields DEF Inv, TypeOK, ControlOK

(* Its active lane works. *)
LEMMA ActiveWorks ==
    ASSUME Inv, pc # "down"
    PROVE  ws.active.phase # "disabled"
BY UpFields DEF Inv, MintFilesKept, Claims

(* No state file: one lane, with an estimated watermark. *)
LEMMA StartRecoveredFields ==
    ASSUME Inv, StartRecovered
    PROVE  /\ ws' \in States /\ journal' = ws'
           /\ ws'.active.phase = "ready" /\ ws'.active.path = None
           /\ ws'.active.full = None
           /\ ws'.active.max \in Nat
           /\ ws'.staging.phase = "disabled" /\ ws'.staging.path = None
           /\ ws'.staging.max = None /\ ws'.staging.full = None
           /\ ws'.cutover = None /\ ws'.shared = None
<1>1. PICK max \in RawMaxima(serving) : Checkpoint(RecoveredActiveOnly(ResumeSlotFromMax(max)))
  BY DEF StartRecovered
<1>2. ResumeSlotFromMax(max) \in Nat
  BY <1>1, RawMaximaTypes, WatcherAssumption DEF ResumeSlotFromMax
<1>. QED
  BY <1>1, <1>2, RecoveredEdit DEF Checkpoint

(* --bootstrap: the same, without the rewind. *)
LEMMA StartBootstrapFields ==
    ASSUME Inv, StartBootstrap
    PROVE  /\ ws' \in States /\ journal' = ws'
           /\ ws'.active.phase = "ready" /\ ws'.active.path = None
           /\ ws'.active.full = None
           /\ ws'.active.max \in Nat
           /\ ws'.staging.phase = "disabled" /\ ws'.staging.path = None
           /\ ws'.staging.max = None /\ ws'.staging.full = None
           /\ ws'.cutover = None /\ ws'.shared = None
<1>1. PICK max \in RawMaxima(serving) : Checkpoint(RecoveredActiveOnly(max))
  BY DEF StartBootstrap
<1>2. max \in Nat
  BY <1>1, RawMaximaTypes
<1>. QED
  BY <1>1, <1>2, RecoveredEdit DEF Checkpoint

(* Startup clears the path of a disabled lane and nothing else. *)
LEMMA StartupCleanupFields ==
    ASSUME Inv, StartupCleanup
    PROVE  /\ ws' \in States /\ journal' = ws'
           /\ ws'.active = ws.active
           /\ ws'.staging.phase = ws.staging.phase /\ ws'.staging.full = ws.staging.full
           /\ ws'.staging.max = ws.staging.max /\ ws'.staging.inflight = ws.staging.inflight
           /\ ws'.staging.path = IF ws.staging.phase = "disabled" THEN None ELSE ws.staging.path
           /\ ws'.cutover = ws.cutover /\ ws'.shared = ws.shared
<1>0. ws \in States /\ ws.active \in Lanes /\ ws.staging \in Lanes
  BY UpFields DEF StartupCleanup
<1>1. ClearPath(ws.active) = ws.active
  BY <1>0, ActiveWorks DEF ClearPath, StartupCleanup
<1>. QED
  BY <1>0, <1>1, ClearPathEdit, ClearedEdit DEF StartupCleanup, Checkpoint

(* The frozen set of active is named. *)
LEMMA AdoptFields ==
    ASSUME Inv, AdoptActiveMints
    PROVE  /\ ws' \in States /\ journal' = ws'
           /\ ws'.active.phase = ws.active.phase /\ ws'.active.full = ws.active.full
           /\ ws'.active.max = ws.active.max /\ ws'.active.inflight = ws.active.inflight
           /\ ws'.active.path = fresh /\ ws'.staging = ws.staging
           /\ ws'.cutover = ws.cutover /\ ws'.shared = ws.shared
<1>0. ws \in States /\ ws.active \in Lanes /\ ws.staging \in Lanes
  BY UpFields DEF AdoptActiveMints
<1>1. fresh \in FileIds \cup {None}
  BY DEF Inv, TypeOK
<1>. QED
  BY <1>0, <1>1, WithPathEdit, ActiveEdit DEF AdoptActiveMints, Checkpoint

(* The handshake: staging is imported and names its file. *)
LEMMA AckBuildFields ==
    ASSUME Inv, AckBuild
    PROVE  /\ ws' \in States /\ journal' = ws'
           /\ ws'.active = ws.active
           /\ ws'.staging.phase = "full_merging" /\ ws'.staging.full = ws.staging.full
           /\ ws'.staging.max = build.full /\ ws'.staging.path = fresh
           /\ ws'.cutover = ws.cutover /\ ws'.shared = ws.shared
           /\ build.full \in FullSlots /\ fresh \in FileIds
<1>0. ws \in States /\ ws.active \in Lanes /\ ws.staging \in Lanes
  BY UpFields DEF AckBuild
<1>1. build.full \in FullSlots /\ fresh \in FileIds
  BY DEF AckBuild, Inv, TypeOK, MintFilesKept, ControlOK, Builds
<1>. QED
  BY <1>0, <1>1, StagingImportedEdit DEF AckBuild, Checkpoint

(* Staging's merges have settled. *)
LEMMA BuildDoneFields ==
    ASSUME Inv, BuildDone
    PROVE  /\ ws' \in States /\ journal' = ws'
           /\ ws'.active = ws.active
           /\ ws'.staging.phase = "ready" /\ ws'.staging.full = ws.staging.full
           /\ ws'.staging.max = ws.staging.max /\ ws'.staging.path = ws.staging.path
           /\ ws'.cutover = ws.cutover /\ ws'.shared = ws.shared
<1>0. ws \in States /\ ws.active \in Lanes /\ ws.staging \in Lanes
  BY UpFields DEF BuildDone
<1>. QED
  BY <1>0, SettledEdit, StagingEdit DEF BuildDone, Checkpoint

(* Both lanes wait for the cutover. *)
LEMMA IncrDoneFields ==
    ASSUME Inv, IncrDone
    PROVE  /\ ws' \in States /\ journal' = ws'
           /\ ws'.active.phase = "cutover_pending" /\ ws'.active.full = ws.active.full
           /\ ws'.active.max = ws.active.max /\ ws'.active.path = ws.active.path
           /\ ws'.staging.phase = "cutover_pending" /\ ws'.staging.full = ws.staging.full
           /\ ws'.staging.max = incr.archive.slot /\ ws'.staging.path = ws.staging.path
           /\ ws'.cutover = ws.cutover /\ ws'.shared = ws.shared
<1>0. ws \in States /\ ws.active \in Lanes /\ ws.staging \in Lanes
  BY UpFields DEF IncrDone
<1>1. incr.archive.slot \in Nat
  BY SlotTypes DEF IncrDone, Inv, TypeOK, Imports
<1>. QED
  BY <1>0, <1>1, BothPendingEdit DEF IncrDone, Checkpoint

(* The groups of the exchange are recorded. *)
LEMMA BeginCutoverFields ==
    ASSUME Inv, BeginCutover
    PROVE  /\ ws' \in States /\ journal' = ws'
           /\ ws'.active = ws.active /\ ws'.staging = ws.staging
           /\ ws'.cutover \in Cutovers /\ ws'.cutover.active = serving
           /\ ws'.cutover.staging = Bak /\ ws'.shared = ws.shared
<1>0. ws \in States /\ ws.active \in Lanes /\ ws.staging \in Lanes
  BY UpFields DEF BeginCutover
<1>1. [active |-> serving, staging |-> Bak] \in Cutovers
  BY GroupsFact DEF Inv, TypeOK, Bak, Cutovers
<1>. QED
  BY <1>0, <1>1 DEF BeginCutover, Checkpoint, States

(* The lanes have changed places. *)
LEMMA FinishCutoverFields ==
    ASSUME Inv, FinishCutover
    PROVE  /\ ws' \in States /\ journal' = ws'
           /\ ws'.active.phase = "ready" /\ ws'.active.full = ws.staging.full
           /\ ws'.active.max = ws.staging.max /\ ws'.active.path = ws.staging.path
           /\ ws'.staging.phase = "disabled" /\ ws'.staging.full = ws.active.full
           /\ ws'.staging.max = ws.active.max /\ ws'.staging.path = None
           /\ ws'.cutover = None /\ ws'.shared = None
<1>0. ws \in States /\ ws.active \in Lanes /\ ws.staging \in Lanes
  BY UpFields DEF FinishCutover
<1>. QED
  BY <1>0, PromotedEdit DEF FinishCutover, Checkpoint

(* A shared import is committed to both lanes. *)
LEMMA SharedCommitFields ==
    ASSUME Inv, SharedCommit
    PROVE  /\ ws' \in States /\ journal' = ws'
           /\ ws'.active.phase = "ready" /\ ws'.active.full = ws.active.full
           /\ ws'.active.max = job.slot /\ ws'.active.path = ws.active.path
           /\ ws'.staging.phase = "full_merging" /\ ws'.staging.full = ws.staging.full
           /\ ws'.staging.max = job.slot /\ ws'.staging.path = ws.staging.path
           /\ ws'.cutover = ws.cutover /\ ws'.shared = None
<1>0. ws \in States /\ ws.active \in Lanes /\ ws.staging \in Lanes
  BY UpFields DEF SharedCommit
<1>1. job.slot \in FullSlots
  BY SlotTypes DEF SharedCommit, Inv, TypeOK, ControlOK
<1>. QED
  BY <1>0, <1>1, CommitSharedEdit DEF SharedCommit, Checkpoint

(* The same in memory, when the journal could not be written. *)
LEMMA SharedCommitFailsFields ==
    ASSUME Inv, SharedCommitFails
    PROVE  /\ ws' \in States /\ journal' \in {journal, ws'}
           /\ ws'.active.phase = "ready" /\ ws'.active.full = ws.active.full
           /\ ws'.active.max = job.slot /\ ws'.active.path = ws.active.path
           /\ ws'.staging.phase = "full_merging" /\ ws'.staging.full = ws.staging.full
           /\ ws'.staging.max = job.slot /\ ws'.staging.path = ws.staging.path
           /\ ws'.cutover = ws.cutover /\ ws'.shared = None
<1>0. ws \in States /\ ws.active \in Lanes /\ ws.staging \in Lanes
  BY UpFields DEF SharedCommitFails
<1>1. job.slot \in FullSlots
  BY SlotTypes DEF SharedCommitFails, Inv, TypeOK, ControlOK
<1>. QED
  BY <1>0, <1>1, CommitSharedEdit DEF SharedCommitFails, Checkpoint

(* Active's merges have settled. *)
LEMMA ActiveMergeWaitFields ==
    ASSUME Inv, ActiveMergeWait
    PROVE  /\ ws' \in States /\ journal' = ws'
           /\ ws'.active.phase = "ready" /\ ws'.active.full = ws.active.full
           /\ ws'.active.max = ws.active.max /\ ws'.active.path = ws.active.path
           /\ ws'.staging = ws.staging
           /\ ws'.cutover = ws.cutover /\ ws'.shared = ws.shared
<1>0. ws \in States /\ ws.active \in Lanes /\ ws.staging \in Lanes
  BY UpFields DEF ActiveMergeWait, Round
<1>. QED
  BY <1>0, SettledEdit, ActiveEdit DEF ActiveMergeWait, Checkpoint

(* A bootstrap import begins: active is emptied, staging disabled. *)
LEMMA BootstrapFullFields ==
    ASSUME Inv, pc # "down", NEW a \in Archives, a.kind = "full", BootstrapFull(a)
    PROVE  /\ ws' \in States /\ journal' = ws'
           /\ ws'.active.phase = "full_loading" /\ ws'.active.full = a.slot
           /\ ws'.active.max = None /\ ws'.active.path = None
           /\ ws'.staging.phase = "disabled" /\ ws'.staging.full = None
           /\ ws'.staging.max = None /\ ws'.staging.path = None
           /\ ws'.cutover = None /\ ws'.shared = ws.shared
<1>1. ws \in States /\ a.slot \in FullSlots
  BY UpFields, SlotTypes
<1>. QED
  BY <1>1, BeginBootstrapEdit DEF BootstrapFull, Checkpoint

(* A bootstrap import is committed. *)
LEMMA BootstrapCommitFields ==
    ASSUME Inv, BootstrapCommit
    PROVE  /\ ws' \in States /\ journal' = ws'
           /\ ws'.active.phase = "full_merging" /\ ws'.active.full = ws.active.full
           /\ ws'.active.max = job.slot /\ ws'.active.path = fresh
           /\ ws'.staging = ws.staging
           /\ ws'.cutover = ws.cutover /\ ws'.shared = ws.shared
           /\ fresh \in FileIds
<1>0. ws \in States /\ ws.active \in Lanes /\ ws.staging \in Lanes
  BY UpFields DEF BootstrapCommit
<1>1. job.slot \in FullSlots /\ fresh \in FileIds
  BY SlotTypes DEF BootstrapCommit, Inv, TypeOK, ControlOK, MintFilesKept
<1>. QED
  BY <1>0, <1>1, CommitBootstrapEdit DEF BootstrapCommit, Checkpoint

(* Active starts importing a tail. *)
LEMMA BeginActiveFields ==
    ASSUME Inv, pc # "down", NEW a \in Archives, BeginActive(a)
    PROVE  /\ ws' \in States /\ journal' = ws'
           /\ ws'.active.phase = "incremental_loading" /\ ws'.active.full = ws.active.full
           /\ ws'.active.max = ws.active.max /\ ws'.active.path = ws.active.path
           /\ ws'.active.inflight = a.kind
           /\ ws'.staging = ws.staging
           /\ ws'.cutover = ws.cutover /\ ws'.shared = ws.shared
<1>1. /\ ws \in States /\ ws.active \in Lanes /\ a.kind \in {"full", "incremental", None}
      /\ "incremental_loading" \in Phases
  BY UpFields, SlotTypes DEF Phases
<1>. QED
  BY <1>1, LaneAtEdit, ActiveEdit DEF BeginActive, Checkpoint, LaneLoading

(* Active has imported a tail. *)
LEMMA ActiveCommitFields ==
    ASSUME Inv, ActiveCommit
    PROVE  /\ ws' \in States /\ journal' = ws'
           /\ ws'.active.phase = "ready" /\ ws'.active.full = ws.active.full
           /\ ws'.active.max = job.slot /\ ws'.active.path = ws.active.path
           /\ ws'.staging = ws.staging
           /\ ws'.cutover = ws.cutover /\ ws'.shared = ws.shared
<1>0. ws \in States /\ ws.active \in Lanes /\ ws.staging \in Lanes
  BY UpFields DEF ActiveCommit
<1>1. job.slot \in Nat /\ "ready" \in Phases
  BY SlotTypes DEF ActiveCommit, Inv, TypeOK, ControlOK, Phases
<1>. QED
  BY <1>0, <1>1, LaneImportedEdit, ActiveEdit DEF ActiveCommit, Checkpoint

(* The interrupted archive is gone: active waits for another. *)
LEMMA AbandonActiveFields ==
    ASSUME Inv, NEW dir, AbandonActive(dir)
    PROVE  /\ ws' \in States /\ journal' = ws'
           /\ ws'.active.phase = "ready" /\ ws'.active.full = ws.active.full
           /\ ws'.active.max = ws.active.max /\ ws'.active.path = ws.active.path
           /\ ws'.staging = ws.staging
           /\ ws'.cutover = ws.cutover /\ ws'.shared = ws.shared
<1>0. ws \in States /\ ws.active \in Lanes /\ ws.staging \in Lanes
  BY UpFields DEF AbandonActive, ActiveInterrupted, Round
<1>1. "ready" \in Phases
  BY DEF Phases
<1>. QED
  BY <1>0, <1>1, LaneAtEdit, ActiveEdit DEF AbandonActive, Checkpoint, LaneReady

(* The interrupted archive is gone: staging waits for another. *)
LEMMA AbandonStagingFields ==
    ASSUME Inv, NEW dir, AbandonStaging(dir)
    PROVE  /\ ws' \in States /\ journal' = ws'
           /\ ws'.staging.phase = "ready" /\ ws'.staging.full = ws.staging.full
           /\ ws'.staging.max = ws.staging.max /\ ws'.staging.path = ws.staging.path
           /\ ws'.active = ws.active
           /\ ws'.cutover = ws.cutover /\ ws'.shared = ws.shared
<1>0. ws \in States /\ ws.active \in Lanes /\ ws.staging \in Lanes
  BY UpFields DEF AbandonStaging, StagingInterrupted, StagingRound, Round
<1>1. "ready" \in Phases
  BY DEF Phases
<1>. QED
  BY <1>0, <1>1, LaneAtEdit, StagingEdit DEF AbandonStaging, Checkpoint, LaneReady

(* A generation begins. *)
LEMMA BeginSharedLoadFields ==
    ASSUME Inv, BeginSharedLoad
    PROVE  /\ ws' \in States /\ journal' = ws'
           /\ ws'.active.phase = "incremental_loading" /\ ws'.active.full = ws.active.full
           /\ ws'.active.max = ws.active.max /\ ws'.active.path = ws.active.path
           /\ ws'.active.inflight = "full"
           /\ ws'.staging.phase = "full_loading" /\ ws'.staging.full = job.slot
           /\ ws'.staging.max = None /\ ws'.staging.path = fresh
           /\ ws'.cutover = None /\ ws'.shared \in SharedLoads
           /\ ws'.shared.full = job.slot /\ ws'.shared.resume = ws.active.max
           /\ fresh \in FileIds
<1>0. ws \in States /\ ws.active \in Lanes /\ ws.staging \in Lanes
  BY UpFields DEF BeginSharedLoad
<1>1. job.slot \in FullSlots /\ fresh \in FileIds /\ ws.active.max \in Nat
  BY <1>0, SlotTypes, LaneFields
  DEF BeginSharedLoad, Inv, TypeOK, ControlOK, MintFilesKept, Slots
<1>. QED
  BY <1>0, <1>1, BeginSharedEdit DEF BeginSharedLoad, Checkpoint

(* Staging takes an incremental. *)
LEMMA DispatchStagingFields ==
    ASSUME Inv, NEW dir, DispatchStaging(dir)
    PROVE  /\ ws' \in States /\ journal' = ws'
           /\ ws'.active = ws.active
           /\ ws'.staging.phase = "incremental_loading" /\ ws'.staging.full = ws.staging.full
           /\ ws'.staging.max = ws.staging.max /\ ws'.staging.path = ws.staging.path
           /\ ws'.staging.inflight = "incremental"
           /\ ws'.cutover = ws.cutover /\ ws'.shared = ws.shared
<1>0. ws \in States /\ ws.active \in Lanes /\ ws.staging \in Lanes
  BY UpFields DEF DispatchStaging, DispatchRound, StagingRound, Round
<1>1. "incremental_loading" \in Phases
  BY DEF Phases
<1>. QED
  BY <1>0, <1>1, LaneAtEdit, StagingEdit, SMTT(60) DEF DispatchStaging, Checkpoint, LaneLoading

-----------------------------------------------------------------------------
(* Steps that several handlers share. *)

(* The two table groups. *)
LEMMA BakFacts ==
    ASSUME serving \in Groups
    PROVE  /\ Bak \in Groups /\ Bak # serving /\ Other(serving) = Bak /\ Other(Bak) = serving
           /\ \A g \in Groups : g = serving \/ g = Bak
BY DEF Groups, Bak, Other

(* A running watcher's lanes go together. *)
LEMMA StageUp ==
    ASSUME StageInv, pc # "down"
    PROVE  /\ ws \in States /\ ws # None /\ ws.active \in Lanes /\ ws.staging \in Lanes
           /\ StateOK(ws)
BY UpFields DEF StageInv, Claims

(* A step that writes no state leaves the claims as they are. *)
LEMMA SameStates ==
    ASSUME StageInv, journal' \in {journal, None}, ws' \in {ws, journal, None}
    PROVE  (\A w \in Claims : StateOK(w))'
BY DEF StageInv, Claims, StateOK

(* After a checkpoint the new state is the only one that claims something. *)
LEMMA CheckpointStates ==
    ASSUME journal' = ws', StateOK(ws')
    PROVE  (\A w \in Claims : StateOK(w))'
BY DEF Claims, StateOK

(* Steps that leave the tables alone and truncate nothing. *)
LEMMA EmptyKeeps ==
    ASSUME EmptyOK, UNCHANGED <<tables, serving>>,
           build'.pc = "reset" => build.pc = "reset",
           pc' = "shared_ready" => pc = "shared_ready", pc' = "boot_reset" => pc = "boot_reset"
    PROVE  EmptyOK'
BY DEF EmptyOK, NoResidue, Bak

(* What TRUNCATE and imports do to `base'. *)
LEMMA BaseEdits ==
    ASSUME NEW t \in Contents, t.base # "residue"
    PROVE  /\ Reset(t) = Truncated /\ Truncated.base # "residue"
           /\ PartlyReset(t).base # "residue"
           /\ \A slot : EndFull(t, slot).base # "residue"
           /\ \A slot, mints : BeginFull(Truncated, slot, mints).base # "residue"
           /\ \A a, mints : BeginTail(t, a, mints).base # "residue"
           /\ \A a, resume : EndTail(t, a, resume).base # "residue"
<1>1. Reset(t) = Truncated /\ Truncated.base # "residue" /\ PartlyReset(t).base # "residue"
  BY DEF Reset, Truncated, PartlyReset
<1>2. \A slot : EndFull(t, slot).base # "residue"
  BY DEF EndFull, Contents
<1>3. \A slot, mints : BeginFull(Truncated, slot, mints).base # "residue"
  BY DEF BeginFull, Truncated
<1>4. /\ \A a, mints : BeginTail(t, a, mints).base # "residue"
      /\ \A a, resume : EndTail(t, a, resume).base # "residue"
  BY DEF BeginTail, EndTail, Contents
<1>. QED
  BY <1>1, <1>2, <1>3, <1>4

(* Steps that replace what one group holds. *)
LEMMA WriteKeeps ==
    ASSUME Inv, EmptyOK, NEW g \in Groups, NEW c, c.base # "residue",
           tables' = [tables EXCEPT ![g] = c]
    PROVE  NoResidue' /\ tables'[g] = c /\ \A h \in Groups : h # g => tables'[h] = tables[h]
BY DEF Inv, TypeOK, EmptyOK, NoResidue

(* reset_table_group, which works or not. *)
LEMMA TryResetKeeps ==
    ASSUME Inv, EmptyOK, NEW g \in Groups, TryReset(g)
    PROVE  NoResidue' /\ \A h \in Groups : h # g => tables'[h] = tables[h]
<1>1. tables[g] \in Contents /\ tables[g].base # "residue"
  BY DEF Inv, TypeOK, EmptyOK, NoResidue
<1>2. PICK t \in {tables[g], PartlyReset(tables[g]), Reset(tables[g])} :
         tables' = [tables EXCEPT ![g] = t]
  BY DEF TryReset
<1>3. t.base # "residue"
  BY <1>1, <1>2, BaseEdits
<1>. QED
  BY <1>2, <1>3, WriteKeeps

(* A reset that is done leaves its group empty and the other as it was. *)
LEMMA ResetKeeps ==
    ASSUME Inv, EmptyOK, NEW g \in Groups, ResetGroup(g)
    PROVE  /\ NoResidue' /\ tables'[g] = Truncated
           /\ \A h \in Groups : h # g => tables'[h] = tables[h]
<1>1. tables' = [tables EXCEPT ![g] = Truncated] /\ Truncated.base # "residue"
  BY DEF ResetGroup, Reset, Truncated
<1>. QED
  BY <1>1, WriteKeeps

-----------------------------------------------------------------------------
(* Every step keeps StageInv. *)

(* A crash: the threads are gone. *)
LEMMA StageCrash ==
    ASSUME StageInv, Inv', Crash
    PROVE  StageInv'
<1>. USE DEF memory, disk
<1>1. (\A w \in Claims : StateOK(w))'
  BY SameStates DEF Crash
<1>2. StageOK'
  BY StageUp, RecordsAssumption
  DEF Crash, StageInv, StageOK, StateOK, Starting, Booting, NoBuild, NewBuild
<1>3. EmptyOK'
  <2>1. serving \in Groups
    BY DEF StageInv, Inv, TypeOK
  <2>2. NoResidue'
    <3>1. CASE pc = "boot_start"
      BY <2>1, <3>1, TryResetKeeps DEF Crash, StageInv
    <3>2. CASE pc # "boot_start"
      BY <3>2 DEF Crash, StageInv, EmptyOK, NoResidue
    <3>. QED
      BY <3>1, <3>2
  <2>. QED
    BY <2>2 DEF Crash, EmptyOK, NoBuild
<1>. QED
  BY <1>1, <1>2, <1>3 DEF StageInv

(* The state file is gone. *)
LEMMA StageStateFileLost ==
    ASSUME StageInv, Inv', StateFileLost
    PROVE  StageInv'
<1>. USE DEF memory, disk
<1>1. (\A w \in Claims : StateOK(w))'
  BY SameStates DEF StateFileLost
<1>2. StageOK'
  BY StageUp, RecordsAssumption
  DEF StateFileLost, StageInv, StageOK, StateOK, Starting, Booting, NoBuild, NewBuild
<1>3. EmptyOK'
  BY EmptyKeeps DEF StateFileLost, StageInv, NoBuild, NewBuild
<1>. QED
  BY <1>1, <1>2, <1>3 DEF StageInv

(* The journal is read back. *)
LEMMA StageStartFromJournal ==
    ASSUME StageInv, Inv', StartFromJournal
    PROVE  StageInv'
<1>. USE DEF memory, disk
<1>1. (\A w \in Claims : StateOK(w))'
  BY SameStates DEF StartFromJournal
<1>2. StageOK'
  BY StageUp, RecordsAssumption
  DEF StartFromJournal, StageInv, StageOK, StateOK, Starting, Booting, NoBuild, NewBuild
<1>3. EmptyOK'
  BY EmptyKeeps DEF StartFromJournal, StageInv, NoBuild, NewBuild
<1>. QED
  BY <1>1, <1>2, <1>3 DEF StageInv

(* One lane is recovered. *)
LEMMA StageStartRecovered ==
    ASSUME StageInv, Inv', StartRecovered
    PROVE  StageInv'
<1>. USE DEF memory, disk
<1>1. (\A w \in Claims : StateOK(w))'
  <2>1. StateOK(ws')
    BY StartRecoveredFields, StageUp, RecordsAssumption
    DEF StartRecovered, StateOK, StageInv, StageOK
  <2>. QED
    BY <2>1, StartRecoveredFields, CheckpointStates DEF StageInv
<1>2. StageOK'
  BY StageUp, RecordsAssumption, StartRecoveredFields
  DEF StartRecovered, StageInv, StageOK, StateOK, Starting, Booting, NoBuild, NewBuild
<1>3. EmptyOK'
  BY EmptyKeeps DEF StartRecovered, StageInv, NoBuild, NewBuild
<1>. QED
  BY <1>1, <1>2, <1>3 DEF StageInv

(* One lane is recovered. *)
LEMMA StageStartBootstrap ==
    ASSUME StageInv, Inv', StartBootstrap
    PROVE  StageInv'
<1>. USE DEF memory, disk
<1>1. (\A w \in Claims : StateOK(w))'
  <2>1. StateOK(ws')
    BY StartBootstrapFields, StageUp, RecordsAssumption
    DEF StartBootstrap, StateOK, StageInv, StageOK
  <2>. QED
    BY <2>1, StartBootstrapFields, CheckpointStates DEF StageInv
<1>2. StageOK'
  BY StageUp, RecordsAssumption, StartBootstrapFields
  DEF StartBootstrap, StageInv, StageOK, StateOK, Starting, Booting, NoBuild, NewBuild
<1>3. EmptyOK'
  BY EmptyKeeps DEF StartBootstrap, StageInv, NoBuild, NewBuild
<1>. QED
  BY <1>1, <1>2, <1>3 DEF StageInv

(* Unused files are removed. *)
LEMMA StageStartupCleanup ==
    ASSUME StageInv, Inv', StartupCleanup
    PROVE  StageInv'
<1>. USE DEF memory, disk
<1>1. (\A w \in Claims : StateOK(w))'
  <2>1. StateOK(ws')
    BY StartupCleanupFields, StageUp, RecordsAssumption
    DEF StartupCleanup, StateOK, StageInv, StageOK
  <2>. QED
    BY <2>1, StartupCleanupFields, CheckpointStates DEF StageInv
<1>2. StageOK'
  BY StageUp, RecordsAssumption, StartupCleanupFields
  DEF StartupCleanup, StageInv, StageOK, StateOK, Starting, Booting, NoBuild, NewBuild
<1>3. EmptyOK'
  BY EmptyKeeps DEF StartupCleanup, StageInv, NoBuild, NewBuild
<1>. QED
  BY <1>1, <1>2, <1>3 DEF StageInv

(* The frozen sets are read. *)
LEMMA StageLoadMints ==
    ASSUME StageInv, Inv', LoadMints
    PROVE  StageInv'
<1>. USE DEF memory, disk
<1>1. (\A w \in Claims : StateOK(w))'
  BY SameStates DEF LoadMints
<1>2. StageOK'
  BY StageUp, RecordsAssumption
  DEF LoadMints, StageInv, StageOK, StateOK, Starting, Booting, NoBuild, NewBuild
<1>3. EmptyOK'
  BY EmptyKeeps DEF LoadMints, StageInv, NoBuild, NewBuild
<1>. QED
  BY <1>1, <1>2, <1>3 DEF StageInv

(* A file for active's set. *)
LEMMA StageFreezeActiveMints ==
    ASSUME StageInv, Inv', FreezeActiveMints
    PROVE  StageInv'
<1>. USE DEF memory, disk
<1>1. (\A w \in Claims : StateOK(w))'
  BY SameStates DEF FreezeActiveMints
<1>2. StageOK'
  BY StageUp, RecordsAssumption
  DEF FreezeActiveMints, StageInv, StageOK, StateOK, Starting, Booting, NoBuild, NewBuild
<1>3. EmptyOK'
  BY EmptyKeeps DEF FreezeActiveMints, StageInv, NoBuild, NewBuild
<1>. QED
  BY <1>1, <1>2, <1>3 DEF StageInv

(* Active names it. *)
LEMMA StageAdoptActiveMints ==
    ASSUME StageInv, Inv', AdoptActiveMints
    PROVE  StageInv'
<1>. USE DEF memory, disk
<1>1. (\A w \in Claims : StateOK(w))'
  <2>1. StateOK(ws')
    BY AdoptFields, StageUp, RecordsAssumption
    DEF AdoptActiveMints, StateOK, StageInv, StageOK
  <2>. QED
    BY <2>1, AdoptFields, CheckpointStates DEF StageInv
<1>2. StageOK'
  BY StageUp, RecordsAssumption, AdoptFields
  DEF AdoptActiveMints, StageInv, StageOK, StateOK, Starting, Booting, NoBuild, NewBuild
<1>3. EmptyOK'
  BY EmptyKeeps DEF AdoptActiveMints, StageInv, NoBuild, NewBuild
<1>. QED
  BY <1>1, <1>2, <1>3 DEF StageInv

(* The staging thread truncates _bak. *)
LEMMA StageBuildReset ==
    ASSUME StageInv, Inv', BuildReset
    PROVE  StageInv'
<1>. USE DEF memory, disk
<1>1. (\A w \in Claims : StateOK(w))'
  BY SameStates DEF BuildReset, ResetGroup
<1>2. StageOK'
  BY StageUp, RecordsAssumption
  DEF BuildReset, ResetGroup, StageInv, StageOK, StateOK, Starting, Booting, NoBuild,
      NewBuild
<1>3. EmptyOK'
  <2>1. serving \in Groups /\ Bak \in Groups /\ Bak # serving
    BY BakFacts DEF StageInv, Inv, TypeOK
  <2>2. NoResidue' /\ tables'[Bak] = Truncated /\ tables'[serving] = tables[serving]
    BY <2>1, ResetKeeps DEF BuildReset, StageInv
  <2>. QED
    BY <2>1, <2>2 DEF BuildReset, StageInv, EmptyOK, Bak
<1>. QED
  BY <1>1, <1>2, <1>3 DEF StageInv

(* Its import starts on empty tables. *)
LEMMA StageBuildImport ==
    ASSUME StageInv, Inv', BuildImport
    PROVE  StageInv'
<1>. USE DEF memory, disk
<1>1. (\A w \in Claims : StateOK(w))'
  BY SameStates DEF BuildImport, Inv, TypeOK, Builds
<1>2. StageOK'
  BY StageUp, RecordsAssumption
  DEF BuildImport, Inv, TypeOK, Builds, StageInv, StageOK, StateOK, Starting, Booting,
      NoBuild, NewBuild
<1>3. EmptyOK'
  <2>1. serving \in Groups /\ Bak \in Groups /\ Bak # serving /\ tables[Bak] = Truncated
    BY BakFacts DEF BuildImport, StageInv, Inv, TypeOK, EmptyOK
  <2>2. PICK mints \in MintSets :
           /\ build' = [build EXCEPT !.pc = "import", !.mints = mints]
           /\ tables' = [tables EXCEPT ![Bak] = BeginFull(tables[Bak], build.full, mints)]
    BY DEF BuildImport
  <2>3. BeginFull(tables[Bak], build.full, mints).base # "residue"
    BY <2>1 DEF BeginFull, Truncated
  <2>4. NoResidue' /\ tables'[serving] = tables[serving]
    BY <2>1, <2>2, <2>3, WriteKeeps DEF StageInv
  <2>5. pc # "shared_ready" /\ build'.pc = "import"
    BY <2>2, StageUp DEF BuildImport, StageInv, StageOK, Inv, TypeOK, Builds, Starting
  <2>. QED
    BY <2>4, <2>5 DEF BuildImport, StageInv, EmptyOK, Bak
<1>. QED
  BY <1>1, <1>2, <1>3 DEF StageInv

(* It is committed. *)
LEMMA StageBuildImported ==
    ASSUME StageInv, Inv', BuildImported
    PROVE  StageInv'
<1>. USE DEF memory, disk
<1>1. (\A w \in Claims : StateOK(w))'
  BY SameStates DEF BuildImported, Inv, TypeOK, Builds
<1>2. StageOK'
  BY StageUp, RecordsAssumption
  DEF BuildImported, Inv, TypeOK, Builds, StageInv, StageOK, StateOK, Starting, Booting,
      NoBuild, NewBuild
<1>3. EmptyOK'
  <2>. DEFINE c == EndFull(tables[Bak], build.full)
  <2>1. serving \in Groups /\ Bak \in Groups /\ Bak # serving
    BY BakFacts DEF StageInv, Inv, TypeOK
  <2>2. tables[Bak] \in Contents /\ tables[Bak].base # "residue"
    BY <2>1 DEF StageInv, Inv, TypeOK, EmptyOK, NoResidue
  <2>3. c.base # "residue" /\ tables' = [tables EXCEPT ![Bak] = c]
    BY <2>2, BaseEdits DEF BuildImported
  <2>. HIDE DEF c
  <2>4. NoResidue' /\ \A h \in Groups : h # Bak => tables'[h] = tables[h]
    BY <2>1, <2>3, WriteKeeps DEF StageInv
  <2>. QED
    BY <2>1, <2>4, StageUp DEF BuildImported, StageInv, StageOK, StateOK, EmptyOK, Bak
<1>. QED
  BY <1>1, <1>2, <1>3 DEF StageInv

(* Merges start. *)
LEMMA StageBuildStartMerges ==
    ASSUME StageInv, Inv', BuildStartMerges
    PROVE  StageInv'
<1>. USE DEF memory, disk
<1>1. (\A w \in Claims : StateOK(w))'
  BY SameStates DEF BuildStartMerges, Inv, TypeOK, Builds
<1>2. StageOK'
  BY StageUp, RecordsAssumption
  DEF BuildStartMerges, Inv, TypeOK, Builds, StageInv, StageOK, StateOK, Starting, Booting,
      NoBuild, NewBuild
<1>3. EmptyOK'
  BY EmptyKeeps DEF BuildStartMerges, Inv, TypeOK, Builds, StageInv, NoBuild, NewBuild
<1>. QED
  BY <1>1, <1>2, <1>3 DEF StageInv

(* The parts settle. *)
LEMMA StageBuildSettled ==
    ASSUME StageInv, Inv', BuildSettled
    PROVE  StageInv'
<1>. USE DEF memory, disk
<1>1. (\A w \in Claims : StateOK(w))'
  BY SameStates DEF BuildSettled, Inv, TypeOK, Builds
<1>2. StageOK'
  BY StageUp, RecordsAssumption
  DEF BuildSettled, Inv, TypeOK, Builds, StageInv, StageOK, StateOK, Starting, Booting,
      NoBuild, NewBuild
<1>3. EmptyOK'
  BY EmptyKeeps DEF BuildSettled, Inv, TypeOK, Builds, StageInv, NoBuild, NewBuild
<1>. QED
  BY <1>1, <1>2, <1>3 DEF StageInv

(* The staging thread fails. *)
LEMMA StageBuildFails ==
    ASSUME StageInv, Inv', BuildFails
    PROVE  StageInv'
<1>. USE DEF memory, disk
<1>1. (\A w \in Claims : StateOK(w))'
  BY SameStates DEF BuildFails, Inv, TypeOK, Builds
<1>2. StageOK'
  BY StageUp, RecordsAssumption
  DEF BuildFails, Inv, TypeOK, Builds, StageInv, StageOK, StateOK, Starting, Booting,
      NoBuild, NewBuild
<1>3. EmptyOK'
  BY EmptyKeeps DEF BuildFails, Inv, TypeOK, Builds, StageInv, NoBuild, NewBuild
<1>. QED
  BY <1>1, <1>2, <1>3 DEF StageInv

(* A straggler inserts: no thread the watcher counts on has moved. *)
LEMMA StageStragglerInserts ==
    ASSUME StageInv, Inv', StragglerInserts
    PROVE  StageInv'
<1>. USE DEF memory, disk
<1>1. (\A w \in Claims : StateOK(w))'
  BY SameStates DEF StragglerInserts
<1>2. StageOK'
  BY StageUp, RecordsAssumption
  DEF StragglerInserts, StageInv, StageOK, StateOK, Starting, Booting, NoBuild, NewBuild
<1>3. EmptyOK'
  BY EmptyKeeps DEF StragglerInserts, StageInv, NoBuild, NewBuild
<1>. QED
  BY <1>1, <1>2, <1>3 DEF StageInv

(* The incremental thread starts writing. *)
LEMMA StageIncrImport ==
    ASSUME StageInv, Inv', IncrImport
    PROVE  StageInv'
<1>. USE DEF memory, disk
<1>1. (\A w \in Claims : StateOK(w))'
  BY SameStates DEF IncrImport, Inv, TypeOK, Imports
<1>2. StageOK'
  BY StageUp, RecordsAssumption
  DEF IncrImport, Inv, TypeOK, Imports, StageInv, StageOK, StateOK, Starting, Booting,
      NoBuild, NewBuild
<1>3. EmptyOK'
  <2>. DEFINE c == BeginTail(tables[Bak], incr.archive, incr.mints)
  <2>1. serving \in Groups /\ Bak \in Groups /\ Bak # serving
    BY BakFacts DEF StageInv, Inv, TypeOK
  <2>2. tables[Bak] \in Contents /\ tables[Bak].base # "residue"
    BY <2>1 DEF StageInv, Inv, TypeOK, EmptyOK, NoResidue
  <2>3. c.base # "residue" /\ tables' = [tables EXCEPT ![Bak] = c]
    BY <2>2, BaseEdits DEF IncrImport
  <2>. HIDE DEF c
  <2>4. NoResidue' /\ \A h \in Groups : h # Bak => tables'[h] = tables[h]
    BY <2>1, <2>3, WriteKeeps DEF StageInv
  <2>. QED
    BY <2>1, <2>4, StageUp DEF IncrImport, StageInv, StageOK, StateOK, EmptyOK, Bak
<1>. QED
  BY <1>1, <1>2, <1>3 DEF StageInv

(* Its import is committed. *)
LEMMA StageIncrImported ==
    ASSUME StageInv, Inv', IncrImported
    PROVE  StageInv'
<1>. USE DEF memory, disk
<1>1. (\A w \in Claims : StateOK(w))'
  BY SameStates DEF IncrImported, Inv, TypeOK, Imports
<1>2. StageOK'
  BY StageUp, RecordsAssumption
  DEF IncrImported, Inv, TypeOK, Imports, StageInv, StageOK, StateOK, Starting, Booting,
      NoBuild, NewBuild
<1>3. EmptyOK'
  <2>. DEFINE c == EndTail(tables[Bak], incr.archive, incr.resume)
  <2>1. serving \in Groups /\ Bak \in Groups /\ Bak # serving
    BY BakFacts DEF StageInv, Inv, TypeOK
  <2>2. tables[Bak] \in Contents /\ tables[Bak].base # "residue"
    BY <2>1 DEF StageInv, Inv, TypeOK, EmptyOK, NoResidue
  <2>3. c.base # "residue" /\ tables' = [tables EXCEPT ![Bak] = c]
    BY <2>2, BaseEdits DEF IncrImported
  <2>. HIDE DEF c
  <2>4. NoResidue' /\ \A h \in Groups : h # Bak => tables'[h] = tables[h]
    BY <2>1, <2>3, WriteKeeps DEF StageInv
  <2>. QED
    BY <2>1, <2>4, StageUp DEF IncrImported, StageInv, StageOK, StateOK, EmptyOK, Bak
<1>. QED
  BY <1>1, <1>2, <1>3 DEF StageInv

(* A file for the set of the build. *)
LEMMA StageFreezeBuildMints ==
    ASSUME StageInv, Inv', FreezeBuildMints
    PROVE  StageInv'
<1>. USE DEF memory, disk
<1>1. (\A w \in Claims : StateOK(w))'
  BY SameStates DEF FreezeBuildMints
<1>2. StageOK'
  BY StageUp, RecordsAssumption
  DEF FreezeBuildMints, StageInv, StageOK, StateOK, Starting, Booting, NoBuild, NewBuild
<1>3. EmptyOK'
  BY EmptyKeeps DEF FreezeBuildMints, StageInv, NoBuild, NewBuild
<1>. QED
  BY <1>1, <1>2, <1>3 DEF StageInv

(* The handshake. *)
LEMMA StageAckBuild ==
    ASSUME StageInv, Inv', AckBuild
    PROVE  StageInv'
<1>. USE DEF memory, disk
<1>1. (\A w \in Claims : StateOK(w))'
  <2>1. StateOK(ws')
    BY AckBuildFields, StageUp, RecordsAssumption
    DEF AckBuild, Inv, TypeOK, ControlOK, Builds, StateOK, StageInv, StageOK
  <2>. QED
    BY <2>1, AckBuildFields, CheckpointStates DEF StageInv
<1>2. StageOK'
  BY StageUp, RecordsAssumption, AckBuildFields
  DEF AckBuild, Inv, TypeOK, ControlOK, Builds, StageInv, StageOK, StateOK, Starting,
      Booting, NoBuild, NewBuild
<1>3. EmptyOK'
  BY EmptyKeeps DEF AckBuild, Inv, TypeOK, ControlOK, Builds, StageInv, NoBuild, NewBuild
<1>. QED
  BY <1>1, <1>2, <1>3 DEF StageInv

(* Staging is ready. *)
LEMMA StageBuildDone ==
    ASSUME StageInv, Inv', BuildDone
    PROVE  StageInv'
<1>. USE DEF memory, disk
<1>1. (\A w \in Claims : StateOK(w))'
  <2>1. StateOK(ws')
    BY BuildDoneFields, StageUp, RecordsAssumption DEF BuildDone, StateOK, StageInv, StageOK
  <2>. QED
    BY <2>1, BuildDoneFields, CheckpointStates DEF StageInv
<1>2. StageOK'
  BY StageUp, RecordsAssumption, BuildDoneFields
  DEF BuildDone, StageInv, StageOK, StateOK, Starting, Booting, NoBuild, NewBuild
<1>3. EmptyOK'
  BY EmptyKeeps DEF BuildDone, StageInv, NoBuild, NewBuild
<1>. QED
  BY <1>1, <1>2, <1>3 DEF StageInv

(* A failed build is cleaned up. *)
LEMMA StageBuildFailed ==
    ASSUME StageInv, Inv', BuildFailed
    PROVE  StageInv'
<1>. USE DEF memory, disk
<1>1. (\A w \in Claims : StateOK(w))'
  BY SameStates DEF BuildFailed
<1>2. StageOK'
  BY StageUp, RecordsAssumption
  DEF BuildFailed, StageInv, StageOK, StateOK, Starting, Booting, NoBuild, NewBuild
<1>3. EmptyOK'
  <2>1. serving \in Groups /\ Bak \in Groups /\ Bak # serving
    BY BakFacts DEF StageInv, Inv, TypeOK
  <2>2. NoResidue' /\ tables'[serving] = tables[serving]
    BY <2>1, TryResetKeeps DEF BuildFailed, ResetFailedStaging, StageInv
  <2>. QED
    BY <2>1, <2>2, StageUp DEF BuildFailed, StageInv, StageOK, StateOK, EmptyOK, Bak, NoBuild
<1>. QED
  BY <1>1, <1>2, <1>3 DEF StageInv

(* Both lanes wait for the cutover. *)
LEMMA StageIncrDone ==
    ASSUME StageInv, Inv', IncrDone
    PROVE  StageInv'
<1>. USE DEF memory, disk
<1>1. (\A w \in Claims : StateOK(w))'
  <2>1. StateOK(ws')
    BY IncrDoneFields, StageUp, RecordsAssumption DEF IncrDone, StateOK, StageInv, StageOK
  <2>. QED
    BY <2>1, IncrDoneFields, CheckpointStates DEF StageInv
<1>2. StageOK'
  BY StageUp, RecordsAssumption, IncrDoneFields
  DEF IncrDone, StageInv, StageOK, StateOK, Starting, Booting, NoBuild, NewBuild
<1>3. EmptyOK'
  BY EmptyKeeps DEF IncrDone, StageInv, NoBuild, NewBuild
<1>. QED
  BY <1>1, <1>2, <1>3 DEF StageInv

(* The cutover is recorded. *)
LEMMA StageBeginCutover ==
    ASSUME StageInv, Inv', BeginCutover
    PROVE  StageInv'
<1>. USE DEF memory, disk
<1>1. (\A w \in Claims : StateOK(w))'
  <2>1. StateOK(ws')
    BY BeginCutoverFields, StageUp, RecordsAssumption
    DEF BeginCutover, CutoverDue, StateOK, StageInv, StageOK
  <2>. QED
    BY <2>1, BeginCutoverFields, CheckpointStates DEF StageInv
<1>2. StageOK'
  BY StageUp, RecordsAssumption, BeginCutoverFields
  DEF BeginCutover, CutoverDue, StageInv, StageOK, StateOK, Starting, Booting, NoBuild,
      NewBuild
<1>3. EmptyOK'
  BY EmptyKeeps DEF BeginCutover, CutoverDue, StageInv, NoBuild, NewBuild
<1>. QED
  BY <1>1, <1>2, <1>3 DEF StageInv

(* The groups are exchanged: nobody writes either. *)
LEMMA StageExchange ==
    ASSUME StageInv, Inv', Exchange
    PROVE  StageInv'
<1>. USE DEF memory, disk
<1>1. (\A w \in Claims : StateOK(w))'
  BY SameStates DEF Exchange, CutoverDue
<1>2. StageOK'
  BY StageUp, RecordsAssumption
  DEF Exchange, CutoverDue, StageInv, StageOK, StateOK, Starting, Booting, NoBuild, NewBuild
<1>3. EmptyOK'
  <2>1. build.pc # "reset" /\ pc' = "exchanged"
    BY StageUp DEF Exchange, CutoverDue, StageInv, StageOK
  <2>. QED
    BY <2>1 DEF Exchange, StageInv, EmptyOK, NoResidue
<1>. QED
  BY <1>1, <1>2, <1>3 DEF StageInv

(* The lanes change places. *)
LEMMA StageFinishCutover ==
    ASSUME StageInv, Inv', FinishCutover
    PROVE  StageInv'
<1>. USE DEF memory, disk
<1>1. (\A w \in Claims : StateOK(w))'
  <2>1. StateOK(ws')
    BY FinishCutoverFields, StageUp, RecordsAssumption
    DEF FinishCutover, StateOK, StageInv, StageOK
  <2>. QED
    BY <2>1, FinishCutoverFields, CheckpointStates DEF StageInv
<1>2. StageOK'
  BY StageUp, RecordsAssumption, FinishCutoverFields
  DEF FinishCutover, StageInv, StageOK, StateOK, Starting, Booting, NoBuild, NewBuild
<1>3. EmptyOK'
  BY EmptyKeeps DEF FinishCutover, StageInv, NoBuild, NewBuild
<1>. QED
  BY <1>1, <1>2, <1>3 DEF StageInv

(* _bak is truncated for a shared import. *)
LEMMA StageSharedReset ==
    ASSUME StageInv, Inv', SharedReset
    PROVE  StageInv'
<1>. USE DEF memory, disk
<1>1. (\A w \in Claims : StateOK(w))'
  BY SameStates DEF SharedReset, SharedDue, CutoverDue
<1>2. StageOK'
  BY StageUp, RecordsAssumption
  DEF SharedReset, SharedDue, CutoverDue, StageInv, StageOK, StateOK, Starting, Booting,
      NoBuild, NewBuild
<1>3. EmptyOK'
  <2>1. serving \in Groups /\ Bak \in Groups /\ Bak # serving
    BY BakFacts DEF StageInv, Inv, TypeOK
  <2>2. NoResidue' /\ tables'[Bak] = Truncated /\ tables'[serving] = tables[serving]
    BY <2>1, ResetKeeps DEF SharedReset, StageInv
  <2>. QED
    BY <2>1, <2>2 DEF SharedReset, SharedDue, StageInv, EmptyOK, Bak
<1>. QED
  BY <1>1, <1>2, <1>3 DEF StageInv

(* Or not. *)
LEMMA StageSharedResetFails ==
    ASSUME StageInv, Inv', SharedResetFails
    PROVE  StageInv'
<1>. USE DEF memory, disk
<1>1. (\A w \in Claims : StateOK(w))'
  BY SameStates DEF SharedResetFails, SharedDue, CutoverDue
<1>2. StageOK'
  BY StageUp, RecordsAssumption
  DEF SharedResetFails, SharedDue, CutoverDue, StageInv, StageOK, StateOK, Starting,
      Booting, NoBuild, NewBuild
<1>3. EmptyOK'
  <2>1. serving \in Groups /\ Bak \in Groups /\ Bak # serving
    BY BakFacts DEF StageInv, Inv, TypeOK
  <2>2. NoResidue' /\ tables'[serving] = tables[serving]
    BY <2>1, TryResetKeeps DEF SharedResetFails, ResetFailedStaging, StageInv
  <2>. QED
    BY <2>1, <2>2, StageUp
    DEF SharedResetFails, StageInv, StageOK, StateOK, EmptyOK, Bak, NoBuild, SharedDue
<1>. QED
  BY <1>1, <1>2, <1>3 DEF StageInv

(* One read of the archive feeds both groups. *)
LEMMA StageFanoutBegin ==
    ASSUME StageInv, Inv', NEW dir \in SUBSET Archives, FanoutBegin(dir)
    PROVE  StageInv'
<1>. USE DEF memory, disk
<1>1. (\A w \in Claims : StateOK(w))'
  BY SameStates DEF FanoutBegin
<1>2. StageOK'
  BY StageUp, RecordsAssumption
  DEF FanoutBegin, StageInv, StageOK, StateOK, Starting, Booting, NoBuild, NewBuild
<1>3. EmptyOK'
  <2>1. serving \in Groups /\ Bak \in Groups /\ Bak # serving /\ tables[Bak] = Truncated
    BY BakFacts DEF FanoutBegin, StageInv, Inv, TypeOK, EmptyOK
  <2>2. PICK a \in Archives :
           tables' = [tables EXCEPT ![Bak] = BeginFull(tables[Bak], a.slot, stagingMints),
                                    ![serving] = BeginTail(tables[serving], a, activeMints)]
    BY DEF FanoutBegin, Recorded
  <2>3. /\ tables'[Bak] = BeginFull(tables[Bak], a.slot, stagingMints)
        /\ tables'[serving] = BeginTail(tables[serving], a, activeMints)
    BY <2>1, <2>2 DEF StageInv, Inv, TypeOK
  <2>4. tables[serving] \in Contents /\ tables[serving].base # "residue"
    BY <2>1 DEF StageInv, Inv, TypeOK, EmptyOK, NoResidue
  <2>5. tables'[Bak].base # "residue" /\ tables'[serving].base # "residue"
    BY <2>1, <2>3, <2>4, BaseEdits
  <2>6. NoResidue'
    BY <2>5, <2>1, BakFacts DEF NoResidue
  <2>7. build.pc # "reset"
    BY StageUp DEF FanoutBegin, StageInv, StageOK
  <2>. QED
    BY <2>6, <2>7 DEF FanoutBegin, EmptyOK
<1>. QED
  BY <1>1, <1>2, <1>3 DEF StageInv

(* The shared import fails. *)
LEMMA StageFanoutFails ==
    ASSUME StageInv, Inv', FanoutFails
    PROVE  StageInv'
<1>. USE DEF memory, disk
<1>1. (\A w \in Claims : StateOK(w))'
  BY SameStates DEF FanoutFails
<1>2. StageOK'
  BY StageUp, RecordsAssumption
  DEF FanoutFails, StageInv, StageOK, StateOK, Starting, Booting, NoBuild, NewBuild
<1>3. EmptyOK'
  <2>1. serving \in Groups /\ Bak \in Groups /\ Bak # serving
    BY BakFacts DEF StageInv, Inv, TypeOK
  <2>2. NoResidue' /\ tables'[serving] = tables[serving]
    BY <2>1, TryResetKeeps DEF FanoutFails, ResetFailedStaging, StageInv
  <2>. QED
    BY <2>1, <2>2, StageUp DEF FanoutFails, StageInv, StageOK, StateOK, EmptyOK, Bak, NoBuild
<1>. QED
  BY <1>1, <1>2, <1>3 DEF StageInv

(* The shared import is committed. *)
LEMMA StageFanoutImported ==
    ASSUME StageInv, Inv', FanoutImported
    PROVE  StageInv'
<1>. USE DEF memory, disk
<1>1. (\A w \in Claims : StateOK(w))'
  BY SameStates DEF FanoutImported
<1>2. StageOK'
  BY StageUp, RecordsAssumption
  DEF FanoutImported, StageInv, StageOK, StateOK, Starting, Booting, NoBuild, NewBuild
<1>3. EmptyOK'
  <2>1. serving \in Groups /\ Bak \in Groups /\ Bak # serving
    BY BakFacts DEF StageInv, Inv, TypeOK
  <2>2. /\ tables'[Bak] = EndFull(tables[Bak], job.slot)
        /\ tables'[serving] = EndTail(tables[serving], job, ws.shared.resume)
    BY <2>1 DEF FanoutImported, StageInv, Inv, TypeOK
  <2>3. /\ tables[serving] \in Contents /\ tables[serving].base # "residue"
        /\ tables[Bak] \in Contents /\ tables[Bak].base # "residue"
    BY <2>1 DEF StageInv, Inv, TypeOK, EmptyOK, NoResidue
  <2>4. tables'[Bak].base # "residue" /\ tables'[serving].base # "residue"
    BY <2>2, <2>3, BaseEdits
  <2>5. NoResidue'
    BY <2>4, <2>1, BakFacts DEF NoResidue
  <2>6. build.pc # "reset"
    BY StageUp DEF FanoutImported, StageInv, StageOK
  <2>. QED
    BY <2>5, <2>6 DEF FanoutImported, EmptyOK
<1>. QED
  BY <1>1, <1>2, <1>3 DEF StageInv

(* Both lanes are committed. *)
LEMMA StageSharedCommit ==
    ASSUME StageInv, Inv', SharedCommit
    PROVE  StageInv'
<1>. USE DEF memory, disk
<1>0. build'.pc \in {"acked", "none"}
  BY DEF SharedCommit, NewBuild, NoBuild
<1>1. (\A w \in Claims : StateOK(w))'
  <2>1. StateOK(ws')
    BY SharedCommitFields, StageUp, RecordsAssumption
    DEF SharedCommit, StateOK, StageInv, StageOK
  <2>. QED
    BY <2>1, SharedCommitFields, CheckpointStates DEF StageInv
<1>2. StageOK'
  BY StageUp, RecordsAssumption, SharedCommitFields, <1>0
  DEF SharedCommit, StageInv, StageOK, StateOK, Starting, Booting, NoBuild, NewBuild
<1>3. EmptyOK'
  BY EmptyKeeps DEF SharedCommit, StageInv, NoBuild, NewBuild
<1>. QED
  BY <1>1, <1>2, <1>3 DEF StageInv

(* The same, when the journal cannot be written. *)
LEMMA StageSharedCommitFails ==
    ASSUME StageInv, Inv', SharedCommitFails
    PROVE  StageInv'
<1>. USE DEF memory, disk
<1>1. (\A w \in Claims : StateOK(w))'
  <2>1. StateOK(ws')
    BY SharedCommitFailsFields, StageUp DEF SharedCommitFails, StageInv, StageOK, StateOK
  <2>. QED
    BY <2>1, SharedCommitFailsFields DEF StageInv, Claims, StateOK
<1>2. StageOK'
  BY StageUp, SharedCommitFailsFields
     DEF SharedCommitFails, StageInv, StageOK, StateOK, Starting, Booting
<1>3. EmptyOK'
  <2>1. serving \in Groups /\ Bak \in Groups /\ Bak # serving
    BY BakFacts DEF StageInv, Inv, TypeOK
  <2>2. NoResidue' /\ tables'[serving] = tables[serving]
    BY <2>1, TryResetKeeps DEF SharedCommitFails, ResetFailedStaging, StageInv
  <2>. QED
    BY <2>1, <2>2, StageUp
    DEF SharedCommitFails, StageInv, StageOK, StateOK, EmptyOK, Bak, NoBuild
<1>. QED
  BY <1>1, <1>2, <1>3 DEF StageInv

(* Active is ready. *)
LEMMA StageActiveMergeWait ==
    ASSUME StageInv, Inv', ActiveMergeWait
    PROVE  StageInv'
<1>. USE DEF memory, disk
<1>1. (\A w \in Claims : StateOK(w))'
  <2>1. StateOK(ws')
    BY ActiveMergeWaitFields, StageUp, RecordsAssumption
    DEF ActiveMergeWait, Round, CutoverDue, StateOK, StageInv, StageOK
  <2>. QED
    BY <2>1, ActiveMergeWaitFields, CheckpointStates DEF StageInv
<1>2. StageOK'
  BY StageUp, RecordsAssumption, ActiveMergeWaitFields
  DEF ActiveMergeWait, Round, CutoverDue, StageInv, StageOK, StateOK, Starting, Booting,
      NoBuild, NewBuild
<1>3. EmptyOK'
  BY EmptyKeeps DEF ActiveMergeWait, Round, CutoverDue, StageInv, NoBuild, NewBuild
<1>. QED
  BY <1>1, <1>2, <1>3 DEF StageInv

(* A bootstrap import begins. *)
LEMMA StageBootstrapFull ==
    ASSUME StageInv, Inv', Round, NEW a \in Archives, a.kind = "full", BootstrapFull(a),
           ws.active.phase \in {"waiting_for_full", "full_loading"}
    PROVE  StageInv'
<1>. USE DEF memory, disk
<1>0. pc = "loop" /\ ws.shared = None
  BY DEF Round
<1>a. /\ journal' = ws' /\ ws'.active.phase = "full_loading" /\ ws'.staging.phase = "disabled"
      /\ ws'.cutover = None /\ ws'.shared = None
  BY <1>0, BootstrapFullFields DEF StageInv
<1>1. (\A w \in Claims : StateOK(w))'
  <2>1. StateOK(ws')
    BY <1>a DEF StateOK
  <2>. QED
    BY <2>1, <1>a, CheckpointStates
<1>b. ws.staging.phase = "disabled"
  BY <1>0, StageUp DEF StateOK
<1>2. StageOK'
  BY <1>0, <1>a, <1>b
  DEF BootstrapFull, StageInv, StageOK, Starting, Booting, Inv, TypeOK, Builds, BuildSteps
<1>3. EmptyOK'
  BY EmptyKeeps DEF BootstrapFull, StageInv
<1>. QED
  BY <1>1, <1>2, <1>3 DEF StageInv

(* It begins again after a restart ... *)
LEMMA StageResumeBootstrap ==
    ASSUME StageInv, Inv', NEW dir \in SUBSET Archives, ResumeBootstrap(dir)
    PROVE  StageInv'
BY StageBootstrapFull DEF ResumeBootstrap, Recorded

(* ... or for the first time. *)
LEMMA StageFirstBootstrap ==
    ASSUME StageInv, Inv', NEW dir \in SUBSET Archives, FirstBootstrap(dir)
    PROVE  StageInv'
BY StageBootstrapFull DEF FirstBootstrap, Furthest, NewerFulls, DispatchRound, StagingRound

(* Active's tables are truncated. *)
LEMMA StageBootstrapReset ==
    ASSUME StageInv, Inv', BootstrapReset
    PROVE  StageInv'
<1>. USE DEF memory, disk
<1>1. (\A w \in Claims : StateOK(w))'
  BY SameStates DEF BootstrapReset, ResetGroup
<1>2. StageOK'
  BY StageUp, RecordsAssumption
  DEF BootstrapReset, ResetGroup, StageInv, StageOK, StateOK, Starting, Booting, NoBuild,
      NewBuild
<1>3. EmptyOK'
  <2>1. serving \in Groups /\ Bak \in Groups /\ Bak # serving
    BY BakFacts DEF StageInv, Inv, TypeOK
  <2>2. NoResidue' /\ tables'[serving] = Truncated /\ tables'[Bak] = tables[Bak]
    BY <2>1, ResetKeeps DEF BootstrapReset, StageInv
  <2>. QED
    BY <2>1, <2>2 DEF BootstrapReset, StageInv, EmptyOK, Bak
<1>. QED
  BY <1>1, <1>2, <1>3 DEF StageInv

(* The import starts on empty tables. *)
LEMMA StageBootstrapImport ==
    ASSUME StageInv, Inv', BootstrapImport
    PROVE  StageInv'
<1>. USE DEF memory, disk
<1>1. (\A w \in Claims : StateOK(w))'
  BY SameStates DEF BootstrapImport
<1>2. StageOK'
  BY StageUp, RecordsAssumption
  DEF BootstrapImport, StageInv, StageOK, StateOK, Starting, Booting, NoBuild, NewBuild
<1>3. EmptyOK'
  <2>1. serving \in Groups /\ Bak \in Groups /\ Bak # serving /\ tables[serving] = Truncated
    BY BakFacts DEF BootstrapImport, StageInv, Inv, TypeOK, EmptyOK
  <2>2. PICK mints \in MintSets :
           tables' = [tables EXCEPT ![serving] = BeginFull(tables[serving], job.slot, mints)]
    BY DEF BootstrapImport
  <2>3. BeginFull(tables[serving], job.slot, mints).base # "residue"
    BY <2>1 DEF BeginFull, Truncated
  <2>4. NoResidue' /\ tables'[Bak] = tables[Bak]
    BY <2>1, <2>2, <2>3, WriteKeeps DEF StageInv
  <2>. QED
    BY <2>4 DEF BootstrapImport, StageInv, EmptyOK, Bak
<1>. QED
  BY <1>1, <1>2, <1>3 DEF StageInv

(* It is committed. *)
LEMMA StageBootstrapImported ==
    ASSUME StageInv, Inv', BootstrapImported
    PROVE  StageInv'
<1>. USE DEF memory, disk
<1>1. (\A w \in Claims : StateOK(w))'
  BY SameStates DEF BootstrapImported
<1>2. StageOK'
  BY StageUp, RecordsAssumption
  DEF BootstrapImported, StageInv, StageOK, StateOK, Starting, Booting, NoBuild, NewBuild
<1>3. EmptyOK'
  <2>. DEFINE c == EndFull(tables[serving], job.slot)
  <2>1. serving \in Groups /\ serving \in Groups /\ Bak # serving
    BY BakFacts DEF StageInv, Inv, TypeOK
  <2>2. tables[serving] \in Contents /\ tables[serving].base # "residue"
    BY <2>1 DEF StageInv, Inv, TypeOK, EmptyOK, NoResidue
  <2>3. c.base # "residue" /\ tables' = [tables EXCEPT ![serving] = c]
    BY <2>2, BaseEdits DEF BootstrapImported
  <2>. HIDE DEF c
  <2>4. NoResidue' /\ \A h \in Groups : h # serving => tables'[h] = tables[h]
    BY <2>1, <2>3, WriteKeeps DEF StageInv
  <2>. QED
    BY <2>1, <2>4, StageUp DEF BootstrapImported, StageInv, StageOK, StateOK, EmptyOK, Bak
<1>. QED
  BY <1>1, <1>2, <1>3 DEF StageInv

(* And checkpointed. *)
LEMMA StageBootstrapCommit ==
    ASSUME StageInv, Inv', BootstrapCommit
    PROVE  StageInv'
<1>. USE DEF memory, disk
<1>1. (\A w \in Claims : StateOK(w))'
  <2>1. StateOK(ws')
    BY BootstrapCommitFields, StageUp, RecordsAssumption
    DEF BootstrapCommit, Booting, Inv, TypeOK, BuildSteps, Builds, StateOK, StageInv,
        StageOK
  <2>. QED
    BY <2>1, BootstrapCommitFields, CheckpointStates DEF StageInv
<1>2. StageOK'
  BY StageUp, RecordsAssumption, BootstrapCommitFields
  DEF BootstrapCommit, Booting, Inv, TypeOK, BuildSteps, Builds, StageInv, StageOK, StateOK,
      Starting, Booting, NoBuild, NewBuild
<1>3. EmptyOK'
  BY EmptyKeeps
  DEF BootstrapCommit, Booting, Inv, TypeOK, BuildSteps, Builds, StageInv, NoBuild, NewBuild
<1>. QED
  BY <1>1, <1>2, <1>3 DEF StageInv

(* Active takes an archive. *)
LEMMA StageBeginActive ==
    ASSUME StageInv, Inv', pc \in {"loop", "dispatch"}, NEW a \in Archives, BeginActive(a),
           ws.active.phase \in {"ready", "incremental_loading"}, ws.shared = None, incr' = incr
    PROVE  StageInv'
<1>. USE DEF memory, disk
<1>0. pc # "down"
  OBVIOUS
<1>a. /\ journal' = ws' /\ ws'.active.phase = "incremental_loading"
      /\ ws'.staging = ws.staging
      /\ ws'.cutover = ws.cutover /\ ws'.shared = ws.shared
  BY <1>0, BeginActiveFields DEF StageInv
<1>1. (\A w \in Claims : StateOK(w))'
  <2>1. StateOK(ws')
    BY <1>a, StageUp DEF StateOK
  <2>. QED
    BY <2>1, <1>a, CheckpointStates
<1>2. StageOK'
  BY <1>a DEF BeginActive, StageInv, StageOK, Starting, Booting
<1>3. EmptyOK'
  BY EmptyKeeps DEF BeginActive, StageInv
<1>. QED
  BY <1>1, <1>2, <1>3 DEF StageInv

(* The archive staging took, ... *)
LEMMA StageDispatchBoth ==
    ASSUME StageInv, Inv', DispatchBoth
    PROVE  StageInv'
<1>1. job \in Archives
  BY DEF DispatchBoth, StageInv, Inv, TypeOK, ControlOK
<1>2. ws.shared = None
  BY StageUp DEF DispatchBoth, StageInv, StageOK, StateOK
<1>. QED
  BY <1>1, <1>2, StageBeginActive DEF DispatchBoth

(* ... the one that was interrupted or another in its place, ... *)
LEMMA StageResumeActive ==
    ASSUME StageInv, Inv', NEW dir \in SUBSET Archives, ResumeActive(dir)
    PROVE  StageInv'
BY StageBeginActive DEF ResumeActive, ActiveInterrupted, Round, ResumeCandidates, Furthest,
   EligibleFulls, EligibleIncrementals

(* ... or a new one. *)
LEMMA StageDispatchActive ==
    ASSUME StageInv, Inv', NEW dir \in SUBSET Archives, DispatchActive(dir)
    PROVE  StageInv'
BY StageBeginActive DEF DispatchActive, DispatchRound, StagingRound, Round, Furthest,
   EligibleIncrementals

(* Active's import starts writing. *)
LEMMA StageActiveImport ==
    ASSUME StageInv, Inv', ActiveImport
    PROVE  StageInv'
<1>. USE DEF memory, disk
<1>1. (\A w \in Claims : StateOK(w))'
  BY SameStates DEF ActiveImport
<1>2. StageOK'
  BY StageUp, RecordsAssumption
  DEF ActiveImport, StageInv, StageOK, StateOK, Starting, Booting, NoBuild, NewBuild
<1>3. EmptyOK'
  <2>. DEFINE c == BeginTail(tables[serving], job, activeMints)
  <2>1. serving \in Groups /\ serving \in Groups /\ Bak # serving
    BY BakFacts DEF StageInv, Inv, TypeOK
  <2>2. tables[serving] \in Contents /\ tables[serving].base # "residue"
    BY <2>1 DEF StageInv, Inv, TypeOK, EmptyOK, NoResidue
  <2>3. c.base # "residue" /\ tables' = [tables EXCEPT ![serving] = c]
    BY <2>2, BaseEdits DEF ActiveImport
  <2>. HIDE DEF c
  <2>4. NoResidue' /\ \A h \in Groups : h # serving => tables'[h] = tables[h]
    BY <2>1, <2>3, WriteKeeps DEF StageInv
  <2>. QED
    BY <2>1, <2>4, StageUp DEF ActiveImport, StageInv, StageOK, StateOK, EmptyOK, Bak
<1>. QED
  BY <1>1, <1>2, <1>3 DEF StageInv

(* It is committed. *)
LEMMA StageActiveImported ==
    ASSUME StageInv, Inv', ActiveImported
    PROVE  StageInv'
<1>. USE DEF memory, disk
<1>1. (\A w \in Claims : StateOK(w))'
  BY SameStates DEF ActiveImported
<1>2. StageOK'
  BY StageUp, RecordsAssumption
  DEF ActiveImported, StageInv, StageOK, StateOK, Starting, Booting, NoBuild, NewBuild
<1>3. EmptyOK'
  <2>. DEFINE c == EndTail(tables[serving], job, activeSlot)
  <2>1. serving \in Groups /\ serving \in Groups /\ Bak # serving
    BY BakFacts DEF StageInv, Inv, TypeOK
  <2>2. tables[serving] \in Contents /\ tables[serving].base # "residue"
    BY <2>1 DEF StageInv, Inv, TypeOK, EmptyOK, NoResidue
  <2>3. c.base # "residue" /\ tables' = [tables EXCEPT ![serving] = c]
    BY <2>2, BaseEdits DEF ActiveImported
  <2>. HIDE DEF c
  <2>4. NoResidue' /\ \A h \in Groups : h # serving => tables'[h] = tables[h]
    BY <2>1, <2>3, WriteKeeps DEF StageInv
  <2>. QED
    BY <2>1, <2>4, StageUp DEF ActiveImported, StageInv, StageOK, StateOK, EmptyOK, Bak
<1>. QED
  BY <1>1, <1>2, <1>3 DEF StageInv

(* And checkpointed. *)
LEMMA StageActiveCommit ==
    ASSUME StageInv, Inv', ActiveCommit
    PROVE  StageInv'
<1>. USE DEF memory, disk
<1>1. (\A w \in Claims : StateOK(w))'
  <2>1. StateOK(ws')
    BY ActiveCommitFields, StageUp, RecordsAssumption
    DEF ActiveCommit, StateOK, StageInv, StageOK
  <2>. QED
    BY <2>1, ActiveCommitFields, CheckpointStates DEF StageInv
<1>2. StageOK'
  BY StageUp, RecordsAssumption, ActiveCommitFields
  DEF ActiveCommit, StageInv, StageOK, StateOK, Starting, Booting, NoBuild, NewBuild
<1>3. EmptyOK'
  BY EmptyKeeps DEF ActiveCommit, StageInv, NoBuild, NewBuild
<1>. QED
  BY <1>1, <1>2, <1>3 DEF StageInv

(* Nothing continues active. *)
LEMMA StageAbandonActive ==
    ASSUME StageInv, Inv', NEW dir \in SUBSET Archives, AbandonActive(dir)
    PROVE  StageInv'
<1>. USE DEF memory, disk
<1>1. (\A w \in Claims : StateOK(w))'
  <2>1. StateOK(ws')
    BY AbandonActiveFields, StageUp, RecordsAssumption
    DEF AbandonActive, ActiveInterrupted, Round, StateOK, StageInv, StageOK
  <2>. QED
    BY <2>1, AbandonActiveFields, CheckpointStates DEF StageInv
<1>2. StageOK'
  BY StageUp, RecordsAssumption, AbandonActiveFields
  DEF AbandonActive, ActiveInterrupted, Round, StageInv, StageOK, StateOK, Starting,
      Booting, NoBuild, NewBuild
<1>3. EmptyOK'
  BY EmptyKeeps DEF AbandonActive, ActiveInterrupted, Round, StageInv, NoBuild, NewBuild
<1>. QED
  BY <1>1, <1>2, <1>3 DEF StageInv

(* A build is started again. *)
LEMMA StageSpawnStagingFull ==
    ASSUME StageInv, Inv', NEW dir \in SUBSET Archives, SpawnStagingFull(dir)
    PROVE  StageInv'
<1>. USE DEF memory, disk
<1>1. (\A w \in Claims : StateOK(w))'
  BY SameStates DEF SpawnStagingFull, StagingRound, Round, CutoverDue
<1>2. StageOK'
  BY StageUp, RecordsAssumption
  DEF SpawnStagingFull, StagingRound, Round, CutoverDue, StageInv, StageOK, StateOK,
      Starting, Booting, NoBuild, NewBuild
<1>3. EmptyOK'
  BY EmptyKeeps
  DEF SpawnStagingFull, StagingRound, Round, CutoverDue, StageInv, NoBuild, NewBuild
<1>. QED
  BY <1>1, <1>2, <1>3 DEF StageInv

(* A merge wait is started again. *)
LEMMA StageSpawnMergeWait ==
    ASSUME StageInv, Inv', SpawnMergeWait
    PROVE  StageInv'
<1>. USE DEF memory, disk
<1>1. (\A w \in Claims : StateOK(w))'
  BY SameStates DEF SpawnMergeWait, StagingRound, Round
<1>2. StageOK'
  BY StageUp, RecordsAssumption
  DEF SpawnMergeWait, StagingRound, Round, StageInv, StageOK, StateOK, Starting, Booting,
      NoBuild, NewBuild
<1>3. EmptyOK'
  BY EmptyKeeps DEF SpawnMergeWait, StagingRound, Round, StageInv, NoBuild, NewBuild
<1>. QED
  BY <1>1, <1>2, <1>3 DEF StageInv

(* An incremental is started again. *)
LEMMA StageResumeStaging ==
    ASSUME StageInv, Inv', NEW dir \in SUBSET Archives, ResumeStaging(dir)
    PROVE  StageInv'
<1>. USE DEF memory, disk
<1>1. (\A w \in Claims : StateOK(w))'
  BY SameStates DEF ResumeStaging, StagingInterrupted, StagingRound, Round, SpawnIncremental
<1>2. StageOK'
  BY StageUp, RecordsAssumption
  DEF ResumeStaging, StagingInterrupted, StagingRound, Round, SpawnIncremental, StageInv,
      StageOK, StateOK, Starting, Booting, NoBuild, NewBuild
<1>3. EmptyOK'
  BY EmptyKeeps
  DEF ResumeStaging, StagingInterrupted, StagingRound, Round, SpawnIncremental, StageInv,
      NoBuild, NewBuild
<1>. QED
  BY <1>1, <1>2, <1>3 DEF StageInv

(* Nothing continues staging. *)
LEMMA StageAbandonStaging ==
    ASSUME StageInv, Inv', NEW dir \in SUBSET Archives, AbandonStaging(dir)
    PROVE  StageInv'
<1>. USE DEF memory, disk
<1>1. (\A w \in Claims : StateOK(w))'
  <2>1. StateOK(ws')
    BY AbandonStagingFields, StageUp, RecordsAssumption
    DEF AbandonStaging, StagingInterrupted, StagingRound, Round, StateOK, StageInv, StageOK
  <2>. QED
    BY <2>1, AbandonStagingFields, CheckpointStates DEF StageInv
<1>2. StageOK'
  BY StageUp, RecordsAssumption, AbandonStagingFields
  DEF AbandonStaging, StagingInterrupted, StagingRound, Round, StageInv, StageOK, StateOK,
      Starting, Booting, NoBuild, NewBuild
<1>3. EmptyOK'
  BY EmptyKeeps
  DEF AbandonStaging, StagingInterrupted, StagingRound, Round, StageInv, NoBuild, NewBuild
<1>. QED
  BY <1>1, <1>2, <1>3 DEF StageInv

(* A new generation is chosen. *)
LEMMA StageFreezeStagingMints ==
    ASSUME StageInv, Inv', NEW dir \in SUBSET Archives, FreezeStagingMints(dir)
    PROVE  StageInv'
<1>. USE DEF memory, disk
<1>1. (\A w \in Claims : StateOK(w))'
  BY SameStates DEF FreezeStagingMints, DispatchRound, StagingRound, Round, NewGenerations
<1>2. StageOK'
  BY StageUp, RecordsAssumption
  DEF FreezeStagingMints, DispatchRound, StagingRound, Round, NewGenerations, StageInv,
      StageOK, StateOK, Starting, Booting, NoBuild, NewBuild
<1>3. EmptyOK'
  BY EmptyKeeps
  DEF FreezeStagingMints, DispatchRound, StagingRound, Round, NewGenerations, StageInv,
      NoBuild, NewBuild
<1>. QED
  BY <1>1, <1>2, <1>3 DEF StageInv

(* And begins. *)
LEMMA StageBeginSharedLoad ==
    ASSUME StageInv, Inv', BeginSharedLoad
    PROVE  StageInv'
<1>. USE DEF memory, disk
<1>1. (\A w \in Claims : StateOK(w))'
  <2>1. StateOK(ws')
    BY BeginSharedLoadFields, StageUp, RecordsAssumption
    DEF BeginSharedLoad, StateOK, StageInv, StageOK
  <2>. QED
    BY <2>1, BeginSharedLoadFields, CheckpointStates DEF StageInv
<1>2. StageOK'
  BY StageUp, RecordsAssumption, BeginSharedLoadFields
  DEF BeginSharedLoad, StageInv, StageOK, StateOK, Starting, Booting, NoBuild, NewBuild
<1>3. EmptyOK'
  BY EmptyKeeps DEF BeginSharedLoad, StageInv, NoBuild, NewBuild
<1>. QED
  BY <1>1, <1>2, <1>3 DEF StageInv

(* Staging takes an incremental. *)
LEMMA StageDispatchStaging ==
    ASSUME StageInv, Inv', NEW dir \in SUBSET Archives, DispatchStaging(dir)
    PROVE  StageInv'
<1>. USE DEF memory, disk
<1>a. pc = "loop" /\ pc' = "dispatch" /\ ws.staging.phase = "ready" /\ ws.shared = None
  BY DEF DispatchStaging, DispatchRound, StagingRound, Round, StagingCandidates
<1>b. incr' # None
  <2>1. PICK a \in Archives : SpawnIncremental(a)
    BY DEF DispatchStaging, StagingCandidates, StagingEligible, Furthest, EligibleIncrementals
  <2>2. stagingMints \in MintSets /\ ws.staging.max \in Nat
    BY <1>a, <2>1, StageUp, LaneFields DEF SpawnIncremental, StageInv, Inv, TypeOK, Slots
  <2>3. incr' \in Imports
    BY <2>1, <2>2 DEF SpawnIncremental, Imports
  <2>. QED
    BY <2>3, RecordsAssumption
<1>1. (\A w \in Claims : StateOK(w))'
  <2>1. StateOK(ws) /\ ws.cutover = None
    BY <1>a, StageUp DEF StateOK
  <2>2. /\ ws'.active = ws.active /\ ws'.staging.phase = "incremental_loading"
        /\ ws'.cutover = None /\ ws'.shared = None
    BY <1>a, <2>1, DispatchStagingFields DEF StageInv
  <2>3. StateOK(ws')
    BY <1>a, <2>1, <2>2 DEF StateOK
  <2>. QED
    BY <2>3, DispatchStagingFields, CheckpointStates DEF StageInv
<1>2. StageOK'
  BY StageUp, RecordsAssumption, DispatchStagingFields, <1>a, <1>b
  DEF DispatchStaging, DispatchRound, StagingRound, Round, StageInv, StageOK, StateOK,
      Starting, Booting, NoBuild, NewBuild
<1>3. EmptyOK'
  BY EmptyKeeps
  DEF DispatchStaging, DispatchRound, StagingRound, Round, StageInv, NoBuild, NewBuild
<1>. QED
  BY <1>1, <1>2, <1>3 DEF StageInv

(* Active has no use for it. *)
LEMMA StageDispatchStagingOnly ==
    ASSUME StageInv, Inv', DispatchStagingOnly
    PROVE  StageInv'
<1>. USE DEF memory, disk
<1>1. (\A w \in Claims : StateOK(w))'
  BY SameStates DEF DispatchStagingOnly
<1>2. StageOK'
  BY StageUp, RecordsAssumption
  DEF DispatchStagingOnly, StageInv, StageOK, StateOK, Starting, Booting, NoBuild, NewBuild
<1>3. EmptyOK'
  BY EmptyKeeps DEF DispatchStagingOnly, StageInv, NoBuild, NewBuild
<1>. QED
  BY <1>1, <1>2, <1>3 DEF StageInv

-----------------------------------------------------------------------------
(* The invariant and what it shows. *)

(* StageInv holds of everything the watcher may find when it first starts. *)
LEMMA StageInit == Init => StageInv
<1>. SUFFICES ASSUME Init PROVE StageInv
  OBVIOUS
<1>1. Inv
  BY InitInv
<1>2. \A w \in Claims : StateOK(w)
  <2>1. CASE InitNoJournal
    BY <2>1 DEF Init, InitNoJournal, Claims
  <2>2. CASE InitBootstrapJournal
    <3>1. /\ journal.active.phase = "waiting_for_full" /\ journal.staging.phase = "disabled"
          /\ journal.cutover = None /\ journal.shared = None
      BY <2>2 DEF InitBootstrapJournal, RecoveredActiveOnly, WaitingForFull, Disabled
    <3>. QED
      BY <3>1 DEF Init, Claims, StateOK
  <2>3. CASE InitMigratedJournal
    <3>1. /\ journal.active.phase \in {"ready", "incremental_loading"}
          /\ journal.staging.phase \in {"disabled", "full_loading"}
          /\ journal.cutover = None /\ journal.shared = None
      BY <2>3, MigratedFields DEF InitMigratedJournal
    <3>. QED
      BY <3>1 DEF Init, Claims, StateOK
  <2>. QED
    BY <2>1, <2>2, <2>3 DEF Init
<1>3. StageOK
  BY DEF Init, StageOK, NoBuild, Booting
<1>4. NoResidue
  <2>1. \A m, t : t \in Filled(m) => t.base # "residue"
    BY DEF Filled, Historical, Truncated
  <2>2. \A s, m : Historical(s, m).base # "residue" /\ Truncated.base # "residue"
    BY DEF Historical, Truncated
  <2>3. CASE InitNoJournal \/ InitBootstrapJournal
    BY <2>1, <2>3 DEF InitNoJournal, InitBootstrapJournal, NoResidue
  <2>4. CASE InitMigratedJournal
    BY <2>2, <2>4 DEF InitMigratedJournal, NoResidue
  <2>. QED
    BY <2>3, <2>4 DEF Init
<1>5. EmptyOK
  BY <1>4 DEF Init, EmptyOK, NoBuild
<1>. QED
  BY <1>1, <1>2, <1>3, <1>5 DEF StageInv

(* StageInv only looks at the variables. *)
LEMMA StageStutter == StageInv /\ Inv' /\ UNCHANGED vars => StageInv'
BY DEF vars, StageInv, Claims, StateOK, StageOK, EmptyOK, NoResidue, Bak

(* StageInv is inductive: every step of the watcher, its threads and its *)
(* faults keeps it.                                                      *)
LEMMA StageStep == StageInv /\ [Next]_vars => StageInv'
<1>. SUFFICES ASSUME StageInv, [Next]_vars PROVE StageInv'
  OBVIOUS
<1>0. Inv'
  BY StepInv DEF StageInv
<1>1. CASE Crash \/ StateFileLost
  BY <1>0, <1>1, StageCrash, StageStateFileLost
<1>2. CASE Startup
  BY <1>0, <1>2, StageStartFromJournal, StageStartRecovered, StageStartBootstrap,
     StageStartupCleanup, StageLoadMints, StageFreezeActiveMints, StageAdoptActiveMints
  DEF Startup
<1>3. CASE Threads \/ BuildFails \/ StragglerInserts
  BY <1>0, <1>3, StageBuildReset, StageBuildImport, StageBuildImported, StageBuildStartMerges,
     StageBuildSettled, StageBuildFails, StageStragglerInserts, StageIncrImport, StageIncrImported DEF Threads
<1>4. CASE Watcher
  BY <1>0, <1>4, StageFreezeBuildMints, StageAckBuild, StageBuildDone, StageBuildFailed,
     StageIncrDone, StageBeginCutover, StageExchange, StageFinishCutover, StageSharedReset,
     StageSharedResetFails, StageFanoutFails, StageFanoutImported, StageSharedCommit,
     StageSharedCommitFails,
     StageActiveMergeWait, StageBootstrapReset, StageBootstrapImport, StageBootstrapImported,
     StageBootstrapCommit, StageActiveImport, StageActiveImported, StageActiveCommit,
     StageSpawnMergeWait, StageBeginSharedLoad, StageDispatchBoth, StageDispatchStagingOnly
  DEF Watcher
<1>5. CASE \E dir \in SUBSET Archives : Scan(dir)
  <2>1. PICK dir \in SUBSET Archives : Scan(dir)
    BY <1>5
  <2>. QED
    BY <1>0, <2>1, StageFanoutBegin, StageResumeBootstrap, StageFirstBootstrap,
       StageResumeActive, StageAbandonActive, StageSpawnStagingFull, StageResumeStaging,
       StageAbandonStaging, StageFreezeStagingMints, StageDispatchStaging, StageDispatchActive
    DEF Scan
<1>6. CASE UNCHANGED vars
  BY <1>0, <1>6, StageStutter
<1>. QED
  BY <1>1, <1>2, <1>3, <1>4, <1>5, <1>6 DEF Next

(* The invariant behind the theorems below: how the lanes of a state go       *)
(* together, and what every position of the three threads says about them.    *)
THEOREM StageInvHolds == Spec => []StageInv
BY StageInit, StageStep, PTL DEF Spec

(* However the loop, the staging threads, their failures, crashes and restarts *)
(* interleave, at most one of the imports and TRUNCATEs of _bak that the       *)
(* watcher has not given up is under way, and none between the cutover         *)
(* checkpoint and its promotion: no TRUNCATE destroys an import that a         *)
(* checkpoint will record.  (Stragglers of failed imports are no part of it.)  *)
THEOREM BakImportsExclude == Spec => []OneBakImport
<1>1. StageInv => OneBakImport
  <2>. SUFFICES ASSUME StageInv PROVE OneBakImport
    OBVIOUS
  <2>1. CASE pc = "down"
    <3>1. build.pc = "none" /\ incr = None /\ ws = None
      BY <2>1 DEF StageInv, StageOK, Starting, Inv, ControlOK
    <3>. QED
      BY <2>1, <3>1 DEF OneBakImport, BakWriters
  <2>2. CASE pc # "down"
    <3>1. ws # None /\ StateOK(ws)
      BY <2>2, StageUp
    <3>2. pc \in {"shared_ready", "fanout", "fanned"} =>
             ws.shared # None /\ ws.staging.phase = "full_loading"
      BY <3>1 DEF StageInv, StageOK, StateOK
    <3>3. build.pc \in {"start", "reset", "import", "err"} =>
             ws.staging.phase = "full_loading" /\ ws.shared = None
      BY DEF StageInv, StageOK
    <3>4. incr # None => ws.staging.phase = "incremental_loading"
      BY DEF StageInv, StageOK
    <3>5. pc = "exchanged" \/ ws.cutover # None => ws.staging.phase = "cutover_pending"
      BY <3>1 DEF StageInv, StageOK, StateOK
    <3>6. \A t, u \in BakWriters : t = u
      BY <3>2, <3>3, <3>4 DEF BakWriters
    <3>7. pc = "exchanged" \/ ws.cutover # None => BakWriters = {}
      BY <3>2, <3>3, <3>4, <3>5 DEF BakWriters
    <3>. QED
      BY <3>6, <3>7 DEF OneBakImport
  <2>. QED
    BY <2>1, <2>2
<1>. QED
  BY <1>1, StageInvHolds, PTL

(* The rows of stragglers: what a step has to leave alone. *)
LEMMA StrayKeeps ==
    ASSUME StrayOK, serving' = serving, stragglers \subseteq stragglers',
           stray' \subseteq stray \cup stragglers',
           build'.pc \in {"reset", "import"} => build.pc \in {"reset", "import"},
           pc' \in {"shared_ready", "fanout"} => pc \in {"shared_ready", "fanout"},
           pc' \in {"boot_reset", "boot_import"} => pc \in {"boot_reset", "boot_import"}
    PROVE  StrayOK'
BY DEF StrayOK, FullTargets, Bak

(* A TRUNCATE that is done: the import it precedes finds rows only of stragglers. *)
LEMMA StrayReset ==
    ASSUME StageInv, StageInv', StrayOK, BuildReset \/ SharedReset \/ BootstrapReset
    PROVE  StrayOK'
<1>. USE DEF memory
<1>0. /\ serving \in Groups /\ Bak \in Groups /\ Bak # serving /\ build \in Builds
      /\ build'.pc \in BuildSteps
  BY BakFacts DEF StageInv, Inv, TypeOK, Builds
<1>1. CASE BuildReset \/ SharedReset
  <2>1. stray' = stray \ {Bak} /\ serving' = serving /\ Bak' = Bak /\ stragglers' = stragglers
    BY <1>1 DEF BuildReset, SharedReset, ResetGroup, Bak
  <2>2. pc' \in {"boot_reset", "boot_import"} => pc \in {"boot_reset", "boot_import"}
    BY <1>1 DEF BuildReset, SharedReset
  <2>. QED
    BY <1>0, <2>1, <2>2 DEF StrayOK, FullTargets
<1>2. CASE BootstrapReset
  <2>1. /\ stray' = stray \ {serving} /\ serving' = serving /\ stragglers' = stragglers
        /\ pc' = "boot_reset" /\ build' = build
    BY <1>2 DEF BootstrapReset, ResetGroup
  <2>. QED
    BY <1>0, <2>1 DEF StrayOK, FullTargets, Bak
<1>. QED
  BY <1>1, <1>2

(* Every step leaves a full import with the rows of its own process alone. *)
LEMMA StrayStep ==
    ASSUME StageInv, StageInv', StrayOK, [Next]_vars
    PROVE  StrayOK'
<1>. USE DEF memory, late, disk
<1>0. /\ build \in Builds /\ stragglers \subseteq Groups /\ stray \subseteq Groups
  BY DEF StageInv, Inv, TypeOK
<1>1. CASE BuildReset \/ SharedReset \/ BootstrapReset
  BY <1>1, StrayReset
<1>2. CASE BuildImport \/ BuildImported \/ BuildStartMerges \/ BuildSettled
           \/ IncrImport \/ IncrImported
  <2>1. build'.pc \in {"reset", "import"} => build.pc \in {"reset", "import"}
    <3>1. BuildImported => build'.pc = "sent"
      BY <1>0 DEF BuildImported, Builds
    <3>2. BuildStartMerges => build'.pc = "settle"
      BY <1>0 DEF BuildStartMerges, Builds
    <3>3. BuildSettled => build'.pc = "ok"
      BY <1>0 DEF BuildSettled, Builds
    <3>4. BuildImport => build.pc = "reset"
      BY DEF BuildImport
    <3>5. IncrImport \/ IncrImported => build' = build
      BY DEF IncrImport, IncrImported
    <3>. QED
      BY <1>2, <3>1, <3>2, <3>3, <3>4, <3>5
  <2>2. UNCHANGED <<pc, serving, stragglers, stray>>
    BY <1>2 DEF BuildImport, BuildImported, BuildStartMerges, BuildSettled, IncrImport,
                IncrImported
  <2>. QED
    BY <2>1, <2>2, StrayKeeps
<1>3. CASE BuildFails
  <2>1. build'.pc = "err" /\ UNCHANGED <<pc, serving, stray>> /\ stragglers \subseteq stragglers'
    BY <1>0, <1>3 DEF BuildFails, Builds
  <2>. QED
    BY <2>1, StrayKeeps
<1>4. CASE StragglerInserts
  BY <1>4, StrayKeeps DEF StragglerInserts
<1>5. CASE BuildFailed \/ SharedResetFails \/ FanoutFails \/ SharedCommitFails
  <2>1. /\ stray' \subseteq stray /\ stragglers \subseteq stragglers' /\ serving' = serving
        /\ pc' = "loop" /\ (build' = build \/ build' = NoBuild)
    BY <1>0, <1>5 DEF BuildFailed, SharedResetFails, SharedDue, FanoutFails, SharedCommitFails,
                      ResetFailedStaging, TryReset
  <2>. QED
    BY <2>1, StrayKeeps DEF NoBuild
<1>6. CASE Crash
  BY <1>6 DEF Crash, StrayOK, FullTargets, NoBuild
<1>7. CASE Exchange
  <2>1. pc' = "exchanged" /\ ~(build'.pc \in {"reset", "import"})
    <3>1. /\ pc' = "exchanged" /\ build' = build /\ pc = "loop"
          /\ ws.staging.phase = "cutover_pending"
      BY <1>7 DEF Exchange, CutoverDue
    <3>. QED
      BY <3>1 DEF StageInv, StageOK
  <2>. QED
    BY <2>1 DEF StrayOK, FullTargets
<1>8. CASE StateFileLost \/ Startup
  BY <1>8, StrayKeeps
  DEF StateFileLost, Startup, StartFromJournal, StartRecovered, StartBootstrap, StartupCleanup,
      LoadMints, FreezeActiveMints, AdoptActiveMints
<1>9. CASE FreezeBuildMints \/ AckBuild \/ BuildDone \/ IncrDone \/ BeginCutover
           \/ FinishCutover \/ FanoutImported \/ SharedCommit \/ ActiveMergeWait
  <2>1. build'.pc \in {"reset", "import"} => build.pc \in {"reset", "import"}
    BY <1>0, <1>9
    DEF FreezeBuildMints, AckBuild, BuildDone, IncrDone, BeginCutover, FinishCutover,
        FanoutImported, SharedCommit, ActiveMergeWait, NoBuild, NewBuild, Builds
  <2>2. UNCHANGED <<serving, stragglers, stray>>
    BY <1>9
    DEF FreezeBuildMints, AckBuild, BuildDone, IncrDone, BeginCutover, FinishCutover,
        FanoutImported, SharedCommit, ActiveMergeWait
  <2>3. pc' \in {"handshake", "loop", "fanned"}
    BY <1>9
    DEF FreezeBuildMints, AckBuild, BuildDone, IncrDone, BeginCutover, FinishCutover,
        FanoutImported, SharedCommit, ActiveMergeWait, Round
  <2>. QED
    BY <2>1, <2>2, <2>3, StrayKeeps
<1>10. CASE BootstrapImport \/ BootstrapImported \/ BootstrapCommit \/ ActiveImport
            \/ ActiveImported \/ ActiveCommit \/ BeginSharedLoad \/ DispatchBoth
            \/ DispatchStagingOnly
  BY <1>10, StrayKeeps
  DEF BootstrapImport, BootstrapImported, BootstrapCommit, ActiveImport, ActiveImported,
      ActiveCommit, BeginSharedLoad, DispatchBoth, DispatchStagingOnly, BeginActive
<1>11. CASE SpawnMergeWait
  BY <1>11, StrayKeeps DEF SpawnMergeWait, NewBuild
<1>12. CASE \E dir \in SUBSET Archives : Scan(dir)
  <2>1. PICK dir \in SUBSET Archives : Scan(dir)
    BY <1>12
  <2>2. CASE SpawnStagingFull(dir)
    BY <2>2, StrayKeeps DEF SpawnStagingFull, NewBuild
  <2>3. CASE ~SpawnStagingFull(dir)
    BY <2>1, <2>3, StrayKeeps
    DEF Scan, FanoutBegin, ResumeBootstrap, FirstBootstrap, BootstrapFull, ResumeActive,
        BeginActive, AbandonActive, ResumeStaging, AbandonStaging, FreezeStagingMints,
        DispatchStaging, DispatchActive
  <2>. QED
    BY <2>2, <2>3
<1>13. CASE UNCHANGED vars
  BY <1>13, StrayKeeps DEF vars
<1>14. CASE Threads
  BY <1>1, <1>2, <1>14 DEF Threads
<1>15. CASE Watcher
  BY <1>1, <1>5, <1>7, <1>9, <1>10, <1>11, <1>15 DEF Watcher
<1>. QED
  BY <1>3, <1>4, <1>6, <1>8, <1>12, <1>13, <1>14, <1>15 DEF Next

(* A full import, of a bootstrap, a staging build or a shared load, finds no   *)
(* row of an earlier import in its tables, whatever attempt failed or was      *)
(* interrupted before it; beside its own there are rows only of unjoined       *)
(* workers of this very process, and none of workers a restart has ended.      *)
THEOREM FullImportsStartClean == Spec => []FullStartsClean
<1>1. Init => StrayOK
  BY DEF Init, StrayOK
<1>2. StageInv /\ StageInv' /\ StrayOK /\ [Next]_vars => StrayOK'
  BY StrayStep
<1>3. StageInv /\ StrayOK => FullStartsClean
  BY DEF StageInv, EmptyOK, FullStartsClean
<1>. QED
  BY <1>1, <1>2, <1>3, StageInvHolds, PTL DEF Spec

-----------------------------------------------------------------------------
(* Readers of the active names. *)

(* A tail import never takes anything away. *)
LEMMA TailGrows ==
    ASSUME NEW t \in Contents, NEW a \in Archives
    PROVE  /\ \A mints : BeginTail(t, a, mints).upto = t.upto
           /\ \A resume : EndTail(t, a, resume).upto >= t.upto
<1>1. t.upto \in Nat /\ a.slot \in Nat
  BY SlotTypes DEF Contents
<1>2. \A mints : BeginTail(t, a, mints).upto = t.upto
  BY DEF BeginTail, Contents
<1>3. \A resume : EndTail(t, a, resume).upto \in {t.upto, MaxOf(t.upto, a.slot)}
  BY DEF EndTail, Contents
<1>. QED
  BY <1>1, <1>2, <1>3 DEF MaxOf

(* A write to _bak does not touch the served group. *)
LEMMA BakWriteServes ==
    ASSUME Inv, NEW c, tables' = [tables EXCEPT ![Bak] = c]
    PROVE  tables'[serving] = tables[serving]
BY BakFacts DEF Inv, TypeOK

(* Only a bootstrap's steps lower what the served group holds. *)
LEMMA ServingStep ==
    ASSUME StageInv, [Next]_vars, serving' = serving, pc \notin Booting
    PROVE  tables'[serving].upto >= tables[serving].upto
<1>. USE DEF memory, disk
<1>0. tables[serving] \in Contents /\ tables[serving].upto \in Nat /\ Inv
  BY DEF StageInv, Inv, TypeOK, Contents
<1>1. CASE UNCHANGED tables
  BY <1>0, <1>1
<1>2. CASE BuildReset \/ BuildImport \/ BuildImported \/ IncrImport \/ IncrImported
  <2>1. \E c : tables' = [tables EXCEPT ![Bak] = c]
    <3>1. CASE BuildReset \/ BuildImported \/ IncrImport \/ IncrImported
      BY <3>1 DEF BuildReset, ResetGroup, BuildImported, IncrImport, IncrImported
    <3>2. CASE BuildImport
      BY <3>2 DEF BuildImport
    <3>. QED
      BY <1>2, <3>1, <3>2
  <2>2. PICK c : tables' = [tables EXCEPT ![Bak] = c]
    BY <2>1
  <2>3. tables'[serving] = tables[serving]
    BY <1>0, <2>2, BakFacts DEF Inv, TypeOK
  <2>. QED
    BY <1>0, <2>3
<1>3. CASE BuildFailed \/ SharedReset \/ SharedResetFails \/ FanoutFails \/ SharedCommitFails
  BY <1>0, <1>3, BakWriteServes
  DEF BuildFailed, SharedReset, ResetGroup, SharedResetFails, FanoutFails, SharedCommitFails,
      ResetFailedStaging, TryReset
<1>4. CASE ActiveImport \/ ActiveImported
  <2>1. job \in Archives
    BY <1>4 DEF ActiveImport, ActiveImported, StageInv, Inv, TypeOK, ControlOK
  <2>2. tables'[serving] \in {BeginTail(tables[serving], job, activeMints),
                              EndTail(tables[serving], job, activeSlot)}
    BY <1>4 DEF ActiveImport, ActiveImported, StageInv, Inv, TypeOK
  <2>. QED
    BY <1>0, <2>1, <2>2, TailGrows
<1>5. CASE FanoutImported
  <2>1. job \in Archives
    BY <1>5 DEF FanoutImported, StageInv, Inv, TypeOK, ControlOK
  <2>2. tables'[serving] = EndTail(tables[serving], job, ws.shared.resume)
    BY <1>5, BakFacts DEF FanoutImported, StageInv, Inv, TypeOK
  <2>. QED
    BY <1>0, <2>1, <2>2, TailGrows
<1>6. CASE \E dir \in SUBSET Archives : FanoutBegin(dir)
  <2>1. PICK dir \in SUBSET Archives : FanoutBegin(dir)
    BY <1>6
  <2>2. PICK a \in Archives :
           tables' = [tables EXCEPT ![Bak] = BeginFull(@, a.slot, stagingMints),
                                    ![serving] = BeginTail(@, a, activeMints)]
    BY <2>1 DEF FanoutBegin, Recorded
  <2>3. tables'[serving] = BeginTail(tables[serving], a, activeMints)
    BY <2>2, BakFacts DEF StageInv, Inv, TypeOK
  <2>. QED
    BY <1>0, <2>3, TailGrows
<1>7. CASE Crash
  BY <1>1, <1>7 DEF Crash, Booting
<1>8. CASE BootstrapReset \/ BootstrapImport \/ BootstrapImported
  BY <1>8 DEF BootstrapReset, BootstrapImport, BootstrapImported, Booting
<1>9. CASE StateFileLost \/ Startup \/ BuildStartMerges \/ BuildSettled \/ BuildFails
           \/ StragglerInserts
  BY <1>1, <1>9
  DEF StateFileLost, StragglerInserts, Startup, StartFromJournal, StartRecovered, StartBootstrap, StartupCleanup,
      LoadMints, FreezeActiveMints, AdoptActiveMints, BuildStartMerges, BuildSettled, BuildFails
<1>10. CASE FreezeBuildMints \/ AckBuild \/ BuildDone \/ IncrDone \/ BeginCutover \/ Exchange
            \/ FinishCutover \/ SharedCommit \/ ActiveMergeWait \/ BootstrapCommit
            \/ ActiveCommit \/ SpawnMergeWait \/ BeginSharedLoad \/ DispatchBoth
            \/ DispatchStagingOnly
  BY <1>1, <1>10
  DEF FreezeBuildMints, AckBuild, BuildDone, IncrDone, BeginCutover, Exchange, FinishCutover,
      SharedCommit, ActiveMergeWait, BootstrapCommit, ActiveCommit, SpawnMergeWait,
      BeginSharedLoad, DispatchBoth, BeginActive, DispatchStagingOnly
<1>11. CASE \E dir \in SUBSET Archives : Scan(dir) /\ ~FanoutBegin(dir)
  BY <1>1, <1>11
  DEF Scan, ResumeBootstrap, FirstBootstrap, BootstrapFull, ResumeActive, BeginActive,
      AbandonActive, SpawnStagingFull, ResumeStaging, AbandonStaging, FreezeStagingMints,
      DispatchStaging, DispatchActive
<1>12. CASE UNCHANGED vars
  BY <1>1, <1>12 DEF vars
<1>13. CASE Watcher
  BY <1>3, <1>4, <1>5, <1>8, <1>10, <1>13 DEF Watcher
<1>14. CASE Threads
  BY <1>2, <1>9, <1>14 DEF Threads
<1>. QED
  BY <1>6, <1>7, <1>9, <1>11, <1>12, <1>13, <1>14 DEF Next

(* Whatever is built, retried, resumed or crashes, the served tables never go *)
(* back; only the import of an explicit bootstrap, which the journal records  *)
(* before it truncates, empties them.                                         *)
THEOREM ReadersKeepTheirData == Spec => ServingNeverRegresses
<1>1. StageInv /\ [Next]_vars =>
        [serving' = serving /\ (journal # None => journal.active.phase # "full_loading")
           => tables'[serving].upto >= tables[serving].upto]_vars
  <2>. SUFFICES ASSUME StageInv, [Next]_vars, serving' = serving,
                       journal # None => journal.active.phase # "full_loading"
                PROVE  tables'[serving].upto >= tables[serving].upto
    OBVIOUS
  <2>1. pc \notin Booting
    <3>. SUFFICES ASSUME pc \in Booting PROVE FALSE
      OBVIOUS
    <3>1. journal = ws /\ ws.active.phase = "full_loading" /\ pc # "down"
      BY DEF StageInv, StageOK, Booting
    <3>. QED
      BY <3>1, StageUp
  <2>. QED
    BY <2>1, ServingStep
<1>. QED
  BY <1>1, StageInvHolds, PTL DEF Spec, ServingNeverRegresses

=============================================================================

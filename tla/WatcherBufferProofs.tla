------------------------ MODULE WatcherBufferProofs ------------------------
(***************************************************************************)
(* SnapshotWatcher implements DoubleBuffer, without operator faults        *)
(* (Faults = {}): whatever crashes, failed imports, retries, restarts and  *)
(* interrupted cutovers come between, each step of the watcher is one step *)
(* of the double buffer or none.  GenerationInv says what the tables hold; *)
(* AheadInv adds that a generation is promoted only after an incremental.  *)
(***************************************************************************)
EXTENDS WatcherGenerationProofs

-----------------------------------------------------------------------------
(* Steps by the checkpoint they make. *)

(* The watcher is up in them. *)
LEMMA UpSteps ==
    \/ AckBuild \/ BuildDone \/ IncrDone \/ BeginCutover \/ FinishCutover \/ SharedCommit
    \/ ActiveMergeWait \/ BootstrapCommit \/ ActiveCommit \/ BeginSharedLoad
    \/ AdoptActiveMints \/ StartupCleanup
    \/ \E dir \in SUBSET Archives : AbandonActive(dir) \/ AbandonStaging(dir) \/ DispatchStaging(dir)
    => pc # "down"
BY DEF AckBuild, BuildDone, IncrDone, BeginCutover, FinishCutover, SharedCommit,
   ActiveMergeWait, BootstrapCommit, ActiveCommit, BeginSharedLoad, AdoptActiveMints,
   StartupCleanup, AbandonActive, ActiveInterrupted, AbandonStaging, StagingInterrupted,
   DispatchStaging, DispatchRound, StagingRound, Round

(* An import of active is checkpointed, in any of the ways the loop comes to it. *)
ActiveBegins ==
    DispatchBoth \/ \E dir \in SUBSET Archives : ResumeActive(dir) \/ DispatchActive(dir)

(* What such a checkpoint changes of active, and that staging stays as it is. *)
LEMMA ActiveBeginsFields ==
    ASSUME GenerationInv, ActiveBegins
    PROVE  /\ pc # "down" /\ journal' = ws' /\ ws' \in States
           /\ ws.active.phase \in {"ready", "incremental_loading"}
           /\ ws'.active.phase = "incremental_loading"
           /\ ws'.staging = ws.staging /\ ws'.cutover = ws.cutover
           /\ incr' = incr /\ tables' = tables /\ serving' = serving
<1>1. /\ pc \in {"loop", "dispatch"} /\ ws.active.phase \in {"ready", "incremental_loading"}
      /\ incr' = incr
  BY DEF ActiveBegins, DispatchBoth, ResumeActive, ActiveInterrupted, DispatchActive,
     DispatchRound, StagingRound, Round
<1>2. PICK a \in Archives : BeginActive(a)
  <2>1. CASE DispatchBoth
    BY <2>1, GenUp DEF DispatchBoth, Inv, TypeOK, ControlOK
  <2>2. CASE \E dir \in SUBSET Archives : ResumeActive(dir) \/ DispatchActive(dir)
    BY <2>2 DEF ResumeActive, ResumeCandidates, DispatchActive, Furthest, EligibleFulls,
       EligibleIncrementals
  <2>. QED
    BY <2>1, <2>2 DEF ActiveBegins
<1>3. tables' = tables /\ serving' = serving
  BY <1>2 DEF BeginActive, disk
<1>. QED
  BY <1>1, <1>2, <1>3, GenUp, BeginActiveFields

(* So is the import of a bootstrap, which has no staging beside it. *)
BootstrapBegins == \E dir \in SUBSET Archives : ResumeBootstrap(dir) \/ FirstBootstrap(dir)

(* What the checkpoint before a bootstrap import changes. *)
LEMMA BootstrapBeginsFields ==
    ASSUME GenerationInv, BootstrapBegins
    PROVE  /\ pc # "down" /\ journal' = ws' /\ ws' \in States
           /\ ws.active.phase \in {"waiting_for_full", "full_loading"}
           /\ ws'.active.phase = "full_loading"
           /\ ws.staging.phase = "disabled" /\ ws'.staging.phase = "disabled"
           /\ ws'.cutover = None
           /\ incr' = incr /\ tables' = tables /\ serving' = serving
<1>1. pc = "loop" /\ ws.active.phase \in {"waiting_for_full", "full_loading"}
  BY DEF BootstrapBegins, ResumeBootstrap, FirstBootstrap, DispatchRound, StagingRound, Round
<1>2. PICK a \in Archives : a.kind = "full" /\ BootstrapFull(a)
  BY DEF BootstrapBegins, ResumeBootstrap, FirstBootstrap, Furthest, NewerFulls, Recorded
<1>3. incr' = incr /\ tables' = tables /\ serving' = serving
  BY <1>2 DEF BootstrapFull, disk
<1>. QED
  BY <1>1, <1>2, <1>3, GenUp, BootstrapFullFields DEF StateOK

-----------------------------------------------------------------------------
(* Staging is ahead of its full archive. *)

(* What is left to show of the lanes after a step: those of the journal. *)
LEMMA AheadFrom ==
    ASSUME GenerationInv', journal' # None => LaneAhead(journal.staging)',
           incr' # None => incr'.archive.slot > ws'.staging.max
    PROVE  AheadInv'
<1>1. ws' # None => ws' = journal'
  BY DEF GenerationInv, StageInv, Inv, ControlOK, JournalOK
<1>2. (\A w \in Claims : LaneAhead(w.staging))'
  BY <1>1 DEF Claims, LaneAhead
<1>. QED
  BY <1>2 DEF AheadInv

(* Steps that make no checkpoint and take up no archive for staging. *)
LEMMA AheadSame ==
    ASSUME GenerationInv, GenerationInv', AheadInv, journal' = journal,
           incr' # None => incr # None /\ incr'.archive = incr.archive
    PROVE  AheadInv'
<1>1. journal' # None => LaneAhead(journal.staging)'
  BY DEF AheadInv, LaneAhead, Claims
<1>2. incr' # None => ws' = journal' /\ ws = journal
  BY DEF GenerationInv, StageInv, StageOK, Starting, JournalOK
<1>. QED
  BY <1>1, <1>2, AheadFrom DEF AheadInv

(* Checkpoints that leave the watermark of a loaded staging lane alone. *)
LEMMA AheadCheckpoint ==
    ASSUME GenerationInv, GenerationInv', AheadInv, pc # "down", journal' = ws', incr' = incr,
           ws'.staging.phase \in Loaded =>
               /\ ws.staging.phase \in Loaded
               /\ ws'.staging.full = ws.staging.full /\ ws'.staging.max = ws.staging.max,
           ws'.staging.phase = "cutover_pending" => ws.staging.phase = "cutover_pending",
           incr # None => ws'.staging.max = ws.staging.max
    PROVE  AheadInv'
<1>1. ws # None /\ LaneAhead(ws.staging)
  BY GenUp DEF AheadInv, Claims
<1>2. LaneAhead(ws'.staging)
  BY <1>1 DEF LaneAhead, Loaded
<1>3. LaneAhead(journal.staging)'
  BY <1>2 DEF LaneAhead
<1>. QED
  BY <1>3, AheadFrom DEF AheadInv

(* The slots of a staging lane that is loaded. *)
LEMMA LaneSlots ==
    ASSUME GenerationInv, pc # "down", ws.staging.phase \in Loaded
    PROVE  ws.staging.max \in Nat /\ ws.staging.full \in FullSlots /\ ws.staging.full \in Nat
<1>1. ws.staging.max # None /\ ws.staging.full # None
  BY GenUp DEF LanesOK, LanesResumable, Loaded
<1>. QED
  BY <1>1, GenUp, LaneFields, SlotTypes DEF Slots

(* The full of staging is imported, by itself ... *)
LEMMA AheadAckBuild ==
    ASSUME GenerationInv, GenerationInv', AheadInv, AckBuild
    PROVE  AheadInv'
<1>1. /\ pc # "down" /\ build.pc = "sent"
  BY UpSteps DEF AckBuild, GenerationInv, StageInv, Inv, ControlOK
<1>2. /\ journal' = ws' /\ ws'.staging.phase = "full_merging" /\ ws'.staging.max = build.full
      /\ ws'.staging.full = ws.staging.full /\ build.full = ws.staging.full
      /\ build.full \in Nat
  BY <1>1, GenUp, AckBuildFields, SlotTypes DEF BuildWork
<1>3. incr' = None
  BY <1>1, GenUp DEF AckBuild, StageInv, StageOK
<1>4. LaneAhead(journal.staging)'
  BY <1>2 DEF LaneAhead
<1>. QED
  BY <1>3, <1>4, AheadFrom

(* ... or with the tail of active. *)
LEMMA AheadSharedCommit ==
    ASSUME GenerationInv, GenerationInv', AheadInv, SharedCommit
    PROVE  AheadInv'
<1>1. pc = "fanned" /\ pc # "down"
  BY DEF SharedCommit
<1>2. /\ ws.shared # None /\ job.slot = ws.shared.full /\ ws.staging.full = ws.shared.full
      /\ incr = None /\ job \in Archives
  BY <1>1, GenUp DEF StageInv, StageOK, StateOK, SharedWork, LanesOK, SharedResumable, Inv,
     TypeOK, ControlOK
<1>3. /\ journal' = ws' /\ ws'.staging.phase = "full_merging" /\ ws'.staging.max = job.slot
      /\ ws'.staging.full = ws.staging.full /\ job.slot \in Nat
  BY <1>1, <1>2, GenUp, SharedCommitFields, SlotTypes
<1>4. LaneAhead(journal.staging)'
  BY <1>2, <1>3 DEF LaneAhead
<1>. QED
  BY <1>2, <1>4, AheadFrom DEF SharedCommit

(* Its first incremental takes it beyond the full. *)
LEMMA AheadIncrDone ==
    ASSUME GenerationInv, GenerationInv', AheadInv, IncrDone
    PROVE  AheadInv'
<1>1. pc # "down" /\ incr # None /\ incr' = None
  BY DEF IncrDone
<1>2. ws.staging.phase = "incremental_loading" /\ ws.staging.phase \in Loaded
  BY <1>1, GenUp DEF StageInv, StageOK, Loaded
<1>3. /\ LaneAhead(ws.staging) /\ incr.archive.slot > ws.staging.max
      /\ incr.archive \in Archives
  BY <1>1, GenUp DEF AheadInv, Claims, Inv, TypeOK, Imports
<1>4. ws.staging.max >= ws.staging.full
  BY <1>2, <1>3 DEF LaneAhead
<1>5. incr.archive.slot > ws.staging.full
  BY <1>1, <1>2, <1>3, <1>4, LaneSlots, SlotTypes
<1>6. /\ journal' = ws' /\ ws'.staging.max = incr.archive.slot
      /\ ws'.staging.full = ws.staging.full
  BY <1>1, GenUp, IncrDoneFields
<1>7. LaneAhead(journal.staging)'
  BY <1>1, <1>2, <1>3, <1>5, <1>6, LaneSlots, SlotTypes DEF LaneAhead
<1>. QED
  BY <1>1, <1>7, AheadFrom

(* The incremental that staging takes ends beyond its watermark, after a restart ... *)
LEMMA AheadResumeStaging ==
    ASSUME GenerationInv, GenerationInv', AheadInv, NEW dir \in SUBSET Archives, ResumeStaging(dir)
    PROVE  AheadInv'
<1>1. /\ pc # "down" /\ ws' = ws /\ journal' = journal
  BY DEF ResumeStaging, StagingInterrupted, StagingRound, Round
<1>2. PICK a \in Archives : a.slot > ws.staging.max /\ SpawnIncremental(a)
  BY DEF ResumeStaging, StagingEligible, Furthest, EligibleIncrementals
<1>3. incr'.archive.slot > ws'.staging.max
  BY <1>1, <1>2 DEF SpawnIncremental
<1>4. journal' # None => LaneAhead(journal.staging)'
  BY <1>1 DEF AheadInv, LaneAhead, Claims
<1>. QED
  BY <1>3, <1>4, AheadFrom

(* ... or when it is dispatched. *)
LEMMA AheadDispatchStaging ==
    ASSUME GenerationInv, GenerationInv', AheadInv, NEW dir \in SUBSET Archives, DispatchStaging(dir)
    PROVE  AheadInv'
<1>1. pc # "down" /\ ws.staging.phase = "ready"
  BY DEF DispatchStaging, DispatchRound, StagingRound, Round, StagingCandidates
<1>2. /\ journal' = ws' /\ ws'.staging.phase = "incremental_loading"
      /\ ws'.staging.full = ws.staging.full /\ ws'.staging.max = ws.staging.max
  BY <1>1, GenUp, DispatchStagingFields
<1>3. PICK a \in Archives : a.slot > ws.staging.max /\ SpawnIncremental(a)
  BY DEF DispatchStaging, StagingCandidates, StagingEligible, Furthest, EligibleIncrementals
<1>4. incr'.archive.slot > ws'.staging.max
  BY <1>2, <1>3 DEF SpawnIncremental
<1>5. ws # None /\ LaneAhead(ws.staging)
  BY <1>1, GenUp DEF AheadInv, Claims
<1>6. LaneAhead(journal.staging)'
  BY <1>1, <1>2, <1>5 DEF LaneAhead, Loaded
<1>. QED
  BY <1>4, <1>6, AheadFrom

(* Every checkpoint of the watcher's loop keeps staging ahead, ... *)
LEMMA AheadCheckpoints ==
    ASSUME GenerationInv, GenerationInv', AheadInv,
           \/ BuildDone \/ BeginCutover \/ FinishCutover \/ ActiveMergeWait
           \/ BootstrapCommit \/ ActiveCommit \/ BeginSharedLoad \/ AdoptActiveMints
           \/ StartupCleanup \/ ActiveBegins \/ BootstrapBegins
           \/ \E dir \in SUBSET Archives : AbandonActive(dir) \/ AbandonStaging(dir)
    PROVE  AheadInv'
<1>0. pc # "down"
  BY UpSteps, ActiveBeginsFields, BootstrapBeginsFields
<1>1. incr # None => ws.staging.phase = "incremental_loading"
  BY GenUp DEF GenerationInv, StageInv, StageOK
<1>2. CASE \/ BeginCutover \/ ActiveMergeWait \/ BootstrapCommit \/ ActiveCommit
           \/ AdoptActiveMints \/ \E dir \in SUBSET Archives : AbandonActive(dir)
  <2>1. journal' = ws' /\ ws'.staging = ws.staging
    BY <1>0, <1>2, GenUp, BeginCutoverFields, ActiveMergeWaitFields, BootstrapCommitFields,
       ActiveCommitFields, AdoptFields, AbandonActiveFields
  <2>2. incr' = incr
    BY <1>2 DEF BeginCutover, ActiveMergeWait, BootstrapCommit, ActiveCommit,
       AdoptActiveMints, AbandonActive
  <2>. QED
    BY <1>0, <2>1, <2>2, AheadCheckpoint
<1>3. CASE ActiveBegins \/ BootstrapBegins
  <2>1. CASE ActiveBegins
    <3>1. journal' = ws' /\ incr' = incr /\ ws'.staging = ws.staging
      BY <2>1, ActiveBeginsFields
    <3>. QED
      BY <1>0, <3>1, AheadCheckpoint
  <2>2. CASE BootstrapBegins
    <3>1. /\ journal' = ws' /\ incr' = incr
          /\ ws.staging.phase = "disabled" /\ ws'.staging.phase = "disabled"
      BY <2>2, BootstrapBeginsFields
    <3>. QED
      BY <1>0, <1>1, <3>1, AheadCheckpoint DEF Loaded
  <2>. QED
    BY <1>3, <2>1, <2>2
<1>4. CASE BuildDone \/ StartupCleanup \/ \E dir \in SUBSET Archives : AbandonStaging(dir)
  <2>1. /\ journal' = ws' /\ ws'.staging.full = ws.staging.full
        /\ ws'.staging.max = ws.staging.max
        /\ \/ ws'.staging.phase = ws.staging.phase
           \/ ws'.staging.phase = "ready" /\ ws.staging.phase \in Loaded
    <3>1. CASE BuildDone
      <4>1. ws.staging.phase \in Loaded
        BY <3>1 DEF BuildDone, Loaded
      <4>. QED
        BY <1>0, <3>1, <4>1, GenUp, BuildDoneFields
    <3>2. CASE StartupCleanup
      BY <1>0, <3>2, GenUp, StartupCleanupFields
    <3>3. ASSUME NEW dir \in SUBSET Archives, AbandonStaging(dir)
          PROVE  /\ journal' = ws' /\ ws'.staging.full = ws.staging.full
                 /\ ws'.staging.max = ws.staging.max /\ ws'.staging.phase = "ready"
                 /\ ws.staging.phase \in Loaded
      <4>1. ws.staging.phase \in Loaded
        BY <3>3 DEF AbandonStaging, StagingInterrupted, Loaded
      <4>. QED
        BY <1>0, <3>3, <4>1, GenUp, AbandonStagingFields
    <3>. QED
      BY <1>4, <3>1, <3>2, <3>3
  <2>2. incr' = incr
    BY <1>4 DEF BuildDone, StartupCleanup, AbandonStaging
  <2>. QED
    BY <1>0, <2>1, <2>2, AheadCheckpoint
<1>5. CASE FinishCutover \/ BeginSharedLoad
  <2>1. journal' = ws' /\ ws'.staging.phase \notin Loaded
    BY <1>0, <1>5, GenUp, FinishCutoverFields, BeginSharedLoadFields DEF Loaded
  <2>2. incr' = incr /\ incr = None
    <3>1. ws.staging.phase # "incremental_loading"
      BY <1>0, <1>5, GenUp DEF FinishCutover, BeginSharedLoad, StageInv, StageOK, StateOK
    <3>. QED
      BY <1>1, <1>5, <3>1 DEF FinishCutover, BeginSharedLoad
  <2>. QED
    BY <1>0, <2>1, <2>2, AheadCheckpoint DEF Loaded
<1>. QED
  BY <1>2, <1>3, <1>4, <1>5 DEF BootstrapBegins

(* ... and so do all other steps. *)
LEMMA AheadStep ==
    ASSUME Faults = {}, GenerationInv, GenerationInv', AheadInv, [Next]_vars
    PROVE  AheadInv'
<1>1. CASE Crash \/ StateFileLost
  BY <1>1, AheadSame DEF Crash, StateFileLost
<1>2. CASE Startup
  <2>1. CASE StartRecovered
    <3>1. journal' = ws' /\ ws'.staging.phase = "disabled" /\ incr' = None
      BY <2>1, StartRecoveredFields DEF StartRecovered, GenerationInv, StageInv, StageOK, Starting
    <3>2. LaneAhead(journal.staging)'
      BY <3>1 DEF LaneAhead, Loaded
    <3>. QED
      BY <3>1, <3>2, AheadFrom
  <2>2. CASE StartFromJournal \/ LoadMints \/ FreezeActiveMints
    BY <2>2, AheadSame DEF StartFromJournal, LoadMints, FreezeActiveMints
  <2>. QED
    BY <1>2, <2>1, <2>2, AheadCheckpoints DEF Startup, StartBootstrap
<1>3. CASE Threads \/ BuildFails \/ StragglerInserts
  <2>1. CASE IncrImport \/ IncrImported
    <3>1. incr \in Imports /\ incr # None
      BY <2>1 DEF IncrImport, IncrImported, GenerationInv, StageInv, Inv, TypeOK
    <3>. QED
      BY <2>1, <3>1, AheadSame DEF IncrImport, IncrImported, Imports
  <2>2. CASE \/ BuildReset \/ BuildImport \/ BuildImported \/ BuildStartMerges
             \/ BuildSettled \/ BuildFails \/ StragglerInserts
    BY <2>2, AheadSame DEF BuildReset, BuildImport, BuildImported, BuildStartMerges,
       BuildSettled, BuildFails, StragglerInserts
  <2>. QED
    BY <1>3, <2>1, <2>2 DEF Threads
<1>4. CASE Watcher
  <2>1. CASE \/ FreezeBuildMints \/ BuildFailed \/ Exchange \/ SharedReset
             \/ SharedResetFails \/ FanoutFails \/ FanoutImported \/ BootstrapReset
             \/ BootstrapImport \/ BootstrapImported \/ ActiveImport \/ ActiveImported
             \/ SpawnMergeWait \/ DispatchStagingOnly
    BY <2>1, AheadSame DEF FreezeBuildMints, BuildFailed, Exchange, SharedReset,
       SharedResetFails, FanoutFails, FanoutImported, BootstrapReset, BootstrapImport,
       BootstrapImported, ActiveImport, ActiveImported, SpawnMergeWait, DispatchStagingOnly
  <2>2. CASE \/ AckBuild \/ IncrDone \/ SharedCommit \/ BuildDone \/ BeginCutover
             \/ FinishCutover \/ ActiveMergeWait \/ BootstrapCommit \/ ActiveCommit
             \/ BeginSharedLoad \/ DispatchBoth
    BY <2>2, AheadAckBuild, AheadIncrDone, AheadSharedCommit, AheadCheckpoints DEF ActiveBegins
  <2>. QED
    BY <1>4, <2>1, <2>2 DEF Watcher, SharedCommitFails
<1>5. CASE \E dir \in SUBSET Archives : Scan(dir)
  <2>1. PICK dir \in SUBSET Archives : Scan(dir)
    BY <1>5
  <2>2. CASE FanoutBegin(dir) \/ SpawnStagingFull(dir) \/ FreezeStagingMints(dir)
    BY <2>2, AheadSame DEF FanoutBegin, SpawnStagingFull, FreezeStagingMints
  <2>3. CASE \/ ResumeBootstrap(dir) \/ FirstBootstrap(dir) \/ ResumeActive(dir)
             \/ DispatchActive(dir) \/ AbandonActive(dir) \/ AbandonStaging(dir)
    BY <2>3, AheadCheckpoints DEF ActiveBegins, BootstrapBegins
  <2>4. CASE ResumeStaging(dir) \/ DispatchStaging(dir)
    BY <2>4, AheadResumeStaging, AheadDispatchStaging
  <2>. QED
    BY <2>1, <2>2, <2>3, <2>4 DEF Scan
<1>6. CASE UNCHANGED vars
  BY <1>6, AheadSame DEF vars
<1>. QED
  BY <1>1, <1>2, <1>3, <1>4, <1>5, <1>6 DEF Next

(* No staging lane comes up for a cutover before an incremental took it     *)
(* beyond its full archive, over restarts and choices made anew.            *)
THEOREM AheadHolds ==
    ASSUME Faults = {}
    PROVE  Spec => []AheadInv
<1>1. Init => AheadInv
  <2>. SUFFICES ASSUME Init PROVE AheadInv
    OBVIOUS
  <2>1. incr = None /\ ws = None
    BY DEF Init
  <2>2. ASSUME journal # None PROVE LaneAhead(journal.staging)
    <3>1. CASE InitBootstrapJournal
      <4>1. journal.staging = Disabled
        BY <3>1 DEF InitBootstrapJournal, RecoveredActiveOnly
      <4>. QED
        BY <4>1 DEF LaneAhead, Disabled, Loaded
    <3>2. CASE InitMigratedJournal
      <4>1. PICK s \in FullSlots, f \in FileIds : journal \in MigratedJournals(s, f)
        BY <3>2 DEF InitMigratedJournal
      <4>2. journal.staging.phase \in {"disabled", "full_loading"}
        BY <4>1, MigratedFields
      <4>. QED
        BY <4>2 DEF LaneAhead, Loaded
    <3>. QED
      BY <2>2, <3>1, <3>2 DEF Init, InitNoJournal
  <2>. QED
    BY <2>1, <2>2 DEF AheadInv, Claims
<1>2. GenerationInv /\ GenerationInv' /\ AheadInv /\ [Next]_vars => AheadInv'
  BY AheadStep
<1>. QED
  BY <1>1, <1>2, GenerationInvHolds, PTL DEF Spec

-----------------------------------------------------------------------------
(* What the double buffer sees of a state. *)

Opened == journal # None /\ journal.active.phase \notin {"waiting_for_full", "full_loading"}
InPreparation ==
    journal # None /\ journal.staging.phase \in Loaded /\ StagingGroup(journal) # serving

(* Active is what readers have, _bak what is prepared; both are tables. *)
BufferRead ==
    /\ Served = IF Opened THEN ContentsOf(serving) ELSE None
    /\ Prepared = IF InPreparation THEN ContentsOf(Bak) ELSE None
    /\ InPreparation => Opened
    /\ ContentsOf(serving) \in Buffer!Tables /\ ContentsOf(serving) # None
    /\ ContentsOf(Bak) \in Buffer!Tables /\ ContentsOf(Bak) # None

(* The invariant says what the two sides of the buffer are. *)
LEMMA BufferReads == GenerationInv => BufferRead
<1>. SUFFICES ASSUME GenerationInv PROVE BufferRead
  OBVIOUS
<1>1. /\ serving \in Groups /\ Bak \in Groups /\ \A g \in Groups : g = serving \/ g = Bak
      /\ tables \in [Groups -> Contents] /\ journal \in States \cup {None}
  BY BakFacts DEF GenerationInv, StageInv, Inv, TypeOK
<1>2. \A g \in Groups : ContentsOf(g) \in Buffer!Tables /\ ContentsOf(g) # None
  <2>1. \A g \in Groups : ContentsOf(g) \in Buffer!Tables
    BY <1>1 DEF ContentsOf, Contents, Buffer!Tables
  <2>. QED
    BY <2>1, BufferAssumption
<1>3. Served = IF Opened THEN ContentsOf(serving) ELSE None
  BY DEF Served, Opened
<1>4. journal # None => StagingGroup(journal) \in Groups
  BY <1>1, StateFields DEF StagingGroup, Cutovers
<1>5. Prepared = IF InPreparation THEN ContentsOf(Bak) ELSE None
  BY <1>1, <1>4 DEF Prepared, InPreparation
<1>6. InPreparation => Opened
  BY DEF InPreparation, Opened, GenerationInv, StageInv, StateOK, Claims, Loaded
<1>. QED
  BY <1>1, <1>2, <1>3, <1>5, <1>6 DEF BufferRead

(* The same after a step. *)
LEMMA BufferReadsNext == GenerationInv' => BufferRead'
BY BufferReads, PTL

-----------------------------------------------------------------------------
(* The steps, by what they do to the tables and the journal. *)

GroupGains(g) == tables'[g].gen = tables[g].gen /\ tables'[g].upto >= tables[g].upto

(* Rows come into one group, or go from one that nobody has or waits for. *)
LEMMA WriteMaps ==
    ASSUME GenerationInv, GenerationInv', journal' = journal, serving' = serving,
           \/ ~Opened
           \/ /\ GroupGains(serving)
              /\ tables'[Bak] = tables[Bak] \/ ~InPreparation
           \/ tables'[serving] = tables[serving] /\ GroupGains(Bak)
    PROVE  [Buffer!Next]_(Buffer!vars)
<1>1. Bak' = Bak /\ Opened' = Opened /\ InPreparation' = InPreparation
  BY DEF Bak, Opened, InPreparation, StagingGroup
<1>2. BufferRead /\ BufferRead'
  BY BufferReads, BufferReadsNext
<1>g. /\ serving \in Groups /\ Bak \in Groups
      /\ tables[serving].upto \in Nat /\ tables[Bak].upto \in Nat
      /\ tables'[serving].upto \in Nat /\ tables'[Bak].upto \in Nat
  <2>1. Inv /\ Inv'
    BY DEF GenerationInv, StageInv
  <2>. QED
    BY <2>1, <1>1, BakFacts DEF Inv, TypeOK, Contents
<1>c. /\ ContentsOf(serving) = [gen |-> tables[serving].gen, upto |-> tables[serving].upto]
      /\ ContentsOf(Bak) = [gen |-> tables[Bak].gen, upto |-> tables[Bak].upto]
      /\ ContentsOf(serving)' = [gen |-> tables'[serving].gen, upto |-> tables'[serving].upto]
      /\ ContentsOf(Bak)' = [gen |-> tables'[Bak].gen, upto |-> tables'[Bak].upto]
  BY <1>1 DEF ContentsOf
<1>3. CASE ~Opened
  BY <1>1, <1>2, <1>3 DEF BufferRead, Buffer!vars
<1>4. CASE /\ Opened /\ GroupGains(serving)
           /\ tables'[Bak] = tables[Bak] \/ ~InPreparation
  <2>1. Prepared' = Prepared
    BY <1>1, <1>2, <1>4, <1>c DEF BufferRead
  <2>2. /\ Served = ContentsOf(serving) /\ Served # None
        /\ Served' = ContentsOf(serving)' /\ Served' \in Buffer!Tables
    BY <1>1, <1>2, <1>4 DEF BufferRead
  <2>3. CASE tables'[serving].upto = tables[serving].upto
    BY <1>4, <1>c, <2>1, <2>2, <2>3 DEF GroupGains, Buffer!vars
  <2>4. CASE tables'[serving].upto > tables[serving].upto
    <3>1. Buffer!Gains(Served, Served')
      BY <1>4, <1>c, <2>2, <2>4 DEF GroupGains, Buffer!Gains
    <3>. QED
      BY <2>1, <2>2, <3>1 DEF Buffer!Advance, Buffer!Next
  <2>. QED
    BY <1>4, <1>g, <2>3, <2>4 DEF GroupGains
<1>5. CASE tables'[serving] = tables[serving] /\ GroupGains(Bak)
  <2>1. Served' = Served
    BY <1>1, <1>2, <1>5, <1>c DEF BufferRead
  <2>2. CASE ~InPreparation
    BY <1>1, <1>2, <2>1, <2>2 DEF BufferRead, Buffer!vars
  <2>3. CASE InPreparation
    <3>1. /\ Prepared = ContentsOf(Bak) /\ Prepared # None
          /\ Prepared' = ContentsOf(Bak)' /\ Prepared' \in Buffer!Tables
      BY <1>1, <1>2, <2>3 DEF BufferRead
    <3>2. CASE tables'[Bak].upto = tables[Bak].upto
      BY <1>5, <1>c, <2>1, <3>1, <3>2 DEF GroupGains, Buffer!vars
    <3>3. CASE tables'[Bak].upto > tables[Bak].upto
      <4>1. Buffer!Gains(Prepared, Prepared')
        BY <1>5, <1>c, <3>1, <3>3 DEF GroupGains, Buffer!Gains
      <4>. QED
        BY <2>1, <3>1, <4>1 DEF Buffer!Extend, Buffer!Next
    <3>. QED
      BY <1>5, <1>g, <3>2, <3>3 DEF GroupGains
  <2>. QED
    BY <2>2, <2>3
<1>. QED
  BY <1>3, <1>4, <1>5

(* A checkpoint that neither opens, prepares nor promotes. *)
LEMMA CheckpointMaps ==
    ASSUME GenerationInv, GenerationInv', tables' = tables, serving' = serving,
           Opened' <=> Opened, InPreparation' <=> InPreparation
    PROVE  [Buffer!Next]_(Buffer!vars)
<1>1. ContentsOf(serving)' = ContentsOf(serving) /\ ContentsOf(Bak)' = ContentsOf(Bak)
  BY DEF ContentsOf, Bak
<1>2. BufferRead /\ BufferRead'
  BY BufferReads, BufferReadsNext
<1>. QED
  BY <1>1, <1>2 DEF BufferRead, Buffer!vars

(* Active comes into service. *)
LEMMA OpenMaps ==
    ASSUME GenerationInv, GenerationInv', ~Opened, Opened', ~InPreparation'
    PROVE  Buffer!Next
<1>1. BufferRead /\ BufferRead'
  BY BufferReads, BufferReadsNext
<1>2. Served = None /\ Prepared = None /\ Prepared' = None /\ Served' \in Buffer!Tables
  BY <1>1 DEF BufferRead
<1>. QED
  BY <1>2 DEF Buffer!Open, Buffer!Next

(* The full archive of staging is committed. *)
LEMMA PrepareMaps ==
    ASSUME GenerationInv, GenerationInv', tables' = tables, serving' = serving,
           Opened, Opened', ~InPreparation, InPreparation', NEW full \in FullSlots,
           tables[Bak].gen = full, tables[Bak].upto = full,
           tables[serving].gen = None \/ full > tables[serving].gen
    PROVE  Buffer!Next
<1>1. BufferRead /\ BufferRead'
  BY BufferReads, BufferReadsNext
<1>2. ContentsOf(serving)' = ContentsOf(serving) /\ ContentsOf(Bak)' = ContentsOf(Bak)
  BY DEF ContentsOf, Bak
<1>3. /\ Served' = Served /\ Served # None /\ Prepared = None
      /\ Prepared' = [gen |-> full, upto |-> full] /\ Served.gen = tables[serving].gen
  BY <1>1, <1>2 DEF BufferRead, ContentsOf
<1>4. Buffer!Newer(full, Served.gen)
  BY <1>3 DEF Buffer!Newer
<1>. QED
  BY <1>3, <1>4 DEF Buffer!Prepare, Buffer!Next

-----------------------------------------------------------------------------
(* The steps that write tables. *)

(* _bak is truncated and filled while staging is loading its full. *)
LEMMA BakFills ==
    ASSUME GenerationInv, GenerationInv',
           \/ BuildReset \/ BuildImport \/ BuildImported \/ BuildFailed
           \/ SharedReset \/ SharedResetFails \/ FanoutFails
    PROVE  [Buffer!Next]_(Buffer!vars)
<1>. USE DEF disk
<1>0. pc # "down" /\ journal' = journal /\ serving' = serving
  <2>1. CASE BuildReset \/ BuildImport \/ BuildImported
    BY <2>1 DEF BuildReset, BuildImport, BuildImported, GenerationInv, StageInv, StageOK,
       Starting
  <2>2. CASE BuildFailed \/ SharedReset \/ SharedResetFails \/ FanoutFails
    BY <2>2 DEF BuildFailed, SharedReset, SharedResetFails, SharedDue, FanoutFails
  <2>. QED
    BY <2>1, <2>2
<1>1. ws.staging.phase = "full_loading"
  <2>1. CASE BuildReset \/ BuildImport \/ BuildImported \/ BuildFailed
    BY <1>0, <2>1, GenUp DEF BuildReset, BuildImport, BuildImported, BuildFailed, StageInv,
       StageOK
  <2>2. CASE SharedReset \/ SharedResetFails \/ FanoutFails
    BY <1>0, <2>2, GenUp DEF SharedReset, SharedResetFails, SharedDue, FanoutFails, StageInv,
       StageOK, StateOK
  <2>. QED
    BY <2>1, <2>2
<1>2. ~InPreparation
  BY <1>0, <1>1, GenUp DEF InPreparation, Loaded
<1>3. tables'[serving] = tables[serving]
  <2>0. Inv /\ Bak \in Groups /\ serving \in Groups /\ Bak # serving
    BY <1>0, GenUp, GroupTypes
  <2>1. CASE BuildReset \/ SharedReset
    BY <2>0, <2>1, ResetGroupEffect DEF BuildReset, SharedReset
  <2>2. CASE BuildImport
    <3>1. PICK mints : tables' = [tables EXCEPT ![Bak] = BeginFull(tables[Bak], build.full, mints)]
      BY <2>2 DEF BuildImport
    <3>. QED
      BY <2>0, <3>1, BakWrite
  <2>3. CASE BuildImported
    <3>1. tables' = [tables EXCEPT ![Bak] = EndFull(tables[Bak], build.full)]
      BY <2>3 DEF BuildImported
    <3>. QED
      BY <2>0, <3>1, BakWrite
  <2>4. CASE BuildFailed \/ SharedResetFails \/ FanoutFails
    <3>1. TryReset(Bak)
      BY <2>4 DEF BuildFailed, SharedResetFails, FanoutFails, ResetFailedStaging
    <3>. QED
      BY <2>0, <3>1, TryResetGroup
  <2>. QED
    BY <2>1, <2>2, <2>3, <2>4
<1>4. GroupGains(serving)
  BY <1>0, <1>3, GenUp, GroupTypes DEF GroupGains
<1>. QED
  BY <1>0, <1>2, <1>4, WriteMaps

(* The shared import fills _bak and takes active further. *)
LEMMA FanoutMaps ==
    ASSUME GenerationInv, GenerationInv',
           FanoutImported \/ \E dir \in SUBSET Archives : FanoutBegin(dir)
    PROVE  [Buffer!Next]_(Buffer!vars)
<1>0. /\ pc \in {"fanout", "shared_ready"} /\ journal' = journal /\ serving' = serving
      /\ pc # "down"
  BY DEF FanoutImported, FanoutBegin
<1>1. ws.staging.phase = "full_loading"
  BY <1>0, GenUp DEF StageInv, StageOK, StateOK
<1>2. ~InPreparation
  BY <1>0, <1>1, GenUp DEF InPreparation, Loaded
<1>i. Inv /\ tables[serving] \in Contents /\ tables[serving].upto \in Nat
  BY <1>0, GenUp, GroupTypes
<1>3. CASE FanoutImported
  <2>1. /\ tables' = [tables EXCEPT ![Bak] = EndFull(tables[Bak], job.slot),
                                    ![serving] = EndTail(tables[serving], job, ws.shared.resume)]
        /\ job \in Archives
    BY <1>3, <1>i DEF FanoutImported, Inv, TypeOK, ControlOK
  <2>2. tables'[serving] = EndTail(tables[serving], job, ws.shared.resume)
    BY <1>i, <2>1, BothWrite
  <2>3. GroupGains(serving)
    BY <1>i, <2>1, <2>2, EndTailEdit DEF GroupGains
  <2>. QED
    BY <1>0, <1>2, <2>3, WriteMaps
<1>4. CASE \E dir \in SUBSET Archives : FanoutBegin(dir)
  <2>1. PICK a : tables' = [tables EXCEPT ![Bak] = BeginFull(tables[Bak], a.slot, stagingMints),
                                          ![serving] = BeginTail(tables[serving], a, activeMints)]
    BY <1>4 DEF FanoutBegin
  <2>2. tables'[serving] = BeginTail(tables[serving], a, activeMints)
    BY <1>i, <2>1, BothWrite
  <2>3. GroupGains(serving)
    BY <1>i, <2>2, BeginTailEdit DEF GroupGains
  <2>. QED
    BY <1>0, <1>2, <2>3, WriteMaps
<1>. QED
  BY <1>3, <1>4

(* Incrementals come into the tables of staging ... *)
LEMMA IncrMaps ==
    ASSUME GenerationInv, GenerationInv', IncrImport \/ IncrImported
    PROVE  [Buffer!Next]_(Buffer!vars)
<1>0. journal' = journal /\ serving' = serving
  BY DEF IncrImport, IncrImported
<1>1. /\ Inv /\ tables[Bak] \in Contents /\ tables[Bak].upto \in Nat
      /\ incr.archive \in Archives
  BY GroupTypes DEF IncrImport, IncrImported, GenerationInv, StageInv, Inv, TypeOK, Imports
<1>2. CASE IncrImport
  <2>1. tables' = [tables EXCEPT ![Bak] = BeginTail(tables[Bak], incr.archive, incr.mints)]
    BY <1>2 DEF IncrImport
  <2>2. /\ tables'[Bak] = BeginTail(tables[Bak], incr.archive, incr.mints)
        /\ tables'[serving] = tables[serving]
    BY <1>1, <2>1, BakWrite
  <2>3. GroupGains(Bak)
    BY <1>1, <2>2, BeginTailEdit DEF GroupGains
  <2>. QED
    BY <1>0, <2>2, <2>3, WriteMaps
<1>3. CASE IncrImported
  <2>1. tables' = [tables EXCEPT ![Bak] = EndTail(tables[Bak], incr.archive, incr.resume)]
    BY <1>3 DEF IncrImported
  <2>2. /\ tables'[Bak] = EndTail(tables[Bak], incr.archive, incr.resume)
        /\ tables'[serving] = tables[serving]
    BY <1>1, <2>1, BakWrite
  <2>3. GroupGains(Bak)
    BY <1>1, <2>2, EndTailEdit DEF GroupGains
  <2>. QED
    BY <1>0, <2>2, <2>3, WriteMaps
<1>. QED
  BY <1>2, <1>3

(* ... and of active. *)
LEMMA ActiveMaps ==
    ASSUME GenerationInv, GenerationInv', ActiveImport \/ ActiveImported
    PROVE  [Buffer!Next]_(Buffer!vars)
<1>0. /\ journal' = journal /\ serving' = serving /\ pc \in {"active_start", "active_import"}
  BY DEF ActiveImport, ActiveImported
<1>1. /\ Inv /\ tables[serving] \in Contents /\ tables[serving].upto \in Nat
      /\ job \in Archives
  BY <1>0, GroupTypes DEF GenerationInv, StageInv, Inv, TypeOK, ControlOK
<1>2. CASE ActiveImport
  <2>1. tables' = [tables EXCEPT ![serving] = BeginTail(tables[serving], job, activeMints)]
    BY <1>2 DEF ActiveImport
  <2>2. /\ tables'[serving] = BeginTail(tables[serving], job, activeMints)
        /\ tables'[Bak] = tables[Bak]
    BY <1>1, <2>1, ServingWrite
  <2>3. GroupGains(serving)
    BY <1>1, <2>2, BeginTailEdit DEF GroupGains
  <2>. QED
    BY <1>0, <2>2, <2>3, WriteMaps
<1>3. CASE ActiveImported
  <2>1. tables' = [tables EXCEPT ![serving] = EndTail(tables[serving], job, activeSlot)]
    BY <1>3 DEF ActiveImported
  <2>2. /\ tables'[serving] = EndTail(tables[serving], job, activeSlot)
        /\ tables'[Bak] = tables[Bak]
    BY <1>1, <2>1, ServingWrite
  <2>3. GroupGains(serving)
    BY <1>1, <2>2, EndTailEdit DEF GroupGains
  <2>. QED
    BY <1>0, <2>2, <2>3, WriteMaps
<1>. QED
  BY <1>2, <1>3

(* A bootstrap writes into tables that are not in service yet. *)
LEMMA BootstrapMaps ==
    ASSUME GenerationInv, GenerationInv',
           \/ BootstrapReset \/ BootstrapImport \/ BootstrapImported
           \/ Crash /\ pc = "boot_start"
    PROVE  [Buffer!Next]_(Buffer!vars)
<1>0. /\ journal' = journal /\ serving' = serving /\ pc \in Booting
  BY DEF BootstrapReset, BootstrapImport, BootstrapImported, Crash, Booting
<1>1. ~Opened
  BY <1>0 DEF GenerationInv, StageInv, StageOK, Opened
<1>. QED
  BY <1>0, <1>1, WriteMaps

-----------------------------------------------------------------------------
(* The checkpoints and the exchange. *)

(* The journal of a running watcher, before and after a checkpoint. *)
LEMMA CheckpointReads ==
    ASSUME GenerationInv, pc # "down", journal' = ws', ws' \in States
    PROVE  /\ Opened <=> ws.active.phase \notin {"waiting_for_full", "full_loading"}
           /\ InPreparation <=> ws.staging.phase \in Loaded /\ StagingGroup(ws) # serving
           /\ Opened' <=> ws'.active.phase \notin {"waiting_for_full", "full_loading"}
           /\ InPreparation' <=> ws'.staging.phase \in Loaded /\ StagingGroup(ws)' # serving'
<1>1. journal' # None
  BY RecordsAssumption
<1>2. ws = journal /\ journal # None
  BY GenUp
<1>. QED
  BY <1>1, <1>2 DEF Opened, InPreparation, StagingGroup

(* Lanes move on within their part of the buffer. *)
LEMMA LaneMoves ==
    ASSUME GenerationInv, GenerationInv', pc # "down", journal' = ws', ws' \in States,
           tables' = tables, serving' = serving, ws'.cutover = ws.cutover,
           ws.active.phase \in {"waiting_for_full", "full_loading"}
              <=> ws'.active.phase \in {"waiting_for_full", "full_loading"},
           ws.staging.phase \in Loaded <=> ws'.staging.phase \in Loaded
    PROVE  [Buffer!Next]_(Buffer!vars)
<1>1. StagingGroup(ws)' = StagingGroup(ws)
  BY DEF StagingGroup, Bak
<1>. QED
  BY <1>1, CheckpointReads, CheckpointMaps

(* The checkpoints that move a lane on change nothing that readers see. *)
LEMMA LaneCheckpoints ==
    ASSUME GenerationInv, GenerationInv',
           \/ BuildDone \/ IncrDone \/ ActiveMergeWait \/ ActiveCommit \/ AdoptActiveMints
           \/ StartupCleanup \/ BeginSharedLoad \/ ActiveBegins \/ BootstrapBegins
           \/ \E dir \in SUBSET Archives :
                 AbandonActive(dir) \/ AbandonStaging(dir) \/ DispatchStaging(dir)
    PROVE  [Buffer!Next]_(Buffer!vars)
<1>. USE DEF disk
<1>0. pc # "down"
  BY UpSteps, ActiveBeginsFields, BootstrapBeginsFields
<1>i. Inv /\ StateOK(ws) /\ StageOK
  BY <1>0, GenUp DEF StageInv
<1>1. CASE ActiveBegins
  <2>1. /\ journal' = ws' /\ ws' \in States /\ ws.active.phase \in {"ready", "incremental_loading"}
        /\ ws'.active.phase = "incremental_loading" /\ ws'.staging = ws.staging
        /\ ws'.cutover = ws.cutover /\ tables' = tables /\ serving' = serving
    BY <1>1, ActiveBeginsFields
  <2>. QED
    BY <1>0, <2>1, LaneMoves
<1>2. CASE BootstrapBegins
  <2>1. /\ journal' = ws' /\ ws' \in States
        /\ ws.active.phase \in {"waiting_for_full", "full_loading"}
        /\ ws'.active.phase = "full_loading" /\ ws.staging.phase = "disabled"
        /\ ws'.staging.phase = "disabled" /\ tables' = tables /\ serving' = serving
        /\ ws'.cutover = None
    BY <1>2, BootstrapBeginsFields
  <2>2. ws.cutover = None
    BY <1>i, <2>1 DEF StateOK
  <2>. QED
    BY <1>0, <2>1, <2>2, LaneMoves DEF Loaded
<1>3. CASE ActiveMergeWait \/ ActiveCommit \/ \E dir \in SUBSET Archives : AbandonActive(dir)
  <2>1. /\ journal' = ws' /\ ws' \in States /\ ws'.active.phase = "ready"
        /\ ws'.staging = ws.staging /\ ws'.cutover = ws.cutover
    BY <1>i, <1>3, ActiveMergeWaitFields, ActiveCommitFields, AbandonActiveFields
  <2>2. ws.active.phase \notin {"waiting_for_full", "full_loading"}
    BY <1>3, <1>i DEF ActiveMergeWait, ActiveCommit, AbandonActive, ActiveInterrupted, StageOK
  <2>3. tables' = tables /\ serving' = serving
    BY <1>3 DEF ActiveMergeWait, ActiveCommit, AbandonActive
  <2>. QED
    BY <1>0, <2>1, <2>2, <2>3, LaneMoves
<1>4. CASE BuildDone \/ IncrDone \/ \E dir \in SUBSET Archives :
                                       AbandonStaging(dir) \/ DispatchStaging(dir)
  <2>1. ws.staging.phase \in Loaded
    BY <1>4, <1>i DEF BuildDone, IncrDone, AbandonStaging, StagingInterrupted, DispatchStaging,
       StagingCandidates, StageOK, Loaded
  <2>2. /\ journal' = ws' /\ ws' \in States /\ ws'.staging.phase \in Loaded
        /\ ws'.active = ws.active \/ ws'.active.phase = "cutover_pending"
        /\ ws'.cutover = ws.cutover
    BY <1>4, <1>i, BuildDoneFields, IncrDoneFields, AbandonStagingFields, DispatchStagingFields
    DEF Loaded
  <2>3. ws.active.phase \notin {"waiting_for_full", "full_loading"}
    BY <1>i, <2>1 DEF StateOK, Loaded
  <2>4. tables' = tables /\ serving' = serving
    BY <1>4 DEF BuildDone, IncrDone, AbandonStaging, DispatchStaging
  <2>. QED
    BY <1>0, <2>1, <2>2, <2>3, <2>4, LaneMoves
<1>5. CASE AdoptActiveMints \/ StartupCleanup
  <2>1. /\ journal' = ws' /\ ws' \in States /\ ws'.staging.phase = ws.staging.phase
        /\ ws'.active.phase = ws.active.phase /\ ws'.cutover = ws.cutover
    BY <1>5, <1>i, AdoptFields, StartupCleanupFields
  <2>2. tables' = tables /\ serving' = serving
    BY <1>5 DEF AdoptActiveMints, StartupCleanup
  <2>. QED
    BY <1>0, <2>1, <2>2, LaneMoves
<1>6. CASE BeginSharedLoad
  <2>1. /\ journal' = ws' /\ ws' \in States /\ ws'.active.phase = "incremental_loading"
        /\ ws'.staging.phase = "full_loading" /\ ws'.cutover = None
    BY <1>6, <1>i, BeginSharedLoadFields
  <2>2. ws.active.phase = "ready" /\ ws.staging.phase = "disabled" /\ ws.cutover = None
    BY <1>6, <1>i DEF BeginSharedLoad, StageOK, StateOK
  <2>3. tables' = tables /\ serving' = serving
    BY <1>6 DEF BeginSharedLoad
  <2>. QED
    BY <1>0, <2>1, <2>2, <2>3, LaneMoves DEF Loaded
<1>. QED
  BY <1>1, <1>2, <1>3, <1>4, <1>5, <1>6

(* The tables of an earlier program, or of a bootstrap, come into service. *)
LEMMA OpeningCheckpoints ==
    ASSUME GenerationInv, GenerationInv', StartRecovered \/ BootstrapCommit
    PROVE  [Buffer!Next]_(Buffer!vars)
<1>1. CASE StartRecovered
  <2>1. Inv
    BY DEF GenerationInv, StageInv
  <2>2. ~Opened
    BY <1>1 DEF StartRecovered, Opened
  <2>3. journal' = ws' /\ ws' \in States /\ ws'.active.phase = "ready" /\ ws'.staging.phase = "disabled"
    BY <1>1, <2>1, StartRecoveredFields
  <2>4. Opened' /\ ~InPreparation'
    BY <2>3, RecordsAssumption DEF Opened, InPreparation, Loaded
  <2>. QED
    BY <2>2, <2>4, OpenMaps
<1>2. CASE BootstrapCommit
  <2>0. pc = "boot_frozen" /\ pc # "down"
    BY <1>2 DEF BootstrapCommit
  <2>1. ws.active.phase = "full_loading" /\ ws.staging.phase = "disabled"
    BY <2>0, GenUp DEF StageInv, StageOK, StateOK, Booting
  <2>2. /\ journal' = ws' /\ ws' \in States /\ ws'.active.phase = "full_merging"
        /\ ws'.staging = ws.staging
    BY <1>2, <2>0, GenUp, BootstrapCommitFields
  <2>. QED
    BY <2>0, <2>1, <2>2, CheckpointReads, OpenMaps DEF Loaded
<1>. QED
  BY <1>1, <1>2

(* Staging is whole. *)
LEMMA PreparingCheckpoints ==
    ASSUME GenerationInv, GenerationInv', AckBuild \/ SharedCommit
    PROVE  [Buffer!Next]_(Buffer!vars)
<1>. USE DEF disk
<1>0. pc \in {"handshake", "fanned"} /\ pc # "down" /\ tables' = tables /\ serving' = serving
  BY DEF AckBuild, SharedCommit
<1>i. /\ Inv /\ StateOK(ws) /\ StageOK /\ LanesOK(ws) /\ BuildWork /\ SharedWork
      /\ ActiveTables(ws.active, ActiveGroup(ws))
  BY <1>0, GenUp DEF StageInv
<1>1. ws.staging.phase = "full_loading"
  BY <1>0, <1>i DEF AckBuild, SharedCommit, StageOK, StateOK, Inv, ControlOK
<1>2. ws.cutover = None /\ ws.active.phase \notin {"waiting_for_full", "full_loading"}
  BY <1>i, <1>1 DEF StateOK
<1>3. PICK full \in FullSlots :
         full = ws.staging.full /\ tables[Bak].gen = full /\ tables[Bak].upto = full
  <2>1. CASE AckBuild
    <3>1. build.pc = "sent" /\ build.full \in FullSlots
      BY <2>1, <1>i, AckBuildFields DEF AckBuild, Inv, ControlOK
    <3>. QED
      BY <1>i, <3>1 DEF BuildWork, FullThere
  <2>2. CASE SharedCommit
    <3>1. pc = "fanned" /\ ws.shared # None /\ job \in Archives /\ job.kind = "full"
      BY <2>2, <1>i DEF SharedCommit, StageOK, Inv, TypeOK, ControlOK
    <3>. QED
      BY <1>i, <3>1, SlotTypes DEF SharedWork, FullThere, LanesOK, SharedResumable
  <2>. QED
    BY <2>1, <2>2
<1>4. tables[serving].gen = None \/ full > tables[serving].gen
  BY <1>i, <1>1, <1>2, <1>3 DEF LanesOK, ActiveTables, ActiveGroup
<1>5. /\ journal' = ws' /\ ws' \in States /\ ws'.staging.phase = "full_merging"
      /\ ws'.cutover = None
      /\ ws'.active.phase \notin {"waiting_for_full", "full_loading"}
  BY <1>i, <1>2, AckBuildFields, SharedCommitFields
<1>6. StagingGroup(ws)' # serving'
  BY <1>0, <1>5, <1>i, GroupTypes DEF StagingGroup, Bak
<1>7. Opened /\ ~InPreparation /\ Opened' /\ InPreparation'
  BY <1>0, <1>1, <1>2, <1>5, <1>6, CheckpointReads DEF Loaded
<1>. QED
  BY <1>0, <1>3, <1>4, <1>7, PrepareMaps

(* The cutover is recorded: staging goes on meaning the same group. *)
LEMMA BeginCutoverMaps ==
    ASSUME GenerationInv, GenerationInv', BeginCutover
    PROVE  [Buffer!Next]_(Buffer!vars)
<1>. USE DEF disk
<1>1. /\ pc # "down" /\ tables' = tables /\ serving' = serving /\ ws.cutover = None
  BY DEF BeginCutover
<1>2. /\ journal' = ws' /\ ws' \in States /\ ws'.active = ws.active /\ ws'.staging = ws.staging
      /\ ws'.cutover \in Cutovers /\ ws'.cutover.staging = Bak
  BY <1>1, GenUp, BeginCutoverFields
<1>3. StagingGroup(ws) = Bak /\ StagingGroup(ws)' = Bak
  BY <1>1, <1>2, RecordsAssumption DEF StagingGroup
<1>. QED
  BY <1>1, <1>2, <1>3, CheckpointReads, CheckpointMaps

(* The lanes change places after the groups have: readers see nothing of it. *)
LEMMA FinishCutoverMaps ==
    ASSUME GenerationInv, GenerationInv', FinishCutover
    PROVE  [Buffer!Next]_(Buffer!vars)
<1>1. /\ pc = "exchanged" /\ pc # "down" /\ tables' = tables /\ serving' = serving
  BY DEF FinishCutover
<1>2. /\ ws.cutover # None /\ serving = ws.cutover.staging
      /\ ws.active.phase \notin {"waiting_for_full", "full_loading"}
  BY <1>1, GenUp DEF StageInv, StageOK, StateOK, ActiveMemory, Starting
<1>3. /\ journal' = ws' /\ ws' \in States /\ ws'.active.phase = "ready"
      /\ ws'.staging.phase = "disabled"
  BY <1>1, GenUp, FinishCutoverFields
<1>4. StagingGroup(ws) = serving
  BY <1>2 DEF StagingGroup
<1>. QED
  BY <1>1, <1>2, <1>3, <1>4, CheckpointReads, CheckpointMaps DEF Loaded

(* The exchange puts the prepared generation in service; repeated after a   *)
(* restart, it changes nothing.                                             *)
LEMMA ExchangeMaps ==
    ASSUME GenerationInv, GenerationInv', AheadInv, Exchange
    PROVE  [Buffer!Next]_(Buffer!vars)
<1>1. /\ pc # "down" /\ ws.cutover # None /\ ws.active.phase = "cutover_pending"
      /\ ws.staging.phase = "cutover_pending"
      /\ ws' = ws /\ journal' = journal /\ tables' = tables
      /\ serving' = IF serving = ws.cutover.active THEN ws.cutover.staging ELSE serving
      /\ serving \in {ws.cutover.active, ws.cutover.staging}
  BY DEF Exchange, Exchanged, CutoverDue
<1>2. /\ ws \in States /\ ws = journal /\ ws # None /\ LanesOK(ws)
      /\ StagingTables(ws.staging, StagingGroup(ws)) /\ serving \in Groups
      /\ StagingGroup(ws) = ws.cutover.staging
  BY <1>1, GenUp, GroupTypes DEF StagingGroup
<1>3. CASE serving # ws.cutover.active
  <2>1. serving' = serving
    BY <1>1, <1>3
  <2>. QED
    BY <1>1, <2>1, GenUp, GroupTypes, WriteMaps DEF GroupGains
<1>4. CASE serving = ws.cutover.active
  <2>1. /\ serving' = ws.cutover.staging /\ ws.cutover.staging = Bak /\ serving' # serving
    BY <1>1, <1>2, <1>4, BakFacts DEF LanesOK
  <2>2. Opened /\ InPreparation /\ Opened' /\ ~InPreparation'
    BY <1>1, <1>2, <2>1 DEF Opened, InPreparation, StagingGroup, Loaded
  <2>3. BufferRead /\ BufferRead'
    BY BufferReads, BufferReadsNext
  <2>4. /\ Prepared = ContentsOf(Bak) /\ Prepared # None /\ Prepared' = None
        /\ Served' = ContentsOf(serving)'
    BY <2>2, <2>3 DEF BufferRead
  <2>5. ContentsOf(serving)' = ContentsOf(Bak)
    BY <1>1, <2>1 DEF ContentsOf
  <2>6. tables[Bak].gen = ws.staging.full /\ ws.staging.max <= tables[Bak].upto
    BY <1>1, <1>2, <2>1, LaneSlots, NoneAssumption DEF StagingTables, Loaded, SlotOrZero
  <2>7. ws.staging.max > ws.staging.full
    BY <1>1, <1>2 DEF AheadInv, Claims, LaneAhead
  <2>8. tables[Bak].upto > tables[Bak].gen
    <3>1. tables[Bak].upto \in Nat /\ ws.staging.max \in Nat /\ ws.staging.full \in Nat
      BY <1>1, GenUp, GroupTypes, LaneSlots DEF Loaded
    <3>. QED
      BY <2>6, <2>7, <3>1
  <2>9. Prepared.upto > Prepared.gen
    BY <2>4, <2>8 DEF ContentsOf
  <2>. QED
    BY <2>4, <2>5, <2>9 DEF Buffer!Switch, Buffer!Next
<1>. QED
  BY <1>3, <1>4

(* Steps that write neither tables nor the journal. *)
LEMMA QuietMaps ==
    ASSUME GenerationInv, GenerationInv', journal' = journal, serving' = serving, tables' = tables
    PROVE  [Buffer!Next]_(Buffer!vars)
<1>1. GroupGains(serving)
  BY GroupTypes DEF GenerationInv, StageInv, GroupGains
<1>. QED
  BY <1>1, WriteMaps

(* Every step of the watcher is one of the double buffer, or none. *)
LEMMA BufferStep ==
    ASSUME Faults = {}, GenerationInv, GenerationInv', AheadInv, [Next]_vars
    PROVE  [Buffer!Next]_(Buffer!vars)
<1>. USE DEF disk
<1>1. CASE Crash \/ StateFileLost
  <2>1. CASE Crash /\ pc # "boot_start"
    BY <2>1, QuietMaps DEF Crash
  <2>. QED
    BY <1>1, <2>1, BootstrapMaps DEF StateFileLost
<1>2. CASE Startup
  <2>1. CASE StartFromJournal \/ LoadMints \/ FreezeActiveMints
    BY <2>1, QuietMaps DEF StartFromJournal, LoadMints, FreezeActiveMints
  <2>2. CASE StartRecovered \/ StartupCleanup \/ AdoptActiveMints
    BY <2>2, OpeningCheckpoints, LaneCheckpoints
  <2>. QED
    BY <1>2, <2>1, <2>2 DEF Startup, StartBootstrap
<1>3. CASE Threads \/ BuildFails \/ StragglerInserts
  <2>1. CASE BuildStartMerges \/ BuildSettled \/ BuildFails \/ StragglerInserts
    BY <2>1, QuietMaps DEF BuildStartMerges, BuildSettled, BuildFails, StragglerInserts
  <2>2. CASE BuildReset \/ BuildImport \/ BuildImported \/ IncrImport \/ IncrImported
    BY <2>2, BakFills, IncrMaps
  <2>. QED
    BY <1>3, <2>1, <2>2 DEF Threads
<1>4. CASE Watcher
  <2>1. CASE FreezeBuildMints \/ SpawnMergeWait \/ DispatchStagingOnly
    BY <2>1, QuietMaps DEF FreezeBuildMints, SpawnMergeWait, DispatchStagingOnly
  <2>2. CASE \/ BuildFailed \/ SharedReset \/ SharedResetFails \/ FanoutFails
             \/ FanoutImported \/ BootstrapReset \/ BootstrapImport \/ BootstrapImported
             \/ ActiveImport \/ ActiveImported
    BY <2>2, BakFills, FanoutMaps, BootstrapMaps, ActiveMaps
  <2>3. CASE \/ BuildDone \/ IncrDone \/ ActiveMergeWait \/ ActiveCommit
             \/ BeginSharedLoad \/ DispatchBoth
    BY <2>3, LaneCheckpoints DEF ActiveBegins
  <2>4. CASE \/ AckBuild \/ SharedCommit \/ BootstrapCommit \/ BeginCutover \/ Exchange
             \/ FinishCutover
    BY <2>4, PreparingCheckpoints, OpeningCheckpoints, BeginCutoverMaps, ExchangeMaps,
       FinishCutoverMaps
  <2>. QED
    BY <1>4, <2>1, <2>2, <2>3, <2>4 DEF Watcher, SharedCommitFails
<1>5. CASE \E dir \in SUBSET Archives : Scan(dir)
  <2>1. PICK dir \in SUBSET Archives : Scan(dir)
    BY <1>5
  <2>2. CASE SpawnStagingFull(dir) \/ ResumeStaging(dir) \/ FreezeStagingMints(dir)
    BY <2>2, QuietMaps DEF SpawnStagingFull, ResumeStaging, FreezeStagingMints
  <2>3. CASE FanoutBegin(dir)
    BY <2>3, FanoutMaps
  <2>4. CASE \/ ResumeBootstrap(dir) \/ FirstBootstrap(dir) \/ ResumeActive(dir)
             \/ DispatchActive(dir) \/ AbandonActive(dir) \/ AbandonStaging(dir)
             \/ DispatchStaging(dir)
    BY <2>4, LaneCheckpoints DEF ActiveBegins, BootstrapBegins
  <2>. QED
    BY <2>1, <2>2, <2>3, <2>4 DEF Scan
<1>6. CASE UNCHANGED vars
  BY <1>6, QuietMaps DEF vars
<1>. QED
  BY <1>1, <1>2, <1>3, <1>4, <1>5, <1>6 DEF Next

(* What the watcher finds at its first start is a buffer with one side.     *)
LEMMA BufferInit == Init => Buffer!Init
<1>. SUFFICES ASSUME Init PROVE Buffer!Init
  OBVIOUS
<1>1. GenerationInv /\ BufferRead
  BY GenInit, BufferReads
<1>2. ~InPreparation
  <2>1. CASE InitNoJournal
    BY <2>1 DEF InitNoJournal, InPreparation
  <2>2. CASE InitBootstrapJournal
    <3>1. journal.staging = Disabled
      BY <2>2 DEF InitBootstrapJournal, RecoveredActiveOnly
    <3>. QED
      BY <3>1 DEF InPreparation, Disabled, Loaded
  <2>3. CASE InitMigratedJournal
    <3>1. PICK s \in FullSlots, f \in FileIds : journal \in MigratedJournals(s, f)
      BY <2>3 DEF InitMigratedJournal
    <3>2. journal.staging.phase \in {"disabled", "full_loading"}
      BY <3>1, MigratedFields
    <3>. QED
      BY <3>2 DEF InPreparation, Loaded
  <2>. QED
    BY <2>1, <2>2, <2>3 DEF Init
<1>. QED
  BY <1>1, <1>2 DEF BufferRead, Buffer!Init

(* The watcher implements the double buffer: its readers see one generation *)
(* that only gains changes and gives way, in one step, to a whole newer one *)
(* that has had an incremental of its own.                                  *)
THEOREM ImplementsDoubleBuffer ==
    ASSUME Faults = {}
    PROVE  Spec => DoubleBufferKept
<1>1. GenerationInv /\ GenerationInv' /\ AheadInv /\ [Next]_vars
        => [Buffer!Next]_(Buffer!vars)
  BY BufferStep
<1>. QED
  BY <1>1, BufferInit, GenerationInvHolds, AheadHolds, PTL DEF Spec, DoubleBufferKept, Buffer!Spec

=============================================================================

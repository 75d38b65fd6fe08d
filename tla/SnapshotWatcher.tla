-------------------------- MODULE SnapshotWatcher --------------------------
(***************************************************************************)
(* The snapshot watcher of solana-snapshot-etl: run_incremental_snapshots  *)
(* in src/src/bin/solana-snapshot-etl/main.rs.                             *)
(*                                                                         *)
(* The watcher serves one ClickHouse table group (active) and builds the   *)
(* next generation in the other (_bak, the staging lane), from full and    *)
(* incremental archives that appear in a directory.  Its memory is a       *)
(* WatcherState, `ws', checkpointed as a JSON journal that is replaced     *)
(* atomically; frozen hot-mint sets are separate files the journal names.  *)
(* A crash, or an exit through `?', loses everything but the journal, the  *)
(* files and the tables.                                                   *)
(*                                                                         *)
(* One action is one stretch of the loop between two effects another       *)
(* process or a crash can tell apart: a checkpoint, a TRUNCATE, rows of an *)
(* import starting to flow, an import committed, an EXCHANGE.              *)
(***************************************************************************)
EXTENDS GroupContents

CONSTANTS FileIds,   \* names of frozen hot-mint files; bounds the files on disk
          Rewind,    \* --resume-slot-rewind
          Faults     \* subset of FaultKinds that a run allows beside crashes

FaultKinds == {"bootstrap",      \* the operator restarts with --bootstrap
               "state_lost",     \* the state file is deleted while the watcher is down
               "persist_error"}  \* writing the journal fails after a shared full import

ASSUME WatcherAssumption ==
    /\ Rewind \in Nat
    /\ Faults \subseteq FaultKinds
    /\ None \notin MintSets /\ None \notin FileIds

VARIABLES
    pc,            \* where the watcher thread is
    ws,            \* watcher_state, in memory (None while the process is down)
    journal,       \* the durable state file (None when there is none)
    activeSlot,    \* local active_slot
    activeMints,   \* output.hot_mints, the frozen set of the active generation
    stagingMints,  \* local staging_hot_mints
    fresh,         \* hot-mint file written but not yet named by the journal
    job,           \* the archive the watcher thread itself is importing
    build,         \* the staging-full or merge-wait thread
    incr,          \* the staging-incremental thread (None when there is none)
    files,         \* hot-mint files on disk, FileIds -> the set inside or None
    serving,       \* the table group named active; the other one is _bak
    tables,        \* what each group holds
    merges,        \* the groups whose background merges run
    stragglers,    \* the groups that workers of failed full imports may still write
    stray          \* the groups that hold rows such workers wrote since the last TRUNCATE

vars == <<pc, ws, journal, activeSlot, activeMints, stagingMints, fresh, job,
          build, incr, files, serving, tables, merges, stragglers, stray>>
memory == <<activeSlot, activeMints, stagingMints>>
late == <<stragglers, stray>>
disk == <<files, tables, merges, serving, stragglers, stray>>

Groups == {"g1", "g2"}
Other(g) == IF g = "g1" THEN "g2" ELSE "g1"

\* Mutant of Bak: the group the shadow names meant before any exchange.
BakAtFirst == "g2"

Bak == Other(serving)

Phases == {"disabled", "waiting_for_full", "full_loading", "full_merging",
           "ready", "incremental_loading", "cutover_pending"}

Slots == Nat \cup {None}
Lanes == [phase : Phases, full : FullSlots \cup {None}, max : Slots,
          path : FileIds \cup {None}, inflight : {"full", "incremental", None}]
Cutovers == [active : Groups, staging : Groups]
SharedLoads == [full : FullSlots, resume : Nat]
States == [active : Lanes, staging : Lanes, cutover : Cutovers \cup {None},
           shared : SharedLoads \cup {None}]
BuildSteps == {"none", "start", "reset", "import", "sent", "acked", "settle", "ok", "err"}
Builds == [pc : BuildSteps, full : FullSlots \cup {None}, mints : MintSets \cup {None}]
NoBuild == [pc |-> "none", full |-> None, mints |-> None]
Imports == [pc : {"start", "import", "ok"}, archive : Archives, resume : Nat,
            mints : MintSets]

(* Option::None is none of the values an Option holds. *)
ASSUME RecordsAssumption ==
    /\ None \notin {"full", "incremental"}
    /\ None \notin States \cup Imports \cup Cutovers \cup SharedLoads

-----------------------------------------------------------------------------
(* WatcherState: its constructors and the edits each handler makes to it.  *)

Disabled == [phase |-> "disabled", full |-> None, max |-> None, path |-> None,
             inflight |-> None]

WaitingForFull == [Disabled EXCEPT !.phase = "waiting_for_full"]
FullLoading(full) == [Disabled EXCEPT !.phase = "full_loading", !.full = full]

RecoveredActiveOnly(max) ==
    [active |-> [Disabled EXCEPT !.phase = "ready", !.max = max],
     staging |-> Disabled, cutover |-> None, shared |-> None]

(* A lane moves to a phase, with the given kind of work in flight; ... *)
LaneAt(lane, phase, kind) == [lane EXCEPT !.phase = phase, !.inflight = kind]
LaneReady(lane) == LaneAt(lane, "ready", None)
LaneLoading(lane, kind) == LaneAt(lane, "incremental_loading", kind)
(* ... or with nothing in flight, once the archive up to slot is imported. *)
LaneImported(lane, phase, slot) ==
    [lane EXCEPT !.phase = phase, !.max = slot, !.inflight = None]
Settled(lane) == [lane EXCEPT !.phase = "ready"]
WithPath(lane, path) == [lane EXCEPT !.path = path]

(* clear_disabled_hot_mints_paths *)
ClearPath(lane) == IF lane.phase = "disabled" THEN WithPath(lane, None) ELSE lane
ClearDisabledPaths(w) ==
    [w EXCEPT !.active = ClearPath(@), !.staging = ClearPath(@)]

\* Mutant of Referenced: the staging lane's file is taken for unused.
ReferencedByActive(w) == {w.active.path}

(* The files cleanup_unused_frozen_hot_mints keeps. *)
Referenced(w) ==
    {lane.path : lane \in {l \in {w.active, w.staging} : l.phase # "disabled"}}

\* Mutant of BeginShared: the bridge of active is not remembered.
BeginSharedNoBridge(w, full, path) ==
    [active |-> w.active,
     staging |-> WithPath(FullLoading(full), path),
     cutover |-> None,
     shared |-> [full |-> full, resume |-> w.active.max]]

BeginShared(w, full, path) ==
    [active |-> LaneLoading(w.active, "full"),
     staging |-> WithPath(FullLoading(full), path),
     cutover |-> None,
     shared |-> [full |-> full, resume |-> w.active.max]]

CommitShared(w, full) ==
    [w EXCEPT !.active = LaneImported(@, "ready", full),
              !.staging = LaneImported(@, "full_merging", full),
              !.shared = None]

(* The checkpoint a staging build waits for before it starts merges. *)
StagingImported(w, full, path) ==
    [w EXCEPT !.staging = WithPath(LaneImported(@, "full_merging", full), path)]

BeginBootstrap(w, full) ==
    [w EXCEPT !.active = FullLoading(full), !.staging = Disabled, !.cutover = None]

CommitBootstrap(w, full, path) ==
    [w EXCEPT !.active = WithPath(LaneImported(@, "full_merging", full), path)]

\* Mutant of BothPending: active is left ready.
StagingPending(w, slot) ==
    [w EXCEPT !.staging = LaneImported(@, "cutover_pending", slot)]

\* Mutant of BothPending: the watermark of staging is forgotten.
PendingAtFull(w, slot) ==
    [w EXCEPT !.staging = LaneAt(@, "cutover_pending", None),
              !.active = LaneAt(@, "cutover_pending", None)]

(* Staging finished its first incremental; active stops taking new work. *)
BothPending(w, slot) ==
    [w EXCEPT !.staging = LaneImported(@, "cutover_pending", slot),
              !.active = LaneAt(@, "cutover_pending", None)]

\* Mutants of Promoted: the disabled lane goes on naming its mint file; ...
PromotedKeepsPath(w) ==
    [active |-> LaneReady(w.staging), staging |-> LaneAt(w.active, "disabled", None),
     cutover |-> None, shared |-> None]

\* ... the lanes swap but the new active keeps the old lane's mint file.
PromotedOldMints(w) ==
    [active |-> WithPath(LaneReady(w.staging), w.active.path),
     staging |-> WithPath(LaneAt(w.active, "disabled", None), None),
     cutover |-> None, shared |-> None]

Promoted(w) ==
    [active |-> LaneReady(w.staging),
     staging |-> WithPath(LaneAt(w.active, "disabled", None), None),
     cutover |-> None, shared |-> None]

-----------------------------------------------------------------------------
(* Steps that several handlers share. *)

(* persist_watcher_state: the temporary file is synced, renamed over the   *)
(* journal and the directory synced, so the journal is the old state or    *)
(* the new one.  A failed persist is an exit, hence a crash before or      *)
(* after this step.                                                        *)
Checkpoint(w) == ws' = w /\ journal' = w

(* cleanup_unused_frozen_hot_mints_or_warn may fail, and then removes nothing. *)
Cleanup(w) ==
    files' \in {files, [f \in FileIds |-> IF f \in Referenced(w) THEN files[f] ELSE None]}

(* persist_frozen_hot_mints: a new file, complete before it has its name. *)
WriteMints(mints) ==
    \E f \in FileIds : /\ files[f] = None
                       /\ files' = [files EXCEPT ![f] = mints]
                       /\ fresh' = f

ResetGroup(g) == /\ merges' = merges \ {g}
                 /\ tables' = [tables EXCEPT ![g] = Reset(@)]
                 /\ stray' = stray \ {g}

(* A stop of merges and a TRUNCATE of which either may fail, half done or not. *)
TryReset(g) ==
    /\ merges' \in {merges, merges \ {g}}
    /\ \E t \in {tables[g], PartlyReset(tables[g]), Reset(tables[g])} :
          tables' = [tables EXCEPT ![g] = t]
    /\ stray' \in {stray, stray \ {g}}

(* reset_failed_staging is best effort. *)
ResetFailedStaging == TryReset(Bak)

NewBuild(step) == [pc |-> step, full |-> ws.staging.full, mints |-> None]

-----------------------------------------------------------------------------
(* Crash and startup. *)

(* A kill, a power loss, or an exit through `?' and the threads with it; *)
(* the TRUNCATE of a bootstrap may be half done.                         *)
Crash ==
    /\ pc # "down"
    /\ IF pc = "boot_start" THEN TryReset(serving) ELSE UNCHANGED <<merges, tables, stray>>
    /\ pc' = "down" /\ ws' = None /\ fresh' = None /\ job' = None
    /\ activeSlot' = 0 /\ activeMints' = None /\ stagingMints' = None
    /\ build' = NoBuild /\ incr' = None /\ stragglers' = {}
    /\ UNCHANGED <<journal, files, serving>>

StateFileLost ==
    /\ "state_lost" \in Faults
    /\ pc = "down"
    /\ journal' = None
    /\ UNCHANGED <<pc, ws, memory, fresh, job, build, incr, disk>>

StartFromJournal ==
    /\ pc = "down" /\ journal # None
    /\ ws' = journal
    /\ pc' = "starting"
    /\ UNCHANGED <<journal, memory, fresh, job, build, incr, disk>>

\* Mutant of ResumeSlotFromMax: a subtraction that does not saturate.
ResumeSlotUnsaturated(max) == max - Rewind

(* No state file: the watermark is estimated from the rows of active. *)
ResumeSlotFromMax(max) == IF max >= Rewind THEN max - Rewind ELSE 0

(* max(updated_slot), with rows of stragglers: they carry the slot of their full. *)
RawMaxima(g) == {tables[g].raw} \cup
    {MaxOf(tables[g].raw, s) : s \in (IF g \in stray THEN FullSlots ELSE {})}

StartRecovered ==
    /\ pc = "down" /\ journal = None
    /\ \E max \in RawMaxima(serving) : Checkpoint(RecoveredActiveOnly(ResumeSlotFromMax(max)))
    /\ pc' = "starting"
    /\ UNCHANGED <<memory, fresh, job, build, incr, disk>>

(* --bootstrap: drop the journal, keep active as it is, take its maximum as watermark. *)
StartBootstrap ==
    /\ "bootstrap" \in Faults
    /\ pc = "down"
    /\ \E max \in RawMaxima(serving) : Checkpoint(RecoveredActiveOnly(max))
    /\ pc' = "starting"
    /\ UNCHANGED <<memory, fresh, job, build, incr, disk>>

StartupCleanup ==
    /\ pc = "starting"
    /\ Checkpoint(ClearDisabledPaths(ws))
    /\ Cleanup(ws')
    /\ pc' = "load"
    /\ UNCHANGED <<memory, fresh, job, build, incr, serving, tables, merges, late>>

BootstrapPending == ws.active.phase \in {"waiting_for_full", "full_loading"}
StagingFile == IF ws.staging.phase = "disabled" THEN None ELSE ws.staging.path
Load(path) == IF path = None THEN None ELSE files[path]
SlotOrZero(max) == IF max = None THEN 0 ELSE max

(* Every frozen set a working lane names is read back; a missing file is an exit. *)
LoadMints ==
    /\ pc = "load"
    /\ BootstrapPending \/ ws.active.path # None
    /\ ~BootstrapPending => files[ws.active.path] # None
    /\ StagingFile # None => files[StagingFile] # None
    /\ activeMints' = IF BootstrapPending THEN None ELSE files[ws.active.path]
    /\ stagingMints' = Load(StagingFile)
    /\ activeSlot' = SlotOrZero(ws.active.max)
    /\ pc' = "loop"
    /\ UNCHANGED <<ws, journal, fresh, job, build, incr, disk>>

(* Active names no file: freeze what hot_token_enabled holds now. *)
FreezeActiveMints ==
    /\ pc = "load"
    /\ ~BootstrapPending /\ ws.active.path = None
    /\ \E mints \in MintSets : WriteMints(mints)
    /\ pc' = "adopt"
    /\ UNCHANGED <<ws, journal, memory, job, build, incr, serving, tables, merges, late>>

AdoptActiveMints ==
    /\ pc = "adopt"
    /\ Checkpoint([ws EXCEPT !.active = WithPath(@, fresh)])
    /\ fresh' = None
    /\ pc' = "load"
    /\ UNCHANGED <<memory, job, build, incr, disk>>

-----------------------------------------------------------------------------
(* Staging threads. *)

(* staging-full: STOP MERGES and TRUNCATE of _bak. *)
BuildReset ==
    /\ build.pc = "start"
    /\ ResetGroup(Bak)
    /\ build' = [build EXCEPT !.pc = "reset"]
    /\ UNCHANGED <<pc, ws, journal, memory, fresh, job, incr, files, serving, stragglers>>

BuildImport ==
    /\ build.pc = "reset"
    /\ \E mints \in MintSets :
          /\ build' = [build EXCEPT !.pc = "import", !.mints = mints]
          /\ tables' = [tables EXCEPT ![Bak] = BeginFull(@, build.full, mints)]
    /\ UNCHANGED <<pc, ws, journal, memory, fresh, job, incr, files, serving, merges, late>>

(* The import is committed; the thread waits for the watcher's checkpoint. *)
BuildImported ==
    /\ build.pc = "import"
    /\ tables' = [tables EXCEPT ![Bak] = EndFull(@, build.full)]
    /\ build' = [build EXCEPT !.pc = "sent"]
    /\ UNCHANGED <<pc, ws, journal, memory, fresh, job, incr, files, serving, merges, late>>

\* Mutant of MergesStarted: the merge wait takes stopped merges for settled ones.
MergesStillStopped(g) == merges

MergesStarted(g) == merges \cup {g}

(* After the checkpoint (or alone, as staging-merge-wait): START MERGES ... *)
BuildStartMerges ==
    /\ build.pc = "acked"
    /\ merges' = MergesStarted(Bak)
    /\ build' = [build EXCEPT !.pc = "settle"]
    /\ UNCHANGED <<pc, ws, journal, memory, fresh, job, incr, files, serving, tables, late>>

(* ... and the wait until the parts settle. *)
BuildSettled ==
    /\ build.pc = "settle"
    /\ build' = [build EXCEPT !.pc = "ok"]
    /\ UNCHANGED <<pc, ws, journal, memory, fresh, job, incr, disk>>

(* After full_merging a failure of the thread makes the watcher exit: see    *)
(* Crash.  An import ends with the first worker that fails: the others are   *)
(* not joined, and what they go on inserting is theirs, not in `tables'.  .. *)
BuildFails ==
    /\ build.pc \in {"start", "reset", "import"}
    /\ build' = [build EXCEPT !.pc = "err"]
    /\ \/ UNCHANGED stragglers
       \/ build.pc = "import" /\ stragglers' = stragglers \cup {Bak}
    /\ UNCHANGED <<pc, ws, journal, memory, fresh, job, incr, files, serving, tables,
                   merges, stray>>

(* ... and goes on inserting into _bak, whatever the watcher does meanwhile. *)
StragglerInserts ==
    /\ \E g \in stragglers : stray' = stray \cup {g}
    /\ UNCHANGED <<pc, ws, journal, memory, fresh, job, build, incr, files, serving,
                   tables, merges, stragglers>>

(* staging-incremental: its failure makes the watcher exit. *)
IncrImport ==
    /\ incr # None /\ incr.pc = "start"
    /\ tables' = [tables EXCEPT ![Bak] = BeginTail(@, incr.archive, incr.mints)]
    /\ incr' = [incr EXCEPT !.pc = "import"]
    /\ UNCHANGED <<pc, ws, journal, memory, fresh, job, build, files, serving, merges, late>>

IncrImported ==
    /\ incr # None /\ incr.pc = "import"
    /\ tables' = [tables EXCEPT ![Bak] = EndTail(@, incr.archive, incr.resume)]
    /\ incr' = [incr EXCEPT !.pc = "ok"]
    /\ UNCHANGED <<pc, ws, journal, memory, fresh, job, build, files, serving, merges, late>>

-----------------------------------------------------------------------------
(* The loop: messages and results of the staging threads. *)

FreezeBuildMints ==
    /\ pc = "loop" /\ ws.staging.phase = "full_loading" /\ build.pc = "sent"
    /\ WriteMints(build.mints)
    /\ pc' = "handshake"
    /\ UNCHANGED <<ws, journal, memory, job, build, incr, serving, tables, merges, late>>

AckBuild ==
    /\ pc = "handshake"
    /\ Checkpoint(StagingImported(ws, build.full, fresh))
    /\ Cleanup(ws')
    /\ stagingMints' = build.mints
    /\ build' = [build EXCEPT !.pc = "acked"]
    /\ fresh' = None
    /\ pc' = "loop"
    /\ UNCHANGED <<activeSlot, activeMints, job, incr, serving, tables, merges, late>>

BuildDone ==
    /\ pc = "loop" /\ build.pc = "ok" /\ ws.staging.phase = "full_merging"
    /\ Checkpoint([ws EXCEPT !.staging = Settled(@)])
    /\ build' = NoBuild
    /\ UNCHANGED <<pc, memory, fresh, job, incr, disk>>

BuildFailed ==
    /\ pc = "loop" /\ build.pc = "err" /\ ws.staging.phase # "full_merging"
    /\ ResetFailedStaging
    /\ build' = NoBuild
    /\ UNCHANGED <<pc, ws, journal, memory, fresh, job, incr, files, serving, stragglers>>

IncrDone ==
    /\ pc = "loop" /\ incr # None /\ incr.pc = "ok"
    /\ Checkpoint(BothPending(ws, incr.archive.slot))
    /\ incr' = None
    /\ UNCHANGED <<pc, memory, fresh, job, build, disk>>

-----------------------------------------------------------------------------
(* The loop: cutover of the two table groups. *)

\* Mutant of CutoverDue: the cutover does not wait for the incremental that staging loads.
CutoverAtDispatch == /\ ws.active.phase \in {"ready", "cutover_pending"}
                     /\ ws.staging.phase \in {"incremental_loading", "cutover_pending"}

CutoverDue == /\ ws.active.phase = "cutover_pending"
              /\ ws.staging.phase = "cutover_pending"

(* validate_staging_group: hot_token_info has as many rows as the frozen set. *)
(* Sets of one size pass for each other, so any set an import used will do.   *)
StagingValid == stagingMints # None /\ tables[Bak].mints # {}

BeginCutover ==
    /\ pc = "loop" /\ CutoverDue /\ ws.cutover = None
    /\ StagingValid
    /\ Checkpoint([ws EXCEPT !.cutover = [active |-> serving, staging |-> Bak]])
    /\ UNCHANGED <<pc, memory, fresh, job, build, incr, disk>>

\* Mutant of Exchanged: an exchange that is repeated swaps the groups back.
ExchangedBlindly(g, c) == Other(g)

(* exchange_table_groups compares table UUIDs with the checkpoint, so that a *)
(* repeated exchange leaves pairs alone that moved already.  An INSERT that  *)
(* a straggler has open stays with its table, the next one follows the name. *)
Exchanged(g, c) == IF g = c.active THEN c.staging ELSE g

Exchange ==
    /\ pc = "loop" /\ CutoverDue /\ ws.cutover # None /\ stagingMints # None
    /\ serving \in {ws.cutover.active, ws.cutover.staging}
    /\ serving' = Exchanged(serving, ws.cutover)
    /\ activeMints' = stagingMints
    /\ stragglers' = IF stragglers = {} THEN {} ELSE Groups
    /\ pc' = "exchanged"
    /\ UNCHANGED <<ws, journal, activeSlot, stagingMints, fresh, job, build, incr,
                   files, tables, merges, stray>>

FinishCutover ==
    /\ pc = "exchanged"
    /\ Checkpoint(Promoted(ws))
    /\ Cleanup(ws')
    /\ activeSlot' = SlotOrZero(ws'.active.max)
    /\ stagingMints' = None
    /\ pc' = "loop"
    /\ UNCHANGED <<activeMints, fresh, job, build, incr, serving, tables, merges, late>>

-----------------------------------------------------------------------------
(* The loop: one archive read that feeds both groups (shared_full_load).   *)

SharedDue == pc = "loop" /\ ~CutoverDue /\ ws.shared # None

(* STOP MERGES and TRUNCATE of _bak come before every attempt. *)
SharedReset ==
    /\ SharedDue
    /\ build.pc = "none" /\ incr = None
    /\ ResetGroup(Bak)
    /\ pc' = "shared_ready"
    /\ UNCHANGED <<ws, journal, memory, fresh, job, build, incr, files, serving, stragglers>>

(* Either of the two fails: clean up as far as possible and retry. *)
SharedResetFails ==
    /\ SharedDue
    /\ build.pc = "none" /\ incr = None
    /\ ResetFailedStaging
    /\ UNCHANGED <<pc, ws, journal, memory, fresh, job, build, incr, files, serving, stragglers>>

(* The checks complete_shared_full_load makes before it reads the archive. *)
SharedConsistent(a) ==
    /\ ws.staging.phase = "full_loading" /\ ws.active.phase = "incremental_loading"
    /\ ws.active.inflight = "full"
    /\ a.slot = ws.shared.full
    /\ ws.active.max = ws.shared.resume

FanoutBegin(dir) ==
    /\ pc = "shared_ready"
    /\ stagingMints # None /\ activeMints # None
    /\ \E a \in Recorded(dir, ws.shared.full) :
          /\ SharedConsistent(a)
          /\ tables' = [tables EXCEPT ![Bak] = BeginFull(@, a.slot, stagingMints),
                                      ![serving] = BeginTail(@, a, activeMints)]
          /\ job' = a
    /\ pc' = "fanout"
    /\ UNCHANGED <<ws, journal, memory, fresh, build, incr, files, serving, merges, late>>

(* As for BuildFails; these workers write both groups. *)
FanoutFails ==
    /\ pc = "fanout"
    /\ stragglers' \in {stragglers, Groups}
    /\ ResetFailedStaging
    /\ job' = None
    /\ pc' = "loop"
    /\ UNCHANGED <<ws, journal, memory, fresh, build, incr, files, serving>>

(* All rows and derived indexes of both groups are committed. *)
FanoutImported ==
    /\ pc = "fanout"
    /\ tables' = [tables EXCEPT ![Bak] = EndFull(@, job.slot),
                                ![serving] = EndTail(@, job, ws.shared.resume)]
    /\ pc' = "fanned"
    /\ UNCHANGED <<ws, journal, memory, fresh, job, build, incr, files, serving, merges, late>>

(* The merge wait starts, or (thread creation failed) is started by a later round. *)
SharedCommit ==
    /\ pc = "fanned"
    /\ Checkpoint(CommitShared(ws, job.slot))
    /\ activeSlot' = job.slot
    /\ build' \in {NewBuild("acked"), NoBuild}
    /\ job' = None
    /\ pc' = "loop"
    /\ UNCHANGED <<activeMints, stagingMints, fresh, incr, disk>>

(***************************************************************************)
(* persist_watcher_state fails in complete_shared_full_load: its caller    *)
(* takes the error for a failed import, but ws is edited already, the      *)
(* local active_slot is not, and the journal may be either.                *)
(***************************************************************************)
SharedCommitFails ==
    /\ "persist_error" \in Faults
    /\ pc = "fanned"
    /\ ws' = CommitShared(ws, job.slot)
    /\ journal' \in {journal, ws'}
    /\ ResetFailedStaging
    /\ job' = None
    /\ pc' = "loop"
    /\ UNCHANGED <<memory, fresh, build, incr, files, serving, stragglers>>

-----------------------------------------------------------------------------
(* The loop: phases of active that end the round. *)

Round == pc = "loop" /\ ~CutoverDue /\ ws.shared = None

ActiveMergeWait ==
    /\ Round /\ ws.active.phase = "full_merging" /\ ws.active.full # None
    /\ merges' = MergesStarted(serving)
    /\ Checkpoint([ws EXCEPT !.active = Settled(@)])
    /\ activeSlot' = SlotOrZero(ws.active.max)
    /\ UNCHANGED <<pc, activeMints, stagingMints, fresh, job, build, incr, files, serving, tables, late>>

(* process_bootstrap_full. *)
BootstrapFull(a) ==
    /\ Checkpoint(BeginBootstrap(ws, a.slot))
    /\ job' = a
    /\ pc' = "boot_start"
    /\ UNCHANGED <<memory, fresh, build, incr, disk>>

ResumeBootstrap(dir) ==
    /\ Round /\ ws.active.phase = "full_loading"
    /\ \E a \in Recorded(dir, ws.active.full) : BootstrapFull(a)

BootstrapReset ==
    /\ pc = "boot_start"
    /\ ResetGroup(serving)
    /\ pc' = "boot_reset"
    /\ UNCHANGED <<ws, journal, memory, fresh, job, build, incr, files, serving, stragglers>>

BootstrapImport ==
    /\ pc = "boot_reset"
    /\ \E mints \in MintSets :
          /\ activeMints' = mints
          /\ tables' = [tables EXCEPT ![serving] = BeginFull(@, job.slot, mints)]
    /\ pc' = "boot_import"
    /\ UNCHANGED <<ws, journal, activeSlot, stagingMints, fresh, job, build, incr,
                   files, serving, merges, late>>

BootstrapImported ==
    /\ pc = "boot_import"
    /\ tables' = [tables EXCEPT ![serving] = EndFull(@, job.slot)]
    /\ WriteMints(activeMints)
    /\ pc' = "boot_frozen"
    /\ UNCHANGED <<ws, journal, memory, job, build, incr, serving, merges, late>>

(* The merge wait that follows is ActiveMergeWait. *)
BootstrapCommit ==
    /\ pc = "boot_frozen"
    /\ Checkpoint(CommitBootstrap(ws, job.slot, fresh))
    /\ fresh' = None /\ job' = None
    /\ activeSlot' = job.slot
    /\ pc' = "loop"
    /\ UNCHANGED <<activeMints, stagingMints, build, incr, disk>>

-----------------------------------------------------------------------------
(* apply_active_incremental: checkpoint, import on the watcher's thread, checkpoint. *)

BeginActive(a) ==
    /\ a.slot > activeSlot /\ activeMints # None
    /\ Checkpoint([ws EXCEPT !.active = LaneLoading(@, a.kind)])
    /\ job' = a
    /\ pc' = "active_start"
    /\ UNCHANGED <<memory, fresh, build, disk>>

ActiveImport ==
    /\ pc = "active_start"
    /\ tables' = [tables EXCEPT ![serving] = BeginTail(@, job, activeMints)]
    /\ pc' = "active_import"
    /\ UNCHANGED <<ws, journal, memory, fresh, job, build, incr, files, serving, merges, late>>

ActiveImported ==
    /\ pc = "active_import"
    /\ tables' = [tables EXCEPT ![serving] = EndTail(@, job, activeSlot)]
    /\ pc' = "active_imported"
    /\ UNCHANGED <<ws, journal, memory, fresh, job, build, incr, files, serving, merges, late>>

ActiveCommit ==
    /\ pc = "active_imported"
    /\ Checkpoint([ws EXCEPT !.active = LaneImported(@, "ready", job.slot)])
    /\ activeSlot' = job.slot
    /\ job' = None
    /\ pc' = "loop"
    /\ UNCHANGED <<activeMints, stagingMints, fresh, build, incr, disk>>

(* After a restart: the interrupted archive may be gone, so the choice is made anew. *)
ResumeCandidates(dir) ==
    Furthest(IF ws.active.inflight = "full" THEN EligibleFulls(dir, activeSlot)
             ELSE EligibleIncrementals(dir, activeSlot))

ActiveInterrupted == Round /\ ws.active.phase = "incremental_loading" /\ ws.active.inflight # None

ResumeActive(dir) ==
    /\ ActiveInterrupted
    /\ \E a \in ResumeCandidates(dir) : BeginActive(a)
    /\ UNCHANGED incr

AbandonActive(dir) ==
    /\ ActiveInterrupted
    /\ ResumeCandidates(dir) = {}
    /\ Checkpoint([ws EXCEPT !.active = LaneReady(@)])
    /\ UNCHANGED <<pc, memory, fresh, job, build, incr, disk>>

-----------------------------------------------------------------------------
(* The loop: staging threads to start again after a restart or a failure.  *)

StagingRound == /\ Round
                /\ ws.active.phase \notin {"full_merging", "full_loading", "incremental_loading"}

SpawnStagingFull(dir) ==
    /\ StagingRound /\ build.pc = "none" /\ ws.staging.phase = "full_loading"
    /\ Recorded(dir, ws.staging.full) # {}
    /\ build' = NewBuild("start")
    /\ UNCHANGED <<pc, ws, journal, memory, fresh, job, incr, disk>>

SpawnMergeWait ==
    /\ StagingRound /\ build.pc = "none" /\ ws.staging.phase = "full_merging"
    /\ ws.staging.full # None
    /\ build' = NewBuild("acked")
    /\ UNCHANGED <<pc, ws, journal, memory, fresh, job, incr, disk>>

(* spawn_staging_incremental: the thread writes _bak concurrently with the watcher. *)
SpawnIncremental(a) ==
    /\ stagingMints # None /\ ws.staging.max # None
    /\ incr' = [pc |-> "start", archive |-> a, resume |-> ws.staging.max,
                mints |-> stagingMints]

StagingInterrupted ==
    /\ StagingRound /\ incr = None /\ ws.staging.phase = "incremental_loading"
    /\ ws.staging.inflight = "incremental" /\ ws.staging.max # None

StagingEligible(dir) == Furthest(EligibleIncrementals(dir, ws.staging.max))

ResumeStaging(dir) ==
    /\ StagingInterrupted
    /\ \E a \in StagingEligible(dir) : SpawnIncremental(a)
    /\ UNCHANGED <<pc, ws, journal, memory, fresh, job, build, disk>>

AbandonStaging(dir) ==
    /\ StagingInterrupted
    /\ StagingEligible(dir) = {}
    /\ Checkpoint([ws EXCEPT !.staging = LaneReady(@)])
    /\ UNCHANGED <<pc, memory, fresh, job, build, incr, disk>>

-----------------------------------------------------------------------------
(* The loop: new work.                                                     *)

DispatchRound ==
    /\ StagingRound
    /\ ws.staging.phase \in {"full_loading", "full_merging"} => build.pc # "none"
    /\ ws.staging.phase = "incremental_loading" => incr # None

FirstBootstrap(dir) ==
    /\ DispatchRound /\ ws.active.phase = "waiting_for_full"
    /\ \E a \in Furthest(NewerFulls(dir, None)) : BootstrapFull(a)

(* A full of a newer generation than active's, whatever active.max_slot is. *)
NewGenerations(dir) ==
    IF ws.staging.phase = "disabled" /\ build.pc = "none"
    THEN Furthest(NewerFulls(dir, ws.active.full)) ELSE {}

FreezeStagingMints(dir) ==
    /\ DispatchRound /\ ws.active.phase = "ready" /\ ws.active.max # None
    /\ \E a \in NewGenerations(dir) : job' = a
    /\ \E mints \in MintSets : WriteMints(mints)
    /\ pc' = "begin"
    /\ UNCHANGED <<ws, journal, memory, build, incr, serving, tables, merges, late>>

BeginSharedLoad ==
    /\ pc = "begin"
    /\ Checkpoint(BeginShared(ws, job.slot, fresh))
    /\ Cleanup(ws')
    /\ stagingMints' = files[fresh]
    /\ fresh' = None /\ job' = None
    /\ pc' = "loop"
    /\ UNCHANGED <<activeSlot, activeMints, build, incr, serving, tables, merges, late>>

StagingCandidates(dir) ==
    IF incr = None /\ ws.staging.phase = "ready" /\ ws.staging.max # None
    THEN StagingEligible(dir) ELSE {}

DispatchStaging(dir) ==
    /\ DispatchRound /\ NewGenerations(dir) = {}
    /\ \E a \in StagingCandidates(dir) : SpawnIncremental(a) /\ job' = a
    /\ Checkpoint([ws EXCEPT !.staging = LaneLoading(@, "incremental")])
    /\ pc' = "dispatch"
    /\ UNCHANGED <<memory, fresh, build, disk>>

(* The archive staging took also feeds active, if active can use it. *)
DispatchBoth ==
    /\ pc = "dispatch"
    /\ ws.active.phase = "ready" /\ job.slot > activeSlot /\ job.base <= activeSlot
    /\ BeginActive(job)
    /\ UNCHANGED incr

DispatchStagingOnly ==
    /\ pc = "dispatch"
    /\ ~(ws.active.phase = "ready" /\ job.slot > activeSlot /\ job.base <= activeSlot)
    /\ job' = None
    /\ pc' = "loop"
    /\ UNCHANGED <<ws, journal, memory, fresh, build, incr, disk>>

DispatchActive(dir) ==
    /\ DispatchRound /\ NewGenerations(dir) = {} /\ StagingCandidates(dir) = {}
    /\ ws.active.phase = "ready"
    /\ \E a \in Furthest(EligibleIncrementals(dir, activeSlot)) : BeginActive(a)
    /\ UNCHANGED incr

-----------------------------------------------------------------------------
(* What the watcher finds when it first starts: no state file; or the      *)
(* journal of an older version (2 to 4), which load_watcher_state migrates,*)
(* with at most one frozen mint file.                                      *)

(* Tables an earlier program run filled and finished. *)
Historical(slot, mints) ==
    [gen |-> None, base |-> "complete", upto |-> slot, raw |-> slot, mints |-> mints]
Filled(mints) == {Truncated} \cup {Historical(s, mints) : s \in FullSlots}

NoFiles == [f \in FileIds |-> None]

MigratedJournals(max, path) ==
    LET lane == [Disabled EXCEPT !.phase = "ready", !.max = max, !.path = path]
        w == [active |-> lane, staging |-> Disabled, cutover |-> None, shared |-> None]
    IN {w} \cup {[w EXCEPT !.staging.path = f] : f \in FileIds}
       \cup {[w EXCEPT !.staging = FullLoading(s)] : s \in FullSlots}
       \cup {[w EXCEPT !.staging = FullLoading(s), !.active = LaneLoading(lane, "full")]
                 : s \in FullSlots}

InitNoJournal ==
    /\ journal = None
    /\ files = NoFiles
    /\ tables \in {t \in [Groups -> Filled({})] : t["g2"].upto <= t["g1"].upto}

InitBootstrapJournal ==
    /\ journal = [RecoveredActiveOnly(None) EXCEPT !.active = WaitingForFull]
    /\ files = NoFiles
    /\ tables \in [Groups -> Filled({})]

InitMigratedJournal ==
    \E s \in FullSlots, f \in FileIds, mints \in MintSets :
        /\ journal \in MigratedJournals(s, f)
        /\ files = [NoFiles EXCEPT ![f] = mints]
        /\ tables = [g \in Groups |-> IF g = "g1" THEN Historical(s, {mints}) ELSE Truncated]

Init ==
    /\ pc = "down" /\ ws = None /\ fresh = None /\ job = None
    /\ activeSlot = 0 /\ activeMints = None /\ stagingMints = None
    /\ build = NoBuild /\ incr = None
    /\ serving = "g1" /\ merges = Groups /\ stragglers = {} /\ stray = {}
    /\ InitNoJournal \/ InitBootstrapJournal \/ InitMigratedJournal

Startup ==
    \/ StartFromJournal \/ StartRecovered \/ StartBootstrap
    \/ StartupCleanup \/ LoadMints \/ FreezeActiveMints \/ AdoptActiveMints

Threads ==
    \/ BuildReset \/ BuildImport \/ BuildImported \/ BuildStartMerges
    \/ BuildSettled \/ IncrImport \/ IncrImported

Scan(dir) ==
    \/ FanoutBegin(dir) \/ ResumeBootstrap(dir) \/ FirstBootstrap(dir)
    \/ ResumeActive(dir) \/ AbandonActive(dir)
    \/ SpawnStagingFull(dir) \/ ResumeStaging(dir) \/ AbandonStaging(dir)
    \/ FreezeStagingMints(dir) \/ DispatchStaging(dir) \/ DispatchActive(dir)

Watcher ==
    \/ FreezeBuildMints \/ AckBuild \/ BuildDone \/ BuildFailed \/ IncrDone
    \/ BeginCutover \/ Exchange \/ FinishCutover
    \/ SharedReset \/ SharedResetFails \/ FanoutFails \/ FanoutImported
    \/ SharedCommit \/ SharedCommitFails \/ ActiveMergeWait
    \/ BootstrapReset \/ BootstrapImport \/ BootstrapImported \/ BootstrapCommit
    \/ ActiveImport \/ ActiveImported \/ ActiveCommit \/ SpawnMergeWait
    \/ BeginSharedLoad \/ DispatchBoth \/ DispatchStagingOnly

Next == Crash \/ StateFileLost \/ Startup \/ Threads \/ BuildFails \/ StragglerInserts
        \/ Watcher \/ \E dir \in SUBSET Archives : Scan(dir)

Spec == Init /\ [][Next]_vars

(***************************************************************************)
(* Fairness: a stopped watcher is started again, its thread keeps looping, *)
(* over failed builds too, and the staging threads keep running (WF).  The *)
(* code retries a failed shared import without limit; an attempt succeeds  *)
(* some time (SF).  A scan of the whole directory happens some time, and a *)
(* round that may dispatch staging work is not for ever preempted by       *)
(* active's (SF).  Nothing is assumed of crashes or failures, nor of what  *)
(* stragglers write.                                                       *)
(***************************************************************************)
WholeScan ==
    \/ FanoutBegin(Archives) \/ ResumeStaging(Archives) \/ ResumeActive(Archives)
    \/ SpawnStagingFull(Archives) \/ AbandonStaging(Archives) \/ AbandonActive(Archives)
    \/ DispatchActive(Archives)

Fairness ==
    /\ WF_vars(Startup) /\ WF_vars(Threads)
    /\ WF_vars(FreezeBuildMints) /\ WF_vars(AckBuild)
    /\ WF_vars(BuildDone) /\ WF_vars(BuildFailed) /\ WF_vars(IncrDone)
    /\ WF_vars(BeginCutover) /\ WF_vars(Exchange) /\ WF_vars(FinishCutover)
    /\ SF_vars(SharedReset) /\ SF_vars(FanoutImported) /\ WF_vars(SharedCommit)
    /\ WF_vars(ActiveImport) /\ WF_vars(ActiveImported) /\ WF_vars(ActiveCommit)
    /\ WF_vars(SpawnMergeWait) /\ WF_vars(BeginSharedLoad)
    /\ WF_vars(DispatchBoth) /\ WF_vars(DispatchStagingOnly)
    /\ WF_vars(WholeScan)
    /\ SF_vars(FreezeStagingMints(Archives)) /\ SF_vars(DispatchStaging(Archives))

FairSpec == Spec /\ Fairness

-----------------------------------------------------------------------------
(* Properties. *)

(* Type invariant of every variable. *)
TypeOK ==
    /\ pc \in {"down", "starting", "load", "adopt", "loop", "handshake", "exchanged",
              "shared_ready", "fanout", "fanned", "boot_start", "boot_reset", "boot_import",
              "boot_frozen", "active_start", "active_import", "active_imported", "begin", "dispatch"}
    /\ ws \in States \cup {None}
    /\ journal \in States \cup {None}
    /\ activeSlot \in Nat
    /\ activeMints \in MintSets \cup {None} /\ stagingMints \in MintSets \cup {None}
    /\ fresh \in FileIds \cup {None}
    /\ job \in Archives \cup {None}
    /\ build \in Builds
    /\ incr \in Imports \cup {None}
    /\ files \in [FileIds -> MintSets \cup {None}]
    /\ serving \in Groups
    /\ tables \in [Groups -> Contents]
    /\ merges \in SUBSET Groups
    /\ stragglers \in SUBSET Groups /\ stray \in SUBSET Groups

(* The states that make a claim about files and tables: the journal and, while *)
(* the process is up, its memory.                                              *)
Claims == {journal, ws} \ {None}

(* Between the exchange and the journal's promotion the lanes still mean the *)
(* groups the cutover checkpoint names.                                      *)
ActiveGroup(w) == IF w.cutover = None THEN serving ELSE w.cutover.active
StagingGroup(w) == IF w.cutover = None THEN Bak ELSE w.cutover.staging

Loaded == {"full_merging", "ready", "incremental_loading", "cutover_pending"}

(* A committed watermark never claims a slot whose changes are not in the   *)
(* lane's tables, whatever import was interrupted (max_slot is the "largest *)
(* slot whose import finished successfully").                               *)
WatermarkBacked ==
    \A w \in Claims :
        /\ SlotOrZero(w.active.max) <= tables[ActiveGroup(w)].upto
        /\ SlotOrZero(w.staging.max) <= tables[StagingGroup(w)].upto

(* A lane beyond full_loading stands on the whole baseline of the full      *)
(* archive it records: full_merging is never reached, or kept, on a group   *)
(* that was truncated or holds an unfinished import.                        *)
GenerationComplete ==
    \A w \in Claims :
        /\ w.staging.phase \in Loaded =>
              /\ tables[StagingGroup(w)].base = "complete"
              /\ tables[StagingGroup(w)].gen = w.staging.full
        /\ w.active.phase \in Loaded /\ w.active.full # None =>
              /\ tables[ActiveGroup(w)].base = "complete"
              /\ tables[ActiveGroup(w)].gen = w.active.full

(* Every hot-mint file a working lane names is on disk, across the writes,  *)
(* checkpoints and cleanups of both lanes: a restart can always read it.    *)
MintFilesExist ==
    \A w \in Claims : \A f \in Referenced(w) \ {None} : files[f] # None

(* What makes MintFilesExist inductive: the file just written is on disk    *)
(* until the journal names it, and a disabled lane, whose file a cleanup    *)
(* removes, has given its path up once startup has cleared it.              *)
LaneKept(lane) ==
    /\ lane.path # None /\ lane.phase # "disabled" => files[lane.path] # None
    /\ lane.phase = "disabled" => lane.path = None \/ pc \in {"down", "starting"}
MintFilesKept ==
    /\ \A w \in Claims : w.active.phase # "disabled" /\ LaneKept(w.active) /\ LaneKept(w.staging)
    /\ fresh # None <=> pc \in {"adopt", "handshake", "begin", "boot_frozen"}
    /\ fresh # None => files[fresh] # None

(* What the threads hold at each point of their work. *)
ControlOK ==
    /\ ws # None <=> pc # "down"
    /\ pc = "down" => build.pc = "none" /\ stragglers = {}
    /\ pc \in {"begin", "fanout", "fanned", "boot_start", "boot_reset", "boot_import",
               "boot_frozen"} => job # None /\ job.kind = "full"
    /\ pc \in {"active_start", "active_import", "active_imported", "dispatch"} => job # None
    /\ pc \in {"active_start", "boot_import"} => activeMints # None
    /\ pc = "begin" => ws.active.max # None
    /\ pc = "handshake" => build.pc = "sent"
    /\ build.pc \in {"start", "reset", "import", "sent"} => build.full # None
    /\ build.pc \in {"import", "sent"} => build.mints # None

(* The inductive invariant behind TypeOK and MintFilesExist. *)
Inv == TypeOK /\ MintFilesKept /\ ControlOK

(* The set in the file a lane names is the one that filtered every import   *)
(* into the lane's tables, before and after restarts and cutovers.          *)
FrozenMintsHold ==
    \A w \in Claims :
        /\ w.active.phase \in Loaded /\ w.active.path # None =>
              tables[ActiveGroup(w)].mints \subseteq {files[w.active.path]}
        /\ w.staging.phase \in Loaded =>
              tables[StagingGroup(w)].mints \subseteq {files[w.staging.path]}

(* A full import never writes into tables that hold rows of an earlier one, *)
(* finished or not: retries and restarts truncate first.  The only rows     *)
(* beside its own are those that unjoined workers of an attempt that failed *)
(* in this same process got in after the TRUNCATE; none survives a restart. *)
FullTargets == {g \in Groups :
    \/ g = Bak /\ (build.pc \in {"reset", "import"} \/ pc \in {"shared_ready", "fanout"})
    \/ g = serving /\ pc \in {"boot_reset", "boot_import"}}
NoResidue == \A g \in Groups : tables[g].base # "residue"
StrayOK == FullTargets \cap stray \subseteq stragglers
FullStartsClean == NoResidue /\ StrayOK

(* Of the threads that import into _bak, or truncate it before or after an  *)
(* import, at most one is at work, and none while the groups are being      *)
(* exchanged: no TRUNCATE meets an import the watcher still counts on.      *)
(* Stragglers of an import it has given up come on top of these.            *)
BakWriters == {t \in {"watcher", "full", "incremental"} :
                 \/ t = "watcher" /\ pc \in {"shared_ready", "fanout", "fanned"}
                 \/ t = "full" /\ build.pc \in {"start", "reset", "import", "err"}
                 \/ t = "incremental" /\ incr # None /\ incr.pc \in {"start", "import"}}
OneBakImport ==
    /\ \A t, u \in BakWriters : t = u
    /\ pc = "exchanged" \/ (ws # None /\ ws.cutover # None) => BakWriters = {}

(* A lane that takes or has taken incrementals has its merges running.      *)
MergesRun ==
    \A w \in Claims :
        /\ w.active.phase \in Loaded \ {"full_merging"} => ActiveGroup(w) \in merges
        /\ w.staging.phase \in Loaded \ {"full_merging"} => StagingGroup(w) \in merges

(* No error branch of the loop can be taken because of the journal alone:   *)
(* what a restart reads satisfies every ok_or and phase check on the way.   *)
SharedResumable(w) ==
    w.shared # None =>
        /\ w.staging.phase = "full_loading" /\ w.active.phase = "incremental_loading"
        /\ w.active.inflight = "full" /\ w.active.max = w.shared.resume
        /\ w.staging.full = w.shared.full /\ w.staging.path # None
LanesResumable(w) ==
    /\ w.active.phase \in Loaded => w.active.max # None
    /\ w.active.phase = "incremental_loading" => w.active.inflight # None
    /\ w.active.phase \in {"full_loading", "full_merging"} => w.active.full # None
    /\ w.staging.phase \in Loaded => w.staging.max # None /\ w.staging.path # None
    /\ w.staging.phase = "incremental_loading" => w.staging.inflight = "incremental"
    /\ w.staging.phase \in {"full_loading", "full_merging"} => w.staging.full # None
CutoverResumable(w) ==
    /\ (w.active.phase = "cutover_pending") <=> (w.staging.phase = "cutover_pending")
    /\ w.cutover # None =>
          /\ w.active.phase = "cutover_pending"
          /\ serving \in {w.cutover.active, w.cutover.staging}
    /\ w.staging.phase = "cutover_pending" =>
          /\ tables[StagingGroup(w)].base = "complete"
          /\ files[w.staging.path] \in tables[StagingGroup(w)].mints
JournalResumable ==
    \A w \in Claims : SharedResumable(w) /\ LanesResumable(w) /\ CutoverResumable(w)

(* Readers of the active names never lose data while a generation is built, *)
(* retried or resumed; only an explicit bootstrap import empties active.    *)
ServingNeverRegresses ==
    [][serving' = serving /\ (journal # None => journal.active.phase # "full_loading")
         => tables'[serving].upto >= tables[serving].upto]_vars

(* What an exchange puts in service is a whole, merging generation of a     *)
(* newer full archive than the one it replaces.                             *)
CutoverPromotesNewer ==
    [][serving' # serving =>
         /\ tables[serving'].base = "complete" /\ serving' \in merges
         /\ tables[serving'].gen # None
         /\ tables[serving].gen # None => tables[serving'].gen > tables[serving].gen]_vars

(* Within a generation the active watermark only moves forward: "max_slot"  *)
(* is the largest slot imported and a checkpoint never takes it back.       *)
WatermarkNeverRegresses ==
    [][ws # None /\ ws' # None /\ pc # "exchanged" =>
         SlotOrZero(ws'.active.max) >= SlotOrZero(ws.active.max)]_vars

(* A generation whose shared import has begun is eventually the one in      *)
(* service, over failed attempts and restarts, once the process stops       *)
(* crashing and if the validator publishes an incremental continuing it.    *)
StaysUp == <>[](pc # "down")
GenerationServed ==
    StaysUp => ((journal # None /\ journal.shared # None)
                   ~> (/\ journal # None /\ journal.shared = None
                       /\ journal.staging.phase = "disabled"))

(* A full archive bridges a missing incremental base: an active lane that   *)
(* is ready behind it reaches its slot some time (the project's README), if *)
(* staging imports do not fail for ever.  The code never lacks a name for a *)
(* mint file, so FileIds must not run out.                                  *)
BuildsSucceed == <>[][~BuildFails]_vars
MintFilesFree == <>[](\E f \in FileIds : files[f] = None)
FullBridgesGap ==
    StaysUp /\ BuildsSucceed /\ MintFilesFree => \A slot \in FullSlots :
                  (journal # None /\ journal.active.phase = "ready")
                      ~> (journal # None /\ SlotOrZero(journal.active.max) >= slot)

-----------------------------------------------------------------------------
(* The inductive invariants behind the safety properties. *)

(* Whatever faults there are: how the lanes of one state go together, ...   *)
StateOK(w) ==
    /\ w.shared # None => /\ w.staging.phase = "full_loading"
                          /\ w.active.phase = "incremental_loading"
    /\ w.cutover # None => w.staging.phase = "cutover_pending"
    /\ w.active.phase = "cutover_pending" <=> w.staging.phase = "cutover_pending"
    /\ w.active.phase \in {"waiting_for_full", "full_loading"} => w.staging.phase = "disabled"

(* ... what each position of the threads says about ws, ... *)
Booting == {"boot_start", "boot_reset", "boot_import", "boot_frozen"}
Starting == {"down", "starting", "load", "adopt"}
StageOK ==
    /\ pc \in Starting => build.pc = "none" /\ incr = None
    /\ build.pc \in {"start", "reset", "import", "sent", "err"} =>
          ws.staging.phase = "full_loading" /\ ws.shared = None
    /\ build.pc \in {"acked", "settle", "ok"} => ws.staging.phase = "full_merging"
    /\ incr # None => ws.staging.phase = "incremental_loading"
    /\ pc \in {"shared_ready", "fanout", "fanned"} => ws.shared # None
    /\ pc \in {"active_start", "active_import", "active_imported"} =>
          ws.active.phase = "incremental_loading" /\ ws.shared = None
    /\ pc = "begin" => ws.active.phase = "ready" /\ ws.staging.phase = "disabled"
    /\ pc = "dispatch" => incr # None
    /\ pc = "exchanged" => ws.cutover # None
    /\ pc \in Booting => journal = ws /\ ws.active.phase = "full_loading"

(* ... and that a full import finds the tables it truncated still empty. *)
EmptyOK ==
    /\ NoResidue
    /\ build.pc = "reset" \/ pc = "shared_ready" => tables[Bak] = Truncated
    /\ pc = "boot_reset" => tables[serving] = Truncated

(***************************************************************************)
(* Together, with every fault: why OneBakImport and NoResidue hold         *)
(* however the watcher's thread, its staging threads, crashes and restarts *)
(* interleave.                                                             *)
(***************************************************************************)
StageInv == Inv /\ (\A w \in Claims : StateOK(w)) /\ StageOK /\ EmptyOK

(* Without operator faults the journal is the memory of a running watcher,  *)
(* and there is none only before the first start.                           *)
JournalOK ==
    /\ pc # "down" => ws = journal
    /\ journal = None => /\ tables[serving].gen = None /\ tables[serving].mints = {}
                         /\ tables[serving].raw <= tables[serving].upto
                         /\ serving \in merges /\ serving \notin stray

(* Staging is a newer generation, and the cutover is one of the two groups. *)
LanesOK(w) ==
    /\ SharedResumable(w) /\ LanesResumable(w)
    /\ w.active.phase \in {"waiting_for_full", "full_loading"} => w.active.max = None
    /\ w.active.phase = "waiting_for_full" => w.active.full = None
    /\ w.active.phase = "full_merging" => w.staging.phase = "disabled"
    /\ w.staging.phase = "full_loading" => w.staging.max = None
    /\ w.staging.phase # "disabled" =>
          w.staging.full # None /\ (w.active.full # None => w.staging.full > w.active.full)
    /\ w.cutover # None => w.cutover.staging = Other(w.cutover.active)

(* What the group of the active lane and that of the staging lane hold. *)
ActiveTables(lane, g) ==
    /\ SlotOrZero(lane.max) <= tables[g].upto
    /\ tables[g].gen \in {None, lane.full}
    /\ lane.phase \in Loaded =>
          /\ lane.full # None => tables[g].base = "complete" /\ tables[g].gen = lane.full
          /\ tables[g].mints \subseteq (IF lane.path = None THEN {} ELSE {files[lane.path]})
          /\ lane.phase # "full_merging" => g \in merges
StagingTables(lane, g) ==
    /\ SlotOrZero(lane.max) <= tables[g].upto
    /\ lane.phase \in Loaded =>
          /\ tables[g].base = "complete" /\ tables[g].gen = lane.full
          /\ tables[g].mints = {files[lane.path]}
          /\ lane.phase # "full_merging" => g \in merges

(* The local variables of the loop are those of the state and its files. *)
ActiveMemory ==
    pc \notin Starting =>
        /\ activeSlot = SlotOrZero(ws.active.max)
        /\ pc # "exchanged" /\ ~BootstrapPending =>
              ws.active.path # None /\ activeMints = files[ws.active.path]
        /\ pc = "exchanged" =>
              activeMints = files[ws.staging.path] /\ serving = ws.cutover.staging
StagingMemory ==
    pc \notin Starting /\ StagingFile # None => stagingMints = files[StagingFile]
FreshMemory ==
    /\ pc = "adopt" => ws.active.path = None /\ ~BootstrapPending
    /\ pc = "handshake" => files[fresh] = build.mints
    /\ pc = "boot_frozen" => files[fresh] = activeMints

(* A full import of slot under way in a group, and a finished one. *)
FullUnderway(t, slot, mints) == t.base = "partial" /\ t.gen = slot /\ t.mints = {mints}
FullThere(t, slot, mints) ==
    t.base = "complete" /\ t.gen = slot /\ t.mints = {mints} /\ t.upto = slot

(* What the imports under way have done to the tables: those of the loop, ... *)
BootWork ==
    /\ pc \in Booting => job.slot = ws.active.full
    /\ pc = "boot_import" => FullUnderway(tables[serving], job.slot, activeMints)
    /\ pc = "boot_frozen" => FullThere(tables[serving], job.slot, activeMints)
SharedWork ==
    /\ pc = "begin" => ws.active.full = None \/ job.slot > ws.active.full
    /\ pc \in {"fanout", "fanned"} => job.slot = ws.shared.full
    /\ pc = "fanout" => FullUnderway(tables[Bak], job.slot, stagingMints)
    /\ pc = "fanned" => /\ FullThere(tables[Bak], job.slot, stagingMints)
                        /\ tables[serving].upto >= job.slot
ActiveWork ==
    /\ pc \in {"active_start", "active_import"} => job.kind = "full" \/ job.base <= activeSlot
    /\ pc = "active_imported" => tables[serving].upto >= job.slot

(* ... and those of the staging threads. *)
BuildWork ==
    /\ build.pc \in {"start", "reset", "import", "sent"} => build.full = ws.staging.full
    /\ build.pc = "import" => FullUnderway(tables[Bak], build.full, build.mints)
    /\ build.pc = "sent" => FullThere(tables[Bak], build.full, build.mints)
    /\ build.pc \in {"settle", "ok"} => Bak \in merges
IncrWork ==
    incr # None =>
        /\ incr.resume = ws.staging.max /\ incr.mints = files[ws.staging.path]
        /\ incr.archive.kind = "full" \/ incr.archive.base <= incr.resume
        /\ incr.pc = "ok" => tables[Bak].upto >= incr.archive.slot

(***************************************************************************)
(* Together, without operator faults: what the journal and the threads     *)
(* know about the tables, in every state between crashes, failed imports,  *)
(* restarts and cutovers.                                                  *)
(***************************************************************************)
TablesOK(w) == ActiveTables(w.active, ActiveGroup(w)) /\ StagingTables(w.staging, StagingGroup(w))
MemoryOK == ActiveMemory /\ StagingMemory /\ FreshMemory
WorkOK == BootWork /\ SharedWork /\ ActiveWork /\ BuildWork /\ IncrWork

GenerationInv ==
    /\ StageInv /\ JournalOK /\ MemoryOK /\ WorkOK
    /\ \A w \in Claims : LanesOK(w) /\ TablesOK(w)

-----------------------------------------------------------------------------
(* The watcher as a double buffer. *)

ContentsOf(g) == [gen |-> tables[g].gen, upto |-> tables[g].upto]

(* Active is in service unless its first full has still to be loaded; ...  *)
Served ==
    IF journal = None \/ journal.active.phase \in {"waiting_for_full", "full_loading"}
    THEN None ELSE ContentsOf(serving)

(* ... staging is prepared from the checkpoint of its full to the exchange. *)
Prepared ==
    IF journal # None /\ journal.staging.phase \in Loaded /\ StagingGroup(journal) # serving
    THEN ContentsOf(StagingGroup(journal)) ELSE None

Buffer == INSTANCE DoubleBuffer WITH
    Generations <- FullSlots, served <- Served, prepared <- Prepared

(* None is not what a table group holds. *)
ASSUME BufferAssumption == None \notin Buffer!Tables

(***************************************************************************)
(* The watcher implements the double buffer: over crashes at any point,    *)
(* failed and repeated imports, merge waits and interrupted cutovers,      *)
(* readers of active see one generation that only gains changes and is     *)
(* replaced by a whole newer one that has had its first incremental.       *)
(***************************************************************************)
DoubleBufferKept == Buffer!Spec

(* A staging lane never lies behind the full archive it is built from, and  *)
(* is ahead of it once it may be promoted: what staging takes next ends     *)
(* beyond its watermark (the first incremental a cutover waits for).        *)
LaneAhead(lane) ==
    /\ lane.phase \in Loaded => lane.max >= lane.full
    /\ lane.phase = "cutover_pending" => lane.max > lane.full
AheadInv ==
    /\ \A w \in Claims : LaneAhead(w.staging)
    /\ incr # None => incr.archive.slot > ws.staging.max
=============================================================================

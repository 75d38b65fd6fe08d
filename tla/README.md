# A verification of solana-snapshot-etl

`solana-snapshot-etl` reads Solana account snapshots (full and incremental tar archives) and loads
them into ClickHouse. Its long-running mode, the *watcher*, keeps one group of six tables in service
(`active`) while it builds the next generation in a second group (`_bak`), and exchanges the two. These
modules model that mode as written in `src/src/bin/solana-snapshot-etl/main.rs`, the imports it runs (threads,
INSERTs, metadata), the tables of hot tokens those imports maintain and the exchange of the groups
(`clickhouse.rs`, `archived.rs`, `incremental.rs`); they are checked with TLC, and most of their safety
properties are proved with TLAPS.
Below, `main.rs` and `clickhouse.rs` are the files in `src/src/bin/solana-snapshot-etl/`.

## 1. Inventory

| component | state | operations | modelled in |
| --- | --- | --- | --- |
| Snapshot watcher (`main.rs` 1890-2469 and its handlers) | `watcher_state`, `active_slot`, frozen mint sets, handles of staging threads | startup, recovery per phase, bootstrap, shared full load, staging build and merge wait, active and staging incrementals, cutover | `SnapshotWatcher`; its promise: `DoubleBuffer` |
| Journal and mint files (`main.rs` 1020-1520) | `solana-snapshot-etl-state.json`, `solana-snapshot-etl-hot-mints-*.txt` | load, migrate, persist, freeze, clean up | `SnapshotWatcher` |
| Archive selection (`src/src/incremental.rs`, `main.rs` 1529-1566, 1875-1888) | the directory (owned by the validator) | scan, filter, choose the furthest | `SnapshotSelection` |
| Table groups (`clickhouse.rs` 60-94, 1864-2112, 2581-2711) | six tables x two groups, merges on or off | TRUNCATE, STOP/START MERGES, maximum slot, validate, EXCHANGE | `GroupContents`, `SnapshotWatcher` (per group), `TableExchange` (the cutover per pair) |
| Parallel import (`clickhouse.rs` 934-1789) | bounded queue, workers, cancel flag | produce, insert, cancel, join, finish | `ParallelImport`; its promise: `ImportContract`; its repetition: `ImportRetry` |
| Row workers and hot state (`clickhouse.rs` 2117-2557, 3815-4930) | L2 account state, L3 balances, tombstones | filter by mint, write, tombstone, refresh | `HotState` |
| Insert sinks (`clickhouse.rs` 3214-3761) | batches, permits, gates | buffer, flush by age, size or idleness, end | `ParallelImport` |
| Token metadata (`clickhouse.rs` 497-909, 3550-3613) | patches per mint | record, merge, write; read Token-2022 TLV | `MetadataPatches`; byte formats not modelled |
| Merge barrier (`clickhouse.rs` 1998-2112) | two samples of part counts | probe until stable | `SnapshotWatcher`: a wait that ends |
| Readers (`src/src/archived.rs`, `append_vec.rs`, `unpacked.rs`) | a stream | filter, decode | `ArchiveStream`: what a reader hands out; byte layouts not modelled |
| Repair commands (`main.rs` 280-317, `clickhouse.rs` 2212-2230; `--clickhouse-close-tombstones`) | none | rebuild the derived tables of active in clones and exchange them; write missing tombstones | `TableExchange`, `HotState` |
| Schema validation, single-snapshot command, auxiliary binaries | none, or one import | | not modelled |

**Interactions.** The watcher thread owns the journal. It imports into active itself and starts at most
one staging thread at a time: `staging-full` (truncate, import, send the frozen mints, wait for an
acknowledgement, start merges, wait), `staging-merge-wait` (its second half, after a restart or a shared
load) or `staging-incremental`. Results come back through a channel and through `is_finished`/`join`.
The validator adds and removes archives at any time; ClickHouse tables and files outlive the process.

**What is hard.** A crash or an exit through `?` between any two effects; retries over half-written
tables; a journal, files and tables that are updated one after the other; two groups that trade names;
threads whose results arrive while the watcher works; archives that vanish; workers that fail while the
queue is full or while others insert; tombstones and balances that are derived from what an earlier,
perhaps unfinished import left behind. `PROJECT.json` lists these
hazards at their lines with the properties that cover them.

**What makes each component correct.** Watcher: a watermark or phase in the journal is never ahead of
the tables, every restart can go on, readers of active lose nothing, a cutover serves a whole newer
generation and happens at last. Files: what the journal names exists. Selection: an incremental
starts within what is loaded. Imports: all rows of an archive exactly once or an error, whatever the schedule;
every thread ends. Hot state: account states and balances agree with the ledger at the watermark.

## 2. Modules

- `SnapshotSelection`: archives as records (kind, base, slot), eligibility, the furthest candidate. A
  tie, which the code breaks by path, is left open. A scan of the directory is any subset of the
  catalogue `Archives`, since `read_dir` sees some state of a directory others change.
- `GroupContents`: what a table group holds, as far as the journal makes claims about it: whose full
  baseline (`gen`), how complete (`base`), up to which slot every change is present (`upto`), the
  maximum of `raw_account.updated_slot` (`raw`) and the mint sets used as filters. An import has a
  beginning (rows visible, `raw` raised) and an end. A failed TRUNCATE may leave some tables empty
  (`raw_account` first).
- `SnapshotWatcher`: the watcher, below.
- `DoubleBuffer`: what the watcher promises to readers of the tables, below.
- `MCSnapshotWatcher`: catalogues and symmetry for TLC.
- `SnapshotWatcherProofs`, `WatcherStagesProofs`, `WatcherGenerationProofs`, `WatcherBufferProofs`: the TLAPS
  proofs, each module on top of the one before.
- `TableExchange`: `finish_cutover` and `exchange_table_groups` pair by pair. A table is its UUID and
  the set of generations its rows come from, so that a table rebuilt from a mixture shows. `Found` is
  `table_group_identity` of both groups, `Verdict` what the loop does with a pair (skip, exchange,
  refuse). A crash comes between any two statements; while the watcher is down `Repair`
  (`--clickhouse-rebuild-hot`) replaces derived tables of active and `Bootstrap` drops the checkpoint.
  `run.sh` starts watcher and repair under one lock, so they do not overlap. The build of a generation
  is one step here, as its parts are in `SnapshotWatcher`, where in turn the exchange is one step.
- `MCTableExchange` gives it the six tables. `LateExchange` adds a server that goes on with an
  EXCHANGE after its client has gone. `TableExchangeProofs`: the TLAPS proofs.
- `ArchiveStream`: what the archive reader gives for each file behind the manifest: nothing (no append-vec,
  or not above the minimum slot), an error (not in the manifest), an append-vec, or the end. A broken stream
  gives one error and then the end, so whatever lies behind the break is not delivered.
- `MetadataPatches`: how metadata candidates of one mint are recorded and merged with the existing row.
- `ParallelImport`, `ImportContract`, `ImportRetry`, `MCParallelImport`: one import, below;
  `ParallelImportProofs`: the TLAPS proofs.
- `HotState`, `MCHotState`: the hot tables of one group over many imports, below; `HotStateProofs` (L2) and
  `HotBalanceProofs` (L3): the TLAPS proofs.

### The watcher

**State.** `ws` is `watcher_state` in memory and `journal` the durable file; `files` the mint files on
disk and `fresh` one written but not yet named by the journal; `activeSlot`, `activeMints`,
`stagingMints`, `build`, `incr` are the locals of `run_incremental_snapshots` and the two threads;
`job` is the archive the watcher is importing; `tables`, `merges`, `serving` are ClickHouse; `stragglers` and
`stray` are the workers that failed imports leave running, and what they wrote. `serving`
says which physical group has the active names, so an exchange is `serving' = ...`. A lane keeps
the fields of `LaneWatcherState`; a full archive's path and slot are one value, the slot.

**Actions.** One action is the stretch between two effects that another thread, a reader of the
tables or a restart can tell apart. `Checkpoint` is `persist_watcher_state`: write and sync a temporary
file, rename, sync the directory, so old or new. `Crash` stands for a kill and for each exit through
`?`, including the thread results on which the watcher exits (a failed staging incremental, a
failed merge wait); then nothing but journal, files and tables remains. `PROJECT.json` maps every
definition to its lines. In the order of the loop:

| code | actions |
| --- | --- |
| startup, 1894-1971 | `StartFromJournal`, `StartRecovered`, `StartBootstrap`, `StartupCleanup`, `LoadMints`, `FreezeActiveMints`, `AdoptActiveMints` |
| handshake and thread results, 1973-2104 | `FreezeBuildMints`, `AckBuild`, `BuildDone`, `BuildFailed`, `IncrDone`; threads: `Build*`, `Incr*` |
| cutover, 1819-1873 | `BeginCutover` (checkpoint), `Exchange`, `FinishCutover` (promotion) |
| shared full load, 1708-1817, 2122-2191 | `FreezeStagingMints`, `BeginSharedLoad`, `SharedReset(Fails)`, `Fanout*`, `SharedCommit(Fails)` |
| active, 1570-1655, 2193-2269 | `ActiveMergeWait`, `*Bootstrap*`, `ResumeActive`, `AbandonActive`, `Active*` |
| staging restarts, 2271-2340 | `SpawnStagingFull`, `SpawnMergeWait`, `ResumeStaging`, `AbandonStaging` |
| new work, 2342-2451 | `FirstBootstrap`, `FreezeStagingMints`, `DispatchStaging`, `DispatchBoth`, `DispatchStagingOnly`, `DispatchActive` |

**Initial states.** A first start with empty or filled tables and no state file; the bootstrap
journal of older versions; migrated journals of versions 2 to 4 with one mint file, a staging lane
disabled (perhaps still naming a file), or in `full_loading`, with active ready or inside its bridge.

**Abstractions.** Slots are numbers without width (the code never adds to one). A path is identified
with its slot. The exchange of six pairs is one step (see `TableExchange`). `SYSTEM STOP MERGES` holds for a group as a
whole. Merge waits end. The validation before a cutover compares the number of rows of `hot_token_info_bak` with
the size of the frozen set; sizes are not modelled, so `StagingValid` lets any set pass that an import of the
group used. `hot_token_enabled` may hold a different set at every read. The number of
mint files is bounded by `FileIds`: a step that needs a file name waits when none is free.

**Stragglers.** Both join loops return at the first worker that failed (`clickhouse.rs` 1325-1331, 1682-1688); the
others go on inserting while the watcher truncates and retries. `stragglers` are the groups such workers may write:
`_bak` after a failed build, both after a failed fan-out, and either once an exchange moved the names, since a worker opens its next
INSERT by name. `StragglerInserts` puts rows of theirs into such a group at any time, until the process ends;
`stray` are the groups that hold some since their last TRUNCATE. It is an upper bound, since a worker may also stop at
the cancel flag. A statement that the server finishes after the process has died is not in this module (`LateExchange`
has one). What `tables` says of a group are the rows of imports that the watcher counts on; a straggler adds correct rows of
its full archive, filtered by the mint set of its own attempt. So `GenerationComplete`, `WatermarkBacked` and
`DoubleBufferKept` say that nothing is missing, not that no row is there twice (finding 5), and `FrozenMintsHold`
speaks of the imports in `tables`: the second attempt of a staging build may freeze another set than the
first, whose stragglers then leave rows of theirs. The watermark that a start without a
journal derives from `max(updated_slot)` does see their rows (`RawMaxima`).

**What it implements.** `DoubleBuffer` knows no journal, threads, files or crashes, only a generation in service and
one in preparation, each a full archive and the slot up to which changes are in. The one in service gains changes
(`Advance`) or is replaced in one step (`Switch`) by the one in preparation, which must be that of a newer full
(`Prepare`) and have gained changes since (`Extend`). Nothing else happens: no tables go out of service, none lose
rows, and what is prepared is not thrown away. `Buffer == INSTANCE DoubleBuffer WITH ...` reads `served` from the
tables under the active names, once the journal says that their full is loaded (`Served`), and `prepared` from those of
staging, from the checkpoint of its full to the exchange (`Prepared`). It reads the journal and not `ws`: a crash is
then invisible, and so is the checkpoint that follows the exchange. `Exchange` is `Switch`; `FinishCutover`, retries and
restarts are stutters. `DoubleBufferKept` says that every behaviour of the watcher is one of `DoubleBuffer`.

### One import

`ParallelImport` is `insert_all_parallel` and, with `fanout`, `import_full_snapshot_fanout`; the two differ in
which sink's age is looked at first, in the raising of `cancelled` when `finish` fails, and in the metadata
written at the end. An append-vec is an account with a row in table 1 and, for some, in table 2: `raw_account`
and a hot table, or in the fan-out staging's and active's table. Two stand for a sink's four because only
the order of several open INSERTs matters.

| code (`clickhouse.rs`) | actions |
| --- | --- |
| the calling thread's loop: read, look at `cancelled`, `send_timeout` | `Skip`, `CheckBeforeSend`, `Send`, `SendDisconnected`, `DropTx` |
| the join loop and what follows it | `Join`, `AllJoined`, `WriteMetadata`, `WriteMetadataFails` |
| a worker's loop: flag, `recv_timeout`, idle flush, finish | `Start`, `CheckCancelled`, `Receive`, `Idle`, `Disconnected`, `Parsed` |
| its sinks: write, batch limit, age, permit, INSERT end | `Write`, `Pass`, `Due`, `Acquire`, `InsertDone` |
| failures | `InsertFails` (rows may be in the table all the same), `WriteFails`, `Dies` (no runtime, no client, a panic: nobody raises the flag) |

`wk[w].pc` is where a worker is, `table` the sink its loop over the sinks has come to, `io` whether an INSERT waits for
a permit or has one. Thresholds (rows, bytes, seconds) are nondeterministic: an INSERT may be finalized wherever
the code looks at one. `pending[w][t]` are the rows in the open INSERT, dropped when the worker returns an error.

`ImportContract` is what callers rely on, without threads: INSERTs add rows of the archive, none twice; the
import returns; a return with `ok` means every row is there, and nothing is inserted after it. After a failure it promises
nothing about rows still to come, since the join loop returns at the first failed worker. With
`Contract == INSTANCE ImportContract WITH ...`, `ContractKept` says that `ParallelImport` implements its safety
part step by step, and `ImportReturns` that the import returns.

`ImportRetry` composes it with the watcher's reaction to a failed fan-out: `_bak` is truncated and the import
repeated, while an INSERT that a worker of the old attempt had sent may still land.

### The hot tables

`HotState` has a `ledger` (what each address holds after each slot: nothing, or tokens of a (mint, owner) pair),
from which archives are derived, and the two tables an import maintains: `l2` (`hot_token_account_state`, versions of
accounts) and `l3` (`hot_wallet_token_balance`, the winning row of each pair). `kind` is the import: `full`
into an emptied group, `tail` (incremental), `bridge` (a full archive above active's watermark), `repair`
(`--clickhouse-close-tombstones`). The steps of an import, each durable at once:

| code (`clickhouse.rs`) | actions |
| --- | --- |
| `write_hot_token_account_row`, `writes_live_amount` | `WriteRows`, `RowsFail` (part of the rows are there) |
| `write_close_token_account_tombstones` | `WriteTombstones`, `TombstonesFail` (part of the batches) |
| `refresh_hot_indexes`, `refresh_wallet_balance_incremental` | `Refresh`, `RefreshFails` |
| the watcher's checkpoint of the watermark | `Checkpoint`, `CheckpointFails` |
| `--clickhouse-rebuild-hot`; ClickHouse's merges | `RebuildHot`, `Merge` |

`unseen`, `dropped` and `overtaken` are history: no guard reads them, they only name the exceptions of `StateExact`
and `BalancesExact`. Two facts come from outside the repository: a full archive has the newest version of
each non-empty account and nothing for closed ones, an incremental may also hold superseded versions (as Agave
writes them). A repair may name any archive, also one that ends beyond the watermark. A bridge by a full at or behind active's
watermark adds no row; that it sets the watermark back (finding 1) is in `SnapshotWatcher` and left out here. A repeated import takes the newest archive, so it reaches at least as far as the failed one.

## 3. Runs

The watcher runs use two physical groups, two generations and a rewind of 1.

| run | instance | checks |
| --- | --- | --- |
| `watcher` | fulls 1, 3; incrementals 1-4, 3-5; 2 mint sets; 3 files; crashes, stragglers | `TypeOK`, `WatermarkBacked`, `GenerationComplete`, `MintFilesExist`, `FrozenMintsHold`, `FullStartsClean`, `OneBakImport`, `MergesRun`, `JournalResumable`, `GenerationInv`, `AheadInv`, `ServingNeverRegresses`, `CutoverPromotesNewer`, `DoubleBufferKept` |
| `watcher_faults` | fulls 1, 2; incremental 2-3; 1 mint set; 3 files; crashes, stragglers, `--bootstrap`, lost state file, failing checkpoint | `Inv`, `MintFilesExist`, `FullStartsClean`, `OneBakImport`, `StageInv`, `ServingNeverRegresses` |
| `watcher_live` | fulls 1, 2; incrementals 1-2, 2-3; 1 mint set; 2 files; fairness | `GenerationServed` |
| `exchange` | six pairs, two generations, three new UUIDs for builds and repairs; fairness | `Inv`, `GenerationWhole`, `PairsNeverMoveBack`, `CutoverCompletes` |
| `import` | 2 workers, queue of 2, 1 permit, 5 files of which 3 can be delivered, the stream breaks or not, 2 failures; one of the three with a hot row; both functions, baseline and incremental; fairness | `TypeOK`, `ResultScheduleFree`, `Inv`, `ContractKept`, `ImportReturns`, `ThreadsEnd` |
| `hot_state` | 2 addresses, 2 hot pairs and a cold one, amounts 0 and 1, 3 slots, 2 failed imports | `TypeOK`, `StateExact`, `BalancesExact`, `RowsInv`, `BalanceInv` |
| `watermark_regression`, `persist_error`, `full_gap`, `late_exchange`, `import_stragglers`, `tombstone_retry` | see section 5 | one property each, which fails |

**Why these bounds.** Every branch of the loop depends on the order of at most an active watermark, a
staging watermark, a full slot and the ends of one incremental; the catalogues contain each order,
active ahead of the new full included. Two generations give two cutovers in a row (the group that
was active becomes `_bak` and is rebuilt). Three files are the two named by lanes and one being
written; a failing cleanup may use them up, and the step that needs a fourth waits. `watcher_live` has two, which makes
progress depend on the cleanup and is the stricter question. Two mint sets tell a
right set from a wrong one; `watcher_faults`, none of whose properties compares sets, has one. Deadlock checking is on: the process can always crash or start.

`WatermarkBacked`, `FrozenMintsHold`, `MergesRun` and `CutoverPromotesNewer` are checked without
operator faults. `--bootstrap` and a lost state file make the watermark a guess from table contents
(`main.rs` 1897, 1914), throw mint sets away and can interrupt a stop of merges or a cutover: with
them these four fail, and the code does not claim otherwise. `GenerationComplete` and
`JournalResumable` also assume that the checkpoint after a shared import does not fail (finding 2).

`exchange` has the real six pairs. Two generations make the tables change sides twice, and three UUIDs
allow two builds and a repair, or one build and two repairs, of which the second finds tables the first one
made. `CutoverCompletes` says that a repair during an interrupted cutover is the only thing that can keep
it from being finished; after one, every start exits with "cannot safely resume cutover".

`import`: with two workers one can fail, die or lag behind the other at every position, before or after it in join
order; three append-vecs fill the queue of two with the third in the calling thread's hand; one permit makes workers
wait for each other; two failures let a second thread fail while the first failure is being noticed. Some append-vecs have
a row in both tables, so that a worker can have two INSERTs open, and one has not. The
files include one that is not listed, one that is no append-vec and one at the watermark. Metadata
candidates tie on the slot and differ in source, so the order of recording would show.

`hot_state`: the first address has every history over three slots in which it stays in one hot pair with either
amount, is closed, becomes something else and returns, or in which it moves between the two hot pairs; the second is
another account of the first pair (never there, staying, or closed at the end). Three slots allow a baseline
and two further imports; the two failures may both hit one import or one each. The ledger is finite and no import is ever required,
so the system may stop: deadlock is not checked.

`BalancesExact` has named exceptions, each a limit that the code accepts or a finding: pairs of an address that
ended without a record in any archive (closed in a gap that only a full archive bridged), of an address that
changed pairs (the comment at `clickhouse.rs` 2307-2313), pairs whose tombstones were written by an import that failed before its refresh
(finding 6), and pairs refreshed by an archive older than their last row (a repair with an old incremental).

`FullStartsClean` has two parts. No import finds rows of an earlier one in its tables, finished or half done
(`NoResidue`); that is what the TRUNCATE on every retry and restart is for. And rows of stragglers are there only if their workers may
still be running in this process (`StrayOK`): the TRUNCATE removed those of every attempt before a restart. `OneBakImport` is
about the imports that the watcher counts on and the TRUNCATEs around them, from a build's first statement until the watcher has
handled its result; stragglers come on top of them, and no lock or phase in the code excludes them.

**Fairness** (`FairSpec`). In `TableExchange` an exited watcher is started again and is not interrupted
for ever at the same pair (strong fairness per pair). In `SnapshotWatcher` a stopped process is started again;
every thread that can step steps, and the loop handles each finished build, the failed ones too (`main.rs` 2014-2074); some
scan sees the whole directory, in active's part of a round as in the others (weak fairness). The code retries a failed shared import for ever
(`main.rs` 2177-2190); that an attempt some time succeeds, and that a round gets to dispatching staging
although active keeps finding work, is strong fairness. Crashes, failures and stragglers are never required and
never bounded; the premise `StaysUp` says that crashes stop in the end. `GenerationServed` assumes that published
archives stay and that each full is continued by an incremental.
`FullBridgesGap` fails under the same fairness and two more premises, that staging builds do not fail for ever
(`BuildsSucceed`) and that there is a free file name (`MintFilesFree`), so neither a failing import nor the bound on files is its
counterexample. With a `DispatchActive` that also takes a newer full when no incremental applies, as the README of the
repository describes it, TLC finds no counterexample (183,000 states).
In `ParallelImport` the calling thread and every worker are scheduled (weak fairness). That is enough because no wait
is unbounded: `send` and `recv` have timeouts, an INSERT ends at the latest by `INSERT_END_TIMEOUT_SECS`, with success
or failure, and a permit is released with it.

## 4. Proofs

`TableExchangeProofs` proves, for any number of pairs, any choice of rebuilt tables and any bounds:

- `ExchangeInvHolds`: `Spec => []Inv`;
- `ActiveIsWhole`: `Spec => []GenerationWhole`. With no cutover under way the active names serve exactly
  the generation the journal records;
- `NeverMovedBack`: `Spec => PairsNeverMoveBack`.

`GenerationWhole` alone is not inductive, since a promotion looks at no table. `StagingWhole` follows the
tables of the new generation by the UUIDs in the checkpoint, `AttemptOK` says that the pairs behind the
attempt carry those UUIDs under their active names and the others are as the attempt found them, and
`IdsDistinct` that a rebuilt table never gets a UUID the checkpoint names.

### The watcher

The proofs hold for every catalogue of archives, every set of mint sets and file names and every rewind.
They stand on four inductive invariants, each on top of the one before; a lemma per action shows that it is
kept, and edits of a lane, of a `WatcherState` or of a table group have lemmas of their own. TLC checks each
invariant on a run as well.

`SnapshotWatcherProofs`, for every choice of `Faults`, with `Inv == TypeOK /\ MintFilesKept /\ ControlOK`:

- `InvHolds`: `Spec => []Inv`;
- `TypeCorrect`: `Spec => []TypeOK`;
- `MintFilesNeverLost`: `Spec => []MintFilesExist`. A journal that names a missing mint file would
  stop every later start (`load_frozen_hot_mints`), so this is what recovery stands on.

`MintFilesExist` is not inductive. It survives a cleanup only if the file just written is on disk and
not yet removable: `MintFilesKept` adds that `fresh` is set exactly between a write and its
checkpoint, and that outside startup a disabled lane names no file, since cleanup removes a disabled
lane's file and a later phase change would otherwise revive the path. `ControlOK` adds what each thread
holds at each point (the archive being imported is a full one where the code takes its slot as a full
slot, mints are there when they are written).

`WatcherStagesProofs`, for every choice of `Faults`, with `StageInv`:

- `StageInvHolds`: `Spec => []StageInv`;
- `BakImportsExclude`: `Spec => []OneBakImport`;
- `FullImportsStartClean`: `Spec => []FullStartsClean`;
- `ReadersKeepTheirData`: `Spec => ServingNeverRegresses` (an action property).

The second says that of the imports into `_bak` the watcher counts on, with the TRUNCATEs around them, at most one is under way,
and none between the cutover checkpoint and its promotion; the third that a full import finds no row of an earlier import in
its tables, and rows of stragglers only while workers of this process may be writing them. Neither denies finding 5. They
follow from no lock: they follow from the phases. `StageInv` therefore ties
each position of the watcher and of its staging threads to the phases in `ws` (`StageOK`: a build exists only in
`full_loading` and `full_merging`, a staging incremental only in `incremental_loading`, the fan-out only with a
shared checkpoint), the two lanes of a state to each other (`StateOK`: both are in `cutover_pending` or neither),
and between a TRUNCATE and the first row of a full import it remembers that they hold no row of an import (`EmptyOK`). `StrayOK` is
kept on top of it (`StrayStep`): a group becomes the target of a full import only by a TRUNCATE in the same process or
with the import still going on, and `stray` grows only where `stragglers` allows it.

`WatcherGenerationProofs`, with `GenerationInv` and the hypothesis `Faults = {}`:

- `GenerationInvHolds`: `Spec => []GenerationInv`;
- `WatermarksAreBacked`, `GenerationsAreComplete`, `FrozenMintsAreThose`, `MergesKeepRunning`,
  `JournalsAreResumable`: `Spec => []P` for `WatermarkBacked`, `GenerationComplete`, `FrozenMintsHold`,
  `MergesRun` and `JournalResumable`;
- `CutoversPromoteNewer`: `Spec => CutoverPromotesNewer` (an action property).

`Faults = {}` excludes `--bootstrap`, a deleted state file and the failing checkpoint of finding 2, no crash and
no failure of an import, a TRUNCATE or any other checkpoint: with those three the properties fail, as section 3
says. None of the properties is inductive. A watermark is backed after a checkpoint only
because the import before it started at or below the watermark and wrote the group the checkpoint speaks of
(`ActiveWork`, `IncrWork`); a mint set is the right one after a cutover only because the memory of the loop, the
file and the rows of the group agreed all along (`ActiveMemory`, `StagingTables`); a repeated exchange is harmless
because the memory already holds the promoted set when `serving` is the group the checkpoint names
(`ActiveMemory`, `LanesOK`). `GenerationInv` says for the journal and for memory what each lane's phase promises
about its tables (`TablesOK`), and for every import under way what it has done so far (`WorkOK`). Two of its clauses were
found by the proof: a lane that waits for its first full names none, and active is in `full_merging` only while
staging is disabled.

`WatcherBufferProofs`, under the same hypothesis:

- `AheadHolds`: `Spec => []AheadInv`;
- `ImplementsDoubleBuffer`: `Spec => DoubleBufferKept`. Every step of the watcher is one step of `DoubleBuffer`,
  or changes nothing that readers see.

`Switch` asks that the prepared generation has gained changes since its full. The code compares no slots when it
exchanges the groups; it follows from what `cutover_pending` means. `AheadInv` says so: a loaded staging lane is never
behind its full, it is ahead of it once a cutover is due, and the incremental it is loading ends beyond its
watermark, also when a restart takes another archive than the one that had begun. The proof then goes over the steps
by what they do to the buffer. Rows come into one group (`WriteMaps`): into the active tables, which only gain changes
(`ActiveMaps`), into those of staging while it is prepared (`IncrMaps`), or into tables that nobody has or waits for
(`BakFills`, `BootstrapMaps`). A checkpoint moves a lane on within its part of the buffer (`LaneCheckpoints`),
opens it (`OpenMaps`), or makes staging whole (`PrepareMaps`). `ExchangeMaps` is the switch, and `FinishCutoverMaps`
says that the promotion, in which the two lanes trade places, is invisible because the groups have traded names before
it. With `--bootstrap` the refinement fails, since it throws a prepared generation away.

### An import

`ParallelImportProofs`, for any number of workers and permits, any archive, set of breaks, watermark, hot set, number of
failures and metadata, with the inductive invariant `Inv`:

- `InvHolds`: `Spec => []Inv`;
- `TypeCorrect`: `Spec => []TypeOK`; the queue never exceeds its bound and permits are never negative;
- `ScheduleFree`: `Spec => []ResultScheduleFree`;
- `ImplementsContract`: `Spec => ContractKept`. Every step of the threads is a step of the contract or changes
  nothing the contract speaks of.

`Inv` follows every append-vec: one that has been sent is in the queue, with exactly one worker, or with
its row pending in an INSERT or in a table (`OwnersOK`, `PendingOK`, `TableOK`), unless the worker that had it failed;
and success is impossible after that (`KeptOK`, `ProgressOK`). A worker that ended well has nothing pending, so when
all have, the rows are those of the archive. `MetadataOK` says that a patch is the newest of the candidates recorded so
far; since the order on candidates is total, that is one value, whatever the schedule.

The proof changed two definitions: the arms of a `CASE` in `After` and `Outcome` overlapped, which TLC resolves by
their order and TLA+ leaves open. They are exclusive now, in the order of the code.

### The hot tables

`HotStateProofs`, for every ledger, every finite set of addresses, every set of pairs and amounts, any number of slots
and of failures:

- `RowsInvHolds`: `Spec => []RowsInv`;
- `StateIsExact`: `Spec => []StateExact`.

`StateExact` speaks of the moments when imports have caught up. `RowsInv` holds at every step: each version in L2
says what the ledger says at its slot (`RowTrue`), however often it was written; what an address holds at the
watermark is there (`Present`), and a live version that is out of date has been superseded (`Covered`), whatever
failed attempts have left beyond the watermark. An import establishes both for the slot of its archive, first for
addresses that are hot there (`HotUpToDate`), then for those of which it has a record that they ended
(`EndedCovered`). The last change before a slot and the newest row of an address exist because a set of naturals has a
least element; that is taken from the library's theorems on well-founded relations.

`HotBalanceProofs`, under the same hypotheses:

- `BalanceInvHolds`: `Spec => []BalanceInv`;
- `TablesTyped`: `Spec => []TypeOK`; a balance is a natural number, being the sum of finitely many amounts;
- `BalancesAreExact`: `Spec => []BalancesExact`.

`BalancesExact` compares L3 with the ledger, two tables apart, and an import that fails may leave L3 behind L2 or ahead
of the watermark. `SyncOK` therefore compares L3 with L2 at every step, pair by pair: either they agree
(`InSync`), or L2 itself has a row of the pair that says why not (`Unsettled`): one beyond the watermark, which the
next import reads again, or one of an address whose end went unseen. The step that needs most is `Checkpoint`
(`UnsettledStays`): a pair with such a row that the import did not refresh keeps it, since the import would
otherwise have written a row, or a tombstone, of that pair (`RowsTraced`, `AffectedOK`). That the refresh takes the newest
rows among the affected pairs only is harmless unless the pair is `Mixed` (`SomePairs`). Where L3 and L2 agree,
`RowsAddUp` carries the sum over rows to the sum over addresses, each of which `ExactWhenCaughtUp` gives.

Sums are the library's recursive function over subsets. That this function exists, is unique, and may take its
elements in any order are lemmas of `HotBalanceProofs`, each shown by a smallest counterexample: of the
subsets of a finite set for which a claim fails, one has no proper subset for which it fails (`Smallest`).

### Assumptions, and what is only model-checked

The assumptions are the named ones of the modules, which TLC evaluates on the runs: archives have natural slots,
an incremental ends after its base; there is a worker and a permit; a ledger begins empty and has finitely many
addresses; and `None` is not a
value of any other kind (a slot, a file, a mint set, `"full"`, `"incremental"`, a token state, a balance).

Only model-checked: liveness (`GenerationServed`, `CutoverCompletes`, `ImportReturns`, `ThreadsEnd`), since TLAPS does
not reason about fairness. The properties of the runs in section 5 fail, and are counterexamples of TLC.

## 5. Findings

1. `watermark_regression`: a shared full load sets `active.max_slot` to the slot of the full even when
   active is ahead of it (`main.rs` 1789; generations are compared, not watermarks, at 2352). The data
   does not regress, the watermark does, against the comment at 1098 and
   `docs/hot-index-double-buffer.md` line 66; active then imports again what it has.
2. `persist_error`: a failure of the checkpoint at `main.rs` 1796 is handled as a failed import: `_bak` is
   truncated while memory (and perhaps the journal) says `full_merging`, which by
   `docs/hot-index-double-buffer.md` line 107 means that everything is committed.
3. `full_gap`: `README.md` lines 111-116 say that a full bridges a missing incremental base. The code
   takes a full only while staging is disabled (2355). In the run the shared load of full 1 is committed, its merges settle, and
   staging is `ready` and waits for its first incremental, which never comes; full 2 and the incremental 2-3 lie in the directory,
   no incremental applies to either lane, and the watcher polls for ever.
4. `late_exchange`: UUIDs are read once per attempt (`clickhouse.rs` 2632) and pairs then exchanged by name.
   If the server executes the EXCHANGE of a dead client after that, the new attempt moves the pair back,
   against `docs/hot-index-double-buffer.md` line 116, and promotes a mixture. It takes a restart within
   the time a statement waits in the server.
5. `import_stragglers`: the fan-out returns at the first failed worker (`clickhouse.rs` 1682) and leaves the others
   running; the watcher truncates `_bak` and repeats the import. An INSERT of the old attempt that lands after the
   TRUNCATE puts a row into the new baseline twice, and the balances of a new baseline are summed without `FINAL`
   (2150-2161) on the ground that staging is "a freshly cleared full baseline" (4128).
6. `tombstone_retry`: the pairs to refresh for closed accounts are found by reading live rows (`clickhouse.rs`
   4849-4852). When an import fails between its tombstones and its refresh, the repetition finds no live row,
   and L3 keeps the balance of the closed account, against `docs/hot-index-double-buffer.md` line 109. A later change of the
   pair or `--clickhouse-rebuild-hot` mends it.

## 6. Not modelled

- The probe loop of the merge barrier (two equal samples, two minutes apart): a wait that ends. Its outcome
  depends on a clock and on server counters alone.
- Byte formats: Token-2022 TLV, Metaplex metadata, the append-vec layout, bincode of the manifest. Pure
  decoding without state, unit-tested in the source; the search for the manifest in the tar stream likewise.
- The reader of unpacked snapshots (a directory instead of a stream) and `insert_all_sequential` (one worker's
  steps in program order).
- Validation of the schema (a read-only comparison), `process_single_snapshot` (one import without a
  journal), arguments, progress bars, logging, the auxiliary binaries.

## 7. Plan

1. (done) `SnapshotWatcher`, `TableExchange`.
2. (done) `ParallelImport` with `ImportContract` and `ImportRetry`, `MetadataPatches`, `ArchiveStream`.
3. (done) `HotState`.
4. (done) Proofs about the watcher: three invariants and the properties that follow.
5. (done) Proofs about imports: the threads implement the safety part of `ImportContract`; metadata is
   independent of the schedule.
6. (done) `HotState` for every ledger: L2, sums over finite sets, L3.
7. (done) An abstract double buffer (a generation in service and one in preparation) that `SnapshotWatcher`
   implements, with its proof.

---------------------------- MODULE ParallelImport ----------------------------
(***************************************************************************)
(* One import by several threads: insert_all_parallel and, when `fanout',  *)
(* import_full_snapshot_fanout.  The calling thread reads append-vecs from *)
(* the archive and offers them through a bounded queue; each worker parses *)
(* them into INSERTs of its own that stay open over many append-vecs, and  *)
(* finalizes an INSERT when it is large, old, or when there is nothing to  *)
(* do.  At most `Permits' INSERTs are finalized at a time.  The first      *)
(* failure raises `cancelled'; the caller joins the workers in the order   *)
(* in which it spawned them and returns at the first one that failed.      *)
(*                                                                         *)
(* An append-vec is one account with a row in table 1 and, for some, in    *)
(* table 2.  In insert_all_parallel these are raw_account and a hot table  *)
(* of the group; in the fan-out they are staging's and active's table, and *)
(* active takes the append-vecs newer than active_resume_slot.             *)
(***************************************************************************)
EXTENDS MetadataPatches, ArchiveStream, FiniteSets

CONSTANTS
    Workers,     \* number of workers
    Permits,     \* size of the semaphore: min(workers, MAX_INSERT_CONCURRENCY)
    Breaks,      \* where the stream may break, Len(Entries) + 1: it does not
    Watermark,   \* max_slot of the group, of active's in a fan-out
    Hot,         \* append-vecs with an account that is hot
    FieldsOf,    \* metadata fields an append-vec holds for the mint, or None
    ExtensionsOf,\* the mint's extensions it holds, or None
    Previous,    \* the mint's metadata row before the import, or None
    MaxFaults    \* bound: failures of ClickHouse or of a thread

Tables == 1 .. 2
Threads == 1 .. Workers
Vecs == 1 .. Len(Entries)

ASSUME ImportAssumption ==
    /\ Workers \in Nat \ {0, 1}
    /\ Permits \in 1 .. Workers
    /\ Breaks \subseteq 1 .. Len(Entries) + 1
    /\ Watermark \in Nat
    /\ Hot \subseteq Vecs
    /\ FieldsOf \in [Vecs -> Fields \cup {None}]
    /\ ExtensionsOf \in [Vecs -> Extensions \cup {None}]
    /\ \A v \in Vecs :  \* candidates carry the slot of their append-vec
          /\ FieldsOf[v] # None => FieldsOf[v].slot = Entries[v].slot
          /\ ExtensionsOf[v] # None => ExtensionsOf[v].slot = Entries[v].slot
    /\ Previous \in MetadataRows \cup {None}
    /\ MaxFaults \in Nat

VARIABLES
    fanout,     \* which of the two functions runs
    preserve,   \* insert_all_parallel imports an incremental
    broken,     \* the file at which the stream breaks
    main,       \* position of the calling thread
    next,       \* the file it reads next
    producerError,
    queue,      \* append-vecs offered and not taken
    cancelled,  \* the shared flag
    joined,     \* workers joined so far
    totals,     \* append-vecs in the merged statistics
    wk,         \* wk[w]: position, append-vec, table and INSERT of worker w
    pending,    \* pending[w][t]: rows in the open INSERT
    parsed,     \* parsed[w]: append-vecs in the worker's statistics
    rows,       \* rows[t][v]: copies of v's row in table t
    patch,      \* patch[t]: metadata patch of the group that table t stands for
    meta,       \* meta[t]: the mint's row in that group's raw_token_metadata
    faults

threadVars == <<wk, pending, parsed, rows, patch, cancelled>>
mainVars == <<main, next, producerError, joined, totals, meta>>
mode == <<fanout, preserve, broken>>
vars == <<mode, mainVars, queue, threadVars, faults>>

(* WatchedSnapshot::new_loader: a baseline and a shared full load start at  *)
(* slot 0, an incremental at the watermark.                                 *)
Minimum == IF preserve THEN Watermark ELSE 0

Readable == Delivered(Minimum, broken)

(* Append-vecs with a row for table 2. *)
Second == IF fanout THEN {v \in Vecs : Entries[v].slot > Watermark} ELSE Hot

Target(v) == IF v \in Second THEN {1, 2} ELSE {1}

(* io: "no" INSERT is being finalized, it waits for a permit, or has one. *)
At(pc, v, t) == [pc |-> pc, vec |-> v, table |-> t, io |-> "no"]

WorkerPcs == {"start", "top", "recv", "age", "write", "flush", "drained", "end", "ok", "err"}
MainPcs == {"check", "send", "join", "metaActive", "meta", "ok", "failed"}

(* The types; the queue never holds more than the channel's bound. *)
TypeOK ==
    /\ fanout \in BOOLEAN
    /\ preserve \in BOOLEAN
    /\ broken \in Breaks
    /\ main \in MainPcs
    /\ next \in 1 .. Len(Entries) + 1
    /\ producerError \in BOOLEAN
    /\ queue \in Seq(Vecs) /\ Len(queue) <= Workers
    /\ cancelled \in BOOLEAN
    /\ joined \in 0 .. Workers
    /\ totals \subseteq Vecs
    /\ wk \in [Threads -> [pc : WorkerPcs, vec : Vecs \cup {None},
                           table : 1 .. 3, io : {"no", "wait", "insert"}]]
    /\ pending \in [Threads -> [Tables -> SUBSET Vecs]]
    /\ parsed \in [Threads -> SUBSET Vecs]
    /\ rows \in [Tables -> [Vecs -> Nat]]
    /\ patch \in [Tables -> Patches]
    /\ meta \in [Tables -> MetadataRows \cup {None}]
    /\ faults \in 0 .. MaxFaults

Init ==
    /\ fanout \in BOOLEAN
    /\ preserve \in IF fanout THEN {FALSE} ELSE BOOLEAN
    /\ broken \in Breaks
    /\ main = "check"
    /\ next = 1
    /\ producerError = FALSE
    /\ queue = <<>>
    /\ cancelled = FALSE
    /\ joined = 0
    /\ totals = {}
    /\ wk = [w \in Threads |-> At("start", None, 1)]
    /\ pending = [w \in Threads |-> [t \in Tables |-> {}]]
    /\ parsed = [w \in Threads |-> {}]
    /\ rows = [t \in Tables |-> [v \in Vecs |-> 0]]
    /\ patch = [t \in Tables |-> EmptyPatch]
    /\ meta = [t \in Tables |-> Previous]
    /\ faults = 0

Ended(w) == wk[w].pc \in {"ok", "err"}

\* Mutant of TxDropped: the calling thread keeps its sender.
TxKept == FALSE

(* tx is dropped when the calling thread leaves its loop. *)
TxDropped == main \notin {"check", "send"}

----------------------------------------------------------------------------
(* The worker. *)

Goto(w, k) == wk' = [wk EXCEPT ![w] = k]

(* The sink whose age is checked first: active's in a fan-out. *)
AgeFirst == IF fanout THEN 2 ELSE 1

(* Where a loop over the tables goes on after its current table. *)
After(k) ==
    CASE k.pc = "age" /\ k.table = AgeFirst        -> At("age", k.vec, 3 - AgeFirst)
      [] k.pc = "age" /\ k.table # AgeFirst        -> At("write", k.vec, 1)
      [] k.pc = "write"                            -> At("write", k.vec, k.table + 1)
      [] k.pc \in {"flush", "end"} /\ k.table = 1  -> At(k.pc, k.vec, 2)
      [] k.pc = "flush" /\ k.table = 2             -> At("top", None, 1)
      [] k.pc = "end" /\ k.table = 2               -> At("ok", None, 1)

(* The worker returns an error: its sinks are dropped with what is pending. *)
Return(w) ==
    /\ Goto(w, At("err", None, 1))
    /\ pending' = [pending EXCEPT ![w] = [t \in Tables |-> {}]]

Start(w) ==
    /\ wk[w].pc = "start"
    /\ Goto(w, At("top", None, 1))
    /\ UNCHANGED <<pending, parsed, rows, patch, cancelled, faults>>

(* No runtime, no client, or a panic: nobody sets `cancelled'. *)
Dies(w) ==
    /\ ~Ended(w) /\ wk[w].io = "no"
    /\ faults < MaxFaults
    /\ faults' = faults + 1
    /\ Return(w)
    /\ UNCHANGED <<parsed, rows, patch, cancelled>>

(* The flag is read before a wait of up to IDLE_INSERT_FLUSH_INTERVAL and   *)
(* once more before the sink is ended.                                      *)
CheckCancelled(w) ==
    /\ wk[w].pc \in {"top", "drained"}
    /\ \/ /\ cancelled
          /\ Return(w)
       \/ /\ ~cancelled
          /\ Goto(w, At(IF wk[w].pc = "top" THEN "recv" ELSE "end", None, 1))
          /\ UNCHANGED pending
    /\ UNCHANGED <<parsed, rows, patch, cancelled, faults>>

Receive(w) ==
    /\ wk[w].pc = "recv"
    /\ queue # <<>>
    /\ Goto(w, At("age", Head(queue), AgeFirst))
    /\ queue' = Tail(queue)
    /\ UNCHANGED <<pending, parsed, rows, patch, cancelled, faults>>

(* recv_timeout: flush what is open, or look at the flag again. *)
Idle(w) ==
    /\ wk[w].pc = "recv"
    /\ queue = <<>>
    /\ ~TxDropped
    /\ Goto(w, IF \E t \in Tables : pending[w][t] # {} THEN At("flush", None, 1)
               ELSE At("top", None, 1))
    /\ UNCHANGED <<pending, parsed, rows, patch, cancelled, faults>>

Disconnected(w) ==
    /\ wk[w].pc = "recv"
    /\ queue = <<>>
    /\ TxDropped
    /\ Goto(w, At("drained", None, 1))
    /\ UNCHANGED <<pending, parsed, rows, patch, cancelled, faults>>

(* A table with nothing to finalize, or with an INSERT younger than         *)
(* MAX_OPEN_INSERT_AGE (force_aged_inserter).                               *)
Pass(w) ==
    LET k == wk[w] IN
    /\ k.pc \in {"age", "flush", "end"} /\ k.io = "no"
    /\ k.pc # "age" => pending[w][k.table] = {}
    /\ Goto(w, After(k))
    /\ UNCHANGED <<pending, parsed, rows, patch, cancelled, faults>>

(* An INSERT is to be finalized and waits for a permit. *)
Due(w) ==
    LET k == wk[w] IN
    /\ k.pc \in {"age", "flush", "end"} /\ k.io = "no"
    /\ pending[w][k.table] # {}
    /\ Goto(w, [k EXCEPT !.io = "wait"])
    /\ UNCHANGED <<pending, parsed, rows, patch, cancelled, faults>>

(* The row is written into the open INSERT; check_batch_limit may find the  *)
(* INSERT large enough to be finalized.                                     *)
Write(w) ==
    LET k == wk[w] IN
    /\ k.pc = "write" /\ k.table \in Tables /\ k.io = "no"
    /\ \/ /\ k.table \in Target(k.vec)
          /\ pending' = [pending EXCEPT ![w][k.table] = @ \cup {k.vec}]
          /\ \/ Goto(w, After(k))
             \/ Goto(w, [k EXCEPT !.io = "wait"])
       \/ /\ k.table \notin Target(k.vec)
          /\ Goto(w, After(k))
          /\ UNCHANGED pending
    /\ UNCHANGED <<parsed, rows, patch, cancelled, faults>>

(* The append-vec is done: its candidates are recorded in the shared        *)
(* patches, those of active's group only when active takes part.            *)
Parsed(w) ==
    LET v == wk[w].vec IN
    /\ wk[w].pc = "write" /\ wk[w].table = 3
    /\ patch' = [t \in Tables |->
                   IF t = 1 \/ (fanout /\ v \in Second)
                   THEN RecordExtensions(RecordFields(patch[t], FieldsOf[v]), ExtensionsOf[v])
                   ELSE patch[t]]
    /\ parsed' = [parsed EXCEPT ![w] = @ \cup {v}]
    /\ Goto(w, At("top", None, 1))
    /\ UNCHANGED <<pending, rows, cancelled, faults>>

(* acquire_insert_permit *)
Acquire(w) ==
    /\ wk[w].io = "wait"
    /\ Cardinality({u \in Threads : wk[u].io = "insert"}) < Permits
    /\ Goto(w, [wk[w] EXCEPT !.io = "insert"])
    /\ UNCHANGED <<pending, parsed, rows, patch, cancelled, faults>>

Committed(w) ==
    LET t == wk[w].table IN
    [rows EXCEPT ![t] = [v \in Vecs |-> IF v \in pending[w][t] THEN @[v] + 1 ELSE @[v]]]

\* Mutant of InsertDone: the rows stay in the inserter and are sent again.
InsertDoneKeepsRows(w) ==
    /\ wk[w].io = "insert"
    /\ rows' = Committed(w)
    /\ Goto(w, After(wk[w]))
    /\ UNCHANGED <<pending, parsed, patch, cancelled, faults>>

(* The server has confirmed the INSERT; the permit is dropped. *)
InsertDone(w) ==
    /\ wk[w].io = "insert"
    /\ rows' = Committed(w)
    /\ pending' = [pending EXCEPT ![w][wk[w].table] = {}]
    /\ Goto(w, After(wk[w]))
    /\ UNCHANGED <<parsed, patch, cancelled, faults>>

(* The finalization fails; the server may have taken the rows all the same. *)
(* In the fan-out a failing finish() does not set `cancelled'.              *)
InsertFails(w) ==
    /\ wk[w].io = "insert"
    /\ faults < MaxFaults
    /\ faults' = faults + 1
    /\ rows' \in {rows, Committed(w)}
    /\ cancelled' = (cancelled \/ ~(fanout /\ wk[w].pc = "end"))
    /\ Return(w)
    /\ UNCHANGED <<parsed, patch>>

(* A row cannot be written into the open INSERT. *)
WriteFails(w) ==
    /\ wk[w].pc = "write" /\ wk[w].table \in Tables /\ wk[w].io = "no"
    /\ faults < MaxFaults
    /\ faults' = faults + 1
    /\ cancelled' = TRUE
    /\ Return(w)
    /\ UNCHANGED <<parsed, rows, patch>>

WorkerStep(w) ==
    /\ \/ Start(w) \/ Dies(w) \/ CheckCancelled(w) \/ Idle(w) \/ Disconnected(w)
       \/ Pass(w) \/ Due(w) \/ Write(w) \/ Parsed(w)
       \/ Acquire(w) \/ InsertDone(w) \/ InsertFails(w) \/ WriteFails(w)
    /\ UNCHANGED <<mode, mainVars, queue>>

----------------------------------------------------------------------------
(* The calling thread. *)

NextFile == Outcome(next, Minimum, broken)

(* The iterator passes over a file or returned an error: warn and go on. *)
Skip ==
    /\ main = "check" /\ NextFile \in {"pass", "error"}
    /\ next' = next + 1
    /\ UNCHANGED <<main, producerError, joined, totals, meta, queue, faults>>

Abandon == main' = "join" /\ producerError' = TRUE

(* The flag is read, and then the queue gets 100 ms to take the append-vec. *)
CheckBeforeSend ==
    /\ main = "check" /\ NextFile = "vec"
    /\ \/ cancelled /\ Abandon
       \/ ~cancelled /\ main' = "send" /\ UNCHANGED producerError
    /\ UNCHANGED <<next, joined, totals, meta, queue, faults>>

\* Mutant of Send: an unbounded channel.
SendUnbounded ==
    /\ main = "send"
    /\ \E w \in Threads : ~Ended(w)
    /\ queue' = Append(queue, next)
    /\ next' = next + 1
    /\ main' = "check"
    /\ UNCHANGED <<producerError, joined, totals, meta, faults>>

Send ==
    /\ main = "send"
    /\ \E w \in Threads : ~Ended(w)
    /\ \/ /\ Len(queue) < Workers
          /\ queue' = Append(queue, next)
          /\ next' = next + 1
       \/ /\ Len(queue) = Workers  \* timeout: look at the flag again
          /\ UNCHANGED <<queue, next>>
    /\ main' = "check"
    /\ UNCHANGED <<producerError, joined, totals, meta, faults>>

(* Every receiver is gone. *)
SendDisconnected ==
    /\ main = "send"
    /\ \A w \in Threads : Ended(w)
    /\ Abandon
    /\ UNCHANGED <<next, joined, totals, meta, queue, faults>>

DropTx ==
    /\ main = "check" /\ NextFile = "end"
    /\ main' = "join"
    /\ UNCHANGED <<next, producerError, joined, totals, meta, queue, faults>>

(* handle.join()? in spawn order: the first error returns and leaves the    *)
(* workers behind it running.                                               *)
Join ==
    /\ main = "join" /\ joined < Workers
    /\ Ended(joined + 1)
    /\ IF wk[joined + 1].pc = "ok"
       THEN joined' = joined + 1 /\ totals' = totals \cup parsed[joined + 1] /\ UNCHANGED main
       ELSE main' = "failed" /\ UNCHANGED <<joined, totals>>
    /\ UNCHANGED <<next, producerError, meta, queue, faults>>

AllJoined ==
    /\ main = "join" /\ joined = Workers
    /\ main' = IF producerError THEN "failed" ELSE IF fanout THEN "metaActive" ELSE "meta"
    /\ UNCHANGED <<next, producerError, joined, totals, meta, queue, faults>>

(* The merged metadata: active's first in a fan-out, preserving its row. *)
MetaWritten ==
    IF main = "metaActive" THEN [meta EXCEPT ![2] = WriteMerged(patch[2], @, TRUE)]
    ELSE [meta EXCEPT ![1] = WriteMerged(patch[1], @, preserve)]

WriteMetadata ==
    /\ main \in {"metaActive", "meta"}
    /\ meta' = MetaWritten
    /\ main' = IF main = "metaActive" THEN "meta" ELSE "ok"
    /\ UNCHANGED <<next, producerError, joined, totals, queue, faults>>

(* An INSERT that is reported as failed may have landed. *)
WriteMetadataFails ==
    /\ main \in {"metaActive", "meta"}
    /\ faults < MaxFaults
    /\ faults' = faults + 1
    /\ meta' \in {meta, MetaWritten}
    /\ main' = "failed"
    /\ UNCHANGED <<next, producerError, joined, totals, queue>>

MainStep ==
    /\ \/ Skip \/ CheckBeforeSend \/ Send \/ SendDisconnected \/ DropTx
       \/ Join \/ AllJoined \/ WriteMetadata \/ WriteMetadataFails
    /\ UNCHANGED <<mode, threadVars>>

Returned == main \in {"ok", "failed"}

(* The import has returned and no thread of it is left. *)
Terminated == Returned /\ (\A w \in Threads : Ended(w)) /\ UNCHANGED vars

ReceiveStep(w) == Receive(w) /\ UNCHANGED <<mode, mainVars>>

Next ==
    \/ MainStep
    \/ \E w \in Threads : WorkerStep(w) \/ ReceiveStep(w)
    \/ Terminated

(* Every thread is scheduled; an INSERT ends, at the latest by its timeout. *)
Spec ==
    /\ Init /\ [][Next]_vars
    /\ WF_vars(MainStep)
    /\ \A w \in Threads : WF_vars(WorkerStep(w) \/ ReceiveStep(w))

----------------------------------------------------------------------------
(* Properties. *)

ArchiveRows == {r \in Tables \X Readable : r[1] \in Target(r[2])}

Contract == INSTANCE ImportContract WITH
    Rows <- Tables \X Vecs,
    expected <- ArchiveRows,
    status <- IF Returned THEN main ELSE "running",
    landed <- [r \in Tables \X Vecs |-> rows[r[1]][r[2]]]

(***************************************************************************)
(* The threads keep the import's contract: no row of the archive is        *)
(* inserted twice, whichever worker takes its append-vec and however its   *)
(* INSERTs are cut, and none that is not in it; and the import returns Ok  *)
(* only when every row of every append-vec that the reader delivered has   *)
(* been confirmed and no worker can insert any more.  What the reader      *)
(* reported as an error, and what lies behind the point where the stream   *)
(* broke, is not part of it.                                               *)
(***************************************************************************)
ContractKept == Contract!Safety

(***************************************************************************)
(* And it returns, also when a worker dies while the queue is full, when   *)
(* all of them do, and when an INSERT fails (send_timeout, recv_timeout,   *)
(* join).                                                                  *)
(***************************************************************************)
ImportReturns == Contract!Returns

(* The newest of a set of candidates: the reference for the shared patches. *)
NewestFields(vs) ==
    LET cs == {FieldsOf[v] : v \in vs} \ {None}
    IN  IF cs = {} THEN None ELSE CHOOSE c \in cs : \A d \in cs : d = c \/ NewerFields(c, d)

NewestExtensions(vs) ==
    LET cs == {ExtensionsOf[v] : v \in vs} \ {None}
    IN  IF cs = {} THEN None ELSE CHOOSE c \in cs : \A d \in cs : d = c \/ NewerExtensions(c, d)

ReferenceRow(vs, keep) ==
    WriteMerged([fields |-> NewestFields(vs), extensions |-> NewestExtensions(vs)], Previous, keep)

(***************************************************************************)
(* The result does not depend on the schedule: when the import succeeds,   *)
(* the merged statistics (the close candidates and affected pairs that the *)
(* tombstones and the refresh work from) cover every readable append-vec,  *)
(* and the metadata row of each group has the newest fields and the newest *)
(* extensions of what the group was given, over the row it had if that is  *)
(* to be preserved.                                                        *)
(***************************************************************************)
ResultScheduleFree ==
    main = "ok" =>
        /\ totals = Readable
        /\ meta[1] = ReferenceRow(Readable, preserve)
        /\ fanout => meta[2] = ReferenceRow(Readable \cap Second, TRUE)

(***************************************************************************)
(* No thread is left behind for ever: every worker ends, those too that a  *)
(* failed import did not join, so an INSERT permit is never lost.          *)
(***************************************************************************)
ThreadsEnd == <>(\A w \in Threads : Ended(w))

----------------------------------------------------------------------------
(* The inductive invariant behind the safety properties. *)

(* Append-vecs the calling thread has sent, those nobody has taken yet, and *)
(* those that a worker has or had in its hands.                             *)
Sent == {v \in Readable : v < next}
Queued == {queue[i] : i \in 1 .. Len(queue)}
Held(w) == parsed[w] \cup ({wk[w].vec} \ {None})

(* Worker w has written v's row for table t into an INSERT. *)
Wrote(w, v, t) ==
    \/ v \in parsed[w]
    \/ /\ wk[w].vec = v /\ wk[w].pc = "write"
       /\ t < wk[w].table \/ (t = wk[w].table /\ wk[w].io # "no")

(* What a worker's position says about what it holds. *)
WorkerOK(w) ==
    LET k == wk[w] IN
    /\ k.vec # None <=> k.pc \in {"age", "write"}
    /\ k.pc # "write" => k.table \in Tables
    /\ k.io # "no" => k.pc \in {"age", "write", "flush", "end"} /\ k.table \in Tables
    /\ k.pc \in {"ok", "err"} => \A t \in Tables : pending[w][t] = {}
    /\ k.pc = "end" => \A t \in Tables : t < k.table => pending[w][t] = {}
    /\ k.pc \in {"drained", "end", "ok"} => queue = <<>> /\ TxDropped

(* An append-vec is in one place at most: queued once, or with one worker. *)
OwnersOK ==
    /\ \A i, j \in 1 .. Len(queue) : queue[i] = queue[j] => i = j
    /\ Queued \subseteq Sent
    /\ \A w \in Threads : Held(w) \subseteq Sent \ Queued /\ wk[w].vec \notin parsed[w]
    /\ \A w, u \in Threads : w # u => Held(w) \cap Held(u) = {}

(* A row in an open INSERT was written by its worker and is in no table; a  *)
(* row in a table is there once, and was written by whoever has its         *)
(* append-vec in hand; and what a worker wrote is in one of the two, unless *)
(* the worker failed and lost it.                                           *)
PendingOK ==
    \A w \in Threads, t \in Tables : \A v \in pending[w][t] :
        t \in Target(v) /\ Wrote(w, v, t) /\ rows[t][v] = 0
TableOK ==
    \A t \in Tables, v \in Vecs : rows[t][v] # 0 =>
        /\ rows[t][v] = 1 /\ t \in Target(v) /\ v \in Sent \ Queued
        /\ \A w \in Threads : wk[w].vec = v => Wrote(w, v, t)
KeptOK ==
    \A w \in Threads : wk[w].pc # "err" =>
        \A v \in Held(w) : \A t \in Target(v) :
            Wrote(w, v, t) => v \in pending[w][t] \/ rows[t][v] = 1

(* What was sent is somewhere unless a worker failed, and the calling       *)
(* thread's position says how far it has got.                               *)
ProgressOK ==
    /\ \A v \in Sent : \/ v \in Queued \/ \E w \in Threads : v \in Held(w)
                       \/ \E w \in Threads : wk[w].pc = "err"
    /\ main = "send" => next \in Readable
    /\ TxDropped /\ ~producerError => Readable \subseteq Sent
    /\ \A w \in 1 .. joined : wk[w].pc = "ok"
    /\ totals = UNION {parsed[w] : w \in 1 .. joined}
    /\ main \in {"metaActive", "meta", "ok"} => joined = Workers /\ ~producerError

(* f is the newest candidate of the append-vecs vs, None if they have none. *)
IsNewestFields(f, vs) ==
    IF f = None THEN \A v \in vs : FieldsOf[v] = None
    ELSE /\ \E v \in vs : FieldsOf[v] = f
         /\ \A v \in vs : FieldsOf[v] \in {None, f} \/ NewerFields(f, FieldsOf[v])

IsNewestExtensions(x, vs) ==
    IF x = None THEN \A v \in vs : ExtensionsOf[v] = None
    ELSE /\ \E v \in vs : ExtensionsOf[v] = x
         /\ \A v \in vs : ExtensionsOf[v] \in {None, x} \/ NewerExtensions(x, ExtensionsOf[v])

(* The append-vecs whose candidates are in the patch of table t's group. *)
RecordedFor(t) ==
    {v \in UNION {parsed[w] : w \in Threads} : t = 1 \/ (fanout /\ v \in Second)}

(* The shared patches are the newest candidates so far; then they are written. *)
MetadataOK ==
    /\ \A t \in Tables :
          /\ IsNewestFields(patch[t].fields, RecordedFor(t))
          /\ IsNewestExtensions(patch[t].extensions, RecordedFor(t))
    /\ main \in {"check", "send", "join", "metaActive"} => \A t \in Tables : meta[t] = Previous
    /\ main \in {"meta", "ok"} /\ fanout => meta[2] = WriteMerged(patch[2], Previous, TRUE)
    /\ main = "meta" => meta[1] = Previous
    /\ main = "ok" => meta[1] = WriteMerged(patch[1], Previous, preserve)
    /\ fanout => ~preserve

(***************************************************************************)
(* Together: where every append-vec and every one of its rows is, at every *)
(* point of every thread (insert_all_parallel and the worker's loop).      *)
(***************************************************************************)
Inv ==
    /\ TypeOK /\ \A w \in Threads : WorkerOK(w)
    /\ OwnersOK /\ PendingOK /\ TableOK /\ KeptOK /\ ProgressOK /\ MetadataOK
=============================================================================

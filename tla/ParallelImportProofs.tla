------------------------ MODULE ParallelImportProofs ------------------------
(***************************************************************************)
(* Proofs about ParallelImport, for any archive, any number of workers and *)
(* of permits, any metadata and any number of failures.                    *)
(***************************************************************************)
EXTENDS ParallelImport, SequenceTheorems, TLAPS

(* The sets of append-vecs, threads and tables, as the provers need them. *)
LEMMA SetFacts ==
    /\ Threads \subseteq Nat /\ Vecs \subseteq Nat /\ None \notin Vecs
    /\ Tables = {1, 2} /\ Readable \subseteq Vecs /\ Workers \in Nat \ {0, 1}
BY ImportAssumption, NoneAssumption, EntriesAssumption
   DEF Threads, Vecs, Tables, Readable, Delivered

(* What the archive gives and where its rows go does not change. *)
LEMMA ModeFixed ==
    ASSUME UNCHANGED mode
    PROVE  Readable' = Readable /\ Second' = Second
BY DEF mode, Readable, Minimum, Second

(* The tables an append-vec has rows for. *)
LEMMA TargetTables == \A v : Target(v) \subseteq Tables
BY DEF Target, Tables

(* The records that say where a worker is. *)
Positions == [pc : WorkerPcs, vec : Vecs \cup {None}, table : 1 .. 3,
              io : {"no", "wait", "insert"}]

(* The position a worker is sent to, field by field. *)
LEMMA AtFields ==
    ASSUME NEW pc \in WorkerPcs, NEW v \in Vecs \cup {None}, NEW t \in 1 .. 3
    PROVE  LET k == At(pc, v, t) IN
           k \in Positions /\ k.pc = pc /\ k.vec = v /\ k.table = t /\ k.io = "no"
BY DEF At, Positions

(* What the type invariant says of the parts that concern one worker. *)
LEMMA WorkerTypes ==
    ASSUME TypeOK, NEW w \in Threads
    PROVE  /\ wk[w] \in Positions /\ parsed[w] \subseteq Vecs /\ Held(w) \subseteq Vecs
           /\ \A t \in Tables : pending[w][t] \subseteq Vecs
           /\ wk[w].pc \in WorkerPcs /\ wk[w].vec \in Vecs \cup {None}
           /\ wk[w].table \in 1 .. 3 /\ wk[w].io \in {"no", "wait", "insert"}
BY DEF TypeOK, Positions, Held

(***************************************************************************)
(* A worker moves on without touching a row: its append-vec stays with it, *)
(* and so does what it has written of it.                                  *)
(***************************************************************************)
LEMMA MoveKeeps ==
    ASSUME Inv, NEW w \in Threads, NEW k \in Positions,
           wk' = [wk EXCEPT ![w] = k],
           k.vec = wk[w].vec, k.pc # "err", wk[w].pc # "err", wk[w].pc # "ok",
           \A v \in Vecs, t \in Tables : Wrote(w, v, t)' <=> Wrote(w, v, t),
           WorkerOK(w)',
           UNCHANGED <<mode, mainVars, queue, pending, parsed, rows, patch, cancelled>>,
           faults' \in 0 .. MaxFaults
    PROVE  Inv'
<1>. USE DEF mainVars
<1>1. TypeOK'
  BY DEF Inv, TypeOK, Positions, mode
<1>2. \A u \in Threads : WorkerOK(u)'
  <2>1. ASSUME NEW u \in Threads, u # w PROVE WorkerOK(u)'
    BY <2>1 DEF Inv, TypeOK, WorkerOK, TxDropped
  <2>. QED BY <2>1
<1>a. /\ \A u \in Threads : Held(u)' = Held(u) /\ wk'[u].vec = wk[u].vec
      /\ \A u \in Threads : u # w => wk'[u] = wk[u]
      /\ wk'[w].pc # "err"
  BY DEF Inv, TypeOK, Held
<1>b. \A u \in Threads, v \in Vecs, t \in Tables : Wrote(u, v, t)' <=> Wrote(u, v, t)
  BY <1>a DEF Inv, TypeOK, Wrote
<1>c. Sent' = Sent /\ Queued' = Queued /\ Second' = Second /\ Readable' = Readable
  BY ModeFixed DEF Sent, Queued
<1>3. OwnersOK'
  BY <1>a, <1>c DEF Inv, TypeOK, OwnersOK
<1>4. PendingOK'
  <2>. SUFFICES ASSUME NEW u \in Threads, NEW t \in Tables, NEW v \in pending'[u][t]
                PROVE  (t \in Target(v) /\ Wrote(u, v, t) /\ rows[t][v] = 0)'
    BY DEF PendingOK
  <2>1. v \in Vecs /\ t \in Target(v) /\ Wrote(u, v, t) /\ rows[t][v] = 0
    BY WorkerTypes DEF Inv, PendingOK
  <2>. QED
    BY <2>1, <1>b, <1>c DEF Target
<1>5. TableOK'
  BY <1>a, <1>b, <1>c DEF Inv, TableOK, Target
<1>6. KeptOK'
  <2>. SUFFICES ASSUME NEW u \in Threads, wk'[u].pc # "err", NEW v \in Held(u)',
                       NEW t \in Target(v)', Wrote(u, v, t)'
                PROVE  (v \in pending[u][t] \/ rows[t][v] = 1)'
    BY DEF KeptOK
  <2>1. v \in Held(u) /\ v \in Vecs /\ t \in Target(v) /\ t \in Tables /\ wk[u].pc # "err"
    BY <1>a, <1>c, WorkerTypes, TargetTables DEF Inv, Target
  <2>. QED
    BY <2>1, <1>b DEF Inv, KeptOK
<1>7. ProgressOK'
  <2>1. 1 .. joined \subseteq Threads /\ w \notin 1 .. joined
    BY SetFacts DEF Inv, TypeOK, ProgressOK, Threads
  <2>. QED
    BY <2>1, <1>a, <1>c DEF Inv, ProgressOK, TxDropped
<1>8. MetadataOK'
  <2>1. \A t \in Tables : RecordedFor(t)' = RecordedFor(t)
    BY <1>c DEF RecordedFor, mode
  <2>. QED
    BY <2>1 DEF Inv, MetadataOK, IsNewestFields, IsNewestExtensions, WriteMerged, mode
<1>. QED
  BY <1>1, <1>2, <1>3, <1>4, <1>5, <1>6, <1>7, <1>8 DEF Inv

(* What a worker's position says, in the form that the actions need it. *)
LEMMA PositionFacts ==
    ASSUME Inv, NEW w \in Threads
    PROVE  /\ wk[w] \in Positions /\ WorkerOK(w) /\ faults \in 0 .. MaxFaults
           /\ wk \in [Threads -> Positions]
           /\ wk[w].pc \notin {"age", "write"} => wk[w].vec = None
           /\ wk[w].pc \in {"age", "write"} => wk[w].vec \in Vecs
BY WorkerTypes, SetFacts DEF Inv, TypeOK, WorkerOK, Positions

(* Where a worker's loop over its sinks goes on after a table. *)
LEMMA AfterFacts ==
    ASSUME NEW k \in Positions, k.pc \in {"age", "write", "flush", "end"},
           k.table \in Tables, k.pc \in {"flush", "end"} => k.vec = None
    PROVE  LET a == After(k) IN
           /\ a \in Positions /\ a.io = "no" /\ a.vec = k.vec
           /\ k.pc = "write" => a.pc = "write" /\ a.table = k.table + 1
           /\ k.pc = "age" => \/ a.pc = "age" /\ a.table \in Tables
                              \/ a.pc = "write" /\ a.table = 1
           /\ k.pc = "flush" => \/ a.pc = "flush" /\ a.table = 2
                                \/ a.pc = "top" /\ a.table = 1
           /\ k.pc = "end" => \/ k.table = 1 /\ a.pc = "end" /\ a.table = 2
                              \/ k.table = 2 /\ a.pc = "ok" /\ a.table = 1
BY DEF After, At, AgeFirst, Positions, Tables, WorkerPcs

(* Moves that do not concern a row: the worker has no append-vec in hand. *)
LEMMA IdleMoveKeeps ==
    ASSUME Inv, NEW w \in Threads, NEW pc \in {"top", "recv", "drained", "flush", "end"},
           wk[w].pc \in {"start", "top", "recv", "drained"},
           pc \in {"drained", "end"} => queue = <<>> /\ TxDropped,
           Goto(w, At(pc, None, 1)),
           UNCHANGED <<mode, mainVars, queue, pending, parsed, rows, patch, cancelled, faults>>
    PROVE  Inv'
<1>. DEFINE k == At(pc, None, 1)
<1>1. k \in Positions /\ k.pc = pc /\ k.vec = None /\ k.table = 1 /\ k.io = "no"
  BY AtFields DEF WorkerPcs
<1>2. wk' = [wk EXCEPT ![w] = k] /\ wk'[w] = k /\ wk[w].vec = None
  BY PositionFacts DEF Goto
<1>3. \A v \in Vecs, t \in Tables : Wrote(w, v, t)' <=> Wrote(w, v, t)
  BY <1>1, <1>2 DEF Wrote
<1>4. WorkerOK(w)'
  BY <1>1, <1>2, SetFacts DEF WorkerOK, TxDropped, mainVars
<1>5. UNCHANGED <<mode, mainVars, queue, pending, parsed, rows, patch, cancelled>>
      /\ faults' \in 0 .. MaxFaults
  BY PositionFacts
<1>. QED
  BY <1>1, <1>2, <1>3, <1>4, <1>5, MoveKeeps

(* The worker thread enters its loop. *)
LEMMA KeepStart ==
    ASSUME Inv, NEW w \in Threads, Start(w), UNCHANGED <<mode, mainVars, queue>>
    PROVE  Inv'
BY IdleMoveKeeps DEF Start

(* recv_timeout with nothing to take. *)
LEMMA KeepIdle ==
    ASSUME Inv, NEW w \in Threads, Idle(w), UNCHANGED <<mode, mainVars, queue>>
    PROVE  Inv'
BY IdleMoveKeeps DEF Idle

(* The queue is empty and its sender gone. *)
LEMMA KeepDisconnected ==
    ASSUME Inv, NEW w \in Threads, Disconnected(w), UNCHANGED <<mode, mainVars, queue>>
    PROVE  Inv'
BY IdleMoveKeeps DEF Disconnected

(* A table whose INSERT stays open is passed over. *)
LEMMA KeepPass ==
    ASSUME Inv, NEW w \in Threads, Pass(w), UNCHANGED <<mode, mainVars, queue>>
    PROVE  Inv'
<1>. DEFINE k == wk[w]  a == After(k)
<1>1. /\ k \in Positions /\ WorkerOK(w) /\ wk \in [Threads -> Positions]
      /\ k.pc \in {"age", "flush", "end"} /\ k.table \in Tables
      /\ k.pc \in {"flush", "end"} => k.vec = None
  BY PositionFacts DEF Pass, WorkerOK
<1>2. /\ a \in Positions /\ a.io = "no" /\ a.vec = k.vec
      /\ k.pc = "age" => \/ a.pc = "age" /\ a.table \in Tables
                         \/ a.pc = "write" /\ a.table = 1
      /\ k.pc = "flush" => \/ a.pc = "flush" /\ a.table = 2
                           \/ a.pc = "top" /\ a.table = 1
      /\ k.pc = "end" => \/ k.table = 1 /\ a.pc = "end" /\ a.table = 2
                         \/ k.table = 2 /\ a.pc = "ok" /\ a.table = 1
  BY <1>1, AfterFacts
<1>3. wk' = [wk EXCEPT ![w] = a] /\ wk'[w] = a
  BY <1>1 DEF Pass, Goto
<1>4. \A v \in Vecs, t \in Tables : Wrote(w, v, t)' <=> Wrote(w, v, t)
  BY <1>1, <1>2, <1>3, SetFacts DEF Wrote, Pass
<1>5. WorkerOK(w)'
  <2>1. k.pc # "age" => pending[w][k.table] = {}
    BY DEF Pass
  <2>. QED
    BY <2>1, <1>1, <1>2, <1>3, SetFacts DEF WorkerOK, Pass, TxDropped, mainVars
<1>6. UNCHANGED <<mode, mainVars, queue, pending, parsed, rows, patch, cancelled>>
      /\ faults' \in 0 .. MaxFaults
  BY PositionFacts DEF Pass
<1>7. a.pc # "err" /\ k.pc # "err" /\ k.pc # "ok"
  BY <1>1, <1>2
<1>. QED
  BY <1>2, <1>3, <1>4, <1>5, <1>6, <1>7, MoveKeeps

(* An INSERT becomes due and waits for a permit. *)
LEMMA KeepDue ==
    ASSUME Inv, NEW w \in Threads, Due(w), UNCHANGED <<mode, mainVars, queue>>
    PROVE  Inv'
<1>. DEFINE k == [wk[w] EXCEPT !.io = "wait"]
<1>1. /\ wk[w] \in Positions /\ WorkerOK(w) /\ wk \in [Threads -> Positions]
      /\ wk[w].pc \in {"age", "flush", "end"}
  BY PositionFacts DEF Due
<1>2. /\ k \in Positions /\ k.pc = wk[w].pc /\ k.vec = wk[w].vec /\ k.table = wk[w].table
  BY <1>1 DEF Positions
<1>3. wk' = [wk EXCEPT ![w] = k] /\ wk'[w] = k
  BY <1>1 DEF Due, Goto
<1>4. \A v \in Vecs, t \in Tables : Wrote(w, v, t)' <=> Wrote(w, v, t)
  BY <1>1, <1>2, <1>3 DEF Wrote, Due
<1>5. WorkerOK(w)'
  BY <1>1, <1>2, <1>3 DEF WorkerOK, Due, TxDropped, mainVars
<1>6. UNCHANGED <<mode, mainVars, queue, pending, parsed, rows, patch, cancelled>>
      /\ faults' \in 0 .. MaxFaults
  BY PositionFacts DEF Due
<1>. QED
  BY <1>1, <1>2, <1>3, <1>4, <1>5, <1>6, MoveKeeps

(* The INSERT gets its permit. *)
LEMMA KeepAcquire ==
    ASSUME Inv, NEW w \in Threads, Acquire(w), UNCHANGED <<mode, mainVars, queue>>
    PROVE  Inv'
<1>. DEFINE k == [wk[w] EXCEPT !.io = "insert"]
<1>1. /\ wk[w] \in Positions /\ WorkerOK(w) /\ wk \in [Threads -> Positions]
      /\ wk[w].io = "wait" /\ wk[w].pc \in {"age", "write", "flush", "end"}
  BY PositionFacts DEF Acquire, WorkerOK
<1>2. /\ k \in Positions /\ k.pc = wk[w].pc /\ k.vec = wk[w].vec /\ k.table = wk[w].table
      /\ k.io = "insert"
  BY <1>1 DEF Positions
<1>3. wk' = [wk EXCEPT ![w] = k] /\ wk'[w] = k
  BY <1>1 DEF Acquire, Goto
<1>4. \A v \in Vecs, t \in Tables : Wrote(w, v, t)' <=> Wrote(w, v, t)
  BY <1>1, <1>2, <1>3 DEF Wrote, Acquire
<1>5. WorkerOK(w)'
  BY <1>1, <1>2, <1>3 DEF WorkerOK, Acquire, TxDropped, mainVars
<1>6. UNCHANGED <<mode, mainVars, queue, pending, parsed, rows, patch, cancelled>>
      /\ faults' \in 0 .. MaxFaults
  BY PositionFacts DEF Acquire
<1>. QED
  BY <1>1, <1>2, <1>3, <1>4, <1>5, <1>6, MoveKeeps

(* A row in an open INSERT belongs to an append-vec of that worker alone. *)
LEMMA PendingFacts ==
    ASSUME Inv, NEW w \in Threads, NEW t \in Tables, NEW v \in pending[w][t]
    PROVE  /\ v \in Vecs /\ v \in Held(w) /\ v \in Sent \ Queued
           /\ t \in Target(v) /\ Wrote(w, v, t) /\ rows[t][v] = 0
           /\ \A u \in Threads : u # w => v \notin Held(u) /\ wk[u].vec # v
           /\ \A u \in Threads : u # w => v \notin pending[u][t]
<1>1. v \in Vecs /\ t \in Target(v) /\ Wrote(w, v, t) /\ rows[t][v] = 0
  BY WorkerTypes DEF Inv, PendingOK
<1>2. v \in Held(w)
  BY <1>1, SetFacts DEF Wrote, Held
<1>3. v \in Sent \ Queued /\ \A u \in Threads : u # w => v \notin Held(u)
  BY <1>2 DEF Inv, OwnersOK
<1>4. ASSUME NEW u \in Threads, u # w, v \in pending[u][t] PROVE FALSE
  <2>1. Wrote(u, v, t)
    BY <1>4 DEF Inv, PendingOK
  <2>. QED
    BY <2>1, <1>1, <1>3, <1>4, SetFacts DEF Wrote, Held
<1>5. \A u \in Threads : u # w => wk[u].vec # v
  BY <1>1, <1>3, SetFacts DEF Held
<1>. QED
  BY <1>1, <1>2, <1>3, <1>4, <1>5

(* The rows of a finalized INSERT are in the table once. *)
LEMMA CommittedRows ==
    ASSUME Inv, NEW w \in Threads, wk[w].io = "insert", rows' = Committed(w)
    PROVE  /\ wk[w].table \in Tables
           /\ rows' \in [Tables -> [Vecs -> Nat]]
           /\ \A t \in Tables, v \in Vecs :
                 rows'[t][v] = IF t = wk[w].table /\ v \in pending[w][t] THEN 1 ELSE rows[t][v]
<1>1. wk[w].table \in Tables
  BY PositionFacts DEF WorkerOK
<1>2. rows \in [Tables -> [Vecs -> Nat]]
  BY DEF Inv, TypeOK
<1>3. \A v \in pending[w][wk[w].table] : rows[wk[w].table][v] = 0
  BY <1>1, PendingFacts
<1>4. \A t \in Tables : rows'[t] = IF t = wk[w].table
                                 THEN [v \in Vecs |-> IF v \in pending[w][t] THEN rows[t][v] + 1
                                                      ELSE rows[t][v]]
                                 ELSE rows[t]
  BY <1>1, <1>2 DEF Committed
<1>5. rows' \in [Tables -> [Vecs -> Nat]]
  BY <1>1, <1>2 DEF Committed
<1>. QED
  BY <1>1, <1>2, <1>3, <1>4, <1>5

(* Steps that leave the calling thread, statistics and patches alone. *)
LEMMA MetadataKeeps ==
    ASSUME Inv, UNCHANGED <<mode, main, meta, parsed, patch>>
    PROVE  MetadataOK'
<1>1. \A t \in Tables : RecordedFor(t)' = RecordedFor(t)
  BY ModeFixed DEF RecordedFor, mode
<1>. QED
  BY <1>1 DEF Inv, MetadataOK, IsNewestFields, IsNewestExtensions, WriteMerged, mode

(* The other workers are where they were. *)
LEMMA OthersKeep ==
    ASSUME Inv, NEW w \in Threads, UNCHANGED <<queue, main>>,
           \A u \in Threads : u # w => wk'[u] = wk[u] /\ pending'[u] = pending[u]
    PROVE  \A u \in Threads : u # w => WorkerOK(u)'
BY DEF Inv, WorkerOK, TxDropped

(***************************************************************************)
(* A worker returns an error; an INSERT that it was finalizing may be in   *)
(* the table all the same.  Its open INSERTs are gone, and so is the       *)
(* append-vec it had in hand.                                              *)
(***************************************************************************)
LEMMA ReturnKeeps ==
    ASSUME Inv, NEW w \in Threads, ~Ended(w), Return(w),
           rows' = rows \/ (wk[w].io = "insert" /\ rows' = Committed(w)),
           cancelled' \in BOOLEAN, faults' \in 0 .. MaxFaults,
           UNCHANGED <<mode, mainVars, queue, parsed, patch>>
    PROVE  Inv'
<1>. DEFINE k == At("err", None, 1)
<1>. USE DEF mainVars
<1>1. /\ k \in Positions /\ k.pc = "err" /\ k.vec = None /\ k.table = 1 /\ k.io = "no"
      /\ wk[w].pc # "ok"
  BY AtFields DEF WorkerPcs, Ended
<1>2. /\ wk' \in [Threads -> Positions] /\ wk'[w] = k
      /\ \A u \in Threads : u # w => wk'[u] = wk[u]
  BY <1>1, PositionFacts DEF Return, Goto
<1>3. /\ pending' \in [Threads -> [Tables -> SUBSET Vecs]]
      /\ \A t \in Tables : pending'[w][t] = {}
      /\ \A u \in Threads : u # w => pending'[u] = pending[u]
  BY DEF Return, Inv, TypeOK
<1>4. /\ rows' \in [Tables -> [Vecs -> Nat]]
      /\ \A t \in Tables, v \in Vecs :
            rows'[t][v] # rows[t][v] => v \in pending[w][t] /\ rows'[t][v] = 1
  BY CommittedRows DEF Inv, TypeOK
<1>5. /\ Held(w)' \subseteq Held(w) /\ wk'[w].vec = None
      /\ \A u \in Threads : u # w => Held(u)' = Held(u)
  BY <1>1, <1>2 DEF Held
<1>6. Sent' = Sent /\ Queued' = Queued /\ Second' = Second /\ Readable' = Readable
  BY ModeFixed DEF Sent, Queued
<1>7. \A u \in Threads, v \in Vecs, t \in Tables : u # w => (Wrote(u, v, t)' <=> Wrote(u, v, t))
  BY <1>2 DEF Wrote
<1>10. TypeOK'
  BY <1>2, <1>3, <1>4 DEF Inv, TypeOK, Positions, mode
<1>11. \A u \in Threads : WorkerOK(u)'
  <2>1. WorkerOK(w)'
    BY <1>1, <1>2, <1>3, SetFacts DEF WorkerOK
  <2>. QED
    BY <2>1, <1>2, <1>3, OthersKeep
<1>12. OwnersOK'
  <2>1. \A u, x \in Threads : u # x => Held(u)' \cap Held(x)' = {}
    BY <1>5 DEF Inv, OwnersOK
  <2>2. \A u \in Threads : Held(u)' \subseteq Sent' \ Queued' /\ wk'[u].vec \notin parsed'[u]
    BY <1>2, <1>5, <1>6, WorkerTypes, SetFacts DEF Inv, OwnersOK
  <2>. QED
    BY <2>1, <2>2, <1>6 DEF Inv, OwnersOK
<1>13. PendingOK'
  <2>. SUFFICES ASSUME NEW u \in Threads, NEW t \in Tables, NEW v \in pending'[u][t]
                PROVE  (t \in Target(v) /\ Wrote(u, v, t) /\ rows[t][v] = 0)'
    BY DEF PendingOK
  <2>1. u # w /\ v \in pending[u][t]
    BY <1>3
  <2>2. v \in Vecs /\ t \in Target(v) /\ Wrote(u, v, t) /\ rows[t][v] = 0 /\ v \notin pending[w][t]
    BY <2>1, PendingFacts
  <2>. QED
    BY <2>1, <2>2, <1>4, <1>6, <1>7 DEF Target
<1>14. TableOK'
  <2>. SUFFICES ASSUME NEW t \in Tables, NEW v \in Vecs, rows'[t][v] # 0
                PROVE  /\ rows'[t][v] = 1 /\ t \in Target(v)' /\ v \in Sent' \ Queued'
                       /\ \A u \in Threads : wk'[u].vec = v => Wrote(u, v, t)'
    BY DEF TableOK
  <2>1. CASE rows'[t][v] # rows[t][v]
    BY <2>1, <1>1, <1>2, <1>4, <1>6, PendingFacts, SetFacts DEF Target
  <2>2. CASE rows'[t][v] = rows[t][v]
    <3>1. /\ rows[t][v] = 1 /\ t \in Target(v) /\ v \in Sent \ Queued
          /\ \A u \in Threads : wk[u].vec = v => Wrote(u, v, t)
      BY <2>2 DEF Inv, TableOK
    <3>. QED
      BY <3>1, <2>2, <1>1, <1>2, <1>6, <1>7, SetFacts DEF Target
  <2>. QED
    BY <2>1, <2>2
<1>15. KeptOK'
  <2>. SUFFICES ASSUME NEW u \in Threads, wk'[u].pc # "err", NEW v \in Held(u)',
                       NEW t \in Target(v)', Wrote(u, v, t)'
                PROVE  (v \in pending[u][t] \/ rows[t][v] = 1)'
    BY DEF KeptOK
  <2>1. /\ u # w /\ wk[u].pc # "err" /\ v \in Held(u) /\ v \in Vecs
        /\ t \in Target(v) /\ t \in Tables
    BY <1>1, <1>2, <1>5, <1>6, WorkerTypes, TargetTables DEF Inv, Target
  <2>2. v \in pending[u][t] \/ rows[t][v] = 1
    BY <2>1, <1>7 DEF Inv, KeptOK
  <2>. QED
    BY <2>1, <2>2, <1>3, <1>4
<1>16. ProgressOK'
  <2>1. 1 .. joined \subseteq Threads /\ w \notin 1 .. joined
    BY <1>1, SetFacts DEF Inv, TypeOK, ProgressOK, Threads
  <2>2. wk'[w].pc = "err"
    BY <1>1, <1>2
  <2>. QED
    BY <2>1, <2>2, <1>2, <1>6 DEF Inv, ProgressOK, TxDropped
<1>17. MetadataOK'
  BY MetadataKeeps
<1>. QED
  BY <1>10, <1>11, <1>12, <1>13, <1>14, <1>15, <1>16, <1>17 DEF Inv

(* A worker dies without telling anybody. *)
LEMMA KeepDies ==
    ASSUME Inv, NEW w \in Threads, Dies(w), UNCHANGED <<mode, mainVars, queue>>
    PROVE  Inv'
<1>1. faults' \in 0 .. MaxFaults /\ cancelled' \in BOOLEAN
  BY ImportAssumption DEF Dies, Inv, TypeOK
<1>. QED
  BY <1>1, ReturnKeeps DEF Dies

(* A row cannot be written. *)
LEMMA KeepWriteFails ==
    ASSUME Inv, NEW w \in Threads, WriteFails(w), UNCHANGED <<mode, mainVars, queue>>
    PROVE  Inv'
<1>1. faults' \in 0 .. MaxFaults /\ cancelled' \in BOOLEAN /\ ~Ended(w)
  BY ImportAssumption DEF WriteFails, Inv, TypeOK, Ended
<1>. QED
  BY <1>1, ReturnKeeps DEF WriteFails

(* The server reports an error for an INSERT. *)
LEMMA KeepInsertFails ==
    ASSUME Inv, NEW w \in Threads, InsertFails(w), UNCHANGED <<mode, mainVars, queue>>
    PROVE  Inv'
<1>1. faults' \in 0 .. MaxFaults /\ cancelled' \in BOOLEAN
  BY ImportAssumption DEF InsertFails, Inv, TypeOK
<1>2. ~Ended(w)
  BY PositionFacts DEF InsertFails, WorkerOK, Ended
<1>. QED
  BY <1>1, <1>2, ReturnKeeps DEF InsertFails

(* A worker looks at the flag. *)
LEMMA KeepCheckCancelled ==
    ASSUME Inv, NEW w \in Threads, CheckCancelled(w), UNCHANGED <<mode, mainVars, queue>>
    PROVE  Inv'
<1>1. CASE cancelled
  <2>1. faults' \in 0 .. MaxFaults /\ cancelled' \in BOOLEAN /\ ~Ended(w)
    BY DEF CheckCancelled, Inv, TypeOK, Ended
  <2>. QED
    BY <1>1, <2>1, ReturnKeeps DEF CheckCancelled
<1>2. CASE ~cancelled
  <2>1. wk[w].pc = "drained" => queue = <<>> /\ TxDropped
    BY PositionFacts DEF WorkerOK
  <2>. QED
    BY <1>2, <2>1, IdleMoveKeeps DEF CheckCancelled
<1>. QED
  BY <1>1, <1>2

(***************************************************************************)
(* The server confirms an INSERT: its rows move from the worker to the     *)
(* table.                                                                  *)
(***************************************************************************)
LEMMA KeepInsertDone ==
    ASSUME Inv, NEW w \in Threads, InsertDone(w), UNCHANGED <<mode, mainVars, queue>>
    PROVE  Inv'
<1>. DEFINE k == wk[w]  a == After(k)
<1>. USE DEF mainVars
<1>1. /\ k \in Positions /\ WorkerOK(w) /\ wk \in [Threads -> Positions]
      /\ k.pc \in {"age", "write", "flush", "end"} /\ k.table \in Tables /\ k.io = "insert"
      /\ k.pc \in {"flush", "end"} => k.vec = None
  BY PositionFacts DEF InsertDone, WorkerOK
<1>2. /\ a \in Positions /\ a.io = "no" /\ a.vec = k.vec /\ a.pc # "err"
      /\ k.pc = "write" => a.pc = "write" /\ a.table = k.table + 1
      /\ k.pc = "age" => \/ a.pc = "age" /\ a.table \in Tables
                         \/ a.pc = "write" /\ a.table = 1
      /\ k.pc = "flush" => \/ a.pc = "flush" /\ a.table = 2
                           \/ a.pc = "top" /\ a.table = 1
      /\ k.pc = "end" => \/ k.table = 1 /\ a.pc = "end" /\ a.table = 2
                         \/ k.table = 2 /\ a.pc = "ok" /\ a.table = 1
  BY <1>1, AfterFacts
<1>3. /\ wk' \in [Threads -> Positions] /\ wk'[w] = a
      /\ \A u \in Threads : u # w => wk'[u] = wk[u]
  BY <1>1, <1>2 DEF InsertDone, Goto
<1>4. /\ rows' \in [Tables -> [Vecs -> Nat]]
      /\ \A t \in Tables, v \in Vecs :
            rows'[t][v] = IF t = k.table /\ v \in pending[w][t] THEN 1 ELSE rows[t][v]
  BY <1>1, CommittedRows DEF InsertDone
<1>5. /\ pending' \in [Threads -> [Tables -> SUBSET Vecs]]
      /\ \A t \in Tables : pending'[w][t] = IF t = k.table THEN {} ELSE pending[w][t]
      /\ \A u \in Threads : u # w => pending'[u] = pending[u]
  BY <1>1 DEF InsertDone, Inv, TypeOK
<1>6. UNCHANGED <<parsed, patch, cancelled, faults>>
  BY DEF InsertDone
<1>7. \A u \in Threads : Held(u)' = Held(u) /\ wk'[u].vec = wk[u].vec
  BY <1>2, <1>3, <1>6 DEF Held
<1>8. Sent' = Sent /\ Queued' = Queued /\ Second' = Second /\ Readable' = Readable
  BY ModeFixed DEF Sent, Queued
<1>9. \A u \in Threads, v \in Vecs, t \in Tables : Wrote(u, v, t)' <=> Wrote(u, v, t)
  <2>1. \A v \in Vecs, t \in Tables : Wrote(w, v, t)' <=> Wrote(w, v, t)
    BY <1>1, <1>2, <1>3, <1>6, SetFacts DEF Wrote
  <2>2. \A u \in Threads, v \in Vecs, t \in Tables :
          u # w => (Wrote(u, v, t)' <=> Wrote(u, v, t))
    BY <1>3, <1>6 DEF Wrote
  <2>. QED
    BY <2>1, <2>2
<1>10. TypeOK'
  BY <1>3, <1>4, <1>5, <1>6 DEF Inv, TypeOK, Positions, mode
<1>11. \A u \in Threads : WorkerOK(u)'
  <2>1. WorkerOK(w)'
    BY <1>1, <1>2, <1>3, <1>5, SetFacts DEF WorkerOK, TxDropped
  <2>. QED
    BY <2>1, <1>3, <1>5, OthersKeep
<1>12. OwnersOK'
  BY <1>6, <1>7, <1>8 DEF Inv, OwnersOK
<1>13. PendingOK'
  <2>. SUFFICES ASSUME NEW u \in Threads, NEW t \in Tables, NEW v \in pending'[u][t]
                PROVE  (t \in Target(v) /\ Wrote(u, v, t) /\ rows[t][v] = 0)'
    BY DEF PendingOK
  <2>1. v \in pending[u][t] /\ (u # w \/ t # k.table)
    BY <1>5
  <2>2. v \in Vecs /\ t \in Target(v) /\ Wrote(u, v, t) /\ rows[t][v] = 0
        /\ (u # w => v \notin pending[w][t])
    BY <2>1, PendingFacts
  <2>. QED
    BY <2>1, <2>2, <1>4, <1>8, <1>9 DEF Target
<1>14. TableOK'
  <2>. SUFFICES ASSUME NEW t \in Tables, NEW v \in Vecs, rows'[t][v] # 0
                PROVE  /\ rows'[t][v] = 1 /\ t \in Target(v)' /\ v \in Sent' \ Queued'
                       /\ \A u \in Threads : wk'[u].vec = v => Wrote(u, v, t)'
    BY DEF TableOK
  <2>1. CASE t = k.table /\ v \in pending[w][t]
    BY <2>1, <1>4, <1>7, <1>8, <1>9, PendingFacts DEF Target
  <2>2. CASE ~(t = k.table /\ v \in pending[w][t])
    <3>1. rows'[t][v] = rows[t][v]
      BY <2>2, <1>4
    <3>2. /\ rows[t][v] = 1 /\ t \in Target(v) /\ v \in Sent \ Queued
          /\ \A u \in Threads : wk[u].vec = v => Wrote(u, v, t)
      BY <3>1 DEF Inv, TableOK
    <3>. QED
      BY <3>1, <3>2, <1>7, <1>8, <1>9 DEF Target
  <2>. QED
    BY <2>1, <2>2
<1>15. KeptOK'
  <2>. SUFFICES ASSUME NEW u \in Threads, wk'[u].pc # "err", NEW v \in Held(u)',
                       NEW t \in Target(v)', Wrote(u, v, t)'
                PROVE  (v \in pending[u][t] \/ rows[t][v] = 1)'
    BY DEF KeptOK
  <2>1. /\ wk[u].pc # "err" /\ v \in Held(u) /\ v \in Vecs
        /\ t \in Target(v) /\ t \in Tables
    BY <1>1, <1>3, <1>7, <1>8, WorkerTypes, TargetTables DEF Inv, Target
  <2>2. v \in pending[u][t] \/ rows[t][v] = 1
    BY <2>1, <1>9 DEF Inv, KeptOK
  <2>. QED
    BY <2>1, <2>2, <1>4, <1>5
<1>16. ProgressOK'
  <2>1. 1 .. joined \subseteq Threads /\ w \notin 1 .. joined
    BY <1>1, SetFacts DEF Inv, TypeOK, ProgressOK, Threads
  <2>. QED
    BY <2>1, <1>1, <1>2, <1>3, <1>6, <1>7, <1>8 DEF Inv, ProgressOK, TxDropped
<1>17. MetadataOK'
  BY <1>6, MetadataKeeps
<1>. QED
  BY <1>10, <1>11, <1>12, <1>13, <1>14, <1>15, <1>16, <1>17 DEF Inv

(***************************************************************************)
(* A row goes into the open INSERT, or the append-vec has none for this    *)
(* table.                                                                  *)
(***************************************************************************)
LEMMA KeepWrite ==
    ASSUME Inv, NEW w \in Threads, Write(w), UNCHANGED <<mode, mainVars, queue>>
    PROVE  Inv'
<1>. DEFINE k == wk[w]
<1>. USE DEF mainVars
<1>1. /\ k \in Positions /\ WorkerOK(w) /\ wk \in [Threads -> Positions]
      /\ k.pc = "write" /\ k.table \in Tables /\ k.io = "no" /\ k.vec \in Vecs
  BY PositionFacts DEF Write
<1>2. PICK a \in Positions :
         /\ wk' = [wk EXCEPT ![w] = a]
         /\ a.pc = "write" /\ a.vec = k.vec
         /\ \/ a.table = k.table + 1 /\ a.io = "no"
            \/ a.table = k.table /\ a.io = "wait"
  <2>1. LET b == After(k) IN b \in Positions /\ b.pc = "write" /\ b.vec = k.vec
                             /\ b.table = k.table + 1 /\ b.io = "no"
    BY <1>1, AfterFacts
  <2>2. LET b == [k EXCEPT !.io = "wait"]
        IN  b \in Positions /\ b.pc = "write" /\ b.vec = k.vec
            /\ b.table = k.table /\ b.io = "wait"
    BY <1>1 DEF Positions
  <2>. QED
    BY <2>1, <2>2 DEF Write, Goto
<1>3. /\ wk' \in [Threads -> Positions] /\ wk'[w] = a
      /\ \A u \in Threads : u # w => wk'[u] = wk[u]
  BY <1>1, <1>2
<1>5. /\ pending' \in [Threads -> [Tables -> SUBSET Vecs]]
      /\ \A t \in Tables : pending'[w][t] =
            IF t = k.table /\ t \in Target(k.vec) THEN pending[w][t] \cup {k.vec}
            ELSE pending[w][t]
      /\ \A u \in Threads : u # w => pending'[u] = pending[u]
  <2>1. pending \in [Threads -> [Tables -> SUBSET Vecs]]
    BY DEF Inv, TypeOK
  <2>2. CASE k.table \in Target(k.vec)
    <3>1. pending' = [pending EXCEPT ![w][k.table] = @ \cup {k.vec}]
      BY <2>2 DEF Write
    <3>. QED
      BY <1>1, <2>1, <2>2, <3>1
  <2>3. CASE k.table \notin Target(k.vec)
    BY <2>1, <2>3 DEF Write
  <2>. QED
    BY <2>2, <2>3
<1>6. UNCHANGED <<parsed, rows, patch, cancelled, faults>>
  BY DEF Write
<1>7. \A u \in Threads : Held(u)' = Held(u) /\ wk'[u].vec = wk[u].vec
  BY <1>2, <1>3, <1>6 DEF Held
<1>8. Sent' = Sent /\ Queued' = Queued /\ Second' = Second /\ Readable' = Readable
  BY ModeFixed DEF Sent, Queued
<1>9. /\ \A v \in Vecs, t \in Tables :
            Wrote(w, v, t)' <=> (Wrote(w, v, t) \/ (v = k.vec /\ t = k.table))
      /\ \A u \in Threads, v \in Vecs, t \in Tables :
            u # w => (Wrote(u, v, t)' <=> Wrote(u, v, t))
      /\ ~Wrote(w, k.vec, k.table)
  <2>1. \A v \in Vecs, t \in Tables :
            Wrote(w, v, t)' <=> (Wrote(w, v, t) \/ (v = k.vec /\ t = k.table))
    BY <1>1, <1>2, <1>3, <1>6, SetFacts DEF Wrote
  <2>2. \A u \in Threads, v \in Vecs, t \in Tables :
          u # w => (Wrote(u, v, t)' <=> Wrote(u, v, t))
    BY <1>3, <1>6 DEF Wrote
  <2>3. ~Wrote(w, k.vec, k.table)
    BY <1>1, SetFacts DEF Wrote, Inv, OwnersOK
  <2>. QED
    BY <2>1, <2>2, <2>3
<1>10. TypeOK'
  BY <1>3, <1>5, <1>6 DEF Inv, TypeOK, Positions, mode
<1>11. \A u \in Threads : WorkerOK(u)'
  <2>1. WorkerOK(w)'
    BY <1>1, <1>2, <1>3, SetFacts DEF WorkerOK
  <2>. QED
    BY <2>1, <1>3, <1>5, OthersKeep
<1>12. OwnersOK'
  BY <1>6, <1>7, <1>8 DEF Inv, OwnersOK
<1>13. PendingOK'
  <2>. SUFFICES ASSUME NEW u \in Threads, NEW t \in Tables, NEW v \in pending'[u][t]
                PROVE  (t \in Target(v) /\ Wrote(u, v, t) /\ rows[t][v] = 0)'
    BY DEF PendingOK
  <2>1. CASE v \in pending[u][t]
    <3>1. v \in Vecs /\ t \in Target(v) /\ Wrote(u, v, t) /\ rows[t][v] = 0
      BY <2>1, PendingFacts
    <3>. QED
      BY <3>1, <1>6, <1>8, <1>9 DEF Target
  <2>2. CASE v \notin pending[u][t]
    <3>1. u = w /\ v = k.vec /\ t = k.table /\ t \in Target(v)
      BY <2>2, <1>5
    <3>2. rows[t][v] = 0
      BY <3>1, <1>1, <1>9 DEF Inv, TableOK
    <3>. QED
      BY <3>1, <3>2, <1>1, <1>6, <1>8, <1>9 DEF Target
  <2>. QED
    BY <2>1, <2>2
<1>14. TableOK'
  <2>. SUFFICES ASSUME NEW t \in Tables, NEW v \in Vecs, rows'[t][v] # 0
                PROVE  /\ rows'[t][v] = 1 /\ t \in Target(v)' /\ v \in Sent' \ Queued'
                       /\ \A u \in Threads : wk'[u].vec = v => Wrote(u, v, t)'
    BY DEF TableOK
  <2>1. /\ rows[t][v] = 1 /\ t \in Target(v) /\ v \in Sent \ Queued
        /\ \A u \in Threads : wk[u].vec = v => Wrote(u, v, t)
    BY <1>6 DEF Inv, TableOK
  <2>. QED
    BY <2>1, <1>6, <1>7, <1>8, <1>9 DEF Target
<1>15. KeptOK'
  <2>. SUFFICES ASSUME NEW u \in Threads, wk'[u].pc # "err", NEW v \in Held(u)',
                       NEW t \in Target(v)', Wrote(u, v, t)'
                PROVE  (v \in pending[u][t] \/ rows[t][v] = 1)'
    BY DEF KeptOK
  <2>1. /\ wk[u].pc # "err" /\ v \in Held(u) /\ v \in Vecs
        /\ t \in Target(v) /\ t \in Tables
    BY <1>1, <1>3, <1>7, <1>8, WorkerTypes, TargetTables DEF Inv, Target
  <2>2. Wrote(u, v, t) => v \in pending[u][t] \/ rows[t][v] = 1
    BY <2>1 DEF Inv, KeptOK
  <2>. QED
    BY <2>1, <2>2, <1>5, <1>6, <1>9
<1>16. ProgressOK'
  <2>1. 1 .. joined \subseteq Threads /\ w \notin 1 .. joined
    BY <1>1, SetFacts DEF Inv, TypeOK, ProgressOK, Threads
  <2>. QED
    BY <2>1, <1>1, <1>2, <1>3, <1>6, <1>7, <1>8 DEF Inv, ProgressOK, TxDropped
<1>17. MetadataOK'
  BY <1>6, MetadataKeeps
<1>. QED
  BY <1>10, <1>11, <1>12, <1>13, <1>14, <1>15, <1>16, <1>17 DEF Inv

(* Candidates are totally ordered (the derived order of MetadataFields). *)
LEMMA FieldsOrder ==
    /\ \A c, d \in Fields : c = d \/ NewerFields(c, d) \/ NewerFields(d, c)
    /\ \A c, d, e \in Fields : NewerFields(c, d) /\ NewerFields(d, e) => NewerFields(c, e)
    /\ \A c, d \in Fields : ~(NewerFields(c, d) /\ NewerFields(d, c)) /\ ~NewerFields(c, c)
<1>1. \A c \in Fields : /\ c.slot \in Nat /\ c.source \in 1 .. 3 /\ c.doc \in Nat
                         /\ c = [slot |-> c.slot, source |-> c.source, doc |-> c.doc]
  BY DEF Fields, Metaplex, Token2022Standalone, Token2022Embedded
<1>. QED
  BY <1>1 DEF NewerFields

(* So are those of extensions. *)
LEMMA ExtensionsOrder ==
    /\ \A c, d \in Extensions : c = d \/ NewerExtensions(c, d) \/ NewerExtensions(d, c)
    /\ \A c, d, e \in Extensions :
          NewerExtensions(c, d) /\ NewerExtensions(d, e) => NewerExtensions(c, e)
    /\ \A c, d \in Extensions :
          ~(NewerExtensions(c, d) /\ NewerExtensions(d, c)) /\ ~NewerExtensions(c, c)
<1>1. \A c \in Extensions : /\ c.slot \in Nat /\ c.doc \in Nat
                             /\ c = [slot |-> c.slot, doc |-> c.doc]
  BY DEF Extensions
<1>. QED
  BY <1>1 DEF NewerExtensions

(* record_metadata_fields keeps the newest, in whatever order it is called. *)
LEMMA RecordFieldsNewest ==
    ASSUME NEW p \in Patches, NEW vs \in SUBSET Vecs, NEW v \in Vecs,
           IsNewestFields(p.fields, vs)
    PROVE  LET q == RecordFields(p, FieldsOf[v]) IN
           /\ q \in Patches /\ q.extensions = p.extensions
           /\ IsNewestFields(q.fields, vs \cup {v})
<1>. DEFINE c == FieldsOf[v]  q == RecordFields(p, c)
<1>1. /\ p.fields \in Fields \cup {None} /\ p.extensions \in Extensions \cup {None}
      /\ \A x \in Vecs : FieldsOf[x] \in Fields \cup {None}
  BY ImportAssumption DEF Patches
<1>2. CASE c # None /\ (p.fields = None \/ NewerFields(c, p.fields))
  <2>1. q \in Patches /\ q.extensions = p.extensions /\ q.fields = c
    BY <1>1, <1>2 DEF RecordFields, Patches
  <2>2. \A x \in vs : FieldsOf[x] \in {None, c} \/ NewerFields(c, FieldsOf[x])
    BY <1>1, <1>2, FieldsOrder DEF IsNewestFields
  <2>. QED
    BY <1>2, <2>1, <2>2 DEF IsNewestFields
<1>3. CASE ~(c # None /\ (p.fields = None \/ NewerFields(c, p.fields)))
  <2>1. q = p
    BY <1>3 DEF RecordFields
  <2>2. c # None => p.fields # None /\ (c = p.fields \/ NewerFields(p.fields, c))
    BY <1>1, <1>3, FieldsOrder
  <2>. QED
    BY <2>1, <2>2 DEF IsNewestFields
<1>. QED
  BY <1>2, <1>3

(* The same of record_metadata_extensions. *)
LEMMA RecordExtensionsNewest ==
    ASSUME NEW p \in Patches, NEW vs \in SUBSET Vecs, NEW v \in Vecs,
           IsNewestExtensions(p.extensions, vs)
    PROVE  LET q == RecordExtensions(p, ExtensionsOf[v]) IN
           /\ q \in Patches /\ q.fields = p.fields
           /\ IsNewestExtensions(q.extensions, vs \cup {v})
<1>. DEFINE c == ExtensionsOf[v]  q == RecordExtensions(p, c)
<1>1. /\ p.fields \in Fields \cup {None} /\ p.extensions \in Extensions \cup {None}
      /\ \A x \in Vecs : ExtensionsOf[x] \in Extensions \cup {None}
  BY ImportAssumption DEF Patches
<1>2. CASE c # None /\ (p.extensions = None \/ NewerExtensions(c, p.extensions))
  <2>1. q \in Patches /\ q.fields = p.fields /\ q.extensions = c
    BY <1>1, <1>2 DEF RecordExtensions, Patches
  <2>2. \A x \in vs : ExtensionsOf[x] \in {None, c} \/ NewerExtensions(c, ExtensionsOf[x])
    BY <1>1, <1>2, ExtensionsOrder DEF IsNewestExtensions
  <2>. QED
    BY <1>2, <2>1, <2>2 DEF IsNewestExtensions
<1>3. CASE ~(c # None /\ (p.extensions = None \/ NewerExtensions(c, p.extensions)))
  <2>1. q = p
    BY <1>3 DEF RecordExtensions
  <2>2. c # None => /\ p.extensions # None
                    /\ c = p.extensions \/ NewerExtensions(p.extensions, c)
    BY <1>1, <1>3, ExtensionsOrder
  <2>. QED
    BY <2>1, <2>2 DEF IsNewestExtensions
<1>. QED
  BY <1>2, <1>3

(***************************************************************************)
(* An append-vec is done: it joins the worker's statistics, and its        *)
(* candidates the shared patches.                                          *)
(***************************************************************************)
LEMMA KeepParsed ==
    ASSUME Inv, NEW w \in Threads, Parsed(w), UNCHANGED <<mode, mainVars, queue>>
    PROVE  Inv'
<1>. DEFINE x == wk[w].vec  k == At("top", None, 1)
<1>. USE DEF mainVars
<1>1. /\ wk[w] \in Positions /\ WorkerOK(w) /\ wk \in [Threads -> Positions]
      /\ wk[w].pc = "write" /\ wk[w].table = 3 /\ x \in Vecs
  BY PositionFacts DEF Parsed
<1>2. k \in Positions /\ k.pc = "top" /\ k.vec = None /\ k.table = 1 /\ k.io = "no"
  BY AtFields DEF WorkerPcs
<1>3. /\ wk' \in [Threads -> Positions] /\ wk'[w] = k
      /\ \A u \in Threads : u # w => wk'[u] = wk[u]
  BY <1>1, <1>2 DEF Parsed, Goto
<1>4. /\ parsed' \in [Threads -> SUBSET Vecs] /\ parsed'[w] = parsed[w] \cup {x}
      /\ \A u \in Threads : u # w => parsed'[u] = parsed[u]
  BY <1>1 DEF Parsed, Inv, TypeOK
<1>5. UNCHANGED <<pending, rows, cancelled, faults>>
  BY DEF Parsed
<1>7. /\ \A u \in Threads : Held(u)' = Held(u)
      /\ \A u \in Threads : wk'[u].vec # None => u # w /\ wk'[u].vec = wk[u].vec
  BY <1>1, <1>2, <1>3, <1>4, SetFacts DEF Held
<1>8. Sent' = Sent /\ Queued' = Queued /\ Second' = Second /\ Readable' = Readable
  BY ModeFixed DEF Sent, Queued
<1>9. \A u \in Threads, v \in Vecs, t \in Tables : Wrote(u, v, t)' <=> Wrote(u, v, t)
  <2>1. \A v \in Vecs, t \in Tables : Wrote(w, v, t)' <=> Wrote(w, v, t)
    BY <1>1, <1>2, <1>3, <1>4, SetFacts DEF Wrote
  <2>2. \A u \in Threads, v \in Vecs, t \in Tables :
          u # w => (Wrote(u, v, t)' <=> Wrote(u, v, t))
    BY <1>3, <1>4 DEF Wrote
  <2>. QED
    BY <2>1, <2>2
<1>a. /\ patch' \in [Tables -> Patches]
      /\ \A t \in Tables : /\ IsNewestFields(patch'[t].fields, RecordedFor(t)')
                           /\ IsNewestExtensions(patch'[t].extensions, RecordedFor(t)')
  <2>. DEFINE All == UNION {parsed[u] : u \in Threads}
  <2>1. All \subseteq Vecs /\ All' = All \cup {x}
    <3>1. \A u \in Threads : parsed[u] \subseteq Vecs
      BY DEF Inv, TypeOK
    <3>2. ASSUME NEW v PROVE v \in All' <=> v \in All \cup {x}
      BY <1>4
    <3>. QED
      BY <3>1, <3>2
  <2>2. patch' = [t \in Tables |->
                    IF t = 1 \/ (fanout /\ x \in Second)
                    THEN RecordExtensions(RecordFields(patch[t], FieldsOf[x]), ExtensionsOf[x])
                    ELSE patch[t]]
    BY DEF Parsed
  <2>3. ASSUME NEW t \in Tables
        PROVE  /\ patch'[t] \in Patches
               /\ IsNewestFields(patch'[t].fields, RecordedFor(t)')
               /\ IsNewestExtensions(patch'[t].extensions, RecordedFor(t)')
    <3>1. /\ patch[t] \in Patches /\ RecordedFor(t) \subseteq Vecs
          /\ IsNewestFields(patch[t].fields, RecordedFor(t))
          /\ IsNewestExtensions(patch[t].extensions, RecordedFor(t))
      BY <2>1 DEF Inv, TypeOK, MetadataOK, RecordedFor
    <3>2. CASE t = 1 \/ (fanout /\ x \in Second)
      <4>1. RecordedFor(t)' = RecordedFor(t) \cup {x}
        BY <2>1, <3>2, <1>8 DEF RecordedFor, mode
      <4>. DEFINE q == RecordFields(patch[t], FieldsOf[x])
                  r == RecordExtensions(q, ExtensionsOf[x])
      <4>2. /\ q \in Patches /\ q.extensions = patch[t].extensions
            /\ IsNewestFields(q.fields, RecordedFor(t) \cup {x})
        BY <3>1, <1>1, RecordFieldsNewest
      <4>3. /\ r \in Patches /\ r.fields = q.fields
            /\ IsNewestExtensions(r.extensions, RecordedFor(t) \cup {x})
        BY <3>1, <4>2, <1>1, RecordExtensionsNewest
      <4>4. patch'[t] = r
        BY <2>2, <3>2
      <4>. QED
        BY <4>1, <4>2, <4>3, <4>4
    <3>3. CASE ~(t = 1 \/ (fanout /\ x \in Second))
      <4>1. RecordedFor(t)' = RecordedFor(t) /\ patch'[t] = patch[t]
        BY <2>1, <2>2, <3>3, <1>8 DEF RecordedFor, mode
      <4>. QED
        BY <3>1, <4>1
    <3>. QED
      BY <3>2, <3>3
  <2>4. patch' \in [Tables -> Patches]
    BY <2>2, <2>3
  <2>. QED
    BY <2>3, <2>4
<1>b. 1 .. joined \subseteq Threads /\ w \notin 1 .. joined
  BY <1>1, SetFacts DEF Inv, TypeOK, ProgressOK, Threads
<1>10. TypeOK'
  BY <1>3, <1>4, <1>5, <1>a DEF Inv, TypeOK, Positions, mode
<1>11. \A u \in Threads : WorkerOK(u)'
  <2>1. WorkerOK(w)'
    BY <1>2, <1>3, SetFacts DEF WorkerOK
  <2>. QED
    BY <2>1, <1>3, <1>5, OthersKeep
<1>12. OwnersOK'
  <2>1. \A u \in Threads : wk'[u].vec \notin parsed'[u]
    BY <1>2, <1>3, <1>4, SetFacts DEF Inv, OwnersOK
  <2>. QED
    BY <2>1, <1>7, <1>8 DEF Inv, OwnersOK
<1>13. PendingOK'
  <2>. SUFFICES ASSUME NEW u \in Threads, NEW t \in Tables, NEW v \in pending'[u][t]
                PROVE  (t \in Target(v) /\ Wrote(u, v, t) /\ rows[t][v] = 0)'
    BY DEF PendingOK
  <2>1. v \in Vecs /\ t \in Target(v) /\ Wrote(u, v, t) /\ rows[t][v] = 0
    BY <1>5, PendingFacts
  <2>. QED
    BY <2>1, <1>5, <1>8, <1>9 DEF Target
<1>14. TableOK'
  <2>. SUFFICES ASSUME NEW t \in Tables, NEW v \in Vecs, rows'[t][v] # 0
                PROVE  /\ rows'[t][v] = 1 /\ t \in Target(v)' /\ v \in Sent' \ Queued'
                       /\ \A u \in Threads : wk'[u].vec = v => Wrote(u, v, t)'
    BY DEF TableOK
  <2>1. /\ rows[t][v] = 1 /\ t \in Target(v) /\ v \in Sent \ Queued
        /\ \A u \in Threads : wk[u].vec = v => Wrote(u, v, t)
    BY <1>5 DEF Inv, TableOK
  <2>. QED
    BY <2>1, <1>5, <1>7, <1>8, <1>9, SetFacts DEF Target
<1>15. KeptOK'
  <2>. SUFFICES ASSUME NEW u \in Threads, wk'[u].pc # "err", NEW v \in Held(u)',
                       NEW t \in Target(v)', Wrote(u, v, t)'
                PROVE  (v \in pending[u][t] \/ rows[t][v] = 1)'
    BY DEF KeptOK
  <2>1. /\ wk[u].pc # "err" /\ v \in Held(u) /\ v \in Vecs
        /\ t \in Target(v) /\ t \in Tables
    BY <1>1, <1>3, <1>7, <1>8, WorkerTypes, TargetTables DEF Inv, Target
  <2>2. Wrote(u, v, t) => v \in pending[u][t] \/ rows[t][v] = 1
    BY <2>1 DEF Inv, KeptOK
  <2>. QED
    BY <2>1, <2>2, <1>5, <1>9
<1>16. ProgressOK'
  BY <1>b, <1>1, <1>2, <1>3, <1>4, <1>7, <1>8 DEF Inv, ProgressOK, TxDropped
<1>17. MetadataOK'
  <2>1. main \notin {"meta", "ok"}
    <3>1. joined # Workers
      BY <1>b, SetFacts DEF Threads
    <3>. QED
      BY <3>1 DEF Inv, ProgressOK
  <2>. QED
    BY <2>1, <1>a DEF Inv, MetadataOK, mode
<1>. QED
  BY <1>10, <1>11, <1>12, <1>13, <1>14, <1>15, <1>16, <1>17 DEF Inv

(***************************************************************************)
(* A worker takes an append-vec from the queue.                            *)
(***************************************************************************)
LEMMA KeepReceive ==
    ASSUME Inv, NEW w \in Threads, ReceiveStep(w)
    PROVE  Inv'
<1>. DEFINE x == Head(queue)  k == At("age", x, AgeFirst)
<1>. USE DEF mainVars
<1>0. Receive(w) /\ UNCHANGED <<mode, mainVars>>
  BY DEF ReceiveStep
<1>1. /\ wk[w] \in Positions /\ WorkerOK(w) /\ wk \in [Threads -> Positions]
      /\ wk[w].pc = "recv" /\ wk[w].vec = None
      /\ queue \in Seq(Vecs) /\ queue # <<>> /\ Len(queue) <= Workers
  BY <1>0, PositionFacts DEF Receive, Inv, TypeOK
<1>2. /\ x \in Vecs /\ Len(queue) \in Nat \ {0} /\ x = queue[1]
      /\ queue' \in Seq(Vecs) /\ Len(queue') = Len(queue) - 1
      /\ \A i \in 1 .. Len(queue') : queue'[i] = queue[i + 1]
  <2>1. queue' = Tail(queue)
    BY <1>0 DEF Receive
  <2>. QED
    BY <2>1, <1>1, HeadTailProperties
<1>3. /\ k \in Positions /\ k.pc = "age" /\ k.vec = x /\ k.table \in Tables /\ k.io = "no"
  <2>1. AgeFirst \in Tables /\ AgeFirst \in 1 .. 3 /\ "age" \in WorkerPcs
    BY SetFacts DEF AgeFirst, WorkerPcs
  <2>2. x \in Vecs \cup {None}
    BY <1>2
  <2>. QED
    BY <2>1, <2>2, AtFields
<1>4. /\ wk' \in [Threads -> Positions] /\ wk'[w] = k
      /\ \A u \in Threads : u # w => wk'[u] = wk[u]
  BY <1>0, <1>1, <1>3 DEF Receive, Goto
<1>5. UNCHANGED <<pending, parsed, rows, patch, cancelled, faults>>
  BY <1>0 DEF Receive
<1>6. x \in Queued /\ Queued' = Queued \ {x}
  <2>1. x \in Queued
    BY <1>2 DEF Queued
  <2>2. \A i, j \in 1 .. Len(queue) : queue[i] = queue[j] => i = j
    BY DEF Inv, OwnersOK
  <2>3. ASSUME NEW v \in Queued' PROVE v \in Queued \ {x}
    <3>1. PICK i \in 1 .. Len(queue') : v = queue'[i]
      BY DEF Queued
    <3>2. i + 1 \in 1 .. Len(queue) /\ 1 \in 1 .. Len(queue) /\ v = queue[i + 1] /\ i + 1 # 1
      BY <1>2, <3>1
    <3>. QED
      BY <3>2, <2>2, <1>2 DEF Queued
  <2>4. ASSUME NEW v \in Queued, v # x PROVE v \in Queued'
    <3>1. PICK i \in 1 .. Len(queue) : v = queue[i]
      BY DEF Queued
    <3>2. i - 1 \in 1 .. Len(queue') /\ v = queue'[i - 1]
      BY <1>2, <3>1, <2>4
    <3>. QED
      BY <3>2 DEF Queued
  <2>. QED
    BY <2>1, <2>3, <2>4
<1>7. /\ Held(w)' = Held(w) \cup {x} /\ Held(w) = parsed[w]
      /\ \A u \in Threads : u # w => Held(u)' = Held(u)
  BY <1>1, <1>2, <1>3, <1>4, <1>5, SetFacts DEF Held
<1>8. Sent' = Sent /\ Second' = Second /\ Readable' = Readable
  BY <1>0, ModeFixed DEF Sent
<1>9. \A u \in Threads, v \in Vecs, t \in Tables : Wrote(u, v, t)' <=> Wrote(u, v, t)
  <2>1. \A v \in Vecs, t \in Tables : Wrote(w, v, t)' <=> Wrote(w, v, t)
    BY <1>1, <1>3, <1>4, <1>5 DEF Wrote
  <2>2. \A u \in Threads, v \in Vecs, t \in Tables :
          u # w => (Wrote(u, v, t)' <=> Wrote(u, v, t))
    BY <1>4, <1>5 DEF Wrote
  <2>. QED
    BY <2>1, <2>2
<1>a. /\ x \in Sent /\ \A u \in Threads : x \notin Held(u) /\ x \notin parsed[u]
      /\ \A t \in Tables : rows[t][x] = 0
  BY <1>2, <1>6 DEF Inv, OwnersOK, TableOK, Held
<1>10. TypeOK'
  BY <1>0, <1>1, <1>2, <1>4, <1>5, SetFacts, SMTT(60) DEF Inv, TypeOK, Positions, mode
<1>11. \A u \in Threads : WorkerOK(u)'
  <2>1. WorkerOK(w)'
    BY <1>2, <1>3, <1>4, SetFacts DEF WorkerOK
  <2>2. ASSUME NEW u \in Threads, u # w PROVE WorkerOK(u)'
    BY <2>2, <1>0, <1>1, <1>4, <1>5 DEF Inv, WorkerOK, TxDropped
  <2>. QED
    BY <2>1, <2>2
<1>12. OwnersOK'
  <2>1. \A i, j \in 1 .. Len(queue') : queue'[i] = queue'[j] => i = j
    <3>1. \A i \in 1 .. Len(queue') : i + 1 \in 1 .. Len(queue) /\ queue'[i] = queue[i + 1]
      BY <1>2
    <3>2. \A i, j \in 1 .. Len(queue) : queue[i] = queue[j] => i = j
      BY DEF Inv, OwnersOK
    <3>. QED
      BY <3>1, <3>2
  <2>2. Queued' \subseteq Sent'
    BY <1>6, <1>8 DEF Inv, OwnersOK
  <2>3. \A u \in Threads : Held(u)' \subseteq Sent' \ Queued'
    BY <1>6, <1>7, <1>8, <1>a DEF Inv, OwnersOK
  <2>4. \A u \in Threads : wk'[u].vec \notin parsed'[u]
    BY <1>3, <1>4, <1>5, <1>a DEF Inv, OwnersOK
  <2>5. \A u, y \in Threads : u # y => Held(u)' \cap Held(y)' = {}
    BY <1>7, <1>a DEF Inv, OwnersOK
  <2>. QED
    BY <2>1, <2>2, <2>3, <2>4, <2>5 DEF OwnersOK
<1>13. PendingOK'
  <2>. SUFFICES ASSUME NEW u \in Threads, NEW t \in Tables, NEW v \in pending'[u][t]
                PROVE  (t \in Target(v) /\ Wrote(u, v, t) /\ rows[t][v] = 0)'
    BY DEF PendingOK
  <2>1. v \in Vecs /\ t \in Target(v) /\ Wrote(u, v, t) /\ rows[t][v] = 0
    BY <1>5, PendingFacts
  <2>. QED
    BY <2>1, <1>5, <1>8, <1>9 DEF Target
<1>14. TableOK'
  <2>. SUFFICES ASSUME NEW t \in Tables, NEW v \in Vecs, rows'[t][v] # 0
                PROVE  /\ rows'[t][v] = 1 /\ t \in Target(v)' /\ v \in Sent' \ Queued'
                       /\ \A u \in Threads : wk'[u].vec = v => Wrote(u, v, t)'
    BY DEF TableOK
  <2>1. /\ rows[t][v] = 1 /\ t \in Target(v) /\ v \in Sent \ Queued /\ v # x
        /\ \A u \in Threads : wk[u].vec = v => Wrote(u, v, t)
    BY <1>5, <1>a DEF Inv, TableOK
  <2>2. \A u \in Threads : wk'[u].vec = v => Wrote(u, v, t)'
    BY <2>1, <1>3, <1>4, <1>9
  <2>. QED
    BY <2>1, <2>2, <1>5, <1>6, <1>8 DEF Target
<1>15. KeptOK'
  <2>. SUFFICES ASSUME NEW u \in Threads, wk'[u].pc # "err", NEW v \in Held(u)',
                       NEW t \in Target(v)', Wrote(u, v, t)'
                PROVE  (v \in pending[u][t] \/ rows[t][v] = 1)'
    BY DEF KeptOK
  <2>1. /\ wk[u].pc # "err" /\ v \in Vecs /\ t \in Target(v) /\ t \in Tables
    BY <1>1, <1>2, <1>4, <1>7, <1>8, WorkerTypes, TargetTables DEF Inv, Target
  <2>2. Wrote(u, v, t)
    BY <2>1, <1>9
  <2>3. v \in Held(u)
    BY <2>1, <2>2, SetFacts DEF Wrote, Held
  <2>. QED
    BY <2>1, <2>2, <2>3, <1>5 DEF Inv, KeptOK
<1>16. ProgressOK'
  <2>1. 1 .. joined \subseteq Threads /\ w \notin 1 .. joined
    BY <1>1, SetFacts DEF Inv, TypeOK, ProgressOK, Threads
  <2>2. \A v \in Sent' : \/ v \in Queued' \/ \E u \in Threads : v \in Held(u)'
                        \/ \E u \in Threads : wk'[u].pc = "err"
    <3>. SUFFICES ASSUME NEW v \in Sent', v \notin Queued'
                  PROVE  (\E u \in Threads : v \in Held(u)') \/ \E u \in Threads : wk'[u].pc = "err"
      OBVIOUS
    <3>1. CASE v = x
      BY <3>1, <1>7
    <3>2. CASE v # x
      <4>1. \/ \E u \in Threads : v \in Held(u)
            \/ \E u \in Threads : wk[u].pc = "err"
        BY <3>2, <1>6, <1>8 DEF Inv, ProgressOK
      <4>. QED
        BY <4>1, <1>1, <1>4, <1>7
    <3>. QED
      BY <3>1, <3>2
  <2>. QED
    BY <2>1, <2>2, <1>0, <1>4, <1>5, <1>8 DEF Inv, ProgressOK, TxDropped
<1>17. MetadataOK'
  BY <1>0, <1>5, MetadataKeeps
<1>. QED
  BY <1>10, <1>11, <1>12, <1>13, <1>14, <1>15, <1>16, <1>17 DEF Inv

(***************************************************************************)
(* The calling thread: what a step of it that leaves the threads, their    *)
(* tables and what was sent alone has to keep.                             *)
(***************************************************************************)
LEMMA MainKeeps ==
    ASSUME Inv, UNCHANGED <<mode, threadVars, queue>>, Sent' = Sent,
           TxDropped => TxDropped',
           TypeOK', ProgressOK', MetadataOK'
    PROVE  Inv'
<1>. USE DEF threadVars
<1>1. \A u \in Threads : WorkerOK(u)'
  BY DEF Inv, WorkerOK
<1>2. /\ Queued' = Queued /\ Second' = Second
      /\ \A u \in Threads : Held(u)' = Held(u)
      /\ \A u \in Threads : \A v, t : Wrote(u, v, t)' <=> Wrote(u, v, t)
      /\ \A v : Target(v)' = Target(v)
  BY ModeFixed DEF Queued, Held, Wrote, Target
<1>3. OwnersOK'
  BY <1>2 DEF Inv, OwnersOK
<1>4. PendingOK'
  BY <1>2 DEF Inv, PendingOK
<1>5. TableOK'
  BY <1>2 DEF Inv, TableOK
<1>6. KeptOK'
  BY <1>2 DEF Inv, KeptOK
<1>. QED
  BY <1>1, <1>3, <1>4, <1>5, <1>6 DEF Inv

(* The calling thread goes to another position and changes nothing else. *)
LEMMA PositionKeeps ==
    ASSUME Inv, UNCHANGED <<mode, threadVars, queue, next, joined, totals, meta>>,
           main' \in MainPcs, producerError' \in BOOLEAN, faults' \in 0 .. MaxFaults,
           TxDropped => TxDropped',
           main' = "send" => next \in Readable,
           TxDropped' /\ ~producerError' => Readable \subseteq Sent,
           main' \in {"metaActive", "meta", "ok"} => joined = Workers /\ ~producerError',
           main' \in {"check", "send", "join", "metaActive"} =>
               main \in {"check", "send", "join", "metaActive"},
           main' = "meta" => main = "join" /\ ~fanout, main' # "ok"
    PROVE  Inv'
<1>. USE DEF threadVars
<1>1. /\ Sent' = Sent /\ Queued' = Queued /\ Readable' = Readable /\ Second' = Second
      /\ \A u \in Threads : Held(u)' = Held(u)
  BY ModeFixed DEF Sent, Queued, Held
<1>2. TypeOK'
  BY DEF Inv, TypeOK, mode
<1>3. ProgressOK'
  BY <1>1 DEF Inv, ProgressOK
<1>4. MetadataOK'
  <2>1. \A t \in Tables : RecordedFor(t)' = RecordedFor(t)
    BY <1>1 DEF RecordedFor, mode
  <2>2. \A t \in Tables : /\ IsNewestFields(patch[t].fields, RecordedFor(t))'
                          /\ IsNewestExtensions(patch[t].extensions, RecordedFor(t))'
    BY <2>1 DEF Inv, MetadataOK, IsNewestFields, IsNewestExtensions
  <2>. QED
    BY <2>2, SetFacts DEF Inv, MetadataOK, mode
<1>. QED
  BY <1>1, <1>2, <1>3, <1>4, MainKeeps

(* The flag is read before an append-vec is offered. *)
LEMMA KeepCheckBeforeSend ==
    ASSUME Inv, CheckBeforeSend, UNCHANGED <<mode, threadVars>>
    PROVE  Inv'
<1>1. main = "check" => next \in Vecs \/ NextFile # "vec"
  BY EntriesAssumption DEF Inv, TypeOK, NextFile, Outcome, Vecs
<1>2. next \in Readable /\ main = "check"
  BY <1>1 DEF CheckBeforeSend, NextFile, Readable, Delivered, Vecs
<1>. QED
  BY <1>2, PositionKeeps DEF CheckBeforeSend, Abandon, Inv, TypeOK, TxDropped, MainPcs

(* Every receiver is gone: the import is abandoned. *)
LEMMA KeepSendDisconnected ==
    ASSUME Inv, SendDisconnected, UNCHANGED <<mode, threadVars>>
    PROVE  Inv'
BY PositionKeeps DEF SendDisconnected, Abandon, Inv, TypeOK, TxDropped, MainPcs

(* The archive's end: everything that can be read has been sent. *)
LEMMA KeepDropTx ==
    ASSUME Inv, DropTx, UNCHANGED <<mode, threadVars>>
    PROVE  Inv'
<1>1. next \in Nat /\ broken \in Nat /\ Len(Entries) \in Nat
  BY ImportAssumption, EntriesAssumption DEF Inv, TypeOK
<1>2. next > Len(Entries) \/ next > broken
  BY <1>1 DEF DropTx, NextFile, Outcome
<1>3. ASSUME NEW v \in Readable PROVE v < next
  <2>1. v \in 1 .. Len(Entries) /\ Outcome(v, Minimum, broken) = "vec"
    BY DEF Readable, Delivered
  <2>2. ~(v > Len(Entries)) /\ ~(v > broken)
    BY <2>1 DEF Outcome
  <2>. QED
    BY <1>1, <1>2, <2>1, <2>2
<1>4. Readable \subseteq Sent
  BY <1>3 DEF Sent
<1>. QED
  BY <1>4, PositionKeeps DEF DropTx, Inv, TypeOK, TxDropped, MainPcs

(* All workers are joined. *)
LEMMA KeepAllJoined ==
    ASSUME Inv, AllJoined, UNCHANGED <<mode, threadVars>>
    PROVE  Inv'
<1>1. TxDropped /\ (~producerError => Readable \subseteq Sent)
  BY DEF AllJoined, TxDropped, Inv, ProgressOK
<1>2. main' \in {"failed", "metaActive", "meta"} /\ (main' = "meta" => ~fanout)
      /\ (main' # "failed" => ~producerError)
  BY DEF AllJoined
<1>. QED
  BY <1>1, <1>2, PositionKeeps DEF AllJoined, Inv, TypeOK, TxDropped, MainPcs

(* A file that gives no append-vec is passed over: what was sent stays the  *)
(* same.                                                                    *)
LEMMA KeepSkip ==
    ASSUME Inv, Skip, UNCHANGED <<mode, threadVars>>
    PROVE  Inv'
<1>. USE DEF threadVars
<1>1. /\ next \in Nat /\ next' = next + 1 /\ Len(Entries) \in Nat /\ broken \in Nat
      /\ main = "check" /\ main' = "check"
      /\ UNCHANGED <<producerError, joined, totals, meta, queue, faults>>
  BY ImportAssumption, EntriesAssumption DEF Inv, TypeOK, Skip
<1>2. next <= Len(Entries) /\ next \notin Readable
  <2>1. NextFile # "end" /\ NextFile # "vec"
    BY DEF Skip
  <2>2. ~(next > Len(Entries)) /\ ~(next > broken)
    BY <2>1 DEF NextFile, Outcome
  <2>3. next \notin Readable
    BY <2>1 DEF NextFile, Readable, Delivered
  <2>. QED
    BY <2>2, <2>3, <1>1
<1>3. Readable' = Readable /\ Second' = Second
  BY ModeFixed
<1>4. Sent' = Sent
  <2>1. \A v \in Readable : v \in Nat /\ v # next
    BY <1>2, SetFacts
  <2>2. \A v \in Readable : v < next + 1 <=> v < next
    BY <2>1, <1>1
  <2>. QED
    BY <2>2, <1>1, <1>3 DEF Sent
<1>5. TypeOK'
  <2>1. next' \in 1 .. Len(Entries) + 1
    BY <1>1, <1>2 DEF Inv, TypeOK
  <2>. QED
    BY <2>1, <1>1 DEF Inv, TypeOK, mode
<1>6. Queued' = Queued /\ \A u \in Threads : Held(u)' = Held(u)
  BY <1>1 DEF Queued, Held
<1>7. ProgressOK'
  BY <1>1, <1>3, <1>4, <1>6 DEF Inv, ProgressOK, TxDropped
<1>8. MetadataOK'
  BY <1>1, MetadataKeeps DEF Inv
<1>. QED
  BY <1>1, <1>4, <1>5, <1>7, <1>8, MainKeeps DEF TxDropped

(* A worker is joined: its statistics are merged, or its error is returned. *)
LEMMA KeepJoin ==
    ASSUME Inv, Join, UNCHANGED <<mode, threadVars>>
    PROVE  Inv'
<1>. USE DEF threadVars
<1>1. /\ main = "join" /\ joined \in Nat /\ joined + 1 \in Threads
      /\ 1 .. joined + 1 = (1 .. joined) \cup {joined + 1} /\ 1 .. joined \subseteq Threads
  BY SetFacts DEF Inv, TypeOK, Join, Threads
<1>2. CASE wk[joined + 1].pc = "ok"
  <2>1. /\ joined' = joined + 1 /\ totals' = totals \cup parsed[joined + 1]
        /\ UNCHANGED <<main, next, producerError, meta, queue, faults>>
    BY <1>2 DEF Join
  <2>2. TypeOK'
    <3>1. joined' \in 0 .. Workers /\ totals' \subseteq Vecs
      <4>1. parsed[joined + 1] \subseteq Vecs /\ totals \subseteq Vecs
        BY <1>1 DEF Inv, TypeOK
      <4>2. joined + 1 \in 0 .. Workers
        BY <1>1, SetFacts DEF Threads
      <4>. QED
        BY <4>1, <4>2, <2>1
    <3>. QED
      BY <3>1, <2>1 DEF Inv, TypeOK, mode
  <2>3. /\ Sent' = Sent /\ Queued' = Queued /\ Readable' = Readable
        /\ \A u \in Threads : Held(u)' = Held(u)
    BY <2>1, ModeFixed DEF Sent, Queued, Held
  <2>4. ProgressOK'
    <3>1. \A w \in 1 .. joined' : wk'[w].pc = "ok"
      BY <1>1, <1>2, <2>1 DEF Inv, ProgressOK
    <3>2. totals' = UNION {parsed'[w] : w \in 1 .. joined'}
      <4>1. totals = UNION {parsed[w] : w \in 1 .. joined}
        BY DEF Inv, ProgressOK
      <4>. QED
        BY <4>1, <1>1, <2>1
    <3>. QED
      BY <3>1, <3>2, <1>1, <2>1, <2>3 DEF Inv, ProgressOK, TxDropped
  <2>5. MetadataOK'
    BY <2>1, MetadataKeeps DEF Inv
  <2>. QED
    BY <2>1, <2>2, <2>3, <2>4, <2>5, MainKeeps DEF TxDropped
<1>3. CASE wk[joined + 1].pc # "ok"
  <2>1. main' = "failed" /\ UNCHANGED <<joined, totals, next, producerError, meta, queue, faults>>
    BY <1>3 DEF Join
  <2>2. ~producerError => Readable \subseteq Sent
    BY <1>1 DEF Inv, ProgressOK, TxDropped
  <2>. QED
    BY <1>1, <2>1, <2>2, PositionKeeps DEF Inv, TypeOK, TxDropped, MainPcs
<1>. QED
  BY <1>2, <1>3

(* The patch of a group is merged into its row. *)
LEMMA MergedType ==
    ASSUME NEW p \in Patches, NEW old \in MetadataRows \cup {None}, NEW keep \in BOOLEAN
    PROVE  WriteMerged(p, old, keep) \in MetadataRows \cup {None}
<1>1. /\ p.fields # None => p.fields.doc \in Nat
      /\ p.extensions # None => p.extensions.doc \in Nat
  BY DEF Patches, Fields, Extensions
<1>2. old # None => old.fields \in Nat /\ old.extensions \in Nat
  BY DEF MetadataRows
<1>. QED
  BY <1>1, <1>2 DEF WriteMerged, MergePatch, MetadataRows

(* The metadata is written after the join. *)
LEMMA KeepWriteMetadata ==
    ASSUME Inv, WriteMetadata, UNCHANGED <<mode, threadVars>>
    PROVE  Inv'
<1>. USE DEF threadVars
<1>1. /\ main \in {"metaActive", "meta"} /\ main' \in {"meta", "ok"}
      /\ main = "metaActive" <=> main' = "meta"
      /\ UNCHANGED <<next, producerError, joined, totals, queue, faults>>
  BY DEF WriteMetadata
<1>2. /\ main = "metaActive" => meta' = [meta EXCEPT ![2] = WriteMerged(patch[2], meta[2], TRUE)]
      /\ main = "meta" => meta' = [meta EXCEPT ![1] = WriteMerged(patch[1], meta[1], preserve)]
  BY DEF WriteMetadata, MetaWritten
<1>3. /\ patch[1] \in Patches /\ patch[2] \in Patches /\ preserve \in BOOLEAN
      /\ meta \in [Tables -> MetadataRows \cup {None}]
      /\ meta[1] \in MetadataRows \cup {None} /\ meta[2] \in MetadataRows \cup {None}
      /\ Tables = {1, 2}
  BY SetFacts DEF Inv, TypeOK
<1>4. /\ WriteMerged(patch[1], meta[1], preserve) \in MetadataRows \cup {None}
      /\ WriteMerged(patch[2], meta[2], TRUE) \in MetadataRows \cup {None}
  BY <1>3, MergedType
<1>5. TypeOK'
  <2>1. meta' \in [Tables -> MetadataRows \cup {None}]
    BY <1>1, <1>2, <1>3, <1>4
  <2>. QED
    BY <2>1, <1>1 DEF Inv, TypeOK, mode, MainPcs
<1>6. /\ Sent' = Sent /\ Queued' = Queued /\ Readable' = Readable /\ Second' = Second
      /\ \A u \in Threads : Held(u)' = Held(u)
  BY <1>1, ModeFixed DEF Sent, Queued, Held
<1>7. ProgressOK'
  BY <1>1, <1>6 DEF Inv, ProgressOK, TxDropped
<1>8. MetadataOK'
  <2>1. \A t \in Tables : RecordedFor(t)' = RecordedFor(t)
    BY <1>6 DEF RecordedFor, mode
  <2>2. \A t \in Tables : /\ IsNewestFields(patch[t].fields, RecordedFor(t))'
                          /\ IsNewestExtensions(patch[t].extensions, RecordedFor(t))'
    BY <2>1 DEF Inv, MetadataOK, IsNewestFields, IsNewestExtensions
  <2>3. /\ main = "metaActive" => meta[1] = Previous /\ meta[2] = Previous
        /\ main = "meta" => meta[1] = Previous
        /\ main = "meta" /\ fanout => meta[2] = WriteMerged(patch[2], Previous, TRUE)
        /\ fanout => ~preserve
    BY <1>3 DEF Inv, MetadataOK
  <2>4. CASE main = "metaActive"
    <3>1. meta'[1] = Previous /\ meta'[2] = WriteMerged(patch[2], Previous, TRUE)
      <4>. DEFINE m == WriteMerged(patch[2], meta[2], TRUE)
      <4>1. m = WriteMerged(patch[2], Previous, TRUE)
        BY <2>3, <2>4
      <4>2. meta' = [meta EXCEPT ![2] = m]
        BY <2>4, <1>2
      <4>. HIDE DEF m
      <4>3. meta'[1] = Previous /\ meta'[2] = m
        BY <2>3, <2>4, <4>2, <1>3
      <4>. QED
        BY <4>1, <4>3
    <3>. QED
      BY <3>1, <2>2, <2>3, <2>4, <1>1 DEF MetadataOK, mode
  <2>5. CASE main = "meta"
    <3>1. meta'[1] = WriteMerged(patch[1], Previous, preserve) /\ meta'[2] = meta[2]
      BY <2>3, <2>5, <1>2, <1>3
    <3>. QED
      BY <3>1, <2>2, <2>3, <2>5, <1>1 DEF MetadataOK, mode
  <2>. QED
    BY <2>4, <2>5, <1>1
<1>. QED
  BY <1>1, <1>5, <1>6, <1>7, <1>8, MainKeeps DEF TxDropped

(* The merged metadata cannot be written: the row may be there nevertheless. *)
LEMMA KeepWriteMetadataFails ==
    ASSUME Inv, WriteMetadataFails, UNCHANGED <<mode, threadVars>>
    PROVE  Inv'
<1>. USE DEF threadVars
<1>1. /\ main \in {"metaActive", "meta"} /\ main' = "failed"
      /\ UNCHANGED <<next, producerError, joined, totals, queue>>
      /\ faults' \in 0 .. MaxFaults
  BY ImportAssumption DEF WriteMetadataFails, Inv, TypeOK
<1>2. meta' \in [Tables -> MetadataRows \cup {None}]
  <2>1. /\ patch[1] \in Patches /\ patch[2] \in Patches /\ preserve \in BOOLEAN
        /\ meta \in [Tables -> MetadataRows \cup {None}]
        /\ meta[1] \in MetadataRows \cup {None} /\ meta[2] \in MetadataRows \cup {None}
        /\ Tables = {1, 2}
    BY SetFacts DEF Inv, TypeOK
  <2>2. /\ WriteMerged(patch[1], meta[1], preserve) \in MetadataRows \cup {None}
        /\ WriteMerged(patch[2], meta[2], TRUE) \in MetadataRows \cup {None}
    BY <2>1, MergedType
  <2>3. MetaWritten \in [Tables -> MetadataRows \cup {None}]
    BY <2>1, <2>2 DEF MetaWritten
  <2>. QED
    BY <2>1, <2>3 DEF WriteMetadataFails
<1>3. /\ Sent' = Sent /\ Queued' = Queued /\ Readable' = Readable /\ Second' = Second
      /\ \A u \in Threads : Held(u)' = Held(u)
  BY <1>1, ModeFixed DEF Sent, Queued, Held
<1>4. TypeOK'
  BY <1>1, <1>2 DEF Inv, TypeOK, mode, MainPcs
<1>5. ProgressOK'
  BY <1>1, <1>3 DEF Inv, ProgressOK, TxDropped
<1>6. MetadataOK'
  <2>1. \A t \in Tables : RecordedFor(t)' = RecordedFor(t)
    BY <1>3 DEF RecordedFor, mode
  <2>2. \A t \in Tables : /\ IsNewestFields(patch[t].fields, RecordedFor(t))'
                          /\ IsNewestExtensions(patch[t].extensions, RecordedFor(t))'
    BY <2>1 DEF Inv, MetadataOK, IsNewestFields, IsNewestExtensions
  <2>. QED
    BY <2>2, <1>1 DEF Inv, MetadataOK, mode
<1>. QED
  BY <1>1, <1>3, <1>4, <1>5, <1>6, MainKeeps DEF TxDropped

(* The queue takes the append-vec, or is full and the flag is read again. *)
LEMMA KeepSend ==
    ASSUME Inv, Send, UNCHANGED <<mode, threadVars>>
    PROVE  Inv'
<1>. USE DEF threadVars
<1>1. /\ main = "send" /\ main' = "check" /\ next \in Readable /\ next \in Vecs
      /\ UNCHANGED <<producerError, joined, totals, meta, faults>>
      /\ queue \in Seq(Vecs) /\ Len(queue) \in Nat
  BY SetFacts DEF Inv, TypeOK, ProgressOK, Send
<1>2. CASE UNCHANGED <<queue, next>>
  BY <1>1, <1>2, PositionKeeps DEF Inv, TypeOK, TxDropped, MainPcs
<1>3. CASE Len(queue) < Workers /\ queue' = Append(queue, next) /\ next' = next + 1
  <2>. DEFINE n == Len(queue)
  <2>1. /\ queue' \in Seq(Vecs) /\ Len(queue') = n + 1 /\ queue'[n + 1] = next
        /\ \A i \in 1 .. n : queue'[i] = queue[i]
    BY <1>1, <1>3, AppendProperties
  <2>2. 1 .. Len(queue') = (1 .. n) \cup {n + 1} /\ n + 1 \notin 1 .. n
    BY <2>1, <1>1
  <2>3. Queued' = Queued \cup {next}
    <3>1. ASSUME NEW v PROVE v \in Queued' <=> v \in Queued \cup {next}
      BY <2>1, <2>2 DEF Queued
    <3>. QED
      BY <3>1
  <2>4. Readable' = Readable /\ Second' = Second
    BY ModeFixed
  <2>5. Sent' = Sent \cup {next} /\ next \notin Sent
    <3>1. next \in Nat /\ \A v \in Readable : v \in Nat
      BY <1>1, SetFacts
    <3>2. (\A v \in Readable : v < next + 1 <=> (v < next \/ v = next)) /\ ~(next < next)
      BY <3>1
    <3>3. Sent' = {v \in Readable : v < next + 1}
      BY <2>4, <1>3 DEF Sent
    <3>. QED
      BY <3>2, <3>3, <1>1 DEF Sent
  <2>6. /\ \A u \in Threads : Held(u)' = Held(u) /\ next \notin Held(u)
        /\ \A u \in Threads : \A v, t : Wrote(u, v, t)' <=> Wrote(u, v, t)
        /\ \A v : Target(v)' = Target(v)
        /\ next \notin Queued
    BY <2>4, <2>5 DEF Held, Wrote, Target, Inv, OwnersOK
  <2>7. \A t \in Tables : rows[t][next] = 0
    BY <1>1, <2>5 DEF Inv, TableOK
  <2>10. TypeOK'
    <3>1. next' \in 1 .. Len(Entries) + 1
      BY <1>1, <1>3, EntriesAssumption DEF Vecs
    <3>2. Len(queue') <= Workers
      BY <2>1, <1>1, <1>3, SetFacts
    <3>. QED
      BY <3>1, <3>2, <1>1, <2>1 DEF Inv, TypeOK, mode, MainPcs
  <2>11. \A u \in Threads : WorkerOK(u)'
    BY <1>1 DEF Inv, WorkerOK, TxDropped
  <2>12. OwnersOK'
    <3>1. \A i, j \in 1 .. n : queue[i] = queue[j] => i = j
      BY DEF Inv, OwnersOK
    <3>2. \A i \in 1 .. n : queue[i] # next
      BY <2>6 DEF Queued
    <3>3. \A i, j \in 1 .. Len(queue') : queue'[i] = queue'[j] => i = j
      BY <3>1, <3>2, <2>1, <2>2
    <3>4. Queued' \subseteq Sent'
      BY <2>3, <2>5 DEF Inv, OwnersOK
    <3>5. \A u \in Threads : Held(u)' \subseteq Sent' \ Queued' /\ wk'[u].vec \notin parsed'[u]
      BY <2>3, <2>5, <2>6 DEF Inv, OwnersOK
    <3>. QED
      BY <3>3, <3>4, <3>5, <2>6 DEF Inv, OwnersOK
  <2>13. PendingOK'
    BY <2>6 DEF Inv, PendingOK
  <2>14. TableOK'
    <3>. SUFFICES ASSUME NEW t \in Tables, NEW v \in Vecs, rows'[t][v] # 0
                  PROVE  /\ rows'[t][v] = 1 /\ t \in Target(v)' /\ v \in Sent' \ Queued'
                         /\ \A u \in Threads : wk'[u].vec = v => Wrote(u, v, t)'
      BY DEF TableOK
    <3>1. /\ rows[t][v] = 1 /\ t \in Target(v) /\ v \in Sent \ Queued
          /\ \A u \in Threads : wk[u].vec = v => Wrote(u, v, t)
      BY DEF Inv, TableOK
    <3>. QED
      BY <3>1, <2>3, <2>5, <2>6
  <2>15. KeptOK'
    BY <2>6 DEF Inv, KeptOK
  <2>16. ProgressOK'
    BY <1>1, <2>3, <2>5, <2>6 DEF Inv, ProgressOK, TxDropped
  <2>17. MetadataOK'
    <3>1. \A t \in Tables : RecordedFor(t)' = RecordedFor(t)
      BY <2>4 DEF RecordedFor, mode
    <3>2. \A t \in Tables : /\ IsNewestFields(patch[t].fields, RecordedFor(t))'
                            /\ IsNewestExtensions(patch[t].extensions, RecordedFor(t))'
      BY <3>1 DEF Inv, MetadataOK, IsNewestFields, IsNewestExtensions
    <3>. QED
      BY <3>2, <1>1 DEF Inv, MetadataOK, mode
  <2>. QED
    BY <2>10, <2>11, <2>12, <2>13, <2>14, <2>15, <2>16, <2>17 DEF Inv
<1>. QED
  BY <1>2, <1>3 DEF Send

----------------------------------------------------------------------------

(* A new import: nothing is sent, nothing is written. *)
LEMMA InitInv == Init => Inv
<1>. SUFFICES ASSUME Init PROVE Inv
  OBVIOUS
<1>. DEFINE k == At("start", None, 1)
<1>1. k \in Positions /\ k.pc = "start" /\ k.vec = None /\ k.table = 1 /\ k.io = "no"
  BY AtFields DEF WorkerPcs
<1>2. \A w \in Threads : wk[w] = k /\ parsed[w] = {} /\ \A t \in Tables : pending[w][t] = {}
  BY DEF Init
<1>3. TypeOK
  <2>1. wk \in [Threads -> Positions]
    BY <1>1 DEF Init
  <2>2. /\ fanout \in BOOLEAN /\ preserve \in BOOLEAN /\ broken \in Breaks
        /\ main \in MainPcs /\ producerError \in BOOLEAN /\ cancelled \in BOOLEAN
    BY DEF Init, MainPcs
  <2>3. /\ next \in 1 .. Len(Entries) + 1 /\ queue \in Seq(Vecs) /\ Len(queue) <= Workers
        /\ joined \in 0 .. Workers /\ totals \subseteq Vecs /\ faults \in 0 .. MaxFaults
    BY ImportAssumption, EntriesAssumption DEF Init
  <2>4. /\ pending \in [Threads -> [Tables -> SUBSET Vecs]]
        /\ parsed \in [Threads -> SUBSET Vecs]
        /\ rows \in [Tables -> [Vecs -> Nat]]
    BY DEF Init
  <2>5. patch \in [Tables -> Patches] /\ meta \in [Tables -> MetadataRows \cup {None}]
    BY ImportAssumption DEF Init, EmptyPatch, Patches
  <2>. QED
    BY <2>1, <2>2, <2>3, <2>4, <2>5 DEF TypeOK, Positions
<1>4. \A w \in Threads : WorkerOK(w)
  BY <1>1, <1>2, SetFacts DEF WorkerOK
<1>5. Sent = {} /\ Queued = {} /\ \A w \in Threads : Held(w) = {}
  <2>1. \A v \in Readable : ~(v < 1)
    BY DEF Readable, Delivered
  <2>. QED
    BY <2>1, <1>1, <1>2 DEF Init, Sent, Queued, Held
<1>6. OwnersOK
  BY <1>1, <1>2, <1>5 DEF OwnersOK, Init
<1>7. PendingOK /\ TableOK /\ KeptOK
  BY <1>2, <1>5 DEF PendingOK, TableOK, KeptOK, Init
<1>8. ProgressOK
  BY <1>5 DEF ProgressOK, Init, TxDropped
<1>9. MetadataOK
  <2>1. \A t \in Tables : RecordedFor(t) = {} /\ patch[t].fields = None /\ patch[t].extensions = None
    BY <1>2 DEF RecordedFor, Init, EmptyPatch
  <2>. QED
    BY <2>1 DEF MetadataOK, IsNewestFields, IsNewestExtensions, Init
<1>. QED
  BY <1>3, <1>4, <1>6, <1>7, <1>8, <1>9 DEF Inv

(* No step changes anything: the invariant stays. *)
LEMMA KeepStutter ==
    ASSUME Inv, UNCHANGED vars
    PROVE  Inv'
<1>. USE DEF vars, mode, mainVars, threadVars
<1>1. Sent' = Sent
  BY ModeFixed DEF Sent
<1>2. /\ Queued' = Queued /\ Readable' = Readable /\ Second' = Second
      /\ \A u \in Threads : Held(u)' = Held(u)
  BY ModeFixed DEF Queued, Held
<1>3. TypeOK' /\ ProgressOK'
  BY <1>1, <1>2 DEF Inv, TypeOK, ProgressOK, TxDropped
<1>4. MetadataOK'
  BY MetadataKeeps
<1>. QED
  BY <1>1, <1>3, <1>4, MainKeeps DEF TxDropped

(* Every step of every thread keeps the invariant. *)
LEMMA StepInv == Inv /\ [Next]_vars => Inv'
<1>. SUFFICES ASSUME Inv, [Next]_vars PROVE Inv'
  OBVIOUS
<1>1. CASE MainStep
  BY <1>1, KeepSkip, KeepCheckBeforeSend, KeepSend, KeepSendDisconnected, KeepDropTx, KeepJoin,
     KeepAllJoined, KeepWriteMetadata, KeepWriteMetadataFails DEF MainStep
<1>2. ASSUME NEW w \in Threads, WorkerStep(w) PROVE Inv'
  BY <1>2, KeepStart, KeepDies, KeepCheckCancelled, KeepIdle, KeepDisconnected, KeepPass, KeepDue,
     KeepWrite, KeepParsed, KeepAcquire, KeepInsertDone, KeepInsertFails, KeepWriteFails
     DEF WorkerStep
<1>3. ASSUME NEW w \in Threads, ReceiveStep(w) PROVE Inv'
  BY <1>3, KeepReceive
<1>4. CASE UNCHANGED vars
  BY <1>4, KeepStutter
<1>. QED
  BY <1>1, <1>2, <1>3, <1>4 DEF Next, Terminated

(***************************************************************************)
(* In every state of an import the invariant holds: every append-vec is in *)
(* one place and every one of its rows is in an open INSERT, in its table  *)
(* once, or lost with a worker that failed.                                *)
(***************************************************************************)
THEOREM InvHolds == Spec => []Inv
BY InitInv, StepInv, PTL DEF Spec

(***************************************************************************)
(* The types; the queue of crossbeam's bounded channel never holds more    *)
(* than one append-vec per worker.                                         *)
(***************************************************************************)
THEOREM TypeCorrect == Spec => []TypeOK
<1>1. Inv => TypeOK
  BY DEF Inv
<1>. QED
  BY <1>1, InvHolds, PTL

(***************************************************************************)
(* All workers have returned Ok and everything was sent: nobody has an     *)
(* append-vec or an open INSERT any more, every append-vec that the reader *)
(* delivered is in the statistics, and all its rows are in their tables.   *)
(***************************************************************************)
LEMMA AllDone ==
    ASSUME Inv, main \in {"metaActive", "meta", "ok"}
    PROVE  /\ \A w \in Threads : wk[w].pc = "ok"
           /\ UNION {parsed[w] : w \in Threads} = Readable
           /\ totals = Readable
           /\ \A v \in Readable : \A t \in Target(v) : rows[t][v] = 1
<1>1. joined = Workers /\ ~producerError /\ 1 .. joined = Threads
  BY DEF Inv, ProgressOK, Threads
<1>2. \A w \in Threads : wk[w].pc = "ok"
  BY <1>1 DEF Inv, ProgressOK
<1>3. Sent = Readable
  BY <1>1 DEF Inv, ProgressOK, TxDropped, Sent
<1>4. Queued = {}
  <2>1. 1 \in Threads
    BY SetFacts DEF Threads
  <2>2. queue = <<>>
    BY <2>1, <1>2 DEF Inv, WorkerOK
  <2>. QED
    BY <2>2 DEF Queued
<1>5. \A w \in Threads : Held(w) = parsed[w]
  BY <1>2, PositionFacts DEF Held
<1>6. \A v \in Readable : \E w \in Threads : v \in parsed[w]
  BY <1>2, <1>3, <1>4, <1>5 DEF Inv, ProgressOK
<1>7. \A w \in Threads : parsed[w] \subseteq Readable
  BY <1>3, <1>5 DEF Inv, OwnersOK
<1>8. UNION {parsed[w] : w \in Threads} = Readable
  BY <1>6, <1>7
<1>9. totals = Readable
  BY <1>1, <1>8 DEF Inv, ProgressOK
<1>10. ASSUME NEW v \in Readable, NEW t \in Target(v) PROVE rows[t][v] = 1
  <2>1. t \in Tables
    BY TargetTables
  <2>2. PICK w \in Threads : v \in parsed[w]
    BY <1>6
  <2>3. v \in Held(w) /\ Wrote(w, v, t) /\ wk[w].pc # "err"
    BY <2>2, <1>2, <1>5 DEF Wrote
  <2>4. v \in pending[w][t] \/ rows[t][v] = 1
    BY <2>3 DEF Inv, KeptOK
  <2>5. pending[w][t] = {}
    BY <2>1, <1>2 DEF Inv, WorkerOK
  <2>. QED
    BY <2>4, <2>5
<1>. QED
  BY <1>2, <1>8, <1>9, <1>10

(* There is one newest candidate: the one that the reference chooses. *)
LEMMA OneNewestFields ==
    ASSUME NEW vs \in SUBSET Vecs, NEW f \in Fields \cup {None}, IsNewestFields(f, vs)
    PROVE  f = NewestFields(vs)
<1>. DEFINE cs == {FieldsOf[v] : v \in vs} \ {None}
<1>1. \A v \in vs : FieldsOf[v] \in Fields \cup {None}
  BY ImportAssumption
<1>2. CASE f = None
  <2>1. cs = {}
    BY <1>2 DEF IsNewestFields
  <2>. QED
    BY <2>1, <1>2 DEF NewestFields
<1>3. CASE f # None
  <2>1. f \in cs /\ \A d \in cs : d = f \/ NewerFields(f, d)
    BY <1>3 DEF IsNewestFields
  <2>2. cs \subseteq Fields
    BY <1>1
  <2>. HIDE DEF cs
  <2>. DEFINE best(c) == \A d \in cs : d = c \/ NewerFields(c, d)
  <2>3. \A c \in cs : best(c) => c = f
    BY <2>1, <2>2, FieldsOrder
  <2>4. f = CHOOSE c \in cs : best(c)
    <3>1. f \in cs /\ best(f)
      BY <2>1
    <3>. HIDE DEF best
    <3>. QED
      BY <2>3, <3>1
  <2>5. cs # {}
    BY <2>1
  <2>6. NewestFields(vs) = IF cs = {} THEN None ELSE CHOOSE c \in cs : best(c)
    BY Zenon DEF NewestFields, cs
  <2>. HIDE DEF best
  <2>. QED
    BY <2>4, <2>5, <2>6
<1>. QED
  BY <1>2, <1>3

(* The same of extensions. *)
LEMMA OneNewestExtensions ==
    ASSUME NEW vs \in SUBSET Vecs, NEW x \in Extensions \cup {None}, IsNewestExtensions(x, vs)
    PROVE  x = NewestExtensions(vs)
<1>. DEFINE cs == {ExtensionsOf[v] : v \in vs} \ {None}
<1>1. \A v \in vs : ExtensionsOf[v] \in Extensions \cup {None}
  BY ImportAssumption
<1>2. CASE x = None
  <2>1. cs = {}
    BY <1>2 DEF IsNewestExtensions
  <2>. QED
    BY <2>1, <1>2 DEF NewestExtensions
<1>3. CASE x # None
  <2>1. x \in cs /\ \A d \in cs : d = x \/ NewerExtensions(x, d)
    BY <1>3 DEF IsNewestExtensions
  <2>2. cs \subseteq Extensions
    BY <1>1
  <2>. HIDE DEF cs
  <2>. DEFINE best(c) == \A d \in cs : d = c \/ NewerExtensions(c, d)
  <2>3. \A c \in cs : best(c) => c = x
    BY <2>1, <2>2, ExtensionsOrder
  <2>4. x = CHOOSE c \in cs : best(c)
    <3>1. x \in cs /\ best(x)
      BY <2>1
    <3>. HIDE DEF best
    <3>. QED
      BY <2>3, <3>1
  <2>5. cs # {}
    BY <2>1
  <2>6. NewestExtensions(vs) = IF cs = {} THEN None ELSE CHOOSE c \in cs : best(c)
    BY Zenon DEF NewestExtensions, cs
  <2>. HIDE DEF best
  <2>. QED
    BY <2>4, <2>5, <2>6
<1>. QED
  BY <1>2, <1>3

(* The patch of a group is the newest of what the group was given. *)
LEMMA PatchIsReference ==
    ASSUME Inv, NEW t \in Tables
    PROVE  patch[t] = [fields |-> NewestFields(RecordedFor(t)),
                       extensions |-> NewestExtensions(RecordedFor(t))]
<1>1. patch[t] \in Patches
  BY DEF Inv, TypeOK
<1>2. /\ patch[t].fields \in Fields \cup {None} /\ patch[t].extensions \in Extensions \cup {None}
      /\ patch[t] = [fields |-> patch[t].fields, extensions |-> patch[t].extensions]
  BY <1>1 DEF Patches
<1>3. RecordedFor(t) \in SUBSET Vecs
  BY DEF RecordedFor, Inv, TypeOK
<1>4. patch[t].fields = NewestFields(RecordedFor(t))
  BY <1>2, <1>3, OneNewestFields DEF Inv, MetadataOK
<1>5. patch[t].extensions = NewestExtensions(RecordedFor(t))
  BY <1>2, <1>3, OneNewestExtensions DEF Inv, MetadataOK
<1>. QED
  BY <1>2, <1>4, <1>5

(***************************************************************************)
(* The merged statistics and the metadata rows of a successful import are  *)
(* those of the archive, whatever the threads' schedule                    *)
(* (SharedMetadataCollector, the join loop).                               *)
(***************************************************************************)
THEOREM ScheduleFree == Spec => []ResultScheduleFree
<1>1. Inv => ResultScheduleFree
  <2>. SUFFICES ASSUME Inv, main = "ok"
                PROVE  /\ totals = Readable
                       /\ meta[1] = ReferenceRow(Readable, preserve)
                       /\ fanout => meta[2] = ReferenceRow(Readable \cap Second, TRUE)
    BY DEF ResultScheduleFree
  <2>1. UNION {parsed[w] : w \in Threads} = Readable /\ totals = Readable
    BY AllDone
  <2>2. RecordedFor(1) = Readable /\ (fanout => RecordedFor(2) = Readable \cap Second)
    BY <2>1 DEF RecordedFor
  <2>3. 1 \in Tables /\ 2 \in Tables
    BY SetFacts
  <2>4. meta[1] = WriteMerged(patch[1], Previous, preserve)
    BY DEF Inv, MetadataOK
  <2>5. fanout => meta[2] = WriteMerged(patch[2], Previous, TRUE)
    BY DEF Inv, MetadataOK
  <2>6. meta[1] = ReferenceRow(Readable, preserve)
    <3>1. patch[1] = [fields |-> NewestFields(Readable), extensions |-> NewestExtensions(Readable)]
      BY <2>2, <2>3, PatchIsReference
    <3>. QED
      BY <3>1, <2>4 DEF ReferenceRow
  <2>7. ASSUME fanout PROVE meta[2] = ReferenceRow(Readable \cap Second, TRUE)
    <3>1. patch[2] = [fields |-> NewestFields(Readable \cap Second),
                      extensions |-> NewestExtensions(Readable \cap Second)]
      BY <2>2, <2>3, <2>7, PatchIsReference
    <3>. QED
      BY <3>1, <2>5, <2>7 DEF ReferenceRow
  <2>. QED
    BY <2>1, <2>6, <2>7
<1>. QED
  BY <1>1, InvHolds, PTL

----------------------------------------------------------------------------
(* The threads implement ImportContract. *)

(* A row of the contract and the rows of the tables. *)
Landed == [r \in Tables \X Vecs |-> rows[r[1]][r[2]]]
Status == IF Returned THEN main ELSE "running"

(* What the archive gives does not change. *)
LEMMA ArchiveFixed ==
    ASSUME UNCHANGED mode
    PROVE  ArchiveRows' = ArchiveRows
BY ModeFixed DEF ArchiveRows, Target

(* A state's rows, as the contract sees them, are there at most once. *)
LEMMA LandedType ==
    ASSUME Inv
    PROVE  Landed \in [Tables \X Vecs -> {0, 1}]
<1>1. \A t \in Tables, v \in Vecs : rows[t][v] \in {0, 1}
  BY DEF Inv, TableOK
<1>. QED
  BY <1>1 DEF Landed

(* A worker that is not through keeps the import from returning Ok. *)
LEMMA WorkerHoldsReturn ==
    ASSUME Inv, NEW w \in Threads, wk[w].pc # "ok"
    PROVE  main \notin {"metaActive", "meta", "ok"}
BY AllDone

(* A finalized INSERT is an Insert of the contract. *)
LEMMA CommitRefines ==
    ASSUME Inv, Inv', NEW w \in Threads, wk[w].io = "insert", rows' = Committed(w),
           UNCHANGED <<mode, mainVars>>
    PROVE  Contract!Insert
<1>1. Status # "ok" /\ Status' = Status
  <2>1. wk[w].pc # "ok"
    BY DEF Inv, WorkerOK
  <2>. QED
    BY <2>1, WorkerHoldsReturn DEF Status, Returned, mainVars
<1>2. ArchiveRows' = ArchiveRows
  BY ArchiveFixed
<1>3. Landed' \in [Tables \X Vecs -> {0, 1}]
  <2>1. \A t \in Tables, v \in Vecs : rows'[t][v] \in {0, 1}
    BY DEF Inv, TableOK
  <2>. QED
    BY <2>1 DEF Landed
<1>4. ASSUME NEW r \in Tables \X Vecs, Landed'[r] # Landed[r]
      PROVE  r \in ArchiveRows /\ Landed[r] = 0
  <2>. DEFINE t == r[1]  v == r[2]
  <2>1. t \in Tables /\ v \in Vecs /\ Landed'[r] = rows'[t][v] /\ Landed[r] = rows[t][v]
    BY DEF Landed
  <2>2. t = wk[w].table /\ v \in pending[w][t]
    BY <1>4, <2>1, CommittedRows
  <2>3. t \in Target(v) /\ Wrote(w, v, t) /\ rows[t][v] = 0
    BY <2>1, <2>2, PendingFacts
  <2>4. v \in Held(w)
    BY <2>1, <2>3, SetFacts DEF Wrote, Held
  <2>5. v \in Readable
    BY <2>4 DEF Inv, OwnersOK, Sent
  <2>6. r \in Tables \X Readable
    BY <2>1, <2>5
  <2>. QED
    BY <2>1, <2>3, <2>6 DEF ArchiveRows
<1>5. {r \in Tables \X Vecs : Landed'[r] # Landed[r]} \subseteq {r \in ArchiveRows : Landed[r] = 0}
  BY <1>4
<1>. QED
  BY <1>1, <1>2, <1>3, <1>5 DEF Contract!Insert, Landed, Status

(* Steps that leave the tables and the result alone are not the contract's. *)
LEMMA QuietRefines ==
    ASSUME UNCHANGED <<mode, rows>>, Status' = Status
    PROVE  UNCHANGED Contract!vars
BY ArchiveFixed DEF Contract!vars, Status

(* A worker's step inserts rows or is not visible. *)
LEMMA WorkerRefines ==
    ASSUME Inv, Inv', NEW w \in Threads, WorkerStep(w) \/ ReceiveStep(w)
    PROVE  [Contract!Next]_(Contract!vars)
<1>1. UNCHANGED <<mode, mainVars>>
  BY DEF WorkerStep, ReceiveStep
<1>2. Status' = Status
  BY <1>1 DEF Status, Returned, mainVars
<1>3. CASE rows' = rows
  BY <1>1, <1>2, <1>3, QuietRefines
<1>4. CASE rows' # rows
  <2>1. wk[w].io = "insert" /\ rows' = Committed(w)
    BY <1>4 DEF WorkerStep, ReceiveStep, Receive, Start, Dies, CheckCancelled, Idle, Disconnected,
                Pass, Due, Write, Parsed, Acquire, InsertDone, InsertFails, WriteFails
  <2>. QED
    BY <2>1, <1>1, CommitRefines DEF Contract!Next
<1>. QED
  BY <1>3, <1>4

(* A step of the calling thread returns or is not visible. *)
LEMMA MainRefines ==
    ASSUME Inv, MainStep
    PROVE  [Contract!Next]_(Contract!vars)
<1>1. UNCHANGED <<mode, rows>>
  BY DEF MainStep, threadVars
<1>2. CASE Status' = Status
  BY <1>1, <1>2, QuietRefines
<1>3. CASE Status' # Status
  <2>0. main \notin {"ok", "failed"} /\ main' \in {"ok", "failed"}
        /\ (main' = "ok" => main = "meta")
    BY <1>3 DEF Status, Returned, MainStep, Skip, CheckBeforeSend, Abandon, Send,
                SendDisconnected, DropTx, Join, AllJoined, WriteMetadata, WriteMetadataFails
  <2>1. Status = "running" /\ Status' = main'
    BY <2>0 DEF Status, Returned
  <2>2. ArchiveRows' = ArchiveRows /\ Landed' = Landed
    BY <1>1, ArchiveFixed DEF Landed
  <2>3. CASE main' = "failed"
    BY <2>1, <2>2, <2>3 DEF Contract!Next, Contract!Fail, Status, Landed
  <2>4. CASE main' = "ok"
    <3>1. \A v \in Readable : \A t \in Target(v) : rows[t][v] = 1
      BY <2>0, <2>4, AllDone
    <3>2. \A r \in ArchiveRows : Landed[r] = 1
      BY <3>1, SetFacts DEF ArchiveRows, Landed
    <3>. QED
      BY <2>1, <2>2, <2>4, <3>2 DEF Contract!Next, Contract!Succeed, Status, Landed
  <2>. QED
    BY <2>0, <2>3, <2>4
<1>. QED
  BY <1>2, <1>3

(***************************************************************************)
(* The threads implement the import's contract: no row twice, none that is *)
(* not in the archive, Ok only when every row of every append-vec that the *)
(* reader delivered is in its table, and no INSERT after that.             *)
(***************************************************************************)
THEOREM ImplementsContract == Spec => ContractKept
<1>1. Init => Contract!Init
  <2>. SUFFICES ASSUME Init PROVE Contract!Init
    OBVIOUS
  <2>1. ArchiveRows \subseteq Tables \X Vecs
    BY SetFacts DEF ArchiveRows
  <2>2. Status = "running"
    BY DEF Init, Status, Returned
  <2>3. Landed = [r \in Tables \X Vecs |-> 0]
    BY DEF Init, Landed
  <2>. QED
    BY <2>1, <2>2, <2>3 DEF Contract!Init, Status, Landed
<1>2. Inv /\ Inv' /\ [Next]_vars => [Contract!Next]_(Contract!vars)
  <2>. SUFFICES ASSUME Inv, Inv', [Next]_vars PROVE [Contract!Next]_(Contract!vars)
    OBVIOUS
  <2>1. CASE UNCHANGED vars
    <3>1. UNCHANGED <<mode, rows>> /\ Status' = Status
      BY <2>1 DEF vars, threadVars, mainVars, Status, Returned
    <3>. QED
      BY <3>1, QuietRefines
  <2>. QED
    BY <2>1, WorkerRefines, MainRefines DEF Next, Terminated
<1>. QED
  BY <1>1, <1>2, InvHolds, PTL DEF Spec, ContractKept, Contract!Safety
=============================================================================

----------------------------- MODULE ImportRetry -----------------------------
(***************************************************************************)
(* The shared full load after a failed fan-out: the watcher truncates _bak *)
(* (table 1; active keeps its rows) and repeats the import of the same     *)
(* archive.  Workers that the failed attempt did not join are still there. *)
(* Of what they may do, only this is modelled: an INSERT that has been     *)
(* sent for finalization lands.                                            *)
(***************************************************************************)
EXTENDS MCParallelImport

CONSTANT MaxAttempts  \* bound

VARIABLES
    attempt,
    stray     \* INSERTs <<table, rows>> of workers that nobody waits for

retryVars == <<attempt, stray>>

RetryInit == Init /\ fanout /\ attempt = 1 /\ stray = {}

Straggling == {w \in Threads : wk[w].io = "insert"}

(* run_incremental_snapshots: the error is logged, merges are stopped, _bak *)
(* is truncated, and the next round starts over.                            *)
Retry ==
    /\ main = "failed"
    /\ attempt < MaxAttempts
    /\ attempt' = attempt + 1
    /\ stray' = stray \cup {<<wk[w].table, pending[w][wk[w].table]>> : w \in Straggling}
    /\ main' = "check" /\ next' = 1 /\ producerError' = FALSE
    /\ queue' = <<>> /\ cancelled' = FALSE /\ joined' = 0 /\ totals' = {}
    /\ wk' = [w \in Threads |-> At("start", None, 1)]
    /\ pending' = [w \in Threads |-> [t \in Tables |-> {}]]
    /\ parsed' = [w \in Threads |-> {}]
    /\ rows' = [rows EXCEPT ![1] = [v \in Vecs |-> 0]]
    /\ patch' = [t \in Tables |-> EmptyPatch]
    /\ UNCHANGED <<mode, meta, faults>>

StrayInsert ==
    /\ \E s \in stray :
          /\ rows' = [rows EXCEPT ![s[1]] =
                        [v \in Vecs |-> IF v \in s[2] THEN @[v] + 1 ELSE @[v]]]
          /\ stray' = stray \ {s}
    /\ UNCHANGED <<mode, mainVars, queue, wk, pending, parsed, patch, cancelled,
                   faults, attempt>>

RetryNext == (Next /\ UNCHANGED retryVars) \/ Retry \/ StrayInsert

RetrySpec == RetryInit /\ [][RetryNext]_<<vars, retryVars>>

(***************************************************************************)
(* After a successful full load of _bak each row of the archive is there   *)
(* exactly once: refresh_hot_indexes sums the new baseline without FINAL.  *)
(***************************************************************************)
OneRowEach ==
    main = "ok" => \A v \in Readable : rows[1][v] = 1
=============================================================================

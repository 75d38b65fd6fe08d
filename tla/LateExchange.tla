---------------------------- MODULE LateExchange ----------------------------
(***************************************************************************)
(* TableExchange with a ClickHouse that goes on executing an EXCHANGE whose *)
(* client has gone: the watcher is killed, or its connection fails, while   *)
(* the statement waits in the server, and the server executes it later.     *)
(* exchange_table_groups compares UUIDs read at the start of an attempt.    *)
(***************************************************************************)
EXTENDS MCTableExchange

VARIABLE late  \* the pair whose EXCHANGE is still in the server

InitLate == Init /\ late = None

CrashInStatement ==
    /\ late = None
    /\ \E i \in Pairs : AtPair(i) /\ Verdict(i) = "exchange" /\ late' = i
    /\ Crash

ExecuteLate ==
    /\ late # None
    /\ pair' = [pair EXCEPT ![late] = Swapped(@)]
    /\ late' = None
    /\ UNCHANGED <<pc, journal, nextId, last, now, at>>

NextLate == CrashInStatement \/ ExecuteLate \/ (Next /\ UNCHANGED late)

SpecLate == InitLate /\ [][NextLate]_<<vars, late>>
=============================================================================

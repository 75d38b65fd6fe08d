--------------------------- MODULE TableExchange ---------------------------
(***************************************************************************)
(* The cutover pair by pair: finish_cutover (main.rs) and                  *)
(* exchange_table_groups (clickhouse.rs).  A group has N tables; pair i is *)
(* the i-th of GROUP_MERGE_TABLES under its active and its _bak name.      *)
(* EXCHANGE TABLES is atomic for one pair only.  The UUIDs of all tables   *)
(* are checkpointed before the first pair moves, and every attempt         *)
(* compares them with the ones it finds.                                   *)
(*                                                                         *)
(* run.sh starts the watcher and the repair command under one lock, so a   *)
(* repair runs only while the watcher is down.                             *)
(***************************************************************************)
EXTENDS Naturals, Sequences

CONSTANTS
    N,        \* the number of pairs
    Rebuild,  \* tables built in a clone and swapped in, in order: [table, from]
    MaxGen,   \* bound on the generations built
    MaxId,    \* bound on the UUIDs given out for one pair
    None

ASSUME ExchangeAssumption ==
    /\ N \in Nat \ {0} /\ MaxGen \in Nat /\ MaxId \in Nat
    /\ Rebuild \in Seq([table : 1..N, from : (SUBSET (1..N)) \ {{}}])

VARIABLES
    pc,       \* "down", "loop", or "attempt" inside exchange_table_groups
    journal,  \* the durable state: phase of both lanes, active's full slot, checkpoint
    pair,     \* pair[i].active and pair[i].bak, the tables that have the two names
    nextId,   \* the next UUID
    last,     \* the newest generation built
    now,      \* active_now and backup_now
    at        \* the pair the attempt has come to

vars == <<pc, journal, pair, nextId, last, now, at>>

Pairs == 1..N
(* A table: its UUID, and the generations its rows come from. *)
Tables == [id : Nat, gens : SUBSET Nat]
Identities == [active : [Pairs -> Nat], bak : [Pairs -> Nat]]

(* Option::None is no checkpoint and no slot. *)
ASSUME NoneAssumption == None \notin Identities \cup Nat

(* table_group_identity of both groups. *)
Found == [active |-> [i \in Pairs |-> pair[i].active.id],
          bak |-> [i \in Pairs |-> pair[i].bak.id]]

Swapped(p) == [active |-> p.bak, bak |-> p.active]

Init ==
    /\ pc = "down"
    /\ journal = [phase |-> "serving", gen |-> 0, ckpt |-> None]
    /\ pair = [i \in Pairs |-> [active |-> [id |-> 0, gens |-> {0}],
                                bak |-> [id |-> 1, gens |-> {}]]]
    /\ nextId = 2 /\ last = 0
    /\ now = None /\ at = 0

-----------------------------------------------------------------------------
(* The watcher before and between attempts. *)

Start ==
    /\ pc = "down"
    /\ pc' = "loop"
    /\ UNCHANGED <<journal, pair, nextId, last, now, at>>

(* A kill, or an exit because a statement or a check of the staging group    *)
(* failed.  A statement that was executed and whose answer is lost is an     *)
(* ExchangePair followed by this.                                            *)
Crash ==
    /\ pc # "down"
    /\ pc' = "down" /\ now' = None /\ at' = 0
    /\ UNCHANGED <<journal, pair, nextId, last>>

(* --bootstrap gives up the journal, a checkpoint in it included. *)
Bootstrap ==
    /\ pc = "down"
    /\ pc' = "loop"
    /\ journal' = [phase |-> "serving", gen |-> None, ckpt |-> None]
    /\ UNCHANGED <<pair, nextId, last, now, at>>

RebuiltTables == {Rebuild[k].table : k \in 1..Len(Rebuild)}

(* The staging lane is truncated, loaded, its derived tables rebuilt in      *)
(* clones, and continued by an incremental; both lanes are cutover_pending.  *)
BuildStaging ==
    /\ pc = "loop" /\ journal.phase = "serving"
    /\ last < MaxGen /\ nextId < MaxId
    /\ last' = last + 1
    /\ nextId' = nextId + 1
    /\ pair' = [i \in Pairs |->
                  [pair[i] EXCEPT !.bak =
                      [id |-> IF i \in RebuiltTables THEN nextId ELSE @.id,
                       gens |-> {last + 1}]]]
    /\ journal' = [journal EXCEPT !.phase = "pending"]
    /\ UNCHANGED <<pc, now, at>>

(* --clickhouse-rebuild-hot: the derived active tables are built again from  *)
(* the other active tables, one after the other; the command may stop early. *)
RebuiltFrom(p, k) ==
    [id |-> nextId, gens |-> UNION {p[i].active.gens : i \in Rebuild[k].from}]
Repair ==
    /\ pc = "down" /\ nextId < MaxId
    /\ \E n \in 1..Len(Rebuild) :
          pair' = [i \in Pairs |->
                     IF \E k \in 1..n : Rebuild[k].table = i
                     THEN [pair[i] EXCEPT !.active =
                             RebuiltFrom(pair, CHOOSE k \in 1..n : Rebuild[k].table = i)]
                     ELSE pair[i]]
    /\ nextId' = nextId + 1
    /\ UNCHANGED <<pc, journal, last, now, at>>

-----------------------------------------------------------------------------
(* finish_cutover. *)

\* Mutant of BeginCutover: every attempt takes a checkpoint of its own.
BeginCutoverAgain ==
    /\ pc = "loop" /\ journal.phase = "pending"
    /\ journal' = [journal EXCEPT !.ckpt = Found]
    /\ UNCHANGED <<pc, pair, nextId, last, now, at>>

BeginCutover ==
    /\ pc = "loop" /\ journal.phase = "pending" /\ journal.ckpt = None
    /\ journal' = [journal EXCEPT !.ckpt = Found]
    /\ UNCHANGED <<pc, pair, nextId, last, now, at>>

BeginAttempt ==
    /\ pc = "loop" /\ journal.phase = "pending" /\ journal.ckpt # None
    /\ now' = Found
    /\ at' = 1
    /\ pc' = "attempt"
    /\ UNCHANGED <<journal, pair, nextId, last>>

MovedIn(ids, i) == /\ ids.active[i] = journal.ckpt.bak[i]
                   /\ ids.bak[i] = journal.ckpt.active[i]
UntouchedIn(ids, i) == /\ ids.active[i] = journal.ckpt.active[i]
                       /\ ids.bak[i] = journal.ckpt.bak[i]

\* Mutants of Verdict: no comparison; ...
VerdictBlind(i) == "exchange"
\* ... whatever is not as checkpointed is taken for moved; ...
VerdictLenient(i) == IF UntouchedIn(now, i) THEN "exchange" ELSE "skip"
\* ... a moved pair is not recognized.
VerdictStrict(i) == IF UntouchedIn(now, i) THEN "exchange" ELSE "refuse"

(* What the loop of exchange_table_groups does with pair i. *)
Verdict(i) ==
    CASE MovedIn(now, i) -> "skip"
      [] ~MovedIn(now, i) /\ UntouchedIn(now, i) -> "exchange"
      [] ~MovedIn(now, i) /\ ~UntouchedIn(now, i) -> "refuse"

AtPair(i) == pc = "attempt" /\ at = i

SkipPair(i) ==
    /\ AtPair(i) /\ Verdict(i) = "skip"
    /\ at' = i + 1
    /\ UNCHANGED <<pc, journal, pair, nextId, last, now>>

ExchangePair(i) ==
    /\ AtPair(i) /\ Verdict(i) = "exchange"
    /\ pair' = [pair EXCEPT ![i] = Swapped(@)]
    /\ at' = i + 1
    /\ UNCHANGED <<pc, journal, nextId, last, now>>

(* "cannot safely resume cutover": the process exits. *)
RefusePair(i) ==
    /\ AtPair(i) /\ Verdict(i) = "refuse"
    /\ pc' = "down" /\ now' = None /\ at' = 0
    /\ UNCHANGED <<journal, pair, nextId, last>>

(* Every pair is dealt with: staging is promoted in the journal. *)
FinishCutover ==
    /\ AtPair(N + 1)
    /\ journal' = [phase |-> "serving", gen |-> last, ckpt |-> None]
    /\ pc' = "loop" /\ now' = None /\ at' = 0
    /\ UNCHANGED <<pair, nextId, last>>

Next ==
    \/ Start \/ Crash \/ Bootstrap \/ BuildStaging \/ Repair
    \/ BeginCutover \/ BeginAttempt \/ FinishCutover
    \/ \E i \in Pairs : SkipPair(i) \/ ExchangePair(i) \/ RefusePair(i)

Spec == Init /\ [][Next]_vars

(***************************************************************************)
(* The process is started again after an exit, and it is not for ever      *)
(* interrupted at the same step of the same pair.                          *)
(***************************************************************************)
Fairness ==
    /\ WF_vars(Start) /\ SF_vars(BeginAttempt) /\ SF_vars(FinishCutover)
    /\ \A i \in Pairs : SF_vars(SkipPair(i) \/ ExchangePair(i))

FairSpec == Spec /\ Fairness

-----------------------------------------------------------------------------
(* Properties. *)

(* Types of the variables. *)
TypeOK ==
    /\ pc \in {"down", "loop", "attempt"}
    /\ journal \in [phase : {"serving", "pending"}, gen : Nat \cup {None},
                    ckpt : Identities \cup {None}]
    /\ pair \in [Pairs -> [active : Tables, bak : Tables]]
    /\ nextId \in Nat /\ last \in Nat
    /\ now \in Identities \cup {None}
    /\ at \in 0..(N + 1)

(* UUIDs name tables: no UUID in use, or remembered, is given out again, and *)
(* the two tables of a pair differ.                                          *)
IdsDistinct ==
    \A i \in Pairs :
        /\ pair[i].active.id # pair[i].bak.id
        /\ pair[i].active.id < nextId /\ pair[i].bak.id < nextId
        /\ journal.ckpt # None =>
              /\ journal.ckpt.active[i] # journal.ckpt.bak[i]
              /\ journal.ckpt.active[i] < nextId /\ journal.ckpt.bak[i] < nextId

(* The tables that will be promoted hold the new generation and nothing else. *)
StagingWhole ==
    /\ journal.phase = "pending" /\ journal.ckpt = None =>
          \A i \in Pairs : pair[i].bak.gens = {last}
    /\ journal.ckpt # None =>
          /\ journal.phase = "pending"
          /\ \A i \in Pairs :
                /\ pair[i].active.id = journal.ckpt.bak[i] => pair[i].active.gens = {last}
                /\ pair[i].bak.id = journal.ckpt.bak[i] => pair[i].bak.gens = {last}

(* The pairs behind the attempt have moved, the others are as it found them. *)
AttemptOK ==
    pc = "attempt" =>
        /\ journal.ckpt # None /\ now # None /\ at # 0
        /\ \A i \in Pairs :
              /\ i < at => pair[i].active.id = journal.ckpt.bak[i]
              /\ i >= at => /\ now.active[i] = pair[i].active.id
                            /\ now.bak[i] = pair[i].bak.id

(* While no cutover is under way, the active names serve the generation that *)
(* the journal records for active, all N tables of it and no other row: not  *)
(* a mixture that an interrupted, repeated or repaired exchange left behind. *)
(* (After --bootstrap the journal records none.)                             *)
GenerationWhole ==
    journal.ckpt = None /\ journal.gen # None =>
        \A i \in Pairs : pair[i].active.gens = {journal.gen}

(* The inductive invariant behind GenerationWhole. *)
Inv == TypeOK /\ IdsDistinct /\ StagingWhole /\ AttemptOK /\ GenerationWhole

(* A pair that has moved is not moved back, by whatever attempt, as long as  *)
(* the checkpoint stands (the comment of exchange_table_groups: "without     *)
(* ever toggling a pair that was already exchanged").                        *)
PairsNeverMoveBack ==
    [][journal.ckpt # None /\ journal'.ckpt = journal.ckpt /\ ~(pc = "down" /\ nextId' # nextId)
         => \A i \in Pairs : MovedIn(Found, i) => Found'.active[i] = Found.active[i]]_vars

(* An interrupted exchange is finished after a restart, unless a repair has  *)
(* replaced one of the checkpointed tables.                                  *)
PairsKnown == \A i \in Pairs : MovedIn(Found, i) \/ UntouchedIn(Found, i)
CutoverCompletes == journal.ckpt # None ~> (journal.ckpt = None \/ ~PairsKnown)
=============================================================================

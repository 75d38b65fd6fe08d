------------------------------- MODULE HotState -------------------------------
(***************************************************************************)
(* The hot tables of one table group against the ledger they mirror.       *)
(*   L2  hot_token_account_state: versions of token accounts, newest       *)
(*       updated_slot wins (ReplacingMergeTree); a tombstone is a version  *)
(*       that says deleted                                                 *)
(*   L3  hot_wallet_token_balance: the balance of a (mint, owner) pair,    *)
(*       recomputed for the pairs an incremental touched                   *)
(* An import is a sequence of steps that are each durable at once: rows,   *)
(* tombstones, refresh of L3, and the watcher's checkpoint.  It may fail   *)
(* between and in the midst of them, and is then repeated from the same    *)
(* watermark with the newest archive, which reaches at least as far as the *)
(* one that failed.  In a shared full load active imports as "bridge" and  *)
(* _bak as "full".                                                         *)
(***************************************************************************)
EXTENDS Integers, FiniteSets, FiniteSetsExt

CONSTANTS
    Accounts,   \* addresses
    HotPairs,   \* (mint, owner) pairs whose mint is in the frozen hot set
    ColdPairs,  \* pairs of other mints; also any account that holds no token
    Amounts,    \* balances of a token account
    MaxSlot,    \* bound: length of the ledger
    Ledgers,    \* the histories considered
    MaxFaults,  \* bound: imports that fail
    None

Slots == 1 .. MaxSlot

(* What an address holds: nothing (closed), or tokens of a pair. *)
States == [pair : HotPairs \cup ColdPairs, amount : Amounts] \cup {None}

ASSUME HotAssumption ==
    /\ IsFiniteSet(Accounts)
    /\ MaxSlot \in Nat \ {0}
    /\ Amounts \subseteq Nat
    /\ MaxFaults \in Nat
    /\ None \notin [pair : HotPairs \cup ColdPairs, amount : Nat]
                    \cup [amount : Nat, slot : Nat] \cup Nat
    /\ Ledgers \subseteq [0 .. MaxSlot -> [Accounts -> States]]
    /\ \A h \in Ledgers, a \in Accounts : h[0][a] = None

VARIABLES
    ledger,    \* ledger[s][a]: what address a holds after slot s
    l2,        \* rows [acc, slot, pair, amount, deleted]
    l3,        \* l3[p]: [amount, slot] of the winning row, or None
    wm,        \* the group's max_slot in the journal; None: no baseline
    seen,      \* newest slot any attempt has read
    pc, kind, slot,
    records,   \* the records of the archive that the import reads
    affected,  \* affected_pairs
    tombs,     \* tombstones this attempt has written
    faults,
    unseen,    \* history: addresses that ended without a record that says so
    dropped,   \* history: pairs with tombstones whose import failed before L3
    overtaken  \* history: pairs refreshed under the slot of an older archive

history == <<unseen, dropped, overtaken>>
vars == <<ledger, l2, l3, wm, seen, pc, kind, slot, records, affected, tombs, faults, history>>

Rows == [acc : Accounts, slot : Slots, pair : HotPairs, amount : Amounts \cup {0},
         deleted : BOOLEAN]

(* The type of L2 and of an import's progress, ... *)
RowTypes ==
    /\ ledger \in [0 .. MaxSlot -> [Accounts -> States]]
    /\ \A a \in Accounts : ledger[0][a] = None
    /\ l2 \subseteq Rows
    /\ wm \in Slots \cup {None}
    /\ seen \in 0 .. MaxSlot
    /\ pc \in {"idle", "rows", "tombstones", "refresh", "checkpoint"}
    /\ kind \in {"full", "tail", "bridge", "repair"}
    /\ slot \in 0 .. MaxSlot
    /\ records \subseteq [acc : Accounts, slot : Slots, state : States]
    /\ affected \subseteq HotPairs
    /\ tombs \subseteq Rows
    /\ faults \in 0 .. MaxFaults
    /\ unseen \subseteq Accounts
    /\ dropped \subseteq HotPairs
    /\ overtaken \subseteq HotPairs

(* ... and of L3. *)
TypeOK == RowTypes /\ l3 \in [HotPairs -> [amount : Nat, slot : Slots] \cup {None}]

Init ==
    /\ ledger \in Ledgers
    /\ l2 = {} /\ l3 = [p \in HotPairs |-> None]
    /\ wm = None /\ seen = 0
    /\ pc = "idle" /\ kind = "full" /\ slot = 0
    /\ records = {} /\ affected = {} /\ tombs = {}
    /\ faults = 0
    /\ unseen = {} /\ dropped = {} /\ overtaken = {}

----------------------------------------------------------------------------
(* Archives, as the validator writes them. *)

Changes(a, from, to) == {s \in from + 1 .. to : ledger[s][a] # ledger[s - 1][a]}

(* Every version of an address written in from + 1 .. to. *)
Written(from, to) ==
    UNION {{[acc |-> a, slot |-> s, state |-> ledger[s][a]] : s \in Changes(a, from, to)} :
             a \in Accounts}

NewestOf(rs) == {r \in rs : \A q \in rs : q.acc = r.acc => q.slot <= r.slot}

(* A full archive leaves empty accounts out. *)
FullRecords(from, to) == {r \in NewestOf(Written(from, to)) : r.state # None}

----------------------------------------------------------------------------
(* Tables. *)

(* FINAL: the newest version of each address, unless it is deleted. *)
Final(t) == {r \in NewestOf(t) : ~r.deleted}

PairRows(t, p) == {r \in t : r.pair = p}
AmountSum(rs) == MapThenSumSet(LAMBDA r : r.amount, rs)

(* The rebuilt L3: pairs with a positive sum, newest slot of their rows. *)
RebuiltFrom(rs) ==
    [p \in HotPairs |->
       IF AmountSum(PairRows(rs, p)) = 0 THEN None
       ELSE [amount |-> AmountSum(PairRows(rs, p)),
             slot   |-> Max({r.slot : r \in PairRows(rs, p)})]]

----------------------------------------------------------------------------
(* Imports. *)

Begin(k, s, rs) ==
    /\ pc = "idle"
    /\ pc' = "rows" /\ kind' = k /\ slot' = s /\ records' = rs
    /\ affected' = {} /\ tombs' = {}
    /\ UNCHANGED <<ledger, faults>>

(* The import returns: its statistics are gone. *)
Done ==
    /\ pc' = "idle" /\ kind' = "full" /\ slot' = 0 /\ records' = {}
    /\ affected' = {} /\ tombs' = {}

(* A full import into the emptied group. *)
StartFull(s) ==
    /\ Begin("full", s, FullRecords(0, s))
    /\ l2' = {} /\ l3' = [p \in HotPairs |-> None]
    /\ wm' = None /\ seen' = s
    /\ unseen' = {} /\ dropped' = {} /\ overtaken' = {}

Continue(k, s, rs) ==
    /\ Begin(k, s, rs)
    /\ seen' = Max({seen, s})
    /\ UNCHANGED <<l2, l3, wm, history>>

(* An incremental that reaches down to the watermark, of which only newer  *)
(* append-vecs are read.  Superseded versions may still be in it.          *)
StartTail(s) ==
    /\ wm # None /\ s > wm /\ s >= seen
    /\ \E older \in SUBSET Written(wm, s) :
          Continue("tail", s, NewestOf(Written(wm, s)) \cup older)

(* The newer append-vecs of a full archive, for the active group.  A full   *)
(* behind the watermark adds no row; that it sets the watermark back is in  *)
(* SnapshotWatcher and left out here.                                       *)
StartBridge(s) ==
    /\ wm # None /\ s > wm /\ s >= seen
    /\ Continue("bridge", s, FullRecords(wm, s))

(* --clickhouse-close-tombstones with any incremental, on base `from`; it   *)
(* may end before or beyond the watermark.                                  *)
StartCloseTombstones(from, s) ==
    /\ wm # None /\ from < s
    /\ Continue("repair", s, NewestOf(Written(from, s)))

\* Mutant of WritesLiveAmount: the baseline's policy for every import.
WritesPositiveOnly(amount) == amount > 0

WritesLiveAmount(amount) == kind = "full" => amount > 0

IsHot(x) == x # None /\ x.pair \in HotPairs

\* Mutant of HotRows: the set of hot mints is not looked at.
AllRows ==
    {[acc |-> r.acc, slot |-> r.slot, pair |-> r.state.pair, amount |-> r.state.amount,
      deleted |-> FALSE] : r \in {q \in records : kind # "repair" /\ q.state # None}}

(* The L2 rows the workers write. *)
HotRows ==
    {[acc |-> r.acc, slot |-> r.slot, pair |-> r.state.pair, amount |-> r.state.amount,
      deleted |-> FALSE] :
        r \in {q \in records :
                 kind # "repair" /\ IsHot(q.state) /\ WritesLiveAmount(q.state.amount)}}

WriteRows ==
    /\ pc = "rows"
    /\ l2' = l2 \cup HotRows
    /\ affected' = IF kind = "full" THEN {} ELSE {r.pair : r \in HotRows}
    /\ pc' = IF kind = "full" THEN "refresh" ELSE "tombstones"
    /\ UNCHANGED <<ledger, l3, wm, seen, kind, slot, records, tombs, faults, history>>

(* remember_close_candidate: the newest empty record of an address. *)
Candidates == NewestOf({r \in records : r.state = None})

(* Delete versions; the pair is that of the older live row. *)
Tombstones ==
    {[q[1] EXCEPT !.slot = q[2].slot, !.amount = 0, !.deleted = TRUE] :
        q \in {rc \in Final(l2) \X Candidates :
                 rc[1].acc = rc[2].acc /\ rc[1].slot < rc[2].slot}}

\* Mutant of WriteTombstones: the pairs of the tombstones are not refreshed.
WriteTombstonesOnly ==
    /\ pc = "tombstones"
    /\ l2' = l2 \cup Tombstones
    /\ tombs' = Tombstones
    /\ pc' = "refresh"
    /\ UNCHANGED <<ledger, l3, wm, seen, kind, slot, records, affected, faults, history>>

WriteTombstones ==
    /\ pc = "tombstones"
    /\ l2' = l2 \cup Tombstones
    /\ tombs' = Tombstones
    /\ affected' = affected \cup {r.pair : r \in Tombstones}
    /\ pc' = "refresh"
    /\ UNCHANGED <<ledger, l3, wm, seen, kind, slot, records, faults, history>>

(* refresh_wallet_balance_incremental: the newest row of each address among *)
(* the rows of all affected pairs; a row of L3 replaces one of the same or  *)
(* an older slot.                                                           *)
RefreshedPairs ==
    LET latest == Final({r \in l2 : r.pair \in affected})
    IN  [p \in HotPairs |->
           IF p \notin affected \/ (l3[p] # None /\ l3[p].slot > slot) THEN l3[p]
           ELSE [amount |-> AmountSum(PairRows(latest, p)), slot |-> slot]]

(* refresh_hot_indexes; the sum over a new baseline is without FINAL. *)
RefreshedL3 ==
    IF kind = "full" THEN RebuiltFrom({r \in l2 : ~r.deleted}) ELSE RefreshedPairs

Refresh ==
    /\ pc = "refresh"
    /\ l3' = RefreshedL3
    /\ pc' = "checkpoint"
    /\ dropped' = dropped \ affected
    /\ overtaken' = (overtaken \ affected)
                      \cup {p \in affected : l3[p] # None /\ l3[p].slot > slot}
    /\ UNCHANGED <<ledger, l2, wm, seen, kind, slot, records, affected, tombs, faults, unseen>>

(* A record says that the address is empty, and it is not hot up to u. *)
SaysEnded(a, u) ==
    \E r \in records : /\ r.acc = a /\ r.state = None /\ r.slot <= u
                       /\ \A t \in r.slot .. u : ~IsHot(ledger[t][a])

(* Addresses that ended as hot token accounts in wm + 1 .. slot. *)
Ended ==
    {a \in Accounts : /\ kind \in {"tail", "bridge"} /\ ~IsHot(ledger[slot][a])
                      /\ \E t \in wm .. slot - 1 : IsHot(ledger[t][a])}

(* The watcher journals the new watermark. *)
Checkpoint ==
    /\ pc = "checkpoint"
    /\ wm' = IF kind = "repair" THEN wm ELSE slot
    /\ unseen' = {a \in unseen \cup Ended : ~SaysEnded(a, wm') /\ ~IsHot(ledger[wm'][a])}
    /\ Done
    /\ UNCHANGED <<ledger, l2, l3, seen, faults, dropped, overtaken>>

(* The import ends with an error; of its tombstones ts are committed. *)
Stop(ts) ==
    /\ faults < MaxFaults
    /\ faults' = faults + 1
    /\ dropped' = dropped \cup {r.pair : r \in ts}
    /\ Done
    /\ UNCHANGED <<ledger, l3, wm, seen, unseen, overtaken>>

(* The attempt fails while the workers insert: part of the rows are there. *)
RowsFail ==
    /\ pc = "rows"
    /\ \E part \in SUBSET HotRows : l2' = l2 \cup part
    /\ Stop({})

(* It fails in the midst of the batches of tombstones. *)
TombstonesFail ==
    /\ pc = "tombstones"
    /\ \E part \in SUBSET Tombstones : l2' = l2 \cup part /\ Stop(part)

(* It fails before L3 is refreshed. *)
RefreshFails ==
    /\ pc = "refresh"
    /\ Stop(tombs)
    /\ UNCHANGED l2

(* It fails after, and the watermark is not journalled. *)
CheckpointFails ==
    /\ pc = "checkpoint"
    /\ Stop({})
    /\ UNCHANGED l2

(* --clickhouse-rebuild-hot *)
RebuildHot ==
    /\ pc = "idle" /\ wm # None
    /\ l3' = RebuiltFrom(Final(l2))
    /\ dropped' = {} /\ overtaken' = {}
    /\ UNCHANGED <<ledger, l2, wm, seen, pc, kind, slot, records, affected, tombs, faults, unseen>>

(* A background merge drops a version that a newer one supersedes. *)
Merge ==
    /\ \E r \in l2 \ NewestOf(l2) : l2' = l2 \ {r}
    /\ UNCHANGED <<ledger, l3, wm, seen, pc, kind, slot, records, affected, tombs, faults,
                   history>>

Next ==
    \/ \E s \in Slots : StartFull(s) \/ StartTail(s) \/ StartBridge(s)
    \/ \E from \in 0 .. MaxSlot - 1, s \in Slots : StartCloseTombstones(from, s)
    \/ WriteRows \/ WriteTombstones \/ Refresh \/ Checkpoint
    \/ RowsFail \/ TombstonesFail \/ RefreshFails \/ CheckpointFails
    \/ RebuildHot \/ Merge

Spec == Init /\ [][Next]_vars

----------------------------------------------------------------------------
(* Properties. *)

(* No attempt has read further than the watermark. *)
CaughtUp == pc = "idle" /\ wm # None /\ wm = seen

HoldsOf(a, p) ==
    LET x == ledger[wm][a] IN IF x # None /\ x.pair = p THEN x.amount ELSE 0

(***************************************************************************)
(* L2 mirrors the ledger: when imports have caught up, each hot address    *)
(* has the tokens it has at the watermark and no others, over failed and   *)
(* repeated imports, superseded versions in the archives, zero balances    *)
(* left out of a baseline, repairs and background merges.  Excepted are    *)
(* addresses whose end no archive recorded (write_hot_token_account_row,   *)
(* write_close_token_account_tombstones).                                  *)
(***************************************************************************)
StateExact ==
    CaughtUp =>
        \A a \in Accounts \ unseen, p \in HotPairs :
            AmountSum({r \in PairRows(Final(l2), p) : r.acc = a}) = HoldsOf(a, p)

(* Address a has held tokens of p by slot u. *)
Had(a, p, u) == \E s \in 1 .. u : IsHot(ledger[s][a]) /\ ledger[s][a].pair = p

(* An address of p has been in another hot pair too: its owner changed, or  *)
(* it was closed and opened again for somebody else.                        *)
Mixed(p, u) == \E a \in Accounts, q \in HotPairs \ {p} : Had(a, p, u) /\ Had(a, q, u)

ServesTruth(p) ==
    (IF l3[p] = None THEN 0 ELSE l3[p].amount) = MapThenSumSet(LAMBDA a : HoldsOf(a, p), Accounts)

(* The two exceptions that no import could repair from what it reads. *)
Traceable(p) == ~Mixed(p, wm) /\ \A a \in unseen : ~Had(a, p, wm)

(***************************************************************************)
(* L3 serves the true balance of every hot pair: the sum over the ledger   *)
(* at the watermark.  These are all the ways in which it may not           *)
(* (refresh_hot_indexes): an address of the pair ended unrecorded or was   *)
(* in another pair too; an import failed between its tombstones and its    *)
(* refresh; a repair refreshed the pair under an older archive's slot; and *)
(* the last two are mended by the next refresh of the pair or by           *)
(* --clickhouse-rebuild-hot.                                               *)
(***************************************************************************)
BalancesExact ==
    CaughtUp =>
        \A p \in HotPairs \ (dropped \cup overtaken) : Traceable(p) => ServesTruth(p)

(***************************************************************************)
(* A repeated import makes up for the one that failed: when it is done L3  *)
(* serves the truth, wherever the first attempt stopped ("repeated writes  *)
(* stay correct by the versions of their slots",                           *)
(* docs/hot-index-double-buffer.md:109).                                   *)
(***************************************************************************)
RetryMakesUp ==
    CaughtUp => \A p \in HotPairs \ overtaken : Traceable(p) => ServesTruth(p)

----------------------------------------------------------------------------
(* The inductive invariant behind StateExact. *)

(* Address a holds from slot t on what it holds after slot u. *)
Steady(a, t, u) == \A v \in t .. u : ledger[v][a] = ledger[u][a]

(* A row says what the ledger says at its slot. *)
RowTrue(r) ==
    ledger[r.slot][r.acc] = IF r.deleted THEN None ELSE [pair |-> r.pair, amount |-> r.amount]
RowsTrue == \A r \in l2 : RowTrue(r) /\ r.slot <= seen

(* The tokens that a has after slot u are in L2, unless a newer row is; ... *)
Present(a, u) ==
    IsHot(ledger[u][a]) /\ ledger[u][a].amount > 0 =>
        \E q \in l2 : q.acc = a /\ Steady(a, q.slot, u)

(* ... and a live row that is out of date then has been superseded. *)
Covered(a, u) ==
    \A r \in l2 : r.acc = a /\ ~r.deleted /\ ~Steady(a, r.slot, u) =>
                    \E q \in l2 : q.acc = a /\ q.slot > r.slot

(* At the watermark, whatever failed attempts have left beyond it. *)
WatermarkOK ==
    wm # None =>
        /\ wm <= seen
        /\ \A a \in unseen : ~IsHot(ledger[wm][a])
        /\ \A a \in Accounts : Present(a, wm) /\ (a \notin unseen => Covered(a, wm))

(* What the import reads: true records, and the newest of each hot address. *)
RecordTrue(r) == r.state = ledger[r.slot][r.acc] /\ r.slot <= seen
RecordsOK ==
    /\ \A r \in records : RecordTrue(r)
    /\ pc # "idle" /\ kind # "repair" =>
          \A a \in Accounts :
              IsHot(ledger[slot][a]) =>
                  \/ wm # None /\ Steady(a, wm, slot)
                  \/ \E r \in records : r.acc = a /\ Steady(a, r.slot, slot)

(* The import's effect on L2 by the time of each step. *)
FullOK ==
    pc # "idle" /\ kind = "full" =>
        /\ wm = None /\ unseen = {} /\ slot \in Slots /\ slot = seen /\ pc # "tombstones"
        /\ \A r \in records : Steady(r.acc, r.slot, slot)
        /\ pc = "rows" => l2 = {}
        /\ pc \in {"refresh", "checkpoint"} =>
              \A a \in Accounts : Present(a, slot) /\ Covered(a, slot)
ContinueOK ==
    pc # "idle" /\ kind # "full" =>
        /\ wm # None
        /\ kind # "repair" => /\ slot = seen /\ wm < slot
                             /\ \A r \in records : r.slot > wm
        /\ kind # "repair" /\ pc # "rows" =>
              \A a \in Accounts : IsHot(ledger[slot][a]) => Present(a, slot) /\ Covered(a, slot)
        /\ pc \in {"refresh", "checkpoint"} =>
              LET u == IF kind = "repair" THEN wm ELSE slot
              IN  \A a \in Accounts : SaysEnded(a, u) => Covered(a, u)

(***************************************************************************)
(* Together: L2 agrees with the ledger at the watermark but for addresses  *)
(* whose end went unseen, and each step of an import brings it closer to   *)
(* the slot of the archive.                                                *)
(***************************************************************************)
RowsInv == RowTypes /\ RowsTrue /\ WatermarkOK /\ RecordsOK /\ FullOK /\ ContinueOK

----------------------------------------------------------------------------
(* The inductive invariant behind BalancesExact. *)

ChangesAt(a, s) == ledger[s][a] # ledger[s - 1][a]

(* A row is of a pair that its address has held, a live one of a change; *)
(* and so is what an import reads.                                       *)
RowsTraced ==
    /\ \A r \in l2 : Had(r.acc, r.pair, r.slot) /\ (~r.deleted => ChangesAt(r.acc, r.slot))
    /\ \A r \in records : ChangesAt(r.acc, r.slot)
    /\ kind = "full" /\ pc = "refresh" =>
          \A r \in l2 : ~r.deleted /\ Steady(r.acc, r.slot, slot)

PairsOf(rs) == {r.pair : r \in rs}

(* The pairs that an import refreshes are those of what it has written. *)
AffectedOK ==
    /\ pc # "idle" => slot \in Slots
    /\ kind # "full" /\ pc # "rows" => PairsOf(HotRows) \subseteq affected
    /\ kind # "full" /\ pc = "refresh" => PairsOf(tombs) \subseteq affected

(* L3 says of p what L2 says. *)
InSync(p) == (IF l3[p] = None THEN 0 ELSE l3[p].amount) = AmountSum(PairRows(Final(l2), p))

(* A row of p that the watermark does not account for: a failed import has *)
(* written it, or the end of its address went unseen.                      *)
Unsettled(p) == \E r \in Final(l2) : r.pair = p /\ (r.slot > wm \/ r.acc \in unseen)

(* Pairs whose tombstones this import has yet to take into L3. *)
InWork == IF pc = "refresh" THEN PairsOf(tombs) ELSE {}

(* A pair of which L3 and L2 differ has a row that brings the next import   *)
(* back to it, or is one of the exceptions.                                 *)
SyncOK ==
    wm # None \/ (kind = "full" /\ pc = "checkpoint") =>
        \A p \in HotPairs \ (dropped \cup overtaken \cup InWork) :
            \/ InSync(p)
            \/ Mixed(p, seen)
            \/ wm # None /\ Unsettled(p) /\ ~(pc = "checkpoint" /\ p \in affected)

(***************************************************************************)
(* Together with what holds of L2: where L3 and L2 differ in spite of every *)
(* refresh, the rows of L2 themselves say why.                             *)
(***************************************************************************)
BalanceInv == RowsInv /\ TypeOK /\ RowsTraced /\ AffectedOK /\ SyncOK
=============================================================================

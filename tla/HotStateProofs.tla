---------------------------- MODULE HotStateProofs ----------------------------
(***************************************************************************)
(* L2 mirrors the ledger, for every ledger, every set of addresses, pairs  *)
(* and amounts, and any number of imports and failures.                    *)
(***************************************************************************)
EXTENDS HotState, WellFoundedInduction, TLAPS

-----------------------------------------------------------------------------
(* Numbers and sums. *)

(* A set of naturals has a least element. *)
LEMMA Least ==
    ASSUME NEW T, T \subseteq Nat, T # {}
    PROVE  \E x \in T : \A y \in T : x <= y
<1>. DEFINE R == {ss \in Nat \X Nat : ss[1] < ss[2]}
<1>1. IsWellFoundedOn(R, Nat)
  BY NatLessThanWellFounded DEF OpToRel
<1>2. PICK x \in T : \A y \in T : ~ (<<y, x>> \in R)
  <2>. HIDE DEF R
  <2>. QED
    BY <1>1, WFMin
<1>3. ASSUME NEW y \in T
      PROVE  x <= y
  <2>1. <<y, x>> \in Nat \X Nat
    OBVIOUS
  <2>2. ~ (y < x)
    BY <1>2, <2>1
  <2>. QED
    BY <2>2
<1>. QED
  BY <1>3

(* A set of naturals up to n has a greatest one. *)
LEMMA Greatest ==
    ASSUME NEW n \in Nat, NEW T, T \subseteq 0 .. n, T # {}
    PROVE  \E x \in T : \A y \in T : y <= x
<1>. DEFINE D == {n - x : x \in T}
<1>1. PICK d \in D : \A e \in D : d <= e
  <2>1. \A x \in T : n - x \in Nat
    OBVIOUS
  <2>2. D \subseteq Nat /\ D # {}
    BY <2>1
  <2>. HIDE DEF D
  <2>. QED
    BY <2>2, Least
<1>2. PICK x \in T : d = n - x
  OBVIOUS
<1>3. ASSUME NEW y \in T
      PROVE  y <= x
  <2>1. n - x <= n - y
    BY <1>1, <1>2
  <2>. QED
    BY <2>1
<1>. QED
  BY <1>3

(* The sum over no row is zero. *)
LEMMA EmptySum == AmountSum({}) = 0
  BY DEF AmountSum, MapThenSumSet, MapThenFoldSet

(* The sum over one row is its amount. *)
LEMMA SingleSum ==
    ASSUME NEW r, r.amount \in Nat
    PROVE  AmountSum({r}) = r.amount
<1>. DEFINE Eq(f) == f = [s \in SUBSET {r} |->
                            IF s = {} THEN 0
                            ELSE LET x == CHOOSE x \in s : TRUE
                                 IN  x.amount + f[s \ {x}]]
            F == [s \in SUBSET {r} |-> IF s = {} THEN 0 ELSE r.amount]
            G == CHOOSE f : Eq(f)
<1>1. Eq(F)
  <2>1. ASSUME NEW s \in SUBSET {r}, s # {}
        PROVE  F[s] = (CHOOSE x \in s : TRUE).amount + F[s \ {CHOOSE x \in s : TRUE}]
    <3>1. s = {r} /\ (CHOOSE x \in s : TRUE) = r
      BY <2>1
    <3>. QED
      BY <3>1
  <2>. QED
    BY <2>1
<1>2. Eq(G)
  <2>. HIDE DEF Eq, F
  <2>. QED
    BY <1>1
<1>3. G[{r}] = r.amount
  <2>1. G[{}] = 0
    <3>. HIDE DEF G
    <3>. QED
      BY <1>2
  <2>2. (CHOOSE x \in {r} : TRUE) = r /\ {r} \ {r} = {} /\ {r} # {}
    OBVIOUS
  <2>3. G[{r}] = (CHOOSE x \in {r} : TRUE).amount + G[{r} \ {CHOOSE x \in {r} : TRUE}]
    <3>. HIDE DEF G
    <3>. QED
      BY <1>2
  <2>. HIDE DEF G
  <2>. QED
    BY <2>1, <2>2, <2>3
<1>. QED
  BY <1>3 DEF AmountSum, MapThenSumSet, MapThenFoldSet

-----------------------------------------------------------------------------
(* The ledger and the archives written from it. *)

(* What an address holds is nothing or a token state, and nothing at first. *)
LEMMA Holdings ==
    ASSUME RowTypes, NEW a \in Accounts, NEW t \in 0 .. MaxSlot
    PROVE  ledger[t][a] \in States /\ ledger[0][a] = None
  BY DEF RowTypes

(* An address that is not steady has a last change. *)
LEMMA LastChange ==
    ASSUME NEW a \in Accounts, NEW t \in 0 .. MaxSlot, NEW u \in 0 .. MaxSlot,
           ~Steady(a, t, u)
    PROVE  \E v \in t + 1 .. u : ledger[v][a] # ledger[v - 1][a] /\ Steady(a, v, u)
<1>. DEFINE T == {v \in t .. u : ledger[v][a] # ledger[u][a]}
<1>1. PICK v \in T : \A w \in T : w <= v
  <2>1. T \subseteq 0 .. MaxSlot /\ T # {} /\ MaxSlot \in Nat
    BY HotAssumption DEF Steady
  <2>. HIDE DEF T
  <2>. QED
    BY <2>1, Greatest
<1>2. v \in t .. u /\ v # u /\ ledger[v][a] # ledger[u][a]
  OBVIOUS
<1>3. Steady(a, v + 1, u)
  <2>1. SUFFICES ASSUME NEW w \in v + 1 .. u
                 PROVE  ledger[w][a] = ledger[u][a]
    BY DEF Steady
  <2>2. w \in t .. u /\ ~(w <= v)
    BY <1>2
  <2>. QED
    BY <1>1, <2>2
<1>4. v + 1 \in t + 1 .. u /\ (v + 1) - 1 = v
  BY <1>2
<1>5. ledger[v + 1][a] # ledger[(v + 1) - 1][a]
  <2>1. ledger[v + 1][a] = ledger[u][a]
    BY <1>3, <1>4 DEF Steady
  <2>. QED
    BY <1>2, <1>4, <2>1
<1>. QED
  BY <1>3, <1>4, <1>5

(* A record of an archive says what the ledger says, within its range; ... *)
LEMMA WrittenTrue ==
    ASSUME RowTypes, NEW from \in 0 .. MaxSlot, NEW to \in 0 .. MaxSlot,
           NEW r \in Written(from, to)
    PROVE  /\ r \in [acc : Accounts, slot : Slots, state : States]
           /\ r.slot \in from + 1 .. to /\ r.state = ledger[r.slot][r.acc]
<1>0. PICK a \in Accounts : \E s \in Changes(a, from, to) :
         r = [acc |-> a, slot |-> s, state |-> ledger[s][a]]
  BY DEF Written
<1>1. PICK s \in Changes(a, from, to) : r = [acc |-> a, slot |-> s, state |-> ledger[s][a]]
  BY <1>0
<1>2. s \in from + 1 .. to /\ s \in 1 .. MaxSlot /\ s \in 0 .. MaxSlot
  BY HotAssumption DEF Changes
<1>3. ledger[s][a] \in States
  BY <1>2, Holdings
<1>. QED
  BY <1>1, <1>2, <1>3 DEF Slots

(* ... every change is recorded; ... *)
LEMMA ChangeWritten ==
    ASSUME NEW from \in 0 .. MaxSlot, NEW to \in 0 .. MaxSlot,
           NEW a \in Accounts, NEW s \in from + 1 .. to, ledger[s][a] # ledger[s - 1][a]
    PROVE  [acc |-> a, slot |-> s, state |-> ledger[s][a]] \in Written(from, to)
  BY DEF Written, Changes

(* ... the newest record of an address is what it holds in the end; ... *)
LEMMA NewestSteady ==
    ASSUME RowTypes, NEW from \in 0 .. MaxSlot, NEW to \in 0 .. MaxSlot,
           NEW r \in NewestOf(Written(from, to))
    PROVE  Steady(r.acc, r.slot, to)
<1>1. /\ r \in Written(from, to)
      /\ \A q \in Written(from, to) : q.acc = r.acc => q.slot <= r.slot
  BY DEF NewestOf
<1>2. /\ r.acc \in Accounts /\ r.slot \in from + 1 .. to /\ r.slot \in 0 .. MaxSlot
  BY <1>1, WrittenTrue, HotAssumption DEF Slots
<1>3. SUFFICES ASSUME ~Steady(r.acc, r.slot, to)
               PROVE  FALSE
  OBVIOUS
<1>4. PICK v \in r.slot + 1 .. to : ledger[v][r.acc] # ledger[v - 1][r.acc]
  BY <1>2, <1>3, LastChange
<1>5. [acc |-> r.acc, slot |-> v, state |-> ledger[v][r.acc]] \in Written(from, to)
  BY <1>2, <1>4, ChangeWritten
<1>. QED
  BY <1>1, <1>2, <1>5

(* ... and an address that changed has one. *)
LEMMA NewestThere ==
    ASSUME RowTypes, NEW from \in 0 .. MaxSlot, NEW to \in 0 .. MaxSlot,
           NEW a \in Accounts, ~Steady(a, from, to)
    PROVE  \E r \in NewestOf(Written(from, to)) :
              r.acc = a /\ r.state = ledger[to][a] /\ Steady(a, r.slot, to)
<1>1. PICK v \in from + 1 .. to : ledger[v][a] # ledger[v - 1][a] /\ Steady(a, v, to)
  BY LastChange
<1>. DEFINE r == [acc |-> a, slot |-> v, state |-> ledger[v][a]]
<1>2. r \in Written(from, to)
  BY <1>1, ChangeWritten
<1>3. ASSUME NEW q \in Written(from, to), q.acc = a
      PROVE  q.slot <= v
  <2>1. PICK s \in Changes(a, from, to) : q.slot = s
    BY <1>3 DEF Written
  <2>2. s \in from + 1 .. to /\ ledger[s][a] # ledger[s - 1][a]
    BY <2>1 DEF Changes
  <2>3. CASE s > v
    <3>1. s \in v .. to /\ s - 1 \in v .. to
      BY <2>2, <2>3
    <3>2. ledger[s][a] = ledger[to][a] /\ ledger[s - 1][a] = ledger[to][a]
      BY <1>1, <3>1 DEF Steady
    <3>. QED
      BY <2>2, <3>2
  <2>. QED
    BY <2>1, <2>2, <2>3
<1>4. r \in NewestOf(Written(from, to))
  BY <1>2, <1>3 DEF NewestOf
<1>5. ledger[v][a] = ledger[to][a]
  BY <1>1 DEF Steady
<1>. QED
  BY <1>1, <1>4, <1>5

(* A full archive has the newest record of every address that is not empty. *)
LEMMA FullThere ==
    ASSUME RowTypes, NEW from \in 0 .. MaxSlot, NEW to \in 0 .. MaxSlot,
           NEW a \in Accounts, ~Steady(a, from, to), ledger[to][a] # None
    PROVE  \E r \in FullRecords(from, to) : r.acc = a /\ Steady(a, r.slot, to)
  BY NewestThere DEF FullRecords

-----------------------------------------------------------------------------
(* Rows of L2. *)

(* A steady address is steady from every later slot on. *)
LEMMA SteadyLater ==
    ASSUME NEW a, NEW t \in Nat, NEW s \in Nat, NEW u \in Nat, s >= t, Steady(a, t, u)
    PROVE  Steady(a, s, u)
<1>1. \A v \in s .. u : v \in t .. u
  OBVIOUS
<1>. QED
  BY <1>1 DEF Steady

(* Two steady stretches that meet are one. *)
LEMMA SteadyJoin ==
    ASSUME NEW a, NEW t \in Nat, NEW m \in Nat, NEW u \in Nat, m <= u,
           Steady(a, t, m), Steady(a, m, u)
    PROVE  Steady(a, t, u)
<1>1. ledger[m][a] = ledger[u][a]
  BY DEF Steady
<1>2. \A v \in t .. u : v \in t .. m \/ v \in m .. u
  OBVIOUS
<1>. QED
  BY <1>1, <1>2 DEF Steady

(* The rows the workers write are live, true, and those of a record. *)
LEMMA HotRowsTrue ==
    ASSUME RowTypes, RecordsOK, NEW r \in HotRows
    PROVE  /\ r \in Rows /\ ~r.deleted /\ RowTrue(r) /\ r.slot <= seen /\ kind # "repair"
           /\ \E q \in records : q.acc = r.acc /\ q.slot = r.slot
<1>1. PICK q \in records :
         /\ kind # "repair" /\ IsHot(q.state)
         /\ r = [acc |-> q.acc, slot |-> q.slot, pair |-> q.state.pair,
                 amount |-> q.state.amount, deleted |-> FALSE]
  BY DEF HotRows
<1>2. /\ q.acc \in Accounts /\ q.slot \in Slots /\ q.state \in States /\ RecordTrue(q)
  BY DEF RowTypes, RecordsOK
<1>3. /\ q.state.pair \in HotPairs /\ q.state.amount \in Amounts
      /\ q.state = [pair |-> q.state.pair, amount |-> q.state.amount]
  BY <1>1, <1>2 DEF IsHot, States
<1>. QED
  BY <1>1, <1>2, <1>3 DEF RowTrue, RecordTrue, Rows

(* A hot record of an import that is no baseline is written. *)
LEMMA RowWritten ==
    ASSUME RowTypes, NEW q \in records, kind # "repair", IsHot(q.state),
           kind = "full" => q.state.amount > 0
    PROVE  \E r \in HotRows : r.acc = q.acc /\ r.slot = q.slot
<1>. DEFINE r == [acc |-> q.acc, slot |-> q.slot, pair |-> q.state.pair,
                  amount |-> q.state.amount, deleted |-> FALSE]
<1>1. r \in HotRows
  BY DEF HotRows, WritesLiveAmount
<1>. QED
  BY <1>1

(* A live row is that of a hot address. *)
LEMMA LiveIsHot ==
    ASSUME NEW r \in Rows, RowTrue(r), ~r.deleted
    PROVE  IsHot(ledger[r.slot][r.acc])
<1>1. [pair |-> r.pair, amount |-> r.amount] # None
  <2>1. r.pair \in HotPairs /\ r.amount \in Nat
    <3>1. r.pair \in HotPairs /\ r.amount \in Amounts \cup {0}
      BY DEF Rows
    <3>2. \A n \in Amounts \cup {0} : n \in Nat
      BY HotAssumption
    <3>. QED
      BY <3>1, <3>2
  <2>2. [pair |-> r.pair, amount |-> r.amount] \in [pair : HotPairs \cup ColdPairs, amount : Nat]
    BY <2>1
  <2>. QED
    BY <2>2, HotAssumption
<1>. QED
  BY <1>1 DEF RowTrue, IsHot, Rows

(* Tombstones are true as well. *)
LEMMA TombstonesTrue ==
    ASSUME RowTypes, RowsTrue, RecordsOK, NEW t \in Tombstones
    PROVE  /\ t \in Rows /\ t.deleted /\ RowTrue(t) /\ t.slot <= seen
           /\ \E r \in Final(l2), c \in Candidates :
                 r.acc = c.acc /\ r.slot < c.slot /\ t.slot = c.slot /\ t.acc = r.acc
<1>1. PICK q \in Final(l2) \X Candidates :
         /\ q[1].acc = q[2].acc /\ q[1].slot < q[2].slot
         /\ t = [q[1] EXCEPT !.slot = q[2].slot, !.amount = 0, !.deleted = TRUE]
  BY DEF Tombstones
<1>2. q[1] \in Rows
  BY DEF Final, NewestOf, RowTypes
<1>3. q[2] \in records /\ q[2].state = None
  BY DEF Candidates, NewestOf
<1>4. q[2].slot \in Slots /\ RecordTrue(q[2])
  BY <1>3 DEF RowTypes, RecordsOK
<1>5. t \in Rows /\ t.deleted /\ t.slot = q[2].slot /\ t.acc = q[1].acc
  BY <1>1, <1>2, <1>4 DEF Rows
<1>. QED
  BY <1>1, <1>3, <1>4, <1>5 DEF RowTrue, RecordTrue

(* More rows keep what is present, ... *)
LEMMA PresentGrown ==
    ASSUME NEW a, NEW u, Present(a, u), ledger' = ledger, l2 \subseteq l2'
    PROVE  Present(a, u)'
  BY DEF Present, Steady, IsHot

(* ... and do not uncover an address if the live ones are up to date. *)
LEMMA CoveredGrown ==
    ASSUME NEW a, NEW u, Covered(a, u), ledger' = ledger, l2 \subseteq l2',
           \A r \in l2' \ l2 : r.acc = a /\ ~r.deleted => Steady(a, r.slot, u)
    PROVE  Covered(a, u)'
<1>1. SUFFICES ASSUME NEW r \in l2', r.acc = a, ~r.deleted, ~Steady(a, r.slot, u)
               PROVE  \E q \in l2' : q.acc = a /\ q.slot > r.slot
  BY DEF Covered, Steady
<1>2. r \in l2
  BY <1>1
<1>. QED
  BY <1>1, <1>2 DEF Covered

(* A row of each address is the newest. *)
LEMMA NewestRow ==
    ASSUME RowTypes, NEW r \in l2
    PROVE  \E q \in NewestOf(l2) : q.acc = r.acc /\ q.slot >= r.slot
<1>. DEFINE T == {q.slot : q \in {x \in l2 : x.acc = r.acc}}
<1>1. \A q \in l2 : q.slot \in 1 .. MaxSlot
  BY DEF RowTypes, Rows, Slots
<1>2. T \subseteq 0 .. MaxSlot /\ r.slot \in T /\ MaxSlot \in Nat
  BY <1>1, HotAssumption
<1>3. PICK s \in T : \A y \in T : y <= s
  <2>. HIDE DEF T
  <2>. QED
    BY <1>2, Greatest
<1>4. PICK q \in l2 : q.acc = r.acc /\ q.slot = s
  BY <1>3
<1>5. \A x \in l2 : x.acc = q.acc => x.slot <= q.slot
  BY <1>3, <1>4
<1>6. q.slot >= r.slot
  BY <1>1, <1>4, <1>5
<1>. QED
  BY <1>4, <1>5, <1>6 DEF NewestOf

-----------------------------------------------------------------------------
(* Parts of the steps. *)

(* New rows that are true, and beyond the watermark if live, leave L2 exact *)
(* at the watermark.                                                        *)
LEMMA MoreRows ==
    ASSUME RowsInv, NEW new, ledger' = ledger, l2' = l2 \cup new, wm' = wm, seen' = seen,
           unseen' = unseen,
           \A r \in new : /\ r \in Rows /\ RowTrue(r) /\ r.slot <= seen
                          /\ wm # None /\ ~r.deleted => r.slot > wm
    PROVE  l2' \subseteq Rows /\ RowsTrue' /\ WatermarkOK'
<1>1. l2' \subseteq Rows
  BY DEF RowsInv, RowTypes
<1>2. RowsTrue'
  BY DEF RowsInv, RowsTrue, RowTrue
<1>3. ASSUME wm # None
      PROVE  WatermarkOK'
  <2>1. wm \in Nat /\ \A r \in Rows : r.slot \in Nat
    BY <1>3, HotAssumption DEF RowsInv, RowTypes, Rows, Slots
  <2>2. wm <= seen /\ \A a \in unseen : ~IsHot(ledger[wm][a])
    BY <1>3 DEF RowsInv, WatermarkOK
  <2>3. ASSUME NEW a \in Accounts
        PROVE  Present(a, wm)' /\ (a \notin unseen => Covered(a, wm)')
    <3>1. Present(a, wm) /\ (a \notin unseen => Covered(a, wm))
      BY <1>3 DEF RowsInv, WatermarkOK
    <3>2. Present(a, wm)'
      BY <3>1, PresentGrown DEF Present, Steady
    <3>3. \A r \in l2' \ l2 : r.acc = a /\ ~r.deleted => Steady(a, r.slot, wm)
      BY <1>3, <2>1 DEF Steady
    <3>4. a \notin unseen => Covered(a, wm)'
      BY <3>1, <3>3, CoveredGrown DEF Covered, Steady
    <3>. QED
      BY <3>2, <3>4
  <2>. QED
    BY <2>2, <2>3 DEF WatermarkOK, IsHot
<1>4. wm = None => WatermarkOK'
  BY DEF WatermarkOK
<1>. QED
  BY <1>1, <1>2, <1>3, <1>4

(* The end of an attempt that failed. *)
LEMMA RowsStop ==
    ASSUME RowsInv, NEW new, NEW ts, Stop(ts), l2' = l2 \cup new, ts \subseteq Rows,
           \A r \in new : /\ r \in Rows /\ RowTrue(r) /\ r.slot <= seen
                          /\ wm # None /\ ~r.deleted => r.slot > wm
    PROVE  RowsInv'
<1>1. l2' \subseteq Rows /\ RowsTrue' /\ WatermarkOK'
  BY MoreRows DEF Stop
<1>2. RowTypes'
  <2>1. {r.pair : r \in ts} \subseteq HotPairs
    BY DEF Rows
  <2>2. faults' \in 0 .. MaxFaults
    BY HotAssumption DEF Stop, RowsInv, RowTypes
  <2>3. slot' \in 0 .. MaxSlot
    BY HotAssumption DEF Stop, Done
  <2>. QED
    BY <1>1, <2>1, <2>2, <2>3 DEF Stop, Done, RowsInv, RowTypes
<1>3. RecordsOK' /\ FullOK' /\ ContinueOK'
  BY DEF Stop, Done, RecordsOK, FullOK, ContinueOK
<1>. QED
  BY <1>1, <1>2, <1>3 DEF RowsInv

(* The greater of two slots. *)
LEMMA MaxOfTwo ==
    ASSUME NEW m \in Nat, NEW n \in Nat
    PROVE  Max({m, n}) = IF m >= n THEN m ELSE n
  BY DEF Max

(* The beginning of an import that continues the group. *)
LEMMA RowsContinue ==
    ASSUME RowsInv, NEW k \in {"tail", "bridge", "repair"}, NEW s \in Slots, NEW rs,
           Continue(k, s, rs), wm # None,
           \A r \in rs : /\ r \in [acc : Accounts, slot : Slots, state : States]
                         /\ r.state = ledger[r.slot][r.acc] /\ r.slot <= s,
           k # "repair" =>
              /\ s > wm /\ s >= seen /\ \A r \in rs : r.slot > wm
              /\ \A a \in Accounts : IsHot(ledger[s][a]) =>
                    Steady(a, wm, s) \/ \E r \in rs : r.acc = a /\ Steady(a, r.slot, s)
    PROVE  RowsInv'
<1>1. s \in Nat /\ seen \in Nat /\ s \in 0 .. MaxSlot /\ seen \in 0 .. MaxSlot
  BY HotAssumption DEF RowsInv, RowTypes, Slots
<1>2. seen' \in 0 .. MaxSlot /\ seen' >= seen /\ seen' >= s /\ (s >= seen => seen' = s)
  <2>1. seen' = IF seen >= s THEN seen ELSE s
    BY <1>1, MaxOfTwo DEF Continue
  <2>. QED
    BY <1>1, <2>1
<1>3. /\ pc' = "rows" /\ kind' = k /\ slot' = s /\ records' = rs /\ affected' = {}
      /\ tombs' = {} /\ UNCHANGED <<ledger, faults, l2, l3, wm, unseen, dropped, overtaken>>
  BY DEF Continue, Begin, history
<1>4. RowTypes'
  <2>1. rs \subseteq [acc : Accounts, slot : Slots, state : States]
    OBVIOUS
  <2>. QED
    BY <1>1, <1>2, <1>3, <2>1 DEF RowsInv, RowTypes
<1>5. RowsTrue'
  <2>1. \A r \in l2 : r.slot \in Nat
    BY HotAssumption DEF RowsInv, RowTypes, Rows, Slots
  <2>. QED
    <3>1. SUFFICES ASSUME NEW r \in l2
                   PROVE  RowTrue(r)' /\ r.slot <= seen'
      BY <1>3 DEF RowsTrue
    <3>2. RowTrue(r) /\ r.slot <= seen
      BY DEF RowsInv, RowsTrue
    <3>3. r.slot <= seen'
      BY <1>1, <1>2, <2>1, <3>2
    <3>. QED
      BY <1>3, <3>2, <3>3 DEF RowTrue
<1>6. WatermarkOK'
  <2>1. wm \in Nat
    BY HotAssumption DEF RowsInv, RowTypes, Slots
  <2>2. wm <= seen'
    BY <1>1, <1>2, <2>1 DEF RowsInv, WatermarkOK
  <2>. QED
    BY <1>3, <2>2 DEF RowsInv, WatermarkOK, Present, Covered, Steady, IsHot
<1>7. RecordsOK'
  <2>1. \A r \in records' : RecordTrue(r)'
    <3>1. \A r \in rs : r.slot \in Nat
      BY HotAssumption DEF Slots
    <3>. QED
      BY <1>1, <1>2, <1>3, <3>1 DEF RecordTrue
  <2>2. ASSUME k # "repair", NEW a \in Accounts, IsHot(ledger[s][a])
        PROVE  \/ wm' # None /\ Steady(a, wm, s)'
               \/ \E r \in records' : r.acc = a /\ Steady(a, r.slot, s)'
    BY <1>3, <2>2 DEF Steady
  <2>. QED
    BY <1>3, <2>1, <2>2 DEF RecordsOK, Steady, IsHot
<1>8. FullOK'
  BY <1>3 DEF FullOK
<1>9. ContinueOK'
  <2>1. k # "repair" => s = seen' /\ wm < s
    BY <1>2
  <2>. QED
    BY <1>3, <2>1 DEF ContinueOK
<1>. QED
  BY <1>4, <1>5, <1>6, <1>7, <1>8, <1>9 DEF RowsInv

-----------------------------------------------------------------------------
(* The actions. *)

(* An empty group, and the newest record of every address. *)
LEMMA RowsStartFull ==
    ASSUME RowsInv, NEW s \in Slots, StartFull(s)
    PROVE  RowsInv'
<1>1. s \in 0 .. MaxSlot /\ 0 \in 0 .. MaxSlot
  BY HotAssumption DEF Slots
<1>2. /\ pc' = "rows" /\ kind' = "full" /\ slot' = s /\ records' = FullRecords(0, s)
      /\ affected' = {} /\ tombs' = {} /\ UNCHANGED <<ledger, faults>>
      /\ l2' = {} /\ wm' = None /\ seen' = s /\ unseen' = {} /\ dropped' = {} /\ overtaken' = {}
  BY DEF StartFull, Begin
<1>3. ASSUME NEW r \in FullRecords(0, s)
      PROVE  /\ r \in [acc : Accounts, slot : Slots, state : States]
             /\ r.state = ledger[r.slot][r.acc] /\ r.slot <= s /\ Steady(r.acc, r.slot, s)
  <2>1. r \in NewestOf(Written(0, s)) /\ r \in Written(0, s)
    BY DEF FullRecords, NewestOf
  <2>. QED
    BY <1>1, <2>1, NewestSteady, WrittenTrue DEF RowsInv
<1>4. ASSUME NEW a \in Accounts, IsHot(ledger[s][a])
      PROVE  \E r \in FullRecords(0, s) : r.acc = a /\ Steady(a, r.slot, s)
  <2>1. ledger[0][a] = None /\ ledger[s][a] # None
    BY <1>1, <1>4, Holdings DEF IsHot, RowsInv
  <2>2. ~Steady(a, 0, s)
    BY <1>1, <2>1 DEF Steady
  <2>. QED
    BY <1>1, <2>1, <2>2, FullThere DEF RowsInv
<1>5. RowTypes'
  BY <1>1, <1>2, <1>3 DEF RowsInv, RowTypes
<1>6. RecordsOK'
  <2>1. \A r \in records' : RecordTrue(r)'
    BY <1>2, <1>3 DEF RecordTrue
  <2>. QED
    BY <1>2, <1>4, <2>1 DEF RecordsOK, IsHot, Steady
<1>7. FullOK'
  BY <1>2, <1>3 DEF FullOK, Steady
<1>. QED
  BY <1>2, <1>5, <1>6, <1>7 DEF RowsInv, RowsTrue, WatermarkOK, ContinueOK

(* An incremental: the newest record of every address that changed. *)
LEMMA RowsStartTail ==
    ASSUME RowsInv, NEW s \in Slots, StartTail(s)
    PROVE  RowsInv'
<1>1. PICK older \in SUBSET Written(wm, s) :
         Continue("tail", s, NewestOf(Written(wm, s)) \cup older)
  BY DEF StartTail
<1>. DEFINE rs == NewestOf(Written(wm, s)) \cup older
<1>2. wm # None /\ s > wm /\ s >= seen
  BY DEF StartTail
<1>3. wm \in 0 .. MaxSlot /\ s \in 0 .. MaxSlot
  BY <1>2, HotAssumption DEF RowsInv, RowTypes, Slots
<1>4. ASSUME NEW r \in rs
      PROVE  /\ r \in [acc : Accounts, slot : Slots, state : States]
             /\ r.state = ledger[r.slot][r.acc] /\ r.slot <= s /\ r.slot > wm
  <2>1. r \in Written(wm, s)
    BY DEF NewestOf
  <2>. QED
    BY <1>3, <2>1, WrittenTrue DEF RowsInv
<1>5. ASSUME NEW a \in Accounts, ~Steady(a, wm, s)
      PROVE  \E r \in rs : r.acc = a /\ Steady(a, r.slot, s)
  BY <1>3, <1>5, NewestThere DEF RowsInv
<1>. HIDE DEF rs
<1>6. Continue("tail", s, rs)
  BY <1>1 DEF rs
<1>. QED
  BY <1>2, <1>4, <1>5, <1>6, RowsContinue

(* The newer part of a full archive: the same but for empty addresses. *)
LEMMA RowsStartBridge ==
    ASSUME RowsInv, NEW s \in Slots, StartBridge(s)
    PROVE  RowsInv'
<1>. DEFINE rs == FullRecords(wm, s)
<1>1. Continue("bridge", s, rs) /\ wm # None /\ s > wm /\ s >= seen
  BY DEF StartBridge
<1>2. wm \in 0 .. MaxSlot /\ s \in 0 .. MaxSlot
  BY <1>1, HotAssumption DEF RowsInv, RowTypes, Slots
<1>3. ASSUME NEW r \in rs
      PROVE  /\ r \in [acc : Accounts, slot : Slots, state : States]
             /\ r.state = ledger[r.slot][r.acc] /\ r.slot <= s /\ r.slot > wm
  <2>1. r \in Written(wm, s)
    BY DEF FullRecords, NewestOf
  <2>. QED
    BY <1>2, <2>1, WrittenTrue DEF RowsInv
<1>4. ASSUME NEW a \in Accounts, IsHot(ledger[s][a]), ~Steady(a, wm, s)
      PROVE  \E r \in rs : r.acc = a /\ Steady(a, r.slot, s)
  BY <1>2, <1>4, FullThere DEF RowsInv, IsHot
<1>. HIDE DEF rs
<1>. QED
  BY <1>1, <1>3, <1>4, RowsContinue

(* --clickhouse-close-tombstones. *)
LEMMA RowsStartCloseTombstones ==
    ASSUME RowsInv, NEW from \in 0 .. MaxSlot - 1, NEW s \in Slots, StartCloseTombstones(from, s)
    PROVE  RowsInv'
<1>. DEFINE rs == NewestOf(Written(from, s))
<1>1. Continue("repair", s, rs) /\ wm # None
  BY DEF StartCloseTombstones
<1>2. from \in 0 .. MaxSlot /\ s \in 0 .. MaxSlot
  BY HotAssumption DEF Slots
<1>3. ASSUME NEW r \in rs
      PROVE  /\ r \in [acc : Accounts, slot : Slots, state : States]
             /\ r.state = ledger[r.slot][r.acc] /\ r.slot <= s
  <2>1. r \in Written(from, s)
    BY DEF NewestOf
  <2>. QED
    BY <1>2, <2>1, WrittenTrue DEF RowsInv
<1>. HIDE DEF rs
<1>. QED
  BY <1>1, <1>3, RowsContinue

(* The workers' rows are there: hot addresses are up to date. *)
LEMMA HotUpToDate ==
    ASSUME RowsInv, pc = "rows", kind \in {"tail", "bridge"}, ledger' = ledger, slot' = slot,
           l2' = l2 \cup HotRows, NEW a \in Accounts, IsHot(ledger[slot][a])
    PROVE  Present(a, slot)' /\ Covered(a, slot)'
<1>1. /\ wm # None /\ slot = seen /\ wm < slot /\ \A r \in records : r.slot > wm
  BY DEF RowsInv, ContinueOK
<1>2. /\ wm \in Nat /\ slot \in Nat
      /\ \A r \in l2 : r.slot \in Nat
      /\ \A r \in records : r.slot \in Nat
  BY <1>1, HotAssumption DEF RowsInv, RowTypes, Rows, Slots
<1>3. \A r \in HotRows : r.slot \in Nat /\ r.slot > wm
  BY <1>1, <1>2, HotRowsTrue DEF RowsInv
<1>4. \A r \in l2' : r.slot \in Nat
  BY <1>2, <1>3
<1>5. CASE Steady(a, wm, slot)
  <2>1. ledger[wm][a] = ledger[slot][a] /\ a \notin unseen
    BY <1>1, <1>2, <1>5 DEF Steady, RowsInv, WatermarkOK
  <2>2. Present(a, wm) /\ Covered(a, wm)
    BY <1>1, <2>1 DEF RowsInv, WatermarkOK
  <2>3. Present(a, slot)'
    <3>1. SUFFICES ASSUME ledger[slot][a].amount > 0
                   PROVE  \E q \in l2' : q.acc = a /\ Steady(a, q.slot, slot)
      BY DEF Present, Steady, IsHot
    <3>2. PICK q \in l2 : q.acc = a /\ Steady(a, q.slot, wm)
      BY <2>1, <2>2, <3>1 DEF Present
    <3>3. Steady(a, q.slot, slot)
      BY <1>1, <1>2, <1>5, <3>2, SteadyJoin
    <3>. QED
      BY <3>2, <3>3
  <2>4. Covered(a, slot)'
    <3>1. SUFFICES ASSUME NEW r \in l2', r.acc = a, ~r.deleted, ~Steady(a, r.slot, slot)
                   PROVE  \E q \in l2' : q.acc = a /\ q.slot > r.slot
      BY DEF Covered, Steady
    <3>2. r.slot <= wm
      BY <1>2, <1>4, <1>5, <3>1, SteadyLater
    <3>3. r \in l2 /\ ~Steady(a, r.slot, wm)
      <4>1. r \in l2
        BY <1>2, <1>3, <3>2
      <4>. QED
        BY <1>1, <1>2, <1>5, <3>1, <4>1, SteadyJoin
    <3>. QED
      BY <2>2, <3>1, <3>3 DEF Covered
  <2>. QED
    BY <2>3, <2>4
<1>6. CASE ~Steady(a, wm, slot)
  <2>1. PICK c \in records : c.acc = a /\ Steady(a, c.slot, slot)
    BY <1>6 DEF RowsInv, RecordsOK
  <2>2. c.state = ledger[slot][a]
    <3>1. RecordTrue(c)
      BY DEF RowsInv, RecordsOK
    <3>2. c.slot \in c.slot .. slot
      BY <1>1, <1>2, <3>1 DEF RecordTrue
    <3>. QED
      BY <2>1, <3>1, <3>2 DEF RecordTrue, Steady
  <2>3. PICK q \in HotRows : q.acc = a /\ q.slot = c.slot
    BY <2>1, <2>2, RowWritten DEF RowsInv
  <2>4. Present(a, slot)'
    BY <2>1, <2>3 DEF Present, Steady, IsHot
  <2>5. Covered(a, slot)'
    <3>1. SUFFICES ASSUME NEW r \in l2', r.acc = a, ~r.deleted, ~Steady(a, r.slot, slot)
                   PROVE  \E x \in l2' : x.acc = a /\ x.slot > r.slot
      BY DEF Covered, Steady
    <3>2. ~(r.slot >= q.slot)
      BY <1>2, <1>3, <1>4, <2>1, <2>3, <3>1, SteadyLater
    <3>. QED
      BY <1>3, <1>4, <2>3, <3>2
  <2>. QED
    BY <2>4, <2>5
<1>. QED
  BY <1>5, <1>6

(* A new baseline: the rows of the newest records and no others. *)
LEMMA BaselineExact ==
    ASSUME RowsInv, pc = "rows", kind = "full", ledger' = ledger, slot' = slot,
           l2' = l2 \cup HotRows, NEW a \in Accounts
    PROVE  Present(a, slot)' /\ Covered(a, slot)'
<1>1. wm = None /\ slot = seen /\ l2 = {} /\ \A c \in records : Steady(c.acc, c.slot, slot)
  BY DEF RowsInv, FullOK
<1>2. Present(a, slot)'
  <2>1. SUFFICES ASSUME IsHot(ledger[slot][a]), ledger[slot][a].amount > 0
                 PROVE  \E q \in l2' : q.acc = a /\ Steady(a, q.slot, slot)
    BY DEF Present, Steady, IsHot
  <2>2. PICK c \in records : c.acc = a /\ Steady(a, c.slot, slot)
    BY <1>1, <2>1 DEF RowsInv, RecordsOK
  <2>3. c.state = ledger[slot][a]
    <3>1. RecordTrue(c) /\ c.slot \in Nat /\ slot \in Nat
      BY HotAssumption DEF RowsInv, RecordsOK, RowTypes, Slots
    <3>2. c.slot \in c.slot .. slot
      BY <1>1, <3>1 DEF RecordTrue
    <3>. QED
      BY <2>2, <3>1, <3>2 DEF RecordTrue, Steady
  <2>4. PICK q \in HotRows : q.acc = a /\ q.slot = c.slot
    BY <2>1, <2>2, <2>3, RowWritten DEF RowsInv
  <2>. QED
    BY <2>2, <2>4
<1>3. Covered(a, slot)'
  <2>1. SUFFICES ASSUME NEW r \in HotRows, r.acc = a
                 PROVE  Steady(a, r.slot, slot)
    BY <1>1 DEF Covered, Steady
  <2>. QED
    BY <1>1, <2>1, HotRowsTrue DEF RowsInv
<1>. QED
  BY <1>2, <1>3

(* The rows of the workers, in a baseline and in an import that continues. *)
LEMMA RowsWriteRows ==
    ASSUME RowsInv, WriteRows
    PROVE  RowsInv'
<1>1. /\ pc = "rows" /\ l2' = l2 \cup HotRows
      /\ pc' = (IF kind = "full" THEN "refresh" ELSE "tombstones")
      /\ affected' = (IF kind = "full" THEN {} ELSE {r.pair : r \in HotRows})
      /\ UNCHANGED <<ledger, wm, seen, kind, slot, records, tombs, faults,
                     unseen, dropped, overtaken>>
  BY DEF WriteRows, history
<1>2. ASSUME NEW r \in HotRows
      PROVE  /\ r \in Rows /\ RowTrue(r) /\ r.slot <= seen
             /\ wm # None /\ ~r.deleted => r.slot > wm
  <2>1. /\ r \in Rows /\ RowTrue(r) /\ r.slot <= seen /\ kind # "repair"
        /\ \E q \in records : q.slot = r.slot
    BY HotRowsTrue DEF RowsInv
  <2>2. wm # None => kind # "full" /\ \A q \in records : q.slot > wm
    BY <1>1, <2>1 DEF RowsInv, FullOK, ContinueOK
  <2>. QED
    BY <2>1, <2>2
<1>3. l2' \subseteq Rows /\ RowsTrue' /\ WatermarkOK'
  BY <1>1, <1>2, MoreRows
<1>4. RowTypes'
  <2>1. {r.pair : r \in HotRows} \subseteq HotPairs
    BY <1>2 DEF Rows
  <2>. QED
    BY <1>1, <1>3, <2>1 DEF RowsInv, RowTypes
<1>5. RecordsOK'
  BY <1>1 DEF RowsInv, RecordsOK, RecordTrue, Steady, IsHot
<1>6. FullOK'
  <2>1. SUFFICES ASSUME kind = "full"
                 PROVE  FullOK'
    BY <1>1 DEF FullOK
  <2>2. \A a \in Accounts : Present(a, slot)' /\ Covered(a, slot)'
    BY <1>1, <2>1, BaselineExact
  <2>. QED
    BY <1>1, <2>1, <2>2 DEF RowsInv, FullOK, Steady
<1>7. ContinueOK'
  <2>1. SUFFICES ASSUME kind # "full"
                 PROVE  ContinueOK'
    BY <1>1 DEF ContinueOK
  <2>2. ASSUME kind # "repair", NEW a \in Accounts, IsHot(ledger[slot][a])
        PROVE  Present(a, slot)' /\ Covered(a, slot)'
    <3>1. kind \in {"tail", "bridge"}
      BY <2>1, <2>2 DEF RowsInv, RowTypes
    <3>. QED
      BY <1>1, <2>2, <3>1, HotUpToDate
  <2>. QED
    BY <1>1, <2>1, <2>2 DEF RowsInv, ContinueOK, IsHot
<1>. QED
  BY <1>3, <1>4, <1>5, <1>6, <1>7 DEF RowsInv

(* An address that a record says has ended gets a tombstone, if anything of *)
(* it is live.                                                              *)
LEMMA EndedCovered ==
    ASSUME RowsInv, ledger' = ledger, l2' = l2 \cup Tombstones,
           NEW a \in Accounts, NEW u \in Nat, SaysEnded(a, u)
    PROVE  Covered(a, u)'
<1>1. PICK e \in records : /\ e.acc = a /\ e.state = None
                           /\ \A t \in e.slot .. u : ~IsHot(ledger[t][a])
  BY DEF SaysEnded
<1>. DEFINE T == {x.slot : x \in {y \in records : y.acc = a /\ y.state = None}}
<1>2. /\ \A x \in records : x.slot \in Nat /\ x.slot \in 0 .. MaxSlot
      /\ \A x \in Rows : x.slot \in Nat
      /\ MaxSlot \in Nat
  BY HotAssumption DEF RowsInv, RowTypes, Rows, Slots
<1>3. T \subseteq 0 .. MaxSlot /\ e.slot \in T
  BY <1>1, <1>2
<1>4. PICK m \in T : \A n \in T : n <= m
  <2>. HIDE DEF T
  <2>. QED
    BY <1>2, <1>3, Greatest
<1>5. PICK c \in records : c.acc = a /\ c.state = None /\ c.slot = m
  BY <1>4
<1>6. c \in Candidates /\ c.slot >= e.slot
  <2>1. \A x \in records : x.state = None /\ x.acc = a => x.slot <= c.slot
    BY <1>4, <1>5
  <2>. QED
    BY <1>1, <1>2, <1>5, <2>1 DEF Candidates, NewestOf
<1>7. SUFFICES ASSUME NEW r \in l2', r.acc = a, ~r.deleted, ~Steady(a, r.slot, u)
               PROVE  \E q \in l2' : q.acc = a /\ q.slot > r.slot
  BY DEF Covered, Steady
<1>8. r \in l2 /\ r \in Rows /\ RowTrue(r)
  BY <1>7, TombstonesTrue DEF RowsInv, RowTypes, RowsTrue
<1>9. r.slot < e.slot
  <2>1. IsHot(ledger[r.slot][a])
    BY <1>7, <1>8, LiveIsHot
  <2>2. r.slot <= u
    <3>1. ~(r.slot > u)
      BY <1>2, <1>7, <1>8 DEF Steady
    <3>. QED
      BY <1>2, <1>8, <3>1
  <2>3. r.slot \notin e.slot .. u
    BY <1>1, <2>1
  <2>. QED
    BY <1>2, <1>8, <2>2, <2>3
<1>10. CASE r \in NewestOf(l2)
  <2>. DEFINE t == [r EXCEPT !.slot = c.slot, !.amount = 0, !.deleted = TRUE]
  <2>1. <<r, c>> \in Final(l2) \X Candidates /\ r.acc = c.acc /\ r.slot < c.slot
    BY <1>2, <1>5, <1>6, <1>7, <1>8, <1>9, <1>10 DEF Final
  <2>2. t \in Tombstones
    <3>. DEFINE q == <<r, c>>
    <3>1. q \in {rc \in Final(l2) \X Candidates :
                   rc[1].acc = rc[2].acc /\ rc[1].slot < rc[2].slot}
      BY <2>1
    <3>2. t = [q[1] EXCEPT !.slot = q[2].slot, !.amount = 0, !.deleted = TRUE]
      OBVIOUS
    <3>. HIDE DEF q, t
    <3>. QED
      BY <3>1, <3>2 DEF Tombstones
  <2>3. t.acc = a /\ t.slot = c.slot
    BY <1>7, <1>8 DEF Rows
  <2>. QED
    BY <2>1, <2>2, <2>3
<1>11. CASE r \notin NewestOf(l2)
  <2>1. PICK q \in l2 : q.acc = a /\ ~(q.slot <= r.slot)
    BY <1>7, <1>8, <1>11 DEF NewestOf
  <2>2. q.slot > r.slot
    BY <1>2, <1>8, <2>1 DEF RowsInv, RowTypes
  <2>. QED
    BY <2>1, <2>2
<1>. QED
  BY <1>10, <1>11

(* Tombstones for the addresses that a record calls empty. *)
LEMMA RowsWriteTombstones ==
    ASSUME RowsInv, WriteTombstones
    PROVE  RowsInv'
<1>1. /\ pc = "tombstones" /\ pc' = "refresh" /\ l2' = l2 \cup Tombstones
      /\ tombs' = Tombstones /\ affected' = affected \cup {r.pair : r \in Tombstones}
      /\ UNCHANGED <<ledger, wm, seen, kind, slot, records, faults, unseen, dropped, overtaken>>
  BY DEF WriteTombstones, history
<1>2. \A t \in Tombstones : t \in Rows /\ t.deleted /\ RowTrue(t) /\ t.slot <= seen
  BY TombstonesTrue DEF RowsInv
<1>3. l2' \subseteq Rows /\ RowsTrue' /\ WatermarkOK'
  BY <1>1, <1>2, MoreRows
<1>4. RowTypes'
  <2>1. {r.pair : r \in Tombstones} \subseteq HotPairs /\ Tombstones \subseteq Rows
    BY <1>2 DEF Rows
  <2>. QED
    BY <1>1, <1>3, <2>1 DEF RowsInv, RowTypes
<1>5. RecordsOK'
  BY <1>1 DEF RowsInv, RecordsOK, RecordTrue, Steady, IsHot
<1>6. FullOK' /\ kind # "full"
  BY <1>1 DEF RowsInv, FullOK
<1>7. ContinueOK'
  <2>. DEFINE u == IF kind = "repair" THEN wm ELSE slot
  <2>1. wm # None /\ u \in Nat
    BY <1>1, <1>6, HotAssumption DEF RowsInv, ContinueOK, RowTypes, Slots
  <2>2. ASSUME NEW a \in Accounts, SaysEnded(a, u)
        PROVE  Covered(a, u)'
    BY <1>1, <2>1, <2>2, EndedCovered
  <2>3. ASSUME kind # "repair", NEW a \in Accounts, IsHot(ledger[slot][a])
        PROVE  Present(a, slot)' /\ Covered(a, slot)'
    <3>1. Present(a, slot) /\ Covered(a, slot)
      BY <1>1, <1>6, <2>3 DEF RowsInv, ContinueOK
    <3>. QED
      BY <1>1, <1>2, <3>1, PresentGrown, CoveredGrown
  <2>. QED
    BY <1>1, <1>6, <2>1, <2>2, <2>3 DEF RowsInv, ContinueOK, IsHot, SaysEnded, Covered, Steady
<1>. QED
  BY <1>3, <1>4, <1>5, <1>6, <1>7 DEF RowsInv

(* L3 is refreshed; L2 is left alone. *)
LEMMA RowsRefresh ==
    ASSUME RowsInv, Refresh
    PROVE  RowsInv'
<1>1. /\ pc = "refresh" /\ pc' = "checkpoint"
      /\ dropped' = dropped \ affected
      /\ overtaken' = (overtaken \ affected)
                        \cup {p \in affected : l3[p] # None /\ l3[p].slot > slot}
      /\ UNCHANGED <<ledger, l2, wm, seen, kind, slot, records, affected, tombs, faults, unseen>>
  BY DEF Refresh
<1>2. RowTypes'
  BY <1>1 DEF RowsInv, RowTypes
<1>3. RowsTrue' /\ WatermarkOK' /\ RecordsOK'
  BY <1>1 DEF RowsInv, RowsTrue, RowTrue, WatermarkOK, RecordsOK, RecordTrue, Present, Covered,
              Steady, IsHot
<1>4. FullOK'
  BY <1>1 DEF RowsInv, FullOK, Present, Covered, Steady, IsHot
<1>5. ContinueOK'
  BY <1>1 DEF RowsInv, ContinueOK, Present, Covered, Steady, IsHot, SaysEnded
<1>. QED
  BY <1>2, <1>3, <1>4, <1>5 DEF RowsInv

(* The watermark moves to a slot at which every address is present, and     *)
(* covered unless its end is unseen.                                        *)
LEMMA CheckpointExact ==
    ASSUME RowsInv, Checkpoint, NEW a \in Accounts
    PROVE  /\ Present(a, wm') /\ (a \notin unseen' => Covered(a, wm'))
<1>. DEFINE u == IF kind = "repair" THEN wm ELSE slot
<1>1. /\ pc = "checkpoint" /\ wm' = u
      /\ unseen' = {b \in unseen \cup Ended : ~SaysEnded(b, u) /\ ~IsHot(ledger[u][b])}
  BY DEF Checkpoint
<1>2. CASE kind = "full"
  BY <1>1, <1>2 DEF RowsInv, FullOK
<1>3. ASSUME kind # "full", a \notin unseen', SaysEnded(a, u)
      PROVE  Covered(a, u)
  BY <1>1, <1>3 DEF RowsInv, ContinueOK
<1>4. CASE kind = "repair"
  <2>1. Present(a, wm) /\ (a \notin unseen => Covered(a, wm)) /\ u = wm /\ Ended = {}
    BY <1>1, <1>4 DEF RowsInv, ContinueOK, WatermarkOK, Ended
  <2>2. a \in unseen => ~IsHot(ledger[wm][a])
    BY <1>1, <1>4 DEF RowsInv, ContinueOK, WatermarkOK
  <2>. QED
    BY <1>1, <1>3, <1>4, <2>1, <2>2
<1>5. CASE kind \in {"tail", "bridge"}
  <2>1. u = slot /\ wm # None /\ slot = seen /\ wm < slot /\ wm \in Nat /\ slot \in Nat
    BY <1>1, <1>5, HotAssumption DEF RowsInv, ContinueOK, RowTypes, Slots
  <2>2. IsHot(ledger[slot][a]) => Present(a, slot) /\ Covered(a, slot)
    BY <1>1, <1>5 DEF RowsInv, ContinueOK
  <2>3. Present(a, slot)
    BY <2>2 DEF Present
  <2>4. ASSUME a \notin unseen', ~IsHot(ledger[slot][a]), ~SaysEnded(a, slot)
        PROVE  Covered(a, slot)
    <3>1. a \notin unseen /\ a \notin Ended
      BY <1>1, <2>1, <2>4
    <3>2. \A t \in wm .. slot - 1 : ~IsHot(ledger[t][a])
      BY <1>5, <2>4, <3>1 DEF Ended
    <3>3. SUFFICES ASSUME NEW r \in l2, r.acc = a, ~r.deleted
                   PROVE  \E q \in l2 : q.acc = a /\ q.slot > r.slot
      BY DEF Covered
    <3>4. r \in Rows /\ RowTrue(r) /\ r.slot \in Nat /\ r.slot <= slot
      BY <2>1, HotAssumption DEF RowsInv, RowTypes, RowsTrue, Rows, Slots
    <3>5. IsHot(ledger[r.slot][a])
      BY <3>3, <3>4, LiveIsHot
    <3>6. r.slot < wm
      <4>1. r.slot \notin wm .. slot - 1 /\ r.slot # slot
        BY <2>4, <3>2, <3>5
      <4>. QED
        BY <2>1, <3>4, <4>1
    <3>7. ~Steady(a, r.slot, wm)
      <4>1. r.slot \in r.slot .. wm /\ wm \in wm .. slot - 1
        BY <2>1, <3>4, <3>6
      <4>2. ~IsHot(ledger[wm][a])
        BY <3>2, <4>1
      <4>. QED
        BY <3>5, <4>1, <4>2 DEF Steady
    <3>. QED
      BY <2>1, <3>1, <3>3, <3>7 DEF RowsInv, WatermarkOK, Covered
  <2>. QED
    BY <1>1, <1>3, <1>5, <2>1, <2>2, <2>3, <2>4
<1>. QED
  BY <1>2, <1>4, <1>5 DEF RowsInv, RowTypes

(* The watermark moves to the slot of the import. *)
LEMMA RowsCheckpoint ==
    ASSUME RowsInv, Checkpoint
    PROVE  RowsInv'
<1>1. /\ pc = "checkpoint" /\ wm' = (IF kind = "repair" THEN wm ELSE slot)
      /\ unseen' = {a \in unseen \cup Ended : ~SaysEnded(a, wm') /\ ~IsHot(ledger[wm'][a])}
      /\ pc' = "idle" /\ kind' = "full" /\ slot' = 0 /\ records' = {} /\ affected' = {}
      /\ tombs' = {}
      /\ UNCHANGED <<ledger, l2, seen, faults, dropped, overtaken>>
  BY DEF Checkpoint, Done
<1>2. wm' \in Slots /\ wm' <= seen
  <2>1. kind # "full" => wm # None /\ (kind # "repair" => slot = seen /\ wm < slot)
    BY <1>1 DEF RowsInv, ContinueOK
  <2>2. wm # None => wm \in Slots /\ wm <= seen
    BY DEF RowsInv, RowTypes, WatermarkOK
  <2>3. kind = "full" => slot = seen /\ slot \in Slots
    BY <1>1 DEF RowsInv, FullOK
  <2>4. slot \in 0 .. MaxSlot /\ seen \in 0 .. MaxSlot
    BY DEF RowsInv, RowTypes
  <2>. QED
    BY <1>1, <2>1, <2>2, <2>3, <2>4 DEF Slots
<1>3. RowTypes'
  <2>1. unseen' \subseteq Accounts
    BY <1>1 DEF Ended, RowsInv, RowTypes
  <2>. QED
    BY <1>1, <1>2, <2>1, HotAssumption DEF RowsInv, RowTypes
<1>4. WatermarkOK'
  <2>1. \A a \in Accounts : Present(a, wm') /\ (a \notin unseen' => Covered(a, wm'))
    BY CheckpointExact
  <2>2. \A a \in Accounts : Present(a, wm)' /\ (a \notin unseen' => Covered(a, wm)')
    BY <1>1, <2>1 DEF Present, Covered, Steady, IsHot
  <2>3. \A a \in unseen' : ~IsHot(ledger'[wm'][a])
    BY <1>1
  <2>. QED
    BY <1>1, <1>2, <2>2, <2>3 DEF WatermarkOK, IsHot
<1>5. RowsTrue' /\ RecordsOK' /\ FullOK' /\ ContinueOK'
  BY <1>1 DEF RowsInv, RowsTrue, RowTrue, RecordsOK, FullOK, ContinueOK
<1>. QED
  BY <1>3, <1>4, <1>5 DEF RowsInv

(* Failures: part of the rows or tombstones may be there. *)
LEMMA RowsFailures ==
    ASSUME RowsInv, RowsFail \/ TombstonesFail \/ RefreshFails \/ CheckpointFails
    PROVE  RowsInv'
<1>1. CASE RowsFail
  <2>1. PICK part \in SUBSET HotRows : l2' = l2 \cup part
    BY <1>1 DEF RowsFail
  <2>2. ASSUME NEW r \in part
        PROVE  /\ r \in Rows /\ RowTrue(r) /\ r.slot <= seen
               /\ wm # None /\ ~r.deleted => r.slot > wm
    <3>1. /\ r \in Rows /\ RowTrue(r) /\ r.slot <= seen /\ kind # "repair"
          /\ \E q \in records : q.slot = r.slot
      BY HotRowsTrue DEF RowsInv
    <3>2. wm # None => kind # "full" /\ \A q \in records : q.slot > wm
      BY <1>1, <3>1 DEF RowsInv, FullOK, ContinueOK, RowsFail
    <3>. QED
      BY <3>1, <3>2
  <2>. QED
    BY <1>1, <2>1, <2>2, RowsStop DEF RowsFail
<1>2. CASE TombstonesFail
  <2>1. PICK part \in SUBSET Tombstones : l2' = l2 \cup part /\ Stop(part)
    BY <1>2 DEF TombstonesFail
  <2>2. \A t \in part : t \in Rows /\ t.deleted /\ RowTrue(t) /\ t.slot <= seen
    BY TombstonesTrue DEF RowsInv
  <2>. QED
    BY <2>1, <2>2, RowsStop
<1>3. CASE RefreshFails
  <2>1. PICK ts : ts = tombs
    OBVIOUS
  <2>2. PICK new : new = {}
    OBVIOUS
  <2>3. Stop(ts) /\ l2' = l2 \cup new /\ ts \subseteq Rows
    BY <1>3, <2>1, <2>2 DEF RefreshFails, RowsInv, RowTypes
  <2>4. \A r \in new : FALSE
    BY <2>2
  <2>. QED
    BY <2>3, <2>4, RowsStop
<1>4. CASE CheckpointFails
  <2>1. Stop({}) /\ l2' = l2 \cup {}
    BY <1>4 DEF CheckpointFails
  <2>. QED
    BY <2>1, RowsStop
<1>. QED
  BY <1>1, <1>2, <1>3, <1>4

(* --clickhouse-rebuild-hot reads L2 and writes L3. *)
LEMMA RowsRebuildHot ==
    ASSUME RowsInv, RebuildHot
    PROVE  RowsInv'
<1>1. /\ dropped' = {} /\ overtaken' = {}
      /\ UNCHANGED <<ledger, l2, wm, seen, pc, kind, slot, records, affected, tombs, faults,
                     unseen>>
  BY DEF RebuildHot
<1>2. RowTypes'
  BY <1>1 DEF RowsInv, RowTypes
<1>3. RowsTrue' /\ WatermarkOK' /\ RecordsOK'
  BY <1>1 DEF RowsInv, RowsTrue, RowTrue, WatermarkOK, RecordsOK, RecordTrue, Present, Covered,
              Steady, IsHot
<1>4. FullOK'
  BY <1>1 DEF RowsInv, FullOK, Present, Covered, Steady, IsHot
<1>5. ContinueOK'
  BY <1>1 DEF RowsInv, ContinueOK, Present, Covered, Steady, IsHot, SaysEnded
<1>. QED
  BY <1>2, <1>3, <1>4, <1>5 DEF RowsInv

(* A merge drops a row in favour of a newer one of the same address. *)
LEMMA RowsMerge ==
    ASSUME RowsInv, Merge
    PROVE  RowsInv'
<1>1. PICK d \in l2 \ NewestOf(l2) : l2' = l2 \ {d}
  BY DEF Merge
<1>2. UNCHANGED <<ledger, wm, seen, pc, kind, slot, records, affected, tombs, faults,
                  unseen, dropped, overtaken>>
  BY DEF Merge, history
<1>3. \A r \in l2 : r.slot \in Nat
  BY HotAssumption DEF RowsInv, RowTypes, Rows, Slots
<1>4. PICK n \in l2 : n.acc = d.acc /\ n.slot > d.slot
  <2>1. PICK n \in l2 : n.acc = d.acc /\ ~(n.slot <= d.slot)
    BY <1>1 DEF NewestOf
  <2>. QED
    BY <1>3, <2>1
<1>5. n \in l2'
  BY <1>1, <1>3, <1>4
<1>6. ASSUME NEW a, NEW u \in Nat, Present(a, u)
      PROVE  Present(a, u)'
  <2>1. SUFFICES ASSUME NEW q \in l2, q.acc = a, Steady(a, q.slot, u)
                 PROVE  \E x \in l2' : x.acc = a /\ Steady(a, x.slot, u)
    BY <1>2, <1>6 DEF Present, Steady, IsHot
  <2>2. CASE q = d
    BY <1>3, <1>4, <1>5, <2>1, <2>2, SteadyLater
  <2>. QED
    BY <1>1, <2>1, <2>2
<1>7. ASSUME NEW a, NEW u \in Nat, Covered(a, u)
      PROVE  Covered(a, u)'
  <2>1. SUFFICES ASSUME NEW r \in l2, NEW q \in l2, q.acc = a, q.slot > r.slot
                 PROVE  \E x \in l2' : x.acc = a /\ x.slot > r.slot
    BY <1>1, <1>2, <1>7 DEF Covered, Steady
  <2>2. CASE q = d
    BY <1>3, <1>4, <1>5, <2>1, <2>2
  <2>. QED
    BY <1>1, <2>1, <2>2
<1>8. RowTypes'
  BY <1>1, <1>2 DEF RowsInv, RowTypes
<1>9. RowsTrue' /\ RecordsOK'
  BY <1>1, <1>2 DEF RowsInv, RowsTrue, RowTrue, RecordsOK, RecordTrue, Steady, IsHot
<1>10. slot \in Nat /\ (wm # None => wm \in Nat)
  BY HotAssumption DEF RowsInv, RowTypes, Slots
<1>11. WatermarkOK'
  BY <1>2, <1>6, <1>7, <1>10 DEF RowsInv, WatermarkOK, IsHot
<1>12. FullOK'
  BY <1>1, <1>2, <1>6, <1>7, <1>10 DEF RowsInv, FullOK, Steady
<1>13. ContinueOK'
  BY <1>2, <1>6, <1>7, <1>10 DEF RowsInv, ContinueOK, IsHot, SaysEnded
<1>. QED
  BY <1>8, <1>9, <1>11, <1>12, <1>13 DEF RowsInv

-----------------------------------------------------------------------------
(* Results. *)

(* Empty tables are as they should be. *)
LEMMA RowsInit == Init => RowsInv
<1>. SUFFICES ASSUME Init
              PROVE  RowsInv
  OBVIOUS
<1>1. RowTypes
  BY HotAssumption DEF Init, RowTypes
<1>. QED
  BY <1>1 DEF Init, RowsInv, RowsTrue, WatermarkOK, RecordsOK, FullOK, ContinueOK

(* Every step keeps the invariant. *)
LEMMA RowsNext ==
    ASSUME RowsInv, [Next]_vars
    PROVE  RowsInv'
<1>1. CASE \E s \in Slots : StartFull(s) \/ StartTail(s) \/ StartBridge(s)
  BY <1>1, RowsStartFull, RowsStartTail, RowsStartBridge
<1>2. CASE \E from \in 0 .. MaxSlot - 1, s \in Slots : StartCloseTombstones(from, s)
  BY <1>2, RowsStartCloseTombstones
<1>3. CASE WriteRows \/ WriteTombstones \/ Refresh \/ Checkpoint
  BY <1>3, RowsWriteRows, RowsWriteTombstones, RowsRefresh, RowsCheckpoint
<1>4. CASE RowsFail \/ TombstonesFail \/ RefreshFails \/ CheckpointFails
  BY <1>4, RowsFailures
<1>5. CASE RebuildHot \/ Merge
  BY <1>5, RowsRebuildHot, RowsMerge
<1>6. CASE UNCHANGED vars
  <2>1. UNCHANGED <<ledger, l2, wm, seen, pc, kind, slot, records, affected, tombs, faults,
                    unseen, dropped, overtaken>>
    BY <1>6 DEF vars, history
  <2>2. RowTypes' /\ RowsTrue' /\ WatermarkOK' /\ RecordsOK'
    BY <2>1 DEF RowsInv, RowTypes, RowsTrue, RowTrue, WatermarkOK, RecordsOK, RecordTrue, Present,
                Covered, Steady, IsHot
  <2>3. FullOK' /\ ContinueOK'
    BY <2>1 DEF RowsInv, FullOK, ContinueOK, Present, Covered, Steady, IsHot, SaysEnded
  <2>. QED
    BY <2>2, <2>3 DEF RowsInv
<1>. QED
  BY <1>1, <1>2, <1>3, <1>4, <1>5, <1>6 DEF Next

(* The inductive invariant of L2: every row is true, and at the watermark   *)
(* every address is present, and covered unless its end is unseen.          *)
THEOREM RowsInvHolds == Spec => []RowsInv
<1>1. RowsInv /\ [Next]_vars => RowsInv'
  BY RowsNext
<1>. QED
  BY RowsInit, <1>1, PTL DEF Spec

(* When imports have caught up, an address whose end was not unseen has one *)
(* row in FINAL, with the tokens it holds, or none that says it holds any.  *)
LEMMA ExactWhenCaughtUp ==
    ASSUME RowsInv, CaughtUp, NEW a \in Accounts \ unseen, NEW p \in HotPairs
    PROVE  AmountSum({r \in PairRows(Final(l2), p) : r.acc = a}) = HoldsOf(a, p)
<1>. DEFINE X == {r \in PairRows(Final(l2), p) : r.acc = a}
            h == ledger[wm][a]
<1>1. /\ wm # None /\ wm = seen /\ wm \in Nat /\ wm \in 0 .. MaxSlot
      /\ \A r \in l2 : r \in Rows /\ r.slot \in Nat /\ r.slot <= wm /\ RowTrue(r)
      /\ \A n \in Amounts \cup {0} : n \in Nat
  BY HotAssumption DEF CaughtUp, RowsInv, RowTypes, RowsTrue, Rows, Slots
<1>2. Present(a, wm) /\ Covered(a, wm) /\ h \in States
  BY <1>1, Holdings DEF RowsInv, WatermarkOK
<1>3. ASSUME NEW r \in X
      PROVE  /\ r \in NewestOf(l2) /\ r \in l2 /\ ~r.deleted /\ r.acc = a /\ r.pair = p
             /\ h = [pair |-> p, amount |-> r.amount] /\ r.amount \in Nat
  <2>1. r \in NewestOf(l2) /\ r \in l2 /\ ~r.deleted /\ r.acc = a /\ r.pair = p
    BY DEF PairRows, Final, NewestOf
  <2>2. \A q \in l2 : q.acc = a => ~(q.slot > r.slot)
    BY <1>1, <2>1 DEF NewestOf
  <2>3. Steady(a, r.slot, wm)
    BY <1>2, <2>1, <2>2 DEF Covered
  <2>4. ledger[r.slot][a] = h
    BY <1>1, <2>1, <2>3 DEF Steady
  <2>5. r.amount \in Nat
    BY <1>1, <2>1 DEF Rows
  <2>. QED
    BY <1>1, <2>1, <2>4, <2>5 DEF RowTrue
<1>4. ASSUME NEW r \in X, NEW q \in X
      PROVE  r = q
  <2>. HIDE DEF X, h
  <2>1. /\ r \in NewestOf(l2) /\ r \in l2 /\ ~r.deleted /\ r.acc = a /\ r.pair = p
        /\ h = [pair |-> p, amount |-> r.amount]
    BY <1>3
  <2>2. /\ q \in NewestOf(l2) /\ q \in l2 /\ ~q.deleted /\ q.acc = a /\ q.pair = p
        /\ h = [pair |-> p, amount |-> q.amount]
    BY <1>3
  <2>3. r.amount = q.amount
    BY <2>1, <2>2
  <2>4. r.slot <= q.slot /\ q.slot <= r.slot
    BY <2>1, <2>2 DEF NewestOf
  <2>5. r.slot = q.slot /\ r \in Rows /\ q \in Rows
    BY <1>1, <2>1, <2>2, <2>4
  <2>. QED
    BY <2>1, <2>2, <2>3, <2>5 DEF Rows
<1>5. CASE X = {}
  <2>1. ~(h # None /\ h.pair = p /\ h.amount > 0)
    <3>1. SUFFICES ASSUME h # None, h.pair = p, h.amount > 0
                   PROVE  FALSE
      OBVIOUS
    <3>2. PICK q \in l2 : q.acc = a /\ Steady(a, q.slot, wm)
      BY <1>2, <3>1 DEF Present, IsHot
    <3>3. PICK m \in NewestOf(l2) : m.acc = a /\ m.slot >= q.slot
      BY <3>2, NewestRow DEF RowsInv
    <3>4. m \in l2
      BY DEF NewestOf
    <3>5. ledger[m.slot][a] = h
      <4>1. m.slot \in q.slot .. wm
        BY <1>1, <3>2, <3>3, <3>4
      <4>. QED
        BY <3>2, <4>1 DEF Steady
    <3>6. ~m.deleted /\ m.pair = p
      <4>1. h = IF m.deleted THEN None ELSE [pair |-> m.pair, amount |-> m.amount]
        BY <1>1, <3>3, <3>4, <3>5 DEF RowTrue
      <4>. HIDE DEF h
      <4>2. ~m.deleted
        BY <3>1, <4>1
      <4>. QED
        BY <3>1, <4>1, <4>2
    <3>7. m \in X
      BY <3>3, <3>6 DEF PairRows, Final
    <3>. QED
      BY <1>5, <3>7
  <2>2. HoldsOf(a, p) = 0
    <3>1. CASE h # None /\ h.pair = p
      <4>1. h.amount \in Nat
        BY <1>1, <1>2, <3>1 DEF States
      <4>2. h.amount = 0
        BY <2>1, <3>1, <4>1
      <4>. QED
        BY <3>1, <4>2 DEF HoldsOf
    <3>. QED
      BY <3>1 DEF HoldsOf
  <2>. QED
    BY <1>5, <2>2, EmptySum
<1>6. CASE X # {}
  <2>1. PICK r \in X : TRUE
    BY <1>6
  <2>2. X = {r}
    BY <1>4
  <2>3. h = [pair |-> p, amount |-> r.amount] /\ r.amount \in Nat
    BY <1>3
  <2>4. h # None
    <3>1. h \in [pair : HotPairs \cup ColdPairs, amount : Nat]
      BY <2>3
    <3>. QED
      BY <3>1, HotAssumption
  <2>5. HoldsOf(a, p) = r.amount
    BY <2>3, <2>4 DEF HoldsOf
  <2>6. AmountSum(X) = r.amount
    <3>. HIDE DEF X
    <3>. QED
      BY <2>2, <2>3, SingleSum
  <2>. QED
    BY <2>5, <2>6
<1>. QED
  BY <1>5, <1>6

(* L2 mirrors the ledger, for every history of it: no failure, repetition,  *)
(* superseded version, repair or merge leaves a wrong balance of an address *)
(* whose end some archive records.                                          *)
THEOREM StateIsExact == Spec => []StateExact
<1>1. RowsInv => StateExact
  BY ExactWhenCaughtUp DEF StateExact
<1>. QED
  BY RowsInvHolds, <1>1, PTL
=============================================================================

------------------------ MODULE TableExchangeProofs ------------------------
(***************************************************************************)
(* Proofs about TableExchange, for any number of pairs, any rebuild order  *)
(* and any bounds: Inv is inductive, the generation in service is whole,   *)
(* and no pair moves back while a checkpoint stands.                       *)
(***************************************************************************)
EXTENDS TableExchange, TLAPS

(* There is at least one pair. *)
LEMMA PairCount == N \in Nat \ {0}
  BY ExchangeAssumption

(* A name that keeps its UUID or gets the next one still differs from the    *)
(* other name of its pair, and no UUID reaches the next one to be given.     *)
LEMMA FreshId ==
    ASSUME NEW kept \in Nat, NEW old \in Nat, NEW next \in Nat, NEW new,
           kept # old, kept < next, old < next, new = old \/ new = next
    PROVE  new # kept /\ new < next + 1 /\ kept < next + 1
  OBVIOUS

(* The identities a step reads are identities, one for each name. *)
LEMMA FoundType ==
    ASSUME TypeOK
    PROVE  /\ Found \in Identities
           /\ Found # None
           /\ \A i \in Pairs : /\ Found.active[i] = pair[i].active.id
                               /\ Found.bak[i] = pair[i].bak.id
  BY NoneAssumption DEF TypeOK, Found, Identities, Tables

(* A checkpoint of type Option that is not None is a pair of identity maps. *)
LEMMA CkptType ==
    ASSUME TypeOK, journal.ckpt # None
    PROVE  journal.ckpt \in Identities
  BY DEF TypeOK

(* An element of a sequence over S is in S. *)
LEMMA SeqElement ==
    ASSUME NEW S, NEW s \in Seq(S), NEW k \in 1..Len(s)
    PROVE  s[k] \in S
  OBVIOUS

(* The initial state satisfies the invariant. *)
LEMMA InitInv == Init => Inv
  <1> SUFFICES ASSUME Init PROVE Inv
    OBVIOUS
  <1> USE PairCount, NoneAssumption
  <1>1. TypeOK
    BY DEF Init, TypeOK, Tables, Pairs
  <1>2. IdsDistinct
    BY DEF Init, IdsDistinct
  <1>3. StagingWhole /\ AttemptOK /\ GenerationWhole
    BY DEF Init, StagingWhole, AttemptOK, GenerationWhole
  <1>4. QED
    BY <1>1, <1>2, <1>3 DEF Inv

(* Starting and crashing touch neither the journal nor the tables. *)
LEMMA StartCrashInv == Inv /\ (Start \/ Crash \/ UNCHANGED vars) => Inv'
  <1> SUFFICES ASSUME Inv, Start \/ Crash \/ UNCHANGED vars PROVE Inv'
    OBVIOUS
  <1> USE PairCount
  <1>1. TypeOK'
    BY DEF Inv, Start, Crash, vars, TypeOK
  <1>2. IdsDistinct' /\ StagingWhole' /\ GenerationWhole'
    BY DEF Inv, Start, Crash, vars, IdsDistinct, StagingWhole, GenerationWhole
  <1>3. AttemptOK'
    BY DEF Inv, Start, Crash, vars, AttemptOK
  <1>4. QED
    BY <1>1, <1>2, <1>3 DEF Inv

(* --bootstrap forgets what the journal claims. *)
LEMMA BootstrapInv == Inv /\ Bootstrap => Inv'
  <1> SUFFICES ASSUME Inv, Bootstrap PROVE Inv'
    OBVIOUS
  <1> USE PairCount, NoneAssumption
  <1>1. TypeOK'
    BY DEF Inv, Bootstrap, TypeOK
  <1>2. IdsDistinct' /\ StagingWhole' /\ GenerationWhole' /\ AttemptOK'
    BY DEF Inv, Bootstrap, IdsDistinct, StagingWhole, GenerationWhole, AttemptOK
  <1>3. QED
    BY <1>1, <1>2 DEF Inv

(* A new generation is built under the _bak names only. *)
LEMMA BuildStagingInv == Inv /\ BuildStaging => Inv'
  <1> SUFFICES ASSUME Inv, BuildStaging PROVE Inv'
    OBVIOUS
  <1> USE PairCount, NoneAssumption
  <1>1. journal.ckpt = None /\ journal'.ckpt = None /\ journal'.gen = journal.gen
    BY DEF Inv, BuildStaging, StagingWhole, TypeOK
  <1>2. ASSUME NEW i \in Pairs
        PROVE  /\ pair'[i] \in [active : Tables, bak : Tables]
               /\ pair'[i].active = pair[i].active
               /\ pair'[i].bak.gens = {last'}
               /\ pair'[i].bak.id \in {pair[i].bak.id, nextId}
    <2>1. pair'[i] = [pair[i] EXCEPT !.bak = [id |-> IF i \in RebuiltTables THEN nextId ELSE @.id,
                                              gens |-> {last + 1}]]
      BY <1>2 DEF BuildStaging
    <2>2. pair[i] \in [active : Tables, bak : Tables] /\ last \in Nat /\ nextId \in Nat
      BY <1>2 DEF Inv, TypeOK
    <2>3. last' = last + 1 /\ last + 1 \in Nat
      BY <2>2 DEF BuildStaging
    <2>4. QED
      BY <2>1, <2>2, <2>3 DEF Tables
  <1>3. TypeOK'
    <2>1. pair' = [i \in Pairs |-> pair'[i]]
      BY DEF BuildStaging
    <2>2. pair' \in [Pairs -> [active : Tables, bak : Tables]]
      BY <1>2, <2>1
    <2>3. /\ last' \in Nat /\ nextId' \in Nat /\ UNCHANGED <<pc, now, at>>
          /\ journal' \in [phase : {"serving", "pending"}, gen : Nat \cup {None},
                           ckpt : Identities \cup {None}]
      BY DEF Inv, BuildStaging, TypeOK
    <2>4. QED
      BY <2>2, <2>3 DEF Inv, TypeOK
  <1>4. IdsDistinct'
    <2>1. nextId' = nextId + 1 /\ nextId \in Nat
      BY DEF Inv, TypeOK, BuildStaging
    <2>2. ASSUME NEW i \in Pairs
          PROVE  /\ pair'[i].active.id # pair'[i].bak.id
                 /\ pair'[i].active.id < nextId' /\ pair'[i].bak.id < nextId'
      <3>1. pair[i].active.id \in Nat /\ pair[i].bak.id \in Nat
        BY <2>2 DEF Inv, TypeOK, Tables
      <3>2. /\ pair[i].active.id # pair[i].bak.id
            /\ pair[i].active.id < nextId /\ pair[i].bak.id < nextId
        BY <2>2 DEF Inv, IdsDistinct
      <3>3. /\ pair'[i].active.id = pair[i].active.id
            /\ pair'[i].bak.id = pair[i].bak.id \/ pair'[i].bak.id = nextId
        BY <1>2, <2>2
      <3>4. /\ pair'[i].bak.id # pair[i].active.id
            /\ pair'[i].bak.id < nextId + 1 /\ pair[i].active.id < nextId + 1
        BY <2>1, <3>1, <3>2, <3>3, FreshId
      <3>5. QED
        BY <2>1, <3>3, <3>4, Zenon
    <2>3. QED
      BY <1>1, <2>2 DEF IdsDistinct
  <1>5. StagingWhole' /\ GenerationWhole' /\ AttemptOK'
    BY <1>1, <1>2 DEF Inv, BuildStaging, StagingWhole, GenerationWhole, AttemptOK
  <1>6. QED
    BY <1>3, <1>4, <1>5 DEF Inv

(* A repair gives new UUIDs, which no checkpoint names, and rebuilds from    *)
(* tables of one generation when active is whole.                            *)
LEMMA RepairInv == Inv /\ Repair => Inv'
  <1> SUFFICES ASSUME Inv, Repair PROVE Inv'
    OBVIOUS
  <1> USE PairCount, NoneAssumption
  <1>0. PICK n \in 1..Len(Rebuild) :
           pair' = [i \in Pairs |->
                     IF \E k \in 1..n : Rebuild[k].table = i
                     THEN [pair[i] EXCEPT !.active =
                             RebuiltFrom(pair, CHOOSE k \in 1..n : Rebuild[k].table = i)]
                     ELSE pair[i]]
    BY DEF Repair
  <1>1. ASSUME NEW i \in Pairs
        PROVE  \/ pair'[i] = pair[i]
               \/ \E k \in 1..n : pair'[i] = [pair[i] EXCEPT !.active = RebuiltFrom(pair, k)]
    <2>1. CASE \E k \in 1..n : Rebuild[k].table = i
      <3>1. (CHOOSE k \in 1..n : Rebuild[k].table = i) \in 1..n
        BY <2>1
      <3>2. QED
        BY <1>0, <1>1, <2>1, <3>1
    <2>2. CASE ~\E k \in 1..n : Rebuild[k].table = i
      BY <1>0, <1>1, <2>2
    <2>3. QED
      BY <2>1, <2>2
  <1>2. ASSUME NEW k \in 1..n
        PROVE  Rebuild[k].from \in SUBSET Pairs /\ Rebuild[k].from # {}
    <2>1. k \in 1..Len(Rebuild)
      BY <1>0, <1>2
    <2>2. Rebuild[k] \in [table : 1..N, from : (SUBSET (1..N)) \ {{}}]
      <3> DEFINE S == [table : 1..N, from : (SUBSET (1..N)) \ {{}}]
      <3>1. Rebuild \in Seq(S)
        BY ExchangeAssumption
      <3> HIDE DEF S
      <3>2. Rebuild[k] \in S
        BY <2>1, <3>1, SeqElement
      <3>3. QED
        BY <3>2 DEF S
    <2>3. QED
      BY <2>2 DEF Pairs
  <1>3. ASSUME NEW k \in 1..n
        PROVE  RebuiltFrom(pair, k) \in Tables /\ RebuiltFrom(pair, k).id = nextId
    <2>1. \A j \in Rebuild[k].from : pair[j].active.gens \in SUBSET Nat
      BY <1>2, <1>3 DEF Tables, Inv, TypeOK
    <2>2. UNION {pair[j].active.gens : j \in Rebuild[k].from} \in SUBSET Nat
      BY <2>1
    <2>3. QED
      BY <2>2 DEF RebuiltFrom, Tables, Inv, TypeOK
  <1>4. ASSUME NEW i \in Pairs
        PROVE  /\ pair'[i] \in [active : Tables, bak : Tables]
               /\ pair'[i].bak = pair[i].bak
               /\ \/ pair'[i].active = pair[i].active
                  \/ pair'[i].active.id = nextId
    <2>1. pair[i] \in [active : Tables, bak : Tables]
      BY <1>4 DEF Inv, TypeOK
    <2>2. CASE pair'[i] = pair[i]
      BY <2>1, <2>2
    <2>3. ASSUME NEW k \in 1..n, pair'[i] = [pair[i] EXCEPT !.active = RebuiltFrom(pair, k)]
          PROVE  /\ pair'[i] \in [active : Tables, bak : Tables]
                 /\ pair'[i].bak = pair[i].bak /\ pair'[i].active.id = nextId
      BY <1>3, <2>1, <2>3
    <2>4. QED
      BY <1>1, <1>4, <2>2, <2>3
  <1>5. TypeOK'
    <2>1. pair' = [i \in Pairs |-> pair'[i]]
      BY <1>0
    <2>2. pair' \in [Pairs -> [active : Tables, bak : Tables]]
      BY <1>4, <2>1
    <2>3. nextId' \in Nat /\ UNCHANGED <<pc, journal, last, now, at>>
      BY DEF Inv, Repair, TypeOK
    <2>4. QED
      BY <2>2, <2>3 DEF Inv, TypeOK
  <1>6. IdsDistinct'
    <2>1. nextId' = nextId + 1 /\ journal' = journal /\ nextId \in Nat
      BY DEF Inv, TypeOK, Repair
    <2>2. ASSUME NEW i \in Pairs
          PROVE  /\ pair[i].active.id \in Nat /\ pair[i].bak.id \in Nat
                 /\ journal.ckpt # None => journal.ckpt.active[i] \in Nat /\ journal.ckpt.bak[i] \in Nat
      BY CkptType DEF Inv, TypeOK, Tables, Identities
    <2>3. ASSUME NEW i \in Pairs
          PROVE  /\ pair'[i].active.id # pair'[i].bak.id
                 /\ pair'[i].active.id < nextId' /\ pair'[i].bak.id < nextId'
      <3>1. /\ pair[i].active.id # pair[i].bak.id
            /\ pair[i].active.id < nextId /\ pair[i].bak.id < nextId
        BY <2>3 DEF Inv, IdsDistinct
      <3>2. /\ pair'[i].bak.id = pair[i].bak.id
            /\ pair'[i].active.id = pair[i].active.id \/ pair'[i].active.id = nextId
        BY <1>4, <2>3
      <3>3. pair[i].active.id \in Nat /\ pair[i].bak.id \in Nat
        BY <2>2, <2>3
      <3>4. /\ pair'[i].active.id # pair[i].bak.id
            /\ pair'[i].active.id < nextId + 1 /\ pair[i].bak.id < nextId + 1
        BY <2>1, <3>1, <3>2, <3>3, FreshId
      <3>5. QED
        BY <2>1, <3>2, <3>4, Zenon
    <2>4. ASSUME NEW i \in Pairs, journal.ckpt # None
          PROVE  /\ journal.ckpt.active[i] # journal.ckpt.bak[i]
                 /\ journal.ckpt.active[i] < nextId' /\ journal.ckpt.bak[i] < nextId'
      BY <2>1, <2>2, <2>4 DEF Inv, IdsDistinct
    <2>5. QED
      BY <2>1, <2>3, <2>4 DEF IdsDistinct
  <1>7. StagingWhole' /\ AttemptOK'
    <2>1. journal' = journal /\ last' = last /\ pc' = "down"
      BY DEF Repair
    <2>2. ASSUME NEW i \in Pairs, journal.ckpt # None
          PROVE  journal.ckpt.bak[i] # nextId
      BY <2>2, CkptType DEF Inv, IdsDistinct, TypeOK, Identities
    <2>3. QED
      BY <1>4, <2>1, <2>2 DEF Inv, StagingWhole, AttemptOK
  <1>8. GenerationWhole'
    <2> SUFFICES ASSUME journal.ckpt = None, journal.gen # None, NEW i \in Pairs
                 PROVE  pair'[i].active.gens = {journal.gen}
      BY DEF Repair, GenerationWhole
    <2>1. \A j \in Pairs : pair[j].active.gens = {journal.gen}
      BY DEF Inv, GenerationWhole
    <2>2. ASSUME NEW k \in 1..n
          PROVE  UNION {pair[j].active.gens : j \in Rebuild[k].from} = {journal.gen}
      BY <2>1, <2>2, <1>2
    <2>3. ASSUME NEW k \in 1..n
          PROVE  RebuiltFrom(pair, k).gens = {journal.gen}
      BY <2>2, <2>3 DEF RebuiltFrom
    <2>4. pair[i] \in [active : Tables, bak : Tables]
      BY DEF Inv, TypeOK
    <2>5. CASE pair'[i] = pair[i]
      BY <2>1, <2>5
    <2>6. ASSUME NEW k \in 1..n, pair'[i] = [pair[i] EXCEPT !.active = RebuiltFrom(pair, k)]
          PROVE  pair'[i].active.gens = {journal.gen}
      <3>1. pair'[i].active = RebuiltFrom(pair, k)
        BY <2>4, <2>6
      <3>2. QED
        BY <2>3, <3>1
    <2>7. QED
      BY <1>1, <2>5, <2>6
  <1>9. QED
    BY <1>5, <1>6, <1>7, <1>8 DEF Inv

(* The checkpoint names the tables of the new generation as staging's. *)
LEMMA BeginCutoverInv == Inv /\ BeginCutover => Inv'
  <1> SUFFICES ASSUME Inv, BeginCutover PROVE Inv'
    OBVIOUS
  <1> USE PairCount, NoneAssumption
  <1>1. /\ journal'.ckpt = Found /\ journal'.phase = "pending" /\ journal'.gen = journal.gen
        /\ UNCHANGED <<pc, pair, nextId, last, now, at>>
    BY DEF Inv, TypeOK, BeginCutover
  <1>2. /\ Found \in Identities /\ Found # None
        /\ \A i \in Pairs : Found.active[i] = pair[i].active.id /\ Found.bak[i] = pair[i].bak.id
    BY FoundType DEF Inv
  <1>3. TypeOK'
    BY <1>2 DEF Inv, BeginCutover, TypeOK
  <1>4. IdsDistinct'
    BY <1>1, <1>2 DEF Inv, IdsDistinct
  <1>5. StagingWhole'
    BY <1>1, <1>2 DEF Inv, BeginCutover, StagingWhole, IdsDistinct
  <1>6. AttemptOK' /\ GenerationWhole'
    BY <1>1, <1>2 DEF Inv, BeginCutover, AttemptOK, GenerationWhole
  <1>7. QED
    BY <1>3, <1>4, <1>5, <1>6 DEF Inv

(* An attempt starts with what it finds. *)
LEMMA BeginAttemptInv == Inv /\ BeginAttempt => Inv'
  <1> SUFFICES ASSUME Inv, BeginAttempt PROVE Inv'
    OBVIOUS
  <1> USE PairCount
  <1>1. /\ Found \in Identities /\ Found # None
        /\ \A i \in Pairs : Found.active[i] = pair[i].active.id /\ Found.bak[i] = pair[i].bak.id
    BY FoundType DEF Inv
  <1>2. TypeOK'
    BY <1>1 DEF Inv, BeginAttempt, TypeOK
  <1>3. IdsDistinct' /\ StagingWhole' /\ GenerationWhole'
    BY DEF Inv, BeginAttempt, IdsDistinct, StagingWhole, GenerationWhole
  <1>4. AttemptOK'
    BY <1>1 DEF Inv, BeginAttempt, AttemptOK, Pairs
  <1>5. QED
    BY <1>2, <1>3, <1>4 DEF Inv

(* What each verdict says about the pair it is given for. *)
LEMMA VerdictMeaning ==
    ASSUME NEW i
    PROVE  /\ Verdict(i) = "skip" => MovedIn(now, i)
           /\ Verdict(i) = "exchange" => UntouchedIn(now, i)
  BY DEF Verdict

(* A skipped pair has moved already. *)
LEMMA SkipPairInv ==
    ASSUME Inv, NEW i \in Pairs, SkipPair(i)
    PROVE  Inv'
  <1> USE PairCount
  <1>1. at = i /\ at' = i + 1 /\ pc = "attempt" /\ i \in 1..N
    BY DEF SkipPair, AtPair, Pairs
  <1>2. TypeOK'
    BY <1>1 DEF Inv, SkipPair, TypeOK
  <1>3. IdsDistinct' /\ StagingWhole' /\ GenerationWhole'
    BY DEF Inv, SkipPair, IdsDistinct, StagingWhole, GenerationWhole
  <1>4. pair[i].active.id = journal.ckpt.bak[i]
    BY <1>1, VerdictMeaning DEF Inv, SkipPair, MovedIn, AttemptOK
  <1>5. AttemptOK'
    BY <1>1, <1>4 DEF Inv, SkipPair, AttemptOK, Pairs
  <1>6. QED
    BY <1>2, <1>3, <1>5 DEF Inv

(* An exchanged pair was as checkpointed, and is now the other way round. *)
LEMMA ExchangePairInv ==
    ASSUME Inv, NEW i \in Pairs, ExchangePair(i)
    PROVE  Inv'
  <1> USE PairCount
  <1>1. at = i /\ at' = i + 1 /\ pc = "attempt" /\ i \in 1..N
    BY DEF ExchangePair, AtPair, Pairs
  <1>2. /\ \A j \in Pairs : pair'[j] = IF j = i THEN Swapped(pair[i]) ELSE pair[j]
        /\ UNCHANGED <<pc, journal, nextId, last, now>>
    BY DEF ExchangePair, Inv, TypeOK
  <1>3. /\ pair[i].active.id = journal.ckpt.active[i] /\ pair[i].bak.id = journal.ckpt.bak[i]
        /\ journal.ckpt # None
    BY <1>1, VerdictMeaning DEF Inv, ExchangePair, UntouchedIn, AttemptOK
  <1>4. Swapped(pair[i]).active = pair[i].bak /\ Swapped(pair[i]).bak = pair[i].active
    BY DEF Swapped
  <1>5. TypeOK'
    BY <1>1 DEF Inv, ExchangePair, TypeOK, Swapped
  <1>6. IdsDistinct'
    BY <1>2, <1>4 DEF Inv, IdsDistinct
  <1>7. StagingWhole' /\ GenerationWhole'
    BY <1>2, <1>3, <1>4 DEF Inv, StagingWhole, GenerationWhole
  <1>8. AttemptOK'
    BY <1>1, <1>2, <1>3, <1>4 DEF Inv, AttemptOK, Pairs
  <1>9. QED
    BY <1>5, <1>6, <1>7, <1>8 DEF Inv

(* A refusal is an exit. *)
LEMMA RefusePairInv ==
    ASSUME Inv, NEW i \in Pairs, RefusePair(i)
    PROVE  Inv'
  <1>1. Crash
    BY DEF RefusePair, AtPair, Crash
  <1>2. QED
    BY <1>1, StartCrashInv

(* The promotion finds every pair moved, so active is the new generation. *)
LEMMA FinishCutoverInv == Inv /\ FinishCutover => Inv'
  <1> SUFFICES ASSUME Inv, FinishCutover PROVE Inv'
    OBVIOUS
  <1> USE PairCount, NoneAssumption
  <1>1. at = N + 1 /\ pc = "attempt" /\ UNCHANGED <<pair, nextId, last>>
    BY DEF FinishCutover, AtPair
  <1>2. ASSUME NEW i \in Pairs
        PROVE  pair[i].active.gens = {last}
    <2>1. i < at
      BY <1>1 DEF Pairs
    <2>2. QED
      BY <1>1, <2>1 DEF Inv, AttemptOK, StagingWhole
  <1>3. TypeOK'
    BY DEF Inv, FinishCutover, TypeOK
  <1>4. GenerationWhole'
    BY <1>1, <1>2 DEF FinishCutover, GenerationWhole
  <1>5. IdsDistinct' /\ StagingWhole' /\ AttemptOK'
    BY <1>1 DEF Inv, FinishCutover, IdsDistinct, StagingWhole, AttemptOK
  <1>6. QED
    BY <1>3, <1>4, <1>5 DEF Inv

(* Every step keeps the invariant. *)
LEMMA StepInv == Inv /\ [Next]_vars => Inv'
  <1> SUFFICES ASSUME Inv, [Next]_vars PROVE Inv'
    OBVIOUS
  <1>1. CASE Start \/ Crash \/ UNCHANGED vars
    BY <1>1, StartCrashInv
  <1>2. CASE Bootstrap \/ BuildStaging \/ Repair
    BY <1>2, BootstrapInv, BuildStagingInv, RepairInv
  <1>3. CASE BeginCutover \/ BeginAttempt \/ FinishCutover
    BY <1>3, BeginCutoverInv, BeginAttemptInv, FinishCutoverInv
  <1>4. CASE \E i \in Pairs : SkipPair(i) \/ ExchangePair(i) \/ RefusePair(i)
    BY <1>4, SkipPairInv, ExchangePairInv, RefusePairInv
  <1>5. QED
    BY <1>1, <1>2, <1>3, <1>4 DEF Next

(* The invariant of the pair-by-pair cutover holds for any number of pairs,  *)
(* over crashes, repairs and --bootstrap between any two statements.         *)
THEOREM ExchangeInvHolds == Spec => []Inv
  BY InitInv, StepInv, PTL DEF Spec

(* Once a cutover is promoted the active names serve one whole generation.   *)
THEOREM ActiveIsWhole == Spec => []GenerationWhole
  <1>1. Inv => GenerationWhole
    BY DEF Inv
  <1>2. QED
    BY <1>1, ExchangeInvHolds, PTL

(* exchange_table_groups never moves a pair back that has moved under the    *)
(* checkpoint in force.                                                      *)
THEOREM NeverMovedBack == Spec => PairsNeverMoveBack
  <1> DEFINE Kept == journal.ckpt # None /\ journal'.ckpt = journal.ckpt
                        /\ ~(pc = "down" /\ nextId' # nextId)
                     => \A i \in Pairs : MovedIn(Found, i) => Found'.active[i] = Found.active[i]
  <1>1. Inv /\ [Next]_vars => [Kept]_vars
    <2> SUFFICES ASSUME Inv, Next, journal.ckpt # None, journal'.ckpt = journal.ckpt,
                        ~(pc = "down" /\ nextId' # nextId),
                        NEW i \in Pairs, MovedIn(Found, i)
                 PROVE  Found'.active[i] = Found.active[i]
      OBVIOUS
    <2> USE PairCount
    <2>1. journal.phase = "pending" /\ ~BuildStaging
      BY DEF Inv, StagingWhole, BuildStaging
    <2>2. ~Repair
      BY DEF Repair, Inv, TypeOK
    <2>3. CASE UNCHANGED pair
      BY <2>3 DEF Found
    <2>4. ASSUME NEW j \in Pairs, ExchangePair(j)
          PROVE  Found'.active[i] = Found.active[i]
      <3>1. Found.active[i] = pair[i].active.id
        BY FoundType DEF Inv
      <3>2. j # i
        <4> SUFFICES ASSUME j = i PROVE FALSE
          OBVIOUS
        <4>1. pair[i].active.id = journal.ckpt.active[i]
          BY <2>4, VerdictMeaning DEF ExchangePair, AtPair, UntouchedIn, Inv, AttemptOK, TypeOK
        <4>2. pair[i].active.id = journal.ckpt.bak[i]
          BY <3>1 DEF MovedIn
        <4>3. QED
          BY <4>1, <4>2 DEF Inv, IdsDistinct
      <3>3. pair'[i] = pair[i]
        BY <2>4, <3>2 DEF ExchangePair, Inv, TypeOK
      <3>4. QED
        BY <3>3 DEF Found
    <2>5. CASE \E j \in Pairs : SkipPair(j) \/ RefusePair(j)
      BY <2>3, <2>5 DEF SkipPair, RefusePair
    <2>6. CASE Start \/ Crash \/ Bootstrap \/ BeginCutover \/ BeginAttempt \/ FinishCutover
      BY <2>3, <2>6 DEF Start, Crash, Bootstrap, BeginCutover, BeginAttempt, FinishCutover
    <2>7. QED
      BY <2>1, <2>2, <2>4, <2>5, <2>6 DEF Next
  <1>2. QED
    BY <1>1, ExchangeInvHolds, PTL DEF Spec, PairsNeverMoveBack
=============================================================================

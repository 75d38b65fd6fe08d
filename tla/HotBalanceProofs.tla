--------------------------- MODULE HotBalanceProofs ---------------------------
(***************************************************************************)
(* L3 serves the true balances, for every ledger, every finite set of      *)
(* addresses, every set of pairs and amounts, and any number of imports    *)
(* and failures.                                                           *)
(***************************************************************************)
EXTENDS HotStateProofs, FiniteSetTheorems

-----------------------------------------------------------------------------
(* Sums over finite sets. *)

(* Among subsets of a finite set one has no proper subset among them. *)
LEMMA Smallest ==
    ASSUME NEW S, IsFiniteSet(S), NEW D, D \subseteq SUBSET S, D # {}
    PROVE  \E d \in D : \A e \in D : e \subseteq d => e = d
<1>. DEFINE T == {Cardinality(d) : d \in D}
<1>1. \A d \in D : IsFiniteSet(d) /\ Cardinality(d) \in Nat
  BY FS_Subset, FS_CardinalityType
<1>2. PICK n \in T : \A m \in T : n <= m
  <2>1. T \subseteq Nat /\ T # {}
    BY <1>1
  <2>. HIDE DEF T
  <2>. QED
    BY <2>1, Least
<1>3. PICK d \in D : n = Cardinality(d)
  OBVIOUS
<1>4. ASSUME NEW e \in D, e \subseteq d
      PROVE  e = d
  <2>1. Cardinality(e) <= Cardinality(d) /\ (Cardinality(d) = Cardinality(e) => d = e)
    BY <1>1, <1>4, FS_Subset
  <2>2. Cardinality(d) <= Cardinality(e)
    BY <1>2, <1>3
  <2>. QED
    BY <1>1, <2>1, <2>2
<1>. QED
  BY <1>4

Pick(s) == CHOOSE x \in s : TRUE

(* f gives the sum of g over each subset of S, taken in MapThenSumSet's way. *)
Sums(g, S, f) ==
    f = [s \in SUBSET S |-> IF s = {} THEN 0 ELSE g[Pick(s)] + f[s \ {Pick(s)}]]

(* Two such functions agree where both are defined. *)
LEMMA SumsAgree ==
    ASSUME NEW S, IsFiniteSet(S), NEW T, NEW g, NEW f, NEW h, Sums(g, S, f), Sums(g, T, h),
           NEW s, s \subseteq S, s \subseteq T
    PROVE  f[s] = h[s]
<1>. DEFINE D == {d \in SUBSET s : f[d] # h[d]}
<1>1. SUFFICES ASSUME D # {}
               PROVE  FALSE
  OBVIOUS
<1>2. PICK d \in D : \A e \in D : e \subseteq d => e = d
  <2>1. D \subseteq SUBSET S
    OBVIOUS
  <2>. HIDE DEF D
  <2>. QED
    BY <1>1, <2>1, Smallest
<1>3. d \in SUBSET S /\ d \in SUBSET T /\ f[d] # h[d]
  OBVIOUS
<1>4. d # {}
  BY <1>3 DEF Sums
<1>5. Pick(d) \in d
  BY <1>4 DEF Pick
<1>6. f[d \ {Pick(d)}] = h[d \ {Pick(d)}]
  BY <1>2, <1>5
<1>7. f[d] = g[Pick(d)] + f[d \ {Pick(d)}] /\ h[d] = g[Pick(d)] + h[d \ {Pick(d)}]
  BY <1>3, <1>4 DEF Sums
<1>. QED
  BY <1>3, <1>6, <1>7

(* There is one. *)
LEMMA SumsExist ==
    ASSUME NEW S, IsFiniteSet(S), NEW g
    PROVE  \E f : Sums(g, S, f)
<1>. DEFINE D == {d \in SUBSET S : ~ \E f : Sums(g, d, f)}
<1>1. SUFFICES ASSUME D # {}
               PROVE  FALSE
  BY DEF Sums
<1>2. PICK d \in D : \A e \in D : e \subseteq d => e = d
  <2>1. D \subseteq SUBSET S
    OBVIOUS
  <2>. HIDE DEF D
  <2>. QED
    BY <1>1, <2>1, Smallest
<1>. DEFINE Of(e) == CHOOSE f : Sums(g, e, f)
            F == [e \in SUBSET d |->
                    IF e = {} THEN 0 ELSE g[Pick(e)] + Of(e \ {Pick(e)})[e \ {Pick(e)}]]
<1>3. ASSUME NEW e \in SUBSET d, e # d
      PROVE  Sums(g, e, Of(e))
  <2>1. \E f : Sums(g, e, f)
    BY <1>2, <1>3
  <2>. QED
    BY <2>1
<1>4. IsFiniteSet(d)
  BY FS_Subset
<1>5. ASSUME NEW e \in SUBSET d, e # d
      PROVE  F[e] = Of(e)[e]
  <2>1. Sums(g, e, Of(e)) /\ IsFiniteSet(e)
    BY <1>3, <1>4, <1>5, FS_Subset
  <2>2. CASE e = {}
    <3>. HIDE DEF Of
    <3>. QED
      BY <2>1, <2>2 DEF Sums
  <2>3. CASE e # {}
    <3>. DEFINE r == e \ {Pick(e)}
    <3>1. Pick(e) \in e
      BY <2>3 DEF Pick
    <3>2. r \in SUBSET d /\ r # d /\ r \subseteq e
      BY <3>1
    <3>3. Sums(g, r, Of(r))
      BY <1>3, <3>2
    <3>4. Of(e)[r] = Of(r)[r]
      <4>. HIDE DEF r, Of
      <4>. QED
        BY <2>1, <3>2, <3>3, SumsAgree
    <3>5. Of(e)[e] = g[Pick(e)] + Of(e)[r]
      <4>. HIDE DEF Of
      <4>. QED
        BY <2>1, <2>3 DEF Sums
    <3>. HIDE DEF Of
    <3>. QED
      BY <2>3, <3>4, <3>5
  <2>. QED
    BY <2>2, <2>3
<1>6. Sums(g, d, F)
  <2>1. ASSUME NEW e \in SUBSET d, e # {}
        PROVE  F[e] = g[Pick(e)] + F[e \ {Pick(e)}]
    <3>. DEFINE r == e \ {Pick(e)}
    <3>1. Pick(e) \in e
      BY <2>1 DEF Pick
    <3>2. r \in SUBSET d /\ r # d
      BY <3>1
    <3>3. F[r] = Of(r)[r]
      BY <1>5, <3>2
    <3>4. F[e] = g[Pick(e)] + Of(r)[r]
      <4>. HIDE DEF Of
      <4>. QED
        BY <2>1
    <3>. HIDE DEF F, Of
    <3>. QED
      BY <3>3, <3>4
  <2>2. F[{}] = 0
    <3>. HIDE DEF Of
    <3>. QED
      OBVIOUS
  <2>3. F = [e \in SUBSET d |-> F[e]]
    <3>. HIDE DEF Of
    <3>. QED
      OBVIOUS
  <2>. HIDE DEF F
  <2>4. \A e \in SUBSET d : F[e] = IF e = {} THEN 0 ELSE g[Pick(e)] + F[e \ {Pick(e)}]
    BY <2>1, <2>2
  <2>. QED
    BY <2>3, <2>4 DEF Sums
<1>. QED
  BY <1>2, <1>6

(* Sums of naturals are naturals, ... *)
LEMMA SumsNat ==
    ASSUME NEW S, IsFiniteSet(S), NEW g, NEW f, Sums(g, S, f), \A x \in S : g[x] \in Nat,
           NEW s \in SUBSET S
    PROVE  f[s] \in Nat
<1>. DEFINE D == {d \in SUBSET S : f[d] \notin Nat}
<1>1. SUFFICES ASSUME D # {}
               PROVE  FALSE
  OBVIOUS
<1>2. PICK d \in D : \A e \in D : e \subseteq d => e = d
  <2>1. D \subseteq SUBSET S
    OBVIOUS
  <2>. HIDE DEF D
  <2>. QED
    BY <1>1, <2>1, Smallest
<1>3. d \in SUBSET S /\ f[d] \notin Nat
  OBVIOUS
<1>4. d # {}
  BY <1>3 DEF Sums
<1>5. Pick(d) \in d
  BY <1>4 DEF Pick
<1>6. f[d \ {Pick(d)}] \in Nat
  BY <1>2, <1>5
<1>7. f[d] = g[Pick(d)] + f[d \ {Pick(d)}]
  BY <1>3, <1>4 DEF Sums
<1>8. g[Pick(d)] \in Nat
  BY <1>3, <1>5
<1>. QED
  BY <1>3, <1>6, <1>7, <1>8

(* ... whichever element is taken first. *)
LEMMA SumsAny ==
    ASSUME NEW S, IsFiniteSet(S), NEW g, NEW f, Sums(g, S, f), \A x \in S : g[x] \in Nat,
           NEW s \in SUBSET S, NEW x \in s
    PROVE  f[s] = g[x] + f[s \ {x}]
<1>. DEFINE D == {d \in SUBSET S : \E y \in d : f[d] # g[y] + f[d \ {y}]}
<1>1. SUFFICES ASSUME D # {}
               PROVE  FALSE
  OBVIOUS
<1>2. PICK d \in D : \A e \in D : e \subseteq d => e = d
  <2>1. D \subseteq SUBSET S
    OBVIOUS
  <2>. HIDE DEF D
  <2>. QED
    BY <1>1, <2>1, Smallest
<1>3. PICK y \in d : d \in SUBSET S /\ f[d] # g[y] + f[d \ {y}]
  OBVIOUS
<1>. DEFINE z == Pick(d)
<1>4. z \in d
  BY <1>3 DEF Pick
<1>5. f[d] = g[z] + f[d \ {z}]
  BY <1>3 DEF Sums
<1>6. y # z
  BY <1>3, <1>5
<1>7. f[d \ {z}] = g[y] + f[(d \ {z}) \ {y}]
  <2>1. d \ {z} \in SUBSET S /\ d \ {z} # d /\ d \ {z} \subseteq d /\ y \in d \ {z}
    BY <1>3, <1>4, <1>6
  <2>. HIDE DEF z
  <2>. QED
    BY <1>2, <2>1
<1>8. f[d \ {y}] = g[z] + f[(d \ {y}) \ {z}]
  <2>1. d \ {y} \in SUBSET S /\ d \ {y} # d /\ d \ {y} \subseteq d /\ z \in d \ {y}
    BY <1>3, <1>4, <1>6
  <2>. HIDE DEF z
  <2>. QED
    BY <1>2, <2>1
<1>9. (d \ {z}) \ {y} = (d \ {y}) \ {z} /\ (d \ {z}) \ {y} \in SUBSET S
  BY <1>3
<1>10. f[(d \ {z}) \ {y}] \in Nat /\ g[y] \in Nat /\ g[z] \in Nat
  <2>. HIDE DEF z
  <2>. QED
    BY <1>3, <1>4, <1>9, SumsNat
<1>. HIDE DEF z
<1>11. f[d] = g[z] + (g[y] + f[(d \ {z}) \ {y}])
  BY <1>5, <1>7
<1>12. f[d \ {y}] = g[z] + f[(d \ {z}) \ {y}]
  BY <1>8, <1>9
<1>. QED
  BY <1>3, <1>10, <1>11, <1>12

-----------------------------------------------------------------------------
(* The amounts of rows, by address. *)

(* Rows of as many addresses are finitely many. *)
LEMMA FewRows ==
    ASSUME NEW rs, \A r \in rs : r.acc \in Accounts,
           \A r, q \in rs : r.acc = q.acc => r = q
    PROVE  IsFiniteSet(rs)
<1>. DEFINE f == [r \in rs |-> r.acc]
<1>1. f \in Injection(rs, Accounts)
  BY DEF Injection, IsInjective
<1>. HIDE DEF f
<1>. QED
  BY <1>1, FS_Injection, HotAssumption

(* AmountSum is such a sum. *)
LEMMA AmountSums ==
    ASSUME NEW rs, IsFiniteSet(rs)
    PROVE  \E f : Sums([r \in rs |-> r.amount], rs, f) /\ AmountSum(rs) = f[rs]
<1>. DEFINE g == [r \in rs |-> r.amount]
            Eq(f) == f = [s \in SUBSET rs |->
                            IF s = {} THEN 0
                            ELSE LET x == CHOOSE x \in s : TRUE
                                 IN  x.amount + f[s \ {x}]]
            F == CHOOSE f : Eq(f)
<1>1. ASSUME NEW f
      PROVE  Eq(f) <=> Sums(g, rs, f)
  <2>1. ASSUME NEW s \in SUBSET rs
        PROVE  (IF s = {} THEN 0
                ELSE LET x == CHOOSE x \in s : TRUE IN x.amount + f[s \ {x}])
                 = IF s = {} THEN 0 ELSE g[Pick(s)] + f[s \ {Pick(s)}]
    <3>1. CASE s # {}
      <4>1. Pick(s) \in rs
        BY <3>1 DEF Pick
      <4>2. g[Pick(s)] = Pick(s).amount
        BY <4>1
      <4>. QED
        BY <3>1, <4>2 DEF Pick
    <3>. QED
      BY <3>1
  <2>. QED
    BY <2>1 DEF Sums
<1>2. \E f : Eq(f)
  <2>. HIDE DEF Eq, g
  <2>. QED
    BY <1>1, SumsExist
<1>3. Eq(F)
  <2>. HIDE DEF Eq
  <2>. QED
    BY <1>2
<1>4. Sums(g, rs, F)
  <2>. HIDE DEF Eq, F, g
  <2>. QED
    BY <1>1, <1>3
<1>5. AmountSum(rs) = F[rs]
  BY DEF AmountSum, MapThenSumSet, MapThenFoldSet
<1>. QED
  BY <1>4, <1>5

(* So is the sum of what the addresses hold of a pair. *)
LEMMA HoldingSums ==
    ASSUME NEW p \in HotPairs
    PROVE  \E f : /\ Sums([a \in Accounts |-> HoldsOf(a, p)], Accounts, f)
                  /\ MapThenSumSet(LAMBDA a : HoldsOf(a, p), Accounts) = f[Accounts]
<1>. DEFINE g == [a \in Accounts |-> HoldsOf(a, p)]
            Eq(f) == f = [s \in SUBSET Accounts |->
                            IF s = {} THEN 0
                            ELSE LET x == CHOOSE x \in s : TRUE
                                 IN  HoldsOf(x, p) + f[s \ {x}]]
            F == CHOOSE f : Eq(f)
<1>1. ASSUME NEW f
      PROVE  Eq(f) <=> Sums(g, Accounts, f)
  <2>1. ASSUME NEW s \in SUBSET Accounts
        PROVE  (IF s = {} THEN 0
                ELSE LET x == CHOOSE x \in s : TRUE IN HoldsOf(x, p) + f[s \ {x}])
                 = IF s = {} THEN 0 ELSE g[Pick(s)] + f[s \ {Pick(s)}]
    <3>1. CASE s # {}
      <4>1. Pick(s) \in Accounts
        BY <3>1 DEF Pick
      <4>2. g[Pick(s)] = HoldsOf(Pick(s), p)
        BY <4>1
      <4>. QED
        BY <3>1, <4>2 DEF Pick
    <3>. QED
      BY <3>1
  <2>. QED
    BY <2>1 DEF Sums
<1>2. \E f : Eq(f)
  <2>. HIDE DEF Eq, g
  <2>. QED
    BY <1>1, SumsExist, HotAssumption
<1>3. Eq(F)
  <2>. HIDE DEF Eq
  <2>. QED
    BY <1>2
<1>4. Sums(g, Accounts, F)
  <2>. HIDE DEF Eq, F, g
  <2>. QED
    BY <1>1, <1>3
<1>5. MapThenSumSet(LAMBDA a : HoldsOf(a, p), Accounts) = F[Accounts]
  BY DEF MapThenSumSet, MapThenFoldSet
<1>. QED
  BY <1>4, <1>5

(* Amounts add up to a natural. *)
LEMMA AmountNat ==
    ASSUME NEW rs, IsFiniteSet(rs), \A r \in rs : r.amount \in Nat
    PROVE  AmountSum(rs) \in Nat
<1>. DEFINE g == [r \in rs |-> r.amount]
<1>1. PICK f : Sums(g, rs, f) /\ AmountSum(rs) = f[rs]
  BY AmountSums
<1>2. \A x \in rs : g[x] \in Nat
  OBVIOUS
<1>3. rs \in SUBSET rs
  OBVIOUS
<1>. HIDE DEF g
<1>. QED
  BY <1>1, <1>2, <1>3, SumsNat

(* With one row for each address that has any, it is the sum over all       *)
(* addresses.                                                               *)
LEMMA SumByAddress ==
    ASSUME NEW rs, \A r \in rs : r.acc \in Accounts /\ r.amount \in Nat,
           \A r, q \in rs : r.acc = q.acc => r = q,
           NEW g, \A r \in rs : g[r.acc] = r.amount,
           \A a \in Accounts : (\A r \in rs : r.acc # a) => g[a] = 0,
           NEW h, Sums(g, Accounts, h)
    PROVE  AmountSum(rs) = h[Accounts]
<1>. DEFINE amt == [r \in rs |-> r.amount]
            Of(b) == {r \in rs : r.acc \in b}
<1>1. IsFiniteSet(rs)
  BY FewRows
<1>2. PICK f : Sums(amt, rs, f) /\ AmountSum(rs) = f[rs]
  BY <1>1, AmountSums
<1>3. \A x \in rs : amt[x] \in Nat /\ amt[x] = x.amount
  OBVIOUS
<1>. DEFINE D == {b \in SUBSET Accounts : f[Of(b)] # h[b]}
<1>4. Of(Accounts) = rs
  OBVIOUS
<1>5. SUFFICES ASSUME D # {}
               PROVE  FALSE
  BY <1>2, <1>4
<1>6. PICK b \in D : \A e \in D : e \subseteq b => e = b
  <2>1. D \subseteq SUBSET Accounts
    OBVIOUS
  <2>. HIDE DEF D
  <2>. QED
    BY <1>5, <2>1, Smallest, HotAssumption
<1>7. b \in SUBSET Accounts /\ f[Of(b)] # h[b]
  OBVIOUS
<1>8. b # {}
  <2>1. ASSUME b = {}
        PROVE  FALSE
    <3>1. Of(b) = {}
      BY <2>1
    <3>2. f[{}] = 0 /\ h[{}] = 0
      <4>. HIDE DEF amt
      <4>. QED
        BY <1>2 DEF Sums
    <3>. HIDE DEF Of
    <3>. QED
      BY <1>7, <2>1, <3>1, <3>2
  <2>. QED
    BY <2>1
<1>. DEFINE a == Pick(b)
            c == b \ {a}
<1>9. a \in b /\ a \in Accounts /\ c \in SUBSET Accounts
  BY <1>7, <1>8 DEF Pick
<1>10. f[Of(c)] = h[c]
  <2>1. c \in SUBSET Accounts /\ c \subseteq b /\ c # b
    BY <1>9
  <2>. HIDE DEF a, c, Of
  <2>2. c \notin D
    <3>. HIDE DEF D
    <3>. QED
      BY <1>6, <2>1
  <2>. QED
    BY <2>1, <2>2
<1>11. h[b] = g[a] + h[c]
  BY <1>7, <1>8 DEF Sums
<1>12. CASE \A r \in rs : r.acc # a
  <2>1. Of(b) = Of(c)
    BY <1>12
  <2>2. g[a] = 0
    BY <1>9, <1>12
  <2>3. f[Of(c)] \in Nat
    <3>1. Of(c) \in SUBSET rs
      OBVIOUS
    <3>. HIDE DEF Of, amt, c
    <3>. QED
      BY <1>1, <1>2, <1>3, <3>1, SumsNat
  <2>. HIDE DEF Of, a, c, D
  <2>. QED
    BY <1>7, <1>10, <1>11, <2>1, <2>2, <2>3
<1>13. CASE \E r \in rs : r.acc = a
  <2>1. PICK r \in rs : r.acc = a
    BY <1>13
  <2>2. Of(b) \in SUBSET rs /\ r \in Of(b)
    BY <1>9, <2>1
  <2>3. Of(c) = Of(b) \ {r}
    BY <2>1
  <2>4. f[Of(b)] = amt[r] + f[Of(b) \ {r}]
    <3>. HIDE DEF Of, amt, a, c
    <3>. QED
      BY <1>1, <1>2, <1>3, <2>2, SumsAny
  <2>5. g[a] = amt[r]
    BY <1>3, <2>1
  <2>. HIDE DEF Of, a, c, amt, D
  <2>. QED
    BY <1>7, <1>10, <1>11, <2>3, <2>4, <2>5
<1>. QED
  BY <1>12, <1>13

-----------------------------------------------------------------------------
(* Tables of true rows of pairs that their addresses have held. *)

Honest(r) == r \in Rows /\ RowTrue(r) /\ r.slot <= seen /\ Had(r.acc, r.pair, r.slot)

(* The rows of L2 are such. *)
LEMMA RowsHonest ==
    ASSUME RowsInv, RowsTraced, NEW r \in l2
    PROVE  Honest(r)
  BY DEF RowsInv, RowTypes, RowsTrue, RowsTraced, Honest

(* What an address has held it has held later on too. *)
LEMMA HadLater ==
    ASSUME NEW a, NEW p, NEW u \in Nat, NEW v \in Nat, u <= v, Had(a, p, u)
    PROVE  Had(a, p, v)
<1>1. PICK s \in 1 .. u : IsHot(ledger[s][a]) /\ ledger[s][a].pair = p
  BY DEF Had
<1>2. s \in 1 .. v
  OBVIOUS
<1>. QED
  BY <1>1, <1>2 DEF Had

(* Rows of one address are all of one pair unless the pair is mixed. *)
LEMMA OnePair ==
    ASSUME RowTypes, NEW r, NEW q, Honest(r), Honest(q), r.acc = q.acc, ~Mixed(r.pair, seen)
    PROVE  q.pair = r.pair
<1>1. /\ r.slot \in Nat /\ q.slot \in Nat /\ seen \in Nat /\ r.slot <= seen /\ q.slot <= seen
      /\ r.pair \in HotPairs /\ q.pair \in HotPairs /\ r.acc \in Accounts
  BY HotAssumption DEF Honest, Rows, RowTypes, Slots
<1>2. Had(r.acc, r.pair, seen) /\ Had(r.acc, q.pair, seen)
  BY <1>1, HadLater DEF Honest
<1>. QED
  BY <1>1, <1>2 DEF Mixed

(* Of each address FINAL has one row. *)
LEMMA OneRow ==
    ASSUME NEW t, \A r \in t : r \in Rows /\ RowTrue(r), NEW r \in Final(t), NEW q \in Final(t),
           r.acc = q.acc
    PROVE  r = q
<1>1. /\ r \in t /\ q \in t /\ ~r.deleted /\ ~q.deleted
      /\ r \in NewestOf(t) /\ q \in NewestOf(t)
  BY DEF Final, NewestOf
<1>2. r \in Rows /\ q \in Rows /\ RowTrue(r) /\ RowTrue(q)
  BY <1>1
<1>3. r.slot \in Nat /\ q.slot \in Nat
  BY <1>2, HotAssumption DEF Rows, Slots
<1>4. r.slot <= q.slot /\ q.slot <= r.slot
  BY <1>1 DEF NewestOf
<1>5. r.slot = q.slot
  BY <1>3, <1>4
<1>6. [pair |-> r.pair, amount |-> r.amount] = [pair |-> q.pair, amount |-> q.amount]
  BY <1>1, <1>2, <1>5 DEF RowTrue
<1>7. r.pair = q.pair /\ r.amount = q.amount
  BY <1>6
<1>. QED
  BY <1>1, <1>2, <1>5, <1>7 DEF Rows

(* The amounts of the rows FINAL has of a pair add up to a natural. *)
LEMMA FinalNat ==
    ASSUME NEW t, \A r \in t : r \in Rows /\ RowTrue(r), NEW p
    PROVE  /\ AmountSum(PairRows(Final(t), p)) \in Nat
           /\ PairRows(Final(t), p) \subseteq t
<1>. DEFINE rs == PairRows(Final(t), p)
<1>1. ASSUME NEW r \in rs
      PROVE  r \in Final(t) /\ r \in t
  BY DEF PairRows, Final, NewestOf
<1>2. \A r \in rs : r.acc \in Accounts /\ r.amount \in Nat
  <2>1. \A n \in Amounts \cup {0} : n \in Nat
    BY HotAssumption
  <2>. QED
    BY <1>1, <2>1 DEF Rows
<1>3. \A r, q \in rs : r.acc = q.acc => r = q
  BY <1>1, OneRow
<1>. HIDE DEF rs
<1>4. \A r \in rs : r.acc \in Accounts
  BY <1>2
<1>5. IsFiniteSet(rs)
  BY <1>3, <1>4, FewRows
<1>6. \A r \in rs : r.amount \in Nat
  BY <1>2
<1>7. AmountSum(rs) \in Nat
  BY <1>5, <1>6, AmountNat
<1>8. rs \subseteq t
  BY <1>1
<1>. QED
  BY <1>7, <1>8 DEF rs

(* An address has a newest row. *)
LEMMA NewestIn ==
    ASSUME NEW t, \A r \in t : r \in Rows, NEW r \in t
    PROVE  \E q \in NewestOf(t) : q.acc = r.acc /\ q.slot >= r.slot
<1>. DEFINE T == {q.slot : q \in {x \in t : x.acc = r.acc}}
<1>1. \A q \in t : q.slot \in 1 .. MaxSlot
  BY DEF Rows, Slots
<1>2. PICK n \in T : \A m \in T : m <= n
  <2>1. T \subseteq 0 .. MaxSlot /\ T # {} /\ MaxSlot \in Nat
    BY <1>1, HotAssumption
  <2>. HIDE DEF T
  <2>. QED
    BY <2>1, Greatest
<1>3. PICK q \in t : q.acc = r.acc /\ q.slot = n
  OBVIOUS
<1>4. q \in NewestOf(t)
  BY <1>2, <1>3 DEF NewestOf
<1>5. r.slot <= q.slot /\ q.slot \in Nat /\ r.slot \in Nat
  BY <1>1, <1>2, <1>3
<1>. QED
  BY <1>3, <1>4, <1>5

(* Of a pair that is not mixed, the newest rows among some pairs are those  *)
(* among all.                                                               *)
LEMMA SomePairs ==
    ASSUME RowTypes, NEW t, \A r \in t : Honest(r), NEW ps, NEW p \in ps, ~Mixed(p, seen)
    PROVE  PairRows(Final({r \in t : r.pair \in ps}), p) = PairRows(Final(t), p)
<1>. DEFINE some == {r \in t : r.pair \in ps}
<1>1. ASSUME NEW r \in PairRows(Final(some), p)
      PROVE  r \in PairRows(Final(t), p)
  <2>1. r \in t /\ r.pair = p /\ ~r.deleted /\ r \in NewestOf(some)
    BY DEF PairRows, Final, NewestOf
  <2>2. ASSUME NEW q \in t, q.acc = r.acc
        PROVE  q.slot <= r.slot
    <3>1. q.pair = p
      BY <2>1, <2>2, OnePair
    <3>. QED
      BY <2>1, <2>2, <3>1 DEF NewestOf
  <2>. QED
    BY <2>1, <2>2 DEF PairRows, Final, NewestOf
<1>2. ASSUME NEW r \in PairRows(Final(t), p)
      PROVE  r \in PairRows(Final(some), p)
  BY DEF PairRows, Final, NewestOf
<1>. QED
  BY <1>1, <1>2

(* New rows leave those of a pair as they are, or one of them is among them. *)
LEMMA NewRows ==
    ASSUME RowTypes, NEW t, NEW new, NEW all, all = t \cup new, \A r \in all : Honest(r),
           NEW p, ~Mixed(p, seen), \A r \in new : r.pair = p => ~r.deleted,
           \A r \in Final(all) : r \in new => r.pair # p
    PROVE  PairRows(Final(all), p) = PairRows(Final(t), p)
<1>1. ASSUME NEW r \in PairRows(Final(all), p)
      PROVE  r \in PairRows(Final(t), p)
  <2>1. r \in Final(all) /\ r.pair = p /\ r \in all
    BY DEF PairRows, Final, NewestOf
  <2>2. r \in t
    BY <2>1
  <2>. QED
    BY <2>1, <2>2 DEF PairRows, Final, NewestOf
<1>2. ASSUME NEW r \in PairRows(Final(t), p)
      PROVE  r \in PairRows(Final(all), p)
  <2>1. r \in t /\ r.pair = p /\ ~r.deleted /\ r \in NewestOf(t)
    BY DEF PairRows, Final, NewestOf
  <2>2. PICK m \in NewestOf(all) : m.acc = r.acc /\ m.slot >= r.slot
    BY <2>1, NewestIn DEF Honest
  <2>3. m \in all /\ m.slot \in Nat /\ r.slot \in Nat
    BY <2>1, HotAssumption DEF NewestOf, Honest, Rows, Slots
  <2>4. m.pair = p
    BY <2>1, <2>2, <2>3, OnePair
  <2>5. CASE m \in t
    <3>1. m.slot = r.slot
      BY <2>1, <2>2, <2>3, <2>5 DEF NewestOf
    <3>2. r \in NewestOf(all)
      BY <2>1, <2>2, <3>1 DEF NewestOf
    <3>. QED
      BY <2>1, <3>2 DEF PairRows, Final
  <2>6. CASE m \in new
    <3>1. m \in Final(all)
      BY <2>2, <2>4, <2>6 DEF Final
    <3>. QED
      BY <2>4, <2>6, <3>1
  <2>. QED
    BY <2>3, <2>5, <2>6
<1>. QED
  BY <1>1, <1>2

-----------------------------------------------------------------------------
(* Where rows come from, and which pairs an import refreshes. *)

(* The workers' rows are those of changes, ... *)
LEMMA HotRowsHonest ==
    ASSUME RowsInv, RowsTraced, NEW r \in HotRows
    PROVE  Honest(r) /\ ~r.deleted /\ ChangesAt(r.acc, r.slot)
<1>1. /\ r \in Rows /\ ~r.deleted /\ RowTrue(r) /\ r.slot <= seen
      /\ \E q \in records : q.acc = r.acc /\ q.slot = r.slot
  BY HotRowsTrue DEF RowsInv
<1>2. IsHot(ledger[r.slot][r.acc])
  BY <1>1, LiveIsHot
<1>3. ledger[r.slot][r.acc].pair = r.pair
  BY <1>1 DEF RowTrue
<1>4. r.slot \in 1 .. r.slot
  BY <1>1 DEF Rows, Slots
<1>. QED
  BY <1>1, <1>2, <1>3, <1>4 DEF Honest, Had, RowsTraced

(* ... tombstones are of the pair of the row they delete. *)
LEMMA TombstonesHonest ==
    ASSUME RowsInv, RowsTraced, NEW t \in Tombstones
    PROVE  Honest(t) /\ t.deleted
<1>1. PICK q \in Final(l2) \X Candidates :
         /\ q[1].acc = q[2].acc /\ q[1].slot < q[2].slot
         /\ t = [q[1] EXCEPT !.slot = q[2].slot, !.amount = 0, !.deleted = TRUE]
  BY DEF Tombstones
<1>2. t \in Rows /\ t.deleted /\ RowTrue(t) /\ t.slot <= seen
  BY TombstonesTrue DEF RowsInv
<1>3. q[1] \in l2
  BY DEF Final, NewestOf
<1>4. q[1] \in Rows /\ Had(q[1].acc, q[1].pair, q[1].slot)
  BY <1>3 DEF RowsInv, RowTypes, RowsTraced
<1>5. t.acc = q[1].acc /\ t.pair = q[1].pair /\ t.slot = q[2].slot
  BY <1>1, <1>4 DEF Rows
<1>6. q[1].slot \in Nat /\ t.slot \in Nat
  BY <1>2, <1>4, HotAssumption DEF Rows, Slots
<1>7. Had(t.acc, t.pair, t.slot)
  <2>1. q[1].slot <= t.slot
    BY <1>1, <1>5, <1>6
  <2>. QED
    BY <1>4, <1>5, <1>6, <2>1, HadLater
<1>. QED
  BY <1>2, <1>7 DEF Honest

(* An archive holds the changes between its slots. *)
LEMMA WrittenChange ==
    ASSUME NEW from, NEW to, NEW r \in Written(from, to)
    PROVE  ChangesAt(r.acc, r.slot)
<1>1. PICK a \in Accounts : r \in {[acc |-> a, slot |-> s, state |-> ledger[s][a]] :
                                     s \in Changes(a, from, to)}
  BY DEF Written
<1>2. PICK s \in Changes(a, from, to) : r = [acc |-> a, slot |-> s, state |-> ledger[s][a]]
  BY <1>1
<1>. QED
  BY <1>2 DEF Changes, ChangesAt

(* A step that adds such rows, or reads such records, keeps RowsTraced. *)
LEMMA TracedStep ==
    ASSUME RowsTraced, ledger' = ledger, NEW new, l2' \subseteq l2 \cup new,
           \A r \in new : /\ Had(r.acc, r.pair, r.slot)
                          /\ ~r.deleted => ChangesAt(r.acc, r.slot),
           \A r \in records' : r \in records \/ ChangesAt(r.acc, r.slot),
           kind' = "full" /\ pc' = "refresh" =>
              \A r \in l2' : ~r.deleted /\ Steady(r.acc, r.slot, slot')
    PROVE  RowsTraced'
<1>1. ASSUME NEW r \in l2'
      PROVE  /\ Had(r.acc, r.pair, r.slot)
             /\ ~r.deleted => ChangesAt(r.acc, r.slot)
  BY <1>1 DEF RowsTraced
<1>2. \A r \in records' : ChangesAt(r.acc, r.slot)
  BY DEF RowsTraced
<1>. QED
  BY <1>1, <1>2 DEF RowsTraced, Had, ChangesAt, IsHot, Steady

(* The beginning of an import. *)
LEMMA TracedStart ==
    ASSUME RowsTraced, NEW s \in Slots,
           \/ StartFull(s) \/ StartTail(s) \/ StartBridge(s)
           \/ \E from \in 0 .. MaxSlot - 1 : StartCloseTombstones(from, s)
    PROVE  RowsTraced' /\ AffectedOK'
<1>1. PICK k, rs : /\ Begin(k, s, rs)
                   /\ \A r \in rs : ChangesAt(r.acc, r.slot)
                   /\ l2' \subseteq l2
  <2>1. CASE StartFull(s)
    <3>1. \A r \in FullRecords(0, s) : r \in Written(0, s)
      BY DEF FullRecords, NewestOf
    <3>2. \A r \in FullRecords(0, s) : ChangesAt(r.acc, r.slot)
      BY <3>1, WrittenChange
    <3>3. Begin("full", s, FullRecords(0, s)) /\ l2' \subseteq l2
      BY <2>1 DEF StartFull
    <3>. QED
      BY <3>2, <3>3
  <2>2. CASE StartTail(s)
    <3>1. PICK older \in SUBSET Written(wm, s) :
             Continue("tail", s, NewestOf(Written(wm, s)) \cup older)
      BY <2>2 DEF StartTail
    <3>. DEFINE rs == NewestOf(Written(wm, s)) \cup older
    <3>2. \A r \in rs : r \in Written(wm, s)
      BY DEF NewestOf
    <3>3. \A r \in rs : ChangesAt(r.acc, r.slot)
      BY <3>2, WrittenChange
    <3>4. Begin("tail", s, rs) /\ l2' \subseteq l2
      BY <3>1 DEF Continue
    <3>. HIDE DEF rs
    <3>. QED
      BY <3>3, <3>4
  <2>3. CASE StartBridge(s)
    <3>1. \A r \in FullRecords(wm, s) : r \in Written(wm, s)
      BY DEF FullRecords, NewestOf
    <3>2. \A r \in FullRecords(wm, s) : ChangesAt(r.acc, r.slot)
      BY <3>1, WrittenChange
    <3>3. Begin("bridge", s, FullRecords(wm, s)) /\ l2' \subseteq l2
      BY <2>3 DEF StartBridge, Continue
    <3>. QED
      BY <3>2, <3>3
  <2>4. CASE \E from \in 0 .. MaxSlot - 1 : StartCloseTombstones(from, s)
    <3>1. PICK from \in 0 .. MaxSlot - 1 : StartCloseTombstones(from, s)
      BY <2>4
    <3>. DEFINE rs == NewestOf(Written(from, s))
    <3>2. \A r \in rs : r \in Written(from, s)
      BY DEF NewestOf
    <3>3. \A r \in rs : ChangesAt(r.acc, r.slot)
      BY <3>2, WrittenChange
    <3>4. Begin("repair", s, rs) /\ l2' \subseteq l2
      BY <3>1 DEF StartCloseTombstones, Continue
    <3>. HIDE DEF rs
    <3>. QED
      BY <3>3, <3>4
  <2>. QED
    BY <2>1, <2>2, <2>3, <2>4
<1>2. pc' = "rows" /\ slot' = s /\ records' = rs /\ ledger' = ledger
  BY <1>1 DEF Begin
<1>3. PICK new : new = {}
  OBVIOUS
<1>4. l2' \subseteq l2 \cup new /\ \A r \in new : FALSE
  BY <1>1, <1>3
<1>5. RowsTraced'
  BY <1>1, <1>2, <1>4, TracedStep
<1>6. AffectedOK'
  BY <1>2 DEF AffectedOK
<1>. QED
  BY <1>5, <1>6

(* The workers' rows. *)
LEMMA TracedWriteRows ==
    ASSUME RowsInv, RowsTraced, AffectedOK, WriteRows
    PROVE  RowsTraced' /\ AffectedOK'
<1>1. /\ pc = "rows" /\ l2' = l2 \cup HotRows
      /\ pc' = (IF kind = "full" THEN "refresh" ELSE "tombstones")
      /\ affected' = (IF kind = "full" THEN {} ELSE PairsOf(HotRows))
      /\ UNCHANGED <<ledger, kind, slot, records>>
  BY DEF WriteRows, PairsOf
<1>2. PICK new : new = HotRows
  OBVIOUS
<1>3. \A r \in new : /\ Had(r.acc, r.pair, r.slot)
                     /\ ~r.deleted => ChangesAt(r.acc, r.slot)
  BY <1>2, HotRowsHonest DEF Honest
<1>4. ASSUME kind' = "full", pc' = "refresh", NEW r \in l2'
      PROVE  ~r.deleted /\ Steady(r.acc, r.slot, slot')
  <2>1. r \in HotRows
    BY <1>1, <1>4 DEF RowsInv, FullOK
  <2>2. PICK q \in records : q.acc = r.acc /\ q.slot = r.slot
    BY <2>1, HotRowsTrue DEF RowsInv
  <2>3. Steady(q.acc, q.slot, slot)
    BY <1>1, <1>4 DEF RowsInv, FullOK
  <2>. QED
    BY <1>1, <2>1, <2>2, <2>3, HotRowsHonest
<1>5. RowsTraced'
  BY <1>1, <1>2, <1>3, <1>4, TracedStep
<1>6. HotRows' = HotRows
  BY <1>1 DEF HotRows, WritesLiveAmount, IsHot
<1>7. AffectedOK'
  BY <1>1, <1>6 DEF AffectedOK, PairsOf
<1>. QED
  BY <1>5, <1>7

(* Tombstones. *)
LEMMA TracedWriteTombstones ==
    ASSUME RowsInv, RowsTraced, AffectedOK, WriteTombstones
    PROVE  RowsTraced' /\ AffectedOK'
<1>1. /\ pc = "tombstones" /\ pc' = "refresh" /\ l2' = l2 \cup Tombstones
      /\ tombs' = Tombstones /\ affected' = affected \cup PairsOf(Tombstones)
      /\ UNCHANGED <<ledger, kind, slot, records>>
  BY DEF WriteTombstones, PairsOf
<1>2. PICK new : new = Tombstones
  OBVIOUS
<1>3. \A r \in new : /\ Had(r.acc, r.pair, r.slot)
                     /\ ~r.deleted => ChangesAt(r.acc, r.slot)
  BY <1>2, TombstonesHonest DEF Honest
<1>4. kind # "full"
  BY <1>1 DEF RowsInv, FullOK
<1>5. RowsTraced'
  BY <1>1, <1>2, <1>3, <1>4, TracedStep
<1>6. HotRows' = HotRows
  BY <1>1 DEF HotRows, WritesLiveAmount, IsHot
<1>7. AffectedOK'
  BY <1>1, <1>6 DEF AffectedOK, PairsOf
<1>. QED
  BY <1>5, <1>7

(* The import fails: what it wrote is of the same kind. *)
LEMMA TracedFailures ==
    ASSUME RowsInv, RowsTraced, RowsFail \/ TombstonesFail \/ RefreshFails \/ CheckpointFails
    PROVE  RowsTraced' /\ AffectedOK'
<1>1. PICK new : /\ l2' \subseteq l2 \cup new
                 /\ \A r \in new : r \in HotRows \/ r \in Tombstones
  <2>1. CASE RowsFail
    BY <2>1 DEF RowsFail
  <2>2. CASE TombstonesFail
    BY <2>2 DEF TombstonesFail
  <2>3. CASE RefreshFails \/ CheckpointFails
    BY <2>3 DEF RefreshFails, CheckpointFails
  <2>. QED
    BY <2>1, <2>2, <2>3
<1>2. pc' = "idle" /\ kind' = "full" /\ records' = {} /\ ledger' = ledger
  BY DEF RowsFail, TombstonesFail, RefreshFails, CheckpointFails, Stop, Done
<1>3. \A r \in new : /\ Had(r.acc, r.pair, r.slot)
                     /\ ~r.deleted => ChangesAt(r.acc, r.slot)
  BY <1>1, HotRowsHonest, TombstonesHonest DEF Honest
<1>4. RowsTraced'
  BY <1>1, <1>2, <1>3, TracedStep
<1>. QED
  BY <1>2, <1>4 DEF AffectedOK

(* Other steps add no row. *)
LEMMA TracedOthers ==
    ASSUME RowsInv, RowsTraced, AffectedOK,
           Refresh \/ Checkpoint \/ RebuildHot \/ Merge \/ UNCHANGED vars
    PROVE  RowsTraced' /\ AffectedOK'
<1>1. PICK new : new = {}
  OBVIOUS
<1>2. /\ l2' \subseteq l2 /\ records' \subseteq records /\ ledger' = ledger
      /\ kind' = "full" /\ pc' = "refresh" =>
            kind = "full" /\ pc = "refresh" /\ slot' = slot
  BY DEF Refresh, Checkpoint, Done, RebuildHot, Merge, vars
<1>3. l2' \subseteq l2 \cup new /\ \A r \in new : FALSE
  BY <1>1, <1>2
<1>4. RowsTraced'
  <2>1. kind' = "full" /\ pc' = "refresh" =>
           \A r \in l2' : ~r.deleted /\ Steady(r.acc, r.slot, slot')
    BY <1>2 DEF RowsTraced
  <2>. QED
    BY <1>2, <1>3, <2>1, TracedStep
<1>5. AffectedOK'
  <2>1. CASE Refresh
    <3>1. /\ pc = "refresh" /\ pc' = "checkpoint"
          /\ UNCHANGED <<ledger, kind, slot, records, affected, tombs>>
      BY <2>1 DEF Refresh
    <3>2. HotRows' = HotRows
      BY <3>1 DEF HotRows, WritesLiveAmount, IsHot
    <3>. QED
      BY <3>1, <3>2 DEF AffectedOK, PairsOf
  <2>2. CASE Checkpoint
    BY <2>2 DEF AffectedOK, Checkpoint, Done
  <2>3. CASE RebuildHot \/ Merge \/ UNCHANGED vars
    <3>1. UNCHANGED <<ledger, pc, kind, slot, records, affected, tombs>>
      BY <2>3 DEF RebuildHot, Merge, vars
    <3>2. HotRows' = HotRows
      BY <3>1 DEF HotRows, WritesLiveAmount, IsHot
    <3>. QED
      BY <3>1, <3>2 DEF AffectedOK, PairsOf
  <2>. QED
    BY <2>1, <2>2, <2>3
<1>. QED
  BY <1>4, <1>5

-----------------------------------------------------------------------------
(* L3 follows L2. *)

(* What SyncOK says of a pair between imports. *)
Settled(p) == InSync(p) \/ Mixed(p, seen) \/ (wm # None /\ Unsettled(p))

(* Nothing of what it depends on has changed, but that more was read. *)
LEMMA SettledSame ==
    ASSUME NEW p \in HotPairs, Settled(p), seen \in Nat, seen' \in Nat, seen <= seen',
           ledger' = ledger, Final(l2)' = Final(l2), l3'[p] = l3[p], wm' = wm, unseen' = unseen
    PROVE  Settled(p)'
<1>1. ASSUME NEW a, NEW q, Had(a, q, seen)
      PROVE  Had(a, q, seen)'
  <2>1. Had(a, q, seen')
    BY <1>1, HadLater
  <2>. QED
    BY <2>1 DEF Had, IsHot
<1>2. Mixed(p, seen) => Mixed(p, seen)'
  BY <1>1 DEF Mixed
<1>3. InSync(p) => InSync(p)'
  BY DEF InSync
<1>4. wm # None /\ Unsettled(p) => (wm # None /\ Unsettled(p))'
  BY DEF Unsettled
<1>. QED
  BY <1>2, <1>3, <1>4 DEF Settled

(* The same of rows that are added to L2. *)
LEMMA GrownFinal ==
    ASSUME RowsInv, RowsTraced, NEW p, ~Mixed(p, seen), NEW new, \A r \in new : Honest(r),
           \A r \in new : r.pair = p => ~r.deleted
    PROVE  \/ PairRows(Final(l2 \cup new), p) = PairRows(Final(l2), p)
           \/ \E r \in Final(l2 \cup new) : r \in new /\ r.pair = p
<1>1. PICK t, all : t = l2 /\ all = t \cup new
  OBVIOUS
<1>2. RowTypes /\ \A r \in all : Honest(r)
  BY <1>1, RowsHonest DEF RowsInv
<1>3. SUFFICES ASSUME \A r \in Final(all) : r \in new => r.pair # p
               PROVE  PairRows(Final(all), p) = PairRows(Final(t), p)
  BY <1>1
<1>. QED
  BY <1>1, <1>2, <1>3, NewRows

(* New rows of other pairs leave a pair alone, those of its own unsettle it. *)
LEMMA SettledGrown ==
    ASSUME RowsInv, RowsTraced, NEW p \in HotPairs, Settled(p), wm # None,
           UNCHANGED <<ledger, l3, wm, seen, unseen>>,
           NEW new, l2' = l2 \cup new, \A r \in new : Honest(r),
           \A r \in new : r.pair = p => ~r.deleted /\ r.slot > wm
    PROVE  Settled(p)'
<1>1. CASE Mixed(p, seen)
  BY <1>1 DEF Settled, Mixed, Had, IsHot
<1>2. CASE ~Mixed(p, seen)
  <2>1. \A r \in new : r.pair = p => ~r.deleted
    OBVIOUS
  <2>2. \/ PairRows(Final(l2 \cup new), p) = PairRows(Final(l2), p)
        \/ \E r \in Final(l2 \cup new) : r \in new /\ r.pair = p
    BY <1>2, <2>1, GrownFinal
  <2>3. CASE \E r \in Final(l2 \cup new) : r \in new /\ r.pair = p
    <3>1. PICK r \in Final(l2 \cup new) : r \in new /\ r.pair = p
      BY <2>3
    <3>2. r.slot > wm
      BY <3>1
    <3>3. r \in Final(l2') /\ wm' = wm
      OBVIOUS
    <3>. QED
      BY <3>1, <3>2, <3>3 DEF Settled, Unsettled
  <2>4. CASE PairRows(Final(l2 \cup new), p) = PairRows(Final(l2), p)
    <3>1. InSync(p) => InSync(p)'
      BY <2>4 DEF InSync
    <3>2. Unsettled(p) <=> \E r \in PairRows(Final(l2), p) : r.slot > wm \/ r.acc \in unseen
      BY DEF Unsettled, PairRows
    <3>3. Unsettled(p)' <=>
             \E r \in PairRows(Final(l2 \cup new), p) : r.slot > wm \/ r.acc \in unseen
      BY DEF Unsettled, PairRows
    <3>. QED
      BY <1>2, <2>4, <3>1, <3>2, <3>3 DEF Settled
  <2>. QED
    BY <2>2, <2>3, <2>4
<1>. QED
  BY <1>1, <1>2

(* With a watermark, SyncOK says at least that the other pairs are settled, *)
LEMMA SyncSettled ==
    ASSUME SyncOK, wm # None, NEW p \in HotPairs \ (dropped \cup overtaken \cup InWork)
    PROVE  Settled(p)
  BY DEF SyncOK, Settled

(* ... and except between a refresh and the checkpoint no more than that.   *)
LEMMA SettledSync ==
    ASSUME pc' # "checkpoint",
           wm' # None =>
              \A p \in HotPairs \ (dropped' \cup overtaken' \cup InWork') : Settled(p)'
    PROVE  SyncOK'
  BY DEF SyncOK, Settled

(* The beginning of an import. *)
LEMMA SyncStart ==
    ASSUME RowsInv, SyncOK, NEW s \in Slots,
           \/ StartFull(s) \/ StartTail(s) \/ StartBridge(s)
           \/ \E from \in 0 .. MaxSlot - 1 : StartCloseTombstones(from, s)
    PROVE  SyncOK'
<1>1. CASE StartFull(s)
  BY <1>1, SettledSync DEF StartFull, Begin
<1>2. CASE \E k, rs : Continue(k, s, rs)
  <2>1. /\ pc' = "rows" /\ pc = "idle" /\ seen' = Max({seen, s})
        /\ UNCHANGED <<ledger, l2, l3, wm, unseen, dropped, overtaken>>
    BY <1>2 DEF Continue, Begin, history
  <2>2. seen \in Nat /\ seen' \in Nat /\ seen <= seen'
    <3>1. seen \in Nat /\ s \in Nat
      BY HotAssumption DEF RowsInv, RowTypes, Slots
    <3>. QED
      BY <2>1, <3>1, MaxOfTwo
  <2>3. ASSUME wm' # None, NEW p \in HotPairs \ (dropped' \cup overtaken' \cup InWork')
        PROVE  Settled(p)'
    <3>1. Settled(p)
      BY <2>1, <2>3, SyncSettled DEF InWork
    <3>2. Final(l2)' = Final(l2) /\ l3'[p] = l3[p]
      BY <2>1
    <3>. QED
      BY <2>1, <2>2, <3>1, <3>2, SettledSame
  <2>. QED
    BY <2>1, <2>3, SettledSync
<1>. QED
  BY <1>1, <1>2 DEF StartTail, StartBridge, StartCloseTombstones

(* The workers' rows are beyond the watermark. *)
LEMMA SyncWriteRows ==
    ASSUME RowsInv, RowsTraced, SyncOK, WriteRows
    PROVE  SyncOK'
<1>1. /\ pc = "rows" /\ pc' \in {"refresh", "tombstones"} /\ l2' = l2 \cup HotRows
      /\ kind # "full" => pc' = "tombstones"
      /\ UNCHANGED <<ledger, l3, wm, seen, unseen, dropped, overtaken>>
  BY DEF WriteRows, history
<1>2. ASSUME wm' # None, NEW p \in HotPairs \ (dropped' \cup overtaken' \cup InWork')
      PROVE  Settled(p)'
  <2>1. Settled(p)
    BY <1>1, <1>2, SyncSettled DEF InWork
  <2>2. PICK new : new = HotRows
    OBVIOUS
  <2>3. ASSUME NEW r \in new
        PROVE  Honest(r) /\ ~r.deleted /\ r.slot > wm
    <3>1. Honest(r) /\ ~r.deleted
      BY <2>2, HotRowsHonest
    <3>2. kind # "repair" /\ \E q \in records : q.slot = r.slot
      BY <2>2, HotRowsTrue DEF RowsInv
    <3>3. kind # "full" /\ \A q \in records : q.slot > wm
      BY <1>1, <1>2, <3>2 DEF RowsInv, FullOK, ContinueOK
    <3>. QED
      BY <3>1, <3>2, <3>3
  <2>. QED
    BY <1>1, <1>2, <2>1, <2>2, <2>3, SettledGrown
<1>. QED
  BY <1>1, <1>2, SettledSync

(* Pairs of tombstones are in work from now on. *)
LEMMA SyncWriteTombstones ==
    ASSUME RowsInv, RowsTraced, SyncOK, WriteTombstones
    PROVE  SyncOK'
<1>1. /\ pc = "tombstones" /\ pc' = "refresh" /\ l2' = l2 \cup Tombstones
      /\ tombs' = Tombstones
      /\ UNCHANGED <<ledger, l3, wm, seen, unseen, dropped, overtaken>>
  BY DEF WriteTombstones, history
<1>2. ASSUME wm' # None, NEW p \in HotPairs \ (dropped' \cup overtaken' \cup InWork')
      PROVE  Settled(p)'
  <2>1. Settled(p)
    BY <1>1, <1>2, SyncSettled DEF InWork
  <2>2. PICK new : new = Tombstones
    OBVIOUS
  <2>3. \A r \in new : Honest(r) /\ r.pair # p
    BY <1>1, <1>2, <2>2, TombstonesHonest DEF InWork, PairsOf
  <2>. QED
    BY <1>1, <1>2, <2>1, <2>2, <2>3, SettledGrown
<1>. QED
  BY <1>1, <1>2, SettledSync

(* A failed import leaves rows beyond the watermark, or dropped tombstones. *)
LEMMA SyncFailures ==
    ASSUME RowsInv, RowsTraced, SyncOK,
           RowsFail \/ TombstonesFail \/ RefreshFails \/ CheckpointFails
    PROVE  SyncOK'
<1>1. pc' = "idle" /\ UNCHANGED <<ledger, l3, wm, seen, unseen, overtaken>>
  BY DEF RowsFail, TombstonesFail, RefreshFails, CheckpointFails, Stop, Done
<1>2. ASSUME wm' # None, NEW p \in HotPairs \ (dropped' \cup overtaken' \cup InWork')
      PROVE  Settled(p)'
  <2>1. CASE RowsFail
    <3>1. PICK part \in SUBSET HotRows : l2' = l2 \cup part
      BY <2>1 DEF RowsFail
    <3>2. pc = "rows" /\ dropped \subseteq dropped'
      BY <2>1 DEF RowsFail, Stop
    <3>3. Settled(p)
      BY <1>1, <1>2, <3>2, SyncSettled DEF InWork
    <3>4. ASSUME NEW r \in part
          PROVE  Honest(r) /\ ~r.deleted /\ r.slot > wm
      <4>1. Honest(r) /\ ~r.deleted
        BY HotRowsHonest
      <4>2. kind # "repair" /\ \E q \in records : q.slot = r.slot
        BY HotRowsTrue DEF RowsInv
      <4>3. kind # "full" /\ \A q \in records : q.slot > wm
        BY <1>1, <1>2, <3>2, <4>2 DEF RowsInv, FullOK, ContinueOK
      <4>. QED
        BY <4>1, <4>2, <4>3
    <3>. QED
      BY <1>1, <1>2, <3>1, <3>3, <3>4, SettledGrown
  <2>2. CASE TombstonesFail
    <3>1. PICK part \in SUBSET Tombstones : l2' = l2 \cup part /\ Stop(part)
      BY <2>2 DEF TombstonesFail
    <3>2. pc = "tombstones" /\ dropped' = dropped \cup PairsOf(part)
      BY <2>2, <3>1 DEF TombstonesFail, Stop, PairsOf
    <3>3. Settled(p)
      BY <1>1, <1>2, <3>2, SyncSettled DEF InWork
    <3>4. \A r \in part : Honest(r) /\ r.pair # p
      BY <1>2, <3>2, TombstonesHonest DEF PairsOf
    <3>. QED
      BY <1>1, <1>2, <3>1, <3>3, <3>4, SettledGrown
  <2>3. CASE RefreshFails \/ CheckpointFails
    <3>1. l2' = l2 /\ dropped \subseteq dropped' /\ InWork \subseteq dropped'
      BY <2>3 DEF RefreshFails, CheckpointFails, Stop, InWork, PairsOf
    <3>2. Settled(p)
      BY <1>1, <1>2, <3>1, SyncSettled
    <3>3. seen \in Nat /\ seen' \in Nat /\ seen <= seen'
      BY <1>1, HotAssumption DEF RowsInv, RowTypes
    <3>4. Final(l2)' = Final(l2) /\ l3'[p] = l3[p]
      BY <1>1, <3>1
    <3>. QED
      BY <1>1, <3>2, <3>3, <3>4, SettledSame
  <2>. QED
    BY <2>1, <2>2, <2>3
<1>. QED
  BY <1>1, <1>2, SettledSync

(* A merge changes nothing of FINAL. *)
LEMMA SyncMerge ==
    ASSUME RowsInv, SyncOK, Merge
    PROVE  SyncOK'
<1>1. PICK d \in l2 \ NewestOf(l2) : l2' = l2 \ {d}
  BY DEF Merge
<1>2. UNCHANGED <<ledger, l3, wm, seen, pc, kind, affected, tombs, unseen, dropped, overtaken>>
  BY DEF Merge, history
<1>3. \A r \in l2 : r.slot \in Nat
  BY HotAssumption DEF RowsInv, RowTypes, Rows, Slots
<1>4. PICK n \in l2 : n.acc = d.acc /\ n.slot > d.slot
  <2>1. PICK n \in l2 : n.acc = d.acc /\ ~(n.slot <= d.slot)
    BY <1>1 DEF NewestOf
  <2>. QED
    BY <1>3, <2>1
<1>5. n \in l2'
  BY <1>1, <1>3, <1>4
<1>6. ASSUME NEW r \in NewestOf(l2')
      PROVE  r \in NewestOf(l2)
  <2>1. r \in l2 /\ \A q \in l2 : q # d /\ q.acc = r.acc => q.slot <= r.slot
    BY <1>1 DEF NewestOf
  <2>2. d.acc = r.acc => d.slot <= r.slot
    <3>1. n.acc = r.acc => n.slot <= r.slot
      BY <1>5 DEF NewestOf
    <3>. QED
      BY <1>1, <1>3, <1>4, <2>1, <3>1
  <2>. QED
    BY <2>1, <2>2 DEF NewestOf
<1>7. NewestOf(l2') = NewestOf(l2)
  BY <1>1, <1>6 DEF NewestOf
<1>8. Final(l2)' = Final(l2)
  BY <1>7 DEF Final
<1>. QED
  BY <1>2, <1>8 DEF SyncOK, InSync, Mixed, Had, IsHot, Unsettled, InWork, PairsOf

(* A rebuilt balance is the sum that it was rebuilt from. *)
LEMMA RebuiltIs ==
    ASSUME NEW rs, NEW p \in HotPairs, AmountSum(PairRows(rs, p)) \in Nat,
           PairRows(rs, p) \subseteq Rows
    PROVE  /\ RebuiltFrom(rs)[p] \in [amount : Nat, slot : Slots] \cup {None}
           /\ (IF RebuiltFrom(rs)[p] = None THEN 0 ELSE RebuiltFrom(rs)[p].amount)
                = AmountSum(PairRows(rs, p))
<1>. DEFINE n == AmountSum(PairRows(rs, p))
            ss == {r.slot : r \in PairRows(rs, p)}
<1>1. RebuiltFrom(rs)[p] = IF n = 0 THEN None ELSE [amount |-> n, slot |-> Max(ss)]
  BY DEF RebuiltFrom
<1>2. CASE n = 0
  BY <1>1, <1>2
<1>3. CASE n # 0
  <2>1. PairRows(rs, p) # {}
    BY <1>3, EmptySum
  <2>2. ss \subseteq Slots /\ ss # {}
    BY <2>1 DEF Rows
  <2>3. Max(ss) \in Slots
    <3>1. PICK x \in ss : \A y \in ss : y <= x
      <4>1. ss \subseteq 0 .. MaxSlot /\ MaxSlot \in Nat
        BY <2>2, HotAssumption DEF Slots
      <4>. HIDE DEF ss
      <4>. QED
        BY <2>2, <4>1, Greatest
    <3>. HIDE DEF ss
    <3>2. \A y \in ss : x >= y
      BY <2>2, <3>1, HotAssumption DEF Slots
    <3>. QED
      BY <2>2, <3>2 DEF Max
  <2>. HIDE DEF ss
  <2>4. [amount |-> n, slot |-> Max(ss)] \in [amount : Nat, slot : Slots]
    BY <2>3
  <2>5. [amount |-> n, slot |-> Max(ss)] # None
    <3>1. [amount |-> n, slot |-> Max(ss)] \in [amount : Nat, slot : Nat]
      BY <2>3, HotAssumption DEF Slots
    <3>. QED
      BY <3>1, HotAssumption
  <2>. QED
    BY <1>1, <1>3, <2>4, <2>5
<1>. QED
  BY <1>2, <1>3

(* The live rows of a baseline are the newest of their addresses. *)
LEMMA BaselineFinal ==
    ASSUME RowsInv, RowsTraced, kind = "full", pc = "refresh"
    PROVE  {r \in l2 : ~r.deleted} = Final(l2)
<1>1. ASSUME NEW r \in l2, NEW q \in l2, q.acc = r.acc
      PROVE  q.slot <= r.slot
  <2>1. SUFFICES ASSUME ~(q.slot <= r.slot)
                 PROVE  FALSE
    OBVIOUS
  <2>2. Steady(r.acc, r.slot, slot) /\ ChangesAt(r.acc, q.slot)
    BY <1>1 DEF RowsTraced
  <2>3. /\ q.slot \in Nat /\ r.slot \in Nat /\ slot \in Nat
        /\ q.slot <= slot
    BY HotAssumption DEF RowsInv, RowTypes, Rows, Slots, RowsTrue, FullOK
  <2>4. q.slot \in r.slot .. slot /\ q.slot - 1 \in r.slot .. slot
    BY <2>1, <2>3
  <2>. QED
    BY <2>2, <2>4 DEF Steady, ChangesAt
<1>. QED
  BY <1>1 DEF Final, NewestOf

(* The refresh takes the pairs of the import up to date. *)
LEMMA RefreshedIs ==
    ASSUME RowsInv, RowsTraced, AffectedOK, Refresh, NEW p \in HotPairs
    PROVE  /\ kind = "full" => InSync(p)'
           /\ kind # "full" /\ p \in affected =>
                 p \in overtaken' \/ Mixed(p, seen) \/ InSync(p)'
           /\ kind # "full" /\ p \notin affected => l3'[p] = l3[p]
           /\ l3'[p] \in [amount : Nat, slot : Slots] \cup {None, l3[p]}
<1>1. /\ pc = "refresh" /\ l3' = RefreshedL3 /\ l2' = l2 /\ slot \in Slots
      /\ overtaken' = (overtaken \ affected)
                        \cup {q \in affected : l3[q] # None /\ l3[q].slot > slot}
  BY DEF Refresh, AffectedOK
<1>2. Final(l2)' = Final(l2)
  BY <1>1
<1>3. \A r \in l2 : Honest(r)
  BY RowsHonest
<1>4. CASE kind = "full"
  <2>1. l3' = RebuiltFrom(Final(l2))
    BY <1>1, <1>4, BaselineFinal DEF RefreshedL3
  <2>2. PICK t : t = l2
    OBVIOUS
  <2>3. \A r \in t : r \in Rows /\ RowTrue(r)
    BY <1>3, <2>2 DEF Honest
  <2>4. AmountSum(PairRows(Final(t), p)) \in Nat /\ PairRows(Final(t), p) \subseteq Rows
    BY <2>3, FinalNat
  <2>5. /\ RebuiltFrom(Final(t))[p] \in [amount : Nat, slot : Slots] \cup {None}
        /\ (IF RebuiltFrom(Final(t))[p] = None THEN 0 ELSE RebuiltFrom(Final(t))[p].amount)
             = AmountSum(PairRows(Final(t), p))
    BY <2>4, RebuiltIs
  <2>. QED
    BY <1>2, <1>4, <2>1, <2>2, <2>5 DEF InSync
<1>5. CASE kind # "full"
  <2>. DEFINE some == {r \in l2 : r.pair \in affected}
              n == AmountSum(PairRows(Final(some), p))
  <2>1. l3'[p] = IF p \notin affected \/ (l3[p] # None /\ l3[p].slot > slot) THEN l3[p]
                 ELSE [amount |-> n, slot |-> slot]
    BY <1>1, <1>5 DEF RefreshedL3, RefreshedPairs
  <2>2. n \in Nat
    <3>1. \A r \in some : r \in Rows /\ RowTrue(r)
      BY <1>3 DEF Honest
    <3>. HIDE DEF some
    <3>. QED
      BY <3>1, FinalNat
  <2>3. [amount |-> n, slot |-> slot] # None
    <3>1. slot \in Nat
      BY <1>1, HotAssumption DEF Slots
    <3>. HIDE DEF n
    <3>2. [amount |-> n, slot |-> slot] \in [amount : Nat, slot : Nat]
      BY <2>2, <3>1
    <3>. QED
      BY <3>2, HotAssumption
  <2>4. ASSUME p \in affected, p \notin overtaken', ~Mixed(p, seen)
        PROVE  InSync(p)'
    <3>1. l3'[p] = [amount |-> n, slot |-> slot]
      BY <1>1, <2>1, <2>4
    <3>2. PICK t, ps : t = l2 /\ ps = affected
      OBVIOUS
    <3>3. PairRows(Final({r \in t : r.pair \in ps}), p) = PairRows(Final(t), p)
      <4>1. RowTypes /\ p \in ps /\ \A r \in t : Honest(r)
        BY <1>3, <2>4, <3>2 DEF RowsInv
      <4>. QED
        BY <2>4, <4>1, SomePairs
    <3>4. n = AmountSum(PairRows(Final(l2), p))
      BY <3>2, <3>3
    <3>. HIDE DEF n
    <3>. QED
      BY <1>2, <2>3, <3>1, <3>4 DEF InSync
  <2>. HIDE DEF n
  <2>. QED
    BY <1>1, <1>5, <2>1, <2>2, <2>4
<1>. QED
  BY <1>4, <1>5

(* The refresh of L3. *)
LEMMA SyncRefresh ==
    ASSUME RowsInv, RowsTraced, AffectedOK, SyncOK, Refresh
    PROVE  SyncOK'
<1>1. /\ pc = "refresh" /\ pc' = "checkpoint" /\ dropped' = dropped \ affected
      /\ overtaken \ affected \subseteq overtaken'
      /\ UNCHANGED <<ledger, l2, wm, seen, kind, affected, tombs, unseen>>
  BY DEF Refresh
<1>2. SUFFICES ASSUME wm # None \/ kind = "full",
                      NEW p \in HotPairs, p \notin dropped', p \notin overtaken'
               PROVE  \/ InSync(p)'
                      \/ Mixed(p, seen)'
                      \/ (wm # None /\ Unsettled(p))' /\ p \notin affected
  BY <1>1 DEF SyncOK, InWork
<1>3. Mixed(p, seen)' <=> Mixed(p, seen)
  BY <1>1 DEF Mixed, Had, IsHot
<1>4. CASE kind = "full"
  BY <1>4, RefreshedIs
<1>5. CASE kind # "full" /\ p \in affected
  BY <1>2, <1>3, <1>5, RefreshedIs
<1>6. CASE kind # "full" /\ p \notin affected
  <2>1. p \notin dropped /\ p \notin overtaken /\ p \notin InWork
    BY <1>1, <1>2, <1>6 DEF AffectedOK, InWork
  <2>2. Settled(p)
    BY <1>2, <1>6, <2>1, SyncSettled
  <2>3. l3'[p] = l3[p]
    BY <1>6, RefreshedIs
  <2>4. Final(l2)' = Final(l2) /\ seen \in Nat /\ seen' \in Nat /\ seen <= seen'
    BY <1>1, HotAssumption DEF RowsInv, RowTypes
  <2>5. Settled(p)'
    BY <1>1, <2>2, <2>3, <2>4, SettledSame
  <2>. QED
    BY <1>6, <2>5 DEF Settled
<1>. QED
  BY <1>4, <1>5, <1>6

(* --clickhouse-rebuild-hot *)
LEMMA RebuiltInSync ==
    ASSUME RowsInv, RowsTraced, RebuildHot, NEW p \in HotPairs
    PROVE  /\ InSync(p)'
           /\ l3'[p] \in [amount : Nat, slot : Slots] \cup {None}
<1>1. l3' = RebuiltFrom(Final(l2)) /\ l2' = l2
  BY DEF RebuildHot
<1>2. PICK t : t = l2
  OBVIOUS
<1>3. \A r \in t : r \in Rows /\ RowTrue(r)
  BY <1>2, RowsHonest DEF Honest
<1>4. AmountSum(PairRows(Final(t), p)) \in Nat /\ PairRows(Final(t), p) \subseteq Rows
  BY <1>3, FinalNat
<1>5. /\ RebuiltFrom(Final(t))[p] \in [amount : Nat, slot : Slots] \cup {None}
      /\ (IF RebuiltFrom(Final(t))[p] = None THEN 0 ELSE RebuiltFrom(Final(t))[p].amount)
           = AmountSum(PairRows(Final(t), p))
  BY <1>4, RebuiltIs
<1>6. Final(l2)' = Final(l2)
  BY <1>1
<1>. QED
  BY <1>1, <1>2, <1>5, <1>6 DEF InSync

(* Of a pair that an import has not refreshed, an unsettled row stays one: *)
(* the import has read nothing of the row's address, and misses its end.   *)
LEMMA UnsettledStays ==
    ASSUME RowsInv, RowsTraced, AffectedOK, Checkpoint, wm # None, NEW p \in HotPairs \ affected,
           ~Mixed(p, seen), NEW r \in Final(l2), r.pair = p, r.slot > wm \/ r.acc \in unseen
    PROVE  r.slot > wm' \/ r.acc \in unseen'
<1>. DEFINE a == r.acc
            u == IF kind = "repair" THEN wm ELSE slot
<1>1. /\ pc = "checkpoint" /\ wm' = u
      /\ unseen' = {b \in unseen \cup Ended : ~SaysEnded(b, u) /\ ~IsHot(ledger[u][b])}
  BY DEF Checkpoint
<1>2. r \in l2 /\ r \in NewestOf(l2) /\ ~r.deleted
  BY DEF Final, NewestOf
<1>3. /\ Honest(r) /\ r \in Rows /\ RowTrue(r) /\ a \in Accounts
      /\ r.slot \in Nat /\ r.slot <= seen /\ seen \in Nat /\ wm \in Nat
      /\ ChangesAt(a, r.slot)
  <2>1. Honest(r) /\ r \in Rows /\ RowTrue(r) /\ a \in Accounts /\ r.slot <= seen
    BY <1>2, RowsHonest DEF Honest, Rows
  <2>2. r.slot \in Nat /\ seen \in Nat /\ wm \in Nat
    BY <2>1, HotAssumption DEF Rows, Slots, RowsInv, RowTypes
  <2>3. ChangesAt(a, r.slot)
    BY <1>2 DEF RowsTraced
  <2>. QED
    BY <2>1, <2>2, <2>3
<1>4. kind # "full"
  BY <1>1 DEF RowsInv, FullOK
<1>5. /\ IsHot(ledger[r.slot][a])
      /\ a \in unseen => ~IsHot(ledger[wm][a])
  <2>1. IsHot(ledger[r.slot][a])
    BY <1>2, <1>3, LiveIsHot
  <2>2. a \in unseen => ~IsHot(ledger[wm][a])
    BY DEF RowsInv, WatermarkOK
  <2>. QED
    BY <2>1, <2>2
<1>6. ASSUME ~IsHot(ledger[u][a]), r.slot <= u, u \in Nat
      PROVE  ~SaysEnded(a, u)
  <2>1. ~Steady(a, r.slot, u)
    <3>1. r.slot \in r.slot .. u
      BY <1>3, <1>6
    <3>. QED
      BY <1>5, <1>6, <3>1 DEF Steady
  <2>2. \A q \in l2 : q.acc = a => ~(q.slot > r.slot)
    <3>1. \A q \in l2 : q.slot \in Nat
      BY HotAssumption DEF RowsInv, RowTypes, Rows, Slots
    <3>. QED
      BY <1>2, <1>3, <3>1 DEF NewestOf
  <2>3. ~Covered(a, u)
    BY <1>2, <2>1, <2>2 DEF Covered
  <2>. QED
    BY <1>1, <1>3, <1>4, <2>3 DEF RowsInv, ContinueOK
<1>7. CASE kind = "repair"
  <2>1. SUFFICES ASSUME ~(r.slot > wm)
                 PROVE  a \in unseen'
    BY <1>1, <1>7
  <2>2. a \in unseen /\ ~IsHot(ledger[u][a])
    BY <1>5, <1>7, <2>1
  <2>3. ~SaysEnded(a, u)
    BY <1>3, <1>6, <1>7, <2>1, <2>2
  <2>. QED
    BY <1>1, <2>2, <2>3
<1>8. CASE kind \in {"tail", "bridge"}
  <2>1. u = slot /\ slot = seen /\ wm < slot
    BY <1>1, <1>8 DEF RowsInv, ContinueOK
  <2>2. ~IsHot(ledger[slot][a])
    <3>1. SUFFICES ASSUME IsHot(ledger[slot][a])
                   PROVE  FALSE
      OBVIOUS
    <3>2. ~Steady(a, wm, slot)
      <4>1. CASE r.slot > wm
        <5>1. r.slot \in wm .. slot /\ r.slot - 1 \in wm .. slot
          BY <1>3, <2>1, <4>1
        <5>. QED
          BY <1>3, <5>1 DEF Steady, ChangesAt
      <4>2. CASE a \in unseen
        <5>1. wm \in wm .. slot
          BY <1>3, <2>1
        <5>. QED
          BY <1>5, <3>1, <4>2, <5>1 DEF Steady
      <4>. QED
        BY <4>1, <4>2
    <3>3. PICK q \in records : q.acc = a /\ Steady(a, q.slot, slot)
      BY <1>1, <1>3, <1>8, <3>1, <3>2 DEF RowsInv, RecordsOK
    <3>4. q.state = ledger[slot][a]
      <4>1. q.slot \in Nat /\ q.slot <= seen /\ q.state = ledger[q.slot][a]
        BY <3>3, HotAssumption DEF RowsInv, RecordsOK, RecordTrue, RowTypes, Slots
      <4>2. q.slot \in q.slot .. slot
        BY <1>3, <2>1, <4>1
      <4>. QED
        BY <3>3, <4>1, <4>2 DEF Steady
    <3>5. PICK h \in HotRows : h.acc = q.acc /\ h.slot = q.slot
      BY <1>4, <1>8, <3>1, <3>4, RowWritten DEF RowsInv
    <3>6. Honest(h)
      BY HotRowsHonest
    <3>7. h.pair = p
      BY <1>3, <3>3, <3>5, <3>6, OnePair DEF RowsInv
    <3>. QED
      BY <1>1, <1>4, <3>7 DEF AffectedOK, PairsOf
  <2>3. ~SaysEnded(a, u)
    BY <1>3, <1>6, <2>1, <2>2
  <2>4. a \in unseen \/ a \in Ended
    <3>1. SUFFICES ASSUME r.slot > wm
                   PROVE  a \in Ended
      OBVIOUS
    <3>2. r.slot # slot
      BY <1>5, <2>2
    <3>3. r.slot \in wm .. slot - 1
      BY <1>3, <2>1, <3>1, <3>2
    <3>. QED
      BY <1>3, <1>5, <1>8, <2>2, <3>3 DEF Ended
  <2>. QED
    BY <1>1, <2>1, <2>2, <2>3, <2>4
<1>. QED
  BY <1>4, <1>7, <1>8 DEF RowsInv, RowTypes

(* The watermark moves on. *)
LEMMA SyncCheckpoint ==
    ASSUME RowsInv, RowsTraced, AffectedOK, SyncOK, Checkpoint
    PROVE  SyncOK'
<1>1. /\ pc = "checkpoint" /\ pc' = "idle"
      /\ UNCHANGED <<ledger, l2, l3, seen, dropped, overtaken>>
  BY DEF Checkpoint, Done
<1>2. ASSUME wm' # None, NEW p \in HotPairs \ (dropped' \cup overtaken' \cup InWork')
      PROVE  Settled(p)'
  <2>1. wm # None \/ kind = "full"
    BY <1>1 DEF RowsInv, ContinueOK
  <2>2. \/ InSync(p)
        \/ Mixed(p, seen)
        \/ wm # None /\ Unsettled(p) /\ p \notin affected
    BY <1>1, <1>2, <2>1 DEF SyncOK, InWork
  <2>3. CASE InSync(p)
    BY <1>1, <2>3 DEF Settled, InSync
  <2>4. CASE Mixed(p, seen)
    BY <1>1, <2>4 DEF Settled, Mixed, Had, IsHot
  <2>5. CASE wm # None /\ Unsettled(p) /\ p \notin affected /\ ~Mixed(p, seen)
    <3>1. PICK r \in Final(l2) : r.pair = p /\ (r.slot > wm \/ r.acc \in unseen)
      BY <2>5 DEF Unsettled
    <3>2. r.slot > wm' \/ r.acc \in unseen'
      BY <2>5, <3>1, UnsettledStays
    <3>3. r \in Final(l2)'
      BY <1>1
    <3>. QED
      BY <1>2, <3>1, <3>2, <3>3 DEF Settled, Unsettled
  <2>. QED
    BY <2>2, <2>3, <2>4, <2>5
<1>. QED
  BY <1>1, <1>2, SettledSync

-----------------------------------------------------------------------------
(* Results. *)

(* The type of L3: balances are sums of finitely many amounts. *)
LEMMA L3Type ==
    ASSUME BalanceInv, [Next]_vars
    PROVE  l3' \in [HotPairs -> [amount : Nat, slot : Slots] \cup {None}]
<1>. DEFINE B == [amount : Nat, slot : Slots] \cup {None}
<1>1. RowsInv /\ RowsTraced /\ AffectedOK /\ l3 \in [HotPairs -> B]
  BY DEF BalanceInv, TypeOK
<1>2. CASE \E s \in Slots : StartFull(s)
  BY <1>2 DEF StartFull
<1>3. CASE Refresh
  <2>1. DOMAIN l3' = HotPairs /\ l3' = [p \in HotPairs |-> l3'[p]]
    BY <1>3 DEF Refresh, RefreshedL3, RebuiltFrom, RefreshedPairs
  <2>2. \A p \in HotPairs : l3'[p] \in B
    BY <1>1, <1>3, RefreshedIs
  <2>. HIDE DEF B
  <2>3. l3' \in [HotPairs -> B]
    BY <2>1, <2>2
  <2>. QED
    BY <2>3 DEF B
<1>4. CASE RebuildHot
  <2>1. l3' = [p \in HotPairs |-> l3'[p]]
    BY <1>4 DEF RebuildHot, RebuiltFrom
  <2>2. \A p \in HotPairs : l3'[p] \in B
    BY <1>1, <1>4, RebuiltInSync
  <2>. HIDE DEF B
  <2>3. l3' \in [HotPairs -> B]
    BY <2>1, <2>2
  <2>. QED
    BY <2>3 DEF B
<1>5. CASE l3' = l3
  BY <1>1, <1>5
<1>6. \/ \E s \in Slots : StartFull(s)
      \/ Refresh \/ RebuildHot \/ l3' = l3
  BY DEF Next, vars, StartTail, StartBridge, StartCloseTombstones, Continue, WriteRows,
         WriteTombstones, Checkpoint, RowsFail, TombstonesFail, RefreshFails, CheckpointFails,
         Stop, Merge
<1>. QED
  BY <1>2, <1>3, <1>4, <1>5, <1>6

(* Every step keeps what is known of L2 and L3. *)
LEMMA BalanceNext ==
    ASSUME BalanceInv, [Next]_vars
    PROVE  BalanceInv'
<1>1. RowsInv /\ RowsTraced /\ AffectedOK /\ SyncOK
  BY DEF BalanceInv
<1>2. RowsInv'
  BY <1>1, RowsNext
<1>3. TypeOK'
  BY <1>2, L3Type DEF TypeOK, RowsInv
<1>4. RowsTraced' /\ AffectedOK' /\ SyncOK'
  <2>1. CASE \E s \in Slots : \/ StartFull(s) \/ StartTail(s) \/ StartBridge(s)
                              \/ \E from \in 0 .. MaxSlot - 1 : StartCloseTombstones(from, s)
    BY <1>1, <2>1, TracedStart, SyncStart
  <2>2. CASE WriteRows
    BY <1>1, <2>2, TracedWriteRows, SyncWriteRows
  <2>3. CASE WriteTombstones
    BY <1>1, <2>3, TracedWriteTombstones, SyncWriteTombstones
  <2>4. CASE RowsFail \/ TombstonesFail \/ RefreshFails \/ CheckpointFails
    BY <1>1, <2>4, TracedFailures, SyncFailures
  <2>5. CASE Refresh
    BY <1>1, <2>5, TracedOthers, SyncRefresh
  <2>6. CASE Checkpoint
    BY <1>1, <2>6, TracedOthers, SyncCheckpoint
  <2>7. CASE RebuildHot
    <3>1. SyncOK'
      BY <1>1, <2>7, RebuiltInSync DEF SyncOK
    <3>. QED
      BY <1>1, <2>7, <3>1, TracedOthers
  <2>8. CASE Merge
    BY <1>1, <2>8, TracedOthers, SyncMerge
  <2>9. CASE UNCHANGED vars
    <3>1. SyncOK'
      BY <1>1, <2>9 DEF vars, history, SyncOK, InSync, Mixed, Had, IsHot, Unsettled, InWork,
                        PairsOf, Final, NewestOf
    <3>. QED
      BY <1>1, <2>9, <3>1, TracedOthers
  <2>. QED
    BY <2>1, <2>2, <2>3, <2>4, <2>5, <2>6, <2>7, <2>8, <2>9 DEF Next
<1>. QED
  BY <1>1, <1>2, <1>3, <1>4 DEF BalanceInv

(* It holds of empty tables. *)
LEMMA BalanceInit == Init => BalanceInv
<1>. SUFFICES ASSUME Init
              PROVE  BalanceInv
  OBVIOUS
<1>1. RowsInv
  BY RowsInit
<1>2. TypeOK
  BY <1>1 DEF RowsInv, TypeOK, Init
<1>3. RowsTraced /\ AffectedOK /\ SyncOK
  BY DEF Init, RowsTraced, AffectedOK, SyncOK
<1>. QED
  BY <1>1, <1>2, <1>3 DEF BalanceInv

(* The inductive invariant of L3: a pair of which L3 and L2 differ after    *)
(* every refresh has a row of L2 that says why.                             *)
THEOREM BalanceInvHolds == Spec => []BalanceInv
<1>1. BalanceInv /\ [Next]_vars => BalanceInv'
  BY BalanceNext
<1>. QED
  BY BalanceInit, <1>1, PTL DEF Spec

(* All tables keep their types; in particular every balance of L3 is a      *)
(* natural number with a slot of the ledger.                                *)
THEOREM TablesTyped == Spec => []TypeOK
<1>1. BalanceInv => TypeOK
  BY DEF BalanceInv
<1>. QED
  BY BalanceInvHolds, <1>1, PTL

(* When imports have caught up, the rows FINAL has of a traceable pair add *)
(* up to what the ledger says its addresses hold.                           *)
LEMMA RowsAddUp ==
    ASSUME BalanceInv, CaughtUp, NEW p \in HotPairs, Traceable(p)
    PROVE  AmountSum(PairRows(Final(l2), p))
             = MapThenSumSet(LAMBDA a : HoldsOf(a, p), Accounts)
<1>. DEFINE g == [a \in Accounts |-> HoldsOf(a, p)]
<1>1. /\ RowsInv /\ RowsTraced /\ wm = seen /\ wm \in Nat /\ wm \in 0 .. MaxSlot /\ wm # None
  BY HotAssumption DEF BalanceInv, CaughtUp, RowsInv, RowTypes, Slots
<1>2. PICK t : t = l2
  OBVIOUS
<1>. DEFINE rs == PairRows(Final(t), p)
<1>3. ASSUME NEW r \in rs
      PROVE  /\ r \in l2 /\ r \in Final(t) /\ r.pair = p /\ r \in Rows /\ Honest(r)
             /\ r.acc \in Accounts /\ r.amount \in Nat /\ r.acc \notin unseen
  <2>1. r \in l2 /\ r \in Final(t) /\ r.pair = p
    BY <1>2 DEF PairRows, Final, NewestOf
  <2>2. Honest(r) /\ r \in Rows
    BY <1>1, <2>1, RowsHonest DEF Honest
  <2>3. r.acc \in Accounts /\ r.amount \in Nat /\ r.slot \in Nat /\ r.slot <= wm
    <3>1. \A n \in Amounts \cup {0} : n \in Nat
      BY HotAssumption
    <3>. QED
      BY <1>1, <2>2, <3>1, HotAssumption DEF Rows, Slots, Honest
  <2>4. Had(r.acc, p, wm)
    BY <1>1, <2>1, <2>2, <2>3, HadLater DEF Honest
  <2>. QED
    BY <2>1, <2>2, <2>3, <2>4 DEF Traceable
<1>4. \A r, q \in rs : r.acc = q.acc => r = q
  <2>1. \A r \in t : r \in Rows /\ RowTrue(r)
    BY <1>1, <1>2, RowsHonest DEF Honest
  <2>. HIDE DEF rs
  <2>. QED
    BY <1>3, <2>1, OneRow
<1>5. ASSUME NEW r \in rs
      PROVE  g[r.acc] = r.amount
  <2>1. {q \in rs : q.acc = r.acc} = {r}
    BY <1>4
  <2>2. AmountSum({r}) = HoldsOf(r.acc, p)
    <3>1. r.acc \in Accounts \ unseen
      BY <1>3
    <3>2. AmountSum({q \in PairRows(Final(l2), p) : q.acc = r.acc}) = HoldsOf(r.acc, p)
      BY <1>1, <3>1, ExactWhenCaughtUp
    <3>. QED
      BY <1>2, <2>1, <3>2
  <2>3. r.amount \in Nat /\ r.acc \in Accounts
    BY <1>3
  <2>. HIDE DEF rs
  <2>. QED
    BY <2>2, <2>3, SingleSum
<1>6. ASSUME NEW a \in Accounts, \A r \in rs : r.acc # a
      PROVE  g[a] = 0
  <2>1. CASE a \notin unseen
    <3>1. AmountSum({q \in PairRows(Final(l2), p) : q.acc = a}) = HoldsOf(a, p)
      BY <1>1, <2>1, ExactWhenCaughtUp
    <3>2. {q \in PairRows(Final(l2), p) : q.acc = a} = {}
      BY <1>2, <1>6
    <3>. QED
      BY <3>1, <3>2, EmptySum
  <2>2. CASE a \in unseen
    <3>1. ~IsHot(ledger[wm][a])
      BY <1>1, <2>2 DEF RowsInv, WatermarkOK
    <3>. QED
      BY <3>1 DEF HoldsOf, IsHot
  <2>. QED
    BY <2>1, <2>2
<1>7. PICK h : /\ Sums(g, Accounts, h)
               /\ MapThenSumSet(LAMBDA a : HoldsOf(a, p), Accounts) = h[Accounts]
  BY HoldingSums
<1>8. \A r \in rs : r.acc \in Accounts /\ r.amount \in Nat
  BY <1>3
<1>9. AmountSum(rs) = h[Accounts]
  <2>1. PICK k : k = g
    OBVIOUS
  <2>2. /\ \A r \in rs : k[r.acc] = r.amount
        /\ \A a \in Accounts : (\A r \in rs : r.acc # a) => k[a] = 0
        /\ Sums(k, Accounts, h)
    BY <1>5, <1>6, <1>7, <2>1
  <2>. HIDE DEF rs, g
  <2>. QED
    BY <1>4, <1>8, <2>2, SumByAddress
<1>. QED
  BY <1>2, <1>7, <1>9

(* L3 serves the true balance of every pair but the excepted ones, for      *)
(* every history: however imports fail and repeat, whatever they read again *)
(* and whenever tombstones are repaired, indexes rebuilt or parts merged.   *)
THEOREM BalancesAreExact == Spec => []BalancesExact
<1>1. ASSUME BalanceInv, CaughtUp, NEW p \in HotPairs \ (dropped \cup overtaken), Traceable(p)
      PROVE  ServesTruth(p)
  <2>1. pc = "idle" /\ wm # None /\ wm = seen
    BY <1>1 DEF CaughtUp
  <2>2. InSync(p) \/ Mixed(p, seen) \/ Unsettled(p)
    BY <1>1, <2>1 DEF BalanceInv, SyncOK, InWork
  <2>3. ~Mixed(p, seen)
    BY <1>1, <2>1 DEF Traceable
  <2>4. ~Unsettled(p)
    <3>1. SUFFICES ASSUME NEW r \in Final(l2), r.pair = p, r.slot > wm \/ r.acc \in unseen
                   PROVE  FALSE
      BY DEF Unsettled
    <3>2. r \in l2
      BY DEF Final, NewestOf
    <3>3. Honest(r)
      BY <1>1, <3>2, RowsHonest DEF BalanceInv
    <3>4. r.slot \in Nat /\ wm \in Nat /\ r.slot <= wm
      BY <1>1, <2>1, <3>3, HotAssumption DEF Honest, Rows, Slots, BalanceInv, RowsInv, RowTypes
    <3>5. Had(r.acc, p, wm)
      BY <3>1, <3>3, <3>4, HadLater DEF Honest
    <3>. QED
      BY <1>1, <3>1, <3>4, <3>5 DEF Traceable
  <2>5. InSync(p)
    BY <2>2, <2>3, <2>4
  <2>. QED
    BY <1>1, <2>5, RowsAddUp DEF InSync, ServesTruth
<1>2. BalanceInv => BalancesExact
  BY <1>1 DEF BalancesExact
<1>. QED
  BY BalanceInvHolds, <1>2, PTL
=============================================================================

-------------------------- MODULE ConfigStoreProofs --------------------------
(***************************************************************************)
(* For every set of admins, resources and imports: requests are served     *)
(* with a valid configuration, which is the database's whenever no apply   *)
(* is between its commit and its end, a change takes effect at most once   *)
(* and in the order of staging, and the store implements the register of   *)
(* ConfigRegister.                                                         *)
(***************************************************************************)
EXTENDS ConfigStore, SequenceTheorems, FiniteSetTheorems, WellFoundedInduction, TLAPS

Phases == {"idle", "listed", "committed", "loaded"}

\* applyMu protects an apply from its list to its end.
MutexInv ==
    /\ phase \in [Admins -> Phases]
    /\ DOMAIN loaded = Admins
    /\ \A a \in Admins : phase[a] # "idle" => applyMu = a /\ running

\* What an apply has loaded is what the database still holds.
LoadedInv == \A a \in Admins : phase[a] = "loaded" => Loadable /\ loaded[a] = tables

IInv ==
    /\ MutexInv /\ LoadedInv /\ running \in BOOLEAN /\ missed \in BOOLEAN
    /\ ActiveIsValid /\ InSync

\* The ids that were given out, those that took effect, and those that wait:
\* what waits was staged after all that took effect, and what an apply has
\* listed comes before what was staged meanwhile.
After(ids, s) == \A i \in DOMAIN s : \A id \in ids : s[i] < id

Increasing(s) == \A i, j \in DOMAIN s : i < j => s[i] < s[j]

OrderInv ==
    /\ seeded \in BOOLEAN
    /\ DOMAIN tables = DOMAIN EmptyTables
    /\ applyMu \in Admins \cup {NoAdmin}
    /\ \A a \in Admins : phase[a] = "idle" => applyMu # a
    /\ nextId \in 1 .. MaxChanges + 1
    /\ DOMAIN pending \subseteq 1 .. nextId - 1
    /\ effects \in Seq(1 .. nextId - 1)
    /\ Increasing(effects)
    /\ After(DOMAIN pending, effects)
    /\ DOMAIN batch = Admins
    /\ \A a \in Admins : phase[a] = "listed" =>
         /\ DOMAIN batch[a] \subseteq 1 .. nextId - 1
         /\ After(DOMAIN batch[a], effects)
         /\ \A id \in DOMAIN pending \ DOMAIN batch[a] : \A d \in DOMAIN batch[a] : d < id

-----------------------------------------------------------------------------
(* Induction, sorting, and the ids of a batch in their order.              *)

LEMMA LessOnNat == \A x, y \in Nat : <<x, y>> \in OpToRel(<, Nat) <=> x < y
BY DEF OpToRel

\* A set of naturals with 0 and all successors of its elements has all: there
\* is no least one among the others.
LEMMA Induction ==
    ASSUME NEW S \in SUBSET Nat, 0 \in S, \A n \in S : n + 1 \in S
    PROVE  S = Nat
<1> DEFINE Less == OpToRel(<, Nat)
           Rest == Nat \ S
<1>1. IsWellFoundedOn(Less, Nat)
  BY NatLessThanWellFounded
<1>2. \A x, y \in Nat : <<x, y>> \in Less <=> x < y
  BY LessOnNat
<1> HIDE DEF Less
<1>3. Rest # {} => \E n \in Rest : \A m \in Rest : ~ (<<m, n>> \in Less)
  <2> HIDE DEF Rest
  <2>1. Rest \subseteq Nat
    BY DEF Rest
  <2> QED
    BY <1>1, <2>1, WFMin
<1>4. ASSUME NEW n \in Rest PROVE n # 0 /\ n - 1 \in Rest /\ n - 1 < n
  BY <1>4
<1> QED
  BY <1>2, <1>3, <1>4

\* The same up to a bound.
LEMMA InductionUpTo ==
    ASSUME NEW m \in Nat, NEW S, 0 \in S, \A n \in 1 .. m : n - 1 \in S => n \in S
    PROVE  0 .. m \subseteq S
<1> DEFINE Good == { n \in Nat : n <= m => n \in S }
<1>1. Good \in SUBSET Nat /\ 0 \in Good /\ \A n \in Good : n + 1 \in Good
  <2>1. ASSUME NEW n \in Good PROVE n + 1 \in Good
    <3>1. CASE n + 1 <= m
      <4>1. n + 1 \in 1 .. m /\ (n + 1) - 1 = n /\ n \in S
        BY <3>1
      <4> QED
        BY <4>1
    <3> QED
      BY <3>1
  <2> QED
    BY <2>1
<1>2. Good = Nat
  <2> HIDE DEF Good
  <2> QED BY <1>1, Induction
<1> QED
  BY <1>2

\* A set of pairs that orders a set strictly.
Orders(R, S) ==
    /\ \A x \in S : <<x, x>> \notin R
    /\ \A x, y \in S : x # y => <<x, y>> \in R \/ <<y, x>> \in R
    /\ \A x, y, z \in S : <<x, y>> \in R /\ <<y, z>> \in R => <<x, z>> \in R

SortedBy(s, S, R) ==
    /\ s \in [1 .. Cardinality(S) -> S]
    /\ \A x \in S : \E i \in 1 .. Cardinality(S) : s[i] = x
    /\ \A i, j \in 1 .. Cardinality(S) : i < j => <<s[i], s[j]>> \in R

\* A finite set has such a sequence: the place of an element is the number of
\* those that are not after it.
LEMMA SortedExists ==
    ASSUME NEW S, IsFiniteSet(S), NEW R, Orders(R, S)
    PROVE  \E s : SortedBy(s, S, R)
<1> DEFINE n == Cardinality(S)
           upTo(x) == { y \in S : <<y, x>> \in R \/ y = x }
           place == [x \in S |-> Cardinality(upTo(x))]
<1>1. n \in Nat
  BY FS_CardinalityType
<1>2. ASSUME NEW x \in S
      PROVE  IsFiniteSet(upTo(x)) /\ place[x] = Cardinality(upTo(x)) /\ place[x] \in 1 .. n
  <2>1. upTo(x) \in SUBSET S
    OBVIOUS
  <2>2. IsFiniteSet(upTo(x)) /\ Cardinality(upTo(x)) <= n
    <3> HIDE DEF upTo
    <3> QED BY <2>1, FS_Subset
  <2>3. Cardinality(upTo(x)) \in Nat
    <3> HIDE DEF upTo
    <3> QED BY <2>2, FS_CardinalityType
  <2>4. Cardinality(upTo(x)) # 0
    <3>1. x \in upTo(x)
      OBVIOUS
    <3> HIDE DEF upTo
    <3> QED BY <2>2, <3>1, FS_EmptySet
  <2>5. place[x] = Cardinality(upTo(x))
    OBVIOUS
  <2> HIDE DEF upTo, place
  <2> QED BY <1>1, <2>2, <2>3, <2>4, <2>5
<1>3. ASSUME NEW x \in S, NEW y \in S, <<x, y>> \in R PROVE place[x] < place[y]
  <2>1. upTo(x) \subseteq upTo(y) /\ y \in upTo(y) /\ y \notin upTo(x)
    BY <1>3 DEF Orders
  <2>2. IsFiniteSet(upTo(y)) /\ upTo(x) # upTo(y) /\ upTo(x) \in SUBSET upTo(y)
    BY <1>2, <2>1
  <2>3. Cardinality(upTo(x)) <= Cardinality(upTo(y)) /\ Cardinality(upTo(x)) # Cardinality(upTo(y))
    <3> HIDE DEF upTo
    <3> QED BY <2>2, FS_Subset
  <2>4. /\ place[x] = Cardinality(upTo(x)) /\ place[y] = Cardinality(upTo(y))
        /\ place[x] \in 1 .. n /\ place[y] \in 1 .. n
    BY <1>2
  <2> HIDE DEF upTo, place
  <2> QED BY <1>1, <2>3, <2>4
<1>4. place \in Injection(S, 1 .. n)
  <2>1. place \in [S -> 1 .. n]
    BY <1>2
  <2>2. ASSUME NEW x \in S, NEW y \in S, place[x] = place[y] PROVE x = y
    <3>1. place[x] \in 1 .. n /\ place[y] \in 1 .. n
      BY <1>2
    <3> HIDE DEF place
    <3>2. ~ (place[x] < place[y]) /\ ~ (place[y] < place[x])
      BY <1>1, <2>2, <3>1
    <3> QED BY <1>3, <3>2 DEF Orders
  <2> HIDE DEF place
  <2> QED BY <2>1, <2>2 DEF Injection, IsInjective
<1>5. place \in Surjection(S, 1 .. n)
  <2>1. IsFiniteSet(1 .. n) /\ Cardinality(1 .. n) = n
    BY <1>1, FS_Interval
  <2> HIDE DEF place, n
  <2> QED BY <1>4, <2>1, FS_Injection DEF n
<1>6. \A i \in 1 .. n : \E x \in S : place[x] = i
  <2> HIDE DEF place
  <2> QED BY <1>5 DEF Surjection
<1> DEFINE s == [i \in 1 .. n |-> CHOOSE x \in S : place[x] = i]
<1> HIDE DEF place
<1>7. \A i \in 1 .. n : s[i] \in S /\ place[s[i]] = i
  BY <1>6
<1>8. s \in [1 .. n -> S]
  BY <1>7
<1> HIDE DEF s
<1>9. \A x \in S : \E i \in 1 .. n : s[i] = x
  <2> TAKE x \in S
  <2>1. place[x] \in 1 .. n
    BY <1>2
  <2>2. s[place[x]] \in S /\ place[s[place[x]]] = place[x]
    BY <1>7, <2>1
  <2>3. s[place[x]] = x
    <3> HIDE DEF n
    <3> QED BY <1>4, <2>2 DEF Injection, IsInjective
  <2> QED BY <2>1, <2>3
<1>10. ASSUME NEW i \in 1 .. n, NEW j \in 1 .. n, i < j PROVE <<s[i], s[j]>> \in R
  <2>1. s[i] \in S /\ s[j] \in S /\ place[s[i]] = i /\ place[s[j]] = j
    BY <1>7
  <2>2. s[i] # s[j] /\ ~ (place[s[j]] < place[s[i]])
    BY <1>1, <1>10, <2>1
  <2> QED BY <1>3, <2>1, <2>2 DEF Orders
<1> QED
  BY <1>8, <1>9, <1>10 DEF SortedBy

\* InOrder: every id of the set, each once, the smaller one first.
IsInOrder(s, ids) ==
    /\ s \in [1 .. Cardinality(ids) -> ids]
    /\ \A id \in ids : \E i \in 1 .. Cardinality(ids) : s[i] = id
    /\ \A i, j \in 1 .. Cardinality(ids) : i < j => s[i] < s[j]

LEMMA IdsInOrder ==
    ASSUME NEW m \in Int, NEW ids \in SUBSET (1 .. m)
    PROVE  /\ InOrder(ids) \in Seq(ids)
           /\ Cardinality(ids) \in Nat
           /\ Len(InOrder(ids)) = Cardinality(ids)
           /\ Increasing(InOrder(ids))
<1>1. IsFiniteSet(ids) /\ Cardinality(ids) \in Nat
  <2>1. IsFiniteSet(1 .. m)
    BY FS_Interval
  <2>2. IsFiniteSet(ids)
    BY <2>1, FS_Subset
  <2> QED BY <2>2, FS_CardinalityType
<1> DEFINE R == { p \in ids \X ids : p[1] < p[2] }
<1>2. \A x, y \in ids : <<x, y>> \in R <=> x < y
  OBVIOUS
<1>3. Orders(R, ids)
  <2> HIDE DEF R
  <2> QED BY <1>2 DEF Orders
<1>4. \E s : IsInOrder(s, ids)
  <2> HIDE DEF R
  <2>1. PICK s : SortedBy(s, ids, R)
    BY <1>1, <1>3, SortedExists
  <2>2. IsInOrder(s, ids)
    BY <1>2, <2>1 DEF SortedBy, IsInOrder
  <2> QED BY <2>2
<1>5. InOrder(ids) = CHOOSE s \in [1 .. Cardinality(ids) -> ids] :
        /\ \A id \in ids : \E i \in 1 .. Cardinality(ids) : s[i] = id
        /\ \A i, j \in 1 .. Cardinality(ids) : i < j => s[i] < s[j]
  BY DEF InOrder
<1>6. IsInOrder(InOrder(ids), ids)
  BY <1>4, <1>5 DEF IsInOrder
<1> DEFINE s == InOrder(ids)
<1> HIDE DEF s
<1>7. s \in [1 .. Cardinality(ids) -> ids] /\ IsInOrder(s, ids)
  BY <1>6 DEF s, IsInOrder
<1>8. s \in Seq(ids) /\ Len(s) = Cardinality(ids)
  BY <1>1, <1>7
<1>9. Increasing(s)
  BY <1>7 DEF Increasing, IsInOrder
<1> QED
  BY <1>1, <1>8, <1>9 DEF s

LEMMA LargerSet == ASSUME NEW A, NEW B, A \subseteq B, NEW s \in Seq(A) PROVE s \in Seq(B)
<1>1. Len(s) \in Nat /\ s \in [1 .. Len(s) -> A]
  OBVIOUS
<1>2. s \in [1 .. Len(s) -> B]
  BY <1>1
<1> QED BY <1>1, <1>2

\* What takes effect after all that did so keeps the order, and comes before
\* what was staged after it.
LEMMA Extended ==
    ASSUME NEW m \in Int, NEW s \in Seq(1 .. m), NEW ids \in SUBSET (1 .. m), NEW t \in Seq(ids),
           Increasing(s), Increasing(t), After(ids, s),
           NEW rest \in SUBSET Int, After(rest, s), \A id \in rest : \A d \in ids : d < id
    PROVE  s \o t \in Seq(1 .. m) /\ Increasing(s \o t) /\ After(rest, s \o t)
<1>1. t \in Seq(1 .. m) /\ s \o t \in Seq(1 .. m) /\ Len(s) \in Nat /\ Len(t) \in Nat
  <2>1. t \in Seq(1 .. m)
    BY LargerSet
  <2> QED BY <2>1
<1>2. Len(s \o t) = Len(s) + Len(t)
  BY <1>1
<1>3. \A i \in 1 .. Len(s) + Len(t) : (s \o t)[i] = IF i <= Len(s) THEN s[i] ELSE t[i - Len(s)]
  BY <1>1
<1> DEFINE u == s \o t
<1>4. DOMAIN u = 1 .. Len(s) + Len(t) /\ DOMAIN s = 1 .. Len(s) /\ DOMAIN t = 1 .. Len(t)
  BY <1>1, <1>2
<1>5. /\ \A i \in 1 .. Len(s) + Len(t) : u[i] = IF i <= Len(s) THEN s[i] ELSE t[i - Len(s)]
      /\ \A i \in 1 .. Len(s) : s[i] \in Int
      /\ \A i \in 1 .. Len(t) : t[i] \in ids /\ t[i] \in Int
  <2>1. \A i \in 1 .. Len(t) : t[i] \in ids
    BY <1>4
  <2>2. \A i \in 1 .. Len(s) : s[i] \in Int
    BY <1>4
  <2>3. \A i \in 1 .. Len(t) : t[i] \in Int
    <3>1. \A d \in ids : d \in Int
      OBVIOUS
    <3> QED BY <2>1, <3>1
  <2>4. \A i \in 1 .. Len(s) + Len(t) : u[i] = IF i <= Len(s) THEN s[i] ELSE t[i - Len(s)]
    BY <1>3
  <2> HIDE DEF u
  <2> QED BY <2>1, <2>2, <2>3, <2>4
<1> HIDE DEF u
<1>6. ASSUME NEW i \in DOMAIN u, NEW j \in DOMAIN u, i < j PROVE u[i] < u[j]
  <2>1. CASE j <= Len(s)
    BY <1>1, <1>4, <1>5, <1>6, <2>1 DEF Increasing
  <2>2. CASE i <= Len(s) /\ ~ (j <= Len(s))
    <3>1. i \in DOMAIN s /\ j - Len(s) \in 1 .. Len(t)
      BY <1>1, <1>4, <2>2
    <3>2. u[i] = s[i] /\ u[j] = t[j - Len(s)] /\ t[j - Len(s)] \in ids
      BY <1>1, <1>4, <1>5, <2>2, <3>1
    <3> QED BY <3>1, <3>2 DEF After
  <2>3. CASE ~ (i <= Len(s))
    <3>1. i - Len(s) \in DOMAIN t /\ j - Len(s) \in DOMAIN t /\ i - Len(s) < j - Len(s)
      BY <1>1, <1>4, <1>6, <2>3
    <3>2. u[i] = t[i - Len(s)] /\ u[j] = t[j - Len(s)]
      BY <1>1, <1>4, <1>5, <1>6, <2>3, SMTT(40)
    <3> QED BY <3>1, <3>2 DEF Increasing
  <2> QED BY <1>1, <1>4, <2>1, <2>2, <2>3
<1>7. ASSUME NEW i \in DOMAIN u, NEW id \in rest PROVE u[i] < id
  <2>1. CASE i <= Len(s)
    BY <1>1, <1>4, <1>5, <2>1 DEF After
  <2>2. CASE ~ (i <= Len(s))
    <3>1. i - Len(s) \in 1 .. Len(t)
      BY <1>1, <1>4, <2>2
    <3>2. u[i] = t[i - Len(s)] /\ t[i - Len(s)] \in ids
      BY <1>1, <1>4, <1>5, <2>2, <3>1
    <3> QED BY <3>2
  <2> QED BY <1>1, <1>4, <2>1, <2>2
<1> QED
  BY <1>1, <1>6, <1>7 DEF u, Increasing, After

\* A batch changes tables, it adds and drops none.
LEMMA ChangeKeepsTables ==
    ASSUME NEW t, NEW change PROVE DOMAIN ApplyChange(t, change) = DOMAIN t
BY DEF ApplyChange

IsAfter(f, t, b, ids) ==
    f = [n \in 0 .. Cardinality(DOMAIN b) |->
            IF n = 0 THEN t ELSE ApplyChange(f[n - 1], b[ids[n]])]

LEMMA AfterExists ==
    ASSUME NEW t, NEW b, NEW ids, Cardinality(DOMAIN b) \in Nat
    PROVE  \E f : IsAfter(f, t, b, ids)
<1> DEFINE m == Cardinality(DOMAIN b)
           Upto(k, f) == f = [n \in 0 .. k |->
                                IF n = 0 THEN t ELSE ApplyChange(f[n - 1], b[ids[n]])]
           Good == { k \in Nat : \E f : Upto(k, f) }
<1>1. 0 \in Good
  <2> DEFINE f == [n \in 0 .. 0 |-> t]
  <2>1. Upto(0, f)
    OBVIOUS
  <2> HIDE DEF Upto
  <2> QED BY <2>1
<1>2. ASSUME NEW k \in 1 .. m, k - 1 \in Good PROVE k \in Good
  <2>1. PICK f : Upto(k - 1, f)
    BY <1>2
  <2> DEFINE g == [n \in 0 .. k |-> IF n = k THEN ApplyChange(f[k - 1], b[ids[k]]) ELSE f[n]]
  <2>2. \A n \in 0 .. k - 1 : g[n] = f[n]
    OBVIOUS
  <2>3. g[k] = ApplyChange(f[k - 1], b[ids[k]]) /\ g[k - 1] = f[k - 1]
    OBVIOUS
  <2>4. g = [n \in 0 .. k |-> g[n]]
    OBVIOUS
  <2> HIDE DEF g
  <2>5. ASSUME NEW n \in 0 .. k
        PROVE  g[n] = IF n = 0 THEN t ELSE ApplyChange(g[n - 1], b[ids[n]])
    <3>1. CASE n = k
      BY <2>3, <3>1
    <3>2. CASE n # k
      <4>1. n \in 0 .. k - 1 /\ (n # 0 => n - 1 \in 0 .. k - 1)
        BY <3>2
      <4>2. f[n] = IF n = 0 THEN t ELSE ApplyChange(f[n - 1], b[ids[n]])
        BY <2>1, <4>1
      <4> QED BY <2>2, <4>1, <4>2
    <3> QED BY <3>1, <3>2
  <2>6. Upto(k, g)
    BY <2>4, <2>5
  <2>7. k \in Nat
    OBVIOUS
  <2> HIDE DEF Upto
  <2> QED BY <2>6, <2>7
<1>3. m \in Good
  <2> HIDE DEF Good
  <2>1. 0 .. m \subseteq Good
    BY <1>1, <1>2, InductionUpTo
  <2> QED BY <2>1
<1> QED
  BY <1>3 DEF IsAfter

LEMMA BatchKeepsTables ==
    ASSUME NEW t, NEW b, Cardinality(DOMAIN b) \in Nat
    PROVE  DOMAIN AppliedTo(t, b) = DOMAIN t
<1> DEFINE ids == InOrder(DOMAIN b)
           m == Cardinality(DOMAIN b)
           after == CHOOSE f : f = [n \in 0 .. m |->
                                     IF n = 0 THEN t ELSE ApplyChange(f[n - 1], b[ids[n]])]
<1>1. AppliedTo(t, b) = after[m]
  BY DEF AppliedTo
<1> HIDE DEF ids
<1>2. \E f : IsAfter(f, t, b, ids)
  BY AfterExists
<1>3. after = [n \in 0 .. m |-> IF n = 0 THEN t ELSE ApplyChange(after[n - 1], b[ids[n]])]
  BY <1>2 DEF IsAfter
<1> HIDE DEF after
<1> DEFINE Good == { n \in 0 .. m : DOMAIN after[n] = DOMAIN t }
<1>4. 0 \in Good
  BY <1>3
<1>5. ASSUME NEW n \in 1 .. m, n - 1 \in Good PROVE n \in Good
  <2>1. after[n] = ApplyChange(after[n - 1], b[ids[n]])
    BY <1>3
  <2>2. DOMAIN after[n] = DOMAIN after[n - 1]
    BY <2>1, ChangeKeepsTables
  <2> QED BY <1>5, <2>2
<1>6. m \in Good
  <2> HIDE DEF Good
  <2>1. 0 .. m \subseteq Good
    BY <1>4, <1>5, InductionUpTo
  <2> QED BY <2>1
<1> QED BY <1>1, <1>6

-----------------------------------------------------------------------------
\* The database holds a valid configuration when it can be loaded.
LEMMA LoadableIsValid == Loadable => Valid(Stored) /\ Stored = tables
BY DEF Loadable, Stored

\* The steps that only stage, decide or discard change nothing that the
\* invariant is about.
LEMMA ManageStutters ==
    ASSUME NEW a \in Admins, Manage(a)
    PROVE  UNCHANGED <<running, seeded, tables, active, missed, phase, applyMu, batch, loaded>>
BY DEF Manage, PutProvider, PatchProvider, DeleteProvider, PutModel, DeleteModel, PutOffer,
       DeleteOffer, PutRoute, DeleteRoute, Import, Decide, StageChange, StageFails, Discard,
       dbVars, applyVars

-----------------------------------------------------------------------------
LEMMA InitInv == Init => IInv
BY ConstantsAssumption
DEF Init, IInv, MutexInv, LoadedInv, ActiveIsValid, InSync, Phases

LEMMA NextInv == IInv /\ [Next]_vars => IInv'
<1> SUFFICES ASSUME IInv, [Next]_vars PROVE IInv'
    OBVIOUS
<1> USE DEF IInv, MutexInv, LoadedInv, ActiveIsValid, InSync, Loadable
<1>1. CASE Boot
    BY <1>1, ConstantsAssumption DEF Boot, dbVars, applyVars, Valid, Phases
<1>2. CASE Crash
    BY <1>2 DEF Crash, dbVars, Valid, Phases
<1>3. ASSUME NEW a \in Admins, Manage(a) PROVE IInv'
    BY <1>3, ManageStutters DEF Valid
<1>4. ASSUME NEW a \in Admins, Apply(a) PROVE IInv'
  <2>1. CASE ApplyLock(a)
      BY <2>1, ConstantsAssumption DEF ApplyLock, dbVars, Valid, Phases
  <2>2. CASE ApplyAbort(a)
      BY <2>2 DEF ApplyAbort, Unlock, dbVars, Valid, Phases
  <2>3. CASE ApplyCommit(a)
      BY <2>3 DEF ApplyCommit, Valid, Phases
  <2>4. CASE Load(a)
      BY <2>4 DEF Load, dbVars, Valid, Phases
  <2>5. CASE LoadFails(a)
      BY <2>5 DEF LoadFails, Unlock, dbVars, Valid, Phases
  <2>6. CASE ReloadFails(a)
      BY <2>6 DEF ReloadFails, Unlock, dbVars, Valid, Phases
  <2>7. CASE Publish(a)
      BY <2>7 DEF Publish, Unlock, dbVars, Valid, Phases
  <2> QED BY <1>4, <2>1, <2>2, <2>3, <2>4, <2>5, <2>6, <2>7 DEF Apply
<1>5. CASE UNCHANGED vars
    BY <1>5 DEF vars, dbVars, applyVars, Valid
<1> QED BY <1>1, <1>2, <1>3, <1>4, <1>5 DEF Next

LEMMA Inductive == Spec => []IInv
BY InitInv, NextInv, PTL DEF Spec

-----------------------------------------------------------------------------
(* The order in which changes take effect.                                 *)

LEMMA OrderInit == Init => OrderInv
<1> SUFFICES ASSUME Init PROVE OrderInv
  OBVIOUS
<1>1. DOMAIN tables = DOMAIN EmptyTables /\ DOMAIN pending = {}
  BY ConstantsAssumption DEF Init, None
<1>2. effects = <<>> /\ nextId = 1 /\ MaxChanges \in Nat
  BY ConstantsAssumption DEF Init
<1>3. effects \in Seq(1 .. nextId - 1) /\ DOMAIN effects = {} /\ nextId \in 1 .. MaxChanges + 1
  BY <1>2
<1>4. /\ seeded \in BOOLEAN /\ applyMu = NoAdmin /\ DOMAIN batch = Admins
      /\ \A a \in Admins : phase[a] = "idle"
  BY DEF Init
<1> QED
  BY <1>1, <1>3, <1>4, ConstantsAssumption DEF OrderInv, Increasing, After

\* A step that leaves the ids alone, and lists nothing.
LEMMA OrderKept ==
    ASSUME OrderInv, UNCHANGED <<seeded, tables, pending, nextId, effects>>,
           applyMu' \in Admins \cup {NoAdmin}, DOMAIN batch' = Admins,
           \A a \in Admins : phase'[a] = "idle" => applyMu' # a,
           \A a \in Admins : phase'[a] = "listed" => phase[a] = "listed" /\ batch'[a] = batch[a]
    PROVE  OrderInv'
BY DEF OrderInv, Increasing, After

\* A batch is listed: it is what is pending.
LEMMA OrderLocked ==
    ASSUME MutexInv, OrderInv, NEW a \in Admins, ApplyLock(a) PROVE OrderInv'
<1>1. /\ UNCHANGED <<seeded, tables, pending, nextId, effects>>
      /\ applyMu' = a /\ DOMAIN batch' = Admins /\ batch'[a] = pending
      /\ phase'[a] = "listed" /\ applyMu = NoAdmin
      /\ \A b \in Admins : b # a => phase'[b] = phase[b]
  BY DEF ApplyLock, dbVars, OrderInv, MutexInv
<1>2. \A b \in Admins : b # a => phase[b] = "idle"
  BY <1>1, ConstantsAssumption DEF MutexInv
<1>3. \A b \in Admins : phase'[b] = "listed" => b = a
  BY <1>1, <1>2
<1>4. \A b \in Admins : phase'[b] = "idle" => applyMu' # b
  BY <1>1
<1> QED
  BY <1>1, <1>3, <1>4 DEF OrderInv, Increasing, After

\* One more change waits, with an id above all.
LEMMA OrderStaged ==
    ASSUME OrderInv, NEW a \in Admins, StageChange(a) PROVE OrderInv'
<1>1. /\ UNCHANGED <<seeded, tables, effects, applyMu, phase, batch>>
      /\ nextId' = nextId + 1 /\ nextId <= MaxChanges
      /\ DOMAIN pending' = DOMAIN pending \cup {nextId}
  BY DEF StageChange, With, applyVars
<1>2. /\ MaxChanges \in Nat /\ nextId \in 1 .. MaxChanges + 1
      /\ DOMAIN pending \subseteq 1 .. nextId - 1 /\ effects \in Seq(1 .. nextId - 1)
  BY ConstantsAssumption DEF OrderInv
<1>3. /\ nextId' \in 1 .. MaxChanges + 1 /\ 1 .. nextId - 1 \subseteq 1 .. nextId' - 1
      /\ nextId \in 1 .. nextId' - 1 /\ nextId \in Int
      /\ \A i \in 1 .. nextId - 1 : i < nextId
  BY <1>1, <1>2
<1>4. effects \in Seq(1 .. nextId' - 1) /\ \A i \in DOMAIN effects : effects[i] \in 1 .. nextId - 1
  <2>1. Len(effects) \in Nat /\ effects \in [1 .. Len(effects) -> 1 .. nextId - 1]
    BY <1>2
  <2>2. effects \in Seq(1 .. nextId - 1)
    BY <1>2
  <2>3. effects \in Seq(1 .. nextId' - 1)
    BY <1>3, <2>2, LargerSet
  <2> QED BY <2>1, <2>3
<1>5. After(DOMAIN pending \cup {nextId}, effects)
  BY <1>3, <1>4 DEF OrderInv, After
<1>6. ASSUME NEW b \in Admins, phase[b] = "listed"
      PROVE  /\ DOMAIN batch[b] \subseteq 1 .. nextId' - 1
             /\ After(DOMAIN batch[b], effects)
             /\ \A id \in DOMAIN pending' \ DOMAIN batch[b] : \A d \in DOMAIN batch[b] : d < id
  <2>1. /\ DOMAIN batch[b] \subseteq 1 .. nextId - 1
        /\ After(DOMAIN batch[b], effects)
        /\ \A id \in DOMAIN pending \ DOMAIN batch[b] : \A d \in DOMAIN batch[b] : d < id
    BY <1>6 DEF OrderInv
  <2> QED BY <1>1, <1>3, <2>1
<1>7. DOMAIN pending' \subseteq 1 .. nextId' - 1 /\ After(DOMAIN pending', effects)
  BY <1>1, <1>2, <1>3, <1>5
<1> QED
  BY <1>1, <1>3, <1>4, <1>6, <1>7 DEF OrderInv, Increasing, After

\* What was pending is discarded.
LEMMA OrderDiscarded ==
    ASSUME OrderInv, NEW a \in Admins, Discard(a) PROVE OrderInv'
<1>1. UNCHANGED <<seeded, tables, nextId, effects, applyMu, phase, batch>> /\ DOMAIN pending' = {}
  BY DEF Discard, None, applyVars
<1> QED
  BY <1>1 DEF OrderInv, Increasing, After

\* A batch takes effect.
LEMMA OrderCommitted ==
    ASSUME MutexInv, OrderInv, NEW a \in Admins, ApplyCommit(a) PROVE OrderInv'
<1> DEFINE ids == DOMAIN batch[a]
           rest == DOMAIN pending \ ids
           m == nextId - 1
<1>1. /\ UNCHANGED <<seeded, nextId, applyMu, batch>>
      /\ phase[a] = "listed" /\ phase' = [phase EXCEPT ![a] = "committed"]
      /\ tables' = AppliedTo(tables, batch[a])
      /\ effects' = effects \o InOrder(ids)
      /\ DOMAIN pending' = rest
  BY DEF ApplyCommit, Without
<1>2. /\ nextId \in Int /\ m \in Int /\ effects \in Seq(1 .. m) /\ Increasing(effects)
      /\ DOMAIN pending \subseteq 1 .. m
  BY ConstantsAssumption DEF OrderInv
<1>3. /\ ids \in SUBSET (1 .. m) /\ After(ids, effects)
      /\ \A id \in rest : \A d \in ids : d < id
  BY <1>1 DEF OrderInv
<1>4. rest \in SUBSET Int /\ rest \subseteq 1 .. m /\ After(rest, effects)
  BY <1>2 DEF OrderInv, After
<1>5. phase'[a] = "committed" /\ \A b \in Admins : b # a => phase'[b] = "idle"
  BY <1>1, ConstantsAssumption DEF MutexInv
<1>6. \A b \in Admins : phase'[b] = "idle" => applyMu' # b
  BY <1>1, <1>5 DEF MutexInv
<1> HIDE DEF ids, rest, m
<1>7. /\ InOrder(ids) \in Seq(ids) /\ Cardinality(ids) \in Nat /\ Increasing(InOrder(ids))
  BY <1>2, <1>3, IdsInOrder
<1>8. /\ effects' \in Seq(1 .. m) /\ Increasing(effects') /\ After(rest, effects')
  BY <1>1, <1>2, <1>3, <1>4, <1>7, Extended
<1>9. DOMAIN tables' = DOMAIN tables
  BY <1>1, <1>7, BatchKeepsTables DEF ids
<1>10. \A b \in Admins : phase'[b] # "listed"
  BY <1>5
<1>11. Increasing(effects)' /\ After(DOMAIN pending, effects)'
  BY <1>1, <1>8 DEF Increasing, After
<1>12. effects' \in Seq(1 .. nextId' - 1) /\ DOMAIN pending' \subseteq 1 .. nextId' - 1
  BY <1>1, <1>4, <1>8 DEF m
<1> QED
  BY <1>1, <1>6, <1>9, <1>10, <1>11, <1>12 DEF OrderInv

LEMMA OrderNext == IInv /\ OrderInv /\ [Next]_vars => OrderInv'
<1> SUFFICES ASSUME IInv, OrderInv, [Next]_vars PROVE OrderInv'
  OBVIOUS
<1>0. MutexInv /\ applyMu \in Admins \cup {NoAdmin} /\ DOMAIN batch = Admins
  BY DEF IInv, OrderInv
<1>1. CASE Boot
  BY <1>0, <1>1, OrderKept DEF Boot, dbVars, applyVars, OrderInv
<1>2. CASE Crash
  BY <1>0, <1>2, OrderKept, ConstantsAssumption DEF Crash, dbVars
<1>3. ASSUME NEW a \in Admins, Manage(a) PROVE OrderInv'
  <2>1. CASE StageChange(a)
    BY <2>1, OrderStaged
  <2>2. CASE Discard(a)
    BY <2>2, OrderDiscarded
  <2>3. CASE UNCHANGED <<dbVars, applyVars>>
    BY <1>0, <2>3, OrderKept DEF dbVars, applyVars, OrderInv
  <2>4. \/ StageChange(a) \/ Discard(a) \/ UNCHANGED <<dbVars, applyVars>>
    BY <1>3 DEF Manage, PutProvider, PatchProvider, DeleteProvider, PutModel, DeleteModel, PutOffer,
         DeleteOffer, PutRoute, DeleteRoute, Import, Decide, StageFails
  <2> QED BY <2>1, <2>2, <2>3, <2>4
<1>4. ASSUME NEW a \in Admins, Apply(a) PROVE OrderInv'
  <2>1. CASE ApplyLock(a)
    BY <1>0, <2>1, OrderLocked
  <2>2. CASE ApplyCommit(a)
    BY <1>0, <2>2, OrderCommitted
  <2>3. CASE Load(a)
    <3>1. /\ UNCHANGED <<seeded, tables, pending, nextId, effects, applyMu, batch>>
          /\ phase[a] # "idle" /\ phase'[a] = "loaded"
          /\ \A b \in Admins : b # a => phase'[b] = phase[b]
      BY <1>0, <2>3 DEF Load, dbVars, MutexInv
    <3> QED BY <1>0, <3>1, OrderKept DEF OrderInv
  <2>4. CASE ApplyAbort(a) \/ LoadFails(a) \/ ReloadFails(a) \/ Publish(a)
    <3>1. Unlock(a) /\ UNCHANGED dbVars
      BY <2>4 DEF ApplyAbort, LoadFails, ReloadFails, Publish
    <3>2. /\ UNCHANGED <<seeded, tables, pending, nextId, effects>>
          /\ applyMu' = NoAdmin /\ DOMAIN batch' = Admins /\ phase'[a] = "idle"
          /\ \A b \in Admins : b # a => phase'[b] = phase[b] /\ batch'[b] = batch[b]
      BY <1>0, <3>1 DEF Unlock, dbVars, MutexInv
    <3> QED BY <1>0, <3>2, OrderKept, ConstantsAssumption
  <2> QED BY <1>4, <2>1, <2>2, <2>3, <2>4 DEF Apply
<1>5. CASE UNCHANGED vars
  BY <1>0, <1>5, OrderKept DEF vars, dbVars, applyVars, OrderInv
<1> QED BY <1>1, <1>2, <1>3, <1>4, <1>5 DEF Next

LEMMA OrderIsKept == Spec => []OrderInv
BY OrderInit, OrderNext, Inductive, PTL DEF Spec

-----------------------------------------------------------------------------
\* Requests are never served with a configuration that validation refuses:
\* the snapshot is replaced only by what LoadAll has accepted (runtime.go:58-89,
\* sqlite_store.go:560-570), and a restart falls back (app.go:149-191).
THEOREM ServedIsValid == Spec => []ActiveIsValid
BY Inductive, PTL DEF IInv

\* Because applyMu is held from the list to the end of the reload
\* (sqlite_store.go:524-525), no apply publishes over a later one: requests are
\* served with what is stored unless the last load or reload failed, whatever
\* the reason, which :561-569 answers with an error.
THEOREM ServedIsStored == Spec => []InSync
BY Inductive, PTL DEF IInv

\* A change takes effect at most once and in the order of staging
\* (sqlite_store.go:526-558): whatever is pending, or was listed by the holder
\* of applyMu, has a larger id than all that took effect before it.
THEOREM ChangesApplyInOrder == Spec => []AppliedInOrder
<1>1. IInv /\ OrderInv => AppliedInOrder
  <2> SUFFICES ASSUME IInv, OrderInv PROVE AppliedInOrder
    OBVIOUS
  <2>1. Range(effects) \subseteq 1 .. nextId - 1
    <3>1. Len(effects) \in Nat /\ effects \in [1 .. Len(effects) -> 1 .. nextId - 1]
      BY DEF OrderInv
    <3>2. \A i \in DOMAIN effects : effects[i] \in 1 .. nextId - 1
      BY <3>1
    <3> QED BY <3>2 DEF Range
  <2>2. \A a \in Admins : phase[a] = "idle" <=> applyMu # a
    BY DEF IInv, MutexInv, OrderInv
  <2>3. TypeOK
    BY <2>1, <2>2 DEF TypeOK, IInv, MutexInv, OrderInv, Phases
  <2> QED BY <2>3 DEF AppliedInOrder, OrderInv, Increasing
<1> QED BY <1>1, Inductive, OrderIsKept, PTL

\* Every step of the store is a step of the register or leaves it unchanged.
THEOREM Refinement == Spec => ImplementsRegister
<1>1. ASSUME IInv, [Next]_vars
      PROVE  [Register!Next]_Register!vars
  <2> USE DEF IInv, MutexInv, Register!Next, Register!vars
  <2>1. CASE Boot
      BY <2>1, LoadableIsValid DEF Boot, Register!Restart, Stored, dbVars
  <2>2. CASE Crash
      BY <2>2 DEF Crash, Register!Crash, Stored, dbVars
  <2>3. ASSUME NEW a \in Admins, Manage(a)
        PROVE  UNCHANGED <<Stored, active, running>>
      BY <2>3, ManageStutters DEF Stored
  <2>4. ASSUME NEW a \in Admins, Apply(a)
        PROVE  [Register!Next]_Register!vars
    <3>1. CASE ApplyLock(a) \/ ApplyAbort(a) \/ Load(a) \/ LoadFails(a) \/ ReloadFails(a)
        BY <3>1
        DEF ApplyLock, ApplyAbort, Load, LoadFails, ReloadFails, Unlock, dbVars, Stored
    <3>2. CASE ApplyCommit(a)
        BY <1>1, <3>2 DEF ApplyCommit, Register!Write
    <3>3. CASE Publish(a)
        BY <1>1, <3>3 DEF Publish, Unlock, dbVars, LoadedInv, Loadable, Stored, Register!Publish
    <3> QED BY <2>4, <3>1, <3>2, <3>3 DEF Apply
  <2>5. CASE UNCHANGED vars
      BY <2>5 DEF vars, dbVars, Stored
  <2> QED BY <1>1, <2>1, <2>2, <2>3, <2>4, <2>5 DEF Next
<1>2. Init => Register!Init
    BY DEF Init, Register!Init
<1>3. QED BY <1>1, <1>2, Inductive, PTL DEF Spec, ImplementsRegister, Register!Spec
=============================================================================

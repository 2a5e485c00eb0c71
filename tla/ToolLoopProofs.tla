---------------------------- MODULE ToolLoopProofs ----------------------------
(***************************************************************************)
(* For every kind of loop, every set of tools, arguments and images and    *)
(* every number of rounds: the loops stop at their limit, each call they   *)
(* take is answered, the client's calls are returned, the usage of the     *)
(* visual loop is the sum of its rounds', and an image is analysed under   *)
(* the number that its label gave it.                                      *)
(***************************************************************************)
EXTENDS ToolLoop, SequenceTheorems, WellFoundedInduction, TLAPS

-----------------------------------------------------------------------------
(***************************************************************************)
(* Induction over the naturals, from the fact that < is well founded.      *)
(***************************************************************************)

LEMMA LessOnNat == \A x, y \in Nat : <<x, y>> \in OpToRel(<, Nat) <=> x < y
BY DEF OpToRel

\* A set of naturals with 0 and all successors of its elements has all: there
\* is no least one among the others.
LEMMA Induction ==
    ASSUME NEW S \in SUBSET Nat, 0 \in S, \A n \in S : n + 1 \in S
    PROVE  S = Nat
<1> DEFINE Less == OpToRel(<, Nat)
           Rest == Nat \ S
<1>1. IsWellFoundedOn(Less, Nat)
  BY NatLessThanWellFounded
<1>2. \A x, y \in Nat : <<x, y>> \in Less <=> x < y
  BY LessOnNat
<1> HIDE DEF Less
<1>3. Rest # {} => \E n \in Rest : \A m \in Rest : ~ (<<m, n>> \in Less)
  <2> HIDE DEF Rest
  <2>1. Rest \subseteq Nat
    BY DEF Rest
  <2> QED
    BY <1>1, <2>1, WFMin
<1>4. ASSUME NEW n \in Rest PROVE n # 0 /\ n - 1 \in Rest /\ n - 1 < n
  BY <1>4
<1> QED
  BY <1>2, <1>3, <1>4

\* The same up to a bound.
LEMMA InductionUpTo ==
    ASSUME NEW m \in Nat, NEW S, 0 \in S, \A n \in 1 .. m : n - 1 \in S => n \in S
    PROVE  0 .. m \subseteq S
<1> DEFINE Good == { n \in Nat : n <= m => n \in S }
<1>1. Good \in SUBSET Nat /\ 0 \in Good /\ \A n \in Good : n + 1 \in Good
  <2>1. ASSUME NEW n \in Good PROVE n + 1 \in Good
    <3>1. CASE n + 1 <= m
      <4>1. n + 1 \in 1 .. m /\ (n + 1) - 1 = n /\ n \in S
        BY <3>1
      <4> QED
        BY <4>1
    <3> QED
      BY <3>1
  <2> QED
    BY <2>1
<1>2. Good = Nat
  <2> HIDE DEF Good
  <2> QED BY <1>1, Induction
<1> QED
  BY <1>2

\* A function on 0 .. m is defined by its first value and by how each value
\* is made of the one before.
IsRecursive(f, m, X, base, step) ==
    /\ f \in [0 .. m -> X]
    /\ f[0] = base
    /\ \A n \in 1 .. m : f[n] = step[<<n, f[n - 1]>>]

LEMMA Recursion ==
    ASSUME NEW m \in Nat, NEW X, NEW base \in X, NEW step \in [(1 .. m) \X X -> X]
    PROVE  \E f : IsRecursive(f, m, X, base, step)
<1> DEFINE
      Upto(k, f) == f[0] = base /\ \A n \in 1 .. k : f[n] = step[<<n, f[n - 1]>>]
      Good == { k \in Nat : \E f \in [0 .. k -> X] : Upto(k, f) }
<1>1. 0 \in Good
  <2> DEFINE f == [n \in 0 .. 0 |-> base]
  <2>1. f \in [0 .. 0 -> X] /\ Upto(0, f)
    OBVIOUS
  <2> HIDE DEF f
  <2> QED BY <2>1
<1>2. ASSUME NEW k \in 1 .. m, k - 1 \in Good PROVE k \in Good
  <2>1. PICK f \in [0 .. k - 1 -> X] : Upto(k - 1, f)
    BY <1>2
  <2> DEFINE g == [n \in 0 .. k |-> IF n = k THEN step[<<k, f[k - 1]>>] ELSE f[n]]
  <2>2. f[k - 1] \in X /\ step[<<k, f[k - 1]>>] \in X
    OBVIOUS
  <2>3. g \in [0 .. k -> X]
    BY <2>2
  <2>4. \A n \in 0 .. k - 1 : g[n] = f[n]
    OBVIOUS
  <2>5. g[k] = step[<<k, f[k - 1]>>]
    OBVIOUS
  <2> HIDE DEF g
  <2>6. \A n \in 1 .. k : n - 1 \in 0 .. k - 1 /\ (n = k \/ n \in 1 .. k - 1)
    OBVIOUS
  <2>7. ASSUME NEW n \in 1 .. k PROVE g[n] = step[<<n, g[n - 1]>>]
    <3>1. CASE n = k
      BY <3>1, <2>4, <2>5, <2>6
    <3>2. CASE n \in 1 .. k - 1
      <4>1. n \in 0 .. k - 1
        BY <3>2
      <4>2. f[n] = step[<<n, f[n - 1]>>]
        BY <2>1, <3>2
      <4> QED
        BY <2>4, <2>6, <4>1, <4>2
    <3> QED BY <2>6, <3>1, <3>2
  <2>8. g[0] = base
    BY <2>1, <2>4
  <2>9. Upto(k, g)
    BY <2>7, <2>8
  <2> HIDE DEF Upto
  <2> QED BY <2>3, <2>9
<1>3. m \in Good
  <2> HIDE DEF Good
  <2>1. 0 .. m \subseteq Good
    BY <1>1, <1>2, InductionUpTo
  <2> QED BY <2>1
<1> QED
  BY <1>3 DEF IsRecursive

-----------------------------------------------------------------------------
(***************************************************************************)
(* Those, which is defined by recursion.                                   *)
(***************************************************************************)

\* f is the function that Those(s, S) chooses.
IsThose(f, s, S) ==
    f = [n \in 0 .. Len(s) |->
            IF n = 0 THEN <<>>
            ELSE IF s[n] \in S THEN Append(f[n - 1], s[n]) ELSE f[n - 1]]

\* There is such a function.
LEMMA ThoseExists ==
    ASSUME NEW T, NEW s \in Seq(T), NEW S
    PROVE  \E f : IsThose(f, s, S) /\ f \in [0 .. Len(s) -> Seq(T)]
<1> DEFINE X == Seq(T)
           m == Len(s)
           step == [p \in (1 .. m) \X X |-> IF s[p[1]] \in S THEN Append(p[2], s[p[1]]) ELSE p[2]]
<1>1. m \in Nat /\ <<>> \in X /\ \A n \in 1 .. m : s[n] \in T
  BY LenProperties, EmptySeq, ElementOfSeq
<1>2. step \in [(1 .. m) \X X -> X]
  <2>1. \A x \in X, y \in T : Append(x, y) \in X
    BY AppendProperties
  <2> HIDE DEF X, m
  <2> QED BY <1>1, <2>1
<1>3. PICK f : IsRecursive(f, m, X, <<>>, step)
  <2>1. m \in Nat /\ <<>> \in X
    BY <1>1
  <2> HIDE DEF X, m, step
  <2> QED BY <2>1, <1>2, Recursion
<1>4. \A n \in 1 .. m : f[n] = IF s[n] \in S THEN Append(f[n - 1], s[n]) ELSE f[n - 1]
  <2> TAKE n \in 1 .. m
  <2>1. f[n - 1] \in X
    BY <1>1, <1>3 DEF IsRecursive
  <2>2. <<n, f[n - 1]>> \in (1 .. m) \X X
    BY <2>1
  <2>3. f[n] = step[<<n, f[n - 1]>>]
    BY <1>3 DEF IsRecursive
  <2> QED BY <2>2, <2>3
<1>5. \A n \in 0 .. m :
        f[n] = IF n = 0 THEN <<>>
               ELSE IF s[n] \in S THEN Append(f[n - 1], s[n]) ELSE f[n - 1]
  <2> TAKE n \in 0 .. m
  <2>1. n = 0 \/ n \in 1 .. m
    BY <1>1
  <2>2. ~ (0 \in 1 .. m)
    OBVIOUS
  <2> HIDE DEF m, X, step
  <2> QED BY <1>3, <1>4, <2>1, <2>2 DEF IsRecursive
<1>6. f = [n \in 0 .. m |-> f[n]]
  BY <1>3 DEF IsRecursive
<1>7. f = [n \in 0 .. m |-> IF n = 0 THEN <<>>
             ELSE IF s[n] \in S THEN Append(f[n - 1], s[n]) ELSE f[n - 1]]
  <2> HIDE DEF m
  <2> QED BY <1>5, <1>6
<1> QED
  BY <1>3, <1>7 DEF IsThose, IsRecursive

\* What that says of it, element by element.
Stepwise(f, s, S) ==
    /\ f[0] = <<>>
    /\ \A n \in 1 .. Len(s) : f[n] = IF s[n] \in S THEN Append(f[n - 1], s[n]) ELSE f[n - 1]

LEMMA ThoseStepwise ==
    ASSUME NEW f, NEW s, NEW S, Len(s) \in Nat, IsThose(f, s, S)
    PROVE  Stepwise(f, s, S)
<1>1. f[0] = <<>>
  BY DEF IsThose
<1>2. ASSUME NEW n \in 1 .. Len(s)
      PROVE  f[n] = IF s[n] \in S THEN Append(f[n - 1], s[n]) ELSE f[n - 1]
  <2>1. n \in 0 .. Len(s) /\ n # 0
    OBVIOUS
  <2> QED BY <2>1, Zenon DEF IsThose
<1> QED
  BY <1>1, <1>2 DEF Stepwise

\* Over a common beginning two such functions are the same.
LEMMA ThoseAgree ==
    ASSUME NEW f, NEW s, NEW g, NEW t, NEW S, NEW m \in Nat,
           IsThose(f, s, S), IsThose(g, t, S), Len(s) \in Nat, Len(t) \in Nat,
           m <= Len(s), m <= Len(t), \A n \in 1 .. m : s[n] = t[n]
    PROVE  \A n \in 0 .. m : f[n] = g[n]
<1> DEFINE Good == { n \in Nat : f[n] = g[n] }
<1>1. Stepwise(f, s, S) /\ Stepwise(g, t, S)
  BY ThoseStepwise
<1>2. 0 \in Good
  BY <1>1 DEF Stepwise
<1>3. \A n \in 1 .. m : n - 1 \in Good => n \in Good
  BY <1>1 DEF Stepwise
<1>4. 0 .. m \subseteq Good
  <2> HIDE DEF Good
  <2> QED BY <1>2, <1>3, InductionUpTo
<1> QED
  BY <1>4

\* Those goes through a sequence element by element.
ThoseSoFar(f, s, S, T) ==
    /\ f \in [0 .. Len(s) -> Seq(T)]
    /\ Stepwise(f, s, S)
    /\ \A n \in 0 .. Len(s) : Those(SubSeq(s, 1, n), S) = f[n]

LEMMA ThoseShape == ASSUME NEW T, NEW s \in Seq(T), NEW S PROVE \E f : ThoseSoFar(f, s, S, T)
<1>1. PICK f : IsThose(f, s, S) /\ f \in [0 .. Len(s) -> Seq(T)]
  BY ThoseExists
<1>2. Len(s) \in Nat
  BY LenProperties
<1>3. Stepwise(f, s, S)
  BY <1>1, <1>2, ThoseStepwise
<1>4. ASSUME NEW n \in 0 .. Len(s) PROVE Those(SubSeq(s, 1, n), S) = f[n]
  <2> DEFINE t == SubSeq(s, 1, n)
             g == CHOOSE g : IsThose(g, t, S)
  <2>1. t \in Seq(T) /\ Len(t) = n /\ \A i \in 1 .. n : t[i] = s[i]
    <3>1. \A i \in 1 .. n : s[i] \in T
      BY ElementOfSeq
    <3> QED BY <1>2, <3>1, SubSeqProperties
  <2> HIDE DEF t
  <2>2. \E h : IsThose(h, t, S)
    BY <2>1, ThoseExists
  <2>3. IsThose(g, t, S)
    BY <2>2
  <2>4. Those(t, S) = g[Len(t)]
    BY DEF Those, IsThose
  <2> HIDE DEF g
  <2>5. \A i \in 0 .. n : f[i] = g[i]
    BY <1>1, <1>2, <2>1, <2>3, ThoseAgree
  <2> QED
    BY <2>1, <2>4, <2>5, <1>2 DEF t
<1> QED
  BY <1>1, <1>3, <1>4 DEF ThoseSoFar

\* Its elements are in S; and none of s is, or all.
LEMMA ThoseOf ==
    ASSUME NEW T, NEW s \in Seq(T), NEW S
    PROVE  /\ Those(s, S) \in Seq(T \cap S)
           /\ Those(s, S) = <<>> => \A i \in 1 .. Len(s) : s[i] \notin S
           /\ (\A i \in 1 .. Len(s) : s[i] \in S) => Those(s, S) = s
<1>0. PICK f : ThoseSoFar(f, s, S, T)
  BY ThoseShape
<1>1. /\ f \in [0 .. Len(s) -> Seq(T)]
      /\ f[0] = <<>>
      /\ \A n \in 1 .. Len(s) :
           f[n] = IF s[n] \in S THEN Append(f[n - 1], s[n]) ELSE f[n - 1]
      /\ \A n \in 0 .. Len(s) : Those(SubSeq(s, 1, n), S) = f[n]
  BY <1>0 DEF ThoseSoFar, Stepwise
<1>2. Len(s) \in Nat /\ \A i \in 1 .. Len(s) : s[i] \in T
  BY LenProperties, ElementOfSeq
<1>3. Those(s, S) = f[Len(s)]
  <2>1. SubSeq(s, 1, Len(s)) = s
    BY SubSeqFull
  <2>2. Len(s) \in 0 .. Len(s)
    BY <1>2
  <2> QED BY <1>1, <2>1, <2>2
<1>4. Those(s, S) \in Seq(T \cap S)
  <2> DEFINE Good == { n \in Nat : f[n] \in Seq(T \cap S) }
  <2>1. 0 \in Good
    BY <1>1, EmptySeq
  <2>2. ASSUME NEW n \in 1 .. Len(s), n - 1 \in Good PROVE n \in Good
    <3>1. s[n] \in S => Append(f[n - 1], s[n]) \in Seq(T \cap S)
      BY <1>2, <2>2, AppendProperties
    <3>2. n \in Nat /\ f[n - 1] \in Seq(T \cap S)
      BY <1>2, <2>2
    <3>3. f[n] \in Seq(T \cap S)
      BY <1>1, <3>1, <3>2
    <3> QED BY <3>2, <3>3
  <2>3. 0 .. Len(s) \subseteq Good
    <3> HIDE DEF Good
    <3> QED BY <1>2, <2>1, <2>2, InductionUpTo
  <2> QED BY <1>2, <1>3, <2>3
<1>5. ASSUME NEW i \in 1 .. Len(s), s[i] \in S PROVE Those(s, S) # <<>>
  <2> DEFINE Good == { n \in Nat : n >= i => f[n] # <<>> }
  <2>1. 0 \in Good
    OBVIOUS
  <2>2. ASSUME NEW n \in 1 .. Len(s), n - 1 \in Good PROVE n \in Good
    <3>1. f[n - 1] \in Seq(T) /\ s[n] \in T
      BY <1>1, <1>2
    <3>2. Append(f[n - 1], s[n]) # <<>>
      BY <3>1, AppendProperties
    <3>3. f[n] = IF s[n] \in S THEN Append(f[n - 1], s[n]) ELSE f[n - 1]
      BY <1>1
    <3>4. n \in Nat /\ (n - 1 >= i => f[n - 1] # <<>>)
      BY <1>2, <2>2
    <3>5. CASE n = i
      BY <1>5, <3>2, <3>3, <3>4, <3>5
    <3>6. CASE n # i
      <4>1. n >= i => n - 1 >= i
        BY <1>2, <3>6
      <4>2. f[n] = <<>> => f[n - 1] = <<>>
        BY <3>2, <3>3
      <4> QED BY <3>4, <4>1, <4>2
    <3> QED BY <3>5, <3>6
  <2>3. 0 .. Len(s) \subseteq Good
    <3> HIDE DEF Good
    <3> QED BY <1>2, <2>1, <2>2, InductionUpTo
  <2> QED BY <1>2, <1>3, <2>3
<1>6. ASSUME \A i \in 1 .. Len(s) : s[i] \in S PROVE Those(s, S) = s
  <2> DEFINE Good == { n \in Nat : f[n] = SubSeq(s, 1, n) }
  <2>1. 0 \in Good
    BY <1>1, SubSeqEmpty
  <2>2. ASSUME NEW n \in 1 .. Len(s), n - 1 \in Good PROVE n \in Good
    <3>1. f[n] = Append(SubSeq(s, 1, n - 1), s[n])
      BY <1>1, <1>6, <2>2
    <3>2. SubSeq(s, 1, n) = SubSeq(s, 1, n - 1) \o <<s[n]>>
      BY <1>2, SubSeqRecursiveSecond
    <3>3. SubSeq(s, 1, n - 1) \in Seq(T)
      BY <1>2, SubSeqProperties
    <3>4. SubSeq(s, 1, n - 1) \o <<s[n]>> = Append(SubSeq(s, 1, n - 1), s[n])
      BY <1>2, <3>3, AppendIsConcat
    <3>5. n \in Nat
      BY <1>2
    <3> QED BY <3>1, <3>2, <3>4, <3>5
  <2>3. 0 .. Len(s) \subseteq Good
    <3> HIDE DEF Good
    <3> QED BY <1>2, <2>1, <2>2, InductionUpTo
  <2> QED BY <1>2, <1>3, <2>3, SubSeqFull
<1> QED
  BY <1>4, <1>5, <1>6

-----------------------------------------------------------------------------
(***************************************************************************)
(* The usage of some answers, which is defined by recursion.               *)
(***************************************************************************)

IsSum(f, s) == f = [n \in 0 .. Len(s) |-> IF n = 0 THEN 0 ELSE f[n - 1] + s[n].usage]

\* Answers with a usage.
Answers(s) == (\E S : s \in Seq(S)) /\ \A i \in 1 .. Len(s) : s[i].usage \in Nat

LEMMA SumExists == ASSUME NEW s, Answers(s) PROVE \E f : IsSum(f, s)
<1> DEFINE m == Len(s)
           step == [p \in (1 .. m) \X Nat |-> p[2] + s[p[1]].usage]
<1>1. m \in Nat /\ \A n \in 1 .. m : s[n].usage \in Nat
  BY LenProperties DEF Answers
<1>2. step \in [(1 .. m) \X Nat -> Nat]
  <2> HIDE DEF m
  <2> QED BY <1>1
<1>3. PICK f : IsRecursive(f, m, Nat, 0, step)
  <2>1. m \in Nat /\ 0 \in Nat
    BY <1>1
  <2> HIDE DEF m, step
  <2> QED BY <2>1, <1>2, Recursion
<1>4. \A n \in 1 .. m : f[n] = f[n - 1] + s[n].usage
  <2> TAKE n \in 1 .. m
  <2>1. <<n, f[n - 1]>> \in (1 .. m) \X Nat
    BY <1>1, <1>3 DEF IsRecursive
  <2>2. f[n] = step[<<n, f[n - 1]>>]
    BY <1>3 DEF IsRecursive
  <2> QED BY <2>1, <2>2
<1>5. \A n \in 0 .. m : f[n] = IF n = 0 THEN 0 ELSE f[n - 1] + s[n].usage
  BY <1>1, <1>3, <1>4 DEF IsRecursive
<1>6. f = [n \in 0 .. m |-> f[n]]
  BY <1>3 DEF IsRecursive
<1>7. f = [n \in 0 .. m |-> IF n = 0 THEN 0 ELSE f[n - 1] + s[n].usage]
  <2> HIDE DEF m
  <2> QED BY <1>5, <1>6
<1> QED
  BY <1>7 DEF IsSum

LEMMA SumStepwise ==
    ASSUME NEW f, NEW s, Len(s) \in Nat, IsSum(f, s)
    PROVE  f[0] = 0 /\ \A n \in 1 .. Len(s) : f[n] = f[n - 1] + s[n].usage
BY DEF IsSum

\* Nothing has used nothing.
LEMMA UsageOfNone == UsageOf(<<>>) = 0 /\ Answers(<<>>)
<1> DEFINE f == CHOOSE f : IsSum(f, <<>>)
<1>1. Answers(<<>>) /\ Len(<<>>) = 0
  BY EmptySeq DEF Answers
<1>2. IsSum(f, <<>>)
  BY <1>1, SumExists
<1>3. UsageOf(<<>>) = f[Len(<<>>)]
  BY DEF UsageOf, IsSum
<1> HIDE DEF f
<1> QED BY <1>1, <1>2, <1>3, SumStepwise

\* One more answer adds its own.
LEMMA UsageGrows ==
    ASSUME NEW s, Answers(s), NEW x, x.usage \in Nat
    PROVE  Answers(Append(s, x)) /\ UsageOf(Append(s, x)) = UsageOf(s) + x.usage
<1> DEFINE a == Append(s, x)
           f == CHOOSE f : IsSum(f, s)
           g == CHOOSE g : IsSum(g, a)
           Good == { n \in Nat : g[n] = f[n] }
<1>1. PICK S : s \in Seq(S)
  BY DEF Answers
<1>2. s \in Seq(S \cup {x})
  BY <1>1, SeqMonotonic
<1>3. /\ a \in Seq(S \cup {x}) /\ Len(a) = Len(s) + 1 /\ Len(s) \in Nat
      /\ \A i \in 1 .. Len(s) : a[i] = s[i]
      /\ a[Len(s) + 1] = x
  BY <1>2, AppendProperties, LenProperties
<1> HIDE DEF a
<1>4. Answers(a)
  BY <1>3 DEF Answers
<1>5. IsSum(f, s) /\ IsSum(g, a)
  BY <1>4, SumExists
<1>6. UsageOf(s) = f[Len(s)] /\ UsageOf(a) = g[Len(a)]
  BY DEF UsageOf, IsSum
<1> HIDE DEF f, g
<1>7. /\ f[0] = 0 /\ \A n \in 1 .. Len(s) : f[n] = f[n - 1] + s[n].usage
      /\ g[0] = 0 /\ \A n \in 1 .. Len(a) : g[n] = g[n - 1] + a[n].usage
  BY <1>3, <1>5, SumStepwise
<1>8. 0 \in Good /\ \A n \in 1 .. Len(s) : n - 1 \in Good => n \in Good
  BY <1>3, <1>7
<1>9. 0 .. Len(s) \subseteq Good
  <2> HIDE DEF Good
  <2> QED BY <1>3, <1>8, InductionUpTo
<1>10. g[Len(s)] = f[Len(s)]
  BY <1>3, <1>9
<1> QED
  BY <1>3, <1>4, <1>6, <1>7, <1>10 DEF a

-----------------------------------------------------------------------------
(***************************************************************************)
(* FlattenSeq of the results of a turn.                                    *)
(***************************************************************************)

IsFlat(f, ss) == f = [i \in 1 .. Len(ss) |-> IF i = 1 THEN ss[i] ELSE f[i - 1] \o ss[i]]

\* All the results in one message.
LEMMA FlattenOne == ASSUME NEW ss, Len(ss) = 1 PROVE FlattenSeq(ss) = ss[1]
<1> DEFINE h == [i \in 1 .. 1 |-> ss[1]]
           f == CHOOSE f : IsFlat(f, ss)
<1>1. IsFlat(h, ss)
  BY DEF IsFlat
<1>2. IsFlat(f, ss)
  <2> HIDE DEF h
  <2> QED BY <1>1
<1>3. FlattenSeq(ss) = f[Len(ss)]
  BY DEF FlattenSeq, IsFlat
<1> HIDE DEF f
<1> QED
  BY <1>2, <1>3 DEF IsFlat

\* A message for each.
LEMMA FlattenEach ==
    ASSUME NEW T, NEW r \in Seq(T), NEW ss, ss = [i \in 1 .. Len(r) |-> <<r[i]>>]
    PROVE  FlattenSeq(ss) = r
<1> DEFINE m == Len(r)
           h == [i \in 1 .. m |-> SubSeq(r, 1, i)]
           f == CHOOSE f : IsFlat(f, ss)
           Good == { n \in Nat : n = 0 \/ f[n] = SubSeq(r, 1, n) }
<1>1. m \in Nat /\ (\A i \in 1 .. m : r[i] \in T) /\ Len(ss) = m
  BY LenProperties, ElementOfSeq
<1> HIDE DEF m
<1>2. \A i \in 1 .. m : ss[i] = <<r[i]>>
  BY DEF m
<1>3. \A i \in 1 .. m : SubSeq(r, 1, i) = SubSeq(r, 1, i - 1) \o ss[i]
  BY <1>1, <1>2, SubSeqRecursiveSecond DEF m
<1>4. m > 0 => SubSeq(r, 1, 1) = ss[1]
  <2> SUFFICES ASSUME m > 0 PROVE SubSeq(r, 1, 1) = <<r[1]>>
    BY <1>1, <1>2
  <2>1. SubSeq(r, 1, 1) = <<r[1]>> \o SubSeq(r, 2, 1)
    BY <1>1, SubSeqRecursiveFirst DEF m
  <2>2. SubSeq(r, 2, 1) = <<>>
    BY SubSeqEmpty
  <2>3. <<r[1]>> \in Seq(T)
    BY <1>1
  <2> QED BY <2>1, <2>2, <2>3, ConcatEmptySeq
<1>5. IsFlat(h, ss)
  <2>1. \A i \in 1 .. m : h[i] = IF i = 1 THEN ss[i] ELSE h[i - 1] \o ss[i]
    <3> TAKE i \in 1 .. m
    <3>1. h[i] = SubSeq(r, 1, i)
      OBVIOUS
    <3>2. CASE i = 1
      BY <1>1, <1>4, <3>1, <3>2
    <3>3. CASE i # 1
      <4>1. i - 1 \in 1 .. m
        BY <1>1, <3>3
      <4>2. h[i - 1] = SubSeq(r, 1, i - 1)
        BY <4>1
      <4> HIDE DEF h
      <4> QED BY <1>3, <3>1, <3>3, <4>2
    <3> QED BY <3>2, <3>3
  <2>2. h = [i \in 1 .. m |-> h[i]]
    OBVIOUS
  <2> HIDE DEF h
  <2>3. h = [i \in 1 .. m |-> IF i = 1 THEN ss[i] ELSE h[i - 1] \o ss[i]]
    BY <2>1, <2>2
  <2> QED BY <1>1, <2>3 DEF IsFlat
<1>6. IsFlat(f, ss)
  <2> HIDE DEF h
  <2> QED BY <1>5
<1>7. m # 0 => FlattenSeq(ss) = f[m]
  <2> SUFFICES ASSUME Len(ss) # 0 PROVE FlattenSeq(ss) = f[Len(ss)]
    BY <1>1
  <2> QED BY DEF FlattenSeq, IsFlat
<1> HIDE DEF f
<1>8. 0 \in Good
  OBVIOUS
<1>9. ASSUME NEW n \in 1 .. m, n - 1 \in Good PROVE n \in Good
  <2>1. f[n] = IF n = 1 THEN ss[n] ELSE f[n - 1] \o ss[n]
    BY <1>1, <1>6, Zenon DEF IsFlat
  <2>2. CASE n = 1
    BY <1>1, <1>4, <2>1, <2>2
  <2>3. CASE n # 1
    <3>1. f[n - 1] = SubSeq(r, 1, n - 1)
      BY <1>1, <1>9, <2>3
    <3>2. f[n] = SubSeq(r, 1, n - 1) \o ss[n]
      BY <2>1, <2>3, <3>1
    <3>3. f[n] = SubSeq(r, 1, n)
      BY <1>3, <3>2
    <3> QED BY <1>1, <3>3
  <2> QED BY <2>2, <2>3
<1>10. 0 .. m \subseteq Good
  <2> HIDE DEF Good
  <2> QED BY <1>1, <1>8, <1>9, InductionUpTo
<1>11. m # 0 => f[m] = SubSeq(r, 1, m)
  BY <1>1, <1>10
<1>12. SubSeq(r, 1, m) = r
  BY SubSeqFull DEF m
<1>13. CASE m = 0
  <2>1. r = <<>> /\ ss = <<>>
    BY <1>13, <1>1, EmptySeq DEF m
  <2> QED BY <2>1, EmptySeq DEF FlattenSeq
<1>14. CASE m # 0
  BY <1>7, <1>11, <1>12, <1>14
<1> QED
  BY <1>13, <1>14

-----------------------------------------------------------------------------
(***************************************************************************)
(* The calls that a client finds in a replayed answer.                     *)
(***************************************************************************)

LEMMA ThoseAppend ==
    ASSUME NEW T, NEW s \in Seq(T), NEW x \in T, NEW S
    PROVE  Those(Append(s, x), S) = IF x \in S THEN Append(Those(s, S), x) ELSE Those(s, S)
<1> DEFINE t == Append(s, x)
           n == Len(s)
<1>1. t \in Seq(T) /\ Len(t) = n + 1 /\ t[n + 1] = x /\ n \in Nat /\ \A i \in 1 .. n : t[i] = s[i]
  BY AppendProperties, LenProperties
<1> HIDE DEF t
<1>2. PICK f : ThoseSoFar(f, t, S, T)
  BY <1>1, ThoseShape
<1>3. SubSeq(t, 1, n + 1) = t
  BY <1>1, SubSeqFull
<1>4. SubSeq(t, 1, n) = s
  <2>1. \A i \in 1 .. n : t[i] \in T
    BY <1>1, ElementOfSeq
  <2>2. /\ SubSeq(t, 1, n) \in Seq(T) /\ Len(SubSeq(t, 1, n)) = n
        /\ \A i \in 1 .. n : SubSeq(t, 1, n)[i] = t[i]
    BY <1>1, <2>1, SubSeqProperties
  <2> QED BY <1>1, <2>2, SeqEqual
<1>5. n + 1 \in 1 .. Len(t) /\ n \in 0 .. Len(t) /\ n + 1 \in 0 .. Len(t) /\ (n + 1) - 1 = n
  BY <1>1
<1>6. Those(t, S) = f[n + 1] /\ Those(s, S) = f[n]
  BY <1>2, <1>3, <1>4, <1>5 DEF ThoseSoFar
<1>7. f[n + 1] = IF t[n + 1] \in S THEN Append(f[n], t[n + 1]) ELSE f[n]
  BY <1>2, <1>5 DEF ThoseSoFar, Stepwise
<1> QED
  BY <1>1, <1>6, <1>7 DEF t

\* Only what is in s of the set matters.
LEMMA ThoseSame ==
    ASSUME NEW T, NEW s \in Seq(T), NEW S, NEW R, \A i \in 1 .. Len(s) : s[i] \in S <=> s[i] \in R
    PROVE  Those(s, S) = Those(s, R)
<1>1. PICK f : ThoseSoFar(f, s, S, T)
  BY ThoseShape
<1>2. PICK g : ThoseSoFar(g, s, R, T)
  BY ThoseShape
<1> DEFINE Good == { n \in Nat : f[n] = g[n] }
<1>3. Len(s) \in Nat
  BY LenProperties
<1>4. 0 \in Good
  BY <1>1, <1>2 DEF ThoseSoFar, Stepwise
<1>5. \A n \in 1 .. Len(s) : n - 1 \in Good => n \in Good
  BY <1>1, <1>2 DEF ThoseSoFar, Stepwise
<1>6. 0 .. Len(s) \subseteq Good
  <2> HIDE DEF Good
  <2> QED BY <1>3, <1>4, <1>5, InductionUpTo
<1>7. SubSeq(s, 1, Len(s)) = s
  BY SubSeqFull
<1>8. Len(s) \in 0 .. Len(s)
  BY <1>3
<1>9. Those(s, S) = f[Len(s)] /\ Those(s, R) = g[Len(s)]
  BY <1>1, <1>2, <1>7, <1>8 DEF ThoseSoFar
<1>10. f[Len(s)] = g[Len(s)]
  BY <1>6, <1>8
<1> QED
  BY <1>9, <1>10

LEMMA ThreeInSeq ==
    ASSUME NEW E, NEW x \in E, NEW y \in E, NEW z \in E
    PROVE  <<x, y, z>> \in Seq(E)
OBVIOUS

\* The calls that the replay of an answer announces are those of the answer.
LEMMA ReplayHasCalls ==
    ASSUME NEW T, NEW calls \in Seq(T)
    PROVE  Announced(CoreResponseToCoreStream(calls)) = calls
<1> DEFINE m == Len(calls)
           a == [i \in 1 .. m |-> [type |-> "started", index |-> i, call |-> calls[i]]]
           b == [i \in 1 .. m |-> [type |-> "args_done", index |-> i, call |-> calls[i]]]
           c == [i \in 1 .. m |-> [type |-> "done", index |-> i, call |-> calls[i]]]
           E == { a[i] : i \in 1 .. m } \cup { b[i] : i \in 1 .. m } \cup { c[i] : i \in 1 .. m }
           S == { x \in E : x.type = "started" }
           ss == [i \in 1 .. m |-> <<a[i], b[i], c[i]>>]
           e == CoreResponseToCoreStream(calls)
           f == CHOOSE f : IsFlat(f, ss)
           Good == { n \in Nat : n = 0 \/ (f[n] \in Seq(E) /\ Those(f[n], S) = SubSeq(a, 1, n)) }
<1>1. m \in Nat /\ DOMAIN calls = 1 .. m /\ calls = [i \in 1 .. m |-> calls[i]]
  BY LenProperties
<1>2. e = FlattenSeq(ss)
  BY <1>1 DEF CoreResponseToCoreStream
<1>3. \A i \in 1 .. m : /\ a[i] \in E /\ b[i] \in E /\ c[i] \in E
                        /\ a[i] \in S /\ b[i] \notin S /\ c[i] \notin S
                        /\ a[i].call = calls[i]
  OBVIOUS
<1>4. a \in Seq(E) /\ Len(a) = m
  <2>1. a \in [1 .. m -> E]
    OBVIOUS
  <2> HIDE DEF a, E, m
  <2> QED BY <1>1, <2>1, SeqDef
<1>5. Len(ss) = m /\ \A i \in 1 .. m : ss[i] = <<a[i], b[i], c[i]>>
  BY <1>1
<1>6. \A x \in E : x.type = "started" <=> x \in S
  OBVIOUS
<1> HIDE DEF a, b, c, E, S, ss, e, m
<1>7. ASSUME NEW i \in 1 .. m PROVE ss[i] \in Seq(E)
  <2>1. a[i] \in E /\ b[i] \in E /\ c[i] \in E
    BY <1>3
  <2>2. <<a[i], b[i], c[i]>> \in Seq(E)
    BY <2>1, ThreeInSeq
  <2> QED BY <1>5, <2>2
<1>8. \E h : IsFlat(h, ss)
  <2> DEFINE X == Seq(E)
             step == [p \in (1 .. m) \X X |-> p[2] \o ss[p[1]]]
  <2>1. <<>> \in X /\ step \in [(1 .. m) \X X -> X]
    BY <1>7, ConcatProperties
  <2>2. \A n \in 1 .. m, x \in X : step[<<n, x>>] = x \o ss[n]
    OBVIOUS
  <2> HIDE DEF X, step
  <2>3. PICK g : IsRecursive(g, m, X, <<>>, step)
    BY <1>1, <2>1, Recursion
  <2> DEFINE h == [i \in 1 .. m |-> g[i]]
  <2>4. ASSUME NEW i \in 1 .. m PROVE h[i] = IF i = 1 THEN ss[i] ELSE h[i - 1] \o ss[i]
    <3>1. i - 1 \in 0 .. m
      BY <1>1
    <3>2. g[i] = g[i - 1] \o ss[i]
      BY <2>2, <2>3, <3>1 DEF IsRecursive
    <3>3. CASE i = 1
      <4>1. g[i - 1] = <<>>
        BY <2>3, <3>3 DEF IsRecursive
      <4>2. <<>> \o ss[i] = ss[i]
        BY <1>7, ConcatEmptySeq
      <4> QED BY <3>2, <3>3, <4>1, <4>2
    <3>4. CASE i # 1
      <4>1. i - 1 \in 1 .. m
        BY <1>1, <3>4
      <4> QED BY <3>2, <3>4, <4>1
    <3> QED BY <3>3, <3>4
  <2>5. h = [i \in 1 .. m |-> h[i]]
    OBVIOUS
  <2> HIDE DEF h
  <2>6. h = [i \in 1 .. m |-> IF i = 1 THEN ss[i] ELSE h[i - 1] \o ss[i]]
    BY <2>4, <2>5
  <2> QED BY <1>5, <2>6 DEF IsFlat
<1>9. IsFlat(f, ss)
  BY <1>8
<1>10. m # 0 => e = f[m]
  <2> SUFFICES ASSUME Len(ss) # 0 PROVE FlattenSeq(ss) = f[Len(ss)]
    BY <1>2, <1>5
  <2> QED BY DEF FlattenSeq, IsFlat
<1> HIDE DEF f
<1>11. 0 \in Good
  OBVIOUS
<1>12. ASSUME NEW n \in 1 .. m, n - 1 \in Good PROVE n \in Good
  <2> DEFINE x == IF n = 1 THEN <<>> ELSE f[n - 1]
             t == <<a[n], b[n], c[n]>>
  <2>1. f[n] = IF n = 1 THEN ss[n] ELSE f[n - 1] \o ss[n]
    BY <1>5, <1>9, Zenon DEF IsFlat
  <2>2. x \in Seq(E) /\ Those(x, S) = SubSeq(a, 1, n - 1)
    <3>1. CASE n = 1
      <4>1. x = <<>> /\ <<>> \in Seq(E) /\ <<>> \in Seq({})
        BY <3>1
      <4>2. Those(<<>>, S) \in Seq({} \cap S)
        BY <4>1, ThoseOf
      <4>3. Those(<<>>, S) = <<>>
        BY <4>2
      <4>4. SubSeq(a, 1, n - 1) = <<>>
        BY <3>1, SubSeqEmpty
      <4> QED BY <4>1, <4>3, <4>4
    <3>2. CASE n # 1
      BY <1>1, <1>12, <3>2
    <3> QED BY <3>1, <3>2
  <2>3. f[n] = x \o t
    <3>1. t \in Seq(E) /\ ss[n] = t
      BY <1>3, <1>5
    <3> HIDE DEF t
    <3> QED BY <2>1, <3>1, ConcatEmptySeq
  <2> HIDE DEF x
  <2>4. f[n] = Append(Append(Append(x, a[n]), b[n]), c[n])
    BY <1>3, <2>2, <2>3
  <2>5. /\ Append(x, a[n]) \in Seq(E) /\ Append(Append(x, a[n]), b[n]) \in Seq(E)
        /\ f[n] \in Seq(E)
    BY <1>3, <2>2, <2>4, AppendProperties
  <2>6. Those(f[n], S) = Append(Those(x, S), a[n])
    <3>1. Those(Append(x, a[n]), S) = Append(Those(x, S), a[n])
      BY <1>3, <2>2, ThoseAppend
    <3>2. Those(Append(Append(x, a[n]), b[n]), S) = Those(Append(x, a[n]), S)
      BY <1>3, <2>5, ThoseAppend
    <3>3. Those(f[n], S) = Those(Append(Append(x, a[n]), b[n]), S)
      <4> DEFINE u == Append(Append(x, a[n]), b[n])
      <4>1. u \in Seq(E) /\ f[n] = Append(u, c[n])
        BY <2>4, <2>5
      <4> HIDE DEF u
      <4>2. Those(Append(u, c[n]), S) = Those(u, S)
        BY <1>3, <4>1, ThoseAppend
      <4> QED BY <4>1, <4>2 DEF u
    <3> QED BY <3>1, <3>2, <3>3
  <2>7. Append(SubSeq(a, 1, n - 1), a[n]) = SubSeq(a, 1, n)
    <3>1. SubSeq(a, 1, n) = SubSeq(a, 1, n - 1) \o <<a[n]>>
      <4>1. 1 \in 1 .. Len(a) /\ n \in 1 .. Len(a)
        BY <1>1, <1>4
      <4> QED BY <1>4, <4>1, SubSeqRecursiveSecond
    <3>2. \A i \in 1 .. n - 1 : a[i] \in E
      BY <1>1, <1>3
    <3>3. SubSeq(a, 1, n - 1) \in Seq(E)
      BY <1>1, <1>4, <3>2, SubSeqProperties
    <3> QED BY <1>3, <3>1, <3>3, AppendIsConcat
  <2>8. Those(f[n], S) = SubSeq(a, 1, n) /\ n \in Nat
    BY <1>1, <2>2, <2>6, <2>7
  <2> QED BY <2>5, <2>8
<1>13. 0 .. m \subseteq Good
  <2> HIDE DEF Good
  <2> QED BY <1>1, <1>11, <1>12, InductionUpTo
<1>14. e \in Seq(E) /\ Those(e, S) = a
  <2>1. SubSeq(a, 1, m) = a
    BY <1>4, SubSeqFull
  <2>2. CASE m # 0
    <3>1. m \in Good
      BY <1>1, <1>13
    <3>2. f[m] \in Seq(E) /\ Those(f[m], S) = SubSeq(a, 1, m)
      BY <2>2, <3>1
    <3> QED BY <1>10, <2>1, <2>2, <3>2
  <2>3. CASE m = 0
    <3>1. ss = <<>> /\ a = <<>>
      BY <1>4, <1>5, <2>3, EmptySeq DEF ss
    <3>2. e = <<>> /\ <<>> \in Seq(E) /\ <<>> \in Seq({})
      BY <1>2, <3>1 DEF FlattenSeq
    <3>3. Those(<<>>, S) \in Seq({} \cap S)
      BY <3>2, ThoseOf
    <3> QED BY <3>1, <3>2, <3>3
  <2> QED BY <2>2, <2>3
<1>15. Those(e, { x \in ToSet(e) : x.type = "started" }) = a
  <2> DEFINE R == { x \in ToSet(e) : x.type = "started" }
  <2>1. ASSUME NEW i \in 1 .. Len(e) PROVE e[i] \in S <=> e[i] \in R
    <3>1. e[i] \in E /\ e[i] \in ToSet(e)
      BY <1>14, ElementOfSeq, LenProperties DEF ToSet
    <3> QED BY <1>6, <3>1
  <2> HIDE DEF R
  <2> QED BY <1>14, <2>1, ThoseSame DEF R
<1>16. Announced(e) = [i \in 1 .. m |-> a[i].call]
  <2>1. DOMAIN a = 1 .. m
    BY <1>4, LenProperties
  <2> QED BY <1>15, <2>1 DEF Announced
<1> QED
  BY <1>1, <1>3, <1>16 DEF e

-----------------------------------------------------------------------------
(***************************************************************************)
(* The labels of images.                                                   *)
(***************************************************************************)

Image == {"ok", "bad"}
Found == [at : Nat, image : Image]

\* The k-th available image is the one whose label is k.
Labelled(list, f, k) ==
    /\ f[k].at \in 1 .. Len(list)
    /\ list[f[k].at] = "ok"
    /\ Len(Available(SubSeq(list, 1, f[k].at))) = k

LEMMA Labels ==
    ASSUME NEW list \in Seq(Image)
    PROVE  /\ Available(list) \in Seq(Found)
           /\ \A k \in 1 .. Len(Available(list)) : Labelled(list, Available(list), k)
<1> DEFINE
      s == [i \in DOMAIN list |-> [at |-> i, image |-> list[i]]]
      S == [at : Nat, image : {"ok"}]
      m == Len(list)
<1>1. m \in Nat /\ DOMAIN list = 1 .. m /\ \A i \in 1 .. m : list[i] \in Image
  BY LenProperties, ElementOfSeq
<1> HIDE DEF m
<1>2. /\ s \in Seq(Found) /\ Len(s) = m
      /\ \A i \in 1 .. m : s[i] = [at |-> i, image |-> list[i]]
  <2>1. \A i \in 1 .. m : [at |-> i, image |-> list[i]] \in Found
    BY <1>1 DEF Found
  <2>2. s \in [1 .. m -> Found]
    BY <1>1, <2>1
  <2> QED BY <1>1, <2>2, SeqDef
<1>3. \A n \in 0 .. m : Available(SubSeq(list, 1, n)) = Those(SubSeq(s, 1, n), S)
  <2> TAKE n \in 0 .. m
  <2>1. /\ SubSeq(list, 1, n) \in Seq(Image) /\ Len(SubSeq(list, 1, n)) = n
        /\ \A i \in 1 .. n : SubSeq(list, 1, n)[i] = list[i]
    BY <1>1, SubSeqProperties
  <2>2. /\ SubSeq(s, 1, n) \in Seq(Found) /\ Len(SubSeq(s, 1, n)) = n
        /\ \A i \in 1 .. n : SubSeq(s, 1, n)[i] = s[i]
    <3>1. \A i \in 1 .. n : s[i] \in Found
      BY <1>1, <1>2, ElementOfSeq
    <3> HIDE DEF s
    <3> QED BY <1>1, <3>1, SubSeqProperties
  <2> DEFINE t == SubSeq(list, 1, n)
             u == SubSeq(s, 1, n)
             v == [i \in DOMAIN t |-> [at |-> i, image |-> t[i]]]
  <2>3. t \in Seq(Image) /\ Len(t) = n /\ \A i \in 1 .. n : t[i] = list[i]
    BY <2>1
  <2>4. u \in Seq(Found) /\ Len(u) = n /\ \A i \in 1 .. n : u[i] = [at |-> i, image |-> list[i]]
    BY <1>1, <1>2, <2>2
  <2> HIDE DEF t, u
  <2>5. DOMAIN t = 1 .. n
    BY <2>3, LenProperties
  <2>6. \A i \in 1 .. n : v[i] = u[i]
    BY <2>3, <2>4, <2>5
  <2>7. u = v
    <3>1. u = [i \in 1 .. n |-> u[i]]
      BY <2>4, LenProperties
    <3>2. v = [i \in 1 .. n |-> v[i]]
      BY <2>5
    <3> HIDE DEF v
    <3> QED BY <2>6, <3>1, <3>2
  <2>8. Available(t) = Those(v, S)
    BY DEF Available
  <2> HIDE DEF v
  <2> QED BY <2>7, <2>8 DEF t, u
<1> HIDE DEF s
<1>4. PICK f : ThoseSoFar(f, s, S, Found)
  <2> HIDE DEF S
  <2> QED BY <1>2, ThoseShape
<1>5. /\ \A n \in 0 .. m : f[n] \in Seq(Found) /\ Available(SubSeq(list, 1, n)) = f[n]
      /\ f[0] = <<>>
      /\ \A n \in 1 .. m : f[n] = IF s[n] \in S THEN Append(f[n - 1], s[n]) ELSE f[n - 1]
  <2> HIDE DEF S
  <2> QED BY <1>1, <1>2, <1>3, <1>4 DEF ThoseSoFar, Stepwise
<1>6. \A n \in 1 .. m : s[n] \in S <=> list[n] = "ok"
  BY <1>1, <1>2
<1> HIDE DEF S
<1> DEFINE
      Ok(n, k) == /\ f[n][k].at \in 1 .. n
                  /\ list[f[n][k].at] = "ok"
                  /\ Len(f[f[n][k].at]) = k
      Good == { n \in Nat : \A k \in 1 .. Len(f[n]) : Ok(n, k) }
<1>7. 0 \in Good
  BY <1>5, EmptySeq
<1>8. ASSUME NEW n \in 1 .. m, n - 1 \in Good PROVE n \in Good
  <2>1. n \in Nat /\ n - 1 \in 0 .. m /\ n - 1 \in Nat /\ (n - 1) + 1 = n
    BY <1>1
  <2>2. \A k \in 1 .. Len(f[n - 1]) : Ok(n - 1, k)
    BY <1>8
  <2>3. f[n - 1] \in Seq(Found) /\ Len(f[n - 1]) \in Nat
    BY <1>5, <2>1, LenProperties
  <2>4. CASE list[n] # "ok"
    <3>1. f[n] = f[n - 1]
      BY <1>5, <1>6, <2>4
    <3>2. \A k \in 1 .. Len(f[n]) : Ok(n, k)
      BY <2>1, <2>2, <3>1
    <3> HIDE DEF Ok
    <3> QED BY <2>1, <3>2
  <2>5. CASE list[n] = "ok"
    <3>1. f[n] = Append(f[n - 1], s[n])
      BY <1>5, <1>6, <2>5
    <3>2. s[n] \in Found /\ s[n].at = n
      BY <1>2, <1>1 DEF Found
    <3>3. /\ Len(f[n]) = Len(f[n - 1]) + 1
          /\ \A k \in 1 .. Len(f[n - 1]) : f[n][k] = f[n - 1][k]
          /\ f[n][Len(f[n - 1]) + 1] = s[n]
      BY <2>3, <3>1, <3>2, AppendProperties
    <3>4. ASSUME NEW k \in 1 .. Len(f[n]) PROVE Ok(n, k)
      <4>1. CASE k = Len(f[n - 1]) + 1
        BY <2>1, <2>3, <2>5, <3>2, <3>3, <4>1
      <4>2. CASE k # Len(f[n - 1]) + 1
        <5>1. k \in 1 .. Len(f[n - 1])
          BY <2>3, <3>3, <4>2
        <5>2. Ok(n - 1, k) /\ f[n][k] = f[n - 1][k]
          BY <2>2, <3>3, <5>1
        <5> QED BY <2>1, <5>2
      <4> QED BY <4>1, <4>2
    <3> HIDE DEF Ok
    <3> QED BY <2>1, <3>4
  <2> QED BY <2>4, <2>5
<1>9. 0 .. m \subseteq Good
  <2> HIDE DEF Good
  <2> QED BY <1>1, <1>7, <1>8, InductionUpTo
<1>10. m \in 0 .. m /\ m \in Good
  BY <1>1, <1>9
<1>11. Available(list) = f[m] /\ f[m] \in Seq(Found)
  <2>1. SubSeq(list, 1, m) = list
    BY SubSeqFull DEF m
  <2> QED BY <1>5, <1>10, <2>1
<1>12. \A k \in 1 .. Len(f[m]) : Labelled(list, f[m], k)
  <2> TAKE k \in 1 .. Len(f[m])
  <2>1. Ok(m, k)
    BY <1>10
  <2>2. f[m][k].at \in 0 .. m
    BY <1>1, <2>1
  <2>3. Available(SubSeq(list, 1, f[m][k].at)) = f[f[m][k].at]
    BY <1>5, <2>2
  <2> QED BY <2>1, <2>3 DEF Labelled, m
<1> QED
  BY <1>11, <1>12

\* A reference means the image with its label.
LEMMA ReferencesMeanLabels ==
    ASSUME images \in Seq(Image), prompt = Prepared(images), NEW args \in Seq(STRING),
           NEW a \in ToSet(NormalizeImages(args)), a.ref > 0
    PROVE  prompt[a.at] = a.ref
<1> DEFINE available == Available(images)
           m == Len(available)
           S == { ref \in {"1", "2", "3"} : IndexOf(ref) <= m }
           valid == References(args, m)
<1>1. available \in Seq(Found) /\ \A k \in 1 .. m : Labelled(images, available, k)
  BY Labels
<1>2. valid \in Seq(STRING \cap S)
  <2>1. valid = Those(args, S)
    BY DEF References
  <2> HIDE DEF S, valid, m
  <2> QED BY <2>1, ThoseOf
<1>3. m \in Nat
  BY <1>1, LenProperties
<1>4. \A ref \in S : IndexOf(ref) \in 1 .. m
  <2> HIDE DEF m
  <2> QED BY <1>3 DEF IndexOf
<1> HIDE DEF S, m
<1>5. PICK i \in DOMAIN valid :
        a = [ref |-> IndexOf(valid[i]), at |-> available[IndexOf(valid[i])].at]
  <2> DEFINE none == [i \in DOMAIN available |-> [ref |-> 0, at |-> available[i].at]]
             some == [i \in DOMAIN valid |->
                        [ref |-> IndexOf(valid[i]), at |-> available[IndexOf(valid[i])].at]]
  <2>1. NormalizeImages(args) = IF valid = <<>> THEN none ELSE some
    BY DEF NormalizeImages, m
  <2>2. a \notin ToSet(none)
    BY DEF ToSet
  <2>3. a \in ToSet(some)
    <3> HIDE DEF none, some
    <3> QED BY <2>1, <2>2
  <2> HIDE DEF valid, available
  <2> QED BY <2>3 DEF ToSet
<1> HIDE DEF valid, available
<1>6. IndexOf(valid[i]) \in 1 .. m
  <2>1. valid[i] \in S
    BY <1>2, <1>5, LenProperties, ElementOfSeq
  <2> QED BY <1>4, <2>1
<1> DEFINE k == IndexOf(valid[i])
<1>7. a.ref = k /\ a.at = available[k].at /\ k \in 1 .. m
  BY <1>5, <1>6
<1> HIDE DEF k
<1>8. Labelled(images, available, k)
  BY <1>1, <1>7
<1>9. a.at \in DOMAIN images /\ images[a.at] = "ok"
      /\ Len(Available(SubSeq(images, 1, a.at))) = k
  BY <1>7, <1>8, LenProperties DEF Labelled
<1> QED
  BY <1>7, <1>9 DEF Prepared

-----------------------------------------------------------------------------
(***************************************************************************)
(* The rounds.                                                             *)
(***************************************************************************)

\* Where the loop has an answer of the round that is under way.
HasAnswer == {"deciding", "executing", "returning"}

Sequences == (\E S : messages \in Seq(S)) /\ (\E S : asked \in Seq(S))

\* Every completed round has added one answer and one turn.
Rounds ==
    /\ round \in 0 .. MaxRounds
    /\ Len(messages) = round
    /\ pc \in {"calling", "receiving"} => Len(asked) = round
    /\ pc \in HasAnswer => Len(asked) = round + 1
    /\ pc = "returned" => Len(asked) \in {round, round + 1} /\ Len(asked) <= MaxRounds
    /\ pc \in HasAnswer \cup {"receiving"} => round < MaxRounds
    /\ pc \in HasAnswer \cup {"calling", "receiving", "returned"}

\* Who gave up has used up the rounds.
Exhausted == outcome = "exhausted" => pc = "returned" /\ round = MaxRounds

Counts == Sequences /\ Rounds /\ Exhausted

-----------------------------------------------------------------------------
\* One more element.
LEMMA OneMore ==
    ASSUME NEW s, \E S : s \in Seq(S), NEW x
    PROVE  (\E S : Append(s, x) \in Seq(S)) /\ Len(Append(s, x)) = Len(s) + 1 /\ Len(s) \in Nat
<1>1. PICK S : s \in Seq(S)
  OBVIOUS
<1>2. s \in Seq(S \cup {x})
  BY <1>1, SeqMonotonic
<1>3. Append(s, x) \in Seq(S \cup {x}) /\ Len(Append(s, x)) = Len(s) + 1 /\ Len(s) \in Nat
  BY <1>2, AppendProperties, LenProperties
<1> QED
  BY <1>3

LEMMA CountsInit == Init => Counts
<1> SUFFICES ASSUME Init PROVE Counts
  OBVIOUS
<1>1. <<>> \in Seq({}) /\ Len(<<>>) = 0
  BY EmptySeq
<1> QED
  BY <1>1, MaxRoundsAssumption DEF Init, Counts, Sequences, Rounds, Exhausted, HasAnswer

\* A step that adds nothing to the histories.
LEMMA Within ==
    ASSUME Counts, UNCHANGED <<messages, asked, round>>,
           \/ pc' = pc /\ outcome' = outcome
           \/ pc \in HasAnswer /\ pc' \in HasAnswer /\ outcome' # "exhausted"
           \/ pc \in {"calling", "receiving"} /\ pc' = "returned" /\ outcome' # "exhausted"
           \/ pc = "returning" /\ pc' = "returned" /\ outcome' # "exhausted"
           \/ pc = "calling" /\ round < MaxRounds /\ pc' = "receiving" /\ outcome' # "exhausted"
    PROVE  Counts'
BY MaxRoundsAssumption DEF Counts, Sequences, Rounds, Exhausted, HasAnswer

\* The answer of a round is there.
LEMMA AnswerArrives ==
    ASSUME Counts, pc \in {"calling", "receiving"}, round < MaxRounds, pc' = "deciding",
           NEW x, asked' = Append(asked, x), UNCHANGED <<messages, round, outcome>>
    PROVE  Counts'
<1>1. (\E S : asked' \in Seq(S)) /\ Len(asked') = Len(asked) + 1 /\ Len(asked) \in Nat
  BY OneMore DEF Counts, Sequences
<1> QED
  BY <1>1, MaxRoundsAssumption DEF Counts, Sequences, Rounds, Exhausted, HasAnswer

LEMMA CountsStep == Counts /\ [Next]_vars => Counts'
<1> SUFFICES ASSUME Counts, [Next]_vars PROVE Counts'
  OBVIOUS
<1>1. CASE UNCHANGED vars \/ Returned
  BY <1>1, Within DEF Returned, vars
<1>2. CASE CallFails \/ Cancelled
  BY <1>2, Within DEF CallFails, Cancelled, Fail
<1>3. CASE Call
  <2>1. CASE pc' = "receiving"
    BY <1>3, <2>1, Within DEF Call, MayCall, Counts, Exhausted
  <2>2. CASE pc' = "deciding"
    <3>1. PICK x : asked' = Append(asked, x)
      BY <1>3, <2>2 DEF Call
    <3> QED
      BY <1>3, <2>2, <3>1, AnswerArrives DEF Call, MayCall
  <2> QED
    BY <1>3, <2>1, <2>2 DEF Call
<1>4. CASE Exhaust
  BY <1>4, MaxRoundsAssumption
     DEF Exhaust, MayCall, Counts, Sequences, Rounds, Exhausted, HasAnswer
<1>5. CASE ReceiveChunk
  BY <1>5, Within DEF ReceiveChunk
<1>6. CASE ReceiveEnd
  <2>1. round < MaxRounds
    BY <1>6 DEF ReceiveEnd, Counts, Rounds
  <2> QED
    BY <1>6, <2>1, AnswerArrives DEF ReceiveEnd
<1>7. CASE Return \/ Continue
  BY <1>7, Within DEF Return, Continue, HasAnswer, Counts, Exhausted
<1>8. CASE ExecuteTool
  BY <1>8, Within DEF ExecuteTool
<1>9. CASE NextRound
  <2>1. (\E S : messages' \in Seq(S)) /\ Len(messages') = Len(messages) + 1
        /\ Len(messages) \in Nat
    BY <1>9, OneMore DEF NextRound, Counts, Sequences
  <2> QED
    BY <1>9, <2>1, MaxRoundsAssumption
       DEF NextRound, Counts, Sequences, Rounds, Exhausted, HasAnswer
<1>10. CASE Deliver
  BY <1>10, Within DEF Deliver, Counts, Exhausted
<1> QED
  BY <1>1, <1>2, <1>3, <1>4, <1>5, <1>6, <1>7, <1>8, <1>9, <1>10 DEF Next

-----------------------------------------------------------------------------
(***************************************************************************)
(* What the loop was started with, and where it stands.                    *)
(***************************************************************************)

Started ==
    /\ kind \in Kinds
    /\ images \in Seq(Image)
    /\ prompt = Prepared(images)
    /\ choice \in {"auto", "required"}
    /\ pc \in HasAnswer \cup {"calling", "receiving", "returned"}
    /\ outcome \in {"none", "answered", "failed", "exhausted"}
    /\ (outcome = "none") = (pc \notin {"returning", "returned"})
    /\ pc = "receiving" => kind = "chatStream"

LEMMA StartedInit == Init => Started
<1>1. <<>> \in Seq(Image) /\ {"ok", "bad"} = Image
  BY EmptySeq DEF Image
<1> QED
  BY <1>1, ImagesAssumption DEF Init, Started, HasAnswer, Visual

LEMMA StartedStep == Started /\ [Next]_vars => Started'
<1> SUFFICES ASSUME Started, [Next]_vars PROVE Started'
  OBVIOUS
<1>1. CASE UNCHANGED vars \/ Returned
  BY <1>1 DEF Returned, vars, Started
<1>2. CASE CallFails \/ Cancelled
  BY <1>2 DEF CallFails, Cancelled, Fail, Started, Setting, HasAnswer
<1>3. CASE Call
  BY <1>3 DEF Call, Started, Setting, HasAnswer
<1>4. CASE Exhaust
  BY <1>4 DEF Exhaust, Started, Setting, HasAnswer
<1>5. CASE ReceiveChunk \/ ReceiveEnd
  BY <1>5 DEF ReceiveChunk, ReceiveEnd, Started, Setting, HasAnswer
<1>6. CASE Return \/ Continue
  BY <1>6 DEF Return, Continue, Started, Setting, HasAnswer
<1>7. CASE ExecuteTool
  BY <1>7 DEF ExecuteTool, Started, Setting, HasAnswer
<1>8. CASE NextRound
  BY <1>8 DEF NextRound, Started, Setting, HasAnswer
<1>9. CASE Deliver
  BY <1>9 DEF Deliver, Started, Setting, HasAnswer
<1> QED
  BY <1>1, <1>2, <1>3, <1>4, <1>5, <1>6, <1>7, <1>8, <1>9 DEF Next

-----------------------------------------------------------------------------
(***************************************************************************)
(* The usage.                                                              *)
(***************************************************************************)

\* The total has what the answers used, and before a stream has ended what its
\* answer will have used.
Used ==
    /\ Answers(asked)
    /\ answer.usage \in {0, 1}
    /\ total \in 0 .. MaxRounds
    /\ pc \in HasAnswer \cup {"calling"} => total <= Len(asked)
    /\ pc = "receiving" => total <= Len(asked) + 1
    /\ kind = "visual" => total = UsageOf(asked)
    /\ given = [calls |-> given.calls, usage |-> given.usage]
    /\ kind = "visual" /\ outcome = "answered" => given.usage = total

LEMMA UsedInit == Init => Used
BY UsageOfNone, MaxRoundsAssumption DEF Init, Used, NoAnswer

\* A step that asks nothing.
LEMMA NothingUsed ==
    ASSUME Used, UNCHANGED <<kind, asked, answer, total, given>>,
           outcome' = outcome \/ outcome' # "answered",
           \/ pc' = pc
           \/ pc' = "returned"
           \/ pc \in HasAnswer \cup {"calling"} /\ pc' \in HasAnswer \cup {"calling"}
    PROVE  Used'
BY DEF Used, HasAnswer, Answers

LEMMA UsedStep == Counts /\ Started /\ Used /\ [Next]_vars => Used'
<1> SUFFICES ASSUME Counts, Started, Used, [Next]_vars PROVE Used'
  OBVIOUS
<1>1. CASE UNCHANGED vars \/ Returned
  BY <1>1, NothingUsed DEF Returned, vars
<1>2. CASE CallFails \/ Cancelled
  BY <1>2, NothingUsed DEF CallFails, Cancelled, Fail, Setting
<1>3. CASE Call
  <2>1. PICK usage \in {0, 1}, cs \in BoundedSeq(Calls, MaxCalls), stop \in Stops :
          /\ answer' = [calls |-> Identified(cs), stop |-> stop, usage |-> usage]
          /\ total' = total + usage
          /\ IF kind = "chatStream"
             THEN pc' = "receiving" /\ read' = [i \in DOMAIN cs |-> 0] /\ UNCHANGED asked
             ELSE /\ pc' = "deciding" /\ UNCHANGED read
                  /\ asked' = Append(asked, [calls |-> Bare(answer'.calls), usage |-> usage])
    BY <1>3 DEF Call, Usages
  <2>2. pc = "calling" /\ round < MaxRounds /\ Len(asked) = round /\ round \in Nat
    BY <1>3 DEF Call, MayCall, Counts, Rounds
  <2>3. total <= round /\ total \in Nat /\ total' \in 0 .. MaxRounds /\ total' <= round + 1
    BY <2>1, <2>2, MaxRoundsAssumption DEF Used
  <2>4. UNCHANGED <<kind, given, outcome>>
    BY <1>3 DEF Call, Setting
  <2>5. answer'.usage = usage
    BY <2>1
  <2>6. outcome # "answered"
    BY <2>2 DEF Started
  <2>7. CASE kind = "chatStream"
    BY <2>1, <2>2, <2>3, <2>4, <2>5, <2>6, <2>7 DEF Used, HasAnswer, Answers
  <2>8. CASE kind # "chatStream"
    <3> DEFINE x == [calls |-> Bare(answer'.calls), usage |-> usage]
    <3>1. asked' = Append(asked, x) /\ x.usage = usage /\ pc' = "deciding"
      BY <2>1, <2>8
    <3> HIDE DEF x
    <3>2. Answers(asked') /\ UsageOf(asked') = UsageOf(asked) + usage
      BY <3>1, UsageGrows DEF Used
    <3>3. Len(asked') = Len(asked) + 1
      BY <3>1, OneMore DEF Used, Answers
    <3>4. kind = "visual" => total' = UsageOf(asked')
      BY <2>1, <3>2 DEF Used
    <3> QED
      BY <2>2, <2>3, <2>4, <2>5, <2>6, <3>1, <3>2, <3>3, <3>4 DEF Used, HasAnswer
  <2> QED
    BY <2>7, <2>8
<1>4. CASE Exhaust
  BY <1>4, NothingUsed DEF Exhaust, Setting
<1>5. CASE ReceiveChunk
  BY <1>5, NothingUsed DEF ReceiveChunk, Setting
<1>6. CASE ReceiveEnd
  <2> DEFINE x == [calls |-> Bare(Sent), usage |-> answer.usage]
  <2>1. asked' = Append(asked, x) /\ x.usage \in Nat
    BY <1>6 DEF ReceiveEnd, Used
  <2> HIDE DEF x
  <2>2. Answers(asked')
    BY <2>1, UsageGrows DEF Used
  <2>3. Len(asked') = Len(asked) + 1
    BY <2>1, OneMore DEF Used, Answers
  <2>4. kind # "visual" /\ UNCHANGED <<kind, answer, total, given, outcome>>
    BY <1>6 DEF ReceiveEnd, Started, Setting
  <2>5. pc = "receiving" /\ pc' = "deciding"
    BY <1>6 DEF ReceiveEnd
  <2> QED
    BY <2>2, <2>3, <2>4, <2>5 DEF Used, HasAnswer
<1>7. CASE Return
  <2>1. pc = "deciding" /\ pc' = "returning" /\ UNCHANGED <<kind, asked, answer, total>>
    BY <1>7 DEF Return, Setting
  <2>2. given' = [calls |-> Sent, usage |-> ReportedUsage]
    BY <1>7 DEF Return
  <2>3. given' = [calls |-> given'.calls, usage |-> given'.usage]
        /\ given'.usage = ReportedUsage
    BY <2>2
  <2> QED
    BY <2>1, <2>3 DEF Used, HasAnswer, ReportedUsage, Answers
<1>8. CASE Continue
  BY <1>8, NothingUsed DEF Continue, HasAnswer, Setting
<1>9. CASE ExecuteTool
  BY <1>9, NothingUsed DEF ExecuteTool, Setting
<1>10. CASE NextRound
  BY <1>10 DEF NextRound, Setting, Used, HasAnswer, Answers, NoAnswer
<1>11. CASE Deliver
  <2>1. PICK cs : given' = [given EXCEPT !.calls = cs]
    BY <1>11 DEF Deliver
  <2>2. given' = [calls |-> given'.calls, usage |-> given'.usage] /\ given'.usage = given.usage
    BY <2>1 DEF Used
  <2>3. pc' = "returned" /\ UNCHANGED <<kind, asked, answer, total, outcome>>
    BY <1>11 DEF Deliver, Setting
  <2> QED
    BY <2>2, <2>3 DEF Used, HasAnswer, Answers
<1> QED
  BY <1>1, <1>2, <1>3, <1>4, <1>5, <1>6, <1>7, <1>8, <1>9, <1>10, <1>11 DEF Next

-----------------------------------------------------------------------------
(***************************************************************************)
(* The answer of the round under way, and the results of its calls.        *)
(***************************************************************************)

IsSequence(s) == \E S : s \in Seq(S)

\* The calls that are executed are all the loop's own, and those before the
\* next have a result each.
Answering ==
    /\ IsSequence(slots)
    /\ pc \in HasAnswer \cup {"receiving"} =>
         /\ IsSequence(answer.calls)
         /\ \A i \in 1 .. Len(answer.calls) : answer.calls[i].args \in Seq(STRING)
    /\ pc \in HasAnswer => asked # <<>> /\ Last(asked).calls = Bare(Sent)
    /\ pc = "returning" => given.calls = Sent
    /\ pc \in {"calling", "receiving", "deciding"} => results = <<>>
    /\ pc = "executing" =>
         /\ \A i \in 1 .. Len(Taken) : Taken[i].name \in Owned
         /\ Search(Taken) = Taken
         /\ IsSequence(results)
         /\ Len(results) <= Len(Taken)
         /\ \A i \in 1 .. Len(results) : results[i].of = Key(Taken[i])

\* An answer none of whose calls is left over has the loop's calls only.
LEMMA NoOthers ==
    ASSUME IsSequence(Taken), Others(Taken) = <<>>
    PROVE  (\A i \in 1 .. Len(Taken) : Taken[i].name \in Owned) /\ Search(Taken) = Taken
<1>1. PICK S : Taken \in Seq(S)
  BY DEF IsSequence
<1> DEFINE t == Taken
           Mine == { c \in ToSet(t) : c.name \in Owned }
           Theirs == { c \in ToSet(t) : c.name \notin Owned }
<1>2. t \in Seq(S) /\ Others(t) = <<>>
  BY <1>1
<1> HIDE DEF t
<1>3. \A i \in 1 .. Len(t) : t[i] \in ToSet(t)
  BY <1>2, LenProperties DEF ToSet
<1>4. \A i \in 1 .. Len(t) : t[i] \notin Theirs
  <2>1. Those(t, Theirs) = <<>>
    BY <1>2 DEF Others
  <2> HIDE DEF Theirs
  <2> QED BY <1>2, <2>1, ThoseOf
<1>5. \A i \in 1 .. Len(t) : t[i].name \in Owned /\ t[i] \in Mine
  BY <1>3, <1>4
<1>6. Those(t, Mine) = t
  <2>1. \A i \in 1 .. Len(t) : t[i] \in Mine
    BY <1>5
  <2> HIDE DEF Mine
  <2> QED BY <1>2, <2>1, ThoseOf
<1> QED
  BY <1>5, <1>6 DEF Search, t

LEMMA AnsweringInit == Init => Answering
<1>1. <<>> \in Seq({})
  BY EmptySeq
<1> QED
  BY <1>1 DEF Init, Answering, IsSequence, HasAnswer

\* A step after which there is no answer.
LEMMA WithoutAnswer ==
    ASSUME IsSequence(slots'), pc' \notin HasAnswer \cup {"receiving"},
           pc' = "calling" => results' = <<>>
    PROVE  Answering'
BY DEF Answering, HasAnswer

\* A step that leaves what was answered and asked.
LEMMA SameAnswer ==
    ASSUME Answering, pc \in HasAnswer, pc' \in HasAnswer,
           UNCHANGED <<kind, answer, read, slots, asked>>
    PROVE  /\ IsSequence(slots') /\ IsSequence(answer'.calls)
           /\ \A i \in 1 .. Len(answer'.calls) : answer'.calls[i].args \in Seq(STRING)
           /\ asked' # <<>> /\ Last(asked').calls = Bare(Sent')
           /\ Taken' = Taken /\ Owned' = Owned /\ \A c : Key(c)' = Key(c)
BY DEF Answering, Sent, Taken, Owned, Visual, Chat, Key

\* The arguments of a call are a text.
LEMMA ArgsAreTexts == \A c \in Calls : c.args \in Seq(STRING)
<1> SUFFICES ASSUME NEW n \in Offered \cup Invented, NEW c \in [name : {n}, args : ArgsOf[n]]
             PROVE  c.args \in Seq(STRING)
  BY DEF Calls
<1>1. n \in ClientTools \cup Invented \cup InjectedTools \cup VisualTools
  BY DEF Offered, WithSearchTools
<1> QED
  BY <1>1, ArgsAssumption

LEMMA AnsweringStep == Counts /\ Started /\ Used /\ Answering /\ [Next]_vars => Answering'
<1> SUFFICES ASSUME Counts, Started, Used, Answering, [Next]_vars PROVE Answering'
  OBVIOUS
<1>1. CASE UNCHANGED vars \/ Returned
  BY <1>1 DEF Returned, vars, Answering, Sent, Taken, Owned, Visual, Chat, Key, Search
<1>2. CASE CallFails \/ Cancelled \/ Exhaust \/ Deliver
  <2>1. slots' = slots /\ pc' = "returned"
    BY <1>2 DEF CallFails, Cancelled, Fail, Exhaust, Deliver
  <2> QED
    BY <2>1, WithoutAnswer DEF Answering, HasAnswer
<1>3. CASE NextRound
  <2>1. slots' = <<>> /\ pc' = "calling" /\ results' = <<>>
    BY <1>3 DEF NextRound
  <2>2. <<>> \in Seq({})
    BY EmptySeq
  <2> QED
    BY <2>1, <2>2, WithoutAnswer DEF IsSequence, HasAnswer
<1>4. CASE Call
  <2>1. PICK cs \in BoundedSeq(Calls, MaxCalls), stop \in Stops, usage \in Usages :
          /\ answer' = [calls |-> Identified(cs), stop |-> stop, usage |-> usage]
          /\ IF kind = "chatStream"
             THEN pc' = "receiving" /\ read' = [i \in DOMAIN cs |-> 0] /\ UNCHANGED asked
             ELSE /\ pc' = "deciding" /\ UNCHANGED read
                  /\ asked' = Append(asked, [calls |-> Bare(answer'.calls), usage |-> usage])
    BY <1>4 DEF Call
  <2>2. cs \in Seq(Calls)
    BY <2>1 DEF BoundedSeq, SeqOf
  <2> DEFINE ids == Identified(cs)
  <2>3. /\ IsSequence(ids)
        /\ \A i \in 1 .. Len(ids) : ids[i].args \in Seq(STRING)
    <3>1. DOMAIN cs = 1 .. Len(cs) /\ Len(cs) \in Nat /\ \A i \in 1 .. Len(cs) : cs[i] \in Calls
      BY <2>2, LenProperties, ElementOfSeq
    <3>2. ids = [i \in 1 .. Len(cs) |->
                   [id |-> <<round, i>>, name |-> cs[i].name, args |-> cs[i].args]]
      BY <3>1 DEF Identified
    <3> DEFINE S == { ids[i] : i \in 1 .. Len(cs) }
    <3> HIDE DEF ids
    <3>3. ids \in [1 .. Len(cs) -> S]
      BY <3>2
    <3> HIDE DEF S
    <3>4. ids \in Seq(S) /\ Len(ids) = Len(cs)
      BY <3>1, <3>3, SeqDef
    <3>5. \A i \in 1 .. Len(cs) : ids[i].args \in Seq(STRING)
      BY <3>1, <3>2, ArgsAreTexts
    <3> QED BY <3>4, <3>5 DEF IsSequence
  <2> HIDE DEF ids
  <2>4. answer'.calls = ids
    BY <2>1 DEF ids
  <2>5. UNCHANGED <<kind, slots, results>> /\ results = <<>>
    BY <1>4 DEF Call, Setting, Answering
  <2>6. CASE kind = "chatStream"
    BY <2>1, <2>3, <2>4, <2>5, <2>6 DEF Answering, HasAnswer
  <2>7. CASE kind # "chatStream"
    <3> DEFINE x == [calls |-> Bare(answer'.calls), usage |-> usage]
    <3>1. asked' = Append(asked, x) /\ x.calls = Bare(answer'.calls) /\ pc' = "deciding"
      BY <2>1, <2>7
    <3> HIDE DEF x
    <3>2. asked' # <<>> /\ Last(asked') = x
      <4>1. Len(asked') = Len(asked) + 1 /\ Len(asked) \in Nat
            /\ asked'[Len(asked) + 1] = x
        <5>1. PICK S : asked \in Seq(S)
          BY DEF Used, Answers
        <5>2. asked \in Seq(S \cup {x})
          BY <5>1, SeqMonotonic
        <5> QED BY <3>1, <5>2, AppendProperties, LenProperties
      <4> QED BY <4>1, EmptySeq DEF Last
    <3>3. Sent' = answer'.calls
      BY <2>5, <2>7 DEF Sent
    <3> QED
      BY <2>3, <2>4, <2>5, <3>1, <3>2, <3>3 DEF Answering, HasAnswer
  <2> QED
    BY <2>6, <2>7
<1>5. CASE ReceiveChunk
  <2>1. PICK c, part : slots' = Collect(c, part)
    BY <1>5 DEF ReceiveChunk
  <2>2. PICK S : slots \in Seq(S)
    BY DEF Answering, IsSequence
  <2>3. IsSequence(slots')
    <3> DEFINE k == SlotOf(c.id)
               new == [c EXCEPT !.args = part]
               more == [slots[k] EXCEPT !.args = AppendToolCallArgs(slots[k].args, part)]
    <3>1. slots' = IF k = 0 THEN Append(slots, new) ELSE [slots EXCEPT ![k] = more]
      BY <2>1 DEF Collect
    <3> HIDE DEF k, new, more
    <3>2. CASE k = 0
      BY <2>2, <3>1, <3>2, OneMore DEF IsSequence
    <3>3. CASE k # 0
      <4>1. slots \in [1 .. Len(slots) -> S] /\ Len(slots) \in Nat
        BY <2>2, LenProperties
      <4>2. [slots EXCEPT ![k] = more] \in [1 .. Len(slots) -> S \cup {more}]
        BY <4>1
      <4>3. slots' \in Seq(S \cup {more})
        BY <3>1, <3>3, <4>1, <4>2, SeqDef
      <4> QED BY <4>3 DEF IsSequence
    <3> QED BY <3>2, <3>3
  <2>4. pc = "receiving" /\ UNCHANGED <<pc, answer, results>>
    BY <1>5 DEF ReceiveChunk
  <2> QED
    BY <2>3, <2>4 DEF Answering, HasAnswer
<1>6. CASE ReceiveEnd
  <2> DEFINE x == [calls |-> Bare(Sent), usage |-> answer.usage]
  <2>1. asked' = Append(asked, x) /\ x.calls = Bare(Sent)
    BY <1>6 DEF ReceiveEnd
  <2> HIDE DEF x
  <2>2. asked' # <<>> /\ Last(asked') = x
    <3>1. Len(asked') = Len(asked) + 1 /\ Len(asked) \in Nat
          /\ asked'[Len(asked) + 1] = x
      <4>1. PICK S : asked \in Seq(S)
        BY DEF Used, Answers
      <4>2. asked \in Seq(S \cup {x})
        BY <4>1, SeqMonotonic
      <4> QED BY <2>1, <4>2, AppendProperties, LenProperties
    <3> QED BY <3>1, EmptySeq DEF Last
  <2>3. pc = "receiving" /\ pc' = "deciding" /\ UNCHANGED <<kind, answer, read, slots, results>>
    BY <1>6 DEF ReceiveEnd, Setting
  <2>4. Sent' = Sent
    BY <2>3 DEF Sent
  <2> QED
    BY <2>1, <2>2, <2>3, <2>4 DEF Answering, HasAnswer
<1>7. CASE Return
  <2>1. pc = "deciding" /\ pc' = "returning" /\ UNCHANGED <<kind, answer, read, slots, asked>>
    BY <1>7 DEF Return, Setting
  <2>2. given'.calls = Sent
    BY <1>7 DEF Return
  <2>3. Sent' = Sent
    BY <2>1 DEF Sent
  <2> QED
    BY <2>1, <2>2, <2>3, SameAnswer DEF Answering, HasAnswer
<1>8. CASE Continue
  <2>1. /\ pc = "deciding" /\ pc' = "executing" /\ ~Settled
        /\ UNCHANGED <<kind, answer, read, slots, asked, results>>
    BY <1>8 DEF Continue, Setting
  <2>2. IsSequence(Taken)
    BY <2>1 DEF Answering, Taken, HasAnswer
  <2>3. Others(Taken) = <<>>
    BY <2>1 DEF Settled, SettledVisual, SettledChat, SettledGoogle, SettledStream,
                SettledMessage, Taken, Visual, Chat
  <2>4. (\A i \in 1 .. Len(Taken) : Taken[i].name \in Owned) /\ Search(Taken) = Taken
    BY <2>2, <2>3, NoOthers
  <2>5. results' = <<>> /\ Len(<<>>) = 0 /\ <<>> \in Seq({}) /\ Len(Taken) \in Nat
    BY <2>1, <2>2, EmptySeq, LenProperties DEF Answering, IsSequence
  <2>6. Search(Taken)' = Search(Taken)
    BY <2>1 DEF Search, Taken, Owned, Visual, Chat
  <2> QED
    BY <2>1, <2>4, <2>5, <2>6, SameAnswer DEF Answering, HasAnswer, IsSequence
<1>9. CASE ExecuteTool
  <2>1. /\ pc = "executing" /\ pc' = "executing" /\ Len(results) < Len(Search(Taken))
        /\ UNCHANGED <<kind, answer, read, slots, asked>>
    BY <1>9 DEF ExecuteTool, Setting
  <2>2. /\ \A i \in 1 .. Len(Taken) : Taken[i].name \in Owned
        /\ Search(Taken) = Taken
        /\ IsSequence(results)
        /\ \A i \in 1 .. Len(results) : results[i].of = Key(Taken[i])
    BY <2>1 DEF Answering
  <2>3. PICK ok : results' = Append(results, ResultOf(Pending, ok))
    BY <1>9 DEF ExecuteTool
  <2> DEFINE x == ResultOf(Pending, ok)
  <2>4. x.of = Key(Taken[Len(results) + 1])
    BY <2>2 DEF ResultOf, Pending
  <2>5. results' = Append(results, x)
    BY <2>3
  <2> HIDE DEF x
  <2>6. /\ IsSequence(results') /\ Len(results') = Len(results) + 1 /\ Len(results) \in Nat
        /\ \A i \in 1 .. Len(results) : results'[i] = results[i]
        /\ results'[Len(results) + 1] = x
    <3>1. PICK S : results \in Seq(S)
      BY <2>2 DEF IsSequence
    <3>2. results \in Seq(S \cup {x})
      BY <3>1, SeqMonotonic
    <3> QED BY <2>5, <3>2, AppendProperties, LenProperties DEF IsSequence
  <2>7. \A i \in 1 .. Len(results') : results'[i].of = Key(Taken[i])
    <3> TAKE i \in 1 .. Len(results')
    <3>1. i = Len(results) + 1 \/ i \in 1 .. Len(results)
      BY <2>6
    <3> QED BY <2>2, <2>4, <2>6, <3>1
  <2>8. Len(Taken) \in Nat /\ Len(results') <= Len(Taken)
    <3>1. IsSequence(Taken)
      BY <2>1 DEF Answering, Taken, HasAnswer
    <3>2. Len(Taken) \in Nat
      BY <3>1, LenProperties DEF IsSequence
    <3> QED BY <2>1, <2>2, <2>6, <3>2
  <2>9. Search(Taken)' = Search(Taken)
    BY <2>1 DEF Search, Taken, Owned, Visual, Chat
  <2> QED
    BY <2>1, <2>2, <2>6, <2>7, <2>8, <2>9, SameAnswer DEF Answering, HasAnswer
<1> QED
  BY <1>1, <1>2, <1>3, <1>4, <1>5, <1>6, <1>7, <1>8, <1>9 DEF Next

-----------------------------------------------------------------------------
(***************************************************************************)
(* The conversation that is sent upstream again.                           *)
(***************************************************************************)

\* The results of a turn are those of its calls, all of them the loop's own.
Answered(turn) ==
    LET calls == turn[1].calls
    IN  /\ FlattenSeq([i \in DOMAIN Tail(turn) |-> turn[i + 1].of])
             = [i \in DOMAIN calls |-> Key(calls[i])]
        /\ \A i \in DOMAIN calls : calls[i].name \in Owned

History == \A n \in 1 .. Len(messages) : Answered(messages[n])

\* The keys of some calls, in order.
Keys(calls) == [i \in DOMAIN calls |-> Key(calls[i])]

LEMMA TurnAnswers ==
    ASSUME Answering, pc = "executing", Len(results) = Len(Search(Taken))
    PROVE  Answered(Turn)
<1> DEFINE t == Taken
           rs == results
           n == Len(t)
<1>1. /\ \A i \in 1 .. n : t[i].name \in Owned
      /\ IsSequence(rs) /\ Len(rs) = n
      /\ \A i \in 1 .. n : rs[i].of = Key(t[i])
  BY DEF Answering
<1>2. IsSequence(t)
  BY DEF Answering, Taken, HasAnswer
<1>3. Turn = MessageTurn(t, rs) \/ Turn = ChatTurn(t, rs)
  BY DEF Turn, VisualTurn, GoogleTurn, MessageTurn
<1> HIDE DEF t, rs
<1>4. DOMAIN t = 1 .. n /\ DOMAIN rs = 1 .. n /\ n \in Nat
  BY <1>1, <1>2, LenProperties DEF IsSequence
<1> HIDE DEF n
<1> DEFINE ks == [i \in 1 .. n |-> Key(t[i])]
           K == { ks[i] : i \in 1 .. n }
           b == Bare(t)
<1>5. DOMAIN b = 1 .. n /\ \A i \in 1 .. n : b[i].name = t[i].name /\ Key(b[i]) = Key(t[i])
  BY <1>4 DEF Bare, Key
<1> HIDE DEF b
<1>6. [i \in DOMAIN b |-> Key(b[i])] = ks
  BY <1>5
<1>7. \A i \in DOMAIN b : b[i].name \in Owned
  BY <1>1, <1>4, <1>5
<1>8. ks \in Seq(K) /\ Len(ks) = n /\ \A i \in 1 .. n : ks[i] = rs[i].of
  <2>1. ks \in [1 .. n -> K]
    OBVIOUS
  <2>2. \A i \in 1 .. n : ks[i] = rs[i].of
    BY <1>1, <1>4
  <2> HIDE DEF ks, K
  <2> QED BY <1>4, <2>1, <2>2, SeqDef
<1>9. ks = [i \in 1 .. n |-> rs[i].of]
  BY <1>1, <1>4
<1> HIDE DEF ks, K
<1> DEFINE flat(turn) == [i \in DOMAIN Tail(turn) |-> turn[i + 1].of]
<1>10. ASSUME NEW turn, turn[1].calls = b, FlattenSeq(flat(turn)) = ks PROVE Answered(turn)
  BY <1>6, <1>7, <1>10 DEF Answered
<1>11. Assistant(t).calls = b
  BY DEF Assistant, b
<1>12. CASE Turn = MessageTurn(t, rs)
  <2> DEFINE r == Results(rs)
             turn == <<Assistant(t), r>>
             ss == flat(turn)
  <2>1. r.of = ks
    BY <1>4, <1>9 DEF Results
  <2> HIDE DEF r
  <2>2. Tail(turn) = <<r>> /\ turn[1] = Assistant(t) /\ turn[2] = r
    OBVIOUS
  <2>3. DOMAIN Tail(turn) = 1 .. 1
    BY <2>2
  <2>4. ss = [i \in 1 .. 1 |-> turn[i + 1].of]
    BY <2>3
  <2>5. Len(ss) = 1 /\ ss[1] = ks
    <3>1. ss = [i \in 1 .. 1 |-> ks]
      BY <2>1, <2>2, <2>4
    <3>2. [i \in 1 .. 1 |-> ks] = <<ks>>
      OBVIOUS
    <3> HIDE DEF ss
    <3> QED BY <3>1, <3>2
  <2>6. FlattenSeq(flat(turn)) = ks
    <3> HIDE DEF turn, flat
    <3> QED BY <2>5, FlattenOne
  <2>7. turn[1].calls = b
    BY <1>11, <2>2
  <2>8. Turn = turn
    BY <1>12 DEF MessageTurn, r
  <2> HIDE DEF turn, flat
  <2> QED BY <1>10, <2>6, <2>7, <2>8
<1>13. CASE Turn = ChatTurn(t, rs)
  <2> DEFINE tail == [i \in DOMAIN rs |-> Results(<<rs[i]>>)]
             head == Assistant(t)
             S == { tail[i] : i \in 1 .. n } \cup {head}
             turn == <<head>> \o tail
             ss == flat(turn)
  <2>1. \A i \in 1 .. n : tail[i].of = <<rs[i].of>>
    <3> TAKE i \in 1 .. n
    <3>1. tail[i] = Results(<<rs[i]>>)
      BY <1>4
    <3>2. Results(<<rs[i]>>).of = [j \in 1 .. 1 |-> <<rs[i]>>[j].of]
      BY DEF Results
    <3>3. [j \in 1 .. 1 |-> <<rs[i]>>[j].of] = <<rs[i].of>>
      OBVIOUS
    <3> HIDE DEF tail
    <3> QED BY <3>1, <3>2, <3>3
  <2>2. tail \in [1 .. n -> S]
    BY <1>4
  <2>3. tail \in Seq(S) /\ Len(tail) = n
    <3> HIDE DEF tail, S
    <3> QED BY <1>4, <2>2, SeqDef
  <2>4. <<head>> \in Seq(S) /\ Len(<<head>>) = 1 /\ <<head>>[1] = head
    OBVIOUS
  <2>5. Turn = turn
    BY <1>13 DEF ChatTurn
  <2> HIDE DEF tail, head, S
  <2>6. /\ turn \in Seq(S) /\ Len(turn) = 1 + n
        /\ turn[1] = head
        /\ \A i \in 1 .. n : turn[i + 1] = tail[i]
    <3>1. /\ turn \in Seq(S) /\ Len(turn) = Len(<<head>>) + Len(tail)
          /\ \A i \in 1 .. Len(<<head>>) + Len(tail) :
               turn[i] = IF i <= Len(<<head>>) THEN <<head>>[i] ELSE tail[i - Len(<<head>>)]
      BY <2>3, <2>4, ConcatProperties
    <3> HIDE DEF turn
    <3>2. /\ turn \in Seq(S) /\ Len(turn) = 1 + n
          /\ \A i \in 1 .. 1 + n : turn[i] = IF i <= 1 THEN <<head>>[i] ELSE tail[i - 1]
      BY <2>3, <2>4, <3>1
    <3>3. turn[1] = head
      BY <1>4, <2>4, <3>2
    <3>4. \A i \in 1 .. n : i + 1 \in 1 .. 1 + n /\ ~ (i + 1 <= 1) /\ (i + 1) - 1 = i
      BY <1>4
    <3> QED BY <3>2, <3>3, <3>4
  <2> HIDE DEF turn
  <2>7. turn # <<>>
    BY <1>4, <2>6, EmptySeq
  <2>8. DOMAIN Tail(turn) = 1 .. n
    BY <1>4, <2>6, <2>7, HeadTailProperties, LenProperties
  <2>9. ss = [i \in 1 .. n |-> <<ks[i]>>]
    <3>1. \A i \in 1 .. n : turn[i + 1].of = <<ks[i]>>
      BY <1>8, <2>1, <2>6
    <3> QED BY <2>8, <3>1
  <2>10. FlattenSeq(flat(turn)) = ks
    <3> HIDE DEF flat
    <3> QED BY <1>8, <2>9, FlattenEach
  <2>11. turn[1].calls = b
    BY <1>11, <2>6 DEF head
  <2> HIDE DEF flat
  <2> QED BY <1>10, <2>5, <2>10, <2>11
<1> QED
  BY <1>3, <1>12, <1>13

LEMMA HistoryInit == Init => History
BY EmptySeq DEF Init, History

LEMMA HistoryStep == Counts /\ Answering /\ History /\ [Next]_vars => History'
<1> SUFFICES ASSUME Counts, Answering, History, [Next]_vars PROVE History'
  OBVIOUS
<1>1. kind' = kind
  BY DEF Next, Returned, vars, CallFails, Cancelled, Fail, Call, Exhaust, ReceiveChunk, ReceiveEnd,
         Return, Continue, ExecuteTool, NextRound, Deliver, Setting
<1>2. CASE NextRound
  <2>1. messages' = Append(messages, Turn)
    BY <1>2 DEF NextRound
  <2>2. Answered(Turn)
    BY <1>2, TurnAnswers DEF NextRound
  <2> DEFINE x == Turn
  <2>3. messages' = Append(messages, x) /\ Answered(x)
    BY <2>1, <2>2
  <2> HIDE DEF x
  <2>4. /\ Len(messages') = Len(messages) + 1 /\ Len(messages) \in Nat
        /\ \A n \in 1 .. Len(messages) : messages'[n] = messages[n]
        /\ messages'[Len(messages) + 1] = x
    <3>1. PICK S : messages \in Seq(S)
      BY DEF Counts, Sequences
    <3>2. messages \in Seq(S \cup {x})
      BY <3>1, SeqMonotonic
    <3> QED BY <2>3, <3>2, AppendProperties, LenProperties
  <2>5. ASSUME NEW n \in 1 .. Len(messages') PROVE Answered(messages'[n])
    <3>1. n \in 1 .. Len(messages) \/ n = Len(messages) + 1
      BY <2>4
    <3> QED BY <2>3, <2>4, <3>1 DEF History
  <2> QED
    BY <1>1, <2>5 DEF History, Answered, Key, Owned, Visual, Chat
<1>3. CASE ~ NextRound
  <2>1. messages' = messages
    BY <1>3 DEF Next, Returned, vars, CallFails, Cancelled, Fail, Call, Exhaust, ReceiveChunk,
                ReceiveEnd, Return, Continue, ExecuteTool, Deliver
  <2> QED
    BY <1>1, <2>1 DEF History, Answered, Key, Owned, Visual, Chat
<1> QED
  BY <1>2, <1>3

-----------------------------------------------------------------------------
(***************************************************************************)
(* What the client has been handed.                                        *)
(***************************************************************************)

\* Only a loop whose answers come whole has its answer replayed, and what went
\* out has the calls of the upstream's last answer.
Handed ==
    /\ delivery # "whole" => kind # "chatStream"
    /\ pc = "returned" /\ outcome = "answered" /\ delivery # "imageStream" =>
         Bare(given.calls) = Last(asked).calls

LEMMA HandedInit == Init => Handed
BY DEF Init, Handed, Deliveries

LEMMA HandedStep == Used /\ Answering /\ Handed /\ [Next]_vars => Handed'
<1> SUFFICES ASSUME Used, Answering, Handed, [Next]_vars PROVE Handed'
  OBVIOUS
<1>1. UNCHANGED <<kind, delivery>>
  BY DEF Next, Returned, vars, CallFails, Cancelled, Fail, Call, Exhaust, ReceiveChunk, ReceiveEnd,
         Return, Continue, ExecuteTool, NextRound, Deliver, Setting
<1>2. CASE Deliver
  <2>1. SUFFICES ASSUME delivery # "imageStream" PROVE Bare(given'.calls) = Last(asked).calls
    BY <1>1, <1>2 DEF Handed, Deliver
  <2>2. Last(asked).calls = Bare(Sent) /\ given.calls = Sent
    BY <1>2 DEF Deliver, Answering, HasAnswer
  <2>3. given'.calls = IF delivery = "coreStream" THEN Announced(CoreResponseToCoreStream(given.calls))
                       ELSE given.calls
    BY <1>2, <2>1 DEF Deliver, Used
  <2>4. delivery = "coreStream" => Announced(CoreResponseToCoreStream(given.calls)) = given.calls
    <3> SUFFICES ASSUME delivery = "coreStream"
                 PROVE  Announced(CoreResponseToCoreStream(given.calls)) = given.calls
      OBVIOUS
    <3>1. IsSequence(answer.calls) /\ Sent = answer.calls
      BY <1>2 DEF Deliver, Answering, HasAnswer, Handed, Sent
    <3>2. PICK T : given.calls \in Seq(T)
      BY <2>2, <3>1 DEF IsSequence
    <3> QED BY <3>2, ReplayHasCalls
  <2> QED
    BY <2>2, <2>3, <2>4
<1>3. CASE CallFails \/ Cancelled \/ Exhaust
  BY <1>1, <1>3 DEF Handed, CallFails, Cancelled, Exhaust, Fail
<1>4. CASE Call \/ ReceiveChunk \/ ReceiveEnd \/ Return \/ Continue \/ ExecuteTool \/ NextRound
  <2>1. pc' # "returned"
    BY <1>4 DEF Call, ReceiveChunk, ReceiveEnd, Return, Continue, ExecuteTool, NextRound
  <2> QED
    BY <1>1, <2>1 DEF Handed
<1>5. CASE Returned \/ UNCHANGED vars
  BY <1>5 DEF Handed, Returned, vars
<1> QED
  BY <1>2, <1>3, <1>4, <1>5 DEF Next

-----------------------------------------------------------------------------
(***************************************************************************)
(* The images that were looked at.                                         *)
(***************************************************************************)

LEMMA AnalysedStep ==
    Started /\ Answering /\ AnalysedAsLabelled /\ [Next]_vars => AnalysedAsLabelled'
<1> SUFFICES ASSUME Started, Answering, AnalysedAsLabelled, [Next]_vars
             PROVE  AnalysedAsLabelled'
  OBVIOUS
<1>1. prompt' = prompt
  BY DEF Next, Returned, vars, CallFails, Cancelled, Fail, Call, Exhaust, ReceiveChunk, ReceiveEnd,
         Return, Continue, ExecuteTool, NextRound, Deliver, Setting
<1>2. CASE analysed' = analysed
  BY <1>1, <1>2 DEF AnalysedAsLabelled
<1>3. CASE analysed' # analysed
  <2>1. ExecuteTool /\ Visual /\ analysed' = analysed \cup ToSet(NormalizeImages(Pending.args))
    BY <1>3 DEF Next, Returned, vars, CallFails, Cancelled, Fail, Call, Exhaust, ReceiveChunk,
                ReceiveEnd, Return, Continue, ExecuteTool, NextRound, Deliver
  <2>2. Pending.args \in Seq(STRING)
    <3>1. /\ pc = "executing" /\ Taken = answer.calls /\ Search(Taken) = Taken
          /\ Len(results) < Len(Taken) /\ IsSequence(results) /\ IsSequence(answer.calls)
          /\ \A i \in 1 .. Len(answer.calls) : answer.calls[i].args \in Seq(STRING)
      BY <2>1 DEF ExecuteTool, Answering, HasAnswer, Taken, Visual
    <3>2. Len(results) \in Nat /\ Len(Taken) \in Nat
      BY <3>1, LenProperties DEF IsSequence
    <3>3. Len(results) + 1 \in 1 .. Len(answer.calls)
      BY <3>1, <3>2
    <3> QED BY <3>1, <3>3 DEF Pending
  <2>3. ASSUME NEW a \in ToSet(NormalizeImages(Pending.args)), a.ref > 0
        PROVE  prompt[a.at] = a.ref
    <3> DEFINE args == Pending.args
    <3>1. args \in Seq(STRING) /\ a \in ToSet(NormalizeImages(args))
      BY <2>2, <2>3
    <3> HIDE DEF args
    <3> QED BY <2>3, <3>1, ReferencesMeanLabels DEF Started
  <2> QED
    BY <1>1, <2>1, <2>3 DEF AnalysedAsLabelled
<1> QED
  BY <1>2, <1>3

-----------------------------------------------------------------------------
IInv == Counts /\ Started /\ Used /\ Answering /\ History /\ Handed /\ AnalysedAsLabelled

LEMMA InitInv == Init => IInv
<1>1. Init => AnalysedAsLabelled
  BY DEF Init, AnalysedAsLabelled
<1> QED
  BY <1>1, CountsInit, StartedInit, UsedInit, AnsweringInit, HistoryInit, HandedInit DEF IInv

LEMMA NextInv == IInv /\ [Next]_vars => IInv'
BY CountsStep, StartedStep, UsedStep, AnsweringStep, HistoryStep, HandedStep, AnalysedStep DEF IInv

\* No more upstream calls than configured, and giving up only after as many
\* rounds, each of whose calls was run and answered.
THEOREM StopsAtItsLimit == Spec => []StopsAtLimit
<1>1. IInv => StopsAtLimit
  BY MaxRoundsAssumption DEF IInv, Counts, Rounds, Exhausted, StopsAtLimit, HasAnswer
<1> QED
  BY <1>1, InitInv, NextInv, PTL DEF Spec

\* What a loop sends upstream again has, for each call it took, one result, in
\* the order of the calls and under the name or the id that belongs to it.
THEOREM AllCallsAnswered == Spec => []EveryCallAnswered
<1>1. ASSUME IInv PROVE EveryCallAnswered
  <2>1. Len(prompt) = Len(images)
    <3>1. images \in Seq(Image) /\ prompt = Prepared(images)
      BY <1>1 DEF IInv, Started
    <3>2. DOMAIN images = 1 .. Len(images) /\ Len(images) \in Nat
      BY <3>1, LenProperties
    <3>3. DOMAIN prompt = 1 .. Len(images) /\ prompt = [i \in 1 .. Len(images) |-> prompt[i]]
      BY <3>1, <3>2 DEF Prepared
    <3> DEFINE S == { prompt[i] : i \in 1 .. Len(images) }
    <3>4. prompt \in [1 .. Len(images) -> S]
      BY <3>3
    <3> HIDE DEF S
    <3> QED BY <3>2, <3>4, SeqDef
  <2>2. TypeOK
    BY <1>1, <2>1 DEF IInv, Started, Used, Counts, Rounds, TypeOK, HasAnswer
  <2>3. DOMAIN messages = 1 .. Len(messages)
    BY <1>1, LenProperties DEF IInv, Counts, Sequences
  <2>4. Len(messages) = round
    BY <1>1 DEF IInv, Counts, Rounds
  <2> QED
    BY <1>1, <2>2, <2>3, <2>4 DEF EveryCallAnswered, IInv, History, Answered
<1> QED
  BY <1>1, InitInv, NextInv, PTL DEF Spec

\* No loop runs on over a call that is the client's, and when the answer has
\* gone out, whole or replayed as a stream, the client has all the calls that
\* the upstream's last answer had, in their order.  Not of the stream for a
\* request with an image, which has no calls.
THEOREM ClientsCallsReturned == Spec => []ClientCallsReturned
<1>1. ASSUME IInv PROVE ClientCallsReturned
  <2>1. DOMAIN messages = 1 .. Len(messages)
    BY <1>1, LenProperties DEF IInv, Counts, Sequences
  <2>2. \A n \in DOMAIN messages : \A i \in DOMAIN messages[n][1].calls :
           messages[n][1].calls[i].name \in Owned
    BY <1>1, <2>1 DEF IInv, History, Answered
  <2> QED
    BY <1>1, <2>2 DEF ClientCallsReturned, IInv, Handed
<1> QED
  BY <1>1, InitInv, NextInv, PTL DEF Spec

\* The visual loop reports the usage of all its rounds.
THEOREM UsageAddsUp == Spec => []UsageIsSum
<1>1. IInv => UsageIsSum
  BY DEF IInv, Used, UsageIsSum
<1> QED
  BY <1>1, InitInv, NextInv, PTL DEF Spec

\* "Image #n" is, whatever images are unreadable, the one whose label says n.
THEOREM ImagesAsLabelled == Spec => []AnalysedAsLabelled
<1>1. IInv => AnalysedAsLabelled
  BY DEF IInv
<1> QED
  BY <1>1, InitInv, NextInv, PTL DEF Spec
=============================================================================

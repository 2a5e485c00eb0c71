----------------------------- MODULE RequestProofs -----------------------------
(***************************************************************************)
(* What holds of the conversion of requests and of their answers, for      *)
(* every set of tools, contents, shapes of answers and cache settings and  *)
(* for conversations of every length: the calls that come back to the      *)
(* client are those of the tools it declared, and the blocks of an         *)
(* Anthropic request that are marked for the prompt cache reach its end.   *)
(***************************************************************************)
EXTENDS RequestConversion, SequenceTheorems, FiniteSetTheorems, WellFoundedInduction, TLAPS

-----------------------------------------------------------------------------
(* Sequences and their concatenation.                                      *)

IsSeq(e) == \E S : e \in Seq(S)

LEMMA EmptyIsSeq == IsSeq(<<>>) /\ Len(<<>>) = 0
<1>1. <<>> \in Seq({}) /\ Len(<<>>) = 0
  OBVIOUS
<1> QED BY <1>1 DEF IsSeq

LEMMA SharedSet ==
    ASSUME NEW a, NEW b, IsSeq(a), IsSeq(b)
    PROVE  \E S : a \in Seq(S) /\ b \in Seq(S)
<1>1. PICK S : a \in Seq(S)
  BY DEF IsSeq
<1>2. PICK U : b \in Seq(U)
  BY DEF IsSeq
<1>3. S \subseteq S \cup U /\ U \subseteq S \cup U
  OBVIOUS
<1>4. a \in Seq(S \cup U)
  BY <1>1, <1>3, SeqMonotonic
<1>5. b \in Seq(S \cup U)
  BY <1>2, <1>3, SeqMonotonic
<1> QED BY <1>4, <1>5

\* The elements of a concatenation.
Joined(a, b, ab) ==
    /\ Len(a) \in Nat /\ Len(b) \in Nat /\ Len(ab) = Len(a) + Len(b)
    /\ \A k \in 1 .. Len(a) : ab[k] = a[k]
    /\ \A k \in 1 .. Len(b) : ab[Len(a) + k] = b[k]

LEMMA JoinedTyped ==
    ASSUME NEW S, NEW a \in Seq(S), NEW b \in Seq(S)
    PROVE  a \o b \in Seq(S) /\ Joined(a, b, a \o b)
<1>1. Len(a) \in Nat /\ Len(b) \in Nat
  BY LenProperties
<1>2. /\ a \o b \in Seq(S)
      /\ Len(a \o b) = Len(a) + Len(b)
      /\ \A k \in 1 .. Len(a) + Len(b) : (a \o b)[k] = IF k <= Len(a) THEN a[k] ELSE b[k - Len(a)]
  BY ConcatProperties
<1>3. \A k \in 1 .. Len(a) : (a \o b)[k] = a[k]
  BY <1>1, <1>2
<1>4. ASSUME NEW k \in 1 .. Len(b) PROVE (a \o b)[Len(a) + k] = b[k]
  <2>1. Len(a) + k \in 1 .. Len(a) + Len(b) /\ ~(Len(a) + k <= Len(a)) /\ (Len(a) + k) - Len(a) = k
    BY <1>1
  <2> QED BY <1>2, <2>1
<1> QED BY <1>1, <1>2, <1>3, <1>4 DEF Joined

LEMMA JoinedSeqs ==
    ASSUME NEW a, NEW b, IsSeq(a), IsSeq(b)
    PROVE  IsSeq(a \o b) /\ Joined(a, b, a \o b)
<1>1. PICK S : a \in Seq(S) /\ b \in Seq(S)
  BY SharedSet
<1>2. a \o b \in Seq(S) /\ Joined(a, b, a \o b)
  BY <1>1, JoinedTyped
<1> QED BY <1>2 DEF IsSeq

\* Where an element of a concatenation is from.
FromOne(a, b, ab, k) ==
    \/ k \in 1 .. Len(a) /\ ab[k] = a[k]
    \/ \E l \in 1 .. Len(b) : k = Len(a) + l /\ ab[k] = b[l]

LEMMA ElementOfBoth ==
    ASSUME NEW front, NEW back, NEW whole, Joined(front, back, whole), NEW place \in 1 .. Len(whole)
    PROVE  FromOne(front, back, whole, place)
<1>1. CASE place <= Len(front)
  BY <1>1 DEF Joined, FromOne
<1>2. CASE place > Len(front)
  <2>1. place - Len(front) \in 1 .. Len(back) /\ place = Len(front) + (place - Len(front))
    BY <1>2 DEF Joined
  <2>2. whole[place] = back[place - Len(front)]
    BY <2>1 DEF Joined
  <2> QED BY <2>1, <2>2 DEF FromOne
<1> QED BY <1>1, <1>2 DEF Joined

-----------------------------------------------------------------------------
(* Recursion over the natural numbers up to a bound.                       *)

LEMMA LessOnNat == \A x, y \in Nat : <<x, y>> \in OpToRel(<, Nat) <=> x < y
BY DEF OpToRel

\* A set of naturals with 0 and all successors of its elements has all: there
\* is no least one among the others.
LEMMA Induction ==
    ASSUME NEW S \in SUBSET Nat, 0 \in S, \A n \in S : n + 1 \in S
    PROVE  S = Nat
<1> DEFINE Less == OpToRel(<, Nat)
           Rest == Nat \ S
<1>1. IsWellFoundedOn(Less, Nat)
  BY NatLessThanWellFounded
<1>2. \A x, y \in Nat : <<x, y>> \in Less <=> x < y
  BY LessOnNat
<1> HIDE DEF Less
<1>3. Rest # {} => \E n \in Rest : \A m \in Rest : ~ (<<m, n>> \in Less)
  <2> HIDE DEF Rest
  <2>1. Rest \subseteq Nat
    BY DEF Rest
  <2> QED BY <1>1, <2>1, WFMin
<1>4. ASSUME NEW n \in Rest PROVE n # 0 /\ n - 1 \in Rest /\ n - 1 < n
  BY <1>4
<1> QED BY <1>2, <1>3, <1>4

\* The same up to a bound.
LEMMA InductionUpTo ==
    ASSUME NEW m \in Nat, NEW S, 0 \in S, \A n \in 1 .. m : n - 1 \in S => n \in S
    PROVE  m \in S
<1> DEFINE Good == { n \in Nat : n <= m => n \in S }
<1>1. Good \in SUBSET Nat /\ 0 \in Good /\ \A n \in Good : n + 1 \in Good
  <2>1. ASSUME NEW n \in Good PROVE n + 1 \in Good
    <3>1. CASE n + 1 <= m
      <4>1. n + 1 \in 1 .. m /\ (n + 1) - 1 = n /\ n \in S
        BY <3>1
      <4> QED BY <4>1
    <3> QED BY <3>1
  <2> QED BY <2>1
<1>2. Good = Nat
  <2> HIDE DEF Good
  <2> QED BY <1>1, Induction
<1> QED BY <1>2

\* g is f with one more value.
IsLonger(g, f, k, v) ==
    /\ g = [n \in 0 .. k |-> g[n]]
    /\ \A n \in 0 .. k : \/ n = k /\ n # 0 /\ g[n] = v /\ g[n - 1] = f[k - 1]
                         \/ n \in 0 .. k - 1 /\ g[n] = f[n] /\ (n # 0 => g[n - 1] = f[n - 1])

LEMMA Longer == ASSUME NEW f, NEW k \in Nat, k # 0, NEW v PROVE \E g : IsLonger(g, f, k, v)
<1> DEFINE g == [n \in 0 .. k |-> IF n = k THEN v ELSE f[n]]
<1>1. g = [n \in 0 .. k |-> g[n]]
  OBVIOUS
<1>2. g[k] = v /\ \A n \in 0 .. k - 1 : g[n] = f[n]
  OBVIOUS
<1> HIDE DEF g
<1>3. ASSUME NEW n \in 0 .. k
      PROVE  \/ n = k /\ n # 0 /\ g[n] = v /\ g[n - 1] = f[k - 1]
             \/ n \in 0 .. k - 1 /\ g[n] = f[n] /\ (n # 0 => g[n - 1] = f[n - 1])
  <2>1. n = k \/ n \in 0 .. k - 1
    OBVIOUS
  <2>2. n # 0 => n - 1 \in 0 .. k - 1
    OBVIOUS
  <2> QED BY <1>2, <2>1, <2>2
<1> QED BY <1>1, <1>3 DEF IsLonger

-----------------------------------------------------------------------------
(* Selections from sequences.                                              *)

\* A set of sequences with the empty one that can be grown by any element has all.
LEMMA SequencesGrow ==
    ASSUME NEW S, NEW G, <<>> \in G,
           \A s \in Seq(S) : \A x \in S : s \in G => Append(s, x) \in G
    PROVE  Seq(S) \subseteq G
<1> DEFINE Good == { n \in Nat : \A s \in Seq(S) : Len(s) = n => s \in G }
<1>1. 0 \in Good
  <2>1. \A s \in Seq(S) : Len(s) = 0 => s = <<>>
    OBVIOUS
  <2> QED BY <2>1
<1>2. ASSUME NEW n \in Good PROVE n + 1 \in Good
  <2>1. ASSUME NEW s \in Seq(S), Len(s) = n + 1 PROVE s \in G
    <3> DEFINE front == SubSeq(s, 1, n)
    <3>1. front \in Seq(S) /\ Len(front) = n /\ s[n + 1] \in S
      BY <2>1, SubSeqProperties
    <3>2. s = Append(front, s[n + 1])
      BY <2>1
    <3>3. front \in G
      BY <3>1
    <3> HIDE DEF front
    <3> QED BY <3>1, <3>2, <3>3
  <2> QED BY <2>1
<1>3. Good = Nat
  <2> HIDE DEF Good
  <2>1. Good \in SUBSET Nat
    BY DEF Good
  <2> QED BY <1>1, <1>2, <2>1, Induction
<1> QED BY <1>3

\* f is the function that Selected(s, places) chooses, or its first m values.
IsSelection(f, m, s, places) ==
    f = [n \in 0 .. m |-> IF n = 0 THEN <<>>
                          ELSE IF n \in places THEN Append(f[n - 1], s[n]) ELSE f[n - 1]]

LEMMA SelectionExists ==
    ASSUME NEW s, NEW places, NEW m \in Nat
    PROVE  \E f : IsSelection(f, m, s, places)
<1> DEFINE Good == { k \in Nat : \E f : IsSelection(f, k, s, places) }
<1>1. 0 \in Good
  <2> DEFINE f == [n \in 0 .. 0 |-> <<>>]
  <2>1. f = [n \in 0 .. 0 |-> IF n = 0 THEN <<>> ELSE IF n \in places THEN Append(f[n - 1], s[n]) ELSE f[n - 1]]
    OBVIOUS
  <2> HIDE DEF f
  <2> QED BY <2>1 DEF IsSelection
<1>2. ASSUME NEW k \in 1 .. m, k - 1 \in Good PROVE k \in Good
  <2>0. k \in Nat /\ k # 0
    BY <1>2
  <2>1. PICK f : IsSelection(f, k - 1, s, places)
    BY <1>2
  <2>2. PICK g : IsLonger(g, f, k, IF k \in places THEN Append(f[k - 1], s[k]) ELSE f[k - 1])
    BY <2>0, Longer, Zenon
  <2>3. \A n \in 0 .. k - 1 : f[n] = IF n = 0 THEN <<>> ELSE IF n \in places THEN Append(f[n - 1], s[n]) ELSE f[n - 1]
    BY <2>1, Zenon DEF IsSelection
  <2>4. \A n \in 0 .. k : g[n] = IF n = 0 THEN <<>> ELSE IF n \in places THEN Append(g[n - 1], s[n]) ELSE g[n - 1]
    BY <2>2, <2>3 DEF IsLonger
  <2>5. g = [n \in 0 .. k |-> IF n = 0 THEN <<>> ELSE IF n \in places THEN Append(g[n - 1], s[n]) ELSE g[n - 1]]
    BY <2>2, <2>4 DEF IsLonger
  <2> QED BY <2>0, <2>5, Zenon DEF IsSelection
<1>3. m \in Good
  <2> HIDE DEF Good
  <2> QED BY <1>1, <1>2, InductionUpTo
<1> QED BY <1>3

LEMMA SelectedIs ==
    ASSUME NEW s, NEW places, Len(s) \in Nat
    PROVE  \E f : IsSelection(f, Len(s), s, places) /\ Selected(s, places) = f[Len(s)]
<1> DEFINE f == CHOOSE f : IsSelection(f, Len(s), s, places)
<1>1. IsSelection(f, Len(s), s, places)
  BY SelectionExists
<1>2. Selected(s, places) = f[Len(s)]
  BY Zenon DEF Selected, IsSelection
<1> QED BY <1>1, <1>2

LEMMA SelectionAt ==
    ASSUME NEW f, NEW m \in Nat, NEW s, NEW places, IsSelection(f, m, s, places)
    PROVE  /\ f[0] = <<>>
           /\ \A n \in 1 .. m : f[n] = IF n \in places THEN Append(f[n - 1], s[n]) ELSE f[n - 1]
<1>1. ASSUME NEW n \in 0 .. m
      PROVE  f[n] = IF n = 0 THEN <<>>
                    ELSE IF n \in places THEN Append(f[n - 1], s[n]) ELSE f[n - 1]
  BY Zenon DEF IsSelection
<1>2. 0 \in 0 .. m /\ \A n \in 1 .. m : n \in 0 .. m /\ n # 0
  OBVIOUS
<1> QED BY <1>1, <1>2

\* What is selected of the first n elements depends on these and on their places only.
LEMMA SelectionsAgree ==
    ASSUME NEW f, NEW g, NEW m \in Nat, NEW n \in Nat, NEW s, NEW t, NEW P, NEW Q, m <= n,
           IsSelection(f, m, s, P), IsSelection(g, n, t, Q),
           \A k \in 1 .. m : s[k] = t[k] /\ (k \in P <=> k \in Q)
    PROVE  f[m] = g[m]
<1> DEFINE Good == { k \in Nat : f[k] = g[k] }
<1>1. /\ f[0] = <<>>
      /\ \A k \in 1 .. m : f[k] = IF k \in P THEN Append(f[k - 1], s[k]) ELSE f[k - 1]
  BY SelectionAt
<1>2. /\ g[0] = <<>>
      /\ \A k \in 1 .. n : g[k] = IF k \in Q THEN Append(g[k - 1], t[k]) ELSE g[k - 1]
  BY SelectionAt
<1>3. 0 \in Good
  BY <1>1, <1>2
<1>4. ASSUME NEW k \in 1 .. m, k - 1 \in Good PROVE k \in Good
  <2>1. k \in 1 .. n /\ k \in Nat
    OBVIOUS
  <2> QED BY <1>1, <1>2, <1>4, <2>1
<1>5. m \in Good
  <2> HIDE DEF Good
  <2> QED BY <1>3, <1>4, InductionUpTo
<1> QED BY <1>5

LEMMA SelectedNothing == ASSUME NEW P PROVE Selected(<<>>, P) = <<>>
<1>1. Len(<<>>) = 0
  OBVIOUS
<1>2. PICK f : IsSelection(f, Len(<<>>), <<>>, P) /\ Selected(<<>>, P) = f[Len(<<>>)]
  BY <1>1, SelectedIs
<1>3. f[0] = <<>>
  BY <1>1, <1>2, SelectionAt
<1> QED BY <1>1, <1>2, <1>3

\* An element more is selected if its place is.
LEMMA SelectedOneMore ==
    ASSUME NEW S, NEW s \in Seq(S), NEW x \in S, NEW P, NEW Q,
           \A k \in 1 .. Len(s) : k \in P <=> k \in Q
    PROVE  Selected(Append(s, x), Q) =
             IF Len(s) + 1 \in Q THEN Append(Selected(s, P), x) ELSE Selected(s, P)
<1> DEFINE t == Append(s, x)
<1>1. Len(s) \in Nat /\ Len(t) = Len(s) + 1 /\ t[Len(s) + 1] = x /\ \A k \in 1 .. Len(s) : t[k] = s[k]
  OBVIOUS
<1> HIDE DEF t
<1>2. PICK f : IsSelection(f, Len(s), s, P) /\ Selected(s, P) = f[Len(s)]
  BY <1>1, SelectedIs
<1>3. PICK g : IsSelection(g, Len(t), t, Q) /\ Selected(t, Q) = g[Len(t)]
  BY <1>1, SelectedIs
<1>4. f[Len(s)] = g[Len(s)]
  <2>1. Len(t) \in Nat /\ Len(s) <= Len(t) /\ \A k \in 1 .. Len(s) : s[k] = t[k] /\ (k \in P <=> k \in Q)
    BY <1>1
  <2> QED BY <1>1, <1>2, <1>3, <2>1, SelectionsAgree
<1>5. Len(t) \in 1 .. Len(t) /\ Len(t) - 1 = Len(s) /\ Len(t) \in Nat
  BY <1>1
<1>6. g[Len(t)] = IF Len(t) \in Q THEN Append(g[Len(t) - 1], t[Len(t)]) ELSE g[Len(t) - 1]
  BY <1>3, <1>5, SelectionAt
<1>7. Selected(t, Q) = IF Len(s) + 1 \in Q THEN Append(Selected(s, P), x) ELSE Selected(s, P)
  BY <1>1, <1>2, <1>3, <1>4, <1>5, <1>6
<1> QED BY <1>7 DEF t

\* Where what is selected comes from: "from" maps the places of the selection to places of the
\* sequence, in their order, and reaches all the places asked for.
Picks(sel, s, places, from) ==
    /\ from \in [1 .. Len(sel) -> Nat]
    /\ \A k \in 1 .. Len(sel) : from[k] \in 1 .. Len(s) /\ from[k] \in places /\ sel[k] = s[from[k]]
    /\ \A j, k \in 1 .. Len(sel) : j < k => from[j] < from[k]
    /\ \A n \in 1 .. Len(s) : n \in places => \E k \in 1 .. Len(sel) : from[k] = n

LEMMA SelectedPicks ==
    ASSUME NEW S, NEW s \in Seq(S), NEW places
    PROVE  /\ Selected(s, places) \in Seq(S)
           /\ Len(Selected(s, places)) <= Len(s)
           /\ \E from : Picks(Selected(s, places), s, places, from)
<1> DEFINE Fine(t) == /\ Selected(t, places) \in Seq(S)
                      /\ Len(Selected(t, places)) <= Len(t)
                      /\ \E from : Picks(Selected(t, places), t, places, from)
           G == { t \in Seq(S) : Fine(t) }
<1>1. <<>> \in G
  <2>1. Selected(<<>>, places) = <<>>
    BY SelectedNothing
  <2>2. <<>> \in Seq(S) /\ Len(<<>>) = 0
    OBVIOUS
  <2> DEFINE from == [k \in 1 .. 0 |-> k]
  <2>3. from \in [1 .. Len(<<>>) -> Nat]
    BY <2>2
  <2>4. \A k \in 1 .. Len(<<>>) : FALSE
    BY <2>2
  <2> HIDE DEF from
  <2>5. Picks(<<>>, <<>>, places, from)
    BY <2>3, <2>4 DEF Picks
  <2>6. Fine(<<>>)
    <3>1. \E f : Picks(Selected(<<>>, places), <<>>, places, f)
      BY <2>1, <2>5
    <3>2. <<>> \in Seq(S) /\ Len(<<>>) <= Len(<<>>)
      BY <2>2
    <3>3. Selected(<<>>, places) \in Seq(S) /\ Len(Selected(<<>>, places)) <= Len(<<>>)
      BY <2>1, <3>2, Zenon
    <3> QED BY <3>1, <3>3
  <2> QED BY <2>2, <2>6
<1>2. ASSUME NEW t \in Seq(S), NEW x \in S, t \in G PROVE Append(t, x) \in G
  <2> DEFINE sel == Selected(t, places)
             u == Append(t, x)
  <2>1. PICK from : Picks(sel, t, places, from)
    BY <1>2
  <2>2. sel \in Seq(S) /\ Len(sel) <= Len(t)
    BY <1>2
  <2>3. Selected(u, places) = IF Len(t) + 1 \in places THEN Append(sel, x) ELSE sel
    BY SelectedOneMore
  <2>4. /\ u \in Seq(S) /\ Len(t) \in Nat /\ Len(u) = Len(t) + 1 /\ u[Len(t) + 1] = x
        /\ \A k \in 1 .. Len(t) : u[k] = t[k]
    OBVIOUS
  <2> HIDE DEF u, sel
  <2>5. Len(sel) \in Nat
    BY <2>2
  <2>6. CASE Len(t) + 1 \in places
    <3> DEFINE more == Append(sel, x)
               to == [k \in 1 .. Len(sel) + 1 |-> IF k = Len(sel) + 1 THEN Len(t) + 1 ELSE from[k]]
    <3>1. /\ more \in Seq(S) /\ Len(more) = Len(sel) + 1 /\ more[Len(sel) + 1] = x
          /\ \A k \in 1 .. Len(sel) : more[k] = sel[k]
      BY <2>2
    <3> HIDE DEF more
    <3>2. to[Len(sel) + 1] = Len(t) + 1 /\ \A k \in 1 .. Len(sel) : to[k] = from[k]
      BY <2>5
    <3>3. to \in [1 .. Len(more) -> Nat]
      BY <2>1, <2>4, <2>5, <3>1 DEF Picks
    <3> HIDE DEF to
    <3>4. \A k \in 1 .. Len(more) : k = Len(sel) + 1 \/ k \in 1 .. Len(sel)
      BY <2>5, <3>1
    <3>5. \A k \in 1 .. Len(more) : to[k] \in 1 .. Len(u) /\ to[k] \in places /\ more[k] = u[to[k]]
      <4>1. ASSUME NEW k \in 1 .. Len(sel)
            PROVE  to[k] \in 1 .. Len(u) /\ to[k] \in places /\ more[k] = u[to[k]]
        <5>1. from[k] \in 1 .. Len(t) /\ from[k] \in places /\ sel[k] = t[from[k]]
          BY <2>1 DEF Picks
        <5>2. to[k] = from[k] /\ more[k] = sel[k] /\ u[from[k]] = t[from[k]]
          BY <5>1, <2>4, <3>1, <3>2
        <5>3. from[k] \in 1 .. Len(u)
          BY <5>1, <2>4
        <5> QED BY <5>1, <5>2, <5>3
      <4>2. Len(t) + 1 \in 1 .. Len(u)
        BY <2>4
      <4> QED BY <4>1, <4>2, <2>4, <2>6, <3>1, <3>2, <3>4
    <3>6. \A j, k \in 1 .. Len(more) : j < k => to[j] < to[k]
      <4>1. ASSUME NEW j \in 1 .. Len(more), NEW k \in 1 .. Len(more), j < k PROVE to[j] < to[k]
        <5>1. j \in 1 .. Len(sel)
          BY <4>1, <2>5, <3>1
        <5>2. to[j] = from[j] /\ from[j] \in 1 .. Len(t)
          BY <5>1, <3>2, <2>1 DEF Picks
        <5>3. CASE k = Len(sel) + 1
          BY <5>2, <5>3, <3>2, <2>4
        <5>4. CASE k \in 1 .. Len(sel)
          BY <5>1, <5>2, <5>4, <3>2, <2>1, <4>1 DEF Picks
        <5> QED BY <3>4, <5>3, <5>4
      <4> QED BY <4>1
    <3>7. ASSUME NEW n \in 1 .. Len(u), n \in places PROVE \E k \in 1 .. Len(more) : to[k] = n
      <4>1. CASE n = Len(t) + 1
        <5>1. Len(sel) + 1 \in 1 .. Len(more)
          BY <2>5, <3>1
        <5> QED BY <5>1, <4>1, <3>2
      <4>2. CASE n \in 1 .. Len(t)
        <5>1. PICK k \in 1 .. Len(sel) : from[k] = n
          BY <4>2, <3>7, <2>1 DEF Picks
        <5>2. k \in 1 .. Len(more) /\ to[k] = n
          BY <5>1, <3>1, <3>2, <2>5
        <5> QED BY <5>2
      <4> QED BY <2>4, <4>1, <4>2
    <3>8. Picks(more, u, places, to)
      BY <3>3, <3>5, <3>6, <3>7 DEF Picks
    <3>9. Selected(u, places) = more
      BY <2>3, <2>6 DEF more
    <3>10. Len(more) <= Len(u)
      BY <2>2, <2>4, <2>5, <3>1
    <3> QED BY <2>4, <3>1, <3>8, <3>9, <3>10 DEF u
  <2>7. CASE Len(t) + 1 \notin places
    <3>1. Selected(u, places) = sel
      BY <2>3, <2>7
    <3>2. \A k \in 1 .. Len(u) : k = Len(t) + 1 \/ k \in 1 .. Len(t)
      BY <2>4
    <3>3. \A k \in 1 .. Len(t) : k \in 1 .. Len(u)
      BY <2>4
    <3>4. Picks(sel, u, places, from)
      BY <2>1, <2>4, <2>7, <3>2, <3>3 DEF Picks
    <3>5. Len(sel) <= Len(u)
      BY <2>2, <2>4, <2>5
    <3> QED BY <2>2, <2>4, <3>1, <3>4, <3>5 DEF u
  <2> QED BY <2>6, <2>7
<1>3. s \in G
  <2> HIDE DEF G
  <2>1. Seq(S) \subseteq G
    BY <1>1, <1>2, SequencesGrow
  <2> QED BY <2>1
<1> QED BY <1>3

-----------------------------------------------------------------------------
(* Elements of a type.                                                     *)

LEMMA NothingOfType == ASSUME NEW T PROVE OfType(<<>>, T) = <<>>
BY SelectedNothing DEF OfType

LEMMA OneMoreOfType ==
    ASSUME NEW S, NEW s \in Seq(S), NEW x \in S, NEW T
    PROVE  OfType(Append(s, x), T) = IF x.type \in T THEN Append(OfType(s, T), x) ELSE OfType(s, T)
<1> DEFINE t == Append(s, x)
           P == {k \in DOMAIN s : s[k].type \in T}
           Q == {k \in DOMAIN t : t[k].type \in T}
<1>1. /\ t \in Seq(S) /\ Len(s) \in Nat /\ DOMAIN s = 1 .. Len(s) /\ DOMAIN t = 1 .. Len(s) + 1
      /\ t[Len(s) + 1] = x /\ \A k \in 1 .. Len(s) : t[k] = s[k]
  OBVIOUS
<1>2. \A k \in 1 .. Len(s) : k \in P <=> k \in Q
  BY <1>1
<1>3. Len(s) + 1 \in Q <=> x.type \in T
  BY <1>1
<1>4. OfType(s, T) = Selected(s, P) /\ OfType(t, T) = Selected(t, Q)
  BY Zenon DEF OfType
<1> HIDE DEF P, Q
<1>5. Selected(t, Q) = IF Len(s) + 1 \in Q THEN Append(Selected(s, P), x) ELSE Selected(s, P)
  BY <1>2, SelectedOneMore
<1> QED BY <1>3, <1>4, <1>5

LEMMA OfTypeTyped == ASSUME NEW S, NEW s \in Seq(S), NEW T PROVE OfType(s, T) \in Seq(S)
BY SelectedPicks DEF OfType

\* Elements of a type are elements, and there are no others.
LEMMA ElementsOfType ==
    ASSUME NEW S, NEW s \in Seq(S), NEW T, NEW k \in 1 .. Len(OfType(s, T))
    PROVE  \E n \in 1 .. Len(s) : OfType(s, T)[k] = s[n] /\ s[n].type \in T
<1> DEFINE P == {n \in DOMAIN s : s[n].type \in T}
<1>1. OfType(s, T) = Selected(s, P)
  BY Zenon DEF OfType
<1>2. \A n \in P : s[n].type \in T
  OBVIOUS
<1> HIDE DEF P
<1>3. PICK from : Picks(Selected(s, P), s, P, from)
  BY SelectedPicks
<1> QED BY <1>1, <1>2, <1>3 DEF Picks

LEMMA NoneOfType ==
    ASSUME NEW S, NEW s \in Seq(S), NEW T, \A k \in 1 .. Len(s) : s[k].type \notin T
    PROVE  OfType(s, T) = <<>>
<1>1. OfType(s, T) \in Seq(S)
  BY OfTypeTyped
<1>2. \A k \in 1 .. Len(OfType(s, T)) : FALSE
  BY ElementsOfType
<1>3. Len(OfType(s, T)) \in Nat
  BY <1>1
<1>4. Len(OfType(s, T)) = 0
  BY <1>2, <1>3
<1> QED BY <1>1, <1>4

\* Selecting by type distributes over concatenation.
LEMMA OfTypeTogether ==
    ASSUME NEW S, NEW a \in Seq(S), NEW b \in Seq(S), NEW T
    PROVE  OfType(a \o b, T) = OfType(a, T) \o OfType(b, T)
<1> DEFINE G == { t \in Seq(S) : OfType(a \o t, T) = OfType(a, T) \o OfType(t, T) }
<1>1. <<>> \in G
  <2>1. a \o <<>> = a /\ <<>> \in Seq(S)
    OBVIOUS
  <2>2. OfType(a, T) \o <<>> = OfType(a, T)
    BY OfTypeTyped
  <2> QED BY <2>1, <2>2, NothingOfType
<1>2. ASSUME NEW t \in Seq(S), NEW x \in S, t \in G PROVE Append(t, x) \in G
  <2>1. a \o Append(t, x) = Append(a \o t, x) /\ a \o t \in Seq(S) /\ Append(t, x) \in Seq(S)
    OBVIOUS
  <2>2. OfType(Append(a \o t, x), T) =
          IF x.type \in T THEN Append(OfType(a \o t, T), x) ELSE OfType(a \o t, T)
    <3> DEFINE u == a \o t
    <3>1. u \in Seq(S)
      BY <2>1
    <3> HIDE DEF u
    <3>2. OfType(Append(u, x), T) = IF x.type \in T THEN Append(OfType(u, T), x) ELSE OfType(u, T)
      BY <3>1, OneMoreOfType
    <3> QED BY <3>2 DEF u
  <2>3. OfType(Append(t, x), T) = IF x.type \in T THEN Append(OfType(t, T), x) ELSE OfType(t, T)
    BY OneMoreOfType
  <2>4. OfType(a, T) \in Seq(S) /\ OfType(t, T) \in Seq(S)
    BY OfTypeTyped
  <2>5. OfType(a, T) \o Append(OfType(t, T), x) = Append(OfType(a, T) \o OfType(t, T), x)
    BY <2>4
  <2>6. OfType(a \o t, T) = OfType(a, T) \o OfType(t, T)
    BY <1>2
  <2>7. OfType(a \o Append(t, x), T) = OfType(a, T) \o OfType(Append(t, x), T)
    BY <2>1, <2>2, <2>3, <2>5, <2>6
  <2> QED BY <2>1, <2>7
<1>3. b \in G
  <2> HIDE DEF G
  <2>1. Seq(S) \subseteq G
    BY <1>1, <1>2, SequencesGrow
  <2> QED BY <2>1
<1> QED BY <1>3

-----------------------------------------------------------------------------
(* Sequences made of parts.                                                *)

\* f is the function that Concatenated(parts) chooses, or its first m values.
IsConcatenation(f, m, parts) == f = [n \in 0 .. m |-> IF n = 0 THEN <<>> ELSE f[n - 1] \o parts[n]]

LEMMA ConcatenationExists ==
    ASSUME NEW parts, NEW m \in Nat
    PROVE  \E f : IsConcatenation(f, m, parts)
<1> DEFINE Good == { k \in Nat : \E f : IsConcatenation(f, k, parts) }
<1>1. 0 \in Good
  <2> DEFINE f == [n \in 0 .. 0 |-> <<>>]
  <2>1. f = [n \in 0 .. 0 |-> IF n = 0 THEN <<>> ELSE f[n - 1] \o parts[n]]
    OBVIOUS
  <2> HIDE DEF f
  <2> QED BY <2>1 DEF IsConcatenation
<1>2. ASSUME NEW k \in 1 .. m, k - 1 \in Good PROVE k \in Good
  <2>0. k \in Nat /\ k # 0
    BY <1>2
  <2>1. PICK f : IsConcatenation(f, k - 1, parts)
    BY <1>2
  <2>2. PICK g : IsLonger(g, f, k, f[k - 1] \o parts[k])
    BY <2>0, Longer, Zenon
  <2>3. \A n \in 0 .. k - 1 : f[n] = IF n = 0 THEN <<>> ELSE f[n - 1] \o parts[n]
    BY <2>1, Zenon DEF IsConcatenation
  <2>4. \A n \in 0 .. k : g[n] = IF n = 0 THEN <<>> ELSE g[n - 1] \o parts[n]
    BY <2>2, <2>3 DEF IsLonger
  <2>5. g = [n \in 0 .. k |-> IF n = 0 THEN <<>> ELSE g[n - 1] \o parts[n]]
    BY <2>2, <2>4 DEF IsLonger
  <2> QED BY <2>0, <2>5, Zenon DEF IsConcatenation
<1>3. m \in Good
  <2> HIDE DEF Good
  <2> QED BY <1>1, <1>2, InductionUpTo
<1> QED BY <1>3

\* An element of the whole is one of a part.
LEMMA ElementsOfParts ==
    ASSUME NEW parts, Len(parts) \in Nat, \A n \in 1 .. Len(parts) : IsSeq(parts[n])
    PROVE  /\ IsSeq(Concatenated(parts)) /\ Len(Concatenated(parts)) \in Nat
           /\ \A k \in 1 .. Len(Concatenated(parts)) :
                \E n \in 1 .. Len(parts) : \E j \in 1 .. Len(parts[n]) :
                  Concatenated(parts)[k] = parts[n][j]
<1> DEFINE f == CHOOSE f : IsConcatenation(f, Len(parts), parts)
           FromParts(t) == \A k \in 1 .. Len(t) : \E n \in 1 .. Len(parts) :
                             \E j \in 1 .. Len(parts[n]) : t[k] = parts[n][j]
           Good == { k \in Nat : IsSeq(f[k]) /\ FromParts(f[k]) }
<1>1. IsConcatenation(f, Len(parts), parts)
  BY ConcatenationExists
<1>2. Concatenated(parts) = f[Len(parts)]
  BY Zenon DEF Concatenated, IsConcatenation
<1> HIDE DEF f
<1>3. ASSUME NEW n \in 0 .. Len(parts) PROVE f[n] = IF n = 0 THEN <<>> ELSE f[n - 1] \o parts[n]
  BY <1>1, Zenon DEF IsConcatenation
<1>4. 0 \in Good
  <2>1. f[0] = <<>>
    BY <1>3
  <2>2. IsSeq(<<>>) /\ Len(<<>>) = 0
    BY EmptyIsSeq
  <2>3. FromParts(<<>>)
    BY <2>2
  <2> QED BY <2>1, <2>2, <2>3
<1>5. ASSUME NEW n \in 1 .. Len(parts), n - 1 \in Good PROVE n \in Good
  <2>1. n \in 0 .. Len(parts) /\ n # 0 /\ n \in Nat
    OBVIOUS
  <2>2. f[n] = f[n - 1] \o parts[n]
    BY <1>3, <2>1
  <2> DEFINE old == f[n - 1]
             new == parts[n]
             all == f[n]
  <2>3. IsSeq(old) /\ FromParts(old) /\ IsSeq(new) /\ all = old \o new
    BY <1>5, <2>2
  <2> HIDE DEF old, new, all
  <2>4. IsSeq(all) /\ Joined(old, new, all)
    BY <2>3, JoinedSeqs
  <2>5. ASSUME NEW k \in 1 .. Len(all)
        PROVE  \E i \in 1 .. Len(parts) : \E j \in 1 .. Len(parts[i]) : all[k] = parts[i][j]
    <3>1. FromOne(old, new, all, k)
      BY <2>4, ElementOfBoth
    <3>2. CASE k \in 1 .. Len(old) /\ all[k] = old[k]
      BY <2>3, <3>2
    <3>3. CASE \E l \in 1 .. Len(new) : k = Len(old) + l /\ all[k] = new[l]
      BY <3>3 DEF new
    <3> QED BY <3>1, <3>2, <3>3 DEF FromOne
  <2>6. FromParts(all)
    BY <2>5
  <2> HIDE DEF FromParts
  <2>7. IsSeq(f[n]) /\ FromParts(f[n])
    BY <2>4, <2>6 DEF all
  <2> QED BY <2>1, <2>7
<1>6. Len(parts) \in Good
  <2> HIDE DEF Good
  <2> QED BY <1>4, <1>5, InductionUpTo
<1>7. IsSeq(Concatenated(parts)) /\ FromParts(Concatenated(parts))
  BY <1>2, <1>6
<1>8. PICK S : Concatenated(parts) \in Seq(S)
  BY <1>7 DEF IsSeq
<1>9. Len(Concatenated(parts)) \in Nat
  BY <1>8
<1> QED BY <1>7, <1>9

-----------------------------------------------------------------------------
(* The tools that the client's become.                                     *)

LEMMA ListIsSeq == ASSUME NEW s, IsList(s) PROVE IsSeq(s) /\ Len(s) \in Nat /\ DOMAIN s = 1 .. Len(s)
<1>1. s \in Seq({s[k] : k \in DOMAIN s})
  BY DEF IsList
<1> DEFINE S == {s[k] : k \in DOMAIN s}
<1> HIDE DEF S
<1>2. s \in Seq(S)
  BY <1>1 DEF S
<1> QED BY <1>2 DEF IsSeq

\* t is a tool that the declared tool becomes.
Becomes(tool, ns, t) == \E j \in 1 .. Len(ConvertTool(tool, ns)) : t = ConvertTool(tool, ns)[j]

\* What one declared tool becomes, by kinds.
Made(tool, ns, t) ==
  \/ tool.type = "function" /\ t = CoreTool(ns \o tool.name, "function", tool.name, ns)
  \/ /\ tool.type = "custom" /\ tool.name = <<"local_shell">>
     /\ t = CoreTool(ns \o tool.name, "local_shell", tool.name, <<>>)
  \/ /\ tool.type = "custom" /\ tool.grammar = "patch"
     /\ \E a : t = CoreTool(ns \o tool.name \o <<a>>, "apply_patch", tool.name, <<>>)
  \/ /\ tool.type = "custom" /\ tool.grammar = "exec"
     /\ t = CoreTool(ns \o tool.name, "exec", tool.name, <<>>)
  \/ tool.type = "custom" /\ t = CoreTool(ns \o tool.name, "raw", tool.name, <<>>)
  \/ tool.type \notin {"function", "custom"} /\ t = CoreTool(<<tool.type>>, "none", <<>>, <<>>)

LEMMA ConvertedToolIs ==
    ASSUME NEW tool, NEW ns
    PROVE  /\ IsSeq(ConvertTool(tool, ns)) /\ Len(ConvertTool(tool, ns)) \in Nat \ {0}
           /\ \A t : Becomes(tool, ns, t) => Made(tool, ns, t)
<1> DEFINE one(x) == <<x>>
           s == ConvertTool(tool, ns)
<1>1. ASSUME NEW x PROVE IsSeq(<<x>>) /\ Len(<<x>>) = 1 /\ \A j \in 1 .. 1 : <<x>>[j] = x
  <2>1. <<x>> \in Seq({x}) /\ Len(<<x>>) = 1 /\ <<x>>[1] = x
    OBVIOUS
  <2>2. IsSeq(<<x>>)
    BY <2>1 DEF IsSeq
  <2>3. \A j \in 1 .. 1 : j = 1
    OBVIOUS
  <2> QED BY <2>1, <2>2, <2>3
<1>2. CASE tool.type = "function"
  <2>1. s = <<CoreTool(ns \o tool.name, "function", tool.name, ns)>>
    BY <1>2 DEF ConvertTool
  <2> QED BY <1>1, <1>2, <2>1 DEF Becomes, Made
<1>3. CASE tool.type = "custom" /\ tool.name = <<"local_shell">>
  <2>1. s = <<CoreTool(ns \o tool.name, "local_shell", tool.name, <<>>)>>
    BY <1>3 DEF ConvertTool
  <2> QED BY <1>1, <1>3, <2>1 DEF Becomes, Made
<1>4. CASE tool.type = "custom" /\ tool.name # <<"local_shell">> /\ tool.grammar = "patch"
  <2> DEFINE patch == [k \in DOMAIN PatchActions |->
                         CoreTool(ns \o tool.name \o <<PatchActions[k]>>, "apply_patch", tool.name, <<>>)]
  <2>1. s = patch
    BY <1>4 DEF ConvertTool
  <2>2. DOMAIN PatchActions = 1 .. 2
    BY DEF PatchActions
  <2>3. Len(patch) = 2 /\ patch \in Seq({patch[1], patch[2]})
    BY <2>2
  <2>4. \A k \in 1 .. 2 : patch[k] = CoreTool(ns \o tool.name \o <<PatchActions[k]>>, "apply_patch", tool.name, <<>>)
    BY <2>2
  <2> HIDE DEF patch
  <2>5. IsSeq(patch)
    BY <2>3 DEF IsSeq
  <2>6. ASSUME NEW t, Becomes(tool, ns, t) PROVE Made(tool, ns, t)
    <3>1. PICK j \in 1 .. 2 : t = patch[j]
      BY <2>1, <2>3, <2>6 DEF Becomes
    <3>2. t = CoreTool(ns \o tool.name \o <<PatchActions[j]>>, "apply_patch", tool.name, <<>>)
      BY <2>4, <3>1
    <3> QED BY <1>4, <3>2 DEF Made
  <2> QED BY <2>1, <2>3, <2>5, <2>6
<1>5. CASE tool.type = "custom" /\ tool.name # <<"local_shell">> /\ tool.grammar # "patch"
  <2>1. s = <<CoreTool(ns \o tool.name, IF tool.grammar = "exec" THEN "exec" ELSE "raw", tool.name, <<>>)>>
    BY <1>5 DEF ConvertTool
  <2> QED BY <1>1, <1>5, <2>1 DEF Becomes, Made
<1>6. CASE tool.type \notin {"function", "custom"}
  <2>1. s = <<CoreTool(<<tool.type>>, "none", <<>>, <<>>)>>
    BY <1>6 DEF ConvertTool
  <2> QED BY <1>1, <1>6, <2>1 DEF Becomes, Made
<1> QED BY <1>2, <1>3, <1>4, <1>5, <1>6

\* t is what a declared tool becomes, on its own or in its namespace.
FromClient(t) ==
  \E n \in DOMAIN ClientTools :
    \/ ClientTools[n].type # "namespace" /\ Made(ClientTools[n], <<>>, t)
    \/ /\ ClientTools[n].type = "namespace"
       /\ \E d \in DOMAIN ClientTools[n].tools : Made(ClientTools[n].tools[d], ClientTools[n].name, t)

\* What a declared tool, or a whole namespace, becomes.
MembersOf(tool) ==
  IF tool.type = "namespace"
  THEN Concatenated([k \in DOMAIN tool.tools |-> ConvertTool(tool.tools[k], tool.name)])
  ELSE ConvertTool(tool, <<>>)

LEMMA LengthOf == ASSUME NEW s, NEW m \in Nat, s = [k \in 1 .. m |-> s[k]] PROVE Len(s) = m
OBVIOUS

LEMMA MembersFromClient ==
    ASSUME NEW n \in DOMAIN ClientTools
    PROVE  /\ IsSeq(MembersOf(ClientTools[n])) /\ Len(MembersOf(ClientTools[n])) \in Nat
           /\ \A j \in 1 .. Len(MembersOf(ClientTools[n])) : FromClient(MembersOf(ClientTools[n])[j])
<1> DEFINE tool == ClientTools[n]
<1>1. CASE tool.type # "namespace"
  <2>1. MembersOf(tool) = ConvertTool(tool, <<>>)
    BY <1>1 DEF MembersOf
  <2>2. IsSeq(ConvertTool(tool, <<>>)) /\ Len(ConvertTool(tool, <<>>)) \in Nat
    BY ConvertedToolIs
  <2>3. ASSUME NEW j \in 1 .. Len(ConvertTool(tool, <<>>)) PROVE Made(tool, <<>>, ConvertTool(tool, <<>>)[j])
    <3>1. Becomes(tool, <<>>, ConvertTool(tool, <<>>)[j])
      BY <2>3 DEF Becomes
    <3> QED BY <3>1, ConvertedToolIs
  <2>4. ASSUME NEW j \in 1 .. Len(ConvertTool(tool, <<>>)) PROVE FromClient(ConvertTool(tool, <<>>)[j])
    BY <2>3, <2>4, <1>1 DEF FromClient
  <2> QED BY <2>1, <2>2, <2>4
<1>2. CASE tool.type = "namespace"
  <2> DEFINE parts == [k \in DOMAIN tool.tools |-> ConvertTool(tool.tools[k], tool.name)]
  <2>1. MembersOf(tool) = Concatenated(parts)
    BY <1>2 DEF MembersOf
  <2>2. IsList(tool.tools)
    BY <1>2, ToolsAssumption
  <2>3. Len(tool.tools) \in Nat /\ DOMAIN tool.tools = 1 .. Len(tool.tools)
    BY <2>2, ListIsSeq
  <2>4. \A k \in DOMAIN tool.tools : parts[k] = ConvertTool(tool.tools[k], tool.name)
    OBVIOUS
  <2>5. parts = [k \in 1 .. Len(tool.tools) |-> parts[k]]
    BY <2>3
  <2> HIDE DEF parts
  <2>6. Len(parts) = Len(tool.tools)
    BY <2>3, <2>5, LengthOf
  <2>7. ASSUME NEW k \in 1 .. Len(parts) PROVE IsSeq(parts[k])
    BY <2>3, <2>4, <2>6, ConvertedToolIs
  <2> DEFINE all == Concatenated(parts)
  <2>8. /\ IsSeq(all) /\ Len(all) \in Nat
        /\ \A k \in 1 .. Len(all) : \E i \in 1 .. Len(parts) : \E j \in 1 .. Len(parts[i]) : all[k] = parts[i][j]
    BY <2>3, <2>6, <2>7, ElementsOfParts
  <2> HIDE DEF all
  <2>9. ASSUME NEW k \in 1 .. Len(all) PROVE FromClient(all[k])
    <3>1. PICK i \in 1 .. Len(parts) : \E j \in 1 .. Len(parts[i]) : all[k] = parts[i][j]
      BY <2>8
    <3>2. i \in DOMAIN tool.tools /\ parts[i] = ConvertTool(tool.tools[i], tool.name)
      BY <2>3, <2>4, <2>6
    <3>3. Becomes(tool.tools[i], tool.name, all[k])
      BY <3>1, <3>2 DEF Becomes
    <3>4. Made(tool.tools[i], tool.name, all[k])
      BY <3>3, ConvertedToolIs
    <3> QED BY <1>2, <3>2, <3>4 DEF FromClient
  <2> QED BY <2>1, <2>8, <2>9 DEF all
<1> QED BY <1>1, <1>2

\* Every tool that is sent is one of the client's, and no two have the same name.
LEMMA ToolsFromClient ==
    /\ IsSeq(Tools) /\ Len(Tools) \in Nat \ {0}
    /\ \A k \in 1 .. Len(Tools) : FromClient(Tools[k])
    /\ \A i, j \in 1 .. Len(Tools) : Tools[i].name = Tools[j].name => i = j
<1> DEFINE parts == [k \in DOMAIN ClientTools |-> MembersOf(ClientTools[k])]
           all == Concatenated(parts)
           P == {k \in DOMAIN all : \A j \in 1 .. k - 1 : all[j].name # all[k].name}
<1>1. Tools = Selected(all, P)
  BY Zenon DEF Tools, FlattenTools, MembersOf
<1>2. Len(ClientTools) \in Nat /\ DOMAIN ClientTools = 1 .. Len(ClientTools)
  BY ToolsAssumption, ListIsSeq
<1>3. \A k \in DOMAIN ClientTools : parts[k] = MembersOf(ClientTools[k])
  OBVIOUS
<1>4. parts = [k \in 1 .. Len(ClientTools) |-> parts[k]]
  BY <1>2
<1> HIDE DEF parts
<1>5. Len(parts) = Len(ClientTools)
  BY <1>2, <1>4, LengthOf
<1>6. ASSUME NEW k \in 1 .. Len(parts)
      PROVE  IsSeq(parts[k]) /\ \A j \in 1 .. Len(parts[k]) : FromClient(parts[k][j])
  <2>1. k \in DOMAIN ClientTools /\ parts[k] = MembersOf(ClientTools[k])
    BY <1>2, <1>3, <1>5
  <2> QED BY <2>1, MembersFromClient
<1>7. /\ IsSeq(all) /\ Len(all) \in Nat
      /\ \A k \in 1 .. Len(all) : \E i \in 1 .. Len(parts) : \E j \in 1 .. Len(parts[i]) : all[k] = parts[i][j]
  BY <1>2, <1>5, <1>6, ElementsOfParts
<1>8. \A k \in 1 .. Len(all) : FromClient(all[k])
  BY <1>6, <1>7
<1> HIDE DEF all
<1>9. PICK S : all \in Seq(S)
  BY <1>7 DEF IsSeq
<1>10. DOMAIN all = 1 .. Len(all)
  BY <1>9
<1>11. \A i \in P : i \in 1 .. Len(all) /\ \A j \in 1 .. i - 1 : all[j].name # all[i].name
  BY <1>10
<1> HIDE DEF P
<1>12. Selected(all, P) \in Seq(S) /\ \E from : Picks(Selected(all, P), all, P, from)
  BY <1>9, SelectedPicks
<1>13. PICK from : Picks(Tools, all, P, from)
  BY <1>1, <1>12
<1>14. Tools \in Seq(S) /\ Tools # <<>>
  BY <1>1, <1>12, ToolsAssumption
<1>15. IsSeq(Tools) /\ Len(Tools) \in Nat \ {0}
  BY <1>14 DEF IsSeq
<1>16. \A k \in 1 .. Len(Tools) : FromClient(Tools[k])
  BY <1>8, <1>13 DEF Picks
<1>17. ASSUME NEW i \in 1 .. Len(Tools), NEW j \in 1 .. Len(Tools), i < j
       PROVE  Tools[i].name # Tools[j].name
  <2>1. /\ from[i] \in 1 .. Len(all) /\ from[j] \in P /\ from[i] < from[j] /\ from[j] \in 1 .. Len(all)
        /\ Tools[i] = all[from[i]] /\ Tools[j] = all[from[j]]
    BY <1>13, <1>17 DEF Picks
  <2>2. from[i] \in 1 .. from[j] - 1
    BY <2>1, <1>7
  <2> QED BY <2>1, <2>2, <1>11
<1>18. \A i, j \in 1 .. Len(Tools) : Tools[i].name = Tools[j].name => i = j
  <2>1. \A i, j \in 1 .. Len(Tools) : i < j \/ j < i \/ i = j
    BY <1>15
  <2> QED BY <2>1, <1>17
<1> QED BY <1>15, <1>16, <1>18

\* The item that a call of a tool becomes.
ItemOf(b, tool) ==
  LET item(type, name, namespace, input) ==
        [type |-> type, id |-> b.id, name |-> name, namespace |-> namespace, input |-> input]
  IN  CASE tool.kind = "none" -> item("function_call", b.name, <<>>, b.input)
        [] tool.kind = "local_shell" -> item("local_shell_call", <<>>, <<>>, b.input)
        [] tool.kind \in {"apply_patch", "exec"} ->
             item("custom_tool_call", tool.openai, <<>>, RebuildGrammar(b.name, b.input))
        [] tool.kind = "raw" -> item("custom_tool_call", tool.openai, <<>>, InputFromRaw(b.input))
        [] tool.kind = "function" -> item("function_call", tool.openai, tool.namespace, b.input)

ToolKinds == {"none", "local_shell", "apply_patch", "exec", "raw", "function"}

LEMMA KindOf == ASSUME NEW n, NEW k, NEW o, NEW s PROVE CoreTool(n, k, o, s).kind = k
BY DEF CoreTool

LEMMA KindMade == ASSUME NEW tool, NEW ns, NEW t, Made(tool, ns, t) PROVE t.kind \in ToolKinds
<1>1. CASE t = CoreTool(ns \o tool.name, "function", tool.name, ns)
  BY <1>1, KindOf DEF ToolKinds
<1>2. CASE t = CoreTool(ns \o tool.name, "local_shell", tool.name, <<>>)
  BY <1>2, KindOf DEF ToolKinds
<1>3. CASE \E a : t = CoreTool(ns \o tool.name \o <<a>>, "apply_patch", tool.name, <<>>)
  BY <1>3, KindOf DEF ToolKinds
<1>4. CASE t = CoreTool(ns \o tool.name, "exec", tool.name, <<>>)
  BY <1>4, KindOf DEF ToolKinds
<1>5. CASE t = CoreTool(ns \o tool.name, "raw", tool.name, <<>>)
  BY <1>5, KindOf DEF ToolKinds
<1>6. CASE t = CoreTool(<<tool.type>>, "none", <<>>, <<>>)
  BY <1>6, KindOf DEF ToolKinds
<1> QED BY <1>1, <1>2, <1>3, <1>4, <1>5, <1>6, Zenon DEF Made

\* A call is looked up by its name, and finds the tool that was called.
LEMMA ToolFound ==
    ASSUME NEW b, NEW j \in 1 .. Len(Tools), b.name = Tools[j].name
    PROVE  ToolOutputItem(b, Tools) = ItemOf(b, Tools[j])
<1> DEFINE known == {k \in DOMAIN Tools : Tools[k].name = b.name /\ Tools[k].kind # "none"}
           item(type, name, namespace, input) ==
             [type |-> type, id |-> b.id, name |-> name, namespace |-> namespace, input |-> input]
<1>1. PICK S : Tools \in Seq(S)
  BY ToolsFromClient DEF IsSeq
<1>2. DOMAIN Tools = 1 .. Len(Tools) /\ Len(Tools) \in Nat
  BY <1>1
<1>3. \A k \in known : k = j
  BY <1>2, ToolsFromClient
<1>4. Tools[j].kind \in ToolKinds
  BY ToolsFromClient, KindMade DEF FromClient
<1>5. CASE Tools[j].kind = "none"
  <2>1. known = {}
    BY <1>3, <1>5
  <2>2. ToolOutputItem(b, Tools) = item("function_call", b.name, <<>>, b.input)
    BY <2>1 DEF ToolOutputItem
  <2> QED BY <1>5, <2>2 DEF ItemOf
<1>6. CASE Tools[j].kind # "none"
  <2>1. known = {j}
    BY <1>2, <1>3, <1>6
  <2>2. Min(known) = j
    BY <2>1 DEF Min
  <2> DEFINE spec == Tools[Min(known)]
  <2>3. ToolOutputItem(b, Tools) =
          CASE spec.kind = "local_shell" -> item("local_shell_call", <<>>, <<>>, b.input)
            [] spec.kind \in {"apply_patch", "exec"} ->
                 item("custom_tool_call", spec.openai, <<>>, RebuildGrammar(b.name, b.input))
            [] spec.kind = "raw" -> item("custom_tool_call", spec.openai, <<>>, InputFromRaw(b.input))
            [] OTHER -> item("function_call", spec.openai, spec.namespace, b.input)
    BY <2>1, Zenon DEF ToolOutputItem
  <2>4. spec = Tools[j]
    BY <2>2
  <2> HIDE DEF known, spec
  <2>5. CASE spec.kind = "local_shell"
    BY <2>3, <2>4, <2>5 DEF ItemOf
  <2>6. CASE spec.kind \in {"apply_patch", "exec"}
    BY <2>3, <2>4, <2>6 DEF ItemOf
  <2>7. CASE spec.kind = "raw"
    BY <2>3, <2>4, <2>7 DEF ItemOf
  <2>8. CASE spec.kind = "function"
    BY <2>3, <2>4, <2>8 DEF ItemOf
  <2> QED BY <1>4, <1>6, <2>4, <2>5, <2>6, <2>7, <2>8 DEF ToolKinds
<1> QED BY <1>5, <1>6

\* What is known of the name of a declared tool.
WellNamed(tool, ns) ==
  /\ IsList(tool.name) /\ IsSeq(ns) /\ tool.type # "namespace"
  /\ tool.type = "custom" /\ tool.grammar = "patch" => tool.name = <<"apply_patch">> /\ ns = <<>>

LEMMA NamePrefix ==
    ASSUME NEW p, IsSeq(p)
    PROVE  /\ IsPrefix(p, p)
           /\ \A a : IsPrefix(p, p \o <<a>>) /\ Len(p \o <<a>>) = Len(p) + 1
                     /\ \A k \in 1 .. Len(p) : (p \o <<a>>)[k] = p[k]
<1>1. PICK S : p \in Seq(S)
  BY DEF IsSeq
<1>2. IsPrefix(p, p)
  BY <1>1 DEF IsPrefix
<1>3. ASSUME NEW a
      PROVE  /\ IsPrefix(p, p \o <<a>>) /\ Len(p \o <<a>>) = Len(p) + 1
             /\ \A k \in 1 .. Len(p) : (p \o <<a>>)[k] = p[k]
  <2> DEFINE q == p \o <<a>>
  <2>1. p \in Seq(S \cup {a}) /\ <<a>> \in Seq(S \cup {a}) /\ Len(<<a>>) = 1
    BY <1>1
  <2>2. q \in Seq(S \cup {a}) /\ Joined(p, <<a>>, q)
    BY <2>1, JoinedTyped
  <2> HIDE DEF q
  <2>3. Len(q) = Len(p) + 1 /\ \A k \in 1 .. Len(p) : q[k] = p[k]
    BY <2>1, <2>2 DEF Joined
  <2>4. Len(p) \in Nat /\ SubSeq(p, 1, Len(p)) = p
    BY <2>1
  <2>5. SubSeq(q, 1, Len(p)) = p
    BY <2>1, <2>2, <2>3, <2>4
  <2>6. IsPrefix(p, q)
    BY <2>3, <2>4, <2>5 DEF IsPrefix
  <2> QED BY <2>3, <2>6 DEF q
<1> QED BY <1>2, <1>3

LEMMA NameIsSeq == ASSUME NEW tool, NEW ns, WellNamed(tool, ns) PROVE IsSeq(ns \o tool.name)
BY ListIsSeq, JoinedSeqs DEF WellNamed

\* A call of what a declared tool became, with the input asked for, is a call of that tool.
LEMMA CallOfDeclared ==
    ASSUME NEW tool, NEW ns, NEW t, NEW b, Made(tool, ns, t), WellNamed(tool, ns),
           b.name = t.name, b.input = InputForm(t)
    PROVE  DeclaredAs(tool, ns, ItemOf(b, t), b.name)
<1> DEFINE item(type, name, namespace, input) ==
             [type |-> type, id |-> b.id, name |-> name, namespace |-> namespace, input |-> input]
<1>0. InNamespace(tool, ns, ItemOf(b, t))
  <2>1. CASE tool.type = "function"
    <3>1. t = CoreTool(ns \o tool.name, "function", tool.name, ns)
      BY <2>1 DEF Made
    <3>2. t.kind = "function" /\ t.namespace = ns
      BY <3>1 DEF CoreTool
    <3>3. ItemOf(b, t).namespace = ns
      BY <3>2 DEF ItemOf
    <3> QED BY <3>3 DEF InNamespace
  <2>2. CASE tool.type # "function" /\ ns # <<>>
    BY <2>2 DEF InNamespace
  <2>3. CASE tool.type # "function" /\ ns = <<>>
    <3>1. \E n, o : \E k \in {"none", "local_shell", "apply_patch", "exec", "raw"} : t = CoreTool(n, k, o, <<>>)
      BY <2>3, Zenon DEF Made
    <3>2. t.kind \in {"none", "local_shell", "apply_patch", "exec", "raw"}
      BY <3>1, KindOf
    <3>3. ItemOf(b, t).namespace = <<>>
      BY <3>2 DEF ItemOf
    <3> QED BY <2>3, <3>3 DEF InNamespace
  <2> QED BY <2>1, <2>2, <2>3
<1>1. CASE tool.type = "function" /\ t = CoreTool(ns \o tool.name, "function", tool.name, ns)
  <2>1. t.kind = "function" /\ t.name = ns \o tool.name /\ t.openai = tool.name /\ t.namespace = ns
    BY <1>1 DEF CoreTool
  <2>2. ItemOf(b, t) = item("function_call", tool.name, ns, b.input)
    BY <2>1 DEF ItemOf
  <2> QED BY <1>0, <1>1, <2>1, <2>2 DEF DeclaredAs
<1>2. CASE /\ tool.type = "custom" /\ tool.name = <<"local_shell">>
           /\ t = CoreTool(ns \o tool.name, "local_shell", tool.name, <<>>)
  <2>1. t.kind = "local_shell" /\ t.name = ns \o tool.name
    BY <1>2 DEF CoreTool
  <2>2. b.input = "action"
    BY <2>1 DEF InputForm
  <2>3. ItemOf(b, t) = item("local_shell_call", <<>>, <<>>, b.input)
    BY <2>1 DEF ItemOf
  <2> QED BY <1>0, <1>2, <2>1, <2>2, <2>3 DEF DeclaredAs
<1>3. CASE /\ tool.type = "custom" /\ tool.grammar = "patch"
           /\ \E a : t = CoreTool(ns \o tool.name \o <<a>>, "apply_patch", tool.name, <<>>)
  <2>1. tool.name = <<"apply_patch">> /\ ns = <<>>
    BY <1>3 DEF WellNamed
  <2> DEFINE p == ns \o tool.name
  <2>2. PICK a : t = CoreTool(p \o <<a>>, "apply_patch", tool.name, <<>>)
    BY <1>3
  <2>3. t.kind = "apply_patch" /\ t.name = p \o <<a>> /\ t.openai = tool.name
    BY <2>2 DEF CoreTool
  <2>4. b.input = "op"
    BY <2>3 DEF InputForm
  <2>5. Len(p) = 1 /\ p[1] = "apply_patch" /\ IsSeq(p)
    <3>1. p = <<>> \o <<"apply_patch">>
      BY <2>1
    <3>2. <<"apply_patch">> \in Seq({"apply_patch"})
      OBVIOUS
    <3>3. p = <<"apply_patch">>
      BY <3>1, <3>2, ConcatEmptySeq
    <3>4. IsSeq(p)
      BY NameIsSeq
    <3> HIDE DEF p
    <3> QED BY <3>3, <3>4
  <2> HIDE DEF p
  <2>6. b.name[1] = "apply_patch" /\ Len(b.name) > 1 /\ IsPrefix(p, b.name)
    BY <2>3, <2>5, NamePrefix
  <2>7. RebuildGrammar(b.name, b.input) = "raw"
    BY <2>4, <2>6 DEF RebuildGrammar
  <2>8. ItemOf(b, t) = item("custom_tool_call", tool.name, <<>>, "raw")
    BY <2>3, <2>7 DEF ItemOf
  <2>9. IsPrefix(ns \o tool.name, b.name)
    BY <2>6 DEF p
  <2> QED BY <1>0, <1>3, <2>8, <2>9 DEF DeclaredAs
<1>4. CASE /\ tool.type = "custom" /\ tool.grammar = "exec"
           /\ t = CoreTool(ns \o tool.name, "exec", tool.name, <<>>)
  <2>1. t.kind = "exec" /\ t.name = ns \o tool.name /\ t.openai = tool.name
    BY <1>4 DEF CoreTool
  <2>2. ItemOf(b, t) = item("custom_tool_call", tool.name, <<>>, RebuildGrammar(b.name, b.input))
    BY <2>1 DEF ItemOf
  <2>3. IsPrefix(ns \o tool.name, b.name)
    BY <2>1, NameIsSeq, NamePrefix
  <2> QED BY <1>0, <1>4, <2>2, <2>3 DEF DeclaredAs
<1>5. CASE tool.type = "custom" /\ t = CoreTool(ns \o tool.name, "raw", tool.name, <<>>)
  <2>1. t.kind = "raw" /\ t.name = ns \o tool.name /\ t.openai = tool.name
    BY <1>5 DEF CoreTool
  <2>2. InputFromRaw(b.input) = "raw"
    BY <2>1 DEF InputForm, InputFromRaw
  <2>3. ItemOf(b, t) = item("custom_tool_call", tool.name, <<>>, "raw")
    BY <2>1, <2>2 DEF ItemOf
  <2>4. IsPrefix(ns \o tool.name, b.name)
    BY <2>1, NameIsSeq, NamePrefix
  <2> QED BY <1>0, <1>5, <2>3, <2>4 DEF DeclaredAs
<1>6. CASE /\ tool.type \notin {"function", "custom"}
           /\ t = CoreTool(<<tool.type>>, "none", <<>>, <<>>)
  <2>1. t.kind = "none" /\ t.name = <<tool.type>> /\ tool.type # "namespace"
    BY <1>6 DEF CoreTool, WellNamed
  <2>2. ItemOf(b, t) = item("function_call", b.name, <<>>, b.input)
    BY <2>1 DEF ItemOf
  <2> QED BY <1>0, <1>6, <2>1, <2>2 DEF DeclaredAs
<1> QED BY <1>1, <1>2, <1>3, <1>4, <1>5, <1>6 DEF Made

\* A block is a call as the provider makes it.
CallsTool(b) ==
  /\ b.type = "tool_use"
  /\ \E j \in 1 .. Len(Tools) : b.name = Tools[j].name /\ b.input = InputForm(Tools[j])

\* An item is what a call should come back as.
ComesBack(item, b) ==
  item.id = b.id /\ item.type \in CallTypes /\ Declared(item, b.name)

LEMMA CallComesBack ==
    ASSUME NEW b, CallsTool(b)
    PROVE  ComesBack(ToolOutputItem(b, Tools), b)
<1>1. PICK j \in 1 .. Len(Tools) : b.name = Tools[j].name /\ b.input = InputForm(Tools[j])
  BY DEF CallsTool
<1> DEFINE t == Tools[j]
           item == ItemOf(b, t)
<1>2. ToolOutputItem(b, Tools) = item
  BY <1>1, ToolFound
<1>3. FromClient(t)
  BY <1>1, ToolsFromClient
<1>4. t.kind \in ToolKinds
  BY <1>3, KindMade DEF FromClient
<1>5. item.id = b.id /\ item.type \in CallTypes
  BY <1>4 DEF ItemOf, ToolKinds, CallTypes
<1> HIDE DEF item
<1>6. PICK n \in DOMAIN ClientTools :
        \/ ClientTools[n].type # "namespace" /\ Made(ClientTools[n], <<>>, t)
        \/ /\ ClientTools[n].type = "namespace"
           /\ \E d \in DOMAIN ClientTools[n].tools : Made(ClientTools[n].tools[d], ClientTools[n].name, t)
  BY <1>3 DEF FromClient
<1>7. CASE ClientTools[n].type # "namespace" /\ Made(ClientTools[n], <<>>, t)
  <2>1. WellNamed(ClientTools[n], <<>>)
    BY <1>7, ToolsAssumption, EmptyIsSeq DEF WellNamed
  <2>2. DeclaredAs(ClientTools[n], <<>>, item, b.name)
    BY <1>1, <1>7, <2>1, CallOfDeclared DEF item
  <2>3. Declared(item, b.name)
    BY <2>2 DEF Declared
  <2> QED BY <1>2, <1>5, <2>3 DEF ComesBack
<1>8. CASE /\ ClientTools[n].type = "namespace"
           /\ \E d \in DOMAIN ClientTools[n].tools : Made(ClientTools[n].tools[d], ClientTools[n].name, t)
  <2>1. PICK d \in DOMAIN ClientTools[n].tools : Made(ClientTools[n].tools[d], ClientTools[n].name, t)
    BY <1>8
  <2>2. WellNamed(ClientTools[n].tools[d], ClientTools[n].name)
    <3>1. IsSeq(ClientTools[n].name)
      BY ToolsAssumption, ListIsSeq
    <3> QED BY <1>8, <3>1, ToolsAssumption DEF WellNamed
  <2>3. DeclaredAs(ClientTools[n].tools[d], ClientTools[n].name, item, b.name)
    BY <1>1, <2>1, <2>2, CallOfDeclared DEF item
  <2>4. Declared(item, b.name)
    BY <1>8, <2>3 DEF Declared
  <2> QED BY <1>2, <1>5, <2>4 DEF ComesBack
<1> QED BY <1>6, <1>7, <1>8

-----------------------------------------------------------------------------
(* The items of an answer.                                                 *)

\* One element more, or a concatenation, of sequences of anything.
LEMMA OneMoreIn ==
    ASSUME NEW s, IsSeq(s), NEW x
    PROVE  /\ IsSeq(Append(s, x))
           /\ \A T : OfType(Append(s, x), T) = IF x.type \in T THEN Append(OfType(s, T), x) ELSE OfType(s, T)
<1>1. PICK S : s \in Seq(S)
  BY DEF IsSeq
<1>2. S \subseteq S \cup {x}
  OBVIOUS
<1>3. s \in Seq(S \cup {x}) /\ x \in S \cup {x}
  BY <1>1, <1>2, SeqMonotonic
<1>4. Append(s, x) \in Seq(S \cup {x})
  BY <1>3
<1>5. IsSeq(Append(s, x))
  BY <1>4 DEF IsSeq
<1>6. \A T : OfType(Append(s, x), T) = IF x.type \in T THEN Append(OfType(s, T), x) ELSE OfType(s, T)
  BY <1>3, OneMoreOfType
<1> QED BY <1>5, <1>6

LEMMA TypesTogether ==
    ASSUME NEW a, NEW b, IsSeq(a), IsSeq(b)
    PROVE  IsSeq(a \o b) /\ \A T : OfType(a \o b, T) = OfType(a, T) \o OfType(b, T)
<1>1. PICK S : a \in Seq(S) /\ b \in Seq(S)
  BY SharedSet
<1>2. \A T : OfType(a \o b, T) = OfType(a, T) \o OfType(b, T)
  BY <1>1, OfTypeTogether
<1>3. IsSeq(a \o b)
  BY JoinedSeqs
<1> QED BY <1>2, <1>3

LEMMA OfTypeIsSeq == ASSUME NEW s, IsSeq(s), NEW T PROVE IsSeq(OfType(s, T)) /\ Len(OfType(s, T)) \in Nat
<1>1. PICK S : s \in Seq(S)
  BY DEF IsSeq
<1>2. OfType(s, T) \in Seq(S)
  BY <1>1, OfTypeTyped
<1> QED BY <1>2 DEF IsSeq

\* The calls and what they came back as.
Paired(made, back) ==
  /\ IsSeq(made) /\ IsSeq(back) /\ Len(made) \in Nat /\ Len(back) = Len(made)
  /\ \A k \in 1 .. Len(made) : ComesBack(back[k], made[k])

LEMMA NothingPaired == Paired(<<>>, <<>>)
<1>1. IsSeq(<<>>) /\ Len(<<>>) = 0
  BY EmptyIsSeq
<1>2. \A k \in 1 .. Len(<<>>) : FALSE
  BY <1>1
<1> QED BY <1>1, <1>2 DEF Paired

LEMMA OnePairMore ==
    ASSUME NEW made, NEW back, Paired(made, back), NEW x, NEW y, ComesBack(y, x)
    PROVE  Paired(Append(made, x), Append(back, y))
<1> DEFINE m == Append(made, x)
           b == Append(back, y)
<1>1. IsSeq(m) /\ IsSeq(b)
  BY OneMoreIn DEF Paired
<1>2. PICK S : made \in Seq(S) /\ back \in Seq(S)
  BY SharedSet DEF Paired
<1>3. /\ Len(m) = Len(made) + 1 /\ m[Len(made) + 1] = x /\ \A k \in 1 .. Len(made) : m[k] = made[k]
      /\ Len(b) = Len(back) + 1 /\ b[Len(back) + 1] = y /\ \A k \in 1 .. Len(back) : b[k] = back[k]
  BY <1>2
<1>4. Len(made) \in Nat /\ Len(back) = Len(made) /\ \A k \in 1 .. Len(made) : ComesBack(back[k], made[k])
  BY DEF Paired
<1> HIDE DEF m, b
<1>5. \A k \in 1 .. Len(m) : k = Len(made) + 1 \/ k \in 1 .. Len(made)
  BY <1>3, <1>4
<1>6. \A k \in 1 .. Len(m) : ComesBack(b[k], m[k])
  BY <1>3, <1>4, <1>5
<1>7. Paired(m, b)
  BY <1>1, <1>3, <1>4, <1>6 DEF Paired
<1> QED BY <1>7 DEF m, b

LEMMA PairedTogether ==
    ASSUME NEW made, NEW back, NEW made2, NEW back2, Paired(made, back), Paired(made2, back2)
    PROVE  Paired(made \o made2, back \o back2)
<1> DEFINE m == made \o made2
           b == back \o back2
<1>1. IsSeq(m) /\ Joined(made, made2, m)
  BY JoinedSeqs DEF Paired
<1>2. IsSeq(b) /\ Joined(back, back2, b)
  BY JoinedSeqs DEF Paired
<1> HIDE DEF m, b
<1>3. Len(m) = Len(b) /\ Len(m) \in Nat
  BY <1>1, <1>2 DEF Paired, Joined
<1>4. ASSUME NEW k \in 1 .. Len(m) PROVE ComesBack(b[k], m[k])
  <2>1. CASE k <= Len(made)
    <3>1. k \in 1 .. Len(made) /\ k \in 1 .. Len(back)
      BY <2>1 DEF Paired
    <3>2. m[k] = made[k] /\ b[k] = back[k]
      BY <1>1, <1>2, <3>1 DEF Joined
    <3> QED BY <3>1, <3>2 DEF Paired
  <2>2. CASE k > Len(made)
    <3> DEFINE l == k - Len(made)
    <3>1. l \in 1 .. Len(made2) /\ l \in 1 .. Len(back2) /\ k = Len(made) + l /\ k = Len(back) + l
      BY <1>1, <2>2 DEF Paired, Joined
    <3> HIDE DEF l
    <3>2. m[k] = made2[l] /\ b[k] = back2[l]
      BY <1>1, <1>2, <3>1 DEF Joined
    <3> QED BY <3>1, <3>2 DEF Paired
  <2>3. k \in Nat /\ Len(made) \in Nat
    BY DEF Paired
  <2> QED BY <2>1, <2>2, <2>3
<1>5. Paired(m, b)
  BY <1>1, <1>2, <1>3, <1>4 DEF Paired
<1> QED BY <1>5 DEF m, b

\* Texts that are collected and items, as FromCoreResponse keeps them.
OutState(items, texts) == [items |-> items, texts |-> texts]

LEMMA TextsFlushed ==
    ASSUME NEW i, NEW t, IsSeq(i)
    PROVE  \E j, u : /\ FlushTexts(OutState(i, t)) = OutState(j, u)
                     /\ IsSeq(j) /\ OfType(j, CallTypes) = OfType(i, CallTypes)
<1>1. CASE t = <<>>
  <2>1. FlushTexts(OutState(i, t)) = OutState(i, t)
    BY <1>1 DEF FlushTexts, OutState
  <2> QED BY <2>1
<1>2. CASE t # <<>>
  <2> DEFINE j == Append(i, MessageItem(t))
  <2>1. FlushTexts(OutState(i, t)) = OutState(j, <<>>)
    BY <1>2 DEF FlushTexts, OutState
  <2>2. MessageItem(t).type \notin CallTypes
    BY DEF MessageItem, CallTypes
  <2>3. IsSeq(j) /\ OfType(j, CallTypes) = OfType(i, CallTypes)
    BY <2>2, OneMoreIn
  <2> QED BY <2>1, <2>3
<1> QED BY <1>1, <1>2

\* One block more of the answer.
LEMMA BlockOut ==
    ASSUME NEW i, NEW t, IsSeq(i), NEW x, x.type = "tool_use" => CallsTool(x)
    PROVE  \E j, u : /\ OutputBlock(OutState(i, t), x, Tools) = OutState(j, u)
                     /\ IsSeq(j)
                     /\ OfType(j, CallTypes) = IF x.type = "tool_use"
                                               THEN Append(OfType(i, CallTypes), ToolOutputItem(x, Tools))
                                               ELSE OfType(i, CallTypes)
<1>1. CASE x.type = "text"
  <2>1. OutputBlock(OutState(i, t), x, Tools) = OutState(i, Append(t, x))
    BY <1>1 DEF OutputBlock, OutState
  <2> QED BY <1>1, <2>1
<1>2. CASE x.type = "image"
  <2>1. OutputBlock(OutState(i, t), x, Tools) = OutState(i, Append(t, Text(<<"[Image]">>)))
    BY <1>2 DEF OutputBlock, OutState
  <2> QED BY <1>2, <2>1
<1>3. CASE x.type = "reasoning"
  <2> DEFINE j == Append(i, ReasoningSummary(x))
  <2>1. OutputBlock(OutState(i, t), x, Tools) = OutState(j, t)
    BY <1>3 DEF OutputBlock, OutState
  <2>2. ReasoningSummary(x).type \notin CallTypes
    BY DEF ReasoningSummary, CallTypes
  <2>3. IsSeq(j) /\ OfType(j, CallTypes) = OfType(i, CallTypes)
    BY <2>2, OneMoreIn
  <2> QED BY <1>3, <2>1, <2>3
<1>4. CASE x.type = "tool_use"
  <2>1. PICK f, u : /\ FlushTexts(OutState(i, t)) = OutState(f, u)
                    /\ IsSeq(f) /\ OfType(f, CallTypes) = OfType(i, CallTypes)
    BY TextsFlushed
  <2> DEFINE y == ToolOutputItem(x, Tools)
             j == Append(f, y)
  <2>2. OutputBlock(OutState(i, t), x, Tools) = [OutState(f, u) EXCEPT !.items = Append(@, y)]
    BY <1>4, <2>1 DEF OutputBlock
  <2>3. y.type \in CallTypes
    BY <1>4, CallComesBack DEF ComesBack
  <2> HIDE DEF y
  <2>4. [OutState(f, u) EXCEPT !.items = Append(@, y)] = OutState(j, u)
    BY DEF OutState
  <2>5. IsSeq(j) /\ OfType(j, CallTypes) = Append(OfType(f, CallTypes), y)
    BY <2>1, <2>3, OneMoreIn
  <2> QED BY <1>4, <2>1, <2>2, <2>4, <2>5 DEF y
<1>5. CASE x.type \notin {"text", "image", "reasoning", "tool_use"}
  <2>1. OutputBlock(OutState(i, t), x, Tools) = OutState(i, t)
    BY <1>5 DEF OutputBlock
  <2> QED BY <1>5, <2>1
<1> QED BY <1>1, <1>2, <1>3, <1>4, <1>5

\* f is the function that OutputItems(blocks, Tools) chooses, or its first m values.
IsOutput(f, m, blocks) ==
    f = [n \in 0 .. m |-> IF n = 0 THEN OutState(<<>>, <<>>) ELSE OutputBlock(f[n - 1], blocks[n], Tools)]

LEMMA OutputExists ==
    ASSUME NEW blocks, NEW m \in Nat
    PROVE  \E f : IsOutput(f, m, blocks)
<1> DEFINE Good == { k \in Nat : \E f : IsOutput(f, k, blocks) }
<1>1. 0 \in Good
  <2> DEFINE f == [n \in 0 .. 0 |-> OutState(<<>>, <<>>)]
  <2>1. f = [n \in 0 .. 0 |-> IF n = 0 THEN OutState(<<>>, <<>>) ELSE OutputBlock(f[n - 1], blocks[n], Tools)]
    OBVIOUS
  <2> HIDE DEF f
  <2> QED BY <2>1 DEF IsOutput
<1>2. ASSUME NEW k \in 1 .. m, k - 1 \in Good PROVE k \in Good
  <2>0. k \in Nat /\ k # 0
    BY <1>2
  <2>1. PICK f : IsOutput(f, k - 1, blocks)
    BY <1>2
  <2>2. PICK g : IsLonger(g, f, k, OutputBlock(f[k - 1], blocks[k], Tools))
    BY <2>0, Longer, Zenon
  <2>3. \A n \in 0 .. k - 1 : f[n] = IF n = 0 THEN OutState(<<>>, <<>>) ELSE OutputBlock(f[n - 1], blocks[n], Tools)
    BY <2>1, Zenon DEF IsOutput
  <2>4. \A n \in 0 .. k : g[n] = IF n = 0 THEN OutState(<<>>, <<>>) ELSE OutputBlock(g[n - 1], blocks[n], Tools)
    BY <2>2, <2>3 DEF IsLonger
  <2>5. g = [n \in 0 .. k |-> IF n = 0 THEN OutState(<<>>, <<>>) ELSE OutputBlock(g[n - 1], blocks[n], Tools)]
    BY <2>2, <2>4 DEF IsLonger
  <2> QED BY <2>0, <2>5, Zenon DEF IsOutput
<1>3. m \in Good
  <2> HIDE DEF Good
  <2> QED BY <1>1, <1>2, InductionUpTo
<1> QED BY <1>3

\* What a list of elements that are given one by one is.
LEMMA ListMade ==
    ASSUME NEW f, NEW m \in Nat, f = [k \in 1 .. m |-> f[k]]
    PROVE  IsSeq(f) /\ Len(f) = m /\ DOMAIN f = 1 .. m
<1> DEFINE S == {f[k] : k \in 1 .. m}
<1>1. \A k \in 1 .. m : f[k] \in S
  OBVIOUS
<1> HIDE DEF S
<1>2. f \in Seq(S)
  BY <1>1
<1>3. Len(f) = m /\ DOMAIN f = 1 .. m
  OBVIOUS
<1> QED BY <1>2, <1>3 DEF IsSeq

\* One call more among the first n blocks, if the n-th is one.
LEMMA FrontOfType ==
    ASSUME NEW s, IsSeq(s), NEW n \in 1 .. Len(s), NEW T
    PROVE  /\ OfType(SubSeq(s, 1, 0), T) = <<>>
           /\ OfType(SubSeq(s, 1, n), T) =
                IF s[n].type \in T THEN Append(OfType(SubSeq(s, 1, n - 1), T), s[n])
                                   ELSE OfType(SubSeq(s, 1, n - 1), T)
<1>1. PICK S : s \in Seq(S)
  BY DEF IsSeq
<1>2. SubSeq(s, 1, 0) = <<>>
  BY <1>1
<1> DEFINE front == SubSeq(s, 1, n - 1)
<1>3. front \in Seq(S) /\ SubSeq(s, 1, n) = Append(front, s[n]) /\ s[n] \in S
  BY <1>1
<1> DEFINE last == s[n]
<1> HIDE DEF front, last
<1>4. front \in Seq(S) /\ last \in S
  BY <1>3 DEF last
<1>5. OfType(Append(front, last), T) = IF last.type \in T THEN Append(OfType(front, T), last) ELSE OfType(front, T)
  BY <1>4, OneMoreOfType
<1> QED BY <1>2, <1>3, <1>5, NothingOfType DEF front, last

\* Every call of an answer becomes one item, and nothing else becomes a call.
LEMMA ItemsPaired ==
    ASSUME NEW blocks, IsSeq(blocks),
           \A k \in 1 .. Len(blocks) : blocks[k].type = "tool_use" => CallsTool(blocks[k])
    PROVE  /\ IsSeq(OutputItems(blocks, Tools))
           /\ Paired(OfType(blocks, {"tool_use"}), OfType(OutputItems(blocks, Tools), CallTypes))
<1> DEFINE f == CHOOSE f : IsOutput(f, Len(blocks), blocks)
           made(n) == OfType(SubSeq(blocks, 1, n), {"tool_use"})
           Fine(n) == \E i, t : /\ f[n] = OutState(i, t) /\ IsSeq(i)
                                /\ Paired(made(n), OfType(i, CallTypes))
           Good == { n \in Nat : Fine(n) }
<1>0. PICK S : blocks \in Seq(S)
  BY DEF IsSeq
<1>00. Len(blocks) \in Nat
  BY <1>0
<1>1. IsOutput(f, Len(blocks), blocks)
  BY <1>00, OutputExists
<1>2. OutputItems(blocks, Tools) = FlushTexts(f[Len(blocks)]).items
  BY Zenon DEF OutputItems, IsOutput, OutState
<1> HIDE DEF f
<1>3. ASSUME NEW n \in 0 .. Len(blocks)
      PROVE  f[n] = IF n = 0 THEN OutState(<<>>, <<>>) ELSE OutputBlock(f[n - 1], blocks[n], Tools)
  BY <1>1, Zenon DEF IsOutput
<1>4. 0 \in Good
  <2>1. f[0] = OutState(<<>>, <<>>)
    BY <1>00, <1>3
  <2>2. made(0) = <<>> /\ OfType(<<>>, CallTypes) = <<>>
    <3>1. SubSeq(blocks, 1, 0) = <<>>
      BY <1>0
    <3> QED BY <3>1, NothingOfType
  <2>3. Paired(made(0), OfType(<<>>, CallTypes))
    BY <2>2, NothingPaired
  <2> HIDE DEF made
  <2> QED BY <2>1, <2>3, EmptyIsSeq
<1>5. ASSUME NEW n \in 1 .. Len(blocks), n - 1 \in Good PROVE n \in Good
  <2>1. n \in 0 .. Len(blocks) /\ n # 0 /\ n \in Nat
    OBVIOUS
  <2>2. PICK i, t : /\ f[n - 1] = OutState(i, t) /\ IsSeq(i)
                    /\ Paired(made(n - 1), OfType(i, CallTypes))
    BY <1>5
  <2> DEFINE x == blocks[n]
  <2>3. f[n] = OutputBlock(OutState(i, t), x, Tools)
    BY <1>3, <2>1, <2>2
  <2>4. x.type = "tool_use" => CallsTool(x)
    OBVIOUS
  <2>5. made(n) = IF x.type = "tool_use" THEN Append(made(n - 1), x) ELSE made(n - 1)
    <3>1. x.type \in {"tool_use"} <=> x.type = "tool_use"
      OBVIOUS
    <3> QED BY <3>1, FrontOfType
  <2> HIDE DEF x, made
  <2>6. PICK j, u : /\ OutputBlock(OutState(i, t), x, Tools) = OutState(j, u)
                    /\ IsSeq(j)
                    /\ OfType(j, CallTypes) = IF x.type = "tool_use"
                                              THEN Append(OfType(i, CallTypes), ToolOutputItem(x, Tools))
                                              ELSE OfType(i, CallTypes)
    BY <2>2, <2>4, BlockOut
  <2>7. Paired(made(n), OfType(j, CallTypes))
    <3>1. CASE x.type = "tool_use"
      <4>1. ComesBack(ToolOutputItem(x, Tools), x)
        BY <2>4, <3>1, CallComesBack
      <4>2. Paired(Append(made(n - 1), x), Append(OfType(i, CallTypes), ToolOutputItem(x, Tools)))
        BY <2>2, <4>1, OnePairMore
      <4> QED BY <2>5, <2>6, <3>1, <4>2
    <3>2. CASE x.type # "tool_use"
      BY <2>2, <2>5, <2>6, <3>2
    <3> QED BY <3>1, <3>2
  <2> QED BY <2>1, <2>3, <2>6, <2>7
<1>6. Len(blocks) \in Good
  <2> HIDE DEF Good
  <2> QED BY <1>00, <1>4, <1>5, InductionUpTo
<1>7. PICK i, t : /\ f[Len(blocks)] = OutState(i, t) /\ IsSeq(i)
                  /\ Paired(made(Len(blocks)), OfType(i, CallTypes))
  BY <1>6
<1>8. made(Len(blocks)) = OfType(blocks, {"tool_use"})
  <2>1. SubSeq(blocks, 1, Len(blocks)) = blocks
    BY <1>0
  <2> QED BY <2>1
<1> HIDE DEF made
<1>9. PICK j, u : /\ FlushTexts(OutState(i, t)) = OutState(j, u)
                  /\ IsSeq(j) /\ OfType(j, CallTypes) = OfType(i, CallTypes)
  BY <1>7, TextsFlushed
<1>10. OutputItems(blocks, Tools) = j
  BY <1>2, <1>7, <1>9 DEF OutState
<1> QED BY <1>7, <1>8, <1>9, <1>10

-----------------------------------------------------------------------------
(* Calls come back as declared.                                            *)

\* Among the first m places that are chosen, there is a last one.
LEMMA LastPlaceIs ==
    ASSUME NEW m \in Nat, NEW P, P \subseteq 1 .. m
    PROVE  /\ LastPlace(P) \in 0 .. m
           /\ P # {} => LastPlace(P) \in P
           /\ P = {} => LastPlace(P) = 0
           /\ \A k \in P : k <= LastPlace(P)
<1> DEFINE Has(n) == \/ \A x \in P : x > n
                     \/ \E x \in P : x <= n /\ \A y \in P : y <= n => y <= x
           Good == {n \in Nat : Has(n)}
<1>0. \A x \in P : x \in Int /\ 1 <= x /\ x <= m
  OBVIOUS
<1>1. 0 \in Good
  BY <1>0
<1>2. ASSUME NEW n \in 1 .. m, n - 1 \in Good PROVE n \in Good
  <2>1. CASE n \in P
    <3>1. n <= n /\ \A y \in P : y <= n => y <= n
      BY <2>1
    <3> QED BY <2>1, <3>1
  <2>2. CASE n \notin P
    <3>1. \A x \in P : (x <= n <=> x <= n - 1) /\ (x > n <=> x > n - 1)
      BY <1>0, <2>2
    <3>2. Has(n - 1)
      BY <1>2
    <3>3. CASE \A x \in P : x > n - 1
      BY <3>1, <3>3
    <3>4. CASE \E x \in P : x <= n - 1 /\ \A y \in P : y <= n - 1 => y <= x
      BY <3>1, <3>4
    <3> QED BY <3>2, <3>3, <3>4
  <2> QED BY <2>1, <2>2
<1>3. m \in Good
  <2> HIDE DEF Good
  <2> QED BY <1>1, <1>2, InductionUpTo
<1>4. Has(m)
  BY <1>3
<1>5. P # {} => \E x \in P : \A y \in P : x >= y
  <2>1. ASSUME NEW p \in P PROVE \E x \in P : \A y \in P : x >= y
    <3>1. ~(p > m)
      BY <1>0
    <3>2. PICK x \in P : x <= m /\ \A y \in P : y <= m => y <= x
      BY <1>4, <3>1
    <3>3. \A y \in P : x >= y
      BY <1>0, <3>2
    <3> QED BY <3>3
  <2> QED BY <2>1
<1>6. P # {} => Max(P) \in P /\ \A y \in P : Max(P) >= y
  BY <1>5, Zenon DEF Max
<1>7. P # {} => LastPlace(P) = Max(P)
  BY DEF LastPlace
<1>8. P = {} => LastPlace(P) = 0
  BY DEF LastPlace
<1>9. \A k \in P : k <= LastPlace(P)
  <2>1. ASSUME NEW k \in P PROVE k <= Max(P)
    BY <1>0, <1>6
  <2> QED BY <1>7, <2>1
<1>10. LastPlace(P) \in 0 .. m
  <2>1. ASSUME P # {} PROVE Max(P) \in 0 .. m
    <3>1. PICK x \in P : x = Max(P)
      BY <1>6, <2>1
    <3> QED BY <1>0, <3>1
  <2>2. 0 \in 0 .. m
    OBVIOUS
  <2> QED BY <1>7, <1>8, <2>1, <2>2
<1> QED BY <1>6, <1>7, <1>8, <1>9, <1>10

\* A list without elements of a type.
Without(s, T) == IsSeq(s) /\ \A k \in 1 .. Len(s) : s[k].type \notin T

LEMMA WithoutNone == ASSUME NEW s, NEW T, Without(s, T) PROVE OfType(s, T) = <<>>
<1>1. PICK S : s \in Seq(S)
  BY DEF Without, IsSeq
<1> QED BY <1>1, NoneOfType DEF Without

LEMMA AddedWithout ==
    ASSUME NEW s, IsSeq(s), NEW t, NEW T, Without(t, T)
    PROVE  IsSeq(s \o t) /\ OfType(s \o t, T) = OfType(s, T)
<1>1. IsSeq(t)
  BY DEF Without
<1>2. IsSeq(s \o t) /\ OfType(s \o t, T) = OfType(s, T) \o OfType(t, T)
  BY <1>1, TypesTogether
<1>3. OfType(t, T) = <<>>
  BY WithoutNone
<1>4. PICK S : OfType(s, T) \in Seq(S)
  BY OfTypeIsSeq DEF IsSeq
<1> QED BY <1>2, <1>3, <1>4

\* What the invariant says of the conversation so far.
ConversationInv ==
  /\ conv.protocol \in Protocols
  /\ IsSeq(history) /\ IsSeq(said)
  /\ Paired(OfType(said, {"tool_use"}), OfType(history, CallTypes))

LEMMA PairedIsDeclared == ASSUME ConversationInv PROVE CallsAsDeclared
<1> DEFINE made == OfType(said, {"tool_use"})
           back == OfType(history, CallTypes)
<1>1. Paired(made, back)
  BY DEF ConversationInv
<1>2. PICK S : made \in Seq(S) /\ back \in Seq(S)
  BY <1>1, SharedSet DEF Paired
<1>3. DOMAIN made = 1 .. Len(made) /\ DOMAIN back = 1 .. Len(made)
  BY <1>1, <1>2 DEF Paired
<1>4. \A k \in 1 .. Len(made) : back[k].id = made[k].id /\ Declared(back[k], made[k].name)
  BY <1>1 DEF Paired, ComesBack
<1> HIDE DEF made, back
<1>5. IdsOf(made) = IdsOf(back)
  BY <1>3, <1>4 DEF IdsOf
<1>6. \A k \in DOMAIN made : Declared(back[k], made[k].name)
  BY <1>3, <1>4
<1> QED BY <1>5, <1>6 DEF CallsAsDeclared, made, back

LEMMA PartsOfUser ==
    ASSUME NEW parts, IsSeq(parts), Without(parts, {"tool_use"})
    PROVE  Without(ContentBlocks(parts), {"tool_use"})
<1> DEFINE P == {k \in DOMAIN parts : parts[k].text # NoText}
<1>1. ContentBlocks(parts) = Selected(parts, P)
  BY DEF ContentBlocks
<1> HIDE DEF P
<1>2. PICK S : parts \in Seq(S)
  BY DEF IsSeq
<1>3. Selected(parts, P) \in Seq(S) /\ \E from : Picks(Selected(parts, P), parts, P, from)
  BY <1>2, SelectedPicks
<1>4. \A k \in 1 .. Len(Selected(parts, P)) : Selected(parts, P)[k].type \notin {"tool_use"}
  BY <1>3 DEF Picks, Without
<1> QED BY <1>1, <1>3, <1>4 DEF Without, IsSeq

LEMMA UserKeepsPairs == ASSUME ConversationInv, UserSays PROVE ConversationInv'
<1>1. PICK c \in DOMAIN UserContents :
        LET content == UserContents[c]
            parts == [k \in DOMAIN content |-> UserBlock(turn + 1, k, content[k])]
            developer == IF turn = 0
                         THEN <<[type |-> "message", role |-> "developer", content |-> <<Text(<<0, "developer">>)>>]>>
                         ELSE <<>>
        IN  /\ history' = history \o developer \o <<[type |-> "message", role |-> "user", content |-> parts]>>
            /\ said' = said \o ContentBlocks(parts)
  <2>1. 1 \in DOMAIN UserContents
    BY ContentsAssumption DEF IsList
  <2> QED BY <2>1, Zenon DEF UserSays
<1> DEFINE content == UserContents[c]
           parts == [k \in DOMAIN content |-> UserBlock(turn + 1, k, content[k])]
           instructed == [type |-> "message", role |-> "developer", content |-> <<Text(<<0, "developer">>)>>]
           developer == IF turn = 0 THEN <<instructed>> ELSE <<>>
           message == [type |-> "message", role |-> "user", content |-> parts]
<1>2. content \in Seq({"text", "image", "empty"})
  BY ContentsAssumption
<1>3. Len(content) \in Nat /\ DOMAIN content = 1 .. Len(content)
  BY <1>2
<1>4. \A k \in DOMAIN content : parts[k].type \in {"text", "image"}
  BY DEF UserBlock, Text, Image
<1>5. parts = [k \in 1 .. Len(content) |-> parts[k]]
  BY <1>3
<1>6. history' = history \o developer \o <<message>> /\ said' = said \o ContentBlocks(parts)
  BY <1>1
<1> HIDE DEF parts
<1>7. IsSeq(parts) /\ Len(parts) = Len(content)
  BY <1>3, <1>5, ListMade
<1>8. Without(parts, {"tool_use"})
  BY <1>3, <1>4, <1>7 DEF Without
<1>9. Without(ContentBlocks(parts), {"tool_use"})
  BY <1>7, <1>8, PartsOfUser
<1>10. IsSeq(said') /\ OfType(said', {"tool_use"}) = OfType(said, {"tool_use"})
  BY <1>6, <1>9, AddedWithout DEF ConversationInv
<1>11. ASSUME NEW x, x.type = "message" PROVE Without(<<x>>, CallTypes)
  <2>1. <<x>> \in Seq({x}) /\ Len(<<x>>) = 1 /\ <<x>>[1] = x
    OBVIOUS
  <2>2. \A k \in 1 .. 1 : k = 1
    OBVIOUS
  <2>3. "message" \notin CallTypes
    BY DEF CallTypes
  <2>4. \A k \in 1 .. Len(<<x>>) : <<x>>[k].type \notin CallTypes
    BY <1>11, <2>1, <2>2, <2>3
  <2>5. IsSeq(<<x>>)
    BY <2>1 DEF IsSeq
  <2> QED BY <2>4, <2>5 DEF Without
<1>12. Without(developer, CallTypes)
  <2>1. CASE turn = 0
    BY <1>11, <2>1
  <2>2. CASE turn # 0
    <3>1. IsSeq(<<>>) /\ \A k \in 1 .. Len(<<>>) : FALSE
      BY EmptyIsSeq
    <3> QED BY <2>2, <3>1 DEF Without
  <2> QED BY <2>1, <2>2
<1>13. Without(<<message>>, CallTypes)
  BY <1>11
<1> HIDE DEF developer, message
<1> DEFINE first == history \o developer
<1>14. IsSeq(first) /\ OfType(first, CallTypes) = OfType(history, CallTypes)
  BY <1>12, AddedWithout DEF ConversationInv
<1>15. history' = first \o <<message>>
  BY <1>6
<1> HIDE DEF first
<1>16. IsSeq(history') /\ OfType(history', CallTypes) = OfType(first, CallTypes)
  BY <1>13, <1>14, <1>15, AddedWithout
<1>17. conv' = conv
  BY DEF UserSays
<1> QED BY <1>10, <1>14, <1>16, <1>17 DEF ConversationInv

LEMMA OpenCallsTyped == ASSUME IsSeq(history) PROVE IsSeq(OpenCalls)
<1> DEFINE P == {i \in DOMAIN history : \/ history[i].type \in OutputTypes
                                        \/ history[i].type = "message" /\ history[i].role = "user"}
           added == LastPlace(P)
           rest == SubSeq(history, added + 1, Len(history))
<1>1. PICK S : history \in Seq(S)
  BY DEF IsSeq
<1>2. Len(history) \in Nat /\ P \subseteq 1 .. Len(history)
  BY <1>1
<1>3. OpenCalls = OfType(rest, CallTypes)
  BY Zenon DEF OpenCalls
<1> HIDE DEF P
<1>4. added \in 0 .. Len(history)
  BY <1>2, LastPlaceIs
<1> HIDE DEF added
<1>5. \A k \in added + 1 .. Len(history) : history[k] \in S
  BY <1>1, <1>4
<1>6. rest \in Seq(S)
  BY <1>1, <1>4, <1>5
<1>7. IsSeq(rest)
  BY <1>6 DEF IsSeq
<1> HIDE DEF rest
<1> QED BY <1>3, <1>7, OfTypeIsSeq

LEMMA ToolsKeepPairs == ASSUME ConversationInv, ToolsRun PROVE ConversationInv'
<1>1. PICK order \in SetToSeqs(DOMAIN OpenCalls) :
        LET ran(k) == [type |-> OutputType(OpenCalls[order[k]].type), id |-> OpenCalls[order[k]].id,
                          text |-> <<turn + 1, "r", order[k]>>]
        IN  /\ history' = history \o [k \in DOMAIN order |-> ran(k)]
            /\ said' = said \o [k \in DOMAIN order |-> ToolResult(ran(k).id, ran(k).text)]
  BY Zenon DEF ToolsRun
<1> DEFINE ran(k) == [type |-> OutputType(OpenCalls[order[k]].type), id |-> OpenCalls[order[k]].id,
                         text |-> <<turn + 1, "r", order[k]>>]
           outputs == [k \in DOMAIN order |-> ran(k)]
           results == [k \in DOMAIN order |-> ToolResult(ran(k).id, ran(k).text)]
           m == Cardinality(DOMAIN OpenCalls)
<1>2. history' = history \o outputs /\ said' = said \o results
  BY <1>1
<1>3. order \in [1 .. m -> DOMAIN OpenCalls]
  BY DEF SetToSeqs
<1>4. m \in Nat
  <2>1. PICK S : OpenCalls \in Seq(S)
    BY OpenCallsTyped DEF ConversationInv, IsSeq
  <2>2. DOMAIN OpenCalls = 1 .. Len(OpenCalls) /\ Len(OpenCalls) \in Nat
    BY <2>1
  <2>3. IsFiniteSet(DOMAIN OpenCalls)
    BY <2>2, FS_Interval
  <2> QED BY <2>3, FS_CardinalityType
<1>5. DOMAIN order = 1 .. m
  BY <1>3
<1>6. \A k \in 1 .. m : outputs[k].type = OutputType(OpenCalls[order[k]].type) /\ results[k].type = "tool_result"
  BY <1>5 DEF ToolResult
<1>7. \A type : OutputType(type) \notin CallTypes
  BY DEF OutputType, CallTypes
<1>8. outputs = [k \in 1 .. m |-> outputs[k]] /\ results = [k \in 1 .. m |-> results[k]]
  BY <1>5
<1> HIDE DEF outputs, results, m
<1>9. IsSeq(outputs) /\ Len(outputs) = m
  BY <1>4, <1>8, ListMade
<1>10. IsSeq(results) /\ Len(results) = m
  BY <1>4, <1>8, ListMade
<1>11. Without(outputs, CallTypes)
  BY <1>6, <1>7, <1>9 DEF Without
<1>12. Without(results, {"tool_use"})
  BY <1>6, <1>10 DEF Without
<1>13. IsSeq(history') /\ OfType(history', CallTypes) = OfType(history, CallTypes)
  BY <1>2, <1>11, AddedWithout DEF ConversationInv
<1>14. IsSeq(said') /\ OfType(said', {"tool_use"}) = OfType(said, {"tool_use"})
  BY <1>2, <1>12, AddedWithout DEF ConversationInv
<1>15. conv' = conv
  BY DEF ToolsRun
<1> QED BY <1>13, <1>14, <1>15 DEF ConversationInv

\* An answer in which every call is one of a tool that was sent.
CallsTools(blocks) ==
  IsSeq(blocks) /\ \A k \in 1 .. Len(blocks) : blocks[k].type = "tool_use" => CallsTool(blocks[k])

AnswerKinds == {"text", "thinking", "call", "server_tool_use"}

LEMMA CallBlockCalls ==
    ASSUME NEW k, NEW j \in 1 .. Len(Tools)
    PROVE  CallsTool(CallBlock(k, Tools[j])) /\ CallBlock(k, Tools[j]).type = "tool_use"
<1> DEFINE b == CallBlock(k, Tools[j])
<1>1. b.type = "tool_use" /\ b.name = Tools[j].name /\ b.input = InputForm(Tools[j])
  BY DEF CallBlock, ToolUse
<1> HIDE DEF b
<1> QED BY <1>1 DEF CallsTool, b

\* An answer as the Anthropic protocol has it: its blocks one by one.
LEMMA AnthropicAnswerIs ==
    ASSUME NEW shape \in Seq(AnswerKinds), NEW called,
           \A k \in DOMAIN shape : \E j \in 1 .. Len(Tools) : called[k] = Tools[j]
    PROVE  /\ IsSeq(AnthropicAnswer(shape, called)) /\ Len(AnthropicAnswer(shape, called)) = Len(shape)
           /\ DOMAIN AnthropicAnswer(shape, called) = 1 .. Len(shape)
           /\ \A k \in 1 .. Len(shape) :
                \/ AnthropicAnswer(shape, called)[k].type \in {"text", "thinking", "server_tool_use"}
                \/ CallsTool(AnthropicAnswer(shape, called)[k])
<1> DEFINE a == AnthropicAnswer(shape, called)
           one(k) == CASE shape[k] = "text"     -> Text(AnswerTag(k))
                       [] shape[k] = "thinking" -> [Reasoning(AnswerTag(k)) EXCEPT !.type = "thinking"]
                       [] shape[k] = "call"     -> CallBlock(k, called[k])
                       [] OTHER                 -> [type |-> shape[k]]
<1>1. Len(shape) \in Nat /\ DOMAIN shape = 1 .. Len(shape) /\ \A k \in 1 .. Len(shape) : shape[k] \in AnswerKinds
  OBVIOUS
<1>2. a = [k \in 1 .. Len(shape) |-> one(k)]
  BY <1>1 DEF AnthropicAnswer
<1>3. ASSUME NEW k \in 1 .. Len(shape)
      PROVE  one(k).type \in {"text", "thinking", "server_tool_use"} \/ CallsTool(one(k))
  <2>1. CASE shape[k] = "text"
    BY <2>1 DEF Text
  <2>2. CASE shape[k] = "thinking"
    BY <2>2 DEF Reasoning
  <2>3. CASE shape[k] = "call"
    <3>1. PICK j \in 1 .. Len(Tools) : called[k] = Tools[j]
      BY <1>1
    <3>2. one(k) = CallBlock(k, called[k])
      BY <2>3
    <3>3. CallsTool(CallBlock(k, Tools[j]))
      BY CallBlockCalls
    <3>4. CallsTool(one(k))
      <4> HIDE DEF one
      <4> QED BY <3>1, <3>2, <3>3, Zenon
    <3> QED BY <3>4, Zenon
  <2>4. CASE shape[k] = "server_tool_use"
    BY <2>4
  <2> QED BY <1>1, <2>1, <2>2, <2>3, <2>4 DEF AnswerKinds
<1> HIDE DEF one
<1>4. \A k \in 1 .. Len(shape) : a[k] = one(k)
  BY <1>2
<1>5. a = [k \in 1 .. Len(shape) |-> a[k]]
  BY <1>2
<1> HIDE DEF a
<1>6. IsSeq(a) /\ Len(a) = Len(shape) /\ DOMAIN a = 1 .. Len(shape)
  BY <1>1, <1>5, ListMade
<1>7. \A k \in 1 .. Len(shape) : a[k].type \in {"text", "thinking", "server_tool_use"} \/ CallsTool(a[k])
  BY <1>3, <1>4
<1> QED BY <1>6, <1>7 DEF a

LEMMA FromAnthropicCalls ==
    ASSUME NEW a, NEW m \in Nat, DOMAIN a = 1 .. m,
           \A k \in 1 .. m : a[k].type \in {"text", "thinking", "server_tool_use"} \/ CallsTool(a[k])
    PROVE  CallsTools(FromAnthropic(a))
<1> DEFINE blocks == FromAnthropic(a)
<1>1. blocks = [k \in 1 .. m |-> FromAnthropicBlock(a[k])]
  BY DEF FromAnthropic
<1>2. \A k \in 1 .. m : blocks[k] = FromAnthropicBlock(a[k])
  BY <1>1
<1>3. blocks = [k \in 1 .. m |-> blocks[k]]
  BY <1>1
<1> HIDE DEF blocks
<1>4. IsSeq(blocks) /\ Len(blocks) = m
  BY <1>3, ListMade
<1>5. ASSUME NEW k \in 1 .. m, blocks[k].type = "tool_use" PROVE CallsTool(blocks[k])
  <2> DEFINE x == a[k]
  <2>1. x.type \in {"text", "thinking", "server_tool_use"} \/ CallsTool(x)
    OBVIOUS
  <2>2. blocks[k] = FromAnthropicBlock(x)
    BY <1>2
  <2> HIDE DEF x
  <2>3. CASE CallsTool(x)
    <3>1. FromAnthropicBlock(x) = x
      BY <2>3 DEF CallsTool, FromAnthropicBlock
    <3> QED BY <2>2, <2>3, <3>1
  <2>4. CASE x.type = "text"
    <3>1. FromAnthropicBlock(x) = x
      BY <2>4 DEF FromAnthropicBlock
    <3> QED BY <1>5, <2>2, <2>4, <3>1
  <2>5. CASE x.type = "thinking"
    <3>1. FromAnthropicBlock(x) = [x EXCEPT !.type = "reasoning"]
      BY <2>5 DEF FromAnthropicBlock
    <3>2. FromAnthropicBlock(x).type # "tool_use"
      BY <2>5, <3>1
    <3> QED BY <1>5, <2>2, <3>2
  <2>6. CASE x.type = "server_tool_use"
    <3>1. FromAnthropicBlock(x) = Text(NoText)
      BY <2>6 DEF FromAnthropicBlock
    <3>2. FromAnthropicBlock(x).type = "text"
      BY <3>1 DEF Text
    <3> QED BY <1>5, <2>2, <3>2
  <2> QED BY <2>1, <2>3, <2>4, <2>5, <2>6
<1> QED BY <1>4, <1>5 DEF CallsTools, blocks

LEMMA CallsToolsTogether ==
    ASSUME NEW a, NEW b, CallsTools(a), CallsTools(b)
    PROVE  CallsTools(a \o b)
<1> DEFINE ab == a \o b
<1>1. IsSeq(ab) /\ Joined(a, b, ab)
  BY JoinedSeqs DEF CallsTools
<1> HIDE DEF ab
<1>2. ASSUME NEW k \in 1 .. Len(ab), ab[k].type = "tool_use" PROVE CallsTool(ab[k])
  <2>1. FromOne(a, b, ab, k)
    BY <1>1, ElementOfBoth
  <2> QED BY <1>2, <2>1 DEF FromOne, CallsTools
<1>3. CallsTools(ab)
  BY <1>1, <1>2 DEF CallsTools
<1> QED BY <1>3 DEF ab

LEMMA NothingCallsTools == CallsTools(<<>>)
<1>1. IsSeq(<<>>) /\ \A k \in 1 .. Len(<<>>) : FALSE
  BY EmptyIsSeq
<1> QED BY <1>1 DEF CallsTools

LEMMA OneCallsTools == ASSUME NEW x, x.type # "tool_use" PROVE CallsTools(<<x>>)
<1>1. <<x>> \in Seq({x}) /\ Len(<<x>>) = 1 /\ <<x>>[1] = x
  OBVIOUS
<1>2. \A k \in 1 .. 1 : k = 1
  OBVIOUS
<1>3. IsSeq(<<x>>)
  BY <1>1 DEF IsSeq
<1> QED BY <1>1, <1>2, <1>3 DEF CallsTools

LEMMA FromChatCalls ==
    ASSUME NEW shape \in Seq(AnswerKinds), NEW called,
           \A k \in DOMAIN shape : \E j \in 1 .. Len(Tools) : called[k] = Tools[j]
    PROVE  CallsTools(FromChat(ChatAnswer(shape, called)))
<1> DEFINE places == [k \in DOMAIN shape |-> k]
           P == {k \in DOMAIN shape : shape[k] = "call"}
           calls == Selected(places, P)
           made == [c \in DOMAIN calls |-> CallBlock(calls[c], called[calls[c]])]
           reply == ChatAnswer(shape, called)
           thoughts == IF reply.reasoning = NoText THEN <<>> ELSE <<Reasoning(reply.reasoning)>>
           texts == IF reply.text = NoText THEN <<>> ELSE <<Text(reply.text)>>
<1>1. reply.calls = made
  BY DEF ChatAnswer
<1>2. places \in Seq(DOMAIN shape) /\ Len(places) = Len(shape) /\ \A k \in 1 .. Len(shape) : places[k] = k
  OBVIOUS
<1>3. DOMAIN shape = 1 .. Len(shape)
  OBVIOUS
<1> HIDE DEF places, P
<1>4. calls \in Seq(DOMAIN shape)
  BY <1>2, SelectedPicks
<1> HIDE DEF calls
<1>5. Len(calls) \in Nat /\ DOMAIN calls = 1 .. Len(calls) /\ \A c \in 1 .. Len(calls) : calls[c] \in DOMAIN shape
  BY <1>4
<1>6. \A c \in 1 .. Len(calls) : made[c] = CallBlock(calls[c], called[calls[c]])
  BY <1>5
<1>7. made = [c \in 1 .. Len(calls) |-> made[c]]
  BY <1>5
<1> HIDE DEF made
<1>8. IsSeq(made) /\ Len(made) = Len(calls)
  BY <1>5, <1>7, ListMade
<1>9. ASSUME NEW c \in 1 .. Len(made) PROVE CallsTool(made[c])
  <2>1. PICK j \in 1 .. Len(Tools) : called[calls[c]] = Tools[j]
    BY <1>5, <1>8
  <2>2. CallsTool(CallBlock(calls[c], Tools[j]))
    BY CallBlockCalls
  <2>3. made[c] = CallBlock(calls[c], called[calls[c]])
    BY <1>6, <1>8
  <2> QED BY <2>1, <2>2, <2>3, Zenon
<1>10. CallsTools(made)
  BY <1>8, <1>9 DEF CallsTools
<1>11. CallsTools(thoughts)
  <2>1. Reasoning(reply.reasoning).type # "tool_use"
    BY DEF Reasoning
  <2> HIDE DEF reply
  <2> QED BY <2>1, OneCallsTools, NothingCallsTools
<1>12. CallsTools(texts)
  <2>1. Text(reply.text).type # "tool_use"
    BY DEF Text
  <2> HIDE DEF reply
  <2> QED BY <2>1, OneCallsTools, NothingCallsTools
<1>13. FromChat(reply) = thoughts \o texts \o made
  BY <1>1 DEF FromChat
<1> HIDE DEF thoughts, texts, reply
<1>14. CallsTools(thoughts \o texts)
  BY <1>11, <1>12, CallsToolsTogether
<1>15. CallsTools((thoughts \o texts) \o made)
  BY <1>10, <1>14, CallsToolsTogether
<1> QED BY <1>13, <1>15 DEF reply

LEMMA FromGeminiCalls ==
    ASSUME NEW parts, NEW m \in Nat, DOMAIN parts = 1 .. m,
           \A k \in 1 .. m : parts[k].type \in {"text", "thinking", "server_tool_use"} \/ CallsTool(parts[k])
    PROVE  CallsTools(FromGemini(parts))
<1> DEFINE blocks == FromGemini(parts)
<1>1. \E number : blocks = [k \in 1 .. m |->
                              IF parts[k].type = "tool_use"
                              THEN [parts[k] EXCEPT !.id = Append(parts[k].name, number[k])] ELSE parts[k]]
  <2> DEFINE number == [k \in 1 .. m |->
                          Len(SelectSeq(SubSeq(parts, 1, k),
                                        LAMBDA p : p.type = "tool_use" /\ p.name = parts[k].name))]
  <2>1. blocks = [k \in 1 .. m |->
                    IF parts[k].type = "tool_use"
                    THEN [parts[k] EXCEPT !.id = Append(parts[k].name, number[k])] ELSE parts[k]]
    BY DEF FromGemini
  <2> HIDE DEF number
  <2> QED BY <2>1
<1>2. PICK number : blocks = [k \in 1 .. m |->
                                IF parts[k].type = "tool_use"
                                THEN [parts[k] EXCEPT !.id = Append(parts[k].name, number[k])] ELSE parts[k]]
  BY <1>1
<1>3. blocks = [k \in 1 .. m |-> blocks[k]]
  BY <1>2
<1> HIDE DEF blocks
<1>4. IsSeq(blocks) /\ Len(blocks) = m
  BY <1>3, ListMade
<1>5. ASSUME NEW k \in 1 .. m, blocks[k].type = "tool_use" PROVE CallsTool(blocks[k])
  <2> DEFINE x == parts[k]
             id == Append(x.name, number[k])
  <2>1. blocks[k] = IF x.type = "tool_use" THEN [x EXCEPT !.id = id] ELSE x
    BY <1>2
  <2>2. x.type \in {"text", "thinking", "server_tool_use"} \/ CallsTool(x)
    OBVIOUS
  <2> HIDE DEF x, id
  <2>3. x.type = "tool_use"
    BY <1>5, <2>1
  <2>4. CallsTool(x)
    BY <2>2, <2>3
  <2>5. blocks[k] = [x EXCEPT !.id = id]
    BY <2>1, <2>3
  <2>6. [x EXCEPT !.id = id].name = x.name /\ [x EXCEPT !.id = id].input = x.input
    OBVIOUS
  <2> QED BY <1>5, <2>4, <2>5, <2>6 DEF CallsTool
<1> QED BY <1>4, <1>5 DEF CallsTools, blocks

LEMMA AnswerCalls ==
    ASSUME NEW shape \in Seq(AnswerKinds), NEW called,
           \A k \in DOMAIN shape : \E j \in 1 .. Len(Tools) : called[k] = Tools[j]
    PROVE  CallsTools(CoreAnswer(shape, called))
<1> DEFINE a == AnthropicAnswer(shape, called)
<1>1. /\ DOMAIN a = 1 .. Len(shape)
      /\ \A k \in 1 .. Len(shape) : a[k].type \in {"text", "thinking", "server_tool_use"} \/ CallsTool(a[k])
  BY AnthropicAnswerIs
<1>2. Len(shape) \in Nat
  OBVIOUS
<1>3. CoreAnswer(shape, called) = CASE conv.protocol = "anthropic"   -> FromAnthropic(a)
                                    [] conv.protocol = "openai-chat" -> FromChat(ChatAnswer(shape, called))
                                    [] OTHER                         -> FromGemini(a)
  BY DEF CoreAnswer
<1> HIDE DEF a
<1>4. CallsTools(FromAnthropic(a))
  BY <1>1, <1>2, FromAnthropicCalls
<1>5. CallsTools(FromChat(ChatAnswer(shape, called)))
  BY FromChatCalls
<1>6. CallsTools(FromGemini(a))
  BY <1>1, <1>2, FromGeminiCalls
<1> QED BY <1>3, <1>4, <1>5, <1>6

LEMMA ToolInTurn ==
    ASSUME NEW n \in Nat \ {0}, NEW first \in 1 .. n, NEW step \in {0, 1}, NEW k \in Nat, k >= 1
    PROVE  ((first - 1 + step * (k - 1)) % n) + 1 \in 1 .. n
<1>1. step * (k - 1) = IF step = 0 THEN 0 ELSE k - 1
  OBVIOUS
<1>2. first - 1 + step * (k - 1) \in Nat
  BY <1>1
<1> DEFINE x == first - 1 + step * (k - 1)
<1> HIDE DEF x
<1>3. x \in Nat
  BY <1>2 DEF x
<1>4. x % n \in 0 .. n - 1
  BY <1>3
<1> QED BY <1>4 DEF x

\* Whatever the provider answers, its calls are of tools that were sent.
LEMMA AnsweredWithTools ==
    ASSUME ConversationInv, NEW shape \in Shapes[conv.protocol], NEW step \in {0, 1},
           NEW first \in IF turn <= FreeTurns THEN DOMAIN Tools ELSE {1}
    PROVE  CallsTools(CoreAnswer(shape,
             [k \in DOMAIN shape |-> Tools[((first - 1 + step * (k - 1)) % Len(Tools)) + 1]]))
<1> DEFINE called == [k \in DOMAIN shape |-> Tools[((first - 1 + step * (k - 1)) % Len(Tools)) + 1]]
<1>1. shape \in Seq(AnswerKinds)
  BY ContentsAssumption DEF ConversationInv, AnswerKinds
<1>2. Len(Tools) \in Nat \ {0} /\ DOMAIN Tools = 1 .. Len(Tools)
  <2>1. PICK S : Tools \in Seq(S)
    BY ToolsFromClient DEF IsSeq
  <2> QED BY <2>1, ToolsFromClient
<1>3. first \in 1 .. Len(Tools)
  BY <1>2
<1>4. DOMAIN shape = 1 .. Len(shape) /\ Len(shape) \in Nat
  BY <1>1
<1>5. ASSUME NEW k \in DOMAIN shape PROVE \E j \in 1 .. Len(Tools) : called[k] = Tools[j]
  <2>1. k \in Nat /\ k >= 1
    BY <1>4
  <2>2. ((first - 1 + step * (k - 1)) % Len(Tools)) + 1 \in 1 .. Len(Tools)
    BY <1>2, <1>3, <2>1, ToolInTurn
  <2>3. called[k] = Tools[((first - 1 + step * (k - 1)) % Len(Tools)) + 1]
    BY <1>5
  <2> HIDE DEF called
  <2> QED BY <2>2, <2>3, Zenon
<1> HIDE DEF called
<1>6. CallsTools(CoreAnswer(shape, called))
  BY <1>1, <1>5, AnswerCalls
<1> QED BY <1>6 DEF called

\* What an answer adds: blocks that call tools, and the items that they become.
LEMMA ProviderAdds ==
    ASSUME ConversationInv, ProviderAnswers
    PROVE  \E blocks : /\ CallsTools(blocks)
                       /\ history' = history \o OutputItems(blocks, Tools)
                       /\ said' = said \o blocks
                       /\ phase' \in {"tools", "user"}
<1>1. PICK shape \in Shapes[conv.protocol], step \in {0, 1},
           first \in IF turn <= FreeTurns THEN DOMAIN Tools ELSE {1} :
        LET called == [k \in DOMAIN shape |-> Tools[((first - 1 + step * (k - 1)) % Len(Tools)) + 1]]
            blocks == CoreAnswer(shape, called)
            items == OutputItems(blocks, Tools)
        IN  /\ history' = history \o items
            /\ said' = said \o blocks
            /\ phase' = IF \E k \in DOMAIN items : items[k].type \in CallTypes THEN "tools" ELSE "user"
  BY DEF ProviderAnswers
<1> DEFINE called == [k \in DOMAIN shape |-> Tools[((first - 1 + step * (k - 1)) % Len(Tools)) + 1]]
           blocks == CoreAnswer(shape, called)
<1>2. CallsTools(blocks)
  BY AnsweredWithTools
<1>3. /\ history' = history \o OutputItems(blocks, Tools)
      /\ said' = said \o blocks
      /\ phase' = IF \E k \in DOMAIN OutputItems(blocks, Tools) : OutputItems(blocks, Tools)[k].type \in CallTypes
                  THEN "tools" ELSE "user"
  BY <1>1
<1> HIDE DEF blocks
<1>4. phase' \in {"tools", "user"}
  BY <1>3
<1> QED BY <1>2, <1>3, <1>4

LEMMA ProviderKeepsPairs == ASSUME ConversationInv, ProviderAnswers PROVE ConversationInv'
<1>1. PICK blocks : /\ CallsTools(blocks)
                    /\ history' = history \o OutputItems(blocks, Tools)
                    /\ said' = said \o blocks
  BY ProviderAdds
<1> DEFINE items == OutputItems(blocks, Tools)
<1>2. history' = history \o items /\ said' = said \o blocks
  BY <1>1
<1>3. IsSeq(items) /\ Paired(OfType(blocks, {"tool_use"}), OfType(items, CallTypes))
  BY <1>1, ItemsPaired DEF CallsTools
<1> HIDE DEF items
<1>4. IsSeq(history') /\ OfType(history', CallTypes) = OfType(history, CallTypes) \o OfType(items, CallTypes)
  BY <1>2, <1>3, TypesTogether DEF ConversationInv
<1>5. IsSeq(said') /\ OfType(said', {"tool_use"}) = OfType(said, {"tool_use"}) \o OfType(blocks, {"tool_use"})
  BY <1>1, <1>2, TypesTogether DEF ConversationInv, CallsTools
<1>6. Paired(OfType(said, {"tool_use"}) \o OfType(blocks, {"tool_use"}),
             OfType(history, CallTypes) \o OfType(items, CallTypes))
  BY <1>3, PairedTogether DEF ConversationInv
<1>7. conv' = conv
  BY DEF ProviderAnswers
<1> QED BY <1>4, <1>5, <1>6, <1>7 DEF ConversationInv

LEMMA ConversationInvInit == ConversationInit => ConversationInv
<1> SUFFICES ASSUME ConversationInit PROVE ConversationInv
  OBVIOUS
<1>1. history = <<>> /\ said = <<>> /\ conv.protocol \in Protocols
  BY DEF ConversationInit
<1>2. Paired(OfType(said, {"tool_use"}), OfType(history, CallTypes))
  BY <1>1, NothingOfType, NothingPaired
<1> QED BY <1>1, <1>2, EmptyIsSeq DEF ConversationInv

\* Every call comes back to the client as a call of a tool it declared, under its name and,
\* a custom or hosted tool in a namespace excepted, its namespace, whatever tools it declares
\* and however long the conversation is (FlattenTools, OutputItemFromBlock and RebuildGrammar
\* undo each other).
THEOREM CallsComeBackAsDeclared == ConversationSpec => []CallsAsDeclared
<1>1. ConversationInv /\ [ConversationNext]_conversationVars => ConversationInv'
  <2> SUFFICES ASSUME ConversationInv, [ConversationNext]_conversationVars PROVE ConversationInv'
    OBVIOUS
  <2>1. CASE UserSays
    BY <2>1, UserKeepsPairs
  <2>2. CASE ToolsRun
    BY <2>2, ToolsKeepPairs
  <2>3. CASE ToCoreRequest
    BY <2>3 DEF ToCoreRequest, ConversationInv
  <2>4. CASE FromCoreRequest
    BY <2>4 DEF FromCoreRequest, ConversationInv
  <2>5. CASE ProviderAnswers
    BY <2>5, ProviderKeepsPairs
  <2>6. CASE UNCHANGED conversationVars
    BY <2>6 DEF conversationVars, ConversationInv
  <2> QED BY <2>1, <2>2, <2>3, <2>4, <2>5, <2>6 DEF ConversationNext
<1> QED BY <1>1, ConversationInvInit, PairedIsDeclared, PTL DEF ConversationSpec

-----------------------------------------------------------------------------
(* The marks of the prompt cache.                                          *)

\* The last of the slots is the last position.
LEMMA LastSlot ==
    ASSUME NEW n \in Nat, NEW limit \in Nat, limit > 0
    PROVE  SpacedIndex(limit, n, limit) = n
<1> DEFINE p == limit * n
           q == (p + limit - 1) \div limit
<1>1. p \in Nat /\ p + limit - 1 \in Nat
  OBVIOUS
<1>2. q \in Int /\ limit * q <= p + limit - 1 /\ p + limit - 1 < limit * q + limit
  BY <1>1
<1>3. SpacedIndex(limit, n, limit) = q
  BY DEF SpacedIndex
<1> HIDE DEF q
<1>4. CASE q > n
  <2>1. limit * q >= limit * (n + 1)
    BY <1>2, <1>4
  <2>2. limit * (n + 1) = p + limit
    OBVIOUS
  <2> QED BY <1>1, <1>2, <2>1, <2>2
<1>5. CASE q < n
  <2>1. limit * (q + 1) <= limit * n
    BY <1>2, <1>5
  <2>2. limit * (q + 1) = limit * q + limit
    BY <1>2
  <2> QED BY <1>1, <1>2, <2>1, <2>2
<1> QED BY <1>2, <1>3, <1>4, <1>5

\* f is the function that SpacedPlaces(n, limit) chooses, or its first m values.
IsSpaced(f, m, n, limit) ==
    f = [p \in 0 .. m |->
           IF p = 0 THEN <<>>
           ELSE Take(f[p - 1], IF p <= limit THEN SpacedIndex(p, n, limit) ELSE p - limit, limit)]

LEMMA SpacedExists ==
    ASSUME NEW n, NEW limit, NEW m \in Nat
    PROVE  \E f : IsSpaced(f, m, n, limit)
<1> DEFINE Good == { k \in Nat : \E f : IsSpaced(f, k, n, limit) }
<1>1. 0 \in Good
  <2> DEFINE f == [p \in 0 .. 0 |-> <<>>]
  <2>1. f = [p \in 0 .. 0 |-> IF p = 0 THEN <<>> ELSE Take(f[p - 1], IF p <= limit THEN SpacedIndex(p, n, limit) ELSE p - limit, limit)]
    OBVIOUS
  <2> HIDE DEF f
  <2> QED BY <2>1 DEF IsSpaced
<1>2. ASSUME NEW k \in 1 .. m, k - 1 \in Good PROVE k \in Good
  <2>0. k \in Nat /\ k # 0
    BY <1>2
  <2>1. PICK f : IsSpaced(f, k - 1, n, limit)
    BY <1>2
  <2>2. PICK g : IsLonger(g, f, k, Take(f[k - 1], IF k <= limit THEN SpacedIndex(k, n, limit) ELSE k - limit, limit))
    BY <2>0, Longer, Zenon
  <2>3. \A p \in 0 .. k - 1 : f[p] = IF p = 0 THEN <<>> ELSE Take(f[p - 1], IF p <= limit THEN SpacedIndex(p, n, limit) ELSE p - limit, limit)
    BY <2>1, Zenon DEF IsSpaced
  <2>4. \A p \in 0 .. k : g[p] = IF p = 0 THEN <<>> ELSE Take(g[p - 1], IF p <= limit THEN SpacedIndex(p, n, limit) ELSE p - limit, limit)
    BY <2>2, <2>3 DEF IsLonger
  <2>5. g = [p \in 0 .. k |-> IF p = 0 THEN <<>> ELSE Take(g[p - 1], IF p <= limit THEN SpacedIndex(p, n, limit) ELSE p - limit, limit)]
    BY <2>2, <2>4 DEF IsLonger
  <2> QED BY <2>0, <2>5, Zenon DEF IsSpaced
<1>3. m \in Good
  <2> HIDE DEF Good
  <2> QED BY <1>1, <1>2, InductionUpTo
<1> QED BY <1>3

\* One more place.
LEMMA TakenIs ==
    ASSUME NEW taken, IsSeq(taken), NEW k, NEW limit \in Nat, Len(taken) <= limit
    PROVE  LET t == Take(taken, k, limit)
           IN  /\ IsSeq(t) /\ Len(t) \in Nat /\ Len(t) <= limit /\ Len(t) <= Len(taken) + 1
               /\ Len(taken) < limit => \E j \in 1 .. Len(t) : t[j] = k
               /\ \A x : (\E j \in 1 .. Len(taken) : taken[j] = x) => \E j \in 1 .. Len(t) : t[j] = x
<1>1. PICK S : taken \in Seq(S)
  BY DEF IsSeq
<1>2. Len(taken) \in Nat /\ DOMAIN taken = 1 .. Len(taken)
  BY <1>1
<1>3. CASE Len(taken) >= limit \/ Contains(taken, k)
  <2>1. Take(taken, k, limit) = taken
    BY <1>3 DEF Take
  <2>2. Contains(taken, k) => \E j \in 1 .. Len(taken) : taken[j] = k
    BY <1>2 DEF Contains
  <2> QED BY <1>2, <1>3, <2>1, <2>2
<1>4. CASE ~(Len(taken) >= limit \/ Contains(taken, k))
  <2> DEFINE t == Append(taken, k)
  <2>1. Take(taken, k, limit) = t
    BY <1>4 DEF Take
  <2>2. IsSeq(t)
    BY OneMoreIn
  <2>3. taken \in Seq(S \cup {k})
    <3>1. S \subseteq S \cup {k}
      OBVIOUS
    <3> QED BY <1>1, <3>1, SeqMonotonic
  <2>4. Len(t) = Len(taken) + 1 /\ t[Len(taken) + 1] = k /\ \A j \in 1 .. Len(taken) : t[j] = taken[j]
    BY <2>3
  <2>5. Len(t) \in Nat /\ Len(t) <= limit /\ Len(taken) + 1 \in 1 .. Len(t)
        /\ \A j \in 1 .. Len(taken) : j \in 1 .. Len(t)
    BY <1>2, <1>4, <2>4
  <2> HIDE DEF t
  <2> QED BY <2>1, <2>2, <2>4, <2>5
<1> QED BY <1>3, <1>4

\* The places of the slots are no more than there are slots, and the last is among them.
LEMMA PlacesSpaced ==
    ASSUME NEW n \in Nat, NEW limit \in Nat, limit > 0
    PROVE  LET places == SpacedPlaces(n, limit)
           IN  /\ IsSeq(places) /\ Len(places) \in Nat /\ Len(places) <= limit
               /\ \E j \in 1 .. Len(places) : places[j] = n
<1> DEFINE f == CHOOSE f : IsSpaced(f, limit + n, n, limit)
           Holds(t, x) == \E j \in 1 .. Len(t) : t[j] = x
           Fine(p) == /\ IsSeq(f[p]) /\ Len(f[p]) \in Nat /\ Len(f[p]) <= limit
                      /\ p <= limit => Len(f[p]) <= p
                      /\ p >= limit => Holds(f[p], n)
           Good == { p \in Nat : Fine(p) }
<1>1. limit + n \in Nat /\ limit \in 1 .. limit + n
  OBVIOUS
<1>2. IsSpaced(f, limit + n, n, limit)
  BY <1>1, SpacedExists
<1>3. SpacedPlaces(n, limit) = f[limit + n]
  BY Zenon DEF SpacedPlaces, IsSpaced
<1> HIDE DEF f
<1>4. ASSUME NEW p \in 0 .. limit + n
      PROVE  f[p] = IF p = 0 THEN <<>>
                    ELSE Take(f[p - 1], IF p <= limit THEN SpacedIndex(p, n, limit) ELSE p - limit, limit)
  BY <1>2, Zenon DEF IsSpaced
<1>5. 0 \in Good
  <2>1. f[0] = <<>>
    BY <1>1, <1>4
  <2> QED BY <2>1, EmptyIsSeq
<1>6. ASSUME NEW p \in 1 .. limit + n, p - 1 \in Good PROVE p \in Good
  <2>1. p \in 0 .. limit + n /\ p # 0 /\ p \in Nat /\ p - 1 \in Nat
    OBVIOUS
  <2>2. Fine(p - 1)
    BY <1>6
  <2> DEFINE k == IF p <= limit THEN SpacedIndex(p, n, limit) ELSE p - limit
             t == f[p - 1]
  <2>3. f[p] = Take(t, k, limit)
    BY <1>4, <2>1
  <2>4. p = limit => k = n
    BY LastSlot
  <2> HIDE DEF k, t
  <2>5. IsSeq(t) /\ Len(t) \in Nat /\ Len(t) <= limit
    BY <2>2 DEF t
  <2>6. p - 1 <= limit => Len(t) <= p - 1
    BY <2>2 DEF t
  <2>7. p - 1 >= limit => Holds(t, n)
    BY <2>2 DEF t
  <2> DEFINE u == Take(t, k, limit)
  <2>8. /\ IsSeq(u) /\ Len(u) \in Nat /\ Len(u) <= limit /\ Len(u) <= Len(t) + 1
        /\ Len(t) < limit => Holds(u, k)
        /\ \A x : Holds(t, x) => Holds(u, x)
    BY <2>5, TakenIs
  <2> HIDE DEF u, Holds
  <2>9. p <= limit => Len(u) <= p
    BY <2>1, <2>5, <2>6, <2>8
  <2>10. p >= limit => Holds(u, n)
    <3>1. CASE p = limit
      <4>1. Len(t) < limit
        BY <2>1, <2>5, <2>6, <3>1
      <4> QED BY <2>4, <2>8, <3>1, <4>1
    <3>2. CASE p > limit
      <4>1. Holds(t, n)
        BY <2>1, <2>7, <3>2
      <4> QED BY <2>8, <4>1
    <3> QED BY <2>1, <3>1, <3>2
  <2>11. f[p] = u
    BY <2>3 DEF u
  <2> QED BY <2>1, <2>8, <2>9, <2>10, <2>11
<1>7. limit + n \in Good
  <2> HIDE DEF Good
  <2> QED BY <1>1, <1>5, <1>6, InductionUpTo
<1>8. Fine(limit + n) /\ limit + n >= limit
  BY <1>1, <1>7
<1> QED BY <1>3, <1>8

\* Not more are chosen than there is room for, and the last of all is one of them.
LEMMA EvenlySpacedIs ==
    ASSUME NEW c, IsSeq(c), NEW limit \in Nat
    PROVE  LET e == EvenlySpaced(c, limit)
           IN  /\ IsSeq(e) /\ Len(e) \in Nat /\ Len(e) <= limit
               /\ limit > 0 /\ Len(c) > 0 => \E j \in 1 .. Len(e) : e[j] = c[Len(c)]
<1>1. Len(c) \in Nat
  BY DEF IsSeq
<1>2. CASE limit = 0 \/ Len(c) = 0
  <2>1. EvenlySpaced(c, limit) = <<>>
    BY <1>2 DEF EvenlySpaced
  <2> QED BY <1>1, <1>2, <2>1, EmptyIsSeq
<1>3. CASE limit > 0 /\ Len(c) > 0 /\ limit >= Len(c)
  <2>1. EvenlySpaced(c, limit) = c
    BY <1>1, <1>3 DEF EvenlySpaced
  <2>2. Len(c) \in 1 .. Len(c)
    BY <1>1, <1>3
  <2> QED BY <1>1, <1>3, <2>1, <2>2
<1>4. CASE limit > 0 /\ Len(c) > 0 /\ limit < Len(c)
  <2> DEFINE places == SpacedPlaces(Len(c), limit)
             e == [k \in DOMAIN places |-> c[places[k]]]
  <2>1. EvenlySpaced(c, limit) = e
    BY <1>1, <1>4 DEF EvenlySpaced
  <2>2. /\ IsSeq(places) /\ Len(places) \in Nat /\ Len(places) <= limit
        /\ \E j \in 1 .. Len(places) : places[j] = Len(c)
    BY <1>1, <1>4, PlacesSpaced
  <2> HIDE DEF places
  <2>3. DOMAIN places = 1 .. Len(places)
    BY <2>2 DEF IsSeq
  <2>4. e = [k \in 1 .. Len(places) |-> e[k]] /\ \A k \in 1 .. Len(places) : e[k] = c[places[k]]
    BY <2>3
  <2> HIDE DEF e
  <2>5. IsSeq(e) /\ Len(e) = Len(places)
    BY <2>2, <2>4, ListMade
  <2> QED BY <2>1, <2>2, <2>4, <2>5
<1> QED BY <1>1, <1>2, <1>3, <1>4

\* What is selected is a sequence; if the last place that matters is selected, the last
\* element of the selection is that of the place.
LEMMA LastSelected ==
    ASSUME NEW s, IsSeq(s), NEW places, NEW l \in 1 .. Len(s), l \in places,
           \A k \in 1 .. Len(s) : k \in places => k <= l
    PROVE  Len(Selected(s, places)) > 0 /\ Selected(s, places)[Len(Selected(s, places))] = s[l]
<1>1. PICK S : s \in Seq(S)
  BY DEF IsSeq
<1> DEFINE sel == Selected(s, places)
<1>2. sel \in Seq(S) /\ \E from : Picks(sel, s, places, from)
  BY <1>1, SelectedPicks
<1>3. PICK from : Picks(sel, s, places, from)
  BY <1>2
<1>4. Len(sel) \in Nat /\ Len(s) \in Nat
  BY <1>1, <1>2
<1> HIDE DEF sel
<1>5. PICK k \in 1 .. Len(sel) : from[k] = l
  BY <1>3 DEF Picks
<1>6. Len(sel) \in 1 .. Len(sel)
  BY <1>4, <1>5
<1>7. from[Len(sel)] \in 1 .. Len(s) /\ from[Len(sel)] \in places /\ sel[Len(sel)] = s[from[Len(sel)]]
  BY <1>3, <1>6 DEF Picks
<1>8. k = Len(sel)
  <2>1. k < Len(sel) => from[k] < from[Len(sel)]
    BY <1>3, <1>5, <1>6 DEF Picks
  <2>2. from[Len(sel)] <= l
    BY <1>7
  <2> QED BY <1>4, <1>5, <1>7, <2>1, <2>2
<1>9. Len(sel) > 0 /\ sel[Len(sel)] = s[l]
  BY <1>4, <1>5, <1>7, <1>8
<1> QED BY <1>9 DEF sel

LEMMA SelectedIsSeq ==
    ASSUME NEW s, IsSeq(s), NEW places
    PROVE  IsSeq(Selected(s, places)) /\ Len(Selected(s, places)) \in Nat
<1>1. PICK S : s \in Seq(S)
  BY DEF IsSeq
<1>2. Selected(s, places) \in Seq(S)
  BY <1>1, SelectedPicks
<1> QED BY <1>2 DEF IsSeq

\* The last message of the user is one that can be marked at its end.
UserEnds(msgs, l) ==
  /\ l \in 1 .. Len(msgs) /\ msgs[l].role = "user"
  /\ Len(msgs[l].content) \in Nat /\ Len(msgs[l].content) > 0
  /\ LastCacheable(msgs[l].content) = Len(msgs[l].content)
  /\ \A k \in 1 .. Len(msgs) : msgs[k].role = "user" => k <= l

\* The last message of the user is the last of the candidates that are the user's.
LEMMA LastOfUser ==
    ASSUME NEW msgs, IsSeq(msgs), NEW l, UserEnds(msgs, l)
    PROVE  LET found == Candidates(msgs)
               users == Selected(found, {c \in DOMAIN found : found[c].role = "user"})
           IN  /\ found # <<>> /\ Len(users) > 0
               /\ users[Len(users)].message = l
               /\ users[Len(users)].content = Len(msgs[l].content)
<1> DEFINE all == [m \in DOMAIN msgs |->
                     [message |-> m, content |-> LastCacheable(msgs[m].content), role |-> msgs[m].role]]
           P == {m \in DOMAIN all : all[m].content > 0}
           found == Candidates(msgs)
           U == {c \in DOMAIN found : found[c].role = "user"}
           users == Selected(found, U)
<1>1. Len(msgs) \in Nat /\ DOMAIN msgs = 1 .. Len(msgs)
  BY DEF IsSeq
<1>2. found = Selected(all, P)
  BY DEF Candidates
<1>3. all = [m \in 1 .. Len(msgs) |-> all[m]]
  BY <1>1
<1>4. \A m \in 1 .. Len(msgs) : /\ all[m].message = m /\ all[m].role = msgs[m].role
                                 /\ all[m].content = LastCacheable(msgs[m].content)
  BY <1>1
<1>5. l \in 1 .. Len(msgs) /\ all[l].content = Len(msgs[l].content) /\ all[l].content > 0
  BY <1>4 DEF UserEnds
<1>6. DOMAIN all = 1 .. Len(msgs)
  BY <1>1
<1> HIDE DEF all
<1>7. IsSeq(all) /\ Len(all) = Len(msgs)
  BY <1>1, <1>3, ListMade
<1>8. l \in P
  BY <1>5, <1>6
<1> HIDE DEF P
<1>9. PICK S : all \in Seq(S)
  BY <1>7 DEF IsSeq
<1>10. found \in Seq(S) /\ \E from : Picks(found, all, P, from)
  BY <1>2, <1>9, SelectedPicks
<1>11. PICK from : Picks(found, all, P, from)
  BY <1>10
<1> HIDE DEF found
<1>12. Len(found) \in Nat /\ DOMAIN found = 1 .. Len(found) /\ IsSeq(found)
  BY <1>10 DEF IsSeq
<1>13. PICK k \in 1 .. Len(found) : from[k] = l
  BY <1>5, <1>7, <1>8, <1>11 DEF Picks
<1>14. \A c \in 1 .. Len(found) : from[c] \in 1 .. Len(msgs) /\ found[c] = all[from[c]]
  BY <1>7, <1>11 DEF Picks
<1>15. found[k] = all[l] /\ found[k].role = "user"
  BY <1>4, <1>5, <1>13, <1>14 DEF UserEnds
<1>16. k \in U
  BY <1>12, <1>15
<1>17. ASSUME NEW c \in 1 .. Len(found), c \in U PROVE c <= k
  <2>1. from[c] \in 1 .. Len(msgs) /\ msgs[from[c]].role = "user"
    BY <1>4, <1>14, <1>17
  <2>2. from[c] <= l
    BY <2>1 DEF UserEnds
  <2>3. k < c => from[k] < from[c]
    BY <1>11 DEF Picks
  <2> QED BY <1>1, <1>5, <1>12, <1>13, <2>1, <2>2, <2>3
<1> HIDE DEF U
<1>18. Len(users) > 0 /\ users[Len(users)] = found[k]
  BY <1>12, <1>16, <1>17, LastSelected
<1>19. found # <<>>
  BY <1>12, <1>13
<1>20. found[k].message = l /\ found[k].content = Len(msgs[l].content)
  BY <1>4, <1>5, <1>15
<1> QED BY <1>18, <1>19, <1>20 DEF found, U

\* Not more breakpoints are selected than there is room for, and if there is room the last
\* message of the user is among them.
LEMMA BreakpointsSelected ==
    ASSUME NEW msgs, IsSeq(msgs), NEW limit \in Nat
    PROVE  LET chosen == SelectedBreakpoints(msgs, limit)
           IN  /\ IsSeq(chosen) /\ Len(chosen) \in Nat /\ Len(chosen) <= limit
               /\ \A l : UserEnds(msgs, l) /\ limit > 0 =>
                    \E j \in 1 .. Len(chosen) : /\ chosen[j].message = l
                                                /\ chosen[j].content = Len(msgs[l].content)
<1> DEFINE found == Candidates(msgs)
           candidates == IF found = <<>> /\ msgs # <<>>
                         THEN <<[message |-> Len(msgs), content |-> LastBlock, role |-> "none"]>>
                         ELSE found
           users == Selected(candidates, {c \in DOMAIN candidates : candidates[c].role = "user"})
           first == EvenlySpaced(users, limit)
           rest == Selected(candidates, {c \in DOMAIN candidates : ~Contains(first, candidates[c])})
           others == EvenlySpaced(rest, limit - Len(first))
           chosen == first \o others
<1>1. SelectedBreakpoints(msgs, limit) = chosen
  BY DEF SelectedBreakpoints
<1>2. IsSeq(found)
  <2> DEFINE all == [m \in DOMAIN msgs |->
                       [message |-> m, content |-> LastCacheable(msgs[m].content), role |-> msgs[m].role]]
  <2>1. Len(msgs) \in Nat /\ DOMAIN msgs = 1 .. Len(msgs)
    BY DEF IsSeq
  <2>2. all = [m \in 1 .. Len(msgs) |-> all[m]]
    BY <2>1
  <2>3. found = Selected(all, {m \in DOMAIN all : all[m].content > 0})
    BY DEF Candidates
  <2> HIDE DEF all
  <2>4. IsSeq(all)
    BY <2>1, <2>2, ListMade
  <2> QED BY <2>3, <2>4, SelectedIsSeq
<1>3. IsSeq(candidates)
  <2> DEFINE x == [message |-> Len(msgs), content |-> LastBlock, role |-> "none"]
  <2> HIDE DEF x
  <2>1. <<x>> \in Seq({x})
    OBVIOUS
  <2> QED BY <1>2, <2>1 DEF IsSeq, x
<1>4. ASSUME NEW l, UserEnds(msgs, l)
      PROVE  Len(users) > 0 /\ users[Len(users)].message = l /\ users[Len(users)].content = Len(msgs[l].content)
  <2>1. found # <<>>
    BY <1>4, LastOfUser
  <2>2. candidates = found
    BY <2>1
  <2> HIDE DEF candidates, found
  <2>3. users = Selected(found, {c \in DOMAIN found : found[c].role = "user"})
    BY <2>2
  <2> HIDE DEF users
  <2> QED BY <1>4, <2>3, LastOfUser DEF found
<1> HIDE DEF candidates
<1>5. IsSeq(users) /\ Len(users) \in Nat
  BY <1>3, SelectedIsSeq
<1> HIDE DEF users
<1>6. /\ IsSeq(first) /\ Len(first) \in Nat /\ Len(first) <= limit
      /\ limit > 0 /\ Len(users) > 0 => \E j \in 1 .. Len(first) : first[j] = users[Len(users)]
  BY <1>5, EvenlySpacedIs
<1> HIDE DEF first
<1>7. IsSeq(rest) /\ limit - Len(first) \in Nat
  BY <1>3, <1>6, SelectedIsSeq
<1> HIDE DEF rest
<1>8. IsSeq(others) /\ Len(others) \in Nat /\ Len(others) <= limit - Len(first)
  BY <1>7, EvenlySpacedIs
<1> HIDE DEF others
<1>9. PICK S : first \in Seq(S) /\ others \in Seq(S)
  BY <1>6, <1>8, SharedSet
<1>10. /\ chosen \in Seq(S) /\ Len(chosen) = Len(first) + Len(others)
       /\ \A j \in 1 .. Len(first) : chosen[j] = first[j]
  BY <1>9
<1> HIDE DEF chosen
<1>11. IsSeq(chosen) /\ Len(chosen) \in Nat /\ Len(chosen) <= limit
  BY <1>6, <1>8, <1>10 DEF IsSeq
<1>12. ASSUME NEW l, UserEnds(msgs, l), limit > 0
       PROVE  \E j \in 1 .. Len(chosen) : chosen[j].message = l /\ chosen[j].content = Len(msgs[l].content)
  <2>1. PICK j \in 1 .. Len(first) : first[j] = users[Len(users)]
    BY <1>4, <1>6, <1>12
  <2>2. j \in 1 .. Len(chosen) /\ chosen[j] = users[Len(users)]
    BY <1>6, <1>8, <1>10, <2>1
  <2> QED BY <1>4, <1>12, <2>2
<1> QED BY <1>1, <1>11, <1>12

Point(scope, index, content) == [scope |-> scope, index |-> index, content |-> content]

LEMMA PointIs ==
    ASSUME NEW s, NEW i, NEW c
    PROVE  Point(s, i, c).scope = s /\ Point(s, i, c).index = i /\ Point(s, i, c).content = c
BY DEF Point

\* A point that is there or not.
LEMMA AtMostOne ==
    ASSUME NEW o, NEW p, o = <<>> \/ o = <<p>>
    PROVE  IsSeq(o) /\ Len(o) \in {0, 1} /\ \A k \in 1 .. Len(o) : o[k] = p
<1>1. CASE o = <<>>
  <2>1. IsSeq(o) /\ Len(o) = 0
    BY <1>1, EmptyIsSeq
  <2> QED BY <2>1
<1>2. CASE o = <<p>>
  <2>1. <<p>> \in Seq({p}) /\ Len(<<p>>) = 1 /\ <<p>>[1] = p
    OBVIOUS
  <2>2. o \in Seq({p}) /\ Len(o) = 1 /\ o[1] = p
    BY <1>2, <2>1
  <2>3. IsSeq(o)
    BY <2>2 DEF IsSeq
  <2>4. \A k \in 1 .. Len(o) : k = 1
    BY <2>2
  <2> QED BY <2>2, <2>3, <2>4
<1> QED BY <1>1, <1>2

\* The breakpoints: one for the tools or none, one for the system or none, and messages.
PointsFit(points, t, y, req, cfg) ==
  /\ IsSeq(points) /\ t \in {0, 1} /\ y \in {0, 1} /\ Len(points) \in Nat
  /\ t + y <= Len(points) /\ Len(points) <= MaxBreakpoints(cfg)
  /\ \A k \in 1 .. Len(points) :
       points[k].scope = IF k <= t THEN "tools" ELSE IF k <= t + y THEN "system" ELSE "messages"
  /\ \A l : UserEnds(req.messages, l) /\ t + y < MaxBreakpoints(cfg) =>
       \E k \in t + y + 1 .. Len(points) : /\ points[k].index = l
                                           /\ points[k].content = Len(req.messages[l].content)

LEMMA BreakpointsFit ==
    ASSUME NEW req, NEW cfg, IsSeq(req.messages), cfg.maxBreakpoints \in Int
    PROVE  \E t, y : PointsFit(Breakpoints(req, cfg), t, y, req, cfg)
<1> DEFINE limit == MaxBreakpoints(cfg)
           tp == Point("tools", req.tools, LastBlock)
           sp == Point("system", req.system, LastBlock)
           tools == IF req.tools > 0 /\ ~TooShort(req.toolTokens, cfg) THEN <<tp>> ELSE <<>>
           system == IF /\ req.system > 0 /\ ~TooShort(req.toolTokens + req.systemTokens, cfg)
                        /\ Len(tools) < limit
                     THEN <<sp>> ELSE <<>>
           chosen == SelectedBreakpoints(req.messages, limit - Len(tools \o system))
           marked == [k \in DOMAIN chosen |-> Point("messages", chosen[k].message, chosen[k].content)]
           points == tools \o system \o marked
<1>1. Breakpoints(req, cfg) = points
  BY DEF Breakpoints, Point
<1>2. limit \in Nat /\ limit > 0
  BY DEF MaxBreakpoints
<1>3. tp.scope = "tools" /\ sp.scope = "system"
  BY PointIs
<1> HIDE DEF limit, tp, sp
<1>4. IsSeq(tools) /\ Len(tools) \in {0, 1} /\ \A k \in 1 .. Len(tools) : tools[k] = tp
  <2>1. tools = <<>> \/ tools = <<tp>>
    OBVIOUS
  <2> HIDE DEF tools
  <2> QED BY <2>1, AtMostOne
<1>5. Len(tools) <= limit
  BY <1>2, <1>4
<1> HIDE DEF tools
<1>6. IsSeq(system) /\ Len(system) \in {0, 1} /\ \A k \in 1 .. Len(system) : system[k] = sp
  <2>1. system = <<>> \/ system = <<sp>>
    OBVIOUS
  <2> HIDE DEF system
  <2> QED BY <2>1, AtMostOne
<1>7. Len(tools) + Len(system) <= limit
  <2>1. CASE Len(tools) < limit
    BY <1>2, <1>4, <1>6, <2>1
  <2>2. CASE ~(Len(tools) < limit)
    <3>1. system = <<>>
      BY <2>2
    <3>2. Len(system) = 0
      BY <3>1, EmptyIsSeq
    <3> QED BY <1>2, <1>4, <1>5, <3>2
  <2> QED BY <2>1, <2>2
<1> HIDE DEF system
<1>8. PICK S : tools \in Seq(S) /\ system \in Seq(S)
  BY <1>4, <1>6, SharedSet
<1>9. Len(tools \o system) = Len(tools) + Len(system)
  BY <1>8
<1> DEFINE room == limit - Len(tools \o system)
<1>10. room \in Nat /\ room = limit - Len(tools) - Len(system)
  BY <1>2, <1>4, <1>6, <1>7, <1>9
<1> HIDE DEF room
<1>11. /\ IsSeq(chosen) /\ Len(chosen) \in Nat /\ Len(chosen) <= room
       /\ \A l : UserEnds(req.messages, l) /\ room > 0 =>
            \E j \in 1 .. Len(chosen) : /\ chosen[j].message = l
                                        /\ chosen[j].content = Len(req.messages[l].content)
  <2>1. chosen = SelectedBreakpoints(req.messages, room)
    BY DEF room
  <2> HIDE DEF chosen
  <2> QED BY <1>10, <2>1, BreakpointsSelected
<1> HIDE DEF chosen
<1>12. DOMAIN chosen = 1 .. Len(chosen)
  BY <1>11 DEF IsSeq
<1>13. marked = [k \in 1 .. Len(chosen) |-> marked[k]]
  BY <1>12
<1>14. \A k \in 1 .. Len(chosen) : /\ marked[k].scope = "messages" /\ marked[k].index = chosen[k].message
                                    /\ marked[k].content = chosen[k].content
  BY <1>12, PointIs
<1> HIDE DEF marked
<1>15. IsSeq(marked) /\ Len(marked) = Len(chosen)
  BY <1>11, <1>13, ListMade
<1>16. PICK R : tools \o system \in Seq(R) /\ marked \in Seq(R)
  <2>1. IsSeq(tools \o system)
    BY <1>8 DEF IsSeq
  <2> QED BY <1>15, <2>1, SharedSet
<1> DEFINE t == Len(tools)
           y == Len(system)
<1>17. /\ points \in Seq(R) /\ Len(points) = t + y + Len(chosen)
       /\ \A k \in 1 .. t : points[k] = tools[k]
       /\ \A k \in 1 .. y : points[t + k] = system[k]
       /\ \A k \in 1 .. Len(chosen) : points[t + y + k] = marked[k]
  <2>1. /\ \A k \in 1 .. t : (tools \o system)[k] = tools[k]
        /\ \A k \in 1 .. y : (tools \o system)[t + k] = system[k]
    BY <1>8
  <2> DEFINE both == tools \o system
  <2>2. both \in Seq(R) /\ Len(both) = t + y
    BY <1>9, <1>16
  <2>3. t \in Nat /\ y \in Nat
    BY <1>4, <1>6
  <2> HIDE DEF both, t, y
  <2> DEFINE n == t + y
  <2>30. n \in Nat /\ Len(both) = n /\ Len(marked) = Len(chosen) /\ both \in Seq(R) /\ marked \in Seq(R)
    BY <1>15, <1>16, <2>2, <2>3 DEF both
  <2> HIDE DEF n
  <2>31. /\ both \o marked \in Seq(R) /\ Len(both \o marked) = n + Len(chosen)
         /\ \A k \in 1 .. n : (both \o marked)[k] = both[k]
         /\ \A k \in 1 .. Len(chosen) : (both \o marked)[n + k] = marked[k]
    BY <2>30
  <2>4. /\ both \o marked \in Seq(R) /\ Len(both \o marked) = t + y + Len(chosen)
        /\ \A k \in 1 .. t + y : (both \o marked)[k] = both[k]
        /\ \A k \in 1 .. Len(chosen) : (both \o marked)[t + y + k] = marked[k]
    BY <2>31 DEF n
  <2>5. \A k \in 1 .. t : k \in 1 .. t + y
    BY <2>3
  <2>6. \A k \in 1 .. y : t + k \in 1 .. t + y
    BY <2>3
  <2> QED BY <2>1, <2>4, <2>5, <2>6 DEF both
<1> HIDE DEF points
<1>18. t \in {0, 1} /\ y \in {0, 1}
  BY <1>4, <1>6
<1>19. \A k \in 1 .. t : points[k].scope = "tools"
  BY <1>3, <1>4, <1>17
<1>20. \A k \in 1 .. y : points[t + k].scope = "system"
  BY <1>3, <1>6, <1>17
<1>21. \A k \in 1 .. Len(chosen) : /\ points[t + y + k].scope = "messages"
                                    /\ points[t + y + k].index = chosen[k].message
                                    /\ points[t + y + k].content = chosen[k].content
  BY <1>14, <1>17
<1> HIDE DEF t, y
<1>22. \A k \in 1 .. Len(points) :
         points[k].scope = IF k <= t THEN "tools" ELSE IF k <= t + y THEN "system" ELSE "messages"
  <2> SUFFICES ASSUME NEW k \in 1 .. Len(points)
               PROVE  points[k].scope = IF k <= t THEN "tools" ELSE IF k <= t + y THEN "system" ELSE "messages"
    OBVIOUS
  <2>1. CASE k <= t
    BY <1>19, <2>1
  <2>2. CASE k > t /\ k <= t + y
    <3>1. k - t \in 1 .. y /\ t + (k - t) = k
      BY <1>18, <2>2
    <3> QED BY <1>18, <1>20, <2>2, <3>1
  <2>3. CASE k > t + y
    <3>1. k - t - y \in 1 .. Len(chosen) /\ t + y + (k - t - y) = k
      BY <1>11, <1>17, <1>18, <2>3
    <3>2. PICK j \in 1 .. Len(chosen) : t + y + j = k
      BY <3>1
    <3>3. points[t + y + j].scope = "messages"
      BY <1>21
    <3>4. ~(k <= t) /\ ~(k <= t + y)
      BY <1>18, <2>3
    <3> QED BY <3>2, <3>3, <3>4
  <2> QED BY <1>18, <2>1, <2>2, <2>3
<1>23. ASSUME NEW l, UserEnds(req.messages, l), t + y < limit
       PROVE  \E k \in t + y + 1 .. Len(points) : /\ points[k].index = l
                                                  /\ points[k].content = Len(req.messages[l].content)
  <2>1. room > 0
    BY <1>2, <1>10, <1>18, <1>23 DEF t, y
  <2>2. PICK j \in 1 .. Len(chosen) : /\ chosen[j].message = l
                                      /\ chosen[j].content = Len(req.messages[l].content)
    BY <1>11, <1>23, <2>1
  <2>3. t + y + j \in t + y + 1 .. Len(points)
    BY <1>11, <1>17, <1>18
  <2> QED BY <1>21, <2>2, <2>3
<1>24. Len(points) \in Nat /\ t + y <= Len(points) /\ Len(points) <= limit
  BY <1>2, <1>10, <1>11, <1>17, <1>18 DEF t, y
<1>25. IsSeq(points)
  BY <1>17 DEF IsSeq
<1>26. PointsFit(points, t, y, req, cfg)
  BY <1>18, <1>22, <1>23, <1>24, <1>25 DEF PointsFit, limit
<1> QED BY <1>1, <1>26

\* The block that a breakpoint of messages marks.
MarkedBlock(req, point) == LET n == Len(req.messages[point.index].content)
                            IN  IF point.content \in 1 .. n THEN point.content ELSE n

\* A set with as many names for its elements as it may have elements.
LEMMA ManyAtMost ==
    ASSUME NEW n \in Nat, NEW f, NEW T, T \subseteq {f[k] : k \in 1 .. n}
    PROVE  Cardinality(T) \in Nat /\ Cardinality(T) <= n
<1> DEFINE U == {f[k] : k \in 1 .. n}
           g == [k \in 1 .. n |-> f[k]]
<1>1. g \in Surjection(1 .. n, U)
  BY DEF Surjection
<1>2. IsFiniteSet(1 .. n) /\ Cardinality(1 .. n) = n
  BY FS_Interval
<1>3. T \in SUBSET U
  OBVIOUS
<1> HIDE DEF U, g
<1>4. IsFiniteSet(U) /\ Cardinality(U) <= n
  BY <1>1, <1>2, FS_Surjection
<1>5. Cardinality(U) \in Nat
  BY <1>4, FS_CardinalityType
<1>6. IsFiniteSet(T) /\ Cardinality(T) <= Cardinality(U)
  BY <1>3, <1>4, FS_Subset
<1>7. Cardinality(T) \in Nat
  BY <1>6, FS_CardinalityType
<1> QED BY <1>4, <1>5, <1>6, <1>7

\* The marks are as many as the breakpoints at most, those of the tools and of the system
\* exactly, and the last message of the user is marked if there is room.
LEMMA MarksOfPoints ==
    ASSUME NEW req, NEW cfg, NEW plan, NEW t, NEW y, PointsFit(plan.breakpoints, t, y, req, cfg), IsSeq(req.messages)
    PROVE  /\ Cardinality(Marks(req, plan).tools) = t
           /\ Cardinality(Marks(req, plan).system) = y
           /\ Cardinality(Marks(req, plan).messages) \in Nat
           /\ Cardinality(Marks(req, plan).messages) <= Len(plan.breakpoints) - t - y
           /\ \A l : UserEnds(req.messages, l) /\ t + y < MaxBreakpoints(cfg) =>
                <<l, Len(req.messages[l].content)>> \in Marks(req, plan).messages
<1> DEFINE points == plan.breakpoints
           places(scope) == {k \in DOMAIN points : points[k].scope = scope}
           pair(k) == <<points[k].index, MarkedBlock(req, points[k])>>
           none == {<<m, 0>> : m \in DOMAIN req.messages}
<1>1. /\ Marks(req, plan).tools = {points[k].index : k \in places("tools")}
      /\ Marks(req, plan).system = {points[k].index : k \in places("system")}
      /\ Marks(req, plan).messages = {pair(k) : k \in places("messages")} \ none
  BY DEF Marks, MarkedBlock
<1> HIDE DEF points
<1>2. /\ IsSeq(points) /\ Len(points) \in Nat /\ t \in {0, 1} /\ y \in {0, 1} /\ t + y <= Len(points)
      /\ \A k \in 1 .. Len(points) :
           points[k].scope = IF k <= t THEN "tools" ELSE IF k <= t + y THEN "system" ELSE "messages"
  BY DEF PointsFit, points
<1>3. DOMAIN points = 1 .. Len(points)
  BY <1>2 DEF IsSeq
<1>4. places("tools") = 1 .. t /\ places("system") = t + 1 .. t + y /\ places("messages") = t + y + 1 .. Len(points)
  <2>1. ASSUME NEW k \in 1 .. Len(points)
        PROVE  /\ points[k].scope = "tools" <=> k \in 1 .. t
               /\ points[k].scope = "system" <=> k \in t + 1 .. t + y
               /\ points[k].scope = "messages" <=> k \in t + y + 1 .. Len(points)
    BY <1>2
  <2>2. 1 .. t \subseteq 1 .. Len(points) /\ t + 1 .. t + y \subseteq 1 .. Len(points)
        /\ t + y + 1 .. Len(points) \subseteq 1 .. Len(points)
    BY <1>2
  <2> QED BY <1>3, <2>1, <2>2
<1>5. Cardinality({points[k].index : k \in places("tools")}) = t
  <2>1. CASE t = 0
    <3>1. 1 .. t = {}
      BY <2>1
    <3>2. {points[k].index : k \in places("tools")} = {}
      BY <1>4, <3>1
    <3> QED BY <2>1, <3>2, FS_EmptySet
  <2>2. CASE t = 1
    <3>1. 1 .. t = {1}
      BY <2>2
    <3>2. {points[k].index : k \in places("tools")} = {points[1].index}
      BY <1>4, <3>1
    <3> QED BY <2>2, <3>2, FS_Singleton
  <2> QED BY <1>2, <2>1, <2>2
<1>6. Cardinality({points[k].index : k \in places("system")}) = y
  <2>1. CASE y = 0
    <3>1. t + 1 .. t + y = {}
      BY <1>2, <2>1
    <3>2. {points[k].index : k \in places("system")} = {}
      BY <1>4, <3>1
    <3> QED BY <2>1, <3>2, FS_EmptySet
  <2>2. CASE y = 1
    <3>1. t + 1 .. t + y = {t + 1}
      BY <1>2, <2>2
    <3>2. {points[k].index : k \in places("system")} = {points[t + 1].index}
      BY <1>4, <3>1
    <3> QED BY <2>2, <3>2, FS_Singleton
  <2> QED BY <1>2, <2>1, <2>2
<1> DEFINE T == {pair(k) : k \in places("messages")} \ none
           n == Len(points) - t - y
           f == [k \in 1 .. n |-> pair(t + y + k)]
<1>7. n \in Nat /\ \A k \in t + y + 1 .. Len(points) : k - t - y \in 1 .. n /\ t + y + (k - t - y) = k
  BY <1>2
<1>8. T \subseteq {f[k] : k \in 1 .. n}
  <2>1. ASSUME NEW x \in T PROVE x \in {f[k] : k \in 1 .. n}
    <3>1. PICK k \in t + y + 1 .. Len(points) : x = pair(k)
      BY <1>4
    <3>2. PICK j \in 1 .. n : t + y + j = k
      BY <1>7
    <3> HIDE DEF n, pair
    <3>3. f[j] = pair(k)
      BY <3>2
    <3> QED BY <3>1, <3>3
  <2> QED BY <2>1
<1> HIDE DEF n, f, T
<1>9. Cardinality(T) \in Nat /\ Cardinality(T) <= n
  BY <1>7, <1>8, ManyAtMost
<1>10. ASSUME NEW l, UserEnds(req.messages, l), t + y < MaxBreakpoints(cfg)
       PROVE  <<l, Len(req.messages[l].content)>> \in T
  <2>1. PICK k \in t + y + 1 .. Len(points) : /\ points[k].index = l
                                              /\ points[k].content = Len(req.messages[l].content)
    BY <1>10 DEF PointsFit, points
  <2>2. MarkedBlock(req, points[k]) = Len(req.messages[l].content)
    BY <2>1 DEF MarkedBlock
  <2>3. <<l, Len(req.messages[l].content)>> = pair(k)
    BY <2>1, <2>2
  <2>4. <<l, Len(req.messages[l].content)>> \notin none
    BY <1>10 DEF UserEnds
  <2> HIDE DEF pair, none
  <2> QED BY <1>4, <2>3, <2>4 DEF T
<1> QED BY <1>1, <1>5, <1>6, <1>9, <1>10 DEF T, n, points

\* What ends in something that is not blank, of a type that every provider is sent as it is.
EndsWell(c) ==
  /\ IsSeq(c) /\ Len(c) > 0
  /\ c[Len(c)].type \in {"text", "image", "tool_result"}
  /\ c[Len(c)].type = "text" => c[Len(c)].text # Blank

\* What is last in such a content can be marked.
LEMMA EndIsCacheable ==
    ASSUME NEW c, EndsWell(c)
    PROVE  Len(c) \in Nat /\ LastCacheable(c) = Len(c)
<1> DEFINE P == {k \in DOMAIN c : c[k].type # "text" \/ c[k].text # Blank}
<1>1. Len(c) \in Nat /\ DOMAIN c = 1 .. Len(c)
  BY DEF EndsWell, IsSeq
<1>2. P \subseteq 1 .. Len(c) /\ Len(c) \in P
  BY <1>1 DEF EndsWell
<1>3. LastCacheable(c) = LastPlace(P)
  BY DEF LastCacheable
<1> HIDE DEF P
<1>4. LastPlace(P) \in 0 .. Len(c) /\ Len(c) <= LastPlace(P)
  BY <1>1, <1>2, LastPlaceIs
<1> QED BY <1>1, <1>3, <1>4

\* The parts of a message of the user.
UserParts(parts) == IsSeq(parts) /\ \A k \in 1 .. Len(parts) : parts[k].type \in {"text", "image"}

LEMMA PartsEndWell ==
    ASSUME NEW parts, UserParts(parts), ContentBlocks(parts) # <<>>
    PROVE  EndsWell(ContentBlocks(parts))
<1> DEFINE P == {k \in DOMAIN parts : parts[k].text # NoText}
           c == ContentBlocks(parts)
<1>1. c = Selected(parts, P)
  BY DEF ContentBlocks
<1>2. DOMAIN parts = 1 .. Len(parts)
  BY DEF UserParts, IsSeq
<1>3. \A k \in P : parts[k].text # Blank
  BY DEF NoText, Blank
<1> HIDE DEF P
<1>4. PICK S : parts \in Seq(S)
  BY DEF UserParts, IsSeq
<1>5. c \in Seq(S) /\ \E from : Picks(c, parts, P, from)
  BY <1>1, <1>4, SelectedPicks
<1>6. PICK from : Picks(c, parts, P, from)
  BY <1>5
<1>7. c # <<>>
  OBVIOUS
<1> HIDE DEF c
<1>8. Len(c) \in Nat /\ Len(c) > 0 /\ Len(c) \in 1 .. Len(c)
  BY <1>5, <1>7
<1> DEFINE n == from[Len(c)]
<1>9. n \in 1 .. Len(parts) /\ n \in P /\ c[Len(c)] = parts[n]
  BY <1>6, <1>8 DEF Picks
<1> HIDE DEF n
<1>10. c[Len(c)].type \in {"text", "image"} /\ c[Len(c)].text # Blank
  BY <1>3, <1>9 DEF UserParts
<1>11. IsSeq(c)
  BY <1>5 DEF IsSeq
<1>12. EndsWell(c)
  BY <1>8, <1>10, <1>11 DEF EndsWell
<1> QED BY <1>12 DEF c

LEMMA ResultEndsWell == ASSUME NEW x, x.type = "tool_result" PROVE EndsWell(<<x>>)
<1>1. <<x>> \in Seq({x}) /\ Len(<<x>>) = 1 /\ <<x>>[1] = x
  OBVIOUS
<1>2. IsSeq(<<x>>)
  BY <1>1 DEF IsSeq
<1>3. <<x>>[Len(<<x>>)] = x /\ Len(<<x>>) > 0
  BY <1>1
<1> QED BY <1>2, <1>3 DEF EndsWell

\* The content of a message and what is put behind it.
LEMMA TogetherEndWell ==
    ASSUME NEW a, IsSeq(a), NEW c, EndsWell(c)
    PROVE  EndsWell(a \o c)
<1>1. PICK S : a \in Seq(S) /\ c \in Seq(S)
  BY SharedSet DEF EndsWell
<1>2. Len(a) \in Nat /\ Len(c) \in Nat /\ Len(c) > 0
  BY <1>1 DEF EndsWell
<1> DEFINE b == a \o c
<1>3. b \in Seq(S) /\ Len(b) = Len(a) + Len(c) /\ b[Len(a) + Len(c)] = c[Len(c)]
  BY <1>1, <1>2
<1> HIDE DEF b
<1>4. IsSeq(b) /\ Len(b) > 0 /\ b[Len(b)] = c[Len(c)]
  BY <1>2, <1>3 DEF IsSeq
<1>5. EndsWell(b)
  BY <1>4 DEF EndsWell
<1> QED BY <1>5 DEF b

-----------------------------------------------------------------------------
(* The messages of the Core request.                                       *)

\* What the client says ends well and is in an array of its own.
MessageFits(m) ==
  /\ {"role", "content", "shared"} \subseteq DOMAIN m
  /\ m.role \in {"user", "tool"} => ~m.shared /\ EndsWell(m.content)

MessagesFit(ms) == IsSeq(ms) /\ \A k \in 1 .. Len(ms) : MessageFits(ms[k])

LEMMA NoMessagesFit == MessagesFit(<<>>)
<1>1. IsSeq(<<>>) /\ \A k \in 1 .. Len(<<>>) : FALSE
  BY EmptyIsSeq
<1> QED BY <1>1 DEF MessagesFit

LEMMA OneMessageMore ==
    ASSUME NEW ms, MessagesFit(ms), NEW x, MessageFits(x)
    PROVE  MessagesFit(Append(ms, x))
<1>1. PICK S : ms \in Seq(S)
  BY DEF MessagesFit, IsSeq
<1>2. S \subseteq S \cup {x}
  OBVIOUS
<1>3. ms \in Seq(S \cup {x}) /\ x \in S \cup {x}
  BY <1>1, <1>2, SeqMonotonic
<1> DEFINE t == Append(ms, x)
<1>4. Len(ms) \in Nat /\ Len(t) = Len(ms) + 1 /\ t[Len(ms) + 1] = x /\ \A k \in 1 .. Len(ms) : t[k] = ms[k]
  BY <1>3
<1>5. IsSeq(t)
  BY OneMoreIn DEF MessagesFit
<1> HIDE DEF t
<1>6. \A k \in 1 .. Len(t) : MessageFits(t[k])
  <2> SUFFICES ASSUME NEW k \in 1 .. Len(t) PROVE MessageFits(t[k])
    OBVIOUS
  <2>1. k \in 1 .. Len(ms) \/ k = Len(ms) + 1
    BY <1>4
  <2> QED BY <1>4, <2>1 DEF MessagesFit
<1>7. MessagesFit(t)
  BY <1>5, <1>6 DEF MessagesFit
<1> QED BY <1>7 DEF t

\* A list of messages of which each one fits.
LEMMA MessagesMapped ==
    ASSUME NEW ms, MessagesFit(ms), NEW f, f = [k \in DOMAIN ms |-> f[k]], \A k \in 1 .. Len(ms) : MessageFits(f[k])
    PROVE  MessagesFit(f)
<1>1. DOMAIN ms = 1 .. Len(ms) /\ Len(ms) \in Nat
  BY DEF MessagesFit, IsSeq
<1>2. IsSeq(f) /\ Len(f) = Len(ms)
  <2>1. f = [k \in 1 .. Len(ms) |-> f[k]]
    BY <1>1
  <2> QED BY <1>1, <2>1, ListMade
<1> QED BY <1>2 DEF MessagesFit

\* Writing to the array that reasoning is collected in changes no message of the client.
LEMMA OverwrittenFit ==
    ASSUME NEW ms, MessagesFit(ms), NEW n, NEW blocks
    PROVE  MessagesFit(Overwritten(ms, n, blocks))
<1> DEFINE written(c) == [k \in DOMAIN c |-> IF k \in n + 1 .. n + Len(blocks) THEN blocks[k - n] ELSE c[k]]
           f == [m \in DOMAIN ms |-> IF ms[m].shared THEN [ms[m] EXCEPT !.content = written(@)] ELSE ms[m]]
<1>1. Overwritten(ms, n, blocks) = f
  BY DEF Overwritten
<1>2. DOMAIN ms = 1 .. Len(ms)
  BY DEF MessagesFit, IsSeq
<1>3. ASSUME NEW m \in 1 .. Len(ms) PROVE MessageFits(f[m])
  <2> DEFINE x == ms[m]
  <2>1. f[m] = IF x.shared THEN [x EXCEPT !.content = written(@)] ELSE x
    BY <1>2
  <2>2. MessageFits(x)
    BY DEF MessagesFit
  <2> HIDE DEF x, f, written
  <2>3. CASE x.shared
    <3> DEFINE y == [x EXCEPT !.content = written(@)]
    <3>1. DOMAIN y = DOMAIN x /\ y.role = x.role
      BY <2>2 DEF MessageFits
    <3>2. f[m] = y
      BY <2>1, <2>3
    <3>3. x.role \notin {"user", "tool"} /\ {"role", "content", "shared"} \subseteq DOMAIN x
      BY <2>2, <2>3 DEF MessageFits
    <3> HIDE DEF y
    <3> QED BY <3>1, <3>2, <3>3 DEF MessageFits
  <2>4. CASE ~x.shared
    BY <2>1, <2>2, <2>4
  <2> QED BY <2>3, <2>4
<1>4. f = [m \in DOMAIN ms |-> f[m]]
  OBVIOUS
<1> HIDE DEF f
<1> QED BY <1>1, <1>3, <1>4, MessagesMapped

LEMMA DetachedFit ==
    ASSUME NEW ms, MessagesFit(ms)
    PROVE  MessagesFit(Detached(ms))
<1> DEFINE f == [m \in DOMAIN ms |-> [ms[m] EXCEPT !.shared = FALSE]]
<1>1. Detached(ms) = f
  BY DEF Detached
<1>2. DOMAIN ms = 1 .. Len(ms)
  BY DEF MessagesFit, IsSeq
<1>3. ASSUME NEW m \in 1 .. Len(ms) PROVE MessageFits(f[m])
  <2> DEFINE x == ms[m]
  <2>1. f[m] = [x EXCEPT !.shared = FALSE]
    BY <1>2
  <2>2. MessageFits(x)
    BY DEF MessagesFit
  <2> HIDE DEF x, f
  <2> DEFINE y == [x EXCEPT !.shared = FALSE]
  <2>3. DOMAIN y = DOMAIN x /\ y.role = x.role /\ y.content = x.content /\ y.shared = FALSE
    BY <2>2 DEF MessageFits
  <2> HIDE DEF y
  <2>4. MessageFits(y)
    BY <2>2, <2>3 DEF MessageFits
  <2> QED BY <2>1, <2>4 DEF y
<1>4. f = [m \in DOMAIN ms |-> f[m]]
  OBVIOUS
<1> HIDE DEF f
<1> QED BY <1>1, <1>3, <1>4, MessagesMapped

\* What convertInput keeps between two items.
StateFits(st) == "messages" \in DOMAIN st /\ MessagesFit(st.messages)

\* The state has these messages.
StateIs(st, ms) == "messages" \in DOMAIN st /\ st.messages = ms

LEMMA FieldsSet ==
    ASSUME NEW st, "messages" \in DOMAIN st, NEW v
    PROVE  /\ StateIs([st EXCEPT !.calls = v], st.messages)
           /\ StateIs([st EXCEPT !.reasoning = v], st.messages)
           /\ StateIs([st EXCEPT !.system = v], st.messages)
           /\ StateIs([st EXCEPT !.cap = v], st.messages)
           /\ StateIs([st EXCEPT !.messages = v], v)
BY DEF StateIs

LEMMA MessageIs ==
    ASSUME NEW role, NEW content
    PROVE  LET m == Message(role, content)
           IN  /\ DOMAIN m = {"role", "content", "shared"}
               /\ m.role = role /\ m.content = content /\ ~m.shared
BY DEF Message

LEMMA AssistantFits == ASSUME NEW content PROVE MessageFits(Message("assistant", content))
<1> DEFINE m == Message("assistant", content)
<1>1. DOMAIN m = {"role", "content", "shared"} /\ m.role = "assistant"
  BY MessageIs
<1> HIDE DEF m
<1>2. MessageFits(m)
  BY <1>1 DEF MessageFits
<1> QED BY <1>2 DEF m

LEMMA ClientFits == ASSUME NEW role, NEW content, EndsWell(content) PROVE MessageFits(Message(role, content))
<1> DEFINE m == Message(role, content)
<1>1. DOMAIN m = {"role", "content", "shared"} /\ m.content = content /\ ~m.shared
  BY MessageIs
<1> HIDE DEF m
<1>2. MessageFits(m)
  BY <1>1 DEF MessageFits
<1> QED BY <1>2 DEF m

LEMMA CallsFlushed == ASSUME NEW st, StateFits(st) PROVE StateFits(FlushCalls(st))
<1>1. CASE st.calls = <<>>
  BY <1>1 DEF FlushCalls
<1>2. CASE st.calls # <<>>
  <2> DEFINE ms == Append(st.messages, Message("assistant", st.calls))
             new == FlushCalls(st)
  <2>1. StateIs(new, ms)
    BY <1>2 DEF FlushCalls, StateIs, StateFits
  <2>2. MessagesFit(ms)
    BY AssistantFits, OneMessageMore DEF StateFits
  <2> HIDE DEF ms, new
  <2>3. StateFits(new)
    BY <2>1, <2>2 DEF StateFits, StateIs
  <2> QED BY <2>3 DEF new
<1> QED BY <1>1, <1>2

LEMMA ReasoningFlushed == ASSUME NEW st, StateFits(st) PROVE StateFits(FlushReasoning(st))
<1>1. CASE st.reasoning = <<>>
  BY <1>1 DEF FlushReasoning
<1>2. CASE st.reasoning # <<>>
  <2> DEFINE ms == Append(st.messages, Message("assistant", st.reasoning))
             new == FlushReasoning(st)
  <2>1. StateIs(new, ms)
    BY <1>2 DEF FlushReasoning, StateIs, StateFits
  <2>2. MessagesFit(ms)
    BY AssistantFits, OneMessageMore DEF StateFits
  <2> HIDE DEF ms, new
  <2>3. StateFits(new)
    BY <2>1, <2>2 DEF StateFits, StateIs
  <2> QED BY <2>3 DEF new
<1> QED BY <1>1, <1>2

LEMMA ReasoningPut == ASSUME NEW st, StateFits(st), NEW blocks PROVE StateFits(PutReasoning(st, blocks))
<1> DEFINE n == Len(st.reasoning)
           ms == IF n + Len(blocks) <= st.cap THEN Overwritten(st.messages, n, blocks) ELSE Detached(st.messages)
           new == PutReasoning(st, blocks)
<1>1. StateIs(new, ms)
  BY DEF PutReasoning, StateIs, StateFits
<1>2. MessagesFit(ms)
  BY OverwrittenFit, DetachedFit DEF StateFits
<1> HIDE DEF ms, new
<1>3. StateFits(new)
  BY <1>1, <1>2 DEF StateFits, StateIs
<1> QED BY <1>3 DEF new

LEMMA OutputFits == ASSUME NEW st, StateFits(st), NEW item PROVE StateFits(OutputItem(st, item))
<1> DEFINE merged == IF st.calls = <<>> THEN st
                     ELSE [st EXCEPT !.calls = MergeReasoning(@, st.reasoning), !.reasoning = <<>>]
           flushed == FlushReasoning(FlushCalls(merged))
           x == ToolResult(item.id, item.text)
           ms == Append(flushed.messages, Message("tool", <<x>>))
           new == [flushed EXCEPT !.messages = Append(@, Message("tool", <<x>>))]
<1>1. OutputItem(st, item) = new
  BY DEF OutputItem
<1>2. StateIs(merged, st.messages)
  BY DEF StateFits, StateIs
<1> HIDE DEF merged
<1>3. StateFits(merged)
  BY <1>2 DEF StateFits, StateIs
<1>4. StateFits(flushed)
  BY <1>3, CallsFlushed, ReasoningFlushed
<1> HIDE DEF flushed
<1>5. x.type = "tool_result"
  BY DEF ToolResult
<1> HIDE DEF x
<1>6. EndsWell(<<x>>)
  BY <1>5, ResultEndsWell
<1>7. MessageFits(Message("tool", <<x>>))
  BY <1>6, ClientFits
<1>8. MessagesFit(ms)
  BY <1>4, <1>7, OneMessageMore DEF StateFits
<1>9. StateIs(new, ms)
  BY <1>4 DEF StateIs, StateFits
<1> HIDE DEF new, ms
<1> QED BY <1>1, <1>8, <1>9 DEF StateFits, StateIs

LEMMA ReasoningFits == ASSUME NEW st, StateFits(st), NEW item PROVE StateFits(ReasoningItem(st, item))
<1> DEFINE v == MergeReasoning(st.calls, ContentBlocks(item.content))
<1>1. CASE st.calls # <<>>
  <2>1. ReasoningItem(st, item) = [st EXCEPT !.calls = v]
    BY <1>1 DEF ReasoningItem
  <2> HIDE DEF v
  <2>2. StateIs([st EXCEPT !.calls = v], st.messages)
    BY FieldsSet DEF StateFits
  <2> QED BY <2>1, <2>2 DEF StateFits, StateIs
<1>2. CASE st.calls = <<>>
  <2>1. ReasoningItem(st, item) = PutReasoning(st, ContentBlocks(item.content))
    BY <1>2 DEF ReasoningItem
  <2> QED BY <2>1, ReasoningPut
<1> QED BY <1>1, <1>2

LEMMA CallFits ==
    ASSUME NEW st, StateFits(st), NEW item, NEW model
    PROVE  StateFits(FunctionCallItem(st, item, model)) /\ StateFits(CustomCallItem(st, item))
<1> DEFINE held == IF st.reasoning = <<>> /\ model THEN PutReasoning(st, <<Reasoning(NoText)>>) ELSE st
           call == held.reasoning \o <<ToolUse(item.id, item.name, item.input)>>
           new == [held EXCEPT !.calls = @ \o held.reasoning \o <<ToolUse(item.id, item.name, item.input)>>,
                               !.reasoning = <<>>]
<1>1. FunctionCallItem(st, item, model) = new
  BY DEF FunctionCallItem
<1>2. StateFits(held)
  BY ReasoningPut
<1> HIDE DEF held
<1>3. StateIs(new, held.messages)
  BY <1>2 DEF StateFits, StateIs
<1> HIDE DEF new
<1>4. StateFits(new)
  BY <1>2, <1>3 DEF StateFits, StateIs
<1>5. StateIs(CustomCallItem(st, item), st.messages)
  BY DEF StateFits, StateIs, CustomCallItem
<1>6. StateFits(CustomCallItem(st, item))
  BY <1>5 DEF StateFits, StateIs
<1> QED BY <1>1, <1>4, <1>6

LEMMA AssistantItemFits == ASSUME NEW st, StateFits(st), NEW item PROVE StateFits(AssistantItem(st, item))
<1> DEFINE blocks == ContentBlocks(item.content)
           content == st.reasoning \o blocks
           fits == st.reasoning # <<>> /\ Len(content) <= st.cap
           kept == IF fits THEN Overwritten(st.messages, Len(st.reasoning), blocks) ELSE st.messages
           x == [Message("assistant", content) EXCEPT !.shared = fits]
           ms == Append(kept, x)
           new == AssistantItem(st, item)
<1>1. CASE content = <<>>
  BY <1>1 DEF AssistantItem
<1>2. CASE content # <<>>
  <2>1. new = [st EXCEPT !.messages = Append(kept, x), !.reasoning = <<>>]
    BY <1>2 DEF AssistantItem
  <2>2. MessagesFit(kept)
    BY OverwrittenFit DEF StateFits
  <2> HIDE DEF kept, fits, content
  <2>3. DOMAIN x = {"role", "content", "shared"} /\ x.role = "assistant"
    BY MessageIs
  <2> HIDE DEF x
  <2>4. MessageFits(x)
    BY <2>3 DEF MessageFits
  <2>5. MessagesFit(ms)
    BY <2>2, <2>4, OneMessageMore
  <2> HIDE DEF new
  <2>6. StateIs(new, ms)
    BY <2>1 DEF StateIs, StateFits
  <2> HIDE DEF ms
  <2>7. StateFits(new)
    BY <2>5, <2>6 DEF StateFits, StateIs
  <2> QED BY <2>7 DEF new
<1> QED BY <1>1, <1>2

LEMMA UserItemFits ==
    ASSUME NEW st, StateFits(st), NEW item, UserParts(item.content)
    PROVE  StateFits(UserItem(st, item))
<1> DEFINE blocks == ContentBlocks(item.content)
           ms == Append(st.messages, Message("user", blocks))
           new == UserItem(st, item)
<1>1. CASE blocks = <<>>
  BY <1>1 DEF UserItem
<1>2. CASE blocks # <<>>
  <2>1. new = [st EXCEPT !.messages = ms]
    BY <1>2 DEF UserItem
  <2>2. EndsWell(blocks)
    BY <1>2, PartsEndWell
  <2> HIDE DEF blocks
  <2>3. MessageFits(Message("user", blocks))
    BY <2>2, ClientFits
  <2>4. MessagesFit(ms)
    BY <2>3, OneMessageMore DEF StateFits
  <2> HIDE DEF ms, new
  <2>5. StateIs(new, ms)
    BY <2>1, FieldsSet DEF StateFits
  <2>6. StateFits(new)
    BY <2>4, <2>5 DEF StateFits, StateIs
  <2> QED BY <2>6 DEF new
<1> QED BY <1>1, <1>2

\* An item of the history: only the user's own has parts that become a message of the user.
ItemFits(item) ==
  \/ item.type \in OutputTypes \cup CallTypes \cup {"reasoning"}
  \/ item.type = "message" /\ item.role \in {"system", "developer", "assistant"}
  \/ UserParts(item.content)

LEMMA ItemConverted ==
    ASSUME NEW st, StateFits(st), NEW item, ItemFits(item), NEW model
    PROVE  StateFits(ConvertItem(st, item, model))
<1> DEFINE new == ConvertItem(st, item, model)
           flushed == FlushCalls(st)
<1>1. CASE item.type \in OutputTypes
  <2>1. new = OutputItem(st, item)
    BY <1>1 DEF ConvertItem, OutputTypes, CallTypes
  <2> QED BY <2>1, OutputFits
<1>2. CASE item.type = "reasoning"
  <2>1. item.type \notin OutputTypes
    BY <1>2 DEF OutputTypes
  <2>2. new = ReasoningItem(st, item)
    BY <1>2, <2>1 DEF ConvertItem, OutputTypes, CallTypes
  <2> QED BY <2>2, ReasoningFits
<1>3. CASE item.type \in CallTypes
  <2>1. item.type \notin OutputTypes /\ item.type # "reasoning"
    BY <1>3 DEF OutputTypes, CallTypes
  <2>2. new = FunctionCallItem(st, item, model) \/ new = CustomCallItem(st, item)
    BY <1>3, <2>1 DEF ConvertItem, OutputTypes, CallTypes
  <2> QED BY <2>2, CallFits
<1>4. CASE item.type \notin OutputTypes \cup CallTypes \cup {"reasoning"}
  <2>0. StateFits(flushed)
    BY CallsFlushed
  <2>00. item.type \notin OutputTypes /\ item.type # "reasoning" /\ item.type \notin CallTypes /\ item.type # "function_call"
    BY <1>4 DEF CallTypes
  <2>1. CASE item.type = "message" /\ item.role \in {"system", "developer"}
    <3> DEFINE v == flushed.system \o ContentBlocks(item.content)
    <3>1. new = SystemItem(flushed, item)
      BY <2>1, <2>00 DEF ConvertItem
    <3> HIDE DEF flushed
    <3>2. SystemItem(flushed, item) = [flushed EXCEPT !.system = v]
      BY DEF SystemItem
    <3> HIDE DEF v
    <3>3. StateIs([flushed EXCEPT !.system = v], flushed.messages)
      BY <2>0, FieldsSet DEF StateFits
    <3> QED BY <2>0, <3>1, <3>2, <3>3 DEF StateFits, StateIs
  <2>2. CASE item.type = "message" /\ item.role = "assistant"
    <3>1. new = AssistantItem(flushed, item)
      BY <2>2, <2>00 DEF ConvertItem
    <3> QED BY <2>0, <3>1, AssistantItemFits
  <2>3. CASE ~(item.type = "message" /\ item.role \in {"system", "developer", "assistant"})
    <3>1. new = UserItem(flushed, item)
      BY <2>3, <2>00 DEF ConvertItem
    <3>2. UserParts(item.content)
      BY <2>3, <2>00 DEF ItemFits
    <3> QED BY <2>0, <3>1, <3>2, UserItemFits
  <2> QED BY <2>1, <2>2, <2>3
<1> QED BY <1>1, <1>2, <1>3, <1>4

\* f is the function that ConvertInput(items, model) chooses, or its first m values.
IsConverted(f, m, items, model) ==
    f = [n \in 0 .. m |-> IF n = 0 THEN EmptyInput ELSE ConvertItem(f[n - 1], items[n], model)]

LEMMA ConversionExists ==
    ASSUME NEW items, NEW model, NEW m \in Nat
    PROVE  \E f : IsConverted(f, m, items, model)
<1> DEFINE Good == { k \in Nat : \E f : IsConverted(f, k, items, model) }
<1>1. 0 \in Good
  <2> DEFINE f == [n \in 0 .. 0 |-> EmptyInput]
  <2>1. f = [n \in 0 .. 0 |-> IF n = 0 THEN EmptyInput ELSE ConvertItem(f[n - 1], items[n], model)]
    OBVIOUS
  <2> HIDE DEF f
  <2> QED BY <2>1 DEF IsConverted
<1>2. ASSUME NEW k \in 1 .. m, k - 1 \in Good PROVE k \in Good
  <2>0. k \in Nat /\ k # 0
    BY <1>2
  <2>1. PICK f : IsConverted(f, k - 1, items, model)
    BY <1>2
  <2>2. PICK g : IsLonger(g, f, k, ConvertItem(f[k - 1], items[k], model))
    BY <2>0, Longer, Zenon
  <2>3. \A n \in 0 .. k - 1 : f[n] = IF n = 0 THEN EmptyInput ELSE ConvertItem(f[n - 1], items[n], model)
    BY <2>1, Zenon DEF IsConverted
  <2>4. \A n \in 0 .. k : g[n] = IF n = 0 THEN EmptyInput ELSE ConvertItem(g[n - 1], items[n], model)
    BY <2>2, <2>3 DEF IsLonger
  <2>5. g = [n \in 0 .. k |-> IF n = 0 THEN EmptyInput ELSE ConvertItem(g[n - 1], items[n], model)]
    BY <2>2, <2>4 DEF IsLonger
  <2> QED BY <2>0, <2>5, Zenon DEF IsConverted
<1>3. m \in Good
  <2> HIDE DEF Good
  <2> QED BY <1>1, <1>2, InductionUpTo
<1> QED BY <1>3

\* A history of which every item fits.
ItemsFit(items) == IsSeq(items) /\ \A k \in 1 .. Len(items) : ItemFits(items[k])

\* What the client said is in the Core request's messages in arrays of their own.
LEMMA InputFits ==
    ASSUME NEW items, ItemsFit(items), NEW model
    PROVE  MessagesFit(ConvertInput(items, model).messages)
<1> DEFINE f == CHOOSE f : IsConverted(f, Len(items), items, model)
           last == f[Len(items)]
           Good == { n \in Nat : StateFits(f[n]) }
<1>1. Len(items) \in Nat
  BY DEF ItemsFit, IsSeq
<1>2. IsConverted(f, Len(items), items, model)
  BY <1>1, ConversionExists
<1>3. ConvertInput(items, model) = FlushCalls(FlushReasoning(last))
  BY Zenon DEF ConvertInput, IsConverted
<1> HIDE DEF f
<1>4. ASSUME NEW n \in 0 .. Len(items)
      PROVE  f[n] = IF n = 0 THEN EmptyInput ELSE ConvertItem(f[n - 1], items[n], model)
  BY <1>2, Zenon DEF IsConverted
<1>5. 0 \in Good
  <2>1. f[0] = EmptyInput
    BY <1>1, <1>4
  <2>2. StateFits(EmptyInput)
    BY NoMessagesFit DEF StateFits, EmptyInput
  <2> QED BY <2>1, <2>2
<1>6. ASSUME NEW n \in 1 .. Len(items), n - 1 \in Good PROVE n \in Good
  <2>1. n \in 0 .. Len(items) /\ n # 0 /\ n \in Nat
    OBVIOUS
  <2>2. f[n] = ConvertItem(f[n - 1], items[n], model)
    BY <1>4, <2>1
  <2>3. StateFits(f[n - 1])
    BY <1>6
  <2>4. ItemFits(items[n])
    BY DEF ItemsFit
  <2> DEFINE st == f[n - 1]
             x == items[n]
  <2> HIDE DEF st, x
  <2>5. StateFits(ConvertItem(st, x, model))
    BY <2>3, <2>4, ItemConverted DEF st, x
  <2> QED BY <2>1, <2>2, <2>5 DEF st, x
<1>7. Len(items) \in Good
  <2> HIDE DEF Good
  <2> QED BY <1>1, <1>5, <1>6, InductionUpTo
<1>8. StateFits(last)
  BY <1>7
<1> HIDE DEF last
<1>9. StateFits(FlushCalls(FlushReasoning(last)))
  BY <1>8, ReasoningFlushed, CallsFlushed
<1> QED BY <1>3, <1>9 DEF StateFits

-----------------------------------------------------------------------------
(* The messages of an Anthropic request.                                   *)

\* What is sent as the user's ends well.
SentFits(x) ==
  /\ {"role", "content"} \subseteq DOMAIN x
  /\ x.role # "tool"
  /\ x.role = "user" => EndsWell(x.content)

AllSentFit(sentSoFar) == IsSeq(sentSoFar) /\ \A k \in 1 .. Len(sentSoFar) : SentFits(sentSoFar[k])

LEMMA OneSentMore ==
    ASSUME NEW s, AllSentFit(s), NEW x, SentFits(x)
    PROVE  AllSentFit(Append(s, x))
<1>1. PICK S : s \in Seq(S)
  BY DEF AllSentFit, IsSeq
<1>2. S \subseteq S \cup {x}
  OBVIOUS
<1>3. s \in Seq(S \cup {x}) /\ x \in S \cup {x}
  BY <1>1, <1>2, SeqMonotonic
<1> DEFINE t == Append(s, x)
<1>4. Len(s) \in Nat /\ Len(t) = Len(s) + 1 /\ t[Len(s) + 1] = x /\ \A k \in 1 .. Len(s) : t[k] = s[k]
  BY <1>3
<1>5. IsSeq(t)
  BY OneMoreIn DEF AllSentFit
<1> HIDE DEF t
<1>6. \A k \in 1 .. Len(t) : SentFits(t[k])
  <2> SUFFICES ASSUME NEW k \in 1 .. Len(t) PROVE SentFits(t[k])
    OBVIOUS
  <2>1. k \in 1 .. Len(s) \/ k = Len(s) + 1
    BY <1>4
  <2> QED BY <1>4, <2>1 DEF AllSentFit
<1>7. AllSentFit(t)
  BY <1>5, <1>6 DEF AllSentFit
<1> QED BY <1>7 DEF t

\* The blocks as Anthropic gets them.
LEMMA BlocksEndWell ==
    ASSUME NEW c, EndsWell(c)
    PROVE  EndsWell([k \in DOMAIN c |-> AnthropicBlock(c[k])])
<1> DEFINE t == [k \in DOMAIN c |-> AnthropicBlock(c[k])]
<1>1. Len(c) \in Nat /\ DOMAIN c = 1 .. Len(c) /\ Len(c) > 0
  BY DEF EndsWell, IsSeq
<1>2. t = [k \in 1 .. Len(c) |-> t[k]] /\ t[Len(c)] = AnthropicBlock(c[Len(c)])
  BY <1>1
<1>3. AnthropicBlock(c[Len(c)]) = c[Len(c)]
  BY DEF AnthropicBlock, EndsWell
<1> HIDE DEF t
<1>4. IsSeq(t) /\ Len(t) = Len(c)
  BY <1>1, <1>2, ListMade
<1>5. EndsWell(t)
  BY <1>1, <1>2, <1>3, <1>4 DEF EndsWell
<1> QED BY <1>5 DEF t

LEMMA MessageSent ==
    ASSUME NEW s, AllSentFit(s), NEW msg, MessageFits(msg)
    PROVE  AllSentFit(AddAnthropic(s, msg))
<1> DEFINE content == [k \in DOMAIN msg.content |-> AnthropicBlock(msg.content[k])]
           m == [role |-> AnthropicRole(msg.role), content |-> content]
           joins == /\ s # <<>> /\ m.role = "user" /\ Last(s).role = "user"
                    /\ IsToolResultOnly(m.content) /\ IsToolResultOnly(Last(s).content)
<1>1. AddAnthropic(s, msg) = IF joins THEN [s EXCEPT ![Len(s)].content = @ \o m.content] ELSE Append(s, m)
  BY DEF AddAnthropic
<1>2. AnthropicRole(msg.role) # "tool"
  BY DEF AnthropicRole
<1>3. AnthropicRole(msg.role) = "user" => EndsWell(content)
  <2>1. ASSUME AnthropicRole(msg.role) = "user" PROVE msg.role \in {"user", "tool"}
    BY <2>1 DEF AnthropicRole
  <2> HIDE DEF content
  <2>2. ASSUME EndsWell(msg.content) PROVE EndsWell(content)
    BY <2>2, BlocksEndWell DEF content
  <2> QED BY <2>1, <2>2 DEF MessageFits
<1> DEFINE role == AnthropicRole(msg.role)
<1> HIDE DEF content, role
<1>4. m.role = role /\ m.content = content /\ DOMAIN m = {"role", "content"}
  BY DEF role
<1>5. SentFits(m)
  <2> HIDE DEF m
  <2> QED BY <1>2, <1>3, <1>4 DEF SentFits, role
<1>6. CASE joins
  <2>1. PICK S : s \in Seq(S)
    BY DEF AllSentFit, IsSeq
  <2>2. s # <<>> /\ role = "user" /\ Last(s).role = "user"
    BY <1>4, <1>6
  <2> DEFINE n == Len(s)
             last == s[n]
             c == last.content \o content
             x == [last EXCEPT !.content = c]
             t == [s EXCEPT ![n].content = @ \o m.content]
  <2>3. n \in Nat /\ n > 0 /\ DOMAIN s = 1 .. n /\ n \in 1 .. n
    BY <2>1, <2>2
  <2>4. last.role = "user"
    BY <2>2 DEF Last
  <2>5. SentFits(last)
    BY <2>3 DEF AllSentFit
  <2>6. t = [k \in 1 .. n |-> t[k]] /\ t[n] = x /\ \A k \in 1 .. n - 1 : t[k] = s[k]
    <3>1. t = [s EXCEPT ![n] = [last EXCEPT !.content = @ \o m.content]]
      OBVIOUS
    <3>2. [last EXCEPT !.content = @ \o m.content] = x
      BY <1>4, Zenon
    <3> DEFINE y == x
    <3>3. t = [s EXCEPT ![n] = y]
      BY <3>1, <3>2
    <3> HIDE DEF t, n, y, x
    <3>4. t = [k \in 1 .. n |-> t[k]] /\ t[n] = y /\ \A k \in 1 .. n - 1 : t[k] = s[k]
      <4>1. t = [k \in 1 .. n |-> IF k = n THEN y ELSE s[k]]
        BY <2>3, <3>3
      <4>2. \A k \in 1 .. n - 1 : k \in 1 .. n /\ k # n
        BY <2>3
      <4>3. t[n] = y /\ \A k \in 1 .. n - 1 : t[k] = s[k]
        BY <2>3, <4>1, <4>2
      <4>4. t = [k \in 1 .. n |-> t[k]]
        BY <4>1
      <4> QED BY <4>3, <4>4
    <3> QED BY <3>4 DEF y
  <2>7. AddAnthropic(s, msg) = t
    BY <1>1, <1>6
  <2> HIDE DEF t, n, m, last
  <2>8. EndsWell(last.content) /\ EndsWell(content)
    BY <1>3, <2>2, <2>4, <2>5 DEF SentFits, role
  <2>9. EndsWell(c)
    BY <2>8, TogetherEndWell DEF EndsWell
  <2> HIDE DEF c
  <2>10. DOMAIN x = DOMAIN last /\ x.role = "user" /\ x.content = c
    BY <2>4, <2>5 DEF SentFits
  <2> HIDE DEF x
  <2>11. SentFits(x)
    BY <2>5, <2>9, <2>10 DEF SentFits
  <2>12. IsSeq(t) /\ Len(t) = n
    BY <2>3, <2>6, ListMade
  <2>13. \A k \in 1 .. n : SentFits(t[k])
    <3> SUFFICES ASSUME NEW k \in 1 .. n PROVE SentFits(t[k])
      OBVIOUS
    <3>1. CASE k = n
      BY <2>6, <2>11, <3>1
    <3>2. CASE k # n
      <4>1. k \in 1 .. n - 1
        BY <2>3, <3>2
      <4>2. SentFits(s[k])
        BY DEF AllSentFit, n
      <4> QED BY <2>6, <4>1, <4>2
    <3> QED BY <3>1, <3>2
  <2> QED BY <2>7, <2>12, <2>13 DEF AllSentFit
<1>7. CASE ~joins
  <2>1. AddAnthropic(s, msg) = Append(s, m)
    BY <1>1, <1>7
  <2> HIDE DEF m
  <2> QED BY <1>5, <2>1, OneSentMore
<1> QED BY <1>6, <1>7

\* f is the function that AnthropicMessages(ms) chooses, or its first m values.
IsSentSoFar(f, m, ms) ==
    f = [n \in 0 .. m |-> IF n = 0 THEN <<>> ELSE AddAnthropic(f[n - 1], ms[n])]

LEMMA SentSoFarExists ==
    ASSUME NEW ms, NEW m \in Nat
    PROVE  \E f : IsSentSoFar(f, m, ms)
<1> DEFINE Good == { k \in Nat : \E f : IsSentSoFar(f, k, ms) }
<1>1. 0 \in Good
  <2> DEFINE f == [n \in 0 .. 0 |-> <<>>]
  <2>1. f = [n \in 0 .. 0 |-> IF n = 0 THEN <<>> ELSE AddAnthropic(f[n - 1], ms[n])]
    OBVIOUS
  <2> HIDE DEF f
  <2> QED BY <2>1 DEF IsSentSoFar
<1>2. ASSUME NEW k \in 1 .. m, k - 1 \in Good PROVE k \in Good
  <2>0. k \in Nat /\ k # 0
    BY <1>2
  <2>1. PICK f : IsSentSoFar(f, k - 1, ms)
    BY <1>2
  <2>2. PICK g : IsLonger(g, f, k, AddAnthropic(f[k - 1], ms[k]))
    BY <2>0, Longer, Zenon
  <2>3. \A n \in 0 .. k - 1 : f[n] = IF n = 0 THEN <<>> ELSE AddAnthropic(f[n - 1], ms[n])
    BY <2>1, Zenon DEF IsSentSoFar
  <2>4. \A n \in 0 .. k : g[n] = IF n = 0 THEN <<>> ELSE AddAnthropic(g[n - 1], ms[n])
    BY <2>2, <2>3 DEF IsLonger
  <2>5. g = [n \in 0 .. k |-> IF n = 0 THEN <<>> ELSE AddAnthropic(g[n - 1], ms[n])]
    BY <2>2, <2>4 DEF IsLonger
  <2> QED BY <2>0, <2>5, Zenon DEF IsSentSoFar
<1>3. m \in Good
  <2> HIDE DEF Good
  <2> QED BY <1>1, <1>2, InductionUpTo
<1> QED BY <1>3

LEMMA RequestFits ==
    ASSUME NEW ms, MessagesFit(ms)
    PROVE  AllSentFit(AnthropicMessages(ms))
<1> DEFINE f == CHOOSE f : IsSentSoFar(f, Len(ms), ms)
           Good == { n \in Nat : AllSentFit(f[n]) }
<1>1. Len(ms) \in Nat
  BY DEF MessagesFit, IsSeq
<1>2. IsSentSoFar(f, Len(ms), ms)
  BY <1>1, SentSoFarExists
<1>3. AnthropicMessages(ms) = f[Len(ms)]
  BY Zenon DEF AnthropicMessages, IsSentSoFar
<1> HIDE DEF f
<1>4. ASSUME NEW n \in 0 .. Len(ms) PROVE f[n] = IF n = 0 THEN <<>> ELSE AddAnthropic(f[n - 1], ms[n])
  BY <1>2, Zenon DEF IsSentSoFar
<1>5. 0 \in Good
  <2>1. f[0] = <<>>
    BY <1>1, <1>4
  <2>2. AllSentFit(<<>>)
    <3>1. IsSeq(<<>>) /\ \A k \in 1 .. Len(<<>>) : FALSE
      BY EmptyIsSeq
    <3> QED BY <3>1 DEF AllSentFit
  <2> QED BY <2>1, <2>2
<1>6. ASSUME NEW n \in 1 .. Len(ms), n - 1 \in Good PROVE n \in Good
  <2>1. n \in 0 .. Len(ms) /\ n # 0 /\ n \in Nat
    OBVIOUS
  <2>2. f[n] = AddAnthropic(f[n - 1], ms[n])
    BY <1>4, <2>1
  <2>3. AllSentFit(f[n - 1]) /\ MessageFits(ms[n])
    BY <1>6 DEF MessagesFit
  <2> DEFINE s == f[n - 1]
             x == ms[n]
  <2> HIDE DEF s, x
  <2>4. AllSentFit(AddAnthropic(s, x))
    BY <2>3, MessageSent DEF s, x
  <2> QED BY <2>1, <2>2, <2>4 DEF s, x
<1>7. Len(ms) \in Good
  <2> HIDE DEF Good
  <2> QED BY <1>1, <1>5, <1>6, InductionUpTo
<1> QED BY <1>3, <1>7

-----------------------------------------------------------------------------
(* A conversation's marks.                                                 *)

LEMMA OneItemMore ==
    ASSUME NEW s, ItemsFit(s), NEW x, ItemFits(x)
    PROVE  ItemsFit(Append(s, x))
<1>1. PICK S : s \in Seq(S)
  BY DEF ItemsFit, IsSeq
<1>2. S \subseteq S \cup {x}
  OBVIOUS
<1>3. s \in Seq(S \cup {x}) /\ x \in S \cup {x}
  BY <1>1, <1>2, SeqMonotonic
<1> DEFINE t == Append(s, x)
<1>4. Len(s) \in Nat /\ Len(t) = Len(s) + 1 /\ t[Len(s) + 1] = x /\ \A k \in 1 .. Len(s) : t[k] = s[k]
  BY <1>3
<1>5. IsSeq(t)
  BY OneMoreIn DEF ItemsFit
<1> HIDE DEF t
<1>6. \A k \in 1 .. Len(t) : ItemFits(t[k])
  <2> SUFFICES ASSUME NEW k \in 1 .. Len(t) PROVE ItemFits(t[k])
    OBVIOUS
  <2>1. k \in 1 .. Len(s) \/ k = Len(s) + 1
    BY <1>4
  <2> QED BY <1>4, <2>1 DEF ItemsFit
<1>7. ItemsFit(t)
  BY <1>5, <1>6 DEF ItemsFit
<1> QED BY <1>7 DEF t

LEMMA ItemsTogether ==
    ASSUME NEW a, ItemsFit(a), NEW b, ItemsFit(b)
    PROVE  ItemsFit(a \o b)
<1>1. PICK S : a \in Seq(S) /\ b \in Seq(S)
  BY SharedSet DEF ItemsFit
<1> DEFINE t == a \o b
           n == Len(a)
<1>2. n \in Nat /\ Len(b) \in Nat
  BY <1>1
<1>3. /\ t \in Seq(S) /\ Len(t) = n + Len(b)
      /\ \A k \in 1 .. n : t[k] = a[k]
      /\ \A k \in 1 .. Len(b) : t[n + k] = b[k]
  BY <1>1
<1> HIDE DEF t, n
<1>4. ASSUME NEW k \in 1 .. Len(t) PROVE ItemFits(t[k])
  <2>1. CASE k \in 1 .. n
    <3>1. ItemFits(a[k])
      BY <2>1 DEF ItemsFit, n
    <3> QED BY <1>3, <2>1, <3>1
  <2>2. CASE k \notin 1 .. n
    <3>1. k - n \in 1 .. Len(b) /\ n + (k - n) = k
      BY <1>2, <1>3, <2>2
    <3>2. PICK j \in 1 .. Len(b) : n + j = k
      BY <3>1
    <3>3. t[n + j] = b[j] /\ ItemFits(b[j])
      BY <1>3 DEF ItemsFit
    <3> QED BY <3>2, <3>3
  <2> QED BY <2>1, <2>2
<1>5. ItemsFit(t)
  BY <1>3, <1>4 DEF ItemsFit, IsSeq
<1> QED BY <1>5 DEF t

LEMMA NoItemsFit == ItemsFit(<<>>)
<1>1. IsSeq(<<>>) /\ \A k \in 1 .. Len(<<>>) : FALSE
  BY EmptyIsSeq
<1> QED BY <1>1 DEF ItemsFit

LEMMA OneItemFits == ASSUME NEW x, ItemFits(x) PROVE ItemsFit(<<x>>)
<1>1. <<x>> \in Seq({x}) /\ Len(<<x>>) = 1 /\ <<x>>[1] = x
  OBVIOUS
<1>2. \A k \in 1 .. 1 : k = 1
  OBVIOUS
<1>3. IsSeq(<<x>>)
  BY <1>1 DEF IsSeq
<1>4. \A k \in 1 .. Len(<<x>>) : ItemFits(<<x>>[k])
  BY <1>1, <1>2
<1> QED BY <1>3, <1>4 DEF ItemsFit

\* The items of an answer are none of the user's.
LEMMA FlushedFits ==
    ASSUME NEW i, NEW t, ItemsFit(i)
    PROVE  \E j, u : FlushTexts(OutState(i, t)) = OutState(j, u) /\ ItemsFit(j)
<1>1. CASE t = <<>>
  <2>1. FlushTexts(OutState(i, t)) = OutState(i, t)
    BY <1>1 DEF FlushTexts, OutState
  <2> QED BY <2>1
<1>2. CASE t # <<>>
  <2> DEFINE x == MessageItem(t)
             j == Append(i, x)
  <2>1. FlushTexts(OutState(i, t)) = OutState(j, <<>>)
    BY <1>2 DEF FlushTexts, OutState
  <2>2. x.type = "message" /\ x.role = "assistant"
    BY DEF MessageItem
  <2> HIDE DEF x
  <2>3. ItemFits(x)
    BY <2>2 DEF ItemFits
  <2>4. ItemsFit(j)
    BY <2>3, OneItemMore
  <2> QED BY <2>1, <2>4
<1> QED BY <1>1, <1>2

LEMMA BlockItemFits ==
    ASSUME NEW i, NEW t, ItemsFit(i), NEW x, x.type = "tool_use" => CallsTool(x)
    PROVE  \E j, u : OutputBlock(OutState(i, t), x, Tools) = OutState(j, u) /\ ItemsFit(j)
<1>1. CASE x.type = "text"
  <2>1. OutputBlock(OutState(i, t), x, Tools) = OutState(i, Append(t, x))
    BY <1>1 DEF OutputBlock, OutState
  <2> QED BY <2>1
<1>2. CASE x.type = "image"
  <2>1. OutputBlock(OutState(i, t), x, Tools) = OutState(i, Append(t, Text(<<"[Image]">>)))
    BY <1>2 DEF OutputBlock, OutState
  <2> QED BY <2>1
<1>3. CASE x.type = "reasoning"
  <2> DEFINE y == ReasoningSummary(x)
             j == Append(i, y)
  <2>1. OutputBlock(OutState(i, t), x, Tools) = OutState(j, t)
    BY <1>3 DEF OutputBlock, OutState
  <2>2. y.type = "reasoning"
    BY DEF ReasoningSummary
  <2> HIDE DEF y
  <2>3. ItemFits(y)
    BY <2>2 DEF ItemFits
  <2>4. ItemsFit(j)
    BY <2>3, OneItemMore
  <2> QED BY <2>1, <2>4
<1>4. CASE x.type = "tool_use"
  <2>1. PICK f, u : FlushTexts(OutState(i, t)) = OutState(f, u) /\ ItemsFit(f)
    BY FlushedFits
  <2> DEFINE y == ToolOutputItem(x, Tools)
             j == Append(f, y)
  <2>2. OutputBlock(OutState(i, t), x, Tools) = [OutState(f, u) EXCEPT !.items = Append(@, y)]
    BY <1>4, <2>1 DEF OutputBlock
  <2>3. y.type \in CallTypes
    BY <1>4, CallComesBack DEF ComesBack
  <2> HIDE DEF y
  <2>4. [OutState(f, u) EXCEPT !.items = Append(@, y)] = OutState(j, u)
    BY DEF OutState
  <2>5. ItemFits(y)
    BY <2>3 DEF ItemFits
  <2>6. ItemsFit(j)
    BY <2>1, <2>5, OneItemMore
  <2> QED BY <2>2, <2>4, <2>6 DEF y
<1>5. CASE x.type \notin {"text", "image", "reasoning", "tool_use"}
  <2>1. OutputBlock(OutState(i, t), x, Tools) = OutState(i, t)
    BY <1>5 DEF OutputBlock
  <2> QED BY <2>1
<1> QED BY <1>1, <1>2, <1>3, <1>4, <1>5

LEMMA AnswerItemsFit ==
    ASSUME NEW blocks, CallsTools(blocks)
    PROVE  ItemsFit(OutputItems(blocks, Tools))
<1> DEFINE f == CHOOSE f : IsOutput(f, Len(blocks), blocks)
           Fine(n) == \E i, t : f[n] = OutState(i, t) /\ ItemsFit(i)
           Good == { n \in Nat : Fine(n) }
<1>1. Len(blocks) \in Nat
  BY DEF CallsTools, IsSeq
<1>2. IsOutput(f, Len(blocks), blocks)
  BY <1>1, OutputExists
<1>3. OutputItems(blocks, Tools) = FlushTexts(f[Len(blocks)]).items
  BY Zenon DEF OutputItems, IsOutput, OutState
<1> HIDE DEF f
<1>4. ASSUME NEW n \in 0 .. Len(blocks)
      PROVE  f[n] = IF n = 0 THEN OutState(<<>>, <<>>) ELSE OutputBlock(f[n - 1], blocks[n], Tools)
  BY <1>2, Zenon DEF IsOutput
<1>5. 0 \in Good
  <2>1. f[0] = OutState(<<>>, <<>>)
    BY <1>1, <1>4
  <2> QED BY <2>1, NoItemsFit
<1>6. ASSUME NEW n \in 1 .. Len(blocks), n - 1 \in Good PROVE n \in Good
  <2>1. n \in 0 .. Len(blocks) /\ n # 0 /\ n \in Nat
    OBVIOUS
  <2>2. PICK i, t : f[n - 1] = OutState(i, t) /\ ItemsFit(i)
    BY <1>6
  <2> DEFINE x == blocks[n]
  <2>3. f[n] = OutputBlock(OutState(i, t), x, Tools)
    BY <1>4, <2>1, <2>2
  <2>4. x.type = "tool_use" => CallsTool(x)
    BY DEF CallsTools
  <2> HIDE DEF x
  <2>5. \E j, u : OutputBlock(OutState(i, t), x, Tools) = OutState(j, u) /\ ItemsFit(j)
    BY <2>2, <2>4, BlockItemFits
  <2> QED BY <2>1, <2>3, <2>5
<1>7. Len(blocks) \in Good
  <2> HIDE DEF Good
  <2> QED BY <1>1, <1>5, <1>6, InductionUpTo
<1>8. PICK i, t : f[Len(blocks)] = OutState(i, t) /\ ItemsFit(i)
  BY <1>7
<1>9. PICK j, u : FlushTexts(OutState(i, t)) = OutState(j, u) /\ ItemsFit(j)
  BY <1>8, FlushedFits
<1>10. OutputItems(blocks, Tools) = j
  BY <1>3, <1>8, <1>9 DEF OutState
<1> QED BY <1>9, <1>10

\* What the invariant says of the client's messages on their way to the provider.
MarksInv ==
  /\ ConversationInv
  /\ conv.cache \in CacheConfigs
  /\ ItemsFit(history)
  /\ phase = "core" => MessagesFit(core.messages)
  /\ phase = "sent" /\ conv.protocol = "anthropic" =>
       /\ AllSentFit(request)
       /\ marks = Marks(PlannerInput(request), Plan(PlannerInput(request), conv.cache))

LEMMA PlanIs ==
    ASSUME NEW req, NEW cfg, Plan(req, cfg).breakpoints # <<>>
    PROVE  Plan(req, cfg).breakpoints = Breakpoints(req, cfg)
BY DEF Plan, NoPlan

LEMMA PlannerInputIs == ASSUME NEW ms PROVE PlannerInput(ms).messages = ms
BY DEF PlannerInput

\* The last message of the client's in a request is the user's, and can be marked at its end.
LEMMA LastOfClient ==
    ASSUME AllSentFit(request)
    PROVE  /\ Len(PrefixSent) \in 0 .. Len(request)
           /\ Len(PrefixSent) > 0 => UserEnds(request, Len(PrefixSent))
<1> DEFINE P == {m \in DOMAIN request : request[m].role \in {"user", "tool"}}
           l == LastPlace(P)
<1>1. PICK S : request \in Seq(S)
  BY DEF AllSentFit, IsSeq
<1>2. Len(request) \in Nat /\ DOMAIN request = 1 .. Len(request)
  BY <1>1
<1>3. P \subseteq 1 .. Len(request)
  BY <1>2
<1>4. PrefixSent = SubSeq(request, 1, l)
  BY DEF PrefixSent
<1>5. \A k \in 1 .. Len(request) : k \in P <=> request[k].role = "user"
  BY <1>2 DEF AllSentFit, SentFits
<1> HIDE DEF P
<1>6. /\ l \in 0 .. Len(request)
      /\ P # {} => l \in P
      /\ P = {} => l = 0
      /\ \A k \in P : k <= l
  BY <1>2, <1>3, LastPlaceIs
<1> HIDE DEF l
<1>7. Len(PrefixSent) = l
  <2>1. \A k \in 1 .. l : request[k] \in S
    BY <1>1, <1>6
  <2>2. Len(SubSeq(request, 1, l)) = l
    BY <1>1, <1>2, <1>6, <2>1
  <2> QED BY <1>4, <2>2
<1>8. ASSUME l > 0 PROVE UserEnds(request, l)
  <2>1. l \in 1 .. Len(request) /\ l \in P
    BY <1>2, <1>6, <1>8
  <2>2. request[l].role = "user"
    BY <1>5, <2>1
  <2>3. EndsWell(request[l].content)
    BY <2>1, <2>2 DEF AllSentFit, SentFits
  <2> DEFINE c == request[l].content
  <2>4. Len(c) \in Nat /\ LastCacheable(c) = Len(c)
    BY <2>3, EndIsCacheable
  <2>5. Len(c) > 0
    BY <2>3 DEF EndsWell
  <2>6. \A k \in 1 .. Len(request) : request[k].role = "user" => k <= l
    BY <1>5, <1>6
  <2> QED BY <2>1, <2>2, <2>4, <2>5, <2>6 DEF UserEnds
<1> QED BY <1>6, <1>7, <1>8

LEMMA MarksFollow == ASSUME MarksInv PROVE MarksReachTheEnd
<1> SUFFICES ASSUME Sent, conv.protocol = "anthropic",
                    Plan(PlannerInput(request), conv.cache).breakpoints # <<>>
             PROVE  LET prefix == Cardinality(marks.tools) + Cardinality(marks.system)
                        lastInput == Len(PrefixSent)
                    IN  /\ prefix + Cardinality(marks.messages) <= MaxBreakpoints(conv.cache)
                        /\ prefix < MaxBreakpoints(conv.cache) /\ lastInput > 0
                             => <<lastInput, Len(request[lastInput].content)>> \in marks.messages
  BY Zenon DEF MarksReachTheEnd
<1> DEFINE req == PlannerInput(request)
           cfg == conv.cache
           plan == Plan(req, cfg)
<1>1. AllSentFit(request) /\ marks = Marks(req, plan) /\ cfg.maxBreakpoints \in Int
  BY CachesAssumption DEF MarksInv, Sent
<1>2. req.messages = request
  BY PlannerInputIs
<1>3. plan.breakpoints = Breakpoints(req, cfg)
  BY PlanIs
<1>4. MaxBreakpoints(cfg) \in Nat
  BY <1>1 DEF MaxBreakpoints
<1> HIDE DEF req, plan, cfg
<1>5. IsSeq(req.messages)
  BY <1>1, <1>2 DEF AllSentFit
<1>6. PICK t, y : PointsFit(plan.breakpoints, t, y, req, cfg)
  BY <1>1, <1>3, <1>5, BreakpointsFit
<1>7. /\ Cardinality(marks.tools) = t
      /\ Cardinality(marks.system) = y
      /\ Cardinality(marks.messages) \in Nat
      /\ Cardinality(marks.messages) <= Len(plan.breakpoints) - t - y
      /\ \A l : UserEnds(req.messages, l) /\ t + y < MaxBreakpoints(cfg) =>
           <<l, Len(req.messages[l].content)>> \in marks.messages
  BY <1>1, <1>5, <1>6, MarksOfPoints
<1>8. t \in Nat /\ y \in Nat /\ Len(plan.breakpoints) \in Nat /\ Len(plan.breakpoints) <= MaxBreakpoints(cfg)
  BY <1>6 DEF PointsFit
<1>9. t + y + Cardinality(marks.messages) <= MaxBreakpoints(cfg)
  BY <1>4, <1>7, <1>8
<1>10. ASSUME t + y < MaxBreakpoints(cfg), Len(PrefixSent) > 0
       PROVE  <<Len(PrefixSent), Len(request[Len(PrefixSent)].content)>> \in marks.messages
  BY <1>1, <1>2, <1>7, <1>10, LastOfClient
<1> QED BY <1>7, <1>9, <1>10 DEF cfg

-----------------------------------------------------------------------------
(* The steps keep it.                                                      *)

LEMMA UserKeepsMarks == ASSUME MarksInv, UserSays PROVE MarksInv'
<1>1. PICK c \in DOMAIN UserContents :
        LET content == UserContents[c]
            parts == [k \in DOMAIN content |-> UserBlock(turn + 1, k, content[k])]
            developer == IF turn = 0
                         THEN <<[type |-> "message", role |-> "developer", content |-> <<Text(<<0, "developer">>)>>]>>
                         ELSE <<>>
        IN  history' = history \o developer \o <<[type |-> "message", role |-> "user", content |-> parts]>>
  <2>1. 1 \in DOMAIN UserContents
    BY ContentsAssumption DEF IsList
  <2> QED BY <2>1, Zenon DEF UserSays
<1> DEFINE content == UserContents[c]
           parts == [k \in DOMAIN content |-> UserBlock(turn + 1, k, content[k])]
           instructed == [type |-> "message", role |-> "developer", content |-> <<Text(<<0, "developer">>)>>]
           developer == IF turn = 0 THEN <<instructed>> ELSE <<>>
           message == [type |-> "message", role |-> "user", content |-> parts]
<1>2. content \in Seq({"text", "image", "empty"})
  BY ContentsAssumption
<1>3. Len(content) \in Nat /\ DOMAIN content = 1 .. Len(content)
  BY <1>2
<1>4. \A k \in DOMAIN content : parts[k].type \in {"text", "image"}
  BY DEF UserBlock, Text, Image
<1>5. parts = [k \in 1 .. Len(content) |-> parts[k]]
  BY <1>3
<1>6. history' = history \o developer \o <<message>>
  BY <1>1
<1>7. message.content = parts
  OBVIOUS
<1> HIDE DEF parts
<1>8. IsSeq(parts) /\ Len(parts) = Len(content)
  BY <1>3, <1>5, ListMade
<1>9. UserParts(parts)
  BY <1>3, <1>4, <1>8 DEF UserParts
<1>10. ItemFits(message)
  BY <1>7, <1>9 DEF ItemFits
<1>11. instructed.type = "message" /\ instructed.role = "developer"
  OBVIOUS
<1> HIDE DEF instructed, message
<1>12. ItemFits(instructed)
  BY <1>11 DEF ItemFits
<1>13. ItemsFit(developer) /\ ItemsFit(<<message>>)
  BY <1>10, <1>12, NoItemsFit, OneItemFits
<1> HIDE DEF developer
<1>14. ItemsFit(history \o developer)
  BY <1>13, ItemsTogether DEF MarksInv
<1>15. ItemsFit(history')
  BY <1>6, <1>13, <1>14, ItemsTogether
<1>16. conv' = conv /\ phase' = "ready"
  BY DEF UserSays
<1>17. ConversationInv'
  BY UserKeepsPairs DEF MarksInv
<1> QED BY <1>15, <1>16, <1>17 DEF MarksInv

LEMMA ToolsKeepMarks == ASSUME MarksInv, ToolsRun PROVE MarksInv'
<1>1. PICK order \in SetToSeqs(DOMAIN OpenCalls) :
        LET ran(k) == [type |-> OutputType(OpenCalls[order[k]].type), id |-> OpenCalls[order[k]].id,
                          text |-> <<turn + 1, "r", order[k]>>]
        IN  history' = history \o [k \in DOMAIN order |-> ran(k)]
  BY Zenon DEF ToolsRun
<1> DEFINE ran(k) == [type |-> OutputType(OpenCalls[order[k]].type), id |-> OpenCalls[order[k]].id,
                         text |-> <<turn + 1, "r", order[k]>>]
           outputs == [k \in DOMAIN order |-> ran(k)]
           m == Cardinality(DOMAIN OpenCalls)
<1>2. history' = history \o outputs
  BY <1>1
<1>3. order \in [1 .. m -> DOMAIN OpenCalls]
  BY DEF SetToSeqs
<1>4. m \in Nat
  <2>1. PICK S : OpenCalls \in Seq(S)
    BY OpenCallsTyped DEF MarksInv, ConversationInv, IsSeq
  <2>2. DOMAIN OpenCalls = 1 .. Len(OpenCalls) /\ Len(OpenCalls) \in Nat
    BY <2>1
  <2>3. IsFiniteSet(DOMAIN OpenCalls)
    BY <2>2, FS_Interval
  <2> QED BY <2>3, FS_CardinalityType
<1>5. DOMAIN order = 1 .. m
  BY <1>3
<1>6. \A k \in 1 .. m : outputs[k].type = OutputType(OpenCalls[order[k]].type)
  BY <1>5
<1>7. \A type : OutputType(type) \in OutputTypes
  BY DEF OutputType, OutputTypes
<1>8. outputs = [k \in 1 .. m |-> outputs[k]]
  BY <1>5
<1> HIDE DEF outputs, m
<1>9. IsSeq(outputs) /\ Len(outputs) = m
  BY <1>4, <1>8, ListMade
<1>10. \A k \in 1 .. m : ItemFits(outputs[k])
  BY <1>6, <1>7 DEF ItemFits
<1>11. ItemsFit(outputs)
  BY <1>9, <1>10 DEF ItemsFit
<1>12. ItemsFit(history')
  BY <1>2, <1>11, ItemsTogether DEF MarksInv
<1>13. conv' = conv /\ phase' = "ready"
  BY DEF ToolsRun
<1>14. ConversationInv'
  BY ToolsKeepPairs DEF MarksInv
<1> QED BY <1>12, <1>13, <1>14 DEF MarksInv

LEMMA CoreKeepsMarks == ASSUME MarksInv, ToCoreRequest PROVE MarksInv'
<1> DEFINE input == ConvertInput(history, conv.reasoningModel)
<1>1. MessagesFit(input.messages)
  BY InputFits DEF MarksInv
<1>2. core' = [system |-> <<Instructions>> \o input.system, messages |-> input.messages]
  BY DEF ToCoreRequest
<1> HIDE DEF input
<1>3. MessagesFit(core'.messages)
  BY <1>1, <1>2
<1>4. phase' = "core" /\ UNCHANGED <<conv, history, said>>
  BY DEF ToCoreRequest
<1>5. ConversationInv'
  BY <1>4 DEF MarksInv, ConversationInv
<1> QED BY <1>3, <1>4, <1>5 DEF MarksInv

LEMMA RequestKeepsMarks == ASSUME MarksInv, FromCoreRequest PROVE MarksInv'
<1>1. phase = "core" /\ phase' = "sent" /\ UNCHANGED <<conv, history, core, said>>
  BY DEF FromCoreRequest
<1>2. MessagesFit(core.messages)
  BY <1>1 DEF MarksInv
<1>3. ConversationInv'
  BY <1>1 DEF MarksInv, ConversationInv
<1>4. ASSUME conv.protocol = "anthropic"
      PROVE  /\ AllSentFit(request')
             /\ marks' = Marks(PlannerInput(request'), Plan(PlannerInput(request'), conv.cache))
  <2>1. request' = AnthropicMessages(core.messages)
    BY <1>4 DEF FromCoreRequest
  <2>2. marks' = LET req == PlannerInput(request') IN Marks(req, Plan(req, conv.cache))
    BY <1>4 DEF FromCoreRequest
  <2> QED BY <1>2, <2>1, <2>2, RequestFits
<1>5. PlannerInput(request)' = PlannerInput(request')
  BY <1>1 DEF PlannerInput
<1> QED BY <1>1, <1>3, <1>4, <1>5 DEF MarksInv

LEMMA ProviderKeepsMarks == ASSUME MarksInv, ProviderAnswers PROVE MarksInv'
<1>1. ConversationInv
  BY DEF MarksInv
<1>2. PICK blocks : /\ CallsTools(blocks)
                    /\ history' = history \o OutputItems(blocks, Tools)
                    /\ phase' \in {"tools", "user"}
  BY <1>1, ProviderAdds
<1>3. ItemsFit(OutputItems(blocks, Tools))
  BY <1>2, AnswerItemsFit
<1>4. ItemsFit(history')
  BY <1>2, <1>3, ItemsTogether DEF MarksInv
<1>5. conv' = conv
  BY DEF ProviderAnswers
<1>6. ConversationInv'
  BY <1>1, ProviderKeepsPairs
<1> QED BY <1>2, <1>4, <1>5, <1>6 DEF MarksInv

LEMMA MarksInvInit == ConversationInit => MarksInv
<1> SUFFICES ASSUME ConversationInit PROVE MarksInv
  OBVIOUS
<1>1. ConversationInv
  BY ConversationInvInit
<1>2. history = <<>> /\ phase = "user" /\ conv.cache \in CacheConfigs
  BY DEF ConversationInit
<1> QED BY <1>1, <1>2, NoItemsFit DEF MarksInv

\* The explicit marks on an Anthropic request stay within their number, and where tools and
\* system leave one over, the client's last message is marked at its end, whatever is said
\* and however long the conversation is (the planner of internal/protocol/cache/planner.go,
\* InjectCacheControl of internal/protocol/anthropic/cache.go, on what convertInput and
\* fromCoreRequest make of the history).
THEOREM MarksAlwaysReachTheEnd == ConversationSpec => []MarksReachTheEnd
<1>1. MarksInv /\ [ConversationNext]_conversationVars => MarksInv'
  <2> SUFFICES ASSUME MarksInv, [ConversationNext]_conversationVars PROVE MarksInv'
    OBVIOUS
  <2>1. CASE UserSays
    BY <2>1, UserKeepsMarks
  <2>2. CASE ToolsRun
    BY <2>2, ToolsKeepMarks
  <2>3. CASE ToCoreRequest
    BY <2>3, CoreKeepsMarks
  <2>4. CASE FromCoreRequest
    BY <2>4, RequestKeepsMarks
  <2>5. CASE ProviderAnswers
    BY <2>5, ProviderKeepsMarks
  <2>6. CASE UNCHANGED conversationVars
    BY <2>6 DEF conversationVars, MarksInv, ConversationInv, PlannerInput
  <2> QED BY <2>1, <2>2, <2>3, <2>4, <2>5, <2>6 DEF ConversationNext
<1>2. MarksInv => MarksReachTheEnd
  BY MarksFollow
<1> QED BY <1>1, <1>2, MarksInvInit, PTL DEF ConversationSpec

=============================================================================

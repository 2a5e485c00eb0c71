------------------------- MODULE StreamPipelineProofs -------------------------
(***************************************************************************)
(* What holds of a streamed answer for every capacity of the channels,     *)
(* every number of messages and every interleaving of the goroutines.      *)
(***************************************************************************)
EXTENDS StreamPipeline, SequenceTheorems, WellFoundedInduction, TLAPS

Statuses == {"open", "returning", "closed"}

\* What is in whose hands: the anthropic converter reads the body itself, and
\* between its look at the context and its read it holds nothing; who has
\* returned holds nothing to read on.
HandsFit ==
    /\ polled => protocol = "anthropic" /\ status["converter"] = "open" /\ hand["converter"] = <<>>
    /\ protocol = "anthropic" => chunks = <<>> /\ hand["reader"] = <<>>
    /\ hand["reader"] # <<>> => status["reader"] = "open"

\* What the chat converter has not taken yet.
Unread == (chunks \o hand["reader"]) \o wire

\* As long as the context is alive, nothing comes behind the last message of a
\* chat answer.
EndsAtFinal(u) == \A i \in 1 .. Len(u) : u[i] # Error /\ (u[i] = Final => i = Len(u))
HasNoFinal(u) == \A i \in 1 .. Len(u) : u[i] # Error /\ u[i] # Final
FinalIsLastRead ==
    protocol = "chat" /\ ~cancelled =>
        /\ EndsAtFinal(Unread)
        /\ upstream = "content" => HasNoFinal(Unread) /\ ~finalUsage
        /\ finalUsage => Unread = <<>>

-----------------------------------------------------------------------------
(* Messages and hands.                                                     *)

\* The last message and the error are no contents, and all are numbers.
LEMMA MessageFacts ==
    /\ Contents \subseteq Messages
    /\ Final \in Messages /\ Error \in Messages
    /\ Final \notin Contents /\ Error \notin Contents /\ Final # Error
    /\ Completed = Final /\ Failed = Error
    /\ \A m \in Messages : m \in Contents \/ m = Final \/ m = Error
BY MaxMessagesAssumption DEF Messages, Contents, Final, Error, Completed, Failed

\* A hand is a sequence of at most one message.
LEMMA HandFacts ==
    ASSUME NEW h \in Hands
    PROVE  /\ h \in Seq(Messages)
           /\ h = <<>> \/ \E m \in Messages : h = <<m>> /\ Len(h) = 1
<1>1. CASE h = <<>>
  BY <1>1, EmptySeq
<1>2. CASE h # <<>>
  <2>1. PICK m \in Messages : h = <<m>>
    BY <1>2 DEF Hands
  <2>2. <<m>> \in Seq(Messages) /\ Len(<<m>>) = 1
    OBVIOUS
  <2> QED
    BY <2>1, <2>2
<1> QED
  BY <1>1, <1>2

\* What a message says is a sequence of contents, and fits into a hand.
LEMMA ContentFacts ==
    ASSUME NEW m \in Messages
    PROVE  /\ ContentOf(m) \in Seq(Contents)
           /\ ContentOf(m) \in Seq(Messages)
           /\ ContentOf(m) \in Hands
BY MessageFacts DEF ContentOf, Hands

-----------------------------------------------------------------------------
(* Sequences.                                                              *)

\* Concatenation is associative, and the empty sequence is its unit.
LEMMA Concatenation ==
    ASSUME NEW S, NEW s \in Seq(S), NEW t \in Seq(S), NEW u \in Seq(S)
    PROVE  /\ s \o t \in Seq(S)
           /\ (s \o t) \o u = s \o (t \o u)
           /\ s \o <<>> = s
           /\ <<>> \o s = s
BY ConcatProperties, ConcatAssociative, ConcatEmptySeq

\* A sequence that is not empty is its head and its tail.
LEMMA HeadAndTail ==
    ASSUME NEW S, NEW s \in Seq(S), s # <<>>
    PROVE  /\ Head(s) \in S
           /\ Tail(s) \in Seq(S)
           /\ Len(Tail(s)) = Len(s) - 1
           /\ Len(s) \in Nat \ {0}
           /\ <<Head(s)>> \o Tail(s) = s
<1>1. /\ Head(s) \in S /\ Tail(s) \in Seq(S) /\ Len(Tail(s)) = Len(s) - 1
      /\ \A i \in 1 .. Len(Tail(s)) : Tail(s)[i] = s[i + 1]
  BY HeadTailProperties
<1>2. Len(s) \in Nat \ {0}
  BY EmptySeq
<1>3. Head(s) = s[1]
  OBVIOUS
<1>4. <<Head(s)>> \in Seq(S) /\ Len(<<Head(s)>>) = 1 /\ <<Head(s)>>[1] = s[1]
  BY <1>1, <1>3
<1> DEFINE c == <<Head(s)>> \o Tail(s)
<1>5. /\ c \in Seq(S) /\ Len(c) = Len(s)
      /\ \A i \in 1 .. Len(s) : c[i] = IF i <= 1 THEN <<Head(s)>>[i] ELSE Tail(s)[i - 1]
  BY <1>1, <1>2, <1>4, ConcatProperties
<1>6. \A i \in 1 .. Len(s) : c[i] = s[i]
  BY <1>1, <1>2, <1>4, <1>5
<1>7. c = s
  BY <1>5, <1>6, SeqEqual
<1> QED
  BY <1>1, <1>2, <1>7

\* A sequence without elements is the empty one.
LEMMA NoElements ==
    ASSUME NEW S, NEW s \in Seq(S), Len(s) = 0
    PROVE  s = <<>>
BY EmptySeq

\* A sequence is followed by one that got longer.
LEMMA AddedBehind ==
    ASSUME NEW S, NEW s \in Seq(S), NEW t \in Seq(S), NEW m \in S
    PROVE  s \o Append(t, m) = Append(s \o t, m)
<1>1. <<m>> \in Seq(S) /\ s \o t \in Seq(S)
  BY ConcatProperties
<1>2. s \o (t \o <<m>>) = (s \o t) \o <<m>>
  BY <1>1, ConcatAssociative
<1> QED
  BY <1>1, <1>2, AppendIsConcat

\* A sequence is followed by one that lost its end.
LEMMA CutBehind ==
    ASSUME NEW S, NEW s \in Seq(S), NEW t \in Seq(S), NEW n \in 0 .. Len(t)
    PROVE  LET v == s \o SubSeq(t, 1, n)
           IN  /\ v \in Seq(S)
               /\ Len(v) <= Len(s \o t)
               /\ \A i \in 1 .. Len(v) : v[i] = (s \o t)[i]
               /\ s \o t = <<>> => v = <<>>
<1> DEFINE c == SubSeq(t, 1, n)
           v == s \o c
           u == s \o t
<1>1. n \in Nat /\ Len(t) \in Nat /\ Len(s) \in Nat /\ n <= Len(t)
  BY LenProperties
<1>2. \A i \in 1 .. n : t[i] \in S
  BY <1>1, ElementOfSeq
<1>3. c \in Seq(S) /\ Len(c) = n /\ \A i \in 1 .. n : c[i] = t[i]
  BY <1>1, <1>2, SubSeqProperties
<1> HIDE DEF c
<1>4. /\ v \in Seq(S) /\ Len(v) = Len(s) + n
      /\ \A i \in 1 .. Len(s) + n : v[i] = IF i <= Len(s) THEN s[i] ELSE c[i - Len(s)]
  BY <1>1, <1>3, ConcatProperties
<1>5. /\ u \in Seq(S) /\ Len(u) = Len(s) + Len(t)
      /\ \A i \in 1 .. Len(s) + Len(t) : u[i] = IF i <= Len(s) THEN s[i] ELSE t[i - Len(s)]
  BY <1>1, ConcatProperties
<1> HIDE DEF u, v
<1>6. Len(v) <= Len(u)
  BY <1>1, <1>4, <1>5
<1>7. ASSUME NEW i \in 1 .. Len(v) PROVE v[i] = u[i]
  <2>1. i \in 1 .. Len(s) + n /\ i \in 1 .. Len(s) + Len(t)
    BY <1>1, <1>4
  <2>2. CASE i <= Len(s)
    BY <1>4, <1>5, <2>1, <2>2
  <2>3. CASE ~(i <= Len(s))
    <3>1. i - Len(s) \in 1 .. n
      BY <1>1, <2>1, <2>3
    <3> QED
      BY <1>3, <1>4, <1>5, <2>1, <2>3, <3>1
  <2> QED
    BY <2>2, <2>3
<1>8. u = <<>> => v = <<>>
  <2>1. u = <<>> => Len(u) = 0
    BY EmptySeq
  <2>2. Len(u) = 0 => Len(v) = 0
    BY <1>1, <1>4, <1>5
  <2> QED
    BY <1>4, <2>1, <2>2, NoElements
<1> QED
  BY <1>4, <1>6, <1>7, <1>8 DEF u, v, c

\* The first message of a sequence that is followed by another.
LEMMA FirstOfBoth ==
    ASSUME NEW S, NEW s \in Seq(S), NEW t \in Seq(S), s # <<>>
    PROVE  /\ s \o t # <<>>
           /\ Head(s \o t) = Head(s)
           /\ Tail(s \o t) = Tail(s) \o t
<1>1. /\ Head(s) \in S /\ Tail(s) \in Seq(S) /\ Len(Tail(s)) = Len(s) - 1
      /\ \A i \in 1 .. Len(Tail(s)) : Tail(s)[i] = s[i + 1]
  BY HeadTailProperties
<1>2. Len(s) \in Nat \ {0} /\ Len(t) \in Nat
  BY EmptySeq, LenProperties
<1> DEFINE u == s \o t
           v == Tail(s) \o t
<1>3. /\ u \in Seq(S) /\ Len(u) = Len(s) + Len(t)
      /\ \A i \in 1 .. Len(s) + Len(t) : u[i] = IF i <= Len(s) THEN s[i] ELSE t[i - Len(s)]
  BY ConcatProperties
<1>4. /\ v \in Seq(S) /\ Len(v) = Len(s) - 1 + Len(t)
      /\ \A i \in 1 .. Len(s) - 1 + Len(t) :
            v[i] = IF i <= Len(s) - 1 THEN Tail(s)[i] ELSE t[i - (Len(s) - 1)]
  BY <1>1, ConcatProperties
<1> HIDE DEF u, v
<1>5. u # <<>>
  <2>1. Len(u) # 0
    BY <1>2, <1>3
  <2> QED
    BY <2>1, EmptySeq
<1>6. /\ Tail(u) \in Seq(S) /\ Len(Tail(u)) = Len(u) - 1
      /\ \A i \in 1 .. Len(Tail(u)) : Tail(u)[i] = u[i + 1]
  BY <1>3, <1>5, HeadTailProperties
<1>7. Head(u) = u[1] /\ Head(s) = s[1]
  BY <1>5
<1>8. u[1] = s[1]
  BY <1>2, <1>3
<1>9. ASSUME NEW i \in 1 .. Len(v) PROVE v[i] = Tail(u)[i]
  <2>1. i + 1 \in 1 .. Len(s) + Len(t) /\ i \in 1 .. Len(Tail(u))
    BY <1>2, <1>3, <1>4, <1>6
  <2>2. Tail(u)[i] = IF i + 1 <= Len(s) THEN s[i + 1] ELSE t[(i + 1) - Len(s)]
    BY <1>3, <1>6, <2>1
  <2>3. v[i] = IF i <= Len(s) - 1 THEN Tail(s)[i] ELSE t[i - (Len(s) - 1)]
    BY <1>2, <1>4
  <2>4. i <= Len(s) - 1 => Tail(s)[i] = s[i + 1]
    BY <1>1, <1>2
  <2>5. i \in Nat /\ (i + 1) - Len(s) = i - (Len(s) - 1)
    BY <1>2, <2>1
  <2>6. CASE i <= Len(s) - 1
    <3>1. i + 1 <= Len(s)
      BY <1>2, <2>5, <2>6
    <3> QED
      BY <2>2, <2>3, <2>4, <2>6, <3>1
  <2>7. CASE ~(i <= Len(s) - 1)
    <3>1. ~(i + 1 <= Len(s))
      BY <1>2, <2>5, <2>7
    <3>2. Tail(u)[i] = t[(i + 1) - Len(s)] /\ v[i] = t[i - (Len(s) - 1)]
      BY <2>2, <2>3, <2>7, <3>1
    <3> QED
      BY <2>5, <3>2
  <2> QED
    BY <2>6, <2>7
<1>10. v = Tail(u)
  BY <1>2, <1>3, <1>4, <1>6, <1>9, SeqEqual
<1> QED
  BY <1>5, <1>7, <1>8, <1>10 DEF u, v

\* A message moves from the front of a channel into the hand before it.
LEMMA TakeFromFront ==
    ASSUME NEW S, NEW s \in Seq(S), NEW t \in Seq(S), t # <<>>
    PROVE  (s \o <<Head(t)>>) \o Tail(t) = (s \o <<>>) \o t
<1>1. /\ Head(t) \in S /\ Tail(t) \in Seq(S) /\ <<Head(t)>> \o Tail(t) = t
  BY HeadAndTail
<1>2. <<Head(t)>> \in Seq(S)
  BY <1>1
<1>3. (s \o <<Head(t)>>) \o Tail(t) = s \o (<<Head(t)>> \o Tail(t))
  BY <1>1, <1>2, ConcatAssociative
<1> QED
  BY <1>1, <1>3, ConcatEmptySeq

\* A message moves from a hand to the end of the channel before it.
LEMMA PassOn ==
    ASSUME NEW S, NEW s \in Seq(S), NEW t \in Seq(S), NEW h \in Seq(S)
    PROVE  (s \o (t \o h)) \o <<>> = (s \o t) \o h
<1> DEFINE u == s \o t
           v == s \o (t \o h)
<1>1. t \o h \in Seq(S) /\ u \in Seq(S)
  BY ConcatProperties
<1>2. v \in Seq(S)
  BY <1>1, ConcatProperties
<1>3. u \o h = v
  BY ConcatAssociative, SMTT(40)
<1> HIDE DEF v
<1>4. v \o <<>> = v
  BY <1>2, ConcatEmptySeq
<1> QED BY <1>3, <1>4, Zenon DEF v

\* A message is read behind all others.
LEMMA ReadLast ==
    ASSUME NEW S, NEW s \in Seq(S), NEW t \in Seq(S), NEW m \in S
    PROVE  s \o (t \o <<m>>) = Append(s \o (t \o <<>>), m)
<1>1. <<m>> \in Seq(S) /\ s \o t \in Seq(S) /\ t \o <<>> = t
  BY ConcatProperties, ConcatEmptySeq
<1>2. s \o (t \o <<m>>) = (s \o t) \o <<m>>
  BY <1>1, ConcatAssociative
<1> QED
  BY <1>1, <1>2, AppendIsConcat
-----------------------------------------------------------------------------
(* Types.                                                                  *)

LEMMA InitTypes == Init => TypeOK
<1> SUFFICES ASSUME Init PROVE TypeOK
  OBVIOUS
<1>1. /\ <<>> \in Seq(Messages) /\ <<>> \in Seq(Contents) /\ Len(<<>>) = 0
  BY EmptySeq
<1>2. [g \in Goroutines |-> <<>>] \in [Goroutines -> Hands]
  BY DEF Hands
<1>3. /\ 0 \in 0 .. MaxMessages /\ 0 <= ChanCap
  BY MaxMessagesAssumption, ChanCapAssumption
<1> QED
  BY <1>1, <1>2, <1>3 DEF Init, TypeOK

\* The upstream appends to what has arrived or takes its end away.
LEMMA UpstreamTypes ==
    TypeOK /\ (UpstreamSends \/ UpstreamFinishes \/ UpstreamCloses \/ UpstreamBreaks) => TypeOK'
<1> SUFFICES ASSUME TypeOK,
                    UpstreamSends \/ UpstreamFinishes \/ UpstreamCloses \/ UpstreamBreaks
             PROVE  TypeOK'
  OBVIOUS
<1>1. wire' \in Seq(Messages) /\ sent' \in 0 .. MaxMessages
  <2>1. CASE UpstreamSends
    <3>1. sent + 1 \in Messages /\ sent + 1 \in 0 .. MaxMessages
      BY <2>1, MaxMessagesAssumption DEF TypeOK, UpstreamSends, Messages, Contents
    <3> QED
      BY <2>1, <3>1, AppendProperties DEF TypeOK, UpstreamSends
  <2>2. CASE UpstreamFinishes
    <3>1. PICK m \in {Final, Error} : wire' = Append(wire, m)
      BY <2>2 DEF UpstreamFinishes
    <3> QED
      BY <2>2, <3>1, MessageFacts, AppendProperties DEF TypeOK, UpstreamFinishes
  <2>3. CASE UpstreamCloses
    BY <2>3 DEF TypeOK, UpstreamCloses
  <2>4. CASE UpstreamBreaks
    <3>1. PICK n \in 0 .. Len(wire) : wire' = SubSeq(wire, 1, n)
      BY <2>4 DEF UpstreamBreaks
    <3>2. n \in Int /\ \A i \in 1 .. n : wire[i] \in Messages
      BY <3>1, LenProperties, ElementOfSeq DEF TypeOK
    <3> QED
      BY <2>4, <3>1, <3>2, SubSeqProperties DEF TypeOK, UpstreamBreaks
  <2> QED
    BY <2>1, <2>2, <2>3, <2>4
<1>2. upstream' \in {"content", "final", "eof", "broken"}
  BY DEF TypeOK, UpstreamSends, UpstreamFinishes, UpstreamCloses, UpstreamBreaks
<1>3. upstreamFrame
  BY DEF UpstreamSends, UpstreamFinishes, UpstreamCloses, UpstreamBreaks
<1> QED
  BY <1>1, <1>2, <1>3 DEF TypeOK, upstreamFrame

LEMMA ClientTypes == TypeOK /\ (ClientLeaves \/ NoticeGone) => TypeOK'
BY DEF TypeOK, ClientLeaves, NoticeGone, clientFrame

\* A hand that is emptied or filled.
LEMMA HandSet ==
    ASSUME TypeOK, NEW g \in Goroutines, NEW h \in Hands
    PROVE  [hand EXCEPT ![g] = h] \in [Goroutines -> Hands]
BY DEF TypeOK

LEMMA ReaderTypes == TypeOK /\ Reader => TypeOK'
<1> SUFFICES ASSUME TypeOK, Reader PROVE TypeOK'
  OBVIOUS
<1> "reader" \in Goroutines /\ <<>> \in Hands
  BY DEF Goroutines, Hands
<1>1. CASE ReaderScans
  <2>1. Head(wire) \in Messages /\ wire' \in Seq(Messages)
    BY <1>1, HeadAndTail DEF TypeOK, ReaderScans
  <2>2. <<Head(wire)>> \in Hands
    BY <2>1 DEF Hands
  <2>3. hand' \in [Goroutines -> Hands]
    BY <1>1, <2>2, HandSet DEF ReaderScans
  <2>4. produced' \in Seq(Messages)
    BY <1>1, <2>1, AppendProperties DEF TypeOK, ReaderScans
  <2> QED
    BY <1>1, <2>1, <2>3, <2>4 DEF TypeOK, ReaderScans, readerFrame
<1>2. CASE ReaderEnds
  BY <1>2 DEF TypeOK, ReaderEnds, readerFrame
<1>3. CASE ReaderOffers
  <2>1. hand' \in [Goroutines -> Hands]
    BY <1>3, HandSet DEF ReaderOffers
  <2>2. PICK m \in Messages : hand["reader"] = <<m>> /\ Len(hand["reader"]) = 1
    BY <1>3, HandFacts DEF TypeOK, ReaderOffers
  <2>3. /\ chunks' \in Seq(Messages)
        /\ Len(chunks') = Len(chunks) + 1
        /\ Len(chunks) \in Nat
    BY <1>3, <2>2, HandFacts, ConcatProperties, LenProperties DEF TypeOK, ReaderOffers
  <2>4. Len(chunks') <= ChanCap
    BY <1>3, <2>3, ChanCapAssumption DEF ReaderOffers
  <2> QED
    BY <1>3, <2>1, <2>3, <2>4 DEF TypeOK, ReaderOffers, readerFrame
<1>4. CASE ReaderGivesUp
  <2>1. hand' \in [Goroutines -> Hands]
    BY <1>4, HandSet DEF ReaderGivesUp
  <2> QED
    BY <1>4, <2>1 DEF TypeOK, ReaderGivesUp, readerFrame
<1> QED
  BY <1>1, <1>2, <1>3, <1>4 DEF Reader

LEMMA LoopTypes == TypeOK /\ Loop => TypeOK'
<1> SUFFICES ASSUME TypeOK, Loop PROVE TypeOK'
  OBVIOUS
<1>1. CASE LoopReceives
  <2>1. /\ Head(events) \in Messages /\ events' \in Seq(Messages)
        /\ Len(events') = Len(events) - 1 /\ Len(events) \in Nat \ {0}
    BY <1>1, HeadAndTail DEF TypeOK, LoopReceives
  <2>2. Len(events') <= ChanCap
    BY <2>1, ChanCapAssumption DEF TypeOK
  <2>3. <<Head(events)>> \in Hands /\ "loop" \in Goroutines
    BY <2>1 DEF Hands, Goroutines
  <2>4. hand' \in [Goroutines -> Hands]
    BY <1>1, <2>3, HandSet DEF LoopReceives
  <2>5. response' \in Seq(Contents)
    BY <1>1, <2>1, ContentFacts, ConcatProperties DEF TypeOK, LoopReceives
  <2> QED
    BY <1>1, <2>1, <2>2, <2>4, <2>5 DEF TypeOK, LoopReceives, loopFrame
<1>2. CASE LoopCloses
  BY <1>2 DEF TypeOK, LoopCloses, loopFrame
<1> QED
  BY <1>1, <1>2 DEF Loop

LEMMA HandlerTypes == TypeOK /\ Handler => TypeOK'
<1> SUFFICES ASSUME TypeOK, Handler PROVE TypeOK'
  OBVIOUS
<1> "handler" \in Goroutines /\ "loop" \in Goroutines /\ <<>> \in Hands
  BY DEF Goroutines, Hands
<1>1. CASE HandlerReceives
  <2>1. hand' \in [Goroutines -> Hands]
    BY <1>1 DEF TypeOK, HandlerReceives
  <2>2. final' = <<>> \/ (Len(final') = 1 /\ final'[1] \in Seq(Contents))
    BY <1>1 DEF TypeOK, HandlerReceives
  <2> QED
    BY <1>1, <2>1, <2>2 DEF TypeOK, HandlerReceives, handlerFrame
<1>2. CASE HandlerWrites
  <2>1. hand' \in [Goroutines -> Hands]
    BY <1>2, HandSet DEF HandlerWrites
  <2>2. written' \in Seq(Messages)
    BY <1>2, HandFacts, ConcatProperties DEF TypeOK, HandlerWrites
  <2> QED
    BY <1>2, <2>1, <2>2 DEF TypeOK, HandlerWrites, handlerFrame
<1>3. CASE HandlerWriteFails
  <2>1. hand' \in [Goroutines -> Hands]
    BY <1>3, HandSet DEF HandlerWriteFails
  <2> QED
    BY <1>3, <2>1 DEF TypeOK, HandlerWriteFails, handlerFrame
<1>4. CASE HandlerRangeEnds
  BY <1>4 DEF TypeOK, HandlerRangeEnds, handlerFrame
<1>5. CASE HandlerReturns
  BY <1>5 DEF TypeOK, HandlerReturns, handlerFrame
<1> QED
  BY <1>1, <1>2, <1>3, <1>4, <1>5 DEF Handler

LEMMA ConverterTypes == TypeOK /\ Converter => TypeOK'
<1> SUFFICES ASSUME TypeOK, Converter PROVE TypeOK'
  OBVIOUS
<1> "converter" \in Goroutines /\ <<>> \in Hands
  BY DEF Goroutines, Hands
<1> \A m \in Messages : <<m>> \in Hands
  BY DEF Hands
<1>1. CASE ConverterCancelled
  BY <1>1 DEF TypeOK, ConverterCancelled, CloseConverter, converterFrame
<1>2. CASE AnthropicPolls
  BY <1>2 DEF TypeOK, AnthropicPolls, converterFrame
<1>3. CASE AnthropicNext
  <2>1. Head(wire) \in Messages /\ wire' \in Seq(Messages)
    BY <1>3, HeadAndTail DEF TypeOK, AnthropicNext
  <2>2. hand' \in [Goroutines -> Hands]
    BY <1>3, <2>1, HandSet DEF AnthropicNext, Emits
  <2>3. produced' \in Seq(Messages)
    BY <1>3, <2>1, AppendProperties DEF TypeOK, AnthropicNext
  <2>4. finalUsage' \in BOOLEAN /\ status' \in [Goroutines -> Statuses]
    BY <1>3 DEF TypeOK, AnthropicNext, Emits, Statuses
  <2> QED
    BY <1>3, <2>1, <2>2, <2>3, <2>4 DEF TypeOK, AnthropicNext, converterFrame, Statuses
<1>4. CASE AnthropicNextFails
  <2>1. hand' \in [Goroutines -> Hands]
    BY <1>4, HandSet, MessageFacts DEF AnthropicNextFails, Emits
  <2>2. produced' \in Seq(Messages)
    BY <1>4, MessageFacts, AppendProperties DEF TypeOK, AnthropicNextFails
  <2>3. status' \in [Goroutines -> Statuses]
    BY <1>4 DEF TypeOK, AnthropicNextFails, Emits, Statuses
  <2> QED
    BY <1>4, <2>1, <2>2, <2>3 DEF TypeOK, AnthropicNextFails, converterFrame, Statuses
<1>5. CASE AnthropicNextEnds
  BY <1>5 DEF TypeOK, AnthropicNextEnds, converterFrame
<1>6. CASE ChatTakes
  <2>1. /\ Head(chunks) \in Messages /\ chunks' \in Seq(Messages)
        /\ Len(chunks') = Len(chunks) - 1 /\ Len(chunks) \in Nat \ {0}
    BY <1>6, HeadAndTail DEF TypeOK, ChatTakes
  <2>2. Len(chunks') <= ChanCap
    BY <2>1, ChanCapAssumption DEF TypeOK
  <2>3. hand' \in [Goroutines -> Hands]
    BY <1>6, <2>1, ContentFacts, HandSet DEF ChatTakes
  <2>4. finalUsage' \in BOOLEAN
    BY <1>6 DEF TypeOK, ChatTakes
  <2> QED
    BY <1>6, <2>1, <2>2, <2>3, <2>4 DEF TypeOK, ChatTakes, converterFrame
<1>7. CASE ChatCompletes
  <2>1. hand' \in [Goroutines -> Hands]
    BY <1>7, HandSet, MessageFacts DEF ChatCompletes, Emits
  <2>2. produced' \in Seq(Messages)
    BY <1>7, MessageFacts, AppendProperties DEF TypeOK, ChatCompletes
  <2>3. status' \in [Goroutines -> Statuses]
    BY <1>7 DEF TypeOK, ChatCompletes, Emits, Statuses
  <2> QED
    BY <1>7, <2>1, <2>2, <2>3 DEF TypeOK, ChatCompletes, converterFrame, Statuses
<1>8. ASSUME ConverterPassedOn
      PROVE  hand' \in [Goroutines -> Hands] /\ status' \in [Goroutines -> Statuses]
  <2>1. hand' \in [Goroutines -> Hands]
    BY <1>8, HandSet DEF ConverterPassedOn
  <2>2. status' \in [Goroutines -> Statuses]
    BY <1>8 DEF TypeOK, ConverterPassedOn, Statuses
  <2> QED
    BY <2>1, <2>2
<1>9. CASE Emit
  <2>1. PICK m \in Messages : hand["converter"] = <<m>> /\ Len(hand["converter"]) = 1
    BY <1>9, HandFacts DEF TypeOK, Emit
  <2>2. events' \in Seq(Messages) /\ Len(events') = Len(events) + 1 /\ Len(events) \in Nat
    BY <1>9, <2>1, HandFacts, ConcatProperties, LenProperties DEF TypeOK, Emit
  <2>3. Len(events') <= ChanCap
    BY <1>9, <2>2, ChanCapAssumption DEF Emit
  <2> QED
    BY <1>8, <1>9, <2>2, <2>3 DEF TypeOK, Emit, ConverterPassedOn, converterFrame, Statuses
<1>10. CASE ChatEmitCancelled
  BY <1>8, <1>10 DEF TypeOK, ChatEmitCancelled, ConverterPassedOn, converterFrame, Statuses
<1> QED
  BY <1>1, <1>2, <1>3, <1>4, <1>5, <1>6, <1>7, <1>9, <1>10 DEF Converter

LEMMA TypesKept == TypeOK /\ [Next]_vars => TypeOK'
<1>1. TypeOK /\ UNCHANGED vars => TypeOK'
  BY DEF TypeOK, vars
<1> QED
  BY <1>1, UpstreamTypes, ClientTypes, ReaderTypes, ConverterTypes, LoopTypes, HandlerTypes
     DEF Next, Environment

\* Every variable keeps its type: no channel is ever over its capacity, and a
\* goroutine holds one event at most.
THEOREM TypeCorrect == Spec => []TypeOK
BY InitTypes, TypesKept, PTL DEF Spec

-----------------------------------------------------------------------------
(* Hands.                                                                  *)

LEMMA InitHands == Init => HandsFit
BY DEF Init, HandsFit, Goroutines

LEMMA HandsKept == TypeOK /\ HandsFit /\ [Next]_vars => HandsFit'
<1> SUFFICES ASSUME TypeOK, HandsFit, [Next]_vars PROVE HandsFit'
  OBVIOUS
<1> USE DEF HandsFit
<1> hand \in [Goroutines -> Hands] /\ status \in [Goroutines -> {"open", "returning", "closed"}]
  BY DEF TypeOK
<1> {"reader", "converter", "loop", "handler"} = Goroutines
  BY DEF Goroutines
<1>1. CASE UNCHANGED vars
  BY <1>1 DEF vars
<1>2. CASE Environment \/ NoticeGone
  BY <1>2 DEF Environment, UpstreamSends, UpstreamFinishes, UpstreamCloses, UpstreamBreaks,
              ClientLeaves, NoticeGone, upstreamFrame, clientFrame
<1>3. CASE ReaderScans
  BY <1>3 DEF ReaderScans, readerFrame
<1>4. CASE ReaderEnds
  BY <1>4 DEF ReaderEnds, readerFrame
<1>5. CASE ReaderOffers
  BY <1>5 DEF ReaderOffers, readerFrame
<1>6. CASE ReaderGivesUp
  BY <1>6 DEF ReaderGivesUp, readerFrame
<1>7. CASE ConverterCancelled
  BY <1>7 DEF ConverterCancelled, CloseConverter, converterFrame
<1>8. CASE AnthropicPolls
  BY <1>8 DEF AnthropicPolls, ConverterIdle, converterFrame
<1>9. CASE AnthropicNext
  BY <1>9 DEF AnthropicNext, Emits, converterFrame
<1>10. CASE AnthropicNextFails
  BY <1>10 DEF AnthropicNextFails, Emits, converterFrame
<1>11. CASE AnthropicNextEnds
  BY <1>11 DEF AnthropicNextEnds, converterFrame
<1>12. CASE ChatTakes
  BY <1>12 DEF ChatTakes, converterFrame
<1>13. CASE ChatCompletes
  BY <1>13 DEF ChatCompletes, Emits, converterFrame
<1>14. CASE Emit
  BY <1>14 DEF Emit, ConverterPassedOn, converterFrame
<1>15. CASE ChatEmitCancelled
  BY <1>15 DEF ChatEmitCancelled, ConverterPassedOn, converterFrame
<1>16. CASE Loop
  BY <1>16 DEF Loop, LoopReceives, LoopCloses, loopFrame
<1>17. CASE Handler
  BY <1>17 DEF Handler, HandlerReceives, HandlerWrites, HandlerWriteFails, HandlerRangeEnds,
               HandlerReturns, handlerFrame
<1> QED
  BY <1>1, <1>2, <1>3, <1>4, <1>5, <1>6, <1>7, <1>8, <1>9, <1>10, <1>11, <1>12, <1>13, <1>14,
     <1>15, <1>16, <1>17 DEF Next, Reader, Converter

-----------------------------------------------------------------------------
(* The last message.                                                       *)

LEMMA UnreadTyped ==
    ASSUME TypeOK
    PROVE  /\ chunks \in Seq(Messages) /\ hand["reader"] \in Seq(Messages) /\ wire \in Seq(Messages)
           /\ chunks \o hand["reader"] \in Seq(Messages)
           /\ Unread \in Seq(Messages)
<1>1. hand["reader"] \in Hands
  BY DEF TypeOK, Goroutines
<1> QED
  BY <1>1, HandFacts, ConcatProperties DEF TypeOK, Unread

\* Something is added at the end.
LEMMA EndAppended ==
    ASSUME NEW u \in Seq(Messages), HasNoFinal(u), NEW m \in Messages, m # Error
    PROVE  /\ EndsAtFinal(Append(u, m))
           /\ m # Final => HasNoFinal(Append(u, m))
BY AppendProperties DEF EndsAtFinal, HasNoFinal

\* Something is taken away at the end.
LEMMA EndShortened ==
    ASSUME NEW u \in Seq(Messages), NEW v \in Seq(Messages), Len(v) <= Len(u),
           \A i \in 1 .. Len(v) : v[i] = u[i], EndsAtFinal(u)
    PROVE  EndsAtFinal(v)
<1>1. Len(u) \in Nat /\ Len(v) \in Nat
  BY LenProperties
<1> QED
  BY <1>1 DEF EndsAtFinal

\* The first message is taken; if it is the last of all, none is left.
LEMMA EndTaken ==
    ASSUME NEW u \in Seq(Messages), u # <<>>, EndsAtFinal(u)
    PROVE  /\ EndsAtFinal(Tail(u))
           /\ HasNoFinal(u) => HasNoFinal(Tail(u)) /\ Head(u) # Final
           /\ Head(u) # Error
           /\ Head(u) = Final => Tail(u) = <<>>
<1>1. /\ Head(u) \in Messages /\ Tail(u) \in Seq(Messages) /\ Len(Tail(u)) = Len(u) - 1
      /\ \A i \in 1 .. Len(Tail(u)) : Tail(u)[i] = u[i + 1]
  BY HeadTailProperties
<1>2. Len(u) \in Nat \ {0} /\ 1 \in 1 .. Len(u)
  BY EmptySeq
<1>3. Head(u) = u[1]
  OBVIOUS
<1>4. ASSUME NEW i \in 1 .. Len(Tail(u))
      PROVE  /\ Tail(u)[i] # Error
             /\ Tail(u)[i] = Final => i = Len(Tail(u))
             /\ HasNoFinal(u) => Tail(u)[i] # Final
  <2>1. i + 1 \in 1 .. Len(u) /\ Tail(u)[i] = u[i + 1]
    BY <1>1, <1>2
  <2>2. u[i + 1] # Error /\ (u[i + 1] = Final => i + 1 = Len(u))
    BY <2>1 DEF EndsAtFinal
  <2>3. HasNoFinal(u) => u[i + 1] # Final
    BY <2>1 DEF HasNoFinal
  <2>4. i + 1 = Len(u) => i = Len(Tail(u))
    <3> DEFINE l == Len(u)
               k == Len(Tail(u))
    <3>1. k = l - 1 /\ l \in Nat
      BY <1>1, <1>2
    <3>2. i \in 1 .. k
      OBVIOUS
    <3> HIDE DEF l, k
    <3>3. i + 1 = l => i = k
      BY <3>1, <3>2
    <3> QED
      BY <3>3 DEF l, k
  <2> QED
    BY <2>1, <2>2, <2>3, <2>4
<1>5. EndsAtFinal(Tail(u)) /\ (HasNoFinal(u) => HasNoFinal(Tail(u)))
  BY <1>4 DEF EndsAtFinal, HasNoFinal
<1>6. u[1] # Error /\ (u[1] = Final => 1 = Len(u)) /\ (HasNoFinal(u) => u[1] # Final)
  BY <1>2 DEF EndsAtFinal, HasNoFinal
<1>7. Len(u) = 1 => Tail(u) = <<>>
  <2>1. Len(Tail(u)) = 0 => Tail(u) = <<>>
    BY <1>1, NoElements
  <2> QED
    BY <1>1, <2>1
<1> QED
  BY <1>3, <1>5, <1>6, <1>7

LEMMA InitFinal == Init => FinalIsLastRead
<1> SUFFICES ASSUME Init PROVE FinalIsLastRead
  OBVIOUS
<1>1. Unread = <<>>
  BY EmptySeq, ConcatEmptySeq DEF Init, Unread, Goroutines
<1> QED
  BY <1>1, EmptySeq DEF Init, FinalIsLastRead, EndsAtFinal, HasNoFinal

\* The upstream sends in order and stops after the last message.
LEMMA UpstreamFinal ==
    ASSUME TypeOK, FinalIsLastRead,
           UpstreamSends \/ UpstreamFinishes \/ UpstreamCloses \/ UpstreamBreaks
    PROVE  FinalIsLastRead'
<1> SUFFICES ASSUME protocol = "chat", ~cancelled PROVE FinalIsLastRead'
  BY DEF FinalIsLastRead, UpstreamSends, UpstreamFinishes, UpstreamCloses, UpstreamBreaks,
         upstreamFrame
<1>1. /\ EndsAtFinal(Unread)
      /\ upstream = "content" => HasNoFinal(Unread) /\ ~finalUsage
      /\ finalUsage => Unread = <<>>
  BY DEF FinalIsLastRead
<1> DEFINE held == chunks \o hand["reader"]
<1>2. /\ held \in Seq(Messages) /\ wire \in Seq(Messages) /\ Unread \in Seq(Messages)
      /\ Unread = held \o wire
  BY UnreadTyped DEF Unread
<1>3. finalUsage' = finalUsage /\ Unread' = held \o wire'
  BY DEF UpstreamSends, UpstreamFinishes, UpstreamCloses, UpstreamBreaks, upstreamFrame, Unread
<1> HIDE DEF held
<1>4. ASSUME NEW m \in Messages, wire' = Append(wire, m)
      PROVE  Unread' = Append(Unread, m)
  BY <1>2, <1>3, <1>4, AddedBehind
<1>5. CASE UpstreamSends
  <2>1. sent + 1 \in Contents
    BY <1>5, MaxMessagesAssumption DEF TypeOK, UpstreamSends, Contents
  <2>2. sent + 1 \in Messages /\ sent + 1 # Final /\ sent + 1 # Error
    BY <2>1, MessageFacts
  <2>3. Unread' = Append(Unread, sent + 1)
    BY <1>4, <1>5, <2>2 DEF UpstreamSends
  <2>4. EndsAtFinal(Unread') /\ HasNoFinal(Unread')
    BY <1>1, <1>2, <1>5, <2>2, <2>3, EndAppended DEF UpstreamSends
  <2> QED
    BY <1>1, <1>3, <1>5, <2>4 DEF FinalIsLastRead, UpstreamSends
<1>6. CASE UpstreamFinishes
  <2>1. Unread' = Append(Unread, Final)
    BY <1>4, <1>6, MessageFacts DEF UpstreamFinishes
  <2>2. EndsAtFinal(Unread')
    BY <1>1, <1>2, <1>6, <2>1, EndAppended, MessageFacts DEF UpstreamFinishes
  <2> QED
    BY <1>1, <1>3, <1>6, <2>2 DEF FinalIsLastRead, UpstreamFinishes
<1>7. CASE UpstreamCloses
  BY <1>1, <1>2, <1>3, <1>7 DEF FinalIsLastRead, UpstreamCloses
<1>8. CASE UpstreamBreaks
  <2>1. PICK n \in 0 .. Len(wire) : wire' = SubSeq(wire, 1, n)
    BY <1>8 DEF UpstreamBreaks
  <2>2. /\ Unread' \in Seq(Messages) /\ Len(Unread') <= Len(Unread)
        /\ \A i \in 1 .. Len(Unread') : Unread'[i] = Unread[i]
        /\ Unread = <<>> => Unread' = <<>>
    BY <1>2, <1>3, <2>1, CutBehind
  <2>3. EndsAtFinal(Unread')
    BY <1>1, <1>2, <2>2, EndShortened
  <2> QED
    BY <1>1, <1>3, <1>8, <2>2, <2>3 DEF FinalIsLastRead, UpstreamBreaks
<1> QED
  BY <1>5, <1>6, <1>7, <1>8

\* The reader moves messages and keeps their order.
LEMMA ReaderFinal ==
    ASSUME TypeOK, FinalIsLastRead, Reader
    PROVE  FinalIsLastRead'
<1> SUFFICES ASSUME protocol = "chat", ~cancelled PROVE FinalIsLastRead'
  BY DEF FinalIsLastRead, Reader, ReaderScans, ReaderEnds, ReaderOffers, ReaderGivesUp, readerFrame
<1> "reader" \in Goroutines /\ hand \in [Goroutines -> Hands]
  BY DEF TypeOK, Goroutines
<1>1. /\ chunks \in Seq(Messages) /\ hand["reader"] \in Seq(Messages) /\ wire \in Seq(Messages)
      /\ chunks \o hand["reader"] \in Seq(Messages)
  BY UnreadTyped
<1>2. Unread' = Unread
  <2>1. CASE ReaderScans
    <3>1. /\ Unread = (chunks \o <<>>) \o wire
          /\ Unread' = (chunks \o <<Head(wire)>>) \o Tail(wire)
      BY <2>1 DEF Unread, ReaderScans
    <3> QED
      BY <1>1, <2>1, <3>1, TakeFromFront DEF ReaderScans
  <2>2. CASE ReaderEnds
    BY <2>2 DEF Unread, ReaderEnds, readerFrame
  <2>3. CASE ReaderOffers
    <3>1. Unread' = ((chunks \o hand["reader"]) \o <<>>) \o wire
      BY <2>3 DEF Unread, ReaderOffers
    <3> QED
      BY <1>1, <3>1, ConcatEmptySeq DEF Unread
  <2>4. CASE ReaderGivesUp
    BY <2>4 DEF ReaderGivesUp
  <2> QED
    BY <2>1, <2>2, <2>3, <2>4 DEF Reader
<1>3. readerFrame
  BY DEF Reader, ReaderScans, ReaderEnds, ReaderOffers, ReaderGivesUp
<1> QED
  BY <1>2, <1>3 DEF FinalIsLastRead, readerFrame

\* The converter takes messages from the front.
LEMMA ChatTakesFinal ==
    ASSUME TypeOK, FinalIsLastRead, ChatTakes
    PROVE  FinalIsLastRead'
<1> SUFFICES ASSUME ~cancelled PROVE FinalIsLastRead'
  BY DEF FinalIsLastRead, ChatTakes, converterFrame
<1> "reader" \in Goroutines /\ "converter" \in Goroutines /\ hand \in [Goroutines -> Hands]
  BY DEF TypeOK, Goroutines
<1>1. /\ EndsAtFinal(Unread)
      /\ upstream = "content" => HasNoFinal(Unread) /\ ~finalUsage
      /\ finalUsage => Unread = <<>>
  BY DEF FinalIsLastRead, ChatTakes
<1> DEFINE rest == hand["reader"] \o wire
<1>2. /\ chunks \in Seq(Messages) /\ hand["reader"] \in Seq(Messages) /\ wire \in Seq(Messages)
      /\ rest \in Seq(Messages) /\ Unread \in Seq(Messages) /\ chunks # <<>>
  BY UnreadTyped, ConcatProperties DEF ChatTakes
<1>3. Unread = chunks \o rest
  BY <1>2, ConcatAssociative, SMTT(40) DEF Unread
<1>4. /\ Head(chunks) \in Messages /\ Tail(chunks) \in Seq(Messages)
      /\ <<Head(chunks)>> \o Tail(chunks) = chunks
  BY <1>2, HeadAndTail
<1>5. Unread' = (Tail(chunks) \o hand["reader"]) \o wire
  BY DEF Unread, ChatTakes, converterFrame
<1>6. Unread # <<>> /\ Head(Unread) = Head(chunks) /\ Tail(Unread) = Unread'
  <2>1. (Tail(chunks) \o hand["reader"]) \o wire = Tail(chunks) \o rest
    BY <1>2, <1>4, Concatenation, SMTT(40)
  <2> HIDE DEF rest
  <2>2. /\ chunks \o rest # <<>>
        /\ Head(chunks \o rest) = Head(chunks)
        /\ Tail(chunks \o rest) = Tail(chunks) \o rest
    <3>1. rest \in Seq(Messages)
      BY <1>2
    <3> QED BY <1>2, <3>1, FirstOfBoth, Zenon
  <2> QED
    BY <1>3, <1>5, <2>1, <2>2
<1>7. /\ EndsAtFinal(Unread')
      /\ HasNoFinal(Unread) => HasNoFinal(Unread') /\ Head(chunks) # Final
      /\ Head(chunks) = Final => Unread' = <<>>
  BY <1>1, <1>2, <1>6, EndTaken
<1> QED
  BY <1>1, <1>6, <1>7 DEF FinalIsLastRead, ChatTakes, converterFrame

LEMMA FinalKept == TypeOK /\ HandsFit /\ FinalIsLastRead /\ [Next]_vars => FinalIsLastRead'
<1> SUFFICES ASSUME TypeOK, HandsFit, FinalIsLastRead, [Next]_vars PROVE FinalIsLastRead'
  OBVIOUS
<1> "reader" \in Goroutines /\ "converter" \in Goroutines /\ "loop" \in Goroutines
    /\ "handler" \in Goroutines /\ hand \in [Goroutines -> Hands]
  BY DEF TypeOK, Goroutines
<1>1. ASSUME UNCHANGED <<protocol, chunks, wire, upstream, finalUsage>>,
             hand'["reader"] = hand["reader"], cancelled => cancelled'
      PROVE  FinalIsLastRead'
  <2>1. Unread' = Unread
    BY <1>1 DEF Unread
  <2> QED
    BY <1>1, <2>1 DEF FinalIsLastRead
<1>2. CASE UNCHANGED vars
  BY <1>1, <1>2 DEF vars
<1>3. CASE ClientLeaves \/ NoticeGone
  BY <1>1, <1>3 DEF ClientLeaves, NoticeGone, clientFrame
<1>4. CASE ConverterCancelled
  BY <1>1, <1>4 DEF ConverterCancelled, CloseConverter, converterFrame
<1>5. CASE AnthropicPolls
  BY <1>1, <1>5 DEF AnthropicPolls, converterFrame
<1>6. CASE AnthropicNext \/ AnthropicNextFails \/ AnthropicNextEnds
  <2>1. protocol' = "anthropic"
    BY <1>6 DEF HandsFit, AnthropicNext, AnthropicNextFails, AnthropicNextEnds, converterFrame
  <2> QED
    BY <2>1 DEF FinalIsLastRead
<1>7. CASE ChatCompletes
  BY <1>1, <1>7 DEF ChatCompletes, Emits, converterFrame
<1>8. CASE Emit \/ ChatEmitCancelled
  BY <1>1, <1>8 DEF Emit, ChatEmitCancelled, ConverterPassedOn, converterFrame
<1>9. CASE Loop
  BY <1>1, <1>9 DEF Loop, LoopReceives, LoopCloses, loopFrame
<1>10. CASE Handler
  BY <1>1, <1>10 DEF Handler, HandlerReceives, HandlerWrites, HandlerWriteFails,
                     HandlerRangeEnds, HandlerReturns, handlerFrame
<1> QED
  BY <1>2, <1>3, <1>4, <1>5, <1>6, <1>7, <1>8, <1>9, <1>10, UpstreamFinal, ReaderFinal,
     ChatTakesFinal
     DEF Next, Environment, Converter

-----------------------------------------------------------------------------
(* Nothing is lost.                                                        *)

Chain == serving = "range" /\ ~cancelled => InFlight = produced

\* Whatever is in flight is a sequence of messages.
LEMMA PlacesTyped ==
    ASSUME TypeOK
    PROVE  /\ written \in Seq(Messages) /\ events \in Seq(Messages) /\ chunks \in Seq(Messages)
           /\ \A g \in Goroutines : hand[g] \in Seq(Messages)
           /\ Kept \in Seq(Messages) /\ <<>> \in Seq(Messages)
<1>1. \A g \in Goroutines : hand[g] \in Seq(Messages)
  BY HandFacts DEF TypeOK
<1>2. Kept \in Seq(Messages) /\ <<>> \in Seq(Messages)
  BY MessageFacts, EmptySeq DEF Kept
<1> QED
  BY <1>1, <1>2 DEF TypeOK

\* A message is read, or put together, when nothing is behind it.
LEMMA HeldLast ==
    ASSUME NEW S, NEW p \in Seq(S), NEW m \in S
    PROVE  /\ (p \o <<m>>) \o ((<<>> \o <<>>) \o <<>>)
                = Append((p \o <<>>) \o ((<<>> \o <<>>) \o <<>>), m)
           /\ (p \o <<m>>) \o ((<<>> \o <<>>) \o <<>>)
                = (p \o <<>>) \o ((<<m>> \o <<>>) \o <<>>)
<1>1. <<m>> \in Seq(S) /\ <<>> \in Seq(S) /\ p \o <<m>> \in Seq(S)
  BY ConcatProperties, EmptySeq
<1>2. <<>> \o <<>> = <<>> /\ <<m>> \o <<>> = <<m>> /\ p \o <<>> = p
  BY <1>1, ConcatEmptySeq
<1>3. (p \o <<m>>) \o <<>> = p \o <<m>>
  BY <1>1, ConcatEmptySeq
<1>4. p \o <<m>> = Append(p, m)
  BY AppendIsConcat
<1> QED
  BY <1>2, <1>3, <1>4

\* The chat converter takes a message from its channel, to emit it.
LEMMA TakenIntoHand ==
    ASSUME NEW S, NEW p \in Seq(S), NEW ch \in Seq(S), NEW hr \in Seq(S), ch # <<>>
    PROVE  (p \o <<Head(ch)>>) \o ((<<>> \o Tail(ch)) \o hr) = (p \o <<>>) \o ((<<>> \o ch) \o hr)
<1> DEFINE m == <<Head(ch)>>
           c == Tail(ch)
<1>1. m \in Seq(S) /\ c \in Seq(S)
  BY HeadAndTail
<1>2. m \o c = ch
  BY HeadAndTail
<1> HIDE DEF m, c
<1>3. (m \o c) \o hr = m \o (c \o hr)
  BY <1>1, ConcatAssociative, SMTT(40)
<1>4. (p \o m) \o (c \o hr) = p \o (m \o (c \o hr))
  <2>1. c \o hr \in Seq(S)
    BY <1>1, ConcatProperties
  <2> DEFINE r == c \o hr
  <2> HIDE DEF r
  <2>2. r \in Seq(S)
    BY <2>1 DEF r
  <2>3. (p \o m) \o r = p \o (m \o r)
    BY <1>1, <2>2, ConcatAssociative, SMTT(40)
  <2> QED
    BY <2>3 DEF r
<1>5. p \o <<>> = p /\ <<>> \o c = c /\ <<>> \o ch = ch
  BY <1>1, ConcatEmptySeq
<1> QED
  BY <1>2, <1>3, <1>4, <1>5 DEF m, c

\* The chat converter takes a message from its channel, to keep it.
LEMMA TakenToKeep ==
    ASSUME NEW S, NEW ch \in Seq(S), ch # <<>>
    PROVE  <<Head(ch)>> \o Tail(ch) = <<>> \o ch
BY HeadAndTail, ConcatEmptySeq

LEMMA ReaderKeeps ==
    ASSUME TypeOK, HandsFit, Chain, Reader
    PROVE  Chain'
<1> SUFFICES ASSUME serving = "range", ~cancelled PROVE InFlight' = produced'
  BY DEF Chain, Reader, ReaderScans, ReaderEnds, ReaderOffers, ReaderGivesUp, readerFrame
<1> "reader" \in Goroutines /\ "converter" \in Goroutines /\ "loop" \in Goroutines
    /\ "handler" \in Goroutines /\ hand \in [Goroutines -> Hands]
    /\ status \in [Goroutines -> {"open", "returning", "closed"}]
  BY DEF TypeOK, Goroutines
<1>1. InFlight = produced
  BY DEF Chain
<1>2. Passed \in Seq(Messages)
  BY PlacesTyped, ConcatProperties DEF Passed
<1>3. /\ hand'["handler"] = hand["handler"] /\ hand'["loop"] = hand["loop"]
      /\ hand'["converter"] = hand["converter"] /\ status'["converter"] = status["converter"]
  BY DEF Reader, ReaderScans, ReaderEnds, ReaderOffers, ReaderGivesUp
<1>4. readerFrame
  BY DEF Reader, ReaderScans, ReaderEnds, ReaderOffers, ReaderGivesUp
<1>5. Passed' = Passed /\ Kept' = Kept
  BY <1>3, <1>4 DEF readerFrame, Passed, Kept
<1>6. CASE ReaderScans
  <2>1. /\ Coming = (Kept \o chunks) \o <<>> /\ Coming' = (Kept \o chunks) \o <<Head(wire)>>
        /\ produced' = Append(produced, Head(wire))
    BY <1>5, <1>6 DEF ReaderScans, Coming
  <2>2. Head(wire) \in Messages
    BY <1>6, HeadAndTail DEF TypeOK, ReaderScans
  <2>3. Kept \o chunks \in Seq(Messages)
    BY PlacesTyped, ConcatProperties
  <2>4. Passed \o ((Kept \o chunks) \o <<Head(wire)>>)
          = Append(Passed \o ((Kept \o chunks) \o <<>>), Head(wire))
    BY <1>2, <2>2, <2>3, ReadLast
  <2> QED
    BY <1>1, <1>5, <2>1, <2>4 DEF InFlight
<1>7. CASE ReaderEnds
  <2>1. Coming' = Coming /\ produced' = produced
    BY <1>5, <1>7 DEF ReaderEnds, Coming
  <2> QED
    BY <1>1, <1>5, <2>1 DEF InFlight
<1>8. CASE ReaderOffers
  <2>1. /\ Coming = (Kept \o chunks) \o hand["reader"]
        /\ Coming' = (Kept \o (chunks \o hand["reader"])) \o <<>>
        /\ produced' = produced
    BY <1>5, <1>8 DEF ReaderOffers, Coming
  <2>2. (Kept \o (chunks \o hand["reader"])) \o <<>> = (Kept \o chunks) \o hand["reader"]
    <3>1. Kept \in Seq(Messages) /\ chunks \in Seq(Messages) /\ hand["reader"] \in Seq(Messages)
      BY PlacesTyped
    <3> QED
      BY <3>1, PassOn
  <2> QED
    BY <1>1, <1>5, <2>1, <2>2 DEF InFlight
<1>9. CASE ReaderGivesUp
  BY <1>9 DEF ReaderGivesUp
<1> QED
  BY <1>6, <1>7, <1>8, <1>9 DEF Reader

\* The anthropic converter reads when it holds nothing and nothing is behind it.
LEMMA AnthropicKeeps ==
    ASSUME TypeOK, HandsFit, Chain,
           AnthropicPolls \/ AnthropicNext \/ AnthropicNextFails \/ AnthropicNextEnds
    PROVE  Chain'
<1> SUFFICES ASSUME serving = "range", ~cancelled PROVE InFlight' = produced'
  BY DEF Chain, AnthropicPolls, AnthropicNext, AnthropicNextFails, AnthropicNextEnds,
         converterFrame
<1> "reader" \in Goroutines /\ "converter" \in Goroutines /\ "loop" \in Goroutines
    /\ "handler" \in Goroutines /\ hand \in [Goroutines -> Hands]
    /\ status \in [Goroutines -> {"open", "returning", "closed"}]
  BY DEF TypeOK, Goroutines
<1>1. InFlight = produced /\ protocol = "anthropic" /\ protocol' = protocol
  BY DEF Chain, HandsFit, AnthropicPolls, AnthropicNext, AnthropicNextFails, AnthropicNextEnds,
         converterFrame
<1>2. /\ chunks = <<>> /\ hand["reader"] = <<>> /\ Kept = <<>> /\ Kept' = <<>>
      /\ Coming = (<<>> \o <<>>) \o <<>>
  BY <1>1 DEF HandsFit, Kept, Coming
<1> DEFINE p == ((written \o hand["handler"]) \o hand["loop"]) \o events
<1>3. p \in Seq(Messages)
  BY PlacesTyped, ConcatProperties
<1>4. ASSUME NEW m \in Messages, polled, hand' = [hand EXCEPT !["converter"] = <<m>>],
             UNCHANGED <<chunks, events, written>>, produced' = Append(produced, m)
      PROVE  InFlight' = produced'
  <2>1. hand["converter"] = <<>>
    BY <1>4 DEF HandsFit
  <2>2. Passed = p \o <<>> /\ Passed' = p \o <<m>> /\ Coming' = (<<>> \o <<>>) \o <<>>
    BY <1>2, <1>4, <2>1 DEF Passed, Coming
  <2> HIDE DEF p
  <2>3. (p \o <<m>>) \o ((<<>> \o <<>>) \o <<>>)
          = Append((p \o <<>>) \o ((<<>> \o <<>>) \o <<>>), m)
    BY <1>3, HeldLast
  <2> QED
    BY <1>1, <1>2, <1>4, <2>2, <2>3 DEF InFlight
<1>5. CASE AnthropicPolls
  BY <1>1, <1>5 DEF AnthropicPolls, converterFrame, InFlight, Passed, Coming, Kept
<1>6. CASE AnthropicNext
  <2>1. Head(wire) \in Messages
    BY <1>6, HeadAndTail DEF TypeOK, AnthropicNext
  <2> QED
    BY <1>4, <1>6, <2>1 DEF AnthropicNext, Emits, converterFrame
<1>7. CASE AnthropicNextFails
  BY <1>4, <1>7, MessageFacts DEF AnthropicNextFails, Emits, converterFrame
<1>8. CASE AnthropicNextEnds
  <2>1. Passed' = Passed /\ Coming' = Coming /\ produced' = produced
    BY <1>2, <1>8 DEF AnthropicNextEnds, converterFrame, Passed, Coming
  <2> QED
    BY <1>1, <2>1 DEF InFlight
<1> QED
  BY <1>5, <1>6, <1>7, <1>8

\* The chat converter takes from its channel, and completes what is read.
LEMMA ChatKeeps ==
    ASSUME TypeOK, HandsFit, FinalIsLastRead, Chain, ChatTakes \/ ChatCompletes
    PROVE  Chain'
<1> SUFFICES ASSUME serving = "range", ~cancelled PROVE InFlight' = produced'
  BY DEF Chain, ChatTakes, ChatCompletes, converterFrame
<1> "reader" \in Goroutines /\ "converter" \in Goroutines /\ "loop" \in Goroutines
    /\ "handler" \in Goroutines /\ hand \in [Goroutines -> Hands]
    /\ status \in [Goroutines -> {"open", "returning", "closed"}]
  BY DEF TypeOK, Goroutines
<1>1. InFlight = produced /\ protocol = "chat" /\ protocol' = protocol
      /\ status["converter"] = "open" /\ hand["converter"] = <<>>
  BY DEF Chain, ChatTakes, ChatCompletes, ConverterIdle, converterFrame
<1> DEFINE p == ((written \o hand["handler"]) \o hand["loop"]) \o events
<1>2. p \in Seq(Messages) /\ Passed = p \o <<>>
  BY <1>1, PlacesTyped, ConcatProperties DEF Passed
<1>3. CASE ChatTakes
  <2>1. ~finalUsage
    <3>1. chunks = <<>> \/ Unread # <<>>
      <4>1. /\ chunks \in Seq(Messages) /\ hand["reader"] \o wire \in Seq(Messages)
            /\ Unread = chunks \o (hand["reader"] \o wire)
        BY UnreadTyped, Concatenation DEF Unread
      <4> QED
        BY <4>1, FirstOfBoth
    <3> QED
      BY <1>1, <1>3, <3>1 DEF FinalIsLastRead, ChatTakes
  <2>2. Head(chunks) \in Contents \/ Head(chunks) = Final
    <3>1. /\ chunks \in Seq(Messages) /\ hand["reader"] \o wire \in Seq(Messages)
          /\ Unread = chunks \o (hand["reader"] \o wire) /\ Unread \in Seq(Messages)
      BY UnreadTyped, Concatenation DEF Unread
    <3>2. Unread # <<>> /\ Head(Unread) = Head(chunks)
      BY <1>3, <3>1, FirstOfBoth DEF ChatTakes
    <3>3. Head(chunks) # Error
      BY <1>1, <3>1, <3>2, EndTaken DEF FinalIsLastRead
    <3>4. Head(chunks) \in Messages
      BY <1>3, <3>1, HeadAndTail DEF ChatTakes
    <3> QED
      BY <3>3, <3>4, MessageFacts
  <2>3. /\ chunks \in Seq(Messages) /\ hand["reader"] \in Seq(Messages) /\ chunks # <<>>
        /\ Coming = (<<>> \o chunks) \o hand["reader"]
        /\ produced' = produced
    BY <1>3, <2>1, PlacesTyped DEF ChatTakes, Coming, Kept
  <2>4. CASE Head(chunks) \in Contents
    <3>1. Passed' = p \o <<Head(chunks)>>
      BY <1>1, <1>3, <2>4 DEF ChatTakes, converterFrame, Passed, ContentOf
    <3>2. Kept' = <<>>
      BY <1>3, <2>1, <2>4, MessageFacts DEF ChatTakes, Kept
    <3>3. Coming' = (<<>> \o Tail(chunks)) \o hand["reader"]
      BY <1>3, <3>2 DEF ChatTakes, Coming
    <3> HIDE DEF p
    <3>4. (p \o <<Head(chunks)>>) \o ((<<>> \o Tail(chunks)) \o hand["reader"])
            = (p \o <<>>) \o ((<<>> \o chunks) \o hand["reader"])
      <4>1. /\ p \in Seq(Messages) /\ chunks \in Seq(Messages) /\ chunks # <<>>
            /\ hand["reader"] \in Seq(Messages)
        BY <1>2, <2>3
      <4> QED
        BY <4>1, TakenIntoHand
    <3> QED
      BY <1>1, <1>2, <2>3, <3>1, <3>3, <3>4 DEF InFlight
  <2>5. CASE Head(chunks) = Final
    <3>1. Passed' = p \o <<>>
      BY <1>1, <1>3, <2>5, MessageFacts DEF ChatTakes, converterFrame, Passed, ContentOf
    <3>2. Kept' = <<Head(chunks)>>
      BY <1>1, <1>3, <2>5 DEF ChatTakes, Kept, converterFrame
    <3>3. Coming' = (<<Head(chunks)>> \o Tail(chunks)) \o hand["reader"]
      BY <1>3, <3>2 DEF ChatTakes, Coming
    <3>4. <<Head(chunks)>> \o Tail(chunks) = <<>> \o chunks
      BY <2>3, TakenToKeep
    <3> QED
      BY <1>1, <1>2, <2>3, <3>1, <3>3, <3>4 DEF InFlight
  <2> QED
    BY <2>2, <2>4, <2>5
<1>4. CASE ChatCompletes
  <2>1. chunks = <<>> /\ hand["reader"] = <<>> /\ chunks' = <<>> /\ hand'["reader"] = <<>>
    BY <1>4 DEF ChatCompletes, Emits, HandsFit
  <2>2. Passed' = p \o <<Final>>
    BY <1>4, MessageFacts DEF ChatCompletes, Emits, converterFrame, Passed
  <2>3. Kept' = <<>>
    BY <1>4 DEF ChatCompletes, Emits, Kept
  <2>4. Coming' = (<<>> \o <<>>) \o <<>> /\ Coming = (Kept \o <<>>) \o <<>>
    BY <2>1, <2>3 DEF Coming
  <2> HIDE DEF p
  <2>5. /\ (p \o <<Final>>) \o ((<<>> \o <<>>) \o <<>>)
             = Append((p \o <<>>) \o ((<<>> \o <<>>) \o <<>>), Final)
        /\ (p \o <<Final>>) \o ((<<>> \o <<>>) \o <<>>)
             = (p \o <<>>) \o ((<<Final>> \o <<>>) \o <<>>)
    BY <1>2, HeldLast, MessageFacts
  <2>6. CASE finalUsage
    <3>1. Kept = <<Final>> /\ produced' = produced
      BY <1>1, <1>4, <2>6 DEF ChatCompletes, Kept
    <3> QED
      BY <1>1, <1>2, <2>2, <2>4, <2>5, <3>1 DEF InFlight
  <2>7. CASE ~finalUsage
    <3>1. Kept = <<>> /\ produced' = Append(produced, Final)
      BY <1>4, <2>7, MessageFacts DEF ChatCompletes, Kept
    <3> QED
      BY <1>1, <1>2, <2>2, <2>4, <2>5, <3>1 DEF InFlight
  <2> QED
    BY <2>6, <2>7
<1> QED
  BY <1>3, <1>4

\* The converter passes its event on and leaves the rest as it is.
LEMMA EmitKeeps ==
    ASSUME TypeOK, HandsFit, Chain, Emit
    PROVE  Chain'
<1> SUFFICES ASSUME serving = "range", ~cancelled PROVE InFlight' = produced'
  BY DEF Chain, Emit, converterFrame
<1> "reader" \in Goroutines /\ "converter" \in Goroutines /\ "loop" \in Goroutines
    /\ "handler" \in Goroutines /\ hand \in [Goroutines -> Hands]
    /\ status \in [Goroutines -> {"open", "returning", "closed"}]
  BY DEF TypeOK, Goroutines
<1> DEFINE q == (written \o hand["handler"]) \o hand["loop"]
<1>1. Passed = (q \o events) \o hand["converter"]
      /\ Passed' = (q \o (events \o hand["converter"])) \o <<>>
  BY DEF Emit, ConverterPassedOn, converterFrame, Passed
<1>2. q \in Seq(Messages) /\ events \in Seq(Messages) /\ hand["converter"] \in Seq(Messages)
  BY PlacesTyped, ConcatProperties
<1> HIDE DEF q
<1>3. (q \o (events \o hand["converter"])) \o <<>> = (q \o events) \o hand["converter"]
  BY <1>2, PassOn
<1>4. Kept' = Kept
  BY DEF Emit, ConverterPassedOn, converterFrame, Kept
<1>5. Coming' = Coming /\ produced' = produced
  BY <1>4 DEF Emit, ConverterPassedOn, Coming
<1> QED
  BY <1>1, <1>3, <1>5 DEF InFlight, Chain

\* loop takes the oldest event; its hand is empty before.
LEMMA LoopKeeps ==
    ASSUME TypeOK, Chain, Loop
    PROVE  Chain'
<1> SUFFICES ASSUME serving = "range", ~cancelled PROVE InFlight' = produced'
  BY DEF Chain, Loop, LoopReceives, LoopCloses, loopFrame
<1> "reader" \in Goroutines /\ "converter" \in Goroutines /\ "loop" \in Goroutines
    /\ "handler" \in Goroutines /\ hand \in [Goroutines -> Hands]
    /\ status \in [Goroutines -> {"open", "returning", "closed"}]
  BY DEF TypeOK, Goroutines
<1>1. Coming' = Coming /\ produced' = produced
  <2>1. UNCHANGED <<protocol, finalUsage, chunks, produced>>
        /\ hand'["reader"] = hand["reader"] /\ status'["converter"] = status["converter"]
    BY DEF Loop, LoopReceives, LoopCloses, loopFrame
  <2> QED
    BY <2>1 DEF Coming, Kept
<1>2. Passed' = Passed
  <2>1. CASE LoopReceives
    <3> DEFINE p == written \o hand["handler"]
    <3>1. /\ Passed = ((p \o <<>>) \o events) \o hand["converter"]
          /\ Passed' = ((p \o <<Head(events)>>) \o Tail(events)) \o hand["converter"]
      BY <2>1 DEF LoopReceives, loopFrame, Passed
    <3>2. p \in Seq(Messages) /\ events \in Seq(Messages) /\ events # <<>>
      BY <2>1, PlacesTyped, ConcatProperties DEF LoopReceives
    <3> HIDE DEF p
    <3>3. (p \o <<Head(events)>>) \o Tail(events) = (p \o <<>>) \o events
      BY <3>2, TakeFromFront
    <3> QED
      BY <3>1, <3>3
  <2>2. CASE LoopCloses
    BY <2>2 DEF LoopCloses, loopFrame, Passed
  <2> QED
    BY <2>1, <2>2 DEF Loop
<1> QED
  BY <1>1, <1>2 DEF InFlight, Chain

\* The handler takes loop's event and writes it behind those it has written.
LEMMA HandlerKeeps ==
    ASSUME TypeOK, Chain, Handler
    PROVE  Chain'
<1> SUFFICES ASSUME serving' = "range", ~cancelled' PROVE InFlight' = produced'
  BY DEF Chain
<1> "reader" \in Goroutines /\ "converter" \in Goroutines /\ "loop" \in Goroutines
    /\ "handler" \in Goroutines /\ hand \in [Goroutines -> Hands]
    /\ status \in [Goroutines -> {"open", "returning", "closed"}]
  BY DEF TypeOK, Goroutines
<1>1. HandlerReceives \/ HandlerWrites
  BY DEF Handler, HandlerWriteFails, HandlerRangeEnds, HandlerReturns
<1>2. InFlight = produced
  BY <1>1 DEF Chain, HandlerReceives, HandlerWrites, handlerFrame
<1>3. Coming' = Coming /\ produced' = produced
  <2>1. UNCHANGED <<protocol, finalUsage, status, chunks, produced>>
        /\ hand'["reader"] = hand["reader"]
    BY <1>1 DEF HandlerReceives, HandlerWrites, handlerFrame
  <2> QED
    BY <2>1 DEF Coming, Kept
<1>4. /\ written \in Seq(Messages) /\ hand["loop"] \in Seq(Messages)
      /\ hand["handler"] \in Seq(Messages)
  BY PlacesTyped
<1>5. Passed' = Passed
  <2>1. CASE HandlerReceives
    <3>1. /\ Passed = (((written \o <<>>) \o hand["loop"]) \o events) \o hand["converter"]
          /\ Passed' = (((written \o hand["loop"]) \o <<>>) \o events) \o hand["converter"]
      BY <2>1 DEF HandlerReceives, handlerFrame, Passed
    <3>2. written \o <<>> = written
      BY <1>4, ConcatEmptySeq
    <3>3. (written \o hand["loop"]) \o <<>> = written \o hand["loop"]
      BY <1>4, ConcatProperties, ConcatEmptySeq
    <3> QED
      BY <3>1, <3>2, <3>3
  <2>2. CASE HandlerWrites
    <3>1. Passed' = (((written \o hand["handler"]) \o <<>>) \o hand["loop"] \o events)
                      \o hand["converter"]
      BY <2>2 DEF HandlerWrites, handlerFrame, Passed
    <3>2. (written \o hand["handler"]) \o <<>> = written \o hand["handler"]
      BY <1>4, ConcatProperties, ConcatEmptySeq
    <3> QED
      BY <3>1, <3>2 DEF Passed
  <2> QED
    BY <1>1, <2>1, <2>2
<1> QED
  BY <1>2, <1>3, <1>5 DEF InFlight

LEMMA InitChain == Init => Chain
<1> SUFFICES ASSUME Init PROVE InFlight = produced
  BY DEF Chain
<1>1. <<>> \o <<>> = <<>>
  BY EmptySeq, ConcatEmptySeq
<1>2. Passed = <<>> /\ Coming = <<>>
  BY <1>1 DEF Init, Passed, Coming, Kept, Goroutines
<1> QED
  BY <1>1, <1>2 DEF Init, InFlight

LEMMA ChainKept ==
    TypeOK /\ HandsFit /\ FinalIsLastRead /\ Chain /\ [Next]_vars => Chain'
<1> SUFFICES ASSUME TypeOK, HandsFit, FinalIsLastRead, Chain, [Next]_vars PROVE Chain'
  OBVIOUS
<1>1. CASE UNCHANGED vars
  BY <1>1 DEF vars, Chain, InFlight, Passed, Coming, Kept
<1>2. CASE Environment \/ NoticeGone
  <2>1. UNCHANGED <<protocol, finalUsage, status, hand, chunks, events, written, produced>>
    BY <1>2 DEF Environment, UpstreamSends, UpstreamFinishes, UpstreamCloses, UpstreamBreaks,
                ClientLeaves, NoticeGone, upstreamFrame, clientFrame
  <2>3. InFlight' = InFlight
    BY <2>1 DEF InFlight, Passed, Coming, Kept
  <2>2. serving' = serving /\ (cancelled => cancelled')
    BY <1>2 DEF Environment, UpstreamSends, UpstreamFinishes, UpstreamCloses, UpstreamBreaks,
                ClientLeaves, NoticeGone, upstreamFrame, clientFrame
  <2> QED
    BY <2>1, <2>2, <2>3 DEF Chain
<1>3. CASE ConverterCancelled \/ ChatEmitCancelled
  BY <1>3 DEF ConverterCancelled, ChatEmitCancelled, converterFrame, Chain
<1> QED
  BY <1>1, <1>2, <1>3, ReaderKeeps, AnthropicKeeps, ChatKeeps, EmitKeeps, LoopKeeps, HandlerKeeps
     DEF Next, Converter

\* While the handler serves and the context is alive, every event that was read
\* is written or on its way, none lost, repeated or overtaken.
THEOREM NothingIsLost == Spec => []NothingLost
<1>1. Init => TypeOK /\ HandsFit /\ FinalIsLastRead /\ Chain
  BY InitTypes, InitHands, InitFinal, InitChain
<1>2. TypeOK /\ HandsFit /\ FinalIsLastRead /\ Chain /\ [Next]_vars
        => (TypeOK /\ HandsFit /\ FinalIsLastRead /\ Chain)'
  BY TypesKept, HandsKept, FinalKept, ChainKept
<1>3. TypeOK /\ Chain => NothingLost
  BY DEF Chain, NothingLost
<1> QED
  BY <1>1, <1>2, <1>3, PTL DEF Spec

-----------------------------------------------------------------------------
(* Induction.                                                              *)

LEMMA LessOnNat == \A x, y \in Nat : <<x, y>> \in OpToRel(<, Nat) <=> x < y
BY DEF OpToRel

\* A set of naturals with 0 and all successors of its elements has all: there
\* is no least one among the others.
LEMMA Induction ==
    ASSUME NEW S \in SUBSET Nat, 0 \in S, \A n \in S : n + 1 \in S
    PROVE  S = Nat
<1> DEFINE Less == OpToRel(<, Nat)
           Rest == Nat \ S
<1>1. IsWellFoundedOn(Less, Nat)
  BY NatLessThanWellFounded
<1>2. \A x, y \in Nat : <<x, y>> \in Less <=> x < y
  BY LessOnNat
<1> HIDE DEF Less
<1>3. Rest # {} => \E n \in Rest : \A m \in Rest : ~ (<<m, n>> \in Less)
  <2> HIDE DEF Rest
  <2>1. Rest \subseteq Nat
    BY DEF Rest
  <2> QED
    BY <1>1, <2>1, WFMin
<1>4. ASSUME NEW n \in Rest PROVE n # 0 /\ n - 1 \in Rest /\ n - 1 < n
  BY <1>4
<1> QED
  BY <1>2, <1>3, <1>4

\* The same up to a bound.
LEMMA InductionUpTo ==
    ASSUME NEW m \in Nat, NEW S, 0 \in S, \A n \in 1 .. m : n - 1 \in S => n \in S
    PROVE  0 .. m \subseteq S
<1> DEFINE Good == { n \in Nat : n <= m => n \in S }
<1>1. Good \in SUBSET Nat /\ 0 \in Good /\ \A n \in Good : n + 1 \in Good
  <2>1. ASSUME NEW n \in Good PROVE n + 1 \in Good
    <3>1. CASE n + 1 <= m
      <4>1. n + 1 \in 1 .. m /\ (n + 1) - 1 = n /\ n \in S
        BY <3>1
      <4> QED
        BY <4>1
    <3> QED
      BY <3>1
  <2> QED
    BY <2>1
<1>2. Good = Nat
  <2> HIDE DEF Good
  <2> QED BY <1>1, Induction
<1> QED
  BY <1>2

-----------------------------------------------------------------------------
(* OnlyContents, which is defined by recursion.                            *)

\* f is the function that OnlyContents(s) chooses.
IsUpTo(f, s) ==
    f = [n \in 0 .. Len(s) |->
            IF n = 0 THEN <<>>
            ELSE IF s[n] \in Contents THEN Append(f[n - 1], s[n]) ELSE f[n - 1]]

\* What that says of it, message by message.
Stepwise(f, s) ==
    /\ f[0] = <<>>
    /\ \A n \in 1 .. Len(s) : f[n] = IF s[n] \in Contents THEN Append(f[n - 1], s[n]) ELSE f[n - 1]

LEMMA UpToExists == ASSUME NEW s, Len(s) \in Nat PROVE \E f : IsUpTo(f, s)
<1> DEFINE Upto(k, f) ==
             f = [n \in 0 .. k |->
                    IF n = 0 THEN <<>>
                    ELSE IF s[n] \in Contents THEN Append(f[n - 1], s[n]) ELSE f[n - 1]]
           Good == { k \in Nat : \E f : Upto(k, f) }
           m == Len(s)
<1>1. 0 \in Good
  <2> DEFINE f == [n \in 0 .. 0 |-> <<>>]
  <2>1. Upto(0, f)
    OBVIOUS
  <2> HIDE DEF Upto
  <2> QED BY <2>1
<1>2. ASSUME NEW k \in 1 .. m, k - 1 \in Good PROVE k \in Good
  <2>1. PICK f : Upto(k - 1, f)
    BY <1>2
  <2> DEFINE g == [n \in 0 .. k |->
                     IF n = k
                     THEN IF s[k] \in Contents THEN Append(f[k - 1], s[k]) ELSE f[k - 1]
                     ELSE f[n]]
  <2>2. \A n \in 0 .. k - 1 : g[n] = f[n]
    OBVIOUS
  <2>3. /\ g[k] = IF s[k] \in Contents THEN Append(f[k - 1], s[k]) ELSE f[k - 1]
        /\ g[k - 1] = f[k - 1]
    OBVIOUS
  <2>4. g = [n \in 0 .. k |-> g[n]]
    OBVIOUS
  <2> HIDE DEF g
  <2>5. ASSUME NEW n \in 0 .. k
        PROVE  g[n] = IF n = 0 THEN <<>>
                      ELSE IF s[n] \in Contents THEN Append(g[n - 1], s[n]) ELSE g[n - 1]
    <3>1. CASE n = k
      BY <2>3, <3>1
    <3>2. CASE n # k
      <4>1. n \in 0 .. k - 1 /\ (n # 0 => n - 1 \in 0 .. k - 1)
        BY <3>2
      <4>2. f[n] = IF n = 0 THEN <<>>
                   ELSE IF s[n] \in Contents THEN Append(f[n - 1], s[n]) ELSE f[n - 1]
        BY <2>1, <4>1
      <4> QED BY <2>2, <4>1, <4>2
    <3> QED BY <3>1, <3>2
  <2>6. Upto(k, g)
    BY <2>4, <2>5
  <2>7. k \in Nat
    OBVIOUS
  <2> HIDE DEF Upto
  <2> QED BY <2>6, <2>7
<1>3. m \in Good
  <2> HIDE DEF Good
  <2>1. 0 .. m \subseteq Good
    BY <1>1, <1>2, InductionUpTo
  <2> QED BY <2>1
<1> QED
  BY <1>3 DEF IsUpTo

LEMMA UpToStepwise == ASSUME NEW f, NEW s, Len(s) \in Nat, IsUpTo(f, s) PROVE Stepwise(f, s)
<1>1. f[0] = <<>>
  BY DEF IsUpTo
<1>2. ASSUME NEW n \in 1 .. Len(s)
      PROVE  f[n] = IF s[n] \in Contents THEN Append(f[n - 1], s[n]) ELSE f[n - 1]
  <2>1. n \in 0 .. Len(s) /\ n # 0
    OBVIOUS
  <2> QED BY <2>1, Zenon DEF IsUpTo
<1> QED
  BY <1>1, <1>2 DEF Stepwise

\* OnlyContents is the end of such a function.
LEMMA ContentsStepwise ==
    ASSUME NEW s, Len(s) \in Nat
    PROVE  \E f : Stepwise(f, s) /\ OnlyContents(s) = f[Len(s)]
<1> DEFINE f == CHOOSE f : IsUpTo(f, s)
<1>1. IsUpTo(f, s)
  BY UpToExists
<1>2. OnlyContents(s) = f[Len(s)]
  BY DEF OnlyContents, IsUpTo
<1> HIDE DEF f
<1> QED
  BY <1>1, <1>2, UpToStepwise

\* Over the whole of the shorter sequence two such functions are the same.
LEMMA StepwiseAgree ==
    ASSUME NEW f, NEW t, NEW g, NEW s, Stepwise(f, t), Stepwise(g, s),
           Len(s) \in Nat, Len(t) \in Nat, Len(s) <= Len(t),
           \A n \in 1 .. Len(s) : t[n] = s[n]
    PROVE  f[Len(s)] = g[Len(s)]
<1> DEFINE m == Len(s)
           Good == { n \in Nat : f[n] = g[n] }
<1>1. 0 \in Good
  BY DEF Stepwise
<1>2. ASSUME NEW n \in 1 .. m, n - 1 \in Good PROVE n \in Good
  <2>1. n \in 1 .. Len(t) /\ t[n] = s[n] /\ n \in Nat
    OBVIOUS
  <2>2. /\ f[n] = IF t[n] \in Contents THEN Append(f[n - 1], t[n]) ELSE f[n - 1]
        /\ g[n] = IF s[n] \in Contents THEN Append(g[n - 1], s[n]) ELSE g[n - 1]
    BY <2>1 DEF Stepwise
  <2> QED BY <1>2, <2>1, <2>2
<1>3. 0 .. m \subseteq Good
  <2> HIDE DEF Good
  <2> QED BY <1>1, <1>2, InductionUpTo
<1>4. m \in 0 .. m
  OBVIOUS
<1> QED
  BY <1>3, <1>4

\* No events amount to no answer; one more adds what it says.
LEMMA ContentsOfNone == OnlyContents(<<>>) = <<>>
<1>1. Len(<<>>) = 0
  OBVIOUS
<1>2. PICK f : Stepwise(f, <<>>) /\ OnlyContents(<<>>) = f[Len(<<>>)]
  BY <1>1, ContentsStepwise
<1> QED
  BY <1>1, <1>2 DEF Stepwise

LEMMA ContentsAppended ==
    ASSUME NEW s \in Seq(Messages), NEW m \in Messages
    PROVE  OnlyContents(Append(s, m)) =
               IF m \in Contents THEN Append(OnlyContents(s), m) ELSE OnlyContents(s)
<1> DEFINE t == Append(s, m)
<1>1. /\ Len(s) \in Nat /\ Len(t) = Len(s) + 1 /\ t[Len(s) + 1] = m
      /\ \A n \in 1 .. Len(s) : t[n] = s[n]
  BY AppendProperties, LenProperties
<1> HIDE DEF t
<1>2. Len(t) \in Nat /\ Len(s) <= Len(s) /\ Len(s) <= Len(t) /\ Len(t) \in 1 .. Len(t)
      /\ Len(t) - 1 = Len(s)
  BY <1>1
<1>3. PICK f : Stepwise(f, t) /\ OnlyContents(t) = f[Len(t)]
  BY <1>2, ContentsStepwise
<1>4. PICK g : Stepwise(g, s) /\ OnlyContents(s) = g[Len(s)]
  BY <1>1, ContentsStepwise
<1>5. f[Len(s)] = g[Len(s)]
  <2>1. \A n \in 1 .. Len(s) : t[n] = s[n]
    BY <1>1
  <2>2. Len(s) \in Nat
    BY <1>1
  <2> QED BY <1>2, <1>3, <1>4, <2>1, <2>2, StepwiseAgree
<1>6. f[Len(t)] = IF t[Len(t)] \in Contents THEN Append(f[Len(t) - 1], t[Len(t)]) ELSE f[Len(t) - 1]
  BY <1>2, <1>3 DEF Stepwise
<1>7. t[Len(t)] = m
  BY <1>1
<1> QED
  BY <1>2, <1>3, <1>4, <1>5, <1>6, <1>7 DEF t

\* What has no content adds nothing.
LEMMA ContentsBehind ==
    ASSUME NEW s \in Seq(Messages), NEW r \in Seq(Messages),
           \A i \in 1 .. Len(r) : r[i] \notin Contents
    PROVE  OnlyContents(s \o r) = OnlyContents(s)
<1> DEFINE t == s \o r
<1>1. /\ Len(s) \in Nat /\ Len(r) \in Nat /\ Len(t) = Len(s) + Len(r)
      /\ \A n \in 1 .. Len(s) + Len(r) : t[n] = IF n <= Len(s) THEN s[n] ELSE r[n - Len(s)]
  BY ConcatProperties, LenProperties
<1> HIDE DEF t
<1>2. Len(t) \in Nat /\ Len(s) <= Len(s) /\ Len(s) <= Len(t) /\ Len(t) \in 0 .. Len(t)
  BY <1>1
<1>3. PICK f : Stepwise(f, t) /\ OnlyContents(t) = f[Len(t)]
  BY <1>2, ContentsStepwise
<1>4. PICK g : Stepwise(g, s) /\ OnlyContents(s) = g[Len(s)]
  BY <1>1, ContentsStepwise
<1>5. \A n \in 1 .. Len(s) : t[n] = s[n]
  BY <1>1
<1>6. f[Len(s)] = g[Len(s)]
  <2>1. Len(s) \in Nat
    BY <1>1
  <2> QED BY <1>2, <1>3, <1>4, <1>5, <2>1, StepwiseAgree
<1>7. \A n \in 1 .. Len(t) : n > Len(s) => t[n] \notin Contents
  <2> TAKE n \in 1 .. Len(t)
  <2>1. n > Len(s) => n - Len(s) \in 1 .. Len(r) /\ t[n] = r[n - Len(s)]
    BY <1>1
  <2> QED BY <2>1
<1> DEFINE Good == { n \in Nat : n >= Len(s) => f[n] = f[Len(s)] }
<1>8. 0 \in Good
  BY <1>1
<1>9. ASSUME NEW n \in 1 .. Len(t), n - 1 \in Good PROVE n \in Good
  <2>1. f[n] = IF t[n] \in Contents THEN Append(f[n - 1], t[n]) ELSE f[n - 1]
    BY <1>3 DEF Stepwise
  <2>2. CASE n > Len(s)
    <3>1. n - 1 >= Len(s)
      BY <1>1, <2>2
    <3> QED BY <1>7, <1>9, <2>1, <2>2, <3>1
  <2>3. CASE ~ (n > Len(s))
    <3>1. n >= Len(s) => n = Len(s)
      BY <1>1, <2>3
    <3> QED BY <3>1
  <2> QED BY <2>2, <2>3
<1>10. Len(t) \in Good
  <2> HIDE DEF Good
  <2>1. 0 .. Len(t) \subseteq Good
    BY <1>2, <1>8, <1>9, InductionUpTo
  <2> QED BY <1>2, <2>1
<1>11. f[Len(t)] = f[Len(s)]
  BY <1>2, <1>10
<1> QED
  BY <1>3, <1>4, <1>6, <1>11 DEF t

-----------------------------------------------------------------------------
(* The answer.                                                             *)

\* What loop has put into the answer: what the handler has, or is to take next.
Taken == (written \o hand["handler"]) \o hand["loop"]

AnswerTaken == serving = "range" => response = OnlyContents(Taken)

\* Behind the last message there is no content, neither read nor to be read.
NoneBehind(u) == \A i, j \in 1 .. Len(u) : u[i] = Final /\ i < j => u[j] \notin Contents
HasFinal(u) == \E i \in 1 .. Len(u) : u[i] = Final

FinalIsBehind ==
    ~cancelled => /\ NoneBehind(produced \o wire)
                  /\ upstream = "content" => ~HasFinal(produced \o wire)

\* Each goroutine ends after the one before it, unless the client leaves.
EndsInOrder ==
    /\ protocol = "chat" /\ ~cancelled /\ status["reader"] = "closed"
         => wire = <<>> /\ upstream \in {"eof", "broken"}
    /\ status["loop"] = "closed" => status["converter"] = "closed"
    /\ client = "connected" =>
         /\ cancelled => serving = "returned"
         /\ serving # "range" => status["loop"] = "closed"
         /\ protocol = "chat" /\ status["converter"] # "open" => status["reader"] = "closed"

FinalInv ==
    client = "connected" /\ final # <<>> =>
        /\ final = <<OnlyContents(produced)>>
        /\ HasFinal(produced)

AnswerInv == AnswerTaken /\ FinalIsBehind /\ EndsInOrder /\ FinalInv

\* A sequence with one more message, and the beginning of one.
LEMMA BehindAppended ==
    ASSUME NEW u \in Seq(Messages), NEW m \in Messages, NoneBehind(u),
           ~HasFinal(u) \/ m \notin Contents
    PROVE  /\ NoneBehind(Append(u, m))
           /\ ~HasFinal(u) /\ m # Final => ~HasFinal(Append(u, m))
<1> DEFINE v == Append(u, m)
<1>1. /\ Len(u) \in Nat /\ Len(v) = Len(u) + 1 /\ v[Len(u) + 1] = m
      /\ \A i \in 1 .. Len(u) : v[i] = u[i]
  BY AppendProperties, LenProperties
<1> HIDE DEF v
<1>2. \A i \in 1 .. Len(v) : i \in 1 .. Len(u) \/ i = Len(u) + 1
  BY <1>1
<1>3. ASSUME NEW i \in 1 .. Len(v), NEW j \in 1 .. Len(v), v[i] = Final, i < j
      PROVE  v[j] \notin Contents
  <2>1. i \in 1 .. Len(u) /\ u[i] = Final
    BY <1>1, <1>2, <1>3
  <2>2. CASE j \in 1 .. Len(u)
    BY <1>1, <1>3, <2>1, <2>2 DEF NoneBehind
  <2>3. CASE j = Len(u) + 1
    BY <1>1, <2>1, <2>3 DEF HasFinal
  <2> QED BY <1>2, <2>2, <2>3
<1>4. ~HasFinal(u) /\ m # Final => ~HasFinal(v)
  BY <1>1, <1>2 DEF HasFinal
<1> QED
  BY <1>3, <1>4 DEF NoneBehind, v

LEMMA BehindShortened ==
    ASSUME NEW u \in Seq(Messages), NEW v \in Seq(Messages), Len(v) <= Len(u),
           \A i \in 1 .. Len(v) : v[i] = u[i], NoneBehind(u)
    PROVE  NoneBehind(v)
<1>1. Len(u) \in Nat /\ Len(v) \in Nat
  BY LenProperties
<1>2. \A i \in 1 .. Len(v) : i \in 1 .. Len(u)
  BY <1>1
<1> QED
  BY <1>2 DEF NoneBehind

\* What is read moves from one sequence to the other.
LEMMA BehindRead ==
    ASSUME NEW s \in Seq(Messages), NEW t \in Seq(Messages), t # <<>>
    PROVE  Append(s, Head(t)) \o Tail(t) = s \o t
<1>1. /\ Head(t) \in Messages /\ Tail(t) \in Seq(Messages) /\ <<Head(t)>> \o Tail(t) = t
  BY HeadAndTail
<1>2. <<Head(t)>> \in Seq(Messages) /\ Append(s, Head(t)) = s \o <<Head(t)>>
  BY <1>1, AppendIsConcat
<1>3. (s \o <<Head(t)>>) \o Tail(t) = s \o (<<Head(t)>> \o Tail(t))
  BY <1>1, <1>2, ConcatAssociative
<1> QED
  BY <1>1, <1>2, <1>3

\* When the last message was read, no content is to be read.
LEMMA ReadBehindFinal ==
    ASSUME NEW s \in Seq(Messages), NEW t \in Seq(Messages), t # <<>>,
           HasFinal(s), NoneBehind(s \o t)
    PROVE  Head(t) \notin Contents
<1> DEFINE u == s \o t
<1>1. /\ Len(s) \in Nat /\ Len(t) \in Nat \ {0} /\ Len(u) = Len(s) + Len(t)
      /\ \A i \in 1 .. Len(s) + Len(t) : u[i] = IF i <= Len(s) THEN s[i] ELSE t[i - Len(s)]
  BY ConcatProperties, LenProperties, HeadAndTail
<1>2. Head(t) = t[1]
  OBVIOUS
<1> HIDE DEF u
<1>3. PICK i \in 1 .. Len(s) : s[i] = Final
  BY DEF HasFinal
<1>4. /\ i \in 1 .. Len(u) /\ u[i] = Final /\ Len(s) + 1 \in 1 .. Len(u) /\ i < Len(s) + 1
      /\ u[Len(s) + 1] = t[1]
  BY <1>1, <1>3
<1> QED
  BY <1>2, <1>4 DEF NoneBehind, u

-----------------------------------------------------------------------------
LEMMA InitAnswer == Init => AnswerInv
<1> SUFFICES ASSUME Init PROVE AnswerInv
  OBVIOUS
<1>1. Len(<<>>) = 0 /\ <<>> \o <<>> = <<>> /\ <<>> \in Seq(Messages)
  BY EmptySeq, ConcatEmptySeq
<1>2. Taken = <<>> /\ produced \o wire = <<>> /\ response = <<>>
  BY <1>1 DEF Init, Taken, Goroutines
<1>3. AnswerTaken
  BY <1>2, ContentsOfNone DEF AnswerTaken
<1>4. \A i \in 1 .. Len(<<>>) : FALSE
  BY <1>1
<1>5. NoneBehind(<<>>) /\ ~HasFinal(<<>>)
  BY <1>4 DEF NoneBehind, HasFinal
<1>6. FinalIsBehind
  BY <1>2, <1>5 DEF FinalIsBehind
<1>7. EndsInOrder /\ FinalInv
  BY DEF Init, EndsInOrder, FinalInv, Goroutines
<1> QED
  BY <1>3, <1>6, <1>7 DEF AnswerInv

LEMMA EndsKept ==
    ASSUME TypeOK, HandsFit, EndsInOrder, [Next]_vars PROVE EndsInOrder'
<1> USE DEF EndsInOrder
<1> hand \in [Goroutines -> Hands] /\ status \in [Goroutines -> {"open", "returning", "closed"}]
    /\ upstream \in {"content", "final", "eof", "broken"} /\ client \in {"connected", "gone"}
    /\ serving \in {"range", "finishing", "returned"} /\ cancelled \in BOOLEAN
  BY DEF TypeOK
<1> {"reader", "converter", "loop", "handler"} = Goroutines
  BY DEF Goroutines
<1>1. CASE UNCHANGED vars
  BY <1>1 DEF vars
<1>2. CASE UpstreamSends \/ UpstreamFinishes \/ UpstreamCloses \/ UpstreamBreaks
  <2>1. /\ upstreamFrame /\ ~cancelled /\ upstream \in {"content", "final"}
    BY <1>2 DEF UpstreamSends, UpstreamFinishes, UpstreamCloses, UpstreamBreaks
  <2>2. UNCHANGED <<protocol, client, cancelled, status, serving>>
    BY <2>1 DEF upstreamFrame
  <2> QED BY <2>1, <2>2
<1>3. CASE ClientLeaves \/ NoticeGone
  BY <1>3 DEF ClientLeaves, NoticeGone, clientFrame
<1>4. CASE ReaderScans
  BY <1>4 DEF ReaderScans, readerFrame
<1>5. CASE ReaderEnds
  BY <1>5 DEF ReaderEnds, readerFrame
<1>6. CASE ReaderOffers
  BY <1>6 DEF ReaderOffers, readerFrame
<1>7. CASE ReaderGivesUp
  BY <1>7 DEF ReaderGivesUp, readerFrame
<1>8. CASE ConverterCancelled
  BY <1>8 DEF ConverterCancelled, ConverterIdle, CloseConverter, converterFrame
<1>9. CASE AnthropicPolls
  BY <1>9 DEF AnthropicPolls, converterFrame
<1>10. CASE AnthropicNext
  BY <1>10 DEF AnthropicNext, Emits, converterFrame, HandsFit
<1>11. CASE AnthropicNextFails
  BY <1>11 DEF AnthropicNextFails, Emits, converterFrame, HandsFit
<1>12. CASE AnthropicNextEnds
  BY <1>12 DEF AnthropicNextEnds, converterFrame, HandsFit
<1>13. CASE ChatTakes
  BY <1>13 DEF ChatTakes, converterFrame
<1>14. CASE ChatCompletes
  BY <1>14 DEF ChatCompletes, ConverterIdle, Emits, converterFrame
<1>15. CASE Emit
  BY <1>15 DEF Emit, ConverterPassedOn, converterFrame
<1>16. CASE ChatEmitCancelled
  BY <1>16 DEF ChatEmitCancelled, ConverterPassedOn, converterFrame
<1>17. CASE Loop
  BY <1>17 DEF Loop, LoopReceives, LoopCloses, loopFrame
<1>18. CASE Handler
  BY <1>18 DEF Handler, HandlerReceives, HandlerWrites, HandlerWriteFails, HandlerRangeEnds,
               HandlerReturns, handlerFrame
<1> QED
  BY <1>1, <1>2, <1>3, <1>4, <1>5, <1>6, <1>7, <1>8, <1>9, <1>10, <1>11, <1>12, <1>13, <1>14,
     <1>15, <1>16, <1>17, <1>18 DEF Next, Environment, Reader, Converter

\* Loop adds to the answer what it takes; the handler hands it on.
LEMMA TakenKept ==
    ASSUME TypeOK, AnswerTaken, [Next]_vars PROVE AnswerTaken'
<1> SUFFICES ASSUME serving' = "range" PROVE response' = OnlyContents(Taken')
  BY DEF AnswerTaken
<1> hand \in [Goroutines -> Hands]
    /\ "reader" \in Goroutines /\ "converter" \in Goroutines /\ "loop" \in Goroutines
    /\ "handler" \in Goroutines
  BY DEF TypeOK, Goroutines
<1>1. CASE LoopReceives
  <2>1. /\ serving = "range" /\ events # <<>> /\ hand["loop"] = <<>>
        /\ hand'["loop"] = <<Head(events)>> /\ hand'["handler"] = hand["handler"]
        /\ written' = written /\ response' = response \o ContentOf(Head(events))
    BY <1>1 DEF LoopReceives, loopFrame
  <2> DEFINE p == written \o hand["handler"]
             m == Head(events)
  <2>2. /\ p \in Seq(Messages) /\ m \in Messages /\ p \o <<>> = p /\ p \o <<m>> = Append(p, m)
    <3>1. events \in Seq(Messages) /\ p \in Seq(Messages)
      BY PlacesTyped, ConcatProperties
    <3>2. m \in Messages
      BY <2>1, <3>1, HeadAndTail
    <3> HIDE DEF p, m
    <3> QED BY <3>1, <3>2, ConcatEmptySeq, AppendIsConcat
  <2>3. Taken = p \o <<>> /\ Taken' = p \o <<m>>
    BY <2>1 DEF Taken
  <2>4. response = OnlyContents(p) /\ response \in Seq(Contents)
    BY <2>1, <2>2, <2>3 DEF AnswerTaken, TypeOK
  <2>5. response' = response \o (IF m \in Contents THEN <<m>> ELSE <<>>)
    BY <2>1 DEF ContentOf
  <2> HIDE DEF p, m
  <2>6. OnlyContents(Append(p, m)) = IF m \in Contents THEN Append(OnlyContents(p), m) ELSE OnlyContents(p)
    BY <2>2, ContentsAppended
  <2>7. /\ response \o <<>> = response
        /\ m \in Contents => response \o <<m>> = Append(response, m)
    BY <2>4, ConcatEmptySeq, AppendIsConcat
  <2> QED BY <2>2, <2>3, <2>4, <2>5, <2>6, <2>7
<1>2. CASE HandlerReceives
  <2>1. /\ Taken = (written \o <<>>) \o hand["loop"]
        /\ Taken' = (written \o hand["loop"]) \o <<>>
        /\ serving = "range" /\ response' = response
    BY <1>2 DEF HandlerReceives, handlerFrame, Taken
  <2>2. written \in Seq(Messages) /\ hand["loop"] \in Seq(Messages)
    BY PlacesTyped
  <2>3. (written \o <<>>) \o hand["loop"] = (written \o hand["loop"]) \o <<>>
    <3>1. written \o <<>> = written
      BY <2>2, ConcatEmptySeq
    <3>2. written \o hand["loop"] \in Seq(Messages)
      BY <2>2, ConcatProperties
    <3> QED BY <3>1, <3>2, ConcatEmptySeq
  <2> QED BY <2>1, <2>3 DEF AnswerTaken
<1>3. CASE HandlerWrites
  <2>1. /\ Taken' = ((written \o hand["handler"]) \o <<>>) \o hand["loop"]
        /\ serving = "range" /\ response' = response
    BY <1>3 DEF HandlerWrites, handlerFrame, Taken
  <2>2. (written \o hand["handler"]) \o <<>> = written \o hand["handler"]
    BY PlacesTyped, ConcatProperties, ConcatEmptySeq
  <2> QED BY <2>1, <2>2 DEF AnswerTaken, Taken
<1>4. CASE HandlerWriteFails \/ HandlerRangeEnds \/ HandlerReturns
  BY <1>4 DEF HandlerWriteFails, HandlerRangeEnds, HandlerReturns
<1>5. ASSUME UNCHANGED <<written, response, serving>>, hand'["handler"] = hand["handler"],
             hand'["loop"] = hand["loop"]
      PROVE  response' = OnlyContents(Taken')
  BY <1>5 DEF AnswerTaken, Taken
<1>6. CASE Environment \/ NoticeGone \/ LoopCloses \/ UNCHANGED vars
  BY <1>5, <1>6 DEF Environment, UpstreamSends, UpstreamFinishes, UpstreamCloses, UpstreamBreaks,
              ClientLeaves, NoticeGone, upstreamFrame, clientFrame, LoopCloses, loopFrame, vars
<1>7. CASE Reader
  BY <1>5, <1>7 DEF Reader, ReaderScans, ReaderEnds, ReaderOffers, ReaderGivesUp, readerFrame
<1>8. CASE Converter
  BY <1>5, <1>8 DEF Converter, ConverterCancelled, CloseConverter, AnthropicPolls, AnthropicNext,
              AnthropicNextFails, AnthropicNextEnds, ChatTakes, ChatCompletes, Emit,
              ChatEmitCancelled, ConverterPassedOn, Emits, converterFrame
<1> QED
  BY <1>1, <1>2, <1>3, <1>4, <1>6, <1>7, <1>8 DEF Next, Loop, Handler

\* The upstream sends nothing behind its last message, and what is read stays
\* in its place.
LEMMA BehindKept ==
    ASSUME TypeOK, HandsFit, EndsInOrder, FinalIsBehind, [Next]_vars PROVE FinalIsBehind'
<1> SUFFICES ASSUME ~cancelled'
             PROVE  /\ NoneBehind(produced' \o wire')
                    /\ upstream' = "content" => ~HasFinal(produced' \o wire')
  BY DEF FinalIsBehind, NoneBehind, HasFinal
<1> DEFINE line == produced \o wire
<1>1. produced \in Seq(Messages) /\ wire \in Seq(Messages) /\ line \in Seq(Messages)
  BY ConcatProperties DEF TypeOK
<1>2. ~cancelled => NoneBehind(line) /\ (upstream = "content" => ~HasFinal(line))
  BY DEF FinalIsBehind
<1> HIDE DEF line
<1>3. CASE UpstreamSends
  <2>1. /\ ~cancelled /\ upstream = "content" /\ produced' = produced
        /\ sent < MaxMessages /\ wire' = Append(wire, sent + 1) /\ sent \in 0 .. MaxMessages
    BY <1>3 DEF UpstreamSends, upstreamFrame, TypeOK
  <2>2. sent + 1 \in Messages /\ sent + 1 \in Contents
    BY <2>1, MaxMessagesAssumption DEF Messages, Contents
  <2>3. sent + 1 # Final
    BY <2>2, MessageFacts
  <2>4. produced \o Append(wire, sent + 1) = Append(line, sent + 1)
    BY <1>1, <2>2, AddedBehind DEF line
  <2>5. NoneBehind(Append(line, sent + 1)) /\ ~HasFinal(Append(line, sent + 1))
    BY <1>1, <1>2, <2>1, <2>2, <2>3, BehindAppended
  <2> QED BY <2>1, <2>4, <2>5
<1>4. CASE UpstreamFinishes
  <2>1. PICK m \in {Final, Error} : wire' = Append(wire, m)
    BY <1>4 DEF UpstreamFinishes
  <2>2. ~cancelled /\ produced' = produced /\ upstream' = "final" /\ m \in Messages /\ m \notin Contents
    BY <1>4, MessageFacts DEF UpstreamFinishes, upstreamFrame
  <2>3. produced \o Append(wire, m) = Append(line, m)
    BY <1>1, <2>2, AddedBehind DEF line
  <2>4. NoneBehind(Append(line, m))
    BY <1>1, <1>2, <2>2, BehindAppended
  <2> QED BY <2>1, <2>2, <2>3, <2>4
<1>5. CASE UpstreamBreaks
  <2>1. PICK n \in 0 .. Len(wire) : wire' = SubSeq(wire, 1, n)
    BY <1>5 DEF UpstreamBreaks
  <2>2. ~cancelled /\ produced' = produced /\ upstream' = "broken"
    BY <1>5 DEF UpstreamBreaks, upstreamFrame
  <2> DEFINE v == produced \o SubSeq(wire, 1, n)
  <2>3. v \in Seq(Messages) /\ Len(v) <= Len(line) /\ \A i \in 1 .. Len(v) : v[i] = line[i]
    BY <1>1, CutBehind DEF line
  <2> HIDE DEF v
  <2>4. NoneBehind(v)
    BY <1>1, <1>2, <2>2, <2>3, BehindShortened
  <2> QED BY <2>1, <2>2, <2>4 DEF v
<1>6. CASE UNCHANGED <<produced, wire>>
  <2>1. ~cancelled /\ (upstream' = "content" => upstream = "content")
    <3>1. CASE Environment \/ NoticeGone
      BY <3>1 DEF Environment, UpstreamSends, UpstreamFinishes, UpstreamCloses, UpstreamBreaks,
                  ClientLeaves, NoticeGone, upstreamFrame, clientFrame
    <3>2. CASE Reader
      BY <3>2 DEF Reader, ReaderScans, ReaderEnds, ReaderOffers, ReaderGivesUp, readerFrame
    <3>3. CASE Converter
      BY <3>3 DEF Converter, ConverterCancelled, AnthropicPolls, AnthropicNext, AnthropicNextFails,
                  AnthropicNextEnds, ChatTakes, ChatCompletes, Emit, ChatEmitCancelled, converterFrame
    <3>4. CASE Loop
      BY <3>4 DEF Loop, LoopReceives, LoopCloses, loopFrame
    <3>5. CASE Handler
      BY <3>5 DEF Handler, HandlerReceives, HandlerWrites, HandlerWriteFails, HandlerRangeEnds,
                  HandlerReturns, handlerFrame
    <3>6. CASE UNCHANGED vars
      BY <3>6 DEF vars
    <3> QED BY <3>1, <3>2, <3>3, <3>4, <3>5, <3>6 DEF Next
  <2> QED BY <1>2, <1>6, <2>1 DEF line
<1>7. CASE ReaderScans \/ AnthropicNext
  <2>1. /\ wire # <<>> /\ wire' = Tail(wire) /\ produced' = Append(produced, Head(wire))
        /\ ~cancelled /\ upstream' = upstream
    BY <1>7 DEF ReaderScans, readerFrame, AnthropicNext, converterFrame
  <2>2. produced' \o wire' = line
    BY <1>1, <2>1, BehindRead DEF line
  <2> QED BY <1>2, <2>1, <2>2
<1>8. CASE AnthropicNextFails \/ (ChatCompletes /\ ~finalUsage)
  <2>1. \E m \in {Completed, Failed} : produced' = Append(produced, m)
    BY <1>8 DEF AnthropicNextFails, ChatCompletes
  <2>2. PICK m \in {Completed, Failed} : produced' = Append(produced, m)
    BY <2>1
  <2>3. ~cancelled /\ wire' = wire /\ upstream' = upstream
    BY <1>8 DEF AnthropicNextFails, ChatCompletes, converterFrame
  <2>4. wire = <<>> /\ upstream # "content"
    BY <1>8, <2>3 DEF AnthropicNextFails, ChatCompletes, EndsInOrder
  <2>5. m \in Messages /\ m \notin Contents
    BY MessageFacts
  <2>6. line = produced
    BY <1>1, <2>4, ConcatEmptySeq DEF line
  <2>7. Append(produced, m) \in Seq(Messages)
    BY <1>1, <2>5, AppendProperties
  <2>8. Append(produced, m) \o <<>> = Append(produced, m)
    BY <2>7, ConcatEmptySeq
  <2>9. NoneBehind(Append(produced, m))
    BY <1>1, <1>2, <2>3, <2>5, <2>6, BehindAppended
  <2> QED BY <2>2, <2>3, <2>4, <2>8, <2>9
<1>9. CASE ReaderEnds \/ ReaderOffers \/ ReaderGivesUp
  BY <1>6, <1>9 DEF ReaderEnds, ReaderOffers, ReaderGivesUp
<1>10. CASE \/ ConverterCancelled \/ AnthropicPolls \/ AnthropicNextEnds \/ ChatTakes
            \/ (ChatCompletes /\ finalUsage) \/ Emit \/ ChatEmitCancelled
  BY <1>6, <1>10 DEF ConverterCancelled, CloseConverter, AnthropicPolls, AnthropicNextEnds,
       ChatTakes, ChatCompletes, Emit, ChatEmitCancelled, ConverterPassedOn
<1>11. CASE UpstreamCloses \/ ClientLeaves \/ NoticeGone \/ Loop \/ Handler \/ UNCHANGED vars
  <2>1. UNCHANGED <<produced, wire>>
    BY <1>11 DEF UpstreamCloses, upstreamFrame, ClientLeaves, NoticeGone, clientFrame, Loop,
         LoopReceives, LoopCloses, loopFrame, Handler, HandlerReceives, HandlerWrites,
         HandlerWriteFails, HandlerRangeEnds, HandlerReturns, handlerFrame, vars
  <2> QED BY <1>6, <2>1
<1> QED
  BY <1>3, <1>4, <1>5, <1>7, <1>8, <1>9, <1>10, <1>11 DEF Next, Environment, Reader, Converter

LEMMA FourInARow ==
    ASSUME NEW s \in Seq(Messages), NEW e \in Seq(Messages), NEW h \in Seq(Messages),
           NEW c \in Seq(Messages)
    PROVE  ((s \o e) \o h) \o c = s \o (e \o (h \o c))
<1> DEFINE u == s \o e
           v == h \o c
<1>1. u \in Seq(Messages) /\ v \in Seq(Messages)
  BY ConcatProperties
<1>2. u \o v = s \o (e \o v)
  <2> HIDE DEF v
  <2> QED BY <1>1, ConcatAssociative, SMTT(40)
<1>3. (u \o h) \o c = u \o v
  <2> HIDE DEF u
  <2> QED BY <1>1, ConcatAssociative, SMTT(40)
<1> QED
  BY <1>2, <1>3, Zenon

LEMMA ComingTyped == TypeOK => Coming \in Seq(Messages)
<1> SUFFICES ASSUME TypeOK PROVE Coming \in Seq(Messages)
  OBVIOUS
<1>1. Kept \in Seq(Messages)
  BY PlacesTyped
<1>2. chunks \in Seq(Messages) /\ hand["reader"] \in Seq(Messages)
  BY PlacesTyped DEF Goroutines
<1>3. Kept \o chunks \in Seq(Messages)
  BY <1>1, <1>2, ConcatProperties
<1> QED
  BY <1>2, <1>3, ConcatProperties DEF Coming

\* The final answer is taken when all of it is read, and nothing is added.
LEMMA FinalAnswerTaken ==
    ASSUME TypeOK, Chain, AnswerInv, HandlerReceives, client = "connected",
           hand["loop"] = <<Completed>>
    PROVE  response = OnlyContents(produced) /\ HasFinal(produced)
<1>1. /\ serving = "range" /\ hand["handler"] = <<>> /\ ~cancelled
  BY DEF HandlerReceives, AnswerInv, EndsInOrder
<1>2. /\ written \in Seq(Messages) /\ events \in Seq(Messages) /\ hand["converter"] \in Seq(Messages)
      /\ wire \in Seq(Messages) /\ produced \in Seq(Messages) /\ Coming \in Seq(Messages)
      /\ written \o <<>> = written
  <2>1. wire \in Seq(Messages) /\ produced \in Seq(Messages)
    BY DEF TypeOK
  <2>2. /\ written \in Seq(Messages) /\ events \in Seq(Messages)
        /\ hand["converter"] \in Seq(Messages)
    BY PlacesTyped DEF Goroutines
  <2>3. written \o <<>> = written
    BY <2>2, ConcatEmptySeq
  <2> QED BY <2>1, <2>2, <2>3, ComingTyped
<1> DEFINE took == Append(written, Final)
           coming == hand["converter"] \o Coming
           rest == events \o coming
<1>3. /\ took \in Seq(Messages) /\ coming \in Seq(Messages) /\ rest \in Seq(Messages)
      /\ Len(took) \in Nat \ {0} /\ took[Len(took)] = Final
  <2>1. took \in Seq(Messages) /\ Len(took) = Len(written) + 1 /\ took[Len(written) + 1] = Final
    BY <1>2, MessageFacts, AppendProperties
  <2>2. Len(written) \in Nat
    BY <1>2, LenProperties
  <2>3. coming \in Seq(Messages)
    BY <1>2, ConcatProperties
  <2> HIDE DEF coming
  <2>4. rest \in Seq(Messages)
    BY <1>2, <2>3, ConcatProperties
  <2> HIDE DEF took, rest
  <2> QED BY <2>1, <2>2, <2>3, <2>4
<1>4. Taken = took
  <2>1. Taken = (written \o <<>>) \o <<Final>>
    BY <1>1, MessageFacts DEF Taken
  <2>2. written \o <<Final>> = Append(written, Final)
    BY <1>2, MessageFacts, AppendIsConcat
  <2> QED BY <1>2, <2>1, <2>2
<1>5. produced = took \o rest
  <2>1. produced = ((Taken \o events) \o hand["converter"]) \o Coming
    BY <1>1 DEF Chain, InFlight, Passed, Taken
  <2>2. took \in Seq(Messages)
    BY <1>3
  <2> HIDE DEF took
  <2>3. ((took \o events) \o hand["converter"]) \o Coming = took \o (events \o (hand["converter"] \o Coming))
    <3> DEFINE h == hand["converter"]
               c == Coming
    <3>1. events \in Seq(Messages) /\ h \in Seq(Messages) /\ c \in Seq(Messages)
      BY <1>2
    <3> HIDE DEF h, c
    <3>2. ((took \o events) \o h) \o c = took \o (events \o (h \o c))
      BY <2>2, <3>1, FourInARow, ZenonT(90)
    <3> QED BY <3>2 DEF h, c
  <2> QED BY <1>4, <2>1, <2>3
<1> HIDE DEF took, rest, coming
<1>6. NoneBehind(produced)
  <2>1. /\ produced \o wire \in Seq(Messages) /\ Len(produced) <= Len(produced \o wire)
        /\ \A i \in 1 .. Len(produced) : produced[i] = (produced \o wire)[i]
    <3>1. /\ Len(produced) \in Nat /\ Len(wire) \in Nat
          /\ Len(produced \o wire) = Len(produced) + Len(wire)
      BY <1>2, ConcatProperties, LenProperties
    <3>2. \A i \in 1 .. Len(produced) + Len(wire) :
            (produced \o wire)[i] = IF i <= Len(produced) THEN produced[i] ELSE wire[i - Len(produced)]
      BY <1>2, ConcatProperties
    <3> QED BY <1>2, <3>1, <3>2, ConcatProperties
  <2>2. NoneBehind(produced \o wire)
    BY <1>1 DEF AnswerInv, FinalIsBehind
  <2> QED BY <1>2, <2>1, <2>2, BehindShortened
<1>7. /\ Len(rest) \in Nat /\ Len(produced) = Len(took) + Len(rest)
      /\ \A i \in 1 .. Len(took) + Len(rest) : produced[i] = IF i <= Len(took) THEN took[i] ELSE rest[i - Len(took)]
  BY <1>3, <1>5, ConcatProperties, LenProperties
<1>8. Len(took) \in 1 .. Len(produced) /\ produced[Len(took)] = Final
  BY <1>3, <1>7
<1>9. ASSUME NEW i \in 1 .. Len(rest) PROVE rest[i] \notin Contents
  <2>1. /\ Len(took) + i \in 1 .. Len(produced) /\ Len(took) < Len(took) + i
        /\ produced[Len(took) + i] = rest[i]
    BY <1>3, <1>7
  <2> QED BY <1>6, <1>8, <2>1 DEF NoneBehind
<1>10. OnlyContents(took \o rest) = OnlyContents(took)
  BY <1>3, <1>9, ContentsBehind
<1>11. response = OnlyContents(took)
  BY <1>1, <1>4 DEF AnswerInv, AnswerTaken
<1> QED
  BY <1>5, <1>8, <1>10, <1>11 DEF HasFinal

LEMMA FinalKeptWhole ==
    ASSUME TypeOK, HandsFit, Chain, AnswerInv, [Next]_vars PROVE FinalInv'
<1> SUFFICES ASSUME client' = "connected", final' # <<>>
             PROVE  final' = <<OnlyContents(produced')>> /\ HasFinal(produced')
  BY DEF FinalInv, HasFinal
<1>1. client = "connected"
  <2>1. CASE Environment \/ NoticeGone
    BY <2>1 DEF Environment, UpstreamSends, UpstreamFinishes, UpstreamCloses, UpstreamBreaks,
                ClientLeaves, NoticeGone, upstreamFrame, clientFrame
  <2>2. CASE Reader
    BY <2>2 DEF Reader, ReaderScans, ReaderEnds, ReaderOffers, ReaderGivesUp, readerFrame
  <2>3. CASE Converter
    BY <2>3 DEF Converter, ConverterCancelled, AnthropicPolls, AnthropicNext, AnthropicNextFails,
                AnthropicNextEnds, ChatTakes, ChatCompletes, Emit, ChatEmitCancelled, converterFrame
  <2>4. CASE Loop
    BY <2>4 DEF Loop, LoopReceives, LoopCloses, loopFrame
  <2>5. CASE Handler
    BY <2>5 DEF Handler, HandlerReceives, HandlerWrites, HandlerWriteFails, HandlerRangeEnds,
                HandlerReturns, handlerFrame
  <2>6. CASE UNCHANGED vars
    BY <2>6 DEF vars
  <2> QED BY <2>1, <2>2, <2>3, <2>4, <2>5, <2>6 DEF Next
<1>2. final # <<>> => final = <<OnlyContents(produced)>> /\ HasFinal(produced)
  BY <1>1 DEF AnswerInv, FinalInv
<1>3. produced \in Seq(Messages) /\ wire \in Seq(Messages)
  BY DEF TypeOK
<1>4. ASSUME UNCHANGED <<final, produced>>
      PROVE  final' = <<OnlyContents(produced')>> /\ HasFinal(produced')
  BY <1>2, <1>4
<1>5. ASSUME final' = final, NEW m \in Messages, produced' = Append(produced, m),
             HasFinal(produced) => m \notin Contents
      PROVE  final' = <<OnlyContents(produced')>> /\ HasFinal(produced')
  <2>1. final = <<OnlyContents(produced)>> /\ HasFinal(produced) /\ m \notin Contents
    BY <1>2, <1>5
  <2>2. OnlyContents(Append(produced, m)) = OnlyContents(produced)
    BY <1>3, <2>1, ContentsAppended
  <2>3. HasFinal(Append(produced, m))
    <3> DEFINE u == Append(produced, m)
    <3>1. /\ Len(produced) \in Nat /\ Len(u) = Len(produced) + 1
          /\ \A i \in 1 .. Len(produced) : u[i] = produced[i]
      BY <1>3, AppendProperties, LenProperties
    <3> HIDE DEF u
    <3>2. \A i \in 1 .. Len(produced) : i \in 1 .. Len(u)
      BY <3>1
    <3>3. HasFinal(u)
      BY <2>1, <3>1, <3>2 DEF HasFinal
    <3> QED BY <3>3 DEF u
  <2> QED BY <1>5, <2>1, <2>2, <2>3
<1>6. CASE HandlerReceives
  <2>1. CASE hand["loop"] = <<Completed>>
    <3>1. final' = <<response>> /\ produced' = produced
      BY <1>6, <2>1 DEF HandlerReceives, handlerFrame
    <3> QED BY <1>1, <1>6, <2>1, <3>1, FinalAnswerTaken
  <2>2. CASE hand["loop"] # <<Completed>>
    BY <1>4, <1>6, <2>2 DEF HandlerReceives, handlerFrame
  <2> QED BY <2>1, <2>2
<1>7. CASE ReaderScans \/ AnthropicNext
  <2>1. wire # <<>> /\ produced' = Append(produced, Head(wire)) /\ final' = final
    BY <1>7 DEF ReaderScans, readerFrame, AnthropicNext, converterFrame
  <2>2. Head(wire) \in Messages
    BY <1>3, <2>1, HeadAndTail
  <2>3. ~cancelled
    <3>1. EndsInOrder
      BY DEF AnswerInv
    <3>2. CASE ReaderScans
      BY <1>1, <3>1, <3>2 DEF ReaderScans, EndsInOrder
    <3>3. CASE AnthropicNext
      BY <1>1, <3>1, <3>3 DEF AnthropicNext, EndsInOrder, HandsFit
    <3> QED BY <1>7, <3>2, <3>3
  <2>4. NoneBehind(produced \o wire)
    BY <2>3 DEF AnswerInv, FinalIsBehind
  <2>5. HasFinal(produced) => Head(wire) \notin Contents
    BY <1>3, <2>1, <2>4, ReadBehindFinal
  <2> QED BY <1>5, <2>1, <2>2, <2>5
<1>8. CASE AnthropicNextFails \/ (ChatCompletes /\ ~finalUsage)
  <2>1. \E m \in {Completed, Failed} : produced' = Append(produced, m)
    BY <1>8 DEF AnthropicNextFails, ChatCompletes
  <2>2. PICK m \in {Completed, Failed} : produced' = Append(produced, m)
    BY <2>1
  <2>3. m \in Messages /\ m \notin Contents
    BY MessageFacts
  <2>4. final' = final
    BY <1>8 DEF AnthropicNextFails, ChatCompletes, converterFrame
  <2> QED BY <1>5, <2>2, <2>3, <2>4
<1>9. CASE ReaderEnds \/ ReaderOffers \/ ReaderGivesUp
  BY <1>4, <1>9 DEF ReaderEnds, ReaderOffers, ReaderGivesUp, readerFrame
<1>10. CASE \/ ConverterCancelled \/ AnthropicPolls \/ AnthropicNextEnds \/ ChatTakes
            \/ (ChatCompletes /\ finalUsage) \/ Emit \/ ChatEmitCancelled
  BY <1>4, <1>10 DEF ConverterCancelled, CloseConverter, AnthropicPolls, AnthropicNextEnds,
       ChatTakes, ChatCompletes, Emit, ChatEmitCancelled, ConverterPassedOn, converterFrame
<1>11. CASE \/ HandlerWrites \/ HandlerWriteFails \/ HandlerRangeEnds \/ HandlerReturns
            \/ Environment \/ NoticeGone \/ Loop \/ UNCHANGED vars
  <2>1. UNCHANGED <<final, produced>>
    BY <1>11 DEF Environment, UpstreamSends, UpstreamFinishes, UpstreamCloses, UpstreamBreaks,
         upstreamFrame, ClientLeaves, NoticeGone, clientFrame, Loop,
         LoopReceives, LoopCloses, loopFrame, HandlerWrites,
         HandlerWriteFails, HandlerRangeEnds, HandlerReturns, handlerFrame, vars
  <2> QED BY <1>4, <2>1
<1> QED
  BY <1>6, <1>7, <1>8, <1>9, <1>10, <1>11 DEF Next, Reader, Converter, Handler

\* What is reported as a streamed answer, and remembered of it, is all that was
\* read of it, unless the client left: the handler of handleAdapterStream takes
\* it from the event that streamLoop sends last, behind which the upstream says
\* nothing.
THEOREM FinalAnswerIsWhole == Spec => []FinalIsWhole
<1> DEFINE Inv == TypeOK /\ HandsFit /\ FinalIsLastRead /\ Chain /\ AnswerInv
<1>1. Init => Inv
  BY InitTypes, InitHands, InitFinal, InitChain, InitAnswer
<1>2. Inv /\ [Next]_vars => Inv'
  <2>1. Inv /\ [Next]_vars => AnswerInv'
    BY TakenKept, BehindKept, EndsKept, FinalKeptWhole DEF AnswerInv
  <2> QED BY <2>1, TypesKept, HandsKept, FinalKept, ChainKept
<1>3. Inv => FinalIsWhole
  BY DEF AnswerInv, FinalInv, FinalIsWhole
<1> QED
  BY <1>1, <1>2, <1>3, PTL DEF Spec
=============================================================================

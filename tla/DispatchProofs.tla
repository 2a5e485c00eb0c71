---------------------------- MODULE DispatchProofs ----------------------------
(***************************************************************************)
(* For every set of configurations and model names, every number of        *)
(* providers, candidates and reloads: a request is answered once and       *)
(* counted only together with the report of its success; each call of an   *)
(* upstream goes to a candidate in its turn, with an address and a         *)
(* credential of one snapshot, and where the configuration says if no      *)
(* reload fell in between.                                                 *)
(***************************************************************************)
EXTENDS Dispatch, SequenceTheorems, FiniteSetTheorems, TLAPS

\* Where the client has its answer, and where a call is under way.
Ended == {"copying", "streaming", "done"}
Calling == {"connecting", "copying", "awaiting", "starting", "streaming"}
Begun == {"answered", "broken", "whole"}

Given == [from : {"proxy", "upstream"}, status : {200, 400, 404, 405, 426, 500, 502}]

\* What was sent are records of calls, each with an outcome.
CallsInv ==
    /\ \E S : calls \in Seq(S) /\ \A c \in S : "outcome" \in DOMAIN c
    /\ pc \in Calling => calls # <<>>

\* The answer is given where the handler's place says so, and one of an
\* upstream only after that began to answer.
AnswerInv ==
    /\ pc \notin Ended => answers = <<>>
    /\ pc \in Ended => \E a \in Given : answers = <<a>>
    /\ pc \in {"copying", "streaming"} => answers[1].from = "upstream"
    /\ answers # <<>> /\ answers[1].from = "upstream"
         => calls[Len(calls)].outcome \in Begun

\* Nothing is reported or counted before the end.
ReportInv ==
    /\ pc # "done" => reports = <<>> /\ counted = 0
    /\ reports = <<>> \/ \E s \in {"success", "error"} : \E k :
                             reports = <<[status |-> s, key |-> k]>>
    /\ counted \in {0, 1}
    /\ counted = 1 => reports # <<>> /\ reports[1].status = "success"
    /\ pc = "done" /\ answers[1].from = "upstream" => reports # <<>>

IInv == CallsInv /\ AnswerInv /\ ReportInv

-----------------------------------------------------------------------------
(* Sequences.                                                              *)

LEMMA FirstElement ==
    ASSUME NEW x
    PROVE  Append(<<>>, x) = <<x>> /\ <<x>> # <<>> /\ <<x>>[1] = x /\ Len(<<x>>) = 1
OBVIOUS

\* A call that is sent is the last one.
LEMMA CallSent ==
    ASSUME CallsInv, NEW r, "outcome" \in DOMAIN r, calls' = Append(calls, r)
    PROVE  CallsInv' /\ calls' # <<>>
<1>1. PICK S : calls \in Seq(S) /\ \A c \in S : "outcome" \in DOMAIN c
  BY DEF CallsInv
<1> DEFINE T == S \cup {r}
<1>2. calls \in Seq(T)
  BY <1>1, SeqMonotonic
<1>3. calls' \in Seq(T) /\ calls' # <<>>
  BY <1>2, AppendProperties
<1>4. \A c \in T : "outcome" \in DOMAIN c
  BY <1>1
<1> QED
  BY <1>3, <1>4 DEF CallsInv

\* Its outcome is noted.
LEMMA OutcomeNoted ==
    ASSUME CallsInv, calls # <<>>, NEW o, Outcome(o)
    PROVE  CallsInv' /\ calls' # <<>> /\ calls'[Len(calls')].outcome = o
<1>1. PICK S : calls \in Seq(S) /\ \A c \in S : "outcome" \in DOMAIN c
  BY DEF CallsInv
<1>2. Len(calls) \in Nat \ {0} /\ Len(calls) \in DOMAIN calls
  BY <1>1, LenProperties, EmptySeq
<1> DEFINE n == Len(calls)
           d == [calls[n] EXCEPT !.outcome = o]
           T == S \cup {d}
<1>3. calls[n] \in S
  BY <1>1, <1>2, ElementOfSeq
<1>4. "outcome" \in DOMAIN d /\ d.outcome = o
  BY <1>1, <1>3
<1>5. calls' = [calls EXCEPT ![n] = d]
  BY DEF Outcome
<1>6. calls \in Seq(T) /\ d \in T
  BY <1>1, SeqMonotonic
<1> HIDE DEF d, T
<1>7. calls' \in Seq(T) /\ Len(calls') = n /\ calls'[n] = d
  BY <1>2, <1>5, <1>6, ExceptSeq
<1>8. \A c \in T : "outcome" \in DOMAIN c
  BY <1>1, <1>4 DEF T
<1>9. calls' # <<>>
  BY <1>2, <1>7
<1> QED
  BY <1>4, <1>7, <1>8, <1>9 DEF CallsInv

-----------------------------------------------------------------------------
(* Steps.                                                                  *)

LEMMA InitInv == Init => IInv
<1> SUFFICES ASSUME Init PROVE IInv
  OBVIOUS
<1>1. <<>> \in Seq({})
  BY EmptySeq
<1>2. CallsInv
  BY <1>1 DEF Init, CallsInv, Calling
<1> QED
  BY <1>2 DEF Init, IInv, AnswerInv, ReportInv, Ended

\* A step on the way to the answer.
LEMMA OnTheWay ==
    ASSUME IInv, pc \notin Ended, pc' \notin Ended \cup Calling,
           UNCHANGED <<calls, answers, reports, counted>>
    PROVE  IInv'
BY DEF IInv, CallsInv, AnswerInv, ReportInv, Ended

\* An answer of the proxy itself that is not reported.
LEMMA Refused ==
    ASSUME IInv, pc \notin Ended, NEW status \in {400, 404, 405, 426, 500, 502},
           Answer("proxy", status), pc' = "done", CallsInv', UNCHANGED <<reports, counted>>
    PROVE  IInv'
<1> DEFINE a == [from |-> "proxy", status |-> status]
<1>1. answers' = <<a>> /\ a \in Given
  BY DEF IInv, AnswerInv, Answer, Given
<1>2. answers'[1].from = "proxy"
  BY <1>1
<1>3. AnswerInv'
  BY <1>1, <1>2 DEF AnswerInv, Ended
<1>4. ReportInv'
  BY <1>2 DEF IInv, ReportInv, Ended
<1> QED
  BY <1>3, <1>4 DEF IInv

\* One that is.
LEMMA RefusedAndReported ==
    ASSUME IInv, pc \notin Ended, RefuseAndReport(502), CallsInv', UNCHANGED counted
    PROVE  IInv'
<1> DEFINE a == [from |-> "proxy", status |-> 502]
           r == [status |-> "error", key |-> Unset]
<1>1. answers' = <<a>> /\ a \in Given
  BY DEF IInv, AnswerInv, RefuseAndReport, Answer, Given
<1>2. answers'[1].from = "proxy" /\ pc' = "done"
  BY <1>1 DEF RefuseAndReport
<1>3. AnswerInv'
  BY <1>1, <1>2 DEF AnswerInv, Ended
<1>4. reports' = <<r>> /\ counted' = 0
  <2>1. reports = <<>> /\ counted = 0 /\ reports' = Append(reports, r)
    BY DEF IInv, ReportInv, RefuseAndReport, Report, Ended
  <2> QED
    BY <2>1
<1>5. ReportInv'
  BY <1>2, <1>4 DEF ReportInv
<1> QED
  BY <1>3, <1>5 DEF IInv

\* An upstream's answer begins: its call has an outcome that says so.
LEMMA Answered ==
    ASSUME IInv, pc \notin Ended, NEW status \in {200, 500}, Answer("upstream", status),
           CallsInv', calls'[Len(calls')].outcome \in Begun
    PROVE  /\ \E a \in Given : answers' = <<a>>
           /\ answers'[1].from = "upstream"
           /\ pc' \in Ended => AnswerInv'
<1> DEFINE a == [from |-> "upstream", status |-> status]
<1>1. answers' = <<a>> /\ a \in Given
  BY DEF IInv, AnswerInv, Answer, Given
<1>2. answers'[1].from = "upstream"
  BY <1>1
<1> QED
  BY <1>1, <1>2 DEF AnswerInv

\* It ends, with a report.
LEMMA AnswerEnds ==
    ASSUME IInv, pc \in {"copying", "streaming"}, pc' = "done", UNCHANGED answers,
           NEW s \in {"success", "error"}, NEW k, Report(s, k),
           NEW o \in Begun, Outcome(o),
           counted' = counted \/ (s = "success" /\ counted' = counted + 1)
    PROVE  IInv'
<1>1. pc \in Calling /\ pc \in Ended /\ pc # "done"
  BY DEF Calling, Ended
<1>2. CallsInv' /\ calls' # <<>> /\ calls'[Len(calls')].outcome \in Begun
  BY <1>1, OutcomeNoted DEF IInv, CallsInv
<1>3. AnswerInv'
  BY <1>1, <1>2 DEF IInv, AnswerInv, Ended
<1> DEFINE r == [status |-> s, key |-> k]
<1>4. reports' = <<r>> /\ counted = 0
  BY <1>1 DEF IInv, ReportInv, Report
<1>5. reports' # <<>> /\ reports'[1].status = s
  BY <1>4
<1>6. \E x \in {"success", "error"} : \E y : reports' = <<[status |-> x, key |-> y]>>
  BY <1>4
<1>7. counted' \in {0, 1} /\ (counted' = 1 => s = "success")
  BY <1>4
<1>8. ReportInv'
  BY <1>5, <1>6, <1>7 DEF ReportInv
<1> QED
  BY <1>2, <1>3, <1>8 DEF IInv

\* A call is sent before anything is answered.
LEMMA Sending ==
    ASSUME IInv, pc \notin Ended, pc' \notin Ended, NEW r, "outcome" \in DOMAIN r,
           calls' = Append(calls, r), UNCHANGED <<answers, reports, counted>>
    PROVE  IInv'
<1>1. CallsInv' /\ calls' # <<>>
  BY CallSent DEF IInv
<1> QED
  BY <1>1 DEF IInv, AnswerInv, ReportInv, Ended

\* The next candidate's turn, or none is left.
LEMMA HandedOver ==
    ASSUME IInv, pc \notin Ended, NextCandidate, CallsInv', UNCHANGED counted
    PROVE  IInv'
<1>1. CASE RefuseAndReport(502)
  BY <1>1, RefusedAndReported
<1>2. CASE pc' = "trying" /\ UNCHANGED <<answers, reports>>
  BY <1>2 DEF IInv, AnswerInv, ReportInv, Ended
<1> QED
  BY <1>1, <1>2 DEF NextCandidate

LEMMA HandlerKeeps ==
    ASSUME IInv,
           \/ Reject \/ Accept \/ UnknownModel \/ Resolve \/ NobodyTakesInput \/ Filter
           \/ Proxy \/ Adapt \/ FailToConvert \/ Inject \/ NoClient \/ ChooseClient
    PROVE  IInv'
<1>1. ASSUME NEW status \in {400, 404, 405, 426, 500, 502}, pc \notin Ended, Refuse(status)
      PROVE  IInv'
  <2>1. pc' = "done" /\ UNCHANGED <<calls, reports, counted>> /\ Answer("proxy", status)
    BY <1>1 DEF Refuse
  <2>2. CallsInv'
    BY <2>1 DEF IInv, CallsInv, Calling
  <2> QED
    BY <1>1, <2>1, <2>2, Refused
<1>2. CASE Reject
  BY <1>1, <1>2 DEF Reject, Ended
<1>3. CASE UnknownModel
  BY <1>1, <1>3 DEF UnknownModel, Ended
<1>4. CASE NobodyTakesInput
  BY <1>1, <1>4 DEF NobodyTakesInput, Ended
<1>5. CASE FailToConvert
  BY <1>1, <1>5 DEF FailToConvert, Ended
<1>6. CASE NoClient
  BY <1>1, <1>6 DEF NoClient, Ended
<1>7. CASE Accept \/ Resolve \/ Filter \/ Proxy \/ Adapt \/ Inject \/ ChooseClient
  <2>1. /\ pc \notin Ended /\ pc' \notin Ended \cup Calling
        /\ UNCHANGED <<calls, answers, reports, counted>>
    BY <1>7 DEF Accept, Resolve, Filter, Proxy, Adapt, Inject, ChooseClient, Ended, Calling
  <2> QED
    BY <2>1, OnTheWay
<1> QED
  BY <1>2, <1>3, <1>4, <1>5, <1>6, <1>7

LEMMA ProxyKeeps ==
    ASSUME IInv,
           SkipCandidate \/ TryCandidate \/ FailToConnect \/ CopyHeader \/ FailToCopy \/ CopyBody
    PROVE  IInv'
<1>1. CASE SkipCandidate
  <2>1. CallsInv'
    BY <1>1 DEF SkipCandidate, NextCandidate, RefuseAndReport, IInv, CallsInv, Calling
  <2> QED
    BY <1>1, <2>1, HandedOver DEF SkipCandidate, Ended
<1>2. CASE TryCandidate
  <2>1. PICK r : calls' = Append(calls, r) /\ "outcome" \in DOMAIN r
    BY <1>2 DEF TryCandidate
  <2> QED
    BY <1>2, <2>1, Sending DEF TryCandidate, Ended
<1>3. CASE FailToConnect
  <2>1. CallsInv'
    BY <1>3, OutcomeNoted DEF FailToConnect, IInv, CallsInv, Calling
  <2> QED
    BY <1>3, <2>1, HandedOver DEF FailToConnect, Ended
<1>4. CASE CopyHeader
  <2>1. CallsInv' /\ calls' # <<>> /\ calls'[Len(calls')].outcome \in Begun
    BY <1>4, OutcomeNoted DEF CopyHeader, IInv, CallsInv, Calling, Begun
  <2>2. pc' = "copying" /\ pc \notin Ended /\ UNCHANGED <<reports, counted>>
    BY <1>4 DEF CopyHeader, Ended
  <2>3. AnswerInv'
    BY <1>4, <2>1, <2>2, Answered DEF CopyHeader, Ended
  <2>4. ReportInv'
    BY <2>2 DEF IInv, ReportInv, Ended
  <2> QED
    BY <2>1, <2>3, <2>4 DEF IInv
<1>5. CASE FailToCopy
  BY <1>5, AnswerEnds DEF FailToCopy, Begun
<1>6. CASE CopyBody
  <2>1. /\ pc = "copying" /\ pc' = "done" /\ UNCHANGED answers
        /\ Outcome("whole") /\ "whole" \in Begun
    BY <1>6 DEF CopyBody, Begun
  <2>2. CASE answers[1].status = 200
    BY <1>6, <2>1, <2>2, AnswerEnds DEF CopyBody
  <2>3. CASE answers[1].status # 200
    BY <1>6, <2>1, <2>3, AnswerEnds DEF CopyBody
  <2> QED
    BY <2>2, <2>3
<1> QED
  BY <1>1, <1>2, <1>3, <1>4, <1>5, <1>6

LEMMA AdapterKeeps ==
    ASSUME IInv,
           \/ SendWhole \/ FailWhole \/ RespondWhole
           \/ SendStream \/ FailStream \/ StartStream \/ EndStream
    PROVE  IInv'
<1>1. CASE SendWhole \/ SendStream
  <2>1. PICK r : calls' = Append(calls, r) /\ "outcome" \in DOMAIN r
    BY <1>1 DEF SendWhole, SendStream, Send
  <2>2. pc \notin Ended /\ pc' \notin Ended /\ UNCHANGED <<answers, reports, counted>>
    BY <1>1 DEF SendWhole, SendStream, Send, Ended
  <2> QED
    BY <2>1, <2>2, Sending
<1>2. CASE FailWhole \/ FailStream
  <2>1. pc \in Calling /\ pc \notin Ended /\ FailUpstream
    BY <1>2 DEF FailWhole, FailStream, Calling, Ended
  <2>2. PICK o \in {"unreachable", "whole"} :
               Outcome(o) /\ \E status \in {500, 502} : Answer("proxy", status)
    BY <2>1 DEF FailUpstream
  <2>3. CallsInv'
    BY <2>1, <2>2, OutcomeNoted DEF IInv, CallsInv
  <2>4. pc' = "done" /\ UNCHANGED <<reports, counted>>
    BY <2>1 DEF FailUpstream
  <2> QED
    BY <2>1, <2>2, <2>3, <2>4, Refused
<1>3. CASE RespondWhole
  <2>1. CallsInv' /\ calls' # <<>> /\ calls'[Len(calls')].outcome \in Begun
    BY <1>3, OutcomeNoted DEF RespondWhole, IInv, CallsInv, Calling, Begun
  <2>2. pc' = "done" /\ pc \notin Ended
    BY <1>3 DEF RespondWhole, Ended
  <2>3. AnswerInv'
    BY <1>3, <2>1, <2>2, Answered DEF RespondWhole, Ended
  <2> DEFINE r == [status |-> "success", key |-> Preferred.key]
  <2>4. reports' = <<r>> /\ counted' = 1
    BY <1>3, <2>2 DEF RespondWhole, Report, IInv, ReportInv, Ended
  <2>5. ReportInv'
    BY <2>2, <2>4 DEF ReportInv
  <2> QED
    BY <2>1, <2>3, <2>5 DEF IInv
<1>4. CASE StartStream
  <2>1. CallsInv' /\ calls' # <<>> /\ calls'[Len(calls')].outcome \in Begun
    BY <1>4, OutcomeNoted DEF StartStream, IInv, CallsInv, Calling, Begun
  <2>2. pc' = "streaming" /\ pc \notin Ended /\ UNCHANGED <<reports, counted>>
    BY <1>4 DEF StartStream, Ended
  <2>3. AnswerInv'
    BY <1>4, <2>1, <2>2, Answered DEF StartStream, Ended
  <2>4. ReportInv'
    BY <2>2 DEF IInv, ReportInv, Ended
  <2> QED
    BY <2>1, <2>3, <2>4 DEF IInv
<1>5. CASE EndStream
  <2>1. PICK o \in Begun : Outcome(o) /\ counted' \in {counted, counted + 1}
    BY <1>5 DEF EndStream, Begun
  <2> QED
    BY <1>5, <2>1, AnswerEnds DEF EndStream
<1> QED
  BY <1>1, <1>2, <1>3, <1>4, <1>5

LEMMA NextInv == IInv /\ [Next]_vars => IInv'
<1> SUFFICES ASSUME IInv, [Next]_vars PROVE IInv'
  OBVIOUS
<1>1. CASE Reload \/ Done \/ UNCHANGED vars
  <2>1. UNCHANGED <<pc, calls, answers, reports, counted>>
    BY <1>1 DEF Reload, Done, vars
  <2> QED
    BY <2>1 DEF IInv, CallsInv, AnswerInv, ReportInv
<1> QED
  BY <1>1, HandlerKeeps, ProxyKeeps, AdapterKeeps DEF Next

\* The client gets exactly one answer by the time the handler returns, and
\* nothing of the proxy's own after an upstream began to answer.
THEOREM IsAnsweredOnce == Spec => []AnsweredOnce
<1>1. IInv => AnsweredOnce
  <2>1. \A a : Len(<<a>>) = 1
    OBVIOUS
  <2> QED
    BY <2>1 DEF IInv, AnswerInv, AnsweredOnce, Ended, Begun
<1> QED
  BY <1>1, InitInv, NextInv, PTL DEF Spec

\* A request is reported at most once and counted at most once, and only with
\* the report of its success.
THEOREM CountedIsReportedAlways == Spec => []CountedIsReported
<1>1. IInv => CountedIsReported
  <2> SUFFICES ASSUME ReportInv PROVE CountedIsReported
    BY DEF IInv
  <2>1. Len(reports) <= 1
    <3>1. CASE reports = <<>>
      BY <3>1
    <3>2. CASE reports # <<>>
      <4>1. PICK s, k : reports = <<[status |-> s, key |-> k]>>
        BY <3>2 DEF ReportInv
      <4> DEFINE x == [status |-> s, key |-> k]
      <4>2. reports = <<x>>
        BY <4>1
      <4> HIDE DEF x
      <4> QED
        BY <4>2
    <3> QED
      BY <3>1, <3>2
  <2>2. counted <= 1
    BY DEF ReportInv
  <2> QED
    BY <2>1, <2>2 DEF ReportInv, CountedIsReported
<1> QED
  BY <1>1, InitInv, NextInv, PTL DEF Spec

-----------------------------------------------------------------------------
(* Sorting.                                                                *)

\* A set of pairs that orders a set strictly.
Orders(R, S) ==
    /\ \A x \in S : <<x, x>> \notin R
    /\ \A x, y \in S : x # y => <<x, y>> \in R \/ <<y, x>> \in R
    /\ \A x, y, z \in S : <<x, y>> \in R /\ <<y, z>> \in R => <<x, z>> \in R

SortedBy(s, S, R) ==
    /\ s \in [1 .. Cardinality(S) -> S]
    /\ \A x \in S : \E i \in 1 .. Cardinality(S) : s[i] = x
    /\ \A i, j \in 1 .. Cardinality(S) : i < j => <<s[i], s[j]>> \in R

\* A finite set has such a sequence: the place of an element is the number of
\* those that are not after it.
LEMMA SortedExists ==
    ASSUME NEW S, IsFiniteSet(S), NEW R, Orders(R, S)
    PROVE  \E s : SortedBy(s, S, R)
<1> DEFINE n == Cardinality(S)
           upTo(x) == { y \in S : <<y, x>> \in R \/ y = x }
           place == [x \in S |-> Cardinality(upTo(x))]
<1>1. n \in Nat
  BY FS_CardinalityType
<1>2. ASSUME NEW x \in S
      PROVE  IsFiniteSet(upTo(x)) /\ place[x] = Cardinality(upTo(x)) /\ place[x] \in 1 .. n
  <2>1. upTo(x) \in SUBSET S
    OBVIOUS
  <2>2. IsFiniteSet(upTo(x)) /\ Cardinality(upTo(x)) <= n
    <3> HIDE DEF upTo
    <3> QED BY <2>1, FS_Subset
  <2>3. Cardinality(upTo(x)) \in Nat
    <3> HIDE DEF upTo
    <3> QED BY <2>2, FS_CardinalityType
  <2>4. Cardinality(upTo(x)) # 0
    <3>1. x \in upTo(x)
      OBVIOUS
    <3> HIDE DEF upTo
    <3> QED BY <2>2, <3>1, FS_EmptySet
  <2>5. place[x] = Cardinality(upTo(x))
    OBVIOUS
  <2> HIDE DEF upTo, place
  <2> QED BY <1>1, <2>2, <2>3, <2>4, <2>5
<1>3. ASSUME NEW x \in S, NEW y \in S, <<x, y>> \in R PROVE place[x] < place[y]
  <2>1. upTo(x) \subseteq upTo(y) /\ y \in upTo(y) /\ y \notin upTo(x)
    BY <1>3 DEF Orders
  <2>2. IsFiniteSet(upTo(y)) /\ upTo(x) # upTo(y) /\ upTo(x) \in SUBSET upTo(y)
    BY <1>2, <2>1
  <2>3. Cardinality(upTo(x)) <= Cardinality(upTo(y)) /\ Cardinality(upTo(x)) # Cardinality(upTo(y))
    <3> HIDE DEF upTo
    <3> QED BY <2>2, FS_Subset
  <2>4. /\ place[x] = Cardinality(upTo(x)) /\ place[y] = Cardinality(upTo(y))
        /\ place[x] \in 1 .. n /\ place[y] \in 1 .. n
    BY <1>2
  <2> HIDE DEF upTo, place
  <2> QED BY <1>1, <2>3, <2>4
<1>4. place \in Injection(S, 1 .. n)
  <2>1. place \in [S -> 1 .. n]
    BY <1>2
  <2>2. ASSUME NEW x \in S, NEW y \in S, place[x] = place[y] PROVE x = y
    <3>1. place[x] \in 1 .. n /\ place[y] \in 1 .. n
      BY <1>2
    <3> HIDE DEF place
    <3>2. ~ (place[x] < place[y]) /\ ~ (place[y] < place[x])
      BY <1>1, <2>2, <3>1
    <3> QED BY <1>3, <3>2 DEF Orders
  <2> HIDE DEF place
  <2> QED BY <2>1, <2>2 DEF Injection, IsInjective
<1>5. place \in Surjection(S, 1 .. n)
  <2>1. IsFiniteSet(1 .. n) /\ Cardinality(1 .. n) = n
    BY <1>1, FS_Interval
  <2> HIDE DEF place, n
  <2> QED BY <1>4, <2>1, FS_Injection DEF n
<1>6. \A i \in 1 .. n : \E x \in S : place[x] = i
  <2> HIDE DEF place
  <2> QED BY <1>5 DEF Surjection
<1> DEFINE s == [i \in 1 .. n |-> CHOOSE x \in S : place[x] = i]
<1> HIDE DEF place
<1>7. \A i \in 1 .. n : s[i] \in S /\ place[s[i]] = i
  BY <1>6
<1>8. s \in [1 .. n -> S]
  BY <1>7
<1> HIDE DEF s
<1>9. \A x \in S : \E i \in 1 .. n : s[i] = x
  <2> TAKE x \in S
  <2>1. place[x] \in 1 .. n
    BY <1>2
  <2>2. s[place[x]] \in S /\ place[s[place[x]]] = place[x]
    BY <1>7, <2>1
  <2>3. s[place[x]] = x
    <3> HIDE DEF n
    <3> QED BY <1>4, <2>2 DEF Injection, IsInjective
  <2> QED BY <2>1, <2>3
<1>10. ASSUME NEW i \in 1 .. n, NEW j \in 1 .. n, i < j PROVE <<s[i], s[j]>> \in R
  <2>1. s[i] \in S /\ s[j] \in S /\ place[s[i]] = i /\ place[s[j]] = j
    BY <1>7
  <2>2. s[i] # s[j] /\ ~ (place[s[j]] < place[s[i]])
    BY <1>1, <1>10, <2>1
  <2> QED BY <1>3, <2>1, <2>2 DEF Orders
<1> QED
  BY <1>8, <1>9, <1>10 DEF SortedBy

\* Kept: the candidates at some places, in their order.
IsKept(s, places) ==
    /\ s = [n \in 1 .. Cardinality(places) |-> s[n]]
    /\ Cardinality(places) \in Nat
    /\ \E f \in [1 .. Cardinality(places) -> places] :
         /\ \A n \in 1 .. Cardinality(places) : s[n] = candidates[f[n]]
         /\ \A i \in places : \E n \in 1 .. Cardinality(places) : f[n] = i
         /\ \A m, n \in 1 .. Cardinality(places) : m < n => f[m] < f[n]

LEMMA KeptInOrder ==
    ASSUME NEW n \in Nat, NEW places \in SUBSET (1 .. n)
    PROVE  IsKept(Kept(places), places)
<1> DEFINE R == { p \in places \X places : p[1] < p[2] }
           m == Cardinality(places)
           InTheirOrder(f) ==
             /\ \A x \in places : \E i \in 1 .. m : f[i] = x
             /\ \A i, j \in 1 .. m : i < j => f[i] < f[j]
           f == InOrder(places, LAMBDA i, j : i < j)
<1>1. IsFiniteSet(places) /\ m \in Nat
  <2>1. IsFiniteSet(1 .. n)
    BY FS_Interval
  <2>2. IsFiniteSet(places)
    BY <2>1, FS_Subset
  <2> QED BY <2>2, FS_CardinalityType
<1>2. Orders(R, places)
  BY DEF Orders
<1>3. PICK g : SortedBy(g, places, R)
  <2> HIDE DEF R
  <2> QED BY <1>1, <1>2, SortedExists
<1>4. g \in [1 .. m -> places] /\ InTheirOrder(g)
  BY <1>3 DEF SortedBy
<1>5. f = CHOOSE h \in [1 .. m -> places] : InTheirOrder(h)
  BY DEF InOrder
<1>6. f \in [1 .. m -> places] /\ InTheirOrder(f)
  <2> HIDE DEF InTheirOrder, f, m
  <2> QED BY <1>4, <1>5
<1>7. Kept(places) = [i \in 1 .. m |-> candidates[f[i]]]
  BY DEF Kept
<1> HIDE DEF f
<1> QED
  BY <1>1, <1>6, <1>7 DEF IsKept

-----------------------------------------------------------------------------
(* Resolution.                                                             *)

\* A snapshot's manager was made of its configuration.
IsSnapshot(v) ==
    /\ v.config \in Configs
    /\ v.manager.providers = v.config.providers
    /\ v.manager.routes = v.config.routes

Records == [key : STRING, model : STRING, protocol : STRING]

\* The candidates, or what a filter leaves of them, as they were resolved.
AsResolved(s, pm) ==
    /\ s \in Seq(Records)
    /\ \A i \in 1 .. Len(s) :
          /\ s[i].key \in DOMAIN pm.providers
          /\ s[i].protocol = pm.providers[s[i].key].protocol
          /\ Meant(pm, s[i].key, s[i].model)
    /\ \A i, j \in 1 .. Len(s) :
          i < j => Priority(pm, s[i].key, req.model) <= Priority(pm, s[j].key, req.model)

LEMMA PriorityIsNumber ==
    ASSUME NEW v, IsSnapshot(v), NEW k \in DOMAIN v.manager.providers, NEW name
    PROVE  Priority(v.manager, k, name) \in Int
BY ConfigsAssumption DEF IsSnapshot, Priority

\* A key has a place in the dictionary, and no two have the same.
LEMMA RankIsPlace == \A k \in Keys : Rank(k) \in Nat /\ KeyOrder[Rank(k)] = k /\ k \in STRING
<1> TAKE k \in Keys
<1>1. DOMAIN KeyOrder = 1 .. Len(KeyOrder) /\ Len(KeyOrder) \in Nat
  BY NamesAssumption, LenProperties
<1>2. \E i \in DOMAIN KeyOrder : KeyOrder[i] = k
  BY DEF Keys, Range
<1>3. Rank(k) \in DOMAIN KeyOrder /\ KeyOrder[Rank(k)] = k
  BY <1>2 DEF Rank
<1>4. Rank(k) \in 1 .. Len(KeyOrder)
  BY <1>1, <1>3
<1>5. KeyOrder[Rank(k)] \in STRING
  BY <1>4, NamesAssumption, ElementOfSeq
<1> QED
  BY <1>1, <1>3, <1>4, <1>5

LEMMA KeysAreFinite == IsFiniteSet(Keys)
<1> DEFINE n == Len(KeyOrder)
           f == [i \in 1 .. n |-> KeyOrder[i]]
<1>1. n \in Nat /\ DOMAIN KeyOrder = 1 .. n
  BY NamesAssumption, LenProperties
<1>2. f \in Surjection(1 .. n, Keys)
  BY <1>1 DEF Surjection, Keys, Range
<1>3. IsFiniteSet(1 .. n)
  BY <1>1, FS_Interval
<1> HIDE DEF f, n
<1> QED
  BY <1>2, <1>3, FS_Surjection

ByPriority(s, S, pm, name) ==
    /\ Cardinality(S) \in Nat
    /\ s \in [1 .. Cardinality(S) -> S]
    /\ \A k \in S : \E i \in 1 .. Cardinality(S) : s[i] = k
    /\ \A i, j \in 1 .. Cardinality(S) :
          i < j => Priority(pm, s[i], name) <= Priority(pm, s[j], name)

LEMMA SortedByPriority ==
    ASSUME NEW v, IsSnapshot(v), NEW name
    PROVE  ByPriority(Sorted(v.manager, name), Offering(v.manager, name), v.manager, name)
<1> DEFINE pm == v.manager
           S == Offering(pm, name)
           n == Cardinality(S)
           first(k, l) == \/ Priority(pm, k, name) < Priority(pm, l, name)
                          \/ /\ Priority(pm, k, name) = Priority(pm, l, name)
                             /\ Rank(k) < Rank(l)
           R == { p \in S \X S : first(p[1], p[2]) }
           InTheirOrder(f) ==
             /\ \A x \in S : \E i \in 1 .. n : f[i] = x
             /\ \A i, j \in 1 .. n : i < j => first(f[i], f[j])
<1>1. S \subseteq DOMAIN pm.providers /\ S \subseteq Keys
  BY ConfigsAssumption DEF IsSnapshot, Offering
<1>2. IsFiniteSet(S) /\ n \in Nat
  <2>1. S \in SUBSET Keys
    BY <1>1
  <2> HIDE DEF S
  <2>2. IsFiniteSet(S)
    BY <2>1, KeysAreFinite, FS_Subset
  <2> QED BY <2>2, FS_CardinalityType
<1>3. \A k \in S : /\ Priority(pm, k, name) \in Int
                   /\ Rank(k) \in Nat
                   /\ KeyOrder[Rank(k)] = k
  BY <1>1, PriorityIsNumber, RankIsPlace
<1>4. Orders(R, S)
  <2> HIDE DEF S, pm
  <2>1. \A x \in S : <<x, x>> \notin R
    BY <1>3
  <2>2. \A x, y \in S : x # y => <<x, y>> \in R \/ <<y, x>> \in R
    <3> TAKE x, y \in S
    <3> HAVE x # y
    <3>1. Rank(x) # Rank(y)
      BY <1>3
    <3>2. first(x, y) \/ first(y, x)
      BY <1>3, <3>1
    <3> QED BY <3>2
  <2>3. \A x, y, z \in S : <<x, y>> \in R /\ <<y, z>> \in R => <<x, z>> \in R
    <3> TAKE x, y, z \in S
    <3>1. first(x, y) /\ first(y, z) => first(x, z)
      BY <1>3
    <3> HIDE DEF first
    <3> QED BY <3>1
  <2> HIDE DEF R
  <2> QED BY <2>1, <2>2, <2>3 DEF Orders
<1>5. PICK g : SortedBy(g, S, R)
  <2> HIDE DEF R, S
  <2> QED BY <1>2, <1>4, SortedExists
<1>6. g \in [1 .. n -> S] /\ InTheirOrder(g)
  <2> HIDE DEF first, S
  <2> QED BY <1>5 DEF SortedBy
<1>7. Sorted(pm, name) = CHOOSE h \in [1 .. n -> S] : InTheirOrder(h)
  BY DEF Sorted, InOrder
<1> DEFINE s == Sorted(pm, name)
<1>8. s \in [1 .. n -> S] /\ InTheirOrder(s)
  <2> HIDE DEF InTheirOrder, S, n, s, pm
  <2> QED BY <1>6, <1>7 DEF s
<1> HIDE DEF s
<1>9. \A i, j \in 1 .. n : i < j => Priority(pm, s[i], name) <= Priority(pm, s[j], name)
  <2> TAKE i, j \in 1 .. n
  <2> HAVE i < j
  <2>1. s[i] \in S /\ s[j] \in S
    BY <1>8
  <2>2. first(s[i], s[j])
    BY <1>8
  <2>3. Priority(pm, s[i], name) \in Int /\ Priority(pm, s[j], name) \in Int
    BY <1>3, <2>1
  <2> QED BY <2>2, <2>3
<1> HIDE DEF first, S, pm
<1> QED
  BY <1>2, <1>8, <1>9 DEF s, S, pm, ByPriority

\* A request's model resolves to providers it is meant for, the one of the best
\* priority first, and to each that offers it.
LEMMA Resolution ==
    ASSUME NEW v, IsSnapshot(v), req \in Requests
    PROVE  LET pm == v.manager
               s == ResolveModel(pm, req.model)
           IN  /\ AsResolved(s, pm)
               /\ \A k \in Offering(pm, req.model) :
                     Meant(pm, k, req.model) => \E i \in 1 .. Len(s) : s[i].key = k
<1> DEFINE pm == v.manager
           name == req.model
           s == ResolveModel(pm, name)
<1>1. \A k \in DOMAIN pm.providers :
         k \in STRING /\ pm.providers[k].protocol \in STRING /\ Priority(pm, k, name) \in Int
  BY ConfigsAssumption, RankIsPlace, PriorityIsNumber DEF IsSnapshot
<1>2. name \in STRING
  BY NamesAssumption DEF Requests
<1>3. ASSUME NEW k \in DOMAIN pm.providers, NEW m \in STRING
      PROVE  /\ Candidate(pm, k, m) \in Records
             /\ Candidate(pm, k, m).key = k /\ Candidate(pm, k, m).model = m
             /\ Candidate(pm, k, m).protocol = pm.providers[k].protocol
  BY <1>1, <1>3 DEF Candidate, ProtocolForKey, Records
<1>4. ASSUME NEW k, NEW m \in STRING,
             s = IF k \in DOMAIN pm.providers THEN <<Candidate(pm, k, m)>> ELSE <<>>,
             Meant(pm, k, m),
             \A l \in Offering(pm, name) : Meant(pm, l, name) => l = k
      PROVE  /\ AsResolved(s, pm)
             /\ \A l \in Offering(pm, name) :
                   Meant(pm, l, name) => \E i \in 1 .. Len(s) : s[i].key = l
  <2>1. CASE k \in DOMAIN pm.providers
    <3> DEFINE c == Candidate(pm, k, m)
    <3>1. s = <<c>> /\ c \in Records /\ c.key = k /\ c.model = m
          /\ c.protocol = pm.providers[k].protocol
      BY <1>3, <1>4, <2>1
    <3> HIDE DEF c, s, pm, name
    <3>2. s \in Seq(Records) /\ Len(s) = 1 /\ s[1] = c
      BY <3>1
    <3>3. AsResolved(s, pm)
      BY <1>4, <2>1, <3>1, <3>2 DEF AsResolved
    <3> QED BY <1>4, <3>1, <3>2, <3>3
  <2>2. CASE k \notin DOMAIN pm.providers
    <3>1. s = <<>> /\ \A l \in Offering(pm, name) : l # k
      BY <1>4, <2>2 DEF Offering
    <3>2. s \in Seq(Records) /\ Len(s) = 0
      BY <3>1
    <3> HIDE DEF s, pm, name
    <3> QED BY <1>4, <3>1, <3>2 DEF AsResolved
  <2> QED BY <2>1, <2>2
<1>5. CASE name \in DOMAIN pm.routes
  <2> DEFINE k == RouteKey(pm, name)
             m == pm.routes[name].model
  <2>1. m \in STRING
    BY <1>5, ConfigsAssumption DEF IsSnapshot
  <2>2. s = IF k \in DOMAIN pm.providers THEN <<Candidate(pm, k, m)>> ELSE <<>>
    BY <1>5 DEF ResolveModel
  <2>3. Meant(pm, k, m) /\ \A l \in Offering(pm, name) : Meant(pm, l, name) => l = k
    BY <1>5 DEF Meant
  <2> HIDE DEF k, m, s, pm, name
  <2> QED BY <1>4, <2>1, <2>2, <2>3 DEF s, pm, name
<1>6. CASE name \notin DOMAIN pm.routes /\ ParseModelRef(name).provider # Unset
  <2> DEFINE k == ParseModelRef(name).provider
             m == ParseModelRef(name).model
  <2>1. ParseModelRef(name) \in [provider : STRING, model : STRING]
    <3>1. name \in DOMAIN Ref
      BY <1>6 DEF ParseModelRef
    <3> QED BY <3>1, NamesAssumption DEF ParseModelRef
  <2>2. m \in STRING /\ ParseModelRef(name) = [provider |-> k, model |-> m]
    BY <2>1
  <2>3. s = IF k \in DOMAIN pm.providers THEN <<Candidate(pm, k, m)>> ELSE <<>>
    BY <1>6 DEF ResolveModel
  <2>4. Meant(pm, k, m) /\ \A l \in Offering(pm, name) : Meant(pm, l, name) => l = k
    <3>1. ParseModelRef(name) = [provider |-> k, model |-> m]
      BY <2>2
    <3>2. \A x, y : Meant(pm, x, y) <=> [provider |-> x, model |-> y] = ParseModelRef(name)
      BY <1>6 DEF Meant
    <3> HIDE DEF k, m, pm, name
    <3>3. \A l : [provider |-> l, model |-> name] = [provider |-> k, model |-> m] => l = k
      OBVIOUS
    <3>4. Meant(pm, k, m)
      BY <3>1, <3>2
    <3>5. \A l : Meant(pm, l, name) => [provider |-> l, model |-> name] = [provider |-> k, model |-> m]
      BY <3>1, <3>2
    <3> QED BY <3>3, <3>4, <3>5
  <2> HIDE DEF k, m, s, pm, name
  <2> QED BY <1>4, <2>2, <2>3, <2>4 DEF s, pm, name
<1>7. CASE name \notin DOMAIN pm.routes /\ ParseModelRef(name).provider = Unset
  <2> DEFINE S == Offering(pm, name)
             n == Cardinality(S)
             f == Sorted(pm, name)
  <2>1. /\ n \in Nat /\ f \in [1 .. n -> S]
        /\ \A k \in S : \E i \in 1 .. n : f[i] = k
        /\ \A i, j \in 1 .. n : i < j => Priority(pm, f[i], name) <= Priority(pm, f[j], name)
    <3>1. ByPriority(f, S, pm, name)
      BY SortedByPriority
    <3> HIDE DEF f, S, pm, name
    <3> QED BY <3>1 DEF ByPriority
  <2>2. s = [i \in 1 .. n |-> Candidate(pm, f[i], name)]
    BY <1>7 DEF ResolveModel
  <2>3. S \subseteq DOMAIN pm.providers
    BY DEF Offering
  <2>4. \A k \in S : Meant(pm, k, name)
    BY <1>7 DEF Meant
  <2> HIDE DEF S, n, f, s, pm, name
  <2>5. ASSUME NEW i \in 1 .. n
        PROVE  /\ f[i] \in S
               /\ s[i] \in Records
               /\ s[i].key = f[i] /\ s[i].model = name
               /\ s[i].protocol = pm.providers[f[i]].protocol
    <3>1. f[i] \in S /\ s[i] = Candidate(pm, f[i], name)
      BY <2>1, <2>2
    <3> QED BY <1>2, <1>3, <2>3, <3>1
  <2>6. s \in Seq(Records) /\ Len(s) = n
    BY <2>1, <2>2, <2>5
  <2>7. \A i \in 1 .. Len(s) :
          /\ s[i].key \in DOMAIN pm.providers
          /\ s[i].protocol = pm.providers[s[i].key].protocol
          /\ Meant(pm, s[i].key, s[i].model)
    BY <2>3, <2>4, <2>5, <2>6
  <2>8. \A i, j \in 1 .. Len(s) :
          i < j => Priority(pm, s[i].key, name) <= Priority(pm, s[j].key, name)
    BY <2>1, <2>5, <2>6
  <2>9. AsResolved(s, pm)
    BY <2>6, <2>7, <2>8 DEF AsResolved, name
  <2>10. \A k \in S : \E i \in 1 .. Len(s) : s[i].key = k
    BY <2>1, <2>5, <2>6
  <2> QED BY <2>9, <2>10 DEF S, s, pm, name
<1> QED
  BY <1>5, <1>6, <1>7

\* A filter keeps that.
LEMMA KeptAsResolved ==
    ASSUME NEW pm, AsResolved(candidates, pm), NEW places \in SUBSET (1 .. Len(candidates))
    PROVE  /\ AsResolved(Kept(places), pm)
           /\ Len(Kept(places)) = Cardinality(places)
           /\ \A n \in 1 .. Len(Kept(places)) : \E i \in places : Kept(places)[n] = candidates[i]
           /\ \A i \in places : \E n \in 1 .. Len(Kept(places)) : Kept(places)[n] = candidates[i]
<1> DEFINE s == Kept(places)
           m == Cardinality(places)
<1>1. candidates \in Seq(Records) /\ Len(candidates) \in Nat
  BY LenProperties DEF AsResolved
<1>2. IsKept(s, places)
  BY <1>1, KeptInOrder
<1>3. PICK f \in [1 .. m -> places] :
         /\ \A n \in 1 .. m : s[n] = candidates[f[n]]
         /\ \A i \in places : \E n \in 1 .. m : f[n] = i
         /\ \A k, n \in 1 .. m : k < n => f[k] < f[n]
  BY <1>2 DEF IsKept
<1>4. m \in Nat /\ s = [n \in 1 .. m |-> s[n]]
  BY <1>2 DEF IsKept
<1> HIDE DEF s, m
<1>5. \A n \in 1 .. m : /\ f[n] \in places /\ f[n] \in 1 .. Len(candidates)
                        /\ s[n] = candidates[f[n]] /\ s[n] \in Records
  <2> TAKE n \in 1 .. m
  <2>1. f[n] \in places /\ f[n] \in 1 .. Len(candidates)
    OBVIOUS
  <2>2. candidates[f[n]] \in Records
    BY <1>1, <2>1
  <2> QED BY <1>3, <2>1, <2>2
<1>6. s \in Seq(Records) /\ Len(s) = m
  <2>1. DOMAIN s = 1 .. m /\ s \in [1 .. m -> Records]
    BY <1>4, <1>5
  <2> QED BY <1>4, <2>1
<1>7. AsResolved(s, pm)
  <2>1. \A i \in 1 .. m :
          /\ s[i].key \in DOMAIN pm.providers
          /\ s[i].protocol = pm.providers[s[i].key].protocol
          /\ Meant(pm, s[i].key, s[i].model)
    BY <1>5 DEF AsResolved
  <2>2. \A i, j \in 1 .. m :
          i < j => Priority(pm, s[i].key, req.model) <= Priority(pm, s[j].key, req.model)
    <3> TAKE i, j \in 1 .. m
    <3> HAVE i < j
    <3>1. f[i] < f[j] /\ f[i] \in 1 .. Len(candidates) /\ f[j] \in 1 .. Len(candidates)
      BY <1>3, <1>5
    <3>2. Priority(pm, candidates[f[i]].key, req.model) <= Priority(pm, candidates[f[j]].key, req.model)
      BY <3>1 DEF AsResolved
    <3> QED BY <1>5, <3>2
  <2> QED BY <1>6, <2>1, <2>2 DEF AsResolved
<1>8. \A n \in 1 .. m : \E i \in places : s[n] = candidates[i]
  BY <1>5
<1>9. \A i \in places : \E n \in 1 .. m : s[n] = candidates[i]
  BY <1>3
<1> QED
  BY <1>6, <1>7, <1>8, <1>9 DEF s, m

-----------------------------------------------------------------------------
(* Where the calls go: the inductive invariant.                            *)

Proxied == {"trying", "connecting", "copying"}
Adapted == {"injecting", "choosing", "sending", "awaiting", "starting", "streaming"}
Filtered == Proxied \cup Adapted \cup {"proxying", "adapting"}

\* The runtime's snapshots.
VersionsInv ==
    /\ \E S : versions \in Seq(S) /\ \A v \in S : IsSnapshot(v)
    /\ versions # <<>>

\* The handler's readings of them, in this order.
ReadingsInv ==
    /\ req \in Requests /\ pc \in Places /\ injected \in BOOLEAN
    /\ resolvedAt \in 0 .. Active
    /\ handledAt \in 0 .. Active
    /\ pc \in {"arriving", "resolving"} => handledAt = 0
    /\ pc \in Filtered \cup {"filtering"} => resolvedAt # 0
    /\ pc \in Proxied \cup Adapted => handledAt # 0
    /\ handledAt # 0 => resolvedAt \in 1 .. handledAt

\* The candidates are those of the reading of the resolution.
CandidatesInv ==
    /\ candidates \in Seq(Records)
    /\ resolvedAt # 0 => AsResolved(candidates, Manager(resolvedAt))
    /\ pc \in Filtered \cup {"filtering"} => candidates # <<>>
    /\ pc = "proxying" => candidates[1].protocol = "openai-response"
    /\ pc \in Adapted \cup {"adapting"} => candidates[1].protocol # "openai-response"
    /\ attempt \in 1 .. Len(candidates) + 1
    /\ pc \notin Proxied \cup {"done"} => attempt = 1
    /\ pc \in Proxied => attempt \in 1 .. Len(candidates)

\* No provider that could be tried was lost from them, unless by a reload.
NobodyLost ==
    resolvedAt = Active =>
        \A k \in Offering(Manager(Active), req.model) :
           Meant(Manager(Active), k, req.model) /\ CouldBeTried(Manager(Active), k)
              => \E i \in 1 .. Len(candidates) : candidates[i].key = k

\* Those that are left take the request's image.
Accepts(n, c) ==
    /\ Provided(n, c.key)
    /\ c.model \in DOMAIN ProvidersOf(n)[c.key].models
    /\ ProvidersOf(n)[c.key].models[c.model].image

ImagesInv ==
    (pc \in Filtered \/ calls # <<>>) /\ req.image = "item" =>
        \A i \in 1 .. Len(candidates) : \E n \in resolvedAt .. Active : Accepts(n, candidates[i])

\* The adapters' client was made of one provider of one snapshot.
ClientOf(n) ==
    /\ Provided(n, Preferred.key)
    /\ client = <<[address |-> ProvidersOf(n)[Preferred.key].address,
                   credential |-> ProvidersOf(n)[Preferred.key].credential]>>

ClientInv ==
    pc = "sending" => /\ \E n \in 1 .. Active : ClientOf(n)
                      /\ resolvedAt = Active => ClientOf(Active)

\* A call was one candidate's, with the address and the credential of one
\* snapshot.
Configured(c, n) ==
    /\ Provided(n, c.key)
    /\ ProvidersOf(n)[c.key].address = c.address
    /\ ProvidersOf(n)[c.key].credential = c.credential

IsRouted(c) ==
    /\ c.attempt \in 1 .. Len(candidates)
    /\ c.key = candidates[c.attempt].key
    /\ c.model = candidates[c.attempt].model
    /\ \E n \in 1 .. Active : Configured(c, n)
    /\ resolvedAt = Active => Configured(c, Active)

RoutedInv ==
    /\ calls \in Seq(Calls)
    /\ \A i \in 1 .. Len(calls) : IsRouted(calls[i])
    /\ pc \notin Calling \cup {"trying", "done"} => calls = <<>>
    /\ pc \in Calling => calls # <<>>
    /\ calls # <<>> => handledAt # 0

\* The candidates are tried in turn; whoever could not be reached is passed.
CannotBeTried(j) ==
    \/ ~Provided(handledAt, candidates[j].key)
    \/ ProvidersOf(handledAt)[candidates[j].key].address \in Malformed

PassedBefore(j, i) == (\E l \in 1 .. i : calls[l].attempt = j) \/ CannotBeTried(j)

TurnsInv ==
    /\ \A i, j \in 1 .. Len(calls) :
          i < j => calls[i].attempt < calls[j].attempt /\ calls[i].outcome = "unreachable"
    /\ \A i \in 1 .. Len(calls) : \A j \in 1 .. calls[i].attempt - 1 : PassedBefore(j, i - 1)
    /\ pc = "trying" =>
          \A i \in 1 .. Len(calls) : calls[i].attempt < attempt /\ calls[i].outcome = "unreachable"
    /\ pc \in {"connecting", "copying"} => calls[Len(calls)].attempt = attempt
    /\ pc \in Proxied => \A j \in 1 .. attempt - 1 : PassedBefore(j, Len(calls))
    /\ pc = "done" /\ reports # <<>> /\ answers[1] = [from |-> "proxy", status |-> 502]
          => /\ attempt = Len(candidates) /\ handledAt # 0
             /\ \A j \in 1 .. Len(candidates) : PassedBefore(j, Len(calls))

RInv ==
    /\ VersionsInv /\ ReadingsInv /\ CandidatesInv /\ NobodyLost /\ ImagesInv
    /\ ClientInv /\ RoutedInv /\ TurnsInv

-----------------------------------------------------------------------------
(* The runtime.                                                            *)

LEMMA Snapshots ==
    ASSUME VersionsInv
    PROVE  /\ Active \in Nat \ {0}
           /\ DOMAIN versions = 1 .. Active
           /\ \A n \in 1 .. Active :
                 /\ IsSnapshot(versions[n])
                 /\ Manager(n).providers = ProvidersOf(n)
<1>1. PICK S : versions \in Seq(S) /\ \A v \in S : IsSnapshot(v)
  BY DEF VersionsInv
<1>2. Active \in Nat \ {0} /\ DOMAIN versions = 1 .. Active
  BY <1>1, LenProperties, EmptySeq DEF VersionsInv, Active
<1>3. \A n \in 1 .. Active : versions[n] \in S
  BY <1>1, <1>2, ElementOfSeq DEF Active
<1> QED
  BY <1>1, <1>2, <1>3 DEF IsSnapshot, Manager, ProvidersOf

\* What is configured are texts.
LEMMA Rows ==
    ASSUME VersionsInv, NEW n \in 1 .. Active, NEW k \in DOMAIN ProvidersOf(n)
    PROVE  /\ k \in STRING
           /\ ProvidersOf(n)[k].address \in STRING
           /\ ProvidersOf(n)[k].credential \in STRING
<1>1. versions[n].config \in Configs
  BY Snapshots DEF IsSnapshot
<1> QED
  BY <1>1, ConfigsAssumption, RankIsPlace DEF ProvidersOf

\* What depends on the snapshots and on what was read of them alone.
LEMMA Frame ==
    ASSUME UNCHANGED <<versions, req, resolvedAt, handledAt>>
    PROVE  /\ VersionsInv' <=> VersionsInv
           /\ Active' = Active
           /\ \A n : ProvidersOf(n)' = ProvidersOf(n) /\ Manager(n)' = Manager(n)
           /\ \A n, c : Accepts(n, c)' <=> Accepts(n, c)
           /\ \A n, c : Configured(c, n)' <=> Configured(c, n)
           /\ \A s, pm : AsResolved(s, pm)' <=> AsResolved(s, pm)
           /\ \A pm, k, m : Meant(pm, k, m)' <=> Meant(pm, k, m)
           /\ \A pm, k : CouldBeTried(pm, k)' <=> CouldBeTried(pm, k)
<1>1. VersionsInv' <=> VersionsInv
  BY DEF VersionsInv
<1>2. Active' = Active /\ \A n : ProvidersOf(n)' = ProvidersOf(n) /\ Manager(n)' = Manager(n)
  BY DEF Active, ProvidersOf, Manager
<1>3. \A n, c : Accepts(n, c)' <=> Accepts(n, c)
  BY <1>2 DEF Accepts, Provided
<1>4. \A n, c : Configured(c, n)' <=> Configured(c, n)
  BY <1>2 DEF Configured, Provided
<1>5. \A pm, k, m : Meant(pm, k, m)' <=> Meant(pm, k, m)
  BY DEF Meant
<1>6. \A pm, k : CouldBeTried(pm, k)' <=> CouldBeTried(pm, k)
  BY DEF CouldBeTried
<1>7. \A s, pm : AsResolved(s, pm)' <=> AsResolved(s, pm)
  BY <1>5 DEF AsResolved
<1> QED
  BY <1>1, <1>2, <1>3, <1>4, <1>5, <1>6, <1>7

\* What depends on the candidates besides.
LEMMA FrameOfCandidates ==
    ASSUME UNCHANGED <<versions, req, resolvedAt, handledAt, candidates>>
    PROVE  /\ NobodyLost' <=> NobodyLost
           /\ \A c : IsRouted(c)' <=> IsRouted(c)
           /\ \A j : CannotBeTried(j)' <=> CannotBeTried(j)
<1> USE Frame
<1>1. NobodyLost' <=> NobodyLost
  <2>1. Manager(Active)' = Manager(Active)
    BY DEF Manager, Active
  <2>2. Offering(Manager(Active), req.model)' = Offering(Manager(Active), req.model)
    BY <2>1
  <2>3. \A k : Meant(Manager(Active), k, req.model)' <=> Meant(Manager(Active), k, req.model)
    BY DEF Meant, Manager, Active
  <2>4. \A k : CouldBeTried(Manager(Active), k)' <=> CouldBeTried(Manager(Active), k)
    BY DEF CouldBeTried, Manager, Active
  <2> QED BY <2>2, <2>3, <2>4 DEF NobodyLost
<1>2. \A c : IsRouted(c)' <=> IsRouted(c)
  BY DEF IsRouted, Configured, Provided, ProvidersOf, Active
<1>3. \A j : CannotBeTried(j)' <=> CannotBeTried(j)
  BY DEF CannotBeTried, Provided, ProvidersOf
<1> QED
  BY <1>1, <1>2, <1>3

-----------------------------------------------------------------------------
(* Steps.                                                                  *)

LEMMA RoutingInit == Init => RInv
<1> SUFFICES ASSUME Init PROVE RInv
  OBVIOUS
<1>1. PICK c \in Configs : \E order : versions = <<Snapshot(c, BootManager(c, order))>>
  BY DEF Init
<1>2. PICK order : versions = <<Snapshot(c, BootManager(c, order))>>
  BY <1>1
<1> DEFINE v == Snapshot(c, BootManager(c, order))
<1>3. IsSnapshot(v)
  BY DEF IsSnapshot, Snapshot, BootManager, NewProviderManager
<1> HIDE DEF v
<1>4. versions = <<v>> /\ versions \in Seq({v}) /\ Active = 1 /\ versions # <<>>
  BY <1>2 DEF v, Active
<1>5. VersionsInv
  <2> DEFINE S == {v}
  <2>1. \A x \in S : IsSnapshot(x)
    BY <1>3
  <2>2. versions \in Seq(S) /\ versions # <<>>
    BY <1>4
  <2> HIDE DEF S
  <2> QED BY <2>1, <2>2, Zenon DEF VersionsInv
<1>6. candidates = <<>> /\ candidates \in Seq(Records) /\ Len(candidates) = 0
  BY DEF Init
<1>7. calls = <<>> /\ calls \in Seq(Calls) /\ Len(calls) = 0
  BY DEF Init
<1>8. pc = "arriving" /\ resolvedAt = 0 /\ handledAt = 0 /\ attempt = 1 /\ injected = FALSE
      /\ req \in Requests
  BY DEF Init
<1>9. ReadingsInv
  <2>1. 0 \in 0 .. Active
    BY <1>4
  <2> QED BY <1>8, <2>1 DEF ReadingsInv, Places, Filtered, Proxied, Adapted
<1>10. CandidatesInv
  BY <1>6, <1>8 DEF CandidatesInv, Filtered, Proxied, Adapted
<1>11. NobodyLost /\ ImagesInv /\ ClientInv
  BY <1>4, <1>7, <1>8 DEF NobodyLost, ImagesInv, ClientInv, Filtered, Proxied, Adapted
<1>12. RoutedInv /\ TurnsInv
  BY <1>7, <1>8 DEF RoutedInv, TurnsInv, Calling, Proxied
<1> QED
  BY <1>5, <1>9, <1>10, <1>11, <1>12 DEF RInv

\* A reload adds a snapshot, and what was read before is no longer active.
LEMMA ReloadRoutes == ASSUME RInv, Reload PROVE RInv'
<1>1. PICK c \in Configs : versions' = Append(versions, Snapshot(c, NewProviderManager(c)))
  BY DEF Reload
<1> DEFINE v == Snapshot(c, NewProviderManager(c))
<1>2. IsSnapshot(v)
  BY DEF IsSnapshot, Snapshot, NewProviderManager
<1>3. PICK S : versions \in Seq(S) /\ \A x \in S : IsSnapshot(x)
  BY DEF RInv, VersionsInv
<1> DEFINE T == S \cup {v}
<1> HIDE DEF v
<1>4. versions \in Seq(T) /\ v \in T
  BY <1>3, SeqMonotonic
<1>5. /\ versions' \in Seq(T) /\ versions' # <<>>
      /\ Active' = Active + 1 /\ Active \in Nat \ {0}
      /\ \A n \in 1 .. Active : versions'[n] = versions[n]
  <2>1. versions' = Append(versions, v)
    BY <1>1 DEF v
  <2> QED BY <1>4, <2>1, AppendProperties, Snapshots DEF RInv, Active
<1>6. VersionsInv'
  <2>1. \A x \in T : IsSnapshot(x)
    BY <1>2, <1>3
  <2>2. versions' \in Seq(T) /\ \A x \in T : IsSnapshot(x)
    BY <1>5, <2>1
  <2> QED BY <1>5, <2>2 DEF VersionsInv, IsSnapshot
<1>7. /\ UNCHANGED <<req, pc, resolvedAt, handledAt, candidates, attempt, injected, client,
                     calls, answers, reports, counted>>
  BY DEF Reload
<1>8. /\ resolvedAt \in 0 .. Active /\ handledAt \in 0 .. Active
      /\ handledAt # 0 => resolvedAt # 0
  BY DEF RInv, ReadingsInv
<1>9. \A n \in 1 .. Active : ProvidersOf(n)' = ProvidersOf(n) /\ Manager(n)' = Manager(n)
  BY <1>5 DEF ProvidersOf, Manager
<1>10. resolvedAt' # Active'
  BY <1>5, <1>7, <1>8
<1>11. ReadingsInv'
  BY <1>5, <1>7 DEF RInv, ReadingsInv
<1>12. CandidatesInv'
  <2>1. ASSUME resolvedAt # 0 PROVE AsResolved(candidates, Manager(resolvedAt))'
    <3>1. AsResolved(candidates, Manager(resolvedAt)) /\ Manager(resolvedAt)' = Manager(resolvedAt)
      <4>1. resolvedAt \in 1 .. Active
        BY <1>8, <2>1, <1>5
      <4>2. Manager(resolvedAt)' = Manager(resolvedAt)
        BY <1>5, <1>7, <4>1 DEF Manager
      <4> QED BY <2>1, <4>2 DEF RInv, CandidatesInv
    <3> QED BY <1>7, <3>1 DEF AsResolved, Meant
  <2> QED BY <1>7, <2>1 DEF RInv, CandidatesInv
<1>13. NobodyLost'
  BY <1>10 DEF NobodyLost
<1>14. ImagesInv'
  <2> SUFFICES ASSUME (pc \in Filtered \/ calls # <<>>) /\ req.image = "item"
               PROVE  \A i \in 1 .. Len(candidates) :
                         \E n \in resolvedAt .. Active + 1 : Accepts(n, candidates[i])'
    BY <1>5, <1>7 DEF ImagesInv
  <2>1. resolvedAt # 0
    BY <1>8 DEF RInv, ReadingsInv, RoutedInv
  <2> TAKE i \in 1 .. Len(candidates)
  <2>2. PICK n \in resolvedAt .. Active : Accepts(n, candidates[i])
    BY DEF RInv, ImagesInv
  <2>3. n \in 1 .. Active /\ n \in resolvedAt .. Active + 1
    BY <1>5, <1>8, <2>1
  <2>4. ProvidersOf(n)' = ProvidersOf(n)
    BY <1>5, <2>3 DEF ProvidersOf
  <2>5. Accepts(n, candidates[i])'
    BY <1>7, <2>2, <2>4 DEF Accepts, Provided
  <2> QED BY <2>3, <2>5
<1>15. ClientInv'
  <2> SUFFICES ASSUME pc = "sending" PROVE \E n \in 1 .. Active + 1 : ClientOf(n)'
    BY <1>5, <1>7, <1>10 DEF ClientInv
  <2>1. PICK n \in 1 .. Active : ClientOf(n)
    BY DEF RInv, ClientInv
  <2>2. n \in 1 .. Active + 1
    BY <1>5
  <2>3. ProvidersOf(n)' = ProvidersOf(n)
    BY <1>5 DEF ProvidersOf
  <2>4. ClientOf(n)'
    BY <1>7, <2>1, <2>3 DEF ClientOf, Provided, Preferred
  <2> QED BY <2>2, <2>4
<1>16. RoutedInv'
  <2>1. ASSUME NEW i \in 1 .. Len(calls) PROVE IsRouted(calls[i])'
    <3>1. IsRouted(calls[i])
      BY DEF RInv, RoutedInv
    <3>2. PICK n \in 1 .. Active : Configured(calls[i], n)
      BY <3>1 DEF IsRouted
    <3>3. n \in 1 .. Active'
      BY <1>5
    <3>4. ProvidersOf(n)' = ProvidersOf(n)
      BY <1>5 DEF ProvidersOf
    <3>5. Configured(calls[i], n)'
      BY <1>7, <3>2, <3>4 DEF Configured, Provided
    <3> QED BY <1>7, <1>10, <3>1, <3>3, <3>5 DEF IsRouted
  <2> QED BY <1>7, <2>1 DEF RInv, RoutedInv
<1>17. TurnsInv'
  <2>1. ASSUME NEW j, handledAt # 0 PROVE CannotBeTried(j)' <=> CannotBeTried(j)
    <3>1. handledAt \in 1 .. Active
      BY <1>5, <1>8, <2>1
    <3>2. ProvidersOf(handledAt)' = ProvidersOf(handledAt)
      BY <1>5, <1>7, <3>1 DEF ProvidersOf
    <3> QED BY <1>7, <3>2 DEF CannotBeTried, Provided
  <2>2. ASSUME handledAt # 0, NEW j, NEW i PROVE PassedBefore(j, i)' <=> PassedBefore(j, i)
    BY <1>7, <2>1, <2>2 DEF PassedBefore
  <2>3. calls # <<>> => handledAt # 0
    BY DEF RInv, RoutedInv
  <2>4. pc \in Proxied => handledAt # 0
    BY DEF RInv, ReadingsInv
  <2>5. ASSUME NEW i \in 1 .. Len(calls) PROVE calls # <<>>
    <3>1. Len(<<>>) = 0
      OBVIOUS
    <3> QED BY <3>1
  <2>6. TurnsInv
    BY DEF RInv
  <2>7. \A i \in 1 .. Len(calls) : \A j \in 1 .. calls[i].attempt - 1 : PassedBefore(j, i - 1)'
    BY <2>2, <2>3, <2>5, <2>6 DEF TurnsInv
  <2>8. pc \in Proxied => \A j \in 1 .. attempt - 1 : PassedBefore(j, Len(calls))'
    BY <1>7, <2>2, <2>4, <2>6 DEF TurnsInv
  <2>9. pc = "done" /\ reports # <<>> /\ answers[1] = [from |-> "proxy", status |-> 502]
          => /\ attempt = Len(candidates) /\ handledAt # 0
             /\ \A j \in 1 .. Len(candidates) : PassedBefore(j, Len(calls))'
    BY <1>7, <2>2, <2>6 DEF TurnsInv
  <2> QED BY <1>7, <2>6, <2>7, <2>8, <2>9 DEF TurnsInv
<1> QED
  BY <1>6, <1>11, <1>12, <1>13, <1>14, <1>15, <1>16, <1>17 DEF RInv

\* A step that goes on to another place, or ends without a report.
LEMMA GoesOn ==
    ASSUME RInv,
           UNCHANGED <<versions, req, resolvedAt, handledAt, candidates, attempt, client, calls>>,
           injected' \in BOOLEAN,
           \/ pc = "arriving" /\ pc' = "resolving"
           \/ pc = "injecting" /\ pc' = "choosing"
           \/ pc' = "done" /\ reports' = <<>>
           \/ UNCHANGED <<pc, reports, answers>>
    PROVE  RInv'
<1>1. /\ VersionsInv' /\ NobodyLost'
      /\ \A c : IsRouted(c)' <=> IsRouted(c)
      /\ \A j : CannotBeTried(j)' <=> CannotBeTried(j)
      /\ \A n, c : Accepts(n, c)' <=> Accepts(n, c)
      /\ Active' = Active
  BY Frame, FrameOfCandidates DEF RInv
<1>2. \A j, i : PassedBefore(j, i)' <=> PassedBefore(j, i)
  BY <1>1 DEF PassedBefore
<1>3. ReadingsInv'
  BY <1>1 DEF RInv, ReadingsInv, Places, Filtered, Proxied, Adapted
<1>4. CandidatesInv'
  <2>1. AsResolved(candidates, Manager(resolvedAt))' <=> AsResolved(candidates, Manager(resolvedAt))
    BY DEF AsResolved, Meant, Manager
  <2> QED BY <2>1 DEF RInv, CandidatesInv, Filtered, Proxied, Adapted
<1>5. ImagesInv'
  BY <1>1 DEF RInv, ImagesInv, Filtered, Proxied, Adapted
<1>6. ClientInv'
  BY DEF RInv, ClientInv, ClientOf, Provided, ProvidersOf, Active, Preferred
<1>7. RoutedInv'
  BY <1>1 DEF RInv, RoutedInv, Calling
<1>8. TurnsInv'
  BY <1>2 DEF RInv, TurnsInv, Proxied
<1> QED
  BY <1>1, <1>3, <1>4, <1>5, <1>6, <1>7, <1>8 DEF RInv

\* The model is resolved with the active manager.
LEMMA ResolveRoutes == ASSUME RInv, Resolve PROVE RInv'
<1>1. /\ VersionsInv /\ req \in Requests /\ Active \in Nat \ {0} /\ IsSnapshot(versions[Active])
  BY Snapshots DEF RInv, ReadingsInv
<1> DEFINE pm == Manager(Active)
           s == ResolveModel(pm, req.model)
<1>2. /\ AsResolved(s, pm)
      /\ \A k \in Offering(pm, req.model) :
            Meant(pm, k, req.model) => \E i \in 1 .. Len(s) : s[i].key = k
  BY <1>1, Resolution DEF Manager
<1> HIDE DEF s
<1>3. /\ candidates' = s /\ candidates' # <<>> /\ resolvedAt' = Active
      /\ pc = "resolving" /\ pc' = "filtering"
      /\ UNCHANGED <<versions, req, handledAt, attempt, injected, client, calls, reports, answers>>
  BY DEF Resolve, s
<1>4. /\ pm' = pm /\ Active' = Active /\ VersionsInv'
  BY <1>1, <1>3 DEF Manager, Active, VersionsInv
<1>5. handledAt = 0 /\ calls = <<>> /\ attempt = 1
  BY <1>3 DEF RInv, ReadingsInv, RoutedInv, CandidatesInv, Proxied, Calling
<1>6. s \in Seq(Records) /\ Len(s) \in Nat
  BY <1>2, LenProperties DEF AsResolved
<1>7. ReadingsInv'
  BY <1>1, <1>3, <1>4, <1>5 DEF RInv, ReadingsInv, Places, Filtered, Proxied, Adapted
<1>8. CandidatesInv'
  <2>1. AsResolved(candidates, Manager(resolvedAt))'
    <3>1. Manager(resolvedAt)' = pm /\ candidates' = s /\ req' = req
      BY <1>3 DEF Manager
    <3> HIDE DEF pm
    <3> QED BY <1>2, <3>1 DEF AsResolved, Meant
  <2>2. attempt' = 1 /\ 1 \in 1 .. Len(candidates') + 1
    BY <1>3, <1>5, <1>6
  <2>3. candidates' \in Seq(Records) /\ candidates' # <<>> /\ pc' = "filtering"
    BY <1>3, <1>6
  <2> QED BY <2>1, <2>2, <2>3 DEF CandidatesInv, Filtered, Proxied, Adapted
<1>9. NobodyLost'
  <2>1. \A k \in Offering(pm, req.model) :
           Meant(pm, k, req.model)' => \E i \in 1 .. Len(candidates') : candidates'[i].key = k
    <3>1. \A k : Meant(pm, k, req.model)' <=> Meant(pm, k, req.model)
      BY <1>3, <1>4 DEF Meant
    <3> QED BY <1>2, <1>3, <3>1
  <2>2. Manager(Active)' = pm /\ req' = req
    BY <1>3, <1>4
  <2>3. Offering(Manager(Active), req.model)' = Offering(pm, req.model)
    BY <2>2 DEF Offering
  <2> QED BY <2>1, <2>2, <2>3 DEF NobodyLost
<1>10. ImagesInv' /\ ClientInv'
  BY <1>3, <1>5 DEF ImagesInv, ClientInv, Filtered, Proxied, Adapted
<1>11. RoutedInv' /\ TurnsInv'
  <2>1. calls' = <<>> /\ calls' \in Seq(Calls) /\ Len(calls') = 0 /\ pc' = "filtering"
    BY <1>3, <1>5
  <2> QED BY <2>1 DEF RoutedInv, TurnsInv, Calling, Proxied
<1> QED
  BY <1>4, <1>7, <1>8, <1>9, <1>10, <1>11 DEF RInv

LEMMA MeantOnce ==
    ASSUME NEW pm, NEW k, NEW m, Meant(pm, k, m), Meant(pm, k, req.model)
    PROVE  m = req.model
<1>1. CASE req.model \in DOMAIN pm.routes
  BY <1>1 DEF Meant
<1>2. CASE req.model \notin DOMAIN pm.routes
  <2>1. CASE ParseModelRef(req.model).provider # Unset
    <3>1. [provider |-> k, model |-> m] = [provider |-> k, model |-> req.model]
      BY <1>2, <2>1 DEF Meant
    <3> QED BY <3>1
  <2>2. CASE ParseModelRef(req.model).provider = Unset
    BY <1>2, <2>2 DEF Meant
  <2> QED BY <2>1, <2>2
<1> QED
  BY <1>1, <1>2

\* A filter takes away nobody who could be tried.
LEMMA FilterKeeps ==
    ASSUME RInv, UNCHANGED <<versions, req, resolvedAt>>, resolvedAt # 0,
           NEW places \in SUBSET (1 .. Len(candidates)),
           candidates' = Kept(places), candidates' # <<>>,
           \A i \in 1 .. Len(candidates) :
              /\ resolvedAt = Active
              /\ CouldBeTried(Manager(Active), candidates[i].key)
              /\ candidates[i].model = req.model
              => i \in places
    PROVE  /\ NobodyLost'
           /\ AsResolved(candidates, Manager(resolvedAt))'
           /\ candidates' \in Seq(Records) /\ Len(candidates') \in Nat \ {0}
           /\ \A n \in 1 .. Len(candidates') : \E i \in places : candidates'[n] = candidates[i]
<1> DEFINE pm == Manager(resolvedAt)
<1>1. AsResolved(candidates, pm) /\ Len(candidates) \in Nat
  BY LenProperties DEF RInv, CandidatesInv
<1>2. /\ AsResolved(candidates', pm)
      /\ \A n \in 1 .. Len(candidates') : \E i \in places : candidates'[n] = candidates[i]
      /\ \A i \in places : \E n \in 1 .. Len(candidates') : candidates'[n] = candidates[i]
  BY <1>1, KeptAsResolved
<1>3. candidates' \in Seq(Records)
  BY <1>2 DEF AsResolved
<1>4. Len(candidates') \in Nat \ {0}
  BY <1>3, LenProperties, EmptySeq
<1>5. AsResolved(candidates, Manager(resolvedAt))'
  <2>1. Manager(resolvedAt)' = pm /\ req' = req
    BY DEF Manager
  <2> HIDE DEF pm
  <2> QED BY <1>2, <2>1 DEF AsResolved, Meant
<1>6. NobodyLost'
  <2> SUFFICES ASSUME resolvedAt = Active,
                      NEW k \in Offering(pm, req.model),
                      Meant(pm, k, req.model), CouldBeTried(pm, k)
               PROVE  \E n \in 1 .. Len(candidates') : candidates'[n].key = k
    <3>1. Manager(Active)' = Manager(Active) /\ Active' = Active
      BY DEF Manager, Active
    <3>2. \A k : /\ Meant(Manager(Active), k, req.model)' <=> Meant(Manager(Active), k, req.model)
                 /\ CouldBeTried(Manager(Active), k)' <=> CouldBeTried(Manager(Active), k)
      BY <3>1 DEF Meant, CouldBeTried
    <3> QED BY <3>1, <3>2 DEF NobodyLost
  <2>1. PICK i \in 1 .. Len(candidates) : candidates[i].key = k
    BY DEF RInv, NobodyLost
  <2>2. Meant(pm, k, candidates[i].model)
    BY <1>1, <2>1 DEF AsResolved
  <2>3. candidates[i].model = req.model
    BY <2>2, MeantOnce
  <2>4. i \in places
    BY <2>1, <2>3
  <2> QED BY <1>2, <2>1, <2>4
<1> QED
  BY <1>2, <1>3, <1>4, <1>5, <1>6

\* An image is taken where the model's entry in the catalog says so.
LEMMA TakesImage ==
    ASSUME VersionsInv, NEW c, req.image = "item"
    PROVE  TakesInput(c) <=> Accepts(Active, c)
<1>1. Manager(Active).providers = ProvidersOf(Active)
  BY Snapshots
<1>2. CASE c.key \in DOMAIN ProvidersOf(Active) /\ c.model \in DOMAIN ProvidersOf(Active)[c.key].models
  <2> DEFINE meta == ProvidersOf(Active)[c.key].models[c.model]
  <2>1. ModelMetaFor(Manager(Active), c.model, c.key) = <<meta>>
    BY <1>1, <1>2 DEF ModelMetaFor
  <2> HIDE DEF meta
  <2>2. (\E i \in DOMAIN <<meta>> : <<meta>>[i].image) <=> meta.image
    OBVIOUS
  <2>3. TakesInput(c) <=> meta.image
    BY <2>1, <2>2 DEF TakesInput
  <2>4. Accepts(Active, c) <=> meta.image
    BY <1>2 DEF Accepts, Provided, meta
  <2> QED BY <2>3, <2>4
<1>3. CASE ~ (c.key \in DOMAIN ProvidersOf(Active) /\ c.model \in DOMAIN ProvidersOf(Active)[c.key].models)
  <2>1. ModelMetaFor(Manager(Active), c.model, c.key) = <<>>
    BY <1>1, <1>3 DEF ModelMetaFor
  <2>2. ~ TakesInput(c)
    BY <2>1 DEF TakesInput
  <2> QED BY <1>3, <2>2 DEF Accepts, Provided
<1> QED
  BY <1>2, <1>3

LEMMA FilterRoutes == ASSUME RInv, Filter PROVE RInv'
<1> DEFINE places == { i \in DOMAIN candidates : TakesInput(candidates[i]) }
<1>1. /\ candidates' = Kept(places) /\ candidates' # <<>> /\ pc = "filtering"
      /\ pc' = IF candidates'[1].protocol = "openai-response" THEN "proxying" ELSE "adapting"
      /\ UNCHANGED <<versions, req, resolvedAt, handledAt, attempt, injected, client, calls>>
  BY DEF Filter, FilterCandidatesByInput
<1>2. /\ candidates \in Seq(Records) /\ DOMAIN candidates = 1 .. Len(candidates)
      /\ resolvedAt # 0 /\ resolvedAt \in 0 .. Active /\ VersionsInv /\ Active \in Nat \ {0}
      /\ AsResolved(candidates, Manager(resolvedAt))
  BY <1>1, LenProperties, Snapshots DEF RInv, ReadingsInv, CandidatesInv
<1>3. places \in SUBSET (1 .. Len(candidates))
  BY <1>2
<1>4. ASSUME NEW i \in 1 .. Len(candidates), resolvedAt = Active,
             CouldBeTried(Manager(Active), candidates[i].key),
             candidates[i].model = req.model
      PROVE  i \in places
  <2>1. candidates[i].key \in DOMAIN Manager(Active).providers
    BY <1>2, <1>4 DEF AsResolved
  <2>2. Manager(Active).providers = ProvidersOf(Active)
    BY <1>2, Snapshots
  <2>3. req.image = "item" => Accepts(Active, candidates[i])
    BY <1>4, <2>1, <2>2 DEF CouldBeTried, Accepts, Provided
  <2>4. TakesInput(candidates[i])
    <3>1. CASE req.image = "item"
      BY <1>2, <2>3, <3>1, TakesImage
    <3>2. CASE req.image # "item"
      BY <3>2 DEF TakesInput
    <3> QED BY <3>1, <3>2
  <2> QED BY <1>2, <2>4
<1> HIDE DEF places
<1>5. /\ NobodyLost'
      /\ AsResolved(candidates, Manager(resolvedAt))'
      /\ candidates' \in Seq(Records) /\ Len(candidates') \in Nat \ {0}
      /\ \A n \in 1 .. Len(candidates') : \E i \in places : candidates'[n] = candidates[i]
  BY <1>1, <1>2, <1>3, <1>4, FilterKeeps
<1>6. VersionsInv' /\ Active' = Active /\ \A n, c : Accepts(n, c)' <=> Accepts(n, c)
  BY <1>1, <1>2, Frame
<1>7. calls = <<>> /\ calls' = <<>> /\ attempt = 1 /\ attempt' = 1
  BY <1>1 DEF RInv, RoutedInv, CandidatesInv, Proxied, Calling
<1>8. pc' \in {"proxying", "adapting"}
  BY <1>1
<1>9. ReadingsInv'
  BY <1>1, <1>2, <1>6, <1>8 DEF RInv, ReadingsInv, Places, Filtered, Proxied, Adapted
<1>10. CandidatesInv'
  <2>1. 1 \in 1 .. Len(candidates') + 1
    BY <1>5
  <2>2. /\ pc' = "proxying" => candidates'[1].protocol = "openai-response"
        /\ pc' = "adapting" => candidates'[1].protocol # "openai-response"
    BY <1>1
  <2> QED BY <1>1, <1>5, <1>7, <1>8, <2>1, <2>2 DEF CandidatesInv, Filtered, Proxied, Adapted
<1>11. ImagesInv'
  <2> SUFFICES ASSUME req.image = "item", NEW n \in 1 .. Len(candidates')
               PROVE  Accepts(Active, candidates'[n])
    <3>1. Active \in resolvedAt .. Active
      BY <1>2
    <3>2. \A n \in 1 .. Len(candidates') : Accepts(Active, candidates'[n])
                                             <=> Accepts(Active, candidates[n])'
      BY <1>1, <1>6 DEF Accepts, Provided, ProvidersOf, Active
    <3> QED BY <1>1, <1>6, <3>1, <3>2 DEF ImagesInv
  <2>1. PICK i \in places : candidates'[n] = candidates[i]
    BY <1>5
  <2>2. TakesInput(candidates[i])
    BY DEF places
  <2> QED BY <1>2, <2>1, <2>2, TakesImage
<1>12. ClientInv' /\ RoutedInv' /\ TurnsInv'
  <2>1. calls' \in Seq(Calls) /\ Len(calls') = 0
    BY <1>7
  <2> QED BY <1>7, <1>8, <2>1 DEF ClientInv, RoutedInv, TurnsInv, Calling, Proxied
<1> QED
  BY <1>5, <1>6, <1>9, <1>10, <1>11, <1>12 DEF RInv

LEMMA ProxyRoutes == ASSUME RInv, Proxy PROVE RInv'
<1> DEFINE places == { i \in DOMAIN candidates : candidates[i].protocol = "openai-response" }
<1>1. /\ candidates' = Kept(places) /\ pc = "proxying" /\ pc' = "trying" /\ handledAt' = Active
      /\ UNCHANGED <<versions, req, resolvedAt, attempt, injected, client, calls>>
  BY DEF Proxy
<1>2. /\ candidates \in Seq(Records) /\ DOMAIN candidates = 1 .. Len(candidates)
      /\ Len(candidates) \in Nat \ {0}
      /\ resolvedAt # 0 /\ resolvedAt \in 0 .. Active /\ VersionsInv /\ Active \in Nat \ {0}
      /\ AsResolved(candidates, Manager(resolvedAt))
      /\ candidates[1].protocol = "openai-response"
  BY <1>1, LenProperties, EmptySeq, Snapshots DEF RInv, ReadingsInv, CandidatesInv, Filtered
<1>3. places \in SUBSET (1 .. Len(candidates)) /\ 1 \in places
  BY <1>2
<1>4. ASSUME NEW i \in 1 .. Len(candidates), resolvedAt = Active,
             CouldBeTried(Manager(Active), candidates[i].key)
      PROVE  i \in places
  BY <1>2, <1>4 DEF AsResolved, CouldBeTried
<1> HIDE DEF places
<1>5. candidates' # <<>>
  <2>1. \E n \in 1 .. Len(Kept(places)) : Kept(places)[n] = candidates[1]
    BY <1>2, <1>3, KeptAsResolved
  <2>2. Len(<<>>) = 0
    OBVIOUS
  <2> QED BY <1>1, <2>1, <2>2
<1>6. /\ NobodyLost'
      /\ AsResolved(candidates, Manager(resolvedAt))'
      /\ candidates' \in Seq(Records) /\ Len(candidates') \in Nat \ {0}
      /\ \A n \in 1 .. Len(candidates') : \E i \in places : candidates'[n] = candidates[i]
  BY <1>1, <1>2, <1>3, <1>4, <1>5, FilterKeeps
<1>7. VersionsInv' /\ Active' = Active
  BY <1>1, <1>2 DEF VersionsInv, Active
<1>8. calls = <<>> /\ calls' = <<>> /\ attempt = 1 /\ attempt' = 1
  BY <1>1 DEF RInv, RoutedInv, CandidatesInv, Proxied, Calling
<1>9. ReadingsInv'
  <2>1. Active \in 0 .. Active /\ Active # 0 /\ resolvedAt \in 1 .. Active
    BY <1>2
  <2> QED BY <1>1, <1>2, <1>7, <2>1 DEF RInv, ReadingsInv, Places, Filtered, Proxied, Adapted
<1>10. CandidatesInv'
  <2>1. 1 \in 1 .. Len(candidates') + 1 /\ 1 \in 1 .. Len(candidates')
    BY <1>6
  <2> QED BY <1>1, <1>5, <1>6, <1>8, <2>1 DEF CandidatesInv, Filtered, Proxied, Adapted
<1>11. ImagesInv'
  <2> SUFFICES ASSUME req.image = "item", NEW m \in 1 .. Len(candidates')
               PROVE  \E n \in resolvedAt .. Active : Accepts(n, candidates[m])'
    BY <1>1, <1>7 DEF ImagesInv
  <2>1. PICK i \in places : candidates'[m] = candidates[i]
    BY <1>6
  <2>2. PICK n \in resolvedAt .. Active : Accepts(n, candidates[i])
    BY <1>1, <1>3 DEF RInv, ImagesInv, Filtered
  <2>3. Accepts(n, candidates[m])'
    BY <1>1, <2>1, <2>2 DEF Accepts, Provided, ProvidersOf
  <2> QED BY <2>3
<1>12. ClientInv' /\ RoutedInv'
  <2>1. calls' \in Seq(Calls) /\ Len(calls') = 0
    BY <1>8
  <2> QED BY <1>1, <1>8, <2>1 DEF ClientInv, RoutedInv, Calling
<1>13. TurnsInv'
  <2>1. Len(calls') = 0 /\ pc' = "trying" /\ attempt' = 1
    BY <1>1, <1>8
  <2> QED BY <2>1 DEF TurnsInv
<1> QED
  BY <1>6, <1>7, <1>9, <1>10, <1>11, <1>12, <1>13 DEF RInv

LEMMA AdaptRoutes == ASSUME RInv, Adapt PROVE RInv'
<1>1. /\ pc = "adapting" /\ pc' = "injecting" /\ handledAt' = Active
      /\ UNCHANGED <<versions, req, resolvedAt, candidates, attempt, injected, client, calls>>
  BY DEF Adapt
<1>2. /\ resolvedAt # 0 /\ resolvedAt \in 0 .. Active /\ VersionsInv /\ Active \in Nat \ {0}
  BY <1>1, Snapshots DEF RInv, ReadingsInv, Filtered
<1>3. VersionsInv' /\ Active' = Active
  BY <1>1, <1>2 DEF VersionsInv, Active
<1>4. ReadingsInv'
  <2>1. Active \in 0 .. Active /\ Active # 0 /\ resolvedAt \in 1 .. Active
    BY <1>2
  <2> QED BY <1>1, <1>2, <1>3, <2>1 DEF RInv, ReadingsInv, Places, Filtered, Proxied, Adapted
<1>5. CandidatesInv'
  <2>1. AsResolved(candidates, Manager(resolvedAt))' <=> AsResolved(candidates, Manager(resolvedAt))
    BY <1>1 DEF AsResolved, Meant, Manager
  <2> QED BY <1>1, <2>1 DEF RInv, CandidatesInv, Filtered, Proxied, Adapted
<1>6. NobodyLost'
  <2>1. Manager(Active)' = Manager(Active)
    BY <1>1 DEF Manager, Active
  <2>2. \A k : /\ Meant(Manager(Active), k, req.model)' <=> Meant(Manager(Active), k, req.model)
               /\ CouldBeTried(Manager(Active), k)' <=> CouldBeTried(Manager(Active), k)
    BY <1>1, <2>1 DEF Meant, CouldBeTried
  <2> QED BY <1>1, <1>3, <2>1, <2>2 DEF RInv, NobodyLost
<1>7. ImagesInv'
  <2>1. \A n, c : Accepts(n, c)' <=> Accepts(n, c)
    BY <1>1 DEF Accepts, Provided, ProvidersOf
  <2> QED BY <1>1, <1>3, <2>1 DEF RInv, ImagesInv, Filtered
<1>8. ClientInv' /\ RoutedInv' /\ TurnsInv'
  <2>1. calls = <<>> /\ calls' = <<>> /\ calls' \in Seq(Calls) /\ Len(calls') = 0
    BY <1>1 DEF RInv, RoutedInv, Calling
  <2> QED BY <1>1, <2>1 DEF ClientInv, RoutedInv, TurnsInv, Calling, Proxied
<1> QED
  BY <1>3, <1>4, <1>5, <1>6, <1>7, <1>8 DEF RInv

\* A step that changes neither the candidates nor what was read.
LEMMA CandidatesStay ==
    ASSUME RInv, UNCHANGED <<versions, req, resolvedAt, handledAt, candidates, injected>>,
           pc \in Proxied \cup Adapted, pc' \in Proxied \cup Adapted \cup {"done"},
           pc' \in Adapted => pc \in Adapted /\ attempt' = 1,
           pc' \in Proxied => attempt' \in 1 .. Len(candidates),
           attempt' \in 1 .. Len(candidates) + 1
    PROVE  VersionsInv' /\ ReadingsInv' /\ CandidatesInv' /\ NobodyLost' /\ ImagesInv'
<1>1. /\ VersionsInv' /\ NobodyLost' /\ Active' = Active
      /\ \A n, c : Accepts(n, c)' <=> Accepts(n, c)
  BY Frame, FrameOfCandidates DEF RInv
<1>2. ReadingsInv'
  BY <1>1 DEF RInv, ReadingsInv, Places, Filtered, Proxied, Adapted
<1>3. ImagesInv'
  BY <1>1 DEF RInv, ImagesInv, Filtered
<1>4. CandidatesInv'
  <2>1. AsResolved(candidates, Manager(resolvedAt))' <=> AsResolved(candidates, Manager(resolvedAt))
    BY DEF AsResolved, Meant, Manager
  <2> QED BY <2>1 DEF RInv, CandidatesInv, Filtered, Proxied, Adapted
<1> QED
  BY <1>1, <1>2, <1>3, <1>4

LEMMA ChooseRoutes == ASSUME RInv, ChooseClient PROVE RInv'
<1> DEFINE k == Preferred.key
<1>1. /\ pc = "choosing" /\ pc' = "sending" /\ Clients # <<>>
      /\ client' = <<[address |-> Clients[1].address, credential |-> Clients[1].credential]>>
      /\ UNCHANGED <<versions, req, resolvedAt, handledAt, candidates, attempt, injected, calls>>
  BY DEF ChooseClient
<1>2. /\ VersionsInv' /\ NobodyLost' /\ Active' = Active
      /\ ReadingsInv' /\ CandidatesInv' /\ ImagesInv'
  <2>1. pc \in Adapted /\ pc' \in Adapted /\ pc' \notin Proxied
    BY <1>1 DEF Adapted, Proxied
  <2>2. attempt' = 1 /\ attempt' \in 1 .. Len(candidates) + 1
    BY <1>1 DEF RInv, CandidatesInv, Proxied
  <2>3. Active' = Active
    BY <1>1 DEF Active
  <2> QED BY <1>1, <2>1, <2>2, <2>3, CandidatesStay
<1>3. /\ resolvedAt \in 1 .. Active /\ Active \in Nat \ {0} /\ VersionsInv
      /\ AsResolved(candidates, Manager(resolvedAt)) /\ Len(candidates) \in Nat \ {0}
  BY <1>1, Snapshots, LenProperties, EmptySeq
  DEF RInv, ReadingsInv, CandidatesInv, Filtered, Adapted
<1>4. Provided(resolvedAt, k) /\ Preferred.protocol = ProvidersOf(resolvedAt)[k].protocol
  <2>1. Manager(resolvedAt).providers = ProvidersOf(resolvedAt)
    BY <1>3, Snapshots
  <2>2. 1 \in 1 .. Len(candidates)
    BY <1>3
  <2> QED BY <1>3, <2>1, <2>2 DEF AsResolved, Provided, Preferred
<1>5. PICK n \in 1 .. Active : /\ Provided(n, k) /\ Clients = <<ProvidersOf(n)[k]>>
                               /\ resolvedAt = Active => n = Active
  <2>1. CASE Preferred.protocol = "anthropic"
    <3>1. Clients = <<ProvidersOf(resolvedAt)[k]>>
      BY <2>1 DEF Clients, CandidateClient
    <3> QED BY <1>3, <1>4, <3>1
  <2>2. CASE Preferred.protocol # "anthropic"
    <3> DEFINE serves(n) == /\ k \in DOMAIN ProvidersOf(n)
                            /\ ProvidersOf(n)[k].protocol = Preferred.protocol
               serving == { n \in {Active, 1} : serves(n) }
    <3>1. Clients = IF Active \in serving THEN <<ProvidersOf(Active)[k]>>
                    ELSE IF serving # {} THEN <<ProvidersOf(1)[k]>> ELSE <<>>
      BY <2>2 DEF Clients, ActiveClient
    <3>2. CASE Active \in serving
      <4>1. Clients = <<ProvidersOf(Active)[k]>> /\ Provided(Active, k)
        BY <3>1, <3>2 DEF Provided
      <4> QED BY <1>3, <4>1
    <3>3. CASE Active \notin serving
      <4>1. serving # {} /\ Clients = <<ProvidersOf(1)[k]>>
        BY <1>1, <3>1, <3>3
      <4>2. 1 \in serving
        BY <3>3, <4>1
      <4>3. Provided(1, k)
        BY <4>2 DEF Provided
      <4>4. resolvedAt # Active
        BY <1>4, <3>3 DEF Provided
      <4>5. 1 \in 1 .. Active
        BY <1>3
      <4> HIDE DEF serving
      <4> QED BY <4>1, <4>3, <4>4, <4>5
    <3> QED BY <3>2, <3>3
  <2> QED BY <2>1, <2>2
<1>6. ClientInv'
  <2> DEFINE row == ProvidersOf(n)[k]
  <2>1. Clients[1] = row
    <3> HIDE DEF row
    <3> QED BY <1>5 DEF row
  <2>2. client' = <<[address |-> row.address, credential |-> row.credential]>>
    BY <1>1, <2>1
  <2>3. ClientOf(n)'
    BY <1>1, <1>5, <2>2 DEF ClientOf, Provided, ProvidersOf, Preferred
  <2>4. resolvedAt' = Active' => ClientOf(Active)'
    <3>1. ASSUME resolvedAt = Active PROVE ClientOf(Active)'
      <4>1. n = Active
        BY <1>5, <3>1
      <4> QED BY <1>1, <1>5, <2>2, <4>1 DEF ClientOf, Provided, ProvidersOf, Preferred, Active
    <3> QED BY <1>1, <1>2, <3>1
  <2> QED BY <1>2, <2>3, <2>4 DEF ClientInv
<1>7. RoutedInv' /\ TurnsInv'
  <2>1. calls = <<>> /\ calls' = <<>> /\ calls' \in Seq(Calls) /\ Len(calls') = 0
    BY <1>1 DEF RInv, RoutedInv, Calling
  <2> QED BY <1>1, <2>1 DEF RoutedInv, TurnsInv, Calling, Proxied
<1> QED
  BY <1>2, <1>6, <1>7 DEF RInv

\* A call is added: of a candidate whose predecessors were passed.
LEMMA CallAdded ==
    ASSUME RInv,
           UNCHANGED <<versions, req, resolvedAt, handledAt, candidates, attempt, injected>>,
           \/ pc = "trying" /\ pc' = "connecting"
           \/ pc = "sending" /\ pc' \in {"awaiting", "starting"},
           NEW c \in Calls, calls' = Append(calls, c), IsRouted(c),
           c.attempt = attempt
    PROVE  RInv'
<1>1. VersionsInv' /\ ReadingsInv' /\ CandidatesInv' /\ NobodyLost' /\ ImagesInv'
  <2>1. pc \in Proxied \cup Adapted /\ pc' \in Proxied \cup Adapted
        /\ (pc' \in Adapted => pc \in Adapted) /\ (pc' \in Proxied => pc \in Proxied)
    BY DEF Proxied, Adapted
  <2>2. /\ attempt \in 1 .. Len(candidates) + 1
        /\ pc \in Proxied => attempt \in 1 .. Len(candidates)
        /\ pc \in Adapted => attempt = 1
    BY DEF RInv, CandidatesInv, Proxied, Adapted
  <2> QED BY <2>1, <2>2, CandidatesStay
<1>2. ClientInv'
  BY DEF ClientInv
<1>3. /\ calls \in Seq(Calls) /\ Len(calls) \in Nat
      /\ calls' \in Seq(Calls) /\ calls' # <<>> /\ Len(calls') = Len(calls) + 1
      /\ \A i \in 1 .. Len(calls) : calls'[i] = calls[i]
      /\ calls'[Len(calls) + 1] = c
  <2>1. calls \in Seq(Calls)
    BY DEF RInv, RoutedInv
  <2> QED BY <2>1, AppendProperties, LenProperties
<1>4. /\ \A d : IsRouted(d)' <=> IsRouted(d)
      /\ \A j : CannotBeTried(j)' <=> CannotBeTried(j)
  BY FrameOfCandidates
<1>5. handledAt # 0
  BY DEF RInv, ReadingsInv, Proxied, Adapted
<1>6. RoutedInv'
  <2>1. ASSUME NEW i \in 1 .. Len(calls') PROVE IsRouted(calls'[i])
    <3>1. CASE i \in 1 .. Len(calls)
      <4>1. IsRouted(calls[i])
        BY <3>1 DEF RInv, RoutedInv
      <4> QED BY <1>3, <3>1, <4>1
    <3>2. CASE i = Len(calls) + 1
      BY <1>3, <3>2
    <3>3. i \in 1 .. Len(calls) \/ i = Len(calls) + 1
      <4>1. Len(calls') = Len(calls) + 1 /\ Len(calls) \in Nat
        BY <1>3
      <4> QED BY <4>1
    <3> QED BY <3>1, <3>2, <3>3
  <2>2. \A i \in 1 .. Len(calls') : IsRouted(calls[i])'
    <3> TAKE i \in 1 .. Len(calls')
    <3>1. IsRouted(calls'[i])
      BY <2>1, Zenon
    <3> QED BY <3>1 DEF IsRouted, Configured, Provided, ProvidersOf, Active
  <2>3. pc' \in Calling
    BY DEF Calling
  <2> QED BY <1>3, <1>5, <2>2, <2>3 DEF RoutedInv
<1>7. \A i \in 1 .. Len(calls) : calls[i].attempt < c.attempt /\ calls[i].outcome = "unreachable"
  <2>1. CASE pc = "trying"
    BY <2>1 DEF RInv, TurnsInv
  <2>2. CASE pc = "sending"
    <3>1. calls = <<>> /\ Len(<<>>) = 0
      BY <2>2 DEF RInv, RoutedInv, Calling
    <3> QED BY <3>1
  <2> QED BY <2>1, <2>2
<1>8. \A j \in 1 .. c.attempt - 1 : PassedBefore(j, Len(calls))
  <2>1. CASE pc = "trying"
    BY <2>1 DEF RInv, TurnsInv, Proxied
  <2>2. CASE pc = "sending"
    <3>1. c.attempt = 1
      BY <2>2 DEF RInv, CandidatesInv, Proxied
    <3> QED BY <3>1
  <2> QED BY <2>1, <2>2
<1>9. ASSUME NEW j, NEW i \in 0 .. Len(calls), PassedBefore(j, i) PROVE PassedBefore(j, i)'
  <2>1. \A l \in 1 .. i : l \in 1 .. Len(calls) /\ calls'[l] = calls[l]
    BY <1>3
  <2> QED BY <1>4, <1>9, <2>1 DEF PassedBefore
<1>10. TurnsInv'
  <2>1. \A i, j \in 1 .. Len(calls') :
          i < j => calls'[i].attempt < calls'[j].attempt /\ calls'[i].outcome = "unreachable"
    <3> TAKE i, j \in 1 .. Len(calls')
    <3> HAVE i < j
    <3>1. i \in 1 .. Len(calls) /\ calls'[i] = calls[i]
      BY <1>3
    <3>2. CASE j \in 1 .. Len(calls)
      BY <1>3, <3>1, <3>2 DEF RInv, TurnsInv
    <3>3. CASE j = Len(calls) + 1
      BY <1>3, <1>7, <3>1, <3>3
    <3> QED BY <1>3, <3>2, <3>3
  <2>2. \A i \in 1 .. Len(calls') : \A j \in 1 .. calls'[i].attempt - 1 : PassedBefore(j, i - 1)'
    <3> TAKE i \in 1 .. Len(calls')
    <3> TAKE j \in 1 .. calls'[i].attempt - 1
    <3>1. i - 1 \in 0 .. Len(calls)
      BY <1>3
    <3>2. CASE i \in 1 .. Len(calls)
      <4>1. PassedBefore(j, i - 1)
        BY <1>3, <3>2 DEF RInv, TurnsInv
      <4> QED BY <1>9, <3>1, <4>1
    <3>3. CASE i = Len(calls) + 1
      <4>1. PassedBefore(j, i - 1)
        BY <1>3, <1>8, <3>3
      <4> QED BY <1>9, <3>1, <4>1
    <3> QED BY <1>3, <3>2, <3>3
  <2>3. pc' \in {"connecting", "copying"} => calls'[Len(calls')].attempt = attempt'
    BY <1>3
  <2>4. pc' \in Proxied => \A j \in 1 .. attempt' - 1 : PassedBefore(j, Len(calls))'
    <3> SUFFICES ASSUME NEW j \in 1 .. attempt - 1 PROVE PassedBefore(j, Len(calls))'
      OBVIOUS
    <3>1. PassedBefore(j, Len(calls))
      BY <1>8
    <3>2. (\E l \in 1 .. Len(calls) : calls[l].attempt = j) \/ CannotBeTried(j)
      BY <3>1 DEF PassedBefore
    <3>3. \A l \in 1 .. Len(calls) : l \in 1 .. Len(calls') /\ calls'[l] = calls[l]
      BY <1>3
    <3> QED BY <1>4, <3>2, <3>3 DEF PassedBefore
  <2>5. pc' \notin {"trying", "done"}
    OBVIOUS
  <2> QED BY <2>1, <2>2, <2>3, <2>4, <2>5 DEF TurnsInv
<1> QED
  BY <1>1, <1>2, <1>6, <1>10 DEF RInv

\* The next candidate is tried with the handler's manager.
LEMMA TryRoutes == ASSUME RInv, TryCandidate PROVE RInv'
<1> DEFINE d == candidates[attempt]
           row == ProvidersOf(handledAt)[d.key]
           search == IF ResolvedWebSearchForModel(Manager(handledAt), req.model) = "enabled"
                     THEN "native" ELSE "none"
           c == [attempt |-> attempt, key |-> d.key, model |-> d.model, address |-> row.address,
                 credential |-> row.credential, search |-> search,
                 visual |-> FALSE, loop |-> FALSE, outcome |-> "pending"]
<1>1. /\ pc = "trying" /\ pc' = "connecting" /\ Usable
      /\ UNCHANGED <<versions, req, resolvedAt, handledAt, candidates, attempt, injected, client>>
  BY DEF TryCandidate
<1>2. /\ handledAt \in 1 .. Active /\ VersionsInv /\ attempt \in 1 .. Len(candidates)
      /\ candidates \in Seq(Records) /\ resolvedAt \in 1 .. handledAt
      /\ Active \in Nat \ {0}
  BY <1>1, Snapshots DEF RInv, ReadingsInv, CandidatesInv, Proxied
<1>3. d \in Records
  BY <1>2, ElementOfSeq
<1>4. Manager(handledAt).providers = ProvidersOf(handledAt)
  BY <1>2, Snapshots
<1>5. d.key \in DOMAIN ProvidersOf(handledAt) /\ Target = <<row>>
  <2>1. Target = IF d.key \in DOMAIN ProvidersOf(handledAt) THEN <<row>> ELSE <<>>
    BY <1>4 DEF Target
  <2>2. Target # <<>>
    <3>1. DOMAIN <<>> = {}
      OBVIOUS
    <3> QED BY <1>1, <3>1 DEF Usable
  <2> HIDE DEF row
  <2> QED BY <2>1, <2>2
<1>6. Target[1] = row
  <2> HIDE DEF row
  <2> QED BY <1>5
<1>7. calls' = Append(calls, c)
  <2>1. calls' = Append(calls,
          [attempt |-> attempt, key |-> d.key, model |-> d.model, address |-> Target[1].address,
           credential |-> Target[1].credential, search |-> search,
           visual |-> FALSE, loop |-> FALSE, outcome |-> "pending"])
    BY DEF TryCandidate
  <2> HIDE DEF row, search
  <2> QED BY <1>6, <2>1
<1>8. c \in Calls
  <2>1. row.address \in STRING /\ row.credential \in STRING
    BY <1>2, <1>5, Rows
  <2>2. search \in {"native", "none"}
    OBVIOUS
  <2>3. attempt \in Nat \ {0}
    BY <1>2
  <2> HIDE DEF row, search, d
  <2> QED BY <1>3, <2>1, <2>2, <2>3 DEF Calls, Records
<1>9. IsRouted(c)
  <2>1. Configured(c, handledAt)
    BY <1>5 DEF Configured, Provided
  <2>2. resolvedAt = Active => handledAt = Active
    BY <1>2
  <2>3. /\ c.attempt = attempt /\ c.key = candidates[c.attempt].key
        /\ c.model = candidates[c.attempt].model
    OBVIOUS
  <2> HIDE DEF c
  <2> QED BY <1>2, <2>1, <2>2, <2>3 DEF IsRouted
<1>10. c.attempt = attempt
  OBVIOUS
<1> HIDE DEF c
<1> QED
  BY <1>1, <1>7, <1>8, <1>9, <1>10, CallAdded

\* An adapter calls the preferred one, with the client that was chosen.
LEMMA SendRoutes == ASSUME RInv, SendWhole \/ SendStream PROVE RInv'
<1>1. PICK loop \in BOOLEAN : Send(loop)
  <2>1. WholeSearchLoop \in BOOLEAN /\ StreamSearchLoop \in BOOLEAN
    BY DEF WholeSearchLoop, StreamSearchLoop
  <2> QED BY <2>1 DEF SendWhole, SendStream
<1>2. /\ pc = "sending" /\ pc' \in {"awaiting", "starting"}
      /\ UNCHANGED <<versions, req, resolvedAt, handledAt, candidates, attempt, injected, client>>
  BY <1>1 DEF SendWhole, SendStream, Send
<1> DEFINE search == IF injected THEN "injected"
                     ELSE IF SearchMode = "enabled" /\ Preferred.protocol = "anthropic"
                     THEN "native" ELSE "none"
           c == [attempt |-> 1, key |-> Preferred.key, model |-> Preferred.model,
                 address |-> client[1].address, credential |-> client[1].credential,
                 search |-> search, visual |-> Visual, loop |-> loop, outcome |-> "pending"]
<1>3. calls' = Append(calls, c)
  BY <1>1 DEF Send
<1>4. /\ resolvedAt \in 1 .. Active /\ Active \in Nat \ {0} /\ VersionsInv
      /\ candidates \in Seq(Records) /\ candidates # <<>> /\ attempt = 1
  BY <1>2, Snapshots DEF RInv, ReadingsInv, CandidatesInv, Filtered, Adapted, Proxied
<1>5. 1 \in 1 .. Len(candidates) /\ Preferred \in Records
  <2>1. Len(candidates) \in Nat \ {0}
    BY <1>4, LenProperties, EmptySeq
  <2>2. 1 \in 1 .. Len(candidates)
    BY <2>1
  <2> QED BY <1>4, <2>2, ElementOfSeq DEF Preferred
<1>6. PICK n \in 1 .. Active : ClientOf(n)
  BY <1>2 DEF RInv, ClientInv
<1> DEFINE row == ProvidersOf(n)[Preferred.key]
           x == [address |-> row.address, credential |-> row.credential]
<1>7. Provided(n, Preferred.key) /\ client[1] = x
  <2>1. Provided(n, Preferred.key) /\ client = <<x>>
    BY <1>6 DEF ClientOf
  <2> HIDE DEF x
  <2> QED BY <2>1
<1>8. client[1].address = row.address /\ client[1].credential = row.credential
  BY <1>7
<1>9. c \in Calls
  <2>1. row.address \in STRING /\ row.credential \in STRING
    BY <1>4, <1>7, Rows DEF Provided
  <2>2. search \in {"native", "injected", "none"}
    OBVIOUS
  <2>3. Visual \in BOOLEAN
    BY DEF Visual
  <2> HIDE DEF row, search
  <2> QED BY <1>5, <1>8, <2>1, <2>2, <2>3 DEF Calls, Records
<1>10. IsRouted(c)
  <2>1. Configured(c, n)
    BY <1>7, <1>8 DEF Configured
  <2>2. resolvedAt = Active => Configured(c, Active)
    <3> SUFFICES ASSUME resolvedAt = Active PROVE Configured(c, Active)
      OBVIOUS
    <3>1. ClientOf(Active)
      BY <1>2 DEF RInv, ClientInv
    <3> DEFINE r == ProvidersOf(Active)[Preferred.key]
               y == [address |-> r.address, credential |-> r.credential]
    <3>2. client[1] = y /\ Provided(Active, Preferred.key)
      <4>1. client = <<y>> /\ Provided(Active, Preferred.key)
        BY <3>1 DEF ClientOf
      <4> HIDE DEF y
      <4> QED BY <4>1
    <3>3. client[1].address = r.address /\ client[1].credential = r.credential
      BY <3>2
    <3> QED BY <3>2, <3>3 DEF Configured
  <2>3. /\ c.attempt = 1 /\ c.key = candidates[c.attempt].key
        /\ c.model = candidates[c.attempt].model
    BY DEF Preferred
  <2> HIDE DEF c
  <2> QED BY <1>5, <2>1, <2>2, <2>3 DEF IsRouted
<1>11. c.attempt = attempt
  BY <1>4
<1> HIDE DEF c
<1> QED
  BY <1>2, <1>3, <1>9, <1>10, <1>11, CallAdded

\* A call's outcome is noted: nothing else of the calls changes.
LEMMA OutcomeRoutes ==
    ASSUME RInv, pc \in Calling, UNCHANGED <<versions, req, resolvedAt, handledAt, candidates>>,
           NEW o \in {"unreachable", "answered", "broken", "whole"}, Outcome(o)
    PROVE  /\ calls' \in Seq(Calls) /\ calls' # <<>> /\ Len(calls') = Len(calls)
           /\ Len(calls) \in Nat \ {0}
           /\ \A i \in 1 .. Len(calls) : IsRouted(calls[i])'
           /\ \A i \in 1 .. Len(calls) : calls'[i].attempt = calls[i].attempt
           /\ \A i \in 1 .. Len(calls) : i # Len(calls) => calls'[i] = calls[i]
           /\ calls'[Len(calls)].outcome = o
           /\ \A j : \A i \in 0 .. Len(calls) : PassedBefore(j, i) => PassedBefore(j, i)'
<1> DEFINE n == Len(calls)
           d == [calls[n] EXCEPT !.outcome = o]
<1>1. calls \in Seq(Calls) /\ calls # <<>> /\ \A i \in 1 .. n : IsRouted(calls[i])
  BY DEF RInv, RoutedInv
<1>2. n \in Nat \ {0} /\ DOMAIN calls = 1 .. n
  BY <1>1, LenProperties, EmptySeq
<1>3. \A i \in 1 .. n : calls[i] \in Calls
  BY <1>1, ElementOfSeq
<1>4. d \in Calls /\ d.outcome = o /\ d.attempt = calls[n].attempt /\ d.key = calls[n].key
      /\ d.model = calls[n].model /\ d.address = calls[n].address
      /\ d.credential = calls[n].credential
  <2>1. calls[n] \in Calls
    BY <1>2, <1>3
  <2> QED BY <2>1 DEF Calls
<1>5. calls' = [calls EXCEPT ![n] = d]
  BY DEF Outcome
<1> HIDE DEF d, n
<1>6. /\ calls' \in Seq(Calls) /\ Len(calls') = n
      /\ \A i \in 1 .. n : calls'[i] = IF i = n THEN d ELSE calls[i]
  <2>1. calls' \in Seq(Calls) /\ Len(calls') = n
    BY <1>1, <1>2, <1>4, <1>5, ExceptSeq DEF n
  <2>2. \A i \in 1 .. n : calls'[i] = IF i = n THEN d ELSE calls[i]
    BY <1>2, <1>5
  <2> QED BY <2>1, <2>2
<1>7. calls' # <<>>
  <2>1. Len(<<>>) = 0
    OBVIOUS
  <2> QED BY <1>2, <1>6, <2>1
<1>8. \A i \in 1 .. n : /\ calls'[i].attempt = calls[i].attempt
                        /\ calls'[i].key = calls[i].key
                        /\ calls'[i].model = calls[i].model
                        /\ calls'[i].address = calls[i].address
                        /\ calls'[i].credential = calls[i].credential
  BY <1>4, <1>6
<1>9. ASSUME NEW i \in 1 .. n PROVE IsRouted(calls[i])'
  <2>1. IsRouted(calls[i])
    BY <1>1
  <2>2. \A m : ProvidersOf(m)' = ProvidersOf(m)
    BY DEF ProvidersOf
  <2>3. \A m : Configured(calls[i], m) => Configured(calls[i], m)'
    BY <1>8, <2>2 DEF Configured, Provided
  <2>4. Active' = Active
    BY DEF Active
  <2> QED BY <1>8, <2>1, <2>3, <2>4 DEF IsRouted
<1>10. ASSUME NEW j, NEW i \in 0 .. n, PassedBefore(j, i) PROVE PassedBefore(j, i)'
  <2>1. CannotBeTried(j)' <=> CannotBeTried(j)
    BY FrameOfCandidates
  <2>2. \A l \in 1 .. i : l \in 1 .. n
    BY <1>2
  <2> QED BY <1>8, <1>10, <2>1, <2>2 DEF PassedBefore
<1>11. calls'[n].outcome = o /\ \A i \in 1 .. n : i # n => calls'[i] = calls[i]
  BY <1>2, <1>4, <1>6
<1>12. \A j : \A i \in 0 .. n : PassedBefore(j, i) => PassedBefore(j, i)'
  BY <1>10
<1> QED
  BY <1>2, <1>6, <1>7, <1>8, <1>9, <1>11, <1>12, Zenon DEF n

\* The parts of the invariant that an outcome leaves as they are.
LEMMA OutcomeKeeps ==
    ASSUME RInv, pc \in Calling, UNCHANGED <<versions, req, resolvedAt, handledAt, candidates>>,
           NEW o \in {"unreachable", "answered", "broken", "whole"}, Outcome(o),
           pc' \in Calling \cup {"trying", "done"}, pc' # "sending"
    PROVE  /\ RoutedInv' /\ ClientInv'
           /\ \A i, j \in 1 .. Len(calls') :
                i < j => calls'[i].attempt < calls'[j].attempt /\ calls'[i].outcome = "unreachable"
           /\ \A i \in 1 .. Len(calls') : \A j \in 1 .. calls'[i].attempt - 1 :
                PassedBefore(j, i - 1)'
<1>1. /\ calls' \in Seq(Calls) /\ calls' # <<>> /\ Len(calls') = Len(calls)
      /\ Len(calls) \in Nat \ {0}
      /\ \A i \in 1 .. Len(calls) : IsRouted(calls[i])'
      /\ \A i \in 1 .. Len(calls) : calls'[i].attempt = calls[i].attempt
      /\ \A i \in 1 .. Len(calls) : i # Len(calls) => calls'[i] = calls[i]
      /\ \A j : \A i \in 0 .. Len(calls) : PassedBefore(j, i) => PassedBefore(j, i)'
  BY OutcomeRoutes
<1>2. handledAt' # 0
  BY DEF RInv, RoutedInv
<1>3. RoutedInv'
  BY <1>1, <1>2 DEF RoutedInv
<1>4. ClientInv'
  BY DEF ClientInv
<1>5. \A i, j \in 1 .. Len(calls') :
        i < j => calls'[i].attempt < calls'[j].attempt /\ calls'[i].outcome = "unreachable"
  <2> TAKE i, j \in 1 .. Len(calls')
  <2> HAVE i < j
  <2>1. i \in 1 .. Len(calls) /\ j \in 1 .. Len(calls) /\ i # Len(calls)
    BY <1>1
  <2>2. calls[i].attempt < calls[j].attempt /\ calls[i].outcome = "unreachable"
    BY <2>1 DEF RInv, TurnsInv
  <2> QED BY <1>1, <2>1, <2>2
<1>6. \A i \in 1 .. Len(calls') : \A j \in 1 .. calls'[i].attempt - 1 : PassedBefore(j, i - 1)'
  <2> TAKE i \in 1 .. Len(calls')
  <2> TAKE j \in 1 .. calls'[i].attempt - 1
  <2>1. i \in 1 .. Len(calls) /\ i - 1 \in 0 .. Len(calls) /\ j \in 1 .. calls[i].attempt - 1
    BY <1>1
  <2>2. PassedBefore(j, i - 1)
    BY <2>1 DEF RInv, TurnsInv
  <2> QED BY <1>1, <2>1, <2>2
<1> QED
  BY <1>3, <1>4, <1>5, <1>6

\* The upstream's answer goes on, or it has ended, or nothing was reported.
LEMMA AnswerRoutes ==
    ASSUME RInv, pc \in Calling,
           UNCHANGED <<versions, req, resolvedAt, handledAt, candidates, attempt, injected>>,
           NEW o \in {"unreachable", "answered", "broken", "whole"}, Outcome(o),
           \/ pc = "connecting" /\ pc' = "copying"
           \/ pc = "starting" /\ pc' = "streaming"
           \/ pc' = "done" /\ (reports' = <<>> \/ answers'[1].from = "upstream")
    PROVE  RInv'
<1>1. VersionsInv' /\ ReadingsInv' /\ CandidatesInv' /\ NobodyLost' /\ ImagesInv'
  <2>1. /\ pc \in Proxied \cup Adapted /\ pc' \in Proxied \cup Adapted \cup {"done"}
        /\ pc' \in Adapted => pc \in Adapted
        /\ pc' \in Proxied => pc \in Proxied
    BY DEF Calling, Proxied, Adapted
  <2>2. /\ attempt \in 1 .. Len(candidates) + 1
        /\ pc \in Proxied => attempt \in 1 .. Len(candidates)
        /\ pc \in Adapted => attempt = 1
    BY DEF RInv, CandidatesInv, Proxied, Adapted
  <2> QED BY <2>1, <2>2, CandidatesStay
<1>2. pc' \in Calling \cup {"trying", "done"} /\ pc' # "sending"
  BY DEF Calling
<1>3. /\ RoutedInv' /\ ClientInv'
      /\ \A i, j \in 1 .. Len(calls') :
           i < j => calls'[i].attempt < calls'[j].attempt /\ calls'[i].outcome = "unreachable"
      /\ \A i \in 1 .. Len(calls') : \A j \in 1 .. calls'[i].attempt - 1 :
           PassedBefore(j, i - 1)'
  BY <1>2, OutcomeKeeps
<1>4. /\ Len(calls') = Len(calls) /\ Len(calls) \in Nat \ {0}
      /\ \A i \in 1 .. Len(calls) : calls'[i].attempt = calls[i].attempt
      /\ \A j : \A i \in 0 .. Len(calls) : PassedBefore(j, i) => PassedBefore(j, i)'
  BY OutcomeRoutes
<1>5. TurnsInv'
  <2>1. pc' \in {"connecting", "copying"} => calls'[Len(calls')].attempt = attempt'
    <3> SUFFICES ASSUME pc = "connecting" PROVE calls'[Len(calls')].attempt = attempt
      OBVIOUS
    <3>1. calls[Len(calls)].attempt = attempt
      BY DEF RInv, TurnsInv
    <3>2. Len(calls) \in 1 .. Len(calls)
      BY <1>4
    <3> QED BY <1>4, <3>1, <3>2
  <2>2. pc' \in Proxied => \A j \in 1 .. attempt' - 1 : PassedBefore(j, Len(calls))'
    <3> SUFFICES ASSUME pc = "connecting", NEW j \in 1 .. attempt - 1
                 PROVE  PassedBefore(j, Len(calls))'
      BY DEF Proxied
    <3>1. PassedBefore(j, Len(calls)) /\ Len(calls) \in 0 .. Len(calls)
      BY <1>4 DEF RInv, TurnsInv, Proxied
    <3>2. (\E l \in 1 .. Len(calls) : calls[l].attempt = j) \/ CannotBeTried(j)
      BY <3>1 DEF PassedBefore
    <3>3. CannotBeTried(j)' <=> CannotBeTried(j)
      BY FrameOfCandidates
    <3> QED BY <1>4, <3>2, <3>3 DEF PassedBefore
  <2>3. pc' # "trying"
    OBVIOUS
  <2>4. pc' = "done" => reports' = <<>> \/ answers'[1] # [from |-> "proxy", status |-> 502]
    <3>1. [from |-> "proxy", status |-> 502].from = "proxy"
      OBVIOUS
    <3> QED BY <3>1
  <2> QED BY <1>3, <2>1, <2>2, <2>3, <2>4 DEF TurnsInv
<1> QED
  BY <1>1, <1>3, <1>5 DEF RInv

\* The next candidate's turn, or none is left: the one before was passed.
LEMMA TurnPasses ==
    ASSUME RInv, pc \in {"trying", "connecting"}, NextCandidate,
           UNCHANGED <<versions, req, resolvedAt, handledAt, candidates, injected>>,
           RoutedInv', ClientInv', Len(calls') = Len(calls),
           \A i \in 1 .. Len(calls) :
              calls'[i].attempt = calls[i].attempt /\ calls'[i].outcome = "unreachable",
           \A i, j \in 1 .. Len(calls') :
             i < j => calls'[i].attempt < calls'[j].attempt /\ calls'[i].outcome = "unreachable",
           \A i \in 1 .. Len(calls') : \A j \in 1 .. calls'[i].attempt - 1 :
             PassedBefore(j, i - 1)',
           \/ pc = "trying" /\ CannotBeTried(attempt)
           \/ pc = "connecting"
    PROVE  RInv'
<1>0. Len(calls) \in Nat /\ Len(candidates) \in Nat /\ attempt \in 1 .. Len(candidates)
      /\ pc \in Proxied /\ handledAt # 0
  BY LenProperties DEF RInv, RoutedInv, CandidatesInv, ReadingsInv, Proxied
<1>1. \A i \in 1 .. Len(calls) : calls[i].attempt \in 1 .. attempt
  <2> TAKE i \in 1 .. Len(calls)
  <2>1. calls[i].attempt \in 1 .. Len(candidates)
    BY DEF RInv, RoutedInv, IsRouted
  <2>2. CASE pc = "trying"
    <3>1. calls[i].attempt < attempt
      BY <2>2 DEF RInv, TurnsInv
    <3> QED BY <1>0, <2>1, <3>1
  <2>3. CASE pc = "connecting"
    <3>1. calls[Len(calls)].attempt = attempt
      BY <2>3 DEF RInv, TurnsInv
    <3>2. i < Len(calls) => calls[i].attempt < calls[Len(calls)].attempt
      BY <1>0 DEF RInv, TurnsInv
    <3> QED BY <1>0, <2>1, <3>1, <3>2
  <2> QED BY <2>2, <2>3
<1>2. ASSUME NEW j \in 1 .. attempt PROVE PassedBefore(j, Len(calls))'
  <2>1. CannotBeTried(j)' <=> CannotBeTried(j)
    BY FrameOfCandidates
  <2>2. (\E l \in 1 .. Len(calls) : calls[l].attempt = j) \/ CannotBeTried(j)
    <3>1. CASE j = attempt /\ pc = "connecting"
      <4>1. calls # <<>> /\ calls[Len(calls)].attempt = attempt
        BY <3>1 DEF RInv, TurnsInv, RoutedInv, Calling
      <4>2. Len(calls) \in 1 .. Len(calls)
        <5>1. calls \in Seq(Calls)
          BY DEF RInv, RoutedInv
        <5> QED BY <1>0, <4>1, <5>1, EmptySeq
      <4> QED BY <3>1, <4>1, <4>2
    <3>2. CASE j = attempt /\ pc = "trying"
      BY <3>2
    <3>3. CASE j # attempt
      <4>1. j \in 1 .. attempt - 1
        BY <1>0, <3>3
      <4>2. PassedBefore(j, Len(calls))
        BY <1>0, <4>1 DEF RInv, TurnsInv
      <4> QED BY <4>2 DEF PassedBefore
    <3> QED BY <3>1, <3>2, <3>3
  <2> QED BY <2>1, <2>2 DEF PassedBefore
<1>3. CASE ~IsLast /\ attempt' = attempt + 1 /\ pc' = "trying"
  <2>1. attempt' \in 1 .. Len(candidates) /\ attempt' \in 1 .. Len(candidates) + 1
    BY <1>0, <1>3 DEF IsLast
  <2>2. pc' \in Proxied /\ pc' \notin Adapted
    BY <1>3 DEF Proxied, Adapted
  <2>3. VersionsInv' /\ ReadingsInv' /\ CandidatesInv' /\ NobodyLost' /\ ImagesInv'
    BY <1>0, <2>1, <2>2, CandidatesStay
  <2>4. \A i \in 1 .. Len(calls') :
           calls'[i].attempt < attempt' /\ calls'[i].outcome = "unreachable"
    BY <1>0, <1>1, <1>3
  <2>5. \A j \in 1 .. attempt' - 1 : PassedBefore(j, Len(calls))'
    <3>1. \A j \in 1 .. attempt' - 1 : j \in 1 .. attempt
      BY <1>0, <1>3
    <3> QED BY <1>2, <3>1
  <2>6. TurnsInv'
    BY <1>3, <2>4, <2>5 DEF TurnsInv
  <2> QED BY <2>3, <2>6 DEF RInv
<1>4. CASE IsLast /\ RefuseAndReport(502) /\ UNCHANGED attempt
  <2>1. pc' = "done" /\ attempt' \in 1 .. Len(candidates) + 1 /\ attempt = Len(candidates)
    BY <1>0, <1>4 DEF IsLast, RefuseAndReport
  <2>2. pc' \notin Proxied /\ pc' \notin Adapted
    BY <2>1 DEF Proxied, Adapted
  <2>3. VersionsInv' /\ ReadingsInv' /\ CandidatesInv' /\ NobodyLost' /\ ImagesInv'
    BY <1>0, <2>1, <2>2, CandidatesStay
  <2>4. \A j \in 1 .. Len(candidates') : PassedBefore(j, Len(calls))'
    BY <1>2, <2>1
  <2>5. TurnsInv'
    BY <1>0, <1>4, <2>1, <2>2, <2>4 DEF TurnsInv
  <2> QED BY <2>3, <2>5 DEF RInv
<1> QED
  BY <1>3, <1>4 DEF NextCandidate

LEMMA SkipRoutes == ASSUME RInv, SkipCandidate PROVE RInv'
<1>1. /\ pc = "trying" /\ ~Usable /\ NextCandidate
      /\ UNCHANGED <<versions, req, resolvedAt, handledAt, candidates, injected, client, calls,
                     counted>>
  BY DEF SkipCandidate
<1>2. CannotBeTried(attempt)
  <2> DEFINE k == candidates[attempt].key
             row == ProvidersOf(handledAt)[k]
  <2> SUFFICES ASSUME k \in DOMAIN ProvidersOf(handledAt) PROVE row.address \in Malformed
    BY DEF CannotBeTried, Provided
  <2>1. handledAt \in 1 .. Active /\ VersionsInv
    BY <1>1 DEF RInv, ReadingsInv, Proxied
  <2>2. Manager(handledAt).providers = ProvidersOf(handledAt)
    BY <2>1, Snapshots
  <2>3. Target = <<row>>
    BY <2>2 DEF Target
  <2> HIDE DEF row
  <2>4. 1 \in DOMAIN Target /\ Target[1] = row
    BY <2>3
  <2> QED BY <1>1, <2>4 DEF Usable
<1>3. pc' \in {"trying", "done"}
  BY <1>1 DEF NextCandidate, RefuseAndReport
<1>4. \A c : IsRouted(c)' <=> IsRouted(c)
  BY <1>1, FrameOfCandidates
<1>5. RoutedInv'
  <2>1. \A i \in 1 .. Len(calls) : IsRouted(calls[i])'
    BY <1>1 DEF RInv, RoutedInv, IsRouted, Configured, Provided, ProvidersOf, Active
  <2>2. handledAt # 0
    BY <1>1 DEF RInv, ReadingsInv, Proxied
  <2> QED BY <1>1, <1>3, <2>1, <2>2 DEF RInv, RoutedInv, Calling
<1>6. ClientInv'
  BY <1>3 DEF ClientInv
<1>7. \A i \in 1 .. Len(calls) : calls[i].outcome = "unreachable"
  BY <1>1 DEF RInv, TurnsInv
<1>8. \A j, i : PassedBefore(j, i)' <=> PassedBefore(j, i)
  BY <1>1, FrameOfCandidates DEF PassedBefore
<1>9. /\ \A i, j \in 1 .. Len(calls) :
           i < j => calls[i].attempt < calls[j].attempt /\ calls[i].outcome = "unreachable"
      /\ \A i \in 1 .. Len(calls) : \A j \in 1 .. calls[i].attempt - 1 : PassedBefore(j, i - 1)
  BY DEF RInv, TurnsInv
<1>10. \A i \in 1 .. Len(calls) : \A j \in 1 .. calls[i].attempt - 1 : PassedBefore(j, i - 1)'
  BY <1>8, <1>9
<1> QED
  BY <1>1, <1>2, <1>5, <1>6, <1>7, <1>9, <1>10, TurnPasses

LEMMA ConnectRoutes == ASSUME RInv, FailToConnect PROVE RInv'
<1>1. /\ pc = "connecting" /\ Outcome("unreachable") /\ NextCandidate
      /\ UNCHANGED <<versions, req, resolvedAt, handledAt, candidates, injected, client, counted>>
  BY DEF FailToConnect
<1>2. pc \in Calling /\ pc' \in Calling \cup {"trying", "done"} /\ pc' # "sending"
  BY <1>1 DEF NextCandidate, RefuseAndReport, Calling
<1>3. /\ RoutedInv' /\ ClientInv'
      /\ \A i, j \in 1 .. Len(calls') :
           i < j => calls'[i].attempt < calls'[j].attempt /\ calls'[i].outcome = "unreachable"
      /\ \A i \in 1 .. Len(calls') : \A j \in 1 .. calls'[i].attempt - 1 :
           PassedBefore(j, i - 1)'
  BY <1>1, <1>2, OutcomeKeeps
<1>4. /\ Len(calls') = Len(calls) /\ Len(calls) \in Nat \ {0}
      /\ \A i \in 1 .. Len(calls) : calls'[i].attempt = calls[i].attempt
      /\ calls'[Len(calls)].outcome = "unreachable"
  BY <1>1, <1>2, OutcomeRoutes
<1>5. \A i \in 1 .. Len(calls) : calls'[i].outcome = "unreachable"
  <2> TAKE i \in 1 .. Len(calls)
  <2>1. CASE i = Len(calls)
    BY <1>4, <2>1
  <2>2. CASE i # Len(calls)
    <3>1. i < Len(calls) /\ i \in 1 .. Len(calls') /\ Len(calls) \in 1 .. Len(calls')
      BY <1>4, <2>2
    <3> QED BY <1>3, <3>1
  <2> QED BY <2>1, <2>2
<1> QED
  BY <1>1, <1>3, <1>4, <1>5, TurnPasses

LEMMA RoutingStep == IInv /\ RInv /\ [Next]_vars => RInv'
<1> SUFFICES ASSUME IInv, RInv, [Next]_vars PROVE RInv'
  OBVIOUS
<1>0. injected \in BOOLEAN /\ (pc # "done" => reports = <<>>)
  BY DEF RInv, ReadingsInv, IInv, ReportInv
<1>1. CASE Reload
  BY <1>1, ReloadRoutes
<1>2. CASE Reject \/ Accept \/ UnknownModel \/ NobodyTakesInput \/ FailToConvert \/ NoClient
           \/ Inject
  <2>1. /\ UNCHANGED <<versions, req, resolvedAt, handledAt, candidates, attempt, client, calls>>
        /\ injected' \in BOOLEAN
        /\ \/ pc = "arriving" /\ pc' = "resolving"
           \/ pc = "injecting" /\ pc' = "choosing"
           \/ pc' = "done" /\ reports' = <<>>
    <3>1. CASE Accept
      BY <1>0, <3>1 DEF Accept
    <3>2. CASE Inject
      BY <3>2 DEF Inject
    <3>3. CASE Reject \/ UnknownModel \/ NobodyTakesInput \/ FailToConvert \/ NoClient
      <4>1. pc # "done" /\ \E status : Refuse(status)
        BY <3>3 DEF Reject, UnknownModel, NobodyTakesInput, FailToConvert, NoClient
      <4> QED BY <1>0, <4>1 DEF Refuse
    <3> QED BY <1>2, <3>1, <3>2, <3>3
  <2> QED BY <2>1, GoesOn
<1>3. CASE Resolve \/ Filter \/ Proxy \/ Adapt \/ ChooseClient
  BY <1>3, ResolveRoutes, FilterRoutes, ProxyRoutes, AdaptRoutes, ChooseRoutes
<1>4. CASE SkipCandidate \/ TryCandidate \/ FailToConnect \/ SendWhole \/ SendStream
  BY <1>4, SkipRoutes, TryRoutes, ConnectRoutes, SendRoutes
<1>5. ASSUME NEW o \in {"unreachable", "answered", "broken", "whole"}, Outcome(o), pc \in Calling,
             UNCHANGED <<versions, req, resolvedAt, handledAt, candidates, attempt, injected>>,
             \/ pc = "connecting" /\ pc' = "copying"
             \/ pc = "starting" /\ pc' = "streaming"
             \/ pc' = "done" /\ (reports' = <<>> \/ answers'[1].from = "upstream")
      PROVE  RInv'
  BY <1>5, AnswerRoutes
<1>6. CASE CopyHeader \/ StartStream
  BY <1>5, <1>6 DEF CopyHeader, StartStream, Calling
<1>7. CASE FailToCopy \/ CopyBody \/ EndStream
  <2>1. pc \in {"copying", "streaming"} /\ pc' = "done" /\ UNCHANGED answers
        /\ UNCHANGED <<versions, req, resolvedAt, handledAt, candidates, attempt, injected>>
    BY <1>7 DEF FailToCopy, CopyBody, EndStream
  <2>2. answers'[1].from = "upstream" /\ pc \in Calling
    BY <2>1 DEF IInv, AnswerInv, Calling
  <2>3. PICK o \in {"unreachable", "answered", "broken", "whole"} : Outcome(o)
    BY <1>7 DEF FailToCopy, CopyBody, EndStream
  <2> QED BY <1>5, <2>1, <2>2, <2>3
<1>8. CASE FailWhole \/ FailStream
  <2>1. pc \in Calling /\ pc # "done" /\ FailUpstream
    BY <1>8 DEF FailWhole, FailStream, Calling
  <2>2. PICK o \in {"unreachable", "whole"} : Outcome(o)
    BY <2>1 DEF FailUpstream
  <2>3. pc' = "done" /\ reports' = <<>>
        /\ UNCHANGED <<versions, req, resolvedAt, handledAt, candidates, attempt, injected>>
    BY <1>0, <2>1 DEF FailUpstream
  <2> QED BY <1>5, <2>1, <2>2, <2>3
<1>9. CASE RespondWhole
  <2>1. answers = <<>> /\ pc \in Calling
    BY <1>9 DEF RespondWhole, IInv, AnswerInv, Ended, Calling
  <2> DEFINE a == [from |-> "upstream", status |-> 200]
  <2>2. answers' = <<a>> /\ a.from = "upstream"
    BY <1>9, <2>1 DEF RespondWhole, Answer
  <2> HIDE DEF a
  <2>3. answers'[1].from = "upstream"
    BY <2>2
  <2> QED BY <1>5, <1>9, <2>1, <2>3 DEF RespondWhole
<1>10. CASE Done \/ UNCHANGED vars
  BY <1>0, <1>10, GoesOn DEF Done, vars
<1> QED
  BY <1>1, <1>2, <1>3, <1>4, <1>6, <1>7, <1>8, <1>9, <1>10 DEF Next

LEMMA Inductive == Spec => [](IInv /\ RInv)
BY InitInv, NextInv, RoutingInit, RoutingStep, PTL DEF Spec

-----------------------------------------------------------------------------
(* Theorems.                                                               *)

\* What the properties need of a call.
LEMMA CallFacts ==
    ASSUME RInv, NEW i \in DOMAIN calls
    PROVE  /\ i \in 1 .. Len(calls) /\ calls[i] \in Calls /\ IsRouted(calls[i])
           /\ DOMAIN calls = 1 .. Len(calls) /\ Len(calls) \in Nat
           /\ resolvedAt \in 1 .. handledAt /\ handledAt \in 1 .. Active /\ Active \in Nat
           /\ DOMAIN versions = 1 .. Active
           /\ candidates \in Seq(Records) /\ Len(candidates) \in Nat
           /\ AsResolved(candidates, Manager(resolvedAt))
<1>1. calls \in Seq(Calls) /\ \A l \in 1 .. Len(calls) : IsRouted(calls[l])
  BY DEF RInv, RoutedInv
<1>2. DOMAIN calls = 1 .. Len(calls) /\ Len(calls) \in Nat /\ calls[i] \in Calls
  BY <1>1, LenProperties, ElementOfSeq
<1>3. calls # <<>>
  BY <1>2
<1>4. handledAt # 0 /\ handledAt \in 0 .. Active /\ Active \in Nat \ {0}
      /\ resolvedAt \in 1 .. handledAt /\ DOMAIN versions = 1 .. Active
  BY <1>3, Snapshots DEF RInv, RoutedInv, ReadingsInv
<1>5. candidates \in Seq(Records) /\ AsResolved(candidates, Manager(resolvedAt))
  BY <1>4 DEF RInv, CandidatesInv
<1>6. Len(candidates) \in Nat
  BY <1>5, LenProperties
<1>7. i \in 1 .. Len(calls) /\ IsRouted(calls[i])
  BY <1>1, <1>2
<1>8. resolvedAt \in 1 .. handledAt /\ handledAt \in 1 .. Active /\ Active \in Nat
  BY <1>4
<1> QED
  BY <1>2, <1>4, <1>5, <1>6, <1>7, <1>8

\* A credential is sent to no address but one it was configured with: however
\* reloads fall between the handler's readings, both come from one snapshot.
THEOREM CredentialsStayTogether == Spec => []CredentialsWithTheirAddress
<1>1. RInv => CredentialsWithTheirAddress
  <2> SUFFICES ASSUME RInv, NEW i \in DOMAIN calls
               PROVE  \E n \in DOMAIN versions : Configured(calls[i], n)
    BY DEF CredentialsWithTheirAddress, Configured
  <2>1. IsRouted(calls[i]) /\ DOMAIN versions = 1 .. Active
    BY CallFacts
  <2> QED BY <2>1 DEF IsRouted
<1> QED
  BY <1>1, Inductive, PTL

\* A request with an image item is sent only where the model took images in a
\* configuration that was active since the model was resolved.
THEOREM ImagesGoWhereAccepted == Spec => []ImageWhereAccepted
<1>1. RInv => ImageWhereAccepted
  <2> SUFFICES ASSUME RInv, req.image = "item", NEW i \in DOMAIN calls
               PROVE  \E n \in resolvedAt .. Active : Accepts(n, calls[i])
    BY DEF ImageWhereAccepted, Accepts
  <2>1. calls # <<>>
    BY CallFacts
  <2>2. /\ calls[i].attempt \in 1 .. Len(candidates)
        /\ calls[i].key = candidates[calls[i].attempt].key
        /\ calls[i].model = candidates[calls[i].attempt].model
    BY CallFacts DEF IsRouted
  <2>3. PICK n \in resolvedAt .. Active : Accepts(n, candidates[calls[i].attempt])
    BY <2>1, <2>2 DEF RInv, ImagesInv
  <2> QED BY <2>2, <2>3 DEF Accepts
<1> QED
  BY <1>1, Inductive, PTL

\* A request is sent to another candidate only if no one before may have
\* begun to answer it, to each at most once and in their order; the client is
\* told that nobody could be reached only after the last was tried.
THEOREM FallsBackInOrder == Spec => []FallbackInOrder
<1>1. IInv /\ RInv => FallbackInOrder
  <2> SUFFICES ASSUME IInv, RInv PROVE FallbackInOrder
    OBVIOUS
  <2>1. TypeOK
    <3>1. versions # <<>> /\ \A n \in DOMAIN versions : versions[n].config \in Configs
      BY Snapshots DEF RInv, VersionsInv, IsSnapshot
    <3>2. \A i \in DOMAIN calls : calls[i] \in Calls
      BY CallFacts
    <3>3. counted \in 0 .. 1
      BY DEF IInv, ReportInv
    <3> QED BY <3>1, <3>2, <3>3 DEF TypeOK, RInv, ReadingsInv, CandidatesInv
  <2>2. \A i, j \in DOMAIN calls :
          i < j => calls[i].attempt < calls[j].attempt /\ calls[i].outcome = "unreachable"
    BY CallFacts DEF RInv, TurnsInv
  <2>3. ASSUME pc = "done", reports # <<>>, answers[1] = [from |-> "proxy", status |-> 502]
        PROVE  /\ attempt = Len(candidates)
               /\ \A j \in DOMAIN candidates :
                     \/ \E i \in DOMAIN calls : calls[i].attempt = j
                     \/ ~Provided(handledAt, candidates[j].key)
                     \/ ProvidersOf(handledAt)[candidates[j].key].address \in Malformed
    <3>1. calls \in Seq(Calls) /\ candidates \in Seq(Records)
      BY DEF RInv, RoutedInv, CandidatesInv
    <3>2. DOMAIN calls = 1 .. Len(calls) /\ DOMAIN candidates = 1 .. Len(candidates)
      BY <3>1, LenProperties
    <3>3. attempt = Len(candidates) /\ \A j \in 1 .. Len(candidates) : PassedBefore(j, Len(calls))
      BY <2>3 DEF RInv, TurnsInv
    <3> QED BY <3>2, <3>3 DEF PassedBefore, CannotBeTried
  <2> QED BY <2>1, <2>2, <2>3 DEF FallbackInOrder
<1> QED
  BY <1>1, Inductive, PTL

\* As long as nothing was reloaded since the model was resolved, the request
\* goes where the configuration says, and for a name of the catalogs to no
\* provider before one of a better priority that could have been tried.
THEOREM QuietCallsGoAsConfigured == Spec => []QuietCallsAsConfigured
<1>1. RInv => QuietCallsAsConfigured
  <2> SUFFICES ASSUME RInv, resolvedAt = Active, NEW i \in DOMAIN calls
               PROVE  LET pm == Manager(Active)
                          k == calls[i].key
                      IN  /\ Meant(pm, k, calls[i].model)
                          /\ pm.providers[k].address = calls[i].address
                          /\ pm.providers[k].credential = calls[i].credential
                          /\ \A better \in Offering(pm, req.model) :
                                /\ Meant(pm, better, req.model)
                                /\ Priority(pm, better, req.model) < Priority(pm, k, req.model)
                                /\ CouldBeTried(pm, better)
                                => \E j \in 1 .. i - 1 : calls[j].key = better
    BY DEF QuietCallsAsConfigured
  <2> DEFINE pm == Manager(Active)
             k == calls[i].key
             a == calls[i].attempt
  <2>1. /\ i \in 1 .. Len(calls) /\ Len(calls) \in Nat
        /\ IsRouted(calls[i]) /\ AsResolved(candidates, pm) /\ Active \in Nat
        /\ Len(candidates) \in Nat /\ handledAt = Active /\ Active \in 1 .. Active
        /\ a \in 1 .. Len(candidates) /\ k = candidates[a].key
        /\ calls[i].model = candidates[a].model
    BY CallFacts DEF IsRouted
  <2>2. pm.providers = ProvidersOf(Active) /\ IsSnapshot(versions[Active])
    BY <2>1, Snapshots DEF RInv
  <2>3. Meant(pm, k, calls[i].model) /\ k \in DOMAIN pm.providers
    BY <2>1 DEF AsResolved
  <2>4. pm.providers[k].address = calls[i].address /\ pm.providers[k].credential = calls[i].credential
    BY <2>1, <2>2 DEF IsRouted, Configured
  <2>5. ASSUME NEW better \in Offering(pm, req.model), Meant(pm, better, req.model),
               Priority(pm, better, req.model) < Priority(pm, k, req.model),
               CouldBeTried(pm, better)
        PROVE  \E j \in 1 .. i - 1 : calls[j].key = better
    <3>1. PICK j \in 1 .. Len(candidates) : candidates[j].key = better
      BY <2>5 DEF RInv, NobodyLost
    <3>2. Priority(pm, better, req.model) \in Int /\ Priority(pm, k, req.model) \in Int
      <4>1. better \in DOMAIN pm.providers
        BY <2>5 DEF Offering
      <4> QED BY <2>2, <2>3, <4>1, PriorityIsNumber DEF Manager
    <3>3. j < a
      <4>1. a < j => Priority(pm, k, req.model) <= Priority(pm, better, req.model)
        BY <2>1, <3>1 DEF AsResolved
      <4>2. a = j => k = better
        BY <2>1, <3>1
      <4> HIDE DEF k, a, pm
      <4> QED BY <2>1, <2>5, <3>2, <4>1, <4>2
    <3>4. PassedBefore(j, i - 1)
      BY <2>1, <3>3 DEF RInv, TurnsInv
    <3>5. ~ CannotBeTried(j)
      <4>1. better \in DOMAIN pm.providers
        BY <2>5 DEF Offering
      <4> QED BY <2>1, <2>2, <2>5, <3>1, <4>1 DEF CannotBeTried, Provided, CouldBeTried
    <3>6. PICK l \in 1 .. i - 1 : calls[l].attempt = j
      BY <3>4, <3>5 DEF PassedBefore
    <3>7. IsRouted(calls[l])
      BY <2>1 DEF RInv, RoutedInv
    <3> QED BY <3>1, <3>6, <3>7 DEF IsRouted
  <2> QED BY <2>3, <2>4, <2>5
<1> QED
  BY <1>1, Inductive, PTL
=============================================================================

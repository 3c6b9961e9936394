-------------------------- MODULE RetryCenter_proofs --------------------------
(***************************************************************************)
(* Proofs about RetryCenter.                                               *)
(***************************************************************************)
EXTENDS RetryCenter, SequenceTheorems, TLAPS

-----------------------------------------------------------------------------
(* Elements of sequences. *)

\* Append adds one element.
LEMMA RangeAppend ==
  ASSUME NEW S, NEW s \in Seq(S), NEW e \in S
  PROVE  /\ Append(s, e) \in Seq(S)
         /\ Range(Append(s, e)) = Range(s) \cup {e}
<1>1. /\ Append(s, e) \in Seq(S)
      /\ Len(Append(s, e)) = Len(s) + 1
      /\ \A i \in 1 .. Len(s) : Append(s, e)[i] = s[i]
      /\ Append(s, e)[Len(s) + 1] = e
  BY AppendProperties
<1>2. Len(s) \in Nat
  BY LenProperties
<1>3. Range(s) = {s[i] : i \in 1 .. Len(s)}
  BY RangeEquality
<1>4. Range(Append(s, e)) = {Append(s, e)[i] : i \in 1 .. Len(s) + 1}
  BY <1>1, RangeEquality
<1> QED
  BY <1>1, <1>2, <1>3, <1>4

\* A sequence of one element.
LEMMA RangeOne ==
  ASSUME NEW S, NEW e \in S
  PROVE  <<e>> \in Seq(S) /\ Range(<<e>>) = {e}
<1>1. <<e>> \in Seq(S) /\ Len(<<e>>) = 1 /\ <<e>>[1] = e
  OBVIOUS
<1>2. Range(<<e>>) = {<<e>>[i] : i \in 1 .. Len(<<e>>)}
  BY <1>1, RangeEquality
<1> QED
  BY <1>1, <1>2

\* A non-empty sequence consists of its head and its tail.
LEMMA RangeHeadTail ==
  ASSUME NEW S, NEW s \in Seq(S), s # << >>
  PROVE  /\ Head(s) \in S /\ Tail(s) \in Seq(S)
         /\ Range(s) = {Head(s)} \cup Range(Tail(s))
<1>1. /\ Head(s) \in S /\ Tail(s) \in Seq(S)
      /\ Len(Tail(s)) = Len(s) - 1
      /\ \A i \in 1 .. Len(Tail(s)) : Tail(s)[i] = s[i + 1]
  BY HeadTailProperties
<1>2. Len(s) \in Nat \ {0}
  BY EmptySeq
<1>3. Head(s) = s[1]
  OBVIOUS
<1>4. Range(s) = {s[i] : i \in 1 .. Len(s)}
  BY RangeEquality
<1>5. Range(Tail(s)) = {Tail(s)[i] : i \in 1 .. Len(s) - 1}
  BY <1>1, RangeEquality
<1>6. Range(s) \subseteq {Head(s)} \cup Range(Tail(s))
  <2>1. ASSUME NEW i \in 1 .. Len(s), i # 1
        PROVE  s[i] \in Range(Tail(s))
    <3>1. i - 1 \in 1 .. Len(s) - 1 /\ Tail(s)[i - 1] = s[i]
      BY <1>1, <1>2, <2>1
    <3> QED
      BY <3>1, <1>5
  <2> QED
    BY <2>1, <1>2, <1>3, <1>4
<1>7. {Head(s)} \cup Range(Tail(s)) \subseteq Range(s)
  BY <1>1, <1>2, <1>3, <1>4, <1>5
<1> QED
  BY <1>1, <1>6, <1>7

\* Cutting a sequence in two loses and adds no element.
LEMMA RangeCut ==
  ASSUME NEW S, NEW s \in Seq(S), NEW n \in 1 .. Len(s)
  PROVE  /\ SubSeq(s, 1, n) \in Seq(S)
         /\ SubSeq(s, n + 1, Len(s)) \in Seq(S)
         /\ Range(s) = Range(SubSeq(s, 1, n)) \cup Range(SubSeq(s, n + 1, Len(s)))
<1> DEFINE a == SubSeq(s, 1, n)
           b == SubSeq(s, n + 1, Len(s))
<1>1. Len(s) \in Nat /\ n \in Nat
  BY LenProperties
<1>2. \A i \in 1 .. Len(s) : s[i] \in S
  BY ElementOfSeq
<1>3. /\ a \in Seq(S) /\ Len(a) = n
      /\ \A i \in 1 .. n : a[i] = s[i]
  <2>1. /\ a \in Seq(S)
        /\ Len(a) = IF 1 <= n THEN n - 1 + 1 ELSE 0
        /\ \A i \in 1 .. n - 1 + 1 : a[i] = s[1 + i - 1]
    BY <1>1, <1>2, SubSeqProperties
  <2> QED
    BY <1>1, <2>1
<1>4. /\ b \in Seq(S) /\ Len(b) = Len(s) - n
      /\ \A i \in 1 .. Len(s) - n : b[i] = s[n + i]
  <2>1. /\ b \in Seq(S)
        /\ Len(b) = IF n + 1 <= Len(s) THEN Len(s) - (n + 1) + 1 ELSE 0
        /\ \A i \in 1 .. Len(s) - (n + 1) + 1 : b[i] = s[n + 1 + i - 1]
    BY <1>1, <1>2, SubSeqProperties
  <2> QED
    BY <1>1, <2>1
<1>5. /\ Range(s) = {s[i] : i \in 1 .. Len(s)}
      /\ Range(a) = {a[i] : i \in 1 .. n}
      /\ Range(b) = {b[i] : i \in 1 .. Len(s) - n}
  BY <1>3, <1>4, RangeEquality
<1>6. Range(a) \cup Range(b) \subseteq Range(s)
  BY <1>1, <1>3, <1>4, <1>5
<1>7. ASSUME NEW i \in 1 .. Len(s)
      PROVE  s[i] \in Range(a) \cup Range(b)
  <2>1. CASE i <= n
    BY <1>1, <1>3, <1>5, <2>1
  <2>2. CASE i > n
    <3>1. i - n \in 1 .. Len(s) - n /\ b[i - n] = s[i]
      BY <1>1, <1>4, <2>2
    <3> QED
      BY <1>5, <3>1
  <2> QED
    BY <1>1, <2>1, <2>2
<1> QED
  BY <1>3, <1>4, <1>5, <1>6, <1>7

-----------------------------------------------------------------------------
(* What the parts of a step do to the types. *)

\* The code's four questions about a configuration, answered from its two
\* numbers.
LEMMA ModeFacts ==
  ASSUME NEW cfg \in RetryQueueConfig
  PROVE  /\ cfg.retryInterval \in {-1} \cup Nat /\ cfg.retryTimes \in {-1} \cup Nat
         /\ IsImmediate(cfg) <=> cfg.retryInterval = 0
         /\ ShouldDirectToRecover(cfg) <=> cfg.retryInterval = -1 /\ cfg.retryTimes = -1
         /\ ShouldRetryByConfig(cfg) <=> ~(cfg.retryInterval = 0 /\ cfg.retryTimes = 0)
         /\ IsInfinite(cfg) <=> cfg.retryInterval >= 0 /\ cfg.retryTimes = -1
<1> DEFINE interval0 == cfg.retryInterval
           times0 == cfg.retryTimes
<1>1. interval0 \in {-1} \cup Nat /\ times0 \in {-1} \cup Nat
  BY DEF RetryQueueConfig
<1>2. GetMessageRetryMode(cfg) =
        CASE interval0 = -1 /\ times0 = -1 -> "DIRECT_TO_RECOVER"
          [] interval0 = 0 /\ times0 = 0   -> "NO_RETRY"
          [] interval0 = 0 /\ times0 < 0   -> "RETRY_IMMEDIATE_INFINITE"
          [] interval0 = 0 /\ times0 > 0   -> "RETRY_IMMEDIATE_FINITE"
          [] interval0 > 0 /\ times0 < 0   -> "RETRY_INTERVAL_INFINITE"
          [] interval0 > 0 /\ times0 > 0   -> "RETRY_INTERVAL_FINITE"
          [] OTHER                        -> "UNSUPPORTED_RETRY_MODE"
  BY DEF GetMessageRetryMode
<1> HIDE DEF interval0, times0
<1>3. CASE interval0 = -1 /\ times0 = -1
  <2>1. GetMessageRetryMode(cfg) = "DIRECT_TO_RECOVER"
    BY <1>2, <1>3
  <2> QED
    BY <1>1, <1>3, <2>1 DEF interval0, times0, IsImmediate, ShouldDirectToRecover,
       ShouldRetryByConfig, IsInfinite
<1>4. CASE interval0 = 0 /\ times0 = 0
  <2>1. GetMessageRetryMode(cfg) = "NO_RETRY"
    BY <1>2, <1>4
  <2> QED
    BY <1>1, <1>4, <2>1 DEF interval0, times0, IsImmediate, ShouldDirectToRecover,
       ShouldRetryByConfig, IsInfinite
<1>5. CASE interval0 >= 0 /\ times0 < 0
  <2>1. GetMessageRetryMode(cfg) \in {"RETRY_IMMEDIATE_INFINITE", "RETRY_INTERVAL_INFINITE"}
    BY <1>1, <1>2, <1>5
  <2> QED
    BY <1>1, <1>5, <2>1 DEF interval0, times0, IsImmediate, ShouldDirectToRecover,
       ShouldRetryByConfig, IsInfinite
<1>6. CASE times0 >= 0 /\ ~(interval0 = 0 /\ times0 = 0)
  <2>1. GetMessageRetryMode(cfg) \in {"RETRY_IMMEDIATE_FINITE", "RETRY_INTERVAL_FINITE",
                                     "UNSUPPORTED_RETRY_MODE"}
    BY <1>1, <1>2, <1>6
  <2> QED
    BY <1>1, <1>6, <2>1 DEF interval0, times0, IsImmediate, ShouldDirectToRecover,
       ShouldRetryByConfig, IsInfinite
<1> QED
  BY <1>1, <1>3, <1>4, <1>5, <1>6

\* What a message is deployed with are configurations.
LEMMA ConfigsOK ==
  ASSUME NEW m \in Msg, NEW cfg \in Configs[m]
  PROVE  cfg \in RetryQueueConfig
BY ConstantsAssumption DEF ConstantsAssumption

\* The values of retriedTimes are numbers, and 0 is one of them.
LEMMA TimesNat ==
  ASSUME NEW m \in Msg
  PROVE  /\ Times(m) \subseteq Nat
         /\ 0 \in Times(m)
<1>1. ASSUME NEW cfg \in Configs[m]
      PROVE  Retries(cfg) \subseteq Nat
  <2>1. cfg.retryTimes \in {-1} \cup Nat
    BY ConfigsOK, ModeFacts
  <2> QED
    BY <2>1 DEF Retries
<1> QED
  BY <1>1 DEF Times

\* The copy of a first delivery is well formed.
LEMMA InitialCopyType == InitialCopy \in Copy
<1>1. 0 \in Id0
  BY ConstantsAssumption DEF Id0, ConstantsAssumption
<1> QED
  BY <1>1 DEF InitialCopy, Copy

\* Acknowledging a delivery removes nothing but the delivered copy, and what
\* the consumer published meanwhile is in the queue.
Acknowledges(m, src, c, more) ==
  /\ bizQ' \subseteq bizQ
  /\ retryQ' \in [Msg -> Seq(Copy)]
  /\ \A x \in Msg \ {m} : retryQ'[x] = retryQ[x] /\ (x \in bizQ => x \in bizQ')
  /\ Range(more) \subseteq Range(retryQ'[m])
  /\ Range(retryQ'[m]) \subseteq Range(retryQ[m]) \cup Range(more)
  /\ src = "retry" => bizQ' = bizQ
  /\ \A d \in Range(retryQ[m]) : d \in Range(retryQ'[m]) \/ (src = "retry" /\ d = c)

\* Publishing more copies behind a queue adds exactly those.
LEMMA PublishedBehind ==
  ASSUME NEW s \in Seq(Copy), NEW t \in Seq(Copy)
  PROVE  s \o t \in Seq(Copy) /\ Range(s \o t) = Range(s) \cup Range(t)
<1>1. s \o t \in Seq(Copy)
  BY ConcatProperties
<1>2. Range(s \o t) = Range(s) \cup Range(t)
  BY RangeConcatenation
<1> QED
  BY <1>1, <1>2

\* Settle acknowledges a delivery, or leaves it (redelivery).
LEMMA SettleEffect ==
  ASSUME TypeOK, NEW m \in Msg, NEW src \in {"business", "retry"}, NEW c,
         Delivered(m, src, c),
         NEW more \in Seq(Copy), NEW n \in {0, 1}, Settle(m, src, more, n)
  PROVE  Acknowledges(m, src, c, more)
<1> DEFINE left == IF src = "retry" /\ n = 0 THEN Tail(retryQ[m]) ELSE retryQ[m]
<1>1. retryQ[m] \in Seq(Copy)
  BY DEF TypeOK
<1>3. /\ left \in Seq(Copy)
      /\ Range(left) \subseteq Range(retryQ[m])
      /\ \A d \in Range(retryQ[m]) : d \in Range(left) \/ (src = "retry" /\ d = c)
  <2>1. CASE src = "retry" /\ n = 0
    BY <1>1, <2>1, RangeHeadTail DEF Delivered
  <2>2. CASE ~(src = "retry" /\ n = 0)
    BY <1>1, <2>2
  <2> QED
    BY <2>1, <2>2
<1>4. left \o more \in Seq(Copy) /\ Range(left \o more) = Range(left) \cup Range(more)
  <2> HIDE DEF left
  <2> QED
    BY <1>3, PublishedBehind
<1>5. retryQ' = [retryQ EXCEPT ![m] = left \o more]
  BY DEF Settle
<1>6. retryQ \in [Msg -> Seq(Copy)]
  BY DEF TypeOK
<1>7. retryQ'[m] = left \o more /\ \A x \in Msg \ {m} : retryQ'[x] = retryQ[x]
  BY <1>5, <1>6
<1>8. retryQ' \in [Msg -> Seq(Copy)]
  BY <1>4, <1>5, <1>6
<1>9. /\ bizQ' \subseteq bizQ
      /\ \A x \in Msg \ {m} : x \in bizQ => x \in bizQ'
      /\ src = "retry" => bizQ' = bizQ
  BY DEF Settle
<1> QED
  BY <1>3, <1>4, <1>7, <1>8, <1>9 DEF Acknowledges

\* The services keep the tables well-formed.
LEMMA ProcessType ==
  ASSUME TypeOK, NEW q \in Request, Process(q)
  PROVE  /\ dropped \subseteq dropped' /\ dropped' \subseteq dropped \cup {q.msg}
         /\ Forgets(q) => q.msg \in dropped'
         /\ lastId' \in Id0
         /\ owner' \in [Id -> Msg \cup {NoMsg}]
         /\ interval' \in [Id -> {"NONE", "TO_RETRY", "IN_RETRY"}]
         /\ retried' \in [Id -> Nat]
         /\ recover' \in [Id -> {"NONE", "TO_RECOVER", "IN_RECOVER"}]
<1> USE DEF TypeOK, Request, Id, Id0
<1>0. MaxId \in Nat
  BY ConstantsAssumption DEF ConstantsAssumption
<1>8. /\ dropped \subseteq dropped' /\ dropped' \subseteq dropped \cup {q.msg}
      /\ Forgets(q) => q.msg \in dropped'
  BY DEF Process
<1>1. CASE CleanRecover(q)
  BY <1>8, <1>1 DEF CleanRecover
<1>2. CASE CleanIntervalRetry(q)
  BY <1>8, <1>2 DEF CleanIntervalRetry
<1>3. CASE ResendForRecover(q)
  BY <1>8, <1>3 DEF ResendForRecover
<1>4. CASE DoIntervalMessageRetry(q)
  <2>1. CASE AddIntervalRetry(q)
    BY <1>0, <1>8, <2>1 DEF AddIntervalRetry, FreshId
  <2>2. CASE CheckinIntervalRetry(q)
    BY <1>8, <2>2 DEF CheckinIntervalRetry
  <2> QED
    BY <1>4, <2>1, <2>2 DEF DoIntervalMessageRetry
<1>5. CASE DoIntervalMessageRecover(q)
  BY <1>8, <1>5 DEF DoIntervalMessageRecover
<1>6. CASE AddRecover(q)
  <2>1. lastId' \in Id0 /\ owner' \in [Id -> Msg \cup {NoMsg}]
    BY <1>0, <1>6 DEF AddRecover, FreshId
  <2>2. /\ recover' \in [Id -> {"NONE", "TO_RECOVER", "IN_RECOVER"}]
        /\ UNCHANGED <<interval, retried>>
    BY <1>0, <1>6 DEF AddRecover, FreshId
  <2> QED
    BY <1>8, <2>1, <2>2
<1>7. CASE DoMessageDirectToRecover(q)
  <2>1. CASE /\ recover' = [recover EXCEPT ![q.id] = "TO_RECOVER"]
             /\ UNCHANGED <<lastId, owner, interval, retried>>
    BY <1>8, <2>1
  <2> QED
    BY <1>6, <1>7, <2>1 DEF DoMessageDirectToRecover
<1> QED
  BY <1>1, <1>2, <1>3, <1>4, <1>5, <1>6, <1>7, <1>8 DEF Process

\* A request is processed, or it is in the exception queue, or both; the rest
\* of the queue stays.
LEMMA SubmitEffect ==
  ASSUME TypeOK, NEW q \in Request, NEW n \in {0, 1}, Submit(q, n)
  PROVE  /\ eq' \in Seq(Request)
         /\ Range(eq) \subseteq Range(eq')
         /\ Range(eq') \subseteq Range(eq) \cup {q}
         /\ Process(q) \/ (UNCHANGED <<tables, dropped>> /\ q \in Range(eq'))
         /\ dropped \subseteq dropped' /\ dropped' \subseteq dropped \cup {q.msg}
         /\ lastId' \in Id0
         /\ owner' \in [Id -> Msg \cup {NoMsg}]
         /\ interval' \in [Id -> {"NONE", "TO_RETRY", "IN_RETRY"}]
         /\ retried' \in [Id -> Nat]
         /\ recover' \in [Id -> {"NONE", "TO_RECOVER", "IN_RECOVER"}]
<1>1. eq \in Seq(Request)
  BY DEF TypeOK
<1>0. /\ Append(eq, q) \in Seq(Request)
      /\ Range(Append(eq, q)) = Range(eq) \cup {q}
  BY <1>1, RangeAppend
<1>2. eq' = eq \/ eq' = Append(eq, q)
  BY DEF Submit
<1>3. /\ eq' \in Seq(Request)
      /\ Range(eq) \subseteq Range(eq')
      /\ Range(eq') \subseteq Range(eq) \cup {q}
  BY <1>0, <1>1, <1>2
<1>4. Process(q) \/ (UNCHANGED <<tables, dropped>> /\ q \in Range(eq'))
  BY <1>0 DEF Submit
<1>5. /\ dropped \subseteq dropped' /\ dropped' \subseteq dropped \cup {q.msg}
      /\ lastId' \in Id0
      /\ owner' \in [Id -> Msg \cup {NoMsg}]
      /\ interval' \in [Id -> {"NONE", "TO_RETRY", "IN_RETRY"}]
      /\ retried' \in [Id -> Nat]
      /\ recover' \in [Id -> {"NONE", "TO_RECOVER", "IN_RECOVER"}]
  <2>1. CASE Process(q)
    BY <2>1, ProcessType
  <2>2. CASE UNCHANGED <<tables, dropped>>
    BY <2>2 DEF tables, TypeOK
  <2> QED
    BY <1>4, <2>1, <2>2
<1> QED
  BY <1>3, <1>4, <1>5

-----------------------------------------------------------------------------
(* A delivery, by what it sends. *)

\* The request q a delivery of copy c sends to the center.
Sends(m, src, c, q) ==
  \E cfg \in Configs[m] :
    \/ /\ c.fromRecover
       /\ q = RequestFor("RESEND_FOR_RECOVER", m, c, 0)
    \/ /\ ~c.fromRecover /\ ShouldDirectToRecover(cfg)
       /\ q = RequestFor("MSG_DIRECT_TO_RECOVER", m, c, 0)
    \/ /\ ~c.fromRecover /\ AtIntervals(cfg) /\ ~HasReachedMax(cfg, src, c)
       /\ q = RequestFor("INTERVAL_MSG_DO__RETRY", m, c, NextTimes(cfg, c))
    \/ /\ ~c.fromRecover /\ (AtOnce(cfg) \/ AtIntervals(cfg)) /\ HasReachedMax(cfg, src, c)
       /\ q = RequestFor(IF IsImmediate(cfg) THEN "IMMEDIATE_MSG_DO_RECOVER"
                         ELSE "INTERVAL_MSG_DO_RECOVER", m, c, 0)
    \/ /\ NeedsCleanup(cfg, src, c) /\ m \in done'
       /\ q = RequestFor(IF c.fromRecover THEN "CLEAN_RECOVER"
                         ELSE "CLEAN_INTERVAL_RETRY", m, c, 0)

\* The step that sends q.
Calls(m, src, c) ==
  \E q, n, k : /\ Sends(m, src, c, q)
               /\ n \in {0, 1} /\ Submit(q, n)
               /\ k \in {0, 1} /\ Settle(m, src, << >>, k)

\* The step that publishes the copy again.
Republishes(m, src, c) ==
  /\ ~c.fromRecover
  /\ \E cfg \in Configs[m], k \in {0, 1} :
       /\ AtOnce(cfg) /\ ~HasReachedMax(cfg, src, c)
       /\ Settle(m, src, <<[c EXCEPT !.retried = NextTimes(cfg, c)]>>, k)
  /\ UNCHANGED <<eq, tables, dropped>>

\* The step that sends nothing, after the handler has succeeded.
Finishes(m, src, c) ==
  /\ m \in done'
  /\ (~c.fromRecover /\ \E k \in {0, 1} : Settle(m, src, << >>, k)) \/ UNCHANGED queues
  /\ UNCHANGED <<eq, tables, dropped>>

\* Every delivery is one of the three.
LEMMA ConsumeStep ==
  ASSUME TypeOK, NEW m \in Msg, Consume(m)
  PROVE  /\ UNCHANGED <<eqTask, poller, keeper, discarded, operator>>
         /\ done' = done \/ done' = done \cup {m}
         /\ faults' \in 0 .. MaxFaults /\ faults <= faults'
         /\ \E src \in {"business", "retry"}, c \in Copy :
              /\ Delivered(m, src, c)
              /\ Calls(m, src, c) \/ Republishes(m, src, c) \/ Finishes(m, src, c)
<1>1. PICK cfg \in Configs[m], src \in {"business", "retry"}, c \in Copies(m) :
        Succeeds(cfg, m, src, c) \/ Fails(cfg, m, src, c) \/ CleanupFails(cfg, m, src, c)
  BY DEF Consume
<1>2. Delivered(m, src, c)
  BY <1>1 DEF Succeeds, Fails, CleanupFails
<1>3. c \in Copy
  <2>1. CASE src = "business"
    <3>1. c = InitialCopy
      BY <1>2, <2>1 DEF Delivered
    <3> QED
      BY <3>1, InitialCopyType
  <2>2. CASE src = "retry"
    <3>1. retryQ[m] \in Seq(Copy) /\ retryQ[m] # << >> /\ c = Head(retryQ[m])
      BY <1>2, <2>2 DEF Delivered, TypeOK
    <3> QED
      BY <3>1, RangeHeadTail
  <2> QED
    BY <2>1, <2>2
<1>4. ASSUME NEW n \in 0 .. 3, Spend(n)
      PROVE  faults' \in 0 .. MaxFaults /\ faults <= faults'
  BY <1>4, ConstantsAssumption DEF Spend, TypeOK, ConstantsAssumption
<1>5. ASSUME NEW q, NEW f \in {0, 1}, SubmitAndSettle(m, src, q, f)
      PROVE  /\ \E n, k : n \in {0, 1} /\ Submit(q, n) /\ k \in {0, 1} /\ Settle(m, src, << >>, k)
             /\ faults' \in 0 .. MaxFaults /\ faults <= faults'
  <2>1. PICK n \in {0, 1}, k \in {0, 1} :
          Submit(q, n) /\ Settle(m, src, << >>, k) /\ Spend(f + n + k)
    BY <1>5 DEF SubmitAndSettle
  <2>2. f + n + k \in 0 .. 3
    OBVIOUS
  <2> QED
    BY <1>4, <2>1, <2>2
<1>6. ASSUME NEW f \in {0, 1}, Caught(cfg, m, src, c, f)
      PROVE  /\ faults' \in 0 .. MaxFaults /\ faults <= faults'
             /\ Calls(m, src, c) \/ Republishes(m, src, c)
  <2>1. CASE FailsRecovering(cfg, m, src, c, f)
    BY <1>5, <2>1 DEF FailsRecovering, Calls, Sends
  <2>2. CASE FailsDirectly(cfg, m, src, c, f)
    BY <1>5, <2>2 DEF FailsDirectly, Calls, Sends
  <2>3. CASE RetriesImmediately(cfg, m, src, c, f)
    <3>1. PICK k \in {0, 1} :
            /\ Settle(m, src, <<[c EXCEPT !.retried = NextTimes(cfg, c)]>>, k)
            /\ Spend(f + k)
      BY <2>3 DEF RetriesImmediately
    <3>2. f + k \in 0 .. 3
      OBVIOUS
    <3> QED
      BY <1>4, <2>3, <3>1, <3>2 DEF RetriesImmediately, Republishes
  <2>4. CASE RetriesLater(cfg, m, src, c, f)
    BY <1>5, <2>4 DEF RetriesLater, Calls, Sends
  <2>5. CASE GivesUp(cfg, m, src, c, f)
    BY <1>5, <2>5 DEF GivesUp, Calls, Sends
  <2> QED
    BY <1>6, <2>1, <2>2, <2>3, <2>4, <2>5 DEF Caught
<1>7. CASE Succeeds(cfg, m, src, c)
  <2>1. m \in done'
    BY <1>7 DEF Succeeds
  <2>2. CASE ~NeedsCleanup(cfg, src, c)
    <3>1. PICK k \in {0, 1} : Settle(m, src, << >>, k) /\ Spend(k) /\ UNCHANGED <<eq, tables, dropped>>
      BY <1>7, <2>2 DEF Succeeds
    <3>2. k \in 0 .. 3
      OBVIOUS
    <3>3. ~c.fromRecover
      BY <1>2, <2>2 DEF NeedsCleanup, Delivered, InitialCopy
    <3> QED
      BY <1>2, <1>3, <1>4, <1>7, <2>1, <3>1, <3>2, <3>3 DEF Succeeds, Finishes
  <2>3. CASE SubmitAndSettle(m, src, RequestFor(IF c.fromRecover THEN "CLEAN_RECOVER"
                                     ELSE "CLEAN_INTERVAL_RETRY", m, c, 0), 0)
             /\ NeedsCleanup(cfg, src, c)
    <3>1. Calls(m, src, c) /\ faults' \in 0 .. MaxFaults /\ faults <= faults'
      BY <1>5, <2>1, <2>3 DEF Calls, Sends
    <3> QED
      BY <1>2, <1>3, <1>7, <3>1 DEF Succeeds
  <2>4. CASE Spend(1) /\ UNCHANGED <<queues, eq, tables, dropped>>
    BY <1>2, <1>3, <1>4, <1>7, <2>1, <2>4 DEF Succeeds, Finishes
  <2> QED
    BY <1>7, <2>2, <2>3, <2>4 DEF Succeeds
<1>8. CASE Fails(cfg, m, src, c)
  BY <1>2, <1>3, <1>6, <1>8 DEF Fails, Caught
<1>9. CASE CleanupFails(cfg, m, src, c)
  BY <1>2, <1>3, <1>6, <1>9 DEF CleanupFails, Caught
<1> QED
  BY <1>1, <1>7, <1>8, <1>9

\* The request of a delivery is a request about its message.
LEMMA SendsRequest ==
  ASSUME NEW m \in Msg, NEW src, NEW c \in Copy, NEW q, Sends(m, src, c, q)
  PROVE  q \in Request /\ q.msg = m /\ q.id = c.id
<1>1. \A cfg : NextTimes(cfg, c) \in Nat
  BY DEF NextTimes, Copy
<1> QED
  BY <1>1 DEF Sends, RequestFor, Request, Kinds, Copy

\* A delivery that keeps what Republishes and Finishes keep drops nothing; a
\* request drops at most its own message.
LEMMA ConsumeDrops ==
  ASSUME TypeOK, NEW m \in Msg, Consume(m)
  PROVE  dropped \subseteq dropped' /\ dropped' \subseteq dropped \cup {m}
<1>1. PICK src \in {"business", "retry"}, c \in Copy :
        Calls(m, src, c) \/ Republishes(m, src, c) \/ Finishes(m, src, c)
  BY ConsumeStep
<1>2. CASE Calls(m, src, c)
  <2>1. PICK q, n : Sends(m, src, c, q) /\ n \in {0, 1} /\ Submit(q, n)
    BY <1>2 DEF Calls
  <2> QED
    BY <2>1, SendsRequest, SubmitEffect
<1> QED
  BY <1>1, <1>2 DEF Republishes, Finishes

-----------------------------------------------------------------------------
(* Type correctness. *)

\* A copy put back in its retry queue is well formed.
LEMMA RepublishedCopy ==
  ASSUME NEW cfg, NEW c \in Copy
  PROVE  /\ [c EXCEPT !.retried = NextTimes(cfg, c)] \in Copy
         /\ <<[c EXCEPT !.retried = NextTimes(cfg, c)]>> \in Seq(Copy)
         /\ Range(<<[c EXCEPT !.retried = NextTimes(cfg, c)]>>)
              = {[c EXCEPT !.retried = NextTimes(cfg, c)]}
<1>1. NextTimes(cfg, c) \in Nat
  BY DEF NextTimes, Copy
<1>2. [c EXCEPT !.retried = NextTimes(cfg, c)] \in Copy
  BY <1>1 DEF Copy
<1> QED
  BY <1>2, RangeOne

\* The empty sequence.
LEMMA EmptyIsSeq == << >> \in Seq(Copy) /\ Range(<< >>) = {}
<1>1. << >> \in Seq(Copy) /\ Len(<< >>) = 0
  BY EmptySeq
<1>2. Range(<< >>) = {<< >>[i] : i \in 1 .. 0}
  BY <1>1, RangeEquality
<1> QED
  BY <1>1, <1>2

\* SettleEffect for a delivery that publishes nothing.
LEMMA SettleNothing ==
  ASSUME TypeOK, NEW m \in Msg, NEW src \in {"business", "retry"}, NEW c,
         Delivered(m, src, c), NEW n \in {0, 1}, Settle(m, src, << >>, n)
  PROVE  /\ Acknowledges(m, src, c, << >>)
         /\ Range(retryQ'[m]) \subseteq Range(retryQ[m])
<1>1. << >> \in Seq(Copy) /\ Range(<< >>) = {}
  BY EmptyIsSeq
<1>2. Acknowledges(m, src, c, << >>)
  BY <1>1, SettleEffect
<1> QED
  BY <1>1, <1>2 DEF Acknowledges

\* The initial state is type-correct.
LEMMA TypeInit == Init => TypeOK
<1> SUFFICES ASSUME Init PROVE TypeOK
  OBVIOUS
<1>1. /\ MaxId \in Nat /\ MaxFaults \in Nat /\ MaxOps \in Nat
  BY ConstantsAssumption DEF ConstantsAssumption
<1>2. << >> \in Seq(Copy) /\ << >> \in Seq(Request)
  BY EmptySeq
<1> QED
  BY <1>1, <1>2 DEF Init, TypeOK, Id, Id0, Idle, NoRecord, NoTask

\* A delivery keeps the types.
LEMMA TypeConsume ==
  ASSUME TypeOK, NEW m \in Msg, Consume(m)
  PROVE  TypeOK'
<1>1. /\ UNCHANGED <<eqTask, poller, keeper, discarded, operator>>
      /\ done' = done \/ done' = done \cup {m}
      /\ faults' \in 0 .. MaxFaults
      /\ dropped' \subseteq Msg
  BY ConsumeStep, ConsumeDrops DEF TypeOK
<1>2. PICK src \in {"business", "retry"}, c \in Copy :
        /\ Delivered(m, src, c)
        /\ Calls(m, src, c) \/ Republishes(m, src, c) \/ Finishes(m, src, c)
  BY ConsumeStep
<1>3. SUFFICES /\ bizQ' \subseteq Msg
               /\ retryQ' \in [Msg -> Seq(Copy)]
               /\ eq' \in Seq(Request)
               /\ lastId' \in Id0
               /\ owner' \in [Id -> Msg \cup {NoMsg}]
               /\ interval' \in [Id -> {"NONE", "TO_RETRY", "IN_RETRY"}]
               /\ retried' \in [Id -> Nat]
               /\ recover' \in [Id -> {"NONE", "TO_RECOVER", "IN_RECOVER"}]
  BY <1>1 DEF TypeOK, poller, keeper, operator
<1>4. CASE Calls(m, src, c)
  <2>1. PICK q, n, k : /\ Sends(m, src, c, q)
                       /\ n \in {0, 1} /\ Submit(q, n)
                       /\ k \in {0, 1} /\ Settle(m, src, << >>, k)
    BY <1>4 DEF Calls
  <2>2. q \in Request
    BY <2>1, SendsRequest
  <2>3. bizQ' \subseteq bizQ /\ retryQ' \in [Msg -> Seq(Copy)]
    BY <1>2, <2>1, SettleNothing DEF Acknowledges
  <2>4. /\ eq' \in Seq(Request)
        /\ lastId' \in Id0
        /\ owner' \in [Id -> Msg \cup {NoMsg}]
        /\ interval' \in [Id -> {"NONE", "TO_RETRY", "IN_RETRY"}]
        /\ retried' \in [Id -> Nat]
        /\ recover' \in [Id -> {"NONE", "TO_RECOVER", "IN_RECOVER"}]
    BY <2>1, <2>2, SubmitEffect
  <2> QED
    BY <2>3, <2>4 DEF TypeOK
<1>5. CASE Republishes(m, src, c)
  <2>1. bizQ' \subseteq bizQ /\ retryQ' \in [Msg -> Seq(Copy)]
    <3>0. PICK cfg \in Configs[m], k \in {0, 1} :
            Settle(m, src, <<[c EXCEPT !.retried = NextTimes(cfg, c)]>>, k)
      BY <1>5 DEF Republishes
    <3> DEFINE more == <<[c EXCEPT !.retried = NextTimes(cfg, c)]>>
    <3>1. Settle(m, src, more, k)
      BY <3>0
    <3>2. more \in Seq(Copy)
      BY RepublishedCopy
    <3> HIDE DEF more
    <3> QED
      BY <1>2, <3>1, <3>2, SettleEffect DEF Acknowledges
  <2> QED
    BY <1>5, <2>1 DEF TypeOK, Republishes, tables
<1>6. CASE Finishes(m, src, c)
  <2>1. bizQ' \subseteq bizQ /\ retryQ' \in [Msg -> Seq(Copy)]
    <3>1. CASE \E k \in {0, 1} : Settle(m, src, << >>, k)
      BY <1>2, <3>1, SettleNothing DEF Acknowledges
    <3>2. CASE UNCHANGED queues
      BY <3>2 DEF TypeOK, queues
    <3> QED
      BY <1>6, <3>1, <3>2 DEF Finishes
  <2> QED
    BY <1>6, <2>1 DEF TypeOK, Finishes, tables
<1> QED
  BY <1>2, <1>4, <1>5, <1>6

\* What a web thread works on is a record that has been handed out.
LEMMA WebTaskOK ==
  ASSUME TypeOK, IdsMatch, NEW t \in WebThread, opTask[t].phase \in {"found", "out"}
  PROVE  /\ opTask[t] # NoTask
         /\ opTask[t].id \in Id
         /\ opTask[t].id \in 1 .. lastId
         /\ owner[opTask[t].id] \in Msg
<1>1. opTask[t] # NoTask
  BY DEF NoTask
<1>2. opTask[t].id \in 1 .. lastId
  BY <1>1 DEF IdsMatch
<1>3. MaxId \in Nat /\ lastId \in 0 .. MaxId
  BY ConstantsAssumption DEF ConstantsAssumption, TypeOK, Id0
<1>4. opTask[t].id \in Id
  BY <1>2, <1>3 DEF Id
<1>5. owner[opTask[t].id] \in Msg
  BY <1>2, <1>3, <1>4 DEF IdsMatch, RecordOK
<1> QED
  BY <1>1, <1>2, <1>4, <1>5

\* Checking a recover record out leaves every thread with its record, or idle.
LEMMA CheckOutTasks ==
  ASSUME TypeOK, NEW t \in WebThread, OpCheckOut(t) \/ OpCheckOutThrows(t),
         NEW v \in WebThread
  PROVE  \/ opTask'[v] = opTask[v] \/ opTask'[v] = NoTask
         \/ opTask[v] # NoTask /\ opTask'[v].id = opTask[v].id
<1>1. /\ opTask \in [WebThread -> [phase : {"idle", "found", "out"}, id : Id0]]
      /\ opTask[t] \in [phase : {"idle", "found", "out"}, id : Id0]
  BY DEF TypeOK
<1>2. opTask[t] # NoTask
  BY DEF OpCheckOut, OpCheckOutThrows, NoTask
<1>3. CASE v # t
  BY <1>1, <1>3 DEF OpCheckOut, OpCheckOutThrows
<1>4. CASE v = t /\ OpCheckOutThrows(t)
  BY <1>1, <1>4 DEF OpCheckOutThrows
<1>5. CASE v = t /\ OpCheckOut(t)
  <2>1. opTask' = [opTask EXCEPT ![t] = [opTask[t] EXCEPT !.phase = "out"]]
    BY <1>5 DEF OpCheckOut
  <2>2. opTask'[t] = [opTask[t] EXCEPT !.phase = "out"]
    BY <1>1, <2>1
  <2>3. opTask'[t].id = opTask[t].id
    BY <1>1, <2>2
  <2> QED
    BY <1>2, <1>5, <2>3
<1> QED
  BY <1>3, <1>4, <1>5

\* Every step keeps the types.  (That the message of a deleted recover record is
\* a message takes the rest of the inductive invariant.)
LEMMA TypeStep == IInv /\ [Next]_vars => TypeOK'
<1> SUFFICES ASSUME TypeOK, IdsMatch, [Next]_vars PROVE TypeOK'
  BY DEF IInv
<1> USE DEF queues, tables, poller, keeper, operator, history, Spend
<1>0. /\ MaxId \in Nat /\ MaxFaults \in Nat /\ MaxOps \in Nat
      /\ faults \in Nat
  BY ConstantsAssumption DEF ConstantsAssumption, TypeOK
<1>1. CASE \E m \in Msg : Consume(m)
  BY <1>1, TypeConsume
<1>2. ASSUME NEW w \in EqWorker, EqDrain(w)
      PROVE  TypeOK'
  <2>1. eq \in Seq(Request)
    BY DEF TypeOK
  <2>2. PICK n \in 1 .. Len(eq) :
          /\ eqTask' = [eqTask EXCEPT ![w] = SubSeq(eq, 1, n)]
          /\ eq' = SubSeq(eq, n + 1, Len(eq))
    BY <1>2 DEF EqDrain
  <2>3. SubSeq(eq, 1, n) \in Seq(Request) /\ SubSeq(eq, n + 1, Len(eq)) \in Seq(Request)
    BY <2>1, RangeCut
  <2> QED
    BY <1>2, <2>2, <2>3 DEF EqDrain, TypeOK
<1>3. ASSUME NEW w \in EqWorker, eqTask[w] # << >>
      PROVE  Head(eqTask[w]) \in Request /\ Tail(eqTask[w]) \in Seq(Request)
  <2>1. eqTask[w] \in Seq(Request)
    BY DEF TypeOK
  <2> QED
    BY <1>3, <2>1, RangeHeadTail
<1>4. ASSUME NEW w \in EqWorker, EqProcess(w)
      PROVE  TypeOK'
  <2> DEFINE q == Head(eqTask[w])
  <2>1. q \in Request /\ Tail(eqTask[w]) \in Seq(Request)
    BY <1>3, <1>4 DEF EqProcess
  <2>2. eqTask' \in [EqWorker -> Seq(Request)]
    BY <1>4, <2>1 DEF EqProcess, TypeOK
  <2>3. dropped' \subseteq Msg
    <3>1. q.msg \in Msg
      BY <2>1 DEF Request
    <3>2. dropped' \subseteq dropped \cup {q.msg}
      BY <1>4, <2>1, ProcessType DEF EqProcess
    <3> QED
      BY <3>1, <3>2 DEF TypeOK
  <2>4. /\ lastId' \in Id0
        /\ owner' \in [Id -> Msg \cup {NoMsg}]
        /\ interval' \in [Id -> {"NONE", "TO_RETRY", "IN_RETRY"}]
        /\ retried' \in [Id -> Nat]
        /\ recover' \in [Id -> {"NONE", "TO_RECOVER", "IN_RECOVER"}]
    <3>1. CASE Process(q)
      BY <2>1, <3>1, ProcessType
    <3>2. CASE UNCHANGED tables
      BY <3>2 DEF TypeOK
    <3> QED
      BY <1>4, <3>1, <3>2 DEF EqProcess
  <2> QED
    BY <1>4, <2>2, <2>3, <2>4 DEF EqProcess, TypeOK
<1>5. ASSUME NEW w \in EqWorker, EqProcessFails(w)
      PROVE  TypeOK'
  <2>1. Head(eqTask[w]) \in Request /\ Tail(eqTask[w]) \in Seq(Request)
    BY <1>3, <1>5 DEF EqProcessFails
  <2>2. eqTask' \in [EqWorker -> Seq(Request)]
    BY <1>5, <2>1 DEF EqProcessFails, TypeOK
  <2>3. dropped' \subseteq Msg
    BY <1>5, <2>1 DEF EqProcessFails, TypeOK, Request
  <2> QED
    BY <1>0, <1>5, <2>2, <2>3 DEF EqProcessFails, TypeOK
<1>6. CASE PollRead
  <2>1. polled' \in [phase : {"idle", "read", "out"}, id : Id0, retried : Nat]
    BY <1>6 DEF PollRead, TypeOK, Id, Id0
  <2> QED
    BY <1>6, <2>1 DEF PollRead, TypeOK
<1>7. CASE CheckOut
  <2>1. polled' \in [phase : {"idle", "read", "out"}, id : Id0, retried : Nat]
    <3>1. polled \in [phase : {"idle", "read", "out"}, id : Id0, retried : Nat]
      BY DEF TypeOK
    <3>2. Idle \in [phase : {"idle", "read", "out"}, id : Id0, retried : Nat]
      BY <1>0 DEF Idle, Id0
    <3>3. polled' = [polled EXCEPT !.phase = "out"] \/ polled' = Idle
      BY <1>7 DEF CheckOut
    <3> QED
      BY <3>1, <3>2, <3>3
  <2>2. interval' \in [Id -> {"NONE", "TO_RETRY", "IN_RETRY"}]
    <3>1. interval' = [interval EXCEPT ![polled.id] = "IN_RETRY"] \/ UNCHANGED interval
      BY <1>7 DEF CheckOut
    <3> QED
      BY <3>1 DEF TypeOK
  <2> QED
    BY <1>7, <2>1, <2>2 DEF CheckOut, TypeOK
<1>8. CASE CheckOutThrows
  <2>1. polled' \in [phase : {"idle", "read", "out"}, id : Id0, retried : Nat]
    <3>1. polled \in [phase : {"idle", "read", "out"}, id : Id0, retried : Nat]
      BY DEF TypeOK
    <3>2. polled' = [polled EXCEPT !.phase = "out"]
      BY <1>8 DEF CheckOutThrows
    <3> QED
      BY <3>1, <3>2
  <2>2. interval' \in [Id -> {"NONE", "TO_RETRY", "IN_RETRY"}]
    BY <1>8, ZenonT(60) DEF CheckOutThrows, TypeOK
  <2>3. faults' \in 0 .. MaxFaults
    BY <1>0, <1>8 DEF CheckOutThrows
  <2> QED
    BY <1>8, <2>1, <2>2, <2>3 DEF CheckOutThrows, TypeOK
<1>9. ASSUME NEW w \in SendWorker, HandOff(w)
      PROVE  TypeOK'
  BY <1>0, <1>9 DEF HandOff, TypeOK, Id0, Idle
<1>10. ASSUME NEW w \in SendWorker, SendCopy(w)
       PROVE  TypeOK'
  <2> DEFINE c == [id |-> sendTask[w].id, retried |-> sendTask[w].retried,
                   fromRecover |-> FALSE]
             m == owner[sendTask[w].id]
  <2>1. c \in Copy
    BY DEF TypeOK, Copy
  <2>2. retryQ' \in [Msg -> Seq(Copy)]
    <3>1. CASE UNCHANGED retryQ
      BY <3>1 DEF TypeOK
    <3>2. CASE retryQ' = [retryQ EXCEPT ![m] = Append(@, c)]
      <4>1. CASE m \in Msg
        <5>1. retryQ[m] \in Seq(Copy)
          BY <4>1 DEF TypeOK
        <5>2. Append(retryQ[m], c) \in Seq(Copy)
          BY <2>1, <5>1, RangeAppend
        <5> QED
          BY <3>2, <5>2 DEF TypeOK
      <4>2. CASE m \notin Msg
        BY <3>2, <4>2 DEF TypeOK
      <4> QED
        BY <4>1, <4>2
    <3> QED
      BY <1>10, <3>1, <3>2 DEF SendCopy
  <2>3. sendTask' \in [SendWorker -> [id : Id0, retried : Nat]]
    BY <1>0, <1>10 DEF SendCopy, TypeOK, NoRecord, Id0
  <2> QED
    BY <1>10, <2>2, <2>3 DEF SendCopy, TypeOK
<1>11. ASSUME NEW s \in SUBSET Id, HkRead(s)
       PROVE  TypeOK'
  BY <1>11 DEF HkRead, TypeOK
<1>12. CASE HkAcquire
  BY <1>12 DEF HkAcquire, TypeOK
<1>13. CASE HkExecute
  <2>1. /\ lastId' \in Id0
        /\ owner' \in [Id -> Msg \cup {NoMsg}]
        /\ interval' \in [Id -> {"NONE", "TO_RETRY", "IN_RETRY"}]
        /\ retried' \in [Id -> Nat]
        /\ recover' \in [Id -> {"NONE", "TO_RECOVER", "IN_RECOVER"}]
    <3>1. CASE DoHouseKeep
      <4> DEFINE moved == IF \A i \in hkTask : recover[i] = "NONE" THEN hkTask ELSE {}
      <4>1. /\ interval' = [i \in Id |-> IF i \in moved THEN "NONE" ELSE interval[i]]
            /\ retried' = [i \in Id |-> IF i \in moved THEN 0 ELSE retried[i]]
            /\ recover' = [i \in Id |-> IF i \in moved THEN "TO_RECOVER" ELSE recover[i]]
            /\ UNCHANGED <<lastId, owner>>
        BY <3>1 DEF DoHouseKeep
      <4> HIDE DEF moved
      <4> QED
        BY <4>1 DEF TypeOK
    <3>2. CASE UNCHANGED tables
      BY <3>2 DEF TypeOK
    <3> QED
      BY <1>13, <3>1, <3>2 DEF HkExecute
  <2>2. faults' \in 0 .. MaxFaults
    BY <1>0, <1>13 DEF HkExecute
  <2> QED
    BY <1>13, <2>1, <2>2 DEF HkExecute, TypeOK
<1>14. CASE HkAborts
  BY <1>0, <1>14 DEF HkAborts, TypeOK
<1>15. ASSUME NEW t \in WebThread, NEW i \in Id, OpFind(t, i)
       PROVE  TypeOK'
  <2>1. [phase |-> "found", id |-> i] \in [phase : {"idle", "found", "out"}, id : Id0]
    BY <1>0 DEF Id, Id0
  <2>2. opTask' \in [WebThread -> [phase : {"idle", "found", "out"}, id : Id0]]
    BY <1>15, <2>1 DEF OpFind, TypeOK
  <2>3. ops' \in 0 .. MaxOps
    BY <1>0, <1>15 DEF OpFind, TypeOK
  <2> QED
    BY <1>15, <2>2, <2>3 DEF OpFind, TypeOK
<1>16. ASSUME NEW t \in WebThread, OpSend(t)
       PROVE  TypeOK'
  <2> DEFINE c == [id |-> opTask[t].id, retried |-> 0, fromRecover |-> TRUE]
             m == owner[opTask[t].id]
  <2>1. c \in Copy /\ m \in Msg
    <3>1. opTask[t].id \in Id /\ m \in Msg
      BY <1>16, WebTaskOK, SMTT(30) DEF OpSend
    <3> QED
      BY <1>0, <3>1 DEF Id, Id0, Copy
  <2>2. retryQ' \in [Msg -> Seq(Copy)]
    <3>1. CASE UNCHANGED retryQ
      BY <3>1 DEF TypeOK
    <3>2. CASE retryQ' = [retryQ EXCEPT ![m] = Append(@, c)]
      <4>1. retryQ[m] \in Seq(Copy)
        BY <2>1 DEF TypeOK
      <4>2. Append(retryQ[m], c) \in Seq(Copy)
        BY <2>1, <4>1, RangeAppend
      <4> QED
        BY <3>2, <4>2 DEF TypeOK
    <3> QED
      BY <1>16, <3>1, <3>2 DEF OpSend
  <2>3. faults' \in 0 .. MaxFaults
    BY <1>0, <1>16 DEF OpSend
  <2>4. opTask' \in [WebThread -> [phase : {"idle", "found", "out"}, id : Id0]]
    BY <1>0, <1>16 DEF OpSend, TypeOK, NoTask, Id0
  <2> QED
    BY <1>16, <2>2, <2>3, <2>4 DEF OpSend, TypeOK
<1>20. ASSUME NEW t \in WebThread, OpCheckOut(t) \/ OpCheckOutThrows(t)
       PROVE  TypeOK'
  <2>1. recover' \in [Id -> {"NONE", "TO_RECOVER", "IN_RECOVER"}]
    <3>1. CheckOutRecover(opTask[t].id) \/ UNCHANGED recover
      BY <1>20 DEF OpCheckOut, OpCheckOutThrows
    <3> QED
      BY <3>1 DEF CheckOutRecover, TypeOK
  <2>2. opTask' \in [WebThread -> [phase : {"idle", "found", "out"}, id : Id0]]
    <3>1. opTask[t] \in [phase : {"idle", "found", "out"}, id : Id0]
      BY DEF TypeOK
    <3>2. NoTask \in [phase : {"idle", "found", "out"}, id : Id0]
      BY <1>0 DEF NoTask, Id0
    <3>3. CASE OpCheckOut(t)
      <4>1. [opTask[t] EXCEPT !.phase = "out"] \in [phase : {"idle", "found", "out"}, id : Id0]
        BY <3>1
      <4>2. opTask' = [opTask EXCEPT ![t] = [opTask[t] EXCEPT !.phase = "out"]]
        BY <3>3 DEF OpCheckOut
      <4> QED
        BY <4>1, <4>2 DEF TypeOK
    <3>4. CASE OpCheckOutThrows(t)
      BY <3>2, <3>4 DEF OpCheckOutThrows, TypeOK
    <3> QED
      BY <1>20, <3>3, <3>4
  <2>3. faults' \in 0 .. MaxFaults
    <3>1. faults' = faults \/ Spend(1)
      BY <1>20 DEF OpCheckOut, OpCheckOutThrows
    <3> QED
      BY <1>0, <3>1 DEF TypeOK
  <2> QED
    BY <1>20, <2>1, <2>2, <2>3 DEF OpCheckOut, OpCheckOutThrows, TypeOK
<1>17. ASSUME NEW i \in Id, OpDelete(i)
       PROVE  TypeOK'
  <2>1. owner[i] \in Msg
    BY <1>17 DEF OpDelete, IdsMatch, RecordOK
  <2> QED
    BY <1>17, <2>1 DEF OpDelete, TypeOK
<1>18. CASE CenterCrash
  <2>1. << >> \in Seq(Request)
    BY EmptySeq
  <2>2. \A q \in InEqTask : q.msg \in Msg
    <3>1. ASSUME NEW w \in EqWorker, NEW q \in Range(eqTask[w])
          PROVE  q.msg \in Msg
      <4>1. eqTask[w] \in Seq(Request)
        BY DEF TypeOK
      <4>2. q \in Request
        BY <3>1, <4>1, RangeOfSeq
      <4> QED
        BY <4>2 DEF Request
    <3> QED
      BY <3>1 DEF InEqTask
  <2>3. dropped' \subseteq Msg
    BY <1>18, <2>2 DEF CenterCrash, TypeOK
  <2> QED
    BY <1>0, <1>18, <2>1, <2>3 DEF CenterCrash, TypeOK, Idle, NoRecord, NoTask, Id0
<1>19. CASE UNCHANGED vars
  BY <1>19 DEF vars, TypeOK
<1> QED
  BY <1>1, <1>2, <1>4, <1>5, <1>6, <1>7, <1>8, <1>9, <1>10, <1>11, <1>12, <1>13,
     <1>14, <1>15, <1>16, <1>17, <1>18, <1>19, <1>20 DEF Next


-----------------------------------------------------------------------------
(* Ids: what the parts of a step do to the second conjunct of IInv. *)

\* The retriedTimes a delivery sends on stay within the maximum.
LEMMA NextTimesOK ==
  ASSUME NEW m \in Msg, NEW cfg \in Configs[m], AtOnce(cfg) \/ AtIntervals(cfg),
         NEW src \in {"business", "retry"}, NEW c \in Copy,
         c.retried \in Times(m), src = "business" => c.retried = 0,
         ~HasReachedMax(cfg, src, c)
  PROVE  NextTimes(cfg, c) \in Times(m)
<1>1. /\ cfg.retryInterval \in {-1} \cup Nat /\ cfg.retryTimes \in {-1} \cup Nat
      /\ IsImmediate(cfg) <=> cfg.retryInterval = 0
      /\ ShouldDirectToRecover(cfg) <=> cfg.retryInterval = -1 /\ cfg.retryTimes = -1
      /\ ShouldRetryByConfig(cfg) <=> ~(cfg.retryInterval = 0 /\ cfg.retryTimes = 0)
      /\ IsInfinite(cfg) <=> cfg.retryInterval >= 0 /\ cfg.retryTimes = -1
  BY ConfigsOK, ModeFacts
<1>2. c.retried \in Nat
  BY DEF Copy
<1>3. CASE IsInfinite(cfg)
  BY <1>3 DEF NextTimes
<1>4. CASE ~IsInfinite(cfg)
  <2>1. cfg.retryTimes \in Nat /\ ~ShouldDirectToRecover(cfg) /\ ShouldRetryByConfig(cfg)
    BY <1>1, <1>4 DEF AtOnce, AtIntervals
  <2>2. Retries(cfg) = 1 .. (IF cfg.retryTimes = 0 THEN 1 ELSE cfg.retryTimes)
    BY <2>1 DEF Retries
  <2>3. c.retried + 1 \in Retries(cfg)
    BY <1>2, <2>1, <2>2 DEF HasReachedMax
  <2>4. NextTimes(cfg, c) = c.retried + 1
    BY <1>4 DEF NextTimes
  <2> QED
    BY <2>3, <2>4 DEF Times
<1> QED
  BY <1>3, <1>4

\* What is delivered is well-formed: a copy of the retry queue, or a first
\* delivery, which carries no id.
LEMMA DeliveredOK ==
  ASSUME TypeOK, IdsMatch, NEW m \in Msg, NEW src \in {"business", "retry"}, NEW c,
         Delivered(m, src, c)
  PROVE  /\ c.retried \in Times(m)
         /\ c.id # 0 => RefersTo(c.id, m)
         /\ src = "business" => c = InitialCopy
         /\ src = "retry" => c \in Range(retryQ[m]) /\ CopyOK(m, c)
<1>1. CASE src = "business"
  BY <1>1, TimesNat DEF Delivered, InitialCopy
<1>2. CASE src = "retry"
  <2>1. retryQ[m] \in Seq(Copy) /\ retryQ[m] # << >> /\ c = Head(retryQ[m])
    BY <1>2 DEF TypeOK, Delivered
  <2>2. c \in Range(retryQ[m])
    BY <2>1, RangeHeadTail
  <2>3. CopyOK(m, c)
    BY <2>2 DEF IdsMatch
  <2> QED
    BY <1>2, <2>2, <2>3 DEF CopyOK
<1> QED
  BY <1>1, <1>2

\* A delivery sends well-formed requests, and asks to clean only for a message
\* whose handler has succeeded.
LEMMA SendsOK ==
  ASSUME TypeOK, IdsMatch, NEW m \in Msg, NEW src \in {"business", "retry"},
         NEW c \in Copy, Delivered(m, src, c), NEW q, Sends(m, src, c, q)
  PROVE  RequestIdOK(q) /\ (Cleans(q) => q.msg \in done')
<1>1. /\ c.retried \in Times(m)
      /\ c.id # 0 => RefersTo(c.id, m)
      /\ src = "business" => c = InitialCopy
      /\ src = "retry" => CopyOK(m, c)
  BY DeliveredOK
<1>2. 0 \in Times(m)
  BY TimesNat
<1>3. PICK cfg \in Configs[m] :
        \/ /\ c.fromRecover
           /\ q = RequestFor("RESEND_FOR_RECOVER", m, c, 0)
        \/ /\ ~c.fromRecover /\ ShouldDirectToRecover(cfg)
           /\ q = RequestFor("MSG_DIRECT_TO_RECOVER", m, c, 0)
        \/ /\ ~c.fromRecover /\ AtIntervals(cfg) /\ ~HasReachedMax(cfg, src, c)
           /\ q = RequestFor("INTERVAL_MSG_DO__RETRY", m, c, NextTimes(cfg, c))
        \/ /\ ~c.fromRecover /\ (AtOnce(cfg) \/ AtIntervals(cfg)) /\ HasReachedMax(cfg, src, c)
           /\ q = RequestFor(IF IsImmediate(cfg) THEN "IMMEDIATE_MSG_DO_RECOVER"
                             ELSE "INTERVAL_MSG_DO_RECOVER", m, c, 0)
        \/ /\ NeedsCleanup(cfg, src, c) /\ m \in done'
           /\ q = RequestFor(IF c.fromRecover THEN "CLEAN_RECOVER"
                             ELSE "CLEAN_INTERVAL_RETRY", m, c, 0)
  BY DEF Sends
<1>4. /\ AtOnce(cfg) => SomeAtOnce(m)
      /\ AtIntervals(cfg) => SomeAtIntervals(m)
      /\ ShouldDirectToRecover(cfg) => SomeDirect(m)
  BY DEF SomeAtOnce, SomeAtIntervals, SomeDirect
<1>5. /\ c.fromRecover => c.id # 0
      /\ ~c.fromRecover /\ c.id # 0 => SomeAtIntervals(m)
      /\ ~c.fromRecover /\ c.id = 0 /\ src = "retry" => SomeAtOnce(m)
  BY <1>1 DEF CopyOK, InitialCopy
<1>6. ASSUME NEW kind, NEW n \in Times(m), q = RequestFor(kind, m, c, n)
      PROVE  /\ q.kind = kind /\ q.msg = m /\ q.id = c.id /\ q.retried \in Times(m)
             /\ q.id # 0 => RefersTo(q.id, m)
  BY <1>1, <1>6 DEF RequestFor
<1>7. CASE c.fromRecover /\ q = RequestFor("RESEND_FOR_RECOVER", m, c, 0)
  BY <1>2, <1>5, <1>6, <1>7 DEF RequestIdOK, Cleans
<1>8. CASE /\ ~c.fromRecover /\ ShouldDirectToRecover(cfg)
           /\ q = RequestFor("MSG_DIRECT_TO_RECOVER", m, c, 0)
  BY <1>2, <1>4, <1>5, <1>6, <1>8 DEF RequestIdOK, Cleans
<1>9. CASE /\ ~c.fromRecover /\ AtIntervals(cfg) /\ ~HasReachedMax(cfg, src, c)
           /\ q = RequestFor("INTERVAL_MSG_DO__RETRY", m, c, NextTimes(cfg, c))
  <2>1. NextTimes(cfg, c) \in Times(m)
    <3>1. src = "business" => c.retried = 0
      BY <1>1 DEF InitialCopy
    <3> QED
      BY <1>1, <1>9, <3>1, NextTimesOK
  <2> QED
    BY <1>4, <1>6, <1>9, <2>1 DEF RequestIdOK, Cleans
<1>10. CASE /\ ~c.fromRecover /\ (AtOnce(cfg) \/ AtIntervals(cfg)) /\ HasReachedMax(cfg, src, c)
            /\ q = RequestFor(IF IsImmediate(cfg) THEN "IMMEDIATE_MSG_DO_RECOVER"
                              ELSE "INTERVAL_MSG_DO_RECOVER", m, c, 0)
  <2>1. src = "retry"
    BY <1>10 DEF HasReachedMax
  <2>2. CASE IsImmediate(cfg)
    <3>1. SomeAtOnce(m) /\ (c.id = 0 \/ SomeAtIntervals(m))
      BY <1>4, <1>5, <1>10, <2>2 DEF AtOnce, AtIntervals
    <3> QED
      BY <1>2, <1>6, <1>10, <2>2, <3>1 DEF RequestIdOK, Cleans
  <2>3. CASE ~IsImmediate(cfg)
    <3>1. SomeAtIntervals(m) /\ (c.id # 0 \/ SomeAtOnce(m))
      BY <1>4, <1>5, <1>10, <2>1, <2>3 DEF AtOnce, AtIntervals
    <3> QED
      BY <1>2, <1>6, <1>10, <2>3, <3>1 DEF RequestIdOK, Cleans
  <2> QED
    BY <2>2, <2>3
<1>11. CASE /\ NeedsCleanup(cfg, src, c) /\ m \in done'
            /\ q = RequestFor(IF c.fromRecover THEN "CLEAN_RECOVER"
                              ELSE "CLEAN_INTERVAL_RETRY", m, c, 0)
  <2>1. src = "retry"
    BY <1>11 DEF NeedsCleanup
  <2>2. CASE c.fromRecover
    BY <1>2, <1>5, <1>6, <1>11, <2>2 DEF RequestIdOK, Cleans
  <2>3. CASE ~c.fromRecover
    BY <1>2, <1>5, <1>6, <1>11, <2>1, <2>3 DEF RequestIdOK, Cleans
  <2> QED
    BY <2>2, <2>3
<1> QED
  BY <1>3, <1>7, <1>8, <1>9, <1>10, <1>11

\* Ids are handed out in order and never change hands.
Grows ==
  /\ lastId <= lastId'
  /\ \A i \in Id : i <= lastId => owner'[i] = owner[i]

\* What is well-formed stays so as ids are handed out and messages are handled.
LEMMA GrowsOK ==
  ASSUME TypeOK, lastId' \in Id0, Grows, done \subseteq done'
  PROVE  /\ \A m \in Msg, c \in Copy : CopyOK(m, c) => CopyOK(m, c)'
         /\ \A q \in Request : RequestIdOK(q) => RequestIdOK(q)'
         /\ \A q \in Request : RequestOK(q) => RequestOK(q)'
         /\ \A i \in 1 .. lastId : i \in 1 .. lastId' /\ owner'[i] = owner[i]
<1>1. lastId \in Nat /\ lastId' \in Nat /\ lastId <= MaxId /\ MaxId \in Nat
  BY ConstantsAssumption DEF TypeOK, Id0, ConstantsAssumption
<1>2. ASSUME NEW i \in Id0, i # 0, NEW m, RefersTo(i, m)
      PROVE  RefersTo(i, m)'
  <2>1. i \in Id /\ i <= lastId
    BY <1>1, <1>2 DEF Id, Id0, RefersTo
  <2> QED
    BY <1>1, <1>2, <2>1 DEF RefersTo, Grows, Id0
<1>3. \A m \in Msg, c \in Copy : CopyOK(m, c) => CopyOK(m, c)'
  BY <1>2 DEF CopyOK, Copy
<1>4. \A q \in Request : RequestIdOK(q) => RequestIdOK(q)'
  BY <1>2 DEF RequestIdOK, Request
<1>5. \A q \in Request : RequestOK(q) => RequestOK(q)'
  BY <1>4 DEF RequestOK, Cleans
<1>6. \A i \in 1 .. lastId : i \in 1 .. lastId' /\ owner'[i] = owner[i]
  BY <1>1 DEF Grows, Id
<1> QED
  BY <1>3, <1>4, <1>5, <1>6

\* A service hands out at most one id, keeps the two tables apart, removes a
\* record for no other message and for no other reason than a clean-up, and
\* leaves a record behind for a request that carries the message, or forgets it.
LEMMA ProcessEffect ==
  ASSUME TypeOK, IdsMatch, OneTable, NEW q \in Request, RequestIdOK(q), Process(q)
  PROVE  /\ Grows
         /\ \A i \in Id : RecordOK(i)'
         /\ OneTable'
         /\ \A i \in Id : interval[i] # "NONE" \/ recover[i] # "NONE" =>
              \/ interval'[i] # "NONE" \/ recover'[i] # "NONE"
              \/ owner[i] = q.msg /\ Cleans(q)
         /\ \A i \in Id : recover[i] # "NONE" =>
              recover'[i] # "NONE" \/ (owner[i] = q.msg /\ Cleans(q))
         /\ Carries(q) => HasRecord(q.msg)' \/ Forgets(q)
<1>1. /\ MaxId \in Nat /\ lastId \in 0 .. MaxId
      /\ owner \in [Id -> Msg \cup {NoMsg}]
      /\ interval \in [Id -> {"NONE", "TO_RETRY", "IN_RETRY"}]
      /\ retried \in [Id -> Nat]
      /\ recover \in [Id -> {"NONE", "TO_RECOVER", "IN_RECOVER"}]
      /\ q.msg \in Msg /\ q.id \in 0 .. MaxId
  BY ConstantsAssumption DEF TypeOK, Id0, Request, ConstantsAssumption
<1>0. ~Refused(q)
  BY DEF Process
<1>2. \A i \in Id : RecordOK(i)
  BY DEF IdsMatch
<1>3. /\ q.id # 0 => q.id \in Id /\ q.id <= lastId /\ owner[q.id] = q.msg
      /\ q.retried \in Times(q.msg)
      /\ 0 \in Times(q.msg)
  BY <1>1, TimesNat DEF RequestIdOK, RefersTo, Id
<1>4. \A i \in Id : i <= lastId => 0 \in Times(owner[i])
  BY <1>2, TimesNat DEF RecordOK
<1>5. CASE CleanRecover(q) /\ q.kind = "CLEAN_RECOVER"
  <2>1. Cleans(q) /\ ~Carries(q) /\ q.id # 0
    BY <1>5 DEF Cleans, RequestIdOK, Carries
  <2> QED
    BY <1>1, <1>2, <1>3, <1>5, <2>1 DEF CleanRecover, Grows, RecordOK, OneTable, Poisoned
<1>6. CASE CleanIntervalRetry(q) /\ q.kind = "CLEAN_INTERVAL_RETRY"
  <2>1. Cleans(q) /\ ~Carries(q)
    BY <1>6 DEF Cleans, Carries
  <2>2. /\ UNCHANGED <<lastId, owner, recover>>
        /\ \A i \in Id : interval'[i] = IF i = q.id THEN "NONE" ELSE interval[i]
        /\ \A i \in Id : retried'[i] = IF i = q.id THEN 0 ELSE retried[i]
    BY <1>6 DEF CleanIntervalRetry
  <2>3. \A i \in Id : RecordOK(i)'
    BY <1>2, <1>4, <2>2 DEF RecordOK
  <2>4. \A i \in Id : interval'[i] = interval[i] \/ (i = q.id /\ owner[i] = q.msg)
    BY <1>1, <1>3, <2>2 DEF Id
  <2> QED
    BY <1>1, <2>1, <2>2, <2>3, <2>4 DEF Grows, OneTable, Poisoned
<1>7. CASE ResendForRecover(q) /\ q.kind = "RESEND_FOR_RECOVER"
  <2>1. ~Carries(q) /\ q.id # 0
    BY <1>7 DEF RequestIdOK, Carries
  <2> QED
    BY <1>1, <1>2, <1>3, <1>7, <2>1 DEF ResendForRecover, Grows, RecordOK, OneTable, Poisoned
<1>8. CASE q.id = 0 /\ AddIntervalRetry(q) /\ SomeAtIntervals(q.msg)
  <2>1. lastId + 1 \in Id /\ lastId < MaxId
    BY <1>1, <1>8 DEF AddIntervalRetry, FreshId, Id
  <2>2. interval[lastId + 1] = "NONE" /\ recover[lastId + 1] = "NONE"
    BY <1>1, <1>2, <2>1 DEF RecordOK
  <2>3. HasRecord(q.msg)'
    BY <1>1, <1>8, <2>1 DEF AddIntervalRetry, FreshId, HasRecord
  <2>4. \A i \in Id : RecordOK(i)'
    BY <1>1, <1>2, <1>3, <1>8, <2>1 DEF AddIntervalRetry, FreshId, RecordOK, Id
  <2>5. OneTable'
    BY <1>1, <1>8, <2>1, <2>2 DEF AddIntervalRetry, FreshId, OneTable, Poisoned
  <2> QED
    BY <1>1, <1>8, <2>1, <2>2, <2>3, <2>4, <2>5
    DEF AddIntervalRetry, FreshId, Grows, Id
<1>9. CASE q.id > 0 /\ CheckinIntervalRetry(q) /\ SomeAtIntervals(q.msg)
  <2>1. ~Carries(q)
    BY <1>1, <1>9 DEF Carries
  <2>2. \A i \in Id : RecordOK(i)'
    BY <1>1, <1>2, <1>3, <1>9 DEF CheckinIntervalRetry, RecordOK
  <2> QED
    BY <1>1, <1>9, <2>1, <2>2 DEF CheckinIntervalRetry, Grows, OneTable, Poisoned
<1>10. CASE DoIntervalMessageRecover(q) /\ q.kind = "INTERVAL_MSG_DO_RECOVER"
  <2> DEFINE found == q.id > 0 /\ interval[q.id] # "NONE"
  <2>1. Carries(q) => Forgets(q)
    BY <1>10 DEF Forgets
  <2>2. found => q.id \in Id /\ q.id <= lastId /\ recover[q.id] = "NONE"
    BY <1>0, <1>1, <1>3, <1>10 DEF Refused
  <2>3. /\ UNCHANGED <<lastId, owner>>
        /\ \A i \in Id : interval'[i] = IF found /\ i = q.id THEN "NONE" ELSE interval[i]
        /\ \A i \in Id : retried'[i] = IF found /\ i = q.id THEN 0 ELSE retried[i]
        /\ \A i \in Id : recover'[i] = IF found /\ i = q.id THEN "TO_RECOVER" ELSE recover[i]
    BY <1>10 DEF DoIntervalMessageRecover
  <2> HIDE DEF found
  <2>4. \A i \in Id : RecordOK(i)'
    BY <1>1, <1>2, <1>4, <2>2, <2>3 DEF RecordOK
  <2>5. OneTable'
    BY <2>3 DEF OneTable, Poisoned
  <2> QED
    BY <1>1, <2>1, <2>2, <2>3, <2>4, <2>5 DEF Grows
<1>11. CASE AddRecover(q)
  <2>1. lastId + 1 \in Id /\ lastId < MaxId
    BY <1>1, <1>11 DEF AddRecover, FreshId, Id
  <2>2. interval[lastId + 1] = "NONE" /\ recover[lastId + 1] = "NONE" /\ retried[lastId + 1] = 0
    BY <1>1, <1>2, <2>1 DEF RecordOK
  <2>3. HasRecord(q.msg)'
    BY <1>1, <1>11, <2>1 DEF AddRecover, FreshId, HasRecord
  <2>4. \A i \in Id : RecordOK(i)'
    <3>1. /\ lastId' = lastId + 1
          /\ owner' = [owner EXCEPT ![lastId + 1] = q.msg]
          /\ recover' = [recover EXCEPT ![lastId + 1] = "TO_RECOVER"]
          /\ UNCHANGED <<interval, retried>>
      BY <1>11 DEF AddRecover, FreshId
    <3>2. ASSUME NEW i \in Id, i = lastId + 1
          PROVE  RecordOK(i)'
      <4>1. owner'[i] = q.msg
        BY <1>1, <3>1, <3>2
      <4>2. retried'[i] = 0 /\ interval'[i] = "NONE"
        BY <2>2, <3>1, <3>2
      <4>3. i <= lastId'
        BY <1>1, <3>1, <3>2
      <4> QED
        BY <1>1, <1>3, <4>1, <4>2, <4>3 DEF RecordOK
    <3>3. ASSUME NEW i \in Id, i # lastId + 1
          PROVE  RecordOK(i)'
      <4>1. /\ owner'[i] = owner[i] /\ recover'[i] = recover[i]
            /\ retried'[i] = retried[i] /\ interval'[i] = interval[i]
        BY <1>1, <3>1, <3>3
      <4>2. i <= lastId' <=> i <= lastId
        BY <1>1, <3>1, <3>3 DEF Id
      <4> QED
        BY <1>2, <4>1, <4>2 DEF RecordOK
    <3> QED
      BY <3>2, <3>3
  <2> QED
    <3>1. OneTable'
      BY <1>1, <1>11, <2>1, <2>2 DEF AddRecover, FreshId, OneTable, Poisoned
    <3> QED
      BY <1>1, <1>11, <2>1, <2>2, <2>3, <2>4, <3>1 DEF AddRecover, FreshId, Grows, Id
<1>12. CASE /\ q.kind = "MSG_DIRECT_TO_RECOVER" /\ q.id > 0
            /\ recover' = [recover EXCEPT ![q.id] = "TO_RECOVER"]
            /\ UNCHANGED <<lastId, owner, interval, retried>>
  <2>1. ~Carries(q) /\ q.id \in Id /\ Switched(owner[q.id]) /\ q.id <= lastId
    BY <1>1, <1>3, <1>12 DEF Carries, RequestIdOK, Switched
  <2>2. \A i \in Id : recover'[i] = IF i = q.id THEN "TO_RECOVER" ELSE recover[i]
    BY <1>1, <1>12
  <2>3. \A i \in Id : RecordOK(i)'
    BY <1>2, <1>12, <2>1, <2>2 DEF RecordOK
  <2>4. OneTable'
    BY <1>12, <2>1, <2>2 DEF OneTable, Poisoned
  <2> QED
    BY <1>1, <1>12, <2>1, <2>2, <2>3, <2>4 DEF Grows
<1>13. q.kind = "INTERVAL_MSG_DO__RETRY" => SomeAtIntervals(q.msg)
  BY DEF RequestIdOK
<1> QED
  BY <1>5, <1>6, <1>7, <1>8, <1>9, <1>10, <1>11, <1>12, <1>13
  DEF Process, DoIntervalMessageRetry, DoMessageDirectToRecover

\* What the queues and the EQ tasks hold is well formed.
LEMMA Elements ==
  ASSUME TypeOK
  PROVE  /\ \A m \in Msg : Range(retryQ[m]) \subseteq Copy
         /\ Range(eq) \subseteq Request
         /\ \A w \in EqWorker : Range(eqTask[w]) \subseteq Request
         /\ Pending \subseteq Request
<1>1. ASSUME NEW m \in Msg PROVE Range(retryQ[m]) \subseteq Copy
  <2>1. retryQ[m] \in Seq(Copy)
    BY DEF TypeOK
  <2> QED
    BY <2>1, RangeOfSeq
<1>2. Range(eq) \subseteq Request
  <2>1. eq \in Seq(Request)
    BY DEF TypeOK
  <2> QED
    BY <2>1, RangeOfSeq
<1>3. ASSUME NEW w \in EqWorker PROVE Range(eqTask[w]) \subseteq Request
  <2>1. eqTask[w] \in Seq(Request)
    BY DEF TypeOK
  <2> QED
    BY <2>1, RangeOfSeq
<1> QED
  BY <1>1, <1>2, <1>3 DEF Pending, InEqTask

\* IdsMatch is kept by a step whose new copies, requests and holders are
\* well-formed.
LEMMA IdsFrame ==
  ASSUME TypeOK, IdsMatch, lastId' \in Id0, Grows, done \subseteq done',
         \A i \in Id : RecordOK(i)',
         \A m \in Msg : \A c \in Range(retryQ'[m]) :
           c \in Range(retryQ[m]) \/ CopyOK(m, c)',
         \A q \in Pending' : q \in Pending \/ RequestOK(q)',
         polled' = polled \/ polled'.phase = "idle" \/ HeldOK(polled)',
         \A w \in SendWorker : \/ sendTask'[w] = sendTask[w]
                               \/ sendTask'[w] = NoRecord
                               \/ HeldOK(sendTask[w])',
         \A t \in WebThread : opTask'[t] = NoTask \/ opTask'[t].id \in 1 .. lastId',
         hkList' \cup hkTask' \subseteq 1 .. lastId'
  PROVE  IdsMatch'
<1>1. /\ \A m \in Msg, c \in Copy : CopyOK(m, c) => CopyOK(m, c)'
      /\ \A q \in Request : RequestOK(q) => RequestOK(q)'
      /\ \A i \in 1 .. lastId : i \in 1 .. lastId' /\ owner'[i] = owner[i]
  BY GrowsOK
<1>2. \A m \in Msg : \A c \in Range(retryQ'[m]) : CopyOK(m, c)'
  <2>1. ASSUME NEW m \in Msg, NEW c \in Range(retryQ'[m])
        PROVE  CopyOK(m, c)'
    <3>1. CASE c \in Range(retryQ[m])
      BY <1>1, <3>1, Elements DEF IdsMatch
    <3>2. CASE CopyOK(m, c)'
      BY <3>2
    <3> QED
      BY <3>1, <3>2
  <2> QED
    BY <2>1
<1>3. \A q \in Pending' : RequestOK(q)'
  <2>1. ASSUME NEW q \in Pending'
        PROVE  RequestOK(q)'
    <3>1. CASE q \in Pending
      BY <1>1, <3>1, Elements DEF IdsMatch
    <3>2. CASE RequestOK(q)'
      BY <3>2
    <3> QED
      BY <3>1, <3>2
  <2> QED
    BY <2>1
<1>4. ASSUME NEW r, HeldOK(r)
      PROVE  /\ r.id \in 1 .. lastId' /\ r.retried \in Times(owner'[r.id])
             /\ SomeAtIntervals(owner'[r.id])
  BY <1>1, <1>4 DEF HeldOK
<1>5. polled'.phase = "idle" \/ HeldOK(polled)'
  BY <1>4 DEF IdsMatch, HeldOK
<1>6. \A w \in SendWorker : sendTask'[w] = NoRecord \/ HeldOK(sendTask[w])'
  BY <1>4 DEF IdsMatch, HeldOK
<1> QED
  BY <1>2, <1>3, <1>5, <1>6 DEF IdsMatch

\* A delivery.
LEMMA IdsConsume ==
  ASSUME IInv, NEW m \in Msg, Consume(m)
  PROVE  IdsMatch' /\ OneTable'
<1> USE DEF IInv
<1>1. /\ UNCHANGED <<eqTask, poller, keeper, discarded, operator>>
      /\ done \subseteq done'
  BY ConsumeStep
<1>2. PICK src \in {"business", "retry"}, c \in Copy :
        /\ Delivered(m, src, c)
        /\ Calls(m, src, c) \/ Republishes(m, src, c) \/ Finishes(m, src, c)
  BY ConsumeStep
<1>3. TypeOK'
  BY TypeConsume
<1>4. ASSUME Grows, \A i \in Id : RecordOK(i)',
             \A x \in Msg : \A d \in Range(retryQ'[x]) :
               d \in Range(retryQ[x]) \/ CopyOK(x, d)',
             \A q \in Range(eq') : q \in Range(eq) \/ RequestOK(q)'
      PROVE  IdsMatch'
  <2>1. \A q \in Pending' : q \in Pending \/ RequestOK(q)'
    BY <1>1, <1>4 DEF Pending, InEqTask
  <2>2. lastId' \in Id0
    BY <1>3 DEF TypeOK
  <2>3. /\ hkList' \cup hkTask' \subseteq 1 .. lastId'
        /\ \A t \in WebThread : opTask'[t] = NoTask \/ opTask'[t].id \in 1 .. lastId'
    BY <1>1, <1>4, <2>2, GrowsOK DEF keeper, operator, IdsMatch
  <2>4. polled' = polled /\ sendTask' = sendTask
    BY <1>1 DEF poller
  <2> QED
    BY <1>1, <1>4, <2>1, <2>2, <2>3, <2>4, IdsFrame
<1>5. ASSUME UNCHANGED tables
      PROVE  Grows /\ OneTable' /\ \A i \in Id : RecordOK(i)'
  <2>1. lastId \in Nat
    BY DEF TypeOK, Id0
  <2> QED
    BY <1>5, <2>1 DEF tables, Grows, OneTable, Poisoned, RecordOK, IdsMatch
<1>6. CASE Calls(m, src, c)
  <2>1. PICK q, n, k : /\ Sends(m, src, c, q)
                       /\ n \in {0, 1} /\ Submit(q, n)
                       /\ k \in {0, 1} /\ Settle(m, src, << >>, k)
    BY <1>6 DEF Calls
  <2>2. q \in Request /\ q.msg = m
    BY <2>1, SendsRequest
  <2>3. RequestIdOK(q) /\ (Cleans(q) => q.msg \in done')
    BY <1>2, <2>1, SendsOK
  <2>4. /\ \A x \in Msg \ {m} : retryQ'[x] = retryQ[x]
        /\ Range(retryQ'[m]) \subseteq Range(retryQ[m])
    <3>1. Acknowledges(m, src, c, << >>) /\ Range(retryQ'[m]) \subseteq Range(retryQ[m])
      BY <1>2, <2>1, SettleNothing
    <3> QED
      BY <3>1 DEF Acknowledges
  <2>5. /\ Range(eq') \subseteq Range(eq) \cup {q}
        /\ Process(q) \/ UNCHANGED tables
    BY <2>1, <2>2, SubmitEffect
  <2>6. Grows /\ OneTable' /\ \A i \in Id : RecordOK(i)'
    <3>1. CASE Process(q)
      BY <2>2, <2>3, <3>1, ProcessEffect
    <3>2. CASE UNCHANGED tables
      BY <1>5, <3>2
    <3> QED
      BY <2>5, <3>1, <3>2
  <2>7. RequestOK(q)'
    <3>1. RequestIdOK(q)'
      BY <1>1, <1>3, <2>2, <2>3, <2>6, GrowsOK DEF TypeOK
    <3> QED
      BY <2>3, <3>1 DEF RequestOK, Cleans
  <2> QED
    BY <1>4, <2>4, <2>5, <2>6, <2>7
<1>7. CASE Republishes(m, src, c)
  <2>0. PICK cfg \in Configs[m], k \in {0, 1} :
          /\ AtOnce(cfg) /\ ~HasReachedMax(cfg, src, c)
          /\ Settle(m, src, <<[c EXCEPT !.retried = NextTimes(cfg, c)]>>, k)
    BY <1>7 DEF Republishes
  <2> DEFINE d == [c EXCEPT !.retried = NextTimes(cfg, c)]
             more == <<d>>
  <2>1. Settle(m, src, more, k)
    BY <2>0
  <2>2. d \in Copy /\ more \in Seq(Copy) /\ Range(more) = {d}
    BY RepublishedCopy
  <2>3. d.id = c.id /\ d.fromRecover = c.fromRecover /\ d.retried = NextTimes(cfg, c)
    BY DEF Copy
  <2> HIDE DEF d, more
  <2>4. /\ \A x \in Msg \ {m} : retryQ'[x] = retryQ[x]
        /\ Range(retryQ'[m]) \subseteq Range(retryQ[m]) \cup {d}
    <3>1. Acknowledges(m, src, c, more)
      BY <1>2, <2>1, <2>2, SettleEffect
    <3> QED
      BY <2>2, <3>1 DEF Acknowledges
  <2>5. Grows /\ OneTable' /\ \A i \in Id : RecordOK(i)'
    BY <1>5, <1>7 DEF Republishes
  <2>6. CopyOK(m, d)
    <3>1. /\ c.retried \in Times(m)
          /\ src = "business" => c = InitialCopy
          /\ src = "retry" => CopyOK(m, c)
      BY <1>2, DeliveredOK
    <3>2. src = "business" => c.retried = 0
      BY <3>1 DEF InitialCopy
    <3>3. NextTimes(cfg, c) \in Times(m)
      BY <2>0, <3>1, <3>2, NextTimesOK
    <3>4. /\ c.id # 0 => RefersTo(c.id, m) /\ SomeAtIntervals(m)
          /\ SomeAtOnce(m)
      BY <1>7, <2>0, <3>1 DEF Republishes, CopyOK, InitialCopy, SomeAtOnce
    <3> QED
      BY <1>7, <2>3, <3>3, <3>4 DEF CopyOK, Republishes
  <2>7. CopyOK(m, d)'
    BY <1>1, <1>3, <2>2, <2>5, <2>6, GrowsOK DEF TypeOK
  <2>8. Range(eq') = Range(eq)
    BY <1>7 DEF Republishes
  <2> QED
    BY <1>4, <2>4, <2>5, <2>7, <2>8
<1>8. CASE Finishes(m, src, c)
  <2>1. \A x \in Msg : Range(retryQ'[x]) \subseteq Range(retryQ[x])
    <3>1. CASE \E k \in {0, 1} : Settle(m, src, << >>, k)
      BY <1>2, <3>1, SettleNothing DEF Acknowledges
    <3>2. CASE UNCHANGED queues
      BY <3>2 DEF queues
    <3> QED
      BY <1>8, <3>1, <3>2 DEF Finishes
  <2>2. Grows /\ OneTable' /\ (\A i \in Id : RecordOK(i)') /\ Range(eq') = Range(eq)
    BY <1>5, <1>8 DEF Finishes
  <2> QED
    BY <1>4, <2>1, <2>2
<1> QED
  BY <1>2, <1>6, <1>7, <1>8

\* IdsFrame for a step that leaves the queues of the client alone.
LEMMA IdsCenter ==
  ASSUME IInv, TypeOK', Grows, done' = done,
         \A i \in Id : RecordOK(i)',
         \A m \in Msg : \A c \in Range(retryQ'[m]) :
           c \in Range(retryQ[m]) \/ CopyOK(m, c)',
         Pending' \subseteq Pending,
         polled' = polled \/ polled'.phase = "idle" \/ HeldOK(polled)',
         \A w \in SendWorker : \/ sendTask'[w] = sendTask[w]
                               \/ sendTask'[w] = NoRecord
                               \/ HeldOK(sendTask[w])',
         \A t \in WebThread : opTask'[t] = NoTask \/ opTask'[t].id \in 1 .. lastId,
         hkList' \cup hkTask' \subseteq 1 .. lastId
  PROVE  IdsMatch'
<1>1. lastId' \in Id0 /\ lastId \in Nat /\ lastId' \in Nat
  BY DEF TypeOK, Id0, IInv
<1>2. /\ hkList' \cup hkTask' \subseteq 1 .. lastId'
      /\ \A t \in WebThread : opTask'[t] = NoTask \/ opTask'[t].id \in 1 .. lastId'
  BY <1>1 DEF Grows
<1> QED
  BY <1>1, <1>2, IdsFrame DEF IInv

\* The EQ task only moves requests, or takes them away.
LEMMA PendingDrain ==
  ASSUME TypeOK, NEW w \in EqWorker, EqDrain(w)
  PROVE  Pending' = Pending
<1>1. PICK n \in 1 .. Len(eq) :
        /\ eqTask' = [eqTask EXCEPT ![w] = SubSeq(eq, 1, n)]
        /\ eq' = SubSeq(eq, n + 1, Len(eq))
  BY DEF EqDrain
<1>2. eq \in Seq(Request) /\ eqTask \in [EqWorker -> Seq(Request)]
  BY DEF TypeOK
<1>3. Range(eq) = Range(SubSeq(eq, 1, n)) \cup Range(eq')
  BY <1>1, <1>2, RangeCut
<1>4. /\ eqTask'[w] = SubSeq(eq, 1, n)
      /\ \A v \in EqWorker \ {w} : eqTask'[v] = eqTask[v]
  BY <1>1, <1>2
<1>5. Range(eqTask[w]) = {}
  <2>1. eqTask[w] = << >>
    BY DEF EqDrain
  <2> QED
    BY <2>1, EmptyIsSeq
<1>6. InEqTask' = InEqTask \cup Range(SubSeq(eq, 1, n))
  BY <1>4, <1>5 DEF InEqTask
<1> QED
  BY <1>3, <1>6 DEF Pending

\* An EQ thread takes the next request it has drained.
LEMMA PendingTake ==
  ASSUME TypeOK, NEW w \in EqWorker, eqTask[w] # << >>,
         eqTask' = [eqTask EXCEPT ![w] = Tail(@)], UNCHANGED eq
  PROVE  /\ Head(eqTask[w]) \in Pending
         /\ Head(eqTask[w]) \in Request
         /\ Head(eqTask[w]) \in InEqTask
         /\ Pending' \subseteq Pending
         /\ Pending \subseteq Pending' \cup {Head(eqTask[w])}
<1>1. eqTask \in [EqWorker -> Seq(Request)] /\ eqTask[w] \in Seq(Request)
  BY DEF TypeOK
<1>2. /\ Head(eqTask[w]) \in Request
      /\ Range(eqTask[w]) = {Head(eqTask[w])} \cup Range(Tail(eqTask[w]))
  BY <1>1, RangeHeadTail
<1>3. /\ eqTask'[w] = Tail(eqTask[w])
      /\ \A v \in EqWorker \ {w} : eqTask'[v] = eqTask[v]
  BY <1>1
<1>4. /\ InEqTask' \subseteq InEqTask
      /\ InEqTask \subseteq InEqTask' \cup {Head(eqTask[w])}
      /\ Head(eqTask[w]) \in InEqTask
  BY <1>2, <1>3 DEF InEqTask
<1> QED
  BY <1>2, <1>4 DEF Pending

\* Every step keeps the ids, and the two tables apart.
LEMMA IdsStep == IInv /\ [Next]_vars => IdsMatch' /\ OneTable'
<1> SUFFICES ASSUME IInv, [Next]_vars PROVE IdsMatch' /\ OneTable'
  OBVIOUS
<1> USE DEF queues, tables, poller, keeper, operator, history
<1>1. TypeOK /\ TypeOK' /\ IdsMatch /\ OneTable
  BY TypeStep DEF IInv
<1>2. ASSUME UNCHANGED <<lastId, owner>>
      PROVE  Grows
  BY <1>1, <1>2 DEF Grows, TypeOK, Id0
<1>3. ASSUME UNCHANGED tables
      PROVE  Grows /\ OneTable' /\ \A i \in Id : RecordOK(i)'
  BY <1>1, <1>2, <1>3 DEF OneTable, Poisoned, RecordOK, IdsMatch
<1>4. ASSUME UNCHANGED <<eq, eqTask>>
      PROVE  Pending' = Pending
  BY <1>4 DEF Pending, InEqTask
<1>5. /\ hkList \cup hkTask \subseteq 1 .. lastId
      /\ \A t \in WebThread : opTask[t] = NoTask \/ opTask[t].id \in 1 .. lastId
      /\ lastId \in Nat /\ lastId <= MaxId /\ MaxId \in Nat
      /\ \A i \in Id : RecordOK(i)
  BY <1>1, ConstantsAssumption DEF IdsMatch, TypeOK, Id0, ConstantsAssumption
<1>6. CASE \E m \in Msg : Consume(m)
  BY <1>6, IdsConsume
<1>7. ASSUME NEW w \in EqWorker, EqDrain(w)
      PROVE  IdsMatch' /\ OneTable'
  <2>1. Pending' = Pending
    BY <1>1, <1>7, PendingDrain
  <2> QED
    BY <1>1, <1>3, <1>5, <1>7, <2>1, IdsCenter DEF EqDrain
<1>8. ASSUME NEW w \in EqWorker, EqProcess(w)
      PROVE  IdsMatch' /\ OneTable'
  <2> DEFINE q == Head(eqTask[w])
  <2>1. q \in Pending /\ q \in Request /\ Pending' \subseteq Pending
    BY <1>1, <1>8, PendingTake DEF EqProcess
  <2>2. RequestIdOK(q)
    BY <1>1, <2>1 DEF IdsMatch, RequestOK
  <2>3. Grows /\ OneTable' /\ \A i \in Id : RecordOK(i)'
    <3>1. CASE Process(q)
      BY <1>1, <2>1, <2>2, <3>1, ProcessEffect
    <3>2. CASE UNCHANGED tables
      BY <1>3, <3>2
    <3> QED
      BY <1>8, <3>1, <3>2 DEF EqProcess
  <2> QED
    BY <1>1, <1>5, <1>8, <2>1, <2>3, IdsCenter DEF EqProcess
<1>9. ASSUME NEW w \in EqWorker, EqProcessFails(w)
      PROVE  IdsMatch' /\ OneTable'
  <2>1. Pending' \subseteq Pending
    BY <1>1, <1>9, PendingTake DEF EqProcessFails
  <2> QED
    BY <1>1, <1>3, <1>5, <1>9, <2>1, IdsCenter DEF EqProcessFails
<1>10. CASE PollRead
  <2>1. HeldOK(polled)'
    <3>1. PICK i \in Id : /\ interval[i] = "TO_RETRY"
                          /\ polled' = [phase |-> "read", id |-> i, retried |-> retried[i]]
      BY <1>10 DEF PollRead
    <3>2. /\ i <= lastId /\ i \in 1 .. lastId
          /\ retried[i] \in Times(owner[i]) /\ SomeAtIntervals(owner[i])
      BY <1>5, <3>1 DEF RecordOK, Id
    <3> QED
      BY <1>10, <3>1, <3>2 DEF HeldOK, PollRead
  <2> QED
    BY <1>1, <1>3, <1>4, <1>5, <1>10, <2>1, IdsCenter DEF PollRead
<1>11. ASSUME polled.phase = "read", polled' = [polled EXCEPT !.phase = "out"],
              UNCHANGED <<lastId, owner>>
       PROVE  HeldOK(polled)'
  <2>1. HeldOK(polled)
    BY <1>1, <1>11 DEF IdsMatch
  <2>2. polled'.id = polled.id /\ polled'.retried = polled.retried
    BY <1>1, <1>11 DEF TypeOK
  <2> QED
    BY <1>11, <2>1, <2>2 DEF HeldOK
<1>12. ASSUME interval[polled.id] = "TO_RETRY",
              interval' = [interval EXCEPT ![polled.id] = "IN_RETRY"],
              UNCHANGED <<lastId, owner, retried, recover>>
       PROVE  OneTable' /\ \A i \in Id : RecordOK(i)'
  <2>1. interval \in [Id -> {"NONE", "TO_RETRY", "IN_RETRY"}]
    BY <1>1 DEF TypeOK
  <2>2. ASSUME NEW i \in Id
        PROVE  interval'[i] = interval[i]
               \/ (i = polled.id /\ interval[i] = "TO_RETRY" /\ interval'[i] = "IN_RETRY")
    BY <1>12, <2>1
  <2>3. OneTable'
    BY <1>1, <1>12, <2>2 DEF OneTable, Poisoned
  <2>4. \A i \in Id : RecordOK(i)'
    BY <1>5, <1>12, <2>2 DEF RecordOK
  <2> QED
    BY <2>3, <2>4
<1>13. CASE CheckOut
  <2>1. polled'.phase = "idle" \/ HeldOK(polled)'
    BY <1>11, <1>13 DEF CheckOut, Idle
  <2>2. OneTable' /\ \A i \in Id : RecordOK(i)'
    <3>1. CASE UNCHANGED interval
      BY <1>3, <1>13, <3>1 DEF CheckOut
    <3>2. CASE interval[polled.id] = "TO_RETRY"
               /\ interval' = [interval EXCEPT ![polled.id] = "IN_RETRY"]
      BY <1>12, <1>13, <3>2 DEF CheckOut
    <3> QED
      BY <1>13, <3>1, <3>2 DEF CheckOut
  <2> QED
    BY <1>1, <1>2, <1>4, <1>5, <1>13, <2>1, <2>2, IdsCenter DEF CheckOut
<1>14. CASE CheckOutThrows
  <2>1. HeldOK(polled)'
    BY <1>11, <1>14 DEF CheckOutThrows
  <2>2. OneTable' /\ \A i \in Id : RecordOK(i)'
    <3>1. CASE UNCHANGED interval
      BY <1>3, <1>14, <3>1 DEF CheckOutThrows
    <3>2. CASE interval[polled.id] = "TO_RETRY"
               /\ interval' = [interval EXCEPT ![polled.id] = "IN_RETRY"]
      BY <1>12, <1>14, <3>2 DEF CheckOutThrows
    <3> QED
      BY <1>14, <3>1, <3>2 DEF CheckOutThrows
  <2> QED
    BY <1>1, <1>2, <1>4, <1>5, <1>14, <2>1, <2>2, IdsCenter DEF CheckOutThrows
<1>15. ASSUME NEW w \in SendWorker, HandOff(w)
       PROVE  IdsMatch' /\ OneTable'
  <2>1. HeldOK(polled)
    BY <1>1, <1>15 DEF HandOff, IdsMatch
  <2>2. HeldOK(sendTask[w])'
    BY <1>1, <1>15, <2>1 DEF HandOff, HeldOK, TypeOK
  <2>3. \A v \in SendWorker \ {w} : sendTask'[v] = sendTask[v]
    BY <1>1, <1>15 DEF HandOff, TypeOK
  <2>4. polled'.phase = "idle"
    BY <1>15 DEF HandOff, Idle
  <2> QED
    BY <1>1, <1>3, <1>4, <1>5, <1>15, <2>2, <2>3, <2>4, IdsCenter DEF HandOff
<1>16. ASSUME NEW i \in 1 .. lastId, NEW c \in Copy, CopyOK(owner[i], c),
              UNCHANGED <<lastId, owner>>,
              UNCHANGED retryQ \/ retryQ' = [retryQ EXCEPT ![owner[i]] = Append(@, c)]
       PROVE  \A m \in Msg : \A d \in Range(retryQ'[m]) :
                d \in Range(retryQ[m]) \/ CopyOK(m, d)'
  <2>1. owner[i] \in Msg
    BY <1>5 DEF RecordOK, Id
  <2>2. CopyOK(owner[i], c)'
    BY <1>16, <2>1 DEF CopyOK, RefersTo
  <2>3. retryQ \in [Msg -> Seq(Copy)] /\ retryQ[owner[i]] \in Seq(Copy)
    BY <1>1, <2>1 DEF TypeOK
  <2>4. Range(Append(retryQ[owner[i]], c)) = Range(retryQ[owner[i]]) \cup {c}
    BY <2>3, RangeAppend
  <2>5. CASE UNCHANGED retryQ
    BY <2>5
  <2>6. CASE retryQ' = [retryQ EXCEPT ![owner[i]] = Append(@, c)]
    <3>1. \A m \in Msg \ {owner[i]} : retryQ'[m] = retryQ[m]
      BY <2>3, <2>6
    <3>2. Range(retryQ'[owner[i]]) = Range(retryQ[owner[i]]) \cup {c}
      <4>1. retryQ'[owner[i]] = Append(retryQ[owner[i]], c)
        BY <2>1, <2>3, <2>6
      <4> QED
        BY <2>4, <4>1
    <3>3. owner'[i] = owner[i]
      BY <1>16
    <3> QED
      BY <1>16, <2>2, <3>1, <3>2, <3>3
  <2> QED
    BY <1>16, <2>5, <2>6
<1>17. ASSUME NEW w \in SendWorker, SendCopy(w)
       PROVE  IdsMatch' /\ OneTable'
  <2> DEFINE c == [id |-> sendTask[w].id, retried |-> sendTask[w].retried,
                   fromRecover |-> FALSE]
             i == sendTask[w].id
  <2>1. HeldOK(sendTask[w])
    BY <1>1, <1>17 DEF SendCopy, IdsMatch
  <2>2. i \in 1 .. lastId /\ c \in Copy
    BY <1>1, <2>1, SMTT(30) DEF HeldOK, Copy, TypeOK
  <2>3. CopyOK(owner[i], c)
    BY <2>1 DEF HeldOK, CopyOK, RefersTo
  <2>4. UNCHANGED retryQ \/ retryQ' = [retryQ EXCEPT ![owner[i]] = Append(@, c)]
    BY <1>17 DEF SendCopy
  <2>5. \A m \in Msg : \A d \in Range(retryQ'[m]) :
          d \in Range(retryQ[m]) \/ CopyOK(m, d)'
    <3> HIDE DEF c, i
    <3> QED
      BY <1>16, <1>17, <2>2, <2>3, <2>4 DEF SendCopy
  <2>6. \A v \in SendWorker : sendTask'[v] = sendTask[v] \/ sendTask'[v] = NoRecord
    BY <1>1, <1>17 DEF SendCopy, TypeOK
  <2> QED
    BY <1>1, <1>3, <1>4, <1>5, <1>17, <2>5, <2>6, IdsCenter DEF SendCopy
<1>18. ASSUME NEW s \in SUBSET Id, HkRead(s)
       PROVE  IdsMatch' /\ OneTable'
  <2>1. s \subseteq 1 .. lastId
    BY <1>5, <1>18 DEF HkRead, RecordOK, Id
  <2> QED
    BY <1>1, <1>3, <1>4, <1>5, <1>18, <2>1, IdsCenter DEF HkRead
<1>19. CASE HkAcquire
  BY <1>1, <1>3, <1>4, <1>5, <1>19, IdsCenter DEF HkAcquire
<1>20. CASE HkExecute
  <2>1. CASE UNCHANGED tables
    BY <1>1, <1>3, <1>4, <1>5, <1>20, <2>1, IdsCenter DEF HkExecute
  <2>2. CASE DoHouseKeep
    <3> DEFINE moved == IF \A i \in hkTask : recover[i] = "NONE" THEN hkTask ELSE {}
    <3>1. /\ interval' = [i \in Id |-> IF i \in moved THEN "NONE" ELSE interval[i]]
          /\ retried' = [i \in Id |-> IF i \in moved THEN 0 ELSE retried[i]]
          /\ recover' = [i \in Id |-> IF i \in moved THEN "TO_RECOVER" ELSE recover[i]]
          /\ UNCHANGED <<lastId, owner>>
      BY <2>2 DEF DoHouseKeep
    <3>2. moved \subseteq 1 .. lastId
      BY <1>5
    <3> HIDE DEF moved
    <3>3. OneTable'
      BY <1>1, <3>1 DEF OneTable, Poisoned
    <3>4. ASSUME NEW i \in Id
          PROVE  RecordOK(i)'
      <4>1. CASE i \in moved
        <5>1. i <= lastId /\ owner[i] \in Msg
          BY <1>5, <3>2, <4>1 DEF RecordOK
        <5> QED
          BY <3>1, <4>1, <5>1, TimesNat DEF RecordOK
      <4>2. CASE i \notin moved
        BY <1>5, <3>1, <4>2 DEF RecordOK
      <4> QED
        BY <4>1, <4>2
    <3> QED
      BY <1>1, <1>2, <1>4, <1>5, <1>20, <3>1, <3>3, <3>4, IdsCenter DEF HkExecute
  <2> QED
    BY <1>20, <2>1, <2>2 DEF HkExecute
<1>21. CASE HkAborts
  BY <1>1, <1>3, <1>4, <1>5, <1>21, IdsCenter DEF HkAborts
<1>22. ASSUME NEW i \in Id, recover[i] # "NONE"
       PROVE  i \in 1 .. lastId /\ owner[i] \in Msg
  BY <1>1, <1>5, <1>22 DEF RecordOK, Id
<1>23. ASSUME NEW t \in WebThread, NEW i \in Id, OpFind(t, i)
       PROVE  IdsMatch' /\ OneTable'
  <2>1. i \in 1 .. lastId
    BY <1>22, <1>23 DEF OpFind
  <2>2. \A v \in WebThread : opTask'[v] = NoTask \/ opTask'[v].id \in 1 .. lastId
    BY <1>1, <1>5, <1>23, <2>1 DEF OpFind, TypeOK
  <2> QED
    BY <1>1, <1>3, <1>4, <1>5, <1>23, <2>2, IdsCenter DEF OpFind
<1>24. ASSUME NEW i \in Id, UNCHANGED <<lastId, owner, interval, retried>>,
              \/ recover' = [recover EXCEPT ![i] = "NONE"]
              \/ recover' = [recover EXCEPT ![i] = IF @ = "NONE" THEN @ ELSE "IN_RECOVER"]
       PROVE  OneTable' /\ \A j \in Id : RecordOK(j)'
  <2>1. \A j \in Id : recover[j] = "NONE" => recover'[j] = "NONE"
    BY <1>1, <1>24 DEF TypeOK
  <2>2. OneTable'
    BY <1>1, <1>24, <2>1 DEF OneTable, Poisoned
  <2>3. \A j \in Id : RecordOK(j)'
    BY <1>5, <1>24, <2>1 DEF RecordOK
  <2> QED
    BY <2>2, <2>3
<1>25. ASSUME NEW t \in WebThread, OpSend(t)
       PROVE  IdsMatch' /\ OneTable'
  <2> DEFINE i == opTask[t].id
             c == [id |-> i, retried |-> 0, fromRecover |-> TRUE]
  <2>1. i \in 1 .. lastId /\ owner[i] \in Msg
    BY <1>1, <1>25, WebTaskOK DEF OpSend
  <2>2. i # 0 /\ i \in Id0
    BY <1>5, <2>1 DEF Id0
  <2>3. c \in Copy /\ CopyOK(owner[i], c)
    BY <2>1, <2>2, TimesNat, SMTT(30) DEF Copy, CopyOK, RefersTo
  <2>4. UNCHANGED retryQ \/ retryQ' = [retryQ EXCEPT ![owner[i]] = Append(@, c)]
    BY <1>25 DEF OpSend
  <2>5. UNCHANGED <<tables, done, eq, eqTask, polled, sendTask, hkList, hkTask>>
    BY <1>25 DEF OpSend
  <2>6. \A v \in WebThread : opTask'[v] = NoTask \/ opTask'[v].id \in 1 .. lastId
    BY <1>1, <1>5, <1>25 DEF OpSend, TypeOK
  <2> HIDE DEF i, c
  <2>7. \A m \in Msg : \A d \in Range(retryQ'[m]) :
          d \in Range(retryQ[m]) \/ CopyOK(m, d)'
    BY <1>16, <2>1, <2>3, <2>4, <2>5
  <2> QED
    BY <1>1, <1>3, <1>4, <1>5, <2>5, <2>6, <2>7, IdsCenter
<1>29. ASSUME NEW t \in WebThread, OpCheckOut(t) \/ OpCheckOutThrows(t)
       PROVE  IdsMatch' /\ OneTable'
  <2>1. opTask[t].id \in Id
    BY <1>1, <1>29, WebTaskOK DEF OpCheckOut, OpCheckOutThrows
  <2>2. OneTable' /\ \A j \in Id : RecordOK(j)'
    <3>1. CheckOutRecover(opTask[t].id) \/ UNCHANGED tables
      BY <1>29 DEF OpCheckOut, OpCheckOutThrows
    <3>2. CASE CheckOutRecover(opTask[t].id)
      BY <1>24, <1>29, <2>1, <3>2 DEF CheckOutRecover, OpCheckOut, OpCheckOutThrows
    <3> QED
      BY <1>3, <3>1, <3>2
  <2>3. \A v \in WebThread : opTask'[v] = NoTask \/ opTask'[v].id \in 1 .. lastId
    BY <1>1, <1>5, <1>29, CheckOutTasks
  <2> QED
    BY <1>1, <1>2, <1>4, <1>5, <1>29, <2>2, <2>3, IdsCenter DEF OpCheckOut, OpCheckOutThrows
<1>26. ASSUME NEW i \in Id, OpDelete(i)
       PROVE  IdsMatch' /\ OneTable'
  <2>1. OneTable' /\ \A j \in Id : RecordOK(j)'
    BY <1>24, <1>26 DEF OpDelete
  <2> QED
    BY <1>1, <1>2, <1>4, <1>5, <1>26, <2>1, IdsCenter DEF OpDelete
<1>27. CASE CenterCrash
  <2>1. InEqTask' = {}
    <3>1. \A w \in EqWorker : eqTask'[w] = << >>
      BY <1>27 DEF CenterCrash
    <3> QED
      BY <3>1, EmptyIsSeq DEF InEqTask
  <2>2. Pending' \subseteq Pending
    BY <1>27, <2>1 DEF Pending, CenterCrash
  <2>3. polled'.phase = "idle" /\ \A w \in SendWorker : sendTask'[w] = NoRecord
    BY <1>27 DEF CenterCrash, Idle
  <2> QED
    BY <1>1, <1>3, <1>5, <1>27, <2>2, <2>3, IdsCenter DEF CenterCrash
<1>28. CASE UNCHANGED vars
  BY <1>1, <1>3, <1>4, <1>5, <1>28, IdsCenter DEF vars
<1> QED
  BY <1>6, <1>7, <1>8, <1>9, <1>10, <1>13, <1>14, <1>15, <1>17, <1>18, <1>19, <1>20,
     <1>21, <1>23, <1>25, <1>26, <1>27, <1>28, <1>29 DEF Next

-----------------------------------------------------------------------------
(* Nothing vanishes: inductive together with IInv. *)

Accounted(x) == x \in done \/ Excused(x) \/ InFlight(x) \/ HasRecord(x)

\* A message stays accounted for in a step that takes nothing away from it, or
\* that accounts for it otherwise.
LEMMA AccountFrame ==
  ASSUME NEW x \in Msg, Accounted(x),
         done \subseteq done', discarded \subseteq discarded', dropped \subseteq dropped',
         x \in bizQ => x \in bizQ' \/ Accounted(x)',
         \A c \in Range(retryQ[x]) : c.id = 0 => c \in Range(retryQ'[x]) \/ Accounted(x)',
         \A q \in Pending : q.msg = x /\ Carries(q) => q \in Pending' \/ Accounted(x)',
         HasRecord(x) => HasRecord(x)' \/ Accounted(x)'
  PROVE  Accounted(x)'
<1>1. CASE x \in done \/ Excused(x)
  BY <1>1 DEF Accounted, Excused
<1>2. CASE InFlight(x)
  BY <1>2 DEF Accounted, InFlight, Carries
<1>3. CASE HasRecord(x)
  BY <1>3 DEF Accounted
<1> QED
  BY <1>1, <1>2, <1>3 DEF Accounted

\* A record may move to the other table.
LEMMA RecordKept ==
  ASSUME UNCHANGED owner,
         \A i \in Id : interval[i] # "NONE" \/ recover[i] # "NONE" =>
           interval'[i] # "NONE" \/ recover'[i] # "NONE",
         NEW x \in Msg, HasRecord(x)
  PROVE  HasRecord(x)'
BY DEF HasRecord

\* A service creates the record of a request that carries its message, or
\* forgets it, and removes no record of a message that is not to be cleaned.
LEMMA ProcessAccounts ==
  ASSUME IInv, NEW q \in Request, RequestIdOK(q), Process(q), NEW x \in Msg,
         HasRecord(x) \/ (Carries(q) /\ x = q.msg), x # q.msg \/ ~Cleans(q)
  PROVE  HasRecord(x)' \/ (x = q.msg /\ x \in dropped')
<1> USE DEF IInv
<1>1. /\ Grows
      /\ \A i \in Id : interval[i] # "NONE" \/ recover[i] # "NONE" =>
           \/ interval'[i] # "NONE" \/ recover'[i] # "NONE"
           \/ owner[i] = q.msg /\ Cleans(q)
      /\ Carries(q) => HasRecord(q.msg)' \/ Forgets(q)
      /\ Forgets(q) => q.msg \in dropped'
  BY ProcessEffect, ProcessType
<1>2. CASE HasRecord(x)
  <2>1. PICK i \in Id : owner[i] = x /\ (interval[i] # "NONE" \/ recover[i] # "NONE")
    BY <1>2 DEF HasRecord
  <2>2. i <= lastId
    BY <2>1 DEF IdsMatch, RecordOK
  <2>3. owner'[i] = x
    BY <1>1, <2>1, <2>2 DEF Grows
  <2>4. interval'[i] # "NONE" \/ recover'[i] # "NONE"
    BY <1>1, <2>1
  <2> QED
    BY <2>3, <2>4 DEF HasRecord
<1> QED
  BY <1>1, <1>2

\* A delivery that sends request q.
LEMMA VanishCalls ==
  ASSUME IInv, NEW m \in Msg, Consume(m), NEW x \in Msg, Accounted(x),
         NEW src \in {"business", "retry"}, NEW c \in Copy,
         Delivered(m, src, c), Calls(m, src, c)
  PROVE  Accounted(x)'
<1> USE DEF IInv
<1>1. /\ UNCHANGED <<eqTask, discarded>>
      /\ done \subseteq done' /\ dropped \subseteq dropped'
  BY ConsumeStep, ConsumeDrops
<1>2. PICK q, n, k : /\ Sends(m, src, c, q)
                     /\ n \in {0, 1} /\ Submit(q, n)
                     /\ k \in {0, 1} /\ Settle(m, src, << >>, k)
  BY DEF Calls
<1>3. q \in Request /\ q.msg = m /\ q.id = c.id
  BY <1>2, SendsRequest
<1>4. RequestIdOK(q) /\ (Cleans(q) => m \in done')
  BY <1>2, <1>3, SendsOK
<1>5. Acknowledges(m, src, c, << >>)
  BY <1>2, SettleNothing
<1>6. /\ Range(eq) \subseteq Range(eq')
      /\ Process(q) \/ (UNCHANGED tables /\ q \in Range(eq'))
  BY <1>2, <1>3, SubmitEffect
<1>7. Pending \subseteq Pending' /\ (q \in Range(eq') => q \in Pending')
  BY <1>1, <1>6 DEF Pending, InEqTask
<1>8. CASE x = m /\ Cleans(q)
  BY <1>4, <1>8 DEF Accounted
<1>9. CASE x # m \/ ~Cleans(q)
  <2>1. HasRecord(x) => HasRecord(x)' \/ Accounted(x)'
    <3>1. CASE Process(q)
      BY <1>3, <1>4, <1>9, <3>1, ProcessAccounts DEF Accounted, Excused
    <3>2. CASE UNCHANGED tables
      BY <3>2 DEF tables, HasRecord
    <3> QED
      BY <1>6, <3>1, <3>2
  <2>2. CASE x # m
    <3>1. /\ retryQ'[x] = retryQ[x]
          /\ x \in bizQ => x \in bizQ'
      BY <1>5, <2>2 DEF Acknowledges
    <3> QED
      BY <1>1, <1>7, <2>1, <3>1, AccountFrame
  <2>3. CASE x = m /\ Carries(q)
    <3>1. CASE Process(q)
      <4>1. HasRecord(x)' \/ x \in dropped'
        BY <1>3, <1>4, <1>9, <2>3, <3>1, ProcessAccounts
      <4> QED
        BY <4>1 DEF Accounted, Excused
    <3>2. CASE q \in Range(eq')
      BY <1>3, <1>7, <2>3, <3>2 DEF Accounted, InFlight, Carries
    <3> QED
      BY <1>6, <3>1, <3>2
  <2>4. CASE x = m /\ ~Carries(q)
    <3>1. c.id # 0
      BY <1>3, <1>9, <2>4 DEF Carries, Cleans
    <3>2. src = "retry"
      BY <3>1, DeliveredOK DEF InitialCopy
    <3>3. /\ bizQ' = bizQ
          /\ \A d \in Range(retryQ[m]) : d.id = 0 => d \in Range(retryQ'[m])
      BY <1>5, <3>1, <3>2 DEF Acknowledges
    <3> QED
      BY <1>1, <1>7, <2>1, <2>4, <3>3, AccountFrame
  <2> QED
    BY <2>2, <2>3, <2>4
<1> QED
  BY <1>8, <1>9

\* A delivery.
LEMMA VanishConsume ==
  ASSUME IInv, NEW m \in Msg, Consume(m), NEW x \in Msg, Accounted(x)
  PROVE  Accounted(x)'
<1> USE DEF IInv
<1>1. /\ UNCHANGED <<eqTask, discarded>>
      /\ done \subseteq done' /\ dropped \subseteq dropped'
  BY ConsumeStep, ConsumeDrops
<1>2. PICK src \in {"business", "retry"}, c \in Copy :
        /\ Delivered(m, src, c)
        /\ Calls(m, src, c) \/ Republishes(m, src, c) \/ Finishes(m, src, c)
  BY ConsumeStep
<1>3. ASSUME UNCHANGED <<eq, tables>>
      PROVE  Pending' = Pending /\ (HasRecord(x) => HasRecord(x)')
  BY <1>1, <1>3 DEF Pending, InEqTask, tables, HasRecord
<1>4. CASE Calls(m, src, c)
  BY <1>2, <1>4, VanishCalls
<1>5. CASE Republishes(m, src, c)
  <2>0. PICK cfg \in Configs[m], k \in {0, 1} :
          Settle(m, src, <<[c EXCEPT !.retried = NextTimes(cfg, c)]>>, k)
    BY <1>5 DEF Republishes
  <2> DEFINE d == [c EXCEPT !.retried = NextTimes(cfg, c)]
             more == <<d>>
  <2>1. Settle(m, src, more, k)
    BY <2>0
  <2>2. d \in Copy /\ more \in Seq(Copy) /\ Range(more) = {d}
    BY RepublishedCopy
  <2>3. d.id = c.id
    BY DEF Copy
  <2> HIDE DEF d, more
  <2>4. Acknowledges(m, src, c, more)
    BY <1>2, <2>1, <2>2, SettleEffect
  <2>5. Pending' = Pending /\ (HasRecord(x) => HasRecord(x)')
    BY <1>3, <1>5 DEF Republishes
  <2>6. CASE x # m
    <3>1. /\ retryQ'[x] = retryQ[x]
          /\ x \in bizQ => x \in bizQ'
      BY <2>4, <2>6 DEF Acknowledges
    <3> QED
      BY <1>1, <2>5, <3>1, AccountFrame
  <2>7. CASE x = m /\ c.id = 0
    <3>1. d \in Range(retryQ'[m])
      BY <2>2, <2>4 DEF Acknowledges
    <3> QED
      BY <2>3, <2>7, <3>1 DEF Accounted, InFlight
  <2>8. CASE x = m /\ c.id # 0
    <3>1. src = "retry"
      BY <1>2, <2>8, DeliveredOK DEF InitialCopy
    <3>2. /\ bizQ' = bizQ
          /\ \A e \in Range(retryQ[m]) : e.id = 0 => e \in Range(retryQ'[m])
      BY <2>4, <2>8, <3>1 DEF Acknowledges
    <3> QED
      BY <1>1, <2>5, <2>8, <3>2, AccountFrame
  <2> QED
    BY <2>6, <2>7, <2>8
<1>6. CASE Finishes(m, src, c)
  <2>1. CASE x = m
    BY <1>6, <2>1 DEF Finishes, Accounted
  <2>2. CASE x # m
    <3>1. /\ retryQ'[x] = retryQ[x]
          /\ x \in bizQ => x \in bizQ'
      <4>1. CASE \E k \in {0, 1} : Settle(m, src, << >>, k)
        BY <1>2, <2>2, <4>1, SettleNothing DEF Acknowledges
      <4>2. CASE UNCHANGED queues
        BY <4>2 DEF queues
      <4> QED
        BY <1>6, <4>1, <4>2 DEF Finishes
    <3>2. Pending' = Pending /\ (HasRecord(x) => HasRecord(x)')
      BY <1>3, <1>6 DEF Finishes
    <3> QED
      BY <1>1, <3>1, <3>2, AccountFrame
  <2> QED
    BY <2>1, <2>2
<1> QED
  BY <1>2, <1>4, <1>5, <1>6

\* A step of the EQ task on request q.
LEMMA VanishEq ==
  ASSUME IInv, NEW w \in EqWorker, EqProcess(w) \/ EqProcessFails(w),
         NEW x \in Msg, Accounted(x)
  PROVE  Accounted(x)'
<1> USE DEF IInv
<1> DEFINE q == Head(eqTask[w])
<1>1. /\ eqTask[w] # << >> /\ eqTask' = [eqTask EXCEPT ![w] = Tail(@)]
      /\ UNCHANGED <<bizQ, retryQ, eq, done, discarded>>
  BY DEF EqProcess, EqProcessFails, queues
<1>2. q \in Pending /\ q \in Request /\ Pending \subseteq Pending' \cup {q}
  BY <1>1, PendingTake
<1>3. RequestIdOK(q) /\ (Cleans(q) => q.msg \in done)
  BY <1>2 DEF IdsMatch, RequestOK
<1>4. \/ Process(q)
      \/ /\ UNCHANGED tables
         /\ dropped' = IF Carries(q) THEN dropped \cup {q.msg} ELSE dropped
  BY DEF EqProcess, EqProcessFails
<1>7. dropped \subseteq dropped'
  BY <1>2, <1>4, ProcessType
<1> HIDE DEF q
<1>5. CASE x = q.msg /\ (Cleans(q) \/ q.msg \in dropped')
  BY <1>1, <1>3, <1>5 DEF Accounted, Excused
<1>6. CASE ~(x = q.msg /\ (Cleans(q) \/ q.msg \in dropped'))
  <2>1. HasRecord(x) => HasRecord(x)'
    <3>1. CASE Process(q)
      BY <1>2, <1>3, <1>6, <3>1, ProcessAccounts
    <3>2. CASE UNCHANGED tables
      BY <3>2 DEF tables, HasRecord
    <3> QED
      BY <1>4, <3>1, <3>2
  <2>2. Carries(q) /\ q.msg = x => HasRecord(x)'
    <3>1. ASSUME Carries(q), q.msg = x
          PROVE  HasRecord(x)'
      <4>1. Process(q)
        BY <1>4, <1>6, <3>1
      <4> QED
        BY <1>2, <1>3, <1>6, <3>1, <4>1, ProcessAccounts
    <3> QED
      BY <3>1
  <2>3. \A r \in Pending : r.msg = x /\ Carries(r) => r \in Pending' \/ Accounted(x)'
    BY <1>2, <2>2 DEF Accounted
  <2> QED
    BY <1>1, <1>7, <2>1, <2>3, AccountFrame
<1> QED
  BY <1>5, <1>6

\* A step of the center or of an operator that only adds to the retry queues and
\* takes no record away.
LEMMA VanishCenter ==
  ASSUME NEW x \in Msg, Accounted(x), UNCHANGED <<bizQ, done, discarded, dropped, owner>>,
         Range(retryQ[x]) \subseteq Range(retryQ'[x]), Pending' = Pending,
         \A i \in Id : interval[i] # "NONE" \/ recover[i] # "NONE" =>
           interval'[i] # "NONE" \/ recover'[i] # "NONE"
  PROVE  Accounted(x)'
<1>1. HasRecord(x) => HasRecord(x)'
  BY RecordKept
<1> QED
  BY <1>1, AccountFrame

\* A delivered copy is a new element of its retry queue.
LEMMA RetryQueueGrows ==
  ASSUME TypeOK, NEW m \in Msg, NEW c \in Copy,
         retryQ' = [retryQ EXCEPT ![m] = Append(@, c)] \/ UNCHANGED retryQ
  PROVE  \A x \in Msg : Range(retryQ[x]) \subseteq Range(retryQ'[x])
<1>1. retryQ \in [Msg -> Seq(Copy)] /\ retryQ[m] \in Seq(Copy)
  BY DEF TypeOK
<1>2. Range(Append(retryQ[m], c)) = Range(retryQ[m]) \cup {c}
  BY <1>1, RangeAppend
<1>3. CASE retryQ' = [retryQ EXCEPT ![m] = Append(@, c)]
  <2>1. /\ retryQ'[m] = Append(retryQ[m], c)
        /\ \A x \in Msg \ {m} : retryQ'[x] = retryQ[x]
    BY <1>1, <1>3
  <2> QED
    BY <1>2, <2>1
<1>4. CASE UNCHANGED retryQ
  BY <1>4
<1> QED
  BY <1>3, <1>4

\* A message that is accounted for stays so.
LEMMA VanishStep ==
  ASSUME IInv, [Next]_vars, NEW x \in Msg, Accounted(x)
  PROVE  Accounted(x)'
<1> USE DEF queues, tables, poller, keeper, operator, history
<1>1. TypeOK /\ IdsMatch /\ OneTable
  BY DEF IInv
<1>2. /\ interval \in [Id -> {"NONE", "TO_RETRY", "IN_RETRY"}]
      /\ recover \in [Id -> {"NONE", "TO_RECOVER", "IN_RECOVER"}]
      /\ \A i \in 1 .. lastId : i \in Id /\ owner[i] \in Msg
  <2>1. /\ interval \in [Id -> {"NONE", "TO_RETRY", "IN_RETRY"}]
        /\ recover \in [Id -> {"NONE", "TO_RECOVER", "IN_RECOVER"}]
        /\ lastId \in Id0
    BY <1>1 DEF TypeOK
  <2>2. \A i \in Id : RecordOK(i)
    BY <1>1 DEF IdsMatch
  <2>3. ASSUME NEW i \in 1 .. lastId PROVE i \in Id /\ owner[i] \in Msg
    <3>1. MaxId \in Nat
      BY ConstantsAssumption DEF ConstantsAssumption
    <3>2. i \in Int /\ i <= lastId /\ i \in Id
      BY <2>1, <2>3, <3>1 DEF Id, Id0
    <3> QED
      BY <2>2, <3>2 DEF RecordOK
  <2> QED
    BY <2>1, <2>3
<1>3. UNCHANGED <<eq, eqTask>> => Pending' = Pending
  BY DEF Pending, InEqTask
<1>4. CASE \E m \in Msg : Consume(m)
  BY <1>4, VanishConsume
<1>5. ASSUME NEW w \in EqWorker, EqDrain(w)
      PROVE  Accounted(x)'
  <2>1. Pending' = Pending
    BY <1>1, <1>5, PendingDrain
  <2> QED
    BY <1>5, <2>1, VanishCenter DEF EqDrain
<1>6. ASSUME NEW w \in EqWorker, EqProcess(w) \/ EqProcessFails(w)
      PROVE  Accounted(x)'
  BY <1>6, VanishEq
<1>7. CASE PollRead
  BY <1>3, <1>7, VanishCenter DEF PollRead
<1>8. CASE CheckOut \/ CheckOutThrows
  <2>1. \A i \in Id : interval[i] # "NONE" => interval'[i] # "NONE"
    BY <1>2, <1>8 DEF CheckOut, CheckOutThrows
  <2>2. /\ UNCHANGED <<bizQ, retryQ, eq, eqTask, done, discarded, dropped, owner, recover>>
    BY <1>8 DEF CheckOut, CheckOutThrows
  <2> QED
    BY <1>3, <2>1, <2>2, VanishCenter
<1>9. ASSUME NEW w \in SendWorker, HandOff(w)
      PROVE  Accounted(x)'
  BY <1>3, <1>9, VanishCenter DEF HandOff
<1>10. ASSUME NEW w \in SendWorker, SendCopy(w)
       PROVE  Accounted(x)'
  <2> DEFINE c == [id |-> sendTask[w].id, retried |-> sendTask[w].retried,
                   fromRecover |-> FALSE]
  <2>1. c \in Copy /\ owner[c.id] \in Msg
    BY <1>1, <1>2, <1>10, SMTT(30) DEF SendCopy, IdsMatch, HeldOK, TypeOK, Copy
  <2>2. retryQ' = [retryQ EXCEPT ![owner[c.id]] = Append(@, c)] \/ UNCHANGED retryQ
    BY <1>10 DEF SendCopy
  <2>3. UNCHANGED <<bizQ, eq, tables, eqTask, done, discarded, dropped>>
    BY <1>10 DEF SendCopy
  <2> HIDE DEF c
  <2>4. Range(retryQ[x]) \subseteq Range(retryQ'[x])
    BY <1>1, <2>1, <2>2, RetryQueueGrows
  <2> QED
    BY <1>3, <2>3, <2>4, VanishCenter
<1>11. ASSUME NEW s \in SUBSET Id, HkRead(s)
       PROVE  Accounted(x)'
  BY <1>3, <1>11, VanishCenter DEF HkRead
<1>12. CASE HkAcquire
  BY <1>3, <1>12, VanishCenter DEF HkAcquire
<1>13. CASE HkExecute
  <2>1. \A i \in Id : interval[i] # "NONE" \/ recover[i] # "NONE" =>
          interval'[i] # "NONE" \/ recover'[i] # "NONE"
    BY <1>13 DEF HkExecute, DoHouseKeep
  <2>2. UNCHANGED <<bizQ, retryQ, eq, eqTask, done, discarded, dropped, owner>>
    BY <1>13 DEF HkExecute, DoHouseKeep
  <2> QED
    BY <1>3, <2>1, <2>2, VanishCenter
<1>14. CASE HkAborts
  BY <1>3, <1>14, VanishCenter DEF HkAborts
<1>15. ASSUME NEW t \in WebThread, NEW i \in Id, OpFind(t, i)
       PROVE  Accounted(x)'
  BY <1>3, <1>15, VanishCenter DEF OpFind
<1>16. ASSUME NEW t \in WebThread, OpSend(t)
       PROVE  Accounted(x)'
  <2> DEFINE i == opTask[t].id
             c == [id |-> i, retried |-> 0, fromRecover |-> TRUE]
  <2>1. i \in Id /\ owner[i] \in Msg
    BY <1>1, <1>16, WebTaskOK DEF OpSend
  <2>2. c \in Copy
    BY <2>1, ConstantsAssumption, SMTT(30) DEF Copy, Id, Id0, ConstantsAssumption
  <2>3. retryQ' = [retryQ EXCEPT ![owner[i]] = Append(@, c)] \/ UNCHANGED retryQ
    BY <1>16 DEF OpSend
  <2>4. UNCHANGED <<bizQ, eq, eqTask, done, discarded, dropped, tables>>
    BY <1>16 DEF OpSend
  <2> HIDE DEF i, c
  <2>5. Range(retryQ[x]) \subseteq Range(retryQ'[x])
    BY <1>1, <2>1, <2>2, <2>3, RetryQueueGrows
  <2> QED
    BY <1>3, <2>4, <2>5, VanishCenter
<1>20. ASSUME NEW t \in WebThread, OpCheckOut(t) \/ OpCheckOutThrows(t)
       PROVE  Accounted(x)'
  <2>1. \A j \in Id : recover[j] # "NONE" => recover'[j] # "NONE"
    BY <1>2, <1>20 DEF OpCheckOut, OpCheckOutThrows, CheckOutRecover
  <2>2. UNCHANGED <<bizQ, retryQ, eq, eqTask, done, discarded, dropped, owner, interval>>
    BY <1>20 DEF OpCheckOut, OpCheckOutThrows
  <2> QED
    BY <1>3, <2>1, <2>2, VanishCenter
<1>17. ASSUME NEW i \in Id, OpDelete(i)
       PROVE  Accounted(x)'
  <2>1. CASE owner[i] = x
    BY <1>17, <2>1 DEF OpDelete, Accounted, Excused
  <2>2. CASE owner[i] # x
    <3>1. HasRecord(x) => HasRecord(x)'
      BY <1>2, <1>17, <2>2 DEF OpDelete, HasRecord
    <3> QED
      BY <1>3, <1>17, <3>1, AccountFrame DEF OpDelete
  <2> QED
    BY <2>1, <2>2
<1>18. CASE CenterCrash
  <2>1. \A q \in Pending : q.msg = x /\ Carries(q) => q \in Pending' \/ Accounted(x)'
    <3>1. ASSUME NEW q \in InEqTask, q.msg = x, Carries(q)
          PROVE  Accounted(x)'
      BY <1>18, <3>1 DEF CenterCrash, Accounted, Excused
    <3> QED
      BY <1>18, <3>1 DEF CenterCrash, Pending
  <2>2. HasRecord(x) => HasRecord(x)'
    BY <1>18 DEF CenterCrash, HasRecord
  <2> QED
    BY <1>18, <2>1, <2>2, AccountFrame DEF CenterCrash
<1>19. CASE UNCHANGED vars
  BY <1>3, <1>19, VanishCenter DEF vars
<1> QED
  BY <1>4, <1>5, <1>6, <1>7, <1>8, <1>9, <1>10, <1>11, <1>12, <1>13, <1>14, <1>15, <1>16,
     <1>17, <1>18, <1>19, <1>20 DEF Next

-----------------------------------------------------------------------------
(* The refinement: a recover record stays. *)

\* A service takes a recover record away for a clean-up only.
LEMMA ProcessParks ==
  ASSUME IInv, NEW q \in Request, RequestIdOK(q), Process(q),
         NEW x \in Msg, Parked(x), x # q.msg \/ ~Cleans(q)
  PROVE  Parked(x)'
<1> USE DEF IInv
<1>1. /\ Grows
      /\ \A i \in Id : recover[i] # "NONE" =>
           recover'[i] # "NONE" \/ (owner[i] = q.msg /\ Cleans(q))
  BY ProcessEffect
<1>2. PICK i \in Id : owner[i] = x /\ recover[i] # "NONE"
  BY DEF Parked
<1>3. i <= lastId
  BY <1>2 DEF IdsMatch, RecordOK
<1>4. owner'[i] = x /\ recover'[i] # "NONE"
  BY <1>1, <1>2, <1>3 DEF Grows
<1> QED
  BY <1>4 DEF Parked

\* No step takes the recover record of a message away that is neither handled
\* nor excused.
LEMMA ParkedStays ==
  ASSUME IInv, [Next]_vars, NEW x \in Msg, Parked(x)
  PROVE  Parked(x)' \/ x \in done' \/ Excused(x)'
<1> USE DEF queues, tables, poller, keeper, operator, history
<1>1. TypeOK /\ IdsMatch /\ OneTable
  BY DEF IInv
<1>2. recover \in [Id -> {"NONE", "TO_RECOVER", "IN_RECOVER"}]
  BY <1>1 DEF TypeOK
<1>3. ASSUME UNCHANGED owner,
             \A i \in Id : recover[i] # "NONE" => recover'[i] # "NONE"
      PROVE  Parked(x)'
  BY <1>3 DEF Parked
<1>4. ASSUME NEW m \in Msg, Consume(m)
      PROVE  Parked(x)' \/ x \in done'
  <2>1. PICK src \in {"business", "retry"}, c \in Copy :
          /\ Delivered(m, src, c)
          /\ Calls(m, src, c) \/ Republishes(m, src, c) \/ Finishes(m, src, c)
    BY <1>1, <1>4, ConsumeStep
  <2>2. CASE UNCHANGED tables
    BY <1>3, <2>2
  <2>3. CASE Calls(m, src, c)
    <3>1. PICK q, n, k : /\ Sends(m, src, c, q)
                         /\ n \in {0, 1} /\ Submit(q, n)
                         /\ k \in {0, 1} /\ Settle(m, src, << >>, k)
      BY <2>3 DEF Calls
    <3>2. q \in Request /\ q.msg = m
      BY <3>1, SendsRequest
    <3>3. RequestIdOK(q) /\ (Cleans(q) => m \in done')
      BY <1>1, <2>1, <3>1, <3>2, SendsOK
    <3>4. Process(q) \/ UNCHANGED tables
      BY <1>1, <3>1, <3>2, SubmitEffect
    <3> QED
      BY <2>2, <3>2, <3>3, <3>4, ProcessParks
  <2> QED
    BY <2>1, <2>2, <2>3 DEF Republishes, Finishes
<1>5. ASSUME NEW w \in EqWorker, EqProcess(w)
      PROVE  Parked(x)' \/ x \in done'
  <2> DEFINE q == Head(eqTask[w])
  <2>1. q \in Pending /\ q \in Request
    BY <1>1, <1>5, PendingTake DEF EqProcess
  <2>2. RequestIdOK(q) /\ (Cleans(q) => q.msg \in done) /\ done' = done
    BY <1>1, <1>5, <2>1 DEF IdsMatch, RequestOK, EqProcess
  <2>3. Process(q) \/ UNCHANGED tables
    BY <1>5 DEF EqProcess
  <2> HIDE DEF q
  <2> QED
    BY <1>3, <2>1, <2>2, <2>3, ProcessParks
<1>6. ASSUME NEW w \in EqWorker, EqDrain(w) \/ EqProcessFails(w)
      PROVE  Parked(x)'
  BY <1>3, <1>6 DEF EqDrain, EqProcessFails
<1>7. CASE PollRead \/ CheckOut \/ CheckOutThrows
  BY <1>3, <1>7 DEF PollRead, CheckOut, CheckOutThrows
<1>8. ASSUME NEW w \in SendWorker, HandOff(w) \/ SendCopy(w)
      PROVE  Parked(x)'
  BY <1>3, <1>8 DEF HandOff, SendCopy
<1>9. ASSUME NEW s \in SUBSET Id, HkRead(s)
      PROVE  Parked(x)'
  BY <1>3, <1>9 DEF HkRead
<1>10. CASE HkAcquire \/ HkExecute \/ HkAborts
  BY <1>3, <1>10 DEF HkAcquire, HkExecute, HkAborts, DoHouseKeep
<1>11. ASSUME NEW t \in WebThread,
              (\E i \in Id : OpFind(t, i)) \/ OpCheckOut(t) \/ OpCheckOutThrows(t) \/ OpSend(t)
       PROVE  Parked(x)'
  BY <1>2, <1>3, <1>11 DEF OpFind, OpCheckOut, OpCheckOutThrows, CheckOutRecover, OpSend
<1>12. ASSUME NEW i \in Id, OpDelete(i)
       PROVE  Parked(x)' \/ Excused(x)'
  <2>1. CASE owner[i] = x
    BY <1>12, <2>1 DEF OpDelete, Excused
  <2>2. CASE owner[i] # x
    BY <1>2, <1>12, <2>2 DEF OpDelete, Parked
  <2> QED
    BY <2>1, <2>2
<1>13. CASE CenterCrash \/ UNCHANGED vars
  BY <1>3, <1>13, SMTT(30) DEF CenterCrash, vars
<1> QED
  BY <1>4, <1>5, <1>6, <1>7, <1>8, <1>9, <1>10, <1>11, <1>12, <1>13 DEF Next

\* Handling and excusing are for ever.
LEMMA HistoryGrows ==
  ASSUME TypeOK, [Next]_vars
  PROVE  done \subseteq done' /\ discarded \subseteq discarded' /\ dropped \subseteq dropped'
<1>1. ASSUME NEW m \in Msg, Consume(m)
      PROVE  done \subseteq done' /\ discarded \subseteq discarded' /\ dropped \subseteq dropped'
  BY <1>1, ConsumeStep, ConsumeDrops
<1>2. ASSUME NEW w \in EqWorker, EqProcess(w)
      PROVE  done \subseteq done' /\ discarded \subseteq discarded' /\ dropped \subseteq dropped'
  <2>1. Head(eqTask[w]) \in Request
    BY <1>2, PendingTake DEF EqProcess
  <2> QED
    BY <1>2, <2>1, ProcessType DEF EqProcess
<1> QED
  BY <1>1, <1>2 DEF Next, vars, history, EqDrain, EqProcessFails, PollRead, CheckOut,
     CheckOutThrows, HandOff, SendCopy, HkRead, HkAcquire, HkExecute, HkAborts, OpFind,
     OpCheckOut, OpCheckOutThrows, OpSend, OpDelete, CenterCrash

\* A step of the system is a step of the contract.
LEMMA ContractStep ==
  ASSUME IInv, NothingVanishes, NothingVanishes', [Next]_vars
  PROVE  Contract!Next
<1>1. ASSUME NEW m \in Msg
      PROVE  \/ Status(m)' = Status(m)
             \/ Status(m)' = "handled"
             \/ Status(m) = "retrying" /\ Status(m)' = "recoverable"
             \/ m \in (discarded \cup dropped)' /\ Status(m) # "handled"
  <2>1. done \subseteq done' /\ discarded \subseteq discarded' /\ dropped \subseteq dropped'
    BY HistoryGrows DEF IInv
  <2>2. CASE m \in done'
    BY <2>2 DEF Status
  <2>3. CASE m \notin done' /\ Excused(m)'
    BY <2>1, <2>3 DEF Status, Excused
  <2>4. CASE m \notin done' /\ ~Excused(m)'
    <3>1. m \notin done /\ ~Excused(m)
      BY <2>1, <2>4 DEF Excused
    <3>2. InFlight(m) \/ HasRecord(m)
      BY <3>1 DEF NothingVanishes
    <3>3. (InFlight(m) \/ HasRecord(m))'
      BY <2>4 DEF NothingVanishes
    <3>4. Parked(m) => Parked(m)'
      BY <2>4, ParkedStays
    <3> QED
      BY <2>4, <3>1, <3>2, <3>3, <3>4 DEF Status
  <2> QED
    BY <2>2, <2>3, <2>4
<1>2. discarded \cup dropped \subseteq (discarded \cup dropped)'
  BY HistoryGrows DEF IInv
<1>3. \A m \in Msg : Status(m)' \in {"retrying", "recoverable", "handled", "vanished"}
  BY DEF Status
<1> QED
  BY <1>1, <1>2, <1>3
  DEF Contract!Next, Contract!Keep, Contract!Handle, Contract!Park, Contract!Excuse,
      Contract!Status

-----------------------------------------------------------------------------
(* What strands a record in recovery. *)

ClosesRecovery(q, i) == q.id = i /\ RecoverAnswer(q)

\* Not stranded.
Sound(i) == recover[i] = "IN_RECOVER" => Backed(i)

\* No service puts a record in recovery, and the two that answer a recovery end
\* it.
LEMMA ProcessRecovery ==
  ASSUME TypeOK, NEW q \in Request, Process(q), NEW i \in Id, recover'[i] = "IN_RECOVER"
  PROVE  recover[i] = "IN_RECOVER" /\ ~ClosesRecovery(q, i)
<1>1. recover \in [Id -> {"NONE", "TO_RECOVER", "IN_RECOVER"}]
  BY DEF TypeOK
<1>2. CASE CleanRecover(q) /\ q.kind = "CLEAN_RECOVER"
  BY <1>1, <1>2 DEF CleanRecover, ClosesRecovery, RecoverAnswer
<1>3. CASE ResendForRecover(q) /\ q.kind = "RESEND_FOR_RECOVER"
  BY <1>1, <1>3 DEF ResendForRecover, ClosesRecovery, RecoverAnswer
<1>4. CASE /\ q.kind \notin {"CLEAN_RECOVER", "RESEND_FOR_RECOVER"}
           /\ \/ UNCHANGED recover
              \/ DoIntervalMessageRecover(q)
              \/ \E j : recover' = [recover EXCEPT ![j] = "TO_RECOVER"]
  BY <1>1, <1>4 DEF DoIntervalMessageRecover, ClosesRecovery, RecoverAnswer
<1> QED
  BY <1>2, <1>3, <1>4 DEF Process, CleanIntervalRetry, DoIntervalMessageRetry,
     AddIntervalRetry, CheckinIntervalRetry, DoMessageDirectToRecover, AddRecover

\* A record that has been and stays in recovery stays backed when web threads,
\* copies and requests stay, but for those that end recoveries.
LEMMA BackedFrame ==
  ASSUME IInv, NEW i \in Id, Sound(i), Grows,
         recover'[i] = "IN_RECOVER" => recover[i] = "IN_RECOVER",
         \A t \in WebThread : opTask[t].phase = "out" /\ opTask[t].id = i =>
           \/ opTask'[t].phase = "out" /\ opTask'[t].id = i
           \/ Sound(i)',
         \A m \in Msg : \A c \in Range(retryQ[m]) :
           c.id = i /\ c.fromRecover => c \in Range(retryQ'[m]) \/ Sound(i)',
         \A q \in Pending : ClosesRecovery(q, i) => q \in Pending' \/ Sound(i)'
  PROVE  Sound(i)'
<1> SUFFICES ASSUME recover'[i] = "IN_RECOVER" PROVE Backed(i)'
  BY DEF Sound
<1>0. Sound(i)' => Backed(i)'
  BY DEF Sound
<1>1. i <= lastId /\ owner[i] \in Msg
  BY DEF IInv, IdsMatch, RecordOK
<1>2. owner'[i] = owner[i]
  BY <1>1 DEF Grows
<1>3. CASE \E c \in Range(retryQ[owner[i]]) : c.id = i /\ c.fromRecover
  BY <1>0, <1>1, <1>2, <1>3 DEF Backed
<1>4. CASE \E q \in Pending : ClosesRecovery(q, i)
  BY <1>0, <1>4 DEF Backed, ClosesRecovery
<1>5. CASE \E t \in WebThread : opTask[t].phase = "out" /\ opTask[t].id = i
  BY <1>0, <1>5 DEF Backed
<1> QED
  BY <1>3, <1>4, <1>5 DEF Backed, Sound, ClosesRecovery

\* A delivery: a copy from the recover table leaves its queue with the request
\* that ends the recovery.
LEMMA BackedConsume ==
  ASSUME IInv, NEW m \in Msg, Consume(m), NEW i \in Id, Sound(i)
  PROVE  Sound(i)'
<1> USE DEF IInv
<1>1. UNCHANGED <<eqTask, opTask>>
  BY ConsumeStep DEF operator
<1>2. PICK src \in {"business", "retry"}, c \in Copy :
        /\ Delivered(m, src, c)
        /\ Calls(m, src, c) \/ Republishes(m, src, c) \/ Finishes(m, src, c)
  BY ConsumeStep
<1>5. ASSUME UNCHANGED tables
      PROVE  Grows
  BY <1>5 DEF tables, Grows, TypeOK, Id0
<1>6. CASE Calls(m, src, c)
  <2>1. PICK q, n, k : /\ Sends(m, src, c, q)
                       /\ n \in {0, 1} /\ Submit(q, n)
                       /\ k \in {0, 1} /\ Settle(m, src, << >>, k)
    BY <1>6 DEF Calls
  <2>2. q \in Request /\ q.msg = m /\ q.id = c.id
    BY <2>1, SendsRequest
  <2>3. RequestIdOK(q)
    BY <1>2, <2>1, SendsOK
  <2>4. Acknowledges(m, src, c, << >>)
    BY <1>2, <2>1, SettleNothing
  <2>5. /\ Range(eq) \subseteq Range(eq')
        /\ Process(q) \/ (UNCHANGED tables /\ q \in Range(eq'))
    BY <2>1, <2>2, SubmitEffect
  <2>6. Pending \subseteq Pending' /\ (q \in Range(eq') => q \in Pending')
    BY <1>1, <2>5 DEF Pending, InEqTask
  <2>7. Grows /\ (recover'[i] = "IN_RECOVER" => recover[i] = "IN_RECOVER")
    <3>1. CASE Process(q)
      BY <2>2, <2>3, <3>1, ProcessEffect, ProcessRecovery
    <3>2. CASE UNCHANGED tables
      BY <1>5, <3>2 DEF tables
    <3> QED
      BY <2>5, <3>1, <3>2
  <2>8. c.fromRecover /\ c.id = i => ClosesRecovery(q, i)
    BY <2>1 DEF Sends, RequestFor, ClosesRecovery, RecoverAnswer
  <2>9. c.fromRecover /\ c.id = i => Sound(i)'
    <3>1. CASE Process(q)
      BY <2>2, <2>8, <3>1, ProcessRecovery DEF Sound
    <3>2. CASE q \in Range(eq')
      BY <2>6, <2>8, <3>2 DEF Backed, Sound, ClosesRecovery
    <3> QED
      BY <2>5, <3>1, <3>2
  <2>10. \A x \in Msg : \A d \in Range(retryQ[x]) : d \in Range(retryQ'[x]) \/ d = c
    BY <2>4 DEF Acknowledges
  <2> QED
    BY <1>1, <2>6, <2>7, <2>9, <2>10, BackedFrame
<1>7. ASSUME UNCHANGED <<eq, tables>>,
             \A x \in Msg : \A d \in Range(retryQ[x]) :
               d.fromRecover => d \in Range(retryQ'[x])
      PROVE  Sound(i)'
  <2>1. Pending' = Pending /\ recover' = recover
    BY <1>1, <1>7 DEF Pending, InEqTask, tables
  <2> QED
    BY <1>1, <1>5, <1>7, <2>1, BackedFrame
<1>8. CASE Republishes(m, src, c)
  <2>0. PICK cfg \in Configs[m], k \in {0, 1} :
          Settle(m, src, <<[c EXCEPT !.retried = NextTimes(cfg, c)]>>, k)
    BY <1>8 DEF Republishes
  <2> DEFINE more == <<[c EXCEPT !.retried = NextTimes(cfg, c)]>>
  <2>1. Settle(m, src, more, k) /\ more \in Seq(Copy)
    BY <2>0, RepublishedCopy
  <2> HIDE DEF more
  <2>2. Acknowledges(m, src, c, more)
    BY <1>2, <2>1, SettleEffect
  <2> QED
    BY <1>7, <1>8, <2>2 DEF Republishes, Acknowledges
<1>9. CASE Finishes(m, src, c)
  <2>1. CASE ~c.fromRecover /\ \E k \in {0, 1} : Settle(m, src, << >>, k)
    <3>1. Acknowledges(m, src, c, << >>)
      BY <1>2, <2>1, SettleNothing
    <3> QED
      BY <1>7, <1>9, <2>1, <3>1 DEF Finishes, Acknowledges
  <2>2. CASE UNCHANGED queues
    BY <1>7, <1>9, <2>2 DEF Finishes, queues
  <2> QED
    BY <1>9, <2>1, <2>2 DEF Finishes
<1> QED
  BY <1>2, <1>6, <1>8, <1>9

\* A step strands no record but by a fault, while the center holds it in memory.
LEMMA StrandedStep ==
  ASSUME IInv, [Next]_vars, NEW i \in Id, Sound(i)
  PROVE  Sound(i)' \/ (faults' > faults /\ i \in InMemory)
<1> USE DEF queues, tables, poller, keeper, operator, history
<1>1. TypeOK /\ IdsMatch
  BY DEF IInv
<1>2. /\ recover \in [Id -> {"NONE", "TO_RECOVER", "IN_RECOVER"}]
      /\ opTask \in [WebThread -> [phase : {"idle", "found", "out"}, id : Id0]]
      /\ faults \in Nat
  BY <1>1 DEF TypeOK
<1>3. ASSUME UNCHANGED <<lastId, owner>>
      PROVE  Grows
  BY <1>1, <1>3 DEF Grows, TypeOK, Id0
<1>4. ASSUME Grows,
             recover'[i] = "IN_RECOVER" => recover[i] = "IN_RECOVER",
             \A t \in WebThread : opTask[t].phase = "out" /\ opTask[t].id = i =>
               opTask'[t].phase = "out" /\ opTask'[t].id = i,
             \A m \in Msg : Range(retryQ[m]) \subseteq Range(retryQ'[m]),
             \A q \in Pending : ClosesRecovery(q, i) =>
               q \in Pending' \/ recover'[i] # "IN_RECOVER"
      PROVE  Sound(i)'
  BY <1>4, BackedFrame DEF Sound
<1>5. ASSUME UNCHANGED <<eq, eqTask>>
      PROVE  Pending' = Pending
  BY <1>5 DEF Pending, InEqTask
<1>6. ASSUME Spend(1)
      PROVE  faults' > faults
  BY <1>2, <1>6 DEF Spend
<1>7. CASE \E m \in Msg : Consume(m)
  BY <1>7, BackedConsume
<1>8. ASSUME NEW w \in EqWorker, EqDrain(w)
      PROVE  Sound(i)'
  BY <1>1, <1>3, <1>4, <1>8, PendingDrain DEF EqDrain
<1>9. ASSUME NEW w \in EqWorker, EqProcess(w)
      PROVE  Sound(i)'
  <2> DEFINE q == Head(eqTask[w])
  <2>1. q \in Pending /\ q \in Request /\ Pending \subseteq Pending' \cup {q}
    BY <1>1, <1>9, PendingTake DEF EqProcess
  <2>2. RequestIdOK(q)
    BY <1>1, <2>1 DEF IdsMatch, RequestOK
  <2>3. UNCHANGED <<retryQ, opTask>>
    BY <1>9 DEF EqProcess
  <2>4. CASE Process(q)
    <3>1. Grows
      BY <2>1, <2>2, <2>4, ProcessEffect DEF IInv
    <3>2. recover'[i] = "IN_RECOVER" => recover[i] = "IN_RECOVER" /\ ~ClosesRecovery(q, i)
      BY <1>1, <2>1, <2>4, ProcessRecovery
    <3> HIDE DEF q
    <3> QED
      BY <1>4, <2>1, <2>3, <3>1, <3>2
  <2>5. CASE (q.kind = "MSG_DIRECT_TO_RECOVER" \/ Refused(q)) /\ UNCHANGED tables
    <3>1. ~ClosesRecovery(q, i)
      BY <2>5 DEF ClosesRecovery, RecoverAnswer, Refused
    <3> HIDE DEF q
    <3> QED
      BY <1>3, <1>4, <2>1, <2>3, <2>5, <3>1
  <2> QED
    BY <1>9, <2>4, <2>5 DEF EqProcess
<1>10. ASSUME NEW w \in EqWorker, EqProcessFails(w)
       PROVE  Sound(i)' \/ (faults' > faults /\ i \in InMemory)
  <2> DEFINE q == Head(eqTask[w])
  <2>1. q \in InEqTask /\ Pending \subseteq Pending' \cup {q}
    BY <1>1, <1>10, PendingTake DEF EqProcessFails
  <2>2. UNCHANGED <<retryQ, opTask, tables>> /\ faults' > faults
    BY <1>6, <1>10 DEF EqProcessFails
  <2> HIDE DEF q
  <2>3. CASE ClosesRecovery(q, i)
    BY <2>1, <2>2, <2>3 DEF ClosesRecovery, InMemory
  <2>4. CASE ~ClosesRecovery(q, i)
    BY <1>3, <1>4, <2>1, <2>2, <2>4
  <2> QED
    BY <2>3, <2>4
<1>11. ASSUME UNCHANGED <<retryQ, eq, eqTask, lastId, owner, opTask>>,
              recover'[i] = "IN_RECOVER" => recover[i] = "IN_RECOVER"
       PROVE  Sound(i)'
  BY <1>3, <1>4, <1>5, <1>11
<1>12. CASE PollRead \/ CheckOut \/ CheckOutThrows
  BY <1>11, <1>12 DEF PollRead, CheckOut, CheckOutThrows
<1>13. ASSUME NEW w \in SendWorker, HandOff(w)
       PROVE  Sound(i)'
  BY <1>11, <1>13 DEF HandOff
<1>14. ASSUME NEW w \in SendWorker, SendCopy(w)
       PROVE  Sound(i)'
  <2> DEFINE c == [id |-> sendTask[w].id, retried |-> sendTask[w].retried,
                   fromRecover |-> FALSE]
  <2>1. c \in Copy /\ owner[c.id] \in Msg
    <3>1. HeldOK(sendTask[w])
      BY <1>1, <1>14 DEF SendCopy, IdsMatch
    <3>2. \A j \in Id : j <= lastId => owner[j] \in Msg
      BY <1>1 DEF IdsMatch, RecordOK
    <3>3. 1 .. lastId \subseteq Id /\ \A j \in 1 .. lastId : j <= lastId
      BY <1>1, ConstantsAssumption, SMTT(30) DEF TypeOK, Id, Id0, ConstantsAssumption
    <3> QED
      BY <1>1, <3>1, <3>2, <3>3 DEF HeldOK, TypeOK, Copy
  <2>2. retryQ' = [retryQ EXCEPT ![owner[c.id]] = Append(@, c)] \/ UNCHANGED retryQ
    BY <1>14 DEF SendCopy
  <2>3. UNCHANGED <<eq, tables, eqTask, opTask>>
    BY <1>14 DEF SendCopy
  <2> HIDE DEF c
  <2>4. \A x \in Msg : Range(retryQ[x]) \subseteq Range(retryQ'[x])
    BY <1>1, <2>1, <2>2, RetryQueueGrows
  <2> QED
    BY <1>3, <1>4, <1>5, <2>3, <2>4
<1>15. ASSUME NEW s \in SUBSET Id, HkRead(s)
       PROVE  Sound(i)'
  BY <1>11, <1>15 DEF HkRead
<1>16. CASE HkAcquire \/ HkAborts
  BY <1>11, <1>16 DEF HkAcquire, HkAborts
<1>17. CASE HkExecute
  BY <1>11, <1>17 DEF HkExecute, DoHouseKeep
<1>18. ASSUME NEW j \in Id, OpDelete(j)
       PROVE  Sound(i)'
  <2>1. recover'[i] = "IN_RECOVER" => recover[i] = "IN_RECOVER"
    BY <1>2, <1>18 DEF OpDelete
  <2> QED
    BY <1>11, <1>18, <2>1 DEF OpDelete
<1>19. ASSUME NEW t \in WebThread, NEW j \in Id, OpFind(t, j)
       PROVE  Sound(i)'
  <2>1. \A v \in WebThread : opTask[v].phase = "out" => opTask'[v] = opTask[v]
    BY <1>2, <1>19 DEF OpFind, NoTask
  <2> QED
    BY <1>3, <1>4, <1>5, <1>19, <2>1 DEF OpFind
<1>20. ASSUME NEW t \in WebThread, OpCheckOut(t)
       PROVE  Sound(i)'
  <2>1. /\ opTask' = [opTask EXCEPT ![t] = [opTask[t] EXCEPT !.phase = "out"]]
        /\ CheckOutRecover(opTask[t].id)
        /\ UNCHANGED <<eq, eqTask, lastId, owner, retryQ>>
    BY <1>20 DEF OpCheckOut
  <2>2. opTask[t] \in [phase : {"idle", "found", "out"}, id : Id0]
    BY <1>2
  <2>3. opTask'[t].phase = "out" /\ opTask'[t].id = opTask[t].id
    BY <1>2, <2>1, <2>2
  <2>4. CASE opTask[t].id = i
    BY <2>3, <2>4 DEF Sound, Backed
  <2>5. CASE opTask[t].id # i
    <3>1. recover'[i] = recover[i]
      BY <1>2, <2>1, <2>5 DEF CheckOutRecover
    <3>2. \A v \in WebThread \ {t} : opTask'[v] = opTask[v]
      BY <1>2, <2>1
    <3> QED
      BY <1>3, <1>4, <1>5, <2>1, <2>5, <3>1, <3>2
  <2> QED
    BY <2>4, <2>5
<1>21. ASSUME NEW t \in WebThread, OpCheckOutThrows(t)
       PROVE  Sound(i)' \/ (faults' > faults /\ i \in InMemory)
  <2>1. /\ opTask' = [opTask EXCEPT ![t] = NoTask]
        /\ CheckOutRecover(opTask[t].id) \/ UNCHANGED recover
        /\ UNCHANGED <<eq, eqTask, lastId, owner, retryQ>>
    BY <1>21 DEF OpCheckOutThrows
  <2>2. CASE opTask[t].id = i
    BY <1>6, <1>21, <2>2 DEF OpCheckOutThrows, InMemory
  <2>3. CASE opTask[t].id # i
    <3>1. recover'[i] = recover[i]
      BY <1>2, <2>1, <2>3 DEF CheckOutRecover
    <3>2. \A v \in WebThread \ {t} : opTask'[v] = opTask[v]
      BY <1>2, <2>1
    <3> QED
      BY <1>3, <1>4, <1>5, <2>1, <2>3, <3>1, <3>2
  <2> QED
    BY <2>2, <2>3
<1>22. ASSUME NEW t \in WebThread, OpSend(t)
       PROVE  Sound(i)' \/ (faults' > faults /\ i \in InMemory)
  <2> DEFINE j == opTask[t].id
             c == [id |-> j, retried |-> 0, fromRecover |-> TRUE]
  <2>1. j \in Id /\ owner[j] \in Msg
    BY <1>1, <1>22, WebTaskOK DEF OpSend
  <2>2. c \in Copy
    BY <2>1, ConstantsAssumption DEF Copy, Id, Id0, ConstantsAssumption
  <2>3. c.id = j /\ c.fromRecover /\ (j = i => i \in InMemory)
    BY SMTT(30) DEF InMemory
  <2>4. /\ opTask' = [opTask EXCEPT ![t] = NoTask]
        /\ UNCHANGED <<eq, eqTask, tables>>
        /\ \/ retryQ' = [retryQ EXCEPT ![owner[j]] = Append(@, c)]
           \/ UNCHANGED retryQ /\ Spend(1)
    BY <1>22 DEF OpSend
  <2>5. \A v \in WebThread \ {t} : opTask'[v] = opTask[v]
    BY <1>2, <2>4
  <2>6. opTask[t].id = j
    OBVIOUS
  <2> HIDE DEF j, c
  <2>7. \A x \in Msg : Range(retryQ[x]) \subseteq Range(retryQ'[x])
    BY <1>1, <2>1, <2>2, <2>4, RetryQueueGrows
  <2>8. CASE j # i
    BY <1>3, <1>4, <1>5, <2>4, <2>5, <2>6, <2>7, <2>8
  <2>9. CASE j = i /\ retryQ' = [retryQ EXCEPT ![owner[j]] = Append(@, c)]
    <3>1. retryQ[owner[j]] \in Seq(Copy) /\ retryQ \in [Msg -> Seq(Copy)]
      BY <1>1, <2>1 DEF TypeOK
    <3>2. c \in Range(Append(retryQ[owner[j]], c))
      BY <2>2, <3>1, RangeAppend
    <3>3. c \in Range(retryQ'[owner'[i]])
      BY <2>1, <2>4, <2>9, <3>1, <3>2
    <3> QED
      BY <2>3, <2>9, <3>3 DEF Sound, Backed
  <2>10. CASE j = i /\ Spend(1)
    BY <1>6, <2>3, <2>10
  <2> QED
    BY <2>4, <2>8, <2>9, <2>10
<1>23. CASE CenterCrash
  <2>1. UNCHANGED <<eq, tables, retryQ>> /\ faults' > faults
    BY <1>6, <1>23 DEF CenterCrash
  <2>2. CASE i \in InMemory
    BY <2>1, <2>2
  <2>3. CASE i \notin InMemory
    <3>1. \A t \in WebThread : opTask[t].id # i
      BY <2>3 DEF InMemory
    <3>2. \A q \in Pending : ClosesRecovery(q, i) => q \in Pending'
      BY <2>1, <2>3 DEF InMemory, Pending, ClosesRecovery
    <3> QED
      BY <1>3, <1>4, <2>1, <3>1, <3>2
  <2> QED
    BY <2>2, <2>3
<1>24. CASE UNCHANGED vars
  BY <1>11, <1>24 DEF vars
<1> QED
  BY <1>7, <1>8, <1>9, <1>10, <1>12, <1>13, <1>14, <1>15, <1>16, <1>17, <1>18, <1>19, <1>20,
     <1>21, <1>22, <1>23, <1>24 DEF Next

\* The initial state maps to the initial state of RetryContract.
LEMMA ContractInit == Init => Contract!Init
<1> SUFFICES ASSUME Init PROVE Contract!Init
  OBVIOUS
<1>1. ASSUME NEW m \in Msg
      PROVE  Status(m) \in {"retrying", "handled"}
  BY DEF Init, Status, Parked, InFlight
<1> QED
  BY <1>1 DEF Init, Contract!Init

\* The initial state satisfies the inductive invariant.
LEMMA IInvInit == Init => IInv
<1> SUFFICES ASSUME Init PROVE IInv
  OBVIOUS
<1>1. TypeOK
  BY TypeInit
<1>2. OneTable
  BY DEF Init, OneTable, Poisoned
<1>3. Pending = {}
  <2>1. Range(eq) = {}
    BY EmptyIsSeq DEF Init
  <2>2. \A w \in EqWorker : Range(eqTask[w]) = {}
    BY EmptyIsSeq DEF Init
  <2> QED
    BY <2>1, <2>2 DEF Pending, InEqTask
<1>4. \A m \in Msg : Range(retryQ[m]) = {}
  BY EmptyIsSeq DEF Init
<1>5. \A i \in Id : RecordOK(i)
  BY ConstantsAssumption DEF Init, RecordOK, Id
<1>6. /\ polled.phase = "idle"
      /\ \A w \in SendWorker : sendTask[w] = NoRecord
      /\ \A t \in WebThread : opTask[t] = NoTask
      /\ hkList \cup hkTask \subseteq 1 .. lastId
  BY DEF Init, Idle
<1> QED
  BY <1>1, <1>2, <1>3, <1>4, <1>5, <1>6 DEF IInv, IdsMatch

\* The inductive invariant holds in every reachable state.
THEOREM Inductive == Spec => []IInv
<1>1. IInv /\ [Next]_vars => IInv'
  BY TypeStep, IdsStep DEF IInv
<1> QED
  BY IInvInit, <1>1, PTL DEF Spec

\* Types: whatever the queues, the threads and the operators do, every queue
\* holds messages of its kind, and every table states of its own.
THEOREM TypeCorrect == Spec => []TypeOK
<1>1. IInv => TypeOK
  BY DEF IInv
<1> QED
  BY Inductive, <1>1, PTL

\* The two tables hold the same message id only for a queue that has been
\* redeployed from interval retries to DIRECT_TO_RECOVER; for all the others the
\* unique keys never roll back doIntervalMessageRecover or doHouseKeep.
THEOREM TablesApart == Spec => []OneTable
<1>1. IInv => OneTable
  BY DEF IInv
<1> QED
  BY Inductive, <1>1, PTL

\* Every id in use belongs to the message it is used for, and only a handled
\* message is cleaned up.
THEOREM IdsCorrect == Spec => []IdsMatch
<1>1. IInv => IdsMatch
  BY DEF IInv
<1> QED
  BY Inductive, <1>1, PTL

\* retriedTimes never passes maxRetryTimes in any queue, table or thread.
THEOREM RetriesBounded == Spec => []RetriedBounded
<1>1. IInv => RetriedBounded
  <2> SUFFICES ASSUME IInv, NEW m \in Msg
               PROVE  AllTimes(m) \subseteq Times(m)
    BY DEF RetriedBounded
  <2>1. \A c \in Range(retryQ[m]) : c.retried \in Times(m)
    BY DEF IInv, IdsMatch, CopyOK
  <2>2. \A i \in Id : owner[i] = m => retried[i] \in Times(m)
    BY ConstantsAssumption DEF IInv, IdsMatch, RecordOK
  <2>3. \A q \in Pending : q.msg = m => q.retried \in Times(m)
    BY DEF IInv, IdsMatch, RequestOK, RequestIdOK
  <2> QED
    BY <2>1, <2>2, <2>3 DEF AllTimes
<1> QED
  BY Inductive, <1>1, PTL

\* Whatever fails - replies, redeliveries, database calls, publishes, threads, the
\* whole center - a message whose handler has not succeeded is still somewhere,
\* unless an operator deleted its record, an EQ task lost it from memory, or the
\* center ignored the request of a message that has no record.
THEOREM NothingIsLost == Spec => []NothingVanishes
<1>1. Init => NothingVanishes
  BY DEF Init, NothingVanishes, InFlight
<1>2. IInv /\ NothingVanishes /\ [Next]_vars => NothingVanishes'
  <2> SUFFICES ASSUME IInv, NothingVanishes, [Next]_vars, NEW m \in Msg
               PROVE  (m \in done \/ Excused(m) \/ InFlight(m) \/ HasRecord(m))'
    BY DEF NothingVanishes
  <2>1. Accounted(m)
    BY DEF NothingVanishes, Accounted
  <2>2. Accounted(m)'
    BY <2>1, VanishStep
  <2> QED
    BY <2>2 DEF Accounted
<1> QED
  BY <1>1, <1>2, Inductive, PTL DEF Spec

\* Only a fault strands a record in recovery, and only one that hits the center
\* while the record is in the hands of a web thread, or the answer to its copy in
\* those of an EQ task: whatever the clients lose, repeat or redeliver does not.
THEOREM StrandsOnlyByFault == Spec => StrandedByFault
<1>1. ASSUME IInv, [Next]_vars
      PROVE  LET new == Stranded' \ Stranded
             IN  new # {} => faults' > faults /\ new \subseteq InMemory
  <2>1. ASSUME NEW i \in Stranded' \ Stranded
        PROVE  faults' > faults /\ i \in InMemory
    <3>1. i \in Id /\ Sound(i) /\ ~Sound(i)'
      BY <2>1 DEF Stranded, Sound
    <3> QED
      BY <1>1, <3>1, StrandedStep
  <2> QED
    BY <2>1
<1> QED
  BY <1>1, Inductive, PTL DEF Spec, StrandedByFault

\* The comments say that a negative interval, or no retry times, disables retries
\* (MessageConstants, RetryQueueConfig): of all the configurations the listeners
\* accept, only 0/0 is not retried.
THEOREM OnlyZeroZeroIsNotRetried ==
  \A interval0, times0 \in Int :
    LET cfg == NewRetryQueueConfig(interval0, times0)
    IN  ~AtOnce(cfg) /\ ~AtIntervals(cfg) /\ ~ShouldDirectToRecover(cfg)
          <=> interval0 = 0 /\ times0 = 0
<1> SUFFICES ASSUME NEW interval0 \in Int, NEW times0 \in Int
             PROVE  LET cfg == NewRetryQueueConfig(interval0, times0)
                    IN  ~AtOnce(cfg) /\ ~AtIntervals(cfg) /\ ~ShouldDirectToRecover(cfg)
                          <=> interval0 = 0 /\ times0 = 0
  OBVIOUS
<1> DEFINE cfg == NewRetryQueueConfig(interval0, times0)
<1>1. /\ cfg \in RetryQueueConfig
      /\ cfg.retryInterval = 0 <=> interval0 = 0
      /\ cfg.retryTimes = 0 <=> times0 = 0
  BY DEF NewRetryQueueConfig, Clamp, RetryQueueConfig
<1> HIDE DEF cfg
<1>2. ~AtOnce(cfg) /\ ~AtIntervals(cfg) /\ ~ShouldDirectToRecover(cfg)
        <=> interval0 = 0 /\ times0 = 0
  BY <1>1, ModeFacts DEF AtOnce, AtIntervals
<1> QED
  BY <1>2 DEF cfg

\* The system implements the contract: handled is final, a recover record leaves
\* its table only when its message is handled or an operator discards it, and
\* nothing vanishes that is not excused.
THEOREM Implements == Spec => ImplementsContract
<1>1. Init => Contract!Init
  BY ContractInit
<1>2. IInv /\ NothingVanishes /\ NothingVanishes' /\ [Next]_vars => [Contract!Next]_(Contract!vars)
  BY ContractStep
<1> QED
  BY <1>1, <1>2, Inductive, NothingIsLost, PTL DEF Spec, ImplementsContract, Contract!Spec
=============================================================================

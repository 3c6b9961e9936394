------------------------- MODULE RetryRecoveries_proofs -------------------------
(***************************************************************************)
(* Proofs about the recover table.  RecoveryNotMultiplied: for each        *)
(* message, the copies from the recover table in its retry queue and the   *)
(* requests of operators that are not carried out yet are counted; only a  *)
(* request of an operator adds to them.  And what puts a message there     *)
(* that is to be retried for ever.                                         *)
(***************************************************************************)
EXTENDS RetryLock_proofs

Recovering == {c \in Copy : c.fromRecover}

Asked(m)     == {t \in WebThread : opTask[t] # NoTask /\ owner[opTask[t].id] = m}
Unspent(m)   == Count(retryQ[m], Recovering) + Cardinality(Asked(m)) <= ops
AllUnspent   == \A m \in Msg : Unspent(m)

\* There are finitely many of them.
LEMMA AskedFinite ==
  ASSUME TypeOK, NEW m \in Msg
  PROVE  /\ IsFiniteSet(Asked(m)) /\ Cardinality(Asked(m)) \in Nat
         /\ Count(retryQ[m], Recovering) \in Nat
         /\ ops \in Nat
<1>1. IsFiniteSet(WebThread)
  BY ConstantsAssumption DEF ConstantsAssumption
<1>2. Asked(m) \subseteq WebThread
  BY DEF Asked
<1>3. IsFiniteSet(Asked(m)) /\ Cardinality(Asked(m)) \in Nat
  BY <1>1, <1>2, FS_Subset, FS_CardinalityType
<1>4. retryQ[m] \in Seq(Copy) /\ ops \in Nat
  BY ConstantsAssumption DEF TypeOK, ConstantsAssumption
<1> QED
  BY <1>3, <1>4, CountType

\* The count after a step.
LEMMA RecoveringNext ==
  ASSUME TypeOK', NEW m \in Msg
  PROVE  /\ Count(retryQ[m], Recovering)' = Count(retryQ'[m], Recovering)
         /\ Asked(m)' = {t \in WebThread : opTask'[t] # NoTask /\ owner'[opTask'[t].id] = m}
         /\ Count(retryQ'[m], Recovering) \in Nat
<1>1. retryQ'[m] \in Seq(Copy)
  BY DEF TypeOK, Copy, Id0
<1>2. Count(retryQ'[m], Recovering) \in Nat
  BY <1>1, CountType
<1> QED
  BY <1>2 DEF Count, Places, Recovering, Copy, Asked

\* A request that is being carried out is about a record.
LEMMA AskedForRecord ==
  ASSUME TypeOK, IdsMatch, NEW t \in WebThread, opTask[t] # NoTask
  PROVE  opTask[t].id \in Id /\ opTask[t].id <= lastId
BY ConstantsAssumption DEF ConstantsAssumption, TypeOK, IdsMatch, Id, Id0

\* A step that adds no copy from the recover table and takes up no request.
LEMMA UnspentFrame ==
  ASSUME TypeOK, TypeOK', NEW m \in Msg, Unspent(m), UNCHANGED ops, Asked(m)' \subseteq Asked(m),
         Count(retryQ'[m], Recovering) <= Count(retryQ[m], Recovering)
  PROVE  Unspent(m)'
<1>1. PICK r, a, o \in Nat : /\ r = Count(retryQ[m], Recovering) /\ a = Cardinality(Asked(m))
                             /\ o = ops
  BY AskedFinite
<1>2. Cardinality(Asked(m)') \in Nat /\ Cardinality(Asked(m)') <= Cardinality(Asked(m))
  BY AskedFinite, FS_Subset, FS_CardinalityType
<1>3. PICK a1 \in Nat : a1 = Cardinality(Asked(m)') /\ a1 <= a
  BY <1>1, <1>2
<1>4. r + a <= o
  BY <1>1 DEF Unspent
<1>5. PICK r1 \in Nat : r1 = Count(retryQ'[m], Recovering) /\ r1 <= r
  BY <1>1, RecoveringNext
<1> QED
  BY <1>1, <1>3, <1>4, <1>5, RecoveringNext DEF Unspent

\* A copy that joins the queue of message x.
LEMMA RecoveringJoins ==
  ASSUME TypeOK, NEW x \in Msg, NEW d \in Copy,
         retryQ' = [retryQ EXCEPT ![x] = Append(@, d)], NEW m \in Msg
  PROVE  /\ Count(retryQ'[m], Recovering) <= Count(retryQ[m], Recovering) + 1
         /\ x # m \/ ~d.fromRecover =>
              Count(retryQ'[m], Recovering) <= Count(retryQ[m], Recovering)
<1>1. retryQ \in [Msg -> Seq(Copy)] /\ retryQ[m] \in Seq(Copy)
  BY DEF TypeOK
<1>2. PICK n \in Nat : n = Count(retryQ[m], Recovering)
  BY <1>1, CountType
<1>3. CASE x = m
  <2>1. retryQ'[m] = Append(retryQ[m], d)
    BY <1>1, <1>3
  <2>2. /\ Count(Append(retryQ[m], d), Recovering) <= Count(retryQ[m], Recovering) + 1
        /\ d \notin Recovering =>
             Count(Append(retryQ[m], d), Recovering) = Count(retryQ[m], Recovering)
    BY <1>1, CountAppend
  <2>3. ~d.fromRecover => d \notin Recovering
    BY DEF Recovering
  <2> QED
    BY <1>2, <1>3, <2>1, <2>2, <2>3
<1>4. CASE x # m
  <2>1. retryQ'[m] = retryQ[m]
    BY <1>1, <1>4
  <2> QED
    BY <1>2, <2>1
<1> QED
  BY <1>3, <1>4

\* A delivery publishes no copy from the recover table.
LEMMA UnspentConsume ==
  ASSUME IInv, IInv', NEW x \in Msg, Consume(x), NEW m \in Msg, Unspent(m)
  PROVE  Unspent(m)'
<1>1. TypeOK /\ TypeOK' /\ IdsMatch
  BY DEF IInv
<1>2. UNCHANGED <<opTask, ops>>
  BY <1>1, ConsumeStep DEF operator
<1>3. PICK n \in Nat : n = Count(retryQ[m], Recovering)
  BY <1>1, AskedFinite
<1>4. \A t \in WebThread : opTask[t] # NoTask => opTask[t].id \in Id /\ opTask[t].id <= lastId
  BY <1>1, AskedForRecord
<1>5. ASSUME NEW src \in {"business", "retry"}, NEW c \in Copy, Delivered(x, src, c),
             NEW d \in Copy, ~d.fromRecover, NEW more, more = << >> \/ more = <<d>>,
             NEW j \in {0, 1}, NEW k \in {0, 1}, Handled(x, src, c, more, j, k)
      PROVE  Unspent(m)'
  <2>1. d \notin Recovering /\ Settle(x, src, more, k)
    BY <1>5 DEF Recovering, Handled
  <2>2. /\ \A y \in Msg \ {x} : retryQ'[y] = retryQ[y]
        /\ Count(retryQ'[x], Recovering) <= Count(retryQ[x], Recovering)
    BY <1>1, <1>5, <2>1, SettledQueue
  <2>3. Count(retryQ'[m], Recovering) <= Count(retryQ[m], Recovering)
    BY <1>3, <2>2
  <2>4. \A t \in WebThread : opTask[t] # NoTask => owner'[opTask[t].id] = owner[opTask[t].id]
    BY <1>1, <1>4, <1>5, HandledTables
  <2>5. Asked(m)' \subseteq Asked(m)
    BY <1>2, <2>4 DEF Asked
  <2> QED
    BY <1>1, <1>2, <2>3, <2>5, UnspentFrame
<1>6. CASE UNCHANGED <<retryQ, eq, tables>> /\ faults' = faults + 1
  <2>1. Asked(m)' \subseteq Asked(m)
    BY <1>2, <1>6 DEF Asked, tables
  <2>2. Count(retryQ'[m], Recovering) <= Count(retryQ[m], Recovering)
    BY <1>3, <1>6
  <2> QED
    BY <1>1, <1>2, <2>1, <2>2, UnspentFrame
<1>7. InitialCopy \in Copy /\ ~InitialCopy.fromRecover
  BY InitialCopyType DEF InitialCopy
<1>8. ASSUME NEW src \in {"business", "retry"}, NEW c \in Copy, NEW d \in Copy,
             NEW j \in {0, 1}, NEW k \in {0, 1}, Delivered(x, src, c),
             d.fromRecover = c.fromRecover,
             \/ Handled(x, src, c, << >>, j, k)
             \/ ~c.fromRecover /\ Handled(x, src, c, <<d>>, j, k)
      PROVE  Unspent(m)'
  <2>1. CASE Handled(x, src, c, << >>, j, k)
    BY <1>5, <1>7, <1>8, <2>1
  <2>2. CASE ~c.fromRecover /\ Handled(x, src, c, <<d>>, j, k)
    BY <1>5, <1>8, <2>2
  <2> QED
    BY <1>8, <2>1, <2>2
<1>9. CASE \E src \in {"business", "retry"}, c, d \in Copy, j, k \in {0, 1} :
              /\ Delivered(x, src, c) /\ d.id = c.id /\ d.fromRecover = c.fromRecover
              /\ \/ Handled(x, src, c, << >>, j, k)
                 \/ ~c.fromRecover /\ Handled(x, src, c, <<d>>, j, k)
  <2>1. PICK src \in {"business", "retry"}, c, d \in Copy, j, k \in {0, 1} :
              /\ Delivered(x, src, c) /\ d.id = c.id /\ d.fromRecover = c.fromRecover
              /\ \/ Handled(x, src, c, << >>, j, k)
                 \/ ~c.fromRecover /\ Handled(x, src, c, <<d>>, j, k)
    BY <1>9
  <2> QED
    BY <1>8, <2>1
<1> QED
  BY <1>1, <1>6, <1>9, ConsumeHandled

\* A request of an operator is counted, once for the thread that serves it.
LEMMA UnspentFind ==
  ASSUME IInv, IInv', NEW t \in WebThread, NEW i \in Id, OpFind(t, i), NEW m \in Msg, Unspent(m)
  PROVE  Unspent(m)'
<1>1. TypeOK /\ TypeOK'
  BY DEF IInv
<1>2. PICK r, a, o \in Nat : /\ r = Count(retryQ[m], Recovering) /\ a = Cardinality(Asked(m))
                             /\ o = ops
  BY <1>1, AskedFinite
<1>3. IsFiniteSet(Asked(m)) /\ r + a <= o
  BY <1>1, <1>2, AskedFinite DEF Unspent
<1>4. /\ retryQ' = retryQ /\ ops' = ops + 1 /\ UNCHANGED owner
      /\ \A v \in WebThread \ {t} : opTask'[v] = opTask[v]
  BY <1>1 DEF OpFind, queues, tables, TypeOK
<1>5. Asked(m)' \subseteq Asked(m) \cup {t}
  BY <1>4 DEF Asked
<1>6. /\ IsFiniteSet(Asked(m) \cup {t})
      /\ Cardinality(Asked(m) \cup {t}) =
           IF t \in Asked(m) THEN Cardinality(Asked(m)) ELSE Cardinality(Asked(m)) + 1
  BY <1>3, FS_AddElement
<1>7. /\ Cardinality(Asked(m)') <= Cardinality(Asked(m) \cup {t})
      /\ Cardinality(Asked(m)') \in Nat
  BY <1>5, <1>6, FS_Subset, FS_CardinalityType
<1>8. PICK a1 \in Nat : a1 = Cardinality(Asked(m)') /\ a1 <= a + 1
  BY <1>2, <1>6, <1>7
<1>9. ops' = o + 1 /\ Count(retryQ[m], Recovering)' = r
  BY <1>1, <1>2, <1>4, RecoveringNext
<1>10. r + a1 <= o + 1
  BY <1>3, <1>8
<1> QED
  BY <1>8, <1>9, <1>10 DEF Unspent

\* Carried out it becomes a copy, or is given up.
LEMMA UnspentSend ==
  ASSUME IInv, IInv', NEW t \in WebThread, OpSend(t), NEW m \in Msg, Unspent(m)
  PROVE  Unspent(m)'
<1>1. TypeOK /\ TypeOK' /\ IdsMatch
  BY DEF IInv
<1>2. PICK r, a, o \in Nat : /\ r = Count(retryQ[m], Recovering) /\ a = Cardinality(Asked(m))
                             /\ o = ops
  BY <1>1, AskedFinite
<1>3. IsFiniteSet(Asked(m)) /\ r + a <= o
  BY <1>1, <1>2, AskedFinite DEF Unspent
<1> DEFINE i == opTask[t].id
           d == [id |-> i, retried |-> 0, fromRecover |-> TRUE]
<1>4. i \in Id /\ owner[i] \in Msg /\ opTask[t] # NoTask
  BY <1>1, WebTaskOK, SMTT(30) DEF OpSend
<1>5. /\ opTask' = [opTask EXCEPT ![t] = NoTask] /\ UNCHANGED <<ops, owner>>
      /\ retryQ' = [retryQ EXCEPT ![owner[i]] = Append(@, d)] \/ UNCHANGED retryQ
  BY DEF OpSend, tables
<1>6. d \in Copy
  BY <1>4, ConstantsAssumption DEF Copy, Id, Id0, ConstantsAssumption
<1>7. opTask'[t] = NoTask /\ \A v \in WebThread \ {t} : opTask'[v] = opTask[v]
  BY <1>1, <1>5 DEF TypeOK
<1>8. Asked(m)' = Asked(m) \ {t} /\ (owner[i] = m => t \in Asked(m))
  BY <1>4, <1>5, <1>7 DEF Asked
<1> HIDE DEF i, d
<1>9. ASSUME Count(retryQ'[m], Recovering) <= Count(retryQ[m], Recovering)
      PROVE  Unspent(m)'
  BY <1>1, <1>5, <1>8, <1>9, UnspentFrame
<1>10. CASE UNCHANGED retryQ
  <2>1. Count(retryQ'[m], Recovering) <= Count(retryQ[m], Recovering)
    BY <1>2, <1>10
  <2> QED
    BY <1>9, <2>1
<1>11. CASE owner[i] # m /\ retryQ' = [retryQ EXCEPT ![owner[i]] = Append(@, d)]
  BY <1>1, <1>4, <1>6, <1>9, <1>11, RecoveringJoins
<1>12. CASE owner[i] = m /\ retryQ' = [retryQ EXCEPT ![owner[i]] = Append(@, d)]
  <2>1. Count(retryQ'[m], Recovering) <= Count(retryQ[m], Recovering) + 1
    BY <1>1, <1>4, <1>6, <1>12, RecoveringJoins
  <2>2. PICK r1 \in Nat : r1 = Count(retryQ'[m], Recovering) /\ r1 <= r + 1
    BY <1>1, <1>2, <2>1, RecoveringNext
  <2>3. Cardinality(Asked(m) \ {t}) = Cardinality(Asked(m)) - 1
    BY <1>3, <1>8, <1>12, FS_RemoveElement
  <2>4. Cardinality(Asked(m) \ {t}) \in Nat
    BY <1>3, FS_RemoveElement, FS_CardinalityType
  <2>5. PICK a1 \in Nat : a1 = Cardinality(Asked(m) \ {t}) /\ a1 = a - 1
    BY <1>2, <2>3, <2>4
  <2>6. r1 + a1 <= o
    BY <1>3, <2>2, <2>5
  <2>7. Count(retryQ[m], Recovering)' = r1 /\ Cardinality(Asked(m)') = a1 /\ ops' = o
    BY <1>1, <1>2, <1>5, <1>8, <2>2, <2>5, RecoveringNext
  <2> QED
    BY <2>6, <2>7 DEF Unspent
<1> QED
  BY <1>5, <1>10, <1>11, <1>12

\* No step exceeds the requests.
LEMMA UnspentStep == IInv /\ IInv' /\ AllUnspent /\ [Next]_vars => AllUnspent'
<1> SUFFICES ASSUME IInv, IInv', AllUnspent, [Next]_vars, NEW m \in Msg
             PROVE  Unspent(m)'
  BY DEF AllUnspent
<1> USE DEF queues, tables, operator
<1>1. TypeOK /\ TypeOK' /\ IdsMatch /\ Unspent(m)
  BY DEF IInv, AllUnspent
<1>16. ASSUME UNCHANGED <<retryQ, ops>>, Asked(m)' \subseteq Asked(m)
      PROVE  Unspent(m)'
  <2>1. PICK n \in Nat : n = Count(retryQ[m], Recovering)
    BY <1>1, AskedFinite
  <2>2. Count(retryQ'[m], Recovering) <= Count(retryQ[m], Recovering)
    BY <1>16, <2>1
  <2> QED
    BY <1>16, <1>1, <2>2, UnspentFrame
<1>2. ASSUME UNCHANGED <<retryQ, owner, ops, opTask>>
      PROVE  Unspent(m)'
  <2>1. Asked(m)' \subseteq Asked(m)
    BY <1>2 DEF Asked
  <2> QED
    BY <1>16, <1>2, <2>1
<1>3. ASSUME NEW x \in Msg, Consume(x)
      PROVE  Unspent(m)'
  BY <1>1, <1>3, UnspentConsume
<1>4. ASSUME NEW w \in EqWorker, EqDrain(w) \/ EqProcessFails(w)
      PROVE  Unspent(m)'
  BY <1>2, <1>4 DEF EqDrain, EqProcessFails
<1>5. ASSUME NEW w \in EqWorker, EqProcess(w)
      PROVE  Unspent(m)'
  <2>1. /\ UNCHANGED <<retryQ, ops, opTask>> /\ eqTask[w] # << >>
        /\ eqTask' = [eqTask EXCEPT ![w] = Tail(@)] /\ UNCHANGED eq
        /\ UNCHANGED tables \/ Process(Head(eqTask[w]))
    BY <1>5 DEF EqProcess
  <2>2. Head(eqTask[w]) \in Request
    BY <1>1, <2>1, PendingTake
  <2>3. \A t \in WebThread : opTask[t] # NoTask => opTask[t].id \in Id /\ opTask[t].id <= lastId
    BY <1>1, AskedForRecord
  <2>4. \A t \in WebThread : opTask[t] # NoTask => owner'[opTask[t].id] = owner[opTask[t].id]
    <3>1. CASE UNCHANGED tables
      BY <3>1
    <3>2. CASE Process(Head(eqTask[w]))
      BY <1>1, <2>2, <2>3, <3>2, ProcessInterval
    <3> QED
      BY <2>1, <3>1, <3>2
  <2>5. Asked(m)' \subseteq Asked(m)
    BY <2>1, <2>4 DEF Asked
  <2>6. PICK n \in Nat : n = Count(retryQ[m], Recovering)
    BY <1>1, AskedFinite
  <2>7. Count(retryQ'[m], Recovering) <= Count(retryQ[m], Recovering)
    BY <2>1, <2>6
  <2> QED
    BY <1>1, <2>1, <2>5, <2>7, UnspentFrame
<1>6. CASE PollRead \/ CheckOut \/ CheckOutThrows
  BY <1>2, <1>6 DEF PollRead, CheckOut, CheckOutThrows
<1>7. ASSUME NEW w \in SendWorker, HandOff(w)
      PROVE  Unspent(m)'
  BY <1>2, <1>7 DEF HandOff
<1>8. ASSUME NEW w \in SendWorker, SendCopy(w)
      PROVE  Unspent(m)'
  <2> DEFINE d == [id |-> sendTask[w].id, retried |-> sendTask[w].retried, fromRecover |-> FALSE]
             x == owner[sendTask[w].id]
  <2>1. /\ UNCHANGED <<owner, ops, opTask>>
        /\ sendTask[w] # NoRecord
        /\ retryQ' = [retryQ EXCEPT ![x] = Append(@, d)] \/ UNCHANGED retryQ
    BY <1>8 DEF SendCopy
  <2>2. sendTask[w] \in [id : Id0, retried : Nat]
    BY <1>1, SendersType
  <2>3. d \in Copy /\ ~d.fromRecover
    BY <2>2 DEF Copy
  <2>4. x \in Msg
    <3>1. HeldOK(sendTask[w]) /\ lastId \in Id0
      BY <1>1, <2>1 DEF IdsMatch, TypeOK
    <3>2. sendTask[w].id \in Id /\ sendTask[w].id <= lastId
      BY <3>1, ConstantsAssumption DEF ConstantsAssumption, HeldOK, Id, Id0
    <3> QED
      BY <1>1, <3>2 DEF IdsMatch, RecordOK
  <2> HIDE DEF d, x
  <2>5. CASE UNCHANGED retryQ
    BY <1>2, <2>1, <2>5
  <2>6. CASE retryQ' = [retryQ EXCEPT ![x] = Append(@, d)]
    <3>1. Count(retryQ'[m], Recovering) <= Count(retryQ[m], Recovering)
      BY <1>1, <2>3, <2>4, <2>6, RecoveringJoins
    <3>2. Asked(m)' \subseteq Asked(m)
      BY <2>1 DEF Asked
    <3> QED
      BY <1>1, <2>1, <3>1, <3>2, UnspentFrame
  <2> QED
    BY <2>1, <2>5, <2>6, SMTT(30)
<1>9. ASSUME NEW s \in SUBSET Id, HkRead(s)
      PROVE  Unspent(m)'
  BY <1>2, <1>9 DEF HkRead
<1>10. CASE HkAcquire \/ HkExecute \/ HkAborts
  BY <1>2, <1>10 DEF HkAcquire, HkExecute, HkAborts, DoHouseKeep
<1>11. ASSUME NEW t \in WebThread, (\E i \in Id : OpFind(t, i)) \/ OpSend(t)
       PROVE  Unspent(m)'
  BY <1>1, <1>11, UnspentFind, UnspentSend
<1>15. ASSUME NEW t \in WebThread, OpCheckOut(t) \/ OpCheckOutThrows(t)
       PROVE  Unspent(m)'
  <2>1. \A v \in WebThread : \/ opTask'[v] = opTask[v] \/ opTask'[v] = NoTask
                             \/ opTask[v] # NoTask /\ opTask'[v].id = opTask[v].id
    BY <1>1, <1>15, CheckOutTasks
  <2>2. UNCHANGED <<retryQ, owner, ops>>
    BY <1>15 DEF OpCheckOut, OpCheckOutThrows
  <2>3. Asked(m)' \subseteq Asked(m)
    BY <2>1, <2>2 DEF Asked
  <2> QED
    BY <1>16, <2>2, <2>3
<1>12. ASSUME NEW i \in Id, OpDelete(i)
       PROVE  Unspent(m)'
  BY <1>2, <1>12 DEF OpDelete
<1>13. CASE CenterCrash
  <2>1. UNCHANGED <<retryQ, owner, ops>> /\ \A t \in WebThread : opTask'[t] = NoTask
    BY <1>13 DEF CenterCrash
  <2>2. Asked(m)' \subseteq Asked(m)
    BY <2>1 DEF Asked
  <2> QED
    BY <1>16, <2>1, <2>2
<1>14. CASE UNCHANGED vars
  BY <1>2, <1>14 DEF vars
<1> QED
  BY <1>3, <1>4, <1>5, <1>6, <1>7, <1>8, <1>9, <1>10, <1>11, <1>12, <1>13, <1>14,
     <1>15 DEF Next

\* Nothing is asked and nothing is in a retry queue at first.
LEMMA UnspentInit == Init => AllUnspent
<1> SUFFICES ASSUME Init, NEW m \in Msg
             PROVE  Unspent(m)
  BY DEF AllUnspent
<1>1. Places(retryQ[m], Recovering) = {} /\ Asked(m) = {}
  BY EmptySeq DEF Init, Places, Asked
<1>2. ops = 0
  BY DEF Init
<1> QED
  BY <1>1, <1>2, FS_EmptySet DEF Unspent, Count

\* The counts are those of RecoveryNotMultiplied.
LEMMA UnspentMeans == TypeOK /\ AllUnspent => RecoveryNotMultiplied
<1> SUFFICES ASSUME TypeOK, AllUnspent, NEW m \in Msg
             PROVE  Cardinality({k \in DOMAIN retryQ[m] : retryQ[m][k].fromRecover})
                      + Cardinality({t \in WebThread :
                                       opTask[t] # NoTask /\ owner[opTask[t].id] = m}) <= ops
  BY DEF RecoveryNotMultiplied
<1>1. retryQ[m] \in Seq(Copy)
  BY DEF TypeOK
<1>2. DOMAIN retryQ[m] = 1 .. Len(retryQ[m]) /\ \A k \in 1 .. Len(retryQ[m]) : retryQ[m][k] \in Copy
  BY <1>1, LenProperties, ElementOfSeq
<1>3. {k \in DOMAIN retryQ[m] : retryQ[m][k].fromRecover} = Places(retryQ[m], Recovering)
  BY <1>2 DEF Places, Recovering
<1> QED
  BY <1>3 DEF AllUnspent, Unspent, Count, Asked

\* There are never more copies from the recover table than operators have asked
\* for.
THEOREM RecoveriesCounted == Spec => []RecoveryNotMultiplied
<1>1. Init => IInv
  BY IInvInit
<1>2. Spec => []IInv
  BY Inductive
<1>3. IInv => TypeOK
  BY DEF IInv
<1> QED
  BY <1>1, <1>2, <1>3, UnspentInit, UnspentStep, UnspentMeans, PTL DEF Spec

\* One copy at most is one copy of a record at most.
LEMMA OneRequestLocks == TypeOK /\ RecoveryNotMultiplied /\ ops <= 1 => RecoverLock
<1> SUFFICES ASSUME TypeOK, RecoveryNotMultiplied, ops <= 1, NEW m \in Msg,
                    NEW k1 \in DOMAIN retryQ[m], NEW k2 \in DOMAIN retryQ[m],
                    retryQ[m][k1].fromRecover, retryQ[m][k2].fromRecover
             PROVE  k1 = k2
  BY DEF RecoverLock
<1> DEFINE K == {k \in DOMAIN retryQ[m] : retryQ[m][k].fromRecover}
<1>1. IsFiniteSet(K) /\ Cardinality(K) \in Nat
  <2>1. retryQ[m] \in Seq(Copy)
    BY DEF TypeOK
  <2>2. DOMAIN retryQ[m] = 1 .. Len(retryQ[m]) /\ Len(retryQ[m]) \in Nat
    BY <2>1, LenProperties
  <2>3. IsFiniteSet(1 .. Len(retryQ[m]))
    BY <2>2, FS_Interval
  <2>4. IsFiniteSet(DOMAIN retryQ[m])
    BY <2>2, <2>3
  <2> QED
    BY <2>4, FS_Subset, FS_CardinalityType
<1>2. Cardinality(K) + Cardinality(Asked(m)) <= ops
  BY DEF RecoveryNotMultiplied, Asked
<1>3. PICK k, a, o \in Nat : k = Cardinality(K) /\ a = Cardinality(Asked(m)) /\ o = ops
  BY <1>1, AskedFinite
<1>4. k1 \in K /\ k2 \in K
  OBVIOUS
<1> HIDE DEF K
<1>5. k <= 1
  BY <1>2, <1>3
<1>6. ASSUME k1 # k2
      PROVE  FALSE
  <2>1. {k1, k2} \subseteq K /\ Cardinality({k1, k2}) = 2
    <3>1. IsFiniteSet({k1}) /\ Cardinality({k1}) = 1
      BY FS_Singleton
    <3>2. Cardinality({k1} \cup {k2}) = 2
      <4>1. Cardinality({k1} \cup {k2}) = IF k2 \in {k1} THEN Cardinality({k1})
                                                        ELSE Cardinality({k1}) + 1
        BY <3>1, FS_AddElement
      <4> QED
        BY <1>6, <3>1, <4>1
    <3>3. {k1} \cup {k2} = {k1, k2}
      OBVIOUS
    <3> QED
      BY <1>4, <3>2, <3>3
  <2>2. Cardinality({k1, k2}) <= Cardinality(K)
    BY <1>1, <2>1, FS_Subset
  <2> QED
    BY <1>3, <1>5, <2>1, <2>2
<1> QED
  BY <1>6

\* The check-out of a recover record (RecoverDAO.checkOutRecover) is the lock its
\* comment speaks of as long as operators have made one request: it takes a second
\* one to break RecoverLock, a fault does not suffice.
THEOREM SecondRequestUnlocks == Spec => [](ops <= 1 => RecoverLock)
<1>1. Spec => []IInv
  BY Inductive
<1>2. IInv => TypeOK
  BY DEF IInv
<1>3. TypeOK /\ RecoveryNotMultiplied => (ops <= 1 => RecoverLock)
  BY OneRequestLocks
<1> QED
  BY <1>1, <1>2, <1>3, RecoveriesCounted, PTL

-----------------------------------------------------------------------------
(***************************************************************************)
(* Messages to be retried for ever.                                        *)
(***************************************************************************)

\* The message has been retried often enough, or is not to be retried at all.
GivesUpOn(q) ==
  q.kind \in {"INTERVAL_MSG_DO_RECOVER", "IMMEDIATE_MSG_DO_RECOVER", "MSG_DIRECT_TO_RECOVER"}

NotGivenUp(q) == q.msg \in Endless => ~GivesUpOn(q)
NoneGivenUp   == \A q \in Pending : NotGivenUp(q)

\* A client never gives up a message to be retried for ever: the maximum of -1
\* is no maximum.
LEMMA EndlessSends ==
  ASSUME NEW x \in Endless, NEW src, NEW c \in Copy, NEW q, Sends(x, src, c, q)
  PROVE  ~GivesUpOn(q)
<1>1. \A cfg \in Configs[x] : ~ShouldDirectToRecover(cfg) /\ ~HasReachedMax(cfg, src, c)
  <2> TAKE cfg \in Configs[x]
  <2>1. cfg \in RetryQueueConfig /\ IsInfinite(cfg)
    BY ConfigsOK DEF Endless
  <2>2. cfg.retryTimes = -1 /\ cfg.retryInterval >= 0
    BY <2>1, ModeFacts
  <2>3. ~ShouldDirectToRecover(cfg)
    BY <2>1, <2>2, ModeFacts
  <2> QED
    BY <2>2, <2>3 DEF HasReachedMax
<1> QED
  BY <1>1 DEF Sends, RequestFor, GivesUpOn

\* Only a request that gives a message up makes a recover record, and makes it
\* for that message.
LEMMA OnlyGivingUpParks ==
  ASSUME IInv, NEW q \in Request, RequestIdOK(q), Process(q),
         NEW i \in Id, recover[i] = "NONE", recover'[i] # "NONE"
  PROVE  GivesUpOn(q) /\ owner'[i] = q.msg
<1>1. /\ recover \in [Id -> {"NONE", "TO_RECOVER", "IN_RECOVER"}]
      /\ owner \in [Id -> Msg \cup {NoMsg}]
      /\ q.id # 0 => RefersTo(q.id, q.msg)
  BY DEF IInv, TypeOK, RequestIdOK
<1>0. q.id > 0 => q.id \in Id /\ owner[q.id] = q.msg
  <2>1. q.id \in 0 .. MaxId /\ MaxId \in Nat
    BY ConstantsAssumption DEF ConstantsAssumption, Request, Id0
  <2>2. PICK n \in 0 .. MaxId : n = q.id
    BY <2>1
  <2>3. n > 0 => n # 0 /\ n \in Id
    BY <2>1, <2>2 DEF Id
  <2> QED
    BY <1>1, <2>2, <2>3 DEF RefersTo
<1>2. CASE q.kind = "CLEAN_RECOVER" /\ CleanRecover(q)
  BY <1>1, <1>2 DEF CleanRecover
<1>3. CASE q.kind = "RESEND_FOR_RECOVER" /\ ResendForRecover(q)
  BY <1>1, <1>3 DEF ResendForRecover
<1>4. CASE UNCHANGED recover
  BY <1>4
<1>5. CASE q.kind = "INTERVAL_MSG_DO_RECOVER" /\ DoIntervalMessageRecover(q)
  <2>1. i = q.id /\ q.id > 0 /\ UNCHANGED owner
    BY <1>1, <1>5 DEF DoIntervalMessageRecover
  <2> QED
    BY <1>0, <1>5, <2>1 DEF GivesUpOn
<1>6. CASE GivesUpOn(q) /\ AddRecover(q)
  <2>1. i = lastId + 1
    BY <1>1, <1>6 DEF AddRecover
  <2>2. owner' = [owner EXCEPT ![lastId + 1] = q.msg]
    BY <1>6 DEF AddRecover, FreshId
  <2> QED
    BY <1>1, <1>6, <2>1, <2>2
<1>7. CASE /\ q.kind = "MSG_DIRECT_TO_RECOVER" /\ q.id > 0
           /\ recover' = [recover EXCEPT ![q.id] = "TO_RECOVER"] /\ UNCHANGED owner
  <2>1. i = q.id
    BY <1>1, <1>7
  <2> QED
    BY <1>0, <1>7, <2>1 DEF GivesUpOn
<1> QED
  BY <1>2, <1>3, <1>4, <1>5, <1>6, <1>7 DEF Process, CleanIntervalRetry,
     DoIntervalMessageRetry, AddIntervalRetry, CheckinIntervalRetry,
     DoMessageDirectToRecover, GivesUpOn

\* A request that does not give up its message parks no message retried for ever.
LEMMA ProcessKeepsRetrying ==
  ASSUME IInv, NEW q \in Request, RequestIdOK(q), Process(q), NotGivenUp(q),
         NEW i \in Id, recover[i] = "NONE", recover'[i] # "NONE", owner'[i] \in Endless
  PROVE  FALSE
BY OnlyGivingUpParks DEF NotGivenUp

\* A step of another than house keeping parks none of them, and house keeping
\* only what it was given.
LEMMA KeepsRetrying ==
  ASSUME IInv, NoneGivenUp, [Next]_vars
  PROVE  /\ NoneGivenUp'
         /\ \A i \in Id : recover[i] = "NONE" /\ recover'[i] # "NONE" /\ owner'[i] \in Endless
                          => i \in hkTask
<1> USE DEF queues, tables, poller, keeper, operator, history
<1>1. TypeOK /\ IdsMatch /\ OneTable
  BY DEF IInv
<1>2. recover \in [Id -> {"NONE", "TO_RECOVER", "IN_RECOVER"}]
  BY <1>1 DEF TypeOK
<1> DEFINE Keeps == \A i \in Id : recover[i] = "NONE" /\ recover'[i] # "NONE" /\ owner'[i] \in Endless
                                   => i \in hkTask
<1>3. ASSUME \A i \in Id : recover'[i] # "NONE" => recover[i] # "NONE"
      PROVE  Keeps
  BY <1>3
<1>4. ASSUME Pending' \subseteq Pending
      PROVE  NoneGivenUp'
  BY <1>4 DEF NoneGivenUp, NotGivenUp, GivesUpOn
<1>5. ASSUME UNCHANGED <<eq, eqTask>>
      PROVE  NoneGivenUp'
  BY <1>4, <1>5 DEF Pending, InEqTask
<1>6. ASSUME NEW m \in Msg, Consume(m)
      PROVE  NoneGivenUp' /\ Keeps
  <2>1. PICK src \in {"business", "retry"}, c \in Copy :
          /\ Delivered(m, src, c)
          /\ Calls(m, src, c) \/ Republishes(m, src, c) \/ Finishes(m, src, c)
    BY <1>1, <1>6, ConsumeStep
  <2>2. UNCHANGED eqTask
    BY <1>1, <1>6, ConsumeStep
  <2>3. CASE UNCHANGED <<eq, tables>>
    BY <1>3, <1>5, <2>2, <2>3
  <2>4. CASE Calls(m, src, c)
    <3>1. PICK q, n, k : /\ Sends(m, src, c, q)
                         /\ n \in {0, 1} /\ Submit(q, n)
                         /\ k \in {0, 1} /\ Settle(m, src, << >>, k)
      BY <2>4 DEF Calls
    <3>2. q \in Request /\ q.msg = m
      BY <3>1, SendsRequest
    <3>3. RequestIdOK(q)
      BY <1>1, <2>1, <3>1, SendsOK
    <3>4. NotGivenUp(q)
      BY <3>1, <3>2, EndlessSends DEF NotGivenUp
    <3>5. /\ Range(eq') \subseteq Range(eq) \cup {q}
          /\ Process(q) \/ UNCHANGED tables
      BY <1>1, <3>1, <3>2, SubmitEffect
    <3>6. Pending' \subseteq Pending \cup {q}
      BY <2>2, <3>5 DEF Pending, InEqTask
    <3>7. NoneGivenUp'
      BY <3>4, <3>6 DEF NoneGivenUp, NotGivenUp, GivesUpOn
    <3>8. CASE UNCHANGED tables
      BY <1>3, <3>7, <3>8
    <3>9. CASE Process(q)
      BY <3>2, <3>3, <3>4, <3>7, <3>9, ProcessKeepsRetrying
    <3> QED
      BY <3>5, <3>8, <3>9
  <2> QED
    BY <2>1, <2>3, <2>4 DEF Republishes, Finishes
<1>7. ASSUME NEW w \in EqWorker, EqProcess(w)
      PROVE  NoneGivenUp' /\ Keeps
  <2> DEFINE q == Head(eqTask[w])
  <2>1. q \in Pending /\ q \in Request /\ Pending' \subseteq Pending
    BY <1>1, <1>7, PendingTake DEF EqProcess
  <2>2. RequestIdOK(q) /\ NotGivenUp(q)
    BY <1>1, <2>1 DEF IdsMatch, RequestOK, NoneGivenUp
  <2>3. Process(q) \/ UNCHANGED tables
    BY <1>7 DEF EqProcess
  <2> HIDE DEF q
  <2>4. NoneGivenUp'
    BY <1>4, <2>1
  <2>5. CASE UNCHANGED tables
    BY <1>3, <2>4, <2>5
  <2>6. CASE Process(q)
    BY <2>1, <2>2, <2>4, <2>6, ProcessKeepsRetrying
  <2> QED
    BY <2>3, <2>5, <2>6
<1>8. ASSUME NEW w \in EqWorker, EqDrain(w)
      PROVE  NoneGivenUp' /\ Keeps
  BY <1>1, <1>3, <1>4, <1>8, PendingDrain DEF EqDrain
<1>9. ASSUME NEW w \in EqWorker, EqProcessFails(w)
      PROVE  NoneGivenUp' /\ Keeps
  BY <1>1, <1>3, <1>4, <1>9, PendingTake DEF EqProcessFails
<1>10. CASE PollRead \/ CheckOut \/ CheckOutThrows
  BY <1>3, <1>5, <1>10 DEF PollRead, CheckOut, CheckOutThrows
<1>11. ASSUME NEW w \in SendWorker, HandOff(w) \/ SendCopy(w)
       PROVE  NoneGivenUp' /\ Keeps
  BY <1>3, <1>5, <1>11 DEF HandOff, SendCopy
<1>12. ASSUME NEW s \in SUBSET Id, HkRead(s)
       PROVE  NoneGivenUp' /\ Keeps
  BY <1>3, <1>5, <1>12 DEF HkRead
<1>13. CASE HkAcquire \/ HkAborts
  BY <1>3, <1>5, <1>13 DEF HkAcquire, HkAborts
<1>14. CASE HkExecute
  <2>1. NoneGivenUp'
    BY <1>5, <1>14 DEF HkExecute, DoHouseKeep
  <2>2. CASE UNCHANGED tables
    BY <1>3, <2>1, <2>2
  <2>3. CASE DoHouseKeep
    <3>1. \A i \in Id : recover'[i] # "NONE" => recover[i] # "NONE" \/ i \in hkTask
      BY <2>3 DEF DoHouseKeep
    <3> QED
      BY <2>1, <3>1
  <2> QED
    BY <1>14, <2>2, <2>3 DEF HkExecute
<1>15. ASSUME NEW t \in WebThread,
              (\E i \in Id : OpFind(t, i)) \/ OpCheckOut(t) \/ OpCheckOutThrows(t) \/ OpSend(t)
       PROVE  NoneGivenUp' /\ Keeps
  BY <1>2, <1>3, <1>5, <1>15 DEF OpFind, OpCheckOut, OpCheckOutThrows, CheckOutRecover, OpSend
<1>18. ASSUME NEW i \in Id, OpDelete(i)
       PROVE  NoneGivenUp' /\ Keeps
  BY <1>2, <1>3, <1>5, <1>18 DEF OpDelete
<1>16. CASE CenterCrash
  <2>1. Pending' \subseteq Pending
    <3>1. \A w \in EqWorker : Range(eqTask'[w]) = {}
      BY <1>16, EmptyIsSeq DEF CenterCrash
    <3> QED
      BY <1>16, <3>1 DEF CenterCrash, Pending, InEqTask
  <2> QED
    BY <1>3, <1>4, <1>16, <2>1 DEF CenterCrash
<1>17. CASE UNCHANGED vars
  BY <1>3, <1>5, <1>17 DEF vars
<1> QED
  BY <1>6, <1>7, <1>8, <1>9, <1>10, <1>11, <1>12, <1>13, <1>14, <1>15, <1>16, <1>17,
     <1>18 DEF Next

\* A message to be retried for ever gets into the recover table by house keeping
\* only: no client gives it up, no late request does, and no redeployment from one
\* infinite mode to the other makes them.
THEOREM OnlyTheKeeperParks == Spec => InfiniteParkedByKeeper
<1>1. Init => NoneGivenUp
  BY EmptyIsSeq DEF Init, NoneGivenUp, Pending, InEqTask
<1>2. IInv /\ NoneGivenUp /\ [Next]_vars => NoneGivenUp'
  BY KeepsRetrying
<1>3. IInv /\ NoneGivenUp /\ [Next]_vars =>
        [\A i \in Id : recover[i] = "NONE" /\ recover'[i] # "NONE" /\ owner'[i] \in Endless
                       => i \in hkTask]_vars
  BY KeepsRetrying
<1> QED
  BY <1>1, <1>2, <1>3, Inductive, PTL DEF Spec, InfiniteParkedByKeeper
=============================================================================

--------------------------- MODULE RetryLock_proofs ---------------------------
(***************************************************************************)
(* The proof of IntervalLock: the places that hold a record are counted,   *)
(* and a step adds no more of them than it spends on faults.               *)
(***************************************************************************)
EXTENDS RetryCenter_proofs, FiniteSetTheorems

-----------------------------------------------------------------------------
(* Counting. *)

\* What can be mapped one to one into a finite set is finite and no larger.
LEMMA NoLarger ==
  ASSUME NEW S, NEW T, IsFiniteSet(T), NEW f \in [S -> T],
         \A x, y \in S : f[x] = f[y] => x = y
  PROVE  IsFiniteSet(S) /\ Cardinality(S) \in Nat /\ Cardinality(S) <= Cardinality(T)
<1>1. f \in Injection(S, T)
  BY DEF Injection, IsInjective
<1> QED
  BY <1>1, FS_Injection, FS_CardinalityType

\* Two disjoint sets are counted apart.
LEMMA CountApart ==
  ASSUME NEW S, NEW T, IsFiniteSet(S), IsFiniteSet(T), S \cap T = {}
  PROVE  /\ IsFiniteSet(S \cup T)
         /\ Cardinality(S) \in Nat /\ Cardinality(T) \in Nat
         /\ Cardinality(S \cup T) = Cardinality(S) + Cardinality(T)
<1>1. Cardinality(S \cap T) = 0
  BY FS_EmptySet
<1>2. Cardinality(S) \in Nat /\ Cardinality(T) \in Nat
  BY FS_CardinalityType
<1>3. /\ IsFiniteSet(S \cup T)
      /\ Cardinality(S \cup T) = Cardinality(S) + Cardinality(T) - Cardinality(S \cap T)
  BY FS_Union
<1> QED
  BY <1>1, <1>2, <1>3

\* The places of s that hold an element of A, and their number.
Places(s, A) == {k \in 1 .. Len(s) : s[k] \in A}
Count(s, A)  == Cardinality(Places(s, A))

\* They are counted by natural numbers.
LEMMA CountType ==
  ASSUME NEW S, NEW s \in Seq(S), NEW A
  PROVE  IsFiniteSet(Places(s, A)) /\ Count(s, A) \in Nat
<1>1. IsFiniteSet(1 .. Len(s))
  BY LenProperties, FS_Interval
<1> QED
  BY <1>1, FS_Subset, FS_CardinalityType DEF Places, Count

\* Append adds a place, if the new element counts.
LEMMA CountAppend ==
  ASSUME NEW S, NEW s \in Seq(S), NEW e \in S, NEW A
  PROVE  /\ Count(Append(s, e), A) <= Count(s, A) + 1
         /\ e \notin A => Count(Append(s, e), A) = Count(s, A)
<1>1. /\ Len(Append(s, e)) = Len(s) + 1
      /\ \A i \in 1 .. Len(s) : Append(s, e)[i] = s[i]
      /\ Append(s, e)[Len(s) + 1] = e
      /\ Len(s) \in Nat
  BY AppendProperties, LenProperties
<1>2. ASSUME NEW k \in 1 .. Len(s) + 1
      PROVE  \/ k \in 1 .. Len(s) /\ Append(s, e)[k] = s[k]
             \/ k = Len(s) + 1 /\ Append(s, e)[k] = e
  BY <1>1
<1>3. Places(s, A) \subseteq Places(Append(s, e), A)
  BY <1>1 DEF Places
<1>4. Places(Append(s, e), A) \subseteq Places(s, A) \cup {Len(s) + 1}
  BY <1>1, <1>2 DEF Places
<1>5. e \notin A => Places(Append(s, e), A) = Places(s, A)
  BY <1>1, <1>2 DEF Places
<1>6. IsFiniteSet(Places(s, A)) /\ Count(s, A) \in Nat
  BY CountType
<1>7. /\ IsFiniteSet(Places(s, A) \cup {Len(s) + 1})
      /\ Cardinality(Places(s, A) \cup {Len(s) + 1}) =
           IF Len(s) + 1 \in Places(s, A) THEN Cardinality(Places(s, A))
                                          ELSE Cardinality(Places(s, A)) + 1
  BY <1>6, FS_AddElement
<1>8. /\ Cardinality(Places(Append(s, e), A)) <= Cardinality(Places(s, A) \cup {Len(s) + 1})
      /\ Cardinality(Places(Append(s, e), A)) \in Nat
  BY <1>4, <1>7, FS_Subset, FS_CardinalityType
<1> QED
  BY <1>5, <1>6, <1>7, <1>8 DEF Count

\* Tail takes the first place away.
LEMMA CountTail ==
  ASSUME NEW S, NEW s \in Seq(S), s # << >>, NEW A
  PROVE  /\ Count(Tail(s), A) <= Count(s, A)
         /\ Head(s) \in A => Count(Tail(s), A) + 1 <= Count(s, A)
<1> DEFINE P == Places(s, A)
           Q == Places(Tail(s), A)
           f == [k \in Q |-> k + 1]
<1>1. /\ Len(Tail(s)) = Len(s) - 1
      /\ \A i \in 1 .. Len(Tail(s)) : Tail(s)[i] = s[i + 1]
  BY HeadTailProperties
<1>2. Len(s) \in Nat \ {0} /\ Head(s) = s[1] /\ 1 \in 1 .. Len(s)
  BY EmptySeq
<1>3. \A k \in Q : k \in Nat /\ k + 1 \in P /\ k + 1 # 1
  BY <1>1, <1>2 DEF Places
<1>4. f \in [Q -> P \ {1}] /\ \A x, y \in Q : f[x] = f[y] => x = y
  BY <1>3
<1>5. IsFiniteSet(P) /\ Cardinality(P) \in Nat
  BY CountType DEF Count
<1>6. Head(s) \in A => 1 \in P
  BY <1>2 DEF Places
<1> HIDE DEF P, Q, f
<1>7. /\ IsFiniteSet(P \ {1})
      /\ Cardinality(P \ {1}) = IF 1 \in P THEN Cardinality(P) - 1 ELSE Cardinality(P)
  BY <1>5, FS_RemoveElement
<1>8. Cardinality(Q) \in Nat /\ Cardinality(Q) <= Cardinality(P \ {1})
  BY <1>4, <1>7, NoLarger
<1> QED
  BY <1>5, <1>6, <1>7, <1>8 DEF Count, P, Q

\* Cutting a sequence in two leaves each place on one side.
LEMMA CountCut ==
  ASSUME NEW S, NEW s \in Seq(S), NEW n \in 1 .. Len(s), NEW A
  PROVE  Count(SubSeq(s, 1, n), A) + Count(SubSeq(s, n + 1, Len(s)), A) <= Count(s, A)
<1> DEFINE a == SubSeq(s, 1, n)
           b == SubSeq(s, n + 1, Len(s))
           P == Places(s, A)
           L == P \cap (1 .. n)
           R == P \ (1 .. n)
           f == [k \in Places(a, A) |-> k]
           g == [k \in Places(b, A) |-> n + k]
<1>1. Len(s) \in Nat /\ n \in Nat /\ n <= Len(s)
  BY LenProperties
<1>2. \A i \in 1 .. Len(s) : s[i] \in S
  BY ElementOfSeq
<1>3. /\ Len(a) = n
      /\ \A i \in 1 .. n : a[i] = s[i]
  <2>1. /\ Len(a) = IF 1 <= n THEN n - 1 + 1 ELSE 0
        /\ \A i \in 1 .. n - 1 + 1 : a[i] = s[1 + i - 1]
    BY <1>1, <1>2, SubSeqProperties
  <2> QED
    BY <1>1, <2>1
<1>4. /\ Len(b) = Len(s) - n
      /\ \A i \in 1 .. Len(s) - n : b[i] = s[n + i]
  <2>1. /\ Len(b) = IF n + 1 <= Len(s) THEN Len(s) - (n + 1) + 1 ELSE 0
        /\ \A i \in 1 .. Len(s) - (n + 1) + 1 : b[i] = s[n + 1 + i - 1]
    BY <1>1, <1>2, SubSeqProperties
  <2> QED
    BY <1>1, <2>1
<1> HIDE DEF a, b
<1>5. f \in [Places(a, A) -> L] /\ \A x, y \in Places(a, A) : f[x] = f[y] => x = y
  BY <1>1, <1>3 DEF Places
<1>6. \A k \in Places(b, A) : k \in Nat /\ n + k \in R
  BY <1>1, <1>4 DEF Places
<1>7. g \in [Places(b, A) -> R] /\ \A x, y \in Places(b, A) : g[x] = g[y] => x = y
  BY <1>1, <1>6
<1>8. IsFiniteSet(P)
  BY CountType
<1> HIDE DEF P, f, g
<1>9. IsFiniteSet(L) /\ IsFiniteSet(R) /\ L \cap R = {} /\ L \cup R = P
  BY <1>8, FS_Subset
<1> HIDE DEF L, R
<1>10. Count(a, A) \in Nat /\ Count(a, A) <= Cardinality(L)
  BY <1>5, <1>9, NoLarger DEF Count
<1>11. Count(b, A) \in Nat /\ Count(b, A) <= Cardinality(R)
  BY <1>7, <1>9, NoLarger DEF Count
<1>12. /\ Cardinality(L) + Cardinality(R) = Cardinality(P)
       /\ Cardinality(L) \in Nat /\ Cardinality(R) \in Nat
  BY <1>9, CountApart
<1> QED
  BY <1>10, <1>11, <1>12 DEF Count, P, a, b

\* The places of a sequence are its range.
LEMMA PlaceInRange ==
  ASSUME NEW S, NEW s \in Seq(S), NEW k \in 1 .. Len(s)
  PROVE  s[k] \in Range(s) /\ s[k] \in S
BY RangeEquality, ElementOfSeq

-----------------------------------------------------------------------------
(* Counting over the EQ threads. *)

\* The places of thread w with tasks s, and of all threads.
Row(s, w, A) == {<<"task", w, k>> : k \in Places(s, A)}
Rows(t, A)   == UNION {Row(t[w], w, A) : w \in EqWorker}

\* The places of a thread are counted in its sequence.
LEMMA RowCount ==
  ASSUME NEW S, NEW s \in Seq(S), NEW w, NEW A
  PROVE  IsFiniteSet(Row(s, w, A)) /\ Cardinality(Row(s, w, A)) = Count(s, A)
<1> DEFINE P == Places(s, A)
           R == Row(s, w, A)
           f == [k \in P |-> <<"task", w, k>>]
<1>1. IsFiniteSet(P)
  BY CountType
<1>2. \A k \in P : <<"task", w, k>> \in R
  BY DEF Row
<1>3. \A x \in R : \E k \in P : x = <<"task", w, k>>
  BY DEF Row
<1> HIDE DEF P, R
<1>4. f \in [P -> R] /\ (\A x, y \in P : f[x] = f[y] => x = y) /\ \A x \in R : \E k \in P : f[k] = x
  BY <1>2, <1>3
<1> HIDE DEF f
<1>5. f \in Bijection(P, R)
  BY <1>4 DEF Bijection, Injection, IsInjective, Surjection
<1>6. IsFiniteSet(R) /\ Cardinality(R) = Cardinality(P)
  BY <1>1, <1>5, FS_Bijection DEF ExistsBijection
<1> QED
  BY <1>6 DEF Count, P, R

\* The places of a set of threads are those of each.
LEMMA RowsMember ==
  ASSUME NEW t, NEW A, NEW x
  PROVE  x \in Rows(t, A) <=> \E w \in EqWorker : x \in Row(t[w], w, A)
BY DEF Rows

\* Finitely many threads have finitely many places.
LEMMA RowsFinite ==
  ASSUME NEW S, NEW t \in [EqWorker -> Seq(S)], NEW A
  PROVE  IsFiniteSet(Rows(t, A)) /\ Cardinality(Rows(t, A)) \in Nat
<1> DEFINE R == {Row(t[w], w, A) : w \in EqWorker}
           f == [w \in EqWorker |-> Row(t[w], w, A)]
<1>1. f \in [EqWorker -> R] /\ \A x \in R : \E w \in EqWorker : f[w] = x
  OBVIOUS
<1>2. \A x \in R : IsFiniteSet(x)
  BY RowCount
<1> HIDE DEF R, f
<1>3. f \in Surjection(EqWorker, R)
  BY <1>1 DEF Surjection
<1>4. IsFiniteSet(R)
  BY <1>3, ConstantsAssumption, FS_Surjection DEF ConstantsAssumption
<1>5. IsFiniteSet(UNION R)
  BY <1>2, <1>4, FS_UNION
<1> QED
  BY <1>5, FS_CardinalityType DEF Rows, R

\* When the tasks of one thread change, its places are counted anew.
LEMMA RowsChange ==
  ASSUME NEW t \in [EqWorker -> Seq(Request)], NEW u \in [EqWorker -> Seq(Request)],
         NEW w \in EqWorker, \A v \in EqWorker \ {w} : u[v] = t[v], NEW A
  PROVE  Cardinality(Rows(u, A)) + Count(t[w], A) = Cardinality(Rows(t, A)) + Count(u[w], A)
<1> DEFINE X    == Row(t[w], w, A)
           Y    == Row(u[w], w, A)
           Rest == Rows(t, A) \ X
<1>1. IsFiniteSet(X) /\ Cardinality(X) = Count(t[w], A)
  BY RowCount
<1>2. IsFiniteSet(Y) /\ Cardinality(Y) = Count(u[w], A)
  BY RowCount
<1>3. IsFiniteSet(Rest)
  BY RowsFinite, FS_Subset
<1>4. ASSUME NEW v \in EqWorker, NEW x \in Row(u[v], v, A) \cup Row(t[v], v, A)
      PROVE  x[2] = v
  BY <1>4 DEF Row
<1>5. X \subseteq Rows(t, A) /\ Y \subseteq Rows(u, A)
  BY DEF Rows
<1>6. ASSUME NEW x \in Rest
      PROVE  x \in Rows(u, A) /\ x \notin Y
  <2>1. PICK v \in EqWorker : x \in Row(t[v], v, A)
    BY <1>6, RowsMember
  <2>2. v # w
    BY <1>6, <2>1
  <2>3. x \in Row(u[v], v, A) /\ x \in Rows(u, A)
    BY <2>1, <2>2, RowsMember
  <2>4. x[2] = v /\ (x \in Y => x[2] = w)
    BY <1>4, <2>3
  <2> QED
    BY <2>2, <2>3, <2>4
<1>7. ASSUME NEW x \in Rows(u, A), x \notin Y
      PROVE  x \in Rest
  <2>1. PICK v \in EqWorker : x \in Row(u[v], v, A)
    BY <1>7, RowsMember
  <2>2. v # w
    BY <1>7, <2>1
  <2>3. x \in Row(t[v], v, A) /\ x \in Rows(t, A)
    BY <2>1, <2>2, RowsMember
  <2>4. x[2] = v /\ (x \in X => x[2] = w)
    BY <1>4, <2>3
  <2> QED
    BY <2>2, <2>3, <2>4
<1> HIDE DEF X, Y
<1>8. Rows(t, A) = Rest \cup X /\ Rest \cap X = {}
  BY <1>5
<1>9. Rows(u, A) = Rest \cup Y /\ Rest \cap Y = {}
  BY <1>5, <1>6, <1>7
<1> HIDE DEF Rest
<1>10. Cardinality(Rows(t, A)) = Cardinality(Rest) + Cardinality(X)
  BY <1>1, <1>3, <1>8, CountApart
<1>11. Cardinality(Rows(u, A)) = Cardinality(Rest) + Cardinality(Y)
  BY <1>2, <1>3, <1>9, CountApart
<1>12. Cardinality(Rest) \in Nat /\ Cardinality(X) \in Nat /\ Cardinality(Y) \in Nat
  BY <1>1, <1>2, <1>3, FS_CardinalityType
<1> QED
  BY <1>1, <1>2, <1>10, <1>11, <1>12

-----------------------------------------------------------------------------
(* The holders of a record, kind by kind. *)

Wanted(i) == {c \in Copy : c.id = i /\ ~c.fromRecover}
Reply(i)  == {q \in Request : Answers(q, i)}

PollHolds(i)   == IF polled.phase = "out" /\ polled.id = i THEN 1 ELSE 0
Senders(i)     == {w \in SendWorker : sendTask[w].id = i}
SendHolds(i)   == Cardinality(Senders(i))
CopyHolds(i)   == Count(retryQ[owner[i]], Wanted(i))
AnswerHolds(i) == Count(eq, Reply(i))
TaskHolds(i)   == Cardinality(Rows(eqTask, Reply(i)))

Total(i) == PollHolds(i) + SendHolds(i) + CopyHolds(i) + AnswerHolds(i) + TaskHolds(i)

\* IntervalLock, said of the counts.
Bounded(i) == /\ interval[i] = "TO_RETRY" => Total(i) <= faults
              /\ interval[i] = "IN_RETRY" => Total(i) <= faults + 1

AllBounded == \A i \in Id : Bounded(i)

\* A tag changes no count.
LEMMA CountTagged ==
  ASSUME NEW K, IsFiniteSet(K), NEW tag
  PROVE  /\ IsFiniteSet({<<tag, k>> : k \in K})
         /\ Cardinality({<<tag, k>> : k \in K}) = Cardinality(K)
<1> DEFINE R == {<<tag, k>> : k \in K}
           f == [k \in K |-> <<tag, k>>]
<1>1. f \in [K -> R] /\ (\A x, y \in K : f[x] = f[y] => x = y) /\ \A x \in R : \E k \in K : f[k] = x
  OBVIOUS
<1> HIDE DEF f, R
<1>2. f \in Bijection(K, R)
  BY <1>1 DEF Bijection, Injection, IsInjective, Surjection
<1>3. IsFiniteSet(R) /\ Cardinality(R) = Cardinality(K)
  BY <1>2, FS_Bijection DEF ExistsBijection
<1> QED
  BY <1>3 DEF R

\* The senders are finitely many.
LEMMA SendersFinite ==
  ASSUME NEW i
  PROVE  IsFiniteSet(Senders(i)) /\ SendHolds(i) \in Nat
BY ConstantsAssumption, FS_Subset, FS_CardinalityType DEF ConstantsAssumption, Senders, SendHolds

\* The counts are natural numbers.
LEMMA HoldsType ==
  ASSUME TypeOK, NEW i \in Id, owner[i] \in Msg
  PROVE  /\ PollHolds(i) \in Nat /\ SendHolds(i) \in Nat /\ CopyHolds(i) \in Nat
         /\ AnswerHolds(i) \in Nat /\ TaskHolds(i) \in Nat
         /\ Total(i) \in Nat
<1>1. retryQ[owner[i]] \in Seq(Copy) /\ eq \in Seq(Request) /\ eqTask \in [EqWorker -> Seq(Request)]
  BY DEF TypeOK
<1>2. /\ SendHolds(i) \in Nat /\ CopyHolds(i) \in Nat /\ AnswerHolds(i) \in Nat
      /\ TaskHolds(i) \in Nat
  BY <1>1, SendersFinite, CountType, RowsFinite DEF CopyHolds, AnswerHolds, TaskHolds
<1>3. PollHolds(i) \in Nat
  BY DEF PollHolds
<1> QED
  BY <1>2, <1>3 DEF Total

\* Faults are counted, too.
LEMMA FaultsCount ==
  ASSUME TypeOK
  PROVE  faults \in Nat
BY ConstantsAssumption DEF TypeOK, ConstantsAssumption

\* What a pool thread may hold.
LEMMA SendersType ==
  ASSUME TypeOK
  PROVE  sendTask \in [SendWorker -> [id : Id0, retried : Nat]]
BY DEF TypeOK

\* Together they count the holders.
LEMMA HoldersCounted ==
  ASSUME TypeOK, NEW i \in Id, owner[i] \in Msg
  PROVE  Cardinality(Holders(i)) = Total(i)
<1> DEFINE m == owner[i]
           P == {<<"poller", 0>> : x \in {p \in {polled} : p.phase = "out" /\ p.id = i}}
           S == {<<"sender", w>> : w \in {v \in SendWorker : sendTask[v].id = i}}
           C == {<<"copy", k>> : k \in {n \in DOMAIN retryQ[m] :
                   retryQ[m][n].id = i /\ ~retryQ[m][n].fromRecover}}
           E == {<<"answer", k>> : k \in {n \in DOMAIN eq : Answers(eq[n], i)}}
           T == UNION {{<<"task", w, k>> : k \in {n \in DOMAIN eqTask[w] :
                   Answers(eqTask[w][n], i)}} : w \in EqWorker}
<1>1. Holders(i) = P \cup S \cup C \cup E \cup T
  BY DEF Holders
<1>2. ASSUME NEW X, NEW s \in Seq(X)
      PROVE  DOMAIN s = 1 .. Len(s) /\ \A k \in 1 .. Len(s) : s[k] \in X
  BY <1>2, LenProperties, ElementOfSeq
<1>3. /\ retryQ[m] \in Seq(Copy) /\ eq \in Seq(Request)
      /\ eqTask \in [EqWorker -> Seq(Request)]
      /\ \A w \in EqWorker : eqTask[w] \in Seq(Request)
  BY DEF TypeOK
<1>4. IsFiniteSet(P) /\ Cardinality(P) = PollHolds(i)
  <2>1. CASE polled.phase = "out" /\ polled.id = i
    <3>1. P = {<<"poller", 0>>}
      BY <2>1
    <3> QED
      BY <2>1, <3>1, FS_Singleton DEF PollHolds
  <2>2. CASE ~(polled.phase = "out" /\ polled.id = i)
    <3>1. P = {}
      BY <2>2
    <3> QED
      BY <2>2, <3>1, FS_EmptySet DEF PollHolds
  <2> QED
    BY <2>1, <2>2
<1>5. IsFiniteSet(S) /\ Cardinality(S) = SendHolds(i)
  <2>1. S = {<<"sender", w>> : w \in Senders(i)}
    BY DEF Senders
  <2> QED
    BY <2>1, SendersFinite, CountTagged DEF SendHolds
<1>6. IsFiniteSet(C) /\ Cardinality(C) = CopyHolds(i)
  <2>1. DOMAIN retryQ[m] = 1 .. Len(retryQ[m]) /\ \A k \in 1 .. Len(retryQ[m]) : retryQ[m][k] \in Copy
    BY <1>2, <1>3
  <2>2. C = {<<"copy", k>> : k \in Places(retryQ[m], Wanted(i))}
    BY <2>1 DEF Wanted, Places
  <2>3. IsFiniteSet(Places(retryQ[m], Wanted(i)))
    BY <1>3, CountType
  <2> QED
    BY <2>2, <2>3, CountTagged, ZenonT(60) DEF CopyHolds, Count
<1>7. IsFiniteSet(E) /\ Cardinality(E) = AnswerHolds(i)
  <2>1. DOMAIN eq = 1 .. Len(eq) /\ \A k \in 1 .. Len(eq) : eq[k] \in Request
    BY <1>2, <1>3
  <2>2. E = {<<"answer", k>> : k \in Places(eq, Reply(i))}
    BY <2>1 DEF Reply, Places
  <2>3. IsFiniteSet(Places(eq, Reply(i)))
    BY <1>3, CountType
  <2> QED
    BY <2>2, <2>3, CountTagged DEF AnswerHolds, Count
<1>8. T = Rows(eqTask, Reply(i))
  <2>1. \A w \in EqWorker : /\ DOMAIN eqTask[w] = 1 .. Len(eqTask[w])
                            /\ \A k \in 1 .. Len(eqTask[w]) : eqTask[w][k] \in Request
    BY <1>2, <1>3
  <2> QED
    BY <2>1 DEF Rows, Row, Reply, Places
<1>9. IsFiniteSet(T) /\ Cardinality(T) = TaskHolds(i)
  BY <1>3, <1>8, RowsFinite DEF TaskHolds
<1>10. /\ \A x \in P : x[1] = "poller"
       /\ \A x \in S : x[1] = "sender"
       /\ \A x \in C : x[1] = "copy"
       /\ \A x \in E : x[1] = "answer"
  OBVIOUS
<1>11. \A x \in T : x[1] = "task"
  OBVIOUS
<1> HIDE DEF P, S, C, E, T
<1> DEFINE PS   == P \cup S
           PSC  == PS \cup C
           PSCE == PSC \cup E
<1>12. P \cap S = {} /\ PS \cap C = {} /\ PSC \cap E = {} /\ PSCE \cap T = {}
  BY <1>10, <1>11
<1>13. IsFiniteSet(PS) /\ Cardinality(PS) = PollHolds(i) + SendHolds(i)
  BY <1>4, <1>5, <1>12, CountApart
<1> HIDE DEF PS
<1>14. IsFiniteSet(PSC) /\ Cardinality(PSC) = Cardinality(PS) + CopyHolds(i)
  BY <1>6, <1>12, <1>13, CountApart
<1> HIDE DEF PSC
<1>15. IsFiniteSet(PSCE) /\ Cardinality(PSCE) = Cardinality(PSC) + AnswerHolds(i)
  BY <1>7, <1>12, <1>14, CountApart
<1> HIDE DEF PSCE
<1>16. Cardinality(PSCE \cup T) = Cardinality(PSCE) + TaskHolds(i)
  BY <1>9, <1>12, <1>15, CountApart
<1>17. Holders(i) = PSCE \cup T
  BY <1>1 DEF PS, PSC, PSCE
<1> QED
  BY <1>13, <1>14, <1>15, <1>16, <1>17 DEF Total

-----------------------------------------------------------------------------
(* What a step does to the counts. *)

\* The counts after a step.
LEMMA HoldsNext ==
  ASSUME NEW i
  PROVE  /\ CopyHolds(i)' = Count(retryQ'[owner'[i]], Wanted(i))
         /\ AnswerHolds(i)' = Count(eq', Reply(i))
         /\ TaskHolds(i)' = Cardinality(Rows(eqTask', Reply(i)))
BY DEF CopyHolds, AnswerHolds, TaskHolds, Count, Places, Rows, Row, Wanted, Copy, Reply, Answers

\* A place that does not change keeps its count.
LEMMA HoldsSame ==
  ASSUME NEW i
  PROVE  /\ UNCHANGED polled => PollHolds(i)' = PollHolds(i)
         /\ UNCHANGED sendTask => SendHolds(i)' = SendHolds(i)
         /\ UNCHANGED <<retryQ, owner>> => CopyHolds(i)' = CopyHolds(i)
         /\ UNCHANGED eq => AnswerHolds(i)' = AnswerHolds(i)
         /\ UNCHANGED eqTask => TaskHolds(i)' = TaskHolds(i)
<1>1. UNCHANGED polled => PollHolds(i)' = PollHolds(i)
  BY DEF PollHolds
<1>2. UNCHANGED sendTask => SendHolds(i)' = SendHolds(i)
  BY DEF SendHolds, Senders
<1>3. UNCHANGED <<retryQ, owner>> => CopyHolds(i)' = CopyHolds(i)
  BY HoldsNext DEF CopyHolds
<1>4. UNCHANGED eq => AnswerHolds(i)' = AnswerHolds(i)
  BY HoldsNext DEF AnswerHolds
<1>5. UNCHANGED eqTask => TaskHolds(i)' = TaskHolds(i)
  BY HoldsNext DEF TaskHolds
<1> QED
  BY <1>1, <1>2, <1>3, <1>4, <1>5

\* The counts are natural numbers after a step, too.
LEMMA HoldsTypeNext ==
  ASSUME TypeOK', NEW i \in Id, owner'[i] \in Msg
  PROVE  /\ PollHolds(i)' \in Nat /\ SendHolds(i)' \in Nat /\ CopyHolds(i)' \in Nat
         /\ AnswerHolds(i)' \in Nat /\ TaskHolds(i)' \in Nat
         /\ Total(i)' \in Nat
<1>1. /\ retryQ'[owner'[i]] \in Seq(Copy) /\ eq' \in Seq(Request)
      /\ eqTask' \in [EqWorker -> Seq(Request)]
  BY DEF TypeOK, Copy, Request, Id0, Kinds
<1>2. CopyHolds(i)' \in Nat /\ AnswerHolds(i)' \in Nat /\ TaskHolds(i)' \in Nat
  BY <1>1, HoldsNext, CountType, RowsFinite
<1>3. SendHolds(i)' \in Nat
  BY ConstantsAssumption, FS_Subset, FS_CardinalityType
     DEF ConstantsAssumption, Senders, SendHolds
<1>4. PollHolds(i)' \in Nat
  BY DEF PollHolds
<1> QED
  BY <1>2, <1>3, <1>4 DEF Total

\* The counts, by name.
Counted(i, p, s, c, a, t, x) ==
  /\ PollHolds(i) = p /\ SendHolds(i) = s /\ CopyHolds(i) = c
  /\ AnswerHolds(i) = a /\ TaskHolds(i) = t
  /\ Total(i) = x /\ x = p + s + c + a + t

LEMMA Counts ==
  ASSUME TypeOK, NEW i \in Id, owner[i] \in Msg
  PROVE  \E p, s, c, a, t, x \in Nat : Counted(i, p, s, c, a, t, x)
BY HoldsType DEF Counted, Total

LEMMA CountsNext ==
  ASSUME TypeOK', NEW i \in Id, owner'[i] \in Msg
  PROVE  \E p, s, c, a, t, x \in Nat : Counted(i, p, s, c, a, t, x)'
BY HoldsTypeNext DEF Counted, Total

\* A record nobody takes hold of, but for a fault, and that is not checked in or
\* out, stays within its bound.
LEMMA KeepsBound ==
  ASSUME NEW i, Bounded(i), NEW x \in Nat, NEW y \in Nat, Total(i) = x, Total(i)' = y,
         faults \in Nat, NEW e \in Nat, faults' = faults + e, y <= x + e,
         interval'[i] \in {"NONE", interval[i]}
  PROVE  Bounded(i)'
<1>1. CASE interval[i] = "TO_RETRY"
  <2>1. y <= faults + e
    BY <1>1 DEF Bounded
  <2> QED
    BY <1>1, <2>1 DEF Bounded
<1>2. CASE interval[i] = "IN_RETRY"
  <2>1. y <= (faults + e) + 1
    BY <1>2 DEF Bounded
  <2> QED
    BY <1>2, <2>1 DEF Bounded
<1> QED
  BY <1>1, <1>2 DEF Bounded

\* A record that has lost a holder can be checked in.
LEMMA FreesBound ==
  ASSUME NEW i, Bounded(i), NEW x \in Nat, NEW y \in Nat, Total(i) = x, Total(i)' = y,
         faults \in Nat, NEW e \in Nat, faults' = faults + e, y + 1 <= x + e,
         interval[i] \in {"NONE", "TO_RETRY", "IN_RETRY"},
         interval[i] = "NONE" => interval'[i] = "NONE"
  PROVE  Bounded(i)'
<1>1. CASE interval[i] = "NONE"
  BY <1>1 DEF Bounded
<1>2. CASE interval[i] # "NONE"
  <2>1. x <= faults + 1
    BY <1>2 DEF Bounded
  <2>2. y <= faults + e /\ y <= (faults + e) + 1
    BY <2>1
  <2> QED
    BY <2>2 DEF Bounded
<1> QED
  BY <1>1, <1>2

\* A record that is not there has no bound to keep.
LEMMA NoRecordBound ==
  ASSUME NEW i, interval'[i] = "NONE"
  PROVE  Bounded(i)'
BY DEF Bounded

\* A step that only takes holders away, and leaves the record as it is or removes it.
LEMMA LockFrame ==
  ASSUME IInv, IInv', AllBounded, UNCHANGED owner, NEW e \in Nat, faults' = faults + e,
         NEW i \in Id, interval'[i] \in {"NONE", interval[i]},
         owner[i] \in Msg =>
           /\ PollHolds(i)' <= PollHolds(i) /\ SendHolds(i)' <= SendHolds(i)
           /\ CopyHolds(i)' <= CopyHolds(i) /\ AnswerHolds(i)' <= AnswerHolds(i)
           /\ TaskHolds(i)' <= TaskHolds(i)
  PROVE  Bounded(i)'
<1>1. TypeOK /\ TypeOK' /\ IdsMatch' /\ faults \in Nat
  BY ConstantsAssumption DEF IInv, TypeOK, ConstantsAssumption
<1>2. CASE owner[i] \notin Msg
  BY <1>1, <1>2, NoRecordBound DEF IdsMatch, RecordOK
<1>3. CASE owner[i] \in Msg
  <2>1. PICK p, s, c, a, t, x \in Nat : Counted(i, p, s, c, a, t, x)
    BY <1>1, <1>3, Counts
  <2>2. PICK p1, s1, c1, a1, t1, x1 \in Nat : Counted(i, p1, s1, c1, a1, t1, x1)'
    BY <1>1, <1>3, CountsNext
  <2>3. p1 <= p /\ s1 <= s /\ c1 <= c /\ a1 <= a /\ t1 <= t
    BY <1>3, <2>1, <2>2 DEF Counted
  <2>4. x1 <= x + e
    BY <2>1, <2>2, <2>3 DEF Counted
  <2> QED
    BY <1>1, <2>1, <2>2, <2>4, KeepsBound DEF Counted, AllBounded
<1> QED
  BY <1>2, <1>3

\* A service changes the interval_retry record of an id that was handed out only
\* for an answer to its retry, and does not bring one back.
LEMMA ProcessInterval ==
  ASSUME TypeOK, NEW q \in Request, Process(q), NEW i \in Id, i <= lastId
  PROVE  /\ owner'[i] = owner[i]
         /\ ~Answers(q, i) => interval'[i] = interval[i]
         /\ interval[i] = "NONE" => interval'[i] = "NONE"
<1> USE DEF TypeOK
<1>1. CASE CleanRecover(q) \/ ResendForRecover(q)
  BY <1>1 DEF CleanRecover, ResendForRecover
<1>2. CASE q.kind = "CLEAN_INTERVAL_RETRY" /\ CleanIntervalRetry(q)
  BY <1>2 DEF CleanIntervalRetry, Answers
<1>3. CASE q.kind = "INTERVAL_MSG_DO__RETRY" /\ DoIntervalMessageRetry(q)
  <2>1. CASE AddIntervalRetry(q)
    BY <2>1 DEF AddIntervalRetry, FreshId, Id, Id0
  <2>2. CASE CheckinIntervalRetry(q)
    BY <1>3, <2>2 DEF CheckinIntervalRetry, Answers
  <2> QED
    BY <1>3, <2>1, <2>2 DEF DoIntervalMessageRetry
<1>4. CASE q.kind = "INTERVAL_MSG_DO_RECOVER" /\ DoIntervalMessageRecover(q)
  BY <1>4 DEF DoIntervalMessageRecover, Answers
<1>5. CASE AddRecover(q)
  BY <1>5 DEF AddRecover, FreshId, Id, Id0
<1>6. CASE DoMessageDirectToRecover(q)
  BY <1>5, <1>6 DEF DoMessageDirectToRecover
<1> QED
  BY <1>1, <1>2, <1>3, <1>4, <1>5, <1>6 DEF Process

\* Nothing refers to an id that was not handed out.
LEMMA NothingRefers ==
  ASSUME IInv, NEW i \in Id, ~(i <= lastId)
  PROVE  /\ PollHolds(i) = 0 /\ SendHolds(i) = 0 /\ AnswerHolds(i) = 0 /\ TaskHolds(i) = 0
         /\ \A m \in Msg : Count(retryQ[m], Wanted(i)) = 0
<1>1. TypeOK /\ IdsMatch
  BY DEF IInv
<1>2. ASSUME NEW x \in Id0, NEW m, x # 0 => RefersTo(x, m)
      PROVE  x # i
  BY <1>2 DEF RefersTo, Id
<1>3. ASSUME NEW r, HeldOK(r)
      PROVE  r.id # i
  BY <1>1, <1>3 DEF HeldOK, TypeOK, Id0
<1>4. PollHolds(i) = 0
  BY <1>1, <1>3 DEF PollHolds, IdsMatch
<1>5. Senders(i) = {}
  BY <1>1, <1>3 DEF Senders, IdsMatch, NoRecord, Id
<1>6. ASSUME NEW q \in Pending, q \in Request
      PROVE  q \notin Reply(i)
  <2>1. RequestIdOK(q)
    BY <1>1, <1>6 DEF IdsMatch, RequestOK
  <2> QED
    BY <1>2, <1>6, <2>1 DEF RequestIdOK, Reply, Answers, Request
<1>7. Places(eq, Reply(i)) = {}
  <2>1. eq \in Seq(Request)
    BY <1>1 DEF TypeOK
  <2>2. \A k \in 1 .. Len(eq) : eq[k] \in Range(eq) /\ eq[k] \in Request
    BY <2>1, PlaceInRange
  <2> QED
    BY <1>6, <2>2 DEF Places, Pending
<1>8. ASSUME NEW w \in EqWorker
      PROVE  Places(eqTask[w], Reply(i)) = {}
  <2>1. ASSUME NEW k \in 1 .. Len(eqTask[w])
        PROVE  eqTask[w][k] \in Range(eqTask[w]) /\ eqTask[w][k] \in Request
    <3>1. eqTask[w] \in Seq(Request)
      BY <1>1 DEF TypeOK
    <3> QED
      BY <3>1, PlaceInRange
  <2> QED
    BY <1>6, <2>1 DEF Places, Pending, InEqTask
<1>9. Rows(eqTask, Reply(i)) = {}
  BY <1>8 DEF Rows, Row
<1>10. ASSUME NEW m \in Msg
       PROVE  Places(retryQ[m], Wanted(i)) = {}
  <2>1. \A k \in 1 .. Len(retryQ[m]) : retryQ[m][k] \in Range(retryQ[m]) /\ retryQ[m][k] \in Copy
    <3>1. retryQ[m] \in Seq(Copy)
      BY <1>1 DEF TypeOK
    <3> QED
      BY <3>1, PlaceInRange
  <2>2. \A k \in 1 .. Len(retryQ[m]) : CopyOK(m, retryQ[m][k])
    BY <1>1, <2>1 DEF IdsMatch
  <2> QED
    BY <1>2, <2>1, <2>2 DEF Places, Wanted, CopyOK, Copy
<1> QED
  BY <1>4, <1>5, <1>7, <1>9, <1>10, FS_EmptySet DEF SendHolds, AnswerHolds, TaskHolds, Count

\* No holders are no more than there have been faults.
LEMMA NoneIsFew ==
  ASSUME NEW n, n = 0, NEW f \in Nat
  PROVE  n <= f /\ n <= f + 1
BY SMT

\* A new record is held by nobody.
LEMMA FreshBound ==
  ASSUME IInv, IInv', NEW i \in Id, ~(i <= lastId), UNCHANGED poller,
         \A m \in Msg : Count(retryQ'[m], Wanted(i)) <= Count(retryQ[m], Wanted(i)),
         AnswerHolds(i)' <= AnswerHolds(i), TaskHolds(i)' <= TaskHolds(i)
  PROVE  Bounded(i)'
<1>1. TypeOK' /\ IdsMatch'
  BY DEF IInv
<1>2. CASE owner'[i] \notin Msg
  BY <1>1, <1>2, NoRecordBound DEF IdsMatch, RecordOK
<1>3. CASE owner'[i] \in Msg
  <2>1. /\ PollHolds(i)' = 0 /\ SendHolds(i)' = 0
        /\ AnswerHolds(i)' <= 0 /\ TaskHolds(i)' <= 0 /\ CopyHolds(i)' <= 0
    BY <1>3, NothingRefers, HoldsSame, HoldsNext DEF poller
  <2>2. AnswerHolds(i)' \in Nat /\ TaskHolds(i)' \in Nat /\ CopyHolds(i)' \in Nat
    BY <1>1, <1>3, HoldsTypeNext
  <2>3. Total(i)' = 0
    BY <2>1, <2>2 DEF Total
  <2>4. faults' \in Nat
    BY <1>1, ConstantsAssumption DEF TypeOK, ConstantsAssumption
  <2>5. Total(i)' <= faults' /\ Total(i)' <= faults' + 1
    BY <2>3, <2>4, NoneIsFew
  <2> QED
    BY <2>5 DEF Bounded
<1> QED
  BY <1>2, <1>3

-----------------------------------------------------------------------------
(* A delivery. *)

\* What a delivery of copy c does: it is acknowledged (k = 0) or met again
\* (k = 1); more is published to its retry queue, or a request is sent, which is
\* processed and put into the EQ when the reply is lost (n = 1).
Handled(m, src, c, more, n, k) ==
  /\ Settle(m, src, more, k)
  /\ \E e \in Nat : e >= n + k /\ faults' = faults + e
  /\ \/ UNCHANGED <<eq, tables>>
     \/ \E q : /\ more = << >> /\ Sends(m, src, c, q)
               /\ \/ Process(q) /\ UNCHANGED eq
                  \/ eq' = Append(eq, q) /\ UNCHANGED tables
                  \/ n = 1 /\ Process(q) /\ eq' = Append(eq, q)

\* A delivery does this, or the consumer stops and nothing is done.
LEMMA ConsumeHandled ==
  ASSUME TypeOK, NEW m \in Msg, Consume(m)
  PROVE  \/ UNCHANGED <<retryQ, eq, tables>> /\ faults' = faults + 1
         \/ \E src \in {"business", "retry"}, c, d \in Copy, n, k \in {0, 1} :
              /\ Delivered(m, src, c) /\ d.id = c.id /\ d.fromRecover = c.fromRecover
              /\ \/ Handled(m, src, c, << >>, n, k)
                 \/ ~c.fromRecover /\ Handled(m, src, c, <<d>>, n, k)
<1>1. PICK cfg \in Configs[m], src \in {"business", "retry"}, c \in Copies(m) :
        Succeeds(cfg, m, src, c) \/ Fails(cfg, m, src, c) \/ CleanupFails(cfg, m, src, c)
  BY DEF Consume
<1>2. Delivered(m, src, c)
  BY <1>1 DEF Succeeds, Fails, CleanupFails
<1>3. c \in Copy
  <2>1. CASE src = "business"
    BY <1>2, <2>1, InitialCopyType DEF Delivered
  <2>2. CASE src = "retry"
    <3>1. retryQ[m] \in Seq(Copy) /\ retryQ[m] # << >> /\ c = Head(retryQ[m])
      BY <1>2, <2>2 DEF Delivered, TypeOK
    <3> QED
      BY <3>1, RangeHeadTail
  <2> QED
    BY <2>1, <2>2
<1>4. faults \in Nat
  BY ConstantsAssumption DEF TypeOK, ConstantsAssumption
<1>5. ASSUME NEW j, Spend(j)
      PROVE  faults' = faults + j
  BY <1>5 DEF Spend
<1> DEFINE Goal == \E d \in Copy, n, k \in {0, 1} :
                     /\ d.id = c.id /\ d.fromRecover = c.fromRecover
                     /\ \/ Handled(m, src, c, << >>, n, k)
                        \/ ~c.fromRecover /\ Handled(m, src, c, <<d>>, n, k)
<1>6. SUFFICES (UNCHANGED <<retryQ, eq, tables>> /\ faults' = faults + 1) \/ Goal
  BY <1>2, <1>3
<1>7. ASSUME NEW n \in {0, 1}, NEW k \in {0, 1}, Handled(m, src, c, << >>, n, k)
      PROVE  Goal
  BY <1>3, <1>7
<1>8. ASSUME ~c.fromRecover, NEW d \in Copy, d.id = c.id, d.fromRecover = c.fromRecover,
             NEW n \in {0, 1}, NEW k \in {0, 1}, Handled(m, src, c, <<d>>, n, k)
      PROVE  Goal
  BY <1>8
<1> HIDE DEF Goal
<1>9. ASSUME NEW q, NEW f \in {0, 1}, Sends(m, src, c, q), SubmitAndSettle(m, src, q, f)
      PROVE  Goal
  <2>1. PICK n \in {0, 1}, k \in {0, 1} :
          Submit(q, n) /\ Settle(m, src, << >>, k) /\ Spend(f + n + k)
    BY <1>9 DEF SubmitAndSettle
  <2>2. f + n + k \in Nat /\ f + n + k >= n + k
    OBVIOUS
  <2>3. faults' = faults + (f + n + k)
    BY <1>5, <2>1
  <2>4. Handled(m, src, c, << >>, n, k)
    BY <1>9, <2>1, <2>2, <2>3 DEF Submit, Handled
  <2> QED
    BY <1>7, <2>4
<1>10. ASSUME NEW f \in {0, 1}, Caught(cfg, m, src, c, f)
       PROVE  Goal
  <2>1. CASE FailsRecovering(cfg, m, src, c, f)
    BY <1>9, <2>1 DEF FailsRecovering, Sends
  <2>2. CASE FailsDirectly(cfg, m, src, c, f)
    BY <1>9, <2>2 DEF FailsDirectly, Sends
  <2>3. CASE RetriesImmediately(cfg, m, src, c, f)
    <3> DEFINE d == [c EXCEPT !.retried = NextTimes(cfg, c)]
    <3>1. PICK k \in {0, 1} : Settle(m, src, <<d>>, k) /\ Spend(f + k)
      BY <2>3 DEF RetriesImmediately
    <3>2. d \in Copy /\ d.id = c.id /\ d.fromRecover = c.fromRecover
      BY <1>3, RepublishedCopy DEF Copy
    <3>3. UNCHANGED <<eq, tables>> /\ ~c.fromRecover
      BY <2>3 DEF RetriesImmediately
    <3> HIDE DEF d
    <3>4. f + k \in Nat /\ f + k >= 0 + k
      OBVIOUS
    <3>5. faults' = faults + (f + k)
      BY <1>5, <3>1
    <3>6. Handled(m, src, c, <<d>>, 0, k)
      BY <3>1, <3>3, <3>4, <3>5 DEF Handled
    <3> QED
      BY <1>8, <3>2, <3>3, <3>6
  <2>4. CASE RetriesLater(cfg, m, src, c, f)
    BY <1>9, <2>4 DEF RetriesLater, Sends
  <2>5. CASE GivesUp(cfg, m, src, c, f)
    BY <1>9, <2>5 DEF GivesUp, Sends
  <2> QED
    BY <1>10, <2>1, <2>2, <2>3, <2>4, <2>5 DEF Caught
<1>11. CASE Succeeds(cfg, m, src, c)
  <2>1. CASE /\ ~NeedsCleanup(cfg, src, c)
             /\ \E k \in {0, 1} : Settle(m, src, << >>, k) /\ Spend(k)
             /\ UNCHANGED <<eq, tables, dropped>>
    <3>1. PICK k \in {0, 1} : Settle(m, src, << >>, k) /\ Spend(k)
      BY <2>1
    <3>2. faults' = faults + k /\ k \in Nat /\ k >= 0 + k
      BY <1>5, <3>1
    <3>3. Handled(m, src, c, << >>, 0, k)
      BY <2>1, <3>1, <3>2 DEF Handled
    <3> QED
      BY <1>7, <3>3
  <2>2. CASE /\ NeedsCleanup(cfg, src, c)
             /\ SubmitAndSettle(m, src, RequestFor(IF c.fromRecover THEN "CLEAN_RECOVER"
                                     ELSE "CLEAN_INTERVAL_RETRY", m, c, 0), 0)
    <3>1. m \in done'
      BY <1>11 DEF Succeeds
    <3>2. Sends(m, src, c, RequestFor(IF c.fromRecover THEN "CLEAN_RECOVER"
                                     ELSE "CLEAN_INTERVAL_RETRY", m, c, 0))
      BY <2>2, <3>1 DEF Sends
    <3> QED
      BY <1>9, <2>2, <3>2
  <2>3. CASE Spend(1) /\ UNCHANGED <<queues, eq, tables, dropped>>
    BY <1>5, <2>3 DEF queues
  <2> QED
    BY <1>11, <2>1, <2>2, <2>3 DEF Succeeds
<1>12. CASE Fails(cfg, m, src, c)
  BY <1>10, <1>12 DEF Fails
<1>13. CASE CleanupFails(cfg, m, src, c)
  BY <1>10, <1>13 DEF CleanupFails
<1> QED
  BY <1>1, <1>11, <1>12, <1>13

\* The delivered copy leaves its retry queue unless it is met again, and at most
\* one copy joins it.
LEMMA SettledQueue ==
  ASSUME TypeOK, NEW m \in Msg, NEW src \in {"business", "retry"}, NEW c, Delivered(m, src, c),
         NEW d \in Copy, NEW more, more = << >> \/ more = <<d>>,
         NEW k \in {0, 1}, Settle(m, src, more, k), NEW A
  PROVE  /\ \A x \in Msg \ {m} : retryQ'[x] = retryQ[x]
         /\ d \notin A => Count(retryQ'[m], A) <= Count(retryQ[m], A)
         /\ src = "retry" /\ c \in A =>
              Count(retryQ'[m], A) + 1 <= Count(retryQ[m], A) + k + (IF more = << >> THEN 0 ELSE 1)
<1> DEFINE left == IF src = "retry" /\ k = 0 THEN Tail(retryQ[m]) ELSE retryQ[m]
<1>1. retryQ \in [Msg -> Seq(Copy)] /\ retryQ[m] \in Seq(Copy)
  BY DEF TypeOK
<1>2. src = "retry" => retryQ[m] # << >> /\ c = Head(retryQ[m])
  BY DEF Delivered
<1>3. left \in Seq(Copy)
  BY <1>1, <1>2, RangeHeadTail
<1>4. retryQ' = [retryQ EXCEPT ![m] = left \o more]
  BY DEF Settle
<1>5. /\ Count(left, A) <= Count(retryQ[m], A)
      /\ src = "retry" /\ c \in A => Count(left, A) + 1 <= Count(retryQ[m], A) + k
  <2>1. Count(retryQ[m], A) \in Nat
    BY <1>1, CountType
  <2>2. CASE src = "retry" /\ k = 0
    <3>1. /\ Count(Tail(retryQ[m]), A) <= Count(retryQ[m], A)
          /\ Head(retryQ[m]) \in A => Count(Tail(retryQ[m]), A) + 1 <= Count(retryQ[m], A)
      BY <1>1, <1>2, <2>2, CountTail
    <3> QED
      BY <1>2, <2>1, <2>2, <3>1
  <2>3. CASE ~(src = "retry" /\ k = 0)
    BY <2>1, <2>3
  <2> QED
    BY <2>2, <2>3
<1> HIDE DEF left
<1>6. retryQ'[m] = left \o more /\ \A x \in Msg \ {m} : retryQ'[x] = retryQ[x]
  BY <1>1, <1>4
<1>7. Count(retryQ[m], A) \in Nat /\ Count(left, A) \in Nat
  BY <1>1, <1>3, CountType
<1>8. CASE more = << >>
  <2>1. retryQ'[m] = left
    BY <1>3, <1>6, <1>8, ConcatEmptySeq
  <2> QED
    BY <1>5, <1>6, <1>7, <1>8, <2>1
<1>9. CASE more # << >>
  <2>1. retryQ'[m] = Append(left, d)
    BY <1>3, <1>6, <1>9, AppendIsConcat
  <2>2. /\ Count(Append(left, d), A) <= Count(left, A) + 1
        /\ d \notin A => Count(Append(left, d), A) = Count(left, A)
    BY <1>3, CountAppend
  <2>3. Append(left, d) \in Seq(Copy)
    BY <1>3, RangeAppend
  <2>4. Count(Append(left, d), A) \in Nat
    BY <2>3, CountType
  <2> QED
    BY <1>5, <1>6, <1>7, <1>9, <2>1, <2>2, <2>4
<1> QED
  BY <1>8, <1>9

\* A copy of another record, or one from the recover table, is not answered with
\* an answer to the retry of record i.
LEMMA SentAnswers ==
  ASSUME NEW m \in Msg, NEW src, NEW c \in Copy, NEW q, Sends(m, src, c, q), NEW i
  PROVE  q \in Request /\ (Answers(q, i) \/ q \in Reply(i) => c \in Wanted(i))
<1>1. q \in Request /\ q.id = c.id
  BY SendsRequest
<1>2. c.fromRecover => q.kind \in {"RESEND_FOR_RECOVER", "CLEAN_RECOVER"}
  BY DEF Sends, RequestFor
<1> QED
  BY <1>1, <1>2 DEF Reply, Answers, Wanted

\* What a delivery leaves in the exception queue.
LEMMA HandledAnswers ==
  ASSUME TypeOK, NEW m \in Msg, NEW src, NEW c \in Copy, NEW more, NEW n, NEW k,
         Handled(m, src, c, more, n, k), NEW i
  PROVE  /\ AnswerHolds(i)' <= AnswerHolds(i) + 1
         /\ c \notin Wanted(i) => AnswerHolds(i)' <= AnswerHolds(i)
<1>1. eq \in Seq(Request) /\ AnswerHolds(i) \in Nat
  BY CountType DEF TypeOK, AnswerHolds
<1>2. CASE UNCHANGED eq
  BY <1>1, <1>2, HoldsSame
<1>3. ASSUME NEW q, Sends(m, src, c, q), eq' = Append(eq, q)
      PROVE  /\ AnswerHolds(i)' <= AnswerHolds(i) + 1
             /\ c \notin Wanted(i) => AnswerHolds(i)' <= AnswerHolds(i)
  <2>1. q \in Request /\ (q \in Reply(i) => c \in Wanted(i))
    BY <1>3, SentAnswers
  <2>2. /\ Count(eq', Reply(i)) <= Count(eq, Reply(i)) + 1
        /\ q \notin Reply(i) => Count(eq', Reply(i)) = Count(eq, Reply(i))
    BY <1>1, <1>3, <2>1, CountAppend
  <2> QED
    BY <1>1, <2>1, <2>2, HoldsNext DEF AnswerHolds
<1> QED
  BY <1>2, <1>3 DEF Handled

\* What a delivery does to a record that is there already.
LEMMA HandledTables ==
  ASSUME TypeOK, NEW m \in Msg, NEW src, NEW c \in Copy, NEW more, NEW n, NEW k,
         Handled(m, src, c, more, n, k), NEW i \in Id, i <= lastId
  PROVE  /\ owner'[i] = owner[i]
         /\ interval[i] = "NONE" => interval'[i] = "NONE"
         /\ c \notin Wanted(i) => interval'[i] = interval[i]
<1>1. CASE UNCHANGED tables
  BY <1>1 DEF tables
<1>2. ASSUME NEW q, Sends(m, src, c, q), Process(q)
      PROVE  /\ owner'[i] = owner[i]
             /\ interval[i] = "NONE" => interval'[i] = "NONE"
             /\ c \notin Wanted(i) => interval'[i] = interval[i]
  <2>1. q \in Request /\ (Answers(q, i) => c \in Wanted(i))
    BY <1>2, SentAnswers
  <2> QED
    BY <1>2, <2>1, ProcessInterval
<1> QED
  BY <1>1, <1>2 DEF Handled

\* What a delivery does to the holders of the other records.
LEMMA LockOther ==
  ASSUME IInv, IInv', AllBounded, NEW m \in Msg, UNCHANGED <<eqTask, poller>>,
         NEW src \in {"business", "retry"}, NEW c \in Copy, Delivered(m, src, c),
         NEW d \in Copy, d.id = c.id, d.fromRecover = c.fromRecover,
         NEW more, more = << >> \/ more = <<d>>, NEW n \in {0, 1}, NEW k \in {0, 1},
         Handled(m, src, c, more, n, k), NEW i \in Id, c \notin Wanted(i)
  PROVE  Bounded(i)'
<1>1. TypeOK /\ IdsMatch /\ TypeOK'
  BY DEF IInv
<1>2. Settle(m, src, more, k)
  BY DEF Handled
<1>3. PICK e \in Nat : e >= n + k /\ faults' = faults + e
  BY DEF Handled
<1>4. faults \in Nat /\ n \in Nat /\ k \in Nat /\ e >= n + k /\ e >= k
  BY <1>1, <1>3, ConstantsAssumption DEF TypeOK, ConstantsAssumption
<1>5. d \notin Wanted(i)
  BY DEF Wanted
<1>6. ASSUME NEW x \in Msg
      PROVE  Count(retryQ'[x], Wanted(i)) <= Count(retryQ[x], Wanted(i))
  <2>1. /\ \A y \in Msg \ {m} : retryQ'[y] = retryQ[y]
        /\ Count(retryQ'[m], Wanted(i)) <= Count(retryQ[m], Wanted(i))
    BY <1>1, <1>2, <1>5, SettledQueue
  <2>2. retryQ[x] \in Seq(Copy)
    BY <1>1 DEF TypeOK
  <2>3. Count(retryQ[x], Wanted(i)) \in Nat
    BY <2>2, CountType
  <2> QED
    BY <2>1, <2>3
<1>7. AnswerHolds(i)' <= AnswerHolds(i)
  BY <1>1, HandledAnswers
<1>8. PollHolds(i)' = PollHolds(i) /\ SendHolds(i)' = SendHolds(i) /\ TaskHolds(i)' = TaskHolds(i)
  BY HoldsSame DEF poller
<1>9. CASE ~(i <= lastId)
  <2>1. TaskHolds(i)' <= TaskHolds(i)
    BY <1>1, <1>8, <1>9, NothingRefers
  <2> QED
    BY <1>6, <1>7, <1>9, <2>1, FreshBound
<1>10. CASE i <= lastId
  <2>1. interval'[i] = interval[i] /\ owner'[i] = owner[i]
    BY <1>1, <1>10, HandledTables
  <2>2. owner[i] \in Msg
    BY <1>1, <1>10 DEF IdsMatch, RecordOK
  <2>3. CopyHolds(i)' <= CopyHolds(i)
    BY <1>6, <2>1, <2>2, HoldsNext DEF CopyHolds
  <2>4. PICK p, s, c0, a, t, x \in Nat : Counted(i, p, s, c0, a, t, x)
    BY <1>1, <2>2, Counts
  <2>5. PICK p1, s1, c1, a1, t1, x1 \in Nat : Counted(i, p1, s1, c1, a1, t1, x1)'
    BY <1>1, <2>1, <2>2, CountsNext
  <2>6. p1 = p /\ s1 = s /\ c1 <= c0 /\ a1 <= a /\ t1 = t
    BY <1>7, <1>8, <2>3, <2>4, <2>5 DEF Counted
  <2>7. x1 <= x + e
    BY <2>4, <2>5, <2>6 DEF Counted
  <2>8. Bounded(i)
    BY DEF AllBounded
  <2> QED
    BY <1>3, <1>4, <2>1, <2>4, <2>5, <2>7, <2>8, KeepsBound DEF Counted
<1> QED
  BY <1>9, <1>10

\* What it does to the record whose copy it was: the copy goes, and the answer or
\* the copy published again takes its place.
LEMMA LockOwn ==
  ASSUME IInv, IInv', AllBounded, NEW m \in Msg, UNCHANGED <<eqTask, poller>>,
         NEW src \in {"business", "retry"}, NEW c \in Copy, Delivered(m, src, c),
         NEW d \in Copy, d.id = c.id, d.fromRecover = c.fromRecover,
         NEW more, more = << >> \/ more = <<d>>, NEW n \in {0, 1}, NEW k \in {0, 1},
         Handled(m, src, c, more, n, k), NEW i \in Id, c \in Wanted(i)
  PROVE  Bounded(i)'
<1>1. TypeOK /\ IdsMatch /\ TypeOK'
  BY DEF IInv
<1>2. Settle(m, src, more, k)
  BY DEF Handled
<1>3. PICK e \in Nat : e >= n + k /\ faults' = faults + e
  BY DEF Handled
<1>4. faults \in Nat /\ n \in Nat /\ k \in Nat /\ e >= n + k /\ e >= k
  BY <1>1, <1>3, ConstantsAssumption DEF TypeOK, ConstantsAssumption
<1>5. c.id = i /\ ~c.fromRecover /\ i # 0
  BY DEF Wanted, Id
<1>6. src = "retry" /\ i <= lastId /\ owner[i] = m
  <2>1. src = "retry"
    BY <1>5 DEF Delivered, InitialCopy
  <2> QED
    BY <1>1, <1>5, <2>1, DeliveredOK DEF RefersTo
<1>7. owner'[i] = owner[i] /\ (interval[i] = "NONE" => interval'[i] = "NONE")
  BY <1>1, <1>6, HandledTables
<1>8. interval[i] \in {"NONE", "TO_RETRY", "IN_RETRY"} /\ Bounded(i)
  BY <1>1 DEF TypeOK, AllBounded
<1>9. PICK p, s, c0, a, t, x \in Nat : Counted(i, p, s, c0, a, t, x)
  BY <1>1, <1>6, Counts
<1>10. PICK p1, s1, c1, a1, t1, x1 \in Nat : Counted(i, p1, s1, c1, a1, t1, x1)'
  BY <1>1, <1>6, <1>7, CountsNext
<1>11. c1 + 1 <= c0 + k + (IF more = << >> THEN 0 ELSE 1)
  <2>1. Count(retryQ'[m], Wanted(i)) + 1
          <= Count(retryQ[m], Wanted(i)) + k + (IF more = << >> THEN 0 ELSE 1)
    BY <1>1, <1>2, <1>6, SettledQueue
  <2> QED
    BY <1>6, <1>7, <1>9, <1>10, <2>1, HoldsNext DEF CopyHolds, Counted
<1>12. c1 <= c0 + k /\ (more = << >> => c1 + 1 <= c0 + k)
  BY <1>4, <1>11
<1>13. a1 <= a + 1 /\ (UNCHANGED eq => a1 = a)
  BY <1>1, <1>9, <1>10, HandledAnswers, HoldsSame DEF Counted
<1>14. p1 = p /\ s1 = s /\ t1 = t
  BY <1>9, <1>10, HoldsSame DEF Counted, poller
<1>15. ASSUME UNCHANGED interval, c1 + a1 <= c0 + a + k
       PROVE  Bounded(i)'
  <2>1. x1 <= x + e
    BY <1>4, <1>9, <1>10, <1>14, <1>15 DEF Counted
  <2>2. interval'[i] \in {"NONE", interval[i]} /\ Bounded(i)
    BY <1>8, <1>15
  <2> QED
    BY <1>3, <1>4, <1>9, <1>10, <2>1, <2>2, KeepsBound DEF Counted
<1>16. ASSUME c1 + a1 + 1 <= c0 + a + n + k
       PROVE  Bounded(i)'
  <2>1. x1 + 1 <= x + e
    BY <1>4, <1>9, <1>10, <1>14, <1>16 DEF Counted
  <2> QED
    BY <1>3, <1>4, <1>7, <1>8, <1>9, <1>10, <2>1, FreesBound DEF Counted
<1>17. CASE UNCHANGED <<eq, tables>>
  <2>1. a1 = a
    BY <1>13, <1>17
  <2>2. c1 + a1 <= c0 + a + k
    BY <1>4, <1>12, <2>1
  <2> QED
    BY <1>15, <1>17, <2>2 DEF tables
<1>18. CASE more = << >> /\ UNCHANGED eq
  <2>1. a1 = a /\ c1 + 1 <= c0 + k
    BY <1>12, <1>13, <1>18
  <2>2. c1 + a1 + 1 <= c0 + a + n + k
    BY <1>4, <2>1
  <2> QED
    BY <1>16, <2>2
<1>19. CASE more = << >> /\ UNCHANGED tables
  <2>1. c1 + 1 <= c0 + k
    BY <1>12, <1>19
  <2>2. c1 + a1 <= c0 + a + k
    BY <1>4, <1>13, <2>1
  <2> QED
    BY <1>15, <1>19, <2>2 DEF tables
<1>20. CASE more = << >> /\ n = 1
  <2>1. c1 + 1 <= c0 + k
    BY <1>12, <1>20
  <2>2. c1 + a1 + 1 <= c0 + a + n + k
    BY <1>4, <1>13, <1>20, <2>1
  <2> QED
    BY <1>16, <2>2
<1> QED
  BY <1>17, <1>18, <1>19, <1>20 DEF Handled

\* A delivery keeps every record within its bound.
LEMMA LockConsume ==
  ASSUME IInv, IInv', AllBounded, NEW m \in Msg, Consume(m), NEW i \in Id
  PROVE  Bounded(i)'
<1>1. TypeOK /\ TypeOK'
  BY DEF IInv
<1>2. UNCHANGED <<eqTask, poller>>
  BY <1>1, ConsumeStep
<1>3. ASSUME NEW src \in {"business", "retry"}, NEW c \in Copy, Delivered(m, src, c),
             NEW d \in Copy, d.id = c.id, d.fromRecover = c.fromRecover,
             NEW more, more = << >> \/ more = <<d>>, NEW n \in {0, 1}, NEW k \in {0, 1},
             Handled(m, src, c, more, n, k)
      PROVE  Bounded(i)'
  <2>1. CASE c \in Wanted(i)
    BY <1>2, <1>3, <2>1, LockOwn
  <2>2. CASE c \notin Wanted(i)
    BY <1>2, <1>3, <2>2, LockOther
  <2> QED
    BY <2>1, <2>2
<1>4. CASE UNCHANGED <<retryQ, eq, tables>> /\ faults' = faults + 1
  <2>1. PollHolds(i)' = PollHolds(i) /\ SendHolds(i)' = SendHolds(i)
        /\ CopyHolds(i)' = CopyHolds(i) /\ AnswerHolds(i)' = AnswerHolds(i)
        /\ TaskHolds(i)' = TaskHolds(i)
    BY <1>2, <1>4, HoldsSame DEF poller, tables
  <2>2. owner[i] \in Msg => PollHolds(i) \in Nat /\ SendHolds(i) \in Nat /\ CopyHolds(i) \in Nat
                            /\ AnswerHolds(i) \in Nat /\ TaskHolds(i) \in Nat
    BY <1>1, HoldsType
  <2> QED
    BY <1>4, <2>1, <2>2, LockFrame DEF tables
<1>5. ASSUME NEW src \in {"business", "retry"}, NEW c \in Copy, NEW d \in Copy,
             NEW n \in {0, 1}, NEW k \in {0, 1},
             Delivered(m, src, c), d.id = c.id, d.fromRecover = c.fromRecover,
             Handled(m, src, c, << >>, n, k) \/ Handled(m, src, c, <<d>>, n, k)
      PROVE  Bounded(i)'
  <2>1. CASE Handled(m, src, c, << >>, n, k)
    BY <1>3, <1>5, <2>1
  <2>2. CASE Handled(m, src, c, <<d>>, n, k)
    BY <1>3, <1>5, <2>2
  <2> QED
    BY <1>5, <2>1, <2>2
<1> QED
  BY <1>1, <1>4, <1>5, ConsumeHandled

-----------------------------------------------------------------------------
(* The EQ threads. *)

\* A request a thread takes up is no longer in its hands.
LEMMA TaskTaken ==
  ASSUME TypeOK, NEW w \in EqWorker, eqTask[w] # << >>,
         eqTask' = [eqTask EXCEPT ![w] = Tail(@)], NEW i
  PROVE  /\ Head(eqTask[w]) \in Request
         /\ TaskHolds(i)' <= TaskHolds(i)
         /\ Answers(Head(eqTask[w]), i) => TaskHolds(i)' + 1 <= TaskHolds(i)
<1> DEFINE A == Reply(i)
           q == Head(eqTask[w])
<1>1. eqTask \in [EqWorker -> Seq(Request)] /\ eqTask[w] \in Seq(Request)
  BY DEF TypeOK
<1>2. q \in Request /\ Tail(eqTask[w]) \in Seq(Request)
  BY <1>1, RangeHeadTail
<1>3. PICK u \in [EqWorker -> Seq(Request)] :
        /\ u = eqTask' /\ u[w] = Tail(eqTask[w])
        /\ \A v \in EqWorker \ {w} : u[v] = eqTask[v]
  BY <1>1, <1>2
<1>4. q \in A <=> Answers(q, i)
  BY <1>2 DEF Reply
<1> HIDE DEF A, q
<1>5. /\ Count(Tail(eqTask[w]), A) <= Count(eqTask[w], A)
      /\ q \in A => Count(Tail(eqTask[w]), A) + 1 <= Count(eqTask[w], A)
  BY <1>1, CountTail DEF q
<1>6. Cardinality(Rows(u, A)) + Count(eqTask[w], A)
        = Cardinality(Rows(eqTask, A)) + Count(u[w], A)
  <2>1. eqTask \in [EqWorker -> Seq(Request)] /\ \A v \in EqWorker \ {w} : u[v] = eqTask[v]
    BY <1>1, <1>3
  <2> QED
    BY <2>1, RowsChange
<1>7. PICK r0, r1, n0, n1 \in Nat :
        /\ r0 = Cardinality(Rows(eqTask, A)) /\ r1 = Cardinality(Rows(u, A))
        /\ n0 = Count(eqTask[w], A) /\ n1 = Count(u[w], A)
  BY <1>1, <1>2, <1>3, CountType, RowsFinite
<1>8. r1 + n0 = r0 + n1 /\ n1 <= n0 /\ (q \in A => n1 + 1 <= n0)
  BY <1>3, <1>5, <1>6, <1>7
<1>9. r1 <= r0 /\ (q \in A => r1 + 1 <= r0)
  BY <1>8
<1>10. TaskHolds(i) = r0 /\ TaskHolds(i)' = r1
  BY <1>3, <1>7, HoldsNext DEF TaskHolds, A
<1> QED
  BY <1>2, <1>4, <1>9, <1>10 DEF q

\* The requests drained move from the exception queue to the thread.
LEMMA TasksDrained ==
  ASSUME TypeOK, NEW w \in EqWorker, EqDrain(w), NEW i
  PROVE  \E a, t, a1, t1 \in Nat :
           /\ AnswerHolds(i) = a /\ TaskHolds(i) = t
           /\ AnswerHolds(i)' = a1 /\ TaskHolds(i)' = t1
           /\ a1 + t1 <= a + t
<1> DEFINE A == Reply(i)
<1>1. PICK n \in 1 .. Len(eq) : /\ eqTask' = [eqTask EXCEPT ![w] = SubSeq(eq, 1, n)]
                                /\ eq' = SubSeq(eq, n + 1, Len(eq))
  BY DEF EqDrain
<1>2. eqTask \in [EqWorker -> Seq(Request)] /\ eq \in Seq(Request) /\ eqTask[w] = << >>
  BY DEF TypeOK, EqDrain
<1>3. SubSeq(eq, 1, n) \in Seq(Request) /\ SubSeq(eq, n + 1, Len(eq)) \in Seq(Request)
  BY <1>2, RangeCut
<1>4. PICK u \in [EqWorker -> Seq(Request)] :
        /\ u = eqTask' /\ u[w] = SubSeq(eq, 1, n)
        /\ \A v \in EqWorker \ {w} : u[v] = eqTask[v]
  BY <1>1, <1>2, <1>3
<1> HIDE DEF A
<1>5. Count(SubSeq(eq, 1, n), A) + Count(SubSeq(eq, n + 1, Len(eq)), A) <= Count(eq, A)
  BY <1>2, CountCut
<1>6. Cardinality(Rows(u, A)) + Count(eqTask[w], A)
        = Cardinality(Rows(eqTask, A)) + Count(u[w], A)
  <2>1. eqTask \in [EqWorker -> Seq(Request)] /\ \A v \in EqWorker \ {w} : u[v] = eqTask[v]
    BY <1>2, <1>4
  <2> QED
    BY <2>1, RowsChange
<1>7. PICK r0, r1, n0, n1, a0, a1 \in Nat :
        /\ r0 = Cardinality(Rows(eqTask, A)) /\ r1 = Cardinality(Rows(u, A))
        /\ n0 = Count(eqTask[w], A) /\ n1 = Count(SubSeq(eq, 1, n), A)
        /\ a0 = Count(eq, A) /\ a1 = Count(SubSeq(eq, n + 1, Len(eq)), A)
  <2>1. eqTask[w] \in Seq(Request)
    BY <1>2
  <2> QED
    BY <1>2, <1>3, <1>4, <2>1, CountType, RowsFinite
<1>8. n0 = 0
  <2>1. Places(eqTask[w], A) = {}
    BY <1>2, EmptySeq DEF Places
  <2> QED
    BY <1>7, <2>1, FS_EmptySet DEF Count
<1>9. r1 + n0 = r0 + n1 /\ n1 + a1 <= a0
  BY <1>4, <1>5, <1>6, <1>7
<1>10. a1 + r1 <= a0 + r0
  BY <1>8, <1>9
<1>11. /\ TaskHolds(i) = r0 /\ TaskHolds(i)' = r1
       /\ AnswerHolds(i) = a0 /\ AnswerHolds(i)' = a1
  BY <1>1, <1>4, <1>7, HoldsNext DEF TaskHolds, AnswerHolds, A
<1> QED
  BY <1>10, <1>11

\* A round of an EQ thread.
LEMMA LockDrain ==
  ASSUME IInv, IInv', AllBounded, NEW w \in EqWorker, EqDrain(w), NEW i \in Id, owner[i] \in Msg
  PROVE  Bounded(i)'
<1>1. TypeOK /\ TypeOK' /\ faults \in Nat
  BY FaultsCount DEF IInv
<1>2. UNCHANGED <<retryQ, owner, polled, sendTask, interval, faults>>
  BY DEF EqDrain, queues, tables, poller
<1>3. PICK p, s, c, a, t, x \in Nat : Counted(i, p, s, c, a, t, x)
  BY <1>1, Counts
<1>4. PICK p1, s1, c1, a1, t1, x1 \in Nat : Counted(i, p1, s1, c1, a1, t1, x1)'
  BY <1>1, <1>2, CountsNext
<1>5. p1 = p /\ s1 = s /\ c1 = c /\ a1 + t1 <= a + t
  BY <1>1, <1>2, <1>3, <1>4, HoldsSame, TasksDrained DEF Counted
<1>6. x1 <= x + 0
  BY <1>3, <1>4, <1>5 DEF Counted
<1>7. faults' = faults + 0
  BY <1>1, <1>2
<1> QED
  BY <1>1, <1>2, <1>3, <1>4, <1>6, <1>7, KeepsBound DEF Counted, AllBounded

\* A thread that processes a request.
LEMMA LockProcess ==
  ASSUME IInv, IInv', AllBounded, NEW w \in EqWorker, EqProcess(w), NEW i \in Id
  PROVE  Bounded(i)'
<1> DEFINE q == Head(eqTask[w])
<1>1. TypeOK /\ TypeOK' /\ IdsMatch /\ faults \in Nat
  BY FaultsCount DEF IInv
<1>2. /\ UNCHANGED <<retryQ, eq, polled, sendTask, poller, faults>>
      /\ eqTask[w] # << >> /\ eqTask' = [eqTask EXCEPT ![w] = Tail(@)]
      /\ UNCHANGED tables \/ Process(q)
  BY DEF EqProcess, queues, poller
<1>3. /\ q \in Request
      /\ TaskHolds(i)' <= TaskHolds(i)
      /\ Answers(q, i) => TaskHolds(i)' + 1 <= TaskHolds(i)
  BY <1>1, <1>2, TaskTaken
<1> HIDE DEF q
<1>4. AnswerHolds(i)' = AnswerHolds(i) /\ AnswerHolds(i) \in Nat
  BY <1>1, <1>2, HoldsSame, CountType DEF TypeOK, AnswerHolds
<1>5. CASE ~(i <= lastId)
  <2>1. ASSUME NEW m \in Msg
        PROVE  Count(retryQ'[m], Wanted(i)) <= Count(retryQ[m], Wanted(i))
    <3>1. retryQ[m] \in Seq(Copy) /\ retryQ' = retryQ
      BY <1>1, <1>2 DEF TypeOK
    <3>2. Count(retryQ[m], Wanted(i)) \in Nat
      BY <3>1, CountType
    <3> QED
      BY <3>1, <3>2
  <2> QED
    BY <1>2, <1>3, <1>4, <1>5, <2>1, FreshBound
<1>6. CASE i <= lastId
  <2>1. /\ owner[i] \in Msg /\ owner'[i] = owner[i]
        /\ interval[i] = "NONE" => interval'[i] = "NONE"
        /\ ~Answers(q, i) => interval'[i] = interval[i]
    <3>1. owner[i] \in Msg
      BY <1>1, <1>6 DEF IdsMatch, RecordOK
    <3>2. CASE UNCHANGED tables
      BY <3>1, <3>2 DEF tables
    <3>3. CASE Process(q)
      BY <1>1, <1>3, <1>6, <3>1, <3>3, ProcessInterval
    <3> QED
      BY <1>2, <3>2, <3>3
  <2>2. PICK p, s, c, a, t, x \in Nat : Counted(i, p, s, c, a, t, x)
    BY <1>1, <2>1, Counts
  <2>3. PICK p1, s1, c1, a1, t1, x1 \in Nat : Counted(i, p1, s1, c1, a1, t1, x1)'
    BY <1>1, <2>1, CountsNext
  <2>4. CopyHolds(i)' = CopyHolds(i)
    BY <1>2, <2>1, HoldsNext DEF CopyHolds
  <2>5. p1 = p /\ s1 = s /\ c1 = c /\ a1 = a /\ t1 <= t /\ (Answers(q, i) => t1 + 1 <= t)
    BY <1>2, <1>3, <1>4, <2>2, <2>3, <2>4, HoldsSame DEF Counted
  <2>6. x1 <= x + 0 /\ (Answers(q, i) => x1 + 1 <= x + 0)
    BY <2>2, <2>3, <2>5 DEF Counted
  <2>7. faults' = faults + 0
    BY <1>1, <1>2
  <2>8. interval[i] \in {"NONE", "TO_RETRY", "IN_RETRY"}
    BY <1>1 DEF TypeOK
  <2>9. CASE Answers(q, i)
    BY <1>1, <2>1, <2>2, <2>3, <2>6, <2>7, <2>8, <2>9, FreesBound DEF Counted, AllBounded
  <2>10. CASE ~Answers(q, i)
    BY <1>1, <2>1, <2>2, <2>3, <2>6, <2>7, <2>10, KeepsBound DEF Counted, AllBounded
  <2> QED
    BY <2>9, <2>10
<1> QED
  BY <1>5, <1>6

-----------------------------------------------------------------------------
(* The interval-retry task. *)

\* Checking a record out, done or believed to be done (a fault).
LEMMA LockCheckOut ==
  ASSUME IInv, IInv', AllBounded, CheckOut \/ CheckOutThrows, NEW i \in Id, owner[i] \in Msg
  PROVE  Bounded(i)'
<1>1. /\ TypeOK /\ TypeOK' /\ faults \in Nat /\ Bounded(i)
      /\ interval \in [Id -> {"NONE", "TO_RETRY", "IN_RETRY"}] /\ polled.id \in Id0
      /\ polled \in [phase : {"idle", "read", "out"}, id : Id0, retried : Nat]
  <2>1. TypeOK /\ TypeOK' /\ Bounded(i)
    BY DEF IInv, AllBounded
  <2>2. faults \in Nat
    BY <2>1, FaultsCount
  <2>3. /\ interval \in [Id -> {"NONE", "TO_RETRY", "IN_RETRY"}]
        /\ polled \in [phase : {"idle", "read", "out"}, id : Id0, retried : Nat]
    BY <2>1 DEF TypeOK
  <2>4. polled.id \in Id0
    BY <2>3
  <2> QED
    BY <2>1, <2>2, <2>3, <2>4
<1>2. UNCHANGED <<retryQ, owner, sendTask, eq, eqTask>> /\ polled.phase = "read"
  BY DEF CheckOut, CheckOutThrows, queues
<1>3. PICK e \in {0, 1} : /\ faults' = faults + e
                          /\ CheckOut => e = 0
                          /\ CheckOutThrows => e = 1
  <2>1. CASE CheckOut
    <3>1. faults' = faults + 0
      BY <1>1, <2>1 DEF CheckOut
    <3>2. ~CheckOutThrows \/ faults' = faults + 1
      BY DEF CheckOutThrows, Spend
    <3> QED
      BY <1>1, <2>1, <3>1, <3>2
  <2>2. CASE CheckOutThrows /\ ~CheckOut
    <3>1. faults' = faults + 1
      BY <2>2 DEF CheckOutThrows, Spend
    <3> QED
      BY <2>2, <3>1
  <2> QED
    BY <2>1, <2>2
<1>4. PICK p, s, c, a, t, x \in Nat : Counted(i, p, s, c, a, t, x)
  BY <1>1, Counts
<1>5. PICK p1, s1, c1, a1, t1, x1 \in Nat : Counted(i, p1, s1, c1, a1, t1, x1)'
  BY <1>1, <1>2, CountsNext
<1>6. p = 0 /\ p1 <= 1 /\ s1 = s /\ c1 = c /\ a1 = a /\ t1 = t
  BY <1>2, <1>4, <1>5, HoldsSame DEF Counted, PollHolds
<1>7. x1 <= x + p1 /\ e \in Nat
  BY <1>4, <1>5, <1>6 DEF Counted
<1>8. CASE interval[i] = "TO_RETRY" /\ interval'[i] = "IN_RETRY"
  <2>1. x <= faults
    BY <1>1, <1>4, <1>8 DEF Bounded, Counted
  <2>2. x1 <= (faults + e) + 1
    BY <1>1, <1>6, <1>7, <2>1
  <2>3. Total(i)' = x1
    BY <1>5 DEF Counted
  <2> QED
    BY <1>3, <1>8, <2>2, <2>3 DEF Bounded
<1>9. CASE interval'[i] = interval[i]
  <2>1. p1 <= e
    <3>1. CASE CheckOut
      <4>1. CASE polled.id # i \/ interval[i] # "TO_RETRY"
        <5>1. ~(polled'.phase = "out" /\ polled'.id = i)
          BY <1>1, <3>1, <4>1 DEF CheckOut, Idle
        <5>2. p1 = 0
          BY <1>5, <5>1 DEF Counted, PollHolds
        <5> QED
          BY <1>7, <5>2
      <4>2. CASE polled.id = i /\ interval[i] = "TO_RETRY"
        BY <1>1, <1>9, <3>1, <4>2 DEF CheckOut
      <4> QED
        BY <4>1, <4>2
    <3>2. CASE CheckOutThrows
      BY <1>3, <1>6, <3>2
    <3> QED
      BY <3>1, <3>2
  <2>2. x1 <= x + e
    BY <1>7, <2>1
  <2> QED
    BY <1>1, <1>3, <1>4, <1>5, <1>7, <1>9, <2>2, KeepsBound DEF Counted
<1>10. interval'[i] = interval[i] \/ (interval[i] = "TO_RETRY" /\ interval'[i] = "IN_RETRY")
  BY <1>1 DEF CheckOut, CheckOutThrows
<1> QED
  BY <1>8, <1>9, <1>10

\* The poller gives its record to a pool thread.
LEMMA LockHandOff ==
  ASSUME IInv, IInv', AllBounded, NEW w \in SendWorker, HandOff(w), NEW i \in Id, owner[i] \in Msg
  PROVE  Bounded(i)'
<1>1. /\ TypeOK /\ TypeOK' /\ faults \in Nat
      /\ sendTask \in [SendWorker -> [id : Id0, retried : Nat]]
  BY FaultsCount, SendersType DEF IInv
<1>2. /\ UNCHANGED <<retryQ, owner, interval, eq, eqTask, faults>>
      /\ polled.phase = "out" /\ sendTask[w] = NoRecord /\ polled' = Idle
      /\ sendTask' = [sendTask EXCEPT ![w] = [id |-> polled.id, retried |-> polled.retried]]
  BY DEF HandOff, queues, tables
<1>3. i # 0
  BY DEF Id
<1>4. PICK p, s, c, a, t, x \in Nat : Counted(i, p, s, c, a, t, x)
  BY <1>1, Counts
<1>5. PICK p1, s1, c1, a1, t1, x1 \in Nat : Counted(i, p1, s1, c1, a1, t1, x1)'
  BY <1>1, <1>2, CountsNext
<1>6. p1 + s1 <= p + s
  <2>1. p1 = 0
    BY <1>2, <1>5 DEF Counted, PollHolds, Idle
  <2>2. CASE polled.id = i
    <3>1. p = 1
      BY <1>2, <1>4, <2>2 DEF Counted, PollHolds
    <3>2. Senders(i)' = Senders(i) \cup {w} /\ w \notin Senders(i)
      BY <1>1, <1>2, <1>3, <2>2 DEF Senders, NoRecord
    <3>3. Cardinality(Senders(i) \cup {w}) = Cardinality(Senders(i)) + 1
      BY <3>2, SendersFinite, FS_AddElement
    <3>4. s1 = s + 1
      BY <1>4, <1>5, <3>2, <3>3 DEF Counted, SendHolds
    <3> QED
      BY <2>1, <3>1, <3>4
  <2>3. CASE polled.id # i
    <3>1. Senders(i)' = Senders(i)
      BY <1>1, <1>2, <1>3, <2>3 DEF Senders, NoRecord
    <3>2. s1 = s
      BY <1>4, <1>5, <3>1 DEF Counted, SendHolds
    <3> QED
      BY <2>1, <3>2
  <2> QED
    BY <2>2, <2>3
<1>7. c1 = c /\ a1 = a /\ t1 = t
  BY <1>2, <1>4, <1>5, HoldsSame DEF Counted
<1>8. x1 <= x + 0
  BY <1>4, <1>5, <1>6, <1>7 DEF Counted
<1>9. faults' = faults + 0
  BY <1>1, <1>2
<1> QED
  BY <1>1, <1>2, <1>4, <1>5, <1>8, <1>9, KeepsBound DEF Counted, AllBounded

\* A copy that joins a retry queue.
LEMMA CopyJoins ==
  ASSUME TypeOK, NEW m \in Msg, NEW d \in Copy,
         retryQ' = [retryQ EXCEPT ![m] = Append(@, d)], UNCHANGED owner,
         NEW i \in Id, owner[i] \in Msg
  PROVE  /\ CopyHolds(i)' <= CopyHolds(i) + 1
         /\ d \notin Wanted(i) => CopyHolds(i)' <= CopyHolds(i)
<1>1. retryQ \in [Msg -> Seq(Copy)] /\ retryQ[owner[i]] \in Seq(Copy)
  BY DEF TypeOK
<1>2. /\ retryQ'[m] = Append(retryQ[m], d)
      /\ \A y \in Msg \ {m} : retryQ'[y] = retryQ[y]
  BY <1>1
<1>3. CopyHolds(i) \in Nat
  BY <1>1, CountType DEF CopyHolds
<1>4. CASE owner[i] = m
  <2>1. /\ Count(Append(retryQ[m], d), Wanted(i)) <= Count(retryQ[m], Wanted(i)) + 1
        /\ d \notin Wanted(i) =>
             Count(Append(retryQ[m], d), Wanted(i)) = Count(retryQ[m], Wanted(i))
    BY <1>1, <1>4, CountAppend
  <2>2. CopyHolds(i)' = Count(Append(retryQ[m], d), Wanted(i))
    BY <1>2, <1>4, HoldsNext
  <2>3. CopyHolds(i) = Count(retryQ[m], Wanted(i))
    BY <1>4 DEF CopyHolds
  <2>4. d \notin Wanted(i) => CopyHolds(i)' = CopyHolds(i)
    BY <2>1, <2>2, <2>3
  <2> QED
    BY <1>3, <2>1, <2>2, <2>3, <2>4
<1>5. CASE owner[i] # m
  <2>1. CopyHolds(i)' = CopyHolds(i)
    BY <1>2, <1>5, HoldsNext DEF CopyHolds
  <2> QED
    BY <1>3, <2>1
<1> QED
  BY <1>4, <1>5

\* The pool thread sends its record to the retry queue, or loses it.
LEMMA LockSendCopy ==
  ASSUME IInv, IInv', AllBounded, NEW w \in SendWorker, SendCopy(w), NEW i \in Id, owner[i] \in Msg
  PROVE  Bounded(i)'
<1> DEFINE d == [id |-> sendTask[w].id, retried |-> sendTask[w].retried, fromRecover |-> FALSE]
           m == owner[sendTask[w].id]
<1>1. /\ TypeOK /\ TypeOK' /\ IdsMatch /\ faults \in Nat
      /\ sendTask \in [SendWorker -> [id : Id0, retried : Nat]]
  BY FaultsCount, SendersType DEF IInv
<1>2. /\ UNCHANGED <<owner, interval, polled, eq, eqTask, faults>>
      /\ sendTask[w] # NoRecord /\ sendTask' = [sendTask EXCEPT ![w] = NoRecord]
      /\ retryQ' = [retryQ EXCEPT ![m] = Append(@, d)] \/ UNCHANGED retryQ
  BY DEF SendCopy, tables
<1>3. d \in Copy /\ d.id = sendTask[w].id
  BY <1>1 DEF Copy
<1>4. m \in Msg
  <2>1. HeldOK(sendTask[w]) /\ lastId \in Id0
    BY <1>1, <1>2 DEF IdsMatch, TypeOK
  <2>2. sendTask[w].id \in Id /\ sendTask[w].id <= lastId
    BY <2>1, ConstantsAssumption DEF ConstantsAssumption, HeldOK, Id, Id0
  <2> QED
    BY <1>1, <2>2 DEF IdsMatch, RecordOK
<1> HIDE DEF d, m
<1>5. i # 0
  BY DEF Id
<1>6. PICK p, s, c, a, t, x \in Nat : Counted(i, p, s, c, a, t, x)
  BY <1>1, Counts
<1>7. PICK p1, s1, c1, a1, t1, x1 \in Nat : Counted(i, p1, s1, c1, a1, t1, x1)'
  BY <1>1, <1>2, CountsNext
<1>8. c1 <= c + 1 /\ (d \notin Wanted(i) => c1 <= c)
  <2>1. CASE UNCHANGED retryQ
    <3>1. c1 = c
      BY <1>2, <1>6, <1>7, <2>1, HoldsSame DEF Counted
    <3> QED
      BY <3>1
  <2>2. CASE retryQ' = [retryQ EXCEPT ![m] = Append(@, d)]
    <3>1. /\ CopyHolds(i)' <= CopyHolds(i) + 1
          /\ d \notin Wanted(i) => CopyHolds(i)' <= CopyHolds(i)
      BY <1>1, <1>2, <1>3, <1>4, <2>2, CopyJoins
    <3> QED
      BY <1>6, <1>7, <3>1 DEF Counted
  <2> QED
    BY <1>2, <2>1, <2>2
<1>9. c1 + s1 <= c + s
  <2>1. CASE sendTask[w].id = i
    <3>1. Senders(i) = Senders(i)' \cup {w} /\ w \notin Senders(i)'
      BY <1>1, <1>2, <1>5, <2>1 DEF Senders, NoRecord
    <3>2. IsFiniteSet(Senders(i)')
      BY ConstantsAssumption, FS_Subset DEF ConstantsAssumption, Senders
    <3>3. Cardinality(Senders(i)' \cup {w}) = Cardinality(Senders(i)') + 1
      BY <3>1, <3>2, FS_AddElement
    <3>4. s = s1 + 1
      BY <1>6, <1>7, <3>1, <3>3 DEF Counted, SendHolds
    <3> QED
      BY <1>8, <3>4
  <2>2. CASE sendTask[w].id # i
    <3>1. d \notin Wanted(i)
      BY <1>3, <2>2 DEF Wanted
    <3>2. Senders(i)' = Senders(i)
      BY <1>1, <1>2, <1>5, <2>2 DEF Senders, NoRecord
    <3>3. s1 = s
      BY <1>6, <1>7, <3>2 DEF Counted, SendHolds
    <3> QED
      BY <1>8, <3>1, <3>3
  <2> QED
    BY <2>1, <2>2
<1>10. p1 = p /\ a1 = a /\ t1 = t
  BY <1>2, <1>6, <1>7, HoldsSame DEF Counted
<1>11. x1 <= x + 0
  BY <1>6, <1>7, <1>9, <1>10 DEF Counted
<1>12. faults' = faults + 0
  BY <1>1, <1>2
<1> QED
  BY <1>1, <1>2, <1>6, <1>7, <1>11, <1>12, KeepsBound DEF Counted, AllBounded

-----------------------------------------------------------------------------
(* The theorem. *)

\* Where nobody's hold changes, the counts do not grow.
LEMMA NoMoreHolders ==
  ASSUME TypeOK, NEW i \in Id, UNCHANGED <<retryQ, owner, eq>>,
         owner[i] \in Msg,
         UNCHANGED sendTask \/ sendTask' = [w \in SendWorker |-> NoRecord],
         UNCHANGED polled \/ polled' = Idle \/ polled'.phase = "read",
         UNCHANGED eqTask \/ eqTask' = [w \in EqWorker |-> << >>]
  PROVE  /\ PollHolds(i)' <= PollHolds(i) /\ SendHolds(i)' <= SendHolds(i)
         /\ CopyHolds(i)' <= CopyHolds(i) /\ AnswerHolds(i)' <= AnswerHolds(i)
         /\ TaskHolds(i)' <= TaskHolds(i)
<1>1. PICK p, s, c, a, t, x \in Nat : Counted(i, p, s, c, a, t, x)
  BY Counts
<1>2. p <= p /\ s <= s /\ c <= c /\ a <= a /\ t <= t /\ 0 <= p /\ 0 <= s /\ 0 <= t
  OBVIOUS
<1>3. CopyHolds(i)' <= CopyHolds(i) /\ AnswerHolds(i)' <= AnswerHolds(i)
  BY <1>1, <1>2, HoldsSame DEF Counted
<1>4. PollHolds(i)' <= PollHolds(i)
  <2>1. CASE UNCHANGED polled
    BY <1>1, <1>2, <2>1, HoldsSame DEF Counted
  <2>2. CASE polled' = Idle \/ polled'.phase = "read"
    <3>1. PollHolds(i)' = 0
      BY <2>2 DEF PollHolds, Idle
    <3> QED
      BY <1>1, <1>2, <3>1 DEF Counted
  <2> QED
    BY <2>1, <2>2
<1>5. SendHolds(i)' <= SendHolds(i)
  <2>1. CASE UNCHANGED sendTask
    BY <1>1, <1>2, <2>1, HoldsSame DEF Counted
  <2>2. CASE sendTask' = [w \in SendWorker |-> NoRecord]
    <3>1. Senders(i)' = {}
      BY <2>2 DEF Senders, NoRecord, Id
    <3>2. SendHolds(i)' = 0
      BY <3>1, FS_EmptySet DEF SendHolds
    <3> QED
      BY <1>1, <1>2, <3>2 DEF Counted
  <2> QED
    BY <2>1, <2>2
<1>6. TaskHolds(i)' <= TaskHolds(i)
  <2>1. CASE UNCHANGED eqTask
    BY <1>1, <1>2, <2>1, HoldsSame DEF Counted
  <2>2. CASE eqTask' = [w \in EqWorker |-> << >>]
    <3>1. \A w \in EqWorker : Row(eqTask'[w], w, Reply(i)) = {}
      BY <2>2, EmptySeq DEF Row, Places
    <3>2. Rows(eqTask', Reply(i)) = {}
      BY <3>1 DEF Rows
    <3>3. TaskHolds(i)' = 0
      BY <3>2, HoldsNext, FS_EmptySet
    <3> QED
      BY <1>1, <1>2, <3>3 DEF Counted
  <2> QED
    BY <2>1, <2>2
<1> QED
  BY <1>3, <1>4, <1>5, <1>6

\* A step of the center that takes no record in hand and checks none in or out.
LEMMA LockElsewhere ==
  ASSUME IInv, IInv', AllBounded, NEW i \in Id, UNCHANGED <<retryQ, owner, eq>>,
         UNCHANGED sendTask \/ sendTask' = [w \in SendWorker |-> NoRecord],
         UNCHANGED polled \/ polled' = Idle \/ polled'.phase = "read",
         UNCHANGED eqTask \/ eqTask' = [w \in EqWorker |-> << >>],
         interval'[i] \in {"NONE", interval[i]},
         UNCHANGED faults \/ Spend(0) \/ Spend(1)
  PROVE  Bounded(i)'
<1>1. TypeOK /\ faults \in Nat
  BY FaultsCount DEF IInv
<1>2. faults' = faults + 0 \/ faults' = faults + 1
  BY <1>1 DEF Spend
<1>3. owner[i] \in Msg =>
        /\ PollHolds(i)' <= PollHolds(i) /\ SendHolds(i)' <= SendHolds(i)
        /\ CopyHolds(i)' <= CopyHolds(i) /\ AnswerHolds(i)' <= AnswerHolds(i)
        /\ TaskHolds(i)' <= TaskHolds(i)
  BY <1>1, NoMoreHolders
<1>4. UNCHANGED owner /\ 0 \in Nat /\ 1 \in Nat
  OBVIOUS
<1>5. ASSUME NEW e \in Nat, faults' = faults + e
      PROVE  Bounded(i)'
  BY <1>3, <1>4, <1>5, LockFrame, SMTT(30)
<1> QED
  BY <1>2, <1>4, <1>5

\* The operator's copy is not one for a retry at intervals.
LEMMA LockOpSend ==
  ASSUME IInv, IInv', AllBounded, NEW t \in WebThread, OpSend(t), NEW i \in Id
  PROVE  Bounded(i)'
<1> DEFINE j == opTask[t].id
           d == [id |-> j, retried |-> 0, fromRecover |-> TRUE]
<1>1. TypeOK /\ IdsMatch /\ faults \in Nat
  BY FaultsCount, SMTT(30) DEF IInv
<1>2. /\ UNCHANGED <<owner, interval, eq, eqTask, polled, sendTask>>
      /\ Spend(0) \/ Spend(1)
      /\ retryQ' = [retryQ EXCEPT ![owner[j]] = Append(@, d)] \/ UNCHANGED retryQ
  BY DEF OpSend, poller, tables
<1>3. CASE UNCHANGED retryQ
  BY <1>2, <1>3, LockElsewhere
<1>4. CASE retryQ' = [retryQ EXCEPT ![owner[j]] = Append(@, d)]
  <2>1. owner[j] \in Msg /\ j \in Id
    BY <1>1, WebTaskOK DEF OpSend
  <2>2. d \in Copy /\ d.fromRecover
    BY <2>1, ConstantsAssumption DEF Copy, Id, Id0, ConstantsAssumption
  <2> HIDE DEF d, j
  <2>3. d \notin Wanted(i)
    BY <2>2 DEF Wanted
  <2>4. ASSUME owner[i] \in Msg
        PROVE  /\ PollHolds(i)' <= PollHolds(i) /\ SendHolds(i)' <= SendHolds(i)
               /\ CopyHolds(i)' <= CopyHolds(i) /\ AnswerHolds(i)' <= AnswerHolds(i)
               /\ TaskHolds(i)' <= TaskHolds(i)
    <3>1. CopyHolds(i)' <= CopyHolds(i)
      BY <1>1, <1>2, <1>4, <2>1, <2>2, <2>3, <2>4, CopyJoins
    <3>2. PICK p, s, c, a, k, x \in Nat : Counted(i, p, s, c, a, k, x)
      BY <1>1, <2>4, Counts
    <3>3. p <= p /\ s <= s /\ a <= a /\ k <= k
      OBVIOUS
    <3> QED
      BY <1>2, <3>1, <3>2, <3>3, HoldsSame DEF Counted
  <2>5. faults' = faults + 0 \/ faults' = faults + 1
    BY <1>2 DEF Spend
  <2>6. interval'[i] \in {"NONE", interval[i]} /\ UNCHANGED owner /\ 0 \in Nat /\ 1 \in Nat
    BY <1>2
  <2>7. ASSUME NEW e \in Nat, faults' = faults + e
        PROVE  Bounded(i)'
    BY <2>4, <2>6, <2>7, LockFrame
  <2> QED
    BY <2>5, <2>6, <2>7
<1> QED
  BY <1>2, <1>3, <1>4

\* No step exceeds the bound.
LEMMA LockStep == IInv /\ IInv' /\ AllBounded /\ [Next]_vars => AllBounded'
<1> SUFFICES ASSUME IInv, IInv', AllBounded, [Next]_vars, NEW i \in Id
             PROVE  Bounded(i)'
  BY DEF AllBounded, Id
<1> USE DEF queues, tables, poller, operator
<1>1. TypeOK' /\ IdsMatch'
  BY DEF IInv
<1>2. ASSUME UNCHANGED owner, owner[i] \in Msg => Bounded(i)'
      PROVE  Bounded(i)'
  <2>1. CASE owner[i] \notin Msg
    <3>1. interval'[i] = "NONE"
      BY <1>1, <1>2, <2>1 DEF IdsMatch, RecordOK
    <3> QED
      BY <3>1, NoRecordBound
  <2> QED
    BY <1>2, <2>1
<1>3. ASSUME NEW m \in Msg, Consume(m)
      PROVE  Bounded(i)'
  BY <1>3, LockConsume
<1>4. ASSUME NEW w \in EqWorker, EqDrain(w)
      PROVE  Bounded(i)'
  <2>1. UNCHANGED owner
    BY <1>4 DEF EqDrain
  <2> QED
    BY <1>2, <1>4, <2>1, LockDrain
<1>5. ASSUME NEW w \in EqWorker, EqProcess(w)
      PROVE  Bounded(i)'
  BY <1>5, LockProcess
<1>6. ASSUME NEW w \in EqWorker, EqProcessFails(w)
      PROVE  Bounded(i)'
  <2>1. /\ UNCHANGED <<retryQ, owner, interval, eq, polled, sendTask>>
        /\ eqTask[w] # << >> /\ eqTask' = [eqTask EXCEPT ![w] = Tail(@)]
        /\ faults' = faults + 1
    BY <1>6 DEF EqProcessFails, Spend
  <2>2. TypeOK /\ TaskHolds(i)' <= TaskHolds(i)
    BY <2>1, TaskTaken DEF IInv
  <2>3. ASSUME owner[i] \in Msg
        PROVE  /\ PollHolds(i)' <= PollHolds(i) /\ SendHolds(i)' <= SendHolds(i)
               /\ CopyHolds(i)' <= CopyHolds(i) /\ AnswerHolds(i)' <= AnswerHolds(i)
    <3>1. PICK p, s, c, a, t, x \in Nat : Counted(i, p, s, c, a, t, x)
      BY <2>2, <2>3, Counts
    <3>2. p <= p /\ s <= s /\ c <= c /\ a <= a
      OBVIOUS
    <3> QED
      BY <2>1, <3>1, <3>2, HoldsSame DEF Counted
  <2> QED
    BY <2>1, <2>2, <2>3, LockFrame
<1>7. CASE PollRead
  <2>1. polled'.phase = "read"
    BY <1>7 DEF PollRead
  <2> QED
    BY <1>7, <2>1, LockElsewhere DEF PollRead
<1>8. CASE CheckOut \/ CheckOutThrows
  <2>1. UNCHANGED owner
    BY <1>8 DEF CheckOut, CheckOutThrows
  <2> QED
    BY <1>2, <1>8, <2>1, LockCheckOut
<1>9. ASSUME NEW w \in SendWorker, HandOff(w)
      PROVE  Bounded(i)'
  <2>1. UNCHANGED owner
    BY <1>9 DEF HandOff
  <2> QED
    BY <1>2, <1>9, <2>1, LockHandOff
<1>10. ASSUME NEW w \in SendWorker, SendCopy(w)
       PROVE  Bounded(i)'
  <2>1. UNCHANGED owner
    BY <1>10 DEF SendCopy
  <2> QED
    BY <1>2, <1>10, <2>1, LockSendCopy
<1>11. ASSUME NEW s \in SUBSET Id, HkRead(s)
       PROVE  Bounded(i)'
  BY <1>11, LockElsewhere DEF HkRead
<1>12. CASE HkAcquire
  BY <1>12, LockElsewhere DEF HkAcquire
<1>13. CASE HkExecute
  <2>1. interval'[i] \in {"NONE", interval[i]} /\ UNCHANGED owner
    BY <1>13 DEF HkExecute, DoHouseKeep
  <2> QED
    BY <1>13, <2>1, LockElsewhere DEF HkExecute
<1>14. CASE HkAborts
  BY <1>14, LockElsewhere DEF HkAborts
<1>15. ASSUME NEW t \in WebThread,
              (\E j \in Id : OpFind(t, j)) \/ OpCheckOut(t) \/ OpCheckOutThrows(t)
       PROVE  Bounded(i)'
  BY <1>15, LockElsewhere DEF OpFind, OpCheckOut, OpCheckOutThrows
<1>16. ASSUME NEW t \in WebThread, OpSend(t)
       PROVE  Bounded(i)'
  BY <1>16, LockOpSend
<1>19. ASSUME NEW j \in Id, OpDelete(j)
       PROVE  Bounded(i)'
  BY <1>19, LockElsewhere DEF OpDelete
<1>17. CASE CenterCrash
  BY <1>17, LockElsewhere DEF CenterCrash
<1>18. CASE UNCHANGED vars
  BY <1>18, LockElsewhere DEF vars
<1> QED
  BY <1>3, <1>4, <1>5, <1>6, <1>7, <1>8, <1>9, <1>10, <1>11, <1>12, <1>13, <1>14, <1>15,
     <1>16, <1>17, <1>18, <1>19 DEF Next

\* There are no records at first.
LEMMA LockInit == Init => AllBounded
BY DEF Init, AllBounded, Bounded

\* The bound on the counts is IntervalLock.
LEMMA BoundIsLock == IInv /\ AllBounded => IntervalLock
<1> SUFFICES ASSUME IInv, AllBounded, NEW i \in Id
             PROVE  /\ interval[i] = "TO_RETRY" => Cardinality(Holders(i)) <= faults
                    /\ interval[i] = "IN_RETRY" => Cardinality(Holders(i)) <= faults + 1
  BY DEF IntervalLock
<1>1. TypeOK /\ IdsMatch
  BY DEF IInv
<1>2. CASE owner[i] \notin Msg
  BY <1>1, <1>2 DEF IdsMatch, RecordOK
<1>3. CASE owner[i] \in Msg
  <2>1. Cardinality(Holders(i)) = Total(i)
    BY <1>1, <1>3, HoldersCounted
  <2> QED
    BY <2>1 DEF AllBounded, Bounded
<1> QED
  BY <1>2, <1>3

\* A record is held by no more places than there have been faults, and by one
\* more while it is checked out.
THEOREM RetryIsLocked == Spec => []IntervalLock
<1>1. Init => IInv
  BY IInvInit
<1>2. Spec => []IInv
  BY Inductive
<1> QED
  BY <1>1, <1>2, LockInit, LockStep, BoundIsLock, PTL DEF Spec
=============================================================================

----------------------- MODULE ClientRegistration_proofs -----------------------
(***************************************************************************)
(* Theorems about ClientRegistration, for any instances, services, brokers *)
(* and number of faults: type correctness, what the cache may show, and    *)
(* that a registered client is served.                                     *)
(***************************************************************************)
EXTENDS ClientRegistration, TLAPS

\* The rows r agree with the table as far as they go.
Misses(r) == \A s \in Services : r[s] \in {NoConfig, table[s]}

\* What is cached, and what is fetched and about to be cached, only misses rows.
ReadsMiss ==
  /\ cache # NoRows => Misses(cache)
  /\ \A i \in Instance : list[i] # NoRows => Misses(list[i])

\* From the moment on that a request has seen or made its row, the row is there.
RowsStay ==
  \A i \in Instance : pc[i] \in {"update", "template", "up"} => table[Service[i]] # NoConfig

\* If there is a row there is a template, or a request that is about to set it.
TemplateFollows ==
  (\E s \in Services : table[s] # NoConfig) =>
    template # NoConfig \/ \E j \in Instance : pc[j] = "template"

\* The inductive invariant.
IInv == TypeOK /\ ReadsMiss /\ RowsStay /\ TemplateFollows

-----------------------------------------------------------------------------

\* A cell of the table.
LEMMA Cells ==
  ASSUME NEW r \in Rows, NEW s \in Services
  PROVE  r[s] \in Config \cup {NoConfig}
  BY DEF Rows

\* The table with another cell.
LEMMA OtherCell ==
  ASSUME NEW r \in Rows, NEW s \in Services, NEW c \in Config
  PROVE  /\ [r EXCEPT ![s] = c] \in Rows
         /\ [r EXCEPT ![s] = c][s] = c
         /\ \A t \in Services \ {s} : [r EXCEPT ![s] = c][t] = r[t]
  BY DEF Rows

\* The row of an instance.
LEMMA ServiceTyped == ASSUME NEW i \in Instance PROVE Service[i] \in Services
  BY ConstantsAssumption

\* A configuration is something.
LEMMA ConfigIsSomething == \A c \in Config : c # NoConfig
  BY ConstantsAssumption

\* The invariant holds before the first step.
LEMMA InitInv == Init => IInv
<1> SUFFICES ASSUME Init PROVE IInv
  OBVIOUS
<1>1. config \in [Instance -> Config]
  <2>1. \A i \in Instance : Brokers[i] \subseteq Config /\ Brokers[i] # {}
    BY ConstantsAssumption
  <2>2. \A i \in Instance : (CHOOSE c \in Brokers[i] : TRUE) \in Config
    <3> SUFFICES ASSUME NEW i \in Instance
                 PROVE  (CHOOSE c \in Brokers[i] : TRUE) \in Brokers[i]
      BY <2>1
    <3>1. \E c \in Brokers[i] : TRUE BY <2>1
    <3> QED BY <3>1, Zenon
  <2> QED BY <2>2 DEF Init
<1>2. TypeOK
  BY <1>1, ConstantsAssumption DEF Init, TypeOK, Rows, Pc
<1>3. \A s \in Services : table[s] = NoConfig
  BY DEF Init
<1> QED BY <1>2, <1>3 DEF Init, IInv, ReadsMiss, RowsStay, TemplateFollows

\* Steps that change neither table nor template, cache and fetch at most what only
\* misses rows, and move a single registration, not from "template", and to where a
\* row is needed only if it is there.
LEMMA QuietStep ==
  ASSUME IInv, TypeOK', NEW i \in Instance, NEW p \in Pc,
         UNCHANGED <<table, template>>,
         pc' = [pc EXCEPT ![i] = p],
         pc[i] # "template",
         p \in {"update", "template", "up"} => table[Service[i]] # NoConfig,
         cache' # NoRows => Misses(cache'),
         \A j \in Instance : list'[j] # NoRows => Misses(list'[j])
  PROVE  IInv'
<1>1. ReadsMiss' BY DEF ReadsMiss, Misses
<1>2. RowsStay' BY SMT DEF IInv, TypeOK, RowsStay
<1>3. TemplateFollows'
  <2>1. \A j \in Instance : pc[j] = "template" => pc'[j] = "template"
    BY SMT DEF IInv, TypeOK
  <2> QED BY <2>1 DEF IInv, TemplateFollows
<1> QED BY <1>1, <1>2, <1>3 DEF IInv

\* What follows a call of getAllClientConfigs whose result only misses rows.
LEMMA DecideMoves ==
  ASSUME IInv, NEW i \in Instance, NEW r \in Rows, Misses(r), pc[i] \in Reading, Decide(i, r)
  PROVE  \E p \in {"up", "second", "update", "add"} :
           /\ pc' = [pc EXCEPT ![i] = p]
           /\ p \in {"up", "update"} => table[Service[i]] # NoConfig
<1> USE DEF IInv, TypeOK
<1>1. Service[i] \in Services BY ServiceTyped
<1>2. config[i] # NoConfig BY ConfigIsSomething
<1>3. r[Service[i]] \in {NoConfig, table[Service[i]]} BY <1>1 DEF Misses
<1>4. CASE pc[i] = "first" /\ ~ShouldUpdateOrInsert(i, r)
  <2>1. table[Service[i]] # NoConfig BY <1>2, <1>3, <1>4 DEF ShouldUpdateOrInsert
  <2>2. pc' = [pc EXCEPT ![i] = "up"] BY <1>4, Zenon DEF Decide
  <2> QED BY <2>1, <2>2
<1>5. CASE pc[i] = "first" /\ ShouldUpdateOrInsert(i, r)
  <2>1. pc' = [pc EXCEPT ![i] = "second"] BY <1>5, SMT DEF Decide
  <2> QED BY <2>1
<1>6. CASE pc[i] = "second" /\ HasServiceRegistered(i, r)
  <2>1. table[Service[i]] # NoConfig BY <1>3, <1>6 DEF HasServiceRegistered
  <2>2. pc' = [pc EXCEPT ![i] = "update"] BY <1>6, SMT DEF Decide
  <2> QED BY <2>1, <2>2
<1>7. CASE pc[i] = "second" /\ ~HasServiceRegistered(i, r)
  <2>1. pc' = [pc EXCEPT ![i] = "add"] BY <1>7, SMT DEF Decide
  <2> QED BY <2>1
<1> QED BY <1>4, <1>5, <1>6, <1>7 DEF Reading

\* The steps of the client, and the failing statement.
LEMMA ClientStep ==
  ASSUME IInv, NEW i \in Instance, Register(i) \/ Stop(i) \/ Fails(i)
  PROVE  IInv'
<1> USE DEF IInv, TypeOK, center
<1>1. CASE Register(i)
  <2>1. Brokers[i] \subseteq Config BY ConstantsAssumption
  <2>2. TypeOK' BY <1>1, <2>1, SMT DEF Register, Pc, Working, Reading
  <2> QED BY <1>1, <2>2, QuietStep DEF Register, Pc, Working, Reading, ReadsMiss
<1>2. CASE Stop(i)
  <2>1. TypeOK' BY <1>2, SMT DEF Stop, Pc
  <2> QED BY <1>2, <2>1, QuietStep DEF Stop, Pc, ReadsMiss
<1>3. CASE Fails(i)
  <2>1. TypeOK' BY <1>3, ConstantsAssumption, SMT DEF Fails, Pc
  <2>2. \A j \in Instance : list'[j] # NoRows => Misses(list'[j])
    BY <1>3, SMT DEF Fails, ReadsMiss, Misses
  <2>3. pc[i] # "template" BY <1>3 DEF Fails, Reading
  <2> QED BY <1>3, <2>1, <2>2, <2>3, QuietStep DEF Fails, Pc, ReadsMiss
<1> QED BY <1>1, <1>2, <1>3

\* The reads of the table through the cache.
LEMMA ReadStep ==
  ASSUME IInv, NEW i \in Instance, CacheHit(i) \/ CacheMiss(i) \/ CacheFill(i)
  PROVE  IInv'
<1> USE DEF IInv, TypeOK, center
<1>0. {"up", "second", "update", "add"} \subseteq Pc /\ Reading \subseteq Pc \ {"template"}
  BY DEF Pc, Working, Reading
<1>1. CASE CacheHit(i)
  <2>1. cache \in Rows /\ Misses(cache) /\ pc[i] \in Reading /\ Decide(i, cache)
    BY <1>1 DEF CacheHit, ReadsMiss
  <2>2. PICK p \in {"up", "second", "update", "add"} :
           /\ pc' = [pc EXCEPT ![i] = p]
           /\ p \in {"up", "update"} => table[Service[i]] # NoConfig
    BY <2>1, DecideMoves
  <2>3. TypeOK' BY <1>0, <1>1, <2>2, SMT DEF CacheHit
  <2> QED BY <1>0, <1>1, <2>1, <2>2, <2>3, QuietStep DEF CacheHit, ReadsMiss
<1>2. CASE CacheMiss(i)
  <2>1. TypeOK' BY <1>2, SMT DEF CacheMiss
  <2>2. \A j \in Instance : list'[j] # NoRows => Misses(list'[j])
    BY <1>2, SMT DEF CacheMiss, ReadsMiss, Misses
  <2>3. ReadsMiss' BY <1>2, <2>2 DEF CacheMiss, ReadsMiss, Misses
  <2> QED BY <1>2, <2>1, <2>3 DEF CacheMiss, RowsStay, TemplateFollows
<1>3. CASE CacheFill(i)
  <2>1. list[i] \in Rows /\ Misses(list[i]) /\ pc[i] \in Reading /\ Decide(i, list[i])
    BY <1>3 DEF CacheFill, ReadsMiss
  <2>2. PICK p \in {"up", "second", "update", "add"} :
           /\ pc' = [pc EXCEPT ![i] = p]
           /\ p \in {"up", "update"} => table[Service[i]] # NoConfig
    BY <2>1, DecideMoves
  <2>3. TypeOK' BY <1>0, <1>3, <2>1, <2>2, SMT DEF CacheFill
  <2>4. \A j \in Instance : list'[j] # NoRows => Misses(list'[j])
    BY <1>3, SMT DEF CacheFill, ReadsMiss, Misses
  <2>5. Misses(cache') BY <1>3, <2>1 DEF CacheFill, Misses
  <2> QED BY <1>0, <1>3, <2>1, <2>2, <2>3, <2>4, <2>5, QuietStep DEF CacheFill
<1> QED BY <1>1, <1>2, <1>3

\* The steps of a request after its reads.
LEMMA WriteStep ==
  ASSUME IInv, NEW i \in Instance, Update(i) \/ Add(i) \/ SetTemplate(i)
  PROVE  IInv'
<1> USE DEF IInv, TypeOK
<1>0. config[i] \in Config /\ config[i] # NoConfig BY ConfigIsSomething
<1>1. CASE Update(i)
  <2>1. UNCHANGED <<table, cache>> BY <1>0, <1>1 DEF Update, IsClientConfigValid
  <2>2. TypeOK' BY <1>1, <2>1, SMT DEF Update, Pc, Working
  <2> QED BY <1>1, <2>1, <2>2, QuietStep DEF Update, Pc, Working, ReadsMiss, RowsStay
<1>2. CASE Add(i)
  <2>1. CASE table[Service[i]] # NoConfig
    <3>1. UNCHANGED <<table, cache, template, list>> /\ pc' = [pc EXCEPT ![i] = "off"]
          /\ pc[i] # "template"
      BY <1>2, <2>1 DEF Add
    <3>2. TypeOK' BY <1>2, <3>1, SMT DEF Add, Pc
    <3> QED BY <3>1, <3>2, QuietStep DEF ReadsMiss, Pc
  <2>2. CASE table[Service[i]] = NoConfig
    <3>1. /\ table' = [table EXCEPT ![Service[i]] = config[i]]
          /\ cache' = NoRows
          /\ pc' = [pc EXCEPT ![i] = "template"]
          /\ UNCHANGED <<template, config, list, faults>>
      BY <1>2, <2>2, Zenon DEF Add
    <3>2. Service[i] \in Services BY ServiceTyped
    <3>3. /\ table' \in Rows
          /\ table'[Service[i]] # NoConfig
          /\ \A s \in Services : table[s] \in {NoConfig, table'[s]}
      <4> DEFINE u == [table EXCEPT ![Service[i]] = config[i]]
      <4>1. /\ u \in Rows
            /\ u[Service[i]] = config[i]
            /\ \A t \in Services \ {Service[i]} : u[t] = table[t]
        BY <1>0, <3>2, OtherCell
      <4>2. table' = u BY <3>1
      <4> HIDE DEF u
      <4> QED BY <1>0, <2>2, <4>1, <4>2
    <3>4. TypeOK' BY <3>1, <3>3, SMT DEF Pc, Working
    <3>5. ReadsMiss' BY <3>1, <3>3 DEF ReadsMiss, Misses
    <3>6. RowsStay'
      <4>1. \A j \in Instance : Service[j] \in Services BY ServiceTyped
      <4> QED BY <3>1, <3>3, <4>1, SMT DEF RowsStay
    <3>7. pc'[i] = "template" BY <3>1
    <3> QED BY <3>4, <3>5, <3>6, <3>7 DEF TemplateFollows
  <2> QED BY <2>1, <2>2
<1>3. CASE SetTemplate(i)
  <2>1. TypeOK' BY <1>0, <1>3, SMT DEF SetTemplate, Pc
  <2>2. ReadsMiss' BY <1>3 DEF SetTemplate, ReadsMiss, Misses
  <2>3. RowsStay' BY <1>3, SMT DEF SetTemplate, RowsStay
  <2>4. TemplateFollows' BY <1>0, <1>3 DEF SetTemplate, TemplateFollows
  <2> QED BY <2>1, <2>2, <2>3, <2>4
<1> QED BY <1>1, <1>2, <1>3

\* The cache is flushed.
LEMMA ExpireStep == ASSUME IInv, Expire PROVE IInv'
  BY DEF IInv, TypeOK, Expire, ReadsMiss, Misses, RowsStay, TemplateFollows

\* The center restarts.
LEMMA RestartStep ==
  ASSUME IInv, CenterRestart
  PROVE  IInv'
<1> USE DEF IInv, TypeOK, CenterRestart
<1>1. table' = table BY Zenon
<1>2. \A s \in Services : table[s] \in Config \cup {NoConfig} BY Cells
<1>3. Registered \subseteq Config BY <1>2 DEF Registered
<1>4. template' \in Config \cup {NoConfig}
  <2>1. CASE Registered = {} BY <2>1
  <2>2. CASE Registered # {} BY <1>3, <2>2
  <2> QED BY <2>1, <2>2
<1>5. pc' \in [Instance -> Pc]
      /\ \A i \in Instance : pc'[i] \in {"update", "template", "up"} => pc[i] = "up"
  BY SMT DEF Pc, Working, Reading
<1>6. list' \in [Instance -> {NoRows}] BY SMT
<1>7. TypeOK'
  BY <1>1, <1>4, <1>5, <1>6, ConstantsAssumption, SMT
<1>8. ReadsMiss'
  BY <1>1, <1>6, SMT DEF ReadsMiss, Misses
<1>9. RowsStay' BY <1>1, <1>5 DEF RowsStay
<1>10. TemplateFollows'
  <2> SUFFICES ASSUME NEW s \in Services, table[s] # NoConfig PROVE template' # NoConfig
    BY <1>1 DEF TemplateFollows
  <2>1. table[s] \in Registered BY DEF Registered
  <2>2. template' \in Registered BY <2>1
  <2> QED BY <1>3, <2>2, ConfigIsSomething
<1> QED BY <1>7, <1>8, <1>9, <1>10

\* The inductive invariant holds in every reachable state.
THEOREM Inductive == Spec => []IInv
<1>1. Init => IInv BY InitInv
<1>2. IInv /\ [Next]_vars => IInv'
  <2> SUFFICES ASSUME IInv, [Next]_vars PROVE IInv'
    OBVIOUS
  <2>1. CASE \E i \in Instance : Register(i) \/ Stop(i) \/ Step(i) \/ Fails(i)
    <3> PICK i \in Instance : Register(i) \/ Stop(i) \/ Step(i) \/ Fails(i) BY <2>1
    <3>1. CASE Register(i) \/ Stop(i) \/ Fails(i) BY <3>1, ClientStep
    <3>2. CASE CacheHit(i) \/ CacheMiss(i) \/ CacheFill(i) BY <3>2, ReadStep
    <3>3. CASE Update(i) \/ Add(i) \/ SetTemplate(i) BY <3>3, WriteStep
    <3> QED BY <3>1, <3>2, <3>3 DEF Step
  <2>2. CASE Expire BY <2>2, ExpireStep
  <2>3. CASE CenterRestart BY <2>3, RestartStep
  <2>4. CASE UNCHANGED vars
    BY <2>4 DEF vars, center, IInv, TypeOK, ReadsMiss, Misses, RowsStay, TemplateFollows
  <2> QED BY <2>1, <2>2, <2>3, <2>4 DEF Next
<1> QED BY <1>1, <1>2, PTL DEF Spec

-----------------------------------------------------------------------------

\* Type correctness.
THEOREM TypeCorrect == Spec => []TypeOK
<1>1. IInv => TypeOK BY DEF IInv
<1> QED BY <1>1, Inductive, PTL

\* The cache may miss rows but never shows a wrong one.
THEOREM CacheIsHonest == Spec => []CacheOnlyMisses
<1>1. IInv => CacheOnlyMisses BY DEF IInv, ReadsMiss, Misses, CacheOnlyMisses
<1> QED BY <1>1, Inductive, PTL

\* A registered client has a row and a template, or will have one presently.
THEOREM ClientsAreServed == Spec => []Served
<1>1. IInv => Served
  BY ServiceTyped DEF IInv, RowsStay, TemplateFollows, Served
<1> QED BY <1>1, Inductive, PTL
=============================================================================

------------------------- MODULE CompoundOpsProofs -------------------------
(***************************************************************************)
(* Theorems about CompoundOps for any number of threads, any programs and  *)
(* any allocator that hands out no address twice.                          *)
(***************************************************************************)
EXTENDS CompoundOps, FiniteSetTheorems, SequenceTheorems, TLAPS

-----------------------------------------------------------------------------
(* The inductive invariant *)

HasSlot(step) == step.addr # NoAddr

\* librados has been given the first steps of the program, with a slot for each that has a
\* result.
FollowsProgram(t) ==
  \A i \in DOMAIN given[t] :
    /\ i \in DOMAIN program[t].steps
    /\ given[t][i].kind = program[t].steps[i].kind
    /\ given[t][i].kind # "assert_version" => given[t][i].arg = program[t].steps[i].arg
    /\ HasSlot(given[t][i]) <=> given[t][i].kind \in {"omap_cmp", "get"}
    /\ given[t][i].kind = "omap_cmp" => given[t][i].valid

\* An operation has steps, boxes and an Arc from New to its drop.
OfStage(t) ==
  /\ stage[t] = "idle" => given[t] = <<>> /\ boxes[t] = <<>> /\ id[t] = NoId
  /\ stage[t] # "idle" => program[t] \in Programs /\ (id[t] # NoId <=> program[t].type = "read")
  /\ stage[t] # "idle" => outcome[t].kind = "none"
  /\ stage[t] = "building" => ret[t] = "none"
  /\ stage[t] \in {"operating", "executed", "replied"} => Len(given[t]) = Len(program[t].steps)
  /\ stage[t] = "executed" =>
       /\ verdict[t].failed \in {None} \cup DOMAIN given[t]
       /\ verdict[t].applied <=> verdict[t].failed = None

\* The boxes are the slots of the steps, in the order of the steps.
SlotsIn(steps, n) == {j \in 1 .. n : HasSlot(steps[j])}
BoxesInOrder(t) ==
  /\ Len(boxes[t]) = Cardinality(SlotsIn(given[t], Len(given[t])))
  /\ \A i \in DOMAIN given[t] : HasSlot(given[t][i]) =>
       /\ Cardinality(SlotsIn(given[t], i)) \in DOMAIN boxes[t]
       /\ boxes[t][Cardinality(SlotsIn(given[t], i))] = given[t][i].addr
  /\ \A k \in DOMAIN boxes[t] : \E i \in DOMAIN given[t] : given[t][i].addr = boxes[t][k]

\* What the slots hold: nothing before the reply or without one; after it, the error of the
\* failing step, or the reads.
SlotsHold(t) ==
  \A i \in DOMAIN given[t] : HasSlot(given[t][i]) =>
    LET slot == memory[given[t][i].addr] IN
      /\ stage[t] # "replied" \/ ret[t] = "lost" => slot.prval = "zero"
      /\ stage[t] = "replied" /\ ret[t] = "rejected" =>
           slot.prval = IF i = verdict[t].failed THEN "nonzero" ELSE "zero"
      /\ stage[t] = "replied" /\ ret[t] = "ok" /\ given[t][i].kind = "get" =>
           \/ slot.prval = "nonzero"
           \/ slot = [prval |-> "zero", part |-> given[t][i].arg, value |-> verdict[t].object.value]

\* The reply is about the verdict.
ReplyTells(t) ==
  stage[t] = "replied" =>
    /\ ret[t] \in {"ok", "rejected", "lost"}
    /\ ret[t] = "ok" => verdict[t].failed = None /\ verdict[t].applied
    /\ ret[t] = "rejected" => verdict[t].failed \in DOMAIN given[t]

\* A handle with the Arc of the operation is that of a read of it.
HandlesOfOp(t) ==
  id[t] # NoId => \A h \in handles[t] : h.id = id[t] =>
    /\ h.op = built[t]
    /\ \E i \in DOMAIN given[t] :
         /\ given[t][i].kind = "get" /\ given[t][i].arg = h.part
         /\ h.index \in DOMAIN boxes[t] /\ boxes[t][h.index] = given[t][i].addr

\* A step has one handle, and an operation its own Arc.
HandlesApart(t) ==
  /\ \A g, h \in handles[t] : g.id = h.id /\ g.index = h.index => g = h
  /\ id[t] # NoId => results[t].id # id[t]

\* TruthfulReport and HandlesFindResults, of a thread
ReportTrue(t) ==
  stage[t] = "idle" /\ outcome[t].kind # "none" /\ program[t].type = "write" =>
    /\ outcome[t].kind = "ok" => verdict[t].applied
    /\ outcome[t].failedCmp =
         IF ret[t] = "rejected" /\ program[t].steps[verdict[t].failed].kind = "omap_cmp"
         THEN Cardinality(CmpsUpTo(program[t].steps, verdict[t].failed)) ELSE None
ResultsFound(t) ==
  results[t].id # NoId =>
    \A h \in handles[t] : Names(t, h) =>
      /\ h.op = results[t].op
      /\ h.index \in DOMAIN results[t].values
      /\ LET r == results[t].values[h.index] IN
           /\ r.prval # "taken"
           /\ r.prval = "zero" => r.part = h.part /\ r.value = results[t].object.value

BuildInv(t) == FollowsProgram(t) /\ OfStage(t) /\ BoxesInOrder(t)
OpInv(t) ==
  /\ BuildInv(t) /\ SlotsHold(t) /\ ReplyTells(t)
  /\ HandlesOfOp(t) /\ HandlesApart(t) /\ ReportTrue(t) /\ ResultsFound(t)

\* No two boxes are at one address.
BoxesApart ==
  \A t, u \in Threads : \A i \in DOMAIN boxes[t], j \in DOMAIN boxes[u] :
    boxes[t][i] = boxes[u][j] => t = u /\ i = j

CInv == TypeOK /\ BoxesApart /\ \A t \in Threads : OpInv(t)

\* An object that a thread has met is older than what is there now, or the same.
Older(o) == o.version <= object.version /\ (o.version = object.version => o = object)

\* What last_version tells a thread is the version of an object that was there, and that of its
\* own operation if no other answer came on the ioctx.
VersionsOf(t) ==
  /\ Older(verdict[t].object) /\ Older(lastVersion[IoctxOf[t]]) /\ Older(basis[t].last)
  /\ known[t] = basis[t].last.version
  /\ basis[t].own => basis[t].last = basis[t].met
  /\ \/ stage[t] = "replied" /\ ret[t] = "ok"
     \/ stage[t] = "idle" /\ outcome[t].kind = "ok"
     => (ownAnswer[t] => lastVersion[IoctxOf[t]] = verdict[t].object)
  /\ \A i \in DOMAIN given[t] : given[t][i].kind = "assert_version" => given[t][i].arg = known[t]

VersionInv == \A t \in Threads : VersionsOf(t)

-----------------------------------------------------------------------------
(* Sets of positions *)

LEMMA Least ==
  ASSUME NEW S \in SUBSET Nat, S # {}
  PROVE  \E m \in S : \A n \in S : m <= n
<1> DEFINE R == {p \in Nat \X Nat : p[1] < p[2]}
<1>1. IsWellFoundedOn(R, Nat)
  BY NatLessThanWellFounded DEF OpToRel
<1>2. \A m, n \in Nat : <<n, m>> \in R <=> n < m
  OBVIOUS
<1> HIDE DEF R
<1>3. PICK m \in S : \A n \in S : ~ (<<n, m>> \in R)
  BY <1>1, WFMin
<1>4. ASSUME NEW n \in S PROVE m <= n
  <2>1. m \in Nat /\ n \in Nat /\ ~ (n < m)
    BY <1>2, <1>3
  <2> QED
    BY <2>1
<1> QED
  BY <1>4

LEMMA Greatest ==
  ASSUME NEW n \in Nat, NEW S \in SUBSET (1 .. n), S # {}
  PROVE  \E m \in S : \A k \in S : m >= k
<1> DEFINE T == {k \in 0 .. n : n - k \in S}
<1>1. PICK k \in S : TRUE
  OBVIOUS
<1>2. n - k \in T
  <2>1. k \in Nat /\ 1 <= k /\ k <= n
    BY <1>1
  <2>2. n - k \in 0 .. n /\ n - (n - k) = k
    BY <2>1
  <2> QED
    BY <1>1, <2>2
<1>3. PICK j \in T : \A i \in T : j <= i
  <2>1. T \in SUBSET Nat
    OBVIOUS
  <2> HIDE DEF T
  <2> QED
    BY <1>2, <2>1, Least
<1>4. n - j \in S /\ j \in 0 .. n
  BY <1>3
<1>5. ASSUME NEW i \in S PROVE n - j >= i
  <2>1. i \in 1 .. n
    OBVIOUS
  <2>2. n - i \in 0 .. n /\ n - (n - i) = i
    BY <2>1
  <2>3. n - i \in T
    BY <2>2
  <2>4. j <= n - i
    BY <1>3, <2>3
  <2> QED
    BY <1>4, <2>1, <2>4
<1> QED
  BY <1>4, <1>5

LEMMA SlotsInCount ==
  ASSUME NEW steps, NEW n \in Nat
  PROVE  /\ IsFiniteSet(SlotsIn(steps, n))
         /\ Cardinality(SlotsIn(steps, n)) \in 0 .. n
         /\ Cardinality(SlotsIn(steps, n + 1)) =
              Cardinality(SlotsIn(steps, n)) + (IF HasSlot(steps[n + 1]) THEN 1 ELSE 0)
<1>1. IsFiniteSet(1 .. n) /\ Cardinality(1 .. n) = n
  BY FS_Interval
<1>2. SlotsIn(steps, n) \in SUBSET (1 .. n)
  BY DEF SlotsIn
<1>3. IsFiniteSet(SlotsIn(steps, n)) /\ Cardinality(SlotsIn(steps, n)) <= n
  BY <1>1, <1>2, FS_Subset
<1>4. Cardinality(SlotsIn(steps, n)) \in Nat
  BY <1>3, FS_CardinalityType
<1>5. CASE HasSlot(steps[n + 1])
  <2>1. SlotsIn(steps, n + 1) = SlotsIn(steps, n) \cup {n + 1} /\ n + 1 \notin SlotsIn(steps, n)
    BY <1>5 DEF SlotsIn
  <2> QED
    BY <1>3, <1>4, <1>5, <2>1, FS_AddElement
<1>6. CASE ~ HasSlot(steps[n + 1])
  <2>1. SlotsIn(steps, n + 1) = SlotsIn(steps, n)
    BY <1>6 DEF SlotsIn
  <2> QED
    BY <1>3, <1>4, <1>6, <2>1
<1> QED
  BY <1>3, <1>4, <1>5, <1>6

-----------------------------------------------------------------------------
(* What the OSD does with the steps *)

LEMMA ProgramTypes ==
  ASSUME NEW p \in Programs
  PROVE  /\ p.steps \in Seq(Step) /\ Len(p.steps) \in Nat /\ DOMAIN p.steps = 1 .. Len(p.steps)
         /\ p.type \in {"read", "write"}
         /\ \A i \in DOMAIN p.steps : /\ p.steps[i] \in Step
                                      /\ p.type = "read" => p.steps[i].kind \in {"assert_version", "get"}
                                      /\ p.type = "write" => p.steps[i].kind \in Guards \cup Mutations
  BY CompoundOpsAssumption DEF IsProgram

LEMMA FirstFailingIs ==
  ASSUME NEW steps \in Seq(Given), NEW o
  PROVE  /\ FirstFailing(steps, o) \in {None} \cup DOMAIN steps
         /\ FirstFailing(steps, o) = None => \A i \in DOMAIN steps : Holds(steps[i], o)
<1> DEFINE failing == {i \in DOMAIN steps : ~ Holds(steps[i], o)}
<1>1. DOMAIN steps = 1 .. Len(steps) /\ Len(steps) \in Nat
  OBVIOUS
<1>2. CASE failing = {}
  BY <1>2 DEF FirstFailing
<1>3. CASE failing # {}
  <2>1. failing \in SUBSET Nat
    BY <1>1
  <2>2. \E i \in failing : \A j \in failing : i <= j
    <3> HIDE DEF failing
    <3> QED
      BY <1>3, <2>1, Least
  <2>3. FirstFailing(steps, o) \in failing
    BY <1>3, <2>2 DEF FirstFailing
  <2> QED
    BY <1>1, <2>3 DEF None
<1> QED
  BY <1>2, <1>3

LEMMA AfterType ==
  ASSUME NEW steps \in Seq(Given), NEW o \in Object,
         \A i \in DOMAIN steps : steps[i].kind = "put" => steps[i].arg \in Values \cup {Empty}
  PROVE  /\ After(steps, o) \in Object
         /\ After(steps, o) = o \/ After(steps, o).version = o.version + 1
<1> DEFINE changing == {i \in DOMAIN steps : steps[i].kind \in Mutations \cup {"create"}}
           last == steps[CHOOSE i \in changing : \A j \in changing : i >= j]
<1>1. DOMAIN steps = 1 .. Len(steps) /\ Len(steps) \in Nat
  OBVIOUS
<1>2. CASE changing = {}
  BY <1>2 DEF After
<1>3. CASE changing # {}
  <2>1. \E i \in changing : \A j \in changing : i >= j
    <3>1. changing \in SUBSET (1 .. Len(steps))
      BY <1>1
    <3> HIDE DEF changing
    <3> QED
      BY <1>1, <1>3, <3>1, Greatest
  <2>2. \E i \in DOMAIN steps : last = steps[i]
    BY <2>1
  <2>3. last.kind = "put" => last.arg \in Values \cup {Empty}
    BY <2>2
  <2>4. After(steps, o) =
          [exists |-> last.kind # "remove", version |-> o.version + 1,
           value |-> IF last.kind = "put" THEN last.arg ELSE Empty]
    BY <1>3 DEF After
  <2> HIDE DEF last
  <2> QED
    BY <2>3, <2>4 DEF Object
<1> QED
  BY <1>2, <1>3

-----------------------------------------------------------------------------
(* Steps of other threads *)

\* A step leaves the operation of thread u and its slots as they are.
Same(u) ==
  /\ stage'[u] = stage[u] /\ program'[u] = program[u] /\ given'[u] = given[u]
  /\ boxes'[u] = boxes[u] /\ ret'[u] = ret[u] /\ outcome'[u] = outcome[u]
  /\ id'[u] = id[u] /\ built'[u] = built[u] /\ handles'[u] = handles[u]
  /\ results'[u] = results[u] /\ verdict'[u] = verdict[u]
  /\ \A i \in DOMAIN boxes[u] : memory'[boxes[u][i]] = memory[boxes[u][i]]

LEMMA TypesAt ==
  ASSUME TypeOK, NEW t \in Threads
  PROVE  /\ given[t] \in Seq(Given) /\ Len(given[t]) \in Nat
         /\ DOMAIN given[t] = 1 .. Len(given[t])
         /\ boxes[t] \in Seq(Addrs) /\ Len(boxes[t]) \in Nat
         /\ DOMAIN boxes[t] = 1 .. Len(boxes[t])
         /\ \A i \in DOMAIN given[t] : given[t][i] \in Given
         /\ \A i \in DOMAIN boxes[t] : boxes[t][i] \in Addrs
         /\ handles[t] \subseteq Handle /\ built[t] \in Nat
         /\ id[t] \in Ids \cup {NoId}
         /\ verdict[t] \in [failed : Nat, applied : BOOLEAN, object : Object]
         /\ results[t] \in [id : Ids \cup {NoId}, values : Seq(Content), op : Nat, object : Object]
<1>1. given[t] \in Seq(Given) /\ boxes[t] \in Seq(Addrs)
  BY DEF TypeOK
<1>2. /\ handles[t] \subseteq Handle /\ built[t] \in Nat /\ id[t] \in Ids \cup {NoId}
      /\ verdict[t] \in [failed : Nat, applied : BOOLEAN, object : Object]
      /\ results[t] \in [id : Ids \cup {NoId}, values : Seq(Content), op : Nat, object : Object]
  BY DEF TypeOK
<1> QED
  BY <1>1, <1>2

LEMMA SlotsAreBoxes ==
  ASSUME NEW t, BoxesInOrder(t), NEW i \in DOMAIN given[t], HasSlot(given[t][i])
  PROVE  \E k \in DOMAIN boxes[t] : boxes[t][k] = given[t][i].addr
  BY DEF BoxesInOrder

LEMMA SameKeeps ==
  ASSUME NEW u \in Threads, OpInv(u), Same(u)
  PROVE  OpInv(u)'
<1> USE DEF Same
<1>1. BuildInv(u)'
  <2>1. FollowsProgram(u)'
    BY DEF OpInv, BuildInv, FollowsProgram
  <2>2. OfStage(u)'
    BY DEF OpInv, BuildInv, OfStage
  <2>3. BoxesInOrder(u)'
    BY DEF OpInv, BuildInv, BoxesInOrder
  <2> QED
    BY <2>1, <2>2, <2>3 DEF BuildInv
<1>2. SlotsHold(u)'
  <2>1. ASSUME NEW i \in DOMAIN given[u], HasSlot(given[u][i])
        PROVE  memory'[given[u][i].addr] = memory[given[u][i].addr]
    BY <2>1, SlotsAreBoxes DEF OpInv, BuildInv
  <2> QED
    BY <2>1 DEF OpInv, SlotsHold
<1>3. ReplyTells(u)'
  BY DEF OpInv, ReplyTells
<1>4. HandlesOfOp(u)'
  BY DEF OpInv, HandlesOfOp
<1>5. HandlesApart(u)'
  BY DEF OpInv, HandlesApart
<1>6. ReportTrue(u)'
  BY DEF OpInv, ReportTrue
<1>7. ResultsFound(u)'
  BY DEF OpInv, ResultsFound, Names
<1> QED
  BY <1>1, <1>2, <1>3, <1>4, <1>5, <1>6, <1>7 DEF OpInv

LEMMA StepKeeps ==
  ASSUME CInv, NEW t \in Threads, TypeOK', BoxesApart', OpInv(t)',
         \A u \in Threads \ {t} : Same(u)
  PROVE  CInv'
<1>1. ASSUME NEW u \in Threads PROVE OpInv(u)'
  BY SameKeeps DEF CInv
<1> QED
  BY <1>1 DEF CInv

LEMMA NoSteps ==
  ASSUME NEW t, given[t] = <<>>, boxes[t] = <<>>
  PROVE  BoxesInOrder(t)
<1>1. SlotsIn(<<>>, 0) = {}
  BY DEF SlotsIn
<1>2. Cardinality(SlotsIn(<<>>, 0)) = 0
  BY <1>1, FS_EmptySet
<1>3. Len(given[t]) = 0 /\ Len(boxes[t]) = 0 /\ DOMAIN given[t] = {} /\ DOMAIN boxes[t] = {}
  OBVIOUS
<1> QED
  BY <1>2, <1>3 DEF BoxesInOrder

LEMMA CInvInit == Init => CInv
<1> SUFFICES ASSUME Init PROVE CInv
  OBVIOUS
<1>1. TypeOK
  BY CompoundOpsAssumption
  DEF Init, TypeOK, Object, Absent, Content, Fresh, Report, None, NoProgram, NoResults, Basis,
      NoBasis
<1>2. BoxesApart
  BY DEF Init, BoxesApart
<1>3. ASSUME NEW t \in Threads PROVE OpInv(t)
  <2>1. FollowsProgram(t) /\ OfStage(t)
    BY DEF Init, FollowsProgram, OfStage
  <2>2. BoxesInOrder(t)
    <3>1. given[t] = <<>> /\ boxes[t] = <<>>
      BY DEF Init
    <3> QED
      BY <3>1, NoSteps
  <2>3. SlotsHold(t) /\ ReplyTells(t) /\ HandlesOfOp(t) /\ HandlesApart(t)
    BY DEF Init, SlotsHold, ReplyTells, HandlesOfOp, HandlesApart
  <2>4. ReportTrue(t) /\ ResultsFound(t)
    BY DEF Init, ReportTrue, ResultsFound, Report, NoResults
  <2> QED
    BY <2>1, <2>2, <2>3, <2>4 DEF OpInv, BuildInv
<1> QED
  BY <1>1, <1>2, <1>3 DEF CInv

-----------------------------------------------------------------------------
(* Building *)

LEMMA SlotsInAppend ==
  ASSUME NEW s \in Seq(Given), NEW e \in Given
  PROVE  /\ \A i \in DOMAIN s : SlotsIn(Append(s, e), i) = SlotsIn(s, i)
         /\ Cardinality(SlotsIn(Append(s, e), Len(s) + 1)) =
              Cardinality(SlotsIn(s, Len(s))) + (IF HasSlot(e) THEN 1 ELSE 0)
<1>1. /\ Len(s) \in Nat /\ DOMAIN s = 1 .. Len(s)
      /\ \A i \in 1 .. Len(s) : Append(s, e)[i] = s[i]
      /\ Append(s, e)[Len(s) + 1] = e
  OBVIOUS
<1> HIDE DEF Given
<1> DEFINE q == Append(s, e)
<1>2. \A i \in 1 .. Len(s) : q[i] = s[i]
  BY <1>1
<1>3. q[Len(s) + 1] = e
  BY <1>1
<1> HIDE DEF q
<1>4. \A i \in 0 .. Len(s) : SlotsIn(q, i) = SlotsIn(s, i)
  BY <1>1, <1>2 DEF SlotsIn
<1>5. SlotsIn(q, Len(s)) = SlotsIn(s, Len(s))
  BY <1>1, <1>4
<1>6. Cardinality(SlotsIn(q, Len(s) + 1)) =
        Cardinality(SlotsIn(q, Len(s))) + (IF HasSlot(q[Len(s) + 1]) THEN 1 ELSE 0)
  BY <1>1, SlotsInCount
<1>7. \A i \in DOMAIN s : SlotsIn(q, i) = SlotsIn(s, i)
  BY <1>1, <1>4
<1>8. Cardinality(SlotsIn(q, Len(s) + 1)) =
        Cardinality(SlotsIn(s, Len(s))) + (IF HasSlot(e) THEN 1 ELSE 0)
  BY <1>3, <1>5, <1>6
<1> QED
  BY <1>7, <1>8 DEF q

\* A thread begins an operation.
LEMMA NewKeeps ==
  ASSUME CInv, NEW t \in Threads, NEW p \in Programs, New(t, p)
  PROVE  CInv'
<1> USE DEF New
<1>1. given[t] = <<>> /\ boxes[t] = <<>> /\ id[t] = NoId
  BY DEF CInv, OpInv, BuildInv, OfStage
<1>2. TypeOK /\ OpInv(t)
  BY DEF CInv
<1>3. p.type \in {"read", "write"}
  BY ProgramTypes
<1>4. TypeOK'
  <2>1. id' \in [Threads -> Ids \cup {NoId}]
    BY <1>2 DEF TypeOK
  <2>2. Report("none", None) \in [kind : {"none", "ok", "error"}, failedCmp : Nat]
    BY DEF Report, None
  <2>3. /\ stage' \in [Threads -> {"idle", "building", "operating", "executed", "replied"}]
        /\ program' \in [Threads -> Programs \cup {NoProgram}]
        /\ ret' \in [Threads -> {"none", "ok", "rejected", "lost"}]
        /\ built' \in [Threads -> Nat]
    BY <1>2 DEF TypeOK
  <2>4. outcome' \in [Threads -> [kind : {"none", "ok", "error"}, failedCmp : Nat]]
    BY <1>2, <2>2 DEF TypeOK
  <2> QED
    BY <1>2, <2>1, <2>3, <2>4 DEF TypeOK
<1>5. BoxesApart'
  BY DEF CInv, BoxesApart
<1>6. ASSUME NEW u \in Threads \ {t} PROVE Same(u)
  BY <1>2 DEF Same, TypeOK
<1>7. /\ stage'[t] = "building" /\ program'[t] = p /\ ret'[t] = "none"
      /\ outcome'[t].kind = "none" /\ given'[t] = <<>> /\ boxes'[t] = <<>>
  BY <1>1, <1>2 DEF TypeOK, Report
<1>8. p.type = "read" => id'[t] \in Ids /\ ~ IdInUse(id'[t])
  BY <1>2 DEF TypeOK
<1>9. id'[t] # NoId <=> p.type = "read"
  BY <1>1, <1>8, CompoundOpsAssumption
<1>10. FollowsProgram(t)' /\ OfStage(t)'
  BY <1>7, <1>9 DEF FollowsProgram, OfStage
<1>11. BoxesInOrder(t)'
  <2>1. BoxesInOrder(t)
    BY <1>2 DEF OpInv, BuildInv
  <2> QED
    BY <2>1 DEF BoxesInOrder
<1>12. SlotsHold(t)' /\ ReplyTells(t)' /\ ReportTrue(t)'
  BY <1>7 DEF SlotsHold, ReplyTells, ReportTrue
<1>13. HandlesOfOp(t)' /\ HandlesApart(t)'
  BY <1>2, <1>8, <1>9 DEF HandlesOfOp, HandlesApart, IdInUse, OpInv
<1>14. ResultsFound(t)'
  BY <1>2 DEF OpInv, ResultsFound, Names
<1> QED
  BY <1>4, <1>5, <1>6, <1>10, <1>11, <1>12, <1>13, <1>14, StepKeeps DEF OpInv, BuildInv

\* librados has one step more.
Gets(t, e) == given' = [given EXCEPT ![t] = Append(@, e)]

\* That step is the next one of the program.
IsNext(t, e) ==
  /\ e \in Given /\ e.kind = NextStep(t).kind
  /\ e.kind # "assert_version" => e.arg = NextStep(t).arg
  /\ HasSlot(e) <=> e.kind \in {"omap_cmp", "get"}
  /\ e.kind = "omap_cmp" => e.valid

LEMMA NextIsStep ==
  ASSUME CInv, NEW t \in Threads, NEW kinds, Adding(t, kinds)
  PROVE  /\ program[t] \in Programs /\ Len(given[t]) + 1 \in DOMAIN program[t].steps
         /\ NextStep(t) \in Step
<1>1. TypeOK /\ OfStage(t)
  BY DEF CInv, OpInv, BuildInv
<1>2. program[t] \in Programs /\ Len(given[t]) < Len(program[t].steps)
  BY <1>1 DEF Adding, OfStage
<1>3. Len(given[t]) + 1 \in DOMAIN program[t].steps
  BY <1>1, <1>2, ProgramTypes, TypesAt
<1> QED
  BY <1>2, <1>3, ProgramTypes DEF NextStep

\* librados is given the next step.
LEMMA GiveFollows ==
  ASSUME CInv, NEW t \in Threads, NEW kinds, Adding(t, kinds), NEW e, Gets(t, e), IsNext(t, e),
         program' = program
  PROVE  /\ given' \in [Threads -> Seq(Given)]
         /\ given'[t] = Append(given[t], e)
         /\ DOMAIN given'[t] = 1 .. Len(given[t]) + 1 /\ Len(given'[t]) = Len(given[t]) + 1
         /\ \A i \in DOMAIN given[t] : given'[t][i] = given[t][i]
         /\ given'[t][Len(given[t]) + 1] = e
         /\ FollowsProgram(t)'
         /\ \A u \in Threads \ {t} : given'[u] = given[u]
<1>1. TypeOK /\ FollowsProgram(t) /\ OfStage(t)
  BY DEF CInv, OpInv, BuildInv
<1>2. program[t] \in Programs /\ Len(given[t]) + 1 \in DOMAIN program[t].steps
  BY NextIsStep
<1>4. e \in Given
  BY DEF IsNext
<1>5. given' = [given EXCEPT ![t] = Append(@, e)] /\ given \in [Threads -> Seq(Given)]
  BY <1>1 DEF Gets, TypeOK
<1>7. given'[t] = Append(given[t], e) /\ \A u \in Threads \ {t} : given'[u] = given[u]
  BY <1>5
<1>8. given[t] \in Seq(Given)
  BY <1>5
<1>9. given' \in [Threads -> Seq(Given)]
  <2>1. Append(given[t], e) \in Seq(Given)
    BY <1>4, <1>8
  <2> QED
    BY <1>5, <2>1
<1> HIDE DEF Given
<1>10. /\ Len(given[t]) \in Nat /\ DOMAIN given[t] = 1 .. Len(given[t])
       /\ DOMAIN given'[t] = 1 .. Len(given[t]) + 1 /\ Len(given'[t]) = Len(given[t]) + 1
       /\ \A i \in DOMAIN given[t] : given'[t][i] = given[t][i]
       /\ given'[t][Len(given[t]) + 1] = e
  BY <1>4, <1>7, <1>8
<1>11. FollowsProgram(t)'
  <2> SUFFICES ASSUME NEW i \in DOMAIN given'[t]
               PROVE  /\ i \in DOMAIN program[t].steps
                      /\ given'[t][i].kind = program[t].steps[i].kind
                      /\ given'[t][i].kind # "assert_version" =>
                           given'[t][i].arg = program[t].steps[i].arg
                      /\ HasSlot(given'[t][i]) <=> given'[t][i].kind \in {"omap_cmp", "get"}
                      /\ given'[t][i].kind = "omap_cmp" => given'[t][i].valid
    BY DEF FollowsProgram
  <2>1. CASE i \in DOMAIN given[t]
    BY <1>1, <1>10, <2>1 DEF FollowsProgram
  <2>2. CASE i = Len(given[t]) + 1
    BY <1>2, <1>10, <2>2 DEF NextStep, IsNext
  <2> QED
    BY <1>10, <2>1, <2>2
<1> QED
  BY <1>7, <1>9, <1>10, <1>11

\* A step without a slot.
LEMMA GiveKeeps ==
  ASSUME CInv, NEW t \in Threads, NEW kinds, Adding(t, kinds), NEW arg,
         Give(t, arg), arg \in Values \cup {Empty} \cup Nat,
         NextStep(t).kind # "assert_version" => arg = NextStep(t).arg,
         NextStep(t).kind \notin {"omap_cmp", "get"},
         UNCHANGED <<object, lastVersion, memory, stage, program, boxes, ret, outcome, id, built,
                     handles, results, known, verdict, ownAnswer, basis>>
  PROVE  CInv'
<1> DEFINE e == Pointing(t, arg, NoAddr)
<1>1. TypeOK /\ OpInv(t) /\ stage[t] = "building"
  BY DEF CInv, Adding
<1>2. /\ given' \in [Threads -> Seq(Given)]
      /\ given'[t] = Append(given[t], e)
      /\ DOMAIN given'[t] = 1 .. Len(given[t]) + 1 /\ Len(given'[t]) = Len(given[t]) + 1
      /\ \A i \in DOMAIN given[t] : given'[t][i] = given[t][i]
      /\ given'[t][Len(given[t]) + 1] = e
      /\ FollowsProgram(t)'
      /\ \A u \in Threads \ {t} : given'[u] = given[u]
  <2>1. Gets(t, e)
    BY DEF Gets, Give
  <2>2. NextStep(t) \in Step
    BY NextIsStep
  <2>3. IsNext(t, e)
    BY <2>2 DEF IsNext, Pointing, Given, Step, HasSlot
  <2> QED
    BY <2>1, <2>3, GiveFollows
<1>3. ~ HasSlot(e) /\ e \in Given
  <2>1. NextStep(t) \in Step
    BY NextIsStep
  <2> QED
    BY <2>1 DEF HasSlot, Pointing, Given, Step
<1> HIDE DEF e
<1>4. DOMAIN given[t] = 1 .. Len(given[t]) /\ Len(given[t]) \in Nat /\ given[t] \in Seq(Given)
  BY <1>1, TypesAt
<1>5. TypeOK'
  BY <1>1, <1>2 DEF TypeOK
<1>6. BoxesApart'
  BY DEF CInv, BoxesApart
<1>7. ASSUME NEW u \in Threads \ {t} PROVE Same(u)
  BY <1>2 DEF Same
<1>8. OfStage(t)'
  BY <1>1 DEF OpInv, BuildInv, OfStage
<1>9. ASSUME NEW i \in DOMAIN given'[t], HasSlot(given'[t][i])
      PROVE  i \in DOMAIN given[t] /\ given'[t][i] = given[t][i]
  BY <1>2, <1>3, <1>4, <1>9
<1>10. BoxesInOrder(t)'
  <2>1. BoxesInOrder(t)
    BY <1>1 DEF OpInv, BuildInv
  <2>2. Cardinality(SlotsIn(given[t], Len(given[t]))) \in Nat
    BY <1>4, SlotsInCount
  <2>3. Len(boxes[t]) = Cardinality(SlotsIn(given'[t], Len(given'[t])))
    BY <1>2, <1>3, <1>4, <2>1, <2>2, SlotsInAppend DEF BoxesInOrder
  <2>4. ASSUME NEW i \in DOMAIN given'[t], HasSlot(given'[t][i])
        PROVE  /\ Cardinality(SlotsIn(given'[t], i)) \in DOMAIN boxes[t]
               /\ boxes[t][Cardinality(SlotsIn(given'[t], i))] = given'[t][i].addr
    <3>1. SlotsIn(given'[t], i) = SlotsIn(given[t], i)
      BY <1>2, <1>4, <1>9, <2>4, SlotsInAppend
    <3> QED
      BY <1>9, <2>1, <2>4, <3>1 DEF BoxesInOrder
  <2>5. ASSUME NEW k \in DOMAIN boxes[t]
        PROVE  \E i \in DOMAIN given'[t] : given'[t][i].addr = boxes[t][k]
    BY <1>2, <1>4, <2>1 DEF BoxesInOrder
  <2> QED
    BY <2>3, <2>4, <2>5 DEF BoxesInOrder
<1>11. SlotsHold(t)' /\ ReplyTells(t)' /\ ReportTrue(t)'
  BY <1>1, <1>9 DEF OpInv, SlotsHold, ReplyTells, ReportTrue
<1>12. HandlesOfOp(t)' /\ HandlesApart(t)'
  <2>1. \A i \in DOMAIN given[t] : i \in DOMAIN given'[t] /\ given'[t][i] = given[t][i]
    BY <1>2, <1>4
  <2> QED
    BY <1>1, <2>1 DEF OpInv, HandlesOfOp, HandlesApart
<1>13. ResultsFound(t)'
  BY <1>1 DEF OpInv, ResultsFound, Names
<1> QED
  BY <1>2, <1>5, <1>6, <1>7, <1>8, <1>10, <1>11, <1>12, <1>13, StepKeeps DEF OpInv, BuildInv

LEMMA AssertVersionKeeps ==
  ASSUME CInv, NEW t \in Threads, AssertVersion(t)
  PROVE  CInv'
<1>1. known[t] \in Nat
  BY DEF CInv, TypeOK
<1>2. NextStep(t).kind = "assert_version"
  BY DEF AssertVersion, Adding
<1> QED
  BY <1>1, <1>2, GiveKeeps DEF AssertVersion

LEMMA AddStepKeeps ==
  ASSUME CInv, NEW t \in Threads, AddStep(t)
  PROVE  CInv'
<1>1. /\ Adding(t, (Guards \cup Mutations) \ {"assert_version", "omap_cmp"})
      /\ Give(t, NextStep(t).arg)
      /\ NextStep(t).kind \notin {"omap_cmp", "get"}
  BY DEF AddStep, Adding, Guards, Mutations
<1>2. NextStep(t) \in Step
  <2>1. program[t] \in Programs /\ Len(given[t]) < Len(program[t].steps) /\ Len(given[t]) \in Nat
    BY <1>1, TypesAt DEF Adding, CInv, OpInv, BuildInv, OfStage
  <2> QED
    BY <2>1, ProgramTypes DEF NextStep
<1>3. NextStep(t).arg \in Values \cup {Empty} \cup Nat
  BY <1>2 DEF Step
<1> QED
  BY <1>1, <1>3, GiveKeeps DEF AddStep

\* A box that is at no address of the operation is moved without an effect on its pointers.
LEMMA FreshMove ==
  ASSUME CInv, NEW t \in Threads, NEW a \in Addrs, ~ InUse(a)
  PROVE  MoveBox(given[t], a) = given[t]
<1>1. TypeOK /\ BoxesInOrder(t) /\ a # NoAddr
  BY CompoundOpsAssumption DEF CInv, OpInv, BuildInv
<1>2. given[t] \in [DOMAIN given[t] -> Given]
  BY <1>1, TypesAt, LenProperties
<1>3. \A i \in DOMAIN given[t] : given[t][i].addr # a
  BY <1>1, SlotsAreBoxes DEF HasSlot, InUse
<1> QED
  BY <1>2, <1>3 DEF MoveBox

\* A Box that is passed by value leaves a step with an invalid pointer.
LEMMA Invalidated ==
  ASSUME NEW k, NEW g, NEW a
  PROVE  [[kind |-> k, arg |-> g, addr |-> a, valid |-> TRUE] EXCEPT !.valid = FALSE]
           = [kind |-> k, arg |-> g, addr |-> a, valid |-> FALSE]
<1> DEFINE fields == {"kind", "arg", "addr", "valid"}
           old == [kind |-> k, arg |-> g, addr |-> a, valid |-> TRUE]
           spoilt == [old EXCEPT !.valid = FALSE]
           new == [kind |-> k, arg |-> g, addr |-> a, valid |-> FALSE]
<1>1. spoilt = [x \in fields |-> spoilt[x]] /\ new = [x \in fields |-> new[x]]
  <2>1. DOMAIN spoilt = fields
    OBVIOUS
  <2>2. spoilt = [x \in fields |-> spoilt[x]]
    BY <2>1
  <2> QED
    BY <2>2
<1>2. spoilt.kind = k /\ spoilt.arg = g /\ spoilt.addr = a
  OBVIOUS
<1>3. spoilt.valid = FALSE
  OBVIOUS
<1>4. new.kind = k /\ new.arg = g /\ new.addr = a /\ new.valid = FALSE
  OBVIOUS
<1> HIDE DEF spoilt, new
<1>5. \A x \in fields : spoilt[x] = new[x]
  BY <1>2, <1>3, <1>4
<1> QED
  BY <1>1, <1>5 DEF spoilt, new

\* A sequence whose last element has moved.
LEMMA MovedLast ==
  ASSUME NEW s \in Seq(Given), NEW a, MoveBox(s, a) = s, NEW old, NEW new,
         old.addr = a, [old EXCEPT !.valid = FALSE] = new
  PROVE  MoveBox(Append(s, old), a) = Append(s, new)
<1> HIDE DEF Given
<1> DEFINE long == Append(s, old)
           moved == Append(s, new)
<1>1. /\ Len(s) \in Nat /\ DOMAIN s = 1 .. Len(s)
      /\ DOMAIN long = 1 .. Len(s) + 1
      /\ \A i \in DOMAIN s : long[i] = s[i] /\ moved[i] = s[i]
      /\ long[Len(s) + 1] = old /\ moved[Len(s) + 1] = new
  OBVIOUS
<1>2. moved = [i \in 1 .. Len(s) + 1 |-> moved[i]]
  <2>1. s \in Seq(Given \cup {new})
    BY SeqMonotonic
  <2>2. moved \in Seq(Given \cup {new}) /\ Len(moved) = Len(s) + 1
    BY <2>1
  <2>3. moved \in [1 .. Len(s) + 1 -> Given \cup {new}]
    BY <2>2, LenProperties
  <2> QED
    BY <2>3
<1>3. \A i \in DOMAIN s :
        (IF s[i].addr = a THEN [s[i] EXCEPT !.valid = FALSE] ELSE s[i]) = s[i]
  BY DEF MoveBox
<1> HIDE DEF long, moved
<1>4. \A i \in 1 .. Len(s) + 1 :
        (IF long[i].addr = a THEN [long[i] EXCEPT !.valid = FALSE] ELSE long[i]) = moved[i]
  <2> SUFFICES ASSUME NEW i \in 1 .. Len(s) + 1
               PROVE  (IF long[i].addr = a THEN [long[i] EXCEPT !.valid = FALSE] ELSE long[i])
                        = moved[i]
    OBVIOUS
  <2>1. CASE i \in DOMAIN s
    BY <1>1, <1>3, <2>1
  <2>2. CASE i = Len(s) + 1
    BY <1>1, <2>2
  <2> QED
    BY <1>1, <2>1, <2>2
<1>5. MoveBox(long, a) = moved
  BY <1>1, <1>2, <1>4 DEF MoveBox
<1> QED
  BY <1>5 DEF long, moved

\* omap_cmp and the reads give librados a step with a slot.
LEMMA BoxGives ==
  ASSUME CInv, NEW t \in Threads, NEW kinds, Adding(t, kinds), NEW a \in Addrs, ~ InUse(a),
         \/ NextStep(t).kind = "omap_cmp" /\ PushThenPoint(t, a)
         \/ NextStep(t).kind = "get" /\ PointThenPush(t, a)
  PROVE  \E e : Gets(t, e) /\ IsNext(t, e) /\ e.arg = NextStep(t).arg /\ e.addr = a
<1>1. NextStep(t) \in Step /\ a # NoAddr
  BY NextIsStep, CompoundOpsAssumption
<1>2. given[t] \in Seq(Given) /\ MoveBox(given[t], a) = given[t]
  BY FreshMove, TypesAt DEF CInv
<1> DEFINE old == Pointing(t, NextStep(t).arg, a)
           new == [kind |-> NextStep(t).kind, arg |-> NextStep(t).arg, addr |-> a,
                   valid |-> FALSE]
<1>3. CASE NextStep(t).kind = "omap_cmp" /\ PushThenPoint(t, a)
  <2>1. Gets(t, old)
    BY <1>2, <1>3 DEF PushThenPoint, Gets
  <2>2. IsNext(t, old) /\ old.arg = NextStep(t).arg /\ old.addr = a
    BY <1>1, <1>3 DEF IsNext, Pointing, Given, Step, HasSlot
  <2> QED
    BY <2>1, <2>2
<1>4. CASE NextStep(t).kind = "get" /\ PointThenPush(t, a)
  <2>1. old.addr = a /\ [old EXCEPT !.valid = FALSE] = new
    BY Invalidated DEF Pointing
  <2>2. MoveBox(Append(given[t], old), a) = Append(given[t], new)
    <3> HIDE DEF old, new
    <3> QED
      BY <1>2, <2>1, MovedLast
  <2>3. Gets(t, new)
    BY <1>4, <2>2 DEF PointThenPush, Gets
  <2>4. IsNext(t, new) /\ new.arg = NextStep(t).arg /\ new.addr = a
    BY <1>1, <1>4 DEF IsNext, Given, Step, HasSlot
  <2> QED
    BY <2>3, <2>4
<1> QED
  BY <1>3, <1>4

\* A step with a slot: what librados has and where its slots are.
LEMMA BoxBuilds ==
  ASSUME CInv, NEW t \in Threads, NEW kinds, Adding(t, kinds), NEW a \in Addrs, NewBox(t, a),
         NEW e, Gets(t, e), IsNext(t, e), e.addr = a,
         UNCHANGED <<object, lastVersion, stage, program, ret, outcome, id, built,
                     results, known, verdict, ownAnswer, basis>>
  PROVE  /\ memory' \in [Addrs -> Content] /\ boxes' \in [Threads -> Seq(Addrs)]
         /\ given' \in [Threads -> Seq(Given)]
         /\ BuildInv(t)' /\ SlotsHold(t)' /\ BoxesApart'
         /\ \A u \in Threads \ {t} :
              /\ given'[u] = given[u] /\ boxes'[u] = boxes[u]
              /\ \A i \in DOMAIN boxes[u] : memory'[boxes[u][i]] = memory[boxes[u][i]]
         /\ \A i \in DOMAIN given[t] : i \in DOMAIN given'[t] /\ given'[t][i] = given[t][i]
         /\ \A k \in DOMAIN boxes[t] : k \in DOMAIN boxes'[t] /\ boxes'[t][k] = boxes[t][k]
         /\ Len(given[t]) + 1 \in DOMAIN given'[t]
         /\ given'[t][Len(given[t]) + 1] = e
         /\ Len(boxes[t]) + 1 \in DOMAIN boxes'[t] /\ boxes'[t][Len(boxes[t]) + 1] = a
<1>1. /\ TypeOK /\ OpInv(t) /\ stage[t] = "building"
      /\ ~ InUse(a) /\ a # NoAddr
  BY CompoundOpsAssumption DEF CInv, Adding, NewBox
<1>3. /\ given' \in [Threads -> Seq(Given)]
      /\ given'[t] = Append(given[t], e)
      /\ DOMAIN given'[t] = 1 .. Len(given[t]) + 1 /\ Len(given'[t]) = Len(given[t]) + 1
      /\ \A i \in DOMAIN given[t] : given'[t][i] = given[t][i]
      /\ given'[t][Len(given[t]) + 1] = e
      /\ FollowsProgram(t)'
      /\ \A u \in Threads \ {t} : given'[u] = given[u]
  BY GiveFollows
<1>4. HasSlot(e) /\ e.addr = a /\ e \in Given
  BY <1>1 DEF HasSlot, IsNext
<1>5. /\ DOMAIN given[t] = 1 .. Len(given[t]) /\ Len(given[t]) \in Nat /\ given[t] \in Seq(Given)
      /\ DOMAIN boxes[t] = 1 .. Len(boxes[t]) /\ Len(boxes[t]) \in Nat /\ boxes[t] \in Seq(Addrs)
  BY <1>1, TypesAt
<1>6. memory' = [memory EXCEPT ![a] = Fresh] /\ boxes' = [boxes EXCEPT ![t] = Append(@, a)]
  BY DEF NewBox
<1>7. memory' \in [Addrs -> Content]
  <2>1. Fresh \in Content
    BY DEF Fresh, Content
  <2> QED
    BY <1>1, <1>6, <2>1 DEF TypeOK
<1>8. /\ boxes' \in [Threads -> Seq(Addrs)]
      /\ boxes'[t] = Append(boxes[t], a)
      /\ \A u \in Threads \ {t} : boxes'[u] = boxes[u]
  <2>1. Append(boxes[t], a) \in Seq(Addrs)
    BY <1>5
  <2> QED
    BY <1>1, <1>6, <2>1 DEF TypeOK
<1>9. /\ DOMAIN boxes'[t] = 1 .. Len(boxes[t]) + 1 /\ Len(boxes'[t]) = Len(boxes[t]) + 1
      /\ \A k \in DOMAIN boxes[t] : boxes'[t][k] = boxes[t][k]
      /\ boxes'[t][Len(boxes[t]) + 1] = a
  BY <1>5, <1>8
<1>10. \A u \in Threads : \A k \in DOMAIN boxes[u] : boxes[u][k] # a
  BY <1>1 DEF InUse
<1>11. \A b \in Addrs : memory'[b] = IF b = a THEN Fresh ELSE memory[b]
  BY <1>1, <1>6 DEF TypeOK
<1>12. \A u \in Threads : \A k \in DOMAIN boxes[u] : memory'[boxes[u][k]] = memory[boxes[u][k]]
  BY <1>1, <1>10, <1>11, TypesAt
<1>13. BoxesApart'
  <2> SUFFICES ASSUME NEW u \in Threads, NEW v \in Threads, NEW i \in DOMAIN boxes'[u],
                      NEW j \in DOMAIN boxes'[v], boxes'[u][i] = boxes'[v][j]
               PROVE  u = v /\ i = j
    BY DEF BoxesApart
  <2>1. \A w \in Threads : \A k \in DOMAIN boxes'[w] :
          \/ k \in DOMAIN boxes[w] /\ boxes'[w][k] = boxes[w][k]
          \/ w = t /\ k = Len(boxes[t]) + 1
    <3> SUFFICES ASSUME NEW w \in Threads, NEW k \in DOMAIN boxes'[w]
                 PROVE  \/ k \in DOMAIN boxes[w] /\ boxes'[w][k] = boxes[w][k]
                        \/ w = t /\ k = Len(boxes[t]) + 1
      OBVIOUS
    <3>1. CASE w # t
      BY <1>8, <3>1
    <3>2. CASE w = t
      <4>1. k \in 1 .. Len(boxes[t]) + 1
        BY <1>9, <3>2
      <4>2. k \in 1 .. Len(boxes[t]) \/ k = Len(boxes[t]) + 1
        BY <1>5, <4>1
      <4> QED
        BY <1>5, <1>9, <3>2, <4>2
    <3> QED
      BY <3>1, <3>2
  <2>2. /\ (i \in DOMAIN boxes[u] /\ boxes'[u][i] = boxes[u][i]) \/ (u = t /\ i = Len(boxes[t]) + 1)
        /\ (j \in DOMAIN boxes[v] /\ boxes'[v][j] = boxes[v][j]) \/ (v = t /\ j = Len(boxes[t]) + 1)
    BY <2>1
  <2> QED
    BY <1>9, <1>10, <2>2 DEF CInv, BoxesApart
<1>14. OfStage(t)'
  BY <1>1 DEF OpInv, BuildInv, OfStage
<1>15. ASSUME NEW i \in DOMAIN given'[t]
       PROVE  (i \in DOMAIN given[t] /\ given'[t][i] = given[t][i]) \/ i = Len(given[t]) + 1
  BY <1>3, <1>5
<1>16. BoxesInOrder(t)'
  <2>1. BoxesInOrder(t)
    BY <1>1 DEF OpInv, BuildInv
  <2>2. Cardinality(SlotsIn(given[t], Len(given[t]))) \in Nat
    BY <1>5, SlotsInCount
  <2>3. Cardinality(SlotsIn(given'[t], Len(given[t]) + 1)) = Len(boxes[t]) + 1
    BY <1>3, <1>4, <1>5, <2>1, <2>2, SlotsInAppend DEF BoxesInOrder
  <2>4. ASSUME NEW i \in DOMAIN given'[t], HasSlot(given'[t][i])
        PROVE  /\ Cardinality(SlotsIn(given'[t], i)) \in DOMAIN boxes'[t]
               /\ boxes'[t][Cardinality(SlotsIn(given'[t], i))] = given'[t][i].addr
    <3>1. CASE i \in DOMAIN given[t] /\ given'[t][i] = given[t][i]
      <4>1. SlotsIn(given'[t], i) = SlotsIn(given[t], i)
        BY <1>3, <1>5, <3>1, SlotsInAppend
      <4>2. /\ Cardinality(SlotsIn(given[t], i)) \in DOMAIN boxes[t]
            /\ boxes[t][Cardinality(SlotsIn(given[t], i))] = given[t][i].addr
        BY <2>1, <2>4, <3>1 DEF BoxesInOrder
      <4> QED
        BY <1>5, <1>9, <3>1, <4>1, <4>2
    <3>2. CASE i = Len(given[t]) + 1
      BY <1>3, <1>4, <1>5, <1>9, <2>3, <3>2
    <3> QED
      BY <1>15, <3>1, <3>2
  <2>5. ASSUME NEW k \in DOMAIN boxes'[t]
        PROVE  \E i \in DOMAIN given'[t] : given'[t][i].addr = boxes'[t][k]
    <3>1. CASE k \in DOMAIN boxes[t]
      BY <1>3, <1>5, <1>9, <2>1, <3>1 DEF BoxesInOrder
    <3>2. CASE k = Len(boxes[t]) + 1
      <4>1. Len(given[t]) + 1 \in DOMAIN given'[t] /\ given'[t][Len(given[t]) + 1].addr = a
        BY <1>3, <1>4, <1>5
      <4> QED
        BY <1>9, <3>2, <4>1
    <3> QED
      BY <1>5, <1>9, <3>1, <3>2
  <2> QED
    BY <1>3, <1>9, <2>3, <2>4, <2>5 DEF BoxesInOrder
<1>17. SlotsHold(t)'
  <2>1. ASSUME NEW i \in DOMAIN given'[t], HasSlot(given'[t][i])
        PROVE  memory'[given'[t][i].addr].prval = "zero"
    <3>1. CASE i \in DOMAIN given[t] /\ given'[t][i] = given[t][i]
      <4>1. PICK k \in DOMAIN boxes[t] : boxes[t][k] = given[t][i].addr
        BY <1>1, <2>1, <3>1, SlotsAreBoxes DEF OpInv, BuildInv
      <4>2. memory[given[t][i].addr].prval = "zero"
        BY <1>1, <2>1, <3>1 DEF OpInv, SlotsHold
      <4> QED
        BY <1>12, <3>1, <4>1, <4>2
    <3>2. CASE i = Len(given[t]) + 1
      BY <1>3, <1>4, <1>11, <3>2 DEF Fresh
    <3> QED
      BY <1>15, <3>1, <3>2
  <2> QED
    BY <1>1, <2>1 DEF SlotsHold
<1> QED
  BY <1>3, <1>5, <1>7, <1>8, <1>9, <1>12, <1>13, <1>14, <1>16, <1>17 DEF BuildInv

\* The reads of the handles stay when steps and boxes are added.
LEMMA HandlesStay ==
  ASSUME NEW t \in Threads, OpInv(t), NEW h \in handles[t], h.id = id[t], id[t] # NoId,
         \A i \in DOMAIN given[t] : i \in DOMAIN given'[t] /\ given'[t][i] = given[t][i],
         \A k \in DOMAIN boxes[t] : k \in DOMAIN boxes'[t] /\ boxes'[t][k] = boxes[t][k]
  PROVE  /\ h.op = built[t]
         /\ \E i \in DOMAIN given'[t] :
              /\ given'[t][i].kind = "get" /\ given'[t][i].arg = h.part
              /\ h.index \in DOMAIN boxes'[t] /\ boxes'[t][h.index] = given'[t][i].addr
<1>1. PICK i \in DOMAIN given[t] :
        /\ given[t][i].kind = "get" /\ given[t][i].arg = h.part
        /\ h.index \in DOMAIN boxes[t] /\ boxes[t][h.index] = given[t][i].addr
  BY DEF OpInv, HandlesOfOp
<1>2. h.op = built[t]
  BY DEF OpInv, HandlesOfOp
<1> QED
  BY <1>1, <1>2

LEMMA AddCmpKeeps ==
  ASSUME CInv, NEW t \in Threads, AddCmp(t)
  PROVE  CInv'
<1>a. PICK a \in Addrs : NewBox(t, a) /\ PushThenPoint(t, a)
  BY DEF AddCmp
<1>1. PICK e : /\ NewBox(t, a) /\ Gets(t, e) /\ IsNext(t, e)
               /\ e.arg = NextStep(t).arg /\ e.addr = a
  <2>1. Adding(t, {"omap_cmp"}) /\ NextStep(t).kind = "omap_cmp" /\ ~ InUse(a)
    BY <1>a DEF AddCmp, Adding, NewBox
  <2> QED
    BY <1>a, <2>1, BoxGives
<1>2. NextStep(t).kind = "omap_cmp" /\ Adding(t, {"omap_cmp"}) /\ stage[t] = "building"
  BY DEF AddCmp, Adding
<1>3. UNCHANGED <<object, lastVersion, stage, program, ret, outcome, id, built,
                  handles, results, known, verdict, ownAnswer, basis>>
  BY DEF AddCmp
<1>4. TypeOK /\ OpInv(t)
  BY DEF CInv
<1>5. /\ memory' \in [Addrs -> Content] /\ boxes' \in [Threads -> Seq(Addrs)]
      /\ given' \in [Threads -> Seq(Given)]
      /\ BuildInv(t)' /\ SlotsHold(t)' /\ BoxesApart'
      /\ \A u \in Threads \ {t} :
           /\ given'[u] = given[u] /\ boxes'[u] = boxes[u]
           /\ \A i \in DOMAIN boxes[u] : memory'[boxes[u][i]] = memory[boxes[u][i]]
      /\ \A i \in DOMAIN given[t] : i \in DOMAIN given'[t] /\ given'[t][i] = given[t][i]
      /\ \A k \in DOMAIN boxes[t] : k \in DOMAIN boxes'[t] /\ boxes'[t][k] = boxes[t][k]
  BY <1>1, <1>2, <1>3, BoxBuilds
<1>6. TypeOK'
  BY <1>3, <1>4, <1>5 DEF TypeOK
<1>7. ASSUME NEW u \in Threads \ {t} PROVE Same(u)
  BY <1>3, <1>5 DEF Same
<1>8. HandlesOfOp(t)' /\ HandlesApart(t)'
  <2>1. ASSUME NEW h \in handles[t], h.id = id[t], id[t] # NoId
        PROVE  /\ h.op = built[t]
               /\ \E i \in DOMAIN given'[t] :
                    /\ given'[t][i].kind = "get" /\ given'[t][i].arg = h.part
                    /\ h.index \in DOMAIN boxes'[t] /\ boxes'[t][h.index] = given'[t][i].addr
    BY <1>4, <1>5, <2>1, HandlesStay
  <2> QED
    BY <1>3, <1>4, <2>1 DEF OpInv, HandlesOfOp, HandlesApart
<1>9. ReplyTells(t)' /\ ReportTrue(t)'
  BY <1>2, <1>3 DEF ReplyTells, ReportTrue
<1>10. ResultsFound(t)'
  BY <1>3, <1>4 DEF OpInv, ResultsFound, Names
<1> QED
  BY <1>5, <1>6, <1>7, <1>8, <1>9, <1>10, StepKeeps DEF OpInv

LEMMA AddReadKeeps ==
  ASSUME CInv, NEW t \in Threads, AddRead(t)
  PROVE  CInv'
<1> DEFINE new == [id |-> id[t], index |-> Len(boxes[t]) + 1, op |-> built[t],
                   part |-> NextStep(t).arg]
<1>a. PICK a \in Addrs : NewBox(t, a) /\ PointThenPush(t, a)
  BY DEF AddRead
<1>1. PICK e : /\ NewBox(t, a) /\ Gets(t, e) /\ IsNext(t, e)
               /\ e.arg = NextStep(t).arg /\ e.addr = a
  <2>1. Adding(t, {"get"}) /\ NextStep(t).kind = "get" /\ ~ InUse(a)
    BY <1>a DEF AddRead, Adding, NewBox
  <2> QED
    BY <1>a, <2>1, BoxGives
<1>2. NextStep(t).kind = "get" /\ Adding(t, {"get"}) /\ stage[t] = "building"
  BY DEF AddRead, Adding
<1>3. /\ UNCHANGED <<object, lastVersion, stage, program, ret, outcome, id, built,
                     results, known, verdict, ownAnswer, basis>>
      /\ handles' = [handles EXCEPT ![t] = @ \cup {new}]
  BY DEF AddRead
<1>4. TypeOK /\ OpInv(t)
  BY DEF CInv
<1>5. /\ memory' \in [Addrs -> Content] /\ boxes' \in [Threads -> Seq(Addrs)]
      /\ given' \in [Threads -> Seq(Given)]
      /\ BuildInv(t)' /\ SlotsHold(t)' /\ BoxesApart'
      /\ \A u \in Threads \ {t} :
           /\ given'[u] = given[u] /\ boxes'[u] = boxes[u]
           /\ \A i \in DOMAIN boxes[u] : memory'[boxes[u][i]] = memory[boxes[u][i]]
      /\ \A i \in DOMAIN given[t] : i \in DOMAIN given'[t] /\ given'[t][i] = given[t][i]
      /\ \A k \in DOMAIN boxes[t] : k \in DOMAIN boxes'[t] /\ boxes'[t][k] = boxes[t][k]
      /\ Len(given[t]) + 1 \in DOMAIN given'[t]
      /\ given'[t][Len(given[t]) + 1] = e
      /\ Len(boxes[t]) + 1 \in DOMAIN boxes'[t] /\ boxes'[t][Len(boxes[t]) + 1] = a
  BY <1>1, <1>2, <1>3, BoxBuilds
<1>6. id[t] \in Ids /\ NextStep(t).arg \in Values \cup {Empty}
  <2>1. program[t] \in Programs /\ Len(given[t]) + 1 \in DOMAIN program[t].steps
    <3>1. program[t] \in Programs /\ Len(given[t]) < Len(program[t].steps) /\ Len(given[t]) \in Nat
      BY <1>2, <1>4, TypesAt DEF Adding, OpInv, BuildInv, OfStage
    <3> QED
      BY <3>1, ProgramTypes
  <2>2. NextStep(t) \in Step /\ program[t].type = "read"
    BY <1>2, <2>1, ProgramTypes DEF NextStep, Guards, Mutations
  <2>3. id[t] # NoId
    BY <1>2, <1>4, <2>2 DEF OpInv, BuildInv, OfStage
  <2> QED
    BY <1>4, <2>2, <2>3, TypesAt DEF Step
<1>7. Len(boxes[t]) \in Nat /\ DOMAIN boxes[t] = 1 .. Len(boxes[t]) /\ built[t] \in Nat
  BY <1>4, TypesAt
<1>8. new \in Handle /\ new.id = id[t] /\ new.index = Len(boxes[t]) + 1 /\ new.op = built[t]
      /\ new.part = NextStep(t).arg
  BY <1>6, <1>7 DEF Handle
<1> HIDE DEF new
<1>9. /\ handles' \in [Threads -> SUBSET Handle]
      /\ handles'[t] = handles[t] \cup {new}
      /\ \A u \in Threads \ {t} : handles'[u] = handles[u]
  BY <1>3, <1>4, <1>8 DEF TypeOK
<1>10. TypeOK'
  BY <1>3, <1>4, <1>5, <1>9 DEF TypeOK
<1>11. ASSUME NEW u \in Threads \ {t} PROVE Same(u)
  BY <1>3, <1>5, <1>9 DEF Same
<1>12. HandlesOfOp(t)'
  <2>1. ASSUME NEW h \in handles[t], h.id = id[t]
        PROVE  /\ h.op = built[t]
               /\ \E i \in DOMAIN given'[t] :
                    /\ given'[t][i].kind = "get" /\ given'[t][i].arg = h.part
                    /\ h.index \in DOMAIN boxes'[t] /\ boxes'[t][h.index] = given'[t][i].addr
    BY <1>4, <1>5, <1>6, <2>1, CompoundOpsAssumption, HandlesStay
  <2>2. \E i \in DOMAIN given'[t] :
          /\ given'[t][i].kind = "get" /\ given'[t][i].arg = new.part
          /\ new.index \in DOMAIN boxes'[t] /\ boxes'[t][new.index] = given'[t][i].addr
    <3> DEFINE g == given'[t][Len(given[t]) + 1]
    <3>1. g.kind = "get" /\ g.arg = new.part /\ g.addr = a
      BY <1>1, <1>2, <1>5, <1>8 DEF IsNext
    <3>2. new.index \in DOMAIN boxes'[t] /\ boxes'[t][new.index] = a
      BY <1>5, <1>8
    <3> QED
      BY <1>5, <3>1, <3>2
  <2> QED
    BY <1>3, <1>8, <1>9, <2>1, <2>2 DEF HandlesOfOp
<1>13. HandlesApart(t)'
  <2>1. \A h \in handles[t] : h.id = new.id => h.index # new.index
    BY <1>4, <1>6, <1>7, <1>8, CompoundOpsAssumption DEF OpInv, HandlesOfOp
  <2> QED
    BY <1>3, <1>4, <1>9, <2>1 DEF OpInv, HandlesApart
<1>14. ReplyTells(t)' /\ ReportTrue(t)'
  BY <1>2, <1>3 DEF ReplyTells, ReportTrue
<1>15. ResultsFound(t)'
  <2>1. results[t].id # new.id
    BY <1>4, <1>6, <1>8, CompoundOpsAssumption DEF OpInv, HandlesApart
  <2> QED
    BY <1>3, <1>4, <1>9, <2>1 DEF OpInv, ResultsFound, Names
<1> QED
  BY <1>5, <1>10, <1>11, <1>12, <1>13, <1>14, <1>15, StepKeeps DEF OpInv

-----------------------------------------------------------------------------
(* The drop of an operation *)

LEMMA DropClears ==
  ASSUME CInv, NEW t \in Threads, Dropped(t)
  PROVE  /\ memory' \in [Addrs -> Content]
         /\ stage' \in [Threads -> {"idle", "building", "operating", "executed", "replied"}]
         /\ given' \in [Threads -> Seq(Given)] /\ boxes' \in [Threads -> Seq(Addrs)]
         /\ id' \in [Threads -> Ids \cup {NoId}]
         /\ stage'[t] = "idle" /\ id'[t] = NoId
         /\ BoxesApart'
         /\ \A u \in Threads \ {t} :
              /\ stage'[u] = stage[u] /\ given'[u] = given[u] /\ boxes'[u] = boxes[u]
              /\ id'[u] = id[u]
              /\ \A i \in DOMAIN boxes[u] : memory'[boxes[u][i]] = memory[boxes[u][i]]
         /\ BuildInv(t)' /\ SlotsHold(t)' /\ ReplyTells(t)' /\ HandlesOfOp(t)'
<1>1. TypeOK
  BY DEF CInv
<1>2. memory' \in [Addrs -> Content]
  <2>1. Fresh \in Content
    BY DEF Fresh, Content
  <2> QED
    BY <1>1, <2>1 DEF Dropped, TypeOK
<1>3. /\ stage' \in [Threads -> {"idle", "building", "operating", "executed", "replied"}]
      /\ given' \in [Threads -> Seq(Given)] /\ boxes' \in [Threads -> Seq(Addrs)]
      /\ id' \in [Threads -> Ids \cup {NoId}]
  BY <1>1 DEF Dropped, TypeOK
<1>4. stage'[t] = "idle" /\ given'[t] = <<>> /\ boxes'[t] = <<>> /\ id'[t] = NoId
  BY <1>1 DEF Dropped, TypeOK
<1>5. \A u \in Threads \ {t} :
        /\ stage'[u] = stage[u] /\ given'[u] = given[u] /\ boxes'[u] = boxes[u] /\ id'[u] = id[u]
  BY <1>1 DEF Dropped, TypeOK
<1>6. ASSUME NEW u \in Threads \ {t}, NEW i \in DOMAIN boxes[u]
      PROVE  memory'[boxes[u][i]] = memory[boxes[u][i]]
  <2>1. boxes[u][i] \in Addrs
    BY <1>1, TypesAt
  <2>2. ~ \E j \in DOMAIN boxes[t] : boxes[t][j] = boxes[u][i]
    BY DEF CInv, BoxesApart
  <2> QED
    BY <2>1, <2>2 DEF Dropped
<1>7. BoxesApart'
  <2> SUFFICES ASSUME NEW u \in Threads, NEW v \in Threads, NEW i \in DOMAIN boxes'[u],
                      NEW j \in DOMAIN boxes'[v], boxes'[u][i] = boxes'[v][j]
               PROVE  u = v /\ i = j
    BY DEF BoxesApart
  <2>1. u # t /\ v # t
    BY <1>4
  <2> QED
    BY <1>5, <2>1 DEF CInv, BoxesApart
<1>8. FollowsProgram(t)' /\ OfStage(t)'
  BY <1>4 DEF FollowsProgram, OfStage
<1>9. BoxesInOrder(t)'
  <2>1. SlotsIn(<<>>, 0) = {}
    BY DEF SlotsIn
  <2>2. Cardinality(SlotsIn(<<>>, 0)) = 0
    BY <2>1, FS_EmptySet
  <2>3. /\ Len(given'[t]) = 0 /\ Len(boxes'[t]) = 0
        /\ DOMAIN given'[t] = {} /\ DOMAIN boxes'[t] = {}
    BY <1>4
  <2> QED
    BY <1>4, <2>2, <2>3 DEF BoxesInOrder
<1>10. SlotsHold(t)' /\ ReplyTells(t)' /\ HandlesOfOp(t)'
  BY <1>4 DEF SlotsHold, ReplyTells, HandlesOfOp
<1> QED
  BY <1>2, <1>3, <1>4, <1>5, <1>6, <1>7, <1>8, <1>9, <1>10 DEF BuildInv

\* A drop keeps the invariant when the rest of the step does.
LEMMA DropKeeps ==
  ASSUME CInv, NEW t \in Threads, Dropped(t),
         UNCHANGED <<object, lastVersion, program, ret, built, handles, known, verdict, ownAnswer, basis>>,
         outcome' \in [Threads -> [kind : {"none", "ok", "error"}, failedCmp : Nat]],
         results' \in [Threads -> [id : Ids \cup {NoId}, values : Seq(Content), op : Nat,
                                   object : Object]],
         \A u \in Threads \ {t} : outcome'[u] = outcome[u] /\ results'[u] = results[u],
         ReportTrue(t)', ResultsFound(t)'
  PROVE  CInv'
<1>1. TypeOK /\ OpInv(t)
  BY DEF CInv
<1>2. /\ memory' \in [Addrs -> Content]
      /\ stage' \in [Threads -> {"idle", "building", "operating", "executed", "replied"}]
      /\ given' \in [Threads -> Seq(Given)] /\ boxes' \in [Threads -> Seq(Addrs)]
      /\ id' \in [Threads -> Ids \cup {NoId}]
      /\ stage'[t] = "idle" /\ id'[t] = NoId
      /\ BoxesApart'
      /\ \A u \in Threads \ {t} :
           /\ stage'[u] = stage[u] /\ given'[u] = given[u] /\ boxes'[u] = boxes[u]
           /\ id'[u] = id[u]
           /\ \A i \in DOMAIN boxes[u] : memory'[boxes[u][i]] = memory[boxes[u][i]]
      /\ BuildInv(t)' /\ SlotsHold(t)' /\ ReplyTells(t)' /\ HandlesOfOp(t)'
  BY DropClears
<1>3. TypeOK'
  BY <1>1, <1>2 DEF TypeOK
<1>4. ASSUME NEW u \in Threads \ {t} PROVE Same(u)
  BY <1>2 DEF Same
<1>5. HandlesApart(t)'
  BY <1>1, <1>2 DEF OpInv, HandlesApart
<1> QED
  BY <1>2, <1>3, <1>4, <1>5, StepKeeps DEF OpInv

LEMMA DropOpKeeps ==
  ASSUME CInv, NEW t \in Threads, DropOp(t)
  PROVE  CInv'
<1>1. TypeOK /\ OpInv(t)
  BY DEF CInv
<1>2. outcome[t].kind = "none"
  BY <1>1 DEF DropOp, OpInv, BuildInv, OfStage
<1>3. ReportTrue(t)' /\ ResultsFound(t)'
  BY <1>1, <1>2 DEF DropOp, OpInv, ReportTrue, ResultsFound, Names
<1>4. UNCHANGED <<outcome, results>>
  BY DEF DropOp
<1>5. /\ outcome' \in [Threads -> [kind : {"none", "ok", "error"}, failedCmp : Nat]]
      /\ results' \in [Threads -> [id : Ids \cup {NoId}, values : Seq(Content), op : Nat,
                                   object : Object]]
  BY <1>1, <1>4 DEF TypeOK
<1> QED
  BY <1>3, <1>4, <1>5, DropKeeps DEF DropOp

LEMMA OperateNulKeeps ==
  ASSUME CInv, NEW t \in Threads, OperateNul(t)
  PROVE  CInv'
<1>1. TypeOK /\ OpInv(t)
  BY DEF CInv
<1>2. Report("error", None) \in [kind : {"none", "ok", "error"}, failedCmp : Nat]
  BY DEF Report, None
<1>3. /\ outcome' \in [Threads -> [kind : {"none", "ok", "error"}, failedCmp : Nat]]
      /\ outcome'[t] = Report("error", None)
      /\ \A u \in Threads \ {t} : outcome'[u] = outcome[u]
  BY <1>1, <1>2 DEF OperateNul, TypeOK
<1>4. ret[t] = "none"
  BY <1>1 DEF OperateNul, OpInv, BuildInv, OfStage
<1>5. ReportTrue(t)'
  <2>1. outcome'[t].kind = "error" /\ outcome'[t].failedCmp = None
    BY <1>3 DEF Report
  <2>2. ret'[t] = "none"
    BY <1>4 DEF OperateNul
  <2> QED
    BY <2>1, <2>2 DEF ReportTrue
<1>6. ResultsFound(t)'
  BY <1>1 DEF OperateNul, OpInv, ResultsFound, Names
<1>7. results' \in [Threads -> [id : Ids \cup {NoId}, values : Seq(Content), op : Nat,
                                object : Object]]
  BY <1>1 DEF TypeOK, OperateNul
<1> QED
  BY <1>3, <1>5, <1>6, <1>7, DropKeeps DEF OperateNul

-----------------------------------------------------------------------------
(* The operation on its way *)

LEMMA OperateKeeps ==
  ASSUME CInv, NEW t \in Threads, Operate(t)
  PROVE  CInv'
<1> USE DEF Operate
<1>1. TypeOK /\ OpInv(t)
  BY DEF CInv
<1>2. stage'[t] = "operating" /\ \A u \in Threads \ {t} : stage'[u] = stage[u]
  BY <1>1 DEF TypeOK
<1>3. TypeOK'
  BY <1>1 DEF TypeOK
<1>4. BoxesApart'
  BY DEF CInv, BoxesApart
<1>5. ASSUME NEW u \in Threads \ {t} PROVE Same(u)
  BY <1>2 DEF Same
<1>6. FollowsProgram(t)' /\ BoxesInOrder(t)'
  BY <1>1 DEF OpInv, BuildInv, FollowsProgram, BoxesInOrder
<1>7. OfStage(t)'
  BY <1>1, <1>2 DEF OpInv, BuildInv, OfStage
<1>8. SlotsHold(t)'
  BY <1>1, <1>2 DEF OpInv, SlotsHold
<1>9. ReplyTells(t)' /\ ReportTrue(t)'
  BY <1>2 DEF ReplyTells, ReportTrue
<1>10. HandlesOfOp(t)' /\ HandlesApart(t)' /\ ResultsFound(t)'
  BY <1>1 DEF OpInv, HandlesOfOp, HandlesApart, ResultsFound, Names
<1> QED
  BY <1>3, <1>4, <1>5, <1>6, <1>7, <1>8, <1>9, <1>10, StepKeeps DEF OpInv, BuildInv

\* A step that is not assert_version compares with or sets a value.
LEMMA ArgsOfValues ==
  ASSUME CInv, NEW t \in Threads, NEW i \in DOMAIN given[t], given[t][i].kind # "assert_version"
  PROVE  given[t][i].arg \in Values \cup {Empty}
<1>1. FollowsProgram(t) /\ OfStage(t) /\ TypeOK
  BY DEF CInv, OpInv, BuildInv
<1>2. program[t] \in Programs
  BY <1>1 DEF OfStage
<1>3. i \in DOMAIN program[t].steps /\ given[t][i].arg = program[t].steps[i].arg
  BY <1>1 DEF FollowsProgram
<1> QED
  BY <1>2, <1>3, ProgramTypes DEF Step

\* What the OSD makes of the object.
LEMMA ExecuteResult ==
  ASSUME CInv, NEW t \in Threads, Execute(t)
  PROVE  /\ object' \in Object
         /\ object' = object \/ object'.version = object.version + 1
         /\ object' # object => \A i \in DOMAIN given[t] : Holds(given[t][i], object)
         /\ verdict'[t] = [failed |-> FirstFailing(given[t], object),
                           applied |-> FirstFailing(given[t], object) = None, object |-> object']
         /\ FirstFailing(given[t], object) \in {None} \cup DOMAIN given[t]
         /\ verdict' \in [Threads -> [failed : Nat, applied : BOOLEAN, object : Object]]
         /\ \A u \in Threads \ {t} : verdict'[u] = verdict[u]
<1> DEFINE failed == FirstFailing(given[t], object)
           result == IF failed = None THEN After(given[t], object) ELSE object
<1>1. TypeOK
  BY DEF CInv
<1>2. given[t] \in Seq(Given) /\ object \in Object /\ DOMAIN given[t] = 1 .. Len(given[t])
  BY <1>1, TypesAt DEF TypeOK
<1>3. \A i \in DOMAIN given[t] : given[t][i].kind = "put" => given[t][i].arg \in Values \cup {Empty}
  BY ArgsOfValues
<1>4. /\ After(given[t], object) \in Object
      /\ After(given[t], object) = object \/ After(given[t], object).version = object.version + 1
  BY <1>2, <1>3, AfterType
<1>5. /\ failed \in {None} \cup DOMAIN given[t]
      /\ failed = None => \A i \in DOMAIN given[t] : Holds(given[t][i], object)
  BY <1>2, FirstFailingIs
<1>6. failed \in Nat
  BY <1>1, <1>2, <1>5, TypesAt DEF None
<1>7. /\ object' = result
      /\ verdict' = [verdict EXCEPT
           ![t] = [failed |-> failed, applied |-> failed = None, object |-> result]]
  BY DEF Execute
<1> HIDE DEF failed
<1>8. result \in Object /\ (result = object \/ result.version = object.version + 1)
  BY <1>2, <1>4
<1>9. result # object => \A i \in DOMAIN given[t] : Holds(given[t][i], object)
  BY <1>5
<1> HIDE DEF result
<1>10. verdict \in [Threads -> [failed : Nat, applied : BOOLEAN, object : Object]]
  BY <1>1 DEF TypeOK
<1>11. [failed |-> failed, applied |-> failed = None, object |-> result]
         \in [failed : Nat, applied : BOOLEAN, object : Object]
  <2>1. (failed = None) \in BOOLEAN
    OBVIOUS
  <2> QED
    BY <1>6, <1>8, <2>1
<1>12. verdict' \in [Threads -> [failed : Nat, applied : BOOLEAN, object : Object]]
  BY <1>7, <1>10, <1>11
<1>13. /\ verdict'[t] = [failed |-> failed, applied |-> failed = None, object |-> result]
       /\ \A u \in Threads \ {t} : verdict'[u] = verdict[u]
  BY <1>7, <1>10
<1> QED
  BY <1>5, <1>7, <1>8, <1>9, <1>12, <1>13 DEF failed

LEMMA ExecuteKeeps ==
  ASSUME CInv, NEW t \in Threads, Execute(t)
  PROVE  CInv'
<1>1. TypeOK /\ OpInv(t)
  BY DEF CInv
<1>2. /\ stage[t] = "operating" /\ stage' = [stage EXCEPT ![t] = "executed"]
      /\ UNCHANGED <<lastVersion, memory, program, given, boxes, ret, outcome, id, built,
                     handles, results, known, ownAnswer, basis>>
  BY DEF Execute
<1>3. stage'[t] = "executed" /\ \A u \in Threads \ {t} : stage'[u] = stage[u]
  BY <1>1, <1>2 DEF TypeOK
<1>4. /\ object' \in Object
      /\ verdict'[t].failed \in {None} \cup DOMAIN given[t]
      /\ verdict'[t].applied <=> verdict'[t].failed = None
      /\ verdict' \in [Threads -> [failed : Nat, applied : BOOLEAN, object : Object]]
      /\ \A u \in Threads \ {t} : verdict'[u] = verdict[u]
  <2> DEFINE failed == FirstFailing(given[t], object)
  <2>1. /\ object' \in Object
        /\ verdict'[t] = [failed |-> failed, applied |-> failed = None, object |-> object']
        /\ failed \in {None} \cup DOMAIN given[t]
        /\ verdict' \in [Threads -> [failed : Nat, applied : BOOLEAN, object : Object]]
        /\ \A u \in Threads \ {t} : verdict'[u] = verdict[u]
    BY ExecuteResult
  <2> HIDE DEF failed
  <2>2. verdict'[t].failed = failed
    BY <2>1
  <2>3. verdict'[t].applied <=> failed = None
    BY <2>1
  <2> QED
    BY <2>1, <2>2, <2>3
<1>5. TypeOK'
  BY <1>1, <1>2, <1>4 DEF TypeOK
<1>6. BoxesApart'
  BY <1>2 DEF CInv, BoxesApart
<1>7. ASSUME NEW u \in Threads \ {t} PROVE Same(u)
  BY <1>2, <1>3, <1>4 DEF Same
<1>8. FollowsProgram(t)' /\ BoxesInOrder(t)'
  BY <1>1, <1>2 DEF OpInv, BuildInv, FollowsProgram, BoxesInOrder
<1>9. OfStage(t)'
  BY <1>1, <1>2, <1>3, <1>4 DEF OpInv, BuildInv, OfStage
<1>10. SlotsHold(t)'
  BY <1>1, <1>2, <1>3 DEF OpInv, SlotsHold
<1>11. ReplyTells(t)' /\ ReportTrue(t)'
  BY <1>3 DEF ReplyTells, ReportTrue
<1>12. HandlesOfOp(t)' /\ HandlesApart(t)' /\ ResultsFound(t)'
  BY <1>1, <1>2 DEF OpInv, HandlesOfOp, HandlesApart, ResultsFound, Names
<1> QED
  BY <1>5, <1>6, <1>7, <1>8, <1>9, <1>10, <1>11, <1>12, StepKeeps DEF OpInv, BuildInv

LEMMA NoReplyKeeps ==
  ASSUME CInv, NEW t \in Threads, NoReply(t)
  PROVE  CInv'
<1>1. TypeOK /\ OpInv(t)
  BY DEF CInv
<1>2. /\ stage[t] \in {"operating", "executed"}
      /\ ret' = [ret EXCEPT ![t] = "lost"] /\ stage' = [stage EXCEPT ![t] = "replied"]
      /\ UNCHANGED <<object, lastVersion, memory, program, given, boxes, outcome, id, built,
                     handles, results, known, verdict, ownAnswer, basis>>
  BY DEF NoReply
<1>3. /\ stage'[t] = "replied" /\ ret'[t] = "lost"
      /\ \A u \in Threads \ {t} : stage'[u] = stage[u] /\ ret'[u] = ret[u]
  BY <1>1, <1>2 DEF TypeOK
<1>4. TypeOK'
  BY <1>1, <1>2 DEF TypeOK
<1>5. BoxesApart'
  BY <1>2 DEF CInv, BoxesApart
<1>6. ASSUME NEW u \in Threads \ {t} PROVE Same(u)
  BY <1>2, <1>3 DEF Same
<1>7. FollowsProgram(t)' /\ BoxesInOrder(t)'
  BY <1>1, <1>2 DEF OpInv, BuildInv, FollowsProgram, BoxesInOrder
<1>8. OfStage(t)'
  BY <1>1, <1>2, <1>3 DEF OpInv, BuildInv, OfStage
<1>9. SlotsHold(t)'
  BY <1>1, <1>2, <1>3 DEF OpInv, SlotsHold
<1>10. ReplyTells(t)' /\ ReportTrue(t)'
  BY <1>3 DEF ReplyTells, ReportTrue
<1>11. HandlesOfOp(t)' /\ HandlesApart(t)' /\ ResultsFound(t)'
  BY <1>1, <1>2 DEF OpInv, HandlesOfOp, HandlesApart, ResultsFound, Names
<1> QED
  BY <1>4, <1>5, <1>6, <1>7, <1>8, <1>9, <1>10, <1>11, StepKeeps DEF OpInv, BuildInv

\* No two steps share a slot.
LEMMA OneStepPerSlot ==
  ASSUME CInv, NEW t \in Threads, NEW i \in DOMAIN given[t], NEW j \in DOMAIN given[t],
         HasSlot(given[t][i]), given[t][i].addr = given[t][j].addr
  PROVE  i = j
<1> DEFINE slots(k) == SlotsIn(given[t], k)
<1>1. /\ TypeOK /\ BoxesInOrder(t) /\ HasSlot(given[t][j])
      /\ DOMAIN given[t] = 1 .. Len(given[t]) /\ Len(given[t]) \in Nat
  BY TypesAt DEF CInv, OpInv, BuildInv, HasSlot
<1>2. Cardinality(slots(i)) = Cardinality(slots(j))
  BY <1>1 DEF CInv, BoxesInOrder, BoxesApart
<1>3. ASSUME NEW m \in DOMAIN given[t], NEW n \in DOMAIN given[t], m < n, HasSlot(given[t][n])
      PROVE  Cardinality(slots(m)) < Cardinality(slots(n))
  <2>1. m \in Nat /\ n \in Nat /\ m < n /\ n \in 1 .. n
    BY <1>1, <1>3
  <2>2. n \in slots(n) /\ slots(m) \subseteq slots(n) \ {n}
    BY <1>3, <2>1 DEF SlotsIn
  <2>3. IsFiniteSet(slots(n)) /\ Cardinality(slots(n)) \in Nat /\ Cardinality(slots(m)) \in Nat
    BY <2>1, SlotsInCount
  <2> HIDE DEF slots
  <2>4. IsFiniteSet(slots(n) \ {n}) /\ Cardinality(slots(n) \ {n}) = Cardinality(slots(n)) - 1
    BY <2>2, <2>3, FS_RemoveElement
  <2>5. Cardinality(slots(m)) <= Cardinality(slots(n) \ {n})
    BY <2>2, <2>4, FS_Subset
  <2> QED
    BY <2>3, <2>4, <2>5
<1>4. Cardinality(slots(i)) \in Nat
  BY <1>1, SlotsInCount
<1> HIDE DEF slots
<1>5. ~ (i < j) /\ ~ (j < i)
  BY <1>1, <1>2, <1>3, <1>4
<1> QED
  BY <1>1, <1>5

\* What librados writes to the slot of a step.
SlotAfter(t, i, bad) ==
  LET slot == memory[given[t][i].addr] IN
    IF verdict[t].failed # None
    THEN [slot EXCEPT !.prval = IF verdict[t].failed = i THEN "nonzero" ELSE "zero"]
    ELSE IF given[t][i].kind # "get" THEN [slot EXCEPT !.prval = "zero"]
    ELSE IF i \in bad THEN [Fresh EXCEPT !.prval = "nonzero"]
    ELSE [prval |-> "zero", part |-> given[t][i].arg, value |-> verdict[t].object.value]

LEMMA WrittenTo ==
  ASSUME CInv, NEW t \in Threads, NEW bad
  PROVE  /\ \A a \in Addrs : (\A i \in DOMAIN given[t] : given[t][i].addr # a) =>
              Written(t, bad)[a] = memory[a]
         /\ \A i \in DOMAIN given[t] : HasSlot(given[t][i]) =>
              Written(t, bad)[given[t][i].addr] = SlotAfter(t, i, bad)
<1> DEFINE mine(a) == {i \in DOMAIN given[t] : given[t][i].addr = a}
<1>1. ASSUME NEW a \in Addrs, \A i \in DOMAIN given[t] : given[t][i].addr # a
      PROVE  Written(t, bad)[a] = memory[a]
  <2>1. mine(a) = {}
    BY <1>1
  <2> QED
    BY <2>1 DEF Written
<1>2. ASSUME NEW i \in DOMAIN given[t], HasSlot(given[t][i])
      PROVE  Written(t, bad)[given[t][i].addr] = SlotAfter(t, i, bad)
  <2> DEFINE a == given[t][i].addr
  <2>1. a \in Addrs
    BY <1>2, TypesAt DEF CInv, HasSlot, Given
  <2>2. mine(a) = {i}
    BY <1>2, OneStepPerSlot
  <2>3. mine(a) # {} /\ (CHOOSE k \in mine(a) : TRUE) = i
    BY <2>2
  <2> QED
    BY <2>1, <2>3 DEF Written, SlotAfter
<1> QED
  BY <1>1, <1>2

LEMMA WrittenType ==
  ASSUME CInv, NEW t \in Threads, NEW bad
  PROVE  Written(t, bad) \in [Addrs -> Content]
<1>1. TypeOK
  BY DEF CInv
<1>2. ASSUME NEW a \in Addrs PROVE Written(t, bad)[a] \in Content
  <2>1. memory[a] \in Content
    BY <1>1 DEF TypeOK
  <2>2. CASE \E i \in DOMAIN given[t] : given[t][i].addr = a
    <3>1. PICK i \in DOMAIN given[t] : given[t][i].addr = a
      BY <2>2
    <3>2. HasSlot(given[t][i])
      BY <3>1, CompoundOpsAssumption DEF HasSlot
    <3>3. Written(t, bad)[a] = SlotAfter(t, i, bad)
      BY <3>1, <3>2, WrittenTo
    <3>4. given[t][i].kind = "get" => given[t][i].arg \in Values \cup {Empty}
      BY ArgsOfValues
    <3>5. verdict[t].object.value \in Values \cup {Empty}
      BY <1>1, TypesAt DEF Object
    <3>6. \A p \in {"zero", "nonzero"} : [memory[a] EXCEPT !.prval = p] \in Content
      BY <2>1 DEF Content
    <3>7. [Fresh EXCEPT !.prval = "nonzero"] \in Content
      BY DEF Fresh, Content
    <3>8. CASE verdict[t].failed # None
      BY <3>1, <3>3, <3>6, <3>8 DEF SlotAfter
    <3>9. CASE verdict[t].failed = None /\ given[t][i].kind # "get"
      BY <3>1, <3>3, <3>6, <3>9 DEF SlotAfter
    <3>10. CASE verdict[t].failed = None /\ given[t][i].kind = "get" /\ i \in bad
      BY <3>3, <3>7, <3>10 DEF SlotAfter
    <3>11. CASE verdict[t].failed = None /\ given[t][i].kind = "get" /\ i \notin bad
      <4>1. Written(t, bad)[a] =
              [prval |-> "zero", part |-> given[t][i].arg, value |-> verdict[t].object.value]
        BY <3>3, <3>11 DEF SlotAfter
      <4> QED
        BY <3>4, <3>5, <3>11, <4>1 DEF Content
    <3> QED
      BY <3>8, <3>9, <3>10, <3>11
  <2>3. CASE \A i \in DOMAIN given[t] : given[t][i].addr # a
    BY <2>1, <2>3, WrittenTo
  <2> QED
    BY <2>2, <2>3
<1>3. Written(t, bad) = [a \in Addrs |-> Written(t, bad)[a]]
  BY DEF Written
<1> QED
  BY <1>2, <1>3

LEMMA ReplyArrivesKeeps ==
  ASSUME CInv, NEW t \in Threads, ReplyArrives(t)
  PROVE  CInv'
<1>1. TypeOK /\ OpInv(t)
  BY DEF CInv
<1>2. PICK bad \in SUBSET {i \in DOMAIN given[t] : given[t][i].kind = "get"} :
        memory' = Written(t, bad)
  BY DEF ReplyArrives
<1>3. /\ stage[t] = "executed" /\ stage' = [stage EXCEPT ![t] = "replied"]
      /\ ret' = [ret EXCEPT ![t] = IF verdict[t].failed = None THEN "ok" ELSE "rejected"]
      /\ lastVersion' = [lastVersion EXCEPT ![IoctxOf[t]] = verdict[t].object]
      /\ ownAnswer' = [u \in Threads |-> u = t \/ (ownAnswer[u] /\ IoctxOf[u] # IoctxOf[t])]
      /\ UNCHANGED <<object, program, given, boxes, outcome, id, built,
                     handles, results, known, verdict, basis>>
  BY DEF ReplyArrives
<1>4. /\ stage'[t] = "replied"
      /\ ret'[t] = IF verdict[t].failed = None THEN "ok" ELSE "rejected"
      /\ \A u \in Threads \ {t} : stage'[u] = stage[u] /\ ret'[u] = ret[u]
  BY <1>1, <1>3 DEF TypeOK
<1>5. memory' \in [Addrs -> Content]
  BY <1>2, WrittenType
<1>6. TypeOK'
  <2>1. lastVersion' \in [Ioctxs -> Object] /\ ownAnswer' \in [Threads -> BOOLEAN]
    <3>1. verdict[t].object \in Object
      BY <1>1, TypesAt
    <3>2. \A u \in Threads : (u = t \/ (ownAnswer[u] /\ IoctxOf[u] # IoctxOf[t])) \in BOOLEAN
      OBVIOUS
    <3> QED
      BY <1>1, <1>3, <3>1, <3>2 DEF TypeOK
  <2>2. /\ stage' \in [Threads -> {"idle", "building", "operating", "executed", "replied"}]
        /\ ret' \in [Threads -> {"none", "ok", "rejected", "lost"}]
    BY <1>1, <1>3 DEF TypeOK
  <2> QED
    BY <1>1, <1>3, <1>5, <2>1, <2>2 DEF TypeOK
<1>7. BoxesApart'
  BY <1>3 DEF CInv, BoxesApart
<1>8. ASSUME NEW u \in Threads \ {t} PROVE Same(u)
  <2>1. ASSUME NEW k \in DOMAIN boxes[u] PROVE memory'[boxes[u][k]] = memory[boxes[u][k]]
    <3>1. boxes[u][k] \in Addrs
      BY <1>1, TypesAt
    <3>2. ASSUME NEW i \in DOMAIN given[t], given[t][i].addr = boxes[u][k] PROVE FALSE
      <4>1. HasSlot(given[t][i])
        BY <3>1, <3>2, CompoundOpsAssumption DEF HasSlot
      <4>2. PICK l \in DOMAIN boxes[t] : boxes[t][l] = given[t][i].addr
        BY <1>1, <4>1, SlotsAreBoxes DEF OpInv, BuildInv
      <4> QED
        BY <3>2, <4>2 DEF CInv, BoxesApart
    <3> QED
      BY <1>2, <3>1, <3>2, WrittenTo
  <2> QED
    BY <1>3, <1>4, <2>1 DEF Same
<1>9. FollowsProgram(t)' /\ BoxesInOrder(t)'
  BY <1>1, <1>3 DEF OpInv, BuildInv, FollowsProgram, BoxesInOrder
<1>10. OfStage(t)'
  BY <1>1, <1>3, <1>4 DEF OpInv, BuildInv, OfStage
<1>11. SlotsHold(t)'
  <2> SUFFICES ASSUME NEW i \in DOMAIN given[t], HasSlot(given[t][i])
               PROVE  LET slot == memory'[given[t][i].addr] IN
                        /\ verdict[t].failed # None =>
                             slot.prval = IF i = verdict[t].failed THEN "nonzero" ELSE "zero"
                        /\ verdict[t].failed = None /\ given[t][i].kind = "get" =>
                             \/ slot.prval = "nonzero"
                             \/ slot = [prval |-> "zero", part |-> given[t][i].arg,
                                        value |-> verdict[t].object.value]
    BY <1>3, <1>4 DEF SlotsHold
  <2>1. memory'[given[t][i].addr] = SlotAfter(t, i, bad)
    BY <1>2, WrittenTo
  <2>2. memory[given[t][i].addr] \in Content
    <3>1. given[t][i].addr \in Addrs
      BY <1>1, TypesAt DEF HasSlot, Given
    <3> QED
      BY <1>1, <3>1 DEF TypeOK
  <2>3. \A c \in Content, p \in {"zero", "nonzero"} : [c EXCEPT !.prval = p].prval = p
    BY DEF Content
  <2>4. CASE verdict[t].failed # None
    BY <2>1, <2>2, <2>3, <2>4 DEF SlotAfter
  <2>5. CASE verdict[t].failed = None
    <3> DEFINE read == [prval |-> "zero", part |-> given[t][i].arg,
                        value |-> verdict[t].object.value]
    <3>1. [Fresh EXCEPT !.prval = "nonzero"].prval = "nonzero"
      BY DEF Fresh
    <3>2. given[t][i].kind = "get" =>
            \/ memory'[given[t][i].addr] = [Fresh EXCEPT !.prval = "nonzero"]
            \/ memory'[given[t][i].addr] = read
      BY <2>1, <2>5 DEF SlotAfter
    <3> QED
      BY <2>5, <3>1, <3>2
  <2> QED
    BY <2>4, <2>5
<1>12. ReplyTells(t)' /\ ReportTrue(t)'
  BY <1>1, <1>3, <1>4 DEF OpInv, BuildInv, OfStage, ReplyTells, ReportTrue
<1>13. HandlesOfOp(t)' /\ HandlesApart(t)' /\ ResultsFound(t)'
  BY <1>1, <1>3 DEF OpInv, HandlesOfOp, HandlesApart, ResultsFound, Names
<1> QED
  BY <1>6, <1>7, <1>8, <1>9, <1>10, <1>11, <1>12, <1>13, StepKeeps DEF OpInv, BuildInv

-----------------------------------------------------------------------------
(* The reports *)

\* The comparison that operate_report names.
LEMMA FailedCmpIs ==
  ASSUME CInv, NEW t \in Threads, stage[t] = "replied", program[t].type = "write",
         ret[t] \in {"rejected", "lost"}
  PROVE  FailedCmp(t) =
           IF ret[t] = "rejected" /\ program[t].steps[verdict[t].failed].kind = "omap_cmp"
           THEN Cardinality(CmpsUpTo(program[t].steps, verdict[t].failed)) ELSE None
<1> DEFINE failed == {i \in DOMAIN boxes[t] : memory[boxes[t][i]].prval # "zero"}
           at == verdict[t].failed
<1>1. /\ TypeOK /\ FollowsProgram(t) /\ OfStage(t) /\ BoxesInOrder(t) /\ SlotsHold(t)
      /\ ReplyTells(t)
  BY DEF CInv, OpInv, BuildInv
<1>2. /\ program[t] \in Programs /\ Len(given[t]) = Len(program[t].steps)
      /\ DOMAIN given[t] = 1 .. Len(given[t]) /\ Len(given[t]) \in Nat
      /\ DOMAIN program[t].steps = DOMAIN given[t]
      /\ DOMAIN boxes[t] = 1 .. Len(boxes[t]) /\ Len(boxes[t]) \in Nat
  <2>1. program[t] \in Programs /\ Len(given[t]) = Len(program[t].steps)
    BY <1>1 DEF OfStage
  <2> QED
    BY <1>1, <2>1, ProgramTypes, TypesAt
<1>3. ASSUME NEW i \in DOMAIN given[t]
      PROVE  HasSlot(given[t][i]) <=> program[t].steps[i].kind = "omap_cmp"
  <2>1. program[t].steps[i].kind # "get"
    BY <1>2, ProgramTypes DEF Guards, Mutations
  <2> QED
    BY <1>1, <2>1 DEF FollowsProgram
<1>4. ASSUME NEW k \in DOMAIN boxes[t]
      PROVE  \E i \in DOMAIN given[t] : HasSlot(given[t][i]) /\ given[t][i].addr = boxes[t][k]
  <2>1. boxes[t][k] # NoAddr
    BY <1>1, TypesAt, CompoundOpsAssumption
  <2> QED
    BY <1>1, <2>1 DEF BoxesInOrder, HasSlot
<1>5. CASE ret[t] = "lost"
  <2>1. failed = {}
    BY <1>1, <1>4, <1>5 DEF SlotsHold
  <2> QED
    BY <1>5, <2>1 DEF FailedCmp
<1>6. CASE ret[t] = "rejected"
  <2>1. at \in DOMAIN given[t]
    BY <1>1, <1>6 DEF ReplyTells
  <2>2. ASSUME NEW i \in DOMAIN given[t], HasSlot(given[t][i])
        PROVE  memory[given[t][i].addr].prval # "zero" <=> i = at
    BY <1>1, <1>6, <2>2 DEF SlotsHold
  <2>3. CASE program[t].steps[at].kind = "omap_cmp"
    <3> DEFINE k == Cardinality(SlotsIn(given[t], at))
    <3>1. k \in DOMAIN boxes[t] /\ boxes[t][k] = given[t][at].addr /\ HasSlot(given[t][at])
      BY <1>1, <1>3, <2>1, <2>3 DEF BoxesInOrder
    <3>2. SlotsIn(given[t], at) = CmpsUpTo(program[t].steps, at)
      <4>1. at \in Nat /\ at <= Len(given[t])
        BY <1>2, <2>1
      <4>2. 1 .. at = {j \in DOMAIN program[t].steps : j <= at}
        BY <1>2, <4>1
      <4>3. \A j \in 1 .. at : HasSlot(given[t][j]) <=> program[t].steps[j].kind = "omap_cmp"
        BY <1>2, <1>3, <4>2
      <4> QED
        BY <4>2, <4>3 DEF SlotsIn, CmpsUpTo
    <3> HIDE DEF k
    <3>3. k \in failed
      BY <2>1, <2>2, <3>1
    <3>4. ASSUME NEW l \in failed PROVE l = k
      <4>1. PICK i \in DOMAIN given[t] : HasSlot(given[t][i]) /\ given[t][i].addr = boxes[t][l]
        BY <1>4
      <4>2. i = at
        BY <2>2, <4>1
      <4> QED
        BY <3>1, <4>1, <4>2 DEF CInv, BoxesApart
    <3>5. failed = {k}
      BY <3>3, <3>4
    <3>6. (CHOOSE i \in failed : \A j \in failed : i <= j) = k
      <4>1. k <= k
        BY <1>2, <3>1
      <4> QED
        BY <3>5, <4>1
    <3>7. FailedCmp(t) = k
      BY <3>3, <3>6 DEF FailedCmp
    <3> QED
      BY <1>6, <2>3, <3>2, <3>7 DEF k
  <2>4. CASE program[t].steps[at].kind # "omap_cmp"
    <3>1. ASSUME NEW l \in failed PROVE FALSE
      <4>1. PICK i \in DOMAIN given[t] : HasSlot(given[t][i]) /\ given[t][i].addr = boxes[t][l]
        BY <1>4
      <4> QED
        BY <1>3, <2>1, <2>2, <2>4, <4>1
    <3>2. failed = {}
      BY <3>1
    <3> QED
      BY <2>4, <3>2 DEF FailedCmp
  <2> QED
    BY <2>3, <2>4
<1> QED
  BY <1>5, <1>6

LEMMA ReportWriteKeeps ==
  ASSUME CInv, NEW t \in Threads, ReportWrite(t)
  PROVE  CInv'
<1> DEFINE report == IF ret[t] = "ok" THEN Report("ok", None) ELSE Report("error", FailedCmp(t))
<1>1. /\ TypeOK /\ OpInv(t) /\ stage[t] = "replied" /\ program[t].type = "write"
      /\ outcome' = [outcome EXCEPT ![t] = report]
  BY DEF CInv, ReportWrite
<1>2. ret[t] \in {"ok", "rejected", "lost"}
  BY <1>1 DEF OpInv, ReplyTells
<1>3. ret[t] # "ok" =>
        FailedCmp(t) =
          IF ret[t] = "rejected" /\ program[t].steps[verdict[t].failed].kind = "omap_cmp"
          THEN Cardinality(CmpsUpTo(program[t].steps, verdict[t].failed)) ELSE None
  BY <1>1, <1>2, FailedCmpIs
<1>4. report.kind = (IF ret[t] = "ok" THEN "ok" ELSE "error")
      /\ report.failedCmp = (IF ret[t] = "ok" THEN None ELSE FailedCmp(t))
  BY DEF Report
<1>5. ret[t] # "ok" => FailedCmp(t) \in Nat
  <2> DEFINE at == verdict[t].failed
  <2>1. CASE ret[t] = "rejected"
    <3>1. at \in DOMAIN given[t] /\ program[t] \in Programs
          /\ Len(given[t]) = Len(program[t].steps)
      BY <1>1, <2>1 DEF OpInv, BuildInv, OfStage, ReplyTells
    <3>2. at \in Nat /\ DOMAIN program[t].steps = 1 .. Len(given[t]) /\ Len(given[t]) \in Nat
      BY <1>1, <3>1, ProgramTypes, TypesAt
    <3>3. CmpsUpTo(program[t].steps, at) \in SUBSET (1 .. Len(given[t]))
      BY <3>2 DEF CmpsUpTo
    <3>4. IsFiniteSet(CmpsUpTo(program[t].steps, at))
      <4>1. IsFiniteSet(1 .. Len(given[t]))
        BY <3>2, FS_Interval
      <4> QED
        BY <3>3, <4>1, FS_Subset
    <3>5. Cardinality(CmpsUpTo(program[t].steps, at)) \in Nat
      BY <3>4, FS_CardinalityType
    <3> QED
      BY <1>3, <2>1, <3>5 DEF None
  <2>2. CASE ret[t] = "lost"
    BY <1>3, <2>2 DEF None
  <2> QED
    BY <1>2, <2>1, <2>2
<1>6. report \in [kind : {"none", "ok", "error"}, failedCmp : Nat]
  BY <1>5 DEF Report, None
<1> HIDE DEF report
<1>7. /\ outcome' \in [Threads -> [kind : {"none", "ok", "error"}, failedCmp : Nat]]
      /\ outcome'[t] = report
      /\ \A u \in Threads \ {t} : outcome'[u] = outcome[u]
  BY <1>1, <1>6 DEF TypeOK
<1>8. ReportTrue(t)'
  <2>1. ret[t] = "ok" => verdict[t].applied
    BY <1>1 DEF OpInv, ReplyTells
  <2>2. UNCHANGED <<program, ret, verdict>>
    BY DEF ReportWrite
  <2>3. /\ outcome'[t].kind = "ok" => verdict[t].applied
        /\ outcome'[t].failedCmp =
             IF ret[t] = "rejected" /\ program[t].steps[verdict[t].failed].kind = "omap_cmp"
             THEN Cardinality(CmpsUpTo(program[t].steps, verdict[t].failed)) ELSE None
    BY <1>2, <1>3, <1>4, <1>7, <2>1
  <2> QED
    BY <2>2, <2>3 DEF ReportTrue
<1>9. ResultsFound(t)'
  BY <1>1 DEF ReportWrite, OpInv, ResultsFound, Names
<1>10. results' \in [Threads -> [id : Ids \cup {NoId}, values : Seq(Content), op : Nat,
                                 object : Object]]
  BY <1>1 DEF TypeOK, ReportWrite
<1> QED
  BY <1>7, <1>8, <1>9, <1>10, DropKeeps DEF ReportWrite

LEMMA CollectResultsKeeps ==
  ASSUME CInv, NEW t \in Threads, CollectResults(t)
  PROVE  CInv'
<1> DEFINE values == [i \in DOMAIN boxes[t] |-> memory[boxes[t][i]]]
           new == [id |-> id[t], values |-> values, op |-> built[t], object |-> verdict[t].object]
<1>1. TypeOK /\ OpInv(t) /\ stage[t] = "replied" /\ program[t].type = "read"
  BY DEF CInv, CollectResults
<1>2. ret[t] \in {"ok", "rejected", "lost"} /\ id[t] # NoId
  BY <1>1 DEF OpInv, BuildInv, OfStage, ReplyTells
<1>3. /\ Report("ok", None) \in [kind : {"none", "ok", "error"}, failedCmp : Nat]
      /\ Report("error", None) \in [kind : {"none", "ok", "error"}, failedCmp : Nat]
  BY DEF Report, None
<1>4. \/ outcome' = [outcome EXCEPT ![t] = Report("ok", None)]
      \/ outcome' = [outcome EXCEPT ![t] = Report("error", None)]
  BY DEF CollectResults
<1>5. /\ outcome' \in [Threads -> [kind : {"none", "ok", "error"}, failedCmp : Nat]]
      /\ \A u \in Threads \ {t} : outcome'[u] = outcome[u]
  <2>1. outcome \in [Threads -> [kind : {"none", "ok", "error"}, failedCmp : Nat]]
    BY <1>1 DEF TypeOK
  <2>2. PICK r \in [kind : {"none", "ok", "error"}, failedCmp : Nat] :
          outcome' = [outcome EXCEPT ![t] = r]
    BY <1>3, <1>4
  <2> QED
    BY <2>1, <2>2
<1>6. ReportTrue(t)'
  <2>1. program'[t].type # "write"
    BY <1>1 DEF CollectResults
  <2> QED
    BY <2>1 DEF ReportTrue
<1>7. CASE ret[t] = "ok"
  <2>1. results' = [results EXCEPT ![t] = new]
    BY <1>7 DEF CollectResults
  <2>2. values \in Seq(Content)
    <3>1. DOMAIN boxes[t] = 1 .. Len(boxes[t]) /\ Len(boxes[t]) \in Nat
      BY <1>1, TypesAt
    <3>2. \A i \in DOMAIN boxes[t] : memory[boxes[t][i]] \in Content
      BY <1>1, TypesAt DEF TypeOK
    <3>3. values \in [1 .. Len(boxes[t]) -> Content]
      BY <3>1, <3>2
    <3> QED
      BY <3>1, <3>3
  <2>3. DOMAIN values = DOMAIN boxes[t] /\ \A i \in DOMAIN boxes[t] : values[i] = memory[boxes[t][i]]
    OBVIOUS
  <2> HIDE DEF values
  <2>4. new \in [id : Ids \cup {NoId}, values : Seq(Content), op : Nat, object : Object]
    BY <1>1, <2>2, TypesAt
  <2>5. /\ new.id = id[t] /\ new.values = values /\ new.op = built[t]
        /\ new.object = verdict[t].object
    OBVIOUS
  <2> HIDE DEF new
  <2>6. /\ results' \in [Threads -> [id : Ids \cup {NoId}, values : Seq(Content), op : Nat,
                                     object : Object]]
        /\ results'[t] = new
        /\ \A u \in Threads \ {t} : results'[u] = results[u]
    BY <1>1, <2>1, <2>4 DEF TypeOK
  <2>7. ASSUME NEW h \in handles[t], h.id = id[t]
        PROVE  /\ h.op = built[t] /\ h.index \in DOMAIN values
               /\ values[h.index].prval # "taken"
               /\ values[h.index].prval = "zero" =>
                    values[h.index].part = h.part
                    /\ values[h.index].value = verdict[t].object.value
    <3>1. PICK i \in DOMAIN given[t] :
            /\ given[t][i].kind = "get" /\ given[t][i].arg = h.part
            /\ h.index \in DOMAIN boxes[t] /\ boxes[t][h.index] = given[t][i].addr
      BY <1>1, <1>2, <2>7 DEF OpInv, HandlesOfOp
    <3>2. HasSlot(given[t][i])
      BY <1>1, <3>1, TypesAt, CompoundOpsAssumption DEF HasSlot
    <3> DEFINE slot == memory[given[t][i].addr]
               read == [prval |-> "zero", part |-> given[t][i].arg,
                        value |-> verdict[t].object.value]
    <3>3. slot.prval = "nonzero" \/ slot = read
      BY <1>1, <1>7, <3>1, <3>2 DEF OpInv, SlotsHold
    <3>4. /\ slot.prval # "taken"
          /\ slot.prval = "zero" => slot.part = h.part /\ slot.value = verdict[t].object.value
      <4>1. read.prval = "zero" /\ read.part = h.part /\ read.value = verdict[t].object.value
        BY <3>1
      <4> HIDE DEF read, slot
      <4> QED
        BY <3>3, <4>1
    <3>5. h.index \in DOMAIN values /\ values[h.index] = slot
      BY <2>3, <3>1
    <3>6. h.op = built[t]
      BY <1>1, <1>2, <2>7 DEF OpInv, HandlesOfOp
    <3> HIDE DEF slot
    <3> QED
      BY <3>4, <3>5, <3>6
  <2>8. ResultsFound(t)'
    <3>1. handles' = handles
      BY DEF CollectResults
    <3> QED
      BY <2>5, <2>6, <2>7, <3>1 DEF ResultsFound, Names
  <2> QED
    BY <1>5, <1>6, <2>6, <2>8, DropKeeps DEF CollectResults
<1>8. CASE ret[t] # "ok"
  <2>1. results' = results
    BY <1>8 DEF CollectResults
  <2>2. ResultsFound(t)'
    BY <1>1, <2>1 DEF CollectResults, OpInv, ResultsFound, Names
  <2>3. results' \in [Threads -> [id : Ids \cup {NoId}, values : Seq(Content), op : Nat,
                                  object : Object]]
    BY <1>1, <2>1 DEF TypeOK
  <2> QED
    BY <1>5, <1>6, <2>1, <2>2, <2>3, DropKeeps DEF CollectResults
<1> QED
  BY <1>7, <1>8

-----------------------------------------------------------------------------
(* ReadResults::take, IoCtx::last_version *)

\* A handle that is used or dropped, while the operation stays.
LEMMA HandleGone ==
  ASSUME CInv, NEW t \in Threads, NEW h \in handles[t],
         handles' = [handles EXCEPT ![t] = @ \ {h}],
         UNCHANGED <<object, lastVersion, memory, opvars, known, verdict, ownAnswer, basis>>,
         results' \in [Threads -> [id : Ids \cup {NoId}, values : Seq(Content), op : Nat,
                                   object : Object]],
         \A u \in Threads \ {t} : results'[u] = results[u],
         results'[t].id = results[t].id, ResultsFound(t)'
  PROVE  CInv'
<1> USE DEF opvars
<1>1. TypeOK /\ OpInv(t)
  BY DEF CInv
<1>2. /\ handles' \in [Threads -> SUBSET Handle] /\ handles'[t] \subseteq handles[t]
      /\ \A u \in Threads \ {t} : handles'[u] = handles[u]
  BY <1>1 DEF TypeOK
<1>3. TypeOK'
  BY <1>1, <1>2 DEF TypeOK
<1>4. BoxesApart'
  BY DEF CInv, BoxesApart
<1>5. ASSUME NEW u \in Threads \ {t} PROVE Same(u)
  BY <1>2 DEF Same
<1>6. BuildInv(t)'
  BY <1>1 DEF OpInv, BuildInv, FollowsProgram, OfStage, BoxesInOrder
<1>7. SlotsHold(t)' /\ ReplyTells(t)' /\ ReportTrue(t)'
  BY <1>1 DEF OpInv, SlotsHold, ReplyTells, ReportTrue
<1>8. HandlesOfOp(t)' /\ HandlesApart(t)'
  BY <1>1, <1>2 DEF OpInv, HandlesOfOp, HandlesApart
<1> QED
  BY <1>3, <1>4, <1>5, <1>6, <1>7, <1>8, StepKeeps DEF OpInv

LEMMA TakeKeeps ==
  ASSUME CInv, NEW t \in Threads, NEW h \in handles[t], Take(t, h)
  PROVE  CInv'
<1>1. /\ TypeOK /\ OpInv(t) /\ results[t].id # NoId
      /\ handles' = [handles EXCEPT ![t] = @ \ {h}]
      /\ UNCHANGED <<object, lastVersion, memory, opvars, known, verdict, ownAnswer, basis>>
  BY DEF CInv, Take
<1>2. handles'[t] = handles[t] \ {h} /\ handles'[t] \subseteq handles[t]
  BY <1>1 DEF TypeOK
<1>3. CASE Names(t, h)
  <2> DEFINE old == results[t]
             new == [old EXCEPT !.values[h.index].prval = "taken"]
  <2>1. results' = [results EXCEPT ![t].values[h.index].prval = "taken"]
    BY <1>3 DEF Take
  <2>2. old \in [id : Ids \cup {NoId}, values : Seq(Content), op : Nat, object : Object]
    BY <1>1, TypesAt
  <2>3. h.index \in DOMAIN old.values /\ DOMAIN old.values = 1 .. Len(old.values)
        /\ Len(old.values) \in Nat
    BY <1>1, <1>3, <2>2 DEF OpInv, ResultsFound
  <2>4. /\ results'[t] = new
        /\ \A u \in Threads \ {t} : results'[u] = results[u]
        /\ results' = [results EXCEPT ![t] = new]
    BY <1>1, <2>1 DEF TypeOK
  <2>5. /\ new.id = old.id /\ new.op = old.op /\ new.object = old.object
        /\ new.values = [old.values EXCEPT ![h.index].prval = "taken"]
    BY <2>2
  <2>6. [old.values[h.index] EXCEPT !.prval = "taken"] \in Content
    <3>1. old.values[h.index] \in Content
      BY <2>2, <2>3
    <3> HIDE DEF old
    <3> QED
      BY <3>1 DEF Content
  <2>7. new.values \in Seq(Content) /\ DOMAIN new.values = DOMAIN old.values
        /\ \A i \in DOMAIN old.values : i # h.index => new.values[i] = old.values[i]
    BY <2>2, <2>3, <2>5, <2>6
  <2>8. new \in [id : Ids \cup {NoId}, values : Seq(Content), op : Nat, object : Object]
    BY <2>2, <2>7
  <2> HIDE DEF new
  <2>9. results' \in [Threads -> [id : Ids \cup {NoId}, values : Seq(Content), op : Nat,
                                  object : Object]]
    BY <1>1, <2>4, <2>8 DEF TypeOK
  <2>10. ASSUME NEW g \in handles'[t], g.id = new.id
         PROVE  g.index # h.index
    <3>1. g \in handles[t] /\ g # h /\ g.id = h.id
      BY <1>2, <1>3, <2>5, <2>10 DEF Names
    <3> QED
      BY <1>1, <3>1 DEF OpInv, HandlesApart
  <2>11. ResultsFound(t)'
    <3> SUFFICES ASSUME NEW g \in handles'[t], new.id = g.id
                 PROVE  /\ g.op = new.op /\ g.index \in DOMAIN new.values
                        /\ new.values[g.index].prval # "taken"
                        /\ new.values[g.index].prval = "zero" =>
                             new.values[g.index].part = g.part
                             /\ new.values[g.index].value = new.object.value
      BY <2>4 DEF ResultsFound, Names
    <3>1. g \in handles[t] /\ Names(t, g) /\ g.index # h.index
      BY <1>2, <2>5, <2>10 DEF Names
    <3>2. /\ g.op = old.op /\ g.index \in DOMAIN old.values
          /\ old.values[g.index].prval # "taken"
          /\ old.values[g.index].prval = "zero" =>
               old.values[g.index].part = g.part
               /\ old.values[g.index].value = old.object.value
      BY <1>1, <3>1 DEF OpInv, ResultsFound
    <3>3. new.values[g.index] = old.values[g.index]
      BY <2>7, <3>1, <3>2
    <3> QED
      BY <2>5, <2>7, <3>2, <3>3
  <2>12. results'[t].id = results[t].id
    BY <2>4, <2>5
  <2> QED
    BY <1>1, <2>4, <2>9, <2>11, <2>12, HandleGone
<1>4. CASE ~ Names(t, h)
  <2>1. results' = results
    BY <1>4 DEF Take
  <2>2. ResultsFound(t)'
    BY <1>1, <1>2, <2>1 DEF OpInv, ResultsFound, Names
  <2>3. results' \in [Threads -> [id : Ids \cup {NoId}, values : Seq(Content), op : Nat,
                                  object : Object]]
    BY <1>1, <2>1 DEF TypeOK
  <2> QED
    BY <1>1, <2>1, <2>2, <2>3, HandleGone
<1> QED
  BY <1>3, <1>4

LEMMA DropHandleKeeps ==
  ASSUME CInv, NEW t \in Threads, NEW h \in handles[t], DropHandle(t, h)
  PROVE  CInv'
<1>1. /\ TypeOK /\ OpInv(t) /\ results' = results
      /\ handles' = [handles EXCEPT ![t] = @ \ {h}]
      /\ UNCHANGED <<object, lastVersion, memory, opvars, known, verdict, ownAnswer, basis>>
  BY DEF CInv, DropHandle
<1>2. handles'[t] \subseteq handles[t]
  BY <1>1 DEF TypeOK
<1>3. ResultsFound(t)'
  BY <1>1, <1>2 DEF OpInv, ResultsFound, Names
<1>4. results' \in [Threads -> [id : Ids \cup {NoId}, values : Seq(Content), op : Nat,
                                object : Object]]
  BY <1>1 DEF TypeOK
<1> QED
  BY <1>1, <1>3, <1>4, HandleGone

\* What a thread does with its operation and its results is nothing of these.
LEMMA OpVarsKeep ==
  ASSUME CInv, TypeOK', UNCHANGED <<memory, opvars, handles, results, verdict>>
  PROVE  CInv'
<1> USE DEF opvars
<1>1. BoxesApart'
  BY DEF CInv, BoxesApart
<1>2. ASSUME NEW u \in Threads PROVE OpInv(u)'
  <2>1. Same(u)
    BY DEF Same
  <2> QED
    BY <2>1, SameKeeps DEF CInv
<1> QED
  BY <1>1, <1>2 DEF CInv

LEMMA LastVersionKeeps ==
  ASSUME CInv, NEW t \in Threads, LastVersion(t)
  PROVE  CInv'
<1>1. TypeOK
  BY DEF CInv
<1>2. TypeOK'
  <2>1. lastVersion[IoctxOf[t]] \in Object /\ verdict[t].object \in Object
    BY <1>1, TypesAt, CompoundOpsAssumption DEF TypeOK
  <2>2. lastVersion[IoctxOf[t]].version \in Nat /\ Told(t) \in Basis
    BY <1>1, <2>1 DEF TypeOK, Object, Told, Basis
  <2>3. known' \in [Threads -> Nat] /\ basis' \in [Threads -> Basis]
    BY <1>1, <2>2 DEF LastVersion, TypeOK
  <2> QED
    BY <1>1, <2>3 DEF LastVersion, TypeOK, opvars
<1> QED
  BY <1>2, OpVarsKeep DEF LastVersion

-----------------------------------------------------------------------------
(* The theorems *)

LEMMA CInvNext ==
  ASSUME CInv, [Next]_vars
  PROVE  CInv'
<1>1. CASE UNCHANGED vars
  <2>1. TypeOK'
    BY <1>1 DEF CInv, TypeOK, vars, opvars
  <2> QED
    BY <1>1, <2>1, OpVarsKeep DEF vars
<1>2. CASE Terminated
  BY <1>1, <1>2 DEF Terminated
<1>3. ASSUME NEW t \in Threads, NEW p \in Programs, New(t, p) PROVE CInv'
  BY <1>3, NewKeeps
<1>4. ASSUME NEW t \in Threads, AssertVersion(t) \/ AddStep(t) \/ AddCmp(t) \/ AddRead(t)
      PROVE  CInv'
  BY <1>4, AssertVersionKeeps, AddStepKeeps, AddCmpKeeps, AddReadKeeps
<1>5. ASSUME NEW t \in Threads, DropOp(t) \/ OperateNul(t) \/ Operate(t) \/ Execute(t)
      PROVE  CInv'
  BY <1>5, DropOpKeeps, OperateNulKeeps, OperateKeeps, ExecuteKeeps
<1>6. ASSUME NEW t \in Threads, ReplyArrives(t) \/ NoReply(t) \/ ReportWrite(t)
      PROVE  CInv'
  BY <1>6, ReplyArrivesKeeps, NoReplyKeeps, ReportWriteKeeps
<1>7. ASSUME NEW t \in Threads, CollectResults(t) \/ LastVersion(t) PROVE CInv'
  BY <1>7, CollectResultsKeeps, LastVersionKeeps
<1>8. ASSUME NEW t \in Threads, NEW h \in handles[t], Take(t, h) \/ DropHandle(t, h)
      PROVE  CInv'
  BY <1>8, TakeKeeps, DropHandleKeeps
<1> QED
  BY <1>1, <1>2, <1>3, <1>4, <1>5, <1>6, <1>7, <1>8 DEF Next

LEMMA CInvAlways == Spec => []CInv
<1>1. CInv /\ [Next]_vars => CInv'
  BY CInvNext
<1> QED
  BY CInvInit, <1>1, PTL DEF Spec

\* Every variable stays within its range, whatever the threads build and however their
\* operations end.
THEOREM CompoundOpsTypeCorrect == Spec => []TypeOK
<1>1. CInv => TypeOK
  BY DEF CInv
<1> QED
  BY CInvAlways, <1>1, PTL

\* write_op.rs and read_op.rs never leave librados with the address of a slot that has moved
\* or was freed, no two operations share a slot, and omap_cmp takes its pointer late enough for
\* it to stay valid.
THEOREM SlotsAreInPlace == Spec => []SlotsInPlace
<1>1. CInv => SlotsInPlace
  <2> SUFFICES ASSUME CInv PROVE SlotsInPlace
    OBVIOUS
  <2>1. ASSUME NEW t \in Threads, NEW i \in DOMAIN given[t], given[t][i].addr # NoAddr
        PROVE  \E j \in DOMAIN boxes[t] : boxes[t][j] = given[t][i].addr
    BY <2>1, SlotsAreBoxes DEF CInv, OpInv, BuildInv, HasSlot
  <2>2. ASSUME NEW t \in Threads, NEW i \in DOMAIN given[t], given[t][i].kind = "omap_cmp"
        PROVE  given[t][i].valid
    BY <2>2 DEF CInv, OpInv, BuildInv, FollowsProgram
  <2> QED
    BY <2>1, <2>2 DEF SlotsInPlace, CInv, BoxesApart
<1> QED
  BY CInvAlways, <1>1, PTL

\* operate_report blames the omap_cmp at which the OSD rejected the operation, and no other
\* step.
THEOREM ReportsAreTruthful == Spec => []TruthfulReport
<1>1. CInv => TruthfulReport
  BY DEF CInv, OpInv, ReportTrue, TruthfulReport
<1> QED
  BY CInvAlways, <1>1, PTL

\* ReadResults::take finds, for every handle it accepts, the result of that handle's step.
THEOREM HandlesAlwaysFindResults == Spec => []HandlesFindResults
<1>1. CInv => HandlesFindResults
  BY DEF CInv, OpInv, ResultsFound, HandlesFindResults
<1> QED
  BY CInvAlways, <1>1, PTL

-----------------------------------------------------------------------------
(* NoLostUpdate *)

LEMMA OlderStays ==
  ASSUME NEW o \in Object, Older(o), object \in Object,
         object' = object \/ object'.version = object.version + 1
  PROVE  Older(o)'
<1>1. o.version \in Nat /\ object.version \in Nat
  BY DEF Object
<1> QED
  BY <1>1 DEF Older

\* What a thread has asked for and been told stays as it is.  The answer that came last on its
\* ioctx stays too, or is that of another thread.
SameVersions(u) ==
  /\ stage'[u] = stage[u] /\ ret'[u] = ret[u] /\ outcome'[u] = outcome[u]
  /\ verdict'[u] = verdict[u] /\ given'[u] = given[u]
  /\ known'[u] = known[u] /\ basis'[u] = basis[u]
  /\ \/ lastVersion'[IoctxOf[u]] = lastVersion[IoctxOf[u]] /\ ownAnswer'[u] = ownAnswer[u]
     \/ /\ ~ ownAnswer'[u]
        /\ \E v \in Threads : lastVersion'[IoctxOf[u]] = verdict[v].object

LEMMA VersionsStay ==
  ASSUME CInv, VersionInv, NEW t \in Threads, VersionsOf(t)',
         object' = object \/ object'.version = object.version + 1,
         \A u \in Threads \ {t} : SameVersions(u)
  PROVE  VersionInv'
<1>1. object \in Object /\ \A v \in Threads : verdict[v].object \in Object
  BY TypesAt DEF CInv, TypeOK
<1>2. \A v \in Threads : Older(verdict[v].object)
  BY DEF VersionInv, VersionsOf
<1>3. ASSUME NEW u \in Threads \ {t} PROVE VersionsOf(u)'
  <2>1. VersionsOf(u) /\ SameVersions(u)
    BY <1>3 DEF VersionInv
  <2>2. basis[u].last \in Object /\ lastVersion[IoctxOf[u]] \in Object
    BY CompoundOpsAssumption DEF CInv, TypeOK, Basis
  <2>3. \A o \in Object : Older(o) =>
          o.version <= object'.version /\ (o.version = object'.version => o = object')
    BY <1>1, OlderStays DEF Older
  <2>4. Older(verdict[u].object)' /\ Older(basis[u].last)'
    <3>1. verdict'[u].object = verdict[u].object /\ basis'[u].last = basis[u].last
      BY <2>1 DEF SameVersions
    <3>2. Older(verdict[u].object) /\ Older(basis[u].last)
      BY <2>1 DEF VersionsOf
    <3> QED
      BY <1>1, <2>2, <2>3, <3>1, <3>2 DEF Older
  <2>5. Older(lastVersion[IoctxOf[u]])'
    <3>1. PICK o \in Object : lastVersion'[IoctxOf[u]] = o /\ Older(o)
      BY <1>1, <1>2, <2>1, <2>2 DEF SameVersions, VersionsOf
    <3> QED
      BY <2>3, <3>1 DEF Older
  <2>6. known'[u] = basis'[u].last.version /\ (basis'[u].own => basis'[u].last = basis'[u].met)
    BY <2>1 DEF VersionsOf, SameVersions
  <2>7. \/ stage'[u] = "replied" /\ ret'[u] = "ok"
        \/ stage'[u] = "idle" /\ outcome'[u].kind = "ok"
        => (ownAnswer'[u] => lastVersion'[IoctxOf[u]] = verdict'[u].object)
    BY <2>1 DEF VersionsOf, SameVersions
  <2>8. \A i \in DOMAIN given'[u] :
          given'[u][i].kind = "assert_version" => given'[u][i].arg = known'[u]
    BY <2>1 DEF VersionsOf, SameVersions
  <2> QED
    BY <2>4, <2>5, <2>6, <2>7, <2>8 DEF VersionsOf
<1> QED
  BY <1>3 DEF VersionInv

LEMMA VersionInit == Init => VersionInv
<1> SUFFICES ASSUME Init, NEW t \in Threads PROVE VersionsOf(t)
  BY DEF VersionInv
<1>1. /\ object = Absent /\ verdict[t].object = Absent /\ known[t] = 0
      /\ lastVersion[IoctxOf[t]] = Absent /\ basis[t] = NoBasis
  BY CompoundOpsAssumption DEF Init
<1>2. given[t] = <<>> /\ stage[t] = "idle" /\ outcome[t].kind = "none"
  BY DEF Init, Report
<1>3. Absent.version = 0 /\ NoBasis.last = Absent /\ ~ NoBasis.own
  BY DEF Absent, NoBasis
<1> QED
  BY <1>1, <1>2, <1>3 DEF VersionsOf, Older

\* The steps of a thread that change neither the object nor what it knows.
LEMMA QuietKeeps ==
  ASSUME CInv, VersionInv, NEW t \in Threads,
         UNCHANGED <<object, lastVersion, known, verdict, ownAnswer, basis>>,
         \A u \in Threads \ {t} :
           stage'[u] = stage[u] /\ ret'[u] = ret[u] /\ outcome'[u] = outcome[u]
             /\ given'[u] = given[u],
         \/ stage'[t] = "replied" /\ ret'[t] = "ok"
         \/ stage'[t] = "idle" /\ outcome'[t].kind = "ok"
         => (ownAnswer[t] => lastVersion[IoctxOf[t]] = verdict[t].object),
         \A i \in DOMAIN given'[t] :
           given'[t][i].kind = "assert_version" => given'[t][i].arg = known[t]
  PROVE  VersionInv'
<1>1. VersionsOf(t)'
  <2>1. VersionsOf(t)
    BY DEF VersionInv
  <2> QED
    BY <2>1 DEF VersionsOf, Older
<1>2. \A u \in Threads \ {t} : SameVersions(u)
  BY DEF SameVersions
<1> QED
  BY <1>1, <1>2, VersionsStay

\* A thread gives librados a step; the version it pins is the one it knows.
LEMMA PinsKnown ==
  ASSUME CInv, VersionInv, NEW t \in Threads, NEW e, Gets(t, e),
         e.kind = "assert_version" => e.arg = known[t]
  PROVE  /\ \A i \in DOMAIN given'[t] :
              given'[t][i].kind = "assert_version" => given'[t][i].arg = known[t]
         /\ \A u \in Threads \ {t} : given'[u] = given[u]
<1>1. given \in [Threads -> Seq(Given)] /\ given[t] \in Seq(Given)
  BY DEF CInv, TypeOK
<1>2. given' = [given EXCEPT ![t] = Append(@, e)]
  BY DEF Gets
<1>4. given'[t] = Append(given[t], e) /\ \A u \in Threads \ {t} : given'[u] = given[u]
  BY <1>1, <1>2
<1>5. \A i \in DOMAIN given[t] : given[t][i].kind = "assert_version" => given[t][i].arg = known[t]
  BY DEF VersionInv, VersionsOf
<1> HIDE DEF Given
<1>6. ASSUME NEW i \in DOMAIN given'[t], given'[t][i].kind = "assert_version"
      PROVE  given'[t][i].arg = known[t]
  <2>1. (i \in DOMAIN given[t] /\ given'[t][i] = given[t][i]) \/ given'[t][i] = e
    BY <1>1, <1>4
  <2> QED
    BY <1>5, <1>6, <2>1
<1> QED
  BY <1>4, <1>6

LEMMA BuildingKeepsVersions ==
  ASSUME CInv, VersionInv, NEW t \in Threads,
         AssertVersion(t) \/ AddStep(t) \/ AddCmp(t) \/ AddRead(t)
  PROVE  VersionInv'
<1>1. /\ UNCHANGED <<object, lastVersion, stage, program, ret, outcome, known, verdict, ownAnswer, basis>>
      /\ stage[t] = "building"
  BY DEF AssertVersion, AddStep, AddCmp, AddRead, Adding
<1>2. \E e : Gets(t, e) /\ (e.kind = "assert_version" => e.arg = known[t])
  <2>1. CASE AssertVersion(t)
    <3>1. Gets(t, Pointing(t, known[t], NoAddr))
      BY <2>1 DEF AssertVersion, Give, Gets
    <3>2. Pointing(t, known[t], NoAddr).arg = known[t]
      BY DEF Pointing
    <3> QED
      BY <3>1, <3>2
  <2>2. CASE AddStep(t)
    <3>1. Gets(t, Pointing(t, NextStep(t).arg, NoAddr)) /\ NextStep(t).kind # "assert_version"
      BY <2>2 DEF AddStep, Adding, Give, Gets
    <3>2. Pointing(t, NextStep(t).arg, NoAddr).kind = NextStep(t).kind
      BY DEF Pointing
    <3> QED
      BY <3>1, <3>2
  <2>3. CASE AddCmp(t)
    <3>1. PICK a \in Addrs : NewBox(t, a) /\ PushThenPoint(t, a)
      BY <2>3 DEF AddCmp
    <3>2. Adding(t, {"omap_cmp"}) /\ NextStep(t).kind = "omap_cmp" /\ ~ InUse(a)
      BY <2>3, <3>1 DEF AddCmp, Adding, NewBox
    <3>3. PICK e : Gets(t, e) /\ IsNext(t, e)
      BY <3>1, <3>2, BoxGives
    <3> QED
      BY <3>2, <3>3 DEF IsNext
  <2>4. CASE AddRead(t)
    <3>1. PICK a \in Addrs : NewBox(t, a) /\ PointThenPush(t, a)
      BY <2>4 DEF AddRead
    <3>2. Adding(t, {"get"}) /\ NextStep(t).kind = "get" /\ ~ InUse(a)
      BY <2>4, <3>1 DEF AddRead, Adding, NewBox
    <3>3. PICK e : Gets(t, e) /\ IsNext(t, e)
      BY <3>1, <3>2, BoxGives
    <3> QED
      BY <3>2, <3>3 DEF IsNext
  <2> QED
    BY <2>1, <2>2, <2>3, <2>4
<1>3. /\ \A i \in DOMAIN given'[t] :
           given'[t][i].kind = "assert_version" => given'[t][i].arg = known[t]
      /\ \A u \in Threads \ {t} : given'[u] = given[u]
  BY <1>2, PinsKnown
<1> QED
  BY <1>1, <1>3, QuietKeeps

LEMMA StagesKeepVersions ==
  ASSUME CInv, VersionInv, NEW t \in Threads,
         (\E p \in Programs : New(t, p)) \/ Operate(t) \/ NoReply(t)
  PROVE  VersionInv'
<1>1. TypeOK /\ UNCHANGED <<object, lastVersion, given, known, verdict, ownAnswer, basis>>
  BY DEF New, Operate, NoReply, CInv
<1>2. /\ stage'[t] # "idle" /\ (stage'[t] = "replied" => ret'[t] = "lost")
      /\ \A u \in Threads \ {t} :
           stage'[u] = stage[u] /\ ret'[u] = ret[u] /\ outcome'[u] = outcome[u]
  BY <1>1 DEF New, Operate, NoReply, TypeOK
<1>3. \A i \in DOMAIN given[t] : given[t][i].kind = "assert_version" => given[t][i].arg = known[t]
  BY DEF VersionInv, VersionsOf
<1> QED
  BY <1>1, <1>2, <1>3, QuietKeeps

LEMMA DropsKeepVersions ==
  ASSUME CInv, VersionInv, NEW t \in Threads,
         DropOp(t) \/ OperateNul(t) \/ ReportWrite(t) \/ CollectResults(t)
  PROVE  VersionInv'
<1>1. /\ TypeOK /\ OpInv(t) /\ VersionsOf(t) /\ Dropped(t)
      /\ UNCHANGED <<object, lastVersion, ret, known, verdict, ownAnswer, basis>>
  BY DEF DropOp, OperateNul, ReportWrite, CollectResults, CInv, VersionInv
<1>2. /\ stage'[t] = "idle" /\ given'[t] = <<>>
      /\ \A u \in Threads \ {t} : stage'[u] = stage[u] /\ given'[u] = given[u]
  BY <1>1 DEF Dropped, TypeOK
<1>3. \A u \in Threads \ {t} : outcome'[u] = outcome[u]
  BY <1>1 DEF TypeOK, DropOp, OperateNul, ReportWrite, CollectResults
<1>4. outcome'[t].kind = "ok" => stage[t] = "replied" /\ ret[t] = "ok"
  <2>1. CASE DropOp(t)
    BY <1>1, <2>1 DEF DropOp, OpInv, BuildInv, OfStage
  <2>2. CASE OperateNul(t)
    BY <1>1, <2>2 DEF OperateNul, TypeOK, Report
  <2>3. CASE ReportWrite(t)
    BY <1>1, <2>3 DEF ReportWrite, TypeOK, Report
  <2>4. CASE CollectResults(t)
    BY <1>1, <2>4 DEF CollectResults, TypeOK, Report
  <2> QED
    BY <2>1, <2>2, <2>3, <2>4
<1>5. \/ stage'[t] = "replied" /\ ret'[t] = "ok"
      \/ stage'[t] = "idle" /\ outcome'[t].kind = "ok"
      => (ownAnswer[t] => lastVersion[IoctxOf[t]] = verdict[t].object)
  BY <1>1, <1>2, <1>4 DEF VersionsOf
<1>6. \A i \in DOMAIN given'[t] :
        given'[t][i].kind = "assert_version" => given'[t][i].arg = known[t]
  BY <1>2
<1> QED
  BY <1>1, <1>2, <1>3, <1>5, <1>6, QuietKeeps

LEMMA ExecuteKeepsVersions ==
  ASSUME CInv, VersionInv, NEW t \in Threads, Execute(t)
  PROVE  VersionInv'
<1>1. TypeOK /\ VersionsOf(t) /\ object \in Object
  BY DEF CInv, VersionInv, TypeOK
<1>2. /\ stage' = [stage EXCEPT ![t] = "executed"]
      /\ UNCHANGED <<lastVersion, given, ret, outcome, known, ownAnswer, basis>>
  BY DEF Execute
<1>3. stage'[t] = "executed" /\ \A u \in Threads \ {t} : stage'[u] = stage[u]
  BY <1>1, <1>2 DEF TypeOK
<1>4. /\ object' \in Object
      /\ object' = object \/ object'.version = object.version + 1
      /\ verdict'[t].object = object'
      /\ \A u \in Threads \ {t} : verdict'[u] = verdict[u]
  <2>1. /\ object' \in Object
        /\ object' = object \/ object'.version = object.version + 1
        /\ verdict'[t] = [failed |-> FirstFailing(given[t], object),
                          applied |-> FirstFailing(given[t], object) = None, object |-> object']
        /\ \A u \in Threads \ {t} : verdict'[u] = verdict[u]
    BY ExecuteResult
  <2> QED
    BY <2>1
<1>5. Older(basis[t].last)' /\ Older(lastVersion[IoctxOf[t]])'
  <2>1. /\ basis[t].last \in Object /\ Older(basis[t].last)
        /\ lastVersion[IoctxOf[t]] \in Object /\ Older(lastVersion[IoctxOf[t]])
    BY <1>1, CompoundOpsAssumption DEF TypeOK, VersionsOf, Basis
  <2>2. \A o \in Object : Older(o) =>
          o.version <= object'.version /\ (o.version = object'.version => o = object')
    BY <1>1, <1>4, OlderStays DEF Older
  <2>3. basis'[t] = basis[t] /\ lastVersion' = lastVersion
    BY <1>2
  <2> QED
    BY <2>1, <2>2, <2>3 DEF Older
<1>6. Older(verdict[t].object)'
  <2>1. object'.version \in Nat
    BY <1>4 DEF Object
  <2> QED
    BY <1>4, <2>1 DEF Older
<1>7. VersionsOf(t)'
  BY <1>1, <1>2, <1>3, <1>5, <1>6 DEF VersionsOf
<1>8. \A u \in Threads \ {t} : SameVersions(u)
  BY <1>2, <1>3, <1>4 DEF SameVersions
<1> QED
  BY <1>4, <1>7, <1>8, VersionsStay

LEMMA ReplyKeepsVersions ==
  ASSUME CInv, VersionInv, NEW t \in Threads, ReplyArrives(t)
  PROVE  VersionInv'
<1>1. TypeOK /\ VersionsOf(t) /\ Older(verdict[t].object)
  BY DEF CInv, VersionInv, VersionsOf
<1>2. /\ stage' = [stage EXCEPT ![t] = "replied"]
      /\ ret' = [ret EXCEPT ![t] = IF verdict[t].failed = None THEN "ok" ELSE "rejected"]
      /\ lastVersion' = [lastVersion EXCEPT ![IoctxOf[t]] = verdict[t].object]
      /\ ownAnswer' = [u \in Threads |-> u = t \/ (ownAnswer[u] /\ IoctxOf[u] # IoctxOf[t])]
      /\ UNCHANGED <<object, given, outcome, known, verdict, basis>>
  BY DEF ReplyArrives
<1>3. /\ stage'[t] = "replied"
      /\ \A u \in Threads \ {t} : stage'[u] = stage[u] /\ ret'[u] = ret[u]
  BY <1>1, <1>2 DEF TypeOK
<1>4. \A u \in Threads : lastVersion'[IoctxOf[u]] =
        IF IoctxOf[u] = IoctxOf[t] THEN verdict[t].object ELSE lastVersion[IoctxOf[u]]
  <2>1. \A u \in Threads : IoctxOf[u] \in Ioctxs
    BY CompoundOpsAssumption
  <2> QED
    BY <1>1, <1>2, <2>1 DEF TypeOK
<1>5. VersionsOf(t)'
  BY <1>1, <1>2, <1>4 DEF VersionsOf, Older
<1>6. ASSUME NEW u \in Threads \ {t} PROVE SameVersions(u)
  <2>1. CASE IoctxOf[u] = IoctxOf[t]
    <3>1. ~ ownAnswer'[u] /\ lastVersion'[IoctxOf[u]] = verdict[t].object
      BY <1>2, <1>4, <2>1
    <3> QED
      BY <1>2, <1>3, <3>1 DEF SameVersions
  <2>2. CASE IoctxOf[u] # IoctxOf[t]
    <3>1. ownAnswer'[u] = ownAnswer[u] /\ lastVersion'[IoctxOf[u]] = lastVersion[IoctxOf[u]]
      <4>1. ownAnswer[u] \in BOOLEAN
        BY <1>1 DEF TypeOK
      <4> QED
        BY <1>2, <1>4, <2>2, <4>1
    <3> QED
      BY <1>2, <1>3, <3>1 DEF SameVersions
  <2> QED
    BY <2>1, <2>2
<1> QED
  BY <1>2, <1>5, <1>6, VersionsStay

LEMMA LastVersionKeepsVersions ==
  ASSUME CInv, VersionInv, NEW t \in Threads, LastVersion(t)
  PROVE  VersionInv'
<1>1. TypeOK /\ VersionsOf(t) /\ OpInv(t)
  BY DEF CInv, VersionInv
<1>2. /\ stage[t] = "idle" /\ outcome[t].kind = "ok"
      /\ known' = [known EXCEPT ![t] = lastVersion[IoctxOf[t]].version]
      /\ basis' = [basis EXCEPT ![t] = Told(t)]
      /\ UNCHANGED <<object, lastVersion, stage, ret, outcome, given, verdict, ownAnswer>>
  BY DEF LastVersion, opvars
<1>3. /\ known'[t] = lastVersion[IoctxOf[t]].version /\ basis'[t] = Told(t)
      /\ \A u \in Threads \ {t} : known'[u] = known[u] /\ basis'[u] = basis[u]
  BY <1>1, <1>2 DEF TypeOK
<1>4. /\ Told(t).last = lastVersion[IoctxOf[t]] /\ Told(t).met = verdict[t].object
      /\ Told(t).own = ownAnswer[t]
  BY DEF Told
<1>5. /\ ownAnswer[t] => lastVersion[IoctxOf[t]] = verdict[t].object
      /\ Older(verdict[t].object) /\ Older(lastVersion[IoctxOf[t]])
  BY <1>1, <1>2 DEF VersionsOf
<1>6. given[t] = <<>>
  BY <1>1, <1>2 DEF OpInv, BuildInv, OfStage
<1>7. VersionsOf(t)'
  BY <1>2, <1>3, <1>4, <1>5, <1>6 DEF VersionsOf, Older
<1>8. \A u \in Threads \ {t} : SameVersions(u)
  BY <1>2, <1>3 DEF SameVersions
<1> QED
  BY <1>2, <1>7, <1>8, VersionsStay

LEMMA UnchangedKeepsVersions ==
  ASSUME VersionInv,
         UNCHANGED <<object, lastVersion, stage, ret, outcome, given, known, verdict, ownAnswer, basis>>
  PROVE  VersionInv'
  BY DEF VersionInv, VersionsOf, Older

LEMMA VersionNext ==
  ASSUME CInv, VersionInv, [Next]_vars
  PROVE  VersionInv'
<1>1. CASE UNCHANGED vars \/ Terminated
  BY <1>1, UnchangedKeepsVersions DEF vars, opvars, Terminated
<1>2. ASSUME NEW t \in Threads,
             \/ AssertVersion(t) \/ AddStep(t) \/ AddCmp(t) \/ AddRead(t)
             \/ (\E p \in Programs : New(t, p)) \/ Operate(t) \/ NoReply(t)
      PROVE  VersionInv'
  BY <1>2, BuildingKeepsVersions, StagesKeepVersions
<1>3. ASSUME NEW t \in Threads,
             \/ DropOp(t) \/ OperateNul(t) \/ ReportWrite(t) \/ CollectResults(t)
             \/ Execute(t) \/ ReplyArrives(t) \/ LastVersion(t)
      PROVE  VersionInv'
  BY <1>3, DropsKeepVersions, ExecuteKeepsVersions, ReplyKeepsVersions, LastVersionKeepsVersions
<1>4. ASSUME NEW t \in Threads, NEW h \in handles[t], Take(t, h) \/ DropHandle(t, h)
      PROVE  VersionInv'
  BY <1>4, UnchangedKeepsVersions DEF Take, DropHandle, opvars
<1> QED
  BY <1>1, <1>2, <1>3, <1>4 DEF Next

LEMMA OnlyExecuteExecutes ==
  ASSUME TypeOK, Next, NEW t \in Threads, stage[t] = "operating", stage'[t] = "executed"
  PROVE  Execute(t)
<1> USE DEF TypeOK
<1>1. ~ Terminated
  BY DEF Terminated, vars, opvars
<1>2. ASSUME NEW u \in Threads,
             \/ AssertVersion(u) \/ AddStep(u) \/ AddCmp(u) \/ AddRead(u) \/ LastVersion(u)
             \/ \E h \in handles[u] : Take(u, h) \/ DropHandle(u, h)
      PROVE  FALSE
  BY <1>2 DEF AssertVersion, AddStep, AddCmp, AddRead, LastVersion, Take, DropHandle, opvars
<1>3. ASSUME NEW u \in Threads, (\E p \in Programs : New(u, p)) \/ Operate(u) PROVE FALSE
  BY <1>3 DEF New, Operate
<1>4. ASSUME NEW u \in Threads, ReplyArrives(u) \/ NoReply(u) PROVE FALSE
  BY <1>4 DEF ReplyArrives, NoReply
<1>5. ASSUME NEW u \in Threads, DropOp(u) \/ OperateNul(u) \/ ReportWrite(u) \/ CollectResults(u)
      PROVE  FALSE
  BY <1>5 DEF DropOp, OperateNul, ReportWrite, CollectResults, Dropped
<1>6. ASSUME NEW u \in Threads, Execute(u) PROVE u = t
  BY <1>6 DEF Execute
<1> QED
  BY <1>1, <1>2, <1>3, <1>4, <1>5, <1>6 DEF Next

\* IoCtx::last_version and WriteOp::assert_version make a compare-and-swap: a write that pins
\* the version replaces the object of the last answer on the ioctx, which is the one the thread
\* met itself unless a thread with a clone of the ioctx got an answer in between.
THEOREM NoUpdateIsLost == Spec => NoLostUpdate
<1>1. ASSUME CInv, VersionInv, [Next]_vars
      PROVE  [\A t \in Threads :
                stage[t] = "operating" /\ stage'[t] = "executed" /\ object' # object
                  /\ (\E i \in DOMAIN given[t] : given[t][i].kind = "assert_version")
                  => /\ object = basis[t].last
                     /\ basis[t].own => object = basis[t].met]_vars
  <2> SUFFICES ASSUME Next, NEW t \in Threads, stage[t] = "operating", stage'[t] = "executed",
                      object' # object, NEW i \in DOMAIN given[t],
                      given[t][i].kind = "assert_version"
               PROVE  object = basis[t].last /\ (basis[t].own => object = basis[t].met)
    BY <1>1
  <2>1. Execute(t)
    BY <1>1, OnlyExecuteExecutes DEF CInv
  <2>2. Holds(given[t][i], object)
    BY <1>1, <2>1, ExecuteResult
  <2>3. object.version = given[t][i].arg
    BY <2>2 DEF Holds
  <2>4. /\ given[t][i].arg = basis[t].last.version /\ Older(basis[t].last)
        /\ basis[t].own => basis[t].last = basis[t].met
    BY <1>1 DEF VersionInv, VersionsOf
  <2> QED
    BY <2>3, <2>4 DEF Older
<1>2. CInv /\ VersionInv /\ [Next]_vars => VersionInv'
  BY VersionNext
<1> QED
  BY <1>1, <1>2, VersionInit, CInvAlways, PTL DEF Spec, NoLostUpdate

=============================================================================

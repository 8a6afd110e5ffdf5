---------------------------- MODULE CompoundOps ----------------------------
(***************************************************************************)
(* WriteOp (src/src/write_op.rs), ReadOp and ReadResults                   *)
(* (src/src/read_op.rs) and IoCtx::last_version (src/src/ioctx.rs) on one  *)
(* object.                                                                 *)
(*                                                                         *)
(* An operation is built step by step.  A step with a result gives         *)
(* librados the address of a slot, which librados writes when the          *)
(* operation runs and the wrapper reads afterwards.  Each thread has one   *)
(* operation at a time.  Threads share the object, the memory that slots   *)
(* are allocated from and, when they hold clones of one IoCtx, its last    *)
(* version.                                                                *)
(*                                                                         *)
(* The OSD and the allocator are external.                                 *)
(***************************************************************************)
EXTENDS Naturals, Sequences, FiniteSets

CONSTANTS
  Threads,
  Ioctxs,
  IoctxOf,   \* [Threads -> Ioctxs]: threads with clones of one IoCtx share it
  Addrs,     \* addresses of boxes
  NoAddr,    \* the address of a step without a slot
  Ids,       \* addresses of the Arc of a ReadOp
  NoId,
  Values,    \* what the object may hold
  Empty,     \* missing or stored empty, which omap_cmp does not tell apart
  Programs,  \* the operations that threads build
  MaxOps     \* bound, [Threads -> Nat]: operations a thread builds

\* `create` is the exclusive one, as the other checks nothing.  `put` stands for every step
\* that sets data, xattrs or omap keys, `clear` for those that take omap keys away, `get` for
\* every step that reads; its argument says what is read.
Guards == {"assert_version", "assert_exists", "create", "cmpxattr", "omap_cmp"}
Mutations == {"put", "clear", "remove"}

Step == [kind : Guards \cup Mutations \cup {"get"}, arg : Values \cup {Empty}]

\* The programs of a model.  Behind a mutation there are only `put`s: every step can be judged
\* on the object as it was before the operation.
IsProgram(p) ==
  /\ p.steps \in Seq(Step)
  /\ \/ /\ p.type = "read"
        /\ \A i \in DOMAIN p.steps : p.steps[i].kind \in {"assert_version", "get"}
     \/ /\ p.type = "write"
        /\ \A i \in DOMAIN p.steps : p.steps[i].kind \in Guards \cup Mutations
        /\ \A i, j \in DOMAIN p.steps :
             i < j /\ p.steps[i].kind \in Mutations => p.steps[j].kind = "put"

ASSUME CompoundOpsAssumption ==
  /\ IoctxOf \in [Threads -> Ioctxs]
  /\ NoAddr \notin Addrs
  /\ NoId \notin Ids
  /\ Empty \notin Values
  /\ MaxOps \in [Threads -> Nat]
  /\ \A p \in Programs : IsProgram(p)

VARIABLES
  object,       \* the object at the OSD
  lastVersion,  \* [Ioctxs -> Object]: the object of the answer that came last on the ioctx;
                \* rados_get_last_version returns its version
  memory,       \* [Addrs -> Content]
  stage,        \* [Threads -> ...]: where the operation of the thread is
  program,      \* [Threads -> ...]: the operation the thread builds, or built last
  given,        \* [Threads -> Seq(Given)]: the steps librados has
  boxes,        \* [Threads -> Seq(Addrs)]: the field cmps or steps of the operation
  ret,          \* [Threads -> ...]: what rados_write_op_operate or its like returned
  outcome,      \* [Threads -> ...]: what operate or operate_report returned
  id,           \* [Threads -> Ids \cup {NoId}]: the field operation of the ReadOp
  handles,      \* [Threads -> SUBSET Handle]
  results,      \* [Threads -> ...]: the ReadResults the thread holds
  known,        \* [Threads -> Nat]: the version last_version told the thread
  built,        \* [Threads -> Nat]: how many operations the thread has begun
  verdict,      \* history: what the OSD decided on the operation
  ownAnswer,    \* history: the last answer on the ioctx of the thread was its own
  basis         \* history: what the thread knew when it asked for the version

opvars == <<stage, program, given, boxes, ret, outcome, id, built>>
vars ==
  <<object, lastVersion, memory, opvars, handles, results, known, verdict, ownAnswer, basis>>

Object == [exists : BOOLEAN, version : Nat, value : Values \cup {Empty}]
Absent == [exists |-> FALSE, version |-> 0, value |-> Empty]

\* A step's slot: its prval and, for a read, what was read where.
Content ==
  [prval : {"zero", "nonzero", "taken"}, part : Values \cup {Empty}, value : Values \cup {Empty}]
Fresh == [prval |-> "zero", part |-> Empty, value |-> Empty]

\* A step librados has; `valid` says whether it may write through the pointer to the slot.
Given ==
  [kind : Guards \cup Mutations \cup {"get"}, arg : Values \cup {Empty} \cup Nat,
   addr : Addrs \cup {NoAddr}, valid : BOOLEAN]

\* op and part are history: the operation the handle is for, and what its step reads.
Handle == [id : Ids, index : Nat \ {0}, op : Nat, part : Values \cup {Empty}]

NoProgram == [type |-> "none", steps |-> <<>>]
\* last is the object whose version was told, met the one of the thread's last operation; they
\* are one if the answer to that operation was the last on the ioctx.
Basis == [last : Object, met : Object, own : BOOLEAN]
NoBasis == [last |-> Absent, met |-> Absent, own |-> FALSE]
NoResults == [id |-> NoId, values |-> <<>>, op |-> 0, object |-> Absent]

\* The failed_cmp of a report, or the step the OSD rejected, when there is none.
None == 0

Report(kind, cmp) == [kind |-> kind, failedCmp |-> cmp]

Init ==
  /\ object = Absent
  /\ lastVersion = [c \in Ioctxs |-> Absent]
  /\ memory = [a \in Addrs |-> Fresh]
  /\ stage = [t \in Threads |-> "idle"]
  /\ program = [t \in Threads |-> NoProgram]
  /\ given = [t \in Threads |-> <<>>]
  /\ boxes = [t \in Threads |-> <<>>]
  /\ ret = [t \in Threads |-> "none"]
  /\ outcome = [t \in Threads |-> Report("none", None)]
  /\ id = [t \in Threads |-> NoId]
  /\ handles = [t \in Threads |-> {}]
  /\ results = [t \in Threads |-> NoResults]
  /\ known = [t \in Threads |-> 0]
  /\ built = [t \in Threads |-> 0]
  /\ verdict = [t \in Threads |-> [failed |-> None, applied |-> FALSE, object |-> Absent]]
  /\ ownAnswer = [t \in Threads |-> FALSE]
  /\ basis = [t \in Threads |-> NoBasis]

\* mutant: a Handle has the address of the Arc and no share of it
IdInUseByOp(i) == \E t \in Threads : id[t] = i \/ results[t].id = i

\* The Arc lives as long as the operation, its results or one of its handles.
IdInUse(i) ==
  \E t \in Threads : id[t] = i \/ results[t].id = i \/ \E h \in handles[t] : h.id = i

InUse(a) == \E t \in Threads : \E i \in DOMAIN boxes[t] : boxes[t][i] = a

-----------------------------------------------------------------------------
(* Building *)

New(t, p) ==
  /\ stage[t] = "idle"
  /\ built[t] < MaxOps[t]
  /\ stage' = [stage EXCEPT ![t] = "building"]
  /\ program' = [program EXCEPT ![t] = p]
  /\ ret' = [ret EXCEPT ![t] = "none"]
  /\ outcome' = [outcome EXCEPT ![t] = Report("none", None)]
  /\ built' = [built EXCEPT ![t] = @ + 1]
  /\ IF p.type = "read"
     THEN \E i \in Ids : ~ IdInUse(i) /\ id' = [id EXCEPT ![t] = i]
     ELSE UNCHANGED id
  /\ UNCHANGED <<object, lastVersion, memory, given, boxes,
                 handles, results, known, verdict, ownAnswer, basis>>

NextStep(t) == program[t].steps[Len(given[t]) + 1]

Adding(t, kinds) ==
  /\ stage[t] = "building"
  /\ Len(given[t]) < Len(program[t].steps)
  /\ NextStep(t).kind \in kinds

Pointing(t, arg, a) == [kind |-> NextStep(t).kind, arg |-> arg, addr |-> a, valid |-> TRUE]

Give(t, arg) == given' = [given EXCEPT ![t] = Append(@, Pointing(t, arg, NoAddr))]

\* A thread pins the version it has asked for.
AssertVersion(t) ==
  /\ Adding(t, {"assert_version"})
  /\ known[t] # 0
  /\ Give(t, known[t])
  /\ UNCHANGED <<object, lastVersion, memory, stage, program, boxes, ret, outcome, id, built,
                 handles, results, known, verdict, ownAnswer, basis>>

AddStep(t) ==
  /\ Adding(t, (Guards \cup Mutations) \ {"assert_version", "omap_cmp"})
  /\ Give(t, NextStep(t).arg)
  /\ UNCHANGED <<object, lastVersion, memory, stage, program, boxes, ret, outcome, id, built,
                 handles, results, known, verdict, ownAnswer, basis>>

\* mutant: the slots are elements of the vector, which moves them when it grows
NewBoxInline(t, a) ==
  /\ ~ InUse(a)
  /\ \E s \in [DOMAIN boxes[t] -> {b \in Addrs \ {a} : ~ InUse(b)}] :
       /\ \A i, j \in DOMAIN s : s[i] = s[j] => i = j
       /\ boxes' = [boxes EXCEPT ![t] = Append(s, a)]
       /\ memory' = [b \in Addrs |->
            IF b = a THEN Fresh
            ELSE IF \E i \in DOMAIN s : s[i] = b
                 THEN memory[boxes[t][CHOOSE i \in DOMAIN s : s[i] = b]]
                 ELSE memory[b]]

\* A new box, which ends up as the last of the operation's vector.
NewBox(t, a) ==
  /\ ~ InUse(a)
  /\ memory' = [memory EXCEPT ![a] = Fresh]
  /\ boxes' = [boxes EXCEPT ![t] = Append(@, a)]

\* A Box that is passed by value is the only way to its slot: pointers derived from it before
\* are invalid.  A vector that grows moves its boxes without that effect.  An invalid pointer
\* still has the address of the slot, and a write through it lands there in any build.
MoveBox(steps, a) ==
  [i \in DOMAIN steps |-> IF steps[i].addr = a THEN [steps[i] EXCEPT !.valid = FALSE] ELSE steps[i]]

\* The reads: librados gets the pointer, then the box moves into the vector.
PointThenPush(t, a) ==
  given' = [given EXCEPT ![t] = MoveBox(Append(@, Pointing(t, NextStep(t).arg, a)), a)]

\* omap_cmp: the box moves into the vector, then librados gets the pointer.
PushThenPoint(t, a) ==
  given' = [given EXCEPT ![t] = Append(MoveBox(@, a), Pointing(t, NextStep(t).arg, a))]

AddCmp(t) ==
  /\ Adding(t, {"omap_cmp"})
  /\ \E a \in Addrs : NewBox(t, a) /\ PushThenPoint(t, a)
  /\ UNCHANGED <<object, lastVersion, stage, program, ret, outcome, id, built,
                 handles, results, known, verdict, ownAnswer, basis>>

\* mutant: the index is taken before the push
AddReadEarly(t) ==
  /\ Adding(t, {"get"})
  /\ \E a \in Addrs : NewBox(t, a) /\ PointThenPush(t, a)
  /\ handles' = [handles EXCEPT ![t] = @ \cup
       {[id |-> id[t], index |-> Len(boxes[t]), op |-> built[t], part |-> NextStep(t).arg]}]
  /\ UNCHANGED <<object, lastVersion, stage, program, ret, outcome, id, built,
                 results, known, verdict, ownAnswer, basis>>

\* The handle has the index of its step among those with a result.
AddRead(t) ==
  /\ Adding(t, {"get"})
  /\ \E a \in Addrs : NewBox(t, a) /\ PointThenPush(t, a)
  /\ handles' = [handles EXCEPT ![t] = @ \cup
       {[id |-> id[t], index |-> Len(boxes[t]) + 1, op |-> built[t], part |-> NextStep(t).arg]}]
  /\ UNCHANGED <<object, lastVersion, stage, program, ret, outcome, id, built,
                 results, known, verdict, ownAnswer, basis>>

\* The operation's value is dropped: librados' operation and the boxes are freed.  Nobody
\* looks at freed memory, so its content is not kept.
Dropped(t) ==
  /\ memory' = [a \in Addrs |-> IF \E i \in DOMAIN boxes[t] : boxes[t][i] = a THEN Fresh ELSE memory[a]]
  /\ stage' = [stage EXCEPT ![t] = "idle"]
  /\ given' = [given EXCEPT ![t] = <<>>]
  /\ boxes' = [boxes EXCEPT ![t] = <<>>]
  /\ id' = [id EXCEPT ![t] = NoId]

\* A caller gives up, for example since a builder rejects a name with a NUL.
DropOp(t) ==
  /\ stage[t] = "building"
  /\ Dropped(t)
  /\ UNCHANGED <<object, lastVersion, program, ret, outcome, built,
                 handles, results, known, verdict, ownAnswer, basis>>

-----------------------------------------------------------------------------
(* operate, operate_report *)

\* The object's name has a NUL in it.
OperateNul(t) ==
  /\ stage[t] = "building"
  /\ outcome' = [outcome EXCEPT ![t] = Report("error", None)]
  /\ Dropped(t)
  /\ UNCHANGED <<object, lastVersion, program, ret, built,
                 handles, results, known, verdict, ownAnswer, basis>>

Operate(t) ==
  /\ stage[t] = "building"
  /\ Len(given[t]) = Len(program[t].steps)
  /\ stage' = [stage EXCEPT ![t] = "operating"]
  /\ UNCHANGED <<object, lastVersion, memory, program, given, boxes, ret, outcome, id, built,
                 handles, results, known, verdict, ownAnswer, basis>>

Holds(s, o) ==
  CASE s.kind = "assert_version" -> o.exists /\ o.version = s.arg
    [] s.kind = "create" -> ~ o.exists
    [] s.kind \in {"assert_exists", "clear", "remove", "get"} -> o.exists
    [] s.kind \in {"cmpxattr", "omap_cmp"} -> o.exists /\ o.value = s.arg
    [] s.kind = "put" -> TRUE

\* The OSD stops at the first step that does not hold.
FirstFailing(steps, o) ==
  LET failing == {i \in DOMAIN steps : ~ Holds(steps[i], o)} IN
    IF failing = {} THEN None ELSE CHOOSE i \in failing : \A j \in failing : i <= j

After(steps, o) ==
  LET changing == {i \in DOMAIN steps : steps[i].kind \in Mutations \cup {"create"}}
      last == steps[CHOOSE i \in changing : \A j \in changing : i >= j]
  IN  IF changing = {} THEN o
      ELSE [exists |-> last.kind # "remove", version |-> o.version + 1,
            value |-> IF last.kind = "put" THEN last.arg ELSE Empty]

\* All steps take effect, or none.
Execute(t) ==
  LET failed == FirstFailing(given[t], object)
      result == IF failed = None THEN After(given[t], object) ELSE object
  IN  /\ stage[t] = "operating"
      /\ stage' = [stage EXCEPT ![t] = "executed"]
      /\ object' = result
      /\ verdict' = [verdict EXCEPT
           ![t] = [failed |-> failed, applied |-> failed = None, object |-> result]]
      /\ UNCHANGED <<lastVersion, memory, program, given, boxes, ret, outcome, id, built,
                     handles, results, known, ownAnswer, basis>>

\* What librados writes to the slots: the error of the failing step, or the reads; `bad` are
\* those it cannot decode.
Written(t, bad) ==
  [a \in Addrs |->
    LET mine == {i \in DOMAIN given[t] : given[t][i].addr = a} IN
      IF mine = {} THEN memory[a]
      ELSE LET i == CHOOSE i \in mine : TRUE IN
        IF verdict[t].failed # None
        THEN [memory[a] EXCEPT !.prval = IF verdict[t].failed = i THEN "nonzero" ELSE "zero"]
        ELSE IF given[t][i].kind # "get" THEN [memory[a] EXCEPT !.prval = "zero"]
        ELSE IF i \in bad THEN [Fresh EXCEPT !.prval = "nonzero"]
        ELSE [prval |-> "zero", part |-> given[t][i].arg, value |-> verdict[t].object.value]]

ReplyArrives(t) ==
  /\ stage[t] = "executed"
  /\ \E bad \in SUBSET {i \in DOMAIN given[t] : given[t][i].kind = "get"} :
       memory' = Written(t, bad)
  /\ lastVersion' = [lastVersion EXCEPT ![IoctxOf[t]] = verdict[t].object]
  /\ ownAnswer' = [u \in Threads |-> u = t \/ (ownAnswer[u] /\ IoctxOf[u] # IoctxOf[t])]
  /\ ret' = [ret EXCEPT ![t] = IF verdict[t].failed = None THEN "ok" ELSE "rejected"]
  /\ stage' = [stage EXCEPT ![t] = "replied"]
  /\ UNCHANGED <<object, program, given, boxes, outcome, id, built,
                 handles, results, known, verdict, basis>>

\* librados gives up, before or after the OSD has executed the operation.
NoReply(t) ==
  /\ stage[t] \in {"operating", "executed"}
  /\ ret' = [ret EXCEPT ![t] = "lost"]
  /\ stage' = [stage EXCEPT ![t] = "replied"]
  /\ UNCHANGED <<object, lastVersion, memory, program, given, boxes, outcome, id, built,
                 handles, results, known, verdict, ownAnswer, basis>>

\* mutant: the position of the failing comparison is not looked for
FailedCmpFirst(t) == IF boxes[t] = <<>> THEN None ELSE 1

\* The first comparison with a non-zero prval.
FailedCmp(t) ==
  LET failed == {i \in DOMAIN boxes[t] : memory[boxes[t][i]].prval # "zero"} IN
    IF failed = {} THEN None ELSE CHOOSE i \in failed : \A j \in failed : i <= j

\* The end of operate_report, then the drop of the WriteOp.
ReportWrite(t) ==
  /\ stage[t] = "replied"
  /\ program[t].type = "write"
  /\ outcome' = [outcome EXCEPT
       ![t] = IF ret[t] = "ok" THEN Report("ok", None) ELSE Report("error", FailedCmp(t))]
  /\ Dropped(t)
  /\ UNCHANGED <<object, lastVersion, program, ret, built,
                 handles, results, known, verdict, ownAnswer, basis>>

\* The end of ReadOp::operate: results are copied out of the boxes, unless the operation
\* failed.  A thread keeps the last results only.
CollectResults(t) ==
  /\ stage[t] = "replied"
  /\ program[t].type = "read"
  /\ IF ret[t] = "ok"
     THEN /\ outcome' = [outcome EXCEPT ![t] = Report("ok", None)]
          /\ results' = [results EXCEPT ![t] =
               [id |-> id[t], values |-> [i \in DOMAIN boxes[t] |-> memory[boxes[t][i]]],
                op |-> built[t], object |-> verdict[t].object]]
     ELSE /\ outcome' = [outcome EXCEPT ![t] = Report("error", None)]
          /\ UNCHANGED results
  /\ Dropped(t)
  /\ UNCHANGED <<object, lastVersion, program, ret, built,
                 handles, known, verdict, ownAnswer, basis>>

-----------------------------------------------------------------------------
(* ReadResults::take, IoCtx::last_version *)

\* Arc::ptr_eq
Names(t, h) == results[t].id = h.id

\* A handle is used once.  One of another operation is rejected and changes nothing.
Take(t, h) ==
  /\ results[t].id # NoId
  /\ h \in handles[t]
  /\ handles' = [handles EXCEPT ![t] = @ \ {h}]
  /\ results' = IF Names(t, h)
                THEN [results EXCEPT ![t].values[h.index].prval = "taken"]
                ELSE results
  /\ UNCHANGED <<object, lastVersion, memory, opvars, known, verdict, ownAnswer, basis>>

DropHandle(t, h) ==
  /\ h \in handles[t]
  /\ handles' = [handles EXCEPT ![t] = @ \ {h}]
  /\ UNCHANGED <<object, lastVersion, memory, opvars, results, known, verdict, ownAnswer, basis>>

Told(t) == [last |-> lastVersion[IoctxOf[t]], met |-> verdict[t].object, own |-> ownAnswer[t]]

\* mutant: the version is asked of the OSD anew
LastVersionNow(t) ==
  /\ stage[t] = "idle"
  /\ outcome[t].kind = "ok"
  /\ known' = [known EXCEPT ![t] = object.version]
  /\ basis' = [basis EXCEPT ![t] = Told(t)]
  /\ UNCHANGED <<object, lastVersion, memory, opvars, handles, results, verdict, ownAnswer>>

\* A thread asks for the version when its operation has succeeded.
LastVersion(t) ==
  /\ stage[t] = "idle"
  /\ outcome[t].kind = "ok"
  /\ known' = [known EXCEPT ![t] = lastVersion[IoctxOf[t]].version]
  /\ basis' = [basis EXCEPT ![t] = Told(t)]
  /\ UNCHANGED <<object, lastVersion, memory, opvars, handles, results, verdict, ownAnswer>>

-----------------------------------------------------------------------------

Terminated ==
  /\ \A t \in Threads : stage[t] = "idle" /\ built[t] = MaxOps[t]
  /\ UNCHANGED vars

Next ==
  \/ \E t \in Threads :
       \/ \E p \in Programs : New(t, p)
       \/ AssertVersion(t) \/ AddStep(t) \/ AddCmp(t) \/ AddRead(t) \/ DropOp(t)
       \/ OperateNul(t) \/ Operate(t) \/ Execute(t) \/ ReplyArrives(t) \/ NoReply(t)
       \/ ReportWrite(t) \/ CollectResults(t) \/ LastVersion(t)
       \/ \E h \in handles[t] : Take(t, h) \/ DropHandle(t, h)
  \/ Terminated

Spec == Init /\ [][Next]_vars

-----------------------------------------------------------------------------
(* Properties *)

\* Every variable stays within its range.
TypeOK ==
  /\ object \in Object
  /\ lastVersion \in [Ioctxs -> Object]
  /\ memory \in [Addrs -> Content]
  /\ stage \in [Threads -> {"idle", "building", "operating", "executed", "replied"}]
  /\ program \in [Threads -> Programs \cup {NoProgram}]
  /\ given \in [Threads -> Seq(Given)]
  /\ boxes \in [Threads -> Seq(Addrs)]
  /\ ret \in [Threads -> {"none", "ok", "rejected", "lost"}]
  /\ outcome \in [Threads -> [kind : {"none", "ok", "error"}, failedCmp : Nat]]
  /\ id \in [Threads -> Ids \cup {NoId}]
  /\ handles \in [Threads -> SUBSET Handle]
  /\ results \in [Threads -> [id : Ids \cup {NoId}, values : Seq(Content), op : Nat, object : Object]]
  /\ known \in [Threads -> Nat]
  /\ built \in [Threads -> Nat]
  /\ verdict \in [Threads -> [failed : Nat, applied : BOOLEAN, object : Object]]
  /\ ownAnswer \in [Threads -> BOOLEAN]
  /\ basis \in [Threads -> Basis]

\* The addresses librados still may write to are boxes of the operation they were given for,
\* and no two operations share a box, however the vectors grow and operations are dropped.
\* The pointer to the prval of an omap_cmp was taken when its box was in place, so none of the
\* later moves makes it invalid.
SlotsInPlace ==
  /\ \A t \in Threads : \A i \in DOMAIN given[t] :
       given[t][i].addr # NoAddr => \E j \in DOMAIN boxes[t] : boxes[t][j] = given[t][i].addr
  /\ \A t, u \in Threads : \A i \in DOMAIN boxes[t], j \in DOMAIN boxes[u] :
       boxes[t][i] = boxes[u][j] => t = u /\ i = j
  /\ \A t \in Threads : \A i \in DOMAIN given[t] :
       given[t][i].kind = "omap_cmp" => given[t][i].valid

\* What read_op.rs says of a step (13-14), with write_op.rs on what becomes of a pointer whose
\* Box is moved (189-192): when librados writes through the pointers it was given, they are
\* valid.  The reads break it: they give librados the pointer first and push the Box then.
PointersSurvive ==
  \A t \in Threads : stage[t] = "executed" => \A i \in DOMAIN given[t] : given[t][i].valid

\* The omap_cmp among the first i steps.
CmpsUpTo(steps, i) == {j \in DOMAIN steps : j <= i /\ steps[j].kind = "omap_cmp"}

\* operate_report names an omap_cmp exactly when the OSD rejected the operation at it, and
\* names that one: not for a failing guard of another kind, nor for an answer that was lost.
TruthfulReport ==
  \A t \in Threads :
    stage[t] = "idle" /\ outcome[t].kind # "none" /\ program[t].type = "write" =>
      LET steps == program[t].steps
          failed == verdict[t].failed
      IN  /\ outcome[t].kind = "ok" => verdict[t].applied
          /\ outcome[t].failedCmp =
               IF ret[t] = "rejected" /\ steps[failed].kind = "omap_cmp"
               THEN Cardinality(CmpsUpTo(steps, failed)) ELSE None

\* A handle that take accepts belongs to the operation the results are of; its result is
\* there and not yet taken, so take never panics; and a result with prval 0 is what that step
\* read of the object as it was when the whole operation ran: there are results only of an
\* operation in which each step ran, so an empty result is not that of a step that did not.
HandlesFindResults ==
  \A t \in Threads : results[t].id # NoId =>
    \A h \in handles[t] : Names(t, h) =>
      /\ h.op = results[t].op
      /\ h.index \in DOMAIN results[t].values
      /\ LET r == results[t].values[h.index] IN
           /\ r.prval # "taken"
           /\ r.prval = "zero" => r.part = h.part /\ r.value = results[t].object.value

\* What read_op.rs says of take (273-274): when the OSD stops at a step, the results are there
\* all the same, with prval 0 for the steps that did not run.  operate breaks it: it returns the
\* error, and no results.
RejectedReadHasResults ==
  \A t \in Threads :
    stage[t] = "idle" /\ program[t].type = "read" /\ ret[t] = "rejected"
      => /\ results[t].op = built[t]
         /\ \A i \in DOMAIN results[t].values :
              i > verdict[t].failed => results[t].values[i].prval \in {"zero", "taken"}

\* A write that pins what last_version told replaces the very object of the answer that came
\* last on the ioctx when its thread asked.  If no other thread with a clone of the ioctx got
\* an answer since the thread's own, that is the object the thread last read or wrote: it
\* overwrites no change it has not seen.
NoLostUpdate ==
  [][\A t \in Threads :
       stage[t] = "operating" /\ stage'[t] = "executed" /\ object' # object
         /\ (\E i \in DOMAIN given[t] : given[t][i].kind = "assert_version")
         => /\ object = basis[t].last
            /\ basis[t].own => object = basis[t].met]_vars

=============================================================================

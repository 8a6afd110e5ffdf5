---------------------------- MODULE RetryBuffers ----------------------------
(***************************************************************************)
(* The methods that call librados again with larger buffers until their    *)
(* answer fits: IoCtx::getxattr and IoCtx::list_lockers                    *)
(* (src/src/ioctx.rs) and Rados::list_pools (src/src/conn.rs), while other *)
(* clients change what they ask for.                                       *)
(*                                                                         *)
(* What a method asks for is a value with the bytes that each of its       *)
(* fields, NULs included, takes in a buffer.                               *)
(***************************************************************************)
EXTENDS Naturals, Errors

CONSTANTS
  Values,   \* [Methods -> set]: what a method may find
  Bytes,    \* [value -> [field -> Nat]]
  Start,    \* [Methods -> Nat]: the length of its first buffers
  Missing,  \* there is no object, or no such xattr
  Garbage   \* what is in a buffer is no value, or not all of it

Methods == {"getxattr", "list_lockers", "list_pools"}

Fields(m) ==
  CASE m = "getxattr" -> {"value"}
    [] m = "list_lockers" -> {"tag", "clients", "cookies", "addrs"}
    [] m = "list_pools" -> {"names"}

ASSUME RetryBuffersAssumption ==
  /\ Start \in [Methods -> Nat \ {0}]
  /\ \A m \in Methods :
       /\ Missing \notin Values[m] /\ Garbage \notin Values[m]
       /\ \A v \in Values[m] : Bytes[v] \in [Fields(m) -> Nat]
  /\ \A v \in Values["list_lockers"] : Bytes[v]["tag"] > 0

VARIABLES
  method,   \* the method that was called last
  found,    \* what it would find now
  stage,
  lens,     \* [Fields(method) -> Nat]: the lengths of the buffers
  answer,   \* what librados returned: its return code, lengths, and the buffers
  outcome,  \* what the method returned
  retried,  \* history: librados was called before in this call
  changed,  \* history: what is asked for changed since librados was called
  during    \* history: what could be found since the method was called

callvars == <<method, stage, lens, answer, outcome, retried>>
vars == <<found, callvars, changed, during>>

Findable(m) == Values[m] \cup (IF m = "list_pools" THEN {} ELSE {Missing})

Over(m, x) == [f \in Fields(m) |-> x]
Answer(ret, len, buffers) == [ret |-> ret, len |-> len, buffers |-> buffers]
Outcome(result, content) == [result |-> result, content |-> content]
NoAnswer(m) == Answer("OK", Over(m, 0), Over(m, Garbage))
NoOutcome(m) == Outcome("none", Over(m, Garbage))

Init ==
  /\ method \in Methods
  /\ found \in Findable(method)
  /\ stage = "ready"
  /\ lens = Over(method, Start[method])
  /\ answer = NoAnswer(method)
  /\ outcome = NoOutcome(method)
  /\ retried = FALSE
  /\ changed = FALSE
  /\ during = {found}

\* Other clients set and remove xattrs, take and lose locks, create and delete pools.
Change ==
  /\ stage # "idle"
  /\ found' \in Findable(method) \ {found}
  /\ changed' = TRUE
  /\ during' = during \cup {found'}
  /\ UNCHANGED callvars

Call ==
  /\ stage = "idle"
  /\ stage' = "ready"
  /\ \E m \in Methods : \E v \in Findable(m) :
       /\ method' = m
       /\ found' = v
       /\ lens' = Over(m, Start[m])
       /\ answer' = NoAnswer(m)
       /\ outcome' = NoOutcome(m)
       /\ during' = {v}
  /\ retried' = FALSE
  /\ changed' = FALSE

-----------------------------------------------------------------------------
(* librados *)

Fits(v) == \A f \in Fields(method) : Bytes[v][f] <= lens[f]

Answered(a) ==
  /\ stage = "ready"
  /\ stage' = "answered"
  /\ answer' = a
  /\ changed' = FALSE
  /\ UNCHANGED <<found, method, lens, outcome, retried, during>>

Fails ==
  \E e \in {"EIO"} \cup (IF found = Missing THEN {"ENOENT"} ELSE {}) :
    Answered(Answer(e, lens, Over(method, Garbage)))

Filled == Answer("OK", Bytes[found], Over(method, found))

\* The length that is needed is not reported.
RadosGetxattr ==
  /\ method = "getxattr"
  /\ found # Missing
  /\ Answered(IF Fits(found) THEN Filled
              ELSE Answer("ERANGE", lens, Over(method, Garbage)))

\* All lengths are reported in any case.
RadosListLockers ==
  /\ method = "list_lockers"
  /\ found # Missing
  /\ Answered(IF Fits(found) THEN Filled
              ELSE Answer("ERANGE", Bytes[found], Over(method, Garbage)))

\* One more than is needed is returned, and what fits is written.
RadosPoolList ==
  /\ method = "list_pools"
  /\ Answered(Answer("OK", [f \in Fields(method) |-> Bytes[found][f] + 1],
                     Over(method, IF Fits(found) THEN found ELSE Garbage)))

-----------------------------------------------------------------------------
(* The methods between two calls of librados *)

Retry(newLens) ==
  /\ stage = "answered"
  /\ stage' = "ready"
  /\ lens' = newLens
  /\ retried' = TRUE
  /\ UNCHANGED <<found, method, answer, outcome, changed, during>>

Return(result, content) ==
  /\ stage = "answered"
  /\ stage' = "idle"
  /\ outcome' = Outcome(result, content)
  /\ UNCHANGED <<found, method, lens, answer, retried, changed, during>>

\* The first n bytes of a buffer.  The slice panics when there are fewer.
Slice(f, n) ==
  LET v == answer.buffers[f] IN
    IF v # Garbage /\ n <= lens[f] /\ n = Bytes[v][f] THEN v ELSE Garbage

Finish(len) ==
  Return(CheckErr(answer.ret),
         [f \in Fields(method) |-> IF answer.ret = "OK" THEN Slice(f, len[f]) ELSE Garbage])

\* mutant: twice the length, twice
DoubledTwice == [f \in Fields(method) |-> 4 * lens[f]]

Doubled == [f \in Fields(method) |-> 2 * lens[f]]

Getxattr ==
  /\ method = "getxattr"
  /\ IF answer.ret = "ERANGE" THEN Retry(Doubled) ELSE Finish(answer.len)

\* mutant: the lengths are not replaced
ReplacedNot == lens

\* All lengths are replaced by those that were needed, also of the buffers that were large
\* enough.
Replaced == answer.len

ListLockers ==
  /\ method = "list_lockers"
  /\ IF answer.ret = "ERANGE" THEN Retry(Replaced) ELSE Finish(answer.len)

\* mutant: the list is as long as the buffer
NeededByBuffer == [f \in Fields(method) |-> lens[f]]

Needed == [f \in Fields(method) |-> answer.len[f] - 1]

ListPools ==
  /\ method = "list_pools"
  /\ IF answer.ret = "OK" /\ Needed["names"] > lens["names"] THEN Retry(Needed) ELSE Finish(Needed)

-----------------------------------------------------------------------------

Rados == RadosGetxattr \/ RadosListLockers \/ RadosPoolList \/ Fails

Step == Getxattr \/ ListLockers \/ ListPools

Next == Rados \/ Step \/ Change \/ Call

Spec == Init /\ [][Next]_vars

\* librados answers, and the thread in the method runs.
FairSpec == Spec /\ WF_vars(Rados) /\ WF_vars(Step)

-----------------------------------------------------------------------------
(* Properties *)

\* Every variable stays within its range; that a buffer was too small is no error the caller sees.
TypeOK ==
  /\ method \in Methods
  /\ found \in Findable(method)
  /\ stage \in {"idle", "ready", "answered"}
  /\ lens \in [Fields(method) -> Nat]
  /\ answer.ret \in {"OK", "ERANGE", "ENOENT", "EIO"}
  /\ answer.len \in [Fields(method) -> Nat]
  /\ answer.buffers \in [Fields(method) -> Values[method] \cup {Garbage}]
  /\ outcome.result \in {"none", Ok, "NotFound", "EIO"}
  /\ outcome.content \in [Fields(method) -> Values[method] \cup {Garbage}]
  /\ retried \in BOOLEAN /\ changed \in BOOLEAN
  /\ during \in SUBSET Findable(method)

\* What a method returns is all of one value that was there during the call: no list is cut
\* short and no locker gets the cookie or the address of another.  It says NotFound only of
\* what was missing during the call.
Snapshot ==
  /\ outcome.result = Ok =>
       \E v \in during : \A f \in Fields(method) : outcome.content[f] = v
  /\ outcome.result = "NotFound" => Missing \in during

\* The buffers of a retry of list_lockers and list_pools fit what was there when librados
\* asked for more, so a further retry is needed only if that has changed since.
RetryFits ==
  stage = "ready" /\ retried /\ ~ changed /\ method # "getxattr" /\ found # Missing
    => Fits(found)

\* A buffer outgrows the first one only for something that was there during the call, and is
\* less than twice as large.
BuffersBounded ==
  \A f \in Fields(method) :
    \/ lens[f] <= Start[method]
    \/ \E v \in during \ {Missing} : lens[f] < 2 * Bytes[v][f]

\* The buffers are as large as they have to be and no larger, and all else is in its range:
\* an ERANGE never gets out.
BuffersFit == TypeOK /\ RetryFits /\ BuffersBounded

\* getxattr and list_pools return, also when what they ask for never stops changing: their
\* buffers only grow.
GrowingReturns ==
  \A m \in {"getxattr", "list_pools"} : method = m ~> stage = "idle"

\* list_lockers returns unless the lockers keep changing: its buffers also shrink, and the
\* length of one list may grow while that of another falls.
LockersReturn ==
  \/ []<><<Change>>_vars
  \/ method = "list_lockers" ~> stage = "idle"

\* Each method returns, whatever the values do, but for the lockers.
EachReturns == GrowingReturns /\ LockersReturn

=============================================================================

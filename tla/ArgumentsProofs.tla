-------------------------- MODULE ArgumentsProofs --------------------------
(***************************************************************************)
(* Theorems about what is passed to librados: about Timeouts, for every    *)
(* Duration and every width of the integer types, and about RetryBuffers,  *)
(* for any values and any first lengths of the buffers.                    *)
(***************************************************************************)
EXTENDS Timeouts, RetryBuffers, Integers, TLAPS

-----------------------------------------------------------------------------
(* Durations *)

LEMMA DurationFields ==
  ASSUME NEW d \in Duration
  PROVE  d.secs \in Nat /\ d.millis \in Group /\ d.micros \in Group /\ d.nanos \in Group
  BY DEF Duration

LEMMA RoundUp ==
  ASSUME NEW d, NEW s \in Nat, NEW m \in Group, d.secs = s, d.millis = m
  PROVE  NotifySeconds(d) = s + IF m > 0 THEN 1 ELSE 0
<1>1. NotifySeconds(d) = (s * 1000 + m + 1000 - 1) \div 1000
  BY DEF Group, NotifySeconds, CeilDiv, AsMillis
<1>2. CASE m = 0
  BY <1>1, <1>2 DEF Group
<1>3. CASE m > 0
  <2>1. s * 1000 + m + 1000 - 1 = (s + 1) * 1000 + (m - 1)
    BY DEF Group
  <2> QED
    BY <1>1, <1>3, <2>1 DEF Group
<1> QED
  BY <1>2, <1>3 DEF Group

\* The rounding of IoCtx::notify: a fraction of a second counts from one millisecond on.
LEMMA NotifyRounding ==
  ASSUME NEW d \in Duration
  PROVE  /\ NotifySeconds(d) = d.secs + IF d.millis > 0 THEN 1 ELSE 0
         /\ (NotifySeconds(d) * 1000) \div 1000 = NotifySeconds(d)
<1>1. NotifySeconds(d) = d.secs + IF d.millis > 0 THEN 1 ELSE 0
  BY RoundUp, DurationFields
<1>2. NotifySeconds(d) \in Nat
  BY <1>1, DurationFields DEF Group
<1> QED
  BY <1>1, <1>2

LEMMA EndOfUnit ==
  ASSUME NEW d, NEW s, NEW x, NEW y, NEW z,
         d = [secs |-> s, millis |-> x, micros |-> y, nanos |-> z]
  PROVE  /\ [d EXCEPT !.nanos = 0] = [secs |-> s, millis |-> x, micros |-> y, nanos |-> 0]
         /\ ToMicro(d) = [secs |-> s, millis |-> x, micros |-> y, nanos |-> 999]
         /\ ToSecond(d) = [secs |-> s, millis |-> 999, micros |-> 999, nanos |-> 999]
<1>1. /\ [d EXCEPT !.nanos = 0] = [secs |-> s, millis |-> x, micros |-> y, nanos |-> 0]
      /\ ToMicro(d) = [secs |-> s, millis |-> x, micros |-> y, nanos |-> 999]
  BY DEF ToMicro
<1> DEFINE c == ToMicro(d)
<1>2. c = [secs |-> s, millis |-> x, micros |-> y, nanos |-> 999]
  BY <1>1
<1>3. ToSecond(d) = [[c EXCEPT !.micros = 999] EXCEPT !.millis = 999]
  BY DEF ToSecond, ToMilli
<1> HIDE DEF c
<1> DEFINE b == [c EXCEPT !.micros = 999]
<1>4. b = [secs |-> s, millis |-> x, micros |-> 999, nanos |-> 999]
  BY <1>2
<1>5. ToSecond(d) = [b EXCEPT !.millis = 999]
  BY <1>3
<1> HIDE DEF b
<1>6. ToSecond(d) = [secs |-> s, millis |-> 999, micros |-> 999, nanos |-> 999]
  BY <1>4, <1>5
<1> QED
  BY <1>1, <1>6

\* Dropping the digits below a unit loses less than that unit.
LEMMA Truncation ==
  ASSUME NEW d \in Duration
  PROVE  /\ LET c == [d EXCEPT !.nanos = 0] IN AtMost(c, d) /\ AtMost(d, ToMicro(c))
         /\ LET c == Seconds(d.secs) IN AtMost(c, d) /\ AtMost(d, ToSecond(c))
<1>1. PICK s \in Nat, x \in Group, y \in Group, z \in Group :
        d = [secs |-> s, millis |-> x, micros |-> y, nanos |-> z]
  <2>1. d = [secs |-> d.secs, millis |-> d.millis, micros |-> d.micros, nanos |-> d.nanos]
    BY DEF Duration
  <2> QED
    BY <2>1, DurationFields
<1> DEFINE m == [d EXCEPT !.nanos = 0]
           c == Seconds(d.secs)
<1>2. m = [secs |-> s, millis |-> x, micros |-> y, nanos |-> 0]
  BY <1>1, EndOfUnit
<1>3. c = [secs |-> s, millis |-> 0, micros |-> 0, nanos |-> 0]
  BY <1>1 DEF Seconds
<1> HIDE DEF m, c
<1>4. ToMicro(m) = [secs |-> s, millis |-> x, micros |-> y, nanos |-> 999]
  BY <1>2, EndOfUnit
<1>5. ToSecond(c) = [secs |-> s, millis |-> 999, micros |-> 999, nanos |-> 999]
  BY <1>3, EndOfUnit
<1>6. AtMost(m, d)
  BY <1>1, <1>2 DEF AtMost, Group
<1>7. AtMost(d, ToMicro(m))
  BY <1>1, <1>4 DEF AtMost, Group
<1>8. AtMost(c, d)
  BY <1>1, <1>3 DEF AtMost, Group
<1>9. AtMost(d, ToSecond(c))
  BY <1>1, <1>5 DEF AtMost, Group
<1> QED
  BY <1>6, <1>7, <1>8, <1>9 DEF m, c

\* Zero and all of its last unit is what is under that unit.
LEMMA UnderUnit ==
  ASSUME NEW d \in Duration
  PROVE  /\ AtMost(d, ToMicro(Zero)) <=> d.secs = 0 /\ d.millis = 0 /\ d.micros = 0
         /\ AtMost(d, ToMilli(Zero)) <=> d.secs = 0 /\ d.millis = 0
         /\ AtMost(d, ToSecond(Zero)) <=> d.secs = 0
<1>1. PICK s \in Nat, x \in Group, y \in Group, z \in Group :
        d = [secs |-> s, millis |-> x, micros |-> y, nanos |-> z]
  <2>1. d = [secs |-> d.secs, millis |-> d.millis, micros |-> d.micros, nanos |-> d.nanos]
    BY DEF Duration
  <2> QED
    BY <2>1, DurationFields
<1>2. Zero = [secs |-> 0, millis |-> 0, micros |-> 0, nanos |-> 0]
  BY DEF Zero, Seconds
<1>3. /\ ToMicro(Zero) = [secs |-> 0, millis |-> 0, micros |-> 0, nanos |-> 999]
      /\ ToSecond(Zero) = [secs |-> 0, millis |-> 999, micros |-> 999, nanos |-> 999]
  BY <1>2, EndOfUnit
<1>4. ToMilli(Zero) = [secs |-> 0, millis |-> 0, micros |-> 999, nanos |-> 999]
  <2> DEFINE c == ToMicro(Zero)
  <2>1. c = [secs |-> 0, millis |-> 0, micros |-> 0, nanos |-> 999]
    BY <1>3
  <2>2. ToMilli(Zero) = [c EXCEPT !.micros = 999]
    BY DEF ToMilli
  <2> HIDE DEF c
  <2> QED
    BY <2>1, <2>2
<1>5. AtMost(d, ToMicro(Zero)) <=> d.secs = 0 /\ d.millis = 0 /\ d.micros = 0
  BY <1>1, <1>3 DEF AtMost, Group
<1>6. AtMost(d, ToMilli(Zero)) <=> d.secs = 0 /\ d.millis = 0
  BY <1>1, <1>4 DEF AtMost, Group
<1>7. AtMost(d, ToSecond(Zero)) <=> d.secs = 0
  BY <1>1, <1>3 DEF AtMost, Group
<1> QED
  BY <1>5, <1>6, <1>7

\* What is sent of a time that is not under the unit is not zero.
LEMMA NotZero ==
  ASSUME NEW d, d.secs # 0 \/ d.millis # 0 \/ d.micros # 0
  PROVE  d # Zero
  BY DEF Zero, Seconds

TInv == TimeoutsTypeOK /\ NotifyWaits /\ LockExpires /\ BlocklistExpires

LEMMA ZeroIsDuration == Zero \in Duration
  BY DEF Zero, Seconds, Duration, Group

LEMMA InitTInv == TimeoutsInit => TInv
  BY TimeoutsAssumption, ZeroIsDuration
  DEF TimeoutsInit, TInv, TimeoutsTypeOK, NotifyWaits, LockExpires, BlocklistExpires, Sent

\* What is common to the three calls: one call runs, and sends d or nothing.
LEMMA SendTInv ==
  ASSUME TInv, NEW fits \in BOOLEAN, NEW d \in Duration, SendIf(fits, d),
         Sent("notify")' => NotifyWaits',
         Sent("lock")' => LockExpires',
         Sent("blocklist")' => BlocklistExpires'
  PROVE  TInv'
<1>1. TimeoutsTypeOK'
  BY DEF TInv, TimeoutsTypeOK, SendIf, Arguments
<1> QED
  BY <1>1 DEF TInv, NotifyWaits, LockExpires, BlocklistExpires

\* The calls but lock_exclusive are given a Duration.
LEMMA AskedDuration ==
  ASSUME TInv, api # "lock" \/ asked # NoDuration
  PROVE  asked \in Duration
  BY TimeoutsAssumption DEF TInv, TimeoutsTypeOK, Arguments

LEMMA NotifyTInv == TInv /\ Notify => TInv'
<1> SUFFICES ASSUME TInv, Notify PROVE TInv'
  OBVIOUS
<1> DEFINE s == NotifySeconds(asked)
<1>1. asked \in Duration
  BY AskedDuration DEF Notify
<1>2. s = asked.secs + IF asked.millis > 0 THEN 1 ELSE 0
  BY <1>1, NotifyRounding
<1>3. s \in Nat /\ (s * 1000) \div 1000 = s
  BY <1>1, <1>2, NotifyRounding, DurationFields DEF Group
<1> HIDE DEF s
<1>4. SendIf(s <= MaxU32, Seconds(s)) /\ api = "notify"
  BY <1>3 DEF Notify, s
<1>5. Seconds(s) \in Duration
  BY <1>3 DEF Seconds, Duration, Group
<1>6. UNCHANGED <<api, asked>>
  BY <1>4 DEF SendIf
<1>7. ASSUME Sent("notify")' PROVE NotifyWaits'
  <2>1. granted' = Seconds(s)
    BY <1>4, <1>7 DEF SendIf, Sent
  <2>2. AtMost(Seconds(s), [asked EXCEPT !.secs = @ + 1])
    BY <1>1, <1>2, DurationFields DEF AtMost, Seconds, Duration, Group
  <2>3. AtMost(asked, ToMilli(Seconds(s)))
    BY <1>1, <1>2, DurationFields DEF AtMost, ToMilli, ToMicro, Seconds, Duration, Group
  <2>4. CASE AtMost(asked, ToMilli(Zero))
    <3>1. s = 0
      BY <1>1, <1>2, <2>4, UnderUnit
    <3>2. granted' = Zero
      BY <2>1, <3>1 DEF Zero
    <3> QED
      BY <1>6, <2>4, <3>2 DEF NotifyWaits, AtMost, Zero, Seconds, ToMilli, ToMicro
  <2>5. CASE ~ AtMost(asked, ToMilli(Zero))
    <3>1. s # 0
      <4>1. asked.secs \in Nat /\ asked.millis \in Nat
        <5>1. asked.secs \in Nat /\ asked.millis \in Group
          BY <1>1, DurationFields
        <5>2. Group \subseteq Nat
          BY DEF Group
        <5> QED
          BY <5>1, <5>2
      <4>2. asked.secs # 0 \/ asked.millis # 0
        BY <1>1, <2>5, UnderUnit
      <4> QED
        BY <1>2, <4>1, <4>2
    <3>2. Seconds(s).secs # 0
      BY <3>1 DEF Seconds
    <3>3. granted' # Zero
      BY <2>1, <3>2, NotZero
    <3> QED
      BY <1>6, <2>1, <2>2, <2>3, <2>5, <3>3 DEF NotifyWaits, AtMost, ToMilli, ToMicro, Zero, Seconds
  <2> QED
    BY <2>4, <2>5
<1>8. ~ Sent("lock")' /\ ~ Sent("blocklist")'
  BY <1>4, <1>6 DEF Sent
<1>9. (s <= MaxU32) \in BOOLEAN
  OBVIOUS
<1> QED
  BY <1>4, <1>5, <1>7, <1>8, <1>9, SendTInv

\* None is sent as zero.
LEMMA NoneTInv ==
  ASSUME TInv, LockExclusive, asked = NoDuration
  PROVE  TInv'
<1>1. SendIf(TRUE, Zero) /\ api = "lock" /\ UNCHANGED <<api, asked>>
  BY DEF LockExclusive, SendIf
<1>2. granted' = Zero
  BY <1>1 DEF SendIf
<1>3. LockExpires'
  BY <1>1, <1>2 DEF LockExpires, Zero, Seconds
<1>4. ~ Sent("notify")' /\ ~ Sent("blocklist")'
  BY <1>1 DEF Sent
<1> QED
  BY <1>1, <1>3, <1>4, ZeroIsDuration, SendTInv

LEMMA LeaseTInv ==
  ASSUME TInv, LockExclusive, asked # NoDuration
  PROVE  TInv'
<1> DEFINE d == [asked EXCEPT !.nanos = 0]
<1>1. asked \in Duration /\ d \in Duration
  BY AskedDuration DEF Duration, Group
<1>2. SendIf(asked.secs <= MaxTimeT, d) /\ api = "lock"
  BY DEF LockExclusive
<1>3. UNCHANGED <<api, asked>>
  BY <1>2 DEF SendIf
<1>4. AtMost(d, asked) /\ AtMost(asked, ToMicro(d))
  BY <1>1, Truncation
<1>5. /\ d.secs = asked.secs /\ d.millis = asked.millis /\ d.micros = asked.micros
      /\ d = [secs |-> d.secs, millis |-> d.millis, micros |-> d.micros, nanos |-> 0]
  BY <1>1 DEF Duration
<1>6. ASSUME Sent("lock")' PROVE LockExpires'
  <2>1. granted' = d
    BY <1>2, <1>6 DEF SendIf, Sent
  <2> HIDE DEF d
  <2>2. CASE AtMost(asked, ToMicro(Zero))
    <3>1. d = Zero
      BY <1>1, <1>5, <2>2, UnderUnit DEF Zero, Seconds
    <3> QED
      BY <1>3, <2>1, <2>2, <3>1 DEF LockExpires, AtMost, ToMicro, Zero, Seconds
  <2>3. CASE ~ AtMost(asked, ToMicro(Zero))
    <3>1. d # Zero
      BY <1>1, <1>5, <2>3, UnderUnit, NotZero
    <3> QED
      BY <1>3, <1>4, <2>1, <2>3, <3>1 DEF LockExpires, AtMost, ToMicro, Zero, Seconds
  <2> QED
    BY <2>2, <2>3
<1>7. ~ Sent("notify")' /\ ~ Sent("blocklist")'
  BY <1>2, <1>3 DEF Sent
<1>8. (asked.secs <= MaxTimeT) \in BOOLEAN
  OBVIOUS
<1> QED
  BY <1>1, <1>2, <1>6, <1>7, <1>8, SendTInv

LEMMA BlocklistTInv == TInv /\ BlocklistAdd => TInv'
<1> SUFFICES ASSUME TInv, BlocklistAdd PROVE TInv'
  OBVIOUS
<1> DEFINE d == Seconds(asked.secs)
<1>1. asked \in Duration
  BY AskedDuration DEF BlocklistAdd
<1>2. d \in Duration /\ d.secs = asked.secs
  BY <1>1 DEF Duration, Seconds, Group
<1>3. SendIf(asked.secs <= MaxU32, d) /\ api = "blocklist" /\ UNCHANGED <<api, asked>>
  BY DEF BlocklistAdd, SendIf
<1>4. AtMost(d, asked) /\ AtMost(asked, ToSecond(d))
  BY <1>1, Truncation
<1>5. ASSUME Sent("blocklist")' PROVE BlocklistExpires'
  <2>1. granted' = d
    BY <1>3, <1>5 DEF SendIf, Sent
  <2>2. CASE AtMost(asked, ToSecond(Zero))
    <3>1. d = Zero
      BY <1>1, <2>2, UnderUnit DEF Zero
    <3> QED
      BY <1>3, <2>1, <2>2, <3>1 DEF BlocklistExpires, AtMost, ToSecond, ToMilli, ToMicro, Zero, Seconds
  <2>3. CASE ~ AtMost(asked, ToSecond(Zero))
    <3>1. d # Zero
      BY <1>1, <1>2, <2>3, UnderUnit, NotZero
    <3> HIDE DEF d
    <3> QED
      BY <1>3, <1>4, <2>1, <2>3, <3>1
      DEF BlocklistExpires, AtMost, ToSecond, ToMilli, ToMicro, Zero, Seconds
  <2> QED
    BY <2>2, <2>3
<1>6. ~ Sent("notify")' /\ ~ Sent("lock")'
  BY <1>3 DEF Sent
<1>7. (asked.secs <= MaxU32) \in BOOLEAN
  OBVIOUS
<1> QED
  BY <1>2, <1>3, <1>5, <1>6, <1>7, SendTInv

LEMMA SpecTInv == TimeoutsSpec => []TInv
<1>1. TInv /\ UNCHANGED tvars => TInv'
  BY DEF TInv, tvars, TimeoutsTypeOK, NotifyWaits, LockExpires, BlocklistExpires, Sent
<1>2. TInv /\ TimeoutsNext => TInv'
  BY NotifyTInv, NoneTInv, LeaseTInv, BlocklistTInv DEF TimeoutsNext
<1> QED
  BY <1>1, <1>2, InitTInv, PTL DEF TimeoutsSpec

-----------------------------------------------------------------------------

\* The timeout of a notify is sent as asked, up to a second more or a millisecond less, and
\* left to librados under a millisecond only.
THEOREM NotifyAccuracy == TimeoutsSpec => []NotifyWaits
  BY SpecTInv, PTL DEF TInv

\* A lock has an expiry unless none is asked for or one under a microsecond, and then the one
\* asked for, to the microsecond.
THEOREM LockAccuracy == TimeoutsSpec => []LockExpires
  BY SpecTInv, PTL DEF TInv

\* A blocklist entry stays for the time asked for, to the second, and for the cluster's default
\* only when that is under a second.
THEOREM BlocklistAccuracy == TimeoutsSpec => []BlocklistExpires
  BY SpecTInv, PTL DEF TInv

\* A lock or a blocklist entry gets the time it was asked for, to the unit that is sent, and
\* zero, which means something else, for None and for a time under that unit only.
THEOREM ExpiryAccuracy == TimeoutsSpec => []ExpiresWithinUnit
  BY LockAccuracy, BlocklistAccuracy, PTL DEF ExpiresWithinUnit

-----------------------------------------------------------------------------
(* Buffers: the inductive invariant *)

\* What librados has said of a value, in buffers of these lengths
Tells(v) ==
  \/ /\ answer.ret = "OK" /\ method # "list_pools"
     /\ Fits(v) /\ answer.len = Bytes[v] /\ answer.buffers = Over(method, v)
  \/ /\ answer.ret = "OK" /\ method = "list_pools"
     /\ answer.len["names"] = Bytes[v]["names"] + 1
     /\ Fits(v) => answer.buffers = Over(method, v)
  \/ /\ answer.ret = "ERANGE" /\ method # "list_pools"
     /\ ~ Fits(v) /\ (method = "list_lockers" => answer.len = Bytes[v])

\* An answer is about what was there when it was given, which is there still unless it changed.
AnswerTrue ==
  stage = "answered" =>
    /\ answer.ret = "ENOENT" => Missing \in during
    /\ answer.ret \in {"OK", "ERANGE"} =>
         \E v \in during \ {Missing} : Tells(v) /\ (~ changed => v = found)

BInv == TypeOK /\ found \in during /\ AnswerTrue /\ Snapshot /\ RetryFits /\ BuffersBounded

-----------------------------------------------------------------------------

LEMMA ValueTypes ==
  ASSUME method \in Methods
  PROVE  /\ Start[method] \in Nat \ {0}
         /\ Missing \notin Values[method] /\ Garbage \notin Values[method]
         /\ \A v \in Values[method] : Bytes[v] \in [Fields(method) -> Nat]
         /\ \A v \in Values[method] : \A f \in Fields(method) : Bytes[v][f] \in Nat
         /\ Findable(method) \subseteq Values[method] \cup {Missing}
         /\ method = "list_pools" => Missing \notin Findable(method)
<1>1. /\ Start[method] \in Nat \ {0}
      /\ Missing \notin Values[method] /\ Garbage \notin Values[method]
      /\ \A v \in Values[method] : Bytes[v] \in [Fields(method) -> Nat]
  BY RetryBuffersAssumption
<1>2. \A v \in Values[method] : \A f \in Fields(method) : Bytes[v][f] \in Nat
  BY <1>1
<1> QED
  BY <1>1, <1>2 DEF Findable

LEMMA OneField ==
  /\ Fields("getxattr") = {"value"}
  /\ Fields("list_pools") = {"names"}
  BY DEF Fields

\* A call begins with the first buffers.
LEMMA InitBInv == Init => BInv
<1> SUFFICES ASSUME Init PROVE BInv
  OBVIOUS
<1>1. method \in Methods /\ found \in Findable(method) /\ during = {found}
  BY DEF Init
<1>2. lens \in [Fields(method) -> Nat] /\ \A f \in Fields(method) : lens[f] = Start[method]
  BY <1>1, ValueTypes DEF Init, Over
<1>3. /\ answer.ret = "OK" /\ answer.len \in [Fields(method) -> Nat]
      /\ answer.buffers \in [Fields(method) -> Values[method] \cup {Garbage}]
      /\ outcome.result = "none"
      /\ outcome.content \in [Fields(method) -> Values[method] \cup {Garbage}]
  BY DEF Init, NoAnswer, NoOutcome, Answer, Outcome, Over
<1>4. stage = "ready" /\ retried = FALSE /\ changed = FALSE
  BY DEF Init
<1>5. TypeOK
  BY <1>1, <1>2, <1>3, <1>4 DEF TypeOK
<1>6. BuffersBounded
  BY <1>1, <1>2, ValueTypes DEF BuffersBounded
<1> QED
  BY <1>1, <1>3, <1>4, <1>5, <1>6 DEF BInv, AnswerTrue, Snapshot, RetryFits, Ok

LEMMA CallBInv ==
  ASSUME BInv, Call
  PROVE  BInv'
<1>1. PICK m \in Methods : \E v \in Findable(m) :
        /\ method' = m /\ found' = v /\ lens' = Over(m, Start[m]) /\ answer' = NoAnswer(m)
        /\ outcome' = NoOutcome(m) /\ during' = {v}
  BY DEF Call
<1>2. /\ method' \in Methods /\ found' \in Findable(method') /\ during' = {found'}
      /\ lens' = Over(method', Start[method']) /\ answer' = NoAnswer(method')
      /\ outcome' = NoOutcome(method')
  BY <1>1
<1>3. stage' = "ready" /\ retried' = FALSE /\ changed' = FALSE
  BY DEF Call
<1>4. Init'
  BY <1>2, <1>3 DEF Init
<1> QED
  BY <1>4, InitBInv, PTL

\* What others change leaves the answer true of what was there.
LEMMA ChangeBInv ==
  ASSUME BInv, Change
  PROVE  BInv'
<1> USE DEF BInv
<1>1. /\ found' \in Findable(method) /\ changed' = TRUE /\ during' = during \cup {found'}
      /\ UNCHANGED <<method, stage, lens, answer, outcome, retried>>
  BY DEF Change, callvars
<1>2. TypeOK'
  BY <1>1 DEF TypeOK
<1>3. AnswerTrue'
  BY <1>1 DEF AnswerTrue, Tells, Fits
<1>4. Snapshot' /\ RetryFits' /\ BuffersBounded'
  BY <1>1 DEF Snapshot, RetryFits, BuffersBounded
<1> QED
  BY <1>1, <1>2, <1>3, <1>4

LEMMA AnsweredBInv ==
  ASSUME BInv, NEW a, Answered(a),
         a.ret \in {"OK", "ERANGE", "ENOENT", "EIO"},
         a.len \in [Fields(method) -> Nat],
         a.buffers \in [Fields(method) -> Values[method] \cup {Garbage}],
         a.ret = "ENOENT" => found = Missing,
         a.ret \in {"OK", "ERANGE"} => found # Missing /\ Tells(found)'
  PROVE  BInv'
<1> USE DEF BInv
<1>1. /\ stage' = "answered" /\ answer' = a /\ changed' = FALSE
      /\ UNCHANGED <<found, method, lens, outcome, retried, during>>
  BY DEF Answered
<1>2. TypeOK'
  BY <1>1 DEF TypeOK
<1>3. AnswerTrue'
  BY <1>1 DEF AnswerTrue, Tells, Fits
<1>4. Snapshot' /\ RetryFits' /\ BuffersBounded'
  BY <1>1 DEF Snapshot, RetryFits, BuffersBounded
<1> QED
  BY <1>1, <1>2, <1>3, <1>4

LEMMA RadosBInv ==
  ASSUME BInv, Rados
  PROVE  BInv'
<1>1. TypeOK /\ method \in Methods /\ found \in Findable(method)
  BY DEF BInv, TypeOK
<1>2. /\ found # Missing => found \in Values[method] /\ Bytes[found] \in [Fields(method) -> Nat]
      /\ method = "list_pools" => found # Missing
  BY <1>1, ValueTypes
<1>3. /\ Over(method, Garbage) \in [Fields(method) -> Values[method] \cup {Garbage}]
      /\ found # Missing =>
           Over(method, found) \in [Fields(method) -> Values[method] \cup {Garbage}]
      /\ lens \in [Fields(method) -> Nat]
  BY <1>1, <1>2 DEF Over, TypeOK
<1>4. /\ Filled.ret = "OK" /\ Filled.len = Bytes[found]
      /\ Filled.buffers = Over(method, found)
      /\ Filled = [ret |-> "OK", len |-> Bytes[found], buffers |-> Over(method, found)]
  BY DEF Filled, Answer
<1>5. ASSUME NEW a, Answered(a)
      PROVE  answer' = a /\ UNCHANGED <<method, lens>>
  BY <1>5 DEF Answered
<1>6. CASE Fails
  <2>1. PICK e \in {"EIO"} \cup (IF found = Missing THEN {"ENOENT"} ELSE {}) :
          Answered(Answer(e, lens, Over(method, Garbage)))
    BY <1>6 DEF Fails
  <2> DEFINE a == Answer(e, lens, Over(method, Garbage))
  <2>2. a.ret = e /\ a.len = lens /\ a.buffers = Over(method, Garbage)
    BY DEF Answer
  <2>3. e \in {"EIO", "ENOENT"} /\ (e = "ENOENT" => found = Missing)
    OBVIOUS
  <2> HIDE DEF a
  <2> QED
    BY <1>3, <2>1, <2>2, <2>3, AnsweredBInv DEF a
<1>7. CASE RadosGetxattr \/ RadosListLockers
  <2>1. method \in {"getxattr", "list_lockers"} /\ found # Missing
    BY <1>7 DEF RadosGetxattr, RadosListLockers
  <2>2. CASE Fits(found)
    <3>1. Answered(Filled)
      BY <1>7, <2>2 DEF RadosGetxattr, RadosListLockers
    <3>2. Tells(found)'
      BY <1>4, <1>5, <2>1, <2>2, <3>1 DEF Tells, Fits, Over, Answered
    <3> QED
      BY <1>2, <1>3, <1>4, <2>1, <3>1, <3>2, AnsweredBInv
  <2>3. CASE ~ Fits(found)
    <3>1. PICK a : /\ Answered(a) /\ a.ret = "ERANGE" /\ a.len \in [Fields(method) -> Nat]
                   /\ a.buffers = Over(method, Garbage)
                   /\ method = "list_lockers" => a.len = Bytes[found]
      <4>1. CASE RadosGetxattr
        <5>1. Answered(Answer("ERANGE", lens, Over(method, Garbage)))
          BY <2>3, <4>1 DEF RadosGetxattr
        <5> QED
          BY <1>3, <4>1, <5>1 DEF RadosGetxattr, Answer
      <4>2. CASE RadosListLockers
        <5>1. Answered(Answer("ERANGE", Bytes[found], Over(method, Garbage)))
          BY <2>3, <4>2 DEF RadosListLockers
        <5> QED
          BY <1>2, <2>1, <5>1 DEF Answer
      <4> QED
        BY <1>7, <4>1, <4>2
    <3>2. Tells(found)'
      BY <1>5, <2>1, <2>3, <3>1 DEF Tells, Fits, Over, Answered
    <3> QED
      BY <1>3, <2>1, <3>1, <3>2, AnsweredBInv
  <2> QED
    BY <2>2, <2>3
<1>8. CASE RadosPoolList
  <2> DEFINE n == [f \in Fields(method) |-> Bytes[found][f] + 1]
             b == Over(method, IF Fits(found) THEN found ELSE Garbage)
             a == Answer("OK", n, b)
  <2>1. method = "list_pools" /\ found # Missing /\ Answered(a)
    BY <1>2, <1>8 DEF RadosPoolList
  <2>2. a.ret = "OK" /\ a.len = n /\ a.buffers = b
    BY DEF Answer
  <2>3. Bytes[found] \in [Fields(method) -> Nat] /\ Fields(method) = {"names"}
    BY <1>2, <2>1, OneField
  <2>4. n \in [Fields(method) -> Nat] /\ n["names"] = Bytes[found]["names"] + 1
    BY <2>3
  <2>5. /\ b \in [Fields(method) -> Values[method] \cup {Garbage}]
        /\ Fits(found) => b = Over(method, found)
    BY <1>3, <2>1
  <2> HIDE DEF n, b, a
  <2>6. Tells(found)'
    BY <1>5, <2>1, <2>2, <2>4, <2>5 DEF Tells, Fits, Over, Answered
  <2> QED
    BY <2>1, <2>2, <2>4, <2>5, <2>6, AnsweredBInv
<1> QED
  BY <1>6, <1>7, <1>8 DEF Rados

\* A retry fits what the last answer was about, if that is there still.
LEMMA RetryBInv ==
  ASSUME BInv, NEW newLens, Retry(newLens),
         newLens \in [Fields(method) -> Nat],
         method # "getxattr" =>
           \E v \in during \ {Missing} : newLens = Bytes[v] /\ (~ changed => v = found),
         \A f \in Fields(method) :
           \/ newLens[f] <= Start[method]
           \/ \E v \in during \ {Missing} : newLens[f] < 2 * Bytes[v][f]
  PROVE  BInv'
<1> USE DEF BInv
<1>1. /\ stage' = "ready" /\ lens' = newLens
      /\ UNCHANGED <<found, method, answer, outcome, changed, during>>
  BY DEF Retry
<1>2. TypeOK'
  BY <1>1 DEF TypeOK, Retry
<1>3. AnswerTrue' /\ Snapshot' /\ BuffersBounded'
  BY <1>1 DEF AnswerTrue, Snapshot, BuffersBounded
<1>4. RetryFits'
  <2> SUFFICES ASSUME ~ changed, method # "getxattr", found # Missing,
                      NEW f \in Fields(method)
               PROVE  Bytes[found][f] <= newLens[f]
    BY <1>1 DEF RetryFits, Fits
  <2>1. newLens = Bytes[found]
    OBVIOUS
  <2>2. found \in Values[method]
    BY ValueTypes DEF TypeOK
  <2> QED
    BY <2>1, <2>2, ValueTypes DEF TypeOK
<1> QED
  BY <1>1, <1>2, <1>3, <1>4

LEMMA ReturnBInv ==
  ASSUME BInv, NEW result, NEW content, Return(result, content),
         result \in {Ok, "NotFound", "EIO"},
         content \in [Fields(method) -> Values[method] \cup {Garbage}],
         result = Ok => \E v \in during : \A f \in Fields(method) : content[f] = v,
         result = "NotFound" => Missing \in during
  PROVE  BInv'
<1> USE DEF BInv
<1>1. /\ stage' = "idle" /\ outcome'.result = result /\ outcome'.content = content
      /\ UNCHANGED <<found, method, lens, answer, retried, changed, during>>
  BY DEF Return, Outcome
<1>2. TypeOK'
  BY <1>1 DEF TypeOK
<1>3. AnswerTrue' /\ Snapshot' /\ BuffersBounded' /\ RetryFits'
  BY <1>1 DEF AnswerTrue, Snapshot, BuffersBounded, RetryFits, Ok
<1> QED
  BY <1>1, <1>2, <1>3

\* What is sliced out of buffers that fit is all of the value.
LEMMA FinishBInv ==
  ASSUME BInv, NEW len, Finish(len),
         answer.ret \in {"OK", "ENOENT", "EIO"},
         answer.ret = "OK" =>
           \E v \in during \ {Missing} :
             /\ Fits(v) /\ answer.buffers = Over(method, v)
             /\ \A f \in Fields(method) : len[f] = Bytes[v][f]
  PROVE  BInv'
<1> DEFINE content == [f \in Fields(method) |->
                         IF answer.ret = "OK" THEN Slice(f, len[f]) ELSE Garbage]
<1>1. Return(CheckErr(answer.ret), content) /\ stage = "answered"
  BY DEF Finish, Return
<1>2. method \in Methods /\ during \in SUBSET Findable(method)
  BY DEF BInv, TypeOK
<1>3. /\ CheckErr("OK") = "Ok" /\ CheckErr("ENOENT") = "NotFound" /\ CheckErr("EIO") = "EIO"
  BY DEF CheckErr, Ok
<1>4. CASE answer.ret = "OK"
  <2>1. PICK v \in during \ {Missing} :
          /\ Fits(v) /\ answer.buffers = Over(method, v)
          /\ \A f \in Fields(method) : len[f] = Bytes[v][f]
    BY <1>4
  <2>2. v \in Values[method] /\ v # Garbage
    BY <1>2, <2>1, ValueTypes
  <2>3. \A f \in Fields(method) : Slice(f, len[f]) = v
    BY <2>1, <2>2 DEF Slice, Fits, Over
  <2>4. content = [f \in Fields(method) |-> v]
    BY <1>4, <2>3
  <2> HIDE DEF content
  <2> QED
    BY <1>1, <1>3, <1>4, <2>1, <2>2, <2>4, ReturnBInv DEF Ok
<1>5. CASE answer.ret \in {"ENOENT", "EIO"}
  <2>1. content = [f \in Fields(method) |-> Garbage]
    BY <1>5
  <2> HIDE DEF content
  <2>2. content \in [Fields(method) -> Values[method] \cup {Garbage}]
    BY <2>1
  <2>3. answer.ret = "ENOENT" => Missing \in during
    BY <1>1 DEF BInv, AnswerTrue
  <2> QED
    BY <1>1, <1>3, <1>5, <2>2, <2>3, ReturnBInv DEF Ok
<1> QED
  BY <1>4, <1>5

LEMMA StepBInv ==
  ASSUME BInv, Step
  PROVE  BInv'
<1> USE DEF BInv
<1>1. /\ method \in Methods /\ during \in SUBSET Findable(method)
      /\ lens \in [Fields(method) -> Nat] /\ answer.len \in [Fields(method) -> Nat]
      /\ answer.ret \in {"OK", "ERANGE", "ENOENT", "EIO"}
  BY DEF TypeOK
<1>2. stage = "answered"
  BY DEF Step, Getxattr, ListLockers, ListPools, Retry, Finish, Return
<1>3. CASE answer.ret \in {"ENOENT", "EIO"}
  <2>1. PICK len : Finish(len)
    BY <1>3 DEF Step, Getxattr, ListLockers, ListPools
  <2> QED
    BY <1>3, <2>1, FinishBInv
<1>4. CASE answer.ret \in {"OK", "ERANGE"}
  <2>1. PICK v \in during \ {Missing} : Tells(v) /\ (~ changed => v = found)
    BY <1>2, <1>4 DEF AnswerTrue
  <2>2. /\ v \in Values[method] /\ Bytes[v] \in [Fields(method) -> Nat]
        /\ \A f \in Fields(method) : Bytes[v][f] \in Nat
        /\ Start[method] \in Nat \ {0}
    BY <1>1, <2>1, ValueTypes
  <2>3. CASE method = "getxattr" /\ answer.ret = "ERANGE"
    <3>1. Retry(Doubled)
      BY <2>3 DEF Step, Getxattr, ListLockers, ListPools
    <3>2. Fields(method) = {"value"} /\ lens["value"] < Bytes[v]["value"]
      BY <1>1, <2>1, <2>2, <2>3, OneField DEF Tells, Fits
    <3>3. Doubled \in [Fields(method) -> Nat] /\ Doubled["value"] < 2 * Bytes[v]["value"]
      BY <1>1, <2>2, <3>2 DEF Doubled
    <3> QED
      BY <2>1, <2>3, <3>1, <3>2, <3>3, RetryBInv
  <2>4. CASE method = "list_lockers" /\ answer.ret = "ERANGE"
    <3>1. Retry(answer.len) /\ answer.len = Bytes[v]
      BY <2>1, <2>4 DEF Step, Getxattr, ListLockers, ListPools, Replaced, Tells
    <3>2. \A f \in Fields(method) : Bytes[v][f] <= Start[method] \/ Bytes[v][f] < 2 * Bytes[v][f]
      BY <2>2
    <3> QED
      BY <2>1, <2>2, <3>1, <3>2, RetryBInv
  <2>5. CASE method # "list_pools" /\ answer.ret = "OK"
    <3>1. Finish(answer.len)
      BY <2>5 DEF Step, Getxattr, ListLockers, ListPools
    <3>2. Fits(v) /\ answer.len = Bytes[v] /\ answer.buffers = Over(method, v)
      BY <2>1, <2>5 DEF Tells
    <3> QED
      BY <2>1, <2>5, <3>1, <3>2, FinishBInv
  <2>6. CASE method = "list_pools"
    <3>1. /\ answer.ret = "OK" /\ answer.len["names"] = Bytes[v]["names"] + 1
          /\ Fits(v) => answer.buffers = Over(method, v)
      BY <2>1, <2>6 DEF Tells
    <3>2. Fields(method) = {"names"}
      BY <2>6, OneField
    <3>3. Needed["names"] = Bytes[v]["names"]
      BY <2>2, <3>1, <3>2 DEF Needed
    <3>4. Needed = Bytes[v]
      BY <2>2, <3>2, <3>3 DEF Needed
    <3>5. CASE Needed["names"] > lens["names"]
      <4>1. Retry(Bytes[v])
        BY <2>6, <3>1, <3>4, <3>5 DEF Step, Getxattr, ListLockers, ListPools
      <4>2. \A f \in Fields(method) :
              Bytes[v][f] <= Start[method] \/ Bytes[v][f] < 2 * Bytes[v][f]
        BY <2>2
      <4> QED
        BY <2>1, <2>2, <4>1, <4>2, RetryBInv
    <3>6. CASE ~ (Needed["names"] > lens["names"])
      <4>1. Finish(Bytes[v])
        BY <2>6, <3>1, <3>4, <3>6 DEF Step, Getxattr, ListLockers, ListPools
      <4>2. Fits(v)
        BY <1>1, <2>2, <3>2, <3>3, <3>6 DEF Fits
      <4> QED
        BY <2>1, <3>1, <4>1, <4>2, FinishBInv
    <3> QED
      BY <3>5, <3>6
  <2>7. method \in {"getxattr", "list_lockers", "list_pools"}
    BY <1>1 DEF Methods
  <2> QED
    BY <1>4, <2>3, <2>4, <2>5, <2>6, <2>7
<1> QED
  BY <1>1, <1>3, <1>4

LEMMA SpecBInv == Spec => []BInv
<1>1. Init => BInv
  BY InitBInv
<1>2. BInv /\ [Next]_vars => BInv'
  <2> SUFFICES ASSUME BInv, [Next]_vars PROVE BInv'
    OBVIOUS
  <2>1. CASE UNCHANGED vars
    BY <2>1 DEF vars, callvars, BInv, TypeOK, AnswerTrue, Tells, Fits,
       Snapshot, RetryFits, BuffersBounded
  <2> QED
    BY <2>1, RadosBInv, StepBInv, ChangeBInv, CallBInv DEF Next
<1> QED
  BY <1>1, <1>2, PTL DEF Spec

\* Whatever others change meanwhile, getxattr, list_lockers and list_pools return all of one
\* value that was there during the call.
THEOREM RetriesReturnSnapshots == Spec => []Snapshot
<1>1. BInv => Snapshot
  BY DEF BInv
<1> QED
  BY <1>1, SpecBInv, PTL

\* Their buffers never grow beyond twice what was needed, and a retry is for what was found.
THEOREM RetriesFitBuffers == Spec => []BuffersFit
<1>1. BInv => BuffersFit
  BY DEF BInv, BuffersFit
<1> QED
  BY <1>1, SpecBInv, PTL

=============================================================================

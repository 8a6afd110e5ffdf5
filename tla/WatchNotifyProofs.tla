------------------------- MODULE WatchNotifyProofs -------------------------
(***************************************************************************)
(* Theorems about WatchNotify for any number of watches and of calls of    *)
(* IoCtx::notify.  What Watch alone guarantees is taken from WatchProofs:  *)
(* every step of WatchNotify is one of Watch or leaves its variables alone.*)
(***************************************************************************)
EXTENDS WatchNotify, TLAPS

WP == INSTANCE WatchProofs

LEMMA StepIsWatchStep == [Next]_vars => [W!Next]_W!vars
<1> SUFFICES ASSUME [Next]_vars PROVE [W!Next]_W!vars
  OBVIOUS
<1> USE DEF W!Next, W!OwnerStep, W!ObjecterStep, W!StrandStep, W!vars, wvars
<1>1. CASE UNCHANGED vars
  BY <1>1 DEF vars
<1>2. ASSUME NEW w \in Watches,
             OpenSucceeds(w) \/ WatchStep(w) \/ DropStep(w) \/ OsdWatches(w) \/ OsdForgets(w)
      PROVE  [W!Next]_W!vars
  BY <1>2 DEF OpenSucceeds, WatchStep, DropStep, OsdWatches, OsdForgets
<1>3. ASSUME NEW w \in Watches, NEW n \in Notices, Deliver(w, n) \/ AckArrives(w, n)
      PROVE  [W!Next]_W!vars
  BY <1>3 DEF Deliver, AckArrives
<1>4. ASSUME NEW n \in Notices,
             Notify(n) \/ Completes(n) \/ Expires(n) \/ Fails(n) \/ Error(n) \/ Decode(n)
      PROVE  [W!Next]_W!vars
  BY <1>4 DEF Notify, Completes, Expires, Fails, Returns, Error, Decode
<1>5. CASE StrandStep \/ NotifyAck \/ Terminated
  BY <1>5 DEF StrandStep, NotifyAck, Terminated, W!Terminated
<1> QED
  BY <1>1, <1>2, <1>3, <1>4, <1>5 DEF Next

\* The watches behave under IoCtx::notify as they do alone.
THEOREM NotifiedWatches == Spec => W!Spec
  BY StepIsWatchStep, PTL DEF Spec, W!Spec, Init

LEMMA SpecWatchInv == Spec => []WP!IInv
<1>1. WP!Spec => []WP!IInv
  BY WatchNotifyAssumption, WP!SpecIInv
<1>2. W!Init => WP!Init
  BY DEF W!Init, WP!Init
<1>3. [W!Next]_W!vars => [WP!Next]_WP!vars
  BY DEF W!Next, WP!Next, W!OwnerStep, WP!OwnerStep, W!ObjecterStep, WP!ObjecterStep,
     W!StrandStep, WP!StrandStep, W!Terminated, WP!Terminated, W!Open, WP!Open,
     W!OpenSucceeds, WP!OpenSucceeds, W!OpenFails, WP!OpenFails, W!BeginDrop, WP!BeginDrop,
     W!BeginDropInCallback, WP!BeginDropInCallback, W!UnwatchReturns, WP!UnwatchReturns,
     W!Flush, WP!Flush, W!Reclaim, WP!Reclaim, W!DropFields, WP!DropFields, W!Register,
     WP!Register, W!CancelLinger, WP!CancelLinger, W!DispatchError, WP!DispatchError,
     W!DispatchNotice, WP!DispatchNotice, W!StartCallback, WP!StartCallback, W!RunFlush,
     WP!RunFlush, W!NotifyAck, WP!NotifyAck, W!OnErrorReturns, WP!OnErrorReturns,
     W!OnNotifyReturns, WP!OnNotifyReturns, W!UserCodeReturns, WP!UserCodeReturns, W!Goto,
     WP!Goto, W!Outcome, WP!Outcome, W!ReplyFor, WP!ReplyFor, W!IsCallback, WP!IsCallback,
     W!NotifyEvent, WP!NotifyEvent, W!ErrorEvent, WP!ErrorEvent, W!FlushEvent, WP!FlushEvent,
     W!histories, WP!histories, W!vars, WP!vars
<1> QED
  BY <1>1, <1>2, <1>3, NotifiedWatches, PTL DEF W!Spec, WP!Spec

-----------------------------------------------------------------------------
(* The inductive invariant *)

OwnTypes ==
  /\ osdWatch \in SUBSET Watches
  /\ asked \in [Notices -> SUBSET Watches]
  /\ missing \in [Notices -> SUBSET Watches]
  /\ acks \in [Notices -> SUBSET (Watches \X Reply)]
  /\ sent \in SUBSET (Watches \X Notices \X Reply)
  /\ stage \in [Notices -> {"new", "waiting", "returned", "done"}]
  /\ ret \in [Notices -> {"none", "ok", "ETIMEDOUT", "error"}]
  /\ reply \in [Notices -> {"none", "null", "filled", "malformed"}]
  /\ freed \in [Notices -> Nat]
  /\ response \in [Notices -> Response]

\* A watch the OSD has is past rados_watch3 or registered; one it had is not opened again.
OsdFollowsOwner ==
  /\ \A w \in osdWatch : pc[w] # "new" /\ (pc[w] = "opening" => w \in linger)
  /\ \A n \in Notices : \A w \in asked[n] :
       pc[w] # "new" /\ (pc[w] = "opening" => w \in osdWatch)

\* Each watch asked and not forgotten is missing or has one ack.
MissingOrAcked ==
  \A n \in Notices :
    /\ \A w \in asked[n] \cap osdWatch : w \in missing[n] \/ \E r \in Reply : <<w, r>> \in acks[n]
    /\ \A w \in missing[n], r \in Reply : <<w, r>> \notin acks[n]
    /\ \A w \in Watches, r, q \in Reply : <<w, r>> \in acks[n] /\ <<w, q>> \in acks[n] => r = q

AcksBacked ==
  /\ \A n \in Notices, w \in Watches, r \in Reply : <<w, r>> \in acks[n] => <<w, n, r>> \in sent
  /\ \A n \in Notices, w \in Watches, r \in Reply : <<w, n, r>> \in sent => acked[w][n] > 0

CallStage(n) ==
  /\ stage[n] = "new" => asked[n] = {} /\ missing[n] = {} /\ acks[n] = {}
  /\ stage[n] \in {"new", "waiting"} => ret[n] = "none"
  /\ stage[n] # "done" => response[n].kind = "none"
  /\ stage[n] \in {"returned", "done"} =>
       /\ ret[n] = "ETIMEDOUT" => missing[n] # {}
       /\ reply[n] = "null" /\ ret[n] # "error" => acks[n] = {} /\ missing[n] = {}
       /\ reply[n] # "none"
  /\ freed[n] = (IF stage[n] = "done" THEN 1 ELSE 0)
  /\ stage[n] = "done" =>
       IF ret[n] = "error" \/ reply[n] = "malformed" THEN response[n].kind = "error"
       ELSE response[n] = Ok(acks[n], missing[n])

NInv ==
  /\ OwnTypes
  /\ OsdFollowsOwner
  /\ MissingOrAcked
  /\ AcksBacked
  /\ \A n \in Notices : CallStage(n)

LEMMA InitNInv == Init => NInv
  BY DEF Init, W!Init, NInv, OwnTypes, OsdFollowsOwner, MissingOrAcked, AcksBacked, CallStage,
     Response, Nothing

\* What a step of the watches changes, as far as the OSD and the notifiers can tell.
WatchEffect ==
  /\ \A w \in Watches :
       /\ pc'[w] = "new" => pc[w] = "new"
       /\ pc'[w] = "opening" => pc[w] \in {"new", "opening"}
       /\ pc'[w] = "opening" /\ w \in linger => w \in linger'
       /\ \A n \in Notices : acked[w][n] > 0 => acked'[w][n] > 0

LEMMA WatchEffects ==
  ASSUME WP!TypeOK, WP!HeadIsRunning,
         \/ \E w \in Watches : OpenSucceeds(w) \/ WatchStep(w) \/ DropStep(w)
         \/ \E w \in Watches, n \in Notices : Deliver(w, n)
         \/ StrandStep
         \/ NotifyAck
  PROVE  WatchEffect
<1> USE DEF WatchEffect, W!Goto, WP!TypeOK
<1>1. ASSUME NEW w \in Watches, OpenSucceeds(w) PROVE WatchEffect
  BY <1>1 DEF OpenSucceeds, W!OpenSucceeds, W!histories
<1>2. ASSUME NEW w \in Watches, WatchStep(w) PROVE WatchEffect
  BY <1>2 DEF WatchStep, W!Open, W!Register, W!OpenFails, W!BeginDrop, W!DispatchError, W!histories
<1>3. ASSUME NEW w \in Watches, DropStep(w) PROVE WatchEffect
  BY <1>3 DEF DropStep, W!CancelLinger, W!UnwatchReturns, W!Flush, W!Reclaim, W!DropFields, W!histories
<1>4. ASSUME NEW w \in Watches, NEW n \in Notices, Deliver(w, n) PROVE WatchEffect
  BY <1>4 DEF Deliver, W!DispatchNotice
<1>5. CASE StrandStep
  BY <1>5 DEF StrandStep, W!StartCallback, W!RunFlush, W!OnErrorReturns, W!OnNotifyReturns, W!histories
<1>6. CASE NotifyAck
  BY <1>6 DEF NotifyAck, W!NotifyAck
<1> QED
  BY <1>1, <1>2, <1>3, <1>4, <1>5, <1>6

\* A step of the watches that sends nothing.
LEMMA QuietNInv ==
  ASSUME NInv, WatchEffect, UNCHANGED <<osdvars, sent, callvars>>
  PROVE  NInv'
<1> USE DEF NInv, osdvars, callvars
<1>1. OwnTypes' /\ MissingOrAcked'
  BY DEF OwnTypes, MissingOrAcked
<1>2. OsdFollowsOwner'
  BY DEF OwnTypes, OsdFollowsOwner, WatchEffect
<1>3. AcksBacked'
  BY DEF OwnTypes, AcksBacked, WatchEffect
<1>4. \A n \in Notices : CallStage(n)'
  BY DEF CallStage
<1> QED
  BY <1>1, <1>2, <1>3, <1>4

LEMMA AckNInv ==
  ASSUME NInv, WP!TypeOK, WP!HeadIsRunning, WatchEffect, NotifyAck
  PROVE  NInv'
<1> USE DEF NInv, osdvars, callvars, NotifyAck
<1> DEFINE e == Head(strand)
<1>1. callback \in Reply /\ e.watch \in Watches /\ e.notice \in Notices
  <2>1. strand # <<>> /\ e.kind = "notify"
    BY DEF WP!HeadIsRunning, W!NotifyAck
  <2>2. e \in WP!Event
    BY <2>1 DEF WP!TypeOK
  <2> QED
    BY <2>1, <2>2 DEF WP!Event, W!NotifyAck, Reply
<1>2. OwnTypes' /\ MissingOrAcked'
  <2>1. <<e.watch, e.notice, callback>> \in Watches \X Notices \X Reply
    BY <1>1
  <2>2. sent' \in SUBSET (Watches \X Notices \X Reply)
    BY <2>1 DEF OwnTypes
  <2> QED
    BY <2>2 DEF OwnTypes, MissingOrAcked
<1>3. OsdFollowsOwner'
  BY DEF OwnTypes, OsdFollowsOwner, WatchEffect
<1>4. acked'[e.watch][e.notice] > 0
  BY <1>1 DEF WP!TypeOK, W!NotifyAck
<1>5. AcksBacked'
  BY <1>1, <1>4 DEF OwnTypes, AcksBacked, WatchEffect
<1>6. \A n \in Notices : CallStage(n)'
  BY DEF CallStage
<1> QED
  BY <1>2, <1>3, <1>5, <1>6

LEMMA OsdWatchesNInv ==
  ASSUME NInv, NEW w \in Watches, OsdWatches(w)
  PROVE  NInv'
<1> USE DEF NInv, callvars, wvars, OsdWatches
<1>1. OwnTypes'
  BY DEF OwnTypes
<1>2. OsdFollowsOwner'
  BY DEF OsdFollowsOwner
<1>3. MissingOrAcked'
  BY DEF OwnTypes, OsdFollowsOwner, MissingOrAcked
<1>4. AcksBacked' /\ \A n \in Notices : CallStage(n)'
  BY DEF AcksBacked, CallStage
<1> QED
  BY <1>1, <1>2, <1>3, <1>4

LEMMA OsdForgetsNInv ==
  ASSUME NInv, NEW w \in Watches, OsdForgets(w)
  PROVE  NInv'
<1> USE DEF NInv, callvars, wvars, OsdForgets
<1>1. OwnTypes'
  BY DEF OwnTypes
<1>2. OsdFollowsOwner'
  BY DEF OsdFollowsOwner
<1>3. MissingOrAcked'
  BY DEF OwnTypes, MissingOrAcked
<1>4. AcksBacked' /\ \A n \in Notices : CallStage(n)'
  BY DEF OwnTypes, AcksBacked, CallStage
<1> QED
  BY <1>1, <1>2, <1>3, <1>4

LEMMA AckArrivesNInv ==
  ASSUME NInv, NEW w \in Watches, NEW n \in Notices, AckArrives(w, n)
  PROVE  NInv'
<1> USE DEF NInv, callvars, wvars, AckArrives
<1>1. PICK r \in Reply : <<w, n, r>> \in sent /\ acks' = [acks EXCEPT ![n] = @ \cup {<<w, r>>}]
  OBVIOUS
<1>2. OwnTypes'
  BY <1>1 DEF OwnTypes
<1>3. OsdFollowsOwner'
  BY DEF OsdFollowsOwner
<1>4. MissingOrAcked'
  BY <1>1 DEF OwnTypes, MissingOrAcked
<1>5. AcksBacked'
  BY <1>1 DEF OwnTypes, AcksBacked
<1>6. \A m \in Notices : CallStage(m)'
  BY <1>1 DEF OwnTypes, CallStage
<1> QED
  BY <1>2, <1>3, <1>4, <1>5, <1>6

LEMMA ReturnsNInv ==
  ASSUME NInv, NEW n \in Notices, Completes(n) \/ Expires(n) \/ Fails(n)
  PROVE  NInv'
<1> USE DEF NInv, osdvars, wvars, Completes, Expires, Fails, Returns
<1>1. OwnTypes'
  BY DEF OwnTypes
<1>2. OsdFollowsOwner' /\ MissingOrAcked' /\ AcksBacked'
  BY DEF OsdFollowsOwner, MissingOrAcked, AcksBacked
<1>3. \A m \in Notices : CallStage(m)'
  BY DEF OwnTypes, CallStage
<1> QED
  BY <1>1, <1>2, <1>3

LEMMA NotifyNInv ==
  ASSUME NInv, NEW n \in Notices, Notify(n)
  PROVE  NInv'
<1> USE DEF NInv, wvars, Notify
<1>1. OwnTypes'
  BY DEF OwnTypes
<1>2. OsdFollowsOwner'
  BY DEF OwnTypes, OsdFollowsOwner
<1>3. MissingOrAcked'
  BY DEF OwnTypes, MissingOrAcked, CallStage
<1>4. AcksBacked'
  BY DEF AcksBacked
<1>5. \A m \in Notices : CallStage(m)'
  BY DEF OwnTypes, CallStage
<1> QED
  BY <1>1, <1>2, <1>3, <1>4, <1>5

LEMMA DecodedResponse ==
  ASSUME NInv, NEW n \in Notices, stage[n] = "returned", ret[n] # "error"
  PROVE  /\ Decoded(n) \in Response
         /\ IF reply[n] = "malformed" THEN Decoded(n).kind = "error"
            ELSE Decoded(n) = Ok(acks[n], missing[n])
<1>1. reply[n] \in {"null", "filled", "malformed"}
  BY DEF NInv, OwnTypes, CallStage
<1>2. acks[n] \in SUBSET (Watches \X Reply) /\ missing[n] \in SUBSET Watches
  BY DEF NInv, OwnTypes
<1>3. reply[n] = "null" => acks[n] = {} /\ missing[n] = {}
  BY DEF NInv, CallStage
<1> QED
  BY <1>1, <1>2, <1>3 DEF Decoded, Ok, Nothing, Response

LEMMA CallEndsNInv ==
  ASSUME NInv, NEW n \in Notices, Error(n) \/ Decode(n)
  PROVE  NInv'
<1> USE DEF NInv, osdvars, wvars
<1>1. OsdFollowsOwner' /\ MissingOrAcked' /\ AcksBacked'
  BY DEF OsdFollowsOwner, MissingOrAcked, AcksBacked, Error, Decode
<1>2. CASE Error(n)
  <2>1. Nothing("error") \in Response /\ Nothing("error").kind = "error"
    BY DEF Nothing, Response
  <2>2. OwnTypes'
    BY <1>2, <2>1 DEF OwnTypes, Error
  <2>3. \A m \in Notices : CallStage(m)'
    BY <1>2, <2>1 DEF OwnTypes, CallStage, Error
  <2> QED
    BY <1>1, <2>2, <2>3
<1>3. CASE Decode(n)
  <2>1. /\ Decoded(n) \in Response
        /\ IF reply[n] = "malformed" THEN Decoded(n).kind = "error"
           ELSE Decoded(n) = Ok(acks[n], missing[n])
    BY <1>3, DecodedResponse DEF Decode
  <2>2. OwnTypes'
    BY <1>3, <2>1 DEF OwnTypes, Decode
  <2>3. \A m \in Notices : CallStage(m)'
    BY <1>3, <2>1 DEF OwnTypes, CallStage, Decode
  <2> QED
    BY <1>1, <2>2, <2>3
<1> QED
  BY <1>2, <1>3

LEMMA NextNInv == WP!IInv /\ NInv /\ [Next]_vars => NInv'
<1> SUFFICES ASSUME WP!IInv, NInv, [Next]_vars PROVE NInv'
  OBVIOUS
<1>1. WP!TypeOK /\ WP!HeadIsRunning
  BY DEF WP!IInv
<1>2. ASSUME UNCHANGED vars PROVE NInv'
  BY <1>2 DEF vars, wvars, osdvars, callvars, NInv, OwnTypes, OsdFollowsOwner, MissingOrAcked,
     AcksBacked, CallStage
<1>3. ASSUME NEW w \in Watches, OpenSucceeds(w) \/ WatchStep(w) \/ DropStep(w) PROVE NInv'
  BY <1>1, <1>3, WatchEffects, QuietNInv DEF OpenSucceeds, WatchStep, DropStep
<1>4. ASSUME NEW w \in Watches, NEW n \in Notices, Deliver(w, n) PROVE NInv'
  BY <1>1, <1>4, WatchEffects, QuietNInv DEF Deliver
<1>5. CASE StrandStep
  BY <1>1, <1>5, WatchEffects, QuietNInv DEF StrandStep
<1>6. CASE NotifyAck
  BY <1>1, <1>6, WatchEffects, AckNInv
<1>7. ASSUME Terminated PROVE NInv'
  BY <1>2, <1>7 DEF Terminated, W!Terminated, W!vars, vars, wvars
<1> QED
  BY <1>2, <1>3, <1>4, <1>5, <1>6, <1>7, OsdWatchesNInv, OsdForgetsNInv, AckArrivesNInv,
     ReturnsNInv, NotifyNInv, CallEndsNInv DEF Next

LEMMA SpecNInv == Spec => []NInv
  BY InitNInv, NextNInv, SpecWatchInv, PTL DEF Spec

-----------------------------------------------------------------------------

\* Every variable stays in its range.
THEOREM NotifyTypeCorrect == Spec => []TypeOK
<1>1. WP!IInv => W!TypeOK
  BY DEF WP!IInv, WP!TypeOK, W!TypeOK, WP!Stage, W!Stage, WP!Event, W!Event
<1>2. W!TypeOK /\ NInv => TypeOK
  BY DEF TypeOK, NInv, OwnTypes
<1> QED
  BY <1>1, <1>2, SpecWatchInv, SpecNInv, PTL

LEMMA AnsweredWith ==
  ASSUME NInv, NEW n \in Notices, Answered(n)
  PROVE  response[n].acks = acks[n] /\ response[n].timeouts = missing[n]
<1>1. stage[n] = "done"
  BY DEF NInv, OwnTypes, CallStage, Answered
<1>2. ~ (ret[n] = "error" \/ reply[n] = "malformed")
  BY <1>1 DEF NInv, CallStage, Answered
<1>3. response[n] = Ok(acks[n], missing[n])
  BY <1>1, <1>2 DEF NInv, CallStage
<1> QED
  BY <1>3 DEF Ok

\* A response names each watch that was there throughout once, as an ack or as a timeout.
THEOREM CompleteResponse == Spec => []EveryWatchReported
<1>1. ASSUME NInv PROVE EveryWatchReported
  BY <1>1, AnsweredWith DEF EveryWatchReported, NInv, OwnTypes, MissingOrAcked
<1> QED
  BY <1>1, SpecNInv, PTL

\* Every ack in a response was sent by the trampoline of that watch.
THEOREM GenuineAcks == Spec => []AcksWereSent
<1>1. ASSUME NInv, NEW n \in Notices, Answered(n), NEW a \in response[n].acks
      PROVE  <<a[1], n, a[2]>> \in sent /\ acked[a[1]][n] > 0
  <2>1. a \in acks[n] /\ a \in Watches \X Reply
    BY <1>1, AnsweredWith DEF NInv, OwnTypes
  <2> QED
    BY <1>1, <2>1 DEF NInv, AcksBacked
<1>2. ASSUME NInv PROVE AcksWereSent
  BY <1>1, <1>2 DEF AcksWereSent
<1> QED
  BY <1>2, SpecNInv, PTL

\* A timeout is reported in a response and not as an error.
THEOREM TimeoutReported == Spec => []TimeoutIsNoError
<1>1. ASSUME NInv, NEW n \in Notices, stage[n] = "done", ret[n] = "ETIMEDOUT", reply[n] # "malformed"
      PROVE  Answered(n) /\ response[n].timeouts # {}
  <2>1. response[n] = Ok(acks[n], missing[n]) /\ missing[n] # {}
    BY <1>1 DEF NInv, CallStage
  <2> QED
    BY <2>1 DEF Answered, Ok
<1>2. ASSUME NInv PROVE TimeoutIsNoError
  BY <1>1, <1>2 DEF TimeoutIsNoError
<1> QED
  BY <1>2, SpecNInv, PTL

\* No path out of IoCtx::notify leaks the buffer or frees it twice.
THEOREM NoBufferLeak == Spec => []BufferReleased
<1>1. NInv => BufferReleased
  BY DEF NInv, CallStage, BufferReleased
<1> QED
  BY <1>1, SpecNInv, PTL

\* The buffer of rados_notify2 is decoded after a timeout, too, and freed once whatever happens.
THEOREM BufferCare == Spec => []BufferHandled
  BY TimeoutReported, NoBufferLeak, PTL DEF BufferHandled

=============================================================================

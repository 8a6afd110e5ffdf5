---------------------------- MODULE WatchNotify ----------------------------
(***************************************************************************)
(* IoCtx::notify (src/src/ioctx.rs) and the watches of one client: a       *)
(* notification goes through the OSD to every watch registered there, each *)
(* acks it through the trampoline, and the call returns with the acks or,  *)
(* at its timeout, also with those that are missing.                       *)
(*                                                                         *)
(* Each notice is one call of IoCtx::notify.  Each step is a step of       *)
(* Watch, one of the OSD (external), one of a notifier, or one of Watch    *)
(* whose message leaves for the OSD.                                       *)
(***************************************************************************)
EXTENDS Naturals, Sequences, FiniteSets

CONSTANTS
  Watches, Notices, NoNotice, CallbackDrops, MaxDispatch, MaxErrors

ASSUME WatchNotifyAssumption ==
  /\ NoNotice \notin Notices
  /\ CallbackDrops \subseteq Watches \X Watches
  /\ MaxDispatch \in [Watches -> Nat]
  /\ MaxErrors \in Nat

VARIABLES
  pc, box, linger, strand, callback, nested, dispatched, acked, errors,
  osdWatch,  \* the watches registered at the OSD
  asked,     \* [Notices -> ...]: the watches the notice was sent to
  missing,   \* [Notices -> ...]: those the OSD has no answer from
  acks,      \* [Notices -> ...]: <<w, r>>: the OSD has the reply r of w
  sent,      \* <<w, n, r>>: w acked n with the reply r
  stage,     \* [Notices -> ...]: where the call is
  ret,       \* [Notices -> ...]: what rados_notify2 returned
  reply,     \* [Notices -> ...]: the buffer it left behind
  freed,     \* [Notices -> ...]: how often the call has freed its buffer
  response   \* [Notices -> ...]: what IoCtx::notify returns

W == INSTANCE Watch

wvars == <<pc, box, linger, strand, callback, nested, dispatched, acked, errors>>
osdvars == <<osdWatch, asked, missing, acks>>
callvars == <<stage, ret, reply, freed, response>>
vars == <<wvars, osdvars, sent, callvars>>

Reply == {"value", "empty"}
Response ==
  [kind : {"none", "ok", "error"}, acks : SUBSET (Watches \X Reply), timeouts : SUBSET Watches]

Ok(a, t) == [kind |-> "ok", acks |-> a, timeouts |-> t]
Nothing(k) == [kind |-> k, acks |-> {}, timeouts |-> {}]

Init ==
  /\ W!Init
  /\ osdWatch = {}
  /\ asked = [n \in Notices |-> {}]
  /\ missing = [n \in Notices |-> {}]
  /\ acks = [n \in Notices |-> {}]
  /\ sent = {}
  /\ stage = [n \in Notices |-> "new"]
  /\ ret = [n \in Notices |-> "none"]
  /\ reply = [n \in Notices |-> "none"]
  /\ freed = [n \in Notices |-> 0]
  /\ response = [n \in Notices |-> Nothing("none")]

-----------------------------------------------------------------------------
(* The watches *)

\* rados_watch3 returns once the OSD has the watch.
OpenSucceeds(w) ==
  /\ w \in osdWatch
  /\ W!OpenSucceeds(w)
  /\ UNCHANGED <<osdvars, sent, callvars>>

WatchStep(w) ==
  /\ \/ W!Open(w) \/ W!Register(w) \/ W!OpenFails(w)
     \/ W!BeginDrop(w) \/ W!DispatchError(w)
  /\ UNCHANGED <<osdvars, sent, callvars>>

DropStep(w) ==
  /\ W!CancelLinger(w) \/ W!UnwatchReturns(w) \/ W!Flush(w) \/ W!Reclaim(w) \/ W!DropFields(w)
  /\ UNCHANGED <<osdvars, sent, callvars>>

Deliver(w, n) ==
  /\ w \in asked[n]
  /\ W!DispatchNotice(w, n)
  /\ UNCHANGED <<osdvars, sent, callvars>>

StrandStep ==
  /\ \/ W!StartCallback \/ W!RunFlush \/ W!OnErrorReturns
     \/ \E o \in W!Outcome : W!OnNotifyReturns(o)
  /\ UNCHANGED <<osdvars, sent, callvars>>

\* mutant: a notification whose reply is empty is not acked
NotifyAckReplies ==
  /\ W!NotifyAck
  /\ sent' = IF callback = "empty" THEN sent
             ELSE sent \cup {<<Head(strand).watch, Head(strand).notice, callback>>}
  /\ UNCHANGED <<osdvars, callvars>>

NotifyAck ==
  /\ W!NotifyAck
  /\ sent' = sent \cup {<<Head(strand).watch, Head(strand).notice, callback>>}
  /\ UNCHANGED <<osdvars, callvars>>

-----------------------------------------------------------------------------
(* The OSD *)

OsdWatches(w) ==
  /\ pc[w] = "opening"
  /\ w \in linger
  /\ osdWatch' = osdWatch \cup {w}
  /\ UNCHANGED <<wvars, asked, missing, acks, sent, callvars>>

\* The unwatch arrives, or the watch of a client that no longer renews it times out.
OsdForgets(w) ==
  /\ w \in osdWatch \ linger
  /\ osdWatch' = osdWatch \ {w}
  /\ missing' = [n \in Notices |-> IF stage[n] = "waiting" THEN missing[n] \ {w} ELSE missing[n]]
  /\ UNCHANGED <<wvars, asked, acks, sent, callvars>>

\* Only the first answer of a watch counts, and none that comes after the call is over.
AckArrives(w, n) ==
  /\ stage[n] = "waiting"
  /\ w \in missing[n]
  /\ \E r \in Reply :
       /\ <<w, n, r>> \in sent
       /\ acks' = [acks EXCEPT ![n] = @ \cup {<<w, r>>}]
  /\ missing' = [missing EXCEPT ![n] = @ \ {w}]
  /\ UNCHANGED <<wvars, osdWatch, asked, sent, callvars>>

\* rados_notify2 returns.  The buffer may be null when there is nothing to report; with an
\* error nobody reads it, so it need not be malformed then.
Returns(n, r) ==
  /\ stage' = [stage EXCEPT ![n] = "returned"]
  /\ ret' = [ret EXCEPT ![n] = r]
  /\ \E b \in {"null", "filled", "malformed"} :
       /\ b = "null" => acks[n] = {} /\ (missing[n] = {} \/ r = "error")
       /\ b = "malformed" => r # "error"
       /\ reply' = [reply EXCEPT ![n] = b]
  /\ UNCHANGED <<wvars, osdvars, sent, freed, response>>

Completes(n) ==
  /\ stage[n] = "waiting"
  /\ missing[n] = {}
  /\ Returns(n, "ok")

Expires(n) ==
  /\ stage[n] = "waiting"
  /\ missing[n] # {}
  /\ Returns(n, "ETIMEDOUT")

Fails(n) ==
  /\ stage[n] = "waiting"
  /\ Returns(n, "error")

-----------------------------------------------------------------------------
(* IoCtx::notify *)

\* The errors before rados_notify2 (a NUL in the name, a timeout or a payload too long) leave no
\* trace and are left out; Timeouts has that of the timeout.
Notify(n) ==
  /\ stage[n] = "new"
  /\ stage' = [stage EXCEPT ![n] = "waiting"]
  /\ asked' = [asked EXCEPT ![n] = osdWatch]
  /\ missing' = [missing EXCEPT ![n] = osdWatch]
  /\ UNCHANGED <<wvars, osdWatch, acks, sent, ret, reply, freed, response>>

\* mutant: a timeout is an error like any other
ErrorOnTimeout(n) ==
  /\ stage[n] = "returned"
  /\ ret[n] # "ok"
  /\ freed' = [freed EXCEPT ![n] = @ + 1]
  /\ response' = [response EXCEPT ![n] = Nothing("error")]
  /\ stage' = [stage EXCEPT ![n] = "done"]
  /\ UNCHANGED <<wvars, osdvars, sent, ret, reply>>

\* An error other than ETIMEDOUT: the buffer is freed all the same.
Error(n) ==
  /\ stage[n] = "returned"
  /\ ret[n] = "error"
  /\ freed' = [freed EXCEPT ![n] = @ + 1]
  /\ response' = [response EXCEPT ![n] = Nothing("error")]
  /\ stage' = [stage EXCEPT ![n] = "done"]
  /\ UNCHANGED <<wvars, osdvars, sent, ret, reply>>

\* mutant: the timeouts are looked at only when there is no ack
DecodedAcksFirst(n) ==
  CASE reply[n] = "null" -> Ok({}, {})
    [] reply[n] = "filled" -> Ok(acks[n], IF acks[n] = {} THEN missing[n] ELSE {})
    [] reply[n] = "malformed" -> Nothing("error")

\* mutant: the two arrays are read as one
DecodedOneList(n) ==
  CASE reply[n] = "null" -> Ok({}, {})
    [] reply[n] = "filled" -> Ok(acks[n] \cup (missing[n] \X {"empty"}), {})
    [] reply[n] = "malformed" -> Nothing("error")

\* decode_notify_response.  The arrays it gets and gives back on its one way to Ok do not show.
Decoded(n) ==
  CASE reply[n] = "null" -> Ok({}, {})
    [] reply[n] = "filled" -> Ok(acks[n], missing[n])
    [] reply[n] = "malformed" -> Nothing("error")

\* The response is copied out, then the buffer is freed, also when it could not be decoded.
Decode(n) ==
  /\ stage[n] = "returned"
  /\ ret[n] \in {"ok", "ETIMEDOUT"}
  /\ response' = [response EXCEPT ![n] = Decoded(n)]
  /\ freed' = [freed EXCEPT ![n] = @ + 1]
  /\ stage' = [stage EXCEPT ![n] = "done"]
  /\ UNCHANGED <<wvars, osdvars, sent, ret, reply>>

-----------------------------------------------------------------------------

Terminated ==
  /\ W!Terminated
  /\ \A n \in Notices : stage[n] = "done"
  /\ UNCHANGED <<osdvars, sent, callvars>>

Next ==
  \/ \E w \in Watches :
       \/ OpenSucceeds(w) \/ WatchStep(w) \/ DropStep(w) \/ OsdWatches(w) \/ OsdForgets(w)
       \/ \E n \in Notices : Deliver(w, n) \/ AckArrives(w, n)
  \/ \E n \in Notices :
       Notify(n) \/ Completes(n) \/ Expires(n) \/ Fails(n) \/ Error(n) \/ Decode(n)
  \/ StrandStep
  \/ NotifyAck
  \/ Terminated

Spec == Init /\ [][Next]_vars

\* Threads, the strand and user callbacks run, messages arrive, the OSD answers, and it
\* forgets a watch that nobody renews.  Each of these happens finitely often, so none of them
\* can keep another waiting.  Expires is left out: nobody waits for the timeout.
Progress ==
  \/ \E w \in Watches :
       \/ DropStep(w) \/ OsdForgets(w)
       \/ \E n \in Notices : Deliver(w, n) \/ AckArrives(w, n)
  \/ \E n \in Notices : Completes(n) \/ Error(n) \/ Decode(n)
  \/ StrandStep \/ NotifyAck

FairSpec == Spec /\ WF_vars(Progress)

-----------------------------------------------------------------------------
(* Properties *)

\* Every variable added to those of Watch stays within its range.
TypeOK ==
  /\ W!TypeOK
  /\ osdWatch \in SUBSET Watches
  /\ asked \in [Notices -> SUBSET Watches]
  /\ missing \in [Notices -> SUBSET Watches]
  /\ acks \in [Notices -> SUBSET (Watches \X Reply)]
  /\ sent \in SUBSET (Watches \X Notices \X Reply)
  /\ stage \in [Notices -> {"new", "waiting", "returned", "done"}]
  /\ ret \in [Notices -> {"none", "ok", "ETIMEDOUT", "error"}]
  /\ reply \in [Notices -> {"none", "null", "filled", "malformed"}]
  /\ freed \in [Notices -> Nat]
  /\ response \in [Notices -> Response]

Answered(n) == response[n].kind = "ok"

\* A watch that was registered when the notification was sent, and still is, appears in the
\* response once: in the acks, with one reply, or in the timeouts.
EveryWatchReported ==
  \A n \in Notices : Answered(n) =>
    \A w \in asked[n] \cap osdWatch :
      IF w \in response[n].timeouts
      THEN \A r \in Reply : <<w, r>> \notin response[n].acks
      ELSE \E r \in Reply : \A q \in Reply : <<w, q>> \in response[n].acks <=> q = r

\* Each ack in a response is what a callback of that watch replied to that notification:
\* the bytes it returned, or nothing when it panicked or returned too much.
AcksWereSent ==
  \A n \in Notices : Answered(n) =>
    \A a \in response[n].acks : <<a[1], n, a[2]>> \in sent /\ acked[a[1]][n] > 0

\* A notification that some watch did not ack in time is not an error: IoCtx::notify returns
\* the acks it has and the timeouts, unless the buffer cannot be decoded.
TimeoutIsNoError ==
  \A n \in Notices :
    stage[n] = "done" /\ ret[n] = "ETIMEDOUT" /\ reply[n] # "malformed" =>
      Answered(n) /\ response[n].timeouts # {}

\* The buffer of rados_notify2 is freed on each path out of IoCtx::notify, and once.
BufferReleased ==
  \A n \in Notices : freed[n] = (IF stage[n] = "done" THEN 1 ELSE 0)

\* Whatever rados_notify2 reports, its buffer is used for the response and freed.
BufferHandled == TimeoutIsNoError /\ BufferReleased

\* IoCtx::notify returns although its timeout never comes: each watch acks, however its
\* callback ends, or is dropped and forgotten.
NotifyNeedsNoTimeout ==
  \A n \in Notices : stage[n] = "waiting" ~> stage[n] = "done"

=============================================================================

---------------------------- MODULE WatchProofs ----------------------------
(***************************************************************************)
(* Theorems about Watch for any number of watches and notices, any length  *)
(* of the strand, and any set of callbacks that break the rule and drop a  *)
(* Watch.                                                                  *)
(***************************************************************************)
EXTENDS Watch, TLAPS, SequenceTheorems, FiniteSetTheorems, FunctionTheorems

(* The inductive invariant *)

\* The box lives exactly from the call of rados_watch3 to its failure or the reclaim.
BoxFollowsOwner ==
  \A w \in Watches :
    /\ box[w] = "none" <=> pc[w] = "new"
    /\ box[w] = "live" <=> pc[w] \in {"opening", "held", "unwatch", "flush", "flushing", "reclaim"}

LingerFollowsOwner ==
  \A w \in linger : pc[w] \in {"opening", "held", "unwatch"}

\* A callback is queued only between the registration and the end of the flush.
QueuedWhileWatched ==
  \A i \in DOMAIN strand :
    LET w == strand[i].watch IN
      IF IsCallback(strand[i])
      THEN w \in linger \/ pc[w] \in {"held", "unwatch", "flush", "flushing"}
      ELSE pc[w] = "flushing"

\* Nothing of a watch is queued behind its flush.
FlushIsLast ==
  \A i, j \in DOMAIN strand :
    strand[i].kind = "flush" /\ i < j => strand[i].watch # strand[j].watch

\* A callback runs at the head of the strand, and only on_notify leads to an ack.
HeadIsRunning ==
  callback # "idle" =>
    /\ strand # <<>>
    /\ IsCallback(Head(strand))
    /\ callback # "running" => Head(strand).kind = "notify"

DropsBlockCallback ==
  nested # {} => callback = "running"

IInv ==
  /\ TypeOK
  /\ BoxFollowsOwner
  /\ LingerFollowsOwner
  /\ QueuedWhileWatched
  /\ FlushIsLast
  /\ HeadIsRunning
  /\ DropsBlockCallback
  /\ NestedDropHangs

-----------------------------------------------------------------------------
(* Lemmas on the strand *)

LEMMA AppendFacts ==
  ASSUME NEW S, NEW s \in Seq(S), NEW e \in S
  PROVE  /\ Append(s, e) \in Seq(S)
         /\ DOMAIN s = 1 .. Len(s) /\ Len(s) \in Nat
         /\ DOMAIN Append(s, e) = 1 .. Len(s) + 1
         /\ \A i \in DOMAIN s : Append(s, e)[i] = s[i]
         /\ Append(s, e)[Len(s) + 1] = e
         /\ Append(s, e) # <<>>
         /\ s # <<>> => Head(Append(s, e)) = Head(s)
  OBVIOUS

LEMMA TailFacts ==
  ASSUME NEW S, NEW s \in Seq(S), s # <<>>
  PROVE  /\ Tail(s) \in Seq(S)
         /\ DOMAIN s = 1 .. Len(s) /\ Len(s) \in Nat \ {0}
         /\ Head(s) = s[1] /\ Head(s) \in S
         /\ DOMAIN Tail(s) = 1 .. Len(s) - 1
         /\ \A i \in DOMAIN Tail(s) : Tail(s)[i] = s[i + 1] /\ i + 1 \in DOMAIN s
  OBVIOUS

LEMMA CountOne ==
  ASSUME NEW f \in [Watches -> [Notices -> Nat]], NEW w \in Watches, NEW n \in Notices
  PROVE  /\ [f EXCEPT ![w][n] = @ + 1] \in [Watches -> [Notices -> Nat]]
         /\ \A v \in Watches, m \in Notices :
              [f EXCEPT ![w][n] = @ + 1][v][m] = IF v = w /\ m = n THEN f[v][m] + 1 ELSE f[v][m]
<1>1. f[w] \in [Notices -> Nat] /\ f[w][n] \in Nat
  OBVIOUS
<1>2. [f[w] EXCEPT ![n] = @ + 1] \in [Notices -> Nat]
  BY <1>1
<1>3. [f EXCEPT ![w][n] = @ + 1] = [f EXCEPT ![w] = [f[w] EXCEPT ![n] = @ + 1]]
  OBVIOUS
<1> QED
  BY <1>1, <1>2, <1>3

LEMMA EventTypes ==
  /\ \A w \in Watches, n \in Notices : NotifyEvent(w, n) \in Event
  /\ \A w \in Watches : ErrorEvent(w) \in Event /\ FlushEvent(w) \in Event
  /\ \A e \in Event : e.watch \in Watches
  /\ \A e \in Event : e.kind = "notify" => e.notice \in Notices /\ e = NotifyEvent(e.watch, e.notice)
  /\ \A e \in Event : e.kind = "flush" => e = FlushEvent(e.watch)
  BY DEF Event, NotifyEvent, ErrorEvent, FlushEvent

LEMMA StrandTypes ==
  ASSUME TypeOK, NEW i \in DOMAIN strand
  PROVE  strand[i] \in Event /\ strand[i].watch \in Watches
<1>1. strand[i] \in Event
  BY DEF TypeOK
<1> QED
  BY <1>1, EventTypes

-----------------------------------------------------------------------------
(* The invariant is inductive *)

LEMMA InitIInv == Init => IInv
<1> SUFFICES ASSUME Init PROVE IInv
  OBVIOUS
<1>1. TypeOK
  BY DEF Init, TypeOK, Stage
<1>2. DOMAIN strand = {}
  BY DEF Init
<1> QED
  BY <1>1, <1>2 DEF Init, IInv, BoxFollowsOwner, LingerFollowsOwner, QueuedWhileWatched,
     FlushIsLast, HeadIsRunning, DropsBlockCallback, NestedDropHangs

\* A step of an owner that leaves the strand alone.
LEMMA OwnerIInv ==
  ASSUME IInv, NEW w \in Watches,
         \/ Open(w) \/ OpenSucceeds(w) \/ OpenFails(w) \/ BeginDrop(w)
         \/ BeginDropInCallback(w) \/ UnwatchReturns(w) \/ Reclaim(w) \/ DropFields(w)
  PROVE  IInv'
<1> USE DEF IInv, Goto, histories
<1>1. TypeOK'
  BY DEF TypeOK, Stage, Open, OpenSucceeds, OpenFails, BeginDrop, BeginDropInCallback,
     UnwatchReturns, Reclaim, DropFields
<1>2. BoxFollowsOwner'
  BY DEF TypeOK, BoxFollowsOwner, Open, OpenSucceeds, OpenFails, BeginDrop,
     BeginDropInCallback, UnwatchReturns, Reclaim, DropFields
<1>3. LingerFollowsOwner'
  BY DEF TypeOK, LingerFollowsOwner, Open, OpenSucceeds, OpenFails, BeginDrop,
     BeginDropInCallback, UnwatchReturns, Reclaim, DropFields
<1>0. /\ \A v \in Watches \ {w} : pc'[v] = pc[v]
      /\ UNCHANGED <<linger, strand>>
      /\ pc[w] \in {"new", "opening", "held", "unwatch", "reclaim", "fields"}
      /\ pc[w] = "opening" => w \notin linger \/ pc'[w] = "held"
      /\ pc[w] = "held" => pc'[w] = "unwatch"
      /\ pc[w] = "unwatch" => pc'[w] = "flush"
      /\ nested' = nested \/ (pc[w] = "held" /\ nested' = nested \cup {w})
  <2> pc \in [Watches -> Stage]
    BY DEF TypeOK
  <2>1. CASE Open(w)
    BY <2>1 DEF Open
  <2>2. CASE OpenSucceeds(w)
    BY <2>2 DEF OpenSucceeds
  <2>3. CASE OpenFails(w)
    BY <2>3 DEF OpenFails
  <2>4. CASE BeginDrop(w)
    BY <2>4 DEF BeginDrop
  <2>5. CASE BeginDropInCallback(w)
    BY <2>5 DEF BeginDropInCallback
  <2>6. CASE UnwatchReturns(w)
    BY <2>6 DEF UnwatchReturns
  <2>7. CASE Reclaim(w)
    BY <2>7 DEF Reclaim
  <2>8. CASE DropFields(w)
    BY <2>8 DEF DropFields
  <2> QED
    BY <2>1, <2>2, <2>3, <2>4, <2>5, <2>6, <2>7, <2>8
<1>4. QueuedWhileWatched'
  <2> SUFFICES ASSUME NEW i \in DOMAIN strand
               PROVE  LET v == strand[i].watch IN
                        IF IsCallback(strand[i])
                        THEN v \in linger \/ pc'[v] \in {"held", "unwatch", "flush", "flushing"}
                        ELSE pc'[v] = "flushing"
    BY <1>0 DEF QueuedWhileWatched, IsCallback
  <2>1. strand[i].watch \in Watches
    BY StrandTypes
  <2> QED
    BY <1>0, <2>1 DEF TypeOK, QueuedWhileWatched
<1>5. FlushIsLast' /\ HeadIsRunning' /\ DropsBlockCallback'
  BY DEF FlushIsLast, HeadIsRunning, DropsBlockCallback, Open, OpenSucceeds, OpenFails,
     BeginDrop, BeginDropInCallback, UnwatchReturns, Reclaim, DropFields
<1>6. NestedDropHangs'
  BY <1>0 DEF TypeOK, NestedDropHangs
<1> QED
  BY <1>1, <1>2, <1>3, <1>4, <1>5, <1>6

LEMMA LingerIInv ==
  ASSUME IInv, NEW w \in Watches, Register(w) \/ CancelLinger(w)
  PROVE  IInv'
<1> USE DEF IInv, histories
<1>1. TypeOK' /\ BoxFollowsOwner' /\ LingerFollowsOwner'
  BY DEF TypeOK, BoxFollowsOwner, LingerFollowsOwner, Register, CancelLinger
<1>2. QueuedWhileWatched'
  BY DEF TypeOK, LingerFollowsOwner, QueuedWhileWatched, Register, CancelLinger
<1>3. FlushIsLast' /\ HeadIsRunning' /\ DropsBlockCallback' /\ NestedDropHangs'
  BY DEF FlushIsLast, HeadIsRunning, DropsBlockCallback, NestedDropHangs, Register, CancelLinger
<1> QED
  BY <1>1, <1>2, <1>3

\* A step that queues an event.
LEMMA EnqueueIInv ==
  ASSUME IInv, NEW w \in Watches,
         Flush(w) \/ DispatchError(w) \/ \E n \in Notices : DispatchNotice(w, n)
  PROVE  IInv'
<1> USE DEF IInv, Goto, histories
<1>1. PICK e \in Event :
        /\ strand' = Append(strand, e)
        /\ e.watch = w
        /\ \/ Flush(w) /\ e = FlushEvent(w)
           \/ w \in linger /\ pc' = pc /\ IsCallback(e)
        /\ UNCHANGED <<box, linger, callback, nested, acked>>
  BY EventTypes DEF Flush, DispatchError, DispatchNotice, ErrorEvent, NotifyEvent, FlushEvent, IsCallback
<1>2. strand \in Seq(Event)
  BY DEF TypeOK
<1>3. /\ strand' \in Seq(Event)
      /\ DOMAIN strand = 1 .. Len(strand) /\ Len(strand) \in Nat
      /\ DOMAIN strand' = 1 .. Len(strand) + 1
      /\ \A i \in DOMAIN strand : strand'[i] = strand[i]
      /\ strand'[Len(strand) + 1] = e
      /\ strand' # <<>>
      /\ strand # <<>> => Head(strand') = Head(strand)
  BY <1>1, <1>2, AppendFacts
<1>4. \A i \in DOMAIN strand' : i \in DOMAIN strand \/ i = Len(strand) + 1
  BY <1>3
<1>5. TypeOK'
  <2>1. pc' \in [Watches -> Stage]
    BY DEF TypeOK, Stage, Flush, DispatchError, DispatchNotice
  <2>2. errors' \in [Watches -> Nat]
    <3>1. errors' = errors \/ errors' = [errors EXCEPT ![w] = @ + 1]
      <4>1. CASE Flush(w)
        BY <4>1 DEF Flush
      <4>2. CASE DispatchError(w)
        BY <4>2 DEF DispatchError
      <4>3. CASE \E n \in Notices : DispatchNotice(w, n)
        BY <4>3 DEF DispatchNotice
      <4> QED
        BY <4>1, <4>2, <4>3
    <3>2. errors \in [Watches -> Nat]
      BY DEF TypeOK
    <3> HIDE DEF IInv
    <3> QED
      BY <3>1, <3>2
  <2>3. dispatched' \in [Watches -> [Notices -> Nat]]
    <3>1. CASE dispatched' = dispatched
      BY <3>1 DEF TypeOK
    <3>2. CASE \E n \in Notices : DispatchNotice(w, n)
      <4>1. PICK n \in Notices : dispatched' = [dispatched EXCEPT ![w][n] = @ + 1]
        BY <3>2 DEF DispatchNotice
      <4>2. dispatched \in [Watches -> [Notices -> Nat]]
        BY DEF TypeOK
      <4> QED
        BY <4>1, <4>2, CountOne
    <3> QED
      BY <3>1, <3>2 DEF Flush, DispatchError
  <2> QED
    BY <1>1, <1>3, <2>1, <2>2, <2>3 DEF TypeOK
<1>6. BoxFollowsOwner' /\ LingerFollowsOwner'
  BY <1>1 DEF TypeOK, BoxFollowsOwner, LingerFollowsOwner, Flush
<1>7. QueuedWhileWatched'
  <2>1. CASE Flush(w) /\ e = FlushEvent(w)
    BY <1>1, <1>3, <1>4, <2>1 DEF TypeOK, LingerFollowsOwner, QueuedWhileWatched, Flush, FlushEvent, IsCallback
  <2>2. CASE w \in linger /\ pc' = pc /\ IsCallback(e)
    BY <1>1, <1>3, <1>4, <2>2 DEF QueuedWhileWatched
  <2> QED
    BY <1>1, <2>1, <2>2
<1>8. FlushIsLast'
  <2> SUFFICES ASSUME NEW i \in DOMAIN strand', NEW j \in DOMAIN strand',
                      strand'[i].kind = "flush", i < j
               PROVE  strand'[i].watch # strand'[j].watch
    BY DEF FlushIsLast
  <2>1. i \in DOMAIN strand
    BY <1>3
  <2>2. CASE j \in DOMAIN strand
    BY <1>3, <2>1, <2>2 DEF FlushIsLast
  <2>3. CASE j = Len(strand) + 1
    <3>1. pc[strand[i].watch] = "flushing"
      BY <1>3, <2>1 DEF QueuedWhileWatched, IsCallback
    <3>2. pc[w] # "flushing"
      BY <1>1 DEF Flush, LingerFollowsOwner
    <3> QED
      BY <1>1, <1>3, <2>1, <2>3, <3>1, <3>2
  <2> QED
    BY <1>4, <2>2, <2>3
<1>9. HeadIsRunning' /\ DropsBlockCallback'
  BY <1>1, <1>3 DEF HeadIsRunning, DropsBlockCallback
<1>10. NestedDropHangs'
  BY <1>1 DEF TypeOK, NestedDropHangs, Flush
<1> QED
  BY <1>5, <1>6, <1>7, <1>8, <1>9, <1>10

\* A step that ends the handler at the head of the strand.
LEMMA DequeueIInv ==
  ASSUME IInv, RunFlush \/ NotifyAck \/ OnErrorReturns
  PROVE  IInv'
<1> USE DEF IInv, Goto, histories
<1> DEFINE e == Head(strand)
<1>1. /\ strand \in Seq(Event) /\ strand # <<>>
      /\ strand' = Tail(strand)
      /\ callback' = "idle"
      /\ UNCHANGED <<box, linger>>
  BY DEF TypeOK, HeadIsRunning, RunFlush, NotifyAck, OnErrorReturns, UserCodeReturns
<1>2. /\ strand' \in Seq(Event)
      /\ DOMAIN strand = 1 .. Len(strand) /\ Len(strand) \in Nat \ {0}
      /\ e = strand[1] /\ e \in Event
      /\ DOMAIN strand' = 1 .. Len(strand) - 1
      /\ \A i \in DOMAIN strand' : strand'[i] = strand[i + 1] /\ i + 1 \in DOMAIN strand
  BY <1>1, TailFacts
<1>3. nested' = {}
  <2>1. CASE RunFlush
    BY <2>1 DEF RunFlush, DropsBlockCallback
  <2>2. CASE NotifyAck
    BY <2>2 DEF NotifyAck, DropsBlockCallback
  <2>3. CASE OnErrorReturns
    BY <2>3 DEF OnErrorReturns, UserCodeReturns
  <2> QED
    BY <2>1, <2>2, <2>3
<1>4. \/ RunFlush /\ e.kind = "flush"
      \/ pc' = pc /\ IsCallback(e)
  BY DEF RunFlush, NotifyAck, OnErrorReturns, UserCodeReturns, HeadIsRunning, IsCallback
<1>5. TypeOK'
  <2>1. e.watch \in Watches /\ (e.kind = "notify" => e.notice \in Notices)
    BY <1>2, EventTypes
  <2>2. acked' \in [Watches -> [Notices -> Nat]]
    <3>1. CASE acked' = acked
      BY <3>1 DEF TypeOK
    <3>2. CASE NotifyAck
      <4>1. acked' = [acked EXCEPT ![e.watch][e.notice] = @ + 1] /\ e.kind = "notify"
        BY <3>2 DEF NotifyAck, HeadIsRunning
      <4>2. acked \in [Watches -> [Notices -> Nat]]
        BY DEF TypeOK
      <4> QED
        BY <2>1, <4>1, <4>2, CountOne
    <3> QED
      BY <3>1, <3>2 DEF RunFlush, OnErrorReturns
  <2> QED
    BY <1>1, <1>2, <1>3, <2>1, <2>2 DEF TypeOK, Stage, RunFlush, NotifyAck, OnErrorReturns
<1>6. BoxFollowsOwner' /\ LingerFollowsOwner'
  BY <1>1, <1>4 DEF TypeOK, BoxFollowsOwner, LingerFollowsOwner, RunFlush
<1>7. QueuedWhileWatched'
  <2> SUFFICES ASSUME NEW i \in DOMAIN strand'
               PROVE  LET w == strand'[i].watch IN
                        IF IsCallback(strand'[i])
                        THEN w \in linger \/ pc'[w] \in {"held", "unwatch", "flush", "flushing"}
                        ELSE pc'[w] = "flushing"
    BY <1>1 DEF QueuedWhileWatched, IsCallback
  <2>1. strand'[i] = strand[i + 1] /\ i + 1 \in DOMAIN strand
    BY <1>2
  <2>2. CASE pc' = pc
    BY <2>1, <2>2 DEF QueuedWhileWatched
  <2>3. CASE RunFlush /\ e.kind = "flush"
    <3>1. e.watch # strand[i + 1].watch
      BY <1>2, <2>1, <2>3 DEF FlushIsLast
    <3> QED
      BY <2>1, <2>3, <3>1 DEF TypeOK, QueuedWhileWatched, RunFlush
  <2> QED
    BY <1>4, <2>2, <2>3
<1>8. FlushIsLast'
  <2> SUFFICES ASSUME NEW i \in DOMAIN strand', NEW j \in DOMAIN strand',
                      strand'[i].kind = "flush", i < j
               PROVE  strand'[i].watch # strand'[j].watch
    BY DEF FlushIsLast
  <2>1. /\ strand'[i] = strand[i + 1] /\ i + 1 \in DOMAIN strand
        /\ strand'[j] = strand[j + 1] /\ j + 1 \in DOMAIN strand
        /\ i + 1 < j + 1
    BY <1>2
  <2> QED
    BY <2>1 DEF FlushIsLast
<1>9. HeadIsRunning' /\ DropsBlockCallback' /\ NestedDropHangs'
  BY <1>1, <1>3 DEF HeadIsRunning, DropsBlockCallback, NestedDropHangs
<1> QED
  BY <1>5, <1>6, <1>7, <1>8, <1>9

\* A step of the handler at the head of the strand that does not end it.
LEMMA CallbackIInv ==
  ASSUME IInv, StartCallback \/ \E o \in Outcome : OnNotifyReturns(o)
  PROVE  IInv'
<1> USE DEF IInv, histories
<1>1. TypeOK'
  BY DEF TypeOK, StartCallback, OnNotifyReturns, UserCodeReturns, ReplyFor
<1>2. HeadIsRunning'
  BY DEF HeadIsRunning, StartCallback, OnNotifyReturns, UserCodeReturns, IsCallback
<1>3. DropsBlockCallback' /\ NestedDropHangs'
  BY DEF DropsBlockCallback, NestedDropHangs, StartCallback, OnNotifyReturns, UserCodeReturns
<1>4. UNCHANGED <<pc, box, linger, strand>>
  BY DEF StartCallback, OnNotifyReturns
<1>5. BoxFollowsOwner' /\ LingerFollowsOwner' /\ QueuedWhileWatched' /\ FlushIsLast'
  BY <1>4 DEF BoxFollowsOwner, LingerFollowsOwner, QueuedWhileWatched, FlushIsLast
<1> QED
  BY <1>1, <1>2, <1>3, <1>5

LEMMA NextIInv == IInv /\ [Next]_vars => IInv'
<1> SUFFICES ASSUME IInv, [Next]_vars PROVE IInv'
  OBVIOUS
<1>1. ASSUME NEW w \in Watches, OwnerStep(w) PROVE IInv'
  BY <1>1, OwnerIInv, EnqueueIInv DEF OwnerStep
<1>2. ASSUME NEW w \in Watches, ObjecterStep(w) PROVE IInv'
  BY <1>2, LingerIInv, EnqueueIInv DEF ObjecterStep
<1>3. CASE StrandStep
  BY <1>3, CallbackIInv, DequeueIInv DEF StrandStep
<1>4. CASE UNCHANGED vars
  BY <1>4 DEF vars, IInv, TypeOK, BoxFollowsOwner, LingerFollowsOwner, QueuedWhileWatched,
     FlushIsLast, HeadIsRunning, DropsBlockCallback, NestedDropHangs
<1> QED
  BY <1>1, <1>2, <1>3, <1>4 DEF Next, Terminated

LEMMA SpecIInv == Spec => []IInv
  BY InitIInv, NextIInv, PTL DEF Spec

-----------------------------------------------------------------------------
(* Counting the events of the strand *)

Places(s, e) == {i \in DOMAIN s : s[i] = e}

LEMMA PlacesFinite ==
  ASSUME NEW S, NEW s \in Seq(S), NEW e
  PROVE  IsFiniteSet(Places(s, e)) /\ Cardinality(Places(s, e)) \in Nat
<1>1. DOMAIN s = 1 .. Len(s) /\ Len(s) \in Nat
  OBVIOUS
<1>2. IsFiniteSet(1 .. Len(s))
  BY <1>1, FS_Interval
<1>3. Places(s, e) \in SUBSET (1 .. Len(s))
  BY <1>1 DEF Places
<1> QED
  BY <1>2, <1>3, FS_Subset, FS_CardinalityType

LEMMA CountAppend ==
  ASSUME NEW S, NEW s \in Seq(S), NEW x \in S, NEW e
  PROVE  Cardinality(Places(Append(s, x), e)) =
           Cardinality(Places(s, e)) + IF x = e THEN 1 ELSE 0
<1>1. Places(Append(s, x), e) = IF x = e THEN Places(s, e) \cup {Len(s) + 1} ELSE Places(s, e)
  BY AppendFacts DEF Places
<1>2. Len(s) + 1 \notin Places(s, e)
  BY DEF Places
<1>3. Cardinality(Places(s, e) \cup {Len(s) + 1}) = Cardinality(Places(s, e)) + 1
  BY <1>2, PlacesFinite, FS_AddElement
<1> QED
  BY <1>1, <1>3, PlacesFinite

LEMMA CountTail ==
  ASSUME NEW S, NEW s \in Seq(S), s # <<>>, NEW e
  PROVE  Cardinality(Places(s, e)) =
           Cardinality(Places(Tail(s), e)) + IF Head(s) = e THEN 1 ELSE 0
<1> DEFINE P == Places(Tail(s), e)
           Q == Places(s, e) \ {1}
           f == [i \in P |-> i + 1]
<1>1. IsFiniteSet(P) /\ Cardinality(P) \in Nat /\ IsFiniteSet(Places(s, e))
  BY TailFacts, PlacesFinite
<1>2. /\ DOMAIN s = 1 .. Len(s) /\ Len(s) \in Nat \ {0}
      /\ Head(s) = s[1]
      /\ DOMAIN Tail(s) = 1 .. Len(s) - 1
      /\ \A i \in DOMAIN Tail(s) : Tail(s)[i] = s[i + 1]
  BY TailFacts
<1>3. f \in Bijection(P, Q)
  <2>1. ASSUME NEW i \in P PROVE f[i] \in Q
    BY <1>2 DEF Places
  <2>2. ASSUME NEW i \in P, NEW j \in P, f[i] = f[j] PROVE i = j
    BY <1>2, <2>2 DEF Places
  <2>3. ASSUME NEW k \in Q PROVE \E i \in P : f[i] = k
    <3>1. k \in Nat /\ k > 1 /\ k \in DOMAIN s /\ s[k] = e
      BY <1>2 DEF Places
    <3>2. k - 1 \in P
      BY <1>2, <3>1 DEF Places
    <3> QED
      BY <3>1, <3>2
  <2>4. f \in Injection(P, Q)
    BY <2>1, <2>2 DEF Injection, IsInjective
  <2>5. f \in Surjection(P, Q)
    BY <2>1, <2>3 DEF Surjection
  <2> QED
    BY <2>4, <2>5 DEF Bijection
<1>4. Cardinality(Q) = Cardinality(P)
  BY <1>1, <1>3, FS_Bijection DEF ExistsBijection
<1>5. 1 \in Places(s, e) <=> Head(s) = e
  BY <1>2 DEF Places
<1>6. Cardinality(Q) = IF Head(s) = e THEN Cardinality(Places(s, e)) - 1 ELSE Cardinality(Places(s, e))
  BY <1>1, <1>5, FS_RemoveElement
<1>7. Cardinality(Places(s, e)) \in Nat
  BY PlacesFinite
<1> QED
  BY <1>1, <1>4, <1>6, <1>7

LEMMA InitAckPerDispatch == Init => AckPerDispatch
<1> SUFFICES ASSUME Init, NEW w \in Watches, NEW n \in Notices
             PROVE  dispatched[w][n] = acked[w][n] + Queued(NotifyEvent(w, n))
  BY DEF AckPerDispatch
<1>1. {i \in DOMAIN strand : strand[i] = NotifyEvent(w, n)} = {}
  BY DEF Init
<1>2. Queued(NotifyEvent(w, n)) = 0
  BY <1>1, FS_EmptySet DEF Queued
<1> QED
  BY <1>2 DEF Init

\* The count of one notification after a dispatch, an ack, or any other step.
LEMMA NextAckPerDispatch == IInv /\ AckPerDispatch /\ [Next]_vars => AckPerDispatch'
<1> SUFFICES ASSUME IInv, AckPerDispatch, [Next]_vars, NEW w \in Watches, NEW n \in Notices
             PROVE  (dispatched[w][n] = acked[w][n] + Queued(NotifyEvent(w, n)))'
  BY DEF AckPerDispatch
<1> DEFINE e == NotifyEvent(w, n)
           count == Cardinality(Places(strand, e))
           count1 == Cardinality(Places(strand', e))
<1>1. /\ dispatched \in [Watches -> [Notices -> Nat]]
      /\ acked \in [Watches -> [Notices -> Nat]]
      /\ strand \in Seq(Event)
  BY DEF IInv, TypeOK
<1>2. /\ dispatched[w][n] \in Nat /\ acked[w][n] \in Nat /\ count \in Nat
      /\ dispatched[w][n] = acked[w][n] + count
  <2>1. count \in Nat
    BY <1>1, PlacesFinite
  <2>2. dispatched[w][n] = acked[w][n] + count
    BY DEF AckPerDispatch, Queued, Places
  <2> QED
    BY <1>1, <2>1, <2>2
<1> SUFFICES dispatched'[w][n] = acked'[w][n] + count1
  BY DEF Queued, Places, NotifyEvent
<1> HIDE DEF e, count, count1
<1>3. ASSUME NEW v \in Watches, NEW m \in Notices, DispatchNotice(v, m)
      PROVE  dispatched'[w][n] = acked'[w][n] + count1
  <2>1. count1 = count + IF NotifyEvent(v, m) = e THEN 1 ELSE 0
    BY <1>1, <1>3, CountAppend, EventTypes DEF DispatchNotice, count, count1
  <2>2. NotifyEvent(v, m) = e <=> v = w /\ m = n
    BY DEF e, NotifyEvent
  <2>3. dispatched'[w][n] = IF w = v /\ n = m THEN dispatched[w][n] + 1 ELSE dispatched[w][n]
    BY <1>1, <1>3, CountOne DEF DispatchNotice
  <2>4. acked' = acked
    BY <1>3 DEF DispatchNotice
  <2> QED
    BY <1>2, <2>1, <2>2, <2>3, <2>4
<1>4. CASE NotifyAck
  <2>1. strand # <<>> /\ Head(strand).kind = "notify" /\ Head(strand) \in Event
    BY <1>1, <1>4, TailFacts DEF NotifyAck, IInv, HeadIsRunning
  <2>2. PICK v \in Watches, m \in Notices :
          Head(strand) = NotifyEvent(v, m) /\ v = Head(strand).watch /\ m = Head(strand).notice
    BY <2>1, EventTypes
  <2>3. count = count1 + IF NotifyEvent(v, m) = e THEN 1 ELSE 0
    BY <1>1, <1>4, <2>1, <2>2, CountTail DEF NotifyAck, count, count1
  <2>4. NotifyEvent(v, m) = e <=> v = w /\ m = n
    BY DEF e, NotifyEvent
  <2>5. acked' = [acked EXCEPT ![v][m] = @ + 1]
    BY <1>4, <2>2 DEF NotifyAck
  <2>6. acked'[w][n] = IF w = v /\ n = m THEN acked[w][n] + 1 ELSE acked[w][n]
    BY <1>1, <2>5, CountOne
  <2>7. dispatched' = dispatched
    BY <1>4 DEF NotifyAck
  <2>8. count1 \in Nat
    BY <1>1, <1>4, <2>1, TailFacts, PlacesFinite DEF NotifyAck, count1
  <2> QED
    BY <1>2, <2>3, <2>4, <2>6, <2>7, <2>8
<1>5. ASSUME NEW x \in Event, x.kind # "notify", strand' = Append(strand, x), UNCHANGED <<dispatched, acked>>
      PROVE  dispatched'[w][n] = acked'[w][n] + count1
  <2>1. x # e
    BY <1>5 DEF e, NotifyEvent
  <2>2. count1 = count
    BY <1>1, <1>2, <1>5, <2>1, CountAppend DEF count, count1
  <2> QED
    BY <1>2, <1>5, <2>2
<1>6. CASE RunFlush \/ OnErrorReturns
  <2>1. /\ strand # <<>> /\ Head(strand).kind # "notify" /\ strand' = Tail(strand)
        /\ UNCHANGED <<dispatched, acked>>
    BY <1>6 DEF RunFlush, OnErrorReturns, UserCodeReturns, IInv, HeadIsRunning, histories
  <2>2. Head(strand) # e
    BY <2>1 DEF e, NotifyEvent
  <2>3. count1 \in Nat
    BY <1>1, <2>1, TailFacts, PlacesFinite DEF count1
  <2>4. count = count1
    BY <1>1, <1>2, <2>1, <2>2, <2>3, CountTail DEF count, count1
  <2> QED
    BY <1>2, <2>1, <2>4
<1>7. CASE UNCHANGED <<strand, dispatched, acked>>
  BY <1>2, <1>7 DEF count, count1
<1>8. ASSUME NEW v \in Watches, OwnerStep(v) PROVE dispatched'[w][n] = acked'[w][n] + count1
  <2>1. CASE Flush(v)
    BY <1>5, <2>1, EventTypes DEF Flush, FlushEvent, histories
  <2>2. CASE ~ Flush(v)
    BY <1>7, <1>8, <2>2 DEF OwnerStep, Open, OpenSucceeds, OpenFails, BeginDrop,
       BeginDropInCallback, UnwatchReturns, Reclaim, DropFields, histories
  <2> QED
    BY <2>1, <2>2
<1>9. ASSUME NEW v \in Watches, ObjecterStep(v) PROVE dispatched'[w][n] = acked'[w][n] + count1
  <2>1. CASE DispatchError(v)
    BY <1>5, <2>1, EventTypes DEF DispatchError, ErrorEvent
  <2>2. CASE Register(v) \/ CancelLinger(v)
    BY <1>7, <2>2 DEF Register, CancelLinger, histories
  <2> QED
    BY <1>3, <1>9, <2>1, <2>2 DEF ObjecterStep
<1>10. CASE StrandStep
  <2>1. CASE StartCallback \/ \E o \in Outcome : OnNotifyReturns(o)
    BY <1>7, <2>1 DEF StartCallback, OnNotifyReturns, histories
  <2> QED
    BY <1>4, <1>6, <1>10, <2>1 DEF StrandStep
<1> QED
  BY <1>7, <1>8, <1>9, <1>10 DEF Next, Terminated, vars

LEMMA SpecAckPerDispatch == Spec => []AckPerDispatch
  BY InitIInv, NextIInv, InitAckPerDispatch, NextAckPerDispatch, PTL DEF Spec

-----------------------------------------------------------------------------
(* Theorems *)

\* Every variable stays in its range, and rados_notify_ack only ever gets the reply of the
\* callback or an empty one.
THEOREM TypeCorrect == Spec => []TypeOK
  BY SpecIInv, PTL DEF IInv

\* No callback of the watch API ever runs on a WatchState that Watch::drop, or a failing
\* IoCtx::watch, has freed.
THEOREM MemorySafety == Spec => []NoUseAfterFree
<1>1. IInv => NoUseAfterFree
  <2> SUFFICES ASSUME IInv, NEW i \in DOMAIN strand, IsCallback(strand[i])
               PROVE  box[strand[i].watch] = "live"
    BY DEF NoUseAfterFree
  <2>1. strand[i] \in Event
    BY DEF IInv, TypeOK
  <2>2. strand[i].watch \in Watches
    BY <2>1, EventTypes
  <2> QED
    BY <2>2 DEF IInv, BoxFollowsOwner, LingerFollowsOwner, QueuedWhileWatched
<1> QED
  BY <1>1, SpecIInv, PTL

\* A dispatch owes exactly one ack: the number of dispatches is always the number of acks
\* plus the number of notifications still queued or running.
THEOREM OneAckPerDispatch == Spec => []AckPerDispatch
  BY SpecAckPerDispatch

LEMMA SettledWhenUnqueued ==
  ASSUME IInv, AckPerDispatch, NEW w \in Watches, w \notin linger,
         pc[w] \notin {"held", "unwatch", "flush", "flushing"}
  PROVE  /\ dispatched[w] = acked[w]
         /\ callback # "idle" => Head(strand).watch # w
<1>1. strand \in Seq(Event) /\ DOMAIN strand = 1 .. Len(strand)
  BY DEF IInv, TypeOK
<1>2. \A i \in DOMAIN strand : IsCallback(strand[i]) => strand[i].watch # w
  BY DEF IInv, QueuedWhileWatched
<1>3. ASSUME NEW n \in Notices PROVE dispatched[w][n] = acked[w][n]
  <2>1. \A i \in DOMAIN strand : strand[i] # NotifyEvent(w, n)
    BY <1>2 DEF NotifyEvent, IsCallback
  <2>2. {i \in DOMAIN strand : strand[i] = NotifyEvent(w, n)} = {}
    BY <2>1
  <2>3. Queued(NotifyEvent(w, n)) = 0
    BY <2>2, FS_EmptySet DEF Queued
  <2>4. acked[w][n] \in Nat
    BY DEF IInv, TypeOK
  <2> QED
    BY <2>3, <2>4 DEF AckPerDispatch
<1>4. dispatched[w] = acked[w]
  BY <1>3 DEF IInv, TypeOK
<1>5. callback # "idle" => Head(strand).watch # w
  BY <1>1, <1>2, TailFacts DEF IInv, HeadIsRunning
<1> QED
  BY <1>4, <1>5

\* When rados_watch_flush has returned to Watch::drop, nothing of the watch is unanswered.
THEOREM DropSettles == Spec => []SettledOnDrop
<1>1. IInv /\ AckPerDispatch => SettledOnDrop
  BY SettledWhenUnqueued DEF SettledOnDrop, IInv, LingerFollowsOwner
<1> QED
  BY <1>1, SpecIInv, SpecAckPerDispatch, PTL

\* A Watch dropped by a callback stays inside rados_unwatch2 or rados_watch_flush for good.
THEOREM NestedDropDeadlock == Spec => []NestedDropHangs
  BY SpecIInv, PTL DEF IInv

-----------------------------------------------------------------------------
(* Refinement of WatchContract *)

LEMMA InitContract == Init => Contract!Init
  BY DEF Init, Contract!Init, Contract!Quiet, phaseNow, owedNow, busyNow, Phase

LEMMA OwedTypes ==
  ASSUME TypeOK, TypeOK'
  PROVE  /\ owedNow \in [Watches -> [Notices -> Int]]
         /\ owedNow' \in [Watches -> [Notices -> Int]]
         /\ \A w \in Watches, n \in Notices :
              /\ owedNow[w][n] = dispatched[w][n] - acked[w][n]
              /\ owedNow'[w][n] = dispatched'[w][n] - acked'[w][n]
<1>1. \A w \in Watches, n \in Notices :
        /\ dispatched[w][n] \in Nat /\ acked[w][n] \in Nat
        /\ dispatched'[w][n] \in Nat /\ acked'[w][n] \in Nat
  BY DEF TypeOK
<1> QED
  BY <1>1 DEF owedNow

LEMMA OneCountChanges ==
  ASSUME NEW f \in [Watches -> [Notices -> Int]], NEW g \in [Watches -> [Notices -> Int]],
         NEW w \in Watches, NEW n \in Notices, NEW x,
         \A v \in Watches, m \in Notices : g[v][m] = IF v = w /\ m = n THEN x ELSE f[v][m]
  PROVE  g = [f EXCEPT ![w][n] = x]
<1>1. x \in Int
  <2>1. g[w][n] = x
    OBVIOUS
  <2> QED
    BY <2>1
<1>2. [f EXCEPT ![w][n] = x] = [f EXCEPT ![w] = [f[w] EXCEPT ![n] = x]]
  OBVIOUS
<1>3. g[w] = [f[w] EXCEPT ![n] = x]
  <2>1. g[w] \in [Notices -> Int] /\ f[w] \in [Notices -> Int]
    OBVIOUS
  <2>2. \A m \in Notices : g[w][m] = [f[w] EXCEPT ![n] = x][m]
    BY <2>1
  <2> QED
    BY <1>1, <2>1, <2>2
<1>4. ASSUME NEW v \in Watches, v # w PROVE g[v] = f[v]
  <2>1. g[v] \in [Notices -> Int] /\ f[v] \in [Notices -> Int]
    OBVIOUS
  <2>2. \A m \in Notices : g[v][m] = f[v][m]
    BY <1>4
  <2> QED
    BY <2>1, <2>2
<1> QED
  BY <1>2, <1>3, <1>4

\* What a step that leaves the boxes, the counts and the running callback alone maps to.
LEMMA ContractStutter ==
  ASSUME UNCHANGED <<phaseNow, owedNow, busyNow>>
  PROVE  [Contract!Next]_(Contract!cvars)
  BY DEF Contract!cvars

LEMMA ContractRelease ==
  ASSUME IInv, AckPerDispatch, NEW w \in Watches, w \notin linger, pc[w] \in {"opening", "reclaim"},
         box' = [box EXCEPT ![w] = "freed"],
         UNCHANGED <<strand, callback, dispatched, acked>>
  PROVE  Contract!Release(w)
<1>1. dispatched[w] = acked[w] /\ (callback # "idle" => Head(strand).watch # w)
  BY SettledWhenUnqueued
<1>2. w \notin busyNow
  BY <1>1 DEF busyNow
<1>3. owedNow[w] = Contract!Quiet
  BY <1>1 DEF owedNow, Contract!Quiet, IInv, TypeOK
<1>4. phaseNow[w] = "active"
  BY DEF phaseNow, Phase, IInv, BoxFollowsOwner
<1>5. phaseNow' = [phaseNow EXCEPT ![w] = "released"]
  BY DEF phaseNow, Phase, IInv, TypeOK
<1>6. UNCHANGED <<owedNow, busyNow>>
  BY DEF owedNow, busyNow
<1> QED
  BY <1>2, <1>3, <1>4, <1>5, <1>6 DEF Contract!Release

LEMMA ContractTake ==
  ASSUME IInv, IInv', NEW w \in Watches, NEW n \in Notices, DispatchNotice(w, n)
  PROVE  Contract!Take(w, n)
<1>1. phaseNow[w] = "active" /\ phaseNow' = phaseNow
  BY DEF phaseNow, Phase, DispatchNotice, IInv, LingerFollowsOwner, BoxFollowsOwner
<1>2. busyNow' = busyNow
  <2>1. callback # "idle" => Head(strand') = Head(strand)
    BY EventTypes, AppendFacts DEF DispatchNotice, IInv, TypeOK, HeadIsRunning
  <2> QED
    BY <2>1 DEF busyNow, DispatchNotice
<1>3. \A v \in Watches, m \in Notices :
        owedNow'[v][m] = IF v = w /\ m = n THEN owedNow[v][m] + 1 ELSE owedNow[v][m]
  <2>1. \A v \in Watches, m \in Notices :
          dispatched'[v][m] = IF v = w /\ m = n THEN dispatched[v][m] + 1 ELSE dispatched[v][m]
    BY CountOne DEF DispatchNotice, IInv, TypeOK
  <2>2. \A v \in Watches, m \in Notices : dispatched[v][m] \in Nat /\ acked[v][m] \in Nat
    BY DEF IInv, TypeOK
  <2>3. \A v \in Watches, m \in Notices :
          /\ owedNow[v][m] = dispatched[v][m] - acked[v][m]
          /\ owedNow'[v][m] = dispatched'[v][m] - acked[v][m]
    BY OwedTypes DEF IInv, DispatchNotice
  <2> QED
    BY <2>1, <2>2, <2>3
<1>4. owedNow' = [owedNow EXCEPT ![w][n] = @ + 1]
  BY <1>3, OwedTypes, OneCountChanges DEF IInv
<1> QED
  BY <1>1, <1>2, <1>4 DEF Contract!Take

LEMMA ContractAnswer ==
  ASSUME IInv, IInv', AckPerDispatch, NotifyAck
  PROVE  \E w \in Watches, n \in Notices : Contract!Answer(w, n)
<1>1. strand \in Seq(Event) /\ strand # <<>> /\ Head(strand).kind = "notify" /\ Head(strand) \in Event
  BY TailFacts DEF NotifyAck, IInv, TypeOK, HeadIsRunning
<1>2. PICK w \in Watches, n \in Notices :
        Head(strand) = NotifyEvent(w, n) /\ w = Head(strand).watch /\ n = Head(strand).notice
  BY <1>1, EventTypes
<1>3. \A v \in Watches, m \in Notices : dispatched[v][m] \in Nat /\ acked[v][m] \in Nat
  BY DEF IInv, TypeOK
<1>4. w \in busyNow /\ busyNow' = {}
  BY <1>2 DEF busyNow, NotifyAck
<1>5. owedNow[w][n] > 0
  <2>1. Cardinality(Places(strand, NotifyEvent(w, n))) =
          Cardinality(Places(Tail(strand), NotifyEvent(w, n))) + 1
    BY <1>1, <1>2, CountTail
  <2>2. Cardinality(Places(Tail(strand), NotifyEvent(w, n))) \in Nat
    BY <1>1, TailFacts, PlacesFinite
  <2>3. dispatched[w][n] = acked[w][n] + Cardinality(Places(strand, NotifyEvent(w, n)))
    BY DEF AckPerDispatch, Queued, Places
  <2> QED
    BY <1>3, <2>1, <2>2, <2>3 DEF owedNow
<1>6. \A v \in Watches, m \in Notices :
        owedNow'[v][m] = IF v = w /\ m = n THEN owedNow[v][m] - 1 ELSE owedNow[v][m]
  <2>1. \A v \in Watches, m \in Notices :
          acked'[v][m] = IF v = w /\ m = n THEN acked[v][m] + 1 ELSE acked[v][m]
    BY <1>2, CountOne DEF NotifyAck, IInv, TypeOK
  <2>2. \A v \in Watches, m \in Notices :
          /\ owedNow[v][m] = dispatched[v][m] - acked[v][m]
          /\ owedNow'[v][m] = dispatched[v][m] - acked'[v][m]
    BY OwedTypes DEF IInv, NotifyAck
  <2> QED
    BY <1>3, <2>1, <2>2
<1>7. owedNow' = [owedNow EXCEPT ![w][n] = @ - 1]
  BY <1>6, OwedTypes, OneCountChanges DEF IInv
<1>8. phaseNow' = phaseNow
  BY DEF phaseNow, NotifyAck
<1> QED
  BY <1>4, <1>5, <1>7, <1>8 DEF Contract!Answer

\* Starting a callback and the return of on_error.
LEMMA ContractCallback ==
  ASSUME IInv, StartCallback \/ OnErrorReturns
  PROVE  \E w \in Watches : Contract!Invoke(w) \/ Contract!Return(w)
<1> DEFINE w == Head(strand).watch
<1>1. strand \in Seq(Event) /\ strand # <<>> /\ IsCallback(Head(strand))
  BY DEF StartCallback, OnErrorReturns, UserCodeReturns, IInv, TypeOK, HeadIsRunning
<1>2. Head(strand) = strand[1] /\ 1 \in DOMAIN strand /\ w \in Watches
  BY <1>1, TailFacts, EventTypes
<1>3. phaseNow[w] = "active"
  BY <1>1, <1>2 DEF phaseNow, Phase, IInv, BoxFollowsOwner, LingerFollowsOwner, QueuedWhileWatched
<1>4. CASE StartCallback
  <2>1. Contract!Invoke(w)
    BY <1>3, <1>4 DEF StartCallback, Contract!Invoke, phaseNow, owedNow, busyNow, histories
  <2> QED
    BY <1>2, <2>1
<1>5. CASE OnErrorReturns
  <2>1. Contract!Return(w)
    BY <1>5 DEF OnErrorReturns, UserCodeReturns, Contract!Return, phaseNow, owedNow, busyNow, histories
  <2> QED
    BY <1>2, <2>1
<1> QED
  BY <1>4, <1>5

LEMMA NextContract ==
  IInv /\ AckPerDispatch /\ [Next]_vars => [Contract!Next]_(Contract!cvars)
<1> SUFFICES ASSUME IInv, AckPerDispatch, [Next]_vars PROVE [Contract!Next]_(Contract!cvars)
  OBVIOUS
<1>0. IInv'
  BY NextIInv
<1>1. CASE UNCHANGED <<box, strand, callback, dispatched, acked>>
  <2>1. UNCHANGED <<phaseNow, owedNow, busyNow>>
    BY <1>1 DEF phaseNow, owedNow, busyNow
  <2> QED
    BY <2>1, ContractStutter
<1>2. ASSUME NEW w \in Watches, OwnerStep(w) PROVE [Contract!Next]_(Contract!cvars)
  <2>1. CASE Open(w)
    <3>1. box[w] = "none" /\ box' = [box EXCEPT ![w] = "live"]
      BY <2>1 DEF Open, Goto, IInv, BoxFollowsOwner
    <3> box \in [Watches -> {"none", "live", "freed"}]
      BY DEF IInv, TypeOK
    <3>2. phaseNow[w] = "absent"
      BY <3>1 DEF phaseNow, Phase
    <3>3. phaseNow' = [phaseNow EXCEPT ![w] = "active"]
      <4>1. Phase[box'[w]] = "active" /\ \A v \in Watches \ {w} : Phase[box'[v]] = Phase[box[v]]
        BY <3>1 DEF Phase
      <4> QED
        BY <4>1 DEF phaseNow
    <3>4. UNCHANGED <<owedNow, busyNow>>
      BY <2>1 DEF Open, histories, owedNow, busyNow
    <3> QED
      BY <3>2, <3>3, <3>4 DEF Contract!Activate, Contract!Next
  <2>2. CASE OpenFails(w) \/ Reclaim(w)
    <3>1. Contract!Release(w)
      BY <2>2, ContractRelease DEF OpenFails, Reclaim, Goto, histories, IInv, LingerFollowsOwner
    <3> QED
      BY <3>1 DEF Contract!Next
  <2>3. CASE Flush(w)
    <3>1. callback # "idle" => Head(strand') = Head(strand)
      BY <2>3, EventTypes, AppendFacts DEF Flush, IInv, TypeOK, HeadIsRunning
    <3> QED
      BY <2>3, <3>1, ContractStutter DEF Flush, histories, phaseNow, owedNow, busyNow
  <2> QED
    BY <1>1, <1>2, <2>1, <2>2, <2>3 DEF OwnerStep, OpenSucceeds, BeginDrop, BeginDropInCallback,
       UnwatchReturns, DropFields, histories
<1>3. ASSUME NEW w \in Watches, ObjecterStep(w) PROVE [Contract!Next]_(Contract!cvars)
  <2>1. CASE DispatchError(w)
    <3>1. callback # "idle" => Head(strand') = Head(strand)
      BY <2>1, EventTypes, AppendFacts DEF DispatchError, IInv, TypeOK, HeadIsRunning
    <3> QED
      BY <2>1, <3>1, ContractStutter DEF DispatchError, phaseNow, owedNow, busyNow
  <2>2. ASSUME NEW n \in Notices, DispatchNotice(w, n) PROVE [Contract!Next]_(Contract!cvars)
    BY <1>0, <2>2, ContractTake DEF Contract!Next
  <2> QED
    BY <1>1, <1>3, <2>1, <2>2 DEF ObjecterStep, Register, CancelLinger, histories
<1>4. CASE StrandStep
  <2>1. CASE NotifyAck
    BY <1>0, <2>1, ContractAnswer DEF Contract!Next
  <2>2. CASE StartCallback \/ OnErrorReturns
    BY <2>2, ContractCallback DEF Contract!Next
  <2>3. CASE RunFlush
    BY <2>3, ContractStutter DEF RunFlush, histories, phaseNow, owedNow, busyNow
  <2>4. ASSUME NEW o \in Outcome, OnNotifyReturns(o) PROVE [Contract!Next]_(Contract!cvars)
    <3>1. callback # "idle" /\ callback' # "idle"
      BY <2>4 DEF OnNotifyReturns, UserCodeReturns, ReplyFor
    <3> QED
      BY <2>4, <3>1, ContractStutter DEF OnNotifyReturns, histories, phaseNow, owedNow, busyNow
  <2> QED
    BY <1>4, <2>1, <2>2, <2>3, <2>4 DEF StrandStep
<1> QED
  BY <1>1, <1>2, <1>3, <1>4 DEF Next, Terminated, vars

\* Watch implements WatchContract: one callback at a time, only on an allocated state, one
\* answer per notification, and the release of the state after the last answer.
THEOREM Refinement == Spec => KeepsContract
  BY SpecIInv, SpecAckPerDispatch, InitContract, NextContract, PTL
  DEF Spec, KeepsContract, Contract!Spec

=============================================================================

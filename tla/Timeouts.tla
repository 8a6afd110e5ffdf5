------------------------------ MODULE Timeouts ------------------------------
(***************************************************************************)
(* What becomes of the Duration a caller passes to IoCtx::notify,          *)
(* IoCtx::lock_exclusive (src/src/ioctx.rs) and Rados::blocklist_add       *)
(* (src/src/conn.rs) on its way to librados.                               *)
(*                                                                         *)
(* A Duration is Rust's, whole seconds and nanoseconds, with the           *)
(* nanoseconds split into their three groups of decimal digits.  The run   *)
(* makes one call.                                                         *)
(***************************************************************************)
EXTENDS Naturals

CONSTANTS
  Durations,  \* the Durations a caller may pass
  NoDuration, \* None, which lock_exclusive takes in the place of one
  MaxU32,     \* the largest u32
  MaxTimeT    \* the largest time_t

Group == 0 .. 999
Duration == [secs : Nat, millis : Group, micros : Group, nanos : Group]

ASSUME TimeoutsAssumption ==
  /\ Durations \subseteq Duration
  /\ NoDuration \notin Duration
  /\ MaxU32 \in Nat
  /\ MaxTimeT \in Nat

VARIABLES
  api,      \* the function called
  asked,    \* the Duration it is given, or NoDuration
  status,   \* "pending", "sent" or "overflow", the error EOVERFLOW
  granted   \* the Duration sent, in the resolution of the wire

tvars == <<api, asked, status, granted>>

Seconds(s) == [secs |-> s, millis |-> 0, micros |-> 0, nanos |-> 0]

Zero == Seconds(0)

Arguments(a) == IF a = "lock" THEN Durations \cup {NoDuration} ELSE Durations

TimeoutsInit ==
  /\ api \in {"notify", "lock", "blocklist"}
  /\ asked \in Arguments(api)
  /\ status = "pending"
  /\ granted = Zero

\* try_from with `?`: the value, unless it does not fit.
SendIf(fits, d) ==
  /\ status = "pending"
  /\ status' = IF fits THEN "sent" ELSE "overflow"
  /\ granted' = IF fits THEN d ELSE granted
  /\ UNCHANGED <<api, asked>>

AsMillis(d) == d.secs * 1000 + d.millis

CeilDiv(n, m) == (n + m - 1) \div m

\* mutant: the division by 1000 is left to librados
NotifySecondsDown(d) == AsMillis(d) \div 1000

\* The timeout is rounded to whole seconds; librados divides the milliseconds again.
NotifySeconds(d) == CeilDiv(AsMillis(d), 1000)

Notify ==
  /\ api = "notify"
  /\ SendIf(NotifySeconds(asked) <= MaxU32, Seconds((NotifySeconds(asked) * 1000) \div 1000))

\* The timeval handed to rados_lock_exclusive has microseconds.  For None there is none, and
\* librados sends zero.
LockExclusive ==
  /\ api = "lock"
  /\ IF asked = NoDuration THEN SendIf(TRUE, Zero)
     ELSE SendIf(asked.secs <= MaxTimeT, [asked EXCEPT !.nanos = 0])

\* mutant: `as u32` in the place of u32::try_from
BlocklistAddWraps ==
  /\ api = "blocklist"
  /\ SendIf(TRUE, Seconds(asked.secs % (MaxU32 + 1)))

BlocklistAdd ==
  /\ api = "blocklist"
  /\ SendIf(asked.secs <= MaxU32, Seconds(asked.secs))

TimeoutsNext == Notify \/ LockExclusive \/ BlocklistAdd

TimeoutsSpec == TimeoutsInit /\ [][TimeoutsNext]_tvars

-----------------------------------------------------------------------------
(* Properties *)

Sent(a) == api = a /\ status = "sent"

AtMost(d1, d2) ==
  \/ d1.secs < d2.secs
  \/ d1.secs = d2.secs /\ d1.millis < d2.millis
  \/ d1.secs = d2.secs /\ d1.millis = d2.millis /\ d1.micros < d2.micros
  \/ d1.secs = d2.secs /\ d1.millis = d2.millis /\ d1.micros = d2.micros /\ d1.nanos <= d2.nanos

\* d and all of its last microsecond, millisecond or second
ToMicro(d) == [d EXCEPT !.nanos = 999]
ToMilli(d) == [ToMicro(d) EXCEPT !.micros = 999]
ToSecond(d) == [ToMilli(d) EXCEPT !.millis = 999]

\* Every variable stays within its range.
TimeoutsTypeOK ==
  /\ api \in {"notify", "lock", "blocklist"}
  /\ asked \in Arguments(api)
  /\ status \in {"pending", "sent", "overflow"}
  /\ granted \in Duration

\* The timeout of a notify is left to librados, which is what zero means to it, exactly for a
\* Duration under a millisecond; any other reaches the OSD at most a second longer than asked,
\* and less than a millisecond shorter.
NotifyWaits ==
  Sent("notify") =>
    IF AtMost(asked, ToMilli(Zero)) THEN granted = Zero
    ELSE /\ granted # Zero
         /\ AtMost(granted, [asked EXCEPT !.secs = @ + 1])
         /\ AtMost(asked, ToMilli(granted))

\* A lock is asked for without an expiry, which is what zero means to the OSD, exactly for
\* None and for a Duration under a microsecond; any other is never sent longer than asked, and
\* less than a microsecond shorter.
LockExpires ==
  Sent("lock") =>
    IF asked = NoDuration \/ AtMost(asked, ToMicro(Zero)) THEN granted = Zero
    ELSE granted # Zero /\ AtMost(granted, asked) /\ AtMost(asked, ToMicro(granted))

\* The time of a blocklist entry is left to the cluster, which is what zero means to the
\* monitors, exactly for a Duration under a second; any other is never sent longer than asked,
\* and less than a second shorter, and one that does not fit is refused and not cut.
BlocklistExpires ==
  Sent("blocklist") =>
    IF AtMost(asked, ToSecond(Zero)) THEN granted = Zero
    ELSE granted # Zero /\ AtMost(granted, asked) /\ AtMost(asked, ToSecond(granted))

\* A lock or a blocklist entry that is asked for with a time of at least the unit that is sent
\* gets that time, to the unit; below it and for None, and only there, it gets zero, which
\* means for ever for a lock and the default of the cluster for a blocklist entry.
ExpiresWithinUnit == LockExpires /\ BlocklistExpires

\* The documentation of IoCtx::notify: the timeout is rounded up to whole seconds, because a
\* sub-second value would otherwise reach the OSD as 0; only Duration::ZERO does.
NotifyRoundsUp ==
  Sent("notify") /\ asked # Zero => granted # Zero

=============================================================================

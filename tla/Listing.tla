------------------------------ MODULE Listing ------------------------------
(***************************************************************************)
(* IoCtx::list_objects and ObjectList (src/src/ioctx.rs) while objects     *)
(* come and go and the pool is deleted.                                    *)
(*                                                                         *)
(* Objects are numbers in the order in which the OSDs list them, that of   *)
(* the hashes of their names.  librados fetches them in batches, and hands *)
(* them out one by one, the lowest first.                                  *)
(***************************************************************************)
EXTENDS Naturals, Sequences, FiniteSets, FiniteSetsExt, Errors

CONSTANTS
  MaxObject,
  Names,
  Lossy,    \* [Objects -> Names]: the name as from_utf8_lossy shows it
  Garbage,  \* what is in memory that was freed
  Batch     \* bound of a batch

Objects == 1 .. MaxObject

ASSUME ListingAssumption ==
  /\ MaxObject \in Nat /\ Batch \in Nat \ {0}
  /\ Lossy \in [Objects -> Names]
  /\ Garbage \notin Names

VARIABLES
  pool,      \* there is one
  objects,   \* those in it
  context,   \* the listing context: "none", "open" or "closed"
  position,  \* where the next batch begins
  batch,     \* what is fetched and not dropped yet
  phase,     \* where the thread in list_objects is
  code,      \* what rados_nobjects_list_next2 returned
  names,     \* Seq(Names \cup {Garbage})
  reply,     \* what list_objects returned
  stayed,    \* history: the objects there all the time
  possible   \* history: those there at some time

poolvars == <<pool, objects>>
listvars == <<context, position, batch, phase, code, names, reply>>
lvars == <<poolvars, listvars, stayed, possible>>

ListingInit ==
  /\ pool = TRUE
  /\ objects \in SUBSET Objects
  /\ context = "none"
  /\ position = 0
  /\ batch = {}
  /\ phase = "opening"
  /\ code = "OK"
  /\ names = <<>>
  /\ reply = "none"
  /\ stayed = objects
  /\ possible = objects

-----------------------------------------------------------------------------
(* Other clients *)

ObjectsBecome(s) ==
  /\ phase # "idle"
  /\ pool
  /\ objects' = s
  /\ stayed' = stayed \cap s
  /\ possible' = possible \cup s
  /\ UNCHANGED listvars

CreateObject(o) == ObjectsBecome(objects \cup {o}) /\ UNCHANGED pool

RemoveObject(o) == ObjectsBecome(objects \ {o}) /\ UNCHANGED pool

DeletePool == ObjectsBecome({}) /\ pool' = FALSE

-----------------------------------------------------------------------------
(* rados_nobjects_list_open and rados_nobjects_list_next2 *)

Opened(r, c) ==
  /\ phase = "opening"
  /\ phase' = "opened"
  /\ code' = r
  /\ context' = c
  /\ UNCHANGED <<poolvars, position, batch, names, reply, stayed, possible>>

RadosOpen == Opened("OK", "open") \/ Opened("EIO", "none")

NextReturns(r) ==
  /\ phase' = "returned"
  /\ code' = r
  /\ UNCHANGED <<poolvars, context, names, reply, stayed, possible>>

\* There is an entry left of the last batch.
RadosNext ==
  /\ phase = "listing"
  /\ batch # {}
  /\ NextReturns("OK")
  /\ UNCHANGED <<position, batch>>

\* One OSD lists a range of the objects; librados goes on while there are none.
RadosFetch ==
  /\ phase = "listing"
  /\ batch = {}
  /\ pool
  /\ \E to \in position + 1 .. MaxObject :
       LET s == objects \cap position + 1 .. to IN
         /\ Cardinality(s) <= Batch
         /\ batch' = s
         /\ position' = to
  /\ UNCHANGED <<poolvars, context, phase, code, names, reply, stayed, possible>>

\* ENOENT tells the end of the listing as well as the end of the pool.
RadosDrained ==
  /\ phase = "listing"
  /\ batch = {}
  /\ position = MaxObject \/ ~ pool
  /\ NextReturns("ENOENT")
  /\ UNCHANGED <<position, batch>>

RadosFails ==
  /\ phase = "listing"
  /\ batch = {}
  /\ NextReturns("EIO")
  /\ UNCHANGED <<position, batch>>

-----------------------------------------------------------------------------
(* list_objects *)

\* mutant: the listing is not closed when there is an error
ReturnLeaky(result) ==
  /\ phase' = "idle"
  /\ reply' = result
  /\ context' = IF context = "open" /\ result = Ok THEN "closed" ELSE context
  /\ UNCHANGED <<poolvars, position, batch, code, names, stayed, possible>>

\* Dropping ObjectList closes the context.
Return(result) ==
  /\ phase' = "idle"
  /\ reply' = result
  /\ context' = IF context = "open" THEN "closed" ELSE context
  /\ UNCHANGED <<poolvars, position, batch, code, names, stayed, possible>>

Open ==
  /\ phase = "opened"
  /\ IF CheckErr(code) # Ok THEN Return(CheckErr(code))
     ELSE /\ phase' = "listing"
          /\ UNCHANGED <<poolvars, context, position, batch, code, names, reply, stayed, possible>>

End == code = "ENOENT"

\* mutant: the pointers are kept, and read when the entry is dropped
CopiedLate == IF Cardinality(batch) > 1 THEN Lossy[Min(batch \ {Min(batch)})] ELSE Garbage

\* The name is copied while the entry is at the head of the batch.
Copied == Lossy[Min(batch)]

\* mutant: what is no entry and not the end is ignored
PushAny ==
  /\ names' = IF code = "OK" THEN Append(names, Copied) ELSE names
  /\ batch' = IF code = "OK" THEN batch \ {Min(batch)} ELSE batch
  /\ phase' = "listing"
  /\ UNCHANGED <<poolvars, context, position, code, reply, stayed, possible>>

\* The next call, which follows, drops the entry.
Push ==
  /\ CheckErr(code) = Ok
  /\ names' = Append(names, Copied)
  /\ batch' = batch \ {Min(batch)}
  /\ phase' = "listing"
  /\ UNCHANGED <<poolvars, context, position, code, reply, stayed, possible>>

ListObjects ==
  /\ phase = "returned"
  /\ IF End THEN Return(Ok)
     ELSE Push \/ (CheckErr(code) # Ok /\ Return(CheckErr(code)))

-----------------------------------------------------------------------------

ObjectsChange == DeletePool \/ \E o \in Objects : CreateObject(o) \/ RemoveObject(o)

Rados == RadosOpen \/ RadosNext \/ RadosFetch \/ RadosDrained \/ RadosFails

Step == Open \/ ListObjects

ListingTerminated == phase = "idle" /\ UNCHANGED lvars

ListingNext == Rados \/ Step \/ ObjectsChange \/ ListingTerminated

ListingSpec == ListingInit /\ [][ListingNext]_lvars

\* librados answers, and the thread in list_objects runs.  Other clients may never stop.
ListingFairSpec == ListingSpec /\ WF_lvars(Rados) /\ WF_lvars(Step)

-----------------------------------------------------------------------------
(* Properties *)

\* Every variable stays within its range, and the context is closed when list_objects has
\* returned, with an error too.
ListingTypeOK ==
  /\ pool \in BOOLEAN
  /\ objects \in SUBSET Objects
  /\ context \in {"none", "open", "closed"}
  /\ phase = "idle" => context # "open"
  /\ position \in 0 .. MaxObject
  /\ batch \in SUBSET Objects
  /\ phase \in {"opening", "opened", "listing", "returned", "idle"}
  /\ code \in {"OK", "ENOENT", "EIO"}
  /\ names \in Seq(Names \cup {Garbage})
  /\ reply \in {"none", Ok, "EIO"}
  /\ stayed \in SUBSET objects /\ possible \in SUBSET Objects

ObjectsNamed(n, S) == {o \in S : Lossy[o] = n}
Listed(n) == {i \in DOMAIN names : names[i] = n}

\* A listing that ends well names every object that was there all the time, and a name that
\* several of them share as often: no error passes for the end, and the end of the pool leaves
\* no such object.
ListingComplete ==
  reply = Ok => \A n \in Names : Cardinality(Listed(n)) >= Cardinality(ObjectsNamed(n, stayed))

\* What is listed are names of objects that were there at some time, none listed twice,
\* whether or not it was removed and created again in between.
ListingTrue ==
  \A n \in Names \cup {Garbage} : Cardinality(Listed(n)) <= Cardinality(ObjectsNamed(n, possible))

\* A listing is exact, but for what comes and goes meanwhile.
ListingExact == ListingComplete /\ ListingTrue

\* A listing ends, also when other clients never stop to create and remove objects.  Its
\* positions are hashes, of which there are finitely many; it is a bound of the model that so
\* are the names with one hash.
ListingEnds == <>(phase = "idle")

=============================================================================

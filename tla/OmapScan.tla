------------------------------ MODULE OmapScan ------------------------------
(***************************************************************************)
(* Reading the omap of an object page by page: IoCtx::omap_get_vals,       *)
(* omap_get_keys and omap_get_vals_by_keys (src/src/ioctx.rs), their read  *)
(* operation of one step (src/src/read_op.rs) and OmapIter                 *)
(* (src/src/omap.rs), in the loop of omap_page_is_marked_truncated         *)
(* (src/tests/integration.rs), while other clients change the object.      *)
(*                                                                         *)
(* Keys are numbers in the order of their bytes, 0 the empty key.  That    *)
(* there is a last one is a bound of the model: between and behind any two *)
(* byte strings there is another.  The histories follow one key, which is  *)
(* any.  Pages have room for a key: with a max_return of 0 the wrapper     *)
(* hands out an empty page with `more` set, and a loop has no next key.    *)
(***************************************************************************)
EXTENDS Naturals, FiniteSets, Errors

CONSTANTS
  MaxKey,
  Prefixes,
  NoPrefix,
  Matching,  \* [Prefixes -> SUBSET Keys]: the keys with the prefix
  HasNul,    \* the keys and prefixes with a NUL in them
  KeyLists,  \* the keys that by_keys is called with
  Values,
  Empty,     \* the value of no bytes
  Absent,
  NullPtr,
  NoIter,
  PageSize   \* bound of the keys in a page: max_return, or less by the OSD's own limits

Keys == 0 .. MaxKey
Kinds == {"vals", "keys", "by_keys"}

ASSUME OmapScanAssumption ==
  /\ MaxKey \in Nat /\ PageSize \in Nat \ {0}
  /\ NoPrefix \notin Prefixes /\ Prefixes \cap Keys = {}
  /\ Matching \in [Prefixes -> SUBSET (Keys \ {0})]
  /\ HasNul \subseteq Prefixes \cup (Keys \ {0})
  /\ KeyLists \subseteq SUBSET Keys
  /\ Empty \in Values /\ Absent \notin Values /\ NullPtr \notin Values

VARIABLES
  exists,   \* the object does
  omap,     \* [Keys -> Values \cup {Absent}]
  scan,     \* the kind, and the prefix or the keys that are named
  stage,
  cursor,   \* start_after
  iter,     \* the iterator of the step: a function on the keys of a page, or NoIter
  more,     \* the slot of the step
  ret,      \* what rados_read_op_operate returned
  got,      \* the entries of all pages
  outcome,  \* how the scan ended
  key,      \* the key that is followed
  kept,     \* history: it has been there since the scan began
  had,      \* history: the values it has had
  missing,  \* history: there was no object
  twice     \* history: a key was on two pages

objvars == <<exists, omap>>
scanvars == <<scan, stage, cursor, iter, more, ret, got, outcome>>
history == <<kept, had, missing, twice>>
vars == <<objvars, scanvars, key, history>>

Scans ==
  [kind : {"vals"}, prefix : Prefixes \cup {NoPrefix}, keys : {{}}] \cup
  [kind : {"keys"}, prefix : {NoPrefix}, keys : {{}}] \cup
  [kind : {"by_keys"}, prefix : {NoPrefix}, keys : KeyLists]

Functions(S, T) == UNION {[D -> T] : D \in SUBSET S}
NoEntries == [k \in {} |-> Empty]

Init ==
  /\ exists \in BOOLEAN
  /\ omap \in [Keys -> IF exists THEN Values \cup {Absent} ELSE {Absent}]
  /\ scan \in Scans
  /\ stage = "next"
  /\ cursor = 0
  /\ iter = NoIter
  /\ more = FALSE
  /\ ret = "OK"
  /\ got = NoEntries
  /\ outcome = "none"
  /\ key \in Keys
  /\ kept = (omap[key] # Absent)
  /\ had = {omap[key]} \ {Absent}
  /\ missing = ~ exists
  /\ twice = FALSE

-----------------------------------------------------------------------------
(* Other clients *)

Becomes(e, o) ==
  /\ stage # "idle"
  /\ exists' = e
  /\ omap' = o
  /\ kept' = (kept /\ o[key] # Absent)
  /\ had' = had \cup ({o[key]} \ {Absent})
  /\ missing' = (missing \/ ~ e)
  /\ UNCHANGED <<scanvars, key, twice>>

\* A write to an object that is missing creates it.
OmapSet(k, v) == Becomes(TRUE, [omap EXCEPT ![k] = v])

\* Keys are not removed from an object that is missing.
OmapRmKey(k) == exists /\ Becomes(TRUE, [omap EXCEPT ![k] = Absent])

OmapClear == exists /\ Becomes(TRUE, [k \in Keys |-> Absent])

Remove == exists /\ Becomes(FALSE, [k \in Keys |-> Absent])

-----------------------------------------------------------------------------
(* The step of a page *)

\* mutant: the filter is not handed on
PrefixNull == NoPrefix

Prefix == scan.prefix

\* start_after and filter_prefix become C strings; the keys of by_keys have a length.
Named == cursor \notin HasNul /\ Prefix \notin HasNul

\* mutant: the iterator is not ended when the operation fails
EndFailedLeaky(result) ==
  /\ stage' = "idle"
  /\ outcome' = result
  /\ UNCHANGED iter

\* Dropping the step ends its iterator.
EndFailed(result) ==
  /\ stage' = "idle"
  /\ outcome' = result
  /\ iter' = NoIter

\* librados allocates the iterator when the step is added.
AddStep ==
  /\ stage = "next"
  /\ IF Named
     THEN /\ stage' = "operating"
          /\ iter' = NoEntries
          /\ more' = FALSE
          /\ UNCHANGED outcome
     ELSE EndFailed("Nul") /\ UNCHANGED more
  /\ UNCHANGED <<objvars, scan, cursor, ret, got, key, history>>

-----------------------------------------------------------------------------
(* The OSD, and librados when it has the answer *)

Operated(r) ==
  /\ stage = "operating"
  /\ stage' = "operated"
  /\ ret' = r
  /\ UNCHANGED <<objvars, scan, cursor, got, outcome, key, history>>

Eligible ==
  {k \in Keys :
    /\ omap[k] # Absent
    /\ IF scan.kind = "by_keys" THEN k \in scan.keys
       ELSE k > cursor /\ (Prefix # NoPrefix => k \in Matching[Prefix])}

Lowest(n, S) == {k \in S : Cardinality({j \in S : j <= k}) <= n}

\* The pointer to a value of no bytes is null.
Pointers(S) ==
  [k \in S |-> IF scan.kind = "keys" \/ omap[k] = Empty THEN NullPtr ELSE omap[k]]

\* Of by_keys all is read, and `more` is not written.
OsdReads ==
  /\ exists
  /\ Operated("OK")
  /\ IF scan.kind = "by_keys" THEN iter' = Pointers(Eligible) /\ UNCHANGED more
     ELSE \E n \in 1 .. PageSize :
            /\ iter' = Pointers(Lowest(n, Eligible))
            /\ more' = (Cardinality(Eligible) > n)

OsdFails ==
  /\ \E e \in {"EIO"} \cup (IF exists THEN {} ELSE {"ENOENT"}) : Operated(e)
  /\ UNCHANGED <<iter, more>>

-----------------------------------------------------------------------------
(* The result *)

\* mutant: the iterator is drained up to the first null pointer
PairsUntilNull ==
  [k \in {k \in DOMAIN iter : \A j \in DOMAIN iter : j <= k => iter[j] # NullPtr} |-> iter[k]]

Pairs == [k \in DOMAIN iter |-> IF iter[k] = NullPtr THEN Empty ELSE iter[k]]

\* mutant: the next page starts where the page did
NextCursorSame(page) == cursor

NextCursor(page) == CHOOSE k \in DOMAIN page : \A j \in DOMAIN page : j <= k

\* An empty page that is not the last one would panic.
TakePage ==
  LET page == Pairs IN
    /\ got' = [k \in DOMAIN got \cup DOMAIN page |-> IF k \in DOMAIN page THEN page[k] ELSE got[k]]
    /\ twice' = (twice \/ DOMAIN got \cap DOMAIN page # {})
    /\ iter' = NoIter
    /\ IF more /\ page # NoEntries
       THEN stage' = "next" /\ cursor' = NextCursor(page) /\ UNCHANGED outcome
       ELSE stage' = "idle" /\ outcome' = (IF more THEN "panic" ELSE Ok) /\ UNCHANGED cursor

Take ==
  /\ stage = "operated"
  /\ \/ CheckErr(ret) = Ok /\ TakePage
     \/ CheckErr(ret) # Ok /\ EndFailed(CheckErr(ret)) /\ UNCHANGED <<cursor, got, twice>>
  /\ UNCHANGED <<objvars, scan, more, ret, key, kept, had, missing>>

-----------------------------------------------------------------------------

Change ==
  \/ \E k \in Keys : OmapRmKey(k) \/ \E v \in Values : OmapSet(k, v)
  \/ OmapClear \/ Remove

Osd == OsdReads \/ OsdFails

Scanner == AddStep \/ Take

Terminated == stage = "idle" /\ UNCHANGED vars

Next == Scanner \/ Osd \/ Change \/ Terminated

Spec == Init /\ [][Next]_vars

\* The OSD answers, and the thread that scans runs.  Other clients may never stop.
FairSpec == Spec /\ WF_vars(Scanner) /\ WF_vars(Osd)

-----------------------------------------------------------------------------
(* Properties *)

\* Every variable stays within its range, nothing panics, and an iterator lives while its operation does.
TypeOK ==
  /\ exists \in BOOLEAN
  /\ omap \in [Keys -> Values \cup {Absent}]
  /\ scan \in Scans
  /\ stage \in {"next", "operating", "operated", "idle"}
  /\ cursor \in Keys
  /\ IF stage \in {"operating", "operated"} THEN iter \in Functions(Keys, Values \cup {NullPtr})
     ELSE iter = NoIter
  /\ more \in BOOLEAN
  /\ ret \in {"OK", "ENOENT", "EIO"}
  /\ got \in Functions(Keys, Values)
  /\ outcome \in {"none", "Nul", Ok, "NotFound", "EIO"}
  /\ key \in Keys /\ kept \in BOOLEAN /\ had \in SUBSET Values /\ missing \in BOOLEAN
  /\ twice \in BOOLEAN

InScope(k) ==
  IF scan.kind = "by_keys" THEN k \in scan.keys
  ELSE k # 0 /\ (scan.prefix # NoPrefix => k \in Matching[scan.prefix])

\* A scan that ends well has found every key that was there all the time, has the prefix and
\* is not empty, also one whose value has no bytes, whatever else came and went between the
\* pages.  omap_get_vals_by_keys finds the empty key and keys with a NUL, too.
ScanComplete == outcome = Ok /\ kept /\ InScope(key) => key \in DOMAIN got

\* What is found was there, with that value, at some time of the scan, and was asked for.
FoundThere ==
  key \in DOMAIN got =>
    InScope(key) /\ IF scan.kind = "keys" THEN had # {} ELSE got[key] \in had

\* No key is on two pages, so that the sizes of the pages add up to the number of keys.
ScanOnce == ~ twice

\* A scan fails for the NUL only of a prefix or of a key it has found, and with NotFound only
\* when the object was missing.
FailsForCause ==
  /\ outcome = "Nul" => scan.prefix \in HasNul \/ (scan.kind # "by_keys" /\ DOMAIN got \cap HasNul # {})
  /\ outcome = "NotFound" => missing

\* What a scan reports is so: what it found, how often, and why it failed.
ScanTrue == FoundThere /\ ScanOnce /\ FailsForCause

\* A scan ends once other clients let the object be: each page begins behind the last one, and
\* none is empty before the end.  (One that adds keys ahead of the scan for ever can keep it
\* going, for keys have no last one in the code.)
ScanEnds == <>[][FALSE]_objvars => <>(stage = "idle")

=============================================================================

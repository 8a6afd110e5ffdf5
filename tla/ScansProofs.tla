---------------------------- MODULE ScansProofs ----------------------------
(***************************************************************************)
(* Theorems about the loops that collect what there is while others change *)
(* it: about OmapScan, for any number of keys and any sizes of pages, and  *)
(* about Listing, for any number of objects and any sizes of batches.      *)
(***************************************************************************)
EXTENDS OmapScan, Listing, FiniteSetTheorems, TLAPS

-----------------------------------------------------------------------------
(* Omap pages: the inductive invariant *)

\* The histories tell of the key that is followed.
HistoryTrue ==
  /\ kept => omap[key] # Absent
  /\ omap[key] # Absent => omap[key] \in had
  /\ ~ exists => missing

\* The pages so far have every key up to the cursor, and none behind it.
PagesDone ==
  stage # "idle" =>
    /\ outcome = "none"
    /\ cursor = 0 \/ cursor \in DOMAIN got
    /\ \A k \in DOMAIN got : k <= cursor
    /\ scan.kind = "by_keys" => DOMAIN got = {}
    /\ scan.kind # "by_keys" /\ kept /\ InScope(key) /\ key <= cursor => key \in DOMAIN got

\* The page that was read has what comes next, all of it up to its last key.
PageTrue ==
  /\ scan.kind = "by_keys" => ~ more
  /\ more => DOMAIN iter # {}
  /\ scan.kind # "by_keys" => \A k \in DOMAIN iter : k > cursor
  /\ kept /\ InScope(key) /\ (scan.kind = "by_keys" \/ key > cursor) =>
       key \in DOMAIN iter \/ (more /\ \A k \in DOMAIN iter : k < key)
  /\ key \in DOMAIN iter =>
       /\ InScope(key) /\ had # {}
       /\ scan.kind # "keys" => Pairs[key] \in had

PageRead ==
  /\ stage = "operating" => ~ more
  /\ stage = "operated" /\ ret = "OK" => PageTrue
  /\ stage = "operated" /\ ret = "ENOENT" => missing

OInv == TypeOK /\ HistoryTrue /\ PagesDone /\ PageRead /\ ScanComplete /\ ScanTrue

-----------------------------------------------------------------------------
(* Keys in order *)

LEMMA Least ==
  ASSUME NEW S \in SUBSET Nat, S # {}
  PROVE  \E m \in S : \A n \in S : m <= n
<1> DEFINE R == {p \in Nat \X Nat : p[1] < p[2]}
<1>1. IsWellFoundedOn(R, Nat)
  BY NatLessThanWellFounded DEF OpToRel
<1>2. \A m, n \in Nat : <<n, m>> \in R <=> n < m
  OBVIOUS
<1> HIDE DEF R
<1>3. PICK m \in S : \A n \in S : ~ (<<n, m>> \in R)
  BY <1>1, WFMin
<1>4. ASSUME NEW n \in S PROVE m <= n
  <2>1. m \in Nat /\ n \in Nat /\ ~ (n < m)
    BY <1>2, <1>3
  <2> QED
    BY <2>1
<1> QED
  BY <1>4

\* A set of keys has a last one.
LEMMA LastKey ==
  ASSUME NEW S \in SUBSET Keys, S # {}
  PROVE  \E k \in S : \A j \in S : j <= k
<1> DEFINE T == {i \in Nat : i <= MaxKey /\ MaxKey - i \in S}
<1>1. MaxKey \in Nat
  BY OmapScanAssumption
<1>2. ASSUME NEW k \in S PROVE k \in Nat /\ MaxKey - k \in T
  <2>1. k \in Nat /\ k <= MaxKey
    BY <1>1 DEF Keys
  <2>2. MaxKey - k \in Nat /\ MaxKey - k <= MaxKey /\ MaxKey - (MaxKey - k) = k
    BY <1>1, <2>1
  <2> QED
    BY <2>1, <2>2
<1>3. T # {}
  BY <1>2
<1>4. T \in SUBSET Nat
  OBVIOUS
<1>5. \A i \in T : i \in Nat /\ i <= MaxKey /\ MaxKey - i \in S
  OBVIOUS
<1> HIDE DEF T
<1>6. PICK i \in T : \A j \in T : i <= j
  BY <1>3, <1>4, Least
<1>7. ASSUME NEW j \in S PROVE j <= MaxKey - i
  <2>1. j \in Nat /\ i \in Nat /\ i <= MaxKey - j
    BY <1>2, <1>5, <1>6
  <2> QED
    BY <1>1, <2>1
<1> QED
  BY <1>5, <1>7

LEMMA KeysFinite ==
  ASSUME NEW S \in SUBSET Keys
  PROVE  IsFiniteSet(S) /\ Cardinality(S) \in Nat
<1>1. IsFiniteSet(Keys)
  BY OmapScanAssumption, FS_Interval DEF Keys
<1> QED
  BY <1>1, FS_Subset, FS_CardinalityType

\* The lowest keys of a set: not none, and any other key is behind them all.
LEMMA LowestIs ==
  ASSUME NEW S \in SUBSET Keys, NEW n \in Nat \ {0}
  PROVE  /\ Lowest(n, S) \subseteq S
         /\ Cardinality(S) > n => Lowest(n, S) # {}
         /\ \A k \in S \ Lowest(n, S) :
              Cardinality(S) > n /\ \A j \in Lowest(n, S) : j < k
<1> DEFINE upTo(k) == {j \in S : j <= k}
<1>1. Lowest(n, S) = {k \in S : Cardinality(upTo(k)) <= n}
  BY DEF Lowest
<1>2. \A k \in S : k \in Nat
  BY OmapScanAssumption DEF Keys
<1>3. \A k : upTo(k) \subseteq S /\ upTo(k) \in SUBSET Keys
  OBVIOUS
<1>4. ASSUME Cardinality(S) > n PROVE Lowest(n, S) # {}
  <2>1. S # {} /\ S \in SUBSET Nat
    BY <1>2, <1>4, FS_EmptySet
  <2>2. PICK m \in S : \A j \in S : m <= j
    BY <2>1, Least
  <2>3. upTo(m) = {m}
    <3>1. \A j \in S : j <= m => j = m
      BY <1>2, <2>2
    <3>2. m <= m
      BY <1>2, <2>2
    <3> QED
      BY <2>2, <3>1, <3>2
  <2>4. Cardinality(upTo(m)) = 1
    BY <2>3, FS_Singleton
  <2> QED
    BY <1>1, <2>2, <2>4
<1>5. ASSUME NEW k \in S \ Lowest(n, S)
      PROVE  Cardinality(S) > n /\ \A j \in Lowest(n, S) : j < k
  <2>1. Cardinality(upTo(k)) > n /\ Cardinality(upTo(k)) \in Nat
    BY <1>1, <1>3, <1>5, KeysFinite
  <2>2. Cardinality(upTo(k)) <= Cardinality(S) /\ Cardinality(S) \in Nat
    BY <1>3, KeysFinite, FS_Subset
  <2>3. ASSUME NEW j \in Lowest(n, S), k <= j PROVE FALSE
    <3>1. j \in S /\ Cardinality(upTo(j)) <= n
      BY <1>1, <2>3
    <3>2. upTo(k) \subseteq upTo(j)
      BY <1>2, <1>5, <2>3, <3>1
    <3>3. Cardinality(upTo(k)) <= Cardinality(upTo(j)) /\ Cardinality(upTo(j)) \in Nat
      BY <1>3, <3>2, KeysFinite, FS_Subset
    <3> QED
      BY <2>1, <3>1, <3>3
  <2>4. ASSUME NEW j \in Lowest(n, S) PROVE j < k
    <3>1. j \in Nat /\ k \in Nat /\ ~ (k <= j)
      BY <1>1, <1>2, <1>5, <2>3
    <3> QED
      BY <3>1
  <2> QED
    BY <2>1, <2>2, <2>4
<1> QED
  BY <1>1, <1>4, <1>5

-----------------------------------------------------------------------------
(* Other clients *)

LEMMA OInit == Init => OInv
<1> SUFFICES ASSUME Init PROVE OInv
  OBVIOUS
<1>1. NoEntries \in Functions(Keys, Values) /\ DOMAIN NoEntries = {}
  <2>1. NoEntries \in [{} -> Values] /\ {} \in SUBSET Keys
    BY DEF NoEntries
  <2> QED
    BY <2>1 DEF Functions, NoEntries
<1>2. TypeOK
  <2>1. omap \in [Keys -> Values \cup {Absent}] /\ exists \in BOOLEAN
    BY DEF Init
  <2>2. key \in Keys /\ kept \in BOOLEAN /\ had \in SUBSET Values /\ missing \in BOOLEAN
    BY <2>1 DEF Init
  <2>3. 0 \in Keys
    BY OmapScanAssumption DEF Keys
  <2> QED
    BY <1>1, <2>1, <2>2, <2>3 DEF Init, TypeOK
<1>3. HistoryTrue
  BY DEF Init, HistoryTrue
<1>4. PagesDone /\ PageRead
  <2>1. cursor = 0 /\ key \in Nat /\ (key <= cursor => key = 0) /\ ~ more
    BY OmapScanAssumption DEF Init, Keys
  <2>2. scan.kind # "by_keys" /\ InScope(key) => key # 0
    BY DEF InScope
  <2> QED
    BY <1>1, <2>1, <2>2 DEF Init, PagesDone, PageRead
<1>5. ScanComplete /\ ScanTrue
  BY <1>1 DEF Init, ScanComplete, ScanTrue, FoundThere, ScanOnce, FailsForCause, Ok
<1> QED
  BY <1>2, <1>3, <1>4, <1>5 DEF OInv

\* Whatever others do, a page that was read stays true.
LEMMA BecomesKeeps ==
  ASSUME OInv, NEW e \in BOOLEAN, NEW o \in [Keys -> Values \cup {Absent}], Becomes(e, o)
  PROVE  OInv'
<1> USE DEF Becomes, scanvars
<1>1. TypeOK /\ key \in Keys
  BY DEF OInv, TypeOK
<1>2. TypeOK'
  <2>1. had' \in SUBSET Values /\ kept' \in BOOLEAN /\ missing' \in BOOLEAN
    BY <1>1 DEF TypeOK
  <2> QED
    BY <1>1, <2>1 DEF TypeOK, Scans
<1>3. HistoryTrue'
  BY DEF OInv, HistoryTrue
<1>4. /\ kept' => kept
      /\ had \subseteq had'
      /\ missing => missing'
  OBVIOUS
<1>5. PagesDone'
  BY <1>4 DEF OInv, PagesDone, InScope
<1>6. PageRead'
  BY <1>4 DEF OInv, PageRead, PageTrue, InScope, Pairs
<1>7. ScanComplete'
  BY <1>4 DEF OInv, ScanComplete, InScope
<1>8. ScanTrue'
  BY <1>4 DEF OInv, ScanTrue, FoundThere, ScanOnce, FailsForCause, InScope
<1> QED
  BY <1>2, <1>3, <1>5, <1>6, <1>7, <1>8 DEF OInv

LEMMA ChangeKeeps ==
  ASSUME OInv, Change
  PROVE  OInv'
<1>1. omap \in [Keys -> Values \cup {Absent}]
  BY DEF OInv, TypeOK
<1>2. ASSUME NEW k \in Keys, OmapRmKey(k) PROVE OInv'
  <2>1. [omap EXCEPT ![k] = Absent] \in [Keys -> Values \cup {Absent}]
    BY <1>1
  <2> QED
    BY <1>2, <2>1, BecomesKeeps DEF OmapRmKey
<1>3. ASSUME NEW k \in Keys, NEW v \in Values, OmapSet(k, v) PROVE OInv'
  <2>1. [omap EXCEPT ![k] = v] \in [Keys -> Values \cup {Absent}]
    BY <1>1
  <2> QED
    BY <1>3, <2>1, BecomesKeeps DEF OmapSet
<1>4. [k \in Keys |-> Absent] \in [Keys -> Values \cup {Absent}]
  OBVIOUS
<1> QED
  BY <1>2, <1>3, <1>4, BecomesKeeps DEF Change, OmapClear, Remove

-----------------------------------------------------------------------------
(* The step of a page, and the OSD *)

LEMMA AddStepKeeps ==
  ASSUME OInv, AddStep
  PROVE  OInv'
<1> USE DEF AddStep, EndFailed, objvars, history
<1>1. /\ TypeOK /\ stage = "next"
      /\ UNCHANGED <<exists, omap, scan, cursor, ret, got, key, kept, had, missing, twice>>
  BY DEF OInv
<1>2. CASE Named
  <2>1. /\ stage' = "operating" /\ iter' = NoEntries /\ more' = FALSE /\ outcome' = outcome
    BY <1>2
  <2>2. NoEntries \in Functions(Keys, Values \cup {NullPtr})
    <3>1. NoEntries \in [{} -> Values \cup {NullPtr}] /\ {} \in SUBSET Keys
      BY DEF NoEntries
    <3> QED
      BY <3>1 DEF Functions
  <2>3. TypeOK'
    BY <1>1, <2>1, <2>2 DEF TypeOK
  <2>4. HistoryTrue' /\ PagesDone' /\ PageRead'
    BY <1>1, <2>1 DEF OInv, HistoryTrue, PagesDone, PageRead, InScope
  <2>5. ScanComplete' /\ ScanTrue'
    BY <1>1, <2>1
    DEF OInv, ScanComplete, ScanTrue, FoundThere, ScanOnce, FailsForCause, InScope
  <2> QED
    BY <2>3, <2>4, <2>5 DEF OInv
<1>3. CASE ~ Named
  <2>1. /\ stage' = "idle" /\ outcome' = "Nul" /\ iter' = NoIter /\ more' = more
    BY <1>3
  <2>2. TypeOK'
    BY <1>1, <2>1 DEF TypeOK
  <2>3. HistoryTrue' /\ PagesDone' /\ PageRead'
    BY <1>1, <2>1 DEF OInv, HistoryTrue, PagesDone, PageRead
  <2>4. ScanComplete'
    BY <2>1 DEF ScanComplete, Ok
  <2>5. scan.prefix \in HasNul \/ (scan.kind # "by_keys" /\ DOMAIN got \cap HasNul # {})
    <3>1. CASE cursor \in HasNul
      <4>1. cursor # 0
        <5>1. 0 \notin Prefixes
          BY OmapScanAssumption DEF Keys
        <5> QED
          BY <3>1, <5>1, OmapScanAssumption
      <4>2. cursor \in DOMAIN got /\ scan.kind # "by_keys"
        BY <1>1, <4>1 DEF OInv, PagesDone
      <4> QED
        BY <3>1, <4>2
    <3>2. CASE cursor \notin HasNul
      BY <1>3, <3>2 DEF Named, Prefix
    <3> QED
      BY <3>1, <3>2
  <2>6. ScanTrue'
    BY <1>1, <2>1, <2>5
    DEF OInv, ScanTrue, FoundThere, ScanOnce, FailsForCause, InScope
  <2> QED
    BY <2>2, <2>3, <2>4, <2>6 DEF OInv
<1> QED
  BY <1>2, <1>3

\* What an answer of the OSD leaves as it is.
LEMMA OperatedKeeps ==
  ASSUME OInv, NEW r \in {"OK", "ENOENT", "EIO"}, Operated(r),
         iter' \in Functions(Keys, Values \cup {NullPtr}), more' \in BOOLEAN,
         r = "OK" => PageTrue', r = "ENOENT" => missing
  PROVE  OInv'
<1> USE DEF Operated, objvars, history
<1>1. TypeOK'
  BY DEF OInv, TypeOK
<1>2. HistoryTrue' /\ PagesDone' /\ PageRead'
  BY DEF OInv, HistoryTrue, PagesDone, PageRead, InScope
<1>3. ScanComplete' /\ ScanTrue'
  BY DEF OInv, ScanComplete, ScanTrue, FoundThere, ScanOnce, FailsForCause, InScope
<1> QED
  BY <1>1, <1>2, <1>3 DEF OInv

LEMMA OsdFailsKeeps ==
  ASSUME OInv, OsdFails
  PROVE  OInv'
<1>1. PICK e \in {"EIO"} \cup (IF exists THEN {} ELSE {"ENOENT"}) : Operated(e)
  BY DEF OsdFails
<1>2. /\ iter' \in Functions(Keys, Values \cup {NullPtr}) /\ more' \in BOOLEAN
      /\ e \in {"OK", "ENOENT", "EIO"} /\ e # "OK"
      /\ e = "ENOENT" => missing
  BY <1>1 DEF OsdFails, Operated, OInv, TypeOK, HistoryTrue
<1> QED
  BY <1>1, <1>2, OperatedKeeps

\* The pointers of a page, and what Pairs makes of them.
LEMMA PointersAre ==
  ASSUME OInv, NEW S \in SUBSET Keys, \A k \in S : omap[k] # Absent
  PROVE  /\ Pointers(S) \in Functions(Keys, Values \cup {NullPtr})
         /\ DOMAIN Pointers(S) = S
         /\ \A k \in S : scan.kind # "keys" =>
              (IF Pointers(S)[k] = NullPtr THEN Empty ELSE Pointers(S)[k]) = omap[k]
<1>1. \A k \in S : omap[k] \in Values
  BY DEF OInv, TypeOK
<1>2. Pointers(S) \in [S -> Values \cup {NullPtr}] /\ DOMAIN Pointers(S) = S
  BY <1>1 DEF Pointers
<1>3. Pointers(S) \in Functions(Keys, Values \cup {NullPtr})
  BY <1>2 DEF Functions
<1>4. \A k \in S : scan.kind # "keys" =>
        (IF Pointers(S)[k] = NullPtr THEN Empty ELSE Pointers(S)[k]) = omap[k]
  BY <1>1, OmapScanAssumption DEF Pointers
<1> QED
  BY <1>2, <1>3, <1>4

LEMMA OsdReadsKeeps ==
  ASSUME OInv, OsdReads
  PROVE  OInv'
<1>1. /\ TypeOK /\ HistoryTrue /\ stage = "operating" /\ Operated("OK") /\ ~ more
      /\ UNCHANGED <<omap, scan, cursor, key, kept, had>>
  BY DEF OInv, OsdReads, Operated, objvars, history, PageRead
<1>2. Eligible \in SUBSET Keys /\ (\A k \in Eligible : omap[k] # Absent)
  BY DEF Eligible
<1>3. kept /\ InScope(key) /\ (scan.kind = "by_keys" \/ key > cursor) => key \in Eligible
  BY <1>1 DEF TypeOK, HistoryTrue, InScope, Eligible, Prefix
<1>4. key \in Eligible => InScope(key)
  <2>1. scan.kind # "by_keys" /\ key \in Eligible => key > cursor /\ cursor \in Nat
    BY <1>1, OmapScanAssumption DEF Eligible, TypeOK, Keys
  <2>2. scan.kind # "by_keys" /\ key \in Eligible => key # 0
    BY <2>1
  <2> QED
    BY <2>2 DEF Eligible, InScope, Prefix
<1>5. scan.kind # "by_keys" => \A k \in Eligible : k > cursor
  BY DEF Eligible
<1>6. ASSUME NEW S \in SUBSET Eligible, iter' = Pointers(S), more' \in BOOLEAN,
             scan.kind = "by_keys" => S = Eligible /\ ~ more',
             more' => S # {},
             \A k \in Eligible \ S : more' /\ \A j \in S : j < k
      PROVE  OInv'
  <2>1. /\ iter' \in Functions(Keys, Values \cup {NullPtr}) /\ DOMAIN iter' = S
        /\ \A k \in S : scan.kind # "keys" =>
             (IF iter'[k] = NullPtr THEN Empty ELSE iter'[k]) = omap[k]
    BY <1>2, <1>6, PointersAre
  <2>2. key \in S => omap[key] \in had
    BY <1>1, <1>2, <1>6 DEF HistoryTrue
  <2>3. key \in S => Pairs'[key] = IF iter'[key] = NullPtr THEN Empty ELSE iter'[key]
    BY <2>1 DEF Pairs
  <2>4. key \in S => had # {} /\ (scan.kind # "keys" => Pairs'[key] \in had)
    BY <2>1, <2>2, <2>3
  <2>5. kept /\ InScope(key) /\ (scan.kind = "by_keys" \/ key > cursor) =>
          key \in S \/ (more' /\ \A k \in S : k < key)
    BY <1>3, <1>6
  <2>6. PageTrue'
    BY <1>1, <1>4, <1>5, <1>6, <2>1, <2>4, <2>5 DEF PageTrue, InScope
  <2> QED
    BY <1>1, <1>6, <2>1, <2>6, OperatedKeeps
<1>7. CASE scan.kind = "by_keys"
  BY <1>1, <1>6, <1>7 DEF OsdReads, TypeOK
<1>8. CASE scan.kind # "by_keys"
  <2>1. PICK n \in 1 .. PageSize :
          iter' = Pointers(Lowest(n, Eligible)) /\ more' = (Cardinality(Eligible) > n)
    BY <1>8 DEF OsdReads
  <2>2. n \in Nat \ {0}
    BY <2>1, OmapScanAssumption
  <2>3. /\ Lowest(n, Eligible) \subseteq Eligible
        /\ more' => Lowest(n, Eligible) # {}
        /\ \A k \in Eligible \ Lowest(n, Eligible) :
             more' /\ \A j \in Lowest(n, Eligible) : j < k
    BY <1>2, <2>1, <2>2, LowestIs
  <2> QED
    BY <1>6, <1>8, <2>1, <2>3
<1> QED
  BY <1>7, <1>8

-----------------------------------------------------------------------------
(* The result *)

LEMMA TakeFailedKeeps ==
  ASSUME OInv, Take, CheckErr(ret) # Ok
  PROVE  OInv'
<1>1. /\ TypeOK /\ stage = "operated" /\ stage' = "idle" /\ iter' = NoIter
      /\ outcome' = CheckErr(ret)
      /\ UNCHANGED <<exists, omap, scan, cursor, got, twice, more, ret, key, kept, had, missing>>
  BY DEF OInv, Take, EndFailed, objvars
<1>2. /\ outcome' \in {"NotFound", "EIO"}
      /\ outcome' = "NotFound" => missing
  BY <1>1 DEF TypeOK, CheckErr, Ok, OInv, PageRead
<1>3. TypeOK'
  BY <1>1, <1>2 DEF TypeOK
<1>4. HistoryTrue' /\ PagesDone' /\ PageRead'
  BY <1>1 DEF OInv, HistoryTrue, PagesDone, PageRead
<1>5. ScanComplete' /\ ScanTrue'
  BY <1>1, <1>2
  DEF OInv, ScanComplete, ScanTrue, FoundThere, ScanOnce, FailsForCause, InScope, Ok
<1> QED
  BY <1>3, <1>4, <1>5 DEF OInv

\* What a scan has after a page.
LEMMA PageAdded ==
  ASSUME OInv, stage = "operated", ret = "OK",
         got' = [k \in DOMAIN got \cup DOMAIN Pairs |-> IF k \in DOMAIN Pairs THEN Pairs[k] ELSE got[k]]
  PROVE  /\ DOMAIN Pairs = DOMAIN iter /\ DOMAIN iter \in SUBSET Keys
         /\ DOMAIN got \in SUBSET Keys
         /\ got' \in Functions(Keys, Values)
         /\ DOMAIN got' = DOMAIN got \cup DOMAIN iter
         /\ \A k \in DOMAIN got' : k \in DOMAIN iter \/ (k \in DOMAIN got /\ k <= cursor)
         /\ DOMAIN got \cap DOMAIN iter = {}
         /\ key \in DOMAIN got' =>
              InScope(key) /\ IF scan.kind = "keys" THEN had # {} ELSE got'[key] \in had
<1>1. TypeOK /\ PageTrue /\ PagesDone /\ ScanTrue
  BY DEF OInv, PageRead
<1>2. iter \in Functions(Keys, Values \cup {NullPtr}) /\ got \in Functions(Keys, Values)
  BY <1>1 DEF TypeOK
<1>3. PICK D \in SUBSET Keys : iter \in [D -> Values \cup {NullPtr}]
  BY <1>2 DEF Functions
<1>4. PICK G \in SUBSET Keys : got \in [G -> Values]
  BY <1>2 DEF Functions
<1>5. Pairs \in [D -> Values] /\ DOMAIN Pairs = D /\ DOMAIN iter = D
  BY <1>3, OmapScanAssumption DEF Pairs
<1>6. got' \in [G \cup D -> Values] /\ DOMAIN got' = G \cup D /\ DOMAIN got = G
  BY <1>4, <1>5
<1>7. got' \in Functions(Keys, Values)
  BY <1>6 DEF Functions
<1>8. /\ \A k \in G : k <= cursor
      /\ scan.kind = "by_keys" => G = {}
      /\ scan.kind # "by_keys" => \A k \in D : k > cursor
  BY <1>1, <1>5, <1>6 DEF PagesDone, PageTrue
<1>9. G \cap D = {}
  <2>1. \A k \in Keys : k \in Nat /\ cursor \in Nat
    BY <1>1, OmapScanAssumption DEF TypeOK, Keys
  <2> QED
    BY <1>8, <2>1
<1>10. key \in DOMAIN got' =>
         InScope(key) /\ IF scan.kind = "keys" THEN had # {} ELSE got'[key] \in had
  <2>1. CASE key \in D
    <3>1. InScope(key) /\ had # {} /\ (scan.kind # "keys" => Pairs[key] \in had)
      BY <1>1, <1>5, <2>1 DEF PageTrue
    <3>2. got'[key] = Pairs[key]
      BY <1>5, <1>6, <2>1
    <3> QED
      BY <3>1, <3>2
  <2>2. CASE key \in G /\ key \notin D
    <3>1. got'[key] = got[key]
      BY <1>5, <1>6, <2>2
    <3> QED
      BY <1>1, <1>6, <2>2, <3>1 DEF ScanTrue, FoundThere
  <2> QED
    BY <1>6, <2>1, <2>2
<1> QED
  BY <1>3, <1>4, <1>5, <1>6, <1>7, <1>8, <1>9, <1>10

LEMMA TakePageKeeps ==
  ASSUME OInv, Take, CheckErr(ret) = Ok
  PROVE  OInv'
<1>1. /\ TypeOK /\ stage = "operated" /\ TakePage
      /\ UNCHANGED <<exists, omap, scan, more, ret, key, kept, had, missing>>
  BY DEF OInv, Take, objvars
<1>2. ret = "OK"
  BY <1>1 DEF TypeOK, CheckErr, Ok
<1>3. /\ got' = [k \in DOMAIN got \cup DOMAIN Pairs |->
                   IF k \in DOMAIN Pairs THEN Pairs[k] ELSE got[k]]
      /\ twice' = (twice \/ DOMAIN got \cap DOMAIN Pairs # {})
      /\ iter' = NoIter
  BY <1>1 DEF TakePage
<1>4. /\ DOMAIN Pairs = DOMAIN iter /\ DOMAIN iter \in SUBSET Keys
      /\ DOMAIN got \in SUBSET Keys
      /\ got' \in Functions(Keys, Values)
      /\ DOMAIN got' = DOMAIN got \cup DOMAIN iter
      /\ \A k \in DOMAIN got' : k \in DOMAIN iter \/ (k \in DOMAIN got /\ k <= cursor)
      /\ DOMAIN got \cap DOMAIN iter = {}
      /\ key \in DOMAIN got' =>
           InScope(key) /\ IF scan.kind = "keys" THEN had # {} ELSE got'[key] \in had
  BY <1>1, <1>2, <1>3, PageAdded
<1>5. PageTrue /\ PagesDone /\ HistoryTrue /\ ScanTrue /\ outcome = "none"
  BY <1>1, <1>2 DEF OInv, PageRead, PagesDone
<1>6. ~ twice'
  BY <1>3, <1>4, <1>5 DEF ScanTrue, ScanOnce
<1>7. FoundThere' /\ ScanOnce' /\ HistoryTrue'
  BY <1>1, <1>4, <1>5, <1>6 DEF FoundThere, ScanOnce, InScope, HistoryTrue
<1>8. kept /\ InScope(key) /\ ~ more => key \in DOMAIN got'
  <2>1. key \in Nat /\ cursor \in Nat
    BY <1>1, OmapScanAssumption DEF TypeOK, Keys
  <2>2. kept /\ InScope(key) /\ (scan.kind = "by_keys" \/ key > cursor) /\ ~ more =>
          key \in DOMAIN iter
    BY <1>5 DEF PageTrue
  <2>3. kept /\ InScope(key) /\ scan.kind # "by_keys" /\ key <= cursor => key \in DOMAIN got
    BY <1>1, <1>5 DEF PagesDone
  <2> QED
    BY <1>4, <2>1, <2>2, <2>3
<1>9. more => Pairs # NoEntries
  <2>1. DOMAIN NoEntries = {}
    BY DEF NoEntries
  <2> QED
    BY <1>4, <1>5, <2>1 DEF PageTrue
<1>10. CASE ~ more
  <2>1. stage' = "idle" /\ outcome' = Ok /\ cursor' = cursor
    BY <1>1, <1>10 DEF TakePage
  <2>2. TypeOK'
    BY <1>1, <1>3, <1>4, <2>1 DEF TypeOK
  <2>3. PagesDone' /\ PageRead'
    BY <2>1 DEF PagesDone, PageRead
  <2>4. ScanComplete'
    BY <1>1, <1>8, <1>10 DEF ScanComplete, InScope
  <2>5. FailsForCause'
    BY <2>1 DEF FailsForCause, Ok
  <2> QED
    BY <1>7, <2>2, <2>3, <2>4, <2>5 DEF OInv, ScanTrue
<1>11. CASE more
  <2>1. stage' = "next" /\ cursor' = NextCursor(Pairs) /\ outcome' = outcome
    BY <1>1, <1>9, <1>11 DEF TakePage
  <2>2. DOMAIN iter # {} /\ scan.kind # "by_keys"
    BY <1>5, <1>11 DEF PageTrue
  <2>3. cursor' \in DOMAIN iter /\ \A k \in DOMAIN iter : k <= cursor'
    <3>1. \E k \in DOMAIN iter : \A j \in DOMAIN iter : j <= k
      BY <1>4, <2>2, LastKey
    <3> QED
      BY <1>4, <2>1, <3>1 DEF NextCursor
  <2>4. key \in Nat /\ cursor \in Nat /\ cursor' \in Nat /\ cursor < cursor' /\ cursor' \in Keys
        /\ \A k \in Keys : k \in Nat
    BY <1>1, <1>4, <1>5, <2>2, <2>3, OmapScanAssumption DEF TypeOK, Keys, PageTrue
  <2>5. TypeOK'
    BY <1>1, <1>3, <1>4, <1>5, <2>1, <2>4 DEF TypeOK
  <2>6. \A k \in DOMAIN got' : k <= cursor'
    <3>1. ASSUME NEW k \in DOMAIN got, k <= cursor PROVE k <= cursor'
      <4>1. k \in Nat
        BY <1>4, <2>4
      <4> QED
        BY <2>4, <3>1, <4>1
    <3> QED
      BY <1>4, <2>3, <3>1
  <2>7. kept /\ InScope(key) /\ key <= cursor' => key \in DOMAIN got'
    <3> SUFFICES ASSUME kept, InScope(key), key <= cursor' PROVE key \in DOMAIN got'
      OBVIOUS
    <3>1. CASE key <= cursor
      BY <1>1, <1>4, <1>5, <2>2, <3>1 DEF PagesDone
    <3>2. CASE key > cursor
      <4>1. key \in DOMAIN iter \/ \A k \in DOMAIN iter : k < key
        BY <1>5, <3>2 DEF PageTrue
      <4>2. key \in DOMAIN iter \/ cursor' < key
        BY <2>3, <4>1
      <4> QED
        BY <1>4, <2>4, <4>2
    <3> QED
      BY <2>4, <3>1, <3>2
  <2>8. PagesDone'
    BY <1>1, <1>4, <1>5, <2>1, <2>2, <2>3, <2>6, <2>7 DEF PagesDone, InScope
  <2>9. PageRead'
    BY <2>1 DEF PageRead
  <2>10. ScanComplete' /\ FailsForCause'
    BY <1>5, <2>1 DEF ScanComplete, FailsForCause, Ok
  <2> QED
    BY <1>7, <2>5, <2>8, <2>9, <2>10 DEF OInv, ScanTrue
<1> QED
  BY <1>10, <1>11

-----------------------------------------------------------------------------
(* The theorems *)

LEMMA ONext ==
  ASSUME OInv, [Next]_vars
  PROVE  OInv'
<1>1. CASE UNCHANGED vars \/ Terminated
  <2> USE DEF vars, objvars, scanvars, history, Terminated
  <2>1. TypeOK' /\ HistoryTrue' /\ PagesDone' /\ PageRead'
    BY <1>1 DEF OInv, TypeOK, HistoryTrue, PagesDone, PageRead, PageTrue, InScope, Pairs
  <2>2. ScanComplete' /\ ScanTrue'
    BY <1>1 DEF OInv, ScanComplete, ScanTrue, FoundThere, ScanOnce, FailsForCause, InScope
  <2> QED
    BY <2>1, <2>2 DEF OInv
<1>2. CASE Scanner
  BY <1>2, AddStepKeeps, TakeFailedKeeps, TakePageKeeps DEF Scanner
<1>3. CASE Osd
  BY <1>3, OsdReadsKeeps, OsdFailsKeeps DEF Osd
<1>4. CASE Change
  BY <1>4, ChangeKeeps
<1> QED
  BY <1>1, <1>2, <1>3, <1>4 DEF Next

LEMMA OAlways == Spec => []OInv
<1>1. OInv /\ [Next]_vars => OInv'
  BY ONext
<1> QED
  BY OInit, <1>1, PTL DEF Spec

\* Every variable stays within its range, an iterator lives as long as its operation, and the
\* loop of omap_page_is_marked_truncated never meets an empty page that is not the last.
THEOREM OmapScanTypeCorrect == Spec => []TypeOK
<1>1. OInv => TypeOK
  BY DEF OInv
<1> QED
  BY OAlways, <1>1, PTL

\* OmapIter misses no key that stays, of any object and in pages of any size, whatever other
\* clients do between the pages.
THEOREM ScansAreComplete == Spec => []ScanComplete
<1>1. OInv => ScanComplete
  BY DEF OInv
<1> QED
  BY OAlways, <1>1, PTL

\* What omap_get_vals, omap_get_keys and omap_get_vals_by_keys return was there and was asked
\* for, no key comes twice, and an error has the cause that it names.
THEOREM ScansAreTrue == Spec => []ScanTrue
<1>1. OInv => ScanTrue
  BY DEF OInv
<1> QED
  BY OAlways, <1>1, PTL


-----------------------------------------------------------------------------
(* Listings: the inductive invariant *)

\* Each name is that of an object of its own, which was handed out, ...
Handed(f) ==
  /\ f \in [DOMAIN names -> Objects]
  /\ \A i, j \in DOMAIN names : f[i] = f[j] => i = j
  /\ \A i \in DOMAIN names :
       f[i] <= position /\ f[i] \notin batch /\ f[i] \in possible /\ names[i] = Lossy[f[i]]

\* ... and no object that was there all the time has been passed over.
PassesNone(f) ==
  \A o \in stayed : o <= position => o \in batch \/ \E i \in DOMAIN names : f[i] = o

NamesMatch == \E f \in [DOMAIN names -> Objects] : Handed(f) /\ PassesNone(f)

\* A batch is of what lies up to the position, and was there.
BatchFetched ==
  /\ \A o \in batch : o <= position /\ o \in possible
  /\ objects \subseteq possible

\* The end is what is told of an empty batch at the end of the objects, or of the pool.
AtEnd == batch = {} /\ (position = MaxObject \/ ~ pool)

EndTrue ==
  /\ phase = "opened" => code # "ENOENT"
  /\ phase = "returned" /\ code = "OK" => batch # {}
  /\ phase = "returned" /\ code = "ENOENT" => AtEnd
  /\ reply = Ok => AtEnd
  /\ reply # "none" => phase = "idle"
  /\ ~ pool => objects = {}

ListInv == ListingTypeOK /\ NamesMatch /\ BatchFetched /\ EndTrue

-----------------------------------------------------------------------------

LEMMA LowestListed ==
  ASSUME NEW b \in SUBSET Objects, b # {}
  PROVE  Min(b) \in b
<1>1. b \in SUBSET Nat
  BY ListingAssumption DEF Objects
<1>2. \E x \in b : \A y \in b : x <= y
  BY <1>1, Least
<1> QED
  BY <1>2 DEF Min

LEMMA InitListInv == ListingInit => ListInv
<1> SUFFICES ASSUME ListingInit PROVE ListInv
  OBVIOUS
<1> USE DEF ListingInit
<1>1. ListingTypeOK
  BY ListingAssumption DEF ListingTypeOK, Ok
<1>2. DOMAIN names = {} /\ names \in [DOMAIN names -> Objects]
  OBVIOUS
<1>3. \A o \in stayed : ~ (o <= position)
  BY ListingAssumption DEF Objects
<1>4. Handed(names) /\ PassesNone(names)
  BY <1>2, <1>3 DEF Handed, PassesNone
<1>5. NamesMatch
  BY <1>2, <1>4 DEF NamesMatch
<1> QED
  BY <1>1, <1>5 DEF ListInv, BatchFetched, EndTrue, Ok

\* Nothing is asked of what others change but that it is there at some time.
LEMMA ChangeListInv ==
  ASSUME ListInv, NEW s \in SUBSET Objects, ObjectsBecome(s),
         pool' \in BOOLEAN, pool' = pool \/ (~ pool' /\ s = {})
  PROVE  ListInv'
<1> USE DEF ListInv
<1>1. /\ phase # "idle" /\ pool /\ objects' = s /\ stayed' = stayed \cap s
      /\ possible' = possible \cup s
      /\ UNCHANGED <<context, position, batch, phase, code, names, reply>>
  BY DEF ObjectsBecome, listvars
<1>2. ListingTypeOK'
  BY <1>1 DEF ListingTypeOK
<1>3. PICK f \in [DOMAIN names -> Objects] : Handed(f) /\ PassesNone(f)
  BY DEF NamesMatch
<1>4. Handed(f)' /\ PassesNone(f)'
  BY <1>1, <1>3 DEF Handed, PassesNone
<1>5. NamesMatch'
  BY <1>1, <1>4 DEF NamesMatch
<1>6. BatchFetched'
  BY <1>1 DEF BatchFetched
<1>7. EndTrue'
  BY <1>1 DEF EndTrue, AtEnd
<1> QED
  BY <1>2, <1>5, <1>6, <1>7

\* What is done between the names leaves them alone.
LEMMA QuietListInv ==
  ASSUME ListInv,
         UNCHANGED <<pool, objects, position, batch, names, stayed, possible>>,
         context' \in {"none", "open", "closed"}, phase' = "idle" => context' # "open",
         phase' \in {"opening", "opened", "listing", "returned", "idle"},
         code' \in {"OK", "ENOENT", "EIO"}, reply' \in {"none", Ok, "EIO"},
         EndTrue'
  PROVE  ListInv'
<1> USE DEF ListInv
<1>1. ListingTypeOK'
  BY DEF ListingTypeOK
<1>2. NamesMatch'
  BY DEF NamesMatch, Handed, PassesNone
<1>3. BatchFetched'
  BY DEF BatchFetched
<1> QED
  BY <1>1, <1>2, <1>3

\* A batch is what there is between the position and where it moves to.
LEMMA FetchListInv ==
  ASSUME ListInv, RadosFetch
  PROVE  ListInv'
<1> USE DEF ListInv
<1>1. PICK to \in position + 1 .. MaxObject :
        batch' = objects \cap position + 1 .. to /\ position' = to
  BY DEF RadosFetch
<1>2. /\ phase = "listing" /\ batch = {}
      /\ UNCHANGED <<pool, objects, context, phase, code, names, reply, stayed, possible>>
  BY DEF RadosFetch, poolvars
<1>3. /\ position \in Nat /\ MaxObject \in Nat /\ to \in Nat /\ to <= MaxObject /\ position < to
      /\ objects \in SUBSET Objects /\ stayed \in SUBSET objects
      /\ \A o \in Objects : o \in Nat
  BY <1>1, ListingAssumption DEF ListingTypeOK, Objects
<1>4. \A o \in batch' : o \in objects /\ position < o /\ o <= to
  BY <1>1, <1>3
<1>5. ListingTypeOK'
  BY <1>1, <1>2, <1>3 DEF ListingTypeOK
<1>6. PICK f \in [DOMAIN names -> Objects] : Handed(f) /\ PassesNone(f)
  BY DEF NamesMatch
<1>7. Handed(f)'
  <2>1. ASSUME NEW i \in DOMAIN names PROVE f[i] <= to /\ f[i] \notin batch'
    <3>1. f[i] \in Nat /\ f[i] <= position
      BY <1>3, <1>6 DEF Handed
    <3> QED
      BY <1>3, <1>4, <3>1
  <2> QED
    BY <1>1, <1>2, <1>6, <2>1 DEF Handed
<1>8. PassesNone(f)'
  <2>1. ASSUME NEW o \in stayed, o <= to PROVE o \in batch' \/ \E i \in DOMAIN names : f[i] = o
    <3>1. o \in Nat /\ o \in objects
      BY <1>3
    <3>2. CASE o <= position
      BY <1>2, <1>6, <3>2 DEF PassesNone
    <3>3. CASE ~ (o <= position)
      <4>1. o \in position + 1 .. to
        BY <1>3, <2>1, <3>1, <3>3
      <4> QED
        BY <1>1, <3>1, <4>1
    <3> QED
      BY <3>2, <3>3
  <2> QED
    BY <1>1, <1>2, <2>1 DEF PassesNone
<1>9. NamesMatch'
  BY <1>2, <1>7, <1>8 DEF NamesMatch
<1>10. BatchFetched'
  <2>1. objects \subseteq possible
    BY DEF BatchFetched
  <2> QED
    BY <1>1, <1>2, <1>4, <2>1 DEF BatchFetched
<1>11. EndTrue'
  BY <1>2 DEF EndTrue, Ok
<1> QED
  BY <1>5, <1>9, <1>10, <1>11

\* The lowest object of the batch is handed out under the next name.
LEMMA PushListInv ==
  ASSUME ListInv, phase = "returned", code # "ENOENT", Push
  PROVE  ListInv'
<1> USE DEF ListInv
<1> DEFINE n == Len(names)
           x == Min(batch)
<1>1. /\ names' = Append(names, Lossy[x]) /\ batch' = batch \ {x} /\ phase' = "listing"
      /\ CheckErr(code) = Ok
      /\ UNCHANGED <<pool, objects, context, position, code, reply, stayed, possible>>
  BY DEF Push, Copied, poolvars
<1>2. code = "OK"
  BY <1>1 DEF CheckErr, Ok, ListingTypeOK
<1>3. batch # {} /\ batch \in SUBSET Objects
  BY <1>2 DEF EndTrue, ListingTypeOK
<1>4. x \in batch /\ x \in Objects
  BY <1>3, LowestListed
<1>5. x <= position /\ x \in possible /\ Lossy[x] \in Names
  BY <1>4, ListingAssumption DEF BatchFetched
<1>6. names \in Seq(Names \cup {Garbage}) /\ n \in Nat /\ DOMAIN names = 1 .. n
  BY DEF ListingTypeOK
<1> HIDE DEF n, x
<1>7. /\ names' \in Seq(Names \cup {Garbage}) /\ DOMAIN names' = 1 .. n + 1
      /\ names'[n + 1] = Lossy[x] /\ \A i \in 1 .. n : names'[i] = names[i]
  BY <1>1, <1>5, <1>6 DEF n
<1>8. ListingTypeOK'
  BY <1>1, <1>3, <1>7 DEF ListingTypeOK
<1>9. PICK f \in [DOMAIN names -> Objects] : Handed(f) /\ PassesNone(f)
  BY DEF NamesMatch
<1>10. PICK g \in [DOMAIN names' -> Objects] :
         /\ g[n + 1] = x
         /\ \A i \in 1 .. n : g[i] = f[i] /\ i \in DOMAIN names
         /\ \A i \in DOMAIN names' : i \in 1 .. n \/ i = n + 1
  <2> DEFINE g == [i \in 1 .. n + 1 |-> IF i = n + 1 THEN x ELSE f[i]]
  <2>1. \A i \in 1 .. n + 1 : i \in 1 .. n \/ i = n + 1
    BY <1>6
  <2>2. \A i \in 1 .. n : i \in 1 .. n + 1 /\ i # n + 1
    BY <1>6
  <2>3. n + 1 \in 1 .. n + 1
    BY <1>6
  <2>4. \A i \in 1 .. n + 1 : g[i] \in Objects
    BY <1>4, <1>6, <1>9, <2>1
  <2> QED
    BY <1>6, <1>7, <2>1, <2>2, <2>3, <2>4
<1>11. \A i \in 1 .. n : f[i] # x
  BY <1>4, <1>9, <1>10 DEF Handed
<1>12. Handed(g)'
  <2>1. \A i, j \in DOMAIN names' : g[i] = g[j] => i = j
    BY <1>9, <1>10, <1>11 DEF Handed
  <2>2. ASSUME NEW i \in DOMAIN names'
        PROVE  /\ g[i] <= position /\ g[i] \notin batch' /\ g[i] \in possible
               /\ names'[i] = Lossy[g[i]]
    <3>1. CASE i = n + 1
      BY <1>1, <1>5, <1>7, <1>10, <3>1
    <3>2. CASE i \in 1 .. n
      BY <1>1, <1>7, <1>9, <1>10, <3>2 DEF Handed
    <3> QED
      BY <1>10, <3>1, <3>2
  <2> QED
    BY <1>1, <1>10, <2>1, <2>2 DEF Handed
<1>13. PassesNone(g)'
  <2>1. ASSUME NEW o \in stayed, o <= position
        PROVE  o \in batch' \/ \E i \in DOMAIN names' : g[i] = o
    <3>1. CASE o = x
      <4>1. n + 1 \in DOMAIN names'
        BY <1>6, <1>7
      <4> QED
        BY <1>10, <3>1, <4>1
    <3>2. CASE o # x
      <4>1. o \in batch \/ \E i \in DOMAIN names : f[i] = o
        BY <1>9, <2>1 DEF PassesNone
      <4>2. ASSUME NEW i \in DOMAIN names, f[i] = o PROVE \E k \in DOMAIN names' : g[k] = o
        <5>1. i \in 1 .. n /\ i \in DOMAIN names'
          BY <1>6, <1>7, <4>2
        <5> QED
          BY <1>10, <4>2, <5>1
      <4> QED
        BY <1>1, <3>2, <4>1, <4>2
    <3> QED
      BY <3>1, <3>2
  <2> QED
    BY <1>1, <2>1 DEF PassesNone
<1>14. NamesMatch'
  BY <1>10, <1>12, <1>13 DEF NamesMatch
<1>15. BatchFetched'
  BY <1>1 DEF BatchFetched
<1>16. EndTrue'
  BY <1>1 DEF EndTrue, Ok
<1> QED
  BY <1>8, <1>14, <1>15, <1>16

LEMMA ReturnListInv ==
  ASSUME ListInv, NEW result \in {Ok, "EIO"}, Return(result),
         result = Ok => AtEnd
  PROVE  ListInv'
<1>1. /\ phase' = "idle" /\ reply' = result /\ context' # "open"
      /\ context' \in {"none", "open", "closed"}
      /\ UNCHANGED <<pool, objects, position, batch, code, names, stayed, possible>>
  BY DEF Return, poolvars, ListInv, ListingTypeOK
<1>2. EndTrue'
  BY <1>1 DEF ListInv, EndTrue, AtEnd, Ok
<1> QED
  BY <1>1, <1>2, QuietListInv DEF ListInv, ListingTypeOK

LEMMA NextListInv == ListInv /\ [ListingNext]_lvars => ListInv'
<1> SUFFICES ASSUME ListInv, [ListingNext]_lvars PROVE ListInv'
  OBVIOUS
<1> USE DEF ListInv
<1>1. CheckErr("OK") = Ok /\ CheckErr("EIO") = "EIO" /\ Ok = "Ok"
  BY DEF CheckErr, Ok
<1>2. CASE UNCHANGED lvars
  BY <1>2, QuietListInv DEF lvars, poolvars, listvars, ListingTypeOK, EndTrue, AtEnd
<1>3. CASE DeletePool
  BY <1>3, ChangeListInv DEF DeletePool
<1>4. ASSUME NEW o \in Objects, CreateObject(o) \/ RemoveObject(o) PROVE ListInv'
  <2>1. /\ objects \cup {o} \in SUBSET Objects /\ objects \ {o} \in SUBSET Objects
        /\ pool \in BOOLEAN
    BY DEF ListingTypeOK
  <2>2. UNCHANGED pool
    BY <1>4 DEF CreateObject, RemoveObject
  <2> QED
    BY <1>4, <2>1, <2>2, ChangeListInv DEF CreateObject, RemoveObject
<1>5. CASE RadosOpen
  <2>1. EndTrue'
    BY <1>5 DEF RadosOpen, Opened, poolvars, EndTrue, AtEnd, Ok
  <2> QED
    BY <1>5, <2>1, QuietListInv DEF RadosOpen, Opened, poolvars, ListingTypeOK
<1>6. CASE RadosNext \/ RadosDrained \/ RadosFails
  <2>1. EndTrue'
    BY <1>6 DEF RadosNext, RadosDrained, RadosFails, NextReturns, poolvars, EndTrue, AtEnd,
       Ok
  <2> QED
    BY <1>6, <2>1, QuietListInv
    DEF RadosNext, RadosDrained, RadosFails, NextReturns, poolvars, ListingTypeOK
<1>7. CASE RadosFetch
  BY <1>7, FetchListInv
<1>8. CASE Open
  <2>1. code \in {"OK", "EIO"} /\ phase = "opened"
    BY <1>8 DEF Open, ListingTypeOK, EndTrue
  <2>2. CASE code = "EIO"
    <3>1. Return("EIO")
      BY <1>1, <1>8, <2>2 DEF Open
    <3> QED
      BY <1>1, <3>1, ReturnListInv
  <2>3. CASE code = "OK"
    <3>1. /\ phase' = "listing"
          /\ UNCHANGED <<pool, objects, context, position, batch, code, names, reply, stayed, possible>>
      BY <1>1, <1>8, <2>3 DEF Open, poolvars
    <3>2. EndTrue'
      BY <2>1, <3>1 DEF EndTrue, AtEnd, Ok
    <3> QED
      BY <3>1, <3>2, QuietListInv DEF ListingTypeOK
  <2> QED
    BY <2>1, <2>2, <2>3
<1>9. CASE ListObjects
  <2>1. phase = "returned"
    BY <1>9 DEF ListObjects
  <2>2. CASE code = "ENOENT"
    BY <1>9, <2>1, <2>2, ReturnListInv DEF ListObjects, End, EndTrue
  <2>3. CASE code # "ENOENT"
    <3>1. ~ End
      BY <2>3 DEF End
    <3>2. CASE Push
      BY <2>1, <2>3, <3>2, PushListInv
    <3>3. CASE Return(CheckErr(code)) /\ CheckErr(code) # Ok
      <4>1. code = "EIO"
        BY <1>1, <2>3, <3>3 DEF ListingTypeOK
      <4> QED
        BY <1>1, <3>3, <4>1, ReturnListInv
    <3> QED
      BY <1>9, <3>1, <3>2, <3>3 DEF ListObjects
  <2> QED
    BY <2>2, <2>3
<1> QED
  BY <1>2, <1>3, <1>4, <1>5, <1>6, <1>7, <1>8, <1>9 DEF ListingNext, Rados, Step, ObjectsChange, ListingTerminated

LEMMA SpecListInv == ListingSpec => []ListInv
<1>1. ListingInit => ListInv
  BY InitListInv
<1>2. ListInv /\ [ListingNext]_lvars => ListInv'
  BY NextListInv
<1> QED
  BY <1>1, <1>2, PTL DEF ListingSpec

-----------------------------------------------------------------------------

\* The names that are listed, each with an object of its own, are as many as the objects.
LEMMA CountNames ==
  ASSUME ListingTypeOK, NEW f, Handed(f), NEW n
  PROVE  /\ Cardinality(Listed(n)) <= Cardinality(ObjectsNamed(n, possible))
         /\ (\A o \in stayed : \E i \in DOMAIN names : f[i] = o) =>
              Cardinality(Listed(n)) >= Cardinality(ObjectsNamed(n, stayed))
<1>1. /\ f \in [DOMAIN names -> Objects]
      /\ \A i, j \in DOMAIN names : f[i] = f[j] => i = j
      /\ \A i \in DOMAIN names : f[i] \in possible /\ names[i] = Lossy[f[i]]
  BY DEF Handed
<1>2. /\ IsFiniteSet(ObjectsNamed(n, possible)) /\ IsFiniteSet(ObjectsNamed(n, stayed))
      /\ IsFiniteSet(Listed(n))
  <2>1. IsFiniteSet(Objects)
    BY FS_Interval, ListingAssumption DEF Objects
  <2>2. IsFiniteSet(DOMAIN names)
    <3>1. DOMAIN names = 1 .. Len(names) /\ Len(names) \in Nat
      BY DEF ListingTypeOK
    <3> QED
      BY <3>1, FS_Interval
  <2>3. /\ ObjectsNamed(n, possible) \subseteq Objects /\ ObjectsNamed(n, stayed) \subseteq Objects
        /\ Listed(n) \subseteq DOMAIN names
    BY DEF ObjectsNamed, Listed, ListingTypeOK
  <2> QED
    BY <2>1, <2>2, <2>3, FS_Subset
<1> DEFINE S == Listed(n)
           g == [i \in S |-> f[i]]
<1>3. S \subseteq DOMAIN names /\ \A i \in S : g[i] = f[i] /\ f[i] \in ObjectsNamed(n, possible)
  BY <1>1 DEF Listed, ObjectsNamed
<1>4. Cardinality(S) <= Cardinality(ObjectsNamed(n, possible))
  <2>1. g \in Injection(S, ObjectsNamed(n, possible))
    <3>1. g \in [S -> ObjectsNamed(n, possible)]
      BY <1>3
    <3>2. \A i, j \in S : g[i] = g[j] => i = j
      BY <1>1, <1>3
    <3> HIDE DEF g, S
    <3> QED
      BY <3>1, <3>2 DEF Injection, IsInjective
  <2> HIDE DEF g, S
  <2> QED
    BY <1>2, <2>1, FS_Injection
<1>5. ASSUME \A o \in stayed : \E i \in DOMAIN names : f[i] = o
      PROVE  Cardinality(S) >= Cardinality(ObjectsNamed(n, stayed))
  <2> DEFINE T == {i \in S : f[i] \in stayed}
             h == [i \in T |-> f[i]]
  <2>1. \A i \in T : h[i] = f[i] /\ f[i] \in ObjectsNamed(n, stayed)
    <3>1. ASSUME NEW i \in T PROVE f[i] \in ObjectsNamed(n, stayed)
      BY <1>1, <1>3 DEF Listed, ObjectsNamed
    <3> QED
      BY <3>1
  <2>2. \A o \in ObjectsNamed(n, stayed) : \E i \in T : h[i] = o
    <3> SUFFICES ASSUME NEW o \in ObjectsNamed(n, stayed) PROVE \E i \in T : h[i] = o
      OBVIOUS
    <3>1. o \in stayed /\ Lossy[o] = n
      BY DEF ObjectsNamed
    <3>2. PICK i \in DOMAIN names : f[i] = o
      BY <1>5, <3>1
    <3>3. i \in T
      BY <1>1, <3>1, <3>2 DEF Listed
    <3> QED
      BY <2>1, <3>2, <3>3
  <2>3. h \in Surjection(T, ObjectsNamed(n, stayed))
    <3>1. h \in [T -> ObjectsNamed(n, stayed)]
      BY <2>1
    <3> HIDE DEF h, T
    <3> QED
      BY <2>2, <3>1 DEF Surjection
  <2>4. T \subseteq S
    OBVIOUS
  <2> HIDE DEF h, T, S
  <2>5. IsFiniteSet(S)
    BY <1>2 DEF S
  <2>6. IsFiniteSet(T) /\ Cardinality(T) <= Cardinality(S) /\ Cardinality(S) \in Nat
    BY <2>4, <2>5, FS_Subset, FS_CardinalityType
  <2>7. Cardinality(ObjectsNamed(n, stayed)) <= Cardinality(T)
    BY <2>3, <2>6, FS_Surjection
  <2>8. Cardinality(T) \in Nat /\ Cardinality(ObjectsNamed(n, stayed)) \in Nat
    BY <1>2, <2>6, FS_CardinalityType
  <2> QED
    BY <2>6, <2>7, <2>8
<1> QED
  BY <1>4, <1>5

\* The state of any listing stays in its ranges, and no context is left open.
THEOREM ListingTypeCorrect == ListingSpec => []ListingTypeOK
<1>1. ListInv => ListingTypeOK
  BY DEF ListInv
<1> QED
  BY <1>1, SpecListInv, PTL

\* A listing of any length, in batches of any size, misses no object that was there all the time
\* and lists none twice, whatever comes and goes meanwhile.
THEOREM ListingsAreExact == ListingSpec => []ListingExact
<1>1. ASSUME ListInv PROVE ListingExact
  <2>1. PICK f \in [DOMAIN names -> Objects] : Handed(f) /\ PassesNone(f)
    BY <1>1 DEF ListInv, NamesMatch
  <2>2. ListingTrue
    BY <1>1, <2>1, CountNames DEF ListInv, ListingTrue
  <2>3. ASSUME reply = Ok PROVE \A o \in stayed : \E i \in DOMAIN names : f[i] = o
    <3>1. AtEnd
      BY <1>1, <2>3 DEF ListInv, EndTrue
    <3>2. stayed \subseteq Objects /\ (~ pool => stayed = {})
      BY <1>1 DEF ListInv, ListingTypeOK, EndTrue
    <3>3. position = MaxObject => \A o \in stayed : o <= position
      BY <3>2, ListingAssumption DEF Objects
    <3> QED
      BY <2>1, <3>1, <3>2, <3>3 DEF PassesNone, AtEnd
  <2>4. ListingComplete
    BY <1>1, <2>1, <2>3, CountNames DEF ListInv, ListingComplete
  <2> QED
    BY <2>2, <2>4 DEF ListingExact
<1> QED
  BY <1>1, SpecListInv, PTL

=============================================================================

-------------------------- MODULE ContestSync_proofs --------------------------
(***************************************************************************)
(* For any contests, presets, sessions, edits, syncs, failures and         *)
(* crashes, with the sync between any two steps of a handler: a preset     *)
(* gets a second session on Wavelog only for a failure or an overwritten   *)
(* save, and two of its QSOs have the same serial number only if one of    *)
(* them was logged during a sync or its save broke off.                    *)
(***************************************************************************)
EXTENDS ContestSync, FiniteSetTheorems, TLAPS

Rows == [contest : Contests, content : Nat, dirty : BOOLEAN,
         rid : SessionIds \union {0}, qsos : SUBSET QsoIds]
Entries == [contest : Contests, serial : Nat, of : PresetIds]
RemoteSessions == [contest : Contests, content : Nat, linked : SUBSET QsoIds]

\* Values of the variables the two properties depend on.
TypeOK ==
    /\ presets \in [PresetIds -> Rows \union {None}]
    /\ mine \in [PresetIds -> Rows \union {None}]
    /\ running \in [preset : PresetIds, next : Nat] \union {None}
    /\ log \in [QsoIds -> Entries \union {None}]
    /\ uploaded \subseteq QsoIds
    /\ sessions \in [SessionIds -> RemoteSessions \union {None}]
    /\ born \in Nat /\ minted \in Nat /\ ops \in Nat /\ faults \in Nat
    /\ made \in [PresetIds -> Nat]
    /\ disturbed \subseteq QsoIds /\ overwritten \in Nat
    /\ hand \in [step : {"idle", "assign", "write", "count"}, saving : SUBSET QsoIds,
                 draft : [PresetIds -> Rows \union {None}], stale : BOOLEAN]

\* What the sync still has to do at each stage: dirty presets to push, sessions to pull,
\* presets with a session to link.
StagesInv ==
    /\ job = "none" <=> at = "idle"
    /\ at = "push" => todo \subseteq Known(mine) /\ found \subseteq SessionIds
    /\ at = "pull" => todo \subseteq SessionIds
    /\ at = "link" => todo \subseteq {p \in Known(mine) : mine[p].rid # 0}

\* A preset id is used once: no row, session or QSO has one that is not given yet.
NumberedInv ==
    /\ \A p \in PresetIds : p > born =>
          /\ presets[p] = None /\ made[p] = 0
          /\ job # "none" => mine[p] = None
          /\ hand.step = "write" => hand.draft[p] = None
    /\ \A q \in Known(log) : log[q].of <= born

\* A preset without a session id has at most so many sessions.
Counted(rows, n) == \A p \in PresetIds : (rows[p] # None /\ rows[p].rid = 0) => made[p] <= n

\* What may cost a preset its session id.
Losses == faults + overwritten

\* The presets count between syncs, their copy while one runs: a sync that is cut short
\* falls back on the presets, which costs a failure.  What a handler is about to write counts
\* between syncs, with one more where a sync has saved since the presets were read.
CountedInv ==
    /\ NoSecondSession
    /\ Counted(IF job = "none" THEN presets ELSE mine, Losses)
    /\ (hand.step = "write" /\ job = "none")
          => Counted(hand.draft, IF hand.stale THEN Losses + 1 ELSE Losses)

\* The QSO a handler is about to write to its preset.
Unwritten == IF hand.step \in {"assign", "write"} THEN hand.saving ELSE {}

\* The QSO that is being saved has the number and the preset of the session, and a sync that
\* runs before it is in its preset disturbs it.
HandInv ==
    /\ hand.step = "idle" => hand.saving = {}
    /\ hand.step \in {"assign", "count"} => hand.saving # {}
    /\ hand.saving # {} => running # None
    /\ \A q \in hand.saving :
          log[q].of = running.preset /\ log[q].serial = running.next
    /\ job # "none" => Unwritten \subseteq disturbed

\* Every QSO of a set belongs to the preset it was logged with, as far as that is there.
AssignedIn(rows, qsos) ==
    \A q \in qsos : rows[log[q].of] # None => q \in rows[log[q].of].qsos

\* The number that comes next is above those of the QSOs logged with the preset.
AheadInv ==
    running # None =>
        \A q \in Known(log) \ (disturbed \union hand.saving) :
            log[q].of = running.preset => log[q].serial < running.next

SerialsInv ==
    /\ AssignedIn(presets, Known(log) \ (disturbed \union Unwritten))
    /\ job # "none" => AssignedIn(mine, Known(log) \ disturbed)
    /\ hand.step = "write" => AssignedIn(hand.draft, Known(log) \ disturbed)
    /\ AheadInv
    /\ SerialsDistinct

IInv == TypeOK /\ StagesInv /\ NumberedInv /\ CountedInv /\ HandInv /\ SerialsInv

-----------------------------------------------------------------------------
(* Largest and smallest numbers                                            *)

\* A function into the integers takes a largest value on a nonempty finite set.
LEMMA Highest ==
    ASSUME NEW A, IsFiniteSet(A), A # {}, NEW g \in [A -> Int]
    PROVE  \E x \in A : \A y \in A : g[y] <= g[x]
<1> DEFINE Has(T) == \E x \in T : \A y \in T : g[y] <= g[x]
           Bad == {T \in SUBSET A : T # {} /\ ~ Has(T)}
<1>1. SUFFICES ASSUME ~ Has(A)
               PROVE  FALSE
  OBVIOUS
<1>2. /\ IsWellFoundedOn(StrictSubsetOrdering(A), FiniteSubsetsOf(A))
      /\ FiniteSubsetsOf(A) = SUBSET A
  BY FS_StrictSubsetOrderingWellFounded, FS_FiniteSubsetsOfFinite
<1>3. Bad \subseteq FiniteSubsetsOf(A) /\ A \in Bad
  BY <1>1, <1>2
<1> HIDE DEF Bad
<1>4. PICK T \in Bad : \A U \in Bad : ~ (<<U, T>> \in StrictSubsetOrdering(A))
  <2>1. Bad # {}
    BY <1>3
  <2> QED
    BY <1>2, <1>3, <2>1, WFMin
<1>5. T \in SUBSET A /\ T # {} /\ ~ Has(T)
  BY DEF Bad
<1>6. PICK x \in T : TRUE
  BY <1>5
<1>7. T \ {x} \notin Bad
  BY <1>4, <1>5, <1>6 DEF StrictSubsetOrdering
<1>8. CASE T \ {x} = {}
  <2>1. \A y \in T : y = x
    BY <1>8
  <2>2. g[x] <= g[x]
    BY <1>5
  <2> QED
    BY <1>5, <2>1, <2>2
<1>9. CASE T \ {x} # {}
  <2>1. PICK m \in T \ {x} : \A y \in T \ {x} : g[y] <= g[m]
    BY <1>5, <1>7, <1>9 DEF Bad
  <2>2. g \in [A -> Int] /\ x \in A /\ m \in A /\ T \subseteq A
    BY <1>5
  <2>3. g[x] \in Int /\ g[m] \in Int /\ \A y \in T : g[y] \in Int
    BY <2>2
  <2>4. CASE g[x] <= g[m]
    <3>1. \A y \in T : g[y] <= g[m]
      BY <2>1, <2>4
    <3> QED
      BY <1>5, <3>1
  <2>5. CASE g[m] < g[x]
    <3>1. \A y \in T : g[y] <= g[x]
      BY <2>1, <2>3, <2>5
    <3> QED
      BY <1>5, <1>6, <3>1
  <2> QED
    BY <2>3, <2>4, <2>5
<1> QED
  BY <1>8, <1>9

\* What the sync takes next is among what it has to do.
LEMMA MinIsMember ==
    ASSUME NEW S, IsFiniteSet(S), S # {}, S \subseteq Int
    PROVE  Min(S) \in S
<1> DEFINE g == [x \in S |-> 0 - x]
<1>1. g \in [S -> Int]
  OBVIOUS
<1>2. PICK x \in S : \A y \in S : g[y] <= g[x]
  <2> HIDE DEF g
  <2> QED
    BY <1>1, Highest
<1>3. \A y \in S : x =< y
  BY <1>2
<1> QED
  BY <1>3 DEF Min

LEMMA MaxIsHighest ==
    ASSUME NEW S, IsFiniteSet(S), S # {}, S \subseteq Int
    PROVE  Max(S) \in S /\ \A y \in S : y <= Max(S)
<1> DEFINE g == [x \in S |-> x]
<1>1. g \in [S -> Int]
  OBVIOUS
<1>2. PICK x \in S : \A y \in S : g[y] <= g[x]
  <2> HIDE DEF g
  <2> QED
    BY <1>1, Highest
<1>3. \A y \in S : x >= y
  BY <1>2
<1> QED
  BY <1>3 DEF Max

-----------------------------------------------------------------------------
(* Rows                                                                    *)

LEMMA PresetType ==
    ASSUME NEW contest \in Contests, NEW content \in Nat, NEW dirty \in BOOLEAN,
           NEW rid \in SessionIds \union {0}, NEW qsos \in SUBSET QsoIds
    PROVE  /\ Preset(contest, content, dirty, rid, qsos) \in Rows
           /\ Preset(contest, content, dirty, rid, qsos).rid = rid
           /\ Preset(contest, content, dirty, rid, qsos).qsos = qsos
BY DEF Preset, Rows

LEMMA RowIsThere == ASSUME NEW row \in Rows PROVE row # None
BY IdsAssumption DEF Rows

LEMMA SessionIdsPositive == \A s \in SessionIds : s \in Nat /\ s # 0
BY IdsAssumption

LEMMA KnownRow ==
    ASSUME NEW rows \in [PresetIds -> Rows \union {None}]
    PROVE  /\ Known(rows) \subseteq PresetIds
           /\ \A p \in Known(rows) :
                 rows[p] \in Rows /\ rows[p].rid \in SessionIds \union {0}
                 /\ rows[p].qsos \in SUBSET QsoIds
           /\ \A p \in PresetIds : p \in Known(rows) <=> rows[p] # None
BY DEF Known, Rows

\* The copy after the presets of contests in the log were restored: a new row, and all
\* others with their session and at least their QSOs.
LEMMA MergeKeeps ==
    ASSUME NEW rows \in [PresetIds -> Rows \union {None}],
           log \in [QsoIds -> Entries \union {None}],
           NEW new, new.id \in PresetIds => new.contest \in Contests
    PROVE  LET merged == MergeQsoHistory(rows, new)
           IN  /\ merged \in [PresetIds -> Rows \union {None}]
               /\ \A p \in PresetIds : p # new.id =>
                     /\ (merged[p] # None) <=> (rows[p] # None)
                     /\ rows[p] # None => /\ merged[p].rid = rows[p].rid
                                          /\ rows[p].qsos \subseteq merged[p].qsos
<1> DEFINE merged == MergeQsoHistory(rows, new)
           Of(contest) == {q \in Known(log) : log[q].contest = contest}
           Presets(contest) == {p \in Known(rows) : rows[p].contest = contest}
           Added(p) == [rows[p] EXCEPT !.qsos = @ \union Of(rows[p].contest)]
<1>1. merged = [p \in PresetIds |->
            IF p = new.id THEN Preset(new.contest, 0, FALSE, 0, Of(new.contest))
            ELSE IF rows[p] # None /\ p = Min(Presets(rows[p].contest)) THEN Added(p)
            ELSE rows[p]]
  BY DEF MergeQsoHistory
<1>2. \A contest : Of(contest) \in SUBSET QsoIds
  BY DEF Known
<1>3. new.id \in PresetIds => Preset(new.contest, 0, FALSE, 0, Of(new.contest)) \in Rows
  <2> HIDE DEF Of
  <2> QED
    BY <1>2, PresetType
<1>4. \A p \in PresetIds : rows[p] # None =>
         Added(p) \in Rows /\ Added(p).rid = rows[p].rid /\ rows[p].qsos \subseteq Added(p).qsos
  <2> HIDE DEF Of
  <2> QED
    BY <1>2 DEF Rows
<1>5. \A p \in PresetIds : rows[p] # None => Added(p) # None
  BY <1>4, RowIsThere
<1> HIDE DEF merged, Of, Presets, Added
<1>6. merged \in [PresetIds -> Rows \union {None}]
  BY <1>1, <1>3, <1>4
<1>7. \A p \in PresetIds : p # new.id =>
         merged[p] = rows[p] \/ (rows[p] # None /\ merged[p] = Added(p))
  BY <1>1
<1> QED
  BY <1>4, <1>5, <1>6, <1>7 DEF merged

-----------------------------------------------------------------------------
(* Serial numbers                                                          *)

\* The serial a session starts with is above those of all QSOs of its preset.
LEMMA NextSerialIsAhead ==
    ASSUME TypeOK, NEW p \in PresetIds, presets[p] # None
    PROVE  /\ NextSerial(presets[p]) \in Nat
           /\ \A q \in presets[p].qsos \intersect Known(log) :
                 log[q].serial < NextSerial(presets[p])
<1> DEFINE Own == presets[p].qsos \intersect Known(log)
           Above(q) == log[q].serial + 1
           Serials == {Above(q) : q \in Own}
           f == [q \in Own |-> Above(q)]
<1>1. Own \in SUBSET QsoIds /\ IsFiniteSet(Own)
  <2>1. Own \in SUBSET QsoIds
    BY DEF TypeOK, Known
  <2> QED
    BY <2>1, IdsAssumption, FS_Subset
<1>2. \A q \in Own : log[q].serial \in Nat
  BY DEF TypeOK, Known, Entries
<1>3. IsFiniteSet(Serials)
  <2>1. f \in Surjection(Own, Serials)
    BY DEF Surjection
  <2> QED
    BY <1>1, <2>1, FS_Surjection
<1>4. IsFiniteSet({1} \union Serials)
  <2>1. IsFiniteSet({1})
    BY FS_Singleton
  <2> QED
    BY <1>3, <2>1, FS_Union
<1>5. {1} \union Serials \subseteq Nat
  BY <1>2
<1>6. NextSerial(presets[p]) = Max({1} \union Serials)
  BY DEF NextSerial
<1> HIDE DEF Serials
<1>7. /\ Max({1} \union Serials) \in {1} \union Serials
      /\ \A n \in {1} \union Serials : n <= Max({1} \union Serials)
  BY <1>4, <1>5, MaxIsHighest
<1>8. \A q \in Own : log[q].serial + 1 <= NextSerial(presets[p])
  BY <1>6, <1>7 DEF Serials
<1>9. NextSerial(presets[p]) \in Nat
  BY <1>5, <1>6, <1>7
<1> QED
  BY <1>2, <1>8, <1>9

-----------------------------------------------------------------------------
(* Steps of the user and of Wavelog                                        *)

LEMMA KnownEntry ==
    ASSUME TypeOK
    PROVE  \A q \in Known(log) :
              /\ q \in QsoIds /\ log[q] \in Entries
              /\ log[q].contest \in Contests /\ log[q].serial \in Nat
              /\ log[q].of \in PresetIds /\ log[q].of \in Nat
<1>1. \A q \in Known(log) : q \in QsoIds /\ log[q] \in Entries
  BY DEF TypeOK, Known
<1>2. \A entry \in Entries :
         entry.contest \in Contests /\ entry.serial \in Nat /\ entry.of \in PresetIds
  BY DEF Entries
<1> QED
  BY <1>1, <1>2, IdsAssumption

LEMMA InitInv == Init => IInv
<1> SUFFICES ASSUME Init PROVE IInv
  OBVIOUS
<1>1. PICK start \in Starts :
         presets = start.presets /\ log = start.log
         /\ born = Cardinality(Known(start.presets))
  BY DEF Init
<1>2. Known(presets) \subseteq PresetIds /\ IsFiniteSet(Known(presets))
  <2>1. Known(presets) \subseteq PresetIds
    BY <1>1, StartsAssumption DEF Known
  <2> QED
    BY <2>1, IdsAssumption, FS_Subset
<1>3. born \in Nat /\ Known(presets) = 1 .. born
  BY <1>1, <1>2, StartsAssumption, FS_CardinalityType
<1>4. TypeOK
  <2>1. presets \in [PresetIds -> Rows \union {None}] /\ log \in [QsoIds -> Entries \union {None}]
    BY <1>1, StartsAssumption DEF Rows, Entries
  <2> QED
    BY <1>3, <2>1 DEF Init, TypeOK, Idle
<1>5. StagesInv
  BY DEF Init, StagesInv
<1>6. \A q \in Known(log) : /\ presets[log[q].of] # None /\ log[q].of \in 1 .. born
                            /\ q \in presets[log[q].of].qsos
  <2>1. \A q \in Known(log) : log[q].of \in Known(presets) /\ q \in presets[log[q].of].qsos
    BY <1>1, StartsAssumption
  <2> QED
    BY <1>3, <2>1 DEF Known
<1>7. NumberedInv
  <2>1. \A p \in PresetIds : p > born => presets[p] = None
    BY <1>3, <1>4, IdsAssumption DEF Known, TypeOK
  <2> QED
    BY <1>3, <1>6, <2>1 DEF Init, NumberedInv, Idle
<1>8. CountedInv
  <2>1. /\ \A p \in PresetIds : made[p] = 0
        /\ faults = 0 /\ overwritten = 0 /\ job = "none" /\ hand.step = "idle"
    BY DEF Init, Idle
  <2> QED
    BY <2>1 DEF CountedInv, NoSecondSession, Counted, Losses
<1>9. HandInv
  BY DEF Init, HandInv, Idle
<1>10. SerialsInv
  <2>1. SerialsDistinct
    BY <1>1, StartsAssumption DEF SerialsDistinct, SameSerial
  <2>2. AssignedIn(presets, Known(log))
    BY <1>6 DEF AssignedIn
  <2> QED
    BY <2>1, <2>2 DEF Init, SerialsInv, AssignedIn, AheadInv, Idle
<1> QED
  BY <1>4, <1>5, <1>7, <1>8, <1>9, <1>10 DEF IInv

\* A handler has read the presets and changed what it read: a new row with the last number,
\* or rows that keep their session and their QSOs; the QSO that is being saved is in its own.
LEMMA DraftStep ==
    ASSUME IInv, hand.step \in {"idle", "assign"},
           NEW rows \in [PresetIds -> Rows \union {None}],
           hand' = Drafted(rows, hand.saving),
           born' \in Nat, born <= born',
           \A p \in PresetIds : rows[p] # None =>
               \/ p > born /\ p <= born'
               \/ /\ presets[p] # None /\ rows[p].rid = presets[p].rid
                  /\ presets[p].qsos \subseteq rows[p].qsos,
           \A q \in hand.saving : rows[log[q].of] # None => q \in rows[log[q].of].qsos,
           running' = running \/ (running' = None /\ hand.step = "idle"),
           ops' \in Nat,
           UNCHANGED <<presets, log, uploaded, sessions, job, at, todo, mine, found, minted,
                       faults, disturbed, overwritten, made>>
    PROVE  IInv'
<1> USE DEF IInv
<1>1. /\ hand'.step = "write" /\ hand'.saving = hand.saving /\ hand'.draft = rows
      /\ hand'.stale = FALSE
  BY DEF Drafted
<1>2. hand.saving \subseteq QsoIds /\ PresetIds \subseteq Nat /\ born \in Nat
  BY IdsAssumption DEF TypeOK
<1>3. TypeOK'
  BY <1>2 DEF TypeOK, Drafted
<1>4. StagesInv'
  BY DEF StagesInv
<1>5. NumberedInv'
  <2>1. \A p \in PresetIds : p > born' => p > born /\ rows[p] = None
    BY <1>2 DEF NumberedInv
  <2>2. \A q \in Known(log) : log[q].of <= born'
    BY <1>2, KnownEntry DEF NumberedInv
  <2> QED
    BY <1>1, <2>1, <2>2 DEF NumberedInv
<1>6. CountedInv'
  <2>1. NoSecondSession'
    BY DEF CountedInv, NoSecondSession
  <2>2. job = "none" => Counted(rows, Losses)
    <3> SUFFICES ASSUME job = "none", NEW p \in PresetIds, rows[p] # None, rows[p].rid = 0
                 PROVE  made[p] <= Losses
      BY DEF Counted
    <3>1. CASE p > born
      <4>1. made[p] = 0 /\ Losses \in Nat
        BY <3>1 DEF NumberedInv, TypeOK, Losses
      <4> QED
        BY <4>1
    <3>2. CASE presets[p] # None /\ rows[p].rid = presets[p].rid
      BY <3>2 DEF CountedInv, Counted
    <3> QED
      BY <3>1, <3>2
  <2> QED
    BY <1>1, <2>1, <2>2 DEF CountedInv, Counted, Losses
<1>7. HandInv'
  <2>1. hand.step = "idle" => hand.saving = {}
    BY DEF HandInv
  <2>2. job # "none" => hand.saving \subseteq disturbed
    BY <2>1 DEF HandInv, Unwritten
  <2> QED
    BY <1>1, <2>1, <2>2 DEF HandInv, Unwritten
<1>8. SerialsInv'
  <2>1. Unwritten = hand.saving
    BY DEF HandInv, Unwritten
  <2>2. Unwritten' = hand.saving
    BY <1>1 DEF Unwritten
  <2>3. AssignedIn(rows, Known(log) \ disturbed)
    <3> SUFFICES ASSUME NEW q \in Known(log) \ disturbed, rows[log[q].of] # None
                 PROVE  q \in rows[log[q].of].qsos
      BY DEF AssignedIn
    <3>1. CASE q \in hand.saving
      BY <3>1
    <3>2. CASE q \notin hand.saving
      <4>1. log[q].of \in PresetIds /\ ~ (log[q].of > born)
        BY <1>2, KnownEntry DEF NumberedInv
      <4>2. presets[log[q].of] # None
            /\ presets[log[q].of].qsos \subseteq rows[log[q].of].qsos
        BY <4>1
      <4> QED
        BY <2>1, <3>2, <4>2 DEF SerialsInv, AssignedIn
    <3> QED
      BY <3>1, <3>2
  <2>4. AheadInv'
    BY <1>1 DEF SerialsInv, AheadInv
  <2>5. SerialsDistinct'
    BY DEF SerialsInv, SerialsDistinct, SameSerial
  <2>6. AssignedIn(presets, Known(log) \ (disturbed \union Unwritten))'
    BY <2>1, <2>2 DEF SerialsInv, AssignedIn
  <2>7. (job # "none" => AssignedIn(mine, Known(log) \ disturbed))'
    BY DEF SerialsInv, AssignedIn
  <2>8. (hand.step = "write" => AssignedIn(hand.draft, Known(log) \ disturbed))'
    BY <1>1, <2>3 DEF AssignedIn
  <2> QED
    BY <2>4, <2>5, <2>6, <2>7, <2>8 DEF SerialsInv
<1> QED
  BY <1>3, <1>4, <1>5, <1>6, <1>7, <1>8

\* Where no QSO is being saved there is none to be in its preset.
LEMMA IdleSavesNone ==
    ASSUME IInv, hand.step = "idle"
    PROVE  hand.saving = {}
BY DEF IInv, HandInv

LEMMA NewPresetStep == ASSUME IInv, NewPreset PROVE IInv'
<1>1. PICK contest \in Contests :
         hand' = Drafted([presets EXCEPT ![born + 1] = Preset(contest, Edition, TRUE, 0, {})], {})
  BY DEF NewPreset, GoesOn
<1>2. /\ hand.step = "idle" /\ born + 1 \in PresetIds /\ born' = born + 1 /\ ops' = ops + 1
      /\ UNCHANGED <<presets, running, log, uploaded, sessions, job, at, todo, mine, found,
                     minted, faults, disturbed, overwritten, made>>
  BY DEF NewPreset, Begins, Operation, outsideVars, jobVars, boundVars
<1> DEFINE new == Preset(contest, Edition, TRUE, 0, {})
           rows == [presets EXCEPT ![born + 1] = new]
<1>3. TypeOK /\ born \in Nat /\ born' \in Nat /\ born <= born' /\ ops' \in Nat
  BY <1>2 DEF IInv, TypeOK
<1>4. new \in Rows
  <2>1. Edition \in Nat
    BY <1>3 DEF Edition, TypeOK
  <2> QED
    BY <2>1 DEF Preset, Rows
<1> HIDE DEF new
<1>5. /\ rows \in [PresetIds -> Rows \union {None}]
      /\ \A p \in PresetIds : p # born' => rows[p] = presets[p]
  BY <1>2, <1>3, <1>4 DEF TypeOK
<1>6. hand.saving = {} /\ hand' = Drafted(rows, hand.saving)
  BY <1>1, <1>2, IdleSavesNone DEF new
<1> HIDE DEF rows
<1>7. \A p \in PresetIds : rows[p] # None =>
          \/ p > born /\ p <= born'
          \/ /\ presets[p] # None /\ rows[p].rid = presets[p].rid
             /\ presets[p].qsos \subseteq rows[p].qsos
  BY <1>2, <1>3, <1>5
<1> QED
  BY <1>2, <1>3, <1>5, <1>6, <1>7, DraftStep

\* What an edit changes and what it keeps.
LEMMA EditedRow ==
    ASSUME TypeOK, NEW p \in Known(presets)
    PROVE  /\ Edited(p) \in [PresetIds -> Rows \union {None}]
           /\ \A r \in PresetIds : Edited(p)[r] # None =>
               /\ presets[r] # None /\ Edited(p)[r].rid = presets[r].rid
               /\ presets[r].qsos \subseteq Edited(p)[r].qsos
<1> DEFINE row == [presets[p] EXCEPT !.content = Edition]
           edited == [row EXCEPT !.dirty = TRUE]
<1>1. p \in PresetIds /\ presets[p] \in Rows /\ presets[p] # None
  BY DEF TypeOK, Known
<1>2. Edition \in Nat
  BY DEF TypeOK, Edition
<1>3. row \in Rows /\ row.rid = presets[p].rid /\ row.qsos = presets[p].qsos
  BY <1>1, <1>2 DEF Rows
<1>4. edited \in Rows /\ edited.rid = presets[p].rid /\ edited.qsos = presets[p].qsos
  <2> HIDE DEF row
  <2> QED
    BY <1>3 DEF Rows
<1>5. Edited(p) = [presets EXCEPT ![p] = edited]
  BY <1>1 DEF TypeOK, Edited
<1> HIDE DEF edited
<1> QED
  BY <1>1, <1>4, <1>5 DEF TypeOK

\* Presets that are edited or deleted, by the user or at the end of the session.
LEMMA RowsEdited ==
    ASSUME IInv, hand.step = "idle",
           NEW rows \in [PresetIds -> Rows \union {None}],
           hand' = Drafted(rows, {}),
           \A p \in PresetIds : rows[p] # None =>
               /\ presets[p] # None /\ rows[p].rid = presets[p].rid
               /\ presets[p].qsos \subseteq rows[p].qsos,
           running' = running \/ running' = None,
           ops' = ops + 1,
           UNCHANGED <<presets, log, uploaded, sessions, job, at, todo, mine, found, born, minted,
                       faults, disturbed, overwritten, made>>
    PROVE  IInv'
<1>1. hand.saving = {} /\ hand' = Drafted(rows, hand.saving)
  BY IdleSavesNone
<1>2. ops' \in Nat /\ born' \in Nat /\ born <= born'
  BY DEF IInv, TypeOK
<1>3. \A q \in hand.saving : rows[log[q].of] # None => q \in rows[log[q].of].qsos
  BY <1>1
<1> QED
  BY <1>1, <1>2, <1>3, DraftStep

LEMMA EditPresetStep == ASSUME IInv, EditPreset PROVE IInv'
<1>1. PICK p \in Known(presets) : hand' = Drafted(Edited(p), {})
  BY DEF EditPreset, GoesOn
<1>2. /\ hand.step = "idle" /\ ops' = ops + 1
      /\ UNCHANGED <<presets, running, log, uploaded, sessions, job, at, todo, mine, found, born,
                     minted, faults, disturbed, overwritten, made>>
  BY DEF EditPreset, Begins, Operation, outsideVars, jobVars, boundVars
<1>3. TypeOK
  BY DEF IInv
<1> QED
  BY <1>1, <1>2, <1>3, EditedRow, RowsEdited

LEMMA DeletePresetStep == ASSUME IInv, DeletePreset PROVE IInv'
<1>1. PICK p \in Known(presets) : hand' = Drafted([presets EXCEPT ![p] = None], {})
  BY DEF DeletePreset, GoesOn
<1>2. /\ hand.step = "idle" /\ ops' = ops + 1
      /\ UNCHANGED <<presets, running, log, uploaded, sessions, job, at, todo, mine, found, born,
                     minted, faults, disturbed, overwritten, made>>
  BY DEF DeletePreset, Begins, Operation, outsideVars, jobVars, boundVars
<1> DEFINE rows == [presets EXCEPT ![p] = None]
<1>3. /\ rows \in [PresetIds -> Rows \union {None}]
      /\ \A r \in PresetIds : rows[r] # None => presets[r] = rows[r]
  BY DEF IInv, TypeOK
<1> HIDE DEF rows
<1> QED
  BY <1>1, <1>2, <1>3, RowsEdited DEF rows

LEMMA StopContestSessionStep == ASSUME IInv, StopContestSession PROVE IInv'
<1>1. /\ hand.step = "idle" /\ running # None /\ running' = None /\ ops' = ops + 1
      /\ UNCHANGED <<presets, log, uploaded, sessions, job, at, todo, mine, found, born, minted,
                     faults, disturbed, overwritten, made>>
  BY DEF StopContestSession, Begins, Operation, outsideVars, jobVars, boundVars
<1>2. TypeOK /\ running.preset \in PresetIds
  BY <1>1 DEF IInv, TypeOK
<1>3. CASE presets[running.preset] = None
  <2>1. hand' = Drafted(presets, {})
    BY <1>3 DEF StopContestSession, GoesOn
  <2> QED
    BY <1>1, <1>2, <2>1, RowsEdited DEF TypeOK
<1>4. CASE presets[running.preset] # None
  <2>1. hand' = Drafted(Edited(running.preset), {})
    BY <1>4 DEF StopContestSession, GoesOn
  <2>2. running.preset \in Known(presets)
    BY <1>2, <1>4 DEF TypeOK, Known
  <2> QED
    BY <1>1, <1>2, <2>1, <2>2, EditedRow, RowsEdited
<1> QED
  BY <1>3, <1>4

LEMMA AssignContestQsoStep == ASSUME IInv, AssignContestQso PROVE IInv'
<1> USE DEF IInv
<1> DEFINE p == running.preset
           row == [presets[p] EXCEPT !.qsos = @ \union hand.saving]
           rows == IF presets[p] = None THEN presets ELSE [presets EXCEPT ![p] = row]
<1>1. /\ hand.step = "assign"
      /\ hand' = Drafted(IF presets[p] = None THEN presets
                         ELSE [presets EXCEPT ![p].qsos = @ \union hand.saving], hand.saving)
      /\ UNCHANGED <<presets, running, log, uploaded, sessions, job, at, todo, mine, found, born,
                     minted, ops, faults, disturbed, overwritten, made>>
  BY DEF AssignContestQso, GoesOn, outsideVars, jobVars, boundVars
<1>2. /\ hand.saving # {} /\ running # None
      /\ \A q \in hand.saving : log[q].of = p
  BY <1>1 DEF HandInv
<1>3. p \in PresetIds /\ hand.saving \subseteq QsoIds /\ presets[p] # None => presets[p] \in Rows
  BY <1>2 DEF TypeOK
<1>4. p \in PresetIds /\ hand.saving \subseteq QsoIds
  BY <1>2 DEF TypeOK
<1>5. presets[p] # None =>
         row \in Rows /\ row.rid = presets[p].rid /\ row.qsos = presets[p].qsos \union hand.saving
  BY <1>3, <1>4 DEF Rows
<1>6. hand' = Drafted(rows, hand.saving)
  BY <1>1, <1>4 DEF TypeOK
<1> HIDE DEF row, p
<1>7. rows \in [PresetIds -> Rows \union {None}]
  BY <1>4, <1>5 DEF TypeOK
<1>8. /\ \A r \in PresetIds : rows[r] # None =>
            /\ presets[r] # None /\ rows[r].rid = presets[r].rid
            /\ presets[r].qsos \subseteq rows[r].qsos
      /\ rows[p] # None => hand.saving \subseteq rows[p].qsos
  BY <1>4, <1>5 DEF TypeOK
<1> HIDE DEF rows
<1>9. \A q \in hand.saving : rows[log[q].of] # None => q \in rows[log[q].of].qsos
  BY <1>2, <1>8
<1>10. ops' \in Nat /\ born' \in Nat /\ born <= born'
  BY <1>1 DEF TypeOK
<1> QED
  BY <1>1, <1>6, <1>7, <1>8, <1>9, <1>10, DraftStep

\* The QSO with the next number of the session: it is above all that count.
LEMMA AddContestQsoStep == ASSUME IInv, AddContestQso PROVE IInv'
<1> USE DEF IInv
<1> DEFINE p == running.preset
<1>1. PICK q \in QsoIds \ Known(log) :
         /\ log' = [log EXCEPT ![q] = [contest |-> presets[p].contest,
                                       serial |-> running.next, of |-> p]]
         /\ hand' = [Idle EXCEPT !.step = "assign", !.saving = {q}]
         /\ disturbed' = IF job = "none" THEN disturbed ELSE disturbed \union {q}
  BY DEF AddContestQso, GoesOn
<1>2. /\ hand.step = "idle" /\ running # None /\ presets[p] # None /\ ops' = ops + 1
      /\ UNCHANGED <<presets, running, uploaded, sessions, job, at, todo, mine, found, born,
                     minted, faults, overwritten, made>>
  BY DEF AddContestQso, Begins, Operation, outsideVars, jobVars, boundVars
<1>3. p \in PresetIds /\ running.next \in Nat /\ presets[p] \in Rows
  BY <1>2 DEF TypeOK
<1> DEFINE entry == [contest |-> presets[p].contest, serial |-> running.next, of |-> p]
<1>4. entry \in Entries /\ entry.serial = running.next /\ entry.of = p
  BY <1>3 DEF Entries, Rows
<1> HIDE DEF entry, p
<1>5. /\ log' \in [QsoIds -> Entries \union {None}]
      /\ log'[q] = entry
      /\ \A r \in Known(log') : r # q => r \in Known(log) /\ log'[r] = log[r]
  <2>1. log' = [log EXCEPT ![q] = entry]
    BY <1>1 DEF entry, p
  <2> QED
    BY <1>4, <2>1 DEF TypeOK, Known
<1>6. /\ hand'.step = "assign" /\ hand'.saving = {q} /\ hand'.stale = FALSE
      /\ hand'.draft \in [PresetIds -> Rows \union {None}]
      /\ hand' \in [step : {"idle", "assign", "write", "count"}, saving : SUBSET QsoIds,
                    draft : [PresetIds -> Rows \union {None}], stale : BOOLEAN]
  BY <1>1 DEF Idle
<1>7. TypeOK'
  <2>1. disturbed' \subseteq QsoIds /\ ops' \in Nat
    BY <1>1, <1>2 DEF TypeOK
  <2> QED
    BY <1>2, <1>5, <1>6, <2>1 DEF TypeOK
<1>8. StagesInv'
  BY <1>2 DEF StagesInv
<1>9. NumberedInv'
  <2>1. p <= born
    <3>1. p \in Nat /\ born \in Nat
      BY <1>3, IdsAssumption DEF TypeOK
    <3> QED
      BY <1>2, <1>3, <3>1 DEF NumberedInv, p
  <2>2. \A r \in Known(log') : log'[r].of <= born
    BY <1>4, <1>5, <2>1 DEF NumberedInv
  <2> QED
    BY <1>2, <1>6, <2>2 DEF NumberedInv
<1>10. CountedInv'
  BY <1>2, <1>6 DEF CountedInv, NoSecondSession, Counted, Losses
<1>11. HandInv'
  BY <1>1, <1>2, <1>4, <1>5, <1>6 DEF HandInv, Unwritten, p
<1>12. SerialsInv'
  <2>1. hand.saving = {} /\ Unwritten = {} /\ Unwritten' = {q} /\ disturbed \subseteq disturbed'
    BY <1>1, <1>2, <1>6 DEF HandInv, Unwritten
  <2>2. AssignedIn(presets, Known(log) \ (disturbed \union Unwritten))'
    BY <1>2, <1>5, <2>1 DEF SerialsInv, AssignedIn
  <2>3. (job # "none" => AssignedIn(mine, Known(log) \ disturbed))'
    <3> SUFFICES ASSUME job # "none"
                 PROVE  AssignedIn(mine, Known(log) \ disturbed)'
      BY <1>2
    <3>1. \A r \in Known(log') \ disturbed' : r \in Known(log) \ disturbed /\ log'[r] = log[r]
      BY <1>1, <1>5
    <3> QED
      BY <1>2, <3>1 DEF SerialsInv, AssignedIn
  <2>4. \A r \in Known(log) \ disturbed : log[r].of = p => log[r].serial < running.next
    BY <1>2, <2>1 DEF SerialsInv, AheadInv, p
  <2>5. AheadInv'
    BY <1>2, <1>5, <1>6, <2>1, <2>4 DEF AheadInv, p
  <2>6. SerialsDistinct'
    <3> SUFFICES ASSUME NEW r \in Known(log'), NEW s \in Known(log'), r # s,
                        log'[r].of = log'[s].of, log'[r].serial = log'[s].serial
                 PROVE  r \in disturbed' \/ s \in disturbed'
      BY DEF SerialsDistinct, SameSerial
    <3>1. CASE r # q /\ s # q
      BY <1>5, <2>1, <3>1 DEF SerialsInv, SerialsDistinct, SameSerial
    <3>2. CASE r = q
      <4>1. s \in Known(log) /\ log[s].of = p /\ log[s].serial = running.next
        BY <1>4, <1>5, <3>2
      <4> QED
        BY <1>3, <2>1, <2>4, <4>1
    <3>3. CASE s = q
      <4>1. r \in Known(log) /\ log[r].of = p /\ log[r].serial = running.next
        BY <1>4, <1>5, <3>3
      <4> QED
        BY <1>3, <2>1, <2>4, <4>1
    <3> QED
      BY <3>1, <3>2, <3>3
  <2>7. (hand.step = "write" => AssignedIn(hand.draft, Known(log) \ disturbed))'
    BY <1>6
  <2> QED
    BY <2>2, <2>3, <2>5, <2>6, <2>7 DEF SerialsInv
<1> QED
  BY <1>7, <1>8, <1>9, <1>10, <1>11, <1>12

\* What was read, with the change, replaces what is there now.
LEMMA WritePresetsStep == ASSUME IInv, WritePresets PROVE IInv'
<1> USE DEF IInv
<1>1. /\ hand.step = "write" /\ presets' = hand.draft
      /\ overwritten' = IF hand.stale THEN overwritten + 1 ELSE overwritten
      /\ UNCHANGED <<running, log, uploaded, sessions, job, at, todo, mine, found, born, minted,
                     ops, faults, disturbed, made>>
  BY DEF WritePresets, outsideVars, jobVars, boundVars
<1>2. /\ hand' = IF hand.saving = {} THEN Idle
                 ELSE [Idle EXCEPT !.step = "count", !.saving = hand.saving]
      /\ hand.saving \subseteq QsoIds
      /\ hand.draft \in [PresetIds -> Rows \union {None}]
  BY DEF WritePresets, GoesOn, TypeOK
<1>3. /\ hand'.saving = hand.saving
      /\ hand'.step = IF hand.saving = {} THEN "idle" ELSE "count"
      /\ hand' \in [step : {"idle", "assign", "write", "count"}, saving : SUBSET QsoIds,
                    draft : [PresetIds -> Rows \union {None}], stale : BOOLEAN]
  BY <1>2 DEF Idle
<1>4. overwritten' \in Nat /\ overwritten <= overwritten'
  BY <1>1 DEF TypeOK
<1>5. TypeOK'
  BY <1>1, <1>2, <1>3, <1>4 DEF TypeOK
<1>6. StagesInv'
  BY <1>1 DEF StagesInv
<1>7. NumberedInv'
  BY <1>1, <1>3 DEF NumberedInv
<1>8. CountedInv'
  <2>1. /\ Losses \in Nat /\ Losses' \in Nat /\ Losses <= Losses'
        /\ hand.stale => Losses' = Losses + 1
        /\ ~ hand.stale => Losses' = Losses
    BY <1>1, <1>4 DEF Losses, TypeOK
  <2>2. NoSecondSession'
    BY <1>1, <1>4 DEF CountedInv, NoSecondSession, TypeOK
  <2>3. CASE job = "none"
    <3>1. Counted(hand.draft, Losses')
      BY <1>1, <2>1, <2>3 DEF CountedInv
    <3>2. Counted(presets, Losses)'
      BY <1>1, <3>1 DEF Counted
    <3> QED
      BY <1>1, <1>3, <2>2, <2>3, <3>2 DEF CountedInv
  <2>4. CASE job # "none"
    <3>1. Counted(mine, Losses)
      BY <2>4 DEF CountedInv
    <3>2. Counted(mine, Losses)'
      BY <1>1, <2>1, <3>1 DEF Counted, TypeOK
    <3> QED
      BY <1>1, <1>3, <2>2, <2>4, <3>2 DEF CountedInv
  <2> QED
    BY <2>3, <2>4
<1>9. HandInv'
  BY <1>1, <1>3 DEF HandInv, Unwritten
<1>10. SerialsInv'
  <2>1. Unwritten' = {}
    BY <1>3 DEF Unwritten
  <2>2. AssignedIn(presets, Known(log) \ (disturbed \union Unwritten))'
    BY <1>1, <2>1 DEF SerialsInv, AssignedIn
  <2>3. AheadInv' /\ SerialsDistinct'
    BY <1>1, <1>3 DEF SerialsInv, AheadInv, SerialsDistinct, SameSerial
  <2>4. (job # "none" => AssignedIn(mine, Known(log) \ disturbed))'
    BY <1>1 DEF SerialsInv, AssignedIn
  <2> QED
    BY <1>3, <2>2, <2>3, <2>4 DEF SerialsInv
<1> QED
  BY <1>5, <1>6, <1>7, <1>8, <1>9, <1>10

LEMMA CountContestQsoStep == ASSUME IInv, CountContestQso PROVE IInv'
<1> USE DEF IInv
<1>1. /\ hand.step = "count" /\ running' = [running EXCEPT !.next = @ + 1] /\ hand' = Idle
      /\ UNCHANGED <<presets, log, uploaded, sessions, job, at, todo, mine, found, born, minted,
                     ops, faults, disturbed, overwritten, made>>
  BY DEF CountContestQso, GoesOn, outsideVars, jobVars, boundVars
<1>2. running # None /\ \A q \in hand.saving : log[q].serial = running.next
  BY <1>1 DEF HandInv
<1>3. /\ running' \in [preset : PresetIds, next : Nat] /\ running.next \in Nat
      /\ running'.preset = running.preset /\ running'.next = running.next + 1
  BY <1>1, <1>2 DEF TypeOK
<1>4. hand'.step = "idle" /\ hand'.saving = {}
  BY <1>1 DEF Idle
<1>5. TypeOK'
  BY <1>1, <1>3 DEF TypeOK, Idle
<1>6. StagesInv' /\ NumberedInv'
  BY <1>1, <1>4 DEF StagesInv, NumberedInv
<1>7. CountedInv'
  BY <1>1, <1>4 DEF CountedInv, NoSecondSession, Counted, Losses
<1>8. HandInv'
  BY <1>4 DEF HandInv, Unwritten
<1>9. SerialsInv'
  <2>1. Unwritten = {} /\ Unwritten' = {}
    BY <1>1, <1>4 DEF Unwritten
  <2>2. AheadInv'
    <3> SUFFICES ASSUME NEW q \in Known(log) \ disturbed, log[q].of = running.preset
                 PROVE  log[q].serial < running.next + 1
      BY <1>1, <1>3, <1>4 DEF AheadInv
    <3>1. CASE q \in hand.saving
      BY <1>2, <1>3, <3>1
    <3>2. CASE q \notin hand.saving
      <4>1. log[q].serial < running.next /\ log[q].serial \in Nat
        BY <1>2, <3>2, KnownEntry DEF SerialsInv, AheadInv
      <4> QED
        BY <1>3, <4>1
    <3> QED
      BY <3>1, <3>2
  <2>3. SerialsDistinct'
    BY <1>1 DEF SerialsInv, SerialsDistinct, SameSerial
  <2> QED
    BY <1>1, <1>4, <2>1, <2>2, <2>3 DEF SerialsInv, AssignedIn
<1> QED
  BY <1>5, <1>6, <1>7, <1>8, <1>9

\* A handler that breaks off: its QSO is disturbed, and what it has read is forgotten.
LEMMA BrokenOff ==
    ASSUME IInv, hand' = Idle, disturbed' = disturbed \union hand.saving
    PROVE  /\ hand'.step = "idle" /\ hand'.saving = {} /\ Unwritten' = {}
           /\ hand' \in [step : {"idle", "assign", "write", "count"}, saving : SUBSET QsoIds,
                         draft : [PresetIds -> Rows \union {None}], stale : BOOLEAN]
           /\ disturbed' \subseteq QsoIds
           /\ \A q \in Known(log) \ disturbed' : q \in Known(log) \ (disturbed \union Unwritten)
<1>1. /\ hand'.step = "idle" /\ hand'.saving = {}
      /\ hand' \in [step : {"idle", "assign", "write", "count"}, saving : SUBSET QsoIds,
                    draft : [PresetIds -> Rows \union {None}], stale : BOOLEAN]
  BY DEF Idle
<1>2. Unwritten \subseteq hand.saving /\ Unwritten' = {}
  BY <1>1 DEF Unwritten
<1> QED
  BY <1>1, <1>2 DEF IInv, TypeOK

LEMMA HandlerFailsStep == ASSUME IInv, HandlerFails PROVE IInv'
<1> USE DEF IInv
<1>1. /\ hand' = Idle /\ disturbed' = disturbed \union hand.saving /\ faults' = faults + 1
      /\ UNCHANGED <<presets, running, log, uploaded, sessions, job, at, todo, mine, found, born,
                     minted, ops, overwritten, made>>
  BY DEF HandlerFails, GoesOn, Fault, jobVars
<1>2. /\ hand'.step = "idle" /\ hand'.saving = {} /\ Unwritten' = {}
      /\ hand' \in [step : {"idle", "assign", "write", "count"}, saving : SUBSET QsoIds,
                    draft : [PresetIds -> Rows \union {None}], stale : BOOLEAN]
      /\ disturbed' \subseteq QsoIds
      /\ \A q \in Known(log) \ disturbed' : q \in Known(log) \ (disturbed \union Unwritten)
  BY <1>1, BrokenOff
<1>3. TypeOK'
  BY <1>1, <1>2 DEF TypeOK
<1>4. StagesInv' /\ NumberedInv'
  BY <1>1, <1>2 DEF StagesInv, NumberedInv
<1>5. CountedInv'
  <2>1. Losses \in Nat /\ Losses' = Losses + 1
    BY <1>1 DEF Losses, TypeOK
  <2>2. NoSecondSession'
    BY <1>1 DEF CountedInv, NoSecondSession, TypeOK
  <2>3. Counted(IF job = "none" THEN presets ELSE mine, Losses)'
    BY <1>1, <2>1 DEF CountedInv, Counted, TypeOK
  <2> QED
    BY <1>2, <2>2, <2>3 DEF CountedInv
<1>6. HandInv'
  BY <1>2 DEF HandInv
<1>7. SerialsInv'
  <2>1. AssignedIn(presets, Known(log) \ (disturbed \union Unwritten))'
    BY <1>1, <1>2 DEF SerialsInv, AssignedIn
  <2>2. (job # "none" => AssignedIn(mine, Known(log) \ disturbed))'
    BY <1>1, <1>2 DEF SerialsInv, AssignedIn
  <2>3. AheadInv' /\ SerialsDistinct'
    BY <1>1, <1>2 DEF SerialsInv, AheadInv, SerialsDistinct, SameSerial
  <2> QED
    BY <1>2, <2>1, <2>2, <2>3 DEF SerialsInv
<1> QED
  BY <1>3, <1>4, <1>5, <1>6, <1>7

\* Steps that leave presets, copy and log alone, and where the sync stands.
LEMMA ElsewhereStep ==
    ASSUME IInv,
           running' \in [preset : PresetIds, next : Nat] \union {None}, AheadInv',
           running' = running \/ hand.step = "idle",
           uploaded' \subseteq QsoIds, ops' \in Nat, minted' \in Nat,
           sessions' \in [SessionIds -> RemoteSessions \union {None}],
           UNCHANGED <<presets, log, job, at, todo, mine, found, born, faults, hand, disturbed,
                       overwritten, made>>
    PROVE  IInv'
<1> USE DEF IInv
<1>1. TypeOK'
  BY DEF TypeOK
<1>2. StagesInv' /\ NumberedInv'
  BY DEF StagesInv, NumberedInv
<1>3. CountedInv'
  BY DEF CountedInv, NoSecondSession, Counted, Losses
<1>4. HandInv'
  BY DEF HandInv, Unwritten
<1>5. SerialsInv'
  BY DEF SerialsInv, AssignedIn, SerialsDistinct, SameSerial, Unwritten
<1> QED
  BY <1>1, <1>2, <1>3, <1>4, <1>5

LEMMA StartContestSessionStep == ASSUME IInv, StartContestSession PROVE IInv'
<1>1. PICK p \in Known(presets) : running' = [preset |-> p, next |-> NextSerial(presets[p])]
  BY DEF StartContestSession
<1>2. /\ hand.step = "idle" /\ ops' = ops + 1
      /\ UNCHANGED <<presets, log, uploaded, sessions, job, at, todo, mine, found, born, minted,
                     faults, hand, disturbed, overwritten, made>>
  BY DEF StartContestSession, Begins, Operation, outsideVars, jobVars, boundVars
<1>3. TypeOK /\ p \in PresetIds /\ presets[p] # None
  BY DEF IInv, TypeOK, Known
<1>4. /\ NextSerial(presets[p]) \in Nat
      /\ \A q \in presets[p].qsos \intersect Known(log) : log[q].serial < NextSerial(presets[p])
  BY <1>3, NextSerialIsAhead
<1>5. AheadInv'
  <2>1. hand.saving = {} /\ Unwritten = {}
    BY <1>2, IdleSavesNone DEF Unwritten
  <2>2. \A q \in Known(log) \ disturbed : log[q].of = p => q \in presets[p].qsos
    BY <1>3, <2>1 DEF IInv, SerialsInv, AssignedIn
  <2> QED
    BY <1>1, <1>2, <1>4, <2>1, <2>2 DEF AheadInv
<1> QED
  BY <1>1, <1>2, <1>3, <1>4, <1>5, ElsewhereStep DEF TypeOK

\* QSOs that are uploaded, and sessions that change on Wavelog.
LEMMA WavelogStep ==
    ASSUME IInv,
           uploaded' \subseteq QsoIds, ops' \in Nat, minted' \in Nat,
           sessions' \in [SessionIds -> RemoteSessions \union {None}],
           UNCHANGED <<presets, running, log, job, at, todo, mine, found, born, faults,
                       hand, disturbed, overwritten, made>>
    PROVE  IInv'
<1>1. running' \in [preset : PresetIds, next : Nat] \union {None}
  BY DEF IInv, TypeOK
<1>2. AheadInv'
  BY DEF IInv, SerialsInv, AheadInv
<1> QED
  BY <1>1, <1>2, ElsewhereStep

LEMMA QsoUploadedStep == ASSUME IInv, QsoUploaded PROVE IInv'
<1>1. /\ \E q \in Known(log) \ uploaded : uploaded' = uploaded \union {q}
      /\ UNCHANGED <<presets, running, log, sessions, job, at, todo, mine, found, born, minted,
                     ops, faults, hand, disturbed, overwritten, made>>
  BY DEF QsoUploaded, jobVars, boundVars, handVars
<1>2. Known(log) \subseteq QsoIds /\ uploaded \subseteq QsoIds
  BY DEF IInv, TypeOK, Known
<1>3. /\ uploaded' \subseteq QsoIds /\ ops' \in Nat /\ minted' \in Nat
      /\ sessions' \in [SessionIds -> RemoteSessions \union {None}]
  BY <1>1, <1>2 DEF IInv, TypeOK
<1> QED
  BY <1>1, <1>3, WavelogStep

\* A session that is stored under an id of its own keeps the sessions well-formed.
LEMMA SessionStored ==
    ASSUME TypeOK, NEW s \in SessionIds, NEW session \in RemoteSessions \union {None}
    PROVE  [sessions EXCEPT ![s] = session] \in [SessionIds -> RemoteSessions \union {None}]
BY DEF TypeOK

LEMMA SessionEdited ==
    ASSUME TypeOK, NEW s \in SessionIds, sessions[s] # None, NEW content \in Nat
    PROVE  /\ [sessions EXCEPT ![s].content = content]
                 \in [SessionIds -> RemoteSessions \union {None}]
           /\ [sessions EXCEPT ![s].content = content][s] \in RemoteSessions
<1>1. [sessions[s] EXCEPT !.content = content] \in RemoteSessions
  BY DEF TypeOK, RemoteSessions
<1> QED
  BY <1>1 DEF TypeOK

LEMMA SessionsChangeStep == ASSUME IInv, SessionsChange PROVE IInv'
<1>1. /\ ops' = ops + 1
      /\ UNCHANGED <<presets, running, log, uploaded, job, at, todo, mine, found, born, faults,
                     hand, disturbed, overwritten, made>>
  BY DEF SessionsChange, Operation, jobVars, boundVars, handVars
<1>2. TypeOK /\ ops' \in Nat /\ uploaded' \subseteq QsoIds
  BY <1>1 DEF IInv, TypeOK
<1>3. Edition \in Nat
  BY <1>2 DEF TypeOK, Edition
<1>4. /\ minted' \in Nat
      /\ sessions' \in [SessionIds -> RemoteSessions \union {None}]
  <2>1. CASE /\ minted + 1 \in SessionIds /\ minted' = minted + 1
             /\ \E contest \in Contests, linked \in SUBSET uploaded :
                   sessions' = [sessions EXCEPT ![minted'] = Session(contest, Edition, linked)]
    <3>1. \A contest \in Contests, linked \in SUBSET uploaded :
             Session(contest, Edition, linked) \in RemoteSessions
      BY <1>2, <1>3 DEF Session, RemoteSessions, TypeOK
    <3> QED
      BY <1>2, <2>1, <3>1, SessionStored, SessionIdsPositive
  <2>2. CASE /\ \E s \in Known(sessions) : \/ sessions' = [sessions EXCEPT ![s].content = Edition]
                                           \/ sessions' = [sessions EXCEPT ![s] = None]
             /\ UNCHANGED minted
    <3>1. \A s \in Known(sessions) : s \in SessionIds /\ sessions[s] # None
      BY <1>2 DEF TypeOK, Known
    <3>2. minted' \in Nat
      BY <1>2, <2>2 DEF TypeOK
    <3> QED
      BY <1>2, <1>3, <2>2, <3>1, <3>2, SessionStored, SessionEdited
  <2> QED
    BY <2>1, <2>2 DEF SessionsChange
<1> QED
  BY <1>1, <1>2, <1>4, WavelogStep

LEMMA WavelogUpdatedStep == ASSUME IInv, WavelogUpdated PROVE IInv'
<1>1. UNCHANGED <<presets, running, log, uploaded, sessions, job, at, todo, mine, found, born,
                  minted, ops, faults, hand, disturbed, overwritten, made>>
  BY DEF WavelogUpdated, jobVars, boundVars, handVars
<1>2. /\ uploaded' \subseteq QsoIds /\ ops' \in Nat /\ minted' \in Nat
      /\ sessions' \in [SessionIds -> RemoteSessions \union {None}]
  BY <1>1 DEF IInv, TypeOK
<1> QED
  BY <1>1, <1>2, WavelogStep

-----------------------------------------------------------------------------
(* Steps of the sync                                                       *)

\* A request, or a step between two: the copy keeps its rows with their QSOs and may get one
\* with an id that was never given.
LEMMA CopyStep ==
    ASSUME IInv, Step, StagesInv',
           mine' \in [PresetIds -> Rows \union {None}],
           sessions' \in [SessionIds -> RemoteSessions \union {None}],
           made' \in [PresetIds -> Nat],
           minted' \in Nat, born' \in Nat, faults' \in Nat, born <= born',
           \A p \in PresetIds : p > born' => mine'[p] = None /\ made'[p] = 0,
           \A p \in PresetIds : mine'[p] # None =>
               \/ p > born
               \/ mine[p] # None /\ mine[p].qsos \subseteq mine'[p].qsos,
           NoSecondSession', Counted(mine, Losses)'
    PROVE  IInv'
<1> USE DEF IInv
<1>1. /\ job # "none"
      /\ UNCHANGED <<presets, job, running, log, uploaded, ops, hand, disturbed, overwritten>>
  BY DEF Step, userVars
<1>2. TypeOK'
  BY <1>1 DEF TypeOK
<1>3. NumberedInv'
  <2>1. \A p \in PresetIds : p > born' => p > born
    BY IdsAssumption DEF TypeOK
  <2>2. \A q \in Known(log) : log[q].of <= born'
    BY KnownEntry DEF NumberedInv, TypeOK
  <2> QED
    BY <1>1, <2>1, <2>2 DEF NumberedInv
<1>4. CountedInv'
  BY <1>1 DEF CountedInv
<1>5. HandInv'
  BY <1>1 DEF HandInv, Unwritten
<1>6. SerialsInv'
  <2>1. AssignedIn(mine, Known(log) \ disturbed)'
    <3> SUFFICES ASSUME NEW q \in Known(log) \ disturbed, mine'[log[q].of] # None
                 PROVE  q \in mine'[log[q].of].qsos
      BY <1>1 DEF AssignedIn
    <3>1. log[q].of \in PresetIds /\ ~ (log[q].of > born)
      BY KnownEntry DEF NumberedInv, TypeOK
    <3>2. mine[log[q].of] # None /\ mine[log[q].of].qsos \subseteq mine'[log[q].of].qsos
      BY <3>1
    <3> QED
      BY <1>1, <3>2 DEF SerialsInv, AssignedIn
  <2> QED
    BY <1>1, <2>1 DEF SerialsInv, AssignedIn, AheadInv, SerialsDistinct, SameSerial, Unwritten
<1> QED
  BY <1>2, <1>3, <1>4, <1>5, <1>6

\* A step that leaves the copy alone.
LEMMA CopyKept ==
    ASSUME IInv, Step, StagesInv',
           sessions' \in [SessionIds -> RemoteSessions \union {None}],
           faults' \in Nat, faults <= faults',
           UNCHANGED <<mine, born, minted, made>>
    PROVE  IInv'
<1> USE DEF IInv
<1>1. job # "none"
  BY DEF Step
<1>2. /\ mine' \in [PresetIds -> Rows \union {None}] /\ made' \in [PresetIds -> Nat]
      /\ minted' \in Nat /\ born' \in Nat /\ born <= born'
  BY DEF TypeOK
<1>3. \A p \in PresetIds : p > born' => mine'[p] = None /\ made'[p] = 0
  BY <1>1 DEF NumberedInv
<1>4. \A p \in PresetIds : mine'[p] # None =>
         p > born \/ (mine[p] # None /\ mine[p].qsos \subseteq mine'[p].qsos)
  OBVIOUS
<1>5. NoSecondSession'
  BY DEF CountedInv, NoSecondSession, TypeOK, Step, userVars
<1>6. Counted(mine, Losses)'
  <2>1. overwritten' = overwritten /\ overwritten \in Nat
    BY DEF Step, userVars, TypeOK
  <2>2. faults \in Nat /\ faults' \in Nat /\ faults <= faults'
    BY DEF TypeOK
  <2>3. \A p \in PresetIds : (mine[p] # None /\ mine[p].rid = 0) => made[p] <= faults + overwritten
    BY <1>1 DEF CountedInv, Counted, Losses
  <2>4. \A p \in PresetIds : made[p] \in Nat
    BY DEF TypeOK
  <2>5. \A p \in PresetIds :
           (mine[p] # None /\ mine[p].rid = 0) => made[p] <= faults' + overwritten
    BY <2>1, <2>2, <2>3, <2>4
  <2> QED
    BY <2>1, <2>5 DEF Counted, Losses
<1> QED
  BY <1>2, <1>3, <1>4, <1>5, <1>6, CopyStep

\* A sync copies the presets; a QSO that is not in its preset yet is disturbed by it.
LEMMA StartStep ==
    ASSUME IInv, StartFull \/ StartLinkPending
    PROVE  IInv'
<1> USE DEF IInv
<1>1. /\ job = "none" /\ job' # "none" /\ mine' = presets
      /\ \/ job' = "full" /\ at' = "list"
         \/ job' = "link" /\ at' = "link" /\ todo' = ToLink(presets)
      /\ disturbed' = IF hand.step = "count" THEN disturbed ELSE disturbed \union hand.saving
      /\ UNCHANGED <<presets, sessions, running, log, uploaded, ops, hand, overwritten, born,
                     minted, faults, made>>
  BY DEF StartFull, StartLinkPending, Copies, userVars
<1>2. hand.saving \subseteq QsoIds
  BY DEF TypeOK
<1>3. TypeOK'
  BY <1>1, <1>2 DEF TypeOK
<1>4. StagesInv'
  BY <1>1 DEF StagesInv, ToLink
<1>5. NumberedInv'
  BY <1>1 DEF NumberedInv
<1>6. CountedInv'
  BY <1>1 DEF CountedInv, NoSecondSession, Counted, Losses
<1>7. disturbed \subseteq disturbed' /\ Unwritten \subseteq disturbed' /\ Unwritten' = Unwritten
  BY <1>1 DEF Unwritten
<1>8. HandInv'
  BY <1>1, <1>7 DEF HandInv
<1>9. SerialsInv'
  <2>1. AheadInv' /\ SerialsDistinct'
    BY <1>1, <1>7 DEF SerialsInv, AheadInv, SerialsDistinct, SameSerial
  <2> QED
    BY <1>1, <1>7, <2>1 DEF SerialsInv, AssignedIn
<1> QED
  BY <1>3, <1>4, <1>5, <1>6, <1>8, <1>9

\* A sync that ends with an error before it has saved, perhaps with the program: the presets
\* count again, which are behind by one session at most.
LEMMA CutShort ==
    ASSUME IInv, job' = "none", at' = "idle", mine' = presets,
           faults' = faults + 1,
           \/ job # "none" /\ UNCHANGED <<hand, disturbed>>
           \/ hand' = Idle /\ disturbed' = disturbed \union hand.saving,
           UNCHANGED <<presets, running, log, uploaded, sessions, ops, overwritten, born, minted,
                       made>>
    PROVE  IInv'
<1> USE DEF IInv
<1>1. /\ hand' \in [step : {"idle", "assign", "write", "count"}, saving : SUBSET QsoIds,
                    draft : [PresetIds -> Rows \union {None}], stale : BOOLEAN]
      /\ disturbed \subseteq disturbed' /\ disturbed' \subseteq QsoIds
      /\ Unwritten' \subseteq Unwritten
      /\ hand'.saving \subseteq hand.saving /\ hand.saving \subseteq disturbed' \union hand'.saving
      /\ \A q \in Known(log) \ (disturbed' \union Unwritten') :
            q \in Known(log) \ (disturbed \union Unwritten)
      /\ hand'.step = "write" => hand' = hand /\ disturbed' = disturbed
  <2>1. CASE UNCHANGED <<hand, disturbed>>
    BY <2>1 DEF Unwritten, TypeOK
  <2>2. CASE hand' = Idle /\ disturbed' = disturbed \union hand.saving
    <3>1. hand'.step = "idle"
      BY <2>2 DEF Idle
    <3> QED
      BY <2>2, <3>1, BrokenOff
  <2> QED
    BY <2>1, <2>2
<1>2. TypeOK'
  BY <1>1 DEF TypeOK
<1>3. StagesInv'
  BY DEF StagesInv
<1>4. NumberedInv'
  BY <1>1 DEF NumberedInv
<1>5. CountedInv'
  <2>1. \A p \in PresetIds : made[p] \in Nat /\ made[p] <= 1 + faults + overwritten
    BY DEF CountedInv, NoSecondSession, TypeOK
  <2>2. faults \in Nat /\ overwritten \in Nat /\ Losses' = faults + 1 + overwritten
    BY DEF TypeOK, Losses
  <2>3. NoSecondSession'
    BY <2>1, <2>2 DEF NoSecondSession
  <2>4. Counted(presets, Losses)'
    BY <2>1, <2>2 DEF Counted
  <2>5. Counted(hand.draft, IF hand.stale THEN Losses + 1 ELSE Losses)'
    BY <2>1, <2>2 DEF Counted
  <2> QED
    BY <2>3, <2>4, <2>5 DEF CountedInv
<1>6. HandInv'
  <2>1. CASE UNCHANGED <<hand, disturbed>>
    BY <2>1 DEF HandInv, Unwritten
  <2>2. CASE hand' = Idle
    BY <2>2 DEF HandInv, Idle
  <2> QED
    BY <2>1, <2>2
<1>7. SerialsInv'
  <2>1. AssignedIn(presets, Known(log) \ (disturbed \union Unwritten))'
    BY <1>1 DEF SerialsInv, AssignedIn
  <2>2. (hand.step = "write" => AssignedIn(hand.draft, Known(log) \ disturbed))'
    BY <1>1 DEF SerialsInv, AssignedIn
  <2>3. AheadInv' /\ SerialsDistinct'
    BY <1>1 DEF SerialsInv, AheadInv, SerialsDistinct, SameSerial
  <2> QED
    BY <2>1, <2>2, <2>3 DEF SerialsInv
<1> QED
  BY <1>2, <1>3, <1>4, <1>5, <1>6, <1>7

LEMMA ListFailsStep == ASSUME IInv, ListFails PROVE IInv'
<1>1. /\ job # "none" /\ job' = "none" /\ at' = "idle" /\ mine' = presets
      /\ faults' = faults + 1
      /\ UNCHANGED <<presets, running, log, uploaded, sessions, ops, hand, disturbed, overwritten,
                     born, minted, made>>
  BY DEF ListFails, Fault, userVars, IInv, StagesInv
<1> QED
  BY <1>1, CutShort

LEMMA CrashStep == ASSUME IInv, Crash PROVE IInv'
<1>1. /\ job' = "none" /\ at' = "idle" /\ mine' = presets
      /\ faults' = faults + 1
      /\ hand' = Idle /\ disturbed' = disturbed \union hand.saving
      /\ UNCHANGED <<presets, running, log, uploaded, sessions, ops, overwritten, born, minted,
                     made>>
  BY DEF Crash, Fault, userVars
<1> QED
  BY <1>1, CutShort

\* The copy replaces the presets; a handler that has read them before is behind.
LEMMA SavePresetsStep == ASSUME IInv, SavePresets PROVE IInv'
<1> USE DEF IInv
<1>1. /\ job # "none" /\ job' = "none" /\ at' = "idle" /\ presets' = mine
      /\ hand' = IF hand.step = "write" THEN [hand EXCEPT !.stale = TRUE] ELSE hand
      /\ UNCHANGED <<running, log, uploaded, sessions, ops, disturbed, overwritten, mine, born,
                     minted, faults, made>>
  BY DEF SavePresets, StagesInv, userVars, boundVars
<1>2. /\ hand'.step = hand.step /\ hand'.saving = hand.saving /\ hand'.draft = hand.draft
      /\ hand.step = "write" => hand'.stale = TRUE
      /\ hand' \in [step : {"idle", "assign", "write", "count"}, saving : SUBSET QsoIds,
                    draft : [PresetIds -> Rows \union {None}], stale : BOOLEAN]
  BY <1>1 DEF TypeOK
<1>3. Unwritten' = Unwritten
  BY <1>2 DEF Unwritten
<1>4. TypeOK'
  BY <1>1, <1>2 DEF TypeOK
<1>5. StagesInv'
  BY <1>1 DEF StagesInv
<1>6. NumberedInv'
  BY <1>1, <1>2 DEF NumberedInv
<1>7. CountedInv'
  <2>1. \A p \in PresetIds : made[p] \in Nat /\ made[p] <= 1 + faults + overwritten
    BY DEF CountedInv, NoSecondSession, TypeOK
  <2>2. faults \in Nat /\ overwritten \in Nat /\ Losses' = faults + overwritten
    BY <1>1 DEF TypeOK, Losses
  <2>3. NoSecondSession' /\ Counted(presets, Losses)'
    BY <1>1 DEF CountedInv, NoSecondSession, Counted, Losses
  <2>4. Counted(hand.draft, Losses + 1)'
    BY <1>1, <2>1, <2>2 DEF Counted
  <2> QED
    BY <1>1, <1>2, <2>3, <2>4 DEF CountedInv
<1>8. HandInv'
  BY <1>1, <1>2 DEF HandInv
<1>9. SerialsInv'
  <2>1. AssignedIn(presets, Known(log) \ (disturbed \union Unwritten))'
    BY <1>1, <1>3 DEF SerialsInv, AssignedIn
  <2>2. (hand.step = "write" => AssignedIn(hand.draft, Known(log) \ disturbed))'
    BY <1>1, <1>2 DEF SerialsInv, AssignedIn
  <2>3. AheadInv' /\ SerialsDistinct'
    BY <1>1, <1>2 DEF SerialsInv, AheadInv, SerialsDistinct, SameSerial
  <2> QED
    BY <1>1, <2>1, <2>2, <2>3 DEF SerialsInv
<1> QED
  BY <1>4, <1>5, <1>6, <1>7, <1>8, <1>9

LEMMA ListMissingStep == ASSUME IInv, ListMissing PROVE IInv'
<1> USE DEF IInv
<1>1. /\ Step /\ at = "list" /\ job # "none"
      /\ UNCHANGED <<job, log, sessions, todo, found, minted, faults, made>>
  BY DEF ListMissing, Step, userVars
<1>2. PICK new :
         /\ new.id \in PresetIds => new.contest \in Contests
         /\ mine' = MergeQsoHistory(mine, new)
         /\ \/ new.id \notin PresetIds /\ born' = born /\ at' = "save"
            \/ new.id = born + 1 /\ born' = born + 1 /\ at' = at
  <2>1. CASE Unlisted = {}
    <3> DEFINE new == [id |-> 0, contest |-> None]
    <3>1. new.id \notin PresetIds
      BY IdsAssumption
    <3>2. mine' = MergeQsoHistory(mine, new) /\ at' = "save" /\ born' = born
      BY <2>1 DEF ListMissing
    <3> QED
      BY <3>1, <3>2
  <2>2. CASE Unlisted # {}
    <3>1. PICK contest \in Unlisted :
             mine' = MergeQsoHistory(mine, [id |-> born', contest |-> contest])
      BY <2>2 DEF ListMissing
    <3>2. contest \in Contests
      BY KnownEntry DEF Unlisted
    <3>3. born' = born + 1 /\ at' = at
      BY <2>2 DEF ListMissing
    <3> DEFINE new == [id |-> born', contest |-> contest]
    <3>4. new.id = born + 1 /\ new.contest \in Contests
      BY <3>2, <3>3
    <3> QED
      BY <3>1, <3>3, <3>4
  <2> QED
    BY <2>1, <2>2
<1>3. /\ mine' \in [PresetIds -> Rows \union {None}]
      /\ \A p \in PresetIds : p # new.id =>
            /\ (mine'[p] # None) <=> (mine[p] # None)
            /\ mine[p] # None => /\ mine'[p].rid = mine[p].rid
                                 /\ mine[p].qsos \subseteq mine'[p].qsos
  BY <1>2, MergeKeeps DEF TypeOK
<1>4. born \in Nat /\ born' \in Nat /\ born <= born' /\ minted' \in Nat /\ faults' \in Nat
  BY <1>1, <1>2 DEF TypeOK
<1>5. StagesInv'
  BY <1>1, <1>2 DEF StagesInv
<1>6. \A p \in PresetIds : p > born' => mine'[p] = None /\ made'[p] = 0
  <2>1. \A p \in PresetIds : p > born' => p > born /\ p # new.id
    BY <1>2, <1>4, IdsAssumption
  <2> QED
    BY <1>1, <1>3, <2>1 DEF NumberedInv
<1>7. \A p \in PresetIds : mine'[p] # None =>
         p > born \/ (mine[p] # None /\ mine[p].qsos \subseteq mine'[p].qsos)
  <2>1. \A p \in PresetIds : p = new.id => p > born
    BY <1>2, <1>4
  <2> QED
    BY <1>3, <2>1
<1>8. NoSecondSession'
  BY <1>1 DEF CountedInv, NoSecondSession, Step, userVars
<1>9. Counted(mine, Losses)'
  <2>0. Losses' = Losses /\ Losses \in Nat
    BY <1>1 DEF Losses, TypeOK, Step, userVars
  <2> SUFFICES ASSUME NEW p \in PresetIds, mine'[p] # None, mine'[p].rid = 0
               PROVE  made[p] <= Losses
    BY <1>1, <2>0 DEF Counted
  <2>1. CASE p = new.id
    <3>1. p > born
      BY <1>2, <1>4, <2>1
    <3> QED
      BY <2>0, <3>1 DEF NumberedInv, TypeOK
  <2>2. CASE p # new.id
    BY <1>1, <1>3, <2>2 DEF CountedInv, Counted, TypeOK
  <2> QED
    BY <2>1, <2>2
<1> QED
  BY <1>1, <1>3, <1>4, <1>5, <1>6, <1>7, <1>8, <1>9, CopyStep DEF TypeOK

\* Steps between the requests.
LEMMA StageStep ==
    ASSUME IInv, Step, UNCHANGED <<sessions, mine, born, minted, faults, made>>,
           \/ at' = "push" /\ todo' = {p \in Known(mine) : mine[p].dirty}
                           /\ found' = Known(sessions)
           \/ at' = "pull" /\ at = "push" /\ todo' = found
           \/ at' = "link" /\ todo' = ToLink(mine)
           \/ at' = "save"
    PROVE  IInv'
<1>1. StagesInv'
  <2>1. Known(sessions) \subseteq SessionIds
    BY DEF IInv, TypeOK, Known
  <2>2. job # "none" /\ job' = job
    BY DEF Step
  <2> QED
    BY <2>1, <2>2 DEF IInv, StagesInv, ToLink
<1>2. /\ sessions' \in [SessionIds -> RemoteSessions \union {None}]
      /\ faults' \in Nat /\ faults <= faults'
  BY DEF IInv, TypeOK
<1> QED
  BY <1>1, <1>2, CopyKept

LEMMA ListedStep == ASSUME IInv, Listed PROVE IInv'
BY StageStep DEF Listed

LEMMA PushesDoneStep == ASSUME IInv, PushesDone PROVE IInv'
BY StageStep DEF PushesDone

LEMMA PullsDoneStep == ASSUME IInv, PullsDone PROVE IInv'
BY StageStep DEF PullsDone

LEMMA LinksDoneStep == ASSUME IInv, LinksDone PROVE IInv'
BY StageStep DEF LinksDone

\* What is next is something the sync still has to do.
LEMMA Next1IsToDo ==
    ASSUME IInv, todo # {}, at \in {"push", "pull", "link"}
    PROVE  Next1 \in todo
<1>1. todo \subseteq PresetIds \/ todo \subseteq SessionIds
  BY DEF IInv, StagesInv, TypeOK, Known
<1>2. /\ IsFiniteSet(PresetIds) /\ PresetIds \subseteq Int
      /\ IsFiniteSet(SessionIds) /\ SessionIds \subseteq Int
  BY IdsAssumption
<1>3. IsFiniteSet(todo)
  BY <1>1, <1>2, FS_Subset
<1>4. todo \subseteq Int
  BY <1>1, <1>2
<1> QED
  BY <1>3, <1>4, MinIsMember DEF Next1

\* A patched or created session, and the id it has.
LEMMA StoredSession ==
    ASSUME IInv, NEW p \in PresetIds, mine[p] # None, Patches(p) \/ Creates(p)
    PROVE  LET s == IF mine[p].rid # 0 THEN mine[p].rid ELSE minted'
           IN  /\ s \in SessionIds
               /\ sessions' \in [SessionIds -> RemoteSessions \union {None}]
               /\ sessions'[s] \in RemoteSessions
               /\ minted' \in Nat
<1> USE DEF IInv
<1>1. TypeOK /\ mine[p] \in Rows
  BY DEF TypeOK
<1>2. mine[p].contest \in Contests /\ mine[p].content \in Nat
      /\ mine[p].rid \in SessionIds \union {0}
  BY <1>1 DEF Rows
<1>3. CASE Patches(p)
  <2>1. /\ mine[p].rid \in SessionIds /\ mine[p].rid # 0 /\ sessions[mine[p].rid] # None
        /\ sessions' = [sessions EXCEPT ![mine[p].rid].content = mine[p].content]
        /\ minted' = minted
    BY <1>2, <1>3 DEF Patches
  <2> QED
    BY <1>1, <1>2, <2>1, SessionEdited DEF TypeOK
<1>4. CASE Creates(p)
  <2> DEFINE session == Session(mine[p].contest, mine[p].content, {})
  <2>1. /\ mine[p].rid = 0 /\ minted' \in SessionIds
        /\ sessions' = [sessions EXCEPT ![minted'] = session]
    BY <1>4 DEF Creates
  <2>2. session \in RemoteSessions
    BY <1>2 DEF Session, RemoteSessions
  <2> HIDE DEF session
  <2>3. sessions'[minted'] = session
    BY <1>1, <2>1 DEF TypeOK
  <2> QED
    BY <1>1, <2>1, <2>2, <2>3, SessionStored, SessionIdsPositive
<1> QED
  BY <1>3, <1>4

\* Sessions are made for one preset at a time, and only for one that has none.
LEMMA MadeForOne ==
    ASSUME IInv, NEW p \in PresetIds, Patches(p) \/ Creates(p)
    PROVE  /\ made' \in [PresetIds -> Nat]
           /\ \A r \in PresetIds : r # p => made'[r] = made[r]
           /\ \/ made' = made /\ mine[p].rid # 0
              \/ made'[p] = made[p] + 1 /\ mine[p].rid = 0
BY DEF IInv, TypeOK, Patches, Creates

\* The row of a session keeps the QSOs of the row it replaces.
LEMMA FromRemoteRow ==
    ASSUME NEW s \in SessionIds, NEW session \in RemoteSessions,
           NEW old \in Rows \union {None}
    PROVE  /\ FromRemote(s, session, old) \in Rows
           /\ FromRemote(s, session, old).rid = s
           /\ old # None => FromRemote(s, session, old).qsos = old.qsos
<1> DEFINE qsos == IF old = None THEN {} ELSE old.qsos
<1>1. qsos \in SUBSET QsoIds
  BY DEF Rows
<1>2. session.contest \in Contests /\ session.content \in Nat
  BY DEF RemoteSessions
<1> HIDE DEF qsos
<1>3. /\ Preset(session.contest, session.content, FALSE, s, qsos) \in Rows
      /\ Preset(session.contest, session.content, FALSE, s, qsos).rid = s
      /\ Preset(session.contest, session.content, FALSE, s, qsos).qsos = qsos
  BY <1>1, <1>2 DEF Preset, Rows
<1> QED
  BY <1>3 DEF FromRemote, qsos

LEMMA PushPresetStep == ASSUME IInv, PushPreset PROVE IInv'
<1> USE DEF IInv
<1> DEFINE p == Next1
           s == IF mine[p].rid # 0 THEN mine[p].rid ELSE minted'
           row == FromRemote(s, sessions'[s], mine[p])
<1>1. /\ Step /\ at = "push" /\ todo # {} /\ todo' = todo \ {p}
      /\ Patches(p) \/ Creates(p)
      /\ mine' = [mine EXCEPT ![p] = row] /\ found' = found \union {s}
      /\ UNCHANGED <<at, born, faults>>
  BY DEF PushPreset, Done
<1> HIDE DEF p
<1>2. p \in PresetIds /\ mine[p] # None /\ mine[p] \in Rows
  <2>1. p \in todo
    BY <1>1, Next1IsToDo DEF p
  <2> QED
    BY <1>1, <2>1 DEF StagesInv, TypeOK, Known
<1>3. /\ s \in SessionIds /\ sessions'[s] \in RemoteSessions
      /\ sessions' \in [SessionIds -> RemoteSessions \union {None}] /\ minted' \in Nat
  BY <1>1, <1>2, StoredSession
<1> HIDE DEF s
<1>4. row \in Rows /\ row # None /\ row.rid # 0 /\ row.qsos = mine[p].qsos
  BY <1>2, <1>3, FromRemoteRow, RowIsThere, SessionIdsPositive
<1> HIDE DEF row
<1>5. /\ mine' \in [PresetIds -> Rows \union {None}] /\ mine'[p] = row
      /\ \A r \in PresetIds : r # p => mine'[r] = mine[r]
  BY <1>1, <1>2, <1>4 DEF TypeOK
<1>6. /\ made' \in [PresetIds -> Nat]
      /\ \A r \in PresetIds : r # p => made'[r] = made[r]
      /\ \/ made' = made /\ mine[p].rid # 0
         \/ made'[p] = made[p] + 1 /\ mine[p].rid = 0
  BY <1>1, <1>2, MadeForOne
<1>7. job # "none" /\ job' = job /\ overwritten' = overwritten /\ Losses' = Losses
  BY <1>1 DEF Step, userVars, Losses
<1>8. p <= born
  BY <1>2, <1>7, IdsAssumption DEF NumberedInv, TypeOK
<1>9. StagesInv'
  <2>1. todo' \subseteq Known(mine')
    BY <1>1, <1>4, <1>5 DEF StagesInv, TypeOK, Known
  <2> QED
    BY <1>1, <1>3, <1>7, <2>1 DEF StagesInv
<1>10. \A r \in PresetIds : r > born' => mine'[r] = None /\ made'[r] = 0
  <2>1. \A r \in PresetIds : r > born => r # p
    BY <1>2, <1>8, IdsAssumption DEF TypeOK
  <2> QED
    BY <1>1, <1>5, <1>6, <1>7, <2>1 DEF NumberedInv
<1>11. NoSecondSession'
  <2>1. mine[p].rid = 0 => made[p] <= faults + overwritten
    BY <1>2, <1>7 DEF CountedInv, Counted, Losses
  <2>2. made'[p] <= 1 + faults + overwritten
    BY <1>2, <1>6, <2>1 DEF CountedInv, NoSecondSession, TypeOK
  <2> QED
    BY <1>1, <1>6, <1>7, <2>2 DEF CountedInv, NoSecondSession
<1>12. Counted(mine, Losses)'
  <2> SUFFICES ASSUME NEW r \in PresetIds, mine'[r] # None, mine'[r].rid = 0
               PROVE  made'[r] <= Losses
    BY <1>7 DEF Counted
  <2>1. r # p
    BY <1>4, <1>5
  <2> QED
    BY <1>5, <1>6, <1>7, <2>1 DEF CountedInv, Counted
<1>13. \A r \in PresetIds : mine'[r] # None =>
          r > born \/ (mine[r] # None /\ mine[r].qsos \subseteq mine'[r].qsos)
  BY <1>2, <1>4, <1>5
<1> QED
  BY <1>1, <1>3, <1>5, <1>6, <1>9, <1>10, <1>11, <1>12, <1>13, CopyStep DEF TypeOK

LEMMA PushPresetFailsStep == ASSUME IInv, PushPresetFails PROVE IInv'
<1> USE DEF IInv
<1> DEFINE p == Next1
<1>1. /\ Step /\ at = "push" /\ todo # {} /\ todo' = todo \ {p}
      /\ UNCHANGED <<at, mine, found, born>>
  BY DEF PushPresetFails, Done
<1>2. /\ faults \in Nat /\ faults + 1 \in Nat /\ faults <= faults + 1 /\ faults <= faults
      /\ sessions \in [SessionIds -> RemoteSessions \union {None}]
      /\ job # "none" /\ job' = job /\ overwritten' = overwritten /\ overwritten \in Nat
  BY <1>1 DEF TypeOK, Step, userVars
<1>3. StagesInv'
  BY <1>1, <1>2 DEF StagesInv
<1>4. CASE UNCHANGED <<sessions, minted, made>> /\ (UNCHANGED faults \/ faults' = faults + 1)
  BY <1>1, <1>2, <1>3, <1>4, CopyKept
<1>5. CASE faults' = faults + 1 /\ (Patches(p) \/ Creates(p))
  <2> HIDE DEF p
  <2>1. p \in PresetIds /\ mine[p] # None /\ mine[p] \in Rows
    <3>1. p \in todo
      BY <1>1, Next1IsToDo DEF p
    <3> QED
      BY <1>1, <3>1 DEF StagesInv, TypeOK, Known
  <2>2. sessions' \in [SessionIds -> RemoteSessions \union {None}] /\ minted' \in Nat
    BY <1>5, <2>1, StoredSession
  <2>3. /\ made' \in [PresetIds -> Nat]
        /\ \A r \in PresetIds : r # p => made'[r] = made[r]
        /\ made'[p] = made[p] \/ made'[p] = made[p] + 1
        /\ mine[p].rid # 0 => made'[p] = made[p]
    BY <1>5, <2>1, MadeForOne
  <2>4. p <= born
    BY <1>2, <2>1, IdsAssumption DEF NumberedInv, TypeOK
  <2>5. \A r \in PresetIds : r > born' => mine'[r] = None /\ made'[r] = 0
    <3>1. \A r \in PresetIds : r > born => r # p
      BY <2>1, <2>4, IdsAssumption DEF TypeOK
    <3> QED
      BY <1>1, <1>2, <2>3, <3>1 DEF NumberedInv
  <2>6. NoSecondSession'
    <3>1. \A r \in PresetIds : made[r] \in Nat /\ made[r] <= 1 + faults + overwritten
      BY DEF CountedInv, NoSecondSession, TypeOK
    <3>2. \A r \in PresetIds : made'[r] <= 1 + (faults + 1) + overwritten
      BY <1>2, <2>1, <2>3, <3>1
    <3> QED
      BY <1>2, <1>5, <3>2 DEF NoSecondSession
  <2>7. Counted(mine, Losses)'
    <3> SUFFICES ASSUME NEW r \in PresetIds, mine[r] # None, mine[r].rid = 0
                 PROVE  made'[r] <= faults + 1 + overwritten
      BY <1>1, <1>2, <1>5 DEF Counted, Losses
    <3>1. made[r] <= faults + overwritten /\ made[r] \in Nat
      BY <1>2 DEF CountedInv, Counted, Losses, TypeOK
    <3> QED
      BY <1>2, <2>3, <3>1
  <2>8. \A r \in PresetIds : mine'[r] # None =>
            r > born \/ (mine[r] # None /\ mine[r].qsos \subseteq mine'[r].qsos)
    BY <1>1
  <2>9. mine' \in [PresetIds -> Rows \union {None}] /\ born' \in Nat /\ born <= born'
        /\ faults' \in Nat
    BY <1>1, <1>2, <1>5 DEF TypeOK
  <2> QED
    BY <1>1, <1>3, <2>2, <2>3, <2>5, <2>6, <2>7, <2>8, <2>9, CopyStep
<1> QED
  BY <1>4, <1>5 DEF PushPresetFails, Fault

LEMMA PullSessionStep == ASSUME IInv, PullSession PROVE IInv'
<1> USE DEF IInv
<1> DEFINE s == Next1
           linked == sessions[s].linked \intersect uploaded
           mineOf == {p \in Known(mine) : mine[p].rid = s}
<1>1. /\ Step /\ at = "pull" /\ todo # {} /\ todo' = todo \ {s} /\ sessions[s] # None
      /\ UNCHANGED <<sessions, at, found, minted, faults, made>>
  BY DEF PullSession, Done
<1>2. \/ /\ mineOf # {} /\ born' = born
         /\ mine' = [mine EXCEPT ![Min(mineOf)] =
                        [FromRemote(s, sessions[s], mine[Min(mineOf)])
                            EXCEPT !.qsos = @ \union linked]]
      \/ /\ born + 1 \in PresetIds /\ born' = born + 1
         /\ mine' = [mine EXCEPT ![born'] =
                        [FromRemote(s, sessions[s], None) EXCEPT !.qsos = linked]]
  BY DEF PullSession
<1> HIDE DEF s
<1>3. s \in SessionIds /\ s # 0 /\ sessions[s] \in RemoteSessions
  <2>1. s \in todo
    BY <1>1, Next1IsToDo DEF s
  <2> QED
    BY <1>1, <2>1, SessionIdsPositive DEF StagesInv, TypeOK
<1>4. linked \in SUBSET QsoIds
  BY DEF TypeOK
<1> HIDE DEF linked
<1>5. job # "none" /\ job' = job /\ overwritten' = overwritten /\ Losses' = Losses
  BY <1>1 DEF Step, userVars, Losses
<1>6. PICK p \in PresetIds, row \in Rows :
         /\ mine' = [mine EXCEPT ![p] = row] /\ row.rid = s
         /\ \/ born' = born /\ mine[p] # None /\ mine[p].qsos \subseteq row.qsos
            \/ born' = born + 1 /\ p = born'
  <2>1. CASE mineOf # {} /\ born' = born
             /\ mine' = [mine EXCEPT ![Min(mineOf)] =
                            [FromRemote(s, sessions[s], mine[Min(mineOf)])
                                EXCEPT !.qsos = @ \union linked]]
    <3> DEFINE p == Min(mineOf)
               remote == FromRemote(s, sessions[s], mine[p])
               row == [remote EXCEPT !.qsos = @ \union linked]
    <3>1. mineOf \subseteq PresetIds
      BY DEF TypeOK, Known
    <3>2. IsFiniteSet(mineOf) /\ mineOf \subseteq Int
      <4>1. IsFiniteSet(PresetIds) /\ PresetIds \subseteq Int
        BY IdsAssumption
      <4> HIDE DEF mineOf
      <4> QED
        BY <3>1, <4>1, FS_Subset
    <3>3. p \in mineOf
      <4> HIDE DEF mineOf
      <4> QED
        BY <2>1, <3>2, MinIsMember
    <3> HIDE DEF p
    <3>4. p \in PresetIds /\ mine[p] \in Rows /\ mine[p] # None
      BY <3>3 DEF TypeOK, Known
    <3>5. remote \in Rows /\ remote.rid = s /\ remote.qsos = mine[p].qsos
      BY <1>3, <3>4, FromRemoteRow
    <3> HIDE DEF remote
    <3>6. row \in Rows /\ row.rid = s /\ mine[p].qsos \subseteq row.qsos
      BY <1>4, <3>5 DEF Rows
    <3>7. mine' = [mine EXCEPT ![p] = row]
      BY <2>1 DEF p, remote
    <3> HIDE DEF row
    <3> QED
      BY <2>1, <3>4, <3>6, <3>7
  <2>2. CASE born + 1 \in PresetIds /\ born' = born + 1
             /\ mine' = [mine EXCEPT ![born'] =
                            [FromRemote(s, sessions[s], None) EXCEPT !.qsos = linked]]
    <3> DEFINE remote == FromRemote(s, sessions[s], None)
               row == [remote EXCEPT !.qsos = linked]
    <3>1. remote \in Rows /\ remote.rid = s
      BY <1>3, FromRemoteRow
    <3> HIDE DEF remote
    <3>2. row \in Rows /\ row.rid = s
      BY <1>4, <3>1 DEF Rows
    <3>3. mine' = [mine EXCEPT ![born'] = row]
      BY <2>2 DEF remote
    <3> HIDE DEF row
    <3> QED
      BY <2>2, <3>2, <3>3
  <2> QED
    BY <1>2, <2>1, <2>2
<1>7. /\ mine' \in [PresetIds -> Rows \union {None}] /\ mine'[p] = row /\ row # None
      /\ \A r \in PresetIds : r # p => mine'[r] = mine[r]
  BY <1>6, RowIsThere DEF TypeOK
<1>8. born \in Nat /\ born' \in Nat /\ born <= born' /\ p \in Nat /\ PresetIds \subseteq Nat
  BY <1>6, IdsAssumption DEF TypeOK
<1>9. p <= born'
  BY <1>5, <1>6, <1>8 DEF NumberedInv
<1>10. StagesInv'
  BY <1>1, <1>5 DEF StagesInv
<1>11. \A r \in PresetIds : r > born' => mine'[r] = None /\ made'[r] = 0
  <2>1. \A r \in PresetIds : r > born' => r > born /\ r # p
    BY <1>8, <1>9
  <2> QED
    BY <1>1, <1>5, <1>7, <2>1 DEF NumberedInv
<1>12. \A r \in PresetIds : mine'[r] # None =>
          r > born \/ (mine[r] # None /\ mine[r].qsos \subseteq mine'[r].qsos)
  <2>1. p > born \/ (mine[p] # None /\ mine[p].qsos \subseteq mine'[p].qsos)
    BY <1>6, <1>7, <1>8
  <2> QED
    BY <1>7, <2>1
<1>13. NoSecondSession'
  BY <1>1, <1>5 DEF CountedInv, NoSecondSession
<1>14. Counted(mine, Losses)'
  <2> SUFFICES ASSUME NEW r \in PresetIds, mine'[r] # None, mine'[r].rid = 0
               PROVE  made[r] <= Losses
    BY <1>1, <1>5 DEF Counted
  <2>1. r # p
    BY <1>3, <1>6, <1>7
  <2> QED
    BY <1>5, <1>7, <2>1 DEF CountedInv, Counted
<1> QED
  BY <1>1, <1>7, <1>8, <1>10, <1>11, <1>12, <1>13, <1>14, CopyStep DEF TypeOK

\* A pull that fails, and requests that link QSOs or fail to, leave the copy alone.
LEMMA PullSessionFailsStep == ASSUME IInv, PullSessionFails PROVE IInv'
<1>1. /\ Step /\ at = "pull" /\ todo' = todo \ {Next1}
      /\ UNCHANGED <<sessions, at, mine, found, born, minted, made>>
      /\ faults' = faults \/ faults' = faults + 1
  BY DEF PullSessionFails, Done, Fault
<1>2. StagesInv'
  BY <1>1 DEF IInv, StagesInv, Step
<1>3. /\ sessions' \in [SessionIds -> RemoteSessions \union {None}]
      /\ faults' \in Nat /\ faults <= faults'
  BY <1>1 DEF IInv, TypeOK
<1> QED
  BY <1>1, <1>2, <1>3, CopyKept

LEMMA LinksType ==
    ASSUME IInv, NEW p \in Known(mine), mine[p].rid # 0, Links(p)
    PROVE  sessions' \in [SessionIds -> RemoteSessions \union {None}]
<1> DEFINE s == mine[p].rid
           session == [sessions[s] EXCEPT !.linked = @ \union (mine[p].qsos \intersect uploaded)]
<1>1. mine \in [PresetIds -> Rows \union {None}] /\ TypeOK
  BY DEF IInv, TypeOK
<1>2. s \in SessionIds /\ mine[p].qsos \in SUBSET QsoIds
  BY <1>1, KnownRow
<1>3. sessions[s] # None
      /\ sessions' = [sessions EXCEPT ![s].linked = @ \union (mine[p].qsos \intersect uploaded)]
  BY DEF Links
<1>4. sessions[s] \in RemoteSessions
  BY <1>1, <1>2, <1>3 DEF TypeOK
<1>5. session \in RemoteSessions
  BY <1>2, <1>4 DEF RemoteSessions
<1>6. sessions' = [sessions EXCEPT ![s] = session]
  BY <1>1, <1>2, <1>3 DEF TypeOK
<1> HIDE DEF session
<1> QED
  BY <1>1, <1>2, <1>5, <1>6, SessionStored

LEMMA LinkStep ==
    ASSUME IInv, LinkPreset \/ LinkPresetFails
    PROVE  IInv'
<1>1. /\ Step /\ at = "link" /\ todo # {} /\ todo' = todo \ {Next1}
      /\ UNCHANGED <<at, mine, found, born, minted, made>>
      /\ faults' = faults \/ faults' = faults + 1
      /\ sessions' = sessions \/ Links(Next1)
  BY DEF LinkPreset, LinkPresetFails, Done, Fault
<1>2. Next1 \in Known(mine) /\ mine[Next1].rid # 0
  <2>1. Next1 \in todo
    BY <1>1, Next1IsToDo
  <2> QED
    BY <1>1, <2>1 DEF IInv, StagesInv
<1>3. sessions' \in [SessionIds -> RemoteSessions \union {None}]
  <2>1. CASE sessions' = sessions
    BY <2>1 DEF IInv, TypeOK
  <2>2. CASE Links(Next1)
    BY <1>2, <2>2, LinksType
  <2> QED
    BY <1>1, <2>1, <2>2
<1>4. StagesInv'
  BY <1>1 DEF IInv, StagesInv, Step
<1>5. faults' \in Nat /\ faults <= faults'
  BY <1>1 DEF IInv, TypeOK
<1> QED
  BY <1>1, <1>3, <1>4, <1>5, CopyKept

LEMMA StutterStep == ASSUME IInv, UNCHANGED vars PROVE IInv'
<1>1. UNCHANGED <<presets, running, log, uploaded, sessions, job, at, todo, mine, found, born,
                  minted, ops, faults, hand, disturbed, overwritten, made>>
  BY DEF vars
<1>2. /\ uploaded' \subseteq QsoIds /\ ops' \in Nat /\ minted' \in Nat
      /\ sessions' \in [SessionIds -> RemoteSessions \union {None}]
  BY <1>1 DEF IInv, TypeOK
<1> QED
  BY <1>1, <1>2, WavelogStep

-----------------------------------------------------------------------------
(* Theorems                                                                *)

LEMMA NextInv == ASSUME IInv, [Next]_vars PROVE IInv'
<1>1. CASE User
  BY <1>1, NewPresetStep, EditPresetStep, DeletePresetStep, StartContestSessionStep,
     StopContestSessionStep, AddContestQsoStep, AssignContestQsoStep, WritePresetsStep,
     CountContestQsoStep, HandlerFailsStep DEF User
<1>2. CASE QsoUploaded \/ SessionsChange \/ WavelogUpdated
  BY <1>2, QsoUploadedStep, SessionsChangeStep, WavelogUpdatedStep
<1>3. CASE Sync
  BY <1>3, StartStep, ListMissingStep, ListFailsStep, ListedStep, PushPresetStep,
     PushPresetFailsStep, PushesDoneStep, PullSessionStep, PullSessionFailsStep, PullsDoneStep,
     LinkStep, LinksDoneStep, SavePresetsStep, CrashStep DEF Sync
<1>4. CASE UNCHANGED vars
  BY <1>4, StutterStep
<1> QED
  BY <1>1, <1>2, <1>3, <1>4 DEF Next

THEOREM Invariance == Spec => []IInv
BY InitInv, NextInv, PTL DEF Spec

\* Whatever is edited, deleted and synchronised, with a sync between any two steps of a
\* handler, however often requests fail, answers are lost, handlers break off and the program
\* ends: a preset has at most one session on Wavelog more than something failed or a handler
\* undid the save of a sync.  Every other way of a new session id from the answer to the
\* saved presets keeps it (ContestSyncEngine.sync, logger_core.py:2946; the handlers that
\* read and write the presets, feature_contest.py:149 and :165, 229 and 234, 368 and 375).
THEOREM SecondSessionsCostFailures == Spec => []NoSecondSession
<1>1. IInv => NoSecondSession
  BY DEF IInv, CountedInv
<1> QED
  BY <1>1, Invariance, PTL

\* When two QSOs logged with one preset have the same serial number, one of them was logged
\* while a sync ran or its save broke off between the log, the presets and the session
\* (save_contest_qso, feature_contest.py:367, :375, :379), whatever sessions, edits, syncs,
\* errors and crashes came in between: no sync and no overwritten save takes another QSO
\* from its preset, so that the next session starts above them all (start_contest_session,
\* feature_contest.py:201).
THEOREM SerialsStayDistinct == Spec => []SerialsDistinct
<1>1. IInv => SerialsDistinct
  BY DEF IInv, SerialsInv
<1> QED
  BY <1>1, Invariance, PTL

=============================================================================

--------------------------- MODULE WsjtxSync_proofs ---------------------------
(***************************************************************************)
(* The merge of the two logs brings every QSO to both and adds no          *)
(* duplicate, for any number of QSOs, events and crashes.                  *)
(***************************************************************************)
EXTENDS WsjtxSync, SequenceTheorems, WellFoundedInduction, TLAPS

-----------------------------------------------------------------------------
(* The matcher. *)

(* A QSO is the same contact as itself.                                    *)
LEMMA SameAsItself ==
    ASSUME NEW q \in Qso
    PROVE  SameContact(q, q)
<1>1. q.time \in Int /\ q.freq \in Int
  BY DEF Qso
<1>2. Distance(q.time, q.time) = 0 /\ Distance(q.freq, q.freq) = 0
  BY <1>1 DEF Distance
<1>3. QED
  BY <1>2, ToleranceAssumption
     DEF SameContact, StationCompatible, StrictSameContact, FrequencyCompatible

(* It does not matter which of two QSOs is looked for.                     *)
LEMMA SameBothWays ==
    ASSUME NEW p \in Qso, NEW q \in Qso, SameContact(p, q)
    PROVE  SameContact(q, p)
<1>1. p.time \in Int /\ p.freq \in Int /\ q.time \in Int /\ q.freq \in Int
  BY DEF Qso
<1>2. /\ Distance(p.time, q.time) = Distance(q.time, p.time)
      /\ Distance(p.freq, q.freq) = Distance(q.freq, p.freq)
  BY <1>1 DEF Distance
<1>3. QED
  BY <1>2 DEF SameContact, StationCompatible, StrictSameContact, FrequencyCompatible

(* What normalising (_normalize_qso) leaves as it is.                      *)
LEMMA NormalizedQso ==
    ASSUME NEW q \in Qso
    PROVE  /\ NormalizeQso(q) \in Qso
           /\ NormalizeQso(NormalizeQso(q)) = NormalizeQso(q)
           /\ ValidQso(NormalizeQso(q)) <=> ValidQso(q)
           /\ BelongsToActiveStation(NormalizeQso(q)) <=> BelongsToActiveStation(q)
<1>1. CASE q.station # NoStation
  BY <1>1 DEF NormalizeQso
<1>2. CASE q.station = NoStation
  <2>1. /\ NormalizeQso(q) = [q EXCEPT !.station = ActiveStation]
        /\ NormalizeQso(q) \in Qso /\ NormalizeQso(q).station = ActiveStation
        /\ NormalizeQso(q).valid = q.valid
    BY <1>2 DEF NormalizeQso, Qso
  <2>2. [NormalizeQso(q) EXCEPT !.station = ActiveStation] = NormalizeQso(q)
    BY <2>1 DEF Qso
  <2>3. NormalizeQso(NormalizeQso(q)) = NormalizeQso(q)
    BY <2>2 DEF NormalizeQso
  <2>4. QED BY <1>2, <2>1, <2>3 DEF ValidQso, BelongsToActiveStation
<1>3. QED BY <1>1, <1>2

(* A record without a station matches more than the normalised one.        *)
LEMMA NormalizedMatches ==
    ASSUME NEW p \in Qso, NEW q \in Qso, SameContact(p, NormalizeQso(q))
    PROVE  SameContact(p, q)
<1>1. CASE q.station # NoStation
  BY <1>1 DEF NormalizeQso
<1>2. CASE q.station = NoStation
  <2>1. /\ NormalizeQso(q).bucket = q.bucket /\ NormalizeQso(q).time = q.time
        /\ NormalizeQso(q).freq = q.freq
    BY <1>2 DEF NormalizeQso, Qso
  <2>2. QED
    BY <1>2, <2>1
       DEF SameContact, StationCompatible, StrictSameContact, FrequencyCompatible
<1>3. QED BY <1>1, <1>2

-----------------------------------------------------------------------------
(* The loops. *)

(* A set of numbers that is not empty has a least one.                     *)
LEMMA Least ==
    ASSUME NEW bad \in SUBSET Nat, bad # {}
    PROVE  \E k \in bad : \A m \in Nat : m < k => m \notin bad
<1>1. PICK k \in bad : \A m \in bad : ~(<<m, k>> \in OpToRel(<, Nat))
  BY WFMin, NatLessThanWellFounded
<1>2. QED BY <1>1 DEF OpToRel

(* What a loop has taken after it looked at one more QSO.                  *)
Longer(taken, known, wanted, q) ==
    IF q \in wanted /\ ~Known(known \union Range(taken), q) THEN Append(taken, q) ELSE taken

(* The function by which FoldLeft is defined, for some of the places.      *)
Folds(known, qsos, wanted, places, fold) ==
    fold = [s \in SUBSET places |->
              IF s = {} THEN <<>>
              ELSE Longer(fold[s \ {Max(s)}], known, wanted, qsos[Max(s)])]

LEMMA LastPlace ==
    ASSUME NEW n \in Nat, n # 0, NEW s \in SUBSET (1 .. n), n \in s
    PROVE  Max(s) = n
<1>1. \A y \in s : n >= y
  OBVIOUS
<1>2. \A x \in s : (\A y \in s : x >= y) => x = n
  OBVIOUS
<1>3. QED BY <1>1, <1>2 DEF Max

(* There is such a function, for any number of places.                     *)
LEMMA FoldExists ==
    ASSUME NEW known, NEW qsos, NEW wanted, NEW n \in Nat
    PROVE  \E fold : Folds(known, qsos, wanted, 1 .. n, fold)
<1> DEFINE Has(k) == \E fold : Folds(known, qsos, wanted, 1 .. k, fold)
           bad == {k \in Nat : ~Has(k)}
<1>1. SUFFICES ASSUME bad # {} PROVE FALSE
  BY DEF bad
<1>2. PICK k \in bad : \A m \in Nat : m < k => m \notin bad
  BY <1>1, Least
<1>3. k \in Nat /\ ~Has(k) /\ \A m \in Nat : m < k => Has(m)
  BY <1>2
<1>4. CASE k = 0
  <2>1. SUBSET (1 .. k) = {{}}
    BY <1>4
  <2>2. Folds(known, qsos, wanted, 1 .. k, [s \in SUBSET (1 .. k) |-> <<>>])
    BY <2>1 DEF Folds
  <2>3. QED BY <1>3, <2>2
<1>5. CASE k # 0
  <2>1. PICK f : Folds(known, qsos, wanted, 1 .. (k - 1), f)
    BY <1>3, <1>5
  <2> DEFINE g == [s \in SUBSET (1 .. k) |->
                     IF k \in s THEN Longer(f[s \ {k}], known, wanted, qsos[k]) ELSE f[s]]
             Next1(h, s) == IF s = {} THEN <<>>
                            ELSE Longer(h[s \ {Max(s)}], known, wanted, qsos[Max(s)])
  <2>2. \A s \in SUBSET (1 .. (k - 1)) :
          /\ s \in SUBSET (1 .. k) /\ k \notin s /\ g[s] = f[s]
          /\ f[s] = Next1(f, s) /\ s \ {Max(s)} \in SUBSET (1 .. (k - 1))
    <3> SUFFICES ASSUME NEW s \in SUBSET (1 .. (k - 1))
                 PROVE  /\ s \in SUBSET (1 .. k) /\ k \notin s /\ g[s] = f[s]
                        /\ f[s] = Next1(f, s)
                        /\ s \ {Max(s)} \in SUBSET (1 .. (k - 1))
      OBVIOUS
    <3>1. s \in SUBSET (1 .. k) /\ k \notin s
      BY <1>3, <1>5
    <3>2. g[s] = f[s]
      BY <3>1
    <3>3. f[s] = Next1(f, s)
      BY <2>1 DEF Folds
    <3>4. QED BY <3>1, <3>2, <3>3
  <2>3. \A s \in SUBSET (1 .. k) : g[s] = Next1(g, s)
    <3> SUFFICES ASSUME NEW s \in SUBSET (1 .. k) PROVE g[s] = Next1(g, s)
      OBVIOUS
    <3>1. CASE k \in s
      <4>1. Max(s) = k /\ s # {} /\ s \ {k} \in SUBSET (1 .. (k - 1))
        BY <1>3, <1>5, <3>1, LastPlace
      <4>2. g[s \ {k}] = f[s \ {k}]
        BY <2>2, <4>1
      <4>3. g[s] = Longer(f[s \ {k}], known, wanted, qsos[k])
        BY <3>1
      <4>4. QED BY <4>1, <4>2, <4>3
    <3>2. CASE k \notin s
      <4>1. s \in SUBSET (1 .. (k - 1))
        BY <1>3, <1>5, <3>2
      <4>2. g[s] = f[s] /\ f[s] = Next1(f, s) /\ g[s \ {Max(s)}] = f[s \ {Max(s)}]
        BY <2>2, <4>1
      <4>3. QED BY <4>2
    <3>3. QED BY <3>1, <3>2
  <2>4. g = [s \in SUBSET (1 .. k) |-> g[s]]
    OBVIOUS
  <2>5. g = [s \in SUBSET (1 .. k) |-> Next1(g, s)]
    <3> HIDE DEF g, Next1
    <3> QED BY <2>3, <2>4
  <2>6. Folds(known, qsos, wanted, 1 .. k, g)
    <3> HIDE DEF g
    <3> QED BY <2>5 DEF Folds
  <2>7. QED BY <1>3, <2>6
<1>6. QED BY <1>4, <1>5

(* A loop step by step: it begins with nothing and looks at one QSO after  *)
(* the other.                                                              *)
LEMMA LoopSteps ==
    ASSUME NEW S, NEW known, NEW qsos \in Seq(S), NEW wanted
    PROVE  \E taken :
              /\ taken[0] = <<>>
              /\ \A k \in 1 .. Len(qsos) :
                    taken[k] = Longer(taken[k - 1], known, wanted, qsos[k])
              /\ taken[Len(qsos)] = NotYetKnown(known, qsos, wanted)
<1> DEFINE n == Len(qsos)
           fold == CHOOSE f : Folds(known, qsos, wanted, 1 .. n, f)
           taken == [k \in 0 .. n |-> fold[1 .. k]]
<1>1. n \in Nat /\ DOMAIN qsos = 1 .. n
  BY LenProperties
<1>2. Folds(known, qsos, wanted, 1 .. n, fold)
  BY <1>1, FoldExists
<1>3. NotYetKnown(known, qsos, wanted) =
        (CHOOSE f : Folds(known, qsos, wanted, DOMAIN qsos, f))[DOMAIN qsos]
  BY DEF NotYetKnown, FoldLeft, MapThenFoldSet, Folds, Longer
<1>4. taken[n] = NotYetKnown(known, qsos, wanted)
  BY <1>1, <1>3
<1> HIDE DEF fold
<1>5. taken[0] = <<>>
  <2>1. 1 .. 0 = {} /\ {} \in SUBSET (1 .. n)
    OBVIOUS
  <2>2. fold[{}] = <<>>
    BY <1>2, <2>1 DEF Folds
  <2>3. QED BY <1>1, <2>1, <2>2
<1>6. ASSUME NEW k \in 1 .. n
      PROVE  taken[k] = Longer(taken[k - 1], known, wanted, qsos[k])
  <2>1. /\ 1 .. k \in SUBSET (1 .. n) /\ 1 .. k # {} /\ k \in 1 .. k
        /\ (1 .. k) \ {k} = 1 .. (k - 1) /\ k \in Nat /\ k # 0
        /\ k \in 0 .. n /\ k - 1 \in 0 .. n
    <3>1. k \in Nat /\ k # 0 /\ k \in 0 .. n /\ k - 1 \in 0 .. n /\ k \in 1 .. k
      BY <1>1
    <3>2. 1 .. k \subseteq 1 .. n
      BY <1>1
    <3>3. (1 .. k) \ {k} = 1 .. (k - 1)
      BY <1>1
    <3>4. QED BY <3>1, <3>2, <3>3
  <2>2. Max(1 .. k) = k
    BY <2>1, LastPlace
  <2>3. fold[1 .. k] = Longer(fold[(1 .. k) \ {Max(1 .. k)}], known, wanted, qsos[Max(1 .. k)])
    BY <1>2, <2>1 DEF Folds
  <2>4. fold[1 .. k] = Longer(fold[1 .. (k - 1)], known, wanted, qsos[k])
    BY <2>1, <2>2, <2>3
  <2>5. taken[k] = fold[1 .. k] /\ taken[k - 1] = fold[1 .. (k - 1)]
    BY <2>1
  <2>6. QED BY <2>4, <2>5
<1> HIDE DEF taken
<1>7. QED BY <1>4, <1>5, <1>6

(* The QSOs a loop takes are wanted ones; none was known, nor is the same  *)
(* contact as one taken before; and all wanted ones are known in the end.  *)
TakenFrom(known, qsos, wanted, k, taken) ==
    /\ taken \in Seq(Qso)
    /\ Range(taken) \subseteq Range(qsos) \intersect wanted
    /\ \A i \in DOMAIN taken : ~Known(known, taken[i])
    /\ \A i, j \in DOMAIN taken : i < j => ~SameContact(taken[j], taken[i])
    /\ \A i \in 1 .. k : qsos[i] \in wanted => Known(known \union Range(taken), qsos[i])

LEMMA TakenMore ==
    ASSUME NEW known, NEW qsos \in Seq(Qso), NEW wanted, NEW k \in 1 .. Len(qsos),
           NEW taken, TakenFrom(known, qsos, wanted, k - 1, taken)
    PROVE  TakenFrom(known, qsos, wanted, k, Longer(taken, known, wanted, qsos[k]))
<1> DEFINE q == qsos[k]
<1>1. q \in Qso /\ q \in Range(qsos) /\ k \in Nat /\ k # 0
  BY LenProperties, ElementOfSeq DEF Range
<1>2. taken \in Seq(Qso)
  BY DEF TakenFrom
<1>3. CASE q \in wanted /\ ~Known(known \union Range(taken), q)
  <2> DEFINE new == Append(taken, q)
  <2>1. Longer(taken, known, wanted, q) = new
    BY <1>3 DEF Longer
  <2>2. /\ new \in Seq(Qso) /\ DOMAIN new = 1 .. (Len(taken) + 1)
        /\ DOMAIN taken = 1 .. Len(taken) /\ Len(taken) \in Nat
        /\ \A i \in 1 .. Len(taken) : new[i] = taken[i]
        /\ new[Len(taken) + 1] = q
    BY <1>1, <1>2, LenProperties
  <2> HIDE DEF new
  <2>3. Range(new) = Range(taken) \union {q}
    BY <2>2 DEF Range
  <2>4. ~Known(known, q) /\ \A i \in DOMAIN taken : ~SameContact(q, taken[i])
    BY <1>3 DEF Known, Range
  <2>5. /\ Range(new) \subseteq Range(qsos) \intersect wanted
        /\ \A i \in DOMAIN new : ~Known(known, new[i])
    BY <1>1, <1>3, <2>2, <2>3, <2>4 DEF TakenFrom
  <2>6. \A i, j \in DOMAIN new : i < j => ~SameContact(new[j], new[i])
    <3> SUFFICES ASSUME NEW i \in DOMAIN new, NEW j \in DOMAIN new, i < j
                 PROVE  ~SameContact(new[j], new[i])
      OBVIOUS
    <3>1. i \in 1 .. Len(taken) /\ new[i] = taken[i]
      BY <2>2
    <3>2. CASE j = Len(taken) + 1
      BY <2>2, <2>4, <3>1, <3>2
    <3>3. CASE j # Len(taken) + 1
      <4>1. j \in 1 .. Len(taken) /\ new[j] = taken[j]
        BY <2>2, <3>3
      <4>2. QED BY <2>2, <3>1, <4>1 DEF TakenFrom
    <3>4. QED BY <3>2, <3>3
  <2>7. \A i \in 1 .. k : qsos[i] \in wanted => Known(known \union Range(new), qsos[i])
    <3> SUFFICES ASSUME NEW i \in 1 .. k, qsos[i] \in wanted
                 PROVE  Known(known \union Range(new), qsos[i])
      OBVIOUS
    <3>1. CASE i = k
      BY <1>1, <2>3, <3>1, SameAsItself DEF Known
    <3>2. CASE i # k
      <4>1. i \in 1 .. (k - 1)
        BY <1>1, <3>2
      <4>2. Known(known \union Range(taken), qsos[i])
        BY <4>1 DEF TakenFrom
      <4>3. QED BY <2>3, <4>2 DEF Known
    <3>3. QED BY <3>1, <3>2
  <2>8. TakenFrom(known, qsos, wanted, k, new)
    BY <2>2, <2>5, <2>6, <2>7 DEF TakenFrom
  <2>9. QED BY <2>1, <2>8
<1>4. CASE ~(q \in wanted /\ ~Known(known \union Range(taken), q))
  <2>1. Longer(taken, known, wanted, q) = taken
    BY <1>4 DEF Longer
  <2>2. \A i \in 1 .. k : qsos[i] \in wanted => Known(known \union Range(taken), qsos[i])
    <3> SUFFICES ASSUME NEW i \in 1 .. k, qsos[i] \in wanted
                 PROVE  Known(known \union Range(taken), qsos[i])
      OBVIOUS
    <3>1. CASE i = k
      BY <1>4, <3>1
    <3>2. CASE i # k
      <4>1. i \in 1 .. (k - 1)
        BY <1>1, <3>2
      <4>2. QED BY <4>1 DEF TakenFrom
    <3>3. QED BY <3>1, <3>2
  <2>3. TakenFrom(known, qsos, wanted, k, taken)
    BY <2>2 DEF TakenFrom
  <2>4. QED BY <2>1, <2>3
<1>5. QED BY <1>3, <1>4

LEMMA LoopResult ==
    ASSUME NEW known, NEW qsos \in Seq(Qso), NEW wanted
    PROVE  TakenFrom(known, qsos, wanted, Len(qsos), NotYetKnown(known, qsos, wanted))
<1>1. PICK taken : /\ taken[0] = <<>>
                   /\ \A k \in 1 .. Len(qsos) :
                         taken[k] = Longer(taken[k - 1], known, wanted, qsos[k])
                   /\ taken[Len(qsos)] = NotYetKnown(known, qsos, wanted)
  BY LoopSteps
<1> DEFINE Good(k) == TakenFrom(known, qsos, wanted, k, taken[k])
           bad == {k \in 0 .. Len(qsos) : ~Good(k)}
<1>2. Len(qsos) \in Nat
  BY LenProperties
<1>3. Good(0)
  <2>1. /\ <<>> \in Seq(Qso) /\ DOMAIN <<>> = {} /\ Range(<<>>) = {} /\ 1 .. 0 = {}
    BY EmptySeq DEF Range
  <2>2. TakenFrom(known, qsos, wanted, 0, <<>>)
    BY <2>1 DEF TakenFrom
  <2>3. QED BY <1>1, <2>2
<1>4. bad = {}
  <2>1. SUFFICES ASSUME bad # {} PROVE FALSE
    OBVIOUS
  <2>2. PICK k \in bad : \A m \in Nat : m < k => m \notin bad
    <3>1. bad \in SUBSET Nat
      BY <1>2
    <3>2. QED BY <2>1, <3>1, Least
  <2>3. k \in 1 .. Len(qsos) /\ ~Good(k) /\ k - 1 \in 0 .. Len(qsos)
    <3>1. k \in 0 .. Len(qsos) /\ ~Good(k)
      BY <2>2
    <3>2. k # 0
      BY <1>3, <3>1
    <3>3. QED BY <1>2, <3>1, <3>2
  <2>4. Good(k - 1)
    <3>1. k - 1 \notin bad
      BY <2>2, <2>3
    <3>2. QED BY <2>3, <3>1
  <2>5. taken[k] = Longer(taken[k - 1], known, wanted, qsos[k])
    BY <1>1, <2>3
  <2>6. TakenFrom(known, qsos, wanted, k - 1, taken[k - 1])
    BY <2>4
  <2> HIDE DEF Good
  <2>7. TakenFrom(known, qsos, wanted, k, taken[k])
    BY <2>3, <2>5, <2>6, TakenMore
  <2>8. QED BY <2>3, <2>7 DEF Good
<1>5. Good(Len(qsos))
  BY <1>2, <1>4
<1>6. QED BY <1>1, <1>5

-----------------------------------------------------------------------------
(* The inductive invariant. *)

Steps == {"idle", "read", "add_many", "ensure_local", "rescan", "reread", "append_records",
          "backup", "append", "verify", "done", "failed"}

Entry == [id : Nat, qso : Qso, by : {"user", "udp", "sync"}, besides : SUBSET Nat]

TypeInv ==
    /\ pc \in Steps
    /\ local \in Seq(Entry) /\ view \in Seq(Entry)
    /\ file \in Seq(Qso) /\ pending \in Seq(Qso)
    /\ datagrams \subseteq Qso /\ accepting \subseteq [qso : Qso, seen : SUBSET Nat]
    /\ late \subseteq Nat /\ raced \in Nat
    /\ quiet \in {"no", "running", "yes"}

(* What is known of a QSO that is logged: it is normalised, its id is its  *)
(* place, and it is no duplicate of an earlier one, but for the exceptions.*)
NoDuplicateOf(older, entry) ==
    SameContact(older.qso, entry.qso) => entry.by = "user" \/ older.id \in entry.besides

LocalInv ==
    /\ \A i \in DOMAIN local :
          local[i].id = i /\ NormalizeQso(local[i].qso) = local[i].qso
    /\ \A i, j \in DOMAIN local : i < j => NoDuplicateOf(local[i], local[j])

(* The QSO that the listener found new is normalised and still new to the  *)
(* records that it has seen.                                               *)
NewToTheSeen(found) ==
    /\ NormalizeQso(found.qso) = found.qso
    /\ found.seen \subseteq DOMAIN local
    /\ \A i \in found.seen : ~SameContact(local[i].qso, found.qso)

AcceptInv == \A found \in accepting : NewToTheSeen(found)

(* The view is a beginning of the log, what was logged since the first     *)
(* scan is in late, and every record but new ones has its row.             *)
ViewInv ==
    /\ Len(view) <= Len(local) /\ \A i \in DOMAIN view : view[i] = local[i]
    /\ pc \in {"read", "add_many"} => \A i \in DOMAIN local : i \in DOMAIN view \/ i \in late
    /\ pc # "ensure_local" => Ids(local) \subseteq indexed

(* What is about to be imported is normalised and new to the view.         *)
ImportInv ==
    pc = "add_many" =>
        /\ \A b \in DOMAIN pending :
              /\ NormalizeQso(pending[b]) = pending[b]
              /\ \A i \in DOMAIN view : ~SameContact(pending[b], view[i].qso)
        /\ \A a, b \in DOMAIN pending : a < b => ~SameContact(pending[b], pending[a])

(* A QSO of the file that the log has to have.                             *)
Wanted(q) == BelongsToActiveStation(q) /\ ValidQso(q)

(* In a sync that nobody disturbed, the WSJT-X file is in the log.         *)
QuietInv ==
    quiet # "no" =>
        /\ pc = "read" => view = local
        /\ pc = "add_many" =>
              \A i \in DOMAIN file :
                 Wanted(file[i]) =>
                    Known(Range(Qsos(local)) \union Range(pending), NormalizeQso(file[i]))
        /\ pc \notin {"idle", "read", "add_many"} =>
              \A i \in DOMAIN file :
                 Wanted(file[i]) => Known(Range(Qsos(local)), NormalizeQso(file[i]))

(* A record of the view as the merge sees it, and the contacts it may be   *)
(* taken for.                                                              *)
Shown(i) == NormalizeQso(view[i].qso)

TakenFor(i, j) == i = j \/ SameContact(Shown(i), Shown(j))

(* What is to be appended comes from the view; and each valid record of it *)
(* is taken for one that is in the file or will be.                        *)
ExportInv ==
    /\ pc \in {"append_records", "backup", "append", "verify"} =>
          \A b \in DOMAIN pending : \E j \in DOMAIN view : pending[b] = Shown(j)
    /\ pc = "append_records" =>
          /\ \A a, b \in DOMAIN pending : a < b => ~SameContact(pending[b], pending[a])
          /\ \A i \in DOMAIN view :
                ValidQso(Shown(i)) =>
                   \/ Known(Range(file), Shown(i))
                   \/ \E b \in DOMAIN pending : SameContact(Shown(i), pending[b])
    /\ pc \in {"backup", "append", "verify"} =>
          \A i \in DOMAIN view :
             ValidQso(Shown(i)) =>
                \E j \in DOMAIN view :
                   /\ TakenFor(i, j)
                   /\ Known(Range(file), Shown(j)) \/ Shown(j) \in Range(pending)
    /\ pc = "done" =>
          \A i \in DOMAIN view :
             ValidQso(Shown(i)) =>
                \E j \in DOMAIN view : TakenFor(i, j) /\ Known(Range(file), Shown(j))

(* What is to be appended is new to the file as it was read.               *)
AppendInv ==
    pc \in {"backup", "append"} =>
        /\ raced <= Len(file)
        /\ \A b \in DOMAIN pending :
              ~Known(Range(SubSeq(file, 1, Len(file) - raced)), pending[b])

IInv ==
    TypeInv /\ LocalInv /\ AcceptInv /\ ViewInv /\ ImportInv /\ QuietInv /\ ExportInv
    /\ AppendInv

-----------------------------------------------------------------------------
(* Logs and files. *)

LEMMA QsosOf ==
    ASSUME NEW log \in Seq(Entry)
    PROVE  /\ Qsos(log) \in Seq(Qso) /\ Len(Qsos(log)) = Len(log)
           /\ DOMAIN Qsos(log) = DOMAIN log /\ DOMAIN log = 1 .. Len(log)
           /\ \A i \in DOMAIN log : Qsos(log)[i] = log[i].qso /\ log[i].qso \in Qso
           /\ Range(Qsos(log)) = {log[i].qso : i \in DOMAIN log}
<1>1. DOMAIN log = 1 .. Len(log) /\ Len(log) \in Nat /\ \A i \in DOMAIN log : log[i] \in Entry
  BY LenProperties, ElementOfSeq
<1>2. \A i \in DOMAIN log : log[i].qso \in Qso
  BY <1>1 DEF Entry
<1>3. Qsos(log) = [i \in 1 .. Len(log) |-> log[i].qso]
  BY <1>1 DEF Qsos
<1>4. Qsos(log) \in Seq(Qso) /\ Len(Qsos(log)) = Len(log)
  BY <1>1, <1>2, <1>3
<1>5. QED BY <1>1, <1>2, <1>3, <1>4 DEF Range

LEMMA NormalizedOf ==
    ASSUME NEW qsos \in Seq(Qso)
    PROVE  /\ Normalized(qsos) \in Seq(Qso) /\ Len(Normalized(qsos)) = Len(qsos)
           /\ DOMAIN Normalized(qsos) = DOMAIN qsos /\ DOMAIN qsos = 1 .. Len(qsos)
           /\ \A i \in DOMAIN qsos : /\ qsos[i] \in Qso
                                     /\ Normalized(qsos)[i] = NormalizeQso(qsos[i])
           /\ Range(Normalized(qsos)) = {NormalizeQso(qsos[i]) : i \in DOMAIN qsos}
<1>1. DOMAIN qsos = 1 .. Len(qsos) /\ Len(qsos) \in Nat /\ \A i \in DOMAIN qsos : qsos[i] \in Qso
  BY LenProperties, ElementOfSeq
<1>2. \A i \in DOMAIN qsos : NormalizeQso(qsos[i]) \in Qso
  BY <1>1, NormalizedQso
<1>3. Normalized(qsos) = [i \in 1 .. Len(qsos) |-> NormalizeQso(qsos[i])]
  BY <1>1 DEF Normalized
<1>4. Normalized(qsos) \in Seq(Qso) /\ Len(Normalized(qsos)) = Len(qsos)
  BY <1>1, <1>2, <1>3
<1>5. QED BY <1>1, <1>3, <1>4 DEF Range

(* What a file holds after more was appended.                              *)
LEMMA RangeOfBoth ==
    ASSUME NEW S, NEW s \in Seq(S), NEW t \in Seq(S)
    PROVE  /\ s \o t \in Seq(S) /\ Len(s \o t) = Len(s) + Len(t)
           /\ Range(s \o t) = Range(s) \union Range(t)
<1>1. /\ Len(s) \in Nat /\ Len(t) \in Nat
      /\ DOMAIN s = 1 .. Len(s) /\ DOMAIN t = 1 .. Len(t)
      /\ s \o t \in Seq(S) /\ Len(s \o t) = Len(s) + Len(t)
      /\ DOMAIN (s \o t) = 1 .. (Len(s) + Len(t))
      /\ \A i \in 1 .. (Len(s) + Len(t)) :
            (s \o t)[i] = IF i <= Len(s) THEN s[i] ELSE t[i - Len(s)]
  BY LenProperties, ConcatProperties
<1>2. ASSUME NEW x \in Range(s \o t) PROVE x \in Range(s) \union Range(t)
  <2>1. PICK i \in 1 .. (Len(s) + Len(t)) : x = (s \o t)[i]
    BY <1>1, <1>2 DEF Range
  <2>2. CASE i <= Len(s)
    BY <1>1, <2>1, <2>2 DEF Range
  <2>3. CASE ~(i <= Len(s))
    <3>1. i - Len(s) \in 1 .. Len(t) /\ x = t[i - Len(s)]
      BY <1>1, <2>1, <2>3
    <3>2. QED BY <1>1, <3>1 DEF Range
  <2>4. QED BY <2>2, <2>3
<1>3. ASSUME NEW x \in Range(s) PROVE x \in Range(s \o t)
  <2>1. PICK i \in 1 .. Len(s) : x = s[i]
    BY <1>1, <1>3 DEF Range
  <2>2. i \in 1 .. (Len(s) + Len(t)) /\ (s \o t)[i] = x
    BY <1>1, <2>1
  <2>3. QED BY <1>1, <2>2 DEF Range
<1>4. ASSUME NEW x \in Range(t) PROVE x \in Range(s \o t)
  <2>1. PICK i \in 1 .. Len(t) : x = t[i]
    BY <1>1, <1>4 DEF Range
  <2>2. i + Len(s) \in 1 .. (Len(s) + Len(t)) /\ ~(i + Len(s) <= Len(s))
        /\ (i + Len(s)) - Len(s) = i
    BY <1>1, <2>1
  <2>3. (s \o t)[i + Len(s)] = x
    BY <1>1, <2>1, <2>2
  <2>4. QED BY <1>1, <2>2, <2>3 DEF Range
<1>5. QED BY <1>1, <1>2, <1>3, <1>4

(* What was at the beginning of a file stays there when more is appended.  *)
LEMMA ReadPartStays ==
    ASSUME NEW S, NEW s \in Seq(S), NEW t \in Seq(S), NEW n \in 0 .. Len(s)
    PROVE  SubSeq(s \o t, 1, n) = SubSeq(s, 1, n)
<1>1. /\ Len(s) \in Nat /\ Len(t) \in Nat /\ n \in Nat
      /\ s \o t \in Seq(S) /\ Len(s \o t) = Len(s) + Len(t)
      /\ \A i \in 1 .. (Len(s) + Len(t)) :
            (s \o t)[i] = IF i <= Len(s) THEN s[i] ELSE t[i - Len(s)]
  BY LenProperties, ConcatProperties
<1>2. SubSeq(s, 1, n) \in Seq(S) /\ SubSeq(s \o t, 1, n) \in Seq(S)
  BY <1>1, SubSeqProperties
<1>3. /\ Len(SubSeq(s, 1, n)) = n /\ \A i \in 1 .. n : SubSeq(s, 1, n)[i] = s[i]
  BY <1>1
<1>4. /\ Len(SubSeq(s \o t, 1, n)) = n
      /\ \A i \in 1 .. n : SubSeq(s \o t, 1, n)[i] = s[i]
  BY <1>1
<1>5. QED BY <1>2, <1>3, <1>4, SeqEqual

(* A file only grows, by some of what is appended.                         *)
LEMMA FileGrows ==
    ASSUME file \in Seq(Qso), NEW qsos \in Seq(Qso), NEW new \in FilesAfterAppend(qsos)
    PROVE  \E added \in Seq(Qso) : new = file \o added /\ Range(added) \subseteq Range(qsos)
<1>1. CASE new = file \o qsos
  BY <1>1
<1>2. CASE qsos # <<>> /\ new = file \o Tail(qsos)
  <2>1. Tail(qsos) \in Seq(Qso) /\ Len(Tail(qsos)) = Len(qsos) - 1
        /\ \A i \in 1 .. Len(Tail(qsos)) : Tail(qsos)[i] = qsos[i + 1]
    BY <1>2, HeadTailProperties
  <2>2. DOMAIN qsos = 1 .. Len(qsos) /\ DOMAIN Tail(qsos) = 1 .. Len(Tail(qsos))
        /\ Len(qsos) \in Nat
    BY <2>1, LenProperties
  <2>3. Range(Tail(qsos)) \subseteq Range(qsos)
    <3> SUFFICES ASSUME NEW i \in 1 .. Len(Tail(qsos)) PROVE Tail(qsos)[i] \in Range(qsos)
      BY <2>2 DEF Range
    <3>1. i + 1 \in DOMAIN qsos
      BY <2>1, <2>2
    <3>2. QED BY <2>1, <3>1 DEF Range
  <2>4. QED BY <1>2, <2>1, <2>3
<1>3. new = file \o qsos \/ (qsos # <<>> /\ new = file \o Tail(qsos))
  BY DEF FilesAfterAppend
<1>4. QED BY <1>1, <1>2, <1>3

(* What is known stays known when more is added.                           *)
LEMMA KnownMore ==
    ASSUME NEW qsos, NEW more, qsos \subseteq more, NEW q, Known(qsos, q)
    PROVE  Known(more, q)
BY DEF Known

(* The log after records were added to it.                                 *)
LEMMA LogGrows ==
    ASSUME TypeInv, NEW new \in Seq(Entry), local' = local \o new
    PROVE  /\ local' \in Seq(Entry) /\ Len(local') = Len(local) + Len(new)
           /\ Len(local) \in Nat /\ Len(new) \in Nat
           /\ DOMAIN local = 1 .. Len(local) /\ DOMAIN local' = 1 .. Len(local')
           /\ \A i \in DOMAIN local : i \in DOMAIN local' /\ local'[i] = local[i]
           /\ \A b \in 1 .. Len(new) : /\ Len(local) + b \in DOMAIN local'
                                       /\ local'[Len(local) + b] = new[b]
           /\ \A i \in DOMAIN local' :
                 i \in DOMAIN local \/ \E b \in 1 .. Len(new) : i = Len(local) + b
           /\ Range(Qsos(local')) = Range(Qsos(local)) \union Range(Qsos(new))
<1>1. /\ local \in Seq(Entry) /\ local' \in Seq(Entry) /\ Len(local') = Len(local) + Len(new)
      /\ Len(local) \in Nat /\ Len(new) \in Nat
      /\ DOMAIN local = 1 .. Len(local) /\ DOMAIN local' = 1 .. Len(local')
      /\ DOMAIN new = 1 .. Len(new)
      /\ \A i \in 1 .. (Len(local) + Len(new)) :
            local'[i] = IF i <= Len(local) THEN local[i] ELSE new[i - Len(local)]
  BY LenProperties, ConcatProperties DEF TypeInv
<1>2. \A i \in DOMAIN local : i \in DOMAIN local' /\ local'[i] = local[i]
  BY <1>1
<1>3. ASSUME NEW b \in 1 .. Len(new)
      PROVE  Len(local) + b \in DOMAIN local' /\ local'[Len(local) + b] = new[b]
  <2>1. Len(local) + b \in 1 .. (Len(local) + Len(new)) /\ ~(Len(local) + b <= Len(local))
        /\ (Len(local) + b) - Len(local) = b
    BY <1>1
  <2>2. QED BY <1>1, <2>1
<1>4. ASSUME NEW i \in DOMAIN local', i \notin DOMAIN local
      PROVE  \E b \in 1 .. Len(new) : i = Len(local) + b
  <2>1. i - Len(local) \in 1 .. Len(new) /\ i = Len(local) + (i - Len(local))
    BY <1>1, <1>4
  <2>2. QED BY <2>1
<1>5. Range(Qsos(local')) = Range(Qsos(local)) \union Range(Qsos(new))
  <2>1. /\ Range(Qsos(local')) = {local'[i].qso : i \in DOMAIN local'}
        /\ Range(Qsos(local)) = {local[i].qso : i \in DOMAIN local}
        /\ Range(Qsos(new)) = {new[b].qso : b \in DOMAIN new}
    BY <1>1, QsosOf
  <2>2. ASSUME NEW i \in DOMAIN local'
        PROVE  local'[i].qso \in Range(Qsos(local)) \union Range(Qsos(new))
    BY <1>1, <1>2, <1>3, <1>4, <2>1
  <2>3. \A i \in DOMAIN local : local[i].qso \in Range(Qsos(local'))
    BY <1>2, <2>1
  <2>4. \A b \in DOMAIN new : new[b].qso \in Range(Qsos(local'))
    <3> SUFFICES ASSUME NEW b \in 1 .. Len(new) PROVE new[b].qso \in Range(Qsos(local'))
      BY <1>1
    <3>1. local'[Len(local) + b].qso = new[b].qso /\ Len(local) + b \in DOMAIN local'
      BY <1>3
    <3>2. QED BY <2>1, <3>1
  <2>5. ASSUME NEW q \in Range(Qsos(local'))
        PROVE  q \in Range(Qsos(local)) \union Range(Qsos(new))
    <3>1. PICK i \in DOMAIN local' : q = local'[i].qso
      BY <2>1, <2>5
    <3>2. QED BY <2>2, <3>1
  <2>6. ASSUME NEW q \in Range(Qsos(local)) PROVE q \in Range(Qsos(local'))
    <3>1. PICK i \in DOMAIN local : q = local[i].qso
      BY <2>1, <2>6
    <3>2. QED BY <2>3, <3>1
  <2>7. ASSUME NEW q \in Range(Qsos(new)) PROVE q \in Range(Qsos(local'))
    <3>1. PICK b \in DOMAIN new : q = new[b].qso
      BY <2>1, <2>7
    <3>2. QED BY <2>4, <3>1
  <2>8. QED BY <2>5, <2>6, <2>7
<1>6. QED BY <1>1, <1>2, <1>3, <1>4, <1>5

(* The records of the log as the merge sees them.                          *)
LEMMA ShownRecords ==
    ASSUME IInv
    PROVE  /\ DOMAIN view = 1 .. Len(view) /\ DOMAIN view \subseteq DOMAIN local
           /\ \A i \in DOMAIN view :
                 /\ view[i] = local[i] /\ view[i].qso \in Qso /\ Shown(i) = view[i].qso
                 /\ Shown(i) \in Range(Qsos(local))
<1>1. /\ DOMAIN view = 1 .. Len(view) /\ DOMAIN local = 1 .. Len(local)
      /\ Len(view) \in Nat /\ Len(local) \in Nat /\ Len(view) <= Len(local)
      /\ \A i \in DOMAIN view : view[i] = local[i]
  BY LenProperties DEF IInv, TypeInv, ViewInv
<1>2. DOMAIN view \subseteq DOMAIN local
  BY <1>1
<1>3. \A i \in DOMAIN local : local[i].qso \in Qso /\ local[i].qso \in Range(Qsos(local))
  BY QsosOf DEF IInv, TypeInv
<1>4. \A i \in DOMAIN local : NormalizeQso(local[i].qso) = local[i].qso
  BY DEF IInv, LocalInv
<1>5. QED BY <1>1, <1>2, <1>3, <1>4 DEF Shown

-----------------------------------------------------------------------------
LEMMA InitInvariant == Init => IInv
<1> SUFFICES ASSUME Init PROVE IInv
  OBVIOUS
<1>1. \A S : <<>> \in Seq(S) /\ Len(<<>>) = 0 /\ DOMAIN <<>> = {}
  BY EmptySeq
<1>2. TypeInv
  BY <1>1 DEF Init, TypeInv, Steps
<1>3. LocalInv /\ AcceptInv /\ ViewInv
  BY <1>1 DEF Init, LocalInv, AcceptInv, ViewInv, Ids
<1>4. QED
  BY <1>2, <1>3 DEF Init, IInv, ImportInv, QuietInv, ExportInv, AppendInv

(* A step that only begins or ends a sync keeps what is said of the logs.  *)
LEMMA ScanStep == ASSUME IInv, ScanLocal PROVE IInv'
<1>1. /\ pc' = "read" /\ view' = local /\ late' = {} /\ quiet' \in {"yes", "running"}
      /\ UNCHANGED <<local, indexed, file, datagrams, accepting, pending, raced>>
  BY DEF ScanLocal, worldVars
<1>2. TypeInv'
  BY <1>1 DEF IInv, TypeInv, Steps
<1>3. LocalInv' /\ AcceptInv'
  BY <1>1 DEF IInv, LocalInv, NoDuplicateOf, AcceptInv, NewToTheSeen
<1>4. ViewInv'
  <2>1. Len(local) \in Nat
    BY LenProperties DEF IInv, TypeInv
  <2>2. Ids(local) \subseteq indexed
    BY DEF ScanLocal, IInv, ViewInv
  <2>3. QED BY <1>1, <2>1, <2>2 DEF ViewInv, Ids
<1>5. QED
  BY <1>1, <1>2, <1>3, <1>4 DEF IInv, ImportInv, QuietInv, ExportInv, AppendInv

LEMMA ReadStep == ASSUME IInv, ReadWsjtx PROVE IInv'
<1> DEFINE known == Range(Normalized(Qsos(view)))
           incoming == Normalized(file)
           wanted == {q \in Range(incoming) : BelongsToActiveStation(q) /\ ValidQso(q)}
<1>1. /\ pc = "read" /\ pc' = (IF pending' = <<>> THEN "rescan" ELSE "add_many")
      /\ pending' = NotYetKnown(known, incoming, wanted)
      /\ UNCHANGED <<local, indexed, file, datagrams, accepting, view, late, raced, quiet>>
  BY DEF ReadWsjtx, PendingImport, worldVars
<1>2. /\ incoming \in Seq(Qso) /\ Len(incoming) = Len(file)
      /\ DOMAIN file = 1 .. Len(file)
      /\ \A i \in DOMAIN file : file[i] \in Qso /\ incoming[i] = NormalizeQso(file[i])
      /\ Range(incoming) = {NormalizeQso(file[i]) : i \in DOMAIN file}
  BY NormalizedOf DEF IInv, TypeInv
<1>3. known = {Shown(i) : i \in DOMAIN view}
  <2>1. Qsos(view) \in Seq(Qso) /\ DOMAIN Qsos(view) = DOMAIN view
        /\ \A i \in DOMAIN view : Qsos(view)[i] = view[i].qso
    BY QsosOf DEF IInv, TypeInv
  <2>2. known = {NormalizeQso(Qsos(view)[i]) : i \in DOMAIN Qsos(view)}
    BY <2>1, NormalizedOf
  <2>3. QED BY <2>1, <2>2 DEF Shown
<1>4. TakenFrom(known, incoming, wanted, Len(incoming), pending')
  BY <1>1, <1>2, LoopResult
<1> HIDE DEF known, incoming
<1>5. TypeInv'
  BY <1>1, <1>4 DEF IInv, TypeInv, Steps, TakenFrom
<1>6. LocalInv' /\ AcceptInv' /\ ViewInv'
  BY <1>1 DEF IInv, LocalInv, NoDuplicateOf, AcceptInv, NewToTheSeen, ViewInv, Ids
<1>7. ImportInv'
  <2>1. \A b \in DOMAIN pending' : \E i \in DOMAIN file : pending'[b] = NormalizeQso(file[i])
    BY <1>2, <1>4 DEF TakenFrom, Range
  <2>2. \A b \in DOMAIN pending' : NormalizeQso(pending'[b]) = pending'[b]
    BY <1>2, <2>1, NormalizedQso
  <2>3. \A b \in DOMAIN pending', i \in DOMAIN view : ~SameContact(pending'[b], view[i].qso)
    BY <1>3, <1>4, ShownRecords DEF TakenFrom, Known
  <2>4. QED BY <1>1, <1>4, <2>2, <2>3 DEF ImportInv, TakenFrom
<1>8. QuietInv'
  <2> SUFFICES ASSUME quiet # "no", NEW i \in DOMAIN file, Wanted(file[i])
               PROVE  /\ pc' = "add_many" =>
                            Known(Range(Qsos(local)) \union Range(pending'), NormalizeQso(file[i]))
                      /\ pc' = "rescan" =>
                            Known(Range(Qsos(local)), NormalizeQso(file[i]))
    BY <1>1 DEF QuietInv
  <2>1. incoming[i] = NormalizeQso(file[i]) /\ incoming[i] \in wanted
    <3>1. NormalizeQso(file[i]) \in Range(incoming) /\ file[i] \in Qso
      BY <1>2
    <3>2. BelongsToActiveStation(NormalizeQso(file[i])) /\ ValidQso(NormalizeQso(file[i]))
      BY <3>1, NormalizedQso DEF Wanted
    <3>3. QED BY <1>2, <3>1, <3>2
  <2>2. Known(known \union Range(pending'), NormalizeQso(file[i]))
    BY <1>2, <1>4, <2>1 DEF TakenFrom
  <2>3. known \subseteq Range(Qsos(local))
    BY <1>3, ShownRecords
  <2>4. Known(Range(Qsos(local)) \union Range(pending'), NormalizeQso(file[i]))
    BY <2>2, <2>3, KnownMore
  <2>5. CASE pending' = <<>>
    <3>1. Range(pending') = {}
      BY <2>5, EmptySeq DEF Range
    <3>2. QED BY <1>1, <2>4, <2>5, <3>1
  <2>6. CASE pending' # <<>>
    BY <1>1, <2>4, <2>6
  <2>7. QED BY <2>5, <2>6
<1>9. ExportInv' /\ AppendInv'
  BY <1>1 DEF ExportInv, AppendInv
<1>10. QED BY <1>5, <1>6, <1>7, <1>8, <1>9 DEF IInv

LEMMA AddStep == ASSUME IInv, AddMany PROVE IInv'
<1> DEFINE new == [i \in DOMAIN pending |->
                     [id |-> Len(local) + i, qso |-> pending[i],
                      by |-> "sync", besides |-> late]]
<1>1. /\ pc = "add_many" /\ pc' = "ensure_local" /\ local' = local \o new
      /\ UNCHANGED <<indexed, file, datagrams, accepting, view, pending, late, raced, quiet>>
  BY DEF AddMany, worldVars
<1>2. /\ pending \in Seq(Qso) /\ DOMAIN pending = 1 .. Len(pending) /\ Len(pending) \in Nat
      /\ \A b \in DOMAIN pending : pending[b] \in Qso
      /\ Len(local) \in Nat /\ late \subseteq Nat
  BY LenProperties, ElementOfSeq DEF IInv, TypeInv
<1>3. /\ new \in Seq(Entry) /\ Len(new) = Len(pending)
      /\ \A b \in 1 .. Len(pending) :
            /\ new[b].id = Len(local) + b /\ new[b].qso = pending[b]
            /\ new[b].by = "sync" /\ new[b].besides = late
  <2>1. \A b \in DOMAIN pending :
          [id |-> Len(local) + b, qso |-> pending[b], by |-> "sync", besides |-> late] \in Entry
    BY <1>2 DEF Entry
  <2>2. QED BY <1>2, <2>1
<1> HIDE DEF new
<1>4. /\ local' \in Seq(Entry) /\ Len(local') = Len(local) + Len(new)
      /\ DOMAIN local = 1 .. Len(local) /\ DOMAIN local' = 1 .. Len(local')
      /\ \A i \in DOMAIN local : i \in DOMAIN local' /\ local'[i] = local[i]
      /\ \A b \in 1 .. Len(pending) : local'[Len(local) + b] = new[b]
      /\ \A i \in DOMAIN local' :
            i \in DOMAIN local \/ \E b \in 1 .. Len(pending) : i = Len(local) + b
      /\ Range(Qsos(local')) = Range(Qsos(local)) \union Range(Qsos(new))
  <2>1. TypeInv /\ new \in Seq(Entry) /\ local' = local \o new /\ Len(new) = Len(pending)
    BY <1>1, <1>3 DEF IInv
  <2>2. /\ local' \in Seq(Entry) /\ Len(local') = Len(local) + Len(new)
        /\ DOMAIN local = 1 .. Len(local) /\ DOMAIN local' = 1 .. Len(local')
        /\ \A i \in DOMAIN local : i \in DOMAIN local' /\ local'[i] = local[i]
        /\ \A b \in 1 .. Len(new) : local'[Len(local) + b] = new[b]
        /\ \A i \in DOMAIN local' :
              i \in DOMAIN local \/ \E b \in 1 .. Len(new) : i = Len(local) + b
        /\ Range(Qsos(local')) = Range(Qsos(local)) \union Range(Qsos(new))
    BY <2>1, LogGrows
  <2>3. QED BY <2>1, <2>2
<1>5. TypeInv'
  BY <1>1, <1>4 DEF IInv, TypeInv, Steps
<1>6. LocalInv'
  <2>1. ASSUME NEW i \in DOMAIN local'
        PROVE  local'[i].id = i /\ NormalizeQso(local'[i].qso) = local'[i].qso
    <3>1. CASE i \in DOMAIN local
      BY <1>4, <3>1 DEF IInv, LocalInv
    <3>2. CASE i \notin DOMAIN local
      <4>1. PICK b \in 1 .. Len(pending) : i = Len(local) + b
        BY <1>4, <3>2
      <4>2. local'[i] = new[b] /\ NormalizeQso(pending[b]) = pending[b]
        BY <1>1, <1>2, <1>4, <4>1 DEF IInv, ImportInv
      <4>3. QED BY <1>3, <4>1, <4>2
    <3>3. QED BY <3>1, <3>2
  <2>2. ASSUME NEW i \in DOMAIN local', NEW j \in DOMAIN local', i < j
        PROVE  NoDuplicateOf(local'[i], local'[j])
    <3>1. CASE j \in DOMAIN local
      <4>1. i \in DOMAIN local
        BY <1>2, <1>4, <2>2, <3>1
      <4>2. QED BY <1>4, <2>2, <3>1, <4>1 DEF IInv, LocalInv
    <3>2. CASE j \notin DOMAIN local
      <4>1. PICK b \in 1 .. Len(pending) : j = Len(local) + b
        BY <1>4, <3>2
      <4>2. local'[j] = new[b] /\ new[b].qso = pending[b] /\ new[b].besides = late
        BY <1>3, <1>4, <4>1
      <4>3. CASE i \notin DOMAIN local
        <5>1. PICK a \in 1 .. Len(pending) : i = Len(local) + a
          BY <1>4, <4>3
        <5>2. a < b /\ local'[i] = new[a] /\ new[a].qso = pending[a]
          BY <1>2, <1>3, <1>4, <2>2, <4>1, <5>1
        <5>3. ~SameContact(pending[b], pending[a])
          BY <1>1, <1>2, <5>2 DEF IInv, ImportInv
        <5>4. ~SameContact(pending[a], pending[b])
          BY <1>2, <5>3, SameBothWays
        <5>5. QED BY <4>2, <5>2, <5>4 DEF NoDuplicateOf
      <4>4. CASE i \in DOMAIN local
        <5>1. local'[i] = local[i] /\ local[i].id = i
          BY <1>4, <4>4 DEF IInv, LocalInv
        <5>2. i \in DOMAIN view \/ i \in late
          BY <1>1, <4>4 DEF IInv, ViewInv
        <5>3. CASE i \in late
          BY <4>2, <5>1, <5>3 DEF NoDuplicateOf
        <5>4. CASE i \in DOMAIN view
          <6>1. ~SameContact(pending[b], view[i].qso)
            BY <1>1, <1>2, <5>4 DEF IInv, ImportInv
          <6>2. view[i].qso = local[i].qso /\ view[i].qso \in Qso
            BY <5>4, ShownRecords
          <6>3. ~SameContact(local[i].qso, pending[b])
            BY <1>2, <6>1, <6>2, SameBothWays
          <6>4. QED BY <4>2, <5>1, <6>3 DEF NoDuplicateOf
        <5>5. QED BY <5>2, <5>3, <5>4
      <4>5. QED BY <4>3, <4>4
    <3>3. QED BY <3>1, <3>2
  <2>3. QED BY <2>1, <2>2 DEF LocalInv
<1>7. ViewInv'
  <2>1. \A i \in DOMAIN view : view[i] = local'[i]
    BY <1>4, ShownRecords
  <2>2. Len(view) \in Nat /\ Len(view) <= Len(local) /\ Len(local) <= Len(local')
    BY <1>2, <1>3, <1>4, LenProperties DEF IInv, TypeInv, ViewInv
  <2>3. Len(view) <= Len(local')
    BY <1>2, <1>3, <1>4, <2>2
  <2>4. QED BY <1>1, <2>1, <2>3 DEF ViewInv
<1>8. QuietInv'
  <2>1. Range(Qsos(new)) = Range(pending)
    <3>1. Range(Qsos(new)) = {new[b].qso : b \in DOMAIN new} /\ DOMAIN new = 1 .. Len(new)
      BY <1>3, QsosOf
    <3>2. QED BY <1>2, <1>3, <3>1 DEF Range
  <2>2. QED BY <1>1, <1>4, <2>1 DEF IInv, QuietInv
<1>9. ImportInv' /\ ExportInv' /\ AppendInv'
  BY <1>1 DEF ImportInv, ExportInv, AppendInv
<1>10. AcceptInv'
  BY <1>1, <1>4 DEF IInv, AcceptInv, NewToTheSeen
<1>11. QED BY <1>5, <1>6, <1>7, <1>8, <1>9, <1>10 DEF IInv

LEMMA RescanSteps == ASSUME IInv, EnsureLocal \/ RescanLocal PROVE IInv'
<1>1. /\ UNCHANGED <<local, file, datagrams, accepting, pending, late, raced, quiet>>
      /\ \/ /\ pc = "ensure_local" /\ pc' = "rescan" /\ view' = view
            /\ indexed' = indexed \union Ids(local)
         \/ /\ pc = "rescan" /\ pc' = "reread" /\ view' = local /\ indexed' = indexed
  BY DEF EnsureLocal, RescanLocal, worldVars
<1>2. TypeInv'
  BY <1>1 DEF IInv, TypeInv, Steps
<1>3. LocalInv' /\ AcceptInv'
  BY <1>1 DEF IInv, LocalInv, NoDuplicateOf, AcceptInv, NewToTheSeen
<1>4. ViewInv'
  <2>1. Len(local) \in Nat
    BY LenProperties DEF IInv, TypeInv
  <2>2. QED BY <1>1, <2>1 DEF IInv, ViewInv, Ids
<1>5. QuietInv'
  BY <1>1 DEF IInv, QuietInv
<1>6. QED
  BY <1>1, <1>2, <1>3, <1>4, <1>5 DEF IInv, ImportInv, ExportInv, AppendInv

LEMMA RereadStep == ASSUME IInv, RereadWsjtx PROVE IInv'
<1> DEFINE merged == Normalized(Qsos(view))
           now == {NormalizeQso(q) : q \in {r \in Range(file) : BelongsToActiveStation(r)}}
           wanted == {q \in Range(merged) : ValidQso(q)}
<1>1. /\ pc = "reread" /\ pc' = (IF pending' = <<>> THEN "done" ELSE "append_records")
      /\ pending' = NotYetKnown(now, merged, wanted)
      /\ UNCHANGED <<local, indexed, file, datagrams, accepting, view, late, raced, quiet>>
  BY DEF RereadWsjtx, MissingForWsjtx, worldVars
<1>2. /\ merged \in Seq(Qso) /\ Len(merged) = Len(view) /\ DOMAIN view = 1 .. Len(view)
      /\ \A i \in DOMAIN view : merged[i] = Shown(i) /\ Shown(i) \in Qso
      /\ Range(merged) = {Shown(i) : i \in DOMAIN view}
  <2>1. Qsos(view) \in Seq(Qso) /\ DOMAIN Qsos(view) = DOMAIN view
        /\ Len(Qsos(view)) = Len(view) /\ DOMAIN view = 1 .. Len(view)
        /\ \A i \in DOMAIN view : Qsos(view)[i] = view[i].qso
    BY QsosOf DEF IInv, TypeInv
  <2>2. /\ merged \in Seq(Qso) /\ Len(merged) = Len(view)
        /\ \A i \in DOMAIN view : merged[i] = NormalizeQso(Qsos(view)[i])
        /\ Range(merged) = {NormalizeQso(Qsos(view)[i]) : i \in DOMAIN view}
    BY <2>1, NormalizedOf
  <2>3. \A i \in DOMAIN view : Shown(i) \in Qso
    BY ShownRecords
  <2>4. QED BY <2>1, <2>2, <2>3 DEF Shown
<1>3. TakenFrom(now, merged, wanted, Len(merged), pending')
  BY <1>1, <1>2, LoopResult
<1>4. \A q \in Range(file) : q \in Qso
  BY LenProperties, ElementOfSeq DEF IInv, TypeInv, Range
<1> HIDE DEF merged
<1>5. TypeInv'
  BY <1>1, <1>3 DEF IInv, TypeInv, Steps, TakenFrom
<1>6. LocalInv' /\ AcceptInv' /\ ViewInv' /\ QuietInv'
  BY <1>1 DEF IInv, LocalInv, NoDuplicateOf, AcceptInv, NewToTheSeen, ViewInv, Ids, QuietInv
<1>7. \A b \in DOMAIN pending' : \E j \in DOMAIN view : pending'[b] = Shown(j)
  BY <1>2, <1>3 DEF TakenFrom, Range
<1>8. ASSUME NEW i \in DOMAIN view, ValidQso(Shown(i))
      PROVE  \/ Known(Range(file), Shown(i))
             \/ \E b \in DOMAIN pending' : SameContact(Shown(i), pending'[b])
  <2>1. merged[i] \in wanted
    BY <1>2, <1>8
  <2>2. Known(now \union Range(pending'), Shown(i))
    BY <1>2, <1>3, <2>1 DEF TakenFrom
  <2>3. CASE \E q \in Range(file) : SameContact(Shown(i), NormalizeQso(q))
    BY <1>2, <1>4, <2>3, NormalizedMatches DEF Known
  <2>4. CASE \E q \in Range(pending') : SameContact(Shown(i), q)
    BY <2>4 DEF Range
  <2>5. QED BY <2>2, <2>3, <2>4 DEF Known
<1>9. ExportInv'
  <2>1. CASE pending' = <<>>
    <3>1. DOMAIN pending' = {}
      BY <2>1, EmptySeq
    <3>2. \A i \in DOMAIN view : ValidQso(Shown(i)) => Known(Range(file), Shown(i))
      BY <1>8, <3>1
    <3>3. \A i \in DOMAIN view : TakenFor(i, i)
      BY DEF TakenFor
    <3>4. QED BY <1>1, <2>1, <3>2, <3>3 DEF ExportInv, TakenFor, Shown
  <2>2. CASE pending' # <<>>
    <3>1. pc' = "append_records"
      BY <1>1, <2>2
    <3>2. \A a, b \in DOMAIN pending' : a < b => ~SameContact(pending'[b], pending'[a])
      BY <1>3 DEF TakenFrom
    <3>3. QED BY <1>1, <1>7, <1>8, <3>1, <3>2 DEF ExportInv, Shown
  <2>3. QED BY <2>1, <2>2
<1>10. ImportInv' /\ AppendInv'
  BY <1>1 DEF ImportInv, AppendInv
<1>11. QED BY <1>5, <1>6, <1>9, <1>10 DEF IInv

LEMMA ReadAgainStep == ASSUME IInv, ReadBeforeAppend PROVE IInv'
<1>1. /\ pc = "append_records" /\ pc' = (IF pending' = <<>> THEN "done" ELSE "backup")
      /\ pending' = NotYetKnown(Range(file), pending, Range(pending)) /\ raced' = 0
      /\ UNCHANGED <<local, indexed, file, datagrams, accepting, view, late, quiet>>
  BY DEF ReadBeforeAppend, StillMissing, worldVars
<1>2. /\ pending \in Seq(Qso) /\ DOMAIN pending = 1 .. Len(pending) /\ Len(pending) \in Nat
      /\ \A b \in DOMAIN pending : pending[b] \in Qso
      /\ file \in Seq(Qso) /\ Len(file) \in Nat
  BY LenProperties, ElementOfSeq DEF IInv, TypeInv
<1>3. TakenFrom(Range(file), pending, Range(pending), Len(pending), pending')
  BY <1>1, <1>2, LoopResult
<1>4. TypeInv'
  BY <1>1, <1>3 DEF IInv, TypeInv, Steps, TakenFrom
<1>5. LocalInv' /\ AcceptInv' /\ ViewInv' /\ QuietInv'
  BY <1>1 DEF IInv, LocalInv, NoDuplicateOf, AcceptInv, NewToTheSeen, ViewInv, Ids, QuietInv
<1>6. \A b \in DOMAIN pending' : \E c \in DOMAIN pending : pending'[b] = pending[c]
  BY <1>3 DEF TakenFrom, Range
<1>7. \A b \in DOMAIN pending' : \E j \in DOMAIN view : pending'[b] = Shown(j)
  BY <1>1, <1>6 DEF IInv, ExportInv
<1>8. ASSUME NEW b \in DOMAIN pending
      PROVE  Known(Range(file), pending[b]) \/ pending[b] \in Range(pending')
  <2>1. Known(Range(file) \union Range(pending'), pending[b])
    BY <1>2, <1>3 DEF TakenFrom, Range
  <2>2. CASE \E q \in Range(pending') : SameContact(pending[b], q)
    <3>1. PICK d \in DOMAIN pending' : SameContact(pending[b], pending'[d])
      BY <2>2 DEF Range
    <3>2. PICK c \in DOMAIN pending : pending'[d] = pending[c]
      BY <1>6
    <3>3. ~(b < c) /\ ~(c < b)
      <4>1. SameContact(pending[b], pending[c]) /\ SameContact(pending[c], pending[b])
        BY <1>2, <3>1, <3>2, SameBothWays
      <4>2. QED BY <1>1, <4>1 DEF IInv, ExportInv
    <3>4. b = c
      BY <1>2, <3>3
    <3>5. QED BY <3>2, <3>4 DEF Range
  <2>3. QED BY <2>1, <2>2 DEF Known
<1>9. ASSUME NEW i \in DOMAIN view, ValidQso(Shown(i))
      PROVE  \E j \in DOMAIN view :
                /\ TakenFor(i, j)
                /\ Known(Range(file), Shown(j)) \/ Shown(j) \in Range(pending')
  <2>1. CASE Known(Range(file), Shown(i))
    BY <2>1 DEF TakenFor
  <2>2. CASE \E b \in DOMAIN pending : SameContact(Shown(i), pending[b])
    <3>1. PICK b \in DOMAIN pending : SameContact(Shown(i), pending[b])
      BY <2>2
    <3>2. PICK j \in DOMAIN view : pending[b] = Shown(j)
      BY <1>1 DEF IInv, ExportInv
    <3>3. QED BY <1>8, <3>1, <3>2 DEF TakenFor
  <2>3. QED BY <1>1, <1>9, <2>1, <2>2 DEF IInv, ExportInv
<1>10. ExportInv'
  <2>1. CASE pending' = <<>>
    <3>1. Range(pending') = {}
      BY <2>1, EmptySeq DEF Range
    <3>2. QED BY <1>1, <1>9, <2>1, <3>1 DEF ExportInv, TakenFor, Shown
  <2>2. CASE pending' # <<>>
    BY <1>1, <1>7, <1>9, <2>2 DEF ExportInv, TakenFor, Shown
  <2>3. QED BY <2>1, <2>2
<1>11. AppendInv'
  <2>1. SubSeq(file, 1, Len(file)) = file /\ Len(file) - 0 = Len(file) /\ 0 <= Len(file)
    BY <1>2, SubSeqFull
  <2>2. SubSeq(file', 1, Len(file') - raced') = file /\ raced' <= Len(file')
    BY <1>1, <2>1
  <2>3. \A b \in DOMAIN pending' : ~Known(Range(file), pending'[b])
    BY <1>3 DEF TakenFrom
  <2>4. \A b \in DOMAIN pending' :
           ~Known(Range(SubSeq(file', 1, Len(file') - raced')), pending'[b])
    BY <2>2, <2>3
  <2>5. QED BY <2>2, <2>4 DEF AppendInv
<1>12. ImportInv'
  BY <1>1 DEF ImportInv
<1>13. QED BY <1>4, <1>5, <1>10, <1>11, <1>12 DEF IInv

LEMMA BackupStep == ASSUME IInv, BackupWsjtxLog PROVE IInv'
<1>1. /\ pc = "backup" /\ pc' = "append"
      /\ UNCHANGED <<local, indexed, file, datagrams, accepting, view, pending, late, raced, quiet>>
  BY DEF BackupWsjtxLog, worldVars
<1>2. TypeInv'
  BY <1>1 DEF IInv, TypeInv, Steps
<1>3. LocalInv' /\ AcceptInv' /\ ViewInv' /\ ImportInv' /\ QuietInv'
  BY <1>1
     DEF IInv, LocalInv, NoDuplicateOf, AcceptInv, NewToTheSeen, ViewInv, Ids, ImportInv,
         QuietInv
<1>4. ExportInv'
  BY <1>1 DEF IInv, ExportInv, TakenFor, Shown
<1>5. AppendInv'
  BY <1>1 DEF IInv, AppendInv
<1>6. QED BY <1>2, <1>3, <1>4, <1>5 DEF IInv

(* The file got longer while nothing else changed: what was known of it is *)
(* known still.                                                            *)
LEMMA LongerFile ==
    ASSUME IInv, NEW added \in Seq(Qso), file' = file \o added
    PROVE  /\ file \in Seq(Qso) /\ file' \in Seq(Qso)
           /\ Len(file) \in Nat /\ Len(added) \in Nat
           /\ Len(file') = Len(file) + Len(added)
           /\ Range(file') = Range(file) \union Range(added)
           /\ \A q : Known(Range(file), q) => Known(Range(file'), q)
<1>1. file \in Seq(Qso) /\ Len(file) \in Nat /\ Len(added) \in Nat
  BY LenProperties DEF IInv, TypeInv
<1>2. /\ file' \in Seq(Qso) /\ Len(file') = Len(file) + Len(added)
      /\ Range(file') = Range(file) \union Range(added)
  BY <1>1, RangeOfBoth
<1>3. \A q : Known(Range(file), q) => Known(Range(file'), q)
  BY <1>2, KnownMore
<1>4. QED BY <1>1, <1>2, <1>3

LEMMA AppendStep == ASSUME IInv, AppendRecords PROVE IInv'
<1>1. /\ pc = "append" /\ pc' = "verify" /\ file' \in FilesAfterAppend(pending)
      /\ UNCHANGED <<local, indexed, datagrams, accepting, view, pending, late, raced, quiet>>
  BY DEF AppendRecords, worldVars
<1>2. PICK added \in Seq(Qso) : file' = file \o added /\ Range(added) \subseteq Range(pending)
  BY <1>1, FileGrows DEF IInv, TypeInv
<1>3. /\ file' \in Seq(Qso) /\ Range(file') = Range(file) \union Range(added)
      /\ \A q : Known(Range(file), q) => Known(Range(file'), q)
  BY <1>2, LongerFile
<1>4. TypeInv'
  BY <1>1, <1>3 DEF IInv, TypeInv, Steps
<1>5. LocalInv' /\ AcceptInv' /\ ViewInv' /\ ImportInv' /\ AppendInv'
  BY <1>1
     DEF IInv, LocalInv, NoDuplicateOf, AcceptInv, NewToTheSeen, ViewInv, Ids, ImportInv,
         AppendInv
<1>6. QuietInv'
  <2> SUFFICES ASSUME quiet # "no", NEW i \in DOMAIN file', Wanted(file'[i])
               PROVE  Known(Range(Qsos(local)), NormalizeQso(file'[i]))
    BY <1>1 DEF QuietInv
  <2>1. file'[i] \in Range(file) \union Range(pending)
    BY <1>2, <1>3 DEF Range
  <2>2. CASE file'[i] \in Range(file)
    <3>1. PICK k \in DOMAIN file : file'[i] = file[k]
      BY <2>2 DEF Range
    <3>2. QED BY <1>1, <3>1 DEF IInv, QuietInv
  <2>3. CASE file'[i] \in Range(pending)
    <3>1. PICK b \in DOMAIN pending : file'[i] = pending[b]
      BY <2>3 DEF Range
    <3>2. PICK j \in DOMAIN view : pending[b] = Shown(j)
      BY <1>1 DEF IInv, ExportInv
    <3>3. /\ Shown(j) = view[j].qso /\ view[j].qso \in Qso
          /\ Shown(j) \in Range(Qsos(local))
      BY ShownRecords
    <3>4. NormalizeQso(file'[i]) = Shown(j)
      BY <3>1, <3>2, <3>3, NormalizedQso DEF Shown
    <3>5. QED BY <3>3, <3>4, SameAsItself DEF Known
  <2>4. QED BY <2>1, <2>2, <2>3
<1>7. ExportInv'
  <2>1. \A b \in DOMAIN pending : \E j \in DOMAIN view : pending[b] = Shown(j)
    BY <1>1 DEF IInv, ExportInv
  <2>2. ASSUME NEW i \in DOMAIN view, ValidQso(Shown(i))
        PROVE  \E j \in DOMAIN view :
                  /\ TakenFor(i, j)
                  /\ Known(Range(file'), Shown(j)) \/ Shown(j) \in Range(pending)
    <3>1. PICK j \in DOMAIN view :
             /\ TakenFor(i, j)
             /\ Known(Range(file), Shown(j)) \/ Shown(j) \in Range(pending)
      BY <1>1, <2>2 DEF IInv, ExportInv
    <3>2. QED BY <1>3, <3>1
  <2>3. QED BY <1>1, <2>1, <2>2 DEF ExportInv, TakenFor, Shown
<1>8. QED BY <1>4, <1>5, <1>6, <1>7 DEF IInv

(* The read-back finds every QSO that was to be appended, or the sync ends *)
(* with an error.                                                          *)
LEMMA VerifyStep == ASSUME IInv, VerifyAppend PROVE IInv'
<1>1. /\ pc = "verify" /\ pc' \in {"done", "failed"}
      /\ pc' = "done" => \A b \in DOMAIN pending : Known(Range(file), pending[b])
      /\ UNCHANGED <<local, indexed, file, datagrams, accepting, view, pending, late, raced, quiet>>
  BY DEF VerifyAppend, worldVars
<1>2. TypeInv'
  BY <1>1 DEF IInv, TypeInv, Steps
<1>3. LocalInv' /\ AcceptInv' /\ ViewInv' /\ ImportInv' /\ QuietInv' /\ AppendInv'
  BY <1>1
     DEF IInv, LocalInv, NoDuplicateOf, AcceptInv, NewToTheSeen, ViewInv, Ids, ImportInv,
         QuietInv, AppendInv
<1>4. ExportInv'
  <2>1. ASSUME pc' = "done", NEW i \in DOMAIN view, ValidQso(Shown(i))
        PROVE  \E j \in DOMAIN view : TakenFor(i, j) /\ Known(Range(file), Shown(j))
    <3>1. PICK j \in DOMAIN view :
             /\ TakenFor(i, j)
             /\ Known(Range(file), Shown(j)) \/ Shown(j) \in Range(pending)
      BY <1>1, <2>1 DEF IInv, ExportInv
    <3>2. Shown(j) \in Range(pending) => Known(Range(file), Shown(j))
      BY <1>1, <2>1 DEF Range
    <3>3. QED BY <3>1, <3>2
  <2>2. QED BY <1>1, <2>1 DEF ExportInv, TakenFor, Shown
<1>5. QED BY <1>2, <1>3, <1>4 DEF IInv

LEMMA FinishStep == ASSUME IInv, Finish PROVE IInv'
<1>1. /\ pc \in {"done", "failed"} /\ pc' = "idle" /\ quiet' \in {"yes", "no"}
      /\ view' = <<>> /\ pending' = <<>> /\ late' = {} /\ raced' = 0
      /\ UNCHANGED <<local, indexed, file, datagrams, accepting>>
  BY DEF Finish, worldVars
<1>2. \A S : <<>> \in Seq(S) /\ Len(<<>>) = 0 /\ DOMAIN <<>> = {}
  BY EmptySeq
<1>3. TypeInv'
  BY <1>1, <1>2 DEF IInv, TypeInv, Steps
<1>4. ViewInv'
  <2>1. Len(local) \in Nat
    BY LenProperties DEF IInv, TypeInv
  <2>2. QED BY <1>1, <1>2, <2>1 DEF IInv, ViewInv, Ids
<1>5. LocalInv' /\ AcceptInv' /\ ImportInv' /\ QuietInv' /\ ExportInv' /\ AppendInv'
  BY <1>1
     DEF IInv, LocalInv, NoDuplicateOf, AcceptInv, NewToTheSeen, ImportInv, QuietInv, ExportInv,
         AppendInv
<1>6. QED BY <1>3, <1>4, <1>5 DEF IInv

-----------------------------------------------------------------------------
(* The others. *)

(* The log gets a QSO from the form, or one by UDP that is new to it but   *)
(* for what was added besides.                                             *)
LEMMA LogStep ==
    ASSUME IInv, NEW qso \in Qso, NormalizeQso(qso) = qso, NEW who \in {"user", "udp"},
           NEW besides \in SUBSET Nat, LogLocally(qso, who, besides),
           who = "user" \/ \A i \in DOMAIN local : ~SameContact(local[i].qso, qso) \/ i \in besides,
           UNCHANGED <<file, datagrams, pc, view, pending, raced>>, accepting' = {}
    PROVE  IInv'
<1> DEFINE entry == [id |-> NewId(local), qso |-> qso, by |-> who, besides |-> besides]
           new == <<entry>>
<1>1. /\ local' = Append(local, entry) /\ quiet' = "no"
      /\ indexed' = indexed \union {NewId(local)} /\ late' = late \union {NewId(local)}
  BY DEF LogLocally
<1>2. local \in Seq(Entry) /\ Len(local) \in Nat /\ NewId(local) = Len(local) + 1 /\ late \subseteq Nat
  BY LenProperties DEF IInv, TypeInv, NewId
<1>3. /\ entry \in Entry /\ entry.id = Len(local) + 1 /\ entry.qso = qso
      /\ entry.by = who /\ entry.besides = besides
  BY <1>2 DEF Entry
<1> HIDE DEF entry
<1>4. new \in Seq(Entry) /\ Len(new) = 1 /\ new[1] = entry
  BY <1>3
<1>5. local' = local \o new
  BY <1>1, <1>2, <1>3, AppendIsConcat
<1> HIDE DEF new
<1>6. TypeInv /\ local' = local \o new /\ new \in Seq(Entry)
  BY <1>4, <1>5 DEF IInv
<1>7. /\ local' \in Seq(Entry) /\ Len(local') = Len(local) + Len(new)
      /\ DOMAIN local = 1 .. Len(local) /\ DOMAIN local' = 1 .. Len(local')
      /\ \A i \in DOMAIN local : i \in DOMAIN local' /\ local'[i] = local[i]
      /\ \A b \in 1 .. Len(new) : local'[Len(local) + b] = new[b]
  BY <1>6, LogGrows
<1>8. /\ Len(local') = Len(local) + 1 /\ local'[Len(local) + 1] = entry
      /\ \A i \in DOMAIN local' : i \in DOMAIN local \/ i = Len(local) + 1
  <2>1. Len(local') = Len(local) + 1 /\ 1 \in 1 .. Len(new)
    BY <1>4, <1>7
  <2>2. local'[Len(local) + 1] = entry
    BY <1>4, <1>7, <2>1
  <2>3. \A i \in DOMAIN local' : i \in DOMAIN local \/ i = Len(local) + 1
    BY <1>2, <1>7, <2>1
  <2>4. QED BY <2>1, <2>2, <2>3
<1>9. TypeInv'
  <2>1. late' \subseteq Nat
    <3>1. NewId(local) \in Nat
      BY <1>2
    <3>2. QED BY <1>1, <1>2, <3>1
  <2>2. QED BY <1>1, <1>7, <2>1 DEF IInv, TypeInv, Steps
<1>10. LocalInv'
  <2>1. ASSUME NEW i \in DOMAIN local'
        PROVE  local'[i].id = i /\ NormalizeQso(local'[i].qso) = local'[i].qso
    BY <1>3, <1>7, <1>8 DEF IInv, LocalInv
  <2>2. ASSUME NEW i \in DOMAIN local', NEW j \in DOMAIN local', i < j
        PROVE  NoDuplicateOf(local'[i], local'[j])
    <3>1. CASE j \in DOMAIN local
      <4>1. i \in DOMAIN local
        BY <1>2, <1>7, <2>2, <3>1
      <4>2. QED BY <1>7, <2>2, <3>1, <4>1 DEF IInv, LocalInv
    <3>2. CASE j = Len(local) + 1
      <4>1. i \in DOMAIN local /\ local'[i] = local[i] /\ local'[j] = entry
        BY <1>2, <1>7, <1>8, <2>2, <3>2
      <4>2. local[i].id = i
        BY <4>1 DEF IInv, LocalInv
      <4>3. QED BY <1>3, <4>1, <4>2 DEF NoDuplicateOf
    <3>3. QED BY <1>8, <3>1, <3>2
  <2>3. QED BY <2>1, <2>2 DEF LocalInv
<1>11. ViewInv'
  <2>1. \A i \in DOMAIN view : view[i] = local'[i]
    BY <1>7, ShownRecords
  <2>2. Len(view) <= Len(local')
    <3>1. Len(view) \in Nat /\ Len(view) <= Len(local)
      BY LenProperties DEF IInv, TypeInv, ViewInv
    <3>2. QED BY <1>2, <1>8, <3>1
  <2>3. ASSUME pc \in {"read", "add_many"}, NEW i \in DOMAIN local'
        PROVE  i \in DOMAIN view \/ i \in late'
    BY <1>1, <1>2, <1>8, <2>3 DEF IInv, ViewInv
  <2>4. ASSUME pc # "ensure_local", NEW i \in DOMAIN local'
        PROVE  local'[i].id \in indexed'
    <3>1. CASE i \in DOMAIN local
      BY <1>1, <1>7, <2>4, <3>1 DEF IInv, ViewInv, Ids
    <3>2. CASE i = Len(local) + 1
      BY <1>1, <1>2, <1>3, <1>8, <3>2
    <3>3. QED BY <1>8, <3>1, <3>2
  <2>5. QED BY <2>1, <2>2, <2>3, <2>4 DEF ViewInv, Ids
<1>12. AcceptInv' /\ ImportInv' /\ ExportInv' /\ AppendInv'
  BY DEF IInv, AcceptInv, ImportInv, ExportInv, TakenFor, Shown, AppendInv
<1>13. QuietInv'
  BY <1>1 DEF QuietInv
<1>14. QED BY <1>9, <1>10, <1>11, <1>12, <1>13 DEF IInv

LEMMA UserStep ==
    ASSUME IInv, NEW qso \in Contacts, UserLogs(qso)
    PROVE  IInv'
<1>1. NormalizeQso(qso) \in Qso /\ NormalizeQso(NormalizeQso(qso)) = NormalizeQso(qso)
  BY ContactsAssumption, NormalizedQso
<1>2. /\ LogLocally(NormalizeQso(qso), "user", {}) /\ accepting' = {}
      /\ UNCHANGED <<file, datagrams, pc, view, pending, raced>>
  BY DEF UserLogs, syncVars
<1>3. {} \in SUBSET Nat
  OBVIOUS
<1>4. QED BY <1>1, <1>2, <1>3, LogStep

(* The listener has looked for the QSO in the log.                         *)
LEMMA UdpStep ==
    ASSUME IInv, NEW qso \in datagrams, AcceptUdpQso(qso)
    PROVE  IInv'
<1> DEFINE found == [qso |-> NormalizeQso(qso), seen |-> Ids(local)]
<1>1. qso \in Qso
  BY DEF IInv, TypeInv
<1>2. NormalizeQso(qso) \in Qso /\ NormalizeQso(NormalizeQso(qso)) = NormalizeQso(qso)
  BY <1>1, NormalizedQso
<1>3. /\ UNCHANGED <<local, indexed, file, pc, view, pending, late, raced, quiet>>
      /\ datagrams' \subseteq Qso
      /\ accepting' = IF Known(Range(Qsos(local)), NormalizeQso(qso)) THEN {} ELSE {found}
  BY DEF AcceptUdpQso, syncVars, IInv, TypeInv
<1>4. Ids(local) = DOMAIN local /\ DOMAIN local \subseteq Nat
  <2>1. DOMAIN local = 1 .. Len(local) /\ Len(local) \in Nat
    BY LenProperties DEF IInv, TypeInv
  <2>2. \A i \in DOMAIN local : local[i].id = i
    BY DEF IInv, LocalInv
  <2>3. Ids(local) = DOMAIN local
    BY <2>2 DEF Ids
  <2>4. QED BY <2>1, <2>3
<1>5. found \in [qso : Qso, seen : SUBSET Nat]
  BY <1>2, <1>4
<1>6. TypeInv'
  BY <1>3, <1>5 DEF IInv, TypeInv
<1>7. AcceptInv'
  <2> SUFFICES ASSUME ~Known(Range(Qsos(local)), NormalizeQso(qso))
               PROVE  NewToTheSeen(found)'
    BY <1>3 DEF AcceptInv
  <2>1. ASSUME NEW i \in DOMAIN local PROVE ~SameContact(local[i].qso, NormalizeQso(qso))
    <3>1. local[i].qso \in Qso /\ local[i].qso \in Range(Qsos(local))
      BY QsosOf DEF IInv, TypeInv
    <3>2. ~SameContact(NormalizeQso(qso), local[i].qso)
      BY <3>1 DEF Known
    <3>3. QED BY <1>2, <3>1, <3>2, SameBothWays
  <2>2. NewToTheSeen(found)
    BY <1>2, <1>4, <2>1 DEF NewToTheSeen
  <2>3. QED BY <1>3, <2>2 DEF NewToTheSeen
<1>8. LocalInv' /\ ViewInv' /\ ImportInv' /\ QuietInv' /\ AppendInv'
  BY <1>3 DEF IInv, LocalInv, NoDuplicateOf, ViewInv, Ids, ImportInv, QuietInv, AppendInv
<1>9. ExportInv'
  BY <1>3 DEF IInv, ExportInv, TakenFor, Shown
<1>10. QED BY <1>6, <1>7, <1>8, <1>9 DEF IInv

(* It adds the QSO: what is the same contact was added since it looked.    *)
LEMMA AddUdpStep ==
    ASSUME IInv, NEW found \in accepting, AddUdpQso(found)
    PROVE  IInv'
<1> DEFINE besides == Ids(local) \ found.seen
<1>1. found.qso \in Qso /\ NormalizeQso(found.qso) = found.qso /\ NewToTheSeen(found)
  BY DEF IInv, TypeInv, AcceptInv, NewToTheSeen
<1>2. Ids(local) = DOMAIN local /\ DOMAIN local \subseteq Nat
  <2>1. DOMAIN local = 1 .. Len(local) /\ Len(local) \in Nat
    BY LenProperties DEF IInv, TypeInv
  <2>2. \A i \in DOMAIN local : local[i].id = i
    BY DEF IInv, LocalInv
  <2>3. Ids(local) = DOMAIN local
    BY <2>2 DEF Ids
  <2>4. QED BY <2>1, <2>3
<1>3. besides \in SUBSET Nat
  BY <1>2
<1>4. \A i \in DOMAIN local : ~SameContact(local[i].qso, found.qso) \/ i \in besides
  BY <1>1, <1>2 DEF NewToTheSeen
<1>5. /\ LogLocally(found.qso, "udp", besides) /\ accepting' = {}
      /\ UNCHANGED <<file, datagrams, pc, view, pending, raced>>
  BY DEF AddUdpQso, syncVars
<1> HIDE DEF besides
<1>6. QED BY <1>1, <1>3, <1>4, <1>5, LogStep

(* What WSJT-X logs comes behind what the sync has read of its file.       *)
LEMMA WsjtxStep ==
    ASSUME IInv, NEW qso \in Contacts, WsjtxLogs(qso)
    PROVE  IInv'
<1>1. /\ file' \in FilesAfterAppend(<<qso>>) /\ raced' = raced + Len(file') - Len(file)
      /\ datagrams' \in {datagrams, datagrams \union {qso}} /\ quiet' = "no"
      /\ UNCHANGED <<local, indexed, accepting, pc, view, pending, late>>
  BY DEF WsjtxLogs, syncVars
<1>2. qso \in Qso /\ <<qso>> \in Seq(Qso)
  BY ContactsAssumption
<1>3. PICK added \in Seq(Qso) : file' = file \o added
  BY <1>1, <1>2, FileGrows DEF IInv, TypeInv
<1>4. /\ file \in Seq(Qso) /\ file' \in Seq(Qso) /\ Len(file) \in Nat /\ Len(added) \in Nat
      /\ Len(file') = Len(file) + Len(added)
      /\ \A q : Known(Range(file), q) => Known(Range(file'), q)
  BY <1>3, LongerFile
<1>5. raced \in Nat /\ raced' = raced + Len(added) /\ raced' \in Nat
  <2>1. raced \in Nat
    BY DEF IInv, TypeInv
  <2>2. QED BY <1>1, <1>4, <2>1
<1>6. TypeInv'
  <2>1. datagrams' \subseteq Qso
    BY <1>1, <1>2 DEF IInv, TypeInv
  <2>2. QED BY <1>1, <1>4, <1>5, <2>1 DEF IInv, TypeInv, Steps
<1>7. LocalInv' /\ AcceptInv' /\ ViewInv' /\ ImportInv' /\ QuietInv'
  BY <1>1
     DEF IInv, LocalInv, NoDuplicateOf, AcceptInv, NewToTheSeen, ViewInv, Ids, ImportInv,
         QuietInv
<1>8. ExportInv'
  <2>1. ASSUME pc = "append_records", NEW i \in DOMAIN view, ValidQso(Shown(i))
        PROVE  \/ Known(Range(file'), Shown(i))
               \/ \E b \in DOMAIN pending : SameContact(Shown(i), pending[b])
    BY <1>4, <2>1 DEF IInv, ExportInv
  <2>2. ASSUME pc \in {"backup", "append", "verify"}, NEW i \in DOMAIN view, ValidQso(Shown(i))
        PROVE  \E j \in DOMAIN view :
                  /\ TakenFor(i, j)
                  /\ Known(Range(file'), Shown(j)) \/ Shown(j) \in Range(pending)
    <3>1. PICK j \in DOMAIN view :
             /\ TakenFor(i, j)
             /\ Known(Range(file), Shown(j)) \/ Shown(j) \in Range(pending)
      BY <2>2 DEF IInv, ExportInv
    <3>2. QED BY <1>4, <3>1
  <2>3. ASSUME pc = "done", NEW i \in DOMAIN view, ValidQso(Shown(i))
        PROVE  \E j \in DOMAIN view : TakenFor(i, j) /\ Known(Range(file'), Shown(j))
    <3>1. PICK j \in DOMAIN view : TakenFor(i, j) /\ Known(Range(file), Shown(j))
      BY <2>3 DEF IInv, ExportInv
    <3>2. QED BY <1>4, <3>1
  <2>4. QED BY <1>1, <2>1, <2>2, <2>3 DEF IInv, ExportInv, TakenFor, Shown
<1>9. AppendInv'
  <2> SUFFICES ASSUME pc \in {"backup", "append"}
               PROVE  /\ raced' <= Len(file')
                      /\ \A b \in DOMAIN pending :
                            ~Known(Range(SubSeq(file', 1, Len(file') - raced')), pending[b])
    BY <1>1 DEF AppendInv
  <2>1. raced <= Len(file)
    BY DEF IInv, AppendInv
  <2>2. /\ raced' <= Len(file') /\ Len(file') - raced' = Len(file) - raced
        /\ Len(file) - raced \in 0 .. Len(file)
    BY <1>4, <1>5, <2>1
  <2>3. SubSeq(file', 1, Len(file) - raced) = SubSeq(file, 1, Len(file) - raced)
    BY <1>3, <1>4, <2>2, ReadPartStays
  <2>4. QED BY <2>2, <2>3 DEF IInv, AppendInv
<1>10. QED BY <1>6, <1>7, <1>8, <1>9 DEF IInv

LEMMA CrashStep == ASSUME IInv, Crash PROVE IInv'
<1>1. /\ pc' = "idle" /\ view' = <<>> /\ pending' = <<>> /\ datagrams' = {} /\ accepting' = {}
      /\ late' = {} /\ raced' = 0 /\ quiet' = "no" /\ indexed' = Ids(local)
      /\ local' = local
  BY DEF Crash
<1>2. \A S : <<>> \in Seq(S) /\ Len(<<>>) = 0 /\ DOMAIN <<>> = {}
  BY EmptySeq
<1>3. file' \in Seq(Qso)
  <2>1. file \in Seq(Qso) /\ pending \in Seq(Qso) /\ Len(pending) \in Nat
    BY LenProperties DEF IInv, TypeInv
  <2>2. CASE pc = "append"
    <3>1. PICK n \in 0 .. (Len(pending) - 1) : file' \in FilesAfterAppend(SubSeq(pending, 1, n))
      BY <2>2 DEF Crash
    <3>2. SubSeq(pending, 1, n) \in Seq(Qso)
      BY <2>1, <3>1, SubSeqProperties
    <3>3. PICK added \in Seq(Qso) : file' = file \o added
      BY <2>1, <3>1, <3>2, FileGrows
    <3>4. QED BY <2>1, <3>3, RangeOfBoth
  <2>3. CASE pc # "append"
    BY <2>1, <2>3 DEF Crash
  <2>4. QED BY <2>2, <2>3
<1>4. TypeInv'
  BY <1>1, <1>2, <1>3 DEF IInv, TypeInv, Steps
<1>5. ViewInv'
  <2>1. Len(local) \in Nat
    BY LenProperties DEF IInv, TypeInv
  <2>2. QED BY <1>1, <1>2, <2>1 DEF ViewInv, Ids
<1>6. LocalInv' /\ AcceptInv' /\ ImportInv' /\ QuietInv' /\ ExportInv' /\ AppendInv'
  BY <1>1
     DEF IInv, LocalInv, NoDuplicateOf, AcceptInv, NewToTheSeen, ImportInv, QuietInv, ExportInv,
         AppendInv
<1>7. QED BY <1>4, <1>5, <1>6 DEF IInv

LEMMA StutterStep == ASSUME IInv, UNCHANGED vars PROVE IInv'
<1>1. TypeInv' /\ ViewInv' /\ ImportInv' /\ QuietInv' /\ AppendInv'
  BY DEF IInv, vars, TypeInv, ViewInv, Ids, ImportInv, QuietInv, AppendInv
<1>2. LocalInv' /\ AcceptInv'
  BY DEF IInv, vars, LocalInv, NoDuplicateOf, AcceptInv, NewToTheSeen
<1>3. ExportInv'
  BY DEF IInv, vars, ExportInv, TakenFor, Shown
<1>4. QED BY <1>1, <1>2, <1>3 DEF IInv

LEMMA InvariantHolds == Spec => []IInv
<1>1. Init => IInv
  BY InitInvariant
<1>2. IInv /\ [Next]_vars => IInv'
  <2> SUFFICES ASSUME IInv, [Next]_vars PROVE IInv'
    OBVIOUS
  <2>1. CASE SyncStep
    BY <2>1, ScanStep, ReadStep, AddStep, RescanSteps, RereadStep, ReadAgainStep, BackupStep,
       AppendStep, VerifyStep, FinishStep DEF SyncStep
  <2>2. CASE \E qso \in Contacts : WsjtxLogs(qso) \/ UserLogs(qso)
    BY <2>2, WsjtxStep, UserStep
  <2>3. CASE \E qso \in datagrams : AcceptUdpQso(qso)
    BY <2>3, UdpStep
  <2>4. CASE \E found \in accepting : AddUdpQso(found)
    BY <2>4, AddUdpStep
  <2>5. CASE Crash
    BY <2>5, CrashStep
  <2>6. CASE UNCHANGED vars
    BY <2>6, StutterStep
  <2>7. QED BY <2>1, <2>2, <2>3, <2>4, <2>5, <2>6 DEF Next
<1>3. QED BY <1>1, <1>2, PTL DEF Spec

(* A sync that ends without an error has brought every valid QSO it saw to *)
(* the WSJT-X file; if nothing was logged meanwhile, what the file holds   *)
(* of this station is in the local log, and every record has its row       *)
(* (sync_wsjtx_with_local).                                                *)
THEOREM BothLogsComplete == Spec => []SyncedBothWays
<1>1. IInv => SyncedBothWays
  <2> SUFFICES ASSUME IInv, pc = "done"
               PROVE  /\ \A i \in DOMAIN view :
                           ValidQso(Shown(i)) =>
                             \E j \in DOMAIN view :
                                /\ TakenFor(i, j)
                                /\ Known(Range(file), Shown(j))
                      /\ quiet # "no" =>
                           \A i \in DOMAIN file :
                              Wanted(file[i]) =>
                                 Known(Range(Qsos(local)), NormalizeQso(file[i]))
                      /\ Ids(local) \subseteq indexed
    BY DEF SyncedBothWays, Shown, TakenFor, Wanted
  <2>1. \A i \in DOMAIN view :
           ValidQso(Shown(i)) =>
              \E j \in DOMAIN view : TakenFor(i, j) /\ Known(Range(file), Shown(j))
    BY DEF IInv, ExportInv
  <2>2. QED BY <2>1 DEF IInv, QuietInv, ViewInv
<1>2. QED BY <1>1, InvariantHolds, PTL

(* No sync, no QSO received by UDP and no crash in between gives either    *)
(* log a second copy of a contact, but for one that was logged after the   *)
(* sync or the listener had read that log (QsoMatcher.find,                *)
(* _append_records, _accept_udp_log_event).                                *)
THEOREM NoDuplicatesAdded == Spec => []NoNewDuplicates
<1>1. IInv => NoNewDuplicates
  <2> SUFFICES ASSUME IInv PROVE NoNewDuplicates
    OBVIOUS
  <2>1. ASSUME NEW i \in DOMAIN local, NEW j \in DOMAIN local, i < j,
               SameContact(local[i].qso, local[j].qso)
        PROVE  local[j].by = "user" \/ local[i].id \in local[j].besides
    BY <2>1 DEF IInv, LocalInv, NoDuplicateOf, AcceptInv, NewToTheSeen
  <2>2. ASSUME pc = "append", NEW b \in DOMAIN pending
        PROVE  ~Known(Range(SubSeq(file, 1, Len(file) - raced)), pending[b])
    BY <2>2 DEF IInv, AppendInv
  <2>3. QED BY <2>1, <2>2 DEF NoNewDuplicates
<1>2. QED BY <1>1, InvariantHolds, PTL
=============================================================================

--------------------------- MODULE LogStore_proofs --------------------------
(***************************************************************************)
(* The inductive invariant of module LogStore, the safety properties that  *)
(* follow from it, and that the module implements DurableLog.              *)
(***************************************************************************)
EXTENDS LogStore, TLAPS, SequenceTheorems, FiniteSetTheorems

-----------------------------------------------------------------------------
(* Facts about the operators of module AdiFile. *)

(* The cells of a record come in pairs: cell i belongs to record (i + 1)   *)
(* \div 2.                                                                 *)
LEMMA HalfIndex ==
    ASSUME NEW n \in Nat, NEW i \in 1..(2 * n)
    PROVE  (i + 1) \div 2 \in 1..n
OBVIOUS

(* Writing records yields cells, two for each record.                      *)
LEMMA EncodeType ==
    ASSUME NEW recs \in Seq(Rec)
    PROVE  /\ Encode(recs) \in Seq(Cell)
           /\ Len(Encode(recs)) = 2 * Len(recs)
           /\ \A i \in 1..(2 * Len(recs)) :
                 Encode(recs)[i] = <<recs[(i + 1) \div 2], IF i % 2 = 1 THEN "fields" ELSE "eor">>
<1>1. \A i \in 1..(2 * Len(recs)) : recs[(i + 1) \div 2] \in Rec
  BY HalfIndex, ElementOfSeq
<1>2. QED
  BY <1>1 DEF Encode, Cell

(* Parsing (parse_adif) yields records, whatever the file holds.           *)
LEMMA DecodeType ==
    ASSUME NEW c \in Seq(Cell)
    PROVE  /\ Decode(c) \in Seq(Rec)
           /\ Len(Decode(c)) = Len(c) \div 2
           /\ \A i \in 1..(Len(c) \div 2) : Decode(c)[i] = c[2 * i][1]
<1>1. \A i \in 1..(Len(c) \div 2) : c[2 * i] \in Cell
  BY ElementOfSeq
<1>2. QED
  BY <1>1 DEF Decode, Cell

(* Parsing what was written gives back the records (qso_to_adif_record,    *)
(* parse_adif).                                                            *)
LEMMA DecodeEncode ==
    ASSUME NEW recs \in Seq(Rec)
    PROVE  Decode(Encode(recs)) = recs
<1>1. Decode(Encode(recs)) \in Seq(Rec)
        /\ Len(Decode(Encode(recs))) = Len(recs)
  <2>1. (2 * Len(recs)) \div 2 = Len(recs)
    OBVIOUS
  <2>2. QED BY <2>1, EncodeType, DecodeType
<1>2. \A i \in 1..Len(recs) : Decode(Encode(recs))[i] = recs[i]
  <2> TAKE i \in 1..Len(recs)
  <2>1. Decode(Encode(recs))[i] = Encode(recs)[2 * i][1]
    BY EncodeType, DecodeType
  <2>2. 2 * i \in 1..(2 * Len(recs)) /\ (2 * i + 1) \div 2 = i
    OBVIOUS
  <2>3. QED BY <2>1, <2>2, EncodeType
<1>3. QED BY <1>1, <1>2, SeqEqual

(* Writing two batches one after the other is writing them at once.        *)
LEMMA EncodeConcat ==
    ASSUME NEW r \in Seq(Rec), NEW s \in Seq(Rec)
    PROVE  Encode(r \o s) = Encode(r) \o Encode(s)
<1>0. r \o s \in Seq(Rec) /\ Len(r \o s) = Len(r) + Len(s)
  BY ConcatProperties
<1>1. /\ Encode(r \o s) \in Seq(Cell)
      /\ Encode(r) \o Encode(s) \in Seq(Cell)
      /\ Len(Encode(r \o s)) = 2 * (Len(r) + Len(s))
      /\ Len(Encode(r) \o Encode(s)) = 2 * (Len(r) + Len(s))
  <2>1. /\ Encode(r \o s) \in Seq(Cell)
        /\ Len(Encode(r \o s)) = 2 * (Len(r) + Len(s))
    BY <1>0, EncodeType
  <2>2. /\ Encode(r) \in Seq(Cell) /\ Len(Encode(r)) = 2 * Len(r)
        /\ Encode(s) \in Seq(Cell) /\ Len(Encode(s)) = 2 * Len(s)
    BY EncodeType
  <2>3. /\ Encode(r) \o Encode(s) \in Seq(Cell)
        /\ Len(Encode(r) \o Encode(s)) = Len(Encode(r)) + Len(Encode(s))
    BY <2>2, ConcatProperties
  <2>4. QED BY <2>1, <2>2, <2>3
<1>2. \A i \in 1..(2 * (Len(r) + Len(s))) :
            Encode(r \o s)[i] = (Encode(r) \o Encode(s))[i]
  <2> TAKE i \in 1..(2 * (Len(r) + Len(s)))
  <2>a. r \o s \in Seq(Rec) /\ Len(r \o s) = Len(r) + Len(s)
    BY ConcatProperties
  <2>b. Encode(r \o s)[i] = <<(r \o s)[(i + 1) \div 2],
              IF i % 2 = 1 THEN "fields" ELSE "eor">>
    BY <2>a, EncodeType
  <2>1. CASE i <= 2 * Len(r)
    <3>1. (Encode(r) \o Encode(s))[i] = Encode(r)[i]
      BY <2>1, EncodeType, ConcatProperties
    <3>2. Encode(r)[i] = <<r[(i + 1) \div 2],
                IF i % 2 = 1 THEN "fields" ELSE "eor">>
      BY <2>1, EncodeType
    <3>3. (r \o s)[(i + 1) \div 2] = r[(i + 1) \div 2]
      BY <2>1, ConcatProperties
    <3> QED BY <2>b, <3>1, <3>2, <3>3
  <2>2. CASE i > 2 * Len(r)
    <3> DEFINE j == i - 2 * Len(r)
    <3>0. j \in 1..(2 * Len(s)) /\ j % 2 = i % 2
            /\ (j + 1) \div 2 = (i + 1) \div 2 - Len(r)
      BY <2>2
    <3>1. (Encode(r) \o Encode(s))[i] = Encode(s)[j]
      BY <2>2, EncodeType, ConcatProperties
    <3>2. Encode(s)[j] = <<s[(j + 1) \div 2],
                IF j % 2 = 1 THEN "fields" ELSE "eor">>
      BY <3>0, EncodeType
    <3>3. (r \o s)[(i + 1) \div 2] = s[(j + 1) \div 2]
      BY <2>2, <3>0, ConcatProperties
    <3>4. i % 2 = j % 2
      BY <3>0
    <3> HIDE DEF j
    <3> QED BY <2>b, <3>1, <3>2, <3>3, <3>4, Zenon
  <2>3. i <= 2 * Len(r) \/ i > 2 * Len(r)
    OBVIOUS
  <2>4. QED BY <2>1, <2>2, <2>3
<1>3. QED BY <1>1, <1>2, SeqEqual

(* Cutting a written file between two records leaves the first records,    *)
(* written.                                                                *)
LEMMA EncodePrefix == ASSUME NEW r \in Seq(Rec), NEW n \in 0..Len(r) 
  PROVE SubSeq(Encode(r), 1, 2 * n) = Encode(SubSeq(r, 1, n))
<1>1. SubSeq(r, 1, n) \in Seq(Rec) /\ Len(SubSeq(r, 1, n)) = n
        /\ \A i \in 1..n : SubSeq(r, 1, n)[i] = r[i]
  BY SubSeqProperties
<1>2. /\ SubSeq(Encode(r), 1, 2 * n) \in Seq(Cell)
      /\ Len(SubSeq(Encode(r), 1, 2 * n)) = 2 * n
      /\ \A i \in 1..(2*n) : SubSeq(Encode(r), 1, 2 * n)[i] = Encode(r)[i]
  BY EncodeType, SubSeqProperties
<1>3. /\ Encode(SubSeq(r, 1, n)) \in Seq(Cell)
      /\ Len(Encode(SubSeq(r, 1, n))) = 2 * n
  BY <1>1, EncodeType
<1>4. \A i \in 1..(2*n) : SubSeq(Encode(r), 1, 2 * n)[i]
          = Encode(SubSeq(r, 1, n))[i]
  <2> TAKE i \in 1..(2 * n)
  <2>1. (i + 1) \div 2 \in 1..n
    BY HalfIndex
  <2>2. Encode(SubSeq(r, 1, n))[i] = <<SubSeq(r, 1, n)[(i + 1) \div 2],
              IF i % 2 = 1 THEN "fields" ELSE "eor">>
    BY <1>1, EncodeType
  <2>3. Encode(r)[i] = <<r[(i + 1) \div 2],
              IF i % 2 = 1 THEN "fields" ELSE "eor">>
    BY EncodeType
  <2> QED BY <1>1, <1>2, <2>1, <2>2, <2>3
<1> QED BY <1>2, <1>3, <1>4, SeqEqual

(* What filtering by identity leaves are records at rising places, none    *)
(* with one of the identities.                                             *)
LEMMA KeptPlaces ==
    ASSUME NEW s \in Seq(Rec), NEW ids, NEW k \in Kept(s, ids)
    PROVE  /\ k \in Seq(Rec)
           /\ \E at \in [1..Len(k) -> DOMAIN s] :
                 /\ \A i \in 1..Len(k) : k[i] = s[at[i]] /\ k[i].id \notin ids
                 /\ \A i, j \in 1..Len(k) : i < j => at[i] < at[j]
<1> DEFINE places == {i \in DOMAIN s : s[i].id \notin ids}
           size == Cardinality(places)
<1>1. IsFiniteSet(places) /\ size \in Nat
  <2>1. IsFiniteSet(1..Len(s)) /\ places \subseteq 1..Len(s)
    BY FS_Interval
  <2> HIDE DEF places
  <2>2. QED BY <2>1, FS_Subset, FS_CardinalityType
<1>2. PICK at \in [1..size -> places] :
        /\ \A i, j \in 1..size : i < j => at[i] < at[j]
        /\ k = [i \in 1..size |-> s[at[i]]]
  BY DEF Kept
<1>3. \A i \in 1..size : at[i] \in DOMAIN s /\ s[at[i]].id \notin ids /\ s[at[i]] \in Rec
  BY <1>2
<1> HIDE DEF places, size
<1>4. k \in Seq(Rec) /\ Len(k) = size
  BY <1>1, <1>2, <1>3
<1>5. \A i \in 1..Len(k) : k[i] = s[at[i]] /\ k[i].id \notin ids
  BY <1>2, <1>3, <1>4
<1>6. at \in [1..Len(k) -> DOMAIN s]
  BY <1>2, <1>3, <1>4
<1>7. QED BY <1>2, <1>4, <1>5, <1>6

(* Filtering a logbook by identity keeps records.                          *)
LEMMA KeptType ==
    ASSUME NEW s \in Seq(Rec), NEW ids, NEW k \in Kept(s, ids)
    PROVE  k \in Seq(Rec)
BY KeptPlaces

(* It makes no identity appear twice, and leaves none of those named.      *)
LEMMA KeptDistinct ==
    ASSUME NEW s \in Seq(Rec), Distinct(s), NEW ids, NEW k \in Kept(s, ids)
    PROVE  Distinct(k) /\ Ids(k) \cap ids = {}
<1>1. k \in Seq(Rec)
  BY KeptPlaces
<1>2. PICK at \in [1..Len(k) -> DOMAIN s] :
        /\ \A i \in 1..Len(k) : k[i] = s[at[i]] /\ k[i].id \notin ids
        /\ \A i, j \in 1..Len(k) : i < j => at[i] < at[j]
  BY KeptPlaces
<1>3. ASSUME NEW i \in 1..Len(k), NEW j \in 1..Len(k), k[i].id = k[j].id, i < j
      PROVE  FALSE
  <2>1. at[i] = at[j]
    BY <1>2, <1>3 DEF Distinct
  <2>2. at[i] \in 1..Len(s) /\ at[i] < at[j]
    BY <1>2, <1>3
  <2>3. QED BY <2>1, <2>2
<1>4. \A i, j \in 1..Len(k) : k[i].id = k[j].id => i = j
  <2>1. SUFFICES ASSUME NEW i \in 1..Len(k), NEW j \in 1..Len(k), k[i].id = k[j].id, i # j
                 PROVE  FALSE
    OBVIOUS
  <2>2. i < j \/ j < i
    BY <2>1
  <2>3. QED BY <1>3, <2>1, <2>2
<1>5. Ids(k) \cap ids = {}
  BY <1>1, <1>2 DEF Ids, Range
<1>6. QED BY <1>1, <1>4, <1>5 DEF Distinct

(* Records with other identities may be put behind.                        *)
LEMMA ConcatDistinct ==
    ASSUME NEW r \in Seq(Rec), NEW s \in Seq(Rec), Distinct(r), Distinct(s),
           Ids(s) \cap Ids(r) = {}
    PROVE  Distinct(r \o s)
<1>1. r \o s \in Seq(Rec) /\ Len(r \o s) = Len(r) + Len(s)
  BY ConcatProperties
<1>2. \A i \in 1..Len(r) : (r \o s)[i] = r[i]
  BY ConcatProperties
<1>3. \A i \in 1..Len(s) : (r \o s)[Len(r) + i] = s[i]
  BY ConcatProperties
<1>4. \A i \in 1..Len(r), j \in 1..Len(s) : r[i].id # s[j].id
  <2>1. \A i \in 1..Len(r) : r[i].id \in Ids(r)
    BY DEF Ids, Range
  <2>2. \A j \in 1..Len(s) : s[j].id \in Ids(s)
    BY DEF Ids, Range
  <2>3. QED BY <2>1, <2>2
<1>5. \A i \in 1..Len(r \o s) :
        \/ i \in 1..Len(r) /\ (r \o s)[i] = r[i]
        \/ i - Len(r) \in 1..Len(s) /\ (r \o s)[i] = s[i - Len(r)]
  <2>1. SUFFICES ASSUME NEW i \in 1..Len(r \o s), i \notin 1..Len(r)
                 PROVE  i - Len(r) \in 1..Len(s) /\ (r \o s)[i] = s[i - Len(r)]
    BY <1>2
  <2>2. i - Len(r) \in 1..Len(s) /\ Len(r) + (i - Len(r)) = i
    BY <1>1, <2>1
  <2>3. QED BY <1>3, <2>2
<1>6. \A i, j \in 1..Len(r) : r[i].id = r[j].id => i = j
  BY DEF Distinct
<1>7. \A i, j \in 1..Len(s) : s[i].id = s[j].id => i = j
  BY DEF Distinct
<1>8. ASSUME NEW i \in 1..Len(r \o s), NEW j \in 1..Len(r \o s),
             (r \o s)[i].id = (r \o s)[j].id
      PROVE  i = j
  <2>1. CASE i \in 1..Len(r) /\ (r \o s)[i] = r[i]
    <3>1. ~(j - Len(r) \in 1..Len(s) /\ (r \o s)[j] = s[j - Len(r)])
      BY <1>4, <1>8, <2>1
    <3>2. QED BY <1>5, <1>6, <1>8, <2>1, <3>1
  <2>2. CASE i - Len(r) \in 1..Len(s) /\ (r \o s)[i] = s[i - Len(r)]
    <3>1. ~(j \in 1..Len(r) /\ (r \o s)[j] = r[j])
      BY <1>4, <1>8, <2>2
    <3>2. j - Len(r) \in 1..Len(s) /\ (r \o s)[j] = s[j - Len(r)]
      BY <1>5, <3>1
    <3>3. i - Len(r) = j - Len(r)
      BY <1>7, <1>8, <2>2, <3>2
    <3>4. QED BY <1>1, <3>3
  <2>3. QED BY <1>5, <2>1, <2>2
<1>9. QED BY <1>1, <1>8 DEF Distinct

(* A file that was written in one piece has no torn record.                *)
LEMMA WholeEncode == ASSUME NEW recs \in Seq(Rec) PROVE Whole(Encode(recs))
BY DecodeEncode DEF Whole

(* A whole file has two cells for each of its records.                     *)
LEMMA WholeLength ==
    ASSUME NEW c \in Seq(Cell), Whole(c)
    PROVE  Len(c) = 2 * Len(Decode(c))
BY EncodeType, DecodeType DEF Whole

(* A whole file cut between two records is whole.                          *)
LEMMA WholePrefix ==
    ASSUME NEW c \in Seq(Cell), Whole(c),
           NEW n \in Nat, n <= Len(c), n % 2 = 0
    PROVE  Whole(SubSeq(c, 1, n))
<1>1. Decode(c) \in Seq(Rec) /\ c = Encode(Decode(c))
        /\ Len(c) = 2 * Len(Decode(c))
  BY DecodeType, WholeLength DEF Whole
<1>2. PICK m \in Nat : n = 2 * m
  BY n = 2 * (n \div 2) /\ n \div 2 \in Nat
<1>3. m \in 0..Len(Decode(c))
  BY <1>1, <1>2
<1>4. SubSeq(c, 1, n) = Encode(SubSeq(Decode(c), 1, m))
  BY <1>1, <1>2, <1>3, EncodePrefix
<1>5. SubSeq(Decode(c), 1, m) \in Seq(Rec)
  BY <1>1, <1>3, SubSeqProperties
<1>6. QED BY <1>4, <1>5, WholeEncode

(* Appending a complete payload to a whole file keeps it whole and adds    *)
(* just the records of the payload.                                        *)
LEMMA WholeAppend ==
    ASSUME NEW c \in Seq(Cell), Whole(c), NEW recs \in Seq(Rec)
    PROVE  /\ Whole(c \o Encode(recs))
           /\ Decode(c \o Encode(recs)) = Decode(c) \o recs
<1>1. Decode(c) \in Seq(Rec) /\ c = Encode(Decode(c))
  BY DecodeType DEF Whole
<1>2. Decode(c) \o recs \in Seq(Rec)
  BY <1>1, ConcatProperties
<1>3. c \o Encode(recs) = Encode(Decode(c) \o recs)
  BY <1>1, EncodeConcat
<1>4. QED BY <1>2, <1>3, WholeEncode, DecodeEncode

(* A partly written payload leaves what came before it as it was, and is   *)
(* itself a prefix of the payload.                                         *)
LEMMA AppendedPrefix ==
    ASSUME NEW b \in Seq(Cell), NEW p \in Seq(Cell), NEW n \in 0..Len(p)
    PROVE  LET f == b \o SubSeq(p, 1, n)
           IN  /\ f \in Seq(Cell)
               /\ Len(f) = Len(b) + n
               /\ SubSeq(f, 1, Len(b)) = b
               /\ SubSeq(f, Len(b) + 1, Len(f)) = SubSeq(p, 1, n)
               /\ IsPrefix(SubSeq(p, 1, n), p)
<1> DEFINE t == SubSeq(p, 1, n)
           f == b \o t
<1>1. t \in Seq(Cell) /\ Len(t) = n
  BY SubSeqProperties
<1>2. f \in Seq(Cell) /\ Len(f) = Len(b) + n
  BY <1>1, ConcatProperties
<1>3. \A i \in 1..Len(b) : f[i] = b[i]
  BY <1>1, ConcatProperties
<1>4. \A i \in 1..n : f[Len(b) + i] = t[i]
  BY <1>1, ConcatProperties
<1>5. SubSeq(f, 1, Len(b)) = b
  <2>1. SubSeq(f, 1, Len(b)) \in Seq(Cell)
          /\ Len(SubSeq(f, 1, Len(b))) = Len(b)
    BY <1>2
  <2>2. \A i \in 1..Len(b) : SubSeq(f, 1, Len(b))[i] = b[i]
    BY <1>2, <1>3
  <2>3. QED BY <2>1, <2>2, SeqEqual
<1>6. SubSeq(f, Len(b) + 1, Len(f)) = t
  <2>1. SubSeq(f, Len(b) + 1, Len(f)) \in Seq(Cell)
          /\ Len(SubSeq(f, Len(b) + 1, Len(f))) = n
    BY <1>2
  <2>2. \A i \in 1..n : SubSeq(f, Len(b) + 1, Len(f))[i] = t[i]
    BY <1>2, <1>4
  <2>3. QED BY <1>1, <2>1, <2>2, SeqEqual
<1>7. IsPrefix(t, p)
  BY <1>1, SubSeqFull DEF IsPrefix
<1>8. QED BY <1>2, <1>5, <1>6, <1>7

-----------------------------------------------------------------------------
(* Steps of the logbook. *)

(* A read (_load_records) yields records or the marker of an unreadable    *)
(* file.                                                                   *)
LEMMA LoadsType ==
    ASSUME TypeOK, NEW seen \in Loads
    PROVE  seen \in Seq(Rec) \cup {Unreadable}
BY DecodeType DEF Loads, Cached, TypeOK

(* A read leaves a well-typed cache.                                       *)
LEMMA LoadedType ==
    ASSUME TypeOK, NEW seen \in Loads, Loaded(seen)
    PROVE  /\ cache' \in Seq(Rec) \cup {NoCache}
           /\ fresh' \in BOOLEAN
           /\ ready' \in BOOLEAN
BY LoadsType DEF Loaded, TypeOK

(* While a journal is recoverable, the file is the part before the append  *)
(* followed by a tail.                                                     *)
LEMMA PartsType ==
    ASSUME TypeOK, journal # NoJournal, Recoverable
    PROVE  /\ Base \in Seq(Cell) /\ Len(Base) = journal.size
           /\ FileTail \in Seq(Cell)
           /\ Payload \in Seq(Cell)
           /\ file = Base \o FileTail
<1>1. journal \in [size : Nat, recs : Seq(Rec)] /\ file \in Seq(Cell)
  BY DEF TypeOK
<1>2. journal.size \in 0..Len(file)
  BY <1>1 DEF Recoverable
<1>3. Payload \in Seq(Cell)
  BY <1>1, EncodeType DEF Payload
<1>4. Base \in Seq(Cell) /\ Len(Base) = journal.size
  BY <1>1, <1>2 DEF Base
<1>5. FileTail \in Seq(Cell)
  BY <1>1, <1>2 DEF FileTail
<1>6. file = Base \o FileTail
  <2>1. SubSeq(file, 1, Len(file)) = file
    BY <1>1, SubSeqFull
  <2>2. SubSeq(file, 1, journal.size) \o SubSeq(file, journal.size + 1, Len(file))
          = SubSeq(file, 1, Len(file))
    BY <1>1, <1>2, ConcatAdjacentSubSeq
  <2>3. QED BY <2>1, <2>2 DEF Base, FileTail
<1>7. QED BY <1>3, <1>4, <1>5, <1>6

(* Steps that leave file and journal alone. *)
LEMMA Frame ==
    ASSUME UNCHANGED <<file, journal>>
    PROVE  /\ Recoverable' <=> Recoverable
           /\ Base' = Base
           /\ FileTail' = FileTail
           /\ Payload' = Payload
           /\ Content' = Content
BY DEF Recoverable, Base, FileTail, Payload, Content

(* The idle operation is well-typed.                                       *)
LEMMA NoOpType == NoOp \in Op
<1>1. <<>> \in Seq(Rec)
  OBVIOUS
<1>2. QED BY <1>1 DEF NoOp, Op

(* The idle operation is of no kind.                                       *)
LEMMA NoOpKind == NoOp.kind = "none"
BY DEF NoOp

(* Ending an operation leaves well-typed variables.                        *)
LEMMA EndType ==
    ASSUME NEW where \in PC, NEW outcome \in {"none", "ok", "error"},
           End(where, outcome)
    PROVE  /\ pc' \in PC
           /\ op' \in Op
           /\ applying' \in BOOLEAN
           /\ new' \in Seq(Rec)
           /\ result' \in {"none", "ok", "error"}
<1>1. <<>> \in Seq(Rec)
  OBVIOUS
<1>2. QED BY <1>1, NoOpType DEF End

(* The invariant holds initially.                                          *)
LEMMA InitInvariant == Init => IInv
<1> SUFFICES ASSUME Init PROVE IInv
  OBVIOUS
<1>1. PICK recs \in InitialLogs : file = Encode(recs)
  BY DEF Init
<1>2. recs \in Seq(Rec)
  BY SetsAssumption
<1>3. TypeOK
  <2>1. file \in Seq(Cell)
    BY <1>1, <1>2, EncodeType
  <2>2. <<>> \in Seq(Rec)
    OBVIOUS
  <2>3. enc \in {"utf8", "latin1", "mixed"}
    BY SetsAssumption DEF Init
  <2>4. QED BY <2>1, <2>2, <2>3, NoOpType DEF Init, TypeOK, PC
<1>4. TornOnlyUnderJournal
  BY <1>1, <1>2, WholeEncode DEF TornOnlyUnderJournal
<1>5. QED
  BY <1>3, <1>4, NoOpKind DEF Init, IInv, OpInv, JournalInv, AppendInv,
     ApplyInv, RewriteInv, CacheCoherent, Cached

(* Every operation but an append starts the same way. *)
LEMMA BeginInvariant ==
    ASSUME IInv, NEW kind \in {"scan", "add", "update", "upsert", "delete", "import"},
           NEW recs \in Seq(Rec), NEW ids \in SUBSET Identities,
           Begin(kind, recs, ids),
           kind \in {"add", "update", "upsert", "import"} => recs \in Batches,
           \/ pc' = "recover" /\ UNCHANGED new /\ (kind = "add" => file # <<>>)
           \/ kind = "add" /\ file = <<>> /\ pc' = "replace" /\ new' = recs
    PROVE  IInv'
<1> USE DEF Begin, disk, memory
<1>1. TypeOK'
  BY DEF IInv, TypeOK, Op, PC
<1>2. pc = "idle" /\ ~applying /\ op.kind = "none"
        /\ op' = [kind |-> kind, recs |-> recs, ids |-> ids]
  BY NoOpKind DEF IInv, OpInv
<1>3. UNCHANGED <<file, journal, edition, applying, cache, fresh>>
  OBVIOUS
<1>4. pc' = "replace" => journal = NoJournal
  BY <1>2 DEF IInv, JournalInv, Recoverable
<1>5. OpInv'
  BY <1>2, <1>3, <1>4 DEF OpInv
<1>6. JournalInv'
  BY <1>2, <1>3, Frame DEF IInv, JournalInv
<1>7. AppendInv' /\ ApplyInv' /\ RewriteInv'
  BY <1>2, <1>3 DEF AppendInv, ApplyInv, RewriteInv
<1>8. TornOnlyUnderJournal' /\ CacheCoherent'
  BY <1>3 DEF IInv, TornOnlyUnderJournal, CacheCoherent, Cached
<1>9. QED BY <1>1, <1>5, <1>6, <1>7, <1>8 DEF IInv

(* The end of an operation, with the disk as it was. *)
LEMMA EndInvariant ==
    ASSUME IInv, NEW where \in {"idle", "down"},
           NEW outcome \in {"none", "ok", "error"}, End(where, outcome),
           UNCHANGED <<disk, edition>>,
           where = "idle" => (journal # NoJournal => Recoverable),
           cache' \in Seq(Rec) \cup {NoCache}, fresh' \in BOOLEAN,
           ready' \in BOOLEAN, CacheCoherent'
    PROVE  IInv'
<1>1. TypeOK'
  BY EndType DEF IInv, TypeOK, disk, PC
<1>2. pc' = where /\ op' = NoOp /\ ~applying'
  BY DEF End
<1>3. UNCHANGED <<file, journal, edition>>
  BY DEF disk
<1>4. OpInv' /\ AppendInv' /\ ApplyInv' /\ RewriteInv'
  BY <1>2, NoOpKind DEF OpInv, AppendInv, ApplyInv, RewriteInv
<1>5. JournalInv'
  BY <1>2, <1>3, Frame, NoOpKind DEF IInv, JournalInv
<1>6. TornOnlyUnderJournal'
  BY <1>3 DEF IInv, TornOnlyUnderJournal
<1>7. QED BY <1>1, <1>4, <1>5, <1>6 DEF IInv

(* A completed append: its records are in the file. *)
LEMMA CompletedAppend ==
    ASSUME IInv, journal # NoJournal, Recoverable, FileTail = Payload
    PROVE  /\ journal.recs \in Seq(Rec)
           /\ Decode(Base) \in Seq(Rec)
           /\ Whole(file)
           /\ Decode(file) = Decode(Base) \o journal.recs
<1>1. journal.recs \in Seq(Rec)
  BY DEF IInv, TypeOK
<1>2. Base \in Seq(Cell) /\ file = Base \o Payload
  BY PartsType DEF IInv
<1>3. Whole(Base)
  BY DEF IInv, JournalInv
<1>4. QED
  BY <1>1, <1>2, <1>3, DecodeType, WholeAppend DEF Payload

(* A recovery that finds the payload complete and removes the journal      *)
(* preserves the invariant, whatever the operation does next.              *)
LEMMA RecoveredInvariant ==
    ASSUME IInv, pc \in {"recover", "written"}, journal # NoJournal,
           Recoverable, FileTail = Payload, journal' = NoJournal, ready'
               = TRUE,
           AfterRecovery, UNCHANGED <<file, enc, edition>>
    PROVE  IInv'
<1>1. Whole(file) /\ Decode(file) = Decode(Base) \o journal.recs
  BY CompletedAppend
<1>2. TornOnlyUnderJournal' /\ JournalInv'
  BY <1>1 DEF TornOnlyUnderJournal, JournalInv
<1>3. op \in Op /\ op.kind = "open" => ~applying
  BY DEF IInv, ApplyInv, TypeOK
<1>4. CASE op.kind = "open" /\ End("idle", "ok") /\ UNCHANGED <<cache, fresh>>
  <2>1. TypeOK'
    BY <1>4, EndType DEF IInv, TypeOK, PC
  <2>2. pc' = "idle" /\ op' = NoOp /\ ~applying'
    BY <1>4 DEF End
  <2>3. OpInv' /\ AppendInv' /\ ApplyInv' /\ RewriteInv'
    BY <2>2, NoOpKind DEF OpInv, AppendInv, ApplyInv, RewriteInv
  <2>4. CacheCoherent'
    BY <1>4 DEF IInv, CacheCoherent, Cached
  <2>5. QED BY <1>2, <2>1, <2>3, <2>4 DEF IInv
<1>5. CASE /\ op.kind # "open" /\ ~applying
           /\ pc' = "run"
           /\ UNCHANGED <<op, applying, new, result, cache, fresh>>
  <2>1. TypeOK'
    BY <1>5 DEF IInv, TypeOK, PC
  <2>2. file # <<>>
    BY DEF Recoverable
  <2>3. OpInv'
    BY <1>5, <2>2 DEF IInv, OpInv
  <2>4. AppendInv' /\ ApplyInv' /\ RewriteInv'
    BY <1>5 DEF AppendInv, ApplyInv, RewriteInv
  <2>5. CacheCoherent'
    BY <1>5 DEF IInv, CacheCoherent, Cached
  <2>6. QED BY <1>2, <2>1, <2>3, <2>4, <2>5 DEF IInv
<1>6. CASE /\ applying
           /\ End("idle", "ok")
           /\ cache' = IF cache = NoCache THEN NoCache ELSE cache \o op.recs
           /\ fresh' = (cache # NoCache)
  <2>1. journal.recs = op.recs /\ (cache # NoCache => cache = Decode(Base))
    BY <1>6 DEF IInv, ApplyInv
  <2>2. cache # NoCache => cache' = Decode(file)
    BY <1>1, <1>6, <2>1
  <2>3. Decode(file) \in Seq(Rec)
    BY DecodeType DEF IInv, TypeOK
  <2>4. TypeOK'
    BY <1>6, <2>2, <2>3, EndType DEF IInv, TypeOK, PC
  <2>5. pc' = "idle" /\ op' = NoOp /\ ~applying'
    BY <1>6 DEF End
  <2>6. OpInv' /\ AppendInv' /\ ApplyInv' /\ RewriteInv'
    BY <2>5, NoOpKind DEF OpInv, AppendInv, ApplyInv, RewriteInv
  <2>7. CacheCoherent'
    BY <1>6, <2>2 DEF CacheCoherent, Cached
  <2>8. QED BY <1>2, <2>4, <2>6, <2>7 DEF IInv
<1>7. QED BY <1>4, <1>5, <1>6 DEF AfterRecovery

(* So does a recovery that finds no journal.                               *)
LEMMA RecoverNothingInvariant ==
    ASSUME IInv, RecoverNothing
    PROVE  IInv'
<1>1. /\ pc = "recover" /\ journal = NoJournal /\ ~applying
      /\ UNCHANGED <<file, enc, journal, edition, ready>>
  BY DEF RecoverNothing, disk, IInv, ApplyInv
<1>2. CASE op.kind = "open" /\ End("idle", "ok") /\ UNCHANGED <<cache, fresh>>
  <2>1. CacheCoherent'
    BY <1>1, <1>2 DEF IInv, CacheCoherent, Cached
  <2>2. QED BY <1>1, <1>2, <2>1, EndInvariant DEF IInv, TypeOK, disk
<1>3. CASE /\ op.kind # "open" /\ ~applying
           /\ pc' = "run"
           /\ UNCHANGED <<op, applying, new, result, cache, fresh>>
  <2>1. TypeOK'
    BY <1>1, <1>3 DEF IInv, TypeOK, PC
  <2>2. OpInv' /\ JournalInv' /\ AppendInv' /\ ApplyInv' /\ RewriteInv'
    BY <1>1, <1>3 DEF IInv, OpInv, JournalInv, AppendInv, ApplyInv, RewriteInv
  <2>3. TornOnlyUnderJournal' /\ CacheCoherent'
    BY <1>1, <1>3 DEF IInv, TornOnlyUnderJournal, CacheCoherent, Cached
  <2>4. QED BY <2>1, <2>2, <2>3 DEF IInv
<1>4. QED BY <1>1, <1>2, <1>3 DEF RecoverNothing, AfterRecovery

(* Cutting off a torn payload preserves the invariant: the file is still   *)
(* recoverable.                                                            *)
LEMMA RecoverTruncateInvariant ==
    ASSUME IInv, RecoverTruncate
    PROVE  IInv'
<1>1. /\ pc = "recover" /\ journal # NoJournal /\ Recoverable
      /\ file' = Base /\ fresh' = (fresh /\ FileTail = <<>>) /\ pc' = "append"
      /\ UNCHANGED <<enc, journal, op, applying, new, cache, ready, result, edition>>
  BY DEF RecoverTruncate
<1>2. /\ Base \in Seq(Cell) /\ Len(Base) = journal.size
      /\ file = Base \o FileTail
      /\ Payload \in Seq(Cell) /\ FileTail \in Seq(Cell)
      /\ journal.size \in Nat \ {0}
  BY <1>1, PartsType DEF IInv, JournalInv, TypeOK
<1>3. Base' = Base /\ Payload' = Payload /\ FileTail' = <<>> /\ file' # <<>>
  <2>1. SubSeq(Base, 1, journal.size) = Base
    BY <1>2, SubSeqFull
  <2>2. SubSeq(Base, journal.size + 1, Len(Base)) = <<>>
    BY <1>2, SubSeqEmpty
  <2>3. QED BY <1>1, <1>2, <2>1, <2>2 DEF Base, Payload, FileTail
<1>4. Recoverable'
  <2>1. IsPrefix(<<>>, Payload)
    BY <1>2 DEF IsPrefix
  <2>2. QED BY <1>1, <1>2, <1>3, <2>1 DEF Recoverable
<1>5. TypeOK'
  BY <1>1, <1>2 DEF IInv, TypeOK, PC
<1>6. OpInv' /\ AppendInv' /\ RewriteInv' /\ TornOnlyUnderJournal'
  BY <1>1, <1>4 DEF IInv, OpInv, AppendInv, RewriteInv, TornOnlyUnderJournal
<1>7. JournalInv'
  BY <1>1, <1>3, <1>4 DEF IInv, JournalInv
<1>8. ApplyInv'
  BY <1>1, <1>3, <1>4 DEF IInv, ApplyInv
<1>9. CacheCoherent'
  <2>1. CASE FileTail = <<>>
    <3>1. file' = file
      BY <1>1, <1>2, <2>1
    <3>2. QED BY <1>1, <3>1 DEF IInv, CacheCoherent, Cached
  <2>2. CASE FileTail # <<>>
    BY <1>1, <2>2 DEF CacheCoherent, Cached
  <2>3. QED BY <2>1, <2>2
<1>10. QED BY <1>5, <1>6, <1>7, <1>8, <1>9 DEF IInv

(* A write that puts any further prefix of the payload in the file         *)
(* preserves the invariant (_append_payload_fsynced).                      *)
LEMMA AppendPayloadInvariant ==
    ASSUME IInv, AppendPayload
    PROVE  IInv'
<1>1. /\ pc = "append" /\ journal # NoJournal /\ Recoverable /\ fresh' = FALSE
      /\ enc' \in {enc, "mixed"}
      /\ UNCHANGED <<journal, op, applying, new, cache, ready, result, edition>>
  BY DEF AppendPayload, IInv, AppendInv
<1>2. PICK n \in (Len(FileTail) + 1)..Len(Payload) :
         /\ file' = Base \o SubSeq(Payload, 1, n)
         /\ pc' = IF n = Len(Payload) THEN "written" ELSE "append"
  BY DEF AppendPayload
<1>3. /\ Base \in Seq(Cell) /\ Len(Base) = journal.size
      /\ Payload \in Seq(Cell) /\ FileTail \in Seq(Cell)
      /\ journal.size \in Nat \ {0}
  BY <1>1, PartsType DEF IInv, JournalInv, TypeOK
<1>4. n \in 0..Len(Payload) /\ n > 0
  BY <1>3
<1>5. /\ file' \in Seq(Cell) /\ Len(file') = journal.size + n
      /\ SubSeq(file', 1, journal.size) = Base
      /\ SubSeq(file', journal.size + 1, Len(file')) = SubSeq(Payload, 1, n)
      /\ IsPrefix(SubSeq(Payload, 1, n), Payload)
  <2> DEFINE f == Base \o SubSeq(Payload, 1, n)
  <2>1. /\ f \in Seq(Cell) /\ Len(f) = Len(Base) + n
        /\ SubSeq(f, 1, Len(Base)) = Base
        /\ SubSeq(f, Len(Base) + 1, Len(f)) = SubSeq(Payload, 1, n)
        /\ IsPrefix(SubSeq(Payload, 1, n), Payload)
    BY <1>3, <1>4, AppendedPrefix
  <2>2. f = file' /\ Len(Base) = journal.size
    BY <1>2, <1>3
  <2>3. QED BY <2>1, <2>2
<1>6. Base' = Base /\ Payload' = Payload /\ FileTail' = SubSeq(Payload, 1, n)
  BY <1>1, <1>5 DEF Base, Payload, FileTail
<1>7. Recoverable'
  <2>1. file' # <<>> /\ Len(file') >= journal.size
    BY <1>3, <1>4, <1>5
  <2>2. QED BY <1>1, <1>5, <1>6, <2>1 DEF Recoverable
<1>8. pc' = "written" => FileTail' = Payload'
  BY <1>2, <1>3, <1>6, SubSeqFull
<1>9. pc' \in {"written", "append"}
  BY <1>2
<1>10. TypeOK'
  BY <1>1, <1>5, <1>9 DEF IInv, TypeOK, PC
<1>11. OpInv' /\ AppendInv' /\ RewriteInv' /\ TornOnlyUnderJournal'
         /\ CacheCoherent'
  BY <1>1, <1>7, <1>8, <1>9 DEF IInv, OpInv, AppendInv, RewriteInv,
     TornOnlyUnderJournal, CacheCoherent, Cached
<1>12. JournalInv' /\ ApplyInv'
  BY <1>1, <1>6, <1>7, <1>9 DEF IInv, JournalInv, ApplyInv
<1>13. QED BY <1>10, <1>11, <1>12 DEF IInv

(* What a load may answer: the records of the file, or that it cannot be   *)
(* read; loading keeps the cache coherent.                                 *)
LEMMA LoadResult ==
    ASSUME IInv, NEW seen \in Loads
    PROVE  /\ Decode(file) \in Seq(Rec)
           /\ seen = Decode(file) \/ (seen = Unreadable /\ UnreadableReads)
           /\ seen # Unreadable <=> seen = Decode(file)
<1>1. Decode(file) \in Seq(Rec)
  BY DecodeType DEF IInv, TypeOK
<1>2. Decode(file) # Unreadable
  BY <1>1, MarkersAssumption
<1>3. QED BY <1>1, <1>2 DEF Loads, Cached, IInv, CacheCoherent

(* A read leaves a coherent cache (_cached_records).                       *)
LEMMA LoadedCache ==
    ASSUME IInv, NEW seen \in Loads, Loaded(seen)
    PROVE  /\ cache' \in Seq(Rec) \cup {NoCache}
           /\ fresh' \in BOOLEAN
           /\ ready' \in BOOLEAN
           /\ (cache' # NoCache /\ fresh') => cache' = Decode(file)
BY LoadResult, LoadedType DEF Loaded, IInv

(* An operation that reads and leaves the logbook as it is.                *)
LEMMA RunEndInvariant ==
    ASSUME IInv, pc = "run", NEW seen \in Loads, Loaded(seen),
           NEW outcome \in {"ok", "error"}, End("idle", outcome),
           UNCHANGED <<disk, edition>>
    PROVE  IInv'
<1>1. CacheCoherent'
  BY LoadedCache DEF CacheCoherent, Cached, disk
<1>2. journal = NoJournal
  BY DEF IInv, OpInv
<1>3. QED BY <1>1, <1>2, LoadedCache, EndInvariant

(* A body that has computed what to rewrite the file with. *)
LEMMA PreparedRewrite ==
    ASSUME IInv, NEW kind, Body(kind), NEW seen \in Loads, Loaded(seen),
           NEW recs \in Seq(Rec), PrepareRewrite(recs),
           \/ /\ kind \in {"update", "upsert"}
              /\ \E kept \in Kept(Decode(file), Ids(op.recs)) :
                    recs = kept \o op.recs
           \/ kind = "delete" /\ recs \in Kept(Decode(file), op.ids)
           \/ kind = "import" /\ recs = Decode(file) \o op.recs
           \/ kind = "import" /\ UnreadableReads /\ recs = op.recs
    PROVE  IInv'
<1>1. /\ pc = "run" /\ op.kind = kind /\ pc' = "replace" /\ new' = recs
      /\ UNCHANGED <<file, enc, journal, op, applying, result, edition>>
  BY DEF Body, PrepareRewrite
<1>2. TypeOK'
  BY <1>1, LoadedCache DEF IInv, TypeOK, PC
<1>3. OpInv' /\ JournalInv' /\ AppendInv' /\ ApplyInv'
  BY <1>1 DEF IInv, OpInv, JournalInv, AppendInv, ApplyInv
<1>4. RewriteInv'
  BY <1>1 DEF RewriteInv
<1>5. TornOnlyUnderJournal' /\ CacheCoherent'
  BY <1>1, LoadedCache DEF IInv, TornOnlyUnderJournal, CacheCoherent, Cached
<1>6. QED BY <1>2, <1>3, <1>4, <1>5 DEF IInv

(* A body that is about to journal an append. *)
LEMMA PreparedAppend ==
    ASSUME IInv, NEW kind \in {"add", "upsert"}, Body(kind), file # <<>>,
           NEW c \in {Decode(file), NoCache}, PrepareAppend(c)
    PROVE  IInv'
<1>1. /\ pc = "run" /\ op.kind = kind /\ pc' = "journal" /\ journal = NoJournal
      /\ ready' = TRUE /\ ~applying
      /\ UNCHANGED <<journal, op, new, applying, result, edition>>
  BY DEF Body, PrepareAppend, IInv, OpInv
<1>2. Whole(file) /\ Decode(file) \in Seq(Rec)
  BY <1>1, DecodeType DEF IInv, TypeOK, TornOnlyUnderJournal
<1>3. /\ file' = file
      /\ enc' \in {"utf8", enc}
      /\ cache' \in {Decode(file), NoCache}
      /\ fresh' \in BOOLEAN
      /\ cache' # NoCache => fresh'
  BY <1>2 DEF PrepareAppend, InvalidateCache, Whole
<1>4. TypeOK'
  BY <1>1, <1>2, <1>3 DEF IInv, TypeOK, PC
<1>5. OpInv' /\ JournalInv' /\ AppendInv' /\ ApplyInv' /\ RewriteInv'
  BY <1>1, <1>3 DEF IInv, OpInv, JournalInv, AppendInv, ApplyInv, RewriteInv
<1>6. TornOnlyUnderJournal' /\ CacheCoherent'
  BY <1>1, <1>3 DEF IInv, TornOnlyUnderJournal, CacheCoherent, Cached
<1>7. QED BY <1>4, <1>5, <1>6 DEF IInv

(* The body of add_many preserves the invariant.                           *)
LEMMA RunAddInvariant == ASSUME IInv, RunAdd PROVE IInv'
<1>1. (IF Cached THEN cache ELSE NoCache) \in {Decode(file), NoCache}
  BY DEF IInv, CacheCoherent
<1>2. file # <<>>
  BY DEF RunAdd, Body, IInv, OpInv
<1>3. QED BY <1>1, <1>2, PreparedAppend DEF RunAdd

(* The body of update preserves the invariant.                             *)
LEMMA RunUpdateInvariant == ASSUME IInv, RunUpdate PROVE IInv'
<1>1. PICK seen \in Loads :
         /\ Loaded(seen)
         /\ op.kind = "update"
         /\ IF Ids(op.recs) \subseteq Ids(NonStrict(seen))
            THEN /\ Body("update")
                 /\ \E kept \in Kept(seen, Ids(op.recs)) :
                       PrepareRewrite(kept \o op.recs)
            ELSE Nothing("error")
  BY DEF RunUpdate
<1>2. CASE Ids(op.recs) \subseteq Ids(NonStrict(seen))
  <2>1. op.recs \in Seq(Rec) \ {<<>>}
    BY <1>1, SetsAssumption DEF IInv, OpInv
  <2>2. seen = Decode(file) /\ Decode(file) \in Seq(Rec)
    <3>1. Ids(op.recs) # {} /\ Ids(<<>>) = {}
      <4>1. 1 \in DOMAIN op.recs
        BY <2>1
      <4>2. op.recs[1].id \in Ids(op.recs)
        BY <4>1 DEF Ids, Range
      <4>3. QED BY <4>2 DEF Ids, Range
    <3>2. QED BY <1>2, <3>1, LoadResult DEF NonStrict
  <2>3. PICK kept \in Kept(seen, Ids(op.recs)) :
              PrepareRewrite(kept \o op.recs)
    BY <1>1, <1>2
  <2>4. kept \in Seq(Rec)
    BY <2>2, KeptType
  <2>5. kept \o op.recs \in Seq(Rec)
    BY <2>1, <2>4
  <2>6. Body("update") /\ Loaded(seen)
    BY <1>1, <1>2
  <2>7. QED BY <2>2, <2>3, <2>5, <2>6, PreparedRewrite
<1>3. CASE ~(Ids(op.recs) \subseteq Ids(NonStrict(seen)))
  BY <1>1, <1>3, RunEndInvariant DEF Nothing
<1>4. QED BY <1>2, <1>3

(* The body of upsert_many preserves the invariant.                        *)
LEMMA RunUpsertInvariant == ASSUME IInv, RunUpsert PROVE IInv'
<1>1. PICK seen \in Loads :
        \/ /\ seen = Unreadable
           /\ op.kind = "upsert"
           /\ Nothing("error")
           /\ Loaded(seen)
        \/ /\ seen # Unreadable
           /\ Body("upsert")
           /\ IF Ids(op.recs) \cap Ids(seen) = {} /\ file # <<>>
              THEN PrepareAppend(seen)
              ELSE /\ Loaded(seen)
                   /\ \E kept \in Kept(seen, Ids(op.recs)) :
                         PrepareRewrite(kept \o op.recs)
  BY DEF RunUpsert
<1>2. CASE seen = Unreadable
  BY <1>1, <1>2, RunEndInvariant DEF Nothing
<1>3. CASE seen # Unreadable
  <2>1. seen = Decode(file) /\ Decode(file) \in Seq(Rec) /\ Body("upsert")
    BY <1>1, <1>3, LoadResult
  <2>2. CASE Ids(op.recs) \cap Ids(seen) = {} /\ file # <<>>
    BY <1>1, <1>3, <2>1, <2>2, PreparedAppend
  <2>3. CASE ~(Ids(op.recs) \cap Ids(seen) = {} /\ file # <<>>)
    <3>1. PICK kept \in Kept(seen, Ids(op.recs)) :
                PrepareRewrite(kept \o op.recs)
      BY <1>1, <1>3, <2>3
    <3>2. op.recs \in Seq(Rec)
      BY DEF IInv, TypeOK, Op
    <3>3. kept \o op.recs \in Seq(Rec)
      BY <2>1, <3>2, KeptType, ConcatProperties
    <3>4. Loaded(seen)
      BY <1>1, <1>3, <2>3
    <3>5. QED BY <2>1, <3>1, <3>3, <3>4, PreparedRewrite
  <2>4. QED BY <2>2, <2>3
<1>4. QED BY <1>2, <1>3

(* The body of delete_many preserves the invariant.                        *)
LEMMA RunDeleteInvariant == ASSUME IInv, RunDelete PROVE IInv'
<1>1. PICK seen \in Loads :
        /\ Loaded(seen)
        /\ op.kind = "delete"
        /\ IF op.ids \cap Ids(NonStrict(seen)) # {}
           THEN /\ Body("delete")
                /\ \E kept \in Kept(seen, op.ids) : PrepareRewrite(kept)
           ELSE Nothing("ok")
  BY DEF RunDelete
<1>2. CASE op.ids \cap Ids(NonStrict(seen)) # {}
  <2>1. seen = Decode(file) /\ Decode(file) \in Seq(Rec)
    <3>1. Ids(<<>>) = {}
      BY DEF Ids, Range
    <3>2. QED BY <1>2, <3>1, LoadResult DEF NonStrict
  <2>2. PICK kept \in Kept(seen, op.ids) : PrepareRewrite(kept)
    BY <1>1, <1>2
  <2>3. kept \in Seq(Rec)
    BY <2>1, KeptType
  <2>4. Body("delete") /\ Loaded(seen)
    BY <1>1, <1>2
  <2>5. QED BY <2>1, <2>2, <2>3, <2>4, PreparedRewrite
<1>3. CASE op.ids \cap Ids(NonStrict(seen)) = {}
  BY <1>1, <1>3, RunEndInvariant DEF Nothing
<1>4. QED BY <1>2, <1>3

(* The body of import_many preserves the invariant.                        *)
LEMMA RunImportInvariant == ASSUME IInv, RunImport PROVE IInv'
<1>1. PICK seen \in Loads :
        /\ Loaded(seen)
        /\ Body("import")
        /\ PrepareRewrite(NonStrict(seen) \o op.recs)
  BY DEF RunImport
<1>2. op.recs \in Seq(Rec)
  BY DEF IInv, TypeOK, Op
<1>3. CASE seen = Unreadable
  <2>1. NonStrict(seen) \o op.recs = op.recs
    BY <1>2, <1>3, ConcatEmptySeq DEF NonStrict
  <2>2. UnreadableReads
    BY <1>3, LoadResult, MarkersAssumption
  <2>3. QED BY <1>1, <1>2, <2>1, <2>2, PreparedRewrite
<1>4. CASE seen # Unreadable
  <2>1. NonStrict(seen) = Decode(file) /\ Decode(file) \in Seq(Rec)
    BY <1>4, LoadResult DEF NonStrict
  <2>2. Decode(file) \o op.recs \in Seq(Rec)
    BY <1>2, <2>1, ConcatProperties
  <2>3. QED BY <1>1, <2>1, <2>2, PreparedRewrite
<1>5. QED BY <1>3, <1>4

(* The journal just written stands on the whole file. *)
LEMMA WriteJournalEffect ==
    ASSUME IInv, WriteJournal
    PROVE  /\ journal = NoJournal /\ file \in Seq(Cell) /\ Whole(file)
           /\ file # <<>> /\ op.recs \in Batches /\ op.recs \in Seq(Rec)
           /\ journal' = [size |-> Len(file), recs |-> op.recs]
           /\ Len(file) \in Nat \ {0} /\ Len(file) % 2 = 0
           /\ UNCHANGED <<file, enc, op, new, cache, fresh, ready, result, edition>>
           /\ Recoverable' /\ Base' = file /\ journal' # NoJournal
<1>1. /\ journal = NoJournal /\ file \in Seq(Cell) /\ Whole(file)
      /\ file # <<>> /\ op.recs \in Batches /\ op.recs \in Seq(Rec)
  BY DEF WriteJournal, IInv, TypeOK, Op, OpInv, ApplyInv, TornOnlyUnderJournal
<1>2. /\ journal' = [size |-> Len(file), recs |-> op.recs]
      /\ UNCHANGED <<file, enc, op, new, cache, fresh, ready, result, edition>>
  BY DEF WriteJournal, memory
<1>3. Len(file) \in Nat \ {0} /\ Len(file) % 2 = 0
  <2>1. Len(Decode(file)) \in Nat
    BY <1>1, DecodeType
  <2>2. Len(file) = 2 * Len(Decode(file))
    BY <1>1, WholeLength
  <2>3. Len(file) \in Nat \ {0}
    BY <1>1
  <2>4. (2 * Len(Decode(file))) % 2 = 0
    BY <2>1
  <2>5. QED BY <2>2, <2>3, <2>4
<1>4. Base' = file
  BY <1>1, <1>2, SubSeqFull DEF Base
<1>5. FileTail' = <<>>
  BY <1>1, <1>2, SubSeqEmpty DEF FileTail
<1>6. Payload' \in Seq(Cell)
  BY <1>1, <1>2, EncodeType DEF Payload
<1>7. IsPrefix(<<>>, Payload')
  BY <1>6 DEF IsPrefix
<1>8. Recoverable'
  BY <1>1, <1>2, <1>3, <1>5, <1>7 DEF Recoverable
<1>9. journal' # NoJournal
  BY <1>1, <1>2, <1>3, MarkersAssumption
<1>10. QED BY <1>1, <1>2, <1>3, <1>4, <1>8, <1>9

(* Writing the append journal preserves the invariant.                     *)
LEMMA WriteJournalInvariant == ASSUME IInv, WriteJournal PROVE IInv'
<1>1. pc = "journal" /\ applying' = TRUE /\ pc' = "recover"
  BY DEF WriteJournal
<1>2. TypeOK'
  BY <1>1, WriteJournalEffect DEF IInv, TypeOK, PC
<1>3. OpInv' /\ AppendInv' /\ RewriteInv' /\ TornOnlyUnderJournal'
  BY <1>1, WriteJournalEffect DEF IInv, OpInv, AppendInv, RewriteInv,
     TornOnlyUnderJournal
<1>4. JournalInv'
  BY <1>1, WriteJournalEffect DEF JournalInv
<1>5. ApplyInv'
  <2>1. cache # NoCache => cache = Decode(file)
    BY <1>1 DEF IInv, ApplyInv, CacheCoherent, Cached
  <2>2. QED BY <1>1, <2>1, WriteJournalEffect DEF IInv, ApplyInv
<1>6. CacheCoherent'
  BY WriteJournalEffect DEF IInv, CacheCoherent, Cached
<1>7. QED BY <1>2, <1>3, <1>4, <1>5, <1>6 DEF IInv

(* Putting a rewritten file in place preserves the invariant               *)
(* (_write_file).                                                          *)
LEMMA ReplaceInvariant == ASSUME IInv, Replace PROVE IInv'
<1>1. /\ file' = Encode(new) /\ enc' \in {enc, "utf8"} /\ journal' = NoJournal
      /\ cache' = NoCache /\ fresh' = FALSE /\ ready' \in BOOLEAN
      /\ edition' = edition
      /\ new \in Seq(Rec)
  BY DEF Replace, InvalidateCache, IInv, TypeOK
<1>2. PICK outcome \in {"ok", "error"} : End("idle", outcome)
  BY DEF Replace
<1>3. TypeOK'
  BY <1>1, <1>2, EndType, EncodeType DEF IInv, TypeOK, PC
<1>4. pc' = "idle" /\ op' = NoOp /\ ~applying'
  BY <1>2 DEF End
<1>5. OpInv' /\ JournalInv' /\ AppendInv' /\ ApplyInv' /\ RewriteInv'
  BY <1>1, <1>4, NoOpKind DEF OpInv, JournalInv, AppendInv, ApplyInv, RewriteInv
<1>6. TornOnlyUnderJournal' /\ CacheCoherent'
  BY <1>1, WholeEncode DEF TornOnlyUnderJournal, CacheCoherent, Cached
<1>7. QED BY <1>3, <1>5, <1>6 DEF IInv

(* Refusing a contradictory journal preserves the invariant.               *)
LEMMA RefuseInvariant == ASSUME IInv, RecoverRefuse PROVE IInv'
<1>1. op.kind = "open"
  BY DEF RecoverRefuse, IInv, JournalInv
<1>2. CacheCoherent'
  BY DEF RecoverRefuse, disk, memory, IInv, CacheCoherent, Cached
<1>3. QED
  BY <1>1, <1>2, EndInvariant DEF RecoverRefuse, Raise, memory, IInv, TypeOK

(* A write error at any step preserves the invariant.                      *)
LEMMA IOErrorInvariant == ASSUME IInv, IOError PROVE IInv'
<1>1. PICK where \in {"idle", "down"} :
         End(where, "error") /\ (where = "idle" => op.kind # "open")
  BY DEF IOError, Raise
<1>2. UNCHANGED <<disk, ready, edition>> /\ pc # "down"
  BY DEF IOError
<1>3. where = "idle" => (journal # NoJournal => Recoverable)
  BY <1>1, <1>2 DEF IInv, JournalInv
<1>4. CacheCoherent' /\ cache' \in Seq(Rec) \cup {NoCache}
        /\ fresh' \in BOOLEAN
  BY DEF IOError, InvalidateCache, disk, IInv, TypeOK, CacheCoherent, Cached
<1>5. QED BY <1>1, <1>2, <1>3, <1>4, EndInvariant DEF IInv, TypeOK

(* A crash at any step preserves the invariant.                            *)
LEMMA CrashInvariant == ASSUME IInv, Crash PROVE IInv'
<1>1. CacheCoherent'
  BY DEF Crash, InvalidateCache, CacheCoherent, Cached
<1>2. QED BY <1>1, EndInvariant DEF Crash, InvalidateCache

(* Another program replacing the file preserves the invariant.             *)
LEMMA ForeignInvariant == ASSUME IInv, Foreign PROVE IInv'
<1>1. PICK recs \in ForeignLogs : file' = Encode(recs)
  BY DEF Foreign
<1>2. recs \in Seq(Rec)
  BY SetsAssumption
<1>3. /\ pc \in {"down", "idle"} /\ (pc = "idle" => journal = NoJournal)
      /\ enc' \in {"utf8", "latin1"} /\ edition' = edition + 1
      /\ fresh' = FALSE
      /\ UNCHANGED <<journal, pc, op, applying, new, cache, ready, result>>
      /\ op.kind = "none" /\ ~applying
  BY SetsAssumption, NoOpKind DEF Foreign, IInv, OpInv
<1>4. /\ file' \in Seq(Cell) /\ Whole(file')
  BY <1>1, <1>2, EncodeType, WholeEncode
<1>5. TypeOK'
  <2>1. edition \in Nat
    BY DEF IInv, TypeOK
  <2>2. edition' \in Nat
    BY <1>3, <2>1
  <2>3. enc' \in {"utf8", "latin1", "mixed"} /\ fresh' \in BOOLEAN
    BY <1>3
  <2>4. QED BY <1>3, <1>4, <2>2, <2>3 DEF IInv, TypeOK
<1>6. OpInv' /\ AppendInv' /\ ApplyInv' /\ RewriteInv' /\ TornOnlyUnderJournal'
         /\ CacheCoherent'
  BY <1>3, <1>4 DEF IInv, OpInv, AppendInv, ApplyInv, RewriteInv,
     TornOnlyUnderJournal, CacheCoherent, Cached
<1>7. JournalInv'
  <2> SUFFICES ASSUME journal # NoJournal
               PROVE  /\ journal.recs \in Batches
                      /\ journal.size > 0 /\ journal.size % 2 = 0
                      /\ Recoverable' => Whole(Base')
                      /\ edition' # 0
                      /\ pc' = "down"
    BY <1>3 DEF JournalInv
  <2>1. journal.recs \in Batches /\ journal.size > 0 /\ journal.size % 2 = 0
        /\ journal.size \in Nat /\ edition \in Nat
    BY DEF IInv, JournalInv, TypeOK
  <2>2. ASSUME Recoverable' PROVE Whole(Base')
    <3>1. journal.size <= Len(file')
      BY <1>3, <1>4, <2>1, <2>2 DEF Recoverable
    <3>2. Whole(SubSeq(file', 1, journal.size))
      BY <1>4, <2>1, <3>1, WholePrefix
    <3>3. QED BY <1>3, <3>2 DEF Base
  <2>3. QED BY <1>3, <2>1, <2>2
<1>8. QED BY <1>5, <1>6, <1>7 DEF IInv

(* Constructing the store preserves the invariant.                         *)
LEMMA OpenInvariant == ASSUME IInv, Open PROVE IInv'
<1>1. /\ pc = "down" /\ pc' = "recover" /\ ~applying
      /\ op' = [kind |-> "open", recs |-> <<>>, ids |-> {}]
      /\ result' = "none"
      /\ UNCHANGED <<file, enc, journal, applying, new, cache, fresh, ready, edition>>
  BY DEF Open, NoOp, disk, memory, IInv, OpInv
<1>2. TypeOK'
  <2>1. <<>> \in Seq(Rec)
    OBVIOUS
  <2>2. op' \in Op
    BY <1>1, <2>1 DEF Op
  <2>3. QED BY <1>1, <2>2 DEF IInv, TypeOK, PC
<1>3. OpInv' /\ AppendInv' /\ ApplyInv' /\ RewriteInv' /\ TornOnlyUnderJournal'
         /\ CacheCoherent'
  BY <1>1 DEF IInv, OpInv, AppendInv, ApplyInv, RewriteInv,
     TornOnlyUnderJournal, CacheCoherent, Cached
<1>4. JournalInv'
  BY <1>1, Frame DEF IInv, JournalInv
<1>5. QED BY <1>2, <1>3, <1>4 DEF IInv

(* Starting any operation preserves the invariant.                         *)
LEMMA StartInvariant == ASSUME IInv, Start PROVE IInv'
<1>1. CASE BeginScan
  <2>1. <<>> \in Seq(Rec)
    OBVIOUS
  <2>2. Begin("scan", <<>>, {}) /\ pc' = "recover" /\ UNCHANGED new
    BY <1>1 DEF BeginScan
  <2>3. PICK recs \in Seq(Rec), ids \in SUBSET Identities :
              Begin("scan", recs, ids)
    BY <2>1, <2>2
  <2>4. QED BY <2>2, <2>3, BeginInvariant
<1>2. CASE BeginAdd
  BY <1>2, BeginInvariant, SetsAssumption DEF BeginAdd
<1>3. CASE BeginUpdate
  BY <1>3, BeginInvariant, SetsAssumption DEF BeginUpdate
<1>4. CASE BeginUpsert
  BY <1>4, BeginInvariant, SetsAssumption DEF BeginUpsert
<1>5. CASE BeginDelete
  <2>1. <<>> \in Seq(Rec)
    OBVIOUS
  <2>2. QED BY <1>5, <2>1, BeginInvariant DEF BeginDelete
<1>6. CASE BeginImport
  BY <1>6, BeginInvariant, SetsAssumption DEF BeginImport
<1>7. QED BY <1>1, <1>2, <1>3, <1>4, <1>5, <1>6 DEF Start

(* A step that changes nothing preserves the invariant.                    *)
LEMMA StutterInvariant == ASSUME IInv, UNCHANGED vars PROVE IInv'
<1>1. UNCHANGED <<file, enc, journal, pc, op, applying, new, cache, fresh, ready,
                  result, edition>>
  BY DEF vars, disk, memory
<1>2. TypeOK' /\ OpInv' /\ RewriteInv' /\ TornOnlyUnderJournal'
        /\ CacheCoherent'
  BY <1>1 DEF IInv, TypeOK, OpInv, RewriteInv, TornOnlyUnderJournal,
     CacheCoherent, Cached
<1>3. JournalInv' /\ AppendInv' /\ ApplyInv'
  BY <1>1, Frame DEF IInv, JournalInv, AppendInv, ApplyInv
<1>4. QED BY <1>2, <1>3 DEF IInv

(* Every step preserves the invariant.                                     *)
LEMMA NextInvariant == ASSUME IInv, [Next]_vars PROVE IInv'
<1>1. CASE Recover
  <2>1. CASE RecoverDone
    BY <2>1, RecoveredInvariant DEF RecoverDone
  <2>2. CASE Verified
    <3>1. journal # NoJournal /\ Recoverable
      BY <2>2 DEF Verified, IInv, AppendInv
    <3>2. QED BY <2>2, <3>1, RecoveredInvariant DEF Verified
  <2>3. QED
    BY <1>1, <2>1, <2>2, RecoverNothingInvariant, RefuseInvariant,
       RecoverTruncateInvariant, AppendPayloadInvariant DEF Recover
<1>2. CASE Run
  <2>1. CASE RunScan
    BY <2>1, RunEndInvariant DEF RunScan
  <2>2. QED
    BY <1>2, <2>1, RunAddInvariant, RunUpdateInvariant, RunUpsertInvariant,
       RunDeleteInvariant, RunImportInvariant, WriteJournalInvariant,
       ReplaceInvariant DEF Run
<1>3. QED
  BY <1>1, <1>2, OpenInvariant, StartInvariant, IOErrorInvariant,
     CrashInvariant, ForeignInvariant, StutterInvariant DEF Next

(* IInv is inductive: it holds in every reachable state, for every set of  *)
(* records, batches and foreign files.                                     *)
THEOREM Invariance == Spec => []IInv
BY InitInvariant, NextInvariant, PTL DEF Spec

(* Every variable keeps its type, whatever crashes, errors and foreign     *)
(* files happen.                                                           *)
THEOREM TypeCorrect == Spec => []TypeOK
<1>1. IInv => TypeOK
  BY DEF IInv
<1>2. QED BY <1>1, Invariance, PTL

(* A half-written record is never in the file without the journal that can *)
(* complete it.                                                            *)
THEOREM NoTornRecords == Spec => []TornOnlyUnderJournal
<1>1. IInv => TornOnlyUnderJournal
  BY DEF IInv
<1>2. QED BY <1>1, Invariance, PTL

(* Without foreign writes the RuntimeErrors of _recover_pending_append are *)
(* out of reach.                                                           *)
THEOREM AppendRecoverable == Spec => []PendingAppendRecoverable
<1>1. IInv => PendingAppendRecoverable
  BY DEF IInv, JournalInv, PendingAppendRecoverable
<1>2. QED BY <1>1, Invariance, PTL

(* Records answered from the cache are always those of the file.           *)
THEOREM CacheIsCoherent == Spec => []CacheCoherent
<1>1. IInv => CacheCoherent
  BY DEF IInv
<1>2. QED BY <1>1, Invariance, PTL

-----------------------------------------------------------------------------
(* What the log does is what module DurableLog promises. *)

SameContent == Content' = Content /\ edition' = edition

(* Steps that leave the disk alone leave the abstract log alone.           *)
LEMMA SameDisk == ASSUME UNCHANGED <<disk, edition>> PROVE SameContent
BY Frame DEF disk, SameContent

(* Removing the journal of a completed append does not change what the     *)
(* logbook stands for.                                                     *)
LEMMA RecoveredContent ==
    ASSUME IInv, journal # NoJournal, Recoverable, FileTail = Payload,
           journal' = NoJournal, UNCHANGED <<file, edition>>
    PROVE  SameContent
<1>1. Content = Decode(Base) \o journal.recs /\ Content' = Decode(file)
  BY DEF Content
<1>2. QED BY <1>1, CompletedAppend DEF SameContent

(* Cutting off a torn payload does not change it either.                   *)
LEMMA TruncatedContent == ASSUME IInv, RecoverTruncate PROVE SameContent
<1>1. journal # NoJournal /\ Recoverable /\ UNCHANGED <<journal, edition>>
        /\ file' = Base
  BY DEF RecoverTruncate
<1>2. IInv'
  BY RecoverTruncateInvariant
<1>3. Recoverable' /\ pc' = "append"
  BY <1>2 DEF RecoverTruncate, IInv, AppendInv
<1>4. Base' = Base
  <2>1. Base \in Seq(Cell) /\ Len(Base) = journal.size
    BY <1>1, PartsType DEF IInv
  <2>2. SubSeq(Base, 1, journal.size) = Base
    BY <2>1, SubSeqFull
  <2>3. QED BY <1>1, <2>2 DEF Base
<1>5. QED BY <1>1, <1>3, <1>4 DEF Content, SameContent

(* Nor does normalising a Latin-1 file before its first append.            *)
LEMMA PreparedContent ==
    ASSUME IInv, NEW kind, Body(kind), NEW c, PrepareAppend(c)
    PROVE  SameContent
<1>1. journal = NoJournal /\ UNCHANGED <<journal, edition>> /\ Whole(file)
  BY DEF Body, IInv, OpInv, TornOnlyUnderJournal
<1>2. file' = file
  BY <1>1 DEF PrepareAppend, Whole
<1>3. QED BY <1>1, <1>2, Frame DEF SameContent

(* Nor does writing the temporary file of a rewrite.                       *)
LEMMA RewriteContent ==
    ASSUME NEW kind, Body(kind), NEW recs, PrepareRewrite(recs)
    PROVE  SameContent
BY Frame DEF Body, PrepareRewrite, SameContent

(* Nor does writing any further part of the payload.                       *)
LEMMA AppendedContent == ASSUME IInv, AppendPayload PROVE SameContent
<1>1. /\ journal # NoJournal /\ Recoverable
      /\ UNCHANGED <<journal, edition>>
  BY DEF AppendPayload, IInv, AppendInv
<1>2. PICK n \in (Len(FileTail) + 1)..Len(Payload) :
         /\ file' = Base \o SubSeq(Payload, 1, n)
         /\ pc' = IF n = Len(Payload) THEN "written" ELSE "append"
  BY DEF AppendPayload
<1>3. Recoverable'
  <2>1. IInv'
    BY AppendPayloadInvariant
  <2>2. pc' \in {"append", "written"}
    BY <1>2
  <2>3. QED BY <2>1, <2>2 DEF IInv, AppendInv
<1>4. Base' = Base
  <2> DEFINE f == Base \o SubSeq(Payload, 1, n)
  <2>1. /\ Base \in Seq(Cell) /\ Len(Base) = journal.size
        /\ Payload \in Seq(Cell)
        /\ FileTail \in Seq(Cell)
    BY <1>1, PartsType DEF IInv
  <2>2. n \in 0..Len(Payload)
    BY <2>1
  <2>3. SubSeq(f, 1, Len(Base)) = Base
    BY <2>1, <2>2, AppendedPrefix
  <2>4. QED BY <1>1, <1>2, <2>1, <2>3 DEF Base
<1>5. QED BY <1>1, <1>3, <1>4 DEF Content, SameContent

(* An append takes effect when its journal is in place.                    *)
LEMMA WriteJournalStep == ASSUME IInv, WriteJournal PROVE Durable!Next
<1>1. /\ journal = NoJournal /\ op.recs \in Batches /\ journal' # NoJournal
      /\ journal' = [size |-> Len(file), recs |-> op.recs]
      /\ Recoverable' /\ Base' = file /\ edition' = edition
  BY WriteJournalEffect
<1>2. Content' = Content \o op.recs
  BY <1>1 DEF Content
<1>3. Durable!Add(op.recs)
  BY <1>1, <1>2 DEF Durable!Add
<1>4. QED BY <1>1, <1>3 DEF Durable!Next

(* The rewriting operations filter as the abstract specification does.     *)
LEMMA KeptIsWithout ==
    ASSUME NEW recs, NEW ids
    PROVE  Kept(recs, ids) = Durable!Without(recs, ids)
<1> DEFINE places == {i \in DOMAIN recs : recs[i].id \notin ids}
<1>1. Durable!Cardinality(places) = Cardinality(places)
  BY DEF Cardinality, Durable!Cardinality
<1> HIDE DEF places
<1>2. QED BY <1>1, Zenon DEF Kept, Durable!Without, places

(* A rewrite takes effect when the temporary file replaces the log.        *)
LEMMA ReplaceStep == ASSUME IInv, Replace PROVE Durable!Next
<1>1. /\ pc = "replace" /\ journal = NoJournal /\ journal' = NoJournal
      /\ file' = Encode(new) /\ new \in Seq(Rec) /\ edition' = edition
  BY DEF Replace, IInv, TypeOK, OpInv
<1>2. Content = Decode(file) /\ Content' = new
  BY <1>1, DecodeEncode DEF Content
<1>3. op.recs \in Seq(Rec) /\ op.ids \in SUBSET Identities
  BY DEF IInv, TypeOK, Op
<1>4. op.kind \in {"add", "update", "upsert", "import"} => op.recs \in Batches
  BY DEF IInv, OpInv
<1>5. CASE op.kind = "add" /\ file = <<>> /\ new = op.recs
  <2>1. Decode(<<>>) = <<>>
    BY DEF Decode
  <2>2. Content' = Content \o op.recs
    BY <1>2, <1>3, <1>5, <2>1, ConcatEmptySeq
  <2>3. Durable!Add(op.recs)
    BY <1>1, <2>2 DEF Durable!Add
  <2>4. QED BY <1>4, <1>5, <2>3 DEF Durable!Next
<1>6. CASE /\ op.kind \in {"update", "upsert"}
           /\ \E kept \in Kept(Decode(file), Ids(op.recs)) :
                 new = kept \o op.recs
  <2>1. PICK kept \in Kept(Decode(file), Ids(op.recs)) : new = kept \o op.recs
    BY <1>6
  <2>2. Ids(op.recs) = Durable!Ids(op.recs)
    BY DEF Ids, Durable!Ids, Range, Durable!Range
  <2>3. kept \in Durable!Without(Content, Durable!Ids(op.recs))
    BY <1>2, <2>1, <2>2, KeptIsWithout
  <2>4. Durable!Upsert(op.recs)
    BY <1>1, <1>2, <2>1, <2>3 DEF Durable!Upsert
  <2>5. QED BY <1>4, <1>6, <2>4 DEF Durable!Next
<1>7. CASE op.kind = "delete" /\ new \in Kept(Decode(file), op.ids)
  <2>1. new \in Durable!Without(Content, op.ids)
    BY <1>2, <1>7, KeptIsWithout
  <2>2. Durable!Delete(op.ids)
    BY <1>1, <1>2, <2>1 DEF Durable!Delete
  <2>3. QED BY <1>3, <2>2 DEF Durable!Next
<1>8. CASE op.kind = "import" /\ new = Decode(file) \o op.recs
  <2>1. Durable!Add(op.recs)
    BY <1>1, <1>2, <1>8 DEF Durable!Add
  <2>2. QED BY <1>4, <1>8, <2>1 DEF Durable!Next
<1>9. CASE op.kind = "import" /\ UnreadableReads /\ new = op.recs
  <2>1. Durable!ImportOverUnreadable(op.recs)
    BY <1>1, <1>2, <1>9 DEF Durable!ImportOverUnreadable
  <2>2. QED BY <1>4, <1>9, <2>1 DEF Durable!Next
<1>10. QED
  BY <1>1, <1>5, <1>6, <1>7, <1>8, <1>9 DEF IInv, RewriteInv

(* A foreign file takes effect as it is, or completed by the append that   *)
(* was pending.                                                            *)
LEMMA ForeignStep == ASSUME IInv, Foreign PROVE Durable!Next
<1>1. PICK recs \in ForeignLogs : file' = Encode(recs)
  BY DEF Foreign
<1>2. edition' = edition + 1 /\ journal' = journal /\ recs \in Seq(Rec)
  BY SetsAssumption DEF Foreign
<1>3. \E c \in ForeignContents : Content' = c
  <2>1. CASE journal = NoJournal \/ ~Recoverable'
    BY <1>1, <1>2, <2>1, DecodeEncode DEF Content, ForeignContents
  <2>2. CASE journal # NoJournal /\ Recoverable'
    <3>1. /\ journal.recs \in Batches /\ journal.size \in Nat
          /\ journal.size % 2 = 0
      BY <2>2 DEF IInv, TypeOK, JournalInv
    <3>2. Encode(recs) \in Seq(Cell) /\ Len(Encode(recs)) = 2 * Len(recs)
      BY <1>2, EncodeType
    <3>3. journal.size <= 2 * Len(recs)
      BY <1>1, <1>2, <2>2, <3>1, <3>2 DEF Recoverable
    <3> DEFINE m == journal.size \div 2
    <3>4. m \in 0..Len(recs) /\ journal.size = 2 * m
      BY <1>2, <3>1, <3>3
    <3> HIDE DEF m
    <3>5. SubSeq(Encode(recs), 1, journal.size) = Encode(SubSeq(recs, 1, m))
      BY <1>2, <3>4, EncodePrefix
    <3>6. Base' = Encode(SubSeq(recs, 1, m))
      BY <1>1, <1>2, <3>5 DEF Base
    <3>7. SubSeq(recs, 1, m) \in Seq(Rec)
      BY <1>2, <3>4
    <3>8. Decode(Base') = SubSeq(recs, 1, m)
      BY <3>6, <3>7, DecodeEncode
    <3>9. Content' = SubSeq(recs, 1, m) \o journal.recs
      BY <1>2, <2>2, <3>8 DEF Content
    <3>10. <<recs, m, journal.recs>> \in {recs} \X (0..Len(recs)) \X Batches
      BY <3>1, <3>4
    <3>11. <<recs, m, journal.recs>> \in UNION {{l} \X (0..Len(l)) \X Batches : l \in ForeignLogs}
      BY <1>1, <3>10
    <3> DEFINE f == <<recs, m, journal.recs>>
    <3>12. f \in UNION {{l} \X (0..Len(l)) \X Batches : l \in ForeignLogs}
      BY <3>11
    <3>13. SubSeq(f[1], 1, f[2]) \o f[3] \in ForeignContents
      BY <3>12, Zenon DEF ForeignContents
    <3>14. SubSeq(f[1], 1, f[2]) \o f[3] = Content'
      BY <3>9
    <3>15. QED BY <3>13, <3>14
  <2>3. QED BY <2>1, <2>2
<1>4. \E c \in ForeignContents : Durable!Foreign(c)
  BY <1>2, <1>3 DEF Durable!Foreign
<1>5. QED BY <1>4 DEF Durable!Next

(* All other steps leave what the logbook stands for as it is.             *)
LEMMA OtherSteps ==
    ASSUME IInv, [Next]_vars, ~WriteJournal, ~Replace, ~Foreign
    PROVE  SameContent
<1>1. CASE Open
  BY <1>1, SameDisk DEF Open
<1>2. CASE Start
  BY <1>2, SameDisk DEF Start, BeginScan, BeginAdd, BeginUpdate, BeginUpsert,
     BeginDelete, BeginImport, Begin
<1>3. CASE Recover
  <2>1. CASE RecoverNothing \/ RecoverRefuse
    BY <2>1, SameDisk DEF RecoverNothing, RecoverRefuse
  <2>2. CASE RecoverDone
    BY <2>2, RecoveredContent DEF RecoverDone
  <2>3. CASE Verified
    BY <2>3, RecoveredContent DEF Verified, IInv, AppendInv
  <2>4. QED
    BY <1>3, <2>1, <2>2, <2>3, TruncatedContent, AppendedContent DEF Recover
<1>4. CASE Run
  <2>1. CASE RunScan
    BY <2>1, SameDisk DEF RunScan
  <2>2. CASE RunAdd
    BY <2>2, PreparedContent DEF RunAdd
  <2>3. CASE RunUpdate
    BY <2>3, SameDisk, RewriteContent DEF RunUpdate, Nothing
  <2>4. CASE RunUpsert
    BY <2>4, SameDisk, PreparedContent, RewriteContent DEF RunUpsert, Nothing
  <2>5. CASE RunDelete
    BY <2>5, SameDisk, RewriteContent DEF RunDelete, Nothing
  <2>6. CASE RunImport
    BY <2>6, RewriteContent DEF RunImport
  <2>7. QED
    BY <1>4, <2>1, <2>2, <2>3, <2>4, <2>5, <2>6 DEF Run
<1>5. CASE IOError \/ Crash
  BY <1>5, SameDisk DEF IOError, Crash
<1>6. CASE UNCHANGED vars
  BY <1>6, SameDisk DEF vars
<1>7. QED BY <1>1, <1>2, <1>3, <1>4, <1>5, <1>6 DEF Next

(* Every step of the store is a step of the durable log, or none.          *)
LEMMA RefinementStep ==
    ASSUME IInv, [Next]_vars
    PROVE  [Durable!Next]_(Durable!vars)
<1>1. CASE WriteJournal \/ Replace \/ Foreign
  BY <1>1, WriteJournalStep, ReplaceStep, ForeignStep
<1>2. CASE ~(WriteJournal \/ Replace \/ Foreign)
  BY <1>2, OtherSteps DEF SameContent, Durable!vars
<1>3. QED BY <1>1, <1>2

(* A logbook that is found stands for its records.                         *)
LEMMA RefinementInit == Init => Durable!Init
<1> SUFFICES ASSUME Init PROVE Durable!Init
  OBVIOUS
<1>1. PICK recs \in InitialLogs : file = Encode(recs)
  BY DEF Init
<1>2. recs \in Seq(Rec)
  BY SetsAssumption
<1>3. Content = recs
  BY <1>1, <1>2, DecodeEncode DEF Init, Content
<1>4. QED BY <1>1, <1>3 DEF Init, Durable!Init

(* The store implements the durable log: each operation takes effect in    *)
(* one indivisible step or not at all.                                     *)
THEOREM Refinement == Spec => ImplementsDurableLog
<1>1. Init => Durable!Init
  BY RefinementInit
<1>2. IInv /\ [Next]_vars => [Durable!Next]_(Durable!vars)
  BY RefinementStep
<1>3. QED
  BY <1>1, <1>2, Invariance, PTL DEF Spec, ImplementsDurableLog, Durable!Spec

(* A step that takes an operation to the point where it is about to add    *)
(* records either found it there already or looked at their identities     *)
(* (add_many and import_adif give new ones, upsert_many compares).         *)
LEMMA NewIdentities ==
    ASSUME IInv, [Next]_vars, ~WriteJournal, ~Replace, ~Foreign, Adds'
    PROVE  (Adds /\ op' = op) \/ Ids(op'.recs) \cap Ids(Content) = {}
<1>1. op' # NoOp
  BY NoOpKind DEF Adds
<1>2. ~Open /\ ~RecoverRefuse /\ ~RunScan /\ ~IOError /\ ~Crash
  BY <1>1 DEF Adds, Open, NoOp, RecoverRefuse, RunScan, IOError, Crash, Raise, End
<1>3. CASE Start
  <2>1. BeginAdd \/ BeginImport
    BY <1>3 DEF Adds, Start, BeginScan, BeginUpdate, BeginUpsert, BeginDelete, Begin
  <2>2. PICK recs \in Batches : Ids(recs) \cap Ids(Content) = {} /\ op'.recs = recs
    BY <2>1 DEF BeginAdd, BeginImport, Begin
  <2>3. QED BY <2>2
<1>4. CASE Recover
  <2>1. op' = op /\ applying' = applying /\ pc' \in {"run", "append", "written"}
    BY <1>1, <1>2, <1>4 DEF Recover, RecoverNothing, RecoverDone, RecoverTruncate,
       AppendPayload, Verified, AfterRecovery, End
  <2>2. QED BY <2>1 DEF Adds
<1>5. CASE Run
  <2>1. CASE RunAdd \/ RunImport
    BY <2>1 DEF RunAdd, RunImport, Body, PrepareAppend, PrepareRewrite, Adds
  <2>2. CASE RunUpdate \/ RunDelete
    BY <1>1, <2>2 DEF RunUpdate, RunDelete, Nothing, End, PrepareRewrite, Adds
  <2>3. CASE RunUpsert
    <3>1. PICK seen \in Loads :
            /\ seen # Unreadable
            /\ Body("upsert")
            /\ IF Ids(op.recs) \cap Ids(seen) = {} /\ file # <<>>
               THEN PrepareAppend(seen)
               ELSE \E kept \in Kept(seen, Ids(op.recs)) :
                       PrepareRewrite(kept \o op.recs)
      BY <1>1, <2>3 DEF RunUpsert, Nothing, End
    <3>2. op' = op /\ op.kind = "upsert" /\ journal = NoJournal
      BY <3>1 DEF Body, PrepareAppend, PrepareRewrite, IInv, OpInv
    <3>3. pc' = "journal"
      BY <3>2 DEF Adds
    <3>4. Ids(op.recs) \cap Ids(seen) = {}
      BY <3>1, <3>3 DEF PrepareRewrite
    <3>5. seen = Content
      BY <3>1, <3>2, LoadResult DEF Content
    <3>6. QED BY <3>2, <3>4, <3>5
  <2>4. QED BY <1>2, <1>5, <2>1, <2>2, <2>3 DEF Run
<1>6. CASE UNCHANGED vars
  BY <1>6 DEF vars, Adds
<1>7. QED BY <1>2, <1>3, <1>4, <1>5, <1>6 DEF Next

(* What a rewrite puts in place has no identity twice.                     *)
LEMMA RewriteDistinct ==
    ASSUME IInv, IdentityInv, edition = 0, pc = "replace"
    PROVE  Distinct(new)
<1>1. /\ Content = Decode(file) /\ Decode(file) \in Seq(Rec) /\ Distinct(Decode(file))
      /\ op.recs \in Seq(Rec) /\ ~applying
  BY DecodeType DEF IInv, TypeOK, Op, OpInv, Content, IdentityInv, UniqueIds
<1>2. op.kind \in {"add", "update", "upsert", "import"} => Distinct(op.recs)
  BY DistinctAssumption DEF IInv, OpInv
<1>3. CASE op.kind \in {"add", "import"} /\ new = op.recs
  BY <1>2, <1>3
<1>4. CASE /\ op.kind \in {"update", "upsert"}
           /\ \E kept \in Kept(Decode(file), Ids(op.recs)) : new = kept \o op.recs
  <2>1. PICK kept \in Kept(Decode(file), Ids(op.recs)) : new = kept \o op.recs
    BY <1>4
  <2>2. kept \in Seq(Rec) /\ Distinct(kept) /\ Ids(kept) \cap Ids(op.recs) = {}
    BY <1>1, KeptType, KeptDistinct
  <2>3. Ids(op.recs) \cap Ids(kept) = {} /\ Distinct(op.recs)
    BY <1>2, <1>4, <2>2
  <2>4. QED BY <1>1, <2>1, <2>2, <2>3, ConcatDistinct
<1>5. CASE op.kind = "delete" /\ new \in Kept(Decode(file), op.ids)
  BY <1>1, <1>5, KeptDistinct
<1>6. CASE op.kind = "import" /\ new = Decode(file) \o op.recs
  <2>1. Ids(op.recs) \cap Ids(Decode(file)) = {}
    BY <1>1, <1>6 DEF IdentityInv, Adds
  <2>2. QED BY <1>1, <1>2, <1>6, <2>1, ConcatDistinct
<1>7. QED BY <1>3, <1>4, <1>5, <1>6 DEF IInv, RewriteInv

(* The log a store is opened with, whatever it is, is one of distinct      *)
(* identities.                                                             *)
LEMMA IdentityInit == Init => IdentityInv
<1> SUFFICES ASSUME Init PROVE IdentityInv
  OBVIOUS
<1>1. Content \in InitialLogs
  BY RefinementInit DEF Durable!Init
<1>2. ~Adds
  BY NoOpKind DEF Init, Adds
<1>3. QED BY <1>1, <1>2, DistinctAssumption DEF IdentityInv, UniqueIds

(* No step puts an identity in the log a second time.                      *)
LEMMA IdentityStep == ASSUME IInv, IdentityInv, [Next]_vars PROVE IdentityInv'
<1>1. CASE Foreign
  BY <1>1 DEF Foreign, IInv, TypeOK, IdentityInv, UniqueIds
<1>2. CASE WriteJournal
  <2>1. Content' = Content \o op.recs /\ edition' = edition /\ op.recs \in Batches
    BY <1>2, WriteJournalEffect DEF Content
  <2>2. ~Adds'
    BY <1>2 DEF WriteJournal, Adds
  <2>3. ASSUME edition = 0 PROVE Distinct(Content')
    <3>1. Ids(op.recs) \cap Ids(Content) = {} /\ Distinct(Content)
      BY <1>2, <2>3 DEF IdentityInv, UniqueIds, Adds, WriteJournal, IInv, OpInv, ApplyInv
    <3>2. Content \in Seq(Rec) /\ op.recs \in Seq(Rec) /\ Distinct(op.recs)
      BY <1>2, <2>1, WriteJournalEffect, DecodeType, DistinctAssumption DEF Content
    <3>3. QED BY <2>1, <3>1, <3>2, ConcatDistinct
  <2>4. QED BY <2>1, <2>2, <2>3 DEF IdentityInv, UniqueIds
<1>3. CASE Replace
  <2>1. pc = "replace" /\ Content' = new /\ edition' = edition
    BY <1>3, DecodeEncode DEF Replace, Content, IInv, TypeOK
  <2>2. ~Adds'
    BY <1>3, NoOpKind DEF Replace, End, Adds
  <2>3. edition = 0 => Distinct(new)
    BY <2>1, RewriteDistinct
  <2>4. QED BY <2>1, <2>2, <2>3 DEF IdentityInv, UniqueIds
<1>4. CASE ~WriteJournal /\ ~Replace /\ ~Foreign
  <2>1. SameContent
    BY <1>4, OtherSteps
  <2>2. Adds' => (Adds /\ op' = op) \/ Ids(op'.recs) \cap Ids(Content) = {}
    BY <1>4, NewIdentities
  <2>3. QED BY <2>1, <2>2 DEF SameContent, IdentityInv, UniqueIds
<1>5. QED BY <1>1, <1>2, <1>3, <1>4

(* No two records of the logbook ever share an identity, whatever appends  *)
(* are interrupted, recovered or repeated: add_many and import_adif give   *)
(* new ones, upsert_many and update replace the record that has it.        *)
(* MetadataDB and SyncEngine address a QSO by nothing else.                *)
THEOREM IdentitiesAreUnique == Spec => []UniqueIds
<1>1. Init => IdentityInv
  BY IdentityInit
<1>2. IInv /\ IdentityInv /\ [Next]_vars => IdentityInv'
  BY IdentityStep
<1>3. IdentityInv => UniqueIds
  BY DEF IdentityInv
<1>4. QED BY <1>1, <1>2, <1>3, Invariance, PTL DEF Spec

Acknowledged ==
    /\ journal' = NoJournal
    /\ Whole(file')
    /\ \E n \in 0..Len(Decode(file')) :
          op.recs = SubSeq(Decode(file'), n + 1, Len(Decode(file')))

(* A completed append whose journal is removed is whole and at the end of  *)
(* the file.                                                               *)
LEMMA AppliedIsAtTheEnd ==
    ASSUME IInv, applying, FileTail = Payload, journal' = NoJournal,
           file' = file
    PROVE  Acknowledged
<1>1. journal # NoJournal /\ Recoverable /\ journal.recs = op.recs
  BY DEF IInv, ApplyInv
<1>2. Whole(file) /\ Decode(file) = Decode(Base) \o op.recs
  BY <1>1, CompletedAppend
<1>3. Decode(Base) \in Seq(Rec) /\ op.recs \in Seq(Rec)
  BY <1>1, PartsType, DecodeType DEF IInv, TypeOK, Op
<1> DEFINE n == Len(Decode(Base))
<1>4. /\ n \in 0..Len(Decode(file))
      /\ op.recs = SubSeq(Decode(file), n + 1, Len(Decode(file)))
  <2>1. Len(Decode(file)) = n + Len(op.recs)
    BY <1>2, <1>3
  <2>2. op.recs = SubSeq(Decode(Base) \o op.recs, n + 1, n + Len(op.recs))
    BY <1>3
  <2>3. QED BY <1>2, <1>3, <2>1, <2>2
<1>5. QED BY <1>2, <1>4 DEF Acknowledged

(* An append is acknowledged only by the steps that remove its journal.    *)
LEMMA AcknowledgedStep ==
    ASSUME IInv, Next, applying, ~applying', result' = "ok"
    PROVE  Acknowledged
<1>1. pc \in {"recover", "append", "written"} /\ journal # NoJournal
  BY DEF IInv, ApplyInv
<1>2. RecoverDone \/ Verified
  BY <1>1 DEF Next, Open, Start, BeginScan, BeginAdd, BeginUpdate, BeginUpsert,
     BeginDelete, BeginImport, Begin, Recover, RecoverNothing, RecoverRefuse,
     RecoverTruncate, AppendPayload, Run, RunScan, RunAdd, RunUpdate,
     RunUpsert, RunDelete, RunImport, Body, Nothing, WriteJournal, Replace,
     IOError, Crash, Foreign, Raise, End
<1>3. FileTail = Payload /\ journal' = NoJournal /\ file' = file
  BY <1>2 DEF RecoverDone, Verified
<1>4. QED BY <1>3, AppliedIsAtTheEnd

(* A caller told that its QSO was saved finds it, whole, at the end of the *)
(* file.                                                                   *)
THEOREM AcknowledgementIsDurable == Spec => AcknowledgedIsDurable
<1>1. IInv /\ [Next]_vars =>
         [(applying /\ ~applying' /\ result' = "ok") =>
             /\ journal' = NoJournal
             /\ Whole(file')
             /\ \E n \in 0..Len(Decode(file')) :
                   op.recs = SubSeq(Decode(file'), n + 1,
                                    Len(Decode(file')))]_vars
  BY AcknowledgedStep DEF Acknowledged
<1>2. QED BY <1>1, Invariance, PTL DEF Spec, AcknowledgedIsDurable

(* With a contradictory journal nothing runs but the refusal of it.        *)
LEMMA FrozenStep ==
    ASSUME IInv, Next, journal # NoJournal, ~Recoverable, edition' = edition
    PROVE  UNCHANGED disk
<1>1. pc = "down" \/ (pc = "recover" /\ op.kind = "open")
  <2>1. pc = "down" \/ op.kind = "open"
    BY DEF IInv, JournalInv
  <2>2. pc \notin {"append", "written", "run", "journal", "replace"}
    BY DEF IInv, AppendInv, OpInv
  <2>3. pc = "idle" => op.kind # "open"
    BY DEF IInv, OpInv, NoOp
  <2>4. QED BY <2>1, <2>2, <2>3 DEF IInv, TypeOK, PC
<1>2. ~Foreign
  BY DEF Foreign, IInv, TypeOK
<1>3. Open \/ RecoverRefuse \/ IOError \/ Crash
  BY <1>1, <1>2 DEF Next, Start, BeginScan, BeginAdd, BeginUpdate, BeginUpsert,
     BeginDelete, BeginImport, Begin, Recover, RecoverNothing, RecoverDone,
     RecoverTruncate, AppendPayload, Verified, Run, RunScan, RunAdd, RunUpdate,
     RunUpsert, RunDelete, RunImport, Body, Nothing, WriteJournal, Replace
<1>4. QED BY <1>3 DEF Open, RecoverRefuse, IOError, Crash

(* A file and a journal that contradict each other are left alone.         *)
THEOREM ContradictionStaysFrozen == Spec => ContradictionIsFrozen
<1>1. IInv /\ [Next]_vars =>
         [(journal # NoJournal /\ ~Recoverable /\ edition' = edition) =>
             UNCHANGED disk]_vars
  BY FrozenStep
<1>2. QED BY <1>1, Invariance, PTL DEF Spec, ContradictionIsFrozen
=============================================================================

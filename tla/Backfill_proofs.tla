--------------------------- MODULE Backfill_proofs ---------------------------
(***************************************************************************)
(* Proofs about the backfill thread, for any number of rows, days and      *)
(* clusters, any moments of the rows and any size and number of pages.     *)
(***************************************************************************)
EXTENDS Backfill, FiniteSetTheorems, SequenceTheorems, TLAPS

\* What each phase has not begun, or has left.
Phased ==
  /\ pc = "rows" => page < MaxBatches
  /\ pc # "rows" => todo = {}
  /\ pc \in {"fetch", "rows", "summary"} => calibrated = {}
  /\ pc # "destroys" => labs = {}

Framed == TypeOK /\ Phased

LEMMA OffsetStep ==
  ASSUME NEW n \in Nat
  PROVE  /\ n * BatchSize \in Nat
         /\ (n + 1) * BatchSize = n * BatchSize + BatchSize
  BY BackfillAssumption

\* The numbers that paging goes by.
LEMMA Numbers ==
  ASSUME TypeOK
  PROVE  /\ BatchSize \in Nat \ {0} /\ MaxBatches \in Nat /\ MaxMoment \in Nat \ {0}
         /\ page \in Nat /\ Offset \in Nat
         /\ (page + 1) * BatchSize = Offset + BatchSize
         /\ cutoff \in Nat /\ known \in Nat
         /\ Len(evaluated_at) \in Nat /\ known <= Len(evaluated_at)
         /\ DOMAIN evaluated_at = 1 .. Len(evaluated_at)
         /\ \A r \in DOMAIN evaluated_at : evaluated_at[r] \in Moments
<1>1. /\ Len(evaluated_at) \in Nat
      /\ DOMAIN evaluated_at = 1 .. Len(evaluated_at)
      /\ \A r \in DOMAIN evaluated_at : evaluated_at[r] \in Moments
  BY LenProperties, ElementOfSeq DEF TypeOK
<1>2. page \in Nat
  BY BackfillAssumption DEF TypeOK
<1>3. Offset \in Nat /\ (page + 1) * BatchSize = Offset + BatchSize
  BY <1>2, OffsetStep DEF Offset
<1> QED
  BY <1>1, <1>2, <1>3, BackfillAssumption DEF TypeOK

\* The rows of an initial sequence are written.
LEMMA InitRows ==
  ASSUME Init
  PROVE  evaluated_at \in Seq(Moments) /\ Len(evaluated_at) \in 0 .. MaxRows
<1>1. PICK n \in 0 .. MaxRows : evaluated_at \in [1 .. n -> Moments]
  BY DEF Init
<1>2. n \in Nat
  BY <1>1, BackfillAssumption
<1> QED
  BY <1>1, <1>2

\* A row that is written leaves the others as they are.
LEMMA Writing ==
  ASSUME TypeOK, Arrive
  PROVE  /\ evaluated_at' \in Seq(Moments)
         /\ Len(evaluated_at') = Len(evaluated_at) + 1
         /\ Len(evaluated_at') <= MaxRows
         /\ DOMAIN evaluated_at' = 1 .. Len(evaluated_at) + 1
         /\ \A r \in DOMAIN evaluated_at :
              r \in DOMAIN evaluated_at' /\ evaluated_at'[r] = evaluated_at[r]
<1>1. PICK t \in Moments : evaluated_at' = Append(evaluated_at, t)
  BY DEF Arrive
<1>2. evaluated_at \in Seq(Moments) /\ Len(evaluated_at) < MaxRows
  BY DEF Arrive, TypeOK
<1>3. /\ evaluated_at' \in Seq(Moments)
      /\ Len(evaluated_at') = Len(evaluated_at) + 1
      /\ \A r \in 1 .. Len(evaluated_at) : evaluated_at'[r] = evaluated_at[r]
  BY <1>1, <1>2
<1>4. DOMAIN evaluated_at' = 1 .. Len(evaluated_at) + 1
  BY <1>3, LenProperties
<1>5. Len(evaluated_at) \in Nat /\ DOMAIN evaluated_at = 1 .. Len(evaluated_at)
  BY Numbers
<1> QED
  BY <1>2, <1>3, <1>4, <1>5, BackfillAssumption

LEMMA WritingFrom ==
  ASSUME TypeOK, Arrive, NEW t
  PROVE  From(t) \subseteq From(t)'
<1>1. cutoff' = cutoff
  BY DEF Arrive, mining
<1> QED
  BY <1>1, Writing DEF From

-----------------------------------------------------------------------------
(***************************************************************************)
(* Types and phases.                                                       *)
(***************************************************************************)
LEMMA InitFramed == Init => Framed
<1> SUFFICES ASSUME Init PROVE TypeOK /\ Phased
  BY DEF Framed
<1>1. /\ evaluated_at \in Seq(Moments) /\ Len(evaluated_at) <= MaxRows
      /\ known \in 0 .. Len(evaluated_at) /\ cutoff \in 1 .. MaxMoment + 1
  BY InitRows, BackfillAssumption DEF Init
<1>2. total \in 0 .. Enough + 1 /\ page \in 0 .. MaxBatches /\ days \in 0 .. MaxDays
  BY BackfillAssumption DEF Init
<1>3. /\ objective \in [Clusters -> {"none", "audited", "unaudited"}]
      /\ destroyed \in [Labs -> Nat] /\ mined = {}
  BY DEF Init
<1> QED
  BY <1>1, <1>2, <1>3 DEF Init, TypeOK, Phased, Labels

\* What is read does not change while the rows and the cutoff stay.
LEMMA SameFrom ==
  ASSUME UNCHANGED <<evaluated_at, cutoff>>
  PROVE  \A t : From(t)' = From(t)
BY DEF From

LEMMA NextFramed == Framed /\ [Next]_vars => Framed'
<1> SUFFICES ASSUME TypeOK, Phased, [Next]_vars
             PROVE  TypeOK' /\ Phased'
  BY DEF Framed
<1> USE BackfillAssumption DEF TypeOK, Phased, stored, mining, Labels
<1>1. CASE Wake
  <2>1. known' \in 0 .. Len(evaluated_at)' /\ cutoff' \in 1 .. MaxMoment + 1
    <3>1. Len(evaluated_at) \in Nat /\ evaluated_at' = evaluated_at
      BY <1>1, Numbers DEF Wake
    <3> QED
      BY <1>1, <3>1 DEF Wake
  <2>2. mined' = {} /\ todo' = {}
    BY <1>1 DEF Wake
  <2>3. poisoned' \in BOOLEAN /\ (pc' = "waiting" => ~ poisoned')
    <3>1. pc = "waiting" /\ ~ poisoned
      BY <1>1 DEF Wake
    <3>2. \/ pc' # "waiting" /\ (poisoned' = poisoned \/ poisoned' = TRUE)
          \/ poisoned' = poisoned
      BY <1>1 DEF Wake
    <3>3. poisoned' = FALSE \/ poisoned' = TRUE
      BY <3>1, <3>2
    <3>4. pc' = "waiting" => poisoned' = FALSE
      BY <3>1, <3>2
    <3> QED
      BY <3>3, <3>4
  <2>4. days' \in 0 .. MaxDays /\ page' \in 0 .. MaxBatches
    BY <1>1 DEF Wake
  <2>5. pc' \in {"waiting", "fetch", "summary"}
    BY <1>1 DEF Wake
  <2> QED
    BY <1>1, <2>1, <2>2, <2>3, <2>4, <2>5 DEF Wake
<1>2. CASE Arrive
  <2>1. /\ evaluated_at' \in Seq(Moments) /\ Len(evaluated_at)' <= MaxRows
        /\ known' \in 0 .. Len(evaluated_at)'
    BY <1>2, Writing, Numbers DEF Arrive
  <2>2. todo' \subseteq From(cutoff)' /\ mined' \subseteq From(cutoff)' \X (0 .. MaxBatches - 1)
    <3>1. UNCHANGED <<todo, mined, cutoff>>
      BY <1>2 DEF Arrive
    <3>2. From(cutoff) \subseteq From(cutoff)'
      BY <1>2, <3>1, WritingFrom DEF From
    <3> QED
      BY <3>1, <3>2
  <2> QED
    BY <1>2, <2>1, <2>2 DEF Arrive
<1>3. CASE Crash
  BY <1>3, SameFrom DEF Crash
<1>4. CASE FetchPage
  <2>1. todo' \subseteq From(cutoff)
    BY <1>4 DEF FetchPage, Pages
  <2> QED
    BY <1>4, <2>1, SameFrom DEF FetchPage
<1>5. CASE FetchNothing
  BY <1>5, SameFrom DEF FetchNothing
<1>6. CASE FetchRaises
  BY <1>6, SameFrom DEF FetchRaises
<1>7. CASE LastBatch
  BY <1>7, SameFrom DEF LastBatch
<1>8. CASE MineRow
  <2>1. PICK r \in todo : todo' = todo \ {r} /\ mined' = mined \cup {<<r, page>>}
    BY <1>8 DEF MineRow
  <2>2. mined' \subseteq From(cutoff) \X (0 .. MaxBatches - 1)
    <3>1. page \in 0 .. MaxBatches - 1 /\ r \in From(cutoff)
      BY <1>8 DEF MineRow
    <3> QED
      BY <2>1, <3>1
  <2>3. total' \in 0 .. Enough + 1
    <3>1. total' = total \/ Classified
      BY <1>8 DEF MineRow
    <3>2. total \in 0 .. Enough + 1 /\ Enough \in Nat
      OBVIOUS
    <3> QED
      BY <3>1, <3>2 DEF Classified
  <2>4. poisoned' \in BOOLEAN
    BY <1>8 DEF MineRow
  <2>5. todo' \subseteq From(cutoff)
    BY <2>1
  <2>6. /\ pc = "rows"
        /\ UNCHANGED <<evaluated_at, objective, destroyed, pc, cutoff, page, known,
                      exhausted, calibrated, labs, days, missed>>
    BY <1>8 DEF MineRow
  <2> QED
    BY SameFrom, <2>2, <2>3, <2>4, <2>5, <2>6
<1>9. CASE CommitBatch
  <2>1. page' \in 0 .. MaxBatches
    BY <1>9 DEF CommitBatch
  <2>2. poisoned' \in BOOLEAN
    BY <1>9 DEF CommitBatch
  <2> QED
    BY <1>9, <2>1, <2>2, SameFrom DEF CommitBatch
<1>10. CASE SummariseLabs
  BY <1>10, SameFrom DEF SummariseLabs
<1>11. ASSUME NEW c \in Clusters, SetObjective(c)
       PROVE  TypeOK' /\ Phased'
  BY <1>11, SameFrom DEF SetObjective
<1>12. CASE AuditObjective
  BY <1>12, SameFrom DEF AuditObjective
<1>13. CASE AuditRaises
  BY <1>13, SameFrom DEF AuditRaises
<1>14. CASE ClustersDone
  BY <1>14, SameFrom DEF ClustersDone
<1>15. CASE SkipReclaim
  BY <1>15, SameFrom DEF SkipReclaim, Close
<1>16. CASE StartReclaim
  BY <1>16, SameFrom DEF StartReclaim
<1>17. ASSUME NEW l \in Labs, ClassifyDestroy(l)
       PROVE  TypeOK' /\ Phased'
  BY <1>17, SameFrom DEF ClassifyDestroy, Classified
<1>18. ASSUME NEW l \in Labs, DestroyRaises(l)
       PROVE  TypeOK' /\ Phased'
  BY <1>18, SameFrom DEF DestroyRaises
<1>19. CASE EndDay
  BY <1>19, SameFrom DEF EndDay, Close
<1>20. CASE UNCHANGED vars
  BY <1>20, SameFrom DEF vars
<1> QED
  BY <1>1, <1>2, <1>3, <1>4, <1>5, <1>6, <1>7, <1>8, <1>9, <1>10, <1>11, <1>12,
     <1>13, <1>14, <1>15, <1>16, <1>17, <1>18, <1>19, <1>20 DEF Next, Step

LEMMA Frames == Spec => []Framed
  BY InitFramed, NextFramed, PTL DEF Spec

\* Every variable keeps its type, and each day begins with a working session.
THEOREM Typing == Spec => []TypeOK
<1>1. Framed => TypeOK
  BY DEF Framed
<1> QED
  BY <1>1, Frames, PTL

-----------------------------------------------------------------------------
(***************************************************************************)
(* Counting. What a page has of a moment follows from how many rows there  *)
(* are from it on, whichever rows these are: ties change which rows a page *)
(* has, never how many.                                                    *)
(***************************************************************************)
\* What the day has read: the rows gone through and those at hand.
Taken == mined \cup (todo \X {page})

TakenFrom(t) == {m \in Taken : evaluated_at[m[1]] >= t}
TakenAt(t) == {m \in Taken : evaluated_at[m[1]] = t}

At(t) == {r \in DOMAIN evaluated_at : evaluated_at[r] = t}
Late(t) == {r \in At(t) : r > known}

\* How far down the pages that have been read go.
Depth == IF pc = "rows" THEN Offset + BatchSize ELSE Offset

Finite(S) == IsFiniteSet(S) /\ Cardinality(S) \in Nat

Counts ==
  /\ Finite(Taken)
  /\ \A t : /\ Finite(From(t)) /\ Finite(At(t)) /\ Finite(Late(t))
            /\ Finite(TakenFrom(t)) /\ Finite(TakenAt(t))

LEMMA Part ==
  ASSUME NEW S, IsFiniteSet(S), NEW T \in SUBSET S
  PROVE  Finite(T) /\ Cardinality(T) <= Cardinality(S)
BY FS_Subset, FS_CardinalityType DEF Finite

LEMMA Split ==
  ASSUME NEW S, NEW T, Finite(S), Finite(T), S \cap T = {}
  PROVE  Finite(S \cup T) /\ Cardinality(S \cup T) = Cardinality(S) + Cardinality(T)
<1>1. Cardinality(S \cup T) = Cardinality(S) + Cardinality(T) - Cardinality(S \cap T)
  BY FS_Union DEF Finite
<1>2. IsFiniteSet(S \cup T)
  BY FS_Union DEF Finite
<1>3. Cardinality(S \cap T) = 0
  BY FS_EmptySet
<1>4. Cardinality(S) \in Nat /\ Cardinality(T) \in Nat /\ Cardinality(S \cup T) \in Nat
  BY <1>2, FS_CardinalityType DEF Finite
<1> QED
  BY <1>1, <1>2, <1>3, <1>4 DEF Finite

LEMMA Paired ==
  ASSUME NEW S, Finite(S), NEW n
  PROVE  Finite(S \X {n}) /\ Cardinality(S \X {n}) = Cardinality(S)
<1>1. IsFiniteSet({n}) /\ Cardinality({n}) = 1
  BY FS_Singleton
<1>2. IsFiniteSet(S \X {n}) /\ Cardinality(S \X {n}) = Cardinality(S) * Cardinality({n})
  BY <1>1, FS_Product DEF Finite
<1>3. Cardinality(S) * 1 = Cardinality(S)
  BY DEF Finite
<1> QED
  BY <1>1, <1>2, <1>3 DEF Finite

LEMMA CountsNow == TypeOK => Counts
<1> SUFFICES ASSUME TypeOK PROVE Counts
  OBVIOUS
<1>1. IsFiniteSet(DOMAIN evaluated_at)
  BY Numbers, FS_Interval
<1>2. \A t : Finite(From(t)) /\ Finite(At(t)) /\ Finite(Late(t))
  <2>1. \A t : /\ From(t) \subseteq DOMAIN evaluated_at /\ At(t) \subseteq DOMAIN evaluated_at
               /\ Late(t) \subseteq DOMAIN evaluated_at
    BY DEF From, At, Late
  <2> QED
    BY <1>1, <2>1, Part
<1>3. Finite(Taken)
  <2>1. IsFiniteSet(0 .. MaxBatches - 1)
    BY FS_Interval, BackfillAssumption
  <2>2. IsFiniteSet(From(cutoff) \X (0 .. MaxBatches - 1))
    BY <1>2, <2>1, FS_Product DEF Finite
  <2>3. IsFiniteSet(mined)
    BY <2>2, FS_Subset DEF TypeOK
  <2>4. Finite(todo)
    BY <1>2, Part DEF Finite, TypeOK
  <2>5. IsFiniteSet(todo \X {page})
    BY <2>4, Paired DEF Finite
  <2>6. IsFiniteSet(Taken)
    BY <2>3, <2>5, FS_Union DEF Taken
  <2> QED
    BY <2>6, FS_CardinalityType DEF Finite
<1>4. \A t : Finite(TakenFrom(t)) /\ Finite(TakenAt(t))
  <2>1. \A t : TakenFrom(t) \subseteq Taken /\ TakenAt(t) \subseteq Taken
    BY DEF TakenFrom, TakenAt
  <2> QED
    BY <1>3, <2>1, Part DEF Finite
<1> QED
  BY <1>2, <1>3, <1>4 DEF Counts

LEMMA CountsNext == TypeOK' => Counts'
  BY CountsNow, PTL

\* The rows from a moment on are those of the moment and those from the next on.
LEMMA FromSplits ==
  ASSUME TypeOK, NEW t \in cutoff .. MaxMoment
  PROVE  Cardinality(From(t)) = Cardinality(At(t)) + Cardinality(From(t + 1))
<1>1. From(t) = At(t) \cup From(t + 1) /\ At(t) \cap From(t + 1) = {}
  BY Numbers DEF From, At, Moments
<1> QED
  BY <1>1, Split, CountsNow DEF Counts

LEMMA PageFrom ==
  ASSUME TypeOK, NEW rows \in Pages, NEW t \in 1 .. MaxMoment + 1
  PROVE  /\ Finite(rows \cap From(t))
         /\ Cardinality(rows \cap From(t)) = Limit(Cardinality(From(t)) - Offset)
<1>1. Finite(rows \cap From(t))
  BY CountsNow, Part DEF Counts, Finite
<1>2. CASE t \in Moments
  BY <1>1, <1>2 DEF Pages
<1>3. CASE t \notin Moments
  <2>1. From(t) = {}
    BY <1>3, Numbers DEF From, Moments
  <2>2. Limit(0 - Offset) = 0
    BY Numbers DEF Limit
  <2> QED
    BY <1>1, <2>1, <2>2, FS_EmptySet
<1> QED
  BY <1>2, <1>3

LEMMA PageAt ==
  ASSUME TypeOK, NEW rows \in Pages, NEW t \in cutoff .. MaxMoment
  PROVE  /\ Finite(rows \cap At(t))
         /\ Limit(Cardinality(From(t)) - Offset) =
              Cardinality(rows \cap At(t)) + Limit(Cardinality(From(t + 1)) - Offset)
<1>1. t \in 1 .. MaxMoment + 1 /\ t + 1 \in 1 .. MaxMoment + 1
  BY Numbers DEF TypeOK
<1>2. Finite(rows \cap At(t))
  BY CountsNow, Part DEF Counts, Finite
<1>3. /\ rows \cap From(t) = (rows \cap At(t)) \cup (rows \cap From(t + 1))
      /\ (rows \cap At(t)) \cap (rows \cap From(t + 1)) = {}
  BY Numbers DEF From, At, Moments
<1>4. Finite(rows \cap From(t + 1))
  BY <1>1, PageFrom
<1>5. Cardinality(rows \cap From(t)) =
        Cardinality(rows \cap At(t)) + Cardinality(rows \cap From(t + 1))
  BY <1>2, <1>3, <1>4, Split
<1> QED
  BY <1>1, <1>2, <1>5, PageFrom

\* A page holds no more than the batch size.
LEMMA PageSize ==
  ASSUME TypeOK, NEW rows \in Pages
  PROVE  Finite(rows) /\ Cardinality(rows) <= BatchSize
<1>1. rows \cap From(1) = rows
  BY Numbers DEF Pages, From, Moments
<1>2. 1 \in 1 .. MaxMoment + 1 /\ Cardinality(From(1)) \in Nat
  BY Numbers, CountsNow DEF Counts, Finite
<1>3. Limit(Cardinality(From(1)) - Offset) <= BatchSize
  BY <1>2, Numbers DEF Limit
<1> QED
  BY <1>1, <1>2, <1>3, PageFrom

\* A page of n rows after p adds no more to a than there are, nor goes deeper.
LEMMA LimitAbove ==
  ASSUME NEW n \in Nat, NEW p \in Nat, NEW a \in Nat, a <= p, a <= n
  PROVE  a + Limit(n - p) <= p + BatchSize /\ a + Limit(n - p) <= n
BY BackfillAssumption DEF Limit

\* Of o rows after h newer ones it leaves none above its end.
LEMMA LimitBelow ==
  ASSUME NEW h \in Nat, NEW o \in Nat, NEW p \in Nat, NEW a \in Nat, NEW b \in Nat,
         NEW n \in Nat, n = h + o, Limit(n - p) = b + Limit(h - p),
         p - h <= a \/ o <= a
  PROVE  (p + BatchSize) - h <= a + b \/ o <= a + b
BY BackfillAssumption DEF Limit

\* A row that is gone through, and a batch that is done, leave what has been read.
LEMMA SameTaken ==
  ASSUME Framed, MineRow \/ CommitBatch
  PROVE  /\ Taken' = Taken
         /\ \A t : /\ TakenFrom(t)' = TakenFrom(t) /\ TakenAt(t)' = TakenAt(t)
                   /\ From(t)' = From(t) /\ At(t)' = At(t) /\ Late(t)' = Late(t)
<1>1. UNCHANGED <<evaluated_at, cutoff, known>>
  BY DEF MineRow, CommitBatch, stored
<1>2. Taken' = Taken
  <2>1. CASE MineRow
    <3>1. PICK r \in todo : todo' = todo \ {r} /\ mined' = mined \cup {<<r, page>>}
      BY <2>1 DEF MineRow
    <3>2. page' = page
      BY <2>1 DEF MineRow
    <3>3. {<<r, page>>} \cup ((todo \ {r}) \X {page}) = todo \X {page}
      BY <3>1
    <3> QED
      BY <3>1, <3>2, <3>3 DEF Taken
  <2>2. CASE CommitBatch
    BY <2>2 DEF CommitBatch, Taken
  <2> QED
    BY <2>1, <2>2
<1> QED
  BY <1>1, <1>2 DEF TakenFrom, TakenAt, From, At, Late

\* What has been read is written.
LEMMA TakenRows ==
  ASSUME TypeOK
  PROVE  \A m \in Taken : m[1] \in DOMAIN evaluated_at
BY DEF TypeOK, Taken, From

LEMMA SameArrive ==
  ASSUME TypeOK, Arrive
  PROVE  /\ UNCHANGED <<pc, poisoned, page, cutoff, known, mined, todo, exhausted>>
         /\ Depth' = Depth
         /\ \A t : /\ TakenFrom(t)' = TakenFrom(t) /\ TakenAt(t)' = TakenAt(t)
<1>1. UNCHANGED <<pc, poisoned, page, cutoff, known, mined, todo, exhausted>>
  BY DEF Arrive, mining
<1>2. Taken' = Taken /\ Depth' = Depth
  BY <1>1 DEF Taken, Depth, Offset
<1>3. \A m \in Taken : evaluated_at'[m[1]] = evaluated_at[m[1]]
  BY Writing, TakenRows
<1> QED
  BY <1>1, <1>2, <1>3 DEF TakenFrom, TakenAt

-----------------------------------------------------------------------------
(***************************************************************************)
(* Repetitions: what has been read from a moment on is neither more than   *)
(* there is nor more than the pages hold.                                  *)
(***************************************************************************)
Above ==
  /\ pc \in {"fetch", "rows"} => \A t \in Moments : Cardinality(TakenFrom(t)) <= Depth
  /\ \A t \in Moments : Cardinality(TakenFrom(t)) <= Cardinality(From(t))

\* A page adds its rows to what has been read.
LEMMA FetchAdds ==
  ASSUME Framed, FetchPage, \A m \in mined : m[2] < page
  PROVE  /\ todo' \in Pages /\ UNCHANGED <<evaluated_at, page, cutoff, known, mined>>
         /\ \A t : /\ TakenFrom(t)' = TakenFrom(t) \cup ((todo' \cap From(t)) \X {page})
                   /\ TakenFrom(t) \cap ((todo' \cap From(t)) \X {page}) = {}
                   /\ TakenAt(t)' = TakenAt(t) \cup ((todo' \cap At(t)) \X {page})
                   /\ TakenAt(t) \cap ((todo' \cap At(t)) \X {page}) = {}
<1>1. /\ todo = {} /\ todo' \in Pages
      /\ UNCHANGED <<evaluated_at, page, cutoff, known, mined>>
  BY DEF FetchPage, stored, Framed, Phased
<1>2. Taken = mined /\ Taken' = mined \cup (todo' \X {page})
  BY <1>1 DEF Taken
<1>3. \A m \in mined : ~ (m[2] = page)
  BY Numbers DEF Framed, TypeOK
<1>4. \A r \in todo' : r \in DOMAIN evaluated_at /\ evaluated_at[r] >= cutoff
  BY <1>1 DEF Pages, From
<1> QED
  BY <1>1, <1>2, <1>3, <1>4 DEF TakenFrom, TakenAt, From, At

\* The batches of the rows that have been gone through.
Batched == \A m \in mined : m[2] <= page /\ (pc = "fetch" => m[2] < page)

LEMMA BatchedStep ==
  ASSUME Framed, Batched, [Next]_vars
  PROVE  Batched'
<1> USE DEF Batched
<1>1. page \in Nat /\ \A m \in mined : m[2] \in Int
  BY Numbers DEF Framed, TypeOK
<1>2. CASE Wake
  BY <1>2 DEF Wake
<1>3. CASE MineRow
  <2>1. /\ pc = "rows" /\ pc' = pc /\ page' = page
        /\ \E r \in todo : mined' = mined \cup {<<r, page>>}
    BY <1>3 DEF MineRow
  <2> QED
    BY <1>1, <2>1
<1>4. CASE CommitBatch \/ FetchRaises
  <2>1. page' = page + 1 /\ mined' = mined
    BY <1>4 DEF CommitBatch, FetchRaises
  <2> QED
    BY <1>1, <2>1
<1>5. ASSUME UNCHANGED <<mined, page>>, pc' # "fetch" \/ pc = "fetch"
      PROVE  Batched'
  BY <1>5
<1>6. CASE Arrive \/ Crash \/ FetchPage \/ FetchNothing \/ LastBatch \/ SummariseLabs
           \/ AuditObjective \/ AuditRaises \/ ClustersDone
           \/ (\E c \in Clusters : SetObjective(c))
  BY <1>5, <1>6 DEF Arrive, Crash, FetchPage, FetchNothing, LastBatch, SummariseLabs,
     AuditObjective, AuditRaises, ClustersDone, SetObjective, mining
<1>7. CASE SkipReclaim \/ StartReclaim \/ EndDay
           \/ (\E l \in Labs : ClassifyDestroy(l) \/ DestroyRaises(l)) \/ UNCHANGED vars
  BY <1>5, <1>7 DEF SkipReclaim, StartReclaim, EndDay, ClassifyDestroy, DestroyRaises,
     mining, vars
<1> QED
  BY <1>2, <1>3, <1>4, <1>6, <1>7 DEF Next, Step

\* Steps after which nothing is at hand and no page is to come.
LEMMA MiningOver ==
  ASSUME Framed, [Next]_vars,
         \/ Crash \/ FetchNothing \/ LastBatch \/ SummariseLabs \/ AuditObjective
         \/ AuditRaises \/ ClustersDone \/ SkipReclaim \/ StartReclaim \/ EndDay
         \/ (\E c \in Clusters : SetObjective(c))
         \/ (\E l \in Labs : ClassifyDestroy(l) \/ DestroyRaises(l))
  PROVE  /\ pc' \notin {"fetch", "rows"}
         /\ UNCHANGED <<evaluated_at, cutoff, known, mined>>
         /\ todo' = {}
<1>1. /\ pc' \notin {"fetch", "rows"}
      /\ UNCHANGED <<evaluated_at, cutoff, known, mined>>
  BY DEF Crash, FetchNothing, LastBatch, SummariseLabs, AuditObjective, AuditRaises,
     ClustersDone, SkipReclaim, StartReclaim, EndDay, SetObjective, ClassifyDestroy,
     DestroyRaises, stored, mining
<1>2. todo' = {}
  BY <1>1, NextFramed DEF Framed, Phased
<1> QED
  BY <1>1, <1>2

LEMMA AboveStep ==
  ASSUME Framed, Batched, Above, [Next]_vars
  PROVE  Above'
<1>1. TypeOK /\ Counts /\ Counts'
  <2>1. TypeOK'
    BY NextFramed DEF Framed
  <2> QED
    BY <2>1, CountsNow, CountsNext DEF Framed
<1>2. BatchSize \in Nat /\ page \in Nat /\ Offset \in Nat /\ Depth \in Nat
  BY <1>1, Numbers DEF Depth
<1>3. \A t : /\ Cardinality(From(t)) \in Nat /\ Cardinality(TakenFrom(t)) \in Nat
             /\ Cardinality(From(t)') \in Nat /\ Cardinality(TakenFrom(t)') \in Nat
  BY <1>1 DEF Counts, Finite
<1>4. CASE Wake
  <2>1. mined' = {} /\ todo' = {} /\ (pc' = "fetch" => page' = 0) /\ pc' # "rows"
    BY <1>4 DEF Wake
  <2>2. \A t : Cardinality(TakenFrom(t)') = 0
    BY <2>1, FS_EmptySet DEF TakenFrom, Taken
  <2>3. pc' = "fetch" => Depth' = 0
    BY <1>2, <2>1 DEF Depth, Offset
  <2> QED
    BY <1>3, <2>1, <2>2, <2>3 DEF Above
<1>5. CASE Arrive
  <2>1. \A t : Cardinality(From(t)) <= Cardinality(From(t)')
    BY <1>1, <1>5, WritingFrom, Part DEF Counts, Finite
  <2> QED
    BY <1>1, <1>3, <1>5, <2>1, SameArrive DEF Above
<1>6. CASE FetchPage
  <2>1. \A m \in mined : m[2] < page
    BY <1>6 DEF Batched, FetchPage
  <2>2. pc = "fetch" /\ pc' = "rows" /\ Depth = Offset /\ Depth' = Offset + BatchSize
    BY <1>6 DEF FetchPage, Depth, Offset
  <2> SUFFICES ASSUME NEW t \in Moments
               PROVE  /\ Cardinality(TakenFrom(t)') <= Offset + BatchSize
                      /\ Cardinality(TakenFrom(t)') <= Cardinality(From(t)')
    BY <2>2 DEF Above
  <2> DEFINE new == todo' \cap From(t)
  <2>3. t \in 1 .. MaxMoment + 1
    BY <1>1, Numbers DEF Moments
  <2>4. Finite(new) /\ Cardinality(new) = Limit(Cardinality(From(t)) - Offset)
    BY <1>1, <1>6, <2>1, <2>3, FetchAdds, PageFrom
  <2>5. Finite(new \X {page}) /\ Cardinality(new \X {page}) = Cardinality(new)
    BY <2>4, Paired
  <2>6. /\ TakenFrom(t)' = TakenFrom(t) \cup (new \X {page})
        /\ TakenFrom(t) \cap (new \X {page}) = {}
        /\ From(t)' = From(t)
    BY <1>6, <2>1, FetchAdds, SameFrom
  <2> HIDE DEF new
  <2>7. Cardinality(TakenFrom(t)') = Cardinality(TakenFrom(t)) + Limit(Cardinality(From(t)) - Offset)
    BY <1>1, <2>4, <2>5, <2>6, Split DEF Counts
  <2>8. Cardinality(TakenFrom(t)) <= Offset /\ Cardinality(TakenFrom(t)) <= Cardinality(From(t))
    BY <2>2 DEF Above
  <2> QED
    BY <1>2, <1>3, <2>6, <2>7, <2>8, LimitAbove
<1>7. CASE MineRow
  <2>1. pc' = pc /\ Depth' = Depth
    BY <1>7 DEF MineRow, Depth, Offset
  <2> QED
    BY <1>7, <2>1, SameTaken DEF Above
<1>8. CASE CommitBatch
  <2>1. pc = "rows" /\ pc' = "fetch" /\ page' = page + 1
    BY <1>8 DEF CommitBatch
  <2>2. Depth' = Depth
    BY <1>1, <2>1, Numbers DEF Depth, Offset
  <2> QED
    BY <1>8, <2>1, <2>2, SameTaken DEF Above
<1>9. CASE FetchRaises
  <2>1. /\ pc = "fetch" /\ pc' = "fetch" /\ page' = page + 1 /\ todo = {} /\ todo' = {}
        /\ UNCHANGED <<evaluated_at, cutoff, mined>>
    BY <1>9 DEF FetchRaises, stored, Framed, Phased
  <2>2. Depth' = Depth + BatchSize
    BY <1>1, <2>1, Numbers DEF Depth, Offset
  <2>3. \A t : TakenFrom(t)' = TakenFrom(t) /\ From(t)' = From(t)
    BY <2>1 DEF TakenFrom, Taken, From
  <2>4. \A t \in Moments : Cardinality(TakenFrom(t)) <= Depth + BatchSize
    BY <1>2, <1>3, <2>1 DEF Above
  <2> QED
    BY <2>1, <2>2, <2>3, <2>4 DEF Above
<1>10. ASSUME \/ Crash \/ FetchNothing \/ LastBatch \/ SummariseLabs \/ AuditObjective
              \/ AuditRaises \/ ClustersDone \/ SkipReclaim \/ StartReclaim \/ EndDay
              \/ (\E c \in Clusters : SetObjective(c))
              \/ (\E l \in Labs : ClassifyDestroy(l) \/ DestroyRaises(l))
       PROVE  Above'
  <2>1. /\ pc' \notin {"fetch", "rows"} /\ todo' = {}
        /\ UNCHANGED <<evaluated_at, cutoff, mined>>
    BY <1>10, MiningOver
  <2>2. \A t : TakenFrom(t)' \subseteq TakenFrom(t) /\ From(t)' = From(t)
    BY <2>1 DEF TakenFrom, Taken, From
  <2>3. \A t : Cardinality(TakenFrom(t)') <= Cardinality(TakenFrom(t))
    BY <1>1, <2>2, Part DEF Counts, Finite
  <2> QED
    BY <1>3, <2>1, <2>2, <2>3 DEF Above
<1>11. CASE UNCHANGED vars
  <2>1. UNCHANGED <<pc, evaluated_at, cutoff, page, mined, todo>>
    BY <1>11 DEF vars, stored, mining
  <2>2. /\ Depth' = Depth
        /\ \A t : TakenFrom(t)' = TakenFrom(t) /\ From(t)' = From(t)
    BY <2>1 DEF TakenFrom, Taken, From, Depth, Offset
  <2> QED
    BY <2>1, <2>2 DEF Above
<1> QED
  BY <1>4, <1>5, <1>6, <1>7, <1>8, <1>9, <1>10, <1>11 DEF Next, Step

\* From any moment on a day goes through no more rows, each as often as it comes,
\* than there are, whatever arrives, fails or ties.
THEOREM Repetitions == Spec => []RepeatsExplained
<1>1. Init => Batched /\ Above
  <2> SUFFICES ASSUME Init PROVE Batched /\ Above
    OBVIOUS
  <2>1. mined = {} /\ todo = {} /\ pc = "waiting"
    BY DEF Init
  <2>2. \A t : Cardinality(TakenFrom(t)) = 0 /\ Cardinality(From(t)) \in Nat
    <3>1. \A t : TakenFrom(t) = {}
      BY <2>1 DEF TakenFrom, Taken
    <3> QED
      BY <3>1, InitFramed, CountsNow, FS_EmptySet DEF Framed, Counts, Finite
  <2> QED
    BY <2>1, <2>2 DEF Batched, Above
<1>2. Framed /\ Batched /\ Above /\ [Next]_vars => Batched' /\ Above'
  BY BatchedStep, AboveStep
<1>3. Framed /\ Above => RepeatsExplained
  <2> SUFFICES ASSUME Framed, Above, NEW t \in Moments
               PROVE  Cardinality({m \in mined : evaluated_at[m[1]] >= t}) <= Cardinality(From(t))
    BY DEF RepeatsExplained
  <2>1. {m \in mined : evaluated_at[m[1]] >= t} \subseteq TakenFrom(t)
    BY DEF TakenFrom, Taken
  <2>2. /\ Cardinality({m \in mined : evaluated_at[m[1]] >= t}) <= Cardinality(TakenFrom(t))
        /\ Cardinality({m \in mined : evaluated_at[m[1]] >= t}) \in Nat
        /\ Cardinality(TakenFrom(t)) \in Nat /\ Cardinality(From(t)) \in Nat
    BY <2>1, CountsNow, Part DEF Framed, Counts, Finite
  <2> QED
    BY <2>2 DEF Above
<1> QED
  BY <1>1, <1>2, <1>3, Frames, PTL DEF Spec

-----------------------------------------------------------------------------
(***************************************************************************)
(* What is left out: of each moment the pages have, down to their end,     *)
(* read as many rows as there are, those that arrived left aside.          *)
(***************************************************************************)
\* After the newer rows, those of moment t have been read down to depth p, the ones
\* that arrived left aside, or there are no more of them.
Covers(t, p) ==
  LET a == Cardinality(TakenAt(t)) + Cardinality(Late(t)) IN
  p - Cardinality(From(t + 1)) <= a \/ Cardinality(At(t)) <= a

Covered ==
  /\ (pc = "rows" \/ (pc = "fetch" /\ ~ poisoned)) =>
       \A t \in cutoff .. MaxMoment : Covers(t, Depth)
  /\ SkipsExplained

LEMMA CoveredStep ==
  ASSUME Framed, Batched, Covered, [Next]_vars
  PROVE  Covered'
<1>1. TypeOK /\ Counts /\ Counts'
  <2>1. TypeOK'
    BY NextFramed DEF Framed
  <2> QED
    BY <2>1, CountsNow, CountsNext DEF Framed
<1>2. /\ BatchSize \in Nat /\ page \in Nat /\ Offset \in Nat /\ Depth \in Nat
      /\ MaxMoment \in Nat /\ cutoff \in Nat \ {0}
  BY <1>1, Numbers DEF Depth, TypeOK
<1>3. \A t : /\ Cardinality(From(t)) \in Nat /\ Cardinality(From(t)') \in Nat
             /\ Cardinality(At(t)) \in Nat /\ Cardinality(At(t)') \in Nat
             /\ Cardinality(TakenAt(t)) \in Nat /\ Cardinality(TakenAt(t)') \in Nat
             /\ Cardinality(Late(t)) \in Nat /\ Cardinality(Late(t)') \in Nat
  BY <1>1 DEF Counts, Finite
<1>4. CASE Wake
  <2>1. /\ ~ exhausted' /\ pc' # "rows" /\ (pc' = "fetch" => page' = 0)
    BY <1>4 DEF Wake
  <2>2. pc' = "fetch" => Depth' = 0
    BY <1>2, <2>1 DEF Depth, Offset
  <2>3. pc' = "fetch" => \A t \in cutoff' .. MaxMoment : Covers(t, Depth)'
    <3>1. ASSUME NEW t \in cutoff' .. MaxMoment, pc' = "fetch"
          PROVE  0 - Cardinality(From(t + 1)') <= Cardinality(TakenAt(t)') + Cardinality(Late(t)')
      BY <1>3
    <3> QED
      BY <2>2, <3>1 DEF Covers
  <2> QED
    BY <2>1, <2>3 DEF Covered, SkipsExplained
<1>5. CASE Arrive
  <2>1. /\ UNCHANGED <<pc, poisoned, cutoff, known, mined, exhausted>> /\ Depth' = Depth
        /\ \A t : TakenAt(t)' = TakenAt(t)
    BY <1>1, <1>5, SameArrive
  <2>2. ASSUME NEW t \in cutoff .. MaxMoment, Covers(t, Depth)
        PROVE  Covers(t, Depth)'
    <3>1. Cardinality(From(t + 1)) <= Cardinality(From(t + 1)')
      BY <1>1, <1>5, WritingFrom, Part DEF Counts, Finite
    <3> DEFINE n == Len(evaluated_at) + 1
    <3>2. /\ n \notin At(t) /\ n \notin Late(t) /\ n > known
          /\ \/ At(t)' = At(t) /\ Late(t)' = Late(t)
             \/ At(t)' = At(t) \cup {n} /\ Late(t)' = Late(t) \cup {n}
      <4>1. /\ DOMAIN evaluated_at = 1 .. Len(evaluated_at) /\ Len(evaluated_at) \in Nat
            /\ DOMAIN evaluated_at' = 1 .. n /\ known \in Nat /\ known <= Len(evaluated_at)
            /\ \A r \in DOMAIN evaluated_at : evaluated_at'[r] = evaluated_at[r]
        BY <1>1, <1>5, Numbers, Writing
      <4>2. n \notin At(t) /\ n \notin Late(t) /\ n > known
        BY <4>1 DEF At, Late
      <4>3. At(t)' = {r \in 1 .. n : evaluated_at'[r] = t}
        BY <4>1 DEF At
      <4>4. IF evaluated_at'[n] = t THEN At(t)' = At(t) \cup {n} ELSE At(t)' = At(t)
        BY <4>1, <4>3 DEF At
      <4>5. IF evaluated_at'[n] = t THEN Late(t)' = Late(t) \cup {n} ELSE Late(t)' = Late(t)
        BY <2>1, <4>2, <4>4 DEF Late
      <4> QED
        BY <4>2, <4>4, <4>5
    <3> HIDE DEF n
    <3>3. \/ /\ Cardinality(At(t)') = Cardinality(At(t))
             /\ Cardinality(Late(t)') = Cardinality(Late(t))
          \/ /\ Cardinality(At(t)') = Cardinality(At(t)) + 1
             /\ Cardinality(Late(t)') = Cardinality(Late(t)) + 1
      <4>1. /\ Cardinality(At(t) \cup {n}) = Cardinality(At(t)) + 1
            /\ Cardinality(Late(t) \cup {n}) = Cardinality(Late(t)) + 1
        BY <1>1, <3>2, FS_AddElement DEF Counts, Finite
      <4> QED
        BY <3>2, <4>1
    <3>4. TakenAt(t)' = TakenAt(t) /\ Depth' = Depth
      BY <2>1
    <3> QED
      BY <1>2, <1>3, <2>2, <3>1, <3>3, <3>4 DEF Covers
  <2>3. SkipsExplained'
    <3>1. \A r \in 1 .. known : evaluated_at'[r] = evaluated_at[r]
      BY <1>1, <1>5, Numbers, Writing
    <3>2. \A m \in mined : evaluated_at'[m[1]] = evaluated_at[m[1]]
      BY <1>1, <1>5, TakenRows, Writing DEF Taken
    <3>3. \A t : /\ {r \in 1 .. known : evaluated_at'[r] = t} = {r \in 1 .. known : evaluated_at[r] = t}
                 /\ {m \in mined : evaluated_at'[m[1]] = t} = {m \in mined : evaluated_at[m[1]] = t}
      BY <3>1, <3>2
    <3> QED
      BY <2>1, <3>3 DEF Covered, SkipsExplained
  <2> QED
    BY <2>1, <2>2, <2>3 DEF Covered
<1>6. CASE FetchPage
  <2>1. \A m \in mined : m[2] < page
    BY <1>6 DEF Batched, FetchPage
  <2>2. /\ pc = "fetch" /\ ~ poisoned /\ pc' = "rows"
        /\ Depth = Offset /\ Depth' = Offset + BatchSize
    BY <1>6 DEF FetchPage, Depth, Offset
  <2>3. UNCHANGED <<evaluated_at, cutoff, known, mined, exhausted>>
    BY <1>6 DEF FetchPage, stored
  <2>4. ASSUME NEW t \in cutoff .. MaxMoment
        PROVE  Covers(t, Depth)'
    <3> DEFINE new == todo' \cap At(t)
    <3>1. /\ Finite(new)
          /\ Limit(Cardinality(From(t)) - Offset) =
               Cardinality(new) + Limit(Cardinality(From(t + 1)) - Offset)
      BY <1>1, <1>6, <2>1, FetchAdds, PageAt
    <3>2. Finite(new \X {page}) /\ Cardinality(new \X {page}) = Cardinality(new)
      BY <3>1, Paired
    <3>3. /\ TakenAt(t)' = TakenAt(t) \cup (new \X {page})
          /\ TakenAt(t) \cap (new \X {page}) = {}
      BY <1>6, <2>1, FetchAdds
    <3>4. From(t + 1)' = From(t + 1) /\ At(t)' = At(t) /\ Late(t)' = Late(t)
      BY <2>3 DEF From, At, Late
    <3> HIDE DEF new
    <3>5. Cardinality(TakenAt(t)') = Cardinality(TakenAt(t)) + Cardinality(new)
      BY <1>1, <3>2, <3>3, Split DEF Counts
    <3>6. Cardinality(new) \in Nat
      BY <3>1 DEF Finite
    <3>7. Covers(t, Offset)
      BY <2>2, <2>4 DEF Covered
    <3> DEFINE a == Cardinality(TakenAt(t)) + Cardinality(Late(t))
               h == Cardinality(From(t + 1))
               o == Cardinality(At(t))
               b == Cardinality(new)
    <3>8. a \in Nat /\ h \in Nat /\ o \in Nat /\ b \in Nat
      BY <1>3, <3>6
    <3>9. /\ Cardinality(From(t)) = h + o /\ Cardinality(From(t)) \in Nat
          /\ Limit(Cardinality(From(t)) - Offset) = b + Limit(h - Offset)
      BY <1>1, <1>3, <3>1, FromSplits
    <3>10. Offset - h <= a \/ o <= a
      BY <3>7 DEF Covers
    <3>11. a + b = Cardinality(TakenAt(t)') + Cardinality(Late(t)')
      BY <1>3, <3>4, <3>5, <3>6
    <3>12. (Offset + BatchSize) - h <= a + b \/ o <= a + b
      <4> HIDE DEF a, b, h, o
      <4> QED
        BY <1>2, <3>8, <3>9, <3>10, LimitBelow
    <3> QED
      BY <2>2, <3>4, <3>11, <3>12 DEF Covers
  <2> QED
    BY <2>2, <2>3, <2>4 DEF Covered, SkipsExplained
<1>7. CASE FetchNothing
  <2>1. /\ pc = "fetch" /\ ~ poisoned /\ {} \in Pages /\ pc' = "summary" /\ todo = {}
        /\ UNCHANGED <<evaluated_at, cutoff, known, mined>>
    BY <1>7 DEF FetchNothing, stored, Framed, Phased
  <2>2. ASSUME NEW t \in cutoff .. MaxMoment
        PROVE  Cardinality({r \in 1 .. known : evaluated_at[r] = t})
                 <= Cardinality({m \in mined : evaluated_at[m[1]] = t})
    <3> DEFINE early == {r \in 1 .. known : evaluated_at[r] = t}
    <3>1. early \cup Late(t) = At(t) /\ early \cap Late(t) = {}
      BY <1>1, Numbers DEF At, Late
    <3>2. Finite(early)
      BY <1>1, <3>1, Part DEF Counts, Finite
    <3>3. Cardinality(At(t)) = Cardinality(early) + Cardinality(Late(t))
      BY <1>1, <3>1, <3>2, Split DEF Counts
    <3>4. TakenAt(t) = {m \in mined : evaluated_at[m[1]] = t}
      BY <2>1 DEF TakenAt, Taken
    <3>5. Cardinality(From(t)) <= Offset
      <4>1. t \in 1 .. MaxMoment + 1
        BY <1>2
      <4>2. Limit(Cardinality(From(t)) - Offset) = Cardinality({} \cap From(t))
        BY <1>1, <2>1, <4>1, PageFrom
      <4>3. Limit(Cardinality(From(t)) - Offset) = 0
        BY <4>2, FS_EmptySet
      <4> QED
        BY <1>2, <1>3, <4>3, BackfillAssumption DEF Limit
    <3>6. Cardinality(From(t)) = Cardinality(At(t)) + Cardinality(From(t + 1))
      BY <1>1, FromSplits
    <3>7. Covers(t, Offset)
      BY <2>1 DEF Covered, Depth
    <3>8. Cardinality(At(t)) <= Cardinality(TakenAt(t)) + Cardinality(Late(t))
      BY <1>2, <1>3, <3>5, <3>6, <3>7 DEF Covers
    <3>9. Cardinality(early) \in Nat
      BY <3>2 DEF Finite
    <3> HIDE DEF early
    <3>10. Cardinality(early) <= Cardinality(TakenAt(t))
      BY <1>3, <3>3, <3>8, <3>9
    <3> QED
      BY <3>4, <3>10 DEF early
  <2> QED
    BY <2>1, <2>2 DEF Covered, SkipsExplained
<1>8. CASE MineRow \/ CommitBatch
  <2>1. /\ pc = "rows" /\ pc' \in {"rows", "fetch"} /\ Depth' = Depth
        /\ UNCHANGED <<evaluated_at, cutoff, known, exhausted>> /\ mined \subseteq mined'
    <3>1. CASE MineRow
      BY <3>1 DEF MineRow, Depth, Offset
    <3>2. CASE CommitBatch
      BY <1>1, <3>2, Numbers DEF CommitBatch, Depth, Offset, stored
    <3> QED
      BY <1>8, <3>1, <3>2
  <2>2. \A t : Covers(t, Depth) => Covers(t, Depth)'
    BY <1>8, <2>1, SameTaken DEF Covers
  <2>3. SkipsExplained'
    <3> SUFFICES ASSUME exhausted, NEW t \in cutoff .. MaxMoment
                 PROVE  Cardinality({r \in 1 .. known : evaluated_at[r] = t})
                          <= Cardinality({m \in mined' : evaluated_at[m[1]] = t})
      BY <2>1 DEF SkipsExplained
    <3> DEFINE before == {m \in mined : evaluated_at[m[1]] = t}
               after == {m \in mined' : evaluated_at[m[1]] = t}
               early == {r \in 1 .. known : evaluated_at[r] = t}
    <3>1. before \subseteq after /\ after \subseteq TakenAt(t)'
      BY <2>1 DEF TakenAt, Taken
    <3>2. Finite(after) /\ Finite(before) /\ Cardinality(before) <= Cardinality(after)
      BY <1>1, <3>1, Part DEF Counts, Finite
    <3>3. Cardinality(early) <= Cardinality(before)
      BY DEF Covered, SkipsExplained
    <3>4. early \subseteq At(t)
      BY <1>1, Numbers DEF At
    <3>5. Finite(early)
      BY <1>1, <3>4, Part DEF Counts, Finite
    <3> HIDE DEF before, after, early
    <3>6. Cardinality(early) <= Cardinality(after)
      BY <3>2, <3>3, <3>5 DEF Finite
    <3> QED
      BY <3>6 DEF early, after
  <2> QED
    BY <2>1, <2>2, <2>3 DEF Covered
<1>9. CASE FetchRaises
  BY <1>9 DEF FetchRaises, Covered, SkipsExplained, stored
<1>10. ASSUME \/ Crash \/ LastBatch \/ SummariseLabs \/ AuditObjective
              \/ AuditRaises \/ ClustersDone \/ SkipReclaim \/ StartReclaim \/ EndDay
              \/ (\E c \in Clusters : SetObjective(c))
              \/ (\E l \in Labs : ClassifyDestroy(l) \/ DestroyRaises(l))
       PROVE  Covered'
  <2>1. /\ pc' \notin {"fetch", "rows"}
        /\ UNCHANGED <<evaluated_at, cutoff, known, mined>>
    BY <1>10, MiningOver
  <2>2. exhausted' => exhausted
    BY <1>10 DEF Crash, LastBatch, SummariseLabs, AuditObjective, AuditRaises,
       ClustersDone, SkipReclaim, StartReclaim, EndDay, SetObjective, ClassifyDestroy,
       DestroyRaises, mining
  <2> QED
    BY <2>1, <2>2 DEF Covered, SkipsExplained
<1>11. CASE UNCHANGED vars
  <2>1. UNCHANGED <<pc, poisoned, evaluated_at, cutoff, page, known, mined, todo, exhausted>>
    BY <1>11 DEF vars, stored, mining
  <2>2. /\ Depth' = Depth
        /\ \A t : /\ TakenAt(t)' = TakenAt(t) /\ From(t)' = From(t)
                  /\ At(t)' = At(t) /\ Late(t)' = Late(t)
    BY <2>1 DEF TakenAt, Taken, From, At, Late, Depth, Offset
  <2>3. \A t : Covers(t, Depth) => Covers(t, Depth)'
    BY <2>2 DEF Covers
  <2> QED
    BY <2>1, <2>3 DEF Covered, SkipsExplained
<1> QED
  BY <1>4, <1>5, <1>6, <1>7, <1>8, <1>9, <1>10, <1>11 DEF Next, Step

\* A day that comes to an empty page has gone through rows of each moment as often
\* as there were rows of it: what it leaves out is what a tie hides.
THEOREM Paging == Spec => []SkipsExplained
<1>1. Init => Batched /\ Covered
  BY DEF Init, Batched, Covered, SkipsExplained
<1>2. Framed /\ Batched /\ Covered /\ [Next]_vars => Batched' /\ Covered'
  BY BatchedStep, CoveredStep
<1>3. Covered => SkipsExplained
  BY DEF Covered
<1> QED
  BY <1>1, <1>2, <1>3, Frames, PTL DEF Spec

-----------------------------------------------------------------------------
(***************************************************************************)
(* Objectives and destroy failures.                                        *)
(***************************************************************************)
\* Outside the moment between an objective and its audit event nothing is
\* unaudited while the miner goes on.
Unaudited ==
  /\ \A c, d \in LastSet : c = d
  /\ pc = "clusters" => LastSet = {}

LEMMA Auditing ==
  ASSUME Framed, Unaudited, [Next]_vars
  PROVE  Unaudited'
<1>1. ASSUME LastSet' = {}
      PROVE  Unaudited'
  BY <1>1 DEF Unaudited
<1>2. ASSUME LastSet' \subseteq LastSet, pc' # "clusters" \/ pc = "clusters"
      PROVE  Unaudited'
  BY <1>2 DEF Unaudited
<1>3. CASE Wake \/ Crash \/ SummariseLabs
  <2>1. calibrated' = {}
    BY <1>3 DEF Wake, Crash, SummariseLabs, Framed, Phased
  <2> QED
    BY <1>1, <2>1 DEF LastSet
<1>4. CASE AuditObjective
  <2>1. LastSet' = {}
    BY <1>4 DEF AuditObjective, LastSet, Framed, TypeOK
  <2> QED
    BY <1>1, <2>1
<1>5. ASSUME NEW c \in Clusters, SetObjective(c)
      PROVE  Unaudited'
  <2>1. LastSet = {} /\ pc' = "audit"
    BY <1>5 DEF SetObjective, Unaudited
  <2>2. LastSet' \subseteq {c}
    BY <1>5, <2>1 DEF SetObjective, LastSet, Framed, TypeOK
  <2> QED
    BY <2>1, <2>2 DEF Unaudited
<1>6. ASSUME UNCHANGED <<objective, calibrated>>, pc' # "clusters" \/ pc = "clusters"
      PROVE  Unaudited'
  BY <1>2, <1>6 DEF LastSet
<1>7. CASE Arrive \/ FetchPage \/ FetchNothing \/ FetchRaises \/ LastBatch
           \/ MineRow \/ CommitBatch
  BY <1>6, <1>7 DEF Arrive, FetchPage, FetchNothing, FetchRaises, LastBatch, MineRow,
     CommitBatch, stored
<1>8. CASE AuditRaises \/ ClustersDone \/ SkipReclaim \/ StartReclaim \/ EndDay
           \/ (\E l \in Labs : ClassifyDestroy(l) \/ DestroyRaises(l))
  BY <1>6, <1>8 DEF AuditRaises, ClustersDone, SkipReclaim, StartReclaim, EndDay,
     ClassifyDestroy, DestroyRaises, stored
<1>9. CASE UNCHANGED vars
  BY <1>6, <1>9 DEF vars, stored
<1> QED
  BY <1>3, <1>4, <1>5, <1>7, <1>8, <1>9 DEF Next, Step

\* A day leaves at most one objective without its audit event.
THEOREM Objectives == Spec => []OneUnaudited
<1>1. Init => Unaudited
  BY DEF Init, Unaudited, LastSet
<1>2. Framed /\ Unaudited /\ [Next]_vars => Unaudited'
  BY Auditing
<1>3. Unaudited => OneUnaudited
  <2> SUFFICES ASSUME Unaudited PROVE Cardinality(LastSet) <= 1
    BY DEF OneUnaudited
  <2>1. CASE LastSet = {}
    BY <2>1, FS_EmptySet
  <2>2. CASE LastSet # {}
    <3>1. PICK c \in LastSet : TRUE
      BY <2>2
    <3>2. LastSet = {c}
      BY <3>1 DEF Unaudited
    <3>3. Cardinality({c}) = 1
      BY FS_Singleton
    <3>4. Cardinality(LastSet) = 1
      BY <3>2, <3>3
    <3> QED
      BY <3>4
  <2> QED
    BY <2>1, <2>2
<1> QED
  BY <1>1, <1>2, <1>3, Frames, PTL DEF Spec

\* While the miner goes through the labs each is one of the classified, the
\* missed and the ones to come, which have not been classified.
Reclaiming ==
  pc = "destroys" =>
    /\ \A l \in labs : destroyed[l] = 0
    /\ \A l \in Labs : destroyed[l] = 1 \/ l \in missed \cup labs

LEMMA Reclaims ==
  ASSUME Framed, Reclaiming, ReclaimExplained, [Next]_vars
  PROVE  Reclaiming' /\ ReclaimExplained'
<1> USE DEF Framed, TypeOK, Phased
<1>1. CASE StartReclaim
  <2>1. (\A l \in Labs : destroyed[l] = 0) /\ UNCHANGED destroyed /\ labs' = Labs
    BY <1>1 DEF StartReclaim, ShouldReclaim, stored
  <2> QED
    BY <2>1 DEF Reclaiming, ReclaimExplained
<1>2. ASSUME NEW l \in Labs, ClassifyDestroy(l)
      PROVE  Reclaiming' /\ ReclaimExplained'
  <2>1. pc = "destroys" /\ l \in labs /\ destroyed[l] = 0
    BY <1>2 DEF ClassifyDestroy, Reclaiming
  <2>2. destroyed' = [destroyed EXCEPT ![l] = 1] /\ labs' = labs \ {l}
        /\ UNCHANGED <<pc, missed>>
    BY <1>2, <2>1 DEF ClassifyDestroy
  <2> QED
    BY <2>1, <2>2 DEF Reclaiming, ReclaimExplained
<1>3. ASSUME NEW l \in Labs, DestroyRaises(l)
      PROVE  Reclaiming' /\ ReclaimExplained'
  BY <1>3 DEF DestroyRaises, stored, Reclaiming, ReclaimExplained
<1>4. CASE Crash
  BY <1>4 DEF Crash, Reclaiming, ReclaimExplained
<1>5. CASE EndDay
  BY <1>5 DEF EndDay, stored, Reclaiming, ReclaimExplained
<1>6. ASSUME UNCHANGED <<destroyed, labs, missed>>, pc' # "destroys" \/ pc = "destroys"
      PROVE  Reclaiming' /\ ReclaimExplained'
  BY <1>6 DEF Reclaiming, ReclaimExplained
<1>7. CASE Wake \/ Arrive \/ FetchPage \/ FetchNothing \/ FetchRaises \/ LastBatch
           \/ MineRow \/ CommitBatch \/ SummariseLabs
  BY <1>6, <1>7 DEF Wake, Arrive, FetchPage, FetchNothing, FetchRaises, LastBatch, MineRow,
     CommitBatch, SummariseLabs, stored
<1>8. CASE AuditObjective \/ AuditRaises \/ ClustersDone \/ SkipReclaim
           \/ \E c \in Clusters : SetObjective(c)
  BY <1>6, <1>8 DEF AuditObjective, AuditRaises, ClustersDone, SkipReclaim, SetObjective, stored
<1>9. CASE UNCHANGED vars
  BY <1>6, <1>9 DEF vars, stored
<1> QED
  BY <1>1, <1>2, <1>3, <1>4, <1>5, <1>7, <1>8, <1>9 DEF Next, Step

\* A destroy failure is classified once; those that are not were missed.
THEOREM Reclamation == Spec => []ReclaimExplained
<1>1. Init => Reclaiming /\ ReclaimExplained
  BY DEF Init, Reclaiming, ReclaimExplained
<1>2. Framed /\ Reclaiming /\ ReclaimExplained /\ [Next]_vars =>
        Reclaiming' /\ ReclaimExplained'
  BY Reclaims
<1> QED
  BY <1>1, <1>2, Frames, PTL DEF Spec

-----------------------------------------------------------------------------
(***************************************************************************)
(* How long a day is. Its rank is a bound on the steps the thread has left *)
(* before it waits again, whatever fails and however many rows arrive.     *)
(***************************************************************************)
\* From a phase that comes after the evaluations.
AfterMining ==
  [ waiting  |-> 0,
    destroys |-> 1 + Cardinality(labs),
    reclaim  |-> 2 + Cardinality(Labs),
    clusters |-> 3 + Cardinality(Labs) + 2 * Cardinality(Clusters \ calibrated),
    audit    |-> 4 + Cardinality(Labs) + 2 * Cardinality(Clusters \ calibrated) ]

Summary == 4 + Cardinality(Labs) + 2 * Cardinality(Clusters)

\* A batch takes its statement, its rows and its commit.
Batches(n) == n * (BatchSize + 2)

DayRank ==
  IF pc = "fetch" THEN Summary + 1 + Batches(MaxBatches - page)
  ELSE IF pc = "rows" THEN Summary + 2 + Batches(MaxBatches - page - 1) + Cardinality(todo)
  ELSE IF pc = "summary" THEN Summary
  ELSE AfterMining[pc]

DayLength == Summary + 1 + Batches(MaxBatches)

LEMMA BatchesStep ==
  ASSUME NEW n \in Nat
  PROVE  /\ Batches(n) \in Nat
         /\ Batches(n + 1) = Batches(n) + BatchSize + 2
  BY BackfillAssumption DEF Batches

LEMMA BatchesMonotone ==
  ASSUME NEW n \in Nat, NEW m \in Nat, m <= n
  PROVE  Batches(m) <= Batches(n)
<1>1. BatchSize + 2 \in Nat
  BY BackfillAssumption
<1>2. n * (BatchSize + 2) = m * (BatchSize + 2) + (n - m) * (BatchSize + 2)
  BY <1>1
<1>3. (n - m) * (BatchSize + 2) >= 0
  BY <1>1
<1> DEFINE a == n * (BatchSize + 2)
<1> DEFINE b == m * (BatchSize + 2)
<1> DEFINE d == (n - m) * (BatchSize + 2)
<1>4. a \in Int /\ b \in Int /\ d \in Int
  BY <1>1
<1>5. a = b + d /\ d >= 0
  BY <1>2, <1>3
<1> HIDE DEF a, b, d
<1>6. b <= a
  BY <1>4, <1>5
<1> QED
  BY <1>6 DEF a, b, Batches

LEMMA Sizes ==
  ASSUME TypeOK
  PROVE  /\ IsFiniteSet(labs) /\ Cardinality(labs) \in Nat
         /\ Cardinality(Labs) \in Nat /\ Cardinality(labs) <= Cardinality(Labs)
         /\ IsFiniteSet(Clusters \ calibrated) /\ Cardinality(Clusters \ calibrated) \in Nat
         /\ Cardinality(Clusters) \in Nat
         /\ Cardinality(Clusters \ calibrated) <= Cardinality(Clusters)
         /\ IsFiniteSet(todo) /\ Cardinality(todo) \in Nat
<1>1. /\ IsFiniteSet(Labs) /\ labs \subseteq Labs
      /\ IsFiniteSet(Clusters) /\ Clusters \ calibrated \subseteq Clusters
  BY BackfillAssumption DEF TypeOK
<1>2. IsFiniteSet(From(cutoff)) /\ todo \subseteq From(cutoff)
  BY CountsNow DEF TypeOK, Counts, Finite
<1> QED
  BY <1>1, <1>2, FS_Subset, FS_CardinalityType

\* What the rank is where it is used below.
LEMMA RankAt ==
  /\ pc = "fetch" => DayRank = Summary + 1 + Batches(MaxBatches - page)
  /\ pc = "rows" =>
       DayRank = Summary + 2 + Batches(MaxBatches - page - 1) + Cardinality(todo)
  /\ pc = "summary" => DayRank = Summary
  /\ pc = "clusters" =>
       DayRank = 3 + Cardinality(Labs) + 2 * Cardinality(Clusters \ calibrated)
  /\ pc = "audit" =>
       DayRank = 4 + Cardinality(Labs) + 2 * Cardinality(Clusters \ calibrated)
  /\ pc = "reclaim" => DayRank = 2 + Cardinality(Labs)
  /\ pc = "destroys" => DayRank = 1 + Cardinality(labs)
  /\ pc = "waiting" => DayRank = 0
BY DEF DayRank, AfterMining

LEMMA RankAtNext ==
  /\ pc' = "fetch" => DayRank' = Summary + 1 + Batches(MaxBatches - page')
  /\ pc' = "rows" =>
       DayRank' = Summary + 2 + Batches(MaxBatches - page' - 1) + Cardinality(todo')
  /\ pc' = "summary" => DayRank' = Summary
  /\ pc' = "clusters" =>
       DayRank' = 3 + Cardinality(Labs) + 2 * Cardinality(Clusters \ calibrated')
  /\ pc' = "audit" =>
       DayRank' = 4 + Cardinality(Labs) + 2 * Cardinality(Clusters \ calibrated')
  /\ pc' = "reclaim" => DayRank' = 2 + Cardinality(Labs)
  /\ pc' = "destroys" => DayRank' = 1 + Cardinality(labs')
  /\ pc' = "waiting" => DayRank' = 0
BY DEF DayRank, AfterMining, Summary, Batches

LEMMA StepShrinks ==
  ASSUME Framed, Step
  PROVE  DayRank' < DayRank
<1>1. /\ IsFiniteSet(labs) /\ Cardinality(labs) \in Nat
      /\ Cardinality(Labs) \in Nat /\ Cardinality(labs) <= Cardinality(Labs)
      /\ IsFiniteSet(Clusters \ calibrated) /\ Cardinality(Clusters \ calibrated) \in Nat
      /\ Cardinality(Clusters) \in Nat
      /\ Cardinality(Clusters \ calibrated) <= Cardinality(Clusters)
      /\ IsFiniteSet(todo) /\ Cardinality(todo) \in Nat
  BY Sizes DEF Framed
<1>2. /\ page \in Nat /\ MaxBatches \in Nat /\ page <= MaxBatches
      /\ BatchSize \in Nat /\ Summary \in Nat
      /\ Summary = 4 + Cardinality(Labs) + 2 * Cardinality(Clusters)
  BY <1>1, BackfillAssumption DEF Framed, TypeOK, Summary
<1>3. page < MaxBatches =>
        /\ Batches(MaxBatches - page - 1) \in Nat
        /\ Batches(MaxBatches - page) = Batches(MaxBatches - page - 1) + BatchSize + 2
  <2>1. ASSUME page < MaxBatches
        PROVE  MaxBatches - page - 1 \in Nat /\ MaxBatches - page = (MaxBatches - page - 1) + 1
    BY <1>2, <2>1
  <2> QED
    BY <2>1, BatchesStep
<1>4. Batches(MaxBatches - page) \in Nat
  BY <1>2, BatchesStep
<1> USE RankAt, RankAtNext
<1>5. CASE FetchPage
  <2>1. pc = "fetch" /\ pc' = "rows" /\ page' = page /\ page < MaxBatches
    BY <1>5 DEF FetchPage
  <2>2. Cardinality(todo') <= BatchSize /\ Cardinality(todo') \in Nat
    <3>1. todo' \in Pages
      BY <1>5 DEF FetchPage
    <3> QED
      BY <3>1, PageSize DEF Framed, Finite
  <2> QED
    BY <1>2, <1>3, <2>1, <2>2
<1>6. CASE FetchNothing
  BY <1>2, <1>4, <1>6 DEF FetchNothing
<1>7. CASE FetchRaises
  <2>1. pc = "fetch" /\ pc' = "fetch" /\ page' = page + 1 /\ page < MaxBatches
    BY <1>7 DEF FetchRaises, stored
  <2>2. MaxBatches - page' = MaxBatches - page - 1
    BY <1>2, <2>1
  <2> QED
    BY <1>2, <1>3, <2>1, <2>2
<1>8. CASE LastBatch
  BY <1>2, <1>4, <1>8 DEF LastBatch
<1>9. CASE MineRow
  <2>1. PICK r \in todo : todo' = todo \ {r}
    BY <1>9 DEF MineRow
  <2>2. Cardinality(todo') = Cardinality(todo) - 1
    BY <1>1, <2>1, FS_RemoveElement
  <2>3. pc = "rows" /\ pc' = "rows" /\ page' = page /\ page < MaxBatches
    BY <1>9 DEF MineRow, Framed, Phased
  <2> QED
    BY <1>1, <1>2, <1>3, <2>2, <2>3
<1>10. CASE CommitBatch
  <2>1. /\ pc = "rows" /\ pc' = "fetch" /\ page' = page + 1 /\ page < MaxBatches
    BY <1>10 DEF CommitBatch, Framed, Phased
  <2>2. MaxBatches - page' = MaxBatches - page - 1
    BY <1>2, <2>1
  <2> QED
    BY <1>1, <1>2, <1>3, <2>1, <2>2
<1>11. CASE SummariseLabs
  <2>1. /\ pc = "summary" /\ pc' = "clusters" /\ calibrated' = {}
    BY <1>11 DEF SummariseLabs, Framed, Phased
  <2>2. Clusters \ calibrated' = Clusters
    BY <2>1
  <2> QED
    BY <1>1, <1>2, <2>1, <2>2
<1>12. ASSUME NEW c \in Clusters, SetObjective(c)
       PROVE  DayRank' < DayRank
  <2>1. /\ pc = "clusters" /\ pc' = "audit" /\ c \notin calibrated
        /\ calibrated' = calibrated \cup {c}
    BY <1>12 DEF SetObjective
  <2>2. Clusters \ calibrated' = (Clusters \ calibrated) \ {c} /\ c \in Clusters \ calibrated
    BY <2>1
  <2>3. Cardinality(Clusters \ calibrated') = Cardinality(Clusters \ calibrated) - 1
    BY <1>1, <2>2, FS_RemoveElement
  <2> QED
    BY <1>1, <2>1, <2>3
<1>13. CASE AuditObjective
  <2>1. pc = "audit" /\ pc' = "clusters" /\ calibrated' = calibrated
    BY <1>13 DEF AuditObjective
  <2> QED
    BY <1>1, <2>1
<1>14. CASE AuditRaises \/ ClustersDone
  <2>1. pc \in {"audit", "clusters"} /\ pc' = "reclaim"
    BY <1>14 DEF AuditRaises, ClustersDone
  <2> QED
    BY <1>1, <2>1
<1>15. CASE SkipReclaim \/ EndDay
  <2>1. pc \in {"reclaim", "destroys"} /\ pc' = "waiting"
    BY <1>15 DEF SkipReclaim, EndDay
  <2> QED
    BY <1>1, <2>1
<1>16. CASE StartReclaim
  <2>1. pc = "reclaim" /\ pc' = "destroys" /\ labs' = Labs
    BY <1>16 DEF StartReclaim
  <2> QED
    BY <1>1, <2>1
<1>17. ASSUME NEW l \in Labs, ClassifyDestroy(l) \/ DestroyRaises(l)
       PROVE  DayRank' < DayRank
  <2>1. pc = "destroys" /\ pc' = "destroys" /\ l \in labs /\ labs' = labs \ {l}
    BY <1>17 DEF ClassifyDestroy, DestroyRaises
  <2>2. Cardinality(labs') = Cardinality(labs) - 1
    BY <1>1, <2>1, FS_RemoveElement
  <2> QED
    BY <1>1, <2>1, <2>2
<1> QED
  BY <1>5, <1>6, <1>7, <1>8, <1>9, <1>10, <1>11, <1>12, <1>13, <1>14, <1>15, <1>16, <1>17
  DEF Step

\* A day gets shorter with every step of the thread, and no evaluation that
\* arrives makes it longer: the pages are counted, not read to their end.
DayShrinks ==
  [][/\ Step => DayRank' < DayRank
     /\ Arrive => DayRank' = DayRank]_vars

\* Each step of the thread, whatever statement fails in it, brings the day nearer
\* its end: what DayEnds leaves to fairness is only that the steps are taken.
THEOREM DayRuns == Spec => DayShrinks
<1>1. Framed /\ [Next]_vars =>
        [/\ Step => DayRank' < DayRank
         /\ Arrive => DayRank' = DayRank]_vars
  <2> SUFFICES ASSUME Framed
               PROVE  /\ Step => DayRank' < DayRank
                      /\ Arrive => DayRank' = DayRank
    OBVIOUS
  <2>1. ASSUME Arrive
        PROVE  DayRank' = DayRank
    BY <2>1 DEF Arrive, mining, DayRank, AfterMining, Summary, Batches
  <2> QED
    BY <2>1, StepShrinks
<1> QED
  BY <1>1, Frames, PTL DEF Spec, DayShrinks

LEMMA RankType ==
  ASSUME Framed
  PROVE  DayRank \in Nat /\ DayLength \in Nat /\ Summary \in 0 .. DayLength
<1>1. /\ Cardinality(labs) \in Nat /\ Cardinality(Labs) \in Nat
      /\ Cardinality(Clusters \ calibrated) \in Nat
      /\ Cardinality(Clusters) \in Nat /\ Cardinality(todo) \in Nat
  BY Sizes DEF Framed
<1>2. Summary \in Nat
  BY <1>1 DEF Summary
<1>3. MaxBatches \in Nat /\ page \in 0 .. MaxBatches /\ pc \in Labels
  BY BackfillAssumption DEF Framed, TypeOK
<1>4. Batches(MaxBatches) \in Nat /\ Batches(MaxBatches - page) \in Nat
  BY <1>3, BatchesStep
<1>5. pc = "rows" => Batches(MaxBatches - page - 1) \in Nat
  <2>1. pc = "rows" => MaxBatches - page - 1 \in Nat
    BY <1>3 DEF Framed, Phased
  <2> QED
    BY <2>1, BatchesStep
<1>6. DayRank \in Nat
  BY <1>1, <1>2, <1>3, <1>4, <1>5, RankAt DEF Labels
<1> QED
  BY <1>2, <1>4, <1>6 DEF DayLength

Ranked == DayRank \in Nat

LEMMA RankTypeNext == Framed' => Ranked'
<1>1. Framed => Ranked
  BY RankType DEF Ranked
<1> QED
  BY <1>1, PTL

\* At no moment of any day are more steps left than the configured batches,
\* the report and the clusters account for.
DayBounded == DayRank \in 0 .. DayLength

\* A day is over after at most DayLength steps of the thread, or earlier by a
\* crash: however many evaluations there are, and whatever fails.
THEOREM DayBound == Spec => []DayBounded
<1>1. Init => DayBounded
  <2> SUFFICES ASSUME Init PROVE DayBounded
    OBVIOUS
  <2>1. DayRank = 0
    BY RankAt DEF Init
  <2> QED
    BY <2>1, InitFramed, RankType DEF DayBounded
<1>2. Framed /\ DayBounded /\ [Next]_vars => DayBounded'
  <2> SUFFICES ASSUME Framed, DayBounded, [Next]_vars
               PROVE  DayBounded'
    OBVIOUS
  <2>1. DayLength' = DayLength /\ Summary' = Summary
    BY DEF DayLength, Summary, Batches
  <2>2. /\ DayRank' \in Nat /\ DayLength \in Nat /\ Summary \in 0 .. DayLength
        /\ DayRank \in Nat /\ DayRank <= DayLength
    <3>1. Framed'
      BY NextFramed
    <3>2. DayRank' \in Nat
      BY <3>1, RankTypeNext DEF Ranked
    <3> QED
      BY <3>2, RankType DEF DayBounded
  <2>3. CASE Step
    BY <2>1, <2>2, <2>3, StepShrinks DEF DayBounded
  <2>4. CASE Wake
    <3>1. pc' = "fetch" => page' = 0 /\ MaxBatches - page' = MaxBatches
      BY <2>4, BackfillAssumption DEF Wake
    <3>2. pc' \in {"fetch", "summary", "waiting"}
      BY <2>4 DEF Wake
    <3>3. DayRank' \in {DayLength, Summary, 0}
      BY <3>1, <3>2, RankAtNext DEF DayLength
    <3> QED
      BY <2>1, <2>2, <3>3 DEF DayBounded
  <2>5. CASE Crash
    <3>1. DayRank' = 0
      BY <2>5, RankAtNext DEF Crash
    <3> QED
      BY <2>1, <2>2, <3>1 DEF DayBounded
  <2>6. CASE Arrive \/ UNCHANGED vars
    <3>1. DayRank' = DayRank
      BY <2>6 DEF Arrive, vars, stored, mining, DayRank, AfterMining, Summary, Batches
    <3> QED
      BY <2>1, <2>2, <3>1 DEF DayBounded
  <2> QED
    BY <2>3, <2>4, <2>5, <2>6 DEF Next
<1> QED
  BY <1>1, <1>2, Frames, PTL DEF Spec
=============================================================================

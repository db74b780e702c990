--------------------------- MODULE CondensingProofs ---------------------------
(***************************************************************************)
(* Condensing, for any length of the history, any sizes and any number of  *)
(* messages and requests: the task stays, summaries add up, and condensing *)
(* ends.  Theorems of CondenseSpec.                                        *)
(***************************************************************************)
EXTENDS Condensing, SubsequenceTheorems, SequenceTheorems

(***************************************************************************)
(* What is in a history and in a view.                                     *)
(***************************************************************************)
EventKind == {"system", "user", "recall", "context", "action", "answer", "output", "page",
              "request", "window", "summary"}
HistoryEvent == [kind : EventKind, of : Nat, forgets : SUBSET Nat, tells : SUBSET Nat]
ViewElement == [id : Nat, kind : EventKind \cup {"condensed"}, of : Nat, tells : SUBSET Nat]
HistoryOK == history \in Seq(HistoryEvent) /\ Len(history) >= 1

KeptIds == DOMAIN history \ Forgotten
KeptView == AtPlaces([i \in DOMAIN history |-> Element(i)], KeptIds)
Offset == Min({KeepFirst, Len(KeptView)}) + 1

LEMMA MinOfTwo ==
    ASSUME NEW a \in Nat, NEW b \in Nat
    PROVE  Min({a, b}) = IF a <= b THEN a ELSE b
<1>1. \A m \in {a, b} : (\A x \in {a, b} : m <= x) <=> m = (IF a <= b THEN a ELSE b)
  OBVIOUS
<1>2. (IF a <= b THEN a ELSE b) \in {a, b}
  OBVIOUS
<1> QED
  BY <1>1, <1>2 DEF Min

LEMMA MinIs ==
    ASSUME NEW S \in SUBSET Nat, S # {}
    PROVE  Min(S) \in S /\ \A x \in S : Min(S) <= x
<1>1. \E m \in S : \A x \in S : m <= x
  BY LeastPlace
<1> QED
  BY <1>1 DEF Min

LEMMA MaxIs ==
    ASSUME NEW n \in Nat, NEW S \in SUBSET (0..n), S # {}
    PROVE  Max(S) \in S /\ \A x \in S : x <= Max(S)
<1> DEFINE T == {m \in Nat : \A x \in S : x <= m}
<1>1. \A x \in S : x \in Nat /\ x <= n
  OBVIOUS
<1>2. T \in SUBSET Nat /\ n \in T
  BY <1>1
<1>3. PICK m \in T : \A i \in T : m <= i
  BY <1>2, LeastPlace
<1>4. m \in S
  <2> SUFFICES ASSUME m \notin S
               PROVE  FALSE
    OBVIOUS
  <2>1. PICK y \in S : TRUE
    OBVIOUS
  <2>2. m \in Nat /\ \A x \in S : x <= m /\ x # m
    BY <1>3
  <2>3. m - 1 \in Nat /\ \A x \in S : x <= m - 1
    BY <1>1, <2>1, <2>2
  <2>4. m - 1 \in T
    BY <2>3
  <2>5. m <= m - 1
    BY <1>3, <2>4
  <2> QED
    BY <2>2, <2>5
<1>5. \A x \in S : m >= x
  BY <1>1, <1>3
<1>6. \E k \in S : \A x \in S : k >= x
  BY <1>4, <1>5
<1>7. Max(S) \in S /\ \A x \in S : Max(S) >= x
  BY <1>6 DEF Max
<1> QED
  BY <1>1, <1>7

(* An element put into a sequence.                                         *)
LEMMA Inserted ==
    ASSUME NEW T, NEW s \in Seq(T), NEW e \in T, NEW p \in 1..(Len(s) + 1)
    PROVE  /\ InsertAt(s, p, e) \in Seq(T)
           /\ Len(InsertAt(s, p, e)) = Len(s) + 1
           /\ InsertAt(s, p, e)[p] = e
           /\ \A k \in 1..(Len(s) + 1) : k < p => InsertAt(s, p, e)[k] = s[k]
           /\ \A k \in 1..(Len(s) + 1) : k > p => InsertAt(s, p, e)[k] = s[k - 1]
<1> DEFINE a == SubSeq(s, 1, p - 1)
           b == SubSeq(s, p, Len(s))
           c == a \o <<e>>
           r == c \o b
<1>1. /\ p \in Nat /\ p >= 1 /\ Len(s) \in Nat /\ p <= Len(s) + 1
  OBVIOUS
<1>2. /\ a \in Seq(T) /\ Len(a) = p - 1 /\ \A k \in 1..(p - 1) : a[k] = s[k]
  BY <1>1
<1>3. /\ b \in Seq(T) /\ Len(b) = Len(s) - p + 1
      /\ \A k \in 1..(Len(s) - p + 1) : b[k] = s[p + k - 1]
  BY <1>1
<1> HIDE DEF a, b
<1>4. /\ c \in Seq(T) /\ Len(c) = p /\ c[p] = e /\ \A k \in 1..(p - 1) : c[k] = a[k]
  BY <1>1, <1>2
<1> HIDE DEF c
<1>5. /\ r \in Seq(T) /\ Len(r) = Len(s) + 1
      /\ \A k \in 1..p : r[k] = c[k]
      /\ \A k \in 1..(Len(s) + 1) : k > p => r[k] = b[k - p]
  <2>1. c \in Seq(T) /\ b \in Seq(T) /\ Len(c) = p /\ Len(b) = Len(s) - p + 1
    BY <1>3, <1>4
  <2>2. r \in Seq(T) /\ Len(r) = Len(c) + Len(b)
    BY <2>1
  <2>3. \A k \in 1..(Len(c) + Len(b)) : r[k] = IF k <= Len(c) THEN c[k] ELSE b[k - Len(c)]
    BY <2>1
  <2> HIDE DEF r
  <2>4. Len(r) = Len(s) + 1
    BY <1>1, <2>1, <2>2
  <2>5. \A k \in 1..(Len(s) + 1) : r[k] = IF k <= p THEN c[k] ELSE b[k - p]
    BY <1>1, <2>1, <2>3
  <2>6. \A k \in 1..p : k \in 1..(Len(s) + 1) /\ k <= p
    BY <1>1
  <2>7. \A k \in 1..(Len(s) + 1) : k > p => ~(k <= p)
    BY <1>1
  <2> QED
    BY <2>2, <2>4, <2>5, <2>6, <2>7
<1> HIDE DEF r
<1>6. r[p] = e /\ \A k \in 1..(Len(s) + 1) : k < p => r[k] = s[k]
  <2>1. p \in 1..p /\ \A k \in 1..(Len(s) + 1) : k < p => k \in 1..p /\ k \in 1..(p - 1)
    BY <1>1
  <2> QED
    BY <1>2, <1>4, <1>5, <2>1
<1>7. ASSUME NEW k \in 1..(Len(s) + 1), k > p
      PROVE  r[k] = s[k - 1]
  <2>1. k - p \in 1..(Len(s) - p + 1) /\ p + (k - p) - 1 = k - 1
    BY <1>1, <1>7
  <2> QED
    BY <1>3, <1>5, <1>7, <2>1
<1>8. InsertAt(s, p, e) = r
  BY DEF InsertAt, r, c, a, b
<1> QED
  BY <1>5, <1>6, <1>7, <1>8

(***************************************************************************)
(* The sizes the server configures.                                        *)
(***************************************************************************)
LEMMA SizesFit ==
    /\ KeepFirst \in Nat /\ MaxSize \in Nat /\ TargetSize \in Nat
    /\ KeepFirst + 1 < TargetSize /\ TargetSize <= MaxSize
BY CondenseAssumption DEF TargetSize

(***************************************************************************)
(* The view has the elements of the kept events in order, and the summary  *)
(* after the first KeepFirst of them when there is one.                    *)
(***************************************************************************)
LEMMA KeptType ==
    ASSUME HistoryOK
    PROVE  /\ DOMAIN history = 1..Len(history) /\ Len(history) \in Nat
           /\ KeptIds \in SUBSET (1..Len(history))
           /\ KeptView \in Seq(ViewElement)
           /\ Cardinality(KeptIds) \in Nat /\ Len(KeptView) = Cardinality(KeptIds)
           /\ \A k \in 1..Len(KeptView) :
                 /\ Place(KeptIds, k) \in KeptIds
                 /\ KeptView[k] = Element(Place(KeptIds, k))
<1> DEFINE s == [i \in DOMAIN history |-> Element(i)]
<1>1. /\ history \in Seq(HistoryEvent) /\ Len(history) \in Nat
      /\ DOMAIN history = 1..Len(history)
  BY DEF HistoryOK
<1>2. KeptIds \in SUBSET (1..Len(history))
  BY <1>1 DEF KeptIds
<1>3. \A i \in 1..Len(history) : history[i] \in HistoryEvent
  BY <1>1
<1>4. \A i \in 1..Len(history) : Element(i) \in ViewElement
  BY <1>3 DEF Element, ViewElement, HistoryEvent
<1>5. s \in [1..Len(history) -> ViewElement]
  BY <1>1, <1>4
<1>6. s \in Seq(ViewElement) /\ DOMAIN s = 1..Len(history)
  BY <1>1, <1>5
<1>7. \A i \in 1..Len(history) : s[i] = Element(i)
  BY <1>1
<1> HIDE DEF s
<1>8. /\ AtPlaces(s, KeptIds) \in Seq(ViewElement)
      /\ Len(AtPlaces(s, KeptIds)) = Cardinality(KeptIds)
      /\ \A k \in 1..Cardinality(KeptIds) : AtPlaces(s, KeptIds)[k] = s[Place(KeptIds, k)]
  <2>1. KeptIds \in SUBSET DOMAIN s
    BY <1>2, <1>6
  <2> QED
    BY <1>6, <2>1, AtPlacesType
<1>9. Cardinality(KeptIds) \in Nat
  BY <1>1, <1>2, RankType
<1>10. \A k \in 1..Cardinality(KeptIds) : Place(KeptIds, k) \in KeptIds
  BY <1>1, <1>2, PlaceType
<1>11. KeptView = AtPlaces(s, KeptIds)
  BY DEF KeptView, s
<1> QED
  BY <1>1, <1>2, <1>7, <1>8, <1>9, <1>10, <1>11

LEMMA SummaryIdsType ==
    ASSUME HistoryOK, SummaryIds # {}
    PROVE  /\ Max(SummaryIds) \in SummaryIds /\ Max(SummaryIds) \in 1..Len(history)
           /\ \A i \in SummaryIds : i \in Nat /\ i <= Max(SummaryIds)
<1>1. SummaryIds \subseteq 1..Len(history) /\ Len(history) \in Nat
  BY DEF SummaryIds, HistoryOK
<1>2. SummaryIds \in SUBSET (0..Len(history))
  <2>1. \A i \in 1..Len(history) : i \in 0..Len(history)
    BY <1>1
  <2> QED
    BY <1>1, <2>1
<1>3. Max(SummaryIds) \in SummaryIds /\ \A i \in SummaryIds : i <= Max(SummaryIds)
  BY <1>1, <1>2, MaxIs
<1>4. \A i \in SummaryIds : i \in Nat /\ i \in 1..Len(history)
  BY <1>1
<1> QED
  BY <1>3, <1>4

LEMMA OffsetType ==
    ASSUME HistoryOK
    PROVE  /\ Offset \in 1..(Len(KeptView) + 1) /\ Offset <= KeepFirst + 1
           /\ KeepFirst <= Len(KeptView) => Offset = KeepFirst + 1
           /\ Len(KeptView) < KeepFirst => Offset = Len(KeptView) + 1
<1>1. Len(KeptView) \in Nat /\ KeepFirst \in Nat
  BY KeptType, SizesFit
<1> QED
  BY <1>1, MinOfTwo DEF Offset

LEMMA PlainView ==
    ASSUME HistoryOK, SummaryIds = {}
    PROVE  View = KeptView
BY DEF View, KeptView, KeptIds

LEMMA SummarizedView ==
    ASSUME HistoryOK, SummaryIds # {}
    PROVE  /\ View \in Seq(ViewElement) /\ Len(View) = Len(KeptView) + 1
           /\ View[Offset] = Condensed(history[Max(SummaryIds)].tells)
           /\ \A k \in 1..Len(View) : k < Offset => View[k] = KeptView[k]
           /\ \A k \in 1..Len(View) : k > Offset => View[k] = KeptView[k - 1]
<1> DEFINE e == Condensed(history[Max(SummaryIds)].tells)
<1>1. history[Max(SummaryIds)] \in HistoryEvent
  BY SummaryIdsType DEF HistoryOK
<1>2. e \in ViewElement
  BY <1>1 DEF Condensed, NoId, ViewElement, HistoryEvent
<1>3. View = InsertAt(KeptView, Offset, e)
  BY DEF View, KeptView, KeptIds, Offset
<1> HIDE DEF e
<1>4. KeptView \in Seq(ViewElement) /\ Offset \in 1..(Len(KeptView) + 1)
  BY KeptType, OffsetType
<1>5. /\ InsertAt(KeptView, Offset, e) \in Seq(ViewElement)
      /\ Len(InsertAt(KeptView, Offset, e)) = Len(KeptView) + 1
      /\ InsertAt(KeptView, Offset, e)[Offset] = e
      /\ \A k \in 1..(Len(KeptView) + 1) :
            k < Offset => InsertAt(KeptView, Offset, e)[k] = KeptView[k]
      /\ \A k \in 1..(Len(KeptView) + 1) :
            k > Offset => InsertAt(KeptView, Offset, e)[k] = KeptView[k - 1]
  BY <1>2, <1>4, Inserted
<1> QED
  BY <1>3, <1>5 DEF e

(* Every element of the view is that of a kept event, one place further    *)
(* behind the summary, or it is the summary; and no kept event is missing. *)
LEMMA ViewElements ==
    ASSUME HistoryOK
    PROVE  /\ View \in Seq(ViewElement) /\ Len(View) \in Nat /\ DOMAIN View = 1..Len(View)
           /\ Len(View) = Len(KeptView) + (IF SummaryIds = {} THEN 0 ELSE 1)
           /\ \A p \in 1..Len(View) :
                 \/ /\ SummaryIds # {} /\ p = Offset
                    /\ View[p] = Condensed(history[Max(SummaryIds)].tells)
                 \/ /\ SummaryIds = {} \/ p < Offset
                    /\ p \in 1..Len(KeptView) /\ View[p] = KeptView[p]
                 \/ /\ SummaryIds # {} /\ p > Offset
                    /\ p - 1 \in 1..Len(KeptView) /\ View[p] = KeptView[p - 1]
           /\ \A i \in KeptIds : \E p \in 1..Len(View) : View[p] = Element(i)
<1>1. /\ KeptView \in Seq(ViewElement) /\ Len(KeptView) \in Nat
      /\ Offset \in 1..(Len(KeptView) + 1) /\ Offset \in Nat
  BY KeptType, OffsetType
<1>2. /\ View \in Seq(ViewElement) /\ Len(View) \in Nat /\ DOMAIN View = 1..Len(View)
      /\ Len(View) = Len(KeptView) + (IF SummaryIds = {} THEN 0 ELSE 1)
  BY <1>1, PlainView, SummarizedView
<1>3. ASSUME NEW p \in 1..Len(View), SummaryIds = {}
      PROVE  p \in 1..Len(KeptView) /\ View[p] = KeptView[p]
  BY <1>3, PlainView
<1>4. ASSUME NEW p \in 1..Len(View), SummaryIds # {}
      PROVE  \/ p = Offset /\ View[p] = Condensed(history[Max(SummaryIds)].tells)
             \/ p \in 1..Len(KeptView) /\ View[p] = KeptView[p] /\ p < Offset
             \/ p > Offset /\ p - 1 \in 1..Len(KeptView) /\ View[p] = KeptView[p - 1]
  <2>1. p \in Nat /\ 1 <= p /\ p <= Len(KeptView) + 1
    BY <1>1, <1>2, <1>4
  <2>2. CASE p = Offset
    BY <1>4, <2>2, SummarizedView
  <2>3. CASE p < Offset
    BY <1>1, <1>4, <2>1, <2>3, SummarizedView
  <2>4. CASE p > Offset
    BY <1>1, <1>4, <2>1, <2>4, SummarizedView
  <2> QED
    BY <1>1, <2>1, <2>2, <2>3, <2>4
<1>5. ASSUME NEW i \in KeptIds
      PROVE  \E p \in 1..Len(View) : View[p] = Element(i)
  <2>1. /\ Len(history) \in Nat /\ KeptIds \in SUBSET (1..Len(history))
        /\ Len(KeptView) = Cardinality(KeptIds)
        /\ \A k \in 1..Len(KeptView) : KeptView[k] = Element(Place(KeptIds, k))
    BY KeptType
  <2>2. PICK k \in 1..Len(KeptView) : Place(KeptIds, k) = i
    BY <2>1, PlaceIs
  <2>3. KeptView[k] = Element(i)
    BY <2>1, <2>2
  <2>4. k \in Nat /\ 1 <= k /\ k <= Len(KeptView)
    BY <1>1
  <2>5. CASE SummaryIds = {}
    BY <2>3, <2>5, PlainView
  <2>6. CASE SummaryIds # {} /\ k < Offset
    BY <1>1, <1>2, <2>3, <2>4, <2>6, SummarizedView
  <2>7. CASE SummaryIds # {} /\ k >= Offset
    <3>1. k + 1 \in 1..Len(View) /\ k + 1 > Offset /\ (k + 1) - 1 = k
      BY <1>1, <1>2, <2>4, <2>7
    <3>2. View[k + 1] = KeptView[(k + 1) - 1]
      BY <2>7, <3>1, SummarizedView
    <3> QED
      BY <2>3, <3>1, <3>2
  <2> QED
    BY <1>1, <2>4, <2>5, <2>6, <2>7
<1>6. ASSUME NEW p \in 1..Len(View)
      PROVE  \/ /\ SummaryIds # {} /\ p = Offset
                /\ View[p] = Condensed(history[Max(SummaryIds)].tells)
             \/ /\ SummaryIds = {} \/ p < Offset
                /\ p \in 1..Len(KeptView) /\ View[p] = KeptView[p]
             \/ /\ SummaryIds # {} /\ p > Offset
                /\ p - 1 \in 1..Len(KeptView) /\ View[p] = KeptView[p - 1]
  BY <1>3, <1>4
<1> QED
  BY <1>2, <1>5, <1>6

LEMMA ElementIs ==
    \A i : /\ Element(i).id = i /\ Element(i).kind = history[i].kind
          /\ Element(i).of = history[i].of /\ Element(i).tells = {}
<1> SUFFICES ASSUME NEW i
             PROVE  /\ Element(i).id = i /\ Element(i).kind = history[i].kind
                    /\ Element(i).of = history[i].of /\ Element(i).tells = {}
  OBVIOUS
<1> QED
  BY DEF Element

LEMMA ViewTypes ==
    ASSUME HistoryOK, CondenseTypeOK
    PROVE  \A p \in 1..Len(View) :
              /\ View[p] \in ViewElement
              /\ View[p].id \in 0..Len(history) /\ View[p].tells \subseteq 1..Len(history)
<1>1. /\ DOMAIN history = 1..Len(history) /\ Len(history) \in Nat
      /\ KeptIds \in SUBSET (1..Len(history))
      /\ \A k \in 1..Len(KeptView) :
            /\ Place(KeptIds, k) \in KeptIds
            /\ KeptView[k] = Element(Place(KeptIds, k))
  BY KeptType
<1>2. \A k \in 1..Len(KeptView) :
         KeptView[k].id \in 0..Len(history) /\ KeptView[k].tells \subseteq 1..Len(history)
  <2> SUFFICES ASSUME NEW k \in 1..Len(KeptView)
               PROVE  /\ KeptView[k].id \in 0..Len(history)
                      /\ KeptView[k].tells \subseteq 1..Len(history)
    OBVIOUS
  <2>1. Place(KeptIds, k) \in 1..Len(history)
    BY <1>1
  <2>2. KeptView[k].id = Place(KeptIds, k) /\ KeptView[k].tells = {}
    BY <1>1, ElementIs
  <2> QED
    BY <1>1, <2>1, <2>2
<1>3. ASSUME SummaryIds # {}
      PROVE  LET c == Condensed(history[Max(SummaryIds)].tells)
             IN  c.id \in 0..Len(history) /\ c.tells \subseteq 1..Len(history)
  <2>1. Max(SummaryIds) \in 1..Len(history) /\ Max(SummaryIds) \in Nat
    BY <1>1, <1>3, SummaryIdsType
  <2>2. history[Max(SummaryIds)].tells \subseteq 1..Max(SummaryIds) - 1
    BY <1>1, <2>1 DEF CondenseTypeOK
  <2>3. 1..Max(SummaryIds) - 1 \subseteq 1..Len(history)
    BY <1>1, <2>1
  <2> QED
    BY <1>1, <2>2, <2>3 DEF Condensed, NoId
<1>4. \A p \in 1..Len(View) : View[p] \in ViewElement
  <2>1. View \in Seq(ViewElement)
    BY ViewElements
  <2> QED
    BY <2>1
<1>5. ASSUME NEW p \in 1..Len(View)
      PROVE  View[p].id \in 0..Len(history) /\ View[p].tells \subseteq 1..Len(history)
  BY <1>2, <1>3, ViewElements
<1> QED
  BY <1>4, <1>5

(* Masking leaves what is no browser output as it is.                      *)
LEMMA MaskedIs ==
    ASSUME NEW v \in Seq(ViewElement)
    PROVE  /\ Masked(v) \in Seq(ViewElement) /\ Len(Masked(v)) = Len(v)
           /\ \A p \in 1..Len(v) :
                 /\ Masked(v)[p] \in {v[p], Condensed({})}
                 /\ v[p].kind # "page" => Masked(v)[p] = v[p]
<1>1. Condensed({}) \in ViewElement
  BY DEF Condensed, NoId, ViewElement
<1>2. DOMAIN v = 1..Len(v) /\ Len(v) \in Nat /\ \A p \in 1..Len(v) : v[p] \in ViewElement
  OBVIOUS
<1>3. /\ Masked(v) = [p \in 1..Len(v) |-> Masked(v)[p]]
      /\ \A p \in 1..Len(v) :
                 /\ Masked(v)[p] \in {v[p], Condensed({})}
                 /\ v[p].kind # "page" => Masked(v)[p] = v[p]
  BY <1>2 DEF Masked
<1>4. \A p \in 1..Len(v) : Masked(v)[p] \in ViewElement
  BY <1>1, <1>2, <1>3
<1>5. Masked(v) \in [1..Len(v) -> ViewElement]
  BY <1>3, <1>4
<1>6. Masked(v) \in Seq(ViewElement) /\ Len(Masked(v)) = Len(v)
  BY <1>2, <1>5
<1> QED
  BY <1>3, <1>6

(***************************************************************************)
(* A summary tells of what is between the head and the tail of a view that *)
(* is too long.                                                            *)
(***************************************************************************)
Middle(n) == KeepFirst + 1..n - (TargetSize - KeepFirst - 1)

LEMMA ToldIs ==
    ASSUME NEW v \in Seq(ViewElement), TooLong(v)
    PROVE  /\ Middle(Len(v)) \subseteq 1..Len(v) /\ KeepFirst + 1 \in 1..Len(v)
           /\ \A x : x \in Told(v) <=> x # NoId /\ \E p \in Middle(Len(v)) : v[p].id = x
<1> DEFINE n == Len(v)
           m == n - (TargetSize - KeepFirst - 1)
           b == SubSeq(v, KeepFirst + 1, m)
<1>1. /\ n \in Nat /\ n > MaxSize /\ DOMAIN v = 1..n
  BY DEF TooLong
<1>2. /\ m \in Nat /\ KeepFirst + 1 <= m /\ m <= n
      /\ KeepFirst + 1 \in 1..n
  BY <1>1, SizesFit
<1> HIDE DEF n
<1>3. \A p \in KeepFirst + 1..m : p \in 1..n
  BY <1>1, <1>2, SizesFit
<1> HIDE DEF m
<1>4. /\ Len(b) = m - KeepFirst /\ DOMAIN b = 1..(m - KeepFirst)
      /\ \A k \in 1..(m - KeepFirst) : b[k] = v[KeepFirst + k]
  BY <1>1, <1>2, SizesFit DEF n
<1> HIDE DEF b
<1>5. ASSUME NEW x
      PROVE  (\E k \in 1..(m - KeepFirst) : b[k].id = x)
                <=> (\E p \in KeepFirst + 1..m : v[p].id = x)
  <2>1. ASSUME NEW k \in 1..(m - KeepFirst), b[k].id = x
        PROVE  \E p \in KeepFirst + 1..m : v[p].id = x
    <3>1. KeepFirst + k \in KeepFirst + 1..m
      BY <1>2, SizesFit
    <3> QED
      BY <1>4, <2>1, <3>1
  <2>2. ASSUME NEW p \in KeepFirst + 1..m, v[p].id = x
        PROVE  \E k \in 1..(m - KeepFirst) : b[k].id = x
    <3>1. p - KeepFirst \in 1..(m - KeepFirst) /\ KeepFirst + (p - KeepFirst) = p
      BY <1>2, SizesFit
    <3>2. b[p - KeepFirst] = v[p]
      BY <1>4, <3>1
    <3> QED
      BY <2>2, <3>1, <3>2
  <2> QED
    BY <2>1, <2>2
<1>6. Told(v) = {b[k].id : k \in 1..(m - KeepFirst)} \ {NoId}
  BY <1>4 DEF Told, Ids, Between, b, m, n
<1>7. Middle(Len(v)) = KeepFirst + 1..m
  BY DEF Middle, m, n
<1>8. \A x : x \in Told(v) <=> x # NoId /\ \E p \in KeepFirst + 1..m : v[p].id = x
  <2> SUFFICES ASSUME NEW x
               PROVE  x \in Told(v) <=> x # NoId /\ \E p \in KeepFirst + 1..m : v[p].id = x
    OBVIOUS
  <2>1. x \in Told(v) <=> x # NoId /\ \E k \in 1..(m - KeepFirst) : b[k].id = x
    BY <1>6
  <2> QED
    BY <1>5, <2>1
<1> QED
  BY <1>2, <1>3, <1>7, <1>8 DEF n

LEMMA WindowIs ==
    ASSUME HistoryOK, CondenseTypeOK
    PROVE  /\ Window(View) \in HistoryEvent
           /\ Window(View).kind = "window" /\ Window(View).tells = {}
           /\ Window(View).forgets = Ids(View) \ (Essential(View) \cup Recent(View, Essential(View)))
           /\ Window(View).forgets \subseteq 0..Len(history)
<1>1. DOMAIN View = 1..Len(View) /\ Len(history) \in Nat
  BY ViewElements, KeptType
<1>2. \A p \in 1..Len(View) : View[p].id \in 0..Len(history)
  BY ViewTypes
<1>3. Ids(View) \subseteq 0..Len(history)
  BY <1>1, <1>2 DEF Ids
<1>4. \A x \in 0..Len(history) : x \in Nat
  BY <1>1
<1> DEFINE f == Ids(View) \ (Essential(View) \cup Recent(View, Essential(View)))
<1>5. f \subseteq 0..Len(history) /\ f \in SUBSET Nat
  BY <1>3, <1>4
<1>6. Window(View) = Condensation("window", f, {})
  BY DEF Window
<1> HIDE DEF f
<1>7. /\ Window(View) \in HistoryEvent /\ Window(View).kind = "window"
      /\ Window(View).tells = {} /\ Window(View).forgets = f
  BY <1>5, <1>6 DEF Condensation, HistoryEvent, EventKind, NoId
<1> QED
  BY <1>5, <1>7 DEF f

LEMMA SummarizeIs ==
    ASSUME HistoryOK, CondenseTypeOK, TooLong(Masked(View)), Told(Masked(View)) # {}
    PROVE  LET v == Masked(View)
               S == Summarize(v)
           IN  /\ S \in HistoryEvent /\ S.kind = "summary"
               /\ v \in Seq(ViewElement) /\ Len(v) = Len(View)
               /\ Told(v) \subseteq S.forgets /\ S.forgets \subseteq 1..Len(history)
               /\ S.tells = Told(v) \cup v[KeepFirst + 1].tells
               /\ S.tells \subseteq 1..Len(history)
               /\ \A x \in S.forgets : \E y, z \in Told(v) : y <= x /\ x <= z
<1> DEFINE v == Masked(View)
           t == Told(v)
           f == Min(t)..Max(t)
           u == t \cup v[KeepFirst + 1].tells
<1>1. View \in Seq(ViewElement) /\ Len(View) \in Nat /\ Len(history) \in Nat
  BY ViewElements, KeptType
<1>2. v \in Seq(ViewElement) /\ Len(v) = Len(View)
  BY <1>1, MaskedIs
<1>3. ASSUME NEW p \in 1..Len(View)
      PROVE  v[p].id \in 0..Len(history) /\ v[p].tells \subseteq 1..Len(history)
  <2>1. v[p] \in {View[p], Condensed({})}
    BY <1>1, MaskedIs
  <2>2. View[p].id \in 0..Len(history) /\ View[p].tells \subseteq 1..Len(history)
    BY ViewTypes
  <2>3. Condensed({}).id \in 0..Len(history) /\ Condensed({}).tells \subseteq 1..Len(history)
    BY <1>1 DEF Condensed, NoId
  <2> QED
    BY <2>1, <2>2, <2>3
<1>4. /\ Middle(Len(v)) \subseteq 1..Len(v) /\ KeepFirst + 1 \in 1..Len(v)
      /\ \A x : x \in t <=> x # NoId /\ \E p \in Middle(Len(v)) : v[p].id = x
  BY <1>2, ToldIs
<1> HIDE DEF v
<1>5. t \subseteq 1..Len(history) /\ t # {}
  <2>1. \A x \in t : x \in 0..Len(history) /\ x # 0
    BY <1>2, <1>3, <1>4 DEF NoId
  <2>2. \A x \in t : x \in 1..Len(history)
    BY <1>1, <2>1
  <2> QED
    BY <2>2 DEF v
<1> HIDE DEF t
<1>6. /\ Min(t) \in t /\ Max(t) \in t /\ \A x \in t : Min(t) <= x /\ x <= Max(t)
  <2>1. t \in SUBSET Nat /\ t \in SUBSET (0..Len(history))
    <3>1. \A x \in 1..Len(history) : x \in Nat /\ x \in 0..Len(history)
      BY <1>1
    <3> QED
      BY <1>5, <3>1
  <2> QED
    BY <1>1, <1>5, <2>1, MinIs, MaxIs
<1>7. t \subseteq f /\ f \subseteq 1..Len(history) /\ f \in SUBSET Nat
  <2>1. \A x \in t : x \in Nat /\ 1 <= x /\ x <= Len(history)
    BY <1>1, <1>5
  <2> QED
    BY <1>1, <1>6, <2>1
<1>8. u \subseteq 1..Len(history) /\ u \in SUBSET Nat
  <2>1. v[KeepFirst + 1].tells \subseteq 1..Len(history)
    BY <1>2, <1>3, <1>4
  <2>2. \A x \in 1..Len(history) : x \in Nat
    BY <1>1
  <2> QED
    BY <1>5, <2>1, <2>2
<1>9. \A x \in f : Min(t) <= x /\ x <= Max(t)
  BY <1>1, <1>5, <1>6
<1>10. Summarize(v) = Condensation("summary", f, u)
  BY DEF Summarize, f, u, t
<1> HIDE DEF f, u
<1>11. /\ Summarize(v) \in HistoryEvent /\ Summarize(v).kind = "summary"
       /\ Summarize(v).forgets = f /\ Summarize(v).tells = u
  BY <1>7, <1>8, <1>10 DEF Condensation, HistoryEvent, EventKind, NoId
<1> QED
  BY <1>2, <1>6, <1>7, <1>8, <1>9, <1>11 DEF v, t, u

(***************************************************************************)
(* An event is added to the history.                                       *)
(***************************************************************************)
LEMMA Added ==
    ASSUME HistoryOK, NEW e \in HistoryEvent, Add(<<e>>)
    PROVE  /\ HistoryOK' /\ Len(history') = Len(history) + 1
           /\ DOMAIN history' = 1..(Len(history) + 1)
           /\ history'[Len(history) + 1] = e
           /\ \A i \in 1..Len(history) : history'[i] = history[i]
<1>1. history \in Seq(HistoryEvent) /\ Len(history) \in Nat /\ Len(history) >= 1
  BY DEF HistoryOK
<1>2. history' = history \o <<e>>
  BY DEF Add
<1>3. /\ history' \in Seq(HistoryEvent) /\ Len(history') = Len(history) + 1
      /\ history'[Len(history) + 1] = e
      /\ \A i \in 1..Len(history) : history'[i] = history[i]
  BY <1>1, <1>2
<1> QED
  BY <1>1, <1>3 DEF HistoryOK

LEMMA AddedTwo ==
    ASSUME HistoryOK, NEW e \in HistoryEvent, NEW f \in HistoryEvent, Add(<<e, f>>)
    PROVE  /\ HistoryOK' /\ Len(history') = Len(history) + 2
           /\ DOMAIN history' = 1..(Len(history) + 2)
           /\ history'[Len(history) + 1] = e /\ history'[Len(history) + 2] = f
           /\ \A i \in 1..Len(history) : history'[i] = history[i]
<1>1. history \in Seq(HistoryEvent) /\ Len(history) \in Nat /\ Len(history) >= 1
  BY DEF HistoryOK
<1>2. history' = history \o <<e, f>>
  BY DEF Add
<1>3. /\ history' \in Seq(HistoryEvent) /\ Len(history') = Len(history) + 2
      /\ history'[Len(history) + 1] = e /\ history'[Len(history) + 2] = f
      /\ \A i \in 1..Len(history) : history'[i] = history[i]
  BY <1>1, <1>2
<1> QED
  BY <1>1, <1>3 DEF HistoryOK

LEMMA EventIs ==
    ASSUME NEW kind \in EventKind, NEW of \in Nat
    PROVE  /\ Event(kind, of) \in HistoryEvent
           /\ Event(kind, of).kind = kind /\ Event(kind, of).of = of
           /\ Event(kind, of).forgets = {} /\ Event(kind, of).tells = {}
BY DEF Event, HistoryEvent

(***************************************************************************)
(* What a step adds: one event, or a message of the user with its recall.  *)
(* A case for each kind, and what is known of the event.                   *)
(***************************************************************************)
MessageAdded ==
    /\ Add(<<Event("user", NoId), Event("recall", Len(history) + 1)>>)
    /\ awaited' \in open' \cup {NoId} /\ open' \subseteq open \cup {Len(history) + 2}
    /\ resting' \in BOOLEAN

PlainAdded(e) ==
    /\ e.kind \in {"context", "output", "page", "action", "answer", "request"}
    /\ e.forgets = {} /\ e.tells = {}
    /\ e.kind = "page" => browses

WindowAdded(e) == UnhandledRequest /\ e = Window(View)

SummaryAdded(e) ==
    /\ ~UnhandledRequest /\ TooLong(Masked(View)) /\ Told(Masked(View)) # {}
    /\ e = Summarize(Masked(View))

OneAdded ==
    /\ open # {} \/ ~resting
    /\ \E e \in HistoryEvent :
          /\ Add(<<e>>)
          /\ PlainAdded(e) \/ WindowAdded(e) \/ SummaryAdded(e)
    /\ awaited' \in open' \cup {NoId} /\ open' \subseteq open \cup {Len(history) + 1}
    /\ resting' \in BOOLEAN

NothingAdded ==
    /\ history' = history /\ awaited' \in open' \cup {NoId} /\ open' \subseteq open
    /\ resting' = resting

LEMMA StepAdds ==
    ASSUME HistoryOK, CondenseTypeOK, [CondenseNext]_condenseVars
    PROVE  browses' = browses /\ (MessageAdded \/ OneAdded \/ NothingAdded)
<1>1. /\ Len(history) \in Nat /\ DOMAIN history = 1..Len(history)
      /\ awaited \in open \cup {NoId} /\ resting \in BOOLEAN /\ open \subseteq 1..Len(history)
  BY KeptType DEF CondenseTypeOK
<1>2. CASE UserMessage
  BY <1>1, <1>2 DEF UserMessage, MessageAdded
<1>3. ASSUME NEW a \in open, NEW kind \in {"context", "nothing", "output", "page"},
             Observe(a, kind)
      PROVE  browses' = browses /\ (OneAdded \/ NothingAdded)
  <2>1. /\ awaited' \in open' \cup {NoId} /\ open' \subseteq open
        /\ resting' = resting /\ browses' = browses /\ open # {}
    BY <1>1, <1>3 DEF Observe
  <2>2. CASE kind = "nothing"
    BY <1>3, <2>1, <2>2 DEF Observe, NothingAdded
  <2>3. CASE kind # "nothing"
    <3>1. /\ Event(kind, a) \in HistoryEvent /\ Event(kind, a).kind = kind
          /\ Event(kind, a).forgets = {} /\ Event(kind, a).tells = {}
      BY <1>1, <2>3, EventIs DEF EventKind
    <3>2. Add(<<Event(kind, a)>>)
      BY <1>3, <2>3 DEF Observe
    <3>3. kind = "page" => browses
      BY <1>3 DEF Observe
    <3>4. PlainAdded(Event(kind, a))
      BY <2>3, <3>1, <3>3 DEF PlainAdded
    <3> QED
      BY <1>1, <2>1, <3>1, <3>2, <3>4 DEF OneAdded
  <2> QED
    BY <2>2, <2>3
<1>4. CASE CondenseForRequest
  <2>1. Window(View) \in HistoryEvent /\ WindowAdded(Window(View))
    BY <1>4, WindowIs DEF CondenseForRequest, WindowAdded
  <2> QED
    BY <1>1, <1>4, <2>1 DEF CondenseForRequest, Steps, OneAdded
<1>5. CASE CondenseForSize
  <2>1. /\ Summarize(Masked(View)) \in HistoryEvent
        /\ SummaryAdded(Summarize(Masked(View)))
    BY <1>5, SummarizeIs DEF CondenseForSize, SummaryAdded
  <2> QED
    BY <1>1, <1>5, <2>1 DEF CondenseForSize, Steps, OneAdded
<1>6. ASSUME NEW kind \in {"action", "answer", "request"}
      PROVE  Event(kind, NoId) \in HistoryEvent /\ PlainAdded(Event(kind, NoId))
  <2>1. kind \in EventKind /\ NoId \in Nat
    BY DEF EventKind, NoId
  <2> QED
    BY <2>1, EventIs DEF PlainAdded
<1>7. CASE Act
  BY <1>1, <1>6, <1>7 DEF Act, Asks, Steps, OneAdded
<1>8. CASE Answer
  BY <1>1, <1>6, <1>8 DEF Answer, Asks, Steps, OneAdded
<1>9. CASE RequestCondensation
  BY <1>1, <1>6, <1>9 DEF RequestCondensation, Steps, OneAdded
<1>10. CASE UNCHANGED condenseVars
  BY <1>1, <1>10 DEF condenseVars, NothingAdded
<1> QED
  BY <1>2, <1>3, <1>4, <1>5, <1>7, <1>8, <1>9, <1>10 DEF CondenseNext

(***************************************************************************)
(* Types.                                                                  *)
(***************************************************************************)
CondenseTypes == HistoryOK /\ CondenseTypeOK

LEMMA TypesStart == CondenseInit => CondenseTypes
<1> SUFFICES ASSUME CondenseInit PROVE CondenseTypes
  OBVIOUS
<1>1. /\ Event("system", NoId) \in HistoryEvent
      /\ Event("system", NoId).forgets = {} /\ Event("system", NoId).tells = {}
  BY EventIs DEF EventKind, NoId
<1>2. /\ history = <<Event("system", NoId)>> /\ awaited = NoId /\ open = {} /\ resting = TRUE
      /\ browses \in BOOLEAN
  BY CondenseAssumption DEF CondenseInit
<1>3. /\ history \in Seq(HistoryEvent) /\ Len(history) = 1 /\ DOMAIN history = {1}
      /\ history[1] = Event("system", NoId)
  BY <1>1, <1>2
<1> QED
  BY <1>1, <1>2, <1>3 DEF CondenseTypes, HistoryOK, CondenseTypeOK

LEMMA TypesKept == CondenseTypes /\ [CondenseNext]_condenseVars => CondenseTypes'
<1> SUFFICES ASSUME HistoryOK, CondenseTypeOK, [CondenseNext]_condenseVars
             PROVE  HistoryOK' /\ CondenseTypeOK'
  BY DEF CondenseTypes
<1> DEFINE n == Len(history)
<1>1. /\ n \in Nat /\ DOMAIN history = 1..n
      /\ awaited \in open \cup {NoId} /\ open \subseteq 1..n
      /\ resting \in BOOLEAN /\ browses \in BOOLEAN
      /\ \A i \in 1..n :
            history[i].forgets \subseteq 0..i - 1 /\ history[i].tells \subseteq 1..i - 1
  BY KeptType DEF CondenseTypeOK
<1> HIDE DEF n
<1>2. browses' = browses /\ (MessageAdded \/ OneAdded \/ NothingAdded)
  BY StepAdds
<1>3. CASE MessageAdded
  <2>1. /\ Event("user", NoId) \in HistoryEvent /\ Event("recall", n + 1) \in HistoryEvent
        /\ Event("user", NoId).forgets = {} /\ Event("user", NoId).tells = {}
        /\ Event("recall", n + 1).forgets = {} /\ Event("recall", n + 1).tells = {}
    BY <1>1, EventIs DEF EventKind, NoId
  <2>2. /\ HistoryOK' /\ DOMAIN history' = 1..(n + 2)
        /\ history'[n + 1] = Event("user", NoId) /\ history'[n + 2] = Event("recall", n + 1)
        /\ \A i \in 1..n : history'[i] = history[i]
    BY <1>3, <2>1, AddedTwo DEF MessageAdded, n
  <2>3. \A i \in 1..(n + 2) : i \in 1..n \/ i = n + 1 \/ i = n + 2
    BY <1>1
  <2>4. \A i \in 1..(n + 2) :
           history'[i].forgets \subseteq 0..i - 1 /\ history'[i].tells \subseteq 1..i - 1
    BY <1>1, <2>1, <2>2, <2>3
  <2>5. open' \subseteq 1..(n + 2)
    BY <1>1, <1>3 DEF MessageAdded, n
  <2> QED
    BY <1>1, <1>2, <1>3, <2>2, <2>4, <2>5 DEF MessageAdded, CondenseTypeOK
<1>4. CASE OneAdded
  <2>1. PICK e \in HistoryEvent :
           Add(<<e>>) /\ (PlainAdded(e) \/ WindowAdded(e) \/ SummaryAdded(e))
    BY <1>4 DEF OneAdded
  <2>2. e.forgets \subseteq 0..n /\ e.tells \subseteq 1..n
    <3>1. CASE PlainAdded(e)
      BY <3>1 DEF PlainAdded
    <3>2. CASE WindowAdded(e)
      BY <3>2, WindowIs DEF WindowAdded, n
    <3>3. CASE SummaryAdded(e)
      <4>1. e.forgets \subseteq 1..n /\ e.tells \subseteq 1..n
        BY <3>3, SummarizeIs DEF SummaryAdded, n
      <4>2. 1..n \subseteq 0..n
        BY <1>1
      <4> QED
        BY <4>1, <4>2
    <3> QED
      BY <2>1, <3>1, <3>2, <3>3
  <2>3. /\ HistoryOK' /\ DOMAIN history' = 1..(n + 1) /\ history'[n + 1] = e
        /\ \A i \in 1..n : history'[i] = history[i]
    BY <2>1, Added DEF n
  <2>4. \A i \in 1..(n + 1) : i \in 1..n \/ (i = n + 1 /\ i - 1 = n)
    BY <1>1
  <2>5. \A i \in 1..(n + 1) :
           history'[i].forgets \subseteq 0..i - 1 /\ history'[i].tells \subseteq 1..i - 1
    BY <1>1, <2>2, <2>3, <2>4
  <2>6. open' \subseteq 1..(n + 1)
    BY <1>1, <1>4 DEF OneAdded, n
  <2> QED
    BY <1>1, <1>2, <1>4, <2>3, <2>5, <2>6 DEF OneAdded, CondenseTypeOK
<1>5. CASE NothingAdded
  BY <1>1, <1>2, <1>5 DEF NothingAdded, HistoryOK, CondenseTypeOK, n
<1> QED
  BY <1>2, <1>3, <1>4, <1>5

(* Types: the pending action and the open ones are events of the history,  *)
(* and every condensation forgets and tells only of what came before it    *)
(* (view.py:22).                                                           *)
THEOREM CondensingTypes == CondenseSpec => []CondenseTypeOK
<1>1. CondenseSpec => []CondenseTypes
  BY TypesStart, TypesKept, PTL DEF CondenseSpec
<1>2. CondenseTypes => CondenseTypeOK
  BY DEF CondenseTypes
<1> QED
  BY <1>1, <1>2, PTL

(***************************************************************************)
(* The task stays: the system message and the user's first message are     *)
(* never forgotten.                                                        *)
(***************************************************************************)
Headed ==
    /\ history[1].kind = "system"
    /\ Len(history) >= 2 => history[2].kind = "user"
    /\ Len(history) = 1 => open = {} /\ resting
    /\ \A i \in DOMAIN history : 1 \notin history[i].forgets /\ 2 \notin history[i].forgets

LEMMA HeadKept ==
    ASSUME HistoryOK, Headed, KeepFirst >= 2, NEW i \in {1, 2} \cap 1..Len(history)
    PROVE  /\ i \in KeptIds /\ i \in 1..Len(KeptView) /\ Place(KeptIds, i) = i
           /\ i < Offset
<1>1. /\ DOMAIN history = 1..Len(history) /\ Len(history) \in Nat
      /\ KeptIds \in SUBSET (1..Len(history))
      /\ Cardinality(KeptIds) \in Nat /\ Len(KeptView) = Cardinality(KeptIds)
  BY KeptType
<1>2. \A j \in {1, 2} \cap 1..Len(history) : j \in KeptIds
  <2> SUFFICES ASSUME NEW j \in {1, 2} \cap 1..Len(history)
               PROVE  j \notin Forgotten
    BY <1>1 DEF KeptIds
  <2>1. j \in DOMAIN history /\ history[j].kind \in {"system", "user"}
    BY <1>1 DEF Headed
  <2>2. j \notin CondensationIds /\ j \notin RequestIds
    BY <2>1 DEF CondensationIds, RequestIds, IsCondensation
  <2>3. \A c \in CondensationIds : j \notin history[c].forgets
    BY <1>1 DEF CondensationIds, Headed
  <2> QED
    BY <2>2, <2>3 DEF Forgotten
<1>3. /\ Rank(KeptIds, 0) = 0
      /\ \A j \in Int :
            Rank(KeptIds, j) = IF j \in KeptIds THEN Rank(KeptIds, j - 1) + 1
                               ELSE Rank(KeptIds, j - 1)
  <2> DEFINE n == Len(history)
             K == KeptIds
  <2>1. n \in Nat /\ K \in SUBSET (1..n)
    BY <1>1
  <2> HIDE DEF n, K
  <2>2. Rank(K, 0) = 0
    <3>1. \A j \in Int : j < 1 => Rank(K, j) = 0
      BY <2>1, RankType
    <3> QED
      BY <3>1
  <2>3. \A j \in Int : Rank(K, j) = IF j \in K THEN Rank(K, j - 1) + 1 ELSE Rank(K, j - 1)
    BY <2>1, RankStep
  <2> QED
    BY <2>2, <2>3 DEF K
<1>4. 1 \in 1..Len(history)
  BY <1>1 DEF HistoryOK
<1>5. Rank(KeptIds, 1) = 1
  <2>1. 1 \in KeptIds /\ 1 \in Int /\ 1 - 1 = 0
    BY <1>2, <1>4
  <2> QED
    BY <1>3, <2>1
<1>6. i = 2 => Rank(KeptIds, 2) = 2
  <2> SUFFICES ASSUME i = 2 PROVE Rank(KeptIds, 2) = 2
    OBVIOUS
  <2>1. 2 \in KeptIds /\ 2 \in Int /\ 2 - 1 = 1
    BY <1>2
  <2> QED
    BY <1>3, <1>5, <2>1
<1>7. i \in KeptIds /\ Rank(KeptIds, i) = i /\ i \in {1, 2}
  BY <1>2, <1>5, <1>6
<1>8. i \in 1..Cardinality(KeptIds) /\ Place(KeptIds, i) = i
  BY <1>1, <1>7, PlaceIs
<1>9. i < Offset
  <2>1. KeepFirst \in Nat /\ Offset \in Nat
        /\ (KeepFirst <= Len(KeptView) => Offset = KeepFirst + 1)
        /\ (Len(KeptView) < KeepFirst => Offset = Len(KeptView) + 1)
    BY <1>1, OffsetType, SizesFit
  <2> QED
    BY <1>1, <1>7, <1>8, <2>1
<1> QED
  BY <1>1, <1>7, <1>8, <1>9

LEMMA ViewHead ==
    ASSUME HistoryOK, Headed, KeepFirst >= 2
    PROVE  /\ \A i \in {1, 2} \cap 1..Len(history) : i \in 1..Len(View) /\ View[i] = Element(i)
           /\ Len(history) >= 2 =>
                 \A p \in 1..Len(View) : p >= 3 => View[p].id # 1 /\ View[p].id # 2
<1>1. /\ DOMAIN history = 1..Len(history) /\ Len(history) \in Nat
      /\ KeptIds \in SUBSET (1..Len(history))
      /\ Cardinality(KeptIds) \in Nat /\ Len(KeptView) = Cardinality(KeptIds)
      /\ \A k \in 1..Len(KeptView) : KeptView[k] = Element(Place(KeptIds, k))
  BY KeptType
<1>2. Len(View) \in Nat /\ Len(View) >= Len(KeptView) /\ Offset \in Nat
  BY <1>1, ViewElements, OffsetType
<1>3. ASSUME NEW i \in {1, 2} \cap 1..Len(history)
      PROVE  i \in 1..Len(View) /\ View[i] = Element(i)
  <2>1. i \in 1..Len(KeptView) /\ Place(KeptIds, i) = i /\ i < Offset
    BY <1>3, HeadKept
  <2>2. KeptView[i] = Element(i)
    BY <1>1, <2>1
  <2>3. i \in 1..Len(View)
    BY <1>1, <1>2, <2>1
  <2>4. View[i] = KeptView[i]
    BY <2>1, <2>3, PlainView, SummarizedView
  <2> QED
    BY <2>2, <2>3, <2>4
<1>4. ASSUME Len(history) >= 2, NEW p \in 1..Len(View), p >= 3
      PROVE  View[p].id # 1 /\ View[p].id # 2
  <2>1. 2 \in {1, 2} \cap 1..Len(history)
    BY <1>1, <1>4
  <2>2. 2 \in 1..Len(KeptView) /\ Place(KeptIds, 2) = 2 /\ 2 < Offset
    BY <2>1, HeadKept
  <2>3. ASSUME NEW k \in 1..Len(KeptView), k >= 3
        PROVE  KeptView[k].id # 1 /\ KeptView[k].id # 2
    <3> DEFINE n == Len(history)
               K == KeptIds
    <3>1. /\ n \in Nat /\ K \in SUBSET (1..n) /\ 2 \in 1..Cardinality(K)
          /\ k \in 1..Cardinality(K) /\ 2 < k
      BY <1>1, <2>2, <2>3
    <3>2. KeptView[k].id = Place(K, k) /\ Place(K, k) \in K /\ Place(K, 2) = 2
      BY <1>1, <2>2, <2>3, ElementIs, KeptType
    <3> HIDE DEF n, K
    <3>3. Place(K, 2) < Place(K, k)
      BY <3>1, PlaceGrows
    <3>4. Place(K, k) \in Int
      <4>1. Place(K, k) \in 1..n
        BY <3>1, <3>2
      <4> QED
        BY <3>1, <4>1
    <3> QED
      BY <3>2, <3>3, <3>4
  <2>4. CASE p = Offset /\ View[p] = Condensed(history[Max(SummaryIds)].tells)
    BY <2>4 DEF Condensed, NoId
  <2>5. CASE p \in 1..Len(KeptView) /\ View[p] = KeptView[p]
    BY <1>4, <2>3, <2>5
  <2>6. CASE p > Offset /\ p - 1 \in 1..Len(KeptView) /\ View[p] = KeptView[p - 1]
    <3>1. p - 1 >= 3
      BY <1>2, <2>2, <2>6
    <3> QED
      BY <2>3, <2>6, <3>1
  <2> QED
    BY <2>4, <2>5, <2>6, ViewElements
<1> QED
  BY <1>3, <1>4

(* A window keeps the two as essential ...                                 *)
LEMMA WindowKeepsHead ==
    ASSUME HistoryOK, CondenseTypeOK, Headed, KeepFirst >= 2, Len(history) >= 2
    PROVE  1 \notin Window(View).forgets /\ 2 \notin Window(View).forgets
<1>1. DOMAIN View = 1..Len(View) /\ Len(View) \in Nat /\ Len(history) \in Nat
  BY ViewElements, KeptType
<1>2. 1 \in {1, 2} \cap 1..Len(history) /\ 2 \in {1, 2} \cap 1..Len(history)
  BY <1>1
<1>3. /\ 1 \in 1..Len(View) /\ 2 \in 1..Len(View)
      /\ View[1] = Element(1) /\ View[2] = Element(2)
  BY <1>2, ViewHead
<1>4. /\ View[1].id = 1 /\ View[2].id = 2
      /\ View[1].kind = "system" /\ View[2].kind = "user"
  BY <1>3, ElementIs DEF Headed
<1> DEFINE S == {k \in DOMAIN View : View[k].kind = "system"}
           U == {k \in DOMAIN View : View[k].kind = "user"}
<1>5. Min(S) = 1
  <2>1. S \in SUBSET Nat /\ 1 \in S /\ \A k \in S : k \in Nat /\ 1 <= k
    BY <1>1, <1>3, <1>4
  <2>2. Min(S) \in S /\ Min(S) <= 1
    BY <2>1, MinIs
  <2> QED
    BY <2>1, <2>2
<1>6. Min(U) = 2
  <2>1. U \in SUBSET Nat /\ 2 \in U /\ 1 \notin U /\ \A k \in U : k \in Nat /\ 1 <= k
    BY <1>1, <1>3, <1>4
  <2>2. Min(U) \in U /\ Min(U) <= 2
    BY <2>1, MinIs
  <2> QED
    BY <2>1, <2>2
<1>7. S # {} /\ U # {}
  BY <1>1, <1>3, <1>4
<1>8. {View[Min(S)].id} \subseteq Essential(View) /\ {View[Min(U)].id} \subseteq Essential(View)
  BY <1>7 DEF Essential, First
<1>9. 1 \in Essential(View) /\ 2 \in Essential(View)
  BY <1>4, <1>5, <1>6, <1>8
<1> QED
  BY <1>9, WindowIs

(* ... and a summary does not reach the head.                              *)
LEMMA SummaryKeepsHead ==
    ASSUME HistoryOK, CondenseTypeOK, Headed, KeepFirst >= 2, Len(history) >= 2,
           TooLong(Masked(View)), Told(Masked(View)) # {}
    PROVE  1 \notin Summarize(Masked(View)).forgets /\ 2 \notin Summarize(Masked(View)).forgets
<1> DEFINE v == Masked(View)
<1>1. View \in Seq(ViewElement) /\ Len(View) \in Nat
  BY ViewElements
<1>2. /\ v \in Seq(ViewElement) /\ Len(v) = Len(View)
      /\ \A p \in 1..Len(View) : v[p] \in {View[p], Condensed({})}
  BY <1>1, MaskedIs
<1>3. /\ Middle(Len(v)) \subseteq 1..Len(v)
      /\ \A x : x \in Told(v) <=> x # NoId /\ \E p \in Middle(Len(v)) : v[p].id = x
  BY <1>2, ToldIs
<1>4. /\ Told(v) \subseteq Summarize(v).forgets /\ Summarize(v).forgets \subseteq 1..Len(history)
      /\ \A x \in Summarize(v).forgets : \E y \in Told(v) : y <= x
  BY SummarizeIs
<1> HIDE DEF v
<1>5. \A p \in Middle(Len(v)) : p >= 3
  BY <1>1, <1>2, SizesFit DEF Middle
<1>6. ASSUME NEW y \in Told(v)
      PROVE  y \in Nat /\ y >= 3
  <2>1. PICK p \in Middle(Len(v)) : v[p].id = y /\ y # NoId
    BY <1>3
  <2>2. p \in 1..Len(View) /\ p >= 3
    BY <1>2, <1>3, <1>5
  <2>3. v[p] = View[p]
    BY <1>2, <2>1, <2>2 DEF Condensed
  <2>4. y # 1 /\ y # 2
    BY <2>1, <2>2, <2>3, ViewHead
  <2>5. y \in 1..Len(history) /\ Len(history) \in Nat
    BY <1>4, KeptType
  <2> QED
    BY <2>4, <2>5
<1>7. \A x \in Summarize(v).forgets : x \in Nat /\ x >= 3
  <2>1. \A x \in Summarize(v).forgets : x \in Nat
    BY <1>4, KeptType
  <2> QED
    BY <1>4, <1>6, <2>1
<1>8. 1 \notin Summarize(v).forgets /\ 2 \notin Summarize(v).forgets
  BY <1>7
<1> QED
  BY <1>8 DEF v

LEMMA HeadedStart == CondenseInit => Headed
<1> SUFFICES ASSUME CondenseInit PROVE Headed
  OBVIOUS
<1>1. /\ Event("system", NoId).kind = "system" /\ Event("system", NoId).forgets = {}
  BY EventIs DEF EventKind, NoId
<1>2. /\ history = <<Event("system", NoId)>> /\ open = {} /\ resting = TRUE
      /\ Len(history) = 1 /\ DOMAIN history = {1} /\ history[1] = Event("system", NoId)
  BY DEF CondenseInit
<1> QED
  BY <1>1, <1>2 DEF Headed

LEMMA HeadedStays ==
    ASSUME KeepFirst >= 2
    PROVE  CondenseTypes /\ Headed /\ [CondenseNext]_condenseVars => Headed'
<1> SUFFICES ASSUME HistoryOK, CondenseTypeOK, Headed, [CondenseNext]_condenseVars
             PROVE  Headed'
  BY DEF CondenseTypes
<1> DEFINE n == Len(history)
<1>1. n \in Nat /\ n >= 1 /\ DOMAIN history = 1..n /\ 1 \in 1..n
  BY KeptType DEF HistoryOK
<1>2. /\ history[1].kind = "system" /\ (n >= 2 => history[2].kind = "user")
      /\ (n = 1 => open = {} /\ resting)
      /\ \A i \in 1..n : 1 \notin history[i].forgets /\ 2 \notin history[i].forgets
  BY <1>1 DEF Headed
<1> HIDE DEF n
<1>3. CASE MessageAdded
  <2>1. /\ Event("user", NoId) \in HistoryEvent /\ Event("recall", n + 1) \in HistoryEvent
        /\ Event("user", NoId).kind = "user"
        /\ Event("user", NoId).forgets = {} /\ Event("recall", n + 1).forgets = {}
    BY <1>1, EventIs DEF EventKind, NoId
  <2>2. /\ Len(history') = n + 2 /\ DOMAIN history' = 1..(n + 2)
        /\ history'[n + 1] = Event("user", NoId) /\ history'[n + 2] = Event("recall", n + 1)
        /\ \A i \in 1..n : history'[i] = history[i]
    BY <1>3, <2>1, AddedTwo DEF MessageAdded, n
  <2>3. \A i \in 1..(n + 2) : i \in 1..n \/ i = n + 1 \/ i = n + 2
    BY <1>1
  <2>4. \A i \in 1..(n + 2) : 1 \notin history'[i].forgets /\ 2 \notin history'[i].forgets
    BY <1>2, <2>1, <2>2, <2>3
  <2>5. history'[1].kind = "system"
    BY <1>1, <1>2, <2>2
  <2>6. history'[2].kind = "user"
    <3>1. CASE n = 1
      BY <2>1, <2>2, <3>1
    <3>2. CASE n # 1
      <4>1. n >= 2 /\ 2 \in 1..n
        BY <1>1, <3>2
      <4> QED
        BY <1>2, <2>2, <4>1
    <3> QED
      BY <3>1, <3>2
  <2>7. Len(history') # 1
    BY <1>1, <2>2
  <2> QED
    BY <2>2, <2>4, <2>5, <2>6, <2>7 DEF Headed
<1>4. CASE OneAdded
  <2>1. PICK e \in HistoryEvent :
           Add(<<e>>) /\ (PlainAdded(e) \/ WindowAdded(e) \/ SummaryAdded(e))
    BY <1>4 DEF OneAdded
  <2>2. n >= 2 /\ 2 \in 1..n
    BY <1>1, <1>2, <1>4 DEF OneAdded
  <2>3. 1 \notin e.forgets /\ 2 \notin e.forgets
    <3>1. CASE PlainAdded(e)
      BY <3>1 DEF PlainAdded
    <3>2. CASE WindowAdded(e)
      BY <2>2, <3>2, WindowKeepsHead DEF WindowAdded, n
    <3>3. CASE SummaryAdded(e)
      BY <2>2, <3>3, SummaryKeepsHead DEF SummaryAdded, n
    <3> QED
      BY <2>1, <3>1, <3>2, <3>3
  <2>4. /\ Len(history') = n + 1 /\ DOMAIN history' = 1..(n + 1) /\ history'[n + 1] = e
        /\ \A i \in 1..n : history'[i] = history[i]
    BY <2>1, Added DEF n
  <2>5. \A i \in 1..(n + 1) : i \in 1..n \/ i = n + 1
    BY <1>1
  <2>6. \A i \in 1..(n + 1) : 1 \notin history'[i].forgets /\ 2 \notin history'[i].forgets
    BY <1>2, <2>3, <2>4, <2>5
  <2>7. history'[1].kind = "system" /\ history'[2].kind = "user" /\ Len(history') # 1
    BY <1>1, <1>2, <2>2, <2>4
  <2> QED
    BY <2>4, <2>6, <2>7 DEF Headed
<1>5. CASE NothingAdded
  <2>1. open' \subseteq open /\ resting' = resting /\ history' = history
    BY <1>5 DEF NothingAdded
  <2> QED
    BY <2>1 DEF Headed
<1> QED
  BY <1>3, <1>4, <1>5, StepAdds

(* Whatever is condensed and however often, the system message and the     *)
(* user's first message stay at the head of what the LLM is asked with: a  *)
(* window counts both as essential (conversation_window_condenser.py:95),  *)
(* and a summary keeps the first KeepFirst of the view.  The server keeps  *)
(* four (session.py:238); with one, the default, the first message of the  *)
(* user is in the first summary.                                           *)
THEOREM TaskStays ==
    ASSUME KeepFirst >= 2
    PROVE  CondenseSpec => []TaskKept
<1>1. CondenseInit => CondenseTypes /\ Headed
  BY TypesStart, HeadedStart
<1>2. CondenseTypes /\ Headed /\ [CondenseNext]_condenseVars => (CondenseTypes /\ Headed)'
  BY TypesKept, HeadedStays
<1>3. CondenseTypes /\ Headed => TaskKept
  <2> SUFFICES ASSUME HistoryOK, Headed
               PROVE  TaskKept
    BY DEF CondenseTypes
  <2>1. DOMAIN history = 1..Len(history) /\ DOMAIN View = 1..Len(View)
    BY KeptType, ViewElements
  <2>2. \A i \in {1, 2} \cap 1..Len(history) : i \in 1..Len(View) /\ View[i] = Element(i)
    BY ViewHead
  <2>3. \A i \in {1, 2} \cap 1..Len(history) : i \in 1..Len(View) /\ View[i].id = i
    BY <2>2, ElementIs
  <2> QED
    BY <2>1, <2>3 DEF TaskKept
<1> QED
  BY <1>1, <1>2, <1>3, PTL DEF CondenseSpec

(***************************************************************************)
(* No event is lost between two summaries: a summary tells of all that the *)
(* ones before it told of.                                                 *)
(***************************************************************************)
SummariesAddUp ==
    \A i, j \in SummaryIds : i <= j => history[i].tells \subseteq history[j].tells

(* The element after the head of a view that is too long is the summary.   *)
LEMMA SummaryIsThere ==
    ASSUME HistoryOK, CondenseTypeOK, SummaryIds # {},
           TooLong(Masked(View)), Told(Masked(View)) # {}
    PROVE  history[Max(SummaryIds)].tells \subseteq Summarize(Masked(View)).tells
<1> DEFINE v == Masked(View)
           c == Condensed(history[Max(SummaryIds)].tells)
<1>1. View \in Seq(ViewElement) /\ Len(View) \in Nat
  BY ViewElements
<1>2. v \in Seq(ViewElement) /\ Len(v) = Len(View) /\ Len(View) > MaxSize
  BY <1>1, MaskedIs DEF TooLong
<1>3. Len(View) = Len(KeptView) + 1 /\ Len(KeptView) \in Nat
  BY KeptType, SummarizedView
<1>4. Offset = KeepFirst + 1 /\ KeepFirst + 1 \in 1..Len(View)
  BY <1>2, <1>3, OffsetType, SizesFit
<1>5. View[KeepFirst + 1] = c
  BY <1>4, SummarizedView
<1>6. c.kind = "condensed" /\ c.tells = history[Max(SummaryIds)].tells
  BY DEF Condensed
<1>7. v[KeepFirst + 1] = View[KeepFirst + 1]
  <2>1. View[KeepFirst + 1].kind # "page"
    BY <1>5, <1>6
  <2> QED
    BY <1>1, <1>4, <2>1, MaskedIs
<1>8. Summarize(v).tells = Told(v) \cup v[KeepFirst + 1].tells
  BY SummarizeIs
<1> QED
  BY <1>5, <1>6, <1>7, <1>8

LEMMA SummariesStillAddUp ==
    CondenseTypes /\ SummariesAddUp /\ [CondenseNext]_condenseVars => SummariesAddUp'
<1> SUFFICES ASSUME HistoryOK, CondenseTypeOK, SummariesAddUp, [CondenseNext]_condenseVars
             PROVE  SummariesAddUp'
  BY DEF CondenseTypes
<1> DEFINE n == Len(history)
<1>1. n \in Nat /\ DOMAIN history = 1..n
  BY KeptType
<1>2. \A i, j \in 1..n :
         history[i].kind = "summary" /\ history[j].kind = "summary" /\ i <= j
            => history[i].tells \subseteq history[j].tells
  BY <1>1 DEF SummariesAddUp, SummaryIds
<1>3. SummaryIds' = {i \in DOMAIN history' : history'[i].kind = "summary"}
  BY DEF SummaryIds
<1> HIDE DEF n
<1>4. CASE MessageAdded
  <2>1. /\ Event("user", NoId) \in HistoryEvent /\ Event("recall", n + 1) \in HistoryEvent
        /\ Event("user", NoId).kind = "user" /\ Event("recall", n + 1).kind = "recall"
    BY <1>1, EventIs DEF EventKind, NoId
  <2>2. /\ DOMAIN history' = 1..(n + 2)
        /\ history'[n + 1].kind = "user" /\ history'[n + 2].kind = "recall"
        /\ \A i \in 1..n : history'[i] = history[i]
    BY <1>4, <2>1, AddedTwo DEF MessageAdded, n
  <2>3. \A i \in 1..(n + 2) : i \in 1..n \/ i = n + 1 \/ i = n + 2
    BY <1>1
  <2>4. \A i \in SummaryIds' : i \in 1..n /\ history[i].kind = "summary"
    BY <1>3, <2>2, <2>3
  <2> QED
    BY <1>2, <2>2, <2>4 DEF SummariesAddUp
<1>5. CASE OneAdded
  <2>1. PICK e \in HistoryEvent :
           Add(<<e>>) /\ (PlainAdded(e) \/ WindowAdded(e) \/ SummaryAdded(e))
    BY <1>5 DEF OneAdded
  <2>2. /\ DOMAIN history' = 1..(n + 1) /\ history'[n + 1] = e
        /\ \A i \in 1..n : history'[i] = history[i]
    BY <2>1, Added DEF n
  <2>3. \A i \in 1..(n + 1) : i \in 1..n \/ i = n + 1
    BY <1>1
  <2>4. \A i \in SummaryIds' : \/ i \in 1..n /\ history[i].kind = "summary"
                               \/ i = n + 1 /\ e.kind = "summary"
    BY <1>3, <2>2, <2>3
  <2>5. ASSUME e.kind = "summary", NEW i \in 1..n, history[i].kind = "summary"
        PROVE  history[i].tells \subseteq e.tells
    <3>1. SummaryAdded(e)
      BY <2>1, <2>5, WindowIs DEF PlainAdded, WindowAdded
    <3>2. i \in SummaryIds
      BY <1>1, <2>5 DEF SummaryIds
    <3>3. history[i].tells \subseteq history[Max(SummaryIds)].tells
      BY <3>2, SummaryIdsType DEF SummariesAddUp
    <3>4. history[Max(SummaryIds)].tells \subseteq e.tells
      BY <3>1, <3>2, SummaryIsThere DEF SummaryAdded
    <3> QED
      BY <3>3, <3>4
  <2>6. ASSUME NEW i \in SummaryIds', NEW j \in SummaryIds', i <= j
        PROVE  history'[i].tells \subseteq history'[j].tells
    <3>1. i = n + 1 => j \notin 1..n
      BY <1>1, <2>6
    <3> QED
      BY <1>2, <2>2, <2>4, <2>5, <2>6, <3>1
  <2> QED
    BY <2>6 DEF SummariesAddUp
<1>6. CASE NothingAdded
  BY <1>6 DEF NothingAdded, SummariesAddUp, SummaryIds
<1> QED
  BY <1>4, <1>5, <1>6, StepAdds

(* The elements of the view that have ids have them in order.              *)
LEMMA IdsGrow ==
    ASSUME HistoryOK
    PROVE  /\ \A p \in 1..Len(View) : View[p].id # NoId =>
                 /\ View[p].id \in KeptIds /\ View[p].id \in 1..Len(history)
                 /\ View[p].kind = history[View[p].id].kind
           /\ \A p \in 1..Len(View) : View[p].kind = "page" => View[p].id # NoId
           /\ \A p, q \in 1..Len(View) :
                 p < q /\ View[p].id # NoId /\ View[q].id # NoId => View[p].id < View[q].id
<1> DEFINE Back(p) == IF SummaryIds = {} \/ p < Offset THEN p ELSE p - 1
<1>1. /\ KeptIds \in SUBSET (1..Len(history)) /\ Len(history) \in Nat
      /\ Cardinality(KeptIds) \in Nat /\ Len(KeptView) = Cardinality(KeptIds)
      /\ \A k \in 1..Len(KeptView) :
            /\ Place(KeptIds, k) \in KeptIds
            /\ KeptView[k] = Element(Place(KeptIds, k))
  BY KeptType
<1>2. /\ \A tells : Condensed(tells).id = NoId /\ Condensed(tells).kind # "page"
      /\ Offset \in Nat /\ Len(View) \in Nat
  BY <1>1, OffsetType, ViewElements DEF Condensed
<1>3. \A k \in 1..Len(KeptView) :
         /\ KeptView[k].id = Place(KeptIds, k) /\ KeptView[k].id # NoId
         /\ KeptView[k].kind = history[Place(KeptIds, k)].kind
  <2>1. \A i \in KeptIds : i # NoId
    BY <1>1 DEF NoId
  <2> QED
    BY <1>1, <2>1, ElementIs
<1>4. \A p \in 1..Len(View) :
         \/ View[p].id = NoId /\ View[p].kind # "page"
         \/ /\ Back(p) \in 1..Len(KeptView) /\ View[p] = KeptView[Back(p)]
            /\ SummaryIds = {} \/ p # Offset
  <2> SUFFICES ASSUME NEW p \in 1..Len(View)
               PROVE  \/ View[p].id = NoId /\ View[p].kind # "page"
                      \/ /\ Back(p) \in 1..Len(KeptView) /\ View[p] = KeptView[Back(p)]
                         /\ SummaryIds = {} \/ p # Offset
    OBVIOUS
  <2> DEFINE summary == SummaryIds # {} /\ p = Offset
                        /\ View[p] = Condensed(history[Max(SummaryIds)].tells)
             before == (SummaryIds = {} \/ p < Offset)
                       /\ p \in 1..Len(KeptView) /\ View[p] = KeptView[p]
             after == SummaryIds # {} /\ p > Offset
                      /\ p - 1 \in 1..Len(KeptView) /\ View[p] = KeptView[p - 1]
  <2>1. summary \/ before \/ after
    BY ViewElements
  <2>2. CASE summary
    BY <1>2, <2>2
  <2>3. CASE before
    <3>1. Back(p) = p /\ (SummaryIds = {} \/ p # Offset)
      BY <1>2, <2>3
    <3> HIDE DEF Back
    <3> QED
      BY <2>3, <3>1
  <2>4. CASE after
    <3>1. Back(p) = p - 1 /\ p # Offset
      BY <1>2, <2>4
    <3> HIDE DEF Back
    <3> QED
      BY <2>4, <3>1
  <2> QED
    BY <2>1, <2>2, <2>3, <2>4
<1>5. ASSUME NEW p \in 1..Len(View), NEW q \in 1..Len(View), p < q,
             View[p].id # NoId, View[q].id # NoId
      PROVE  View[p].id < View[q].id
  <2>1. /\ Back(p) \in 1..Len(KeptView) /\ View[p] = KeptView[Back(p)]
        /\ Back(q) \in 1..Len(KeptView) /\ View[q] = KeptView[Back(q)]
        /\ Back(p) < Back(q)
    BY <1>2, <1>4, <1>5
  <2> HIDE DEF Back
  <2>2. Place(KeptIds, Back(p)) < Place(KeptIds, Back(q))
    BY <1>1, <2>1, PlaceGrows
  <2> QED
    BY <1>3, <2>1, <2>2
<1> HIDE DEF Back
<1>6. ASSUME NEW p \in 1..Len(View), View[p].id # NoId
      PROVE  /\ View[p].id \in KeptIds /\ View[p].id \in 1..Len(history)
             /\ View[p].kind = history[View[p].id].kind
  <2>1. Back(p) \in 1..Len(KeptView) /\ View[p] = KeptView[Back(p)]
    BY <1>4, <1>6
  <2>2. /\ View[p].id = Place(KeptIds, Back(p)) /\ Place(KeptIds, Back(p)) \in KeptIds
        /\ View[p].kind = history[Place(KeptIds, Back(p))].kind
    BY <1>1, <1>3, <2>1
  <2> QED
    BY <1>1, <2>2
<1>7. \A p \in 1..Len(View) : View[p].kind = "page" => View[p].id # NoId
  BY <1>3, <1>4
<1> QED
  BY <1>5, <1>6, <1>7

(* What was masked is a browser output with enough later ones.             *)
LEMMA MaskedAreOld ==
    ASSUME HistoryOK, NEW p \in 1..Len(View), Masked(View)[p] # View[p]
    PROVE  /\ View[p].kind = "page"
           /\ Cardinality({j \in View[p].id + 1..Len(history) : history[j].kind = "page"})
                 >= AttentionWindow
<1> DEFINE L == {j \in DOMAIN View : j > p /\ View[j].kind = "page"}
           P == {j \in View[p].id + 1..Len(history) : history[j].kind = "page"}
           h == [j \in L |-> View[j].id]
<1>1. View \in Seq(ViewElement) /\ DOMAIN View = 1..Len(View) /\ Len(View) \in Nat
  BY ViewElements
<1>2. View[p].kind = "page" /\ Cardinality(L) >= AttentionWindow
  BY <1>1 DEF Masked
<1>3. Len(history) \in Nat /\ View[p].id \in 1..Len(history)
  BY <1>2, KeptType, IdsGrow
<1>4. ASSUME NEW j \in L
      PROVE  View[j].id \in P
  <2>1. j \in 1..Len(View) /\ p < j /\ View[j].kind = "page"
    BY <1>1, <1>4
  <2>2. /\ View[j].id \in 1..Len(history) /\ history[View[j].id].kind = "page"
        /\ View[p].id < View[j].id
    BY <1>2, <2>1, IdsGrow
  <2> QED
    BY <1>3, <2>2
<1>5. ASSUME NEW j \in L, NEW k \in L, View[j].id = View[k].id
      PROVE  j = k
  <2>1. /\ j \in 1..Len(View) /\ k \in 1..Len(View)
        /\ View[j].kind = "page" /\ View[k].kind = "page"
    BY <1>1, <1>5
  <2>2. View[j].id \in 1..Len(history) /\ View[j].id # NoId /\ View[k].id # NoId
    BY <2>1, IdsGrow
  <2>3. ~(j < k) /\ ~(k < j)
    BY <1>3, <1>5, <2>1, <2>2, IdsGrow
  <2> QED
    BY <1>1, <2>1, <2>3
<1>6. IsFiniteSet(P) /\ IsFiniteSet(L)
  <2>1. P \subseteq View[p].id + 1..Len(history) /\ L \subseteq 1..Len(View)
    BY <1>1
  <2>2. /\ View[p].id + 1 \in Int /\ Len(history) \in Int /\ 1 \in Int /\ Len(View) \in Int
    BY <1>1, <1>3
  <2>3. IsFiniteSet(View[p].id + 1..Len(history)) /\ IsFiniteSet(1..Len(View))
    BY <2>2, FS_Interval
  <2> QED
    BY <2>1, <2>3, FS_Subset
<1> HIDE DEF L, P
<1>7. h \in Injection(L, P)
  BY <1>4, <1>5 DEF Injection, IsInjective
<1>8. Cardinality(L) <= Cardinality(P)
  BY <1>6, <1>7, FS_Injection
<1>9. Cardinality(L) \in Nat /\ Cardinality(P) \in Nat /\ AttentionWindow \in Nat
  BY <1>6, FS_CardinalityType, CondenseAssumption
<1>10. Cardinality(P) >= AttentionWindow
  BY <1>2, <1>8, <1>9 DEF L
<1> QED
  BY <1>2, <1>10 DEF P

(* What is seen within the range of ids of a summary is told of, unless it *)
(* was masked.                                                             *)
LEMMA SeenIsTold ==
    ASSUME HistoryOK, CondenseTypeOK, TooLong(Masked(View)), Told(Masked(View)) # {},
           NEW e \in KeptIds, e \in Summarize(Masked(View)).forgets
    PROVE  \/ e \in Told(Masked(View))
           \/ /\ history[e].kind = "page"
              /\ Cardinality({j \in e + 1..Len(history) : history[j].kind = "page"})
                    >= AttentionWindow
<1> DEFINE v == Masked(View)
           t == Told(v)
<1>1. View \in Seq(ViewElement) /\ Len(View) \in Nat
  BY ViewElements
<1>2. /\ v \in Seq(ViewElement) /\ Len(v) = Len(View)
      /\ \A q \in 1..Len(View) : v[q] \in {View[q], Condensed({})}
  BY <1>1, MaskedIs
<1>3. /\ Middle(Len(View)) \subseteq 1..Len(View)
      /\ \A x : x \in t <=> x # NoId /\ \E q \in Middle(Len(View)) : v[q].id = x
  BY <1>2, ToldIs
<1>4. PICK a \in t, b \in t : a <= e /\ e <= b
  BY SummarizeIs
<1>5. PICK p \in 1..Len(View) : View[p] = Element(e)
  BY ViewElements
<1>6. View[p].id = e /\ e # NoId /\ e \in Nat
  <2>1. e \in 1..Len(history) /\ Len(history) \in Nat
    BY KeptType
  <2> QED
    BY <1>5, <2>1, ElementIs DEF NoId
<1> HIDE DEF t, v
<1>7. \A x \in t : \E q \in Middle(Len(View)) : View[q].id = x /\ x # NoId
  <2>1. Condensed({}).id = NoId
    BY DEF Condensed
  <2> QED
    BY <1>2, <1>3, <2>1
<1>8. PICK q \in Middle(Len(View)), r \in Middle(Len(View)) :
         View[q].id = a /\ View[r].id = b /\ a # NoId /\ b # NoId
  BY <1>4, <1>7
<1>9. q \in 1..Len(View) /\ r \in 1..Len(View) /\ a \in Nat /\ b \in Nat
  <2>1. q \in 1..Len(View) /\ r \in 1..Len(View)
    BY <1>3
  <2>2. a \in 1..Len(history) /\ b \in 1..Len(history) /\ Len(history) \in Nat
    BY <1>8, <2>1, IdsGrow, KeptType
  <2> QED
    BY <2>1, <2>2
<1>10. ~(p < q) /\ ~(r < p)
  <2>1. p < q => View[p].id < View[q].id
    BY <1>6, <1>8, <1>9, IdsGrow
  <2>2. r < p => View[r].id < View[p].id
    BY <1>6, <1>8, <1>9, IdsGrow
  <2> QED
    BY <1>4, <1>6, <1>8, <1>9, <2>1, <2>2
<1>11. p \in Middle(Len(View))
  BY <1>1, <1>9, <1>10, SizesFit DEF Middle
<1>12. CASE v[p] = View[p]
  BY <1>3, <1>6, <1>11, <1>12 DEF v, t
<1>13. CASE v[p] # View[p]
  <2>1. View[p].kind = history[e].kind
    BY <1>6, IdsGrow
  <2> QED
    BY <1>6, <1>13, <2>1, MaskedAreOld DEF v
<1> QED
  BY <1>12, <1>13

(* What every summary takes out it tells of, but what it may leave out.    *)
SummaryAccounts ==
    \A i \in SummaryIds : \A e \in history[i].forgets :
        e \in 1..i - 1 /\ (e \in history[i].tells \/ Untold(i, e))

LEMMA StillUntold ==
    ASSUME NEW n \in Nat, DOMAIN history = 1..n, 1..n \subseteq DOMAIN history',
           \A k \in 1..n : history'[k] = history[k],
           NEW i \in 1..n, NEW j \in i..(n + 1), NEW e \in 1..i - 1, Untold(i, e)
    PROVE  Untold(j, e)'
<1>1. CondensationIds \subseteq CondensationIds' /\ RequestIds \subseteq RequestIds'
  BY DEF CondensationIds, RequestIds, IsCondensation
<1>2. CASE e \in CondensationIds \cup RequestIds
  BY <1>1, <1>2 DEF Untold
<1>3. ASSUME NEW w \in CondensationIds, w < i, history[w].kind = "window",
             e \in history[w].forgets
      PROVE  Untold(j, e)'
  <2>1. w \in 1..n /\ w \in CondensationIds' /\ history'[w] = history[w]
    BY <1>1 DEF CondensationIds
  <2>2. w < j
    BY <1>3, <2>1
  <2> QED
    BY <1>3, <2>1, <2>2 DEF Untold
<1>4. ASSUME history[e].kind = "page",
             Cardinality({k \in e + 1..i - 1 : history[k].kind = "page"}) >= AttentionWindow
      PROVE  Untold(j, e)'
  <2> DEFINE S == {k \in e + 1..i - 1 : history[k].kind = "page"}
             T == {k \in e + 1..j - 1 : history'[k].kind = "page"}
  <2>1. S \subseteq T
    BY \A k \in e + 1..i - 1 : k \in 1..n
  <2>2. IsFiniteSet(e + 1..j - 1) /\ T \subseteq e + 1..j - 1
    <3>1. e + 1 \in Int /\ j - 1 \in Int
      OBVIOUS
    <3> QED
      BY <3>1, FS_Interval
  <2>3. IsFiniteSet(T)
    BY <2>2, FS_Subset
  <2> HIDE DEF S, T
  <2>4. IsFiniteSet(S) /\ Cardinality(S) <= Cardinality(T)
    BY <2>1, <2>3, FS_Subset
  <2>5. Cardinality(S) \in Nat /\ Cardinality(T) \in Nat /\ AttentionWindow \in Nat
    BY <2>3, <2>4, FS_CardinalityType, CondenseAssumption
  <2>6. Cardinality(S) >= AttentionWindow
    BY <1>4 DEF S
  <2>7. Cardinality(T) >= AttentionWindow
    BY <2>4, <2>5, <2>6
  <2>8. history'[e].kind = "page"
    <3>1. e \in 1..n
      OBVIOUS
    <3> QED
      BY <1>4, <3>1
  <2> QED
    BY <2>7, <2>8 DEF T, Untold
<1> QED
  BY <1>2, <1>3, <1>4 DEF Untold

LEMMA NewAccounts ==
    ASSUME CondenseTypes, SummariesAddUp, SummaryAccounts, NEW s \in HistoryEvent,
           Add(<<s>>), SummaryAdded(s), NEW e \in s.forgets, NEW n, n = Len(history)
    PROVE  e \in 1..n /\ (e \in s.tells \/ Untold(n + 1, e)')
<1> DEFINE v == Masked(View)
<1>1. /\ n \in Nat /\ DOMAIN history = 1..n
      /\ DOMAIN history' = 1..(n + 1) /\ \A i \in 1..n : history'[i] = history[i]
      /\ 1..n \subseteq DOMAIN history'
  BY KeptType, Added DEF CondenseTypes
<1>2. /\ s.forgets \subseteq 1..n /\ Told(v) \subseteq s.tells
      /\ TooLong(v) /\ Told(v) # {} /\ s = Summarize(v)
  BY SummarizeIs DEF CondenseTypes, SummaryAdded
<1>3. e \in 1..n
  BY <1>2
<1>4. CondensationIds \subseteq CondensationIds' /\ RequestIds \subseteq RequestIds'
  BY <1>1 DEF CondensationIds, RequestIds, IsCondensation
<1>5. CASE e \in KeptIds
  <2>1. \/ e \in Told(v)
        \/ /\ history[e].kind = "page"
           /\ Cardinality({j \in e + 1..n : history[j].kind = "page"}) >= AttentionWindow
    BY <1>2, <1>5, SeenIsTold DEF CondenseTypes
  <2>2. /\ (n + 1) - 1 = n /\ history'[e] = history[e]
        /\ \A j \in e + 1..n : history'[j] = history[j]
    BY <1>1, <1>3
  <2>3. {j \in e + 1..n : history[j].kind = "page"}
           = {j \in e + 1..(n + 1) - 1 : history'[j].kind = "page"}
    BY <2>2
  <2> QED
    BY <1>2, <1>3, <2>1, <2>2, <2>3 DEF Untold
<1>6. CASE e \in CondensationIds \cup RequestIds
  BY <1>3, <1>4, <1>6 DEF Untold
<1>7. ASSUME NEW c \in CondensationIds, e \in history[c].forgets
      PROVE  e \in s.tells \/ Untold(n + 1, e)'
  <2>1. c \in 1..n /\ history[c].kind \in {"window", "summary"} /\ c < n + 1
    BY <1>1 DEF CondensationIds, IsCondensation
  <2>2. CASE history[c].kind = "window"
    <3>1. c \in CondensationIds' /\ history'[c] = history[c]
      BY <1>1, <1>4, <2>1
    <3> QED
      BY <1>7, <2>1, <2>2, <3>1 DEF Untold
  <2>3. CASE history[c].kind = "summary"
    <3>1. c \in SummaryIds
      BY <1>1, <2>1, <2>3 DEF SummaryIds
    <3>2. e \in 1..c - 1 /\ (e \in history[c].tells \/ Untold(c, e))
      BY <1>7, <3>1 DEF SummaryAccounts
    <3>3. history[c].tells \subseteq s.tells
      <4>1. history[c].tells \subseteq history[Max(SummaryIds)].tells
        BY <3>1, SummaryIdsType DEF SummariesAddUp, CondenseTypes
      <4>2. history[Max(SummaryIds)].tells \subseteq s.tells
        BY <1>2, <3>1, SummaryIsThere DEF CondenseTypes
      <4> QED
        BY <4>1, <4>2
    <3>4. Untold(c, e) => Untold(n + 1, e)'
      <4>1. n + 1 \in c..(n + 1)
        BY <1>1, <2>1
      <4> QED
        BY <1>1, <2>1, <3>2, <4>1, StillUntold
    <3> QED
      BY <3>2, <3>3, <3>4
  <2> QED
    BY <2>1, <2>2, <2>3
<1>8. e \in KeptIds \/ e \in CondensationIds \cup RequestIds
      \/ \E c \in CondensationIds : e \in history[c].forgets
  BY <1>1, <1>3 DEF KeptIds, Forgotten
<1> QED
  BY <1>3, <1>5, <1>6, <1>7, <1>8

LEMMA StillAccounts ==
    CondenseTypes /\ SummariesAddUp /\ SummaryAccounts /\ [CondenseNext]_condenseVars
       => SummaryAccounts'
<1> SUFFICES ASSUME CondenseTypes, SummariesAddUp, SummaryAccounts, [CondenseNext]_condenseVars
             PROVE  SummaryAccounts'
  OBVIOUS
<1>0. PICK n : n = Len(history)
  OBVIOUS
<1>1. n \in Nat /\ DOMAIN history = 1..n
  BY <1>0, KeptType DEF CondenseTypes
<1>2. ASSUME 1..n \subseteq DOMAIN history', \A k \in 1..n : history'[k] = history[k],
             NEW i \in 1..n, history[i].kind = "summary", NEW e \in history[i].forgets
      PROVE  e \in 1..i - 1 /\ (e \in history'[i].tells \/ Untold(i, e)')
  <2>1. i \in SummaryIds
    BY <1>1, <1>2 DEF SummaryIds
  <2>2. e \in 1..i - 1 /\ (e \in history[i].tells \/ Untold(i, e))
    BY <2>1 DEF SummaryAccounts
  <2>3. i \in i..(n + 1)
    BY <1>1
  <2> QED
    BY <1>1, <1>2, <2>2, <2>3, StillUntold
<1>3. SummaryIds' = {i \in DOMAIN history' : history'[i].kind = "summary"}
  BY DEF SummaryIds
<1>4. CASE MessageAdded
  <2>1. /\ Event("user", NoId) \in HistoryEvent /\ Event("recall", n + 1) \in HistoryEvent
        /\ Event("user", NoId).kind = "user" /\ Event("recall", n + 1).kind = "recall"
    BY <1>1, EventIs DEF EventKind, NoId
  <2>2. /\ DOMAIN history' = 1..(n + 2) /\ 1..n \subseteq DOMAIN history'
        /\ history'[n + 1].kind = "user" /\ history'[n + 2].kind = "recall"
        /\ \A i \in 1..n : history'[i] = history[i]
    BY <1>0, <1>1, <1>4, <2>1, AddedTwo DEF MessageAdded, CondenseTypes
  <2>3. \A i \in SummaryIds' : i \in 1..n /\ history'[i] = history[i] /\ history[i].kind = "summary"
    <3>1. \A i \in 1..(n + 2) : i \in 1..n \/ i = n + 1 \/ i = n + 2
      BY <1>1
    <3> QED
      BY <1>3, <2>2, <3>1
  <2> QED
    BY <1>2, <2>2, <2>3 DEF SummaryAccounts
<1>5. CASE OneAdded
  <2>1. PICK s \in HistoryEvent :
           Add(<<s>>) /\ (PlainAdded(s) \/ WindowAdded(s) \/ SummaryAdded(s))
    BY <1>5 DEF OneAdded
  <2>2. /\ DOMAIN history' = 1..(n + 1) /\ 1..n \subseteq DOMAIN history'
        /\ history'[n + 1] = s
        /\ \A i \in 1..n : history'[i] = history[i]
    BY <1>0, <1>1, <2>1, Added DEF CondenseTypes
  <2>3. ASSUME NEW i \in SummaryIds'
        PROVE  \/ i \in 1..n /\ history'[i] = history[i] /\ history[i].kind = "summary"
               \/ i = n + 1 /\ s.kind = "summary"
    <3>1. i \in 1..n \/ i = n + 1
      BY <1>1, <1>3, <2>2
    <3> QED
      BY <1>3, <2>2, <3>1
  <2>4. s.kind = "summary" => SummaryAdded(s)
    BY <2>1, WindowIs DEF PlainAdded, WindowAdded, CondenseTypes
  <2>5. ASSUME s.kind = "summary", NEW e \in s.forgets
        PROVE  e \in 1..(n + 1) - 1 /\ (e \in history'[n + 1].tells \/ Untold(n + 1, e)')
    <3>1. (n + 1) - 1 = n
      BY <1>1
    <3> QED
      BY <1>0, <2>1, <2>2, <2>4, <2>5, <3>1, NewAccounts
  <2> QED
    BY <1>2, <2>2, <2>3, <2>5 DEF SummaryAccounts
<1>6. CASE NothingAdded
  <2>1. /\ 1..n \subseteq DOMAIN history' /\ \A k \in 1..n : history'[k] = history[k]
        /\ \A i \in SummaryIds' : i \in 1..n /\ history'[i] = history[i] /\ history[i].kind = "summary"
    BY <1>1, <1>3, <1>6 DEF NothingAdded
  <2> QED
    BY <1>2, <2>1 DEF SummaryAccounts
<1> QED
  BY <1>4, <1>5, <1>6, StepAdds DEF CondenseTypes

(* The summary in the view tells of all that any summary has taken out,    *)
(* although windows were cut and browser outputs masked in between: the    *)
(* element after the head of a view that is too long is the summary before,*)
(* which the new one is given (llm_summarizing_condenser.py:58).  All but  *)
(* what a window had taken out before, condensations and their requests,   *)
(* and outputs that were masked when the range of ids went over them.      *)
THEOREM SummariesTell == CondenseSpec => []SummaryTellsAll
<1> DEFINE Inv == CondenseTypes /\ SummariesAddUp /\ SummaryAccounts
<1>1. CondenseInit => Inv
  <2> SUFFICES ASSUME CondenseInit PROVE SummariesAddUp /\ SummaryAccounts
    BY TypesStart
  <2>1. Event("system", NoId).kind = "system"
    BY EventIs DEF EventKind, NoId
  <2>2. SummaryIds = {}
    BY <2>1 DEF CondenseInit, SummaryIds
  <2> QED
    BY <2>2 DEF SummariesAddUp, SummaryAccounts
<1>2. Inv /\ [CondenseNext]_condenseVars => Inv'
  BY TypesKept, SummariesStillAddUp, StillAccounts
<1>3. Inv => SummaryTellsAll
  <2> SUFFICES ASSUME HistoryOK, SummariesAddUp, SummaryAccounts, NEW i \in SummaryIds,
                      NEW e \in history[i].forgets, ~Untold(i, e)
               PROVE  \E k \in DOMAIN View : e \in View[k].tells
    BY DEF CondenseTypes, SummaryTellsAll
  <2>1. SummaryIds # {} /\ Max(SummaryIds) \in SummaryIds /\ i <= Max(SummaryIds)
    BY SummaryIdsType
  <2>2. e \in history[Max(SummaryIds)].tells
    BY <2>1 DEF SummariesAddUp, SummaryAccounts
  <2>3. Offset \in DOMAIN View
    <3>1. /\ DOMAIN View = 1..Len(View) /\ Len(View) = Len(KeptView) + 1
          /\ Offset \in 1..(Len(KeptView) + 1)
      BY <2>1, ViewElements, OffsetType
    <3> QED
      BY <3>1
  <2>4. View[Offset].tells = history[Max(SummaryIds)].tells
    BY <2>1, SummarizedView DEF Condensed
  <2> QED
    BY <2>2, <2>3, <2>4
<1> QED
  BY <1>1, <1>2, <1>3, PTL DEF CondenseSpec

(***************************************************************************)
(* Condensing ends.                                                        *)
(***************************************************************************)
NoPages == ~browses => \A i \in DOMAIN history : history[i].kind # "page"

(* Nothing is masked when the agent does not browse.                       *)
LEMMA NothingMasked ==
    ASSUME HistoryOK, NoPages, ~browses
    PROVE  \A p \in 1..Len(View) : Masked(View)[p] = View[p]
<1>1. DOMAIN history = 1..Len(history) /\ KeptIds \in SUBSET (1..Len(history))
  BY KeptType
<1>2. \A k \in 1..Len(KeptView) : KeptView[k].kind # "page"
  <2> SUFFICES ASSUME NEW k \in 1..Len(KeptView)
               PROVE  KeptView[k].kind # "page"
    OBVIOUS
  <2>1. Place(KeptIds, k) \in DOMAIN history
    BY <1>1, KeptType
  <2>2. KeptView[k].kind = history[Place(KeptIds, k)].kind
    BY KeptType, ElementIs
  <2> QED
    BY <2>1, <2>2 DEF NoPages
<1>3. ASSUME NEW p \in 1..Len(View)
      PROVE  View[p].kind # "page"
  <2>1. \A t : Condensed(t).kind # "page"
    BY DEF Condensed
  <2> QED
    BY <1>2, <2>1, ViewElements
<1>4. View \in Seq(ViewElement)
  BY ViewElements
<1> QED
  BY <1>3, <1>4, MaskedIs

KeptAreCounted ==
    /\ Len(View) = Cardinality(KeptIds) + (IF SummaryIds = {} THEN 0 ELSE 1)
    /\ Cardinality(KeptIds) \in Nat

LEMMA KeptCount == HistoryOK => KeptAreCounted
BY KeptType, ViewElements DEF KeptAreCounted

(* What a summary does not tell of is in the head or the tail.             *)
LEMMA FewUntold ==
    ASSUME HistoryOK, NoPages, ~browses, TooLong(Masked(View))
    PROVE  LET U == KeptIds \ Told(Masked(View))
           IN  IsFiniteSet(U) /\ Cardinality(U) \in Nat /\ Cardinality(U) <= TargetSize - 1
<1> DEFINE v == Masked(View)
           U == KeptIds \ Told(v)
           L == Len(View)
           T == TargetSize - 1
           Shown(q) == IF q <= KeepFirst THEN View[q].id ELSE View[L - T + q].id
           g == [q \in 1..T |-> Shown(q)]
           R == {Shown(q) : q \in 1..T}
<1>1. View \in Seq(ViewElement) /\ L \in Nat
  BY ViewElements
<1>2. /\ v \in Seq(ViewElement) /\ Len(v) = L /\ L > MaxSize
      /\ \A p \in 1..L : v[p] = View[p]
  BY <1>1, MaskedIs, NothingMasked DEF TooLong
<1>3. \A x : x \in Told(v) <=> x # NoId /\ \E p \in Middle(L) : v[p].id = x
  BY <1>2, ToldIs
<1> HIDE DEF v
<1>4. /\ T \in Nat /\ KeepFirst \in Nat /\ KeepFirst < T /\ T < L
      /\ Middle(L) = KeepFirst + 1..L - T + KeepFirst
  BY <1>1, <1>2, SizesFit DEF Middle
<1>5. U \subseteq R
  <2> SUFFICES ASSUME NEW i \in KeptIds, i \notin Told(v)
               PROVE  i \in R
    OBVIOUS
  <2>1. PICK p \in 1..L : View[p] = Element(i)
    BY ViewElements
  <2>2. View[p].id = i /\ i # NoId
    <3>1. i \in 1..Len(history) /\ Len(history) \in Nat
      BY KeptType
    <3> QED
      BY <2>1, <3>1, ElementIs DEF NoId
  <2>3. p \notin Middle(L)
    BY <1>2, <1>3, <2>2
  <2> HIDE DEF L, T
  <2>4. p \in Nat /\ 1 <= p /\ p <= L /\ (p <= KeepFirst \/ p > L - T + KeepFirst)
    BY <1>1, <1>4, <2>3
  <2>5. CASE p <= KeepFirst
    <3>1. p \in 1..T
      BY <1>4, <2>4, <2>5
    <3> QED
      BY <2>2, <2>5, <3>1
  <2>6. CASE p > L - T + KeepFirst
    <3>1. /\ p - (L - T) \in 1..T /\ ~(p - (L - T) <= KeepFirst)
          /\ L - T + (p - (L - T)) = p
      BY <1>1, <1>4, <2>4, <2>6
    <3>2. Shown(p - (L - T)) = i
      BY <2>2, <3>1
    <3> HIDE DEF Shown
    <3> QED
      BY <3>1, <3>2
  <2> QED
    BY <2>4, <2>5, <2>6
<1>6. IsFiniteSet(1..T) /\ Cardinality(1..T) = T
  BY <1>4, FS_Interval
<1> HIDE DEF Shown, T, U
<1>7. g \in Surjection(1..T, R)
  BY DEF Surjection
<1> HIDE DEF g, R
<1>8. IsFiniteSet(R) /\ Cardinality(R) <= T
  BY <1>6, <1>7, FS_Surjection
<1>9. IsFiniteSet(U) /\ Cardinality(U) <= Cardinality(R)
  BY <1>5, <1>8, FS_Subset
<1>10. Cardinality(U) \in Nat /\ Cardinality(R) \in Nat
  BY <1>8, <1>9, FS_CardinalityType
<1>11. Cardinality(U) <= T
  BY <1>4, <1>8, <1>9, <1>10
<1> QED
  BY <1>9, <1>10, <1>11 DEF U, T, v

(* A summary brings the view to the target size.                           *)
LEMMA SummaryShrinks ==
    ASSUME HistoryOK, CondenseTypeOK, NoPages, ~browses,
           NEW e \in HistoryEvent, Add(<<e>>), SummaryAdded(e)
    PROVE  Len(View') <= TargetSize
<1> DEFINE v == Masked(View)
           n == Len(history)
           U == KeptIds \ Told(v)
<1>1. /\ HistoryOK' /\ DOMAIN history' = 1..(n + 1) /\ history'[n + 1] = e
      /\ \A i \in 1..n : history'[i] = history[i]
  BY Added
<1>2. /\ Len(View') = Cardinality(KeptIds') + (IF SummaryIds' = {} THEN 0 ELSE 1)
      /\ Cardinality(KeptIds') \in Nat
  <2>1. HistoryOK' => KeptAreCounted'
    BY KeptCount, PTL
  <2> QED
    BY <1>1, <2>1 DEF KeptAreCounted
<1>3. e.kind = "summary" /\ Told(v) \subseteq e.forgets
  BY SummarizeIs DEF SummaryAdded
<1>4. IsFiniteSet(U) /\ Cardinality(U) \in Nat /\ Cardinality(U) <= TargetSize - 1
  BY FewUntold DEF SummaryAdded
<1>5. DOMAIN history = 1..n /\ n \in Nat
  BY KeptType
<1> HIDE DEF v, n
<1>6. n + 1 \in CondensationIds' /\ CondensationIds \subseteq CondensationIds'
      /\ RequestIds \subseteq RequestIds'
  <2>1. \A i \in 1..n : i \in 1..(n + 1)
    BY <1>5
  <2>2. n + 1 \in 1..(n + 1)
    BY <1>5
  <2> QED
    BY <1>1, <1>3, <1>5, <2>1, <2>2 DEF CondensationIds, RequestIds, IsCondensation
<1>7. KeptIds' \subseteq U
  <2> SUFFICES ASSUME NEW i \in KeptIds'
               PROVE  i \in KeptIds /\ i \notin Told(v)
    OBVIOUS
  <2>1. /\ i \in DOMAIN history' /\ i \notin CondensationIds' /\ i \notin RequestIds'
        /\ \A c \in CondensationIds' : i \notin history'[c].forgets
    BY DEF KeptIds, Forgotten
  <2>2. i \in 1..n
    <3>1. i \in 1..(n + 1) /\ i # n + 1
      BY <1>1, <1>6, <2>1
    <3> QED
      BY <1>5, <3>1
  <2>3. i \notin CondensationIds /\ i \notin RequestIds
    BY <1>6, <2>1
  <2>4. \A c \in CondensationIds : i \notin history[c].forgets
    <3>1. \A c \in CondensationIds : c \in 1..n
      BY <1>5 DEF CondensationIds
    <3> QED
      BY <1>1, <1>6, <2>1, <3>1
  <2>5. i \notin e.forgets
    BY <1>1, <1>6, <2>1
  <2> QED
    BY <1>3, <1>5, <2>2, <2>3, <2>4, <2>5 DEF KeptIds, Forgotten
<1> HIDE DEF U
<1>8. Cardinality(KeptIds') <= Cardinality(U)
  BY <1>4, <1>7, FS_Subset
<1>9. Len(View') <= Cardinality(KeptIds') + 1
  BY <1>2
<1> QED
  BY <1>2, <1>4, <1>8, <1>9, SizesFit

(* A window never follows a condensation, for then no request is           *)
(* unhandled; a summary never follows another one.                         *)
EndsSoon ==
    /\ NoPages
    /\ \A i \in DOMAIN history :
          i > 1 /\ history[i].kind = "window" => ~IsCondensation(history[i - 1])
    /\ ~browses => \A i \in DOMAIN history :
          i > 1 /\ history[i].kind = "summary" => history[i - 1].kind # "summary"
    /\ ~browses /\ history[Len(history)].kind = "summary" => Len(View) <= TargetSize

LEMMA EndsStart == CondenseInit => EndsSoon
<1> SUFFICES ASSUME CondenseInit PROVE EndsSoon
  OBVIOUS
<1>1. Event("system", NoId).kind = "system"
  BY EventIs DEF EventKind, NoId
<1>2. Len(history) = 1 /\ DOMAIN history = {1} /\ history[1].kind = "system"
  BY <1>1 DEF CondenseInit
<1> QED
  BY <1>2 DEF EndsSoon, NoPages

LEMMA EndsStill == CondenseTypes /\ EndsSoon /\ [CondenseNext]_condenseVars => EndsSoon'
<1> SUFFICES ASSUME HistoryOK, CondenseTypeOK, EndsSoon, [CondenseNext]_condenseVars
             PROVE  EndsSoon'
  BY DEF CondenseTypes
<1> DEFINE n == Len(history)
<1>1. n \in Nat /\ n >= 1 /\ DOMAIN history = 1..n /\ n \in 1..n
  BY KeptType DEF HistoryOK
<1>2. /\ ~browses => \A i \in 1..n : history[i].kind # "page"
      /\ \A i \in 1..n :
            i > 1 /\ history[i].kind = "window" => ~IsCondensation(history[i - 1])
      /\ ~browses => \A i \in 1..n :
            i > 1 /\ history[i].kind = "summary" => history[i - 1].kind # "summary"
      /\ ~browses /\ history[n].kind = "summary" => Len(View) <= TargetSize
  BY <1>1 DEF EndsSoon, NoPages
<1>3. browses' = browses /\ (MessageAdded \/ OneAdded \/ NothingAdded)
  BY StepAdds
<1> HIDE DEF n
<1>4. \A i \in 1..n : i > 1 => i - 1 \in 1..n
  BY <1>1
<1>5. CASE MessageAdded
  <2>1. /\ Event("user", NoId) \in HistoryEvent /\ Event("recall", n + 1) \in HistoryEvent
        /\ Event("user", NoId).kind = "user" /\ Event("recall", n + 1).kind = "recall"
    BY <1>1, EventIs DEF EventKind, NoId
  <2>2. /\ Len(history') = n + 2 /\ DOMAIN history' = 1..(n + 2)
        /\ history'[n + 1].kind = "user" /\ history'[n + 2].kind = "recall"
        /\ \A i \in 1..n : history'[i] = history[i]
    BY <1>5, <2>1, AddedTwo DEF MessageAdded, n
  <2>3. \A i \in 1..(n + 2) : i \in 1..n \/ history'[i].kind \in {"user", "recall"}
    BY <1>1, <2>2
  <2>4. NoPages'
    BY <1>2, <1>3, <2>2, <2>3 DEF NoPages
  <2>5. ASSUME NEW i \in 1..(n + 2), i > 1
        PROVE  /\ history'[i].kind = "window" => ~IsCondensation(history'[i - 1])
               /\ ~browses /\ history'[i].kind = "summary" => history'[i - 1].kind # "summary"
    <3>1. CASE i \in 1..n
      BY <1>2, <1>4, <2>2, <2>5, <3>1 DEF IsCondensation
    <3>2. CASE i \notin 1..n
      BY <2>3, <3>2
    <3> QED
      BY <3>1, <3>2
  <2> QED
    BY <1>3, <2>2, <2>4, <2>5 DEF EndsSoon, IsCondensation
<1>6. CASE OneAdded
  <2>1. PICK e \in HistoryEvent :
           Add(<<e>>) /\ (PlainAdded(e) \/ WindowAdded(e) \/ SummaryAdded(e))
    BY <1>6 DEF OneAdded
  <2>2. /\ Len(history') = n + 1 /\ DOMAIN history' = 1..(n + 1) /\ history'[n + 1] = e
        /\ \A i \in 1..n : history'[i] = history[i]
    BY <2>1, Added DEF n
  <2>3. \A i \in 1..(n + 1) : i \in 1..n \/ i = n + 1
    BY <1>1
  <2>4. /\ e.kind = "window" => WindowAdded(e)
        /\ e.kind = "summary" => SummaryAdded(e)
        /\ e.kind = "page" => browses
    <3>1. CASE PlainAdded(e)
      BY <3>1 DEF PlainAdded
    <3>2. CASE WindowAdded(e)
      <4>1. e.kind = "window"
        BY <3>2, WindowIs DEF WindowAdded
      <4> QED
        BY <3>2, <4>1
    <3>3. CASE SummaryAdded(e)
      <4>1. e.kind = "summary"
        BY <3>3, SummarizeIs DEF SummaryAdded
      <4> QED
        BY <3>3, <4>1
    <3> QED
      BY <2>1, <3>1, <3>2, <3>3
  <2>5. NoPages'
    BY <1>2, <1>3, <2>2, <2>3, <2>4 DEF NoPages
  <2>6. e.kind = "window" => ~IsCondensation(history[n])
    <3> SUFFICES ASSUME UnhandledRequest, n \in CondensationIds
                 PROVE  FALSE
      BY <1>1, <2>4 DEF WindowAdded, CondensationIds
    <3>1. PICK r \in RequestIds : n < r
      BY DEF UnhandledRequest
    <3>2. r \in 1..n
      BY <1>1 DEF RequestIds
    <3> QED
      BY <1>1, <3>1, <3>2
  <2>7. ~browses /\ e.kind = "summary" => history[n].kind # "summary"
    <3> SUFFICES ASSUME ~browses, SummaryAdded(e), history[n].kind = "summary"
                 PROVE  FALSE
      BY <2>4
    <3>1. Len(View) <= TargetSize
      BY <1>2
    <3>2. View \in Seq(ViewElement) /\ Len(View) \in Nat
      BY ViewElements
    <3>3. Len(View) > MaxSize
      BY <3>2, MaskedIs DEF SummaryAdded, TooLong
    <3> QED
      BY <3>1, <3>2, <3>3, SizesFit
  <2>8. ASSUME NEW i \in 1..(n + 1), i > 1
        PROVE  /\ history'[i].kind = "window" => ~IsCondensation(history'[i - 1])
               /\ ~browses /\ history'[i].kind = "summary" => history'[i - 1].kind # "summary"
    <3>1. CASE i \in 1..n
      BY <1>2, <1>4, <2>2, <2>8, <3>1 DEF IsCondensation
    <3>2. CASE i = n + 1
      <4>1. i - 1 = n
        BY <1>1, <3>2
      <4> QED
        BY <1>1, <2>2, <2>6, <2>7, <3>2, <4>1 DEF IsCondensation
    <3> QED
      BY <2>3, <3>1, <3>2
  <2>9. ~browses /\ e.kind = "summary" => Len(View') <= TargetSize
    <3> SUFFICES ASSUME ~browses, SummaryAdded(e)
                 PROVE  Len(View') <= TargetSize
      BY <2>4
    <3>1. NoPages
      BY DEF EndsSoon
    <3> QED
      BY <2>1, <3>1, SummaryShrinks
  <2> QED
    BY <1>3, <2>2, <2>5, <2>8, <2>9 DEF EndsSoon, IsCondensation
<1>7. CASE NothingAdded
  <2>1. history' = history
    BY <1>7 DEF NothingAdded
  <2>2. View' = View
    BY <2>1 DEF View, Forgotten, CondensationIds, RequestIds, SummaryIds, Element
  <2> QED
    BY <1>3, <2>1, <2>2 DEF EndsSoon, NoPages
<1> QED
  BY <1>3, <1>5, <1>6, <1>7

EndsInv == CondenseTypes /\ EndsSoon

THEOREM AlwaysEnds == CondenseSpec => []EndsInv
<1>1. CondenseInit => EndsInv
  BY TypesStart, EndsStart DEF EndsInv
<1>2. EndsInv /\ [CondenseNext]_condenseVars => EndsInv'
  BY TypesKept, EndsStill DEF EndsInv
<1> QED
  BY <1>1, <1>2, PTL DEF CondenseSpec

(* Condensing ends: without browser outputs, whatever the sizes, never do  *)
(* three condensations follow each other: a window answers the request it  *)
(* is for, and a summary brings the view to the target size, well below    *)
(* the size that asks for one (view.py:64, llm_summarizing_condenser.py:53)*)
THEOREM CondensingEnds == CondenseSpec => []CondensedOnce
<1>1. EndsInv => CondensedOnce
  <2> SUFFICES ASSUME HistoryOK, EndsSoon, ~browses, Len(history) > 2,
                      \A i \in Len(history) - 2..Len(history) : IsCondensation(history[i])
               PROVE  FALSE
    BY DEF EndsInv, CondenseTypes, CondensedOnce
  <2> DEFINE n == Len(history)
  <2>1. /\ n \in Nat /\ n > 2 /\ DOMAIN history = 1..n
        /\ n \in 1..n /\ n - 1 \in 1..n /\ n - 2 \in 1..n /\ (n - 1) - 1 = n - 2
        /\ n \in n - 2..n /\ n - 1 \in n - 2..n /\ n - 2 \in n - 2..n
    BY KeptType
  <2>2. /\ IsCondensation(history[n]) /\ IsCondensation(history[n - 1])
        /\ IsCondensation(history[n - 2])
    BY <2>1
  <2> HIDE DEF n
  <2>3. history[n].kind # "window" /\ history[n - 1].kind # "window"
    BY <2>1, <2>2 DEF EndsSoon
  <2>4. history[n].kind = "summary" /\ history[n - 1].kind = "summary"
    BY <2>2, <2>3 DEF IsCondensation
  <2>5. \A i \in 1..n : i > 1 /\ history[i].kind = "summary" => history[i - 1].kind # "summary"
    BY <2>1 DEF EndsSoon
  <2> QED
    BY <2>1, <2>4, <2>5
<1> QED
  BY <1>1, AlwaysEnds, PTL

(* A view that was summarized has the target size, which the comment on    *)
(* the tail claims (llm_summarizing_condenser.py:55), when the agent does  *)
(* not browse; with masked outputs, which a summary does not forget, it    *)
(* need not have it.                                                       *)
THEOREM TargetReached ==
    ASSUME TRUE \notin Browsing
    PROVE  CondenseSpec => []SummarizedToTarget
<1>1. CondenseInit => ~browses
  BY CondenseAssumption DEF CondenseInit
<1>2. EndsInv /\ ~browses /\ [CondenseNext]_condenseVars => (~browses)'
  BY StepAdds DEF EndsInv, CondenseTypes
<1>3. EndsInv /\ ~browses => SummarizedToTarget
  <2> SUFFICES ASSUME EndsSoon, ~browses, Last(history).kind = "summary"
               PROVE  Len(View) <= TargetSize
    BY DEF EndsInv, SummarizedToTarget
  <2>1. Last(history) = history[Len(history)]
    BY DEF Last
  <2> QED
    BY <2>1 DEF EndsSoon
<1> QED
  BY <1>1, <1>2, <1>3, AlwaysEnds, PTL DEF CondenseSpec
=============================================================================

--------------------------- MODULE ConsoleProofs ---------------------------
(***************************************************************************)
(* Proofs about four parts of the console whose calls are kept in order:   *)
(* PolicyLog, for any log, filters, page size and number of loads out,     *)
(* TabPollers, for any number of versions, checks, reports and failures,   *)
(* IpDesk, for any addresses, blocks and calls out, and Alerts, for any    *)
(* rules, alerts and calls out.  The four are separate systems and have    *)
(* no variable in common.                                                  *)
(***************************************************************************)
EXTENDS PolicyLog, TabPollers, IpDesk, Alerts, SequenceTheorems, FiniteSetTheorems, TLAPS

USE PolicyLogAssumptions

Queries == [cid : BOOLEAN, narrow : BOOLEAN, since : 0 .. MaxRow]

Loads ==
  [f : FilterSet, q : Queries, before : Rows \cup {None}, top : 0 .. MaxRow,
   page : Seq(Rows) \cup {None}, waits : BOOLEAN, stale : BOOLEAN]

LogType ==
  /\ logged \in 0 .. MaxRow /\ horizon \in 0 .. logged
  /\ filters \in FilterSet
  /\ decisions \in Seq(Rows)
  /\ loading \in BOOLEAN /\ exhausted \in BOOLEAN /\ crossed \in BOOLEAN /\ blended \in BOOLEAN
  /\ list \in [f : FilterSet, top : 0 .. MaxRow] \cup {None}
  /\ out \in Seq(Loads) /\ Len(out) <= MaxOut

\* Wanted, of an explicit horizon.
WantedAt(f, h) ==
  {n \in Rows : /\ f.cid => n \in CidRows
                /\ f.narrow => n \in NarrowRows
                /\ ~f.cid /\ f.recent => n > h}

Descending(s) == \A j, k \in DOMAIN s : j < k => s[j] > s[k]

\* The query asks for all that the filters select: it was made at this horizon
\* or an earlier one.
Queried(c, h) ==
  /\ c.q.cid = c.f.cid /\ c.q.narrow = c.f.narrow
  /\ c.q.since <= IF ~c.f.cid /\ c.f.recent THEN h ELSE 0

\* The page answered to load c is in order, below its cursor, and leaves out
\* rows that the filters select only if it is full and they are below it.
PageRight(c, h, l) ==
  c.page # None =>
    /\ c.top <= l
    /\ Descending(c.page)
    /\ c.before # None => \A k \in DOMAIN c.page : c.page[k] < c.before
    /\ \A n \in WantedAt(c.f, h) :
         (n <= c.top /\ (c.before # None => n < c.before) /\ n \notin Range(c.page))
           => Len(c.page) >= PageSize /\ \A k \in DOMAIN c.page : c.page[k] > n

\* An older page that is not stale continues the list that is shown, and was
\* answered after that list.
Continues(c, d, li) ==
  c.before # None =>
    /\ li # None
    /\ ~c.stale => /\ d # <<>> /\ c.before = Last(d)
                   /\ c.page # None => li.top <= c.top

CallRight(c, h, l, d, li) == Queried(c, h) /\ PageRight(c, h, l) /\ Continues(c, d, li)

CallsRight == \A i \in DOMAIN out : CallRight(out[i], horizon, logged, decisions, list)

ListRight ==
  /\ decisions # <<>> => list # None
  /\ list # None => list.top <= logged

LogIInv ==
  /\ LogType /\ CallsRight /\ ListRight
  /\ LoadingMeansOut /\ NewestFirst /\ NoGap

-----------------------------------------------------------------------------
(* Sequences.                                                              *)

\* Removing an entry leaves the others.
LEMMA RemoveAtKeeps ==
  ASSUME NEW S, NEW s \in Seq(S), NEW i \in DOMAIN s
  PROVE  /\ RemoveAt(s, i) \in Seq(S) /\ Len(RemoveAt(s, i)) = Len(s) - 1
         /\ \A j \in DOMAIN RemoveAt(s, i) : \E k \in DOMAIN s : RemoveAt(s, i)[j] = s[k]
         /\ \A j \in 1 .. Len(s) - 1 : RemoveAt(s, i)[j] = s[IF j < i THEN j ELSE j + 1]
<1> DEFINE a == SubSeq(s, 1, i - 1)
           b == SubSeq(s, i + 1, Len(s))
<1>1. Len(s) \in Nat /\ DOMAIN s = 1 .. Len(s) /\ i \in 1 .. Len(s) /\ \A k \in 1 .. Len(s) : s[k] \in S
  BY LenProperties, ElementOfSeq
<1>2. /\ a \in Seq(S) /\ Len(a) = i - 1
      /\ \A k \in 1 .. i - 1 : a[k] = s[k]
  <2>1. \A k \in 1 .. i - 1 : s[k] \in S
    BY <1>1
  <2> QED
    BY <1>1, <2>1, SubSeqProperties, SMTT(30)
<1>3. /\ b \in Seq(S) /\ Len(b) = Len(s) - i
      /\ \A k \in 1 .. Len(s) - i : b[k] = s[i + k]
  <2>1. \A k \in i + 1 .. Len(s) : s[k] \in S
    BY <1>1
  <2> QED
    BY <1>1, <2>1, SubSeqProperties, SMTT(30)
<1> HIDE DEF a, b
<1>4. /\ a \o b \in Seq(S) /\ Len(a \o b) = Len(s) - 1
      /\ \A j \in 1 .. Len(s) - 1 : (a \o b)[j] = IF j <= i - 1 THEN a[j] ELSE b[j - (i - 1)]
  <2>1. /\ a \o b \in Seq(S) /\ Len(a \o b) = Len(a) + Len(b)
        /\ \A j \in 1 .. Len(a) + Len(b) : (a \o b)[j] = IF j <= Len(a) THEN a[j] ELSE b[j - Len(a)]
    <3>1. a \in Seq(S) /\ b \in Seq(S)
      BY <1>2, <1>3
    <3> QED
      BY ONLY <3>1, ConcatProperties, Zenon
  <2>2. Len(a) + Len(b) = Len(s) - 1
    BY <1>1, <1>2, <1>3
  <2> QED
    BY <1>2, <2>1, <2>2
<1>5. ASSUME NEW j \in 1 .. Len(s) - 1
      PROVE  /\ (a \o b)[j] = s[IF j < i THEN j ELSE j + 1]
             /\ (IF j < i THEN j ELSE j + 1) \in DOMAIN s
  <2>1. CASE j <= i - 1
    BY <1>1, <1>2, <1>4, <2>1
  <2>2. CASE j > i - 1
    <3>1. j - (i - 1) \in 1 .. Len(s) - i /\ i + (j - (i - 1)) = j + 1
      BY <1>1, <2>2
    <3>2. (a \o b)[j] = b[j - (i - 1)]
      BY <1>1, <1>4, <2>2
    <3>3. b[j - (i - 1)] = s[i + (j - (i - 1))]
      BY <1>3, <3>1, Zenon
    <3>4. j + 1 \in DOMAIN s
      BY <1>1
    <3> QED
      BY <1>1, <2>2, <3>1, <3>2, <3>3, <3>4
  <2>3. j <= i - 1 \/ j > i - 1
    BY <1>1
  <2> QED
    BY <2>1, <2>2, <2>3, Zenon
<1>6. DOMAIN (a \o b) = 1 .. Len(s) - 1
  BY <1>4, LenProperties
<1> QED
  BY <1>4, <1>5, <1>6 DEF RemoveAt, a, b

\* Appending leaves the entries and adds one.
LEMMA AppendKeeps ==
  ASSUME NEW S, NEW s \in Seq(S), NEW e \in S
  PROVE  /\ Append(s, e) \in Seq(S) /\ Len(Append(s, e)) = Len(s) + 1 /\ Append(s, e) # <<>>
         /\ \A j \in DOMAIN Append(s, e) :
              Append(s, e)[j] = e \/ (j \in DOMAIN s /\ Append(s, e)[j] = s[j])
<1>1. Len(s) \in Nat /\ DOMAIN s = 1 .. Len(s)
  BY LenProperties
<1>2. /\ Append(s, e) \in Seq(S) /\ Len(Append(s, e)) = Len(s) + 1
      /\ \A j \in 1 .. Len(s) : Append(s, e)[j] = s[j]
      /\ Append(s, e)[Len(s) + 1] = e /\ Append(s, e) # <<>>
  BY AppendProperties
<1>3. DOMAIN Append(s, e) = 1 .. Len(s) + 1
  <2>1. DOMAIN Append(s, e) = 1 .. Len(Append(s, e))
    BY <1>2, LenProperties, Zenon
  <2> QED
    BY <1>2, <2>1
<1>4. ASSUME NEW j \in DOMAIN Append(s, e)
      PROVE  Append(s, e)[j] = e \/ (j \in DOMAIN s /\ Append(s, e)[j] = s[j])
  <2>1. j = Len(s) + 1 \/ j \in 1 .. Len(s)
    BY <1>1, <1>3
  <2> QED
    BY <1>1, <1>2, <2>1, Zenon
<1> QED
  BY <1>2, <1>4, Zenon

\* A descending list followed by a descending page that is below its last row.
LEMMA ConcatDescends ==
  ASSUME NEW s \in Seq(Rows), NEW p \in Seq(Rows), s # <<>>, Descending(s), Descending(p),
         \A k \in DOMAIN p : p[k] < Last(s)
  PROVE  Descending(s \o p)
<1>1. /\ Len(s) \in Nat \ {0} /\ Len(p) \in Nat
      /\ DOMAIN s = 1 .. Len(s) /\ DOMAIN p = 1 .. Len(p)
      /\ \A k \in DOMAIN s : s[k] \in Int
      /\ \A k \in DOMAIN p : p[k] \in Int
  BY LenProperties, EmptySeq, ElementOfSeq DEF Rows
<1>2. /\ DOMAIN (s \o p) = 1 .. Len(s) + Len(p)
      /\ \A i \in 1 .. Len(s) + Len(p) : (s \o p)[i] = IF i <= Len(s) THEN s[i] ELSE p[i - Len(s)]
  BY ConcatProperties, LenProperties
<1>3. \A k \in DOMAIN s : s[k] >= Last(s)
  <2>1. ASSUME NEW k \in DOMAIN s PROVE s[k] >= Last(s)
    <3>1. CASE k = Len(s)
      BY <1>1, <3>1 DEF Last
    <3>2. CASE k < Len(s)
      <4>1. Len(s) \in DOMAIN s
        BY <1>1
      <4> QED
        BY <1>1, <3>2, <4>1 DEF Descending, Last
    <3> QED
      BY <1>1, <3>1, <3>2
  <2> QED
    BY <2>1
<1>4. ASSUME NEW j \in DOMAIN (s \o p), NEW k \in DOMAIN (s \o p), j < k
      PROVE  (s \o p)[j] > (s \o p)[k]
  <2>1. CASE k <= Len(s)
    BY <1>1, <1>2, <1>4, <2>1 DEF Descending
  <2>2. CASE j > Len(s)
    <3>1. j - Len(s) \in DOMAIN p /\ k - Len(s) \in DOMAIN p /\ j - Len(s) < k - Len(s)
      BY <1>1, <1>2, <1>4, <2>2
    <3>2. (s \o p)[j] = p[j - Len(s)] /\ (s \o p)[k] = p[k - Len(s)]
      BY <1>1, <1>2, <1>4, <2>2
    <3> QED
      BY <3>1, <3>2 DEF Descending
  <2>3. CASE j <= Len(s) /\ k > Len(s)
    <3>1. j \in DOMAIN s /\ k - Len(s) \in DOMAIN p /\ Last(s) \in Int
      BY <1>1, <1>2, <2>3 DEF Last
    <3>2. (s \o p)[j] = s[j] /\ (s \o p)[k] = p[k - Len(s)]
      BY <1>1, <1>2, <1>4, <2>3
    <3>3. s[j] >= Last(s) /\ p[k - Len(s)] < Last(s) /\ s[j] \in Int /\ p[k - Len(s)] \in Int
      BY <1>1, <1>3, <3>1
    <3> QED
      BY <3>1, <3>2, <3>3
  <2> QED
    BY <1>1, <1>2, <2>1, <2>2, <2>3
<1> QED
  BY <1>4 DEF Descending

\* The rows of a list and of a page added to it, and its new last row.
LEMMA ConcatRows ==
  ASSUME NEW s \in Seq(Rows), NEW p \in Seq(Rows), s # <<>>
  PROVE  /\ s \o p \in Seq(Rows) /\ s \o p # <<>>
         /\ Range(s) \subseteq Range(s \o p) /\ Range(p) \subseteq Range(s \o p)
         /\ Last(s \o p) = IF p = <<>> THEN Last(s) ELSE Last(p)
<1>1. /\ Len(s) \in Nat \ {0} /\ Len(p) \in Nat
      /\ DOMAIN s = 1 .. Len(s) /\ DOMAIN p = 1 .. Len(p)
      /\ p # <<>> => Len(p) # 0
  BY LenProperties, EmptySeq
<1>2. /\ s \o p \in Seq(Rows) /\ Len(s \o p) = Len(s) + Len(p)
      /\ DOMAIN (s \o p) = 1 .. Len(s) + Len(p)
      /\ \A i \in 1 .. Len(s) + Len(p) : (s \o p)[i] = IF i <= Len(s) THEN s[i] ELSE p[i - Len(s)]
  BY ConcatProperties, LenProperties
<1>3. s \o p # <<>>
  BY <1>1, <1>2
<1>4. ASSUME NEW k \in DOMAIN s PROVE s[k] \in Range(s \o p)
  <2>1. k \in DOMAIN (s \o p) /\ (s \o p)[k] = s[k]
    BY <1>1, <1>2
  <2> QED
    BY <2>1 DEF Range
<1>5. ASSUME NEW k \in DOMAIN p PROVE p[k] \in Range(s \o p)
  <2>1. Len(s) + k \in DOMAIN (s \o p) /\ (s \o p)[Len(s) + k] = p[k]
    BY <1>1, <1>2
  <2> QED
    BY <2>1 DEF Range
<1>6. Last(s \o p) = IF p = <<>> THEN Last(s) ELSE Last(p)
  <2>1. CASE p = <<>>
    BY <2>1, ConcatEmptySeq
  <2>2. CASE p # <<>>
    BY <1>1, <1>2, <2>2 DEF Last
  <2> QED
    BY <2>1, <2>2
<1> QED
  BY <1>2, <1>3, <1>4, <1>5, <1>6 DEF Range

-----------------------------------------------------------------------------
(* Loads.                                                                  *)

\* What is known of a load stays known while the log grows and ages.
LEMMA CallKept ==
  ASSUME NEW c \in Loads, NEW h \in Nat, NEW h2 \in Nat, NEW l \in Nat, NEW l2 \in Nat,
         h <= h2, l <= l2, NEW d, NEW li, CallRight(c, h, l, d, li)
  PROVE  CallRight(c, h2, l2, d, li)
<1>1. Queried(c, h2)
  BY DEF CallRight, Queried, Loads, Queries
<1>2. WantedAt(c.f, h2) \subseteq WantedAt(c.f, h)
  BY DEF WantedAt, Rows
<1>3. PageRight(c, h2, l2)
  BY <1>2 DEF CallRight, PageRight, Loads
<1> QED
  BY <1>1, <1>3 DEF CallRight

\* A load that has just gone out.
LEMMA NewCall ==
  ASSUME LogType, NEW f \in FilterSet, NEW b \in Rows \cup {None},
         b # None => decisions # <<>> /\ b = Last(decisions) /\ list # None
  PROVE  /\ Call(f, b) \in Loads
         /\ CallRight(Call(f, b), horizon, logged, decisions, list)
<1>1. horizon \in 0 .. MaxRow
  BY DEF LogType
<1>2. toQuery(f) \in Queries
  BY <1>1 DEF toQuery, sinceFromPeriod, Queries, FilterSet
<1>3. Call(f, b) \in Loads
  BY <1>2 DEF Call, Loads
<1>4. Queried(Call(f, b), horizon)
  BY <1>1 DEF Call, Queried, toQuery, sinceFromPeriod, FilterSet
<1>5. Call(f, b).page = None /\ Call(f, b).before = b
  BY DEF Call
<1> QED
  BY <1>3, <1>4, <1>5 DEF CallRight, PageRight, Continues

\* An answer of the server to a load: all the filters select is matched.
LEMMA ServedRight ==
  ASSUME LogType, ListRight, NEW c \in Loads, c.page = None,
         CallRight(c, horizon, logged, decisions, list),
         NEW p \in Pages(Matching(c.q, c.before))
  PROVE  /\ [c EXCEPT !.page = p, !.top = logged] \in Loads
         /\ CallRight([c EXCEPT !.page = p, !.top = logged], horizon, logged, decisions, list)
<1> DEFINE m == Matching(c.q, c.before)
           s == [c EXCEPT !.page = p, !.top = logged]
<1>1. logged \in 0 .. MaxRow /\ horizon \in 0 .. logged
  BY DEF LogType
<1>2. m \subseteq Rows
  BY <1>1 DEF Matching, Rows
<1>3. /\ Descending(p)
      /\ \A n \in m \ Range(p) : Len(p) = PageSize /\ \A k \in DOMAIN p : p[k] > n
  BY DEF Pages, Descending
<1>4. PICK len \in 0 .. PageSize : p \in [1 .. len -> m]
  BY DEF Pages, BoundedSeq, SeqOf
<1>5. p \in Seq(Rows) /\ DOMAIN p = 1 .. len
  <2>1. p \in [1 .. len -> Rows] /\ len \in Nat
    BY <1>2, <1>4
  <2> QED
    BY <2>1, SeqDef
<1>6. /\ s \in Loads
      /\ s.f = c.f /\ s.q = c.q /\ s.before = c.before /\ s.stale = c.stale
      /\ s.page = p /\ s.top = logged
  BY <1>1, <1>5 DEF Loads
<1> HIDE DEF s
<1>7. Queried(s, horizon)
  BY <1>6 DEF CallRight, Queried
<1>8. c.before # None => \A k \in DOMAIN p : p[k] < c.before
  BY <1>4 DEF Matching
<1>9. ASSUME NEW n \in WantedAt(c.f, horizon), n <= logged, c.before # None => n < c.before
      PROVE  n \in m
  <2>1. /\ n \in Rows /\ c.f.cid \in BOOLEAN /\ c.f.narrow \in BOOLEAN /\ c.f.recent \in BOOLEAN
        /\ c.q.since \in Nat
    BY DEF WantedAt, Loads, FilterSet, Queries
  <2>2. n \in 1 .. logged
    BY <1>1, <1>9, <2>1 DEF Rows
  <2>3. (c.q.cid => n \in CidRows) /\ (c.q.narrow => n \in NarrowRows) /\ n > c.q.since
    BY <1>1, <2>1, <2>2 DEF CallRight, Queried, WantedAt
  <2> QED
    BY <1>9, <2>2, <2>3 DEF Matching
<1>10. PageRight(s, horizon, logged)
  <2> HIDE DEF m
  <2> QED
    BY <1>1, <1>3, <1>6, <1>8, <1>9 DEF PageRight
<1>11. Continues(s, decisions, list)
  BY <1>6 DEF CallRight, Continues, ListRight
<1> QED
  BY <1>6, <1>7, <1>10, <1>11 DEF CallRight, s

\* The calls that stay when the list is replaced or continued are those that
\* were there, stale if they asked for an older page.
LEMMA ReplacedRight ==
  ASSUME LogType, CallsRight, NEW i \in DOMAIN out, NEW d, NEW li, li # None
  PROVE  /\ Replaced(i) \in Seq(Loads) /\ Len(Replaced(i)) <= MaxOut
         /\ \A j \in DOMAIN Replaced(i) : CallRight(Replaced(i)[j], horizon, logged, d, li)
<1> DEFINE marked == [j \in DOMAIN out |-> [out[j] EXCEPT !.stale = out[j].before # None]]
<1>1. out \in Seq(Loads) /\ Len(out) \in Nat /\ Len(out) <= MaxOut /\ DOMAIN out = 1 .. Len(out)
  BY LenProperties DEF LogType
<1>2. ASSUME NEW j \in DOMAIN out
      PROVE  marked[j] \in Loads /\ CallRight(marked[j], horizon, logged, d, li)
  <2>1. out[j] \in Loads /\ CallRight(out[j], horizon, logged, decisions, list)
    BY <1>1, ElementOfSeq DEF CallsRight
  <2>2. /\ marked[j] \in Loads /\ marked[j].f = out[j].f /\ marked[j].q = out[j].q
        /\ marked[j].before = out[j].before /\ marked[j].page = out[j].page
        /\ marked[j].top = out[j].top /\ marked[j].stale = (out[j].before # None)
    BY <2>1 DEF Loads
  <2> HIDE DEF marked
  <2>3. Queried(marked[j], horizon) /\ PageRight(marked[j], horizon, logged)
    BY <2>1, <2>2 DEF CallRight, Queried, PageRight
  <2>4. Continues(marked[j], d, li)
    BY <2>2 DEF Continues
  <2> QED
    BY <2>2, <2>3, <2>4 DEF CallRight
<1>3. marked \in Seq(Loads) /\ DOMAIN marked = DOMAIN out /\ Len(marked) = Len(out)
  <2>1. marked \in [1 .. Len(out) -> Loads]
    BY <1>1, <1>2
  <2>2. marked \in Seq(Loads)
    BY <1>1, <2>1, SeqDef
  <2>3. Len(marked) = Len(out) /\ DOMAIN marked = DOMAIN out
    BY <1>1, <2>1
  <2> QED
    BY <2>2, <2>3
<1> HIDE DEF marked
<1>4. /\ RemoveAt(marked, i) \in Seq(Loads) /\ Len(RemoveAt(marked, i)) = Len(out) - 1
      /\ \A j \in DOMAIN RemoveAt(marked, i) : \E k \in DOMAIN out : RemoveAt(marked, i)[j] = marked[k]
  <2>1. i \in DOMAIN marked /\ marked \in Seq(Loads)
    BY <1>3
  <2>2. /\ RemoveAt(marked, i) \in Seq(Loads) /\ Len(RemoveAt(marked, i)) = Len(marked) - 1
        /\ \A j \in DOMAIN RemoveAt(marked, i) : \E k \in DOMAIN marked : RemoveAt(marked, i)[j] = marked[k]
    BY ONLY <2>1, RemoveAtKeeps
  <2> QED
    BY <1>3, <2>2, Zenon
<1>5. Replaced(i) = RemoveAt(marked, i)
  BY DEF Replaced, marked
<1>6. \A j \in DOMAIN RemoveAt(marked, i) : CallRight(RemoveAt(marked, i)[j], horizon, logged, d, li)
  BY <1>2, <1>4, Zenon
<1>7. Len(RemoveAt(marked, i)) <= MaxOut
  BY <1>1, <1>4
<1> QED
  BY <1>4, <1>5, <1>6, <1>7

-----------------------------------------------------------------------------
(* Steps.                                                                  *)

\* While the list is left alone, the log may grow and rows may leave the
\* period: no gap opens in what is listed.
LEMMA ListKept ==
  ASSUME LogIInv, UNCHANGED logVars, logged' \in Nat, horizon' \in Nat,
         horizon <= horizon', logged <= logged'
  PROVE  ListRight' /\ NewestFirst' /\ NoGap'
<1>1. /\ decisions' = decisions /\ exhausted' = exhausted
      /\ list' = list /\ crossed' = crossed /\ blended' = blended
  BY DEF logVars
<1>2. logged \in Nat /\ horizon \in Nat /\ (list # None => list.top \in Nat)
  BY DEF LogIInv, LogType
<1>3. ListRight'
  BY <1>1, <1>2 DEF LogIInv, ListRight
<1>4. NewestFirst'
  BY <1>1 DEF LogIInv, NewestFirst
<1>5. \A f : Wanted(f)' \subseteq Wanted(f)
  BY <1>2 DEF Wanted, Rows
<1>6. NoGap'
  BY <1>1, <1>5 DEF LogIInv, NoGap, Wanted
<1> QED
  BY <1>3, <1>4, <1>6

\* A load goes out, of any filters, or of the page below the last row.
LEMMA GoesOut ==
  ASSUME LogIInv, NEW f \in FilterSet, NEW b \in Rows \cup {None},
         b # None => decisions # <<>> /\ b = Last(decisions) /\ list # None,
         Len(out) < MaxOut, out' = Append(out, Call(f, b)),
         filters' \in FilterSet, loading' = TRUE, UNCHANGED <<serverVars, logVars>>
  PROVE  LogIInv'
<1>1. LogType
  BY DEF LogIInv
<1>2. Call(f, b) \in Loads /\ CallRight(Call(f, b), horizon, logged, decisions, list)
  BY <1>1, NewCall
<1>3. out \in Seq(Loads) /\ Len(out) \in Nat
  BY <1>1, LenProperties DEF LogType
<1>4. /\ out' \in Seq(Loads) /\ Len(out') = Len(out) + 1 /\ out' # <<>>
      /\ \A j \in DOMAIN out' : out'[j] = Call(f, b) \/ (j \in DOMAIN out /\ out'[j] = out[j])
  BY <1>2, <1>3, AppendKeeps
<1>5. logged' = logged /\ horizon' = horizon /\ decisions' = decisions /\ list' = list
  BY DEF serverVars, logVars
<1>6. CallsRight'
  BY <1>2, <1>4, <1>5 DEF LogIInv, CallsRight
<1>7. logged \in Nat /\ horizon \in Nat
  BY <1>1 DEF LogType
<1>8. ListRight' /\ NewestFirst' /\ NoGap'
  BY <1>5, <1>7, ListKept
<1>9. LogType'
  BY <1>1, <1>3, <1>4 DEF LogType, serverVars, logVars
<1> QED
  BY <1>4, <1>6, <1>8, <1>9 DEF LogIInv, LoadingMeansOut

LEMMA LoadStep ==
  ASSUME LogIInv, NEW f \in FilterSet, load(f)
  PROVE  LogIInv'
BY GoesOut DEF load

LEMMA LoadOlderStep ==
  ASSUME LogIInv, loadOlder
  PROVE  LogIInv'
<1>1. decisions \in Seq(Rows) /\ decisions # <<>> /\ filters \in FilterSet
  BY DEF LogIInv, LogType, loadOlder
<1>2. Last(decisions) \in Rows
  <2>1. Len(decisions) \in 1 .. Len(decisions)
    BY <1>1, EmptySeq
  <2> QED
    BY <1>1, <2>1, ElementOfSeq DEF Last
<1>3. list # None
  BY <1>1 DEF LogIInv, ListRight
<1> QED
  BY <1>1, <1>2, <1>3, GoesOut DEF loadOlder

\* The log grows or ages, or a control is edited.
LEMMA AroundStep ==
  ASSUME LogIInv, LogDecision \/ Age \/ \E f \in Settings : EditFilters(f)
  PROVE  LogIInv'
<1>1. /\ logged \in 0 .. MaxRow /\ horizon \in 0 .. logged /\ filters \in FilterSet
      /\ out \in Seq(Loads)
  BY DEF LogIInv, LogType
<1>2. /\ logged' \in 0 .. MaxRow /\ horizon' \in 0 .. logged' /\ filters' \in FilterSet
      /\ horizon <= horizon' /\ logged <= logged'
      /\ UNCHANGED <<logVars, loading, out>>
  BY <1>1 DEF LogDecision, Age, EditFilters, serverVars
<1>3. LogType' /\ LoadingMeansOut'
  BY <1>2 DEF LogIInv, LogType, LoadingMeansOut, logVars
<1>4. ListRight' /\ NewestFirst' /\ NoGap'
  BY <1>2, ListKept
<1>5. CallsRight'
  <2>1. ASSUME NEW j \in DOMAIN out
        PROVE  CallRight(out[j], horizon', logged', decisions, list)
    <3>1. out[j] \in Loads /\ CallRight(out[j], horizon, logged, decisions, list)
      BY <1>1, LenProperties DEF LogIInv, CallsRight
    <3>2. horizon \in Nat /\ horizon' \in Nat /\ logged \in Nat /\ logged' \in Nat
      BY <1>1, <1>2
    <3> QED
      BY <1>2, <3>1, <3>2, CallKept
  <2> QED
    BY <1>2, <2>1 DEF CallsRight, logVars
<1> QED
  BY <1>3, <1>4, <1>5 DEF LogIInv

LEMMA ServeStep ==
  ASSUME LogIInv, NEW i \in DOMAIN out, ServePage(i)
  PROVE  LogIInv'
<1>1. LogType /\ ListRight /\ out \in Seq(Loads) /\ out[i].page = None
  BY DEF LogIInv, LogType, ServePage
<1>2. DOMAIN out = 1 .. Len(out) /\ Len(out) \in Nat /\ out \in [1 .. Len(out) -> Loads]
  BY <1>1, LenProperties
<1>3. out[i] \in Loads /\ CallRight(out[i], horizon, logged, decisions, list)
  BY <1>2 DEF LogIInv, CallsRight
<1>4. PICK p \in Pages(Matching(out[i].q, out[i].before)) :
        out' = [out EXCEPT ![i].page = p, ![i].top = logged]
  BY DEF ServePage
<1> DEFINE s == [out[i] EXCEPT !.page = p, !.top = logged]
<1>5. s \in Loads /\ CallRight(s, horizon, logged, decisions, list)
  BY <1>1, <1>3, ServedRight
<1>6. out' = [out EXCEPT ![i] = s]
  BY <1>2, <1>4
<1> HIDE DEF s
<1>7. out' \in [1 .. Len(out) -> Loads]
  BY <1>2, <1>5, <1>6
<1>8. out' \in Seq(Loads) /\ Len(out') = Len(out) /\ DOMAIN out' = DOMAIN out
  <2>1. out' \in Seq(Loads)
    BY <1>2, <1>7, SeqDef
  <2> QED
    BY <1>2, <1>7, <2>1
<1>9. /\ logged' = logged /\ horizon' = horizon /\ UNCHANGED logVars /\ loading' = loading
      /\ filters' = filters
  BY DEF ServePage, serverVars
<1>10. CallsRight'
  BY <1>2, <1>5, <1>6, <1>8, <1>9 DEF LogIInv, CallsRight, logVars
<1>11. LogType'
  BY <1>8, <1>9 DEF LogIInv, LogType, logVars
<1>12. logged \in Nat /\ horizon \in Nat
  BY <1>1 DEF LogType
<1>13. ListRight' /\ NewestFirst' /\ NoGap'
  BY <1>9, <1>12, ListKept
<1>14. LoadingMeansOut'
  <2>1. out # <<>> /\ out' # <<>>
    BY <1>2, <1>8
  <2> QED
    BY <2>1 DEF LoadingMeansOut
<1> QED
  BY <1>10, <1>11, <1>13, <1>14 DEF LogIInv

\* The summary call of a load is answered.
LEMMA SummaryStep ==
  ASSUME LogIInv, NEW i \in DOMAIN out, ServeSummary(i)
  PROVE  LogIInv'
<1>1. LogType /\ ListRight /\ out \in Seq(Loads)
  BY DEF LogIInv, LogType
<1>2. DOMAIN out = 1 .. Len(out) /\ Len(out) \in Nat /\ out \in [1 .. Len(out) -> Loads]
  BY <1>1, LenProperties
<1>3. out[i] \in Loads /\ CallRight(out[i], horizon, logged, decisions, list)
  BY <1>2 DEF LogIInv, CallsRight
<1> DEFINE s == [out[i] EXCEPT !.waits = FALSE]
<1>4. s \in Loads /\ CallRight(s, horizon, logged, decisions, list)
  BY <1>3 DEF Loads, CallRight, Queried, PageRight, Continues
<1>5. out' = [out EXCEPT ![i] = s]
  BY <1>2 DEF ServeSummary
<1> HIDE DEF s
<1>6. out' \in [1 .. Len(out) -> Loads]
  BY <1>2, <1>4, <1>5
<1>7. out' \in Seq(Loads) /\ Len(out') = Len(out) /\ DOMAIN out' = DOMAIN out
  <2>1. out' \in Seq(Loads)
    BY <1>2, <1>6, SeqDef
  <2> QED
    BY <1>2, <1>6, <2>1
<1>8. /\ logged' = logged /\ horizon' = horizon /\ UNCHANGED logVars /\ loading' = loading
      /\ filters' = filters
  BY DEF ServeSummary, serverVars
<1>9. CallsRight'
  BY <1>2, <1>4, <1>5, <1>7, <1>8 DEF LogIInv, CallsRight, logVars
<1>10. LogType'
  BY <1>7, <1>8 DEF LogIInv, LogType, logVars
<1>11. logged \in Nat /\ horizon \in Nat
  BY <1>1 DEF LogType
<1>12. ListRight' /\ NewestFirst' /\ NoGap'
  BY <1>8, <1>11, ListKept
<1>13. LoadingMeansOut'
  <2>1. out # <<>> /\ out' # <<>>
    BY <1>2, <1>7
  <2> QED
    BY <2>1 DEF LoadingMeansOut
<1> QED
  BY <1>9, <1>10, <1>12, <1>13 DEF LogIInv

LEMMA FailsStep ==
  ASSUME LogIInv, NEW i \in DOMAIN out, Fails(i)
  PROVE  LogIInv'
<1>1. LogType /\ out \in Seq(Loads) /\ Len(out) \in Nat
  BY LenProperties DEF LogIInv, LogType
<1>2. /\ out' \in Seq(Loads) /\ Len(out') = Len(out) - 1
      /\ \A j \in DOMAIN out' : \E k \in DOMAIN out : out'[j] = out[k]
  <2>1. out' = RemoveAt(out, i)
    BY DEF Fails
  <2>2. /\ RemoveAt(out, i) \in Seq(Loads) /\ Len(RemoveAt(out, i)) = Len(out) - 1
        /\ \A j \in DOMAIN RemoveAt(out, i) : \E k \in DOMAIN out : RemoveAt(out, i)[j] = out[k]
    BY <1>1, RemoveAtKeeps
  <2> QED
    BY <2>1, <2>2, Zenon
<1>3. /\ logged' = logged /\ horizon' = horizon /\ UNCHANGED logVars /\ loading' = FALSE
      /\ filters' = filters
  BY DEF Fails, serverVars
<1>4. CallsRight'
  BY <1>2, <1>3 DEF LogIInv, CallsRight, logVars
<1>5. LogType'
  <2>1. Len(out) <= MaxOut
    BY <1>1 DEF LogType
  <2>2. Len(out') <= MaxOut
    BY <1>1, <1>2, <2>1
  <2> QED
    BY <1>1, <1>2, <1>3, <2>2 DEF LogType, logVars
<1>6. logged \in Nat /\ horizon \in Nat
  BY <1>1 DEF LogType
<1>7. ListRight' /\ NewestFirst' /\ NoGap'
  BY <1>3, <1>6, ListKept
<1> QED
  BY <1>3, <1>4, <1>5, <1>7 DEF LogIInv, LoadingMeansOut

\* A load replaces the list: its page is in order, starts at the newest row,
\* and stops short only if it is full.
LEMMA LoadedStep ==
  ASSUME LogIInv, NEW i \in DOMAIN out, Loaded(i)
  PROVE  LogIInv'
<1> DEFINE c == out[i]
<1>1. LogType /\ CallsRight /\ out \in Seq(Loads)
  BY DEF LogIInv, LogType
<1>2. c \in Loads /\ CallRight(c, horizon, logged, decisions, list)
  BY <1>1, LenProperties DEF CallsRight
<1>3. /\ c.before = None /\ c.page # None
      /\ decisions' = c.page /\ exhausted' = Exhausted(c.page) /\ loading' = FALSE
      /\ list' = [f |-> c.f, top |-> c.top] /\ crossed' = FALSE /\ blended' = FALSE
      /\ out' = Replaced(i) /\ logged' = logged /\ horizon' = horizon /\ filters' = filters
  BY DEF Loaded, serverVars
<1> HIDE DEF c
<1>4. /\ c.f \in FilterSet /\ c.top \in 0 .. MaxRow /\ c.page \in Seq(Rows)
      /\ list' \in [f : FilterSet, top : 0 .. MaxRow] /\ list'.f = c.f /\ list'.top = c.top
  BY <1>2, <1>3 DEF Loads
<1>5. /\ c.top <= logged /\ Descending(c.page)
      /\ \A n \in WantedAt(c.f, horizon) :
           (n <= c.top /\ n \notin Range(c.page))
             => Len(c.page) >= PageSize /\ \A k \in DOMAIN c.page : c.page[k] > n
  BY <1>2, <1>3 DEF CallRight, PageRight
<1>6. Len(c.page) \in Nat /\ DOMAIN c.page = 1 .. Len(c.page) /\ \A k \in DOMAIN c.page : c.page[k] \in Nat
  BY <1>4, LenProperties DEF Rows
<1>7. LogType' /\ CallsRight'
  <2>1. /\ Replaced(i) \in Seq(Loads) /\ Len(Replaced(i)) <= MaxOut
        /\ \A j \in DOMAIN Replaced(i) : CallRight(Replaced(i)[j], horizon, logged, decisions', list')
    BY <1>1, <1>4, ReplacedRight
  <2>2. exhausted' \in BOOLEAN
    BY <1>3 DEF Exhausted
  <2>3. LogType'
    BY <1>1, <1>3, <1>4, <2>1, <2>2 DEF LogType
  <2>4. CallsRight'
    BY <1>3, <2>1 DEF CallsRight
  <2> QED
    BY <2>3, <2>4
<1>8. ListRight' /\ LoadingMeansOut'
  BY <1>3, <1>4, <1>5 DEF ListRight, LoadingMeansOut
<1>9. NewestFirst'
  BY <1>3, <1>5 DEF NewestFirst, Descending
<1>10. NoGap'
  <2>1. ASSUME NEW n \in WantedAt(c.f, horizon), n <= c.top,
               Exhausted(c.page) \/ (c.page # <<>> /\ n >= Last(c.page)),
               n \notin Range(c.page)
        PROVE  FALSE
    <3>1. Len(c.page) >= PageSize /\ \A k \in DOMAIN c.page : c.page[k] > n
      BY <1>5, <2>1
    <3>2. ~Exhausted(c.page)
      BY <1>6, <3>1 DEF Exhausted
    <3>3. Len(c.page) \in DOMAIN c.page
      BY <1>6, <3>1
    <3>4. n \in Nat /\ Last(c.page) > n /\ Last(c.page) \in Nat
      BY <1>6, <3>1, <3>3 DEF Last, WantedAt, Rows
    <3> QED
      BY <2>1, <3>2, <3>4
  <2>2. Wanted(list.f)' = WantedAt(c.f, horizon)
    BY <1>3, <1>4 DEF Wanted, WantedAt
  <2> QED
    BY <1>3, <1>4, <2>1, <2>2 DEF NoGap
<1> QED
  BY <1>7, <1>8, <1>9, <1>10 DEF LogIInv

\* An older page is added to whatever list is there: unless that is another
\* list than it was asked for, it continues it.
LEMMA OlderStep ==
  ASSUME LogIInv, NEW i \in DOMAIN out, OlderLoaded(i)
  PROVE  LogIInv'
<1> DEFINE c == out[i]
<1>1. LogType /\ CallsRight /\ out \in Seq(Loads) /\ decisions \in Seq(Rows)
  BY DEF LogIInv, LogType
<1>2. c \in Loads /\ CallRight(c, horizon, logged, decisions, list)
  BY <1>1, LenProperties DEF CallsRight
<1>3. /\ c.before # None /\ c.page # None
      /\ decisions' = decisions \o c.page /\ exhausted' = Exhausted(c.page) /\ loading' = FALSE
      /\ crossed' = (crossed \/ c.stale) /\ blended' = (blended \/ c.f # list.f)
      /\ out' = Replaced(i) /\ logged' = logged /\ horizon' = horizon /\ filters' = filters
      /\ list' = list
  BY DEF OlderLoaded, serverVars
<1> HIDE DEF c
<1>4. c.page \in Seq(Rows) /\ c.before \in Rows /\ c.stale \in BOOLEAN /\ c.top \in Nat
  BY <1>2, <1>3 DEF Loads
<1>5. /\ Descending(c.page)
      /\ \A k \in DOMAIN c.page : c.page[k] < c.before
      /\ \A n \in WantedAt(c.f, horizon) :
           (n <= c.top /\ n < c.before /\ n \notin Range(c.page))
             => Len(c.page) >= PageSize /\ \A k \in DOMAIN c.page : c.page[k] > n
  BY <1>2, <1>3 DEF CallRight, PageRight
<1>6. /\ list # None
      /\ ~c.stale => decisions # <<>> /\ c.before = Last(decisions) /\ list.top <= c.top
  BY <1>2, <1>3 DEF CallRight, Continues
<1>7. Len(c.page) \in Nat /\ DOMAIN c.page = 1 .. Len(c.page) /\ \A k \in DOMAIN c.page : c.page[k] \in Nat
  BY <1>4, LenProperties DEF Rows
<1>8. LogType' /\ CallsRight'
  <2>1. /\ Replaced(i) \in Seq(Loads) /\ Len(Replaced(i)) <= MaxOut
        /\ \A j \in DOMAIN Replaced(i) : CallRight(Replaced(i)[j], horizon, logged, decisions', list')
    BY <1>1, <1>3, <1>6, ReplacedRight
  <2>2. exhausted' \in BOOLEAN /\ decisions' \in Seq(Rows) /\ crossed' \in BOOLEAN /\ blended' \in BOOLEAN
    BY <1>1, <1>3, <1>4, ConcatProperties DEF Exhausted
  <2>3. LogType'
    BY <1>1, <1>3, <2>1, <2>2 DEF LogType
  <2>4. CallsRight'
    BY <1>3, <2>1 DEF CallsRight
  <2> QED
    BY <2>3, <2>4
<1>9. LoadingMeansOut'
  BY <1>3 DEF LogIInv, LoadingMeansOut
<1>10. ListRight'
  <2>1. list # None => list.top <= logged
    BY DEF LogIInv, ListRight
  <2> QED
    BY <1>3, <1>6, <2>1 DEF ListRight
<1>11. NewestFirst'
  <2>1. ASSUME ~crossed' PROVE Descending(decisions')
    <3>1. ~c.stale /\ Descending(decisions)
      BY <1>1, <1>3, <1>4, <2>1 DEF LogIInv, LogType, NewestFirst, Descending
    <3>2. decisions # <<>> /\ \A k \in DOMAIN c.page : c.page[k] < Last(decisions)
      BY <1>5, <1>6, <3>1
    <3> QED
      BY <1>1, <1>3, <1>4, <1>5, <3>1, <3>2, ConcatDescends
  <2> QED
    BY <2>1 DEF NewestFirst, Descending
<1>12. NoGap'
  <2> SUFFICES ASSUME list # None, ~crossed', ~blended',
                      NEW n \in WantedAt(list.f, horizon), n <= list.top,
                      Exhausted(c.page) \/ n >= Last(decisions')
               PROVE  n \in Range(decisions')
    BY <1>3 DEF NoGap, Wanted, WantedAt
  <2>1. ~c.stale /\ ~crossed /\ ~blended /\ c.f = list.f
    BY <1>1, <1>3, <1>4 DEF LogType
  <2>2. decisions # <<>> /\ c.before = Last(decisions) /\ list.top <= c.top /\ list.top \in Nat /\ n \in Nat
    BY <1>1, <1>6, <2>1 DEF LogType, WantedAt, Rows
  <2>3. /\ Range(decisions) \subseteq Range(decisions') /\ Range(c.page) \subseteq Range(decisions')
        /\ Last(decisions') = IF c.page = <<>> THEN Last(decisions) ELSE Last(c.page)
    BY <1>1, <1>3, <1>4, <2>2, ConcatRows
  <2>4. CASE n >= c.before
    <3>1. n \in Range(decisions)
      BY <2>1, <2>2, <2>4 DEF LogIInv, NoGap, Wanted, WantedAt
    <3> QED
      BY <2>3, <3>1
  <2>5. CASE n < c.before /\ n \notin Range(c.page)
    <3>1. Len(c.page) >= PageSize /\ \A k \in DOMAIN c.page : c.page[k] > n
      BY <1>4, <1>5, <2>1, <2>2, <2>5
    <3>2. ~Exhausted(c.page) /\ Len(c.page) \in DOMAIN c.page /\ c.page # <<>>
      BY <1>7, <3>1 DEF Exhausted
    <3>3. Last(c.page) > n /\ Last(c.page) \in Nat
      BY <1>7, <3>1, <3>2 DEF Last
    <3> QED
      BY <2>2, <2>3, <3>2, <3>3
  <2>6. c.before \in Nat
    BY <1>4 DEF Rows
  <2> QED
    BY <2>2, <2>3, <2>4, <2>5, <2>6
<1> QED
  BY <1>8, <1>9, <1>10, <1>11, <1>12 DEF LogIInv

LEMMA LogInit == Init => LogIInv
<1> SUFFICES ASSUME Init PROVE LogIInv
  OBVIOUS
<1>1. /\ logged \in 0 .. MaxRow /\ horizon \in 0 .. logged /\ filters \in FilterSet
      /\ decisions = <<>> /\ exhausted = FALSE /\ list = None
      /\ crossed = FALSE /\ blended = FALSE /\ loading = TRUE /\ out = <<Call(filters, None)>>
  <2>1. defaultFilters \in FilterSet /\ [defaultFilters EXCEPT !.cid = TRUE] \in FilterSet
    BY DEF defaultFilters, FilterSet
  <2>2. filters \in FilterSet
    BY <2>1 DEF Init
  <2>3. logged \in 0 .. MaxRow /\ horizon \in 0 .. logged
    BY DEF Init
  <2> QED
    BY <2>2, <2>3 DEF Init
<1>2. /\ Call(filters, None) \in Loads
      /\ CallRight(Call(filters, None), horizon, logged, decisions, list)
  <2>1. horizon \in 0 .. MaxRow
    BY <1>1
  <2>2. toQuery(filters) \in Queries
    BY <1>1, <2>1 DEF toQuery, sinceFromPeriod, Queries, FilterSet
  <2>3. Call(filters, None) \in Loads
    BY <1>1, <2>2 DEF Call, Loads
  <2>4. Queried(Call(filters, None), horizon)
    BY <1>1, <2>1 DEF Call, Queried, toQuery, sinceFromPeriod, FilterSet
  <2>5. Call(filters, None).page = None /\ Call(filters, None).before = None
    BY DEF Call
  <2> QED
    BY <2>3, <2>4, <2>5 DEF CallRight, PageRight, Continues
<1>3. out \in Seq(Loads) /\ Len(out) = 1 /\ out # <<>> /\ DOMAIN out = {1} /\ out[1] = Call(filters, None)
  BY <1>1, <1>2
<1>4. LogType
  <2>1. Len(out) <= MaxOut /\ decisions \in Seq(Rows)
    BY <1>1, <1>3
  <2> QED
    BY <1>1, <1>3, <2>1 DEF LogType
<1>5. CallsRight
  BY <1>2, <1>3 DEF CallsRight
<1>6. ListRight /\ LoadingMeansOut /\ NewestFirst /\ NoGap
  BY <1>1, <1>3 DEF ListRight, LoadingMeansOut, NewestFirst, NoGap
<1> QED
  BY <1>4, <1>5, <1>6 DEF LogIInv

LEMMA LogStep == LogIInv /\ [Next]_vars => LogIInv'
<1> SUFFICES ASSUME LogIInv, [Next]_vars PROVE LogIInv'
  OBVIOUS
<1>1. filters \in FilterSet /\ [filters EXCEPT !.cid = TRUE] \in FilterSet /\ defaultFilters \in FilterSet
  BY DEF LogIInv, LogType, FilterSet, defaultFilters
<1>2. CASE Refresh \/ Apply \/ Reset \/ byCorrelation
  BY <1>1, <1>2, LoadStep DEF Refresh, Apply, Reset, byCorrelation
<1>3. CASE loadOlder
  BY <1>3, LoadOlderStep
<1>4. CASE LogDecision \/ Age \/ \E f \in Settings : EditFilters(f)
  BY <1>4, AroundStep
<1>5. ASSUME NEW i \in DOMAIN out, ServePage(i) \/ ServeSummary(i) \/ Loaded(i) \/ OlderLoaded(i) \/ Fails(i)
      PROVE  LogIInv'
  BY <1>5, ServeStep, SummaryStep, LoadedStep, OlderStep, FailsStep
<1>6. CASE UNCHANGED vars
  <2> USE <1>6 DEF vars, serverVars, logVars, LogIInv
  <2>1. LogType' /\ CallsRight' /\ ListRight' /\ LoadingMeansOut'
    BY DEF LogType, CallsRight, ListRight, LoadingMeansOut
  <2>2. NewestFirst' /\ NoGap'
    BY DEF NewestFirst, NoGap, Wanted
  <2> QED
    BY <2>1, <2>2
<1> QED
  BY <1>2, <1>3, <1>4, <1>5, <1>6 DEF Next

\* The list is newest first and has no decision twice unless a page met a list
\* it does not continue, and the loading flag is up only while a call is out
\* (load and loadOlder of usePolicyDecisions.ts), for any log and page size.
THEOREM LogStaysInOrder == Spec => []LogInv
<1>1. LogIInv => LogInv
  <2> SUFFICES ASSUME LogIInv PROVE LogInv
    OBVIOUS
  <2>1. LogType /\ out \in Seq(Loads) /\ decisions \in Seq(Rows)
    BY DEF LogIInv, LogType
  <2>2. Range(decisions) \subseteq Rows
    BY <2>1, LenProperties DEF Range
  <2>3. \A i \in DOMAIN out : out[i].f \in FilterSet /\ out[i].before \in Rows \cup {None}
    <3>1. \A i \in DOMAIN out : out[i] \in Loads
      BY <2>1, LenProperties
    <3> QED
      BY <3>1 DEF Loads
  <2>4. \A b \in {loading, exhausted, crossed, blended} : b \in BOOLEAN
    BY <2>1 DEF LogType
  <2>5. TypeOK
    BY <2>1, <2>2, <2>3, <2>4 DEF LogType, TypeOK
  <2> QED
    BY <2>5 DEF LogIInv, LogInv
<1> QED
  BY <1>1, LogInit, LogStep, PTL DEF Spec

\* Nothing the filters select is missing between the top of the list and its
\* end, or at all once "Load older" is gone: full last pages, rows that age
\* between two pages and overlapping loads included (loadOlder's cursor and
\* exhausted).
THEOREM ListHasNoGap == Spec => []NoGap
<1>1. LogIInv => NoGap
  BY DEF LogIInv
<1> QED
  BY <1>1, LogInit, LogStep, PTL DEF Spec

HIDE PolicyLogAssumptions

-----------------------------------------------------------------------------
(* The tab's pollers.                                                      *)

\* Nothing the tab ever saw differs from version 1 before the first deployment.
UndeployedIsOne ==
  deploys = 0 => /\ deployed = 1 /\ toasts = 0
                 /\ snapshot \in {1, NoVersion} /\ backend \in {1, NoVersion}
                 /\ \A k \in Boots : boot[k].v \in {1, NoVersion}
                 /\ \A i \in DOMAIN checks : checks[i] \in {1, NoVersion}

\* The changes of version from a by way of the check out, if it was served, to b.
Far(a, b) == IF a = b THEN 0 ELSE 1
Ahead(a, cs, b) == IF cs = <<>> \/ cs[1] = NoVersion THEN Far(a, b) ELSE Far(a, cs[1]) + Far(cs[1], b)

\* While checks do not overlap, the toasts shown and those that the snapshot
\* is behind were all deployed.
ToastsCovered ==
  ~overlapped =>
    /\ Len(checks) <= 1
    /\ boot["check"].st # "over" => checks = <<>> /\ snapshot = NoVersion
    /\ snapshot = NoVersion => toasts = 0
    /\ snapshot # NoVersion => toasts + Ahead(snapshot, checks, deployed) <= deploys

VersionIInv ==
  /\ VersionTypeOK /\ checks \in Seq(Versions \cup {NoVersion})
  /\ UndeployedIsOne /\ ToastsCovered

\* What is polled, listed or answered was made by the server, and a status
\* that is over is the server's.
KnownIsMade ==
  /\ \A r \in ReportIds : poll[r] # Absent => made[r] # "none"
  /\ \A r \in ReportIds : poll[r] \in Over => made[r] = poll[r]
  /\ \A g \in gen : g.ans # Absent => made[g.ans] # "none"

\* The requests of the mounted view: one while it generates, else none.
OwnRequests ==
  /\ \A g, h \in gen : g.mine /\ h.mine => g = h
  /\ (\E g \in gen : g.mine) <=> (mounted /\ isGenerating)

Statuses == {"none", "generating", "completed", "failed"}
Shown == {Absent, "generating", "completed", "failed"}
Polls == {Absent, "timer", "sent", "generating", "completed", "failed"}
Gens == [id : 1 .. MaxGen, ans : ReportIds \cup {Absent}, mine : BOOLEAN]

ReportsType ==
  /\ made \in [ReportIds -> Statuses]
  /\ reports \in [ReportIds -> Shown]
  /\ poll \in [ReportIds -> Polls]
  /\ dateRange \in {"range", "half", Absent} /\ sections \subseteq Sections
  /\ gen \subseteq Gens /\ lost \subseteq ReportIds
  /\ mounted \in BOOLEAN /\ showGenerateDialog \in BOOLEAN /\ isGenerating \in BOOLEAN

ReportsIInv ==
  /\ ReportsType /\ KnownIsMade /\ OwnRequests
  /\ SpinnerIsFollowed /\ OfferedIsReady

TabIInv ==
  /\ part \in {"version", "reports"} /\ faults \in 0 .. MaxFaults /\ reloaded \in BOOLEAN
  /\ VersionIInv /\ ReportsIInv

-----------------------------------------------------------------------------
(* The version check.                                                      *)

Answers == Versions \cup {NoVersion}

\* The instance's sequences are this module's.
LEMMA TabSequences ==
  ASSUME NEW S, NEW s \in Seq(S)
  PROVE  Range(s) \subseteq S /\ \A i : RemoveAt(s, i) = RemoveAt(s, i)
<1>1. Range(s) \subseteq S
  BY LenProperties DEF Range
<1>2. \A i : RemoveAt(s, i) = RemoveAt(s, i)
  BY DEF RemoveAt, RemoveAt
<1> QED BY <1>1, <1>2

\* A sequence of length 0 is empty.
LEMMA NoneLeft == ASSUME NEW S, NEW s \in Seq(S), Len(s) = 0 PROVE s = <<>>
BY EmptySeq

\* Another version is deployed: the snapshot is one more behind.
LEMMA DeployKeeps ==
  ASSUME VersionIInv, NEW v \in Versions, Deploy(v)
  PROVE  VersionIInv'
<1>1. /\ deploys < MaxDeploys /\ deployed' = v /\ deploys' = deploys + 1
      /\ UNCHANGED <<boot, backend, snapshot, checks, toasts, overlapped>>
  BY DEF Deploy
<1>2. deploys \in 0 .. MaxDeploys /\ MaxDeploys \in Nat /\ toasts \in Nat
  BY VersionCheckAssumptions DEF VersionIInv, VersionTypeOK
<1>3. VersionTypeOK' /\ checks' \in Seq(Versions \cup {NoVersion})
  BY <1>1, <1>2 DEF VersionIInv, VersionTypeOK
<1>4. UndeployedIsOne'
  BY <1>1, <1>2 DEF UndeployedIsOne
<1>5. ToastsCovered'
  <2>1. Ahead(snapshot, checks, v) \in 0 .. 2 /\ Ahead(snapshot, checks, deployed) \in 0 .. 2
        /\ Ahead(snapshot, checks, v) <= Ahead(snapshot, checks, deployed) + 1
    BY DEF Ahead, Far
  <2>2. ASSUME ~overlapped, snapshot # NoVersion
        PROVE  toasts + Ahead(snapshot, checks, v) <= deploys + 1
    <3>1. toasts + Ahead(snapshot, checks, deployed) <= deploys
      BY <2>2 DEF VersionIInv, ToastsCovered
    <3> HIDE DEF Ahead
    <3> QED BY <1>2, <2>1, <3>1
  <2> QED BY <1>1, <2>2 DEF VersionIInv, ToastsCovered
<1> QED BY <1>3, <1>4, <1>5 DEF VersionIInv

\* The two fetches of the start: the snapshot is taken of one of them.
LEMMA BootKeeps ==
  ASSUME VersionIInv, NEW k \in Boots,
         ServeBoot(k) \/ fetchBackend(k) \/ FetchFails(k)
  PROVE  VersionIInv'
<1>0. /\ deploys \in 0 .. MaxDeploys /\ MaxDeploys \in Nat /\ toasts \in Nat
      /\ deployed \in Versions /\ snapshot \in Answers /\ backend \in Answers
      /\ boot \in [Boots -> [st : {"sent", "served", "over"}, v : Answers]]
      /\ UndeployedIsOne /\ ToastsCovered /\ "check" \in Boots
  BY VersionCheckAssumptions DEF VersionIInv, VersionTypeOK, Answers, Boots
<1>1. UNCHANGED <<deployed, deploys, checks, toasts, overlapped>>
  BY DEF ServeBoot, fetchBackend, FetchFails
<1>2. CASE ServeBoot(k)
  <2>1. /\ boot[k].st = "sent" /\ boot' = [boot EXCEPT ![k] = [st |-> "served", v |-> deployed]]
        /\ backend' = backend /\ snapshot' = snapshot
    BY <1>2 DEF ServeBoot
  <2>2. boot' \in [Boots -> [st : {"sent", "served", "over"}, v : Answers]]
    BY <1>0, <2>1 DEF Answers
  <2>3. VersionTypeOK' /\ checks' \in Seq(Versions \cup {NoVersion})
    BY <1>1, <2>1, <2>2 DEF VersionIInv, VersionTypeOK, Answers
  <2>4. UndeployedIsOne'
    BY <1>0, <1>1, <2>1 DEF UndeployedIsOne
  <2>5. boot'["check"].st # "over" => boot["check"].st # "over"
    BY <1>0, <2>1
  <2>6. ToastsCovered'
    BY <1>0, <1>1, <2>1, <2>5 DEF ToastsCovered
  <2> QED BY <2>3, <2>4, <2>6 DEF VersionIInv
<1>3. CASE fetchBackend(k) \/ FetchFails(k)
  <2>1. PICK w \in Answers :
          /\ boot[k].st # "over" /\ boot' = [boot EXCEPT ![k] = [st |-> "over", v |-> NoVersion]]
          /\ w = boot[k].v \/ w = backend
          /\ backend' = w /\ snapshot' = IF k = "check" THEN w ELSE snapshot
    BY <1>0, <1>3 DEF fetchBackend, FetchFails, Fetched
  <2>2. boot' \in [Boots -> [st : {"sent", "served", "over"}, v : Answers]]
    BY <1>0, <2>1 DEF Answers
  <2>3. VersionTypeOK' /\ checks' \in Seq(Versions \cup {NoVersion})
    BY <1>0, <1>1, <2>1, <2>2 DEF VersionIInv, VersionTypeOK, Answers
  <2>4. deploys = 0 => w \in {1, NoVersion}
    BY <1>0, <2>1 DEF UndeployedIsOne
  <2>5. UndeployedIsOne'
    BY <1>0, <1>1, <2>1, <2>4 DEF UndeployedIsOne
  <2>6. ToastsCovered'
    <3>1. CASE k # "check"
      <4>1. boot'["check"] = boot["check"] /\ snapshot' = snapshot
        BY <1>0, <2>1, <3>1
      <4> QED BY <1>0, <1>1, <4>1 DEF ToastsCovered
    <3>2. CASE k = "check"
      <4>1. boot'["check"].st = "over" /\ snapshot' = w
        BY <1>0, <2>1, <3>2
      <4>2. ~overlapped => checks = <<>> /\ toasts = 0
        BY <1>0, <2>1, <3>2 DEF ToastsCovered
      <4>3. w # NoVersion => Far(w, deployed) <= deploys
        BY <1>0, <2>4 DEF Far, UndeployedIsOne
      <4>4. Len(<<>>) <= 1
        OBVIOUS
      <4>5. Far(w, deployed) \in Nat
        BY DEF Far
      <4> HIDE DEF Far
      <4>6. ~overlapped => toasts + Far(w, deployed) = Far(w, deployed)
        BY <4>2, <4>5
      <4>7. ASSUME ~overlapped, w # NoVersion
            PROVE  toasts + Ahead(w, checks, deployed) <= deploys
        BY <4>2, <4>3, <4>6, <4>7 DEF Ahead
      <4> QED BY <1>1, <4>1, <4>2, <4>4, <4>7 DEF ToastsCovered
    <3> QED BY <3>1, <3>2
  <2> QED BY <2>3, <2>5, <2>6 DEF VersionIInv
<1> QED BY <1>2, <1>3

\* The interval fires: the new check has no version yet.
LEMMA TickKeeps ==
  ASSUME VersionIInv, Tick
  PROVE  VersionIInv'
<1>0. /\ checks \in Seq(Answers) /\ NoVersion \in Answers /\ UndeployedIsOne /\ ToastsCovered
      /\ MaxChecks \in Nat
  BY VersionCheckAssumptions DEF VersionIInv, Answers
<1>1. /\ Len(checks) < MaxChecks /\ checks' = Append(checks, NoVersion)
      /\ overlapped' = (overlapped \/ checks # <<>> \/ boot["check"].st # "over")
      /\ UNCHANGED <<deployed, deploys, boot, backend, snapshot, toasts>>
  BY DEF Tick
<1>2. /\ checks' \in Seq(Answers) /\ Len(checks') = Len(checks) + 1
      /\ \A j \in DOMAIN checks' : checks'[j] = NoVersion \/ (j \in DOMAIN checks /\ checks'[j] = checks[j])
  <2>1. /\ Append(checks, NoVersion) \in Seq(Answers) /\ Len(Append(checks, NoVersion)) = Len(checks) + 1
        /\ \A j \in DOMAIN Append(checks, NoVersion) :
             Append(checks, NoVersion)[j] = NoVersion
               \/ (j \in DOMAIN checks /\ Append(checks, NoVersion)[j] = checks[j])
    BY ONLY <1>0, AppendKeeps
  <2> QED BY ONLY <1>1, <2>1
<1>3. VersionTypeOK' /\ checks' \in Seq(Versions \cup {NoVersion})
  <2>1. Range(checks') \subseteq Answers /\ Len(checks') <= MaxChecks
    <3>1. Range(checks') \subseteq Answers
      BY <1>2, TabSequences
    <3>2. Len(checks) \in Nat
      BY <1>0, LenProperties
    <3> QED BY <1>0, <1>1, <1>2, <3>1, <3>2
  <2>2. overlapped' \in BOOLEAN
    BY <1>1
  <2> QED BY <1>1, <1>2, <2>1, <2>2 DEF VersionIInv, VersionTypeOK, Answers
<1>4. UndeployedIsOne'
  BY <1>0, <1>1, <1>2 DEF UndeployedIsOne
<1>5. ToastsCovered'
  <2> SUFFICES ASSUME ~overlapped'
               PROVE  /\ Len(checks') <= 1
                      /\ boot["check"].st # "over" => checks' = <<>> /\ snapshot = NoVersion
                      /\ snapshot = NoVersion => toasts = 0
                      /\ snapshot # NoVersion => toasts + Ahead(snapshot, checks', deployed) <= deploys
    BY <1>1 DEF ToastsCovered
  <2>1. ~overlapped /\ checks = <<>> /\ boot["check"].st = "over"
    BY <1>1, Zenon
  <2>2. Len(checks') = 1 /\ checks'[1] = NoVersion
    <3>1. Len(checks) = 0
      BY <2>1
    <3>2. Len(checks') = 1 /\ DOMAIN checks' = 1 .. 1
      BY <1>2, <3>1, LenProperties
    <3>3. DOMAIN checks = 1 .. 0
      BY <1>0, <3>1, LenProperties
    <3> QED BY <1>2, <3>2, <3>3
  <2>3. /\ Ahead(snapshot, checks', deployed) = Far(snapshot, deployed)
        /\ Ahead(snapshot, checks, deployed) = Far(snapshot, deployed)
    BY <2>1, <2>2 DEF Ahead
  <2>4. /\ snapshot = NoVersion => toasts = 0
        /\ snapshot # NoVersion => toasts + Ahead(snapshot, checks, deployed) <= deploys
    BY <1>0, <2>1 DEF ToastsCovered
  <2> QED BY <2>1, <2>2, <2>3, <2>4
<1> QED BY <1>3, <1>4, <1>5 DEF VersionIInv

\* A check is served with the version deployed by then.
LEMMA ServeCheckKeeps ==
  ASSUME VersionIInv, NEW i, ServeCheck(i)
  PROVE  VersionIInv'
<1>0. /\ checks \in Seq(Answers) /\ deployed \in Answers /\ deployed # NoVersion
      /\ UndeployedIsOne /\ ToastsCovered /\ toasts \in Nat /\ deploys \in Nat
  BY VersionCheckAssumptions DEF VersionIInv, Answers, VersionTypeOK, Versions
<1>1. /\ i \in DOMAIN checks /\ checks[i] = NoVersion /\ checks' = [checks EXCEPT ![i] = deployed]
      /\ UNCHANGED <<deployed, deploys, boot, backend, snapshot, toasts, overlapped>>
  BY DEF ServeCheck
<1>2. Len(checks) \in Nat /\ DOMAIN checks = 1 .. Len(checks)
  BY <1>0, LenProperties
<1>3. /\ checks' \in Seq(Answers) /\ Len(checks') = Len(checks)
      /\ \A j \in 1 .. Len(checks) : checks'[j] = IF j = i THEN deployed ELSE checks[j]
  <2>1. i \in 1 .. Len(checks)
    BY <1>1, <1>2
  <2> QED BY <1>0, <1>1, <2>1, ExceptSeq
<1>4. VersionTypeOK' /\ checks' \in Seq(Versions \cup {NoVersion})
  <2>1. Range(checks') \subseteq Answers
    BY <1>3, TabSequences
  <2> QED BY <1>1, <1>3, <2>1 DEF VersionIInv, VersionTypeOK, Answers
<1>5. DOMAIN checks' = 1 .. Len(checks)
  BY <1>3, LenProperties
<1>6. UndeployedIsOne'
  BY <1>0, <1>1, <1>2, <1>3, <1>5 DEF UndeployedIsOne
<1>7. ToastsCovered'
  <2> SUFFICES ASSUME ~overlapped
               PROVE  /\ Len(checks') <= 1
                      /\ boot["check"].st # "over" => checks' = <<>> /\ snapshot = NoVersion
                      /\ snapshot = NoVersion => toasts = 0
                      /\ snapshot # NoVersion => toasts + Ahead(snapshot, checks', deployed) <= deploys
    BY <1>1 DEF ToastsCovered
  <2>1. /\ Len(checks) <= 1
        /\ boot["check"].st # "over" => checks = <<>>
        /\ snapshot = NoVersion => toasts = 0
        /\ snapshot # NoVersion => toasts + Ahead(snapshot, checks, deployed) <= deploys
    BY <1>0 DEF ToastsCovered
  <2>2. i = 1 /\ Len(checks) = 1 /\ checks # <<>>
    BY <1>1, <1>2, <2>1
  <2>3. checks'[1] = deployed /\ checks' # <<>>
    BY <1>2, <1>3, <2>2
  <2>4. Ahead(snapshot, checks', deployed) = Far(snapshot, deployed)
    BY <1>0, <2>3 DEF Ahead, Far
  <2>5. Ahead(snapshot, checks, deployed) = Far(snapshot, deployed)
    BY <1>1, <2>2 DEF Ahead
  <2> QED BY <1>3, <2>1, <2>2, <2>4, <2>5
<1> QED BY <1>4, <1>6, <1>7 DEF VersionIInv

\* A check is over: answered, perhaps with a toast, or failed.
LEMMA CheckKeeps ==
  ASSUME VersionIInv, NEW i, check(i) \/ CheckFails(i)
  PROVE  VersionIInv'
<1>0. /\ checks \in Seq(Answers) /\ deployed \in Versions /\ snapshot \in Answers
      /\ UndeployedIsOne /\ ToastsCovered /\ toasts \in Nat /\ deploys \in Nat
      /\ VersionTypeOK /\ NoVersion \notin Versions
  BY VersionCheckAssumptions DEF VersionIInv, Answers, VersionTypeOK, Versions
<1>1. /\ i \in DOMAIN checks /\ checks' = RemoveAt(checks, i)
      /\ UNCHANGED <<deployed, deploys, boot, backend, overlapped>>
  BY <1>0, TabSequences DEF check, CheckFails
<1>2. /\ Len(checks) \in Nat /\ DOMAIN checks = 1 .. Len(checks) /\ checks[i] \in Answers
  BY <1>0, <1>1, LenProperties
<1>3. /\ checks' \in Seq(Answers) /\ Len(checks') = Len(checks) - 1
      /\ \A j \in DOMAIN checks' : \E k \in DOMAIN checks : checks'[j] = checks[k]
  <2>1. /\ RemoveAt(checks, i) \in Seq(Answers) /\ Len(RemoveAt(checks, i)) = Len(checks) - 1
        /\ \A j \in DOMAIN RemoveAt(checks, i) :
             \E k \in DOMAIN checks : RemoveAt(checks, i)[j] = checks[k]
    BY ONLY <1>0, <1>1, RemoveAtKeeps
  <2> QED BY ONLY <1>1, <2>1
<1>4. \/ /\ snapshot # NoVersion /\ checks[i] # NoVersion /\ checks[i] # snapshot
         /\ toasts' = toasts + 1 /\ snapshot' = checks[i]
      \/ toasts' = toasts /\ snapshot' = snapshot
  BY DEF check, CheckFails
<1>5. VersionTypeOK' /\ checks' \in Seq(Versions \cup {NoVersion})
  <2>1. Range(checks') \subseteq Answers
    BY <1>3, TabSequences
  <2>2. Len(checks') <= MaxChecks
    BY <1>0, <1>2, <1>3, VersionCheckAssumptions DEF VersionTypeOK
  <2>3. snapshot' \in Answers /\ toasts' \in Nat
    BY <1>0, <1>2, <1>4
  <2> QED BY <1>0, <1>1, <1>3, <2>1, <2>2, <2>3 DEF VersionTypeOK, Answers
<1>6. UndeployedIsOne'
  <2>1. deploys = 0 => checks[i] \in {1, NoVersion} /\ snapshot \in {1, NoVersion}
    BY <1>0, <1>1 DEF UndeployedIsOne
  <2>2. deploys = 0 => toasts' = toasts /\ snapshot' = snapshot
    BY <1>4, <2>1
  <2> QED BY <1>0, <1>1, <1>3, <2>2 DEF UndeployedIsOne
<1>7. ToastsCovered'
  <2> SUFFICES ASSUME ~overlapped
               PROVE  /\ Len(checks') <= 1
                      /\ boot["check"].st # "over" => checks' = <<>> /\ snapshot' = NoVersion
                      /\ snapshot' = NoVersion => toasts' = 0
                      /\ snapshot' # NoVersion => toasts' + Ahead(snapshot', checks', deployed) <= deploys
    BY <1>1 DEF ToastsCovered
  <2>1. /\ Len(checks) <= 1
        /\ boot["check"].st # "over" => checks = <<>>
        /\ snapshot = NoVersion => toasts = 0
        /\ snapshot # NoVersion => toasts + Ahead(snapshot, checks, deployed) <= deploys
    BY <1>0 DEF ToastsCovered
  <2>2. i = 1 /\ Len(checks) = 1 /\ checks # <<>>
    BY <1>1, <1>2, <2>1
  <2>3. Len(checks') = 0 /\ checks' = <<>>
    BY <1>3, <2>2, NoneLeft
  <2>4. \A a : Ahead(a, checks', deployed) = Far(a, deployed)
    BY <2>3 DEF Ahead
  <2>5. CASE /\ snapshot # NoVersion /\ checks[i] # NoVersion /\ checks[i] # snapshot
             /\ toasts' = toasts + 1 /\ snapshot' = checks[i]
    <3>1. Ahead(snapshot, checks, deployed) = 1 + Far(snapshot', deployed)
      BY <2>2, <2>5 DEF Ahead, Far
    <3>2. Far(snapshot', deployed) \in Nat
      BY DEF Far
    <3>3. toasts' + Far(snapshot', deployed) <= deploys
      <4> HIDE DEF Ahead, Far
      <4> QED BY <1>0, <2>1, <2>5, <3>1, <3>2
    <3> QED BY <2>1, <2>2, <2>3, <2>4, <2>5, <3>3
  <2>6. CASE toasts' = toasts /\ snapshot' = snapshot
    <3>1. Far(snapshot, deployed) <= Ahead(snapshot, checks, deployed)
          /\ Far(snapshot, deployed) \in Nat /\ Ahead(snapshot, checks, deployed) \in Nat
      BY DEF Ahead, Far
    <3>2. snapshot # NoVersion => toasts + Far(snapshot, deployed) <= deploys
      <4> HIDE DEF Ahead, Far
      <4> QED BY <1>0, <2>1, <3>1
    <3> QED BY <2>1, <2>2, <2>3, <2>4, <2>6, <3>2
  <2> QED BY <1>4, <2>5, <2>6
<1> QED BY <1>5, <1>6, <1>7 DEF VersionIInv

\* A tab that has just been opened, whatever was deployed before.
LEMMA OpenedRight ==
  /\ VersionInit => VersionIInv
  /\ VersionIInv /\ VersionReload => VersionIInv'
<1>0. /\ 1 \in Versions /\ MaxDeploys \in Nat /\ MaxChecks \in Nat
      /\ <<>> \in Seq(Answers) /\ Len(<<>>) = 0 /\ Range(<<>>) \subseteq Answers
  <2>1. 1 \in Versions /\ MaxDeploys \in Nat /\ MaxChecks \in Nat
    BY VersionCheckAssumptions DEF Versions
  <2>2. <<>> \in Seq(Answers) /\ Len(<<>>) = 0
    BY EmptySeq
  <2>3. Range(<<>>) \subseteq Answers
    BY <2>2, TabSequences
  <2> QED BY <2>1, <2>2, <2>3
<1>1. ASSUME NEW b, b = [k \in Boots |-> [st |-> "sent", v |-> NoVersion]]
      PROVE  /\ b \in [Boots -> [st : {"sent", "served", "over"}, v : Answers]]
             /\ b["check"].st # "over" /\ \A k \in Boots : b[k].v = NoVersion
  BY <1>1 DEF Answers, Boots
<1>2. ASSUME VersionInit PROVE VersionIInv
  <2>1. /\ deployed = 1 /\ deploys = 0 /\ boot = [k \in Boots |-> [st |-> "sent", v |-> NoVersion]]
        /\ backend = NoVersion /\ snapshot = NoVersion /\ checks = <<>> /\ toasts = 0 /\ overlapped = FALSE
    BY <1>2 DEF VersionInit, Opened
  <2>2. /\ boot \in [Boots -> [st : {"sent", "served", "over"}, v : Answers]]
        /\ boot["check"].st # "over" /\ \A k \in Boots : boot[k].v = NoVersion
    BY <1>1, <2>1
  <2>3. VersionTypeOK /\ checks \in Seq(Versions \cup {NoVersion})
    <3>1. /\ checks \in Seq(Answers) /\ Len(checks) <= MaxChecks
          /\ Range(checks) \subseteq Answers
      BY <1>0, <2>1
    <3>2. overlapped \in BOOLEAN /\ toasts \in Nat
      BY <2>1
    <3>3. deployed \in Versions /\ deploys \in 0 .. MaxDeploys
      BY <1>0, <2>1
    <3> QED BY <2>1, <2>2, <3>1, <3>2, <3>3 DEF VersionTypeOK, Answers
  <2> QED BY <2>1, <2>2, <2>3 DEF VersionIInv, UndeployedIsOne, ToastsCovered
<1>3. ASSUME VersionIInv, VersionReload PROVE VersionIInv'
  <2>1. /\ deployed' = deployed /\ deploys' = deploys
        /\ boot' = [k \in Boots |-> [st |-> "sent", v |-> NoVersion]]
        /\ backend' = NoVersion /\ snapshot' = NoVersion /\ checks' = <<>> /\ toasts' = 0 /\ overlapped' = FALSE
    BY <1>3 DEF VersionReload, Opened
  <2>2. /\ boot' \in [Boots -> [st : {"sent", "served", "over"}, v : Answers]]
        /\ boot'["check"].st # "over" /\ \A k \in Boots : boot'[k].v = NoVersion
    BY <1>1, <2>1
  <2>3. VersionTypeOK' /\ checks' \in Seq(Versions \cup {NoVersion})
    <3>1. /\ checks' \in Seq(Answers) /\ Len(checks') <= MaxChecks
          /\ Range(checks') \subseteq Answers
      BY <1>0, <2>1
    <3>2. overlapped' \in BOOLEAN /\ toasts' \in Nat
      BY <2>1
    <3>3. deployed' \in Versions /\ deploys' \in 0 .. MaxDeploys
      BY <1>0, <1>3, <2>1 DEF VersionIInv, VersionTypeOK
    <3> QED BY <2>1, <2>2, <3>1, <3>2, <3>3 DEF VersionTypeOK, Answers
  <2>4. UndeployedIsOne' /\ ToastsCovered'
    BY <1>3, <2>1, <2>2 DEF VersionIInv, UndeployedIsOne, ToastsCovered
  <2> QED BY <2>3, <2>4 DEF VersionIInv
<1> QED BY <1>2, <1>3

-----------------------------------------------------------------------------
(* The reports.                                                            *)

\* The dialog's fields touch neither requests nor polls.
LEMMA FormKeeps ==
  ASSUME ReportsIInv,
         \/ openGenerateDialog \/ CancelDialog
         \/ \E d \in {"range", "half", Absent} : applyPreset(d)
         \/ \E s \in Sections : toggleSection(s)
  PROVE  ReportsIInv'
<1>1. UNCHANGED <<made, reports, mounted, isGenerating, gen, poll, lost>>
  BY DEF openGenerateDialog, CancelDialog, applyPreset, toggleSection
<1>2. showGenerateDialog' \in BOOLEAN /\ dateRange' \in {"range", "half", Absent}
      /\ sections' \subseteq Sections
  BY DEF ReportsIInv, ReportsType, openGenerateDialog, CancelDialog, applyPreset,
         toggleSection
<1>3. ReportsType'
  BY <1>1, <1>2 DEF ReportsIInv, ReportsType
<1>4. KnownIsMade' /\ OwnRequests' /\ SpinnerIsFollowed' /\ OfferedIsReady'
  BY <1>1 DEF ReportsIInv, KnownIsMade, OwnRequests, SpinnerIsFollowed, OfferedIsReady
<1> QED BY <1>3, <1>4 DEF ReportsIInv

\* The view is entered with no request of its own, and left with none.
LEMMA ViewKeeps ==
  ASSUME ReportsIInv, EnterReports \/ LeaveReports
  PROVE  ReportsIInv'
<1>0. ReportsType /\ KnownIsMade /\ OwnRequests /\ SpinnerIsFollowed /\ OfferedIsReady
  BY DEF ReportsIInv
<1>1. UNCHANGED <<made, reports, poll, lost>>
  BY DEF EnterReports, LeaveReports
<1>2. SpinnerIsFollowed' /\ OfferedIsReady'
  BY <1>0, <1>1 DEF SpinnerIsFollowed, OfferedIsReady
<1>3. CASE EnterReports
  <2>1. /\ ~mounted /\ mounted' = TRUE /\ isGenerating' = FALSE /\ gen' = gen
        /\ showGenerateDialog' = FALSE /\ dateRange' = "range" /\ sections' = Sections
    BY <1>3 DEF EnterReports
  <2>2. ReportsType'
    BY <1>0, <1>1, <2>1 DEF ReportsType
  <2>3. KnownIsMade' /\ OwnRequests'
    BY <1>0, <1>1, <2>1 DEF KnownIsMade, OwnRequests
  <2> QED BY <1>2, <2>2, <2>3 DEF ReportsIInv
<1>4. CASE LeaveReports
  <2>1. /\ mounted' = FALSE /\ gen' = {[g EXCEPT !.mine = FALSE] : g \in gen}
        /\ UNCHANGED <<showGenerateDialog, dateRange, sections, isGenerating>>
    BY <1>4 DEF LeaveReports, formVars
  <2>2. ASSUME NEW h \in gen'
        PROVE  h \in Gens /\ ~h.mine /\ \E g \in gen : h.ans = g.ans
    <3>1. PICK g \in gen : h = [g EXCEPT !.mine = FALSE]
      BY <2>1
    <3>2. g \in Gens
      BY <1>0 DEF ReportsType
    <3>3. h \in Gens /\ h.mine = FALSE /\ h.ans = g.ans
      BY <3>1, <3>2 DEF Gens
    <3> QED BY <3>3
  <2>3. ReportsType'
    BY <1>0, <1>1, <2>1, <2>2 DEF ReportsType
  <2>4. KnownIsMade'
    BY <1>0, <1>1, <2>2 DEF KnownIsMade
  <2>5. OwnRequests'
    BY <2>1, <2>2 DEF OwnRequests
  <2> QED BY <1>2, <2>3, <2>4, <2>5 DEF ReportsIInv
<1> QED BY <1>3, <1>4

\* A report is requested: the only request of this mount.
LEMMA RequestKeeps ==
  ASSUME ReportsIInv, generateReport
  PROVE  ReportsIInv'
<1>0. ReportsType /\ KnownIsMade /\ OwnRequests /\ SpinnerIsFollowed /\ OfferedIsReady
  BY DEF ReportsIInv
<1>1. /\ mounted /\ ~isGenerating /\ isGenerating' = TRUE
      /\ UNCHANGED <<made, reports, mounted, showGenerateDialog, dateRange, sections, poll, lost>>
  BY DEF generateReport, formVars
<1>2. PICK n \in 1 .. MaxGen : gen' = gen \cup {[id |-> n, ans |-> Absent, mine |-> TRUE]}
  BY DEF generateReport
<1> DEFINE q == [id |-> n, ans |-> Absent, mine |-> TRUE]
<1>3. q \in Gens /\ q.ans = Absent /\ q.mine
  BY DEF Gens
<1>4. gen' = gen \cup {q}
  BY <1>2
<1> HIDE DEF q
<1>5. \A g \in gen : ~g.mine
  BY <1>0, <1>1 DEF OwnRequests
<1>6. ReportsType'
  BY <1>0, <1>1, <1>3, <1>4 DEF ReportsType
<1>7. KnownIsMade'
  BY <1>0, <1>1, <1>3, <1>4 DEF KnownIsMade
<1>8. OwnRequests'
  BY <1>1, <1>3, <1>4, <1>5 DEF OwnRequests
<1>9. SpinnerIsFollowed' /\ OfferedIsReady'
  BY <1>0, <1>1 DEF SpinnerIsFollowed, OfferedIsReady
<1> QED BY <1>6, <1>7, <1>8, <1>9 DEF ReportsIInv

\* The server makes a report for a request, and finishes one.
LEMMA ServerKeeps ==
  ASSUME ReportsIInv,
         ServeGenerate \/ \E r \in ReportIds : FinishReport(r)
  PROVE  ReportsIInv'
<1>0. /\ ReportsType /\ KnownIsMade /\ OwnRequests /\ SpinnerIsFollowed /\ OfferedIsReady
      /\ Absent \notin Statuses /\ Absent \notin ReportIds
  BY ReportsAssumptions DEF ReportsIInv, Statuses, ReportIds
<1>1. UNCHANGED <<reports, mounted, showGenerateDialog, dateRange, sections, isGenerating, poll, lost>>
  BY DEF ServeGenerate, FinishReport, formVars
<1>2. SpinnerIsFollowed'
  BY <1>0, <1>1 DEF SpinnerIsFollowed
<1>3. CASE ServeGenerate
  <2>1. PICK g \in gen, r \in ReportIds :
          /\ made[r] = "none" /\ made' = [made EXCEPT ![r] = "generating"]
          /\ gen' = (gen \ {g}) \cup {[g EXCEPT !.ans = r]}
    BY <1>3 DEF ServeGenerate
  <2> DEFINE h == [g EXCEPT !.ans = r]
  <2>2. h \in Gens /\ h.ans = r /\ h.mine = g.mine
    BY <1>0, <2>1 DEF ReportsType, Gens
  <2>3. gen' = (gen \ {g}) \cup {h}
    BY <2>1
  <2> HIDE DEF h
  <2>4. made' \in [ReportIds -> Statuses] /\ made'[r] = "generating"
        /\ \A q \in ReportIds : q # r => made'[q] = made[q]
    BY <1>0, <2>1 DEF ReportsType, Statuses
  <2>5. ReportsType'
    BY <1>0, <1>1, <2>2, <2>3, <2>4 DEF ReportsType
  <2>6. KnownIsMade'
    <3>1. \A q \in ReportIds : poll[q] # Absent => made'[q] # "none"
      BY <1>0, <2>4 DEF KnownIsMade
    <3>2. \A q \in ReportIds : poll[q] \in Over => made'[q] = poll[q]
      BY <1>0, <2>1, <2>4 DEF KnownIsMade, Over
    <3>3. \A k \in gen' : k.ans # Absent => made'[k.ans] # "none"
      <4>1. \A k \in gen : k.ans # Absent => k.ans \in ReportIds /\ made[k.ans] # "none"
        BY <1>0 DEF KnownIsMade, ReportsType, Gens
      <4> QED BY <2>2, <2>3, <2>4, <4>1
    <3> QED BY <1>1, <3>1, <3>2, <3>3 DEF KnownIsMade
  <2>7. OwnRequests'
    BY <1>0, <1>1, <2>1, <2>2, <2>3 DEF OwnRequests
  <2>8. OfferedIsReady'
    BY <1>0, <1>1, <2>1, <2>4 DEF OfferedIsReady, Over
  <2> QED BY <1>2, <2>5, <2>6, <2>7, <2>8 DEF ReportsIInv
<1>4. ASSUME NEW r \in ReportIds, FinishReport(r)
      PROVE  ReportsIInv'
  <2>1. PICK s \in Over : made' = [made EXCEPT ![r] = s]
    BY <1>4 DEF FinishReport
  <2>2. made[r] = "generating" /\ gen' = gen
    BY <1>4 DEF FinishReport
  <2>3. made' \in [ReportIds -> Statuses] /\ made'[r] = s /\ s # "none"
        /\ \A q \in ReportIds : q # r => made'[q] = made[q]
    BY <1>0, <2>1 DEF ReportsType, Statuses, Over
  <2>4. ReportsType'
    BY <1>0, <1>1, <2>2, <2>3 DEF ReportsType
  <2>5. KnownIsMade'
    <3>1. \A q \in ReportIds : poll[q] # Absent => made'[q] # "none"
      BY <1>0, <2>3 DEF KnownIsMade
    <3>2. \A q \in ReportIds : poll[q] \in Over => made'[q] = poll[q]
      BY <1>0, <2>2, <2>3 DEF KnownIsMade, Over
    <3>3. \A k \in gen' : k.ans # Absent => made'[k.ans] # "none"
      <4>1. \A k \in gen : k.ans # Absent => k.ans \in ReportIds /\ made[k.ans] # "none"
        BY <1>0 DEF KnownIsMade, ReportsType, Gens
      <4> QED BY <2>2, <2>3, <4>1
    <3> QED BY <1>1, <3>1, <3>2, <3>3 DEF KnownIsMade
  <2>6. OwnRequests'
    BY <1>0, <1>1, <2>2 DEF OwnRequests
  <2>7. OfferedIsReady'
    BY <1>0, <1>1, <2>2, <2>3 DEF OfferedIsReady, Over
  <2> QED BY <1>2, <2>4, <2>5, <2>6, <2>7 DEF ReportsIInv
<1> QED BY <1>3, <1>4

\* A request is over: answered, and polled from now on, or failed.
LEMMA GeneratedKeeps ==
  ASSUME ReportsIInv, NEW g \in gen, Generated(g) \/ GenerateFails(g)
  PROVE  ReportsIInv'
<1>0. /\ ReportsType /\ KnownIsMade /\ OwnRequests /\ SpinnerIsFollowed /\ OfferedIsReady
      /\ Absent \notin Polls \ {Absent}
      /\ g.mine \in BOOLEAN /\ g.ans \in ReportIds \cup {Absent}
  BY DEF ReportsIInv, ReportsType, Gens
<1>1. /\ isGenerating' = (isGenerating /\ ~g.mine) /\ gen' = gen \ {g}
      /\ UNCHANGED <<made, mounted, dateRange, sections, lost>>
  BY DEF Generated, GenerateFails, formVars
<1>2. showGenerateDialog' \in BOOLEAN
  BY <1>0 DEF Generated, GenerateFails, formVars, ReportsType
<1>3. isGenerating' \in BOOLEAN
  BY <1>1
<1>4. OwnRequests'
  <2>1. CASE g.mine
    <3>1. \A h \in gen' : ~h.mine
      BY <1>0, <1>1, <2>1 DEF OwnRequests
    <3>2. ~isGenerating'
      BY <1>1, <2>1, Zenon
    <3> QED BY <3>1, <3>2 DEF OwnRequests
  <2>2. CASE ~g.mine
    <3>1. isGenerating' <=> isGenerating
      BY <1>1, <2>2, Zenon
    <3>2. (\E h \in gen : h.mine) <=> (\E h \in gen' : h.mine)
      BY <1>1, <2>2
    <3>3. \A h, k \in gen' : h.mine /\ k.mine => h = k
      BY <1>0, <1>1 DEF OwnRequests
    <3>4. (\E h \in gen' : h.mine) <=> (mounted' /\ isGenerating')
      BY <1>0, <1>1, <3>1, <3>2 DEF OwnRequests
    <3> QED BY <3>3, <3>4 DEF OwnRequests
  <2> QED BY <2>1, <2>2
<1>5. CASE GenerateFails(g)
  <2>1. UNCHANGED <<reports, poll>>
    BY <1>5 DEF GenerateFails
  <2>2. ReportsType'
    BY <1>0, <1>1, <1>2, <1>3, <2>1 DEF ReportsType
  <2>3. KnownIsMade' /\ SpinnerIsFollowed' /\ OfferedIsReady'
    BY <1>0, <1>1, <2>1 DEF KnownIsMade, SpinnerIsFollowed, OfferedIsReady
  <2> QED BY <1>4, <2>2, <2>3 DEF ReportsIInv
<1>6. CASE Generated(g)
  <2> DEFINE r == g.ans
  <2>1. /\ r \in ReportIds /\ r # Absent
        /\ reports' = [reports EXCEPT ![r] = "generating"]
        /\ poll' = [poll EXCEPT ![r] = IF poll[r] = Absent THEN "sent" ELSE poll[r]]
    BY <1>0, <1>6 DEF Generated, addReport
  <2>2. made[r] # "none"
    BY <1>0, <2>1 DEF KnownIsMade
  <2> HIDE DEF r
  <2>3. /\ reports' \in [ReportIds -> Shown] /\ reports'[r] = "generating"
        /\ \A q \in ReportIds : q # r => reports'[q] = reports[q]
    BY <1>0, <2>1 DEF ReportsType, Shown
  <2>4. /\ poll' \in [ReportIds -> Polls]
        /\ poll'[r] = IF poll[r] = Absent THEN "sent" ELSE poll[r]
        /\ \A q \in ReportIds : q # r => poll'[q] = poll[q]
    BY <1>0, <2>1 DEF ReportsType, Polls
  <2>5. ReportsType'
    BY <1>0, <1>1, <1>2, <1>3, <2>3, <2>4 DEF ReportsType
  <2>6. KnownIsMade'
    BY <1>0, <1>1, <2>1, <2>2, <2>4 DEF KnownIsMade, Over
  <2>7. poll'[r] # Absent
    BY <2>4, ReportsAssumptions
  <2>8. SpinnerIsFollowed'
    BY <1>0, <1>1, <2>3, <2>4, <2>7 DEF SpinnerIsFollowed
  <2>9. OfferedIsReady'
    BY <1>0, <1>1, <2>3 DEF OfferedIsReady, Over
  <2> QED BY <1>4, <2>5, <2>6, <2>8, <2>9 DEF ReportsIInv
<1> QED BY <1>5, <1>6

\* The polls of a report: asked, served, answered and asked again, or lost.
LEMMA PollKeeps ==
  ASSUME ReportsIInv, NEW r \in ReportIds,
         ServePoll(r) \/ pollReportStatus(r) \/ PollAgain(r) \/ PollFails(r)
  PROVE  ReportsIInv'
<1>0. /\ ReportsType /\ KnownIsMade /\ OwnRequests /\ SpinnerIsFollowed /\ OfferedIsReady
      /\ Absent \notin {"none", "generating", "completed", "failed", "timer", "sent"}
  BY ReportsAssumptions DEF ReportsIInv
<1>1. UNCHANGED <<made, mounted, showGenerateDialog, dateRange, sections, isGenerating, gen>>
  BY DEF ServePoll, pollReportStatus, PollAgain, PollFails, formVars
<1>2. OwnRequests'
  BY <1>0, <1>1 DEF OwnRequests
<1>3. PICK p : /\ poll[r] # Absent /\ poll' = [poll EXCEPT ![r] = p] /\ p \in Polls
               /\ p \in Over => p = made[r]
  <2>1. CASE ServePoll(r)
    <3>1. poll[r] = "sent" /\ poll' = [poll EXCEPT ![r] = made[r]]
      BY <2>1 DEF ServePoll
    <3>2. made[r] \in Statuses /\ made[r] # "none"
      BY <1>0, <3>1 DEF ReportsType, KnownIsMade
    <3> QED BY <1>0, <3>1, <3>2 DEF Statuses, Polls
  <2>2. CASE pollReportStatus(r)
    <3>1. /\ poll[r] \in Over \cup {"generating"}
          /\ poll' = [poll EXCEPT ![r] = IF poll[r] \in Over THEN Absent ELSE "timer"]
      BY <2>2 DEF pollReportStatus
    <3> DEFINE p == IF poll[r] \in Over THEN Absent ELSE "timer"
    <3>2. poll[r] # Absent /\ p \in Polls /\ p \notin Over
      BY <1>0, <3>1 DEF Polls, Over
    <3>3. poll' = [poll EXCEPT ![r] = p]
      BY <3>1
    <3> HIDE DEF p
    <3> QED BY <3>2, <3>3
  <2>3. CASE PollAgain(r)
    <3>1. poll[r] = "timer" /\ poll' = [poll EXCEPT ![r] = "sent"]
      BY <2>3 DEF PollAgain
    <3>2. poll[r] # Absent /\ "sent" \in Polls /\ "sent" \notin Over
      BY <1>0, <3>1 DEF Polls, Over
    <3> QED BY <3>1, <3>2
  <2>4. CASE PollFails(r)
    BY <1>0, <2>4 DEF PollFails, Polls, Over
  <2> QED BY <2>1, <2>2, <2>3, <2>4
<1>4. /\ poll' \in [ReportIds -> Polls] /\ poll'[r] = p
      /\ \A q \in ReportIds : q # r => poll'[q] = poll[q]
  BY <1>0, <1>3 DEF ReportsType
<1>5. KnownIsMade'
  <2>1. \A q \in ReportIds : poll'[q] # Absent => made[q] # "none"
    BY <1>0, <1>3, <1>4 DEF KnownIsMade
  <2>2. \A q \in ReportIds : poll'[q] \in Over => made[q] = poll'[q]
    BY <1>0, <1>3, <1>4 DEF KnownIsMade
  <2> QED BY <1>0, <1>1, <2>1, <2>2 DEF KnownIsMade
<1>6. lost' \subseteq ReportIds /\ lost \subseteq lost'
  BY <1>0 DEF ServePoll, pollReportStatus, PollAgain, PollFails, ReportsType
<1>7. CASE pollReportStatus(r)
  <2> DEFINE s == IF reports[r] = Absent THEN Absent ELSE poll[r]
  <2>1. /\ poll[r] \in Over \cup {"generating"} /\ lost' = lost
        /\ reports' = [reports EXCEPT ![r] = s]
        /\ poll' = [poll EXCEPT ![r] = IF poll[r] \in Over THEN Absent ELSE "timer"]
    BY <1>7 DEF pollReportStatus, updateReport
  <2>2. s \in Shown
    BY <2>1 DEF Shown, Over
  <2>3. s \in Over => made[r] = s
    BY <1>0 DEF KnownIsMade, Over
  <2>4. s = "generating" => poll'[r] # Absent
    BY <1>0, <2>1 DEF Over, ReportsType
  <2> HIDE DEF s
  <2>5. /\ reports' \in [ReportIds -> Shown] /\ reports'[r] = s
        /\ \A q \in ReportIds : q # r => reports'[q] = reports[q]
    BY <1>0, <2>1, <2>2 DEF ReportsType
  <2>6. ReportsType'
    BY <1>0, <1>1, <1>4, <1>6, <2>5 DEF ReportsType
  <2>7. SpinnerIsFollowed'
    BY <1>0, <1>4, <1>6, <2>4, <2>5 DEF SpinnerIsFollowed
  <2>8. OfferedIsReady'
    BY <1>0, <1>1, <2>3, <2>5 DEF OfferedIsReady
  <2> QED BY <1>2, <1>5, <2>6, <2>7, <2>8 DEF ReportsIInv
<1>8. CASE ServePoll(r) \/ PollAgain(r) \/ PollFails(r)
  <2>1. reports' = reports
    BY <1>8 DEF ServePoll, PollAgain, PollFails
  <2>2. poll'[r] # Absent \/ r \in lost'
    <3>1. CASE ServePoll(r)
      BY <1>0, <3>1 DEF ServePoll, ReportsType, Statuses
    <3>2. CASE PollAgain(r)
      BY <1>0, <3>2 DEF PollAgain, ReportsType
    <3>3. CASE PollFails(r)
      BY <3>3 DEF PollFails
    <3> QED BY <1>8, <3>1, <3>2, <3>3
  <2>3. ReportsType'
    BY <1>0, <1>1, <1>4, <1>6, <2>1 DEF ReportsType
  <2>4. SpinnerIsFollowed'
    BY <1>0, <1>4, <1>6, <2>1, <2>2 DEF SpinnerIsFollowed
  <2>5. OfferedIsReady'
    BY <1>0, <1>1, <2>1 DEF OfferedIsReady
  <2> QED BY <1>2, <1>5, <2>3, <2>4, <2>5 DEF ReportsIInv
<1> QED BY <1>7, <1>8

\* The page is opened, and opened again: no request and no poll is out.
LEMMA ReportsOpened ==
  /\ ReportsInit => ReportsIInv
  /\ ReportsIInv /\ ReportsReload => ReportsIInv'
<1>0. Absent \notin {"none", "generating", "completed", "failed", "timer", "sent"}
  BY ReportsAssumptions
<1>1. ASSUME ReportsInit PROVE ReportsIInv
  <2>1. /\ made = [r \in ReportIds |-> "none"] /\ reports = [r \in ReportIds |-> Absent]
        /\ poll = [r \in ReportIds |-> Absent] /\ gen = {} /\ lost = {}
        /\ ~mounted /\ ~isGenerating
    BY <1>1 DEF ReportsInit
  <2>2. ReportsType
    BY <1>1 DEF ReportsInit, ReportsType, Statuses, Shown, Polls
  <2>3. KnownIsMade /\ OwnRequests /\ SpinnerIsFollowed /\ OfferedIsReady
    BY <1>0, <2>1 DEF KnownIsMade, OwnRequests, SpinnerIsFollowed, OfferedIsReady, Over
  <2> QED BY <2>2, <2>3 DEF ReportsIInv
<1>2. ASSUME ReportsIInv, ReportsReload PROVE ReportsIInv'
  <2>1. /\ made' = made /\ reports' = [r \in ReportIds |-> Absent]
        /\ poll' = [r \in ReportIds |-> Absent] /\ gen' = {} /\ lost' = {}
        /\ ~mounted' /\ ~isGenerating'
    BY <1>2 DEF ReportsReload
  <2>2. ReportsType'
    BY <1>2 DEF ReportsReload, ReportsIInv, ReportsType, Statuses, Shown, Polls
  <2>3. KnownIsMade' /\ OwnRequests' /\ SpinnerIsFollowed' /\ OfferedIsReady'
    BY <1>0, <2>1 DEF KnownIsMade, OwnRequests, SpinnerIsFollowed, OfferedIsReady, Over
  <2> QED BY <2>2, <2>3 DEF ReportsIInv
<1> QED BY <1>1, <1>2

-----------------------------------------------------------------------------
(* The tab.                                                                *)

\* Steps of the one part leave the other as it is.
LEMMA PartsKeep ==
  /\ VersionIInv /\ UNCHANGED versionVars => VersionIInv'
  /\ ReportsIInv /\ UNCHANGED reportVars => ReportsIInv'
<1>1. ASSUME VersionIInv, UNCHANGED versionVars PROVE VersionIInv'
  <2>1. UNCHANGED <<deployed, deploys, boot, backend, snapshot, checks, toasts, overlapped>>
    BY <1>1 DEF versionVars
  <2> QED BY <1>1, <2>1 DEF VersionIInv, VersionTypeOK, UndeployedIsOne, ToastsCovered
<1>2. ASSUME ReportsIInv, UNCHANGED reportVars PROVE ReportsIInv'
  <2>1. UNCHANGED <<made, reports, mounted, showGenerateDialog, dateRange, sections, isGenerating, gen,
                    poll, lost>>
    BY <1>2 DEF reportVars, formVars
  <2>2. ReportsType'
    BY <1>2, <2>1 DEF ReportsIInv, ReportsType
  <2>3. KnownIsMade' /\ OwnRequests' /\ SpinnerIsFollowed' /\ OfferedIsReady'
    BY <1>2, <2>1 DEF ReportsIInv, KnownIsMade, OwnRequests, SpinnerIsFollowed, OfferedIsReady
  <2> QED BY <2>2, <2>3 DEF ReportsIInv
<1> QED BY <1>1, <1>2

LEMMA TabStarts == ASSUME TabInit PROVE TabIInv
<1>1. VersionIInv /\ ReportsIInv
  BY OpenedRight, ReportsOpened DEF TabInit
<1>2. part \in {"version", "reports"} /\ reloaded \in BOOLEAN
  BY DEF TabInit
<1>3. faults \in 0 .. MaxFaults
  BY TabPollersAssumptions DEF TabInit
<1> QED BY <1>1, <1>2, <1>3 DEF TabIInv

LEMMA TabStep ==
  ASSUME TabIInv, [TabNext]_tabVars
  PROVE  TabIInv'
<1>0. /\ VersionIInv /\ ReportsIInv /\ part \in {"version", "reports"}
      /\ faults \in 0 .. MaxFaults /\ reloaded \in BOOLEAN
      /\ MaxFaults \in Nat
  BY TabPollersAssumptions DEF TabIInv
<1>1. /\ part' = part /\ reloaded' \in BOOLEAN /\ faults' \in 0 .. MaxFaults
  <2>1. part' = part /\ (reloaded' = reloaded \/ reloaded' = TRUE)
    BY DEF TabNext, Reload, Version, Report, Fault, tabVars
  <2>2. faults' = faults \/ (faults < MaxFaults /\ faults' = faults + 1)
    BY DEF TabNext, Reload, Version, Report, Fault, tabVars
  <2>3. reloaded' \in BOOLEAN
    BY <1>0, <2>1
  <2>4. faults' \in 0 .. MaxFaults
    BY <1>0, <2>2
  <2> QED BY <2>1, <2>3, <2>4
<1>2. VersionIInv'
  <2>1. CASE Reload
    BY <1>0, <2>1, OpenedRight DEF Reload
  <2>2. CASE Version
    BY <1>0, <2>2, DeployKeeps, BootKeeps, TickKeeps, ServeCheckKeeps, CheckKeeps
       DEF Version, FetchOver
  <2>3. CASE Report
    BY <1>0, <2>3, PartsKeep DEF Report
  <2>4. CASE Fault
    BY <1>0, <2>4, BootKeeps, CheckKeeps, PartsKeep DEF Fault
  <2>5. CASE UNCHANGED tabVars
    BY <1>0, <2>5, PartsKeep DEF tabVars
  <2> QED BY <2>1, <2>2, <2>3, <2>4, <2>5 DEF TabNext
<1>3. ReportsIInv'
  <2>1. CASE Reload
    BY <1>0, <2>1, ReportsOpened DEF Reload
  <2>2. CASE Version
    BY <1>0, <2>2, PartsKeep DEF Version
  <2>3. CASE Report
    BY <1>0, <2>3, FormKeeps, ViewKeeps, RequestKeeps, ServerKeeps, GeneratedKeeps, PollKeeps
       DEF Report
  <2>4. CASE Fault
    BY <1>0, <2>4, GeneratedKeeps, PollKeeps, PartsKeep DEF Fault
  <2>5. CASE UNCHANGED tabVars
    BY <1>0, <2>5, PartsKeep DEF tabVars
  <2> QED BY <2>1, <2>2, <2>3, <2>4, <2>5 DEF TabNext
<1> QED BY <1>0, <1>1, <1>2, <1>3 DEF TabIInv

\* In every reachable state of the tab the invariant of its two pollers holds.
THEOREM TabInvariant == TabSpec => []TabIInv
<1>1. TabInit => TabIInv
  BY TabStarts
<1>2. TabIInv /\ [TabNext]_tabVars => TabIInv'
  BY TabStep
<1> QED BY <1>1, <1>2, PTL DEF TabSpec

\* useVersionCheck: every toast is a deployment of its own while checks do
\* not overlap, and no toast is ever shown in a tab nothing was deployed under.
THEOREM ToastsAreEarned == TabSpec => []ToastsAreDeploys
<1>1. TabIInv => ToastsAreDeploys
  <2> SUFFICES ASSUME VersionIInv PROVE ToastsAreDeploys
    BY DEF TabIInv
  <2>1. toasts \in Nat /\ deploys \in Nat
    BY DEF VersionIInv, VersionTypeOK
  <2>2. Ahead(snapshot, checks, deployed) \in Nat
    BY DEF Ahead, Far
  <2>3. ~overlapped => toasts = 0 \/ toasts + Ahead(snapshot, checks, deployed) <= deploys
    BY DEF VersionIInv, ToastsCovered
  <2>4. ~overlapped => toasts <= deploys
    <3> HIDE DEF Ahead
    <3> QED BY <2>1, <2>2, <2>3
  <2>5. deploys = 0 => toasts = 0
    BY DEF VersionIInv, UndeployedIsOne
  <2> QED BY <2>4, <2>5 DEF ToastsAreDeploys
<1> QED BY <1>1, TabInvariant, PTL

\* ReportsView and useApi's polls: a spinner in the list is followed, what is
\* offered for download is ready on the server, and the dialog's button is
\* held by exactly one request of its own mount, whatever views, failures and
\* reloads do.
THEOREM ReportsAreFollowed == TabSpec => []ReportsInv
<1>1. TabIInv => ReportsInv
  <2> SUFFICES ASSUME TabIInv PROVE ReportsInv
    OBVIOUS
  <2>1. ReportsType /\ OwnRequests /\ SpinnerIsFollowed /\ OfferedIsReady
    BY DEF TabIInv, ReportsIInv
  <2>2. \A b \in {mounted, showGenerateDialog, isGenerating} : b \in BOOLEAN
    BY <2>1 DEF ReportsType
  <2>3. ReportsTypeOK
    <3>1. made \in [ReportIds -> Over \cup {"none", "generating"}]
      BY <2>1 DEF ReportsType, Statuses, Over
    <3>2. reports \in [ReportIds -> Over \cup {Absent, "generating"}]
      BY <2>1 DEF ReportsType, Shown, Over
    <3>3. poll \in [ReportIds -> Over \cup {Absent, "timer", "sent", "generating"}]
      BY <2>1 DEF ReportsType, Polls, Over
    <3> QED BY <2>1, <2>2, <3>1, <3>2, <3>3 DEF ReportsType, Gens, ReportsTypeOK
  <2>4. TabTypeOK
    BY <2>3 DEF TabIInv, VersionIInv, TabTypeOK
  <2>5. GeneratingMeansOut
    <3> SUFFICES ASSUME mounted /\ isGenerating
                 PROVE  Cardinality({g \in gen : g.mine}) = 1
      BY DEF GeneratingMeansOut
    <3>1. PICK g \in gen : g.mine
      BY <2>1 DEF OwnRequests
    <3>2. {h \in gen : h.mine} = {g}
      BY <2>1, <3>1 DEF OwnRequests
    <3>3. Cardinality({g}) = 1
      BY FS_Singleton
    <3> QED BY <3>2, <3>3
  <2> QED BY <2>1, <2>4, <2>5 DEF ReportsInv
<1> QED BY <1>1, TabInvariant, PTL

-----------------------------------------------------------------------------
(* Blocking and looking up addresses.  issued is the server's blocks here.   *)

Counts == [Blocks -> 0 .. 1]
Looks == [ip : IPs, is_blocked : BOOLEAN]

DeskCalls ==
  [op : {"load", "unblock", "lookup"} \cup BlockOps, arg : IPs \cup Blocks \cup {Nil},
   st : {"sent", "served"}, ans : Counts \cup Blocks \cup Looks \cup {Nil}, late : BOOLEAN]

\* What call c asks and, once served, answers; m blocks were issued by then.
Fits(c, m) ==
  /\ c.op = "load" /\ c.st = "served" => c.ans \in Counts
  /\ c.op \in BlockOps => /\ c.arg \in IPs
                          /\ c.st = "served" => c.ans \in Blocks /\ c.ans.n <= m[c.ans.ip]
  /\ c.op = "unblock" => c.arg \in Blocks
  /\ c.op = "lookup" => /\ c.arg \in IPs
                        /\ c.st = "served" => c.ans \in Looks /\ c.ans.ip = c.arg

IsOut(op, cs) == \E i \in DOMAIN cs : cs[i].op = op

\* Call c has issued block b; cs hold a change that the server has issued.
MadeBy(c, b) == c.op \in BlockOps /\ c.st = "served" /\ c.ans = b
ChangeOps == BlockOps \cup {"unblock"}
Changed(cs) == \E i \in DOMAIN cs : cs[i].op \in ChangeOps /\ cs[i].st = "served"

\* A load that is late was sent before all that are not.
LateFirst(cs) ==
  \A i, j \in DOMAIN cs :
    (i < j /\ cs[i].op = "load" /\ cs[j].op = "load" /\ cs[j].late) => cs[i].late

\* The youngest load brings the server's list l, unless a change will be
\* followed by another load, or make them all late.
FreshLast(cs, l) ==
  \A i \in DOMAIN cs :
    (cs[i].op = "load" /\ ~cs[i].late /\ \A j \in DOMAIN cs : j > i => cs[j].op # "load")
      => cs[i].st = "sent" \/ cs[i].ans = l \/ Changed(cs)

OnTime(cs) == \E i \in DOMAIN cs : cs[i].op = "load" /\ ~cs[i].late

\* A block is answered once, and a row that is there twice was added by that
\* answer.
MadeOnce(cs) ==
  \A b \in Blocks : \A i, j \in DOMAIN cs : MadeBy(cs[i], b) /\ MadeBy(cs[j], b) => i = j

RowsBounded ==
  \A b \in Blocks :
    blockedIPs[b] > 1 => b.n <= issued[b.ip] /\ \A i \in DOMAIN calls : ~MadeBy(calls[i], b)

OneBlock(cs) == \A i, j \in DOMAIN cs : cs[i].op = "block" /\ cs[j].op = "block" => i = j

Listing == desk \in {"list", "away"}

\* The list of BlockedIPsView: what its buttons wait for is out, and a list
\* that is not the server's has a load, or a change that a load follows, out.
ListSettles ==
  Listing =>
    /\ OneBlock(calls) /\ (isBlocking <=> IsOut("block", calls))
    /\ isLoading => IsOut("load", calls)
    /\ LateFirst(calls) /\ FreshLast(calls, Listed)
    /\ ~wrong => blockedIPs = Listed \/ Changed(calls) \/ OnTime(calls)

\* The lookups out are of the address in the dialog, unless they overlapped.
HeaderFollows ==
  /\ loadingReputation => IsOut("lookup", calls)
  /\ ~mixed /\ showReputation =>
       \A i \in DOMAIN calls : calls[i].op = "lookup" => calls[i].arg = selectedIP
  /\ showReputation /\ ~IsOut("lookup", calls) =>
       /\ desk = "lookup" => ipReputation # Nil
       /\ ~mixed => ipReputation # Nil /\ ipReputation.ip = selectedIP

DeskType ==
  /\ desk \in {"list", "away", "lookup", "threats"}
  /\ server \subseteq Blocks /\ issued \in [IPs -> 0 .. MaxBlocks]
  /\ blockedIPs \in [Blocks -> 0 .. 2]
  /\ calls \in Seq(DeskCalls) /\ Len(calls) <= MaxCalls
  /\ selectedIP \in IPs \cup {Nil} /\ ipReputation \in Looks \cup {Nil}
  /\ showBlockDialog \in BOOLEAN /\ (desk = "away" => ~showBlockDialog)
  /\ isLoading \in BOOLEAN /\ isBlocking \in BOOLEAN /\ wrong \in BOOLEAN
  /\ showReputation \in BOOLEAN /\ loadingReputation \in BOOLEAN /\ mixed \in BOOLEAN

DeskIInv ==
  /\ DeskType
  /\ \A i \in DOMAIN calls : Fits(calls[i], issued)
  /\ MadeOnce(calls) /\ RowsBounded /\ ListSettles /\ HeaderFollows

-----------------------------------------------------------------------------
(* The calls out: one is added, or one is over.                            *)

\* ds is cs with c added.
Grown(cs, c, ds) ==
  /\ ds \in Seq(DeskCalls) /\ Len(cs) \in Nat /\ Len(ds) = Len(cs) + 1
  /\ DOMAIN cs = 1 .. Len(cs) /\ DOMAIN ds = 1 .. Len(cs) + 1
  /\ \A j \in 1 .. Len(cs) : ds[j] = cs[j]
  /\ ds[Len(cs) + 1] = c

\* The place in cs of call j of what is left without call i.
Place(i, j) == IF j < i THEN j ELSE j + 1

\* ds is cs without call i, and with the loads among js late.
Left(cs, i, js, ds) ==
  /\ ds \in Seq(DeskCalls) /\ Len(cs) \in Nat /\ Len(ds) = Len(cs) - 1
  /\ DOMAIN cs = 1 .. Len(cs) /\ DOMAIN ds = 1 .. Len(cs) - 1
  /\ i \in 1 .. Len(cs)
  /\ \A j \in 1 .. Len(cs) - 1 :
       LET c == cs[Place(i, j)] IN
       /\ ds[j].op = c.op /\ ds[j].arg = c.arg /\ ds[j].st = c.st /\ ds[j].ans = c.ans
       /\ ds[j].late <=> (c.late \/ (Place(i, j) \in js /\ c.op = "load"))

LEMMA CallAdded ==
  ASSUME NEW cs \in Seq(DeskCalls), NEW c \in DeskCalls
  PROVE  Grown(cs, c, Append(cs, c))
<1>1. Len(cs) \in Nat /\ DOMAIN cs = 1 .. Len(cs)
  BY LenProperties
<1>2. /\ Append(cs, c) \in Seq(DeskCalls) /\ Len(Append(cs, c)) = Len(cs) + 1
      /\ \A j \in 1 .. Len(cs) : Append(cs, c)[j] = cs[j]
      /\ Append(cs, c)[Len(cs) + 1] = c
  BY AppendProperties
<1>3. DOMAIN Append(cs, c) = 1 .. Len(cs) + 1
  <2>1. DOMAIN Append(cs, c) = 1 .. Len(Append(cs, c))
    BY <1>2, LenProperties, Zenon
  <2> QED BY <1>2, <2>1
<1> QED BY <1>1, <1>2, <1>3 DEF Grown

LEMMA CallOver ==
  ASSUME NEW cs \in Seq(DeskCalls), NEW i \in DOMAIN cs, NEW js
  PROVE  Left(cs, i, js,
              RemoveAt([j \in DOMAIN cs |-> IF j \in js /\ cs[j].op = "load"
                                                 THEN [cs[j] EXCEPT !.late = TRUE] ELSE cs[j]], i))
<1> DEFINE ms == [j \in DOMAIN cs |-> IF j \in js /\ cs[j].op = "load"
                                      THEN [cs[j] EXCEPT !.late = TRUE] ELSE cs[j]]
           ds == RemoveAt(ms, i)
<1>1. Len(cs) \in Nat /\ DOMAIN cs = 1 .. Len(cs) /\ \A j \in 1 .. Len(cs) : cs[j] \in DeskCalls
  BY LenProperties, ElementOfSeq
<1>2. ASSUME NEW j \in 1 .. Len(cs)
      PROVE  /\ ms[j] \in DeskCalls
             /\ ms[j].op = cs[j].op /\ ms[j].arg = cs[j].arg /\ ms[j].st = cs[j].st
             /\ ms[j].ans = cs[j].ans
             /\ ms[j].late <=> (cs[j].late \/ (j \in js /\ cs[j].op = "load"))
  <2>1. cs[j] \in DeskCalls
    BY <1>1
  <2>2. CASE j \in js /\ cs[j].op = "load"
    <3>1. ms[j] = [cs[j] EXCEPT !.late = TRUE]
      BY <1>1, <2>2
    <3> HIDE DEF ms
    <3>2. /\ ms[j].op = cs[j].op /\ ms[j].arg = cs[j].arg /\ ms[j].st = cs[j].st
          /\ ms[j].ans = cs[j].ans /\ ms[j].late = TRUE
      BY <2>1, <3>1 DEF DeskCalls
    <3>3. ms[j] \in DeskCalls
      BY <2>1, <3>1 DEF DeskCalls
    <3> QED BY <2>2, <3>2, <3>3
  <2>3. CASE ~(j \in js /\ cs[j].op = "load")
    <3>1. ms[j] = cs[j]
      BY <1>1, <2>3
    <3> QED BY <2>1, <2>3, <3>1 DEF DeskCalls
  <2> QED BY <2>2, <2>3
<1>3. DOMAIN ms = 1 .. Len(cs)
  BY <1>1
<1>4. ms = [j \in 1 .. Len(cs) |-> ms[j]]
  BY <1>3
<1> HIDE DEF ms
<1>5. ms \in Seq(DeskCalls) /\ Len(ms) = Len(cs)
  <2>1. ms \in [1 .. Len(cs) -> DeskCalls]
    BY <1>2, <1>4
  <2>2. ms \in Seq(DeskCalls)
    BY <1>1, <2>1, SeqDef
  <2>3. Len(ms) \in Nat /\ DOMAIN ms = 1 .. Len(ms)
    BY <2>2, LenProperties
  <2> QED BY <1>1, <1>3, <2>2, <2>3
<1>6. /\ ds \in Seq(DeskCalls) /\ Len(ds) = Len(cs) - 1
      /\ \A j \in 1 .. Len(cs) - 1 : ds[j] = ms[Place(i, j)]
  <2>1. i \in DOMAIN ms
    BY <1>1, <1>3
  <2>2. /\ ds \in Seq(DeskCalls) /\ Len(ds) = Len(ms) - 1
        /\ \A j \in 1 .. Len(ms) - 1 : ds[j] = ms[IF j < i THEN j ELSE j + 1]
    BY <1>5, <2>1, RemoveAtKeeps
  <2> QED BY <1>5, <2>2 DEF Place
<1>7. RemoveAt(ms, i) = ds
  BY DEF RemoveAt, RemoveAt
<1> HIDE DEF ds
<1>8. DOMAIN ds = 1 .. Len(cs) - 1
  BY <1>6, LenProperties
<1>9. \A j \in 1 .. Len(cs) - 1 : Place(i, j) \in 1 .. Len(cs)
  BY <1>1 DEF Place
<1>10. Left(cs, i, js, ds)
  BY <1>1, <1>2, <1>6, <1>8, <1>9 DEF Left
<1> QED BY <1>7, <1>10 DEF ms

\* What a call that goes out leaves as it was.
LEMMA GrownKeeps ==
  ASSUME NEW cs, NEW c \in DeskCalls, c.st = "sent", ~c.late, NEW ds, Grown(cs, c, ds), NEW m,
         \A i \in DOMAIN cs : Fits(cs[i], m), Fits(c, m), MadeOnce(cs)
  PROVE  /\ \A i \in DOMAIN ds : Fits(ds[i], m)
         /\ MadeOnce(ds)
         /\ \A b : \A i \in DOMAIN ds : MadeBy(ds[i], b) => i \in DOMAIN cs /\ MadeBy(cs[i], b)
         /\ \A op : IsOut(op, ds) <=> IsOut(op, cs) \/ c.op = op
         /\ OneBlock(cs) /\ (c.op # "block" \/ ~IsOut("block", cs)) => OneBlock(ds)
         /\ Changed(cs) => Changed(ds)
<1> DEFINE n == Len(cs)
<1>1. /\ n \in Nat /\ DOMAIN cs = 1 .. n /\ DOMAIN ds = 1 .. n + 1
      /\ \A j \in 1 .. n : ds[j] = cs[j]
      /\ ds[n + 1] = c
  BY DEF Grown
<1> HIDE DEF n
<1>2. \A j \in 1 .. n + 1 : (j \in 1 .. n /\ ds[j] = cs[j]) \/ (j = n + 1 /\ ds[j] = c)
  BY <1>1
<1>3. \A i \in DOMAIN ds : Fits(ds[i], m)
  BY <1>1, <1>2
<1>4. \A b : \A i \in DOMAIN ds : MadeBy(ds[i], b) => i \in DOMAIN cs /\ MadeBy(cs[i], b)
  BY <1>1, <1>2 DEF MadeBy
<1>5. MadeOnce(ds)
  BY <1>4 DEF MadeOnce
<1>6. ASSUME NEW op PROVE IsOut(op, ds) <=> IsOut(op, cs) \/ c.op = op
  <2>1. n + 1 \in DOMAIN ds /\ \A j \in DOMAIN cs : j \in DOMAIN ds
    BY <1>1
  <2> QED BY <1>1, <1>2, <2>1 DEF IsOut
<1>7. OneBlock(cs) /\ (c.op # "block" \/ ~IsOut("block", cs)) => OneBlock(ds)
  BY <1>1, <1>2 DEF OneBlock, IsOut
<1>8. Changed(cs) => Changed(ds)
  <2>1. \A j \in DOMAIN cs : j \in DOMAIN ds /\ ds[j] = cs[j]
    BY <1>1
  <2> QED BY <2>1 DEF Changed
<1> QED BY <1>3, <1>4, <1>5, <1>6, <1>7, <1>8

\* A call that goes out leaves the loads in order, and is a fresh one if it
\* is a load.
LEMMA GrownSettles ==
  ASSUME NEW cs, NEW c \in DeskCalls, c.st = "sent", ~c.late, NEW ds, Grown(cs, c, ds), NEW l,
         LateFirst(cs)
  PROVE  /\ LateFirst(ds)
         /\ FreshLast(cs, l) \/ c.op = "load" => FreshLast(ds, l)
         /\ OnTime(cs) \/ c.op = "load" => OnTime(ds)
<1> DEFINE n == Len(cs)
<1>1. /\ n \in Nat /\ DOMAIN cs = 1 .. n /\ DOMAIN ds = 1 .. n + 1
      /\ \A j \in 1 .. n : ds[j] = cs[j]
      /\ ds[n + 1] = c
  BY DEF Grown
<1> HIDE DEF n
<1>2. \A j \in 1 .. n + 1 : (j \in 1 .. n /\ ds[j] = cs[j]) \/ (j = n + 1 /\ ds[j] = c)
  BY <1>1
<1>3. LateFirst(ds)
  BY <1>1, <1>2 DEF LateFirst
<1>4. \A j \in DOMAIN cs : j \in DOMAIN ds /\ ds[j] = cs[j] /\ n + 1 > j
  BY <1>1
<1>5. n + 1 \in DOMAIN ds
  BY <1>1
<1>6. CASE c.op = "load"
  <2>1. FreshLast(ds, l)
    BY <1>1, <1>2, <1>4, <1>5, <1>6 DEF FreshLast
  <2>2. OnTime(ds)
    BY <1>1, <1>5, <1>6 DEF OnTime
  <2> QED BY <1>3, <2>1, <2>2
<1>7. CASE c.op # "load"
  <2>1. ASSUME FreshLast(cs, l) PROVE FreshLast(ds, l)
    <3>1. Changed(cs) => Changed(ds)
      BY <1>4 DEF Changed
    <3>2. ASSUME NEW i \in DOMAIN ds, ds[i].op = "load", ~ds[i].late,
                 \A j \in DOMAIN ds : j > i => ds[j].op # "load"
          PROVE  ds[i].st = "sent" \/ ds[i].ans = l \/ Changed(ds)
      <4>1. i \in DOMAIN cs /\ ds[i] = cs[i]
        BY <1>1, <1>2, <1>7, <3>2
      <4>2. \A j \in DOMAIN cs : j > i => cs[j].op # "load"
        BY <1>4, <3>2
      <4> QED BY <2>1, <3>1, <3>2, <4>1, <4>2 DEF FreshLast
    <3> QED BY <3>2 DEF FreshLast
  <2>2. OnTime(cs) => OnTime(ds)
    BY <1>4 DEF OnTime
  <2> QED BY <1>3, <1>7, <2>1, <2>2
<1> QED BY <1>6, <1>7

\* The calls left are the others, in their order.
LEMMA Places ==
  ASSUME NEW cs, NEW i, NEW js, NEW ds, Left(cs, i, js, ds)
  PROVE  /\ i \in DOMAIN cs
         /\ \A j \in DOMAIN ds : j \in Nat /\ Place(i, j) \in DOMAIN cs /\ Place(i, j) # i
         /\ \A j, k \in DOMAIN ds : j < k <=> Place(i, j) < Place(i, k)
         /\ \A j, k \in DOMAIN ds : Place(i, j) = Place(i, k) => j = k
         /\ \A k \in DOMAIN cs : k # i => \E j \in DOMAIN ds : Place(i, j) = k
<1> DEFINE n == Len(cs)
<1>1. n \in Nat /\ DOMAIN cs = 1 .. n /\ DOMAIN ds = 1 .. n - 1 /\ i \in 1 .. n
  BY DEF Left
<1> HIDE DEF n
<1>2. \A j \in DOMAIN ds : j \in Nat /\ Place(i, j) \in DOMAIN cs /\ Place(i, j) # i
  BY <1>1 DEF Place
<1>3. /\ \A j, k \in DOMAIN ds : j < k <=> Place(i, j) < Place(i, k)
      /\ \A j, k \in DOMAIN ds : Place(i, j) = Place(i, k) => j = k
  BY <1>1 DEF Place
<1>4. ASSUME NEW k \in DOMAIN cs, k # i PROVE \E j \in DOMAIN ds : Place(i, j) = k
  <2>1. CASE k < i
    <3>1. k \in DOMAIN ds /\ Place(i, k) = k
      BY <1>1, <2>1 DEF Place
    <3> QED BY <3>1
  <2>2. CASE k > i
    <3>1. k - 1 \in DOMAIN ds /\ Place(i, k - 1) = k
      BY <1>1, <2>2 DEF Place
    <3> QED BY <3>1
  <2> QED BY <1>1, <1>4, <2>1, <2>2
<1> QED BY <1>1, <1>2, <1>3, <1>4

\* What is left of each call.
LEMMA CallLeft ==
  ASSUME NEW cs, NEW i, NEW js, NEW ds, Left(cs, i, js, ds), NEW j \in DOMAIN ds
  PROVE  LET c == cs[Place(i, j)] IN
         /\ ds[j].op = c.op /\ ds[j].arg = c.arg /\ ds[j].st = c.st /\ ds[j].ans = c.ans
         /\ ds[j].late <=> (c.late \/ (Place(i, j) \in js /\ c.op = "load"))
BY DEF Left

\* What a call that is over leaves as it was.
LEMMA LeftKeeps ==
  ASSUME NEW cs, NEW i, NEW js, NEW ds, Left(cs, i, js, ds), NEW m,
         \A k \in DOMAIN cs : Fits(cs[k], m), MadeOnce(cs)
  PROVE  /\ \A j \in DOMAIN ds : Fits(ds[j], m)
         /\ MadeOnce(ds)
         /\ \A b : \A j \in DOMAIN ds :
              MadeBy(ds[j], b) => \E k \in DOMAIN cs : k # i /\ MadeBy(cs[k], b)
         /\ \A j \in DOMAIN ds : \E k \in DOMAIN cs : ds[j].op = cs[k].op /\ ds[j].arg = cs[k].arg
         /\ \A op : IsOut(op, ds) => IsOut(op, cs)
         /\ \A op : IsOut(op, cs) /\ op # cs[i].op => IsOut(op, ds)
         /\ OneBlock(cs) => OneBlock(ds) /\ (cs[i].op = "block" => ~IsOut("block", ds))
<1>1. /\ i \in DOMAIN cs
      /\ \A j \in DOMAIN ds : Place(i, j) \in DOMAIN cs /\ Place(i, j) # i
      /\ \A j, k \in DOMAIN ds : Place(i, j) = Place(i, k) => j = k
      /\ \A k \in DOMAIN cs : k # i => \E j \in DOMAIN ds : Place(i, j) = k
  BY Places
<1>2. \A j \in DOMAIN ds :
        LET c == cs[Place(i, j)] IN
        ds[j].op = c.op /\ ds[j].arg = c.arg /\ ds[j].st = c.st /\ ds[j].ans = c.ans
  BY CallLeft
<1> HIDE DEF Place
<1>3. ASSUME NEW j \in DOMAIN ds PROVE Fits(ds[j], m)
  <2>1. Fits(cs[Place(i, j)], m)
    BY <1>1
  <2> QED BY <1>2, <2>1 DEF Fits
<1>4. \A b : \A j \in DOMAIN ds : MadeBy(ds[j], b) => MadeBy(cs[Place(i, j)], b)
  BY <1>2 DEF MadeBy
<1>5. MadeOnce(ds)
  BY <1>1, <1>4 DEF MadeOnce
<1>6. \A op : IsOut(op, ds) => IsOut(op, cs)
  BY <1>1, <1>2 DEF IsOut
<1>7. \A op : IsOut(op, cs) /\ op # cs[i].op => IsOut(op, ds)
  <2> SUFFICES ASSUME NEW op, NEW k \in DOMAIN cs, cs[k].op = op, op # cs[i].op
               PROVE  IsOut(op, ds)
    BY DEF IsOut
  <2>1. PICK j \in DOMAIN ds : Place(i, j) = k
    BY <1>1
  <2> QED BY <1>2, <2>1 DEF IsOut
<1>8. OneBlock(cs) => OneBlock(ds) /\ (cs[i].op = "block" => ~IsOut("block", ds))
  BY <1>1, <1>2 DEF OneBlock, IsOut
<1> QED BY <1>1, <1>2, <1>3, <1>4, <1>5, <1>6, <1>7, <1>8

\* A call that is over, and makes none late, leaves the loads in order; one
\* that is neither a load nor a change the server issued leaves them fresh.
LEMMA OverSettles ==
  ASSUME NEW cs, NEW i, NEW ds, Left(cs, i, {}, ds), NEW l, LateFirst(cs)
  PROVE  /\ LateFirst(ds)
         /\ cs[i].op # "load" /\ OnTime(cs) => OnTime(ds)
         /\ cs[i].op # "load" /\ cs[i].st = "sent" =>
              (Changed(cs) => Changed(ds)) /\ (FreshLast(cs, l) => FreshLast(ds, l))
         /\ cs[i].op = "lookup" =>
              (Changed(cs) => Changed(ds)) /\ (FreshLast(cs, l) => FreshLast(ds, l))
<1>1. /\ i \in DOMAIN cs
      /\ \A j \in DOMAIN ds : Place(i, j) \in DOMAIN cs /\ Place(i, j) # i
      /\ \A j, k \in DOMAIN ds : j < k <=> Place(i, j) < Place(i, k)
      /\ \A k \in DOMAIN cs : k # i => \E j \in DOMAIN ds : Place(i, j) = k
      /\ \A k \in DOMAIN cs : k \in Nat
  <2>1. \A k \in DOMAIN cs : k \in Nat
    BY DEF Left
  <2> QED BY <2>1, Places
<1>2. ASSUME NEW j \in DOMAIN ds
      PROVE  LET c == cs[Place(i, j)] IN
             /\ ds[j].op = c.op /\ ds[j].st = c.st /\ ds[j].ans = c.ans
             /\ ds[j].late <=> c.late
  <2>1. LET c == cs[Place(i, j)] IN
        /\ ds[j].op = c.op /\ ds[j].st = c.st /\ ds[j].ans = c.ans
        /\ ds[j].late <=> (c.late \/ (Place(i, j) \in {} /\ c.op = "load"))
    BY CallLeft
  <2> QED BY <2>1
<1>3. \A j \in DOMAIN ds : j \in Nat
  BY Places
<1> HIDE DEF Place
<1>4. LateFirst(ds)
  BY <1>1, <1>2 DEF LateFirst
<1>5. ASSUME cs[i].op # "load", OnTime(cs) PROVE OnTime(ds)
  <2>1. PICK k \in DOMAIN cs : cs[k].op = "load" /\ ~cs[k].late
    BY <1>5 DEF OnTime
  <2>2. PICK j \in DOMAIN ds : Place(i, j) = k
    BY <1>1, <1>5, <2>1
  <2> QED BY <1>2, <2>1, <2>2 DEF OnTime
<1>6. ASSUME cs[i].op # "load", cs[i].st = "sent" \/ cs[i].op = "lookup"
      PROVE  (Changed(cs) => Changed(ds)) /\ (FreshLast(cs, l) => FreshLast(ds, l))
  <2>1. ASSUME Changed(cs) PROVE Changed(ds)
    <3>1. PICK k \in DOMAIN cs : cs[k].op \in ChangeOps /\ cs[k].st = "served"
      BY <2>1 DEF Changed
    <3>2. PICK j \in DOMAIN ds : Place(i, j) = k
      BY <1>1, <1>6, <3>1 DEF ChangeOps, BlockOps
    <3> QED BY <1>2, <3>1, <3>2 DEF Changed
  <2>2. ASSUME FreshLast(cs, l), NEW j \in DOMAIN ds, ds[j].op = "load", ~ds[j].late,
               \A k \in DOMAIN ds : k > j => ds[k].op # "load"
        PROVE  ds[j].st = "sent" \/ ds[j].ans = l \/ Changed(ds)
    <3>1. cs[Place(i, j)].op = "load" /\ ~cs[Place(i, j)].late /\ Place(i, j) \in DOMAIN cs
      BY <1>1, <1>2, <2>2
    <3>2. ASSUME NEW k \in DOMAIN cs, k > Place(i, j) PROVE cs[k].op # "load"
      <4>1. CASE k = i
        BY <1>6, <4>1
      <4>2. CASE k # i
        <5>1. PICK h \in DOMAIN ds : Place(i, h) = k
          BY <1>1, <4>2
        <5>2. h > j
          BY <1>1, <1>3, <3>2, <5>1
        <5> QED BY <1>2, <2>2, <5>1, <5>2
      <4> QED BY <4>1, <4>2
    <3>3. cs[Place(i, j)].st = "sent" \/ cs[Place(i, j)].ans = l \/ Changed(cs)
      BY <2>2, <3>1, <3>2 DEF FreshLast
    <3> QED BY <1>2, <2>1, <3>3
  <2>3. FreshLast(cs, l) => FreshLast(ds, l)
    BY <2>2 DEF FreshLast
  <2> QED BY <2>1, <2>3
<1> QED BY <1>4, <1>5, <1>6

\* A load that is over makes the older ones late.
LEMMA LoadSettles ==
  ASSUME NEW cs, NEW i, NEW ds, Left(cs, i, 1 .. i - 1, ds), cs[i].op = "load", NEW l,
         LateFirst(cs), FreshLast(cs, l)
  PROVE  /\ LateFirst(ds) /\ FreshLast(ds, l)
         /\ Changed(cs) => Changed(ds)
         /\ cs[i].st = "served" /\ ~cs[i].late => cs[i].ans = l \/ Changed(cs) \/ OnTime(ds)
<1>1. /\ i \in DOMAIN cs
      /\ \A j \in DOMAIN ds : Place(i, j) \in DOMAIN cs /\ Place(i, j) # i
      /\ \A j, k \in DOMAIN ds : j < k <=> Place(i, j) < Place(i, k)
      /\ \A k \in DOMAIN cs : k # i => \E j \in DOMAIN ds : Place(i, j) = k
      /\ \A k \in DOMAIN cs : k \in Nat /\ k >= 1
  <2>1. \A k \in DOMAIN cs : k \in Nat /\ k >= 1
    BY DEF Left
  <2> QED BY <2>1, Places
<1> DEFINE js == 1 .. i - 1
<1>2. ASSUME NEW j \in DOMAIN ds
      PROVE  LET c == cs[Place(i, j)] IN
             /\ ds[j].op = c.op /\ ds[j].st = c.st /\ ds[j].ans = c.ans
             /\ ds[j].late <=> (c.late \/ (Place(i, j) \in js /\ c.op = "load"))
  <2>1. Left(cs, i, js, ds)
    OBVIOUS
  <2> HIDE DEF js
  <2> QED BY <2>1, CallLeft
<1>3. \A j \in DOMAIN ds : j \in Nat
  BY Places
<1> HIDE DEF Place
<1>4. \A k \in DOMAIN cs : k # i => (k \in 1 .. i - 1 <=> k < i) /\ (k < i \/ k > i)
  BY <1>1
<1>5. Changed(cs) => Changed(ds)
  <2> SUFFICES ASSUME NEW k \in DOMAIN cs, cs[k].op \in ChangeOps, cs[k].st = "served"
               PROVE  Changed(ds)
    BY DEF Changed
  <2>1. k # i
    BY DEF ChangeOps, BlockOps
  <2>2. PICK j \in DOMAIN ds : Place(i, j) = k
    BY <1>1, <2>1
  <2> QED BY <1>2, <2>2 DEF Changed
<1>6. LateFirst(ds)
  <2> SUFFICES ASSUME NEW j \in DOMAIN ds, NEW k \in DOMAIN ds, j < k, ds[j].op = "load",
                      ds[k].op = "load", ds[k].late
               PROVE  ds[j].late
    BY DEF LateFirst
  <2> DEFINE p == Place(i, j)
             q == Place(i, k)
  <2>1. p \in DOMAIN cs /\ q \in DOMAIN cs /\ p < q /\ p # i /\ cs[p].op = "load" /\ cs[q].op = "load"
    BY <1>1, <1>2
  <2>2. cs[q].late \/ q < i
    BY <1>1, <1>2, <1>4
  <2>3. cs[p].late \/ p < i
    BY <1>1, <2>1, <2>2 DEF LateFirst
  <2> QED BY <1>2, <1>4, <2>1, <2>3
<1>7. FreshLast(ds, l)
  <2> SUFFICES ASSUME NEW j \in DOMAIN ds, ds[j].op = "load", ~ds[j].late,
                      \A k \in DOMAIN ds : k > j => ds[k].op # "load"
               PROVE  ds[j].st = "sent" \/ ds[j].ans = l \/ Changed(ds)
    BY DEF FreshLast
  <2> DEFINE p == Place(i, j)
  <2>1. p \in DOMAIN cs /\ p > i /\ cs[p].op = "load" /\ ~cs[p].late
    BY <1>1, <1>2, <1>4
  <2>2. ASSUME NEW k \in DOMAIN cs, k > p PROVE cs[k].op # "load"
    <3>1. k # i
      BY <1>1, <2>1, <2>2
    <3>2. PICK h \in DOMAIN ds : Place(i, h) = k
      BY <1>1, <3>1
    <3>3. h > j
      BY <1>1, <1>3, <2>2, <3>2
    <3> QED BY <1>2, <3>2, <3>3
  <2>3. cs[p].st = "sent" \/ cs[p].ans = l \/ Changed(cs)
    BY <2>1, <2>2 DEF FreshLast
  <2> QED BY <1>2, <1>5, <2>3
<1>8. ASSUME cs[i].st = "served", ~cs[i].late
      PROVE  cs[i].ans = l \/ Changed(cs) \/ OnTime(ds)
  <2>1. CASE \A k \in DOMAIN cs : k > i => cs[k].op # "load"
    BY <1>1, <1>8, <2>1 DEF FreshLast
  <2>2. ASSUME NEW k \in DOMAIN cs, k > i, cs[k].op = "load" PROVE OnTime(ds)
    <3>1. k # i /\ i < k
      BY <1>1, <2>2
    <3>2. ~cs[k].late
      BY <1>1, <1>8, <2>2, <3>1 DEF LateFirst
    <3>3. PICK j \in DOMAIN ds : Place(i, j) = k
      BY <1>1, <3>1
    <3>4. k \notin 1 .. i - 1
      BY <1>1, <3>1
    <3> QED BY <1>2, <2>2, <3>2, <3>3, <3>4 DEF OnTime
  <2> QED BY <2>1, <2>2
<1> QED BY <1>5, <1>6, <1>7, <1>8

\* A change whose answer is lost makes all loads late.
LEMMA LostSettles ==
  ASSUME NEW cs, NEW i, NEW ds, Left(cs, i, DOMAIN cs, ds), NEW l
  PROVE  LateFirst(ds) /\ FreshLast(ds, l)
<1>1. \A j \in DOMAIN ds : Place(i, j) \in DOMAIN cs
  BY Places
<1>2. \A j \in DOMAIN ds :
        LET c == cs[Place(i, j)] IN
        /\ ds[j].op = c.op
        /\ ds[j].late <=> (c.late \/ (Place(i, j) \in DOMAIN cs /\ c.op = "load"))
  BY CallLeft
<1>3. \A j \in DOMAIN ds : ds[j].op = "load" => ds[j].late
  BY <1>1, <1>2
<1> QED BY <1>3 DEF LateFirst, FreshLast

\* The call is over and makes none late.
LEMMA CallGone ==
  ASSUME NEW cs \in Seq(DeskCalls), NEW i \in DOMAIN cs
  PROVE  Left(cs, i, {}, RemoveAt(cs, i))
<1> DEFINE ms == [j \in DOMAIN cs |-> IF j \in {} /\ cs[j].op = "load"
                                      THEN [cs[j] EXCEPT !.late = TRUE] ELSE cs[j]]
<1>1. Left(cs, i, {}, RemoveAt(ms, i))
  BY CallOver
<1>2. ms = cs
  <2>1. cs = [j \in DOMAIN cs |-> cs[j]]
    BY SeqDef
  <2>2. ms = [j \in DOMAIN cs |-> cs[j]]
    OBVIOUS
  <2> QED BY <2>1, <2>2
<1> QED BY <1>1, <1>2

\* A new call.
LEMMA NewDeskCall ==
  ASSUME NEW op \in {"load", "unblock", "lookup"} \cup BlockOps, NEW arg \in IPs \cup Blocks \cup {Nil}
  PROVE  /\ DeskCall(op, arg) \in DeskCalls /\ DeskCall(op, arg).op = op
         /\ DeskCall(op, arg).arg = arg /\ DeskCall(op, arg).st = "sent" /\ ~DeskCall(op, arg).late
BY DEF DeskCall, DeskCalls

LEMMA OpsOut == ASSUME NEW op, NEW cs PROVE op \in OutOps(cs) <=> IsOut(op, cs)
BY DEF OutOps, IsOut

\* The server's list has every block at most once.
LEMMA ListedOnce == Listed \in Counts
BY DEF Listed, Counts

\* What the parts of the invariant other than the types and the dialog say of
\* the calls, kept by a call that goes out.
LEMMA SentKeeps ==
  ASSUME DeskIInv, NEW c \in DeskCalls, c.st = "sent", ~c.late, Fits(c, issued), Len(calls) < MaxCalls,
         calls' = Append(calls, c), UNCHANGED <<server, issued, blockedIPs, wrong>>,
         Listing' <=> Listing,
         Listing => /\ c.op = "block" => ~IsOut("block", calls)
                    /\ isBlocking' <=> (isBlocking \/ c.op = "block")
                    /\ isLoading' => isLoading \/ c.op = "load"
  PROVE  /\ calls' \in Seq(DeskCalls) /\ Len(calls') <= MaxCalls
         /\ (\A i \in DOMAIN calls : Fits(calls[i], issued))'
         /\ MadeOnce(calls)' /\ RowsBounded' /\ ListSettles' /\ Grown(calls, c, calls')
<1>1. calls \in Seq(DeskCalls)
  BY DEF DeskIInv, DeskType
<1>2. Grown(calls, c, calls')
  BY <1>1, CallAdded
<1>3. /\ \A i \in DOMAIN calls' : Fits(calls'[i], issued)
      /\ MadeOnce(calls')
      /\ \A b : \A i \in DOMAIN calls' : MadeBy(calls'[i], b) => i \in DOMAIN calls /\ MadeBy(calls[i], b)
      /\ \A op : IsOut(op, calls') <=> IsOut(op, calls) \/ c.op = op
      /\ OneBlock(calls) /\ (c.op # "block" \/ ~IsOut("block", calls)) => OneBlock(calls')
      /\ Changed(calls) => Changed(calls')
  BY <1>2, GrownKeeps DEF DeskIInv
<1>4. calls' \in Seq(DeskCalls) /\ Len(calls') <= MaxCalls
  <2>1. Len(calls) \in Nat /\ MaxCalls \in Nat /\ Len(calls') = Len(calls) + 1 /\ calls' \in Seq(DeskCalls)
    BY <1>2, IpDeskAssumptions DEF Grown
  <2> QED BY <2>1
<1>5. RowsBounded'
  BY <1>3 DEF DeskIInv, RowsBounded
<1>6. ListSettles'
  <2> SUFFICES ASSUME Listing PROVE ListSettles'
    BY DEF ListSettles
  <2>1. ListSettles /\ Listed' = Listed
    BY DEF DeskIInv, Listed
  <2>2. /\ OneBlock(calls) /\ (isBlocking <=> IsOut("block", calls))
        /\ isLoading => IsOut("load", calls)
        /\ LateFirst(calls) /\ FreshLast(calls, Listed)
        /\ ~wrong => blockedIPs = Listed \/ Changed(calls) \/ OnTime(calls)
    BY <2>1 DEF ListSettles
  <2>3. /\ LateFirst(calls') /\ FreshLast(calls', Listed)
        /\ OnTime(calls) => OnTime(calls')
    BY <1>2, <2>2, GrownSettles
  <2>4. OneBlock(calls')
    BY <1>3, <2>2
  <2>5. (isBlocking' <=> IsOut("block", calls')) /\ (isLoading' => IsOut("load", calls'))
    BY <1>3, <2>2
  <2>6. ~wrong => blockedIPs = Listed \/ Changed(calls') \/ OnTime(calls')
    BY <1>3, <2>2, <2>3
  <2> QED BY <2>1, <2>3, <2>4, <2>5, <2>6 DEF ListSettles
<1> QED BY <1>2, <1>3, <1>4, <1>5, <1>6

\* The same, of a call that is over.
LEMMA OverKeeps ==
  ASSUME DeskIInv, NEW i \in DOMAIN calls, NEW js, Left(calls, i, js, calls'),
         UNCHANGED <<desk, server, issued>>
  PROVE  /\ calls' \in Seq(DeskCalls) /\ Len(calls') < MaxCalls
         /\ (\A j \in DOMAIN calls : Fits(calls[j], issued))' /\ MadeOnce(calls)'
         /\ \A b : \A j \in DOMAIN calls' :
              MadeBy(calls'[j], b) => \E k \in DOMAIN calls : k # i /\ MadeBy(calls[k], b)
         /\ \A j \in DOMAIN calls' :
              \E k \in DOMAIN calls : calls'[j].op = calls[k].op /\ calls'[j].arg = calls[k].arg
         /\ \A op : IsOut(op, calls') => IsOut(op, calls)
         /\ \A op : IsOut(op, calls) /\ op # calls[i].op => IsOut(op, calls')
         /\ blockedIPs' = blockedIPs => RowsBounded'
         /\ OneBlock(calls) => OneBlock(calls') /\ (calls[i].op = "block" => ~IsOut("block", calls'))
         /\ Listed' = Listed
<1>1. /\ \A j \in DOMAIN calls' : Fits(calls'[j], issued)
      /\ MadeOnce(calls')
      /\ \A b : \A j \in DOMAIN calls' :
           MadeBy(calls'[j], b) => \E k \in DOMAIN calls : k # i /\ MadeBy(calls[k], b)
      /\ \A j \in DOMAIN calls' :
           \E k \in DOMAIN calls : calls'[j].op = calls[k].op /\ calls'[j].arg = calls[k].arg
      /\ \A op : IsOut(op, calls') => IsOut(op, calls)
      /\ \A op : IsOut(op, calls) /\ op # calls[i].op => IsOut(op, calls')
      /\ OneBlock(calls) => OneBlock(calls') /\ (calls[i].op = "block" => ~IsOut("block", calls'))
  BY LeftKeeps DEF DeskIInv
<1>2. calls' \in Seq(DeskCalls) /\ Len(calls') < MaxCalls
  <2>1. /\ Len(calls) \in Nat /\ MaxCalls \in Nat /\ Len(calls) <= MaxCalls /\ Len(calls') = Len(calls) - 1
        /\ calls' \in Seq(DeskCalls)
    BY IpDeskAssumptions DEF Left, DeskIInv, DeskType
  <2> QED BY <2>1
<1>3. blockedIPs' = blockedIPs => RowsBounded'
  BY <1>1 DEF DeskIInv, RowsBounded
<1>4. Listed' = Listed
  BY DEF Listed
<1> QED BY <1>1, <1>2, <1>3, <1>4

-----------------------------------------------------------------------------
(* Steps of the desk.                                                      *)

\* The forms and the dialog are opened and closed with the calls as they are.
LEMMA FormsStep ==
  ASSUME DeskIInv,
         openBlockDialog \/ CancelForm \/ CloseReputation
  PROVE  DeskIInv'
<1>1. /\ UNCHANGED <<desk, server, issued, calls, blockedIPs, isLoading, wrong, isBlocking>>
      /\ UNCHANGED <<selectedIP, ipReputation, loadingReputation, mixed>>
      /\ showBlockDialog' = showBlockDialog \/ showBlockDialog' = FALSE \/ showBlockDialog' = TRUE
      /\ showBlockDialog' = showBlockDialog \/ showBlockDialog' = FALSE \/ desk # "away"
      /\ showReputation' = showReputation \/ showReputation' = FALSE
  BY DEF BlockOffered, openBlockDialog, CancelForm, CloseReputation,
         blockVars, listVars, repVars, blockFormVars
<1>2. showReputation' \in BOOLEAN /\ (showReputation' => showReputation)
  <2>1. showReputation \in BOOLEAN
    BY DEF DeskIInv, DeskType
  <2>2. CASE showReputation' = showReputation
    BY <2>1, <2>2
  <2>3. CASE showReputation' = FALSE
    BY <2>3
  <2> QED BY <1>1, <2>2, <2>3
<1>3. DeskType'
  <2>1. showBlockDialog \in BOOLEAN /\ (desk = "away" => ~showBlockDialog)
    BY DEF DeskIInv, DeskType
  <2>2. showBlockDialog' \in BOOLEAN
    BY <1>1, <2>1
  <2>3. desk = "away" => ~showBlockDialog'
    BY <1>1, <2>1
  <2> QED BY <1>1, <1>2, <2>2, <2>3 DEF DeskIInv, DeskType
<1>4. Listed' = Listed
  BY <1>1 DEF Listed
<1>5. /\ (\A i \in DOMAIN calls : Fits(calls[i], issued))'
      /\ MadeOnce(calls)' /\ RowsBounded' /\ ListSettles'
  BY <1>1, <1>4 DEF DeskIInv, RowsBounded, ListSettles, Listing
<1>6. HeaderFollows'
  BY <1>1, <1>2 DEF DeskIInv, HeaderFollows
<1> QED BY <1>3, <1>5, <1>6 DEF DeskIInv

\* The list is loaded, an address is blocked, a block is removed.
LEMMA ChangeStep ==
  ASSUME DeskIInv,
         \/ RefreshList \/ ReturnToList
         \/ \E ip \in IPs : blockIP(ip) \/ AwayBlock(ip)
         \/ \E b \in Blocks : unblockIP(b)
  PROVE  DeskIInv'
<1>0. DeskType /\ ListSettles /\ HeaderFollows
  BY DEF DeskIInv
<1> DEFINE Goes(op, arg) ==
        /\ op \in {"load", "unblock"} \cup BlockOps /\ arg \in IPs \cup Blocks \cup {Nil}
        /\ op \in BlockOps => arg \in IPs
        /\ op = "unblock" => arg \in Blocks
        /\ Len(calls) < MaxCalls /\ calls' = Append(calls, DeskCall(op, arg))
        /\ Listing => /\ op = "block" => ~isBlocking
                      /\ isBlocking' = (isBlocking \/ op = "block")
        /\ isLoading' = TRUE => isLoading = TRUE \/ op = "load"
        /\ isLoading' \in BOOLEAN /\ isBlocking' \in BOOLEAN
<1>1. \E op, arg : Goes(op, arg)
  <2>0. isLoading \in BOOLEAN /\ isBlocking \in BOOLEAN
    BY <1>0 DEF DeskType
  <2>1. CASE RefreshList \/ ReturnToList
    <3>1. /\ Len(calls) < MaxCalls /\ calls' = Append(calls, DeskCall("load", Nil))
          /\ isLoading' = TRUE /\ isBlocking' = isBlocking
      BY <2>1 DEF RefreshList, ReturnToList, loadBlockedIPs, blockFormVars
    <3>2. isBlocking' = (isBlocking \/ FALSE)
      BY <2>0, <3>1
    <3>3. Goes("load", Nil)
      BY <2>0, <3>1, <3>2 DEF BlockOps
    <3> QED BY <3>3
  <2>2. ASSUME NEW ip \in IPs, blockIP(ip)
        PROVE  \E op, arg : Goes(op, arg)
    <3>1. /\ showBlockDialog /\ ~isBlocking /\ Len(calls) < MaxCalls
          /\ calls' = Append(calls, DeskCall("block", ip))
          /\ isBlocking' = (desk = "list") /\ isLoading' = isLoading
      BY <2>2 DEF blockIP, listVars
    <3>2. Listing => isBlocking' = TRUE
      BY <1>0, <3>1 DEF DeskType, Listing
    <3>3. Goes("block", ip)
      BY <2>0, <3>1, <3>2 DEF BlockOps
    <3> QED BY <3>3
  <2>3. ASSUME NEW ip \in IPs, AwayBlock(ip)
        PROVE  \E op, arg : Goes(op, arg)
    <3>1. /\ Len(calls) < MaxCalls /\ calls' = Append(calls, DeskCall("awayBlock", ip))
          /\ isBlocking' = isBlocking /\ isLoading' = isLoading
      BY <2>3 DEF AwayBlock, listVars, blockFormVars
    <3>2. isBlocking' = (isBlocking \/ FALSE)
      BY <2>0, <3>1
    <3>3. Goes("awayBlock", ip)
      BY <2>0, <3>1, <3>2 DEF BlockOps
    <3> QED BY <3>3
  <2>4. ASSUME NEW b \in Blocks, unblockIP(b)
        PROVE  \E op, arg : Goes(op, arg)
    <3>1. /\ Len(calls) < MaxCalls /\ calls' = Append(calls, DeskCall("unblock", b))
          /\ isBlocking' = isBlocking /\ isLoading' = isLoading
      BY <2>4 DEF unblockIP, listVars, blockFormVars
    <3>2. isBlocking' = (isBlocking \/ FALSE)
      BY <2>0, <3>1
    <3>3. Goes("unblock", b)
      BY <2>0, <3>1, <3>2 DEF BlockOps
    <3> QED BY <3>3
  <2> QED BY <2>1, <2>2, <2>3, <2>4
<1>2. /\ UNCHANGED <<server, issued, blockedIPs, wrong, showBlockDialog, showReputation>>
      /\ UNCHANGED <<selectedIP, ipReputation, loadingReputation, mixed>>
      /\ desk' = desk \/ (desk = "away" /\ desk' = "list")
  BY DEF RefreshList, ReturnToList, blockIP, AwayBlock, unblockIP, blockVars, listVars, repVars, blockFormVars
<1>3. PICK op, arg : Goes(op, arg)
  BY <1>1
<1>4. PICK c : c = DeskCall(op, arg)
  OBVIOUS
<1>5. c \in DeskCalls /\ c.op = op /\ c.st = "sent" /\ ~c.late /\ c.arg = arg
  BY <1>3, <1>4, NewDeskCall
<1>6. Fits(c, issued) /\ c.op # "lookup"
  BY <1>3, <1>5 DEF Fits, BlockOps
<1>7. Listing => /\ c.op = "block" => ~IsOut("block", calls)
                 /\ isBlocking' <=> (isBlocking \/ c.op = "block")
                 /\ isLoading' => isLoading \/ c.op = "load"
  <2> SUFFICES ASSUME Listing
               PROVE  /\ c.op = "block" => ~IsOut("block", calls)
                      /\ isBlocking' <=> (isBlocking \/ c.op = "block")
                      /\ isLoading' => isLoading \/ c.op = "load"
    OBVIOUS
  <2>1. isBlocking <=> IsOut("block", calls)
    BY <1>0 DEF ListSettles
  <2>2. isBlocking' <=> (isBlocking \/ c.op = "block")
    <3>1. isBlocking' = (isBlocking \/ op = "block")
      BY <1>3
    <3> QED BY <1>5, <3>1, Zenon
  <2>3. isLoading \in BOOLEAN
    BY <1>0 DEF DeskType
  <2>4. isLoading' => isLoading \/ c.op = "load"
    BY <1>3, <1>5, <2>3
  <2> QED BY <1>3, <1>5, <2>1, <2>2, <2>4
<1>8. Listing' <=> Listing
  BY <1>2 DEF Listing
<1>9. calls' = Append(calls, c) /\ Len(calls) < MaxCalls
  BY <1>3, <1>4
<1>10. /\ calls' \in Seq(DeskCalls) /\ Len(calls') <= MaxCalls
       /\ (\A i \in DOMAIN calls : Fits(calls[i], issued))'
       /\ MadeOnce(calls)' /\ RowsBounded' /\ ListSettles' /\ Grown(calls, c, calls')
  BY <1>2, <1>5, <1>6, <1>7, <1>8, <1>9, SentKeeps
<1>11. DeskType'
  <2>1. isLoading' \in BOOLEAN /\ isBlocking' \in BOOLEAN
    BY <1>3
  <2>2. /\ desk' \in {"list", "away", "lookup", "threats"}
        /\ showBlockDialog' \in BOOLEAN /\ (desk' = "away" => ~showBlockDialog')
    BY <1>0, <1>2 DEF DeskType
  <2> QED BY <1>0, <1>2, <1>10, <2>1, <2>2 DEF DeskType
<1>12. /\ \A i \in DOMAIN calls' : calls'[i].op = "lookup" => i \in DOMAIN calls /\ calls'[i] = calls[i]
       /\ IsOut("lookup", calls) <=> IsOut("lookup", calls')
  BY <1>6, <1>10 DEF Grown, IsOut
<1>13. desk' = "lookup" => desk = "lookup"
  BY <1>2
<1>14. HeaderFollows'
  BY <1>0, <1>2, <1>12, <1>13 DEF HeaderFollows
<1> QED BY <1>10, <1>11, <1>14 DEF DeskIInv

\* The list's view is left, and its block is not the next mount's.
LEMMA LeaveStep ==
  ASSUME DeskIInv, LeaveList
  PROVE  DeskIInv'
<1>0. /\ DeskType /\ MadeOnce(calls) /\ RowsBounded /\ ListSettles /\ HeaderFollows
      /\ \A j \in DOMAIN calls : Fits(calls[j], issued)
  BY DEF DeskIInv
<1>1. /\ desk = "list" /\ desk' = "away" /\ showBlockDialog' = FALSE /\ isBlocking' = FALSE
      /\ calls' = [j \in DOMAIN calls |->
                     [calls[j] EXCEPT !.op = IF calls[j].op = "block" THEN "pastBlock" ELSE calls[j].op]]
      /\ UNCHANGED <<server, issued, blockedIPs, isLoading, wrong, mixed>>
      /\ UNCHANGED <<showReputation, selectedIP, ipReputation, loadingReputation>>
  BY DEF LeaveList, blockVars, listVars, repVars
<1>2. /\ calls \in Seq(DeskCalls) /\ Len(calls) \in Nat /\ DOMAIN calls = 1 .. Len(calls)
      /\ \A j \in DOMAIN calls : calls[j] \in DeskCalls
  <2>1. calls \in Seq(DeskCalls)
    BY <1>0 DEF DeskType
  <2> QED BY <2>1, LenProperties, ElementOfSeq
<1>3. ASSUME NEW j \in DOMAIN calls
      PROVE  /\ calls'[j] \in DeskCalls
             /\ calls'[j].op = IF calls[j].op = "block" THEN "pastBlock" ELSE calls[j].op
             /\ calls'[j].arg = calls[j].arg /\ calls'[j].st = calls[j].st
             /\ calls'[j].ans = calls[j].ans /\ calls'[j].late = calls[j].late
  <2>1. PICK c \in DeskCalls : c = calls[j]
    BY <1>2
  <2>2. PICK o : o = IF c.op = "block" THEN "pastBlock" ELSE c.op
    OBVIOUS
  <2>3. o \in {"load", "unblock", "lookup"} \cup BlockOps
    <3>1. c.op \in {"load", "unblock", "lookup"} \cup BlockOps
      BY DEF DeskCalls
    <3> QED BY <2>2, <3>1 DEF BlockOps
  <2>4. calls'[j] = [c EXCEPT !.op = o]
    BY <1>1, <2>1, <2>2
  <2> HIDE DEF BlockOps
  <2>5. /\ calls'[j] \in DeskCalls /\ calls'[j].op = o /\ calls'[j].arg = c.arg
        /\ calls'[j].st = c.st /\ calls'[j].ans = c.ans /\ calls'[j].late = c.late
    BY <2>3, <2>4 DEF DeskCalls
  <2> QED BY <2>1, <2>2, <2>5
<1>4. calls' \in Seq(DeskCalls) /\ Len(calls') = Len(calls) /\ DOMAIN calls' = DOMAIN calls
  <2>1. DOMAIN calls' = DOMAIN calls /\ calls' = [j \in 1 .. Len(calls) |-> calls'[j]]
    BY <1>1, <1>2
  <2>2. calls' \in [1 .. Len(calls) -> DeskCalls]
    BY <1>2, <1>3, <2>1
  <2>3. calls' \in Seq(DeskCalls)
    BY <1>2, <2>2, SeqDef
  <2>4. Len(calls') \in Nat /\ DOMAIN calls' = 1 .. Len(calls')
    BY <2>3, LenProperties
  <2> QED BY <1>2, <2>1, <2>3, <2>4
<1>5. \A j \in DOMAIN calls :
        /\ calls'[j].op # "block"
        /\ calls'[j].op \in BlockOps <=> calls[j].op \in BlockOps
        /\ calls'[j].op = "load" <=> calls[j].op = "load"
        /\ calls'[j].op = "unblock" <=> calls[j].op = "unblock"
        /\ calls'[j].op = "lookup" <=> calls[j].op = "lookup"
  BY <1>3 DEF BlockOps
<1>6. DeskType'
  <2>1. desk' \in {"list", "away", "lookup", "threats"} /\ Len(calls') <= MaxCalls
    BY <1>0, <1>1, <1>4 DEF DeskType
  <2> QED BY <1>0, <1>1, <1>4, <2>1 DEF DeskType
<1>7. (\A j \in DOMAIN calls : Fits(calls[j], issued))'
  <2> SUFFICES ASSUME NEW j \in DOMAIN calls PROVE Fits(calls'[j], issued)
    BY <1>1, <1>4
  <2>1. Fits(calls[j], issued)
    BY <1>0
  <2> QED BY <1>3, <1>5, <2>1 DEF Fits
<1>8. \A b : \A j \in DOMAIN calls : MadeBy(calls'[j], b) <=> MadeBy(calls[j], b)
  BY <1>3, <1>5 DEF MadeBy
<1>9. MadeOnce(calls)' /\ RowsBounded'
  BY <1>0, <1>1, <1>4, <1>8 DEF MadeOnce, RowsBounded
<1>10. ListSettles'
  <2>1. /\ isLoading => IsOut("load", calls)
        /\ LateFirst(calls) /\ FreshLast(calls, Listed)
        /\ ~wrong => blockedIPs = Listed \/ Changed(calls) \/ OnTime(calls)
    BY <1>0, <1>1 DEF ListSettles, Listing
  <2>2. Listed' = Listed
    BY <1>1 DEF Listed
  <2>3. OneBlock(calls') /\ ~IsOut("block", calls')
    BY <1>4, <1>5 DEF OneBlock, IsOut
  <2>4. IsOut("load", calls) => IsOut("load", calls')
    BY <1>4, <1>5 DEF IsOut
  <2>5. Changed(calls) <=> Changed(calls')
    BY <1>3, <1>4, <1>5 DEF Changed, ChangeOps
  <2>6. LateFirst(calls') /\ FreshLast(calls', Listed) /\ (OnTime(calls) => OnTime(calls'))
    <3>1. LateFirst(calls')
      BY <1>3, <1>4, <1>5, <2>1 DEF LateFirst
    <3>2. FreshLast(calls', Listed)
      <4> SUFFICES ASSUME NEW k \in DOMAIN calls, calls'[k].op = "load", ~calls'[k].late,
                          \A j \in DOMAIN calls : j > k => calls'[j].op # "load"
                   PROVE  calls'[k].st = "sent" \/ calls'[k].ans = Listed \/ Changed(calls')
        BY <1>4 DEF FreshLast
      <4>1. calls[k].op = "load" /\ ~calls[k].late /\ \A j \in DOMAIN calls : j > k => calls[j].op # "load"
        BY <1>3, <1>5
      <4>2. calls[k].st = "sent" \/ calls[k].ans = Listed \/ Changed(calls)
        BY <2>1, <4>1 DEF FreshLast
      <4> QED BY <1>3, <2>5, <4>2
    <3>3. OnTime(calls) => OnTime(calls')
      BY <1>3, <1>4, <1>5 DEF OnTime
    <3> QED BY <3>1, <3>2, <3>3
  <2> QED BY <1>1, <2>1, <2>2, <2>3, <2>4, <2>5, <2>6 DEF ListSettles
<1>11. HeaderFollows'
  <2>1. IsOut("lookup", calls') <=> IsOut("lookup", calls)
    BY <1>4, <1>5 DEF IsOut
  <2>2. \A j \in DOMAIN calls' :
          calls'[j].op = "lookup" => j \in DOMAIN calls /\ calls[j].op = "lookup" /\ calls'[j].arg = calls[j].arg
    BY <1>3, <1>4, <1>5
  <2> QED BY <1>0, <1>1, <2>1, <2>2 DEF HeaderFollows
<1> QED BY <1>6, <1>7, <1>9, <1>10, <1>11 DEF DeskIInv

\* An address is looked up.
LEMMA ViewStep ==
  ASSUME DeskIInv, NEW ip \in IPs, viewReputation(ip)
  PROVE  DeskIInv'
<1>0. DeskType /\ ListSettles /\ HeaderFollows
  BY DEF DeskIInv
<1>1. /\ desk \in {"lookup", "threats"} /\ Len(calls) < MaxCalls
      /\ selectedIP' = ip /\ showReputation' = TRUE /\ loadingReputation' = TRUE
      /\ calls' = Append(calls, DeskCall("lookup", ip))
      /\ mixed' = ("lookup" \in OutOps(calls))
      /\ UNCHANGED <<desk, server, issued, blockedIPs, isLoading, wrong, showBlockDialog, isBlocking, ipReputation>>
  BY DEF viewReputation, blockVars, listVars, blockFormVars
<1>2. PICK c : c = DeskCall("lookup", ip)
  OBVIOUS
<1>3. c \in DeskCalls /\ c.op = "lookup" /\ c.st = "sent" /\ ~c.late /\ c.arg = ip
  BY <1>2, NewDeskCall
<1>4. Fits(c, issued)
  BY <1>3 DEF Fits
<1>5. /\ calls' \in Seq(DeskCalls) /\ Len(calls') <= MaxCalls
      /\ (\A i \in DOMAIN calls : Fits(calls[i], issued))'
      /\ MadeOnce(calls)' /\ RowsBounded' /\ ListSettles' /\ Grown(calls, c, calls')
  <2>1. ~Listing /\ ~Listing'
    BY <1>1 DEF Listing
  <2> QED BY <1>1, <1>2, <1>3, <1>4, <2>1, SentKeeps
<1>6. mixed' <=> IsOut("lookup", calls)
  BY <1>1, OpsOut
<1>7. DeskType'
  <2>1. mixed' \in BOOLEAN /\ selectedIP' \in IPs \cup {Nil}
    BY <1>1
  <2> QED BY <1>0, <1>1, <1>5, <2>1 DEF DeskType
<1>8. /\ IsOut("lookup", calls')
      /\ \A i \in DOMAIN calls' : calls'[i].op = "lookup" => calls'[i] = c \/ IsOut("lookup", calls)
  BY <1>3, <1>5 DEF Grown, IsOut
<1>9. HeaderFollows'
  BY <1>1, <1>3, <1>6, <1>8 DEF HeaderFollows
<1> QED BY <1>5, <1>7, <1>9 DEF DeskIInv

\* The server takes a call.
LEMMA ServeCallStep ==
  ASSUME DeskIInv, NEW i \in DOMAIN calls, ServeCall(i)
  PROVE  DeskIInv'
<1>0. /\ DeskType /\ MadeOnce(calls) /\ RowsBounded /\ ListSettles /\ HeaderFollows
      /\ \A j \in DOMAIN calls : Fits(calls[j], issued)
  BY DEF DeskIInv
<1> DEFINE Ans == Counts \cup Blocks \cup Looks \cup {Nil}
           Is(a) == calls' = [calls EXCEPT ![i].st = "served", ![i].ans = a]
<1>1. /\ calls[i].st = "sent"
      /\ UNCHANGED <<desk, blockedIPs, isLoading, wrong, showBlockDialog, isBlocking, mixed>>
      /\ UNCHANGED <<showReputation, selectedIP, ipReputation, loadingReputation>>
  BY DEF ServeCall, listVars, blockFormVars, repVars
<1>2. /\ calls \in Seq(DeskCalls) /\ Len(calls) \in Nat /\ DOMAIN calls = 1 .. Len(calls)
      /\ \A j \in DOMAIN calls : calls[j] \in DeskCalls
  <2>1. calls \in Seq(DeskCalls)
    BY <1>0 DEF DeskType
  <2> QED BY <2>1, LenProperties, ElementOfSeq
<1>3. ASSUME NEW a \in Ans, Is(a)
      PROVE  /\ calls' \in Seq(DeskCalls) /\ Len(calls') = Len(calls) /\ DOMAIN calls' = DOMAIN calls
             /\ \A j \in DOMAIN calls : j # i => calls'[j] = calls[j]
             /\ calls'[i].op = calls[i].op /\ calls'[i].arg = calls[i].arg
             /\ calls'[i].late = calls[i].late /\ calls'[i].st = "served" /\ calls'[i].ans = a
  <2> DEFINE s == [calls[i] EXCEPT !.st = "served", !.ans = a]
  <2>1. /\ s \in DeskCalls /\ s.op = calls[i].op /\ s.arg = calls[i].arg /\ s.late = calls[i].late
        /\ s.st = "served" /\ s.ans = a
    <3>1. calls[i] \in DeskCalls
      BY <1>2
    <3> QED BY <3>1 DEF DeskCalls
  <2>2. calls' = [calls EXCEPT ![i] = s]
    BY <1>2, <1>3
  <2> HIDE DEF s
  <2>3. calls' \in Seq(DeskCalls) /\ Len(calls') = Len(calls)
    BY <1>2, <2>1, <2>2, ExceptSeq
  <2>4. DOMAIN calls' = DOMAIN calls /\ calls'[i] = s
        /\ \A j \in DOMAIN calls : j # i => calls'[j] = calls[j]
    BY <2>2
  <2> QED BY <2>1, <2>3, <2>4
<1> HIDE DEF Is
<1>4. ASSUME NEW a \in Ans, Is(a)
      PROVE  HeaderFollows'
  <2>1. /\ DOMAIN calls' = DOMAIN calls
        /\ \A j \in DOMAIN calls : calls'[j].op = calls[j].op /\ calls'[j].arg = calls[j].arg
    BY <1>3, <1>4
  <2>2. IsOut("lookup", calls') <=> IsOut("lookup", calls)
    BY <2>1 DEF IsOut
  <2>3. \A j \in DOMAIN calls' : calls'[j].op = "lookup" => calls[j].op = "lookup" /\ calls'[j].arg = calls[j].arg
    BY <2>1
  <2> QED BY <1>0, <1>1, <2>1, <2>2, <2>3 DEF HeaderFollows
<1>5. ASSUME NEW a \in Ans, Is(a), server' \subseteq Blocks, issued' \in [IPs -> 0 .. MaxBlocks]
      PROVE  DeskType'
  <2>1. calls' \in Seq(DeskCalls) /\ Len(calls') = Len(calls)
    BY <1>3, <1>5
  <2>2. Len(calls') <= MaxCalls
    BY <1>0, <2>1 DEF DeskType
  <2>3. /\ isLoading' \in BOOLEAN /\ isBlocking' \in BOOLEAN /\ wrong' \in BOOLEAN
        /\ showReputation' \in BOOLEAN /\ loadingReputation' \in BOOLEAN /\ mixed' \in BOOLEAN
    BY <1>0, <1>1, Zenon DEF DeskType
  <2>4. /\ desk' \in {"list", "away", "lookup", "threats"} /\ blockedIPs' \in [Blocks -> 0 .. 2]
        /\ selectedIP' \in IPs \cup {Nil} /\ ipReputation' \in Looks \cup {Nil}
    BY <1>0, <1>1 DEF DeskType
  <2>5. showBlockDialog' \in BOOLEAN /\ (desk' = "away" => ~showBlockDialog')
    BY <1>0, <1>1 DEF DeskType
  <2> QED BY <1>5, <2>1, <2>2, <2>3, <2>4, <2>5, Zenon DEF DeskType
<1>6. ASSUME NEW a \in Ans, Is(a), Listing,
             ~Changed(calls') => UNCHANGED server /\ (calls[i].op = "load" => a = Listed)
      PROVE  ListSettles'
  <2>1. /\ OneBlock(calls) /\ (isBlocking <=> IsOut("block", calls))
        /\ isLoading => IsOut("load", calls)
        /\ LateFirst(calls) /\ FreshLast(calls, Listed)
        /\ ~wrong => blockedIPs = Listed \/ Changed(calls) \/ OnTime(calls)
    BY <1>0, <1>6 DEF ListSettles
  <2>2. /\ DOMAIN calls' = DOMAIN calls
        /\ \A j \in DOMAIN calls : /\ calls'[j].op = calls[j].op /\ calls'[j].late = calls[j].late
                                   /\ j # i => calls'[j] = calls[j]
    BY <1>3, <1>6
  <2>3. OneBlock(calls') /\ (isBlocking <=> IsOut("block", calls')) /\ (isLoading => IsOut("load", calls'))
    BY <2>1, <2>2 DEF OneBlock, IsOut
  <2>4. LateFirst(calls') /\ (OnTime(calls) => OnTime(calls'))
    BY <2>1, <2>2 DEF LateFirst, OnTime
  <2>5. CASE Changed(calls')
    BY <1>1, <2>3, <2>4, <2>5 DEF ListSettles, FreshLast
  <2>6. CASE ~Changed(calls')
    <3>1. Listed' = Listed
      BY <1>6, <2>6 DEF Listed
    <3>2. Changed(calls) => Changed(calls')
      BY <1>1, <2>2 DEF Changed
    <3>3. FreshLast(calls', Listed)
      <4> SUFFICES ASSUME NEW k \in DOMAIN calls', calls'[k].op = "load", ~calls'[k].late,
                          \A j \in DOMAIN calls' : j > k => calls'[j].op # "load"
                   PROVE  calls'[k].st = "sent" \/ calls'[k].ans = Listed \/ Changed(calls')
        BY DEF FreshLast
      <4>1. k \in DOMAIN calls /\ calls[k].op = "load" /\ ~calls[k].late
            /\ \A j \in DOMAIN calls : j > k => calls[j].op # "load"
        BY <2>2
      <4>2. CASE k = i
        BY <1>3, <1>6, <2>6, <4>1, <4>2
      <4>3. CASE k # i
        BY <2>1, <2>2, <3>2, <4>1, <4>3 DEF FreshLast
      <4> QED BY <4>2, <4>3
    <3> QED BY <1>1, <2>1, <2>3, <2>4, <3>1, <3>2, <3>3 DEF ListSettles
  <2> QED BY <2>5, <2>6
<1>7. ~Listing => ListSettles'
  BY <1>1 DEF ListSettles, Listing
\* The parts that speak of blocks, when none is issued.
<1>8. ASSUME NEW a \in Ans, Is(a), calls[i].op \notin BlockOps, UNCHANGED issued,
             calls[i].op = "load" => a \in Counts,
             calls[i].op = "lookup" => a \in Looks /\ a.ip = calls[i].arg
      PROVE  (\A j \in DOMAIN calls : Fits(calls[j], issued))' /\ MadeOnce(calls)' /\ RowsBounded'
  <2>1. \A j \in DOMAIN calls' : Fits(calls'[j], issued')
    <3>1. Fits(calls'[i], issued)
      BY <1>0, <1>3, <1>8 DEF Fits
    <3> QED BY <1>0, <1>3, <1>8, <3>1
  <2>2. \A b : \A j \in DOMAIN calls' : MadeBy(calls'[j], b) => j \in DOMAIN calls /\ MadeBy(calls[j], b)
    BY <1>3, <1>8 DEF MadeBy
  <2> QED BY <1>0, <1>1, <1>8, <2>1, <2>2 DEF MadeOnce, RowsBounded
<1>9. CASE calls[i].op = "load"
  <2>1. Is(Listed) /\ UNCHANGED <<server, issued>>
    BY <1>9 DEF ServeCall, Serve, blockVars, Is, BlockOps
  <2>2. PICK a : a = Listed
    OBVIOUS
  <2>3. Is(a) /\ a \in Counts /\ a \in Ans
    BY <2>1, <2>2, ListedOnce
  <2>4. DeskType' /\ HeaderFollows' /\ ListSettles'
    BY <1>0, <1>4, <1>5, <1>6, <1>7, <2>1, <2>2, <2>3 DEF DeskType
  <2>5. (\A j \in DOMAIN calls : Fits(calls[j], issued))' /\ MadeOnce(calls)' /\ RowsBounded'
    BY <1>8, <1>9, <2>1, <2>3 DEF BlockOps
  <2> QED BY <2>4, <2>5 DEF DeskIInv
<1>10. CASE calls[i].op = "lookup"
  <2>1. PICK a : Is(a) /\ a = [ip |-> calls[i].arg, is_blocked |-> IsBlocked(calls[i].arg)]
    BY <1>10 DEF ServeCall, Serve, Is, BlockOps
  <2>2. UNCHANGED <<server, issued>>
    BY <1>10 DEF ServeCall, blockVars, BlockOps
  <2>3. calls[i].arg \in IPs
    BY <1>0, <1>10 DEF Fits
  <2>4. IsBlocked(calls[i].arg) \in BOOLEAN
    BY DEF IsBlocked
  <2>5. a \in Looks /\ a.ip = calls[i].arg /\ a \in Ans
    BY <2>1, <2>3, <2>4 DEF Looks
  <2>6. DeskType' /\ HeaderFollows' /\ ListSettles'
    BY <1>0, <1>4, <1>5, <1>6, <1>7, <1>10, <2>1, <2>2, <2>5 DEF DeskType
  <2>7. (\A j \in DOMAIN calls : Fits(calls[j], issued))' /\ MadeOnce(calls)' /\ RowsBounded'
    BY <1>8, <1>10, <2>1, <2>2, <2>5 DEF BlockOps
  <2> QED BY <2>6, <2>7 DEF DeskIInv
<1>11. CASE calls[i].op = "unblock"
  <2>1. Is(Nil) /\ server' = server \ {calls[i].arg} /\ issued' = issued
    BY <1>11 DEF ServeCall, Serve, Is, BlockOps
  <2>2. Nil \in Ans
    OBVIOUS
  <2>3. Changed(calls')
    <3>1. i \in DOMAIN calls' /\ calls'[i].op = "unblock" /\ calls'[i].st = "served"
      BY <1>3, <1>11, <2>1, <2>2
    <3> QED BY <3>1 DEF Changed, ChangeOps
  <2>4. DeskType' /\ HeaderFollows' /\ ListSettles'
    BY <1>0, <1>4, <1>5, <1>6, <1>7, <2>1, <2>2, <2>3 DEF DeskType
  <2>5. (\A j \in DOMAIN calls : Fits(calls[j], issued))' /\ MadeOnce(calls)' /\ RowsBounded'
    BY <1>8, <1>11, <2>1, <2>2 DEF BlockOps
  <2> QED BY <2>4, <2>5 DEF DeskIInv
<1>12. CASE calls[i].op \in BlockOps
  <2> DEFINE ip == calls[i].arg
             b == [ip |-> ip, n |-> issued[ip] + 1]
  <2>1. ip \in IPs /\ issued \in [IPs -> 0 .. MaxBlocks] /\ MaxBlocks \in Nat
    BY <1>0, <1>12, IpDeskAssumptions DEF Fits, DeskType
  <2>2. /\ issued[ip] < MaxBlocks /\ issued' = [issued EXCEPT ![ip] = issued[ip] + 1]
        /\ server' = server \cup {[ip |-> ip, n |-> issued'[ip]]}
        /\ Is([ip |-> ip, n |-> issued'[ip]])
    BY <1>12 DEF ServeCall, Serve, Is, BlockOps
  <2>3. issued'[ip] = issued[ip] + 1
    BY <2>1, <2>2
  <2>4. server' = server \cup {b} /\ Is(b)
    BY <2>2, <2>3
  <2>5. b \in Blocks /\ b.ip = ip /\ b.n = issued[ip] + 1 /\ b.n > issued[ip]
    BY <2>1, <2>2 DEF Blocks
  <2>6. PICK a : a = b
    OBVIOUS
  <2>7. /\ a \in Blocks /\ a \in Ans /\ Is(a) /\ a.ip = ip /\ a.n = issued[ip] + 1 /\ a.n > issued[ip]
        /\ server' = server \cup {a}
    BY <2>4, <2>5, <2>6
  <2> HIDE DEF b
  <2>8. issued' \in [IPs -> 0 .. MaxBlocks] /\ \A q \in IPs : issued[q] <= issued'[q]
    BY <2>1, <2>2
  <2>9. Changed(calls')
    <3>1. i \in DOMAIN calls' /\ calls'[i].op \in BlockOps /\ calls'[i].st = "served"
      BY <1>3, <1>12, <2>7
    <3> QED BY <3>1 DEF Changed, ChangeOps
  <2>10. DeskType' /\ HeaderFollows' /\ ListSettles'
    <3>1. server' \subseteq Blocks
      BY <1>0, <2>7 DEF DeskType
    <3> QED BY <1>4, <1>5, <1>6, <1>7, <2>7, <2>8, <2>9, <3>1
  <2>11. \A j \in DOMAIN calls' : Fits(calls'[j], issued')
    <3>1. \A x \in Blocks : x.ip \in IPs /\ x.n \in Nat
      BY DEF Blocks
    <3>2. ASSUME NEW j \in DOMAIN calls, j # i PROVE Fits(calls'[j], issued')
      <4>1. calls'[j] = calls[j] /\ Fits(calls[j], issued)
        BY <1>0, <1>3, <2>7, <3>2
      <4>2. \A x \in Blocks : x.n <= issued[x.ip] => x.n <= issued'[x.ip]
        BY <2>1, <2>8, <3>1
      <4> QED BY <4>1, <4>2 DEF Fits
    <3>3. Fits(calls'[i], issued')
      <4>1. /\ calls'[i].op \in BlockOps /\ calls'[i].arg = ip /\ calls'[i].ans = a
            /\ a.n <= issued'[a.ip]
        BY <1>3, <1>12, <2>1, <2>3, <2>7, <2>8
      <4> QED BY <2>1, <2>7, <4>1 DEF Fits, BlockOps
    <3> QED BY <1>3, <2>7, <3>2, <3>3
  <2>12. \A j \in DOMAIN calls : ~MadeBy(calls[j], a)
    <3>1. \A j \in DOMAIN calls : MadeBy(calls[j], a) => a.n <= issued[a.ip]
      BY <1>0 DEF MadeBy, Fits
    <3>2. ~(a.n <= issued[a.ip])
      BY <2>1, <2>7
    <3> QED BY <3>1, <3>2
  <2>13. \A x : \A j \in DOMAIN calls' :
           MadeBy(calls'[j], x) => j \in DOMAIN calls /\ (MadeBy(calls[j], x) \/ (j = i /\ x = a))
    BY <1>3, <2>7 DEF MadeBy
  <2>14. ~MadeBy(calls[i], a) /\ \A x : ~MadeBy(calls[i], x)
    BY <1>1 DEF MadeBy
  <2>15. MadeOnce(calls')
    BY <1>0, <2>12, <2>13, <2>14 DEF MadeOnce
  <2>16. RowsBounded'
    <3> SUFFICES ASSUME NEW x \in Blocks, blockedIPs[x] > 1
                 PROVE  x.n <= issued'[x.ip] /\ \A j \in DOMAIN calls' : ~MadeBy(calls'[j], x)
      BY <1>1 DEF RowsBounded
    <3>1. x.n <= issued[x.ip] /\ \A j \in DOMAIN calls : ~MadeBy(calls[j], x)
      BY <1>0 DEF RowsBounded
    <3>2. x.ip \in IPs /\ x.n \in Nat
      BY DEF Blocks
    <3>3. x.n <= issued'[x.ip]
      BY <2>1, <2>8, <3>1, <3>2
    <3>4. x # a
      BY <2>1, <2>7, <3>1
    <3> QED BY <2>13, <3>1, <3>3, <3>4
  <2> QED BY <2>10, <2>11, <2>15, <2>16 DEF DeskIInv
<1>13. calls[i].op \in {"load", "unblock", "lookup"} \cup BlockOps
  BY DEF ServeCall
<1> QED BY <1>9, <1>10, <1>11, <1>12, <1>13

\* The list of a load is shown, and loads that are older are late.
LEMMA LoadedListStep ==
  ASSUME DeskIInv, NEW i \in DOMAIN calls, AnswerCall(i), ListLoaded(i)
  PROVE  DeskIInv'
<1>0. DeskType /\ RowsBounded /\ ListSettles /\ HeaderFollows /\ Fits(calls[i], issued)
  BY DEF DeskIInv
<1>1. /\ calls[i].st = "served" /\ calls[i].op = "load" /\ blockedIPs' = calls[i].ans
      /\ isLoading' = FALSE /\ wrong' = calls[i].late /\ calls' = Late(i, 1 .. i - 1)
      /\ UNCHANGED <<desk, server, issued, showBlockDialog, isBlocking, mixed>>
      /\ UNCHANGED <<showReputation, selectedIP, ipReputation, loadingReputation>>
  BY DEF AnswerCall, ListLoaded, blockVars, blockFormVars, repVars
<1>2. PICK js : js = 1 .. i - 1
  OBVIOUS
<1>3. Left(calls, i, js, calls')
  <2>1. calls \in Seq(DeskCalls)
    BY <1>0 DEF DeskType
  <2>2. calls' = RemoveAt([j \in DOMAIN calls |->
                   IF j \in js /\ calls[j].op = "load"
                   THEN [calls[j] EXCEPT !.late = TRUE] ELSE calls[j]], i)
    BY <1>1, <1>2 DEF Late
  <2> HIDE <1>2
  <2> QED BY <2>1, <2>2, CallOver
<1>4. /\ calls' \in Seq(DeskCalls) /\ Len(calls') < MaxCalls
      /\ (\A j \in DOMAIN calls : Fits(calls[j], issued))' /\ MadeOnce(calls)'
      /\ \A j \in DOMAIN calls' :
           \E k \in DOMAIN calls : calls'[j].op = calls[k].op /\ calls'[j].arg = calls[k].arg
      /\ \A op : IsOut(op, calls') => IsOut(op, calls)
      /\ \A op : IsOut(op, calls) /\ op # calls[i].op => IsOut(op, calls')
      /\ OneBlock(calls) => OneBlock(calls')
      /\ Listed' = Listed
  BY <1>1, <1>3, OverKeeps
<1>5. blockedIPs' \in Counts
  BY <1>0, <1>1 DEF Fits
<1>6. DeskType'
  <2>1. blockedIPs' \in [Blocks -> 0 .. 2]
    BY <1>5 DEF Counts
  <2>2. wrong' \in BOOLEAN
    <3>1. calls[i] \in DeskCalls
      BY <1>0, ElementOfSeq, LenProperties DEF DeskType
    <3> QED BY <1>1, <3>1 DEF DeskCalls
  <2>3. Len(calls') <= MaxCalls
    BY <1>3, <1>4, IpDeskAssumptions DEF Left
  <2> QED BY <1>0, <1>1, <1>4, <2>1, <2>2, <2>3 DEF DeskType
<1>7. RowsBounded'
  BY <1>5 DEF RowsBounded, Counts
<1>8. ListSettles'
  <2> SUFFICES ASSUME Listing PROVE ListSettles'
    BY <1>1 DEF ListSettles, Listing
  <2>1. /\ OneBlock(calls) /\ (isBlocking <=> IsOut("block", calls))
        /\ LateFirst(calls) /\ FreshLast(calls, Listed)
    BY <1>0 DEF ListSettles
  <2>2. /\ LateFirst(calls') /\ FreshLast(calls', Listed)
        /\ Changed(calls) => Changed(calls')
        /\ ~calls[i].late => calls[i].ans = Listed \/ Changed(calls) \/ OnTime(calls')
    <3>1. Left(calls, i, 1 .. i - 1, calls')
      BY <1>2, <1>3
    <3> QED BY <1>1, <2>1, <3>1, LoadSettles
  <2>3. isBlocking' <=> IsOut("block", calls')
    BY <1>1, <1>4, <2>1
  <2> QED BY <1>1, <1>4, <2>1, <2>2, <2>3 DEF ListSettles
<1>9. HeaderFollows'
  <2>1. IsOut("lookup", calls') <=> IsOut("lookup", calls)
    BY <1>1, <1>4
  <2>2. \A j \in DOMAIN calls' :
          calls'[j].op = "lookup" => \E k \in DOMAIN calls : calls[k].op = "lookup" /\ calls'[j].arg = calls[k].arg
    BY <1>4
  <2> QED BY <1>0, <1>1, <2>1, <2>2 DEF HeaderFollows
<1> QED BY <1>4, <1>6, <1>7, <1>8, <1>9 DEF DeskIInv

\* A change is over and followed by a load.
LEMMA FollowedByLoad ==
  ASSUME DeskIInv, NEW i \in DOMAIN calls,
         calls[i].op \in ChangeOps, loadBlockedIPs(Without(i)), UNCHANGED <<server, issued>>
  PROVE  /\ calls' \in Seq(DeskCalls) /\ Len(calls') <= MaxCalls
         /\ (\A j \in DOMAIN calls : Fits(calls[j], issued))' /\ MadeOnce(calls)'
         /\ \A b : \A j \in DOMAIN calls' :
              MadeBy(calls'[j], b) => \E k \in DOMAIN calls : k # i /\ MadeBy(calls[k], b)
         /\ IsOut("lookup", calls') <=> IsOut("lookup", calls)
         /\ \A j \in DOMAIN calls' : calls'[j].op = "lookup" =>
              \E k \in DOMAIN calls : calls[k].op = "lookup" /\ calls'[j].arg = calls[k].arg
         /\ OneBlock(calls) => OneBlock(calls') /\ (calls[i].op = "block" => ~IsOut("block", calls'))
         /\ calls[i].op # "block" => (IsOut("block", calls') <=> IsOut("block", calls))
         /\ LateFirst(calls) => /\ IsOut("load", calls') /\ OnTime(calls') /\ LateFirst(calls')
                                /\ FreshLast(calls', Listed)
         /\ Listed' = Listed /\ isLoading' = TRUE
<1>1. calls \in Seq(DeskCalls) /\ MaxCalls \in Nat /\ Len(calls) <= MaxCalls
      /\ MadeOnce(calls) /\ \A j \in DOMAIN calls : Fits(calls[j], issued)
  BY IpDeskAssumptions DEF DeskIInv, DeskType
<1>2. PICK cs : cs = Without(i)
  OBVIOUS
<1>3. Left(calls, i, {}, cs)
  BY <1>1, <1>2, CallGone DEF Without
<1>4. cs \in Seq(DeskCalls) /\ Len(cs) \in Nat /\ Len(cs) < MaxCalls
  <2>1. cs \in Seq(DeskCalls) /\ Len(calls) \in Nat /\ Len(cs) = Len(calls) - 1
    BY <1>3 DEF Left
  <2> QED BY <1>1, <2>1, LenProperties
<1>5. /\ \A j \in DOMAIN cs : Fits(cs[j], issued)
      /\ MadeOnce(cs)
      /\ \A b : \A j \in DOMAIN cs : MadeBy(cs[j], b) => \E k \in DOMAIN calls : k # i /\ MadeBy(calls[k], b)
      /\ \A j \in DOMAIN cs : \E k \in DOMAIN calls : cs[j].op = calls[k].op /\ cs[j].arg = calls[k].arg
      /\ \A op : IsOut(op, cs) => IsOut(op, calls)
      /\ \A op : IsOut(op, calls) /\ op # calls[i].op => IsOut(op, cs)
      /\ OneBlock(calls) => OneBlock(cs) /\ (calls[i].op = "block" => ~IsOut("block", cs))
  BY <1>1, <1>3, LeftKeeps
<1>6. Listed' = Listed
  BY DEF Listed
<1>7. calls[i].op # "lookup"
  BY DEF ChangeOps, BlockOps
<1>8. PICK c : c = DeskCall("load", Nil)
  OBVIOUS
<1>9. c \in DeskCalls /\ c.op = "load" /\ c.st = "sent" /\ ~c.late
  BY <1>8, NewDeskCall
<1>10. Fits(c, issued)
  BY <1>9 DEF Fits, BlockOps
<1>11. calls' = Append(cs, c) /\ isLoading' = TRUE
  BY <1>2, <1>8 DEF loadBlockedIPs
<1>12. Grown(cs, c, calls')
  BY <1>4, <1>9, <1>11, CallAdded
<1>13. calls' \in Seq(DeskCalls) /\ Len(calls') <= MaxCalls
  BY <1>1, <1>4, <1>12 DEF Grown
<1>14. /\ \A j \in DOMAIN calls' : Fits(calls'[j], issued)
       /\ MadeOnce(calls')
       /\ \A b : \A j \in DOMAIN calls' : MadeBy(calls'[j], b) => j \in DOMAIN cs /\ MadeBy(cs[j], b)
       /\ \A op : IsOut(op, calls') <=> IsOut(op, cs) \/ c.op = op
       /\ OneBlock(cs) /\ (c.op # "block" \/ ~IsOut("block", cs)) => OneBlock(calls')
  BY <1>5, <1>9, <1>10, <1>12, GrownKeeps
<1>15. ASSUME LateFirst(calls)
       PROVE  LateFirst(calls') /\ FreshLast(calls', Listed) /\ OnTime(calls')
  <2>1. LateFirst(cs)
    BY <1>3, <1>15, OverSettles
  <2> QED BY <1>9, <1>12, <2>1, GrownSettles
<1>16. ASSUME NEW j \in DOMAIN calls', calls'[j].op = "lookup"
       PROVE  \E k \in DOMAIN calls : calls[k].op = "lookup" /\ calls'[j].arg = calls[k].arg
  <2>1. j \in DOMAIN cs /\ calls'[j] = cs[j]
    BY <1>9, <1>12, <1>16 DEF Grown
  <2> QED BY <1>5, <1>16, <2>1
<1>17. \A op : op # "load" => (IsOut(op, calls') <=> IsOut(op, cs))
  BY <1>9, <1>14
<1>18. IsOut("lookup", calls') <=> IsOut("lookup", calls)
  BY <1>5, <1>7, <1>17
<1>19. calls[i].op # "block" => (IsOut("block", calls') <=> IsOut("block", calls))
  BY <1>5, <1>17
<1>20. IsOut("load", calls')
  BY <1>9, <1>14
<1>21. OneBlock(calls) => OneBlock(calls') /\ (calls[i].op = "block" => ~IsOut("block", calls'))
  BY <1>5, <1>9, <1>14, <1>17
<1>22. \A b : \A j \in DOMAIN calls' :
         MadeBy(calls'[j], b) => \E k \in DOMAIN calls : k # i /\ MadeBy(calls[k], b)
  BY <1>5, <1>14
<1> QED BY <1>6, <1>11, <1>13, <1>14, <1>15, <1>16, <1>18, <1>19, <1>20, <1>21, <1>22

\* The row of an answered block is added, once, to those that were loaded.
LEMMA RowAdded ==
  ASSUME DeskIInv, NEW i \in DOMAIN calls, calls[i].op \in BlockOps, calls[i].st = "served",
         addBlockedIP(calls[i].ans), UNCHANGED issued,
         \A b : \A j \in DOMAIN calls' :
           MadeBy(calls'[j], b) => \E k \in DOMAIN calls : k # i /\ MadeBy(calls[k], b)
  PROVE  blockedIPs' \in [Blocks -> 0 .. 2] /\ RowsBounded'
<1>0. DeskType /\ MadeOnce(calls) /\ RowsBounded /\ Fits(calls[i], issued)
  BY DEF DeskIInv
<1>1. blockedIPs' = [blockedIPs EXCEPT ![calls[i].ans] = blockedIPs[calls[i].ans] + 1]
  BY DEF addBlockedIP
<1>2. PICK b \in Blocks : b = calls[i].ans /\ b.n <= issued[b.ip]
  BY <1>0 DEF Fits
<1>3. MadeBy(calls[i], b)
  BY <1>2 DEF MadeBy
<1>4. blockedIPs[b] \in 0 .. 1
  <2>1. blockedIPs[b] \in 0 .. 2 /\ ~(blockedIPs[b] > 1)
    BY <1>0, <1>3 DEF DeskType, RowsBounded
  <2> QED BY <2>1
<1>5. /\ blockedIPs' \in [Blocks -> 0 .. 2]
      /\ \A x \in Blocks : x # b => blockedIPs'[x] = blockedIPs[x]
  <2>1. PICK v \in 0 .. 2 : v = blockedIPs[b] + 1
    BY <1>4
  <2>2. blockedIPs' = [blockedIPs EXCEPT ![b] = v]
    BY <1>1, <1>2, <2>1
  <2>3. blockedIPs \in [Blocks -> 0 .. 2]
    BY <1>0 DEF DeskType
  <2> HIDE DEF Blocks
  <2> QED BY <2>2, <2>3
<1>6. RowsBounded'
  <2> SUFFICES ASSUME NEW x \in Blocks, blockedIPs'[x] > 1
               PROVE  x.n <= issued[x.ip] /\ \A j \in DOMAIN calls' : ~MadeBy(calls'[j], x)
    BY DEF RowsBounded
  <2>1. CASE x = b
    BY <1>0, <1>2, <1>3, <2>1 DEF MadeOnce
  <2>2. CASE x # b
    BY <1>0, <1>5, <2>2 DEF RowsBounded
  <2> QED BY <2>1, <2>2
<1> QED BY <1>5, <1>6

\* A block of this mount is answered.
LEMMA BlockedStep ==
  ASSUME DeskIInv, NEW i \in DOMAIN calls, AnswerCall(i), Blocked(i)
  PROVE  DeskIInv'
<1>0. DeskType /\ ListSettles /\ HeaderFollows
  BY DEF DeskIInv
<1>1. /\ calls[i].st = "served" /\ calls[i].op = "block" /\ addBlockedIP(calls[i].ans)
      /\ showBlockDialog' = FALSE /\ isBlocking' = FALSE /\ showReputation' = FALSE
      /\ UNCHANGED <<desk, server, issued, wrong, selectedIP, ipReputation, loadingReputation, mixed>>
  BY DEF AnswerCall, Blocked, blockVars
<1>2. calls[i].op \in ChangeOps /\ calls[i].op \in BlockOps
  BY <1>1 DEF ChangeOps, BlockOps
<1>3. /\ calls' \in Seq(DeskCalls) /\ Len(calls') <= MaxCalls
      /\ (\A j \in DOMAIN calls : Fits(calls[j], issued))' /\ MadeOnce(calls)'
      /\ \A b : \A j \in DOMAIN calls' :
           MadeBy(calls'[j], b) => \E k \in DOMAIN calls : k # i /\ MadeBy(calls[k], b)
      /\ IsOut("lookup", calls') <=> IsOut("lookup", calls)
      /\ isLoading' \in BOOLEAN /\ ListSettles'
  <2>1. CASE desk = "list" /\ loadBlockedIPs(Without(i))
    <3>1. /\ calls' \in Seq(DeskCalls) /\ Len(calls') <= MaxCalls
          /\ (\A j \in DOMAIN calls : Fits(calls[j], issued))' /\ MadeOnce(calls)'
          /\ \A b : \A j \in DOMAIN calls' :
               MadeBy(calls'[j], b) => \E k \in DOMAIN calls : k # i /\ MadeBy(calls[k], b)
          /\ IsOut("lookup", calls') <=> IsOut("lookup", calls)
          /\ OneBlock(calls) => OneBlock(calls') /\ ~IsOut("block", calls')
          /\ LateFirst(calls) =>
               IsOut("load", calls') /\ OnTime(calls') /\ LateFirst(calls') /\ FreshLast(calls', Listed)
          /\ Listed' = Listed /\ isLoading' = TRUE
      BY <1>1, <1>2, <2>1, FollowedByLoad
    <3>2. OneBlock(calls) /\ LateFirst(calls)
      BY <1>0, <2>1 DEF ListSettles, Listing
    <3>3. ListSettles'
      BY <1>1, <3>1, <3>2 DEF ListSettles
    <3> QED BY <3>1, <3>3
  <2>2. CASE desk = "threats" /\ calls' = Without(i) /\ UNCHANGED isLoading
    <3>1. Left(calls, i, {}, calls')
      BY <1>0, <2>2, CallGone DEF Without, DeskType
    <3>2. /\ calls' \in Seq(DeskCalls) /\ Len(calls') < MaxCalls
          /\ (\A j \in DOMAIN calls : Fits(calls[j], issued))' /\ MadeOnce(calls)'
          /\ \A b : \A j \in DOMAIN calls' :
               MadeBy(calls'[j], b) => \E k \in DOMAIN calls : k # i /\ MadeBy(calls[k], b)
          /\ \A op : IsOut(op, calls') => IsOut(op, calls)
          /\ \A op : IsOut(op, calls) /\ op # calls[i].op => IsOut(op, calls')
      BY <1>1, <3>1, OverKeeps
    <3>3. Len(calls') <= MaxCalls
      BY <3>1, <3>2, IpDeskAssumptions DEF Left
    <3>4. IsOut("lookup", calls') <=> IsOut("lookup", calls)
      BY <1>1, <3>2
    <3>5. ListSettles'
      BY <1>1, <2>2 DEF ListSettles, Listing
    <3>6. isLoading' \in BOOLEAN
      BY <1>0, <2>2 DEF DeskType
    <3> QED BY <3>2, <3>3, <3>4, <3>5, <3>6
  <2> QED BY <2>1, <2>2 DEF Blocked, AnswerCall
<1>4. blockedIPs' \in [Blocks -> 0 .. 2] /\ RowsBounded'
  BY <1>1, <1>2, <1>3, RowAdded
<1>5. DeskType'
  BY <1>0, <1>1, <1>3, <1>4 DEF DeskType
<1>6. HeaderFollows'
  BY <1>0, <1>1, <1>3 DEF HeaderFollows
<1> QED BY <1>3, <1>4, <1>5, <1>6 DEF DeskIInv

\* A block that an earlier mount of the list left out is answered.
LEMMA PastBlockedStep ==
  ASSUME DeskIInv, NEW i \in DOMAIN calls, AnswerCall(i), PastBlocked(i)
  PROVE  DeskIInv'
<1>0. DeskType /\ ListSettles /\ HeaderFollows
  BY DEF DeskIInv
<1>1. /\ calls[i].st = "served" /\ calls[i].op = "pastBlock" /\ addBlockedIP(calls[i].ans)
      /\ loadBlockedIPs(Without(i))
      /\ UNCHANGED <<desk, server, issued, wrong, selectedIP, ipReputation, loadingReputation, mixed>>
      /\ UNCHANGED <<showBlockDialog, isBlocking, showReputation>>
  BY DEF AnswerCall, PastBlocked, blockVars, blockFormVars, repVars
<1>2. calls[i].op \in ChangeOps /\ calls[i].op \in BlockOps
  BY <1>1 DEF ChangeOps, BlockOps
<1>3. /\ calls' \in Seq(DeskCalls) /\ Len(calls') <= MaxCalls
      /\ (\A j \in DOMAIN calls : Fits(calls[j], issued))' /\ MadeOnce(calls)'
      /\ \A b : \A j \in DOMAIN calls' :
           MadeBy(calls'[j], b) => \E k \in DOMAIN calls : k # i /\ MadeBy(calls[k], b)
      /\ IsOut("lookup", calls') <=> IsOut("lookup", calls)
      /\ \A j \in DOMAIN calls' : calls'[j].op = "lookup" =>
           \E k \in DOMAIN calls : calls[k].op = "lookup" /\ calls'[j].arg = calls[k].arg
      /\ OneBlock(calls) => OneBlock(calls')
      /\ IsOut("block", calls') <=> IsOut("block", calls)
      /\ LateFirst(calls) =>
           IsOut("load", calls') /\ OnTime(calls') /\ LateFirst(calls') /\ FreshLast(calls', Listed)
      /\ Listed' = Listed /\ isLoading' = TRUE
  BY <1>1, <1>2, FollowedByLoad
<1>4. blockedIPs' \in [Blocks -> 0 .. 2] /\ RowsBounded'
  BY <1>1, <1>2, <1>3, RowAdded
<1>5. DeskType'
  BY <1>0, <1>1, <1>3, <1>4 DEF DeskType
<1>6. ListSettles'
  <2> SUFFICES ASSUME Listing PROVE ListSettles'
    BY <1>1 DEF ListSettles, Listing
  <2>1. OneBlock(calls) /\ LateFirst(calls) /\ (isBlocking <=> IsOut("block", calls))
    BY <1>0 DEF ListSettles
  <2>2. isBlocking' <=> IsOut("block", calls')
    BY <1>1, <1>3, <2>1
  <2> QED BY <1>1, <1>3, <2>1, <2>2 DEF ListSettles
<1>7. HeaderFollows'
  BY <1>0, <1>1, <1>3 DEF HeaderFollows
<1> QED BY <1>3, <1>4, <1>5, <1>6, <1>7 DEF DeskIInv

\* A block that ThreatsView left out is answered: the loads out are late.
LEMMA AwayBlockedStep ==
  ASSUME DeskIInv, NEW i \in DOMAIN calls, AnswerCall(i), AwayBlocked(i)
  PROVE  DeskIInv'
<1>0. DeskType /\ ListSettles /\ HeaderFollows /\ calls \in Seq(DeskCalls)
  BY DEF DeskIInv, DeskType
<1>1. /\ calls[i].st = "served" /\ calls[i].op = "awayBlock" /\ addBlockedIP(calls[i].ans)
      /\ wrong' = TRUE /\ calls' = Late(i, DOMAIN calls)
      /\ UNCHANGED <<desk, server, issued, isLoading, showBlockDialog, isBlocking>>
      /\ UNCHANGED <<showReputation, selectedIP, ipReputation, loadingReputation, mixed>>
  BY DEF AnswerCall, AwayBlocked, blockVars, blockFormVars, repVars
<1>2. PICK js : js = DOMAIN calls
  OBVIOUS
<1>3. Left(calls, i, js, calls')
  <2>1. calls' = RemoveAt([j \in DOMAIN calls |->
                   IF j \in js /\ calls[j].op = "load"
                   THEN [calls[j] EXCEPT !.late = TRUE] ELSE calls[j]], i)
    BY <1>1, <1>2 DEF Late
  <2> HIDE <1>2
  <2> QED BY <1>0, <2>1, CallOver
<1>4. /\ calls' \in Seq(DeskCalls) /\ Len(calls') < MaxCalls
      /\ (\A j \in DOMAIN calls : Fits(calls[j], issued))' /\ MadeOnce(calls)'
      /\ \A b : \A j \in DOMAIN calls' :
           MadeBy(calls'[j], b) => \E k \in DOMAIN calls : k # i /\ MadeBy(calls[k], b)
      /\ \A j \in DOMAIN calls' :
           \E k \in DOMAIN calls : calls'[j].op = calls[k].op /\ calls'[j].arg = calls[k].arg
      /\ \A op : IsOut(op, calls') => IsOut(op, calls)
      /\ \A op : IsOut(op, calls) /\ op # calls[i].op => IsOut(op, calls')
      /\ OneBlock(calls) => OneBlock(calls')
  BY <1>1, <1>3, OverKeeps
<1>5. Len(calls') <= MaxCalls
  BY <1>3, <1>4, IpDeskAssumptions DEF Left
<1>6. blockedIPs' \in [Blocks -> 0 .. 2] /\ RowsBounded'
  <2>1. calls[i].op \in BlockOps
    BY <1>1 DEF BlockOps
  <2> QED BY <1>1, <1>4, <2>1, RowAdded
<1>7. DeskType'
  BY <1>0, <1>1, <1>4, <1>5, <1>6 DEF DeskType
<1>8. ListSettles'
  <2> SUFFICES ASSUME Listing PROVE ListSettles'
    BY <1>1 DEF ListSettles, Listing
  <2>1. /\ OneBlock(calls) /\ (isBlocking <=> IsOut("block", calls))
        /\ isLoading => IsOut("load", calls)
    BY <1>0 DEF ListSettles
  <2>2. LateFirst(calls') /\ FreshLast(calls', Listed')
    <3>1. Left(calls, i, DOMAIN calls, calls')
      BY <1>2, <1>3
    <3> QED BY <3>1, LostSettles
  <2>3. (isBlocking' <=> IsOut("block", calls')) /\ (isLoading' => IsOut("load", calls'))
    BY <1>1, <1>4, <2>1
  <2> QED BY <1>1, <1>4, <2>1, <2>2, <2>3 DEF ListSettles
<1>9. HeaderFollows'
  <2>1. IsOut("lookup", calls') <=> IsOut("lookup", calls)
    BY <1>1, <1>4
  <2>2. \A j \in DOMAIN calls' :
          calls'[j].op = "lookup" => \E k \in DOMAIN calls : calls[k].op = "lookup" /\ calls'[j].arg = calls[k].arg
    BY <1>4
  <2> QED BY <1>0, <1>1, <2>1, <2>2 DEF HeaderFollows
<1> QED BY <1>4, <1>6, <1>7, <1>8, <1>9 DEF DeskIInv

\* An unblock is answered: its rows are removed.
LEMMA UnblockedStep ==
  ASSUME DeskIInv, NEW i \in DOMAIN calls, AnswerCall(i), Unblocked(i)
  PROVE  DeskIInv'
<1>0. /\ DeskType /\ RowsBounded /\ ListSettles /\ HeaderFollows /\ Fits(calls[i], issued)
  BY DEF DeskIInv
<1>1. /\ calls[i].st = "served" /\ calls[i].op = "unblock"
      /\ blockedIPs' = [blockedIPs EXCEPT ![calls[i].arg] = 0]
      /\ loadBlockedIPs(Without(i))
      /\ UNCHANGED <<desk, server, issued, wrong, selectedIP, ipReputation, loadingReputation, mixed>>
      /\ UNCHANGED <<showBlockDialog, isBlocking, showReputation>>
  BY DEF AnswerCall, Unblocked, removeBlockedIP, blockVars, blockFormVars, repVars
<1>2. /\ calls' \in Seq(DeskCalls) /\ Len(calls') <= MaxCalls
      /\ (\A j \in DOMAIN calls : Fits(calls[j], issued))' /\ MadeOnce(calls)'
      /\ \A b : \A j \in DOMAIN calls' :
           MadeBy(calls'[j], b) => \E k \in DOMAIN calls : k # i /\ MadeBy(calls[k], b)
      /\ IsOut("lookup", calls') <=> IsOut("lookup", calls)
      /\ \A j \in DOMAIN calls' : calls'[j].op = "lookup" =>
           \E k \in DOMAIN calls : calls[k].op = "lookup" /\ calls'[j].arg = calls[k].arg
      /\ OneBlock(calls) => OneBlock(calls')
      /\ IsOut("block", calls') <=> IsOut("block", calls)
      /\ LateFirst(calls) =>
           IsOut("load", calls') /\ OnTime(calls') /\ LateFirst(calls') /\ FreshLast(calls', Listed)
      /\ Listed' = Listed /\ isLoading' = TRUE
  <2>1. calls[i].op \in ChangeOps
    BY <1>1 DEF ChangeOps
  <2> QED BY <1>1, <2>1, FollowedByLoad
<1>3. /\ blockedIPs' \in [Blocks -> 0 .. 2]
      /\ \A x \in Blocks : blockedIPs'[x] > 1 => blockedIPs[x] > 1
  <2>1. blockedIPs \in [Blocks -> 0 .. 2]
    BY <1>0 DEF DeskType
  <2>2. PICK b : b = calls[i].arg
    OBVIOUS
  <2>3. PICK v \in 0 .. 2 : v = 0
    OBVIOUS
  <2>4. blockedIPs' = [blockedIPs EXCEPT ![b] = v]
    BY <1>1, <2>2, <2>3
  <2>5. /\ blockedIPs' \in [Blocks -> 0 .. 2]
        /\ \A x \in Blocks : blockedIPs'[x] = v \/ blockedIPs'[x] = blockedIPs[x]
    BY <2>1, <2>4
  <2>6. \A x \in Blocks : blockedIPs'[x] > 1 => blockedIPs[x] > 1
    BY <2>3, <2>5
  <2> QED BY <2>5, <2>6
<1>4. DeskType'
  BY <1>0, <1>1, <1>2, <1>3 DEF DeskType
<1>5. RowsBounded'
  BY <1>0, <1>1, <1>2, <1>3 DEF RowsBounded
<1>6. ListSettles'
  <2> SUFFICES ASSUME Listing PROVE ListSettles'
    BY <1>1 DEF ListSettles, Listing
  <2>1. OneBlock(calls) /\ LateFirst(calls) /\ (isBlocking <=> IsOut("block", calls))
    BY <1>0 DEF ListSettles
  <2>2. isBlocking' <=> IsOut("block", calls')
    BY <1>1, <1>2, <2>1
  <2> QED BY <1>1, <1>2, <2>1, <2>2 DEF ListSettles
<1>7. HeaderFollows'
  BY <1>0, <1>1, <1>2 DEF HeaderFollows
<1> QED BY <1>2, <1>4, <1>5, <1>6, <1>7 DEF DeskIInv

\* A lookup is over: answered, and shown, or failed.
LEMMA LookupStep ==
  ASSUME DeskIInv, NEW i \in DOMAIN calls,
         (AnswerCall(i) /\ LookedUp(i)) \/ LookupFails(i)
  PROVE  DeskIInv'
<1>0. /\ DeskType /\ RowsBounded /\ ListSettles /\ HeaderFollows /\ Fits(calls[i], issued)
      /\ Nil \notin Looks
  BY IpDeskAssumptions DEF DeskIInv, Looks
<1>1. /\ calls[i].op = "lookup" /\ calls' = Without(i) /\ loadingReputation' = FALSE
      /\ UNCHANGED <<desk, server, issued, blockedIPs, isLoading, wrong, showBlockDialog, isBlocking, selectedIP>>
  BY DEF AnswerCall, LookedUp, LookupFails, blockVars, blockFormVars, listVars
<1>2. Left(calls, i, {}, calls')
  BY <1>0, <1>1, CallGone DEF Without, DeskType
<1>3. /\ calls' \in Seq(DeskCalls) /\ Len(calls') < MaxCalls
      /\ (\A j \in DOMAIN calls : Fits(calls[j], issued))' /\ MadeOnce(calls)'
      /\ \A j \in DOMAIN calls' :
           \E k \in DOMAIN calls : calls'[j].op = calls[k].op /\ calls'[j].arg = calls[k].arg
      /\ \A op : IsOut(op, calls') => IsOut(op, calls)
      /\ \A op : IsOut(op, calls) /\ op # calls[i].op => IsOut(op, calls')
      /\ RowsBounded'
      /\ OneBlock(calls) => OneBlock(calls')
      /\ Listed' = Listed
  BY <1>1, <1>2, OverKeeps
<1>4. ListSettles'
  <2> SUFFICES ASSUME Listing PROVE ListSettles'
    BY <1>1 DEF ListSettles, Listing
  <2>1. /\ OneBlock(calls) /\ (isBlocking <=> IsOut("block", calls))
        /\ isLoading => IsOut("load", calls)
        /\ LateFirst(calls) /\ FreshLast(calls, Listed)
        /\ ~wrong => blockedIPs = Listed \/ Changed(calls) \/ OnTime(calls)
    BY <1>0 DEF ListSettles
  <2>2. /\ LateFirst(calls') /\ FreshLast(calls', Listed)
        /\ Changed(calls) => Changed(calls')
        /\ OnTime(calls) => OnTime(calls')
    BY <1>1, <1>2, <2>1, OverSettles
  <2>3. (isBlocking' <=> IsOut("block", calls')) /\ (isLoading' => IsOut("load", calls'))
    BY <1>1, <1>3, <2>1
  <2> QED BY <1>1, <1>3, <2>1, <2>2, <2>3 DEF ListSettles
<1>5. Len(calls') <= MaxCalls
  BY <1>2, <1>3, IpDeskAssumptions DEF Left
<1>6. \A j \in DOMAIN calls' : calls'[j].op = "lookup" =>
        \E k \in DOMAIN calls : calls[k].op = "lookup" /\ calls'[j].arg = calls[k].arg
  BY <1>3
<1>7. CASE AnswerCall(i) /\ LookedUp(i)
  <2>1. /\ calls[i].st = "served" /\ ipReputation' = calls[i].ans
        /\ UNCHANGED <<showReputation, mixed>>
    BY <1>7 DEF AnswerCall, LookedUp
  <2>2. ipReputation' \in Looks /\ ipReputation'.ip = calls[i].arg /\ ipReputation' # Nil
    BY <1>0, <1>1, <2>1 DEF Fits
  <2>3. ~mixed /\ showReputation => calls[i].arg = selectedIP
    BY <1>0, <1>1 DEF HeaderFollows
  <2>4. DeskType'
    BY <1>0, <1>1, <1>3, <1>5, <2>1, <2>2 DEF DeskType
  <2>5. HeaderFollows'
    BY <1>0, <1>1, <1>6, <2>1, <2>2, <2>3 DEF HeaderFollows
  <2> QED BY <1>3, <1>4, <2>4, <2>5 DEF DeskIInv
<1>8. CASE LookupFails(i)
  <2>1. /\ showReputation' = (showReputation /\ desk = "threats")
        /\ mixed' = (desk = "threats" \/ mixed) /\ ipReputation' = ipReputation
    BY <1>8 DEF LookupFails
  <2>2. showReputation' \in BOOLEAN /\ mixed' \in BOOLEAN
    BY <1>0, <2>1 DEF DeskType
  <2>3. DeskType'
    BY <1>0, <1>1, <1>3, <1>5, <2>1, <2>2 DEF DeskType
  <2>4. (showReputation' => desk = "threats") /\ (showReputation' => mixed')
    BY <2>1, Zenon
  <2>5. HeaderFollows'
    <3>1. ~(~mixed' /\ showReputation') /\ (showReputation' => desk # "lookup")
      BY <2>4
    <3> QED BY <1>1, <3>1 DEF HeaderFollows
  <2> QED BY <1>3, <1>4, <2>3, <2>5 DEF DeskIInv
<1> QED BY <1>7, <1>8

\* A load or a change fails.
LEMMA FailStep ==
  ASSUME DeskIInv, NEW i \in DOMAIN calls, Fail(i)
  PROVE  DeskIInv'
<1>0. DeskType /\ RowsBounded /\ ListSettles /\ HeaderFollows /\ calls \in Seq(DeskCalls)
  BY DEF DeskIInv, DeskType
<1>1. /\ calls[i].op # "lookup"
      /\ isLoading' = (isLoading /\ calls[i].op # "load")
      /\ wrong' = (wrong \/ calls[i].op = "load" \/ calls[i].st = "served")
      /\ isBlocking' = (isBlocking /\ calls[i].op # "block")
      /\ UNCHANGED <<desk, server, issued, blockedIPs, showBlockDialog, mixed>>
      /\ UNCHANGED <<showReputation, selectedIP, ipReputation, loadingReputation>>
  BY DEF Fail, blockVars, repVars
<1>2. PICK js :
        /\ Left(calls, i, js, calls')
        /\ calls[i].op = "load" => js = 1 .. i - 1
        /\ calls[i].op # "load" => js = IF calls[i].st = "served" THEN DOMAIN calls ELSE {}
  <2>1. ASSUME NEW js, calls' = Late(i, js) PROVE Left(calls, i, js, calls')
    BY <1>0, <2>1, CallOver DEF Late
  <2>2. CASE calls[i].op = "load"
    <3>1. calls' = Late(i, 1 .. i - 1)
      BY <2>2 DEF Fail
    <3>2. PICK js : js = 1 .. i - 1
      OBVIOUS
    <3>3. Left(calls, i, js, calls')
      BY <2>1, <3>1, <3>2
    <3> QED BY <2>2, <3>2, <3>3
  <2>3. CASE calls[i].op # "load" /\ calls[i].st = "served"
    <3>1. calls' = Late(i, DOMAIN calls)
      BY <2>3 DEF Fail
    <3>2. PICK js : js = DOMAIN calls
      OBVIOUS
    <3>3. Left(calls, i, js, calls')
      BY <2>1, <3>1, <3>2
    <3> QED BY <2>3, <3>2, <3>3
  <2>4. CASE calls[i].op # "load" /\ calls[i].st # "served"
    <3>1. calls' = Without(i)
      BY <2>4 DEF Fail
    <3>2. Left(calls, i, {}, calls')
      BY <1>0, <3>1, CallGone DEF Without
    <3> QED BY <2>4, <3>2
  <2> QED BY <2>2, <2>3, <2>4
<1>3. /\ calls' \in Seq(DeskCalls) /\ Len(calls') < MaxCalls
      /\ (\A j \in DOMAIN calls : Fits(calls[j], issued))' /\ MadeOnce(calls)'
      /\ \A j \in DOMAIN calls' :
           \E k \in DOMAIN calls : calls'[j].op = calls[k].op /\ calls'[j].arg = calls[k].arg
      /\ \A op : IsOut(op, calls') => IsOut(op, calls)
      /\ \A op : IsOut(op, calls) /\ op # calls[i].op => IsOut(op, calls')
      /\ RowsBounded'
      /\ OneBlock(calls) => OneBlock(calls') /\ (calls[i].op = "block" => ~IsOut("block", calls'))
      /\ Listed' = Listed
  BY <1>1, <1>2, OverKeeps
<1>4. DeskType'
  <2>1. isLoading' \in BOOLEAN /\ wrong' \in BOOLEAN /\ isBlocking' \in BOOLEAN
    BY <1>0, <1>1 DEF DeskType
  <2>2. Len(calls') <= MaxCalls
    BY <1>2, <1>3, IpDeskAssumptions DEF Left
  <2> QED BY <1>0, <1>1, <1>3, <2>1, <2>2 DEF DeskType
<1>5. HeaderFollows'
  <2>1. IsOut("lookup", calls') <=> IsOut("lookup", calls)
    BY <1>1, <1>3
  <2>2. \A j \in DOMAIN calls' :
          calls'[j].op = "lookup" => \E k \in DOMAIN calls : calls[k].op = "lookup" /\ calls'[j].arg = calls[k].arg
    BY <1>3
  <2> QED BY <1>0, <1>1, <2>1, <2>2 DEF HeaderFollows
<1>6. ListSettles'
  <2> SUFFICES ASSUME Listing PROVE ListSettles'
    BY <1>1 DEF ListSettles, Listing
  <2>1. /\ OneBlock(calls) /\ (isBlocking <=> IsOut("block", calls))
        /\ isLoading => IsOut("load", calls)
        /\ LateFirst(calls) /\ FreshLast(calls, Listed)
        /\ ~wrong => blockedIPs = Listed \/ Changed(calls) \/ OnTime(calls)
    BY <1>0 DEF ListSettles
  <2>2. isBlocking' <=> IsOut("block", calls')
    <3>1. CASE calls[i].op = "block"
      BY <1>1, <1>3, <2>1, <3>1
    <3>2. CASE calls[i].op # "block"
      <4>1. isBlocking' <=> isBlocking
        BY <1>1, <3>2, Zenon
      <4> QED BY <1>3, <2>1, <3>2, <4>1
    <3> QED BY <3>1, <3>2
  <2>3. isLoading' => IsOut("load", calls')
    <3>1. isLoading' => isLoading /\ calls[i].op # "load"
      BY <1>1, Zenon
    <3> QED BY <1>3, <2>1, <3>1
  <2>4. wrong \/ calls[i].op = "load" \/ calls[i].st = "served" => wrong'
    BY <1>1, Zenon
  <2>5. CASE calls[i].op = "load"
    <3>1. Left(calls, i, 1 .. i - 1, calls')
      BY <1>2, <2>5
    <3>2. LateFirst(calls') /\ FreshLast(calls', Listed)
      BY <2>1, <2>5, <3>1, LoadSettles
    <3> QED BY <1>3, <2>1, <2>2, <2>3, <2>4, <2>5, <3>2 DEF ListSettles
  <2>6. CASE calls[i].op # "load" /\ calls[i].st = "served"
    <3>1. Left(calls, i, DOMAIN calls, calls')
      BY <1>2, <2>6
    <3>2. LateFirst(calls') /\ FreshLast(calls', Listed)
      BY <3>1, LostSettles
    <3> QED BY <1>3, <2>1, <2>2, <2>3, <2>4, <2>6, <3>2 DEF ListSettles
  <2>7. CASE calls[i].op # "load" /\ calls[i].st # "served"
    <3>1. Left(calls, i, {}, calls')
      BY <1>2, <2>7
    <3>2. calls[i].st = "sent"
      <4>1. calls[i] \in DeskCalls
        BY <1>0, ElementOfSeq, LenProperties
      <4> QED BY <2>7, <4>1 DEF DeskCalls
    <3>3. /\ LateFirst(calls') /\ FreshLast(calls', Listed)
          /\ Changed(calls) => Changed(calls')
          /\ OnTime(calls) => OnTime(calls')
      BY <2>1, <2>7, <3>1, <3>2, OverSettles
    <3> QED BY <1>1, <1>3, <2>1, <2>2, <2>3, <2>4, <3>3 DEF ListSettles
  <2> QED BY <2>5, <2>6, <2>7
<1> QED BY <1>3, <1>4, <1>5, <1>6 DEF DeskIInv

LEMMA DeskStarts == ASSUME DeskInit PROVE DeskIInv
<1>1. /\ desk \in {"away", "lookup", "threats"} /\ server \subseteq [ip : IPs, n : {1}]
      /\ issued = [ip \in IPs |-> IF [ip |-> ip, n |-> 1] \in server THEN 1 ELSE 0]
      /\ blockedIPs = [b \in Blocks |-> 0]
      /\ isLoading = FALSE /\ calls = <<>>
      /\ showBlockDialog = FALSE /\ isBlocking = FALSE
      /\ showReputation = FALSE /\ selectedIP = Nil /\ ipReputation = Nil
      /\ loadingReputation = FALSE /\ wrong = TRUE /\ mixed = FALSE
  BY DEF DeskInit
<1>2. MaxBlocks \in Nat \ {0} /\ MaxCalls \in Nat \ {0}
  BY IpDeskAssumptions
<1>3. calls \in Seq(DeskCalls) /\ Len(calls) <= MaxCalls /\ DOMAIN calls = {}
  BY <1>1, <1>2
<1>4. DeskType
  <2>1. server \subseteq Blocks /\ issued \in [IPs -> 0 .. MaxBlocks]
    BY <1>1, <1>2 DEF Blocks
  <2>2. /\ isLoading \in BOOLEAN /\ isBlocking \in BOOLEAN /\ wrong \in BOOLEAN
        /\ showBlockDialog \in BOOLEAN /\ (desk = "away" => ~showBlockDialog)
        /\ showReputation \in BOOLEAN /\ loadingReputation \in BOOLEAN /\ mixed \in BOOLEAN
    BY <1>1, Zenon
  <2>3. blockedIPs \in [Blocks -> 0 .. 2]
    BY <1>1
  <2>4. /\ selectedIP \in IPs \cup {Nil} /\ ipReputation \in Looks \cup {Nil}
        /\ desk \in {"list", "away", "lookup", "threats"}
    BY <1>1
  <2> QED BY <1>3, <2>1, <2>2, <2>3, <2>4, Zenon DEF DeskType
<1>5. RowsBounded
  BY <1>1, <1>2 DEF RowsBounded
<1>6. /\ \A i \in DOMAIN calls : Fits(calls[i], issued)
      /\ MadeOnce(calls) /\ OneBlock(calls) /\ LateFirst(calls) /\ FreshLast(calls, Listed)
      /\ ~IsOut("block", calls)
  BY <1>3 DEF MadeOnce, OneBlock, LateFirst, FreshLast, IsOut
<1>7. ListSettles
  BY <1>1, <1>6 DEF ListSettles
<1>8. HeaderFollows
  BY <1>1 DEF HeaderFollows
<1> QED BY <1>4, <1>5, <1>6, <1>7, <1>8 DEF DeskIInv

LEMMA DeskStep ==
  ASSUME DeskIInv, [DeskNext]_deskVars
  PROVE  DeskIInv'
<1>1. CASE UNCHANGED deskVars
  <2>1. /\ UNCHANGED <<desk, server, issued, calls, blockedIPs, isLoading, wrong, showBlockDialog, isBlocking>>
        /\ UNCHANGED <<showReputation, selectedIP, ipReputation, loadingReputation, mixed>>
    BY <1>1 DEF deskVars, blockVars, listVars, blockFormVars, repVars
  <2>2. Listed' = Listed
    BY <2>1 DEF Listed
  <2>3. DeskType'
    <3>1. /\ isLoading' \in BOOLEAN /\ isBlocking' \in BOOLEAN /\ wrong' \in BOOLEAN
          /\ showReputation' \in BOOLEAN /\ loadingReputation' \in BOOLEAN /\ mixed' \in BOOLEAN
      BY <2>1, Zenon DEF DeskIInv, DeskType
    <3>2. /\ desk' \in {"list", "away", "lookup", "threats"} /\ blockedIPs' \in [Blocks -> 0 .. 2]
          /\ selectedIP' \in IPs \cup {Nil} /\ ipReputation' \in Looks \cup {Nil}
      BY <2>1 DEF DeskIInv, DeskType
    <3>3. /\ server' \subseteq Blocks /\ issued' \in [IPs -> 0 .. MaxBlocks]
          /\ calls' \in Seq(DeskCalls) /\ Len(calls') <= MaxCalls
      BY <2>1 DEF DeskIInv, DeskType
    <3>4. showBlockDialog' \in BOOLEAN /\ (desk' = "away" => ~showBlockDialog')
      BY <2>1 DEF DeskIInv, DeskType
    <3> QED BY <3>1, <3>2, <3>3, <3>4, Zenon DEF DeskType
  <2> QED BY <2>1, <2>2, <2>3 DEF DeskIInv, RowsBounded, ListSettles, Listing, HeaderFollows
<1>2. ASSUME NEW i \in DOMAIN calls, AnswerCall(i) PROVE DeskIInv'
  BY <1>2, LoadedListStep, BlockedStep, PastBlockedStep, AwayBlockedStep, UnblockedStep,
     LookupStep DEF AnswerCall
<1>3. ASSUME NEW i \in DOMAIN calls, ServeCall(i) \/ Fail(i) \/ LookupFails(i)
      PROVE  DeskIInv'
  BY <1>3, ServeCallStep, FailStep, LookupStep
<1> QED BY <1>1, <1>2, <1>3, FormsStep, ChangeStep, LeaveStep, ViewStep DEF DeskNext

\* In every reachable state of the desk its invariant holds.
THEOREM DeskInvariant == DeskSpec => []DeskIInv
<1>1. DeskInit => DeskIInv
  BY DeskStarts
<1>2. DeskIInv /\ [DeskNext]_deskVars => DeskIInv'
  BY DeskStep
<1> QED BY <1>1, <1>2, PTL DEF DeskSpec

\* BlockedIPsView: when nothing is out the list is the server's, every block
\* once, in whatever order blocks, unblocks and loads were served and
\* answered, those of earlier mounts too; unless a load was overtaken, a call
\* failed, or nothing was loaded since ThreatsView's block was added.
THEOREM BlockedListIsRight ==
  DeskSpec => []BlockedListSettles
<1>1. DeskIInv => BlockedListSettles
  <2> SUFFICES ASSUME DeskIInv, desk = "list", calls = <<>>, ~wrong PROVE blockedIPs = Listed
    BY DEF BlockedListSettles
  <2>1. DOMAIN calls = {}
    OBVIOUS
  <2> QED BY <2>1 DEF DeskIInv, ListSettles, Listing, Changed, OnTime
<1> QED BY <1>1, DeskInvariant, PTL

\* BlockedIPsView and ThreatsView: no list has a block more than twice, one
\* block is out at a time, and the reputation dialog shows the address it
\* names, however forms are opened and cancelled while calls are out.
THEOREM DeskIsSound == DeskSpec => []DeskInv
<1>1. DeskIInv => DeskInv
  <2> SUFFICES ASSUME DeskIInv PROVE DeskInv
    OBVIOUS
  <2>0. DeskType /\ ListSettles /\ HeaderFollows
    BY DEF DeskIInv
  <2>1. DeskTypeOK
    <3>1. \A b \in {isLoading, showBlockDialog, isBlocking, showReputation, loadingReputation, wrong, mixed} : b \in BOOLEAN
      BY <2>0 DEF DeskType
    <3> QED BY <2>0, <3>1 DEF DeskType, DeskTypeOK, Looks
  <2>2. OneBlockOut
    <3> SUFFICES ASSUME desk = "list"
                 PROVE  /\ Cardinality({i \in DOMAIN calls : calls[i].op = "block"})
                             = IF isBlocking THEN 1 ELSE 0
                        /\ isLoading => "load" \in OutOps(calls)
      BY DEF OneBlockOut
    <3>1. /\ OneBlock(calls) /\ (isBlocking <=> IsOut("block", calls))
          /\ isLoading => IsOut("load", calls)
      BY <2>0 DEF ListSettles, Listing
    <3> DEFINE B == {i \in DOMAIN calls : calls[i].op = "block"}
    <3>3. CASE isBlocking
      <4>1. PICK i \in DOMAIN calls : calls[i].op = "block"
        BY <3>1, <3>3 DEF IsOut
      <4>2. B = {i}
        BY <3>1, <4>1 DEF OneBlock
      <4>3. Cardinality({i}) = 1
        BY FS_Singleton
      <4>4. Cardinality(B) = 1
        BY <4>2, <4>3
      <4> QED BY <3>1, <3>3, <4>4, OpsOut
    <3>4. CASE ~isBlocking
      <4>1. B = {}
        BY <3>1, <3>4 DEF IsOut
      <4>2. Cardinality({}) = 0
        BY FS_EmptySet
      <4>3. Cardinality(B) = 0
        BY <4>1, <4>2
      <4> QED BY <3>1, <3>4, <4>3, OpsOut
    <3> QED BY <3>3, <3>4
  <2>3. ReputationOfHeader
    BY <2>0, OpsOut DEF HeaderFollows, ReputationOfHeader
  <2> QED BY <2>1, <2>2, <2>3 DEF DeskInv
<1> QED BY <1>1, DeskInvariant, PTL

-----------------------------------------------------------------------------
(* The alerts view.                                                        *)

AlertRules == [id : RuleIds, on : BOOLEAN]
HistoryRows == UNION {[A -> BOOLEAN] : A \in SUBSET AlertIds}
Histories == [rows : HistoryRows, unack : Nat]

AlertArgs == {"all", "pending", "board", Unset} \cup 0 .. MaxRules \cup AlertIds
AlertAnswers == Seq(AlertRules) \cup AlertRules \cup Histories \cup {Unset}

AlertCalls ==
  [op : {"rules", "history", "other", "create", "update", "delete", "toggle", "ack"}, arg : AlertArgs,
   on : BOOLEAN, own : BOOLEAN, st : {"sent", "served"}, ans : AlertAnswers, late : BOOLEAN]

\* What call c of tab t asks and, once served, answers.
AlertFits(c, t) ==
  /\ t = "rules" => c.op \in {"rules", "create", "update", "delete", "toggle"}
  /\ t = "history" => c.op \in {"history", "other", "ack"}
  /\ c.op = "history" => c.arg \in {"all", "pending"}
  /\ c.op \in {"update", "delete", "toggle"} => c.arg \in RuleIds
  /\ c.op = "ack" => c.arg \in AlertIds
  /\ c.st = "served" => /\ c.op = "rules" => c.ans \in Seq(AlertRules)
                        /\ c.op \in {"history", "other"} => c.ans \in Histories
                        /\ c.op \in {"create", "update", "toggle"} => c.ans \in AlertRules

TabLoadOut(cs) == \E i \in DOMAIN cs : cs[i].op \in TabLoads

\* A change that a load follows, and a toggle, that the server has taken.
FollowedChange(c) == c.op \in {"create", "update", "delete", "ack"} /\ c.st = "served"
TabChanged(cs) == \E i \in DOMAIN cs : FollowedChange(cs[i])
TakenToggle(c) == c.op = "toggle" /\ c.st = "served"

\* What is out together with a toggle is late: the loads and other toggles.
NoneCrosses(cs) ==
  \A i, j \in DOMAIN cs :
    (i # j /\ cs[j].op = "toggle" /\ cs[i].op \in {"rules", "toggle"}) => cs[i].late

\* The youngest load asks for w and brings the server's answer, unless a
\* change will be followed by another load.
FreshTab(cs, w, now) ==
  \A i \in DOMAIN cs :
    (cs[i].op \in TabLoads /\ ~cs[i].late /\ \A j \in DOMAIN cs : j > i => cs[j].op \notin TabLoads)
      => cs[i].arg = w /\ (cs[i].st = "sent" \/ cs[i].ans = now \/ TabChanged(cs))

\* No load is out or will be, and no toggle that crossed another was taken.
Calm(cs) ==
  /\ ~TabLoadOut(cs) /\ ~TabChanged(cs)
  /\ \A i \in DOMAIN cs : TakenToggle(cs[i]) => ~cs[i].late

\* shown is the server's once the toggle it has taken, if any, is answered.
Due(cs, now, shown) ==
  /\ (\A i \in DOMAIN cs : ~TakenToggle(cs[i])) => shown = now
  /\ \A i \in DOMAIN cs : TakenToggle(cs[i]) => WithRule(shown, cs[i].ans) = now

TabSettles(cs, now, shown, w) == ~w /\ Calm(cs) => Due(cs, now, shown)

TabWanted == IF tab = "rules" THEN Unset ELSE historyFilter
TabNow == IF tab = "rules" THEN serverRules ELSE ServerHistory(historyFilter)
TabShown == IF tab = "rules" THEN rules ELSE [rows |-> rows, unack |-> unack]

\* Rules of the server that gave m ids.
ServerList(rs, m) ==
  /\ rs \in Seq([id : 1 .. m, on : BOOLEAN])
  /\ \A j, k \in DOMAIN rs : rs[j].id = rs[k].id => j = k

AlertsType ==
  /\ tab \in TabLoads
  /\ born \in 0 .. MaxRules /\ acked \subseteq AlertIds
  /\ ServerList(serverRules, born)
  /\ rules \in Seq(AlertRules) /\ rows \in HistoryRows /\ unack \in Nat
  /\ requests \in Seq(AlertCalls) /\ Len(requests) <= MaxAlertCalls
  /\ isLoadingTab \in BOOLEAN /\ astray \in BOOLEAN
  /\ historyFilter \in {"all", "pending"}
  /\ ruleForm \in [id : 0 .. MaxRules, on : BOOLEAN] \cup {Unset}
  /\ confirming \in RuleIds \cup {Unset}
  /\ selectedAlert \in AlertIds \cup {Unset}
  /\ ruleForm # Unset => tab = "rules"
  /\ confirming # Unset => tab = "rules"
  /\ selectedAlert # Unset => tab = "history"

AlertsIInv ==
  /\ AlertsType
  /\ \A i \in DOMAIN requests : AlertFits(requests[i], tab)
  /\ NoneCrosses(requests)
  /\ FreshTab(requests, TabWanted, TabNow)
  /\ TabSettles(requests, TabNow, TabShown, astray)

-----------------------------------------------------------------------------
(* The calls of the view: some are late, one is added, or one is over.     *)

\* ds is cs with the calls at js late.
MarkedAs(cs, js, ds) ==
  /\ ds \in Seq(AlertCalls) /\ Len(ds) = Len(cs)
  /\ DOMAIN ds = DOMAIN cs
  /\ \A j \in DOMAIN cs :
       /\ ds[j].op = cs[j].op /\ ds[j].arg = cs[j].arg /\ ds[j].st = cs[j].st
       /\ ds[j].ans = cs[j].ans
       /\ ds[j].late <=> (cs[j].late \/ j \in js)

\* ds is cs with c added.
AlertAdded(cs, c, ds) ==
  /\ ds \in Seq(AlertCalls) /\ Len(cs) \in Nat /\ Len(ds) = Len(cs) + 1
  /\ DOMAIN cs = 1 .. Len(cs) /\ DOMAIN ds = 1 .. Len(cs) + 1
  /\ \A j \in 1 .. Len(cs) : ds[j] = cs[j]
  /\ ds[Len(cs) + 1] = c

\* ds is cs without call i.
AlertGone(cs, i, ds) ==
  /\ ds \in Seq(AlertCalls) /\ Len(cs) \in Nat /\ Len(ds) = Len(cs) - 1
  /\ DOMAIN cs = 1 .. Len(cs) /\ DOMAIN ds = 1 .. Len(cs) - 1
  /\ i \in 1 .. Len(cs)
  /\ \A j \in 1 .. Len(cs) - 1 : ds[j] = cs[Place(i, j)]

LEMMA MarkedCalls ==
  ASSUME NEW cs \in Seq(AlertCalls), NEW js
  PROVE  MarkedAs(cs, js, Marked(cs, js))
<1>1. Len(cs) \in Nat /\ DOMAIN cs = 1 .. Len(cs) /\ \A j \in 1 .. Len(cs) : cs[j] \in AlertCalls
  BY LenProperties, ElementOfSeq
<1> DEFINE ms == Marked(cs, js)
<1>2. DOMAIN ms = DOMAIN cs /\ ms = [j \in 1 .. Len(cs) |-> ms[j]]
  BY <1>1 DEF Marked
<1>3. ASSUME NEW j \in DOMAIN cs
      PROVE  /\ ms[j] \in AlertCalls
             /\ ms[j].op = cs[j].op /\ ms[j].arg = cs[j].arg /\ ms[j].st = cs[j].st
             /\ ms[j].ans = cs[j].ans
             /\ ms[j].late <=> (cs[j].late \/ j \in js)
  <2>1. cs[j] \in AlertCalls
    BY <1>1
  <2>2. CASE j \in js
    <3>1. ms[j] = [cs[j] EXCEPT !.late = TRUE]
      BY <1>1, <2>2 DEF Marked
    <3> HIDE DEF ms
    <3>2. /\ ms[j].op = cs[j].op /\ ms[j].arg = cs[j].arg /\ ms[j].st = cs[j].st
          /\ ms[j].ans = cs[j].ans /\ ms[j].late = TRUE
      BY <2>1, <3>1 DEF AlertCalls
    <3>3. ms[j] \in AlertCalls
      BY <2>1, <3>1 DEF AlertCalls
    <3> QED BY <2>2, <3>2, <3>3
  <2>3. CASE j \notin js
    <3>1. ms[j] = cs[j]
      BY <1>1, <2>3 DEF Marked
    <3> QED BY <2>1, <2>3, <3>1 DEF AlertCalls
  <2> QED BY <2>2, <2>3
<1> HIDE DEF ms
<1>4. ms \in Seq(AlertCalls)
  <2>1. ms \in [1 .. Len(cs) -> AlertCalls]
    BY <1>1, <1>2, <1>3
  <2> QED BY <1>1, <2>1, SeqDef
<1>5. Len(ms) = Len(cs)
  <2>1. Len(ms) \in Nat /\ DOMAIN ms = 1 .. Len(ms)
    BY <1>4, LenProperties
  <2> QED BY <1>1, <1>2, <2>1
<1> QED BY <1>2, <1>3, <1>4, <1>5 DEF MarkedAs, ms

LEMMA AlertAppended ==
  ASSUME NEW cs \in Seq(AlertCalls), NEW c \in AlertCalls
  PROVE  AlertAdded(cs, c, Append(cs, c))
<1>1. Len(cs) \in Nat /\ DOMAIN cs = 1 .. Len(cs)
  BY LenProperties
<1>2. /\ Append(cs, c) \in Seq(AlertCalls) /\ Len(Append(cs, c)) = Len(cs) + 1
      /\ \A j \in 1 .. Len(cs) : Append(cs, c)[j] = cs[j]
      /\ Append(cs, c)[Len(cs) + 1] = c
  BY AppendProperties
<1>3. DOMAIN Append(cs, c) = 1 .. Len(cs) + 1
  <2>1. DOMAIN Append(cs, c) = 1 .. Len(Append(cs, c))
    BY <1>2, LenProperties, Zenon
  <2> QED BY <1>2, <2>1
<1> QED BY <1>1, <1>2, <1>3 DEF AlertAdded

LEMMA AlertRemoved ==
  ASSUME NEW cs \in Seq(AlertCalls), NEW i \in DOMAIN cs
  PROVE  AlertGone(cs, i, RemoveAt(cs, i))
<1>1. Len(cs) \in Nat /\ DOMAIN cs = 1 .. Len(cs)
  BY LenProperties
<1> DEFINE ds == RemoveAt(cs, i)
<1>2. /\ ds \in Seq(AlertCalls) /\ Len(ds) = Len(cs) - 1
      /\ \A j \in 1 .. Len(cs) - 1 : ds[j] = cs[IF j < i THEN j ELSE j + 1]
  BY RemoveAtKeeps
<1> HIDE DEF ds
<1>3. DOMAIN ds = 1 .. Len(cs) - 1
  BY <1>2, LenProperties
<1> QED BY <1>1, <1>2, <1>3 DEF AlertGone, Place, ds

\* The calls left are the others, in their order.
LEMMA AlertPlaces ==
  ASSUME NEW cs, NEW i, NEW ds, AlertGone(cs, i, ds)
  PROVE  /\ i \in DOMAIN cs /\ \A k \in DOMAIN cs : k \in Nat
         /\ \A j \in DOMAIN ds : j \in Nat /\ Place(i, j) \in DOMAIN cs /\ Place(i, j) # i
         /\ \A j \in DOMAIN ds : ds[j] = cs[Place(i, j)]
         /\ \A j, k \in DOMAIN ds : j < k <=> Place(i, j) < Place(i, k)
         /\ \A j, k \in DOMAIN ds : Place(i, j) = Place(i, k) => j = k
         /\ \A k \in DOMAIN cs : k # i => \E j \in DOMAIN ds : Place(i, j) = k
<1> DEFINE n == Len(cs)
<1>1. /\ n \in Nat /\ DOMAIN cs = 1 .. n /\ DOMAIN ds = 1 .. n - 1 /\ i \in 1 .. n
      /\ \A j \in DOMAIN ds : ds[j] = cs[Place(i, j)]
  BY DEF AlertGone
<1> HIDE DEF n
<1>2. \A j \in DOMAIN ds : j \in Nat /\ Place(i, j) \in DOMAIN cs /\ Place(i, j) # i
  BY <1>1 DEF Place
<1>3. /\ \A j, k \in DOMAIN ds : j < k <=> Place(i, j) < Place(i, k)
      /\ \A j, k \in DOMAIN ds : Place(i, j) = Place(i, k) => j = k
  BY <1>1 DEF Place
<1>4. ASSUME NEW k \in DOMAIN cs, k # i PROVE \E j \in DOMAIN ds : Place(i, j) = k
  <2>1. CASE k < i
    <3>1. k \in DOMAIN ds /\ Place(i, k) = k
      BY <1>1, <2>1 DEF Place
    <3> QED BY <3>1
  <2>2. CASE k > i
    <3>1. k - 1 \in DOMAIN ds /\ Place(i, k - 1) = k
      BY <1>1, <2>2 DEF Place
    <3> QED BY <3>1
  <2> QED BY <1>1, <1>4, <2>1, <2>2
<1> QED BY <1>1, <1>2, <1>3, <1>4

\* Calls that become late leave the rest as it was.
LEMMA MarkedKeeps ==
  ASSUME NEW cs, NEW js, NEW ds, MarkedAs(cs, js, ds), NEW t, NEW w, NEW now, NEW shown, NEW a,
         \A i \in DOMAIN cs : AlertFits(cs[i], t), NoneCrosses(cs), FreshTab(cs, w, now),
         TabSettles(cs, now, shown, a)
  PROVE  /\ \A i \in DOMAIN ds : AlertFits(ds[i], t)
         /\ NoneCrosses(ds) /\ FreshTab(ds, w, now) /\ TabSettles(ds, now, shown, a)
         /\ TabChanged(cs) <=> TabChanged(ds)
<1>1. /\ DOMAIN ds = DOMAIN cs
      /\ \A j \in DOMAIN cs : /\ ds[j].op = cs[j].op /\ ds[j].arg = cs[j].arg
                              /\ ds[j].st = cs[j].st /\ ds[j].ans = cs[j].ans
                              /\ cs[j].late => ds[j].late
  BY DEF MarkedAs
<1>2. \A i \in DOMAIN ds : AlertFits(ds[i], t)
  BY <1>1 DEF AlertFits
<1>3. NoneCrosses(ds)
  BY <1>1 DEF NoneCrosses
<1>4. TabChanged(cs) <=> TabChanged(ds)
  BY <1>1 DEF TabChanged, FollowedChange
<1>5. FreshTab(ds, w, now)
  <2> SUFFICES ASSUME NEW i \in DOMAIN ds, ds[i].op \in TabLoads, ~ds[i].late,
                      \A j \in DOMAIN ds : j > i => ds[j].op \notin TabLoads
               PROVE  ds[i].arg = w /\ (ds[i].st = "sent" \/ ds[i].ans = now \/ TabChanged(ds))
    BY DEF FreshTab
  <2>1. cs[i].op \in TabLoads /\ ~cs[i].late /\ \A j \in DOMAIN cs : j > i => cs[j].op \notin TabLoads
    BY <1>1
  <2>2. cs[i].arg = w /\ (cs[i].st = "sent" \/ cs[i].ans = now \/ TabChanged(cs))
    BY <1>1, <2>1 DEF FreshTab
  <2> QED BY <1>1, <1>4, <2>2
<1>6. TabSettles(ds, now, shown, a)
  <2>1. Calm(ds) => Calm(cs)
    BY <1>1, <1>4 DEF Calm, TabLoadOut, TakenToggle
  <2>2. \A i \in DOMAIN ds : i \in DOMAIN cs /\ (TakenToggle(ds[i]) <=> TakenToggle(cs[i]))
    BY <1>1 DEF TakenToggle
  <2>3. Due(cs, now, shown) => Due(ds, now, shown)
    BY <1>1, <2>2 DEF Due
  <2> QED BY <2>1, <2>3 DEF TabSettles
<1> QED BY <1>2, <1>3, <1>4, <1>5, <1>6

\* A call that goes out, and is late if it crosses what is out.
LEMMA AddedKeeps ==
  ASSUME NEW cs, NEW c, c.st = "sent", NEW ds, AlertAdded(cs, c, ds), NEW t,
         \A i \in DOMAIN cs : AlertFits(cs[i], t), AlertFits(c, t), NoneCrosses(cs),
         c.op \in {"rules", "toggle"} /\ ~c.late => ~ToggleOut(cs),
         c.op = "toggle" => \A i \in DOMAIN cs : cs[i].op \in {"rules", "toggle"} => cs[i].late
  PROVE  (\A i \in DOMAIN ds : AlertFits(ds[i], t)) /\ NoneCrosses(ds)
<1> DEFINE n == Len(cs)
<1>1. /\ n \in Nat /\ DOMAIN cs = 1 .. n /\ DOMAIN ds = 1 .. n + 1
      /\ \A j \in 1 .. n : ds[j] = cs[j]
      /\ ds[n + 1] = c
  BY DEF AlertAdded
<1> HIDE DEF n
<1>2. \A j \in 1 .. n + 1 : (j \in 1 .. n /\ ds[j] = cs[j]) \/ (j = n + 1 /\ ds[j] = c)
  BY <1>1
<1>3. \A i \in DOMAIN ds : AlertFits(ds[i], t)
  BY <1>1, <1>2
<1>4. ASSUME NEW i \in DOMAIN ds, NEW j \in DOMAIN ds, i # j, ds[j].op = "toggle",
             ds[i].op \in {"rules", "toggle"}
      PROVE  ds[i].late
  <2>1. CASE i \in 1 .. n /\ j \in 1 .. n
    BY <1>1, <1>4, <2>1 DEF NoneCrosses
  <2>2. CASE i \in 1 .. n /\ j = n + 1
    BY <1>1, <1>4, <2>2
  <2>3. CASE i = n + 1 /\ j \in 1 .. n
    BY <1>1, <1>4, <2>3 DEF ToggleOut
  <2> QED BY <1>1, <1>4, <2>1, <2>2, <2>3
<1>5. NoneCrosses(ds)
  BY <1>4 DEF NoneCrosses
<1> QED BY <1>3, <1>5

\* A load that goes out is the youngest.
LEMMA LoadGoesOut ==
  ASSUME NEW cs, NEW c, c.st = "sent", NEW ds, AlertAdded(cs, c, ds), c.op \in TabLoads,
         NEW now, NEW shown, NEW a
  PROVE  FreshTab(ds, c.arg, now) /\ TabSettles(ds, now, shown, a)
<1> DEFINE n == Len(cs)
<1>1. /\ n \in Nat /\ DOMAIN ds = 1 .. n + 1 /\ ds[n + 1] = c
  BY DEF AlertAdded
<1> HIDE DEF n
<1>2. n + 1 \in DOMAIN ds /\ \A j \in DOMAIN ds : j = n + 1 \/ n + 1 > j
  BY <1>1
<1>3. FreshTab(ds, c.arg, now)
  BY <1>1, <1>2 DEF FreshTab
<1>4. TabLoadOut(ds)
  BY <1>1, <1>2 DEF TabLoadOut
<1> QED BY <1>3, <1>4 DEF TabSettles, Calm

\* Another call that goes out leaves the loads and the list.
LEMMA ChangeGoesOut ==
  ASSUME NEW cs, NEW c, c.st = "sent", NEW ds, AlertAdded(cs, c, ds), c.op \notin TabLoads,
         NEW w, NEW now, NEW shown, NEW a, FreshTab(cs, w, now), TabSettles(cs, now, shown, a)
  PROVE  FreshTab(ds, w, now) /\ TabSettles(ds, now, shown, a)
<1> DEFINE n == Len(cs)
<1>1. /\ n \in Nat /\ DOMAIN cs = 1 .. n /\ DOMAIN ds = 1 .. n + 1
      /\ \A j \in 1 .. n : ds[j] = cs[j]
      /\ ds[n + 1] = c
  BY DEF AlertAdded
<1> HIDE DEF n
<1>2. \A j \in DOMAIN ds : (j \in DOMAIN cs /\ ds[j] = cs[j]) \/ (j = n + 1 /\ ds[j] = c)
  BY <1>1
<1>3. \A j \in DOMAIN cs : j \in DOMAIN ds /\ ds[j] = cs[j]
  BY <1>1
<1>4. TabChanged(ds) <=> TabChanged(cs)
  BY <1>2, <1>3 DEF TabChanged, FollowedChange
<1>5. FreshTab(ds, w, now)
  <2> SUFFICES ASSUME NEW i \in DOMAIN ds, ds[i].op \in TabLoads, ~ds[i].late,
                      \A j \in DOMAIN ds : j > i => ds[j].op \notin TabLoads
               PROVE  ds[i].arg = w /\ (ds[i].st = "sent" \/ ds[i].ans = now \/ TabChanged(ds))
    BY DEF FreshTab
  <2>1. i \in DOMAIN cs /\ ds[i] = cs[i]
    BY <1>2
  <2>2. \A j \in DOMAIN cs : j > i => cs[j].op \notin TabLoads
    BY <1>3
  <2>3. cs[i].arg = w /\ (cs[i].st = "sent" \/ cs[i].ans = now \/ TabChanged(cs))
    BY <2>1, <2>2 DEF FreshTab
  <2> QED BY <1>4, <2>1, <2>3
<1>6. TabSettles(ds, now, shown, a)
  <2>1. TabLoadOut(cs) => TabLoadOut(ds)
    BY <1>3 DEF TabLoadOut
  <2>2. \A j \in DOMAIN ds : TakenToggle(ds[j]) => j \in DOMAIN cs /\ ds[j] = cs[j]
    BY <1>2 DEF TakenToggle
  <2>3. Calm(ds) => Calm(cs)
    BY <1>3, <1>4, <2>1 DEF Calm
  <2>4. Due(cs, now, shown) => Due(ds, now, shown)
    BY <1>3, <2>2 DEF Due
  <2> QED BY <2>3, <2>4 DEF TabSettles
<1> QED BY <1>5, <1>6

\* What a call that is over leaves as it was.
LEMMA GoneKeeps ==
  ASSUME NEW cs, NEW i, NEW ds, AlertGone(cs, i, ds), NEW t,
         \A k \in DOMAIN cs : AlertFits(cs[k], t), NoneCrosses(cs)
  PROVE  (\A j \in DOMAIN ds : AlertFits(ds[j], t)) /\ NoneCrosses(ds)
<1>1. /\ \A j \in DOMAIN ds : Place(i, j) \in DOMAIN cs /\ ds[j] = cs[Place(i, j)]
      /\ \A j, k \in DOMAIN ds : Place(i, j) = Place(i, k) => j = k
  BY AlertPlaces
<1> HIDE DEF Place
<1> QED BY <1>1 DEF NoneCrosses

\* The loads are as fresh when a load is over that made the older ones late,
\* a call that no load follows, or any call if all loads are late.
LEMMA GoneFresh ==
  ASSUME NEW cs, NEW i, NEW ds, AlertGone(cs, i, ds), NEW w, NEW now, FreshTab(cs, w, now),
         \/ /\ cs[i].op \in TabLoads
            /\ \A j \in DOMAIN cs : j < i /\ cs[j].op \in TabLoads => cs[j].late
         \/ cs[i].op \notin TabLoads /\ ~FollowedChange(cs[i])
         \/ \A j \in DOMAIN cs : j # i /\ cs[j].op \in TabLoads => cs[j].late
  PROVE  FreshTab(ds, w, now)
<1>1. /\ i \in DOMAIN cs /\ \A k \in DOMAIN cs : k \in Nat
      /\ \A j \in DOMAIN ds : Place(i, j) \in DOMAIN cs /\ Place(i, j) # i
      /\ \A j \in DOMAIN ds : ds[j] = cs[Place(i, j)]
      /\ \A j, k \in DOMAIN ds : j < k <=> Place(i, j) < Place(i, k)
      /\ \A k \in DOMAIN cs : k # i => \E j \in DOMAIN ds : Place(i, j) = k
      /\ \A j \in DOMAIN ds : j \in Nat
  BY AlertPlaces
<1> HIDE DEF Place
<1> SUFFICES ASSUME NEW j \in DOMAIN ds, ds[j].op \in TabLoads, ~ds[j].late,
                    \A k \in DOMAIN ds : k > j => ds[k].op \notin TabLoads
             PROVE  ds[j].arg = w /\ (ds[j].st = "sent" \/ ds[j].ans = now \/ TabChanged(ds))
  BY DEF FreshTab
<1>2. PICK p \in DOMAIN cs : p = Place(i, j) /\ p # i /\ ds[j] = cs[p]
  BY <1>1
<1>3. ~FollowedChange(cs[i])
  BY <1>2 DEF FollowedChange, TabLoads
<1>4. TabChanged(cs) => TabChanged(ds)
  <2> SUFFICES ASSUME NEW k \in DOMAIN cs, FollowedChange(cs[k]) PROVE TabChanged(ds)
    BY DEF TabChanged
  <2>1. k # i
    BY <1>3
  <2>2. PICK l \in DOMAIN ds : Place(i, l) = k
    BY <1>1, <2>1
  <2> QED BY <1>1, <2>2 DEF TabChanged
<1>5. ASSUME NEW k \in DOMAIN cs, k > p PROVE cs[k].op \notin TabLoads
  <2>1. CASE k = i
    BY <1>1, <1>2, <1>5, <2>1
  <2>2. CASE k # i
    <3>1. PICK l \in DOMAIN ds : Place(i, l) = k
      BY <1>1, <2>2
    <3>2. Place(i, j) < Place(i, l)
      BY <1>1, <1>2, <1>5, <3>1
    <3>3. l > j
      BY <1>1, <3>2
    <3> QED BY <1>1, <3>1, <3>3
  <2> QED BY <2>1, <2>2
<1>6. cs[p].arg = w /\ (cs[p].st = "sent" \/ cs[p].ans = now \/ TabChanged(cs))
  BY <1>2, <1>5 DEF FreshTab
<1> QED BY <1>2, <1>4, <1>6

\* A call that is neither a load nor a change that was taken leaves the list.
LEMMA GoneSettles ==
  ASSUME NEW cs, NEW i, NEW ds, AlertGone(cs, i, ds), NEW now, NEW shown, NEW a,
         TabSettles(cs, now, shown, a), cs[i].op \notin TabLoads,
         ~FollowedChange(cs[i]), ~TakenToggle(cs[i])
  PROVE  TabSettles(ds, now, shown, a)
<1>1. /\ i \in DOMAIN cs
      /\ \A j \in DOMAIN ds : Place(i, j) \in DOMAIN cs /\ ds[j] = cs[Place(i, j)]
      /\ \A k \in DOMAIN cs : k # i => \E j \in DOMAIN ds : Place(i, j) = k
  BY AlertPlaces
<1> HIDE DEF Place
<1>2. \A k \in DOMAIN cs : k = i \/ \E j \in DOMAIN ds : ds[j] = cs[k]
  BY <1>1
<1>3. \A j \in DOMAIN ds : \E k \in DOMAIN cs : ds[j] = cs[k]
  BY <1>1
<1>5. Calm(ds) => Calm(cs)
  BY <1>2 DEF Calm, TabLoadOut, TabChanged
<1>6. Due(cs, now, shown) => Due(ds, now, shown)
  BY <1>2, <1>3 DEF Due
<1> QED BY <1>5, <1>6 DEF TabSettles

\* The answer of a load: on time, and the last one out, it is the server's.
LEMMA LoadSettled ==
  ASSUME NEW cs, NEW i \in DOMAIN cs, NEW js, NEW ms, MarkedAs(cs, js, ms), NEW ds,
         AlertGone(ms, i, ds), NEW t \in TabLoads, \A k \in DOMAIN cs : AlertFits(cs[k], t),
         NoneCrosses(cs), NEW w, NEW now, FreshTab(cs, w, now),
         cs[i].op \in TabLoads, cs[i].st = "served"
  PROVE  TabSettles(ds, now, cs[i].ans, cs[i].late)
<1>1. /\ \A j \in DOMAIN ds : Place(i, j) \in DOMAIN ms /\ ds[j] = ms[Place(i, j)]
      /\ \A k \in DOMAIN ms : k # i => \E j \in DOMAIN ds : Place(i, j) = k
      /\ \A k \in DOMAIN ms : k \in Nat
  BY AlertPlaces
<1>2. /\ DOMAIN ms = DOMAIN cs
      /\ \A j \in DOMAIN cs : ms[j].op = cs[j].op /\ ms[j].st = cs[j].st
  BY DEF MarkedAs
<1> HIDE DEF Place
<1>3. \A k \in DOMAIN cs : k # i => \E j \in DOMAIN ds : ds[j].op = cs[k].op /\ ds[j].st = cs[k].st
  BY <1>1, <1>2
<1>4. \A j \in DOMAIN ds : \E k \in DOMAIN cs : ds[j].op = cs[k].op
  BY <1>1, <1>2
<1> SUFFICES ASSUME ~cs[i].late, Calm(ds) PROVE Due(ds, now, cs[i].ans)
  BY DEF TabSettles
<1>5. \A k \in DOMAIN cs : k # i => cs[k].op \notin TabLoads /\ ~FollowedChange(cs[k])
  BY <1>3 DEF Calm, TabLoadOut, TabChanged, FollowedChange
<1>6. ~FollowedChange(cs[i])
  BY DEF FollowedChange, TabLoads
<1>7. ~TabChanged(cs)
  BY <1>5, <1>6 DEF TabChanged
<1>8. \A k \in DOMAIN cs : k > i => cs[k].op \notin TabLoads
  BY <1>1, <1>2, <1>5
<1>9. cs[i].ans = now
  BY <1>7, <1>8 DEF FreshTab
<1>10. \A k \in DOMAIN cs : cs[k].op # "toggle"
  BY DEF NoneCrosses, AlertFits, TabLoads
<1>11. \A j \in DOMAIN ds : ~TakenToggle(ds[j])
  BY <1>4, <1>10 DEF TakenToggle
<1> QED BY <1>9, <1>11 DEF Due

\* The answer of a toggle that crossed no other: what is shown is then the
\* server's.
LEMMA ToggleSettled ==
  ASSUME NEW cs, NEW i, NEW ds, AlertGone(cs, i, ds), NoneCrosses(cs), NEW now, NEW shown, NEW a,
         TabSettles(cs, now, shown, a), TakenToggle(cs[i]), ~a, ~cs[i].late, Calm(ds)
  PROVE  Due(ds, now, now) /\ WithRule(shown, cs[i].ans) = now
<1>1. /\ i \in DOMAIN cs
      /\ \A j \in DOMAIN ds : Place(i, j) \in DOMAIN cs /\ Place(i, j) # i /\ ds[j] = cs[Place(i, j)]
      /\ \A k \in DOMAIN cs : k # i => \E j \in DOMAIN ds : Place(i, j) = k
  BY AlertPlaces
<1> HIDE DEF Place
<1>2. \A k \in DOMAIN cs : k = i \/ \E j \in DOMAIN ds : ds[j] = cs[k]
  BY <1>1
<1>3. \A j \in DOMAIN ds : \E k \in DOMAIN cs : k # i /\ ds[j] = cs[k]
  BY <1>1
<1>4. \A k \in DOMAIN cs : k # i => cs[k].op # "toggle"
  BY <1>1 DEF NoneCrosses, TakenToggle
<1>5. cs[i].op = "toggle" /\ ~FollowedChange(cs[i]) /\ cs[i].op \notin TabLoads
  BY DEF TakenToggle, FollowedChange, TabLoads
<1>6. Calm(cs)
  BY <1>2, <1>4, <1>5 DEF Calm, TabLoadOut, TabChanged, TakenToggle
<1>7. WithRule(shown, cs[i].ans) = now
  BY <1>1, <1>6 DEF TabSettles, Due
<1>8. \A j \in DOMAIN ds : ~TakenToggle(ds[j])
  BY <1>3, <1>4 DEF TakenToggle
<1> HIDE DEF WithRule
<1> QED BY <1>7, <1>8 DEF Due

-----------------------------------------------------------------------------
(* The server takes a call.                                                *)

\* ds is cs with call i taken and answered with ans.
AlertTaken(cs, i, ans, ds) ==
  /\ ds \in Seq(AlertCalls) /\ Len(ds) = Len(cs)
  /\ DOMAIN ds = DOMAIN cs /\ i \in DOMAIN cs
  /\ \A j \in DOMAIN cs : j # i => ds[j] = cs[j]
  /\ ds[i].op = cs[i].op /\ ds[i].arg = cs[i].arg /\ ds[i].late = cs[i].late
  /\ ds[i].st = "served" /\ ds[i].ans = ans

LEMMA TakenCalls ==
  ASSUME NEW cs \in Seq(AlertCalls), NEW i \in DOMAIN cs, NEW ans \in AlertAnswers
  PROVE  AlertTaken(cs, i, ans, [cs EXCEPT ![i].st = "served", ![i].ans = ans])
<1> DEFINE ds == [cs EXCEPT ![i].st = "served", ![i].ans = ans]
<1>1. Len(cs) \in Nat /\ DOMAIN cs = 1 .. Len(cs) /\ \A j \in 1 .. Len(cs) : cs[j] \in AlertCalls
  BY LenProperties, ElementOfSeq
<1>2. ds[i] = [cs[i] EXCEPT !.st = "served", !.ans = ans]
  BY <1>1
<1>3. /\ DOMAIN ds = DOMAIN cs /\ ds = [j \in 1 .. Len(cs) |-> ds[j]]
      /\ \A j \in DOMAIN cs : j # i => ds[j] = cs[j]
  BY <1>1
<1> HIDE DEF ds
<1>4. cs[i] \in AlertCalls
  BY <1>1
<1>5. /\ ds[i].op = cs[i].op /\ ds[i].arg = cs[i].arg /\ ds[i].late = cs[i].late
      /\ ds[i].st = "served" /\ ds[i].ans = ans
  BY <1>2, <1>4 DEF AlertCalls
<1>6. ds[i] \in AlertCalls
  BY <1>2, <1>4 DEF AlertCalls
<1>7. ds \in Seq(AlertCalls)
  <2>1. ds \in [1 .. Len(cs) -> AlertCalls]
    BY <1>1, <1>3, <1>6
  <2> QED BY <1>1, <2>1, SeqDef
<1>8. Len(ds) = Len(cs)
  <2>1. Len(ds) \in Nat /\ DOMAIN ds = 1 .. Len(ds)
    BY <1>7, LenProperties
  <2> QED BY <1>1, <1>3, <2>1
<1> QED BY <1>3, <1>5, <1>7, <1>8 DEF AlertTaken, ds

LEMMA TakenKeeps ==
  ASSUME NEW cs, NEW i, NEW ans, NEW ds, AlertTaken(cs, i, ans, ds), NEW t,
         \A k \in DOMAIN cs : AlertFits(cs[k], t), NoneCrosses(cs),
         cs[i].op = "rules" => ans \in Seq(AlertRules),
         cs[i].op \in {"history", "other"} => ans \in Histories,
         cs[i].op \in {"create", "update", "toggle"} => ans \in AlertRules
  PROVE  (\A k \in DOMAIN ds : AlertFits(ds[k], t)) /\ NoneCrosses(ds)
<1>1. /\ DOMAIN ds = DOMAIN cs /\ i \in DOMAIN cs
      /\ \A j \in DOMAIN cs : j # i => ds[j] = cs[j]
      /\ ds[i].op = cs[i].op /\ ds[i].arg = cs[i].arg /\ ds[i].late = cs[i].late
      /\ ds[i].st = "served" /\ ds[i].ans = ans
  BY DEF AlertTaken
<1>2. AlertFits(ds[i], t)
  <2>1. AlertFits(cs[i], t)
    BY <1>1
  <2> QED BY <1>1, <2>1 DEF AlertFits
<1>3. \A k \in DOMAIN ds : AlertFits(ds[k], t)
  BY <1>1, <1>2
<1>4. NoneCrosses(ds)
  BY <1>1 DEF NoneCrosses
<1> QED BY <1>3, <1>4

\* A load is taken: its answer is the server's if it asks for what is wanted.
LEMMA LoadTaken ==
  ASSUME NEW cs, NEW i, NEW ans, NEW ds, AlertTaken(cs, i, ans, ds), cs[i].op \in TabLoads,
         NEW w, NEW now, NEW shown, NEW a, FreshTab(cs, w, now), cs[i].arg = w => ans = now
  PROVE  FreshTab(ds, w, now) /\ TabSettles(ds, now, shown, a)
<1>1. /\ DOMAIN ds = DOMAIN cs /\ i \in DOMAIN cs
      /\ \A j \in DOMAIN cs : j # i => ds[j] = cs[j]
      /\ ds[i].op = cs[i].op /\ ds[i].arg = cs[i].arg /\ ds[i].late = cs[i].late
      /\ ds[i].st = "served" /\ ds[i].ans = ans
  BY DEF AlertTaken
<1>2. \A j \in DOMAIN ds : /\ ds[j].op = cs[j].op /\ ds[j].arg = cs[j].arg /\ ds[j].late = cs[j].late
                           /\ j = i \/ ds[j] = cs[j]
  BY <1>1
<1>3. TabChanged(cs) => TabChanged(ds)
  BY <1>1, <1>2 DEF TabChanged, FollowedChange, TabLoads
<1>4. FreshTab(ds, w, now)
  <2> SUFFICES ASSUME NEW k \in DOMAIN ds, ds[k].op \in TabLoads, ~ds[k].late,
                      \A j \in DOMAIN ds : j > k => ds[j].op \notin TabLoads
               PROVE  ds[k].arg = w /\ (ds[k].st = "sent" \/ ds[k].ans = now \/ TabChanged(ds))
    BY DEF FreshTab
  <2>1. cs[k].op \in TabLoads /\ ~cs[k].late /\ \A j \in DOMAIN cs : j > k => cs[j].op \notin TabLoads
    BY <1>1, <1>2
  <2>2. cs[k].arg = w /\ (cs[k].st = "sent" \/ cs[k].ans = now \/ TabChanged(cs))
    BY <1>1, <2>1 DEF FreshTab
  <2> QED BY <1>1, <1>2, <1>3, <2>2
<1>5. TabLoadOut(ds)
  BY <1>1 DEF TabLoadOut
<1> QED BY <1>4, <1>5 DEF TabSettles, Calm

\* A change is taken: a load will follow it.
LEMMA ChangeTaken ==
  ASSUME NEW cs, NEW i, NEW ans, NEW ds, AlertTaken(cs, i, ans, ds),
         cs[i].op \in {"create", "update", "delete", "ack"},
         NEW w, NEW now, NEW now2, NEW shown, NEW a, FreshTab(cs, w, now)
  PROVE  FreshTab(ds, w, now2) /\ TabSettles(ds, now2, shown, a)
<1>1. /\ DOMAIN ds = DOMAIN cs /\ i \in DOMAIN cs
      /\ \A j \in DOMAIN cs : j # i => ds[j] = cs[j]
      /\ ds[i].op = cs[i].op /\ ds[i].arg = cs[i].arg /\ ds[i].late = cs[i].late
      /\ ds[i].st = "served"
  BY DEF AlertTaken
<1>2. \A j \in DOMAIN ds : /\ ds[j].op = cs[j].op /\ ds[j].arg = cs[j].arg /\ ds[j].late = cs[j].late
  BY <1>1
<1>3. TabChanged(ds)
  BY <1>1 DEF TabChanged, FollowedChange
<1>4. FreshTab(ds, w, now2)
  BY <1>1, <1>2, <1>3 DEF FreshTab
<1> QED BY <1>3, <1>4 DEF TabSettles, Calm

\* A load for another mount is taken: nothing else changes.
LEMMA OtherTaken ==
  ASSUME NEW cs, NEW i, NEW ans, NEW ds, AlertTaken(cs, i, ans, ds), cs[i].op = "other",
         NEW w, NEW now, NEW shown, NEW a, FreshTab(cs, w, now), TabSettles(cs, now, shown, a)
  PROVE  FreshTab(ds, w, now) /\ TabSettles(ds, now, shown, a)
<1>1. /\ DOMAIN ds = DOMAIN cs /\ i \in DOMAIN cs
      /\ \A j \in DOMAIN cs : j # i => ds[j] = cs[j]
      /\ ds[i].op = "other"
  BY DEF AlertTaken
<1>2. \A j \in DOMAIN ds : ds[j].op = cs[j].op /\ (ds[j] = cs[j] \/ cs[j].op = "other")
  BY <1>1
<1>3. TabChanged(ds) <=> TabChanged(cs)
  BY <1>1, <1>2 DEF TabChanged, FollowedChange
<1>4. FreshTab(ds, w, now)
  <2> SUFFICES ASSUME NEW k \in DOMAIN ds, ds[k].op \in TabLoads, ~ds[k].late,
                      \A j \in DOMAIN ds : j > k => ds[j].op \notin TabLoads
               PROVE  ds[k].arg = w /\ (ds[k].st = "sent" \/ ds[k].ans = now \/ TabChanged(ds))
    BY DEF FreshTab
  <2>1. ds[k] = cs[k] /\ \A j \in DOMAIN cs : j > k => cs[j].op \notin TabLoads
    BY <1>1, <1>2 DEF TabLoads
  <2> QED BY <1>1, <1>3, <2>1 DEF FreshTab
<1>5. TabSettles(ds, now, shown, a)
  <2>1. \A k \in DOMAIN cs : (TakenToggle(cs[k]) <=> TakenToggle(ds[k])) /\ (TakenToggle(cs[k]) => ds[k] = cs[k])
    BY <1>1, <1>2 DEF TakenToggle
  <2>2. Calm(ds) => Calm(cs)
    BY <1>1, <1>2, <1>3, <2>1 DEF Calm, TabLoadOut
  <2>3. Due(cs, now, shown) => Due(ds, now, shown)
    BY <1>1, <2>1 DEF Due
  <2> QED BY <2>2, <2>3 DEF TabSettles
<1> QED BY <1>4, <1>5

\* A toggle is taken: no load that is on time is out, and the list will show
\* it when it is answered.
LEMMA ToggleTaken ==
  ASSUME NEW cs, NEW i, NEW ans, NEW ds, AlertTaken(cs, i, ans, ds),
         cs[i].op = "toggle", \A k \in DOMAIN cs : AlertFits(cs[k], "rules"), NoneCrosses(cs),
         cs[i].st = "sent", NEW w, NEW now, NEW now2, NEW shown, NEW a,
         TabSettles(cs, now, shown, a), WithRule(now, ans) = now2
  PROVE  FreshTab(ds, w, now2) /\ TabSettles(ds, now2, shown, a)
<1>1. /\ DOMAIN ds = DOMAIN cs /\ i \in DOMAIN cs
      /\ \A j \in DOMAIN cs : j # i => ds[j] = cs[j]
      /\ ds[i].op = cs[i].op /\ ds[i].late = cs[i].late
      /\ ds[i].st = "served" /\ ds[i].ans = ans
  BY DEF AlertTaken
<1> HIDE DEF WithRule
<1>2. ASSUME NEW k \in DOMAIN ds, ds[k].op \in TabLoads PROVE ds[k].late
  <2>1. k # i /\ ds[k] = cs[k] /\ cs[k].op = "rules"
    BY <1>1, <1>2 DEF TabLoads, AlertFits
  <2> QED BY <1>1, <2>1 DEF NoneCrosses
<1>3. FreshTab(ds, w, now2)
  BY <1>2 DEF FreshTab
<1>4. ASSUME ~a, Calm(ds) PROVE Due(ds, now2, shown)
  <2>1. ~cs[i].late
    BY <1>1, <1>4 DEF Calm, TakenToggle
  <2>2. \A k \in DOMAIN cs : k # i => cs[k].op # "toggle"
    BY <1>1, <2>1 DEF NoneCrosses
  <2>3. \A k \in DOMAIN cs : ~TakenToggle(cs[k])
    BY <2>2 DEF TakenToggle
  <2>4. Calm(cs)
    <3>1. \A k \in DOMAIN cs : cs[k].op = ds[k].op /\ (cs[k] = ds[k] \/ cs[k].op = "toggle")
      BY <1>1
    <3> QED BY <1>1, <1>4, <2>3, <3>1 DEF Calm, TabLoadOut, TabChanged, FollowedChange
  <2>5. shown = now
    BY <1>4, <2>3, <2>4 DEF TabSettles, Due
  <2>6. \A k \in DOMAIN ds : TakenToggle(ds[k]) => k = i
    BY <1>1, <2>2 DEF TakenToggle
  <2>7. TakenToggle(ds[i])
    BY <1>1 DEF TakenToggle
  <2> QED BY <1>1, <2>5, <2>6, <2>7 DEF Due
<1> QED BY <1>3, <1>4 DEF TabSettles

-----------------------------------------------------------------------------
(* Lists of rules.                                                         *)

\* The first row of an id that no other row has is that row.
LEMMA RuleFound ==
  ASSUME NEW rs, NEW r, NEW k \in DOMAIN rs, rs[k].id = r.id,
         \A j, l \in DOMAIN rs : rs[j].id = rs[l].id => j = l, rs = [j \in DOMAIN rs |-> rs[j]],
         \A j \in DOMAIN rs : j \in Nat
  PROVE  WithRule(rs, r) = [rs EXCEPT ![k] = r]
<1> DEFINE same == {j \in DOMAIN rs : rs[j].id = r.id}
<1>1. same = {k}
  BY Zenon
<1>2. \A j \in DOMAIN rs : (j \in same /\ \A l \in same : j <= l) <=> j = k
  BY <1>1
<1> HIDE DEF same
<1>3. WithRule(rs, r) = [j \in DOMAIN rs |-> IF j \in same /\ \A l \in same : j <= l THEN r ELSE rs[j]]
  BY DEF WithRule, same
<1>4. [rs EXCEPT ![k] = r] = [j \in DOMAIN rs |-> IF j = k THEN r ELSE rs[j]]
  OBVIOUS
<1> QED BY <1>2, <1>3, <1>4

LEMMA WithRuleType ==
  ASSUME NEW rs \in Seq(AlertRules), NEW r \in AlertRules
  PROVE  WithRule(rs, r) \in Seq(AlertRules)
<1>1. Len(rs) \in Nat /\ DOMAIN rs = 1 .. Len(rs) /\ \A j \in 1 .. Len(rs) : rs[j] \in AlertRules
  BY LenProperties, ElementOfSeq
<1>2. WithRule(rs, r) \in [1 .. Len(rs) -> AlertRules]
  BY <1>1 DEF WithRule
<1> QED BY <1>1, <1>2, SeqDef

\* Flipping the second of two rows keeps a list of rules.
LEMMA SecondFlipped ==
  ASSUME NEW rs \in Seq(AlertRules), NEW k \in DOMAIN rs
  PROVE  [rs EXCEPT ![k].on = ~@] \in Seq(AlertRules)
<1>1. Len(rs) \in Nat /\ DOMAIN rs = 1 .. Len(rs) /\ \A j \in 1 .. Len(rs) : rs[j] \in AlertRules
  BY LenProperties, ElementOfSeq
<1>2. [rs[k] EXCEPT !.on = ~@] \in AlertRules
  BY <1>1 DEF AlertRules
<1>3. [rs EXCEPT ![k].on = ~@] \in [1 .. Len(rs) -> AlertRules]
  BY <1>1, <1>2, SeqDef
<1> QED BY <1>1, <1>3, SeqDef

\* A list that is the server's once a rule is replaced has no rule twice.
LEMMA NoSecondRow ==
  ASSUME NEW rs \in Seq(AlertRules), NEW r, NEW m, ServerList(WithRule(rs, r), m),
         NEW j \in DOMAIN rs, NEW k \in DOMAIN rs, j < k, rs[j].id = r.id, rs[k].id = r.id
  PROVE  FALSE
<1>1. PICK ss : ss = WithRule(rs, r)
  OBVIOUS
<1>2. DOMAIN ss = DOMAIN rs /\ \A l \in DOMAIN rs : ss[l] = r \/ ss[l] = rs[l]
  BY <1>1 DEF WithRule
<1>3. ss[j].id = r.id /\ ss[k].id = r.id
  BY <1>2
<1>4. \A l, n \in DOMAIN ss : ss[l].id = ss[n].id => l = n
  BY <1>1 DEF ServerList
<1>5. j \in Nat /\ k \in Nat
  BY LenProperties
<1> QED BY <1>2, <1>3, <1>4, <1>5

\* Rows of a list, at places in it.
LEMMA RowsOfList ==
  ASSUME NEW rs \in Seq(AlertRules), NEW kept, kept \subseteq DOMAIN rs,
         NEW at \in [1 .. Cardinality(kept) -> kept]
  PROVE  [k \in DOMAIN at |-> rs[at[k]]] \in Seq(AlertRules)
<1>1. Len(rs) \in Nat /\ DOMAIN rs = 1 .. Len(rs) /\ \A j \in 1 .. Len(rs) : rs[j] \in AlertRules
  BY LenProperties, ElementOfSeq
<1>2. Cardinality(kept) \in Nat
  <2>1. IsFiniteSet(1 .. Len(rs))
    BY <1>1, FS_Interval
  <2>2. IsFiniteSet(kept)
    BY <1>1, <2>1, FS_Subset
  <2> QED BY <2>2, FS_CardinalityType
<1> DEFINE n == Cardinality(kept)
<1> HIDE DEF n
<1>3. n \in Nat /\ at \in [1 .. n -> kept]
  BY <1>2 DEF n
<1>4. DOMAIN at = 1 .. n /\ \A k \in 1 .. n : at[k] \in DOMAIN rs
  BY <1>3
<1>5. \A k \in 1 .. n : rs[at[k]] \in AlertRules
  BY <1>1, <1>4
<1>6. PICK f : f = [k \in DOMAIN at |-> rs[at[k]]]
  OBVIOUS
<1>7. f \in [1 .. n -> AlertRules]
  BY ONLY <1>4, <1>5, <1>6
<1>8. f \in Seq(AlertRules)
  BY ONLY <1>3, <1>7, SeqDef
<1> QED BY <1>6, <1>8

\* The rules of the server: one is changed, made or deleted.
LEMMA RuleSet ==
  ASSUME NEW m \in Nat, NEW rs, ServerList(rs, m), NEW k \in DOMAIN rs, NEW r \in AlertRules,
         rs[k].id = r.id, NEW ss, ss = [rs EXCEPT ![k] = r]
  PROVE  ServerList(ss, m) /\ WithRule(rs, r) = ss
<1> DEFINE R == [id : 1 .. m, on : BOOLEAN]
<1>1. rs \in Seq(R) /\ \A j, l \in DOMAIN rs : rs[j].id = rs[l].id => j = l
  BY DEF ServerList
<1>2. Len(rs) \in Nat /\ DOMAIN rs = 1 .. Len(rs) /\ \A j \in 1 .. Len(rs) : rs[j] \in R
  <2> HIDE DEF R
  <2> QED BY <1>1, LenProperties, ElementOfSeq
<1>3. rs = [j \in DOMAIN rs |-> rs[j]]
  <2> HIDE DEF R
  <2> QED BY <1>1, SeqDef
<1>4. r \in R
  <2>1. rs[k] \in R
    BY <1>2
  <2> QED BY <2>1 DEF AlertRules
<1>5. DOMAIN ss = DOMAIN rs /\ ss = [j \in 1 .. Len(rs) |-> ss[j]] /\ ss[k] = r
      /\ \A j \in DOMAIN rs : j # k => ss[j] = rs[j]
  BY <1>2
<1> HIDE DEF R
<1>6. ss \in Seq(R)
  <2>1. ss \in [1 .. Len(rs) -> R]
    BY <1>2, <1>4, <1>5
  <2> QED BY <1>2, <2>1, SeqDef
<1>7. \A j \in DOMAIN rs : ss[j].id = rs[j].id
  BY <1>4, <1>5
<1>8. WithRule(rs, r) = ss
  <2>1. rs[k].id = r.id /\ \A j \in DOMAIN rs : j \in Nat
    BY <1>2, <1>4
  <2>2. ss = [rs EXCEPT ![k] = r] /\ k \in DOMAIN rs
    OBVIOUS
  <2> QED BY ONLY <1>1, <1>3, <2>1, <2>2, RuleFound
<1>9. \A j, l \in DOMAIN ss : ss[j].id = ss[l].id => j = l
  BY <1>1, <1>5, <1>7
<1> QED BY <1>6, <1>8, <1>9 DEF ServerList, R

LEMMA RuleMade ==
  ASSUME NEW m \in Nat, NEW rs, ServerList(rs, m), NEW on \in BOOLEAN
  PROVE  ServerList(Append(rs, [id |-> m + 1, on |-> on]), m + 1)
<1> DEFINE R == [id : 1 .. m, on : BOOLEAN]
           Q == [id : 1 .. m + 1, on : BOOLEAN]
           r == [id |-> m + 1, on |-> on]
           ss == Append(rs, r)
<1>1. rs \in Seq(R) /\ \A j, l \in DOMAIN rs : rs[j].id = rs[l].id => j = l
  BY DEF ServerList
<1>2. Len(rs) \in Nat /\ DOMAIN rs = 1 .. Len(rs) /\ \A j \in 1 .. Len(rs) : rs[j] \in R
  <2> HIDE DEF R
  <2> QED BY <1>1, LenProperties, ElementOfSeq
<1>3. \A q \in R : q \in Q /\ q.id # m + 1
  OBVIOUS
<1>4. r \in Q /\ r.id = m + 1
  OBVIOUS
<1> HIDE DEF R, Q, r
<1>5. rs \in Seq(Q)
  <2>1. rs \in [1 .. Len(rs) -> R]
    BY <1>1, SeqDef, <1>2
  <2>2. rs \in [1 .. Len(rs) -> Q]
    BY <1>3, <2>1
  <2> QED BY <1>2, <2>2, SeqDef
<1>6. ss \in Seq(Q) /\ \A j \in DOMAIN ss : ss[j] = r \/ (j \in DOMAIN rs /\ ss[j] = rs[j])
  BY <1>4, <1>5, AppendKeeps
<1>7. DOMAIN ss = 1 .. Len(rs) + 1
  <2>1. Len(ss) = Len(rs) + 1
    BY <1>4, <1>5, AppendProperties
  <2> QED BY <1>6, <2>1, LenProperties
<1>8. /\ \A j \in 1 .. Len(rs) : ss[j] = rs[j]
      /\ ss[Len(rs) + 1] = r
  BY <1>4, <1>5, AppendProperties
<1> HIDE DEF ss
<1>9. ASSUME NEW j \in DOMAIN ss, NEW k \in DOMAIN ss, ss[j].id = ss[k].id PROVE j = k
  <2>1. \A l \in 1 .. Len(rs) : ss[l].id # m + 1
    BY <1>2, <1>3, <1>8
  <2>2. CASE j \in 1 .. Len(rs) /\ k \in 1 .. Len(rs)
    BY <1>1, <1>2, <1>8, <1>9, <2>2
  <2>3. CASE j = Len(rs) + 1 \/ k = Len(rs) + 1
    BY <1>2, <1>4, <1>7, <1>8, <1>9, <2>1, <2>3
  <2> QED BY <1>2, <1>7, <2>2, <2>3
<1> QED BY <1>6, <1>9 DEF ServerList, ss, Q, r

LEMMA RuleDeleted ==
  ASSUME NEW m \in Nat, NEW rs, ServerList(rs, m), NEW k \in DOMAIN rs
  PROVE  ServerList(RemoveAt(rs, k), m)
<1> DEFINE R == [id : 1 .. m, on : BOOLEAN]
           ss == RemoveAt(rs, k)
<1>1. rs \in Seq(R) /\ \A j, l \in DOMAIN rs : rs[j].id = rs[l].id => j = l
  BY DEF ServerList
<1> HIDE DEF R
<1>2. Len(rs) \in Nat /\ DOMAIN rs = 1 .. Len(rs)
  BY <1>1, LenProperties
<1>3. /\ ss \in Seq(R) /\ Len(ss) = Len(rs) - 1
      /\ \A j \in 1 .. Len(rs) - 1 : ss[j] = rs[IF j < k THEN j ELSE j + 1]
  BY <1>1, RemoveAtKeeps
<1> HIDE DEF ss
<1>4. DOMAIN ss = 1 .. Len(rs) - 1
  BY <1>3, LenProperties
<1>5. \A j \in DOMAIN ss : Place(k, j) \in DOMAIN rs /\ ss[j] = rs[Place(k, j)]
  BY <1>2, <1>3, <1>4 DEF Place
<1>6. \A j, l \in DOMAIN ss : Place(k, j) = Place(k, l) => j = l
  BY <1>2, <1>4 DEF Place
<1>7. \A j, l \in DOMAIN ss : ss[j].id = ss[l].id => j = l
  BY <1>1, <1>5, <1>6
<1> QED BY <1>3, <1>7 DEF ServerList, R, ss

-----------------------------------------------------------------------------
(* Steps of the view.                                                      *)

LEMMA NewLoad ==
  ASSUME NEW t \in TabLoads, NEW f \in {"all", "pending"}, NEW cs, NEW c,
         c = IF t = "rules" THEN fetchAlertRules(cs) ELSE fetchAlertHistory(f)
  PROVE  /\ c \in AlertCalls /\ c.st = "sent" /\ c.op \in TabLoads
         /\ c.arg = IF t = "rules" THEN Unset ELSE f
         /\ AlertFits(c, t)
         /\ c.op \in {"rules", "toggle"} /\ ~c.late => ~ToggleOut(cs)
         /\ c.op # "toggle"
<1>1. PICK b \in BOOLEAN : b = ToggleOut(cs)
  BY DEF ToggleOut
<1>4. f \in AlertArgs /\ Unset \in AlertArgs /\ Unset \in AlertAnswers
  BY DEF AlertArgs, AlertAnswers
<1>2. CASE t = "rules"
  <2>1. c = [op |-> "rules", arg |-> Unset, on |-> FALSE, own |-> TRUE, st |-> "sent", ans |-> Unset, late |-> b]
    BY <1>1, <1>2 DEF fetchAlertRules, AlertCall
  <2>2. c \in AlertCalls
    BY ONLY <1>1, <1>4, <2>1, b \in BOOLEAN DEF AlertCalls
  <2> QED BY <1>1, <1>2, <2>1, <2>2 DEF AlertFits, TabLoads
<1>3. CASE t = "history"
  <2>1. c = [op |-> "history", arg |-> f, on |-> FALSE, own |-> TRUE, st |-> "sent", ans |-> Unset, late |-> FALSE]
    BY <1>3 DEF fetchAlertHistory, AlertCall
  <2>2. c \in AlertCalls
    BY ONLY <1>1, <1>4, <2>1, b \in BOOLEAN DEF AlertCalls
  <2> QED BY <1>3, <2>1, <2>2 DEF AlertFits, TabLoads
<1> QED BY <1>2, <1>3 DEF TabLoads

\* A load goes out, while the calls cs are.
LEMMA LoadSent ==
  ASSUME NEW t \in TabLoads, NEW f \in {"all", "pending"}, NEW cs \in Seq(AlertCalls), NEW ds,
         ds = Append(cs, IF t = "rules" THEN fetchAlertRules(cs) ELSE fetchAlertHistory(f)),
         \A i \in DOMAIN cs : AlertFits(cs[i], t), NoneCrosses(cs),
         NEW now, NEW shown, NEW a
  PROVE  /\ ds \in Seq(AlertCalls) /\ Len(ds) = Len(cs) + 1
         /\ \A i \in DOMAIN ds : AlertFits(ds[i], t)
         /\ NoneCrosses(ds)
         /\ FreshTab(ds, IF t = "rules" THEN Unset ELSE f, now)
         /\ TabSettles(ds, now, shown, a)
<1>1. PICK c : c = IF t = "rules" THEN fetchAlertRules(cs) ELSE fetchAlertHistory(f)
  OBVIOUS
<1>2. /\ c \in AlertCalls /\ c.st = "sent" /\ c.op \in TabLoads
      /\ c.arg = IF t = "rules" THEN Unset ELSE f
      /\ AlertFits(c, t)
      /\ c.op \in {"rules", "toggle"} /\ ~c.late => ~ToggleOut(cs)
      /\ c.op # "toggle"
  BY <1>1, NewLoad
<1>3. AlertAdded(cs, c, ds)
  BY <1>1, <1>2, AlertAppended
<1>4. ds \in Seq(AlertCalls) /\ Len(ds) = Len(cs) + 1
  BY <1>3 DEF AlertAdded
<1>5. (\A i \in DOMAIN ds : AlertFits(ds[i], t)) /\ NoneCrosses(ds)
  BY <1>2, <1>3, AddedKeeps
<1>6. FreshTab(ds, c.arg, now) /\ TabSettles(ds, now, shown, a)
  BY <1>2, <1>3, LoadGoesOut
<1> QED BY <1>2, <1>4, <1>5, <1>6, Zenon

\* A call is over.
LEMMA CallEnds ==
  ASSUME NEW cs \in Seq(AlertCalls), NEW i \in DOMAIN cs, NEW js, NEW t, NEW ds,
         ds = RemoveAt(Marked(cs, js), i),
         NEW w, NEW now, NEW shown, NEW a, FreshTab(cs, w, now), TabSettles(cs, now, shown, a),
         \A k \in DOMAIN cs : AlertFits(cs[k], t), NoneCrosses(cs)
  PROVE  /\ ds \in Seq(AlertCalls) /\ Len(ds) = Len(cs) - 1
         /\ \A k \in DOMAIN ds : AlertFits(ds[k], t)
         /\ NoneCrosses(ds)
         /\ \E ms : /\ MarkedAs(cs, js, ms) /\ AlertGone(ms, i, ds)
                    /\ NoneCrosses(ms) /\ FreshTab(ms, w, now) /\ TabSettles(ms, now, shown, a)
<1>1. PICK ms : ms = Marked(cs, js)
  OBVIOUS
<1>2. MarkedAs(cs, js, ms)
  BY <1>1, MarkedCalls
<1>3. /\ \A k \in DOMAIN ms : AlertFits(ms[k], t)
      /\ NoneCrosses(ms) /\ FreshTab(ms, w, now) /\ TabSettles(ms, now, shown, a)
  BY <1>2, MarkedKeeps
<1>4. ms \in Seq(AlertCalls) /\ i \in DOMAIN ms /\ Len(ms) = Len(cs)
  BY <1>2 DEF MarkedAs
<1>5. AlertGone(ms, i, ds)
  BY <1>1, <1>4, AlertRemoved
<1>6. ds \in Seq(AlertCalls) /\ Len(ds) = Len(cs) - 1
  BY <1>4, <1>5 DEF AlertGone
<1>7. (\A k \in DOMAIN ds : AlertFits(ds[k], t)) /\ NoneCrosses(ds)
  BY <1>3, <1>5, GoneKeeps
<1> QED BY <1>2, <1>3, <1>5, <1>6, <1>7

(* CallEnds at a reachable state: the requests left when one of them ends. *)
LEMMA RequestEnds ==
  ASSUME AlertsIInv, NEW i \in DOMAIN requests, NEW js, NEW ds,
         ds = RemoveAt(Marked(requests, js), i)
  PROVE  /\ ds \in Seq(AlertCalls) /\ Len(ds) = Len(requests) - 1
         /\ \A k \in DOMAIN ds : AlertFits(ds[k], tab)
         /\ NoneCrosses(ds)
         /\ \E ms : /\ MarkedAs(requests, js, ms) /\ AlertGone(ms, i, ds)
                    /\ NoneCrosses(ms) /\ FreshTab(ms, TabWanted, TabNow)
                    /\ TabSettles(ms, TabNow, TabShown, astray)
<1>1. /\ requests \in Seq(AlertCalls)
      /\ \A k \in DOMAIN requests : AlertFits(requests[k], tab)
      /\ NoneCrosses(requests) /\ FreshTab(requests, TabWanted, TabNow)
      /\ TabSettles(requests, TabNow, TabShown, astray)
  BY DEF AlertsIInv, AlertsType
<1>2. PICK w, now, shown : w = TabWanted /\ now = TabNow /\ shown = TabShown
  OBVIOUS
<1>3. FreshTab(requests, w, now) /\ TabSettles(requests, now, shown, astray)
  BY <1>1, <1>2
<1>4. /\ ds \in Seq(AlertCalls) /\ Len(ds) = Len(requests) - 1
      /\ \A k \in DOMAIN ds : AlertFits(ds[k], tab)
      /\ NoneCrosses(ds)
      /\ \E ms : /\ MarkedAs(requests, js, ms) /\ AlertGone(ms, i, ds)
                 /\ NoneCrosses(ms) /\ FreshTab(ms, w, now)
                 /\ TabSettles(ms, now, shown, astray)
  BY <1>1, <1>3, CallEnds
<1> QED BY <1>2, <1>4

LEMMA RefreshTabStep == ASSUME AlertsIInv, RefreshTab \/ \E f \in {"all", "pending"} : ChooseFilter(f)
                        PROVE  AlertsIInv'
<1>1. PICK f \in {"all", "pending"} :
        /\ historyFilter' = f /\ loadData(f, requests)
        /\ UNCHANGED <<tab, alertServerVars, storeVars, dialogVars, astray>>
  <2>1. CASE RefreshTab
    BY <2>1 DEF RefreshTab, AlertsIInv, AlertsType
  <2>2. CASE \E f \in {"all", "pending"} : ChooseFilter(f)
    BY <2>2 DEF ChooseFilter
  <2> QED BY <2>1, <2>2
<1>2. /\ tab \in TabLoads /\ requests \in Seq(AlertCalls)
      /\ \A i \in DOMAIN requests : AlertFits(requests[i], tab)
      /\ NoneCrosses(requests)
  BY DEF AlertsIInv, AlertsType
<1>3. /\ requests' = Append(requests, IF tab = "rules" THEN fetchAlertRules(requests)
                                                       ELSE fetchAlertHistory(f))
      /\ Len(requests) < MaxAlertCalls /\ isLoadingTab' = TRUE
  BY <1>1 DEF loadData, LoadCall
<1>4. /\ requests' \in Seq(AlertCalls) /\ Len(requests') = Len(requests) + 1
      /\ \A i \in DOMAIN requests' : AlertFits(requests'[i], tab)
      /\ NoneCrosses(requests')
      /\ FreshTab(requests', IF tab = "rules" THEN Unset ELSE f, TabNow')
      /\ TabSettles(requests', TabNow', TabShown', astray')
  BY <1>2, <1>3, LoadSent
<1>5. AlertsType'
  <2>1. Len(requests') <= MaxAlertCalls
    BY <1>2, <1>3, <1>4, AlertsAssumptions, LenProperties
  <2> QED
    BY <1>1, <1>3, <1>4, <2>1 DEF AlertsIInv, AlertsType, alertServerVars, storeVars, dialogVars
<1>6. tab' = tab /\ TabWanted' = IF tab = "rules" THEN Unset ELSE f
  BY <1>1 DEF TabWanted
<1> QED BY <1>4, <1>5, <1>6, Zenon DEF AlertsIInv

\* The dialogs open and close.
LEMMA AlertDialogStep ==
  ASSUME AlertsIInv,
         \/ openNewRuleDialog \/ CloseDialog
         \/ \E i \in DOMAIN rules : openEditRuleDialog(i) \/ confirmDeleteRule(i)
         \/ \E a \in AlertIds : openAcknowledgeDialog(a)
  PROVE  AlertsIInv'
<1>1. UNCHANGED <<tab, alertServerVars, storeVars, isLoadingTab, requests, historyFilter, astray>>
  BY DEF openNewRuleDialog, CloseDialog, openEditRuleDialog, confirmDeleteRule, openAcknowledgeDialog
<1>2. UNCHANGED <<tab, serverRules, born, acked, rules, rows, unack, isLoadingTab, requests,
                  historyFilter, astray>>
  BY <1>1 DEF alertServerVars, storeVars
<1>3. /\ ruleForm' \in [id : 0 .. MaxRules, on : BOOLEAN] \cup {Unset}
      /\ confirming' \in RuleIds \cup {Unset}
      /\ selectedAlert' \in AlertIds \cup {Unset}
      /\ ruleForm' # Unset => tab = "rules"
      /\ confirming' # Unset => tab = "rules"
      /\ selectedAlert' # Unset => tab = "history"
  <2>1. CASE openNewRuleDialog
    BY <2>1, AlertsAssumptions DEF openNewRuleDialog, AlertsIInv, AlertsType
  <2>2. CASE CloseDialog
    BY <2>2 DEF CloseDialog
  <2>3. CASE \E i \in DOMAIN rules : openEditRuleDialog(i)
    <3>1. PICK i \in DOMAIN rules : openEditRuleDialog(i)
      BY <2>3
    <3>2. rules[i] \in AlertRules
      BY ElementOfSeq, LenProperties DEF AlertsIInv, AlertsType
    <3>3. rules[i] \in [id : 0 .. MaxRules, on : BOOLEAN]
      BY <3>2, AlertsAssumptions DEF AlertRules, RuleIds
    <3> QED BY <3>1, <3>3 DEF openEditRuleDialog, RuleRow, AlertsIInv, AlertsType
  <2>4. CASE \E a \in AlertIds : openAcknowledgeDialog(a)
    BY <2>4 DEF openAcknowledgeDialog, PendingRow, AlertsIInv, AlertsType
  <2>5. CASE \E i \in DOMAIN rules : confirmDeleteRule(i)
    <3>1. PICK i \in DOMAIN rules : confirmDeleteRule(i)
      BY <2>5
    <3>2. rules[i] \in AlertRules
      BY ElementOfSeq, LenProperties DEF AlertsIInv, AlertsType
    <3>3. rules[i].id \in RuleIds
      BY <3>2 DEF AlertRules
    <3> QED BY <3>1, <3>3 DEF confirmDeleteRule, RuleRow, AlertsIInv, AlertsType
  <2> QED BY <2>1, <2>2, <2>3, <2>4, <2>5
<1>4. AlertsType'
  BY <1>2, <1>3 DEF AlertsIInv, AlertsType
<1>5. TabWanted' = TabWanted /\ TabNow' = TabNow /\ TabShown' = TabShown
  BY <1>2 DEF TabWanted, TabNow, TabShown, ServerHistory, ServerRows, Pending
<1> QED BY <1>2, <1>4, <1>5, Zenon DEF AlertsIInv

\* A change goes out.
LEMMA ChangeSent ==
  ASSUME NEW t, NEW cs \in Seq(AlertCalls), NEW c \in AlertCalls, c.st = "sent", AlertFits(c, t),
         c.op \notin {"rules", "history", "toggle"}, NEW ds, ds = Append(cs, c),
         \A i \in DOMAIN cs : AlertFits(cs[i], t), NoneCrosses(cs),
         NEW w, NEW now, NEW shown, NEW a, FreshTab(cs, w, now), TabSettles(cs, now, shown, a)
  PROVE  /\ ds \in Seq(AlertCalls) /\ Len(ds) = Len(cs) + 1
         /\ \A i \in DOMAIN ds : AlertFits(ds[i], t)
         /\ NoneCrosses(ds) /\ FreshTab(ds, w, now) /\ TabSettles(ds, now, shown, a)
<1>1. AlertAdded(cs, c, ds)
  BY AlertAppended
<1>2. ds \in Seq(AlertCalls) /\ Len(ds) = Len(cs) + 1
  BY <1>1 DEF AlertAdded
<1>3. (\A i \in DOMAIN ds : AlertFits(ds[i], t)) /\ NoneCrosses(ds)
  BY <1>1, AddedKeeps
<1>4. FreshTab(ds, w, now) /\ TabSettles(ds, now, shown, a)
  BY <1>1, ChangeGoesOut DEF TabLoads
<1> QED BY <1>2, <1>3, <1>4

\* A request of the dashboard or of an earlier mount.
LEMMA OtherCall ==
  ASSUME NEW f, f \in {"all", "pending", "board"}
  PROVE  /\ otherHistory(f) \in AlertCalls
         /\ otherHistory(f).st = "sent" /\ otherHistory(f).op = "other"
<1>1. f \in AlertArgs /\ Unset \in AlertAnswers
  BY DEF AlertArgs, AlertAnswers
<1>2. PICK d, c : d = AlertCall("other", f, FALSE) /\ c = otherHistory(f)
  OBVIOUS
<1>3. d = [op |-> "other", arg |-> f, on |-> FALSE, own |-> TRUE, st |-> "sent",
           ans |-> Unset, late |-> FALSE]
  BY ONLY <1>2 DEF AlertCall
<1>4. c = [d EXCEPT !.own = FALSE]
  BY <1>2 DEF otherHistory
<1>5. d \in AlertCalls
  BY ONLY <1>1, <1>3 DEF AlertCalls
<1>6. c \in AlertCalls /\ c.st = d.st /\ c.op = d.op
  BY ONLY <1>4, <1>5 DEF AlertCalls
<1> QED BY <1>2, <1>3, <1>6

LEMMA AlertChangeStep ==
  ASSUME AlertsIInv,
         saveRule \/ acknowledgeAlert \/ acceptDelete \/ BoardRefresh
  PROVE  AlertsIInv'
<1>1. PICK c \in AlertCalls :
        /\ c.st = "sent" /\ AlertFits(c, tab) /\ c.op \notin {"rules", "history", "toggle"}
        /\ Send(c)
        /\ UNCHANGED <<tab, alertServerVars, storeVars, historyFilter, ruleForm, selectedAlert, astray>>
        /\ confirming' \in {confirming, Unset} /\ isLoadingTab' \in {isLoadingTab, TRUE}
  <2>1. CASE saveRule
    <3>1. /\ ruleForm \in [id : 0 .. MaxRules, on : BOOLEAN] /\ tab = "rules"
          /\ Send(AlertCall(IF ruleForm.id = 0 THEN "create" ELSE "update", ruleForm.id, ruleForm.on))
          /\ UNCHANGED <<tab, alertServerVars, storeVars, historyFilter, ruleForm, selectedAlert, astray>>
          /\ confirming' = confirming /\ isLoadingTab' = isLoadingTab
      BY <2>1 DEF saveRule, dialogVars, AlertsIInv, AlertsType
    <3>2. PICK c : c = AlertCall(IF ruleForm.id = 0 THEN "create" ELSE "update", ruleForm.id, ruleForm.on)
      OBVIOUS
    <3>3. ruleForm.id \in 0 .. MaxRules /\ ruleForm.on \in BOOLEAN
      BY <3>1
    <3>4. /\ c.st = "sent" /\ c.arg = ruleForm.id
          /\ c.op = IF ruleForm.id = 0 THEN "create" ELSE "update"
      BY <3>2 DEF AlertCall
    <3>5. c \in AlertCalls
      <4>1. ruleForm.id \in AlertArgs /\ Unset \in AlertAnswers
        BY <3>3 DEF AlertArgs, AlertAnswers
      <4> QED BY <3>2, <3>3, <4>1 DEF AlertCall, AlertCalls
    <3>6. AlertFits(c, tab)
      BY <3>1, <3>3, <3>4, AlertsAssumptions DEF AlertFits, RuleIds
    <3>7. c.op \notin {"rules", "history", "toggle"}
      BY <3>4
    <3> QED BY <3>1, <3>2, <3>4, <3>5, <3>6, <3>7, Zenon
  <2>2. CASE acknowledgeAlert
    <3>1. /\ selectedAlert \in AlertIds /\ tab = "history"
          /\ Send(AlertCall("ack", selectedAlert, FALSE))
          /\ UNCHANGED <<tab, alertServerVars, storeVars, historyFilter, ruleForm, selectedAlert, astray>>
          /\ confirming' = confirming /\ isLoadingTab' = isLoadingTab
      BY <2>2 DEF acknowledgeAlert, dialogVars, AlertsIInv, AlertsType
    <3>2. PICK c : c = AlertCall("ack", selectedAlert, FALSE)
      OBVIOUS
    <3>3. c.st = "sent" /\ c.arg = selectedAlert /\ c.op = "ack" /\ c \in AlertCalls
      <4>1. selectedAlert \in AlertArgs /\ Unset \in AlertAnswers
        BY <3>1 DEF AlertArgs, AlertAnswers
      <4> QED BY <3>2, <4>1 DEF AlertCall, AlertCalls
    <3>4. AlertFits(c, tab) /\ c.op \notin {"rules", "history", "toggle"}
      BY <3>1, <3>3 DEF AlertFits
    <3> QED BY <3>1, <3>2, <3>3, <3>4, Zenon
  <2>3. CASE acceptDelete
    <3>1. /\ tab = "rules" /\ Send(AlertCall("delete", confirming, FALSE))
          /\ UNCHANGED <<tab, alertServerVars, storeVars, historyFilter, ruleForm, selectedAlert, astray>>
          /\ confirming' = Unset /\ isLoadingTab' = isLoadingTab
      BY <2>3 DEF acceptDelete, AlertsIInv, AlertsType
    <3>3. PICK id \in RuleIds : id = confirming
      BY <2>3 DEF acceptDelete, AlertsIInv, AlertsType
    <3>4. PICK c : c = AlertCall("delete", id, FALSE)
      OBVIOUS
    <3>5. c.st = "sent" /\ c.arg = id /\ c.op = "delete"
      BY <3>4 DEF AlertCall
    <3>6. c \in AlertCalls
      <4>1. id \in AlertArgs /\ Unset \in AlertAnswers
        BY AlertsAssumptions DEF AlertArgs, AlertAnswers, RuleIds
      <4> QED BY <3>4, <4>1 DEF AlertCall, AlertCalls
    <3>7. AlertFits(c, tab) /\ c.op \notin {"rules", "history", "toggle"}
      BY <3>1, <3>5 DEF AlertFits
    <3> QED BY <3>1, <3>3, <3>4, <3>5, <3>6, <3>7, Zenon
  <2>4. CASE BoardRefresh
    <3>1. /\ tab = "history" /\ Send(otherHistory("board"))
          /\ UNCHANGED <<tab, alertServerVars, storeVars, historyFilter, ruleForm, selectedAlert, astray>>
          /\ confirming' = confirming /\ isLoadingTab' = TRUE
      BY <2>4 DEF BoardRefresh, dialogVars
    <3>2. PICK c : c = otherHistory("board")
      OBVIOUS
    <3>3. c.st = "sent" /\ c.op = "other" /\ c \in AlertCalls
      BY <3>2, OtherCall
    <3>4. AlertFits(c, tab) /\ c.op \notin {"rules", "history", "toggle"}
      BY <3>1, <3>3 DEF AlertFits
    <3> QED BY <3>1, <3>2, <3>3, <3>4, Zenon
  <2> QED BY <2>1, <2>2, <2>3, <2>4
<1>2. /\ requests' = Append(requests, c) /\ Len(requests) < MaxAlertCalls
      /\ UNCHANGED <<tab, serverRules, born, acked, rules, rows, unack, historyFilter,
                     ruleForm, selectedAlert, astray>>
      /\ confirming' \in {confirming, Unset} /\ isLoadingTab' \in {isLoadingTab, TRUE}
  BY <1>1 DEF Send, alertServerVars, storeVars
<1>3. TabWanted' = TabWanted /\ TabNow' = TabNow /\ TabShown' = TabShown
  BY <1>2 DEF TabWanted, TabNow, TabShown, ServerHistory, ServerRows, Pending
<1>4. /\ requests \in Seq(AlertCalls)
      /\ \A i \in DOMAIN requests : AlertFits(requests[i], tab)
      /\ NoneCrosses(requests) /\ FreshTab(requests, TabWanted, TabNow)
      /\ TabSettles(requests, TabNow, TabShown, astray)
  BY DEF AlertsIInv, AlertsType
<1>5. /\ requests' \in Seq(AlertCalls) /\ Len(requests') = Len(requests) + 1
      /\ \A i \in DOMAIN requests' : AlertFits(requests'[i], tab)
      /\ NoneCrosses(requests') /\ FreshTab(requests', TabWanted, TabNow)
      /\ TabSettles(requests', TabNow, TabShown, astray)
  BY <1>1, <1>2, <1>4, ChangeSent
<1>6. AlertsType'
  <2>1. Len(requests') <= MaxAlertCalls
    BY <1>2, <1>4, <1>5, AlertsAssumptions, LenProperties
  <2> QED BY <1>2, <1>5, <2>1 DEF AlertsIInv, AlertsType
<1> QED BY <1>2, <1>3, <1>5, <1>6, Zenon DEF AlertsIInv

\* A toggle goes out: what it crosses is late, and so is it.
LEMMA ToggleSent ==
  ASSUME NEW t, NEW cs \in Seq(AlertCalls), NEW c \in AlertCalls, c.st = "sent", AlertFits(c, t),
         c.op = "toggle", c.late <=> ToggleOut(cs), NEW js, NEW ds,
         ds = Append(Marked(cs, js), c),
         \A j \in DOMAIN cs : cs[j].op \in {"rules", "toggle"} => j \in js,
         \A i \in DOMAIN cs : AlertFits(cs[i], t), NoneCrosses(cs),
         NEW w, NEW now, NEW shown, NEW a, FreshTab(cs, w, now), TabSettles(cs, now, shown, a)
  PROVE  /\ ds \in Seq(AlertCalls) /\ Len(ds) = Len(cs) + 1
         /\ \A i \in DOMAIN ds : AlertFits(ds[i], t)
         /\ NoneCrosses(ds) /\ FreshTab(ds, w, now) /\ TabSettles(ds, now, shown, a)
<1>1. PICK ms : ms = Marked(cs, js)
  OBVIOUS
<1>2. MarkedAs(cs, js, ms)
  BY <1>1, MarkedCalls
<1>3. /\ \A k \in DOMAIN ms : AlertFits(ms[k], t)
      /\ NoneCrosses(ms) /\ FreshTab(ms, w, now) /\ TabSettles(ms, now, shown, a)
  BY <1>2, MarkedKeeps
<1>4. /\ ms \in Seq(AlertCalls) /\ Len(ms) = Len(cs)
      /\ \A i \in DOMAIN ms : ms[i].op \in {"rules", "toggle"} => ms[i].late
      /\ ToggleOut(ms) <=> ToggleOut(cs)
  BY <1>2 DEF MarkedAs, ToggleOut
<1>5. AlertAdded(ms, c, ds)
  BY <1>1, <1>4, AlertAppended
<1>6. ds \in Seq(AlertCalls) /\ Len(ds) = Len(cs) + 1
  BY <1>4, <1>5 DEF AlertAdded
<1>7. (\A i \in DOMAIN ds : AlertFits(ds[i], t)) /\ NoneCrosses(ds)
  <2>1. c.op \in {"rules", "toggle"} /\ ~c.late => ~ToggleOut(ms)
    BY <1>4, Zenon
  <2>2. c.op = "toggle" => \A i \in DOMAIN ms : ms[i].op \in {"rules", "toggle"} => ms[i].late
    BY <1>4, Zenon
  <2>3. c.st = "sent" /\ AlertFits(c, t)
    OBVIOUS
  <2> QED BY ONLY <1>3, <1>5, <2>1, <2>2, <2>3, AddedKeeps
<1>8. FreshTab(ds, w, now) /\ TabSettles(ds, now, shown, a)
  <2>1. c.op \notin TabLoads
    BY DEF TabLoads
  <2> QED BY <1>3, <1>5, <2>1, ChangeGoesOut
<1> QED BY <1>6, <1>7, <1>8

LEMMA ToggleStep ==
  ASSUME AlertsIInv, NEW i \in DOMAIN rules, toggleRuleEnabled(i)
  PROVE  AlertsIInv'
<1>1. rules[i] \in AlertRules
  BY ElementOfSeq, LenProperties DEF AlertsIInv, AlertsType
<1>2. PICK id \in RuleIds, on \in BOOLEAN : id = rules[i].id /\ on = ~rules[i].on
  BY <1>1 DEF AlertRules
<1>3. PICK b \in BOOLEAN : b = ToggleOut(requests)
  BY DEF ToggleOut
<1>4. PICK c : c = [AlertCall("toggle", id, on) EXCEPT !.late = b]
  OBVIOUS
<1>5. c = [op |-> "toggle", arg |-> id, on |-> on, own |-> TRUE,
            st |-> "sent", ans |-> Unset, late |-> b]
  BY <1>4 DEF AlertCall
<1>6. c \in AlertCalls
  <2>1. id \in AlertArgs /\ Unset \in AlertAnswers
    BY AlertsAssumptions DEF AlertArgs, AlertAnswers, RuleIds
  <2> QED BY ONLY <1>5, <2>1, on \in BOOLEAN, b \in BOOLEAN DEF AlertCalls
<1>8. /\ tab = "rules" /\ Len(requests) < MaxAlertCalls
      /\ requests' = Append(Marked(requests, {j \in DOMAIN requests : requests[j].op \in {"rules", "toggle"}}), c)
      /\ UNCHANGED <<tab, serverRules, born, acked, rules, rows, unack, isLoadingTab,
                     historyFilter, ruleForm, confirming, selectedAlert, astray>>
  BY <1>2, <1>3, <1>4 DEF toggleRuleEnabled, RuleRow, alertServerVars, storeVars, dialogVars
<1>7. c.st = "sent" /\ c.op = "toggle" /\ (c.late <=> ToggleOut(requests)) /\ AlertFits(c, tab)
  BY <1>3, <1>5, <1>8 DEF AlertFits
<1>9. /\ requests \in Seq(AlertCalls)
      /\ \A k \in DOMAIN requests : AlertFits(requests[k], tab)
      /\ NoneCrosses(requests) /\ FreshTab(requests, TabWanted, TabNow)
      /\ TabSettles(requests, TabNow, TabShown, astray)
  BY <1>8 DEF AlertsIInv, AlertsType
<1>10. /\ requests' \in Seq(AlertCalls) /\ Len(requests') = Len(requests) + 1
       /\ \A k \in DOMAIN requests' : AlertFits(requests'[k], tab)
       /\ NoneCrosses(requests') /\ FreshTab(requests', TabWanted, TabNow)
       /\ TabSettles(requests', TabNow, TabShown, astray)
  <2>1. PICK cs : cs = requests
    OBVIOUS
  <2>2. PICK ds : ds = requests'
    OBVIOUS
  <2>3. PICK js : /\ ds = Append(Marked(cs, js), c)
                  /\ \A j \in DOMAIN cs : cs[j].op \in {"rules", "toggle"} => j \in js
    BY <1>8, <2>1, <2>2
  <2>4. /\ cs \in Seq(AlertCalls) /\ (c.late <=> ToggleOut(cs))
        /\ \A k \in DOMAIN cs : AlertFits(cs[k], tab)
        /\ NoneCrosses(cs) /\ FreshTab(cs, TabWanted, TabNow)
        /\ TabSettles(cs, TabNow, TabShown, astray)
    BY <1>7, <1>9, <2>1
  <2>5. /\ ds \in Seq(AlertCalls) /\ Len(ds) = Len(cs) + 1
        /\ \A k \in DOMAIN ds : AlertFits(ds[k], tab)
        /\ NoneCrosses(ds) /\ FreshTab(ds, TabWanted, TabNow)
        /\ TabSettles(ds, TabNow, TabShown, astray)
    BY <1>6, <1>7, <2>3, <2>4, ToggleSent
  <2> QED BY <2>1, <2>2, <2>5
<1>11. AlertsType'
  <2>1. Len(requests') <= MaxAlertCalls
    BY <1>8, <1>9, <1>10, AlertsAssumptions, LenProperties
  <2> QED BY <1>8, <1>10, <2>1 DEF AlertsIInv, AlertsType
<1>12. TabWanted' = TabWanted /\ TabNow' = TabNow /\ TabShown' = TabShown
  BY <1>8 DEF TabWanted, TabNow, TabShown, ServerHistory, ServerRows, Pending
<1> QED BY <1>8, <1>10, <1>11, <1>12, Zenon DEF AlertsIInv

\* Lists and histories of the server.
LEMMA ServerListType ==
  ASSUME NEW m \in 0 .. MaxRules, NEW rs, ServerList(rs, m)
  PROVE  rs \in Seq(AlertRules)
<1> DEFINE R == [id : 1 .. m, on : BOOLEAN]
<1>1. rs \in Seq(R)
  BY DEF ServerList
<1>2. \A r \in R : r \in AlertRules
  BY AlertsAssumptions DEF AlertRules, RuleIds
<1> HIDE DEF R
<1>3. Len(rs) \in Nat /\ rs \in [1 .. Len(rs) -> R]
  BY <1>1, SeqDef, LenProperties
<1>4. rs \in [1 .. Len(rs) -> AlertRules]
  BY <1>2, <1>3
<1> QED BY <1>3, <1>4, SeqDef

LEMMA ServerHistoryType == ASSUME NEW f PROVE ServerHistory(f) \in Histories
<1>1. IsFiniteSet(Pending)
  BY AlertsAssumptions, FS_Subset DEF Pending
<1>2. Cardinality(Pending) \in Nat
  BY <1>1, FS_CardinalityType
<1>3. ServerRows(f) \in HistoryRows
  <2> DEFINE A == {b \in AlertIds : f = "pending" => b \notin acked}
  <2>1. ServerRows(f) \in [A -> BOOLEAN] /\ A \in SUBSET AlertIds
    BY DEF ServerRows
  <2> QED BY <2>1 DEF HistoryRows
<1> QED BY <1>2, <1>3 DEF ServerHistory, Histories

LEMMA BoardPageType == ASSUME NEW h \in BoardPages PROVE h \in Histories
<1>1. PICK A \in SUBSET Pending : h = [rows |-> [a \in A |-> FALSE], unack |-> Cardinality(Pending)]
  BY DEF BoardPages
<1>2. Cardinality(Pending) \in Nat /\ Pending \subseteq AlertIds
  BY AlertsAssumptions, FS_Subset, FS_CardinalityType DEF Pending
<1>3. [a \in A |-> FALSE] \in [A -> BOOLEAN] /\ A \in SUBSET AlertIds
  BY <1>2
<1>4. [a \in A |-> FALSE] \in HistoryRows
  BY <1>3 DEF HistoryRows
<1> QED BY <1>1, <1>2, <1>4 DEF Histories

LEMMA RuleMember ==
  ASSUME NEW id \in RuleIds, NEW on \in BOOLEAN
  PROVE  \E r \in AlertRules : r = [id |-> id, on |-> on] /\ r.id = id
<1>1. [id |-> id, on |-> on] \in AlertRules /\ [id |-> id, on |-> on].id = id
  BY DEF AlertRules
<1> QED BY <1>1, Zenon

LEMMA ServeAlertStep ==
  ASSUME AlertsIInv, NEW i \in DOMAIN requests, ServeAlertCall(i)
  PROVE  AlertsIInv'
<1>1. PICK c \in AlertCalls : c = requests[i]
  BY ElementOfSeq, LenProperties DEF AlertsIInv, AlertsType
<1>2. /\ tab \in TabLoads /\ born \in 0 .. MaxRules /\ acked \subseteq AlertIds
      /\ ServerList(serverRules, born)
      /\ requests \in Seq(AlertCalls)
      /\ \A k \in DOMAIN requests : AlertFits(requests[k], tab)
      /\ NoneCrosses(requests) /\ FreshTab(requests, TabWanted, TabNow)
      /\ TabSettles(requests, TabNow, TabShown, astray)
  BY DEF AlertsIInv, AlertsType
<1>3. c.st = "sent" /\ AlertFits(c, tab)
  BY <1>1, <1>2 DEF ServeAlertCall
<1>4. UNCHANGED <<tab, rules, rows, unack, isLoadingTab, historyFilter, ruleForm, confirming, selectedAlert, astray>>
  BY DEF ServeAlertCall, storeVars, dialogVars
<1>5. TabWanted' = TabWanted /\ TabShown' = TabShown
  BY <1>4 DEF TabWanted, TabShown
<1>6. ASSUME NEW ans \in AlertAnswers, TakeAlertCall(i, ans),
             c.op = "rules" => ans \in Seq(AlertRules),
             c.op \in {"history", "other"} => ans \in Histories,
             c.op \in {"create", "update", "toggle"} => ans \in AlertRules,
             born' \in 0 .. MaxRules, acked' \subseteq AlertIds, ServerList(serverRules', born')
      PROVE  /\ AlertTaken(requests, i, ans, requests')
             /\ AlertsType'
             /\ \A k \in DOMAIN requests' : AlertFits(requests'[k], tab')
             /\ NoneCrosses(requests')
  <2>1. AlertTaken(requests, i, ans, requests')
    BY <1>2, <1>6, TakenCalls DEF TakeAlertCall
  <2>2. (\A k \in DOMAIN requests' : AlertFits(requests'[k], tab)) /\ NoneCrosses(requests')
    BY <1>1, <1>2, <1>6, <2>1, TakenKeeps
  <2>3. requests' \in Seq(AlertCalls) /\ Len(requests') = Len(requests)
    BY <2>1 DEF AlertTaken
  <2>4. AlertsType'
    BY <1>4, <1>6, <2>3 DEF AlertsIInv, AlertsType
  <2> QED BY <1>4, <2>1, <2>2, <2>4
<1>7. CASE c.op = "rules" \/ c.op = "history"
  <2>1. PICK ans : /\ ans = IF c.op = "rules" THEN serverRules ELSE ServerHistory(c.arg)
                   /\ TakeAlertCall(i, ans)
    BY <1>1, <1>7 DEF ServeAlertCall
  <2>2. UNCHANGED <<serverRules, born, acked>>
    BY <1>1, <1>7 DEF ServeAlertCall, alertServerVars
  <2>3. (c.op = "rules" => ans \in Seq(AlertRules)) /\ (c.op \in {"history", "other"} => ans \in Histories)
    BY <1>2, <1>7, <2>1, ServerListType, ServerHistoryType
  <2>4. ans \in AlertAnswers
    BY <1>7, <2>3 DEF AlertAnswers
  <2>5. /\ AlertTaken(requests, i, ans, requests')
        /\ AlertsType'
        /\ \A k \in DOMAIN requests' : AlertFits(requests'[k], tab')
        /\ NoneCrosses(requests')
    BY <1>2, <1>6, <1>7, <2>1, <2>2, <2>3, <2>4
  <2>6. c.arg = TabWanted => ans = TabNow
    BY <1>2, <1>3, <1>7, <2>1 DEF TabWanted, TabNow, AlertFits, TabLoads
  <2>7. FreshTab(requests', TabWanted, TabNow) /\ TabSettles(requests', TabNow, TabShown, astray)
    <3>1. c.op \in TabLoads
      BY <1>7 DEF TabLoads
    <3> QED BY <1>1, <1>2, <2>5, <2>6, <3>1, LoadTaken
  <2>8. TabNow' = TabNow
    BY <1>4, <2>2 DEF TabNow, ServerHistory, ServerRows, Pending
  <2> QED BY <1>4, <1>5, <2>5, <2>7, <2>8, Zenon DEF AlertsIInv
<1>8. CASE c.op \in {"create", "update", "delete", "ack"}
  <2>1. PICK ans \in AlertAnswers :
          /\ TakeAlertCall(i, ans) /\ (c.op \in {"create", "update"} => ans \in AlertRules)
          /\ born' \in 0 .. MaxRules /\ acked' \subseteq AlertIds /\ ServerList(serverRules', born')
    <3>1. CASE c.op = "create"
      <4>1. /\ born < MaxRules /\ born' = born + 1 /\ acked' = acked
            /\ serverRules' = Append(serverRules, [id |-> born + 1, on |-> TRUE])
            /\ TakeAlertCall(i, [id |-> born + 1, on |-> TRUE])
        BY <1>1, <3>1 DEF ServeAlertCall
      <4>2. born \in Nat /\ born' \in 0 .. MaxRules /\ born + 1 \in RuleIds
        BY <1>2, <4>1, AlertsAssumptions DEF RuleIds
      <4>3. ServerList(serverRules', born')
        BY <1>2, <4>1, <4>2, RuleMade
      <4>4. [id |-> born + 1, on |-> TRUE] \in AlertRules
        BY <4>2 DEF AlertRules
      <4>5. [id |-> born + 1, on |-> TRUE] \in AlertAnswers
        BY <4>4, Zenon DEF AlertAnswers
      <4> QED BY <1>2, <3>1, <4>1, <4>2, <4>3, <4>4, <4>5
    <3>2. CASE c.op = "update"
      <4>1. PICK k \in DOMAIN serverRules :
              /\ serverRules[k].id = c.arg
              /\ serverRules' = [serverRules EXCEPT ![k] = [id |-> c.arg, on |-> c.on]]
              /\ TakeAlertCall(i, [id |-> c.arg, on |-> c.on])
              /\ UNCHANGED <<born, acked>>
        BY <1>1, <3>2 DEF ServeAlertCall
      <4>2. c.arg \in RuleIds /\ c.on \in BOOLEAN /\ born \in Nat
        BY <1>2, <1>3, <3>2 DEF AlertFits, AlertCalls
      <4>4. PICK r \in AlertRules : r = [id |-> c.arg, on |-> c.on] /\ r.id = c.arg
        BY <4>2, RuleMember
      <4>3. ServerList(serverRules', born')
        BY <1>2, <4>1, <4>2, <4>4, RuleSet
      <4>5. [id |-> c.arg, on |-> c.on] \in AlertAnswers
        BY <4>4, Zenon DEF AlertAnswers
      <4> QED BY <1>2, <3>2, <4>1, <4>3, <4>4, <4>5
    <3>3. CASE c.op = "delete"
      <4>1. PICK k \in DOMAIN serverRules :
              /\ serverRules' = RemoveAt(serverRules, k) /\ TakeAlertCall(i, Unset)
              /\ UNCHANGED <<born, acked>>
        BY <1>1, <3>3 DEF ServeAlertCall
      <4>2. ServerList(serverRules', born')
        BY <1>2, <4>1, RuleDeleted
      <4> QED BY <1>2, <3>3, <4>1, <4>2 DEF AlertAnswers
    <3>4. CASE c.op = "ack"
      <4>1. /\ acked' = acked \cup {c.arg} /\ TakeAlertCall(i, Unset)
            /\ UNCHANGED <<serverRules, born>>
        BY <1>1, <3>4 DEF ServeAlertCall
      <4>2. c.arg \in AlertIds
        BY <1>3, <3>4 DEF AlertFits
      <4> QED BY <1>2, <3>4, <4>1, <4>2 DEF AlertAnswers
    <3> QED BY <1>8, <3>1, <3>2, <3>3, <3>4
  <2>2. /\ AlertTaken(requests, i, ans, requests')
        /\ AlertsType'
        /\ \A k \in DOMAIN requests' : AlertFits(requests'[k], tab')
        /\ NoneCrosses(requests')
    BY <1>6, <1>8, <2>1
  <2>3. FreshTab(requests', TabWanted, TabNow') /\ TabSettles(requests', TabNow', TabShown, astray)
    BY <1>1, <1>2, <1>8, <2>2, ChangeTaken
  <2> QED BY <1>4, <1>5, <2>2, <2>3, Zenon DEF AlertsIInv
<1>9. CASE c.op = "toggle"
  <2>1. PICK k \in DOMAIN serverRules :
          /\ serverRules[k].id = c.arg
          /\ serverRules' = [serverRules EXCEPT ![k] = [id |-> c.arg, on |-> c.on]]
          /\ TakeAlertCall(i, [id |-> c.arg, on |-> c.on])
          /\ UNCHANGED <<born, acked>>
    BY <1>1, <1>9 DEF ServeAlertCall
  <2>2. c.arg \in RuleIds /\ c.on \in BOOLEAN /\ born \in Nat
    BY <1>2, <1>3, <1>9 DEF AlertFits, AlertCalls
  <2>3. PICK ans \in AlertRules : ans = [id |-> c.arg, on |-> c.on] /\ ans.id = c.arg
    BY <2>2, RuleMember
  <2>4. ServerList(serverRules', born') /\ WithRule(serverRules, ans) = serverRules'
    <3>1. PICK ss : ss = serverRules'
      OBVIOUS
    <3>2. ss = [serverRules EXCEPT ![k] = ans] /\ serverRules[k].id = ans.id /\ born' = born
      BY <2>1, <2>3, <3>1
    <3>3. ServerList(ss, born) /\ WithRule(serverRules, ans) = ss
      BY ONLY <1>2, <2>2, <3>2, ans \in AlertRules, k \in DOMAIN serverRules, RuleSet
    <3> QED BY <3>1, <3>2, <3>3, Zenon
  <2>5. ans \in AlertRules
    OBVIOUS
  <2>6. ans \in AlertAnswers
    BY <2>5, Zenon DEF AlertAnswers
  <2>7. /\ AlertTaken(requests, i, ans, requests')
        /\ AlertsType'
        /\ \A j \in DOMAIN requests' : AlertFits(requests'[j], tab')
        /\ NoneCrosses(requests')
    BY <1>2, <1>6, <1>9, <2>1, <2>3, <2>4, <2>5, <2>6
  <2>8. tab = "rules"
    BY <1>2, <1>3, <1>9 DEF AlertFits, TabLoads
  <2>9. TabNow = serverRules /\ TabNow' = serverRules'
    BY <1>4, <2>8 DEF TabNow
  <2>10. FreshTab(requests', TabWanted, TabNow') /\ TabSettles(requests', TabNow', TabShown, astray)
    <3>1. \A j \in DOMAIN requests : AlertFits(requests[j], "rules")
      BY <1>2, <2>8
    <3> HIDE DEF WithRule
    <3>2. WithRule(TabNow, ans) = TabNow'
      BY <2>4, <2>9
    <3> QED BY <1>1, <1>2, <1>3, <1>9, <2>7, <3>1, <3>2, ToggleTaken
  <2> QED BY <1>4, <1>5, <2>7, <2>10, Zenon DEF AlertsIInv
<1>10. CASE c.op = "other"
  <2>1. PICK ans \in IF c.arg = "board" THEN BoardPages ELSE {ServerHistory(c.arg)} : TakeAlertCall(i, ans)
    BY <1>1, <1>10 DEF ServeAlertCall
  <2>2. UNCHANGED <<serverRules, born, acked>>
    BY <1>1, <1>10 DEF ServeAlertCall, alertServerVars
  <2>3. ans \in Histories
    BY <2>1, BoardPageType, ServerHistoryType
  <2>4. ans \in AlertAnswers
    BY <2>3 DEF AlertAnswers
  <2>5. /\ AlertTaken(requests, i, ans, requests')
        /\ AlertsType'
        /\ \A k \in DOMAIN requests' : AlertFits(requests'[k], tab')
        /\ NoneCrosses(requests')
    BY <1>2, <1>6, <1>10, <2>1, <2>2, <2>3, <2>4
  <2>6. FreshTab(requests', TabWanted, TabNow) /\ TabSettles(requests', TabNow, TabShown, astray)
    BY <1>1, <1>2, <1>10, <2>5, OtherTaken
  <2>7. TabNow' = TabNow
    BY <1>4, <2>2 DEF TabNow, ServerHistory, ServerRows, Pending
  <2> QED BY <1>4, <1>5, <2>5, <2>6, <2>7, Zenon DEF AlertsIInv
<1> QED BY <1>7, <1>8, <1>9, <1>10 DEF AlertCalls

\* An answer of a change is followed by a load.
LEMMA Reloaded ==
  ASSUME AlertsIInv, NEW i \in DOMAIN requests, loadData(historyFilter, Remaining(i, {})),
         UNCHANGED <<tab, serverRules, born, acked, historyFilter, astray>>,
         rules' \in Seq(AlertRules), rows' \in HistoryRows, unack' \in Nat,
         ruleForm' \in {ruleForm, Unset}, confirming' = confirming,
         selectedAlert' \in {selectedAlert, Unset}
  PROVE  AlertsIInv'
<1>1. /\ tab \in TabLoads /\ requests \in Seq(AlertCalls) /\ Len(requests) <= MaxAlertCalls
      /\ historyFilter \in {"all", "pending"}
      /\ \A k \in DOMAIN requests : AlertFits(requests[k], tab)
      /\ NoneCrosses(requests) /\ FreshTab(requests, TabWanted, TabNow)
      /\ TabSettles(requests, TabNow, TabShown, astray)
  BY DEF AlertsIInv, AlertsType
<1>2. PICK es, js : js = {} /\ es = RemoveAt(Marked(requests, js), i)
  OBVIOUS
<1>3. /\ es \in Seq(AlertCalls) /\ Len(es) = Len(requests) - 1
      /\ \A k \in DOMAIN es : AlertFits(es[k], tab)
      /\ NoneCrosses(es)
  BY <1>2, RequestEnds
<1>4. /\ requests' = Append(es, IF tab = "rules" THEN fetchAlertRules(es)
                                                 ELSE fetchAlertHistory(historyFilter))
      /\ isLoadingTab' = TRUE
  BY <1>2 DEF loadData, LoadCall, Remaining
<1>5. /\ requests' \in Seq(AlertCalls) /\ Len(requests') = Len(es) + 1
      /\ \A k \in DOMAIN requests' : AlertFits(requests'[k], tab)
      /\ NoneCrosses(requests')
      /\ FreshTab(requests', IF tab = "rules" THEN Unset ELSE historyFilter, TabNow')
      /\ TabSettles(requests', TabNow', TabShown', astray')
  <2>1. PICK ds, now, shown, a :
          ds = requests' /\ now = TabNow' /\ shown = TabShown' /\ a = astray'
    OBVIOUS
  <2>2. ds = Append(es, IF tab = "rules" THEN fetchAlertRules(es)
                                         ELSE fetchAlertHistory(historyFilter))
    BY <1>4, <2>1
  <2>3. /\ ds \in Seq(AlertCalls) /\ Len(ds) = Len(es) + 1
        /\ \A k \in DOMAIN ds : AlertFits(ds[k], tab)
        /\ NoneCrosses(ds)
        /\ FreshTab(ds, IF tab = "rules" THEN Unset ELSE historyFilter, now)
        /\ TabSettles(ds, now, shown, a)
    <3>1. /\ tab \in TabLoads /\ historyFilter \in {"all", "pending"} /\ es \in Seq(AlertCalls)
          /\ NoneCrosses(es)
      BY <1>1, <1>3
    <3>2. \A k \in DOMAIN es : AlertFits(es[k], tab)
      BY <1>3
    <3> QED BY ONLY <2>2, <3>1, <3>2, LoadSent
  <2> QED BY <2>1, <2>3
<1>6. AlertsType'
  <2>1. Len(requests') <= MaxAlertCalls
    BY <1>1, <1>3, <1>5, LenProperties
  <2>2. /\ ruleForm' \in [id : 0 .. MaxRules, on : BOOLEAN] \cup {Unset}
        /\ selectedAlert' \in AlertIds \cup {Unset}
        /\ ruleForm' # Unset => tab' = "rules"
        /\ selectedAlert' # Unset => tab' = "history"
    BY DEF AlertsIInv, AlertsType
  <2> QED BY <1>4, <1>5, <2>1, <2>2 DEF AlertsIInv, AlertsType
<1>7. tab' = tab /\ TabWanted' = IF tab = "rules" THEN Unset ELSE historyFilter
  BY DEF TabWanted
<1> QED BY <1>5, <1>6, <1>7, Zenon DEF AlertsIInv

LEMMA TabLoadedStep ==
  ASSUME AlertsIInv, NEW i \in DOMAIN requests, requests[i].st = "served", TabLoaded(i),
         UNCHANGED <<tab, alertServerVars>>
  PROVE  AlertsIInv'
<1>1. PICK c \in AlertCalls : c = requests[i]
  BY ElementOfSeq, LenProperties DEF AlertsIInv, AlertsType
<1>2. /\ tab \in TabLoads /\ requests \in Seq(AlertCalls) /\ Len(requests) <= MaxAlertCalls
      /\ \A k \in DOMAIN requests : AlertFits(requests[k], tab)
      /\ NoneCrosses(requests) /\ FreshTab(requests, TabWanted, TabNow)
      /\ TabSettles(requests, TabNow, TabShown, astray)
      /\ rules \in Seq(AlertRules) /\ rows \in HistoryRows /\ unack \in Nat
  BY DEF AlertsIInv, AlertsType
<1>3. /\ c.op \in TabLoads /\ c.st = "served" /\ AlertFits(c, tab) /\ c.late \in BOOLEAN
      /\ isLoadingTab' = FALSE /\ astray' = c.late
      /\ requests' = RemoveAt(Marked(requests, Overtaken(i)), i)
      /\ UNCHANGED <<historyFilter, ruleForm, confirming, selectedAlert, tab, serverRules, born, acked>>
  BY <1>1, <1>2 DEF TabLoaded, Remaining, dialogVars, alertServerVars, AlertCalls
<1>4. /\ rules' \in Seq(AlertRules) /\ rows' \in HistoryRows /\ unack' \in Nat
      /\ TabShown' = c.ans
  <2>1. CASE c.op = "rules"
    <3>1. rules' = c.ans /\ rows' = rows /\ unack' = unack
      BY <1>1, <2>1 DEF TabLoaded
    <3>2. tab = "rules" /\ c.ans \in Seq(AlertRules)
      BY <1>2, <1>3, <2>1 DEF AlertFits, TabLoads
    <3> QED BY <1>2, <1>3, <3>1, <3>2 DEF TabShown
  <2>2. CASE c.op = "history"
    <3>1. rules' = rules /\ rows' = c.ans.rows /\ unack' = c.ans.unack
      BY <1>1, <2>2 DEF TabLoaded, setAlertHistory
    <3>2. tab = "history" /\ c.ans \in Histories
      BY <1>2, <1>3, <2>2 DEF AlertFits, TabLoads
    <3>3. c.ans = [rows |-> c.ans.rows, unack |-> c.ans.unack]
      BY <3>2 DEF Histories
    <3>4. TabShown' = c.ans
      BY <1>3, <3>1, <3>2, <3>3 DEF TabShown
    <3> QED BY <1>2, <3>1, <3>2, <3>4 DEF Histories
  <2> QED BY <1>3, <2>1, <2>2 DEF TabLoads
<1>5. PICK js : js = Overtaken(i)
  OBVIOUS
<1>6. /\ requests' \in Seq(AlertCalls) /\ Len(requests') = Len(requests) - 1
      /\ \A k \in DOMAIN requests' : AlertFits(requests'[k], tab)
      /\ NoneCrosses(requests')
      /\ \E ms : /\ MarkedAs(requests, js, ms) /\ AlertGone(ms, i, requests')
                 /\ FreshTab(ms, TabWanted, TabNow)
  <2>1. PICK ds : ds = requests'
    OBVIOUS
  <2>2. ds = RemoveAt(Marked(requests, js), i)
    BY <1>3, <1>5, <2>1
  <2>3. /\ ds \in Seq(AlertCalls) /\ Len(ds) = Len(requests) - 1
        /\ \A k \in DOMAIN ds : AlertFits(ds[k], tab)
        /\ NoneCrosses(ds)
        /\ \E ms : /\ MarkedAs(requests, js, ms) /\ AlertGone(ms, i, ds)
                   /\ NoneCrosses(ms) /\ FreshTab(ms, TabWanted, TabNow)
                   /\ TabSettles(ms, TabNow, TabShown, astray)
    BY <2>2, RequestEnds
  <2> QED BY <2>1, <2>3
<1>7. PICK ms : MarkedAs(requests, js, ms) /\ AlertGone(ms, i, requests') /\ FreshTab(ms, TabWanted, TabNow)
  BY <1>6
<1>8. FreshTab(requests', TabWanted, TabNow)
  <2>1. /\ ms[i].op \in TabLoads
        /\ \A j \in DOMAIN ms : j < i /\ ms[j].op \in TabLoads => ms[j].late
    BY <1>1, <1>3, <1>5, <1>7 DEF MarkedAs, Overtaken, LoadsOut
  <2> QED BY <1>7, <2>1, GoneFresh
<1>9. TabSettles(requests', TabNow, c.ans, c.late)
  BY <1>1, <1>2, <1>3, <1>7, LoadSettled
<1>10. TabNow' = TabNow /\ TabWanted' = TabWanted
  BY <1>3 DEF TabNow, TabWanted, ServerHistory, ServerRows, Pending
<1>11. AlertsType'
  <2>1. Len(requests') <= MaxAlertCalls
    BY <1>2, <1>6, LenProperties, AlertsAssumptions
  <2>2. isLoadingTab' \in BOOLEAN /\ astray' \in BOOLEAN
    BY <1>3, Zenon
  <2> QED BY <1>3, <1>4, <1>6, <2>1, <2>2 DEF AlertsIInv, AlertsType
<1>12. TabSettles(requests', TabNow', TabShown', astray')
  BY <1>3, <1>4, <1>9, <1>10, Zenon
<1> QED BY <1>3, <1>6, <1>8, <1>10, <1>11, <1>12, Zenon DEF AlertsIInv

LEMMA RuleChangedStep ==
  ASSUME AlertsIInv, NEW i \in DOMAIN requests, requests[i].st = "served", RuleChanged(i),
         UNCHANGED <<tab, alertServerVars>>
  PROVE  AlertsIInv'
<1>1. PICK c \in AlertCalls : c = requests[i]
  BY ElementOfSeq, LenProperties DEF AlertsIInv, AlertsType
<1>2. c.st = "served" /\ AlertFits(c, tab) /\ rules \in Seq(AlertRules)
  BY <1>1 DEF AlertsIInv, AlertsType
<1>3. rules' \in Seq(AlertRules) /\ ruleForm' \in {ruleForm, Unset}
  <2>1. CASE c.op = "create"
    <3>1. rules' = Append(rules, c.ans) /\ ruleForm' \in {ruleForm, Unset}
      BY <1>1, <2>1 DEF RuleChanged, addAlertRule
    <3>2. c.ans \in AlertRules
      BY <1>2, <2>1 DEF AlertFits
    <3> QED BY <1>2, <3>1, <3>2, AppendProperties
  <2>2. CASE c.op = "update"
    <3>1. rules' = WithRule(rules, c.ans) /\ ruleForm' \in {ruleForm, Unset}
      BY <1>1, <2>2 DEF RuleChanged, updateAlertRule
    <3>2. c.ans \in AlertRules
      BY <1>2, <2>2 DEF AlertFits
    <3> QED BY <1>2, <3>1, <3>2, WithRuleType
  <2>3. CASE c.op = "delete"
    <3> DEFINE kept == {k \in DOMAIN rules : rules[k].id # c.arg}
    <3>1. PICK at \in [1 .. Cardinality(kept) -> kept] : rules' = [k \in DOMAIN at |-> rules[at[k]]]
      BY <1>1, <2>3 DEF RuleChanged, removeAlertRule
    <3>2. ruleForm' = ruleForm
      BY <1>1, <2>3 DEF RuleChanged
    <3>3. kept \subseteq DOMAIN rules
      OBVIOUS
    <3> HIDE DEF kept
    <3> QED BY <1>2, <3>1, <3>2, <3>3, RowsOfList
  <2> QED BY <1>1, <2>1, <2>2, <2>3 DEF RuleChanged
<1>4. /\ loadData(historyFilter, Remaining(i, {}))
      /\ UNCHANGED <<rows, unack, historyFilter, confirming, selectedAlert, astray>>
      /\ UNCHANGED <<tab, serverRules, born, acked>>
  BY DEF RuleChanged, alertServerVars
<1>5. rows' \in HistoryRows /\ unack' \in Nat
  BY <1>4 DEF AlertsIInv, AlertsType
<1> QED BY <1>3, <1>4, <1>5, Reloaded

LEMMA AcknowledgedStep ==
  ASSUME AlertsIInv, NEW i \in DOMAIN requests, requests[i].st = "served", Acknowledged(i),
         UNCHANGED <<tab, alertServerVars>>
  PROVE  AlertsIInv'
<1>1. /\ acknowledgeRow(requests[i].arg)
      /\ UNCHANGED <<rules, historyFilter, ruleForm, confirming>>
      /\ UNCHANGED <<tab, serverRules, born, acked>>
  BY DEF Acknowledged, alertServerVars
<1>2. rows \in HistoryRows /\ unack \in Nat /\ rules \in Seq(AlertRules)
  BY DEF AlertsIInv, AlertsType
<1>3. rows' \in HistoryRows /\ unack' \in Nat
  <2>1. CASE requests[i].arg \in DOMAIN rows
    <3>1. PICK a \in DOMAIN rows : a = requests[i].arg
      BY <2>1
    <3>2. rows' = [rows EXCEPT ![a] = TRUE] /\ unack' = IF unack > 0 THEN unack - 1 ELSE 0
      BY <1>1, <3>1 DEF acknowledgeRow
    <3>3. PICK A \in SUBSET AlertIds : rows \in [A -> BOOLEAN]
      BY <1>2 DEF HistoryRows
    <3>4. rows' \in [A -> BOOLEAN]
      BY <3>2, <3>3
    <3>5. rows' \in HistoryRows
      BY <3>3, <3>4 DEF HistoryRows
    <3> QED BY <1>2, <3>2, <3>5
  <2>2. CASE requests[i].arg \notin DOMAIN rows
    BY <1>1, <1>2, <2>2 DEF acknowledgeRow
  <2> QED BY <2>1, <2>2
<1>4. CASE /\ selectedAlert' = Unset /\ UNCHANGED astray
           /\ loadData(historyFilter, Remaining(i, {}))
  BY <1>1, <1>2, <1>3, <1>4, Reloaded
<1>5. CASE /\ \E f \in {"all", "pending"} : requests' = Append(Remaining(i, LoadsOut), otherHistory(f))
           /\ isLoadingTab' = TRUE /\ astray' = TRUE /\ selectedAlert' = selectedAlert
  <2>1. PICK f \in {"all", "pending"} : requests' = Append(Remaining(i, LoadsOut), otherHistory(f))
    BY <1>5
  <2>2. PICK es, js : js = LoadsOut /\ es = RemoveAt(Marked(requests, js), i)
    OBVIOUS
  <2>3. /\ es \in Seq(AlertCalls) /\ Len(es) = Len(requests) - 1
        /\ \A k \in DOMAIN es : AlertFits(es[k], tab)
        /\ NoneCrosses(es)
        /\ \E ms : /\ MarkedAs(requests, js, ms) /\ AlertGone(ms, i, es)
                   /\ NoneCrosses(ms) /\ FreshTab(ms, TabWanted, TabNow)
                   /\ TabSettles(ms, TabNow, TabShown, astray)
    BY <2>2, RequestEnds
  <2>4. PICK ms : MarkedAs(requests, js, ms) /\ AlertGone(ms, i, es) /\ FreshTab(ms, TabWanted, TabNow)
    BY <2>3
  <2>5. FreshTab(es, TabWanted, TabNow)
    <3>1. \A j \in DOMAIN ms : j # i /\ ms[j].op \in TabLoads => ms[j].late
      BY <2>2, <2>4 DEF MarkedAs, LoadsOut
    <3> QED BY <2>4, <3>1, GoneFresh
  <2>6. PICK c : c = otherHistory(f)
    OBVIOUS
  <2>7. c \in AlertCalls /\ c.st = "sent" /\ c.op = "other"
    BY <2>6, OtherCall
  <2>8. requests' = Append(es, c)
    BY <2>1, <2>2, <2>6 DEF Remaining
  <2>9. /\ tab = "history" /\ requests \in Seq(AlertCalls) /\ Len(requests) <= MaxAlertCalls
    <3>1. /\ requests \in Seq(AlertCalls) /\ Len(requests) <= MaxAlertCalls /\ tab \in TabLoads
          /\ AlertFits(requests[i], tab) /\ requests[i].op = "ack"
      BY DEF AlertsIInv, AlertsType, Acknowledged
    <3> QED BY <3>1 DEF AlertFits, TabLoads
  <2>10. AlertFits(c, tab)
    BY <2>7, <2>9 DEF AlertFits
  <2>11. PICK ds, now : ds = requests' /\ now = TabNow
    OBVIOUS
  <2>12. TabSettles(es, now, TabShown', TRUE) /\ FreshTab(es, TabWanted, now)
    BY <2>5, <2>11 DEF TabSettles
  <2>13. /\ ds \in Seq(AlertCalls) /\ Len(ds) = Len(es) + 1
         /\ \A k \in DOMAIN ds : AlertFits(ds[k], tab)
         /\ NoneCrosses(ds) /\ FreshTab(ds, TabWanted, now)
         /\ TabSettles(ds, now, TabShown', TRUE)
    <3>1. ds = Append(es, c) /\ c.op \notin {"rules", "history", "toggle"}
      BY <2>7, <2>8, <2>11
    <3> QED BY <2>3, <2>7, <2>10, <2>12, <3>1, ChangeSent
  <2>14. TabNow' = TabNow /\ TabWanted' = TabWanted
    BY <1>1 DEF TabNow, TabWanted, ServerHistory, ServerRows, Pending
  <2>15. AlertsType'
    <3>1. Len(requests') <= MaxAlertCalls
      BY <2>3, <2>9, <2>11, <2>13, LenProperties, AlertsAssumptions
    <3> QED BY <1>1, <1>3, <1>5, <2>11, <2>13, <3>1 DEF AlertsIInv, AlertsType
  <2> QED BY <1>1, <1>5, <2>11, <2>13, <2>14, <2>15, Zenon DEF AlertsIInv
<1> QED BY <1>4, <1>5 DEF Acknowledged

LEMMA ToggledStep ==
  ASSUME AlertsIInv, NEW i \in DOMAIN requests, requests[i].st = "served", Toggled(i),
         UNCHANGED <<tab, alertServerVars>>
  PROVE  AlertsIInv'
<1>1. PICK c \in AlertCalls : c = requests[i]
  BY ElementOfSeq, LenProperties DEF AlertsIInv, AlertsType
<1>2. /\ tab \in TabLoads /\ requests \in Seq(AlertCalls) /\ Len(requests) <= MaxAlertCalls
      /\ \A k \in DOMAIN requests : AlertFits(requests[k], tab)
      /\ NoneCrosses(requests) /\ FreshTab(requests, TabWanted, TabNow)
      /\ TabSettles(requests, TabNow, TabShown, astray)
      /\ rules \in Seq(AlertRules) /\ astray \in BOOLEAN
  BY DEF AlertsIInv, AlertsType
<1>3. /\ c.op = "toggle" /\ c.st = "served" /\ AlertFits(c, tab) /\ c.late \in BOOLEAN
      /\ rules' = WithRule(rules, c.ans) \/ flipSecondRow(c.ans)
      /\ astray' = (astray \/ c.late)
      /\ requests' = RemoveAt(Marked(requests, {}), i)
      /\ UNCHANGED <<rows, unack, isLoadingTab, historyFilter, ruleForm, confirming, selectedAlert,
                     tab, serverRules, born, acked>>
  BY <1>1, <1>2 DEF Toggled, updateAlertRule, Remaining, dialogVars, alertServerVars, AlertCalls
<1>4. tab = "rules" /\ c.ans \in AlertRules
  BY <1>2, <1>3 DEF AlertFits, TabLoads
<1>5. rules' \in Seq(AlertRules)
  <2>1. PICK rs : rs = WithRule(rules, c.ans)
    OBVIOUS
  <2>2. rs \in Seq(AlertRules) /\ DOMAIN rs = DOMAIN rules
    <3>1. rs \in Seq(AlertRules)
      BY <1>2, <1>4, <2>1, WithRuleType
    <3> QED BY <2>1, <3>1 DEF WithRule
  <2>3. CASE rules' = rs
    BY <2>2, <2>3
  <2>4. CASE flipSecondRow(c.ans)
    <3>1. PICK k \in DOMAIN rs : rules' = [rs EXCEPT ![k].on = ~@]
      BY <2>1, <2>2, <2>4 DEF flipSecondRow
    <3> QED BY <2>2, <3>1, SecondFlipped
  <2> QED BY <1>3, <2>1, <2>3, <2>4
<1>6. TabShown = rules /\ TabShown' = rules' /\ TabNow = serverRules /\ ServerList(serverRules, born)
  BY <1>3, <1>4 DEF TabShown, TabNow, AlertsIInv, AlertsType
<1>7. PICK ds : ds = requests' /\ ds = RemoveAt(Marked(requests, {}), i)
  BY <1>3
<1>8. /\ ds \in Seq(AlertCalls) /\ Len(ds) = Len(requests) - 1
      /\ \A k \in DOMAIN ds : AlertFits(ds[k], tab)
      /\ NoneCrosses(ds)
      /\ \E ms : /\ MarkedAs(requests, {}, ms) /\ AlertGone(ms, i, ds)
                 /\ NoneCrosses(ms) /\ FreshTab(ms, TabWanted, TabNow)
                 /\ TabSettles(ms, TabNow, TabShown, astray)
  BY <1>7, RequestEnds
<1>9. PICK ms : /\ MarkedAs(requests, {}, ms) /\ AlertGone(ms, i, ds)
                /\ NoneCrosses(ms) /\ FreshTab(ms, TabWanted, TabNow)
                /\ TabSettles(ms, TabNow, TabShown, astray)
  BY <1>8
<1>10. ms[i].op = "toggle" /\ ms[i].st = "served" /\ ms[i].ans = c.ans /\ (ms[i].late <=> c.late)
  BY <1>1, <1>3, <1>9 DEF MarkedAs
<1>11. FreshTab(ds, TabWanted, TabNow)
  <2>1. ms[i].op \notin TabLoads /\ ~FollowedChange(ms[i])
    BY <1>10 DEF TabLoads, FollowedChange
  <2> QED BY <1>9, <2>1, GoneFresh
<1>12. TabSettles(ds, TabNow, TabShown', astray')
  <2> SUFFICES ASSUME ~astray', Calm(ds) PROVE Due(ds, TabNow, TabShown')
    BY DEF TabSettles
  <2>1. TakenToggle(ms[i])
    BY <1>10 DEF TakenToggle
  <2>2. ~astray /\ ~ms[i].late
    BY <1>3, <1>10
  <2>3. Due(ds, TabNow, TabNow) /\ WithRule(TabShown, ms[i].ans) = TabNow
    BY <1>9, <2>1, <2>2, ToggleSettled
  <2> HIDE DEF WithRule
  <2>4. WithRule(rules, c.ans) = serverRules
    BY <1>6, <1>10, <2>3
  <2>5. ~flipSecondRow(c.ans)
    BY <1>2, <1>6, <2>4, NoSecondRow DEF flipSecondRow
  <2>6. TabShown' = TabNow
    BY <1>3, <1>6, <2>4, <2>5
  <2> QED BY <2>3, <2>6
<1>13. TabNow' = TabNow /\ TabWanted' = TabWanted
  BY <1>3 DEF TabNow, TabWanted, ServerHistory, ServerRows, Pending
<1>14. AlertsType'
  <2>1. Len(requests') <= MaxAlertCalls
    BY <1>2, <1>7, <1>8, LenProperties, AlertsAssumptions
  <2>2. astray' \in BOOLEAN
    BY <1>2, <1>3, Zenon
  <2> QED BY <1>3, <1>5, <1>7, <1>8, <2>1, <2>2 DEF AlertsIInv, AlertsType
<1> QED BY <1>3, <1>6, <1>7, <1>8, <1>11, <1>12, <1>13, <1>14, Zenon DEF AlertsIInv

LEMMA AlertFailsStep ==
  ASSUME AlertsIInv, NEW i \in DOMAIN requests, AlertCallFails(i)
  PROVE  AlertsIInv'
<1>1. PICK c \in AlertCalls : c = requests[i]
  BY ElementOfSeq, LenProperties DEF AlertsIInv, AlertsType
<1>2. /\ tab \in TabLoads /\ requests \in Seq(AlertCalls) /\ Len(requests) <= MaxAlertCalls
      /\ \A k \in DOMAIN requests : AlertFits(requests[k], tab)
      /\ NoneCrosses(requests) /\ FreshTab(requests, TabWanted, TabNow)
      /\ TabSettles(requests, TabNow, TabShown, astray)
      /\ astray \in BOOLEAN /\ isLoadingTab \in BOOLEAN
  BY DEF AlertsIInv, AlertsType
<1>3. PICK js : js = IF c.op \in TabLoads THEN Overtaken(i)
                     ELSE IF c.op # "other" /\ c.st = "served" THEN LoadsOut ELSE {}
  OBVIOUS
<1>4. /\ requests' = RemoveAt(Marked(requests, js), i)
      /\ isLoadingTab' = (isLoadingTab /\ c.op \notin TabLoads \cup {"other"})
      /\ c.op \in TabLoads \/ (c.op # "other" /\ c.st = "served") => astray'
      /\ astray' \in BOOLEAN /\ (astray => astray')
      /\ UNCHANGED <<tab, serverRules, born, acked, rules, rows, unack, historyFilter, ruleForm,
                     confirming, selectedAlert>>
  <2>1. /\ requests' = RemoveAt(Marked(requests, js), i)
        /\ isLoadingTab' = (isLoadingTab /\ c.op \notin TabLoads \cup {"other"})
        /\ UNCHANGED <<tab, serverRules, born, acked, rules, rows, unack, historyFilter, ruleForm,
                       confirming, selectedAlert>>
    BY <1>1, <1>3 DEF AlertCallFails, Remaining, alertServerVars, storeVars, dialogVars
  <2>2. astray' = (astray \/ c.op \in TabLoads \/ (c.op \notin TabLoads \cup {"other"} /\ c.st = "served"))
    BY <1>1 DEF AlertCallFails
  <2> QED BY <1>2, <2>1, <2>2, Zenon
<1>5. PICK ds : ds = requests' /\ ds = RemoveAt(Marked(requests, js), i)
  BY <1>4
<1>6. /\ ds \in Seq(AlertCalls) /\ Len(ds) = Len(requests) - 1
      /\ \A k \in DOMAIN ds : AlertFits(ds[k], tab)
      /\ NoneCrosses(ds)
      /\ \E ms : /\ MarkedAs(requests, js, ms) /\ AlertGone(ms, i, ds)
                 /\ NoneCrosses(ms) /\ FreshTab(ms, TabWanted, TabNow)
                 /\ TabSettles(ms, TabNow, TabShown, astray)
  BY <1>5, RequestEnds
<1>7. PICK ms : /\ MarkedAs(requests, js, ms) /\ AlertGone(ms, i, ds)
                /\ NoneCrosses(ms) /\ FreshTab(ms, TabWanted, TabNow)
                /\ TabSettles(ms, TabNow, TabShown, astray)
  BY <1>6
<1>8. /\ DOMAIN ms = DOMAIN requests /\ ms[i].op = c.op /\ ms[i].st = c.st
      /\ \A j \in DOMAIN ms : ms[j].op = requests[j].op /\ (j \in js => ms[j].late)
  BY <1>1, <1>7 DEF MarkedAs
<1>9. FreshTab(ds, TabWanted, TabNow)
  <2>1. CASE c.op \in TabLoads
    <3>1. \A j \in DOMAIN ms : j < i /\ ms[j].op \in TabLoads => ms[j].late
      BY <1>3, <1>8, <2>1 DEF Overtaken, LoadsOut
    <3> QED BY <1>7, <1>8, <2>1, <3>1, GoneFresh
  <2>2. CASE c.op \notin TabLoads /\ c.op # "other" /\ c.st = "served"
    <3>1. \A j \in DOMAIN ms : j # i /\ ms[j].op \in TabLoads => ms[j].late
      BY <1>3, <1>8, <2>2 DEF LoadsOut
    <3> QED BY <1>7, <1>8, <3>1, GoneFresh
  <2>3. CASE c.op \notin TabLoads /\ (c.op = "other" \/ c.st # "served")
    <3>1. ms[i].op \notin TabLoads /\ ~FollowedChange(ms[i])
      BY <1>8, <2>3 DEF FollowedChange
    <3> QED BY <1>7, <3>1, GoneFresh
  <2> QED BY <2>1, <2>2, <2>3
<1>10. TabSettles(ds, TabNow, TabShown, astray')
  <2>1. CASE c.op \in TabLoads \/ (c.op # "other" /\ c.st = "served")
    BY <1>4, <2>1 DEF TabSettles
  <2>2. CASE c.op \notin TabLoads /\ (c.op = "other" \/ c.st # "served")
    <3>1. ms[i].op \notin TabLoads /\ ~FollowedChange(ms[i]) /\ ~TakenToggle(ms[i])
      BY <1>8, <2>2 DEF FollowedChange, TakenToggle
    <3>2. TabSettles(ds, TabNow, TabShown, astray)
      BY <1>7, <3>1, GoneSettles
    <3> QED BY <1>4, <3>2 DEF TabSettles
  <2> QED BY <2>1, <2>2
<1>11. TabNow' = TabNow /\ TabWanted' = TabWanted /\ TabShown' = TabShown
  BY <1>4 DEF TabNow, TabWanted, TabShown, ServerHistory, ServerRows, Pending
<1>12. AlertsType'
  <2>1. Len(requests') <= MaxAlertCalls
    BY <1>2, <1>5, <1>6, LenProperties, AlertsAssumptions
  <2>2. isLoadingTab' \in BOOLEAN
    BY <1>2, <1>4, Zenon
  <2> QED BY <1>4, <1>5, <1>6, <2>1, <2>2 DEF AlertsIInv, AlertsType
<1> QED BY <1>4, <1>5, <1>6, <1>9, <1>10, <1>11, <1>12, Zenon DEF AlertsIInv

LEMMA AlertsStart == ASSUME AlertsInit PROVE AlertsIInv
<1>1. PICK cs :
        /\ cs = <<>>
        /\ requests = Append(cs, IF tab = "rules" THEN fetchAlertRules(cs) ELSE fetchAlertHistory("all"))
  BY DEF AlertsInit, LoadCall
<1>2. tab \in TabLoads /\ historyFilter = "all" /\ astray = TRUE /\ isLoadingTab = TRUE
  BY DEF AlertsInit
<1>3. /\ cs \in Seq(AlertCalls) /\ Len(cs) = 0 /\ NoneCrosses(cs)
      /\ \A i \in DOMAIN cs : AlertFits(cs[i], tab)
  <2>1. <<>> \in Seq(AlertCalls) /\ Len(<<>>) = 0 /\ DOMAIN <<>> = {}
    OBVIOUS
  <2> QED BY <1>1, <2>1 DEF NoneCrosses
<1>4. /\ requests \in Seq(AlertCalls) /\ Len(requests) = Len(cs) + 1
      /\ \A i \in DOMAIN requests : AlertFits(requests[i], tab)
      /\ NoneCrosses(requests)
      /\ FreshTab(requests, IF tab = "rules" THEN Unset ELSE "all", TabNow)
      /\ TabSettles(requests, TabNow, TabShown, astray)
  <2>1. PICK f \in {"all", "pending"} : f = "all"
    OBVIOUS
  <2>2. PICK t, ds, a :
          /\ t \in TabLoads /\ t = tab /\ ds = requests /\ a = astray
          /\ ds = Append(cs, IF t = "rules" THEN fetchAlertRules(cs) ELSE fetchAlertHistory(f))
    BY <1>1, <1>2, <2>1
  <2>3. (\A i \in DOMAIN cs : AlertFits(cs[i], t)) /\ NoneCrosses(cs) /\ cs \in Seq(AlertCalls)
    BY <1>3, <2>2
  <2>4. /\ ds \in Seq(AlertCalls) /\ Len(ds) = Len(cs) + 1
        /\ \A i \in DOMAIN ds : AlertFits(ds[i], t)
        /\ NoneCrosses(ds)
        /\ FreshTab(ds, IF t = "rules" THEN Unset ELSE f, TabNow)
        /\ TabSettles(ds, TabNow, TabShown, a)
    BY <2>2, <2>3, LoadSent
  <2> QED BY <2>1, <2>2, <2>4
<1>5. ServerList(serverRules, born) /\ born \in 0 .. MaxRules
  <2>1. PICK on \in [1 .. born -> BOOLEAN] :
          serverRules = [k \in 1 .. born |-> [id |-> k, on |-> on[k]]]
    BY DEF AlertsInit
  <2>2. born \in 0 .. MaxRules /\ born \in Nat
    BY AlertsAssumptions DEF AlertsInit
  <2>3. serverRules \in [1 .. born -> [id : 1 .. born, on : BOOLEAN]]
    BY <2>1
  <2>4. serverRules \in Seq([id : 1 .. born, on : BOOLEAN])
    <3> DEFINE R == [id : 1 .. born, on : BOOLEAN]
    <3>1. serverRules \in [1 .. born -> R]
      BY <2>3
    <3> HIDE DEF R
    <3>2. serverRules \in Seq(R)
      BY <2>2, <3>1, SeqDef
    <3> QED BY <3>2 DEF R
  <2>5. \A j, k \in DOMAIN serverRules : serverRules[j].id = serverRules[k].id => j = k
    BY <2>1
  <2> QED BY <2>2, <2>4, <2>5 DEF ServerList
<1>6. rows \in HistoryRows
  <2>1. rows \in [{} -> BOOLEAN] /\ {} \in SUBSET AlertIds
    BY DEF AlertsInit
  <2> QED BY <2>1 DEF HistoryRows
<1>7. AlertsType
  <2>1. Len(requests) <= MaxAlertCalls
    BY <1>3, <1>4, AlertsAssumptions, LenProperties
  <2>2. acked \subseteq AlertIds /\ rules \in Seq(AlertRules) /\ unack \in Nat
    BY DEF AlertsInit
  <2>3. ruleForm = Unset /\ confirming = Unset /\ selectedAlert = Unset
    BY DEF AlertsInit
  <2> QED BY <1>2, <1>4, <1>5, <1>6, <2>1, <2>2, <2>3 DEF AlertsType
<1>8. TabWanted = IF tab = "rules" THEN Unset ELSE "all"
  BY <1>2 DEF TabWanted
<1> QED BY <1>4, <1>7, <1>8, Zenon DEF AlertsIInv

\* The view is shown again: what an earlier mount left out, and a load.
LEMMA ReturnStep == ASSUME AlertsIInv, Return PROVE AlertsIInv'
<1>1. PICK f \in {"all", "pending"} : f = "all"
  OBVIOUS
<1>2. /\ tab \in TabLoads /\ requests \in Seq(AlertCalls)
      /\ \A i \in DOMAIN requests : AlertFits(requests[i], tab)
      /\ NoneCrosses(requests)
  BY DEF AlertsIInv, AlertsType
<1>3. PICK cs : cs = LeftOut(requests)
  OBVIOUS
<1>4. /\ requests' = Append(cs, IF tab = "rules" THEN fetchAlertRules(cs) ELSE fetchAlertHistory(f))
      /\ Len(cs) < MaxAlertCalls /\ isLoadingTab' = TRUE /\ historyFilter' = f
      /\ ruleForm' = Unset /\ confirming' = Unset /\ selectedAlert' = Unset
      /\ UNCHANGED <<tab, serverRules, born, acked, rules, rows, unack, astray>>
  BY <1>1, <1>3 DEF Return, loadData, LoadCall, alertServerVars, storeVars
<1>5. Len(requests) \in Nat /\ DOMAIN requests = 1 .. Len(requests)
      /\ \A j \in 1 .. Len(requests) : requests[j] \in AlertCalls
  BY <1>2, LenProperties, ElementOfSeq
<1>6. DOMAIN cs = DOMAIN requests /\ cs = [j \in 1 .. Len(requests) |-> cs[j]]
  BY <1>3, <1>5 DEF LeftOut
<1>7. ASSUME NEW j \in DOMAIN cs
      PROVE  /\ cs[j] \in AlertCalls
             /\ cs[j].op = IF requests[j].op = "history" THEN "other" ELSE requests[j].op
             /\ cs[j].arg = requests[j].arg /\ cs[j].st = requests[j].st
             /\ cs[j].ans = requests[j].ans /\ cs[j].late = requests[j].late
  <2>1. requests[j] \in AlertCalls
    BY <1>5, <1>6
  <2>2. PICK q : q = cs[j]
    OBVIOUS
  <2>3. q = [requests[j] EXCEPT !.own = FALSE,
                               !.op = IF @ = "history" THEN "other" ELSE @]
    BY <1>3, <1>6, <2>2 DEF LeftOut
  <2>4. q \in AlertCalls
    BY <2>1, <2>3 DEF AlertCalls
  <2>5. /\ q.op = IF requests[j].op = "history" THEN "other" ELSE requests[j].op
        /\ q.arg = requests[j].arg /\ q.st = requests[j].st
        /\ q.ans = requests[j].ans /\ q.late = requests[j].late
    BY <2>1, <2>3 DEF AlertCalls
  <2> QED BY <2>2, <2>4, <2>5
<1>8. cs \in Seq(AlertCalls)
  <2>1. cs \in [1 .. Len(requests) -> AlertCalls]
    BY <1>5, <1>6, <1>7
  <2> QED BY <1>5, <2>1, SeqDef
<1>9. \A i \in DOMAIN cs : AlertFits(cs[i], tab)
  BY <1>2, <1>6, <1>7 DEF AlertFits, TabLoads
<1>10. NoneCrosses(cs)
  BY <1>2, <1>6, <1>7 DEF NoneCrosses
<1>11. /\ requests' \in Seq(AlertCalls) /\ Len(requests') = Len(cs) + 1
       /\ \A i \in DOMAIN requests' : AlertFits(requests'[i], tab)
       /\ NoneCrosses(requests')
       /\ FreshTab(requests', IF tab = "rules" THEN Unset ELSE f, TabNow')
       /\ TabSettles(requests', TabNow', TabShown', astray')
  BY <1>2, <1>4, <1>8, <1>9, <1>10, LoadSent
<1>12. AlertsType'
  <2>1. Len(requests') <= MaxAlertCalls
    BY <1>4, <1>8, <1>11, AlertsAssumptions, LenProperties
  <2> QED BY <1>4, <1>11, <2>1 DEF AlertsIInv, AlertsType
<1>13. tab' = tab /\ TabWanted' = IF tab = "rules" THEN Unset ELSE f
  BY <1>4 DEF TabWanted
<1> QED BY <1>11, <1>12, <1>13, Zenon DEF AlertsIInv

\* The answer of another mount's load.
LEMMA OtherLoadedStep ==
  ASSUME AlertsIInv, NEW i \in DOMAIN requests, requests[i].st = "served", OtherLoaded(i),
         UNCHANGED <<tab, alertServerVars>>
  PROVE  AlertsIInv'
<1>1. PICK c \in AlertCalls : c = requests[i]
  BY ElementOfSeq, LenProperties DEF AlertsIInv, AlertsType
<1>2. /\ requests \in Seq(AlertCalls) /\ Len(requests) <= MaxAlertCalls
      /\ AlertFits(requests[i], tab)
  BY DEF AlertsIInv, AlertsType
<1>3. /\ c.op = "other" /\ isLoadingTab' = FALSE /\ astray' = TRUE
      /\ rows' = c.ans.rows /\ unack' = c.ans.unack
      /\ requests' = RemoveAt(Marked(requests, {}), i)
      /\ UNCHANGED <<rules, historyFilter, ruleForm, confirming, selectedAlert, tab, serverRules, born, acked>>
  BY <1>1 DEF OtherLoaded, setAlertHistory, Remaining, dialogVars, alertServerVars
<1>4. rows' \in HistoryRows /\ unack' \in Nat
  <2>1. c.ans \in Histories
    BY <1>1, <1>2, <1>3 DEF AlertFits
  <2> QED BY <1>3, <2>1 DEF Histories
<1>5. PICK ds, js : ds = requests' /\ js = {} /\ ds = RemoveAt(Marked(requests, js), i)
  BY <1>3
<1>6. /\ ds \in Seq(AlertCalls) /\ Len(ds) = Len(requests) - 1
      /\ \A k \in DOMAIN ds : AlertFits(ds[k], tab)
      /\ NoneCrosses(ds)
      /\ \E ms : /\ MarkedAs(requests, js, ms) /\ AlertGone(ms, i, ds)
                 /\ NoneCrosses(ms) /\ FreshTab(ms, TabWanted, TabNow)
                 /\ TabSettles(ms, TabNow, TabShown, astray)
  BY <1>5, RequestEnds
<1>7. PICK ms : MarkedAs(requests, js, ms) /\ AlertGone(ms, i, ds) /\ FreshTab(ms, TabWanted, TabNow)
  BY <1>6
<1>8. FreshTab(ds, TabWanted, TabNow)
  <2>1. ms[i].op \notin TabLoads /\ ~FollowedChange(ms[i])
    BY <1>1, <1>3, <1>7 DEF MarkedAs, TabLoads, FollowedChange
  <2> QED BY <1>7, <2>1, GoneFresh
<1>9. TabNow' = TabNow /\ TabWanted' = TabWanted
  BY <1>3 DEF TabNow, TabWanted, ServerHistory, ServerRows, Pending
<1>10. AlertsType'
  <2>1. Len(requests') <= MaxAlertCalls
    BY <1>2, <1>5, <1>6, LenProperties, AlertsAssumptions
  <2> QED BY <1>3, <1>4, <1>5, <1>6, <2>1 DEF AlertsIInv, AlertsType
<1>11. TabSettles(requests', TabNow', TabShown', astray')
  BY <1>3 DEF TabSettles
<1> QED BY <1>3, <1>5, <1>6, <1>8, <1>9, <1>10, <1>11, Zenon DEF AlertsIInv

LEMMA AlertsStep == ASSUME AlertsIInv, [AlertsNext]_alertsVars PROVE AlertsIInv'
<1>1. CASE RefreshTab \/ \E f \in {"all", "pending"} : ChooseFilter(f)
  BY <1>1, RefreshTabStep
<1>2. CASE \/ openNewRuleDialog \/ CloseDialog
           \/ \E i \in DOMAIN rules : openEditRuleDialog(i) \/ confirmDeleteRule(i)
           \/ \E a \in AlertIds : openAcknowledgeDialog(a)
  BY <1>2, AlertDialogStep
<1>3. CASE saveRule \/ acknowledgeAlert \/ acceptDelete \/ BoardRefresh
  BY <1>3, AlertChangeStep
<1>4. CASE \E i \in DOMAIN rules : toggleRuleEnabled(i)
  BY <1>4, ToggleStep
<1>5. CASE \E i \in DOMAIN requests : ServeAlertCall(i)
  BY <1>5, ServeAlertStep
<1>6. CASE \E i \in DOMAIN requests : AnswerAlertCall(i)
  BY <1>6, TabLoadedStep, OtherLoadedStep, RuleChangedStep, ToggledStep, AcknowledgedStep DEF AnswerAlertCall
<1>7. CASE \E i \in DOMAIN requests : AlertCallFails(i)
  BY <1>7, AlertFailsStep
<1>8. CASE UNCHANGED alertsVars
  <2>1. UNCHANGED <<tab, serverRules, born, acked, rules, rows, unack, isLoadingTab, requests,
                    historyFilter, ruleForm, confirming, selectedAlert, astray>>
    BY <1>8 DEF alertsVars, alertServerVars, storeVars, dialogVars
  <2>2. AlertsType'
    BY <2>1 DEF AlertsIInv, AlertsType
  <2>3. TabNow' = TabNow /\ TabWanted' = TabWanted /\ TabShown' = TabShown
    BY <2>1 DEF TabNow, TabWanted, TabShown, ServerHistory, ServerRows, Pending
  <2> QED BY <2>1, <2>2, <2>3, Zenon DEF AlertsIInv
<1>9. CASE Return
  BY <1>9, ReturnStep
<1> QED BY <1>1, <1>2, <1>3, <1>4, <1>5, <1>6, <1>7, <1>8, <1>9, Zenon DEF AlertsNext

\* However calls of the alerts view are served, answered, lost and overtaken,
\* the list or the history and what is out add up to the server's.
THEOREM AlertsInvariant == AlertsSpec => []AlertsIInv
<1>1. AlertsInit => AlertsIInv
  BY AlertsStart
<1>2. AlertsIInv /\ [AlertsNext]_alertsVars => AlertsIInv'
  BY AlertsStep
<1> QED BY <1>1, <1>2, PTL DEF AlertsSpec

\* When nothing is out, and nothing crossed, failed or was overtaken, what is
\* shown is the server's.
LEMMA AlertsSettled == ASSUME AlertsIInv, requests = <<>>, ~astray PROVE TabShown = TabNow
<1>1. DOMAIN requests = {}
  OBVIOUS
<1>2. Calm(requests)
  BY <1>1 DEF Calm, TabLoadOut, TabChanged
<1>3. Due(requests, TabNow, TabShown)
  BY <1>2 DEF AlertsIInv, TabSettles
<1> QED BY <1>1, <1>3 DEF Due

\* The rules AlertsView lists (setAlertRules, addAlertRule, updateAlertRule and
\* removeAlertRule of monitorStore.ts) settle on the server's.
THEOREM RulesAreRight == AlertsSpec => []RulesSettle
<1>1. AlertsIInv => RulesSettle
  <2> SUFFICES ASSUME AlertsIInv, tab = "rules", requests = <<>>, ~astray PROVE rules = serverRules
    BY DEF RulesSettle
  <2>1. TabShown = TabNow
    BY AlertsSettled
  <2> QED BY <2>1 DEF TabShown, TabNow
<1> QED BY <1>1, AlertsInvariant, PTL

\* The history and its count of unacknowledged alerts (setAlertHistory and
\* acknowledgeAlert of monitorStore.ts) settle on the server's, and the count
\* never falls below zero.
THEOREM HistoryIsRight == AlertsSpec => []HistoryInv
<1>1. AlertsIInv => AlertsTypeOK
  <2> SUFFICES ASSUME AlertsIInv PROVE AlertsTypeOK
    OBVIOUS
  <2>1. \A k \in DOMAIN serverRules : serverRules[k] \in [id : 1 .. born, on : BOOLEAN]
    <3> DEFINE R == [id : 1 .. born, on : BOOLEAN]
    <3>1. serverRules \in Seq(R)
      BY DEF AlertsIInv, AlertsType, ServerList
    <3> HIDE DEF R
    <3>2. \A k \in DOMAIN serverRules : serverRules[k] \in R
      BY <3>1, ElementOfSeq, LenProperties
    <3> QED BY <3>2 DEF R
  <2>2. \A k \in DOMAIN rules : rules[k] \in [id : RuleIds, on : BOOLEAN]
    <3>1. \A k \in DOMAIN rules : rules[k] \in AlertRules
      BY ElementOfSeq, LenProperties DEF AlertsIInv, AlertsType
    <3> QED BY <3>1 DEF AlertRules
  <2>3. DOMAIN rows \subseteq AlertIds /\ \A a \in DOMAIN rows : rows[a] \in BOOLEAN
    <3>1. PICK A \in SUBSET AlertIds : rows \in [A -> BOOLEAN]
      BY DEF AlertsIInv, AlertsType, HistoryRows
    <3> QED BY <3>1
  <2>4. ruleForm \in [id : RuleIds \cup {0}, on : BOOLEAN] \cup {Unset}
    <3>1. RuleIds \cup {0} = 0 .. MaxRules
      BY AlertsAssumptions DEF RuleIds
    <3> QED BY <3>1 DEF AlertsIInv, AlertsType
  <2> QED BY <2>1, <2>2, <2>3, <2>4 DEF AlertsTypeOK, AlertsIInv, AlertsType
<1>2. AlertsIInv => HistorySettles
  <2> SUFFICES ASSUME AlertsIInv, tab = "history", requests = <<>>, ~astray
               PROVE  rows = ServerRows(historyFilter) /\ unack = Cardinality(Pending)
    BY DEF HistorySettles
  <2>1. TabShown = TabNow
    BY AlertsSettled
  <2>2. [rows |-> rows, unack |-> unack]
          = [rows |-> ServerRows(historyFilter), unack |-> Cardinality(Pending)]
    BY <2>1 DEF TabShown, TabNow, ServerHistory
  <2> QED BY <2>2
<1>3. AlertsIInv => HistoryInv
  BY <1>1, <1>2 DEF HistoryInv
<1> QED BY <1>3, AlertsInvariant, PTL
=============================================================================

----------------------- MODULE WorkflowHistoryProofs -----------------------
(***************************************************************************)
(* The page of one workflow instance, for any instances, ids and bounds:   *)
(* its pairs join what belongs together, its selection means the event     *)
(* that was clicked, its removals are those that were confirmed.           *)
(*                                                                         *)
(* HistInv is inductive.  Logged says what the engine writes: for each id  *)
(* starts and completions take turns, though ids are reused, and the times *)
(* of one id do not go back, though those of all events may.  So the order *)
(* of display keeps the rows of one id in turns (SortKeepsTurns), and the  *)
(* pass of buildPairIndex, which knows ids only, finds for each completion *)
(* the start of its task (WrittenPairs).  Page says what selection, link   *)
(* and address point at; a history that grows in time keeps its rows where *)
(* they are (InTimeKeepsRows), so that they go on pointing there.          *)
(* Confirmed is about the dialog and the requests.                         *)
(***************************************************************************)
EXTENDS WorkflowHistory, FiniteSetTheorems, WellFoundedInduction, TLAPS

-----------------------------------------------------------------------------
(* The invariant                                                           *)

Types == START_TYPES \union {"ExecutionStarted", "TaskCompleted", "ExecutionCompleted"}
Events == [serial : Nat, type : Types, id : Ids \union {None}, task : Nat, ts : Nat]

\* A start or a completion of an id.
ofPair(e, i) == inPair(e) /\ e.id = i

\* For each id starts and completions take turns: a completion follows the start of its task,
\* and nothing follows a start but its completion.
TakeTurns(c) ==
    /\ \A n \in DOMAIN c : isEnd(c[n]) =>
          \E m \in 1..(n - 1) :
             /\ isStart(c[m]) /\ c[m].id = c[n].id /\ c[m].task = c[n].task
             /\ \A k \in (m + 1)..(n - 1) : ~ofPair(c[k], c[n].id)
    /\ \A m, k \in DOMAIN c : m < k /\ isStart(c[m]) /\ ofPair(c[k], c[m].id) =>
          \E n \in (m + 1)..k : isEnd(c[n]) /\ c[n].id = c[m].id /\ c[n].task = c[m].task
    /\ \A m, n \in DOMAIN c :
          (isStart(c[m]) /\ isStart(c[n])) \/ (isEnd(c[m]) /\ isEnd(c[n])) =>
             (c[m].task = c[n].task => m = n)

\* A history as the engine writes it.
Written(h) ==
    /\ h \in Seq(Events)
    /\ \A n \in DOMAIN h : inPair(h[n]) => h[n].id \in Ids
    /\ \A n \in DOMAIN h : h[n].type = "ExecutionStarted" => n = 1
    /\ \A n \in DOMAIN h : h[n].type = "ExecutionCompleted" => n = Len(h)
    /\ \A m, n \in DOMAIN h : m < n /\ inPair(h[m]) /\ ofPair(h[n], h[m].id) => h[m].ts <= h[n].ts
    /\ TakeTurns(h)

Logged ==
    /\ now \in 0..MaxTime /\ serial \in 3..MaxEvents
    /\ DOMAIN log = Instances
    /\ \A i \in Instances :
          /\ Written(log[i]) /\ Len(log[i]) <= serial
          /\ \A n \in DOMAIN log[i] : log[i][n].ts <= now /\ log[i][n].task <= serial

\* Histories the page holds were the engine's.
Fetched(h) == Written(h) /\ Len(h) <= MaxEvents /\ \A n \in DOMAIN h : h[n].ts <= MaxTime

Held ==
    /\ inst \in Instances /\ hash \in 0..MaxEvents /\ {order, pref} \subseteq {"asc", "desc"}
    /\ mounted \in BOOLEAN /\ isError \in BOOLEAN /\ shifted \in BOOLEAN
    /\ DOMAIN exec = Instances /\ \A i \in Instances : Fetched(exec[i])
    /\ selection \in [pairId : Ids \union {None}, index : 0..MaxEvents]
    /\ (selection.index = None) = (selection.pairId = None)

\* A copied link means the row it was taken from.
Copied ==
    /\ DOMAIN clip = {"inst", "hash", "event", "rows"}
    /\ clip.inst \in Instances /\ clip.hash \in 0..MaxEvents /\ Fetched(clip.rows)
    /\ clip.hash # None => /\ clip.hash \in DOMAIN clip.rows
                           /\ sortHistoryForDisplay(clip.rows)[clip.hash].serial = clip.event

\* The row a selection means.
Points(h, s, e) ==
    LET rows == sortHistoryForDisplay(h)
    IN  /\ s.index \in DOMAIN h /\ rows[s.index].serial = e
        /\ inPair(rows[s.index]) /\ rows[s.index].id = s.pairId

Selected == selection # NoSelection /\ ~shifted => Points(exec[inst], selection, chosen)

\* Before any row is shown, an address that was not followed is that of the link that opened
\* the page.
Linked ==
    hash \notin {None, lastHash} /\ ~shifted /\ exec[inst] = <<>> =>
        selection = NoSelection /\ clip.inst = inst /\ clip.hash = hash /\ clip.event = chosen

\* A request in flight was confirmed in the dialog of its instance, or of one the reader
\* browsed away from.
Requests ==
    {p \in [inst : Instances, force : BOOLEAN, live : BOOLEAN,
            opened : Instances \union {None}, moved : BOOLEAN] : p.inst = p.opened \/ p.moved}

Confirmed ==
    /\ post \in Seq(Requests)
    /\ dialog \in BOOLEAN /\ moved \in BOOLEAN /\ (dialog => opened = inst \/ moved)
    /\ opened \in Instances \union {None} /\ force \in BOOLEAN

Page == Held /\ Copied /\ Selected /\ Linked
HistInv == Logged /\ Page /\ Confirmed

-----------------------------------------------------------------------------
(* The order of display                                                    *)

\* The order is total and strict.
LEMMA PrecedesFacts ==
    ASSUME NEW h \in Seq(Events), NEW k \in DOMAIN h, NEW m \in DOMAIN h, NEW n \in DOMAIN h
    PROVE  /\ ~precedes(h, n, n)
           /\ m # n => precedes(h, m, n) \/ precedes(h, n, m)
           /\ precedes(h, k, m) /\ precedes(h, m, n) => precedes(h, k, n)
  <1>1. \A j \in DOMAIN h : pinRank(h[j]) \in Nat /\ h[j].ts \in Nat /\ j \in Nat
    <2> TAKE j \in DOMAIN h
    <2>1. h[j] \in Events /\ j \in Nat
      OBVIOUS
    <2>2. h[j].ts \in Nat
      BY <2>1 DEF Events
    <2>3. pinRank(h[j]) \in Nat
      BY DEF pinRank
    <2> QED
      BY <2>1, <2>2, <2>3
  <1> QED
    BY <1>1 DEF precedes

\* An event is placed after those it follows.
LEMMA PlacesIncrease ==
    ASSUME NEW h \in Seq(Events), NEW m \in DOMAIN h, NEW n \in DOMAIN h, precedes(h, m, n)
    PROVE  places(h)[m] < places(h)[n]
  <1> DEFINE upTo(k) == {j \in DOMAIN h : j = k \/ precedes(h, j, k)}
  <1>1. upTo(m) \subseteq upTo(n) /\ n \notin upTo(m) /\ n \in upTo(n)
    BY PrecedesFacts
  <1>2. IsFiniteSet(1..Len(h)) /\ DOMAIN h = 1..Len(h)
    BY FS_Interval
  <1>3. /\ IsFiniteSet(upTo(n)) /\ IsFiniteSet(upTo(m))
        /\ Cardinality(upTo(m)) \in Nat /\ Cardinality(upTo(n)) \in Nat
    BY <1>2, FS_Subset, FS_CardinalityType
  <1>4. places(h)[m] = Cardinality(upTo(m)) /\ places(h)[n] = Cardinality(upTo(n))
    BY DEF places
  <1> HIDE DEF upTo
  <1>5. Cardinality(upTo(m)) <= Cardinality(upTo(n)) /\ Cardinality(upTo(m)) # Cardinality(upTo(n))
    BY <1>1, <1>3, FS_Subset
  <1> QED
    BY <1>3, <1>4, <1>5

\* Places are numbers of rows.
LEMMA PlacesRange ==
    ASSUME NEW h \in Seq(Events), NEW n \in DOMAIN h
    PROVE  places(h)[n] \in 1..Len(h)
  <1> DEFINE upTo == {j \in DOMAIN h : j = n \/ precedes(h, j, n)}
  <1>1. IsFiniteSet(1..Len(h)) /\ Cardinality(1..Len(h)) = Len(h) /\ Len(h) \in Nat /\ DOMAIN h = 1..Len(h)
    BY FS_Interval
  <1>2. upTo \in SUBSET (1..Len(h)) /\ n \in upTo
    BY <1>1
  <1>3. IsFiniteSet(upTo) /\ Cardinality(upTo) \in Nat /\ Cardinality(upTo) <= Len(h)
    BY <1>1, <1>2, FS_Subset, FS_CardinalityType
  <1>4. Cardinality(upTo) # 0
    BY <1>2, <1>3, FS_EmptySet
  <1>5. places(h)[n] = Cardinality(upTo)
    BY DEF places
  <1> HIDE DEF upTo
  <1> QED
    BY <1>1, <1>3, <1>4, <1>5

\* No two events have one place.
LEMMA PlacesApart ==
    ASSUME NEW h \in Seq(Events), NEW m \in DOMAIN h, NEW n \in DOMAIN h,
           places(h)[m] = places(h)[n]
    PROVE  m = n
  <1>1. SUFFICES ASSUME m # n PROVE FALSE
    OBVIOUS
  <1>2. precedes(h, m, n) \/ precedes(h, n, m)
    BY <1>1, PrecedesFacts
  <1>3. places(h)[m] < places(h)[n] \/ places(h)[n] < places(h)[m]
    BY <1>2, PlacesIncrease
  <1>4. places(h)[m] \in 1..Len(h) /\ places(h)[n] \in 1..Len(h)
    BY PlacesRange
  <1> QED
    BY <1>3, <1>4

\* Each place is taken.
LEMMA PlacesOnto ==
    ASSUME NEW h \in Seq(Events), NEW i \in DOMAIN h
    PROVE  \E n \in DOMAIN h : places(h)[n] = i
  <1>1. SUFFICES ASSUME \A n \in DOMAIN h : places(h)[n] # i PROVE FALSE
    OBVIOUS
  <1> DEFINE N == Len(h)
             T == (1..N) \ {i}
             f == [n \in 1..N |-> places(h)[n]]
  <1>2. DOMAIN h = 1..N /\ i \in 1..N
    OBVIOUS
  <1>3. f \in [1..N -> T]
    BY <1>1, <1>2, PlacesRange
  <1>4. IsFiniteSet(1..N) /\ Cardinality(1..N) = N /\ N \in Nat
    BY FS_Interval
  <1>5. IsFiniteSet(T) /\ Cardinality(T) = N - 1
    BY <1>2, <1>4, FS_RemoveElement
  <1> HIDE DEF T, N
  <1>6. Cardinality(T) < Cardinality(1..N)
    BY <1>4, <1>5
  <1>7. PICK x, y \in 1..N : x # y /\ f[x] = f[y]
    <2> HIDE DEF f
    <2> QED
      BY <1>3, <1>4, <1>5, <1>6, FS_PigeonHole
  <1> QED
    BY <1>2, <1>7, PlacesApart

\* The events in the order of display are those of the history, each at its place.
LEMMA SortFacts ==
    ASSUME NEW h \in Seq(Events)
    PROVE  /\ DOMAIN sortHistoryForDisplay(h) = DOMAIN h
           /\ sortHistoryForDisplay(h) \in Seq(Events) /\ Len(sortHistoryForDisplay(h)) = Len(h)
           /\ \A n \in DOMAIN h :
                 places(h)[n] \in DOMAIN h /\ sortHistoryForDisplay(h)[places(h)[n]] = h[n]
           /\ \A i \in DOMAIN h : \E n \in DOMAIN h :
                 places(h)[n] = i /\ sortHistoryForDisplay(h)[i] = h[n]
  <1> DEFINE c == sortHistoryForDisplay(h)
             pick(i) == CHOOSE n \in DOMAIN h : places(h)[n] = i
  <1>1. c = [i \in DOMAIN h |-> h[pick(i)]]
    BY DEF sortHistoryForDisplay
  <1>2. ASSUME NEW i \in DOMAIN h
        PROVE  pick(i) \in DOMAIN h /\ places(h)[pick(i)] = i
    BY PlacesOnto
  <1> HIDE DEF pick, c
  <1>3. \A i \in DOMAIN h : c[i] = h[pick(i)]
    BY <1>1
  <1>4. \A n \in DOMAIN h : places(h)[n] \in DOMAIN h /\ c[places(h)[n]] = h[n]
    <2> TAKE n \in DOMAIN h
    <2>1. places(h)[n] \in DOMAIN h
      BY PlacesRange
    <2>2. pick(places(h)[n]) = n
      BY <1>2, <2>1, PlacesApart
    <2> QED
      BY <1>3, <2>1, <2>2
  <1>5. DOMAIN c = DOMAIN h /\ c \in Seq(Events) /\ Len(c) = Len(h)
    <2>1. \A i \in DOMAIN h : h[pick(i)] \in Events
      BY <1>2
    <2>2. DOMAIN h = 1..Len(h) /\ Len(h) \in Nat
      OBVIOUS
    <2> QED
      BY <1>1, <2>1, <2>2
  <1> QED
    BY <1>2, <1>3, <1>4, <1>5 DEF c

\* Two events of one id, in the order the engine wrote them, are displayed in that order.
LEMMA SortKeepsTurns ==
    ASSUME NEW h, Written(h)
    PROVE  TakeTurns(sortHistoryForDisplay(h))
  <1> DEFINE c == sortHistoryForDisplay(h)
             at(n) == places(h)[n]
  <1>1. h \in Seq(Events) /\ DOMAIN h = 1..Len(h) /\ Len(h) \in Nat
    BY DEF Written
  <1>2. /\ DOMAIN c = DOMAIN h
        /\ \A n \in DOMAIN h : at(n) \in DOMAIN h /\ c[at(n)] = h[n]
        /\ \A i \in DOMAIN h : \E n \in DOMAIN h : at(n) = i /\ c[i] = h[n]
    BY <1>1, SortFacts
  <1> HIDE DEF c
  <1>3. /\ \A m, n \in DOMAIN h : at(m) = at(n) => m = n
        /\ \A n \in DOMAIN h : at(n) \in 1..Len(h) /\ n \in 1..Len(h)
    BY <1>1, PlacesApart, PlacesRange
  <1>4. ASSUME NEW m \in DOMAIN h, NEW n \in DOMAIN h, m < n, inPair(h[m]), ofPair(h[n], h[m].id)
        PROVE  at(m) < at(n)
    <2>1. pinRank(h[m]) = 1 /\ pinRank(h[n]) = 1
      BY <1>4 DEF pinRank, inPair, ofPair, isStart, isEnd, START_TYPES
    <2>2. h[m] \in Events /\ h[n] \in Events
      BY <1>1
    <2>3. h[m].ts \in Nat /\ h[n].ts \in Nat /\ h[m].ts <= h[n].ts
      BY <1>4, <2>2 DEF Written, Events
    <2>4. precedes(h, m, n)
      BY <1>4, <2>1, <2>3 DEF precedes
    <2> QED
      BY <1>1, <2>4, PlacesIncrease
  <1>5. ASSUME NEW m \in DOMAIN h, NEW n \in DOMAIN h, at(m) < at(n), inPair(h[m]), ofPair(h[n], h[m].id)
        PROVE  m < n
    <2>1. at(m) \in Nat /\ at(n) \in Nat /\ m \in Nat /\ n \in Nat
      BY <1>3
    <2>2. m # n
      BY <1>5, <2>1
    <2>3. ~(n < m)
      <3>1. ASSUME n < m PROVE FALSE
        <4>1. inPair(h[n]) /\ ofPair(h[m], h[n].id)
          BY <1>5 DEF ofPair
        <4>2. at(n) < at(m)
          BY <1>4, <3>1, <4>1
        <4> QED
          BY <1>5, <2>1, <4>2
      <3> QED
        BY <3>1
    <2> QED
      BY <2>1, <2>2, <2>3
  <1> HIDE DEF at
  <1>6. \A i \in DOMAIN h, j \in DOMAIN h : at(i) \in Nat /\ at(j) \in Nat
    BY <1>3
  <1>7. ASSUME NEW j \in DOMAIN c, isEnd(c[j])
        PROVE  \E i \in 1..(j - 1) :
                  /\ isStart(c[i]) /\ c[i].id = c[j].id /\ c[i].task = c[j].task
                  /\ \A k \in (i + 1)..(j - 1) : ~ofPair(c[k], c[j].id)
    <2>1. PICK n \in DOMAIN h : at(n) = j /\ c[j] = h[n]
      BY <1>2, <1>7
    <2>2. PICK m \in 1..(n - 1) :
             /\ isStart(h[m]) /\ h[m].id = h[n].id /\ h[m].task = h[n].task
             /\ \A k \in (m + 1)..(n - 1) : ~ofPair(h[k], h[n].id)
      BY <1>7, <2>1 DEF Written, TakeTurns
    <2>3. m \in DOMAIN h /\ m < n
      BY <1>1, <2>2
    <2>4. at(m) < at(n)
      BY <1>4, <1>7, <2>1, <2>2, <2>3 DEF ofPair, inPair
    <2>5. at(m) \in 1..(j - 1) /\ c[at(m)] = h[m]
      BY <1>1, <1>2, <1>6, <2>1, <2>3, <2>4
    <2>6. ASSUME NEW k \in (at(m) + 1)..(j - 1), ofPair(c[k], c[j].id)
          PROVE  FALSE
      <3>1. k \in DOMAIN h /\ at(m) < k /\ k < j
        <4>1. at(m) \in 1..Len(h) /\ j \in 1..Len(h)
          BY <1>3, <2>1, <2>3
        <4> QED
          BY <1>1, <2>6, <4>1
      <3>2. PICK q \in DOMAIN h : at(q) = k /\ c[k] = h[q]
        BY <1>2, <3>1
      <3>3. inPair(h[m]) /\ inPair(h[n]) /\ inPair(h[q]) /\ h[q].id = h[n].id
        BY <1>7, <2>1, <2>2, <2>6, <3>2 DEF ofPair, inPair
      <3>4. m < q
        BY <1>5, <2>2, <2>3, <3>1, <3>2, <3>3 DEF ofPair
      <3>5. q < n
        BY <1>5, <2>1, <3>1, <3>2, <3>3 DEF ofPair
      <3>6. q \in (m + 1)..(n - 1)
        BY <1>1, <2>3, <3>4, <3>5
      <3> QED
        BY <2>2, <3>3, <3>6 DEF ofPair
    <2> QED
      BY <2>1, <2>2, <2>5, <2>6
  <1>8. ASSUME NEW i \in DOMAIN c, NEW k \in DOMAIN c, i < k, isStart(c[i]), ofPair(c[k], c[i].id)
        PROVE  \E j \in (i + 1)..k : isEnd(c[j]) /\ c[j].id = c[i].id /\ c[j].task = c[i].task
    <2>1. PICK m \in DOMAIN h : at(m) = i /\ c[i] = h[m]
      BY <1>2, <1>8
    <2>2. PICK q \in DOMAIN h : at(q) = k /\ c[k] = h[q]
      BY <1>2, <1>8
    <2>3. inPair(h[m]) /\ ofPair(h[q], h[m].id) /\ isStart(h[m])
      BY <1>8, <2>1, <2>2 DEF inPair
    <2>4. m < q
      BY <1>5, <1>8, <2>1, <2>2, <2>3
    <2>5. PICK n \in (m + 1)..q : isEnd(h[n]) /\ h[n].id = h[m].id /\ h[n].task = h[m].task
      BY <2>3, <2>4 DEF Written, TakeTurns
    <2>6. n \in DOMAIN h /\ m < n /\ n <= q
      BY <1>1, <2>5
    <2>7. at(m) < at(n)
      BY <1>4, <2>3, <2>5, <2>6 DEF ofPair, inPair
    <2>8. at(n) <= at(q)
      <3>1. CASE n = q
        BY <1>6, <3>1
      <3>2. CASE n < q
        <4>1. inPair(h[n]) /\ ofPair(h[q], h[n].id)
          BY <2>3, <2>5 DEF ofPair, inPair
        <4> QED
          BY <1>4, <1>6, <2>6, <3>2, <4>1
      <3> QED
        BY <1>1, <2>6, <3>1, <3>2
    <2>9. at(n) \in (i + 1)..k /\ c[at(n)] = h[n]
      BY <1>1, <1>2, <1>6, <2>1, <2>2, <2>6, <2>7, <2>8
    <2> QED
      BY <2>1, <2>5, <2>9
  <1>9. ASSUME NEW i \in DOMAIN c, NEW j \in DOMAIN c, c[i].task = c[j].task,
               (isStart(c[i]) /\ isStart(c[j])) \/ (isEnd(c[i]) /\ isEnd(c[j]))
        PROVE  i = j
    <2>1. PICK m \in DOMAIN h : at(m) = i /\ c[i] = h[m]
      BY <1>2, <1>9
    <2>2. PICK n \in DOMAIN h : at(n) = j /\ c[j] = h[n]
      BY <1>2, <1>9
    <2> QED
      BY <1>9, <2>1, <2>2 DEF Written, TakeTurns
  <1> QED
    BY <1>7, <1>8, <1>9 DEF TakeTurns, c

\* A history that begins with another has its events.
LEMMA PrefixFacts ==
    ASSUME NEW S, NEW g \in Seq(S), NEW h \in Seq(S), IsPrefix(g, h)
    PROVE  Len(g) <= Len(h) /\ DOMAIN g \subseteq DOMAIN h /\ \A n \in DOMAIN g : h[n] = g[n]
  <1>1. Len(g) \in Nat /\ Len(h) \in Nat /\ Len(g) <= Len(h) /\ DOMAIN g = 1..Len(g) /\ DOMAIN h = 1..Len(h)
    BY DEF IsPrefix
  <1>2. \A n \in 1..Len(g) : SubSeq(g, 1, Len(g))[n] = g[n] /\ SubSeq(h, 1, Len(g))[n] = h[n]
    BY <1>1
  <1> QED
    BY <1>1, <1>2 DEF IsPrefix

\* A history that grows in time keeps its events where they are displayed.
LEMMA InTimeKeepsRows ==
    ASSUME NEW g, NEW h, Written(g), Written(h), InTime(g, h), NEW i \in DOMAIN g
    PROVE  i \in DOMAIN h /\ sortHistoryForDisplay(h)[i] = sortHistoryForDisplay(g)[i]
  <1>1. /\ g \in Seq(Events) /\ h \in Seq(Events)
        /\ DOMAIN g = 1..Len(g) /\ DOMAIN h = 1..Len(h) /\ Len(g) \in Nat /\ Len(h) \in Nat
    BY DEF Written
  <1>2. Len(g) <= Len(h) /\ DOMAIN g \subseteq DOMAIN h /\ \A n \in DOMAIN g : h[n] = g[n]
    BY <1>1, PrefixFacts DEF InTime
  <1>3. ASSUME NEW m \in DOMAIN h, m \notin DOMAIN g, NEW n \in DOMAIN g
        PROVE  ~precedes(h, m, n)
    <2>1. n < m /\ m # 1 /\ n # Len(h)
      BY <1>1, <1>2, <1>3
    <2>2. h[n] = g[n] /\ h[n].ts <= h[m].ts
      BY <1>2, <1>3 DEF InTime
    <2>3. h[m] \in Events /\ h[n] \in Events
      BY <1>1, <1>2
    <2>4. h[m].ts \in Nat /\ h[n].ts \in Nat
      BY <2>3 DEF Events
    <2>5. h[m].type # "ExecutionStarted" /\ h[n].type # "ExecutionCompleted"
      BY <1>2, <2>1 DEF Written
    <2>6. pinRank(h[n]) \in {0, 1} /\ pinRank(h[m]) \in {1, 2}
      BY <2>5 DEF pinRank
    <2> QED
      BY <1>1, <1>2, <2>1, <2>2, <2>4, <2>6 DEF precedes
  <1>4. ASSUME NEW n \in DOMAIN g
        PROVE  places(h)[n] = places(g)[n]
    <2>1. \A m \in DOMAIN g : precedes(h, m, n) <=> precedes(g, m, n)
      BY <1>2 DEF precedes
    <2>2. {m \in DOMAIN h : m = n \/ precedes(h, m, n)} = {m \in DOMAIN g : m = n \/ precedes(g, m, n)}
      BY <1>2, <1>3, <2>1
    <2> QED
      BY <1>2, <2>2 DEF places
  <1>5. PICK n \in DOMAIN g : places(g)[n] = i /\ sortHistoryForDisplay(g)[i] = g[n]
    BY <1>1, SortFacts
  <1>6. sortHistoryForDisplay(h)[places(h)[n]] = h[n]
    BY <1>1, <1>2, SortFacts
  <1> QED
    BY <1>2, <1>4, <1>5, <1>6

-----------------------------------------------------------------------------
(* The pass of the pairs                                                   *)

\* The rows a pass is made over.
Sorted(c) == c \in Seq(Events) /\ TakeTurns(c) /\ \A n \in DOMAIN c : inPair(c[n]) => c[n].id \in Ids

\* What a pass knows after k rows: for each id, its start that is open, if there is one, is
\* the last row of the id; each completion has taken the start of its task.
PassType(c) == [open : [Ids -> Seq(Nat)], start : [DOMAIN c -> Nat]]
Took(c, start, n) == start[n] \in DOMAIN c /\ isStart(c[start[n]]) /\ c[start[n]].task = c[n].task
Closed(c, k, m) == \E n \in 1..k : isEnd(c[n]) /\ c[n].task = c[m].task
After(c, p, k) ==
    /\ p \in PassType(c)
    /\ \A i \in Ids :
          \/ p.open[i] = <<>> /\ \A m \in 1..k : isStart(c[m]) /\ c[m].id = i => Closed(c, k, m)
          \/ \E m \in 1..k : /\ p.open[i] = <<m>> /\ isStart(c[m]) /\ c[m].id = i
                             /\ \A q \in (m + 1)..k : ~ofPair(c[q], i)
    /\ \A n \in DOMAIN c : IF n <= k /\ isEnd(c[n]) THEN Took(c, p.start, n) ELSE p.start[n] = None

\* Before the first row the pass has found nothing.
LEMMA AfterNone ==
    ASSUME NEW c, Sorted(c)
    PROVE  After(c, unpaired(c), 0)
  <1>1. \A n \in DOMAIN c : ~(n <= 0)
    BY DEF Sorted
  <1>2. unpaired(c) \in PassType(c)
    BY DEF unpaired, PassType, None
  <1>3. \A i \in Ids : unpaired(c).open[i] = <<>>
    BY DEF unpaired
  <1>4. \A n \in DOMAIN c : unpaired(c).start[n] = None
    BY DEF unpaired
  <1> QED
    BY <1>1, <1>2, <1>3, <1>4 DEF After

\* A start finds no other start of its id open.
LEMMA AfterStart ==
    ASSUME NEW c, Sorted(c), NEW k \in Nat, k + 1 \in DOMAIN c, NEW p, After(c, p, k), isStart(c[k + 1])
    PROVE  After(c, paired(c, p, k + 1), k + 1)
  <1> DEFINE i == c[k + 1].id
             r == paired(c, p, k + 1)
  <1>1. c \in Seq(Events) /\ DOMAIN c = 1..Len(c) /\ Len(c) \in Nat /\ i \in Ids /\ TakeTurns(c)
    BY DEF Sorted, inPair
  <1>2. ~isEnd(c[k + 1])
    BY DEF isStart, isEnd, START_TYPES
  <1>3. p \in PassType(c) /\ p.open \in [Ids -> Seq(Nat)] /\ p.start \in [DOMAIN c -> Nat]
    BY DEF After, PassType
  <1>4. p.open[i] = <<>>
    <2>1. SUFFICES ASSUME NEW m \in 1..k, isStart(c[m]), c[m].id = i,
                          \A q \in (m + 1)..k : ~ofPair(c[q], i)
                   PROVE  FALSE
      BY <1>1 DEF After
    <2>2. m \in DOMAIN c /\ m < k + 1 /\ ofPair(c[k + 1], c[m].id)
      BY <1>1, <2>1 DEF ofPair, inPair
    <2>3. PICK n \in (m + 1)..(k + 1) : isEnd(c[n]) /\ c[n].id = c[m].id /\ c[n].task = c[m].task
      BY <2>1, <2>2 DEF Sorted, TakeTurns
    <2>4. n # k + 1
      BY <1>2, <2>3
    <2>5. n \in (m + 1)..k
      BY <2>3, <2>4
    <2> QED
      BY <2>1, <2>3, <2>5 DEF ofPair, inPair
  <1>5. r = [p EXCEPT !.open[i] = Append(@, k + 1)]
    BY DEF paired
  <1>6. /\ r.start = p.start /\ r.open = [p.open EXCEPT ![i] = Append(@, k + 1)]
        /\ r \in PassType(c)
    <2> DEFINE opens == [p.open EXCEPT ![i] = Append(@, k + 1)]
    <2>1. r = [p EXCEPT !.open = opens]
      BY <1>5
    <2>2. Append(p.open[i], k + 1) \in Seq(Nat)
      BY <1>1, <1>3
    <2>3. opens \in [Ids -> Seq(Nat)]
      BY <1>3, <2>2
    <2> HIDE DEF opens, r
    <2>4. r.start = p.start /\ r.open = opens /\ r \in PassType(c)
      BY <1>3, <2>1, <2>3 DEF PassType
    <2> QED
      BY <2>4 DEF opens
  <1> HIDE DEF r
  <1>7. r.open[i] = <<k + 1>> /\ \A j \in Ids : j # i => r.open[j] = p.open[j]
    BY <1>1, <1>3, <1>4, <1>6
  <1>8. ASSUME NEW j \in Ids
        PROVE  \/ r.open[j] = <<>> /\ \A m \in 1..(k + 1) : isStart(c[m]) /\ c[m].id = j => Closed(c, k + 1, m)
               \/ \E m \in 1..(k + 1) : /\ r.open[j] = <<m>> /\ isStart(c[m]) /\ c[m].id = j
                                        /\ \A q \in (m + 1)..(k + 1) : ~ofPair(c[q], j)
    <2>1. CASE j = i
      <3>1. k + 1 \in 1..(k + 1) /\ \A q \in ((k + 1) + 1)..(k + 1) : FALSE
        OBVIOUS
      <3> QED
        BY <1>7, <2>1, <3>1
    <2>2. CASE j # i
      <3>1. ~ofPair(c[k + 1], j)
        BY <2>2 DEF ofPair
      <3>2. \A q \in 1..(k + 1) : q = k + 1 \/ q \in 1..k
        OBVIOUS
      <3>3. CASE p.open[j] = <<>> /\ \A m \in 1..k : isStart(c[m]) /\ c[m].id = j => Closed(c, k, m)
        <4>1. ASSUME NEW m \in 1..(k + 1), isStart(c[m]), c[m].id = j
              PROVE  Closed(c, k + 1, m)
          <5>1. m \in 1..k
            BY <2>2, <3>2, <4>1
          <5>2. Closed(c, k, m)
            BY <3>3, <4>1, <5>1
          <5> QED
            BY <5>2 DEF Closed
        <4> QED
          BY <1>7, <2>2, <3>3, <4>1
      <3>4. CASE \E m \in 1..k : /\ p.open[j] = <<m>> /\ isStart(c[m]) /\ c[m].id = j
                                 /\ \A q \in (m + 1)..k : ~ofPair(c[q], j)
        <4>1. PICK m \in 1..k : /\ p.open[j] = <<m>> /\ isStart(c[m]) /\ c[m].id = j
                                /\ \A q \in (m + 1)..k : ~ofPair(c[q], j)
          BY <3>4
        <4>2. \A q \in (m + 1)..(k + 1) : ~ofPair(c[q], j)
          BY <3>1, <4>1
        <4> QED
          BY <1>7, <2>2, <4>1, <4>2
      <3> QED
        BY <3>3, <3>4 DEF After
    <2> QED
      BY <2>1, <2>2
  <1>9. ASSUME NEW n \in DOMAIN c
        PROVE  IF n <= k + 1 /\ isEnd(c[n]) THEN Took(c, r.start, n) ELSE r.start[n] = None
    <2>1. n \in Nat /\ (n <= k + 1 => n <= k \/ n = k + 1)
      BY <1>1
    <2> QED
      BY <1>2, <1>6, <2>1 DEF After
  <1> QED
    BY <1>6, <1>8, <1>9 DEF After, r

\* A completion finds the start of its task, and no other of its id, open.
LEMMA AfterEnd ==
    ASSUME NEW c, Sorted(c), NEW k \in Nat, k + 1 \in DOMAIN c, NEW p, After(c, p, k), isEnd(c[k + 1])
    PROVE  After(c, paired(c, p, k + 1), k + 1)
  <1> DEFINE i == c[k + 1].id
             r == paired(c, p, k + 1)
  <1>1. c \in Seq(Events) /\ DOMAIN c = 1..Len(c) /\ Len(c) \in Nat /\ i \in Ids /\ TakeTurns(c)
    BY DEF Sorted, inPair
  <1>2. ~isStart(c[k + 1])
    BY DEF isStart, isEnd, START_TYPES
  <1>3. p \in PassType(c) /\ p.open \in [Ids -> Seq(Nat)] /\ p.start \in [DOMAIN c -> Nat]
    BY DEF After, PassType
  <1>4. PICK s \in 1..((k + 1) - 1) :
           /\ isStart(c[s]) /\ c[s].id = i /\ c[s].task = c[k + 1].task
           /\ \A q \in (s + 1)..((k + 1) - 1) : ~ofPair(c[q], i)
    BY <1>1 DEF TakeTurns
  <1>5. s \in 1..k /\ s \in DOMAIN c /\ \A q \in (s + 1)..k : ~ofPair(c[q], i)
    BY <1>1, <1>4
  <1>6. p.open[i] = <<s>>
    <2>1. CASE p.open[i] = <<>> /\ \A m \in 1..k : isStart(c[m]) /\ c[m].id = i => Closed(c, k, m)
      <3>1. PICK n \in 1..k : isEnd(c[n]) /\ c[n].task = c[k + 1].task
        BY <1>4, <1>5, <2>1 DEF Closed
      <3>2. n \in DOMAIN c /\ n # k + 1
        BY <1>1, <3>1
      <3> QED
        BY <1>1, <3>1, <3>2 DEF TakeTurns
    <2>2. CASE \E m \in 1..k : /\ p.open[i] = <<m>> /\ isStart(c[m]) /\ c[m].id = i
                               /\ \A q \in (m + 1)..k : ~ofPair(c[q], i)
      <3>1. PICK m \in 1..k : /\ p.open[i] = <<m>> /\ isStart(c[m]) /\ c[m].id = i
                              /\ \A q \in (m + 1)..k : ~ofPair(c[q], i)
        BY <2>2
      <3>2. ofPair(c[m], i) /\ ofPair(c[s], i)
        BY <1>4, <3>1 DEF ofPair, inPair
      <3>3. ~(m < s) /\ ~(s < m)
        BY <1>5, <3>1, <3>2
      <3> QED
        BY <1>5, <3>1, <3>3
    <2> QED
      BY <1>1, <2>1, <2>2 DEF After
  <1>7. /\ r = [p EXCEPT !.open[i] = Front(@), !.start[k + 1] = Last(p.open[i])]
        /\ Front(p.open[i]) = <<>> /\ Last(p.open[i]) = s
    <2>1. p.open[i] # <<>> /\ Front(<<s>>) = <<>> /\ Last(<<s>>) = s
      BY <1>6 DEF Front, Last
    <2> QED
      BY <1>2, <1>6, <2>1 DEF paired
  <1>8. /\ r.open = [p.open EXCEPT ![i] = <<>>] /\ r.start = [p.start EXCEPT ![k + 1] = s]
        /\ r \in PassType(c)
    <2> DEFINE opens == [p.open EXCEPT ![i] = <<>>]
               starts == [p.start EXCEPT ![k + 1] = s]
    <2>1. r = [[p EXCEPT !.open = opens] EXCEPT !.start = starts]
      BY <1>3, <1>7 DEF PassType
    <2>2. opens \in [Ids -> Seq(Nat)] /\ starts \in [DOMAIN c -> Nat]
      <3>1. <<>> \in Seq(Nat) /\ s \in Nat
        BY <1>5
      <3>2. opens \in [Ids -> Seq(Nat)]
        BY <1>3, <3>1
      <3>3. starts \in [DOMAIN c -> Nat]
        BY <1>3, <3>1
      <3> QED
        BY <3>2, <3>3
    <2> HIDE DEF opens, starts, r
    <2>3. r.start = starts /\ r.open = opens /\ r \in PassType(c)
      BY <1>3, <2>1, <2>2 DEF PassType
    <2> QED
      BY <2>3 DEF opens, starts
  <1> HIDE DEF r
  <1>9. r.open[i] = <<>> /\ \A j \in Ids : j # i => r.open[j] = p.open[j]
    BY <1>1, <1>3, <1>8
  <1>10. \A q \in 1..(k + 1) : q = k + 1 \/ q \in 1..k
    OBVIOUS
  <1>11. ASSUME NEW j \in Ids
         PROVE  \/ r.open[j] = <<>> /\ \A m \in 1..(k + 1) : isStart(c[m]) /\ c[m].id = j => Closed(c, k + 1, m)
                \/ \E m \in 1..(k + 1) : /\ r.open[j] = <<m>> /\ isStart(c[m]) /\ c[m].id = j
                                         /\ \A q \in (m + 1)..(k + 1) : ~ofPair(c[q], j)
    <2>1. CASE j = i
      <3>1. ASSUME NEW m \in 1..(k + 1), isStart(c[m]), c[m].id = i
            PROVE  Closed(c, k + 1, m)
        <4>1. m \in 1..k /\ m \in DOMAIN c /\ ofPair(c[m], i)
          BY <1>1, <1>2, <1>10, <3>1 DEF ofPair, inPair
        <4>2. CASE m = s
          BY <1>4, <4>2 DEF Closed
        <4>3. CASE m # s
          <5>1. m < s
            BY <1>5, <4>1, <4>3
          <5>2. ofPair(c[s], c[m].id)
            BY <1>4, <3>1 DEF ofPair, inPair
          <5>3. PICK n \in (m + 1)..s : isEnd(c[n]) /\ c[n].id = c[m].id /\ c[n].task = c[m].task
            BY <1>1, <1>5, <3>1, <4>1, <5>1, <5>2 DEF TakeTurns
          <5>4. n \in 1..(k + 1)
            BY <1>5, <4>1, <5>3
          <5> QED
            BY <5>3, <5>4 DEF Closed
        <4> QED
          BY <4>2, <4>3
      <3> QED
        BY <1>9, <2>1, <3>1
    <2>2. CASE j # i
      <3>1. ~ofPair(c[k + 1], j)
        BY <2>2 DEF ofPair
      <3>2. CASE p.open[j] = <<>> /\ \A m \in 1..k : isStart(c[m]) /\ c[m].id = j => Closed(c, k, m)
        <4>1. ASSUME NEW m \in 1..(k + 1), isStart(c[m]), c[m].id = j
              PROVE  Closed(c, k + 1, m)
          <5>1. m \in 1..k
            BY <2>2, <1>10, <4>1
          <5>2. Closed(c, k, m)
            BY <3>2, <4>1, <5>1
          <5> QED
            BY <5>2 DEF Closed
        <4> QED
          BY <1>9, <2>2, <3>2, <4>1
      <3>3. CASE \E m \in 1..k : /\ p.open[j] = <<m>> /\ isStart(c[m]) /\ c[m].id = j
                                 /\ \A q \in (m + 1)..k : ~ofPair(c[q], j)
        <4>1. PICK m \in 1..k : /\ p.open[j] = <<m>> /\ isStart(c[m]) /\ c[m].id = j
                                /\ \A q \in (m + 1)..k : ~ofPair(c[q], j)
          BY <3>3
        <4>2. \A q \in (m + 1)..(k + 1) : ~ofPair(c[q], j)
          BY <3>1, <4>1
        <4> QED
          BY <1>9, <2>2, <4>1, <4>2
      <3> QED
        BY <3>2, <3>3 DEF After
    <2> QED
      BY <2>1, <2>2
  <1>12. ASSUME NEW n \in DOMAIN c
         PROVE  IF n <= k + 1 /\ isEnd(c[n]) THEN Took(c, r.start, n) ELSE r.start[n] = None
    <2>1. CASE n = k + 1
      <3>1. r.start[n] = s
        BY <1>3, <1>8, <2>1
      <3> QED
        BY <1>1, <1>4, <1>5, <2>1, <3>1 DEF Took
    <2>2. CASE n # k + 1
      <3>1. r.start[n] = p.start[n] /\ (n <= k + 1 <=> n <= k)
        BY <1>1, <1>3, <1>8, <2>2
      <3> QED
        BY <3>1 DEF After, Took
    <2> QED
      BY <2>1, <2>2
  <1> QED
    BY <1>8, <1>11, <1>12 DEF After, r

\* A row that is neither a start nor a completion leaves what was found.
LEMMA AfterOther ==
    ASSUME NEW c, Sorted(c), NEW k \in Nat, k + 1 \in DOMAIN c, NEW p, After(c, p, k), ~inPair(c[k + 1])
    PROVE  After(c, paired(c, p, k + 1), k + 1)
  <1>1. paired(c, p, k + 1) = p
    BY DEF paired, inPair
  <1>2. \A q \in 1..(k + 1) : q = k + 1 \/ q \in 1..k
    OBVIOUS
  <1>3. ~isStart(c[k + 1]) /\ ~isEnd(c[k + 1]) /\ \A j : ~ofPair(c[k + 1], j)
    BY DEF inPair, ofPair
  <1>4. DOMAIN c = 1..Len(c) /\ Len(c) \in Nat
    BY DEF Sorted
  <1>5. ASSUME NEW j \in Ids
        PROVE  \/ p.open[j] = <<>> /\ \A m \in 1..(k + 1) : isStart(c[m]) /\ c[m].id = j => Closed(c, k + 1, m)
               \/ \E m \in 1..(k + 1) : /\ p.open[j] = <<m>> /\ isStart(c[m]) /\ c[m].id = j
                                        /\ \A q \in (m + 1)..(k + 1) : ~ofPair(c[q], j)
    <2>1. CASE p.open[j] = <<>> /\ \A m \in 1..k : isStart(c[m]) /\ c[m].id = j => Closed(c, k, m)
      <3>1. ASSUME NEW m \in 1..(k + 1), isStart(c[m]), c[m].id = j
            PROVE  Closed(c, k + 1, m)
        <4>1. m \in 1..k
          BY <1>2, <1>3, <3>1
        <4>2. Closed(c, k, m)
          BY <2>1, <3>1, <4>1
        <4> QED
          BY <4>2 DEF Closed
      <3> QED
        BY <2>1, <3>1
    <2>2. CASE \E m \in 1..k : /\ p.open[j] = <<m>> /\ isStart(c[m]) /\ c[m].id = j
                               /\ \A q \in (m + 1)..k : ~ofPair(c[q], j)
      <3>1. PICK m \in 1..k : /\ p.open[j] = <<m>> /\ isStart(c[m]) /\ c[m].id = j
                              /\ \A q \in (m + 1)..k : ~ofPair(c[q], j)
        BY <2>2
      <3>2. \A q \in (m + 1)..(k + 1) : ~ofPair(c[q], j)
        BY <1>3, <3>1
      <3> QED
        BY <3>1, <3>2
    <2> QED
      BY <2>1, <2>2 DEF After
  <1>6. ASSUME NEW n \in DOMAIN c
        PROVE  IF n <= k + 1 /\ isEnd(c[n]) THEN Took(c, p.start, n) ELSE p.start[n] = None
    <2>1. n \in Nat /\ (n <= k + 1 => n <= k \/ n = k + 1)
      BY <1>4
    <2> QED
      BY <1>3, <2>1 DEF After
  <1> QED
    BY <1>1, <1>5, <1>6 DEF After

\* A set that holds 0 and what follows each of its numbers holds them all.
LEMMA Steps ==
    ASSUME NEW N \in Nat, NEW S, 0 \in S, \A k \in 1..N : k - 1 \in S => k \in S
    PROVE  0..N \subseteq S
  <1>1. SUFFICES ASSUME (0..N) \ S # {} PROVE FALSE
    OBVIOUS
  <1> DEFINE T == (0..N) \ S
  <1>2. T \subseteq Nat
    OBVIOUS
  <1>3. PICK k \in T : \A j \in T : <<j, k>> \notin OpToRel(<, Nat)
    BY <1>1, <1>2, NatLessThanWellFounded, WFMin
  <1>4. k \in 1..N /\ k - 1 \in 0..N /\ k - 1 < k /\ k - 1 \in Nat /\ k \in Nat
    OBVIOUS
  <1>5. k - 1 \notin T
    BY <1>3, <1>4 DEF OpToRel
  <1> QED
    BY <1>4, <1>5

\* The pass over the first k rows.
IsPass(c, k, g) == g = [n \in 0..k |-> IF n = 0 THEN unpaired(c) ELSE paired(c, g[n - 1], n)]

\* The pass over a list is a function, the one the recursive definition names.
LEMMA PassExists ==
    ASSUME NEW c, Len(c) \in Nat
    PROVE  \E g : IsPass(c, Len(c), g)
  <1> DEFINE N == Len(c)
             S == {k \in 0..N : \E g : IsPass(c, k, g)}
  <1>1. 0 \in S
    <2> DEFINE g == [n \in 0..0 |-> unpaired(c)]
    <2>1. IsPass(c, 0, g)
      BY DEF IsPass
    <2> QED
      BY <2>1
  <1>2. ASSUME NEW k \in 1..N, k - 1 \in S
        PROVE  k \in S
    <2>1. PICK g : IsPass(c, k - 1, g)
      BY <1>2
    <2> DEFINE h == [n \in 0..k |-> IF n = k THEN paired(c, g[k - 1], k) ELSE g[n]]
    <2>2. ASSUME NEW n \in 0..k
          PROVE  h[n] = IF n = 0 THEN unpaired(c) ELSE paired(c, h[n - 1], n)
      <3>1. CASE n = k
        <4>1. n # 0 /\ n - 1 \in 0..k /\ n - 1 # k
          BY <3>1
        <4>2. h[n - 1] = g[k - 1] /\ h[n] = paired(c, g[k - 1], k)
          BY <3>1, <4>1
        <4> QED
          BY <3>1, <4>1, <4>2
      <3>2. CASE n # k
        <4>1. n \in 0..(k - 1) /\ h[n] = g[n]
          BY <3>2
        <4>2. g[n] = IF n = 0 THEN unpaired(c) ELSE paired(c, g[n - 1], n)
          BY <2>1, <4>1 DEF IsPass
        <4>3. n # 0 => h[n - 1] = g[n - 1]
          BY <4>1
        <4> QED
          BY <4>1, <4>2, <4>3
      <3> QED
        BY <3>1, <3>2
    <2>3. DOMAIN h = 0..k
      OBVIOUS
    <2> HIDE DEF h
    <2>4. IsPass(c, k, h)
      <3>1. h = [n \in 0..k |-> h[n]]
        BY DEF h
      <3> QED
        BY <2>2, <3>1 DEF IsPass
    <2> QED
      BY <2>4
  <1>3. 0..N \subseteq S
    <2> HIDE DEF S
    <2> QED
      BY <1>1, <1>2, Steps
  <1> QED
    BY <1>3

\* What the pass has found at its end.
LEMMA PassEnds ==
    ASSUME NEW c, Sorted(c)
    PROVE  \E p : After(c, p, Len(c)) /\ startsTaken(c) = p.start
  <1> DEFINE N == Len(c)
             g == CHOOSE f : f = [n \in 0..N |-> IF n = 0 THEN unpaired(c) ELSE paired(c, f[n - 1], n)]
  <1>1. N \in Nat /\ DOMAIN c = 1..N
    BY DEF Sorted
  <1>2. g = [n \in 0..N |-> IF n = 0 THEN unpaired(c) ELSE paired(c, g[n - 1], n)]
    BY <1>1, PassExists, Zenon DEF IsPass
  <1>3. startsTaken(c) = g[N].start
    BY DEF startsTaken
  <1> HIDE DEF g
  <1>4. g[0] = unpaired(c) /\ \A n \in 1..N : g[n] = paired(c, g[n - 1], n)
    BY <1>1, <1>2
  <1> DEFINE S == {k \in 0..N : After(c, g[k], k)}
  <1>5. 0 \in S
    BY <1>1, <1>4, AfterNone
  <1>6. ASSUME NEW k \in 1..N, k - 1 \in S
        PROVE  k \in S
    <2> DEFINE j == k - 1
    <2>1. j \in Nat /\ j + 1 = k /\ j + 1 \in DOMAIN c /\ After(c, g[j], j)
      BY <1>1, <1>6
    <2> HIDE DEF j
    <2>2. After(c, paired(c, g[j], j + 1), j + 1)
      BY <2>1, AfterStart, AfterEnd, AfterOther DEF inPair
    <2>3. g[k] = paired(c, g[j], k)
      BY <1>4 DEF j
    <2>4. After(c, g[k], k)
      BY <2>1, <2>2, <2>3
    <2> QED
      BY <2>4
  <1>7. 0..N \subseteq S
    <2> HIDE DEF S
    <2> QED
      BY <1>1, <1>5, <1>6, Steps
  <1>8. After(c, g[N], N)
    BY <1>1, <1>7
  <1> QED
    BY <1>3, <1>8

\* The pairs of a history in the order of display.
PairsRight(c) ==
    LET at == buildPairIndex(c) IN
    /\ DOMAIN at = {n \in DOMAIN c : inPair(c[n])}
    /\ \A n \in DOMAIN at : at[n].pairId = c[n].id /\ at[n].partner \in DOMAIN at \union {None}
    /\ \A n \in DOMAIN at : isEnd(c[n]) =>
          /\ at[n].partner \in DOMAIN at /\ isStart(c[at[n].partner])
          /\ c[at[n].partner].task = c[n].task /\ at[at[n].partner].partner = n

\* Over rows in which starts and completions take turns, the index joins the rows of one task.
LEMMA PairsFacts ==
    ASSUME NEW c, Sorted(c)
    PROVE  PairsRight(c)
  <1> DEFINE start == startsTaken(c)
             at == buildPairIndex(c)
             D == {n \in DOMAIN c : inPair(c[n])}
  <1>1. PICK p : After(c, p, Len(c)) /\ start = p.start
    BY PassEnds
  <1>2. start \in [DOMAIN c -> Nat]
    BY <1>1 DEF After, PassType
  <1>3. DOMAIN c = 1..Len(c) /\ Len(c) \in Nat /\ None \notin DOMAIN c
    BY DEF Sorted, None
  <1>4. at = [n \in D |-> [pairId |-> c[n].id,
                           partner |-> IF isEnd(c[n]) THEN start[n] ELSE taker(start, n)]]
    BY DEF buildPairIndex
  <1> HIDE DEF start, at
  <1>5. \A n \in DOMAIN c : IF isEnd(c[n]) THEN Took(c, start, n) ELSE start[n] = None
    BY <1>1, <1>3 DEF After
  <1>6. DOMAIN at = D /\ \A n \in D : /\ at[n].pairId = c[n].id
                                      /\ at[n].partner = IF isEnd(c[n]) THEN start[n] ELSE taker(start, n)
    BY <1>4
  <1>7. ASSUME NEW n \in D, ~isEnd(c[n])
        PROVE  at[n].partner \in D \union {None}
    <2>1. at[n].partner = taker(start, n)
      BY <1>6, <1>7
    <2>2. CASE \E m \in DOMAIN start : start[m] = n
      <3>1. taker(start, n) \in DOMAIN start /\ start[taker(start, n)] = n
        BY <2>2 DEF taker
      <3>2. isEnd(c[taker(start, n)]) /\ taker(start, n) \in DOMAIN c
        BY <1>2, <1>3, <1>5, <3>1
      <3> QED
        BY <2>1, <3>2 DEF inPair
    <2>3. CASE ~ \E m \in DOMAIN start : start[m] = n
      BY <2>1, <2>3 DEF taker
    <2> QED
      BY <2>2, <2>3
  <1>8. ASSUME NEW n \in D, isEnd(c[n])
        PROVE  /\ at[n].partner \in D /\ isStart(c[at[n].partner])
               /\ c[at[n].partner].task = c[n].task /\ at[at[n].partner].partner = n
    <2> DEFINE s == at[n].partner
    <2>1. s = start[n] /\ s \in D /\ isStart(c[s]) /\ c[s].task = c[n].task
      BY <1>5, <1>6, <1>8 DEF Took, inPair
    <2> HIDE DEF s
    <2>2. ~isEnd(c[s])
      BY <2>1 DEF isStart, isEnd, START_TYPES
    <2>3. at[s].partner = taker(start, s)
      BY <1>6, <2>1, <2>2
    <2>4. \E m \in DOMAIN start : start[m] = s
      BY <1>2, <2>1
    <2>5. taker(start, s) \in DOMAIN start /\ start[taker(start, s)] = s
      BY <2>4 DEF taker
    <2>6. ASSUME NEW m \in DOMAIN start, start[m] = s PROVE m = n
      <3>1. m \in DOMAIN c /\ s \in DOMAIN c /\ s # None
        BY <1>2, <1>3, <2>1
      <3>2. isEnd(c[m]) /\ c[s].task = c[m].task
        BY <1>5, <2>6, <3>1 DEF Took
      <3> QED
        BY <1>8, <2>1, <3>1, <3>2 DEF Sorted, TakeTurns
    <2> QED
      BY <2>1, <2>3, <2>5, <2>6 DEF s
  <1>9. \A n \in D : isEnd(c[n]) => at[n].partner \in D
    BY <1>8
  <1> QED
    BY <1>6, <1>7, <1>8, <1>9 DEF PairsRight, at

\* A history the engine wrote is sorted into rows whose pairs are right.
LEMMA WrittenPairs ==
    ASSUME NEW h, Written(h)
    PROVE  Sorted(sortHistoryForDisplay(h)) /\ PairsRight(sortHistoryForDisplay(h))
  <1> DEFINE c == sortHistoryForDisplay(h)
  <1>1. h \in Seq(Events) /\ \A n \in DOMAIN h : inPair(h[n]) => h[n].id \in Ids
    BY DEF Written
  <1>2. /\ DOMAIN c = DOMAIN h /\ c \in Seq(Events)
        /\ \A i \in DOMAIN h : \E n \in DOMAIN h : c[i] = h[n]
    BY <1>1, SortFacts
  <1>3. TakeTurns(c)
    BY SortKeepsTurns
  <1> HIDE DEF c
  <1>4. Sorted(c)
    BY <1>1, <1>2, <1>3 DEF Sorted
  <1> QED
    BY <1>4, PairsFacts DEF c

-----------------------------------------------------------------------------
(* What the engine writes                                                  *)

\* An event appended is the last one, and the others stay.
LEMMA AppendFacts ==
    ASSUME NEW h \in Seq(Events), NEW e \in Events
    PROVE  /\ Append(h, e) \in Seq(Events) /\ Len(Append(h, e)) = Len(h) + 1
           /\ DOMAIN h = 1..Len(h) /\ Len(h) \in Nat /\ DOMAIN Append(h, e) = 1..(Len(h) + 1)
           /\ Append(h, e)[Len(h) + 1] = e /\ \A n \in DOMAIN h : Append(h, e)[n] = h[n]
           /\ \A n \in DOMAIN Append(h, e) : n = Len(h) + 1 \/ n \in DOMAIN h
  OBVIOUS

\* An event after all others of its id, in a history that has not ended.
LEMMA WrittenAppend ==
    ASSUME NEW h, Written(h), ~terminal(h), h # <<>>,
           NEW e \in Events, e.type # "ExecutionStarted", inPair(e) => e.id \in Ids,
           \A m \in DOMAIN h : inPair(h[m]) /\ ofPair(e, h[m].id) => h[m].ts <= e.ts,
           TakeTurns(Append(h, e))
    PROVE  Written(Append(h, e))
  <1> DEFINE w == Append(h, e)
             z == Len(h) + 1
  <1>1. /\ w \in Seq(Events) /\ Len(w) = z
        /\ DOMAIN h = 1..Len(h) /\ Len(h) \in Nat /\ DOMAIN w = 1..z
        /\ w[z] = e /\ \A n \in DOMAIN h : w[n] = h[n]
        /\ \A n \in DOMAIN w : n = z \/ n \in DOMAIN h
    BY AppendFacts DEF Written
  <1> HIDE DEF w
  <1>2. \A n \in DOMAIN w : inPair(w[n]) => w[n].id \in Ids
    BY <1>1 DEF Written
  <1>3. \A n \in DOMAIN w : w[n].type = "ExecutionStarted" => n = 1
    BY <1>1 DEF Written
  <1>4. \A n \in DOMAIN w : w[n].type = "ExecutionCompleted" => n = Len(w)
    BY <1>1 DEF terminal
  <1>5. ASSUME NEW m \in DOMAIN w, NEW n \in DOMAIN w, m < n, inPair(w[m]), ofPair(w[n], w[m].id)
        PROVE  w[m].ts <= w[n].ts
    <2>1. m \in DOMAIN h /\ w[m] = h[m]
      BY <1>1, <1>5
    <2>2. CASE n = z
      BY <1>1, <1>5, <2>1, <2>2
    <2>3. CASE n \in DOMAIN h
      BY <1>1, <1>5, <2>1, <2>3 DEF Written
    <2> QED
      BY <1>1, <2>2, <2>3
  <1> QED
    BY <1>1, <1>2, <1>3, <1>4, <1>5 DEF Written, w

\* Nothing of its id follows a start that is open.
LEMMA NothingAfterOpen ==
    ASSUME NEW h, Written(h), NEW n \in Open(h), NEW k \in DOMAIN h, ofPair(h[k], h[n].id)
    PROVE  k <= n
  <1>1. DOMAIN h = 1..Len(h) /\ Len(h) \in Nat /\ n \in DOMAIN h /\ isStart(h[n])
    BY DEF Written, Open
  <1>2. SUFFICES ASSUME n < k PROVE FALSE
    BY <1>1
  <1>3. PICK q \in (n + 1)..k : isEnd(h[q]) /\ h[q].id = h[n].id /\ h[q].task = h[n].task
    BY <1>1, <1>2 DEF Written, TakeTurns
  <1>4. q \in DOMAIN h
    BY <1>1, <1>3
  <1> QED
    BY <1>3, <1>4 DEF Open

\* A start that is not open was completed after it was written.
LEMMA ClosedLater ==
    ASSUME NEW h, Written(h), NEW m \in DOMAIN h, isStart(h[m]), m \notin Open(h)
    PROVE  \E q \in DOMAIN h : m < q /\ isEnd(h[q]) /\ h[q].id = h[m].id /\ h[q].task = h[m].task
  <1>1. DOMAIN h = 1..Len(h) /\ Len(h) \in Nat /\ TakeTurns(h)
    BY DEF Written
  <1>2. PICK q \in DOMAIN h : isEnd(h[q]) /\ h[q].task = h[m].task
    BY DEF Open
  <1>3. PICK p \in 1..(q - 1) : isStart(h[p]) /\ h[p].id = h[q].id /\ h[p].task = h[q].task
    BY <1>1, <1>2 DEF TakeTurns
  <1>4. p \in DOMAIN h
    BY <1>1, <1>3
  <1>5. p = m
    BY <1>1, <1>2, <1>3, <1>4 DEF TakeTurns
  <1> QED
    BY <1>1, <1>2, <1>3, <1>5

\* Starts of ids that are not in use, completions of open starts, and events of no task
\* keep the turns.
LEMMA TurnsAppend ==
    ASSUME NEW h, Written(h), NEW e \in Events,
           \/ ~inPair(e)
           \/ /\ isStart(e) /\ \A n \in Open(h) : h[n].id # e.id
              /\ \A n \in DOMAIN h : h[n].task # e.task
           \/ /\ isEnd(e) /\ \E n \in Open(h) : h[n].id = e.id /\ h[n].task = e.task
    PROVE  TakeTurns(Append(h, e))
  <1> DEFINE w == Append(h, e)
             z == Len(h) + 1
  <1>1. /\ DOMAIN h = 1..Len(h) /\ Len(h) \in Nat /\ DOMAIN w = 1..z
        /\ w[z] = e /\ \A n \in DOMAIN h : w[n] = h[n]
        /\ \A n \in DOMAIN w : n = z \/ n \in DOMAIN h
    BY AppendFacts DEF Written
  <1>2. TakeTurns(h)
    BY DEF Written
  <1> HIDE DEF w
  <1>3. isStart(e) => ~isEnd(e)
    BY DEF isStart, isEnd, START_TYPES
  <1>4. ASSUME NEW n \in DOMAIN w, isEnd(w[n])
        PROVE  \E m \in 1..(n - 1) :
                  /\ isStart(w[m]) /\ w[m].id = w[n].id /\ w[m].task = w[n].task
                  /\ \A k \in (m + 1)..(n - 1) : ~ofPair(w[k], w[n].id)
    <2>1. CASE n = z
      <3>1. PICK m \in Open(h) : h[m].id = e.id /\ h[m].task = e.task
        BY <1>1, <1>3, <1>4, <2>1 DEF inPair
      <3>2. m \in 1..(n - 1) /\ m \in DOMAIN h /\ isStart(h[m]) /\ w[m] = h[m]
        BY <1>1, <2>1, <3>1 DEF Open
      <3>3. ASSUME NEW k \in (m + 1)..(n - 1), ofPair(w[k], e.id) PROVE FALSE
        <4>1. k \in DOMAIN h /\ w[k] = h[k] /\ ~(k <= m)
          BY <1>1, <2>1, <3>2, <3>3
        <4> QED
          BY <3>1, <3>3, <4>1, NothingAfterOpen
      <3> QED
        BY <1>1, <2>1, <3>1, <3>2, <3>3
    <2>2. CASE n \in DOMAIN h
      <3>1. PICK m \in 1..(n - 1) : /\ isStart(h[m]) /\ h[m].id = h[n].id /\ h[m].task = h[n].task
                                    /\ \A k \in (m + 1)..(n - 1) : ~ofPair(h[k], h[n].id)
        BY <1>1, <1>2, <1>4, <2>2 DEF TakeTurns
      <3>2. m \in DOMAIN h /\ \A k \in (m + 1)..(n - 1) : k \in DOMAIN h
        BY <1>1, <2>2, <3>1
      <3> QED
        BY <1>1, <2>2, <3>1, <3>2
    <2> QED
      BY <1>1, <2>1, <2>2
  <1>5. ASSUME NEW m \in DOMAIN w, NEW k \in DOMAIN w, m < k, isStart(w[m]), ofPair(w[k], w[m].id)
        PROVE  \E n \in (m + 1)..k : isEnd(w[n]) /\ w[n].id = w[m].id /\ w[n].task = w[m].task
    <2>1. m \in DOMAIN h /\ w[m] = h[m]
      BY <1>1, <1>5
    <2>2. CASE k \in DOMAIN h
      <3>1. PICK n \in (m + 1)..k : isEnd(h[n]) /\ h[n].id = h[m].id /\ h[n].task = h[m].task
        BY <1>1, <1>2, <1>5, <2>1, <2>2 DEF TakeTurns
      <3>2. n \in DOMAIN h
        BY <1>1, <2>1, <2>2, <3>1
      <3> QED
        BY <1>1, <2>1, <3>1, <3>2
    <2>3. CASE k = z
      <3>1. CASE m \in Open(h)
        <4>1. PICK n \in Open(h) : isEnd(e) /\ h[n].id = e.id /\ h[n].task = e.task
          BY <1>1, <1>5, <2>1, <2>3, <3>1 DEF ofPair
        <4>2. n \in DOMAIN h /\ isStart(h[n]) /\ h[n].id = h[m].id
          BY <1>1, <1>5, <2>1, <2>3, <4>1 DEF Open, ofPair
        <4>3. m <= n /\ n <= m
          BY <1>5, <2>1, <3>1, <4>2, NothingAfterOpen DEF ofPair, inPair
        <4>4. m = n
          BY <1>1, <2>1, <4>2, <4>3
        <4>5. z \in (m + 1)..k
          BY <1>1, <2>1, <2>3
        <4> QED
          BY <1>1, <2>1, <4>1, <4>4, <4>5
      <3>2. CASE m \notin Open(h)
        <4>1. PICK q \in DOMAIN h : m < q /\ isEnd(h[q]) /\ h[q].id = h[m].id /\ h[q].task = h[m].task
          BY <1>5, <2>1, <3>2, ClosedLater
        <4>2. q \in (m + 1)..k
          BY <1>1, <2>1, <2>3, <4>1
        <4> QED
          BY <1>1, <2>1, <4>1, <4>2
      <3> QED
        BY <3>1, <3>2
    <2> QED
      BY <1>1, <2>2, <2>3
  <1>6. ASSUME NEW m \in DOMAIN w, NEW n \in DOMAIN w, w[m].task = w[n].task,
               (isStart(w[m]) /\ isStart(w[n])) \/ (isEnd(w[m]) /\ isEnd(w[n]))
        PROVE  m = n
    <2>1. ASSUME NEW k \in DOMAIN h
          PROVE  ~(h[k].task = e.task /\ ((isStart(h[k]) /\ isStart(e)) \/ (isEnd(h[k]) /\ isEnd(e))))
      BY <1>3 DEF inPair, Open
    <2>2. CASE m \in DOMAIN h /\ n \in DOMAIN h
      BY <1>1, <1>2, <1>6, <2>2 DEF TakeTurns
    <2> QED
      BY <1>1, <1>6, <2>1, <2>2
  <1> QED
    BY <1>4, <1>5, <1>6 DEF TakeTurns, w

\* No events are a history.
LEMMA WrittenNone == Written(<<>>)
  <1>1. <<>> \in Seq(Events) /\ \A n \in DOMAIN <<>> : FALSE
    OBVIOUS
  <1> QED
    BY <1>1 DEF Written, TakeTurns

\* The event an instance begins with is a history that may be written to.
LEMMA WrittenFirst ==
    ASSUME NEW e \in Events, e.type = "ExecutionStarted"
    PROVE  Written(<<e>>) /\ ~terminal(<<e>>) /\ <<e>> # <<>>
  <1>1. <<e>> \in Seq(Events) /\ Len(<<e>>) = 1 /\ DOMAIN <<e>> = {1} /\ <<e>>[1] = e /\ <<e>> # <<>>
    OBVIOUS
  <1>2. ~isStart(e) /\ ~isEnd(e) /\ e.type # "ExecutionCompleted"
    BY DEF isStart, isEnd, START_TYPES
  <1> QED
    BY <1>1, <1>2 DEF Written, TakeTurns, terminal, inPair, ofPair

\* A history that may be written to.
LEMMA LiveFacts ==
    ASSUME Logged, Live
    PROVE  /\ Parent \in Instances /\ Written(log[Parent]) /\ log[Parent] # <<>> /\ ~terminal(log[Parent])
           /\ serial \in Nat /\ now \in Nat /\ serial + 1 \in 3..MaxEvents
           /\ log[Parent] \in Seq(Events) /\ Len(log[Parent]) <= serial
           /\ \A n \in DOMAIN log[Parent] : log[Parent][n].ts <= now /\ log[Parent][n].task <= serial
           /\ \A n \in DOMAIN log[Parent] : log[Parent][n] \in Events
  <1>1. Parent \in Instances /\ Written(log[Parent])
    BY DEF Logged, Instances
  <1> QED
    BY <1>1, HistoryAssumption DEF Logged, Live, Written

\* Writing an event that keeps the history right keeps the log right.
LEMMA WriteKeeps ==
    ASSUME Logged, NEW e \in Events, Write(e), Written(Append(log[Parent], e)), e.ts <= now, e.task <= serial + 1
    PROVE  Logged'
  <1> DEFINE h == log[Parent]
             w == Append(h, e)
  <1>1. Live /\ log' = [log EXCEPT ![Parent] = w] /\ serial' = serial + 1 /\ now' = now
    BY DEF Write
  <1>2. /\ Parent \in Instances /\ serial \in Nat /\ now \in Nat /\ serial + 1 \in 3..MaxEvents
        /\ h \in Seq(Events) /\ Len(h) <= serial
        /\ \A n \in DOMAIN h : h[n].ts <= now /\ h[n].task <= serial
        /\ \A n \in DOMAIN h : h[n] \in Events
    BY <1>1, LiveFacts
  <1>3. /\ Len(w) = Len(h) + 1 /\ w[Len(h) + 1] = e /\ Len(h) \in Nat
        /\ \A n \in DOMAIN h : w[n] = h[n]
        /\ \A n \in DOMAIN w : n = Len(h) + 1 \/ n \in DOMAIN h
    BY <1>2, AppendFacts
  <1>4. Written(w)
    OBVIOUS
  <1> HIDE DEF w, h
  <1>5. Len(w) <= serial + 1 /\ \A n \in DOMAIN w : w[n].ts <= now /\ w[n].task <= serial + 1
    <2>1. Len(w) <= serial + 1
      BY <1>2, <1>3
    <2>2. ASSUME NEW n \in DOMAIN w
          PROVE  w[n].ts <= now /\ w[n].task <= serial + 1
      <3>1. CASE n = Len(h) + 1
        BY <1>3, <3>1
      <3>2. CASE n \in DOMAIN h
        <4>1. h[n].task \in Nat /\ h[n].task <= serial
          BY <1>2, <3>2 DEF Events
        <4> QED
          BY <1>2, <1>3, <3>2, <4>1
      <3> QED
        BY <1>3, <2>2, <3>1, <3>2
    <2> QED
      BY <2>1, <2>2
  <1>6. DOMAIN log' = Instances /\ log'[Parent] = w /\ \A i \in Instances : i # Parent => log'[i] = log[i]
    BY <1>1, <1>2 DEF Logged
  <1>7. ASSUME NEW i \in Instances
        PROVE  /\ Written(log'[i]) /\ Len(log'[i]) <= serial'
               /\ \A n \in DOMAIN log'[i] : log'[i][n].ts <= now' /\ log'[i][n].task <= serial'
    <2>1. CASE i = Parent
      BY <1>1, <1>4, <1>5, <1>6, <2>1
    <2>2. CASE i # Parent
      <3>1. Written(log[i]) /\ Len(log[i]) <= serial /\ log[i] \in Seq(Events)
        BY DEF Logged, Written
      <3>2. ASSUME NEW n \in DOMAIN log[i]
            PROVE  log[i][n].ts <= now /\ log[i][n].task <= serial + 1
        <4>1. log[i][n] \in Events
          BY <3>1
        <4>2. log[i][n].task \in Nat
          BY <4>1 DEF Events
        <4> QED
          BY <1>2, <4>2 DEF Logged
      <3>3. Len(log[i]) <= serial + 1
        <4>1. Len(log[i]) \in Nat
          BY <3>1
        <4> QED
          BY <1>2, <3>1, <4>1
      <3> QED
        BY <1>1, <1>6, <2>2, <3>1, <3>2, <3>3
    <2> QED
      BY <2>1, <2>2
  <1>8. now' \in 0..MaxTime /\ serial' \in 3..MaxEvents
    BY <1>1, <1>2 DEF Logged
  <1> QED
    BY <1>6, <1>7, <1>8 DEF Logged

\* A task is scheduled under an id that is not in use.
LEMMA ScheduleKeeps ==
    ASSUME Logged, NEW type \in START_TYPES, NEW id \in Ids, Schedule(type, id)
    PROVE  Logged'
  <1> DEFINE h == log[Parent]
             e == Event(type, id, serial + 1, now, serial + 1)
  <1>1. Live /\ Write(e) /\ \A n \in Open(h) : h[n].id # id
    BY DEF Schedule, Write
  <1>2. /\ Written(h) /\ h # <<>> /\ ~terminal(h) /\ serial \in Nat /\ now \in Nat
        /\ \A n \in DOMAIN h : h[n].ts <= now /\ h[n].task <= serial
        /\ \A n \in DOMAIN h : h[n] \in Events
    BY <1>1, LiveFacts
  <1>3. /\ e \in Events /\ e.type = type /\ e.id = id /\ e.task = serial + 1 /\ e.ts = now
    <2>1. type \in Types /\ id \in Ids \union {None} /\ serial + 1 \in Nat /\ now \in Nat
      BY <1>2 DEF Types
    <2> QED
      BY <2>1 DEF Event, Events
  <1> HIDE DEF e, h
  <1>4. isStart(e) /\ e.type # "ExecutionStarted"
    BY <1>3 DEF isStart, START_TYPES
  <1>5. \A n \in DOMAIN h : h[n].task # e.task
    <2> TAKE n \in DOMAIN h
    <2>1. h[n].task \in Nat /\ h[n].task <= serial
      BY <1>2 DEF Events
    <2> QED
      BY <1>2, <1>3, <2>1
  <1>6. TakeTurns(Append(h, e))
    BY <1>1, <1>2, <1>3, <1>4, <1>5, TurnsAppend
  <1>7. Written(Append(h, e))
    BY <1>2, <1>3, <1>4, <1>6, WrittenAppend
  <1>8. e.ts <= now /\ e.task <= serial + 1
    BY <1>2, <1>3
  <1> QED
    BY <1>1, <1>3, <1>7, <1>8, WriteKeeps DEF h

\* A completion is of an open start, and not of a time before it.
LEMMA CompleteKeeps ==
    ASSUME Logged, NEW n \in Nat, NEW ts \in Nat, CompleteTask(n, ts)
    PROVE  Logged'
  <1> DEFINE h == log[Parent]
             e == Event("TaskCompleted", h[n].id, h[n].task, ts, serial + 1)
  <1>1. Live /\ Write(e) /\ n \in Open(h) /\ h[n].ts <= ts /\ ts <= now
    BY DEF CompleteTask, Write
  <1>2. /\ Written(h) /\ h # <<>> /\ ~terminal(h) /\ serial \in Nat /\ now \in Nat
        /\ \A m \in DOMAIN h : h[m].ts <= now /\ h[m].task <= serial
        /\ \A m \in DOMAIN h : h[m] \in Events
    BY <1>1, LiveFacts
  <1>3. n \in DOMAIN h /\ isStart(h[n]) /\ h[n].id \in Ids /\ h[n].task \in Nat /\ h[n].task <= serial
        /\ h[n].ts \in Nat
    BY <1>1, <1>2 DEF Open, Written, inPair, Events
  <1>4. /\ e \in Events /\ e.type = "TaskCompleted" /\ e.id = h[n].id /\ e.task = h[n].task /\ e.ts = ts
    <2>1. "TaskCompleted" \in Types /\ h[n].id \in Ids \union {None} /\ serial + 1 \in Nat
      BY <1>2, <1>3 DEF Types
    <2> QED
      BY <1>3, <2>1 DEF Event, Events
  <1> HIDE DEF e, h
  <1>5. isEnd(e) /\ e.type # "ExecutionStarted"
    BY <1>4 DEF isEnd
  <1>6. TakeTurns(Append(h, e))
    BY <1>1, <1>2, <1>4, <1>5, TurnsAppend
  <1>7. ASSUME NEW m \in DOMAIN h, inPair(h[m]), ofPair(e, h[m].id)
        PROVE  h[m].ts <= e.ts
    <2>1. ofPair(h[m], h[n].id) /\ inPair(h[n]) /\ ofPair(h[n], h[m].id)
      BY <1>3, <1>4, <1>7 DEF ofPair, inPair
    <2>2. m <= n /\ m \in Nat
      BY <1>1, <1>2, <2>1, NothingAfterOpen DEF Written
    <2>3. h[m].ts <= h[n].ts
      <3>1. CASE m = n
        BY <1>3, <3>1
      <3>2. CASE m # n
        <4>1. m < n
          BY <2>2, <3>2
        <4> QED
          BY <1>2, <1>3, <1>7, <2>1, <4>1 DEF Written
      <3> QED
        BY <3>1, <3>2
    <2>4. h[m].ts \in Nat
      BY <1>2 DEF Events
    <2> QED
      BY <1>1, <1>3, <1>4, <2>3, <2>4
  <1>8. Written(Append(h, e))
    BY <1>2, <1>3, <1>4, <1>5, <1>6, <1>7, WrittenAppend
  <1>9. e.ts <= now /\ e.task <= serial + 1
    BY <1>1, <1>2, <1>3, <1>4
  <1> QED
    BY <1>1, <1>4, <1>8, <1>9, WriteKeeps DEF h

\* The last event of an instance.
LEMMA FinishKeeps ==
    ASSUME Logged, Finish
    PROVE  Logged'
  <1> DEFINE h == log[Parent]
             e == Event("ExecutionCompleted", None, None, now, serial + 1)
  <1>1. Live /\ Write(e)
    BY DEF Finish, Write
  <1>2. /\ Written(h) /\ h # <<>> /\ ~terminal(h) /\ serial \in Nat /\ now \in Nat
    BY <1>1, LiveFacts
  <1>3. e \in Events /\ e.type = "ExecutionCompleted" /\ e.task = 0 /\ e.ts = now
    BY <1>2 DEF Event, Events, Types, None
  <1> HIDE DEF e, h
  <1>4. ~inPair(e) /\ \A i : ~ofPair(e, i)
    BY <1>3 DEF inPair, isStart, isEnd, START_TYPES, ofPair
  <1>5. TakeTurns(Append(h, e))
    BY <1>2, <1>3, <1>4, TurnsAppend
  <1>6. Written(Append(h, e))
    BY <1>2, <1>3, <1>4, <1>5, WrittenAppend
  <1>7. e.ts <= now /\ e.task <= serial + 1
    BY <1>2, <1>3
  <1> QED
    BY <1>1, <1>3, <1>6, <1>7, WriteKeeps DEF h

\* A history begun anew has one event.
LEMMA AnewKeeps ==
    ASSUME Logged, ContinueAsNew
    PROVE  Logged'
  <1> DEFINE e == Event("ExecutionStarted", None, None, now, serial + 1)
  <1>1. Live /\ log' = [log EXCEPT ![Parent] = <<e>>] /\ serial' = serial + 1 /\ now' = now
    BY DEF ContinueAsNew
  <1>2. Parent \in Instances /\ serial \in Nat /\ now \in Nat /\ serial + 1 \in 3..MaxEvents
    BY <1>1, LiveFacts
  <1>3. e \in Events /\ e.type = "ExecutionStarted" /\ e.task = 0 /\ e.ts = now
    <2>1. "ExecutionStarted" \in Types /\ None \in Ids \union {None} /\ None = 0 /\ 0 \in Nat /\ serial + 1 \in Nat
      BY <1>2 DEF Types, None
    <2> QED
      BY <1>2, <2>1 DEF Event, Events
  <1> HIDE DEF e
  <1>4. Written(<<e>>) /\ Len(<<e>>) = 1 /\ DOMAIN <<e>> = {1} /\ <<e>>[1] = e
    BY <1>3, WrittenFirst
  <1>5. DOMAIN log' = Instances /\ log'[Parent] = <<e>> /\ \A i \in Instances : i # Parent => log'[i] = log[i]
    BY <1>1, <1>2 DEF Logged
  <1>6. ASSUME NEW i \in Instances
        PROVE  /\ Written(log'[i]) /\ Len(log'[i]) <= serial'
               /\ \A n \in DOMAIN log'[i] : log'[i][n].ts <= now' /\ log'[i][n].task <= serial'
    <2>1. CASE i = Parent
      BY <1>1, <1>2, <1>3, <1>4, <1>5, <2>1
    <2>2. CASE i # Parent
      <3>1. Written(log[i]) /\ Len(log[i]) <= serial /\ log[i] \in Seq(Events)
        BY DEF Logged, Written
      <3>2. ASSUME NEW n \in DOMAIN log[i]
            PROVE  log[i][n].ts <= now /\ log[i][n].task <= serial + 1
        <4>1. log[i][n] \in Events
          BY <3>1
        <4>2. log[i][n].task \in Nat
          BY <4>1 DEF Events
        <4> QED
          BY <1>2, <4>2 DEF Logged
      <3>3. Len(log[i]) <= serial + 1
        <4>1. Len(log[i]) \in Nat
          BY <3>1
        <4> QED
          BY <1>2, <3>1, <4>1
      <3> QED
        BY <1>1, <1>5, <2>2, <3>1, <3>2, <3>3
    <2> QED
      BY <2>1, <2>2
  <1>7. now' \in 0..MaxTime /\ serial' \in 3..MaxEvents
    BY <1>1, <1>2 DEF Logged
  <1> QED
    BY <1>5, <1>6, <1>7 DEF Logged

\* Time passes.
LEMMA TickKeeps ==
    ASSUME Logged, Tick
    PROVE  Logged'
  <1>1. now' = now + 1 /\ log' = log /\ serial' = serial /\ now' \in 0..MaxTime /\ now \in Nat
    BY HistoryAssumption DEF Logged, Tick
  <1>2. ASSUME NEW i \in Instances, NEW n \in DOMAIN log[i]
        PROVE  log[i][n].ts <= now'
    <2>1. log[i][n] \in Events
      BY DEF Logged, Written
    <2>2. log[i][n].ts \in Nat /\ log[i][n].ts <= now
      BY <2>1 DEF Logged, Events
    <2> QED
      BY <1>1, <2>2
  <1> QED
    BY <1>1, <1>2 DEF Logged

\* A removed instance has no events.
LEMMA RemovalKeeps ==
    ASSUME Logged, NEW i \in Instances, log' \in {log, [log EXCEPT ![i] = <<>>]}, UNCHANGED <<now, serial>>
    PROVE  Logged'
  <1>1. Len(<<>>) = 0 /\ \A n \in DOMAIN <<>> : FALSE
    OBVIOUS
  <1>2. DOMAIN log' = Instances /\ \A j \in Instances : log'[j] = log[j] \/ log'[j] = <<>>
    BY DEF Logged
  <1>3. serial \in Nat
    BY HistoryAssumption DEF Logged
  <1>4. 0 <= serial
    BY <1>3
  <1>5. ASSUME NEW j \in Instances
        PROVE  /\ Written(log'[j]) /\ Len(log'[j]) <= serial
               /\ \A n \in DOMAIN log'[j] : log'[j][n].ts <= now /\ log'[j][n].task <= serial
    <2>1. CASE log'[j] = log[j]
      BY <2>1 DEF Logged
    <2>2. CASE log'[j] = <<>>
      BY <1>1, <1>4, <2>2, WrittenNone
    <2> QED
      BY <1>2, <2>1, <2>2
  <1> QED
    BY <1>2, <1>5 DEF Logged

-----------------------------------------------------------------------------
(* What the page does                                                      *)

\* What is shown is the history last fetched, its rows are its events.
LEMMA FetchedRows ==
    ASSUME NEW h, Fetched(h)
    PROVE  /\ DOMAIN sortHistoryForDisplay(h) = DOMAIN h /\ DOMAIN h = 1..Len(h)
           /\ Len(sortHistoryForDisplay(h)) = Len(h) /\ Len(h) \in 0..MaxEvents /\ DOMAIN h \subseteq 1..MaxEvents
           /\ PairsRight(sortHistoryForDisplay(h))
           /\ \A n \in DOMAIN h : inPair(sortHistoryForDisplay(h)[n]) => sortHistoryForDisplay(h)[n].id \in Ids
  <1>1. h \in Seq(Events) /\ Written(h) /\ Len(h) <= MaxEvents
    BY DEF Fetched, Written
  <1>2. DOMAIN h = 1..Len(h) /\ Len(h) \in 0..MaxEvents /\ DOMAIN h \subseteq 1..MaxEvents
    BY <1>1, HistoryAssumption
  <1> QED
    BY <1>1, <1>2, SortFacts, WrittenPairs DEF Sorted

\* What a page holds before the first answer.
LEMMA FetchedNone == Fetched(<<>>) /\ DOMAIN <<>> = {}
  <1>1. Len(<<>>) = 0 /\ DOMAIN <<>> = {}
    OBVIOUS
  <1>2. Len(<<>>) <= MaxEvents
    BY <1>1, HistoryAssumption
  <1> QED
    BY <1>1, <1>2, WrittenNone DEF Fetched

\* When rows are shown they are of the history last fetched.
LEMMA ShownFacts ==
    ASSUME Held, Shown
    PROVE  /\ ~isError /\ exec[inst] # <<>> /\ Fetched(exec[inst]) /\ Rows(inst) = exec[inst]
           /\ canon = sortHistoryForDisplay(exec[inst]) /\ pairs = buildPairIndex(sortHistoryForDisplay(exec[inst]))
  BY DEF Held, Shown, Rows, canon, pairs

\* The row that a hash is followed to, if any.
JumpedTo(h, n) == [pairId |-> sortHistoryForDisplay(h)[n].id, index |-> n]

\* A jump leaves the selection, or moves it to the row of a new address that is there.
LEMMA JumpFacts ==
    ASSUME jumpToHash, Fetched(exec'[inst']), hash' \in Nat, isError' \in BOOLEAN
    PROVE  /\ \/ selection' = selection
              \/ /\ ~isError' /\ hash' \notin {None, lastHash} /\ hash' \in DOMAIN exec'[inst']
                 /\ inPair(sortHistoryForDisplay(exec'[inst'])[hash'])
                 /\ selection' = JumpedTo(exec'[inst'], hash')
           /\ hash' # None /\ (isError' \/ hash' \notin DOMAIN exec'[inst']) => lastHash' = lastHash
           /\ hash' # None /\ ~isError' /\ hash' \in DOMAIN exec'[inst'] => lastHash' = hash'
           /\ hash' = None => lastHash' = None
  <1> DEFINE h == exec'[inst']
             c == sortHistoryForDisplay(h)
             rows == IF isError' THEN <<>> ELSE h
             at == buildPairIndex(sortHistoryForDisplay(rows))
  <1>1. /\ lastHash' = IF hash' = None THEN None ELSE IF jumps(rows) THEN hash' ELSE lastHash
        /\ selection' = IF jumps(rows) /\ hash' \in DOMAIN at
                        THEN [pairId |-> at[hash'].pairId, index |-> hash'] ELSE selection
    BY DEF jumpToHash
  <1>2. Fetched(rows) /\ DOMAIN <<>> = {}
    BY FetchedNone
  <1>3. isError' => ~jumps(rows)
    BY <1>2 DEF jumps
  <1>4. ~isError' => rows = h
    OBVIOUS
  <1>5. PairsRight(sortHistoryForDisplay(rows)) /\ DOMAIN sortHistoryForDisplay(rows) = DOMAIN rows
    BY <1>2, FetchedRows
  <1> HIDE DEF rows, h
  <1>6. \A n \in DOMAIN at : n \in DOMAIN rows /\ at[n].pairId = sortHistoryForDisplay(rows)[n].id
                             /\ inPair(sortHistoryForDisplay(rows)[n])
    BY <1>5 DEF PairsRight
  <1> HIDE DEF at
  <1>7. \/ selection' = selection
        \/ /\ ~isError' /\ hash' \notin {None, lastHash} /\ hash' \in DOMAIN h
           /\ inPair(c[hash']) /\ selection' = JumpedTo(h, hash')
    <2>1. CASE jumps(rows) /\ hash' \in DOMAIN at
      BY <1>1, <1>3, <1>4, <1>6, <2>1 DEF jumps, JumpedTo
    <2>2. CASE ~(jumps(rows) /\ hash' \in DOMAIN at)
      BY <1>1, <2>2
    <2> QED
      BY <2>1, <2>2
  <1>8. hash' # None /\ (isError' \/ hash' \notin DOMAIN h) => lastHash' = lastHash
    BY <1>1, <1>3, <1>4 DEF jumps
  <1>9. hash' # None /\ ~isError' /\ hash' \in DOMAIN h => lastHash' = hash'
    BY <1>1, <1>4 DEF jumps
  <1> QED
    BY <1>1, <1>7, <1>8, <1>9 DEF h

\* A selection that was followed to is the row at the hash.
LEMMA JumpedFacts ==
    ASSUME NEW h, Fetched(h), NEW n \in DOMAIN h, inPair(sortHistoryForDisplay(h)[n])
    PROVE  /\ JumpedTo(h, n) \in [pairId : Ids \union {None}, index : 0..MaxEvents]
           /\ JumpedTo(h, n).index # None /\ JumpedTo(h, n).pairId # None /\ JumpedTo(h, n) # NoSelection
           /\ Points(h, JumpedTo(h, n), sortHistoryForDisplay(h)[n].serial)
  <1>1. n \in 1..MaxEvents /\ sortHistoryForDisplay(h)[n].id \in Ids /\ n # None
    BY FetchedRows DEF None
  <1> QED
    BY <1>1, HistoryAssumption DEF JumpedTo, Points, NoSelection

\* Steps of others leave the page as it is.
LEMMA SamePage ==
    ASSUME Page, mounted' \in BOOLEAN, UNCHANGED <<inst, hash, data, view, rowsel, clip>>
    PROVE  Page'
  <1>1. /\ inst' = inst /\ hash' = hash /\ exec' = exec /\ isError' = isError /\ order' = order /\ pref' = pref
        /\ selection' = selection /\ lastHash' = lastHash /\ chosen' = chosen /\ shifted' = shifted /\ clip' = clip
    BY DEF data, view, rowsel
  <1> QED
    BY <1>1 DEF Page, Held, Copied, Selected, Linked

\* Reversing the order moves no selection: rows keep their numbers.
LEMMA TogglePage ==
    ASSUME Page, toggleOrder
    PROVE  Page'
  <1>1. /\ inst' = inst /\ hash' = hash /\ exec' = exec /\ isError' = isError /\ mounted' = mounted
        /\ selection' = selection /\ lastHash' = lastHash /\ chosen' = chosen /\ shifted' = shifted /\ clip' = clip
        /\ order' \in {"asc", "desc"} /\ pref' = order'
    BY DEF toggleOrder, address, data, rowsel
  <1> QED
    BY <1>1 DEF Page, Held, Copied, Selected, Linked

\* A click on a pair selects the row that was clicked, or takes the selection back.
LEMMA PairSelectionPage ==
    ASSUME Page, NEW position \in Nat, togglePairSelection(position)
    PROVE  Page'
  <1> DEFINE n == rowAddress(position)
             picked == [pairId |-> pairs[n].pairId, index |-> n]
             h == exec[inst]
             c == sortHistoryForDisplay(h)
  <1>1. Shown /\ n \in DOMAIN pairs
    BY DEF togglePairSelection, OnPage
  <1>2. /\ selection' = IF selection = picked THEN NoSelection ELSE picked
        /\ Choose(canon[n].serial) /\ shifted' = (shifted /\ selection' # picked)
        /\ UNCHANGED <<address, data, view, lastHash, clip>>
    BY DEF togglePairSelection, rowAddress
  <1>3. /\ inst' = inst /\ hash' = hash /\ mounted' = mounted /\ exec' = exec /\ isError' = isError
        /\ order' = order /\ pref' = pref /\ lastHash' = lastHash /\ clip' = clip
    BY <1>2 DEF address, data, view
  <1>4. h # <<>> /\ Fetched(h) /\ canon = c /\ pairs = buildPairIndex(c)
    BY <1>1, ShownFacts DEF Page
  <1>5. n \in DOMAIN h /\ inPair(c[n]) /\ pairs[n].pairId = c[n].id
    BY <1>1, <1>4, FetchedRows DEF PairsRight
  <1>6. picked = JumpedTo(h, n)
    BY <1>5 DEF JumpedTo
  <1> HIDE DEF n, picked, h
  <1>7. /\ picked \in [pairId : Ids \union {None}, index : 0..MaxEvents]
        /\ picked.index # None /\ picked.pairId # None /\ picked # NoSelection /\ Points(h, picked, c[n].serial)
    BY <1>4, <1>5, <1>6, JumpedFacts
  <1>8. Held'
    <2>1. NoSelection \in [pairId : Ids \union {None}, index : 0..MaxEvents]
      BY HistoryAssumption DEF NoSelection, None
    <2>2. NoSelection.index = None /\ NoSelection.pairId = None
      BY DEF NoSelection
    <2>3. shifted' \in BOOLEAN
      BY <1>2 DEF Page, Held
    <2>4. selection' = NoSelection \/ selection' = picked
      BY <1>2
    <2>5. /\ selection' \in [pairId : Ids \union {None}, index : 0..MaxEvents]
          /\ (selection'.index = None) = (selection'.pairId = None)
      BY <1>7, <2>1, <2>2, <2>4
    <2> QED
      BY <1>3, <2>3, <2>5 DEF Page, Held
  <1>9. Copied'
    BY <1>3 DEF Page, Copied
  <1>10. Selected'
    <2>1. CASE selection = picked
      BY <1>2, <2>1 DEF Selected
    <2>2. CASE selection # picked
      <3>1. selection' = picked /\ chosen' = c[n].serial
        BY <1>2, <1>4, <2>2 DEF Choose
      <3> QED
        BY <1>3, <1>7, <3>1 DEF Selected, h
    <2> QED
      BY <2>1, <2>2
  <1>11. Linked'
    BY <1>3, <1>4 DEF Linked, h
  <1> QED
    BY <1>8, <1>9, <1>10, <1>11 DEF Page

\* Following a chip selects the row it names.
LEMMA AnchorPage ==
    ASSUME Page, NEW n \in Nat, followAnchor(n)
    PROVE  Page'
  <1> DEFINE h == exec[inst]
             c == sortHistoryForDisplay(h)
  <1>1. Shown /\ n \in ({Len(canon)} \cup anchors(pairs)) \ {None}
    BY DEF followAnchor, OnPage
  <1>2. /\ hash' = n /\ jumpToHash /\ Choose(canon[n].serial)
        /\ shifted' = (shifted /\ selection' = selection)
        /\ UNCHANGED <<mounted, inst, data, view, clip>>
    BY DEF followAnchor
  <1>3. /\ inst' = inst /\ mounted' = mounted /\ exec' = exec /\ isError' = isError
        /\ order' = order /\ pref' = pref /\ clip' = clip
    BY <1>2 DEF data, view
  <1>4. ~isError /\ h # <<>> /\ Fetched(h) /\ canon = c /\ pairs = buildPairIndex(c)
    BY <1>1, ShownFacts DEF Page
  <1>5. n \in DOMAIN h /\ n # None
    <2>1. n # None /\ (n = Len(c) \/ n \in anchors(buildPairIndex(c)))
      BY <1>1, <1>4
    <2>2. DOMAIN h = 1..Len(h) /\ Len(c) = Len(h) /\ Len(h) \in 0..MaxEvents /\ PairsRight(c) /\ DOMAIN c = DOMAIN h
      BY <1>4, FetchedRows
    <2>3. CASE n = Len(c)
      BY <2>1, <2>2, <2>3 DEF None
    <2>4. CASE n \in anchors(buildPairIndex(c))
      <3>1. PICK m \in DOMAIN buildPairIndex(c) : n = buildPairIndex(c)[m].partner
        BY <2>4 DEF anchors
      <3> QED
        BY <2>1, <2>2, <3>1 DEF PairsRight
    <2> QED
      BY <2>1, <2>3, <2>4
  <1>6. hash' \in 0..MaxEvents /\ hash' \in Nat /\ isError' \in BOOLEAN /\ Fetched(exec'[inst'])
    BY <1>2, <1>3, <1>4, <1>5, FetchedRows DEF Page, Held
  <1>7. /\ \/ selection' = selection
           \/ n # lastHash /\ inPair(c[n]) /\ selection' = JumpedTo(h, n)
        /\ lastHash' = n
    <2>1. exec'[inst'] = h /\ hash' = n /\ ~isError'
      BY <1>2, <1>3, <1>4
    <2> HIDE DEF h
    <2> QED
      BY <1>2, <1>5, <1>6, <2>1, JumpFacts
  <1> HIDE DEF h
  <1>8. Held'
    <2>1. /\ selection' \in [pairId : Ids \union {None}, index : 0..MaxEvents]
          /\ (selection'.index = None) = (selection'.pairId = None)
      <3>1. CASE selection' = selection
        BY <3>1 DEF Page, Held
      <3>2. CASE inPair(c[n]) /\ selection' = JumpedTo(h, n)
        BY <1>4, <1>5, <3>2, JumpedFacts
      <3> QED
        BY <1>7, <3>1, <3>2
    <2>2. shifted' \in BOOLEAN
      BY <1>2 DEF Page, Held
    <2> QED
      BY <1>3, <1>6, <2>1, <2>2 DEF Page, Held
  <1>9. Copied'
    BY <1>3 DEF Page, Copied
  <1>10. Selected'
    <2>1. CASE selection' = selection
      <3>1. chosen' = chosen /\ shifted' = shifted
        BY <1>2, <2>1 DEF Choose, Page, Held
      <3> QED
        BY <1>3, <2>1, <3>1 DEF Selected, Page
    <2>2. CASE selection' # selection
      <3>1. inPair(c[n]) /\ selection' = JumpedTo(h, n) /\ chosen' = c[n].serial
        BY <1>2, <1>4, <1>7, <2>2 DEF Choose
      <3>2. Points(h, selection', chosen')
        BY <1>4, <1>5, <3>1, JumpedFacts
      <3> QED
        BY <1>3, <3>2 DEF Selected, h
    <2> QED
      BY <2>1, <2>2
  <1>11. Linked'
    BY <1>2, <1>7 DEF Linked
  <1> QED
    BY <1>8, <1>9, <1>10, <1>11 DEF Page

\* A link is copied of a row that is shown.
LEMMA CopyPage ==
    ASSUME Page, NEW n \in Nat, copyAnchorLink(n)
    PROVE  Page'
  <1> DEFINE h == exec[inst]
  <1>1. /\ Shown /\ n \in DOMAIN canon
        /\ clip' = [inst |-> inst, hash |-> n, event |-> canon[n].serial, rows |-> h]
        /\ UNCHANGED <<address, data, view, rowsel>>
    BY DEF copyAnchorLink, OnPage
  <1>2. /\ inst' = inst /\ hash' = hash /\ mounted' = mounted /\ exec' = exec /\ isError' = isError
        /\ order' = order /\ pref' = pref
        /\ selection' = selection /\ lastHash' = lastHash /\ chosen' = chosen /\ shifted' = shifted
    BY <1>1 DEF address, data, view, rowsel
  <1>3. h # <<>> /\ Fetched(h) /\ canon = sortHistoryForDisplay(h)
    BY <1>1, ShownFacts DEF Page
  <1>4. n \in DOMAIN h /\ n \in 0..MaxEvents
    BY <1>1, <1>3, FetchedRows
  <1> HIDE DEF h
  <1>5. /\ DOMAIN clip' = {"inst", "hash", "event", "rows"} /\ clip'.inst = inst /\ clip'.hash = n
        /\ clip'.event = sortHistoryForDisplay(h)[n].serial /\ clip'.rows = h
    BY <1>1, <1>3
  <1>6. Copied'
    BY <1>3, <1>4, <1>5 DEF Copied, Page, Held
  <1>7. Held' /\ Selected'
    BY <1>2 DEF Page, Held, Selected
  <1>8. Linked'
    BY <1>2, <1>3 DEF Linked, h
  <1> QED
    BY <1>6, <1>7, <1>8 DEF Page

\* The selection means nothing in another instance.
LEMMA AwayPage ==
    ASSUME Page, NEW i \in Instances, goTo(i, None)
    PROVE  Page'
  <1>1. /\ inst' = i /\ hash' = None /\ isError' = FALSE /\ jumpToHash /\ mounted' = mounted /\ exec' = exec
        /\ order' = order /\ pref' = pref /\ clip' = clip /\ shifted' = (shifted \/ selection' = selection)
    BY DEF goTo, view
  <1>2. Fetched(exec'[inst']) /\ hash' \in Nat /\ isError' \in BOOLEAN /\ hash' \in 0..MaxEvents
    <2>1. exec'[inst'] = exec[i] /\ Fetched(exec[i])
      BY <1>1 DEF Page, Held
    <2>2. 0 \in 0..MaxEvents
      BY HistoryAssumption
    <2> QED
      BY <1>1, <2>1, <2>2 DEF None
  <1>3. selection' = selection
    BY <1>1, <1>2, JumpFacts
  <1>4. shifted'
    BY <1>1, <1>3 DEF Page, Held
  <1>5. Held'
    BY <1>1, <1>2, <1>3, <1>4 DEF Page, Held
  <1>6. Copied'
    BY <1>1 DEF Page, Copied
  <1> QED
    BY <1>4, <1>5, <1>6 DEF Page, Selected, Linked

\* A copied link opened in a new page, which holds no history yet.
LEMMA OpenPage ==
    ASSUME Page, openLink
    PROVE  Page'
  <1>1. /\ mounted' = TRUE /\ inst' = clip.inst /\ hash' = clip.hash /\ order' = pref /\ pref' = pref /\ clip' = clip
        /\ selection' = NoSelection /\ lastHash' = None /\ exec' = [i \in Instances |-> <<>>] /\ isError' = FALSE
        /\ chosen' = clip.event /\ shifted' = FALSE
    BY DEF openLink
  <1>2. NoSelection \in [pairId : Ids \union {None}, index : 0..MaxEvents]
    BY HistoryAssumption DEF NoSelection, None
  <1>3. NoSelection.index = None /\ NoSelection.pairId = None
    BY DEF NoSelection
  <1>4. DOMAIN exec' = Instances /\ \A i \in Instances : Fetched(exec'[i])
    BY <1>1, FetchedNone
  <1>5. Held'
    BY <1>1, <1>2, <1>3, <1>4 DEF Page, Held, Copied
  <1>6. Copied'
    BY <1>1 DEF Page, Copied
  <1> QED
    BY <1>1, <1>5, <1>6 DEF Page, Selected, Linked

\* An event that a history shows keeps its row while the history grows in time.
LEMMA PointsStays ==
    ASSUME NEW g, NEW h, Written(g), Written(h), InTime(g, h), NEW s, NEW e, Points(g, s, e)
    PROVE  Points(h, s, e)
  BY InTimeKeepsRows DEF Points

\* A fetched history: the selection stays, or follows the address to its row.
LEMMA FetchPage ==
    ASSUME Logged, Page, Poll, ~isError'
    PROVE  Page'
  <1> DEFINE h == log[inst]
             c == sortHistoryForDisplay(h)
             linked == exec[inst] = <<>> /\ clip.inst = inst /\ chosen = clip.event
             before == IF linked THEN clip.rows ELSE exec[inst]
  <1>1. inst \in Instances /\ exec' = [exec EXCEPT ![inst] = h] /\ isError' = FALSE /\ h # <<>>
    BY DEF Poll, Page, Held
  <1>2. /\ inst' = inst /\ hash' = hash /\ mounted' = mounted /\ order' = order /\ pref' = pref /\ clip' = clip
        /\ jumpToHash /\ shifted' = (shifted \/ ~InTime(before, exec'[inst]))
        /\ IF linked \/ selection' = selection THEN chosen' = chosen
           ELSE chosen' = sortHistoryForDisplay(exec'[inst])[hash].serial
    BY DEF Poll, address, view
  <1>3. exec'[inst] = h /\ DOMAIN exec' = Instances /\ \A i \in Instances : exec'[i] = h \/ exec'[i] = exec[i]
    BY <1>1 DEF Page, Held
  <1>4. Fetched(h)
    <2>1. Written(h) /\ Len(h) <= serial /\ \A n \in DOMAIN h : h[n].ts <= now
      BY <1>1 DEF Logged
    <2>2. Len(h) \in Nat /\ serial \in 3..MaxEvents /\ now \in 0..MaxTime /\ h \in Seq(Events)
      BY <2>1 DEF Logged, Written
    <2>3. \A n \in DOMAIN h : h[n].ts <= MaxTime
      <3> TAKE n \in DOMAIN h
      <3>1. h[n] \in Events
        BY <2>2
      <3>2. h[n].ts \in Nat
        BY <3>1 DEF Events
      <3> QED
        BY <2>1, <2>2, <3>2, HistoryAssumption
    <2> QED
      BY <2>1, <2>2, <2>3, HistoryAssumption DEF Fetched
  <1> HIDE DEF h
  <1>5. /\ \/ selection' = selection
           \/ /\ hash \notin {None, lastHash} /\ hash \in DOMAIN h /\ inPair(c[hash])
              /\ selection' = JumpedTo(h, hash)
        /\ hash # None /\ hash \notin DOMAIN h => lastHash' = lastHash
        /\ hash # None /\ hash \in DOMAIN h => lastHash' = hash
    <2>1. exec'[inst'] = h /\ ~isError' /\ isError' \in BOOLEAN /\ hash' = hash
      BY <1>1, <1>2, <1>3
    <2>2. hash \in Nat
      BY DEF Page, Held
    <2> QED
      BY <1>2, <1>4, <2>1, <2>2, JumpFacts
  <1>6. Held'
    <2>1. /\ selection' \in [pairId : Ids \union {None}, index : 0..MaxEvents]
          /\ (selection'.index = None) = (selection'.pairId = None)
      <3>1. CASE selection' = selection
        BY <3>1 DEF Page, Held
      <3>2. CASE hash \in DOMAIN h /\ inPair(c[hash]) /\ selection' = JumpedTo(h, hash)
        BY <1>4, <3>2, JumpedFacts
      <3> QED
        BY <1>5, <3>1, <3>2
    <2>2. \A i \in Instances : Fetched(exec'[i])
      BY <1>3, <1>4 DEF Page, Held
    <2>3. shifted' \in BOOLEAN
      BY <1>2 DEF Page, Held
    <2> QED
      BY <1>1, <1>2, <1>3, <2>1, <2>2, <2>3 DEF Page, Held
  <1>7. Copied'
    BY <1>2 DEF Page, Copied
  <1>8. ~shifted' => ~shifted /\ InTime(before, h)
    BY <1>2, <1>3
  <1>9. Written(h) /\ Written(exec[inst]) /\ Written(clip.rows) /\ DOMAIN <<>> = {}
    BY <1>1, <1>4, FetchedNone DEF Page, Held, Copied, Fetched
  \* A link that opened the page finds its row.
  <1>10. ASSUME ~shifted', exec[inst] = <<>>, hash \notin {None, lastHash}
         PROVE  linked /\ hash \in DOMAIN h /\ c[hash].serial = chosen
    <2>1. clip.inst = inst /\ clip.hash = hash /\ clip.event = chosen
      BY <1>8, <1>10 DEF Page, Linked
    <2>2. linked /\ before = clip.rows
      BY <1>10, <2>1
    <2>3. hash \in DOMAIN clip.rows /\ sortHistoryForDisplay(clip.rows)[hash].serial = chosen
      BY <1>10, <2>1 DEF Page, Copied
    <2> QED
      BY <1>8, <1>9, <1>10, <2>2, <2>3, InTimeKeepsRows
  <1>11. Selected'
    <2>1. SUFFICES ASSUME selection' # NoSelection, ~shifted'
                   PROVE  Points(h, selection', chosen')
      BY <1>2, <1>3 DEF Selected
    <2>2. CASE selection' = selection
      <3>1. chosen' = chosen /\ Points(exec[inst], selection, chosen)
        BY <1>2, <1>8, <2>1, <2>2 DEF Page, Selected
      <3>2. exec[inst] # <<>>
        BY <1>9, <3>1 DEF Points
      <3>3. InTime(exec[inst], h)
        BY <1>8, <2>1, <3>2
      <3> QED
        BY <1>9, <2>2, <3>1, <3>3, PointsStays
    <2>3. CASE selection' # selection
      <3>1. /\ hash \notin {None, lastHash} /\ hash \in DOMAIN h /\ inPair(c[hash])
            /\ selection' = JumpedTo(h, hash)
        BY <1>5, <2>3
      <3>2. Points(h, selection', c[hash].serial)
        BY <1>4, <3>1, JumpedFacts
      <3>3. chosen' = c[hash].serial
        <4>1. CASE linked
          BY <1>2, <1>10, <2>1, <3>1, <4>1
        <4>2. CASE ~linked
          BY <1>2, <1>3, <2>3, <4>2
        <4> QED
          BY <4>1, <4>2
      <3> QED
        BY <3>2, <3>3
    <2> QED
      BY <2>2, <2>3
  <1>12. Linked'
    <2>1. exec'[inst'] # <<>>
      BY <1>1, <1>2, <1>3
    <2> QED
      BY <2>1 DEF Linked
  <1> QED
    BY <1>6, <1>7, <1>11, <1>12 DEF Page

\* A failed fetch hides the rows and moves nothing.
LEMMA FailPage ==
    ASSUME Page, Poll, isError'
    PROVE  Page'
  <1>1. exec' = exec /\ isError' = TRUE
    BY DEF Poll
  <1>2. /\ inst' = inst /\ hash' = hash /\ mounted' = mounted /\ order' = order /\ pref' = pref /\ clip' = clip
        /\ jumpToHash /\ (shifted => shifted') /\ shifted' \in BOOLEAN
        /\ selection' = selection => chosen' = chosen
    BY DEF Poll, address, view, Page, Held
  <1>3. Fetched(exec'[inst']) /\ hash' \in Nat /\ isError' \in BOOLEAN
    BY <1>1, <1>2 DEF Page, Held
  <1>4. selection' = selection /\ (hash # None => lastHash' = lastHash) /\ (hash = None => lastHash' = None)
    BY <1>1, <1>2, <1>3, JumpFacts
  <1>5. Held' /\ Copied'
    BY <1>1, <1>2, <1>4 DEF Page, Held, Copied
  <1>6. Selected' /\ Linked'
    BY <1>1, <1>2, <1>4 DEF Page, Selected, Linked
  <1> QED
    BY <1>5, <1>6 DEF Page

-----------------------------------------------------------------------------
(* Removals                                                                *)

\* A removal takes one request away, the others stay.
LEMMA RemoveAtStays ==
    ASSUME NEW S, NEW s \in Seq(S), NEW i \in DOMAIN s
    PROVE  RemoveAt(s, i) \in Seq(S)
  <1>1. i \in 1..Len(s) /\ Len(s) \in Nat
    OBVIOUS
  <1>2. SubSeq(s, 1, i - 1) \in Seq(S) /\ SubSeq(s, i + 1, Len(s)) \in Seq(S)
    BY <1>1
  <1> QED
    BY <1>2 DEF RemoveAt

\* Requests whose page has gone stay what they were.
LEMMA UnheardRequests ==
    ASSUME NEW p \in Seq(Requests)
    PROVE  unhear(p) \in Seq(Requests)
  <1>1. DOMAIN p = 1..Len(p) /\ Len(p) \in Nat /\ \A n \in DOMAIN p : p[n] \in Requests
    OBVIOUS
  <1>2. ASSUME NEW r \in Requests
        PROVE  [r EXCEPT !.live = FALSE] \in Requests
    <2> DEFINE w == [r EXCEPT !.live = FALSE]
    <2>1. r \in [inst : Instances, force : BOOLEAN, live : BOOLEAN,
                 opened : Instances \union {None}, moved : BOOLEAN] /\ (r.inst = r.opened \/ r.moved)
      BY DEF Requests
    <2>2. w \in [inst : Instances, force : BOOLEAN, live : BOOLEAN,
                 opened : Instances \union {None}, moved : BOOLEAN]
      BY <2>1
    <2>3. w.inst = r.inst /\ w.opened = r.opened /\ w.moved = r.moved
      BY <2>1
    <2> HIDE DEF w
    <2>4. w \in Requests
      BY <2>1, <2>2, <2>3 DEF Requests
    <2> QED
      BY <2>4 DEF w
  <1>3. \A n \in 1..Len(p) : [p[n] EXCEPT !.live = FALSE] \in Requests
    BY <1>1, <1>2
  <1>4. unhear(p) = [n \in 1..Len(p) |-> [p[n] EXCEPT !.live = FALSE]]
    BY <1>1 DEF unhear
  <1> DEFINE f(n) == [p[n] EXCEPT !.live = FALSE]
  <1> HIDE DEF f
  <1>5. unhear(p) = [n \in 1..Len(p) |-> f(n)] /\ \A n \in 1..Len(p) : f(n) \in Requests
    BY <1>3, <1>4 DEF f
  <1> QED
    BY <1>1, <1>5

\* The dialog removes the instance it was opened for, while the page stays on it.
LEMMA DialogConfirms ==
    ASSUME Held, Confirmed,
           openPurge \/ openForceDelete \/ toggleForce \/ onCancel \/ onConfirmRemove
    PROVE  Confirmed'
  <1>1. Dialog /\ inst' = inst /\ inst \in Instances
    BY DEF openPurge, openForceDelete, toggleForce, onCancel, onConfirmRemove, Dialog, address, Held
  <1>2. CASE openPurge \/ openForceDelete
    BY <1>1, <1>2 DEF Confirmed, openPurge, openForceDelete
  <1>3. CASE toggleForce \/ onCancel
    BY <1>1, <1>3 DEF Confirmed, toggleForce, onCancel
  <1>4. CASE onConfirmRemove
    <2> DEFINE r == [inst |-> inst, force |-> force, live |-> TRUE, opened |-> opened, moved |-> moved]
    <2>1. /\ dialog /\ post' = Append(unhear(post), r)
          /\ dialog' = dialog /\ force' = force /\ opened' = opened /\ moved' = moved
      BY <1>4 DEF onConfirmRemove, target
    <2>2. r \in Requests
      <3>1. inst = opened \/ moved
        BY <2>1 DEF Confirmed
      <3>2. r.inst = inst /\ r.opened = opened /\ r.moved = moved
        OBVIOUS
      <3>3. r \in [inst : Instances, force : BOOLEAN, live : BOOLEAN,
                   opened : Instances \union {None}, moved : BOOLEAN]
        BY <1>1 DEF Confirmed
      <3> HIDE DEF r
      <3> QED
        BY <3>1, <3>2, <3>3 DEF Requests
    <2> HIDE DEF r
    <2>3. unhear(post) \in Seq(Requests)
      BY UnheardRequests DEF Confirmed
    <2>4. post' \in Seq(Requests)
      BY <2>1, <2>2, <2>3
    <2> QED
      BY <1>1, <2>1, <2>4 DEF Confirmed
  <1> QED
    BY <1>2, <1>3, <1>4

\* Answers to requests.
LEMMA AnswerConfirms ==
    ASSUME Confirmed, NEW n \in DOMAIN post, Succeed(n) \/ Refuse(n)
    PROVE  Confirmed'
  <1>1. post' = RemoveAt(post, n) /\ inst' = inst /\ opened' = opened /\ moved' = moved /\ force' = force
    BY DEF Succeed, Refuse, address
  <1>2. post' \in Seq(Requests)
    BY <1>1, RemoveAtStays DEF Confirmed
  <1>3. dialog' \in BOOLEAN /\ (dialog' => dialog)
    BY DEF Succeed, Refuse, Confirmed
  <1> QED
    BY <1>1, <1>2, <1>3 DEF Confirmed

\* Every request was confirmed for the instance it removes.
LEMMA RequestsReal == Confirmed => RemovesOpened
  <1>1. ASSUME Confirmed, NEW n \in DOMAIN post
        PROVE  post[n].inst = post[n].opened \/ post[n].moved
    <2>1. post[n] \in Requests
      BY <1>1 DEF Confirmed
    <2> QED
      BY <2>1 DEF Requests
  <1> QED
    BY <1>1 DEF RemovesOpened

-----------------------------------------------------------------------------
(* The invariant holds                                                     *)

\* The invariant holds at first.
LEMMA InitHist == Init => HistInv
  <1>1. SUFFICES ASSUME Init PROVE HistInv
    OBVIOUS
  <1> DEFINE first == <<Event("ExecutionStarted", None, None, 0, 1)>>
             second == <<Event("ExecutionStarted", None, None, 0, 2)>>
  <1>2. PICK id \in Ids : log = [i \in Instances |-> IF i = Parent THEN first
                                   ELSE <<Event("ExecutionStarted", None, None, 0, 2),
                                          Event("TaskScheduled", id, 3, 0, 3)>>]
    BY <1>1 DEF Init
  <1> DEFINE task == Event("TaskScheduled", id, 3, 0, 3)
  <1>3. now = 0 /\ serial = 3 /\ 0 \in 0..MaxTime /\ 3 \in 3..MaxEvents /\ 3 \in Nat /\ None = 0
    BY <1>1, HistoryAssumption DEF Init, None
  <1>4. /\ first[1] \in Events /\ first[1].type = "ExecutionStarted" /\ first[1].ts = 0 /\ first[1].task = 0
        /\ second[1] \in Events /\ second[1].type = "ExecutionStarted" /\ second[1].ts = 0 /\ second[1].task = 0
    BY <1>3 DEF Event, Events, Types
  <1>5. task \in Events /\ task.type = "TaskScheduled" /\ task.ts = 0 /\ task.task = 3 /\ task.id = id
    BY <1>3 DEF Event, Events, Types, START_TYPES
  <1>6. /\ first = <<first[1]>> /\ Len(first) = 1 /\ DOMAIN first = {1}
        /\ second = <<second[1]>> /\ Len(second) = 1 /\ DOMAIN second = {1}
        /\ log = [i \in Instances |-> IF i = Parent THEN first ELSE Append(second, task)]
    <2>1. /\ first = <<first[1]>> /\ Len(first) = 1 /\ DOMAIN first = {1}
          /\ second = <<second[1]>> /\ Len(second) = 1 /\ DOMAIN second = {1}
      OBVIOUS
    <2> DEFINE e == Event("ExecutionStarted", None, None, 0, 2)
    <2> HIDE DEF e, task
    <2>2. Append(<<e>>, task) = <<e, task>>
      <3> DEFINE u == Append(<<e>>, task)
                 w == <<e, task>>
      <3>1. /\ u = [n \in 1..2 |-> u[n]] /\ u[1] = e /\ u[2] = task
            /\ w = [n \in 1..2 |-> w[n]] /\ w[1] = e /\ w[2] = task
        OBVIOUS
      <3> HIDE DEF u, w
      <3>2. \A n \in 1..2 : u[n] = w[n]
        BY <3>1
      <3> QED
        BY <3>1, <3>2 DEF u, w
    <2>3. Append(second, task) = <<Event("ExecutionStarted", None, None, 0, 2), task>>
      BY <2>2 DEF e
    <2> QED
      BY <1>2, <2>1, <2>3, Zenon DEF task
  <1> HIDE DEF first, second, task
  <1>7. Written(first) /\ Written(second) /\ ~terminal(second) /\ second # <<>>
    BY <1>4, <1>6, WrittenFirst
  <1>8. isStart(task) /\ ~isStart(second[1])
    BY <1>4, <1>5 DEF isStart, START_TYPES
  <1>9. Written(Append(second, task))
    <2>1. TakeTurns(Append(second, task))
      BY <1>3, <1>4, <1>5, <1>6, <1>7, <1>8, TurnsAppend DEF Open
    <2> QED
      BY <1>3, <1>4, <1>5, <1>6, <1>7, <2>1, WrittenAppend
  <1>10. /\ Len(Append(second, task)) = 2 /\ DOMAIN Append(second, task) = 1..2
         /\ \A n \in 1..2 : Append(second, task)[n] = IF n = 1 THEN second[1] ELSE task
    <2>1. second \in Seq(Events)
      BY <1>7 DEF Written
    <2> QED
      BY <1>5, <1>6, <2>1, AppendFacts
  <1>11. \A n \in 1..2 : Append(second, task)[n].ts <= 0 /\ Append(second, task)[n].task <= 3
    BY <1>4, <1>5, <1>10
  <1>12. Logged
    <2>1. ASSUME NEW i \in Instances
          PROVE  /\ Written(log[i]) /\ Len(log[i]) <= serial
                 /\ \A n \in DOMAIN log[i] : log[i][n].ts <= now /\ log[i][n].task <= serial
      <3>1. CASE i = Parent
        <4>1. log[i] = first
          BY <1>6, <3>1
        <4>2. Len(first) <= serial /\ \A n \in DOMAIN first : n = 1
          BY <1>3, <1>6
        <4>3. first[1].ts <= now /\ first[1].task <= serial
          BY <1>3, <1>4
        <4> QED
          BY <1>7, <4>1, <4>2, <4>3
      <3>2. CASE i # Parent
        <4>1. log[i] = Append(second, task)
          BY <1>6, <3>2
        <4> QED
          BY <1>3, <1>9, <1>10, <1>11, <4>1
      <3> QED
        BY <3>1, <3>2
    <2>2. DOMAIN log = Instances
      BY <1>6
    <2> QED
      BY <1>3, <2>1, <2>2 DEF Logged
  <1>13. /\ mounted = TRUE /\ inst = Parent /\ hash = None /\ exec = [i \in Instances |-> <<>>] /\ isError = FALSE
         /\ order = "asc" /\ pref = "asc" /\ selection = NoSelection /\ lastHash = None
         /\ dialog = FALSE /\ force = FALSE /\ post = <<>> /\ shifted = FALSE /\ opened = None /\ moved = FALSE
         /\ clip = [inst |-> Parent, hash |-> None, event |-> None, rows |-> <<>>]
    BY <1>1 DEF Init
  <1>14. Parent \in Instances /\ 0 \in 0..MaxEvents
    BY HistoryAssumption DEF Instances
  <1>15. Held
    <2>1. NoSelection \in [pairId : Ids \union {None}, index : 0..MaxEvents]
      BY <1>3, <1>14 DEF NoSelection
    <2>2. NoSelection.index = None /\ NoSelection.pairId = None
      BY DEF NoSelection
    <2>3. DOMAIN exec = Instances /\ \A i \in Instances : Fetched(exec[i])
      BY <1>13, FetchedNone
    <2> QED
      BY <1>3, <1>13, <1>14, <2>1, <2>2, <2>3 DEF Held
  <1>16. Copied
    BY <1>3, <1>13, <1>14, FetchedNone DEF Copied
  <1>17. Selected /\ Linked
    BY <1>13 DEF Selected, Linked
  <1>18. Confirmed
    <2>1. post \in Seq(Requests)
      BY <1>13
    <2> QED
      BY <1>13, <2>1 DEF Confirmed
  <1> QED
    BY <1>12, <1>15, <1>16, <1>17, <1>18 DEF HistInv, Page

\* Outside the engine, histories are only removed.
LEMMA SameLog == Logged /\ UNCHANGED engine => Logged'
  BY DEF engine, Logged

\* Steps that leave dialog, requests and page alone.
LEMMA SameConfirmed == Confirmed /\ UNCHANGED <<removal, inst>> => Confirmed'
  BY DEF removal, Confirmed

\* What the reader does.
LEMMA ActHist ==
    ASSUME HistInv, Act
    PROVE  HistInv'
  <1>1. Logged /\ Page /\ Held /\ Confirmed /\ mounted \in BOOLEAN
    BY DEF HistInv, Page, Held
  <1>2. CASE toggleOrder
    <2>1. UNCHANGED engine /\ UNCHANGED <<removal, inst>>
      BY <1>2 DEF toggleOrder, OnPage, User, address
    <2> QED
      BY <1>1, <1>2, <2>1, SameLog, SameConfirmed, TogglePage DEF HistInv
  <1>3. CASE openPurge \/ openForceDelete \/ toggleForce \/ onCancel \/ onConfirmRemove
    <2>1. Dialog
      BY <1>3 DEF openPurge, openForceDelete, toggleForce, onCancel, onConfirmRemove
    <2>2. UNCHANGED engine /\ mounted' = mounted /\ UNCHANGED <<inst, hash, data, view, rowsel, clip>>
      BY <2>1 DEF Dialog, User, address
    <2> QED
      BY <1>1, <1>3, <2>2, SameLog, SamePage, DialogConfirms DEF HistInv
  <1>4. CASE followChild
    <2>1. UNCHANGED engine /\ dialog = FALSE /\ goTo(Child, None) /\ Child \in Instances
      BY <1>1, <1>4 DEF followChild, OnPage, User, Instances, Confirmed
    <2>2. UNCHANGED removal
      BY <1>4 DEF followChild
    <2>3. Confirmed'
      BY <1>1, <2>1, <2>2 DEF Confirmed, removal
    <2> QED
      BY <1>1, <2>1, <2>3, SameLog, AwayPage DEF HistInv
  <1>5. ASSUME NEW n \in 1..MaxEvents, togglePairSelection(n) \/ followAnchor(n) \/ copyAnchorLink(n)
        PROVE  HistInv'
    <2>1. UNCHANGED engine
      BY <1>5 DEF togglePairSelection, followAnchor, copyAnchorLink, OnPage, User
    <2>2. UNCHANGED <<removal, inst>>
      BY <1>5 DEF togglePairSelection, followAnchor, copyAnchorLink, address
    <2> QED
      BY <1>1, <1>5, <2>1, <2>2, SameLog, SameConfirmed, PairSelectionPage, AnchorPage, CopyPage DEF HistInv
  <1>6. CASE openLink
    <2>1. UNCHANGED engine
      BY <1>6 DEF openLink, User
    <2>2. Confirmed'
      <3>1. post' \in Seq(Requests)
        BY <1>1, <1>6, UnheardRequests DEF openLink, Confirmed
      <3> QED
        BY <1>6, <3>1 DEF openLink, Confirmed
    <2> QED
      BY <1>1, <1>6, <2>1, <2>2, SameLog, OpenPage DEF HistInv
  <1>7. ASSUME NEW i \in Instances, browse(i)
        PROVE  HistInv'
    <2>1. UNCHANGED engine /\ goTo(i, None)
      BY <1>7 DEF browse, User
    <2>2. Confirmed'
      BY <1>1, <1>7 DEF browse, Confirmed
    <2> QED
      BY <1>1, <2>1, <2>2, SameLog, AwayPage DEF HistInv
  <1> QED
    BY <1>2, <1>3, <1>4, <1>5, <1>6, <1>7 DEF Act, Header, EventRow, ConfirmRemoveDialog, Browser

\* What the engine writes reaches the page with the next answer.
LEMMA EngineHist ==
    ASSUME HistInv, Logged', Engine
    PROVE  HistInv'
  <1>1. mounted' \in BOOLEAN /\ UNCHANGED <<inst, hash, data, view, rowsel, clip>> /\ UNCHANGED <<removal, inst>>
    BY DEF HistInv, Page, Held, Engine, address
  <1> QED
    BY <1>1, SamePage, SameConfirmed DEF HistInv

\* Every step keeps the invariant.
LEMMA NextHist ==
    ASSUME HistInv, [Next]_vars
    PROVE  HistInv'
  <1>1. Logged /\ Page /\ Held /\ Confirmed /\ mounted \in BOOLEAN
    BY DEF HistInv, Page, Held
  <1>2. CASE Act
    BY <1>2, ActHist
  <1>3. CASE Poll
    <2>1. UNCHANGED engine /\ UNCHANGED <<removal, inst>>
      BY <1>3 DEF Poll, address
    <2> QED
      BY <1>1, <1>3, <2>1, SameLog, SameConfirmed, FetchPage, FailPage DEF HistInv
  <1>4. ASSUME NEW n \in DOMAIN post, Succeed(n)
        PROVE  HistInv'
    <2>1. post[n].inst \in Instances
      <3>1. post[n] \in Requests
        BY <1>1 DEF Confirmed
      <3> QED
        BY <3>1 DEF Requests
    <2>2. Logged'
      <3>1. log' \in {log, [log EXCEPT ![post[n].inst] = <<>>]} /\ UNCHANGED <<now, serial>>
        BY <1>4 DEF Succeed
      <3> QED
        BY <1>1, <2>1, <3>1, RemovalKeeps
    <2>3. mounted' \in BOOLEAN /\ UNCHANGED <<inst, hash, data, view, rowsel, clip>>
      BY <1>1, <1>4 DEF Succeed
    <2> QED
      BY <1>1, <1>4, <2>2, <2>3, SamePage, AnswerConfirms DEF HistInv
  <1>5. ASSUME NEW n \in DOMAIN post, Refuse(n)
        PROVE  HistInv'
    <2>1. UNCHANGED engine /\ mounted' = mounted /\ UNCHANGED <<inst, hash, data, view, rowsel, clip>>
      BY <1>5 DEF Refuse, address
    <2> QED
      BY <1>1, <1>5, <2>1, SameLog, SamePage, AnswerConfirms DEF HistInv
  <1>6. ASSUME NEW type \in START_TYPES, NEW id \in Ids, Schedule(type, id)
        PROVE  HistInv'
    <2>1. Engine
      BY <1>6 DEF Schedule, Write
    <2> QED
      BY <1>1, <1>6, <2>1, ScheduleKeeps, EngineHist
  <1>7. ASSUME NEW n \in 1..MaxEvents, NEW ts \in 0..MaxTime, CompleteTask(n, ts)
        PROVE  HistInv'
    <2>1. Engine
      BY <1>7 DEF CompleteTask, Write
    <2> QED
      BY <1>1, <1>7, <2>1, CompleteKeeps, EngineHist
  <1>8. CASE Finish \/ ContinueAsNew \/ Tick
    <2>1. Engine
      BY <1>8 DEF Finish, Write, ContinueAsNew, Tick
    <2> QED
      BY <1>1, <1>8, <2>1, FinishKeeps, AnewKeeps, TickKeeps, EngineHist
  <1>9. CASE UNCHANGED vars
    <2>1. UNCHANGED engine /\ Engine
      BY <1>9 DEF vars, Engine
    <2> QED
      BY <1>1, <2>1, SameLog, EngineHist
  <1> QED
    BY <1>2, <1>3, <1>4, <1>5, <1>6, <1>7, <1>8, <1>9 DEF Next

\* The histories are as the engine writes them, in the log, in the page and behind a copied
\* link; the selection, the link and the address point at rows of them.
THEOREM HistoryInvariant == Spec => []HistInv
  <1> QED
    BY InitHist, NextHist, PTL DEF Spec

\* The page's state has the types of the code's, and an event its time.
THEOREM HistoryTypes == Spec => []TypeOK
  <1>1. HistInv => TypeOK
    <2>1. SUFFICES ASSUME HistInv PROVE TypeOK
      OBVIOUS
    <2>2. Held
      BY <2>1 DEF HistInv, Page
    <2>3. ASSUME NEW i \in Instances, NEW n \in DOMAIN exec[i]
          PROVE  exec[i][n].ts \in 0..MaxTime
      <3>1. exec[i][n] \in Events /\ exec[i][n].ts <= MaxTime
        BY <2>2 DEF Held, Fetched, Written
      <3>2. exec[i][n].ts \in Nat
        BY <3>1 DEF Events
      <3> QED
        BY <3>1, <3>2, HistoryAssumption
    <2> QED
      BY <2>2, <2>3 DEF Held, TypeOK
  <1> QED
    BY <1>1, HistoryInvariant, PTL

\* The rows a pair chip joins are the start and the completion of one task, in every history
\* the engine can write, with ids reused and completions sorted to the time they happened at.
THEOREM PairsJoinTasks == Spec => []PairsAreReal
  <1>1. HistInv => PairsAreReal
    <2>1. SUFFICES ASSUME HistInv, Shown, NEW n \in DOMAIN canon, isEnd(canon[n])
                   PROVE  LET start == pairs[n].partner
                          IN  /\ start \in DOMAIN canon
                              /\ isStart(canon[start]) /\ canon[start].task = canon[n].task
                              /\ pairs[start].partner = n
      BY DEF PairsAreReal
    <2>2. PairsRight(canon) /\ pairs = buildPairIndex(canon)
      BY <2>1, ShownFacts, FetchedRows DEF HistInv, Page
    <2> HIDE DEF canon, pairs
    <2>3. n \in DOMAIN pairs
      BY <2>1, <2>2 DEF PairsRight, inPair
    <2> QED
      BY <2>1, <2>2, <2>3 DEF PairsRight
  <1> QED
    BY <1>1, HistoryInvariant, PTL

\* While the history grows in time order, the selected row is the event that was clicked or
\* that the followed link was copied from.
THEOREM SelectionMeansItsEvent == Spec => []SelectionStays
  <1>1. HistInv => SelectionStays
    <2>1. SUFFICES ASSUME HistInv, Shown, selection # NoSelection, ~shifted
                   PROVE  /\ selection.index \in DOMAIN canon
                          /\ canon[selection.index].serial = chosen
                          /\ pairs[selection.index].pairId = selection.pairId
      BY DEF SelectionStays
    <2>2. /\ Fetched(exec[inst]) /\ canon = sortHistoryForDisplay(exec[inst])
          /\ pairs = buildPairIndex(sortHistoryForDisplay(exec[inst]))
      BY <2>1, ShownFacts DEF HistInv, Page
    <2>3. PairsRight(canon) /\ DOMAIN canon = DOMAIN exec[inst]
      BY <2>2, FetchedRows
    <2>4. Points(exec[inst], selection, chosen)
      BY <2>1 DEF HistInv, Page, Selected
    <2>5. /\ selection.index \in DOMAIN canon /\ canon[selection.index].serial = chosen
          /\ inPair(canon[selection.index]) /\ canon[selection.index].id = selection.pairId
      BY <2>2, <2>3, <2>4 DEF Points
    <2> HIDE DEF canon, pairs
    <2>6. selection.index \in DOMAIN pairs
      BY <2>2, <2>3, <2>5 DEF PairsRight
    <2> QED
      BY <2>2, <2>3, <2>5, <2>6 DEF PairsRight
  <1> QED
    BY <1>1, HistoryInvariant, PTL

\* A removal in flight is that of the instance its dialog was opened for, or the reader
\* browsed to another one under the open dialog.
THEOREM RemovalsMeant == Spec => []RemovesOpened
  <1>1. HistInv => RemovesOpened
    BY RequestsReal DEF HistInv
  <1> QED
    BY <1>1, HistoryInvariant, PTL

\* What the page scrolled to is the address it remembers.
Followed == followed \in BOOLEAN /\ (followed => hash # None /\ lastHash = hash)

\* Following an address records it.
LEMMA FollowFacts ==
    ASSUME Followed, jumpToHash, Follow
    PROVE  Followed'
  <1> DEFINE rows == IF isError' THEN <<>> ELSE exec'[inst']
  <1>1. lastHash' = IF hash' = None THEN None ELSE IF jumps(rows) THEN hash' ELSE lastHash
    BY DEF jumpToHash
  <1>2. followed' = ((followed /\ hash' = hash) \/ jumps(rows))
    BY DEF Follow, Rows
  <1>3. followed' \in BOOLEAN
    BY <1>2
  <1> HIDE DEF rows
  <1>4. CASE jumps(rows)
    BY <1>1, <1>3, <1>4 DEF Followed, jumps
  <1>5. CASE ~jumps(rows)
    BY <1>1, <1>2, <1>3, <1>5 DEF Followed
  <1> QED
    BY <1>4, <1>5

\* Every step keeps what is remembered to what was scrolled to.
LEMMA NextFollowed ==
    ASSUME Followed, [Next]_vars
    PROVE  Followed'
  <1>1. ASSUME UNCHANGED hash, UNCHANGED rowsel
        PROVE  Followed'
    BY <1>1 DEF rowsel, Followed
  <1>2. CASE Act
    <2>1. CASE Header \/ ConfirmRemoveDialog
      BY <1>1, <2>1 DEF Header, ConfirmRemoveDialog, toggleOrder, openPurge, openForceDelete, toggleForce,
                        onCancel, onConfirmRemove, Dialog, address
    <2>2. ASSUME NEW i \in Instances, goTo(i, None)
          PROVE  Followed'
      BY <2>2, FollowFacts DEF goTo
    <2>3. CASE followChild
      <3>1. goTo(Child, None) /\ Child \in Instances
        BY <2>3 DEF followChild, Instances
      <3> QED
        BY <2>2, <3>1
    <2>4. ASSUME NEW n \in 1..MaxEvents, togglePairSelection(n)
          PROVE  Followed'
      <3>1. UNCHANGED <<hash, lastHash, followed>>
        BY <2>4 DEF togglePairSelection, address
      <3> QED
        BY <3>1 DEF Followed
    <2>5. ASSUME NEW n \in 1..MaxEvents, followAnchor(n)
          PROVE  Followed'
      BY <2>5, FollowFacts DEF followAnchor
    <2>6. ASSUME NEW n \in 1..MaxEvents, copyAnchorLink(n)
          PROVE  Followed'
      BY <1>1, <2>6 DEF copyAnchorLink, address
    <2>7. CASE openLink
      BY <2>7 DEF openLink, Followed
    <2>8. ASSUME NEW i \in Instances, browse(i)
          PROVE  Followed'
      BY <2>2, <2>8 DEF browse
    <2> QED
      BY <1>2, <2>1, <2>3, <2>4, <2>5, <2>6, <2>7, <2>8 DEF Act, EventRow, Browser
  <1>3. CASE Poll
    BY <1>3, FollowFacts DEF Poll
  <1>4. ASSUME NEW n \in DOMAIN post, Succeed(n) \/ Refuse(n)
        PROVE  Followed'
    BY <1>1, <1>4 DEF Succeed, Refuse, address
  <1>5. CASE Engine
    BY <1>1, <1>5 DEF Engine, address
  <1>6. ASSUME NEW type \in START_TYPES, NEW id \in Ids, Schedule(type, id)
        PROVE  Engine
    BY <1>6 DEF Schedule, Write
  <1>7. ASSUME NEW n \in 1..MaxEvents, NEW ts \in 0..MaxTime, CompleteTask(n, ts)
        PROVE  Engine
    BY <1>7 DEF CompleteTask, Write
  <1>8. ASSUME Finish \/ ContinueAsNew \/ Tick
        PROVE  Engine
    BY <1>8 DEF Finish, Write, ContinueAsNew, Tick
  <1>9. ASSUME UNCHANGED vars
        PROVE  Engine
    BY <1>9 DEF vars, Engine
  <1> QED
    BY <1>2, <1>3, <1>4, <1>5, <1>6, <1>7, <1>8, <1>9 DEF Next

\* A refresh scrolls, or moves the selection, only to follow an address the page has not
\* followed since it came to it.
THEOREM RefreshFollowsOnce == Spec => NoYank
  <1>1. Init => Followed
    BY DEF Init, Followed
  <1>2. Spec => []Followed
    BY <1>1, NextFollowed, PTL DEF Spec
  <1>3. ASSUME Followed, Poll, jumps(Rows(inst)') \/ selection' # selection
        PROVE  hash # None /\ ~followed
    <2> DEFINE rows == IF isError' THEN <<>> ELSE exec'[inst']
    <2>1. hash' = hash
      BY <1>3 DEF Poll, address
    <2>2. Rows(inst)' = rows
      BY DEF Rows
    <2>3. selection' # selection => jumps(rows)
      BY <1>3 DEF Poll, jumpToHash
    <2>4. hash # None /\ hash # lastHash
      BY <1>3, <2>1, <2>2, <2>3 DEF jumps
    <2> QED
      BY <1>3, <2>4 DEF Followed
  <1>4. Followed /\ [Next]_vars =>
          [Poll /\ (jumps(Rows(inst)') \/ selection' # selection) => hash # None /\ ~followed]_vars
    BY <1>3
  <1> QED
    BY <1>2, <1>4, PTL DEF Spec, NoYank

=============================================================================

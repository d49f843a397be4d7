--------------------------- MODULE StateRecordsProofs ---------------------------
(***************************************************************************)
(* The State page, for any keys, stores, filters, page sizes and requests: *)
(* the pager's numbers, what a delete names and what a write replaces.     *)
(***************************************************************************)
EXTENDS StateRecords, FiniteSetTheorems, WellFoundedInduction, TLAPS

Places == Keys \cup {FirstPage}
Picked == Stores \cup {NoStore}
Lists == StoreLists \cup {InitList}
Records == Values \cup {Absent, NoValue}

Queries ==
    [filter : [app : Apps \cup {NoApp}, search : DOMAIN Hits, internal : BOOLEAN, store : Picked],
     page : Places]

Subjects == {<<>>} \cup (Picked \X (Keys \cup {NoKey}))
Forms ==
    [key : Keys \cup {NoKey}, value : Values \cup {NoValue}, turns : Nat, about : Subjects,
     result : {"idle", "pending", "success", "error", "conflict"}, strayed : BOOLEAN]
Writes ==
    [store : Picked, key : Keys \cup {NoKey}, value : Values \cup {NoValue}, overwrite : BOOLEAN,
     live : BOOLEAN, status : {"sent", "checked", "success", "error", "conflict"},
     about : Subjects, strayed : BOOLEAN]
Deletes ==
    [store : Picked, keys : SUBSET Keys, left : SUBSET Keys, known : BOOLEAN, live : BOOLEAN,
     ticked : SUBSET (Queries \X Keys), mixed : BOOLEAN]

Entries == [items : SUBSET Keys, next : Places, error : BOOLEAN]
Turns == [token : Places, offset : Nat]
UiFields ==
    {"store", "app", "input", "search", "internal", "page", "began", "history", "offset", "expanded",
     "selected", "confirm", "create"}

IsUi(u) ==
    /\ DOMAIN u = UiFields
    /\ u.store \in Picked /\ u.app \in Apps \cup {NoApp}
    /\ u.input \in DOMAIN Hits /\ u.search \in DOMAIN Hits /\ u.internal \in BOOLEAN
    /\ u.page \in Places /\ u.began \in Places /\ u.history \in Seq(Turns) /\ u.offset \in Nat
    /\ u.expanded \in Keys \cup {NoKey} /\ u.selected \subseteq Keys
    /\ u.confirm \in BOOLEAN /\ u.create \in BOOLEAN /\ ~(u.confirm /\ u.create)

Known(k) == k = <<>> \/ \E l \in Lists : k = <<l>>

\* What every variable holds.
Types ==
    /\ db \in [Stores -> [Keys -> Records]] /\ list \in Lists /\ Known(known) /\ saved \in Picked
    /\ IsUi(ui)
    /\ \A q \in DOMAIN cache : q \in Queries /\ q.filter.store # NoStore /\ cache[q] \in Entries
    /\ form \in Forms /\ writes \in Seq(Writes) /\ deletes \in Seq(Deletes)
    /\ drifted \in BOOLEAN /\ mixed \in BOOLEAN /\ ticked \subseteq Queries \X Keys

\* The store on the page is the one the list the client has resolves to, so that only a
\* new list or the selector moves it.
Settled == ui.store = resolveStore(ui.store, known)

\* The keys of some ticks.
KeysOf(T) == {t[2] : t \in T}

\* What is selected was ticked; if nothing moved under it, on the page that is shown.
Selection ==
    /\ ui.selected = KeysOf(ticked)
    /\ ~mixed => \A t \in ticked : t[1] = queryKey(ui)
    /\ ui.confirm => ui.selected # {}

\* How many of the records a filter lists are at or before a place, and before this walk.
Count(D, f, p) == Cardinality({k \in listPattern(D, f) \cap visible(f) : k <= p})
Skipped == Count(InitDb[ui.store], Filter(ui), ui.began)

\* While nothing has been written, a page the client holds has as many rows as lie between
\* its token and its next, and each page turned had its offset right, counted from where the
\* walk began.
Offsets ==
    /\ ~drifted =>
         /\ db = InitDb
         /\ \A q \in DOMAIN cache :
               cache[q].next # FirstPage =>
                   Count(InitDb[q.filter.store], q.filter, cache[q].next)
                     = Count(InitDb[q.filter.store], q.filter, q.page) + Cardinality(cache[q].items)
    /\ IF ui.history = <<>> THEN ui.offset = 0 /\ ui.page = ui.began
       ELSE ui.history[1].offset = 0 /\ ui.history[1].token = ui.began
    /\ ~drifted /\ ~mixed /\ ui.store # NoStore =>
         /\ ui.offset + Skipped = Count(InitDb[ui.store], Filter(ui), ui.page)
         /\ \A i \in 1..Len(ui.history) :
               ui.history[i].offset + Skipped = Count(InitDb[ui.store], Filter(ui), ui.history[i].token)

\* The dialog waits for one request, about what the fields hold unless they have changed
\* since; a closed dialog waits for none.
Awaited ==
    /\ \A n \in DOMAIN writes :
          /\ writes[n].live =>
               /\ form.result = "pending"
               /\ form.strayed \/ (writes[n].store = ui.store /\ writes[n].key = form.key)
          /\ \A m \in DOMAIN writes : writes[m].live /\ writes[n].live => m = n
    /\ form.result = "pending" => \E n \in DOMAIN writes : writes[n].live
    /\ ~ui.create => form = EmptyForm /\ \A n \in DOMAIN writes : ~writes[n].live

\* A conflict, and the write that overrides it, is about the key and the store on the page,
\* unless one of them has changed.
Conflicts ==
    /\ form.result = "conflict" => form.about = <<ui.store, form.key>> \/ form.strayed
    /\ \A n \in DOMAIN writes :
          writes[n].overwrite => writes[n].about = <<writes[n].store, writes[n].key>> \/ writes[n].strayed

Inv == Types /\ Settled /\ Selection /\ DeletesTicked /\ Offsets /\ Awaited /\ Conflicts

-----------------------------------------------------------------------------
(* Keys                                                                    *)

\* Keys are numbers; a set of them is finite and its size a number.
LEMMA KeyFacts ==
    /\ Keys \subseteq Nat \ {0} /\ IsFiniteSet(Keys) /\ Cardinality(Keys) \in Nat
    /\ \A S \in SUBSET Keys :
          IsFiniteSet(S) /\ Cardinality(S) \in Nat /\ Cardinality(S) <= Cardinality(Keys)
  <1>1. Cardinality(Keys) \in Nat /\ IsFiniteSet(Keys)
    BY KeysAssumption, FS_CardinalityType
  <1>2. Keys = 1..Cardinality(Keys)
    BY KeysAssumption
  <1>3. Keys \subseteq Nat \ {0}
    BY <1>1, <1>2
  <1> QED
    BY <1>1, <1>3, FS_Subset, FS_CardinalityType

\* A set of naturals has a smallest one.
LEMMA SmallestOfNat ==
    ASSUME NEW T \in SUBSET Nat, T # {}
    PROVE  \E m \in T : \A n \in T : m <= n
  <1>1. PICK m \in T : \A n \in T : <<n, m>> \notin OpToRel(<, Nat)
    BY NatLessThanWellFounded, WFMin
  <1>2. ASSUME NEW n \in T
        PROVE  m <= n
    <2>1. m \in Nat /\ n \in Nat
      OBVIOUS
    <2>2. ~(n < m)
      BY <1>1, <2>1 DEF OpToRel
    <2> QED
      BY <2>1, <2>2
  <1> QED
    BY <1>2

\* The maximum of some keys is the last of them.
LEMMA MaxOfKeys ==
    ASSUME NEW S \in SUBSET Keys, S # {}
    PROVE  Max(S) \in S /\ \A k \in S : k <= Max(S)
  <1> DEFINE T == {n \in Nat : \A k \in S : k <= n}
  <1>1. S \subseteq Nat \ {0} /\ Cardinality(Keys) \in Nat /\ S \subseteq 1..Cardinality(Keys)
    BY KeyFacts, KeysAssumption
  <1>2. Cardinality(Keys) \in T
    BY <1>1
  <1>3. PICK m \in T : \A n \in T : m <= n
    BY <1>2, SmallestOfNat
  <1>4. m \in S
    <2>1. SUFFICES ASSUME m \notin S PROVE FALSE
      OBVIOUS
    <2>2. \A k \in S : k <= m - 1
      BY <1>1, <2>1
    <2>3. PICK k \in S : k \in Nat \ {0} /\ k <= m
      BY <1>1, <1>3
    <2>4. m - 1 \in T
      BY <2>2, <2>3
    <2> QED
      BY <1>3, <2>4
  <1>5. \E x \in S : \A y \in S : x >= y
    BY <1>1, <1>4
  <1> HIDE DEF T
  <1>6. Max(S) \in S /\ \A y \in S : Max(S) >= y
    BY <1>5 DEF Max
  <1> QED
    BY <1>1, <1>6

-----------------------------------------------------------------------------
(* Sequences                                                               *)

\* Removing an entry leaves the others, in their order.
LEMMA RemoveAtFacts ==
    ASSUME NEW S, NEW s \in Seq(S), NEW i \in DOMAIN s
    PROVE  /\ RemoveAt(s, i) \in Seq(S)
           /\ DOMAIN RemoveAt(s, i) = 1..(Len(s) - 1)
           /\ \A j \in DOMAIN RemoveAt(s, i) :
                 RemoveAt(s, i)[j] = IF j < i THEN s[j] ELSE s[j + 1]
  <1>1. i \in 1..Len(s) /\ Len(s) \in Nat
    OBVIOUS
  <1> DEFINE a == SubSeq(s, 1, i - 1)
             b == SubSeq(s, i + 1, Len(s))
  <1>2. a \in Seq(S) /\ Len(a) = i - 1 /\ \A j \in 1..Len(a) : a[j] = s[j]
    BY <1>1
  <1>3. b \in Seq(S) /\ Len(b) = Len(s) - i /\ \A j \in 1..Len(b) : b[j] = s[i + j]
    BY <1>1
  <1>4. RemoveAt(s, i) = a \o b
    BY DEF RemoveAt
  <1> HIDE DEF a, b
  <1>5. a \o b \in Seq(S) /\ Len(a \o b) = Len(s) - 1
    BY <1>1, <1>2, <1>3
  <1>6. ASSUME NEW j \in 1..(Len(s) - 1)
        PROVE  (a \o b)[j] = IF j < i THEN s[j] ELSE s[j + 1]
    <2>1. CASE j < i
      BY <1>1, <1>2, <1>3, <2>1
    <2>2. CASE ~(j < i)
      <3>1. Len(a) \in Nat /\ Len(b) \in Nat /\ j \in 1..(Len(a) + Len(b)) /\ ~(j <= Len(a))
        BY <1>1, <1>2, <1>3, <2>2
      <3>2. (a \o b)[j] = b[j - Len(a)]
        BY <1>2, <1>3, <3>1
      <3>3. j - Len(a) \in 1..Len(b) /\ i + (j - Len(a)) = j + 1
        BY <1>1, <1>2, <1>3, <2>2
      <3> QED
        BY <1>3, <2>2, <3>2, <3>3
    <2> QED
      BY <2>1, <2>2
  <1>7. DOMAIN (a \o b) = 1..(Len(s) - 1)
    BY <1>5
  <1> QED
    BY <1>4, <1>5, <1>6, <1>7

\* What is left was there.
LEMMA RemoveAtKeeps ==
    ASSUME NEW S, NEW s \in Seq(S), NEW i \in DOMAIN s
    PROVE  /\ RemoveAt(s, i) \in Seq(S)
           /\ \A j \in DOMAIN RemoveAt(s, i) :
                 \E m \in DOMAIN s \ {i} : RemoveAt(s, i)[j] = s[m]
           /\ \A m \in DOMAIN s \ {i} :
                 \E j \in DOMAIN RemoveAt(s, i) : RemoveAt(s, i)[j] = s[m]
           /\ \A j, k \in DOMAIN RemoveAt(s, i) : j # k =>
                 \E m, n \in DOMAIN s \ {i} :
                    m # n /\ RemoveAt(s, i)[j] = s[m] /\ RemoveAt(s, i)[k] = s[n]
  <1> DEFINE r == RemoveAt(s, i)
             old(j) == IF j < i THEN j ELSE j + 1
  <1>1. Len(s) \in Nat /\ DOMAIN s = 1..Len(s) /\ i \in 1..Len(s)
    OBVIOUS
  <1>2. r \in Seq(S) /\ DOMAIN r = 1..(Len(s) - 1)
        /\ \A j \in DOMAIN r : r[j] = IF j < i THEN s[j] ELSE s[j + 1]
    BY RemoveAtFacts
  <1> HIDE DEF r
  <1>3. \A j \in DOMAIN r : old(j) \in DOMAIN s \ {i} /\ r[j] = s[old(j)]
    BY <1>1, <1>2
  <1>4. \A j, k \in DOMAIN r : j # k => old(j) # old(k)
    BY <1>1, <1>2
  <1>5. ASSUME NEW m \in DOMAIN s \ {i}
        PROVE  \E j \in DOMAIN r : r[j] = s[m]
    <2>1. CASE m < i
      <3>1. m \in DOMAIN r /\ r[m] = s[m]
        BY <1>1, <1>2, <2>1
      <3> QED
        BY <3>1
    <2>2. CASE ~(m < i)
      <3>1. m - 1 \in DOMAIN r /\ r[m - 1] = s[m]
        BY <1>1, <1>2, <2>2
      <3> QED
        BY <3>1
    <2> QED
      BY <2>1, <2>2
  <1> HIDE DEF old
  <1> QED
    BY <1>2, <1>3, <1>4, <1>5 DEF r

-----------------------------------------------------------------------------
(* Pages                                                                   *)

\* Enough key pages hold every key.
LEMMA PagesSuffice ==
    ASSUME NEW c \in Nat, NEW n \in Nat, c <= n
    PROVE  c < (n + 1) * PageSize
  <1>1. PageSize \in Nat /\ PageSize >= 1
    BY KeysAssumption
  <1>2. (n + 1) * PageSize >= n + 1
    BY <1>1, SMTT(30)
  <1> QED
    BY <1>1, <1>2, SMTT(30)

\* A page holds the visible keys between its token and its next.
LEMMA ListFacts ==
    ASSUME NEW D, NEW f, NEW p \in Places
    PROVE  /\ List(D, f, p) \in Entries
           /\ List(D, f, p).next # FirstPage =>
                 Count(D, f, List(D, f, p).next) = Count(D, f, p) + Cardinality(List(D, f, p).items)
  <1> DEFINE keys == {k \in listPattern(D, f) : k > p}
             before(k) == Cardinality({j \in keys : j < k})
             scanned(n) == {k \in keys : Cardinality({j \in keys : j < k}) < n * PageSize}
             matched(n) == scanned(n) \cap visible(f)
             enough(n) == \/ f.internal \/ Cardinality(matched(n)) >= PageSize
                          \/ scanned(n) = keys \/ Cardinality(scanned(n)) >= MaxScan
             L == 1..Cardinality(Keys) + 1
             last == CHOOSE n \in L : enough(n) /\ \A m \in 1..(n - 1) : ~enough(m)
             S == scanned(last)
             next == IF S = keys THEN FirstPage ELSE Max(S)
  <1>1. List(D, f, p) = [items |-> matched(last), error |-> FALSE, next |-> next]
    BY DEF List
  <1>2. keys \subseteq Keys /\ p \in Nat
    BY KeyFacts DEF listPattern, Places, FirstPage
  <1>3. Keys \subseteq Nat \ {0} /\ Cardinality(Keys) \in Nat /\ PageSize \in Nat \ {0}
    BY KeyFacts, KeysAssumption
  <1>0. ASSUME NEW k \in keys
        PROVE  k \in Nat \ {0} /\ p < k /\ ~(k <= p)
    <2>1. k \in Nat \ {0} /\ k > p
      BY <1>2, <1>3
    <2> HIDE DEF keys
    <2> QED
      BY <1>2, <2>1
  <1>4. \A k : before(k) \in Nat /\ before(k) <= Cardinality(Keys)
    BY <1>2, KeyFacts
  <1>5. scanned(Cardinality(Keys) + 1) = keys
    BY <1>3, <1>4, PagesSuffice
  <1>6. \E n \in L : enough(n) /\ \A m \in 1..(n - 1) : ~enough(m)
    <2>1. Cardinality(Keys) + 1 \in L /\ enough(Cardinality(Keys) + 1) /\ L \subseteq Nat
      BY <1>3, <1>5
    <2> HIDE DEF enough, L
    <2> DEFINE E == {n \in L : enough(n)}
    <2>2. PICK n \in E : \A m \in E : n <= m
      BY <2>1, SmallestOfNat
    <2>3. ASSUME NEW m \in 1..(n - 1)
          PROVE  m \notin E
      BY <2>1, <2>2, <2>3
    <2>4. ASSUME NEW m \in 1..(n - 1)
          PROVE  m \in L
      BY <1>3, <2>1, <2>2 DEF L
    <2> QED
      BY <2>2, <2>3, <2>4
  <1> HIDE DEF enough
  <1>7. last \in L
    BY <1>6
  <1> HIDE DEF last
  <1>8. last \in Nat /\ last >= 1 /\ last * PageSize \in Nat /\ last * PageSize >= 1
    <2>1. last \in Nat /\ last >= 1
      BY <1>3, <1>7
    <2> HIDE DEF L
    <2> QED
      BY <1>3, <2>1, SMTT(30)
  <1>9. \A k \in keys : k \in S <=> before(k) < last * PageSize
    OBVIOUS
  <1>10. S \subseteq keys
    OBVIOUS
  <1>11. ASSUME NEW k \in S, NEW j \in keys, j < k
         PROVE  j \in S
    <2>1. {i \in keys : i < j} \subseteq {i \in keys : i < k}
      <3>1. k \in keys /\ k \in Nat /\ j \in Nat /\ \A i \in keys : i \in Nat
        BY <1>2, <1>3, <1>10
      <3>2. \A i \in keys : i < j => i < k
        BY <1>11, <3>1
      <3> HIDE DEF keys
      <3> QED
        BY <3>2
    <2>2. {i \in keys : i < k} \subseteq Keys
      BY <1>2
    <2>3. before(j) <= before(k)
      BY <2>1, <2>2, KeyFacts, FS_Subset
    <2>4. before(k) < last * PageSize
      BY <1>10
    <2> HIDE DEF before, S, keys
    <2> QED
      BY <1>4, <1>8, <1>9, <1>10, <2>3, <2>4
  <1>12. keys # {} => S # {}
    <2> SUFFICES ASSUME keys # {} PROVE S # {}
      OBVIOUS
    <2>1. PICK k \in keys : \A j \in keys : k <= j
      BY <1>2, <1>3, SmallestOfNat
    <2> HIDE DEF keys
    <2>2. \A j \in keys : j \in Nat /\ ~(j < k)
      BY <1>0, <2>1
    <2>3. {j \in keys : j < k} = {}
      BY <2>2
    <2>4. before(k) = 0
      BY <2>3, FS_EmptySet
    <2> HIDE DEF before, S, keys
    <2> QED
      BY <1>8, <1>9, <2>1, <2>4
  <1> HIDE DEF scanned, S
  <1>13. S # keys => next \in S /\ \A k \in S : k <= next
    BY <1>2, <1>10, <1>12, MaxOfKeys
  <1>14. matched(last) = S \cap visible(f)
    BY DEF S
  <1>15. List(D, f, p) \in Entries
    <2>1. next \in Places
      BY <1>2, <1>10, <1>13 DEF Places
    <2>2. matched(last) \in SUBSET Keys
      BY <1>2, <1>10, <1>14
    <2> QED
      BY <1>1, <2>1, <2>2 DEF Entries
  <1>16. ASSUME next # FirstPage
         PROVE  Count(D, f, next) = Count(D, f, p) + Cardinality(S \cap visible(f))
    <2> DEFINE V == listPattern(D, f) \cap visible(f)
               upto(q) == {k \in V : k <= q}
    <2>1. S # keys
      BY <1>16
    <2>2. next \in S /\ \A k \in S : k <= next
      BY <1>13, <2>1
    <2>3. V \subseteq Keys /\ next \in keys
      BY <1>10, <2>2 DEF listPattern
    <2> DEFINE z == next
    <2>4. z \in S /\ (\A k \in S : k <= z) /\ z \in Nat /\ z > p
      BY <1>2, <1>3, <2>2, <2>3
    <2> HIDE DEF z
    <2>5. upto(z) = upto(p) \cup (S \cap visible(f))
      <3>1. ASSUME NEW k \in upto(z)
            PROVE  k \in upto(p) \cup (S \cap visible(f))
        <4>1. k \in V /\ k \in Nat /\ k <= z
          BY <1>3, <2>3
        <4>2. CASE k <= p
          BY <4>1, <4>2
        <4>3. CASE ~(k <= p)
          <5>1. k \in keys
            BY <1>2, <4>1, <4>3
          <5>2. k \in S
            BY <1>11, <2>4, <4>1, <5>1
          <5> QED
            BY <4>1, <5>2
        <4> QED
          BY <4>2, <4>3
      <3>2. ASSUME NEW k \in upto(p)
            PROVE  k \in upto(z)
        <4>1. V \subseteq Nat
          BY <1>3, <2>3
        <4> HIDE DEF V
        <4>2. k \in V /\ k \in Nat /\ k <= p /\ p < z
          BY <1>2, <2>4, <4>1
        <4>3. k <= z
          BY <1>2, <2>4, <4>2
        <4> QED
          BY <4>2, <4>3
      <3>3. ASSUME NEW k \in S \cap visible(f)
            PROVE  k \in upto(z)
        <4>1. k \in keys /\ k <= z
          BY <1>10, <2>4
        <4>2. k \in V
          BY <4>1
        <4> HIDE DEF V
        <4> QED
          BY <4>1, <4>2
      <3> HIDE DEF upto
      <3> QED
        BY <3>1, <3>2, <3>3
    <2>6. upto(p) \cap (S \cap visible(f)) = {}
      <3>1. \A k \in S : k \in Nat /\ ~(k <= p)
        BY <1>0, <1>10
      <3> QED
        BY <3>1
    <2>7. upto(p) \subseteq Keys /\ S \cap visible(f) \subseteq Keys
      BY <1>2, <1>10, <2>3
    <2> HIDE DEF upto
    <2>8. Cardinality(upto(z)) =
            Cardinality(upto(p)) + Cardinality(S \cap visible(f)) - Cardinality({})
      BY <2>5, <2>6, <2>7, KeyFacts, FS_Union
    <2>9. Cardinality(upto(z)) = Cardinality(upto(p)) + Cardinality(S \cap visible(f))
      BY <2>7, <2>8, KeyFacts, FS_EmptySet
    <2> QED
      BY <2>9 DEF Count, z, upto
  <1>17. List(D, f, p).next = next /\ List(D, f, p).items = S \cap visible(f)
    BY <1>1, <1>14
  <1> HIDE DEF next
  <1> QED
    BY <1>15, <1>16, <1>17

\* A count is a number.
LEMMA CountIsNat ==
    \A D, f, p : Count(D, f, p) \in Nat
  <1>1. ASSUME NEW D, NEW f, NEW p
        PROVE  {k \in listPattern(D, f) \cap visible(f) : k <= p} \subseteq Keys
    BY DEF listPattern
  <1> QED
    BY <1>1, KeyFacts, FS_CardinalityType DEF Count

\* The records between two places are those up to the second that are not up to the first.
LEMMA CountBetween ==
    ASSUME NEW D, NEW f, NEW p \in Places, NEW q \in Places, NEW n \in Nat,
           n + Count(D, f, p) = Count(D, f, q)
    PROVE  n = Cardinality({k \in listPattern(D, f) \cap visible(f) : p < k /\ k <= q})
  <1> DEFINE V == listPattern(D, f) \cap visible(f)
             upto(z) == {k \in V : k <= z}
             between == {k \in V : p < k /\ k <= q}
  <1>1. V \subseteq Keys /\ Keys \subseteq Nat /\ IsFiniteSet(Keys) /\ p \in Nat /\ q \in Nat
    BY KeyFacts DEF listPattern, Places, FirstPage
  <1>2. Count(D, f, p) = Cardinality(upto(p)) /\ Count(D, f, q) = Cardinality(upto(q))
    BY DEF Count
  <1>6. V \subseteq Nat
    BY <1>1
  <1> HIDE DEF V
  <1>3. /\ IsFiniteSet(upto(p)) /\ IsFiniteSet(upto(q)) /\ IsFiniteSet(between)
        /\ Cardinality(upto(p)) \in Nat /\ Cardinality(upto(q)) \in Nat /\ Cardinality(between) \in Nat
    <2>1. upto(p) \subseteq Keys /\ upto(q) \subseteq Keys /\ between \subseteq Keys
      BY <1>1
    <2> QED
      BY <1>1, <2>1, FS_Subset, FS_CardinalityType
  <1>4. CASE p <= q
    <2>1. upto(q) = upto(p) \cup between
      <3>1. \A k \in V : k <= q <=> k <= p \/ (p < k /\ k <= q)
        BY <1>1, <1>4, <1>6
      <3> QED
        BY <3>1
    <2>2. upto(p) \cap between = {}
      <3>1. \A k \in V : ~(k <= p /\ p < k)
        BY <1>1, <1>6
      <3> QED
        BY <3>1
    <2> HIDE DEF upto, between
    <2>3. Cardinality(upto(q)) = Cardinality(upto(p)) + Cardinality(between) - Cardinality({})
      BY <1>3, <2>1, <2>2, FS_Union
    <2> QED
      BY <1>2, <1>3, <2>3, FS_EmptySet DEF between, V
  <1>5. CASE ~(p <= q)
    <2>1. upto(q) \subseteq upto(p) /\ between = {}
      <3>1. \A k \in V : (k <= q => k <= p) /\ ~(p < k /\ k <= q)
        BY <1>1, <1>5, <1>6
      <3> QED
        BY <3>1
    <2> HIDE DEF upto, between
    <2>2. Cardinality(upto(q)) <= Cardinality(upto(p)) /\ Cardinality(between) = 0
      BY <1>3, <2>1, FS_Subset, FS_EmptySet
    <2> QED
      BY <1>2, <1>3, <2>2 DEF between, V
  <1> QED
    BY <1>4, <1>5

\* What was skipped, a step later.
LEMMA SkippedNext == Skipped' = Count(InitDb[ui'.store], Filter(ui'), ui'.began)
  BY DEF Skipped, Count, listPattern, visible, Filter

-----------------------------------------------------------------------------
(* What the page is made of                                                *)

\* The store shown comes from the list or stays, and resolving it again keeps it.
LEMMA ResolveFacts ==
    ASSUME NEW s \in Picked, NEW l, Known(l), saved \in Picked
    PROVE  /\ resolveStore(s, l) \in Picked
           /\ resolveStore(resolveStore(s, l), l) = resolveStore(s, l)
           /\ l # <<>> => l[1].shown \subseteq Stores /\ l[1].active \in Picked
  <1>1. l # <<>> => l[1].shown \subseteq Stores /\ l[1].active \in Picked
    BY StoresAssumption DEF Known, Lists, Picked
  <1>2. resolveStore(s, l) \in {s, saved, l[1].active}
    BY DEF resolveStore
  <1>3. resolveStore(s, l) \in Picked
    BY <1>1, <1>2 DEF resolveStore
  <1>4. resolveStore(resolveStore(s, l), l) = resolveStore(s, l)
    BY DEF resolveStore
  <1> QED
    BY <1>1, <1>3, <1>4

\* The query on the page, and what the client holds for it.
LEMMA EntryFacts ==
    ASSUME Types
    PROVE  /\ queryKey(ui) \in Queries /\ Entry \in Entries /\ items \subseteq Keys
           /\ Entry.error \in BOOLEAN /\ Entry.next \in Places /\ Entry.items \subseteq Keys
           /\ \A k \in items : Tick({k}) \subseteq Queries \X Keys
           /\ Tick(items) \subseteq Queries \X Keys
  <1>1. queryKey(ui) \in Queries
    BY DEF Types, IsUi, queryKey, Filter, Queries
  <1>2. Loading \in Entries
    BY DEF Loading, Entries, Places
  <1>3. Entry \in Entries
    BY <1>2 DEF Entry, Types
  <1>4. Entry.error \in BOOLEAN /\ Entry.next \in Places /\ Entry.items \subseteq Keys
    BY <1>3 DEF Entries
  <1>5. items \subseteq Keys
    BY <1>4 DEF items
  <1>6. \A S \in SUBSET Keys : Tick(S) \subseteq Queries \X Keys
    BY <1>1 DEF Tick
  <1> QED
    BY <1>1, <1>3, <1>4, <1>5, <1>6

\* Rendering settles the store and keeps the rest.
LEMMA RenderFacts ==
    ASSUME NEW u, IsUi(u), NEW b \in BOOLEAN, Render(u, b), Known(known'), saved \in Picked
    PROVE  /\ IsUi(ui') /\ mixed' \in BOOLEAN
           /\ ui'.store = resolveStore(u.store, known')
           /\ \A x \in UiFields \ {"store"} : ui'[x] = u[x]
           /\ ~mixed' => Clean(ui') \/ (~mixed /\ ~b /\ Filter(ui') = Filter(u))
  <1>1. u.store \in Picked /\ resolveStore(u.store, known') \in Picked
    BY ResolveFacts DEF IsUi
  <1>2. ui' = [u EXCEPT !.store = resolveStore(u.store, known')] /\ mixed' \in BOOLEAN
    BY DEF Render
  <1>3. DOMAIN u = UiFields
    BY DEF IsUi
  <1>4. /\ DOMAIN ui' = UiFields /\ ui'.store = resolveStore(u.store, known')
        /\ \A x \in UiFields \ {"store"} : ui'[x] = u[x]
    BY <1>2, <1>3 DEF UiFields
  <1>5. IsUi(ui')
    BY <1>1, <1>4 DEF IsUi, UiFields
  <1>6. ~mixed' => Clean(ui') \/ (~mixed /\ ~b /\ Filter(ui') = Filter(u))
    BY DEF Render
  <1> QED
    BY <1>2, <1>4, <1>5, <1>6

\* Paging starts over.
LEMMA ResetFacts ==
    ASSUME NEW u, IsUi(u)
    PROVE  /\ IsUi(resetPaging(u)) /\ Clean(resetPaging(u)) /\ resetPaging(u).offset = 0
           /\ resetPaging(u).page = resetPaging(u).began
           /\ \A x \in {"store", "app", "input", "search", "internal", "confirm", "create"} :
                 resetPaging(u)[x] = u[x]
  <1> DEFINE v == resetPaging(u)
  <1>1. DOMAIN v = UiFields
    BY DEF resetPaging, IsUi
  <1>2. v.page = FirstPage /\ v.began = FirstPage /\ v.history = <<>> /\ v.offset = 0 /\ v.expanded = NoKey /\ v.selected = {}
    BY DEF resetPaging, IsUi, UiFields
  <1>3. \A x \in {"store", "app", "input", "search", "internal", "confirm", "create"} : v[x] = u[x]
    BY DEF resetPaging, IsUi, UiFields
  <1> HIDE DEF v
  <1>4. FirstPage \in Places /\ <<>> \in Seq(Turns) /\ 0 \in Nat
    BY DEF Places
  <1>5. IsUi(v)
    BY <1>1, <1>2, <1>3, <1>4 DEF IsUi
  <1> QED
    BY <1>2, <1>3, <1>5 DEF v, Clean

\* A request that nobody waits for any more is otherwise the same.
LEMMA ResetWrites ==
    ASSUME NEW w \in Seq(Writes)
    PROVE  /\ reset(w) \in Seq(Writes) /\ DOMAIN reset(w) = DOMAIN w /\ Len(reset(w)) = Len(w)
           /\ \A n \in DOMAIN w :
                 /\ ~reset(w)[n].live
                 /\ \A x \in {"store", "key", "value", "overwrite", "status", "about", "strayed"} :
                       reset(w)[n][x] = w[n][x]
  <1>1. \A n \in DOMAIN w : w[n] \in Writes
    OBVIOUS
  <1>2. reset(w) = [n \in DOMAIN w |-> [w[n] EXCEPT !.live = FALSE]]
    BY DEF reset
  <1>3. \A r \in Writes : /\ [r EXCEPT !.live = FALSE] \in Writes
                          /\ ~[r EXCEPT !.live = FALSE].live
    BY DEF Writes
  <1>4. \A r \in Writes :
           \A x \in {"store", "key", "value", "overwrite", "status", "about", "strayed"} :
              [r EXCEPT !.live = FALSE][x] = r[x]
    BY DEF Writes
  <1>5. DOMAIN w = 1..Len(w) /\ Len(w) \in Nat
    OBVIOUS
  <1>6. reset(w) \in Seq(Writes) /\ Len(reset(w)) = Len(w)
    BY <1>1, <1>2, <1>3, <1>5
  <1>7. \A n \in DOMAIN w : reset(w)[n] = [w[n] EXCEPT !.live = FALSE]
    BY <1>2
  <1>8. DOMAIN reset(w) = DOMAIN w
    BY <1>2
  <1>9. \A n \in DOMAIN w : ~reset(w)[n].live
    BY <1>1, <1>3, <1>7
  <1>10. \A n \in DOMAIN w :
            \A x \in {"store", "key", "value", "overwrite", "status", "about", "strayed"} :
               reset(w)[n][x] = w[n][x]
    BY <1>1, <1>4, <1>7
  <1> QED
    BY <1>6, <1>8, <1>9, <1>10

LEMMA ResetDeletes ==
    ASSUME NEW d \in Seq(Deletes)
    PROVE  /\ reset(d) \in Seq(Deletes) /\ DOMAIN reset(d) = DOMAIN d /\ Len(reset(d)) = Len(d)
           /\ \A n \in DOMAIN d :
                 \A x \in {"store", "keys", "ticked", "mixed"} : reset(d)[n][x] = d[n][x]
  <1>1. \A n \in DOMAIN d : d[n] \in Deletes
    OBVIOUS
  <1>2. reset(d) = [n \in DOMAIN d |-> [d[n] EXCEPT !.live = FALSE]]
    BY DEF reset
  <1>3. \A r \in Deletes : [r EXCEPT !.live = FALSE] \in Deletes
    BY DEF Deletes
  <1>4. \A r \in Deletes : \A x \in {"store", "keys", "ticked", "mixed"} :
           [r EXCEPT !.live = FALSE][x] = r[x]
    BY DEF Deletes
  <1>5. DOMAIN d = 1..Len(d) /\ Len(d) \in Nat
    OBVIOUS
  <1>6. reset(d) \in Seq(Deletes) /\ Len(reset(d)) = Len(d)
    BY <1>1, <1>2, <1>3, <1>5
  <1> QED
    BY <1>1, <1>2, <1>4, <1>6

\* The form an open dialog starts with.
LEMMA EmptyFormType ==
    /\ EmptyForm \in Forms /\ EmptyForm.result = "idle"
    /\ \A f \in Forms : f.result # "idle" => f # EmptyForm
  BY DEF EmptyForm, Forms, Subjects

-----------------------------------------------------------------------------
(* Types                                                                   *)

LEMMA InitTypes ==
    Init => Types
  <1> SUFFICES ASSUME Init PROVE Types
    OBVIOUS
  <1>1. InitDb \in [Stores -> [Keys -> Records]]
    BY StoresAssumption DEF Records
  <1>2. IsUi(ui)
    BY StoresAssumption DEF Init, Mount, Blank, IsUi, UiFields, Picked, Places
  <1>3. DOMAIN cache = {} /\ writes \in Seq(Writes) /\ deletes \in Seq(Deletes)
    BY DEF Init
  <1> QED
    BY <1>1, <1>2, <1>3, EmptyFormType DEF Init, Types, Known, Lists, Picked

\* A control of the page changes the page, its ticks and the store it keeps.
LEMMA HandleFacts ==
    ASSUME Types, NEW u, Handle(u), IsUi(u)
    PROVE  /\ IsUi(ui') /\ mixed' \in BOOLEAN /\ ui'.store = resolveStore(u.store, known)
           /\ \A x \in UiFields \ {"store"} : ui'[x] = u[x]
           /\ ~mixed' => Clean(ui') \/ (~mixed /\ Filter(ui') = Filter(u))
           /\ UNCHANGED <<db, list, known, cache, form, writes, deletes, drifted>>
           /\ ~ui.confirm /\ ~ui.create
  <1>1. UNCHANGED <<db, list, known, cache, form, writes, deletes, drifted>> /\ Render(u, FALSE)
        /\ ~ui.confirm /\ ~ui.create
    BY DEF Handle, server, learnt, requests
  <1>2. Known(known') /\ saved \in Picked /\ known' = known
    BY <1>1 DEF Types
  <1> QED
    BY <1>1, <1>2, RenderFacts

LEMMA HandleTypes ==
    ASSUME Types, NEW u, Handle(u), IsUi(u), ticked' \subseteq Queries \X Keys, saved' \in Picked
    PROVE  Types'
  BY HandleFacts DEF Types

\* A filter starts the paging over, in the store shown or in the one selected.
LEMMA FiltersFacts ==
    ASSUME Types, Filters \/ (\E s \in Stores : onStoreChange(s))
    PROVE  \E u :
              /\ IsUi(u) /\ Handle(u) /\ Clean(u) /\ u.offset = 0 /\ u.page = u.began /\ ticked' = {} /\ saved' \in Picked
              /\ u.create = ui.create /\ u.confirm = ui.confirm
              /\ \/ u.store = ui.store /\ saved' = saved
                 \/ known # <<>> /\ u.store \in known[1].shown /\ saved' = u.store
  <1> DEFINE Goal == \E u :
              /\ IsUi(u) /\ Handle(u) /\ Clean(u) /\ u.offset = 0 /\ u.page = u.began /\ ticked' = {} /\ saved' \in Picked
              /\ u.create = ui.create /\ u.confirm = ui.confirm
              /\ \/ u.store = ui.store /\ saved' = saved
                 \/ known # <<>> /\ u.store \in known[1].shown /\ saved' = u.store
  <1>0. IsUi(ui) /\ DOMAIN ui = UiFields /\ saved \in Picked
    BY DEF Types, IsUi
  <1>1. ASSUME NEW u, IsUi(u), Refilter(u), u.store = ui.store, u.create = ui.create,
               u.confirm = ui.confirm
        PROVE  Goal
    <2> DEFINE r == resetPaging(u)
    <2>1. Handle(r) /\ ticked' = {} /\ saved' = saved
      BY <1>1 DEF Refilter
    <2>2. /\ IsUi(r) /\ Clean(r) /\ r.offset = 0 /\ r.page = r.began /\ r.store = u.store
          /\ r.create = u.create /\ r.confirm = u.confirm
      BY <1>1, ResetFacts
    <2> HIDE DEF r
    <2> QED
      BY <1>0, <1>1, <2>1, <2>2
  <1>2. ASSUME NEW a \in Apps \cup {NoApp}, selectApp(a)
        PROVE  Goal
    <2> DEFINE u == [ui EXCEPT !.app = a]
    <2>1. IsUi(u) /\ u.store = ui.store /\ u.create = ui.create /\ u.confirm = ui.confirm
      BY <1>0 DEF IsUi, UiFields
    <2>2. Refilter(u)
      BY <1>2 DEF selectApp
    <2> HIDE DEF Goal, u
    <2> QED
      BY <1>1, <2>1, <2>2
  <1>3. ASSUME NEW s \in DOMAIN Hits, typeSearch(s)
        PROVE  Goal
    <2> DEFINE u == [ui EXCEPT !.input = s]
    <2>1. IsUi(u) /\ u.store = ui.store /\ u.create = ui.create /\ u.confirm = ui.confirm
      BY <1>0 DEF IsUi, UiFields
    <2>2. Refilter(u)
      BY <1>3 DEF typeSearch
    <2> HIDE DEF Goal, u
    <2> QED
      BY <1>1, <2>1, <2>2
  <1>4. ASSUME toggleInternal
        PROVE  Goal
    <2> DEFINE u == [ui EXCEPT !.internal = ~@]
    <2>1. IsUi(u) /\ u.store = ui.store /\ u.create = ui.create /\ u.confirm = ui.confirm
      BY <1>0 DEF IsUi, UiFields
    <2>2. Refilter(u)
      BY <1>4 DEF toggleInternal
    <2> HIDE DEF Goal, u
    <2> QED
      BY <1>1, <2>1, <2>2
  <1>5. ASSUME NEW s \in Stores, onStoreChange(s)
        PROVE  Goal
    <2> DEFINE u == [ui EXCEPT !.store = s, !.app = NoApp]
               r == resetPaging(u)
    <2>1. IsUi(u) /\ u.store = s /\ u.create = ui.create /\ u.confirm = ui.confirm
      BY <1>0 DEF IsUi, UiFields, Picked
    <2>2. /\ Handle(r) /\ ticked' = {} /\ saved' = s /\ known # <<>> /\ s \in known[1].shown
      BY <1>5 DEF onStoreChange
    <2> HIDE DEF u
    <2>3. /\ IsUi(r) /\ Clean(r) /\ r.offset = 0 /\ r.page = r.began /\ r.store = u.store
          /\ r.create = u.create /\ r.confirm = u.confirm
      BY <2>1, ResetFacts
    <2> HIDE DEF r
    <2>4. s \in Picked
      BY DEF Picked
    <2> QED
      BY <2>1, <2>2, <2>3, <2>4
  <1> QED
    BY <1>2, <1>3, <1>4, <1>5 DEF Filters

\* The keys of some ticks, with one more row, without one, and of some rows.
LEMMA TickedOne ==
    ASSUME NEW p, NEW T
    PROVE  KeysOf(T \cup {p}) = KeysOf(T) \cup {p[2]}
  BY DEF KeysOf

LEMMA TickedNone ==
    KeysOf({}) = {} /\ \A T : KeysOf(T) = {} => T = {}
  <1>1. ASSUME NEW T, KeysOf(T) = {}, NEW t \in T
        PROVE  FALSE
    BY <1>1 DEF KeysOf
  <1> QED
    BY <1>1 DEF KeysOf

LEMMA UntickedOne ==
    ASSUME NEW T, NEW k
    PROVE  KeysOf({t \in T : t[2] # k}) = KeysOf(T) \ {k}
  BY DEF KeysOf

LEMMA TickedRows ==
    ASSUME NEW q, NEW K
    PROVE  /\ KeysOf({<<q, j>> : j \in K}) = K
           /\ \A t \in {<<q, j>> : j \in K} : t[1] = q
  <1>1. \A j \in K : <<q, j>>[2] = j /\ <<q, j>>[1] = q
    OBVIOUS
  <1>2. {t[2] : t \in {<<q, j>> : j \in K}} = {<<q, j>>[2] : j \in K}
    OBVIOUS
  <1>3. {<<q, j>>[2] : j \in K} = K
    BY <1>1
  <1> QED
    BY <1>1, <1>2, <1>3 DEF KeysOf

\* A row changes what is selected and expanded; what it selects it ticks on the page shown.
LEMMA TableFacts ==
    ASSUME Types, Table
    PROVE  \E u :
              /\ IsUi(u) /\ Handle(u) /\ saved' = saved /\ ticked' \subseteq Queries \X Keys
              /\ \A x \in UiFields \ {"selected", "expanded"} : u[x] = ui[x]
              /\ ui.selected = KeysOf(ticked) => u.selected = KeysOf(ticked')
              /\ \A t \in ticked' : t \in ticked \/ t[1] = queryKey(ui)
  <1> DEFINE Goal == \E u :
              /\ IsUi(u) /\ Handle(u) /\ saved' = saved /\ ticked' \subseteq Queries \X Keys
              /\ \A x \in UiFields \ {"selected", "expanded"} : u[x] = ui[x]
              /\ ui.selected = KeysOf(ticked) => u.selected = KeysOf(ticked')
              /\ \A t \in ticked' : t \in ticked \/ t[1] = queryKey(ui)
  <1>0. IsUi(ui) /\ DOMAIN ui = UiFields /\ ticked \subseteq Queries \X Keys
    BY DEF Types, IsUi
  <1>1. ASSUME NEW k \in Keys, toggleRow(k)
        PROVE  Goal
    <2> DEFINE s == IF k \notin ui.selected THEN ui.selected \cup {k} ELSE ui.selected \ {k}
               u == [ui EXCEPT !.selected = s]
    <2>1. s \subseteq Keys
      BY <1>0 DEF IsUi
    <2>2. IsUi(u) /\ u.selected = s /\ \A x \in UiFields \ {"selected"} : u[x] = ui[x]
      <3> HIDE DEF s
      <3> QED
        BY <1>0, <2>1 DEF IsUi, UiFields
    <2>3. /\ Handle(u) /\ saved' = saved /\ k \in items
          /\ ticked' = IF k \notin ui.selected THEN ticked \cup Tick({k}) ELSE {t \in ticked : t[2] # k}
      BY <1>1 DEF toggleRow
    <2>4. Tick({k}) = {<<queryKey(ui), k>>} /\ Tick({k}) \subseteq Queries \X Keys
      BY <2>3, EntryFacts DEF Tick
    <2>5. ticked' \subseteq Queries \X Keys /\ \A t \in ticked' : t \in ticked \/ t[1] = queryKey(ui)
      <3>1. ticked' \subseteq ticked \cup {<<queryKey(ui), k>>}
        BY <2>3, <2>4
      <3>2. <<queryKey(ui), k>>[1] = queryKey(ui)
        OBVIOUS
      <3> QED
        BY <1>0, <2>4, <3>1, <3>2
    <2>6. ui.selected = KeysOf(ticked) => s = KeysOf(ticked')
      <3>1. CASE k \notin ui.selected
        <4>1. ticked' = ticked \cup {<<queryKey(ui), k>>} /\ s = ui.selected \cup {k}
          BY <2>3, <2>4, <3>1
        <4> DEFINE p == <<queryKey(ui), k>>
        <4>2. p[2] = k
          OBVIOUS
        <4> HIDE DEF p
        <4>3. KeysOf(ticked') = KeysOf(ticked) \cup {k}
          BY <4>1, <4>2, TickedOne DEF p
        <4> HIDE DEF s
        <4> QED
          BY <4>1, <4>3
      <3>2. CASE k \in ui.selected
        <4>1. ticked' = {t \in ticked : t[2] # k} /\ s = ui.selected \ {k}
          BY <2>3, <3>2
        <4>2. KeysOf({t \in ticked : t[2] # k}) = KeysOf(ticked) \ {k}
          BY UntickedOne
        <4>3. KeysOf(ticked') = KeysOf(ticked) \ {k}
          BY <4>1, <4>2, Zenon
        <4> HIDE DEF s
        <4> QED
          BY <4>1, <4>3
      <3> QED
        BY <3>1, <3>2
    <2> HIDE DEF u, s
    <2> QED
      BY <2>2, <2>3, <2>5, <2>6
  <1>2. ASSUME toggleAll
        PROVE  Goal
    <2> DEFINE on == Cardinality(ui.selected) # Cardinality(items)
               s == IF on THEN items ELSE {}
               u == [ui EXCEPT !.selected = s]
    <2>1. s \subseteq Keys
      BY EntryFacts
    <2>2. Handle(u) /\ saved' = saved /\ ticked' = IF on THEN Tick(items) ELSE {}
      BY <1>2 DEF toggleAll
    <2> HIDE DEF on
    <2>3. IsUi(u) /\ u.selected = s /\ \A x \in UiFields \ {"selected"} : u[x] = ui[x]
      <3> HIDE DEF s
      <3> QED
        BY <1>0, <2>1 DEF IsUi, UiFields
    <2>4. ticked' \subseteq Queries \X Keys /\ s = KeysOf(ticked')
          /\ \A t \in ticked' : t[1] = queryKey(ui)
      <3>1. CASE on
        <4>1. ticked' = Tick(items) /\ s = items
          BY <2>2, <3>1
        <4>2. KeysOf(Tick(items)) = items /\ \A t \in Tick(items) : t[1] = queryKey(ui)
          BY TickedRows DEF Tick
        <4> HIDE DEF s
        <4> QED
          BY <4>1, <4>2, EntryFacts
      <3>2. CASE ~on
        BY <2>2, <3>2 DEF KeysOf
      <3> QED
        BY <3>1, <3>2
    <2> HIDE DEF u, s
    <2> QED
      BY <2>2, <2>3, <2>4
  <1>3. ASSUME NEW k \in Keys, expandRow(k)
        PROVE  Goal
    <2> DEFINE u == [ui EXCEPT !.expanded = IF @ = k THEN NoKey ELSE k]
    <2>1. IsUi(u) /\ u.selected = ui.selected /\ \A x \in UiFields \ {"expanded"} : u[x] = ui[x]
      BY <1>0 DEF IsUi, UiFields
    <2>2. Handle(u) /\ saved' = saved /\ ticked' = ticked
      BY <1>3 DEF expandRow
    <2> HIDE DEF u
    <2> QED
      BY <1>0, <2>1, <2>2
  <1> QED
    BY <1>1, <1>2, <1>3 DEF Table

\* A page is turned: on past the rows shown, or back to where it was turned.
LEMMA PagerFacts ==
    ASSUME Types, Pager
    PROVE  \E u :
              /\ IsUi(u) /\ Handle(u) /\ saved' = saved /\ ticked' = {} /\ u.selected = {}
              /\ \A x \in {"store", "app", "input", "search", "internal", "began", "confirm", "create"} :
                    u[x] = ui[x]
              /\ \/ /\ ~isError /\ Entry.next # FirstPage /\ u.page = Entry.next
                    /\ u.offset = ui.offset + Cardinality(items)
                    /\ u.history = Append(ui.history, [token |-> ui.page, offset |-> ui.offset])
                 \/ /\ ui.history # <<>> /\ u.page = Last(ui.history).token
                    /\ u.offset = Last(ui.history).offset /\ u.history = Front(ui.history)
  <1>0. IsUi(ui) /\ DOMAIN ui = UiFields
    BY DEF Types, IsUi
  <1>1. CASE goNext
    <2> DEFINE h == Append(ui.history, [token |-> ui.page, offset |-> ui.offset])
               o == ui.offset + Cardinality(items)
               u == [ui EXCEPT !.history = h, !.offset = o,
                               !.page = Entry.next, !.expanded = NoKey, !.selected = {}]
    <2>1. h \in Seq(Turns) /\ o \in Nat /\ Entry.next \in Places
      BY <1>0, EntryFacts, KeyFacts DEF IsUi, Turns
    <2>2. Handle(u) /\ ticked' = {} /\ saved' = saved /\ ~isError /\ Entry.next # FirstPage
      BY <1>1 DEF goNext
    <2>3. IsUi(u) /\ u.selected = {} /\ u.page = Entry.next /\ u.offset = o /\ u.history = h
          /\ \A x \in {"store", "app", "input", "search", "internal", "began", "confirm", "create"} :
                u[x] = ui[x]
      <3> HIDE DEF h, o
      <3> QED
        BY <1>0, <2>1 DEF IsUi, UiFields
    <2> HIDE DEF u
    <2> QED
      BY <2>2, <2>3
  <1>2. CASE goPrev
    <2> DEFINE t == Last(ui.history)
               h == Front(ui.history)
               u == [ui EXCEPT !.page = t.token, !.offset = t.offset,
                               !.history = h, !.expanded = NoKey, !.selected = {}]
    <2>1. t \in Turns /\ h \in Seq(Turns) /\ ui.history # <<>>
      BY <1>0, <1>2 DEF goPrev, IsUi, Last, Front
    <2>2. Handle(u) /\ ticked' = {} /\ saved' = saved
      BY <1>2 DEF goPrev
    <2>3. t.token \in Places /\ t.offset \in Nat
      BY <2>1 DEF Turns
    <2>4. IsUi(u) /\ u.selected = {} /\ u.page = t.token /\ u.offset = t.offset /\ u.history = h
          /\ \A x \in {"store", "app", "input", "search", "internal", "began", "confirm", "create"} :
                u[x] = ui[x]
      <3> HIDE DEF h, t
      <3> QED
        BY <1>0, <2>1, <2>3 DEF IsUi, UiFields
    <2> HIDE DEF u
    <2> QED
      BY <2>1, <2>2, <2>4
  <1> QED
    BY <1>1, <1>2 DEF Pager

LEMMA ControlsTypes ==
    ASSUME Types, Filters \/ (\E s \in Stores : onStoreChange(s)) \/ Table \/ Pager
    PROVE  Types'
  <1>1. CASE Filters \/ \E s \in Stores : onStoreChange(s)
    BY <1>1, FiltersFacts, HandleTypes
  <1>2. CASE Table
    BY <1>2, TableFacts, HandleTypes DEF Types
  <1>3. CASE Pager
    BY <1>3, PagerFacts, HandleTypes DEF Types
  <1> QED
    BY <1>1, <1>2, <1>3

\* A dialog changes itself and the requests under way.
LEMMA DialogTypes ==
    ASSUME Types, NEW u, Dialog(u), IsUi(u), form' \in Forms, writes' \in Seq(Writes),
           deletes' \in Seq(Deletes)
    PROVE  Types'
  BY DEF Types, Dialog, server, learnt, ghosts

LEMMA RequestTypes ==
    ASSUME Types, SelectionBar \/ ConfirmDelete \/ openCreate \/ NewStateRecordDialog
    PROVE  Types'
  <1>0. /\ IsUi(ui) /\ DOMAIN ui = UiFields /\ form \in Forms /\ writes \in Seq(Writes)
        /\ deletes \in Seq(Deletes) /\ reset(writes) \in Seq(Writes) /\ reset(deletes) \in Seq(Deletes)
    BY ResetWrites, ResetDeletes DEF Types, IsUi
  <1>1. ASSUME openConfirm
        PROVE  Types'
    <2>1. IsUi([ui EXCEPT !.confirm = TRUE])
      BY <1>0, <1>1 DEF IsUi, UiFields, openConfirm
    <2> QED
      BY <1>0, <1>1, <2>1, DialogTypes DEF openConfirm, requests
  <1>2. ASSUME cancelConfirm
        PROVE  Types'
    <2>1. IsUi([ui EXCEPT !.confirm = FALSE])
      BY <1>0 DEF IsUi, UiFields
    <2> QED
      BY <1>0, <1>2, <2>1, DialogTypes DEF cancelConfirm, requests
  <1>3. ASSUME onConfirmDelete
        PROVE  Types'
    <2> DEFINE d == [store |-> ui.store, keys |-> ui.selected, left |-> ui.selected,
                     known |-> FALSE, live |-> TRUE, ticked |-> ticked, mixed |-> mixed]
    <2>1. d \in Deletes
      BY <1>0 DEF Types, IsUi, Deletes
    <2>2. Dialog(ui) /\ deletes' = Append(reset(deletes), d) /\ UNCHANGED <<form, writes>>
      BY <1>3 DEF onConfirmDelete
    <2> HIDE DEF d
    <2>3. deletes' \in Seq(Deletes)
      BY <1>0, <2>1, <2>2
    <2> QED
      BY <1>0, <2>2, <2>3, DialogTypes
  <1>4. ASSUME openCreate
        PROVE  Types'
    <2>1. IsUi([ui EXCEPT !.create = TRUE])
      BY <1>0, <1>4 DEF IsUi, UiFields, openCreate
    <2> QED
      BY <1>0, <1>4, <2>1, DialogTypes DEF openCreate, requests
  <1>5. ASSUME closeCreate
        PROVE  Types'
    <2>1. IsUi([ui EXCEPT !.create = FALSE])
      BY <1>0 DEF IsUi, UiFields
    <2> QED
      BY <1>0, <1>5, <2>1, EmptyFormType, DialogTypes DEF closeCreate
  <1>6. ASSUME NEW f \in Forms, Edit(f), writes' \in Seq(Writes)
        PROVE  Types'
    <2>1. form.turns + 1 \in Nat
      BY <1>0 DEF Forms
    <2>2. form' \in Forms
      BY <1>6, <2>1 DEF Edit, Forms
    <2> QED
      BY <1>0, <1>6, <2>2, DialogTypes DEF Edit
  <1>7. ASSUME NEW k \in Typed, editKeyPart(k)
        PROVE  Types'
    <2>1. k \in Keys \cup {NoKey} /\ form.value \in Values \cup {NoValue}
      BY <1>0, KeysAssumption DEF Forms
    <2>2. [EmptyForm EXCEPT !.key = k, !.value = form.value] \in Forms
      BY <2>1, EmptyFormType DEF Forms
    <2>3. [form EXCEPT !.key = k, !.strayed = @ \/ form.result = "pending"] \in Forms
      BY <1>0, <2>1 DEF Forms
    <2> QED
      BY <1>0, <1>6, <1>7, <2>2, <2>3 DEF editKeyPart
  <1>8. ASSUME NEW v \in Values \cup {NoValue}, editValue(v)
        PROVE  Types'
    <2>1. [form EXCEPT !.value = v] \in Forms
      BY <1>0 DEF Forms
    <2> QED
      BY <1>0, <1>6, <1>8, <2>1 DEF editValue
  <1>9. ASSUME NEW o \in BOOLEAN, submit(o)
        PROVE  Types'
    <2> DEFINE w == [store |-> ui.store, key |-> form.key, value |-> form.value,
                     overwrite |-> o, live |-> TRUE, status |-> "sent",
                     about |-> form.about, strayed |-> form.strayed]
    <2>1. w \in Writes
      BY <1>0 DEF IsUi, Forms, Writes
    <2>2. [form EXCEPT !.result = "pending", !.about = <<>>, !.strayed = FALSE] \in Forms
      BY <1>0 DEF Forms, Subjects
    <2>3. writes' = Append(reset(writes), w)
      BY <1>9 DEF submit
    <2> HIDE DEF w
    <2>4. writes' \in Seq(Writes)
      BY <1>0, <2>1, <2>3
    <2> QED
      BY <1>6, <1>9, <2>2, <2>4 DEF submit
  <1> QED
    BY <1>1, <1>2, <1>3, <1>4, <1>5, <1>7, <1>8, <1>9
       DEF SelectionBar, ConfirmDelete, NewStateRecordDialog, Save, Overwrite

\* The page is mounted anew.
LEMMA ReopenFacts ==
    ASSUME Types, Reopen
    PROVE  /\ IsUi(ui') /\ mixed' \in BOOLEAN /\ ui'.store = resolveStore(NoStore, known)
           /\ ui'.history = <<>> /\ ui'.offset = 0 /\ ui'.selected = {}
           /\ ~ui'.confirm /\ ~ui'.create /\ ~mixed' /\ ui'.page = ui'.began
           /\ form' = EmptyForm /\ writes' = reset(writes) /\ deletes' = reset(deletes) /\ ticked' = {}
           /\ UNCHANGED <<db, list, known, saved, cache, drifted>>
  <1>1. PICK link \in {Blank, [app |-> ui.app, search |-> ui.search, page |-> ui.page]} :
           ui' = [Mount(link) EXCEPT !.store = resolveStore(NoStore, known)]
    BY DEF Reopen
  <1>2. link.app \in Apps \cup {NoApp} /\ link.search \in DOMAIN Hits /\ link.page \in Places
    BY StoresAssumption DEF Types, IsUi, Blank, Places
  <1>3. resolveStore(NoStore, known) \in Picked
    BY ResolveFacts DEF Types, Picked
  <1>4. IsUi(ui')
    BY <1>1, <1>2, <1>3 DEF IsUi, UiFields, Mount
  <1> QED
    BY <1>1, <1>4 DEF Mount, Reopen, server, learnt

LEMMA ReadTypes ==
    ASSUME Types, Reopen \/ Debounce \/ learnStores \/ readList
    PROVE  Types'
  <1>0. IsUi(ui) /\ DOMAIN ui = UiFields /\ reset(writes) \in Seq(Writes) /\ reset(deletes) \in Seq(Deletes)
    BY ResetWrites, ResetDeletes DEF Types, IsUi
  <1>1. ASSUME Reopen
        PROVE  Types'
    BY <1>0, <1>1, ReopenFacts, EmptyFormType DEF Types
  <1>2. ASSUME Debounce
        PROVE  Types'
    <2>1. IsUi([ui EXCEPT !.search = ui.input])
      BY <1>0 DEF IsUi, UiFields
    <2>2. IsUi(ui') /\ mixed' \in BOOLEAN
      BY <1>2, <2>1, RenderFacts DEF Debounce, Types, learnt
    <2> QED
      BY <1>2, <2>2 DEF Debounce, Types, server, learnt, requests
  <1>3. ASSUME learnStores
        PROVE  Types'
    <2>1. Known(known') /\ saved \in Picked /\ Render(ui, FALSE)
      BY <1>3 DEF learnStores, Types, Known
    <2>2. IsUi(ui') /\ mixed' \in BOOLEAN
      BY <1>0, <2>1, RenderFacts
    <2>3. \A b \in BOOLEAN : [form EXCEPT !.strayed = @ \/ b] \in Forms
      BY DEF Types, Forms
    <2>4. form' \in Forms /\ writes' \in Seq(Writes)
      <3>1. (ui.create /\ ui'.store # ui.store) \in BOOLEAN
        BY <1>0 DEF IsUi
      <3> QED
        BY <1>0, <1>3, <2>3, <3>1, EmptyFormType DEF learnStores, Types
    <2> QED
      BY <1>3, <2>1, <2>2, <2>4 DEF learnStores, Types, server
  <1>4. ASSUME readList
        PROVE  Types'
    <2>1. queryKey(ui) \in Queries /\ queryKey(ui).filter.store # NoStore /\ ui.page \in Places
      BY <1>0, <1>4, EntryFacts DEF readList, queryKey, Filter, IsUi
    <2>2. PICK e \in Entries : cache' = Cached(e)
      <3>1. [Entry EXCEPT !.error = TRUE] \in Entries
        BY EntryFacts DEF Entries
      <3>2. List(db[ui.store], Filter(ui), ui.page) \in Entries
        BY <2>1, ListFacts
      <3> QED
        BY <1>4, <3>1, <3>2 DEF readList
    <2>3. \A q \in DOMAIN cache' : q \in Queries /\ q.filter.store # NoStore /\ cache'[q] \in Entries
      BY <2>1, <2>2 DEF Cached, Types
    <2>4. UNCHANGED <<db, list, ui, saved, known, form, writes, deletes, drifted, mixed, ticked>>
      BY <1>4 DEF readList, server, requests, ghosts
    <2> QED
      BY <2>3, <2>4 DEF Types
  <1> QED
    BY <1>1, <1>2, <1>3, <1>4

\* A record put, or none, is one that a store may hold.
LEMMA PutTypes ==
    ASSUME Types, NEW s, NEW k, NEW v \in Records, Put(s, k, v)
    PROVE  db' \in [Stores -> [Keys -> Records]] /\ drifted' \in BOOLEAN
  <1>1. [db EXCEPT ![s][k] = v] \in [Stores -> [Keys -> Records]]
    BY DEF Types
  <1> QED
    BY <1>1 DEF Put

\* A step of a request changes it alone.
LEMMA ServerTypes ==
    ASSUME Types, NEW n,
           \/ n \in DOMAIN writes /\ (CheckWrite(n) \/ PutWrite(n))
           \/ n \in DOMAIN deletes /\ (StartDelete(n) \/ \E k \in Keys : DeleteOne(n, k))
    PROVE  Types'
  <1> USE DEF Types
  <1>2. ASSUME n \in DOMAIN writes
        PROVE  /\ writes[n] \in Writes /\ writes[n].value \in Records
               /\ \A c \in {"checked", "success", "error", "conflict"} :
                     [writes EXCEPT ![n].status = c] \in Seq(Writes)
    <2>1. writes[n] \in Writes
      BY <1>2
    <2>2. \A c \in {"checked", "success", "error", "conflict"} :
             [writes[n] EXCEPT !.status = c] \in Writes
      BY <2>1 DEF Writes
    <2>3. writes[n].value \in Records
      BY <2>1 DEF Writes, Records
    <2> QED
      BY <1>2, <2>1, <2>2, <2>3
  <1>3. ASSUME n \in DOMAIN writes, CheckWrite(n)
        PROVE  Types'
    <2>1. writes' \in Seq(Writes)
      BY <1>2, <1>3 DEF CheckWrite
    <2> QED
      BY <1>3, <2>1 DEF CheckWrite, Serve, learnt
  <1>4. ASSUME n \in DOMAIN writes, PutWrite(n)
        PROVE  Types'
    <2>1. writes' \in Seq(Writes)
      BY <1>2, <1>4 DEF PutWrite
    <2>2. db' \in [Stores -> [Keys -> Records]] /\ drifted' \in BOOLEAN
      BY <1>2, <1>4, PutTypes DEF PutWrite
    <2> QED
      BY <1>4, <2>1, <2>2 DEF PutWrite, Serve, learnt
  <1>5. ASSUME n \in DOMAIN deletes
        PROVE  /\ deletes[n] \in Deletes
               /\ \A S \in SUBSET Keys : [deletes[n] EXCEPT !.left = S] \in Deletes
               /\ [deletes[n] EXCEPT !.known = TRUE] \in Deletes
               /\ \A d \in Deletes : [deletes EXCEPT ![n] = d] \in Seq(Deletes)
    <2>1. deletes[n] \in Deletes
      BY <1>5
    <2>2. \A d \in Deletes : [deletes EXCEPT ![n] = d] \in Seq(Deletes)
      BY <1>5
    <2>3. /\ \A S \in SUBSET Keys : [deletes[n] EXCEPT !.left = S] \in Deletes
          /\ [deletes[n] EXCEPT !.known = TRUE] \in Deletes
      BY <2>1 DEF Deletes
    <2> QED
      BY <2>1, <2>2, <2>3
  <1>6. ASSUME n \in DOMAIN deletes, NEW k \in Keys, DeleteOne(n, k)
        PROVE  Types'
    <2>1. deletes[n].left \ {k} \in SUBSET Keys
      BY <1>5, <1>6 DEF Deletes
    <2>2. deletes' = [deletes EXCEPT ![n] = [deletes[n] EXCEPT !.left = deletes[n].left \ {k}]]
      BY <1>6 DEF DeleteOne
    <2>3. deletes' \in Seq(Deletes)
      BY <1>5, <1>6, <2>1, <2>2
    <2>4. Absent \in Records
      BY DEF Records
    <2>5. db' \in [Stores -> [Keys -> Records]] /\ drifted' \in BOOLEAN
      BY <1>6, <2>4, PutTypes DEF DeleteOne
    <2> QED
      BY <1>6, <2>3, <2>5 DEF DeleteOne, Serve, learnt
  <1>7. ASSUME n \in DOMAIN deletes, StartDelete(n)
        PROVE  Types'
    <2>1. PICK d \in Deletes : deletes' = [deletes EXCEPT ![n] = d]
      BY <1>5, <1>7 DEF StartDelete
    <2>2. deletes' \in Seq(Deletes)
      BY <1>5, <1>7, <2>1
    <2> QED
      BY <1>7, <2>2 DEF StartDelete, Serve, learnt
  <1> QED
    BY <1>3, <1>4, <1>6, <1>7

LEMMA AnswerTypes ==
    ASSUME Types, NEW n,
           \/ n \in DOMAIN writes /\ (HearWrite(n) \/ LoseWrite(n))
           \/ n \in DOMAIN deletes /\ (HearDelete(n) \/ LoseDelete(n))
    PROVE  Types'
  <1> USE DEF Types
  <1>1. ASSUME n \in DOMAIN writes, HearWrite(n)
        PROVE  Types'
    <2>1. writes[n] \in Writes /\ writes' \in Seq(Writes)
      BY <1>1, RemoveAtFacts DEF HearWrite
    <2>2. writes[n].status \in {"success", "error", "conflict"}
          /\ <<writes[n].store, writes[n].key>> \in Subjects /\ <<>> \in Subjects
      BY <1>1, <2>1 DEF HearWrite, Writes, Subjects
    <2>3. \A r \in {"success", "error", "conflict"}, a \in Subjects :
             [form EXCEPT !.result = r, !.about = a] \in Forms
      BY DEF Forms
    <2>4. form' \in Forms
      BY <1>1, <2>2, <2>3 DEF HearWrite
    <2> QED
      BY <1>1, <2>1, <2>4 DEF HearWrite, Answer, server, learnt
  <1>2. ASSUME n \in DOMAIN writes, LoseWrite(n)
        PROVE  Types'
    <2>1. writes[n] \in Writes
      BY <1>2
    <2>2. [writes[n] EXCEPT !.live = FALSE] \in Writes
      BY <2>1 DEF Writes
    <2>3. writes' \in Seq(Writes)
      BY <1>2, <2>2 DEF LoseWrite
    <2>4. form' \in Forms
      BY <1>2 DEF LoseWrite, Forms
    <2> QED
      BY <1>2, <2>3, <2>4 DEF LoseWrite, Answer, server, learnt
  <1>3. ASSUME n \in DOMAIN deletes, HearDelete(n)
        PROVE  Types'
    <2>1. deletes' \in Seq(Deletes)
      BY <1>3, RemoveAtFacts DEF HearDelete
    <2>2. \A S \in SUBSET Keys : IsUi([ui EXCEPT !.selected = S, !.confirm = FALSE])
      BY DEF IsUi, UiFields
    <2>3. IsUi(ui') /\ mixed' \in BOOLEAN /\ ticked' \subseteq Queries \X Keys
      BY <1>3, <2>2 DEF HearDelete, IsUi
    <2> QED
      BY <1>3, <2>1, <2>3 DEF HearDelete, Answer, server, learnt
  <1>4. ASSUME n \in DOMAIN deletes, LoseDelete(n)
        PROVE  Types'
    <2>1. deletes[n] \in Deletes
      BY <1>4
    <2>2. [deletes[n] EXCEPT !.live = FALSE] \in Deletes
      BY <2>1 DEF Deletes
    <2>3. deletes' \in Seq(Deletes)
      BY <1>4, <2>2 DEF LoseDelete
    <2>4. IsUi(ui')
      BY <1>4 DEF LoseDelete, IsUi, UiFields
    <2> QED
      BY <1>4, <2>3, <2>4 DEF LoseDelete, Answer, server, learnt
  <1> QED
    BY <1>1, <1>2, <1>3, <1>4

LEMMA WorldTypes ==
    ASSUME Types, Relist \/ \E s \in Stores, k \in Movers, v \in Values \cup {Absent} : Program(s, k, v)
    PROVE  Types'
  <1> USE DEF Types
  <1>1. Values \cup {Absent} \subseteq Records
    BY DEF Records
  <1>2. db' \in [Stores -> [Keys -> Records]] /\ drifted' \in BOOLEAN /\ list' \in Lists
    BY <1>1, PutTypes DEF Relist, Program, Lists
  <1>3. UNCHANGED <<ui, saved, known, cache, form, writes, deletes, mixed, ticked>>
    BY DEF Relist, Program, World, learnt, requests
  <1> QED
    BY <1>2, <1>3

LEMMA NextTypes ==
    ASSUME Types, [Next]_vars
    PROVE  Types'
  <1>1. CASE Next
    BY <1>1, ControlsTypes, RequestTypes, ReadTypes, ServerTypes, AnswerTypes, WorldTypes
       DEF Next, Act, Header
  <1>2. CASE UNCHANGED vars
    BY <1>2 DEF vars, server, learnt, requests, ghosts, Types
  <1> QED
    BY <1>1, <1>2

-----------------------------------------------------------------------------
(* The store shown                                                         *)

\* Every step but the selector's, a new list and a new page leaves the store alone.
LEMMA StoreStays ==
    ASSUME Types,
           \/ SelectionBar \/ ConfirmDelete \/ openCreate \/ NewStateRecordDialog \/ readList
           \/ \E n \in DOMAIN writes : CheckWrite(n) \/ PutWrite(n) \/ HearWrite(n) \/ LoseWrite(n)
           \/ \E n \in DOMAIN deletes :
                 StartDelete(n) \/ HearDelete(n) \/ LoseDelete(n) \/ \E k \in Keys : DeleteOne(n, k)
           \/ \E s \in Stores, k \in Movers, v \in Values \cup {Absent} : Program(s, k, v)
           \/ Relist
    PROVE  /\ \A x \in UiFields \ {"selected", "confirm", "create"} : ui'[x] = ui[x]
           /\ UNCHANGED <<known, saved>>
  <1> USE DEF UiFields
  <1>0. DOMAIN ui = UiFields
    BY DEF Types, IsUi
  <1>1. CASE SelectionBar \/ ConfirmDelete \/ openCreate
    BY <1>0, <1>1 DEF SelectionBar, openConfirm, ConfirmDelete, cancelConfirm, onConfirmDelete,
       openCreate, Dialog, learnt
  <1>2. CASE NewStateRecordDialog
    BY <1>0, <1>2 DEF NewStateRecordDialog, closeCreate, Save, Overwrite, submit, editKeyPart,
       editValue, Edit, Dialog, learnt
  <1>3. CASE readList
    BY <1>3 DEF readList
  <1>4. CASE \E n \in DOMAIN writes : CheckWrite(n) \/ PutWrite(n) \/ HearWrite(n) \/ LoseWrite(n)
    BY <1>4 DEF CheckWrite, PutWrite, HearWrite, LoseWrite, Serve, Answer, learnt
  <1>5. CASE \E n \in DOMAIN deletes : StartDelete(n) \/ \E k \in Keys : DeleteOne(n, k)
    BY <1>5 DEF StartDelete, DeleteOne, Serve, learnt
  <1>6. CASE \E n \in DOMAIN deletes : HearDelete(n) \/ LoseDelete(n)
    BY <1>0, <1>6 DEF HearDelete, LoseDelete, Answer, learnt
  <1>7. CASE Relist \/ \E s \in Stores, k \in Movers, v \in Values \cup {Absent} : Program(s, k, v)
    BY <1>7 DEF Relist, Program, World, learnt
  <1> QED
    BY <1>1, <1>2, <1>3, <1>4, <1>5, <1>6, <1>7

LEMMA NextSettled ==
    ASSUME Types, Settled, [Next]_vars
    PROVE  Settled'
  <1> USE DEF Settled
  <1>0. IsUi(ui) /\ ui.store \in Picked /\ Known(known) /\ saved \in Picked /\ Known(known')
        /\ NoStore \in Picked
    BY NextTypes DEF Types, IsUi, Picked
  <1>1. ASSUME ui'.store = ui.store, UNCHANGED <<known, saved>>
        PROVE  Settled'
    BY <1>1 DEF resolveStore
  <1>2. ASSUME NEW s \in Picked, ui'.store = resolveStore(s, known'), saved' = saved
        PROVE  Settled'
    <2>1. resolveStore(ui'.store, known') = ui'.store
      BY <1>0, <1>2, ResolveFacts
    <2> QED
      BY <1>2, <2>1 DEF resolveStore
  <1>3. CASE Filters \/ \E s \in Stores : onStoreChange(s)
    <2>1. PICK u : /\ IsUi(u) /\ Handle(u)
                   /\ \/ u.store = ui.store /\ saved' = saved
                      \/ known # <<>> /\ u.store \in known[1].shown /\ saved' = u.store
      BY <1>3, FiltersFacts
    <2>2. ui'.store = resolveStore(u.store, known) /\ known' = known /\ u.store \in Picked
      BY <2>1, HandleFacts DEF IsUi
    <2>3. CASE u.store = ui.store /\ saved' = saved
      BY <1>2, <2>2, <2>3
    <2>4. CASE known # <<>> /\ u.store \in known[1].shown
      BY <2>2, <2>4 DEF resolveStore
    <2> QED
      BY <2>1, <2>3, <2>4
  <1>4. CASE Table \/ Pager
    <2>1. PICK u : IsUi(u) /\ Handle(u) /\ u.store = ui.store /\ saved' = saved
      BY <1>4, TableFacts, PagerFacts DEF UiFields
    <2> QED
      BY <1>0, <1>2, <2>1, HandleFacts
  <1>5. CASE Reopen
    BY <1>0, <1>2, <1>5, ReopenFacts
  <1>6. CASE Debounce
    <2>1. IsUi([ui EXCEPT !.search = ui.input]) /\ [ui EXCEPT !.search = ui.input].store = ui.store
      BY <1>0 DEF IsUi, UiFields
    <2>2. Render([ui EXCEPT !.search = ui.input], TRUE) /\ UNCHANGED <<known, saved>>
      BY <1>6 DEF Debounce, learnt
    <2> QED
      BY <1>0, <1>2, <2>1, <2>2, RenderFacts
  <1>7. CASE learnStores
    BY <1>0, <1>2, <1>7, RenderFacts DEF learnStores
  <1>8. CASE UNCHANGED vars
    BY <1>1, <1>8 DEF vars, learnt
  <1> QED
    BY <1>1, <1>3, <1>4, <1>5, <1>6, <1>7, <1>8, StoreStays DEF Next, Act, Header, UiFields

-----------------------------------------------------------------------------
(* What a delete names                                                     *)

\* The query on the page is made of five of its parts.
LEMMA QueryStays ==
    ASSUME NEW u, NEW v,
           \A x \in {"store", "app", "search", "internal"} : u[x] = v[x]
    PROVE  Filter(u) = Filter(v) /\ (u.page = v.page => queryKey(u) = queryKey(v))
  BY DEF queryKey, Filter

LEMMA NextSelection ==
    ASSUME Types, Selection, [Next]_vars
    PROVE  Selection'
  <1> USE DEF UiFields
  <1>0. IsUi(ui) /\ DOMAIN ui = UiFields /\ KeysOf({}) = {} /\ \A T : KeysOf(T) = {} => T = {}
    BY TickedNone DEF Types, IsUi
  <1>1. ASSUME ui'.selected = {}, ticked' = {}, ~ui'.confirm
        PROVE  Selection'
    BY <1>0, <1>1 DEF Selection
  <1>2. ASSUME UNCHANGED <<ticked, mixed>>, ui'.selected = ui.selected,
               \A x \in {"store", "app", "search", "internal", "page"} : ui'[x] = ui[x],
               ui'.confirm => ui.selected # {}
        PROVE  Selection'
    BY <1>2, QueryStays DEF Selection
  <1>3. CASE Filters \/ \E s \in Stores : onStoreChange(s)
    <2>1. PICK u : IsUi(u) /\ Handle(u) /\ Clean(u) /\ ticked' = {} /\ u.confirm = ui.confirm
      BY <1>3, FiltersFacts
    <2> QED
      BY <1>1, <2>1, HandleFacts DEF Clean
  <1>4. CASE Table
    <2>1. PICK u : /\ IsUi(u) /\ Handle(u)
                   /\ \A x \in UiFields \ {"selected", "expanded"} : u[x] = ui[x]
                   /\ ui.selected = KeysOf(ticked) => u.selected = KeysOf(ticked')
                   /\ \A t \in ticked' : t \in ticked \/ t[1] = queryKey(ui)
      BY <1>4, TableFacts
    <2>2. /\ \A x \in UiFields \ {"store"} : ui'[x] = u[x]
          /\ ~mixed' => Clean(ui') \/ (~mixed /\ Filter(ui') = Filter(u))
          /\ ~ui.confirm
      BY <2>1, HandleFacts
    <2>3. ui'.selected = KeysOf(ticked') /\ ~ui'.confirm /\ ui'.page = ui.page /\ u.page = ui.page
      BY <2>1, <2>2 DEF Selection
    <2>4. ASSUME ~mixed', NEW t \in ticked'
          PROVE  t[1] = queryKey(ui)'
      <3>1. CASE Clean(ui')
        BY <1>0, <2>3, <2>4, <3>1 DEF Clean
      <3>2. CASE ~mixed /\ Filter(ui') = Filter(u)
        <4>1. Filter(u) = Filter(ui)
          BY <2>1, QueryStays
        <4>2. queryKey(ui)' = queryKey(ui)
          BY <2>3, <3>2, <4>1 DEF queryKey
        <4> QED
          BY <2>1, <2>4, <3>2, <4>2 DEF Selection
      <3> QED
        BY <2>2, <2>4, <3>1, <3>2
    <2> QED
      BY <2>3, <2>4 DEF Selection
  <1>5. CASE Pager
    <2>1. PICK u : IsUi(u) /\ Handle(u) /\ ticked' = {} /\ u.selected = {} /\ u.confirm = ui.confirm
      BY <1>5, PagerFacts
    <2> QED
      BY <1>1, <2>1, HandleFacts
  <1>6. CASE SelectionBar \/ ConfirmDelete \/ openCreate \/ NewStateRecordDialog
    <2>1. UNCHANGED <<ticked, mixed>> /\ ui'.selected = ui.selected
          /\ (ui'.confirm => ui.confirm \/ ui.selected # {})
      BY <1>0, <1>6
         DEF SelectionBar, openConfirm, ConfirmDelete, cancelConfirm, onConfirmDelete,
             openCreate, NewStateRecordDialog, closeCreate, Save, Overwrite, submit, editKeyPart,
             editValue, Edit, Dialog, ghosts
    <2> QED
      BY <1>2, <1>6, <2>1, StoreStays DEF Selection
  <1>7. CASE Reopen
    BY <1>1, <1>7, ReopenFacts
  <1>8. CASE Debounce \/ learnStores
    <2> DEFINE d == [ui EXCEPT !.search = ui.input]
    <2>1. IsUi(d) /\ d.selected = ui.selected /\ d.confirm = ui.confirm
      BY <1>0 DEF IsUi
    <2>2. PICK u, b :
             /\ b \in BOOLEAN /\ Render(u, b) /\ (b \/ u = ui) /\ IsUi(u)
             /\ u.selected = ui.selected /\ u.confirm = ui.confirm
      <3> HIDE DEF d
      <3>1. Debounce => Render(d, TRUE)
        BY DEF Debounce, d
      <3>2. learnStores => Render(ui, FALSE)
        BY DEF learnStores
      <3> QED
        BY <1>0, <1>8, <2>1, <3>1, <3>2
    <2>3. ticked' = ticked /\ Known(known') /\ saved \in Picked
      BY <1>8, NextTypes DEF Debounce, learnStores, Types
    <2>4. /\ \A x \in UiFields \ {"store"} : ui'[x] = u[x]
          /\ ~mixed' => Clean(ui') \/ (~mixed /\ ~b /\ Filter(ui') = Filter(u))
      BY <2>2, <2>3, RenderFacts
    <2>5. ui'.selected = KeysOf(ticked') /\ (ui'.confirm => ui'.selected # {})
      BY <2>2, <2>3, <2>4 DEF Selection
    <2>6. ASSUME ~mixed', NEW t \in ticked'
          PROVE  t[1] = queryKey(ui)'
      <3>1. CASE Clean(ui')
        BY <1>0, <2>5, <2>6, <3>1 DEF Clean
      <3>2. CASE ~mixed /\ ~b /\ Filter(ui') = Filter(u)
        BY <2>2, <2>3, <2>4, <2>6, <3>2 DEF Selection, queryKey
      <3> QED
        BY <2>4, <2>6, <3>1, <3>2
    <2> QED
      BY <2>5, <2>6 DEF Selection
  <1>9. CASE readList \/ Relist
             \/ \E s \in Stores, k \in Movers, v \in Values \cup {Absent} : Program(s, k, v)
    <2>1. UNCHANGED <<ui, ticked, mixed>>
      BY <1>9 DEF readList, ghosts, Relist, Program, World
    <2> QED
      BY <1>2, <2>1 DEF Selection
  <1>10. CASE \/ \E n \in DOMAIN writes : CheckWrite(n) \/ PutWrite(n) \/ HearWrite(n) \/ LoseWrite(n)
              \/ \E n \in DOMAIN deletes : StartDelete(n) \/ \E k \in Keys : DeleteOne(n, k)
    <2>1. UNCHANGED <<ui, ticked, mixed>>
      BY <1>10 DEF CheckWrite, PutWrite, HearWrite, LoseWrite, StartDelete, DeleteOne, Serve
    <2> QED
      BY <1>2, <2>1 DEF Selection
  <1>11. ASSUME NEW n \in DOMAIN deletes, HearDelete(n)
         PROVE  Selection'
    <2>1. \A x \in {"store", "app", "search", "internal", "page"} : ui'[x] = ui[x]
      BY <1>11, StoreStays
    <2>2. CASE deletes[n].live /\ deletes[n].known
      BY <1>0, <1>1, <1>11, <2>2 DEF HearDelete
    <2>3. CASE ~(deletes[n].live /\ deletes[n].known)
      <3>1. ui'.selected = ui.selected /\ ticked' = ticked /\ (ui'.confirm => ui.confirm)
            /\ (~mixed' => ~mixed \/ Clean(ui'))
        BY <1>0, <1>11, <2>3 DEF HearDelete
      <3>2. ASSUME ~mixed', NEW t \in ticked'
            PROVE  t[1] = queryKey(ui)'
        BY <1>0, <2>1, <3>1, <3>2, QueryStays DEF Selection, Clean
      <3> QED
        BY <3>1, <3>2 DEF Selection
    <2> QED
      BY <2>2, <2>3
  <1>12. ASSUME NEW n \in DOMAIN deletes, LoseDelete(n)
         PROVE  Selection'
    <2>1. \A x \in {"store", "app", "search", "internal", "page"} : ui'[x] = ui[x]
      BY <1>12, StoreStays
    <2>2. ui'.selected = ui.selected /\ UNCHANGED <<ticked, mixed>> /\ ~ui'.confirm
      BY <1>0, <1>12 DEF LoseDelete
    <2> QED
      BY <1>2, <2>1, <2>2
  <1>13. CASE UNCHANGED vars
    BY <1>2, <1>13 DEF vars, ghosts, Selection
  <1> QED
    BY <1>3, <1>4, <1>5, <1>6, <1>7, <1>8, <1>9, <1>10, <1>11, <1>12, <1>13 DEF Next, Act, Header

\* A delete request names what was ticked, and in one query of its store or is known to be mixed.
Asked(d) ==
    /\ d.keys = {t[2] : t \in d.ticked}
    /\ d.mixed \/ /\ \A t \in d.ticked : t[1].filter.store = d.store
                  /\ Cardinality({t[1] : t \in d.ticked}) = 1

LEMMA AskedAlike ==
    ASSUME NEW d, NEW e, Asked(d), \A x \in {"store", "keys", "ticked", "mixed"} : e[x] = d[x]
    PROVE  Asked(e)
  BY DEF Asked

LEMMA AskedNow ==
    ASSUME Types, Selection, ui.confirm, NEW d,
           d.store = ui.store, d.keys = ui.selected, d.ticked = ticked, d.mixed = mixed
    PROVE  Asked(d)
  <1>0. d.keys = {t[2] : t \in d.ticked}
    BY DEF Selection, KeysOf
  <1> SUFFICES ASSUME ~mixed PROVE Asked(d)
    BY <1>0 DEF Asked
  <1>1. /\ ui.selected = KeysOf(ticked) /\ ticked # {}
        /\ \A t \in ticked : t[1] = queryKey(ui) /\ t[1].filter.store = ui.store
    BY TickedNone DEF Selection, queryKey, Filter
  <1>2. {t[1] : t \in ticked} = {queryKey(ui)}
    BY <1>1
  <1>3. Cardinality({queryKey(ui)}) = 1
    BY FS_Singleton
  <1>4. Cardinality({t[1] : t \in d.ticked}) = 1
    BY <1>2, <1>3
  <1> QED
    BY <1>1, <1>4 DEF Asked, KeysOf

LEMMA NextDeletes ==
    ASSUME Types, Selection, DeletesTicked, [Next]_vars
    PROVE  DeletesTicked'
  <1>0. /\ \A n \in DOMAIN deletes : Asked(deletes[n])
        /\ deletes \in Seq(Deletes) /\ DOMAIN deletes = 1..Len(deletes) /\ Len(deletes) \in Nat
        /\ \A n \in DOMAIN deletes : deletes[n] \in Deletes
    <2>1. \A n \in DOMAIN deletes : Asked(deletes[n])
      BY DEF DeletesTicked, Asked
    <2>2. deletes \in Seq(Deletes)
      BY DEF Types
    <2> QED
      BY <2>1, <2>2
  <1>1. SUFFICES \A n \in DOMAIN deletes' : Asked(deletes'[n])
    BY DEF DeletesTicked, Asked
  <1>2. CASE deletes' = deletes
    BY <1>0, <1>2
  <1>3. CASE deletes' = reset(deletes)
    <2>1. \A n \in DOMAIN deletes' : n \in DOMAIN deletes
             /\ \A x \in {"store", "keys", "ticked", "mixed"} : deletes'[n][x] = deletes[n][x]
      BY <1>0, <1>3, ResetDeletes
    <2> QED
      BY <1>0, <2>1, AskedAlike
  <1>4. CASE onConfirmDelete
    <2> DEFINE d == [store |-> ui.store, keys |-> ui.selected, left |-> ui.selected,
                     known |-> FALSE, live |-> TRUE, ticked |-> ticked, mixed |-> mixed]
    <2>1. deletes' = Append(reset(deletes), d) /\ ui.confirm
      BY <1>4 DEF onConfirmDelete
    <2>2. d.store = ui.store /\ d.keys = ui.selected /\ d.ticked = ticked /\ d.mixed = mixed
      OBVIOUS
    <2> HIDE DEF d
    <2>3. Asked(d)
      BY <2>1, <2>2, AskedNow
    <2>4. /\ reset(deletes) \in Seq(Deletes) /\ Len(reset(deletes)) = Len(deletes)
          /\ \A n \in DOMAIN deletes : Asked(reset(deletes)[n])
      BY <1>0, ResetDeletes, AskedAlike
    <2>5. ASSUME NEW n \in DOMAIN deletes'
          PROVE  Asked(deletes'[n])
      <3>1. deletes'[n] = d \/ (n \in DOMAIN deletes /\ deletes'[n] = reset(deletes)[n])
        BY <1>0, <2>1, <2>4
      <3> QED
        BY <2>3, <2>4, <3>1
    <2> QED
      BY <2>5
  <1>5. ASSUME NEW n \in DOMAIN deletes, NEW e, deletes' = [deletes EXCEPT ![n] = e],
               \A x \in {"store", "keys", "ticked", "mixed"} : e[x] = deletes[n][x]
        PROVE  \A m \in DOMAIN deletes' : Asked(deletes'[m])
    <2>1. Asked(e)
      BY <1>0, <1>5, AskedAlike
    <2> QED
      BY <1>0, <1>5, <2>1
  <1>6. ASSUME NEW n \in DOMAIN deletes, StartDelete(n) \/ LoseDelete(n) \/ \E k \in Keys : DeleteOne(n, k)
        PROVE  \A m \in DOMAIN deletes' : Asked(deletes'[m])
    <2>1. PICK e : /\ deletes' = [deletes EXCEPT ![n] = e]
                   /\ \A x \in {"store", "keys", "ticked", "mixed"} : e[x] = deletes[n][x]
      <3>0. \A S : \A x \in {"store", "keys", "ticked", "mixed"} :
                /\ [deletes[n] EXCEPT !.left = S][x] = deletes[n][x]
                /\ [deletes[n] EXCEPT !.known = TRUE][x] = deletes[n][x]
                /\ [deletes[n] EXCEPT !.live = FALSE][x] = deletes[n][x]
        BY <1>0 DEF Deletes
      <3>1. CASE \E k \in Keys : DeleteOne(n, k)
        <4>1. PICK k \in Keys : DeleteOne(n, k)
          BY <3>1
        <4> DEFINE e == [deletes[n] EXCEPT !.left = deletes[n].left \ {k}]
        <4>2. deletes' = [deletes EXCEPT ![n] = e]
          BY <4>1 DEF DeleteOne
        <4>3. \A x \in {"store", "keys", "ticked", "mixed"} : e[x] = deletes[n][x]
          BY <3>0
        <4> HIDE DEF e
        <4> QED
          BY <4>2, <4>3
      <3>2. CASE StartDelete(n)
        <4>1. \/ deletes' = [deletes EXCEPT ![n] = [deletes[n] EXCEPT !.left = {}]]
              \/ deletes' = [deletes EXCEPT ![n] = [deletes[n] EXCEPT !.known = TRUE]]
          BY <3>2 DEF StartDelete
        <4> DEFINE e == [deletes[n] EXCEPT !.left = {}]
                   f == [deletes[n] EXCEPT !.known = TRUE]
        <4>2. \A x \in {"store", "keys", "ticked", "mixed"} : e[x] = deletes[n][x] /\ f[x] = deletes[n][x]
          BY <3>0
        <4> HIDE DEF e, f
        <4> QED
          BY <4>1, <4>2 DEF e, f
      <3>3. CASE LoseDelete(n)
        <4>1. deletes' = [deletes EXCEPT ![n] = [deletes[n] EXCEPT !.live = FALSE]]
          BY <3>3 DEF LoseDelete
        <4> QED
          BY <3>0, <4>1
      <3> QED
        BY <1>6, <3>1, <3>2, <3>3
    <2> QED
      BY <1>5, <2>1
  <1>7. ASSUME NEW n \in DOMAIN deletes, HearDelete(n)
        PROVE  \A m \in DOMAIN deletes' : Asked(deletes'[m])
    <2>1. deletes' = RemoveAt(deletes, n)
      BY <1>7 DEF HearDelete
    <2>2. \A m \in DOMAIN RemoveAt(deletes, n) :
             \E j \in DOMAIN deletes \ {n} : RemoveAt(deletes, n)[m] = deletes[j]
      <3>1. deletes \in Seq(Deletes)
        BY <1>0
      <3> QED
        BY <3>1, RemoveAtKeeps
    <2> QED
      BY <1>0, <2>1, <2>2
  <1>8. CASE Filters \/ (\E s \in Stores : onStoreChange(s)) \/ Table \/ Pager
    BY <1>2, <1>8, FiltersFacts, TableFacts, PagerFacts, HandleFacts
  <1>9. CASE SelectionBar \/ openCreate \/ cancelConfirm \/ NewStateRecordDialog
    BY <1>2, <1>9 DEF SelectionBar, openConfirm, cancelConfirm, openCreate, NewStateRecordDialog,
       closeCreate, Save, Overwrite, submit, editKeyPart, editValue, Edit, requests
  <1>10. CASE Reopen
    BY <1>3, <1>10, ReopenFacts
  <1>11. CASE \/ Debounce \/ learnStores \/ readList \/ Relist
              \/ \E s \in Stores, k \in Movers, v \in Values \cup {Absent} : Program(s, k, v)
    BY <1>2, <1>11 DEF Debounce, learnStores, readList, Relist, Program, World, requests
  <1>12. CASE \E n \in DOMAIN writes : CheckWrite(n) \/ PutWrite(n) \/ HearWrite(n) \/ LoseWrite(n)
    BY <1>2, <1>12 DEF CheckWrite, PutWrite, HearWrite, LoseWrite, Serve
  <1>13. CASE UNCHANGED vars
    BY <1>2, <1>13 DEF vars, requests
  <1> QED
    BY <1>4, <1>6, <1>7, <1>8, <1>9, <1>10, <1>11, <1>12, <1>13 DEF Next, Act, Header, ConfirmDelete

-----------------------------------------------------------------------------
(* What a write replaces                                                   *)

\* The dialog and its requests stay, and so does the store under an open dialog.
LEMMA DialogStays ==
    ASSUME Awaited, Conflicts, UNCHANGED <<form, writes>>,
           ui.create => ui'.create /\ ui'.store = ui.store
    PROVE  Awaited' /\ Conflicts'
  <1>1. CASE ui.create
    BY <1>1 DEF Awaited, Conflicts
  <1>2. CASE ~ui.create
    BY <1>2, EmptyFormType DEF Awaited, Conflicts
  <1> QED
    BY <1>1, <1>2

\* A dialog that waits for nothing.
LEMMA DialogIdle ==
    ASSUME Types, Conflicts, writes' = reset(writes), form'.result = "idle",
           ui'.create \/ form' = EmptyForm
    PROVE  Awaited' /\ Conflicts'
  <1>1. /\ DOMAIN writes' = DOMAIN writes
        /\ \A n \in DOMAIN writes :
              /\ ~writes'[n].live
              /\ \A x \in {"store", "key", "overwrite", "about", "strayed"} : writes'[n][x] = writes[n][x]
    BY ResetWrites DEF Types
  <1> QED
    BY <1>1 DEF Awaited, Conflicts

LEMMA EditAwaited ==
    ASSUME Types, Awaited, Conflicts, NewStateRecordDialog
    PROVE  Awaited' /\ Conflicts'
  <1>0. /\ form \in Forms /\ writes \in Seq(Writes) /\ DOMAIN writes = 1..Len(writes)
        /\ Len(writes) \in Nat
    BY DEF Types
  <1>1. CASE closeCreate
    BY <1>1, DialogIdle, EmptyFormType DEF closeCreate
  <1>2. ASSUME NEW f \in Forms, Edit(f)
        PROVE  /\ ui' = ui /\ ui.create
               /\ \A x \in {"key", "value", "result", "about", "strayed"} : form'[x] = f[x]
    BY <1>2 DEF Edit, Dialog, Forms
  <1>3. ASSUME NEW k \in Typed, editKeyPart(k)
        PROVE  Awaited' /\ Conflicts'
    <2>1. CASE form.result \in {"conflict", "error"}
      <3> DEFINE f == [EmptyForm EXCEPT !.key = k, !.value = form.value]
      <3>1. f \in Forms /\ f.result = "idle"
        BY <1>0, KeysAssumption DEF EmptyForm, Forms, Subjects
      <3>2. Edit(f) /\ writes' = reset(writes)
        BY <1>3, <2>1 DEF editKeyPart
      <3> HIDE DEF f
      <3> QED
        BY <1>2, <3>1, <3>2, DialogIdle
    <2>2. CASE form.result \notin {"conflict", "error"}
      <3> DEFINE s == form.strayed \/ form.result = "pending"
                 f == [form EXCEPT !.key = k, !.strayed = s]
      <3>1. s \in BOOLEAN
        BY <1>0 DEF Forms
      <3>2. f \in Forms /\ f.strayed = s /\ f.result = form.result
        <4> HIDE DEF s
        <4> QED
          BY <1>0, <3>1, KeysAssumption DEF Forms
      <3>3. Edit(f) /\ writes' = writes
        BY <1>3, <2>2 DEF editKeyPart
      <3> HIDE DEF f
      <3>4. ui' = ui /\ ui.create /\ form'.result = form.result /\ form'.strayed = s
        BY <1>2, <3>2, <3>3
      <3>5. Awaited'
        BY <3>3, <3>4 DEF Awaited
      <3>6. Conflicts'
        BY <2>2, <3>3, <3>4 DEF Conflicts
      <3> QED
        BY <3>5, <3>6
    <2> QED
      BY <2>1, <2>2
  <1>4. ASSUME NEW v \in Values \cup {NoValue}, editValue(v)
        PROVE  Awaited' /\ Conflicts'
    <2> DEFINE f == [form EXCEPT !.value = v]
    <2>1. f \in Forms /\ \A x \in {"key", "result", "about", "strayed"} : f[x] = form[x]
      BY <1>0 DEF Forms
    <2>2. Edit(f) /\ writes' = writes
      BY <1>4 DEF editValue
    <2> HIDE DEF f
    <2>3. ui' = ui /\ ui.create /\ \A x \in {"key", "result", "about", "strayed"} : form'[x] = form[x]
      BY <1>2, <2>1, <2>2
    <2> QED
      BY <2>2, <2>3 DEF Awaited, Conflicts
  <1>5. ASSUME NEW o \in BOOLEAN, submit(o), o => form.result = "conflict"
        PROVE  Awaited' /\ Conflicts'
    <2> DEFINE f == [form EXCEPT !.result = "pending", !.about = <<>>, !.strayed = FALSE]
               w == [store |-> ui.store, key |-> form.key, value |-> form.value,
                     overwrite |-> o, live |-> TRUE, status |-> "sent",
                     about |-> form.about, strayed |-> form.strayed]
    <2>1. f \in Forms /\ f.result = "pending" /\ f.key = form.key
      BY <1>0 DEF Forms, Subjects
    <2>2. Edit(f) /\ writes' = Append(reset(writes), w)
      BY <1>5 DEF submit
    <2>3. /\ w.live /\ w.store = ui.store /\ w.key = form.key
          /\ w.overwrite => w.about = <<w.store, w.key>> \/ w.strayed
      BY <1>5 DEF Conflicts
    <2> HIDE DEF f, w
    <2>4. ui' = ui /\ ui.create /\ form'.result = "pending" /\ form'.key = form.key
      BY <1>2, <2>1, <2>2
    <2>5. /\ reset(writes) \in Seq(Writes) /\ Len(reset(writes)) = Len(writes)
          /\ \A n \in DOMAIN writes :
                /\ ~reset(writes)[n].live
                /\ \A x \in {"store", "key", "overwrite", "about", "strayed"} :
                      reset(writes)[n][x] = writes[n][x]
      BY <1>0, ResetWrites
    <2> DEFINE l == Len(writes) + 1
    <2>6. DOMAIN writes' = 1..l /\ writes'[l] = w /\ \A n \in DOMAIN writes : writes'[n] = reset(writes)[n]
      BY <1>0, <2>2, <2>5
    <2>7. l \in DOMAIN writes' /\ \A n \in DOMAIN writes' : n = l \/ n \in DOMAIN writes
      BY <1>0, <2>6
    <2> HIDE DEF l
    <2>8. Awaited'
      BY <2>3, <2>4, <2>5, <2>6, <2>7 DEF Awaited
    <2>9. Conflicts'
      BY <2>3, <2>4, <2>5, <2>6, <2>7 DEF Conflicts
    <2> QED
      BY <2>8, <2>9
  <1> QED
    BY <1>1, <1>3, <1>4, <1>5 DEF NewStateRecordDialog, Save, Overwrite

\* A request that moves on is still about the same, and the same one is waited for.
LEMMA ServedAwaited ==
    ASSUME Types, Awaited, Conflicts, NEW n \in DOMAIN writes, CheckWrite(n) \/ PutWrite(n)
    PROVE  Awaited' /\ Conflicts'
  <1>1. PICK c : writes' = [writes EXCEPT ![n].status = c]
    BY DEF CheckWrite, PutWrite
  <1>2. writes \in Seq(Writes) /\ writes[n] \in Writes
    BY DEF Types
  <1>3. \A x \in {"store", "key", "overwrite", "live", "about", "strayed"} :
           [writes[n] EXCEPT !.status = c][x] = writes[n][x]
    BY <1>2 DEF Writes
  <1>4. writes' = [writes EXCEPT ![n] = [writes[n] EXCEPT !.status = c]]
    BY <1>1
  <1>5. DOMAIN writes' = DOMAIN writes /\ \A m \in DOMAIN writes :
           \A x \in {"store", "key", "overwrite", "live", "about", "strayed"} :
              writes'[m][x] = writes[m][x]
    BY <1>3, <1>4
  <1>6. UNCHANGED <<ui, form>>
    BY DEF CheckWrite, PutWrite, Serve
  <1> QED
    BY <1>5, <1>6 DEF Awaited, Conflicts

LEMMA HeardAwaited ==
    ASSUME Types, Awaited, Conflicts, NEW n \in DOMAIN writes, HearWrite(n)
    PROVE  Awaited' /\ Conflicts'
  <1>1. writes \in Seq(Writes) /\ form \in Forms /\ writes[n] \in Writes
    BY DEF Types
  <1>2. writes' = RemoveAt(writes, n) /\ ui' = ui /\ writes[n].status \in {"success", "error", "conflict"}
    BY DEF HearWrite
  <1>3. /\ \A j \in DOMAIN writes' : \E m \in DOMAIN writes \ {n} : writes'[j] = writes[m]
        /\ \A m \in DOMAIN writes \ {n} : \E j \in DOMAIN writes' : writes'[j] = writes[m]
        /\ \A j, k \in DOMAIN writes' : j # k =>
              \E m, i \in DOMAIN writes \ {n} : m # i /\ writes'[j] = writes[m] /\ writes'[k] = writes[i]
    <2> DEFINE r == RemoveAt(writes, n)
    <2>1. /\ \A j \in DOMAIN r : \E m \in DOMAIN writes \ {n} : r[j] = writes[m]
          /\ \A m \in DOMAIN writes \ {n} : \E j \in DOMAIN r : r[j] = writes[m]
          /\ \A j, k \in DOMAIN r : j # k =>
                \E m, i \in DOMAIN writes \ {n} : m # i /\ r[j] = writes[m] /\ r[k] = writes[i]
      BY <1>1, RemoveAtKeeps
    <2> HIDE DEF r
    <2> QED
      BY <1>2, <2>1 DEF r
  <1>4. CASE ~writes[n].live
    <2>1. form' = form
      BY <1>4 DEF HearWrite
    <2> QED
      BY <1>2, <1>3, <1>4, <2>1 DEF Awaited, Conflicts
  <1>5. CASE writes[n].live
    <2>1. /\ form'.result = writes[n].status /\ form'.strayed = form.strayed /\ form'.key = form.key
          /\ form'.result = "conflict" => form'.about = <<writes[n].store, writes[n].key>>
      BY <1>1, <1>5 DEF HearWrite, Forms
    <2>2. ui.create /\ \A m \in DOMAIN writes \ {n} : ~writes[m].live
      BY <1>5 DEF Awaited
    <2>3. \A j \in DOMAIN writes' : ~writes'[j].live
      BY <1>3, <2>2
    <2>4. Awaited'
      BY <1>2, <2>1, <2>2, <2>3 DEF Awaited
    <2>5. Conflicts'
      BY <1>2, <1>3, <1>5, <2>1 DEF Awaited, Conflicts
    <2> QED
      BY <2>4, <2>5
  <1> QED
    BY <1>4, <1>5

LEMMA LostAwaited ==
    ASSUME Types, Awaited, Conflicts, NEW n \in DOMAIN writes, LoseWrite(n)
    PROVE  Awaited' /\ Conflicts'
  <1>1. writes \in Seq(Writes) /\ form \in Forms /\ writes[n] \in Writes
    BY DEF Types
  <1>2. /\ writes' = [writes EXCEPT ![n] = [writes[n] EXCEPT !.live = FALSE]] /\ writes[n].live
        /\ ui' = ui /\ form'.result = "error"
    BY <1>1 DEF LoseWrite, Forms
  <1>3. /\ ~[writes[n] EXCEPT !.live = FALSE].live
        /\ \A x \in {"store", "key", "overwrite", "about", "strayed"} :
              [writes[n] EXCEPT !.live = FALSE][x] = writes[n][x]
    BY <1>1 DEF Writes
  <1>4. /\ DOMAIN writes' = DOMAIN writes
        /\ \A m \in DOMAIN writes :
              \A x \in {"store", "key", "overwrite", "about", "strayed"} : writes'[m][x] = writes[m][x]
        /\ \A m \in DOMAIN writes \ {n} : writes'[m] = writes[m]
        /\ ~writes'[n].live
    BY <1>2, <1>3
  <1>5. ui.create /\ \A m \in DOMAIN writes : ~writes'[m].live
    BY <1>2, <1>4 DEF Awaited
  <1> QED
    BY <1>2, <1>4, <1>5 DEF Awaited, Conflicts

\* A new list of stores may move the store under the dialog, which then strays.
LEMMA LearntAwaited ==
    ASSUME Types, Awaited, Conflicts, learnStores
    PROVE  Awaited' /\ Conflicts'
  <1>1. CASE list.shown = {}
    BY <1>1, DialogIdle, EmptyFormType DEF learnStores
  <1>2. CASE list.shown # {}
    <2> DEFINE s == form.strayed \/ (ui.create /\ ui'.store # ui.store)
    <2>1. IsUi(ui) /\ Known(known') /\ saved \in Picked /\ Render(ui, FALSE) /\ form \in Forms
      BY NextTypes DEF learnStores, Types, Next
    <2>2. ui'.create = ui.create /\ ui.create \in BOOLEAN
      BY <2>1, RenderFacts DEF UiFields, IsUi
    <2>3. form' = [form EXCEPT !.strayed = s] /\ writes' = writes
      BY <1>2 DEF learnStores
    <2>4. /\ form'.strayed = s /\ \A x \in {"key", "result", "about"} : form'[x] = form[x]
      BY <2>1, <2>3 DEF Forms
    <2>5. ~ui.create => form' = form
      <3>1. ~ui.create => s = form.strayed
        BY <2>1, <2>2 DEF Forms
      <3> HIDE DEF s
      <3> QED
        BY <2>1, <2>3, <3>1 DEF Forms
    <2>6. CASE ui.create
      BY <2>2, <2>3, <2>4, <2>6 DEF Awaited, Conflicts
    <2>7. CASE ~ui.create
      BY <2>2, <2>3, <2>5, <2>7, DialogStays
    <2> QED
      BY <2>6, <2>7
  <1> QED
    BY <1>1, <1>2

LEMMA NextAwaited ==
    ASSUME Types, Settled, Awaited, Conflicts, [Next]_vars
    PROVE  Awaited' /\ Conflicts'
  <1>0. IsUi(ui) /\ DOMAIN ui = UiFields /\ saved \in Picked /\ Known(known)
    BY DEF Types, IsUi
  <1>1. CASE Filters \/ (\E s \in Stores : onStoreChange(s)) \/ Table \/ Pager
    BY <1>1, DialogStays, FiltersFacts, TableFacts, PagerFacts, HandleFacts
  <1>2. CASE SelectionBar \/ ConfirmDelete \/ openCreate
    <2>1. UNCHANGED <<form, writes>> /\ (ui.create => ui'.create /\ ui'.store = ui.store)
      BY <1>0, <1>2 DEF SelectionBar, openConfirm, ConfirmDelete, cancelConfirm, onConfirmDelete,
         openCreate, Dialog, requests, UiFields
    <2> QED
      BY <2>1, DialogStays
  <1>3. CASE Reopen
    BY <1>3, DialogIdle, ReopenFacts, EmptyFormType
  <1>4. CASE Debounce
    <2>1. IsUi([ui EXCEPT !.search = ui.input]) /\ [ui EXCEPT !.search = ui.input].store = ui.store
          /\ [ui EXCEPT !.search = ui.input].create = ui.create
      BY <1>0 DEF IsUi, UiFields
    <2>2. Render([ui EXCEPT !.search = ui.input], TRUE) /\ UNCHANGED <<known, saved, form, writes>>
      BY <1>4 DEF Debounce, learnt, requests
    <2>3. ui'.store = ui.store /\ ui'.create = ui.create
      BY <1>0, <2>1, <2>2, RenderFacts DEF Settled, UiFields
    <2> QED
      BY <2>2, <2>3, DialogStays
  <1>5. CASE readList \/ Relist
             \/ \E s \in Stores, k \in Movers, v \in Values \cup {Absent} : Program(s, k, v)
    <2>1. UNCHANGED <<ui, form, writes>>
      BY <1>5 DEF readList, Relist, Program, World, requests
    <2> QED
      BY <2>1, DialogStays
  <1>6. CASE \E n \in DOMAIN deletes :
                StartDelete(n) \/ HearDelete(n) \/ LoseDelete(n) \/ \E k \in Keys : DeleteOne(n, k)
    <2>1. UNCHANGED <<form, writes>> /\ ui'.create = ui.create /\ ui'.store = ui.store
      BY <1>0, <1>6 DEF StartDelete, HearDelete, LoseDelete, DeleteOne, Serve, UiFields
    <2> QED
      BY <2>1, DialogStays
  <1>7. CASE UNCHANGED vars
    BY <1>7, DialogStays DEF vars, requests
  <1> QED
    BY <1>1, <1>2, <1>3, <1>4, <1>5, <1>6, <1>7, EditAwaited, ServedAwaited, HeardAwaited,
       LostAwaited, LearntAwaited DEF Next, Act, Header

-----------------------------------------------------------------------------
(* What the pager counts                                                   *)

\* The page that is shown stays, and so does its filter, unless nothing is left to be wrong.
LEMMA OffsetsStay ==
    ASSUME Types, Offsets, UNCHANGED <<db, drifted, cache>>,
           \A x \in {"page", "began", "history", "offset"} : ui'[x] = ui[x],
           ~mixed' => Clean(ui') \/ (~mixed /\ Filter(ui') = Filter(ui))
    PROVE  Offsets'
  <1>1. IF ui'.history = <<>> THEN ui'.offset = 0 /\ ui'.page = ui'.began
        ELSE ui'.history[1].offset = 0 /\ ui'.history[1].token = ui'.began
    BY DEF Offsets
  <1>2. ASSUME ~drifted', ~mixed', ui'.store # NoStore
        PROVE  /\ ui'.offset + Skipped' = Count(InitDb[ui'.store], Filter(ui'), ui'.page)
               /\ \A i \in 1..Len(ui'.history) :
                     ui'.history[i].offset + Skipped' = Count(InitDb[ui'.store], Filter(ui'), ui'.history[i].token)
    <2>1. CASE Clean(ui')
      <3>1. ui'.page = ui'.began /\ ui'.history = <<>> /\ ui'.offset = 0
        BY <1>1, <2>1 DEF Clean
      <3> QED
        BY <3>1, CountIsNat, SkippedNext
    <2>2. CASE ~mixed /\ Filter(ui') = Filter(ui)
      <3>1. ui'.store = ui.store
        BY <2>2 DEF Filter
      <3> QED
        BY <1>2, <2>2, <3>1, SkippedNext DEF Offsets, Skipped
    <2> QED
      BY <1>2, <2>1, <2>2
  <1>3. ~drifted' =>
          /\ db' = InitDb
          /\ \A q \in DOMAIN cache' :
                cache'[q].next # FirstPage =>
                    Count(InitDb[q.filter.store], q.filter, cache'[q].next)
                      = Count(InitDb[q.filter.store], q.filter, q.page) + Cardinality(cache'[q].items)
    BY DEF Offsets
  <1> QED
    BY <1>1, <1>2, <1>3 DEF Offsets, Skipped, Count, listPattern, visible, Filter

\* Paging starts over.
LEMMA OffsetsReset ==
    ASSUME Types, Offsets, UNCHANGED <<db, drifted, cache>>, ui'.history = <<>>, ui'.offset = 0,
           ui'.page = ui'.began
    PROVE  Offsets'
  <1>1. ui'.offset + Skipped' = Count(InitDb[ui'.store], Filter(ui'), ui'.page)
    BY CountIsNat, SkippedNext
  <1>2. Len(ui'.history) = 0
    OBVIOUS
  <1> QED
    BY <1>1, <1>2 DEF Offsets, Skipped, Count, listPattern, visible, Filter

LEMMA PagerOffsets ==
    ASSUME Types, Offsets, Pager
    PROVE  Offsets'
  <1>0. IsUi(ui) /\ ui.history \in Seq(Turns) /\ ui.offset \in Nat /\ Len(ui.history) \in Nat
    BY DEF Types, IsUi
  <1>1. PICK u :
          /\ IsUi(u) /\ Handle(u)
          /\ \A x \in {"store", "app", "input", "search", "internal", "began", "confirm", "create"} : u[x] = ui[x]
          /\ \/ /\ ~isError /\ Entry.next # FirstPage /\ u.page = Entry.next
                /\ u.offset = ui.offset + Cardinality(items)
                /\ u.history = Append(ui.history, [token |-> ui.page, offset |-> ui.offset])
             \/ /\ ui.history # <<>> /\ u.page = Last(ui.history).token
                /\ u.offset = Last(ui.history).offset /\ u.history = Front(ui.history)
    BY PagerFacts
  <1>2. /\ ui'.began = ui.began /\ ui'.page = u.page /\ ui'.offset = u.offset /\ ui'.history = u.history
        /\ ~mixed' => Clean(ui') \/ (~mixed /\ Filter(ui') = Filter(u))
        /\ UNCHANGED <<db, cache, drifted>>
    BY <1>1, HandleFacts DEF UiFields
  <1>3. Filter(u) = Filter(ui)
    BY <1>1, QueryStays
  <1>4. Filter(ui') = Filter(ui) => ui'.store = ui.store
    BY DEF Filter
  <1> DEFINE Turned ==
        /\ IF ui'.history = <<>> THEN ui'.offset = 0 /\ ui'.page = ui'.began
           ELSE ui'.history[1].offset = 0 /\ ui'.history[1].token = ui'.began
        /\ ~drifted /\ ~mixed' /\ ui'.store # NoStore =>
             /\ ui'.offset + Skipped' = Count(InitDb[ui'.store], Filter(ui'), ui'.page)
             /\ \A i \in 1..Len(ui'.history) :
                   ui'.history[i].offset + Skipped' = Count(InitDb[ui'.store], Filter(ui'), ui'.history[i].token)
  <1>5. ASSUME ~isError, Entry.next # FirstPage, u.page = Entry.next,
               u.offset = ui.offset + Cardinality(items),
               u.history = Append(ui.history, [token |-> ui.page, offset |-> ui.offset])
        PROVE  Turned
    <2> DEFINE t == [token |-> ui.page, offset |-> ui.offset]
               l == Len(ui.history) + 1
    <2>1. t.token = ui.page /\ t.offset = ui.offset /\ t \in Turns
      BY <1>0 DEF Turns, IsUi
    <2>2. ui'.history = Append(ui.history, t)
      BY <1>2, <1>5
    <2> HIDE DEF t
    <2>3. /\ Len(ui'.history) = l /\ ui'.history # <<>> /\ ui'.history[l] = t
          /\ \A i \in 1..Len(ui.history) : ui'.history[i] = ui.history[i]
      BY <1>0, <2>1, <2>2
    <2>4. ui'.history[1].offset = 0 /\ ui'.history[1].token = ui'.began
      <3>1. CASE ui.history = <<>>
        BY <1>2, <2>1, <2>3, <3>1 DEF Offsets
      <3>2. CASE ui.history # <<>>
        <4>1. 1 \in 1..Len(ui.history)
          BY <1>0, <3>2
        <4> QED
          BY <1>2, <2>3, <3>2, <4>1 DEF Offsets
      <3> QED
        BY <3>1, <3>2
    <2>5. ~Clean(ui')
      BY <2>3 DEF Clean
    <2>6. ASSUME ~drifted, ~mixed', ui'.store # NoStore
          PROVE  /\ ui'.offset + Skipped' = Count(InitDb[ui'.store], Filter(ui'), ui'.page)
                 /\ \A i \in 1..Len(ui'.history) :
                       ui'.history[i].offset + Skipped' = Count(InitDb[ui'.store], Filter(ui'), ui'.history[i].token)
      <3>1. ~mixed /\ Filter(ui') = Filter(ui) /\ ui'.store = ui.store
        BY <1>2, <1>3, <1>4, <2>5, <2>6
      <3>2. /\ ui.offset + Skipped = Count(InitDb[ui.store], Filter(ui), ui.page)
            /\ \A i \in 1..Len(ui.history) :
                  ui.history[i].offset + Skipped = Count(InitDb[ui.store], Filter(ui), ui.history[i].token)
        BY <2>6, <3>1 DEF Offsets
      <3>3. queryKey(ui) \in DOMAIN cache /\ Entry = cache[queryKey(ui)] /\ items = Entry.items
        BY <1>5 DEF Entry, Loading, items
      <3>4. queryKey(ui).filter = Filter(ui) /\ queryKey(ui).page = ui.page /\ Filter(ui).store = ui.store
        BY DEF queryKey, Filter
      <3>5. Count(InitDb[ui.store], Filter(ui), Entry.next)
              = Count(InitDb[ui.store], Filter(ui), ui.page) + Cardinality(items)
        BY <1>5, <2>6, <3>3, <3>4 DEF Offsets
      <3>6. ui'.offset + Skipped' = Count(InitDb[ui'.store], Filter(ui'), ui'.page)
        BY <1>0, <1>2, <1>5, <3>1, <3>2, <3>5, CountIsNat, EntryFacts, KeyFacts, SkippedNext DEF Skipped
      <3>7. \A i \in 1..Len(ui'.history) : i = l \/ i \in 1..Len(ui.history)
        BY <1>0, <2>3
      <3> HIDE DEF l
      <3> QED
        BY <1>2, <2>1, <2>3, <3>1, <3>2, <3>6, <3>7, SkippedNext DEF Skipped
    <2> QED
      BY <2>3, <2>4, <2>6
  <1>6. ASSUME ui.history # <<>>, u.page = Last(ui.history).token, u.offset = Last(ui.history).offset,
               u.history = Front(ui.history)
        PROVE  Turned
    <2> DEFINE l == Len(ui.history)
    <2>1. l \in 1..l /\ 1 \in 1..l
      BY <1>0, <1>6
    <2>2. /\ ui'.page = ui.history[l].token /\ ui'.offset = ui.history[l].offset
          /\ ui'.history = SubSeq(ui.history, 1, l - 1)
      BY <1>2, <1>6 DEF Last, Front
    <2>3. /\ Len(ui'.history) = l - 1
          /\ \A i \in 1..Len(ui'.history) : i \in 1..l /\ ui'.history[i] = ui.history[i]
      BY <1>0, <2>1, <2>2
    <2>4. ui.history[1].offset = 0 /\ ui.history[1].token = ui.began
      BY <1>6 DEF Offsets
    <2>5. ui'.history = <<>> => l = 1
      BY <1>0, <2>3
    <2>6. ui'.history # <<>> => 1 \in 1..Len(ui'.history)
      BY <1>0, <2>1, <2>2, <2>3
    <2>7. IF ui'.history = <<>> THEN ui'.offset = 0 /\ ui'.page = ui'.began
          ELSE ui'.history[1].offset = 0 /\ ui'.history[1].token = ui'.began
      BY <1>2, <2>2, <2>3, <2>4, <2>5, <2>6
    <2>8. ASSUME ~drifted, ~mixed', ui'.store # NoStore
          PROVE  /\ ui'.offset + Skipped' = Count(InitDb[ui'.store], Filter(ui'), ui'.page)
                 /\ \A i \in 1..Len(ui'.history) :
                       ui'.history[i].offset + Skipped' = Count(InitDb[ui'.store], Filter(ui'), ui'.history[i].token)
      <3>1. CASE Clean(ui')
        <4>1. ui'.page = ui'.began /\ ui'.history = <<>> /\ ui'.offset = 0
          BY <2>7, <3>1 DEF Clean
        <4> QED
          BY <4>1, CountIsNat, SkippedNext
      <3>2. CASE ~Clean(ui')
        <4>1. ~mixed /\ Filter(ui') = Filter(ui) /\ ui'.store = ui.store
          BY <1>2, <1>3, <1>4, <2>8, <3>2
        <4>2. \A i \in 1..l :
                 ui.history[i].offset + Skipped = Count(InitDb[ui.store], Filter(ui), ui.history[i].token)
          BY <2>8, <4>1 DEF Offsets
        <4> QED
          BY <1>2, <2>1, <2>2, <2>3, <4>1, <4>2, SkippedNext DEF Skipped
      <3> QED
        BY <3>1, <3>2
    <2> QED
      BY <2>7, <2>8
  <1>7. Turned
    BY <1>1, <1>5, <1>6
  <1>8. ~drifted' =>
          /\ db' = InitDb
          /\ \A q \in DOMAIN cache' :
                cache'[q].next # FirstPage =>
                    Count(InitDb[q.filter.store], q.filter, cache'[q].next)
                      = Count(InitDb[q.filter.store], q.filter, q.page) + Cardinality(cache'[q].items)
    BY <1>2 DEF Offsets
  <1> QED
    BY <1>2, <1>7, <1>8 DEF Offsets, Skipped, Count, listPattern, visible, Filter

LEMMA ReadOffsets ==
    ASSUME Types, Offsets, readList
    PROVE  Offsets'
  <1>1. UNCHANGED <<db, ui, drifted, mixed>>
    BY DEF readList, server, ghosts
  <1> DEFINE Right(q, e) == e.next # FirstPage =>
        Count(InitDb[q.filter.store], q.filter, e.next)
          = Count(InitDb[q.filter.store], q.filter, q.page) + Cardinality(e.items)
  <1>2. queryKey(ui).filter = Filter(ui) /\ queryKey(ui).page = ui.page /\ Filter(ui).store = ui.store
    BY DEF queryKey, Filter
  <1>3. ASSUME ~drifted
        PROVE  \E e : cache' = Cached(e) /\ Right(queryKey(ui), e)
    <2>1. db = InitDb /\ \A q \in DOMAIN cache : Right(q, cache[q])
      BY <1>3 DEF Offsets
    <2>2. ui.page \in Places
      BY DEF Types, IsUi
    <2>3. Right(queryKey(ui), List(db[ui.store], Filter(ui), ui.page))
      BY <1>2, <2>1, <2>2, ListFacts
    <2>4. Right(queryKey(ui), Entry)
      BY <2>1 DEF Entry, Loading
    <2> DEFINE f == [Entry EXCEPT !.error = TRUE]
    <2>5. f.next = Entry.next /\ f.items = Entry.items
      BY EntryFacts DEF Entries
    <2>6. Right(queryKey(ui), f)
      <3> HIDE DEF f
      <3> QED
        BY <2>4, <2>5
    <2>7. cache' = Cached(List(db[ui.store], Filter(ui), ui.page)) \/ cache' = Cached(f)
      BY DEF readList
    <2> HIDE DEF Right, f
    <2> QED
      BY <2>3, <2>6, <2>7
  <1>4. ASSUME ~drifted
        PROVE  \A q \in DOMAIN cache' : Right(q, cache'[q])
    <2>1. PICK e : cache' = Cached(e) /\ Right(queryKey(ui), e)
      BY <1>3, <1>4
    <2>2. \A q \in DOMAIN cache : Right(q, cache[q])
      BY <1>4 DEF Offsets
    <2> HIDE DEF Right
    <2> QED
      BY <2>1, <2>2 DEF Cached
  <1> QED
    BY <1>1, <1>4 DEF Offsets, Skipped, Count, listPattern, visible, Filter

LEMMA NextOffsets ==
    ASSUME Types, Settled, Offsets, [Next]_vars
    PROVE  Offsets'
  <1> USE DEF UiFields
  <1>0. IsUi(ui) /\ DOMAIN ui = UiFields /\ saved \in Picked /\ Known(known) /\ Known(known')
    BY NextTypes DEF Types, IsUi
  <1>1. CASE Filters \/ \E s \in Stores : onStoreChange(s)
    <2>1. PICK u : IsUi(u) /\ Handle(u) /\ Clean(u) /\ u.offset = 0 /\ u.page = u.began
      BY <1>1, FiltersFacts
    <2>2. /\ ui'.page = u.page /\ ui'.began = u.began /\ ui'.history = u.history /\ ui'.offset = u.offset
          /\ UNCHANGED <<db, drifted, cache>>
      BY <2>1, HandleFacts
    <2> QED
      BY <2>1, <2>2, OffsetsReset DEF Clean
  <1>2. CASE Table
    <2>1. PICK u : IsUi(u) /\ Handle(u) /\ \A x \in UiFields \ {"selected", "expanded"} : u[x] = ui[x]
      BY <1>2, TableFacts
    <2>2. /\ ui'.page = u.page /\ ui'.began = u.began /\ ui'.history = u.history /\ ui'.offset = u.offset
          /\ ~mixed' => Clean(ui') \/ (~mixed /\ Filter(ui') = Filter(u))
          /\ UNCHANGED <<db, drifted, cache>>
      BY <2>1, HandleFacts
    <2>3. Filter(u) = Filter(ui)
      BY <2>1, QueryStays
    <2> QED
      BY <2>1, <2>2, <2>3, OffsetsStay
  <1>3. CASE Reopen
    BY <1>3, ReopenFacts, OffsetsReset
  <1>4. CASE Debounce
    <2> DEFINE u == [ui EXCEPT !.search = ui.input]
    <2>1. IsUi(u) /\ \A x \in {"page", "began", "history", "offset"} : u[x] = ui[x]
      BY <1>0 DEF IsUi
    <2>2. Render(u, TRUE) /\ UNCHANGED <<db, drifted, cache>>
      BY <1>4 DEF Debounce, server, learnt
    <2> HIDE DEF u
    <2>3. /\ \A x \in UiFields \ {"store"} : ui'[x] = u[x]
          /\ ~mixed' => Clean(ui')
      BY <1>0, <2>1, <2>2, RenderFacts
    <2> QED
      BY <2>1, <2>2, <2>3, OffsetsStay
  <1>5. CASE learnStores
    <2>1. Render(ui, FALSE) /\ UNCHANGED <<db, drifted, cache>>
      BY <1>5 DEF learnStores, server
    <2>2. /\ \A x \in UiFields \ {"store"} : ui'[x] = ui[x]
          /\ ~mixed' => Clean(ui') \/ (~mixed /\ Filter(ui') = Filter(ui))
      BY <1>0, <2>1, RenderFacts
    <2> QED
      BY <2>1, <2>2, OffsetsStay
  <1>6. ASSUME UNCHANGED <<db, drifted, cache>>,
               \A x \in UiFields \ {"selected", "confirm", "create"} : ui'[x] = ui[x],
               ~mixed' => ~mixed \/ Clean(ui')
        PROVE  Offsets'
    <2>1. Filter(ui') = Filter(ui)
      BY <1>6 DEF Filter
    <2> QED
      BY <1>6, <2>1, OffsetsStay
  <1>7. CASE SelectionBar \/ ConfirmDelete \/ openCreate \/ NewStateRecordDialog
    <2>1. UNCHANGED <<db, drifted, cache, mixed>>
      BY <1>7
         DEF SelectionBar, openConfirm, ConfirmDelete, cancelConfirm, onConfirmDelete,
             openCreate, NewStateRecordDialog, closeCreate, Save, Overwrite, submit, editKeyPart,
             editValue, Edit, Dialog, ghosts, server, learnt
    <2> QED
      BY <1>6, <1>7, <2>1, StoreStays
  <1>8. ASSUME UNCHANGED <<ui, cache, mixed>>, UNCHANGED <<db, drifted>> \/ drifted'
        PROVE  Offsets'
    <2>1. CASE UNCHANGED <<db, drifted>>
      BY <1>6, <1>8, <2>1
    <2>2. CASE drifted'
      BY <1>8, <2>2 DEF Offsets
    <2> QED
      BY <1>8, <2>1, <2>2
  <1>9. CASE \/ \E n \in DOMAIN writes : CheckWrite(n) \/ PutWrite(n)
             \/ \E n \in DOMAIN deletes : StartDelete(n) \/ \E k \in Keys : DeleteOne(n, k)
    BY <1>8, <1>9 DEF CheckWrite, PutWrite, StartDelete, DeleteOne, Serve, Put, learnt
  <1>10. CASE Relist \/ \E s \in Stores, k \in Movers, v \in Values \cup {Absent} : Program(s, k, v)
    BY <1>8, <1>10 DEF Relist, Program, World, Put, learnt
  <1>11. CASE \/ \E n \in DOMAIN writes : HearWrite(n) \/ LoseWrite(n)
              \/ \E n \in DOMAIN deletes : HearDelete(n) \/ LoseDelete(n)
    <2>1. UNCHANGED <<db, drifted, cache>>
      BY <1>11 DEF HearWrite, LoseWrite, HearDelete, LoseDelete, Answer, server, learnt
    <2>2. mixed' = mixed \/ mixed' = (mixed /\ ~Clean(ui'))
      BY <1>11 DEF HearWrite, LoseWrite, HearDelete, LoseDelete
    <2>3. ~mixed' => ~mixed \/ Clean(ui')
      BY <2>2
    <2> QED
      BY <1>6, <1>11, <2>1, <2>3, StoreStays
  <1>12. CASE UNCHANGED vars
    BY <1>8, <1>12 DEF vars, server, learnt, ghosts
  <1> QED
    BY <1>1, <1>2, <1>3, <1>4, <1>5, <1>7, <1>9, <1>10, <1>11, <1>12, PagerOffsets, ReadOffsets
       DEF Next, Act, Header

-----------------------------------------------------------------------------
(* Theorems                                                                *)

\* The invariant: what each variable holds, that a store is settled, and the four bonds
\* between the page, its requests and what they were made from.
THEOREM Invariance == Spec => []Inv
  <1>1. Init => Inv
    <2> SUFFICES ASSUME Init PROVE Inv
      OBVIOUS
    <2>1. Types
      BY InitTypes
    <2>2. Settled
      BY DEF Init, Settled, resolveStore, Mount
    <2>3. Selection
      BY TickedNone DEF Init, Selection, Mount, Clean
    <2>4. DeletesTicked /\ Awaited /\ Conflicts
      BY EmptyFormType DEF Init, DeletesTicked, Awaited, Conflicts, Mount
    <2>5. ui.offset = 0 /\ ui.history = <<>> /\ ui.page = ui.began /\ DOMAIN cache = {} /\ db = InitDb
      BY DEF Init, Mount, Blank
    <2>6. Offsets
      BY <2>5, CountIsNat DEF Offsets, Skipped
    <2> QED
      BY <2>1, <2>2, <2>3, <2>4, <2>6 DEF Inv
  <1>2. Inv /\ [Next]_vars => Inv'
    BY NextTypes, NextSettled, NextSelection, NextDeletes, NextAwaited, NextOffsets DEF Inv
  <1> QED
    BY <1>1, <1>2, PTL DEF Spec

\* Stores, pages, requests and the form hold what they may, one dialog is open at a time,
\* and a dialog that waits has a request to hear from.
THEOREM TypeCorrect == Spec => []TypeOK
  <1>1. Inv => TypeOK
    <2> SUFFICES ASSUME Inv PROVE TypeOK
      OBVIOUS
    <2>1. \A s \in Stores, k \in Keys : db[s][k] \in Values \cup {Absent, NoValue}
      BY DEF Inv, Types, Records
    <2>2. /\ ui.store \in Stores \cup {NoStore} /\ ui.page \in Keys \cup {FirstPage}
          /\ ui.selected \subseteq Keys /\ ui.expanded \in Keys \cup {NoKey}
          /\ ~(ui.confirm /\ ui.create)
      BY DEF Inv, Types, IsUi, Picked, Places
    <2>3. form.result = "pending" => \E n \in DOMAIN writes : writes[n].live
      BY DEF Inv, Awaited
    <2>4. \A q \in DOMAIN cache : cache[q].items \subseteq Keys /\ q.filter.store # NoStore
      BY DEF Inv, Types, Entries
    <2> QED
      BY <2>1, <2>2, <2>3, <2>4 DEF TypeOK
  <1> QED
    BY <1>1, Invariance, PTL

\* A delete names what the user ticked, and on one page of that store unless the filter moved
\* under the selection.
THEOREM DeletesWhatWasTicked == Spec => []DeletesTicked
  <1>1. Inv => DeletesTicked
    BY DEF Inv
  <1> QED
    BY <1>1, Invariance, PTL

\* The pager's first number counts the records between the page the walk began at and the
\* page shown, however the service scanned for them: all those before the page, unless the
\* walk began at an address with a token.
THEOREM PagerCounts == Spec => []OffsetCounts
  <1>1. Inv => OffsetCounts
    <2> SUFFICES ASSUME Inv, ~drifted, ~mixed, ui.store # NoStore
                 PROVE  ui.offset = Cardinality({k \in listPattern(db[ui.store], Filter(ui))
                                                        \cap visible(Filter(ui)) :
                                                    ui.began < k /\ k <= ui.page})
      BY DEF OffsetCounts
    <2>1. ui.began \in Places /\ ui.page \in Places /\ ui.offset \in Nat
      BY DEF Inv, Types, IsUi
    <2>2. db = InitDb /\ ui.offset + Skipped = Count(InitDb[ui.store], Filter(ui), ui.page)
      BY DEF Inv, Offsets
    <2> QED
      BY <2>1, <2>2, CountBetween DEF Skipped
  <1> QED
    BY <1>1, Invariance, PTL

\* A write replaces a record it found only when told to, for the key and the store of the
\* conflict, unless the user or the list strayed from them.
THEOREM WritesReplaceKnowingly == Spec => ReplacesKnowingly
  <1> DEFINE Step1 ==
        \A n \in DOMAIN writes :
          LET w == writes[n] IN
          w.status = "sent" /\ CheckWrite(n) /\ writes'[n].status = "checked"
              /\ db[w.store][w.key] # Absent
          => w.overwrite /\ (w.about = <<w.store, w.key>> \/ w.strayed)
  <1>1. Inv /\ [Next]_vars => [Step1]_vars
    <2> SUFFICES ASSUME Inv, NEW n \in DOMAIN writes, CheckWrite(n),
                        writes'[n].status = "checked",
                        db[writes[n].store][writes[n].key] # Absent
                 PROVE  /\ writes[n].overwrite
                        /\ writes[n].about = <<writes[n].store, writes[n].key>> \/ writes[n].strayed
      OBVIOUS
    <2>1. writes \in Seq(Writes) /\ writes[n] \in Writes
      BY DEF Inv, Types
    <2> DEFINE c == IF writes[n].store \notin list.shown \/ writes[n].key \in Internal \cup {NoKey}
                    THEN "error" ELSE IF existing(writes[n]) THEN "conflict" ELSE "checked"
    <2>2. writes' = [writes EXCEPT ![n] = [writes[n] EXCEPT !.status = c]]
      BY DEF CheckWrite
    <2>3. writes'[n].status = c
      <3> HIDE DEF c
      <3> QED
        BY <2>1, <2>2 DEF Writes
    <2>4. ~existing(writes[n])
      BY <2>3
    <2>5. writes[n].overwrite
      BY <2>1, <2>4 DEF existing, Writes
    <2> QED
      BY <2>5 DEF Inv, Conflicts
  <1>2. Spec => [][Step1]_vars
    BY <1>1, Invariance, PTL DEF Spec
  <1> QED
    BY <1>2 DEF ReplacesKnowingly

=============================================================================

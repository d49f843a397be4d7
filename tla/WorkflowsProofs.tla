---------------------------- MODULE WorkflowsProofs ----------------------------
(***************************************************************************)
(* The workflow listing and its page, for any stores, instances, requests  *)
(* and users: a page of the listing holds the matches between its token    *)
(* and the next, what a removal dialog targets is what was shown, types,   *)
(* a finished walk holds every match, and removed rows are not shown.      *)
(***************************************************************************)
EXTENDS Workflows, FiniteSetTheorems, SequenceTheorems, WellFoundedInduction, TLAPS

\* Page p holds every match after the token and up to its next one, with its status, and
\* no other; the next token is farther on.
Covers(p, D, f, token) ==
    /\ DOMAIN p.items = {i \in Matching(D, f) :
           token < Place[i] /\ (p.next = FirstPage \/ Place[i] <= p.next)}
    /\ p.next = FirstPage \/ (p.next \in Nat /\ token < p.next)
    /\ \A i \in DOMAIN p.items : p.items[i] = D[i]

\* The keys of S before that of i.
Before(S, i) == {j \in S : Place[j] < Place[i]}

-----------------------------------------------------------------------------
(* Places                                                                  *)

\* Places are numbers, and distinct.
LEMMA PlaceType ==
    /\ \A i \in Instances : Place[i] \in Nat \ {0}
    /\ \A i, j \in Instances : Place[i] = Place[j] => i = j
  BY ServiceAssumption

\* A set of naturals has a smallest one.
LEMMA SmallestOfNat ==
    ASSUME NEW T \in SUBSET Nat, T # {}
    PROVE  \E m \in T : \A n \in T : m <= n
  <1>1. PICK m \in T : \A n \in T : <<n, m>> \notin OpToRel(<, Nat)
    BY NatLessThanWellFounded, WFMin
  <1>2. ASSUME NEW n \in T
        PROVE  m <= n
    <2>1. m \in Nat /\ n \in Nat
      OBVIOUS
    <2>2. ~(n < m)
      BY <1>1, <2>1 DEF OpToRel
    <2> QED
      BY <2>1, <2>2
  <1> QED
    BY <1>2

\* Some instance of S comes first.
LEMMA FirstOfSome ==
    ASSUME NEW S \in SUBSET Instances, S # {}
    PROVE  \E i \in S : \A j \in S : Place[i] <= Place[j]
  <1> DEFINE T == {Place[i] : i \in S}
  <1>1. T \in SUBSET Nat /\ T # {}
    BY PlaceType
  <1>2. PICK m \in T : \A n \in T : m <= n
    BY <1>1, SmallestOfNat
  <1> QED
    BY <1>2

\* Some instance of S comes last, if S ends before some place.
LEMMA LastOfSome ==
    ASSUME NEW S \in SUBSET Instances, S # {},
           NEW b \in Nat, \A i \in S : Place[i] <= b
    PROVE  \E i \in S : \A j \in S : Place[j] <= Place[i]
  <1> DEFINE T == {n \in Nat : \A i \in S : Place[i] <= n}
  <1>1. T \in SUBSET Nat /\ b \in T
    OBVIOUS
  <1>2. PICK m \in T : \A n \in T : m <= n
    BY <1>1, SmallestOfNat
  <1>3. ASSUME \A i \in S : Place[i] # m
        PROVE  FALSE
    <2>1. PICK i \in S : TRUE
      OBVIOUS
    <2>2. \A j \in S : Place[j] \in Nat \ {0} /\ Place[j] <= m /\ Place[j] # m
      BY <1>2, <1>3, PlaceType
    <2>3. m - 1 \in Nat /\ \A j \in S : Place[j] <= m - 1
      BY <1>2, <2>1, <2>2
    <2>4. m - 1 \in T /\ ~(m <= m - 1)
      BY <2>3
    <2> QED
      BY <1>2, <2>4
  <1> QED
    BY <1>2, <1>3

-----------------------------------------------------------------------------
(* What a listing scans                                                    *)

\* The lowest keys are a prefix of the keys.
LEMMA LowestIsPrefix ==
    ASSUME NEW S \in SUBSET Instances, NEW n \in Nat,
           NEW i \in Lowest(S, n), NEW j \in S, Place[j] <= Place[i]
    PROVE  j \in Lowest(S, n)
  <1>1. i \in S /\ Cardinality(Before(S, i)) < n
    BY DEF Lowest, Before
  <1>2. Before(S, i) \in SUBSET Instances /\ IsFiniteSet(Before(S, i))
    BY ServiceAssumption, FS_Subset DEF Before
  <1>3. Before(S, j) \in SUBSET Before(S, i)
    BY <1>1, PlaceType DEF Before
  <1>4. /\ IsFiniteSet(Before(S, j))
        /\ Cardinality(Before(S, j)) <= Cardinality(Before(S, i))
    BY <1>2, <1>3, FS_Subset
  <1>5. Cardinality(Before(S, j)) \in Nat /\ Cardinality(Before(S, i)) \in Nat
    BY <1>2, <1>4, FS_CardinalityType
  <1>6. Cardinality(Before(S, j)) < n
    BY <1>1, <1>4, <1>5
  <1> QED
    BY <1>6 DEF Lowest, Before

\* The first key is among them.
LEMMA LowestHasFirst ==
    ASSUME NEW S \in SUBSET Instances, S # {}, NEW n \in Nat \ {0}
    PROVE  Lowest(S, n) # {}
  <1>1. PICK i \in S : \A j \in S : Place[i] <= Place[j]
    BY FirstOfSome
  <1>2. Before(S, i) = {}
    BY <1>1, PlaceType DEF Before
  <1>3. Cardinality(Before(S, i)) < n
    BY <1>2, FS_EmptySet
  <1> QED
    BY <1>3 DEF Lowest, Before

LEMMA KeysAreInstances ==
    ASSUME NEW D, DOMAIN D \subseteq Instances, NEW f, NEW token
    PROVE  metaKeys(D, f, token) \in SUBSET Instances
  BY DEF metaKeys

\* k key pages are of a positive length.
LEMMA PagesPositive ==
    ASSUME NEW k \in Nat \ {0}
    PROVE  k * PageSize \in Nat \ {0} /\ k <= k * PageSize
  <1>1. PageSize \in Nat /\ PageSize >= 1
    BY ServiceAssumption
  <1>2. \A a, b \in Nat : b >= 1 => a * b \in Nat /\ a <= a * b
    OBVIOUS
  <1> QED
    BY <1>1, <1>2

\* What is left unscanned comes after all that was scanned.
LEMMA ScannedIsPrefix ==
    ASSUME NEW D, DOMAIN D \subseteq Instances, NEW f, NEW token \in Nat, NEW k \in Nat \ {0},
           NEW i \in Scanned(D, f, token, k), NEW j \in metaKeys(D, f, token), Place[j] <= Place[i]
    PROVE  j \in Scanned(D, f, token, k)
  BY KeysAreInstances, PagesPositive, LowestIsPrefix DEF Scanned

\* A page is the matches between its token and the next one.
LEMMA PageRange ==
    ASSUME NEW D, DOMAIN D \subseteq Instances, NEW f, NEW token \in Nat, NEW k \in Nat \ {0}
    PROVE  Covers(Page(D, f, token, k), D, f, token)
  <1> DEFINE keys == metaKeys(D, f, token)
             scanned == Scanned(D, f, token, k)
             last == CHOOSE i \in scanned : \A j \in scanned : Place[j] <= Place[i]
             p == Page(D, f, token, k)
  <1>1. keys \in SUBSET Instances /\ scanned \subseteq keys
    BY KeysAreInstances DEF Scanned, Lowest
  <1>2. /\ DOMAIN p.items = Matched(D, f, token, k)
        /\ \A i \in DOMAIN p.items : p.items[i] = D[i]
        /\ p.next = IF scanned = keys THEN FirstPage ELSE Place[last]
    BY DEF Page
  <1>3. Matched(D, f, token, k) = {i \in scanned : matches(D, i, f)}
    BY DEF Matched
  <1>4. \A i : i \in Matching(D, f) /\ token < Place[i] <=> i \in keys /\ matches(D, i, f)
    BY <1>1, PlaceType DEF Matching, metaKeys
  <1>5. CASE scanned = keys
    BY <1>2, <1>3, <1>4, <1>5 DEF Covers
  <1>6. CASE scanned # keys
    <2>1. PICK m \in keys : m \notin scanned
      BY <1>1, <1>6
    <2>2. \A i \in scanned : Place[i] < Place[m]
      BY <1>1, <2>1, PlaceType, ScannedIsPrefix
    <2>3. scanned # {}
      BY <1>1, <2>1, PagesPositive, LowestHasFirst DEF Scanned
    <2>4. \E i \in scanned : \A j \in scanned : Place[j] <= Place[i]
      <3>1. Place[m] \in Nat /\ scanned \in SUBSET Instances
        BY <1>1, <2>1, PlaceType
      <3>2. \A i \in scanned : Place[i] <= Place[m]
        BY <1>1, <2>2, <3>1, PlaceType
      <3> HIDE DEF scanned
      <3> QED
        BY <2>3, <3>1, <3>2, LastOfSome
    <2>5. last \in scanned /\ \A j \in scanned : Place[j] <= Place[last]
      BY <2>4
    <2>6. \A i \in keys : i \in scanned <=> Place[i] <= Place[last]
      BY <2>5, ScannedIsPrefix
    <2>7. Place[last] \in Nat /\ Place[last] # FirstPage /\ token < Place[last]
      BY <1>1, <2>5, PlaceType DEF FirstPage, metaKeys
    <2>8. p.next = Place[last]
      BY <1>2, <1>6
    <2> QED
      BY <1>1, <1>2, <1>3, <1>4, <2>6, <2>7, <2>8 DEF Covers
  <1> QED
    BY <1>5, <1>6

-----------------------------------------------------------------------------
(* How far it goes                                                         *)

\* As many key pages as there are instances, and one, are enough.
LEMMA AllIsEnough ==
    ASSUME NEW D, DOMAIN D \subseteq Instances, NEW f, NEW token \in Nat
    PROVE  /\ Cardinality(Instances) + 1 \in Nat \ {0}
           /\ Enough(D, f, token, Cardinality(Instances) + 1)
  <1> DEFINE k == Cardinality(Instances) + 1
             keys == metaKeys(D, f, token)
  <1>1. Cardinality(Instances) \in Nat /\ IsFiniteSet(Instances)
    BY ServiceAssumption, FS_CardinalityType
  <1>2. keys \in SUBSET Instances
    BY KeysAreInstances
  <1>3. k * PageSize \in Nat \ {0} /\ k <= k * PageSize
    BY <1>1, PagesPositive
  <1>4. ASSUME NEW i \in keys
        PROVE  Cardinality(Before(keys, i)) < k * PageSize
    <2>1. Before(keys, i) \in SUBSET Instances
      BY <1>2 DEF Before
    <2>2. IsFiniteSet(Before(keys, i)) /\ Cardinality(Before(keys, i)) <= Cardinality(Instances)
      BY <1>1, <2>1, FS_Subset
    <2>3. Cardinality(Before(keys, i)) \in Nat
      BY <2>2, FS_CardinalityType
    <2> QED
      BY <1>1, <1>3, <2>2, <2>3
  <1>5. Scanned(D, f, token, k) = keys
    BY <1>4 DEF Scanned, Lowest, Before
  <1> QED
    BY <1>1, <1>5 DEF Enough

\* So the listing stops, at the first number of key pages that is enough.
LEMMA ListStops ==
    ASSUME NEW D, DOMAIN D \subseteq Instances, NEW f, NEW token \in Nat
    PROVE  \E k \in Nat \ {0} :
              Enough(D, f, token, k) /\ List(D, f, token) = Page(D, f, token, k)
  <1> DEFINE n == Cardinality(Instances) + 1
             T == {k \in 1..n : Enough(D, f, token, k)}
             First(k) == Enough(D, f, token, k) /\ \A j \in 1..(k - 1) : ~Enough(D, f, token, j)
  <1>1. n \in Nat \ {0} /\ n \in T
    BY AllIsEnough
  <1>2. T \in SUBSET Nat /\ T # {}
    BY <1>1
  <1>3. PICK m \in T : \A j \in T : m <= j
    BY <1>2, SmallestOfNat
  <1>4. m \in 1..n /\ First(m)
    BY <1>1, <1>3
  <1> DEFINE c == CHOOSE k \in 1..n : First(k)
  <1>5. c \in 1..n /\ First(c)
    BY <1>4
  <1>6. List(D, f, token) = Page(D, f, token, c)
    BY DEF List
  <1>7. c \in Nat \ {0}
    BY <1>1, <1>5
  <1> QED
    BY <1>5, <1>6, <1>7

\* A page of the listing holds every match after its token and up to the next one, with its
\* status, and no other, however many key pages it scanned (service.go, metaKeys and List).
THEOREM PageCoversRange ==
    ASSUME NEW D, DOMAIN D \subseteq Instances, NEW f, NEW token \in Nat
    PROVE  Covers(List(D, f, token), D, f, token)
  BY ListStops, PageRange

\* Over data that does not change, the page a token leads to repeats nothing of the page
\* that gave it, and nothing lies between the two.
THEOREM PagesAdjoin ==
    ASSUME NEW D, DOMAIN D \subseteq Instances, NEW f, NEW token \in Nat,
           List(D, f, token).next # FirstPage
    PROVE  LET p == List(D, f, token)
               q == List(D, f, p.next)
           IN  /\ DOMAIN p.items \cap DOMAIN q.items = {}
               /\ DOMAIN p.items \cup DOMAIN q.items = {i \in Matching(D, f) :
                      token < Place[i] /\ (q.next = FirstPage \/ Place[i] <= q.next)}
  <1> DEFINE p == List(D, f, token)
             q == List(D, f, p.next)
  <1>1. p.next \in Nat /\ token < p.next
    BY PageCoversRange DEF Covers
  <1>2. DOMAIN p.items = {i \in Matching(D, f) : token < Place[i] /\ Place[i] <= p.next}
    BY PageCoversRange DEF Covers
  <1>3. /\ DOMAIN q.items = {i \in Matching(D, f) :
               p.next < Place[i] /\ (q.next = FirstPage \/ Place[i] <= q.next)}
        /\ q.next = FirstPage \/ (q.next \in Nat /\ p.next < q.next)
    BY <1>1, PageCoversRange DEF Covers
  <1>4. \A i \in Matching(D, f) : Place[i] \in Nat
    BY PlaceType DEF Matching
  <1> HIDE DEF p, q
  <1>5. DOMAIN p.items \cap DOMAIN q.items = {}
    BY <1>1, <1>2, <1>3, <1>4
  <1>6. \A i \in Matching(D, f) :
            \/ token < Place[i] /\ Place[i] <= p.next
            \/ p.next < Place[i] /\ (q.next = FirstPage \/ Place[i] <= q.next)
            <=> token < Place[i] /\ (q.next = FirstPage \/ Place[i] <= q.next)
    BY <1>1, <1>3, <1>4
  <1>7. DOMAIN p.items \cup DOMAIN q.items = {i \in Matching(D, f) :
            token < Place[i] /\ (q.next = FirstPage \/ Place[i] <= q.next)}
    BY <1>2, <1>3, <1>6
  <1> QED
    BY <1>5, <1>7 DEF p, q

\* A filtered page that is not full although more keys follow has reached the scan cap.
THEOREM ShortPageIsCapped ==
    ASSUME NEW D, DOMAIN D \subseteq Instances, NEW f, NEW token \in Nat, Filtered(f),
           List(D, f, token).next # FirstPage,
           ~(Cardinality(DOMAIN List(D, f, token).items) >= PageSize)
    PROVE  \E k \in Nat \ {0} :
              /\ Cardinality(Scanned(D, f, token, k)) >= MaxScan
              /\ DOMAIN List(D, f, token).items = Matched(D, f, token, k)
  <1>1. PICK k \in Nat \ {0} :
            Enough(D, f, token, k) /\ List(D, f, token) = Page(D, f, token, k)
    BY ListStops
  <1>2. DOMAIN List(D, f, token).items = Matched(D, f, token, k)
    BY <1>1 DEF Page
  <1>3. Scanned(D, f, token, k) # metaKeys(D, f, token)
    BY <1>1 DEF Page
  <1> QED
    BY <1>1, <1>2, <1>3 DEF Enough

-----------------------------------------------------------------------------
(* The invariant                                                           *)

\* The fields of the page's state, of a query's data and of a request.
PageFields ==
    {"status", "app", "input", "search", "page", "children", "store", "history", "offset",
     "selected", "dialog", "force", "banner", "defaulted"}

IsPage(u)  == DOMAIN u = PageFields
IsEntry(e) == DOMAIN e = {"items", "next", "loaded", "error"}
IsFetch(f) == DOMAIN f = {"key", "ans"} /\ IsEntry(f.ans)

Shapes ==
    /\ IsPage(ui)
    /\ \A k \in DOMAIN cache : IsEntry(cache[k])
    /\ \A f \in fetches : IsFetch(f)

\* What the current query holds has been shown.
HeldSeen == mounted => DOMAIN Entry(Key(ui)).items \subseteq seen

Inv == Shapes /\ HeldSeen /\ SelectionSeen

-----------------------------------------------------------------------------
(* Rendering                                                               *)

LEMMA EntryShape ==
    ASSUME Shapes, NEW k
    PROVE  IsEntry(Entry(k))
  BY DEF Shapes, Entry, IsEntry, Waiting

\* The rows on the page are rows of the current query.
LEMMA ItemsSeen ==
    ASSUME Inv, mounted
    PROVE  DOMAIN items \subseteq seen
  <1>1. DOMAIN NoItems = {}
    BY DEF NoItems
  <1>2. items = Entry(Key(ui)).items \/ items = NoItems
    BY DEF items
  <1> QED
    BY <1>1, <1>2 DEF Inv, HeldSeen

\* The store and the app may be replaced, nothing else that matters here.
LEMMA SettleKeeps ==
    ASSUME NEW u, IsPage(u)
    PROVE  /\ IsPage(settle(u))
           /\ settle(u).page = u.page /\ settle(u).selected = u.selected
           /\ settle(u).history = u.history
  BY DEF IsPage, PageFields, settle

LEMMA ObserveShape ==
    ASSUME NEW u, Shapes
    PROVE  \A f \in observe(u) : IsFetch(f)
  BY DEF observe, Shapes, IsFetch, IsEntry, Waiting

\* A handler may clear the selection, change the filter and say so, or keep the query and
\* select what was seen.
Selects(u, mixes) ==
    \/ u.selected = {}
    \/ mixes
    \/ mounted /\ Key(u) = Key(ui) /\ (u.selected \subseteq seen \/ mixed)

LEMMA RenderInv ==
    ASSUME Inv, NEW u, IsPage(u), NEW mixes \in BOOLEAN, Selects(u, mixes),
           Render(u, mixes), cache' = cache
    PROVE  Inv'
  <1>1. /\ IsPage(ui') /\ ui'.page = u.page /\ ui'.selected = u.selected
        /\ ui'.history = u.history
    BY SettleKeeps DEF Render
  <1>2. Shapes'
    <2>1. \A f \in fetches' : IsFetch(f)
      BY ObserveShape DEF Render, Inv
    <2> QED
      BY <1>1, <2>1 DEF Shapes, Inv
  <1>3. seen' = IF mounted /\ Key(ui') = Key(ui) THEN seen ELSE DOMAIN Entry(Key(ui')).items
    BY DEF Render
  <1>4. Entry(Key(ui))' = Entry(Key(ui'))
    BY DEF Entry, Key, KeyAt, Filter
  <1>5. HeldSeen'
    BY <1>3, <1>4 DEF HeldSeen, Inv
  <1>6. mixed' = (~Clean(ui') /\ (mixed \/ mixes \/ Filter(ui') # Filter(u)))
    BY DEF Render
  <1>7. Clean(ui') => ui'.selected = {}
    BY DEF Clean
  <1>8. Filter(ui') = Filter(u) => Key(ui') = Key(u)
    BY <1>1 DEF Key, KeyAt
  <1>9. ui'.selected \subseteq seen' \/ mixed'
    <2>1. CASE u.selected = {}
      BY <1>1, <2>1
    <2>2. CASE mixes \/ Filter(ui') # Filter(u)
      BY <1>6, <1>7, <2>2
    <2>3. CASE mounted /\ Key(u) = Key(ui) /\ Filter(ui') = Filter(u)
               /\ (u.selected \subseteq seen \/ mixed)
      <3>1. seen' = seen
        BY <1>3, <1>8, <2>3
      <3> QED
        BY <1>1, <1>6, <1>7, <2>3, <3>1
    <2> QED
      BY <2>1, <2>2, <2>3 DEF Selects
  <1> QED
    BY <1>2, <1>5, <1>9 DEF Inv, SelectionSeen

\* A step that leaves the page and the query client as they are.
LEMMA Still ==
    ASSUME Inv, UNCHANGED <<mounted, ui, cache, seen, mixed>>,
           \A f \in fetches' : IsFetch(f)
    PROVE  Inv'
  <1>1. Shapes'
    BY DEF Inv, Shapes
  <1>2. HeldSeen'
    BY DEF Inv, HeldSeen, Entry, Key, KeyAt, Filter
  <1>3. SelectionSeen'
    BY DEF Inv, SelectionSeen
  <1> QED
    BY <1>1, <1>2, <1>3 DEF Inv

-----------------------------------------------------------------------------
(* The user                                                                *)

\* Clearing the paging clears the selection.
LEMMA ResetInv ==
    ASSUME Inv, NEW u, IsPage(u), Render(resetPaging(u), FALSE), cache' = cache
    PROVE  Inv'
  <1>1. IsPage(resetPaging(u)) /\ resetPaging(u).selected = {}
    BY DEF IsPage, PageFields, resetPaging
  <1> QED
    BY <1>1, RenderInv DEF Selects

LEMMA MountShape ==
    ASSUME NEW link
    PROVE  IsPage(Mount(link)) /\ Mount(link).selected = {}
  BY DEF Mount, IsPage, PageFields

\* A handler that changes only the selection, the dialog or the banner.
LEMMA SameQueryInv ==
    ASSUME Inv, mounted, NEW u, IsPage(u), Render(u, FALSE), cache' = cache,
           Key(u) = Key(ui), u.selected \subseteq seen \/ mixed
    PROVE  Inv'
  BY RenderInv DEF Selects

LEMMA SetStatusInv == ASSUME Inv, NEW s, setStatus(s) PROVE Inv'
  <1>1. IsPage([ui EXCEPT !.status = s])
    BY DEF Inv, Shapes, IsPage, PageFields
  <1> QED
    BY <1>1, ResetInv DEF setStatus, Handle, User

LEMMA SelectAppInv == ASSUME Inv, NEW a, selectApp(a) PROVE Inv'
  <1>1. IsPage([ui EXCEPT !.app = a])
    BY DEF Inv, Shapes, IsPage, PageFields
  <1> QED
    BY <1>1, ResetInv DEF selectApp, Handle, User

LEMMA TypeSearchInv == ASSUME Inv, NEW s, typeSearch(s) PROVE Inv'
  <1>1. IsPage([ui EXCEPT !.input = s])
    BY DEF Inv, Shapes, IsPage, PageFields
  <1> QED
    BY <1>1, ResetInv DEF typeSearch, Handle, User

LEMMA ToggleChildrenInv == ASSUME Inv, toggleChildren PROVE Inv'
  <1>1. IsPage([ui EXCEPT !.children = ~@])
    BY DEF Inv, Shapes, IsPage, PageFields
  <1> QED
    BY <1>1, ResetInv DEF toggleChildren, Handle, User

LEMMA StoreChangeInv == ASSUME Inv, NEW s, onStoreChange(s) PROVE Inv'
  <1>1. IsPage([ui EXCEPT !.store = s, !.app = NoApp])
    BY DEF Inv, Shapes, IsPage, PageFields
  <1> QED
    BY <1>1, ResetInv DEF onStoreChange, User

\* Selecting keeps the query; the new selection is of rows on the page.
LEMMA SelectInv ==
    ASSUME Inv, NEW S, S \subseteq seen \/ mixed, Handle([ui EXCEPT !.selected = S])
    PROVE  Inv'
  <1> DEFINE u == [ui EXCEPT !.selected = S]
  <1>1. IsPage(u) /\ u.selected = S /\ Key(u) = Key(ui)
    BY DEF Inv, Shapes, IsPage, PageFields, Key, KeyAt, Filter
  <1> QED
    BY <1>1, SameQueryInv DEF Handle, User

LEMMA ToggleRowInv == ASSUME Inv, NEW i, toggleRow(i) PROVE Inv'
  <1> DEFINE S == IF i \in ui.selected THEN ui.selected \ {i} ELSE ui.selected \cup {i}
  <1>1. mounted /\ i \in DOMAIN items
    BY DEF toggleRow, Handle, User
  <1>2. S \subseteq seen \/ mixed
    BY <1>1, ItemsSeen DEF Inv, SelectionSeen
  <1>3. Handle([ui EXCEPT !.selected = S])
    BY DEF toggleRow, Inv, Shapes, IsPage, PageFields
  <1> QED
    BY <1>2, <1>3, SelectInv

LEMMA ToggleAllInv == ASSUME Inv, toggleAll PROVE Inv'
  <1> DEFINE S == IF Cardinality(ui.selected) = Cardinality(DOMAIN items) THEN {} ELSE DOMAIN items
  <1>1. mounted
    BY DEF toggleAll, Handle, User
  <1>2. S \subseteq seen \/ mixed
    BY <1>1, ItemsSeen
  <1>3. Handle([ui EXCEPT !.selected = S])
    BY DEF toggleAll, Inv, Shapes, IsPage, PageFields
  <1> QED
    BY <1>2, <1>3, SelectInv

LEMMA GoNextInv == ASSUME Inv, goNext PROVE Inv'
  <1> DEFINE u == [ui EXCEPT !.history = Append(@, [token |-> ui.page, offset |-> ui.offset]),
                             !.offset = @ + Cardinality(DOMAIN items),
                             !.page = nextToken, !.selected = {}]
  <1>1. IsPage(u) /\ u.selected = {}
    BY DEF Inv, Shapes, IsPage, PageFields
  <1> QED
    BY <1>1, RenderInv DEF goNext, Handle, User, Selects

LEMMA GoPrevInv == ASSUME Inv, goPrev PROVE Inv'
  <1> DEFINE u == [ui EXCEPT !.page = Last(ui.history).token, !.offset = Last(ui.history).offset,
                             !.history = Front(@), !.selected = {}]
  <1>1. IsPage(u) /\ u.selected = {}
    BY DEF Inv, Shapes, IsPage, PageFields
  <1> QED
    BY <1>1, RenderInv DEF goPrev, Handle, User, Selects

LEMMA DialogInv ==
    ASSUME Inv, NEW u, IsPage(u), Dialog(u), u.selected = ui.selected, Key(u) = Key(ui)
    PROVE  Inv'
  <1>1. mounted /\ Render(u, FALSE) /\ cache' = cache
    BY DEF Dialog, User
  <1>2. u.selected \subseteq seen \/ mixed
    BY <1>1 DEF Inv, SelectionSeen
  <1> QED
    BY <1>1, <1>2, SameQueryInv

LEMMA DialogsInv ==
    ASSUME Inv, dismissBanner \/ toggleForce \/ onCancel \/ \E force \in BOOLEAN : openDialog(force)
    PROVE  Inv'
  <1>1. PICK u : /\ Dialog(u)
                 /\ \/ u = [ui EXCEPT !.banner = <<>>]
                    \/ u = [ui EXCEPT !.force = ~@]
                    \/ u = [ui EXCEPT !.dialog = FALSE, !.force = FALSE]
                    \/ \E force \in BOOLEAN :
                           u = [ui EXCEPT !.dialog = TRUE, !.force = force, !.banner = <<>>]
    BY DEF dismissBanner, toggleForce, onCancel, openDialog, close
  <1>2. IsPage(u) /\ u.selected = ui.selected /\ Key(u) = Key(ui)
    BY <1>1 DEF Inv, Shapes, IsPage, PageFields, Key, KeyAt, Filter
  <1> QED
    BY <1>1, <1>2, DialogInv

LEMMA ConfirmInv == ASSUME Inv, onConfirmRemove PROVE Inv'
  <1>1. UNCHANGED <<mounted, ui, cache, seen, mixed, fetches>>
    BY DEF onConfirmRemove, User
  <1> QED
    BY <1>1, Still DEF Inv, Shapes

LEMMA LeaveInv == ASSUME Inv, Leave PROVE Inv'
  <1>1. ~mounted' /\ ui' = Mount(Mirror(ui)) /\ UNCHANGED <<cache, fetches>>
    BY DEF Leave, User
  <1>2. Shapes'
    BY <1>1, MountShape DEF Inv, Shapes
  <1> QED
    BY <1>1, <1>2 DEF Inv, HeldSeen, SelectionSeen

-----------------------------------------------------------------------------
(* Timers and answers                                                      *)

LEMMA DebounceInv == ASSUME Inv, Debounce PROVE Inv'
  <1>1. IsPage([ui EXCEPT !.search = ui.input])
    BY DEF Inv, Shapes, IsPage, PageFields
  <1> QED
    BY <1>1, RenderInv DEF Debounce, Selects

LEMMA ReturnInv == ASSUME Inv, Return PROVE Inv'
  <1>1. PICK link : Render(Mount(link), FALSE) /\ cache' = cache
    BY DEF Return
  <1> QED
    BY <1>1, MountShape, RenderInv DEF Selects

LEMMA LearnInv ==
    ASSUME Inv, learnStores \/ learnApps \/ learnAppIds
    PROVE  Inv'
  <1>1. mounted /\ Render(ui, FALSE) /\ cache' = cache
    BY DEF learnStores, learnApps, learnAppIds, Learn
  <1>2. IsPage(ui) /\ (ui.selected \subseteq seen \/ mixed)
    BY <1>1 DEF Inv, Shapes, SelectionSeen
  <1> QED
    BY <1>1, <1>2, SameQueryInv

LEMMA PollInv == ASSUME Inv, Poll PROVE Inv'
  <1>1. UNCHANGED <<mounted, ui, cache, seen, mixed>>
    BY DEF Poll, Requests, page, ghosts
  <1>2. \A f \in fetches' : IsFetch(f)
    BY DEF Poll, Inv, Shapes, IsFetch, IsEntry, Waiting
  <1> QED
    BY <1>1, <1>2, Still

LEMMA AnswerInv == ASSUME Inv, NEW f \in fetches, Answer(f) PROVE Inv'
  <1>1. UNCHANGED <<mounted, ui, cache, seen, mixed>>
    BY DEF Answer, Requests, page, ghosts
  <1>2. IsEntry(Answers(f.key)) /\ IsEntry(Failed)
    BY DEF Answers, Failed, Waiting, IsEntry
  <1>3. PICK a : IsEntry(a) /\ fetches' = (fetches \ {f}) \cup {[f EXCEPT !.ans = a]}
    BY <1>2 DEF Answer
  <1>4. IsFetch([f EXCEPT !.ans = a])
    BY <1>3 DEF Inv, Shapes, IsFetch
  <1>5. \A g \in fetches' : IsFetch(g)
    BY <1>3, <1>4 DEF Inv, Shapes
  <1> QED
    BY <1>1, <1>5, Still

\* What arrives for the current query is seen; what arrives for another changes nothing here.
LEMMA ArriveInv == ASSUME Inv, NEW f \in fetches, Arrive(f) PROVE Inv'
  <1> DEFINE entry == IF f.ans.error THEN [Entry(f.key) EXCEPT !.error = TRUE] ELSE f.ans
  <1>1. /\ fetches' = fetches \ {f}
        /\ cache' = [k \in DOMAIN cache \cup {f.key} |-> IF k = f.key THEN entry ELSE cache[k]]
        /\ seen' = IF mounted /\ f.key = Key(ui) THEN seen \cup DOMAIN entry.items ELSE seen
        /\ UNCHANGED <<mounted, ui, mixed>>
    BY DEF Arrive, Requests, page
  <1>2. IsEntry(entry)
    BY EntryShape DEF Inv, Shapes, IsFetch, IsEntry
  <1> HIDE DEF entry
  <1>3. /\ DOMAIN cache' = DOMAIN cache \cup {f.key}
        /\ \A k \in DOMAIN cache' : cache'[k] = IF k = f.key THEN entry ELSE cache[k]
    BY <1>1
  <1>4. Shapes'
    BY <1>1, <1>2, <1>3 DEF Inv, Shapes
  <1>5. Entry(Key(ui))' = IF f.key = Key(ui) THEN entry ELSE Entry(Key(ui))
    BY <1>1, <1>3 DEF Entry, Key, KeyAt, Filter
  <1>6. HeldSeen'
    BY <1>1, <1>5 DEF Inv, HeldSeen
  <1>7. SelectionSeen'
    BY <1>1 DEF Inv, SelectionSeen
  <1> QED
    BY <1>4, <1>6, <1>7 DEF Inv

-----------------------------------------------------------------------------
(* Removal requests and the world                                          *)

LEMMA ServerStepInv ==
    ASSUME Inv, NEW n \in DOMAIN posts, Resolve(n) \/ \E i \in Instances : RemoveOne(n, i)
    PROVE  Inv'
  <1>1. UNCHANGED <<mounted, ui, cache, fetches, seen, mixed>>
    BY DEF Resolve, RemoveOne, Requests, page, net, ghosts
  <1> QED
    BY <1>1, Still DEF Inv, Shapes

\* A callback closes the dialog, and may clear the selection.
LEMMA HearInv ==
    ASSUME Inv, NEW n, NEW u, IsPage(u), Key(u) = Key(ui),
           u.selected = {} \/ u.selected = ui.selected,
           Hear(n, u), \A f \in fetches' : IsFetch(f)
    PROVE  Inv'
  <1>1. /\ ui' = u \/ ui' = ui
        /\ UNCHANGED <<mounted, cache, seen>> /\ mixed' = (mixed /\ ~Clean(ui'))
    BY DEF Hear
  <1>2. IsPage(ui') /\ Key(ui') = Key(ui)
    BY <1>1 DEF Inv, Shapes
  <1>3. Shapes'
    BY <1>1, <1>2 DEF Inv, Shapes
  <1>4. Entry(Key(ui))' = Entry(Key(ui))
    BY <1>1, <1>2 DEF Entry, Key, KeyAt, Filter
  <1>5. HeldSeen'
    BY <1>1, <1>4 DEF Inv, HeldSeen
  <1>6. Clean(ui') => ui'.selected = {}
    BY DEF Clean
  <1>7. SelectionSeen'
    BY <1>1, <1>6 DEF Inv, SelectionSeen
  <1> QED
    BY <1>3, <1>5, <1>7 DEF Inv

LEMMA ReplyInv == ASSUME Inv, NEW n \in DOMAIN posts, Reply(n) PROVE Inv'
  <1> DEFINE u == [close(ui) EXCEPT !.selected = {},
                       !.banner = <<Cardinality(posts[n].ok), Cardinality(posts[n].bad)>>]
  <1>1. IsPage(u) /\ u.selected = {} /\ Key(u) = Key(ui)
    BY DEF Inv, Shapes, IsPage, PageFields, close, Key, KeyAt, Filter
  <1>2. Hear(n, u) /\ fetches' = invalidate
    BY DEF Reply
  <1>3. \A f \in fetches' : IsFetch(f)
    BY <1>2 DEF Inv, Shapes, invalidate, IsFetch, IsEntry, Waiting
  <1> QED
    BY <1>1, <1>2, <1>3, HearInv

LEMMA FailInv == ASSUME Inv, NEW n \in DOMAIN posts, Fail(n) PROVE Inv'
  <1>1. IsPage(close(ui)) /\ close(ui).selected = ui.selected /\ Key(close(ui)) = Key(ui)
    BY DEF Inv, Shapes, IsPage, PageFields, close, Key, KeyAt, Filter
  <1>2. Hear(n, close(ui)) /\ fetches' = fetches
    BY DEF Fail, onError
  <1> QED
    BY <1>1, <1>2, HearInv DEF Inv, Shapes

LEMMA WorldInv ==
    ASSUME Inv, Relist \/ \E g \in Groups, i \in Movers : Finish(g, i) \/ Start(g, i)
    PROVE  Inv'
  <1>1. UNCHANGED <<mounted, ui, cache, fetches, seen, mixed>>
    BY DEF Relist, Finish, Start, World, page, net
  <1> QED
    BY <1>1, Still DEF Inv, Shapes

-----------------------------------------------------------------------------
(* The theorem                                                             *)

LEMMA InitInv == Init => Inv
  <1> SUFFICES ASSUME Init PROVE Inv
    OBVIOUS
  <1>1. IsPage(ui)
    BY MountShape DEF Init
  <1> QED
    BY <1>1 DEF Init, Inv, Shapes, HeldSeen, SelectionSeen

LEMMA ActInv == ASSUME Inv, Act PROVE Inv'
  <1>1. CASE Header
    BY <1>1, StoreChangeInv DEF Header
  <1>2. CASE dismissBanner \/ SelectionBar
    BY <1>2, DialogsInv DEF SelectionBar
  <1>3. CASE Filters
    BY <1>3, SetStatusInv, SelectAppInv, TypeSearchInv, ToggleChildrenInv DEF Filters
  <1>4. CASE Table
    BY <1>4, ToggleAllInv, LeaveInv, ToggleRowInv DEF Table
  <1>5. CASE Pager
    BY <1>5, GoPrevInv, GoNextInv DEF Pager
  <1>6. CASE ConfirmRemoveDialog
    BY <1>6, DialogsInv, ConfirmInv DEF ConfirmRemoveDialog
  <1> QED
    BY <1>1, <1>2, <1>3, <1>4, <1>5, <1>6 DEF Act

LEMMA NextInv == Inv /\ [Next]_vars => Inv'
  <1> SUFFICES ASSUME Inv, [Next]_vars PROVE Inv'
    OBVIOUS
  <1>1. CASE Act
    BY <1>1, ActInv
  <1>2. CASE Debounce \/ Return
    BY <1>2, DebounceInv, ReturnInv
  <1>3. CASE learnStores \/ learnApps \/ learnAppIds
    BY <1>3, LearnInv
  <1>4. CASE Poll \/ \E f \in fetches : Answer(f) \/ Arrive(f)
    BY <1>4, PollInv, AnswerInv, ArriveInv
  <1>5. CASE Removing
    BY <1>5, ServerStepInv, ReplyInv, FailInv DEF Removing
  <1>6. CASE Relist \/ \E g \in Groups, i \in Movers : Finish(g, i) \/ Start(g, i)
    BY <1>6, WorldInv
  <1>7. CASE UNCHANGED vars
    <2>1. UNCHANGED <<mounted, ui, cache, fetches, seen, mixed>>
      BY <1>7 DEF vars, page, net, ghosts
    <2> QED
      BY <2>1, Still DEF Inv, Shapes
  <1> QED
    BY <1>1, <1>2, <1>3, <1>4, <1>5, <1>6, <1>7 DEF Next

\* What the removal dialog targets was shown on the page under the store, filter and page
\* of the moment, for any number of stores, instances, requests and steps, unless the
\* filter changed in one of the ways that reset nothing (resetPaging in Workflows.tsx).
THEOREM SelectedWasSeen == Spec => []SelectionSeen
  <1>1. Inv => SelectionSeen
    BY DEF Inv
  <1> QED
    BY <1>1, InitInv, NextInv, PTL DEF Spec

-----------------------------------------------------------------------------
(* Types                                                                   *)

Data == UNION {[I -> Status] : I \in SUBSET Instances}

Offsets == [token : Nat, offset : Nat]

TypedLink(l) ==
    l.app \in Apps \cup {NoApp} /\ l.search \in Searches /\ l.page \in Nat

TypedPage(u) ==
    /\ u.status \in ALL_STATUSES \cup {NoStatus}
    /\ u.app \in Apps \cup {NoApp}
    /\ u.input \in Searches /\ u.search \in Searches
    /\ u.store \in Stores \cup {NoStore}
    /\ u.page \in Nat /\ u.offset \in Nat /\ u.history \in Seq(Offsets)
    /\ u.selected \in SUBSET Instances
    /\ u.force \in BOOLEAN

RemovalRequests ==
    [store : Stores \cup {NoStore}, force : BOOLEAN, ids : SUBSET Instances,
     step : {"sent", "refused", "removing"}, heard : BOOLEAN,
     targets : UNION {[I -> {"force", "purge", "terminate_then_purge"}] : I \in SUBSET Instances},
     ok : SUBSET Instances, bad : SUBSET Instances]

TypedQuery(k) == k.page \in Nat /\ k.filter.store \in Stores

\* What a query has brought, or nothing yet.
TypedEntry(e) ==
    /\ DOMAIN e.items \subseteq Instances /\ e.next \in Nat
    /\ ~e.loaded => DOMAIN e.items = {} /\ e.next = FirstPage

TypedServer == db \in [Groups -> Data] /\ stores \in StoreLists

TypedClient ==
    /\ TypedPage(ui) /\ TypedLink(url) /\ saved \in Stores \cup {NoStore}
    /\ storeList.list \in StoreLists \cup {<<>>}
    /\ appIds \in [Stores -> SUBSET (Apps \cup {NoApp})]

TypedRemovals == posts \in Seq(RemovalRequests) /\ live \in 0..Len(posts)

\* At most one request is in flight for a query.
TypedNet ==
    /\ \A f, h \in fetches : f.key = h.key => f = h
    /\ \A f \in fetches : TypedQuery(f.key) /\ TypedEntry(f.ans)
    /\ \A k \in DOMAIN cache : TypedEntry(cache[k])

Typed == Shapes /\ TypedServer /\ TypedClient /\ TypedRemovals /\ TypedNet

\* What a list of stores elects from some of its positions is a store.
LEMMA ActiveIsStore ==
    ASSUME NEW l \in StoreLists, NEW P \in SUBSET DOMAIN l, P # {}
    PROVE  Active(l, P) \in Stores
  <1> DEFINE marked == {n \in P : l[n].active}
             S == IF marked = {} THEN P ELSE marked
             First(n) == n \in S /\ \A m \in S : n <= m
  <1>1. l \in Seq([id : Stores, active : BOOLEAN])
    BY WorkflowsAssumption
  <1>2. DOMAIN l \subseteq Nat /\ \A n \in DOMAIN l : l[n].id \in Stores
    <2>1. Len(l) \in Nat /\ DOMAIN l = 1..Len(l)
      BY <1>1
    <2>2. \A n \in 1..Len(l) : l[n] \in [id : Stores, active : BOOLEAN]
      BY <1>1, ElementOfSeq
    <2> QED
      BY <2>1, <2>2
  <1>3. S \in SUBSET DOMAIN l /\ S \in SUBSET Nat /\ S # {}
    BY <1>2
  <1>4. \E n \in S : \A m \in S : n <= m
    <2> HIDE DEF S
    <2> QED
      BY <1>3, SmallestOfNat
  <1> DEFINE c == CHOOSE n \in S : \A m \in S : n <= m
  <1>5. c \in DOMAIN l
    <2> HIDE DEF S
    <2> QED
      BY <1>3, <1>4
  <1>6. Active(l, P) = l[c].id
    BY DEF Active
  <1> QED
    BY <1>2, <1>5, <1>6

\* So the selector offers stores, and proposes one if there is any.
LEMMA SelectorOffersStores ==
    ASSUME NEW l \in StoreLists \cup {<<>>}
    PROVE  Selector[l].shown \subseteq Stores /\ Selector[l].active \in Stores \cup {NoStore}
  <1>1. /\ Selector[l].shown = dedupeStores(l)
        /\ Selector[l].active = IF l = <<>> THEN NoStore ELSE Active(l, DOMAIN l)
    BY DEF Selector
  <1>2. CASE l = <<>>
    BY <1>1, <1>2 DEF dedupeStores
  <1>3. CASE l # <<>>
    <2>1. l \in StoreLists /\ l \in Seq([id : Stores, active : BOOLEAN])
      BY <1>3, WorkflowsAssumption
    <2>2. DOMAIN l # {}
      <3>1. Len(l) \in Nat \ {0} /\ DOMAIN l = 1..Len(l)
        BY <1>3, <2>1, EmptySeq, LenProperties
      <3>2. 1 \in 1..Len(l)
        BY <3>1
      <3> QED
        BY <3>1, <3>2
    <2>3. Active(l, DOMAIN l) \in Stores
      BY <2>1, <2>2, ActiveIsStore
    <2>4. ASSUME NEW n \in DOMAIN l
          PROVE  Active(l, {m \in DOMAIN l : Group[l[m].id] = Group[l[n].id]}) \in Stores
      <3> DEFINE P == {m \in DOMAIN l : Group[l[m].id] = Group[l[n].id]}
      <3>1. P \in SUBSET DOMAIN l /\ n \in P
        OBVIOUS
      <3> HIDE DEF P
      <3>2. Active(l, P) \in Stores
        BY <2>1, <3>1, ActiveIsStore
      <3> QED
        BY <3>2 DEF P
    <2> QED
      BY <1>1, <1>3, <2>3, <2>4 DEF dedupeStores
  <1> QED
    BY <1>2, <1>3

\* What the effects after a handler rely on.
Known ==
    /\ storeList.list \in StoreLists \cup {<<>>}
    /\ appIds \in [Stores -> SUBSET (Apps \cup {NoApp})]
    /\ saved \in Stores \cup {NoStore}

LEMMA SettleTyped ==
    ASSUME Known', NEW u, IsPage(u), TypedPage(u)
    PROVE  TypedPage(settle(u))
  <1> DEFINE s == resolveStore(u.store)
             app == IF ~u.defaulted /\ u.app = NoApp /\ Decided(s) THEN defaultApp(s) ELSE u.app
             v == [u EXCEPT !.store = s,
                            !.defaulted = @ \/ u.app # NoApp \/ Decided(s),
                            !.app = app]
  <1>1. s \in Stores \cup {NoStore}
    BY SelectorOffersStores DEF Known, TypedPage, resolveStore
  <1>2. Decided(s) => defaultApp(s) \in Apps \cup {NoApp}
    BY <1>1 DEF Decided, defaultApp, Known
  <1>3. app \in Apps \cup {NoApp}
    BY <1>2 DEF TypedPage
  <1>4. settle(u) = v
    BY DEF settle, IsPage, PageFields
  <1> HIDE DEF s, app
  <1>5. TypedPage(v)
    BY <1>1, <1>3 DEF TypedPage, IsPage, PageFields
  <1> QED
    BY <1>4, <1>5 DEF v

LEMMA KeyTyped ==
    ASSUME NEW u, TypedPage(u), u.store # NoStore
    PROVE  TypedQuery(Key(u))
  BY DEF TypedPage, TypedQuery, Key, KeyAt, Filter

LEMMA WaitingTyped == TypedEntry(Waiting) /\ TypedEntry(Failed)
  BY DEF TypedEntry, Waiting, Failed, FirstPage

LEMMA EntryTyped ==
    ASSUME TypedNet, NEW k
    PROVE  TypedEntry(Entry(k))
  BY WaitingTyped DEF TypedNet, Entry

\* A request sent for a query that has none in flight.
LEMMA AskTyped ==
    ASSUME TypedNet, NEW k, TypedQuery(k), NEW F \in SUBSET fetches, \A f \in F : f.key # k,
           fetches' = F \cup {[key |-> k, ans |-> Waiting]}, cache' = cache
    PROVE  TypedNet'
  BY WaitingTyped DEF TypedNet

LEMMA RenderTyped ==
    ASSUME TypedNet, Known', NEW u, IsPage(u), TypedPage(u), NEW mixes,
           Render(u, mixes), cache' = cache
    PROVE  TypedPage(ui') /\ TypedNet'
  <1>1. TypedPage(ui')
    BY SettleTyped DEF Render
  <1>2. fetches' = observe(ui')
    BY DEF Render
  <1>3. CASE fetches' = fetches
    BY <1>1, <1>3 DEF TypedNet
  <1>4. CASE fetches' # fetches
    <2>1. ui'.store # NoStore /\ ~InFlight(Key(ui'))
      BY <1>2, <1>4 DEF observe
    <2>2. fetches' = fetches \cup {[key |-> Key(ui'), ans |-> Waiting]}
      BY <1>2, <1>4 DEF observe
    <2>3. TypedQuery(Key(ui')) /\ \A f \in fetches : f.key # Key(ui')
      BY <1>1, <2>1, KeyTyped DEF InFlight
    <2> QED
      BY <1>1, <2>2, <2>3, AskTyped
  <1> QED
    BY <1>1, <1>3, <1>4

\* A handler of the page that leaves the rest of the client and the server alone.
LEMMA HandlerTyped ==
    ASSUME Typed, NEW u, IsPage(u), TypedPage(u), NEW mixes, Render(u, mixes),
           UNCHANGED <<cache, db, stores, storeList, appIds>>,
           saved' \in Stores \cup {NoStore}, TypedLink(url'),
           UNCHANGED posts, live' \in {live, 0}, Shapes'
    PROVE  Typed'
  <1>1. Known'
    BY DEF Known, Typed, TypedClient
  <1>2. TypedPage(ui') /\ TypedNet'
    BY <1>1, RenderTyped DEF Typed
  <1>3. TypedServer'
    BY DEF Typed, TypedServer
  <1>4. TypedClient'
    BY <1>1, <1>2 DEF TypedClient, Known
  <1>5. TypedRemovals'
    <2>1. Len(posts) \in Nat
      BY LenProperties DEF Typed, TypedRemovals
    <2> QED
      BY <2>1 DEF Typed, TypedRemovals
  <1> QED
    BY <1>2, <1>3, <1>4, <1>5 DEF Typed

\* Most handlers leave the address and the persisted store alone too.
LEMMA HandleTyped ==
    ASSUME Typed, NEW u, IsPage(u), TypedPage(u), NEW mixes, Render(u, mixes),
           UNCHANGED <<cache, db, stores, storeList, appIds, saved, url, posts, live>>, Shapes'
    PROVE  Typed'
  <1>1. saved' \in Stores \cup {NoStore} /\ TypedLink(url')
    BY DEF Typed, TypedClient
  <1> QED
    BY <1>1, HandlerTyped

LEMMA ResetTyped ==
    ASSUME NEW u, IsPage(u), TypedPage(u)
    PROVE  IsPage(resetPaging(u)) /\ TypedPage(resetPaging(u))
  <1>1. IsPage(resetPaging(u))
    BY DEF IsPage, PageFields, resetPaging
  <1>2. <<>> \in Seq(Offsets)
    BY EmptySeq
  <1>3. TypedPage(resetPaging(u))
    BY <1>2 DEF IsPage, PageFields, resetPaging, TypedPage, FirstPage
  <1> QED
    BY <1>1, <1>3

LEMMA MountTyped ==
    ASSUME NEW l, TypedLink(l)
    PROVE  TypedPage(Mount(l))
  <1>1. <<>> \in Seq(Offsets)
    BY EmptySeq
  <1> QED
    BY <1>1 DEF TypedLink, TypedPage, Mount

\* The rows on the page, and the token of the next one.
LEMMA ShownTyped ==
    ASSUME Typed
    PROVE  DOMAIN items \in SUBSET Instances /\ Cardinality(DOMAIN items) \in Nat /\ nextToken \in Nat
  <1>1. TypedEntry(Entry(Key(ui)))
    BY EntryTyped DEF Typed
  <1>2. DOMAIN NoItems = {}
    BY DEF NoItems
  <1>3. DOMAIN items \in SUBSET Instances
    BY <1>1, <1>2 DEF items, TypedEntry
  <1>4. Cardinality(DOMAIN items) \in Nat
    BY <1>3, ServiceAssumption, FS_Subset, FS_CardinalityType
  <1> QED
    BY <1>1, <1>3, <1>4 DEF nextToken, TypedEntry

\* A filter handler resets the paging of the page it is given.
LEMMA FilterTyped ==
    ASSUME Typed, NEW u, IsPage(u), TypedPage(u), Handle(resetPaging(u)), Shapes'
    PROVE  Typed'
  <1>1. IsPage(resetPaging(u)) /\ TypedPage(resetPaging(u))
    BY ResetTyped
  <1>2. /\ Render(resetPaging(u), FALSE)
        /\ UNCHANGED <<cache, db, stores, storeList, appIds, saved, url, posts, live>>
    BY DEF Handle, User, server, known, removal
  <1> QED
    BY <1>1, <1>2, HandleTyped

LEMMA FiltersTyped ==
    ASSUME Typed, Filters, Shapes'
    PROVE  Typed'
  <1>1. IsPage(ui) /\ TypedPage(ui)
    BY DEF Typed, Shapes, TypedClient
  <1>2. ASSUME NEW s \in Offered, setStatus(s) PROVE Typed'
    <2>1. IsPage([ui EXCEPT !.status = s]) /\ TypedPage([ui EXCEPT !.status = s])
      BY <1>1, WorkflowsAssumption DEF IsPage, PageFields, TypedPage
    <2> QED
      BY <1>2, <2>1, FilterTyped DEF setStatus
  <1>3. ASSUME NEW a \in Apps \cup {NoApp}, selectApp(a) PROVE Typed'
    <2>1. IsPage([ui EXCEPT !.app = a]) /\ TypedPage([ui EXCEPT !.app = a])
      BY <1>1 DEF IsPage, PageFields, TypedPage
    <2> QED
      BY <1>3, <2>1, FilterTyped DEF selectApp
  <1>4. ASSUME NEW s \in Searches, typeSearch(s) PROVE Typed'
    <2>1. IsPage([ui EXCEPT !.input = s]) /\ TypedPage([ui EXCEPT !.input = s])
      BY <1>1 DEF IsPage, PageFields, TypedPage
    <2> QED
      BY <1>4, <2>1, FilterTyped DEF typeSearch
  <1>5. ASSUME toggleChildren PROVE Typed'
    <2>1. IsPage([ui EXCEPT !.children = ~@]) /\ TypedPage([ui EXCEPT !.children = ~@])
      BY <1>1 DEF IsPage, PageFields, TypedPage
    <2> QED
      BY <1>5, <2>1, FilterTyped DEF toggleChildren
  <1> QED
    BY <1>2, <1>3, <1>4, <1>5 DEF Filters

LEMMA StoreChangeTyped ==
    ASSUME Typed, NEW s \in Stores, onStoreChange(s), Shapes'
    PROVE  Typed'
  <1> DEFINE u == [ui EXCEPT !.store = s, !.app = NoApp]
  <1>1. IsPage(u) /\ TypedPage(u)
    BY DEF Typed, Shapes, TypedClient, IsPage, PageFields, TypedPage
  <1>2. IsPage(resetPaging(u)) /\ TypedPage(resetPaging(u))
    BY <1>1, ResetTyped
  <1>3. /\ Render(resetPaging(u), FALSE)
        /\ UNCHANGED <<cache, db, stores, storeList, appIds, url, posts, live>>
        /\ saved' = s
    BY DEF onStoreChange, User, server, known, removal
  <1>4. TypedLink(url') /\ live' \in {live, 0} /\ saved' \in Stores \cup {NoStore}
    BY <1>3 DEF Typed, TypedClient
  <1> QED
    BY <1>2, <1>3, <1>4, HandlerTyped

\* Ticking rows and turning pages.
LEMMA TurnTyped ==
    ASSUME Typed, toggleAll \/ goNext \/ goPrev \/ \E i \in Instances : toggleRow(i), Shapes'
    PROVE  Typed'
  <1>1. IsPage(ui) /\ TypedPage(ui)
    BY DEF Typed, Shapes, TypedClient
  <1>2. ASSUME NEW u, IsPage(u), TypedPage(u), Handle(u)
        PROVE  Typed'
    BY <1>2, HandleTyped DEF Handle, User, server, known, removal
  <1>3. ASSUME NEW S \in SUBSET Instances
        PROVE  IsPage([ui EXCEPT !.selected = S]) /\ TypedPage([ui EXCEPT !.selected = S])
    BY <1>1 DEF IsPage, PageFields, TypedPage
  <1>4. CASE toggleAll
    BY <1>2, <1>3, <1>4, ShownTyped DEF toggleAll
  <1>5. ASSUME NEW i \in Instances, toggleRow(i) PROVE Typed'
    <2>1. ui.selected \in SUBSET Instances
      BY <1>1 DEF TypedPage
    <2> DEFINE S == IF i \in ui.selected THEN ui.selected \ {i} ELSE ui.selected \cup {i}
    <2>2. S \in SUBSET Instances
      BY <2>1
    <2>3. Handle([ui EXCEPT !.selected = S])
      BY <1>1, <1>5 DEF toggleRow, IsPage, PageFields
    <2> HIDE DEF S
    <2> QED
      BY <1>2, <1>3, <2>2, <2>3
  <1>6. CASE goNext
    <2> DEFINE h == Append(ui.history, [token |-> ui.page, offset |-> ui.offset])
               o == ui.offset + Cardinality(DOMAIN items)
               u == [ui EXCEPT !.history = h, !.offset = o, !.page = nextToken, !.selected = {}]
    <2>1. h \in Seq(Offsets) /\ o \in Nat /\ nextToken \in Nat
      BY <1>1, ShownTyped DEF TypedPage, Offsets
    <2>2. Handle(u)
      BY <1>1, <1>6 DEF goNext, IsPage, PageFields
    <2> HIDE DEF h, o
    <2>3. IsPage(u) /\ TypedPage(u)
      BY <1>1, <2>1 DEF IsPage, PageFields, TypedPage
    <2> QED
      BY <1>2, <2>2, <2>3
  <1>7. CASE goPrev
    <2> DEFINE l == Last(ui.history)
               h == Front(ui.history)
               u == [ui EXCEPT !.page = l.token, !.offset = l.offset, !.history = h, !.selected = {}]
    <2>1. ui.history \in Seq(Offsets) /\ ui.history # <<>>
      BY <1>1, <1>7 DEF TypedPage, goPrev
    <2>2. Len(ui.history) \in Nat \ {0}
      BY <2>1, EmptySeq
    <2>3. l \in Offsets /\ h \in Seq(Offsets)
      BY <2>1, <2>2 DEF Last, Front
    <2>4. l.token \in Nat /\ l.offset \in Nat
      BY <2>3 DEF Offsets
    <2>5. Handle(u)
      BY <1>1, <1>7 DEF goPrev, IsPage, PageFields
    <2> HIDE DEF l, h
    <2>6. IsPage(u) /\ TypedPage(u)
      BY <1>1, <2>3, <2>4 DEF IsPage, PageFields, TypedPage
    <2> QED
      BY <1>2, <2>5, <2>6
  <1> QED
    BY <1>4, <1>5, <1>6, <1>7

LEMMA DialogsTyped ==
    ASSUME Typed, dismissBanner \/ toggleForce \/ onCancel \/ \E force \in BOOLEAN : openDialog(force),
           Shapes'
    PROVE  Typed'
  <1>1. IsPage(ui) /\ TypedPage(ui)
    BY DEF Typed, Shapes, TypedClient
  <1>2. ASSUME NEW u, IsPage(u), TypedPage(u), Dialog(u)
        PROVE  Typed'
    BY <1>2, HandleTyped DEF Dialog, User, server, known, removal
  <1>3. PICK u : /\ Dialog(u)
                 /\ \/ u = [ui EXCEPT !.banner = <<>>]
                    \/ u = [ui EXCEPT !.force = ~@]
                    \/ u = [ui EXCEPT !.dialog = FALSE, !.force = FALSE]
                    \/ \E force \in BOOLEAN :
                           u = [ui EXCEPT !.dialog = TRUE, !.force = force, !.banner = <<>>]
    BY DEF dismissBanner, toggleForce, onCancel, openDialog, close
  <1>4. IsPage(u) /\ TypedPage(u)
    BY <1>1, <1>3 DEF IsPage, PageFields, TypedPage
  <1> QED
    BY <1>2, <1>3, <1>4

LEMMA ConfirmTyped ==
    ASSUME Typed, onConfirmRemove, Shapes'
    PROVE  Typed'
  <1> DEFINE p == [store |-> ui.store, force |-> ui.force, ids |-> ui.selected,
                   step |-> "sent", heard |-> FALSE, targets |-> NoItems, ok |-> {}, bad |-> {}]
  <1>1. /\ UNCHANGED <<ui, url, saved, storeList, appIds, db, stores, cache, fetches>>
        /\ posts' = Append(posts, p) /\ live' = Len(posts')
    BY DEF onConfirmRemove, User, server, known
  <1>2. NoItems \in [{} -> {"force", "purge", "terminate_then_purge"}]
    BY DEF NoItems
  <1>3. p \in RemovalRequests
    <2>1. /\ ui.store \in Stores \cup {NoStore} /\ ui.force \in BOOLEAN
          /\ ui.selected \in SUBSET Instances
      BY DEF Typed, TypedClient, TypedPage
    <2>2. NoItems \in UNION {[I -> {"force", "purge", "terminate_then_purge"}] : I \in SUBSET Instances}
      BY <1>2
    <2> QED
      BY <2>1, <2>2 DEF RemovalRequests
  <1> HIDE DEF p
  <1>4. TypedRemovals'
    BY <1>1, <1>3, AppendProperties DEF Typed, TypedRemovals
  <1>5. TypedServer' /\ TypedClient' /\ TypedNet'
    BY <1>1 DEF Typed, TypedServer, TypedClient, TypedNet
  <1> QED
    BY <1>4, <1>5 DEF Typed

LEMMA LeaveTyped ==
    ASSUME Typed, Leave, Shapes'
    PROVE  Typed'
  <1>1. /\ ui' = Mount(Mirror(ui)) /\ url' = Mirror(ui) /\ live' = 0
        /\ UNCHANGED <<saved, storeList, appIds, db, stores, cache, fetches, posts>>
    BY DEF Leave, User, server, known
  <1>2. TypedLink(Mirror(ui))
    BY DEF Typed, TypedClient, TypedPage, TypedLink, Mirror
  <1>3. TypedPage(ui') /\ TypedLink(url')
    BY <1>1, <1>2, MountTyped
  <1>4. TypedClient'
    BY <1>1, <1>3 DEF Typed, TypedClient
  <1>5. TypedRemovals'
    BY <1>1, LenProperties DEF Typed, TypedRemovals
  <1>6. TypedServer' /\ TypedNet'
    BY <1>1 DEF Typed, TypedServer, TypedNet
  <1> QED
    BY <1>4, <1>5, <1>6 DEF Typed

LEMMA ActTyped ==
    ASSUME Typed, Act, Shapes'
    PROVE  Typed'
  <1>1. CASE Header
    BY <1>1, StoreChangeTyped DEF Header
  <1>2. CASE dismissBanner \/ SelectionBar
    BY <1>2, DialogsTyped DEF SelectionBar
  <1>3. CASE Filters
    BY <1>3, FiltersTyped
  <1>4. CASE Table
    BY <1>4, TurnTyped, LeaveTyped DEF Table
  <1>5. CASE Pager
    BY <1>5, TurnTyped DEF Pager
  <1>6. CASE ConfirmRemoveDialog
    BY <1>6, DialogsTyped, ConfirmTyped DEF ConfirmRemoveDialog
  <1> QED
    BY <1>1, <1>2, <1>3, <1>4, <1>5, <1>6 DEF Act

LEMMA DebounceTyped ==
    ASSUME Typed, Debounce, Shapes'
    PROVE  Typed'
  <1> DEFINE u == [ui EXCEPT !.search = ui.input]
  <1>1. IsPage(u) /\ TypedPage(u)
    BY DEF Typed, Shapes, TypedClient, IsPage, PageFields, TypedPage
  <1>2. /\ Render(u, TRUE)
        /\ UNCHANGED <<cache, db, stores, storeList, appIds, saved, url, posts, live>>
    BY DEF Debounce, server, known, removal
  <1> QED
    BY <1>1, <1>2, HandleTyped

LEMMA ReturnTyped ==
    ASSUME Typed, Return, Shapes'
    PROVE  Typed'
  <1>1. PICK l \in {url, Blank} : Render(Mount(l), FALSE)
    BY DEF Return
  <1>2. TypedLink(l)
    BY ServiceAssumption DEF Typed, TypedClient, TypedLink, Blank, FirstPage, Searches
  <1>3. IsPage(Mount(l)) /\ TypedPage(Mount(l))
    BY <1>2, MountShape, MountTyped
  <1>4. UNCHANGED <<cache, db, stores, storeList, appIds, saved, url, posts, live>>
    BY DEF Return, server, known, removal
  <1> QED
    BY <1>1, <1>3, <1>4, HandleTyped

LEMMA LearnTyped ==
    ASSUME Typed, learnStores \/ learnApps \/ learnAppIds, Shapes'
    PROVE  Typed'
  <1>1. /\ Render(ui, FALSE)
        /\ UNCHANGED <<cache, db, stores, saved, url, posts, live>>
    BY DEF learnStores, learnApps, learnAppIds, Learn, server, removal
  <1>2. Known'
    <2>1. CASE learnStores
      BY <2>1 DEF learnStores, Learn, Typed, TypedServer, TypedClient, Known
    <2>2. CASE learnApps
      BY <2>2 DEF learnApps, Learn, Typed, TypedClient, Known
    <2>3. CASE learnAppIds
      <3>1. ui.store \in Stores /\ Group[ui.store] \in Groups
        BY <2>3 DEF learnAppIds, Typed, TypedClient, TypedPage, Groups
      <3>2. DOMAIN db[Group[ui.store]] \subseteq Instances
        BY <3>1 DEF Typed, TypedServer, Data
      <3>3. {AppOf[i] : i \in DOMAIN db[Group[ui.store]]} \subseteq Apps
        BY <3>2 DEF Apps
      <3>4. appIds' \in [Stores -> SUBSET (Apps \cup {NoApp})]
        BY <2>3, <3>1, <3>3 DEF learnAppIds, Typed, TypedClient
      <3> QED
        BY <2>3, <3>4 DEF learnAppIds, Learn, Typed, TypedClient, Known
    <2> QED
      BY <2>1, <2>2, <2>3
  <1>3. IsPage(ui) /\ TypedPage(ui)
    BY DEF Typed, Shapes, TypedClient
  <1>4. TypedPage(ui') /\ TypedNet'
    BY <1>1, <1>2, <1>3, RenderTyped DEF Typed
  <1> QED
    BY <1>1, <1>2, <1>4 DEF Typed, TypedServer, TypedClient, TypedRemovals, Known

-----------------------------------------------------------------------------
(* Requests and their answers                                              *)

\* Steps of the requests leave the page, the engines' data and the removals alone.
LEMMA RequestTyped ==
    ASSUME Typed, UNCHANGED <<ui, url, saved, storeList, appIds, db, stores, posts, live>>,
           TypedNet', Shapes'
    PROVE  Typed'
  BY DEF Typed, TypedServer, TypedClient, TypedRemovals

LEMMA PollTyped ==
    ASSUME Typed, Poll, Shapes'
    PROVE  Typed'
  <1>1. /\ fetches' = fetches \cup {[key |-> Key(ui), ans |-> Waiting]}
        /\ UNCHANGED <<cache, ui, url, saved, storeList, appIds, db, stores, posts, live>>
    BY DEF Poll, Requests, removal, page, known
  <1>2. TypedQuery(Key(ui)) /\ \A f \in fetches : f.key # Key(ui)
    BY KeyTyped DEF Poll, InFlight, Typed, TypedClient
  <1>3. TypedNet'
    BY <1>1, <1>2, AskTyped DEF Typed
  <1> QED
    BY <1>1, <1>3, RequestTyped

\* What the server answers is what a page of the listing holds.
LEMMA AnswersTyped ==
    ASSUME TypedServer, NEW k, TypedQuery(k)
    PROVE  TypedEntry(Answers(k))
  <1> DEFINE D == db[Group[k.filter.store]]
             p == List(D, k.filter, k.page)
  <1>1. DOMAIN D \subseteq Instances
    <2>1. Group[k.filter.store] \in Groups
      BY DEF TypedQuery, Groups
    <2> QED
      BY <2>1 DEF TypedServer, Data
  <1>2. Covers(p, D, k.filter, k.page)
    BY <1>1, PageCoversRange DEF TypedQuery
  <1>3. DOMAIN p.items \subseteq Instances /\ p.next \in Nat
    <2> HIDE DEF p
    <2> QED
      BY <1>1, <1>2 DEF Covers, Matching, FirstPage
  <1> HIDE DEF p, D
  <1>4. Answers(k) = Failed \/
        Answers(k) = [items |-> p.items, next |-> p.next, loaded |-> TRUE, error |-> FALSE]
    BY DEF Answers, p, D
  <1> QED
    BY <1>3, <1>4, WaitingTyped DEF TypedEntry

LEMMA AnswerTyped ==
    ASSUME Typed, NEW f \in fetches, Answer(f), Shapes'
    PROVE  Typed'
  <1>1. IsFetch(f) /\ TypedQuery(f.key)
    BY DEF Typed, Shapes, TypedNet
  <1>2. PICK a \in {Answers(f.key), Failed} : fetches' = (fetches \ {f}) \cup {[f EXCEPT !.ans = a]}
    BY DEF Answer
  <1>3. UNCHANGED <<cache, ui, url, saved, storeList, appIds, db, stores, posts, live>>
    BY DEF Answer, Requests, removal, page, known
  <1>4. TypedEntry(a)
    BY <1>1, WaitingTyped, AnswersTyped DEF Typed
  <1> DEFINE g == [f EXCEPT !.ans = a]
  <1>5. g.key = f.key /\ g.ans = a
    BY <1>1 DEF IsFetch
  <1> HIDE DEF g
  <1>6. fetches' = (fetches \ {f}) \cup {g}
    BY <1>2 DEF g
  <1>7. TypedNet'
    BY <1>3, <1>4, <1>5, <1>6 DEF Typed, TypedNet
  <1> QED
    BY <1>3, <1>7, RequestTyped

\* What the cache holds after an answer has arrived.
Received(f) == IF f.ans.error THEN [Entry(f.key) EXCEPT !.error = TRUE] ELSE f.ans

LEMMA ArriveCaches ==
    ASSUME Shapes, NEW f, Arrive(f)
    PROVE  /\ fetches' = fetches \ {f}
           /\ DOMAIN cache' = DOMAIN cache \cup {f.key}
           /\ \A k \in DOMAIN cache' : cache'[k] = IF k = f.key THEN Received(f) ELSE cache[k]
           /\ UNCHANGED <<mounted, ui, url, saved, storeList, appIds, db, stores, posts, live,
                          gone, late, mixed, drifted>>
  <1>1. cache' = [k \in DOMAIN cache \cup {f.key} |-> IF k = f.key THEN Received(f) ELSE cache[k]]
    BY DEF Arrive, Received
  <1> QED
    BY <1>1 DEF Arrive, Requests, removal, page, known

\* An error keeps what there was.
LEMMA ReceivedIs ==
    ASSUME Shapes, NEW f
    PROVE  \/ ~f.ans.error /\ Received(f) = f.ans
           \/ /\ f.ans.error /\ Received(f).error
              /\ Received(f).items = Entry(f.key).items /\ Received(f).next = Entry(f.key).next
              /\ Received(f).loaded = Entry(f.key).loaded
  BY EntryShape DEF Received, IsEntry

LEMMA ArriveTyped ==
    ASSUME Typed, NEW f \in fetches, Arrive(f), Shapes'
    PROVE  Typed'
  <1>1. TypedEntry(Entry(f.key)) /\ TypedEntry(f.ans)
    BY EntryTyped DEF Typed, TypedNet
  <1>2. TypedEntry(Received(f))
    <2> DEFINE e == Received(f)
    <2>1. \/ e = f.ans
          \/ /\ e.items = Entry(f.key).items /\ e.next = Entry(f.key).next
             /\ e.loaded = Entry(f.key).loaded
      BY ReceivedIs DEF Typed
    <2> HIDE DEF e
    <2>2. TypedEntry(e)
      BY <1>1, <2>1 DEF TypedEntry
    <2> QED
      BY <2>2 DEF e
  <1>3. TypedNet'
    BY <1>2, ArriveCaches DEF Typed, TypedNet
  <1> QED
    BY <1>3, ArriveCaches, RequestTyped DEF Typed

-----------------------------------------------------------------------------
(* Removals and the engines                                                *)

\* A change of what a group holds.
LEMMA DataTyped ==
    ASSUME TypedServer, NEW g, NEW D, g \in Groups => D \in Data,
           db' = [db EXCEPT ![g] = D], stores' = stores
    PROVE  TypedServer'
  BY DEF TypedServer

LEMMA RemovalTyped ==
    ASSUME Typed, UNCHANGED <<ui, url, saved, storeList, appIds, cache, fetches>>,
           TypedServer', TypedRemovals', Shapes'
    PROVE  Typed'
  BY DEF Typed, TypedClient, TypedNet

\* One request changes.
LEMMA PostTyped ==
    ASSUME TypedRemovals, NEW n \in DOMAIN posts, NEW p \in RemovalRequests,
           posts' = [posts EXCEPT ![n] = p], live' \in {live, 0}
    PROVE  TypedRemovals'
  <1>1. posts \in Seq(RemovalRequests) /\ Len(posts) \in Nat /\ DOMAIN posts = 1..Len(posts)
    BY LenProperties DEF TypedRemovals
  <1>2. posts' \in Seq(RemovalRequests) /\ Len(posts') = Len(posts)
    BY <1>1, ExceptSeq
  <1> QED
    BY <1>1, <1>2 DEF TypedRemovals

LEMMA ResolveTyped ==
    ASSUME Typed, NEW n \in DOMAIN posts, Resolve(n), Shapes'
    PROVE  Typed'
  <1> DEFINE p == posts[n]
             D == db[Group[p.store]]
             found == {i \in p.ids : Resolves(D, i)}
  <1>1. p \in RemovalRequests
    BY LenProperties, ElementOfSeq DEF Typed, TypedRemovals
  <1>2. PICK healthy \in BOOLEAN :
            posts' = [posts EXCEPT ![n] =
                IF \A s \in ToSet(stores) : s.id # p.store THEN [p EXCEPT !.step = "refused"]
                ELSE [p EXCEPT !.step = "removing", !.bad = p.ids \ found, !.targets =
                         [i \in found |-> SelectMechanism(D[i], healthy, p.force)]]]
    BY DEF Resolve
  <1> DEFINE t == [i \in found |-> SelectMechanism(D[i], healthy, p.force)]
             q == IF \A s \in ToSet(stores) : s.id # p.store THEN [p EXCEPT !.step = "refused"]
                  ELSE [p EXCEPT !.step = "removing", !.bad = p.ids \ found, !.targets = t]
  <1>3. found \in SUBSET Instances /\ p.ids \ found \in SUBSET Instances
    BY <1>1 DEF RemovalRequests
  <1>4. t \in [found -> {"force", "purge", "terminate_then_purge"}]
    BY DEF SelectMechanism
  <1> HIDE DEF found, t
  <1>5. t \in UNION {[I -> {"force", "purge", "terminate_then_purge"}] : I \in SUBSET Instances}
    BY <1>3, <1>4
  <1>6. q \in RemovalRequests
    BY <1>1, <1>3, <1>5 DEF RemovalRequests
  <1>7. posts' = [posts EXCEPT ![n] = q]
    BY <1>2 DEF t, found
  <1> HIDE DEF q
  <1>8. /\ live' = live
        /\ UNCHANGED <<ui, url, saved, storeList, appIds, cache, fetches, db, stores>>
    BY DEF Resolve, Requests, page, known, net
  <1>9. TypedRemovals'
    BY <1>6, <1>7, <1>8, PostTyped DEF Typed
  <1> QED
    BY <1>8, <1>9, RemovalTyped DEF Typed, TypedServer

\* Whatever a removal leaves is data, and has no more instances than before.
LEMMA RemovalsData ==
    ASSUME NEW D \in Data, NEW i, NEW mech, NEW r \in Removals(D, i, mech)
    PROVE  r.db \in Data /\ DOMAIN r.db \subseteq DOMAIN D
  <1>1. D \in [DOMAIN D -> Status] /\ DOMAIN D \in SUBSET Instances
    BY DEF Data
  <1>2. Without(D, i) \in [DOMAIN D \ {i} -> Status]
    BY <1>1 DEF Without
  <1>3. As(D, i, "Terminated") \in [DOMAIN D -> Status] /\ As(D, i, "Pending") \in [DOMAIN D -> Status]
    BY <1>1 DEF As, Status, Terminal
  <1>4. r.db \in {D, Without(D, i), As(D, i, "Terminated"), As(D, i, "Pending")}
    BY DEF Removals
  <1>5. PICK E : E \in [DOMAIN D -> Status] \cup [DOMAIN D \ {i} -> Status] /\ r.db = E
    BY <1>1, <1>2, <1>3, <1>4
  <1>6. DOMAIN E \in SUBSET Instances /\ DOMAIN E \subseteq DOMAIN D /\ E \in [DOMAIN E -> Status]
    BY <1>1, <1>5
  <1> QED
    BY <1>5, <1>6 DEF Data

LEMMA RemoveOneTyped ==
    ASSUME Typed, NEW n \in DOMAIN posts, NEW i \in Instances, RemoveOne(n, i), Shapes'
    PROVE  Typed'
  <1> DEFINE p == posts[n]
             g == Group[p.store]
  <1>1. p \in RemovalRequests
    BY LenProperties, ElementOfSeq DEF Typed, TypedRemovals
  <1>2. PICK r \in Removals(db[g], i, p.targets[i]) :
            /\ db' = [db EXCEPT ![g] = r.db]
            /\ posts' = [posts EXCEPT ![n].ok  = IF r.ok THEN @ \cup {i} ELSE @,
                                      ![n].bad = IF r.ok THEN @ ELSE @ \cup {i}]
    BY DEF RemoveOne
  <1>3. /\ live' = live
        /\ UNCHANGED <<ui, url, saved, storeList, appIds, cache, fetches, stores>>
    BY DEF RemoveOne, Requests, page, known, net
  <1>4. TypedServer'
    <2>1. ASSUME g \in Groups PROVE r.db \in Data
      <3>1. db[g] \in Data
        BY <2>1 DEF Typed, TypedServer
      <3> HIDE DEF g, p
      <3> QED
        BY <3>1, <1>2, RemovalsData
    <2> QED
      BY <1>2, <1>3, <2>1, DataTyped DEF Typed
  <1> DEFINE q == [p EXCEPT !.ok = IF r.ok THEN @ \cup {i} ELSE @, !.bad = IF r.ok THEN @ ELSE @ \cup {i}]
  <1>5. q \in RemovalRequests
    BY <1>1 DEF RemovalRequests
  <1>6. posts' = [posts EXCEPT ![n] = q]
    BY <1>1, <1>2 DEF RemovalRequests
  <1> HIDE DEF q
  <1>7. TypedRemovals'
    BY <1>3, <1>5, <1>6, PostTyped DEF Typed
  <1> QED
    BY <1>3, <1>4, <1>7, RemovalTyped

\* A callback is called once, changes the page only if it awaits it, and keeps its query.
LEMMA HearTyped ==
    ASSUME Typed, NEW n \in DOMAIN posts, NEW u, TypedPage(u), Hear(n, u), db' = db,
           TypedNet', Shapes'
    PROVE  Typed'
  <1>1. /\ posts' = [posts EXCEPT ![n] = IF Served(posts[n]) THEN Over ELSE [posts[n] EXCEPT !.heard = TRUE]]
        /\ live' \in {live, 0} /\ ui' \in {u, ui}
        /\ UNCHANGED <<url, saved, storeList, appIds, stores>>
    BY DEF Hear, known
  <1>2. posts[n] \in RemovalRequests
    BY LenProperties, ElementOfSeq DEF Typed, TypedRemovals
  <1>3. Over \in RemovalRequests
    <2>1. NoItems \in [{} -> {"force", "purge", "terminate_then_purge"}]
      BY DEF NoItems
    <2>2. NoItems \in UNION {[I -> {"force", "purge", "terminate_then_purge"}] : I \in SUBSET Instances}
      BY <2>1
    <2> QED
      BY <2>2 DEF Over, RemovalRequests
  <1>4. [posts[n] EXCEPT !.heard = TRUE] \in RemovalRequests
    BY <1>2 DEF RemovalRequests
  <1>5. TypedRemovals'
    BY <1>1, <1>3, <1>4, PostTyped DEF Typed
  <1>6. TypedServer' /\ TypedClient'
    BY <1>1 DEF Typed, TypedServer, TypedClient
  <1> QED
    BY <1>5, <1>6 DEF Typed

\* The current query is asked again, at most once.
LEMMA InvalidateTyped ==
    ASSUME TypedNet, TypedPage(ui), fetches' = invalidate, cache' = cache
    PROVE  TypedNet'
  <1>1. CASE fetches' = fetches
    BY <1>1 DEF TypedNet
  <1>2. CASE fetches' # fetches
    <2> DEFINE F == {f \in fetches : f.key # Key(ui)}
    <2>1. ui.store # NoStore /\ fetches' = F \cup {[key |-> Key(ui), ans |-> Waiting]}
      BY <1>2 DEF invalidate
    <2>2. TypedQuery(Key(ui))
      BY <2>1, KeyTyped
    <2>3. F \in SUBSET fetches /\ \A f \in F : f.key # Key(ui)
      OBVIOUS
    <2> HIDE DEF F
    <2> QED
      BY <2>1, <2>2, <2>3, AskTyped
  <1> QED
    BY <1>1, <1>2

LEMMA CallbackTyped ==
    ASSUME Typed, NEW n \in DOMAIN posts, Reply(n) \/ Fail(n), Shapes'
    PROVE  Typed'
  <1>1. IsPage(ui) /\ TypedPage(ui)
    BY DEF Typed, Shapes, TypedClient
  <1>2. TypedNet'
    <2>1. CASE Reply(n)
      BY <1>1, <2>1, InvalidateTyped DEF Reply, Hear, Typed
    <2>2. CASE Fail(n)
      BY <2>2 DEF Fail, Hear, Typed, TypedNet
    <2> QED
      BY <2>1, <2>2
  <1>3. CASE Reply(n)
    <2> DEFINE u == [close(ui) EXCEPT !.selected = {},
                         !.banner = <<Cardinality(posts[n].ok), Cardinality(posts[n].bad)>>]
    <2>1. TypedPage(u)
      BY <1>1 DEF IsPage, PageFields, TypedPage, close
    <2>2. Hear(n, u) /\ db' = db
      BY <1>3 DEF Reply
    <2> QED
      BY <1>2, <2>1, <2>2, HearTyped
  <1>4. CASE Fail(n)
    <2>1. TypedPage(close(ui))
      BY <1>1 DEF IsPage, PageFields, TypedPage, close
    <2>2. Hear(n, close(ui)) /\ db' = db
      BY <1>4 DEF Fail, onError
    <2> QED
      BY <1>2, <2>1, <2>2, HearTyped
  <1> QED
    BY <1>3, <1>4

LEMMA WorldTyped ==
    ASSUME Typed, Relist \/ \E g \in Groups, i \in Movers : Finish(g, i) \/ Start(g, i), Shapes'
    PROVE  Typed'
  <1>1. UNCHANGED <<ui, url, saved, storeList, appIds, cache, fetches, posts, live>>
    BY DEF Relist, Finish, Start, World, page, known, net, removal
  <1>2. TypedServer'
    <2>1. CASE Relist
      BY <2>1 DEF Relist, Typed, TypedServer
    <2>2. ASSUME NEW g \in Groups, NEW i \in Movers, Finish(g, i) PROVE TypedServer'
      <3>1. db[g] \in Data
        BY DEF Typed, TypedServer
      <3>2. As(db[g], i, "Completed") \in [DOMAIN db[g] -> Status] /\ DOMAIN db[g] \in SUBSET Instances
        BY <3>1 DEF As, Status, Terminal, Data
      <3>3. As(db[g], i, "Completed") \in Data
        BY <3>2 DEF Data
      <3> QED
        BY <2>2, <3>3, DataTyped DEF Finish, Typed
    <2>3. ASSUME NEW g \in Groups, NEW i \in Movers, Start(g, i) PROVE TypedServer'
      <3>1. db[g] \in Data
        BY DEF Typed, TypedServer
      <3> DEFINE I == DOMAIN db[g] \cup {i}
      <3>2. With(db[g], i, "Running") \in [I -> Status]
        BY <3>1 DEF With, Status, Data
      <3>3. I \in SUBSET Instances
        BY <3>1, WorkflowsAssumption DEF Data
      <3>4. With(db[g], i, "Running") \in Data
        BY <3>2, <3>3 DEF Data
      <3> QED
        BY <2>3, <3>4, DataTyped DEF Start, Typed
    <2> QED
      BY <2>1, <2>2, <2>3
  <1>3. TypedRemovals'
    BY <1>1 DEF Typed, TypedRemovals
  <1> QED
    BY <1>1, <1>2, <1>3, RemovalTyped

LEMMA StutterTyped ==
    ASSUME Typed, UNCHANGED vars, Shapes'
    PROVE  Typed'
  BY DEF vars, server, page, known, net, removal, Typed, TypedServer, TypedClient,
         TypedRemovals, TypedNet

LEMMA InitTyped ==
    ASSUME Init, Shapes
    PROVE  Typed
  <1>1. TypedLink(url)
    BY ServiceAssumption DEF Init, TypedLink, Blank, FirstPage, Searches
  <1>2. TypedPage(ui)
    BY <1>1, MountTyped DEF Init
  <1>3. TypedServer
    BY WorkflowsAssumption DEF Init, TypedServer, Data
  <1>4. TypedClient
    BY <1>1, <1>2, WorkflowsAssumption DEF Init, TypedClient, Unknown
  <1>5. TypedRemovals
    BY EmptySeq DEF Init, TypedRemovals
  <1>6. TypedNet
    BY DEF Init, TypedNet
  <1> QED
    BY <1>3, <1>4, <1>5, <1>6 DEF Typed

LEMMA NextTyped ==
    ASSUME Typed, [Next]_vars, Shapes'
    PROVE  Typed'
  <1>1. CASE Act
    BY <1>1, ActTyped
  <1>2. CASE Debounce \/ Return
    BY <1>2, DebounceTyped, ReturnTyped
  <1>3. CASE learnStores \/ learnApps \/ learnAppIds
    BY <1>3, LearnTyped
  <1>4. CASE Poll \/ \E f \in fetches : Answer(f) \/ Arrive(f)
    BY <1>4, PollTyped, AnswerTyped, ArriveTyped
  <1>5. CASE Removing
    BY <1>5, ResolveTyped, RemoveOneTyped, CallbackTyped DEF Removing
  <1>6. CASE Relist \/ \E g \in Groups, i \in Movers : Finish(g, i) \/ Start(g, i)
    BY <1>6, WorldTyped
  <1>7. CASE UNCHANGED vars
    BY <1>7, StutterTyped
  <1> QED
    BY <1>1, <1>2, <1>3, <1>4, <1>5, <1>6, <1>7 DEF Next

LEMMA TypedGivesTypeOK == Typed => TypeOK
  <1> SUFFICES ASSUME Typed PROVE TypeOK
    OBVIOUS
  <1>1. \A g \in Groups :
            DOMAIN db[g] \subseteq Instances /\ {db[g][i] : i \in DOMAIN db[g]} \subseteq Status
    BY DEF Typed, TypedServer, Data
  <1>2. \A k \in DOMAIN cache : DOMAIN cache[k].items \subseteq Instances
    BY DEF Typed, TypedNet, TypedEntry
  <1>3. TypedPage(ui)
    BY DEF Typed, TypedClient
  <1>4. {ui.input, ui.search} \subseteq Searches /\ ui.selected \subseteq Instances
    BY <1>3 DEF TypedPage
  <1> QED
    BY <1>1, <1>2, <1>3, <1>4 DEF Typed, TypedServer, TypedClient, TypedRemovals, TypedNet,
                                  TypedPage, TypeOK

-----------------------------------------------------------------------------
(* Nothing removed is shown                                                *)

\* What was reported removed is in no store's data until it is started anew.
Absent == \A g \in Groups, i \in Instances : <<g, i>> \in gone => i \notin DOMAIN db[g]

\* The rows a query has brought hold nothing that was reported removed.
Fresh(e, k) == \A i \in DOMAIN e.items : <<Group[k.filter.store], i>> \notin gone

\* An answer under way to the client is fresh, unless it was late.
Asked == \A f \in fetches : f.key \in late \/ Fresh(f.ans, f.key)

\* So are the rows of the current query once its request is back, or they are not shown.
Held ==
    mounted /\ ui.store # NoStore /\ ~InFlight(Key(ui)) /\ Key(ui) \notin late
    => Entry(Key(ui)).error \/ Fresh(Entry(Key(ui)), Key(ui))

Current == Absent /\ Asked /\ Held

LEMMA WaitingFresh ==
    ASSUME NEW k
    PROVE  Fresh(Waiting, k) /\ Fresh(Waiting, k)' /\ Fresh(Failed, k)
  BY DEF Fresh, Waiting, Failed

LEMMA KeyStore ==
    ASSUME NEW u
    PROVE  Key(u).filter.store = u.store
  BY DEF Key, KeyAt, Filter

\* The page goes on showing the query, and no request for it has come back.
LEMMA HeldKept ==
    ASSUME Held, mounted' => mounted, Key(ui') = Key(ui), cache' = cache,
           gone' \subseteq gone, late \subseteq late',
           InFlight(Key(ui)) => \E f \in fetches' : f.key = Key(ui)
    PROVE  Held'
  <1> DEFINE k == Key(ui)
  <1> SUFFICES ASSUME (mounted /\ ui.store # NoStore /\ ~InFlight(Key(ui)) /\ Key(ui) \notin late)'
               PROVE  (Entry(Key(ui)).error \/ Fresh(Entry(Key(ui)), Key(ui)))'
    BY DEF Held
  <1>1. Key(ui)' = k
    BY DEF Key, KeyAt, Filter
  <1>2. ~ \E f \in fetches' : f.key = k
    BY <1>1 DEF InFlight
  <1>3. mounted /\ ui.store # NoStore /\ ~InFlight(k) /\ k \notin late
    BY <1>1, <1>2, KeyStore
  <1>4. Entry(k).error \/ Fresh(Entry(k), k)
    BY <1>3 DEF Held
  <1>5. Entry(Key(ui))' = Entry(k)
    BY <1>1 DEF Entry, Key, KeyAt, Filter
  <1>6. Fresh(Entry(k), k) => \A i \in DOMAIN Entry(k).items : <<Group[k.filter.store], i>> \notin gone'
    BY DEF Fresh
  <1> QED
    BY <1>1, <1>4, <1>5, <1>6 DEF Fresh

\* A query is asked when it becomes the current one.
LEMMA RenderCurrent ==
    ASSUME Current, NEW u, NEW mixes, Render(u, mixes),
           UNCHANGED <<db, gone, late, cache>>
    PROVE  Current'
  <1>1. Absent'
    BY DEF Current, Absent
  <1>2. fetches' = observe(ui')
    BY DEF Render
  <1>3. fetches' = fetches \/ fetches' = fetches \cup {[key |-> Key(ui'), ans |-> Waiting]}
    BY <1>2 DEF observe
  <1>4. Asked'
    <2>1. \A f \in fetches' : f \in fetches \/ f.ans = Waiting
      BY <1>3
    <2> QED
      BY <2>1, WaitingFresh DEF Current, Asked, Fresh
  <1>5. Held'
    <2>1. CASE ui'.store = NoStore
      BY <2>1 DEF Held
    <2>2. CASE ui'.store # NoStore /\ (~mounted \/ Key(ui') # Key(ui))
      <3>1. \E f \in fetches' : f.key = Key(ui')
        <4>1. CASE InFlight(Key(ui'))
          BY <1>3, <4>1 DEF InFlight
        <4>2. CASE ~InFlight(Key(ui'))
          <5>1. [key |-> Key(ui'), ans |-> Waiting] \in fetches'
            BY <1>2, <2>2, <4>2 DEF observe
          <5>2. [key |-> Key(ui'), ans |-> Waiting].key = Key(ui')
            OBVIOUS
          <5> QED
            BY <5>1, <5>2
        <4> QED
          BY <4>1, <4>2
      <3>2. InFlight(Key(ui))'
        BY <3>1 DEF InFlight, Key, KeyAt, Filter
      <3> QED
        BY <3>2 DEF Held
    <2>3. CASE mounted /\ Key(ui') = Key(ui)
      <3>1. InFlight(Key(ui)) => \E f \in fetches' : f.key = Key(ui)
        BY <1>3 DEF InFlight
      <3> QED
        BY <2>3, <3>1, HeldKept DEF Current
    <2> QED
      BY <2>1, <2>2, <2>3
  <1> QED
    BY <1>1, <1>4, <1>5 DEF Current

\* Steps that touch neither the page nor the requests.
LEMMA CurrentKept ==
    ASSUME Current, UNCHANGED <<cache, fetches, late>>, mounted' => mounted,
           mounted' => Key(ui') = Key(ui), gone' \subseteq gone, Absent'
    PROVE  Current'
  <1>1. Asked'
    BY DEF Current, Asked, Fresh
  <1>2. Held'
    <2>1. CASE ~mounted'
      BY <2>1 DEF Held
    <2>2. CASE mounted'
      BY <2>2, HeldKept DEF Current, InFlight
    <2> QED
      BY <2>1, <2>2
  <1> QED
    BY <1>1, <1>2 DEF Current

LEMMA PollCurrent ==
    ASSUME Current, Poll
    PROVE  Current'
  <1>1. /\ fetches' = fetches \cup {[key |-> Key(ui), ans |-> Waiting]}
        /\ UNCHANGED <<mounted, ui, cache, db, gone, late>>
    BY DEF Poll, Requests, page, ghosts
  <1>2. Absent'
    BY <1>1 DEF Current, Absent
  <1>3. Asked'
    <2>1. \A f \in fetches' : f \in fetches \/ f.ans = Waiting
      BY <1>1
    <2> QED
      BY <1>1, <2>1, WaitingFresh DEF Current, Asked, Fresh
  <1>4. Held'
    BY <1>1, HeldKept DEF Current, InFlight
  <1> QED
    BY <1>2, <1>3, <1>4 DEF Current

\* What the server answers is in its data now.
LEMMA AnswersFresh ==
    ASSUME Typed, Current, NEW k, TypedQuery(k)
    PROVE  Fresh(Answers(k), k)
  <1> DEFINE g == Group[k.filter.store]
             p == List(db[g], k.filter, k.page)
  <1>1. g \in Groups /\ DOMAIN db[g] \subseteq Instances
    BY DEF TypedQuery, Groups, Typed, TypedServer, Data
  <1>2. Covers(p, db[g], k.filter, k.page)
    BY <1>1, PageCoversRange DEF TypedQuery
  <1>3. DOMAIN p.items \subseteq DOMAIN db[g]
    <2> HIDE DEF p
    <2> QED
      BY <1>2 DEF Covers, Matching
  <1> HIDE DEF p
  <1>4. Answers(k) = Failed \/
        Answers(k) = [items |-> p.items, next |-> p.next, loaded |-> TRUE, error |-> FALSE]
    BY DEF Answers, p
  <1>5. \A i \in DOMAIN p.items : <<g, i>> \notin gone
    BY <1>1, <1>3 DEF Current, Absent
  <1> QED
    BY <1>4, <1>5, WaitingFresh DEF Fresh

\* What an answer does to the requests.
LEMMA AnswerReplaces ==
    ASSUME Typed, NEW f \in fetches, Answer(f)
    PROVE  \E g :
              /\ g.key = f.key /\ g.ans \in {Answers(f.key), Failed}
              /\ fetches' = (fetches \ {f}) \cup {g}
  <1>1. IsFetch(f)
    BY DEF Typed, Shapes
  <1>2. PICK a \in {Answers(f.key), Failed} : fetches' = (fetches \ {f}) \cup {[f EXCEPT !.ans = a]}
    BY DEF Answer
  <1> DEFINE g == [f EXCEPT !.ans = a]
  <1>3. g.key = f.key /\ g.ans = a
    BY <1>1 DEF IsFetch
  <1>4. fetches' = (fetches \ {f}) \cup {g}
    BY <1>2
  <1> HIDE DEF g
  <1> QED
    BY <1>3, <1>4

LEMMA AnswerCurrent ==
    ASSUME Typed, Current, NEW f \in fetches, Answer(f)
    PROVE  Current'
  <1>1. UNCHANGED <<mounted, ui, cache, db, gone, late>>
    BY DEF Answer, Requests, page, ghosts
  <1>2. PICK g :
            /\ g.key = f.key /\ g.ans \in {Answers(f.key), Failed}
            /\ fetches' = (fetches \ {f}) \cup {g}
    BY AnswerReplaces
  <1>3. Fresh(g.ans, g.key)
    BY <1>2, WaitingFresh, AnswersFresh DEF Typed, TypedNet
  <1>4. Asked'
    BY <1>1, <1>2, <1>3 DEF Current, Asked, Fresh
  <1>5. Absent'
    BY <1>1 DEF Current, Absent
  <1>6. Held'
    <2>1. InFlight(Key(ui)) => \E h \in fetches' : h.key = Key(ui)
      BY <1>2 DEF InFlight
    <2> QED
      BY <1>1, <2>1, HeldKept DEF Current
  <1> QED
    BY <1>4, <1>5, <1>6 DEF Current

\* What arrives for the current query is fresh, or late, or an error.
LEMMA ArriveCurrent ==
    ASSUME Typed, Current, NEW f \in fetches, Arrive(f)
    PROVE  Current'
  <1>1. /\ fetches' = fetches \ {f}
        /\ DOMAIN cache' = DOMAIN cache \cup {f.key}
        /\ \A k \in DOMAIN cache' : cache'[k] = IF k = f.key THEN Received(f) ELSE cache[k]
        /\ UNCHANGED <<mounted, ui, db, gone, late>>
    BY ArriveCaches DEF Typed
  <1>2. Absent' /\ Asked'
    BY <1>1 DEF Current, Absent, Asked, Fresh
  <1>3. Key(ui)' = Key(ui)
    BY <1>1 DEF Key, KeyAt, Filter
  <1>4. Entry(Key(ui))' = IF f.key = Key(ui) THEN Received(f) ELSE Entry(Key(ui))
    BY <1>1, <1>3 DEF Entry
  <1>5. Held'
    <2>1. CASE f.key = Key(ui)
      <3>1. f.ans.error => Received(f).error
        BY ReceivedIs DEF Typed
      <3>2. ~f.ans.error => Received(f) = f.ans
        BY DEF Received
      <3> QED
        BY <1>1, <1>3, <1>4, <2>1, <3>1, <3>2 DEF Held, Current, Asked, Fresh
    <2>2. CASE f.key # Key(ui)
      <3>1. InFlight(Key(ui)) <=> InFlight(Key(ui))'
        BY <1>1, <1>3, <2>2 DEF InFlight
      <3> QED
        BY <1>1, <1>3, <1>4, <2>2, <3>1 DEF Held, Current, Fresh
    <2> QED
      BY <2>1, <2>2
  <1> QED
    BY <1>2, <1>5 DEF Current

\* Nothing is added to what a group holds.
LEMMA ShrinkAbsent ==
    ASSUME Absent, NEW g, NEW D, g \in Groups => DOMAIN D \subseteq DOMAIN db[g],
           db' = [db EXCEPT ![g] = D], DOMAIN db = Groups, gone' = gone
    PROVE  Absent'
  BY DEF Absent

LEMMA RemoveOneCurrent ==
    ASSUME Typed, Current, NEW n \in DOMAIN posts, NEW i \in Instances, RemoveOne(n, i)
    PROVE  Current'
  <1> DEFINE p == posts[n]
             g == Group[p.store]
  <1>1. PICK r \in Removals(db[g], i, p.targets[i]) : db' = [db EXCEPT ![g] = r.db]
    BY DEF RemoveOne
  <1>2. UNCHANGED <<mounted, ui, cache, fetches, late, gone>>
    BY DEF RemoveOne, Requests, page, net
  <1>3. g \in Groups => DOMAIN r.db \subseteq DOMAIN db[g]
    <2>1. g \in Groups => db[g] \in Data
      BY DEF Typed, TypedServer
    <2> HIDE DEF g, p
    <2> QED
      BY <1>1, <2>1, RemovalsData
  <1>4. DOMAIN db = Groups
    BY DEF Typed, TypedServer
  <1> HIDE DEF g, p
  <1>5. Absent'
    BY <1>1, <1>2, <1>3, <1>4, ShrinkAbsent DEF Current
  <1> QED
    BY <1>2, <1>5, CurrentKept

LEMMA WorldCurrent ==
    ASSUME Typed, Current, Relist \/ \E g \in Groups, i \in Movers : Finish(g, i) \/ Start(g, i)
    PROVE  Current'
  <1>1. UNCHANGED <<mounted, ui, cache, fetches, late>>
    BY DEF Relist, Finish, Start, World, page, net
  <1>2. DOMAIN db = Groups
    BY DEF Typed, TypedServer
  <1>3. CASE Relist
    <2>1. Absent' /\ gone' = gone
      BY <1>3 DEF Relist, Current, Absent
    <2> QED
      BY <1>1, <2>1, CurrentKept
  <1>4. ASSUME NEW g \in Groups, NEW i \in Movers, Finish(g, i) PROVE Current'
    <2>1. Absent' /\ gone' = gone
      BY <1>2, <1>4, ShrinkAbsent DEF Finish, Current, As
    <2> QED
      BY <1>1, <2>1, CurrentKept
  <1>5. ASSUME NEW g \in Groups, NEW i \in Movers, Start(g, i) PROVE Current'
    <2>1. /\ db' = [db EXCEPT ![g] = With(db[g], i, "Running")]
          /\ gone' = gone \ {<<g, i>>}
      BY <1>5 DEF Start
    <2>2. DOMAIN With(db[g], i, "Running") = DOMAIN db[g] \cup {i}
      BY DEF With
    <2>3. Absent'
      BY <1>2, <2>1, <2>2 DEF Current, Absent
    <2> QED
      BY <1>1, <2>1, <2>3, CurrentKept
  <1> QED
    BY <1>3, <1>4, <1>5

\* A reply asks the current query again; what had been answered by then is late.
LEMMA ReplyCurrent ==
    ASSUME Typed, Current, NEW n \in DOMAIN posts, Reply(n)
    PROVE  Current'
  <1> DEFINE p == posts[n]
             g == Group[p.store]
             u == [close(ui) EXCEPT !.selected = {},
                       !.banner = <<Cardinality(p.ok), Cardinality(p.bad)>>]
  <1>1. /\ fetches' = invalidate
        /\ gone' = gone \cup {<<g, i>> : i \in p.ok \ DOMAIN db[g]}
        /\ late' = late \cup {f.key : f \in {f \in fetches' : f.ans # Waiting}}
        /\ UNCHANGED <<mounted, cache, db>>
        /\ ui' = u \/ ui' = ui
    BY DEF Reply, Hear
  <1>2. Key(ui') = Key(ui) /\ ui'.store = ui.store
    BY <1>1 DEF Typed, Shapes, IsPage, PageFields, close, Key, KeyAt, Filter
  <1>3. Absent'
    BY <1>1 DEF Current, Absent
  <1>4. Asked'
    <2> SUFFICES ASSUME NEW f \in fetches', f.key \notin late'
                 PROVE  Fresh(f.ans, f.key)'
      BY DEF Asked
    <2>1. f.ans = Waiting
      BY <1>1
    <2> QED
      BY <2>1, WaitingFresh DEF Fresh
  <1>5. Held'
    <2>1. mounted /\ ui.store # NoStore => \E f \in fetches' : f.key = Key(ui)
      <3>1. CASE Entry(Key(ui)).loaded \/ ~InFlight(Key(ui))
        <4>1. mounted /\ ui.store # NoStore =>
                [key |-> Key(ui), ans |-> Waiting] \in fetches'
          BY <1>1, <3>1 DEF invalidate
        <4> QED
          BY <4>1
      <3>2. CASE ~(Entry(Key(ui)).loaded \/ ~InFlight(Key(ui)))
        BY <1>1, <3>2 DEF invalidate, InFlight
      <3> QED
        BY <3>1, <3>2
    <2>2. Key(ui)' = Key(ui)
      BY <1>2 DEF Key, KeyAt, Filter
    <2>3. (mounted /\ ui.store # NoStore)' => InFlight(Key(ui))'
      BY <1>1, <1>2, <2>1, <2>2 DEF InFlight
    <2> QED
      BY <2>3 DEF Held
  <1> QED
    BY <1>3, <1>4, <1>5 DEF Current

LEMMA FailCurrent ==
    ASSUME Typed, Current, NEW n \in DOMAIN posts, Fail(n)
    PROVE  Current'
  <1>1. /\ ui' = close(ui) \/ ui' = ui
        /\ UNCHANGED <<mounted, cache, fetches, db, gone, late>>
    BY DEF Fail, Hear, onError
  <1>2. Key(ui') = Key(ui)
    BY <1>1 DEF Typed, Shapes, IsPage, PageFields, close, Key, KeyAt, Filter
  <1>3. Absent'
    BY <1>1 DEF Current, Absent
  <1> QED
    BY <1>1, <1>2, <1>3, CurrentKept

LEMMA StillCurrent ==
    ASSUME Current, UNCHANGED <<mounted, ui, cache, fetches, db, gone, late>>
    PROVE  Current'
  <1>1. Absent'
    BY DEF Current, Absent
  <1> QED
    BY <1>1, CurrentKept

-----------------------------------------------------------------------------
(* A walk through the pages                                                *)

\* What a query has brought is the page of the listing over the data as it is.
Answered(e, k) ==
    LET p == List(db[Group[k.filter.store]], k.filter, k.page)
    IN  e.items = p.items /\ e.next = p.next

\* Over a store that did not change, what was answered still holds.
Stable ==
    ~drifted => /\ \A f \in fetches : f.ans.loaded => Answered(f.ans, f.key)
                /\ \A k \in DOMAIN cache : cache[k].loaded => Answered(cache[k], k)

TokenAt(u, n) == IF n <= Len(u.history) THEN u.history[n].token ELSE u.page
NextOf(f, token) == List(db[Group[f.store]], f, token).next

\* Each page of the walk gave the token of the one after it.
Leads(u) == \A n \in 1..Len(u.history) :
    NextOf(Filter(u), TokenAt(u, n)) = TokenAt(u, n + 1) /\ TokenAt(u, n + 1) # FirstPage

Chained == ~mixed /\ ~drifted => Leads(ui)

Walked == Stable /\ Chained

LEMMA WaitingNotLoaded == ~Waiting.loaded /\ ~Failed.loaded
  BY DEF Waiting, Failed

LEMMA StableKept ==
    ASSUME Stable, UNCHANGED <<db, drifted, cache>>,
           \A f \in fetches' : f \in fetches \/ ~f.ans.loaded
    PROVE  Stable'
  BY DEF Stable, Answered

\* The page may start over, or go on with the walk it is at.
LEMMA ChainedKept ==
    ASSUME Chained, UNCHANGED <<db, drifted>>,
           ~mixed' => \/ ui'.history = <<>>
                      \/ /\ ~mixed /\ Filter(ui') = Filter(ui)
                         /\ ui'.history = ui.history /\ ui'.page = ui.page
    PROVE  Chained'
  <1> SUFFICES ASSUME ~mixed', ~drifted' PROVE Leads(ui)'
    BY DEF Chained
  <1>1. CASE ui'.history = <<>>
    BY <1>1 DEF Leads
  <1>2. CASE /\ ~mixed /\ Filter(ui') = Filter(ui)
             /\ ui'.history = ui.history /\ ui'.page = ui.page
    <2>1. Leads(ui)
      BY <1>2 DEF Chained
    <2>2. Filter(ui)' = Filter(ui)
      BY <1>2 DEF Filter
    <2> QED
      BY <1>2, <2>1, <2>2 DEF Leads, TokenAt, NextOf
  <1> QED
    BY <1>1, <1>2

\* The handler mixes filters, starts over, or sets a page the walk leads to.
LEMMA RenderWalked ==
    ASSUME Walked, NEW u, IsPage(u), NEW mixes, Render(u, mixes),
           UNCHANGED <<db, drifted, cache>>,
           mixes \/ u.history = <<>> \/ (~mixed /\ ~drifted => Leads(u))
    PROVE  Walked'
  <1>1. ui'.page = u.page /\ ui'.history = u.history
    BY SettleKeeps DEF Render
  <1>2. fetches' = observe(ui') /\ mixed' = (~Clean(ui') /\ (mixed \/ mixes \/ Filter(ui') # Filter(u)))
    BY DEF Render
  <1>3. Stable'
    <2>1. \A f \in fetches' : f \in fetches \/ f.ans = Waiting
      BY <1>2 DEF observe
    <2> QED
      BY <2>1, WaitingNotLoaded, StableKept DEF Walked
  <1>4. Chained'
    <2> SUFFICES ASSUME ~mixed', ~drifted' PROVE Leads(ui)'
      BY DEF Chained
    <2>1. CASE ui'.history = <<>>
      BY <2>1 DEF Leads
    <2>2. CASE ui'.history # <<>>
      <3>1. ~mixed /\ ~mixes /\ Filter(ui') = Filter(u)
        BY <1>2, <2>2 DEF Clean
      <3>2. Leads(u)
        BY <1>1, <2>2, <3>1
      <3>3. Filter(ui)' = Filter(u)
        BY <3>1 DEF Filter
      <3> QED
        BY <1>1, <3>2, <3>3 DEF Leads, TokenAt, NextOf
    <2> QED
      BY <2>1, <2>2
  <1> QED
    BY <1>3, <1>4 DEF Walked

\* The tick boxes, the dialog and the banner leave the walk as it is.
LEMMA SameWalk ==
    ASSUME Walked, NEW u, Filter(u) = Filter(ui), u.history = ui.history, u.page = ui.page
    PROVE  ~mixed /\ ~drifted => Leads(u)
  BY DEF Walked, Chained, Leads, TokenAt

\* Next leads to the page whose token the current query has brought.
LEMMA GoNextLeads ==
    ASSUME Typed, Walked, goNext, NEW u,
           u = [ui EXCEPT !.history = Append(@, [token |-> ui.page, offset |-> ui.offset]),
                          !.offset = @ + Cardinality(DOMAIN items),
                          !.page = nextToken, !.selected = {}]
    PROVE  ~mixed /\ ~drifted => Leads(u)
  <1> SUFFICES ASSUME ~mixed, ~drifted PROVE Leads(u)
    OBVIOUS
  <1> DEFINE h == ui.history
             r == [token |-> ui.page, offset |-> ui.offset]
             k == Key(ui)
  <1>1. IsPage(ui) /\ TypedPage(ui)
    BY DEF Typed, Shapes, TypedClient
  <1>2. u.history = Append(h, r) /\ u.page = nextToken /\ Filter(u) = Filter(ui)
    BY <1>1 DEF IsPage, PageFields, Filter
  <1>3. h \in Seq(Offsets) /\ r \in Offsets /\ r.token = ui.page
    BY <1>1 DEF TypedPage, Offsets
  <1>4. /\ Len(h) \in Nat /\ Len(u.history) = Len(h) + 1
        /\ \A n \in 1..Len(h) : u.history[n] = h[n]
        /\ u.history[Len(h) + 1] = r
    BY <1>2, <1>3, AppendProperties, LenProperties
  <1>5. nextToken # FirstPage
    BY DEF goNext
  <1>6. NextOf(Filter(ui), ui.page) = nextToken
    <2>1. Entry(k).next = nextToken /\ Entry(k).loaded
      BY <1>5, EntryTyped DEF nextToken, Typed, TypedEntry
    <2>2. k \in DOMAIN cache /\ cache[k].loaded
      BY <2>1, WaitingNotLoaded DEF Entry
    <2>3. Answered(cache[k], k)
      BY <2>2 DEF Walked, Stable
    <2>4. k.filter = Filter(ui) /\ k.page = ui.page
      BY DEF Key, KeyAt
    <2> QED
      BY <2>1, <2>2, <2>3, <2>4 DEF Answered, NextOf, Entry
  <1>7. Leads(ui)
    BY DEF Walked, Chained
  <1> HIDE DEF h, r
  <1>8. ASSUME NEW n \in 1..Len(u.history)
        PROVE  NextOf(Filter(u), TokenAt(u, n)) = TokenAt(u, n + 1) /\ TokenAt(u, n + 1) # FirstPage
    <2>1. CASE n = Len(h) + 1
      <3>1. TokenAt(u, n) = ui.page /\ TokenAt(u, n + 1) = nextToken
        BY <1>2, <1>3, <1>4, <2>1 DEF TokenAt
      <3> QED
        BY <1>2, <1>5, <1>6, <3>1
    <2>2. CASE n \in 1..Len(h)
      <3>1. TokenAt(u, n) = TokenAt(ui, n)
        BY <1>4, <2>2 DEF TokenAt, h
      <3>2. TokenAt(u, n + 1) = TokenAt(ui, n + 1)
        <4>1. CASE n = Len(h)
          <5>1. TokenAt(u, n + 1) = u.history[Len(h) + 1].token
            BY <1>4, <4>1 DEF TokenAt
          <5>2. TokenAt(ui, n + 1) = ui.page
            BY <1>4, <4>1 DEF TokenAt, h
          <5> QED
            BY <1>3, <1>4, <5>1, <5>2
        <4>2. CASE n # Len(h)
          <5>1. n + 1 \in 1..Len(h)
            BY <1>4, <2>2, <4>2
          <5>2. u.history[n + 1] = h[n + 1] /\ n + 1 <= Len(h) /\ n + 1 <= Len(u.history)
            BY <1>4, <5>1
          <5> QED
            BY <5>2 DEF TokenAt, h
        <4> QED
          BY <4>1, <4>2
      <3> QED
        BY <1>2, <1>7, <2>2, <3>1, <3>2 DEF Leads, h
    <2> QED
      BY <1>4, <2>1, <2>2
  <1> QED
    BY <1>8 DEF Leads

\* Prev goes back to the page before.
LEMMA GoPrevLeads ==
    ASSUME Typed, Walked, goPrev, NEW u,
           u = [ui EXCEPT !.page = Last(ui.history).token, !.offset = Last(ui.history).offset,
                          !.history = Front(@), !.selected = {}]
    PROVE  ~mixed /\ ~drifted => Leads(u)
  <1> SUFFICES ASSUME ~mixed, ~drifted PROVE Leads(u)
    OBVIOUS
  <1> DEFINE h == ui.history
  <1>1. IsPage(ui) /\ TypedPage(ui)
    BY DEF Typed, Shapes, TypedClient
  <1>2. u.history = Front(h) /\ u.page = Last(h).token /\ Filter(u) = Filter(ui)
    BY <1>1 DEF IsPage, PageFields, Filter
  <1>3. h \in Seq(Offsets) /\ h # <<>>
    BY <1>1 DEF TypedPage, goPrev
  <1>4. Len(h) \in Nat \ {0}
    BY <1>3, EmptySeq
  <1>5. /\ Len(u.history) = Len(h) - 1
        /\ \A n \in 1..(Len(h) - 1) : u.history[n] = h[n]
        /\ u.page = h[Len(h)].token
    BY <1>2, <1>3, <1>4 DEF Front, Last
  <1>6. Leads(ui)
    BY DEF Walked, Chained
  <1>7. \A n \in 1..Len(h) : TokenAt(u, n) = TokenAt(ui, n)
    <2> TAKE n \in 1..Len(h)
    <2>1. CASE n = Len(h)
      BY <1>4, <1>5, <2>1 DEF TokenAt
    <2>2. CASE n # Len(h)
      <3>1. n \in 1..(Len(h) - 1)
        BY <1>4, <2>2
      <3> QED
        BY <1>4, <1>5, <3>1 DEF TokenAt
    <2> QED
      BY <2>1, <2>2
  <1> HIDE DEF h
  <1>8. ASSUME NEW n \in 1..Len(u.history)
        PROVE  NextOf(Filter(u), TokenAt(u, n)) = TokenAt(u, n + 1) /\ TokenAt(u, n + 1) # FirstPage
    <2>1. n \in 1..Len(h) /\ n + 1 \in 1..Len(h)
      BY <1>4, <1>5
    <2>2. TokenAt(u, n) = TokenAt(ui, n) /\ TokenAt(u, n + 1) = TokenAt(ui, n + 1)
      BY <1>7, <2>1
    <2> QED
      BY <1>2, <1>6, <2>1, <2>2 DEF Leads, h
  <1> QED
    BY <1>8 DEF Leads

LEMMA PollWalked ==
    ASSUME Walked, Poll
    PROVE  Walked'
  <1>1. /\ fetches' = fetches \cup {[key |-> Key(ui), ans |-> Waiting]}
        /\ UNCHANGED <<ui, cache, db, drifted, mixed>>
    BY DEF Poll, Requests, page, ghosts
  <1>2. \A f \in fetches' : f \in fetches \/ f.ans = Waiting
    BY <1>1
  <1>3. Stable'
    BY <1>1, <1>2, WaitingNotLoaded, StableKept DEF Walked
  <1>4. Chained'
    BY <1>1, ChainedKept DEF Walked
  <1> QED
    BY <1>3, <1>4 DEF Walked

LEMMA AnswersAnswered ==
    ASSUME NEW k, Answers(k).loaded
    PROVE  Answered(Answers(k), k)
  BY WaitingNotLoaded DEF Answers, Answered

LEMMA AnswerWalked ==
    ASSUME Typed, Walked, NEW f \in fetches, Answer(f)
    PROVE  Walked'
  <1>1. UNCHANGED <<ui, cache, db, drifted, mixed>>
    BY DEF Answer, Requests, page, ghosts
  <1>2. PICK g :
            /\ g.key = f.key /\ g.ans \in {Answers(f.key), Failed}
            /\ fetches' = (fetches \ {f}) \cup {g}
    BY AnswerReplaces
  <1>3. g.ans.loaded => Answered(g.ans, g.key)
    BY <1>2, WaitingNotLoaded, AnswersAnswered
  <1>4. Stable'
    BY <1>1, <1>2, <1>3 DEF Walked, Stable, Answered
  <1>5. Chained'
    BY <1>1, ChainedKept DEF Walked
  <1> QED
    BY <1>4, <1>5 DEF Walked

LEMMA EntryAnswered ==
    ASSUME Stable, ~drifted, NEW k, Entry(k).loaded
    PROVE  Answered(Entry(k), k)
  BY WaitingNotLoaded DEF Stable, Entry

\* An error keeps what was loaded, which still holds.
LEMMA ArriveWalked ==
    ASSUME Typed, Walked, NEW f \in fetches, Arrive(f)
    PROVE  Walked'
  <1>1. /\ fetches' = fetches \ {f}
        /\ DOMAIN cache' = DOMAIN cache \cup {f.key}
        /\ \A k \in DOMAIN cache' : cache'[k] = IF k = f.key THEN Received(f) ELSE cache[k]
        /\ UNCHANGED <<ui, db, drifted, mixed>>
    BY ArriveCaches DEF Typed
  <1>2. ~drifted /\ Received(f).loaded => Answered(Received(f), f.key)
    <2>1. CASE Received(f) = f.ans
      BY <2>1 DEF Walked, Stable
    <2>2. CASE Received(f) # f.ans
      <3>1. /\ Received(f).items = Entry(f.key).items /\ Received(f).next = Entry(f.key).next
            /\ Received(f).loaded = Entry(f.key).loaded
        BY <2>2, ReceivedIs DEF Typed
      <3> QED
        BY <3>1, EntryAnswered DEF Walked, Answered
    <2> QED
      BY <2>1, <2>2
  <1>3. Stable'
    BY <1>1, <1>2 DEF Walked, Stable, Answered
  <1>4. Chained'
    BY <1>1, ChainedKept DEF Walked
  <1> QED
    BY <1>3, <1>4 DEF Walked

\* A removal that changes nothing does not count as a drift.
LEMMA RemoveOneWalked ==
    ASSUME Typed, Walked, NEW n \in DOMAIN posts, NEW i \in Instances, RemoveOne(n, i)
    PROVE  Walked'
  <1> DEFINE g == Group[posts[n].store]
  <1>1. PICK r : db' = [db EXCEPT ![g] = r.db] /\ drifted' = (drifted \/ r.db # db[g])
    BY DEF RemoveOne
  <1>2. UNCHANGED <<ui, cache, fetches, mixed>>
    BY DEF RemoveOne, Requests, page, net
  <1>3. CASE drifted'
    BY <1>3 DEF Walked, Stable, Chained
  <1>4. CASE ~drifted'
    <2>1. ~drifted /\ db' = [db EXCEPT ![g] = db[g]]
      BY <1>1, <1>4
    <2>2. db' = db
      BY <2>1 DEF Typed, TypedServer
    <2>3. Stable'
      BY <1>2, <1>4, <2>1, <2>2 DEF Walked, Stable, Answered
    <2>4. Chained'
      BY <1>2, <1>4, <2>1, <2>2 DEF Walked, Chained, Leads, TokenAt, NextOf, Filter
    <2> QED
      BY <2>3, <2>4 DEF Walked
  <1> QED
    BY <1>3, <1>4

LEMMA WorldWalked ==
    ASSUME Walked, Relist \/ \E g \in Groups, i \in Movers : Finish(g, i) \/ Start(g, i)
    PROVE  Walked'
  <1>1. UNCHANGED <<ui, cache, fetches, mixed>>
    BY DEF Relist, Finish, Start, World, page, net
  <1>2. CASE Relist
    <2>1. UNCHANGED <<db, drifted>>
      BY <1>2 DEF Relist
    <2>2. Stable'
      BY <1>1, <2>1, StableKept DEF Walked
    <2>3. Chained'
      BY <1>1, <2>1, ChainedKept DEF Walked
    <2> QED
      BY <2>2, <2>3 DEF Walked
  <1>3. CASE \E g \in Groups, i \in Movers : Finish(g, i) \/ Start(g, i)
    <2>1. drifted' = TRUE
      BY <1>3 DEF Finish, Start
    <2> QED
      BY <2>1 DEF Walked, Stable, Chained
  <1> QED
    BY <1>2, <1>3

\* A callback may clear the selection, and so make a clean page of a mixed one.
LEMMA CallbackWalked ==
    ASSUME Typed, Walked, NEW n \in DOMAIN posts, Reply(n) \/ Fail(n)
    PROVE  Walked'
  <1>1. PICK u : /\ Hear(n, u)
                 /\ \/ u = [close(ui) EXCEPT !.selected = {},
                                !.banner = <<Cardinality(posts[n].ok), Cardinality(posts[n].bad)>>]
                    \/ u = close(ui)
    BY DEF Reply, Fail, onError
  <1>2. /\ ui' = u \/ ui' = ui
        /\ mixed' = (mixed /\ ~Clean(ui')) /\ cache' = cache
    BY <1>1 DEF Hear
  <1>3. UNCHANGED <<db, drifted>> /\ (fetches' = fetches \/ fetches' = invalidate)
    BY DEF Reply, Fail
  <1>4. Filter(ui') = Filter(ui) /\ ui'.history = ui.history /\ ui'.page = ui.page
    BY <1>1, <1>2 DEF Typed, Shapes, IsPage, PageFields, close, Filter
  <1>5. \A f \in fetches' : f \in fetches \/ f.ans = Waiting
    BY <1>3 DEF invalidate
  <1>6. Stable'
    BY <1>2, <1>3, <1>5, WaitingNotLoaded, StableKept DEF Walked
  <1>7. Chained'
    <2>1. ~mixed' => ui'.history = <<>> \/ ~mixed
      BY <1>2 DEF Clean
    <2> QED
      BY <1>3, <1>4, <2>1, ChainedKept DEF Walked
  <1> QED
    BY <1>6, <1>7 DEF Walked

LEMMA StillWalked ==
    ASSUME Walked, UNCHANGED <<ui, cache, fetches, db, drifted, mixed>>
    PROVE  Walked'
  <1>1. Stable'
    BY StableKept DEF Walked
  <1>2. Chained'
    BY ChainedKept DEF Walked
  <1> QED
    BY <1>1, <1>2 DEF Walked

-----------------------------------------------------------------------------
(* The user's steps, for both                                              *)

LEMMA RenderBoth ==
    ASSUME Current, Walked, NEW u, IsPage(u), NEW mixes, Render(u, mixes),
           UNCHANGED <<db, gone, late, drifted, cache>>,
           mixes \/ u.history = <<>> \/ (~mixed /\ ~drifted => Leads(u))
    PROVE  Current' /\ Walked'
  BY RenderCurrent, RenderWalked

LEMMA HandleBoth ==
    ASSUME Current, Walked, NEW u, IsPage(u), Handle(u) \/ Dialog(u),
           u.history = <<>> \/ (~mixed /\ ~drifted => Leads(u))
    PROVE  Current' /\ Walked'
  <1>1. Render(u, FALSE) /\ UNCHANGED <<db, gone, late, drifted, cache>>
    BY DEF Handle, Dialog, User, server
  <1> QED
    BY <1>1, RenderBoth

LEMMA ResetBoth ==
    ASSUME Current, Walked, NEW u, IsPage(u), Handle(resetPaging(u))
    PROVE  Current' /\ Walked'
  <1>1. IsPage(resetPaging(u)) /\ resetPaging(u).history = <<>>
    BY DEF IsPage, PageFields, resetPaging
  <1> QED
    BY <1>1, HandleBoth

LEMMA FiltersBoth ==
    ASSUME Typed, Current, Walked, Filters
    PROVE  Current' /\ Walked'
  <1>1. IsPage(ui)
    BY DEF Typed, Shapes
  <1>2. ASSUME NEW s, setStatus(s) PROVE Current' /\ Walked'
    <2>1. IsPage([ui EXCEPT !.status = s])
      BY <1>1 DEF IsPage, PageFields
    <2> QED
      BY <1>2, <2>1, ResetBoth DEF setStatus
  <1>3. ASSUME NEW a, selectApp(a) PROVE Current' /\ Walked'
    <2>1. IsPage([ui EXCEPT !.app = a])
      BY <1>1 DEF IsPage, PageFields
    <2> QED
      BY <1>3, <2>1, ResetBoth DEF selectApp
  <1>4. ASSUME NEW s, typeSearch(s) PROVE Current' /\ Walked'
    <2>1. IsPage([ui EXCEPT !.input = s])
      BY <1>1 DEF IsPage, PageFields
    <2> QED
      BY <1>4, <2>1, ResetBoth DEF typeSearch
  <1>5. CASE toggleChildren
    <2>1. IsPage([ui EXCEPT !.children = ~@])
      BY <1>1 DEF IsPage, PageFields
    <2> QED
      BY <1>5, <2>1, ResetBoth DEF toggleChildren
  <1> QED
    BY <1>2, <1>3, <1>4, <1>5 DEF Filters

LEMMA StoreChangeBoth ==
    ASSUME Typed, Current, Walked, NEW s, onStoreChange(s)
    PROVE  Current' /\ Walked'
  <1> DEFINE u == resetPaging([ui EXCEPT !.store = s, !.app = NoApp])
  <1>1. IsPage(u) /\ u.history = <<>>
    BY DEF Typed, Shapes, IsPage, PageFields, resetPaging
  <1>2. Render(u, FALSE) /\ UNCHANGED <<db, gone, late, drifted, cache>>
    BY DEF onStoreChange, User, server
  <1> QED
    BY <1>1, <1>2, RenderBoth

\* Ticking rows, and the dialog.
LEMMA SameWalkBoth ==
    ASSUME Current, Walked, NEW u, IsPage(u), Handle(u) \/ Dialog(u),
           Filter(u) = Filter(ui), u.history = ui.history, u.page = ui.page
    PROVE  Current' /\ Walked'
  BY SameWalk, HandleBoth

LEMMA TurnBoth ==
    ASSUME Typed, Current, Walked, toggleAll \/ goNext \/ goPrev \/ \E i \in Instances : toggleRow(i)
    PROVE  Current' /\ Walked'
  <1>1. IsPage(ui)
    BY DEF Typed, Shapes
  <1>2. ASSUME NEW S, Handle([ui EXCEPT !.selected = S])
        PROVE  Current' /\ Walked'
    <2> DEFINE u == [ui EXCEPT !.selected = S]
    <2>1. IsPage(u) /\ Filter(u) = Filter(ui) /\ u.history = ui.history /\ u.page = ui.page
      BY <1>1 DEF IsPage, PageFields, Filter
    <2> QED
      BY <1>2, <2>1, SameWalkBoth
  <1>3. CASE toggleAll
    <2>1. Handle([ui EXCEPT !.selected =
              IF Cardinality(ui.selected) = Cardinality(DOMAIN items) THEN {} ELSE DOMAIN items])
      BY <1>1, <1>3 DEF toggleAll, IsPage, PageFields
    <2> QED
      BY <1>2, <2>1
  <1>4. ASSUME NEW i, toggleRow(i) PROVE Current' /\ Walked'
    <2>1. Handle([ui EXCEPT !.selected =
              IF i \in ui.selected THEN ui.selected \ {i} ELSE ui.selected \cup {i}])
      BY <1>1, <1>4 DEF toggleRow, IsPage, PageFields
    <2> QED
      BY <1>2, <2>1
  <1>5. CASE goNext
    <2> DEFINE u == [ui EXCEPT !.history = Append(@, [token |-> ui.page, offset |-> ui.offset]),
                               !.offset = @ + Cardinality(DOMAIN items),
                               !.page = nextToken, !.selected = {}]
    <2>1. ~mixed /\ ~drifted => Leads(u)
      BY <1>5, GoNextLeads
    <2>2. IsPage(u) /\ Handle(u)
      BY <1>1, <1>5 DEF goNext, IsPage, PageFields
    <2> HIDE DEF u
    <2> QED
      BY <2>1, <2>2, HandleBoth
  <1>6. CASE goPrev
    <2> DEFINE u == [ui EXCEPT !.page = Last(ui.history).token, !.offset = Last(ui.history).offset,
                               !.history = Front(@), !.selected = {}]
    <2>1. ~mixed /\ ~drifted => Leads(u)
      BY <1>6, GoPrevLeads
    <2>2. IsPage(u) /\ Handle(u)
      BY <1>1, <1>6 DEF goPrev, IsPage, PageFields
    <2> HIDE DEF u
    <2> QED
      BY <2>1, <2>2, HandleBoth
  <1> QED
    BY <1>3, <1>4, <1>5, <1>6

LEMMA DialogsBoth ==
    ASSUME Typed, Current, Walked,
           dismissBanner \/ toggleForce \/ onCancel \/ \E force \in BOOLEAN : openDialog(force)
    PROVE  Current' /\ Walked'
  <1>1. PICK u : /\ Dialog(u)
                 /\ \/ u = [ui EXCEPT !.banner = <<>>]
                    \/ u = [ui EXCEPT !.force = ~@]
                    \/ u = [ui EXCEPT !.dialog = FALSE, !.force = FALSE]
                    \/ \E force \in BOOLEAN :
                           u = [ui EXCEPT !.dialog = TRUE, !.force = force, !.banner = <<>>]
    BY DEF dismissBanner, toggleForce, onCancel, openDialog, close
  <1>2. IsPage(u) /\ Filter(u) = Filter(ui) /\ u.history = ui.history /\ u.page = ui.page
    BY <1>1 DEF Typed, Shapes, IsPage, PageFields, Filter
  <1> QED
    BY <1>1, <1>2, SameWalkBoth

LEMMA LeaveBoth ==
    ASSUME Current, Walked, Leave
    PROVE  Current' /\ Walked'
  <1>1. /\ mounted' = FALSE /\ ui' = Mount(Mirror(ui))
        /\ UNCHANGED <<cache, fetches, db, gone, late, drifted>>
    BY DEF Leave, User, server
  <1>2. ui'.history = <<>>
    BY <1>1 DEF Mount
  <1>3. Absent'
    BY <1>1 DEF Current, Absent
  <1>4. Current'
    BY <1>1, <1>3, CurrentKept
  <1>5. Stable'
    BY <1>1, StableKept DEF Walked
  <1>6. Chained'
    BY <1>1, <1>2, ChainedKept DEF Walked
  <1> QED
    BY <1>4, <1>5, <1>6 DEF Walked

\* Steps of the removals that change nothing here.
LEMMA StillBoth ==
    ASSUME Current, Walked, UNCHANGED <<mounted, ui, cache, fetches, db, gone, late, mixed, drifted>>
    PROVE  Current' /\ Walked'
  BY StillCurrent, StillWalked

LEMMA ActBoth ==
    ASSUME Typed, Current, Walked, Act
    PROVE  Current' /\ Walked'
  <1>1. CASE Header
    BY <1>1, StoreChangeBoth DEF Header
  <1>2. CASE dismissBanner \/ SelectionBar
    BY <1>2, DialogsBoth DEF SelectionBar
  <1>3. CASE Filters
    BY <1>3, FiltersBoth
  <1>4. CASE Table
    BY <1>4, TurnBoth, LeaveBoth DEF Table
  <1>5. CASE Pager
    BY <1>5, TurnBoth DEF Pager
  <1>6. CASE ConfirmRemoveDialog
    <2>1. CASE onConfirmRemove
      BY <2>1, StillBoth DEF onConfirmRemove, User, server
    <2> QED
      BY <1>6, <2>1, DialogsBoth DEF ConfirmRemoveDialog
  <1> QED
    BY <1>1, <1>2, <1>3, <1>4, <1>5, <1>6 DEF Act

LEMMA TimersBoth ==
    ASSUME Typed, Current, Walked,
           Debounce \/ Return \/ learnStores \/ learnApps \/ learnAppIds
    PROVE  Current' /\ Walked'
  <1>1. CASE Debounce
    <2>1. IsPage([ui EXCEPT !.search = ui.input])
      BY DEF Typed, Shapes, IsPage, PageFields
    <2>2. /\ Render([ui EXCEPT !.search = ui.input], TRUE)
          /\ UNCHANGED <<db, gone, late, drifted, cache>>
      BY <1>1 DEF Debounce, server
    <2> QED
      BY <2>1, <2>2, RenderBoth
  <1>2. CASE Return
    <2>1. PICK link : Render(Mount(link), FALSE)
      BY <1>2 DEF Return
    <2>2. UNCHANGED <<db, gone, late, drifted, cache>> /\ Mount(link).history = <<>>
      BY <1>2 DEF Return, server, Mount
    <2> QED
      BY <2>1, <2>2, MountShape, RenderBoth
  <1>3. CASE learnStores \/ learnApps \/ learnAppIds
    <2>1. Render(ui, FALSE) /\ UNCHANGED <<db, gone, late, drifted, cache>>
      BY <1>3 DEF learnStores, learnApps, learnAppIds, Learn, server
    <2>2. ~mixed /\ ~drifted => Leads(ui)
      BY DEF Walked, Chained
    <2> QED
      BY <2>1, <2>2, RenderBoth DEF Typed, Shapes
  <1> QED
    BY <1>1, <1>2, <1>3

LEMMA ResolveBoth ==
    ASSUME Current, Walked, NEW n \in DOMAIN posts, Resolve(n)
    PROVE  Current' /\ Walked'
  <1>1. UNCHANGED <<mounted, ui, cache, fetches, db, gone, late, mixed, drifted>>
    BY DEF Resolve, Requests, page, net, ghosts
  <1> QED
    BY <1>1, StillBoth

-----------------------------------------------------------------------------
(* The theorems                                                            *)

All == Inv /\ Typed /\ Current /\ Walked

LEMMA InitAll == Init => All
  <1> SUFFICES ASSUME Init PROVE All
    OBVIOUS
  <1>1. Inv /\ Typed
    BY InitInv, InitTyped DEF Inv
  <1>2. Current
    BY DEF Init, Current, Absent, Asked, Held
  <1>3. Stable
    BY DEF Init, Stable
  <1>4. ui.history = <<>>
    BY DEF Init, Mount
  <1>5. Chained
    BY <1>4 DEF Chained, Leads
  <1> QED
    BY <1>1, <1>2, <1>3, <1>5 DEF All, Walked

LEMMA NextAll == All /\ [Next]_vars => All'
  <1> SUFFICES ASSUME All, [Next]_vars PROVE All'
    OBVIOUS
  <1>1. Inv' /\ Typed'
    BY NextInv, NextTyped DEF All, Inv
  <1>2. Typed /\ Current /\ Walked
    BY DEF All
  <1>3. CASE Act
    BY <1>1, <1>2, <1>3, ActBoth DEF All
  <1>4. CASE Debounce \/ Return \/ learnStores \/ learnApps \/ learnAppIds
    BY <1>1, <1>2, <1>4, TimersBoth DEF All
  <1>5. CASE Poll
    BY <1>1, <1>2, <1>5, PollCurrent, PollWalked DEF All
  <1>6. ASSUME NEW f \in fetches, Answer(f) \/ Arrive(f) PROVE All'
    BY <1>1, <1>2, <1>6, AnswerCurrent, AnswerWalked, ArriveCurrent, ArriveWalked DEF All
  <1>7. ASSUME NEW n \in DOMAIN posts, Resolve(n) PROVE All'
    BY <1>1, <1>2, <1>7, ResolveBoth DEF All
  <1>8. ASSUME NEW n \in DOMAIN posts, Reply(n) \/ Fail(n) PROVE All'
    BY <1>1, <1>2, <1>8, ReplyCurrent, FailCurrent, CallbackWalked DEF All
  <1>9. ASSUME NEW n \in DOMAIN posts, NEW i \in Instances, RemoveOne(n, i) PROVE All'
    BY <1>1, <1>2, <1>9, RemoveOneCurrent, RemoveOneWalked DEF All
  <1>10. CASE Relist \/ \E g \in Groups, i \in Movers : Finish(g, i) \/ Start(g, i)
    BY <1>1, <1>2, <1>10, WorldCurrent, WorldWalked DEF All
  <1>11. CASE UNCHANGED vars
    <2>1. UNCHANGED <<mounted, ui, cache, fetches, db, gone, late, mixed, drifted>>
      BY <1>11 DEF vars, server, page, net, ghosts
    <2> QED
      BY <1>1, <1>2, <2>1, StillBoth DEF All
  <1> QED
    BY <1>3, <1>4, <1>5, <1>6, <1>7, <1>8, <1>9, <1>10, <1>11 DEF Next, Removing

\* Nothing that a removal was reported for is on the page.
LEMMA CurrentShows ==
    ASSUME Current
    PROVE  RemovedNotShown
  <1> SUFFICES ASSUME mounted, ui.store # NoStore, ~InFlight(Key(ui)), Key(ui) \notin late,
                      NEW i \in DOMAIN items
               PROVE  <<Group[ui.store], i>> \notin gone
    BY DEF RemovedNotShown
  <1>1. DOMAIN NoItems = {}
    BY DEF NoItems
  <1>2. ~Entry(Key(ui)).error /\ i \in DOMAIN Entry(Key(ui)).items
    BY <1>1 DEF items, isError
  <1>3. Fresh(Entry(Key(ui)), Key(ui))
    BY <1>2 DEF Current, Held
  <1> QED
    BY <1>2, <1>3, KeyStore DEF Fresh

\* The pages p with the tokens t follow each other from the first to the last.
Chain(D, f, N, t, p) ==
    /\ DOMAIN D \subseteq Instances
    /\ \A n \in 1..N : t[n] \in Nat /\ Covers(p[n], D, f, t[n])
    /\ t[1] = FirstPage /\ \A n \in 1..N : n # N => p[n].next = t[n + 1]
    /\ p[N].next = FirstPage

\* Pages that follow each other from the first to the last hold every match: the one an
\* instance belongs to is the first whose next token is not before it.
LEMMA PagesComplete ==
    ASSUME NEW D, NEW f, NEW N \in Nat \ {0}, NEW t, NEW p, Chain(D, f, N, t, p)
    PROVE  UNION {DOMAIN p[n].items : n \in 1..N} = Matching(D, f)
  <1> USE DEF Chain
  <1>1. ASSUME NEW n \in 1..N
        PROVE  DOMAIN p[n].items \subseteq Matching(D, f)
    BY DEF Covers
  <1>2. ASSUME NEW i \in Matching(D, f)
        PROVE  \E n \in 1..N : i \in DOMAIN p[n].items
    <2> DEFINE T == {n \in 1..N : p[n].next = FirstPage \/ Place[i] <= p[n].next}
    <2>1. Place[i] \in Nat \ {0}
      BY PlaceType DEF Matching
    <2>2. N \in T /\ T \in SUBSET Nat /\ T # {}
      OBVIOUS
    <2>3. PICK m \in T : \A n \in T : m <= n
      <3> HIDE DEF T
      <3> QED
        BY <2>2, SmallestOfNat
    <2>4. m \in 1..N /\ (p[m].next = FirstPage \/ Place[i] <= p[m].next)
      BY <2>3
    <2>5. t[m] < Place[i]
      <3>1. CASE m = 1
        BY <2>1, <3>1 DEF FirstPage
      <3>2. CASE m # 1
        <4>1. m - 1 \in 1..N /\ m - 1 # N /\ (m - 1) + 1 = m /\ ~(m <= m - 1)
          BY <2>4, <3>2
        <4>2. m - 1 \notin T
          BY <2>3, <4>1
        <4>3. ~(Place[i] <= p[m - 1].next)
          BY <4>1, <4>2
        <4>4. p[m - 1].next = t[m] /\ t[m] \in Nat
          BY <2>4, <4>1
        <4> QED
          BY <2>1, <4>3, <4>4
      <3> QED
        BY <3>1, <3>2
    <2>6. i \in DOMAIN p[m].items
      BY <2>4, <2>5 DEF Covers
    <2> QED
      BY <2>4, <2>6
  <1> QED
    BY <1>1, <1>2

LEMMA WalkIsComplete ==
    ASSUME Typed, Walked
    PROVE  WalkComplete
  <1> DEFINE N == Len(ui.history) + 1
             f == Filter(ui)
             D == db[Group[ui.store]]
             t == [n \in 1..N |-> TokenAt(ui, n)]
             p == [n \in 1..N |-> Entry(Walk[n])]
  <1> SUFFICES ASSUME mounted, ui.store # NoStore, ~mixed, ~drifted, Walk[1].page = FirstPage,
                      \A n \in DOMAIN Walk : Entry(Walk[n]).loaded /\ ~Entry(Walk[n]).error,
                      nextToken = FirstPage
               PROVE  UNION {DOMAIN Entry(Walk[n]).items : n \in DOMAIN Walk} = Matching(D, f)
    BY DEF WalkComplete
  <1>1. IsPage(ui) /\ TypedPage(ui)
    BY DEF Typed, Shapes, TypedClient
  <1>2. ui.history \in Seq(Offsets) /\ Len(ui.history) \in Nat /\ ui.page \in Nat
    BY <1>1, LenProperties DEF TypedPage
  <1>3. N \in Nat \ {0} /\ DOMAIN Walk = 1..N /\ N \in 1..N /\ 1 \in 1..N
    BY <1>2 DEF Walk
  <1>4. \A n \in 1..N : Walk[n].page = TokenAt(ui, n) /\ Walk[n].filter = f
    BY <1>2 DEF Walk, KeyAt, TokenAt
  <1>5. DOMAIN D \subseteq Instances
    <2>1. Group[ui.store] \in Groups
      BY <1>1 DEF TypedPage, Groups
    <2> QED
      BY <2>1 DEF Typed, TypedServer, Data
  <1>6. f.store = ui.store
    BY DEF Filter
  <1>7. Leads(ui)
    BY DEF Walked, Chained
  <1>8. ASSUME NEW n \in 1..N
        PROVE  /\ t[n] \in Nat /\ p[n].items = List(D, f, t[n]).items
               /\ p[n].next = List(D, f, t[n]).next
    <2>1. Answered(Entry(Walk[n]), Walk[n])
      BY <1>3, EntryAnswered DEF Walked
    <2>2. t[n] \in Nat
      <3>1. CASE n <= Len(ui.history)
        <4>1. ui.history[n] \in Offsets
          BY <1>2, <3>1, ElementOfSeq
        <4> QED
          BY <3>1, <4>1 DEF TokenAt, Offsets
      <3>2. CASE ~(n <= Len(ui.history))
        BY <1>2, <3>2 DEF TokenAt
      <3> QED
        BY <3>1, <3>2
    <2> QED
      BY <1>4, <1>6, <2>1, <2>2 DEF Answered
  <1>9. ASSUME NEW n \in 1..N
        PROVE  Covers(p[n], D, f, t[n])
    <2>1. Covers(List(D, f, t[n]), D, f, t[n])
      BY <1>5, <1>8, PageCoversRange
    <2> QED
      BY <1>8, <2>1 DEF Covers
  <1>10. t[1] = FirstPage
    BY <1>3, <1>4
  <1>11. ASSUME NEW n \in 1..N, n # N
         PROVE  p[n].next = t[n + 1]
    <2>1. n \in 1..Len(ui.history) /\ n + 1 \in 1..N
      BY <1>2, <1>11
    <2>2. NextOf(f, TokenAt(ui, n)) = TokenAt(ui, n + 1)
      BY <1>7, <2>1 DEF Leads
    <2> QED
      BY <1>6, <1>8, <2>1, <2>2 DEF NextOf
  <1>12. p[N].next = FirstPage
    <2>1. Walk[N] = Key(ui)
      BY <1>2, <1>3 DEF Walk, Key
    <2> QED
      BY <1>3, <2>1 DEF nextToken
  <1> HIDE DEF N, f, D, t, p
  <1>13. UNION {DOMAIN p[n].items : n \in 1..N} = Matching(D, f)
    <2>1. Chain(D, f, N, t, p)
      BY <1>5, <1>8, <1>9, <1>10, <1>11, <1>12 DEF Chain
    <2> QED
      BY <1>3, <2>1, PagesComplete
  <1>14. {DOMAIN p[n].items : n \in 1..N} = {DOMAIN Entry(Walk[n]).items : n \in DOMAIN Walk}
    <2>1. \A n \in 1..N : p[n] = Entry(Walk[n])
      BY DEF p
    <2> QED
      BY <1>3, <2>1
  <1> QED
    BY <1>13, <1>14

\* What was seen, the types, what is current and what a walk holds are kept together.
THEOREM AllInvariant == Spec => []All
  BY InitAll, NextAll, PTL DEF Spec

\* The page, the client's caches, the requests and the stores' data keep their types, and
\* no query has two requests in flight (Workflows.tsx, useWorkflows.ts).
THEOREM TypeCorrect == Spec => []TypeOK
  <1>1. All => TypeOK
    BY TypedGivesTypeOK DEF All
  <1> QED
    BY <1>1, AllInvariant, PTL

\* A row whose removal was reported is not shown again once the page's request is back,
\* for any stores, instances and removals, but for a query answered before the report and
\* received after it (useRemoveWorkflows.ts, Workflows.tsx).
THEOREM RemovedStaysHidden == Spec => []RemovedNotShown
  <1>1. All => RemovedNotShown
    BY CurrentShows DEF All
  <1> QED
    BY <1>1, AllInvariant, PTL

\* The pages of a walk from the first to the last over an unchanged store hold exactly
\* the instances the filter matches, for any page size, scan cap, filter and number of
\* pages, unless the filter changed under the walk (service.go List, Workflows.tsx).
THEOREM WalksAreComplete == Spec => []WalkComplete
  <1>1. All => WalkComplete
    BY WalkIsComplete DEF All
  <1> QED
    BY <1>1, AllInvariant, PTL

=============================================================================

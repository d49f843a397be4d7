----------------------------- MODULE Workflows -----------------------------
(***************************************************************************)
(* The workflow list of the web client: pages/Workflows.tsx with its hooks *)
(* and its removal dialog, over the workflow service of the dashboard.     *)
(*                                                                         *)
(* Three things move on their own: the user's handlers (each with the      *)
(* effects React runs after it), the requests (sent, answered by the       *)
(* server, received), and the workflow engines that write the stores.      *)
(***************************************************************************)
EXTENDS WorkflowService, Sequences, SequencesExt

CONSTANTS
    Group,          \* store id |-> the data its component reaches (name, type, connection)
    LoaderOf,       \* store id |-> the first running app that loaded a store of its name
    StoreLists,     \* lists the server may report: sequences of [id, active]
    InitStores,     \* the first of them
    InitDb,         \* group |-> the instances it has and their status
    Persisted,      \* what an earlier session left in local storage
    NoStore,
    Offered, Movers,    \* bounds: the statuses the user tries, the instances engines touch
    MaxFlights,         \* bound: list requests in flight while the user acts
    MaxSteps    \* bound: user actions but in the dialog, polls, failures, changes in the world

Stores == DOMAIN Group
Groups == {Group[s] : s \in Stores}
Apps   == {AppOf[i] : i \in Instances}
Searches == DOMAIN Found
ALL_STATUSES == Status \ {"Pending"}

ASSUME WorkflowsAssumption ==
    /\ NoStore \notin Stores
    /\ StoreLists \subseteq Seq([id : Stores, active : BOOLEAN]) /\ InitStores \in StoreLists
    /\ InitDb \in [Groups -> UNION {[I -> Status] : I \in SUBSET Instances}]
    /\ Persisted \subseteq Stores \cup {NoStore}
    /\ Offered \subseteq ALL_STATUSES \cup {NoStatus} /\ Movers \subseteq Instances

VARIABLES
    db,         \* the data behind each group
    stores,     \* the server's store list
    mounted, ui, url, saved,    \* the page, its address when left, the persisted store id
    storeList, appIds, apps,    \* what the client knows: stores, app ids per store, apps
    cache,      \* query key |-> [items, next, loaded, error]
    fetches,    \* list requests in flight: [key, ans], ans is Waiting until answered
    posts,      \* removal requests, and the one whose callbacks the page still awaits
    live,
    steps,      \* the bound's counter
    gone, late, seen, mixed, drifted    \* history variables, see the properties

page    == <<mounted, ui, url, saved>>
known   == <<storeList, appIds, apps>>
net     == <<cache, fetches>>
removal == <<posts, live>>
server  == <<db, stores>>
ghosts  == <<gone, late, seen, mixed, drifted>>
vars == <<server, page, known, net, removal, steps, ghosts>>

-----------------------------------------------------------------------------
(* What the page shows                                                     *)

Waiting   == [items |-> <<>>, next |-> FirstPage, loaded |-> FALSE, error |-> FALSE]
Failed    == [Waiting EXCEPT !.error = TRUE]
NoItems   == [i \in {} |-> "Pending"]
Unknown   == {NoApp}

Filter(u) == [app |-> u.app, status |-> u.status, search |-> u.search,
              children |-> u.children, store |-> u.store]
KeyAt(u, token) == [filter |-> Filter(u), page |-> token]
Key(u) == KeyAt(u, u.page)

Entry(k) == IF k \in DOMAIN cache THEN cache[k] ELSE Waiting
isError  == Entry(Key(ui)).error
items    == IF Entry(Key(ui)).loaded /\ ~isError THEN Entry(Key(ui)).items ELSE NoItems
nextToken == Entry(Key(ui)).next
InFlight(k) == \E f \in fetches : f.key = k

\* The store marked active, or else the first, of those at some positions of a list.
Active(l, P) ==
    LET marked == {n \in P : l[n].active}
        S == IF marked = {} THEN P ELSE marked
    IN  l[CHOOSE n \in S : \A m \in S : n <= m].id

\* The selector has one entry for the stores of a list that reach the same data.
dedupeStores(l) ==
    {Active(l, {m \in DOMAIN l : Group[l[m].id] = Group[l[n].id]}) : n \in DOMAIN l}

\* What the page derives from a store list.
Selector == [l \in StoreLists \cup {<<>>} |->
                [shown  |-> dedupeStores(l),
                 active |-> IF l = <<>> THEN NoStore ELSE Active(l, DOMAIN l)]]

noStores == storeList.loaded /\ storeList.list = <<>>

-----------------------------------------------------------------------------
(* The effects that follow a handler                                       *)

\* The store selected while it is listed, else the persisted one, else the active one.
resolveStore(s) ==
    LET sel == Selector[storeList'.list]
    IN  IF sel.shown = {} \/ s \in sel.shown THEN s
        ELSE IF saved' \in sel.shown THEN saved' ELSE sel.active

\* The app that is proposed once, when all it depends on is known.
Decided(s) == storeList'.list # <<>> /\ s # NoStore /\ apps' /\ appIds'[s] # Unknown
defaultApp(s) ==
    LET app == LoaderOf[Selector[storeList'.list].active]
    IN  IF app \in appIds'[s] THEN app ELSE NoApp

settle(u) ==
    LET s == resolveStore(u.store)
    IN  [u EXCEPT !.store = s,
                  !.defaulted = @ \/ u.app # NoApp \/ Decided(s),
                  !.app = IF ~u.defaulted /\ @ = NoApp /\ Decided(s) THEN defaultApp(s) ELSE @]

\* Mutant: a query already in flight is sent a second time.
observe_Again(u) ==
    IF u.store # NoStore /\ (~mounted \/ Key(u) # Key(ui))
    THEN fetches \cup {[key |-> Key(u), ans |-> Waiting]} ELSE fetches

\* A query the page observes is fetched when it becomes the current one.
observe(u) ==
    IF u.store # NoStore /\ (~mounted \/ Key(u) # Key(ui)) /\ ~InFlight(Key(u))
    THEN fetches \cup {[key |-> Key(u), ans |-> Waiting]} ELSE fetches

Clean(u) == u.page = FirstPage /\ u.history = <<>> /\ u.selected = {}

\* mixes: the handler changes the filter and keeps the page and the selection.
Render(u, mixes) ==
    /\ ui' = settle(u)
    /\ fetches' = observe(ui')
    /\ seen' = IF mounted /\ Key(ui') = Key(ui) THEN seen ELSE DOMAIN Entry(Key(ui')).items
    /\ mixed' = (~Clean(ui') /\ (mixed \/ mixes \/ Filter(ui') # Filter(u)))

Mount(link) ==
    [status |-> IF link.status \in ALL_STATUSES THEN link.status ELSE NoStatus,
     app |-> link.app, input |-> link.search, search |-> link.search, page |-> link.page,
     children |-> TRUE, store |-> NoStore, history |-> <<>>, offset |-> 0,
     selected |-> {}, dialog |-> FALSE, force |-> FALSE, banner |-> <<>>,
     defaulted |-> FALSE]

Blank == [status |-> NoStatus, app |-> NoApp, search |-> NoSearch, page |-> FirstPage]

\* The address mirrors the filter and the page, not the store nor the children toggle.
Mirror(u) == [status |-> u.status, app |-> u.app, search |-> u.search, page |-> u.page]

-----------------------------------------------------------------------------
(* The user                                                                *)

Step == steps < MaxSteps /\ steps' = steps + 1

User ==
    /\ mounted /\ ~noStores
    /\ Cardinality(fetches) < MaxFlights
    /\ UNCHANGED <<server, known, cache, gone, late, drifted>>

Handle(u) ==
    /\ User /\ ~ui.dialog /\ Step
    /\ UNCHANGED <<mounted, url, saved, removal>>
    /\ Render(u, FALSE)

resetPaging(u) ==
    [u EXCEPT !.page = FirstPage, !.history = <<>>, !.offset = 0, !.selected = {}]

\* Mutant: the filter changes under the walk and the selection.
setStatus_Keeps(s) == Handle([ui EXCEPT !.status = s])

\* A chip resets the paging also when it is on already.
setStatus(s) == Handle(resetPaging([ui EXCEPT !.status = s]))

\* The options are the apps with data in the store.
selectApp(a) ==
    /\ a \in {NoApp} \cup (IF ui.store = NoStore THEN {} ELSE appIds[ui.store] \ Unknown)
    /\ a # ui.app
    /\ Handle(resetPaging([ui EXCEPT !.app = a]))

\* The query follows the search box only when its timer fires (Debounce).
typeSearch(s) == s # ui.input /\ Handle(resetPaging([ui EXCEPT !.input = s]))

toggleChildren == Handle(resetPaging([ui EXCEPT !.children = ~@]))

onStoreChange(s) ==
    /\ s \in Selector[storeList.list].shown \ {ui.store}
    /\ User /\ ~ui.dialog /\ Step
    /\ saved' = s
    /\ UNCHANGED <<mounted, url, removal>>
    /\ Render(resetPaging([ui EXCEPT !.store = s, !.app = NoApp]), FALSE)

toggleRow(i) ==
    /\ i \in DOMAIN items
    /\ Handle([ui EXCEPT !.selected = IF i \in @ THEN @ \ {i} ELSE @ \cup {i}])

toggleAll ==
    /\ items # NoItems
    /\ Handle([ui EXCEPT !.selected =
                   IF Cardinality(@) = Cardinality(DOMAIN items) THEN {} ELSE DOMAIN items])

goNext ==
    /\ ~isError /\ nextToken # FirstPage
    /\ Handle([ui EXCEPT !.history = Append(@, [token |-> ui.page, offset |-> ui.offset]),
                         !.offset = @ + Cardinality(DOMAIN items),
                         !.page = nextToken, !.selected = {}])

goPrev ==
    /\ ui.history # <<>>
    /\ Handle([ui EXCEPT !.page = Last(ui.history).token, !.offset = Last(ui.history).offset,
                         !.history = Front(@), !.selected = {}])

\* The dialog and the banner.
Dialog(u) ==
    /\ User
    /\ UNCHANGED <<mounted, url, saved, removal, steps>>
    /\ Render(u, FALSE)

\* The force box is reset when the dialog opens, so its value does not outlive it.
close(u) == [u EXCEPT !.dialog = FALSE, !.force = FALSE]

openDialog(force) ==
    /\ ui.selected # {} /\ ~isError /\ ~ui.dialog
    /\ Dialog([ui EXCEPT !.dialog = TRUE, !.force = force, !.banner = <<>>])

dismissBanner == ui.banner # <<>> /\ ~ui.dialog /\ Dialog([ui EXCEPT !.banner = <<>>])
toggleForce == ui.dialog /\ Dialog([ui EXCEPT !.force = ~@])
onCancel == ui.dialog /\ Dialog(close(ui))

\* The dialog stays open, and can be confirmed again, until an answer arrives.
onConfirmRemove ==
    /\ User /\ ui.dialog /\ Step
    /\ posts' = Append(posts, [store |-> ui.store, force |-> ui.force, ids |-> ui.selected,
                               step |-> "sent", heard |-> FALSE,
                               targets |-> NoItems, ok |-> {}, bad |-> {}])
    /\ live' = Len(posts')
    /\ UNCHANGED <<mounted, ui, url, saved, fetches, seen, mixed>>

\* A row is opened, or another page of the client.
Leave ==
    /\ User /\ ~ui.dialog /\ Step
    /\ mounted' = FALSE /\ url' = Mirror(ui) /\ live' = 0
    /\ ui' = Mount(Mirror(ui)) /\ seen' = {} /\ mixed' = FALSE
    /\ UNCHANGED <<saved, posts, fetches>>

-----------------------------------------------------------------------------
(* Timers, addresses and requests                                          *)

Debounce ==
    /\ mounted /\ ui.input # ui.search
    /\ UNCHANGED <<server, mounted, url, saved, known, cache, removal, steps, gone, late, drifted>>
    /\ Render([ui EXCEPT !.search = ui.input], TRUE)

\* Back to the address it had, or to the page's own.
Return ==
    /\ ~mounted /\ mounted' = TRUE
    /\ UNCHANGED <<server, url, saved, known, cache, removal, steps, gone, late, drifted>>
    /\ \E link \in {url, Blank} : Render(Mount(link), FALSE)

\* An answer to a query other than the list reaches the client.
Learn ==
    /\ UNCHANGED <<server, mounted, url, saved, cache, removal, steps, gone, late, drifted>>
    /\ Render(ui, FALSE)

learnStores ==
    /\ mounted
    /\ storeList' = [loaded |-> TRUE, list |-> stores] /\ storeList' # storeList
    /\ UNCHANGED <<appIds, apps>>
    /\ Learn

learnApps == mounted /\ ~apps /\ apps' = TRUE /\ UNCHANGED <<storeList, appIds>> /\ Learn

learnAppIds ==
    /\ mounted /\ ui.store # NoStore
    /\ appIds' = [appIds EXCEPT ![ui.store] = {AppOf[i] : i \in DOMAIN db[Group[ui.store]]}]
    /\ appIds' # appIds
    /\ UNCHANGED <<storeList, apps>>
    /\ Learn

Requests == UNCHANGED <<stores, page, known>>

\* The refresh interval, or the window's focus, fetches the current query again.
Poll ==
    /\ mounted /\ ~noStores /\ ui.store # NoStore /\ ~InFlight(Key(ui))
    /\ fetches' = fetches \cup {[key |-> Key(ui), ans |-> Waiting]}
    /\ Step
    /\ UNCHANGED <<db, cache, removal, ghosts>> /\ Requests

Answers(k) ==
    IF \A s \in ToSet(stores) : s.id # k.filter.store THEN Failed
    ELSE LET p == List(db[Group[k.filter.store]], k.filter, k.page)
         IN  [items |-> p.items, next |-> p.next, loaded |-> TRUE, error |-> FALSE]

Answer(f) ==
    /\ f.ans = Waiting
    /\ \/ /\ fetches' = (fetches \ {f}) \cup {[f EXCEPT !.ans = Answers(f.key)]}
          /\ UNCHANGED steps
       \/ /\ Step
          /\ fetches' = (fetches \ {f}) \cup {[f EXCEPT !.ans = Failed]}
    /\ UNCHANGED <<db, cache, removal, ghosts>> /\ Requests

\* The answer goes to its own key, whatever the page shows by now; an error keeps the
\* rows that were loaded.
Arrive(f) ==
    /\ f.ans # Waiting
    /\ fetches' = fetches \ {f}
    /\ LET entry == IF f.ans.error THEN [Entry(f.key) EXCEPT !.error = TRUE] ELSE f.ans
       IN  /\ cache' = [k \in DOMAIN cache \cup {f.key} |->
                            IF k = f.key THEN entry ELSE cache[k]]
           /\ seen' = IF mounted /\ f.key = Key(ui) THEN seen \cup DOMAIN entry.items ELSE seen
    /\ UNCHANGED <<db, removal, steps, gone, late, mixed, drifted>> /\ Requests

-----------------------------------------------------------------------------
(* A removal request                                                       *)

\* The server resolves every target before it removes the first, which settles by what
\* mechanism each is removed.
Resolve(n) ==
    LET p == posts[n]
        D == db[Group[p.store]]
        found == {i \in p.ids : Resolves(D, i)}
    IN  /\ p.step = "sent"
        /\ \E healthy \in BOOLEAN :
               posts' = [posts EXCEPT ![n] =
                   IF \A s \in ToSet(stores) : s.id # p.store THEN [@ EXCEPT !.step = "refused"]
                   ELSE [@ EXCEPT !.step = "removing", !.bad = p.ids \ found, !.targets =
                            [i \in found |-> SelectMechanism(D[i], healthy, p.force)]]]
        /\ UNCHANGED <<db, live, net, steps, ghosts>> /\ Requests

Left(p) == DOMAIN p.targets \ (p.ok \cup p.bad)

RemoveOne(n, i) ==
    LET p == posts[n]
        g == Group[p.store]
    IN  /\ p.step = "removing" /\ i \in Left(p)
        /\ \E r \in Removals(db[g], i, p.targets[i]) :
               /\ IF r.ok THEN UNCHANGED steps ELSE Step
               /\ db' = [db EXCEPT ![g] = r.db]
               /\ drifted' = (drifted \/ r.db # db[g])
               /\ posts' = [posts EXCEPT ![n].ok  = IF r.ok THEN @ \cup {i} ELSE @,
                                         ![n].bad = IF r.ok THEN @ ELSE @ \cup {i}]
        /\ UNCHANGED <<live, net, gone, late, seen, mixed>> /\ Requests

\* Mutant: the list is not fetched again after a removal.
invalidate_Not == fetches

\* The current query is fetched again, a request for it in flight is dropped if its data
\* are there already; other keys are fetched when they become current.
invalidate ==
    IF ~mounted \/ ui.store = NoStore THEN fetches
    ELSE IF Entry(Key(ui)).loaded \/ ~InFlight(Key(ui))
         THEN {f \in fetches : f.key # Key(ui)} \cup {[key |-> Key(ui), ans |-> Waiting]}
         ELSE fetches

\* A request that is served and heard of leaves nothing behind.
Over == [store |-> NoStore, force |-> FALSE, ids |-> {}, step |-> "refused", heard |-> TRUE,
         targets |-> NoItems, ok |-> {}, bad |-> {}]
Served(p) == p.step = "refused" \/ (p.step = "removing" /\ Left(p) = {})

Hear(n, u) ==
    /\ posts' = [posts EXCEPT ![n] = IF Served(@) THEN Over ELSE [@ EXCEPT !.heard = TRUE]]
    /\ live' = IF live = n THEN 0 ELSE live
    /\ ui' = IF live = n THEN u ELSE ui
    /\ seen' = seen /\ mixed' = (mixed /\ ~Clean(ui'))
    /\ UNCHANGED <<stores, mounted, url, saved, known, cache>>

Reply(n) ==
    LET p == posts[n]
        g == Group[p.store]
    IN  /\ ~p.heard /\ p.step = "removing" /\ Served(p)
        /\ fetches' = invalidate
        /\ gone' = gone \cup {<<g, i>> : i \in p.ok \ DOMAIN db[g]}
        /\ late' = late \cup {f.key : f \in {f \in fetches' : f.ans # Waiting}}
        /\ Hear(n, [close(ui) EXCEPT !.selected = {},
                                     !.banner = <<Cardinality(p.ok), Cardinality(p.bad)>>])
        /\ UNCHANGED <<db, drifted, steps>>

\* Mutant: an error leaves the dialog to its user.
onError_Stays(u) == u

onError(u) == close(u)

\* The server refuses the request, or its answer is lost and the server goes on.
Fail(n) ==
    LET p == posts[n]
    IN  /\ ~p.heard
        /\ IF p.step = "refused" THEN UNCHANGED steps ELSE Step
        /\ Hear(n, onError(ui))
        /\ UNCHANGED <<db, fetches, gone, late, drifted>>

-----------------------------------------------------------------------------
(* The engines and the server's store list                                 *)

World ==
    /\ Step
    /\ DOMAIN cache # {}  \* bound: a change before the first answer is another start
    /\ UNCHANGED <<page, known, net, removal, late, seen, mixed>>

Finish(g, i) ==
    /\ World
    /\ i \in DOMAIN db[g] /\ db[g][i] = "Running"
    /\ db' = [db EXCEPT ![g] = As(db[g], i, "Completed")]
    /\ drifted' = TRUE
    /\ UNCHANGED <<stores, gone>>

Start(g, i) ==
    /\ World
    /\ i \notin DOMAIN db[g]
    /\ db' = [db EXCEPT ![g] = With(@, i, "Running")]
    /\ gone' = gone \ {<<g, i>>}
    /\ drifted' = TRUE
    /\ UNCHANGED stores

Relist ==
    /\ World
    /\ stores' \in StoreLists \ {stores}
    /\ UNCHANGED <<db, gone, drifted>>

-----------------------------------------------------------------------------

Init ==
    /\ db = InitDb
    /\ stores = InitStores
    /\ mounted = FALSE /\ url = Blank /\ ui = Mount(url) /\ saved \in Persisted
    /\ storeList = [loaded |-> FALSE, list |-> <<>>]
    /\ appIds = [s \in Stores |-> Unknown] /\ apps = FALSE
    /\ cache = [k \in {} |-> Waiting] /\ fetches = {}
    /\ posts = <<>> /\ live = 0
    /\ steps = 0
    /\ gone = {} /\ late = {} /\ seen = {} /\ mixed = FALSE /\ drifted = FALSE

\* The page's controls, as it lays them out.
Header == \E s \in Stores : onStoreChange(s)
Filters ==
    \/ \E s \in Offered : setStatus(s)
    \/ \E a \in Apps \cup {NoApp} : selectApp(a)
    \/ \E s \in Searches : typeSearch(s)
    \/ toggleChildren
SelectionBar == \E force \in BOOLEAN : openDialog(force)
Table == toggleAll \/ Leave \/ \E i \in Instances : toggleRow(i)
Pager == goPrev \/ goNext
ConfirmRemoveDialog == toggleForce \/ onCancel \/ onConfirmRemove

Act == Header \/ dismissBanner \/ Filters \/ SelectionBar \/ Table \/ Pager \/ ConfirmRemoveDialog

Removing == \E n \in DOMAIN posts :
    Resolve(n) \/ Reply(n) \/ Fail(n) \/ \E i \in Instances : RemoveOne(n, i)

Next ==
    \/ Act \/ Debounce \/ Return
    \/ learnStores \/ learnApps \/ learnAppIds
    \/ Poll \/ \E f \in fetches : Answer(f) \/ Arrive(f)
    \/ Removing
    \/ \E g \in Groups, i \in Movers : Finish(g, i) \/ Start(g, i)
    \/ Relist

\* The server works a removal off and the client hears of it, or of its failure; nothing
\* obliges the user, the engines or, since auto-refresh can be paused, the polls.
Fairness == WF_vars(Removing)

Spec == Init /\ [][Next]_vars /\ Fairness

-----------------------------------------------------------------------------
(* Properties                                                              *)

TypeOK ==
    /\ \A g \in Groups : DOMAIN db[g] \subseteq Instances /\ {db[g][i] : i \in DOMAIN db[g]} \subseteq Status
    /\ stores \in StoreLists /\ storeList.list \in StoreLists \cup {<<>>}
    /\ ui.status \in ALL_STATUSES \cup {NoStatus} /\ ui.app \in Apps \cup {NoApp}
    /\ {ui.input, ui.search} \subseteq Searches
    /\ ui.store \in Stores \cup {NoStore} /\ ui.selected \subseteq Instances
    /\ live \in 0..Len(posts)
    /\ \A f, h \in fetches : f.key = h.key => f = h
    /\ \A k \in DOMAIN cache : cache[k].loaded => DOMAIN cache[k].items \subseteq Instances

\* When every page from the first to the last has been shown over a store that did not
\* change, they hold exactly the instances the filter matches (List fills its pages past
\* rejected keys, Next and Prev keep the tokens).  A filter that changed under the walk -
\* the search box takes effect 250 ms after it resets the paging, the default app and the
\* fallback store do not reset it - is excepted: it can skip rows.
Walk == [n \in 1..(Len(ui.history) + 1) |->
            KeyAt(ui, IF n <= Len(ui.history) THEN ui.history[n].token ELSE ui.page)]
WalkComplete ==
    (/\ mounted /\ ui.store # NoStore /\ ~mixed /\ ~drifted
     /\ Walk[1].page = FirstPage
     /\ \A n \in DOMAIN Walk : Entry(Walk[n]).loaded /\ ~Entry(Walk[n]).error
     /\ nextToken = FirstPage)
    => UNION {DOMAIN Entry(Walk[n]).items : n \in DOMAIN Walk}
           = Matching(db[Group[ui.store]], Filter(ui))

\* The removal dialog targets only rows the page has shown under the store, filter and
\* page of the moment (resetPaging clears the selection for that), except after a filter
\* change that resets nothing, as above.
SelectionSeen == mounted => ui.selected \subseteq seen \/ mixed

\* A row whose removal was reported is not shown again, even with auto-refresh paused,
\* once the page's request is back: the removal refetches the current query, and other
\* queries are fetched when they are returned to.  Excepted is a query whose request had
\* been answered, but not received, when the removal was reported.
RemovedNotShown ==
    mounted /\ ui.store # NoStore /\ ~InFlight(Key(ui)) /\ Key(ui) \notin late
    => \A i \in DOMAIN items : <<Group[ui.store], i>> \notin gone

\* A confirmed removal closes its dialog, whether it is reported, refused or lost.
ConfirmSettles == (live # 0 /\ ui.dialog) ~> ~ui.dialog

=============================================================================

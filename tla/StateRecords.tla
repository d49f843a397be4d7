---------------------------- MODULE StateRecords ----------------------------
(***************************************************************************)
(* The State page of the web client: pages/State.tsx, the hooks of         *)
(* useStateRecords.ts and the new-record dialog, over the state service of *)
(* pkg/state, with other programs that write the same stores.              *)
(*                                                                         *)
(* A store's records are keyed 1..N in the order its backend pages them; a *)
(* page token is the last key scanned.  A read reaches the client in one   *)
(* step; a write is checked, put and answered in steps of their own, and a *)
(* delete goes key by key.                                                 *)
(***************************************************************************)
EXTENDS Naturals, Sequences, SequencesExt, FiniteSets, FiniteSetsExt, TLC

CONSTANTS
    Keys,           \* numbered in the order of the backend
    AppOf,          \* the prefix of a key
    Internal,       \* keys of the runtime: more than one delimiter
    Hits,           \* the keys a search text matches
    Values, Absent, \* what a record may hold; no record
    Stores, StoreLists,     \* the server's lists, as the selector shows them: [shown, active]
    InitList, InitDb,
    NoStore, NoApp, NoSearch, NoKey, NoValue,
    PageSize, MaxScan,
    Typed, Movers,  \* bounds: keys the user types, keys other programs write
    MaxTurns,       \* bound: edits and submissions of one opening of the dialog
    MaxRequests, MaxSteps   \* bounds: requests under way; other actions, failures, changes

\* The names for what is missing are none of what may be there.
ASSUME KeysAssumption ==
    /\ IsFiniteSet(Keys) /\ Keys = 1..Cardinality(Keys)
    /\ Internal \subseteq Keys /\ Typed \subseteq Keys /\ Movers \subseteq Keys /\ NoKey \notin Keys
    /\ PageSize \in Nat \ {0} /\ MaxScan \in Nat
ASSUME StoresAssumption ==
    /\ \A l \in StoreLists \cup {InitList} : l.shown \subseteq Stores /\ l.active \in Stores \cup {NoStore}
    /\ NoStore \notin Stores /\ NoSearch \in DOMAIN Hits
    /\ InitDb \in [Stores -> [Keys -> Values \cup {Absent}]]

FirstPage == 0
Apps == {AppOf[k] : k \in Keys}

VARIABLES
    db, list,       \* the records of each store; the server's store list
    ui, saved,      \* the page; the persisted store
    known,          \* the store list as the client has it
    cache,          \* query |-> [items, next, error]
    form,           \* the new-record dialog
    writes, deletes,    \* requests under way
    steps,
    drifted, mixed, ticked  \* history variables, see the properties

server == <<db, list>>
learnt == <<known, cache>>
requests == <<writes, deletes>>
ghosts == <<drifted, mixed, ticked>>
vars == <<server, ui, saved, learnt, form, requests, steps, ghosts>>

-----------------------------------------------------------------------------
(* The service                                                             *)

\* The keys a query's pattern selects in the backend.
listPattern(D, f) == {k \in Keys : D[k] # Absent /\ f.app \in {NoApp, AppOf[k]} /\ k \in Hits[f.search]}

visible(f) == IF f.internal THEN Keys ELSE Keys \ Internal

\* One key page if internal keys are listed; else on until the page is full, the keys
\* are exhausted or the scan cap is reached.
List(D, f, token) ==
    LET keys == {k \in listPattern(D, f) : k > token}
        scanned(n) == {k \in keys : Cardinality({j \in keys : j < k}) < n * PageSize}
        matched(n) == scanned(n) \cap visible(f)
        enough(n) == \/ f.internal \/ Cardinality(matched(n)) >= PageSize
                     \/ scanned(n) = keys \/ Cardinality(scanned(n)) >= MaxScan
        last == CHOOSE n \in 1..Cardinality(Keys) + 1 : enough(n) /\ \A m \in 1..(n - 1) : ~enough(m)
    IN  [items |-> matched(last), error |-> FALSE,
         next |-> IF scanned(last) = keys THEN FirstPage ELSE Max(scanned(last))]

\* The prefixes with a record the toggle leaves visible.
AppIDs(D, internal) == {AppOf[k] : k \in {k \in visible([internal |-> internal]) : D[k] # Absent}}

-----------------------------------------------------------------------------
(* What the page shows                                                     *)

Filter(u) == [app |-> u.app, search |-> u.search, internal |-> u.internal, store |-> u.store]
queryKey(u) == [filter |-> Filter(u), page |-> u.page]

Loading == [items |-> {}, next |-> FirstPage, error |-> FALSE]
Entry == IF queryKey(ui) \in DOMAIN cache THEN cache[queryKey(ui)] ELSE Loading
isError == Entry.error
items == IF isError THEN {} ELSE Entry.items
Cached(e) == [q \in DOMAIN cache \cup {queryKey(ui)} |-> IF q = queryKey(ui) THEN e ELSE cache[q]]
noStores == known # <<>> /\ known[1].shown = {}

\* The store selected while it is listed, else the persisted one, else the active one.
resolveStore(s, l) ==
    IF l = <<>> \/ l[1].shown = {} \/ s \in l[1].shown THEN s
    ELSE IF saved \in l[1].shown THEN saved ELSE l[1].active

Clean(u) == u.history = <<>> /\ u.selected = {}

\* mixes: the handler changes the filter and keeps the page and the selection.
Render(u, mixes) ==
    /\ ui' = [u EXCEPT !.store = resolveStore(u.store, known')]
    /\ mixed' = (~Clean(ui') /\ (mixed \/ mixes \/ Filter(ui') # Filter(u)))

\* A link's page is shown with the offset of the first; began, the page a walk begins at, is
\* for the properties.
Mount(link) ==
    [store |-> NoStore, app |-> link.app, input |-> link.search, search |-> link.search,
     internal |-> FALSE, page |-> link.page, began |-> link.page, history |-> <<>>, offset |-> 0,
     expanded |-> NoKey, selected |-> {}, confirm |-> FALSE, create |-> FALSE]

Blank == [app |-> NoApp, search |-> NoSearch, page |-> FirstPage]

\* A form that waits for nothing; turns is the bound's, about and strayed are for the properties.
EmptyForm ==
    [key |-> NoKey, value |-> NoValue, result |-> "idle", turns |-> 0, about |-> <<>>, strayed |-> FALSE]

\* The mutation no longer reports to the dialog.
reset(w) == [n \in DOMAIN w |-> [w[n] EXCEPT !.live = FALSE]]

-----------------------------------------------------------------------------
(* The user: filters, pages, rows                                          *)

Step == steps < MaxSteps /\ steps' = steps + 1

Handle(u) ==
    /\ ~noStores /\ ~ui.confirm /\ ~ui.create /\ Step
    /\ UNCHANGED <<server, learnt, form, requests, drifted>>
    /\ Render(u, FALSE)

resetPaging(u) ==
    [u EXCEPT !.page = FirstPage, !.began = FirstPage, !.history = <<>>, !.offset = 0,
              !.expanded = NoKey, !.selected = {}]

Refilter(u) == Handle(resetPaging(u)) /\ ticked' = {} /\ UNCHANGED saved

\* The prefixes offered, read like the list and with the same toggle.
useStateAppIds == AppIDs(db[ui.store], ui.internal)

selectApp(a) ==
    /\ a # ui.app
    /\ a = NoApp \/ (ui.store # NoStore /\ a \in useStateAppIds)
    /\ Refilter([ui EXCEPT !.app = a])

\* The query follows the search box only when its timer fires (Debounce).
typeSearch(s) == s # ui.input /\ Refilter([ui EXCEPT !.input = s])

toggleInternal == Refilter([ui EXCEPT !.internal = ~@])

\* Mutant: the selection outlives the store.
onStoreChange_Keeps(s) ==
    /\ known # <<>> /\ s \in known[1].shown \ {ui.store}
    /\ saved' = s
    /\ Handle([ui EXCEPT !.store = s, !.app = NoApp])
    /\ UNCHANGED ticked

onStoreChange(s) ==
    /\ known # <<>> /\ s \in known[1].shown \ {ui.store}
    /\ saved' = s
    /\ Handle(resetPaging([ui EXCEPT !.store = s, !.app = NoApp]))
    /\ ticked' = {}

Tick(keys) == {<<queryKey(ui), k>> : k \in keys}

toggleRow(k) ==
    /\ k \in items
    /\ LET on == k \notin ui.selected IN
       /\ Handle([ui EXCEPT !.selected = IF on THEN @ \cup {k} ELSE @ \ {k}])
       /\ ticked' = IF on THEN ticked \cup Tick({k}) ELSE {t \in ticked : t[2] # k}
    /\ UNCHANGED saved

toggleAll ==
    /\ items # {}
    /\ LET on == Cardinality(ui.selected) # Cardinality(items) IN
       /\ Handle([ui EXCEPT !.selected = IF on THEN items ELSE {}])
       /\ ticked' = IF on THEN Tick(items) ELSE {}
    /\ UNCHANGED saved

expandRow(k) ==
    /\ k \in items
    /\ Handle([ui EXCEPT !.expanded = IF @ = k THEN NoKey ELSE k])
    /\ UNCHANGED <<saved, ticked>>

\* Mutant: the offset is counted in full pages.
goNext_FullPage ==
    /\ ~isError /\ Entry.next # FirstPage
    /\ Handle([ui EXCEPT !.history = Append(@, [token |-> ui.page, offset |-> ui.offset]),
                         !.offset = @ + PageSize,
                         !.page = Entry.next, !.expanded = NoKey, !.selected = {}])
    /\ ticked' = {} /\ UNCHANGED saved

goNext ==
    /\ ~isError /\ Entry.next # FirstPage
    /\ Handle([ui EXCEPT !.history = Append(@, [token |-> ui.page, offset |-> ui.offset]),
                         !.offset = @ + Cardinality(items),
                         !.page = Entry.next, !.expanded = NoKey, !.selected = {}])
    /\ ticked' = {} /\ UNCHANGED saved

goPrev ==
    /\ ui.history # <<>>
    /\ Handle([ui EXCEPT !.page = Last(ui.history).token, !.offset = Last(ui.history).offset,
                         !.history = Front(@), !.expanded = NoKey, !.selected = {}])
    /\ ticked' = {} /\ UNCHANGED saved

\* The page is left and opened again, by its address or from the menu: what is under way
\* goes on unheard.
Reopen ==
    /\ ~ui.confirm /\ ~ui.create /\ Step
    /\ \E link \in {Blank, [app |-> ui.app, search |-> ui.search, page |-> ui.page]} :
           ui' = [Mount(link) EXCEPT !.store = resolveStore(NoStore, known)]
    /\ mixed' = FALSE
    /\ form' = EmptyForm /\ writes' = reset(writes) /\ deletes' = reset(deletes) /\ ticked' = {}
    /\ UNCHANGED <<server, saved, learnt, drifted>>

-----------------------------------------------------------------------------
(* The user: deleting                                                      *)

Dialog(u) ==
    /\ ~noStores
    /\ ui' = u
    /\ UNCHANGED <<server, saved, learnt, ghosts>>

openConfirm ==
    /\ ui.selected # {} /\ ~isError /\ ~ui.confirm /\ ~ui.create
    /\ Dialog([ui EXCEPT !.confirm = TRUE])
    /\ UNCHANGED <<form, requests, steps>>

cancelConfirm == ui.confirm /\ Dialog([ui EXCEPT !.confirm = FALSE]) /\ UNCHANGED <<form, requests, steps>>

\* The dialog stays open, and can be confirmed again, until an answer arrives.
onConfirmDelete ==
    /\ ui.confirm /\ Dialog(ui) /\ Step
    /\ Len(deletes) < MaxRequests
    /\ deletes' = Append(reset(deletes),
                         [store |-> ui.store, keys |-> ui.selected, left |-> ui.selected,
                          known |-> FALSE, live |-> TRUE, ticked |-> ticked, mixed |-> mixed])
    /\ UNCHANGED <<form, writes>>

-----------------------------------------------------------------------------
(* The user: a new record                                                  *)

openCreate ==
    /\ ui.store # NoStore /\ ~isError /\ ~ui.confirm /\ ~ui.create
    /\ Dialog([ui EXCEPT !.create = TRUE]) /\ Step
    /\ UNCHANGED <<form, requests>>

\* Opening resets the form: nothing that a closed dialog holds or hears is seen again.
closeCreate ==
    /\ ui.create /\ Dialog([ui EXCEPT !.create = FALSE])
    /\ form' = EmptyForm /\ writes' = reset(writes)
    /\ UNCHANGED <<deletes, steps>>

Edit(f) ==
    /\ ui.create /\ form.result # "success" /\ form.turns < MaxTurns
    /\ Dialog(ui)
    /\ form' = [f EXCEPT !.turns = form.turns + 1]
    /\ UNCHANGED <<deletes, steps>>

\* Mutant: a failure outlives the key it was about.
editKeyPart_Keeps(k) == k # form.key /\ Edit([form EXCEPT !.key = k]) /\ UNCHANGED writes

\* Editing the key retires a failure, not a request that has still to fail.
editKeyPart(k) ==
    /\ k # form.key
    /\ IF form.result \in {"conflict", "error"}
       THEN Edit([EmptyForm EXCEPT !.key = k, !.value = form.value]) /\ writes' = reset(writes)
       ELSE Edit([form EXCEPT !.key = k, !.strayed = @ \/ form.result = "pending"]) /\ UNCHANGED writes

editValue(v) == v # form.value /\ Edit([form EXCEPT !.value = v]) /\ UNCHANGED writes

canSave == form.key # NoKey /\ form.value # NoValue

submit(overwrite) ==
    /\ form.result # "pending" /\ Len(writes) < MaxRequests
    /\ Edit([form EXCEPT !.result = "pending", !.about = <<>>, !.strayed = FALSE])
    /\ writes' = Append(reset(writes),
                        [store |-> ui.store, key |-> form.key, value |-> form.value,
                         overwrite |-> overwrite, live |-> TRUE, status |-> "sent",
                         about |-> form.about, strayed |-> form.strayed])

Save == form.result # "conflict" /\ canSave /\ submit(FALSE)

\* Offered on a conflict, whatever the fields hold by now.
Overwrite == form.result = "conflict" /\ submit(TRUE)

-----------------------------------------------------------------------------
(* Timers and reads                                                        *)

Debounce ==
    /\ ui.input # ui.search
    /\ UNCHANGED <<server, saved, learnt, form, requests, steps, drifted, ticked>>
    /\ Render([ui EXCEPT !.search = ui.input], TRUE)

\* A dialog under which the store changes strays from its conflict.  Without stores the
\* page is another one, and the dialog is gone.
learnStores ==
    /\ known' = <<list>> /\ known' # known
    /\ UNCHANGED <<server, saved, cache, deletes, steps, drifted, ticked>>
    /\ Render(ui, FALSE)
    /\ IF list.shown = {} THEN form' = EmptyForm /\ writes' = reset(writes)
       ELSE /\ form' = [form EXCEPT !.strayed = @ \/ (ui.create /\ ui'.store # ui.store)]
            /\ UNCHANGED writes

\* When the query becomes current, at the refresh interval, and after a write.
readList ==
    /\ ui.store # NoStore /\ ~noStores
    /\ \/ /\ ui.store \in list.shown
          /\ cache' = Cached(List(db[ui.store], Filter(ui), ui.page))
          /\ UNCHANGED steps
       \/ /\ IF ui.store \in list.shown THEN Step ELSE UNCHANGED steps
          /\ cache' = Cached([Entry EXCEPT !.error = TRUE])
    /\ cache' # cache
    /\ UNCHANGED <<server, ui, saved, known, form, requests, ghosts>>

-----------------------------------------------------------------------------
(* The server                                                              *)

Serve == UNCHANGED <<list, ui, saved, learnt, form, mixed, ticked>>
Put(s, k, v) == db' = [db EXCEPT ![s][k] = v] /\ drifted' = TRUE

existing(w) == ~w.overwrite /\ db[w.store][w.key] # Absent

\* A key with a delimiter of its own is refused, an existing one is a conflict.
CheckWrite(n) ==
    LET w == writes[n] IN
    /\ w.status = "sent"
    /\ writes' = [writes EXCEPT ![n].status =
                     IF w.store \notin list.shown \/ w.key \in Internal \cup {NoKey} THEN "error"
                     ELSE IF existing(w) THEN "conflict" ELSE "checked"]
    /\ Serve /\ UNCHANGED <<db, deletes, steps, drifted>>

PutWrite(n) ==
    LET w == writes[n] IN
    /\ w.status = "checked"
    /\ \/ Put(w.store, w.key, w.value) /\ writes' = [writes EXCEPT ![n].status = "success"] /\ UNCHANGED steps
       \/ Step /\ writes' = [writes EXCEPT ![n].status = "error"] /\ UNCHANGED <<db, drifted>>
    /\ Serve /\ UNCHANGED deletes

DeleteOne(n, k) ==
    LET d == deletes[n] IN
    /\ k \in d.left /\ d.known
    /\ deletes' = [deletes EXCEPT ![n].left = @ \ {k}]
    /\ \/ Put(d.store, k, Absent) /\ UNCHANGED steps
       \/ Step /\ UNCHANGED <<db, drifted>>
    /\ Serve /\ UNCHANGED writes

\* The handler looks the store up once.
StartDelete(n) ==
    /\ ~deletes[n].known /\ deletes[n].left # {}
    /\ deletes' = [deletes EXCEPT ![n] = IF @.store \in list.shown THEN [@ EXCEPT !.known = TRUE]
                                         ELSE [@ EXCEPT !.left = {}]]
    /\ Serve /\ UNCHANGED <<db, writes, steps, drifted>>

-----------------------------------------------------------------------------
(* Answers                                                                 *)

Answer == UNCHANGED <<server, saved, learnt, drifted>>

\* Only the request the dialog waits for reports to it.
HearWrite(n) ==
    LET w == writes[n] IN
    /\ w.status \in {"success", "error", "conflict"}
    /\ writes' = RemoveAt(writes, n)
    /\ form' = IF ~w.live THEN form
               ELSE [form EXCEPT !.result = w.status,
                                 !.about = IF w.status = "conflict" THEN <<w.store, w.key>> ELSE <<>>]
    /\ Answer /\ UNCHANGED <<ui, deletes, steps, mixed, ticked>>

\* Mutant: a failed connection leaves the dialog waiting.
LoseWrite_Hangs(n) ==
    /\ writes[n].live /\ Step
    /\ writes' = [writes EXCEPT ![n].live = FALSE]
    /\ Answer /\ UNCHANGED <<ui, form, deletes, mixed, ticked>>

\* The connection fails; the server goes on.
LoseWrite(n) ==
    /\ writes[n].live /\ Step
    /\ writes' = [writes EXCEPT ![n].live = FALSE]
    /\ form' = [form EXCEPT !.result = "error"]
    /\ Answer /\ UNCHANGED <<ui, deletes, mixed, ticked>>

\* The answer clears whatever is selected by now; an error only closes the dialog.
HearDelete(n) ==
    LET d == deletes[n] IN
    /\ d.left = {}
    /\ deletes' = RemoveAt(deletes, n)
    /\ ui' = IF ~d.live THEN ui
             ELSE [ui EXCEPT !.selected = IF d.known THEN {} ELSE @, !.confirm = FALSE]
    /\ ticked' = IF d.live /\ d.known THEN {} ELSE ticked
    /\ mixed' = (mixed /\ ~Clean(ui'))
    /\ Answer /\ UNCHANGED <<form, writes, steps>>

LoseDelete(n) ==
    /\ deletes[n].live /\ Step
    /\ deletes' = [deletes EXCEPT ![n].live = FALSE]
    /\ ui' = [ui EXCEPT !.confirm = FALSE]
    /\ Answer /\ UNCHANGED <<form, writes, mixed, ticked>>

-----------------------------------------------------------------------------
(* Other programs                                                          *)

World == Step /\ UNCHANGED <<ui, saved, learnt, form, requests, mixed, ticked>>

Program(s, k, v) == World /\ db[s][k] # v /\ Put(s, k, v) /\ UNCHANGED list

Relist == World /\ list' \in StoreLists \ {list} /\ UNCHANGED <<db, drifted>>

-----------------------------------------------------------------------------

Init ==
    /\ db = InitDb
    /\ list = InitList
    /\ ui = Mount(Blank) /\ saved = NoStore
    /\ known = <<>> /\ cache = [q \in {} |-> Loading]
    /\ form = EmptyForm /\ writes = <<>> /\ deletes = <<>>
    /\ steps = 0
    /\ drifted = FALSE /\ mixed = FALSE /\ ticked = {}

\* The page's controls, as it lays them out, and its dialogs'.
Header == openCreate \/ \E s \in Stores : onStoreChange(s)
Filters ==
    \/ \E a \in Apps \cup {NoApp} : selectApp(a)
    \/ \E s \in DOMAIN Hits : typeSearch(s)
    \/ toggleInternal
SelectionBar == openConfirm
Table == toggleAll \/ \E k \in Keys : toggleRow(k) \/ expandRow(k)
Pager == goPrev \/ goNext
ConfirmDelete == cancelConfirm \/ onConfirmDelete
NewStateRecordDialog ==
    \/ closeCreate \/ Save \/ Overwrite
    \/ \E k \in Typed : editKeyPart(k)
    \/ \E v \in Values \cup {NoValue} : editValue(v)

Act ==
    \/ Header \/ Filters \/ SelectionBar \/ Table \/ Pager
    \/ ConfirmDelete \/ NewStateRecordDialog \/ Reopen

Next ==
    \/ Act
    \/ Debounce \/ learnStores \/ readList
    \/ \E n \in DOMAIN writes : CheckWrite(n) \/ PutWrite(n) \/ HearWrite(n) \/ LoseWrite(n)
    \/ \E n \in DOMAIN deletes :
           StartDelete(n) \/ HearDelete(n) \/ LoseDelete(n) \/ \E k \in Keys : DeleteOne(n, k)
    \/ \E s \in Stores, k \in Movers, v \in Values \cup {Absent} : Program(s, k, v)
    \/ Relist

Spec == Init /\ [][Next]_vars

-----------------------------------------------------------------------------
(* Properties                                                              *)

TypeOK ==
    /\ \A s \in Stores, k \in Keys : db[s][k] \in Values \cup {Absent, NoValue}
    /\ ui.store \in Stores \cup {NoStore} /\ ui.page \in Keys \cup {FirstPage}
    /\ ui.selected \subseteq Keys /\ ui.expanded \in Keys \cup {NoKey}
    /\ ~(ui.confirm /\ ui.create)
    /\ form.result = "pending" => \E n \in DOMAIN writes : writes[n].live
    /\ \A q \in DOMAIN cache : cache[q].items \subseteq Keys /\ q.filter.store # NoStore

\* A delete request names the records the user ticked and has not unticked since, whatever
\* became of the page; and he ticked them on one page of that very store and filter, unless
\* a search that took effect late, or a store that vanished, has moved the page under the
\* selection: then the keys may go to another store than the one they were ticked in.
DeletesTicked ==
    \A n \in DOMAIN deletes :
        /\ deletes[n].keys = {t[2] : t \in deletes[n].ticked}
        /\ deletes[n].mixed \/ /\ \A t \in deletes[n].ticked : t[1].filter.store = deletes[n].store
                               /\ Cardinality({t[1] : t \in deletes[n].ticked}) = 1

\* The pager's numbers count the rows it has loaded (`x-y loaded'): its offset is how many
\* records match from the page this walk began at up to the page shown, however many key
\* pages the service scanned to fill one.  A walk begins at the first page or, when the page
\* is opened at an address with a token, at that page, whose rows are numbered from 1 though
\* records precede them.  Only while nothing has been written and the filter has not changed
\* under the walk.
OffsetCounts ==
    ~drifted /\ ~mixed /\ ui.store # NoStore =>
        ui.offset = Cardinality({k \in listPattern(db[ui.store], Filter(ui)) \cap visible(Filter(ui)) :
                                    ui.began < k /\ k <= ui.page})

\* A write replaces a record only if it lost the race between its check and its put, or
\* the user confirmed the overwrite of that key in that store; a conflict that arrives
\* after he has edited the key, or under a store that has changed, is confirmed for another.
ReplacesKnowingly ==
    [][\A n \in DOMAIN writes :
          LET w == writes[n] IN
          w.status = "sent" /\ CheckWrite(n) /\ writes'[n].status = "checked"
              /\ db[w.store][w.key] # Absent
          => w.overwrite /\ (w.about = <<w.store, w.key>> \/ w.strayed)]_vars

=============================================================================

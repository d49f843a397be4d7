# Formal models of the Dev Dashboard

The dashboard (`cmd/`, `pkg/`, `web/`) shows the Dapr applications of a developer's
machine and the workflows and state records of the store they use. This directory holds
TLA+ models of it, TLC configurations that check them on small instances, and proofs that
TLAPS checks for every value of the constants. `PROJECT.json` is the index: for every
definition that models code, the lines it stands for; for every property, the runs that
check it and a mutated definition that breaks it; the hazards; the theorems.

    tlc -workers 2 -config MCConnPool.cfg MCConnPool     # any other MC module alike
    tlapm ConnPoolProofs.tla     # and RegistryOpsProofs, ConnRegistryProofs, ReconcilerProofs,
                                 # WorkflowsProofs, StateRecordsProofs, PagesProofs,
                                 # WorkflowHistoryProofs

## The system

| Component | Code | State | Operations | What is hard | What makes it correct |
|---|---|---|---|---|---|
| connection pool | `cmd/connpool.go` | slots by identity, closed flag; a slot has a done channel, a store, an error | openOrGet, evict, Close | the open runs without the lock; evict and Close overlap it | no connection is lost, closed twice or closed while served; every call returns |
| connection registry | `cmd/registry.go` | entries, `connections.yaml` | load, UpsertAuto, Add, Update, Delete, Undismiss, save | save may fail or be killed; files of older versions | ids are unique; manual entries and tombstones are durable |
| election | `cmd/derive.go`, `cmd/workflow.go` | none | derivePaths, appsFingerprint, newStoreRegistry | a fingerprint stands for all inputs | the active store is a function of what the fingerprint covers |
| reconciler | `cmd/reconciler.go` | fingerprint, election, single-flight flag, closed flag | polls, reconcile, AddStore, UpdateStore, DeleteStore, StateFor, ServiceFor, Close | three mutexes taken one after another; polls are dropped; edits overlap a reconcile | the active store settles and is never hidden; stale connections are evicted |
| lifecycle | `pkg/lifecycle` | snapshots of stopped instances, suppressed keys | overlay List and Get, start, stop, restart, Dismiss, ClearInactive | acts on lists that are already old; a stop takes seconds while polls go on | what is stopped stays listed until it is started or dismissed; what is dismissed stays away until it runs |
| discovery | `pkg/discovery` | short caches of container scans | List, Get | partial results, several sources for one app | one instance per sidecar |
| workflow service | `pkg/workflow` | none of its own; sidecar connections | List, Get, Stats, remove | pages with a scan cap, a composite of two sources, removal in steps | no instance is lost or repeated across pages |
| state records | `pkg/state` | none | List, Get, Set, Delete | check then write | a record is replaced knowingly; what is deleted was chosen |
| news and update caches | `pkg/news`, `pkg/updatecheck` | last good answer, failure time, fetch in flight | Get | one fetch for many callers, stale answers, cancelled callers | at most one fetch; callers are always answered |
| logs | `pkg/logs`, `pkg/server/logs.go` | file offset, partial line | Tail | truncation and rotation between ticks | no line twice, none lost while the file only grows |
| control plane | `pkg/controlplane` | names seen in the last listing | List, start, stop, restart | acts on what an older listing said | |
| web: workflow list | `web/src/pages/Workflows.tsx`, its hooks and dialog | filter, page, walk, selection, dialog; query cache | filters, paging, selection, removal | timers, fallbacks and late answers change what is under the user's hands | what is removed was seen; walks are complete; removed rows stay away |
| web: workflow instance | `web/src/pages/WorkflowDetail.tsx`, `web/src/lib` | selection, address, order, dialog; last history | pairing, jumping, copying links, removal | rows are named by position while the history grows | pairs are real, the selected event stays selected |
| web: state | `web/src/pages/State.tsx` | the same as the workflow list, and a form | filters, paging, deleting, creating | the same, and a form that waits while it is edited | |
| web: applications | `web/src/pages/Applications.tsx`, `AppDetail.tsx` | list and detail queries, dialog, mutations | stop, start, restart, remove, clear | callbacks of content that is gone | |
| web: logs | `web/src/pages/Logs.tsx`, `useLogStream.ts` | two buffers, event sources, follow mode | selecting, toggling, scrolling | reconnects, a change of target under open streams, merging | a buffer holds its own log; the merge keeps each stream's order |
| web: resiliency builder | `web/src/pages/resiliency-builder` | one configuration | dialogs, renames, removals, wizard | references by name | every reference names a policy that is there |
| web: other pages, component builder | `web/src` | | | | |
| boot, HTTP server, resources, metadata, container runtime, self update | `cmd`, `pkg/server`, ... | none to speak of | | | |

The interactions: every request that lists the apps goes through `reconcilingApps`, which
may start a reconcile; the reconcile writes the registry, publishes the election and opens
the elected store in the pool; the API's connection requests read and write the registry
and evict from the pool; workflow and state requests resolve an id through the registry or
the election and open the connection in the pool. Shutdown closes the reconciler and the
pool under them. The web client polls: each page holds queries that are fetched again on an
interval, on focus and after a mutation, an answer goes to the key it was asked for, and only
the last mutation of a mounted page calls back. Whatever the user does rests on an answer that
is already old.

## The modules

**`ConnPoolSpec`** is what the pool promises: per identity at most one connection is served,
a connection is opened, published and closed once each and never closed while it is served,
and a closed pool serves nothing.

**`ConnPool`** is the code: goroutines (`Callers`) inside openOrGet, evict and Close, a `pc`
and the slot each works on. One action is one critical section, one wait on a channel, or
one call on a store; the end of an open (`Admit`/`Refuse`, then `Publish` or
`CloseRefused`) is split as the code splits it, outside the lock. A slot is one `poolSlot`
object, allocated once: `key` is the identity it was made for, `done` its channel, `held`
its `store` field, `conn` the connection the opener returned. `displaced` is history: slots
another slot's open removed with `delete(p.slots, id)`.
`Promise == INSTANCE ConnPoolSpec` maps an identity to its published slot and a connection
to its stage; `KeepsPromise` is the refinement.

**`RegistryOps`** has the mutators of the registry as operators on sets of entries, and
**`ConnRegistry`** the state around them: memory, file, the running save, kills and
restarts, and files an older version wrote. Since mutators hold the mutex over their save,
no two of them overlap; the save may fail at any of its steps, and memory then keeps the
change, as in the code.

**`Election`** has the pure part: what derivePaths, appsFingerprint, Detect and
newStoreRegistry compute of a list of apps. The six levels of precedence are six sets, and
the elected component is the first one, in the order of detection, of the first set that is
not empty.

**`Reconciler`** composes the two with the pool: pollers whose app lists grow old while they
hold them, the reconcile with one step per upsert and undismiss, the publication and the
pre-warm; DeleteStore and UpdateStore as lookup, check, registry step and eviction;
selection as lookup and open; Close. `rc.mu`, the registry's mutex and the pool's are never
held together, so these are the atomic steps. The registry's file is left to
`ConnRegistry`: memory changes whether or not the save succeeds. The pool is taken at the
word of `ConnPoolSpec`: an open or an evict is one step.

Two modules take values for it: **`MCReconciler`** (two apps whose stores compete, no selection)
and **`MCRequests`** (no apps, connections edited and selected). One model with both is too
large for TLC, and what each leaves out does not touch the properties of the other: the pool
plays no part in the election, and manual entries play none in it either.

**`WorkflowService`** is the store-backed workflow service as operators on a store's data
(instance to status): `List` fetches key pages until the page is full, the keys are exhausted
or the scan cap is reached, and its token is the place of the last key scanned; `Removals` is
the set of what Remove may leave, per mechanism, failures included. A metadata key whose
history is gone decodes to `Pending`.

**`Workflows`** is the page over it. `ui` is the page's React state, `cache` and `fetches` the
query client, `posts` the removal requests with the server's progress through their targets
(one that is served and heard of is cleared), `db` the stores, which engines go on writing. A
handler is one action with the effects React runs after it (`Render`: the store fallback, the
default app, the fetch of a new key); the search timer (`Debounce`), answers and polls are
actions of their own. Requests of one key are shared and cancelled as the query client does it.

**`WorkflowHistory`** is the page of one instance: `buildPairIndex` and `sortHistoryForDisplay`
(by rank: each event at its place), the selection, the jump to the address (`lastHash` is
`lastAutoSelectedHash`), anchors copied and opened in a new page, and the removal dialog;
`followed` is history: whether the page has jumped since it came to its address, which `NoYank`
holds against what the code remembers; the engine appends events in the order it processes
them, stamps a completion with the time it happened at, reuses sequence ids, and may continue
as new.

**`StateRecords`** is the state page over the state service: the same page logic (`List` here
counts internal keys out), the new-record form (`form`, `turns` bounds one opening of it) and
the requests. `ui.began` is history: the page a walk began at, which is not the first when the
address has a token. A write is checked (`CheckWrite`), put and answered in separate steps, a delete
goes key by key, other programs write in between. A read is one step: an old answer differs
from an old page only in what polling repairs.

**`AppLifecycle`** has processes and containers, what a scan sees of them (`enrich`), the
overlay (`List`, `Get`, `reconciled`, `synthesize`) and the manager. An instance is a `dapr
run` (a CLI that supervises an app and its sidecar; every start takes new pids) or a compose
pair. A listing is scanned in one step and goes through the overlay in a later one; a stop
resolves and records in one step (`doResolve`) and then signals process by process (`Perform`);
`ClearInactive` lists, and then dismisses one instance after the other (`clearNext`), as the
world goes on. **`AppPages`** adds the applications list and the detail page: a mutation that
succeeds waits for both queries it invalidates before its page's callback runs, and a page
whose content is gone takes its callbacks along (`orphans`).

**`LogView`** is the logs page: one event source per slot in use, the tail that answers it
(backfill, half lines), a change of target under open sources, the merge of two sources (one is
shown as it comes), follow mode. Logs are written in halves of lines, so that a tail can start
inside one. A line's clock token is any number: `parseLogTime` drops the date and takes the first
token of the text, so nothing orders the tokens of a log.

**`ResiliencyBuilder`** is the wizard: `upsertWithRename` is the save of a policy dialog,
`remapPolicyRefs` the cascade into the targets, one action per dialog, since a dialog is modal
and edits a copy.

**`MCPages`** runs the last four as sessions that share nothing, one chosen at the start: `run`
and `compose` (the applications, one instance of each kind, of which the other is left alone),
`logs`, `builder`.

## The runs

| Run | Module | Instance | Shows |
|---|---|---|---|
| conn_pool | MCConnPool | 3 callers, 2 identities, 2 slots | safety, refinement and liveness of the pool |
| pool_leak | MCConnPool | 3 callers, 2 identities, 3 slots, symmetric | `NoLeak` fails: see below |
| conn_registry | MCConnRegistry | 2 spellings of one path, 2 names, 1 value, 3 old files | ids, durability |
| registry_acked | MCConnRegistry | the same | `AckedOnDisk` fails |
| reconciler | MCReconciler | 2 apps, 3 components, 2 pollers, 1 editor, 1 change, 1 edit | single flight, the fingerprint gate, tombstones, convergence |
| active_hidden | MCReconciler | the same | `ActiveListed` fails |
| tombstone | MCReconciler | the same | `TombstoneClearedOnlyByElection` fails |
| requests | MCRequests | 2 editors, 1 reader, 3 values, 2 edits, Close | pooled metadata is current |
| workflows | MCWorkflows | 5 instances of 2 apps, 3 store ids over 2 stores, pages of 2, a scan of 4, 2 requests in flight, 3 steps | walks, selections, removals, dialogs |
| history | MCWorkflowHistory | 2 instances, 2 reused ids, 7 events, 2 times, 3 user actions | pairs, selection, jumps, removal |
| state | MCStateRecords | 7 keys, 2 stores, pages of 2, a scan of 4, 2 writes, 2 deletes, 3 steps, 5 edits of a form over 2 keys | deletes, offsets, knowing replacement |
| pages | MCPages | 1 run with 2 starts and 1 compose pair, 2 scans, 3 steps; 2 apps, 2 services, buffers of 3; 3 policy names, 4 edits | stopped and removed instances, log view, builder |

Bounds, and why they are enough. Three callers are the fewest that overlap two opens of an
identity with an evict or a Close; two slots are two opens, one of which can displace the
other; a second identity shows that they do not disturb one another. Two
spellings of a path exercise the normalised comparison, two names the rename clash, and the
old files hold an entry without id, a manual entry on the path of a component, and a
tombstone. `MaxChanges = 1` is one change of the apps after a boot that has already elected:
the polls of before and after it overlap, which takes two pollers. `MaxEdits = 1` is one
delete, which is enough to race one election; `requests` has two edits so that one can
overtake the other. Comparisons of fingerprints and of names do not depend on more values.

For the pages a step (`MaxSteps`, `MaxWrites`) is a user action, a failure or a change of the
world; answers, timers and what follows from them are free. Three steps are a filter, a
selection and a page, or a selection, a confirm and a change of the store under it. Five
instances with a scan of four are the fewest for which a filtered page ends at the cap, at its
size and at the last key, each with something after it; seven state keys leave records before
the page that a link opens, and after it. Seven events are two tasks on one
reused id with a late completion between them, and what `ContinueAsNew` leaves. Two starts of a
run are one older scan; two scans are one given up and its successor. Buffers of three lines
overflow with the backfill of two. Four edits of the builder are a policy, a target that refers
to it, a rename and a new policy of the old name.

Fairness. In `ConnPool` every started call that can take a step takes it
(`WF_vars(Advance(c))`): goroutines are scheduled, nothing waits with the lock held, and an
open is bounded by `connectTimeout`, which every caller's context has. Nobody is obliged to
call or to finish using a connection. In `Reconciler` the pollers keep listing (the client
polls the app list), started reconciles and requests go on; the apps need not change.
`MCRequests`, the registry and the violations, which are all of safety, need none.
In `Workflows` a confirmed removal goes on, on the server and back to the client
(`WF_vars(Removing)`): the handler loops over its targets and the browser settles every
request. Nothing else is fair: auto-refresh can be paused, and users and engines owe nothing.
The other page models are of safety.

The runs that fail are findings, each with the sentence of the source that says otherwise:

* `NoLeak`: openOrGet deletes by identity, not by slot. Goroutine A opens, B evicts and
  waits, C opens the same identity again; A's re-check deletes C's slot, and C's connection is
  published in a slot no map has. `LeakOnlyWhenDisplaced` shows that there is no other way.
* `AckedOnDisk`: after a failed save the same UpsertAuto returns nil without saving.
* `ActiveListed`: DeleteStore hides a store that an overlapping reconcile elects.
  `ActiveHiddenOnlyByRace` shows that only the two windows named there do that.
* `TombstoneClearedOnlyByElection`: a reconcile also brings back stores that a running app
  provides and that were not elected. The code means it (`ProvidedHiddenOnlyByUser`); the
  README and ARCHITECTURE say otherwise.

`PooledIsCurrent` has exceptions, and they are deliberate: requests that overtook one another
between their lookup and its use, and edits whose save failed (the code returns before it
evicts). Both are recorded in `overtaken` where they happen, so that what remains is the
claim for requests that do not overlap an edit.

The page properties have exceptions too, each a history variable set where it happens and
named in the property's comment; what is left is claimed without them. They are what these
models found out about the code:

* `mixed` (`Workflows`, `StateRecords`): a filter that changes without `resetPaging` - the
  search takes effect 250 ms after its box reset the paging, the default app and the fallback
  for a vanished store reset nothing. A walk may then skip rows, and on the state page an open
  delete dialog names keys ticked in one store and deletes them from another
  (`State.tsx:171-178`). An address with a page sets nothing: the state page opened at it numbers
  its rows from 1 (`State.tsx:135,139`), and `OffsetCounts` says so by counting from `began`.
* `late` (`Workflows`): an answer given before a removal and received after it shows the row
  once more. Only the latest confirm calls back, so an earlier removal's result is not shown,
  and its success clears whatever is selected by then. A force delete that fails half way
  leaves a row that cannot be resolved, hence not be removed, again.
* `shifted` (`WorkflowHistory`): rows are addressed by position, so an event that is processed
  late, continue-as-new and the way to a child instance move another event under the selection.
  Reused ids light up every row of that id, where the comment (`WorkflowDetail.tsx:391-393`)
  speaks of both rows of a pair.
* `moved` (`WorkflowHistory`): the dialog survives the browser's back button, and removes the
  instance that is then shown. The page is left even when the removal reports a failure.
* `strayed` (`StateRecords`): the key may be edited while a save is under way, and its late
  conflict is then offered for overwriting under the new key; Overwrite is not gated by
  `canSave`.
* `late`, `older` (`AppLifecycle`): a scan older than a stop or a removal drops the snapshot
  (its pids look like a restart) or lifts the suppression. `Get` does not lift it. When the list
  answers later than the detail's 404, the stop of an orphan does not lead back to the list.
* The clock (`LogView`): the merge of two sources sorts by clock tokens. Where they go back
  between two lines of one stream - past midnight, at a token that is part of a line's text, or at
  the backfill a reconnected source is sent again - the view follows them, and the two lines are
  out of order or the newer one is dropped at the cap. `MergeKeepsStreams` therefore speaks of
  pairs of lines with no such step between them (`forward`), and with a single source of all. The
  buffer keeps lines that were sent twice. A 404 while an app restarts ends its stream for good.

In the builder, a target that a cascade emptied still counts in `canContinue`
(`reducer.ts:203-206`).

## The proofs

`ConnPoolProofs` proves `Spec => []Inv` for any sets of callers, identities and slots; the
only assumption is that the nil slot is not a slot. The safety properties are not inductive.
What `Inv` adds to them is ownership:

* a slot has one opener, and its channel is not closed before that one ends (`OneOpener`);
* a slot is cached under its own identity only (`KeyOfCached`), and is in the map, with one
  evict, or with Close, never with two of them (`OneRemover`, `OneCloser`);
* what the opener's phase says of the connection (`PhaseConn`), and that a slot which ends
  in an error has left the map (`ErrorNotCached`);
* an admitted slot is still in the map unless somebody took it out (`AdmittedKept`): the
  conjunct that fails without `displaced`, and where `NoLeak` is lost;
* a held slot that the map, evict or Close has is open (`HeldOpen`).

One lemma per action shows that the action keeps `Inv`; the theorems follow.
Its last section proves `Spec => KeepsPromise` on top of it: each action is mapped to
`Open`, `Publish`, `Withdraw`, `Shut` or `Close` of the promise or to a stutter, and `Inv`
supplies what a `Shut` needs (the slot is no longer served).

`ConnRegistryProofs` proves the registry's invariants and action properties for any paths
(with any normalisation that keeps the empty path apart), names and values. There are three
copies of the entries: memory, the file, and what a restart would make of the file
(`Backfilled(disk)`). `Inv` says that memory and that third copy are both `Sound` (ids
unique, only auto entries dismissed), that a written temporary file is what memory holds, so
the rename cannot bring anything else (`TmpIsMemory`), and that every manual entry and every
tombstone of the file is still in memory, or was edited or undismissed there (`ManualKept`,
`TombstoneKept`): memory may run ahead of the file, and the next save then makes the file
follow. One lemma per mutator says that it keeps sound entries sound, and what it keeps of
manual entries and tombstones (`RegistryOpsProofs`; the reconciler's proofs use them too). It
rests on two assumptions: about normalisation, and that files of older versions have the shape
those versions wrote.

`ReconcilerProofs` begins with the pure part. `FingerprintDecides`: two lists of apps with one
fingerprint elect the same store and provide the same ones. The multiset of loaded names is
what carries it: a name is loaded exactly if its count is not 0, which needs the set of apps
to be finite. `ElectsDetected` and `ProvidedFirst` say which store is elected; that a first
component exists at all is that the natural numbers are well-founded.

The rest is about the reconciler with any number of pollers, editors, readers, apps and
components. `SingleFlight` needs two facts of the invariant (`Exclusive`): while the boot
reconcile runs no poller has a list, so none can claim; and the flag is up as long as a
poller's reconcile runs. `ElectedForFingerprint` needs that a reconcile elects for the very
list whose fingerprint it publishes (`Lists`, `Published`), and `FingerprintDecides` for the
other lists with that fingerprint. `Inv` is these; `FullInv` adds three parts.

* `Types`, from which `TypeOK` follows: the registry's entries stay sound under every mutator.
* `Tombstones` says what a reconcile has done by each of its phases (`AllDone`): the stores it
  is through with are registered, and those it is to bring back are shown, unless a DeleteStore
  hid them in the meantime (`raced`, `userHid`); once it has published, the same holds for as long
  as the fingerprint stands (`ActiveShown`, `ProvidedShown`). A DeleteStore past its check hides
  another store than the one that was active then (`Compared`). `ActiveHiddenOnlyByRace` and
  `ProvidedHiddenOnlyByUser` follow.
* `Pooled`: each pooled connection has the metadata its manual entry has now, or its eviction is
  the next step of an edit, or it is a component file's, or its identity is in `overtaken`.
  `PooledIsCurrent` follows.

One lemma (`StepEffect`) says what any step does to a component that is registered: it stays so,
and only a DeleteStore hides it. That the registry starts with entries `ConnRegistry` can leave in
its file is the last part of `ReconcilerAssumption`.

`PagesProofs` proves that the targets of the resiliency builder stay sound for any names, any
reserved ones and any targets. `BuilderInv` is `TypeOK /\ TargetsSound`; the two lean on one
another: a cascade is sound because references are functions on the three fields (`remapRef`
then touches one of them), and it stays well typed because the new name is one. The lemmas
follow the code: what one `remapRef` does to a sound leg, what the cascade of a removal and of
a rename does to all targets, what `upsertWithRename` makes of both, then one lemma per action.
The assumptions are that `None` is no name and that the reserved names are names.

It proves `ViewFaithful`, too, for any apps, services, logs, stamps and bounds.
`LogsInv` says that a slot shows the path the page gives it (`Pathed`); that its buffer holds
lines of that log (`Buffered`, where `SentFacts` says which line a message of a tail carries, half
lines included); and that it has at most one event source, to that path, and is open only if that
one is (`Connected`). `MergeKeepsStreams` is about the two buffers whatever they hold: `before` is
a total order on their entries, and two lines of a stream between which the tokens do not go back
are in it as they arrived, since a line without a token takes that of the line before it
(`StreamOrder`); `sorted` is by rank, and that every rank is taken by one entry is a pigeonhole
(`PlaceOnto`). `StampAssumption` only gives every log its tokens.

`WorkflowsProofs` begins with one page of the listing, for any data, filter, page size and
scan cap (`ServiceAssumption` gives instances distinct places). A page holds exactly the matches
after its token and up to its next one (`PageCoversRange`), so the page the token leads to
adjoins it (`PagesAdjoin`), and a filtered page that is short and not the last has reached the
scan cap (`ShortPageIsCapped`). That `List` stops at all, and that the keys it scanned are those
up to its last one, are the well-ordered naturals.

The rest is about the page, for any stores, instances, requests and bounds. `All` has four parts.

* `Inv`: the rows the current query holds are in `seen` (`HeldSeen`), since an answer adds to it,
  a new query starts it anew, and a selection takes from it; `SelectionSeen` follows. The key lemma
  is `RenderInv`: a handler may clear the selection, declare that it changes the filter, or keep
  the query and select what was seen, and `mixed` is set exactly when the effects after it change
  the filter again. `Shapes` names the fields of the records, which the prover must know to
  update them.
* `Typed`, which gives `TypeOK`. It needs that no request is made without a store, which is the
  query's `enabled` condition (`Workflows.tsx:190`); an invalidation has to observe it too.
* `Current`, which gives `RemovedNotShown`: what was reported removed is `Absent` from the data;
  answers under way hold none of it unless they were late (`Asked`); nor do the rows of the
  current query once its request is back (`Held`).
* `Walked`, which gives `WalkComplete`: over an unchanged store every answer still holds
  (`Stable`), and each page of the history gave the token of the one after it (`Chained`). That
  pages which follow one another make up all matches (`PagesComplete`) is by the first page whose
  next token is not before the instance, so it needs no induction along the walk.

`StateRecordsProofs` proves `TypeOK`, `DeletesTicked`, `OffsetCounts` and `ReplacesKnowingly`
for any keys, filters, lists of stores and bounds. `OffsetCounts` needs that, while nothing was
written, every page in the cache has as many rows as there are records between its token and the
next, and that the history's offsets count the records between `began` and its tokens (`Offsets`);
`DeletesTicked` needs that what is selected was ticked on the page that is shown (`Selection`);
`ReplacesKnowingly` which request an open form waits for (`Awaited`) and which key and store a
conflict is about (`Conflicts`). All of it rests on `Settled`: the store on the page is the one
its list resolves to, so that only a new list or the selector moves it. The assumptions are that
keys are numbered in the order of the scan and that the lists name stores. The proof showed that
unticking a row must forget every tick of its key, which the model's history now does.

`PagesProofs` also proves `Remembered`, `StoppedStaysListed` and `HiddenStays`, for any runs,
compose pairs, bounds and requests. A pid stands for a process of one start, so what a scan
shows is decided by when it was taken: the processes of a run carry the number of its last
start (`Processes`); a scan that nothing overtook saw all that is up, under those pids
(`Scans`); the snapshot of a remembered run is of its last start, so no current scan passes for
a restart (`Memory`). What may be listed since it was last dismissed is listed, or the list is
older (`StillListed`); an instance in `hidden` is down, forgotten and suppressed, or an older scan
spoke for it (`Hidden`). The assumptions are that a run is not also a compose pair, and that the
instances are finitely many, so that a clearing comes to an end.

`PagesTypeOK` is proved of `MCPages`' own specification, whose sessions are steps of one page
and none of the others (`SessionsApart`). `AppsTyped` is its inductive form for the applications:
the processes of a run are of starts there were (`Counted`, `Snapshots`); a listing that is given
up is no longer awaited when the next one is sent, so that at most one is (`Listings`); a request
that is still to call back has its page under it, since leaving a page orphans its requests
(`Asking`); and a dialog of a detail page is over content that is there, since an error takes both
away (`Dialogue`). The assumptions are that `NoKey` is no key and that runs have been started once.

`WorkflowHistoryProofs` proves all properties of `WorkflowHistory`, for any instances, ids and
bounds: `TypeOK`, `PairsAreReal`, `SelectionStays`, `RemovesOpened`, `NoYank`. `HistInv` has three
parts.

* `Logged` is about the engine. In a history it writes (`Written`), starts and completions of
  one id take turns (`TakeTurns`): a completion follows the start of its task and nothing
  follows a start but its completion. Times may go back from one event to the next, but not
  among the events of one id. The display order, which is by pin, time and place, therefore
  keeps the turns (`SortKeepsTurns`; that the places are all taken is a pigeonhole), and so the
  pass of `buildPairIndex`, which compares ids only, finds the start of the completed task
  (`WrittenPairs`). `After` says what the pass has found by each row. The pass is a recursive
  function: that it exists, and that `After` holds to its end, are by `Steps` (a set with 0 and
  every successor holds all numbers), which is the well-foundedness of the numbers.
* `Page`: what the page holds was written by the engine; the selection, a copied link and the
  address point at rows of it. A history that grows in time keeps its rows where they were
  (`InTimeKeepsRows`), so what they point at stays; `SelectionStays` follows, but for `shifted`.
* `Confirmed`: the dialog is open on the page it was opened on, and requests remove what it was
  opened for, or `moved` is set.

`NoYank` needs that the page has the address it follows recorded for as long as it has not left
it, that is `followed => lastHash = hash` (`Followed`), through every way the page comes to an
address.

The assumption is that 0 is no id, that a child is not its parent, and room for three events.
The model had remembered which event a followed link means in a way that was not
inductive; what `Poll` says of it is simpler for it.

Model-checked only: liveness (`CallsReturn`, `CloseDrains`, `Converges`, `ConfirmSettles`),
which is out of the prover's reach. Every safety invariant and action property of a passing run
is proved.

## Not modelled, and left out of the models

Left out of modelled components: compose address translation, secret resolution and the
contents of metadata (a value, and the part of it that `ConnInfo` shows); `UpdatedAt` and the
panel's sort; the explicit state-store path, which replaces the scan; target resolution and the
sidecar selection; the aspire mode's extra paths; component files that change while the
dashboard runs; Aspire and Testcontainers instances, failing snapshots, reused pids and the
standalone start (the pages never offer it); the composite of a store with sidecars,
statistics, that a list page which is left and entered again forgets its pending removals and
enables their buttons; the order of rows and the grid of metadata of the workflow pages; sizes
and encodings of state records; search texts of logs, truncation and rotation of their files.
The cache of a query is never collected. The components without modules are listed in
`PROJECT.json` with the reason: the news and update caches and the control plane are small and
sequential but for one mutex or one shared fetch; self update, container runtime, resources and
metadata are I/O.

## What could follow

1. A reconciler instance with two stores in one file and one where apps exchange paths.
2. The composite of the workflow service, under the walk of `Workflows`.
3. The shared fetch of the news cache; truncation between two ticks of a tail.
4. Theorems: the refinement of the reconciler's pool steps by `ConnPoolSpec`.

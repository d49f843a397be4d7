----------------------------- MODULE Reconciler -----------------------------
(***************************************************************************)
(* The reconciler of cmd/reconciler.go: polls of the app list fire a       *)
(* fingerprint-gated, single-flight reconcile, which upserts the detected  *)
(* stores in the registry, elects the active one and pre-warms it, while   *)
(* API requests add, update, delete and select connections.                *)
(*                                                                         *)
(* rc.mu, the registry's mutex and the pool's are taken one after another  *)
(* and never held together, so each critical section is a step.  The       *)
(* registry's file is ConnRegistry's matter (memory changes whether or not *)
(* the save succeeds) and the pool is taken at its word: openOrGet and     *)
(* evict are the single steps ConnPool implements them as.                 *)
(***************************************************************************)
EXTENDS RegistryOps, Election

CONSTANTS
    Pollers,     \* goroutines that serve a request which lists the apps
    Boot,        \* the synchronous reconcile of assembleOptions
    Editors,     \* goroutines that serve an Add, Update or Delete of a connection
    Selectors,   \* goroutines that serve a workflow or state request
    Closers,     \* goroutines that shut the reconciler down
    PathOf,      \* the file of a component
    TypeOf,      \* what UpsertAuto records of a component besides its name
    ConnOf,      \* ConnInfo of a component and of a manual entry's metadata
    NotPooled,   \* no connection for an identity
    NoConn,      \* ConnInfo of a component without metadata
    NoFp,        \* no reconcile has been published
    OldWorlds,   \* what discovery may report at start
    OldEntries,  \* registry contents LoadRegistry may return
    MaxChanges,  \* bound: changes of the set of apps
    MaxEdits     \* bound: Add, Update and Delete requests

ASSUME ReconcilerAssumption ==
    /\ Boot \notin Pollers /\ NotPooled \notin Values
    /\ PathOf \in [Comps -> Paths]
    /\ TypeOf \in [Comps -> Values]
    /\ \A c \in Comps : NameOf[c] \in Names
    /\ DOMAIN ConnOf = Comps \cup Values
    /\ \A w \in World : Fingerprint[w] # NoFp
    /\ MaxChanges \in Nat /\ MaxEdits \in Nat
    /\ OldWorlds \subseteq World
    /\ OldEntries \subseteq SUBSET ConnEntry
    \* what ConnRegistry keeps true of its file, and AddStore and UpdateStore set no path
    /\ \A E \in OldEntries :
          /\ WellFormed(E)
          /\ \A e \in E : e.source = "manual" =>
                ~e.dismissed /\ \A c \in Comps : Norm[e.path] # Norm[PathOf[c]]

Callers == Editors \cup Selectors

VARIABLES
    world,        \* what discovery would report now
    entries,      \* the registry's entries
    pool,         \* pooled connections: the secret each identity was opened with
    poolClosed,   \* the pool's closed
    elected,      \* electedReg.active()
    fp,           \* rc.fp
    closed,       \* rc.closed
    reconciling,  \* rc.reconciling
    poll,         \* each poller: where it stands and the app list it got
    job,          \* the reconcile each poller (or Boot) has started
    call,         \* each caller: where it stands and what it looked up
    changes,      \* changes of the apps so far
    edits,        \* edit requests so far
    userHid,      \* history: files hidden by DeleteStore and not undismissed since
    raced,        \* history: of these, those hidden while an election was under way
    overtaken     \* history: identities a request left pooled with metadata that
                  \* another one had replaced, or whose edit was not saved

vars == <<world, entries, pool, poolClosed, elected, fp, closed, reconciling,
          poll, job, call, changes, edits, userHid, raced, overtaken>>

env   == <<world, changes>>
store == <<entries, userHid, raced>>
conns == <<pool, poolClosed, overtaken>>
state == <<elected, fp, closed>>

-----------------------------------------------------------------------------
(* Components, identities, the pool                                        *)

\* statestore.Component: its name, what ConnInfo shows of its metadata, the rest.
CompOfDoc(c) == [name |-> NameOf[c], conn |-> ConnOf[c], secret |-> TypeOf[c]]
CompOfManual(e) == [name |-> e.name, conn |-> ConnOf[e.value], secret |-> e.value]

\* A bare component, which cannot be connected to.
Bare(e) == [name |-> e.name, conn |-> NoConn, secret |-> NotPooled]

\* The components of one file.
InFile(key) == {c \in Comps : Norm[PathOf[c]] = key}

\* componentForEntry: an auto entry stands for the first component of its file.
CompOf(e) ==
    IF e.source = "manual" THEN CompOfManual(e)
    ELSE IF InFile(Norm[e.path]) = {} THEN Bare(e)
    ELSE CompOfDoc(First(InFile(Norm[e.path])))

\* identity: secrets-free.
Identity(k) == <<k.name, k.conn>>

Identities == {Identity(CompOfDoc(c)) : c \in Comps}
              \cup {<<n, ConnOf[v]>> : n \in Names, v \in Values}
              \cup {<<n, NoConn>> : n \in Names}

\* The metadata k was resolved from is still what the file or the registry says.
UpToDate(k) ==
    \/ \E c \in Comps : CompOfDoc(c) = k
    \/ \E e \in entries : e.source = "manual" /\ CompOfManual(e) = k

\* openOrGet: the cached connection, or a new one, or an error.
OpenOrGet(k) ==
    \/ /\ ~poolClosed /\ pool[Identity(k)] = NotPooled /\ k.secret # NotPooled
       /\ pool' = [pool EXCEPT ![Identity(k)] = k.secret]
       /\ overtaken' = IF UpToDate(k) THEN overtaken ELSE overtaken \cup {Identity(k)}
    \/ UNCHANGED <<pool, overtaken>>

Evict(k) ==
    /\ pool' = [pool EXCEPT ![Identity(k)] = NotPooled]
    /\ overtaken' = overtaken \ {Identity(k)}

-----------------------------------------------------------------------------
NoJob == [phase |-> "none"]
NoCall == [phase |-> "idle"]
IdlePoll == [phase |-> "idle"]

\* What a reconcile will upsert and elect is settled by the app list it starts with.
Start(w) == [phase |-> "upsert", apps |-> w, todo |-> Detected(w), reg |-> ElectedIn[w]]

Init ==
    /\ world \in OldWorlds
    /\ entries \in OldEntries
    /\ pool = [i \in Identities |-> NotPooled] /\ poolClosed = FALSE
    /\ elected = NoComp /\ fp = NoFp /\ closed = FALSE /\ reconciling = FALSE
    /\ poll = [p \in Pollers |-> IdlePoll]
    \* the boot snapshot is empty if the first List failed
    /\ \E w \in {world, [a \in Apps |-> "absent"]} :
          job = [j \in Pollers \cup {Boot} |-> IF j = Boot THEN Start(w) ELSE NoJob]
    /\ call = [k \in Callers |-> NoCall]
    /\ changes = 0 /\ edits = 0
    /\ userHid = {} /\ raced = {} /\ overtaken = {}

\* The server listens once the boot reconcile is over.
Serving == job[Boot].phase = "none"

AppsChange(a, s) ==
    /\ changes < MaxChanges /\ world[a] # s
    /\ world' = [world EXCEPT ![a] = s]
    /\ changes' = changes + 1
    /\ UNCHANGED <<entries, pool, poolClosed, elected, fp, closed, reconciling,
                   poll, job, call, edits, userHid, raced, overtaken>>

-----------------------------------------------------------------------------
(* reconcilingApps.List and maybeReconcile                                 *)

SetPoll(p, r) ==
    /\ poll' = [poll EXCEPT ![p] = r]
    /\ UNCHANGED <<env, store, conns, state, call, edits>>

List(p) ==
    /\ Serving /\ poll[p].phase = "idle"
    /\ SetPoll(p, [phase |-> "listed", apps |-> world])
    /\ UNCHANGED <<job, reconciling>>

CompareFingerprint(p) ==
    /\ poll[p].phase = "listed"
    /\ SetPoll(p, IF Fingerprint[poll[p].apps] = fp
                  THEN IdlePoll ELSE [poll[p] EXCEPT !.phase = "differs"])
    /\ UNCHANGED <<job, reconciling>>

\* Mutant: the flag is set without looking at it.
Claim_NoCompare(p) ==
    /\ poll[p].phase = "differs"
    /\ reconciling' = TRUE
    /\ job' = [job EXCEPT ![p] = Start(poll[p].apps)]
    /\ SetPoll(p, IdlePoll)

\* CompareAndSwap(false, true) and the go statement.
Claim(p) ==
    /\ poll[p].phase = "differs" /\ ~reconciling
    /\ reconciling' = TRUE
    /\ job' = [job EXCEPT ![p] = Start(poll[p].apps)]
    /\ SetPoll(p, IdlePoll)

GiveUp(p) ==
    /\ poll[p].phase = "differs" /\ reconciling
    /\ SetPoll(p, IdlePoll)
    /\ UNCHANGED <<job, reconciling>>

-----------------------------------------------------------------------------
(* reconcile                                                               *)

SetJob(j, r) == job' = [job EXCEPT ![j] = r]

\* Each detected store is persisted as a path reference, in the order of detection.
UpsertDetected(j) ==
    /\ job[j].phase = "upsert" /\ job[j].todo # {}
    /\ LET c == First(job[j].todo)
       IN  /\ entries' = Upserted(entries, PathOf[c], NameOf[c], TypeOf[c])
           /\ SetJob(j, [job[j] EXCEPT !.todo = @ \ {c}])
    /\ UNCHANGED <<env, conns, state, reconciling, poll, call, edits, userHid, raced>>

UndismissFile(p) ==
    /\ entries' = Undismissed(entries, p)
    /\ userHid' = userHid \ {Norm[p]}
    /\ raced' = raced \ {Norm[p]}

\* Mutant: only the active store is undismissed.
UndismissActive_OnlyActive(j) ==
    /\ job[j].phase = "upsert" /\ job[j].todo = {}
    /\ IF job[j].reg = NoComp THEN UNCHANGED store ELSE UndismissFile(PathOf[job[j].reg])
    /\ SetJob(j, [job[j] EXCEPT !.phase = "undismiss"])
    /\ UNCHANGED <<env, conns, state, reconciling, poll, call, edits>>

\* newStoreRegistry, then undismissActive.
UndismissActive(j) ==
    /\ job[j].phase = "upsert" /\ job[j].todo = {}
    /\ IF job[j].reg = NoComp THEN UNCHANGED store ELSE UndismissFile(PathOf[job[j].reg])
    /\ SetJob(j, [job[j] EXCEPT !.phase = "undismiss", !.todo = ProvidedIn[job[j].apps]])
    /\ UNCHANGED <<env, conns, state, reconciling, poll, call, edits>>

UndismissAppProvided(j) ==
    /\ job[j].phase = "undismiss" /\ job[j].todo # {}
    /\ LET c == First(job[j].todo)
       IN  /\ UndismissFile(PathOf[c])
           /\ SetJob(j, [job[j] EXCEPT !.todo = @ \ {c}])
    /\ UNCHANGED <<env, conns, state, reconciling, poll, call, edits>>

\* A closed reconciler returns without publishing.
Publish(j) ==
    /\ job[j].phase = "undismiss" /\ job[j].todo = {}
    /\ IF closed
       THEN /\ SetJob(j, NoJob) /\ reconciling' = FALSE
            /\ UNCHANGED <<elected, fp>>
       ELSE /\ elected' = job[j].reg
            /\ fp' = Fingerprint[job[j].apps]
            /\ SetJob(j, [job[j] EXCEPT !.phase = "prewarm"])
            /\ UNCHANGED reconciling
    /\ UNCHANGED <<env, store, conns, closed, poll, call, edits>>

\* Mutant: the goroutine ends without resetting rc.reconciling.
PreWarm_KeepsFlag(j) ==
    /\ job[j].phase = "prewarm"
    /\ IF job[j].reg = NoComp
       THEN UNCHANGED <<pool, overtaken>>
       ELSE OpenOrGet(CompOfDoc(job[j].reg))
    /\ SetJob(j, NoJob)
    /\ UNCHANGED <<env, store, poolClosed, state, reconciling, poll, call, edits>>

PreWarm(j) ==
    /\ job[j].phase = "prewarm"
    /\ IF job[j].reg = NoComp
       THEN UNCHANGED <<pool, overtaken>>
       ELSE OpenOrGet(CompOfDoc(job[j].reg))
    /\ SetJob(j, NoJob) /\ reconciling' = FALSE
    /\ UNCHANGED <<env, store, poolClosed, state, poll, call, edits>>

-----------------------------------------------------------------------------
(* Requests: DeleteStore, UpdateStore, AddStore, ServiceFor and StateFor   *)

SetCall(k, r) ==
    /\ call' = [call EXCEPT ![k] = r]
    /\ UNCHANGED <<env, state, reconciling, poll, job>>

CountEdit == edits < MaxEdits /\ edits' = edits + 1

AddStore(k, n, v) ==
    /\ Serving /\ call[k].phase = "idle" /\ CountEdit
    /\ ManualNamed(entries, n) = {}
    /\ entries' = Added(entries, n, NoPath, v)
    /\ UNCHANGED <<conns, userHid, raced>>
    /\ SetCall(k, NoCall)

\* componentFor(id): the entry's component as it is now.
LookUp(k, op, e) ==
    /\ Serving /\ call[k].phase = "idle"
    /\ UNCHANGED <<store, conns>>
    /\ SetCall(k, [phase |-> op, id |-> e.id, comp |-> CompOf(e), active |-> NoComp])

StartDelete(k, e) == CountEdit /\ LookUp(k, "delete", e)
StartUpdate(k, e) == CountEdit /\ LookUp(k, "update", e)
Select(k, e) == UNCHANGED edits /\ LookUp(k, "open", e)

\* The empty id selects the elected store.
SelectActive(k) ==
    /\ Serving /\ call[k].phase = "idle" /\ elected # NoComp
    /\ UNCHANGED <<store, conns, edits>>
    /\ SetCall(k, [phase |-> "open", id |-> NoId, comp |-> CompOfDoc(elected),
                   active |-> elected])

Open(k) ==
    /\ call[k].phase = "open"
    /\ OpenOrGet(call[k].comp)
    /\ UNCHANGED <<store, poolClosed, edits>>
    /\ SetCall(k, NoCall)

\* Mutant: the active store is not refused.
CheckActive_Skipped(k) ==
    /\ call[k].phase = "delete"
    /\ UNCHANGED <<store, conns, edits>>
    /\ SetCall(k, [call[k] EXCEPT !.phase = "deleting", !.active = elected])

\* The elected active store is refused (ErrActiveStore).
CheckActive(k) ==
    /\ call[k].phase = "delete"
    /\ UNCHANGED <<store, conns, edits>>
    /\ SetCall(k, IF elected # NoComp /\ Identity(CompOfDoc(elected)) = Identity(call[k].comp)
                  THEN NoCall ELSE [call[k] EXCEPT !.phase = "deleting", !.active = elected])

\* A reconcile has undismissed the file it elects and has not published yet, or has
\* published since call k looked at the active store.
ElectionOverlaps(k, key) ==
    \/ /\ elected \notin {NoComp, call[k].active}
       /\ Norm[PathOf[elected]] = key
    \/ \E j \in DOMAIN job :
          /\ job[j].phase = "undismiss"
          /\ job[j].reg # NoComp /\ Norm[PathOf[job[j].reg]] = key

\* The registry has changed entries; the old component is evicted next unless the
\* save failed.  What is evicted is the component looked up before.
Evicting(k, changed) ==
    \/ /\ overtaken' = overtaken \cup
             {Identity(CompOf(e)) : e \in {e \in changed : CompOf(e) # call[k].comp}}
       /\ SetCall(k, [call[k] EXCEPT !.phase = "evict"])
    \/ /\ changed # {}
       /\ overtaken' = overtaken \cup {Identity(CompOf(e)) : e \in changed}
       /\ SetCall(k, NoCall)

RegistryDelete(k) ==
    /\ call[k].phase = "deleting"
    /\ LET gone   == {e \in entries : e.id = call[k].id}
           hidden == {Norm[e.path] : e \in {e \in gone : e.source = "auto"}}
       IN  /\ entries' = Deleted(entries, call[k].id)
           /\ userHid' = userHid \cup hidden
           /\ raced' = raced \cup {f \in hidden : ElectionOverlaps(k, f)}
           /\ Evicting(k, gone)
    /\ UNCHANGED <<pool, poolClosed, edits>>

RegistryUpdate(k, n, v) ==
    /\ call[k].phase = "update"
    /\ IF Updatable(entries, call[k].id) = {} \/ RenameClash(entries, call[k].id, n)
       THEN UNCHANGED <<entries, overtaken>> /\ SetCall(k, NoCall)
       ELSE /\ entries' = Updated(entries, call[k].id, n, NoPath, v)
            /\ Evicting(k, Updatable(entries, call[k].id))
    /\ UNCHANGED <<pool, poolClosed, edits, userHid, raced>>

\* Mutant: the old connection stays pooled.
EvictOld_Skipped(k) ==
    /\ call[k].phase = "evict"
    /\ UNCHANGED <<store, conns, edits>>
    /\ SetCall(k, NoCall)

EvictOld(k) ==
    /\ call[k].phase = "evict"
    /\ Evict(call[k].comp)
    /\ UNCHANGED <<store, poolClosed, edits>>
    /\ SetCall(k, NoCall)

-----------------------------------------------------------------------------
(* Close                                                                   *)

Close ==
    /\ Serving /\ ~closed /\ closed' = TRUE
    /\ UNCHANGED <<env, store, conns, elected, fp, reconciling, poll, job, call, edits>>

ClosePool ==
    /\ closed /\ ~poolClosed /\ poolClosed' = TRUE
    /\ pool' = [i \in Identities |-> NotPooled]
    /\ UNCHANGED <<env, store, overtaken, state, reconciling, poll, job, call, edits>>

-----------------------------------------------------------------------------
Poll(p) == CompareFingerprint(p) \/ Claim(p) \/ GiveUp(p)

Reconcile(j) ==
    \/ UpsertDetected(j) \/ UndismissActive(j) \/ UndismissAppProvided(j)
    \/ Publish(j) \/ PreWarm(j)

Handle(k) ==
    \/ Open(k) \/ CheckActive(k) \/ RegistryDelete(k) \/ EvictOld(k)
    \/ \E n \in Names, v \in Values : RegistryUpdate(k, n, v)

Edit(k) ==
    \/ \E n \in Names, v \in Values : AddStore(k, n, v)
    \/ \E e \in entries : StartDelete(k, e)
    \/ \E e \in entries : e.source = "manual" /\ StartUpdate(k, e)

Read(k) ==
    \/ SelectActive(k)
    \/ \E e \in entries : Select(k, e)

Next ==
    \/ \E a \in Apps, s \in Statuses : AppsChange(a, s)
    \/ \E p \in Pollers : List(p) \/ Poll(p)
    \/ \E j \in Pollers \cup {Boot} : Reconcile(j)
    \/ \E k \in Callers : Handle(k)
    \/ \E k \in Editors : Edit(k)
    \/ \E k \in Selectors : Read(k)
    \/ \E k \in Closers : Close \/ ClosePool

Spec == Init /\ [][Next]_vars

\* Goroutines that can run do; the SPA keeps polling the app list.
Fairness ==
    /\ \A p \in Pollers : WF_vars(List(p) \/ Poll(p))
    /\ \A j \in Pollers \cup {Boot} : WF_vars(Reconcile(j))
    /\ \A k \in Callers : WF_vars(Handle(k))

FairSpec == Spec /\ Fairness

-----------------------------------------------------------------------------
(* Properties                                                              *)

TypeOK ==
    /\ world \in World
    /\ entries \in SUBSET ConnEntry
    /\ pool \in [Identities -> Values \cup {NotPooled}]
    /\ poolClosed \in BOOLEAN /\ closed \in BOOLEAN /\ reconciling \in BOOLEAN
    /\ elected \in Comps \cup {NoComp}
    /\ fp \in {Fingerprint[w] : w \in World} \cup {NoFp}
    /\ \A p \in Pollers : poll[p].phase \in {"idle", "listed", "differs"}
    /\ \A j \in Pollers \cup {Boot} :
          job[j].phase \in {"none", "upsert", "undismiss", "prewarm"}
    /\ \A k \in Callers :
          call[k].phase \in {"idle", "open", "delete", "deleting", "update", "evict"}
    /\ overtaken \in SUBSET Identities
    /\ userHid \in SUBSET Keys /\ raced \in SUBSET Keys

\* "reconcile is NOT safe for concurrent use": the boot seed and the goroutines of
\* maybeReconcile never overlap.
SingleFlight ==
    \A i, j \in Pollers \cup {Boot} :
        job[i].phase # "none" /\ job[j].phase # "none" => i = j

\* The fingerprint gate is sound: for every app list the gate would let pass without
\* a reconcile, the published active store is the one a reconcile would elect.
ElectedForFingerprint ==
    \A w \in World : Fingerprint[w] = fp => elected = ElectedIn[w]

Hidden(c) ==
    \A e \in entries : Norm[e.path] = Norm[PathOf[c]] => e.dismissed

\* The elected active store is in the panel: a reconcile undismisses it before it is
\* published, and after that "deleting the elected active store is refused".
ActiveListed == elected # NoComp => ~Hidden(elected)

\* It is missing only if DeleteStore hid it between its reconcile's undismissActive
\* and the publication, or between DeleteStore's own check and the registry's
\* Delete.  Excepted is a component that is not the first of its file: the file's entry
\* stands for the first one, which DeleteStore compares with the active one.
ActiveHiddenOnlyByRace ==
    (elected # NoComp /\ Hidden(elected) /\ elected = First(InFile(Norm[PathOf[elected]])))
    => Norm[PathOf[elected]] \in raced

\* A store a running app provides is hidden only by a DeleteStore of this session
\* that came after the reconcile for these apps: no older tombstone survives it.
ProvidedHiddenOnlyByUser ==
    Serving => \A w \in World : Fingerprint[w] = fp =>
        \A c \in ProvidedIn[w] : Hidden(c) => Norm[PathOf[c]] \in userHid

\* README: a disconnected store "stays hidden across restarts unless it becomes the
\* active store again".
TombstoneClearedOnlyByElection ==
    [][\A e \in entries : e.dismissed /\ ~(\E f \in entries' : f.id = e.id /\ f.dismissed)
          => \E j \in DOMAIN job :
                /\ job[j].phase # "none"
                /\ job[j].reg # NoComp
                /\ Norm[PathOf[job[j].reg]] = Norm[e.path]]_vars

\* A connection made for a manual entry is pooled with the entry's own metadata, or
\* is about to be evicted: UpdateStore "evicts its pooled connection so the next
\* select reconnects with new metadata".  The exceptions are requests that overtook
\* one another between looking up a component and using it, failed saves, and an
\* identity that a component shares, since identities have no secrets.
PooledIsCurrent ==
    \A e \in {e \in entries : e.source = "manual"} :
        LET i == Identity(CompOfManual(e))
        IN  \/ pool[i] \in {NotPooled, e.value}
            \/ \E c \in Comps : Identity(CompOfDoc(c)) = i
            \/ i \in overtaken
            \/ \E k \in Callers : call[k].phase = "evict" /\ Identity(call[k].comp) = i

\* Once the apps stop changing, the active store is the one elected for them: a poll
\* that lost the single-flight race, or carried an older list, is caught up with.
Converges ==
    <>[](closed \/ (fp = Fingerprint[world] /\ elected = ElectedIn[world]))

=============================================================================

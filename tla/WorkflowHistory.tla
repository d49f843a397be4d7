-------------------------- MODULE WorkflowHistory --------------------------
(***************************************************************************)
(* The page of one workflow instance in the web client:                    *)
(* pages/WorkflowDetail.tsx with lib/eventOrder.ts and lib/pairing.ts,     *)
(* over histories that the engine goes on writing.                         *)
(*                                                                         *)
(* The timeline shows the events in canonical order, oldest or newest      *)
(* first, and addresses a row by its canonical index: in the URL's hash,   *)
(* in the selection, in the pair chips.  The engine appends events in the  *)
(* order it processes them, a completion with the time it happened at.     *)
(***************************************************************************)
EXTENDS Naturals, Sequences, SequencesExt, FiniteSets, TLC

CONSTANTS
    Ids,                \* the engine's sequence ids, reused once their task has completed
    Parent, Child,      \* an instance and the one it spawns
    MaxTime, MaxEvents, MaxActs, MaxSteps   \* bounds: clock, events, user actions, both

Instances == {Parent, Child}
START_TYPES == {"TaskScheduled", "SubOrchestrationCreated"}
None == 0       \* no row, no pair, no hash

ASSUME HistoryAssumption ==
    /\ None \notin Ids /\ Parent # Child
    /\ MaxTime \in Nat /\ MaxEvents \in Nat /\ MaxEvents >= 3

VARIABLES
    log,        \* instance |-> its history, empty once it is removed
    now, serial,        \* the engine's clock, events written so far
    mounted, inst, hash,    \* the page and its address
    exec, isError,      \* instance |-> the history last fetched; the last fetch failed
    order, pref,        \* display order and its copy in local storage
    selection, lastHash,   \* page state
    dialog, force, post,    \* removal dialog and its request in flight
    clip,       \* the link in the clipboard
    acts,
    chosen, shifted, followed, opened, moved  \* history variables, see the properties

engine == <<log, now, serial>>
address == <<mounted, inst, hash>>
data   == <<exec, isError>>
view   == <<order, pref>>
rowsel == <<selection, lastHash, chosen, shifted, followed>>
removal == <<dialog, force, post, opened, moved>>
vars == <<engine, address, data, view, rowsel, removal, clip, acts>>

-----------------------------------------------------------------------------
(* Order and pairs                                                         *)

pinRank(e) == IF e.type = "ExecutionStarted" THEN 0 ELSE IF e.type = "ExecutionCompleted" THEN 2 ELSE 1

\* Pinned events first and last, the others by time, ties in the order of the log.
precedes(h, m, n) ==
    LET a == h[m] b == h[n] IN
    \/ pinRank(a) < pinRank(b)
    \/ pinRank(a) = pinRank(b) /\ a.ts < b.ts
    \/ pinRank(a) = pinRank(b) /\ a.ts = b.ts /\ m < n

\* Where each event is displayed, and the events in that order.
places(h) == [n \in DOMAIN h |-> Cardinality({m \in DOMAIN h : m = n \/ precedes(h, m, n)})]
sortHistoryForDisplay(h) ==
    LET at == places(h) IN [i \in DOMAIN h |-> h[CHOOSE n \in DOMAIN h : at[n] = i]]

isStart(e) == e.type \in START_TYPES
isEnd(e)   == e.type = "TaskCompleted"

\* Mutant: a completion is matched to the first start of its id.
buildPairIndex_First(c) ==
    LET start(n) == SelectInSeq([k \in 1..(n - 1) |-> c[k]], LAMBDA e : isStart(e) /\ e.id = c[n].id)
    IN  [n \in {n \in DOMAIN c : isStart(c[n]) \/ isEnd(c[n])} |->
            [pairId |-> c[n].id,
             partner |-> IF isEnd(c[n]) THEN start(n)
                         ELSE SelectInSeq(c, LAMBDA e : isEnd(e) /\ e.id = c[n].id)]]

\* A start is put on its id's stack; a completion takes the latest start of its id that is
\* still open.
unpaired(c) == [open |-> [i \in Ids |-> <<>>], start |-> [n \in DOMAIN c |-> None]]
paired(c, p, n) ==
    IF isStart(c[n]) THEN [p EXCEPT !.open[c[n].id] = Append(@, n)]
    ELSE IF isEnd(c[n]) /\ p.open[c[n].id] # <<>>
         THEN [p EXCEPT !.open[c[n].id] = Front(@), !.start[n] = Last(p.open[c[n].id])]
         ELSE p

\* The start each completion took, after one pass.
startsTaken(c) ==
    LET pass[n \in 0..Len(c)] == IF n = 0 THEN unpaired(c) ELSE paired(c, pass[n - 1], n)
    IN  pass[Len(c)].start

inPair(e) == isStart(e) \/ isEnd(e)
taker(start, n) == IF \E m \in DOMAIN start : start[m] = n
                   THEN CHOOSE m \in DOMAIN start : start[m] = n ELSE None

buildPairIndex(c) ==
    LET start == startsTaken(c)
    IN  [n \in {n \in DOMAIN c : inPair(c[n])} |->
            [pairId |-> c[n].id, partner |-> IF isEnd(c[n]) THEN start[n] ELSE taker(start, n)]]

-----------------------------------------------------------------------------
(* What the page shows                                                     *)

Rows(i) == IF isError THEN <<>> ELSE exec[i]
Shown == mounted /\ Rows(inst) # <<>>
canon == sortHistoryForDisplay(Rows(inst))
pairs == buildPairIndex(canon)
terminal(h) == \E n \in DOMAIN h : h[n].type = "ExecutionCompleted"

\* The canonical index of the row displayed at a position.
canonicalIndex(position) == IF order = "asc" THEN position ELSE Len(canon) + 1 - position

\* Mutant: rows are addressed by where they are displayed.
address_Displayed(position) == position

rowAddress(position) == canonicalIndex(position)

\* h extends g in order of time: nothing replaced, nothing earlier than what was there.
InTime(g, h) ==
    /\ IsPrefix(g, h)
    /\ \A m \in DOMAIN g, n \in DOMAIN h \ DOMAIN g : g[m].ts <= h[n].ts

-----------------------------------------------------------------------------
(* The address                                                             *)

\* The page follows a hash once, when its row is there.
jumps(rows) == hash' # None /\ hash' # lastHash /\ hash' \in DOMAIN rows

\* Mutant: the hash that was followed is not remembered.
jumpToHash_Forgets ==
    LET rows == IF isError' THEN <<>> ELSE exec'[inst']
        at == buildPairIndex(sortHistoryForDisplay(rows))
    IN  /\ lastHash' = IF hash' = None THEN None ELSE lastHash
        /\ selection' = IF jumps(rows) /\ hash' \in DOMAIN at
                        THEN [pairId |-> at[hash'].pairId, index |-> hash'] ELSE selection

\* Mutant: a row that is in no pair is selected too.
jumpToHash_AnyRow ==
    LET canonical == sortHistoryForDisplay(exec'[inst'])
    IN  /\ lastHash' = IF hash' = None THEN None ELSE IF jumps(canonical) THEN hash' ELSE lastHash
        /\ selection' = IF jumps(canonical) THEN [pairId |-> canonical[hash'].id, index |-> hash']
                        ELSE selection

jumpToHash ==
    LET rows == IF isError' THEN <<>> ELSE exec'[inst']
        at == buildPairIndex(sortHistoryForDisplay(rows))
    IN  /\ lastHash' = IF hash' = None THEN None ELSE IF jumps(rows) THEN hash' ELSE lastHash
        /\ selection' = IF jumps(rows) /\ hash' \in DOMAIN at
                        THEN [pairId |-> at[hash'].pairId, index |-> hash'] ELSE selection

NoSelection == [pairId |-> None, index |-> None]

\* Whether the page has scrolled to the row its address names since it came to that address.
Follow ==
    followed' = ((followed /\ hash' = hash) \/ jumps(Rows(inst)'))

\* The event a new selection means is the one that was clicked or linked to.
Choose(e) == chosen' = (IF selection' # selection THEN e ELSE chosen)

-----------------------------------------------------------------------------
(* The user                                                                *)

User ==
    /\ acts < MaxActs /\ acts + serial < MaxSteps /\ acts' = acts + 1
    /\ UNCHANGED engine

OnPage == User /\ Shown /\ ~dialog

toggleOrder ==
    /\ OnPage
    /\ order' = (IF order = "asc" THEN "desc" ELSE "asc") /\ pref' = order'
    /\ UNCHANGED <<address, data, rowsel, removal, clip>>

togglePairSelection(position) ==
    LET n == rowAddress(position)
        picked == [pairId |-> pairs[n].pairId, index |-> n]
    IN  /\ OnPage
        /\ position \in DOMAIN canon /\ n \in DOMAIN pairs
        /\ selection' = IF selection = picked THEN NoSelection ELSE picked
        /\ Choose(canon[canonicalIndex(position)].serial)
        /\ shifted' = (shifted /\ selection' # picked)
        /\ UNCHANGED <<address, data, view, lastHash, followed, removal, clip>>

anchors(index) == {index[m].partner : m \in DOMAIN index}

\* A pair chip, or the link of the last event.
followAnchor(n) ==
    /\ OnPage
    /\ n # hash /\ n \in ({Len(canon)} \cup anchors(pairs)) \ {None}
    /\ hash' = n
    /\ UNCHANGED <<mounted, inst, data, view, removal, clip>>
    /\ jumpToHash /\ Follow
    /\ Choose(canon[n].serial)
    /\ shifted' = (shifted /\ selection' = selection)

copyAnchorLink(n) ==
    /\ OnPage
    /\ n \in DOMAIN canon
    /\ clip' = [inst |-> inst, hash |-> n, event |-> canon[n].serial, rows |-> exec[inst]]
    /\ UNCHANGED <<address, data, view, rowsel, removal>>

\* Another instance in the same page: its state stays.
goTo(i, h) ==
    /\ inst' = i /\ hash' = h /\ isError' = FALSE
    /\ UNCHANGED <<mounted, exec, view, clip>>
    /\ jumpToHash /\ Follow
    /\ Choose(IF h # None /\ h \in DOMAIN exec[i] THEN sortHistoryForDisplay(exec[i])[h].serial ELSE None)
    /\ shifted' = (shifted \/ selection' = selection)

followChild ==
    /\ OnPage
    /\ inst = Parent /\ \E e \in ToSet(canon) : e.type = "SubOrchestrationCreated"
    /\ UNCHANGED removal
    /\ goTo(Child, None)

\* The browser's back and forward buttons work while the dialog is open.
browse(i) ==
    /\ User /\ mounted /\ i # inst
    /\ UNCHANGED <<dialog, force, post, opened>> /\ moved' = (moved \/ dialog)
    /\ goTo(i, None)

\* Requests an earlier page or confirmation made no longer call back.
unhear(p) == [n \in DOMAIN p |-> [p[n] EXCEPT !.live = FALSE]]

\* A link opens a new page.
openLink ==
    /\ User
    /\ mounted' = TRUE /\ inst' = clip.inst /\ hash' = clip.hash
    /\ order' = pref /\ selection' = NoSelection /\ lastHash' = None
    /\ exec' = [i \in Instances |-> <<>>] /\ isError' = FALSE
    /\ chosen' = clip.event /\ shifted' = FALSE /\ followed' = FALSE
    /\ dialog' = FALSE /\ force' = FALSE /\ post' = unhear(post) /\ opened' = None /\ moved' = FALSE
    /\ UNCHANGED <<pref, clip>>

-----------------------------------------------------------------------------
(* Removal                                                                 *)

Dialog ==
    /\ User /\ Shown
    /\ UNCHANGED <<address, data, view, rowsel, clip>>

openPurge ==
    /\ Dialog /\ ~dialog /\ terminal(canon)
    /\ dialog' = TRUE /\ force' = FALSE /\ opened' = inst /\ moved' = FALSE
    /\ UNCHANGED post

openForceDelete ==
    /\ Dialog /\ ~dialog
    /\ dialog' = TRUE /\ force' = TRUE /\ opened' = inst /\ moved' = FALSE
    /\ UNCHANGED post

toggleForce == Dialog /\ dialog /\ force' = ~force /\ UNCHANGED <<dialog, post, opened, moved>>

onCancel == Dialog /\ dialog /\ dialog' = FALSE /\ UNCHANGED <<force, post, opened, moved>>

\* Mutant: the page forgets which instance it shows.
target_Parent == Parent

target == inst

onConfirmRemove ==
    /\ Dialog /\ dialog
    /\ post' = Append(unhear(post), [inst |-> target, force |-> force, live |-> TRUE,
                                     opened |-> opened, moved |-> moved])
    /\ UNCHANGED <<dialog, force, opened, moved>>

-----------------------------------------------------------------------------
(* Answers                                                                 *)

\* The interval or an invalidation fetches the history; its rows may move under a
\* selection when they are not an in-time extension of the rows before.
Poll ==
    /\ mounted
    /\ \/ log[inst] # <<>> /\ exec' = [exec EXCEPT ![inst] = log[inst]] /\ isError' = FALSE
       \/ UNCHANGED exec /\ isError' = TRUE
    /\ <<exec, isError>>' # <<exec, isError>>
    /\ UNCHANGED <<engine, address, view, removal, clip, acts>>
    /\ jumpToHash /\ Follow
    /\ LET linked == exec[inst] = <<>> /\ clip.inst = inst /\ chosen = clip.event
           before == IF linked THEN clip.rows ELSE exec[inst]
       IN  /\ shifted' = (shifted \/ ~InTime(before, exec'[inst]))
           /\ IF linked \/ selection' = selection THEN UNCHANGED chosen
              ELSE chosen' = sortHistoryForDisplay(exec'[inst])[hash].serial

\* Only the latest request of the page it was made on calls back.  Its results are not
\* looked at: the page is left even when the removal failed.
Succeed(n) ==
    /\ log' \in {log, [log EXCEPT ![post[n].inst] = <<>>]}
    /\ post' = RemoveAt(post, n)
    /\ IF post[n].live THEN mounted' = FALSE /\ dialog' = FALSE ELSE UNCHANGED <<mounted, dialog>>
    /\ UNCHANGED <<now, serial, inst, hash, data, view, rowsel, force, opened, moved, clip, acts>>

Refuse(n) ==
    /\ post' = RemoveAt(post, n)
    /\ dialog' = (dialog /\ ~post[n].live)
    /\ UNCHANGED <<engine, address, data, view, rowsel, force, opened, moved, clip, acts>>

-----------------------------------------------------------------------------
(* The engine                                                              *)

Engine == UNCHANGED <<address, data, view, rowsel, removal, clip, acts>>

Live == log[Parent] # <<>> /\ ~terminal(log[Parent])
        /\ serial < MaxEvents /\ acts + serial < MaxSteps

Event(type, id, task, ts, s) ==
    [serial |-> s, type |-> type, id |-> id, task |-> task, ts |-> ts]

Open(h) == {n \in DOMAIN h : isStart(h[n]) /\ \A m \in DOMAIN h : ~(isEnd(h[m]) /\ h[m].task = h[n].task)}

Write(e) ==
    /\ Live
    /\ log' = [log EXCEPT ![Parent] = Append(@, e)] /\ serial' = serial + 1
    /\ UNCHANGED now /\ Engine

Schedule(type, id) ==
    /\ \A n \in Open(log[Parent]) : log[Parent][n].id # id
    /\ type = "SubOrchestrationCreated" => \A e \in ToSet(log[Parent]) : e.type # type
    /\ Write(Event(type, id, serial + 1, now, serial + 1))

\* A completion is stamped when the task ended, and may be processed later.
CompleteTask(n, ts) ==
    LET h == log[Parent] IN
    /\ n \in Open(h) /\ h[n].ts <= ts /\ ts <= now
    /\ Write(Event("TaskCompleted", h[n].id, h[n].task, ts, serial + 1))

Finish == Write(Event("ExecutionCompleted", None, None, now, serial + 1))

ContinueAsNew ==
    /\ Live /\ Len(log[Parent]) > 1
    /\ log' = [log EXCEPT ![Parent] = <<Event("ExecutionStarted", None, None, now, serial + 1)>>]
    /\ serial' = serial + 1
    /\ UNCHANGED now /\ Engine

Tick == now < MaxTime /\ now' = now + 1 /\ UNCHANGED <<log, serial>> /\ Engine

-----------------------------------------------------------------------------

Init ==
    /\ now = 0 /\ serial = 3
    /\ \E id \in Ids :
           log = [i \in Instances |->
                    IF i = Parent THEN <<Event("ExecutionStarted", None, None, 0, 1)>>
                    ELSE <<Event("ExecutionStarted", None, None, 0, 2),
                           Event("TaskScheduled", id, 3, 0, 3)>>]
    /\ mounted = TRUE /\ inst = Parent /\ hash = None
    /\ exec = [i \in Instances |-> <<>>] /\ isError = FALSE
    /\ order = "asc" /\ pref = order
    /\ selection = NoSelection /\ lastHash = None
    /\ dialog = FALSE /\ force = FALSE /\ post = <<>>
    /\ clip = [inst |-> Parent, hash |-> None, event |-> None, rows |-> <<>>]
    /\ acts = 0 /\ chosen = None /\ shifted = FALSE /\ followed = FALSE /\ opened = None /\ moved = FALSE

\* The page's controls: its header, a row of the timeline, the dialog; and the browser's.
Header == toggleOrder \/ openPurge \/ openForceDelete
EventRow == followChild \/ \E n \in 1..MaxEvents : togglePairSelection(n) \/ followAnchor(n) \/ copyAnchorLink(n)
ConfirmRemoveDialog == toggleForce \/ onCancel \/ onConfirmRemove
Browser == openLink \/ \E i \in Instances : browse(i)

Act == Header \/ EventRow \/ ConfirmRemoveDialog \/ Browser

Next ==
    \/ Act
    \/ Poll \/ \E n \in DOMAIN post : Succeed(n) \/ Refuse(n)
    \/ \E type \in START_TYPES, id \in Ids : Schedule(type, id)
    \/ \E n \in 1..MaxEvents, ts \in 0..MaxTime : CompleteTask(n, ts)
    \/ Finish \/ ContinueAsNew \/ Tick

Spec == Init /\ [][Next]_vars

-----------------------------------------------------------------------------
(* Properties                                                              *)

TypeOK ==
    /\ inst \in Instances /\ hash \in 0..MaxEvents /\ {order, pref} \subseteq {"asc", "desc"}
    /\ selection.pairId \in Ids \cup {None} /\ selection.index \in 0..MaxEvents
    /\ (selection.index = None) = (selection.pairId = None)
    /\ \A i \in Instances : \A n \in DOMAIN exec[i] : exec[i][n].ts \in 0..MaxTime

\* The rows a pair chip joins are the start and the completion of one task, although the
\* engine reuses ids and completions sort to the time they happened at; every completed
\* task is joined.
PairsAreReal ==
    Shown => LET rows == canon joined == pairs IN
        \A n \in DOMAIN rows : isEnd(rows[n]) =>
            LET start == joined[n].partner
            IN  /\ start \in DOMAIN rows
                /\ isStart(rows[start]) /\ rows[start].task = rows[n].task
                /\ joined[start].partner = n

\* The selected row is the event the user clicked, or the event a copied link was taken
\* from, in either display order, while the history grows in time order.  An event that is
\* processed late, a history begun anew and another instance in the same page move the
\* rows under the selection: they are excepted.
SelectionStays ==
    Shown /\ selection # NoSelection /\ ~shifted =>
        /\ selection.index \in DOMAIN canon
        /\ canon[selection.index].serial = chosen
        /\ pairs[selection.index].pairId = selection.pairId

\* A refresh scrolls, or moves the selection, only to follow an address the page has not
\* followed since it came to it, its row not having been there: through growing, reordered
\* and failed histories it neither yanks the reader back to a row nor restores a selection
\* he dismissed (jumpToHash's comment, WorkflowDetail.tsx:403-406).
NoYank ==
    [][Poll /\ (jumps(Rows(inst)') \/ selection' # selection) => hash # None /\ ~followed]_vars

\* What is removed is the instance whose removal the user opened the dialog for, unless he
\* browsed to another instance under the open dialog, which then removes that one.
RemovesOpened == \A n \in DOMAIN post : post[n].inst = post[n].opened \/ post[n].moved

=============================================================================

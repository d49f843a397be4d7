------------------------------ MODULE AppPages ------------------------------
(***************************************************************************)
(* The Applications list and the application's detail page, over the       *)
(* lifecycle server: their queries, dialogs and requests                   *)
(* (pages/Applications.tsx, pages/AppDetail.tsx, hooks/useApps.ts,         *)
(* hooks/useAppAction.ts).                                                 *)
(*                                                                         *)
(* The list is polled from every page.  A request that succeeds            *)
(* invalidates both queries, and its page's own callback (which may leave  *)
(* for the list) runs when both have answered, if the page's content is    *)
(* still mounted then.                                                     *)
(***************************************************************************)
EXTENDS AppLifecycle

CONSTANT NoKey

ASSUME NoKeyAssumption == NoKey \notin Keys

VARIABLES page,     \* the key of the detail page shown, NoKey on the list
          dialog,   \* the open dialog, in a sequence
          detail    \* key |-> what its query holds: [view, error]

client == <<page, dialog, detail>>
appVars == <<world, starts, entries, suppressed, scans, list, ops, steps, history, client>>

isStopped(k) == list.rows[k]

\* The detail page shows its content (an error replaces it), and its buttons are enabled.
mounted(k) == page = k /\ detail[k].view # <<>> /\ ~detail[k].error
busy == \E o \in ops : o.mounted /\ o.kind = "do"
forgetting == \E o \in ops : o.mounted /\ o.kind = "remove"

\* Callbacks that survive the page they belong to.
orphans_Called(O) == O

\* The requests once the content that sent them is gone: nobody waits for them.
orphans(O) == {[o EXCEPT !.mounted = FALSE] : o \in {x \in O : x.status # "answered"}}

-----------------------------------------------------------------------------
(* Queries                                                                 *)

\* One of the two queries a request waits for has answered.
landed(w) == {o \in ops : o.status = "answered" /\ o.waits = {w}}
waiting(w) == {[o EXCEPT !.waits = @ \ {w}] : o \in ops \ landed(w)}
leaving(w) == page # NoKey /\ \E o \in landed(w) : o.leaves

useApps ==
    /\ Cardinality(scans) < MaxScans
    /\ ~\E s \in scans : s.by = "page" /\ s.live
    /\ \E mute \in SUBSET Runs : Mute(mute) /\ scans' = scans \union {Scan("page", TRUE, mute)}
    /\ UNCHANGED <<world, starts, entries, suppressed, list, ops, history, client>>

\* A row that is gone takes its dialog with it.
AnswerList(s) ==
    /\ s.by = "page"
    /\ List(s)
    /\ scans' = scans \ {s}
    /\ seen' = IF s.live THEN seen \union Shown(s.views) ELSE seen
    /\ IF s.live
       THEN LET rows == [k \in Shown(s.views) |-> fullyStopped(Listing(s.views)[k])]
                left == leaving("list")
            IN  /\ list' = [rows |-> rows, older |-> s.older]
                /\ page' = IF left THEN NoKey ELSE page
                /\ ops' = IF left THEN orphans(waiting("list")) ELSE waiting("list")
                /\ dialog' = IF left \/ \E i \in DOMAIN dialog : dialog[i].kind = "row"
                                                    /\ dialog[i].key \notin DOMAIN rows
                             THEN <<>> ELSE dialog
       ELSE UNCHANGED <<list, page, ops, dialog>>
    /\ UNCHANGED <<world, starts, steps, remembered, hidden, detail>>

\* The list cannot be read: the rows stay.
LoseList(s) ==
    /\ s.by = "page" /\ s.live /\ Step
    /\ scans' = scans \ {s}
    /\ page' = IF leaving("list") THEN NoKey ELSE page
    /\ ops' = IF leaving("list") THEN orphans(waiting("list")) ELSE waiting("list")
    /\ dialog' = IF leaving("list") THEN <<>> ELSE dialog
    /\ UNCHANGED <<world, starts, entries, suppressed, list, history, detail>>

\* An answer that is an error takes the content away, after the callbacks that were due.
useAppDetail(k) ==
    /\ page = k
    /\ \E mute \in SUBSET Runs :
          LET got == Get(k, mute)
              left == leaving("detail")
              gone == left \/ got = <<>>
          IN  /\ entries' = afterGet(k, mute)
              /\ detail' = [detail EXCEPT ![k] =
                    IF got = <<>> THEN [@ EXCEPT !.error = TRUE]
                    ELSE [error |-> FALSE,
                          view |-> <<[app |-> got[1].app, daprd |-> got[1].daprd,
                                      orphaned |-> got[1].orphaned]>>]]
              /\ page' = IF left THEN NoKey ELSE page
              /\ ops' = IF gone THEN orphans(waiting("detail")) ELSE waiting("detail")
              /\ dialog' = IF gone THEN <<>> ELSE dialog
              /\ Mute(mute)
    /\ UNCHANGED <<world, starts, suppressed, scans, list, history>>

\* The listing under way, if there is one, is given up; the server still completes it.
invalidate ==
    LET givenUp == {s \in scans : s.by = "page" /\ s.live}
    IN  \E mute \in SUBSET Runs :
          /\ Cardinality(scans) < MaxScans
          /\ IF givenUp # {} THEN mute = {} /\ Step ELSE Mute(mute)
          /\ scans' = (scans \ givenUp) \union {[s EXCEPT !.live = FALSE] : s \in givenUp}
                        \union {Scan("page", TRUE, mute)}

AnswerRequest(o) ==
    \/ /\ o.status = "ok"
       /\ invalidate
       /\ ops' = (ops \ {o}) \union
            (IF o.mounted THEN {[o EXCEPT !.status = "answered", !.waits = {"list", "detail"}]}
             ELSE {})
       /\ UNCHANGED <<world, starts, entries, suppressed, list, history, client>>
    \/ /\ o.status = "error"
       /\ ops' = ops \ {o}
       /\ UNCHANGED <<world, starts, entries, suppressed, scans, list, steps, history, client>>

-----------------------------------------------------------------------------
(* The list page                                                           *)

open(d) == dialog = <<>> /\ dialog' = <<d>>
Dialog(kind, key, target, action, leaves) ==
    [kind |-> kind, key |-> key, target |-> target, action |-> action, leaves |-> leaves]

onOpen(k) ==
    /\ dialog = <<>> /\ k \in DOMAIN list.rows
    /\ page' = k /\ UNCHANGED <<dialog, detail, ops, scans, steps>>

confirmRemove(k) ==
    /\ k \in DOMAIN list.rows /\ isStopped(k)
    /\ ~\E o \in ops : o.kind = "row" /\ o.key = k
    /\ open(Dialog("row", k, "all", "stop", FALSE))
    /\ Step /\ UNCHANGED <<page, detail, ops, scans>>

confirmClear ==
    /\ \E k \in DOMAIN list.rows : isStopped(k)
    /\ ~\E s \in scans : s.by = "clear"
    /\ ~\E o \in ops : o.kind = "clear"
    /\ open(Dialog("clear", NoKey, "all", "stop", FALSE))
    /\ Step /\ UNCHANGED <<page, detail, ops, scans>>

Applications ==
    /\ page = NoKey
    /\ (\E k \in Keys : onOpen(k) \/ confirmRemove(k)) \/ confirmClear

-----------------------------------------------------------------------------
(* The detail page                                                         *)

content(k) == detail[k].view[1]

daprdTarget(k) == IF k \in Composes THEN "daprd" ELSE "all"

panelActions(k, target, status) ==
    {b \in {<<target, a>> : a \in Actions} :
        /\ b[2] = "start" => status = "stopped"
        /\ b[2] # "start" => status = "running"
        /\ b[2] # "stop" => k \in Composes}

Header(k) ==
    LET status == {content(k).app, content(k).daprd}
        allStopped == "running" \notin status /\ "stopped" \in status
    IN  (IF "running" \in status THEN panelActions(k, "all", "running") ELSE {})
            \union (IF allStopped THEN panelActions(k, "all", "stopped") ELSE {})

runAction(k) ==
    /\ ~busy
    /\ \E b \in Header(k) \union panelActions(k, "app", content(k).app)
                \union panelActions(k, daprdTarget(k), content(k).daprd) :
          open(Dialog("do", k, b[1], b[2], content(k).orphaned /\ b[2] = "stop"))
    /\ Step /\ UNCHANGED <<page, detail, ops, scans>>

removeFromList(k) ==
    /\ ~busy /\ ~forgetting
    /\ content(k).app = "stopped" /\ content(k).daprd = "stopped"
    /\ open(Dialog("remove", k, "all", "stop", TRUE))
    /\ Step /\ UNCHANGED <<page, detail, ops, scans>>

navigate ==
    /\ page' = NoKey /\ dialog' = <<>> /\ ops' = orphans(ops)
    /\ UNCHANGED <<detail, scans, steps>>

AppDetailContent(k) == mounted(k) /\ (runAction(k) \/ removeFromList(k))
AppDetail == \E k \in Keys : page = k /\ (AppDetailContent(k) \/ navigate)

-----------------------------------------------------------------------------
(* The dialogs                                                             *)

onConfirm ==
    \E d \in {dialog[i] : i \in DOMAIN dialog} :
        /\ dialog' = <<>>
        /\ IF d.kind = "clear"
           THEN /\ list.rows # <<>> /\ Cardinality(scans) < MaxScans
                /\ \E mute \in SUBSET Runs :
                      Mute(mute) /\ scans' = scans \union {Scan("clear", FALSE, mute)}
                /\ UNCHANGED ops
           ELSE /\ Cardinality(ops) < MaxScans
                /\ ops' = ops \union {Request(d.kind, d.key, d.target, d.action,
                                              d.kind # "row", d.leaves)}
                /\ UNCHANGED <<scans, steps>>
        /\ UNCHANGED <<page, detail>>

onCancel == dialog # <<>> /\ dialog' = <<>> /\ UNCHANGED <<page, detail, ops, scans, steps>>

User ==
    /\ Applications \/ AppDetail \/ onConfirm \/ onCancel
    /\ UNCHANGED <<world, starts, entries, suppressed, list, history>>

Network ==
    \/ useApps
    \/ \E s \in scans : AnswerList(s) \/ LoseList(s)
    \/ \E k \in Keys : useAppDetail(k)
    \/ \E o \in ops : AnswerRequest(o)

Server ==
    /\ World \/ Manage \/ \E s \in scans : s.by = "clear" /\
            ClearInactive(s, Request("clear", NoKey, "all", "stop", FALSE, FALSE))
    /\ UNCHANGED client

AppsInit ==
    /\ InitServer
    /\ page = NoKey /\ dialog = <<>>
    /\ detail = [k \in Keys |-> [view |-> <<>>, error |-> FALSE]]

AppsNext == User \/ Network \/ Server

AppsSpec == AppsInit /\ [][AppsNext]_appVars

-----------------------------------------------------------------------------
(* Properties                                                              *)

Statuses == {"running", "stopped", "unknown"}

\* Processes, registry, requests, queries and pages have their types; a run has a stopped
\* entry only with a snapshot in it, a request under way waits for something, and a
\* dialog of the detail page is open only over that page's content.
AppsTypeOK ==
    /\ \A k \in Keys, t \in Targets : world[k][t] \in 0 .. MaxPid
    /\ DOMAIN entries \subseteq Runs
    /\ \A k \in DOMAIN entries :
          /\ DOMAIN snapshots(k) \subseteq Targets /\ snapshots(k) # <<>>
          /\ \A t \in DOMAIN snapshots(k) : snapshots(k)[t] \in 1 .. starts[k]
          /\ entries[k].instance.app \in Statuses
    /\ suppressed \subseteq Keys
    /\ \A s \in scans : DOMAIN s.views \subseteq Keys /\ s.by \in {"page", "clear"}
    /\ Cardinality({s \in scans : s.by = "page" /\ s.live}) <= 1
    /\ DOMAIN list.rows \subseteq Keys
    /\ \A o \in ops :
          /\ o.status \in {"sent", "begun", "ok", "error", "answered"}
          /\ (o.status = "begun") = (o.todo # <<>>)
          /\ (o.status = "answered") = (o.waits # {})
          /\ o.mounted => page = o.key
    /\ page \in Keys \union {NoKey}
    /\ \A i \in DOMAIN dialog :
          /\ i = 1
          /\ IF page = NoKey THEN dialog[i].kind \in {"row", "clear"}
             ELSE dialog[i].kind \in {"do", "remove"} /\ mounted(page) /\ dialog[i].key = page

\* A run stopped through the dashboard stays remembered until it is started again or
\* dismissed: no poll that still sees its dying processes drops it (overlay.go, applyEntry
\* and standaloneStop).  Not for a run an older scan has spoken for: that scan shows the
\* pids of an earlier start, and the entry is dropped as if it had been restarted.
Remembered == \A k \in remembered : k \in DOMAIN entries \/ k \in late

\* A run stopped through the dashboard after the list last showed it is in every list the
\* page receives since: dismissing an earlier stop of it does not hide this one
\* (overlay.go, List).  Not in a list scanned before it was started.
StoppedStaysListed ==
    \A k \in remembered \intersect seen : k \in DOMAIN list.rows \union list.older \union late

\* An instance removed while nothing of it ran is in no list scanned after that, until it
\* runs again (manager.go, Dismiss and ClearInactive; overlay.go, List).  Not when a scan
\* taken before the removal comes through the overlay after it and lifts the suppression.
HiddenStays == \A k \in hidden \intersect DOMAIN list.rows : k \in list.older \union late

=============================================================================
